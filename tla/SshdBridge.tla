------------------------------ MODULE SshdBridge ------------------------------
(***************************************************************************)
(* The byte bridge of an open session channel (sshd_session.cpp): SSH flow *)
(* control on one side, an ITS stream to cli or log on the other.  Bytes   *)
(* are counted, not named: both streams are FIFO.  What TCP carries is the *)
(* number of bytes (or of window credit) on the way in each direction; a   *)
(* message boundary may fall anywhere.                                     *)
(*                                                                         *)
(* The peer sends no more than its credit and never lets its own window    *)
(* exceed MaxRoom; it may send before it has a backend.  One request is    *)
(* granted: SshdSession and SshdPool have the repeated one.  The handlers  *)
(* run on the sshd task, one at a time.                                    *)
(***************************************************************************)
EXTENDS Integers

CONSTANTS
    LOCAL_WINDOW,   \* the window we open and replenish to
    Mod,            \* 2^32: the window fields are uint32_t
    PeerWindow,     \* the window the peer opens the channel with
    MaxRoom,        \* bound: the peer's window never exceeds this
    InCap, OutCap,  \* capacity of the ITS streams to and from the backend
    MaxOut,         \* bound: bytes the backend writes in all
    MaxDropped      \* bound: input bytes thrown away in all

ASSUME BridgeAssumption ==
    /\ LOCAL_WINDOW \in Nat /\ LOCAL_WINDOW >= 2
    /\ Mod \in Nat /\ LOCAL_WINDOW < Mod /\ MaxRoom < Mod
    /\ MaxRoom \in Nat /\ PeerWindow \in 0 .. MaxRoom
    /\ InCap \in Nat \ {0} /\ OutCap \in Nat \ {0}
    /\ MaxOut \in Nat /\ MaxDropped \in Nat

VARIABLES
    chanOpen, peerWindow, localWindow,      \* fields of the Session struct
    backend,        \* "none" yet; "open"; "gone": hung up, kick in our inbox; "freed"
    recvKick,       \* a recv event of the backend is in our inbox
    pend, buf,      \* bytes in the ITS streams from and to the backend
    dataOut, adjOut,    \* CHANNEL_DATA bytes / WINDOW_ADJUST credit to the peer
    dataIn, adjIn,      \* the same from the peer
    credit, room,   \* the peer's view: bytes it may send, bytes it will take
    written, got,   \* bytes the backend wrote, bytes the peer received
    dropped,        \* input bytes that no backend took
    ending          \* who ended the channel: "none", "backend", "peer"

vars == <<chanOpen, peerWindow, localWindow, backend, recvKick, pend, buf,
          dataOut, adjOut, dataIn, adjIn, credit, room, written, got,
          dropped, ending>>

server  == <<chanOpen, peerWindow, localWindow, ending>>
streams == <<backend, recvKick, pend, buf, written>>
wire    == <<dataOut, adjOut, dataIn, adjIn>>
peer    == <<credit, room, got>>

Least(a, b) == IF a <= b THEN a ELSE b

-----------------------------------------------------------------------------
(* The sshd task. *)

\* handle_channel_request, a shell, exec or log request that is granted.  exec
\* hands its command line to cli, of which the stream takes what fits.
handle_channel_request ==
    /\ chanOpen /\ backend = "none"
    /\ backend' = "open"
    /\ buf' \in 0 .. InCap
    /\ UNCHANGED <<server, recvKick, pend, written, wire, peer, dropped>>

\* session_on_backend_data: the loop ends when the window or the stream is
\* empty, whatever the packet size, so it moves the lesser of the two.
Drain(window) ==
    LET n == IF chanOpen /\ backend \in {"open", "gone"} THEN Least(pend, window) ELSE 0
    IN  /\ pend' = pend - n
        /\ dataOut' = dataOut + n
        /\ peerWindow' = window - n

on_backend_recv_cb ==
    /\ recvKick
    /\ recvKick' = FALSE
    /\ Drain(peerWindow)
    /\ UNCHANGED <<chanOpen, localWindow, ending, backend, buf, written,
                   adjOut, dataIn, adjIn, peer, dropped>>

\* Mutant: credit is booked but nothing is sent until the backend writes again.
Credited_NoDrain(add) ==
    /\ peerWindow' = (peerWindow + add) % Mod
    /\ UNCHANGED <<pend, dataOut>>

\* Mutant: a window update also counts bytes that are still on their way.
Credited_Twice(add) ==
    Drain((peerWindow + add + adjIn) % Mod)

Credited(add) == Drain((peerWindow + add) % Mod)

handle_channel_window_adjust(add) ==
    /\ chanOpen
    /\ add \in 1 .. adjIn
    /\ adjIn' = adjIn - add
    /\ Credited(add)
    /\ UNCHANGED <<chanOpen, localWindow, ending, backend, recvKick, buf,
                   written, adjOut, dataIn, peer, dropped>>

Threshold == LOCAL_WINDOW \div 2

\* What itsSend took of n bytes when it returned: all of them, or what fitted
\* if the backend did not read for 500 ms.
itsSend(n) ==
    {w \in 0 .. n : \/ w = n /\ buf + n <= InCap
                    \/ w = InCap - buf /\ w < n}

\* Mutant: the window is replenished but the peer is not told.
Replenish_Silent(window) ==
    IF window < Threshold
      THEN localWindow' = LOCAL_WINDOW /\ UNCHANGED adjOut
      ELSE localWindow' = window /\ UNCHANGED adjOut

\* Mutant: the peer is granted a full window on top of what it has left.
Replenish_Full(window) ==
    IF window < Threshold
      THEN localWindow' = LOCAL_WINDOW /\ adjOut' = adjOut + LOCAL_WINDOW
      ELSE localWindow' = window /\ UNCHANGED adjOut

Replenish(window) ==
    IF window < Threshold
      THEN /\ localWindow' = LOCAL_WINDOW
           /\ adjOut' = adjOut + ((LOCAL_WINDOW - window) % Mod)
      ELSE localWindow' = window /\ UNCHANGED adjOut

\* Without a backend nothing is taken, and nothing credited.
handle_channel_data(n) ==
    /\ chanOpen
    /\ n \in 1 .. dataIn
    /\ dataIn' = dataIn - n
    /\ \E w \in IF backend = "none" THEN {0} ELSE itsSend(n) :
          /\ dropped + (n - w) <= MaxDropped
          /\ dropped' = dropped + (n - w)
          /\ buf' = buf + w
          /\ IF w > 0 THEN Replenish((localWindow - w) % Mod)
                      ELSE UNCHANGED <<localWindow, adjOut>>
    /\ UNCHANGED <<chanOpen, peerWindow, ending, backend, recvKick, pend,
                   written, dataOut, adjIn, peer>>

\* Mutant: the channel is finalised without the last drain.
session_on_backend_close_Undrained ==
    /\ backend = "gone"
    /\ chanOpen
    /\ backend' = "freed"
    /\ chanOpen' = FALSE
    /\ ending' = "backend"
    /\ UNCHANGED <<peerWindow, localWindow, recvKick, pend, buf, written, wire,
                   peer, dropped>>

\* on_backend_disconnect_cb and session_on_backend_close: one last drain, then
\* exit-status, EOF, CLOSE, and the session is closed.
session_on_backend_close ==
    /\ backend = "gone"
    /\ chanOpen
    /\ Drain(peerWindow)
    /\ backend' = "freed"
    /\ chanOpen' = FALSE
    /\ ending' = "backend"
    /\ UNCHANGED <<localWindow, recvKick, buf, written, adjOut, dataIn, adjIn,
                   peer, dropped>>

\* handle_channel_close, the peer's TCP close or "sshd reset".
session_close ==
    /\ chanOpen
    /\ chanOpen' = FALSE
    /\ backend' = "freed"
    /\ ending' = "peer"
    /\ UNCHANGED <<peerWindow, localWindow, recvKick, pend, buf, written,
                   wire, peer, dropped>>

-----------------------------------------------------------------------------
(* The cli or log task. *)

\* Output; a byte of input may be what it answers.
BackendWrites(n) ==
    /\ backend = "open"
    /\ n \in 1 .. OutCap - pend
    /\ written + n <= MaxOut
    /\ written' = written + n
    /\ pend' = pend + n
    /\ recvKick' = TRUE
    /\ UNCHANGED <<server, backend, buf, wire, peer, dropped>>

BackendReads ==
    /\ backend = "open"
    /\ buf > 0
    /\ buf' = buf - 1
    /\ UNCHANGED <<server, backend, recvKick, pend, written, wire, peer, dropped>>

\* cli drains its outgoing stream before it disconnects, but not for ever, and
\* log does not wait: output may be queued.
BackendHangsUp ==
    /\ backend = "open"
    /\ backend' = "gone"
    /\ UNCHANGED <<server, recvKick, pend, buf, written, wire, peer, dropped>>

-----------------------------------------------------------------------------
(* The peer and the network. *)

PeerSends(n) ==
    /\ chanOpen
    /\ n \in 1 .. credit
    /\ credit' = credit - n
    /\ dataIn' = dataIn + n
    /\ UNCHANGED <<server, streams, dataOut, adjOut, adjIn, room, got, dropped>>

PeerReceives(n) ==
    /\ n \in 1 .. dataOut
    /\ dataOut' = dataOut - n
    /\ got' = got + n
    /\ room' = room - n
    /\ UNCHANGED <<server, streams, adjOut, dataIn, adjIn, credit, dropped>>

\* The peer's user reads: it opens its window again.
PeerGrants(n) ==
    /\ chanOpen
    /\ n \in 1 .. MaxRoom - room
    /\ adjIn' = adjIn + n
    /\ room' = room + n
    /\ UNCHANGED <<server, streams, dataOut, adjOut, dataIn, credit, got, dropped>>

PeerCredited ==
    /\ adjOut > 0
    /\ credit' = credit + adjOut
    /\ adjOut' = 0
    /\ UNCHANGED <<server, streams, dataOut, dataIn, adjIn, room, got, dropped>>

-----------------------------------------------------------------------------
\* handle_channel_open.
Init ==
    /\ chanOpen = TRUE
    /\ peerWindow = PeerWindow /\ room = PeerWindow
    /\ localWindow = LOCAL_WINDOW /\ credit = LOCAL_WINDOW
    /\ backend = "none" /\ recvKick = FALSE
    /\ pend = 0 /\ buf = 0
    /\ dataOut = 0 /\ adjOut = 0 /\ dataIn = 0 /\ adjIn = 0
    /\ written = 0 /\ got = 0 /\ dropped = 0
    /\ ending = "none"

Sshd ==
    \/ handle_channel_request
    \/ on_backend_recv_cb
    \/ \E add \in 1 .. adjIn : handle_channel_window_adjust(add)
    \/ \E n \in 1 .. dataIn : handle_channel_data(n)
    \/ session_on_backend_close
    \/ session_close

Backend ==
    \/ \E n \in 1 .. OutCap : BackendWrites(n)
    \/ BackendReads
    \/ BackendHangsUp

Peer ==
    \/ \E n \in 1 .. credit : PeerSends(n)
    \/ \E n \in 1 .. dataOut : PeerReceives(n)
    \/ \E n \in 1 .. MaxRoom : PeerGrants(n)
    \/ PeerCredited

Next == Sshd \/ Backend \/ Peer

Spec == Init /\ [][Next]_vars

\* The sshd task serves every event in its inbox (itsPoll), TCP delivers, and
\* the peer's user keeps reading.
Fairness ==
    /\ WF_vars(on_backend_recv_cb)
    /\ WF_vars(\E add \in 1 .. adjIn : handle_channel_window_adjust(add))
    /\ WF_vars(session_on_backend_close)
    /\ WF_vars(\E n \in 1 .. dataOut : PeerReceives(n))
    /\ WF_vars(\E n \in 1 .. MaxRoom : PeerGrants(n))

FairSpec == Spec /\ Fairness

-----------------------------------------------------------------------------
(* Properties. *)

FlagsOK ==
    /\ chanOpen \in BOOLEAN
    /\ recvKick \in BOOLEAN
    /\ backend \in {"none", "open", "gone", "freed"}
    /\ ending \in {"none", "backend", "peer"}

CountsOK ==
    /\ peerWindow \in 0 .. Mod - 1 /\ localWindow \in 0 .. Mod - 1
    /\ pend \in 0 .. OutCap /\ buf \in 0 .. InCap
    /\ dataOut \in Nat /\ adjOut \in Nat /\ dataIn \in Nat /\ adjIn \in Nat
    /\ credit \in Nat /\ room \in 0 .. MaxRoom
    /\ written \in 0 .. MaxOut /\ got \in Nat
    /\ dropped \in 0 .. MaxDropped

\* Counters are natural numbers within their bounds; the windows are uint32_t.
TypeOK == FlagsOK /\ CountsOK

\* session_on_backend_data never has more on the way than the peer's window
\* takes, whatever the interleaving of window updates, callbacks and hangup.
NeverOverrunsPeer == dataOut <= room

\* The subtraction in handle_channel_data never wraps: what the peer has on
\* the way fits in localWindow.
LocalWindowCovers == chanOpen => dataIn <= localWindow

\* "Replenish our local window after consuming, so the peer can keep sending":
\* while the channel is open the peer has credit, or gets some for what it has
\* on the way - until data for no backend and short writes, whose loss is never
\* credited back, have cost it the window above the threshold.
PeerCanSend ==
    chanOpen /\ dropped < Threshold => credit + adjOut + dataIn > 0

\* "trailing bytes from the backend reach the client before we send CHANNEL_EOF
\* + CHANNEL_CLOSE": when the backend's hangup ended the channel, all it wrote
\* is received or on its way.
NoTrailingLoss == ending = "backend" => got + dataOut = written

\* The last drain of session_on_backend_close is complete up to the window: if
\* output is lost to the backend's hangup, the peer's window was closed.
LossOnlyBehindWindow ==
    ending = "backend" => got + dataOut = written \/ peerWindow = 0

\* Output does not get stuck behind a closed window: what the backend wrote is
\* sent, or the channel ends.
OutputMoves == pend > 0 ~> (pend = 0 \/ ~chanOpen)

-----------------------------------------------------------------------------
(* The conservation laws behind the window properties. *)

\* Our send window and what is on the way add up to the window the peer gave.
OutLaw == peerWindow + dataOut + adjIn = room

\* What we think the peer may send is what it may, plus what is on the way,
\* plus what no backend took.
InLaw == localWindow = credit + adjOut + dataIn + dropped

\* The window never rests below the replenish threshold.
Replenished == localWindow \in Threshold .. LOCAL_WINDOW

\* Every byte the backend wrote is queued, on its way, or received.
OutputLaw == written = pend + dataOut + got

\* How the backend's hangup leaves the session.
Finalised ==
    ending = "backend" => ~chanOpen /\ backend = "freed" /\ (pend = 0 \/ peerWindow = 0)

BridgeInv == TypeOK /\ OutLaw /\ InLaw /\ Replenished /\ OutputLaw
=============================================================================
