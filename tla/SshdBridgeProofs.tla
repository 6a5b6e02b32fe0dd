-------------------------- MODULE SshdBridgeProofs --------------------------
(***************************************************************************)
(* Proofs about SshdBridge, for every window size, every stream capacity   *)
(* and every bound.                                                        *)
(***************************************************************************)
EXTENDS SshdBridge, TLAPS

\* A value that fits in uint32_t is not changed by the wrap.
LEMMA NoWrap ==
  ASSUME NEW x \in Int, 0 <= x, x < Mod
  PROVE  x % Mod = x
  BY BridgeAssumption

\* Half of the window is at least one byte and less than the window.
LEMMA Half ==
  /\ Threshold \in Nat
  /\ 1 <= Threshold
  /\ Threshold < LOCAL_WINDOW
  BY BridgeAssumption DEF Threshold

\* A drain moves bytes from the stream to the wire within the window.
LEMMA DrainFacts ==
  ASSUME TypeOK, NEW window \in 0 .. Mod - 1, Drain(window)
  PROVE  \E n \in 0 .. pend :
            /\ n <= window
            /\ pend' = pend - n
            /\ dataOut' = dataOut + n
            /\ peerWindow' = window - n
  BY BridgeAssumption DEF Drain, Least, TypeOK, CountsOK

\* The handlers of the sshd task preserve the invariant.
LEMMA SshdInv ==
  ASSUME BridgeInv, Sshd
  PROVE  BridgeInv'
<1> USE BridgeAssumption
<1>1. ASSUME on_backend_recv_cb PROVE BridgeInv'
  <2>1. PICK n \in 0 .. pend : /\ n <= peerWindow
                               /\ pend' = pend - n
                               /\ dataOut' = dataOut + n
                               /\ peerWindow' = peerWindow - n
    BY <1>1, DrainFacts DEF on_backend_recv_cb, BridgeInv, TypeOK, CountsOK
  <2>2. TypeOK'
    <3>1. FlagsOK'
      BY <1>1 DEF on_backend_recv_cb, BridgeInv, TypeOK, FlagsOK
    <3>2. CountsOK'
      BY <1>1, <2>1 DEF on_backend_recv_cb, peer, BridgeInv, TypeOK, CountsOK, OutLaw
    <3> QED
      BY <3>1, <3>2 DEF TypeOK
  <2>3. OutLaw' /\ OutputLaw'
    BY <1>1, <2>1 DEF on_backend_recv_cb, peer, BridgeInv, TypeOK, CountsOK, OutLaw, OutputLaw
  <2>4. InLaw' /\ Replenished'
    BY <1>1, <2>1 DEF on_backend_recv_cb, peer, BridgeInv, InLaw, Replenished
  <2> QED
    BY <2>2, <2>3, <2>4 DEF BridgeInv
<1>2. ASSUME NEW add \in 1 .. adjIn, handle_channel_window_adjust(add)
      PROVE  BridgeInv'
  <2>1. peerWindow + add \in 0 .. Mod - 1
    BY DEF BridgeInv, TypeOK, CountsOK, OutLaw
  <2>2. (peerWindow + add) % Mod = peerWindow + add
    BY <2>1, NoWrap
  <2>3. PICK n \in 0 .. pend : /\ n <= peerWindow + add
                               /\ pend' = pend - n
                               /\ dataOut' = dataOut + n
                               /\ peerWindow' = (peerWindow + add) - n
    <3> DEFINE window == (peerWindow + add) % Mod
    <3>1. Drain(window)
      BY <1>2 DEF handle_channel_window_adjust, Credited
    <3>2. window = peerWindow + add /\ window \in 0 .. Mod - 1
      BY <2>1, <2>2
    <3> HIDE DEF window
    <3>3. \E n \in 0 .. pend : /\ n <= window
                               /\ pend' = pend - n
                               /\ dataOut' = dataOut + n
                               /\ peerWindow' = window - n
      BY <3>1, <3>2, DrainFacts DEF BridgeInv
    <3>4. PICK n \in 0 .. pend : /\ n <= window
                                 /\ pend' = pend - n
                                 /\ dataOut' = dataOut + n
                                 /\ peerWindow' = window - n
      BY <3>3
    <3>5. n <= peerWindow + add
      BY <3>2, <3>4
    <3>6. peerWindow' = (peerWindow + add) - n
      BY <3>2, <3>4
    <3> QED
      BY <3>4, <3>5, <3>6
  <2>4. TypeOK'
    <3>1. FlagsOK'
      BY <1>2 DEF handle_channel_window_adjust, BridgeInv, TypeOK, FlagsOK
    <3>2. CountsOK'
      BY <1>2, <2>3 DEF handle_channel_window_adjust, peer, BridgeInv, TypeOK, CountsOK, OutLaw
    <3> QED
      BY <3>1, <3>2 DEF TypeOK
  <2>5. OutLaw' /\ OutputLaw'
    BY <1>2, <2>3 DEF handle_channel_window_adjust, peer, BridgeInv, TypeOK, CountsOK, OutLaw, OutputLaw
  <2>6. InLaw' /\ Replenished'
    BY <1>2, <2>3 DEF handle_channel_window_adjust, peer, BridgeInv, InLaw, Replenished
  <2> QED
    BY <2>4, <2>5, <2>6 DEF BridgeInv
<1>3. ASSUME NEW n \in 1 .. dataIn, handle_channel_data(n) PROVE BridgeInv'
  <2>1. PICK w \in IF backend = "none" THEN {0} ELSE itsSend(n) :
          /\ dropped + (n - w) <= MaxDropped
          /\ dropped' = dropped + (n - w)
          /\ buf' = buf + w
          /\ IF w > 0 THEN Replenish((localWindow - w) % Mod)
                      ELSE UNCHANGED <<localWindow, adjOut>>
    BY <1>3 DEF handle_channel_data
  <2>2. w \in 0 .. n /\ buf + w <= InCap
    BY <2>1 DEF itsSend, BridgeInv, TypeOK, CountsOK
  <2>3. localWindow - w \in 0 .. Mod - 1
    BY <2>2 DEF BridgeInv, TypeOK, CountsOK, InLaw
  <2>4. (localWindow - w) % Mod = localWindow - w
    BY <2>3, NoWrap
  <2>5. /\ localWindow' \in Threshold .. LOCAL_WINDOW
        /\ adjOut' \in Nat
        /\ localWindow' = (localWindow - w) + (adjOut' - adjOut)
    <3>1. CASE w = 0
      BY <2>1, <3>1 DEF BridgeInv, TypeOK, CountsOK, Replenished
    <3>2. CASE w > 0 /\ localWindow - w < Threshold
      <4>1. LOCAL_WINDOW - (localWindow - w) \in 0 .. Mod - 1
        BY <2>3, <3>2, Half DEF BridgeInv, TypeOK, CountsOK
      <4>2. (LOCAL_WINDOW - (localWindow - w)) % Mod = LOCAL_WINDOW - (localWindow - w)
        BY <4>1, NoWrap
      <4>3. /\ localWindow' = LOCAL_WINDOW
            /\ adjOut' = adjOut + (LOCAL_WINDOW - (localWindow - w))
        BY <2>1, <2>4, <3>2, <4>2 DEF Replenish
      <4> QED
        BY <2>2, <4>1, <4>3, Half DEF BridgeInv, TypeOK, CountsOK
    <3>3. CASE w > 0 /\ ~(localWindow - w < Threshold)
      <4>1. localWindow' = localWindow - w /\ adjOut' = adjOut
        BY <2>1, <2>4, <3>3 DEF Replenish
      <4> QED
        BY <2>2, <3>3, <4>1, Half DEF BridgeInv, TypeOK, CountsOK, Replenished
    <3> QED
      BY <2>2, <3>1, <3>2, <3>3
  <2>6. /\ dataIn' = dataIn - n
        /\ UNCHANGED <<chanOpen, peerWindow, ending, backend, recvKick, pend,
                       written, dataOut, adjIn, credit, room, got>>
    BY <1>3 DEF handle_channel_data, peer
  <2>7. TypeOK'
    <3>1. FlagsOK'
      BY <2>6 DEF BridgeInv, TypeOK, FlagsOK
    <3>2. localWindow' \in 0 .. Mod - 1 /\ adjOut' \in Nat
      <4>1. localWindow' \in Threshold .. LOCAL_WINDOW /\ adjOut' \in Nat
        BY <2>5
      <4> QED
        BY <4>1, Half
    <3>3. /\ dropped' \in 0 .. MaxDropped
          /\ buf' \in 0 .. InCap
          /\ dataIn' \in Nat
      BY <2>1, <2>2, <2>6 DEF BridgeInv, TypeOK, CountsOK
    <3>4. CountsOK'
      BY <2>6, <3>2, <3>3 DEF BridgeInv, TypeOK, CountsOK
    <3> QED
      BY <3>1, <3>4 DEF TypeOK
  <2>8. InLaw' /\ Replenished'
    <3>1. InLaw'
      <4>1. dropped' = dropped + (n - w) /\ dataIn' = dataIn - n /\ credit' = credit
        BY <2>1, <2>6
      <4>2. /\ localWindow \in Int /\ adjOut \in Int /\ dataIn \in Int
            /\ dropped \in Int /\ credit \in Int /\ localWindow' \in Int
            /\ adjOut' \in Int /\ w \in Int /\ n \in Int
        BY <2>2, <2>5, Half DEF BridgeInv, TypeOK, CountsOK
      <4>3. localWindow = credit + adjOut + dataIn + dropped
        BY DEF BridgeInv, InLaw
      <4>4. localWindow' = (localWindow - w) + (adjOut' - adjOut)
        BY <2>5
      <4>5. localWindow' = credit + adjOut' + (dataIn - n) + (dropped + (n - w))
        BY <4>2, <4>3, <4>4
      <4> QED
        BY <4>1, <4>5 DEF InLaw
    <3>2. Replenished'
      BY <2>5 DEF Replenished
    <3> QED
      BY <3>1, <3>2
  <2>9. OutLaw' /\ OutputLaw'
    BY <2>6 DEF BridgeInv, OutLaw, OutputLaw
  <2> QED
    BY <2>7, <2>8, <2>9 DEF BridgeInv
<1>4. ASSUME session_on_backend_close PROVE BridgeInv'
  <2>1. PICK n \in 0 .. pend : /\ n <= peerWindow
                               /\ pend' = pend - n
                               /\ dataOut' = dataOut + n
                               /\ peerWindow' = peerWindow - n
    BY <1>4, DrainFacts DEF session_on_backend_close, BridgeInv, TypeOK, CountsOK
  <2>2. TypeOK'
    <3>1. FlagsOK'
      BY <1>4 DEF session_on_backend_close, BridgeInv, TypeOK, FlagsOK
    <3>2. CountsOK'
      BY <1>4, <2>1 DEF session_on_backend_close, peer, BridgeInv, TypeOK, CountsOK, OutLaw
    <3> QED
      BY <3>1, <3>2 DEF TypeOK
  <2>3. OutLaw' /\ OutputLaw'
    BY <1>4, <2>1 DEF session_on_backend_close, peer, BridgeInv, TypeOK, CountsOK, OutLaw, OutputLaw
  <2>4. InLaw' /\ Replenished'
    BY <1>4, <2>1 DEF session_on_backend_close, peer, BridgeInv, InLaw, Replenished
  <2> QED
    BY <2>2, <2>3, <2>4 DEF BridgeInv
<1>5. ASSUME session_close PROVE BridgeInv'
  BY <1>5 DEF session_close, wire, peer, BridgeInv, TypeOK, FlagsOK, CountsOK,
              OutLaw, InLaw, Replenished, OutputLaw
<1>6. ASSUME handle_channel_request PROVE BridgeInv'
  BY <1>6 DEF handle_channel_request, server, wire, peer, BridgeInv, TypeOK, FlagsOK,
              CountsOK, OutLaw, InLaw, Replenished, OutputLaw
<1> QED
  BY <1>1, <1>2, <1>3, <1>4, <1>5, <1>6 DEF Sshd

\* The cli and log tasks preserve the invariant.
LEMMA BackendInv ==
  ASSUME BridgeInv, Backend
  PROVE  BridgeInv'
<1> USE BridgeAssumption DEF BridgeInv, TypeOK, FlagsOK, CountsOK, OutLaw,
      InLaw, Replenished, OutputLaw, server, wire, peer
<1>1. ASSUME NEW n \in 1 .. OutCap, BackendWrites(n) PROVE BridgeInv'
  BY <1>1 DEF BackendWrites
<1>2. ASSUME BackendReads PROVE BridgeInv'
  BY <1>2 DEF BackendReads
<1>3. ASSUME BackendHangsUp PROVE BridgeInv'
  BY <1>3 DEF BackendHangsUp
<1> QED
  BY <1>1, <1>2, <1>3 DEF Backend

\* So do the peer and the network.
LEMMA PeerInv ==
  ASSUME BridgeInv, Peer
  PROVE  BridgeInv'
<1> USE BridgeAssumption DEF BridgeInv, TypeOK, FlagsOK, CountsOK, OutLaw,
      InLaw, Replenished, OutputLaw, server, streams, peer
<1>1. ASSUME NEW n \in 1 .. credit, PeerSends(n) PROVE BridgeInv'
  BY <1>1 DEF PeerSends
<1>2. ASSUME NEW n \in 1 .. dataOut, PeerReceives(n) PROVE BridgeInv'
  BY <1>2 DEF PeerReceives
<1>3. ASSUME NEW n \in 1 .. MaxRoom, PeerGrants(n) PROVE BridgeInv'
  BY <1>3 DEF PeerGrants
<1>4. ASSUME PeerCredited PROVE BridgeInv'
  BY <1>4 DEF PeerCredited
<1> QED
  BY <1>1, <1>2, <1>3, <1>4 DEF Peer

LEMMA BridgeInitInv == Init => BridgeInv
<1> SUFFICES ASSUME Init PROVE BridgeInv
  OBVIOUS
<1>1. FlagsOK
  BY DEF Init, FlagsOK
<1>2. CountsOK
  BY BridgeAssumption DEF Init, CountsOK
<1>3. OutLaw /\ InLaw /\ OutputLaw
  BY BridgeAssumption DEF Init, OutLaw, InLaw, OutputLaw
<1>4. Replenished
  BY BridgeAssumption, Half DEF Init, Replenished
<1> QED
  BY <1>1, <1>2, <1>3, <1>4 DEF BridgeInv, TypeOK

\* Types and conservation laws hold in every reachable state of the bridge.
THEOREM BridgeSafe == Spec => []BridgeInv
<1>1. BridgeInv /\ [Next]_vars => BridgeInv'
  <2> SUFFICES ASSUME BridgeInv, [Next]_vars PROVE BridgeInv'
    OBVIOUS
  <2>1. CASE UNCHANGED vars
    BY <2>1 DEF vars, BridgeInv, TypeOK, FlagsOK, CountsOK, OutLaw, InLaw,
                Replenished, OutputLaw
  <2> QED
    BY <2>1, SshdInv, BackendInv, PeerInv DEF Next
<1> QED
  BY <1>1, BridgeInitInv, PTL DEF Spec

\* The peer's window is never overrun.
THEOREM PeerNeverOverrun == Spec => []NeverOverrunsPeer
<1>1. BridgeInv => NeverOverrunsPeer
  BY BridgeAssumption DEF BridgeInv, TypeOK, CountsOK, OutLaw, NeverOverrunsPeer
<1> QED
  BY <1>1, BridgeSafe, PTL

\* What a peer that respects its credit has on the way never exceeds localWindow.
THEOREM WindowCovers == Spec => []LocalWindowCovers
<1>1. BridgeInv => LocalWindowCovers
  BY BridgeAssumption DEF BridgeInv, TypeOK, CountsOK, InLaw, LocalWindowCovers
<1> QED
  BY <1>1, BridgeSafe, PTL

\* Counters stay within their bounds and the windows within uint32_t.
THEOREM BridgeTypes == Spec => []TypeOK
  BY BridgeSafe, PTL DEF BridgeInv

\* Replenishing at half the window never leaves the peer without credit, unless
\* half a window in all was taken by no backend.
THEOREM PeerNeverStarves == Spec => []PeerCanSend
<1>1. BridgeInv => PeerCanSend
  BY Half DEF BridgeInv, TypeOK, CountsOK, InLaw, Replenished, PeerCanSend
<1> QED
  BY <1>1, BridgeSafe, PTL

\* The drain that ends the channel stops at the end of the stream or of the
\* window, and nothing moves afterwards.
LEMMA FinalisedStep ==
  ASSUME BridgeInv, Finalised, [Next]_vars
  PROVE  Finalised'
<1> USE BridgeAssumption
<1>1. ASSUME on_backend_recv_cb PROVE Finalised'
  BY <1>1 DEF on_backend_recv_cb, Drain, Finalised, BridgeInv, TypeOK, CountsOK
<1>2. ASSUME session_on_backend_close PROVE Finalised'
  BY <1>2 DEF session_on_backend_close, Drain, Least, Finalised, BridgeInv, TypeOK, CountsOK
<1>3. ASSUME NEW add \in 1 .. adjIn, handle_channel_window_adjust(add) PROVE Finalised'
  BY <1>3 DEF handle_channel_window_adjust, Finalised
<1>4. ASSUME NEW n \in 1 .. dataIn, handle_channel_data(n) PROVE Finalised'
  BY <1>4 DEF handle_channel_data, Finalised
<1>5. CASE session_close
  BY <1>5 DEF session_close, Finalised
<1>6. CASE Backend
  BY <1>6 DEF Backend, BackendWrites, BackendReads, BackendHangsUp, server, Finalised
<1>7. CASE Peer
  BY <1>7 DEF Peer, PeerSends, PeerReceives, PeerGrants, PeerCredited, server,
              streams, Finalised
<1>8. CASE UNCHANGED vars
  BY <1>8 DEF vars, Finalised
<1>9. CASE handle_channel_request
  BY <1>9 DEF handle_channel_request, server, Finalised
<1> QED
  BY <1>1, <1>2, <1>3, <1>4, <1>5, <1>6, <1>7, <1>8, <1>9 DEF Next, Sshd

\* Output is lost to a hangup only behind a closed window.
THEOREM HangupKeepsOutput == Spec => []LossOnlyBehindWindow
<1>1. Init => Finalised
  BY DEF Init, Finalised
<1>2. BridgeInv /\ Finalised => LossOnlyBehindWindow
  BY DEF BridgeInv, TypeOK, CountsOK, OutputLaw, Finalised, LossOnlyBehindWindow
<1> QED
  BY <1>1, <1>2, FinalisedStep, BridgeSafe, PTL DEF Spec
=============================================================================
