----------------------------- MODULE SshdNetClose -----------------------------
(***************************************************************************)
(* The end of a session as the wire sees it: what the sshd task has queued *)
(* for net, and the race between its itsDisconnect and net's loop, which   *)
(* polls its inbox, writes to the socket what it took in the iteration     *)
(* before and takes the next bytes (esp-idf/src/sshd_session.cpp).         *)
(* Packets are counted.  net is external: its loop is the one the comment  *)
(* in session_close describes, on a socket that always accepts a write.    *)
(***************************************************************************)
EXTENDS Naturals

CONSTANTS MaxPackets        \* bound: packets sent on a session

ASSUME NetCloseAssumption == MaxPackets \in Nat

VARIABLES
    at,         \* the sshd task: "run", "drain", "delay", "done"
    how,        \* what ended the session: "none", "orderly", "error", "peer"
    said,       \* packets passed to send_raw_tcp
    queued,     \* packets in the ITS stream to net
    taken,      \* packets net has received but not yet written
    wire,       \* packets written to the socket
    kick,       \* our disconnect is in net's inbox
    fd,         \* net's socket is open
    net,        \* the next step of net's loop
    laps        \* steps of net's loop during the delay, up to one full lap

vars == <<at, how, said, queued, taken, wire, kick, fd, net, laps>>

NetSteps == {"poll", "write", "recv"}

\* A full iteration of net's loop.
Lap == 3

-----------------------------------------------------------------------------
(* The sshd task. *)

\* send_packet on a live session.
send_packet ==
    /\ at = "run"
    /\ said < MaxPackets
    /\ said' = said + 1
    /\ queued' = queued + 1
    /\ UNCHANGED <<at, how, taken, wire, kick, fd, net, laps>>

\* session_close is entered: from session_on_backend_close, after EXIT_STATUS,
\* EOF and CLOSE, or after the CLOSE of handle_channel_close.
session_close ==
    /\ at = "run"
    /\ at' = "drain"
    /\ how' = "orderly"
    /\ UNCHANGED <<said, queued, taken, wire, kick, fd, net, laps>>

\* send_disconnect queues DISCONNECT and gives up the handle, before the
\* session_close that follows.
send_disconnect ==
    /\ at = "run"
    /\ said' = said + 1
    /\ queued' = queued + 1
    /\ kick' = TRUE
    /\ at' = "drain"
    /\ how' = "error"
    /\ UNCHANGED <<taken, wire, fd, net, laps>>

\* The peer's MSG_DISCONNECT: the handle is given up without an answer.
dispatch_disconnect ==
    /\ at = "run"
    /\ kick' = TRUE
    /\ at' = "drain"
    /\ how' = "peer"
    /\ UNCHANGED <<said, queued, taken, wire, fd, net, laps>>

\* itsSendDrain: net has taken everything, or the handle is gone.
itsSendDrain ==
    /\ at = "drain"
    /\ queued = 0 \/ kick \/ ~fd
    /\ at' = "delay"
    /\ laps' = 0
    /\ UNCHANGED <<how, said, queued, taken, wire, kick, fd, net>>

\* Mutant: no delay between drain and disconnect.
DelayOver_AtOnce == TRUE

\* "Yield long enough for net to complete one full select+send cycle."
DelayOver == laps = Lap

vTaskDelay ==
    /\ at = "delay"
    /\ DelayOver
    /\ kick' = fd
    /\ at' = "done"
    /\ UNCHANGED <<how, said, queued, taken, wire, fd, net, laps>>

-----------------------------------------------------------------------------
(* net's loop. *)

NetStep(step, next) ==
    /\ net = step
    /\ net' = next
    /\ laps' = IF at = "delay" /\ laps < Lap THEN laps + 1 ELSE laps
    /\ UNCHANGED <<at, how, said>>

\* itsPoll(0): onDisconnect closes the socket and drops what is queued for it.
NetPolls ==
    /\ NetStep("poll", "write")
    /\ fd' = (fd /\ ~kick)
    /\ kick' = FALSE
    /\ queued' = IF kick THEN 0 ELSE queued
    /\ taken' = IF kick THEN 0 ELSE taken
    /\ UNCHANGED wire

NetWrites ==
    /\ NetStep("write", "recv")
    /\ wire' = wire + taken
    /\ taken' = 0
    /\ UNCHANGED <<queued, kick, fd>>

NetTakes ==
    /\ NetStep("recv", "poll")
    /\ taken' = IF fd THEN taken + queued ELSE taken
    /\ queued' = IF fd THEN 0 ELSE queued
    /\ UNCHANGED <<wire, kick, fd>>

-----------------------------------------------------------------------------
Init ==
    /\ at = "run" /\ how = "none"
    /\ said = 0 /\ queued = 0 /\ taken = 0 /\ wire = 0
    /\ kick = FALSE /\ fd = TRUE
    /\ net \in NetSteps
    /\ laps = 0

Sshd ==
    \/ send_packet
    \/ session_close
    \/ send_disconnect
    \/ dispatch_disconnect
    \/ itsSendDrain
    \/ vTaskDelay

Net == NetPolls \/ NetWrites \/ NetTakes

Next == Sshd \/ Net

Spec == Init /\ [][Next]_vars

-----------------------------------------------------------------------------
(* Properties. *)

\* "session_close drains s.tcp before hard-closing so the queued CHANNEL_DATA /
\* EOF / CLOSE ... actually reach the wire": after an orderly end the socket is
\* not closed before net has written every packet, however net's loop and the
\* sshd task interleave.
OrderlyCloseDelivers == ~fd /\ how = "orderly" => wire = said

=============================================================================
