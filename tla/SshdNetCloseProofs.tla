------------------------- MODULE SshdNetCloseProofs -------------------------
(***************************************************************************)
(* Proof that an orderly close loses no packet, for any number of packets  *)
(* and every interleaving with net's loop.                                 *)
(***************************************************************************)
EXTENDS SshdNetClose, TLAPS

CloseTypes ==
  /\ at \in {"run", "drain", "delay", "done"}
  /\ how \in {"none", "orderly", "error", "peer"}
  /\ net \in NetSteps
  /\ kick \in BOOLEAN /\ fd \in BOOLEAN
  /\ said \in Nat /\ queued \in Nat /\ taken \in Nat /\ wire \in Nat /\ laps \in 0 .. Lap

\* Until net has closed the socket, a packet is queued, taken or written.
Conserved ==
  how \in {"none", "orderly"} => said = queued + taken + wire

\* Where an orderly close stands: nobody else disconnects, and what is left after
\* the drain is written within the lap that the delay waits for.
Orderly ==
  /\ at = "run" <=> how = "none"
  /\ at # "done" /\ how \in {"none", "orderly"} => fd /\ ~kick
  /\ at = "delay" /\ how = "orderly" =>
        /\ queued = 0
        /\ taken # 0 => \/ net = "recv" /\ laps = 0
                        \/ net = "poll" /\ laps <= 1
                        \/ net = "write" /\ laps <= 2
  /\ at = "done" /\ how = "orderly" => queued = 0 /\ taken = 0

CloseInv == CloseTypes /\ Conserved /\ Orderly

LEMMA CloseInitInv == Init => CloseInv
<1> SUFFICES ASSUME Init PROVE CloseInv
  OBVIOUS
<1>1. kick \in BOOLEAN /\ fd \in BOOLEAN /\ fd /\ ~kick
  BY DEF Init
<1>2. CloseTypes
  BY <1>1 DEF Init, CloseTypes, Lap
<1> QED
  BY <1>1, <1>2 DEF Init, CloseInv, Conserved, Orderly

\* The steps of the sshd task preserve the invariant.
LEMMA SshdCloseInv ==
  ASSUME CloseInv, Sshd
  PROVE  CloseInv'
<1> USE NetCloseAssumption DEF CloseInv, CloseTypes, Conserved, Orderly, Lap
<1>1. CASE send_packet
  BY <1>1 DEF send_packet
<1>2. CASE session_close
  BY <1>2 DEF session_close
<1>3. CASE send_disconnect
  BY <1>3 DEF send_disconnect
<1>4. CASE dispatch_disconnect
  BY <1>4 DEF dispatch_disconnect
<1>5. CASE itsSendDrain
  BY <1>5 DEF itsSendDrain, NetSteps
<1>6. CASE vTaskDelay
  BY <1>6 DEF vTaskDelay, DelayOver
<1> QED
  BY <1>1, <1>2, <1>3, <1>4, <1>5, <1>6 DEF Sshd

\* So do the steps of net's loop.
LEMMA NetCloseInv ==
  ASSUME CloseInv, Net
  PROVE  CloseInv'
<1> USE DEF CloseInv, CloseTypes, Conserved, Orderly, Lap, NetSteps, NetStep
<1>1. CASE NetPolls
  <2>1. CASE kick
    <3>1. fd' \in BOOLEAN /\ kick' \in BOOLEAN /\ ~kick'
      BY <1>1, <2>1 DEF NetPolls
    <3>2. how \in {"none", "orderly"} => at = "done" /\ how = "orderly"
      BY <2>1
    <3>3. /\ queued' = 0 /\ taken' = 0 /\ wire' = wire /\ said' = said /\ how' = how
          /\ at' = at /\ net' = "write" /\ laps' \in 0 .. 3
      BY <1>1, <2>1 DEF NetPolls
    <3> QED
      BY <3>1, <3>2, <3>3
  <2>2. CASE ~kick
    <3>1. fd' = fd /\ kick' \in BOOLEAN /\ ~kick'
      BY <1>1, <2>2 DEF NetPolls
    <3>2. /\ UNCHANGED <<queued, taken, wire, said, how, at>>
          /\ net = "poll" /\ net' = "write" /\ laps' \in 0 .. 3 /\ laps' <= laps + 1
      BY <1>1, <2>2 DEF NetPolls
    <3> QED
      BY <2>2, <3>1, <3>2
  <2> QED
    BY <2>1, <2>2
<1>2. CASE NetWrites
  BY <1>2 DEF NetWrites
<1>3. CASE NetTakes
  BY <1>3 DEF NetTakes
<1> QED
  BY <1>1, <1>2, <1>3 DEF Net

\* After an orderly end - drain, delay of one lap of net's loop, disconnect - net
\* closes the socket only when every packet that was sent is on the wire.
THEOREM OrderlyCloseLosesNothing == Spec => []OrderlyCloseDelivers
<1>1. CloseInv /\ [Next]_vars => CloseInv'
  <2> SUFFICES ASSUME CloseInv, [Next]_vars PROVE CloseInv'
    OBVIOUS
  <2>1. CASE UNCHANGED vars
    BY <2>1 DEF vars, CloseInv, CloseTypes, Conserved, Orderly
  <2> QED
    BY <2>1, SshdCloseInv, NetCloseInv DEF Next
<1>2. CloseInv => OrderlyCloseDelivers
  BY DEF CloseInv, CloseTypes, Conserved, Orderly, OrderlyCloseDelivers
<1> QED
  BY <1>1, <1>2, CloseInitInv, PTL DEF Spec
=============================================================================
