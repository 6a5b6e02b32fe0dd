---------------------------- MODULE SshdPoolProofs ----------------------------
(***************************************************************************)
(* Proofs about SshdPool: for any number of slots, connections and         *)
(* backends and any depth of the inbox, with "sshd reset" at any moment.   *)
(***************************************************************************)
EXTENDS SshdPool, TLAPS

Handles == Conns \cup {None}

Doing == [at : Places, s : 0 .. SSHD_MAX_SESSIONS, for : Conns \cup {None}, stray : BOOLEAN]

\* The inbox is left alone, or its first event is taken.
Shifted == inbox' = inbox \/ (inbox # <<>> /\ inbox' = Tail(inbox))

LEMMA ShiftFacts ==
  ASSUME TypeOK, Shifted
  PROVE  /\ inbox' \in Seq(Events)
         /\ \E d \in {0, 1} : \A i \in DOMAIN inbox' :
               i \in Nat /\ i + d \in DOMAIN inbox /\ inbox'[i] = inbox[i + d]
<1>1. inbox \in Seq(Events)
  BY DEF TypeOK
<1>2. CASE inbox' = inbox
  <2>1. \A i \in DOMAIN inbox' : i \in Nat /\ i + 0 \in DOMAIN inbox /\ inbox'[i] = inbox[i + 0]
    BY <1>1, <1>2
  <2> QED
    BY <1>1, <1>2, <2>1
<1>3. CASE inbox # <<>> /\ inbox' = Tail(inbox)
  <2>1. \A i \in DOMAIN inbox' : i \in Nat /\ i + 1 \in DOMAIN inbox /\ inbox'[i] = inbox[i + 1]
    BY <1>1, <1>3
  <2> QED
    BY <1>1, <1>3, <2>1
<1> QED
  BY <1>2, <1>3 DEF Shifted

\* The event that is polled.
LEMMA PollFacts ==
  ASSUME TypeOK, NEW ev, Polls(ev)
  PROVE  /\ doing["sshd"].at = "poll"
         /\ inbox # <<>> /\ inbox' = Tail(inbox) /\ Shifted
         /\ 1 \in DOMAIN inbox /\ Head(inbox) = inbox[1]
         /\ inbox[1] \in Events /\ inbox[1].ev = ev
<1>1. inbox \in Seq(Events) /\ inbox # <<>>
  BY DEF TypeOK, Polls
<1>2. 1 \in DOMAIN inbox /\ Head(inbox) = inbox[1] /\ inbox[1] \in Events
  BY <1>1
<1> QED
  BY <1>1, <1>2 DEF Polls, Shifted

\* An event's number is that of a connection, a kick's that of a backend.
LEMMA EventFacts ==
  ASSUME NEW e \in Events
  PROVE  /\ e.ev \in {"connect", "recv", "disconnect"} => e.n \in Conns
         /\ e.ev = "kick" => e.n \in Backends
  BY DEF Events

\* What the inbox announces stays true when connections go down that were up,
\* backends are given up or opened, and the connection q, which is not announced
\* any more, is taken.
LEMMA AnnouncedShift ==
  ASSUME TypeOK, Announced, Shifted, NEW q \in Handles,
         q \in Conns => \A i \in DOMAIN inbox' : inbox'[i].ev = "connect" => inbox'[i].n # q,
         \A c \in Conns : \/ conn'[c] = conn[c]
                          \/ conn[c] \in Live \cup {"down"} /\ conn'[c] = "down"
                          \/ c = q /\ conn[c] = "calling" /\ conn'[c] \in Live \cup {"down"},
         \A b \in Backends : \/ back'[b].st \in {back[b].st, "down"}
                             \/ back[b].st \notin {"gone", "down"},
         doing'["sshd"].at = "open" => \/ q \in Conns /\ doing'["sshd"].for = q
                                       \/ doing'["sshd"] = doing["sshd"]
  PROVE  Announced'
<1>1. inbox' \in Seq(Events)
  BY ShiftFacts
<1>2. PICK d \in {0, 1} : \A i \in DOMAIN inbox' :
        i \in Nat /\ i + d \in DOMAIN inbox /\ inbox'[i] = inbox[i + d]
  BY ShiftFacts
<1> SUFFICES ASSUME NEW i \in DOMAIN inbox'
             PROVE  LET n == inbox'[i].n
                    IN  /\ inbox'[i].ev = "connect" =>
                             /\ conn'[n] = "calling"
                             /\ doing'["sshd"].at = "open" => doing'["sshd"].for # n
                             /\ \A j \in DOMAIN inbox' : inbox'[j].ev = "connect" /\ inbox'[j].n = n => i = j
                        /\ inbox'[i].ev = "recv" => conn'[n] \in Live \cup {"down"}
                        /\ inbox'[i].ev = "disconnect" => conn'[n] \in {"gone", "down"}
                        /\ inbox'[i].ev = "kick" => back'[n].st \in {"gone", "down"}
  BY DEF Announced
<1>3. /\ inbox'[i].ev \in {"connect", "recv", "disconnect"} => inbox'[i].n \in Conns
      /\ inbox'[i].ev = "kick" => inbox'[i].n \in Backends
  BY <1>1, EventFacts
<1>4. inbox'[i] = inbox[i + d] /\ i + d \in DOMAIN inbox
  BY <1>2
<1>5. ASSUME inbox'[i].ev = "connect"
      PROVE  /\ conn'[inbox'[i].n] = "calling"
             /\ doing'["sshd"].at = "open" => doing'["sshd"].for # inbox'[i].n
  <2>1. inbox'[i].n # q /\ inbox'[i].n \in Conns
    BY <1>3, <1>5 DEF Handles, Conns, None
  <2>2. /\ conn[inbox'[i].n] = "calling"
        /\ doing["sshd"].at = "open" => doing["sshd"].for # inbox'[i].n
    BY <1>4, <1>5 DEF Announced
  <2> QED
    BY <2>1, <2>2 DEF Live
<1>6. ASSUME inbox'[i].ev = "connect", NEW j \in DOMAIN inbox',
             inbox'[j].ev = "connect", inbox'[j].n = inbox'[i].n
      PROVE  i = j
  <2>1. inbox'[j] = inbox[j + d] /\ j + d \in DOMAIN inbox
    BY <1>2
  <2>2. i + d = j + d
    BY <1>4, <1>6, <2>1 DEF Announced
  <2>3. i \in Nat /\ j \in Nat /\ d \in Nat
    BY <1>2
  <2> QED
    BY <2>2, <2>3
<1>7. inbox'[i].ev = "recv" => conn'[inbox'[i].n] \in Live \cup {"down"}
  BY <1>3, <1>4 DEF Announced, Live
<1>8. inbox'[i].ev = "disconnect" => conn'[inbox'[i].n] \in {"gone", "down"}
  BY <1>3, <1>4 DEF Announced
<1>9. inbox'[i].ev = "kick" => back'[inbox'[i].n].st \in {"gone", "down"}
  BY <1>3, <1>4 DEF Announced
<1> QED
  BY <1>5, <1>6, <1>7, <1>8, <1>9

\* A step elsewhere: the slot, the tasks in it, the connections and the backends
\* that name it are what they were, or have hung up.
LEMMA Elsewhere ==
  ASSUME NEW x \in Slots, TypeOK, SlotSound(x), sess'[x] = sess[x], slotInUse'[x] = slotInUse[x],
         \A t \in Tasks : Inside(t, x) \/ Inside(t, x)' => doing'[t] = doing[t],
         Opening(x)' <=> Opening(x),
         \A c \in Conns : conn'[c] \in Live /\ ref'[c] = x => conn[c] \in Live /\ ref[c] = x,
         \A c \in Conns : sess[x].tcp = c => /\ conn[c] \in Live => conn'[c] \in Live
                                             /\ conn[c] = "down" => conn'[c] = "down",
         \A b \in Backends : Runs(b)' /\ back'[b].s = x =>
                                Runs(b) /\ back[b].s = x /\ back'[b].stray = back[b].stray,
         \A b \in Backends : sess[x].backend = b => back'[b].c = back[b].c
  PROVE  SlotSound(x)'
<1>1. sess[x].tcp \in Handles /\ sess[x].backend \in Backends \cup {None}
  BY DEF TypeOK, Session, Handles
<1>2. \A t \in Tasks : Inside(t, x)' <=> Inside(t, x)
  BY DEF Inside
<1>3. CloseSound(x)'
  <2> SUFFICES ASSUME NEW t \in Tasks, Inside(t, x)'
               PROVE  /\ sess'[x].backend = None
                      /\ doing'[t].at = "drain" => doing'[t].stray \/ sess'[x].tcp \in {doing'[t].for, None}
                      /\ doing'[t].at = "notcp" => sess'[x].tcp = None \/ conn'[sess'[x].tcp] = "down"
                      /\ doing'[t].at \in {"closed", "slot", "noslot"} => sess'[x].tcp = None
                      /\ doing'[t].at = "noslot" => ~slotInUse'[x]
    BY DEF CloseSound
  <2>1. Inside(t, x) /\ doing'[t] = doing[t]
    BY <1>2
  <2> QED
    BY <1>1, <2>1 DEF SlotSound, CloseSound, Handles
<1>4. slotInUse'[x] =>
          \/ Opening(x)'
          \/ /\ sess'[x].slot
             /\ \/ sess'[x].tcp # None /\ conn'[sess'[x].tcp] \in Live
                \/ \E t \in Tasks : Inside(t, x)'
  BY <1>1, <1>2 DEF SlotSound, Handles
<1>5. Opening(x)' =>
          /\ slotInUse'[x] /\ sess'[x].tcp = None /\ sess'[x].backend = None
          /\ \A t \in Tasks : ~Inside(t, x)'
  BY <1>2 DEF SlotSound
<1>6. \A c \in Conns : conn'[c] \in Live /\ ref'[c] = x => sess'[x].tcp = c
  BY DEF SlotSound
<1>7. sess'[x].backend # None => back'[sess'[x].backend].c = sess'[x].tcp
  BY <1>1 DEF SlotSound
<1>8. \A b \in Backends : Runs(b)' /\ back'[b].s = x => back'[b].stray \/ sess'[x].backend = b
  BY DEF SlotSound
<1>9. ~slotInUse'[x] => sess'[x].tcp = None /\ sess'[x].backend = None
  BY DEF SlotSound
<1> QED
  BY <1>3, <1>4, <1>5, <1>6, <1>7, <1>8, <1>9 DEF SlotSound

\* Up to the drain, by either task, on a slot that is in use unless it has clashed.
LEMMA ClosingInv ==
  ASSUME PoolInv, NEW t \in Tasks, NEW s \in Slots, NEW r \in Session, NEW c \in Handles,
         NEW isStray \in BOOLEAN,
         r.tcp = sess[s].tcp, r.slot = sess[s].slot, r.backend = sess[s].backend,
         CloseBegins(t, s, r, c, isStray),
         \/ t = "sshd" /\ doing[t].at = "poll"
         \/ t = "cli" /\ doing[t].at = "loop" /\ doing[t].s = s,
         \/ conn' = conn
         \/ c \in Conns /\ conn[c] \in Live /\ ref[c] = s /\ conn' = [conn EXCEPT ![c] = "down"],
         Shifted, UNCHANGED <<slotInUse, ref>>,
         clashed \subseteq clashed', clashed' \subseteq Slots,
         s \notin clashed' => /\ slotInUse[s] /\ ~Opening(s)
                              /\ isStray \/ sess[s].tcp \in {c, None}
  PROVE  PoolInv'
<1> DEFINE skip == r.closed /\ ~r.slot
           r1 == IF skip THEN r ELSE [r EXCEPT !.backend = None]
           d1 == [at |-> IF r.tcp = None THEN "closed" ELSE "drain",
                  s |-> s, for |-> c, stray |-> isStray]
           d0 == IF t = "cli" THEN [Idle EXCEPT !.at = "loop", !.s = doing[t].s + 1] ELSE Idle
           d2 == IF skip THEN d0 ELSE d1
<1>1. None \notin Conns /\ None \notin Backends
  BY DEF None, Conns, Backends
<1>2. TypeOK /\ Announced /\ Tables /\ \A x \in Slots \ clashed : SlotSound(x)
  BY DEF PoolInv
<1>3. /\ r1 \in Session /\ r1.tcp = sess[s].tcp /\ r1.slot = sess[s].slot
      /\ r1.backend = IF skip THEN sess[s].backend ELSE None
  BY DEF Session
<1>4. /\ d1 \in Doing /\ d1.s = s /\ d1.for = c /\ d1.stray = isStray
      /\ d1.at = IF sess[s].tcp = None THEN "closed" ELSE "drain"
  <2>1. s \in 0 .. SSHD_MAX_SESSIONS
    BY PoolAssumption DEF Slots
  <2> QED
    BY <2>1 DEF Doing, Places, Closing, Handles
<1>5. /\ d0 \in Doing /\ d0.at \in {"poll", "loop"}
      /\ t = "sshd" => d0.at = "poll"
  <2>1. t = "cli" => doing[t].s + 1 \in 0 .. SSHD_MAX_SESSIONS
    BY PoolAssumption, t # "sshd" \/ t # "cli" DEF Slots
  <2>2. 0 \in 0 .. SSHD_MAX_SESSIONS
    BY PoolAssumption
  <2> QED
    BY <2>1, <2>2 DEF Doing, Idle, Places
<1>6. /\ d2 \in Doing
      /\ ~skip => d2 = d1
      /\ skip => d2 = d0
  <2>1. CASE skip
    BY <1>5, <2>1
  <2>2. CASE ~skip
    BY <1>4, <2>2
  <2> QED
    BY <2>1, <2>2
<1>7. /\ sess' = [sess EXCEPT ![s] = r1]
      /\ doing' = [doing EXCEPT ![t] = d2]
      /\ skip => back' = back
      /\ ~skip => back' = GivenUp(r)
  BY DEF CloseBegins, Returns
<1> HIDE DEF r1, d0, d1, d2, skip
<1>8. /\ sess' \in [Slots -> Session] /\ sess'[s] = r1
      /\ \A x \in Slots : x # s => sess'[x] = sess[x]
  BY <1>2, <1>3, <1>7 DEF TypeOK
<1>9. /\ doing' \in [Tasks -> Doing] /\ doing'[t] = d2
      /\ \A u \in Tasks : u # t => doing'[u] = doing[u]
  BY <1>2, <1>6, <1>7 DEF TypeOK, Doing
<1>10. /\ conn' \in [Conns -> ConnStates]
       /\ \A x \in Conns : conn'[x] = conn[x] \/ (conn[x] \in Live /\ ref[x] = s /\ conn'[x] = "down")
  BY <1>2 DEF TypeOK, ConnStates
<1>11. /\ back' \in [Backends -> Backend]
       /\ \A b \in Backends : back'[b] = back[b] \/ (sess[s].backend = b /\ back'[b] = Unused("down"))
       /\ ~skip => \A b \in Backends : sess[s].backend = b => back'[b] = Unused("down")
  <2>1. Unused("down") \in Backend
    BY DEF Unused, Backend
  <2>2. back \in [Backends -> Backend]
    BY <1>2 DEF TypeOK
  <2>3. CASE skip
    BY <1>7, <2>2, <2>3
  <2>4. CASE ~skip
    <3>1. back' = [b \in Backends |-> IF b = sess[s].backend THEN Unused("down") ELSE back[b]]
      BY <1>7, <2>4 DEF GivenUp
    <3> QED
      BY <2>1, <2>2, <3>1
  <2> QED
    BY <2>3, <2>4
<1>12. TypeOK'
  <2>1. inbox' \in Seq(Events)
    BY <1>2, ShiftFacts
  <2> QED
    BY <1>2, <1>8, <1>9, <1>10, <1>11, <2>1 DEF TypeOK, Doing, Handles
<1>13. Announced'
  <2>1. \A b \in Backends : back'[b].st \in {back[b].st, "down"}
    BY <1>11 DEF Unused
  <2>2. doing'["sshd"].at = "open" => doing'["sshd"] = doing["sshd"]
    BY <1>4, <1>5, <1>6, <1>9 DEF Tasks
  <2>3. None \in Handles
    BY DEF Handles
  <2>4. \A x \in Conns : conn'[x] = conn[x] \/ (conn[x] \in Live \cup {"down"} /\ conn'[x] = "down")
    BY <1>10
  <2> QED
    BY <1>1, <1>2, <2>1, <2>2, <2>3, <2>4, AnnouncedShift
<1>14. Tables'
  <2>1. ASSUME NEW x \in Slots
        PROVE  /\ sess'[x].tcp # None =>
                     conn'[sess'[x].tcp] \in Live \cup {"down"} /\ ref'[sess'[x].tcp] = x
               /\ sess'[x].backend # None =>
                     Runs(sess[x].backend)' /\ back'[sess'[x].backend].s = x
                     /\ ~back'[sess'[x].backend].stray
    <3>1. sess'[x].tcp = sess[x].tcp /\ sess[x].tcp \in Handles
      BY <1>2, <1>3, <1>8 DEF TypeOK, Session, Handles
    <3>2. sess'[x].tcp # None =>
             conn'[sess'[x].tcp] \in Live \cup {"down"} /\ ref'[sess'[x].tcp] = x
      BY <1>2, <1>10, <3>1 DEF Tables, Handles
    <3>3. ASSUME sess'[x].backend # None
          PROVE  back'[sess'[x].backend] = back[sess'[x].backend] /\ sess'[x].backend = sess[x].backend
      <4>1. sess[x].backend \in Backends \cup {None} /\ sess[s].backend \in Backends \cup {None}
        BY <1>2 DEF TypeOK, Session
      <4>2. CASE x = s
        <5>1. skip /\ sess'[x].backend = sess[x].backend
          BY <1>3, <1>8, <3>3, <4>2
        <5> QED
          BY <1>7, <5>1
      <4>3. CASE x # s
        <5>1. sess'[x].backend = sess[x].backend
          BY <1>8, <4>3
        <5>2. back[sess[x].backend].s = x
          BY <1>2, <3>3, <5>1 DEF Tables
        <5>3. sess[s].backend # sess[x].backend
          BY <1>2, <3>3, <4>3, <5>1, <5>2 DEF Tables
        <5> QED
          BY <1>11, <3>3, <4>1, <5>1, <5>3
      <4> QED
        BY <4>2, <4>3
    <3>4. sess'[x].backend # None =>
             Runs(sess[x].backend)' /\ back'[sess'[x].backend].s = x
                     /\ ~back'[sess'[x].backend].stray
      BY <1>2, <3>3 DEF Tables, Runs
    <3> QED
      BY <3>2, <3>4
  <2>2. \A x \in Conns : conn'[x] \in Live => ref'[x] \in Slots
    BY <1>2, <1>10 DEF Tables, Live
  <2>3. \A b \in Backends : Runs(b)' => back'[b].s \in Slots
    BY <1>2, <1>11 DEF Tables, Runs, Unused
  <2>4. \A u \in Tasks : doing'[u].at \in Closing \cup {"open"} => doing'[u].s \in Slots
    <3>1. d2.at \in Closing => d2.s \in Slots
      BY <1>4, <1>5, <1>6 DEF Closing
    <3>2. d2.at # "open"
      BY <1>4, <1>5, <1>6
    <3> QED
      BY <1>2, <1>9, <3>1, <3>2 DEF Tables
  <2>5. doing'["cli"].at # "open" /\ doing'["sshd"].at # "loop"
    BY <1>2, <1>4, <1>5, <1>6, <1>9 DEF Tables, Tasks
  <2>6. doing'["sshd"].at = "open" =>
          doing'["sshd"].for \in Conns /\ conn'[doing'["sshd"].for] = "calling"
    <3>1. doing'["sshd"].at = "open" => doing'["sshd"] = doing["sshd"]
      BY <1>4, <1>5, <1>6, <1>9 DEF Tasks
    <3> QED
      BY <1>2, <1>10, <3>1 DEF Tables, Live
  <2> QED
    BY <2>1, <2>2, <2>3, <2>4, <2>5, <2>6 DEF Tables
<1>15. ASSUME NEW x \in Slots \ clashed', x # s
       PROVE  SlotSound(x)'
  <2>1. SlotSound(x) /\ sess'[x] = sess[x] /\ slotInUse'[x] = slotInUse[x]
    BY <1>2, <1>8, <1>15
  <2>2. \A u \in Tasks : Inside(u, x) \/ Inside(u, x)' => doing'[u] = doing[u]
    BY <1>4, <1>5, <1>6, <1>9, <1>15 DEF Inside, Closing
  <2>3. Opening(x)' <=> Opening(x)
    BY <1>4, <1>5, <1>6, <1>9 DEF Opening, Tasks
  <2>4. \A y \in Conns : conn'[y] \in Live /\ ref'[y] = x => conn[y] \in Live /\ ref[y] = x
    BY <1>10 DEF Live
  <2>5. \A y \in Conns : sess[x].tcp = y =>
           /\ conn[y] \in Live => conn'[y] \in Live
           /\ conn[y] = "down" => conn'[y] = "down"
    BY <1>1, <1>2, <1>10, <1>15 DEF Tables
  <2>6. \A b \in Backends : Runs(b)' /\ back'[b].s = x =>
                                Runs(b) /\ back[b].s = x /\ back'[b].stray = back[b].stray
    BY <1>11 DEF Runs, Unused
  <2>7. \A b \in Backends : sess[x].backend = b => back'[b].c = back[b].c
    BY <1>1, <1>2, <1>11, <1>15 DEF Tables
  <2> QED
    BY <1>2, <2>1, <2>2, <2>3, <2>4, <2>5, <2>6, <2>7, Elsewhere
<1>16. ASSUME s \notin clashed' PROVE SlotSound(s)'
  <2>1. SlotSound(s) /\ slotInUse[s] /\ ~Opening(s) /\ sess[s].slot /\ slotInUse'[s]
    BY <1>2, <1>16 DEF SlotSound
  <2>2. ~skip
    BY <2>1 DEF skip
  <2>3. doing'[t] = d1 /\ Inside(t, s)' /\ ~Opening(s)'
    BY <1>4, <1>6, <1>9, <2>1, <2>2 DEF Inside, Closing, Opening, Tasks
  <2>4. sess'[s].tcp = sess[s].tcp /\ sess'[s].slot /\ sess'[s].backend = None
    BY <1>3, <1>8, <2>1, <2>2
  <2>5. sess[s].tcp \in Handles
    BY <1>2 DEF TypeOK, Session, Handles
  <2>6. CloseSound(s)'
    <3> SUFFICES ASSUME NEW u \in Tasks, Inside(u, s)'
                 PROVE  /\ doing'[u].at = "drain" => doing'[u].stray \/ sess[s].tcp \in {doing'[u].for, None}
                        /\ doing'[u].at = "notcp" => sess[s].tcp = None \/ conn'[sess[s].tcp] = "down"
                        /\ doing'[u].at \in {"closed", "slot", "noslot"} => sess[s].tcp = None
                        /\ doing'[u].at = "noslot" => ~slotInUse[s]
      BY <2>4 DEF CloseSound
    <3>1. CASE u = t
      BY <1>4, <1>16, <2>3, <3>1
    <3>2. CASE u # t
      <4>1. doing'[u] = doing[u] /\ Inside(u, s)
        BY <1>9, <3>2 DEF Inside
      <4>2. (conn[sess[s].tcp] = "down" /\ sess[s].tcp # None) => conn'[sess[s].tcp] = "down"
        BY <1>10, <2>5 DEF Handles, Live
      <4> QED
        BY <2>1, <4>1, <4>2 DEF SlotSound, CloseSound
    <3> QED
      BY <3>1, <3>2
  <2>7. \A y \in Conns : conn'[y] \in Live /\ ref'[y] = s => sess'[s].tcp = y
    BY <1>10, <2>1, <2>4 DEF SlotSound, Live
  <2>8. \A b \in Backends : Runs(b)' /\ back'[b].s = s => back'[b].stray
    BY <1>11, <2>1, <2>2 DEF SlotSound, Runs, Unused
  <2> QED
    BY <2>1, <2>3, <2>4, <2>6, <2>7, <2>8 DEF SlotSound
<1> QED
  BY <1>12, <1>13, <1>14, <1>15, <1>16 DEF PoolInv

\* A statement of session_close after the drain: it concerns the session in its
\* slot and the connection there.
LEMMA StatementInv ==
  ASSUME PoolInv, NEW t \in Tasks, NEW s \in Slots, Inside(t, s), NEW d \in Doing,
         doing' = [doing EXCEPT ![t] = d],
         \/ d.at \in Closing /\ d.s = s
         \/ d.at = "poll"
         \/ d.at = "loop" /\ t = "cli",
         NEW r \in Session, sess' = [sess EXCEPT ![s] = r],
         r.tcp \in {sess[s].tcp, None}, r.backend = sess[s].backend,
         \/ conn' = conn
         \/ sess[s].tcp \in Conns /\ conn' = [conn EXCEPT ![sess[s].tcp] = "down"],
         NEW u \in BOOLEAN, slotInUse' = [slotInUse EXCEPT ![s] = u],
         UNCHANGED <<back, ref, inbox, clashed>>,
         s \notin clashed => SlotSound(s)'
  PROVE  PoolInv'
<1>1. None \notin Conns /\ None \notin Backends
  BY DEF None, Conns, Backends
<1>2. TypeOK /\ Announced /\ Tables /\ \A x \in Slots \ clashed : SlotSound(x)
  BY DEF PoolInv
<1>3. /\ sess' \in [Slots -> Session] /\ sess'[s] = r
      /\ \A x \in Slots : x # s => sess'[x] = sess[x]
  BY <1>2 DEF TypeOK
<1>4. /\ doing' \in [Tasks -> Doing] /\ doing'[t] = d
      /\ \A y \in Tasks : y # t => doing'[y] = doing[y]
  BY <1>2 DEF TypeOK, Doing
<1>5. /\ slotInUse' \in [Slots -> BOOLEAN]
      /\ \A x \in Slots : x # s => slotInUse'[x] = slotInUse[x]
  BY <1>2 DEF TypeOK
<1>6. sess[s].tcp \in Handles /\ \A x \in Slots : sess[x].tcp \in Handles
  BY <1>2 DEF TypeOK, Session, Handles
<1>7. /\ conn' \in [Conns -> ConnStates]
      /\ \A x \in Conns :
            \/ conn'[x] = conn[x]
            \/ sess[s].tcp = x /\ conn[x] \in Live \cup {"down"} /\ conn'[x] = "down"
  <2>1. sess[s].tcp \in Conns => conn[sess[s].tcp] \in Live \cup {"down"}
    BY <1>1, <1>2 DEF Tables
  <2>2. conn \in [Conns -> ConnStates] /\ "down" \in ConnStates
    BY <1>2 DEF TypeOK, ConnStates
  <2> QED
    BY <2>1, <2>2
<1>8. TypeOK'
  BY <1>2, <1>3, <1>4, <1>5, <1>7 DEF TypeOK, Doing
<1>9. Shifted
  BY DEF Shifted
<1>10. d.at # "open" /\ (t = "sshd" => d.at # "loop")
  BY DEF Closing
<1>11. doing'["sshd"].at = "open" => doing'["sshd"] = doing["sshd"]
  BY <1>4, <1>10 DEF Tasks
<1>12. Announced'
  <2>1. None \in Handles
    BY DEF Handles
  <2> QED
    BY <1>1, <1>2, <1>7, <1>9, <1>11, <2>1, AnnouncedShift
<1>13. Tables'
  <2>1. ASSUME NEW x \in Slots
        PROVE  /\ sess'[x].tcp # None =>
                     conn'[sess'[x].tcp] \in Live \cup {"down"} /\ ref'[sess'[x].tcp] = x
               /\ sess'[x].backend # None => Runs(sess[x].backend)' /\ back'[sess'[x].backend].s = x
                     /\ ~back'[sess'[x].backend].stray
    <3>1. sess'[x].tcp \in {sess[x].tcp, None} /\ sess'[x].backend = sess[x].backend
      BY <1>3
    <3>2. sess'[x].tcp # None =>
             conn'[sess'[x].tcp] \in Live \cup {"down"} /\ ref'[sess'[x].tcp] = x
      BY <1>2, <1>6, <1>7, <3>1 DEF Tables, Handles
    <3> QED
      BY <1>2, <3>1, <3>2 DEF Tables, Runs
  <2>2. \A x \in Conns : conn'[x] \in Live => ref'[x] \in Slots
    BY <1>2, <1>7 DEF Tables, Live
  <2>3. \A b \in Backends : Runs(b)' => back'[b].s \in Slots
    BY <1>2 DEF Tables, Runs
  <2>4. \A y \in Tasks : doing'[y].at \in Closing \cup {"open"} => doing'[y].s \in Slots
    BY <1>2, <1>4 DEF Tables, Closing
  <2>5. doing'["cli"].at # "open" /\ doing'["sshd"].at # "loop"
    BY <1>2, <1>4, <1>10 DEF Tables, Tasks
  <2>6. doing'["sshd"].at = "open" =>
          doing'["sshd"].for \in Conns /\ conn'[doing'["sshd"].for] = "calling"
    BY <1>2, <1>7, <1>11 DEF Tables, Live
  <2> QED
    BY <1>3, <2>1, <2>2, <2>3, <2>4, <2>5, <2>6 DEF Tables
<1>14. ASSUME NEW x \in Slots \ clashed', x # s
       PROVE  SlotSound(x)'
  <2>1. SlotSound(x) /\ sess'[x] = sess[x] /\ slotInUse'[x] = slotInUse[x]
    BY <1>2, <1>3, <1>5, <1>14
  <2>2. \A y \in Tasks : Inside(y, x) \/ Inside(y, x)' => doing'[y] = doing[y]
    BY <1>4, <1>14 DEF Inside, Closing
  <2>3. Opening(x)' <=> Opening(x)
    <3>1. t = "sshd" => ~Opening(x) /\ ~Opening(x)'
      BY <1>4, <1>10 DEF Opening, Inside, Closing
    <3> QED
      BY <1>4, <3>1 DEF Opening, Tasks
  <2>4. \A y \in Conns : conn'[y] \in Live /\ ref'[y] = x => conn[y] \in Live /\ ref[y] = x
    BY <1>7 DEF Live
  <2>5. \A y \in Conns : sess[x].tcp = y =>
           /\ conn[y] \in Live => conn'[y] \in Live
           /\ conn[y] = "down" => conn'[y] = "down"
    BY <1>1, <1>2, <1>7, <1>14 DEF Tables
  <2> QED
    BY <1>2, <2>1, <2>2, <2>3, <2>4, <2>5, Elsewhere DEF Runs
<1> QED
  BY <1>8, <1>12, <1>13, <1>14 DEF PoolInv

\* The slot itself: it is in use as long as somebody who frees it is inside.
LEMMA StatementSound ==
  ASSUME TypeOK, NEW s \in Slots, SlotSound(s), NEW t \in Tasks, Inside(t, s),
         NEW r \in Session, sess'[s] = r, r.tcp \in {sess[s].tcp, None}, r.backend = sess[s].backend,
         \A y \in Tasks : y # t => doing'[y] = doing[y],
         doing'["sshd"].at = "open" => doing'["sshd"] = doing["sshd"],
         \A y \in Conns : \/ conn'[y] = conn[y]
                          \/ sess[s].tcp = y /\ conn'[y] = "down",
         UNCHANGED <<back, ref>>,
         slotInUse'[s] \in {slotInUse[s], FALSE},
         slotInUse'[s] => r.slot /\ Inside(t, s)',
         ~slotInUse'[s] => r.tcp = None,
         r.tcp = None /\ sess[s].tcp \in Conns => conn[sess[s].tcp] \notin Live,
         Inside(t, s)' => /\ doing'[t].at # "drain"
                          /\ doing'[t].at = "notcp" => r.tcp = None \/ conn'[r.tcp] = "down"
                          /\ doing'[t].at \in {"closed", "slot", "noslot"} => r.tcp = None
                          /\ doing'[t].at = "noslot" => ~slotInUse'[s]
  PROVE  SlotSound(s)'
<1>1. ~Opening(s) /\ sess[s].backend = None /\ CloseSound(s)
  BY DEF SlotSound, CloseSound
<1>2. ~Opening(s)'
  BY <1>1 DEF Opening
<1>3. sess[s].tcp \in Handles
  BY DEF TypeOK, Session, Handles
<1>4. ASSUME NEW y \in Tasks, y # t, Inside(y, s)'
      PROVE  /\ doing'[y].at = "drain" => doing'[y].stray \/ r.tcp \in {doing'[y].for, None}
             /\ doing'[y].at = "notcp" => r.tcp = None \/ conn'[r.tcp] = "down"
             /\ doing'[y].at \in {"closed", "slot", "noslot"} => r.tcp = None
             /\ doing'[y].at = "noslot" => ~slotInUse'[s]
  <2>1. Inside(y, s) /\ doing'[y] = doing[y]
    BY <1>4 DEF Inside
  <2>2. /\ doing[y].at = "drain" => doing[y].stray \/ sess[s].tcp \in {doing[y].for, None}
        /\ doing[y].at = "notcp" => sess[s].tcp = None \/ conn[sess[s].tcp] = "down"
        /\ doing[y].at \in {"closed", "slot", "noslot"} => sess[s].tcp = None
        /\ doing[y].at = "noslot" => ~slotInUse[s]
    BY <1>1, <2>1 DEF CloseSound
  <2>3. (sess[s].tcp # None /\ conn[sess[s].tcp] = "down") => conn'[sess[s].tcp] = "down"
    BY <1>3 DEF Handles
  <2> QED
    BY <2>1, <2>2, <2>3
<1>5. CloseSound(s)'
  BY <1>1, <1>4 DEF CloseSound
<1>6. \A c \in Conns : conn'[c] \in Live /\ ref'[c] = s => sess'[s].tcp = c
  <2> SUFFICES ASSUME NEW c \in Conns, conn'[c] \in Live, ref[c] = s
               PROVE  r.tcp = c
    OBVIOUS
  <2>1. conn[c] \in Live
    BY DEF Live
  <2>2. sess[s].tcp = c
    BY <2>1 DEF SlotSound
  <2> QED
    BY <2>1, <2>2
<1>7. \A b \in Backends : Runs(b)' /\ back'[b].s = s => back'[b].stray \/ sess'[s].backend = b
  BY DEF SlotSound, Runs
<1> QED
  BY <1>1, <1>2, <1>5, <1>6, <1>7 DEF SlotSound

\* Where a task goes next is somewhere.
LEMMA NextPlaces ==
  ASSUME TypeOK, Tables, NEW t \in Tasks, doing[t].at \in Closing
  PROVE  /\ doing[t].s \in Slots /\ Inside(t, doing[t].s)
         /\ LET d == IF t = "cli" THEN [Idle EXCEPT !.at = "loop", !.s = doing[t].s + 1] ELSE Idle
            IN  d \in Doing /\ d.at \in {"poll", "loop"} /\ (d.at = "loop" => t = "cli")
<1>1. doing[t].s \in Slots
  BY DEF Tables
<1>2. doing[t].s \in 0 .. SSHD_MAX_SESSIONS /\ doing[t].s + 1 \in 0 .. SSHD_MAX_SESSIONS
      /\ 0 \in 0 .. SSHD_MAX_SESSIONS
  BY <1>1, PoolAssumption DEF Slots
<1> QED
  BY <1>1, <1>2 DEF Inside, Doing, Idle, Places

\* session_close after the drain, on either task and in any order.
LEMMA CloseInv ==
  ASSUME PoolInv, NEW t \in Tasks, session_close(t)
  PROVE  PoolInv'
<1>1. None \notin Conns /\ None \notin Backends
  BY DEF None, Conns, Backends
<1>2. TypeOK /\ Tables /\ \A x \in Slots \ clashed : SlotSound(x)
  BY DEF PoolInv
<1>3. doing[t].at \in Closing
  BY DEF session_close, Disconnects, ForgetsTcp, MarksClosed, FreesSlot, ForgetsSlot, Closing
<1>16. PICK s \in Slots : s = doing[t].s
  BY <1>2, <1>3, NextPlaces
<1> DEFINE Next1(at) == [Idle EXCEPT !.at = at, !.s = s]
           Back1 == IF t = "cli" THEN [Idle EXCEPT !.at = "loop", !.s = s + 1] ELSE Idle
<1>4. /\ s \in Slots /\ Inside(t, s)
      /\ \A at \in Closing : Next1(at) \in Doing /\ Next1(at).at = at /\ Next1(at).s = s
      /\ Back1 \in Doing /\ Back1.at \in {"poll", "loop"}
      /\ Back1.at = "loop" => t = "cli"
  <2>1. Inside(t, s)
    BY <1>3, <1>16 DEF Inside
  <2>2. \A at \in Closing : Next1(at) \in Doing /\ Next1(at).at = at /\ Next1(at).s = s
    <3>1. s \in 0 .. SSHD_MAX_SESSIONS
      BY PoolAssumption DEF Slots
    <3> QED
      BY <3>1 DEF Doing, Idle, Places
  <2>3. Back1 \in Doing /\ Back1.at \in {"poll", "loop"} /\ (Back1.at = "loop" => t = "cli")
    BY <1>2, <1>3, <1>16, NextPlaces
  <2> QED
    BY <2>1, <2>2, <2>3
<1>5. /\ sess[s] \in Session /\ slotInUse[s] \in BOOLEAN /\ sess[s].tcp \in Handles
      /\ doing \in [Tasks -> Doing] /\ sess \in [Slots -> Session] /\ slotInUse \in [Slots -> BOOLEAN]
  BY <1>2, <1>4 DEF TypeOK, Doing, Session, Handles
<1>6. /\ sess = [sess EXCEPT ![s] = sess[s]]
      /\ slotInUse = [slotInUse EXCEPT ![s] = slotInUse[s]]
  BY <1>4, <1>5
<1>7. s \notin clashed =>
         /\ SlotSound(s) /\ ~Opening(s) /\ sess[s].backend = None
         /\ doing[t].at = "notcp" => sess[s].tcp = None \/ conn[sess[s].tcp] = "down"
         /\ doing[t].at \in {"closed", "slot", "noslot"} => sess[s].tcp = None
         /\ doing[t].at = "noslot" => ~slotInUse[s]
         /\ slotInUse[s] => sess[s].slot
         /\ ~slotInUse[s] => sess[s].tcp = None
  BY <1>2, <1>4 DEF SlotSound, CloseSound
<1> HIDE DEF Next1, Back1
<1>8. ASSUME NEW at \in Closing, doing' = [doing EXCEPT ![t] = Next1(at)]
      PROVE  /\ doing'[t].at = at /\ Inside(t, s)'
             /\ \A y \in Tasks : y # t => doing'[y] = doing[y]
             /\ doing'["sshd"].at = "open" => doing'["sshd"] = doing["sshd"]
  BY <1>4, <1>5, <1>8 DEF Inside, Closing, Tasks
<1>9. ASSUME doing' = [doing EXCEPT ![t] = Back1]
      PROVE  /\ ~Inside(t, s)'
             /\ \A y \in Tasks : y # t => doing'[y] = doing[y]
             /\ doing'["sshd"].at = "open" => doing'["sshd"] = doing["sshd"]
  BY <1>4, <1>5, <1>9 DEF Inside, Closing, Tasks
<1>10. CASE Disconnects(t)
  <2>1. /\ doing[t].at = "drain" /\ doing' = [doing EXCEPT ![t] = Next1("notcp")]
        /\ conn' = [x \in Conns |-> IF x = sess[s].tcp THEN "down" ELSE conn[x]]
        /\ UNCHANGED <<slotInUse, sess, ref, back, inbox, clashed>>
    BY <1>10, <1>16 DEF Disconnects, Goes, Next1
  <2>2. "notcp" \in Closing
    BY DEF Closing
  <2>3. conn' = conn \/ (sess[s].tcp \in Conns /\ conn' = [conn EXCEPT ![sess[s].tcp] = "down"])
    BY <1>1, <1>2, <1>5, <2>1 DEF TypeOK, Handles
  <2>4. /\ doing'[t].at = "notcp" /\ Inside(t, s)'
        /\ \A y \in Tasks : y # t => doing'[y] = doing[y]
        /\ doing'["sshd"].at = "open" => doing'["sshd"] = doing["sshd"]
    BY <1>8, <2>1, <2>2
  <2>5. /\ \A y \in Conns :
              \/ conn'[y] = conn[y]
              \/ sess[s].tcp = y /\ conn'[y] = "down"
        /\ sess[s].tcp = None \/ conn'[sess[s].tcp] = "down"
    BY <1>5, <2>1 DEF Handles
  <2>6. ASSUME s \notin clashed PROVE SlotSound(s)'
    <3>1. /\ SlotSound(s)
          /\ slotInUse[s] => sess[s].slot
          /\ ~slotInUse[s] => sess[s].tcp = None
      BY <1>7, <2>6
    <3> QED
      BY <1>1, <1>2, <1>4, <1>5, <2>1, <2>4, <2>5, <3>1, StatementSound
  <2>7. Next1("notcp").at \in Closing /\ Next1("notcp").s = s /\ Next1("notcp") \in Doing
    BY <1>4, <2>2
  <2>8. sess' = [sess EXCEPT ![s] = sess[s]] /\ slotInUse' = [slotInUse EXCEPT ![s] = slotInUse[s]]
    BY <1>6, <2>1
  <2>9. /\ doing' = [doing EXCEPT ![t] = Next1("notcp")]
        /\ UNCHANGED <<back, ref, inbox, clashed>>
    BY <2>1
  <2> QED
    BY <1>4, <1>5, <2>3, <2>6, <2>7, <2>8, <2>9, StatementInv
<1>11. CASE ForgetsTcp(t)
  <2> DEFINE r == [sess[s] EXCEPT !.tcp = None]
  <2>1. /\ doing[t].at = "notcp" /\ doing' = [doing EXCEPT ![t] = Next1("closed")]
        /\ sess' = [sess EXCEPT ![s] = r]
        /\ UNCHANGED <<slotInUse, conn, ref, back, inbox, clashed>>
    BY <1>11, <1>16 DEF ForgetsTcp, Goes, Next1
  <2>2. "closed" \in Closing
    BY DEF Closing
  <2>3. r \in Session /\ r.tcp = None /\ r.backend = sess[s].backend /\ r.slot = sess[s].slot
    BY <1>5 DEF Session
  <2> HIDE DEF r
  <2>4. /\ doing'[t].at = "closed" /\ Inside(t, s)'
        /\ \A y \in Tasks : y # t => doing'[y] = doing[y]
        /\ doing'["sshd"].at = "open" => doing'["sshd"] = doing["sshd"]
    BY <1>8, <2>1, <2>2
  <2>5. sess'[s] = r
    BY <1>4, <1>5, <2>1
  <2>6. ASSUME s \notin clashed PROVE SlotSound(s)'
    <3>1. /\ SlotSound(s)
          /\ slotInUse[s] => sess[s].slot
          /\ sess[s].tcp = None \/ conn[sess[s].tcp] = "down"
      BY <1>7, <2>1, <2>6
    <3>2. sess[s].tcp \in Conns => conn[sess[s].tcp] \notin Live
      BY <1>1, <3>1 DEF Live
    <3> QED
      BY <1>2, <1>4, <1>5, <2>1, <2>3, <2>4, <2>5, <3>1, <3>2, StatementSound
  <2>7. Next1("closed").at \in Closing /\ Next1("closed").s = s /\ Next1("closed") \in Doing
    BY <1>4, <2>2
  <2>8. slotInUse' = [slotInUse EXCEPT ![s] = slotInUse[s]]
    BY <1>6, <2>1
  <2> QED
    BY <1>4, <1>5, <2>1, <2>3, <2>6, <2>7, <2>8, StatementInv
<1>12. CASE MarksClosed(t)
  <2> DEFINE r == [sess[s] EXCEPT !.closed = TRUE, !.chanOpen = FALSE]
  <2>1. /\ doing[t].at = "closed" /\ doing' = [doing EXCEPT ![t] = Next1("slot")]
        /\ sess' = [sess EXCEPT ![s] = r]
        /\ UNCHANGED <<slotInUse, conn, ref, back, inbox, clashed>>
    <3>1. sess' = [sess EXCEPT ![s].closed = TRUE, ![s].chanOpen = FALSE]
      BY <1>12, <1>16 DEF MarksClosed
    <3> QED
      BY <1>4, <1>5, <1>12, <1>16, <3>1 DEF MarksClosed, Goes, Next1
  <2>2. "slot" \in Closing
    BY DEF Closing
  <2>3. r \in Session /\ r.tcp = sess[s].tcp /\ r.backend = sess[s].backend /\ r.slot = sess[s].slot
    BY <1>5 DEF Session
  <2> HIDE DEF r
  <2>4. /\ doing'[t].at = "slot" /\ Inside(t, s)'
        /\ \A y \in Tasks : y # t => doing'[y] = doing[y]
        /\ doing'["sshd"].at = "open" => doing'["sshd"] = doing["sshd"]
    BY <1>8, <2>1, <2>2
  <2>5. sess'[s] = r
    BY <1>4, <1>5, <2>1
  <2>6. ASSUME s \notin clashed PROVE SlotSound(s)'
    <3>1. /\ SlotSound(s)
          /\ slotInUse[s] => sess[s].slot
          /\ sess[s].tcp = None
      BY <1>7, <2>1, <2>6
    <3> QED
      BY <1>1, <1>2, <1>4, <1>5, <2>1, <2>3, <2>4, <2>5, <3>1, StatementSound
  <2>7. Next1("slot").at \in Closing /\ Next1("slot").s = s /\ Next1("slot") \in Doing
    BY <1>4, <2>2
  <2>8. slotInUse' = [slotInUse EXCEPT ![s] = slotInUse[s]]
    BY <1>6, <2>1
  <2> QED
    BY <1>4, <1>5, <2>1, <2>3, <2>6, <2>7, <2>8, StatementInv
<1>13. CASE FreesSlot(t) /\ sess[s].slot
  <2>1. /\ doing[t].at = "slot" /\ doing' = [doing EXCEPT ![t] = Next1("noslot")]
        /\ slotInUse' = [slotInUse EXCEPT ![s] = FALSE]
        /\ UNCHANGED <<sess, conn, ref, back, inbox, clashed>>
    BY <1>13, <1>16 DEF FreesSlot, Goes, Next1
  <2>2. "noslot" \in Closing
    BY DEF Closing
  <2>4. /\ doing'[t].at = "noslot" /\ Inside(t, s)'
        /\ \A y \in Tasks : y # t => doing'[y] = doing[y]
        /\ doing'["sshd"].at = "open" => doing'["sshd"] = doing["sshd"]
    BY <1>8, <2>1, <2>2
  <2>5. slotInUse'[s] = FALSE
    BY <1>4, <1>5, <2>1
  <2>6. ASSUME s \notin clashed PROVE SlotSound(s)'
    <3>1. SlotSound(s) /\ sess[s].tcp = None
      BY <1>7, <2>1, <2>6
    <3> QED
      BY <1>1, <1>2, <1>4, <1>5, <2>1, <2>4, <2>5, <3>1, StatementSound
  <2>7. Next1("noslot").at \in Closing /\ Next1("noslot").s = s /\ Next1("noslot") \in Doing
    BY <1>4, <2>2
  <2>8. sess' = [sess EXCEPT ![s] = sess[s]]
    BY <1>6, <2>1
  <2> QED
    BY <1>4, <1>5, <2>1, <2>6, <2>7, <2>8, StatementInv
<1>14. CASE FreesSlot(t) /\ ~sess[s].slot
  <2>1. /\ doing[t].at = "slot" /\ doing' = [doing EXCEPT ![t] = Back1]
        /\ UNCHANGED <<slotInUse, sess, conn, ref, back, inbox, clashed>>
    BY <1>14, <1>16 DEF FreesSlot, Returns, Back1
  <2>2. /\ ~Inside(t, s)'
        /\ \A y \in Tasks : y # t => doing'[y] = doing[y]
        /\ doing'["sshd"].at = "open" => doing'["sshd"] = doing["sshd"]
    BY <1>9, <2>1
  <2>3. ASSUME s \notin clashed PROVE SlotSound(s)'
    <3>1. SlotSound(s) /\ sess[s].tcp = None /\ ~slotInUse[s]
      BY <1>7, <1>14, <2>1, <2>3
    <3> QED
      BY <1>1, <1>2, <1>4, <1>5, <2>1, <2>2, <3>1, StatementSound
  <2>4. sess' = [sess EXCEPT ![s] = sess[s]] /\ slotInUse' = [slotInUse EXCEPT ![s] = slotInUse[s]]
    BY <1>6, <2>1
  <2> QED
    BY <1>4, <1>5, <2>1, <2>3, <2>4, StatementInv
<1>15. CASE ForgetsSlot(t)
  <2> DEFINE r == [sess[s] EXCEPT !.slot = FALSE]
  <2>1. /\ doing[t].at = "noslot" /\ doing' = [doing EXCEPT ![t] = Back1]
        /\ sess' = [sess EXCEPT ![s] = r]
        /\ UNCHANGED <<slotInUse, conn, ref, back, inbox, clashed>>
    BY <1>15, <1>16 DEF ForgetsSlot, Returns, Back1
  <2>2. r \in Session /\ r.tcp = sess[s].tcp /\ r.backend = sess[s].backend
    BY <1>5 DEF Session
  <2> HIDE DEF r
  <2>3. /\ ~Inside(t, s)'
        /\ \A y \in Tasks : y # t => doing'[y] = doing[y]
        /\ doing'["sshd"].at = "open" => doing'["sshd"] = doing["sshd"]
    BY <1>9, <2>1
  <2>4. sess'[s] = r
    BY <1>4, <1>5, <2>1
  <2>5. ASSUME s \notin clashed PROVE SlotSound(s)'
    <3>1. SlotSound(s) /\ sess[s].tcp = None /\ ~slotInUse[s]
      BY <1>7, <2>1, <2>5
    <3> QED
      BY <1>1, <1>2, <1>4, <1>5, <2>1, <2>2, <2>3, <2>4, <3>1, StatementSound
  <2>6. slotInUse' = [slotInUse EXCEPT ![s] = slotInUse[s]]
    BY <1>6, <2>1
  <2> QED
    BY <1>4, <1>5, <2>1, <2>2, <2>5, <2>6, StatementInv
<1> QED
  BY <1>10, <1>11, <1>12, <1>13, <1>14, <1>15 DEF session_close

\* An event that changes nothing but the inbox.
LEMMA IdleInv ==
  ASSUME PoolInv, Shifted, UNCHANGED <<slotInUse, sess, conn, ref, back, doing>>,
         clashed \subseteq clashed', clashed' \subseteq Slots
  PROVE  PoolInv'
<1>1. TypeOK /\ Announced /\ Tables /\ \A x \in Slots \ clashed : SlotSound(x)
  BY DEF PoolInv
<1>2. inbox' \in Seq(Events)
  BY <1>1, ShiftFacts
<1>3. TypeOK'
  BY <1>1, <1>2 DEF TypeOK
<1>4. None \in Handles /\ None \notin Conns
  BY DEF Handles, None, Conns
<1>5. Announced'
  BY <1>1, <1>4, AnnouncedShift
<1>6. Tables'
  BY <1>1 DEF Tables, Runs
<1>7. ASSUME NEW x \in Slots \ clashed' PROVE SlotSound(x)'
  <2>1. SlotSound(x) /\ x \in Slots
    BY <1>1, <1>7
  <2>2. Opening(x)' <=> Opening(x)
    BY DEF Opening
  <2> QED
    BY <1>1, <2>1, <2>2, Elsewhere DEF Runs
<1> QED
  BY <1>3, <1>5, <1>6, <1>7 DEF PoolInv

\* The connection that a connect event is about is calling, and is announced by
\* this event only.
LEMMA HeadFacts ==
  ASSUME TypeOK, Announced, NEW ev, Polls(ev), ev \in {"connect", "recv", "disconnect"}
  PROVE  /\ Head(inbox).n \in Conns
         /\ ev = "connect" =>
               /\ conn[Head(inbox).n] = "calling"
               /\ \A i \in DOMAIN inbox' :
                     inbox'[i].ev = "connect" => inbox'[i].n # Head(inbox).n
         /\ ev = "recv" => conn[Head(inbox).n] \in Live \cup {"down"}
         /\ ev = "disconnect" => conn[Head(inbox).n] \in {"gone", "down"}
<1>1. /\ inbox \in Seq(Events) /\ inbox # <<>> /\ inbox' = Tail(inbox)
      /\ 1 \in DOMAIN inbox /\ Head(inbox) = inbox[1]
      /\ inbox[1] \in Events /\ inbox[1].ev = ev
  BY PollFacts DEF TypeOK
<1>2. ASSUME ev = "connect", NEW i \in DOMAIN inbox', inbox'[i].ev = "connect",
             inbox'[i].n = inbox[1].n
      PROVE  FALSE
  <2>1. i \in Nat /\ i \in 1 .. Len(inbox) - 1 /\ inbox'[i] = inbox[i + 1] /\ i + 1 \in DOMAIN inbox
    BY <1>1
  <2>2. i + 1 = 1
    BY <1>1, <1>2, <2>1 DEF Announced
  <2> QED
    BY <2>1, <2>2
<1> QED
  BY <1>1, <1>2, EventFacts DEF Announced

\* A connection is refused, or its slot is taken.
LEMMA ConnectInv ==
  ASSUME PoolInv, onTcpConnect
  PROVE  PoolInv'
<1>1. TypeOK /\ Announced /\ Tables /\ \A x \in Slots \ clashed : SlotSound(x)
  BY DEF PoolInv
<1>2. Polls("connect")
  BY DEF onTcpConnect
<1>3. doing["sshd"].at = "poll" /\ Shifted
  BY <1>1, <1>2, PollFacts
<1>4. PICK c \in Conns : c = Head(inbox).n
  BY <1>1, <1>2, HeadFacts
<1>5. conn[c] = "calling" /\ \A i \in DOMAIN inbox' : inbox'[i].ev = "connect" => inbox'[i].n # c
  BY <1>1, <1>2, <1>4, HeadFacts
<1>6. inbox' \in Seq(Events)
  BY <1>1, <1>3, ShiftFacts
<1>7. c \in Handles /\ c # None
  BY DEF Handles, None, Conns
<1>8. \A x \in Slots : sess[x].tcp # c
  BY <1>1, <1>5, <1>7 DEF Tables, Live
<1>9. CASE /\ conn' = [conn EXCEPT ![c] = "down"]
           /\ UNCHANGED <<slotInUse, doing, clashed, sess, ref, back>>
  <2>1. /\ conn' \in [Conns -> ConnStates] /\ conn'[c] = "down"
        /\ \A y \in Conns : y # c => conn'[y] = conn[y]
    BY <1>1, <1>9 DEF TypeOK, ConnStates
  <2>2. TypeOK'
    BY <1>1, <1>6, <1>9, <2>1 DEF TypeOK
  <2>3. Announced'
    <3>1. \A y \in Conns : conn'[y] = conn[y] \/ (y = c /\ conn[y] = "calling" /\ conn'[y] \in Live \cup {"down"})
      BY <1>5, <2>1
    <3> QED
      BY <1>1, <1>3, <1>5, <1>7, <1>9, <3>1, AnnouncedShift
  <2>4. Tables'
    <3>1. ASSUME NEW x \in Slots, sess'[x].tcp # None
          PROVE  conn'[sess'[x].tcp] \in Live \cup {"down"} /\ ref'[sess'[x].tcp] = x
      <4>1. sess[x].tcp \in Conns
        BY <1>1, <1>9, <3>1 DEF TypeOK, Session
      <4> QED
        BY <1>1, <1>8, <1>9, <2>1, <3>1, <4>1 DEF Tables
    <3>2. \A y \in Conns : conn'[y] \in Live => ref'[y] \in Slots
      BY <1>1, <1>9, <2>1 DEF Tables, Live
    <3>3. doing'["sshd"].at # "open"
      BY <1>3, <1>9
    <3> QED
      BY <1>1, <1>9, <3>1, <3>2, <3>3 DEF Tables, Runs
  <2>5. ASSUME NEW x \in Slots \ clashed' PROVE SlotSound(x)'
    <3>1. SlotSound(x) /\ x \in Slots
      BY <1>1, <1>9, <2>5
    <3>2. Opening(x)' <=> Opening(x)
      BY <1>9 DEF Opening
    <3>3. \A y \in Conns : conn'[y] \in Live /\ ref'[y] = x => conn[y] \in Live /\ ref[y] = x
      BY <1>9, <2>1 DEF Live
    <3>4. \A y \in Conns : sess[x].tcp = y => conn'[y] = conn[y]
      BY <1>8, <2>1
    <3>5. UNCHANGED <<slotInUse, sess, doing, back>>
      BY <1>9
    <3> QED
      BY <1>1, <3>1, <3>2, <3>3, <3>4, <3>5, Elsewhere DEF Runs
  <2> QED
    BY <2>2, <2>3, <2>4, <2>5 DEF PoolInv
<1>10. ASSUME NEW s \in findFreeSlot,
              slotInUse' = [slotInUse EXCEPT ![s] = TRUE],
              doing' = [doing EXCEPT !["sshd"] = [Idle EXCEPT !.at = "open", !.s = s, !.for = c]],
              Uses(s), UNCHANGED <<conn, sess, ref, back>>
       PROVE  PoolInv'
  <2>1. s \in Slots /\ ~slotInUse[s]
    BY DEF findFreeSlot
  <2>2. PICK d \in Doing : d = [Idle EXCEPT !.at = "open", !.s = s, !.for = c]
    <3>1. s \in 0 .. SSHD_MAX_SESSIONS
      BY <2>1, PoolAssumption DEF Slots
    <3> QED
      BY <3>1 DEF Doing, Idle, Places
  <2>3. d.at = "open" /\ d.s = s /\ d.for = c
    BY <2>2 DEF Idle
  <2>4. /\ doing' \in [Tasks -> Doing] /\ doing'["sshd"] = d
        /\ doing'["cli"] = doing["cli"]
    BY <1>1, <1>10, <2>2 DEF TypeOK, Doing, Tasks
  <2>5. /\ slotInUse' \in [Slots -> BOOLEAN] /\ slotInUse'[s]
        /\ \A x \in Slots : x # s => slotInUse'[x] = slotInUse[x]
    BY <1>1, <1>10, <2>1 DEF TypeOK
  <2>6. clashed \subseteq clashed' /\ clashed' \subseteq Slots
    BY <1>1, <1>10, <2>1 DEF TypeOK, Uses
  <2>7. TypeOK'
    BY <1>1, <1>6, <1>10, <2>4, <2>5, <2>6 DEF TypeOK, Doing
  <2>8. Announced'
    BY <1>1, <1>3, <1>5, <1>7, <1>10, <2>3, <2>4, AnnouncedShift
  <2>9. Tables'
    <3>1. \A y \in Tasks : doing'[y].at \in Closing \cup {"open"} => doing'[y].s \in Slots
      BY <1>1, <2>1, <2>3, <2>4 DEF Tables, Tasks
    <3>2. doing'["cli"].at # "open" /\ doing'["sshd"].at # "loop"
      BY <1>1, <2>3, <2>4 DEF Tables
    <3>3. doing'["sshd"].for \in Conns /\ conn'[doing'["sshd"].for] = "calling"
      BY <1>5, <1>10, <2>3, <2>4
    <3> QED
      BY <1>1, <1>10, <3>1, <3>2, <3>3 DEF Tables, Runs
  <2>10. ASSUME NEW x \in Slots \ clashed', x # s PROVE SlotSound(x)'
    <3>1. SlotSound(x) /\ slotInUse'[x] = slotInUse[x]
      BY <1>1, <2>5, <2>6, <2>10
    <3>2. Opening(x)' <=> Opening(x)
      BY <1>3, <2>3, <2>4, <2>10 DEF Opening
    <3>3. \A y \in Tasks : Inside(y, x) \/ Inside(y, x)' => doing'[y] = doing[y]
      BY <1>3, <2>3, <2>4, <2>10 DEF Inside, Tasks, Closing
    <3>4. UNCHANGED <<conn, sess, ref, back>>
      BY <1>10
    <3> QED
      BY <1>1, <2>10, <3>1, <3>2, <3>3, <3>4, Elsewhere DEF Runs
  <2>11. ASSUME s \notin clashed' PROVE SlotSound(s)'
    <3>1. SlotSound(s) /\ ~Inside("cli", s)
      BY <1>1, <1>10, <2>1, <2>6, <2>11 DEF Uses
    <3>2. sess[s].tcp = None /\ sess[s].backend = None
      BY <2>1, <3>1 DEF SlotSound
    <3>3. \A y \in Tasks : ~Inside(y, s)'
      BY <2>3, <2>4, <3>1 DEF Inside, Tasks, Closing
    <3>4. Opening(s)'
      BY <2>3, <2>4 DEF Opening
    <3>5. CloseSound(s)'
      BY <3>3 DEF CloseSound
    <3>6. \A y \in Conns : conn'[y] \in Live /\ ref'[y] = s => sess'[s].tcp = y
      BY <1>10, <3>1 DEF SlotSound
    <3>7. \A b \in Backends : Runs(b)' /\ back'[b].s = s => back'[b].stray \/ sess'[s].backend = b
      BY <1>10, <3>1 DEF SlotSound, Runs
    <3> QED
      BY <1>10, <2>5, <3>2, <3>3, <3>4, <3>5, <3>6, <3>7 DEF SlotSound
  <2> QED
    BY <2>7, <2>8, <2>9, <2>10, <2>11 DEF PoolInv
<1> QED
  BY <1>4, <1>9, <1>10 DEF onTcpConnect

\* A session opens in the slot taken for it.
LEMMA OpenInv ==
  ASSUME PoolInv, session_open
  PROVE  PoolInv'
<1>1. TypeOK /\ Announced /\ Tables /\ \A x \in Slots \ clashed : SlotSound(x)
  BY DEF PoolInv
<1>2. PICK s \in Slots, c \in Conns : s = doing["sshd"].s /\ c = doing["sshd"].for
  BY <1>1 DEF Tables, session_open, Tasks
<1>3. conn[c] = "calling" /\ doing["sshd"].at = "open"
  BY <1>1, <1>2 DEF Tables, session_open
<1>4. None \notin Conns /\ None \notin Backends
  BY DEF None, Conns, Backends
<1>5. PICK r \in Session : r = [tcp |-> c, slot |-> TRUE, closed |-> FALSE,
                                chanOpen |-> FALSE, backend |-> None]
  BY DEF Session
<1>6. r.tcp = c /\ r.slot /\ r.backend = None
  BY <1>5
<1>7. /\ sess' = [sess EXCEPT ![s] = r] /\ ref' = [ref EXCEPT ![c] = s]
      /\ conn' = [conn EXCEPT ![c] = "up"] /\ doing' = [doing EXCEPT !["sshd"] = Idle]
      /\ UNCHANGED <<slotInUse, back, inbox>>
  BY <1>2, <1>5 DEF session_open
<1>8. /\ clashed \subseteq clashed' /\ clashed' \subseteq Slots
      /\ s \notin clashed' => ~Inside("cli", s)
  BY <1>1, <1>2 DEF TypeOK, session_open, Uses
<1>9. /\ sess' \in [Slots -> Session] /\ sess'[s] = r
      /\ \A x \in Slots : x # s => sess'[x] = sess[x]
  BY <1>1, <1>7 DEF TypeOK
<1>10. /\ conn' \in [Conns -> ConnStates] /\ conn'[c] = "up"
       /\ \A y \in Conns : y # c => conn'[y] = conn[y]
  BY <1>1, <1>7 DEF TypeOK, ConnStates
<1>11. /\ ref' \in [Conns -> Slots \cup {NoSlot}] /\ ref'[c] = s
       /\ \A y \in Conns : y # c => ref'[y] = ref[y]
  BY <1>1, <1>7 DEF TypeOK
<1>12. /\ doing' \in [Tasks -> Doing] /\ doing'["sshd"] = Idle /\ Idle.at = "poll"
       /\ doing'["cli"] = doing["cli"]
  <2>1. Idle \in Doing
    BY PoolAssumption DEF Idle, Doing, Places
  <2> QED
    BY <1>1, <1>7, <2>1 DEF TypeOK, Doing, Tasks, Idle
<1>13. TypeOK'
  BY <1>1, <1>7, <1>8, <1>9, <1>10, <1>11, <1>12 DEF TypeOK, Doing
<1>14. \A x \in Slots : sess[x].tcp # c
  BY <1>1, <1>3, <1>4 DEF Tables, Live
<1>15. Announced'
  <2>1. \A i \in DOMAIN inbox' : inbox'[i].ev = "connect" => inbox'[i].n # c
    BY <1>1, <1>2, <1>3, <1>7 DEF Announced
  <2>2. \A y \in Conns : conn'[y] = conn[y] \/ (y = c /\ conn[y] = "calling" /\ conn'[y] \in Live \cup {"down"})
    BY <1>3, <1>10 DEF Live
  <2>3. c \in Handles /\ Shifted /\ doing'["sshd"].at # "open"
    BY <1>7, <1>12 DEF Handles, Shifted
  <2>4. \A b \in Backends : back'[b].st = back[b].st
    BY <1>7
  <2> QED
    BY <1>1, <2>1, <2>2, <2>3, <2>4, AnnouncedShift
<1>16. Tables'
  <2>1. ASSUME NEW x \in Slots
        PROVE  /\ sess'[x].tcp # None =>
                     conn'[sess'[x].tcp] \in Live \cup {"down"} /\ ref'[sess'[x].tcp] = x
               /\ sess'[x].backend # None =>
                     /\ back'[sess'[x].backend].st \in {"up", "gone"}
                     /\ back'[sess'[x].backend].s = x
                     /\ ~back'[sess'[x].backend].stray
    <3>1. CASE x = s
      BY <1>6, <1>9, <1>10, <1>11, <3>1 DEF Live
    <3>2. CASE x # s
      <4>1. sess'[x] = sess[x] /\ sess[x].tcp \in Handles /\ sess[x].tcp # c
        BY <1>1, <1>9, <1>14, <3>2 DEF TypeOK, Session, Handles
      <4>2. sess[x].tcp # None => conn'[sess[x].tcp] \in Live \cup {"down"} /\ ref'[sess[x].tcp] = x
        BY <1>1, <1>10, <1>11, <4>1 DEF Tables, Handles
      <4>3. sess[x].backend # None =>
               /\ back'[sess[x].backend].st \in {"up", "gone"}
               /\ back'[sess[x].backend].s = x
               /\ ~back'[sess[x].backend].stray
        BY <1>1, <1>7 DEF Tables, Runs
      <4> QED
        BY <4>1, <4>2, <4>3
    <3> QED
      BY <3>1, <3>2
  <2>2. \A y \in Conns : conn'[y] \in Live => ref'[y] \in Slots
    BY <1>1, <1>10, <1>11 DEF Tables
  <2>3. \A b \in Backends : Runs(b)' => back'[b].s \in Slots
    BY <1>1, <1>7 DEF Tables, Runs
  <2>4. \A y \in Tasks : doing'[y].at \in Closing \cup {"open"} => doing'[y].s \in Slots
    BY <1>1, <1>12 DEF Tables, Tasks, Closing
  <2>5. doing'["cli"].at # "open" /\ doing'["sshd"].at # "loop" /\ doing'["sshd"].at # "open"
    BY <1>1, <1>12 DEF Tables
  <2> QED
    BY <2>1, <2>2, <2>3, <2>4, <2>5 DEF Tables, Runs
<1>17. ASSUME NEW x \in Slots \ clashed', x # s PROVE SlotSound(x)'
  <2>1. SlotSound(x) /\ sess'[x] = sess[x] /\ slotInUse'[x] = slotInUse[x]
    BY <1>1, <1>7, <1>8, <1>9, <1>17
  <2>2. Opening(x)' <=> Opening(x)
    BY <1>2, <1>12, <1>17 DEF Opening
  <2>3. \A y \in Tasks : Inside(y, x) \/ Inside(y, x)' => doing'[y] = doing[y]
    BY <1>3, <1>12 DEF Inside, Tasks, Closing
  <2>4. \A y \in Conns : conn'[y] \in Live /\ ref'[y] = x => conn[y] \in Live /\ ref[y] = x
    BY <1>10, <1>11, <1>17
  <2>5. \A y \in Conns : sess[x].tcp = y => conn'[y] = conn[y]
    BY <1>10, <1>14, <1>17
  <2>6. back' = back
    BY <1>7
  <2> QED
    BY <1>1, <1>17, <2>1, <2>2, <2>3, <2>4, <2>5, <2>6, Elsewhere DEF Runs
<1>18. ASSUME s \notin clashed' PROVE SlotSound(s)'
  <2>1. SlotSound(s) /\ Opening(s)
    BY <1>1, <1>2, <1>3, <1>8, <1>18 DEF Opening
  <2>2. slotInUse[s] /\ sess[s].tcp = None /\ sess[s].backend = None
    BY <2>1 DEF SlotSound
  <2>3. \A y \in Tasks : ~Inside(y, s)'
    BY <1>8, <1>12, <1>18 DEF Inside, Tasks, Closing
  <2>4. CloseSound(s)'
    BY <2>3 DEF CloseSound
  <2>5. ~Opening(s)'
    BY <1>12 DEF Opening
  <2>6. \A y \in Conns : conn'[y] \in Live /\ ref'[y] = s => sess'[s].tcp = y
    <3> SUFFICES ASSUME NEW y \in Conns, conn'[y] \in Live, ref'[y] = s, y # c
                 PROVE  FALSE
      BY <1>6, <1>9
    <3>1. conn[y] \in Live /\ ref[y] = s
      BY <1>10, <1>11
    <3>2. sess[s].tcp = y
      BY <2>1, <3>1 DEF SlotSound
    <3> QED
      BY <1>4, <2>2, <3>2
  <2>7. \A b \in Backends : Runs(b)' /\ back'[b].s = s => back'[b].stray
    BY <1>4, <1>7, <2>1, <2>2 DEF SlotSound, Runs
  <2>8. slotInUse'[s] /\ sess'[s].tcp = c /\ sess'[s].slot /\ sess'[s].backend = None
    BY <1>6, <1>7, <1>9, <2>2
  <2>9. c # None /\ conn'[c] \in Live
    BY <1>4, <1>10 DEF Live
  <2> QED
    BY <2>4, <2>5, <2>6, <2>7, <2>8, <2>9 DEF SlotSound
<1> QED
  BY <1>13, <1>15, <1>16, <1>17, <1>18 DEF PoolInv

\* A packet connects the session of a slot that is in use to a backend, or fails
\* to; the backend that was there is left running.
LEMMA BackendOpensInv ==
  ASSUME PoolInv, Shifted, doing["sshd"].at = "poll", NEW s \in Slots, slotInUse[s],
         Uses(s), OpensBackend(s), UNCHANGED <<slotInUse, ref>>
  PROVE  PoolInv'
<1>1. TypeOK /\ Announced /\ Tables /\ \A x \in Slots \ clashed : SlotSound(x)
  BY DEF PoolInv
<1>2. None \notin Conns /\ None \notin Backends /\ None \in Handles
  BY DEF None, Conns, Backends, Handles
<1>3. conn' = conn /\ doing' = doing
  BY DEF OpensBackend
<1>4. inbox' \in Seq(Events)
  BY <1>1, ShiftFacts
<1>5. /\ clashed \subseteq clashed' /\ clashed' \subseteq Slots
      /\ s \notin clashed' => ~Inside("cli", s)
  BY <1>1 DEF TypeOK, Uses
<1>6. sess[s] \in Session /\ sess[s].tcp \in Handles /\ sess[s].backend \in Backends \cup {None}
  BY <1>1 DEF TypeOK, Session, Handles
<1> DEFINE Left(b) == IF b = sess[s].backend THEN [back[b] EXCEPT !.stray = TRUE] ELSE back[b]
<1>7. \A b \in Backends : /\ Left(b) \in Backend /\ back[b] \in Backend
                          /\ Left(b).st = back[b].st /\ Left(b).s = back[b].s /\ Left(b).c = back[b].c
                          /\ b = sess[s].backend => Left(b).stray
                          /\ b # sess[s].backend => Left(b) = back[b]
  <2> SUFFICES ASSUME NEW b \in Backends
               PROVE  /\ Left(b) \in Backend /\ back[b] \in Backend
                      /\ Left(b).st = back[b].st /\ Left(b).s = back[b].s /\ Left(b).c = back[b].c
                      /\ b = sess[s].backend => Left(b).stray
                      /\ b # sess[s].backend => Left(b) = back[b]
    OBVIOUS
  <2>1. PICK k \in Backend : k = back[b]
    BY <1>1 DEF TypeOK
  <2>2. PICK m \in Backend : m = [k EXCEPT !.stray = TRUE]
    BY DEF Backend
  <2>3. m.st = k.st /\ m.s = k.s /\ m.c = k.c /\ m.stray
    BY <2>2 DEF Backend
  <2>4. Left(b) = IF b = sess[s].backend THEN m ELSE k
    BY <2>1, <2>2
  <2> HIDE DEF Left
  <2> QED
    BY <2>1, <2>3, <2>4
<1> HIDE DEF Left
<1>8. PICK n \in Backends \cup {None} :
         /\ n # None => back[n].st = "new"
         /\ sess' = [sess EXCEPT ![s].backend = n]
         /\ \A b \in Backends : b # n => back'[b] = Left(b)
         /\ n # None => /\ back'[n] = [st |-> "up", s |-> s, c |-> sess[s].tcp, stray |-> FALSE]
         /\ DOMAIN back' = Backends /\ back' = [b \in Backends |-> back'[b]]
  <2> DEFINE left == [b \in Backends |-> Left(b)]
  <2>1. CASE sess' = [sess EXCEPT ![s].backend = None] /\ back' = left
    BY <1>2, <2>1
  <2>2. ASSUME NEW n \in Backends, back[n].st = "new", sess' = [sess EXCEPT ![s].backend = n],
               back' = [left EXCEPT ![n] = [st |-> "up", s |-> s, c |-> sess[s].tcp, stray |-> FALSE]]
        PROVE  /\ \A b \in Backends : b # n => back'[b] = Left(b)
               /\ back'[n] = [st |-> "up", s |-> s, c |-> sess[s].tcp, stray |-> FALSE]
               /\ DOMAIN back' = Backends /\ back' = [b \in Backends |-> back'[b]]
    BY <2>2
  <2>3. \/ sess' = [sess EXCEPT ![s].backend = None] /\ back' = left
        \/ \E n \in Backends :
              /\ back[n].st = "new" /\ sess' = [sess EXCEPT ![s].backend = n]
              /\ back' = [left EXCEPT ![n] = [st |-> "up", s |-> s, c |-> sess[s].tcp, stray |-> FALSE]]
    BY DEF OpensBackend, Left
  <2> QED
    BY <2>1, <2>2, <2>3
<1>9. /\ sess' \in [Slots -> Session] /\ sess'[s].tcp = sess[s].tcp /\ sess'[s].backend = n
      /\ sess'[s].slot = sess[s].slot
      /\ \A x \in Slots : x # s => sess'[x] = sess[x]
  <2>1. PICK r \in Session : r = [sess[s] EXCEPT !.backend = n]
    BY <1>6 DEF Session
  <2>2. r.tcp = sess[s].tcp /\ r.backend = n /\ r.slot = sess[s].slot
    BY <1>6, <2>1 DEF Session
  <2>3. sess' = [sess EXCEPT ![s] = r]
    BY <1>1, <1>8, <2>1 DEF TypeOK
  <2> QED
    BY <1>1, <2>2, <2>3 DEF TypeOK
<1>10. n # None => /\ n \in Backends /\ back'[n] \in Backend
                   /\ back'[n].st = "up" /\ back'[n].s = s /\ back'[n].c = sess[s].tcp
                   /\ ~back'[n].stray
  <2>1. PICK k \in Backend : k = [st |-> "up", s |-> s, c |-> sess[s].tcp, stray |-> FALSE]
    BY <1>6 DEF Backend, Handles
  <2>2. k.st = "up" /\ k.s = s /\ k.c = sess[s].tcp /\ ~k.stray
    BY <2>1
  <2>3. n # None => n \in Backends /\ back'[n] = k
    BY <1>8, <2>1
  <2> QED
    BY <2>2, <2>3
<1>11. \A b \in Backends : b # n =>
          /\ back'[b] \in Backend /\ back'[b].st = back[b].st
          /\ back'[b].s = back[b].s /\ back'[b].c = back[b].c
          /\ b = sess[s].backend => back'[b].stray
          /\ b # sess[s].backend => back'[b] = back[b]
  BY <1>7, <1>8
<1>12. back' \in [Backends -> Backend]
  <2>1. \A b \in Backends : back'[b] \in Backend
    BY <1>2, <1>10, <1>11
  <2> QED
    BY <1>8, <2>1
<1>13. TypeOK'
  BY <1>1, <1>3, <1>4, <1>5, <1>9, <1>12 DEF TypeOK
<1>14. Announced'
  <2>1. \A b \in Backends : back'[b].st = back[b].st \/ back[b].st = "new"
    BY <1>2, <1>8, <1>11
  <2> QED
    BY <1>1, <1>2, <1>3, <2>1, AnnouncedShift
<1>15. Tables'
  <2>1. ASSUME NEW x \in Slots
        PROVE  sess'[x].backend # None =>
                  /\ back'[sess'[x].backend].st \in {"up", "gone"} /\ back'[sess'[x].backend].s = x
                  /\ ~back'[sess'[x].backend].stray
    <3>1. CASE x = s
      BY <1>9, <1>10, <3>1
    <3>2. ASSUME x # s, sess[x].backend # None
          PROVE  /\ back'[sess[x].backend].st \in {"up", "gone"} /\ back'[sess[x].backend].s = x
                 /\ ~back'[sess[x].backend].stray
      <4>1. PICK b \in Backends : b = sess[x].backend
        BY <1>1, <3>2 DEF TypeOK, Session
      <4>2. back[b].st \in {"up", "gone"} /\ back[b].s = x /\ ~back[b].stray
        BY <1>1, <3>2, <4>1 DEF Tables, Runs
      <4>3. b # n
        BY <1>2, <1>8, <4>2
      <4>4. b # sess[s].backend
        BY <1>1, <1>2, <3>2, <4>2 DEF Tables
      <4> QED
        BY <1>11, <4>1, <4>2, <4>3, <4>4
    <3> QED
      BY <1>9, <3>1, <3>2
  <2>2. \A x \in Slots : sess'[x].tcp = sess[x].tcp
    BY <1>9
  <2>3. ASSUME NEW b \in Backends, Runs(b)' PROVE back'[b].s \in Slots
    <3>1. CASE b = n
      BY <1>2, <1>10, <3>1
    <3>2. CASE b # n
      BY <1>1, <1>11, <2>3, <3>2 DEF Tables, Runs
    <3> QED
      BY <3>1, <3>2
  <2> QED
    BY <1>1, <1>3, <2>1, <2>2, <2>3 DEF Tables, Runs
<1>16. ASSUME NEW x \in Slots \ clashed', x # s PROVE SlotSound(x)'
  <2>1. SlotSound(x) /\ sess'[x] = sess[x] /\ slotInUse'[x] = slotInUse[x]
    BY <1>1, <1>5, <1>9, <1>16
  <2>2. Opening(x)' <=> Opening(x)
    BY <1>3 DEF Opening
  <2>3. ASSUME NEW b \in Backends, Runs(b)', back'[b].s = x
        PROVE  Runs(b) /\ back[b].s = x /\ back'[b].stray = back[b].stray
    <3>1. b # n
      BY <1>2, <1>10, <1>16, <2>3
    <3>2. b # sess[s].backend
      BY <1>1, <1>2, <1>11, <1>16, <2>3, <3>1 DEF Tables
    <3> QED
      BY <1>11, <2>3, <3>1, <3>2 DEF Runs
  <2>4. ASSUME NEW b \in Backends, sess[x].backend = b
        PROVE  back'[b].c = back[b].c
    <3>1. b # n
      BY <1>1, <1>2, <1>8, <1>16, <2>4 DEF Tables, Runs
    <3> QED
      BY <1>11, <3>1
  <2> QED
    BY <1>1, <1>3, <1>16, <2>1, <2>2, <2>3, <2>4, Elsewhere
<1>17. ASSUME s \notin clashed' PROVE SlotSound(s)'
  <2>1. SlotSound(s) /\ \A y \in Tasks : ~Inside(y, s)'
    BY <1>1, <1>3, <1>5, <1>17 DEF Inside, Tasks, Closing
  <2>2. CloseSound(s)' /\ ~Opening(s)'
    BY <1>3, <2>1 DEF CloseSound, Opening
  <2>3. \A b \in Backends : Runs(b)' /\ back'[b].s = s => back'[b].stray \/ b = n
    BY <1>11, <2>1 DEF SlotSound, Runs
  <2>4. sess[s].slot /\ sess[s].tcp # None /\ conn[sess[s].tcp] \in Live
    BY <1>3, <2>1 DEF SlotSound, Inside, Opening
  <2>5. \A y \in Conns : conn'[y] \in Live /\ ref'[y] = s => sess[s].tcp = y
    BY <1>3, <2>1 DEF SlotSound
  <2>6. n # None => back'[n].c = sess[s].tcp
    BY <1>10
  <2>7. slotInUse'[s] /\ conn'[sess[s].tcp] \in Live
    BY <1>3, <2>4
  <2> QED
    BY <1>9, <2>2, <2>3, <2>4, <2>5, <2>6, <2>7 DEF SlotSound
<1> QED
  BY <1>13, <1>14, <1>15, <1>16, <1>17 DEF PoolInv

\* A packet opens the channel of a session.
LEMMA ChannelInv ==
  ASSUME PoolInv, Shifted, NEW s \in Slots, Uses(s), OpensChannel(s), UNCHANGED <<slotInUse, ref>>
  PROVE  PoolInv'
<1>1. TypeOK /\ Announced /\ Tables /\ \A x \in Slots \ clashed : SlotSound(x)
  BY DEF PoolInv
<1>2. PICK r \in Session : r = [sess[s] EXCEPT !.chanOpen = TRUE]
  BY <1>1 DEF TypeOK, Session
<1>3. r.tcp = sess[s].tcp /\ r.slot = sess[s].slot /\ r.backend = sess[s].backend
  BY <1>1, <1>2 DEF TypeOK, Session
<1>4. sess' = [sess EXCEPT ![s] = r] /\ UNCHANGED <<conn, back, doing, slotInUse, ref>>
  BY <1>1, <1>2 DEF OpensChannel, TypeOK
<1>5. /\ sess' \in [Slots -> Session]
      /\ \A x \in Slots : /\ sess'[x].tcp = sess[x].tcp /\ sess'[x].slot = sess[x].slot
                          /\ sess'[x].backend = sess[x].backend
  BY <1>1, <1>3, <1>4 DEF TypeOK
<1>6. clashed \subseteq clashed' /\ clashed' \subseteq Slots
  BY <1>1 DEF TypeOK, Uses
<1>7. inbox' \in Seq(Events)
  BY <1>1, ShiftFacts
<1>8. TypeOK'
  BY <1>1, <1>4, <1>5, <1>6, <1>7 DEF TypeOK
<1>9. None \in Handles /\ None \notin Conns
  BY DEF Handles, None, Conns
<1>10. Announced'
  BY <1>1, <1>4, <1>9, AnnouncedShift
<1>11. Tables'
  BY <1>1, <1>4, <1>5 DEF Tables, Runs
<1>12. ASSUME NEW x \in Slots \ clashed' PROVE SlotSound(x)'
  <2>1. SlotSound(x) /\ x \in Slots
    BY <1>1, <1>6, <1>12
  <2>2. \A t \in Tasks : Inside(t, x)' <=> Inside(t, x)
    BY <1>4 DEF Inside
  <2>3. CloseSound(x)'
    BY <1>4, <1>5, <2>1, <2>2 DEF SlotSound, CloseSound
  <2> QED
    BY <1>4, <1>5, <2>1, <2>2, <2>3 DEF SlotSound, Opening, Runs
<1> QED
  BY <1>8, <1>10, <1>11, <1>12 DEF PoolInv

\* Data arrives: the session goes on, opens its channel or a backend, or is closed.
LEMMA RecvInv ==
  ASSUME PoolInv, onTcpRecv
  PROVE  PoolInv'
<1>1. TypeOK /\ Announced /\ Tables /\ \A x \in Slots \ clashed : SlotSound(x)
  BY DEF PoolInv
<1>2. Polls("recv") /\ UNCHANGED <<slotInUse, ref>>
  BY DEF onTcpRecv
<1>3. doing["sshd"].at = "poll" /\ Shifted
  BY <1>1, <1>2, PollFacts
<1>4. PICK c \in Conns : c = Head(inbox).n
  BY <1>1, <1>2, HeadFacts
<1>5. conn[c] \in Live \cup {"down"}
  BY <1>1, <1>2, <1>4, HeadFacts
<1>6. clashed \subseteq Slots
  BY <1>1 DEF TypeOK
<1>7. CASE conn[c] = "down" \/ ~slotInUse[ref[c]]
  <2>1. UNCHANGED <<sess, back, conn, doing, clashed>>
    BY <1>4, <1>7 DEF onTcpRecv
  <2> QED
    BY <1>2, <1>3, <1>6, <2>1, IdleInv
<1>8. CASE ~(conn[c] = "down" \/ ~slotInUse[ref[c]])
  <2>1. conn[c] \in Live
    BY <1>5, <1>8
  <2>2. PICK s \in Slots : s = ref[c]
    BY <1>1, <2>1 DEF Tables
  <2>3. slotInUse[s] /\ Uses(s)
    BY <1>4, <1>8, <2>2 DEF onTcpRecv
  <2>4. clashed \subseteq clashed' /\ clashed' \subseteq Slots
    BY <1>6, <2>3 DEF Uses
  <2>5. sess[s] \in Session /\ c \in Handles
    BY <1>1 DEF TypeOK, Handles
  <2>6. s \notin clashed' => slotInUse[s] /\ ~Opening(s) /\ sess[s].tcp \in {c, None}
    <3>1. s \notin clashed' => SlotSound(s)
      BY <1>1, <2>4
    <3> QED
      BY <1>3, <2>1, <2>2, <2>3, <3>1 DEF SlotSound, Opening
  <2>7. CASE UNCHANGED <<sess, back, conn, doing>>
    BY <1>2, <1>3, <2>4, <2>7, IdleInv
  <2>8. CASE OpensChannel(s)
    BY <1>2, <1>3, <2>3, <2>8, ChannelInv
  <2>9. CASE OpensBackend(s)
    BY <1>2, <1>3, <2>3, <2>9, BackendOpensInv
  <2>10. ASSUME NEW r \in Session, r.tcp = sess[s].tcp, r.slot = sess[s].slot,
                r.backend = sess[s].backend, CloseBegins("sshd", s, r, c, FALSE),
                \/ conn' = conn
                \/ conn' = [conn EXCEPT ![c] = "down"]
         PROVE  PoolInv'
    <3>1. FALSE \in BOOLEAN /\ "sshd" \in Tasks
      BY DEF Tasks
    <3>2. \/ conn' = conn
          \/ c \in Conns /\ conn[c] \in Live /\ ref[c] = s /\ conn' = [conn EXCEPT ![c] = "down"]
      BY <2>1, <2>2, <2>10
    <3>3. s \notin clashed' => /\ slotInUse[s] /\ ~Opening(s)
                               /\ FALSE \/ sess[s].tcp \in {c, None}
      BY <2>6
    <3> QED
      BY <1>2, <1>3, <2>4, <2>5, <2>10, <3>1, <3>2, <3>3, ClosingInv
  <2>11. CASE HangsUp(s, c)
    <3>1. [sess[s] EXCEPT !.closed = TRUE] \in Session
      BY <2>5 DEF Session
    <3> QED
      BY <2>5, <2>10, <2>11, <3>1 DEF HangsUp, Session
  <2>12. CASE ClosesChannel(s, c)
    <3>1. [sess[s] EXCEPT !.closed = TRUE, !.chanOpen = FALSE] \in Session
      BY <2>5 DEF Session
    <3> QED
      BY <2>5, <2>10, <2>12, <3>1 DEF ClosesChannel, Session
  <2>13. CASE CloseBegins("sshd", s, sess[s], c, FALSE) /\ UNCHANGED conn
    BY <2>5, <2>10, <2>13
  <2>14. \/ UNCHANGED <<sess, back, conn, doing>>
         \/ OpensChannel(s) \/ OpensBackend(s) \/ HangsUp(s, c) \/ ClosesChannel(s, c)
         \/ CloseBegins("sshd", s, sess[s], c, FALSE) /\ UNCHANGED conn
    BY <1>4, <1>8, <2>2 DEF onTcpRecv
  <2> QED
    BY <2>7, <2>8, <2>9, <2>11, <2>12, <2>13, <2>14
<1> QED
  BY <1>7, <1>8

\* A hangup arrives: the session in the slot of its connection is closed.
LEMMA DisconnectInv ==
  ASSUME PoolInv, onTcpDisconnect
  PROVE  PoolInv'
<1>1. TypeOK /\ Announced /\ Tables /\ \A x \in Slots \ clashed : SlotSound(x)
  BY DEF PoolInv
<1>2. Polls("disconnect") /\ UNCHANGED <<slotInUse, ref, clashed>>
  BY DEF onTcpDisconnect
<1>3. doing["sshd"].at = "poll" /\ Shifted
  BY <1>1, <1>2, PollFacts
<1>4. PICK c \in Conns : c = Head(inbox).n
  BY <1>1, <1>2, HeadFacts
<1>5. conn[c] \in {"gone", "down"}
  BY <1>1, <1>2, <1>4, HeadFacts
<1>6. clashed' \subseteq Slots /\ clashed \subseteq clashed'
  BY <1>1, <1>2 DEF TypeOK
<1>7. CASE conn[c] = "down"
  <2>1. UNCHANGED <<sess, back, conn, doing>>
    BY <1>4, <1>7 DEF onTcpDisconnect
  <2> QED
    BY <1>2, <1>3, <1>6, <2>1, IdleInv
<1>8. CASE conn[c] # "down"
  <2>1. conn[c] \in Live
    BY <1>5, <1>8 DEF Live
  <2>2. PICK s \in Slots : s = ref[c]
    BY <1>1, <2>1 DEF Tables
  <2>3. conn' = [conn EXCEPT ![c] = "down"] /\ CloseBegins("sshd", s, sess[s], c, FALSE)
    BY <1>4, <1>8, <2>2 DEF onTcpDisconnect
  <2>4. sess[s] \in Session /\ c \in Handles /\ c # None
    BY <1>1 DEF TypeOK, Handles, Conns, None
  <2>5. s \notin clashed' => /\ slotInUse[s] /\ ~Opening(s)
                             /\ FALSE \/ sess[s].tcp \in {c, None}
    <3>1. s \notin clashed' => SlotSound(s)
      BY <1>1, <1>6
    <3>2. s \notin clashed' => sess[s].tcp = c
      BY <2>1, <2>2, <3>1 DEF SlotSound
    <3> QED
      BY <1>3, <2>4, <3>1, <3>2 DEF SlotSound, Opening
  <2>6. FALSE \in BOOLEAN /\ "sshd" \in Tasks
    BY DEF Tasks
  <2> QED
    BY <1>2, <1>3, <1>6, <2>1, <2>2, <2>3, <2>4, <2>5, <2>6, ClosingInv
<1> QED
  BY <1>7, <1>8

\* The kick of a backend arrives: the session in its slot is closed.
LEMMA KickInv ==
  ASSUME PoolInv, on_backend_disconnect_cb
  PROVE  PoolInv'
<1>1. TypeOK /\ Announced /\ Tables /\ \A x \in Slots \ clashed : SlotSound(x)
  BY DEF PoolInv
<1>2. Polls("kick") /\ UNCHANGED <<slotInUse, conn, ref, clashed>>
  BY DEF on_backend_disconnect_cb
<1>3. /\ doing["sshd"].at = "poll" /\ Shifted
      /\ 1 \in DOMAIN inbox /\ Head(inbox) = inbox[1] /\ inbox[1] \in Events /\ inbox[1].ev = "kick"
  BY <1>1, <1>2, PollFacts
<1>4. PICK b \in Backends : b = Head(inbox).n
  BY <1>3, EventFacts
<1>5. back[b].st \in {"gone", "down"}
  BY <1>1, <1>3, <1>4 DEF Announced
<1>6. clashed' \subseteq Slots /\ clashed \subseteq clashed'
  BY <1>1, <1>2 DEF TypeOK
<1>7. CASE back[b].st = "down" \/ ~slotInUse[back[b].s] \/ ~sess[back[b].s].chanOpen
  <2>1. UNCHANGED <<sess, back, doing>>
    BY <1>4, <1>7 DEF on_backend_disconnect_cb
  <2> QED
    BY <1>2, <1>3, <1>6, <2>1, IdleInv
<1>8. CASE ~(back[b].st = "down" \/ ~slotInUse[back[b].s] \/ ~sess[back[b].s].chanOpen)
  <2>1. Runs(b)
    BY <1>5, <1>8 DEF Runs
  <2>2. PICK s \in Slots : s = back[b].s
    BY <1>1, <2>1 DEF Tables
  <2>3. PICK c \in Handles, isStray \in BOOLEAN : c = back[b].c /\ isStray = back[b].stray
    BY <1>1 DEF TypeOK, Backend, Handles
  <2>4. PICK r \in Session : r = [sess[s] EXCEPT !.chanOpen = FALSE]
    BY <1>1 DEF TypeOK, Session
  <2>5. r.tcp = sess[s].tcp /\ r.slot = sess[s].slot /\ r.backend = sess[s].backend
    BY <1>1, <2>4 DEF TypeOK, Session
  <2>6. slotInUse[s] /\ CloseBegins("sshd", s, r, c, isStray)
    BY <1>4, <1>8, <2>2, <2>3, <2>4 DEF on_backend_disconnect_cb
  <2>7. s \notin clashed' => /\ slotInUse[s] /\ ~Opening(s)
                             /\ isStray \/ sess[s].tcp \in {c, None}
    <3>1. s \notin clashed' => SlotSound(s)
      BY <1>1, <1>6
    <3>2. s \notin clashed' /\ ~isStray => sess[s].tcp = c
      BY <2>1, <2>2, <2>3, <3>1, b # None DEF SlotSound, None, Backends
    <3> QED
      BY <1>3, <2>6, <3>2 DEF Opening
  <2>8. "sshd" \in Tasks
    BY DEF Tasks
  <2> QED
    BY <1>2, <1>3, <1>6, <2>3, <2>5, <2>6, <2>7, <2>8, ClosingInv
<1> QED
  BY <1>7, <1>8

\* "sshd reset" goes from slot to slot.
LEMMA CliInv ==
  ASSUME PoolInv, doing["cli"].at \in {"poll", "loop"}, NEW d \in Doing, d.at \in {"poll", "loop"},
         doing' = [doing EXCEPT !["cli"] = d],
         UNCHANGED <<slotInUse, sess, conn, ref, back, inbox, clashed>>
  PROVE  PoolInv'
<1>1. TypeOK /\ Announced /\ Tables /\ \A x \in Slots \ clashed : SlotSound(x)
  BY DEF PoolInv
<1>2. /\ doing' \in [Tasks -> Doing] /\ doing'["cli"] = d
      /\ doing'["sshd"] = doing["sshd"]
  BY <1>1 DEF TypeOK, Doing, Tasks
<1>3. TypeOK'
  BY <1>1, <1>2 DEF TypeOK, Doing
<1>4. None \in Handles /\ None \notin Conns /\ Shifted
  BY DEF Handles, None, Conns, Shifted
<1>5. Announced'
  BY <1>1, <1>2, <1>4, AnnouncedShift
<1>6. Tables'
  <2>1. \A t \in Tasks : doing'[t].at \in Closing \cup {"open"} => doing'[t].s \in Slots
    BY <1>1, <1>2 DEF Tables, Tasks, Closing
  <2> QED
    BY <1>1, <1>2, <2>1 DEF Tables, Runs
<1>7. ASSUME NEW x \in Slots \ clashed' PROVE SlotSound(x)'
  <2>1. SlotSound(x) /\ x \in Slots
    BY <1>1, <1>7
  <2>2. Opening(x)' <=> Opening(x)
    BY <1>2 DEF Opening
  <2>3. \A t \in Tasks : Inside(t, x) \/ Inside(t, x)' => doing'[t] = doing[t]
    BY <1>2 DEF Inside, Tasks, Closing
  <2> QED
    BY <1>1, <2>1, <2>2, <2>3, Elsewhere DEF Runs
<1> QED
  BY <1>3, <1>5, <1>6, <1>7 DEF PoolInv

LEMMA ResetInv ==
  ASSUME PoolInv, cmdSshd_reset \/ ResetLooks
  PROVE  PoolInv'
<1>1. TypeOK /\ Tables /\ \A x \in Slots \ clashed : SlotSound(x)
  BY DEF PoolInv
<1>2. /\ doing["cli"] \in Doing
      /\ Idle \in Doing /\ Idle.at = "poll"
      /\ [Idle EXCEPT !.at = "loop"] \in Doing
  <2>1. 0 \in 0 .. SSHD_MAX_SESSIONS
    BY PoolAssumption
  <2> QED
    BY <1>1, <2>1 DEF TypeOK, Idle, Doing, Places, Tasks
<1>3. CASE cmdSshd_reset
  <2>1. [Idle EXCEPT !.at = "loop"].at = "loop"
    BY DEF Idle
  <2> QED
    BY <1>2, <1>3, <2>1, CliInv DEF cmdSshd_reset
<1>4. CASE ResetLooks
  <2>1. PICK s \in 0 .. SSHD_MAX_SESSIONS : s = doing["cli"].s
    BY <1>2 DEF Doing
  <2>2. doing["cli"].at = "loop" /\ UNCHANGED <<slotInUse, conn, ref, inbox>>
    BY <1>4 DEF ResetLooks
  <2>3. CASE s = SSHD_MAX_SESSIONS
    <3>1. doing' = [doing EXCEPT !["cli"] = Idle] /\ UNCHANGED <<sess, back, clashed>>
      BY <1>4, <2>1, <2>3 DEF ResetLooks
    <3> QED
      BY <1>2, <2>2, <3>1, CliInv
  <2>4. CASE s # SSHD_MAX_SESSIONS /\ ~slotInUse[s]
    <3>1. Returns("cli") /\ UNCHANGED <<sess, back, clashed>>
      BY <1>4, <2>1, <2>4 DEF ResetLooks
    <3>2. PICK d \in Doing : d = [Idle EXCEPT !.at = "loop", !.s = s + 1]
      <4>1. s + 1 \in 0 .. SSHD_MAX_SESSIONS
        BY <2>4, PoolAssumption
      <4> QED
        BY <4>1 DEF Doing, Idle, Places
    <3>3. d.at = "loop"
      BY <3>2 DEF Idle
    <3>4. doing' = [doing EXCEPT !["cli"] = d]
      BY <2>1, <3>1, <3>2 DEF Returns
    <3> QED
      BY <2>2, <3>1, <3>3, <3>4, CliInv
  <2>5. CASE s # SSHD_MAX_SESSIONS /\ slotInUse[s]
    <3>1. s \in Slots
      BY <2>5, PoolAssumption DEF Slots
    <3>2. PICK c \in Handles : c = sess[s].tcp
      BY <1>1, <3>1 DEF TypeOK, Session, Handles
    <3>3. /\ CloseBegins("cli", s, sess[s], c, FALSE)
          /\ clashed' = IF Opening(s) THEN clashed \cup {s} ELSE clashed
      BY <1>4, <2>1, <2>5, <3>2 DEF ResetLooks
    <3>4. clashed \subseteq clashed' /\ clashed' \subseteq Slots
      BY <1>1, <3>1, <3>3 DEF TypeOK
    <3>5. s \notin clashed' => /\ slotInUse[s] /\ ~Opening(s)
                               /\ FALSE \/ sess[s].tcp \in {c, None}
      BY <2>5, <3>2, <3>3
    <3>6. sess[s] \in Session /\ Shifted /\ FALSE \in BOOLEAN /\ "cli" \in Tasks
      BY <1>1, <2>2, <3>1 DEF TypeOK, Shifted, Tasks
    <3> QED
      BY <2>1, <2>2, <3>1, <3>3, <3>4, <3>5, <3>6, ClosingInv
  <2> QED
    BY <2>3, <2>4, <2>5
<1> QED
  BY <1>3, <1>4

\* The inbox is left alone, or an event is put at its end that says what is true.
LEMMA AnnouncedPost ==
  ASSUME TypeOK, Announced, Tables, NEW e \in Events,
         inbox' = inbox \/ inbox' = Append(inbox, e), doing' = doing,
         \A y \in Conns : \/ conn'[y] = conn[y]
                          \/ conn[y] = "up" /\ conn'[y] \in {"gone", "lost"}
                          \/ conn[y] = "new" /\ conn'[y] = "calling",
         \A b \in Backends : \/ back'[b].st = back[b].st
                             \/ back[b].st = "up",
         inbox' # inbox =>
             /\ e.ev = "connect" => conn[e.n] = "new" /\ conn'[e.n] = "calling"
             /\ e.ev = "recv" => conn'[e.n] \in Live
             /\ e.ev = "disconnect" => conn'[e.n] = "gone"
             /\ e.ev = "kick" => back'[e.n].st = "gone"
  PROVE  Announced' /\ inbox' \in Seq(Events)
<1>1. inbox \in Seq(Events)
  BY DEF TypeOK
<1>2. inbox' \in Seq(Events)
  BY <1>1
<1>3. \A i \in DOMAIN inbox' :
         \/ i \in DOMAIN inbox /\ inbox'[i] = inbox[i]
         \/ i = Len(inbox) + 1 /\ inbox'[i] = e /\ inbox' # inbox
  <2>1. CASE inbox' = inbox
    BY <2>1
  <2>2. CASE inbox' = Append(inbox, e)
    BY <1>1, <2>2
  <2> QED
    BY <2>1, <2>2
<1> SUFFICES ASSUME NEW i \in DOMAIN inbox'
             PROVE  LET n == inbox'[i].n
                    IN  /\ inbox'[i].ev = "connect" =>
                             /\ conn'[n] = "calling"
                             /\ doing'["sshd"].at = "open" => doing'["sshd"].for # n
                             /\ \A j \in DOMAIN inbox' : inbox'[j].ev = "connect" /\ inbox'[j].n = n => i = j
                        /\ inbox'[i].ev = "recv" => conn'[n] \in Live \cup {"down"}
                        /\ inbox'[i].ev = "disconnect" => conn'[n] \in {"gone", "down"}
                        /\ inbox'[i].ev = "kick" => back'[n].st \in {"gone", "down"}
  BY <1>2 DEF Announced
<1>4. \A j \in DOMAIN inbox' :
         /\ inbox'[j].ev \in {"connect", "recv", "disconnect"} => inbox'[j].n \in Conns
         /\ inbox'[j].ev = "kick" => inbox'[j].n \in Backends
  BY <1>2, EventFacts
<1>5. \A j \in DOMAIN inbox' : inbox'[j].ev = "connect" =>
         /\ conn'[inbox'[j].n] = "calling"
         /\ j \in DOMAIN inbox => inbox'[j] = inbox[j] /\ conn[inbox'[j].n] = "calling"
         /\ j \notin DOMAIN inbox => conn[inbox'[j].n] = "new" /\ j = Len(inbox) + 1
         /\ doing'["sshd"].at = "open" => doing'["sshd"].for # inbox'[j].n
  <2> SUFFICES ASSUME NEW j \in DOMAIN inbox', inbox'[j].ev = "connect"
               PROVE  /\ conn'[inbox'[j].n] = "calling"
                      /\ j \in DOMAIN inbox => inbox'[j] = inbox[j] /\ conn[inbox'[j].n] = "calling"
                      /\ j \notin DOMAIN inbox => conn[inbox'[j].n] = "new" /\ j = Len(inbox) + 1
                      /\ doing'["sshd"].at = "open" => doing'["sshd"].for # inbox'[j].n
    OBVIOUS
  <2>1. Len(inbox) + 1 \notin DOMAIN inbox
    BY <1>1
  <2>2. CASE j \in DOMAIN inbox /\ inbox'[j] = inbox[j]
    BY <1>4, <2>2 DEF Announced
  <2>3. CASE j = Len(inbox) + 1 /\ inbox'[j] = e /\ inbox' # inbox
    BY <2>1, <2>3 DEF Tables
  <2> QED
    BY <1>3, <2>2, <2>3
<1>6. \A j \in DOMAIN inbox' : inbox'[i].ev = "connect" /\ inbox'[j].ev = "connect"
                               /\ inbox'[j].n = inbox'[i].n => i = j
  <2> SUFFICES ASSUME NEW j \in DOMAIN inbox', inbox'[i].ev = "connect", inbox'[j].ev = "connect",
                      inbox'[j].n = inbox'[i].n
               PROVE  i = j
    OBVIOUS
  <2>1. CASE i \in DOMAIN inbox /\ j \in DOMAIN inbox
    BY <1>5, <2>1 DEF Announced
  <2>2. CASE i \notin DOMAIN inbox \/ j \notin DOMAIN inbox
    BY <1>5, <2>2
  <2> QED
    BY <2>1, <2>2
<1>7. inbox'[i].ev = "recv" => conn'[inbox'[i].n] \in Live \cup {"down"}
  BY <1>3, <1>4 DEF Announced, Live
<1>8. inbox'[i].ev = "disconnect" => conn'[inbox'[i].n] \in {"gone", "down"}
  BY <1>3, <1>4 DEF Announced
<1>9. inbox'[i].ev = "kick" => back'[inbox'[i].n].st \in {"gone", "down"}
  BY <1>3, <1>4 DEF Announced
<1> QED
  BY <1>5, <1>6, <1>7, <1>8, <1>9

\* What the network side and the backends do.
LEMMA OutsideInv ==
  ASSUME PoolInv, NEW e \in Events,
         inbox' = inbox \/ inbox' = Append(inbox, e),
         conn' \in [Conns -> ConnStates], back' \in [Backends -> Backend],
         \A y \in Conns : \/ conn'[y] = conn[y]
                          \/ conn[y] = "up" /\ conn'[y] \in {"gone", "lost"}
                          \/ conn[y] = "new" /\ conn'[y] = "calling",
         \A b \in Backends : /\ back'[b].s = back[b].s /\ back'[b].c = back[b].c
                             /\ back'[b].stray = back[b].stray
                             /\ \/ back'[b].st = back[b].st
                                \/ back[b].st = "up" /\ back'[b].st = "gone",
         inbox' # inbox =>
             /\ e.ev = "connect" => conn[e.n] = "new" /\ conn'[e.n] = "calling"
             /\ e.ev = "recv" => conn'[e.n] \in Live
             /\ e.ev = "disconnect" => conn'[e.n] = "gone"
             /\ e.ev = "kick" => back'[e.n].st = "gone",
         UNCHANGED <<slotInUse, sess, ref, doing, clashed>>
  PROVE  PoolInv'
<1>1. TypeOK /\ Announced /\ Tables /\ \A x \in Slots \ clashed : SlotSound(x)
  BY DEF PoolInv
<1>2. Announced' /\ inbox' \in Seq(Events)
  BY <1>1, AnnouncedPost
<1>3. TypeOK'
  BY <1>1, <1>2 DEF TypeOK
<1>4. \A x \in Slots : sess[x].tcp \in Handles /\ sess[x].backend \in Backends \cup {None}
  BY <1>1 DEF TypeOK, Session, Handles
<1>5. \A b \in Backends : Runs(b)' <=> Runs(b)
  BY DEF Runs
<1>6. \A y \in Conns : /\ conn'[y] \in Live <=> conn[y] \in Live
                       /\ conn[y] = "down" => conn'[y] = "down"
  BY DEF Live
<1>7. Tables'
  <2>1. ASSUME NEW x \in Slots
        PROVE  /\ sess[x].tcp # None =>
                     conn'[sess[x].tcp] \in Live \cup {"down"} /\ ref[sess[x].tcp] = x
               /\ sess[x].backend # None =>
                     /\ back'[sess[x].backend].st \in {"up", "gone"} /\ back'[sess[x].backend].s = x
                     /\ ~back'[sess[x].backend].stray
    <3>1. sess[x].tcp # None => conn'[sess[x].tcp] \in Live \cup {"down"} /\ ref[sess[x].tcp] = x
      BY <1>1, <1>4, <1>6 DEF Tables, Handles
    <3>2. sess[x].backend # None =>
             /\ back'[sess[x].backend].st \in {"up", "gone"} /\ back'[sess[x].backend].s = x
             /\ ~back'[sess[x].backend].stray
      BY <1>1, <1>4 DEF Tables, Runs
    <3> QED
      BY <3>1, <3>2
  <2>2. \A b \in Backends : Runs(b)' => back'[b].s \in Slots
    BY <1>1, <1>5 DEF Tables
  <2>3. doing'["sshd"].at = "open" =>
           doing'["sshd"].for \in Conns /\ conn'[doing'["sshd"].for] = "calling"
    BY <1>1 DEF Tables
  <2> QED
    BY <1>1, <1>6, <2>1, <2>2, <2>3 DEF Tables, Runs
<1>8. ASSUME NEW x \in Slots \ clashed' PROVE SlotSound(x)'
  <2>1. SlotSound(x) /\ x \in Slots
    BY <1>1, <1>8
  <2>2. Opening(x)' <=> Opening(x)
    BY DEF Opening
  <2> QED
    BY <1>1, <1>5, <1>6, <2>1, <2>2, Elsewhere
<1> QED
  BY <1>2, <1>3, <1>7, <1>8 DEF PoolInv

LEMMA NetInv ==
  ASSUME PoolInv, NEW c \in Conns, NetConnects(c) \/ NetDelivers(c) \/ NetHangsUp(c)
  PROVE  PoolInv'
<1>1. conn \in [Conns -> ConnStates] /\ back \in [Backends -> Backend]
  BY DEF PoolInv, TypeOK
<1>2. CASE NetConnects(c)
  <2>1. PICK e \in Events : e = [ev |-> "connect", n |-> c]
    BY DEF Events
  <2>2. /\ conn[c] = "new" /\ conn' = [conn EXCEPT ![c] = "calling"]
        /\ inbox' = Append(inbox, e)
        /\ UNCHANGED <<slotInUse, sess, ref, back, doing, clashed>>
    BY <1>2, <2>1 DEF NetConnects, Posts
  <2>3. e.ev = "connect" /\ e.n = c
    BY <2>1
  <2>4. /\ conn' \in [Conns -> ConnStates] /\ conn'[c] = "calling"
        /\ \A y \in Conns : y # c => conn'[y] = conn[y]
    BY <1>1, <2>2 DEF ConnStates
  <2> QED
    BY <1>1, <2>2, <2>3, <2>4, OutsideInv
<1>3. CASE NetDelivers(c)
  <2>1. PICK e \in Events : e = [ev |-> "recv", n |-> c]
    BY DEF Events
  <2>2. /\ conn[c] = "up" /\ conn' = conn
        /\ inbox' = Append(inbox, e)
        /\ UNCHANGED <<slotInUse, sess, ref, back, doing, clashed>>
    BY <1>3, <2>1 DEF NetDelivers, Posts
  <2>3. e.ev = "recv" /\ e.n = c /\ conn[c] \in Live
    BY <2>1, <2>2 DEF Live
  <2> QED
    BY <1>1, <2>2, <2>3, OutsideInv
<1>4. CASE NetHangsUp(c)
  <2>1. PICK e \in Events : e = [ev |-> "disconnect", n |-> c]
    BY DEF Events
  <2>2. /\ conn[c] = "up"
        /\ \/ inbox' = Append(inbox, e) /\ conn' = [conn EXCEPT ![c] = "gone"]
           \/ inbox' = inbox /\ conn' = [conn EXCEPT ![c] = "lost"]
        /\ UNCHANGED <<slotInUse, sess, ref, back, doing, clashed>>
    BY <1>4, <2>1 DEF NetHangsUp, Posts
  <2>3. e.ev = "disconnect" /\ e.n = c
    BY <2>1
  <2>4. /\ conn' \in [Conns -> ConnStates] /\ conn'[c] \in {"gone", "lost"}
        /\ inbox' # inbox => conn'[c] = "gone"
        /\ \A y \in Conns : y # c => conn'[y] = conn[y]
    BY <1>1, <2>2 DEF ConnStates
  <2> QED
    BY <1>1, <2>2, <2>3, <2>4, OutsideInv
<1> QED
  BY <1>2, <1>3, <1>4

LEMMA BackendInv ==
  ASSUME PoolInv, NEW b \in Backends, BackendEnds(b)
  PROVE  PoolInv'
<1>1. conn \in [Conns -> ConnStates] /\ back \in [Backends -> Backend]
  BY DEF PoolInv, TypeOK
<1>2. PICK e \in Events : e = [ev |-> "kick", n |-> b]
  BY DEF Events
<1>3. e.ev = "kick" /\ e.n = b
  BY <1>2
<1>4. PICK k \in Backend : k = [back[b] EXCEPT !.st = "gone"]
  BY <1>1 DEF Backend
<1>5. k.st = "gone" /\ k.s = back[b].s /\ k.c = back[b].c /\ k.stray = back[b].stray
  BY <1>1, <1>4 DEF Backend
<1>6. /\ back[b].st = "up" /\ back' = [back EXCEPT ![b] = k]
      /\ inbox' = inbox \/ inbox' = Append(inbox, e)
      /\ UNCHANGED <<slotInUse, sess, conn, ref, doing, clashed>>
  BY <1>1, <1>2, <1>4 DEF BackendEnds, Posts
<1>7. /\ back' \in [Backends -> Backend] /\ back'[b] = k
      /\ \A d \in Backends : d # b => back'[d] = back[d]
  BY <1>1, <1>6
<1>8. \A d \in Backends : /\ back'[d].s = back[d].s /\ back'[d].c = back[d].c
                          /\ back'[d].stray = back[d].stray
                          /\ \/ back'[d].st = back[d].st
                             \/ back[d].st = "up" /\ back'[d].st = "gone"
  BY <1>5, <1>6, <1>7
<1>9. back'[b].st = "gone"
  BY <1>5, <1>7
<1> QED
  BY <1>1, <1>3, <1>6, <1>7, <1>8, <1>9, OutsideInv

LEMMA PoolInitInv ==
  ASSUME Init
  PROVE  PoolInv
<1>1. TypeOK
  <2>1. Idle \in Doing
    BY PoolAssumption DEF Idle, Doing, Places
  <2>2. <<>> \in Seq(Events)
    OBVIOUS
  <2>3. Unused("new") \in Backend
    BY DEF Unused, Backend
  <2>4. [tcp |-> None, slot |-> TRUE, closed |-> FALSE, chanOpen |-> FALSE, backend |-> None] \in Session
    BY DEF Session
  <2> QED
    BY <2>1, <2>2, <2>3, <2>4 DEF Init, TypeOK, Doing, ConnStates
<1>2. Announced
  BY DEF Init, Announced
<1>3. \A t \in Tasks : doing[t].at = "poll"
  BY DEF Init, Idle
<1>4. \A s \in Slots : sess[s].tcp = None /\ sess[s].backend = None /\ ~slotInUse[s]
  BY DEF Init
<1>5. (\A c \in Conns : conn[c] = "new") /\ \A b \in Backends : back[b].st = "new"
  BY DEF Init, Unused
<1>6. Tables
  BY <1>3, <1>4, <1>5 DEF Tables, Tasks, Closing, Runs, Live
<1>7. \A s \in Slots : SlotSound(s)
  <2>1. \A s \in Slots, t \in Tasks : ~Inside(t, s)
    BY <1>3 DEF Inside, Closing
  <2> QED
    BY <1>3, <1>4, <1>5, <2>1 DEF SlotSound, CloseSound, Opening, Runs, Live, Tasks
<1> QED
  BY <1>1, <1>2, <1>6, <1>7 DEF PoolInv

LEMMA PoolStep ==
  ASSUME PoolInv, [Next]_vars
  PROVE  PoolInv'
<1>1. CASE SshdTask
  BY <1>1, ConnectInv, OpenInv, RecvInv, DisconnectInv, KickInv, CloseInv DEF SshdTask, Tasks
<1>2. CASE cmdSshd_reset \/ ResetRuns
  BY <1>2, ResetInv, CloseInv DEF ResetRuns, Tasks
<1>3. CASE Net
  BY <1>3, NetInv DEF Net
<1>4. CASE \E b \in Backends : BackendEnds(b)
  BY <1>4, BackendInv
<1>5. CASE UNCHANGED vars
  BY <1>5, IdleInv DEF vars, Shifted, PoolInv, TypeOK
<1> QED
  BY <1>1, <1>2, <1>3, <1>4, <1>5 DEF Next

\* A task leaves the drain by disconnecting the handle in its slot, and no other
\* step of either task moves it.
LEMMA DrainEnds ==
  ASSUME TypeOK, [Next]_vars, NEW t \in Tasks, doing[t].at = "drain", doing'[t].at # "drain"
  PROVE  Disconnects(t)
<1>1. doing \in [Tasks -> Doing] /\ t \in {"sshd", "cli"} /\ doing'[t] # doing[t]
  BY DEF TypeOK, Doing, Tasks
<1>2. ASSUME NEW u \in Tasks, NEW d, doing' = [doing EXCEPT ![u] = d] PROVE u = t
  BY <1>1, <1>2
<1>3. ASSUME NEW u \in Tasks, NEW s, NEW r, NEW c, NEW k, CloseBegins(u, s, r, c, k) PROVE u = t
  BY <1>2, <1>3 DEF CloseBegins, Returns
<1>4. "sshd" \in Tasks /\ "cli" \in Tasks
  BY DEF Tasks
<1>5. ASSUME NEW u \in Tasks, session_close(u) PROVE Disconnects(t)
  <2>1. u = t
    BY <1>2, <1>5 DEF session_close, Disconnects, ForgetsTcp, MarksClosed, FreesSlot,
                      ForgetsSlot, Goes, Returns
  <2> QED
    BY <1>5, <2>1 DEF session_close, ForgetsTcp, MarksClosed, FreesSlot, ForgetsSlot
<1>6. ~onTcpConnect
  BY <1>1, <1>2, <1>4 DEF onTcpConnect, Polls
<1>7. ~session_open
  BY <1>1, <1>2, <1>4 DEF session_open
<1>8. ~onTcpRecv
  BY <1>1, <1>3, <1>4 DEF onTcpRecv, Polls, OpensChannel, OpensBackend, HangsUp, ClosesChannel
<1>9. ~onTcpDisconnect /\ ~on_backend_disconnect_cb
  BY <1>1, <1>3, <1>4 DEF onTcpDisconnect, on_backend_disconnect_cb, Polls
<1>10. ~cmdSshd_reset
  BY <1>1, <1>2, <1>4 DEF cmdSshd_reset
<1>11. ~ResetLooks
  BY <1>1, <1>2, <1>3, <1>4 DEF ResetLooks, Returns
<1>12. ~Net /\ ~\E b \in Backends : BackendEnds(b)
  BY <1>1 DEF Net, NetConnects, NetDelivers, NetHangsUp, BackendEnds
<1> QED
  BY <1>1, <1>4, <1>5, <1>6, <1>7, <1>8, <1>9, <1>10, <1>11, <1>12
     DEF Next, SshdTask, ResetRuns, vars

\* The slot table, the structs, the inbox and the tasks agree in every state that
\* the events of net, of the backends and of "sshd reset" can lead to, whatever
\* statements of session_close the two tasks interleave.
THEOREM PoolSafe == Spec => []PoolInv
<1>1. Init => PoolInv
  BY PoolInitInv
<1>2. PoolInv /\ [Next]_vars => PoolInv'
  BY PoolStep
<1> QED
  BY <1>1, <1>2, PTL DEF Spec

\* Events of a live connection reach its own session: onTcpConnect's reference
\* names the slot that holds it, and no other slot does, for any number of slots.
THEOREM EventsReachTheirSession == Spec => []Routing
<1>1. PoolInv => Routing
  <2> SUFFICES ASSUME PoolInv, NEW c \in Conns, conn[c] \in Live
               PROVE  /\ \A s \in Slots : sess[s].tcp = c => s = ref[c]
                      /\ ref[c] \notin clashed => slotInUse[ref[c]] /\ sess[ref[c]].tcp = c
    BY DEF Routing
  <2>1. Tables /\ c # None
    BY DEF PoolInv, Conns, None
  <2>2. \A s \in Slots : sess[s].tcp = c => s = ref[c]
    BY <2>1 DEF Tables
  <2>3. ref[c] \in Slots
    BY <2>1 DEF Tables
  <2>4. ref[c] \notin clashed => SlotSound(ref[c])
    BY <2>3 DEF PoolInv
  <2> QED
    BY <2>1, <2>2, <2>3, <2>4 DEF SlotSound
<1> QED
  BY <1>1, PoolSafe, PTL

\* No order of hangups, kicks, closes and resets leaks a slot: one in use has a
\* live connection, or is being opened, or a task is inside session_close that will
\* free it; unless the slot clashed.
THEOREM NoSlotLeaks == Spec => []SlotsBacked
<1>1. PoolInv => SlotsBacked
  BY DEF PoolInv, SlotsBacked, SlotSound
<1> QED
  BY <1>1, PoolSafe, PTL

\* No task's close hits a connection that it is not about, however long events
\* waited behind a drain, but for the kick of a backend whose handle a further
\* request overwrote and for a slot that clashed.
THEOREM OnlyOwnConnectionsClosed == Spec => OwnTaskSafe
<1>1. PoolInv /\ [Next]_vars =>
         [\A t \in Tasks : Wrongs(t) => doing[t].stray \/ doing[t].s \in clashed]_vars
  <2> SUFFICES ASSUME PoolInv, [Next]_vars, NEW t \in Tasks, Wrongs(t), ~doing[t].stray,
                      doing[t].s \notin clashed
               PROVE  FALSE
    OBVIOUS
  <2>1. TypeOK /\ Tables /\ \A x \in Slots \ clashed : SlotSound(x)
    BY DEF PoolInv
  <2>2. Disconnects(t)
    BY <2>1, DrainEnds DEF Wrongs
  <2>3. PICK s \in Slots : s = doing[t].s /\ Inside(t, s)
    BY <2>1, <2>2 DEF Tables, Inside, Disconnects, Closing
  <2>4. sess[s].tcp \in {doing[t].for, None}
    BY <2>1, <2>2, <2>3 DEF SlotSound, CloseSound, Disconnects
  <2>5. PICK c \in Conns : c # doing[t].for /\ conn[c] \in Live /\ conn'[c] = "down"
    BY DEF Wrongs
  <2>6. sess[s].tcp = c
    BY <2>2, <2>3, <2>5 DEF Disconnects, Live
  <2> QED
    BY <2>4, <2>5, <2>6 DEF None, Conns
<1> QED
  BY <1>1, PoolSafe, PTL DEF Spec, OwnTaskSafe
=============================================================================
