--------------------------- MODULE SshClientProofs ---------------------------
(***************************************************************************)
(* Proofs about SshClient: for any set of host keys, any number of         *)
(* sessions and any server, secrets go only where SecretsGuarded says.     *)
(***************************************************************************)
EXTENDS SshClient, TLAPS

Keys == HostKeys \cup {NoKey}

\* The requests the client makes.
LEMMA RequestNames ==
  Requests = {"version", "kexinit", "ecdh", "newkeys", "service", "none", "publickey",
              "kbd", "response", "password", "open", "pty", "request"}
  BY DEF Requests, Answers

\* An answer is a packet type.
LEMMA AnswerTypes ==
  ASSUME NEW q \in Requests, NEW t \in Answers[q]
  PROVE  t \in Types
  BY DEF Types

\* What is left to try are authentication methods.
LEMMA MethodsLeft ==
  ASSUME NEW m \in Auth
  PROVE  After(m) \in Seq(Auth)
<1> DEFINE password == IF job.havePassword THEN <<"kbd", "password">> ELSE <<>>
           key == IF job.tryPubkey THEN <<"publickey">> ELSE <<>>
<1>1. password \in Seq(Auth) /\ key \in Seq(Auth) /\ <<"password">> \in Seq(Auth) /\ <<>> \in Seq(Auth)
  BY DEF Auth
<1>2. key \o password \in Seq(Auth)
  BY <1>1
<1>3. CASE m = "none"
  BY <1>2, <1>3 DEF After
<1>4. CASE m = "publickey"
  BY <1>1, <1>4 DEF After
<1>5. CASE m = "kbd"
  BY <1>1, <1>5 DEF After
<1>6. CASE m = "password"
  BY <1>1, <1>6 DEF After
<1> QED
  BY <1>3, <1>4, <1>5, <1>6 DEF Auth

\* Requests sent are requests owed.
LEMMA AsksFacts ==
  ASSUME TypeOK, NEW q \in Seq(Requests), Asks(q)
  PROVE  owed' \in Seq(Requests)
  BY DEF TypeOK, Asks

\* Reading a packet leaves a sequence of packets, each signed by its owner only.
LEMMA ReadsFacts ==
  ASSUME TypeOK, Signed, Reads
  PROVE  /\ rx' \in Seq(Packets)
         /\ \A i \in DOMAIN rx' : rx'[i].signed => rx'[i].key = owns
         /\ job' = job /\ userClose' = userClose /\ up' = up /\ part' = part
         /\ owns' = owns /\ granted' = granted
<1>1. CASE rx = <<>>
  BY <1>1 DEF TypeOK, Signed, Reads
<1>2. CASE rx # <<>>
  <2>1. rx \in Seq(Packets) /\ rx' = Tail(rx)
    BY <1>2 DEF TypeOK, Reads
  <2>2. /\ Tail(rx) \in Seq(Packets)
        /\ \A i \in DOMAIN Tail(rx) : Tail(rx)[i] = rx[i + 1] /\ i + 1 \in DOMAIN rx
    BY <1>2, <2>1
  <2> QED
    BY <2>1, <2>2 DEF Signed, Reads
<1> QED
  BY <1>1, <1>2

\* The end of a session preserves the invariant.
LEMMA EndInv ==
  ASSUME ClientInv, EndSession
  PROVE  ClientInv'
<1>1. Idle \in Jobs /\ <<>> \in Seq(Packets) /\ <<>> \in Seq(Requests)
  BY DEF Jobs, Idle
<1>2. TypeOK'
  <2>1. /\ userClose' \in BOOLEAN /\ encOut' \in BOOLEAN /\ encIn' \in BOOLEAN
        /\ part' \in BOOLEAN /\ up' \in BOOLEAN /\ granted' \in BOOLEAN
        /\ late' \in BOOLEAN /\ stray' \in BOOLEAN
    BY DEF EndSession
  <2>2. /\ pc' = "idle" /\ job' = Idle /\ hostKey' = NoKey /\ rx' = <<>> /\ owed' = <<>>
        /\ owns' = NoKey /\ UNCHANGED <<pinned, queue, trust, raced>>
    BY DEF EndSession, store
  <2> QED
    BY <1>1, <2>1, <2>2 DEF ClientInv, TypeOK
<1>3. Signed' /\ Exchanged' /\ SecretsGuarded'
  BY DEF Signed, Exchanged, SecretsGuarded, EndSession
<1>4. Recorded'
  BY DEF ClientInv, Recorded, OnRecord, EndSession, store
<1> QED
  BY <1>2, <1>3, <1>4 DEF ClientInv

\* So does a step that only reads a packet and sends requests.
LEMMA AdvanceInv ==
  ASSUME ClientInv, NEW at \in Waits, NEW q \in Seq(Requests), Advance(at, q),
         pc # "idle",
         at \in {"version", "kexinit", "ecdh"}
           \/ (pc \notin {"version", "kexinit", "ecdh", "newkeys"} /\ at # "newkeys")
  PROVE  ClientInv'
<1>1. /\ Reads /\ pc' = at /\ Asks(q)
      /\ UNCHANGED <<encOut, encIn, hostKey, pinned, queue, trust, raced, given, late, stray>>
  BY DEF Advance, conn, store, history
<1>2. /\ rx' \in Seq(Packets)
      /\ \A i \in DOMAIN rx' : rx'[i].signed => rx'[i].key = owns
      /\ UNCHANGED <<job, userClose, up, part, owns, granted>>
  BY <1>1, ReadsFacts DEF ClientInv
<1>3. owed' \in Seq(Requests)
  BY <1>1, AsksFacts DEF ClientInv
<1>4. TypeOK'
  BY <1>1, <1>2, <1>3 DEF ClientInv, TypeOK
<1>5. Signed'
  BY <1>1, <1>2 DEF Signed, Waits, Auth, Channel
<1>6. Exchanged'
  BY <1>1, <1>2 DEF ClientInv, Exchanged
<1>7. Recorded' /\ SecretsGuarded'
  BY <1>1 DEF ClientInv, Recorded, OnRecord, SecretsGuarded
<1> QED
  BY <1>4, <1>5, <1>6, <1>7 DEF ClientInv

\* And one that reads a packet and waits on.
LEMMA StayInv ==
  ASSUME ClientInv, Stay, pc # "idle"
  PROVE  ClientInv'
<1>1. /\ Reads
      /\ UNCHANGED <<pc, encOut, encIn, hostKey, owed, pinned, queue, trust, raced, given, late, stray>>
  BY DEF Stay, conn, store, history
<1>2. /\ rx' \in Seq(Packets)
      /\ \A i \in DOMAIN rx' : rx'[i].signed => rx'[i].key = owns
      /\ UNCHANGED <<job, userClose, up, part, owns, granted>>
  BY <1>1, ReadsFacts DEF ClientInv
<1>3. TypeOK'
  BY <1>1, <1>2 DEF ClientInv, TypeOK
<1>4. Signed' /\ Exchanged'
  BY <1>1, <1>2 DEF ClientInv, Signed, Exchanged
<1>5. Recorded' /\ SecretsGuarded'
  BY <1>1 DEF ClientInv, Recorded, OnRecord, SecretsGuarded
<1> QED
  BY <1>3, <1>4, <1>5 DEF ClientInv

\* A secret given once the keys are in use is guarded.
LEMMA GivesFacts ==
  ASSUME ClientInv, pc \in Auth, Gives
  PROVE  SecretsGuarded'
<1>1. encOut /\ encIn /\ hostKey = owns /\ (trust \in {hostKey, NoKey} \/ raced)
  BY DEF ClientInv, Exchanged, Auth
<1> DEFINE g == [sealed |-> encOut /\ encIn, proved |-> hostKey = owns,
                trusted |-> trust \in {hostKey, NoKey} \/ raced]
<1>2. given' = given \cup {g}
  BY DEF Gives
<1>3. g.sealed = (encOut /\ encIn) /\ g.proved = (hostKey = owns)
      /\ g.trusted = (trust \in {hostKey, NoKey} \/ raced)
  OBVIOUS
<1>4. g.sealed /\ g.proved /\ g.trusted
  BY <1>1, <1>3
<1> HIDE DEF g
<1> QED
  BY <1>2, <1>4 DEF ClientInv, SecretsGuarded

\* The next method, with its secret, or the end.
LEMMA TryNextInv ==
  ASSUME ClientInv, pc \in Auth, NEW methods \in Seq(Auth), NEW gaveUp \in BOOLEAN,
         TryNext(methods, gaveUp)
  PROVE  ClientInv'
<1>1. CASE methods = <<>>
  BY <1>1, EndInv DEF TryNext
<1>2. CASE methods # <<>>
  <2>1. Head(methods) \in Auth
    BY <1>2
  <2>2. /\ Reads /\ pc' = Head(methods) /\ Asks(<<Head(methods)>>)
        /\ late' = (late \/ gaveUp)
        /\ UNCHANGED <<encOut, encIn, hostKey, pinned, queue, trust, raced, stray>>
    BY <1>2 DEF TryNext, conn, store
  <2>3. given' = given \/ Gives
    BY <1>2 DEF TryNext
  <2>4. <<Head(methods)>> \in Seq(Requests)
    BY <2>1, RequestNames DEF Auth
  <2>5. /\ rx' \in Seq(Packets)
        /\ \A i \in DOMAIN rx' : rx'[i].signed => rx'[i].key = owns
        /\ UNCHANGED <<job, userClose, up, part, owns, granted>>
    BY <2>2, ReadsFacts DEF ClientInv
  <2>6. owed' \in Seq(Requests)
    BY <2>2, <2>4, AsksFacts DEF ClientInv
  <2>7. late' \in BOOLEAN
    BY <2>2
  <2>8. TypeOK'
    BY <2>1, <2>2, <2>5, <2>6, <2>7 DEF ClientInv, TypeOK, Waits
  <2>9. Signed' /\ Exchanged'
    BY <2>1, <2>2, <2>5 DEF ClientInv, Signed, Exchanged, Auth
  <2>10. Recorded'
    BY <2>2 DEF ClientInv, Recorded, OnRecord
  <2>11. SecretsGuarded'
    BY <2>3, GivesFacts DEF ClientInv, SecretsGuarded
  <2> QED
    BY <2>8, <2>9, <2>10, <2>11 DEF ClientInv
<1> QED
  BY <1>1, <1>2

\* One answer, one request: the sequences of requests that steps send.
LEMMA RequestSeqs ==
  /\ <<>> \in Seq(Requests)
  /\ \A q \in Requests : <<q>> \in Seq(Requests)
  /\ <<"version", "kexinit">> \in Seq(Requests)
<1>1. "version" \in Requests /\ "kexinit" \in Requests
  BY RequestNames
<1> QED
  BY <1>1

\* The reply of the key exchange: the key is proved, and it is the one on record
\* or the first, unless a write to the record was queued.
LEMMA KexReplyInv ==
  ASSUME ClientInv, do_kex_reply
  PROVE  ClientInv'
<1>1. CASE ~(Got = "ECDH_REPLY" /\ Head(rx).signed /\ known_hosts_check(Head(rx).key))
  BY <1>1, EndInv DEF do_kex_reply
<1>2. CASE Got = "ECDH_REPLY" /\ Head(rx).signed /\ known_hosts_check(Head(rx).key)
  <2> DEFINE k == Head(rx).key
  <2>1. /\ pc = "ecdh" /\ Reads /\ Remember(k)
        /\ hostKey' = k /\ encOut' = TRUE
        /\ pc' = "newkeys" /\ Asks(<<"newkeys">>)
        /\ UNCHANGED <<encIn, given, late, stray>>
    BY <1>2 DEF do_kex_reply
  <2>2. rx # <<>> /\ rx \in Seq(Packets)
    BY <1>2 DEF Got, ClientInv, TypeOK
  <2>3. Head(rx) \in Packets /\ Head(rx) = rx[1] /\ 1 \in DOMAIN rx
    BY <2>2
  <2>4. k = owns /\ k \in Keys
    BY <1>2, <2>3 DEF ClientInv, Signed, Packets, Keys
  <2>5. pinned = k \/ pinned = NoKey
    BY <1>2 DEF known_hosts_check
  <2> HIDE DEF k
  <2>6. /\ queue' = IF pinned = NoKey THEN Append(queue, k) ELSE queue
        /\ trust' = IF pinned = NoKey /\ trust = NoKey THEN k ELSE trust
        /\ raced' = (raced \/ queue # <<>>)
        /\ pinned' = pinned
    BY <2>1 DEF Remember
  <2>7. /\ rx' \in Seq(Packets)
        /\ \A i \in DOMAIN rx' : rx'[i].signed => rx'[i].key = owns
        /\ UNCHANGED <<job, userClose, up, part, owns, granted>>
    BY <2>1, ReadsFacts DEF ClientInv
  <2>8. owed' \in Seq(Requests)
    BY <2>1, AsksFacts, RequestSeqs, RequestNames DEF ClientInv
  <2>9. queue' \in Seq(Keys) /\ trust' \in Keys
    BY <2>4, <2>6 DEF ClientInv, TypeOK, Keys
  <2>10. raced' \in BOOLEAN
    BY <2>6
  <2>11. TypeOK'
    BY <2>1, <2>4, <2>6, <2>7, <2>8, <2>9, <2>10 DEF ClientInv, TypeOK, Keys, Waits
  <2>12. raced' \/ (trust' = k /\ OnRecord' = k)
    <3>1. CASE raced \/ queue # <<>>
      BY <2>6, <3>1
    <3>2. CASE ~raced /\ queue = <<>>
      <4>1. pinned = trust
        BY <3>2 DEF ClientInv, Recorded, OnRecord
      <4>2. CASE pinned = k /\ pinned # NoKey
        BY <2>6, <3>2, <4>1, <4>2 DEF OnRecord
      <4>3. CASE pinned = NoKey
        <5>1. queue' = <<k>> /\ trust' = k
          BY <2>6, <3>2, <4>1, <4>3
        <5> QED
          BY <5>1 DEF OnRecord
      <4> QED
        BY <2>5, <4>2, <4>3
    <3> QED
      BY <3>1, <3>2
  <2>13. Signed' /\ Exchanged' /\ Recorded'
    BY <2>1, <2>4, <2>7, <2>12 DEF ClientInv, Signed, Exchanged, Recorded
  <2>14. SecretsGuarded'
    BY <2>1 DEF ClientInv, SecretsGuarded
  <2> QED
    BY <2>11, <2>13, <2>14 DEF ClientInv
<1> QED
  BY <1>1, <1>2

\* NEWKEYS of the server: both directions are sealed from here on.
LEMMA NewKeysInv ==
  ASSUME ClientInv, do_kex_newkeys
  PROVE  ClientInv'
<1>1. CASE Got # "NEWKEYS"
  BY <1>1, EndInv DEF do_kex_newkeys
<1>2. CASE Got = "NEWKEYS"
  <2>1. /\ pc = "newkeys" /\ Reads /\ encIn' = TRUE /\ pc' = "service" /\ Asks(<<"service">>)
        /\ UNCHANGED <<encOut, hostKey, pinned, queue, trust, raced, given, late, stray>>
    BY <1>2 DEF do_kex_newkeys, store, history
  <2>2. /\ rx' \in Seq(Packets)
        /\ \A i \in DOMAIN rx' : rx'[i].signed => rx'[i].key = owns
        /\ UNCHANGED <<job, userClose, up, part, owns, granted>>
    BY <2>1, ReadsFacts DEF ClientInv
  <2>3. owed' \in Seq(Requests)
    BY <2>1, AsksFacts, RequestSeqs, RequestNames DEF ClientInv
  <2>4. TypeOK'
    BY <2>1, <2>2, <2>3 DEF ClientInv, TypeOK, Waits
  <2>5. Signed' /\ Exchanged'
    BY <2>1, <2>2 DEF ClientInv, Signed, Exchanged
  <2>6. Recorded' /\ SecretsGuarded'
    BY <2>1 DEF ClientInv, Recorded, OnRecord, SecretsGuarded
  <2> QED
    BY <2>4, <2>5, <2>6 DEF ClientInv
<1> QED
  BY <1>1, <1>2

\* A prompt is answered with the password.
LEMMA PromptInv ==
  ASSUME ClientInv, pc = "kbd", Reads, Gives, Asks(<<"response">>),
         UNCHANGED <<pc, conn, store, trust, raced, late, stray>>
  PROVE  ClientInv'
<1>1. UNCHANGED <<pc, encOut, encIn, hostKey, pinned, queue, trust, raced, late, stray>>
  BY DEF conn, store
<1>2. /\ rx' \in Seq(Packets)
      /\ \A i \in DOMAIN rx' : rx'[i].signed => rx'[i].key = owns
      /\ UNCHANGED <<job, userClose, up, part, owns, granted>>
  BY ReadsFacts DEF ClientInv
<1>3. owed' \in Seq(Requests)
  BY AsksFacts, RequestSeqs, RequestNames DEF ClientInv
<1>4. TypeOK'
  BY <1>1, <1>2, <1>3 DEF ClientInv, TypeOK
<1>5. Signed' /\ Exchanged' /\ Recorded'
  BY <1>1, <1>2 DEF ClientInv, Signed, Exchanged, Recorded, OnRecord
<1>6. SecretsGuarded'
  BY GivesFacts DEF Auth
<1> QED
  BY <1>4, <1>5, <1>6 DEF ClientInv

\* Every step of the worker preserves the invariant.
LEMMA WorkerInv ==
  ASSUME ClientInv, Worker
  PROVE  ClientInv'
<1>1. /\ \A q \in Requests : <<q>> \in Seq(Requests)
      /\ <<>> \in Seq(Requests)
      /\ {"ecdh", "none", "open", "pty", "request"} \subseteq Requests
  BY RequestSeqs, RequestNames
<1>2. {"kexinit", "ecdh", "none", "open", "pty", "request", "relay"} \subseteq Waits
  BY DEF Waits, Auth, Channel
<1>3. ASSUME LoggedIn, pc \in Auth PROVE ClientInv'
  BY <1>1, <1>2, <1>3, AdvanceInv DEF LoggedIn, Auth
<1>4. CASE do_version
  BY <1>1, <1>2, <1>4, AdvanceInv, EndInv DEF do_version
<1>5. CASE do_kex_init
  BY <1>1, <1>2, <1>5, AdvanceInv, EndInv DEF do_kex_init
<1>6. CASE do_kex_reply
  BY <1>6, KexReplyInv
<1>7. CASE do_kex_newkeys
  BY <1>7, NewKeysInv
<1>8. CASE do_auth_service
  BY <1>1, <1>2, <1>8, AdvanceInv, EndInv DEF do_auth_service, ProbeFirst
<1>9. CASE auth_none
  <2>1. pc = "none" /\ pc \in Auth
    BY <1>9 DEF auth_none, Auth
  <2>2. Stay \/ LoggedIn \/ EndSession \/ TryNext(After("none"), Got # "FAILURE")
    BY <1>9 DEF auth_none
  <2>3. After("none") \in Seq(Auth)
    BY MethodsLeft DEF Auth
  <2> QED
    BY <1>3, <2>1, <2>2, <2>3, StayInv, EndInv, TryNextInv
<1>10. CASE auth_simple
  <2>1. pc \in {"publickey", "password"} /\ pc \in Auth
    BY <1>10 DEF auth_simple, Auth
  <2>2. Stay \/ LoggedIn \/ EndSession \/ TryNext(After(pc), FALSE)
    BY <1>10 DEF auth_simple
  <2>3. After(pc) \in Seq(Auth)
    BY <2>1, MethodsLeft
  <2> QED
    BY <1>3, <2>1, <2>2, <2>3, StayInv, EndInv, TryNextInv
<1>11. CASE auth_keyboard_interactive
  <2>1. pc = "kbd" /\ pc \in Auth
    BY <1>11 DEF auth_keyboard_interactive, Auth
  <2>2. \/ Stay \/ LoggedIn \/ EndSession \/ TryNext(After("kbd"), FALSE)
        \/ /\ Reads /\ Gives /\ Asks(<<"response">>)
           /\ UNCHANGED <<pc, conn, store, trust, raced, late, stray>>
    BY <1>11 DEF auth_keyboard_interactive
  <2>3. After("kbd") \in Seq(Auth)
    BY MethodsLeft DEF Auth
  <2> QED
    BY <1>3, <2>1, <2>2, <2>3, StayInv, EndInv, TryNextInv, PromptInv
<1>12. CASE do_channel_open
  BY <1>1, <1>2, <1>12, AdvanceInv, StayInv, EndInv DEF do_channel_open
<1>13. CASE do_channel_pty
  BY <1>1, <1>2, <1>13, AdvanceInv, StayInv, EndInv DEF do_channel_pty
<1>14. CASE do_channel_request
  BY <1>1, <1>2, <1>14, AdvanceInv, StayInv, EndInv DEF do_channel_request
<1>15. CASE do_channel_relay
  BY <1>15, StayInv, EndInv DEF do_channel_relay
<1> QED
  BY <1>4, <1>5, <1>6, <1>7, <1>8, <1>9, <1>10, <1>11, <1>12, <1>13, <1>14, <1>15 DEF Worker

\* A packet that arrives on a connection that is up, signed by its owner only.
LEMMA ArrivesInv ==
  ASSUME ClientInv, up, NEW p \in Packets, p.signed => p.key = owns,
         rx' = Append(rx, p), owed' \in Seq(Requests),
         granted' \in BOOLEAN, stray' \in BOOLEAN,
         Environment, UNCHANGED <<up, part, userClose, store>>
  PROVE  ClientInv'
<1>1. UNCHANGED <<pc, job, encOut, encIn, hostKey, owns, trust, raced, given, late, up, part,
                  userClose, pinned, queue>>
  BY DEF Environment, conn, store
<1>2. /\ rx' \in Seq(Packets)
      /\ \A i \in DOMAIN rx' : rx'[i].signed => rx'[i].key = owns
  <2>1. rx \in Seq(Packets)
    BY DEF ClientInv, TypeOK
  <2>2. /\ rx' \in Seq(Packets)
        /\ \A i \in DOMAIN rx' : rx'[i] = p \/ (i \in DOMAIN rx /\ rx'[i] = rx[i])
    BY <2>1
  <2> QED
    BY <2>2 DEF ClientInv, Signed
<1>3. TypeOK'
  BY <1>1, <1>2 DEF ClientInv, TypeOK
<1>4. Signed' /\ Exchanged'
  BY <1>1, <1>2 DEF ClientInv, Signed, Exchanged
<1>5. Recorded' /\ SecretsGuarded'
  BY <1>1 DEF ClientInv, Recorded, OnRecord, SecretsGuarded
<1> QED
  BY <1>3, <1>4, <1>5 DEF ClientInv

LEMMA AnswersInv ==
  ASSUME ClientInv, ServerAnswers
  PROVE  ClientInv'
<1>1. up /\ owed # <<>> /\ owed' = Tail(owed) /\ Environment
      /\ UNCHANGED <<up, part, userClose, store, stray>>
  BY DEF ServerAnswers
<1>2. Head(owed) \in Requests /\ owed' \in Seq(Requests)
  BY <1>1 DEF ClientInv, TypeOK
<1>3. PICK t \in Answers[Head(owed)], k \in HostKeys, s \in BOOLEAN :
        /\ t = "ECDH_REPLY" => (s => k = owns)
        /\ rx' = Append(rx, IF t = "ECDH_REPLY"
                             THEN [t |-> t, re |-> Head(owed), key |-> k, signed |-> s]
                             ELSE Packet(t, Head(owed)))
        /\ granted' = (granted \/ t = "SUCCESS")
  BY DEF ServerAnswers
<1>4. t \in Types
  BY <1>2, <1>3, AnswerTypes
<1>5. CASE t = "ECDH_REPLY"
  <2> DEFINE p == [t |-> t, re |-> Head(owed), key |-> k, signed |-> s]
  <2>1. p \in Packets /\ (p.signed => p.key = owns)
    BY <1>2, <1>3, <1>4, <1>5 DEF Packets
  <2>2. rx' = Append(rx, p) /\ granted' \in BOOLEAN /\ stray' \in BOOLEAN
    BY <1>1, <1>3, <1>5 DEF ClientInv, TypeOK
  <2> HIDE DEF p
  <2> QED
    BY <1>1, <1>2, <2>1, <2>2, ArrivesInv
<1>6. CASE t # "ECDH_REPLY"
  <2> DEFINE p == Packet(t, Head(owed))
  <2>1. p \in Packets /\ ~p.signed
    BY <1>2, <1>4 DEF Packet, Packets
  <2>2. rx' = Append(rx, p) /\ granted' \in BOOLEAN /\ stray' \in BOOLEAN
    BY <1>1, <1>3, <1>6 DEF ClientInv, TypeOK
  <2> HIDE DEF p
  <2> QED
    BY <1>1, <1>2, <2>1, <2>2, ArrivesInv
<1> QED
  BY <1>5, <1>6

LEMMA SpeaksInv ==
  ASSUME ClientInv, ServerSpeaks
  PROVE  ClientInv'
<1>1. PICK t \in Chatter \cup Strays :
        rx' = Append(rx, Packet(t, "nothing")) /\ stray' = (stray \/ t \in Strays)
  BY DEF ServerSpeaks
<1>2. up /\ Environment /\ UNCHANGED <<up, part, owed, granted, userClose, store>>
  BY DEF ServerSpeaks
<1>3. t \in Types
  <2>1. CASE t \in Chatter
    BY <2>1 DEF Types
  <2>2. CASE t \in Strays
    <3>1. "none" \in Requests /\ "pty" \in Requests
      BY RequestNames
    <3>2. "SUCCESS" \in Answers["none"] /\ "CH_SUCCESS" \in Answers["pty"]
      BY DEF Answers
    <3>3. "SUCCESS" \in Types /\ "CH_SUCCESS" \in Types
      BY <3>1, <3>2, AnswerTypes
    <3> QED
      BY <2>2, <3>3 DEF Strays
  <2> QED
    BY <2>1, <2>2
<1> DEFINE p == Packet(t, "nothing")
<1>4. p \in Packets /\ ~p.signed
  BY <1>3 DEF Packet, Packets
<1>5. rx' = Append(rx, p) /\ stray' \in BOOLEAN
  BY <1>1
<1>6. granted' \in BOOLEAN /\ owed' \in Seq(Requests)
  BY <1>2 DEF ClientInv, TypeOK
<1> HIDE DEF p
<1> QED
  BY <1>2, <1>4, <1>5, <1>6, ArrivesInv

\* So do a failing connection, the user and storage.
LEMMA OthersInv ==
  ASSUME ClientInv, itsConnect \/ ServerIgnores \/ Breaks \/ UserCloses \/ Commit \/ OperatorClears
  PROVE  ClientInv'
<1>1. CASE itsConnect
  <2>1. pc = "idle" /\ rx = <<>> /\ rx' = rx
    BY <1>1 DEF itsConnect, ClientInv, Signed
  <2>2. /\ pc' = "version" \/ (pc' = pc /\ up' = up)
        /\ UNCHANGED <<userClose, encOut, encIn, hostKey, rx, part, granted, pinned, queue,
                       trust, raced, given, late, stray>>
    BY <1>1 DEF itsConnect, conn, store, history
  <2>3. job' \in Jobs /\ owns' \in Keys /\ up' \in BOOLEAN /\ owed' \in Seq(Requests)
    <3>1. CASE job' \in {j \in Jobs : j.tryPubkey \/ j.havePassword} /\ owns' \in HostKeys
               /\ up' = TRUE /\ owed' = <<"version", "kexinit">>
      BY <3>1, RequestSeqs DEF Keys
    <3>2. CASE UNCHANGED <<pc, job, up, owed, owns>>
      BY <3>2 DEF ClientInv, TypeOK, Keys
    <3> QED
      BY <1>1, <3>1, <3>2 DEF itsConnect
  <2>4. TypeOK'
    BY <2>2, <2>3 DEF ClientInv, TypeOK, Keys, Waits
  <2>5. Signed' /\ Exchanged'
    BY <2>1, <2>2 DEF ClientInv, Signed, Exchanged
  <2>6. Recorded' /\ SecretsGuarded'
    BY <2>2 DEF ClientInv, Recorded, OnRecord, SecretsGuarded
  <2> QED
    BY <2>4, <2>5, <2>6 DEF ClientInv
<1>2. CASE ServerIgnores \/ Breaks \/ UserCloses
  <2>1. UNCHANGED <<pc, job, encOut, encIn, hostKey, rx, owns, trust, raced, given,
                    late, stray, pinned, queue>>
    <3>1. CASE ServerIgnores
      BY <3>1 DEF ServerIgnores, Environment, conn, store
    <3>2. CASE Breaks
      BY <3>2 DEF Breaks, Environment, conn, store
    <3>3. CASE UserCloses
      BY <3>3 DEF UserCloses, Environment, conn, store, server
    <3> QED
      BY <1>2, <3>1, <3>2, <3>3
  <2>2. /\ owed' \in Seq(Requests) /\ up' \in BOOLEAN /\ (up' => up)
        /\ part' \in BOOLEAN /\ userClose' \in BOOLEAN /\ granted' \in BOOLEAN
    <3>1. /\ owed \in Seq(Requests) /\ up \in BOOLEAN
          /\ part \in BOOLEAN /\ userClose \in BOOLEAN /\ granted \in BOOLEAN
      BY DEF ClientInv, TypeOK
    <3>2. CASE ServerIgnores
      <4>1. owed # <<>> /\ owed' = Tail(owed) /\ up' = up /\ part' = part /\ userClose' = userClose /\ granted' = granted
        BY <3>2 DEF ServerIgnores
      <4> QED
        BY <3>1, <4>1
    <3>3. CASE Breaks
      <4>1. owed' = <<>> /\ up' = FALSE /\ part' \in BOOLEAN /\ userClose' = userClose /\ granted' = FALSE
        BY <3>3 DEF Breaks
      <4>2. <<>> \in Seq(Requests)
        OBVIOUS
      <4> QED
        BY <3>1, <4>1, <4>2
    <3>4. CASE UserCloses
      <4>1. owed' = owed /\ up' = up /\ part' = part /\ userClose' = TRUE /\ granted' = granted
        BY <3>4 DEF UserCloses, server
      <4> QED
        BY <3>1, <4>1
    <3> QED
      BY <1>2, <3>2, <3>3, <3>4
  <2>3. TypeOK'
    BY <2>1, <2>2 DEF ClientInv, TypeOK
  <2>4. Signed' /\ Exchanged'
    BY <2>1, <2>2 DEF ClientInv, Signed, Exchanged
  <2>5. Recorded' /\ SecretsGuarded'
    BY <2>1 DEF ClientInv, Recorded, OnRecord, SecretsGuarded
  <2> QED
    BY <2>3, <2>4, <2>5 DEF ClientInv
<1>3. CASE Commit
  <2>1. /\ queue # <<>> /\ pinned' = Head(queue) /\ queue' = Tail(queue)
        /\ UNCHANGED <<pc, job, userClose, encOut, encIn, hostKey, rx, part, up, owed, owns,
                       granted, trust, raced, given, late, stray>>
    BY <1>3 DEF Commit, Environment, conn, server
  <2>2. queue \in Seq(Keys)
    BY DEF ClientInv, TypeOK, Keys
  <2>3. pinned' \in Keys /\ queue' \in Seq(Keys)
    BY <2>1, <2>2
  <2>4. OnRecord' = OnRecord
    <3>1. Len(queue) \in Nat /\ Len(queue) >= 1
      BY <2>1, <2>2
    <3>2. CASE Len(queue) = 1
      BY <2>1, <2>2, <3>2 DEF OnRecord
    <3>3. CASE Len(queue) > 1
      <4>1. /\ Len(Tail(queue)) = Len(queue) - 1
            /\ \A i \in 1 .. Len(queue) - 1 : Tail(queue)[i] = queue[i + 1]
        BY <2>1, <2>2, <3>3
      <4>2. Tail(queue)[Len(queue) - 1] = queue[Len(queue)]
        BY <3>1, <3>3, <4>1
      <4>3. Tail(queue) # <<>>
        BY <2>2, <3>1, <3>3, <4>1
      <4> QED
        BY <2>1, <4>1, <4>2, <4>3 DEF OnRecord
    <3> QED
      BY <3>1, <3>2, <3>3
  <2>5. TypeOK'
    BY <2>1, <2>3 DEF ClientInv, TypeOK, Keys
  <2>6. Signed' /\ Exchanged' /\ SecretsGuarded'
    BY <2>1 DEF ClientInv, Signed, Exchanged, SecretsGuarded
  <2>7. Recorded'
    BY <2>1, <2>4 DEF ClientInv, Recorded
  <2> QED
    BY <2>5, <2>6, <2>7 DEF ClientInv
<1>4. CASE OperatorClears
  <2>1. /\ pc = "idle" /\ queue' = Append(queue, NoKey) /\ trust' = NoKey
        /\ UNCHANGED <<pc, job, userClose, encOut, encIn, hostKey, rx, part, up, owed, owns,
                       granted, pinned, raced, given, late, stray>>
    BY <1>4 DEF OperatorClears, conn, server
  <2>2. queue' \in Seq(Keys) /\ OnRecord' = NoKey
    BY <2>1 DEF ClientInv, TypeOK, Keys, OnRecord
  <2>3. TypeOK'
    BY <2>1, <2>2 DEF ClientInv, TypeOK, Keys
  <2>4. Signed' /\ Exchanged' /\ SecretsGuarded'
    BY <2>1 DEF ClientInv, Signed, Exchanged, SecretsGuarded
  <2>5. Recorded'
    BY <2>1, <2>2 DEF Recorded
  <2> QED
    BY <2>3, <2>4, <2>5 DEF ClientInv
<1> QED
  BY <1>1, <1>2, <1>3, <1>4

LEMMA ClientInitInv == Init => ClientInv
<1> SUFFICES ASSUME Init PROVE ClientInv
  OBVIOUS
<1>1. Idle \in Jobs /\ <<>> \in Seq(Packets) /\ <<>> \in Seq(Requests) /\ <<>> \in Seq(Keys)
  BY DEF Idle, Jobs
<1>2. TypeOK
  <2>1. /\ userClose \in BOOLEAN /\ encOut \in BOOLEAN /\ encIn \in BOOLEAN
        /\ part \in BOOLEAN /\ up \in BOOLEAN /\ granted \in BOOLEAN
        /\ late \in BOOLEAN /\ stray \in BOOLEAN /\ raced \in BOOLEAN
    BY DEF Init
  <2>2. /\ pc = "idle" /\ job = Idle /\ hostKey = NoKey /\ rx = <<>> /\ owed = <<>>
        /\ owns = NoKey /\ pinned = NoKey /\ queue = <<>> /\ trust = NoKey
    BY DEF Init
  <2> QED
    BY <1>1, <2>1, <2>2 DEF TypeOK, Keys
<1>3. Signed /\ Exchanged /\ Recorded /\ SecretsGuarded
  BY DEF Init, Signed, Exchanged, Recorded, OnRecord, SecretsGuarded
<1> QED
  BY <1>2, <1>3 DEF ClientInv

\* The invariant holds in every state of every run of sessions.
THEOREM ClientSafe == Spec => []ClientInv
<1>1. ClientInv /\ [Next]_vars => ClientInv'
  <2> SUFFICES ASSUME ClientInv, [Next]_vars PROVE ClientInv'
    OBVIOUS
  <2>1. CASE UNCHANGED vars
    <3>1. UNCHANGED <<pc, job, userClose, encOut, encIn, hostKey, rx, part, up, owed, owns, granted,
                      pinned, queue, trust, raced, given, late, stray>>
      BY <2>1 DEF vars, conn, server, store, history
    <3> QED
      BY <3>1 DEF ClientInv, TypeOK, Signed, Exchanged, Recorded, OnRecord, SecretsGuarded
  <2> QED
    BY <2>1, WorkerInv, AnswersInv, SpeaksInv, OthersInv DEF Next
<1> QED
  BY <1>1, ClientInitInv, PTL DEF Spec

\* No password and no signature leaves the device but sealed, to the proved owner
\* of the host key accepted at first contact, whatever the server does and however
\* many sessions there were (known_hosts_check, do_kex before do_auth).
THEOREM SecretsStayGuarded == Spec => []SecretsGuarded
  BY ClientSafe, PTL DEF ClientInv

-----------------------------------------------------------------------------
(* Every answer is read at the step that asked for it. *)

InOrder == InTurn /\ VersionFirst /\ Unasked

\* Reading a packet moves the others up by one.
LEMMA ReadsShift ==
  ASSUME TypeOK, Reads
  PROVE  /\ rx' \in Seq(Packets)
         /\ \A i \in DOMAIN rx' : i \in Nat \ {0}
         /\ rx # <<>> => \A i \in DOMAIN rx' : i + 1 \in DOMAIN rx /\ rx'[i] = rx[i + 1]
         /\ rx = <<>> => rx' = <<>>
<1>1. rx \in Seq(Packets)
  BY DEF TypeOK
<1>2. CASE rx = <<>>
  BY <1>1, <1>2 DEF Reads
<1>3. CASE rx # <<>>
  <2>1. rx' = Tail(rx)
    BY <1>3 DEF Reads
  <2> QED
    BY <1>1, <1>3, <2>1
<1> QED
  BY <1>2, <1>3

\* No chatter is an answer: what is not chatter was asked for.
LEMMA HeadAnswers ==
  ASSUME TypeOK, Unasked, rx # <<>>, Head(rx).t \notin Chatter
  PROVE  1 \in Answering /\ Head(rx) = rx[1]
<1>1. rx \in Seq(Packets)
  BY DEF TypeOK
<1>2. Head(rx) = rx[1] /\ 1 \in DOMAIN rx
  BY <1>1
<1> QED
  BY <1>2 DEF Unasked, Answering

\* Once the version is read, the answer of a step is the only one on its way.
LEMMA NothingElse ==
  ASSUME TypeOK, InOrder, pc # "version", rx # <<>>, Head(rx).t \notin Chatter, Reads
  PROVE  /\ owed = <<>>
         /\ \A i \in DOMAIN rx' : rx'[i].re = "nothing" /\ rx'[i].t \in Chatter
<1>1. 1 \in Answering
  BY HeadAnswers DEF InOrder
<1>2. owed = <<>>
  <2>1. owed \in Seq(Requests)
    BY DEF TypeOK
  <2>2. owed # <<>> => 1 \in DOMAIN owed
    BY <2>1
  <2>3. 1 \notin DOMAIN owed
    BY <1>1 DEF InOrder, InTurn, First
  <2> QED
    BY <2>2, <2>3
<1>3. ASSUME NEW i \in DOMAIN rx' PROVE rx'[i].re = "nothing" /\ rx'[i].t \in Chatter
  <2>1. i \in Nat \ {0} /\ i + 1 \in DOMAIN rx /\ rx'[i] = rx[i + 1]
    BY <1>3, ReadsShift
  <2>2. 1 < i + 1
    BY <2>1
  <2>3. i + 1 \notin Answering
    BY <1>1, <2>2 DEF InOrder, InTurn, First
  <2> QED
    BY <2>1, <2>3 DEF Answering, InOrder, Unasked
<1> QED
  BY <1>2, <1>3

\* A step that has read its answer and asks at most one thing is in order again.
LEMMA AskInOrder ==
  ASSUME TypeOK, InOrder, pc # "version", rx # <<>>, Head(rx).t \notin Chatter, Reads,
         NEW q \in Seq(Requests), Len(q) <= 1, \A k \in DOMAIN q : q[k] \in Expected(pc'),
         Asks(q), pc' # "version"
  PROVE  InOrder'
<1>1. /\ owed = <<>>
      /\ \A i \in DOMAIN rx' : rx'[i].re = "nothing" /\ rx'[i].t \in Chatter
  BY NothingElse
<1>2. Answering' = {}
  BY <1>1 DEF Answering
<1>3. owed' = <<>> \/ owed' = q
  <2>1. owed \o q = q
    BY <1>1
  <2> QED
    BY <1>1, <2>1 DEF Asks
<1>4. /\ \A k \in DOMAIN owed' : owed'[k] \in Expected(pc')
      /\ \A k, l \in DOMAIN owed' : ~(k < l)
  <2>1. CASE owed' = <<>>
    BY <2>1
  <2>2. CASE owed' = q
    <3>1. DOMAIN q = 1 .. Len(q) /\ Len(q) \in Nat
      OBVIOUS
    <3> QED
      BY <2>2, <3>1
  <2> QED
    BY <1>3, <2>1, <2>2
<1>5. InTurn'
  BY <1>2, <1>4 DEF InTurn
<1>6. VersionFirst' /\ Unasked'
  BY <1>1 DEF VersionFirst, Unasked
<1> QED
  BY <1>5, <1>6 DEF InOrder

\* So is one that reads on without asking.
LEMMA StayInOrder ==
  ASSUME TypeOK, InOrder, pc # "version", Stay
  PROVE  InOrder'
<1>1. Reads /\ pc' = pc /\ owed' = owed
  BY DEF Stay
<1>2. CASE rx = <<>>
  <2>1. rx' = rx
    BY <1>1, <1>2, ReadsShift
  <2> QED
    BY <1>1, <2>1 DEF InOrder, InTurn, VersionFirst, Unasked, First, Answering
<1>3. CASE rx # <<>>
  <2>1. \A i \in DOMAIN rx' : i \in Nat /\ i + 1 \in DOMAIN rx /\ rx'[i] = rx[i + 1]
    BY <1>1, <1>3, ReadsShift
  <2>2. \A i \in Answering' : i \in Nat /\ i + 1 \in Answering /\ rx'[i] = rx[i + 1]
    BY <2>1 DEF Answering
  <2>3. \A i \in Answering' : rx'[i].re \in Expected(pc)
    BY <2>2 DEF InOrder, InTurn
  <2>4. ASSUME NEW i \in Answering', NEW j \in Answering', i < j
        PROVE  First(rx'[i].re, rx'[j].re)
    <3>1. i + 1 < j + 1
      BY <2>2, <2>4
    <3> QED
      BY <2>2, <2>4, <3>1 DEF InOrder, InTurn
  <2>5. \A i \in Answering', k \in DOMAIN owed : First(rx'[i].re, owed[k])
    BY <2>2 DEF InOrder, InTurn
  <2>6. InTurn'
    BY <1>1, <2>3, <2>4, <2>5 DEF InOrder, InTurn, First
  <2>7. VersionFirst' /\ Unasked'
    BY <1>1, <2>1 DEF InOrder, VersionFirst, Unasked
  <2> QED
    BY <2>6, <2>7 DEF InOrder
<1> QED
  BY <1>2, <1>3

LEMMA EndInOrder ==
  ASSUME EndSession
  PROVE  InOrder'
<1>1. pc' = "idle" /\ rx' = <<>> /\ owed' = <<>>
  BY DEF EndSession
<1> QED
  BY <1>1 DEF InOrder, InTurn, VersionFirst, Unasked, Answering

\* The version is read before the KEXINIT, which is then the one thing to come.
LEMMA VersionInOrder ==
  ASSUME TypeOK, InOrder, do_version
  PROVE  InOrder'
<1>1. CASE Got # "SSH-2.0"
  BY <1>1, EndInOrder DEF do_version
<1>2. CASE Got = "SSH-2.0"
  <2>1. pc = "version" /\ Reads /\ pc' = "kexinit" /\ Asks(<<>>)
    BY <1>2 DEF do_version, Advance
  <2>2. rx # <<>> /\ Head(rx).t = "SSH-2.0"
    BY <1>2 DEF Got
  <2>3. 1 \in Answering /\ Head(rx) = rx[1]
    BY <2>2, HeadAnswers DEF Chatter, InOrder
  <2>4. owed' = owed
    <3>1. owed \in Seq(Requests)
      BY DEF TypeOK
    <3>2. owed \o <<>> = owed
      BY <3>1
    <3> QED
      BY <2>1, <3>2 DEF Asks
  <2>5. \A i \in DOMAIN rx' : i \in Nat \ {0} /\ i + 1 \in DOMAIN rx /\ rx'[i] = rx[i + 1]
    BY <2>1, <2>2, ReadsShift
  <2>6. \A i \in Answering' : i \in Nat \ {0} /\ i + 1 \in Answering /\ rx'[i] = rx[i + 1]
    BY <2>5 DEF Answering
  <2>7. \A i \in Answering' : rx'[i].re = "kexinit"
    <3>1. ASSUME NEW i \in Answering' PROVE rx'[i].re = "kexinit"
      <4>1. 1 < i + 1 /\ i + 1 \in Answering /\ rx'[i] = rx[i + 1]
        BY <2>6
      <4> QED
        BY <2>3, <4>1 DEF InOrder, InTurn, First
    <3> QED
      BY <3>1
  <2>8. \A k \in DOMAIN owed : owed[k] = "kexinit"
    BY <2>3 DEF InOrder, InTurn, First
  <2>9. ASSUME NEW i \in Answering', NEW j \in Answering', i < j PROVE FALSE
    <3>1. i + 1 < j + 1 /\ i + 1 \in Answering /\ j + 1 \in Answering
      BY <2>6, <2>9
    <3>2. rx[i + 1].re = "version"
      BY <3>1 DEF InOrder, InTurn, First
    <3> QED
      BY <2>6, <2>7, <3>2
  <2>10. ASSUME NEW i \in Answering', NEW k \in DOMAIN owed PROVE FALSE
    <3>1. rx[i + 1].re = "version"
      BY <2>6 DEF InOrder, InTurn, First
    <3> QED
      BY <2>6, <2>7, <3>1
  <2>11. ASSUME NEW k \in DOMAIN owed, NEW l \in DOMAIN owed, k < l PROVE FALSE
    <3>1. owed[k] = "version"
      BY <2>11 DEF InOrder, InTurn, First
    <3> QED
      BY <2>8, <3>1
  <2>12. "kexinit" \in Expected(pc')
    BY <2>1 DEF Expected
  <2>13. InTurn'
    BY <2>4, <2>7, <2>8, <2>9, <2>10, <2>11, <2>12 DEF InTurn
  <2>14. VersionFirst' /\ Unasked'
    BY <2>1, <2>5 DEF InOrder, VersionFirst, Unasked
  <2> QED
    BY <2>13, <2>14 DEF InOrder
<1> QED
  BY <1>1, <1>2


\* One answer read, the next thing asked.
LEMMA AskOne ==
  ASSUME TypeOK, InOrder, pc # "version", Got \notin Chatter \cup {"timeout", "lost"}, Reads,
         NEW q \in Requests, q \in Expected(pc'), Asks(<<q>>), pc' # "version"
  PROVE  InOrder'
<1>1. rx # <<>> /\ Head(rx).t \notin Chatter
  BY DEF Got
<1>2. <<q>> \in Seq(Requests) /\ Len(<<q>>) <= 1 /\ \A k \in DOMAIN <<q>> : <<q>>[k] = q
  OBVIOUS
<1> QED
  BY <1>1, <1>2, AskInOrder

\* The next method is asked for when the last one was refused, not earlier.
LEMMA TryNextInOrder ==
  ASSUME TypeOK, InOrder, pc \in Auth, NEW methods \in Seq(Auth), NEW gaveUp \in BOOLEAN,
         TryNext(methods, gaveUp), gaveUp \/ Got = "FAILURE"
  PROVE  InOrder' \/ late'
<1>1. CASE methods = <<>>
  BY <1>1, EndInOrder DEF TryNext
<1>2. CASE methods # <<>> /\ gaveUp
  BY <1>2 DEF TryNext
<1>3. CASE methods # <<>> /\ ~gaveUp
  <2>1. Head(methods) \in Auth
    BY <1>3
  <2>2. /\ Reads /\ pc' = Head(methods) /\ Asks(<<Head(methods)>>)
    BY <1>3 DEF TryNext
  <2>3. Head(methods) \in Requests /\ Head(methods) \in Expected(pc')
    BY <2>1, <2>2, RequestNames DEF Auth, Expected
  <2>4. pc # "version" /\ pc' # "version"
    BY <2>1, <2>2 DEF Auth
  <2>5. Got \notin Chatter \cup {"timeout", "lost"}
    BY <1>3 DEF Chatter
  <2> QED
    BY <2>2, <2>3, <2>4, <2>5, AskOne
<1> QED
  BY <1>1, <1>2, <1>3

\* The worker reads the answers in order, unless it gives up on the probe.
LEMMA WorkerInOrder ==
  ASSUME TypeOK, InOrder, Worker
  PROVE  InOrder' \/ late'
<1>1. {"ecdh", "newkeys", "service", "none", "response", "open", "pty", "request"} \subseteq Requests
  BY RequestNames
<1>2. ASSUME LoggedIn, Got = "SUCCESS", pc \in Auth PROVE InOrder'
  <2>1. Reads /\ pc' = "open" /\ Asks(<<"open">>) /\ pc # "version"
    BY <1>2 DEF LoggedIn, Advance, Auth
  <2>2. "open" \in Expected(pc') /\ Got \notin Chatter \cup {"timeout", "lost"}
    BY <1>2, <2>1 DEF Expected, Chatter
  <2> QED
    BY <1>1, <2>1, <2>2, AskOne
<1>3. CASE do_version
  BY <1>3, VersionInOrder
<1>4. CASE do_kex_init
  <2>1. CASE Got = "KEXINIT"
    <3>1. pc = "kexinit" /\ Reads /\ pc' = "ecdh" /\ Asks(<<"ecdh">>)
      BY <1>4, <2>1 DEF do_kex_init, Advance
    <3>2. "ecdh" \in Expected(pc') /\ Got \notin Chatter \cup {"timeout", "lost"}
      BY <2>1, <3>1 DEF Expected, Chatter
    <3> QED
      BY <1>1, <3>1, <3>2, AskOne
  <2> QED
    BY <1>4, <2>1, EndInOrder DEF do_kex_init
<1>5. CASE do_kex_reply
  <2>1. CASE Got = "ECDH_REPLY" /\ Head(rx).signed /\ known_hosts_check(Head(rx).key)
    <3>1. pc = "ecdh" /\ Reads /\ pc' = "newkeys" /\ Asks(<<"newkeys">>)
      BY <1>5, <2>1 DEF do_kex_reply
    <3>2. "newkeys" \in Expected(pc') /\ Got \notin Chatter \cup {"timeout", "lost"}
      BY <2>1, <3>1 DEF Expected, Chatter
    <3> QED
      BY <1>1, <3>1, <3>2, AskOne
  <2> QED
    BY <1>5, <2>1, EndInOrder DEF do_kex_reply
<1>6. CASE do_kex_newkeys
  <2>1. CASE Got = "NEWKEYS"
    <3>1. pc = "newkeys" /\ Reads /\ pc' = "service" /\ Asks(<<"service">>)
      BY <1>6, <2>1 DEF do_kex_newkeys
    <3>2. "service" \in Expected(pc') /\ Got \notin Chatter \cup {"timeout", "lost"}
      BY <2>1, <3>1 DEF Expected, Chatter
    <3> QED
      BY <1>1, <3>1, <3>2, AskOne
  <2> QED
    BY <1>6, <2>1, EndInOrder DEF do_kex_newkeys
<1>7. CASE do_auth_service
  <2>1. CASE Got = "SERVICE_ACCEPT"
    <3>1. pc = "service" /\ Reads /\ pc' = "none" /\ Asks(<<"none">>)
      BY <1>7, <2>1 DEF do_auth_service, ProbeFirst, Advance
    <3>2. "none" \in Expected(pc') /\ Got \notin Chatter \cup {"timeout", "lost"}
      BY <2>1, <3>1 DEF Expected, Chatter
    <3> QED
      BY <1>1, <3>1, <3>2, AskOne
  <2> QED
    BY <1>7, <2>1, EndInOrder DEF do_auth_service
<1>8. CASE auth_none
  <2>1. pc = "none" /\ pc \in Auth /\ pc # "version"
    BY <1>8 DEF auth_none, Auth
  <2>2. Stay \/ (LoggedIn /\ Got = "SUCCESS") \/ EndSession \/ TryNext(After("none"), Got # "FAILURE")
    BY <1>8 DEF auth_none
  <2>3. After("none") \in Seq(Auth)
    BY MethodsLeft DEF Auth
  <2>4. ASSUME TryNext(After("none"), Got # "FAILURE") PROVE InOrder' \/ late'
    <3>1. (Got # "FAILURE") \in BOOLEAN
      OBVIOUS
    <3> QED
      BY <2>1, <2>3, <2>4, <3>1, TryNextInOrder
  <2> QED
    BY <1>2, <2>1, <2>2, <2>4, StayInOrder, EndInOrder
<1>9. CASE auth_simple
  <2>1. pc \in {"publickey", "password"} /\ pc \in Auth /\ pc # "version"
    BY <1>9 DEF auth_simple, Auth
  <2>2. \/ Stay \/ (LoggedIn /\ Got = "SUCCESS") \/ EndSession
        \/ TryNext(After(pc), FALSE) /\ Got = "FAILURE"
    BY <1>9 DEF auth_simple
  <2>3. After(pc) \in Seq(Auth)
    BY <2>1, MethodsLeft
  <2> QED
    BY <1>2, <2>1, <2>2, <2>3, StayInOrder, EndInOrder, TryNextInOrder
<1>10. CASE auth_keyboard_interactive
  <2>1. pc = "kbd" /\ pc \in Auth /\ pc # "version"
    BY <1>10 DEF auth_keyboard_interactive, Auth
  <2>2. \/ Stay \/ (LoggedIn /\ Got = "SUCCESS") \/ EndSession
        \/ TryNext(After("kbd"), FALSE) /\ Got = "FAILURE"
        \/ Got = "INFO_REQUEST" /\ Reads /\ Asks(<<"response">>) /\ pc' = pc
    BY <1>10 DEF auth_keyboard_interactive
  <2>3. After("kbd") \in Seq(Auth)
    BY MethodsLeft DEF Auth
  <2>4. ASSUME Got = "INFO_REQUEST", Reads, Asks(<<"response">>), pc' = pc PROVE InOrder'
    <3>1. "response" \in Expected(pc') /\ Got \notin Chatter \cup {"timeout", "lost"}
      BY <2>1, <2>4 DEF Expected, Chatter
    <3> QED
      BY <1>1, <2>1, <2>4, <3>1, AskOne
  <2> QED
    BY <1>2, <2>1, <2>2, <2>3, <2>4, StayInOrder, EndInOrder, TryNextInOrder
<1>11. CASE do_channel_open
  <2>1. ASSUME NEW at \in {"pty", "request"}, Got = "OPEN_CONFIRM", Advance(at, <<at>>) PROVE InOrder'
    <3>1. pc = "open" /\ Reads /\ pc' = at /\ Asks(<<at>>)
      BY <1>11, <2>1 DEF do_channel_open, Advance
    <3>2. at \in Expected(pc') /\ Got \notin Chatter \cup {"timeout", "lost"}
      BY <2>1, <3>1 DEF Expected, Chatter
    <3> QED
      BY <1>1, <3>1, <3>2, AskOne
  <2>2. \/ Stay \/ EndSession
        \/ Got = "OPEN_CONFIRM" /\ (Advance("pty", <<"pty">>) \/ Advance("request", <<"request">>))
    BY <1>11 DEF do_channel_open
  <2> QED
    BY <1>11, <2>1, <2>2, StayInOrder, EndInOrder DEF do_channel_open
<1>12. CASE do_channel_pty
  <2>1. CASE Got \in {"CH_SUCCESS", "CH_FAILURE"}
    <3>1. pc = "pty" /\ Reads /\ pc' = "request" /\ Asks(<<"request">>)
      BY <1>12, <2>1 DEF do_channel_pty, Advance
    <3>2. "request" \in Expected(pc') /\ Got \notin Chatter \cup {"timeout", "lost"}
      BY <2>1, <3>1 DEF Expected, Chatter
    <3> QED
      BY <1>1, <3>1, <3>2, AskOne
  <2> QED
    BY <1>12, <2>1, StayInOrder, EndInOrder DEF do_channel_pty
<1>13. CASE do_channel_request
  <2>1. CASE Got = "CH_SUCCESS"
    <3>1. pc = "request" /\ Reads /\ pc' = "relay" /\ Asks(<<>>)
      BY <1>13, <2>1 DEF do_channel_request, Advance
    <3>2. rx # <<>> /\ Head(rx).t \notin Chatter
      BY <2>1 DEF Got, Chatter
    <3>3. <<>> \in Seq(Requests) /\ Len(<<>>) <= 1 /\ DOMAIN <<>> = {}
      OBVIOUS
    <3> QED
      BY <3>1, <3>2, <3>3, AskInOrder
  <2> QED
    BY <1>13, <2>1, StayInOrder, EndInOrder DEF do_channel_request
<1>14. CASE do_channel_relay
  BY <1>14, StayInOrder, EndInOrder DEF do_channel_relay
<1> QED
  BY <1>3, <1>4, <1>5, <1>6, <1>7, <1>8, <1>9, <1>10, <1>11, <1>12, <1>13, <1>14 DEF Worker

\* The server answers the oldest request: its answer is the last on its way.
LEMMA AnswersInOrder ==
  ASSUME TypeOK, InOrder, ServerAnswers
  PROVE  InOrder'
<1>1. /\ owed # <<>> /\ owed' = Tail(owed) /\ pc' = pc
      /\ owed \in Seq(Requests) /\ rx \in Seq(Packets)
  BY DEF ServerAnswers, Environment, TypeOK
<1> DEFINE q == owed[1]  n == Len(rx) + 1
<1>2. /\ Head(owed) = q /\ 1 \in DOMAIN owed /\ q \in Requests /\ q # "nothing"
      /\ \A k \in DOMAIN owed' : k \in Nat \ {0} /\ k + 1 \in DOMAIN owed /\ owed'[k] = owed[k + 1]
  <2>1. Head(owed) = q /\ 1 \in DOMAIN owed /\ q \in Requests
    BY <1>1
  <2>2. \A k \in DOMAIN owed' : k \in Nat \ {0} /\ k + 1 \in DOMAIN owed /\ owed'[k] = owed[k + 1]
    BY <1>1
  <2> QED
    BY <2>1, <2>2, RequestNames
<1>3. PICK p : rx' = Append(rx, p) /\ p.re = q
  <2>1. PICK t, k, s : rx' = Append(rx, IF t = "ECDH_REPLY"
                                        THEN [t |-> t, re |-> Head(owed), key |-> k, signed |-> s]
                                        ELSE Packet(t, Head(owed)))
    BY DEF ServerAnswers
  <2> QED
    BY <1>2, <2>1 DEF Packet
<1>4. /\ n \in Nat /\ n \in DOMAIN rx' /\ rx'[n] = p
      /\ \A i \in DOMAIN rx : i \in Nat /\ i < n /\ i \in DOMAIN rx' /\ rx'[i] = rx[i]
      /\ \A i \in DOMAIN rx' : i = n \/ i \in DOMAIN rx
  BY <1>1, <1>3
<1> HIDE DEF q, n
<1>5. /\ n \in Answering' /\ rx'[n].re = q
      /\ \A i \in Answering : i \in Nat /\ i < n /\ i \in Answering' /\ rx'[i] = rx[i]
      /\ \A i \in Answering' : i = n \/ i \in Answering
  BY <1>2, <1>3, <1>4 DEF Answering
<1>6. q \in Expected(pc) /\ (\A i \in Answering : First(rx[i].re, q))
      /\ (\A k \in DOMAIN owed' : First(q, owed'[k]))
  <2>1. q \in Expected(pc) /\ (\A i \in Answering : First(rx[i].re, q))
    BY <1>2 DEF InOrder, InTurn, q
  <2>2. ASSUME NEW k \in DOMAIN owed' PROVE First(q, owed'[k])
    <3>1. 1 < k + 1 /\ k + 1 \in DOMAIN owed /\ owed'[k] = owed[k + 1]
      BY <1>2
    <3> QED
      BY <1>2, <3>1 DEF InOrder, InTurn, q
  <2> QED
    BY <2>1, <2>2
<1>7. InTurn'
  <2>1. \A i \in Answering' : rx'[i].re \in Expected(pc)
    BY <1>5, <1>6 DEF InOrder, InTurn
  <2>2. \A k \in DOMAIN owed' : owed'[k] \in Expected(pc)
    BY <1>2 DEF InOrder, InTurn
  <2>3. ASSUME NEW i \in Answering', NEW j \in Answering', i < j PROVE First(rx'[i].re, rx'[j].re)
    <3>1. CASE i = n
      <4>1. i \in Nat /\ ~(n < j)
        BY <1>4, <1>5, <2>3, <3>1
      <4> QED
        BY <2>3, <3>1, <4>1
    <3>2. CASE i \in Answering /\ j = n
      BY <1>5, <1>6, <3>2
    <3>3. CASE i \in Answering /\ j \in Answering
      BY <1>5, <2>3, <3>3 DEF InOrder, InTurn
    <3> QED
      BY <1>5, <2>3, <3>1, <3>2, <3>3
  <2>4. ASSUME NEW i \in Answering', NEW k \in DOMAIN owed' PROVE First(rx'[i].re, owed'[k])
    <3>1. CASE i = n
      BY <1>5, <1>6, <2>4, <3>1
    <3>2. CASE i \in Answering
      BY <1>2, <1>5, <2>4, <3>2 DEF InOrder, InTurn
    <3> QED
      BY <1>5, <2>4, <3>1, <3>2
  <2>5. ASSUME NEW k \in DOMAIN owed', NEW l \in DOMAIN owed', k < l PROVE First(owed'[k], owed'[l])
    <3>1. k + 1 < l + 1 /\ k + 1 \in DOMAIN owed /\ l + 1 \in DOMAIN owed
      BY <1>2, <2>5
    <3> QED
      BY <1>2, <2>5, <3>1 DEF InOrder, InTurn
  <2> QED
    BY <1>1, <2>1, <2>2, <2>3, <2>4, <2>5 DEF InTurn, First
<1>8. VersionFirst'
  <2> SUFFICES ASSUME pc = "version" PROVE VersionFirst'
    BY <1>1 DEF VersionFirst
  <2>1. q = "kexinit" => \E j \in Answering : rx[j].re = "version"
    BY <1>1 DEF InOrder, VersionFirst, q
  <2>2. ASSUME NEW i \in Answering', rx'[i].re = "kexinit"
        PROVE  \E j \in Answering' : j < i /\ rx'[j].re = "version"
    <3>1. CASE i = n
      BY <1>5, <2>1, <2>2, <3>1
    <3>2. CASE i \in Answering
      <4>1. PICK j \in Answering : j < i /\ rx[j].re = "version"
        BY <1>5, <2>2, <3>2 DEF InOrder, VersionFirst
      <4> QED
        BY <1>5, <4>1
    <3> QED
      BY <1>5, <2>2, <3>1, <3>2
  <2>3. owed' # <<>> => \E j \in Answering' : rx'[j].re = "version"
    <3> SUFFICES ASSUME owed' # <<>> PROVE rx'[n].re = "version"
      BY <1>5
    <3>1. 1 \in DOMAIN owed'
      BY <1>1
    <3> QED
      BY <1>5, <1>6, <3>1 DEF First
  <2> QED
    BY <2>2, <2>3 DEF VersionFirst
<1>9. Unasked'
  BY <1>2, <1>3, <1>4 DEF InOrder, Unasked
<1> QED
  BY <1>7, <1>8, <1>9 DEF InOrder

\* Chatter answers nothing.
LEMMA SpeaksInOrder ==
  ASSUME TypeOK, InOrder, ServerSpeaks
  PROVE  InOrder' \/ stray'
<1>1. PICK t \in Chatter \cup Strays :
        rx' = Append(rx, Packet(t, "nothing")) /\ stray' = (stray \/ t \in Strays)
  BY DEF ServerSpeaks
<1>2. pc' = pc /\ owed' = owed /\ rx \in Seq(Packets)
  BY DEF ServerSpeaks, Environment, TypeOK
<1>3. CASE t \in Strays
  BY <1>1, <1>3
<1>4. CASE t \in Chatter
  <2> DEFINE p == Packet(t, "nothing")
  <2>1. p.re = "nothing" /\ p.t = t
    BY DEF Packet
  <2>2. rx' = Append(rx, p)
    BY <1>1
  <2> HIDE DEF p
  <2>3. /\ \A i \in DOMAIN rx' : rx'[i] = p \/ (i \in DOMAIN rx /\ rx'[i] = rx[i])
        /\ \A i \in DOMAIN rx : i \in DOMAIN rx' /\ rx'[i] = rx[i]
    BY <1>2, <2>2
  <2>4. /\ \A i \in Answering' : i \in Answering /\ rx'[i] = rx[i]
        /\ \A i \in Answering : i \in Answering' /\ rx'[i] = rx[i]
    BY <2>1, <2>3 DEF Answering
  <2>5. InTurn'
    BY <1>2, <2>4 DEF InOrder, InTurn, First
  <2>6. VersionFirst'
    BY <1>2, <2>4 DEF InOrder, VersionFirst
  <2>7. Unasked'
    BY <1>4, <2>1, <2>3 DEF InOrder, Unasked
  <2> QED
    BY <2>5, <2>6, <2>7 DEF InOrder
<1> QED
  BY <1>3, <1>4

\* A new connection owes the version and the KEXINIT, in that order.
LEMMA ConnectInOrder ==
  ASSUME ClientInv, InOrder, itsConnect
  PROVE  InOrder'
<1>1. rx = <<>> /\ rx' = rx
  BY DEF itsConnect, ClientInv, Signed
<1>2. CASE pc' = "version" /\ owed' = <<"version", "kexinit">>
  <2>1. Answering' = {}
    BY <1>1 DEF Answering
  <2>2. /\ DOMAIN owed' = {1, 2} /\ owed'[1] = "version" /\ owed'[2] = "kexinit" /\ owed' # <<>>
    BY <1>2
  <2>3. Expected(pc') = {"version", "kexinit"}
    BY <1>2 DEF Expected
  <2>4. InTurn'
    BY <1>2, <2>1, <2>2, <2>3 DEF InTurn, First
  <2> QED
    BY <1>1, <2>1, <2>2, <2>4 DEF InOrder, VersionFirst, Unasked
<1>3. CASE UNCHANGED <<pc, owed>>
  BY <1>1, <1>3 DEF InOrder, InTurn, VersionFirst, Unasked, First, Answering
<1> QED
  BY <1>2, <1>3 DEF itsConnect

\* A request is dropped, the connection breaks, the user or storage acts.
LEMMA OthersInOrder ==
  ASSUME TypeOK, InOrder, ServerIgnores \/ Breaks \/ UserCloses \/ Commit \/ OperatorClears
  PROVE  InOrder'
<1>1. CASE ServerIgnores
  <2>1. /\ owed # <<>> /\ owed' = Tail(owed) /\ Head(owed) \in Methods /\ UNCHANGED <<pc, rx>>
        /\ owed \in Seq(Requests)
    BY <1>1 DEF ServerIgnores, Environment, TypeOK
  <2>2. /\ Head(owed) = owed[1] /\ 1 \in DOMAIN owed
        /\ \A k \in DOMAIN owed' : k \in Nat /\ k + 1 \in DOMAIN owed /\ owed'[k] = owed[k + 1]
    BY <2>1
  <2>3. pc # "version"
    <3>1. owed[1] \in Expected(pc)
      BY <2>2 DEF InOrder, InTurn
    <3> QED
      BY <2>1, <2>2, <3>1 DEF Expected, Methods, Auth
  <2>4. ASSUME NEW k \in DOMAIN owed', NEW l \in DOMAIN owed', k < l PROVE First(owed'[k], owed'[l])
    <3>1. k + 1 < l + 1 /\ k + 1 \in DOMAIN owed /\ l + 1 \in DOMAIN owed
      BY <2>2, <2>4
    <3> QED
      BY <2>2, <2>4, <3>1 DEF InOrder, InTurn
  <2>5. Answering' = Answering
    BY <2>1 DEF Answering
  <2>6. InTurn'
    BY <2>1, <2>2, <2>4, <2>5 DEF InOrder, InTurn, First
  <2> QED
    BY <2>1, <2>3, <2>6 DEF InOrder, VersionFirst, Unasked
<1>2. CASE Breaks
  <2>1. UNCHANGED <<pc, rx>> /\ owed' = <<>>
    BY <1>2 DEF Breaks, Environment
  <2>2. Answering' = Answering /\ DOMAIN owed' = {}
    BY <2>1 DEF Answering
  <2>3. InTurn'
    BY <2>1, <2>2 DEF InOrder, InTurn, First
  <2>4. VersionFirst' /\ Unasked'
    BY <2>1, <2>2 DEF InOrder, VersionFirst, Unasked
  <2> QED
    BY <2>3, <2>4 DEF InOrder
<1>3. CASE UserCloses \/ Commit \/ OperatorClears
  <2>1. UNCHANGED <<pc, rx, owed>>
    BY <1>3 DEF UserCloses, Commit, OperatorClears, Environment, server
  <2> QED
    BY <2>1 DEF InOrder, InTurn, VersionFirst, Unasked, First, Answering
<1> QED
  BY <1>1, <1>2, <1>3

\* The flags that excuse a session stay until its end.
LEMMA ExcusesStay ==
  ASSUME Next
  PROVE  EndSession \/ ((late => late') /\ (stray => stray'))
<1>1. CASE Worker
  <2>1. EndSession \/ UNCHANGED <<late, stray>> \/ (stray' = stray /\ \E g : late' = (late \/ g))
    <3>1. CASE auth_none
      BY <3>1 DEF auth_none, Stay, LoggedIn, Advance, TryNext, history
    <3>2. CASE auth_simple
      BY <3>2 DEF auth_simple, Stay, LoggedIn, Advance, TryNext, history
    <3>3. CASE auth_keyboard_interactive
      BY <3>3 DEF auth_keyboard_interactive, Stay, LoggedIn, Advance, TryNext, history
    <3>4. CASE do_version \/ do_kex_init \/ do_kex_reply \/ do_kex_newkeys \/ do_auth_service
      BY <3>4 DEF do_version, do_kex_init, do_kex_reply, do_kex_newkeys, do_auth_service, ProbeFirst,
                  Advance, history
    <3>5. CASE do_channel_open \/ do_channel_pty \/ do_channel_request \/ do_channel_relay
      BY <3>5 DEF do_channel_open, do_channel_pty, do_channel_request, do_channel_relay, Stay,
                  Advance, history
    <3> QED
      BY <1>1, <3>1, <3>2, <3>3, <3>4, <3>5 DEF Worker
  <2> QED
    BY <2>1
<1>2. CASE itsConnect
  BY <1>2 DEF itsConnect, history
<1>3. CASE ServerAnswers \/ ServerIgnores \/ Breaks \/ UserCloses \/ Commit \/ OperatorClears
  BY <1>3 DEF ServerAnswers, ServerIgnores, Breaks, UserCloses, Commit, OperatorClears, Environment
<1>4. CASE ServerSpeaks
  BY <1>4 DEF ServerSpeaks, Environment
<1> QED
  BY <1>1, <1>2, <1>3, <1>4 DEF Next

\* Unless the probe was given up or the server answers unasked, the answers come
\* and are read in the order of the requests.
THEOREM ClientInOrder == Spec => []AnswersInTurn
<1>1. Init => AnswersInTurn
  BY DEF Init, AnswersInTurn, InTurn, VersionFirst, Unasked, Answering
<1>2. ClientInv /\ AnswersInTurn /\ [Next]_vars => AnswersInTurn'
  <2> SUFFICES ASSUME ClientInv, AnswersInTurn, [Next]_vars PROVE AnswersInTurn'
    OBVIOUS
  <2>1. CASE UNCHANGED vars
    <3>1. UNCHANGED <<pc, rx, owed, late, stray>>
      BY <2>1 DEF vars, server, history
    <3> QED
      BY <3>1 DEF AnswersInTurn, InTurn, VersionFirst, Unasked, First, Answering
  <2>2. CASE Next /\ (late \/ stray)
    BY <2>2, ExcusesStay, EndInOrder DEF AnswersInTurn, InOrder
  <2>3. CASE Next /\ InTurn /\ VersionFirst /\ Unasked
    BY <2>3, WorkerInOrder, AnswersInOrder, SpeaksInOrder, ConnectInOrder, OthersInOrder
       DEF Next, ClientInv, InOrder, AnswersInTurn
  <2> QED
    BY <2>1, <2>2, <2>3 DEF AnswersInTurn
<1> QED
  BY <1>1, <1>2, ClientSafe, PTL DEF Spec

\* The packet a step is about to read answers that step's own request, whatever
\* the server says in between and however many sessions there were; except after
\* the none probe was given up (auth_none), or when the server answers unasked.
THEOREM AnswersMatchHolds == Spec => []AnswersMatch
<1>1. ClientInv /\ AnswersInTurn => AnswersMatch
  <2> SUFFICES ASSUME ClientInv, InOrder, rx # <<>>, pc \in Waits \ {"relay"},
                      Head(rx).re # "nothing"
               PROVE  Head(rx).re \in {pc} \cup (IF pc = "kbd" THEN {"response"} ELSE {})
    BY DEF AnswersInTurn, AnswersMatch, InOrder
  <2>1. rx \in Seq(Packets)
    BY DEF ClientInv, TypeOK
  <2>2. Head(rx) = rx[1] /\ 1 \in Answering /\ (\A i \in Answering : i \in Nat \ {0})
    BY <2>1 DEF Answering
  <2>3. rx[1].re \in Expected(pc)
    BY <2>2 DEF InOrder, InTurn
  <2>4. ~(pc = "version" /\ rx[1].re = "kexinit")
    <3>1. \A j \in Answering : ~(j < 1)
      BY <2>2
    <3> QED
      BY <2>2, <3>1 DEF InOrder, VersionFirst
  <2> QED
    BY <2>2, <2>3, <2>4 DEF Expected, Waits, Auth, Channel
<1> QED
  BY <1>1, ClientSafe, ClientInOrder, PTL
=============================================================================
