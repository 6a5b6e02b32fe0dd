------------------------------ MODULE SshClient ------------------------------
(***************************************************************************)
(* The outbound SSH client (esp-idf/src/ssh_client.cpp) as the worker task *)
(* runs it: version, key exchange, the check of the host key against the   *)
(* known hosts, authentication, and the channel up to the relay, in one    *)
(* session after another with the same host.  (SshRelay has the CLI task.) *)
(*                                                                         *)
(* The server is arbitrary: it presents any host key but signs only with   *)
(* the one it owns, answers what it is asked, in order and as late as it   *)
(* likes, says other things in between, stops in the middle of a packet,   *)
(* and the connection may break.  Storage is an actor as in SshdConfig: a  *)
(* write is queued and committed later.  A packet is its type, with the    *)
(* request it answers; bytes, windows and output are left out here.        *)
(***************************************************************************)
EXTENDS Integers, Sequences, FiniteSets

CONSTANTS
    HostKeys,       \* host keys that servers may present
    NoKey,          \* none
    MaxSessions,    \* bound: sessions run
    MaxChatter,     \* bound: packets that answer nothing, at once in transit
    MaxClears       \* bound: times the operator clears the known host

ASSUME ClientAssumption ==
    /\ NoKey \notin HostKeys
    /\ MaxSessions \in Nat /\ MaxChatter \in Nat /\ MaxClears \in Nat

VARIABLES
    pc,             \* what the worker waits for; "idle" between sessions
    job,            \* of SshJob: haveCmd, tryPubkey, havePassword
    userClose,      \* of SshJob
    encOut, encIn,  \* of Csess
    hostKey,        \* K_S of this session
    rx,             \* packets that have arrived and were not read
    up,             \* the connection is up, and more may come
    part,           \* it does not show when no more does: waits time out
    owed,           \* requests of ours that the server has not answered
    owns,           \* the host key the server can sign with
    granted,        \* the server has let the user in
    pinned,         \* s.ssh.known_hosts for the host, as committed
    queue,          \* writes to it that are not
    count,          \* bounds: sessions, clears
    trust,          \* history: key accepted at first contact since the last clear
    raced,          \* history: a check was made while a write was queued
    given,          \* history: how secrets were sent in this session, and to whom
    late,           \* history: the none probe was given up, in this session
    stray           \* history: the server answered what it was not asked

conn    == <<encOut, encIn, hostKey>>
server  == <<up, part, owed, owns, granted>>
store   == <<pinned, queue>>
history == <<trust, raced, given, late, stray>>
vars    == <<pc, job, userClose, conn, rx, server, store, count, history>>

Auth    == {"none", "publickey", "kbd", "password"}
Channel == {"open", "pty", "request"}
Waits   == {"version", "kexinit", "ecdh", "newkeys", "service"} \cup Auth \cup Channel \cup {"relay"}

\* What a request may be answered with.
Answers ==
    [version |-> {"SSH-2.0", "SSH-1"}, kexinit |-> {"KEXINIT", "KEXINIT_OTHER"}, ecdh |-> {"ECDH_REPLY"},
     newkeys |-> {"NEWKEYS"}, service |-> {"SERVICE_ACCEPT"},
     none |-> {"SUCCESS", "FAILURE"}, publickey |-> {"SUCCESS", "FAILURE"},
     kbd |-> {"INFO_REQUEST", "SUCCESS", "FAILURE"}, response |-> {"INFO_REQUEST", "SUCCESS", "FAILURE"},
     password |-> {"SUCCESS", "FAILURE"}, open |-> {"OPEN_CONFIRM", "OPEN_FAILURE"},
     pty |-> {"CH_SUCCESS", "CH_FAILURE"}, request |-> {"CH_SUCCESS", "CH_FAILURE"}]

Requests == DOMAIN Answers

Methods == Auth \cup {"response"}

\* What may come unasked, as far as the waits tell it apart: GLOBAL is a global
\* request, a window update or, in the relay, output; CLOSE a channel close, a
\* disconnect or, before the relay, anything out of place; BAD does not parse.
Chatter == {"BANNER", "GLOBAL", "CLOSE", "BAD"}
Strays  == {"SUCCESS", "CH_SUCCESS"}

Types == (UNION {Answers[q] : q \in Requests}) \cup Chatter \cup {"timeout", "lost"}

Packet(t, re) == [t |-> t, re |-> re, key |-> NoKey, signed |-> FALSE]

Packets == [t : Types, re : Requests \cup {"nothing"}, key : HostKeys \cup {NoKey}, signed : BOOLEAN]

Jobs == [haveCmd : BOOLEAN, tryPubkey : BOOLEAN, havePassword : BOOLEAN]
Idle == [haveCmd |-> FALSE, tryPubkey |-> FALSE, havePassword |-> FALSE]

Init ==
    /\ pc = "idle" /\ job = Idle /\ userClose = FALSE
    /\ encOut = FALSE /\ encIn = FALSE /\ hostKey = NoKey
    /\ rx = <<>> /\ part = FALSE /\ up = FALSE /\ owed = <<>> /\ owns = NoKey /\ granted = FALSE
    /\ pinned = NoKey /\ queue = <<>>
    /\ count = [sessions |-> 0, clears |-> 0]
    /\ trust = NoKey /\ raced = FALSE /\ given = {} /\ late = FALSE /\ stray = FALSE

-----------------------------------------------------------------------------
(* Sending and receiving. *)

\* send_packet: what is sent on a broken connection goes nowhere.
Asks(requests) == owed' = IF up THEN owed \o requests ELSE owed

\* recv_packet: the next packet (IGNORE and DEBUG never leave it); a timeout;
\* or the end of the connection, which is noticed only with fewer than 4 bytes
\* of a packet in the buffer.
Got == IF rx # <<>> THEN Head(rx).t ELSE IF up \/ part THEN "timeout" ELSE "lost"

\* The packet is read; what else is no business of a step that received it.
Reads ==
    /\ rx' = IF rx # <<>> THEN Tail(rx) ELSE rx
    /\ UNCHANGED <<job, userClose, count, up, part, owns, granted>>

\* On to the next wait, with requests sent.
Advance(at, requests) == Reads /\ pc' = at /\ Asks(requests) /\ UNCHANGED <<conn, store, history>>

Stay == Reads /\ UNCHANGED <<pc, conn, owed, store, history>>

\* run_session returns after itsDisconnect: Csess is gone, the job is done.  (rc
\* and msg only tell the CLI what to print.)
EndSession ==
    /\ pc' = "idle" /\ job' = Idle /\ userClose' = FALSE
    /\ encOut' = FALSE /\ encIn' = FALSE /\ hostKey' = NoKey
    /\ rx' = <<>> /\ part' = FALSE /\ up' = FALSE /\ owed' = <<>> /\ owns' = NoKey /\ granted' = FALSE
    /\ given' = {} /\ late' = FALSE /\ stray' = FALSE
    /\ UNCHANGED <<store, count, trust, raced>>

-----------------------------------------------------------------------------
(* run_session. *)

\* The server sends its version and its KEXINIT without being asked.  Or the
\* dial fails.
itsConnect ==
    /\ pc = "idle" /\ count.sessions < MaxSessions
    /\ count' = [count EXCEPT !.sessions = @ + 1]
    /\ \/ /\ job' \in {j \in Jobs : j.tryPubkey \/ j.havePassword}
          /\ owns' \in HostKeys
          /\ pc' = "version" /\ up' = TRUE /\ owed' = <<"version", "kexinit">>
       \/ UNCHANGED <<pc, job, up, owed, owns>>
    /\ UNCHANGED <<userClose, conn, rx, part, granted, store, history>>

do_version ==
    /\ pc = "version"
    /\ IF Got = "SSH-2.0" THEN Advance("kexinit", <<>>) ELSE EndSession

\* check_kexinit: curve25519, ssh-ed25519 and chacha20-poly1305 are offered.
do_kex_init ==
    /\ pc = "kexinit"
    /\ IF Got = "KEXINIT" THEN Advance("ecdh", <<"ecdh">>) ELSE EndSession

\* Mutant: a changed key is accepted.
known_hosts_check_AnyKey(k) == TRUE

\* The key on record, or the first.
known_hosts_check(k) == pinned \in {k, NoKey}

\* A first key is recorded.
Remember(k) ==
    /\ queue' = IF pinned = NoKey THEN Append(queue, k) ELSE queue
    /\ trust' = IF pinned = NoKey /\ trust = NoKey THEN k ELSE trust
    /\ raced' = (raced \/ queue # <<>>)
    /\ UNCHANGED pinned

\* Verify the signature over H, look the key up, send NEWKEYS and switch.
do_kex_reply ==
    /\ pc = "ecdh"
    /\ IF Got = "ECDH_REPLY" /\ Head(rx).signed /\ known_hosts_check(Head(rx).key)
       THEN /\ Reads /\ Remember(Head(rx).key)
            /\ hostKey' = Head(rx).key /\ encOut' = TRUE
            /\ pc' = "newkeys" /\ Asks(<<"newkeys">>)
            /\ UNCHANGED <<encIn, given, late, stray>>
       ELSE EndSession

do_kex_newkeys ==
    /\ pc = "newkeys"
    /\ IF Got = "NEWKEYS"
       THEN /\ Reads /\ encIn' = TRUE /\ pc' = "service" /\ Asks(<<"service">>)
            /\ UNCHANGED <<encOut, hostKey, store, history>>
       ELSE EndSession

-----------------------------------------------------------------------------
(* do_auth. *)

\* The secret goes out under this session's key, to the holder of hostKey.
Gives ==
    given' = given \cup {[sealed |-> encOut /\ encIn, proved |-> hostKey = owns,
                          trusted |-> trust \in {hostKey, NoKey} \/ raced]}

\* The methods left after one was refused.
After(method) ==
    LET password == IF job.havePassword THEN <<"kbd", "password">> ELSE <<>>
    IN  CASE method = "none"      -> (IF job.tryPubkey THEN <<"publickey">> ELSE <<>>) \o password
          [] method = "publickey" -> password
          [] method = "kbd"       -> <<"password">>
          [] method = "password"  -> <<>>

\* gaveUp: the answer to this one was not awaited.
TryNext(methods, gaveUp) ==
    IF methods = <<>> THEN EndSession
    ELSE /\ Reads /\ pc' = Head(methods) /\ Asks(<<Head(methods)>>)
         /\ IF Head(methods) = "kbd" THEN UNCHANGED given ELSE Gives
         /\ late' = (late \/ gaveUp)
         /\ UNCHANGED <<conn, store, trust, raced, stray>>

LoggedIn == Advance("open", <<"open">>)

\* Mutant: the probe is sent together with the first method.
ProbeFirst_NotWaited ==
    Advance(Head(After("none")), <<"none", Head(After("none"))>>)

\* "none" is asked first, and its answer awaited.
ProbeFirst == Advance("none", <<"none">>)

do_auth_service ==
    /\ pc = "service"
    /\ IF Got = "SERVICE_ACCEPT" THEN ProbeFirst ELSE EndSession

\* Anything but success and a lost connection, silence too, leads on.
auth_none ==
    /\ pc = "none"
    /\ CASE Got = "BANNER"  -> Stay
         [] Got = "SUCCESS" -> LoggedIn
         [] Got \in {"BAD", "lost"} -> EndSession
         [] OTHER -> TryNext(After("none"), Got # "FAILURE")

\* auth_publickey and auth_password: one request, one answer.
auth_simple ==
    /\ pc \in {"publickey", "password"}
    /\ CASE Got = "BANNER"  -> Stay
         [] Got = "SUCCESS" -> LoggedIn
         [] Got = "FAILURE" -> TryNext(After(pc), FALSE)
         [] OTHER -> EndSession

\* Every prompt of a request that parses is answered with the password.
auth_keyboard_interactive ==
    /\ pc = "kbd"
    /\ CASE Got = "BANNER"  -> Stay
         [] Got = "SUCCESS" -> LoggedIn
         [] Got = "FAILURE" -> TryNext(After("kbd"), FALSE)
         [] Got = "INFO_REQUEST" ->
              \/ EndSession
              \/ Reads /\ Gives /\ Asks(<<"response">>)
                 /\ UNCHANGED <<pc, conn, store, trust, raced, late, stray>>
         [] OTHER -> EndSession

-----------------------------------------------------------------------------
(* do_channel. *)

interactive == ~job.haveCmd

\* channel_recv answers global requests and takes window updates by itself.
do_channel_open ==
    /\ pc = "open"
    /\ CASE Got = "GLOBAL" -> Stay
         [] Got = "OPEN_CONFIRM" -> IF interactive THEN Advance("pty", <<"pty">>)
                                    ELSE Advance("request", <<"request">>)
         [] OTHER -> EndSession

\* A refused pty is no reason to stop.
do_channel_pty ==
    /\ pc = "pty"
    /\ CASE Got = "GLOBAL" -> Stay
         [] Got \in {"CH_SUCCESS", "CH_FAILURE"} -> Advance("request", <<"request">>)
         [] OTHER -> EndSession

do_channel_request ==
    /\ pc = "request"
    /\ CASE Got = "GLOBAL" -> Stay
         [] Got = "CH_SUCCESS" -> Advance("relay", <<>>)
         [] OTHER -> EndSession

\* Mutant: an interactive session does not end with the connection.
EndsRelay_Never(t) == t \in {"BAD", "CLOSE"} \/ (t = "timeout" /\ ~interactive)

\* What ends the relay; silence does only in a session with a command.
EndsRelay(t) == t \in {"BAD", "CLOSE", "lost"} \/ (t = "timeout" /\ ~interactive)

\* One turn of the pump; userClose is looked at before each packet.
do_channel_relay ==
    /\ pc = "relay"
    /\ IF (interactive /\ userClose) \/ EndsRelay(Got) THEN EndSession ELSE Stay

Worker ==
    \/ do_version \/ do_kex_init \/ do_kex_reply \/ do_kex_newkeys
    \/ do_auth_service \/ auth_none \/ auth_simple \/ auth_keyboard_interactive
    \/ do_channel_open \/ do_channel_pty \/ do_channel_request \/ do_channel_relay

-----------------------------------------------------------------------------
(* The server, the network, the user and storage. *)

Environment == UNCHANGED <<pc, job, conn, owns, trust, raced, given, late>>

\* The oldest request is answered; a second login is not (RFC 4252, 5.3).
ServerAnswers ==
    /\ up /\ owed # <<>>
    /\ ~(granted /\ Head(owed) \in Methods)
    /\ \E t \in Answers[Head(owed)], k \in HostKeys, s \in BOOLEAN :
         LET reply == t = "ECDH_REPLY"
         IN  /\ IF reply THEN s => k = owns ELSE k = owns /\ ~s
             /\ rx' = Append(rx, IF reply THEN [t |-> t, re |-> Head(owed), key |-> k, signed |-> s]
                                 ELSE Packet(t, Head(owed)))
             /\ granted' = (granted \/ t = "SUCCESS")
    /\ owed' = Tail(owed)
    /\ Environment /\ UNCHANGED <<up, part, userClose, store, count, stray>>

ServerIgnores ==
    /\ up /\ owed # <<>> /\ granted /\ Head(owed) \in Methods
    /\ owed' = Tail(owed)
    /\ Environment /\ UNCHANGED <<up, part, granted, rx, userClose, store, count, stray>>

Unanswering == {i \in DOMAIN rx : rx[i].re = "nothing"}

\* After its version the server may say anything, as often as it likes.
ServerSpeaks ==
    /\ up /\ Cardinality(Unanswering) < MaxChatter
    /\ ~(owed # <<>> /\ Head(owed) = "version")
    /\ \E t \in Chatter \cup Strays :
         /\ rx' = Append(rx, Packet(t, "nothing"))
         /\ stray' = (stray \/ t \in Strays)
    /\ Environment /\ UNCHANGED <<up, part, owed, granted, userClose, store, count>>

\* The connection breaks between packets; or in the middle of one, or the server
\* falls silent, which look alike: part.  What is owed will not come.
Breaks ==
    /\ up /\ up' = FALSE /\ part' \in BOOLEAN
    /\ owed' = <<>> /\ granted' = FALSE
    /\ Environment /\ UNCHANGED <<rx, userClose, store, count, stray>>

\* "..!", or the terminal is gone.  Set earlier it would be seen here first.
UserCloses ==
    /\ pc = "relay" /\ interactive /\ ~userClose /\ userClose' = TRUE
    /\ Environment /\ UNCHANGED <<server, rx, store, count, stray>>

Commit ==
    /\ queue # <<>>
    /\ pinned' = Head(queue) /\ queue' = Tail(queue)
    /\ Environment /\ UNCHANGED <<server, rx, userClose, count, stray>>

\* The operator clears the entry, to accept a new key.
OperatorClears ==
    /\ count.clears < MaxClears /\ pc = "idle" /\ pinned # NoKey
    /\ count' = [count EXCEPT !.clears = @ + 1]
    /\ queue' = Append(queue, NoKey) /\ trust' = NoKey
    /\ UNCHANGED <<pc, job, userClose, conn, rx, server, pinned, raced, given, late, stray>>

Next ==
    \/ itsConnect \/ Worker
    \/ ServerAnswers \/ ServerIgnores \/ ServerSpeaks \/ Breaks
    \/ UserCloses \/ Commit \/ OperatorClears

\* The worker is always scheduled, and its waits end in a timeout at the latest.
Spec == Init /\ [][Next]_vars /\ WF_vars(Worker)

-----------------------------------------------------------------------------
(* Properties. *)

\* Variables have their types, but for the history of secrets.
TypeOK ==
    /\ pc \in {"idle"} \cup Waits /\ job \in Jobs
    /\ userClose \in BOOLEAN
    /\ encOut \in BOOLEAN /\ encIn \in BOOLEAN /\ hostKey \in HostKeys \cup {NoKey}
    /\ rx \in Seq(Packets) /\ part \in BOOLEAN /\ up \in BOOLEAN
    /\ owed \in Seq(Requests) /\ owns \in HostKeys \cup {NoKey} /\ granted \in BOOLEAN
    /\ pinned \in HostKeys \cup {NoKey} /\ queue \in Seq(HostKeys \cup {NoKey})
    /\ trust \in HostKeys \cup {NoKey} /\ raced \in BOOLEAN
    /\ late \in BOOLEAN /\ stray \in BOOLEAN

\* No password and no signature leaves the device in the clear, to a server that
\* has not proved its host key in this session, or to another key than the one
\* accepted at first contact (do_kex before do_auth, known_hosts_check).  Only a
\* session that looked while a write to the known hosts was queued may differ.
SecretsGuarded == \A g \in given : g.sealed /\ g.proved /\ g.trusted

\* The packet a step is about to read answers that step's own request, however
\* late the server is and whatever it says in between; except after the none
\* probe was given up, where do_auth goes on without the answer, or when the
\* server answers unasked.
AnswersMatch ==
    (rx # <<>> /\ pc \in Waits \ {"relay"} /\ ~late /\ ~stray)
      => Head(rx).re \in {pc, "nothing"} \cup (IF pc = "kbd" THEN {"response"} ELSE {})

\* A session ends when the user closes it or the connection breaks between packets,
\* and one with a command once the server is silent, even in the middle of a packet.
\* (Until then it need not: each banner, prompt or piece of output renews the wait,
\* and an interactive session takes silence for patience.)
SessionEnds ==
    (pc # "idle" /\ (userClose \/ (~up /\ (~part \/ job.haveCmd)))) ~> pc = "idle"

-----------------------------------------------------------------------------
(* What every step preserves, and SecretsGuarded follows from. *)

\* Between sessions there is no connection and nothing to read; in one, only the
\* owner of a host key has signed with it.
Signed ==
    /\ pc = "idle" => ~up /\ rx = <<>>
    /\ \A i \in DOMAIN rx : rx[i].signed => rx[i].key = owns

\* How far the key exchange has come at each wait.
Exchanged ==
    pc \notin {"idle", "version", "kexinit", "ecdh"} =>
        /\ encOut /\ hostKey = owns
        /\ trust \in {hostKey, NoKey} \/ raced
        /\ pc # "newkeys" => encIn

\* The host key on record once the queued writes are committed.
OnRecord == IF queue = <<>> THEN pinned ELSE queue[Len(queue)]

\* It is the key accepted at first contact.
Recorded == raced \/ OnRecord = trust

ClientInv == TypeOK /\ Signed /\ Exchanged /\ Recorded /\ SecretsGuarded

-----------------------------------------------------------------------------
(* What AnswersMatch follows from. *)

\* The requests whose answers may be on their way at each wait.
Expected(wait) ==
    CASE wait = "version" -> {"version", "kexinit"}
      [] wait = "kbd" -> {"kbd", "response"}
      [] wait \in {"idle", "relay"} -> {}
      [] OTHER -> {wait}

\* Two of them are on their way at once only before the version was read.
First(one, other) == pc = "version" /\ one = "version" /\ other = "kexinit"

Answering == {i \in DOMAIN rx : rx[i].re # "nothing"}

\* What is owed and what has arrived was asked for at this wait, and nothing twice.
InTurn ==
    /\ \A i \in Answering : rx[i].re \in Expected(pc)
    /\ \A k \in DOMAIN owed : owed[k] \in Expected(pc)
    /\ \A i, j \in Answering : i < j => First(rx[i].re, rx[j].re)
    /\ \A i \in Answering, k \in DOMAIN owed : First(rx[i].re, owed[k])
    /\ \A k, l \in DOMAIN owed : k < l => First(owed[k], owed[l])

\* A KEXINIT comes after the version.
VersionFirst ==
    pc = "version" =>
        /\ \A i \in Answering : rx[i].re = "kexinit" => \E j \in Answering : j < i /\ rx[j].re = "version"
        /\ (owed # <<>> /\ owed[1] = "kexinit") => \E j \in Answering : rx[j].re = "version"

\* What answers nothing cannot be taken for an answer.
Unasked == \A i \in DOMAIN rx : rx[i].re = "nothing" => rx[i].t \in Chatter

AnswersInTurn == late \/ stray \/ (InTurn /\ VersionFirst /\ Unasked)
=============================================================================
