------------------------------- MODULE SshdPool -------------------------------
(***************************************************************************)
(* The session slots of the server (esp-idf/src/sshd.cpp) under the events *)
(* of the ITS inbox: connections arrive, deliver data and end in any       *)
(* order, slots are reused, and session_close takes its time (a drain of   *)
(* up to 1 s and 100 ms more) on whichever task runs it - the sshd task,   *)
(* or the CLI task for "sshd reset".  No lock separates the two: each      *)
(* statement of session_close is a step of its own.  What a session does   *)
(* with its packets is SshdSession's matter: here a recv event leaves it   *)
(* running, opens its channel, connects it to cli or log (again and again  *)
(* if the client asks) or ends it.  The inbox is bounded: itsConnect waits *)
(* for room, but the kick of an end that disconnects, net's or a backend's,*)
(* is posted without waiting and lost when the inbox is full.              *)
(***************************************************************************)
EXTENDS Integers, Sequences

CONSTANTS
    SSHD_MAX_SESSIONS,  \* slots
    Depth,          \* events the inbox holds
    MaxConns,       \* bound: TCP connections in all
    MaxBackends     \* bound: cli and log connections in all

ASSUME PoolAssumption ==
    /\ SSHD_MAX_SESSIONS \in Nat \ {0} /\ Depth \in Nat \ {0}
    /\ MaxConns \in Nat /\ MaxBackends \in Nat

Slots == 0 .. SSHD_MAX_SESSIONS - 1

NoSlot == -1

\* Connections from net and to the backends, numbered as they come; a number
\* stands for the ITS handle, which is not used again.
Conns == 1 .. MaxConns

Backends == 1 .. MaxBackends

None == -1

VARIABLES
    slotInUse,      \* s_slotInUse
    sess,           \* s_sessions: tcp, slot >= 0, phase = CLOSED, chanOpen and backendHandle
    conn,           \* a connection as ITS sees it
    ref,            \* the serverRef onTcpConnect returned for it
    back,           \* a backend as ITS sees it, its reference (a slot), and the
                    \* connection it was opened for
    inbox,          \* the sshd task's inbox
    doing,          \* where each task is, in which slot, and on whose account
    clashed         \* history: slots opened or used on the sshd task while the
                    \* CLI task was closing them

vars == <<slotInUse, sess, conn, ref, back, inbox, doing, clashed>>

Tasks == {"sshd", "cli"}

Events == [ev : {"connect", "recv", "disconnect"}, n : Conns]
          \cup [ev : {"kick"}, n : Backends]

Session == [tcp : Conns \cup {None}, slot : BOOLEAN, closed : BOOLEAN,
            chanOpen : BOOLEAN, backend : Backends \cup {None}]

\* "gone": the remote end has hung up; "lost": so it has, and its event was
\* dropped; "down": the handle is freed.
ConnStates == {"new", "calling", "up", "gone", "lost", "down"}

Live == {"up", "gone", "lost"}

\* "stray": a further request overwrote its handle.
Backend == [st : {"new", "up", "gone", "down"}, s : Slots \cup {NoSlot},
            c : Conns \cup {None}, stray : BOOLEAN]

Unused(st) == [st |-> st, s |-> NoSlot, c |-> None, stray |-> FALSE]

\* Inside session_close, from the drain on; in front of session_open; in the loop
\* of "sshd reset".
Closing == {"drain", "notcp", "closed", "slot", "noslot"}

Places == Closing \cup {"poll", "open", "loop"}

Idle == [at |-> "poll", s |-> 0, for |-> None, stray |-> FALSE]

\* Task t is inside session_close for slot s.
Inside(t, s) == doing[t].at \in Closing /\ doing[t].s = s

\* Slot s is taken and not opened yet.
Opening(s) == doing["sshd"].at = "open" /\ doing["sshd"].s = s

\* The sshd task uses slot s.
Uses(s) == clashed' = IF Inside("cli", s) THEN clashed \cup {s} ELSE clashed

-----------------------------------------------------------------------------
(* session_close on either task: up to the drain, then statement by statement. *)

Goes(t, at) == doing' = [doing EXCEPT ![t] = [Idle EXCEPT !.at = at, !.s = doing[t].s]]

\* The sshd task polls again; "sshd reset" looks at the next slot.
Returns(t) ==
    doing' = [doing EXCEPT ![t] =
                 IF t = "cli" THEN [Idle EXCEPT !.at = "loop", !.s = doing[t].s + 1] ELSE Idle]

\* The backend of r is disconnected.
GivenUp(r) ==
    [b \in Backends |-> IF b = r.backend THEN Unused("down") ELSE back[b]]

\* Mutant: the backend is not disconnected.
CloseBegins_KeepsBackend(t, s, r, c, isStray) ==
    LET skip == r.closed /\ ~r.slot
    IN  /\ sess' = [sess EXCEPT ![s] = r]
        /\ UNCHANGED back
        /\ IF skip THEN Returns(t)
                   ELSE doing' = [doing EXCEPT ![t] =
                           [at |-> IF r.tcp = None THEN "closed" ELSE "drain",
                            s |-> s, for |-> c, stray |-> isStray]]

\* The struct of slot s being r, and on account of connection c: nothing to do if
\* it is closed and has no slot.  The backend is given up, then there is a drain
\* and a delay if there is a connection.
CloseBegins(t, s, r, c, isStray) ==
    IF r.closed /\ ~r.slot
      THEN sess' = [sess EXCEPT ![s] = r] /\ Returns(t) /\ UNCHANGED back
      ELSE /\ sess' = [sess EXCEPT ![s] = [r EXCEPT !.backend = None]]
           /\ back' = GivenUp(r)
           /\ doing' = [doing EXCEPT ![t] =
                  [at |-> IF r.tcp = None THEN "closed" ELSE "drain",
                   s |-> s, for |-> c, stray |-> isStray]]

\* The handle that is in the struct after the delay is disconnected.
Disconnects(t) ==
    /\ doing[t].at = "drain"
    /\ conn' = [c \in Conns |-> IF c = sess[doing[t].s].tcp THEN "down" ELSE conn[c]]
    /\ Goes(t, "notcp")
    /\ UNCHANGED <<slotInUse, sess, ref, back, inbox, clashed>>

\* Mutant: the handle stays in the struct.
ForgetsTcp_Keeps(t) ==
    /\ doing[t].at = "notcp"
    /\ Goes(t, "closed")
    /\ UNCHANGED <<slotInUse, sess, conn, ref, back, inbox, clashed>>

ForgetsTcp(t) ==
    /\ doing[t].at = "notcp"
    /\ sess' = [sess EXCEPT ![doing[t].s].tcp = None]
    /\ Goes(t, "closed")
    /\ UNCHANGED <<slotInUse, conn, ref, back, inbox, clashed>>

MarksClosed(t) ==
    /\ doing[t].at = "closed"
    /\ sess' = [sess EXCEPT ![doing[t].s].closed = TRUE, ![doing[t].s].chanOpen = FALSE]
    /\ Goes(t, "slot")
    /\ UNCHANGED <<slotInUse, conn, ref, back, inbox, clashed>>

\* Mutant: the slot index is forgotten without freeing the slot.
FreesSlot_Forgets(t) ==
    /\ doing[t].at = "slot"
    /\ Goes(t, "noslot")
    /\ UNCHANGED <<slotInUse, sess, conn, ref, back, inbox, clashed>>

\* sshdSlotFree, if the struct has a slot.
FreesSlot(t) ==
    /\ doing[t].at = "slot"
    /\ LET s == doing[t].s
       IN  \/ sess[s].slot /\ Goes(t, "noslot") /\ slotInUse' = [slotInUse EXCEPT ![s] = FALSE]
           \/ ~sess[s].slot /\ Returns(t) /\ UNCHANGED slotInUse
    /\ UNCHANGED <<sess, conn, ref, back, inbox, clashed>>

ForgetsSlot(t) ==
    /\ doing[t].at = "noslot"
    /\ sess' = [sess EXCEPT ![doing[t].s].slot = FALSE]
    /\ Returns(t)
    /\ UNCHANGED <<slotInUse, conn, ref, back, inbox, clashed>>

session_close(t) ==
    Disconnects(t) \/ ForgetsTcp(t) \/ MarksClosed(t) \/ FreesSlot(t) \/ ForgetsSlot(t)

-----------------------------------------------------------------------------
(* The sshd task: one inbox event at a time (itsPoll). *)

Polls(ev) ==
    /\ doing["sshd"].at = "poll"
    /\ inbox # <<>>
    /\ Head(inbox).ev = ev
    /\ inbox' = Tail(inbox)

\* Mutant: s_slotInUse is not looked at.
findFreeSlot_First == {0}

\* The first free slot, if there is one.
findFreeSlot ==
    {s \in Slots : ~slotInUse[s] /\ \A i \in 0 .. s - 1 : slotInUse[i]}

\* The slot is taken; session_open comes next.
onTcpConnect ==
    /\ Polls("connect")
    /\ LET c == Head(inbox).n
       IN  \/ /\ findFreeSlot = {}
              /\ conn' = [conn EXCEPT ![c] = "down"]
              /\ UNCHANGED <<slotInUse, doing, clashed>>
           \/ \E s \in findFreeSlot :
              /\ slotInUse' = [slotInUse EXCEPT ![s] = TRUE]
              /\ doing' = [doing EXCEPT !["sshd"] = [Idle EXCEPT !.at = "open", !.s = s, !.for = c]]
              /\ Uses(s)
              /\ UNCHANGED conn
    /\ UNCHANGED <<sess, ref, back>>

\* The whole struct is reset, and the slot returned to ITS.
session_open ==
    /\ doing["sshd"].at = "open"
    /\ LET s == doing["sshd"].s
           c == doing["sshd"].for
       IN  /\ sess' = [sess EXCEPT ![s] = [tcp |-> c, slot |-> TRUE, closed |-> FALSE,
                                           chanOpen |-> FALSE, backend |-> None]]
           /\ ref' = [ref EXCEPT ![c] = s]
           /\ conn' = [conn EXCEPT ![c] = "up"]
           /\ Uses(s)
    /\ doing' = [doing EXCEPT !["sshd"] = Idle]
    /\ UNCHANGED <<slotInUse, back, inbox>>

\* handle_channel_open.
OpensChannel(s) ==
    /\ sess' = [sess EXCEPT ![s].chanOpen = TRUE]
    /\ UNCHANGED <<conn, back, doing>>

\* open_backend_with_mode, for every shell, exec and log request, with or without a
\* channel and whether or not there is a backend already: itsConnect's result
\* replaces the handle, also if it is -1.
OpensBackend(s) ==
    LET left == [b \in Backends |-> IF b = sess[s].backend
                                      THEN [back[b] EXCEPT !.stray = TRUE] ELSE back[b]]
    IN  /\ \/ \E n \in Backends :
              /\ back[n].st = "new" /\ \A m \in 1 .. n - 1 : back[m].st # "new"
              /\ back' = [left EXCEPT ![n] =
                            [st |-> "up", s |-> s, c |-> sess[s].tcp, stray |-> FALSE]]
              /\ sess' = [sess EXCEPT ![s].backend = n]
           \/ /\ sess' = [sess EXCEPT ![s].backend = None]
              /\ back' = left
        /\ UNCHANGED <<conn, doing>>

\* MSG_DISCONNECT and send_disconnect give the handle up at once, ahead of
\* session_close's drain.
HangsUp(s, c) ==
    /\ conn' = [conn EXCEPT ![c] = "down"]
    /\ CloseBegins("sshd", s, [sess[s] EXCEPT !.closed = TRUE], c, FALSE)

\* handle_channel_close gives the backend up, as session_close then would.
ClosesChannel(s, c) ==
    /\ sess[s].chanOpen
    /\ CloseBegins("sshd", s, [sess[s] EXCEPT !.closed = TRUE, !.chanOpen = FALSE], c, FALSE)
    /\ UNCHANGED conn

\* onTcpRecv and session_on_tcp_data.  The reference of a handle that is down is
\* not a slot; a struct that is CLOSED already is only closed again.
onTcpRecv ==
    /\ Polls("recv")
    /\ LET c == Head(inbox).n
           s == ref[c]
       IN  IF conn[c] = "down" \/ ~slotInUse[s]
             THEN UNCHANGED <<sess, back, conn, doing, clashed>>
             ELSE /\ Uses(s)
                  /\ \/ /\ ~sess[s].closed
                        /\ \/ UNCHANGED <<sess, back, conn, doing>>
                           \/ OpensChannel(s)
                           \/ OpensBackend(s)
                           \/ HangsUp(s, c)
                           \/ ClosesChannel(s, c)
                     \/ /\ sess[s].closed
                        /\ CloseBegins("sshd", s, sess[s], c, FALSE)
                        /\ UNCHANGED conn
    /\ UNCHANGED <<slotInUse, ref>>

\* onTcpDisconnect knows the slot only, and does not look at s_slotInUse.  ITS
\* does not call it for a handle that we have disconnected ourselves.
onTcpDisconnect ==
    /\ Polls("disconnect")
    /\ LET c == Head(inbox).n
       IN  IF conn[c] = "down"
             THEN UNCHANGED <<sess, back, conn, doing>>
             ELSE /\ conn' = [conn EXCEPT ![c] = "down"]
                  /\ CloseBegins("sshd", ref[c], sess[ref[c]], c, FALSE)
    /\ UNCHANGED <<slotInUse, ref, clashed>>

\* on_backend_disconnect_cb also knows the slot only: whatever session it holds
\* now is closed by session_on_backend_close, if it has a channel.  ITS does not
\* call it for a backend that we have given up.
on_backend_disconnect_cb ==
    /\ Polls("kick")
    /\ LET b == Head(inbox).n
           s == back[b].s
       IN  IF back[b].st = "down" \/ ~slotInUse[s] \/ ~sess[s].chanOpen
             THEN UNCHANGED <<sess, back, doing>>
             ELSE CloseBegins("sshd", s, [sess[s] EXCEPT !.chanOpen = FALSE], back[b].c, back[b].stray)
    /\ UNCHANGED <<slotInUse, conn, ref, clashed>>

-----------------------------------------------------------------------------
(* The CLI task: "sshd reset" closes every slot that is in use, one by one. *)

cmdSshd_reset ==
    /\ doing["cli"].at = "poll"
    /\ doing' = [doing EXCEPT !["cli"] = [Idle EXCEPT !.at = "loop"]]
    /\ UNCHANGED <<slotInUse, sess, conn, ref, back, inbox, clashed>>

\* A slot that the sshd task has taken and not opened yet may be closed.
ResetLooks ==
    /\ doing["cli"].at = "loop"
    /\ LET s == doing["cli"].s
       IN  IF s = SSHD_MAX_SESSIONS
             THEN doing' = [doing EXCEPT !["cli"] = Idle] /\ UNCHANGED <<sess, back, clashed>>
             ELSE IF slotInUse[s]
               THEN /\ CloseBegins("cli", s, sess[s], sess[s].tcp, FALSE)
                    /\ clashed' = IF Opening(s) THEN clashed \cup {s} ELSE clashed
               ELSE Returns("cli") /\ UNCHANGED <<sess, back, clashed>>
    /\ UNCHANGED <<slotInUse, conn, ref, inbox>>

-----------------------------------------------------------------------------
(* The network side and the backends. *)

HasRoom == Len(inbox) < Depth

Posts(ev, n) == inbox' = Append(inbox, [ev |-> ev, n |-> n])

\* itsConnect waits until the inbox has room.
NetConnects(c) ==
    /\ conn[c] = "new" /\ \A d \in 1 .. c - 1 : conn[d] # "new"
    /\ conn' = [conn EXCEPT ![c] = "calling"]
    /\ HasRoom /\ Posts("connect", c)
    /\ UNCHANGED <<slotInUse, sess, ref, back, doing, clashed>>

\* At most one recv event of a connection is waiting.
NetDelivers(c) ==
    /\ conn[c] = "up"
    /\ \A i \in 1 .. Len(inbox) : inbox[i] # [ev |-> "recv", n |-> c]
    /\ HasRoom /\ Posts("recv", c)
    /\ UNCHANGED <<slotInUse, sess, conn, ref, back, doing, clashed>>

\* The kick of a disconnect does not wait for room in the inbox.
NetHangsUp(c) ==
    /\ conn[c] = "up"
    /\ \/ HasRoom /\ Posts("disconnect", c) /\ conn' = [conn EXCEPT ![c] = "gone"]
       \/ ~HasRoom /\ UNCHANGED inbox /\ conn' = [conn EXCEPT ![c] = "lost"]
    /\ UNCHANGED <<slotInUse, sess, ref, back, doing, clashed>>

BackendEnds(b) ==
    /\ back[b].st = "up"
    /\ back' = [back EXCEPT ![b].st = "gone"]
    /\ \/ HasRoom /\ Posts("kick", b)
       \/ ~HasRoom /\ UNCHANGED inbox
    /\ UNCHANGED <<slotInUse, sess, conn, ref, doing, clashed>>

-----------------------------------------------------------------------------
\* The structs are zeroed memory, which says VERSION and slot 0; nothing reads
\* their handles before session_open.
Init ==
    /\ slotInUse = [s \in Slots |-> FALSE]
    /\ sess = [s \in Slots |-> [tcp |-> None, slot |-> TRUE, closed |-> FALSE,
                                chanOpen |-> FALSE, backend |-> None]]
    /\ conn = [c \in Conns |-> "new"]
    /\ ref = [c \in Conns |-> NoSlot]
    /\ back = [b \in Backends |-> Unused("new")]
    /\ inbox = <<>>
    /\ doing = [t \in Tasks |-> Idle]
    /\ clashed = {}

SshdTask ==
    \/ onTcpConnect \/ session_open \/ onTcpRecv \/ onTcpDisconnect
    \/ on_backend_disconnect_cb \/ session_close("sshd")

ResetRuns == ResetLooks \/ session_close("cli")

Net == \E c \in Conns : NetConnects(c) \/ NetDelivers(c) \/ NetHangsUp(c)

Next == SshdTask \/ cmdSshd_reset \/ ResetRuns \/ Net \/ \E b \in Backends : BackendEnds(b)

Spec == Init /\ [][Next]_vars

\* Both tasks are scheduled and their waits are bounded.
FairSpec == Spec /\ WF_vars(SshdTask) /\ WF_vars(ResetRuns)

-----------------------------------------------------------------------------
(* Properties. *)

\* Tables and inbox have their types.
TypeOK ==
    /\ slotInUse \in [Slots -> BOOLEAN]
    /\ sess \in [Slots -> Session]
    /\ conn \in [Conns -> ConnStates]
    /\ ref \in [Conns -> Slots \cup {NoSlot}]
    /\ back \in [Backends -> Backend]
    /\ inbox \in Seq(Events)
    /\ doing \in [Tasks -> [at : Places, s : 0 .. SSHD_MAX_SESSIONS,
                            for : Conns \cup {None}, stray : BOOLEAN]]
    /\ clashed \subseteq Slots

\* A live connection's handle is in no slot but the one its reference names, and
\* it is there, with the slot in use: events for it reach its own session,
\* whatever came and went in the slot before, and while both tasks close it. Only
\* a slot that was reopened or used under a reset still inside session_close may
\* have lost its session (clashed).
Routing ==
    \A c \in Conns : conn[c] \in Live =>
        /\ \A s \in Slots : sess[s].tcp = c => s = ref[c]
        /\ ref[c] \notin clashed => slotInUse[ref[c]] /\ sess[ref[c]].tcp = c

\* A slot in use has a connection, or is being opened, or a task is about to free
\* it: slots are not leaked by any order of events and closes, two tasks closing
\* one session statement by statement included, unless the slot clashed.
SlotsBacked ==
    \A s \in Slots \ clashed : slotInUse[s] =>
        \/ sess[s].tcp # None /\ conn[sess[s].tcp] \in Live
        \/ Opening(s)
        \/ \E t \in Tasks : Inside(t, s)

\* Task t's close disconnects a live connection that it is not about.
Wrongs(t) ==
    /\ doing[t].at = "drain" /\ doing'[t].at # "drain"
    /\ \E c \in Conns \ {doing[t].for} : conn[c] \in Live /\ conn'[c] = "down"

\* A close hits another connection than the one it is about in two cases only: the
\* kick of a backend whose handle a further request overwrote, and a slot that
\* clashed.  A disconnect or a kick that names a slot and waited behind a
\* session_close of over a second hits nobody else, nor does the rest of that
\* session_close.
OwnTaskSafe ==
    [][\A t \in Tasks : Wrongs(t) => doing[t].stray \/ doing[t].s \in clashed]_vars

\* The sshd task "owns ... all sessions": "sshd reset" on the CLI task closes
\* nobody but the connections that it found.
NoInnocentClosed == [][~Wrongs("cli")]_vars

\* When the remote end hangs up and its disconnect event found room in the inbox,
\* the connection's slot becomes free, also if the kick of the session's backend
\* was lost and nothing else would end it ("A genuinely stuck session is reaped
\* when the client's TCP eventually times out").
HangupFreesSlot ==
    \A c \in Conns : conn[c] = "gone" ~>
        ref[c] \in clashed \/ \A s \in Slots : sess[s].tcp # c

-----------------------------------------------------------------------------
(* What every step preserves, and the properties above follow from. *)

\* What an event in the inbox says; a connection is announced once.
Announced ==
    \A i \in DOMAIN inbox :
        LET n == inbox[i].n
        IN  /\ inbox[i].ev = "connect" =>
                  /\ conn[n] = "calling"
                  /\ doing["sshd"].at = "open" => doing["sshd"].for # n
                  /\ \A j \in DOMAIN inbox : inbox[j].ev = "connect" /\ inbox[j].n = n => i = j
            /\ inbox[i].ev = "recv" => conn[n] \in Live \cup {"down"}
            /\ inbox[i].ev = "disconnect" => conn[n] \in {"gone", "down"}
            /\ inbox[i].ev = "kick" => back[n].st \in {"gone", "down"}

Runs(b) == back[b].st \in {"up", "gone"}

\* How the structs, the connections, the backends and the tasks name each other.
Tables ==
    /\ \A s \in Slots :
          /\ sess[s].tcp # None =>
                conn[sess[s].tcp] \in Live \cup {"down"} /\ ref[sess[s].tcp] = s
          /\ sess[s].backend # None =>
                LET b == sess[s].backend IN Runs(b) /\ back[b].s = s /\ ~back[b].stray
    /\ \A c \in Conns : conn[c] \in Live => ref[c] \in Slots
    /\ \A b \in Backends : Runs(b) => back[b].s \in Slots
    /\ \A t \in Tasks : doing[t].at \in Closing \cup {"open"} => doing[t].s \in Slots
    /\ doing["cli"].at # "open" /\ doing["sshd"].at # "loop"
    /\ doing["sshd"].at = "open" => doing["sshd"].for \in Conns /\ conn[doing["sshd"].for] = "calling"

\* How far the tasks inside session_close have come with slot s.
CloseSound(s) ==
    \A t \in Tasks : Inside(t, s) =>
        /\ sess[s].backend = None
        /\ doing[t].at = "drain" => doing[t].stray \/ sess[s].tcp \in {doing[t].for, None}
        /\ doing[t].at = "notcp" => sess[s].tcp = None \/ conn[sess[s].tcp] = "down"
        /\ doing[t].at \in {"closed", "slot", "noslot"} => sess[s].tcp = None
        /\ doing[t].at = "noslot" => ~slotInUse[s]

\* A slot that has not clashed: a free one holds nothing, one that is in use backs
\* a connection unless it is being opened or closed, and each connection and each
\* backend that is not stray is in the slot it names.
SlotSound(s) ==
    /\ ~slotInUse[s] => sess[s].tcp = None /\ sess[s].backend = None
    /\ slotInUse[s] =>
          \/ Opening(s)
          \/ /\ sess[s].slot
             /\ \/ sess[s].tcp # None /\ conn[sess[s].tcp] \in Live
                \/ \E t \in Tasks : Inside(t, s)
    /\ Opening(s) =>
          /\ slotInUse[s] /\ sess[s].tcp = None /\ sess[s].backend = None
          /\ \A t \in Tasks : ~Inside(t, s)
    /\ \A c \in Conns : conn[c] \in Live /\ ref[c] = s => sess[s].tcp = c
    /\ sess[s].backend # None => back[sess[s].backend].c = sess[s].tcp
    /\ \A b \in Backends : Runs(b) /\ back[b].s = s => back[b].stray \/ sess[s].backend = b
    /\ CloseSound(s)

PoolInv ==
    TypeOK /\ Announced /\ Tables /\ \A s \in Slots \ clashed : SlotSound(s)
=============================================================================
