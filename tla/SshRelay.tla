------------------------------- MODULE SshRelay -------------------------------
(***************************************************************************)
(* The two tasks of an outbound session (esp-idf/src/ssh_client.cpp):      *)
(* cmd_ssh on a CLI task, which owns the SshJob on its stack and relays    *)
(* output and keystrokes, and the worker task that runs the session.  They *)
(* share the job through s_job, a start semaphore, a mutex that admits one *)
(* session at a time, two stream buffers and the flags userClose and done. *)
(* Any number of CLI tasks may call cmd_ssh at once; the worker is spawned *)
(* by the first.  What the worker does before the relay is SshClient's;    *)
(* here it takes a while, ends, and does not look at the job's flags.      *)
(***************************************************************************)
EXTENDS Integers, Sequences, FiniteSets

CONSTANTS
    Clis,           \* CLI tasks
    Workers,        \* bound: worker tasks that may be spawned
    NoCli,          \* null
    Window,         \* LOCAL_WINDOW
    OutSize,        \* size of job.out
    InSize,         \* size of job.in
    MaxCommands     \* bound: ssh commands given

ASSUME RelayAssumption ==
    /\ NoCli \notin Clis /\ IsFiniteSet(Workers)
    /\ Window \in Nat /\ Window >= 2 /\ OutSize \in Nat \ {0} /\ InSize \in Nat
    /\ MaxCommands \in Nat

VARIABLES
    cli,            \* where each CLI task is in cmd_ssh
    worker,         \* where each worker task is, and its job
    sWorker,        \* s_worker is set
    sJob, sem, busy,    \* s_job, s_startSem, holder of s_busyMtx
    job,            \* per CLI task: its SshJob
    peer,           \* the session's channel: windows and bytes on the way
    commands,       \* bound
    unshown         \* history, per CLI task: bytes put into job.out less those printed

shared == <<sWorker, sJob, sem, busy>>
vars   == <<cli, worker, shared, job, peer, commands, unshown>>

NoJob == [alive |-> FALSE, cmd |-> FALSE, userClose |-> FALSE, done |-> FALSE, out |-> 0, in |-> 0]

NoChannel == [win |-> 0, credit |-> 0, adj |-> 0, wire |-> <<>>, errs |-> 0, end |-> "open"]

Absent == [at |-> "absent", job |-> NoCli]

Init ==
    /\ cli = [c \in Clis |-> "idle"] /\ worker = [w \in Workers |-> Absent]
    /\ sWorker = FALSE /\ sJob = NoCli /\ sem = 0 /\ busy = NoCli
    /\ job = [c \in Clis |-> NoJob] /\ peer = NoChannel /\ commands = 0
    /\ unshown = [c \in Clis |-> 0]

-----------------------------------------------------------------------------
(* cmd_ssh. *)

Goes(c, at) == cli' = [cli EXCEPT ![c] = at]

\* Arguments and credentials, and a look at s_worker.
cmd_ssh(c) ==
    /\ cli[c] = "idle" /\ commands < MaxCommands
    /\ commands' = commands + 1
    /\ \E cmd \in BOOLEAN : job' = [job EXCEPT ![c] = [NoJob EXCEPT !.alive = TRUE, !.cmd = cmd]]
    /\ unshown' = [unshown EXCEPT ![c] = 0]
    /\ Goes(c, IF sWorker THEN "start" ELSE "spawn")
    /\ UNCHANGED <<worker, shared, peer>>

Leaves(c) == Goes(c, "idle") /\ job' = [job EXCEPT ![c] = NoJob]

\* Two CLI tasks may both find no worker.  A spawn that fails leaves s_worker
\* null, even when the other one's has succeeded.
SpawnWorker(c) ==
    /\ cli[c] = "spawn"
    /\ \/ Leaves(c) /\ sWorker' = FALSE /\ UNCHANGED worker
       \/ /\ \E w \in Workers : worker[w] = Absent /\ worker' = [worker EXCEPT ![w].at = "take"]
          /\ sWorker' = TRUE /\ Goes(c, "start") /\ UNCHANGED job
    /\ UNCHANGED <<sJob, sem, busy, peer, commands, unshown>>

\* Mutant: a second session is not refused.
Admits_Any(c) == TRUE

\* xSemaphoreTake of the mutex, without waiting.
Admits(c) == busy = NoCli

\* Refused, out of memory (the mutex is given back), or started.
Start(c) ==
    /\ cli[c] = "start"
    /\ \/ Leaves(c) /\ UNCHANGED shared
       \/ /\ Admits(c)
          /\ busy' = c /\ sJob' = c /\ sem' = 1
          /\ Goes(c, "relay") /\ UNCHANGED <<sWorker, job>>
    /\ UNCHANGED <<worker, peer, commands, unshown>>

\* xStreamBufferReceive and cliWrite.
Show(c) ==
    IF job[c].out = 0 THEN UNCHANGED <<job, unshown>>
    ELSE \E n \in 1 .. job[c].out : /\ job' = [job EXCEPT ![c].out = @ - n]
                                    /\ unshown' = [unshown EXCEPT ![c] = @ - n]

\* One turn of the loop: print what there is, and then look at done.
RelayPrints(c) ==
    /\ cli[c] = "relay" /\ Show(c) /\ Goes(c, "test")
    /\ UNCHANGED <<worker, shared, peer, commands>>

RelayTests(c) ==
    /\ cli[c] = "test"
    /\ Goes(c, IF job[c].done THEN "last" ELSE IF job[c].cmd THEN "relay" ELSE "read")
    /\ UNCHANGED <<worker, shared, job, peer, commands, unshown>>

\* Mutant: on "..!" the command returns without waiting for the worker.
AfterEscape_Returns == "last"

\* On "..!" the worker is awaited.
AfterEscape == "closing"

\* cliReadRaw: the terminal is gone, for good; nothing; keystrokes, of which job.in takes
\* what fits; or "..!" after some.
RelayReads(c) ==
    /\ cli[c] = "read"
    /\ \/ job' = [job EXCEPT ![c].userClose = TRUE] /\ Goes(c, "relay")
       \/ ~job[c].userClose /\ Goes(c, "relay") /\ UNCHANGED job
       \/ ~job[c].userClose /\ job[c].in < InSize /\ job' = [job EXCEPT ![c].in = @ + 1] /\ Goes(c, "relay")
       \/ \E k \in {0, 1} : /\ ~job[c].userClose /\ job[c].in + k <= InSize
                           /\ job' = [job EXCEPT ![c].userClose = TRUE, ![c].in = @ + k]
                           /\ Goes(c, AfterEscape)
    /\ UNCHANGED <<worker, shared, peer, commands, unshown>>

\* while (!job.done): print.
Closing(c) ==
    /\ cli[c] = "closing"
    /\ IF job[c].done THEN Goes(c, "last") /\ UNCHANGED <<job, unshown>>
       ELSE Show(c) /\ UNCHANGED cli
    /\ UNCHANGED <<worker, shared, peer, commands>>

\* Mutant: what is still in the buffer is not printed.
LastPrints_Skips(c) == TRUE

\* The buffer is empty.
LastPrints(c) == job[c].out = 0

\* Print the rest; then drop the job and the buffers and let the next one in.
Last(c) ==
    /\ cli[c] = "last"
    /\ \/ /\ job[c].out > 0 /\ Show(c)
          /\ UNCHANGED <<cli, sJob, busy>>
       \/ /\ LastPrints(c) /\ Leaves(c)
          /\ sJob' = NoCli /\ busy' = NoCli /\ UNCHANGED unshown
    /\ UNCHANGED <<worker, sWorker, sem, peer, commands>>

-----------------------------------------------------------------------------
(* worker_task. *)

At(w, at) == worker' = [worker EXCEPT ![w].at = at]

Takes(w) ==
    /\ worker[w].at = "take" /\ sem = 1 /\ sem' = 0
    /\ At(w, "got")
    /\ UNCHANGED <<cli, sWorker, sJob, busy, job, peer, commands, unshown>>

ReadsJob(w) ==
    /\ worker[w].at = "got"
    /\ worker' = [worker EXCEPT ![w] = IF sJob = NoCli THEN [at |-> "take", job |-> NoCli]
                                       ELSE [at |-> "setup", job |-> sJob]]
    /\ UNCHANGED <<cli, shared, job, peer, commands, unshown>>

\* Up to do_channel's relay: fails, or the channel is open.
Setup(w) ==
    /\ worker[w].at = "setup"
    /\ \/ At(w, "done") /\ UNCHANGED peer
       \/ At(w, "relay") /\ peer' = [NoChannel EXCEPT !.win = Window, !.credit = Window]
    /\ UNCHANGED <<cli, shared, job, commands, unshown>>

\* Mutant: nothing is credited back.
Replenish_Never(win) == win

\* The window after n = 1 bytes of data, and what is granted below half.
Replenish(win) == IF win < Window \div 2 THEN Window ELSE win

OutWritten(c, p) ==
    \/ /\ job[c].out < OutSize
       /\ job' = [job EXCEPT ![c].out = @ + 1] /\ unshown' = [unshown EXCEPT ![c] = @ + 1]
       /\ peer' = p
    \/ /\ job[c].out = OutSize          \* 3 s without room: the rest is dropped
       /\ UNCHANGED <<job, unshown>> /\ peer' = p

\* CHANNEL_DATA, which is counted, and EXTENDED_DATA, which is not.
TakesPacket(c) ==
    /\ peer.wire # <<>>
    /\ LET used == IF Head(peer.wire) = "err" THEN peer.win ELSE IF peer.win > 1 THEN peer.win - 1 ELSE 0
           next == IF Head(peer.wire) = "err" THEN used ELSE Replenish(used)
       IN  OutWritten(c, [peer EXCEPT !.wire = Tail(@), !.win = next, !.adj = @ + (next - used),
                                      !.errs = IF Head(peer.wire) = "err" THEN @ + 1 ELSE @])

\* The pump of do_channel.  An interactive turn first ships the keystrokes that
\* are there and then looks at userClose.
PumpInput(w) ==
    /\ worker[w].at = "relay"
    /\ LET c == worker[w].job
       IN  IF job[c].cmd THEN At(w, "recv") /\ UNCHANGED job
           ELSE At(w, "test") /\ job' = [job EXCEPT ![c].in = 0]
    /\ UNCHANGED <<cli, shared, peer, commands, unshown>>

\* Mutant: the flag is not looked at.
SeesClose_Never(c) == FALSE

SeesClose(c) == job[c].userClose

TestUserClose(w) ==
    /\ worker[w].at = "test"
    /\ At(w, IF SeesClose(worker[w].job) THEN "done" ELSE "recv")
    /\ UNCHANGED <<cli, shared, job, peer, commands, unshown>>

\* One packet; CLOSE, which comes after all data; or no packet in time, which ends
\* a session with a command.
RecvPacket(w) ==
    /\ worker[w].at = "recv"
    /\ LET c == worker[w].job
       IN  \/ TakesPacket(c) /\ At(w, "relay")
           \/ /\ peer.wire = <<>>
              /\ At(w, IF peer.end = "closed" \/ job[c].cmd THEN "done" ELSE "relay")
              /\ UNCHANGED <<job, peer, unshown>>
    /\ UNCHANGED <<cli, shared, commands>>

\* The last access to the job.
Done(w) ==
    /\ worker[w].at = "done"
    /\ job' = [job EXCEPT ![worker[w].job].done = TRUE]
    /\ worker' = [worker EXCEPT ![w] = [at |-> "take", job |-> NoCli]]
    /\ peer' = NoChannel
    /\ UNCHANGED <<cli, shared, commands, unshown>>

-----------------------------------------------------------------------------
(* The remote end, which keeps to its window. *)

Running == {"relay", "test", "recv"}

Open == \E w \in Workers : worker[w].at \in Running

\* As much as it has credit for, for as long as it likes.
RemoteSends ==
    /\ Open /\ peer.end = "open" /\ peer.credit > 0
    /\ \E kind \in {"out", "err"} :
         peer' = [peer EXCEPT !.credit = @ - 1, !.wire = Append(@, kind)]
    /\ UNCHANGED <<cli, worker, shared, job, commands, unshown>>

RemoteCredited ==
    /\ Open /\ peer.adj > 0
    /\ peer' = [peer EXCEPT !.credit = @ + peer.adj, !.adj = 0]
    /\ UNCHANGED <<cli, worker, shared, job, commands, unshown>>

\* It closes the channel, or is not heard of again.
RemoteStops ==
    /\ Open /\ peer.end = "open"
    /\ \E end \in {"closed", "silent"} : peer' = [peer EXCEPT !.end = end]
    /\ UNCHANGED <<cli, worker, shared, job, commands, unshown>>

CliStep(c) ==
    \/ SpawnWorker(c) \/ Start(c) \/ RelayPrints(c) \/ RelayTests(c) \/ RelayReads(c)
    \/ Closing(c) \/ Last(c)

RunStep(w) == ReadsJob(w) \/ PumpInput(w) \/ TestUserClose(w) \/ RecvPacket(w) \/ Done(w)

Next ==
    \/ \E c \in Clis : cmd_ssh(c) \/ CliStep(c)
    \/ \E w \in Workers : Takes(w) \/ Setup(w) \/ RunStep(w)
    \/ RemoteSends \/ RemoteCredited \/ RemoteStops

\* Tasks are scheduled, and every wait of the worker ends in a timeout.  Of two
\* workers either may get the semaphore.  The server may make the set-up last for
\* ever (SshClient).
Spec ==
    /\ Init /\ [][Next]_vars
    /\ \A c \in Clis : WF_vars(CliStep(c))
    /\ \A w \in Workers : WF_vars(RunStep(w))
    /\ WF_vars(\E w \in Workers : Takes(w))

-----------------------------------------------------------------------------
(* Properties. *)

\* The worker touches no job that is gone: cmd_ssh's frame and buffers are there
\* until run_session has returned and done is set, however the session ends.
JobAlive ==
    \A w \in Workers : worker[w].at \in Running \cup {"setup", "done"} =>
        /\ job[worker[w].job].alive /\ ~job[worker[w].job].done
        /\ busy = worker[w].job

Waiting(c) == cli[c] \in {"relay", "test", "read", "closing"}

\* A command that waits for done has its job in some worker's hands, or on its
\* way to one: no second session takes s_job or the semaphore away from it.
NoStrandedCli ==
    \A c \in Clis : Waiting(c) /\ ~job[c].done =>
        \/ sem = 1 /\ sJob = c
        \/ \E w \in Workers : worker[w].at = "got" /\ sJob = c
        \/ \E w \in Workers : worker[w].at \in Running \cup {"setup", "done"} /\ worker[w].job = c

\* When the command has returned, all that the worker put into the buffer has
\* been printed, also what came between the last look at the buffer and done.
OutputShown == \A c \in Clis : cli[c] = "idle" => unshown[c] = 0

\* While no stderr data came, the remote end always has credit, or gets some for
\* what is on the way.  (Stderr bytes are never credited back.)
RemoteCanSend ==
    Open /\ peer.errs = 0 => peer.credit > 0 \/ peer.wire # <<>> \/ peer.adj > 0

\* The session of a command goes on: it is being set up, or the remote end neither
\* closes the channel nor, when it runs a remote command, falls silent, and the
\* user has not closed it.  (Each packet renews the wait of 30 s, and a session
\* with a remote command reads no keys.)
GoesOn(c) ==
    \E w \in Workers :
        /\ worker[w].job = c
        /\ \/ worker[w].at = "setup"
           \/ /\ worker[w].at \in Running /\ ~job[c].userClose
              /\ peer.end \in {"open"} \cup (IF job[c].cmd THEN {} ELSE {"silent"})

\* An ssh command gets a session that goes on, or it returns, and so it does when
\* its session no longer has a reason to: no start and no done is missed.
CommandReturns == \A c \in Clis : cli[c] # "idle" ~> cli[c] = "idle" \/ GoesOn(c)

-----------------------------------------------------------------------------
(* What every step preserves, and the invariants above follow from. *)

Active == Running \cup {"setup", "done"}

SshJobs == [alive : BOOLEAN, cmd : BOOLEAN, userClose : BOOLEAN, done : BOOLEAN,
            out : 0 .. OutSize, in : 0 .. InSize]

Channels == [win : Nat, credit : Nat, adj : Nat, wire : Seq({"out", "err"}),
             errs : Nat, end : {"open", "closed", "silent"}]

TypeOK ==
    /\ cli \in [Clis -> {"idle", "spawn", "start", "relay", "test", "read", "closing", "last"}]
    /\ worker \in [Workers -> [at : {"absent", "take", "got"} \cup Active, job : Clis \cup {NoCli}]]
    /\ sWorker \in BOOLEAN /\ sJob \in Clis \cup {NoCli} /\ busy \in Clis \cup {NoCli} /\ sem \in {0, 1}
    /\ job \in [Clis -> SshJobs] /\ peer \in Channels
    /\ commands \in Nat /\ unshown \in [Clis -> Nat]

\* The commands between taking s_busyMtx and giving it back.
Holds(c) == cli[c] \in {"relay", "test", "read", "closing", "last"}

\* The mutex is held by the command that is in its relay, and s_job is its job.
MutexHeld == sJob = busy /\ \A c \in Clis : Holds(c) <=> busy = c

InSession(w) == worker[w].at \in {"got"} \cup Active

\* One start is one session: the semaphore, a worker that has taken it, or done.
OneSession ==
    /\ \A v, w \in Workers : InSession(v) /\ InSession(w) => v = w
    /\ sem = 1 => \A w \in Workers : ~InSession(w)
    /\ (sem = 1 \/ \E w \in Workers : InSession(w)) <=> (\E c \in Clis : busy = c /\ ~job[c].done)
    /\ \A w \in Workers : worker[w].at \in Active => worker[w].job = busy

\* The job lives as long as its command, is done only in the relay, and has an
\* output only there.
JobLife ==
    \A c \in Clis : /\ job[c].alive <=> cli[c] # "idle"
                    /\ job[c].done => Holds(c)
                    /\ cli[c] = "last" => job[c].done
                    /\ ~Holds(c) => job[c].out = 0

\* What is not printed is in the buffer.
Printed == \A c \in Clis : unshown[c] = job[c].out

\* Our window is what the remote end may still send, what is on the way, and
\* what stderr has used up; it never rests below half.
Credited ==
    Open => /\ peer.win = peer.credit + peer.adj + Len(peer.wire) + peer.errs
            /\ peer.win >= Window \div 2

RelayInv == TypeOK /\ MutexHeld /\ OneSession /\ JobLife /\ Printed /\ Credited
=============================================================================
