---------------------------- MODULE SshRelayProofs ----------------------------
(***************************************************************************)
(* Proofs about SshRelay: for any number of CLI tasks and workers and any  *)
(* sizes, one start is one session and the job outlives it.                *)
(***************************************************************************)
EXTENDS SshRelay, TLAPS

\* Where the tasks may be, as sets of strings.
LEMMA Places ==
  /\ Active = {"relay", "test", "recv", "setup", "done"}
  /\ Running = {"relay", "test", "recv"}
  BY DEF Active, Running

\* The records that nothing has been written to.
LEMMA Blanks ==
  /\ NoJob \in SshJobs /\ NoChannel \in Channels
  /\ \A cmd \in BOOLEAN : [NoJob EXCEPT !.alive = TRUE, !.cmd = cmd] \in SshJobs
<1>1. 0 \in 0 .. OutSize /\ 0 \in 0 .. InSize
  BY RelayAssumption
<1>2. NoJob \in SshJobs
  BY <1>1 DEF NoJob, SshJobs
<1>3. NoChannel \in Channels
  BY DEF NoChannel, Channels
<1>4. \A cmd \in BOOLEAN : [NoJob EXCEPT !.alive = TRUE, !.cmd = cmd] \in SshJobs
  BY <1>1 DEF NoJob, SshJobs
<1> QED
  BY <1>2, <1>3, <1>4

\* The invariant holds when the first command has not been given.
LEMMA InitInv == Init => RelayInv
<1> SUFFICES ASSUME Init PROVE RelayInv
  OBVIOUS
<1> USE RelayAssumption
<1>1. TypeOK
  BY Blanks DEF Init, TypeOK, Absent
<1>2. \A w \in Workers : worker[w].at = "absent"
  BY DEF Init, Absent
<1>3. MutexHeld /\ OneSession /\ Credited
  BY <1>2, Places DEF Init, MutexHeld, Holds, OneSession, InSession, Credited, Open
<1>4. JobLife /\ Printed
  BY DEF Init, JobLife, Holds, Printed, NoJob
<1> QED
  BY <1>1, <1>3, <1>4 DEF RelayInv

\* A new command.
LEMMA CmdInv ==
  ASSUME RelayInv, NEW c \in Clis, cmd_ssh(c)
  PROVE  RelayInv'
<1>1. PICK r \in SshJobs : /\ job' = [job EXCEPT ![c] = r]
                           /\ r.alive /\ ~r.done /\ r.out = 0
  <2>1. PICK cmd \in BOOLEAN : job' = [job EXCEPT ![c] = [NoJob EXCEPT !.alive = TRUE, !.cmd = cmd]]
    BY DEF cmd_ssh
  <2> DEFINE r == [NoJob EXCEPT !.alive = TRUE, !.cmd = cmd]
  <2>2. r.alive /\ ~r.done /\ r.out = 0
    BY DEF NoJob
  <2> QED
    BY <2>1, <2>2, Blanks
<1>2. /\ cli[c] = "idle" /\ commands' = commands + 1
      /\ unshown' = [unshown EXCEPT ![c] = 0]
      /\ cli' = [cli EXCEPT ![c] = IF sWorker THEN "start" ELSE "spawn"]
      /\ UNCHANGED <<worker, sWorker, sJob, sem, busy, peer>>
  BY DEF cmd_ssh, Goes, shared
<1>3. TypeOK'
  <2>1. job' \in [Clis -> SshJobs]
    BY <1>1 DEF RelayInv, TypeOK
  <2>2. cli' \in [Clis -> {"idle", "spawn", "start", "relay", "test", "read", "closing", "last"}]
    BY <1>2 DEF RelayInv, TypeOK
  <2>3. commands' \in Nat /\ unshown' \in [Clis -> Nat]
    BY <1>2 DEF RelayInv, TypeOK
  <2> QED
    BY <1>2, <2>1, <2>2, <2>3 DEF RelayInv, TypeOK
<1>4. MutexHeld'
  BY <1>2 DEF RelayInv, TypeOK, MutexHeld, Holds
<1>5. ~Holds(c)
  BY <1>2 DEF Holds
<1>6. \A d \in Clis : busy = d => job'[d] = job[d]
  BY <1>1, <1>5 DEF RelayInv, TypeOK, MutexHeld
<1>7. OneSession'
  BY <1>2, <1>6 DEF RelayInv, OneSession, InSession
<1>8. JobLife' /\ Printed'
  BY <1>1, <1>2 DEF RelayInv, TypeOK, JobLife, Printed, Holds
<1>9. Credited'
  BY <1>2 DEF RelayInv, Credited, Open
<1> QED
  BY <1>3, <1>4, <1>7, <1>8, <1>9 DEF RelayInv

\* A command that has not started a session returns.
LEMMA LeavesInv ==
  ASSUME RelayInv, NEW c \in Clis, cli[c] \in {"spawn", "start"}, Leaves(c), sWorker' \in BOOLEAN,
         UNCHANGED <<worker, sJob, sem, busy, peer, commands, unshown>>
  PROVE  RelayInv'
<1>1. cli' = [cli EXCEPT ![c] = "idle"] /\ job' = [job EXCEPT ![c] = NoJob]
  BY DEF Leaves, Goes
<1>2. NoJob \in SshJobs /\ ~NoJob.alive /\ ~NoJob.done /\ NoJob.out = 0
  BY Blanks DEF NoJob
<1>3. TypeOK'
  <2>1. job' \in [Clis -> SshJobs]
    BY <1>1, <1>2 DEF RelayInv, TypeOK
  <2> QED
    BY <1>1, <2>1 DEF RelayInv, TypeOK
<1>4. MutexHeld'
  BY <1>1 DEF RelayInv, TypeOK, MutexHeld, Holds
<1>5. ~Holds(c) /\ job[c].out = 0
  BY DEF RelayInv, JobLife, Holds
<1>6. \A d \in Clis : busy = d => job'[d] = job[d]
  BY <1>1, <1>5 DEF RelayInv, TypeOK, MutexHeld
<1>7. OneSession'
  BY <1>6 DEF RelayInv, OneSession, InSession
<1>8. JobLife' /\ Printed'
  BY <1>1, <1>2, <1>5 DEF RelayInv, TypeOK, JobLife, Printed, Holds
<1>9. Credited'
  BY DEF RelayInv, Credited, Open
<1> QED
  BY <1>3, <1>4, <1>7, <1>8, <1>9 DEF RelayInv

\* The worker task is created.
LEMMA SpawnInv ==
  ASSUME RelayInv, NEW c \in Clis, SpawnWorker(c)
  PROVE  RelayInv'
<1>1. cli[c] = "spawn" /\ UNCHANGED <<sJob, sem, busy, peer, commands, unshown>>
  BY DEF SpawnWorker
<1>2. CASE Leaves(c) /\ sWorker' = FALSE /\ UNCHANGED worker
  BY <1>1, <1>2, LeavesInv
<1>3. CASE ~(Leaves(c) /\ sWorker' = FALSE /\ UNCHANGED worker)
  <2>1. PICK v \in Workers : worker[v] = Absent /\ worker' = [worker EXCEPT ![v].at = "take"]
    BY <1>3 DEF SpawnWorker
  <2>2. sWorker' = TRUE /\ cli' = [cli EXCEPT ![c] = "start"] /\ job' = job
    BY <1>3 DEF SpawnWorker, Goes
  <2>3. worker[v].at = "absent" /\ worker'[v].at = "take"
    BY <2>1 DEF RelayInv, TypeOK, Absent
  <2>4. \A w \in Workers : w # v => worker'[w] = worker[w]
    BY <2>1 DEF RelayInv, TypeOK
  <2>5. TypeOK'
    <3>1. worker' \in [Workers -> [at : {"absent", "take", "got"} \cup Active, job : Clis \cup {NoCli}]]
      BY <2>1 DEF RelayInv, TypeOK
    <3> QED
      BY <1>1, <2>2, <3>1 DEF RelayInv, TypeOK
  <2>6. MutexHeld' /\ JobLife' /\ Printed'
    BY <1>1, <2>2 DEF RelayInv, TypeOK, MutexHeld, JobLife, Printed, Holds
  <2>7. \A w \in Workers : /\ InSession(w)' <=> InSession(w)
                           /\ worker'[w].at \in Active => worker'[w] = worker[w]
                           /\ worker'[w].at \in Running <=> worker[w].at \in Running
    BY <2>3, <2>4, Places DEF InSession
  <2>8. OneSession'
    BY <1>1, <2>2, <2>7 DEF RelayInv, OneSession
  <2>9. Credited'
    BY <1>1, <2>7 DEF RelayInv, Credited, Open
  <2> QED
    BY <2>5, <2>6, <2>8, <2>9 DEF RelayInv
<1> QED
  BY <1>2, <1>3

\* A session is started: the mutex, the job, the semaphore.
LEMMA StartInv ==
  ASSUME RelayInv, NEW c \in Clis, Start(c)
  PROVE  RelayInv'
<1>1. cli[c] = "start" /\ UNCHANGED <<worker, peer, commands, unshown>>
  BY DEF Start
<1>2. CASE Leaves(c) /\ UNCHANGED shared
  <2>1. sWorker' \in BOOLEAN
    BY <1>2 DEF RelayInv, TypeOK, shared
  <2> QED
    BY <1>1, <1>2, <2>1, LeavesInv DEF shared
<1>3. CASE ~(Leaves(c) /\ UNCHANGED shared)
  <2>1. /\ busy = NoCli /\ busy' = c /\ sJob' = c /\ sem' = 1
        /\ cli' = [cli EXCEPT ![c] = "relay"] /\ sWorker' = sWorker /\ job' = job
    BY <1>3 DEF Start, Goes, Admits
  <2>2. TypeOK'
    BY <1>1, <2>1 DEF RelayInv, TypeOK
  <2>3. MutexHeld'
    BY <1>1, <2>1, RelayAssumption DEF RelayInv, TypeOK, MutexHeld, Holds
  <2>4. ~job[c].done
    BY <1>1 DEF RelayInv, JobLife, Holds
  <2>5. \A w \in Workers : ~InSession(w)
    BY <2>1, RelayAssumption DEF RelayInv, OneSession
  <2>6. OneSession'
    BY <1>1, <2>1, <2>4, <2>5 DEF OneSession, InSession
  <2>7. JobLife' /\ Printed'
    BY <1>1, <2>1 DEF RelayInv, TypeOK, JobLife, Printed, Holds
  <2>8. Credited'
    BY <1>1 DEF RelayInv, Credited, Open
  <2> QED
    BY <2>2, <2>3, <2>6, <2>7, <2>8 DEF RelayInv
<1> QED
  BY <1>2, <1>3

\* What a step of the relay may do to the jobs and the bytes printed, while the
\* workers and the mutex stay as they are.
LEMMA RelayStep ==
  ASSUME RelayInv, NEW c \in Clis,
         cli' \in [Clis -> {"idle", "spawn", "start", "relay", "test", "read", "closing", "last"}],
         \A d \in Clis : d # c => cli'[d] = cli[d],
         Holds(c), Holds(c)', cli'[c] = "last" => job[c].done,
         job' \in [Clis -> SshJobs], unshown' \in [Clis -> Nat],
         \A d \in Clis : /\ job'[d].alive = job[d].alive /\ job'[d].done = job[d].done
                         /\ job[d].out = 0 => job'[d].out = 0
                         /\ unshown[d] = job[d].out => unshown'[d] = job'[d].out,
         UNCHANGED <<worker, sWorker, sJob, sem, busy, peer, commands>>
  PROVE  RelayInv'
<1>1. TypeOK'
  BY DEF RelayInv, TypeOK
<1>2. MutexHeld'
  BY DEF RelayInv, MutexHeld, Holds
<1>3. OneSession'
  BY DEF RelayInv, OneSession, InSession
<1>4. JobLife'
  BY DEF RelayInv, JobLife, Holds
<1>5. Printed'
  BY DEF RelayInv, Printed
<1>6. Credited'
  BY DEF RelayInv, Credited, Open
<1> QED
  BY <1>1, <1>2, <1>3, <1>4, <1>5, <1>6 DEF RelayInv

\* Printing moves bytes from the buffer to the terminal.
LEMMA ShowFacts ==
  ASSUME TypeOK, Printed, NEW c \in Clis, Show(c)
  PROVE  /\ job' \in [Clis -> SshJobs] /\ unshown' \in [Clis -> Nat]
         /\ \A d \in Clis : /\ job'[d].alive = job[d].alive /\ job'[d].done = job[d].done
                            /\ job[d].out = 0 => job'[d].out = 0
                            /\ unshown[d] = job[d].out => unshown'[d] = job'[d].out
<1>1. CASE job[c].out = 0
  BY <1>1 DEF Show, TypeOK
<1>2. CASE job[c].out # 0
  <2>1. PICK n \in 1 .. job[c].out : /\ job' = [job EXCEPT ![c].out = @ - n]
                                     /\ unshown' = [unshown EXCEPT ![c] = @ - n]
    BY <1>2 DEF Show
  <2>2. job[c] \in SshJobs /\ job[c].out \in 0 .. OutSize /\ OutSize \in Nat
    BY RelayAssumption DEF TypeOK, SshJobs
  <2>3. [job[c] EXCEPT !.out = @ - n] \in SshJobs
    BY <2>1, <2>2 DEF SshJobs
  <2>4. job' = [job EXCEPT ![c] = [job[c] EXCEPT !.out = @ - n]]
    BY <2>1 DEF TypeOK
  <2>5. job' \in [Clis -> SshJobs] /\ unshown' \in [Clis -> Nat]
    <3>1. unshown[c] - n \in Nat
      BY <2>1, <2>2 DEF Printed
    <3> QED
      BY <2>1, <2>3, <2>4, <3>1 DEF TypeOK
  <2>6. /\ job'[c].alive = job[c].alive /\ job'[c].done = job[c].done /\ job'[c].out = job[c].out - n
        /\ unshown'[c] = unshown[c] - n
    BY <2>1, <2>2 DEF TypeOK, SshJobs
  <2>7. \A d \in Clis : d # c => job'[d] = job[d] /\ unshown'[d] = unshown[d]
    BY <2>1, <2>4 DEF TypeOK
  <2>8. \A d \in Clis : unshown[d] \in Nat /\ job[d].out \in Nat
    BY RelayAssumption DEF TypeOK, SshJobs
  <2> QED
    BY <1>2, <2>1, <2>5, <2>6, <2>7, <2>8
<1> QED
  BY <1>1, <1>2

\* One turn of the loop, up to the look at done.
LEMMA PrintsInv ==
  ASSUME RelayInv, NEW c \in Clis, RelayPrints(c)
  PROVE  RelayInv'
<1>1. /\ cli[c] = "relay" /\ Show(c) /\ cli' = [cli EXCEPT ![c] = "test"]
      /\ UNCHANGED <<worker, sWorker, sJob, sem, busy, peer, commands>>
  BY DEF RelayPrints, Goes, shared
<1>2. /\ cli' \in [Clis -> {"idle", "spawn", "start", "relay", "test", "read", "closing", "last"}]
      /\ \A d \in Clis : d # c => cli'[d] = cli[d]
      /\ Holds(c) /\ Holds(c)' /\ cli'[c] # "last"
  BY <1>1 DEF RelayInv, TypeOK, Holds
<1> QED
  BY <1>1, <1>2, ShowFacts, RelayStep DEF RelayInv

\* The look at done.
LEMMA TestsInv ==
  ASSUME RelayInv, NEW c \in Clis, RelayTests(c)
  PROVE  RelayInv'
<1>1. /\ cli[c] = "test"
      /\ cli' = [cli EXCEPT ![c] = IF job[c].done THEN "last" ELSE IF job[c].cmd THEN "relay" ELSE "read"]
      /\ UNCHANGED <<worker, sWorker, sJob, sem, busy, job, peer, commands, unshown>>
  BY DEF RelayTests, Goes, shared
<1>2. /\ cli' \in [Clis -> {"idle", "spawn", "start", "relay", "test", "read", "closing", "last"}]
      /\ \A d \in Clis : d # c => cli'[d] = cli[d]
      /\ Holds(c) /\ Holds(c)' /\ (cli'[c] = "last" => job[c].done)
  BY <1>1 DEF RelayInv, TypeOK, Holds
<1>3. job' \in [Clis -> SshJobs] /\ unshown' \in [Clis -> Nat]
  BY <1>1 DEF RelayInv, TypeOK
<1> QED
  BY <1>1, <1>2, <1>3, RelayStep

\* Keystrokes, "..!" and the end of the terminal.
LEMMA ReadsInv ==
  ASSUME RelayInv, NEW c \in Clis, RelayReads(c)
  PROVE  RelayInv'
<1>1. /\ cli[c] = "read"
      /\ UNCHANGED <<worker, sWorker, sJob, sem, busy, peer, commands, unshown>>
  BY DEF RelayReads, shared
<1>2. cli' = [cli EXCEPT ![c] = "relay"] \/ cli' = [cli EXCEPT ![c] = "closing"]
  BY DEF RelayReads, Goes, AfterEscape
<1>3. /\ cli' \in [Clis -> {"idle", "spawn", "start", "relay", "test", "read", "closing", "last"}]
      /\ \A d \in Clis : d # c => cli'[d] = cli[d]
      /\ Holds(c) /\ Holds(c)' /\ cli'[c] # "last"
  BY <1>1, <1>2 DEF RelayInv, TypeOK, Holds
<1>4. \E r \in SshJobs : /\ job' = [job EXCEPT ![c] = r]
                         /\ r.alive = job[c].alive /\ r.done = job[c].done /\ r.out = job[c].out
  <2>1. job[c] \in SshJobs /\ job[c].in \in 0 .. InSize /\ InSize \in Nat
    BY RelayAssumption DEF RelayInv, TypeOK, SshJobs
  <2>2. CASE job' = [job EXCEPT ![c].userClose = TRUE]
    <3> DEFINE r == [job[c] EXCEPT !.userClose = TRUE]
    <3>1. job' = [job EXCEPT ![c] = r]
      BY <2>2 DEF RelayInv, TypeOK
    <3>2. r \in SshJobs /\ r.alive = job[c].alive /\ r.done = job[c].done /\ r.out = job[c].out
      BY <2>1 DEF SshJobs
    <3> QED
      BY <3>1, <3>2
  <2>3. CASE job' = job
    <3>1. job' = [job EXCEPT ![c] = job[c]]
      BY <2>3 DEF RelayInv, TypeOK
    <3> QED
      BY <2>1, <3>1
  <2>4. CASE job[c].in < InSize /\ job' = [job EXCEPT ![c].in = @ + 1]
    <3> DEFINE r == [job[c] EXCEPT !.in = @ + 1]
    <3>1. job' = [job EXCEPT ![c] = r]
      BY <2>4 DEF RelayInv, TypeOK
    <3>2. r \in SshJobs /\ r.alive = job[c].alive /\ r.done = job[c].done /\ r.out = job[c].out
      BY <2>1, <2>4 DEF SshJobs
    <3> QED
      BY <3>1, <3>2
  <2>5. ASSUME NEW k \in {0, 1}, job[c].in + k <= InSize,
               job' = [job EXCEPT ![c].userClose = TRUE, ![c].in = @ + k]
        PROVE  \E r \in SshJobs :
                 /\ job' = [job EXCEPT ![c] = r]
                 /\ r.alive = job[c].alive /\ r.done = job[c].done /\ r.out = job[c].out
    <3> DEFINE r == [job[c] EXCEPT !.userClose = TRUE, !.in = @ + k]
    <3>1. job' = [job EXCEPT ![c] = r]
      <4> DEFINE r1 == [job[c] EXCEPT !.userClose = TRUE]
                 j1 == [job EXCEPT ![c] = r1]
      <4>1. j1 = [job EXCEPT ![c].userClose = TRUE]
        BY DEF RelayInv, TypeOK
      <4>2. j1 \in [Clis -> SshJobs] /\ j1[c] = r1
        BY <2>1 DEF RelayInv, TypeOK, SshJobs
      <4>3. job' = [j1 EXCEPT ![c].in = @ + k]
        BY <2>5, <4>1
      <4>4. job' = [j1 EXCEPT ![c] = [r1 EXCEPT !.in = @ + k]]
        BY <4>2, <4>3
      <4>5. [r1 EXCEPT !.in = @ + k] = r
        OBVIOUS
      <4> QED
        BY <4>2, <4>4, <4>5 DEF RelayInv, TypeOK
    <3>2. r \in SshJobs /\ r.alive = job[c].alive /\ r.done = job[c].done /\ r.out = job[c].out
      <4>1. job[c].in + k \in 0 .. InSize
        BY <2>1, <2>5
      <4> QED
        BY <2>1, <4>1 DEF SshJobs
    <3> QED
      BY <3>1, <3>2
  <2> QED
    BY <2>2, <2>3, <2>4, <2>5 DEF RelayReads
<1>5. PICK r \in SshJobs : /\ job' = [job EXCEPT ![c] = r]
                           /\ r.alive = job[c].alive /\ r.done = job[c].done /\ r.out = job[c].out
  BY <1>4
<1>6. job' \in [Clis -> SshJobs] /\ unshown' \in [Clis -> Nat]
  BY <1>1, <1>5 DEF RelayInv, TypeOK
<1>7. \A d \in Clis : job'[d].alive = job[d].alive /\ job'[d].done = job[d].done /\ job'[d].out = job[d].out
  BY <1>5 DEF RelayInv, TypeOK
<1> QED
  BY <1>1, <1>3, <1>6, <1>7, RelayStep

\* The wait for the worker after "..!".
LEMMA ClosingInv ==
  ASSUME RelayInv, NEW c \in Clis, Closing(c)
  PROVE  RelayInv'
<1>1. /\ cli[c] = "closing"
      /\ UNCHANGED <<worker, sWorker, sJob, sem, busy, peer, commands>>
  BY DEF Closing, shared
<1>2. CASE job[c].done
  <2>1. cli' = [cli EXCEPT ![c] = "last"] /\ UNCHANGED <<job, unshown>>
    BY <1>2 DEF Closing, Goes
  <2>2. /\ cli' \in [Clis -> {"idle", "spawn", "start", "relay", "test", "read", "closing", "last"}]
        /\ \A d \in Clis : d # c => cli'[d] = cli[d]
        /\ Holds(c) /\ Holds(c)'
    BY <1>1, <2>1 DEF RelayInv, TypeOK, Holds
  <2>3. job' \in [Clis -> SshJobs] /\ unshown' \in [Clis -> Nat]
    BY <2>1 DEF RelayInv, TypeOK
  <2> QED
    BY <1>1, <1>2, <2>1, <2>2, <2>3, RelayStep
<1>3. CASE ~job[c].done
  <2>1. Show(c) /\ cli' = cli
    BY <1>3 DEF Closing
  <2>2. /\ cli' \in [Clis -> {"idle", "spawn", "start", "relay", "test", "read", "closing", "last"}]
        /\ Holds(c) /\ Holds(c)' /\ cli'[c] # "last"
    BY <1>1, <2>1 DEF RelayInv, TypeOK, Holds
  <2> QED
    BY <1>1, <2>1, <2>2, ShowFacts, RelayStep DEF RelayInv
<1> QED
  BY <1>2, <1>3

\* The rest is printed, and the command returns.
LEMMA LastInv ==
  ASSUME RelayInv, NEW c \in Clis, Last(c)
  PROVE  RelayInv'
<1>1. cli[c] = "last" /\ UNCHANGED <<worker, sWorker, sem, peer, commands>>
  BY DEF Last
<1>2. Holds(c) /\ job[c].done
  BY <1>1 DEF RelayInv, JobLife, Holds
<1>3. CASE job[c].out > 0 /\ Show(c) /\ UNCHANGED <<cli, sJob, busy>>
  <2>1. /\ cli' \in [Clis -> {"idle", "spawn", "start", "relay", "test", "read", "closing", "last"}]
        /\ Holds(c)'
    BY <1>2, <1>3 DEF RelayInv, TypeOK, Holds
  <2> QED
    BY <1>1, <1>2, <1>3, <2>1, ShowFacts, RelayStep DEF RelayInv
<1>4. CASE LastPrints(c) /\ Leaves(c) /\ sJob' = NoCli /\ busy' = NoCli /\ UNCHANGED unshown
  <2>1. /\ job[c].out = 0 /\ unshown' = unshown
        /\ cli' = [cli EXCEPT ![c] = "idle"] /\ job' = [job EXCEPT ![c] = NoJob]
    BY <1>4 DEF LastPrints, Leaves, Goes
  <2>2. NoJob \in SshJobs /\ ~NoJob.alive /\ ~NoJob.done /\ NoJob.out = 0
    BY Blanks DEF NoJob
  <2>3. TypeOK'
    <3>1. job' \in [Clis -> SshJobs]
      BY <2>1, <2>2 DEF RelayInv, TypeOK
    <3> QED
      BY <1>1, <1>4, <2>1, <3>1 DEF RelayInv, TypeOK
  <2>4. busy = c
    BY <1>2 DEF RelayInv, MutexHeld
  <2>5. MutexHeld'
    <3>1. \A d \in Clis : ~Holds(d)'
      BY <2>1, <2>4 DEF RelayInv, TypeOK, MutexHeld, Holds
    <3> QED
      BY <1>4, <3>1, RelayAssumption DEF MutexHeld
  <2>6. sem # 1 /\ \A w \in Workers : ~InSession(w)
    BY <1>2, <2>4 DEF RelayInv, OneSession
  <2>7. OneSession'
    BY <1>1, <1>4, <2>6, RelayAssumption, Places DEF OneSession, InSession
  <2>8. JobLife' /\ Printed'
    BY <1>1, <2>1, <2>2 DEF RelayInv, TypeOK, JobLife, Printed, Holds
  <2>9. Credited'
    BY <1>1 DEF RelayInv, Credited, Open
  <2> QED
    BY <2>3, <2>5, <2>7, <2>8, <2>9 DEF RelayInv
<1> QED
  BY <1>3, <1>4 DEF Last

\* What a worker in a session knows.
LEMMA SessionFacts ==
  ASSUME RelayInv, NEW w \in Workers, InSession(w)
  PROVE  /\ busy \in Clis /\ Holds(busy) /\ sJob = busy /\ ~job[busy].done /\ sem = 0
         /\ \A v \in Workers : InSession(v) => v = w
         /\ worker[w].at \in Active => worker[w].job = busy
<1>1. busy \in Clis /\ ~job[busy].done
  BY DEF RelayInv, OneSession
<1>2. sem = 0 /\ \A v \in Workers : InSession(v) => v = w
  BY DEF RelayInv, TypeOK, OneSession
<1>3. Holds(busy) /\ sJob = busy
  BY <1>1 DEF RelayInv, MutexHeld
<1> QED
  BY <1>1, <1>2, <1>3 DEF RelayInv, OneSession

\* What a step inside a session may do.
LEMMA SessionStep ==
  ASSUME RelayInv, NEW w \in Workers, InSession(w),
         worker' \in [Workers -> [at : {"absent", "take", "got"} \cup Active, job : Clis \cup {NoCli}]],
         \A v \in Workers : v # w => worker'[v] = worker[v],
         worker'[w].at \in Active, worker'[w].job = busy,
         job' \in [Clis -> SshJobs], unshown' \in [Clis -> Nat], peer' \in Channels,
         \A d \in Clis : /\ job'[d].alive = job[d].alive /\ job'[d].done = job[d].done
                         /\ ~Holds(d) => job'[d].out = 0
                         /\ unshown'[d] = job'[d].out,
         UNCHANGED <<cli, sWorker, sJob, sem, busy, commands>>, Credited'
  PROVE  RelayInv'
<1>1. TypeOK'
  BY DEF RelayInv, TypeOK
<1>2. MutexHeld' /\ JobLife' /\ Printed'
  BY DEF RelayInv, MutexHeld, JobLife, Printed, Holds
<1>3. \A v \in Workers : InSession(v)' <=> InSession(v)
  BY DEF InSession
<1>4. \A v \in Workers : worker'[v].at \in Active => worker'[v].job = busy
  BY DEF RelayInv, OneSession
<1>5. OneSession'
  BY <1>3, <1>4 DEF RelayInv, OneSession
<1> QED
  BY <1>1, <1>2, <1>5 DEF RelayInv

\* The worker has the semaphore.
LEMMA TakesInv ==
  ASSUME RelayInv, NEW w \in Workers, Takes(w)
  PROVE  RelayInv'
<1>1. /\ worker[w].at = "take" /\ sem = 1 /\ sem' = 0 /\ worker' = [worker EXCEPT ![w].at = "got"]
      /\ UNCHANGED <<cli, sWorker, sJob, busy, job, peer, commands, unshown>>
  BY DEF Takes, At
<1>2. worker'[w].at = "got" /\ \A v \in Workers : v # w => worker'[v] = worker[v]
  BY <1>1 DEF RelayInv, TypeOK
<1>3. worker' \in [Workers -> [at : {"absent", "take", "got"} \cup Active, job : Clis \cup {NoCli}]]
  BY <1>1 DEF RelayInv, TypeOK
<1>4. TypeOK'
  BY <1>1, <1>3 DEF RelayInv, TypeOK
<1>5. MutexHeld' /\ JobLife' /\ Printed'
  BY <1>1 DEF RelayInv, MutexHeld, JobLife, Printed, Holds
<1>6. \A v \in Workers : ~InSession(v)
  BY <1>1 DEF RelayInv, OneSession
<1>7. \A v \in Workers : InSession(v)' <=> v = w
  BY <1>2, <1>6 DEF InSession
<1>8. \A v \in Workers : worker'[v].at \notin Active
  BY <1>2, <1>6, Places DEF InSession
<1>9. OneSession'
  BY <1>1, <1>7, <1>8 DEF RelayInv, OneSession
<1>10. Credited'
  BY <1>8 DEF Credited, Open, Active
<1> QED
  BY <1>4, <1>5, <1>9, <1>10 DEF RelayInv

\* s_job is the job the semaphore was given for.
LEMMA ReadsJobInv ==
  ASSUME RelayInv, NEW w \in Workers, ReadsJob(w)
  PROVE  RelayInv'
<1>1. /\ worker[w].at = "got"
      /\ UNCHANGED <<cli, sWorker, sJob, sem, busy, job, peer, commands, unshown>>
  BY DEF ReadsJob, shared
<1>2. InSession(w)
  BY <1>1 DEF InSession
<1>3. busy \in Clis /\ sJob = busy
  BY <1>2, SessionFacts
<1>4. worker' = [worker EXCEPT ![w] = [at |-> "setup", job |-> busy]]
  BY <1>3, RelayAssumption DEF ReadsJob
<1>5. /\ worker'[w].at = "setup" /\ worker'[w].job = busy
      /\ \A v \in Workers : v # w => worker'[v] = worker[v]
  BY <1>4 DEF RelayInv, TypeOK
<1>6. worker' \in [Workers -> [at : {"absent", "take", "got"} \cup Active, job : Clis \cup {NoCli}]]
  BY <1>3, <1>4, Places DEF RelayInv, TypeOK
<1>7. job' \in [Clis -> SshJobs] /\ unshown' \in [Clis -> Nat] /\ peer' \in Channels
  BY <1>1 DEF RelayInv, TypeOK
<1>8. \A d \in Clis : /\ ~Holds(d) => job'[d].out = 0
                      /\ unshown'[d] = job'[d].out
  BY <1>1 DEF RelayInv, JobLife, Printed
<1>9. Credited'
  BY <1>1, <1>5 DEF RelayInv, Credited, Open, Running
<1> QED
  BY <1>1, <1>2, <1>5, <1>6, <1>7, <1>8, <1>9, SessionStep, Places

\* A worker that moves inside its session, alone.
LEMMA Moves ==
  ASSUME RelayInv, NEW w \in Workers, worker[w].at \in Active, NEW at \in Active, At(w, at)
  PROVE  /\ InSession(w) /\ busy \in Clis /\ Holds(busy) /\ worker[w].job = busy
         /\ worker' \in [Workers -> [at : {"absent", "take", "got"} \cup Active, job : Clis \cup {NoCli}]]
         /\ \A v \in Workers : v # w => worker'[v] = worker[v]
         /\ worker'[w].at = at /\ worker'[w].job = busy
         /\ Open' <=> at \in Running
<1>1. worker' = [worker EXCEPT ![w].at = at]
  BY DEF At
<1>2. InSession(w)
  BY DEF InSession
<1>3. busy \in Clis /\ Holds(busy) /\ worker[w].job = busy /\ \A v \in Workers : InSession(v) => v = w
  BY <1>2, SessionFacts
<1>4. worker' \in [Workers -> [at : {"absent", "take", "got"} \cup Active, job : Clis \cup {NoCli}]]
  BY <1>1 DEF RelayInv, TypeOK
<1>5. /\ \A v \in Workers : v # w => worker'[v] = worker[v]
      /\ worker'[w].at = at /\ worker'[w].job = busy
  BY <1>1, <1>3 DEF RelayInv, TypeOK
<1>6. \A v \in Workers : v # w => worker[v].at \notin Running
  BY <1>3 DEF InSession, Active
<1>7. Open' <=> at \in Running
  BY <1>5, <1>6 DEF Open
<1> QED
  BY <1>2, <1>3, <1>4, <1>5, <1>7

\* Up to the relay.
LEMMA SetupInv ==
  ASSUME RelayInv, NEW w \in Workers, Setup(w)
  PROVE  RelayInv'
<1>1. /\ worker[w].at = "setup"
      /\ UNCHANGED <<cli, sWorker, sJob, sem, busy, job, commands, unshown>>
  BY DEF Setup, shared
<1>2. /\ job' \in [Clis -> SshJobs] /\ unshown' \in [Clis -> Nat]
      /\ \A d \in Clis : /\ ~Holds(d) => job'[d].out = 0
                         /\ unshown'[d] = job'[d].out
  BY <1>1 DEF RelayInv, TypeOK, JobLife, Printed
<1>3. CASE At(w, "done") /\ UNCHANGED peer
  <2>1. peer' \in Channels
    BY <1>3 DEF RelayInv, TypeOK
  <2>2. ~Open'
    BY <1>1, <1>3, Moves, Places
  <2>3. Credited'
    BY <2>2 DEF Credited
  <2> QED
    BY <1>1, <1>2, <1>3, <2>1, <2>3, Moves, Places, SessionStep
<1>4. CASE At(w, "relay") /\ peer' = [NoChannel EXCEPT !.win = Window, !.credit = Window]
  <2>1. Window \in Nat /\ Window >= Window \div 2
    BY RelayAssumption
  <2>2. peer' \in Channels
    BY <1>4, <2>1, Blanks DEF Channels
  <2>3. Credited'
    <3>1. /\ peer'.win = Window /\ peer'.credit = Window /\ peer'.adj = 0
          /\ peer'.wire = <<>> /\ peer'.errs = 0
      BY <1>4 DEF NoChannel
    <3>2. Len(peer'.wire) = 0
      BY <3>1
    <3> QED
      BY <2>1, <3>1, <3>2 DEF Credited
  <2> QED
    BY <1>1, <1>2, <1>4, <2>2, <2>3, Moves, Places, SessionStep
<1> QED
  BY <1>3, <1>4 DEF Setup

\* The keystrokes are shipped.
LEMMA PumpInv ==
  ASSUME RelayInv, NEW w \in Workers, PumpInput(w)
  PROVE  RelayInv'
<1>1. /\ worker[w].at = "relay"
      /\ UNCHANGED <<cli, sWorker, sJob, sem, busy, peer, commands, unshown>>
  BY DEF PumpInput, shared
<1>2. PICK at \in {"recv", "test"} : At(w, at)
  BY DEF PumpInput
<1>3. at \in Active /\ at \in Running
  BY Places
<1>4. busy \in Clis /\ worker[w].job = busy /\ Holds(busy)
  BY <1>1, <1>2, <1>3, Moves, Places
<1>5. job[busy] \in SshJobs /\ job \in [Clis -> SshJobs]
  BY <1>4 DEF RelayInv, TypeOK
<1>6. PICK r \in SshJobs : /\ job' = [job EXCEPT ![busy] = r]
                           /\ r.alive = job[busy].alive /\ r.done = job[busy].done /\ r.out = job[busy].out
  <2>1. CASE job' = job
    <3>1. job' = [job EXCEPT ![busy] = job[busy]]
      BY <1>5, <2>1
    <3> QED
      BY <1>5, <3>1
  <2>2. CASE job' = [job EXCEPT ![busy].in = 0]
    <3> DEFINE r == [job[busy] EXCEPT !.in = 0]
    <3>1. job' = [job EXCEPT ![busy] = r]
      BY <1>4, <1>5, <2>2
    <3>2. r \in SshJobs /\ r.alive = job[busy].alive /\ r.done = job[busy].done /\ r.out = job[busy].out
      BY <1>5, RelayAssumption DEF SshJobs
    <3> QED
      BY <3>1, <3>2
  <2> QED
    BY <1>4, <2>1, <2>2 DEF PumpInput
<1>7. job' \in [Clis -> SshJobs] /\ unshown' \in [Clis -> Nat] /\ peer' \in Channels
  BY <1>1, <1>6 DEF RelayInv, TypeOK
<1>8. \A d \in Clis : /\ job'[d].alive = job[d].alive /\ job'[d].done = job[d].done
                      /\ job'[d].out = job[d].out
  BY <1>5, <1>6
<1>9. \A d \in Clis : /\ ~Holds(d) => job'[d].out = 0
                      /\ unshown'[d] = job'[d].out
  BY <1>1, <1>8 DEF RelayInv, JobLife, Printed
<1>10. Open
  BY <1>1 DEF Open, Running
<1>11. Credited'
  BY <1>1, <1>10 DEF RelayInv, Credited
<1> QED
  BY <1>1, <1>2, <1>3, <1>7, <1>8, <1>9, <1>11, Moves, Places, SessionStep

\* The look at userClose.
LEMMA TestUserCloseInv ==
  ASSUME RelayInv, NEW w \in Workers, TestUserClose(w)
  PROVE  RelayInv'
<1>1. /\ worker[w].at = "test"
      /\ UNCHANGED <<cli, sWorker, sJob, sem, busy, job, peer, commands, unshown>>
  BY DEF TestUserClose, shared
<1>2. PICK at \in {"done", "recv"} : At(w, at)
  BY DEF TestUserClose
<1>3. /\ job' \in [Clis -> SshJobs] /\ unshown' \in [Clis -> Nat] /\ peer' \in Channels
      /\ \A d \in Clis : /\ ~Holds(d) => job'[d].out = 0
                         /\ unshown'[d] = job'[d].out
  BY <1>1 DEF RelayInv, TypeOK, JobLife, Printed
<1>4. Open
  BY <1>1 DEF Open, Running
<1>5. Credited'
  BY <1>1, <1>4 DEF RelayInv, Credited
<1> QED
  BY <1>1, <1>2, <1>3, <1>5, Moves, Places, SessionStep

\* One packet: the window is what it was less the byte, or full again, and what
\* is granted is what was added.
LEMMA PacketFacts ==
  ASSUME RelayInv, Open, peer.wire # <<>>
  PROVE  \A used, next, e, g :
           /\ used = IF Head(peer.wire) = "err" THEN peer.win ELSE IF peer.win > 1 THEN peer.win - 1 ELSE 0
           /\ next = IF Head(peer.wire) = "err" THEN used ELSE Replenish(used)
           /\ e = peer.adj + (next - used)
           /\ g = IF Head(peer.wire) = "err" THEN peer.errs + 1 ELSE peer.errs
           => /\ Tail(peer.wire) \in Seq({"out", "err"}) /\ next \in Nat /\ e \in Nat /\ g \in Nat
              /\ next = peer.credit + e + Len(Tail(peer.wire)) + g /\ next >= Window \div 2
<1>1. SUFFICES ASSUME NEW used, NEW next, NEW e, NEW g,
                      used = IF Head(peer.wire) = "err" THEN peer.win ELSE IF peer.win > 1 THEN peer.win - 1 ELSE 0,
                      next = IF Head(peer.wire) = "err" THEN used ELSE Replenish(used),
                      e = peer.adj + (next - used),
                      g = IF Head(peer.wire) = "err" THEN peer.errs + 1 ELSE peer.errs
               PROVE  /\ Tail(peer.wire) \in Seq({"out", "err"}) /\ next \in Nat /\ e \in Nat /\ g \in Nat
                      /\ next = peer.credit + e + Len(Tail(peer.wire)) + g /\ next >= Window \div 2
  BY Zenon
<1>2. peer \in Channels /\ Window \in Nat /\ Window >= 2
  BY RelayAssumption DEF RelayInv, TypeOK
<1>3. /\ peer.win \in Nat /\ peer.credit \in Nat /\ peer.adj \in Nat /\ peer.errs \in Nat
      /\ peer.wire \in Seq({"out", "err"})
  BY <1>2 DEF Channels
<1>4. Tail(peer.wire) \in Seq({"out", "err"}) /\ Len(peer.wire) >= 1
  BY <1>3
<1>5. PICK len \in Nat : Len(Tail(peer.wire)) = len /\ Len(peer.wire) = len + 1
  <2>1. Len(Tail(peer.wire)) \in Nat
    BY <1>4
  <2>2. Len(peer.wire) = Len(Tail(peer.wire)) + 1
    BY <1>3, <1>4
  <2> QED
    BY <2>1, <2>2
<1>6. PICK win \in Nat : win = peer.win
  BY <1>3
<1>7. PICK cr \in Nat : cr = peer.credit
  BY <1>3
<1>8. PICK adj \in Nat : adj = peer.adj
  BY <1>3
<1>9. PICK errs \in Nat : errs = peer.errs
  BY <1>3
<1>10. PICK half \in Nat : half = Window \div 2 /\ half <= Window
  BY <1>2
<1>11. win = cr + adj + (len + 1) + errs /\ win >= half
  BY <1>5, <1>6, <1>7, <1>8, <1>9, <1>10 DEF RelayInv, Credited
<1>12. CASE Head(peer.wire) = "err"
  <2>1. used = win /\ next = win /\ g = errs + 1
    BY <1>6, <1>7, <1>8, <1>9, <1>1, <1>12
  <2>2. e = adj
    BY <1>6, <1>7, <1>8, <1>9, <1>1, <2>1
  <2>3. next = cr + e + len + g /\ next \in Nat /\ e \in Nat /\ g \in Nat
    BY <1>11, <2>1, <2>2
  <2> QED
    BY <1>4, <1>5, <1>6, <1>7, <1>8, <1>9, <1>10, <1>11, <2>1, <2>3
<1>13. CASE Head(peer.wire) # "err"
  <2>1. used = win - 1 /\ g = errs
    <3>1. used = (IF win > 1 THEN win - 1 ELSE 0) /\ g = errs
      BY <1>1, <1>6, <1>9, <1>13
    <3>2. win >= 1
      BY <1>11
    <3> QED
      BY <3>1, <3>2
  <2>2. next = IF win - 1 < half THEN Window ELSE win - 1
    BY <1>1, <1>10, <1>13, <2>1 DEF Replenish
  <2>3. next \in Nat /\ next >= win - 1 /\ next >= half
    BY <1>2, <1>10, <1>11, <2>2
  <2>4. e = adj + (next - (win - 1))
    BY <1>6, <1>7, <1>8, <1>9, <1>1, <2>1
  <2>5. next = cr + e + len + g /\ e \in Nat /\ g \in Nat
    BY <1>11, <2>1, <2>3, <2>4
  <2> QED
    BY <1>4, <1>5, <1>6, <1>7, <1>8, <1>9, <1>10, <2>3, <2>5
<1> QED
  BY <1>12, <1>13

\* Data for the terminal, CLOSE, or silence.
LEMMA RecvInv ==
  ASSUME RelayInv, NEW w \in Workers, RecvPacket(w)
  PROVE  RelayInv'
<1>1. /\ worker[w].at = "recv" /\ worker[w].at \in Active
      /\ UNCHANGED <<cli, sWorker, sJob, sem, busy, commands>>
  BY Places DEF RecvPacket, shared
<1>2. Open
  BY <1>1 DEF Open, Running
<1>3. CASE TakesPacket(worker[w].job) /\ At(w, "relay")
  <2>1. busy \in Clis /\ worker[w].job = busy /\ Holds(busy)
    BY <1>1, <1>3, Moves, Places
  <2>2. PICK p : /\ OutWritten(busy, p) /\ p \in Channels
                 /\ p.win = p.credit + p.adj + Len(p.wire) + p.errs /\ p.win >= Window \div 2
    <3> DEFINE used == IF Head(peer.wire) = "err" THEN peer.win ELSE IF peer.win > 1 THEN peer.win - 1 ELSE 0
               next == IF Head(peer.wire) = "err" THEN used ELSE Replenish(used)
               e == peer.adj + (next - used)
               g == IF Head(peer.wire) = "err" THEN peer.errs + 1 ELSE peer.errs
               q == [peer EXCEPT !.wire = Tail(peer.wire), !.win = next, !.adj = e, !.errs = g]
    <3>1. peer.wire # <<>> /\ OutWritten(busy, q)
      BY <1>3, <2>1 DEF TakesPacket
    <3>2. peer \in Channels
      BY DEF RelayInv, TypeOK
    <3>3. used = IF Head(peer.wire) = "err" THEN peer.win ELSE IF peer.win > 1 THEN peer.win - 1 ELSE 0
      OBVIOUS
    <3> HIDE DEF used
    <3>4. next = IF Head(peer.wire) = "err" THEN used ELSE Replenish(used)
      OBVIOUS
    <3> HIDE DEF next
    <3>5. e = peer.adj + (next - used) /\ g = IF Head(peer.wire) = "err" THEN peer.errs + 1 ELSE peer.errs
      OBVIOUS
    <3> HIDE DEF e, g
    <3>6. q = [peer EXCEPT !.wire = Tail(peer.wire), !.win = next, !.adj = e, !.errs = g]
      OBVIOUS
    <3> HIDE DEF q
    <3>7. /\ Tail(peer.wire) \in Seq({"out", "err"}) /\ next \in Nat /\ e \in Nat /\ g \in Nat
          /\ next = peer.credit + e + Len(Tail(peer.wire)) + g /\ next >= Window \div 2
      BY <1>2, <3>1, <3>3, <3>4, <3>5, PacketFacts
    <3>8. /\ q \in Channels /\ q.wire = Tail(peer.wire) /\ q.win = next /\ q.adj = e /\ q.errs = g
          /\ q.credit = peer.credit
      BY <3>2, <3>6, <3>7 DEF Channels
    <3> QED
      BY <3>1, <3>7, <3>8
  <2>3. peer' = p /\ peer' \in Channels
    BY <2>2 DEF OutWritten
  <2>4. Credited'
    BY <2>2, <2>3 DEF Credited
  <2>5. job[busy] \in SshJobs /\ job \in [Clis -> SshJobs] /\ unshown \in [Clis -> Nat]
    BY <2>1 DEF RelayInv, TypeOK
  <2>6. /\ job' \in [Clis -> SshJobs] /\ unshown' \in [Clis -> Nat]
        /\ \A d \in Clis : /\ job'[d].alive = job[d].alive /\ job'[d].done = job[d].done
                           /\ ~Holds(d) => job'[d].out = 0
                           /\ unshown'[d] = job'[d].out
    <3>1. CASE UNCHANGED <<job, unshown>>
      BY <2>5, <3>1 DEF RelayInv, JobLife, Printed
    <3>2. CASE /\ job[busy].out < OutSize
               /\ job' = [job EXCEPT ![busy].out = @ + 1] /\ unshown' = [unshown EXCEPT ![busy] = @ + 1]
      <4> DEFINE r == [job[busy] EXCEPT !.out = @ + 1]
      <4>1. job' = [job EXCEPT ![busy] = r]
        BY <2>1, <2>5, <3>2
      <4>2. job[busy].out + 1 \in 0 .. OutSize /\ job[busy].out \in Nat
        BY <2>5, <3>2, RelayAssumption DEF SshJobs
      <4>3. r \in SshJobs /\ r.alive = job[busy].alive /\ r.done = job[busy].done /\ r.out = job[busy].out + 1
        BY <2>5, <4>2 DEF SshJobs
      <4> HIDE DEF r
      <4>4. job' \in [Clis -> SshJobs] /\ unshown' \in [Clis -> Nat]
        BY <2>1, <2>5, <3>2, <4>1, <4>3
      <4>5. job'[busy] = r /\ unshown'[busy] = unshown[busy] + 1
        BY <2>1, <2>5, <3>2, <4>1
      <4>6. \A d \in Clis : d # busy => job'[d] = job[d] /\ unshown'[d] = unshown[d]
        BY <2>5, <3>2, <4>1
      <4>7. \A d \in Clis : unshown[d] = job[d].out /\ (~Holds(d) => job[d].out = 0)
        BY DEF RelayInv, JobLife, Printed
      <4>8. unshown'[busy] = job'[busy].out
        BY <2>1, <2>5, <4>2, <4>3, <4>5, <4>7
      <4> QED
        BY <2>1, <4>3, <4>4, <4>5, <4>6, <4>7, <4>8
    <3> QED
      BY <2>2, <3>1, <3>2 DEF OutWritten
  <2> QED
    BY <1>1, <1>3, <2>3, <2>4, <2>6, Moves, Places, SessionStep
<1>4. CASE peer.wire = <<>> /\ (\E at \in {"done", "relay"} : At(w, at)) /\ UNCHANGED <<job, peer, unshown>>
  <2>1. PICK at \in {"done", "relay"} : At(w, at)
    BY <1>4
  <2>2. /\ job' \in [Clis -> SshJobs] /\ unshown' \in [Clis -> Nat] /\ peer' \in Channels
        /\ \A d \in Clis : /\ ~Holds(d) => job'[d].out = 0
                           /\ unshown'[d] = job'[d].out
    BY <1>4 DEF RelayInv, TypeOK, JobLife, Printed
  <2>3. Credited'
    BY <1>2, <1>4 DEF RelayInv, Credited
  <2> QED
    BY <1>1, <1>4, <2>1, <2>2, <2>3, Moves, Places, SessionStep
<1> QED
  BY <1>3, <1>4 DEF RecvPacket

\* The session is over: done is set, and the worker waits for the next.
LEMMA DoneInv ==
  ASSUME RelayInv, NEW w \in Workers, Done(w)
  PROVE  RelayInv'
<1>1. /\ worker[w].at = "done" /\ peer' = NoChannel
      /\ worker' = [worker EXCEPT ![w] = [at |-> "take", job |-> NoCli]]
      /\ UNCHANGED <<cli, sWorker, sJob, sem, busy, commands, unshown>>
  BY DEF Done, shared
<1>2. worker[w].at \in Active /\ InSession(w)
  BY <1>1, Places DEF InSession
<1>3. /\ busy \in Clis /\ Holds(busy) /\ worker[w].job = busy /\ sem = 0
      /\ \A v \in Workers : InSession(v) => v = w
  BY <1>2, SessionFacts
<1>4. job[busy] \in SshJobs /\ job \in [Clis -> SshJobs]
  BY <1>3 DEF RelayInv, TypeOK
<1>5. PICK r \in SshJobs : /\ job' = [job EXCEPT ![busy] = r]
                           /\ r.alive = job[busy].alive /\ r.done /\ r.out = job[busy].out
  <2> DEFINE r == [job[busy] EXCEPT !.done = TRUE]
  <2>1. job' = [job EXCEPT ![busy].done = TRUE]
    BY <1>3 DEF Done
  <2>2. job' = [job EXCEPT ![busy] = r]
    BY <1>3, <1>4, <2>1
  <2>3. r \in SshJobs /\ r.alive = job[busy].alive /\ r.done /\ r.out = job[busy].out
    BY <1>4 DEF SshJobs
  <2> QED
    BY <2>2, <2>3
<1>6. /\ job' \in [Clis -> SshJobs] /\ job'[busy] = r
      /\ \A d \in Clis : d # busy => job'[d] = job[d]
  BY <1>3, <1>4, <1>5
<1>7. /\ worker' \in [Workers -> [at : {"absent", "take", "got"} \cup Active, job : Clis \cup {NoCli}]]
      /\ worker'[w].at = "take"
      /\ \A v \in Workers : v # w => worker'[v] = worker[v]
  BY <1>1 DEF RelayInv, TypeOK
<1>8. TypeOK'
  BY <1>1, <1>6, <1>7, Blanks DEF RelayInv, TypeOK
<1>9. \A v \in Workers : ~InSession(v)' /\ worker'[v].at \notin Active
  BY <1>3, <1>7, Places DEF InSession
<1>10. MutexHeld' /\ JobLife' /\ Printed'
  BY <1>1, <1>3, <1>5, <1>6 DEF RelayInv, MutexHeld, JobLife, Printed, Holds
<1>11. OneSession'
  BY <1>1, <1>3, <1>5, <1>6, <1>9 DEF OneSession
<1>12. Credited'
  BY <1>9 DEF Credited, Open, Active
<1> QED
  BY <1>8, <1>10, <1>11, <1>12 DEF RelayInv

\* A step that leaves everything but the channel alone.
LEMMA PeerStep ==
  ASSUME RelayInv, peer' \in Channels, Credited',
         UNCHANGED <<cli, worker, sWorker, sJob, sem, busy, job, commands, unshown>>
  PROVE  RelayInv'
<1>1. TypeOK'
  BY DEF RelayInv, TypeOK
<1>2. MutexHeld' /\ JobLife' /\ Printed'
  BY DEF RelayInv, MutexHeld, JobLife, Printed, Holds
<1>3. OneSession'
  BY DEF RelayInv, OneSession, InSession
<1> QED
  BY <1>1, <1>2, <1>3 DEF RelayInv

\* What the remote end does.
LEMMA RemoteInv ==
  ASSUME RelayInv, RemoteSends \/ RemoteCredited \/ RemoteStops
  PROVE  RelayInv'
<1>1. Open /\ UNCHANGED <<cli, worker, sWorker, sJob, sem, busy, job, commands, unshown>>
  BY DEF RemoteSends, RemoteCredited, RemoteStops, shared
<1>2. peer \in Channels
  BY DEF RelayInv, TypeOK
<1>3. /\ peer.win \in Nat /\ peer.credit \in Nat /\ peer.adj \in Nat /\ peer.errs \in Nat
      /\ peer.wire \in Seq({"out", "err"})
  BY <1>2 DEF Channels
<1>4. /\ peer.win = peer.credit + peer.adj + Len(peer.wire) + peer.errs
      /\ peer.win >= Window \div 2
  BY <1>1 DEF RelayInv, Credited
<1>5. CASE RemoteSends
  <2>1. peer.credit > 0
    BY <1>5 DEF RemoteSends
  <2>2. PICK kind \in {"out", "err"} :
          peer' = [peer EXCEPT !.credit = @ - 1, !.wire = Append(@, kind)]
    BY <1>5 DEF RemoteSends
  <2>3. /\ Append(peer.wire, kind) \in Seq({"out", "err"})
        /\ Len(Append(peer.wire, kind)) = Len(peer.wire) + 1 /\ Len(peer.wire) \in Nat
    BY <1>3
  <2>4. peer.credit - 1 \in Nat
    BY <1>3, <2>1
  <2>5. peer' \in Channels
    BY <1>2, <2>2, <2>3, <2>4 DEF Channels
  <2>6. /\ peer'.win = peer.win /\ peer'.adj = peer.adj /\ peer'.errs = peer.errs
        /\ peer'.credit = peer.credit - 1 /\ peer'.wire = Append(peer.wire, kind)
    BY <1>2, <2>2 DEF Channels
  <2>7. PICK cr \in Nat, len \in Nat : cr = peer.credit /\ len = Len(peer.wire)
    BY <1>3, <2>3
  <2>8. peer'.credit = cr - 1 /\ Len(peer'.wire) = len + 1
    BY <2>3, <2>6, <2>7
  <2>9. peer.win = (cr - 1) + peer.adj + (len + 1) + peer.errs
    <3>1. PICK adj \in Nat : adj = peer.adj
      BY <1>3
    <3>2. PICK errs \in Nat : errs = peer.errs
      BY <1>3
    <3>3. peer.win = cr + adj + len + errs
      BY <1>4, <2>7, <3>1, <3>2
    <3>4. peer.win = (cr - 1) + adj + (len + 1) + errs
      BY <3>3
    <3> QED
      BY <3>1, <3>2, <3>4
  <2>10. Credited'
    BY <1>4, <2>6, <2>8, <2>9 DEF Credited
  <2> QED
    BY <1>1, <2>5, <2>10, PeerStep
<1>6. CASE RemoteCredited
  <2>1. peer' = [peer EXCEPT !.credit = @ + peer.adj, !.adj = 0]
    BY <1>6 DEF RemoteCredited
  <2>2. peer' \in Channels
    <3>1. peer.credit + peer.adj \in Nat
      BY <1>3
    <3> QED
      BY <1>2, <2>1, <3>1 DEF Channels
  <2>3. /\ peer'.win = peer.win /\ peer'.errs = peer.errs /\ peer'.wire = peer.wire
        /\ peer'.credit = peer.credit + peer.adj /\ peer'.adj = 0
    BY <1>2, <2>1 DEF Channels
  <2>4. PICK len \in Nat : len = Len(peer.wire)
    BY <1>3
  <2>5. peer.win = (peer.credit + peer.adj) + 0 + len + peer.errs
    BY <1>3, <1>4, <2>4
  <2>6. Credited'
    BY <1>4, <2>3, <2>4, <2>5 DEF Credited
  <2> QED
    BY <1>1, <2>2, <2>6, PeerStep
<1>7. CASE RemoteStops
  <2>1. PICK end \in {"closed", "silent"} : peer' = [peer EXCEPT !.end = end]
    BY <1>7 DEF RemoteStops
  <2>2. peer' \in Channels
    BY <1>2, <2>1 DEF Channels
  <2>3. /\ peer'.win = peer.win /\ peer'.errs = peer.errs /\ peer'.wire = peer.wire
        /\ peer'.credit = peer.credit /\ peer'.adj = peer.adj
    BY <1>2, <2>1 DEF Channels
  <2>4. Credited'
    BY <1>4, <2>3 DEF Credited
  <2> QED
    BY <1>1, <2>2, <2>4, PeerStep
<1> QED
  BY <1>5, <1>6, <1>7

\* Every step keeps the invariant.
LEMMA NextInv == RelayInv /\ [Next]_vars => RelayInv'
<1> SUFFICES ASSUME RelayInv, [Next]_vars PROVE RelayInv'
  OBVIOUS
<1>1. ASSUME NEW c \in Clis, cmd_ssh(c) PROVE RelayInv'
  BY <1>1, CmdInv
<1>2. ASSUME NEW c \in Clis, CliStep(c) PROVE RelayInv'
  BY <1>2, SpawnInv, StartInv, PrintsInv, TestsInv, ReadsInv, ClosingInv, LastInv DEF CliStep
<1>3. ASSUME NEW w \in Workers, Takes(w) PROVE RelayInv'
  BY <1>3, TakesInv
<1>4. ASSUME NEW w \in Workers, Setup(w) \/ RunStep(w) PROVE RelayInv'
  BY <1>4, ReadsJobInv, SetupInv, PumpInv, TestUserCloseInv, RecvInv, DoneInv DEF RunStep
<1>5. CASE UNCHANGED vars
  <2>1. UNCHANGED <<cli, worker, sWorker, sJob, sem, busy, job, peer, commands, unshown>>
    BY <1>5 DEF vars, shared
  <2>2. peer' \in Channels /\ Credited'
    BY <2>1 DEF RelayInv, TypeOK, Credited, Open
  <2> QED
    BY <2>1, <2>2, PeerStep
<1> QED
  BY <1>1, <1>2, <1>3, <1>4, <1>5, RemoteInv DEF Next

\* The invariant of both tasks: one start is one session, and the mutex, s_job,
\* the semaphore and the worker agree on whose it is, after any sequence of steps
\* of any number of CLI tasks and workers.
THEOREM RelaySafe == Spec => []RelayInv
  BY InitInv, NextInv, PTL DEF Spec

\* run_session never touches a job whose command has returned, and the job it
\* works on is the one the mutex admitted.
THEOREM JobAliveHolds == Spec => []JobAlive
<1>1. RelayInv => JobAlive
  <2> SUFFICES ASSUME RelayInv, NEW w \in Workers, worker[w].at \in Active
               PROVE  /\ job[worker[w].job].alive /\ ~job[worker[w].job].done
                      /\ busy = worker[w].job
    BY DEF JobAlive, Active
  <2>1. InSession(w)
    BY DEF InSession
  <2>2. busy \in Clis /\ Holds(busy) /\ ~job[busy].done /\ worker[w].job = busy
    BY <2>1, SessionFacts
  <2>3. job[busy].alive
    BY <2>2 DEF RelayInv, JobLife, Holds
  <2> QED
    BY <2>2, <2>3
<1> QED
  BY <1>1, RelaySafe, PTL

\* A command in its relay loop has its job in a worker's hands or on its way to
\* one, so that done will be set: no second session takes s_job or the semaphore.
THEOREM NoStrandedCliHolds == Spec => []NoStrandedCli
<1>1. RelayInv => NoStrandedCli
  <2> SUFFICES ASSUME RelayInv, NEW c \in Clis, Waiting(c), ~job[c].done
               PROVE  \/ sem = 1 /\ sJob = c
                      \/ \E w \in Workers : worker[w].at = "got" /\ sJob = c
                      \/ \E w \in Workers : worker[w].at \in Active /\ worker[w].job = c
    BY DEF NoStrandedCli, Active
  <2>1. busy = c /\ sJob = c
    BY DEF RelayInv, MutexHeld, Holds, Waiting
  <2>2. sem = 1 \/ \E w \in Workers : InSession(w)
    BY <2>1 DEF RelayInv, OneSession
  <2>3. \A w \in Workers : worker[w].at \in Active => worker[w].job = c
    BY <2>1 DEF RelayInv, OneSession
  <2> QED
    BY <2>1, <2>2, <2>3 DEF InSession
<1> QED
  BY <1>1, RelaySafe, PTL

\* A command that has returned has printed all that the worker put into the
\* buffer.
THEOREM OutputShownHolds == Spec => []OutputShown
<1>1. RelayInv => OutputShown
  <2> SUFFICES ASSUME RelayInv, NEW c \in Clis, cli[c] = "idle" PROVE unshown[c] = 0
    BY DEF OutputShown
  <2>1. job[c].out = 0
    BY DEF RelayInv, JobLife, Holds
  <2> QED
    BY <2>1 DEF RelayInv, TypeOK, Printed
<1> QED
  BY <1>1, RelaySafe, PTL

\* Without stderr data the remote end has credit or is about to get some, for
\* every window of at least two bytes.
THEOREM RemoteCanSendHolds == Spec => []RemoteCanSend
<1>1. RelayInv => RemoteCanSend
  <2> SUFFICES ASSUME RelayInv, Open, peer.errs = 0
               PROVE  peer.credit > 0 \/ peer.wire # <<>> \/ peer.adj > 0
    BY DEF RemoteCanSend
  <2>1. peer.credit \in Nat /\ peer.adj \in Nat
    BY DEF RelayInv, TypeOK, Channels
  <2>2. peer.win = peer.credit + peer.adj + Len(peer.wire) + 0
    BY DEF RelayInv, Credited
  <2>3. peer.win >= 1
    <3>1. Window \div 2 >= 1
      BY RelayAssumption
    <3> QED
      BY <3>1, RelayAssumption DEF RelayInv, Credited, TypeOK, Channels
  <2>4. peer.wire = <<>> => Len(peer.wire) = 0
    OBVIOUS
  <2> QED
    BY <2>1, <2>2, <2>3, <2>4
<1> QED
  BY <1>1, RelaySafe, PTL
=============================================================================
