----------------------------- MODULE WorkerPool -----------------------------
(***************************************************************************)
(* The job engine of the wallet API: package jobs.                         *)
(*                                                                         *)
(* A job is a row of the jobs table (db) and any number of in-memory       *)
(* copies of that row: in the pool's bounded channel (queue), in the list  *)
(* the DB scheduler is feeding to it (batch), or held by a goroutine       *)
(* (proc).  UpdateJob saves a whole copy over the row, so a stale copy can *)
(* undo what another goroutine wrote.  Nothing but the age of updated_at   *)
(* tells a job that was abandoned from one that is still being executed.   *)
(*                                                                         *)
(* A job's id is the rank of its insertion: UUIDs are only compared for    *)
(* equality, and the rank also gives the created_at order.  updated_at is  *)
(* kept as the age of the row in ticks, capped above every grace period.   *)
(***************************************************************************)
EXTENDS Integers, Sequences, FiniteSets

CONSTANTS
    Workers,        \* goroutines of startWorkers
    Clients,        \* goroutines that call CreateJob and Schedule
    QueueCap,       \* capacity of jobChan
    MaxErr,         \* maxJobErrorCount
    AcceptedGrace,  \* acceptedGracePeriod, in ticks
    ReSchedGrace,   \* reSchedulableGracePeriod, in ticks
    HoldLimit,      \* ticks a goroutine may hold a job it owns (see Owns)
    RowLocking,     \* TRUE: postgres, mysql; FALSE: sqlite, no transaction
    RequestKinds,   \* kinds of job the clients submit
    Webhook,        \* a job status webhook is configured
    PollLimit,      \* datastore.DefaultLimit
    Faults,         \* which disturbances the environment may inject
    MayStop,        \* Stop may be called
    MaxJobs, MaxRequests, MaxExec, MaxFaults  \* bounds of the instance

Kinds == {"tx", "quiet", "unknown", "notice"}
States == {"INIT", "ACCEPTED", "NO_AVAILABLE_WORKERS", "ERROR",
           "COMPLETE", "FAILED"}
Terminal == {"COMPLETE", "FAILED"}
FaultKinds == {"store", "chain", "commit", "crash", "halt"}
Procs == Workers \union Clients
Nobody == "nobody"

\* Rows are locked and commits reach the database, and no goroutine keeps a job it
\* owns for as long as the accepted grace period.
Timely == RowLocking /\ HoldLimit < AcceptedGrace /\ "commit" \notin Faults

ASSUME ConstantsOK ==
    /\ Workers \intersect Clients = {} /\ Nobody \notin Workers
    /\ QueueCap \in Nat /\ MaxErr \in Nat
    /\ AcceptedGrace \in Nat /\ ReSchedGrace \in Nat /\ HoldLimit \in Nat
    /\ RowLocking \in BOOLEAN /\ Webhook \in BOOLEAN /\ MayStop \in BOOLEAN
    /\ RequestKinds \subseteq Kinds \ {"notice"}
    /\ Faults \subseteq FaultKinds
    /\ PollLimit \in Nat /\ MaxJobs \in Nat /\ MaxRequests \in Nat
    /\ MaxExec \in Nat /\ MaxFaults \in Nat

VARIABLES
    db,      \* the jobs table: a sequence of rows, row j has id j
    queue,   \* jobChan: copies of rows
    batch,   \* the copies startDBJobScheduler has still to send
    proc,    \* program counter and copy of each goroutine
    halted,  \* system settings: maintenance mode or a running pause
    phase,   \* of the pool: "running", "stopping", "closed", "panicked"
    runs,    \* history: how often each job was handed to its executor
    faults   \* disturbances injected so far

vars == <<db, queue, batch, proc, halted, phase, runs, faults>>

-----------------------------------------------------------------------------
(* Rows and copies.                                                        *)

MaxAge == 1 + IF AcceptedGrace > ReSchedGrace THEN AcceptedGrace
                                              ELSE ReSchedGrace

\* Result of a job.  Only the content a notice carries matters: which job it
\* reports on and the state it reports.
Blank == [of |-> 0, state |-> "INIT"]
Results == [of : Nat, state : States]

Jobs == [id : Nat, kind : Kinds, state : States, errs : Nat, exec : Nat,
         result : Results, age : 0..MaxAge]

NewJob(id, kind) == [id |-> id, kind |-> kind, state |-> "INIT", errs |-> 0,
                     exec |-> 0, result |-> Blank, age |-> 0]

Idle == [pc |-> "idle", job |-> NewJob(0, "tx")]
At(pc, job) == [pc |-> pc, job |-> job]

ExhaustedLate(job) == job.exec > MaxErr + 1

\* process gives up on a job that fails once more after this.
Exhausted(job) == job.exec > MaxErr

Touch(job) == [job EXCEPT !.age = 0]
Older(job) == [job EXCEPT !.age = IF @ < MaxAge THEN @ + 1 ELSE @]

\* UpdateJob: gorm's Save writes every column of the copy and sets updated_at.
Saved(job) == [db EXCEPT ![job.id] = Touch(job)]

\* Faulty variants for mutation testing: each breaks a property of some run when it
\* takes the place of the definition below it.
AcceptableAnyAge(job) == job.state \notin Terminal
AcceptableTerminal(job) == ~ (job.state = "ACCEPTED" /\ job.age < AcceptedGrace)

\* A copy's age is its age when it was read: a copy in state ACCEPTED was
\* already older than the grace period then, and only grows older.
IsAcceptable(job) ==
    /\ ~ (job.state = "ACCEPTED" /\ job.age < AcceptedGrace)
    /\ job.state \notin Terminal

ForgetsDeferred(row) ==
    \/ row.state \in {"INIT", "ACCEPTED"} /\ row.age > AcceptedGrace
    \/ row.state = "ERROR" /\ row.age > ReSchedGrace
ForgetsAccepted(row) ==
    \/ row.state = "INIT" /\ row.age > AcceptedGrace
    \/ row.state \in {"ERROR", "NO_AVAILABLE_WORKERS"} /\ row.age > ReSchedGrace

IsSchedulable(row) ==
    \/ row.state \in {"INIT", "ACCEPTED"} /\ row.age > AcceptedGrace
    \/ row.state \in {"ERROR", "NO_AVAILABLE_WORKERS"} /\ row.age > ReSchedGrace

\* The newest PollLimit schedulable rows.
SchedulableJobs ==
    LET Candidates == {j \in DOMAIN db : IsSchedulable(db[j])}
    IN {db[j] : j \in {i \in Candidates :
            Cardinality({k \in Candidates : k > i}) < PollLimit}}

\* A goroutine owns the job it executes, and the job it has inserted but not
\* yet handed to the queue.  HoldLimit says how long it may take over that.
OwningPcs == {"save", "execute", "fill", "schedule", "enqueue", "defer"}
Owns(p) == proc[p].pc \in OwningPcs

Disturb(fault) ==
    /\ fault \in Faults
    /\ faults < MaxFaults
    /\ faults' = faults + 1

\* An executor begins with the job: every one of these runs may have its effect,
\* whatever ExecCount says of them later.
Run(job) == runs' = [runs EXCEPT ![job.id] = @ + 1]

Becomes(p, state) == proc' = [proc EXCEPT ![p] = state]

-----------------------------------------------------------------------------
Init ==
    /\ db = <<>>
    /\ queue = <<>>
    /\ batch = {}
    /\ proc = [p \in Procs |-> Idle]
    /\ halted = FALSE
    /\ phase = "running"
    /\ runs = <<>>
    /\ faults = 0

-----------------------------------------------------------------------------
(* CreateJob and Schedule, run by a client or by a worker that notifies.   *)

Submit(c) ==
    /\ phase # "panicked"
    /\ proc[c].pc = "idle"
    /\ Len(db) < MaxJobs
    /\ Cardinality({j \in DOMAIN db : db[j].kind # "notice"}) < MaxRequests
    /\ \E kind \in RequestKinds :
          LET job == NewJob(Len(db) + 1, kind)
          IN /\ db' = Append(db, job)
             /\ Becomes(c, At("schedule", job))
    /\ runs' = Append(runs, 0)
    /\ UNCHANGED <<queue, batch, halted, phase, faults>>

\* Schedule: a halted system leaves the job to the DB scheduler.
CheckHalted(p) ==
    /\ phase # "panicked"
    /\ proc[p].pc = "schedule"
    /\ Becomes(p, IF halted THEN Idle ELSE At("enqueue", proc[p].job))
    /\ UNCHANGED <<db, queue, batch, halted, phase, faults, runs>>

EnqueueOverfull(p) ==
    /\ phase \in {"running", "stopping"}
    /\ proc[p].pc = "enqueue"
    /\ queue' = Append(queue, proc[p].job)
    /\ Becomes(p, Idle)
    /\ UNCHANGED <<db, batch, halted, phase, faults, runs>>

\* tryEnqueue(j, false), the send succeeds.
Enqueue(p) ==
    /\ phase \in {"running", "stopping"}
    /\ proc[p].pc = "enqueue"
    /\ Len(queue) < QueueCap
    /\ queue' = Append(queue, proc[p].job)
    /\ Becomes(p, Idle)
    /\ UNCHANGED <<db, batch, halted, phase, faults, runs>>

\* tryEnqueue(j, false) returns false: the channel is full, or stopChan closed.
Defer(p) ==
    /\ phase # "panicked"
    /\ proc[p].pc = "enqueue"
    /\ \/ phase = "running" /\ Len(queue) >= QueueCap
       \/ phase \in {"stopping", "closed"}
    /\ Becomes(p, At("defer", [proc[p].job EXCEPT !.state = "NO_AVAILABLE_WORKERS"]))
    /\ UNCHANGED <<db, queue, batch, halted, phase, faults, runs>>

SaveDeferred(p) ==
    /\ phase # "panicked"
    /\ proc[p].pc = "defer"
    /\ db' = Saved(proc[p].job)
    /\ Becomes(p, Idle)
    /\ UNCHANGED <<queue, batch, halted, phase, faults, runs>>

\* A select may choose the send on the closed channel.
SendOnClosed(p) ==
    /\ phase = "closed"
    /\ proc[p].pc = "enqueue"
    /\ phase' = "panicked"
    /\ UNCHANGED <<db, queue, batch, proc, halted, faults, runs>>

-----------------------------------------------------------------------------
(* A worker: process(job).                                                 *)

Dequeue(w) ==
    /\ phase # "panicked"
    /\ proc[w].pc = "idle"
    /\ queue # <<>>
    /\ Becomes(w, At("accept", Head(queue)))
    /\ queue' = Tail(queue)
    /\ UNCHANGED <<db, batch, halted, phase, faults, runs>>

AcceptedCopy(job) ==
    [job EXCEPT !.state = "ACCEPTED", !.exec = db[job.id].exec + 1, !.age = 0]

MayAccept(w) ==
    /\ phase # "panicked"
    /\ proc[w].pc = "accept"
    /\ IsAcceptable(proc[w].job)
    /\ IsAcceptable(db[proc[w].job.id])
    /\ db[proc[w].job.id].exec < MaxExec

\* AcceptJob in a transaction: the row is locked from the read to the save.
Accept(w) ==
    /\ RowLocking
    /\ MayAccept(w)
    /\ LET job == AcceptedCopy(proc[w].job)
       IN /\ db' = Saved(job)
          /\ Becomes(w, At("execute", job))
          /\ Run(job)
    /\ UNCHANGED <<queue, batch, halted, phase, faults>>

\* GormTransaction ignores the error of Commit: AcceptJob reports success.
AcceptUncommitted(w) ==
    /\ RowLocking
    /\ MayAccept(w)
    /\ Disturb("commit")
    /\ Becomes(w, At("execute", AcceptedCopy(proc[w].job)))
    /\ Run(proc[w].job)
    /\ UNCHANGED <<db, queue, batch, halted, phase>>

\* AcceptJob on sqlite: no transaction, so the read and the save are two steps.
AcceptRead(w) ==
    /\ ~ RowLocking
    /\ MayAccept(w)
    /\ Becomes(w, At("save", AcceptedCopy(proc[w].job)))
    /\ UNCHANGED <<db, queue, batch, halted, phase, faults, runs>>

AcceptSave(w) ==
    /\ phase # "panicked"
    /\ proc[w].pc = "save"
    /\ LET job == Touch(proc[w].job)
       IN /\ db' = Saved(job)
          /\ Becomes(w, At("execute", job))
          /\ Run(job)
    /\ UNCHANGED <<queue, batch, halted, phase, faults>>

Refuse(w) ==
    /\ phase # "panicked"
    /\ proc[w].pc = "accept"
    /\ \/ ~ IsAcceptable(proc[w].job)
       \/ ~ IsAcceptable(db[proc[w].job.id])
    /\ Becomes(w, Idle)
    /\ UNCHANGED <<db, queue, batch, halted, phase, faults, runs>>

\* No executor is registered for the job's type.
NoExecutor(w) ==
    /\ phase # "panicked"
    /\ proc[w].pc = "execute"
    /\ proc[w].job.kind = "unknown"
    /\ db' = Saved([proc[w].job EXCEPT !.state = "NO_AVAILABLE_WORKERS"])
    /\ Becomes(w, Idle)
    /\ UNCHANGED <<queue, batch, halted, phase, faults, runs>>

FinishSilentFailure(w, job) ==
    /\ phase # "panicked"
    /\ proc[w].pc = "execute"
    /\ db' = Saved(job)
    /\ Becomes(w, IF job.state = "COMPLETE" /\ job.kind = "tx" /\ Webhook
                  THEN At("notify", Touch(job)) ELSE Idle)
    /\ UNCHANGED <<queue, batch, halted, phase, faults, runs>>

\* The executor has returned; UpdateJob, then the notification of a terminal
\* job of a type whose executor asks for one.
Finish(w, job) ==
    /\ phase # "panicked"
    /\ proc[w].pc = "execute"
    /\ db' = Saved(job)
    /\ Becomes(w, IF job.state \in Terminal /\ job.kind = "tx" /\ Webhook
                  THEN At("notify", Touch(job)) ELSE Idle)
    /\ UNCHANGED <<queue, batch, halted, phase, faults, runs>>

Succeed(w) ==
    /\ proc[w].job.kind # "unknown"
    /\ Finish(w, [proc[w].job EXCEPT !.state = "COMPLETE"])

\* The webhook executor of a notice never returns a permanent failure.
Err(w) ==
    /\ proc[w].job.kind # "unknown"
    /\ proc[w].job.errs < MaxExec
    /\ \E permanent \in IF proc[w].job.kind = "notice" THEN {FALSE} ELSE BOOLEAN :
          Finish(w, [proc[w].job EXCEPT
              !.state = IF Exhausted(proc[w].job) \/ permanent THEN "FAILED" ELSE "ERROR",
              !.errs = @ + 1])

\* A chain connection error leaves the row as it is and pauses the system.
LoseChain(w) ==
    /\ phase # "panicked"
    /\ proc[w].pc = "execute"
    /\ proc[w].job.kind \in {"tx", "quiet"}
    /\ Disturb("chain")
    /\ Becomes(w, At("pause", proc[w].job))
    /\ UNCHANGED <<db, queue, batch, halted, phase, runs>>

Pause(w) ==
    /\ phase # "panicked"
    /\ proc[w].pc = "pause"
    /\ halted' = TRUE
    /\ Becomes(w, Idle)
    /\ UNCHANGED <<db, queue, batch, phase, faults, runs>>

NotifyUnfilled(w) ==
    /\ phase # "panicked"
    /\ proc[w].pc = "notify"
    /\ Len(db) < MaxJobs
    /\ db' = Append(db, NewJob(Len(db) + 1, "notice"))
    /\ Becomes(w, At("schedule", NewJob(Len(db) + 1, "notice")))
    /\ runs' = Append(runs, 0)
    /\ UNCHANGED <<queue, batch, halted, phase, faults>>

\* scheduleJobStatusNotification: the notice is inserted without its content,
\* which is saved in a second step; then it is scheduled like any job.
Notify(w) ==
    /\ phase # "panicked"
    /\ proc[w].pc = "notify"
    /\ Len(db) < MaxJobs
    /\ LET parent == proc[w].job
           notice == NewJob(Len(db) + 1, "notice")
       IN /\ db' = Append(db, notice)
          /\ Becomes(w, At("fill", [notice EXCEPT
                 !.result = [of |-> parent.id, state |-> parent.state]]))
    /\ runs' = Append(runs, 0)
    /\ UNCHANGED <<queue, batch, halted, phase, faults>>

Fill(w) ==
    /\ phase # "panicked"
    /\ proc[w].pc = "fill"
    /\ db' = Saved(proc[w].job)
    /\ Becomes(w, At("schedule", Touch(proc[w].job)))
    /\ UNCHANGED <<queue, batch, halted, phase, faults, runs>>

-----------------------------------------------------------------------------
(* startDBJobScheduler.                                                    *)

\* The settings and the list are read one after the other; a halt between the
\* two is the same as one after both, the list does not depend on it.
Poll ==
    /\ phase # "panicked"
    /\ ~ halted
    /\ batch = {}
    /\ batch' = SchedulableJobs
    /\ UNCHANGED <<db, queue, proc, halted, phase, faults, runs>>

\* The list is in descending order of created_at.
Newest == {job \in batch : \A other \in batch : other.id <= job.id}

\* tryEnqueue(&jobs[i], true) blocks until there is room.
Feed ==
    /\ phase \in {"running", "stopping"}
    /\ Len(queue) < QueueCap
    /\ \E job \in Newest :
          /\ queue' = Append(queue, job)
          /\ batch' = batch \ {job}
    /\ UNCHANGED <<db, proc, halted, phase, faults, runs>>

\* stopChan is closed: tryEnqueue gives up on the job.
Skip ==
    /\ phase \in {"stopping", "closed"}
    /\ \E job \in Newest : batch' = batch \ {job}
    /\ UNCHANGED <<db, queue, proc, halted, phase, faults, runs>>

FeedClosed ==
    /\ phase = "closed"
    /\ batch # {}
    /\ phase' = "panicked"
    /\ UNCHANGED <<db, queue, batch, proc, halted, faults, runs>>

-----------------------------------------------------------------------------
(* Time, the settings, failures of the store, crashes and shutdown.        *)

Tick ==
    /\ \A p \in Procs : Owns(p) => proc[p].job.age < HoldLimit
    /\ db' = [j \in DOMAIN db |-> Older(db[j])]
    /\ proc' = [p \in Procs |->
                  IF Owns(p) THEN At(proc[p].pc, Older(proc[p].job)) ELSE proc[p]]
    /\ UNCHANGED <<queue, batch, halted, phase, faults, runs>>

\* The operator turns maintenance mode on.
Halt ==
    /\ ~ halted
    /\ Disturb("halt")
    /\ halted' = TRUE
    /\ UNCHANGED <<db, queue, batch, proc, phase, runs>>

\* Maintenance mode is turned off, or the pause has expired.
Resume ==
    /\ halted
    /\ halted' = FALSE
    /\ UNCHANGED <<db, queue, batch, proc, phase, faults, runs>>

\* A call to the store fails: the goroutine logs it, or returns it to its
\* caller, and gives up on the job.
StoreFails(p) ==
    /\ phase # "panicked"
    /\ proc[p].pc \in {"schedule", "defer", "accept", "save", "execute",
                       "pause", "notify", "fill"}
    /\ Disturb("store")
    /\ Becomes(p, Idle)
    /\ UNCHANGED <<db, queue, batch, halted, phase, runs>>

\* The process dies and is started again: only the database survives.
Crash ==
    /\ Disturb("crash")
    /\ queue' = <<>>
    /\ batch' = {}
    /\ proc' = [p \in Procs |-> Idle]
    /\ phase' = "running"
    /\ UNCHANGED <<db, halted, runs>>

\* Stop: close(stopChan), a sleep of 100 ms, close(jobChan).
Stop ==
    /\ MayStop
    /\ \/ phase = "running" /\ phase' = "stopping"
       \/ phase = "stopping" /\ phase' = "closed"
    /\ UNCHANGED <<db, queue, batch, proc, halted, faults, runs>>

-----------------------------------------------------------------------------
ScheduleStep(p) ==
    \/ CheckHalted(p) \/ Enqueue(p) \/ Defer(p) \/ SaveDeferred(p)
    \/ SendOnClosed(p)

WorkerStep(w) ==
    \/ ScheduleStep(w)
    \/ Dequeue(w) \/ Accept(w) \/ AcceptRead(w) \/ AcceptSave(w) \/ Refuse(w)
    \/ NoExecutor(w) \/ Succeed(w) \/ Err(w) \/ Pause(w)
    \/ Notify(w) \/ Fill(w)

SchedulerStep == Poll \/ Feed \/ Skip \/ FeedClosed

Next ==
    \/ \E c \in Clients : Submit(c) \/ ScheduleStep(c)
    \/ \E w \in Workers : WorkerStep(w) \/ AcceptUncommitted(w) \/ LoseChain(w)
    \/ \E p \in Procs : StoreFails(p)
    \/ SchedulerStep
    \/ Tick \/ Halt \/ Resume \/ Crash \/ Stop

Spec == Init /\ [][Next]_vars

\* Goroutines are scheduled, time passes, executors return, and a halt ends.
\* Nothing obliges a client to submit, or the environment to disturb.
Fairness ==
    /\ \A c \in Clients : WF_vars(ScheduleStep(c))
    /\ \A w \in Workers : WF_vars(WorkerStep(w))
    /\ WF_vars(Poll) /\ WF_vars(Feed)
    /\ WF_vars(Tick)
    /\ WF_vars(Resume)

FairSpec == Spec /\ Fairness

-----------------------------------------------------------------------------
(* Properties.                                                             *)

Pcs == {"idle", "accept", "pause", "notify"} \union OwningPcs

\* Every row and every copy is a job, every copy is of a row that exists, and a
\* full channel is never overfilled.
TypeOK ==
    /\ db \in Seq(Jobs)
    /\ \A j \in DOMAIN db : db[j].id = j
    /\ queue \in Seq(Jobs) /\ Len(queue) <= QueueCap
    /\ \A i \in DOMAIN queue : queue[i].id \in DOMAIN db
    /\ batch \subseteq Jobs
    /\ \A job \in batch : job.id \in DOMAIN db
    /\ proc \in [Procs -> [pc : Pcs, job : Jobs]]
    /\ \A p \in Procs : proc[p].pc # "idle" => proc[p].job.id \in DOMAIN db
    /\ halted \in BOOLEAN
    /\ phase \in {"running", "stopping", "closed", "panicked"}
    /\ runs \in Seq(Nat) /\ Len(runs) = Len(db)
    /\ faults \in 0..MaxFaults

\* process relies on AcceptJob to give a job to one goroutine at a time: no job
\* is owned by two goroutines, even when copies of it are queued many times.
ExclusiveOwner ==
    \A p, q \in Procs :
        p # q /\ Owns(p) /\ Owns(q) => proc[p].job.id # proc[q].job.id

\* The row of an owned job is as its owner saved it: nobody else has written it,
\* and it is too young to be taken for abandoned.
OwnedRowIsCurrent ==
    \A p \in Procs : Owns(p) =>
        LET row == db[proc[p].job.id]
        IN /\ row.age = proc[p].job.age /\ row.age <= HoldLimit
           /\ row.exec = proc[p].job.exec
           /\ row.state = IF proc[p].pc = "execute" THEN "ACCEPTED" ELSE "INIT"
           /\ proc[p].pc # "defer" => row.state = proc[p].job.state

\* Until its creator has handed it over, a new job has no copy a worker could
\* accept: not in the channel, the scheduler's list or a worker's hands.
CopiedJobs == {queue[i].id : i \in DOMAIN queue} \union {job.id : job \in batch}
              \union {proc[p].job.id : p \in {q \in Procs : proc[q].pc = "accept"}}

NewJobIsUncopied ==
    \A p \in Procs : Owns(p) /\ proc[p].pc # "execute" =>
        proc[p].job.id \notin CopiedJobs

\* COMPLETE and FAILED are final: no stale copy that UpdateJob or AcceptJob
\* saves reopens the job or rewrites what it reported.
TerminalIsFinal ==
    [][\A j \in DOMAIN db : db[j].state \in Terminal =>
          db'[j] \in {db[j], Older(db[j])}]_vars

\* With row locks, and executors that end within the grace period, the executor of a
\* job is called at most MaxErr + 1 times, and once more for every disturbance:
\* neither copies of the job in the queue nor stale saves of its ExecCount make for
\* further calls.  A notice is a job: so often it is posted.  (Without row locks two
\* workers may accept a job on one increment of its ExecCount, lib.go:16.)
RunsBounded ==
    \A j \in DOMAIN db : db[j].kind # "unknown" => runs[j] <= MaxErr + 1 + faults

Reports(n, j) == db[n].kind = "notice" /\ db[n].result.of = j

\* The end of a job makes at most one notice, and of the state the job really
\* ended in.  The one notice may be posted several times: it is a job, which is run
\* again after an error, or a crash between the post and UpdateJob (RunsBounded).
OneNoticePerEnd ==
    \A n \in DOMAIN db, j \in DOMAIN db :
        Reports(n, j) =>
            /\ db[n].result.state = db[j].state
            /\ \A m \in DOMAIN db : Reports(m, j) => m = n

\* Without a disturbance no webhook is called with an empty body: the notice is
\* inserted without its content, and must not be run before Fill has saved it.
NoticeHasContent ==
    \A w \in Workers :
        /\ proc[w].pc = "execute"
        /\ proc[w].job.kind = "notice"
        /\ faults = 0
        => proc[w].job.result # Blank

\* A notice is true, is not empty, and is the only one of its job.
NoticesAreTrue == OneNoticePerEnd /\ NoticeHasContent

\* Whatever copies are lost, refused or deferred, and whatever crashes or is
\* paused, a job that has an executor is driven to COMPLETE or FAILED.
EveryJobEnds ==
    \A j \in 1..MaxJobs :
        (j <= Len(db) /\ db[j].kind # "unknown")
            ~> (j <= Len(db) /\ db[j].state \in Terminal)

\* The end of every job that asks for it is posted to the webhook, or has
\* been tried to be, as long as the store does not fail and nothing crashes.
EveryEndIsPosted ==
    \A j \in 1..MaxJobs :
        (j <= Len(db) /\ db[j].kind = "tx")
            ~> \E n \in DOMAIN db : Reports(n, j) /\ db[n].state \in Terminal

\* The pool keeps the promise of JobLedger.
Executors(j) == {w \in Workers : proc[w].pc = "execute" /\ proc[w].job.id = j}

Ledger == INSTANCE JobLedger WITH
    Runners <- Workers,
    outcome <- [j \in DOMAIN db |-> IF db[j].state \in Terminal THEN db[j].state
                                                           ELSE "open"],
    runner <- [j \in DOMAIN db |-> IF Executors(j) = {} THEN Nobody
                                    ELSE CHOOSE w \in Executors(j) : TRUE]

KeepsLedger == Ledger!Spec

(* What the documentation says, and the code does not do.                  *)

\* jobs/workerpool.go:30: the jobs rescheduled from INIT or ACCEPTED "are jobs
\* where the executor processing has been unexpectedly disrupted".
OnlyDisruptedListed ==
    [][\A job \in batch' \ batch : job.state \in {"INIT", "ACCEPTED"} =>
         \A w \in Workers : proc[w].pc = "execute" => proc[w].job.id # job.id]_vars
=============================================================================
