-------------------------- MODULE WorkerPool_proofs -------------------------
(***************************************************************************)
(* Proofs about WorkerPool, for every value of its constants: type         *)
(* correctness; when rows are locked and goroutines are timely, that a job *)
(* has one owner, that its outcome is final, that the pool implements      *)
(* JobLedger, how often a job is run and what the webhook is told.         *)
(***************************************************************************)
EXTENDS WorkerPool, SequenceTheorems, TLAPS

-----------------------------------------------------------------------------
(* Lemmas about rows and copies.                                           *)

\* A tick can make any row old enough to be taken for abandoned.
LEMMA MaxAgeType == MaxAge \in Nat /\ MaxAge > AcceptedGrace /\ MaxAge > 0
BY ConstantsOK DEF MaxAge

\* A job as CreateJob makes it is a job.
LEMMA NewJobType ==
    ASSUME NEW id \in Nat, NEW kind \in Kinds
    PROVE  /\ NewJob(id, kind) \in Jobs
           /\ NewJob(id, kind).id = id
           /\ NewJob(id, kind).state = "INIT"
           /\ NewJob(id, kind).age = 0
           /\ NewJob(id, kind).exec = 0
BY MaxAgeType DEF NewJob, Jobs, States, Results, Blank

\* Saving a copy only changes its age.
LEMMA TouchType ==
    ASSUME NEW job \in Jobs
    PROVE  /\ Touch(job) \in Jobs
           /\ Touch(job).id = job.id
           /\ Touch(job).state = job.state
           /\ Touch(job).exec = job.exec
           /\ Touch(job).age = 0
BY MaxAgeType DEF Touch, Jobs

\* Time only changes the age of a row, and never backwards.
LEMMA OlderType ==
    ASSUME NEW job \in Jobs
    PROVE  /\ Older(job) \in Jobs
           /\ Older(job).id = job.id
           /\ Older(job).state = job.state
           /\ Older(job).exec = job.exec
           /\ Older(job).age = IF job.age < MaxAge THEN job.age + 1 ELSE job.age
BY MaxAgeType DEF Older, Jobs

\* UpdateJob overwrites one row and keeps the table a table.
LEMMA SavedType ==
    ASSUME db \in Seq(Jobs), \A j \in DOMAIN db : db[j].id = j,
           NEW job \in Jobs, job.id \in DOMAIN db
    PROVE  /\ Saved(job) \in Seq(Jobs)
           /\ DOMAIN Saved(job) = DOMAIN db
           /\ \A j \in DOMAIN db : Saved(job)[j].id = j
           /\ Saved(job)[job.id] = Touch(job)
           /\ \A j \in DOMAIN db : j # job.id => Saved(job)[j] = db[j]
BY TouchType DEF Saved

\* InsertJob adds a row under a new id and leaves the others alone.
LEMMA InsertType ==
    ASSUME db \in Seq(Jobs), \A j \in DOMAIN db : db[j].id = j,
           NEW kind \in Kinds
    PROVE  LET job == NewJob(Len(db) + 1, kind)
           IN /\ job \in Jobs
              /\ job.id \notin DOMAIN db
              /\ Append(db, job) \in Seq(Jobs)
              /\ DOMAIN Append(db, job) = DOMAIN db \union {job.id}
              /\ Append(db, job)[job.id] = job
              /\ \A j \in DOMAIN db : Append(db, job)[j] = db[j]
              /\ \A j \in DOMAIN Append(db, job) : Append(db, job)[j].id = j
<1>1. Len(db) + 1 \in Nat
  OBVIOUS
<1>2. NewJob(Len(db) + 1, kind) \in Jobs /\ NewJob(Len(db) + 1, kind).id = Len(db) + 1
  BY <1>1, NewJobType
<1>. QED
  BY <1>1, <1>2

-----------------------------------------------------------------------------
(* Type correctness.                                                       *)

\* The copy a worker saves when it accepts a job is a job, under the same id.
LEMMA AcceptedCopyType ==
    ASSUME TypeOK, NEW job \in Jobs, job.id \in DOMAIN db
    PROVE  /\ AcceptedCopy(job) \in Jobs
           /\ AcceptedCopy(job).id = job.id
           /\ AcceptedCopy(job).state = "ACCEPTED"
           /\ AcceptedCopy(job).age = 0
           /\ AcceptedCopy(job).exec = db[job.id].exec + 1
<1>1. db[job.id] \in Jobs
  BY DEF TypeOK
<1>. DEFINE n == db[job.id].exec + 1
<1>2. n \in Nat
  BY <1>1 DEF Jobs
<1>3. 0 \in 0..MaxAge /\ "ACCEPTED" \in States
  BY MaxAgeType DEF States
<1>4. AcceptedCopy(job) = [job EXCEPT !.state = "ACCEPTED", !.exec = n, !.age = 0]
  BY DEF AcceptedCopy
<1>. HIDE DEF n
<1>5. AcceptedCopy(job) \in Jobs /\ AcceptedCopy(job).id = job.id
  BY <1>2, <1>3, <1>4, Zenon DEF Jobs
<1>. QED
  BY <1>2, <1>4, <1>5 DEF Jobs, n

\* A goroutine that moves on with a copy of an existing row keeps its type.
LEMMA ProcType ==
    ASSUME TypeOK, NEW p \in Procs, NEW pc \in Pcs, NEW job \in Jobs,
           pc # "idle" => job.id \in DOMAIN db', DOMAIN db \subseteq DOMAIN db',
           Becomes(p, At(pc, job))
    PROVE  /\ proc' \in [Procs -> [pc : Pcs, job : Jobs]]
           /\ \A q \in Procs : proc'[q].pc # "idle" => proc'[q].job.id \in DOMAIN db'
BY DEF TypeOK, Becomes, At

\* A goroutine that becomes idle keeps its type.
LEMMA IdleType ==
    ASSUME TypeOK, NEW p \in Procs, Becomes(p, Idle), DOMAIN db \subseteq DOMAIN db'
    PROVE  /\ proc' \in [Procs -> [pc : Pcs, job : Jobs]]
           /\ \A q \in Procs : proc'[q].pc # "idle" => proc'[q].job.id \in DOMAIN db'
<1>1. NewJob(0, "tx") \in Jobs
  BY NewJobType DEF Kinds
<1>. QED
  BY <1>1 DEF TypeOK, Becomes, Idle, Pcs

\* Saving the copy a goroutine holds keeps the table's type.
LEMMA SaveKeepsTable ==
    ASSUME TypeOK, NEW job \in Jobs, job.id \in DOMAIN db, db' = Saved(job)
    PROVE  /\ db' \in Seq(Jobs)
           /\ DOMAIN db' = DOMAIN db
           /\ \A j \in DOMAIN db' : db'[j].id = j
           /\ db'[job.id] = Touch(job)
           /\ \A j \in DOMAIN db : j # job.id => db'[j] = db[j]
BY SavedType DEF TypeOK

LEMMA PcsAndKinds ==
    /\ {"idle", "accept", "pause", "notify", "save", "execute", "fill", "schedule",
        "enqueue", "defer"} \subseteq Pcs
    /\ {"tx", "quiet", "unknown", "notice"} \subseteq Kinds
BY DEF Pcs, OwningPcs, Kinds

\* An executor's run is counted for a job of the table, a new job gets a count of its
\* own, and nothing else touches the counts.
LEMMA RunsType ==
    ASSUME TypeOK, [Next]_vars
    PROVE  runs' \in Seq(Nat) /\ Len(runs') = Len(db')
<1>a. /\ runs \in Seq(Nat) /\ Len(runs) = Len(db) /\ db \in Seq(Jobs) /\ Len(db) \in Nat
      /\ DOMAIN runs = DOMAIN db
  BY DEF TypeOK
<1>b. \A copy : db' = Saved(copy) => Len(db') = Len(db)
  BY <1>a DEF Saved
<1>c. ASSUME NEW job, job.id \in DOMAIN db, Run(job), Len(db') = Len(db)
      PROVE  runs' \in Seq(Nat) /\ Len(runs') = Len(db')
  <2>1. runs' = [runs EXCEPT ![job.id] = runs[job.id] + 1] /\ runs[job.id] \in Nat
    BY <1>a, <1>c DEF Run
  <2>. QED
    BY <1>a, <1>c, <2>1
<1>d. ASSUME NEW row, db' = Append(db, row), runs' = Append(runs, 0)
      PROVE  runs' \in Seq(Nat) /\ Len(runs') = Len(db')
  BY <1>a, <1>d
<1>e. ASSUME UNCHANGED runs, Len(db') = Len(db)
      PROVE  runs' \in Seq(Nat) /\ Len(runs') = Len(db')
  BY <1>a, <1>e
<1>1. CASE UNCHANGED vars
  BY <1>1, <1>e DEF vars
<1>2. ASSUME NEW p \in Procs, ScheduleStep(p)
      PROVE  runs' \in Seq(Nat) /\ Len(runs') = Len(db')
  <2>1. UNCHANGED runs /\ Len(db') = Len(db)
    BY <1>2, <1>b DEF ScheduleStep, CheckHalted, Enqueue, Defer, SaveDeferred, SendOnClosed
  <2>. QED
    BY <2>1, <1>e
<1>3. ASSUME NEW w \in Workers, WorkerStep(w) \/ AcceptUncommitted(w) \/ LoseChain(w)
      PROVE  runs' \in Seq(Nat) /\ Len(runs') = Len(db')
  <2>a. w \in Procs /\ (proc[w].pc # "idle" => proc[w].job.id \in DOMAIN db)
    BY DEF TypeOK, Procs
  <2>1. CASE ScheduleStep(w)
    BY <2>1, <2>a, <1>2
  <2>2. CASE Accept(w)
    <3>1. /\ Run(AcceptedCopy(proc[w].job)) /\ Len(db') = Len(db)
          /\ proc[w].job.id \in DOMAIN db
      BY <2>2, <2>a, <1>b DEF Accept, MayAccept
    <3>2. proc[w].job \in Jobs
      BY <2>a DEF TypeOK
    <3>3. AcceptedCopy(proc[w].job).id = proc[w].job.id
      BY <3>1, <3>2, AcceptedCopyType
    <3>. QED
      BY <3>1, <3>3, <1>c
  <2>3. CASE AcceptUncommitted(w)
    <3>1. Run(proc[w].job) /\ Len(db') = Len(db) /\ proc[w].job.id \in DOMAIN db
      BY <2>3, <2>a DEF AcceptUncommitted, MayAccept
    <3>. QED
      BY <3>1, <1>c
  <2>4. CASE AcceptSave(w)
    <3>1. /\ Run(Touch(proc[w].job)) /\ Len(db') = Len(db)
          /\ proc[w].job.id \in DOMAIN db /\ proc[w].job \in Jobs
      BY <2>4, <2>a, <1>b DEF AcceptSave, TypeOK
    <3>2. Touch(proc[w].job).id = proc[w].job.id
      BY <3>1, TouchType
    <3>. QED
      BY <3>1, <3>2, <1>c
  <2>5. CASE Notify(w)
    BY <2>5, <1>d DEF Notify
  <2>6. CASE Dequeue(w) \/ AcceptRead(w) \/ Refuse(w) \/ Pause(w) \/ LoseChain(w)
             \/ NoExecutor(w) \/ Fill(w)
    <3>1. UNCHANGED runs /\ Len(db') = Len(db)
      BY <2>6, <1>b DEF Dequeue, AcceptRead, Refuse, Pause, LoseChain, NoExecutor, Fill
    <3>. QED
      BY <3>1, <1>e
  <2>7. CASE Succeed(w) \/ Err(w)
    <3>1. UNCHANGED runs /\ \E copy : db' = Saved(copy)
      BY <2>7 DEF Succeed, Err, Finish
    <3>. QED
      BY <3>1, <1>b, <1>e
  <2>. QED
    BY <1>3, <2>1, <2>2, <2>3, <2>4, <2>5, <2>6, <2>7 DEF WorkerStep
<1>4. CASE SchedulerStep \/ Halt \/ Resume \/ Crash \/ Stop \/ (\E p \in Procs : StoreFails(p))
  <2>1. UNCHANGED <<db, runs>>
    BY <1>4 DEF SchedulerStep, Poll, Feed, Skip, FeedClosed, Halt, Resume, Crash, Stop,
                StoreFails
  <2>. QED
    BY <2>1, <1>e
<1>5. CASE Tick
  <2>1. UNCHANGED runs /\ Len(db') = Len(db)
    BY <1>5, <1>a DEF Tick
  <2>. QED
    BY <2>1, <1>e
<1>6. ASSUME NEW c \in Clients, Submit(c)
      PROVE  runs' \in Seq(Nat) /\ Len(runs') = Len(db')
  BY <1>6, <1>d DEF Submit
<1>. QED
  BY <1>1, <1>2, <1>3, <1>4, <1>5, <1>6 DEF Next, Procs

\* TypeOK without its clauses on what a goroutine's step changes.
LEMMA RestOfType ==
    ASSUME TypeOK, runs' \in Seq(Nat), Len(runs') = Len(db'), UNCHANGED <<queue, batch, halted>>,
           phase' \in {"running", "stopping", "closed", "panicked"},
           faults' \in 0..MaxFaults,
           db' \in Seq(Jobs), DOMAIN db \subseteq DOMAIN db',
           \A j \in DOMAIN db' : db'[j].id = j,
           proc' \in [Procs -> [pc : Pcs, job : Jobs]],
           \A q \in Procs : proc'[q].pc # "idle" => proc'[q].job.id \in DOMAIN db'
    PROVE  TypeOK'
BY DEF TypeOK

LEMMA DisturbType ==
    ASSUME TypeOK, NEW fault, Disturb(fault)
    PROVE  faults' \in 0..MaxFaults
BY ConstantsOK DEF TypeOK, Disturb

LEMMA ScheduleType ==
    ASSUME TypeOK, NEW p \in Procs, ScheduleStep(p),
           runs' \in Seq(Nat), Len(runs') = Len(db')
    PROVE  TypeOK'
<1>. DEFINE job == proc[p].job
<1>a. job \in Jobs /\ proc[p].pc \in Pcs
  BY DEF TypeOK
<1>1. CASE CheckHalted(p)
  <2>1. UNCHANGED db /\ job.id \in DOMAIN db
    BY <1>1 DEF CheckHalted, TypeOK
  <2>2. Becomes(p, Idle) \/ Becomes(p, At("enqueue", job))
    BY <1>1 DEF CheckHalted
  <2>3. /\ proc' \in [Procs -> [pc : Pcs, job : Jobs]]
        /\ \A q \in Procs : proc'[q].pc # "idle" => proc'[q].job.id \in DOMAIN db'
    BY <1>a, <2>1, <2>2, IdleType, ProcType, PcsAndKinds
  <2>. QED
    BY <1>1, <2>1, <2>3, RestOfType DEF CheckHalted, TypeOK
<1>2. CASE Enqueue(p)
  <2>1. UNCHANGED db /\ job.id \in DOMAIN db /\ Becomes(p, Idle)
    BY <1>2 DEF Enqueue, TypeOK
  <2>2. /\ proc' \in [Procs -> [pc : Pcs, job : Jobs]]
        /\ \A q \in Procs : proc'[q].pc # "idle" => proc'[q].job.id \in DOMAIN db'
    BY <2>1, IdleType
  <2>3. /\ queue' \in Seq(Jobs) /\ Len(queue') <= QueueCap
        /\ \A i \in DOMAIN queue' : queue'[i].id \in DOMAIN db
    <3>1. queue \in Seq(Jobs) /\ queue' = Append(queue, job) /\ Len(queue) < QueueCap
      BY <1>2 DEF Enqueue, TypeOK
    <3>2. \A i \in DOMAIN queue : queue[i].id \in DOMAIN db
      BY DEF TypeOK
    <3>. QED
      BY <1>a, <2>1, <3>1, <3>2, ConstantsOK
  <2>. QED
    BY <1>2, <2>1, <2>2, <2>3 DEF Enqueue, TypeOK
<1>3. CASE Defer(p)
  <2>1. UNCHANGED db /\ job.id \in DOMAIN db
    BY <1>3 DEF Defer, TypeOK
  <2>. DEFINE deferred == [job EXCEPT !.state = "NO_AVAILABLE_WORKERS"]
  <2>2. deferred \in Jobs /\ deferred.id = job.id
    BY <1>a DEF Jobs, States
  <2>3. Becomes(p, At("defer", deferred))
    BY <1>3 DEF Defer
  <2>. HIDE DEF deferred
  <2>4. /\ proc' \in [Procs -> [pc : Pcs, job : Jobs]]
        /\ \A q \in Procs : proc'[q].pc # "idle" => proc'[q].job.id \in DOMAIN db'
    BY <2>1, <2>2, <2>3, ProcType, PcsAndKinds
  <2>. QED
    BY <1>3, <2>1, <2>4, RestOfType DEF Defer, TypeOK
<1>4. CASE SaveDeferred(p)
  <2>1. job.id \in DOMAIN db /\ db' = Saved(job) /\ Becomes(p, Idle)
    BY <1>4 DEF SaveDeferred, TypeOK
  <2>2. /\ db' \in Seq(Jobs) /\ DOMAIN db' = DOMAIN db
        /\ \A j \in DOMAIN db' : db'[j].id = j
    BY <1>a, <2>1, SaveKeepsTable
  <2>3. /\ proc' \in [Procs -> [pc : Pcs, job : Jobs]]
        /\ \A q \in Procs : proc'[q].pc # "idle" => proc'[q].job.id \in DOMAIN db'
    BY <2>1, <2>2, IdleType
  <2>. QED
    BY <1>4, <2>2, <2>3, RestOfType DEF SaveDeferred, TypeOK
<1>5. CASE SendOnClosed(p)
  BY <1>5 DEF SendOnClosed, TypeOK
<1>. QED
  BY <1>1, <1>2, <1>3, <1>4, <1>5 DEF ScheduleStep

LEMMA WorkerType ==
    ASSUME TypeOK, runs' \in Seq(Nat), Len(runs') = Len(db'), NEW w \in Workers,
           WorkerStep(w) \/ AcceptUncommitted(w) \/ LoseChain(w)
    PROVE  TypeOK'
<1>. DEFINE job == proc[w].job
            ProcOK == /\ proc' \in [Procs -> [pc : Pcs, job : Jobs]]
                      /\ \A q \in Procs : proc'[q].pc # "idle" =>
                             proc'[q].job.id \in DOMAIN db'
            DbOK == /\ db' \in Seq(Jobs) /\ DOMAIN db \subseteq DOMAIN db'
                    /\ \A j \in DOMAIN db' : db'[j].id = j
<1>a. job \in Jobs /\ proc[w].pc \in Pcs /\ w \in Procs
  BY DEF TypeOK, Procs
<1>b. UNCHANGED db => DbOK
  BY DEF TypeOK
<1>c. ASSUME NEW copy \in Jobs, copy.id \in DOMAIN db, db' = Saved(copy)
      PROVE  DbOK /\ DOMAIN db' = DOMAIN db
  BY <1>c, SaveKeepsTable
<1>d. ASSUME Becomes(w, Idle), DbOK
      PROVE  ProcOK
  BY <1>a, <1>d, IdleType
<1>e. ASSUME NEW pc \in Pcs, NEW copy \in Jobs, copy.id \in DOMAIN db,
             Becomes(w, At(pc, copy)), DbOK
      PROVE  ProcOK
  BY <1>a, <1>e, ProcType
<1>f. ASSUME ProcOK, DbOK, UNCHANGED <<queue, batch, halted, phase>>,
             faults' \in 0..MaxFaults
      PROVE  TypeOK'
  <2>1. phase' \in {"running", "stopping", "closed", "panicked"}
    BY <1>f DEF TypeOK
  <2>. QED
    BY <1>f, <2>1, RestOfType
<1>g. faults \in 0..MaxFaults
  BY DEF TypeOK
<1>h. proc[w].pc # "idle" => job.id \in DOMAIN db
  BY <1>a DEF TypeOK
<1>. HIDE DEF ProcOK, DbOK
<1>1. CASE ScheduleStep(w)
  BY <1>1, <1>a, ScheduleType
<1>2. CASE Dequeue(w)
  <2>1. /\ queue # <<>> /\ queue \in Seq(Jobs)
        /\ \A i \in DOMAIN queue : queue[i].id \in DOMAIN db
        /\ Len(queue) <= QueueCap
        /\ queue' = Tail(queue) /\ UNCHANGED <<db, batch, halted, phase, faults>>
        /\ Becomes(w, At("accept", Head(queue)))
    BY <1>2 DEF Dequeue, TypeOK
  <2>2. Head(queue) \in Jobs /\ Head(queue).id \in DOMAIN db
    BY <2>1
  <2>3. /\ queue' \in Seq(Jobs) /\ Len(queue') <= QueueCap
        /\ \A i \in DOMAIN queue' : queue'[i].id \in DOMAIN db
    BY <2>1, ConstantsOK
  <2>4. ProcOK
    BY <1>b, <1>e, <2>1, <2>2, PcsAndKinds
  <2>. QED
    BY <2>1, <2>3, <2>4 DEF TypeOK, ProcOK
<1>3. CASE Accept(w)
  <2>1. job.id \in DOMAIN db
    BY <1>3, <1>h DEF Accept, MayAccept
  <2>2. AcceptedCopy(job) \in Jobs /\ AcceptedCopy(job).id = job.id
    BY <1>a, <2>1, AcceptedCopyType
  <2>3. DbOK
    BY <1>3, <1>c, <2>1, <2>2 DEF Accept
  <2>4. ProcOK
    BY <1>3, <1>e, <2>1, <2>2, <2>3, PcsAndKinds DEF Accept
  <2>. QED
    BY <1>3, <1>f, <1>g, <2>3, <2>4 DEF Accept
<1>4. CASE AcceptUncommitted(w) \/ AcceptRead(w)
  <2>1. job.id \in DOMAIN db /\ UNCHANGED db
    BY <1>4, <1>h DEF AcceptUncommitted, AcceptRead, MayAccept
  <2>2. AcceptedCopy(job) \in Jobs /\ AcceptedCopy(job).id = job.id
    BY <1>a, <2>1, AcceptedCopyType
  <2>3. ProcOK
    BY <1>4, <1>b, <1>e, <2>1, <2>2, PcsAndKinds DEF AcceptUncommitted, AcceptRead
  <2>4. faults' \in 0..MaxFaults
    BY <1>4, <1>g, DisturbType DEF AcceptUncommitted, AcceptRead
  <2>. QED
    BY <1>4, <1>b, <1>f, <2>1, <2>3, <2>4 DEF AcceptUncommitted, AcceptRead
<1>5. CASE AcceptSave(w)
  <2>1. job.id \in DOMAIN db
    BY <1>5, <1>h DEF AcceptSave
  <2>2. Touch(job) \in Jobs /\ Touch(job).id = job.id
    BY <1>a, TouchType
  <2>3. DbOK
    BY <1>5, <1>c, <2>1, <2>2 DEF AcceptSave
  <2>4. ProcOK
    BY <1>5, <1>e, <2>1, <2>2, <2>3, PcsAndKinds DEF AcceptSave
  <2>. QED
    BY <1>5, <1>f, <1>g, <2>3, <2>4 DEF AcceptSave
<1>6. CASE Refuse(w) \/ Pause(w)
  <2>1. UNCHANGED db /\ Becomes(w, Idle)
    BY <1>6 DEF Refuse, Pause
  <2>2. ProcOK
    BY <1>b, <1>d, <2>1
  <2>. QED
    BY <1>6, <2>1, <2>2 DEF Refuse, Pause, TypeOK, ProcOK
<1>7. CASE NoExecutor(w)
  <2>. DEFINE copy == [job EXCEPT !.state = "NO_AVAILABLE_WORKERS"]
  <2>1. copy \in Jobs /\ copy.id = job.id
    BY <1>a DEF Jobs, States
  <2>2. job.id \in DOMAIN db /\ db' = Saved(copy)
    BY <1>7, <1>h DEF NoExecutor
  <2>. HIDE DEF copy
  <2>3. DbOK
    BY <1>c, <2>1, <2>2
  <2>4. ProcOK
    BY <1>7, <1>d, <2>3 DEF NoExecutor
  <2>. QED
    BY <1>7, <1>f, <1>g, <2>3, <2>4 DEF NoExecutor
<1>8. ASSUME NEW copy \in Jobs, copy.id = job.id, Finish(w, copy)
      PROVE  TypeOK'
  <2>1. job.id \in DOMAIN db
    BY <1>8, <1>h DEF Finish
  <2>2. DbOK
    BY <1>8, <1>c, <2>1 DEF Finish
  <2>3. Becomes(w, At("notify", Touch(copy))) \/ Becomes(w, Idle)
    BY <1>8 DEF Finish
  <2>4. Touch(copy) \in Jobs /\ Touch(copy).id = copy.id
    BY TouchType
  <2>5. ProcOK
    BY <1>8, <1>d, <1>e, <2>1, <2>2, <2>3, <2>4, PcsAndKinds
  <2>. QED
    BY <1>8, <1>f, <1>g, <2>2, <2>5 DEF Finish
<1>9. CASE Succeed(w)
  <2>. DEFINE copy == [job EXCEPT !.state = "COMPLETE"]
  <2>1. copy \in Jobs /\ copy.id = job.id
    BY <1>a DEF Jobs, States
  <2>2. Finish(w, copy)
    BY <1>9 DEF Succeed
  <2>. QED
    BY <1>8, <2>1, <2>2
<1>10. CASE Err(w)
  <2>1. PICK permanent \in BOOLEAN :
            Finish(w, [job EXCEPT
              !.state = IF Exhausted(job) \/ permanent THEN "FAILED" ELSE "ERROR",
              !.errs = @ + 1])
    BY <1>10 DEF Err
  <2>2. PICK state \in {"FAILED", "ERROR"} :
            Finish(w, [job EXCEPT !.state = state, !.errs = @ + 1])
    BY <2>1
  <2>. DEFINE n == job.errs + 1
              copy == [job EXCEPT !.state = state, !.errs = n]
  <2>a. n \in Nat /\ state \in States
    BY <1>a DEF Jobs, States
  <2>b. Finish(w, copy)
    BY <2>2
  <2>. HIDE DEF n
  <2>3. copy \in Jobs /\ copy.id = job.id
    BY <1>a, <2>a, Zenon DEF Jobs
  <2>. QED
    BY <1>8, <2>b, <2>3
<1>11. CASE LoseChain(w)
  <2>1. UNCHANGED db /\ job.id \in DOMAIN db /\ Becomes(w, At("pause", job))
    BY <1>11, <1>h DEF LoseChain
  <2>2. ProcOK
    BY <1>a, <1>b, <1>e, <2>1, PcsAndKinds
  <2>3. faults' \in 0..MaxFaults
    BY <1>11, DisturbType DEF LoseChain
  <2>. QED
    BY <1>11, <1>b, <1>f, <2>1, <2>2, <2>3 DEF LoseChain
<1>12. CASE Notify(w)
  <2>. DEFINE notice == NewJob(Len(db) + 1, "notice")
              filled == [notice EXCEPT !.result = [of |-> job.id, state |-> job.state]]
  <2>1. db \in Seq(Jobs) /\ \A j \in DOMAIN db : db[j].id = j
    BY DEF TypeOK
  <2>2. /\ notice \in Jobs /\ notice.id \in DOMAIN Append(db, notice)
        /\ Append(db, notice) \in Seq(Jobs)
        /\ DOMAIN db \subseteq DOMAIN Append(db, notice)
        /\ \A j \in DOMAIN Append(db, notice) : Append(db, notice)[j].id = j
    BY <2>1, InsertType, PcsAndKinds
  <2>3. db' = Append(db, notice) /\ Becomes(w, At("fill", filled))
    BY <1>12 DEF Notify
  <2>. HIDE DEF notice
  <2>4. filled \in Jobs /\ filled.id = notice.id
    BY <1>a, <2>2 DEF Jobs, Results
  <2>5. DbOK
    BY <2>2, <2>3 DEF DbOK
  <2>. HIDE DEF filled
  <2>6. ProcOK
    BY <1>a, <2>2, <2>3, <2>4, ProcType, PcsAndKinds DEF ProcOK
  <2>. QED
    BY <1>12, <1>f, <1>g, <2>5, <2>6 DEF Notify
<1>13. CASE Fill(w)
  <2>1. job.id \in DOMAIN db /\ db' = Saved(job)
    BY <1>13, <1>h DEF Fill
  <2>2. DbOK
    BY <1>a, <1>c, <2>1
  <2>3. Touch(job) \in Jobs /\ Touch(job).id = job.id
    BY <1>a, TouchType
  <2>4. ProcOK
    BY <1>13, <1>e, <2>1, <2>2, <2>3, PcsAndKinds DEF Fill
  <2>. QED
    BY <1>13, <1>f, <1>g, <2>2, <2>4 DEF Fill
<1>. QED
  BY <1>1, <1>2, <1>3, <1>4, <1>5, <1>6, <1>7, <1>9, <1>10, <1>11, <1>12, <1>13
  DEF WorkerStep

\* Poll reads rows of the table.
LEMMA SchedulableType ==
    ASSUME TypeOK
    PROVE  \A job \in SchedulableJobs :
              job \in Jobs /\ job.id \in DOMAIN db /\ job = db[job.id] /\ IsSchedulable(job)
<1>. SUFFICES ASSUME NEW job \in SchedulableJobs
              PROVE  job \in Jobs /\ job.id \in DOMAIN db /\ job = db[job.id]
                     /\ IsSchedulable(job)
  OBVIOUS
<1>1. PICK j \in DOMAIN db : IsSchedulable(db[j]) /\ job = db[j]
  BY Zenon DEF SchedulableJobs
<1>2. db[j] \in Jobs /\ db[j].id = j
  BY DEF TypeOK
<1>. QED
  BY <1>1, <1>2

LEMMA EnvironmentType ==
    ASSUME TypeOK, runs' \in Seq(Nat), Len(runs') = Len(db'),
           \/ SchedulerStep \/ Tick \/ Halt \/ Resume \/ Crash \/ Stop
           \/ \E c \in Clients : Submit(c)
           \/ \E p \in Procs : StoreFails(p)
    PROVE  TypeOK'
<1>1. CASE Poll
  <2>1. /\ batch' \subseteq Jobs
        /\ \A job \in batch' : job.id \in DOMAIN db
    BY <1>1, SchedulableType DEF Poll
  <2>. QED
    BY <1>1, <2>1 DEF Poll, TypeOK
<1>2. CASE Feed
  <2>1. PICK job \in batch : queue' = Append(queue, job) /\ batch' = batch \ {job}
    BY <1>2 DEF Feed, Newest
  <2>2. /\ queue \in Seq(Jobs) /\ Len(queue) < QueueCap
        /\ \A i \in DOMAIN queue : queue[i].id \in DOMAIN db
        /\ job \in Jobs /\ job.id \in DOMAIN db
        /\ UNCHANGED <<db, proc, halted, phase, faults>>
    BY <1>2 DEF Feed, TypeOK
  <2>3. /\ queue' \in Seq(Jobs) /\ Len(queue') <= QueueCap
        /\ \A i \in DOMAIN queue' : queue'[i].id \in DOMAIN db
    BY <2>1, <2>2, ConstantsOK
  <2>. QED
    BY <2>1, <2>2, <2>3 DEF TypeOK
<1>3. CASE Skip \/ FeedClosed \/ Halt \/ Resume \/ Stop
  <2>1. faults' \in 0..MaxFaults
    BY <1>3, DisturbType DEF Skip, FeedClosed, Halt, Resume, Stop, TypeOK
  <2>. QED
    BY <1>3, <2>1 DEF Skip, FeedClosed, Halt, Resume, Stop, TypeOK
<1>4. CASE Tick
  <2>1. db' \in Seq(Jobs) /\ DOMAIN db' = DOMAIN db /\ \A j \in DOMAIN db' : db'[j].id = j
    <3>1. /\ db \in Seq(Jobs) /\ db' = [j \in DOMAIN db |-> Older(db[j])]
          /\ \A j \in DOMAIN db : db[j] \in Jobs /\ db[j].id = j
      BY <1>4 DEF Tick, TypeOK
    <3>. QED
      BY <3>1, OlderType
  <2>2. \A p \in Procs : Older(proc[p].job) \in Jobs /\ Older(proc[p].job).id = proc[p].job.id
    BY OlderType DEF TypeOK
  <2>3. /\ proc' \in [Procs -> [pc : Pcs, job : Jobs]]
        /\ \A q \in Procs : proc'[q].pc # "idle" => proc'[q].job.id \in DOMAIN db'
    BY <1>4, <2>1, <2>2 DEF Tick, At, TypeOK
  <2>. QED
    BY <1>4, <2>1, <2>3, RestOfType DEF Tick, TypeOK
<1>5. CASE Crash
  <2>1. Idle \in [pc : Pcs, job : Jobs]
    BY NewJobType, PcsAndKinds DEF Idle
  <2>2. faults' \in 0..MaxFaults
    BY <1>5, DisturbType DEF Crash
  <2>3. queue' \in Seq(Jobs) /\ Len(queue') = 0 /\ DOMAIN queue' = {}
    BY <1>5 DEF Crash
  <2>. QED
    BY <1>5, <2>1, <2>2, <2>3, ConstantsOK DEF Crash, TypeOK, Idle
<1>6. ASSUME NEW c \in Clients, Submit(c)
      PROVE  TypeOK'
  <2>1. PICK kind \in Kinds : /\ db' = Append(db, NewJob(Len(db) + 1, kind))
                              /\ Becomes(c, At("schedule", NewJob(Len(db) + 1, kind)))
    BY <1>6, ConstantsOK DEF Submit
  <2>. DEFINE job == NewJob(Len(db) + 1, kind)
  <2>2. /\ db' \in Seq(Jobs) /\ DOMAIN db \subseteq DOMAIN db'
        /\ \A j \in DOMAIN db' : db'[j].id = j
        /\ job \in Jobs /\ job.id \in DOMAIN db'
    BY <2>1, InsertType DEF TypeOK
  <2>. HIDE DEF job
  <2>3. /\ proc' \in [Procs -> [pc : Pcs, job : Jobs]]
        /\ \A q \in Procs : proc'[q].pc # "idle" => proc'[q].job.id \in DOMAIN db'
    BY <2>1, <2>2, ProcType, PcsAndKinds DEF job, Procs
  <2>. QED
    BY <1>6, <2>2, <2>3, RestOfType DEF Submit, TypeOK
<1>7. ASSUME NEW p \in Procs, StoreFails(p)
      PROVE  TypeOK'
  <2>1. /\ Becomes(p, Idle) /\ UNCHANGED <<db, queue, batch, halted, phase>>
        /\ faults' \in 0..MaxFaults
    BY <1>7, DisturbType DEF StoreFails
  <2>2. /\ proc' \in [Procs -> [pc : Pcs, job : Jobs]]
        /\ \A q \in Procs : proc'[q].pc # "idle" => proc'[q].job.id \in DOMAIN db'
    BY <2>1, IdleType
  <2>. QED
    BY <2>1, <2>2, RestOfType DEF TypeOK
<1>. QED
  BY <1>1, <1>2, <1>3, <1>4, <1>5, <1>6, <1>7 DEF SchedulerStep

\* In every reachable state rows and copies are jobs, every copy is of a row
\* that exists, and jobChan holds at most its capacity.
THEOREM TypeCorrect == Spec => []TypeOK
<1>1. Init => TypeOK
  <2>. SUFFICES ASSUME Init PROVE TypeOK
    OBVIOUS
  <2>1. Idle \in [pc : Pcs, job : Jobs] /\ Idle.pc = "idle"
    BY NewJobType, PcsAndKinds DEF Idle
  <2>2. <<>> \in Seq(Jobs) /\ Len(<<>>) = 0 /\ DOMAIN <<>> = {}
    OBVIOUS
  <2>3. 0 \in 0..MaxFaults /\ 0 <= QueueCap
    BY ConstantsOK
  <2>4. runs \in Seq(Nat) /\ Len(runs) = Len(db)
    <3>1. runs = <<>> /\ db = <<>>
      BY DEF Init
    <3>2. <<>> \in Seq(Nat)
      OBVIOUS
    <3>. QED
      BY <3>1, <3>2
  <2>. QED
    BY <2>1, <2>2, <2>3, <2>4 DEF Init, TypeOK
<1>2. TypeOK /\ [Next]_vars => TypeOK'
  <2>. SUFFICES ASSUME TypeOK, [Next]_vars PROVE TypeOK'
    OBVIOUS
  <2>1. CASE UNCHANGED vars
    BY <2>1 DEF vars, TypeOK
  <2>2. CASE Next
    BY <2>2, RunsType, ScheduleType, WorkerType, EnvironmentType DEF Next, Procs
  <2>. QED
    BY <2>1, <2>2
<1>. QED
  BY <1>1, <1>2, PTL DEF Spec

-----------------------------------------------------------------------------
(* One owner per job, final outcomes, growing execution counts.            *)
(*                                                                         *)
(* ExclusiveOwner is not inductive: what keeps a second worker from        *)
(* accepting an owned job is what its row says.  While a worker executes   *)
(* it, the row is ACCEPTED and younger than the grace period; until its    *)
(* creator has handed it over, no copy exists that could be accepted.      *)

\* With row locks AcceptJob has no state between its read and its save.
NeverHalfAccepted == \A p \in Procs : proc[p].pc # "save"

IInv == TypeOK /\ ExclusiveOwner /\ OwnedRowIsCurrent /\ NewJobIsUncopied
        /\ NeverHalfAccepted

\* What the invariant says of the row of one owner.
RowOf(p) == db[proc[p].job.id]

OwnedRow(p) ==
    /\ RowOf(p).age = proc[p].job.age /\ RowOf(p).age <= HoldLimit
    /\ RowOf(p).exec = proc[p].job.exec
    /\ RowOf(p).state = IF proc[p].pc = "execute" THEN "ACCEPTED" ELSE "INIT"
    /\ proc[p].pc # "defer" => RowOf(p).state = proc[p].job.state

LEMMA OwnedRowIff == OwnedRowIsCurrent <=> \A p \in Procs : Owns(p) => OwnedRow(p)
BY DEF OwnedRowIsCurrent, OwnedRow, RowOf

\* A step of one goroutine preserves the invariant if the job it owns
\* afterwards is its own, current and, if new, uncopied, and if it touches
\* neither the row nor the copies of anyone else's job.
LEMMA OneProcStep ==
    ASSUME IInv, TypeOK', NEW p \in Procs,
           \A q \in Procs \ {p} : proc'[q] = proc[q],
           Owns(p)' => /\ \A q \in Procs \ {p} :
                              Owns(q) => proc'[p].job.id # proc[q].job.id
                       /\ OwnedRow(p)'
                       /\ proc'[p].pc # "save"
                       /\ proc'[p].pc # "execute" => proc'[p].job.id \notin CopiedJobs',
           \A q \in Procs \ {p} : Owns(q) =>
              /\ db'[proc[q].job.id] = db[proc[q].job.id]
              /\ proc[q].pc # "execute" => proc[q].job.id \notin CopiedJobs'
    PROVE  IInv'
<1>1. \A q \in Procs \ {p} : Owns(q)' <=> Owns(q)
  BY DEF Owns
<1>2. ExclusiveOwner'
  BY <1>1 DEF ExclusiveOwner, IInv
<1>3. \A q \in Procs : Owns(q)' => OwnedRow(q)'
  BY <1>1, OwnedRowIff DEF IInv, OwnedRow, RowOf
<1>4. OwnedRowIsCurrent'
  BY <1>3 DEF OwnedRowIsCurrent, OwnedRow, RowOf
<1>5. NewJobIsUncopied'
  BY <1>1 DEF NewJobIsUncopied, IInv
<1>6. NeverHalfAccepted'
  BY DEF NeverHalfAccepted, IInv, Owns, OwningPcs
<1>. QED
  BY <1>2, <1>4, <1>5, <1>6 DEF IInv

\* A step that moves no goroutine, row or copy.
LEMMA Unmoved ==
    ASSUME IInv, TypeOK', UNCHANGED <<db, queue, batch, proc>>
    PROVE  IInv'
<1>1. (\A p \in Procs : Owns(p)' <=> Owns(p)) /\ CopiedJobs' = CopiedJobs
  BY DEF Owns, CopiedJobs
<1>2. ExclusiveOwner' /\ NeverHalfAccepted'
  BY <1>1 DEF IInv, ExclusiveOwner, NeverHalfAccepted
<1>3. OwnedRowIsCurrent'
  BY <1>1 DEF IInv, OwnedRowIsCurrent
<1>4. NewJobIsUncopied'
  BY <1>1 DEF IInv, NewJobIsUncopied
<1>. QED
  BY <1>2, <1>3, <1>4 DEF IInv

\* The copies that could be accepted: a goroutine that does not go to accept
\* adds none.
LEMMA CopiesShrink ==
    ASSUME NEW p \in Procs, \A q \in Procs \ {p} : proc'[q] = proc[q],
           proc'[p].pc # "accept", UNCHANGED <<queue, batch>>
    PROVE  CopiedJobs' \subseteq CopiedJobs
BY DEF CopiedJobs

\* A goroutine that lets go of its job, or had none, and saves at most the row
\* of the job it owned.
LEMMA Release ==
    ASSUME IInv, TypeOK', NEW p \in Procs, NEW s, Becomes(p, s),
           s.pc \notin OwningPcs, s.pc # "accept", UNCHANGED <<queue, batch>>,
           \/ UNCHANGED db
           \/ /\ Owns(p)
              /\ \A j \in DOMAIN db : j # proc[p].job.id => db'[j] = db[j]
    PROVE  IInv'
<1>1. proc'[p] = s /\ \A q \in Procs \ {p} : proc'[q] = proc[q]
  BY DEF IInv, TypeOK, Becomes
<1>2. CopiedJobs' \subseteq CopiedJobs
  BY <1>1, CopiesShrink
<1>3. ~ Owns(p)'
  BY <1>1 DEF Owns
<1>4. \A q \in Procs \ {p} : Owns(q) =>
         /\ db'[proc[q].job.id] = db[proc[q].job.id]
         /\ proc[q].pc # "execute" => proc[q].job.id \notin CopiedJobs'
  <2>1. \A q \in Procs : Owns(q) => proc[q].job.id \in DOMAIN db
    BY DEF IInv, TypeOK, Owns, OwningPcs
  <2>2. \A q \in Procs \ {p} : Owns(q) /\ Owns(p) => proc[q].job.id # proc[p].job.id
    BY DEF IInv, ExclusiveOwner
  <2>. QED
    BY <1>2, <2>1, <2>2 DEF IInv, NewJobIsUncopied
<1>. QED
  BY <1>1, <1>3, <1>4, OneProcStep

\* A goroutine that keeps its new job for another step of creating it.
LEMMA Keep ==
    ASSUME IInv, TypeOK', NEW p \in Procs, NEW pc, NEW job, Becomes(p, At(pc, job)),
           Owns(p), proc[p].pc # "execute", job.id = proc[p].job.id,
           pc \in OwningPcs \ {"execute", "save"}, UNCHANGED <<queue, batch>>,
           \A j \in DOMAIN db : j # proc[p].job.id => db'[j] = db[j],
           OwnedRow(p)'
    PROVE  IInv'
<1>1. /\ proc'[p] = At(pc, job) /\ \A q \in Procs \ {p} : proc'[q] = proc[q]
      /\ proc'[p].pc = pc /\ proc'[p].job = job
  BY DEF IInv, TypeOK, Becomes, At
<1>2. CopiedJobs' \subseteq CopiedJobs
  BY <1>1, CopiesShrink DEF OwningPcs
<1>3. \A q \in Procs : Owns(q) => proc[q].job.id \in DOMAIN db
  BY DEF IInv, TypeOK, Owns, OwningPcs
<1>4. \A q \in Procs \ {p} : Owns(q) => proc[q].job.id # proc[p].job.id
  BY DEF IInv, ExclusiveOwner
<1>5. \A q \in Procs : Owns(q) /\ proc[q].pc # "execute" =>
         proc[q].job.id \notin CopiedJobs'
  BY <1>2 DEF IInv, NewJobIsUncopied
<1>. QED
  BY <1>1, <1>3, <1>4, <1>5, OneProcStep

\* A goroutine that inserts a row owns it, and nobody has a copy of it.
LEMMA Create ==
    ASSUME IInv, TypeOK', NEW p \in Procs, NEW pc \in {"schedule", "fill"},
           NEW kind \in Kinds, NEW job,
           db' = Append(db, NewJob(Len(db) + 1, kind)),
           Becomes(p, At(pc, job)), job.id = Len(db) + 1, job.age = 0, job.exec = 0,
           job.state = "INIT", UNCHANGED <<queue, batch>>
    PROVE  IInv'
<1>. DEFINE new == NewJob(Len(db) + 1, kind)
<1>1. /\ new.id \notin DOMAIN db /\ db'[new.id] = new
      /\ \A j \in DOMAIN db : db'[j] = db[j]
      /\ new.id = Len(db) + 1 /\ new.state = "INIT" /\ new.age = 0 /\ new.exec = 0
  <2>1. db \in Seq(Jobs) /\ \A j \in DOMAIN db : db[j].id = j
    BY DEF IInv, TypeOK
  <2>2. Len(db) + 1 \in Nat
    BY <2>1
  <2>. QED
    BY <2>1, <2>2, InsertType, NewJobType
<1>2. /\ proc'[p] = At(pc, job) /\ \A q \in Procs \ {p} : proc'[q] = proc[q]
      /\ proc'[p].pc = pc /\ proc'[p].job = job
  BY DEF IInv, TypeOK, Becomes, At
<1>. HIDE DEF new
<1>3. CopiedJobs' \subseteq CopiedJobs
  BY <1>2, CopiesShrink
<1>4. CopiedJobs \subseteq DOMAIN db
  BY DEF IInv, TypeOK, CopiedJobs
<1>5. \A q \in Procs : Owns(q) => proc[q].job.id \in DOMAIN db
  BY DEF IInv, TypeOK, Owns, OwningPcs
<1>6. OwnedRow(p)'
  BY <1>1, <1>2, ConstantsOK DEF OwnedRow, RowOf
<1>7. \A q \in Procs : Owns(q) /\ proc[q].pc # "execute" =>
         proc[q].job.id \notin CopiedJobs'
  BY <1>3 DEF IInv, NewJobIsUncopied
<1>. QED
  BY <1>1, <1>2, <1>3, <1>4, <1>5, <1>6, <1>7, OneProcStep

\* The steps of CreateJob and Schedule preserve the invariant.
LEMMA ScheduleInv ==
    ASSUME IInv, TypeOK', NEW p \in Procs, ScheduleStep(p)
    PROVE  IInv'
<1>. DEFINE job == proc[p].job
<1>a. job \in Jobs /\ (proc[p].pc # "idle" => job.id \in DOMAIN db) /\ db \in Seq(Jobs)
  BY DEF IInv, TypeOK
<1>b. Owns(p) => OwnedRow(p)
  BY OwnedRowIff DEF IInv
<1>1. CASE CheckHalted(p)
  <2>1. CASE Becomes(p, Idle)
    BY <1>1, <2>1, Release DEF CheckHalted, Idle, OwningPcs
  <2>2. CASE Becomes(p, At("enqueue", job))
    <3>1. /\ proc'[p].pc = "enqueue" /\ proc'[p].job = job
          /\ Owns(p) /\ proc[p].pc = "schedule" /\ UNCHANGED <<db, queue, batch>>
      BY <1>1, <2>2 DEF CheckHalted, Becomes, At, Owns, OwningPcs, IInv, TypeOK
    <3>2. OwnedRow(p)'
      BY <1>b, <3>1 DEF OwnedRow, RowOf
    <3>. QED
      BY <2>2, <3>1, <3>2, Keep DEF OwningPcs
  <2>. QED
    BY <1>1, <2>1, <2>2 DEF CheckHalted
<1>2. CASE Enqueue(p)
  <2>1. /\ queue' = Append(queue, job) /\ queue \in Seq(Jobs) /\ UNCHANGED <<db, batch>>
        /\ proc'[p] = Idle /\ \A q \in Procs \ {p} : proc'[q] = proc[q]
        /\ Owns(p)
    BY <1>2 DEF Enqueue, Becomes, IInv, TypeOK, Owns, OwningPcs
  <2>2. CopiedJobs' \subseteq CopiedJobs \union {job.id}
    <3>1. \A i \in DOMAIN queue' : queue'[i].id \in {queue[k].id : k \in DOMAIN queue} \union {job.id}
      BY <1>a, <2>1
    <3>. QED
      BY <2>1, <3>1 DEF CopiedJobs, Idle
  <2>3. \A q \in Procs \ {p} : Owns(q) => proc[q].job.id # job.id
    BY <2>1 DEF IInv, ExclusiveOwner
  <2>4. \A q \in Procs \ {p} : Owns(q) /\ proc[q].pc # "execute" =>
           proc[q].job.id \notin CopiedJobs'
    BY <2>2, <2>3 DEF IInv, NewJobIsUncopied
  <2>5. ~ Owns(p)'
    BY <2>1 DEF Owns, Idle, OwningPcs
  <2>. QED
    BY <2>1, <2>4, <2>5, OneProcStep
<1>3. CASE Defer(p)
  <2>. DEFINE deferred == [job EXCEPT !.state = "NO_AVAILABLE_WORKERS"]
  <2>1. deferred.id = job.id /\ deferred.age = job.age /\ deferred.exec = job.exec
    BY <1>a DEF Jobs
  <2>2. Becomes(p, At("defer", deferred)) /\ UNCHANGED <<db, queue, batch>>
        /\ proc[p].pc = "enqueue"
    BY <1>3 DEF Defer
  <2>. HIDE DEF deferred
  <2>3. proc'[p] = At("defer", deferred)
    BY <2>2 DEF Becomes, IInv, TypeOK
  <2>4. OwnedRow(p)'
    BY <1>b, <2>1, <2>2, <2>3 DEF OwnedRow, RowOf, At, Owns, OwningPcs
  <2>. QED
    BY <2>1, <2>2, <2>4, Keep DEF Owns, OwningPcs
<1>4. CASE SaveDeferred(p)
  <2>1. \A j \in DOMAIN db : j # job.id => db'[j] = db[j]
    BY <1>4 DEF SaveDeferred, Saved
  <2>. QED
    BY <1>4, <2>1, Release DEF SaveDeferred, Idle, Owns, OwningPcs
<1>5. CASE SendOnClosed(p)
  BY <1>5, Unmoved DEF SendOnClosed
<1>. QED
  BY <1>1, <1>2, <1>3, <1>4, <1>5 DEF ScheduleStep

\* An owned job cannot be accepted: its row is young and ACCEPTED, or it is new
\* and nobody holds a copy of it.
LEMMA OwnedIsRefused ==
    ASSUME Timely, IInv, NEW w \in Procs, MayAccept(w), NEW q \in Procs, Owns(q)
    PROVE  proc[q].job.id # proc[w].job.id
<1>. SUFFICES ASSUME proc[q].job.id = proc[w].job.id PROVE FALSE
  OBVIOUS
<1>1. CASE proc[q].pc = "execute"
  <2>1. RowOf(w).state = "ACCEPTED" /\ RowOf(w).age <= HoldLimit
    BY <1>1, OwnedRowIff DEF IInv, OwnedRow, RowOf
  <2>2. RowOf(w).age \in Nat
    <3>1. proc[w].job.id \in DOMAIN db
      BY DEF IInv, TypeOK, MayAccept
    <3>2. RowOf(w) \in Jobs
      BY <3>1 DEF IInv, TypeOK, RowOf
    <3>. QED
      BY <3>2, MaxAgeType DEF Jobs
  <2>. QED
    BY <2>1, <2>2, ConstantsOK DEF MayAccept, IsAcceptable, Timely, RowOf
<1>2. CASE proc[q].pc # "execute"
  <2>1. proc[w].job.id \in CopiedJobs
    BY DEF MayAccept, CopiedJobs
  <2>. QED
    BY <1>2, <2>1 DEF IInv, NewJobIsUncopied
<1>. QED
  BY <1>1, <1>2

\* A worker's steps preserve the invariant.
LEMMA WorkerInv ==
    ASSUME Timely, IInv, TypeOK', NEW w \in Workers,
           WorkerStep(w) \/ AcceptUncommitted(w) \/ LoseChain(w)
    PROVE  IInv'
<1>. DEFINE job == proc[w].job
<1>a. /\ w \in Procs /\ job \in Jobs /\ db \in Seq(Jobs)
      /\ proc[w].pc # "idle" => job.id \in DOMAIN db
  BY DEF Procs, IInv, TypeOK
<1>b. Owns(w) => OwnedRow(w)
  BY <1>a, OwnedRowIff DEF IInv
<1>1. CASE ScheduleStep(w)
  BY <1>1, <1>a, ScheduleInv
<1>2. CASE Dequeue(w)
  <2>1. /\ queue # <<>> /\ queue \in Seq(Jobs) /\ queue' = Tail(queue)
        /\ UNCHANGED <<db, batch>>
        /\ proc'[w] = At("accept", Head(queue))
        /\ \A q \in Procs \ {w} : proc'[q] = proc[q]
    BY <1>2, <1>a DEF Dequeue, Becomes, IInv, TypeOK
  <2>2. /\ Head(queue).id \in {queue[k].id : k \in DOMAIN queue}
        /\ \A i \in DOMAIN queue' : queue'[i].id \in {queue[k].id : k \in DOMAIN queue}
    BY <2>1
  <2>3. CopiedJobs' \subseteq CopiedJobs
    BY <2>1, <2>2 DEF CopiedJobs, At
  <2>4. \A q \in Procs : Owns(q) /\ proc[q].pc # "execute" => proc[q].job.id \notin CopiedJobs'
    BY <2>3 DEF IInv, NewJobIsUncopied
  <2>5. ~ Owns(w)'
    BY <2>1 DEF Owns, At, OwningPcs
  <2>. QED
    BY <1>a, <2>1, <2>4, <2>5, OneProcStep
<1>3. CASE Accept(w)
  <2>. DEFINE mine == AcceptedCopy(job)
  <2>1. /\ MayAccept(w) /\ db' = Saved(mine) /\ UNCHANGED <<queue, batch>>
        /\ Becomes(w, At("execute", mine)) /\ job.id \in DOMAIN db
    BY <1>3, <1>a DEF Accept, MayAccept
  <2>2. mine \in Jobs /\ mine.id = job.id /\ mine.state = "ACCEPTED" /\ mine.age = 0
    BY <1>a, <2>1, AcceptedCopyType DEF IInv
  <2>. HIDE DEF mine
  <2>3. /\ proc'[w] = At("execute", mine) /\ proc'[w].pc = "execute" /\ proc'[w].job = mine
        /\ \A q \in Procs \ {w} : proc'[q] = proc[q]
    BY <1>a, <2>1 DEF Becomes, At, IInv, TypeOK
  <2>4. /\ db'[job.id] = Touch(mine)
        /\ \A j \in DOMAIN db : j # job.id => db'[j] = db[j]
    BY <2>1, <2>2, SaveKeepsTable DEF IInv
  <2>5. OwnedRow(w)'
    BY <2>2, <2>3, <2>4, TouchType, ConstantsOK DEF OwnedRow, RowOf
  <2>6. \A q \in Procs : Owns(q) => proc[q].job.id # job.id /\ proc[q].job.id \in DOMAIN db
    BY <1>a, <2>1, OwnedIsRefused DEF IInv, TypeOK, Owns, OwningPcs
  <2>7. CopiedJobs' \subseteq CopiedJobs
    BY <1>a, <2>1, <2>3, CopiesShrink
  <2>8. \A q \in Procs : Owns(q) /\ proc[q].pc # "execute" => proc[q].job.id \notin CopiedJobs'
    BY <2>7 DEF IInv, NewJobIsUncopied
  <2>. QED
    BY <1>a, <2>2, <2>3, <2>4, <2>5, <2>6, <2>8, OneProcStep
<1>4. CASE AcceptUncommitted(w) \/ AcceptRead(w)
  BY <1>4 DEF AcceptUncommitted, AcceptRead, Timely, Disturb
<1>5. CASE AcceptSave(w)
  BY <1>5, <1>a DEF AcceptSave, IInv, NeverHalfAccepted
<1>6. CASE Refuse(w) \/ Pause(w)
  BY <1>6, <1>a, Release DEF Refuse, Pause, Idle, OwningPcs
<1>7. CASE NoExecutor(w)
  <2>. DEFINE copy == [job EXCEPT !.state = "NO_AVAILABLE_WORKERS"]
  <2>1. copy.id = job.id
    BY <1>a DEF Jobs
  <2>2. db' = Saved(copy) /\ Owns(w) /\ Becomes(w, Idle) /\ UNCHANGED <<queue, batch>>
    BY <1>7 DEF NoExecutor, Owns, OwningPcs
  <2>. HIDE DEF copy
  <2>3. \A j \in DOMAIN db : j # job.id => db'[j] = db[j]
    BY <2>1, <2>2 DEF Saved
  <2>. QED
    BY <1>a, <2>2, <2>3, Release DEF Idle, OwningPcs
<1>8. ASSUME NEW copy, copy.id = job.id, Finish(w, copy)
      PROVE  IInv'
  <2>1. /\ db' = Saved(copy) /\ Owns(w) /\ UNCHANGED <<queue, batch>>
        /\ Becomes(w, At("notify", Touch(copy))) \/ Becomes(w, Idle)
    BY <1>8 DEF Finish, Owns, OwningPcs
  <2>2. \A j \in DOMAIN db : j # job.id => db'[j] = db[j]
    BY <1>8, <2>1 DEF Saved
  <2>. QED
    BY <1>a, <2>1, <2>2, Release DEF Idle, At, OwningPcs
<1>9. CASE Succeed(w)
  BY <1>9, <1>8, <1>a DEF Succeed, Jobs
<1>10. CASE Err(w)
  <2>1. PICK state : Finish(w, [job EXCEPT !.state = state, !.errs = @ + 1])
    BY <1>10 DEF Err
  <2>2. [job EXCEPT !.state = state, !.errs = @ + 1].id = job.id
    BY <1>a DEF Jobs
  <2>. QED
    BY <1>8, <2>1, <2>2
<1>11. CASE LoseChain(w)
  BY <1>11, <1>a, Release DEF LoseChain, At, Owns, OwningPcs
<1>12. CASE Notify(w)
  <2>. DEFINE new == NewJob(Len(db) + 1, "notice")
              filled == [new EXCEPT !.result = [of |-> job.id, state |-> job.state]]
  <2>1. db' = Append(db, new) /\ Becomes(w, At("fill", filled)) /\ UNCHANGED <<queue, batch>>
    BY <1>12 DEF Notify
  <2>2. filled.id = Len(db) + 1 /\ filled.age = 0 /\ filled.exec = 0 /\ filled.state = "INIT"
    BY DEF NewJob
  <2>. HIDE DEF filled
  <2>. QED
    BY <1>a, <2>1, <2>2, Create, PcsAndKinds
<1>13. CASE Fill(w)
  <2>1. /\ db' = Saved(job) /\ Becomes(w, At("schedule", Touch(job)))
        /\ UNCHANGED <<queue, batch>> /\ Owns(w) /\ proc[w].pc = "fill"
        /\ job.id \in DOMAIN db
    BY <1>13, <1>a DEF Fill, Owns, OwningPcs
  <2>2. /\ db'[job.id] = Touch(job)
        /\ \A j \in DOMAIN db : j # job.id => db'[j] = db[j]
    BY <1>a, <2>1, SaveKeepsTable DEF IInv
  <2>3. proc'[w] = At("schedule", Touch(job))
    BY <1>a, <2>1 DEF Becomes, IInv, TypeOK
  <2>4. job.state = "INIT"
    BY <1>b, <2>1 DEF OwnedRow
  <2>5. OwnedRow(w)'
    BY <1>a, <2>2, <2>3, <2>4, TouchType, ConstantsOK DEF OwnedRow, RowOf, At
  <2>. QED
    BY <1>a, <2>1, <2>2, <2>5, TouchType, Keep DEF OwningPcs
<1>. QED
  BY <1>1, <1>2, <1>3, <1>4, <1>5, <1>6, <1>7, <1>9, <1>10, <1>11, <1>12, <1>13
  DEF WorkerStep

\* The DB scheduler lists no new job that is still owned: its row is young.
LEMMA OwnedIsNotListed ==
    ASSUME Timely, IInv, NEW p \in Procs, Owns(p), proc[p].pc # "execute",
           NEW job \in SchedulableJobs
    PROVE  job.id # proc[p].job.id
<1>1. RowOf(p).state = "INIT" /\ RowOf(p).age <= HoldLimit
  BY OwnedRowIff DEF IInv, OwnedRow
<1>2. job = db[job.id] /\ IsSchedulable(job) /\ job \in Jobs
  BY SchedulableType DEF IInv
<1>3. job.age \in Nat
  BY <1>2, MaxAgeType DEF Jobs
<1>. QED
  BY <1>1, <1>2, <1>3, ConstantsOK DEF RowOf, IsSchedulable, Timely

\* Every other step preserves the invariant.
LEMMA EnvironmentInv ==
    ASSUME Timely, IInv, TypeOK',
           \/ SchedulerStep \/ Tick \/ Halt \/ Resume \/ Crash \/ Stop
           \/ \E c \in Clients : Submit(c)
           \/ \E p \in Procs : StoreFails(p)
    PROVE  IInv'
<1>a. ASSUME UNCHANGED <<db, proc>>,
             \A p \in Procs : Owns(p) /\ proc[p].pc # "execute" =>
                proc[p].job.id \notin CopiedJobs'
      PROVE  IInv'
  <2>1. \A p \in Procs : Owns(p)' <=> Owns(p)
    BY <1>a DEF Owns
  <2>2. ExclusiveOwner' /\ NeverHalfAccepted'
    BY <1>a, <2>1 DEF IInv, ExclusiveOwner, NeverHalfAccepted
  <2>3. OwnedRowIsCurrent'
    BY <1>a, <2>1 DEF IInv, OwnedRowIsCurrent
  <2>4. NewJobIsUncopied'
    BY <1>a, <2>1 DEF NewJobIsUncopied
  <2>. QED
    BY <2>2, <2>3, <2>4 DEF IInv
<1>1. CASE Poll
  <2>1. CopiedJobs' \subseteq CopiedJobs \union {job.id : job \in SchedulableJobs}
    BY <1>1 DEF Poll, CopiedJobs
  <2>2. \A p \in Procs : Owns(p) /\ proc[p].pc # "execute" =>
           /\ proc[p].job.id \notin CopiedJobs
           /\ \A job \in SchedulableJobs : job.id # proc[p].job.id
    BY OwnedIsNotListed DEF IInv, NewJobIsUncopied
  <2>3. UNCHANGED <<db, proc>>
    BY <1>1 DEF Poll
  <2>. QED
    BY <1>a, <2>1, <2>2, <2>3
<1>2. CASE Feed
  <2>1. PICK job \in batch : queue' = Append(queue, job) /\ batch' = batch \ {job}
    BY <1>2 DEF Feed, Newest
  <2>2. queue \in Seq(Jobs) /\ job \in Jobs /\ UNCHANGED <<db, proc>>
    BY <1>2 DEF Feed, IInv, TypeOK
  <2>3. \A i \in DOMAIN queue' : queue'[i].id \in {queue[k].id : k \in DOMAIN queue} \union {job.id}
    BY <2>1, <2>2
  <2>4. CopiedJobs' \subseteq CopiedJobs
    BY <2>1, <2>2, <2>3 DEF CopiedJobs
  <2>. QED
    BY <1>a, <2>2, <2>4 DEF IInv, NewJobIsUncopied
<1>3. CASE Skip
  <2>1. CopiedJobs' \subseteq CopiedJobs /\ UNCHANGED <<db, proc>>
    BY <1>3 DEF Skip, CopiedJobs
  <2>. QED
    BY <1>a, <2>1 DEF IInv, NewJobIsUncopied
<1>4. CASE FeedClosed \/ Halt \/ Resume \/ Stop
  BY <1>4, Unmoved DEF FeedClosed, Halt, Resume, Stop
<1>5. CASE Tick
  <2>1. \A p \in Procs : Owns(p)' <=> Owns(p)
    BY <1>5 DEF Tick, Owns, At
  <2>2. \A p \in Procs : proc'[p].pc = proc[p].pc /\ proc'[p].job.id = proc[p].job.id
    BY <1>5, OlderType DEF Tick, At, IInv, TypeOK
  <2>3. ExclusiveOwner' /\ NeverHalfAccepted'
    BY <2>1, <2>2 DEF IInv, ExclusiveOwner, NeverHalfAccepted
  <2>4. CopiedJobs' \subseteq CopiedJobs
    <3>1. UNCHANGED <<queue, batch>>
      BY <1>5 DEF Tick
    <3>2. {proc'[p].job.id : p \in {q \in Procs : proc'[q].pc = "accept"}} \subseteq
             {proc[p].job.id : p \in {q \in Procs : proc[q].pc = "accept"}}
      BY <2>2
    <3>. QED
      BY <3>1, <3>2 DEF CopiedJobs
  <2>5. NewJobIsUncopied'
    BY <2>1, <2>2, <2>4 DEF IInv, NewJobIsUncopied
  <2>6. ASSUME NEW p \in Procs, Owns(p) PROVE OwnedRow(p)'
    <3>1. /\ proc[p].job \in Jobs /\ proc[p].job.id \in DOMAIN db /\ RowOf(p) \in Jobs
          /\ db[proc[p].job.id] = RowOf(p)
      BY <2>6 DEF IInv, TypeOK, Owns, OwningPcs, RowOf
    <3>2. OwnedRow(p) /\ proc[p].job.age < HoldLimit
      BY <1>5, <2>6, OwnedRowIff DEF IInv, Tick
    <3>3. proc'[p].job = Older(proc[p].job) /\ db'[proc[p].job.id] = Older(RowOf(p))
      BY <1>5, <2>6, <3>1 DEF Tick, At
    <3>4. RowOf(p)' = Older(RowOf(p))
      BY <2>2, <3>3 DEF RowOf
    <3>5. proc[p].job.age \in Nat
      BY <3>1, MaxAgeType DEF Jobs
    <3>. QED
      BY <2>2, <3>1, <3>2, <3>3, <3>4, <3>5, OlderType, ConstantsOK DEF OwnedRow
  <2>7. OwnedRowIsCurrent'
    BY <2>1, <2>6 DEF OwnedRowIsCurrent, OwnedRow, RowOf
  <2>. QED
    BY <2>3, <2>5, <2>7 DEF IInv
<1>6. CASE Crash
  <2>1. \A p \in Procs : proc'[p] = Idle
    BY <1>6 DEF Crash
  <2>2. \A p \in Procs : ~ Owns(p)' /\ proc'[p].pc # "save"
    BY <2>1 DEF Owns, Idle, OwningPcs
  <2>. QED
    BY <2>2 DEF IInv, ExclusiveOwner, OwnedRowIsCurrent, NewJobIsUncopied, NeverHalfAccepted
<1>7. ASSUME NEW c \in Clients, Submit(c)
      PROVE  IInv'
  <2>1. PICK kind \in Kinds : /\ db' = Append(db, NewJob(Len(db) + 1, kind))
                              /\ Becomes(c, At("schedule", NewJob(Len(db) + 1, kind)))
    BY <1>7, ConstantsOK DEF Submit
  <2>2. Len(db) + 1 \in Nat
    BY DEF IInv, TypeOK
  <2>. QED
    BY <1>7, <2>1, <2>2, NewJobType, Create DEF Submit, Procs
<1>8. ASSUME NEW p \in Procs, StoreFails(p)
      PROVE  IInv'
  BY <1>8, Release DEF StoreFails, Idle, OwningPcs
<1>. QED
  BY <1>1, <1>2, <1>3, <1>4, <1>5, <1>6, <1>7, <1>8 DEF SchedulerStep

\* No goroutine holds a job at the start.
LEMMA InitInv == Init /\ TypeOK => IInv
BY DEF Init, IInv, ExclusiveOwner, OwnedRowIsCurrent, NewJobIsUncopied,
       NeverHalfAccepted, Owns, OwningPcs, Idle

LEMMA NextInv ==
    ASSUME Timely, IInv, TypeOK', [Next]_vars
    PROVE  IInv'
<1>1. CASE UNCHANGED vars
  BY <1>1, Unmoved DEF vars
<1>2. CASE Next
  BY <1>2, ScheduleInv, WorkerInv, EnvironmentInv DEF Next, Procs
<1>. QED
  BY <1>1, <1>2

\* When rows are locked and goroutines are timely, the inductive invariant holds
\* in every reachable state, for any number of workers, clients, jobs and faults.
THEOREM Inductive == ASSUME Timely PROVE Spec => []IInv
<1>1. Init /\ TypeOK => IInv
  BY InitInv
<1>2. IInv /\ TypeOK' /\ [Next]_vars => IInv'
  BY NextInv
<1>. QED
  BY <1>1, <1>2, TypeCorrect, PTL DEF Spec

\* A job never has two owners: AcceptJob and SchedulableJobs together give it to
\* one goroutine at a time, whatever is queued, refused, deferred or crashes.
THEOREM OneOwner == ASSUME Timely PROVE Spec => []ExclusiveOwner
<1>1. IInv => ExclusiveOwner
  BY DEF IInv
<1>. QED
  BY <1>1, Inductive, PTL

\* Nobody but its owner has written the row of an owned job, and the row is too
\* young to be taken for abandoned.
THEOREM OwnedRowCurrent == ASSUME Timely PROVE Spec => []OwnedRowIsCurrent
<1>1. IInv => OwnedRowIsCurrent
  BY DEF IInv
<1>. QED
  BY <1>1, Inductive, PTL

\* A row that has ended stays as it is, but for its age.
Final == \A j \in DOMAIN db : db[j].state \in Terminal => db'[j] \in {db[j], Older(db[j])}

\* AcceptJob refuses a row that has ended, and the row of an owned job, the only other
\* row a step saves, has not.
LEMMA FinalStep ==
    ASSUME TypeOK, IInv, [Next]_vars
    PROVE  Final
<1>. USE DEF Final
<1>1. ASSUME NEW p \in Procs, NEW job, job.id = proc[p].job.id, db' = Saved(job),
             Owns(p) \/ MayAccept(p)
      PROVE  Final
  <2>1. db[proc[p].job.id].state \notin Terminal
    <3>1. CASE Owns(p)
      <4>1. RowOf(p).state \in {"ACCEPTED", "INIT"}
        BY <3>1, OwnedRowIff DEF IInv, OwnedRow
      <4>. QED
        BY <4>1 DEF RowOf, Terminal
    <3>2. CASE MayAccept(p)
      BY <3>2 DEF MayAccept, IsAcceptable
    <3>. QED
      BY <1>1, <3>1, <3>2
  <2>2. \A j \in DOMAIN db : j # proc[p].job.id => db'[j] = db[j]
    BY <1>1 DEF Saved
  <2>. QED
    BY <2>1, <2>2
<1>2. ASSUME UNCHANGED db PROVE Final
  BY <1>2
<1>3. ASSUME NEW job, db' = Append(db, job) PROVE Final
  <2>1. db \in Seq(Jobs)
    BY DEF TypeOK
  <2>2. \A j \in DOMAIN db : db'[j] = db[j]
    BY <1>3, <2>1
  <2>. QED
    BY <2>2
<1>4. CASE \E p \in Procs : ScheduleStep(p)
  <2>1. PICK p \in Procs : ScheduleStep(p)
    BY <1>4
  <2>2. CASE SaveDeferred(p)
    BY <2>2, <1>1 DEF SaveDeferred, Owns, OwningPcs
  <2>3. CASE ~ SaveDeferred(p)
    BY <2>1, <2>3, <1>2 DEF ScheduleStep, CheckHalted, Enqueue, Defer, SendOnClosed
  <2>. QED
    BY <2>2, <2>3
<1>5. ASSUME NEW w \in Workers, WorkerStep(w), ~ ScheduleStep(w) PROVE Final
  <2>a. w \in Procs /\ proc[w].job \in Jobs
    BY DEF TypeOK, Procs
  <2>1. CASE Accept(w)
    <3>1. AcceptedCopy(proc[w].job).id = proc[w].job.id
      BY <2>1, <2>a, AcceptedCopyType DEF Accept, MayAccept, TypeOK
    <3>. QED
      BY <2>1, <2>a, <3>1, <1>1 DEF Accept
  <2>2. CASE AcceptSave(w)
    BY <2>2, <2>a DEF AcceptSave, IInv, NeverHalfAccepted
  <2>3. CASE NoExecutor(w) \/ Succeed(w) \/ Err(w)
    <3>1. PICK job : job.id = proc[w].job.id /\ db' = Saved(job)
      <4>1. CASE NoExecutor(w)
        BY <4>1, <2>a DEF NoExecutor, Jobs
      <4>2. CASE Succeed(w)
        BY <4>2, <2>a DEF Succeed, Finish, Jobs
      <4>3. CASE Err(w)
        <5>1. PICK state : Finish(w, [proc[w].job EXCEPT !.state = state, !.errs = @ + 1])
          BY <4>3 DEF Err
        <5>2. [proc[w].job EXCEPT !.state = state, !.errs = @ + 1].id = proc[w].job.id
          BY <2>a DEF Jobs
        <5>. QED
          BY <5>1, <5>2 DEF Finish
      <4>. QED
        BY <2>3, <4>1, <4>2, <4>3
    <3>2. Owns(w)
      BY <2>3 DEF NoExecutor, Succeed, Err, Finish, Owns, OwningPcs
    <3>. QED
      BY <2>a, <3>1, <3>2, <1>1
  <2>4. CASE Fill(w)
    BY <2>4, <2>a, <1>1 DEF Fill, Owns, OwningPcs
  <2>5. CASE Notify(w)
    BY <2>5, <1>3 DEF Notify
  <2>6. CASE Dequeue(w) \/ AcceptRead(w) \/ Refuse(w) \/ Pause(w)
    BY <2>6, <1>2 DEF Dequeue, AcceptRead, Refuse, Pause
  <2>. QED
    BY <1>5, <2>1, <2>2, <2>3, <2>4, <2>5, <2>6 DEF WorkerStep
<1>6. CASE Tick
  BY <1>6 DEF Tick
<1>7. CASE \E c \in Clients : Submit(c)
  BY <1>7, <1>3 DEF Submit
<1>8. CASE \/ \E w \in Workers : AcceptUncommitted(w) \/ LoseChain(w)
           \/ \E p \in Procs : StoreFails(p)
           \/ SchedulerStep \/ Halt \/ Resume \/ Crash \/ Stop
  BY <1>8, <1>2 DEF AcceptUncommitted, LoseChain, StoreFails, SchedulerStep,
     Poll, Feed, Skip, FeedClosed, Halt, Resume, Crash, Stop
<1>. QED
  BY <1>2, <1>4, <1>5, <1>6, <1>7, <1>8 DEF Next, Procs, vars

\* COMPLETE and FAILED are final: no copy that is saved late reopens a job.
THEOREM OutcomeIsFinal == ASSUME Timely PROVE Spec => TerminalIsFinal
<1>1. IInv /\ [Next]_vars => [Final]_vars
  BY FinalStep DEF IInv
<1>. QED
  BY <1>1, Inductive, PTL DEF Spec, TerminalIsFinal, Final

-----------------------------------------------------------------------------
(* How often a job is run.  The bound on the column ExecCount needs no row *)
(* locks; that the column counts the runs does.                            *)

\* A copy is of the kind of its row.
CopiesKin ==
    /\ \A i \in DOMAIN queue : queue[i].kind = db[queue[i].id].kind
    /\ \A job \in batch : job.kind = db[job.id].kind

\* What a goroutine holds: young if it owns it, within the bound if it runs it.
RunCopy(p) ==
    /\ proc[p].pc # "idle" => proc[p].job.kind = db[proc[p].job.id].kind
    /\ Owns(p) => proc[p].job.age <= HoldLimit
    /\ proc[p].pc = "save" => proc[p].job.state = "ACCEPTED"
    /\ proc[p].pc \in {"save", "execute"} /\ proc[p].job.kind # "unknown" =>
           proc[p].job.exec <= MaxErr + 1 + faults
    /\ proc[p].pc \in {"schedule", "enqueue", "defer", "fill"} => proc[p].job.exec = 0

\* Some goroutine executes the job since the row was saved.
RunBy(j) == \E p \in Procs : /\ proc[p].pc = "execute" /\ proc[p].job.id = j
                             /\ proc[p].job.age = db[j].age

\* A row whose last run is allowed is being run, or has ended.
RunRow(j) ==
    db[j].kind # "unknown" =>
        /\ db[j].exec <= MaxErr + 1 + faults
        /\ db[j].state \notin Terminal =>
               \/ db[j].exec <= MaxErr + faults
               \/ db[j].state = "ACCEPTED" /\ RunBy(j)

RunInv == TypeOK /\ CopiesKin /\ (\A p \in Procs : RunCopy(p))
          /\ (\A j \in DOMAIN db : RunRow(j))

\* What a table of jobs and copies of them are made of.
LEMMA RunTypes ==
    ASSUME TypeOK
    PROVE  /\ faults \in Nat /\ MaxErr \in Nat
           /\ \A j \in DOMAIN db : /\ db[j] \in Jobs /\ db[j].id = j
                                   /\ db[j].exec \in Nat /\ db[j].age \in Nat
           /\ \A p \in Procs : /\ proc[p].job \in Jobs /\ proc[p].job.exec \in Nat
                               /\ proc[p].job.age \in Nat
                               /\ proc[p].pc # "idle" => proc[p].job.id \in DOMAIN db
<1>1. \A job \in Jobs : job.exec \in Nat /\ job.age \in Nat
  BY MaxAgeType DEF Jobs
<1>2. /\ \A j \in DOMAIN db : db[j] \in Jobs /\ db[j].id = j
      /\ \A p \in Procs : /\ proc[p].job \in Jobs
                          /\ proc[p].pc # "idle" => proc[p].job.id \in DOMAIN db
  BY DEF TypeOK
<1>3. faults \in Nat /\ MaxErr \in Nat
  BY ConstantsOK DEF TypeOK
<1>. QED
  BY <1>1, <1>2, <1>3

\* A step of one goroutine: what it leaves alone stays within the bound, unless it is
\* the one that runs the row, and no disturbance pays for that.
LEMMA RunStep ==
    ASSUME RunInv, TypeOK', faults <= faults', NEW p \in Procs,
           \A q \in Procs \ {p} : proc'[q] = proc[q],
           DOMAIN db \subseteq DOMAIN db',
           \A j \in DOMAIN db : db'[j].kind = db[j].kind,
           CopiesKin', RunCopy(p)',
           \A j \in DOMAIN db' :
               \/ RunRow(j)'
               \/ /\ j \in DOMAIN db /\ db'[j] = db[j]
                  /\ \/ faults < faults'
                     \/ proc'[p] = proc[p]
                     \/ ~ (proc[p].pc = "execute" /\ proc[p].job.id = j)
    PROVE  RunInv'
<1>1. ASSUME NEW q \in Procs \ {p} PROVE RunCopy(q)'
  <2>1. RunCopy(q) /\ proc'[q] = proc[q]
    BY DEF RunInv
  <2>2. proc[q].pc # "idle" => proc'[q].job.kind = db'[proc'[q].job.id].kind
    BY <2>1, RunTypes DEF RunCopy, RunInv
  <2>3. proc[q].job.exec <= MaxErr + 1 + faults => proc[q].job.exec <= MaxErr + 1 + faults'
    BY RunTypes DEF RunInv, TypeOK
  <2>. QED
    BY <2>1, <2>2, <2>3 DEF RunCopy, Owns
<1>2. ASSUME NEW j \in DOMAIN db, db'[j] = db[j],
             \/ faults < faults'
             \/ proc'[p] = proc[p]
             \/ ~ (proc[p].pc = "execute" /\ proc[p].job.id = j)
      PROVE  RunRow(j)'
  <2>1. /\ RunRow(j) /\ db[j].exec \in Nat /\ faults \in Nat /\ faults' \in Nat /\ MaxErr \in Nat
    BY RunTypes, ConstantsOK DEF RunInv, TypeOK
  <2>2. RunBy(j) => RunBy(j)' \/ faults < faults'
    BY <1>2 DEF RunBy
  <2>. QED
    BY <1>2, <2>1, <2>2 DEF RunRow
<1>. QED
  BY <1>1, <1>2 DEF RunInv

\* A goroutine that saves nothing and runs nothing from now on, or still runs what it ran.
LEMMA RunIdles ==
    ASSUME RunInv, TypeOK', faults <= faults', NEW p \in Procs, NEW s, Becomes(p, s),
           UNCHANGED db, CopiesKin', RunCopy(p)',
           faults < faults' \/ proc[p].pc # "execute"
    PROVE  RunInv'
<1>1. /\ \A q \in Procs \ {p} : proc'[q] = proc[q]
      /\ \A j \in DOMAIN db' : j \in DOMAIN db /\ db'[j] = db[j]
  BY DEF RunInv, TypeOK, Becomes
<1>. QED
  BY <1>1, RunStep

\* A goroutine that saves a copy over its row.
LEMMA RunSaves ==
    ASSUME RunInv, TypeOK', UNCHANGED faults, NEW p \in Procs, NEW s, Becomes(p, s),
           NEW job, job \in Jobs, job.id = proc[p].job.id, proc[p].pc # "idle",
           db' = Saved(job), job.kind = proc[p].job.kind,
           UNCHANGED <<queue, batch>>, RunCopy(p)', \A j : j = job.id => RunRow(j)'
    PROVE  RunInv'
<1>1. job.id \in DOMAIN db /\ job.kind = db[job.id].kind
  BY RunTypes DEF RunInv, RunCopy
<1>2. /\ DOMAIN db' = DOMAIN db /\ db'[job.id] = Touch(job)
      /\ \A j \in DOMAIN db : j # job.id => db'[j] = db[j]
  BY <1>1, SaveKeepsTable DEF RunInv
<1>3. \A j \in DOMAIN db : db'[j].kind = db[j].kind
  <2>1. Touch(job).kind = job.kind
    BY DEF Touch, Jobs
  <2>. QED
    BY <1>1, <1>2, <2>1
<1>4. CopiesKin'
  <2>1. /\ CopiesKin /\ queue' = queue /\ batch' = batch
        /\ \A i \in DOMAIN queue : queue[i].id \in DOMAIN db
        /\ \A copy \in batch : copy.id \in DOMAIN db
    BY DEF RunInv, TypeOK
  <2>. QED
    BY <1>3, <2>1 DEF CopiesKin
<1>5. /\ \A q \in Procs \ {p} : proc'[q] = proc[q]
      /\ \A j \in DOMAIN db' : \/ RunRow(j)'
                               \/ j \in DOMAIN db /\ db'[j] = db[j] /\ proc[p].job.id # j
  BY <1>2 DEF RunInv, TypeOK, Becomes
<1>6. faults <= faults'
  BY RunTypes DEF RunInv
<1>. QED
  BY <1>2, <1>3, <1>4, <1>5, <1>6, RunStep

\* A goroutine that inserts a row.
LEMMA RunInserts ==
    ASSUME RunInv, TypeOK', UNCHANGED faults, NEW p \in Procs, NEW pc \in {"schedule", "fill"},
           NEW kind \in Kinds, NEW job, proc[p].pc # "execute",
           db' = Append(db, NewJob(Len(db) + 1, kind)),
           Becomes(p, At(pc, job)), job.id = Len(db) + 1, job.age = 0, job.exec = 0,
           job.kind = kind, UNCHANGED <<queue, batch>>
    PROVE  RunInv'
<1>. DEFINE new == NewJob(Len(db) + 1, kind)
<1>1. /\ DOMAIN db' = DOMAIN db \union {new.id} /\ db'[new.id] = new
      /\ \A j \in DOMAIN db : db'[j] = db[j]
      /\ new.id = Len(db) + 1 /\ new.exec = 0 /\ new.kind = kind
  BY InsertType DEF RunInv, TypeOK, NewJob
<1>. HIDE DEF new
<1>2. CopiesKin'
  BY <1>1 DEF RunInv, TypeOK, CopiesKin
<1>3. /\ proc'[p] = At(pc, job) /\ \A q \in Procs \ {p} : proc'[q] = proc[q]
      /\ proc'[p].pc = pc /\ proc'[p].job = job
  BY DEF RunInv, TypeOK, Becomes, At
<1>4. RunCopy(p)'
  BY <1>1, <1>3, ConstantsOK DEF RunCopy
<1>5. \A j : j = new.id => RunRow(j)'
  <2>1. faults \in Nat /\ MaxErr \in Nat
    BY RunTypes DEF RunInv
  <2>. QED
    BY <1>1, <2>1 DEF RunRow
<1>6. faults <= faults'
  BY RunTypes DEF RunInv
<1>. QED
  BY <1>1, <1>2, <1>3, <1>4, <1>5, <1>6, RunStep

\* A step that moves no goroutine and no row.
LEMMA RunUnmoved ==
    ASSUME RunInv, TypeOK', faults <= faults', UNCHANGED <<db, proc>>, CopiesKin'
    PROVE  RunInv'
<1>1. ASSUME NEW q \in Procs PROVE RunCopy(q)'
  <2>1. RunCopy(q) /\ proc[q].job.exec \in Nat /\ faults \in Nat /\ faults' \in Nat /\ MaxErr \in Nat
    BY RunTypes, ConstantsOK DEF RunInv, TypeOK
  <2>. QED
    BY <2>1 DEF RunCopy, Owns
<1>2. ASSUME NEW j \in DOMAIN db PROVE RunRow(j)'
  <2>1. RunRow(j) /\ db[j].exec \in Nat /\ faults \in Nat /\ faults' \in Nat /\ MaxErr \in Nat
    BY RunTypes, ConstantsOK DEF RunInv, TypeOK
  <2>2. RunBy(j) => RunBy(j)'
    BY DEF RunBy
  <2>. QED
    BY <2>1, <2>2 DEF RunRow
<1>. QED
  BY <1>1, <1>2 DEF RunInv

\* Counting a disturbance.
LEMMA DisturbCounts ==
    ASSUME TypeOK, NEW fault, Disturb(fault)
    PROVE  faults < faults'
BY ConstantsOK DEF TypeOK, Disturb

\* A row that may be accepted has a run left: the worker of an ACCEPTED row is gone when
\* the row is old, and a disturbance was counted for it.
LEMMA RunLeft ==
    ASSUME RunInv, HoldLimit < AcceptedGrace, NEW j \in DOMAIN db, IsAcceptable(db[j]),
           db[j].kind # "unknown"
    PROVE  db[j].exec + 1 <= MaxErr + 1 + faults
<1>1. RunRow(j) /\ db[j].state \notin Terminal
  BY DEF RunInv, IsAcceptable
<1>2. db[j].exec \in Nat /\ db[j].age \in Nat /\ faults \in Nat /\ MaxErr \in Nat
  BY RunTypes DEF RunInv
<1>3. ASSUME db[j].state = "ACCEPTED", RunBy(j) PROVE FALSE
  <2>1. PICK p \in Procs : Owns(p) /\ proc[p].job.age = db[j].age
    BY <1>3 DEF RunBy, Owns, OwningPcs
  <2>2. db[j].age <= HoldLimit
    BY <2>1 DEF RunInv, RunCopy
  <2>. QED
    BY <1>2, <1>3, <2>2, ConstantsOK DEF IsAcceptable
<1>. QED
  BY <1>1, <1>2, <1>3 DEF RunRow

LEMMA RunSchedule ==
    ASSUME RunInv, TypeOK', NEW p \in Procs, ScheduleStep(p)
    PROVE  RunInv'
<1>. DEFINE job == proc[p].job
<1>a. /\ job \in Jobs /\ RunCopy(p) /\ faults \in Nat /\ MaxErr \in Nat /\ job.exec \in Nat
      /\ queue \in Seq(Jobs) /\ \A i \in DOMAIN queue : queue[i].id \in DOMAIN db
      /\ CopiesKin /\ TypeOK
  BY RunTypes DEF RunInv, TypeOK
<1>b. UNCHANGED <<queue, batch, db>> => CopiesKin'
  BY <1>a DEF CopiesKin
<1>c. ASSUME NEW s, Becomes(p, s) PROVE proc'[p] = s
  BY <1>a, <1>c DEF Becomes, TypeOK
<1>1. CASE CheckHalted(p)
  <2>1. PICK s : Becomes(p, s) /\ s \in {Idle, At("enqueue", job)}
    BY <1>1 DEF CheckHalted
  <2>2. proc[p].pc = "schedule" /\ UNCHANGED <<db, queue, batch, faults>>
    BY <1>1 DEF CheckHalted
  <2>3. RunCopy(p)'
    BY <1>a, <1>c, <2>1, <2>2 DEF RunCopy, Idle, At, Owns, OwningPcs
  <2>4. faults <= faults'
    BY <1>a, <2>2
  <2>. QED
    BY <1>b, <2>1, <2>2, <2>3, <2>4, RunIdles
<1>2. CASE Enqueue(p)
  <2>1. /\ queue' = Append(queue, job) /\ UNCHANGED <<db, batch, faults>>
        /\ Becomes(p, Idle) /\ proc[p].pc = "enqueue"
    BY <1>2 DEF Enqueue
  <2>2. CopiesKin'
    BY <1>a, <2>1 DEF CopiesKin, RunCopy
  <2>3. RunCopy(p)'
    BY <1>c, <2>1 DEF RunCopy, Idle, Owns, OwningPcs
  <2>4. faults <= faults'
    BY <1>a, <2>1
  <2>. QED
    BY <2>1, <2>2, <2>3, <2>4, RunIdles
<1>3. CASE Defer(p)
  <2>. DEFINE deferred == [job EXCEPT !.state = "NO_AVAILABLE_WORKERS"]
  <2>1. /\ deferred.id = job.id /\ deferred.age = job.age /\ deferred.exec = job.exec
        /\ deferred.kind = job.kind
    BY <1>a DEF Jobs
  <2>2. Becomes(p, At("defer", deferred)) /\ UNCHANGED <<db, queue, batch, faults>>
        /\ proc[p].pc = "enqueue"
    BY <1>3 DEF Defer
  <2>. HIDE DEF deferred
  <2>3. RunCopy(p)'
    BY <1>a, <1>c, <2>1, <2>2 DEF RunCopy, At, Owns, OwningPcs
  <2>4. faults <= faults'
    BY <1>a, <2>2
  <2>. QED
    BY <1>b, <2>2, <2>3, <2>4, RunIdles
<1>4. CASE SaveDeferred(p)
  <2>1. /\ db' = Saved(job) /\ Becomes(p, Idle) /\ proc[p].pc = "defer"
        /\ UNCHANGED <<queue, batch, faults>>
    BY <1>4 DEF SaveDeferred
  <2>2. RunCopy(p)'
    BY <1>c, <2>1 DEF RunCopy, Idle, Owns, OwningPcs
  <2>3. job.id \in DOMAIN db
    BY <2>1, RunTypes DEF RunInv
  <2>4. db'[job.id] = Touch(job) /\ Touch(job).exec = 0
    BY <1>a, <2>1, <2>3, SaveKeepsTable, TouchType DEF RunCopy
  <2>5. \A j : j = job.id => RunRow(j)'
    BY <1>a, <2>1, <2>4 DEF RunRow
  <2>. QED
    BY <1>a, <2>1, <2>2, <2>5, RunSaves
<1>5. CASE SendOnClosed(p)
  <2>1. UNCHANGED <<db, queue, batch, proc, faults>> /\ faults <= faults'
    BY <1>5, <1>a DEF SendOnClosed
  <2>. QED
    BY <1>b, <2>1, RunUnmoved
<1>. QED
  BY <1>1, <1>2, <1>3, <1>4, <1>5 DEF ScheduleStep

LEMMA RunWorker ==
    ASSUME HoldLimit < AcceptedGrace, RunInv, TypeOK', NEW w \in Workers,
           WorkerStep(w) \/ AcceptUncommitted(w) \/ LoseChain(w)
    PROVE  RunInv'
<1>. DEFINE job == proc[w].job
<1>a. /\ w \in Procs /\ job \in Jobs /\ RunCopy(w) /\ faults \in Nat /\ MaxErr \in Nat
      /\ job.exec \in Nat
      /\ proc[w].pc # "idle" => job.id \in DOMAIN db
      /\ CopiesKin /\ TypeOK
  BY RunTypes DEF RunInv, Procs
<1>b. UNCHANGED <<queue, batch, db>> => CopiesKin'
  BY <1>a DEF CopiesKin
<1>c. ASSUME NEW s, Becomes(w, s) PROVE proc'[w] = s
  BY <1>a, <1>c DEF Becomes, TypeOK
<1>d. UNCHANGED faults => faults <= faults'
  BY <1>a
<1>e. ASSUME MayAccept(w)
      PROVE  /\ AcceptedCopy(job) \in Jobs /\ AcceptedCopy(job).id = job.id
             /\ AcceptedCopy(job).kind = job.kind /\ AcceptedCopy(job).state = "ACCEPTED"
             /\ AcceptedCopy(job).age = 0
             /\ job.kind # "unknown" => AcceptedCopy(job).exec <= MaxErr + 1 + faults
             /\ job.id \in DOMAIN db /\ job.kind = db[job.id].kind
             /\ AcceptedCopy(job).exec \in Nat
  <2>1. job.id \in DOMAIN db /\ IsAcceptable(db[job.id]) /\ job.kind = db[job.id].kind
    BY <1>a, <1>e DEF MayAccept, RunCopy
  <2>2. AcceptedCopy(job).kind = job.kind
    BY <1>a DEF AcceptedCopy, Jobs
  <2>3. db[job.id].exec \in Nat
    BY <2>1, RunTypes DEF RunInv
  <2>. QED
    BY <1>a, <2>1, <2>2, <2>3, AcceptedCopyType, RunLeft
<1>1. CASE ScheduleStep(w)
  BY <1>1, <1>a, RunSchedule
<1>2. CASE Dequeue(w)
  <2>1. /\ queue # <<>> /\ queue \in Seq(Jobs) /\ queue' = Tail(queue)
        /\ UNCHANGED <<db, batch, faults>> /\ Becomes(w, At("accept", Head(queue)))
        /\ proc[w].pc = "idle"
    BY <1>2, <1>a DEF Dequeue, TypeOK
  <2>2. Head(queue).kind = db[Head(queue).id].kind
    BY <1>a, <2>1 DEF CopiesKin
  <2>3. CopiesKin'
    BY <1>a, <2>1 DEF CopiesKin
  <2>4. RunCopy(w)'
    BY <1>c, <2>1, <2>2 DEF RunCopy, At, Owns, OwningPcs
  <2>. QED
    BY <1>a, <1>d, <2>1, <2>3, <2>4, RunIdles
<1>3. CASE Accept(w)
  <2>. DEFINE mine == AcceptedCopy(job)
  <2>1. /\ MayAccept(w) /\ db' = Saved(mine) /\ UNCHANGED <<queue, batch, faults>>
        /\ Becomes(w, At("execute", mine)) /\ proc[w].pc = "accept"
    BY <1>3 DEF Accept, MayAccept
  <2>2. /\ mine \in Jobs /\ mine.id = job.id /\ mine.kind = job.kind /\ mine.age = 0
        /\ mine.state = "ACCEPTED" /\ mine.exec \in Nat
        /\ job.kind # "unknown" => mine.exec <= MaxErr + 1 + faults
        /\ job.id \in DOMAIN db
    BY <1>e, <2>1
  <2>. HIDE DEF mine
  <2>3. proc'[w] = At("execute", mine)
    BY <1>c, <2>1
  <2>4. db'[job.id] = Touch(mine)
    BY <1>a, <2>1, <2>2, SaveKeepsTable
  <2>5. Touch(mine).kind = mine.kind
    BY <2>2 DEF Touch, Jobs
  <2>6. RunCopy(w)'
    BY <1>a, <2>1, <2>2, <2>3, <2>4, <2>5, ConstantsOK DEF RunCopy, At, Owns
  <2>7. \A j : j = job.id => RunBy(j)'
    BY <1>a, <2>2, <2>3, <2>4, TouchType DEF RunBy, At
  <2>8. \A j : j = job.id => RunRow(j)'
    BY <2>1, <2>2, <2>4, <2>5, <2>7, TouchType DEF RunRow
  <2>. QED
    BY <1>a, <2>1, <2>2, <2>6, <2>8, RunSaves
<1>4. CASE AcceptUncommitted(w) \/ AcceptRead(w)
  <2>. DEFINE mine == AcceptedCopy(job)
  <2>1. /\ MayAccept(w) /\ UNCHANGED <<db, queue, batch>> /\ proc[w].pc = "accept"
        /\ Becomes(w, At("execute", mine)) \/ Becomes(w, At("save", mine))
    BY <1>4 DEF AcceptUncommitted, AcceptRead, MayAccept
  <2>2. faults <= faults' /\ faults' \in Nat
    <3>1. CASE AcceptUncommitted(w)
      BY <1>a, <3>1, ConstantsOK DEF AcceptUncommitted, Disturb
    <3>2. CASE AcceptRead(w)
      BY <1>a, <3>2 DEF AcceptRead
    <3>. QED
      BY <1>4, <3>1, <3>2
  <2>3. /\ mine \in Jobs /\ mine.id = job.id /\ mine.kind = job.kind /\ mine.age = 0
        /\ mine.state = "ACCEPTED" /\ mine.exec \in Nat
        /\ job.kind # "unknown" => mine.exec <= MaxErr + 1 + faults
        /\ job.id \in DOMAIN db /\ job.kind = db[job.id].kind
    BY <1>e, <2>1
  <2>. HIDE DEF mine
  <2>4. PICK s : Becomes(w, s) /\ s \in {At("execute", mine), At("save", mine)}
    BY <2>1
  <2>5. mine.kind # "unknown" => mine.exec <= MaxErr + 1 + faults'
    BY <1>a, <2>2, <2>3
  <2>6. RunCopy(w)'
    BY <1>c, <2>1, <2>3, <2>4, <2>5, ConstantsOK DEF RunCopy, At, Owns
  <2>. QED
    BY <1>a, <1>b, <2>1, <2>2, <2>4, <2>6, RunIdles
<1>5. CASE AcceptSave(w)
  <2>. DEFINE mine == Touch(job)
  <2>1. /\ db' = Saved(mine) /\ UNCHANGED <<queue, batch, faults>>
        /\ Becomes(w, At("execute", mine)) /\ proc[w].pc = "save"
    BY <1>5 DEF AcceptSave
  <2>2. /\ mine \in Jobs /\ mine.id = job.id /\ mine.age = 0 /\ mine.state = "ACCEPTED"
        /\ mine.exec = job.exec /\ job.id \in DOMAIN db
    BY <1>a, <2>1, TouchType DEF RunCopy
  <2>3. mine.kind = job.kind
    BY <1>a DEF Touch, Jobs
  <2>. HIDE DEF mine
  <2>4. proc'[w] = At("execute", mine)
    BY <1>c, <2>1
  <2>5. db'[job.id] = Touch(mine)
    BY <1>a, <2>1, <2>2, SaveKeepsTable
  <2>6. Touch(mine).kind = mine.kind
    BY <2>2 DEF Touch, Jobs
  <2>7. RunCopy(w)'
    BY <1>a, <2>1, <2>2, <2>3, <2>4, <2>5, <2>6, ConstantsOK DEF RunCopy, At, Owns
  <2>8. \A j : j = job.id => RunBy(j)'
    BY <1>a, <2>2, <2>4, <2>5, TouchType DEF RunBy, At
  <2>9. \A j : j = job.id => RunRow(j)'
    BY <1>a, <2>1, <2>2, <2>3, <2>5, <2>6, <2>8, TouchType DEF RunRow, RunCopy
  <2>. QED
    BY <1>a, <2>1, <2>2, <2>3, <2>7, <2>9, RunSaves
<1>6. CASE Refuse(w) \/ Pause(w)
  <2>1. /\ UNCHANGED <<db, queue, batch, faults>> /\ Becomes(w, Idle)
        /\ proc[w].pc \in {"accept", "pause"}
    BY <1>6 DEF Refuse, Pause, MayAccept
  <2>2. RunCopy(w)'
    BY <1>c, <2>1 DEF RunCopy, Idle, Owns, OwningPcs
  <2>. QED
    BY <1>a, <1>b, <1>d, <2>1, <2>2, RunIdles
<1>7. CASE NoExecutor(w)
  <2>. DEFINE copy == [job EXCEPT !.state = "NO_AVAILABLE_WORKERS"]
  <2>1. copy \in Jobs /\ copy.id = job.id /\ copy.kind = job.kind
    BY <1>a DEF Jobs, States
  <2>2. /\ db' = Saved(copy) /\ Becomes(w, Idle) /\ UNCHANGED <<queue, batch, faults>>
        /\ job.kind = "unknown" /\ proc[w].pc = "execute"
    BY <1>7 DEF NoExecutor
  <2>. HIDE DEF copy
  <2>3. RunCopy(w)'
    BY <1>c, <2>2 DEF RunCopy, Idle, Owns, OwningPcs
  <2>4. db'[job.id] = Touch(copy) /\ Touch(copy).kind = copy.kind
    BY <1>a, <2>1, <2>2, SaveKeepsTable DEF Touch, Jobs
  <2>5. \A j : j = job.id => RunRow(j)'
    BY <2>1, <2>2, <2>4 DEF RunRow
  <2>. QED
    BY <1>a, <2>1, <2>2, <2>3, <2>5, RunSaves
<1>8. ASSUME NEW copy \in Jobs, copy.id = job.id, copy.kind = job.kind, copy.exec = job.exec,
             job.kind # "unknown", copy.state \in Terminal \/ ~ Exhausted(job),
             Finish(w, copy)
      PROVE  RunInv'
  <2>1. /\ db' = Saved(copy) /\ UNCHANGED <<queue, batch, faults>> /\ proc[w].pc = "execute"
    BY <1>8 DEF Finish
  <2>2. PICK s : Becomes(w, s) /\ s \in {Idle, At("notify", Touch(copy))}
    BY <1>8 DEF Finish
  <2>3. db'[job.id] = Touch(copy) /\ Touch(copy).kind = copy.kind /\ job.id \in DOMAIN db
    BY <1>8, <1>a, <2>1, SaveKeepsTable DEF Touch, Jobs
  <2>4. RunCopy(w)'
    BY <1>8, <1>c, <2>2, <2>3, TouchType DEF RunCopy, Idle, At, Owns, OwningPcs
  <2>5. \A j : j = job.id => RunRow(j)'
    BY <1>8, <1>a, <2>1, <2>3, TouchType DEF RunRow, RunCopy, Exhausted
  <2>. QED
    BY <1>8, <1>a, <2>1, <2>2, <2>4, <2>5, RunSaves
<1>9. CASE Succeed(w)
  <2>. DEFINE copy == [job EXCEPT !.state = "COMPLETE"]
  <2>1. /\ copy \in Jobs /\ copy.id = job.id /\ copy.kind = job.kind /\ copy.exec = job.exec
        /\ copy.state \in Terminal
    BY <1>a DEF Jobs, States, Terminal
  <2>2. Finish(w, copy) /\ job.kind # "unknown"
    BY <1>9 DEF Succeed
  <2>. QED
    BY <1>8, <2>1, <2>2
<1>10. CASE Err(w)
  <2>1. PICK permanent \in BOOLEAN :
            Finish(w, [job EXCEPT
              !.state = IF Exhausted(job) \/ permanent THEN "FAILED" ELSE "ERROR",
              !.errs = @ + 1])
    BY <1>10 DEF Err
  <2>2. PICK state \in {"FAILED", "ERROR"} :
            /\ Finish(w, [job EXCEPT !.state = state, !.errs = @ + 1])
            /\ state \in Terminal \/ ~ Exhausted(job)
    BY <2>1 DEF Terminal
  <2>. DEFINE n == job.errs + 1
              copy == [job EXCEPT !.state = state, !.errs = n]
  <2>a. n \in Nat /\ state \in States
    BY <1>a DEF Jobs, States
  <2>b. Finish(w, copy)
    BY <2>2
  <2>. HIDE DEF n
  <2>3. copy \in Jobs /\ copy.id = job.id
    BY <1>a, <2>a, Zenon DEF Jobs
  <2>4. copy.kind = job.kind /\ copy.exec = job.exec /\ copy.state = state
    BY <1>a DEF Jobs
  <2>5. job.kind # "unknown"
    BY <1>10 DEF Err
  <2>. QED
    BY <1>8, <2>2, <2>b, <2>3, <2>4, <2>5
<1>11. CASE LoseChain(w)
  <2>1. /\ UNCHANGED <<db, queue, batch>> /\ Becomes(w, At("pause", job))
        /\ Disturb("chain") /\ proc[w].pc = "execute"
    BY <1>11 DEF LoseChain
  <2>2. faults < faults' /\ faults <= faults'
    BY <1>a, <2>1, ConstantsOK DEF Disturb
  <2>3. RunCopy(w)'
    BY <1>a, <1>c, <2>1 DEF RunCopy, At, Owns, OwningPcs
  <2>. QED
    BY <1>a, <1>b, <2>1, <2>2, <2>3, RunIdles
<1>12. CASE Notify(w)
  <2>. DEFINE new == NewJob(Len(db) + 1, "notice")
              filled == [new EXCEPT !.result = [of |-> job.id, state |-> job.state]]
  <2>1. /\ db' = Append(db, new) /\ Becomes(w, At("fill", filled))
        /\ UNCHANGED <<queue, batch, faults>> /\ proc[w].pc = "notify"
    BY <1>12 DEF Notify
  <2>2. filled.id = Len(db) + 1 /\ filled.age = 0 /\ filled.exec = 0 /\ filled.kind = "notice"
    BY DEF NewJob
  <2>. HIDE DEF filled
  <2>. QED
    BY <1>a, <2>1, <2>2, RunInserts, PcsAndKinds
<1>13. CASE Fill(w)
  <2>1. /\ db' = Saved(job) /\ Becomes(w, At("schedule", Touch(job)))
        /\ UNCHANGED <<queue, batch, faults>> /\ proc[w].pc = "fill" /\ job.id \in DOMAIN db
    BY <1>13, <1>a DEF Fill
  <2>2. db'[job.id] = Touch(job) /\ Touch(job).kind = job.kind
    BY <1>a, <2>1, SaveKeepsTable DEF Touch, Jobs
  <2>3. Touch(job).exec = 0 /\ Touch(job).age = 0 /\ Touch(job).id = job.id
    BY <1>a, <2>1, TouchType DEF RunCopy
  <2>4. RunCopy(w)'
    BY <1>c, <2>1, <2>2, <2>3, ConstantsOK DEF RunCopy, At, Owns
  <2>5. \A j : j = job.id => RunRow(j)'
    BY <1>a, <2>1, <2>2, <2>3 DEF RunRow
  <2>. QED
    BY <1>a, <2>1, <2>4, <2>5, RunSaves
<1>. QED
  BY <1>1, <1>2, <1>3, <1>4, <1>5, <1>6, <1>7, <1>9, <1>10, <1>11, <1>12, <1>13
  DEF WorkerStep

LEMMA AtIs == \A pc, job : At(pc, job).pc = pc /\ At(pc, job).job = job
BY DEF At

LEMMA RunEnvironment ==
    ASSUME RunInv, TypeOK',
           \/ SchedulerStep \/ Tick \/ Halt \/ Resume \/ Crash \/ Stop
           \/ \E c \in Clients : Submit(c)
           \/ \E p \in Procs : StoreFails(p)
    PROVE  RunInv'
<1>a. /\ CopiesKin /\ TypeOK /\ faults \in Nat /\ MaxErr \in Nat
      /\ queue \in Seq(Jobs) /\ \A i \in DOMAIN queue : queue[i].id \in DOMAIN db
  BY RunTypes DEF RunInv, TypeOK
<1>1. CASE Poll
  <2>1. UNCHANGED <<db, queue, proc, faults>> /\ batch' = SchedulableJobs
    BY <1>1 DEF Poll
  <2>2. CopiesKin'
    BY <1>a, <2>1, SchedulableType DEF CopiesKin
  <2>. QED
    BY <1>a, <2>1, <2>2, RunUnmoved
<1>2. CASE Feed
  <2>1. PICK job \in batch : queue' = Append(queue, job) /\ batch' = batch \ {job}
    BY <1>2 DEF Feed, Newest
  <2>2. job \in Jobs /\ UNCHANGED <<db, proc, faults>>
    BY <1>2 DEF Feed, RunInv, TypeOK
  <2>3. CopiesKin'
    BY <1>a, <2>1, <2>2 DEF CopiesKin
  <2>. QED
    BY <1>a, <2>2, <2>3, RunUnmoved
<1>3. CASE Skip
  <2>1. UNCHANGED <<db, queue, proc, faults>> /\ batch' \subseteq batch
    BY <1>3 DEF Skip
  <2>2. CopiesKin'
    BY <1>a, <2>1 DEF CopiesKin
  <2>. QED
    BY <1>a, <2>1, <2>2, RunUnmoved
<1>4. CASE FeedClosed \/ Halt \/ Resume \/ Stop
  <2>1. UNCHANGED <<db, queue, batch, proc>>
    BY <1>4 DEF FeedClosed, Halt, Resume, Stop
  <2>2. faults <= faults'
    BY <1>4, <1>a, DisturbCounts, ConstantsOK DEF FeedClosed, Halt, Resume, Stop, Disturb
  <2>3. CopiesKin'
    BY <1>a, <2>1 DEF CopiesKin
  <2>. QED
    BY <2>1, <2>2, <2>3, RunUnmoved
<1>5. CASE Tick
  <2>1. /\ UNCHANGED <<queue, batch, faults>> /\ DOMAIN db' = DOMAIN db
        /\ \A j \in DOMAIN db : db'[j] = Older(db[j])
        /\ \A p \in Procs : proc'[p] = IF Owns(p) THEN At(proc[p].pc, Older(proc[p].job))
                                                  ELSE proc[p]
        /\ \A p \in Procs : Owns(p) => proc[p].job.age < HoldLimit
    BY <1>5 DEF Tick
  <2>2. \A job \in Jobs : Older(job).kind = job.kind
    BY DEF Older, Jobs
  <2>3. \A j \in DOMAIN db : /\ db'[j].kind = db[j].kind /\ db'[j].exec = db[j].exec
                             /\ db'[j].state = db[j].state
                             /\ db'[j].age = IF db[j].age < MaxAge THEN db[j].age + 1
                                                                   ELSE db[j].age
    BY <2>1, <2>2, OlderType, RunTypes DEF RunInv
  <2>4. \A p \in Procs : /\ proc'[p].pc = proc[p].pc /\ proc'[p].job.id = proc[p].job.id
                         /\ proc'[p].job.kind = proc[p].job.kind
                         /\ proc'[p].job.exec = proc[p].job.exec
                         /\ proc'[p].job.state = proc[p].job.state
    <3>1. ASSUME NEW p \in Procs
          PROVE  /\ proc[p].job \in Jobs /\ Older(proc[p].job).id = proc[p].job.id
                 /\ Older(proc[p].job).kind = proc[p].job.kind
                 /\ Older(proc[p].job).exec = proc[p].job.exec
                 /\ Older(proc[p].job).state = proc[p].job.state
      BY <1>a, <2>2, OlderType DEF TypeOK
    <3>2. ASSUME NEW p \in Procs
          PROVE  \/ proc'[p] = proc[p]
                 \/ proc'[p].pc = proc[p].pc /\ proc'[p].job = Older(proc[p].job)
      BY <2>1, AtIs
    <3>. QED
      BY <3>1, <3>2
  <2>5. \A p \in Procs : Owns(p) =>
            proc'[p].job.age = IF proc[p].job.age < MaxAge THEN proc[p].job.age + 1
                                                           ELSE proc[p].job.age
    <3>1. ASSUME NEW p \in Procs
          PROVE  Older(proc[p].job).age = IF proc[p].job.age < MaxAge THEN proc[p].job.age + 1
                                                                      ELSE proc[p].job.age
      BY <1>a, OlderType DEF TypeOK
    <3>2. ASSUME NEW p \in Procs, Owns(p) PROVE proc'[p].job = Older(proc[p].job)
      BY <2>1, <3>2, AtIs
    <3>. QED
      BY <3>1, <3>2
  <2>6. CopiesKin'
    BY <1>a, <2>1, <2>3 DEF CopiesKin, TypeOK
  <2>7. ASSUME NEW p \in Procs PROVE RunCopy(p)'
    <3>1. RunCopy(p) /\ proc[p].job.age \in Nat /\ HoldLimit \in Nat
      BY RunTypes, ConstantsOK DEF RunInv
    <3>2. Owns(p)' <=> Owns(p)
      BY <2>4 DEF Owns
    <3>3. Owns(p) => proc'[p].job.age <= HoldLimit
      BY <2>1, <2>5, <3>1
    <3>4. proc[p].pc # "idle" => proc'[p].job.kind = db'[proc'[p].job.id].kind
      BY <2>3, <2>4, <3>1, RunTypes DEF RunCopy, RunInv
    <3>. QED
      BY <2>1, <2>4, <3>1, <3>2, <3>3, <3>4 DEF RunCopy
  <2>8. ASSUME NEW j \in DOMAIN db PROVE RunRow(j)'
    <3>1. RunRow(j)
      BY DEF RunInv
    <3>2. RunBy(j) => RunBy(j)'
      <4>1. ASSUME NEW p \in Procs, proc[p].pc = "execute", proc[p].job.id = j,
                   proc[p].job.age = db[j].age
            PROVE  RunBy(j)'
        <5>1. Owns(p)
          BY <4>1 DEF Owns, OwningPcs
        <5>2. proc'[p].job.age = db'[j].age
          BY <2>3, <2>5, <4>1, <5>1
        <5>. QED
          BY <2>4, <4>1, <5>2 DEF RunBy
      <4>. QED
        BY <4>1 DEF RunBy
    <3>. QED
      BY <2>1, <2>3, <3>1, <3>2 DEF RunRow
  <2>. QED
    BY <2>1, <2>6, <2>7, <2>8 DEF RunInv
<1>6. CASE Crash
  <2>1. /\ Disturb("crash") /\ queue' = <<>> /\ batch' = {} /\ UNCHANGED db
        /\ \A p \in Procs : proc'[p] = Idle
    BY <1>6 DEF Crash
  <2>2. faults < faults' /\ faults' \in Nat
    BY <1>a, <2>1, ConstantsOK DEF Disturb
  <2>3. CopiesKin'
    BY <2>1 DEF CopiesKin
  <2>4. \A p \in Procs : RunCopy(p)'
    BY <2>1 DEF RunCopy, Idle, Owns, OwningPcs
  <2>5. ASSUME NEW j \in DOMAIN db PROVE RunRow(j)'
    <3>1. RunRow(j) /\ db[j].exec \in Nat
      BY RunTypes DEF RunInv
    <3>. QED
      BY <1>a, <2>1, <2>2, <3>1 DEF RunRow
  <2>. QED
    BY <2>1, <2>3, <2>4, <2>5 DEF RunInv
<1>7. ASSUME NEW c \in Clients, Submit(c)
      PROVE  RunInv'
  <2>1. PICK kind \in Kinds : /\ db' = Append(db, NewJob(Len(db) + 1, kind))
                              /\ Becomes(c, At("schedule", NewJob(Len(db) + 1, kind)))
    BY <1>7, ConstantsOK DEF Submit
  <2>2. UNCHANGED <<queue, batch, faults>> /\ proc[c].pc = "idle" /\ c \in Procs
    BY <1>7 DEF Submit, Procs
  <2>3. Len(db) + 1 \in Nat
    BY <1>a DEF TypeOK
  <2>4. NewJob(Len(db) + 1, kind).kind = kind
    BY DEF NewJob
  <2>. QED
    BY <2>1, <2>2, <2>3, <2>4, NewJobType, RunInserts
<1>8. ASSUME NEW p \in Procs, StoreFails(p)
      PROVE  RunInv'
  <2>1. Becomes(p, Idle) /\ UNCHANGED <<db, queue, batch>> /\ Disturb("store")
    BY <1>8 DEF StoreFails
  <2>2. faults < faults' /\ faults <= faults'
    BY <1>a, <2>1, ConstantsOK DEF Disturb
  <2>3. proc'[p] = Idle
    BY <1>a, <2>1 DEF Becomes, TypeOK
  <2>4. RunCopy(p)' /\ CopiesKin'
    BY <1>a, <2>1, <2>3 DEF RunCopy, Idle, Owns, OwningPcs, CopiesKin
  <2>. QED
    BY <2>1, <2>2, <2>4, RunIdles
<1>. QED
  BY <1>1, <1>2, <1>3, <1>4, <1>5, <1>6, <1>7, <1>8 DEF SchedulerStep

\* The invariant behind the bound holds in every reachable state.
LEMMA RunsInductive == ASSUME HoldLimit < AcceptedGrace PROVE Spec => []RunInv
<1>1. Init /\ TypeOK => RunInv
  <2>. SUFFICES ASSUME Init, TypeOK PROVE RunInv
    OBVIOUS
  <2>1. DOMAIN db = {} /\ DOMAIN queue = {} /\ batch = {}
    BY DEF Init
  <2>2. \A p \in Procs : RunCopy(p)
    BY DEF Init, RunCopy, Idle, Owns, OwningPcs
  <2>. QED
    BY <2>1, <2>2 DEF RunInv, CopiesKin
<1>2. ASSUME RunInv, TypeOK', [Next]_vars PROVE RunInv'
  <2>1. CASE UNCHANGED vars
    <3>1. UNCHANGED <<db, proc, queue, batch, faults>> /\ faults <= faults'
      BY <2>1, <1>2, RunTypes DEF vars, RunInv
    <3>2. CopiesKin'
      BY <1>2, <3>1 DEF RunInv, CopiesKin
    <3>. QED
      BY <1>2, <3>1, <3>2, RunUnmoved
  <2>2. CASE Next
    BY <1>2, <2>2, RunSchedule, RunWorker, RunEnvironment DEF Next, Procs
  <2>. QED
    BY <1>2, <2>1, <2>2
<1>. QED
  BY <1>1, <1>2, TypeCorrect, PTL DEF Spec

\* The column ExecCount stays within the bound, with row locks or without, and whatever
\* commits are lost.  It counts acceptances: two that overlap are counted once.
CountsBounded ==
    \A j \in DOMAIN db : db[j].kind # "unknown" => db[j].exec <= MaxErr + 1 + faults

LEMMA CountsAreBounded == ASSUME HoldLimit < AcceptedGrace PROVE Spec => []CountsBounded
<1>1. RunInv => CountsBounded
  BY DEF RunInv, RunRow, CountsBounded
<1>. QED
  BY <1>1, RunsInductive, PTL

\* With row locks, and no commit lost, ExecCount counts the runs themselves: whoever saves
\* a copy over a row owns the job, and its copy has the row's count.
RunsCounted == \A j \in DOMAIN db : runs[j] = db[j].exec

LEMMA CountStep ==
    ASSUME Timely, IInv, RunsCounted, TypeOK', [Next]_vars
    PROVE  RunsCounted'
<1>a. /\ TypeOK /\ db \in Seq(Jobs) /\ runs \in Seq(Nat) /\ DOMAIN runs = DOMAIN db
      /\ \A j \in DOMAIN db : db[j].exec \in Nat
  BY RunTypes DEF IInv, TypeOK
<1>1. ASSUME UNCHANGED runs, DOMAIN db' = DOMAIN db,
             \A j \in DOMAIN db : db'[j].exec = db[j].exec
      PROVE  RunsCounted'
  BY <1>1 DEF RunsCounted
<1>2. ASSUME NEW p \in Procs, NEW job \in Jobs, job.id = proc[p].job.id,
             job.exec = proc[p].job.exec, Owns(p), db' = Saved(job), UNCHANGED runs
      PROVE  RunsCounted'
  <2>1. job.id \in DOMAIN db /\ db[job.id].exec = job.exec
    <3>1. proc[p].pc # "idle"
      BY <1>2 DEF Owns, OwningPcs
    <3>. QED
      BY <1>2, <3>1, OwnedRowIff DEF IInv, TypeOK, OwnedRow, RowOf
  <2>2. /\ DOMAIN db' = DOMAIN db /\ db'[job.id] = Touch(job)
        /\ \A j \in DOMAIN db : j # job.id => db'[j] = db[j]
    BY <1>a, <1>2, <2>1, SaveKeepsTable
  <2>3. Touch(job).exec = job.exec
    BY TouchType
  <2>. QED
    BY <1>1, <1>2, <2>1, <2>2, <2>3
<1>3. ASSUME NEW row, db' = Append(db, row), row.exec = 0, runs' = Append(runs, 0)
      PROVE  RunsCounted'
  <2>1. Len(db) = Len(runs) /\ Len(db) \in Nat /\ DOMAIN db' = 1..(Len(db) + 1)
        /\ DOMAIN db = 1..Len(db)
    BY <1>a, <1>3 DEF TypeOK
  <2>2. ASSUME NEW j \in DOMAIN db' PROVE runs'[j] = db'[j].exec
    <3>1. CASE j = Len(db) + 1
      BY <1>a, <1>3, <2>1, <3>1
    <3>2. CASE j # Len(db) + 1
      <4>1. j \in DOMAIN db /\ db'[j] = db[j] /\ runs'[j] = runs[j]
        BY <1>a, <1>3, <2>1, <3>2
      <4>. QED
        BY <4>1 DEF RunsCounted
    <3>. QED
      BY <3>1, <3>2
  <2>. QED
    BY <2>2 DEF RunsCounted
<1>4. ASSUME NEW p \in Procs, ScheduleStep(p) PROVE RunsCounted'
  <2>1. CASE SaveDeferred(p)
    <3>1. Owns(p) /\ proc[p].job \in Jobs
      BY <1>a, <2>1 DEF SaveDeferred, Owns, OwningPcs, TypeOK
    <3>. QED
      BY <2>1, <3>1, <1>2 DEF SaveDeferred
  <2>2. CASE ~ SaveDeferred(p)
    BY <1>1, <1>4, <2>2 DEF ScheduleStep, CheckHalted, Enqueue, Defer, SendOnClosed
  <2>. QED
    BY <2>1, <2>2
<1>5. ASSUME NEW w \in Workers, WorkerStep(w) \/ LoseChain(w), ~ ScheduleStep(w)
      PROVE  RunsCounted'
  <2>a. w \in Procs /\ proc[w].job \in Jobs
    BY <1>a DEF TypeOK, Procs
  <2>1. CASE Accept(w)
    <3>. DEFINE id == proc[w].job.id
                job == AcceptedCopy(proc[w].job)
    <3>1. /\ id \in DOMAIN db /\ db' = Saved(job)
          /\ runs' = [runs EXCEPT ![job.id] = @ + 1]
      BY <1>a, <2>1 DEF Accept, MayAccept, Run, TypeOK, Procs
    <3>2. job \in Jobs /\ job.id = id /\ job.exec = db[id].exec + 1
      BY <1>a, <2>a, <3>1, AcceptedCopyType
    <3>. HIDE DEF job
    <3>3. /\ DOMAIN db' = DOMAIN db /\ db'[id] = Touch(job) /\ Touch(job).exec = job.exec
          /\ \A j \in DOMAIN db : j # id => db'[j] = db[j]
      BY <1>a, <3>1, <3>2, SaveKeepsTable, TouchType
    <3>4. runs'[id] = runs[id] + 1 /\ \A j \in DOMAIN db : j # id => runs'[j] = runs[j]
      BY <1>a, <3>1, <3>2
    <3>. QED
      BY <3>1, <3>2, <3>3, <3>4 DEF RunsCounted
  <2>2. CASE AcceptRead(w) \/ AcceptSave(w)
    BY <2>2, <2>a DEF AcceptRead, AcceptSave, IInv, NeverHalfAccepted, Timely
  <2>3. CASE NoExecutor(w) \/ Succeed(w) \/ Err(w)
    <3>1. PICK job \in Jobs : /\ job.id = proc[w].job.id /\ job.exec = proc[w].job.exec
                              /\ db' = Saved(job) /\ UNCHANGED runs
      <4>1. CASE NoExecutor(w)
        <5>. DEFINE copy == [proc[w].job EXCEPT !.state = "NO_AVAILABLE_WORKERS"]
        <5>1. copy \in Jobs /\ copy.id = proc[w].job.id /\ copy.exec = proc[w].job.exec
          BY <2>a DEF Jobs, States
        <5>. QED
          BY <4>1, <5>1 DEF NoExecutor
      <4>2. CASE Succeed(w)
        <5>. DEFINE copy == [proc[w].job EXCEPT !.state = "COMPLETE"]
        <5>1. copy \in Jobs /\ copy.id = proc[w].job.id /\ copy.exec = proc[w].job.exec
          BY <2>a DEF Jobs, States
        <5>. QED
          BY <4>2, <5>1 DEF Succeed, Finish
      <4>3. CASE Err(w)
        <5>1. PICK state \in {"FAILED", "ERROR"} :
                  Finish(w, [proc[w].job EXCEPT !.state = state, !.errs = @ + 1])
          BY <4>3 DEF Err
        <5>. DEFINE n == proc[w].job.errs + 1
                    copy == [proc[w].job EXCEPT !.state = state, !.errs = n]
        <5>2. n \in Nat /\ state \in States
          BY <2>a DEF Jobs, States
        <5>3. db' = Saved(copy) /\ UNCHANGED runs
          BY <5>1 DEF Finish
        <5>. HIDE DEF n
        <5>4. copy \in Jobs
          BY <2>a, <5>2, Zenon DEF Jobs
        <5>5. copy.id = proc[w].job.id /\ copy.exec = proc[w].job.exec
          BY <2>a DEF Jobs
        <5>. HIDE DEF copy
        <5>. QED
          BY <5>3, <5>4, <5>5
      <4>. QED
        BY <2>3, <4>1, <4>2, <4>3
    <3>2. Owns(w)
      BY <2>3 DEF NoExecutor, Succeed, Err, Finish, Owns, OwningPcs
    <3>. QED
      BY <2>a, <3>1, <3>2, <1>2
  <2>4. CASE Fill(w)
    <3>1. Owns(w) /\ db' = Saved(proc[w].job) /\ UNCHANGED runs
      BY <2>4 DEF Fill, Owns, OwningPcs
    <3>. QED
      BY <2>a, <3>1, <1>2
  <2>5. CASE Notify(w)
    <3>1. NewJob(Len(db) + 1, "notice").exec = 0
      BY DEF NewJob
    <3>. QED
      BY <2>5, <3>1, <1>3 DEF Notify
  <2>6. CASE Dequeue(w) \/ Refuse(w) \/ Pause(w) \/ LoseChain(w)
    BY <2>6, <1>1 DEF Dequeue, Refuse, Pause, LoseChain
  <2>. QED
    BY <1>5, <2>1, <2>2, <2>3, <2>4, <2>5, <2>6 DEF WorkerStep
<1>6. CASE Tick
  <2>1. /\ UNCHANGED runs /\ DOMAIN db' = DOMAIN db
        /\ \A j \in DOMAIN db : db'[j] = Older(db[j]) /\ db[j] \in Jobs
    BY <1>a, <1>6, RunTypes DEF Tick
  <2>2. \A j \in DOMAIN db : db'[j].exec = db[j].exec
    BY <2>1, OlderType
  <2>. QED
    BY <1>1, <2>1, <2>2
<1>7. ASSUME NEW c \in Clients, Submit(c) PROVE RunsCounted'
  <2>1. PICK kind \in Kinds : db' = Append(db, NewJob(Len(db) + 1, kind))
    BY <1>7, ConstantsOK DEF Submit
  <2>2. NewJob(Len(db) + 1, kind).exec = 0 /\ runs' = Append(runs, 0)
    BY <1>7 DEF Submit, NewJob
  <2>. QED
    BY <1>3, <2>1, <2>2
<1>8. CASE \/ \E p \in Procs : StoreFails(p)
           \/ SchedulerStep \/ Halt \/ Resume \/ Crash \/ Stop \/ UNCHANGED vars
  BY <1>8, <1>1 DEF StoreFails, SchedulerStep, vars,
     Poll, Feed, Skip, FeedClosed, Halt, Resume, Crash, Stop
<1>9. CASE \E w \in Workers : AcceptUncommitted(w)
  BY <1>9 DEF AcceptUncommitted, Disturb, Timely
<1>. QED
  BY <1>4, <1>5, <1>6, <1>7, <1>8, <1>9 DEF Next, Procs

\* The executor of a job is called MaxErr + 1 times at most, and once more for every
\* disturbance, however many copies of the job are queued: with row locks, every commit
\* reaching the database, and no goroutine holding a job for the accepted grace period.
THEOREM RunsAreBounded == ASSUME Timely PROVE Spec => []RunsBounded
<1>1. Init => RunsCounted
  BY DEF Init, RunsCounted
<1>2. IInv /\ RunsCounted /\ TypeOK' /\ [Next]_vars => RunsCounted'
  BY CountStep
<1>3. RunsCounted /\ CountsBounded => RunsBounded
  BY DEF RunsCounted, CountsBounded, RunsBounded
<1>4. Spec => []CountsBounded
  BY CountsAreBounded DEF Timely
<1>. QED
  BY <1>1, <1>2, <1>3, <1>4, TypeCorrect, Inductive, PTL DEF Spec

-----------------------------------------------------------------------------
(* The pool implements JobLedger: every step of it is a step of the        *)
(* ledger, under the mapping of WorkerPool's Ledger.                       *)

\* A deferred copy is saved as open: no goroutine that never ran a job ends it.
DeferredIsOpen ==
    \A p \in Procs : proc[p].pc = "defer" => proc[p].job.state = "NO_AVAILABLE_WORKERS"

LEMMA DeferredStep == TypeOK /\ DeferredIsOpen /\ [Next]_vars => DeferredIsOpen'
<1>. SUFFICES ASSUME TypeOK, DeferredIsOpen, [Next]_vars PROVE DeferredIsOpen'
  OBVIOUS
<1>a. /\ proc \in [Procs -> [pc : Pcs, job : Jobs]]
      /\ \A p \in Procs : proc[p].job \in Jobs
  BY DEF TypeOK
<1>b. ASSUME NEW p \in Procs, NEW s, Becomes(p, s),
             s.pc = "defer" => s.job.state = "NO_AVAILABLE_WORKERS"
      PROVE  DeferredIsOpen'
  BY <1>a, <1>b DEF Becomes, DeferredIsOpen
<1>c. ASSUME UNCHANGED proc PROVE DeferredIsOpen'
  BY <1>c DEF DeferredIsOpen
<1>1. ASSUME NEW p \in Procs, ScheduleStep(p) PROVE DeferredIsOpen'
  <2>1. CASE Defer(p)
    <3>. DEFINE deferred == [proc[p].job EXCEPT !.state = "NO_AVAILABLE_WORKERS"]
    <3>1. deferred.state = "NO_AVAILABLE_WORKERS"
      BY <1>a DEF Jobs
    <3>2. Becomes(p, At("defer", deferred))
      BY <2>1 DEF Defer
    <3>. HIDE DEF deferred
    <3>. QED
      BY <1>b, <3>1, <3>2 DEF At
  <2>2. CASE CheckHalted(p)
    <3>1. PICK s : Becomes(p, s) /\ s \in {Idle, At("enqueue", proc[p].job)}
      BY <2>2 DEF CheckHalted
    <3>. QED
      BY <1>b, <3>1 DEF Idle, At
  <2>3. CASE Enqueue(p) \/ SaveDeferred(p)
    <3>1. Becomes(p, Idle)
      BY <2>3 DEF Enqueue, SaveDeferred
    <3>. QED
      BY <1>b, <3>1 DEF Idle
  <2>4. CASE SendOnClosed(p)
    BY <1>c, <2>4 DEF SendOnClosed
  <2>. QED
    BY <1>1, <2>1, <2>2, <2>3, <2>4 DEF ScheduleStep
<1>2. ASSUME NEW w \in Workers,
             \/ WorkerStep(w) /\ ~ ScheduleStep(w)
             \/ AcceptUncommitted(w) \/ LoseChain(w)
      PROVE  DeferredIsOpen'
  <2>1. \E s : Becomes(w, s) /\ s.pc # "defer"
    <3>1. ASSUME NEW job, Finish(w, job) PROVE \E s : Becomes(w, s) /\ s.pc # "defer"
      <4>1. Becomes(w, Idle) \/ Becomes(w, At("notify", Touch(job)))
        BY <3>1 DEF Finish
      <4>. QED
        BY <4>1 DEF Idle, At
    <3>2. CASE Succeed(w) \/ Err(w)
      BY <3>1, <3>2 DEF Succeed, Err
    <3>3. CASE ~ (Succeed(w) \/ Err(w))
      BY <1>2, <3>3 DEF WorkerStep, Dequeue, Accept, AcceptRead, AcceptSave, Refuse,
         NoExecutor, Pause, Notify, Fill, AcceptUncommitted, LoseChain, Idle, At
    <3>. QED
      BY <3>2, <3>3
  <2>. QED
    BY <1>b, <2>1 DEF Procs
<1>3. CASE Tick
  <2>1. \A p \in Procs : proc'[p].pc = proc[p].pc /\ proc'[p].job.state = proc[p].job.state
    BY <1>a, <1>3, OlderType DEF Tick, At
  <2>. QED
    BY <2>1 DEF DeferredIsOpen
<1>4. CASE Crash
  BY <1>4 DEF Crash, DeferredIsOpen, Idle
<1>5. ASSUME NEW p \in Procs, StoreFails(p) PROVE DeferredIsOpen'
  BY <1>b, <1>5 DEF StoreFails, Idle
<1>6. ASSUME NEW c \in Clients, Submit(c) PROVE DeferredIsOpen'
  <2>1. \E s : Becomes(c, s) /\ s.pc # "defer"
    BY <1>6 DEF Submit, At
  <2>. QED
    BY <1>b, <2>1 DEF Procs
<1>7. CASE SchedulerStep \/ Halt \/ Resume \/ Stop \/ UNCHANGED vars
  BY <1>c, <1>7 DEF SchedulerStep, Poll, Feed, Skip, FeedClosed, Halt, Resume, Stop, vars
<1>. QED
  BY <1>1, <1>2, <1>3, <1>4, <1>5, <1>6, <1>7 DEF Next, Procs

\* What the ledger sees of the pool.
OutcomeOf(row) == IF row.state \in Terminal THEN row.state ELSE "open"
OutcomeMap == [j \in DOMAIN db |-> IF db[j].state \in Terminal THEN db[j].state ELSE "open"]
RunnerMap == [j \in DOMAIN db |-> IF Executors(j) = {} THEN Nobody
                                  ELSE CHOOSE w \in Executors(j) : TRUE]

Executes(w, j) == proc[w].pc = "execute" /\ proc[w].job.id = j

\* The runner of a job is its one executor.
RunnerIsExecutor ==
    \A j \in DOMAIN db :
        /\ \A w \in Workers : Executes(w, j) => RunnerMap[j] = w
        /\ (\A w \in Workers : ~ Executes(w, j)) => RunnerMap[j] = Nobody

LEMMA OneRunner == IInv => RunnerIsExecutor
<1>. SUFFICES ASSUME IInv, NEW j \in DOMAIN db
              PROVE  /\ \A w \in Workers : Executes(w, j) => RunnerMap[j] = w
                     /\ (\A w \in Workers : ~ Executes(w, j)) => RunnerMap[j] = Nobody
  BY DEF RunnerIsExecutor
<1>1. \A v, w \in Workers : Executes(v, j) /\ Executes(w, j) => v = w
  BY DEF IInv, ExclusiveOwner, Executes, Owns, OwningPcs, Procs
<1>2. Executors(j) = {w \in Workers : Executes(w, j)}
  BY DEF Executors, Executes
<1>3. RunnerMap[j] = IF Executors(j) = {} THEN Nobody ELSE CHOOSE w \in Executors(j) : TRUE
  BY DEF RunnerMap
<1>4. ASSUME NEW w \in Workers, Executes(w, j) PROVE RunnerMap[j] = w
  <2>1. Executors(j) = {w}
    BY <1>1, <1>2, <1>4
  <2>2. (CHOOSE v \in {w} : TRUE) = w
    OBVIOUS
  <2>. QED
    BY <1>3, <2>1, <2>2
<1>5. (\A w \in Workers : ~ Executes(w, j)) => RunnerMap[j] = Nobody
  BY <1>2, <1>3
<1>. QED
  BY <1>4, <1>5

\* The steps of the ledger, said of the two maps.
LEMMA LedgerSteps ==
    /\ OutcomeMap' = Append(OutcomeMap, "open") /\ RunnerMap' = Append(RunnerMap, Nobody)
          => Ledger!Next
    /\ \A j \in DOMAIN db, w \in Workers :
          /\ OutcomeMap[j] = "open" /\ RunnerMap[j] = Nobody
          /\ RunnerMap' = [RunnerMap EXCEPT ![j] = w] /\ OutcomeMap' = OutcomeMap
          => Ledger!Next
    /\ \A lost \in SUBSET DOMAIN db :
          /\ RunnerMap' = [j \in DOMAIN db |-> IF j \in lost THEN Nobody ELSE RunnerMap[j]]
          /\ OutcomeMap' = OutcomeMap
          => Ledger!Next
    /\ \A j \in DOMAIN db, result \in Terminal :
          /\ RunnerMap[j] # Nobody
          /\ OutcomeMap' = [OutcomeMap EXCEPT ![j] = result]
          /\ RunnerMap' = [RunnerMap EXCEPT ![j] = Nobody]
          => Ledger!Next
<1>1. DOMAIN OutcomeMap = DOMAIN db /\ DOMAIN RunnerMap = DOMAIN db
  BY DEF OutcomeMap, RunnerMap
<1>2. Terminal = Ledger!Ended
  BY DEF Terminal, Ledger!Ended
<1>3. Ledger!Next <=>
        \/ OutcomeMap' = Append(OutcomeMap, "open") /\ RunnerMap' = Append(RunnerMap, Nobody)
        \/ \E j \in DOMAIN OutcomeMap, w \in Workers :
              /\ OutcomeMap[j] = "open" /\ RunnerMap[j] = Nobody
              /\ RunnerMap' = [RunnerMap EXCEPT ![j] = w] /\ OutcomeMap' = OutcomeMap
        \/ \E lost \in SUBSET DOMAIN RunnerMap :
              /\ RunnerMap' = [j \in DOMAIN RunnerMap |->
                                 IF j \in lost THEN Nobody ELSE RunnerMap[j]]
              /\ OutcomeMap' = OutcomeMap
        \/ \E j \in DOMAIN OutcomeMap, result \in Ledger!Ended :
              /\ RunnerMap[j] # Nobody
              /\ OutcomeMap' = [OutcomeMap EXCEPT ![j] = result]
              /\ RunnerMap' = [RunnerMap EXCEPT ![j] = Nobody]
  BY DEF Ledger!Next, Ledger!Submit, Ledger!Run, Ledger!GiveUp, Ledger!End,
     OutcomeMap, RunnerMap
<1>. QED
  BY <1>1, <1>2, <1>3, Zenon

\* A step after which nobody runs what he did not run before, and that ends nothing.
LEMMA LedgerQuiet ==
    ASSUME IInv, IInv', DOMAIN db' = DOMAIN db,
           \A j \in DOMAIN db : OutcomeOf(db'[j]) = OutcomeOf(db[j]),
           \A w \in Workers : proc'[w].pc = "execute" =>
               proc[w].pc = "execute" /\ proc'[w].job.id = proc[w].job.id
    PROVE  Ledger!Next
<1>. DEFINE lost == {j \in DOMAIN db : \A w \in Workers : ~ Executes(w, j)'}
<1>1. RunnerIsExecutor /\ RunnerIsExecutor'
  BY OneRunner, PTL
<1>2. OutcomeMap' = OutcomeMap
  BY DEF OutcomeMap, OutcomeOf
<1>3. ASSUME NEW j \in DOMAIN db
      PROVE  RunnerMap'[j] = IF j \in lost THEN Nobody ELSE RunnerMap[j]
  <2>1. CASE \A w \in Workers : ~ Executes(w, j)'
    BY <1>1, <2>1 DEF RunnerIsExecutor
  <2>2. ASSUME NEW w \in Workers, Executes(w, j)' PROVE RunnerMap'[j] = RunnerMap[j] /\ j \notin lost
    BY <1>1, <2>2 DEF RunnerIsExecutor, Executes
  <2>. QED
    BY <2>1, <2>2
<1>4. RunnerMap' = [j \in DOMAIN db |-> IF j \in lost THEN Nobody ELSE RunnerMap[j]]
  <2>1. RunnerMap' = [j \in DOMAIN db |-> RunnerMap'[j]]
    BY DEF RunnerMap
  <2>. QED
    BY <1>3, <2>1
<1>5. lost \in SUBSET DOMAIN db
  OBVIOUS
<1>. QED
  BY <1>2, <1>4, <1>5, LedgerSteps

\* A step that changes the runner of one job.
LEMMA RunnerChanges ==
    ASSUME IInv, IInv', DOMAIN db' = DOMAIN db, NEW w \in Workers, NEW j \in DOMAIN db,
           NEW r, r = IF Executes(w, j)' THEN w ELSE Nobody,
           \A i \in DOMAIN db : i # j => ~ Executes(w, i) /\ ~ Executes(w, i)',
           \A v \in Workers \ {w} : proc'[v] = proc[v] /\ ~ Executes(v, j)
    PROVE  RunnerMap' = [RunnerMap EXCEPT ![j] = r]
<1>1. RunnerIsExecutor /\ RunnerIsExecutor'
  BY OneRunner, PTL
<1>2. ASSUME NEW i \in DOMAIN db, i # j PROVE RunnerMap'[i] = RunnerMap[i]
  <2>1. \A v \in Workers : Executes(v, i)' <=> Executes(v, i)
    BY <1>2 DEF Executes
  <2>. QED
    BY <1>1, <2>1 DEF RunnerIsExecutor
<1>3. RunnerMap'[j] = r
  <2>1. \A v \in Workers \ {w} : ~ Executes(v, j)'
    BY DEF Executes
  <2>. QED
    BY <1>1, <2>1 DEF RunnerIsExecutor
<1>4. RunnerMap = [i \in DOMAIN db |-> RunnerMap[i]] /\ RunnerMap' = [i \in DOMAIN db |-> RunnerMap'[i]]
  BY DEF RunnerMap
<1>. QED
  BY <1>2, <1>3, <1>4

\* A worker accepts a job.
LEMMA LedgerTakes ==
    ASSUME IInv, IInv', NEW w \in Workers, NEW j \in DOMAIN db, DOMAIN db' = DOMAIN db,
           db[j].state \notin Terminal,
           \A i \in DOMAIN db : OutcomeOf(db'[i]) = OutcomeOf(db[i]),
           proc[w].pc # "execute", Executes(w, j)',
           \A v \in Workers : ~ Executes(v, j),
           \A v \in Workers \ {w} : proc'[v] = proc[v]
    PROVE  Ledger!Next
<1>1. OutcomeMap' = OutcomeMap /\ OutcomeMap[j] = "open"
  BY DEF OutcomeMap, OutcomeOf
<1>2. RunnerMap[j] = Nobody
  BY OneRunner DEF RunnerIsExecutor
<1>3. RunnerMap' = [RunnerMap EXCEPT ![j] = w]
  <2>1. \A i \in DOMAIN db : i # j => ~ Executes(w, i) /\ ~ Executes(w, i)'
    BY DEF Executes
  <2>2. \A v \in Workers \ {w} : proc'[v] = proc[v] /\ ~ Executes(v, j)
    OBVIOUS
  <2>. QED
    BY <2>1, <2>2, RunnerChanges
<1>. QED
  BY <1>1, <1>2, <1>3, LedgerSteps

\* A worker ends the job it runs.
LEMMA LedgerEnds ==
    ASSUME IInv, IInv', NEW w \in Workers, NEW j \in DOMAIN db, DOMAIN db' = DOMAIN db,
           Executes(w, j), proc'[w].pc # "execute", db'[j].state \in Terminal,
           \A i \in DOMAIN db : i # j => db'[i] = db[i],
           \A v \in Workers \ {w} : proc'[v] = proc[v]
    PROVE  Ledger!Next
<1>1. OutcomeMap' = [OutcomeMap EXCEPT ![j] = db'[j].state]
  BY DEF OutcomeMap
<1>2. RunnerMap[j] = w /\ w # Nobody
  BY OneRunner, ConstantsOK DEF RunnerIsExecutor
<1>3. RunnerMap' = [RunnerMap EXCEPT ![j] = Nobody]
  <2>1. \A i \in DOMAIN db : i # j => ~ Executes(w, i) /\ ~ Executes(w, i)'
    BY DEF Executes
  <2>2. \A v \in Workers \ {w} : proc'[v] = proc[v] /\ ~ Executes(v, j)
    BY DEF Executes, IInv, ExclusiveOwner, Owns, OwningPcs, Procs
  <2>3. ~ Executes(w, j)'
    BY DEF Executes
  <2>. QED
    BY <2>1, <2>2, <2>3, RunnerChanges
<1>. QED
  BY <1>1, <1>2, <1>3, LedgerSteps

\* A sequence that is longer by one.
LEMMA LongerByOne ==
    ASSUME NEW n \in Nat, NEW f, NEW g, NEW e,
           f = [i \in 1 .. n |-> f[i]], g = [i \in 1 .. n + 1 |-> g[i]],
           g[n + 1] = e, \A i \in 1 .. n : g[i] = f[i]
    PROVE  g = Append(f, e)
<1>. DEFINE S == {f[i] : i \in 1 .. n} \union {e}
<1>1. f \in Seq(S) /\ Len(f) = n /\ e \in S
  <2>1. f \in [1 .. n -> S] /\ DOMAIN f = 1 .. n
    OBVIOUS
  <2>. HIDE DEF S
  <2>2. f \in Seq(S)
    BY <2>1, SeqDef
  <2>3. Len(f) = n
    BY <2>1, <2>2, LenProperties
  <2>4. e \in S
    BY DEF S
  <2>. QED
    BY <2>2, <2>3, <2>4
<1>2. Append(f, e) = [i \in 1 .. n + 1 |-> IF i <= n THEN f[i] ELSE e]
  BY <1>1, AppendProperties
<1>. HIDE DEF S
<1>3. \A i \in 1 .. n + 1 : g[i] = IF i <= n THEN f[i] ELSE e
  <2>1. \A i \in 1 .. n + 1 : i \in 1 .. n \/ (i = n + 1 /\ ~ i <= n)
    OBVIOUS
  <2>2. \A i \in 1 .. n : i <= n
    OBVIOUS
  <2>. QED
    BY <2>1, <2>2
<1>. QED
  BY <1>2, <1>3

\* A job is inserted.
LEMMA LedgerInserts ==
    ASSUME IInv, IInv', NEW kind \in Kinds, db' = Append(db, NewJob(Len(db) + 1, kind)),
           \A w \in Workers : proc[w].pc = "execute" \/ proc'[w].pc = "execute" =>
               proc'[w] = proc[w]
    PROVE  Ledger!Next
<1>. DEFINE new == NewJob(Len(db) + 1, kind)
<1>1. RunnerIsExecutor /\ RunnerIsExecutor'
  BY OneRunner, PTL
<1>2. /\ Len(db) \in Nat /\ DOMAIN db = 1 .. Len(db) /\ DOMAIN db' = 1 .. Len(db) + 1
      /\ db'[Len(db) + 1] = new /\ \A j \in DOMAIN db : db'[j] = db[j]
      /\ new.state = "INIT"
  BY NewJobType DEF IInv, TypeOK
<1>3. OutcomeMap' = Append(OutcomeMap, "open")
  <2>1. /\ OutcomeMap = [j \in 1 .. Len(db) |-> OutcomeMap[j]]
        /\ OutcomeMap' = [j \in 1 .. Len(db) + 1 |-> OutcomeMap'[j]]
        /\ \A j \in 1 .. Len(db) : OutcomeMap'[j] = OutcomeMap[j]
        /\ OutcomeMap'[Len(db) + 1] = "open"
    BY <1>2 DEF OutcomeMap, Terminal
  <2>. QED
    BY <1>2, <2>1, LongerByOne
<1>4. RunnerMap' = Append(RunnerMap, Nobody)
  <2>1. /\ RunnerMap = [j \in 1 .. Len(db) |-> RunnerMap[j]]
        /\ RunnerMap' = [j \in 1 .. Len(db) + 1 |-> RunnerMap'[j]]
    BY <1>2 DEF RunnerMap
  <2>2. \A j : \A w \in Workers : Executes(w, j)' <=> Executes(w, j)
    BY DEF Executes
  <2>3. \A j \in 1 .. Len(db) : RunnerMap'[j] = RunnerMap[j]
    BY <1>1, <1>2, <2>2 DEF RunnerIsExecutor
  <2>4. \A w \in Workers : ~ Executes(w, Len(db) + 1)
    <3>1. Len(db) + 1 \notin DOMAIN db
      BY <1>2
    <3>. QED
      BY <3>1 DEF Executes, IInv, TypeOK, Procs
  <2>5. RunnerMap'[Len(db) + 1] = Nobody
    BY <1>1, <1>2, <2>2, <2>4 DEF RunnerIsExecutor
  <2>. QED
    BY <1>2, <2>1, <2>3, <2>5, LongerByOne
<1>. QED
  BY <1>3, <1>4, LedgerSteps

\* Saving a copy that is as open as the row it is saved over ends nothing.
LEMMA OpenSave ==
    ASSUME TypeOK, NEW job \in Jobs, job.id \in DOMAIN db, db' = Saved(job),
           job.state \notin Terminal, db[job.id].state \notin Terminal
    PROVE  /\ DOMAIN db' = DOMAIN db
           /\ \A j \in DOMAIN db : OutcomeOf(db'[j]) = OutcomeOf(db[j])
BY SaveKeepsTable, TouchType DEF OutcomeOf

LEMMA LedgerStep ==
    ASSUME Timely, IInv, IInv', DeferredIsOpen, Next
    PROVE  Ledger!Next
<1>a. TypeOK /\ db \in Seq(Jobs) /\ proc \in [Procs -> [pc : Pcs, job : Jobs]]
      /\ NeverHalfAccepted /\ Workers \subseteq Procs
      /\ \A p \in Procs : proc[p].job \in Jobs
                          /\ (proc[p].pc # "idle" => proc[p].job.id \in DOMAIN db)
  BY DEF IInv, TypeOK, Procs
<1>b. ASSUME NEW p \in Procs, NEW s, Becomes(p, s), s.pc # "execute" PROVE
             \A w \in Workers : proc'[w].pc = "execute" =>
                 proc[w].pc = "execute" /\ proc'[w].job.id = proc[w].job.id
  BY <1>a, <1>b DEF Becomes
<1>c. UNCHANGED db => /\ DOMAIN db' = DOMAIN db
                      /\ \A j \in DOMAIN db : OutcomeOf(db'[j]) = OutcomeOf(db[j])
  OBVIOUS
<1>d. \A p \in Procs : Owns(p) => db[proc[p].job.id].state \in {"ACCEPTED", "INIT"}
  BY OwnedRowIff DEF IInv, OwnedRow, RowOf
<1>e. ASSUME NEW p \in Procs, NEW s, Becomes(p, s), s.pc # "execute",
             UNCHANGED db \/ \E job \in Jobs : /\ job.id = proc[p].job.id /\ db' = Saved(job)
                                               /\ job.state \notin Terminal /\ Owns(p)
      PROVE  Ledger!Next
  <2>1. CASE UNCHANGED db
    BY <1>b, <1>c, <1>e, <2>1, LedgerQuiet
  <2>2. ASSUME NEW job \in Jobs, job.id = proc[p].job.id, db' = Saved(job),
               job.state \notin Terminal, Owns(p)
        PROVE  Ledger!Next
    <3>1. job.id \in DOMAIN db /\ db[job.id].state \notin Terminal
      BY <1>a, <1>d, <2>2 DEF Owns, OwningPcs, Terminal
    <3>. QED
      BY <1>a, <1>b, <1>e, <2>2, <3>1, OpenSave, LedgerQuiet
  <2>. QED
    BY <1>e, <2>1, <2>2
<1>1. ASSUME NEW p \in Procs, ScheduleStep(p) PROVE Ledger!Next
  <2>1. CASE SendOnClosed(p)
    BY <1>c, <2>1, LedgerQuiet DEF SendOnClosed
  <2>2. CASE SaveDeferred(p)
    <3>1. /\ proc[p].job.state \notin Terminal /\ Owns(p) /\ db' = Saved(proc[p].job)
          /\ Becomes(p, Idle)
      BY <1>a, <2>2 DEF SaveDeferred, DeferredIsOpen, Terminal, Owns, OwningPcs
    <3>. QED
      BY <1>a, <1>e, <3>1 DEF Idle
  <2>3. CASE CheckHalted(p) \/ Enqueue(p) \/ Defer(p)
    <3>1. PICK s : Becomes(p, s) /\ s.pc # "execute" /\ UNCHANGED db
      BY <2>3 DEF CheckHalted, Enqueue, Defer, Idle, At
    <3>. QED
      BY <1>e, <3>1
  <2>. QED
    BY <1>1, <2>1, <2>2, <2>3 DEF ScheduleStep
<1>2. ASSUME NEW w \in Workers, NEW copy \in Jobs, copy.id = proc[w].job.id, Finish(w, copy)
      PROVE  Ledger!Next
  <2>1. PICK s : Becomes(w, s) /\ s.pc # "execute"
    BY <1>2 DEF Finish, Idle, At
  <2>2. proc[w].pc = "execute" /\ db' = Saved(copy) /\ copy.id \in DOMAIN db /\ Owns(w)
    BY <1>2, <1>a DEF Finish, Owns, OwningPcs
  <2>3. CASE copy.state \in Terminal
    <3>1. /\ DOMAIN db' = DOMAIN db /\ db'[copy.id].state = copy.state
          /\ \A j \in DOMAIN db : j # copy.id => db'[j] = db[j]
      BY <1>a, <2>2, SaveKeepsTable, TouchType
    <3>2. /\ proc'[w].pc # "execute" /\ Executes(w, copy.id)
          /\ \A v \in Workers \ {w} : proc'[v] = proc[v]
      BY <1>2, <1>a, <2>1, <2>2 DEF Becomes, Executes
    <3>. QED
      BY <2>2, <2>3, <3>1, <3>2, LedgerEnds
  <2>4. CASE copy.state \notin Terminal
    BY <1>2, <1>a, <1>e, <2>1, <2>2, <2>4
  <2>. QED
    BY <2>3, <2>4
<1>3. ASSUME NEW w \in Workers, Succeed(w) \/ Err(w) PROVE Ledger!Next
  <2>1. PICK copy \in Jobs : copy.id = proc[w].job.id /\ Finish(w, copy)
    <3>1. CASE Succeed(w)
      BY <1>a, <3>1 DEF Succeed, Jobs, States
    <3>2. CASE Err(w)
      <4>1. PICK state \in {"FAILED", "ERROR"} :
                Finish(w, [proc[w].job EXCEPT !.state = state, !.errs = @ + 1])
        BY <3>2 DEF Err
      <4>. DEFINE n == proc[w].job.errs + 1
                  copy == [proc[w].job EXCEPT !.state = state, !.errs = n]
      <4>2. n \in Nat /\ state \in States
        BY <1>a DEF Jobs, States
      <4>3. Finish(w, copy)
        BY <4>1
      <4>. HIDE DEF n
      <4>4. copy \in Jobs /\ copy.id = proc[w].job.id
        BY <1>a, <4>2, Zenon DEF Jobs
      <4>. QED
        BY <4>3, <4>4
    <3>. QED
      BY <1>3, <3>1, <3>2
  <2>. QED
    BY <1>2, <2>1
<1>4. ASSUME NEW w \in Workers, Accept(w) PROVE Ledger!Next
  <2>. DEFINE job == proc[w].job
              mine == AcceptedCopy(job)
  <2>1. /\ MayAccept(w) /\ db' = Saved(mine) /\ Becomes(w, At("execute", mine))
        /\ proc[w].pc = "accept" /\ job.id \in DOMAIN db
    BY <1>4, <1>a DEF Accept, MayAccept
  <2>2. mine \in Jobs /\ mine.id = job.id /\ mine.state = "ACCEPTED"
    BY <1>a, <2>1, AcceptedCopyType
  <2>. HIDE DEF mine
  <2>3. db[job.id].state \notin Terminal
    BY <2>1 DEF MayAccept, IsAcceptable
  <2>4. /\ DOMAIN db' = DOMAIN db
        /\ \A j \in DOMAIN db : OutcomeOf(db'[j]) = OutcomeOf(db[j])
    BY <1>a, <2>1, <2>2, <2>3, OpenSave DEF Terminal
  <2>5. \A v \in Workers : ~ Executes(v, job.id)
    BY <1>a, <2>1, OwnedIsRefused DEF Executes, Owns, OwningPcs
  <2>6. PICK j \in DOMAIN db : j = job.id
    BY <2>1
  <2>7. Executes(w, j)' /\ \A v \in Workers \ {w} : proc'[v] = proc[v]
    BY <1>a, <2>1, <2>2, <2>6 DEF Becomes, At, Executes
  <2>. QED
    BY <2>1, <2>3, <2>4, <2>5, <2>6, <2>7, LedgerTakes
<1>5. ASSUME NEW w \in Workers, NoExecutor(w) \/ Fill(w) PROVE Ledger!Next
  <2>1. CASE NoExecutor(w)
    <3>. DEFINE copy == [proc[w].job EXCEPT !.state = "NO_AVAILABLE_WORKERS"]
    <3>1. copy \in Jobs /\ copy.id = proc[w].job.id /\ copy.state \notin Terminal
      BY <1>a DEF Jobs, States, Terminal
    <3>2. db' = Saved(copy) /\ Becomes(w, Idle) /\ Owns(w)
      BY <2>1 DEF NoExecutor, Owns, OwningPcs
    <3>. HIDE DEF copy
    <3>. QED
      BY <1>a, <1>e, <3>1, <3>2 DEF Idle
  <2>2. CASE Fill(w)
    <3>1. Owns(w) /\ proc[w].pc = "fill" /\ db' = Saved(proc[w].job) /\ w \in Procs
          /\ Becomes(w, At("schedule", Touch(proc[w].job)))
      BY <1>a, <2>2 DEF Fill, Owns, OwningPcs
    <3>2. proc[w].job.state \notin Terminal
      BY <3>1, OwnedRowIff DEF IInv, OwnedRow, RowOf, Terminal
    <3>3. PICK s : Becomes(w, s) /\ s.pc # "execute"
      BY <3>1 DEF At
    <3>. QED
      BY <1>a, <1>e, <3>1, <3>2, <3>3
  <2>. QED
    BY <1>5, <2>1, <2>2
<1>6. ASSUME NEW w \in Workers, Dequeue(w) \/ Refuse(w) \/ Pause(w) \/ LoseChain(w)
      PROVE  Ledger!Next
  <2>1. PICK s : Becomes(w, s) /\ s.pc # "execute" /\ UNCHANGED db
    BY <1>6 DEF Dequeue, Refuse, Pause, LoseChain, Idle, At
  <2>. QED
    BY <1>a, <1>e, <2>1
<1>7. ASSUME NEW w \in Workers, AcceptUncommitted(w) \/ AcceptRead(w) \/ AcceptSave(w)
      PROVE  Ledger!Next
  BY <1>7, <1>a DEF AcceptUncommitted, AcceptRead, AcceptSave, Timely, Disturb,
     NeverHalfAccepted
<1>8. ASSUME NEW w \in Workers, Notify(w) PROVE Ledger!Next
  <2>1. PICK s : /\ db' = Append(db, NewJob(Len(db) + 1, "notice"))
                 /\ Becomes(w, s) /\ s.pc = "fill" /\ proc[w].pc = "notify"
    BY <1>8 DEF Notify, At
  <2>2. \A v \in Workers : proc[v].pc = "execute" \/ proc'[v].pc = "execute" =>
            proc'[v] = proc[v]
    BY <1>a, <2>1 DEF Becomes
  <2>. QED
    BY <2>1, <2>2, LedgerInserts, PcsAndKinds
<1>9. ASSUME NEW c \in Clients, Submit(c) PROVE Ledger!Next
  <2>1. PICK kind \in Kinds : /\ db' = Append(db, NewJob(Len(db) + 1, kind))
                              /\ Becomes(c, At("schedule", NewJob(Len(db) + 1, kind)))
                              /\ proc[c].pc = "idle"
    BY <1>9, ConstantsOK DEF Submit
  <2>2. \A v \in Workers : proc[v].pc = "execute" \/ proc'[v].pc = "execute" =>
            proc'[v] = proc[v]
    BY <1>a, <2>1 DEF Becomes, At
  <2>. QED
    BY <2>1, <2>2, LedgerInserts
<1>10. ASSUME NEW p \in Procs, StoreFails(p) PROVE Ledger!Next
  BY <1>10, <1>e DEF StoreFails, Idle
<1>11. CASE Tick
  <2>1. DOMAIN db' = DOMAIN db /\ \A j \in DOMAIN db : OutcomeOf(db'[j]) = OutcomeOf(db[j])
    BY <1>a, <1>11, OlderType DEF Tick, OutcomeOf
  <2>2. \A w \in Workers : proc'[w].pc = proc[w].pc /\ proc'[w].job.id = proc[w].job.id
    BY <1>a, <1>11, OlderType DEF Tick, At
  <2>. QED
    BY <2>1, <2>2, LedgerQuiet
<1>12. CASE Crash
  <2>1. UNCHANGED db /\ \A w \in Workers : proc'[w].pc # "execute"
    BY <1>a, <1>12 DEF Crash, Idle
  <2>. QED
    BY <1>c, <2>1, LedgerQuiet
<1>13. CASE SchedulerStep \/ Halt \/ Resume \/ Stop
  <2>1. UNCHANGED <<db, proc>>
    BY <1>13 DEF SchedulerStep, Poll, Feed, Skip, FeedClosed, Halt, Resume, Stop
  <2>. QED
    BY <1>c, <2>1, LedgerQuiet
<1>. QED
  BY <1>1, <1>3, <1>4, <1>5, <1>6, <1>7, <1>8, <1>9, <1>10, <1>11, <1>12, <1>13
  DEF Next, WorkerStep, Procs

\* The pool keeps the promise of JobLedger: a job is run by one runner at a time, ends
\* once, by the hand of the one that runs it, and stays ended.
THEOREM ImplementsLedger == ASSUME Timely PROVE Spec => KeepsLedger
<1>1. Init => Ledger!Init
  <2>. SUFFICES ASSUME Init PROVE Ledger!Init
    OBVIOUS
  <2>1. DOMAIN db = {}
    BY DEF Init
  <2>2. OutcomeMap = <<>> /\ RunnerMap = <<>>
    BY <2>1 DEF OutcomeMap, RunnerMap
  <2>. QED
    BY <2>2 DEF Ledger!Init, OutcomeMap, RunnerMap
<1>2. Init => DeferredIsOpen
  BY DEF Init, DeferredIsOpen, Idle
<1>3. TypeOK /\ DeferredIsOpen /\ [Next]_vars => DeferredIsOpen'
  BY DeferredStep
<1>4. IInv /\ IInv' /\ DeferredIsOpen /\ [Next]_vars =>
          [Ledger!Next]_<<OutcomeMap, RunnerMap>>
  <2>. SUFFICES ASSUME IInv, IInv', DeferredIsOpen, [Next]_vars
                PROVE  [Ledger!Next]_<<OutcomeMap, RunnerMap>>
    OBVIOUS
  <2>1. CASE Next
    BY <2>1, LedgerStep
  <2>2. CASE UNCHANGED vars
    BY <2>2 DEF vars, OutcomeMap, RunnerMap, Executors
  <2>. QED
    BY <2>1, <2>2
<1>5. KeepsLedger <=> Ledger!Init /\ [][Ledger!Next]_<<OutcomeMap, RunnerMap>>
  BY DEF KeepsLedger, Ledger!Spec, OutcomeMap, RunnerMap
<1>. QED
  BY <1>1, <1>2, <1>3, <1>4, <1>5, TypeCorrect, Inductive, PTL DEF Spec
-----------------------------------------------------------------------------
(* What the webhook is told: the truth, in one notice, and never nothing.  *)
(*                                                                         *)
(* A notice carries the state its job had when it ended.  It stays true,   *)
(* because that outcome is final; it is the only one, because a job is     *)
(* ended by its one owner; and it has its content when it runs, because it *)
(* has no copy that could be run before Fill has saved it.                 *)

\* A copy has the result of its row, but for the notice that is about to be filled in.
CopiesAgree ==
    /\ \A i \in DOMAIN queue : queue[i].result = db[queue[i].id].result
    /\ \A job \in batch : job.result = db[job.id].result

HandAgrees(p) ==
    proc[p].pc \in {"accept"} \union (OwningPcs \ {"fill"}) =>
        proc[p].job.result = db[proc[p].job.id].result

\* A goroutine on its way from the end of a job to the content of its notice.
Tells(p) == proc[p].pc \in {"notify", "fill"}
Told(p) == IF proc[p].pc = "fill" THEN proc[p].job.result
                                  ELSE [of |-> proc[p].job.id, state |-> proc[p].job.state]

IsTrue(told) ==
    told.of \in DOMAIN db /\ db[told.of].state \in Terminal /\ told.state = db[told.of].state

Notice(n) == db[n].kind = "notice" /\ db[n].result # Blank

TellsTruth(p) == Tells(p) => IsTrue(Told(p))

TellsOnce ==
    /\ \A p, q \in Procs : Tells(p) /\ Tells(q) /\ p # q => Told(p).of # Told(q).of
    /\ \A p \in Procs, n \in DOMAIN db : Tells(p) /\ Notice(n) => Told(p).of # db[n].result.of

NoticesTrue ==
    /\ \A n \in DOMAIN db : Notice(n) => IsTrue(db[n].result)
    /\ \A m, n \in DOMAIN db :
          Notice(m) /\ Notice(n) /\ db[m].result.of = db[n].result.of => m = n

BlankIsFilled ==
    faults = 0 => \A n \in DOMAIN db : db[n].kind = "notice" /\ ~ Notice(n) =>
                      \E p \in Procs : proc[p].pc = "fill" /\ proc[p].job.id = n

NoteInv ==
    /\ CopiesAgree /\ (\A p \in Procs : HandAgrees(p))
    /\ (\A p \in Procs : TellsTruth(p)) /\ TellsOnce /\ NoticesTrue /\ BlankIsFilled

\* What has ended stays ended as it has, and a row stays of its kind.
Lasting ==
    /\ DOMAIN db \subseteq DOMAIN db'
    /\ \A j \in DOMAIN db : /\ db'[j].kind = db[j].kind
                            /\ db[j].state \in Terminal => db'[j].state = db[j].state

LEMMA TruthLasts ==
    ASSUME Lasting, NEW told, IsTrue(told)
    PROVE  told.of \in DOMAIN db' /\ db'[told.of].state \in Terminal /\ told.state = db'[told.of].state
BY DEF Lasting, IsTrue

\* Who tells, and what, after a step of p: what was told before, or the end that p has
\* just given to a job.
TellingStep(p) ==
    /\ \A q \in Procs \ {p} : proc'[q] = proc[q]
    /\ Tells(p)' => \/ Tells(p) /\ Told(p)' = Told(p)
                    \/ /\ IsTrue(Told(p))'
                       /\ Told(p)'.of \in DOMAIN db /\ db[Told(p)'.of].state \notin Terminal

\* A step of one goroutine that fills in no notice.
LEMMA NoteStep ==
    ASSUME TypeOK, TypeOK', NoteInv, faults <= faults', Lasting, NEW p \in Procs,
           \A j \in DOMAIN db : db'[j].result = db[j].result,
           \A n \in DOMAIN db' \ DOMAIN db : db'[n].kind = "notice" =>
               db'[n].result = Blank /\ proc'[p].pc = "fill" /\ proc'[p].job.id = n,
           CopiesAgree', HandAgrees(p)', TellingStep(p),
           proc[p].pc = "fill" => faults < faults'
    PROVE  NoteInv'
<1>1. /\ \A q \in Procs \ {p} : proc'[q] = proc[q]
      /\ faults \in Nat /\ faults' \in Nat
      /\ DOMAIN db \subseteq DOMAIN db' /\ \A j \in DOMAIN db : db'[j].kind = db[j].kind
      /\ \A q \in Procs : proc[q].pc # "idle" => proc[q].job.id \in DOMAIN db
  BY ConstantsOK DEF TypeOK, TellingStep, Lasting
<1>2. ASSUME NEW q \in Procs \ {p}
      PROVE  (Tells(q)' <=> Tells(q)) /\ Told(q)' = Told(q)
  BY <1>1 DEF Tells, Told
<1>3. \A n \in DOMAIN db' : Notice(n)' => n \in DOMAIN db /\ Notice(n) /\ db'[n].result = db[n].result
  BY <1>1 DEF Notice
<1>4. ASSUME NEW q \in Procs \ {p} PROVE HandAgrees(q)'
  <2>1. HandAgrees(q) /\ proc'[q] = proc[q]
    BY <1>1 DEF NoteInv
  <2>. QED
    BY <1>1, <2>1 DEF HandAgrees, OwningPcs
<1>5. ASSUME NEW q \in Procs PROVE TellsTruth(q)'
  <2>1. CASE Tells(q) /\ Told(q)' = Told(q)
    <3>1. IsTrue(Told(q))
      BY <2>1 DEF NoteInv, TellsTruth
    <3>. QED
      BY <2>1, <3>1, TruthLasts DEF TellsTruth, IsTrue
  <2>2. CASE ~ (Tells(q) /\ Told(q)' = Told(q))
    BY <1>2, <2>2 DEF TellingStep, TellsTruth
  <2>. QED
    BY <2>1, <2>2
<1>6. ASSUME NEW q \in Procs, Tells(q)'
      PROVE  \/ Tells(q) /\ Told(q)' = Told(q)
             \/ q = p /\ Told(q)'.of \in DOMAIN db /\ db[Told(q)'.of].state \notin Terminal
  BY <1>2, <1>6 DEF TellingStep
<1>7. TellsOnce'
  <2>1. ASSUME NEW q \in Procs, NEW r \in Procs, Tells(q)', Tells(r)', q # r
        PROVE  Told(q)'.of # Told(r)'.of
    <3>1. ASSUME NEW s \in Procs, NEW t \in Procs, s # t, Tells(s)', Tells(t)',
                 Tells(s) /\ Told(s)' = Told(s)
          PROVE  Told(s)'.of # Told(t)'.of
      <4>1. IsTrue(Told(s))
        BY <3>1 DEF NoteInv, TellsTruth
      <4>2. CASE Tells(t) /\ Told(t)' = Told(t)
        BY <3>1, <4>2 DEF NoteInv, TellsOnce
      <4>3. CASE db[Told(t)'.of].state \notin Terminal
        BY <3>1, <4>1, <4>3 DEF IsTrue
      <4>. QED
        BY <1>6, <3>1, <4>2, <4>3
    <3>. QED
      BY <1>6, <2>1, <3>1
  <2>2. ASSUME NEW q \in Procs, NEW n \in DOMAIN db', Tells(q)', Notice(n)'
        PROVE  Told(q)'.of # db'[n].result.of
    <3>1. n \in DOMAIN db /\ Notice(n) /\ db'[n].result = db[n].result
      BY <1>3, <2>2
    <3>2. IsTrue(db[n].result)
      BY <3>1 DEF NoteInv, NoticesTrue
    <3>3. CASE Tells(q) /\ Told(q)' = Told(q)
      BY <3>1, <3>3 DEF NoteInv, TellsOnce
    <3>4. CASE db[Told(q)'.of].state \notin Terminal
      BY <3>1, <3>2, <3>4 DEF IsTrue
    <3>. QED
      BY <1>6, <2>2, <3>3, <3>4
  <2>. QED
    BY <2>1, <2>2 DEF TellsOnce
<1>8. NoticesTrue'
  <2>1. ASSUME NEW n \in DOMAIN db', Notice(n)' PROVE IsTrue(db[n].result)'
    <3>1. n \in DOMAIN db /\ IsTrue(db[n].result) /\ db'[n].result = db[n].result
      BY <1>3, <2>1 DEF NoteInv, NoticesTrue
    <3>. QED
      BY <3>1, TruthLasts DEF IsTrue
  <2>2. ASSUME NEW m \in DOMAIN db', NEW n \in DOMAIN db', Notice(m)', Notice(n)',
               db'[m].result.of = db'[n].result.of
        PROVE  m = n
    BY <1>3, <2>2 DEF NoteInv, NoticesTrue
  <2>. QED
    BY <2>1, <2>2 DEF NoticesTrue
<1>9. BlankIsFilled'
  <2>. SUFFICES ASSUME faults' = 0, NEW n \in DOMAIN db', db'[n].kind = "notice", ~ Notice(n)'
                PROVE  \E q \in Procs : proc'[q].pc = "fill" /\ proc'[q].job.id = n
    BY DEF BlankIsFilled
  <2>1. CASE n \notin DOMAIN db
    BY <2>1
  <2>2. CASE n \in DOMAIN db
    <3>1. faults = 0 /\ db[n].kind = "notice" /\ ~ Notice(n)
      BY <1>1, <2>2 DEF Notice
    <3>2. PICK q \in Procs : proc[q].pc = "fill" /\ proc[q].job.id = n
      BY <2>2, <3>1 DEF NoteInv, BlankIsFilled
    <3>3. q # p
      BY <1>1, <3>1, <3>2
    <3>. QED
      BY <1>1, <3>2, <3>3
  <2>. QED
    BY <2>1, <2>2
<1>. QED
  BY <1>4, <1>5, <1>7, <1>8, <1>9 DEF NoteInv

\* A step that moves no goroutine and no row.
LEMMA NoteUnmoved ==
    ASSUME TypeOK, TypeOK', NoteInv, faults <= faults', UNCHANGED <<db, proc>>, CopiesAgree'
    PROVE  NoteInv'
<1>1. faults' = 0 => faults = 0
  BY ConstantsOK DEF TypeOK
<1>2. \A p \in Procs : HandAgrees(p)' /\ TellsTruth(p)'
  BY DEF NoteInv, HandAgrees, TellsTruth, Tells, Told, IsTrue
<1>3. TellsOnce'
  BY DEF NoteInv, TellsOnce, Tells, Told, Notice
<1>4. NoticesTrue'
  BY DEF NoteInv, NoticesTrue, Notice, IsTrue
<1>5. BlankIsFilled'
  BY <1>1 DEF NoteInv, BlankIsFilled, Notice
<1>. QED
  BY <1>2, <1>3, <1>4, <1>5 DEF NoteInv

LEMMA LastingRows ==
    ASSUME TypeOK, Final, DOMAIN db \subseteq DOMAIN db',
           \A j \in DOMAIN db : db'[j].kind = db[j].kind
    PROVE  Lasting
<1>1. \A j \in DOMAIN db : Older(db[j]).state = db[j].state
  BY OlderType DEF TypeOK
<1>. QED
  BY <1>1 DEF Final, Lasting

\* A goroutine that lets go of its job, or moves on with a copy of its row.
LEMMA NoteMoves ==
    ASSUME TypeOK, NEW p \in Procs, NEW s, Becomes(p, s), s.pc \notin {"notify", "fill"},
           s.pc \in {"idle", "pause"} \/ s.job.result = db'[s.job.id].result
    PROVE  HandAgrees(p)' /\ TellingStep(p)
<1>1. proc'[p] = s /\ \A q \in Procs \ {p} : proc'[q] = proc[q]
  BY DEF TypeOK, Becomes
<1>. QED
  BY <1>1 DEF HandAgrees, TellingStep, Tells, OwningPcs

\* A goroutine that saves nothing.
LEMMA NoteIdles ==
    ASSUME TypeOK, TypeOK', NoteInv, faults <= faults', UNCHANGED db, NEW p \in Procs,
           CopiesAgree', HandAgrees(p)', TellingStep(p),
           proc[p].pc = "fill" => faults < faults'
    PROVE  NoteInv'
<1>1. Lasting
  BY DEF Lasting
<1>. QED
  BY <1>1, NoteStep

\* A goroutine that saves a copy with the result of its row.
LEMMA NoteSaves ==
    ASSUME TypeOK, TypeOK', NoteInv, Final, UNCHANGED <<queue, batch, faults>>, NEW p \in Procs,
           NEW job \in Jobs, job.id \in DOMAIN db, db' = Saved(job),
           job.kind = db[job.id].kind, job.result = db[job.id].result,
           HandAgrees(p)', TellingStep(p), proc[p].pc # "fill"
    PROVE  NoteInv'
<1>1. /\ DOMAIN db' = DOMAIN db /\ db'[job.id] = Touch(job)
      /\ \A j \in DOMAIN db : j # job.id => db'[j] = db[j]
  BY SaveKeepsTable
<1>2. Touch(job).kind = job.kind /\ Touch(job).result = job.result
  BY DEF Touch, Jobs
<1>3. \A j \in DOMAIN db : db'[j].kind = db[j].kind /\ db'[j].result = db[j].result
  BY <1>1, <1>2
<1>4. Lasting
  BY <1>1, <1>3, LastingRows
<1>5. CopiesAgree'
  <2>1. /\ CopiesAgree /\ queue' = queue /\ batch' = batch
        /\ \A i \in DOMAIN queue : queue[i].id \in DOMAIN db
        /\ \A copy \in batch : copy.id \in DOMAIN db
    BY DEF NoteInv, TypeOK
  <2>. QED
    BY <1>3, <2>1 DEF CopiesAgree
<1>6. faults <= faults'
  BY ConstantsOK DEF TypeOK
<1>. QED
  BY <1>1, <1>3, <1>4, <1>5, <1>6, NoteStep

\* A goroutine that inserts a row: a notice is in its hands until it is filled in.
LEMMA NoteInserts ==
    ASSUME TypeOK, TypeOK', NoteInv, Final, UNCHANGED <<queue, batch, faults>>, NEW p \in Procs,
           NEW kind \in Kinds, db' = Append(db, NewJob(Len(db) + 1, kind)),
           HandAgrees(p)', TellingStep(p), proc[p].pc # "fill",
           kind = "notice" => proc'[p].pc = "fill" /\ proc'[p].job.id = Len(db) + 1
    PROVE  NoteInv'
<1>. DEFINE new == NewJob(Len(db) + 1, kind)
<1>1. /\ DOMAIN db' = DOMAIN db \union {new.id} /\ db'[new.id] = new
      /\ \A j \in DOMAIN db : db'[j] = db[j]
      /\ new.id = Len(db) + 1 /\ new.kind = kind /\ new.result = Blank
  BY InsertType DEF TypeOK, NewJob
<1>. HIDE DEF new
<1>2. Lasting
  BY <1>1, LastingRows
<1>3. CopiesAgree'
  BY <1>1 DEF CopiesAgree, NoteInv, TypeOK
<1>4. faults <= faults'
  BY ConstantsOK DEF TypeOK
<1>. QED
  BY <1>1, <1>2, <1>3, <1>4, NoteStep

\* What a goroutine has of a job is of its kind and has its result, but for a notice
\* that is not filled in.
LEMMA HandIsRow ==
    ASSUME TypeOK, RunInv, NoteInv, NEW p \in Procs
    PROVE  /\ proc[p].job \in Jobs
           /\ proc[p].pc # "idle" => /\ proc[p].job.id \in DOMAIN db
                                     /\ proc[p].job.kind = db[proc[p].job.id].kind
           /\ proc[p].pc \in {"accept"} \union (OwningPcs \ {"fill"}) =>
                 proc[p].job.result = db[proc[p].job.id].result
BY DEF TypeOK, RunInv, RunCopy, NoteInv, HandAgrees

LEMMA NoteSchedule ==
    ASSUME TypeOK, TypeOK', RunInv, NoteInv, Final, NEW p \in Procs, ScheduleStep(p)
    PROVE  NoteInv'
<1>. DEFINE job == proc[p].job
<1>a. /\ job \in Jobs /\ queue \in Seq(Jobs) /\ CopiesAgree /\ faults \in Nat
      /\ \A i \in DOMAIN queue : queue[i].id \in DOMAIN db
  BY HandIsRow, ConstantsOK DEF TypeOK, NoteInv
<1>b. proc[p].pc \in {"schedule", "enqueue", "defer"} =>
          /\ job.id \in DOMAIN db /\ job.kind = db[job.id].kind
          /\ job.result = db[job.id].result
  BY HandIsRow DEF OwningPcs
<1>c. UNCHANGED <<queue, batch, db>> => CopiesAgree'
  BY <1>a DEF CopiesAgree
<1>d. UNCHANGED faults => faults <= faults'
  BY <1>a
<1>1. CASE CheckHalted(p)
  <2>1. PICK s : Becomes(p, s) /\ s \in {Idle, At("enqueue", job)}
    BY <1>1 DEF CheckHalted
  <2>2. proc[p].pc = "schedule" /\ UNCHANGED <<db, queue, batch, faults>>
    BY <1>1 DEF CheckHalted
  <2>3. HandAgrees(p)' /\ TellingStep(p)
    BY <1>b, <2>1, <2>2, NoteMoves DEF Idle, At
  <2>. QED
    BY <1>c, <1>d, <2>2, <2>3, NoteIdles
<1>2. CASE Enqueue(p)
  <2>1. /\ queue' = Append(queue, job) /\ UNCHANGED <<db, batch, faults>>
        /\ Becomes(p, Idle) /\ proc[p].pc = "enqueue"
    BY <1>2 DEF Enqueue
  <2>2. CopiesAgree'
    BY <1>a, <1>b, <2>1 DEF CopiesAgree
  <2>3. HandAgrees(p)' /\ TellingStep(p)
    BY <2>1, NoteMoves DEF Idle
  <2>. QED
    BY <1>d, <2>1, <2>2, <2>3, NoteIdles
<1>3. CASE Defer(p)
  <2>. DEFINE deferred == [job EXCEPT !.state = "NO_AVAILABLE_WORKERS"]
  <2>1. deferred.id = job.id /\ deferred.result = job.result
    BY <1>a DEF Jobs
  <2>2. Becomes(p, At("defer", deferred)) /\ UNCHANGED <<db, queue, batch, faults>>
        /\ proc[p].pc = "enqueue"
    BY <1>3 DEF Defer
  <2>. HIDE DEF deferred
  <2>3. HandAgrees(p)' /\ TellingStep(p)
    BY <1>b, <2>1, <2>2, NoteMoves, AtIs
  <2>. QED
    BY <1>c, <1>d, <2>2, <2>3, NoteIdles
<1>4. CASE SaveDeferred(p)
  <2>1. /\ db' = Saved(job) /\ Becomes(p, Idle) /\ proc[p].pc = "defer"
        /\ UNCHANGED <<queue, batch, faults>>
    BY <1>4 DEF SaveDeferred
  <2>2. HandAgrees(p)' /\ TellingStep(p)
    BY <2>1, NoteMoves DEF Idle
  <2>. QED
    BY <1>a, <1>b, <2>1, <2>2, NoteSaves
<1>5. CASE SendOnClosed(p)
  BY <1>5, <1>c, <1>d, NoteUnmoved DEF SendOnClosed
<1>. QED
  BY <1>1, <1>2, <1>3, <1>4, <1>5 DEF ScheduleStep

\* A notice gets its content: its row has no copy, and nobody else has the job in hand.
LEMMA NoteFills ==
    ASSUME TypeOK, TypeOK', IInv, RunInv, NoteInv, Final, NEW w \in Procs, Fill(w)
    PROVE  NoteInv'
<1>. DEFINE job == proc[w].job
<1>1. /\ db' = Saved(job) /\ Becomes(w, At("schedule", Touch(job)))
      /\ UNCHANGED <<queue, batch, faults>> /\ proc[w].pc = "fill"
  BY DEF Fill
<1>2. /\ job \in Jobs /\ job.id \in DOMAIN db /\ job.kind = db[job.id].kind
      /\ queue' = queue /\ batch' = batch /\ faults' = faults
  BY <1>1, HandIsRow
<1>3. /\ Touch(job).kind = job.kind /\ Touch(job).result = job.result /\ Touch(job).id = job.id
  BY <1>2 DEF Touch, Jobs
<1>4. /\ DOMAIN db' = DOMAIN db /\ db'[job.id] = Touch(job)
      /\ \A j \in DOMAIN db : j # job.id => db'[j] = db[j]
  BY <1>1, <1>2, SaveKeepsTable
<1>5. /\ proc'[w].pc = "schedule" /\ proc'[w].job = Touch(job)
      /\ \A q \in Procs \ {w} : proc'[q] = proc[q]
  BY <1>1, AtIs DEF TypeOK, Becomes
<1>6. Owns(w) /\ Tells(w) /\ Told(w) = job.result
  BY <1>1 DEF Owns, OwningPcs, Tells, Told
<1>7. IsTrue(job.result) /\ job.result # Blank
  <2>1. IsTrue(job.result)
    BY <1>6 DEF NoteInv, TellsTruth
  <2>2. job.result.of # 0
    BY <2>1 DEF IsTrue, TypeOK
  <2>. QED
    BY <2>1, <2>2 DEF Blank
<1>8. Lasting
  BY <1>2, <1>3, <1>4, LastingRows
<1>. HIDE DEF job
<1>9. job.id \notin CopiedJobs
  BY <1>1, <1>6 DEF IInv, NewJobIsUncopied, job
<1>10. CopiesAgree'
  <2>1. /\ \A i \in DOMAIN queue : queue[i].id \in DOMAIN db /\ queue[i].id # job.id
        /\ \A copy \in batch : copy.id \in DOMAIN db /\ copy.id # job.id
    BY <1>9 DEF TypeOK, CopiedJobs
  <2>. QED
    BY <1>2, <1>4, <2>1 DEF CopiesAgree, NoteInv
<1>11. ASSUME NEW q \in Procs PROVE HandAgrees(q)'
  <2>1. CASE q = w
    BY <1>3, <1>4, <1>5, <2>1 DEF HandAgrees
  <2>2. CASE q # w /\ proc[q].pc \in {"accept"} \union (OwningPcs \ {"fill"})
    <3>1. proc[q].job.id # job.id
      <4>1. CASE proc[q].pc = "accept"
        BY <1>9, <4>1 DEF CopiedJobs
      <4>2. CASE Owns(q)
        BY <1>6, <2>2, <4>2 DEF IInv, ExclusiveOwner, job
      <4>. QED
        BY <2>2, <4>1, <4>2 DEF Owns
    <3>2. proc[q].job.id \in DOMAIN db /\ proc[q].job.result = db[proc[q].job.id].result
      BY <2>2, HandIsRow DEF OwningPcs
    <3>. QED
      BY <1>4, <1>5, <2>2, <3>1, <3>2 DEF HandAgrees
  <2>3. CASE q # w /\ proc[q].pc \notin {"accept"} \union (OwningPcs \ {"fill"})
    BY <1>5, <2>3 DEF HandAgrees
  <2>. QED
    BY <2>1, <2>2, <2>3
<1>12. ~ Tells(w)' /\ \A q \in Procs \ {w} : (Tells(q)' <=> Tells(q)) /\ Told(q)' = Told(q)
  BY <1>5 DEF Tells, Told
<1>13. ASSUME NEW n \in DOMAIN db', n # job.id
       PROVE  n \in DOMAIN db /\ (Notice(n)' <=> Notice(n)) /\ db'[n].result = db[n].result
  BY <1>4, <1>13 DEF Notice
<1>14. db'[job.id].result = Told(w)
  BY <1>3, <1>4, <1>6 DEF job
<1>15. ASSUME NEW q \in Procs PROVE TellsTruth(q)'
  <2>. SUFFICES ASSUME Tells(q)' PROVE IsTrue(Told(q))'
    BY DEF TellsTruth
  <2>1. Tells(q) /\ Told(q)' = Told(q)
    BY <1>12
  <2>2. IsTrue(Told(q))
    BY <2>1 DEF NoteInv, TellsTruth
  <2>. QED
    BY <1>8, <2>1, <2>2, TruthLasts DEF IsTrue
<1>16. TellsOnce'
  <2>1. ASSUME NEW q \in Procs, NEW r \in Procs, Tells(q)', Tells(r)', q # r
        PROVE  Told(q)'.of # Told(r)'.of
    BY <1>12, <2>1 DEF NoteInv, TellsOnce
  <2>2. ASSUME NEW q \in Procs, NEW n \in DOMAIN db', Tells(q)', Notice(n)'
        PROVE  Told(q)'.of # db'[n].result.of
    <3>1. q # w /\ Tells(q) /\ Told(q)' = Told(q)
      BY <1>12, <2>2
    <3>2. CASE n = job.id
      BY <1>6, <1>14, <3>1, <3>2 DEF NoteInv, TellsOnce
    <3>3. CASE n # job.id
      BY <1>13, <2>2, <3>1, <3>3 DEF NoteInv, TellsOnce
    <3>. QED
      BY <3>2, <3>3
  <2>. QED
    BY <2>1, <2>2 DEF TellsOnce
<1>17. NoticesTrue'
  <2>1. ASSUME NEW n \in DOMAIN db', Notice(n)' PROVE IsTrue(db[n].result)'
    <3>1. PICK told : IsTrue(told) /\ db'[n].result = told
      <4>1. CASE n = job.id
        BY <1>6, <1>7, <1>14, <4>1
      <4>2. CASE n # job.id
        BY <1>13, <2>1, <4>2 DEF NoteInv, NoticesTrue
      <4>. QED
        BY <4>1, <4>2
    <3>. QED
      BY <1>8, <3>1, TruthLasts DEF IsTrue
  <2>2. ASSUME NEW m \in DOMAIN db', NEW n \in DOMAIN db', Notice(m)', Notice(n)', m # n
        PROVE  db'[m].result.of # db'[n].result.of
    <3>1. ASSUME NEW k \in DOMAIN db', Notice(k)', k # job.id
          PROVE  db'[k].result.of # db'[job.id].result.of
      BY <1>6, <1>13, <1>14, <3>1 DEF NoteInv, TellsOnce
    <3>2. CASE m # job.id /\ n # job.id
      BY <1>13, <2>2, <3>2 DEF NoteInv, NoticesTrue
    <3>. QED
      BY <2>2, <3>1, <3>2
  <2>. QED
    BY <2>1, <2>2 DEF NoticesTrue
<1>18. BlankIsFilled'
  <2>. SUFFICES ASSUME faults' = 0, NEW n \in DOMAIN db', db'[n].kind = "notice", ~ Notice(n)'
                PROVE  \E q \in Procs : proc'[q].pc = "fill" /\ proc'[q].job.id = n
    BY DEF BlankIsFilled
  <2>1. n # job.id
    BY <1>6, <1>7, <1>14 DEF Notice
  <2>2. n \in DOMAIN db /\ db[n].kind = "notice" /\ ~ Notice(n)
    BY <1>4, <1>13, <2>1
  <2>3. PICK q \in Procs : proc[q].pc = "fill" /\ proc[q].job.id = n
    BY <1>2, <2>2 DEF NoteInv, BlankIsFilled
  <2>. QED
    BY <1>5, <2>1, <2>3 DEF job
<1>. QED
  BY <1>10, <1>11, <1>15, <1>16, <1>17, <1>18 DEF NoteInv

\* The end of a job that asks for a notice: nobody has told of it, since it was not over.
LEMMA NoteFinish ==
    ASSUME TypeOK, TypeOK', IInv, RunInv, NoteInv, Final, NEW w \in Procs, NEW copy \in Jobs,
           copy.id = proc[w].job.id, copy.kind = proc[w].job.kind,
           copy.result = proc[w].job.result, Finish(w, copy)
    PROVE  NoteInv'
<1>1. /\ db' = Saved(copy) /\ UNCHANGED <<queue, batch, faults>> /\ proc[w].pc = "execute"
  BY DEF Finish
<1>2. /\ copy.id \in DOMAIN db /\ copy.kind = db[copy.id].kind /\ copy.result = db[copy.id].result
  BY <1>1, HandIsRow DEF OwningPcs
<1>3. db[copy.id].state \notin Terminal
  <2>1. RowOf(w).state = "ACCEPTED"
    BY <1>1, OwnedRowIff DEF IInv, OwnedRow, Owns, OwningPcs
  <2>. QED
    BY <2>1 DEF RowOf, Terminal
<1>4. HandAgrees(w)' /\ TellingStep(w)
  <2>1. CASE Becomes(w, Idle)
    BY <2>1, NoteMoves DEF Idle
  <2>2. CASE copy.state \in Terminal /\ Becomes(w, At("notify", Touch(copy)))
    <3>1. DOMAIN db' = DOMAIN db /\ db'[copy.id] = Touch(copy)
      BY <1>1, <1>2, SaveKeepsTable
    <3>2. Touch(copy).id = copy.id /\ Touch(copy).state = copy.state
      BY TouchType
    <3>3. /\ proc'[w].pc = "notify" /\ proc'[w].job = Touch(copy)
          /\ \A q \in Procs \ {w} : proc'[q] = proc[q]
      BY <2>2, AtIs DEF TypeOK, Becomes
    <3>4. Told(w)' = [of |-> copy.id, state |-> copy.state]
      BY <3>2, <3>3 DEF Told
    <3>5. IsTrue(Told(w))' /\ Told(w)'.of = copy.id
      BY <1>2, <2>2, <3>1, <3>2, <3>4 DEF IsTrue
    <3>. QED
      BY <1>2, <1>3, <3>3, <3>5 DEF HandAgrees, TellingStep, OwningPcs
  <2>. QED
    BY <2>1, <2>2 DEF Finish
<1>. QED
  BY <1>1, <1>2, <1>4, NoteSaves

LEMMA NoteWorker ==
    ASSUME Timely, TypeOK, TypeOK', IInv, RunInv, NoteInv, Final, NEW w \in Workers,
           WorkerStep(w) \/ AcceptUncommitted(w) \/ LoseChain(w)
    PROVE  NoteInv'
<1>. DEFINE job == proc[w].job
<1>a. /\ w \in Procs /\ job \in Jobs /\ queue \in Seq(Jobs) /\ CopiesAgree /\ faults \in Nat
      /\ \A i \in DOMAIN queue : queue[i].id \in DOMAIN db
  BY HandIsRow, ConstantsOK DEF TypeOK, NoteInv, Procs
<1>b. proc[w].pc \in {"accept", "execute"} =>
          /\ job.id \in DOMAIN db /\ job.kind = db[job.id].kind
          /\ job.result = db[job.id].result
  BY <1>a, HandIsRow DEF OwningPcs
<1>c. UNCHANGED <<queue, batch, db>> => CopiesAgree'
  BY <1>a DEF CopiesAgree
<1>d. UNCHANGED faults => faults <= faults'
  BY <1>a
<1>1. CASE ScheduleStep(w)
  BY <1>1, <1>a, NoteSchedule
<1>2. CASE Dequeue(w)
  <2>1. /\ queue # <<>> /\ queue' = Tail(queue) /\ UNCHANGED <<db, batch, faults>>
        /\ Becomes(w, At("accept", Head(queue))) /\ proc[w].pc = "idle"
    BY <1>2 DEF Dequeue
  <2>2. Head(queue).result = db[Head(queue).id].result
    BY <1>a, <2>1 DEF CopiesAgree
  <2>3. CopiesAgree'
    BY <1>a, <2>1 DEF CopiesAgree
  <2>4. HandAgrees(w)' /\ TellingStep(w)
    BY <1>a, <2>1, <2>2, NoteMoves, AtIs
  <2>. QED
    BY <1>a, <1>d, <2>1, <2>3, <2>4, NoteIdles
<1>3. CASE Accept(w)
  <2>. DEFINE mine == AcceptedCopy(job)
  <2>1. /\ db' = Saved(mine) /\ UNCHANGED <<queue, batch, faults>>
        /\ Becomes(w, At("execute", mine)) /\ proc[w].pc = "accept"
    BY <1>3 DEF Accept, MayAccept
  <2>2. /\ mine \in Jobs /\ mine.id = job.id
    BY <1>a, <1>b, <2>1, AcceptedCopyType
  <2>3. mine.kind = job.kind /\ mine.result = job.result
    BY <1>a DEF AcceptedCopy, Jobs
  <2>. HIDE DEF mine
  <2>4. db'[mine.id] = Touch(mine) /\ Touch(mine).result = mine.result
    BY <1>b, <2>1, <2>2, SaveKeepsTable DEF Touch, Jobs
  <2>5. HandAgrees(w)' /\ TellingStep(w)
    BY <1>a, <2>1, <2>4, NoteMoves, AtIs
  <2>. QED
    BY <1>a, <1>b, <2>1, <2>2, <2>3, <2>5, NoteSaves
<1>4. CASE AcceptUncommitted(w) \/ AcceptRead(w) \/ AcceptSave(w)
  BY <1>4, <1>a DEF AcceptUncommitted, AcceptRead, AcceptSave, Disturb, Timely, IInv,
                    NeverHalfAccepted
<1>5. CASE Refuse(w) \/ Pause(w)
  <2>1. /\ UNCHANGED <<db, queue, batch, faults>> /\ Becomes(w, Idle)
        /\ proc[w].pc \in {"accept", "pause"}
    BY <1>5 DEF Refuse, Pause, MayAccept
  <2>2. HandAgrees(w)' /\ TellingStep(w)
    BY <1>a, <2>1, NoteMoves DEF Idle
  <2>. QED
    BY <1>a, <1>c, <1>d, <2>1, <2>2, NoteIdles
<1>6. CASE NoExecutor(w)
  <2>. DEFINE copy == [job EXCEPT !.state = "NO_AVAILABLE_WORKERS"]
  <2>1. copy \in Jobs /\ copy.id = job.id /\ copy.kind = job.kind /\ copy.result = job.result
    BY <1>a DEF Jobs, States
  <2>2. /\ db' = Saved(copy) /\ Becomes(w, Idle) /\ UNCHANGED <<queue, batch, faults>>
        /\ proc[w].pc = "execute"
    BY <1>6 DEF NoExecutor
  <2>. HIDE DEF copy
  <2>3. HandAgrees(w)' /\ TellingStep(w)
    BY <1>a, <2>2, NoteMoves DEF Idle
  <2>. QED
    BY <1>a, <1>b, <2>1, <2>2, <2>3, NoteSaves
<1>7. CASE Succeed(w)
  <2>. DEFINE copy == [job EXCEPT !.state = "COMPLETE"]
  <2>1. copy \in Jobs /\ copy.id = job.id /\ copy.kind = job.kind /\ copy.result = job.result
    BY <1>a DEF Jobs, States
  <2>2. Finish(w, copy)
    BY <1>7 DEF Succeed
  <2>. QED
    BY <1>a, <2>1, <2>2, NoteFinish
<1>8. CASE Err(w)
  <2>1. PICK state \in {"FAILED", "ERROR"} :
            Finish(w, [job EXCEPT !.state = state, !.errs = @ + 1])
    BY <1>8 DEF Err
  <2>. DEFINE n == job.errs + 1
              copy == [job EXCEPT !.state = state, !.errs = n]
  <2>2. n \in Nat /\ state \in States
    BY <1>a DEF Jobs, States
  <2>3. Finish(w, copy)
    BY <2>1
  <2>. HIDE DEF n
  <2>4. copy \in Jobs /\ copy.id = job.id
    BY <1>a, <2>2, Zenon DEF Jobs
  <2>5. copy.kind = job.kind /\ copy.result = job.result
    BY <1>a DEF Jobs
  <2>. QED
    BY <1>a, <2>3, <2>4, <2>5, NoteFinish
<1>9. CASE LoseChain(w)
  <2>1. /\ UNCHANGED <<db, queue, batch>> /\ Becomes(w, At("pause", job))
        /\ Disturb("chain") /\ proc[w].pc = "execute"
    BY <1>9 DEF LoseChain
  <2>2. faults <= faults'
    BY <1>a, <2>1 DEF Disturb
  <2>3. HandAgrees(w)' /\ TellingStep(w)
    BY <1>a, <2>1, NoteMoves, AtIs
  <2>. QED
    BY <1>a, <1>c, <2>1, <2>2, <2>3, NoteIdles
<1>10. CASE Notify(w)
  <2>. DEFINE new == NewJob(Len(db) + 1, "notice")
              filled == [new EXCEPT !.result = [of |-> job.id, state |-> job.state]]
  <2>1. /\ db' = Append(db, new) /\ Becomes(w, At("fill", filled))
        /\ UNCHANGED <<queue, batch, faults>> /\ proc[w].pc = "notify"
    BY <1>10 DEF Notify
  <2>2. filled.id = Len(db) + 1 /\ filled.result = [of |-> job.id, state |-> job.state]
    BY DEF NewJob
  <2>. HIDE DEF filled
  <2>3. /\ proc'[w].pc = "fill" /\ proc'[w].job = filled
        /\ \A q \in Procs \ {w} : proc'[q] = proc[q]
    BY <1>a, <2>1, AtIs DEF TypeOK, Becomes
  <2>4. HandAgrees(w)' /\ TellingStep(w)
    BY <2>1, <2>2, <2>3 DEF HandAgrees, TellingStep, Tells, Told
  <2>. QED
    BY <1>a, <2>1, <2>2, <2>3, <2>4, NoteInserts, PcsAndKinds
<1>11. CASE Fill(w)
  BY <1>11, <1>a, NoteFills
<1>. QED
  BY <1>1, <1>2, <1>3, <1>4, <1>5, <1>6, <1>7, <1>8, <1>9, <1>10, <1>11 DEF WorkerStep

LEMMA NoteEnvironment ==
    ASSUME TypeOK, TypeOK', RunInv, NoteInv, Final,
           \/ SchedulerStep \/ Tick \/ Halt \/ Resume \/ Crash \/ Stop
           \/ \E c \in Clients : Submit(c)
           \/ \E p \in Procs : StoreFails(p)
    PROVE  NoteInv'
<1>a. /\ CopiesAgree /\ faults \in Nat /\ queue \in Seq(Jobs)
      /\ \A i \in DOMAIN queue : queue[i].id \in DOMAIN db
      /\ \A copy \in batch : copy.id \in DOMAIN db
  BY ConstantsOK DEF NoteInv, TypeOK
<1>1. CASE Poll
  <2>1. UNCHANGED <<db, queue, proc, faults>> /\ batch' = SchedulableJobs
    BY <1>1 DEF Poll
  <2>2. CopiesAgree'
    BY <1>a, <2>1, SchedulableType DEF CopiesAgree
  <2>. QED
    BY <1>a, <2>1, <2>2, NoteUnmoved
<1>2. CASE Feed
  <2>1. PICK job \in batch : queue' = Append(queue, job) /\ batch' = batch \ {job}
    BY <1>2 DEF Feed, Newest
  <2>2. job \in Jobs /\ UNCHANGED <<db, proc, faults>>
    BY <1>2 DEF Feed, TypeOK
  <2>3. CopiesAgree'
    BY <1>a, <2>1, <2>2 DEF CopiesAgree
  <2>. QED
    BY <1>a, <2>2, <2>3, NoteUnmoved
<1>3. CASE Skip \/ FeedClosed \/ Halt \/ Resume \/ Stop
  <2>1. UNCHANGED <<db, queue, proc>> /\ batch' \subseteq batch
    BY <1>3 DEF Skip, FeedClosed, Halt, Resume, Stop
  <2>2. faults <= faults'
    BY <1>3, <1>a, DisturbCounts DEF Skip, FeedClosed, Halt, Resume, Stop, Disturb
  <2>3. CopiesAgree'
    BY <1>a, <2>1 DEF CopiesAgree
  <2>. QED
    BY <2>1, <2>2, <2>3, NoteUnmoved
<1>4. CASE Tick
  <2>1. /\ UNCHANGED <<queue, batch, faults>> /\ DOMAIN db' = DOMAIN db
        /\ \A j \in DOMAIN db : db'[j] = Older(db[j])
        /\ \A p \in Procs : proc'[p] = IF Owns(p) THEN At(proc[p].pc, Older(proc[p].job))
                                                  ELSE proc[p]
    BY <1>4 DEF Tick
  <2>2. \A job \in Jobs : /\ Older(job).id = job.id /\ Older(job).kind = job.kind
                          /\ Older(job).state = job.state /\ Older(job).result = job.result
    BY DEF Older, Jobs
  <2>3. \A j \in DOMAIN db : /\ db'[j].kind = db[j].kind /\ db'[j].state = db[j].state
                             /\ db'[j].result = db[j].result
    BY <2>1, <2>2 DEF TypeOK
  <2>4. \A p \in Procs : /\ proc'[p].pc = proc[p].pc /\ proc'[p].job.id = proc[p].job.id
                         /\ proc'[p].job.state = proc[p].job.state
                         /\ proc'[p].job.result = proc[p].job.result
    <3>1. \A p \in Procs : proc[p].job \in Jobs
      BY DEF TypeOK
    <3>2. ASSUME NEW p \in Procs
          PROVE  \/ proc'[p] = proc[p]
                 \/ proc'[p].pc = proc[p].pc /\ proc'[p].job = Older(proc[p].job)
      BY <2>1, AtIs
    <3>. QED
      BY <2>2, <3>1, <3>2
  <2>5. CopiesAgree'
    BY <1>a, <2>1, <2>3 DEF CopiesAgree
  <2>6. ASSUME NEW p \in Procs PROVE HandAgrees(p)'
    <3>1. HandAgrees(p)
      BY DEF NoteInv
    <3>2. proc[p].pc # "idle" => proc[p].job.id \in DOMAIN db
      BY DEF TypeOK
    <3>. QED
      BY <2>3, <2>4, <3>1, <3>2 DEF HandAgrees, OwningPcs
  <2>7. \A p \in Procs : (Tells(p)' <=> Tells(p)) /\ Told(p)' = Told(p)
    BY <2>4 DEF Tells, Told
  <2>8. \A n \in DOMAIN db' : /\ n \in DOMAIN db /\ (Notice(n)' <=> Notice(n))
                              /\ db'[n].result = db[n].result
    BY <2>1, <2>3 DEF Notice
  <2>9. Lasting
    BY <2>1, <2>3 DEF Lasting
  <2>10. ASSUME NEW p \in Procs PROVE TellsTruth(p)'
    <3>. SUFFICES ASSUME Tells(p)' PROVE IsTrue(Told(p))'
      BY DEF TellsTruth
    <3>1. IsTrue(Told(p))
      BY <2>7 DEF NoteInv, TellsTruth
    <3>. QED
      BY <2>7, <2>9, <3>1, TruthLasts DEF IsTrue
  <2>11. TellsOnce'
    BY <2>7, <2>8 DEF NoteInv, TellsOnce
  <2>12. NoticesTrue'
    <3>1. ASSUME NEW n \in DOMAIN db', Notice(n)' PROVE IsTrue(db[n].result)'
      <4>1. IsTrue(db[n].result) /\ db'[n].result = db[n].result
        BY <2>8, <3>1 DEF NoteInv, NoticesTrue
      <4>. QED
        BY <2>9, <4>1, TruthLasts DEF IsTrue
    <3>. QED
      BY <2>8, <3>1 DEF NoteInv, NoticesTrue
  <2>13. BlankIsFilled'
    BY <2>1, <2>3, <2>4, <2>8 DEF NoteInv, BlankIsFilled
  <2>. QED
    BY <2>5, <2>6, <2>10, <2>11, <2>12, <2>13 DEF NoteInv
<1>5. CASE Crash
  <2>1. /\ Disturb("crash") /\ queue' = <<>> /\ batch' = {} /\ UNCHANGED db
        /\ \A p \in Procs : proc'[p] = Idle
    BY <1>5 DEF Crash
  <2>2. faults' # 0
    BY <1>a, <2>1 DEF Disturb
  <2>3. CopiesAgree'
    BY <2>1 DEF CopiesAgree
  <2>4. \A p \in Procs : HandAgrees(p)' /\ ~ Tells(p)'
    BY <2>1 DEF HandAgrees, Tells, Idle, OwningPcs
  <2>5. NoticesTrue'
    BY <2>1 DEF NoteInv, NoticesTrue, Notice, IsTrue
  <2>6. BlankIsFilled'
    BY <2>2 DEF BlankIsFilled
  <2>. QED
    BY <2>3, <2>4, <2>5, <2>6 DEF NoteInv, TellsTruth, TellsOnce
<1>6. ASSUME NEW c \in Clients, Submit(c)
      PROVE  NoteInv'
  <2>1. PICK kind \in RequestKinds :
            /\ db' = Append(db, NewJob(Len(db) + 1, kind))
            /\ Becomes(c, At("schedule", NewJob(Len(db) + 1, kind)))
    BY <1>6 DEF Submit
  <2>2. UNCHANGED <<queue, batch, faults>> /\ proc[c].pc = "idle" /\ c \in Procs
    BY <1>6 DEF Submit, Procs
  <2>3. kind \in Kinds /\ kind # "notice"
    BY ConstantsOK
  <2>. DEFINE new == NewJob(Len(db) + 1, kind)
  <2>4. db'[new.id] = new /\ Becomes(c, At("schedule", new))
    BY <2>1, <2>3, InsertType DEF TypeOK
  <2>. HIDE DEF new
  <2>5. HandAgrees(c)' /\ TellingStep(c)
    <3>1. PICK s : Becomes(c, s) /\ s.pc = "schedule" /\ s.job = new
      BY <2>4, AtIs
    <3>2. s.job.result = db'[s.job.id].result
      BY <2>4, <3>1
    <3>. QED
      BY <2>2, <3>1, <3>2, NoteMoves
  <2>. QED
    BY <2>1, <2>2, <2>3, <2>5, NoteInserts
<1>7. ASSUME NEW p \in Procs, StoreFails(p)
      PROVE  NoteInv'
  <2>1. Becomes(p, Idle) /\ UNCHANGED <<db, queue, batch>> /\ Disturb("store")
    BY <1>7 DEF StoreFails
  <2>2. faults < faults' /\ faults <= faults'
    BY <1>a, <2>1 DEF Disturb
  <2>3. HandAgrees(p)' /\ TellingStep(p)
    BY <2>1, NoteMoves DEF Idle
  <2>4. CopiesAgree'
    BY <1>a, <2>1 DEF CopiesAgree
  <2>. QED
    BY <2>1, <2>2, <2>3, <2>4, NoteIdles
<1>. QED
  BY <1>1, <1>2, <1>3, <1>4, <1>5, <1>6, <1>7 DEF SchedulerStep

LEMMA NoticesHold ==
    ASSUME TypeOK, IInv, RunInv, NoteInv
    PROVE  NoticesAreTrue
<1>1. \A j \in DOMAIN db : j # 0
  BY DEF TypeOK
<1>2. OneNoticePerEnd
  <2>. SUFFICES ASSUME NEW n \in DOMAIN db, NEW j \in DOMAIN db, Reports(n, j)
                PROVE  /\ db[n].result.state = db[j].state
                       /\ \A m \in DOMAIN db : Reports(m, j) => m = n
    BY DEF OneNoticePerEnd
  <2>1. \A m \in DOMAIN db : Reports(m, j) => Notice(m) /\ db[m].result.of = j
    BY <1>1 DEF Reports, Notice, Blank
  <2>. QED
    BY <2>1 DEF NoteInv, NoticesTrue, IsTrue
<1>3. NoticeHasContent
  <2>. SUFFICES ASSUME NEW w \in Workers, proc[w].pc = "execute", proc[w].job.kind = "notice",
                       faults = 0, proc[w].job.result = Blank
                PROVE  FALSE
    BY DEF NoticeHasContent
  <2>1. /\ w \in Procs /\ proc[w].job.id \in DOMAIN db /\ db[proc[w].job.id].kind = "notice"
        /\ db[proc[w].job.id].result = Blank
    BY HandIsRow DEF Procs, OwningPcs
  <2>2. PICK p \in Procs : proc[p].pc = "fill" /\ proc[p].job.id = proc[w].job.id
    BY <2>1 DEF NoteInv, BlankIsFilled, Notice
  <2>. QED
    BY <2>1, <2>2 DEF IInv, ExclusiveOwner, Owns, OwningPcs
<1>. QED
  BY <1>2, <1>3 DEF NoticesAreTrue

\* The end of a job makes at most one notice, and a true one, whatever is retried,
\* deferred, lost or crashes; and without a disturbance no notice is run before it has its
\* content.  How often that one notice is posted is RunsAreBounded, for its own job.
THEOREM NoticesSound == ASSUME Timely PROVE Spec => []NoticesAreTrue
<1>1. Init => NoteInv
  <2>. SUFFICES ASSUME Init PROVE NoteInv
    OBVIOUS
  <2>1. DOMAIN db = {} /\ DOMAIN queue = {} /\ batch = {} /\ \A p \in Procs : proc[p].pc = "idle"
    BY DEF Init, Idle
  <2>. QED
    BY <2>1 DEF NoteInv, CopiesAgree, HandAgrees, TellsTruth, TellsOnce, Tells, NoticesTrue,
                BlankIsFilled, OwningPcs
<1>2. ASSUME TypeOK, TypeOK', IInv, RunInv, NoteInv, [Next]_vars PROVE NoteInv'
  <2>1. Final
    BY <1>2, FinalStep
  <2>2. CASE UNCHANGED vars
    <3>1. UNCHANGED <<db, proc, queue, batch, faults>> /\ faults <= faults'
      BY <1>2, <2>2, ConstantsOK DEF vars, TypeOK
    <3>2. CopiesAgree'
      BY <1>2, <3>1 DEF NoteInv, CopiesAgree
    <3>. QED
      BY <1>2, <3>1, <3>2, NoteUnmoved
  <2>3. CASE Next
    BY <1>2, <2>1, <2>3, NoteSchedule, NoteWorker, NoteEnvironment DEF Next, Procs
  <2>. QED
    BY <1>2, <2>2, <2>3
<1>3. TypeOK /\ IInv /\ RunInv /\ NoteInv => NoticesAreTrue
  BY NoticesHold
<1>4. HoldLimit < AcceptedGrace
  BY DEF Timely
<1>5. Spec => []RunInv
  BY <1>4, RunsInductive
<1>. QED
  BY <1>1, <1>2, <1>3, <1>5, TypeCorrect, Inductive, PTL DEF Spec
=============================================================================
