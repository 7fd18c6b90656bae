----------------------------- MODULE JobMemory ------------------------------
(***************************************************************************)
(* The in-memory JobStore.  Its methods take one lock, but get returns the *)
(* stored Job itself, and hermes_check calls to_dict on it on the event    *)
(* loop, outside the lock, while a worker thread may be inside             *)
(* mark_completed.  So a finishing method is modelled field by field, and  *)
(* to_dict field by field in the order it reads.                           *)
(***************************************************************************)
EXTENDS Integers, FiniteSets

CONSTANTS
    Jobs,      \* every job id uuid4 may return
    Readers,   \* concurrent hermes_check calls
    Ttl, MaxJobs,
    MaxTime    \* bound on the clock

ASSUME MemoryJobsFinite == IsFiniteSet(Jobs)
ASSUME MemoryLimitsAreNat == Ttl \in Nat /\ MaxJobs \in Nat /\ MaxTime \in Nat
ASSUME NoneIsNoJob == "none" \notin Jobs

VARIABLES
    clock,     \* what time.time() returns: the wall clock, which may be set
    shown,     \* the latest time it has returned
    jobs,      \* the keys of the _jobs dict
    record,    \* the Job objects; an alias outlives its dict entry
    section,   \* the finishing method that holds the lock, or Free
    worker,    \* the worker thread of each job
    reader     \* how far each hermes_check has come, and what it has read

vars == <<clock, shown, jobs, record, section, worker, reader>>

NoTime == -1
Terminal == {"completed", "failed", "cancelled"}
Status == {"pending", "running"} \union Terminal

Record == [status : Status, result : BOOLEAN, error : BOOLEAN,
           finished_at : Nat \union {NoTime}]
NewRecord == [status |-> "pending", result |-> FALSE, error |-> FALSE,
              finished_at |-> NoTime]

\* A method that settles a job and the field it writes next.
Free == [job |-> "none", status |-> "none", next |-> "none"]
Section == {Free} \union
    [job : Jobs, status : Terminal, next : {"status", "outcome", "finished_at"}]

\* The fields to_dict reads, in its order; "locked" is before get has run.
Idle == [at |-> "idle", job |-> "none", now |-> 0, reply |-> NewRecord]
ReaderState == {Idle} \union
    [at : {"locked", "status", "finished_at", "result", "error", "replied"},
     job : Jobs, now : Nat, reply : Record]

TypeOK ==
    /\ shown \in Nat /\ clock \in 0..shown
    /\ jobs \in SUBSET Jobs
    /\ record \in [Jobs -> Record]
    /\ section \in Section
    /\ worker \in [Jobs -> {"none", "spawned", "marked", "ended"}]
    /\ reader \in [Readers -> ReaderState]

Init ==
    /\ clock = 0 /\ shown = 0
    /\ jobs = {}
    /\ record = [j \in Jobs |-> NewRecord]
    /\ section = Free
    /\ worker = [j \in Jobs |-> "none"]
    /\ reader = [r \in Readers |-> Idle]

\* Wrong on purpose: a job without finished_at counts as old.
Mut_ReapsUnfinished(now) == {j \in jobs : ~(record[j].finished_at < now - Ttl)}

\* Wrong on purpose: a job of just the age ttl_seconds is too old.
Mut_ReapsAtTtl(now) ==
    {j \in jobs : ~(record[j].finished_at # NoTime /\ record[j].finished_at <= now - Ttl)}

\* _reap_locked
Reaped(now) ==
    {j \in jobs : ~(record[j].finished_at # NoTime /\ record[j].finished_at < now - Ttl)}

-----------------------------------------------------------------------------
(* Methods that write one field or none are one step while the lock is     *)
(* free.                                                                   *)

\* The time was taken before the wait for the lock, in which the clock may have
\* been set: now is any time it has shown, or passed over, until here.
Create(j, now) ==
    /\ section = Free
    /\ worker[j] = "none"
    /\ Cardinality(Reaped(now)) < MaxJobs
    /\ jobs' = Reaped(now) \union {j}
    /\ worker' = [worker EXCEPT ![j] = "spawned"]
    /\ UNCHANGED <<clock, shown, record, section, reader>>

\* A refused create has reaped all the same.
CreateRefused(now) ==
    /\ section = Free
    /\ Cardinality(Reaped(now)) >= MaxJobs
    /\ jobs' = Reaped(now)
    /\ UNCHANGED <<clock, shown, record, section, worker, reader>>

\* Wrong on purpose: a status JobStatus does not know.
Mut_MarkStarted(j) ==
    /\ section = Free
    /\ worker[j] = "spawned"
    /\ worker' = [worker EXCEPT ![j] = "marked"]
    /\ record' = IF j \in jobs /\ record[j].status = "pending"
                 THEN [record EXCEPT ![j].status = "started"] ELSE record
    /\ UNCHANGED <<clock, shown, jobs, section, reader>>

MarkRunning(j) ==
    /\ section = Free
    /\ worker[j] = "spawned"
    /\ worker' = [worker EXCEPT ![j] = "marked"]
    /\ record' = IF j \in jobs /\ record[j].status = "pending"
                 THEN [record EXCEPT ![j].status = "running"] ELSE record
    /\ UNCHANGED <<clock, shown, jobs, section, reader>>

Reset ==
    /\ section = Free
    /\ jobs' = {}
    /\ UNCHANGED <<clock, shown, record, section, worker, reader>>

-----------------------------------------------------------------------------
(* mark_completed, mark_failed and mark_cancelled.                         *)

\* Wrong on purpose: only an unknown id is refused.
Mut_AcceptsAny(j) == j \in jobs

\* The early return of the three methods.
Accepts(j) == j \in jobs /\ record[j].status \notin Terminal

EnterFinish(j, s) == [job |-> j, status |-> s, next |-> "status"]

WorkerFinishes(j) ==
    /\ section = Free
    /\ worker[j] = "marked"
    /\ worker' = [worker EXCEPT ![j] = "ended"]
    /\ IF Accepts(j)
       THEN \E s \in {"completed", "failed"} : section' = EnterFinish(j, s)
       ELSE UNCHANGED section
    /\ UNCHANGED <<clock, shown, jobs, record, reader>>

CallerCancels(j) ==
    /\ section = Free
    /\ Accepts(j)
    /\ section' = EnterFinish(j, "cancelled")
    /\ UNCHANGED <<clock, shown, jobs, record, worker, reader>>

\* Wrong on purpose: the lock is released after the first assignment of a
\* cancellation.
Mut_WriteStatusAndLeave ==
    /\ section.next = "status"
    /\ record' = [record EXCEPT ![section.job].status = section.status]
    /\ section' = IF section.status = "cancelled"
                  THEN Free ELSE [section EXCEPT !.next = "outcome"]
    /\ UNCHANGED <<clock, shown, jobs, worker, reader>>

\* Wrong on purpose: finished_at is assigned before the outcome.
Mut_WriteStatusAndTime ==
    /\ section.next = "status"
    /\ record' = [record EXCEPT ![section.job].status = section.status,
                                ![section.job].finished_at = clock]
    /\ section' = [section EXCEPT
                    !.next = IF section.status = "cancelled" THEN "finished_at" ELSE "outcome"]
    /\ UNCHANGED <<clock, shown, jobs, worker, reader>>

WriteStatus ==
    /\ section.next = "status"
    /\ record' = [record EXCEPT ![section.job].status = section.status]
    /\ section' = [section EXCEPT
                    !.next = IF section.status = "cancelled" THEN "finished_at" ELSE "outcome"]
    /\ UNCHANGED <<clock, shown, jobs, worker, reader>>

WriteOutcome ==
    /\ section.next = "outcome"
    /\ record' = IF section.status = "completed"
                 THEN [record EXCEPT ![section.job].result = TRUE]
                 ELSE [record EXCEPT ![section.job].error = TRUE]
    /\ section' = [section EXCEPT !.next = "finished_at"]
    /\ UNCHANGED <<clock, shown, jobs, worker, reader>>

WriteFinishedAt ==
    /\ section.next = "finished_at"
    /\ record' = [record EXCEPT ![section.job].finished_at = clock]
    /\ section' = Free
    /\ UNCHANGED <<clock, shown, jobs, worker, reader>>

-----------------------------------------------------------------------------
(* hermes_check: get, which takes the time before the lock, then to_dict.  *)

CheckCalls(r, j) ==
    /\ reader[r].at \in {"idle", "replied"}
    /\ worker[j] # "none"
    /\ reader' = [reader EXCEPT
                    ![r] = [at |-> "locked", job |-> j, now |-> clock, reply |-> NewRecord]]
    /\ UNCHANGED <<clock, shown, jobs, record, section, worker>>

CheckGets(r) ==
    LET kept == Reaped(reader[r].now)
    IN /\ reader[r].at = "locked"
       /\ section = Free
       /\ jobs' = kept
       /\ reader' = [reader EXCEPT
                       ![r] = IF @.job \in kept THEN [@ EXCEPT !.at = "status"] ELSE Idle]
       /\ UNCHANGED <<clock, shown, record, section, worker>>

\* to_dict reads one field and goes on to the next.
Reads(r, field, next) ==
    /\ reader[r].at = field
    /\ reader' = [reader EXCEPT
                    ![r].reply[field] = record[reader[r].job][field],
                    ![r].at = next]
    /\ UNCHANGED <<clock, shown, jobs, record, section, worker>>

ToDict(r) ==
    \/ Reads(r, "status", "finished_at")
    \/ Reads(r, "finished_at", "result")
    \/ Reads(r, "result", "error")
    \/ Reads(r, "error", "replied")

\* Time passes, or somebody sets the clock of the host, also back.
ClockShows ==
    /\ \E t \in 0..MaxTime :
        /\ clock' = t
        /\ shown' = IF t > shown THEN t ELSE shown
    /\ UNCHANGED <<jobs, record, section, worker, reader>>

Next ==
    \/ ClockShows \/ Reset
    \/ WriteStatus \/ WriteOutcome \/ WriteFinishedAt
    \/ \E now \in 0..shown : CreateRefused(now) \/ \E j \in Jobs : Create(j, now)
    \/ \E j \in Jobs : MarkRunning(j) \/ WorkerFinishes(j) \/ CallerCancels(j)
    \/ \E r \in Readers :
        \/ \E j \in Jobs : CheckCalls(r, j)
        \/ CheckGets(r)
        \/ ToDict(r)

Spec == Init /\ [][Next]_vars

-----------------------------------------------------------------------------
(* Properties.                                                             *)

(* Whenever the lock is free, the fields of every record agree: nobody who *)
(* takes the lock sees a job half settled.                                 *)
CoherentWhenFree ==
    section = Free =>
        \A j \in Jobs :
            /\ record[j].status \in Terminal <=> record[j].finished_at # NoTime
            /\ record[j].status = "completed" <=> record[j].result
            /\ record[j].status = "failed" <=> record[j].error

(* A settled job keeps its status: a worker that finishes after a cancel,  *)
(* or a cancel after the worker, finds the job terminal (jobs.py:16-18).   *)
SettledOnce ==
    [][\A j \in Jobs :
        record[j].status \in Terminal => record'[j].status = record[j].status]_vars

(* A job leaves the store by a reset, or because it was settled more than  *)
(* ttl_seconds before a time the clock has shown.  Though create and get   *)
(* take the time before they wait for the lock, the clock is set meanwhile,*)
(* and a refused create reaps too, no job in flight and none just settled  *)
(* is forgotten (jobs.py:109-111).                                         *)
ForgottenOnlyWhenDue ==
    [][\A j \in jobs \ jobs' :
        Reset \/ (record[j].status \in Terminal /\ record[j].finished_at + Ttl < shown)]_vars

(* Even a reply torn by a concurrent writer that shows finished_at shows   *)
(* the outcome: the outcome is written before finished_at and read after   *)
(* it.                                                                     *)
FinishedShowsOutcome ==
    \A r \in Readers :
        LET d == reader[r].reply
        IN reader[r].at = "replied" /\ d.finished_at # NoTime =>
            \/ d.result \/ d.error
            \/ record[reader[r].job].status = "cancelled"

(* A reply that says completed carries the result: "Thread-safety: all     *)
(* reads and writes happen under a single `threading.Lock`" (jobs.py:25).  *)
CompletedShowsResult ==
    \A r \in Readers :
        LET d == reader[r].reply
        IN reader[r].at = "replied" /\ d.status = "completed" => d.result

-----------------------------------------------------------------------------
(* The promise implemented: the one JobBridge implements.  A job being     *)
(* settled is in flight until finished_at is written and the lock is free; *)
(* its thread has then started if mark_running came first.  The gateway,   *)
(* which this module leaves out, has been asked when the thread takes the  *)
(* lock with the outcome.                                                  *)

PhaseOf(j) ==
    IF worker[j] = "none" THEN "unissued"
    ELSE IF j \notin jobs THEN "gone"
    ELSE IF section.job # j THEN record[j].status
    ELSE IF worker[j] = "spawned" THEN "pending" ELSE "running"

HasResult(j) == j \in jobs /\ section.job # j /\ record[j].result

Lifecycle == INSTANCE JobLifecycle WITH
    Answers <- {"text"},
    phase <- [j \in Jobs |-> PhaseOf(j)],
    asks <- [j \in Jobs |-> IF worker[j] = "ended" THEN 1 ELSE 0],
    outcome <- [j \in Jobs |-> IF HasResult(j) THEN "text" ELSE "none"]

(* To whoever takes the lock, the store keeps the life cycle of the        *)
(* durable one ("SQLite-backed equivalent of JobStore",                    *)
(* persistent_jobs.py:27): the three assignments of a finishing method are *)
(* one step, no settled or forgotten job comes back, and only a final one  *)
(* expires.                                                                *)
ImplementsLifecycle == Lifecycle!Spec
=============================================================================
