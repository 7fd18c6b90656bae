------------------------------ MODULE JobTable ------------------------------
(***************************************************************************)
(* The `jobs` table of PersistentJobStore and the SQL statements that its  *)
(* methods run on it, as operators from a table to a table.  Every method  *)
(* holds the store's lock and one SQLite transaction, so each of them is   *)
(* one of these operators applied in a single step.                        *)
(*                                                                         *)
(* A row that does not exist has the status "absent".  SQL's NULL is       *)
(* NoText in a text column and NoTime in finished_at.                      *)
(***************************************************************************)
EXTENDS Integers, FiniteSets

CONSTANTS
    Jobs,      \* every job id uuid4 may ever return
    Answers,   \* the texts the gateway may answer with
    Unstorable,\* those SQLite cannot encode (a lone surrogate)
    Ttl,       \* ttl_seconds, in clock ticks
    MaxJobs    \* max_jobs

ASSUME JobsFinite == IsFiniteSet(Jobs)
ASSUME LimitsAreNat == Ttl \in Nat /\ MaxJobs \in Nat
ASSUME UnstorableAnswers == Unstorable \subseteq Answers
ASSUME NoTextIsNoAnswer == "none" \notin Answers

NoText == "none"
NoTime == -1

InFlightStatus == {"pending", "running"}
TerminalStatus == {"completed", "failed", "cancelled"}
Status == {"absent"} \union InFlightStatus \union TerminalStatus

(***************************************************************************)
(* The error column: the text of a HermesError, the "unexpected error:     *)
(* ..." of any other exception, or INTERRUPTED_ERROR.                      *)
(***************************************************************************)
Errors == {"gateway", "unexpected", "interrupted"}

Row == [status : Status,
        result : Answers \union {NoText},
        error : Errors \union {NoText},
        finished_at : Nat \union {NoTime}]

Table == [Jobs -> Row]

NoRow == [status |-> "absent", result |-> NoText,
          error |-> NoText, finished_at |-> NoTime]

NewRow == [NoRow EXCEPT !.status = "pending"]

EmptyTable == [j \in Jobs |-> NoRow]

Stored(t) == {j \in Jobs : t[j].status # "absent"}
InFlight(t) == {j \in Jobs : t[j].status \in InFlightStatus}

\* Wrong on purpose: the boundary of _reap is included.
Mut_ExpiredAtTtl(t, now) ==
    {j \in Jobs : t[j].finished_at # NoTime /\ t[j].finished_at <= now - Ttl}

\* _reap: DELETE ... WHERE finished_at < now - ttl; NULL < x is not true.
Expired(t, now) ==
    {j \in Jobs : /\ t[j].finished_at # NoTime
                  /\ t[j].finished_at < now - Ttl}

Reap(t, now) == [j \in Jobs |-> IF j \in Expired(t, now) THEN NoRow ELSE t[j]]

\* Wrong on purpose: one row too many.
Mut_HasRoomForOneMore(t, now) == Cardinality(Stored(Reap(t, now))) <= MaxJobs

\* The SELECT COUNT( * ) of create, after its reap.
HasRoom(t, now) == Cardinality(Stored(Reap(t, now))) < MaxJobs

\* create, when there is room for the row.
Insert(t, j, now) == [Reap(t, now) EXCEPT ![j] = NewRow]

\* Wrong on purpose: the status guard of the UPDATE is dropped.
Mut_MarkRunningRewinds(t, j) ==
    IF j \in Stored(t) THEN [t EXCEPT ![j].status = "running"] ELSE t

MarkRunning(t, j) ==
    IF t[j].status = "pending" THEN [t EXCEPT ![j].status = "running"] ELSE t

\* Wrong on purpose: a late outcome overwrites an earlier one.
Mut_FinishOverwrites(t, j, status, result, error, now) ==
    IF j \in Stored(t)
    THEN [t EXCEPT ![j] = [status |-> status, result |-> result,
                           error |-> error, finished_at |-> now]]
    ELSE t

\* _finish: the first terminal status of a job is its last one.
Finish(t, j, status, result, error, now) ==
    IF j \in InFlight(t)
    THEN [t EXCEPT ![j] = [status |-> status, result |-> result,
                           error |-> error, finished_at |-> now]]
    ELSE t

MarkCompleted(t, j, result, now) == Finish(t, j, "completed", result, NoText, now)
MarkFailed(t, j, error, now) == Finish(t, j, "failed", NoText, error, now)
MarkCancelled(t, j, now) == Finish(t, j, "cancelled", NoText, NoText, now)

\* Wrong on purpose: finished_at is not set.
Mut_FailUnfinishedUntimed(t, now) ==
    [j \in Jobs |->
        IF j \in InFlight(t)
        THEN [t[j] EXCEPT !.status = "failed", !.error = "interrupted"]
        ELSE t[j]]

\* Wrong on purpose: the message goes to the result column.
Mut_FailUnfinishedSwapped(t, now) ==
    [j \in Jobs |->
        IF j \in InFlight(t)
        THEN [t[j] EXCEPT !.status = "failed", !.result = "interrupted",
                          !.finished_at = now]
        ELSE t[j]]

\* Wrong on purpose: jobs that never started are overlooked.
Mut_FailUnfinishedRunningOnly(t, now) ==
    [j \in Jobs |->
        IF t[j].status = "running"
        THEN [t[j] EXCEPT !.status = "failed", !.error = "interrupted",
                          !.finished_at = now]
        ELSE t[j]]

\* The UPDATE a new owner runs before it serves: status, error and
\* finished_at change, the result column does not.
FailUnfinished(t, now) ==
    [j \in Jobs |->
        IF j \in InFlight(t)
        THEN [t[j] EXCEPT !.status = "failed", !.error = "interrupted",
                          !.finished_at = now]
        ELSE t[j]]

\* reset_all: DELETE FROM jobs.
ResetAll == EmptyTable
=============================================================================
