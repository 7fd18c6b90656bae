----------------------------- MODULE JobBridge ------------------------------
(***************************************************************************)
(* The asynchronous half of the bridge: server processes that own the      *)
(* durable job table one at a time, the daemon thread of every job, the    *)
(* gateway that thread calls, and the MCP callers of hermes_ask            *)
(* (async_mode), hermes_check, hermes_cancel and hermes_reset.             *)
(*                                                                         *)
(* A step is one store transaction, one gateway exchange, or the part of a *)
(* handler between two awaits.  A process may exit between any two steps:  *)
(* its threads and handlers vanish, the table stays.                       *)
(***************************************************************************)
EXTENDS JobTable

CONSTANTS
    Processes,   \* server processes started against the same store path
    Callers,     \* MCP callers, each with one call per job at a time
    Faults,      \* which of "store", "handler" and "clock" faults may happen
    MaxTime,     \* bound on the clock
    MaxExits     \* bound on process exits and failed starts

ASSUME FaultsAssumption == Faults \subseteq {"store", "handler", "clock"}
ASSUME BoundsAssumption == MaxTime \in Nat /\ MaxExits \in Nat
ASSUME NobodyIsNoProcess == "nobody" \notin Processes

VARIABLES
    clock,       \* time.time()
    rows,        \* the jobs table on disk
    owner,       \* who holds the flock on <db>.lock
    proc,        \* per process: down, opening (in __init__), up (serving)
    exits,       \* process exits and failed starts so far
    ask,         \* per job: how far the hermes_ask that created it has come
    home,        \* per job: the process that accepted it
    worker,      \* per job: where its _run_job thread is
    dispatched,  \* per job: requests for it that reached the gateway
    answer,      \* per job: the text the gateway answered with
    cancelling,  \* per caller: the hermes_cancel between its two hops
    seen         \* per caller and job: the last status it was told

serverVars == <<owner, proc, exits>>
jobVars == <<ask, home, worker, dispatched, answer>>
callerVars == <<cancelling, seen>>
vars == <<clock, rows, serverVars, jobVars, callerVars>>

Nobody == "nobody"

AskState == {"none", "created", "replied", "dropped"}

(***************************************************************************)
(* "spawned": before mark_running; "marked": before client.ask;            *)
(* "asking": the request is at the gateway; "answered", "refused" (a       *)
(* HermesError) and "raised" (any other exception): before the outcome is  *)
(* recorded; "ended": the thread returned or died of an exception;         *)
(* "killed": the process went away under it.                               *)
(***************************************************************************)
AliveState == {"spawned", "marked", "asking", "answered", "refused", "raised"}
WorkerState == {"none", "ended", "killed"} \union AliveState

SeenStatus == {"never", "pending", "running", "unknown"} \union TerminalStatus

NoCancel == [job |-> "none", changed |-> FALSE, at |-> Nobody]
Cancels == {NoCancel} \union [job : Jobs, changed : BOOLEAN, at : Processes]

Alive(j) == worker[j] \in AliveState

\* The ids a caller can name: those a hermes_ask has returned.
KnownJobs == {j \in Jobs : ask[j] = "replied"}

\* What a reply says about a job, given the table it was read from.
Reported(t, j) == IF t[j].status = "absent" THEN "unknown" ELSE t[j].status

TypeOK ==
    /\ clock \in Nat
    /\ rows \in Table
    /\ owner \in Processes \union {Nobody}
    /\ proc \in [Processes -> {"down", "opening", "up"}]
    /\ exits \in Nat
    /\ ask \in [Jobs -> AskState]
    /\ home \in [Jobs -> Processes \union {Nobody}]
    /\ worker \in [Jobs -> WorkerState]
    /\ dispatched \in [Jobs -> Nat]
    /\ answer \in [Jobs -> Answers \union {NoText}]
    /\ cancelling \in [Callers -> Cancels]
    /\ seen \in [Callers -> [Jobs -> SeenStatus]]

Init ==
    /\ clock = 0
    /\ rows = EmptyTable
    /\ owner = Nobody
    /\ proc = [p \in Processes |-> "down"]
    /\ exits = 0
    /\ ask = [j \in Jobs |-> "none"]
    /\ home = [j \in Jobs |-> Nobody]
    /\ worker = [j \in Jobs |-> "none"]
    /\ dispatched = [j \in Jobs |-> 0]
    /\ answer = [j \in Jobs |-> NoText]
    /\ cancelling = [c \in Callers |-> NoCancel]
    /\ seen = [c \in Callers |-> [j \in Jobs |-> "never"]]

-----------------------------------------------------------------------------
(* Server processes: PersistentJobStore.__init__ and process exit.         *)

\* Wrong on purpose: the start does not care for the flock.
Mut_OpenWithoutLock(p) ==
    /\ proc[p] = "down"
    /\ owner' = p
    /\ proc' = [proc EXCEPT ![p] = "opening"]
    /\ UNCHANGED <<clock, rows, exits, jobVars, callerVars>>

\* flock(LOCK_EX | LOCK_NB); while another process holds it, __init__
\* raises and the start changes nothing.
OpenOwnerLock(p) ==
    /\ proc[p] = "down"
    /\ owner = Nobody
    /\ owner' = p
    /\ proc' = [proc EXCEPT ![p] = "opening"]
    /\ UNCHANGED <<clock, rows, exits, jobVars, callerVars>>

\* The transaction that ends __init__.
RecoverUnfinished(p) ==
    /\ proc[p] = "opening"
    /\ rows' = FailUnfinished(rows, clock)
    /\ proc' = [proc EXCEPT ![p] = "up"]
    /\ UNCHANGED <<clock, owner, exits, jobVars, callerVars>>

\* Wrong on purpose: the lock file stays open after a failed start.
Mut_OpenFailsKeepsLock(p) ==
    /\ proc[p] = "opening"
    /\ exits < MaxExits
    /\ exits' = exits + 1
    /\ proc' = [proc EXCEPT ![p] = "down"]
    /\ UNCHANGED <<clock, rows, owner, jobVars, callerVars>>

\* Any exception while opening the database: both handles are closed.
OpenFails(p) ==
    /\ proc[p] = "opening"
    /\ exits < MaxExits
    /\ exits' = exits + 1
    /\ proc' = [proc EXCEPT ![p] = "down"]
    /\ owner' = Nobody
    /\ UNCHANGED <<clock, rows, jobVars, callerVars>>

\* Crash or shutdown of a process: the system releases its flock, its daemon
\* threads die where they stand, its handlers never reply.
ProcessExits(p) ==
    /\ proc[p] # "down"
    /\ exits < MaxExits
    /\ exits' = exits + 1
    /\ proc' = [proc EXCEPT ![p] = "down"]
    /\ owner' = IF owner = p THEN Nobody ELSE owner
    /\ worker' = [j \in Jobs |->
                    IF home[j] = p /\ Alive(j) THEN "killed" ELSE worker[j]]
    /\ ask' = [j \in Jobs |->
                    IF home[j] = p /\ ask[j] = "created" THEN "dropped" ELSE ask[j]]
    /\ cancelling' = [c \in Callers |->
                    IF cancelling[c].at = p THEN NoCancel ELSE cancelling[c]]
    /\ UNCHANGED <<clock, rows, home, dispatched, answer, seen>>

-----------------------------------------------------------------------------
(* hermes_ask with async_mode: create in a pool thread, then, back on the  *)
(* event loop, start the worker thread and reply.  A create refused at     *)
(* capacity rolls its own reap back, so it is no step of the model.        *)

CreateJob(p, j) ==
    /\ proc[p] = "up"
    /\ ask[j] = "none"
    /\ HasRoom(rows, clock)
    /\ rows' = Insert(rows, j, clock)
    /\ ask' = [ask EXCEPT ![j] = "created"]
    /\ home' = [home EXCEPT ![j] = p]
    /\ UNCHANGED <<clock, serverVars, worker, dispatched, answer, callerVars>>

StartWorker(c, j) ==
    /\ ask[j] = "created"
    /\ worker' = [worker EXCEPT ![j] = "spawned"]
    /\ ask' = [ask EXCEPT ![j] = "replied"]
    /\ seen' = [seen EXCEPT ![c][j] = "pending"]
    /\ UNCHANGED <<clock, rows, serverVars, home, dispatched, answer, cancelling>>

\* The handler is cancelled while it awaits create, or thread.start fails:
\* the row is committed and no thread will ever own it.
AskDropped(j) ==
    /\ "handler" \in Faults
    /\ ask[j] = "created"
    /\ ask' = [ask EXCEPT ![j] = "dropped"]
    /\ UNCHANGED <<clock, rows, serverVars, home, worker, dispatched, answer, callerVars>>

-----------------------------------------------------------------------------
(* _run_job, the thread of one job.                                        *)

MarksRunning(j) ==
    /\ worker[j] = "spawned"
    /\ rows' = MarkRunning(rows, j)
    /\ worker' = [worker EXCEPT ![j] = "marked"]
    /\ UNCHANGED <<clock, serverVars, ask, home, dispatched, answer, callerVars>>

AsksGateway(j) ==
    /\ worker[j] = "marked"
    /\ dispatched' = [dispatched EXCEPT ![j] = @ + 1]
    /\ worker' = [worker EXCEPT ![j] = "asking"]
    /\ UNCHANGED <<clock, rows, serverVars, ask, home, answer, callerVars>>

GatewayAnswers(j) ==
    /\ worker[j] = "asking"
    /\ \E a \in Answers : answer' = [answer EXCEPT ![j] = a]
    /\ worker' = [worker EXCEPT ![j] = "answered"]
    /\ UNCHANGED <<clock, rows, serverVars, ask, home, dispatched, callerVars>>

\* Wrong on purpose: a failed request is sent again.
Mut_GatewayRetries(j) ==
    /\ worker[j] = "asking"
    /\ \E w \in {"marked", "raised"} : worker' = [worker EXCEPT ![j] = w]
    /\ UNCHANGED <<clock, rows, serverVars, ask, home, dispatched, answer, callerVars>>

\* A timeout, a transport error or an unusable response raises HermesError;
\* anything else that client.ask raises is "raised".
GatewayFails(j) ==
    /\ worker[j] = "asking"
    /\ \E w \in {"refused", "raised"} : worker' = [worker EXCEPT ![j] = w]
    /\ UNCHANGED <<clock, rows, serverVars, ask, home, dispatched, answer, callerVars>>

RecordsAnswer(j) ==
    /\ worker[j] = "answered"
    /\ answer[j] \notin Unstorable
    /\ rows' = MarkCompleted(rows, j, answer[j], clock)
    /\ worker' = [worker EXCEPT ![j] = "ended"]
    /\ UNCHANGED <<clock, serverVars, ask, home, dispatched, answer, callerVars>>

\* mark_completed raises UnicodeEncodeError outside the try: the thread dies
\* with the outcome unrecorded.
AnswerUnstorable(j) ==
    /\ worker[j] = "answered"
    /\ answer[j] \in Unstorable
    /\ worker' = [worker EXCEPT ![j] = "ended"]
    /\ UNCHANGED <<clock, rows, serverVars, ask, home, dispatched, answer, callerVars>>

\* Wrong on purpose: only a HermesError is recorded.
Mut_RecordsHermesErrorOnly(j) ==
    /\ worker[j] \in {"refused", "raised"}
    /\ rows' = IF worker[j] = "refused"
               THEN MarkFailed(rows, j, "gateway", clock) ELSE rows
    /\ worker' = [worker EXCEPT ![j] = "ended"]
    /\ UNCHANGED <<clock, serverVars, ask, home, dispatched, answer, callerVars>>

RecordsFailure(j) ==
    /\ worker[j] \in {"refused", "raised"}
    /\ rows' = MarkFailed(rows, j,
                 IF worker[j] = "refused" THEN "gateway" ELSE "unexpected", clock)
    /\ worker' = [worker EXCEPT ![j] = "ended"]
    /\ UNCHANGED <<clock, serverVars, ask, home, dispatched, answer, callerVars>>

\* mark_running, mark_completed or mark_failed raises: the transaction rolls
\* back, no handler of _run_job is around the call, the thread dies.
StoreRaises(j) ==
    /\ "store" \in Faults
    /\ worker[j] \in {"spawned", "answered", "refused", "raised"}
    /\ worker' = [worker EXCEPT ![j] = "ended"]
    /\ UNCHANGED <<clock, rows, serverVars, ask, home, dispatched, answer, callerVars>>

-----------------------------------------------------------------------------
(* hermes_check, hermes_cancel and hermes_reset.                           *)

\* get returns a fresh copy of the row, so the reply is what was read.
HermesCheck(p, c, j) ==
    /\ proc[p] = "up"
    /\ cancelling[c] = NoCancel
    /\ j \in KnownJobs
    /\ rows' = Reap(rows, clock)
    /\ seen' = [seen EXCEPT ![c][j] = Reported(Reap(rows, clock), j)]
    /\ UNCHANGED <<clock, serverVars, jobVars, cancelling>>

\* hermes_check of an id there is no job for, or a hermes_cancel of one, whose
\* mark_cancelled finds no row: get reaps before it misses.
HermesCheckUnknown(p, c) ==
    /\ proc[p] = "up"
    /\ cancelling[c] = NoCancel
    /\ rows' = Reap(rows, clock)
    /\ UNCHANGED <<clock, serverVars, jobVars, callerVars>>

\* The first hop of hermes_cancel: mark_cancelled.
HermesCancelMarks(p, c, j) ==
    /\ proc[p] = "up"
    /\ cancelling[c] = NoCancel
    /\ j \in KnownJobs
    /\ rows' = MarkCancelled(rows, j, clock)
    /\ cancelling' = [cancelling EXCEPT
                        ![c] = [job |-> j, changed |-> j \in InFlight(rows), at |-> p]]
    /\ UNCHANGED <<clock, serverVars, jobVars, seen>>

\* The second hop: get, then the reply.
HermesCancelReplies(c) ==
    LET j == cancelling[c].job
    IN /\ cancelling[c] # NoCancel
       /\ rows' = Reap(rows, clock)
       /\ seen' = [seen EXCEPT ![c][j] = Reported(Reap(rows, clock), j)]
       /\ cancelling' = [cancelling EXCEPT ![c] = NoCancel]
       /\ UNCHANGED <<clock, serverVars, jobVars>>

\* The caller goes away between the hops, or the second one raises.
HermesCancelAborts(c) ==
    /\ "handler" \in Faults
    /\ cancelling[c] # NoCancel
    /\ cancelling' = [cancelling EXCEPT ![c] = NoCancel]
    /\ UNCHANGED <<clock, rows, serverVars, jobVars, seen>>

HermesReset(p, c) ==
    /\ proc[p] = "up"
    /\ cancelling[c] = NoCancel
    /\ rows' = ResetAll
    /\ UNCHANGED <<clock, serverVars, jobVars, callerVars>>

Tick ==
    /\ clock < MaxTime
    /\ clock' = clock + 1
    /\ UNCHANGED <<rows, serverVars, jobVars, callerVars>>

\* time.time() is the wall clock of the host: it may be set.
ClockIsSet ==
    /\ "clock" \in Faults
    /\ \E t \in 0..MaxTime : clock' = t
    /\ UNCHANGED <<rows, serverVars, jobVars, callerVars>>

-----------------------------------------------------------------------------
ServerStep(p) ==
    OpenOwnerLock(p) \/ RecoverUnfinished(p) \/ OpenFails(p) \/ ProcessExits(p)

WorkerStep(j) ==
    \/ MarksRunning(j) \/ AsksGateway(j)
    \/ GatewayAnswers(j) \/ GatewayFails(j)
    \/ RecordsAnswer(j) \/ AnswerUnstorable(j) \/ RecordsFailure(j)

CallerStep(c) ==
    \/ HermesCancelReplies(c)
    \/ HermesCancelAborts(c)
    \/ \E p \in Processes : HermesReset(p, c) \/ HermesCheckUnknown(p, c)
    \/ \E j \in Jobs : StartWorker(c, j)
    \/ \E p \in Processes, j \in Jobs :
        HermesCheck(p, c, j) \/ HermesCancelMarks(p, c, j)

Next ==
    \/ Tick
    \/ ClockIsSet
    \/ \E p \in Processes : ServerStep(p)
    \/ \E p \in Processes, j \in Jobs : CreateJob(p, j)
    \/ \E j \in Jobs : AskDropped(j) \/ WorkerStep(j) \/ StoreRaises(j)
    \/ \E c \in Callers : CallerStep(c)

Spec == Init /\ [][Next]_vars

(***************************************************************************)
(* Fairness.  The supervisor starts the server again (systemd              *)
(* Restart=on-failure, docker unless-stopped); threads and handlers are    *)
(* scheduled; a gateway request ends, because client.ask runs under httpx  *)
(* timeouts.  Nothing makes a caller call, the clock advance or a process  *)
(* exit.                                                                   *)
(***************************************************************************)
Fairness ==
    /\ WF_vars(\E p \in Processes : OpenOwnerLock(p))
    /\ \A p \in Processes : WF_vars(RecoverUnfinished(p))
    /\ \A j \in Jobs : /\ WF_vars(\E c \in Callers : StartWorker(c, j))
                       /\ WF_vars(WorkerStep(j))

FairSpec == Spec /\ Fairness

-----------------------------------------------------------------------------
(* Safety.                                                                 *)

(* The columns of a row agree: finished_at is set exactly when the status  *)
(* is final (the reap reads only finished_at, _finish only the status), a  *)
(* result belongs to a completed job and an error to a failed one, as      *)
(* Job.to_dict documents for its callers.                                  *)
RowWellFormed ==
    \A j \in Jobs :
        LET r == rows[j]
        IN /\ r.status \in TerminalStatus <=> r.finished_at # NoTime
           /\ r.status = "completed" <=> r.result # NoText
           /\ r.status = "failed" <=> r.error # NoText

(* The table never holds more than max_jobs rows, whatever the order of    *)
(* creates, reaps, resets and restarts: create refuses instead of evicting.*)
CapacityBound == Cardinality(Stored(rows)) <= MaxJobs

(* A job is completed only with the text the gateway gave for it, and only *)
(* if the gateway was asked exactly once: no late worker, restart or       *)
(* cancel writes another outcome over it.                                  *)
CompletedMeansAnswered ==
    \A j \in Jobs :
        rows[j].status = "completed" =>
            /\ dispatched[j] = 1
            /\ rows[j].result = answer[j]

(* A job is reported interrupted only when nothing can still deliver its   *)
(* answer: its thread is gone and no handler is about to start one.  This  *)
(* is what the owner lock is for (persistent_jobs.py:1-5).                 *)
InterruptedMeansDead ==
    \A j \in Jobs :
        rows[j].error = "interrupted" => ~Alive(j) /\ ask[j] # "created"

(* While a server is up, every job in flight is carried by a thread or by  *)
(* the handler about to start it: "Any HermesError or unexpected exception *)
(* is captured into the job record" (_run_job), so no job is left in       *)
(* flight with nobody working on it.                                       *)
InFlightIsCarried ==
    (\E p \in Processes : proc[p] = "up") =>
        \A j \in InFlight(rows) : Alive(j) \/ ask[j] = "created"

(* A server that is up serves only jobs it accepted itself among those in  *)
(* flight.  A create that outlives its cancelled handler, or a thread that *)
(* died, leaves a row that nobody settles; the start of the next server    *)
(* settles all of them before it serves, so such a row takes up capacity   *)
(* for one server life at most (persistent_jobs.py:65-69).                 *)
InFlightOfThisServer ==
    \A p \in Processes : proc[p] = "up" => \A j \in InFlight(rows) : home[j] = p

-----------------------------------------------------------------------------
(* The inductive invariant: how a row, the thread of its job, the gateway  *)
(* and the owning process hang together.  JobBridge_proofs proves it.      *)

\* A process that is not down holds the owner lock: there is one at most.
OwnerUnique == \A p \in Processes : proc[p] # "down" => owner = p

\* A job is known to a thread exactly when its hermes_ask has replied, and
\* threads and handlers live in a process that serves.
ThreadCoherent(j) ==
    /\ worker[j] = "none" <=> ask[j] # "replied"
    /\ Alive(j) \/ ask[j] = "created" =>
          /\ home[j] \in Processes
          /\ proc[home[j]] = "up"
    /\ worker[j] = "answered" => answer[j] \in Answers

\* The gateway is asked once, between marking the row and the outcome.
DispatchCoherent(j) ==
    /\ dispatched[j] \in {0, 1}
    /\ worker[j] \in {"none", "spawned", "marked"} => dispatched[j] = 0
    /\ worker[j] \in {"asking", "answered", "refused", "raised"} => dispatched[j] = 1

\* What the status of a row says about its thread.
RowCoherent(j) ==
    LET r == rows[j]
    IN /\ ask[j] = "none" => r.status = "absent"
       /\ r.status = "pending" => worker[j] \in {"none", "spawned", "killed", "ended"}
       /\ r.status = "running" => worker[j] \notin {"none", "spawned"}
       /\ r.status = "failed" => ~Alive(j) /\ ask[j] # "created"
       /\ r.status = "completed" =>
             worker[j] = "ended" /\ dispatched[j] = 1 /\ r.result = answer[j]

JobCoherent ==
    \A j \in Jobs : ThreadCoherent(j) /\ DispatchCoherent(j) /\ RowCoherent(j)

IInv ==
    /\ TypeOK
    /\ OwnerUnique
    /\ RowWellFormed
    /\ JobCoherent
    /\ CapacityBound

\* What a caller was told still agrees with the row, and a caller cancels
\* only jobs it knows.  With IInv it is inductive; ToldForward rests on it.
CallerCoherent ==
    /\ \A c \in Callers :
          cancelling[c] # NoCancel => ask[cancelling[c].job] = "replied"
    /\ \A c \in Callers, j \in Jobs :
          LET s == seen[c][j]
          IN /\ s # "never" => ask[j] = "replied"
             /\ s = "running" => rows[j].status # "pending"
             /\ s \in TerminalStatus => rows[j].status \in {s, "absent"}
             /\ s = "unknown" => rows[j].status = "absent"

-----------------------------------------------------------------------------
(* What a step may never do.                                               *)

(* Only two things make a stored row disappear: a reset, or its final      *)
(* status being older than ttl_seconds.  In particular no reap, create or  *)
(* restart ever drops a job in flight.                                     *)
ForgottenOnlyWhenDue ==
    [][\A j \in Jobs :
        (rows[j].status # "absent" /\ rows'[j].status = "absent") =>
            \/ \E p \in Processes, c \in Callers : HermesReset(p, c)
            \/ /\ rows[j].status \in TerminalStatus
               /\ rows[j].finished_at < clock - Ttl]_vars

\* The reports a caller may get after the report s.
Later(s) ==
    CASE s = "never" -> SeenStatus
      [] s = "pending" -> SeenStatus \ {"never"}
      [] s = "running" -> SeenStatus \ {"never", "pending"}
      [] OTHER -> {s, "unknown"}

(* What one caller is told about one job only moves forward, across        *)
(* restarts and in the presence of other callers: a final status never     *)
(* changes into another one, and "Polling will never turn `unknown` back   *)
(* into a result" (server.py:134).                                         *)
ToldForward ==
    [][\A c \in Callers, j \in Jobs : seen'[c][j] \in Later(seen[c][j])]_seen

(* "If the job was still in flight, `status` will be `cancelled`"          *)
(* (server.py:208): a hermes_cancel that did cancel says so.               *)
CancelTellsTruth ==
    [][\A c \in Callers :
        LET x == cancelling[c]
        IN HermesCancelReplies(c) /\ x.changed => seen'[c][x.job] = "cancelled"]_vars

-----------------------------------------------------------------------------
(* What must eventually happen.                                            *)

(* Every job accepted leaves the in-flight states, whether its worker, a   *)
(* caller or the next owner of the table settles it.                       *)
JobSettles ==
    \A j \in Jobs : (j \in InFlight(rows)) ~> (j \notin InFlight(rows))

\* A caller that polls, as the tool description of hermes_ask tells it to,
\* and does not let its other calls keep it from it.
Polls(c, j) ==
    /\ SF_vars(\E p \in Processes : HermesCheck(p, c, j))
    /\ WF_vars(HermesCancelReplies(c))

(* A caller that keeps asking for its job learns what became of it, across *)
(* the exits of the server: it is not told pending or running for ever,    *)
(* and a job recovered by another process does not vanish under it         *)
(* unanswered.  This is what hermes_check is for (server.py:117-145).      *)
PollerLearns ==
    \A c \in Callers, j \in Jobs :
        Polls(c, j) =>
            ((seen[c][j] \in {"pending", "running"}) ~> (seen[c][j] \notin {"pending", "running"}))

(* After every exit and every failed start a process serves again: neither *)
(* leaves the owner lock behind.                                           *)
ServiceReturns == []<>(\E p \in Processes : proc[p] = "up")

-----------------------------------------------------------------------------
(* The promise implemented: a job is unissued until its row is created,    *)
(* and gone once that row is.                                              *)

PhaseOf(j) ==
    IF rows[j].status # "absent" THEN rows[j].status
    ELSE IF ask[j] = "none" THEN "unissued"
    ELSE "gone"

Lifecycle == INSTANCE JobLifecycle WITH
    phase <- [j \in Jobs |-> PhaseOf(j)],
    asks <- dispatched,
    outcome <- [j \in Jobs |-> rows[j].result]

(* Every behaviour of the bridge is one the life cycle allows: no second   *)
(* gateway call for a job, none once it is reported failed, no revival of  *)
(* a settled or forgotten job.                                             *)
ImplementsLifecycle == Lifecycle!Spec
=============================================================================
