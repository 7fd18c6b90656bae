-------------------------- MODULE JobFaults_proofs ---------------------------
(***************************************************************************)
(* Proofs about what JobBridge keeps only as long as nobody interferes: a  *)
(* job in flight has a thread or a handler, and a hermes_cancel says what  *)
(* it did.  For every value of the constants it is proved which steps can  *)
(* break the one and the other; where these are excluded, both hold.       *)
(***************************************************************************)
EXTENDS JobBridge_proofs

-----------------------------------------------------------------------------
(* Jobs in flight that nobody carries.                                     *)

\* The steps after which a row may be in flight with nobody working on it:
\* a handler that vanished after its create, a thread that died of a store
\* call, an answer that SQLite cannot encode.
Loses(j) == AskDropped(j) \/ StoreRaises(j) \/ AnswerUnstorable(j)

(* Recovery leaves no job in flight. *)
LEMMA RecoveryEndsAll ==
    ASSUME TypeOK, NEW p \in Processes, RecoverUnfinished(p)
    PROVE  InFlight(rows') = {}
<1>1. rows' = FailUnfinished(rows, clock) /\ \A k \in Jobs : rows[k] \in Row
  BY DEF RecoverUnfinished, TypeOK, Table
<1>2. ASSUME NEW k \in Jobs
      PROVE  rows'[k].status \notin InFlightStatus
  <2>1. rows'[k] = IF rows[k].status \in InFlightStatus
                   THEN [rows[k] EXCEPT !.status = "failed", !.error = "interrupted",
                                        !.finished_at = clock]
                   ELSE rows[k]
    BY <1>1, FailUnfinishedRow DEF TypeOK
  <2>2. QED
    BY <1>1, <2>1 DEF InFlightStatus, Row
<1>3. QED
  BY <1>2 DEF InFlight

(* A worker that records an outcome takes its job out of flight. *)
LEMMA RecordingEndsFlight ==
    ASSUME TypeOK, NEW j \in Jobs, RecordsAnswer(j) \/ RecordsFailure(j)
    PROVE  /\ InFlight(rows') \subseteq InFlight(rows)
           /\ j \notin InFlight(rows')
<1>1. PICK status \in TerminalStatus : \E result, error :
        rows' = Finish(rows, j, status, result, error, clock)
  BY DEF RecordsAnswer, RecordsFailure, MarkCompleted, MarkFailed, TerminalStatus
<1>2. PICK result, error : rows' = Finish(rows, j, status, result, error, clock)
  BY <1>1
<1>3. rows'[j] = IF rows[j].status \in InFlightStatus
                 THEN [status |-> status, result |-> result,
                       error |-> error, finished_at |-> clock]
                 ELSE rows[j]
  BY <1>2, FinishRow DEF TypeOK
<1>4. rows'[j].status \notin InFlightStatus
  BY <1>3 DEF InFlightStatus, TerminalStatus
<1>5. QED
  BY <1>2, <1>4, InFlightShrinks DEF TypeOK, InFlight

(* While every job in flight is carried, only the three losing steps can   *)
(* leave one that is not.  An exit of the server does not: then no process *)
(* serves, and the next one fails what it finds before it does.            *)
LEMMA CarriedStep ==
    ASSUME IInv, InFlightIsCarried, [Next]_vars, \A j \in Jobs : ~Loses(j)
    PROVE  InFlightIsCarried'
<1> USE DEF IInv, TypeOK
<1> DEFINE Up == \E p \in Processes : proc[p] = "up"
           Carried(k) == Alive(k) \/ ask[k] = "created"
<1>1. ASSUME Up' => Up, InFlight(rows') \subseteq InFlight(rows),
             \A k \in InFlight(rows') : Carried(k) => Carried(k)'
      PROVE  InFlightIsCarried'
  BY <1>1 DEF InFlightIsCarried
<1>2. ASSUME NEW p \in Processes, ServerStep(p)
      PROVE  InFlightIsCarried'
  <2>1. CASE RecoverUnfinished(p)
    BY <2>1, RecoveryEndsAll DEF InFlightIsCarried
  <2>2. CASE OpenOwnerLock(p) \/ OpenFails(p)
    BY <1>1, <2>2 DEF OpenOwnerLock, OpenFails, jobVars, Alive
  <2>3. CASE ProcessExits(p)
    <3>1. \A q \in Processes : proc'[q] = "down"
      BY <2>3 DEF ProcessExits, OwnerUnique
    <3>2. QED
      BY <3>1 DEF InFlightIsCarried
  <2>4. QED
    BY <1>2, <2>1, <2>2, <2>3 DEF ServerStep
<1>3. ASSUME NEW p \in Processes, NEW j \in Jobs, CreateJob(p, j)
      PROVE  InFlightIsCarried'
  <2>1. \A k \in InFlight(rows') : k = j \/ k \in InFlight(rows)
    BY <1>3, InsertRow, ReapRow DEF CreateJob, InFlight, NoRow, InFlightStatus
  <2>2. Up /\ \A k \in Jobs : Carried(k)' <=> k = j \/ Carried(k)
    BY <1>3 DEF CreateJob, Alive
  <2>3. QED
    BY <2>1, <2>2 DEF InFlightIsCarried, InFlight
<1>4. ASSUME NEW j \in Jobs, WorkerStep(j)
      PROVE  InFlightIsCarried'
  <2>1. CASE MarksRunning(j)
    <3>1. InFlight(rows') \subseteq InFlight(rows)
      BY <2>1, InFlightShrinks DEF MarksRunning
    <3>2. \A k \in Jobs : Carried(k) => Carried(k)'
      BY <2>1 DEF MarksRunning, Alive, AliveState
    <3>3. QED
      BY <1>1, <2>1, <3>1, <3>2 DEF MarksRunning, serverVars, InFlight
  <2>2. CASE RecordsAnswer(j) \/ RecordsFailure(j)
    <3>1. InFlight(rows') \subseteq InFlight(rows) /\ j \notin InFlight(rows')
      BY <2>2, RecordingEndsFlight
    <3>2. UNCHANGED <<serverVars, ask>> /\ \A k \in Jobs : k # j => worker'[k] = worker[k]
      BY <2>2 DEF RecordsAnswer, RecordsFailure
    <3>3. QED
      BY <1>1, <3>1, <3>2 DEF serverVars, Alive, InFlight
  <2>3. CASE AsksGateway(j) \/ GatewayAnswers(j) \/ GatewayFails(j)
    <3>1. UNCHANGED <<rows, serverVars>> /\ \A k \in Jobs : Carried(k) => Carried(k)'
      BY <2>3 DEF AsksGateway, GatewayAnswers, GatewayFails, Alive, AliveState
    <3>2. QED
      BY <1>1, <3>1 DEF serverVars, InFlight
  <2>4. QED
    BY <1>4, <2>1, <2>2, <2>3 DEF WorkerStep, Loses
<1>5. ASSUME NEW c \in Callers, CallerStep(c)
      PROVE  InFlightIsCarried'
  <2>1. ASSUME InFlight(rows') \subseteq InFlight(rows), UNCHANGED <<serverVars, jobVars>>
        PROVE  InFlightIsCarried'
    BY <1>1, <2>1 DEF serverVars, jobVars, Alive
  <2>2. ASSUME NEW j \in Jobs, StartWorker(c, j)
        PROVE  InFlightIsCarried'
    BY <1>1, <2>2 DEF StartWorker, serverVars, Alive, AliveState
  <2>3. CASE \/ HermesCancelReplies(c)
             \/ \E p \in Processes, j \in Jobs : HermesCheck(p, c, j)
             \/ \E p \in Processes : HermesCheckUnknown(p, c)
    <3>1. rows' = Reap(rows, clock) /\ UNCHANGED <<serverVars, jobVars>>
      BY <2>3 DEF HermesCancelReplies, HermesCheck, HermesCheckUnknown
    <3>2. QED
      BY <2>1, <3>1, InFlightShrinks
  <2>4. ASSUME NEW p \in Processes, NEW j \in Jobs, HermesCancelMarks(p, c, j)
        PROVE  InFlightIsCarried'
    <3>1. rows' = Finish(rows, j, "cancelled", NoText, NoText, clock)
      BY <2>4 DEF HermesCancelMarks, MarkCancelled
    <3>2. InFlight(rows') \subseteq InFlight(rows)
      BY <3>1, InFlightShrinks DEF TerminalStatus
    <3>3. QED
      BY <2>1, <2>4, <3>2 DEF HermesCancelMarks
  <2>5. ASSUME NEW p \in Processes, HermesReset(p, c)
        PROVE  InFlightIsCarried'
    <3>1. InFlight(rows') = {}
      BY <2>5 DEF HermesReset, ResetAll, EmptyTable, InFlight, InFlightStatus, NoRow
    <3>2. QED
      BY <3>1 DEF InFlightIsCarried
  <2>6. CASE HermesCancelAborts(c)
    BY <2>1, <2>6 DEF HermesCancelAborts
  <2>7. QED
    BY <1>5, <2>2, <2>3, <2>4, <2>5, <2>6 DEF CallerStep
<1>6. CASE Tick \/ ClockIsSet \/ UNCHANGED vars
  BY <1>1, <1>6 DEF Tick, ClockIsSet, vars, serverVars, jobVars, Alive
<1>7. QED
  BY <1>2, <1>3, <1>4, <1>5, <1>6 DEF Next, Loses

(* A job in flight comes to be carried by nobody through three steps only, *)
(* however processes crash, restart and compete for the store: its handler *)
(* vanishes after the create, a store call of its thread raises, or its    *)
(* answer cannot be stored (_run_job, server.py:243-270).                  *)
THEOREM OnlyFaultsLoseJobs ==
    Spec => [][InFlightIsCarried /\ (\A j \in Jobs : ~Loses(j)) => InFlightIsCarried']_vars
<1>1. IInv /\ [Next]_vars =>
        [InFlightIsCarried /\ (\A j \in Jobs : ~Loses(j)) => InFlightIsCarried']_vars
  BY CarriedStep
<1>2. QED
  BY <1>1, Invariant, PTL DEF Spec

(* Without those faults every job in flight is carried while a server is   *)
(* up, whatever crashes and restarts there are.                            *)
THEOREM JobsAreCarried ==
    ASSUME Unstorable = {}, "store" \notin Faults, "handler" \notin Faults
    PROVE  Spec => []InFlightIsCarried
<1>1. Init => InFlightIsCarried
  BY DEF Init, InFlightIsCarried
<1>2. \A j \in Jobs : ~Loses(j)
  BY DEF Loses, AskDropped, StoreRaises, AnswerUnstorable
<1>3. IInv /\ InFlightIsCarried /\ [Next]_vars => InFlightIsCarried'
  BY <1>2, CarriedStep
<1>4. QED
  BY <1>1, <1>3, Invariant, PTL DEF Spec

-----------------------------------------------------------------------------
(* What a hermes_cancel says it did.                                       *)

\* Between the hops of a cancel that changed its job, the job is cancelled
\* or forgotten: its worker, the next owner of the store and other callers
\* find it settled.
CancelHolds ==
    \A c \in Callers :
        cancelling[c].changed => rows[cancelling[c].job].status \in {"cancelled", "absent"}

\* A cancel that changed its job is never told anything else than that, or
\* that the job is unknown by now.
CancelIsFinal ==
    [][\A c \in Callers :
        LET x == cancelling[c]
        IN HermesCancelReplies(c) /\ x.changed =>
              seen'[c][x.job] \in {"cancelled", "unknown"}]_vars

\* The row of a job just cancelled disappears only because another caller
\* reset the store or because its retention passed.
ForgottenByOthers ==
    \A c \in Callers :
        LET x == cancelling[c]
        IN (/\ x.changed
            /\ rows[x.job].status = "cancelled"
            /\ rows'[x.job].status # "cancelled") =>
              \/ \E p \in Processes, d \in Callers \ {c} : HermesReset(p, d)
              \/ rows[x.job].finished_at < clock - Ttl

(* A step leaves the first hop of a cancel alone, ends the cancel, or is   *)
(* that hop.                                                               *)
LEMMA StepsOfCancelling ==
    ASSUME TypeOK, [Next]_vars, NEW c \in Callers
    PROVE  \/ cancelling'[c] = cancelling[c]
           \/ cancelling'[c] = NoCancel
           \/ \E p \in Processes, j \in Jobs : HermesCancelMarks(p, c, j)
<1>1. ASSUME NEW p \in Processes, NEW d \in Callers, NEW j \in Jobs,
             HermesCancelMarks(p, d, j)
      PROVE  cancelling'[c] = cancelling[c] \/ d = c
  BY <1>1 DEF HermesCancelMarks, TypeOK
<1>2. ASSUME NEW d \in Callers, CallerStep(d)
      PROVE  \/ cancelling'[c] = cancelling[c]
             \/ cancelling'[c] = NoCancel
             \/ \E p \in Processes, j \in Jobs : HermesCancelMarks(p, c, j)
  BY <1>1, <1>2
  DEF TypeOK, CallerStep, HermesCancelReplies, HermesCancelAborts, HermesReset, StartWorker,
      HermesCheck, HermesCheckUnknown, callerVars
<1>3. ASSUME NEW p \in Processes, ProcessExits(p)
      PROVE  cancelling'[c] = cancelling[c] \/ cancelling'[c] = NoCancel
  BY <1>3 DEF ProcessExits, TypeOK
<1>4. QED
  BY <1>2, <1>3
  DEF Next, vars, callerVars, Tick, ClockIsSet, ServerStep, OpenOwnerLock,
      RecoverUnfinished, OpenFails, CreateJob, AskDropped, WorkerStep, MarksRunning,
      AsksGateway, GatewayAnswers, GatewayFails, RecordsAnswer, AnswerUnstorable,
      RecordsFailure, StoreRaises

(* A cancel between its hops is about a job that was returned to a caller. *)
LEMMA CancelKnowsJob ==
    ASSUME TypeOK, CallerCoherent, NEW c \in Callers, cancelling[c].changed
    PROVE  /\ cancelling[c] # NoCancel
           /\ cancelling[c].job \in Jobs
           /\ ask[cancelling[c].job] = "replied"
<1>1. cancelling[c] # NoCancel
  BY DEF NoCancel
<1>2. QED
  BY <1>1 DEF TypeOK, CallerCoherent, Cancels

(* A mark_cancelled that changed its job leaves it cancelled. *)
LEMMA CancelMarked ==
    ASSUME TypeOK, NEW p \in Processes, NEW c \in Callers, NEW j \in Jobs,
           HermesCancelMarks(p, c, j), cancelling'[c].changed
    PROVE  cancelling'[c].job = j /\ rows'[j].status = "cancelled"
<1>1. cancelling'[c] = [job |-> j, changed |-> j \in InFlight(rows), at |-> p]
  BY DEF HermesCancelMarks, TypeOK
<1>2. rows[j].status \in InFlightStatus /\ cancelling'[c].job = j
  <2>1. CASE j \notin InFlight(rows)
    <3>1. (j \in InFlight(rows)) = FALSE
      BY <2>1
    <3>2. cancelling'[c] = [job |-> j, changed |-> FALSE, at |-> p]
      BY <1>1, <3>1, Zenon
    <3>3. QED
      BY <3>2
  <2>2. CASE j \in InFlight(rows)
    BY <1>1, <2>2 DEF InFlight
  <2>3. QED
    BY <2>1, <2>2
<1>3. rows'[j] = [status |-> "cancelled", result |-> NoText,
                  error |-> NoText, finished_at |-> clock]
  BY <1>2, FinishRow DEF HermesCancelMarks, MarkCancelled, TypeOK
<1>4. QED
  BY <1>2, <1>3

(* Between the two hops of a cancel no step gives the job another final    *)
(* status, and none but the cancel itself ends it.                         *)
LEMMA CancelHoldsStep ==
    ASSUME IInv, CallerCoherent, CancelHolds, [Next]_vars
    PROVE  CancelHolds'
<1> USE DEF IInv
<1> SUFFICES ASSUME NEW c \in Callers, cancelling'[c].changed
             PROVE  rows'[cancelling'[c].job].status \in {"cancelled", "absent"}
  BY DEF CancelHolds
<1>1. CASE cancelling'[c] = cancelling[c]
  <2>1. PICK j \in Jobs : j = cancelling[c].job /\ ask[j] = "replied"
    BY <1>1, CancelKnowsJob
  <2>2. rows[j].status \in {"cancelled", "absent"}
    BY <1>1, <2>1 DEF CancelHolds
  <2>3. rows'[j].status \in {"cancelled", "absent"}
    BY <2>1, <2>2, RowForward DEF TerminalStatus
  <2>4. QED
    BY <1>1, <2>1, <2>3
<1>2. ASSUME NEW p \in Processes, NEW j \in Jobs, HermesCancelMarks(p, c, j)
      PROVE  rows'[cancelling'[c].job].status \in {"cancelled", "absent"}
  BY <1>2, CancelMarked
<1>3. CASE cancelling'[c] = NoCancel
  BY <1>3 DEF NoCancel
<1>4. QED
  BY <1>1, <1>2, <1>3, StepsOfCancelling

(* The reply of a cancel reports the row as its own reap leaves it. *)
LEMMA CancelReplyRow ==
    ASSUME TypeOK, CallerCoherent, NEW c \in Callers, NEW j \in Jobs,
           cancelling[c].job = j, HermesCancelReplies(c)
    PROVE  seen'[c][j] = Reported(Reap(rows, clock), j)
BY DEF HermesCancelReplies, TypeOK

(* A hermes_cancel that cancelled its job is told so, or that the job is   *)
(* unknown; never the outcome of the worker it raced with, nor of a        *)
(* recovery (server.py:201-210, 355-375).                                  *)
THEOREM CancelsAreFinal == Spec => CancelIsFinal
<1> DEFINE Final == \A c \in Callers : HermesCancelReplies(c) /\ cancelling[c].changed =>
                      seen'[c][cancelling[c].job] \in {"cancelled", "unknown"}
<1>1. Init => CallerCoherent /\ CancelHolds
  BY DEF Init, CallerCoherent, CancelHolds, NoCancel, TerminalStatus
<1>2. IInv /\ CallerCoherent /\ CancelHolds /\ [Next]_vars => (CallerCoherent /\ CancelHolds)'
  BY CallerCoherentStep, CancelHoldsStep
<1>3. ASSUME IInv, CallerCoherent, CancelHolds
      PROVE  Final
  <2> SUFFICES ASSUME NEW c \in Callers, HermesCancelReplies(c), cancelling[c].changed
               PROVE  seen'[c][cancelling[c].job] \in {"cancelled", "unknown"}
    OBVIOUS
  <2>1. PICK j \in Jobs : j = cancelling[c].job
    BY <1>3, CancelKnowsJob DEF IInv
  <2>2. rows[j].status \in {"cancelled", "absent"}
    BY <1>3, <2>1 DEF CancelHolds
  <2>3. Reap(rows, clock)[j] = rows[j] \/ Reap(rows, clock)[j] = NoRow
    BY <1>3, ReapRow DEF IInv, TypeOK
  <2>4. Reported(Reap(rows, clock), j) \in {"cancelled", "unknown"}
    BY <2>2, <2>3 DEF Reported, NoRow
  <2>5. QED
    BY <1>3, <2>1, <2>4, CancelReplyRow DEF IInv
<1>4. IInv /\ CallerCoherent /\ CancelHolds /\ [Next]_vars => [Final]_vars
  BY <1>3
<1>5. QED
  BY <1>1, <1>2, <1>4, Invariant, PTL DEF Spec, CancelIsFinal

(* Between the hops of a hermes_cancel its row disappears only by a reset  *)
(* of another caller or after its retention.  "Reap-between-calls is       *)
(* impossible" (server.py:370) is thus a matter of the retention, and      *)
(* resets are what the comment leaves out.                                 *)
THEOREM CancelsAreForgottenByOthers == Spec => [][ForgottenByOthers]_vars
<1> DEFINE Due ==
      \A j \in Jobs :
        (rows[j].status # "absent" /\ rows'[j].status = "absent") =>
            \/ \E p \in Processes, c \in Callers : HermesReset(p, c)
            \/ /\ rows[j].status \in TerminalStatus
               /\ rows[j].finished_at < clock - Ttl
<1>1. Init => CallerCoherent
  BY DEF Init, CallerCoherent, TerminalStatus
<1>2. IInv /\ CallerCoherent /\ [Next]_vars => CallerCoherent'
  BY CallerCoherentStep
<1>3. ASSUME IInv, CallerCoherent, [Next]_vars, Due
      PROVE  ForgottenByOthers
  <2> SUFFICES ASSUME NEW c \in Callers, cancelling[c].changed,
                      rows[cancelling[c].job].status = "cancelled",
                      rows'[cancelling[c].job].status # "cancelled"
               PROVE  \/ \E p \in Processes, d \in Callers \ {c} : HermesReset(p, d)
                      \/ rows[cancelling[c].job].finished_at < clock - Ttl
    BY DEF ForgottenByOthers
  <2>1. PICK j \in Jobs : j = cancelling[c].job /\ ask[j] = "replied"
    BY <1>3, CancelKnowsJob DEF IInv
  <2>2. rows[j].status # "absent" /\ rows'[j].status = "absent"
    BY <1>3, <2>1, RowForward DEF TerminalStatus
  <2>3. \/ \E p \in Processes, d \in Callers : HermesReset(p, d)
        \/ rows[j].finished_at < clock - Ttl
    BY <1>3, <2>2
  <2>4. \A p \in Processes : ~HermesReset(p, c)
    BY <1>3, CancelKnowsJob DEF HermesReset, IInv
  <2>5. QED
    BY <2>1, <2>3, <2>4
<1>4. UNCHANGED vars => Due
  BY DEF vars
<1>5. IInv /\ CallerCoherent /\ [Next]_vars /\ [Due]_vars => [ForgottenByOthers]_vars
  BY <1>3, <1>4
<1>6. QED
  BY <1>1, <1>2, <1>5, Invariant, NothingForgottenEarly, PTL
  DEF Spec, ForgottenOnlyWhenDue

\* A cancel that changed its job still finds it cancelled.
CancelKept ==
    \A c \in Callers :
        cancelling[c].changed => rows[cancelling[c].job].status = "cancelled"

(* The clock stays within its bound. *)
LEMMA ClockBounded == Spec => [](clock <= MaxTime)
<1>1. Init => clock <= MaxTime
  BY BoundsAssumption DEF Init
<1>2. IInv /\ clock <= MaxTime /\ [Next]_vars => (clock <= MaxTime)'
  BY BoundsAssumption
  DEF IInv, TypeOK, Next, vars, Tick, ClockIsSet, ServerStep, OpenOwnerLock, RecoverUnfinished,
      OpenFails, ProcessExits, CreateJob, AskDropped, WorkerStep, MarksRunning, AsksGateway,
      GatewayAnswers, GatewayFails, RecordsAnswer, AnswerUnstorable, RecordsFailure,
      StoreRaises, CallerStep, HermesCancelReplies, HermesCancelAborts, HermesReset,
      StartWorker, HermesCheck, HermesCheckUnknown, HermesCancelMarks
<1>3. QED
  BY <1>1, <1>2, Invariant, PTL DEF Spec

(* While the clock is within the retention, no row is due. *)
LEMMA NothingDue ==
    ASSUME IInv, clock <= Ttl, NEW j \in Jobs
    PROVE  /\ rows[j].status \in TerminalStatus => ~(rows[j].finished_at < clock - Ttl)
           /\ Reap(rows, clock)[j] = rows[j]
<1>1. clock \in Nat /\ rows[j].finished_at \in Nat \union {NoTime} /\ Ttl \in Nat
  BY LimitsAreNat DEF IInv, TypeOK, Table, Row
<1>2. rows[j].finished_at # NoTime => ~(rows[j].finished_at < clock - Ttl)
  BY <1>1 DEF NoTime
<1>3. rows[j].status \in TerminalStatus => rows[j].finished_at # NoTime
  BY DEF IInv, RowWellFormed
<1>4. QED
  BY <1>2, <1>3, ReapRow DEF IInv, TypeOK

(* With one caller and nothing due, a step takes no cancelled job away     *)
(* from a cancel that is between its hops.                                 *)
LEMMA CancelKeptStep ==
    ASSUME \A c, d \in Callers : c = d, clock <= Ttl,
           IInv, CallerCoherent, CancelKept, [Next]_vars, [ForgottenByOthers]_vars
    PROVE  CancelKept'
<1> SUFFICES ASSUME NEW c \in Callers, cancelling'[c].changed
             PROVE  rows'[cancelling'[c].job].status = "cancelled"
  BY DEF CancelKept
<1>1. CASE cancelling'[c] = cancelling[c]
  <2>1. PICK j \in Jobs : j = cancelling[c].job /\ ask[j] = "replied"
    BY <1>1, CancelKnowsJob DEF IInv
  <2>2. rows[j].status = "cancelled"
    BY <1>1, <2>1 DEF CancelKept
  <2>3. ~(rows[j].finished_at < clock - Ttl)
    BY <2>2, NothingDue DEF TerminalStatus
  <2>4. rows'[j].status = "cancelled"
    BY <1>1, <2>1, <2>2, <2>3 DEF ForgottenByOthers, vars
  <2>5. QED
    BY <1>1, <2>1, <2>4
<1>2. ASSUME NEW p \in Processes, NEW j \in Jobs, HermesCancelMarks(p, c, j)
      PROVE  rows'[cancelling'[c].job].status = "cancelled"
  BY <1>2, CancelMarked DEF IInv
<1>3. CASE cancelling'[c] = NoCancel
  BY <1>3 DEF NoCancel
<1>4. QED
  BY <1>1, <1>2, <1>3, StepsOfCancelling DEF IInv

(* With one caller, who waits for the reply before it resets anything, and *)
(* a retention longer than the system runs, a hermes_cancel that did       *)
(* cancel says so, whatever crashes, restarts and faults there are.        *)
THEOREM CancelsTellTheTruth ==
    ASSUME \A c, d \in Callers : c = d, MaxTime <= Ttl
    PROVE  Spec => CancelTellsTruth
<1> DEFINE Truth == \A c \in Callers :
      LET x == cancelling[c]
      IN HermesCancelReplies(c) /\ x.changed => seen'[c][x.job] = "cancelled"
<1>1. Init => CallerCoherent /\ CancelKept
  BY DEF Init, CallerCoherent, CancelKept, NoCancel, TerminalStatus
<1>2. TypeOK /\ clock <= MaxTime => clock <= Ttl
  BY LimitsAreNat, BoundsAssumption DEF TypeOK
<1>3. /\ IInv /\ clock <= MaxTime /\ CallerCoherent /\ CancelKept
      /\ [Next]_vars /\ [ForgottenByOthers]_vars
      => (CallerCoherent /\ CancelKept)'
  BY <1>2, CallerCoherentStep, CancelKeptStep DEF IInv
<1>4. ASSUME IInv, clock <= MaxTime, CallerCoherent, CancelKept
      PROVE  Truth
  <2> SUFFICES ASSUME NEW c \in Callers, HermesCancelReplies(c), cancelling[c].changed
               PROVE  seen'[c][cancelling[c].job] = "cancelled"
    OBVIOUS
  <2>1. PICK j \in Jobs : j = cancelling[c].job
    BY <1>4, CancelKnowsJob DEF IInv
  <2>2. rows[j].status = "cancelled"
    BY <1>4, <2>1 DEF CancelKept
  <2>3. Reported(Reap(rows, clock), j) = "cancelled"
    BY <1>2, <1>4, <2>2, NothingDue DEF Reported, IInv
  <2>4. QED
    BY <1>4, <2>1, <2>3, CancelReplyRow DEF IInv
<1>5. /\ IInv /\ clock <= MaxTime /\ CallerCoherent /\ CancelKept /\ [Next]_vars
      => [Truth]_vars
  BY <1>4
<1>6. QED
  BY <1>1, <1>3, <1>5, Invariant, ClockBounded, CancelsAreForgottenByOthers, PTL
  DEF Spec, CancelTellsTruth
=============================================================================
