-------------------------- MODULE JobBridge_proofs --------------------------
(***************************************************************************)
(* Proofs about JobBridge for every set of jobs, processes, callers and    *)
(* answers, every ttl, capacity and bound, and every set of faults.        *)
(***************************************************************************)
EXTENDS JobBridge, FiniteSetTheorems, TLAPS

-----------------------------------------------------------------------------
(* The table operators keep the type of the table.                         *)

(* Reaping leaves a table. *)
LEMMA ReapType ==
    ASSUME NEW t \in Table, NEW now \in Nat
    PROVE  Reap(t, now) \in Table
BY DEF Reap, Table, Row, NoRow, Status, InFlightStatus, TerminalStatus

(* Inserting a job leaves a table. *)
LEMMA InsertType ==
    ASSUME NEW t \in Table, NEW now \in Nat, NEW j \in Jobs
    PROVE  Insert(t, j, now) \in Table
<1>1. Reap(t, now) \in Table
  BY ReapType
<1>2. NewRow \in Row
  BY DEF NewRow, NoRow, Row, Status, InFlightStatus
<1>3. QED
  BY <1>1, <1>2 DEF Insert, Table

(* Starting a job leaves a table. *)
LEMMA MarkRunningType ==
    ASSUME NEW t \in Table, NEW j \in Jobs
    PROVE  MarkRunning(t, j) \in Table
<1>1. t[j] \in Row /\ [t[j] EXCEPT !.status = "running"] \in Row
  BY DEF Table, Row, Status, InFlightStatus
<1>2. QED
  BY <1>1 DEF MarkRunning, Table

(* Settling a job leaves a table, whatever its outcome. *)
LEMMA FinishType ==
    ASSUME NEW t \in Table, NEW j \in Jobs, NEW status \in TerminalStatus,
           NEW result \in Answers \union {NoText},
           NEW error \in Errors \union {NoText}, NEW now \in Nat
    PROVE  Finish(t, j, status, result, error, now) \in Table
<1>1. [status |-> status, result |-> result, error |-> error,
       finished_at |-> now] \in Row
  BY DEF Row, Status
<1>2. QED
  BY <1>1 DEF Finish, Table

(* Recovery leaves a table. *)
LEMMA FailUnfinishedType ==
    ASSUME NEW t \in Table, NEW now \in Nat
    PROVE  FailUnfinished(t, now) \in Table
<1>1. \A j \in Jobs :
        /\ t[j] \in Row
        /\ [t[j] EXCEPT !.status = "failed", !.error = "interrupted",
                        !.finished_at = now] \in Row
  BY DEF Table, Row, Status, TerminalStatus, Errors
<1>2. QED
  BY <1>1 DEF FailUnfinished, Table

(* The empty table is a table. *)
LEMMA EmptyTableType == EmptyTable \in Table
BY DEF EmptyTable, Table, NoRow, Row, Status

-----------------------------------------------------------------------------
(* A step keeps the types: no transaction writes a malformed row and no    *)
(* handler or thread reaches a state outside its program.                  *)
LEMMA TypeStep ==
    ASSUME TypeOK, [Next]_vars
    PROVE  TypeOK'
<1> USE DEF TypeOK
<1>1. CASE Tick \/ ClockIsSet
  BY <1>1, BoundsAssumption DEF Tick, ClockIsSet, serverVars, jobVars, callerVars
<1>2. ASSUME NEW p \in Processes, ServerStep(p)
      PROVE  TypeOK'
  <2>1. CASE OpenOwnerLock(p)
    BY <2>1 DEF OpenOwnerLock, jobVars, callerVars
  <2>2. CASE RecoverUnfinished(p)
    BY <2>2, FailUnfinishedType DEF RecoverUnfinished, jobVars, callerVars
  <2>3. CASE OpenFails(p)
    BY <2>3 DEF OpenFails, jobVars, callerVars
  <2>4. CASE ProcessExits(p)
    <3>1. worker' \in [Jobs -> WorkerState]
      BY <2>4 DEF ProcessExits, WorkerState
    <3>2. ask' \in [Jobs -> AskState]
      BY <2>4 DEF ProcessExits, AskState
    <3>3. cancelling' \in [Callers -> Cancels]
      BY <2>4 DEF ProcessExits, Cancels
    <3>4. QED
      BY <2>4, <3>1, <3>2, <3>3 DEF ProcessExits
  <2>5. QED
    BY <1>2, <2>1, <2>2, <2>3, <2>4 DEF ServerStep
<1>3. ASSUME NEW p \in Processes, NEW j \in Jobs, CreateJob(p, j)
      PROVE  TypeOK'
  BY <1>3, InsertType DEF CreateJob, AskState, serverVars, callerVars
<1>4. ASSUME NEW j \in Jobs, AskDropped(j)
      PROVE  TypeOK'
  BY <1>4 DEF AskDropped, AskState, serverVars, callerVars
<1>5. ASSUME NEW j \in Jobs, WorkerStep(j)
      PROVE  TypeOK'
  <2> USE DEF WorkerState, AliveState, serverVars, callerVars
  <2>1. CASE MarksRunning(j)
    BY <2>1, MarkRunningType DEF MarksRunning
  <2>2. CASE AsksGateway(j)
    BY <2>2 DEF AsksGateway
  <2>3. CASE GatewayAnswers(j)
    BY <2>3 DEF GatewayAnswers
  <2>4. CASE GatewayFails(j)
    BY <2>4 DEF GatewayFails
  <2>5. CASE RecordsAnswer(j)
    BY <2>5, FinishType
    DEF RecordsAnswer, MarkCompleted, TerminalStatus
  <2>6. CASE AnswerUnstorable(j)
    BY <2>6 DEF AnswerUnstorable
  <2>7. CASE RecordsFailure(j)
    BY <2>7, FinishType
    DEF RecordsFailure, MarkFailed, TerminalStatus, Errors
  <2>8. QED
    BY <1>5, <2>1, <2>2, <2>3, <2>4, <2>5, <2>6, <2>7 DEF WorkerStep
<1>6. ASSUME NEW j \in Jobs, StoreRaises(j)
      PROVE  TypeOK'
  BY <1>6 DEF StoreRaises, WorkerState, serverVars, callerVars
<1>7. ASSUME NEW c \in Callers, CallerStep(c)
      PROVE  TypeOK'
  <2>0. \A j \in Jobs : /\ Reported(Reap(rows, clock), j) \in SeenStatus
                        /\ "pending" \in SeenStatus
    <3>1. \A j \in Jobs : Reap(rows, clock)[j] \in Row
      BY ReapType DEF Table
    <3>2. \A r \in Row : r.status \in Status
      BY DEF Row
    <3>3. \A j \in Jobs : Reap(rows, clock)[j].status \in Status
      BY <3>1, <3>2
    <3>4. QED
      BY <3>3 DEF Reported, SeenStatus, Status, InFlightStatus
  <2>1. CASE HermesCancelReplies(c)
    <3>1. cancelling[c].job \in Jobs
      BY <2>1 DEF HermesCancelReplies, Cancels
    <3>2. NoCancel \in Cancels
      BY DEF Cancels
    <3>3. QED
      BY <2>0, <2>1, <3>1, <3>2, ReapType DEF HermesCancelReplies, serverVars, jobVars
  <2>2. CASE HermesCancelAborts(c)
    BY <2>2 DEF HermesCancelAborts, Cancels, serverVars, jobVars
  <2>3. ASSUME NEW p \in Processes, HermesReset(p, c)
        PROVE  TypeOK'
    BY <2>3, EmptyTableType DEF HermesReset, ResetAll, serverVars, jobVars, callerVars
  <2>4. ASSUME NEW j \in Jobs, StartWorker(c, j)
        PROVE  TypeOK'
    BY <2>0, <2>4 DEF StartWorker, WorkerState, AliveState, AskState, serverVars
  <2>5. ASSUME NEW p \in Processes, NEW j \in Jobs, HermesCheck(p, c, j)
        PROVE  TypeOK'
    BY <2>0, <2>5, ReapType DEF HermesCheck, serverVars, jobVars
  <2>6. ASSUME NEW p \in Processes, NEW j \in Jobs, HermesCancelMarks(p, c, j)
        PROVE  TypeOK'
    <3>1. rows' \in Table
      BY <2>6, FinishType DEF HermesCancelMarks, MarkCancelled, TerminalStatus
    <3>2. cancelling' \in [Callers -> Cancels]
      BY <2>6 DEF HermesCancelMarks, Cancels
    <3>3. QED
      BY <2>6, <3>1, <3>2 DEF HermesCancelMarks, serverVars, jobVars
  <2>7. ASSUME NEW p \in Processes, HermesCheckUnknown(p, c)
        PROVE  TypeOK'
    BY <2>7, ReapType DEF HermesCheckUnknown, serverVars, jobVars, callerVars
  <2>8. QED
    BY <1>7, <2>1, <2>2, <2>3, <2>4, <2>5, <2>6, <2>7 DEF CallerStep
<1>8. CASE UNCHANGED vars
  BY <1>8 DEF vars, serverVars, jobVars, callerVars
<1>9. QED
  BY <1>1, <1>2, <1>3, <1>4, <1>5, <1>6, <1>7, <1>8 DEF Next

(* Every variable keeps its type. *)
THEOREM TypeCorrect == Spec => []TypeOK
<1>1. Init => TypeOK
  BY EmptyTableType
  DEF Init, TypeOK, NoText, AskState, WorkerState, Cancels, NoCancel, SeenStatus, Nobody
<1>2. TypeOK /\ [Next]_vars => TypeOK'
  BY TypeStep
<1>3. QED
  BY <1>1, <1>2, PTL DEF Spec

-----------------------------------------------------------------------------
(* What the table operators do to the row of one job.                      *)

(* Reaping removes a row or leaves it; it removes only expired rows. *)
LEMMA ReapRow ==
    ASSUME NEW t \in Table, NEW now, NEW k \in Jobs
    PROVE  \/ Reap(t, now)[k] = t[k]
           \/ /\ Reap(t, now)[k] = NoRow
              /\ t[k].finished_at # NoTime
              /\ t[k].finished_at < now - Ttl
BY DEF Reap, Expired

(* Inserting adds one pending row and reaps the others. *)
LEMMA InsertRow ==
    ASSUME NEW t \in Table, NEW now, NEW j \in Jobs, NEW k \in Jobs
    PROVE  Insert(t, j, now)[k] = IF k = j THEN NewRow ELSE Reap(t, now)[k]
BY DEF Insert, Reap

(* Starting a job changes the status of a pending row and nothing else. *)
LEMMA MarkRunningRow ==
    ASSUME NEW t \in Table, NEW j \in Jobs, NEW k \in Jobs
    PROVE  MarkRunning(t, j)[k] =
             IF k = j /\ t[j].status = "pending"
             THEN [t[k] EXCEPT !.status = "running"] ELSE t[k]
BY DEF MarkRunning, Table

(* Settling a job replaces the row of a job in flight and nothing else. *)
LEMMA FinishRow ==
    ASSUME NEW t \in Table, NEW j \in Jobs, NEW k \in Jobs,
           NEW status, NEW result, NEW error, NEW now
    PROVE  Finish(t, j, status, result, error, now)[k] =
             IF k = j /\ t[j].status \in InFlightStatus
             THEN [status |-> status, result |-> result,
                   error |-> error, finished_at |-> now]
             ELSE t[k]
BY DEF Finish, InFlight, Table

(* Recovery fails the rows in flight and leaves the others. *)
LEMMA FailUnfinishedRow ==
    ASSUME NEW t \in Table, NEW now, NEW k \in Jobs
    PROVE  FailUnfinished(t, now)[k] =
             IF t[k].status \in InFlightStatus
             THEN [t[k] EXCEPT !.status = "failed", !.error = "interrupted",
                               !.finished_at = now]
             ELSE t[k]
BY DEF FailUnfinished, InFlight

-----------------------------------------------------------------------------
(* Capacity: an operator that adds no row keeps the bound, create checks   *)
(* it after its own reap.                                                  *)

(* A table with fewer rows has a smaller count. *)
LEMMA StoredMonotone ==
    ASSUME NEW t, NEW u, Stored(u) \subseteq Stored(t),
           Cardinality(Stored(t)) <= MaxJobs
    PROVE  Cardinality(Stored(u)) <= MaxJobs
<1>1. IsFiniteSet(Stored(t))
  BY JobsFinite, FS_Subset DEF Stored
<1>2. /\ IsFiniteSet(Stored(u))
      /\ Cardinality(Stored(u)) <= Cardinality(Stored(t))
  BY <1>1, FS_Subset
<1>3. Cardinality(Stored(u)) \in Nat /\ Cardinality(Stored(t)) \in Nat
  BY <1>1, <1>2, FS_CardinalityType
<1>4. QED
  BY <1>2, <1>3, LimitsAreNat

(* Settling, starting, recovering and reaping add no row. *)
LEMMA StoredShrinks ==
    ASSUME NEW t \in Table
    PROVE  /\ \A now : Stored(Reap(t, now)) \subseteq Stored(t)
           /\ \A now : Stored(FailUnfinished(t, now)) \subseteq Stored(t)
           /\ \A j \in Jobs : Stored(MarkRunning(t, j)) \subseteq Stored(t)
           /\ \A j \in Jobs : \A status, result, error, now :
                 Stored(Finish(t, j, status, result, error, now)) \subseteq Stored(t)
<1>1. ASSUME NEW now
      PROVE  Stored(Reap(t, now)) \subseteq Stored(t)
  BY ReapRow DEF Stored, NoRow
<1>2. ASSUME NEW now
      PROVE  Stored(FailUnfinished(t, now)) \subseteq Stored(t)
  BY DEF FailUnfinished, InFlight, Stored, InFlightStatus
<1>3. ASSUME NEW j \in Jobs
      PROVE  Stored(MarkRunning(t, j)) \subseteq Stored(t)
  BY MarkRunningRow DEF Stored
<1>4. ASSUME NEW j \in Jobs, NEW status, NEW result, NEW error, NEW now
      PROVE  Stored(Finish(t, j, status, result, error, now)) \subseteq Stored(t)
  BY DEF Finish, InFlight, Stored, InFlightStatus, Table
<1>5. QED
  BY <1>1, <1>2, <1>3, <1>4

(* Inserting a row where there is room keeps the bound. *)
LEMMA InsertKeepsCapacity ==
    ASSUME NEW t \in Table, NEW now \in Nat, NEW j \in Jobs, HasRoom(t, now)
    PROVE  Cardinality(Stored(Insert(t, j, now))) <= MaxJobs
<1> DEFINE before == Stored(Reap(t, now))
<1>1. IsFiniteSet(before)
  BY JobsFinite, FS_Subset DEF Stored
<1>2. Stored(Insert(t, j, now)) = before \union {j}
  BY InsertRow DEF Stored, NewRow, NoRow
<1>3. Cardinality(before) \in Nat /\ Cardinality(before) < MaxJobs
  BY <1>1, FS_CardinalityType DEF HasRoom
<1> HIDE DEF before
<1>4. Cardinality(before \union {j}) =
        IF j \in before THEN Cardinality(before) ELSE Cardinality(before) + 1
  BY <1>1, FS_AddElement
<1>5. QED
  BY <1>2, <1>3, <1>4, LimitsAreNat

(* No step makes the table outgrow max_jobs. *)
LEMMA CapacityStep ==
    ASSUME TypeOK, CapacityBound, [Next]_vars
    PROVE  CapacityBound'
<1> USE DEF TypeOK
<1>1. ASSUME Stored(rows') \subseteq Stored(rows)
      PROVE  CapacityBound'
  BY <1>1, StoredMonotone DEF CapacityBound
<1>2. CASE UNCHANGED rows
  BY <1>2 DEF CapacityBound
<1>3. ASSUME NEW p \in Processes, ServerStep(p)
      PROVE  CapacityBound'
  <2>1. CASE RecoverUnfinished(p)
    <3>1. Stored(rows') \subseteq Stored(rows)
      BY <2>1, StoredShrinks DEF RecoverUnfinished
    <3>2. QED
      BY <1>1, <3>1
  <2>2. QED
    BY <1>2, <1>3, <2>1 DEF ServerStep, OpenOwnerLock, OpenFails, ProcessExits
<1>4. ASSUME NEW p \in Processes, NEW j \in Jobs, CreateJob(p, j)
      PROVE  CapacityBound'
  BY <1>4, InsertKeepsCapacity DEF CreateJob, CapacityBound
<1>5. ASSUME NEW j \in Jobs, WorkerStep(j)
      PROVE  CapacityBound'
  <2>1. CASE MarksRunning(j)
    <3>1. Stored(rows') \subseteq Stored(rows)
      BY <2>1, StoredShrinks DEF MarksRunning
    <3>2. QED
      BY <1>1, <3>1
  <2>2. CASE RecordsAnswer(j) \/ RecordsFailure(j)
    <3>1. Stored(rows') \subseteq Stored(rows)
      BY <2>2, StoredShrinks DEF RecordsAnswer, RecordsFailure, MarkCompleted, MarkFailed
    <3>2. QED
      BY <1>1, <3>1
  <2>3. QED
    BY <1>2, <1>5, <2>1, <2>2
    DEF WorkerStep, AsksGateway, GatewayAnswers, GatewayFails, AnswerUnstorable
<1>6. ASSUME NEW c \in Callers, CallerStep(c)
      PROVE  CapacityBound'
  <2>1. ASSUME rows' = Reap(rows, clock)
        PROVE  CapacityBound'
    <3>1. Stored(rows') \subseteq Stored(rows)
      BY <2>1, StoredShrinks
    <3>2. QED
      BY <1>1, <3>1
  <2>2. ASSUME NEW p \in Processes, HermesReset(p, c)
        PROVE  CapacityBound'
    <3>1. Stored(rows') \subseteq Stored(rows)
      BY <2>2 DEF HermesReset, ResetAll, EmptyTable, Stored, NoRow
    <3>2. QED
      BY <1>1, <3>1
  <2>3. ASSUME NEW p \in Processes, NEW j \in Jobs, HermesCancelMarks(p, c, j)
        PROVE  CapacityBound'
    <3>1. Stored(rows') \subseteq Stored(rows)
      BY <2>3, StoredShrinks DEF HermesCancelMarks, MarkCancelled
    <3>2. QED
      BY <1>1, <3>1
  <2>4. QED
    BY <1>2, <1>6, <2>1, <2>2, <2>3
    DEF CallerStep, HermesCancelReplies, HermesCancelAborts, StartWorker,
        HermesCheck, HermesCheckUnknown
<1>7. QED
  BY <1>2, <1>3, <1>4, <1>5, <1>6
  DEF Next, Tick, ClockIsSet, AskDropped, StoreRaises, vars

-----------------------------------------------------------------------------
(* The rest of the inductive invariant, one lemma per conjunct.            *)

(* Only the process that just took a free owner lock joins those not down. *)
LEMMA OwnerStep ==
    ASSUME TypeOK, OwnerUnique, [Next]_vars
    PROVE  OwnerUnique'
<1> USE DEF TypeOK, OwnerUnique
<1>1. CASE UNCHANGED <<owner, proc>>
  BY <1>1
<1>2. ASSUME NEW p \in Processes, ServerStep(p)
      PROVE  OwnerUnique'
  <2>1. CASE OpenOwnerLock(p)
    BY <2>1, NobodyIsNoProcess DEF OpenOwnerLock, Nobody
  <2>2. CASE RecoverUnfinished(p)
    BY <2>2 DEF RecoverUnfinished
  <2>3. CASE OpenFails(p)
    BY <2>3 DEF OpenFails
  <2>4. CASE ProcessExits(p)
    BY <2>4 DEF ProcessExits
  <2>5. QED
    BY <1>2, <2>1, <2>2, <2>3, <2>4 DEF ServerStep
<1>3. QED
  BY <1>1, <1>2
  DEF Next, Tick, ClockIsSet, CreateJob, AskDropped, WorkerStep, MarksRunning, AsksGateway,
      GatewayAnswers, GatewayFails, RecordsAnswer, AnswerUnstorable, RecordsFailure,
      StoreRaises, CallerStep, HermesCancelReplies, HermesCancelAborts, HermesReset,
      StartWorker, HermesCheck, HermesCheckUnknown, HermesCancelMarks, serverVars, vars

\* The conjunct of RowWellFormed about one row.
RowOK(r) ==
    /\ r.status \in TerminalStatus <=> r.finished_at # NoTime
    /\ r.status = "completed" <=> r.result # NoText
    /\ r.status = "failed" <=> r.error # NoText

(* Each kind of row a transaction writes is well formed. *)
LEMMA RowsWritten ==
    /\ RowOK(NoRow)
    /\ RowOK(NewRow)
    /\ \A r \in Row : RowOK(r) /\ r.status = "pending" =>
            RowOK([r EXCEPT !.status = "running"])
    /\ \A r \in Row, now \in Nat : RowOK(r) /\ r.status \in InFlightStatus =>
            RowOK([r EXCEPT !.status = "failed", !.error = "interrupted",
                            !.finished_at = now])
    /\ \A a \in Answers, now \in Nat :
            RowOK([status |-> "completed", result |-> a, error |-> NoText, finished_at |-> now])
    /\ \A e \in Errors, now \in Nat :
            RowOK([status |-> "failed", result |-> NoText, error |-> e, finished_at |-> now])
    /\ \A now \in Nat :
            RowOK([status |-> "cancelled", result |-> NoText, error |-> NoText,
                   finished_at |-> now])
<1> USE DEF RowOK, NoTime, NoText, TerminalStatus, InFlightStatus
<1>1. RowOK(NoRow) /\ RowOK(NewRow)
  BY DEF NoRow, NewRow
<1>2. ASSUME NEW r \in Row, RowOK(r), r.status = "pending"
      PROVE  RowOK([r EXCEPT !.status = "running"])
  BY <1>2 DEF Row
<1>3. ASSUME NEW r \in Row, NEW now \in Nat, RowOK(r), r.status \in InFlightStatus
      PROVE  RowOK([r EXCEPT !.status = "failed", !.error = "interrupted",
                             !.finished_at = now])
  BY <1>3 DEF Row
<1>4. \A a \in Answers, now \in Nat :
        RowOK([status |-> "completed", result |-> a, error |-> NoText, finished_at |-> now])
  BY NoTextIsNoAnswer
<1>5. \A e \in Errors, now \in Nat :
        RowOK([status |-> "failed", result |-> NoText, error |-> e, finished_at |-> now])
  BY DEF Errors
<1>6. \A now \in Nat :
        RowOK([status |-> "cancelled", result |-> NoText, error |-> NoText,
               finished_at |-> now])
  OBVIOUS
<1>7. QED
  BY <1>1, <1>2, <1>3, <1>4, <1>5, <1>6

(* Every row stays well formed. *)
LEMMA RowStep ==
    ASSUME TypeOK, RowWellFormed, JobCoherent, [Next]_vars
    PROVE  RowWellFormed'
<1> USE DEF TypeOK
<1>0. /\ \A k \in Jobs : RowOK(rows[k]) /\ rows[k] \in Row
      /\ clock \in Nat
      /\ (\A k \in Jobs : RowOK(rows'[k])) => RowWellFormed'
  BY DEF RowWellFormed, RowOK, Table
<1>1. CASE UNCHANGED rows
  BY <1>0, <1>1
<1>2. ASSUME NEW p \in Processes, RecoverUnfinished(p), NEW k \in Jobs
      PROVE  RowOK(rows'[k])
  <2>1. rows'[k] = IF rows[k].status \in InFlightStatus
                   THEN [rows[k] EXCEPT !.status = "failed", !.error = "interrupted",
                                        !.finished_at = clock]
                   ELSE rows[k]
    BY <1>2, FailUnfinishedRow DEF RecoverUnfinished
  <2>2. CASE rows[k].status \in InFlightStatus
    <3>1. RowOK([rows[k] EXCEPT !.status = "failed", !.error = "interrupted",
                                !.finished_at = clock])
      BY <1>0, <2>2, RowsWritten
    <3>2. QED
      BY <2>1, <2>2, <3>1
  <2>3. QED
    BY <1>0, <2>1, <2>2
<1>3. ASSUME NEW p \in Processes, NEW j \in Jobs, CreateJob(p, j), NEW k \in Jobs
      PROVE  RowOK(rows'[k])
  <2>1. rows'[k] = NewRow \/ rows'[k] = rows[k] \/ rows'[k] = NoRow
    BY <1>3, InsertRow, ReapRow DEF CreateJob
  <2>2. QED
    BY <1>0, <2>1, RowsWritten
<1>4. ASSUME NEW j \in Jobs, MarksRunning(j), NEW k \in Jobs
      PROVE  RowOK(rows'[k])
  <2>1. rows'[k] = IF k = j /\ rows[j].status = "pending"
                   THEN [rows[k] EXCEPT !.status = "running"] ELSE rows[k]
    BY <1>4, MarkRunningRow DEF MarksRunning
  <2>2. QED
    BY <1>0, <2>1, RowsWritten
<1>5. ASSUME NEW j \in Jobs, RecordsAnswer(j), NEW k \in Jobs
      PROVE  RowOK(rows'[k])
  <2>1. answer[j] \in Answers
    BY <1>5 DEF RecordsAnswer, JobCoherent, ThreadCoherent
  <2>2. rows'[k] = rows[k] \/
        rows'[k] = [status |-> "completed", result |-> answer[j],
                    error |-> NoText, finished_at |-> clock]
    BY <1>5, FinishRow DEF RecordsAnswer, MarkCompleted
  <2>3. QED
    BY <1>0, <2>1, <2>2, RowsWritten
<1>6. ASSUME NEW j \in Jobs, RecordsFailure(j), NEW k \in Jobs
      PROVE  RowOK(rows'[k])
  <2>1. PICK e \in Errors : rows' = MarkFailed(rows, j, e, clock)
    BY <1>6 DEF RecordsFailure, Errors
  <2>2. rows'[k] = rows[k] \/
        rows'[k] = [status |-> "failed", result |-> NoText,
                    error |-> e, finished_at |-> clock]
    BY <2>1, FinishRow DEF MarkFailed
  <2>3. QED
    BY <1>0, <2>2, RowsWritten
<1>7. ASSUME rows' = Reap(rows, clock), NEW k \in Jobs
      PROVE  RowOK(rows'[k])
  BY <1>0, <1>7, ReapRow, RowsWritten
<1>8. ASSUME NEW p \in Processes, NEW c \in Callers, HermesReset(p, c), NEW k \in Jobs
      PROVE  RowOK(rows'[k])
  BY <1>8, RowsWritten DEF HermesReset, ResetAll, EmptyTable
<1>9. ASSUME NEW p \in Processes, NEW c \in Callers, NEW j \in Jobs,
             HermesCancelMarks(p, c, j), NEW k \in Jobs
      PROVE  RowOK(rows'[k])
  <2>1. rows'[k] = rows[k] \/
        rows'[k] = [status |-> "cancelled", result |-> NoText,
                    error |-> NoText, finished_at |-> clock]
    BY <1>9, FinishRow DEF HermesCancelMarks, MarkCancelled
  <2>2. QED
    BY <1>0, <2>1, RowsWritten
<1>10. CASE \E p \in Processes : ServerStep(p)
  BY <1>0, <1>1, <1>2, <1>10 DEF ServerStep, OpenOwnerLock, OpenFails, ProcessExits
<1>11. CASE \E j \in Jobs : WorkerStep(j)
  BY <1>0, <1>1, <1>4, <1>5, <1>6, <1>11
  DEF WorkerStep, AsksGateway, GatewayAnswers, GatewayFails, AnswerUnstorable
<1>12. CASE \E c \in Callers : CallerStep(c)
  BY <1>0, <1>1, <1>7, <1>8, <1>9, <1>12
  DEF CallerStep, HermesCancelReplies, HermesCancelAborts, StartWorker,
      HermesCheck, HermesCheckUnknown
<1>13. QED
  BY <1>0, <1>1, <1>3, <1>10, <1>11, <1>12 DEF Next, Tick, ClockIsSet, AskDropped, StoreRaises, vars

(* Rows, threads, gateway calls and processes stay coherent. *)
LEMMA JobStep ==
    ASSUME TypeOK, OwnerUnique, RowWellFormed, JobCoherent, [Next]_vars
    PROVE  JobCoherent'
<1> DEFINE Coherent(k) == ThreadCoherent(k) /\ DispatchCoherent(k) /\ RowCoherent(k)
<1> USE DEF TypeOK, Alive, AliveState
<1>0. /\ \A k \in Jobs : Coherent(k) /\ rows[k] \in Row
      /\ (\A k \in Jobs : Coherent(k)') => JobCoherent'
  BY DEF JobCoherent, Table
<1> USE DEF ThreadCoherent, DispatchCoherent, RowCoherent
<1>1. ASSUME UNCHANGED <<rows, proc, jobVars>>, NEW k \in Jobs
      PROVE  Coherent(k)'
  BY <1>0, <1>1 DEF jobVars
<1>2. ASSUME NEW p \in Processes, ServerStep(p), NEW k \in Jobs
      PROVE  Coherent(k)'
  <2>1. CASE OpenOwnerLock(p)
    BY <1>0, <2>1 DEF OpenOwnerLock, jobVars
  <2>2. CASE RecoverUnfinished(p)
    <3>1. ~Alive(k) /\ ask[k] # "created"
      BY <1>0, <2>2 DEF RecoverUnfinished, OwnerUnique
    <3>2. rows'[k] = rows[k] \/ rows'[k].status = "failed"
      <4>1. rows'[k] = IF rows[k].status \in InFlightStatus
                       THEN [rows[k] EXCEPT !.status = "failed", !.error = "interrupted",
                                            !.finished_at = clock]
                       ELSE rows[k]
        BY <2>2, FailUnfinishedRow DEF RecoverUnfinished
      <4>2. QED
        BY <1>0, <4>1 DEF Row
    <3>3. rows[k].status = "absent" => rows'[k] = rows[k]
      BY <2>2, FailUnfinishedRow DEF RecoverUnfinished, InFlightStatus
    <3>4. QED
      BY <1>0, <2>2, <3>1, <3>2, <3>3 DEF RecoverUnfinished, jobVars
  <2>3. CASE OpenFails(p)
    BY <1>0, <2>3 DEF OpenFails, jobVars
  <2>4. CASE ProcessExits(p)
    BY <1>0, <2>4 DEF ProcessExits, WorkerState
  <2>5. QED
    BY <1>2, <2>1, <2>2, <2>3, <2>4 DEF ServerStep
<1>3. ASSUME NEW p \in Processes, NEW j \in Jobs, CreateJob(p, j), NEW k \in Jobs
      PROVE  Coherent(k)'
  <2>1. k # j => rows'[k] = rows[k] \/ rows'[k].status = "absent"
    BY <1>3, InsertRow, ReapRow DEF CreateJob, NoRow
  <2>2. k = j => rows'[k].status = "pending"
    BY <1>3, InsertRow DEF CreateJob, NewRow, NoRow
  <2>3. QED
    BY <1>0, <1>3, <2>1, <2>2 DEF CreateJob, serverVars
<1>4. ASSUME NEW j \in Jobs, AskDropped(j), NEW k \in Jobs
      PROVE  Coherent(k)'
  BY <1>0, <1>4 DEF AskDropped, serverVars
<1>5. ASSUME NEW j \in Jobs, WorkerStep(j), NEW k \in Jobs
      PROVE  Coherent(k)'
  <2> USE DEF serverVars
  <2>1. CASE MarksRunning(j)
    <3>1. k # j => rows'[k] = rows[k]
      BY <2>1, MarkRunningRow DEF MarksRunning
    <3>2. rows[j].status \in {"absent", "pending", "cancelled"}
      BY <1>0, <2>1 DEF MarksRunning, Row, Status, InFlightStatus, TerminalStatus
    <3>3. /\ rows[j].status = "pending" => rows'[j].status = "running"
          /\ rows[j].status # "pending" => rows'[j] = rows[j]
      <4>1. rows'[j] = IF rows[j].status = "pending"
                       THEN [rows[j] EXCEPT !.status = "running"] ELSE rows[j]
        BY <2>1, MarkRunningRow DEF MarksRunning
      <4>2. QED
        BY <1>0, <4>1 DEF Row
    <3>4. QED
      BY <1>0, <2>1, <3>1, <3>2, <3>3 DEF MarksRunning
  <2>2. CASE AsksGateway(j)
    BY <1>0, <2>2 DEF AsksGateway
  <2>3. CASE GatewayAnswers(j)
    BY <1>0, <2>3 DEF GatewayAnswers
  <2>4. CASE GatewayFails(j)
    BY <1>0, <2>4 DEF GatewayFails
  <2>5. CASE RecordsAnswer(j)
    <3>0. \A i \in Jobs :
            rows'[i] = IF i = j /\ rows[j].status \in InFlightStatus
                       THEN [status |-> "completed", result |-> answer[j],
                             error |-> NoText, finished_at |-> clock]
                       ELSE rows[i]
      BY <2>5, FinishRow DEF RecordsAnswer, MarkCompleted
    <3>1. k # j => rows'[k] = rows[k]
      BY <3>0
    <3>2. \/ rows'[j] = rows[j] /\ rows[j].status \notin InFlightStatus
          \/ /\ rows'[j].status = "completed" /\ rows'[j].result = answer[j]
             /\ rows[j].status \in InFlightStatus
      BY <3>0
    <3>3. QED
      BY <1>0, <2>5, <3>1, <3>2 DEF RecordsAnswer, InFlightStatus
  <2>6. CASE AnswerUnstorable(j)
    BY <1>0, <2>6 DEF AnswerUnstorable
  <2>7. CASE RecordsFailure(j)
    <3>0. PICK e : rows' = MarkFailed(rows, j, e, clock)
      BY <2>7 DEF RecordsFailure
    <3>1. \A i \in Jobs :
            rows'[i] = IF i = j /\ rows[j].status \in InFlightStatus
                       THEN [status |-> "failed", result |-> NoText,
                             error |-> e, finished_at |-> clock]
                       ELSE rows[i]
      BY <3>0, FinishRow DEF MarkFailed
    <3>2. /\ k # j => rows'[k] = rows[k]
          /\ \/ rows'[j] = rows[j] /\ rows[j].status \notin InFlightStatus
             \/ rows'[j].status = "failed" /\ rows[j].status \in InFlightStatus
      BY <3>1
    <3>3. QED
      BY <1>0, <2>7, <3>2 DEF RecordsFailure, InFlightStatus
  <2>8. QED
    BY <1>5, <2>1, <2>2, <2>3, <2>4, <2>5, <2>6, <2>7 DEF WorkerStep
<1>6. ASSUME NEW j \in Jobs, StoreRaises(j), NEW k \in Jobs
      PROVE  Coherent(k)'
  BY <1>0, <1>6 DEF StoreRaises, serverVars
<1>7. ASSUME NEW c \in Callers, CallerStep(c), NEW k \in Jobs
      PROVE  Coherent(k)'
  <2> USE DEF serverVars, jobVars
  <2>1. ASSUME rows'[k] = rows[k] \/ rows'[k].status = "absent",
               UNCHANGED <<serverVars, jobVars>>
        PROVE  Coherent(k)'
    BY <1>0, <2>1
  <2>2. ASSUME rows' = Reap(rows, clock), UNCHANGED <<serverVars, jobVars>>
        PROVE  Coherent(k)'
    BY <2>1, <2>2, ReapRow DEF NoRow
  <2>3. ASSUME NEW p \in Processes, HermesReset(p, c)
        PROVE  Coherent(k)'
    BY <2>1, <2>3 DEF HermesReset, ResetAll, EmptyTable, NoRow
  <2>4. ASSUME NEW j \in Jobs, StartWorker(c, j)
        PROVE  Coherent(k)'
    BY <1>0, <2>4 DEF StartWorker
  <2>5. ASSUME NEW p \in Processes, NEW j \in Jobs, HermesCancelMarks(p, c, j)
        PROVE  Coherent(k)'
    <3>0. rows'[k] = IF k = j /\ rows[j].status \in InFlightStatus
                     THEN [status |-> "cancelled", result |-> NoText,
                           error |-> NoText, finished_at |-> clock]
                     ELSE rows[k]
      BY <2>5, FinishRow DEF HermesCancelMarks, MarkCancelled
    <3>1. \/ rows'[k] = rows[k]
          \/ rows'[k].status = "cancelled" /\ rows[k].status \in InFlightStatus
      BY <3>0
    <3>2. QED
      BY <1>0, <2>5, <3>1 DEF HermesCancelMarks, InFlightStatus
  <2>6. QED
    BY <1>1, <1>7, <2>2, <2>3, <2>4, <2>5
    DEF CallerStep, HermesCancelReplies, HermesCancelAborts, HermesCheck, HermesCheckUnknown
<1>8. QED
  BY <1>0, <1>1, <1>2, <1>3, <1>4, <1>5, <1>6, <1>7
  DEF Next, Tick, ClockIsSet, vars, serverVars

(* The inductive invariant holds in every state. *)
THEOREM Invariant == Spec => []IInv
<1>1. Init => IInv
  <2> SUFFICES ASSUME Init PROVE IInv
    OBVIOUS
  <2>1. TypeOK
    BY EmptyTableType
    DEF Init, TypeOK, NoText, AskState, WorkerState, Cancels, NoCancel, SeenStatus, Nobody
  <2>2. \A j \in Jobs : rows[j] = NoRow
    BY DEF Init, EmptyTable
  <2>3. OwnerUnique /\ RowWellFormed
    BY <2>2, RowsWritten DEF Init, OwnerUnique, RowWellFormed, RowOK
  <2>4. JobCoherent
    BY <2>2
    DEF Init, JobCoherent, ThreadCoherent, DispatchCoherent, RowCoherent, Alive, AliveState, NoRow
  <2>5. CapacityBound
    <3>1. Stored(rows) = {}
      BY <2>2 DEF Stored, NoRow
    <3>2. QED
      BY <3>1, FS_EmptySet, LimitsAreNat DEF CapacityBound
  <2>6. QED
    BY <2>1, <2>3, <2>4, <2>5 DEF IInv
<1>2. TypeOK' /\ IInv /\ [Next]_vars => IInv'
  BY OwnerStep, RowStep, JobStep, CapacityStep DEF IInv
<1>3. QED
  BY <1>1, <1>2, TypeCorrect, PTL DEF Spec

(* The table never outgrows max_jobs. *)
THEOREM CapacityHolds == Spec => []CapacityBound
<1>1. IInv => CapacityBound
  BY DEF IInv
<1>2. QED
  BY <1>1, Invariant, PTL

(* The columns of every row agree in every state. *)
THEOREM RowsAreWellFormed == Spec => []RowWellFormed
<1>1. IInv => RowWellFormed
  BY DEF IInv
<1>2. QED
  BY <1>1, Invariant, PTL

(* A completed job carries the one answer of the one gateway call made for *)
(* it.                                                                     *)
THEOREM CompletedJobsWereAnswered == Spec => []CompletedMeansAnswered
<1>1. IInv => CompletedMeansAnswered
  BY DEF IInv, JobCoherent, RowCoherent, CompletedMeansAnswered
<1>2. QED
  BY <1>1, Invariant, PTL

(* A job is failed as interrupted only when its thread is dead, however    *)
(* many processes start against the same store.                            *)
THEOREM InterruptedJobsAreDead == Spec => []InterruptedMeansDead
<1>1. IInv => InterruptedMeansDead
  BY DEF IInv, JobCoherent, RowCoherent, RowWellFormed, InterruptedMeansDead, NoText
<1>2. QED
  BY <1>1, Invariant, PTL

-----------------------------------------------------------------------------
(* Jobs in flight belong to the server that serves.                        *)

(* Reaping, starting and settling put no job in flight. *)
LEMMA InFlightShrinks ==
    ASSUME NEW t \in Table
    PROVE  /\ \A now : InFlight(Reap(t, now)) \subseteq InFlight(t)
           /\ \A j \in Jobs : InFlight(MarkRunning(t, j)) \subseteq InFlight(t)
           /\ \A j \in Jobs : \A status \in TerminalStatus : \A result, error, now :
                 InFlight(Finish(t, j, status, result, error, now)) \subseteq InFlight(t)
<1> USE DEF InFlight, InFlightStatus
<1>1. ASSUME NEW now
      PROVE  InFlight(Reap(t, now)) \subseteq InFlight(t)
  BY ReapRow DEF NoRow
<1>2. ASSUME NEW j \in Jobs
      PROVE  InFlight(MarkRunning(t, j)) \subseteq InFlight(t)
  BY MarkRunningRow
<1>3. ASSUME NEW j \in Jobs, NEW status \in TerminalStatus, NEW result, NEW error, NEW now
      PROVE  InFlight(Finish(t, j, status, result, error, now)) \subseteq InFlight(t)
  BY <1>3 DEF Finish, TerminalStatus, Table
<1>4. QED
  BY <1>1, <1>2, <1>3

(* Only recovery makes a process serve, and it leaves nothing in flight;   *)
(* only create puts a job in flight, in the one process that serves.       *)
LEMMA HomeStep ==
    ASSUME TypeOK, OwnerUnique, InFlightOfThisServer, [Next]_vars
    PROVE  InFlightOfThisServer'
<1> USE DEF TypeOK
<1>1. ASSUME InFlight(rows') \subseteq InFlight(rows), UNCHANGED home,
             \A p \in Processes : proc'[p] = "up" => proc[p] = "up"
      PROVE  InFlightOfThisServer'
  BY <1>1 DEF InFlightOfThisServer, InFlight
<1>2. CASE UNCHANGED <<rows, home, proc>>
  BY <1>2 DEF InFlightOfThisServer, InFlight
<1>3. ASSUME NEW p \in Processes, ServerStep(p)
      PROVE  InFlightOfThisServer'
  <2>1. CASE RecoverUnfinished(p)
    <3>1. InFlight(rows') = {}
      <4>1. \A k \in Jobs : rows[k] \in Row
        BY DEF Table
      <4>2. rows' = FailUnfinished(rows, clock)
        BY <2>1 DEF RecoverUnfinished
      <4>3. \A k \in Jobs :
              rows'[k] = IF rows[k].status \in InFlightStatus
                         THEN [rows[k] EXCEPT !.status = "failed", !.error = "interrupted",
                                              !.finished_at = clock]
                         ELSE rows[k]
        BY <4>2, FailUnfinishedRow
      <4>4. \A k \in Jobs : rows'[k].status \notin InFlightStatus
        BY <4>1, <4>3 DEF InFlightStatus, Row
      <4>5. QED
        BY <4>4 DEF InFlight
    <3>2. QED
      BY <3>1 DEF InFlightOfThisServer
  <2>2. CASE OpenOwnerLock(p) \/ OpenFails(p) \/ ProcessExits(p)
    <3>1. /\ UNCHANGED <<rows, home>>
          /\ \A q \in Processes : proc'[q] = "up" => proc[q] = "up"
      BY <2>2 DEF OpenOwnerLock, OpenFails, ProcessExits, jobVars
    <3>2. QED
      BY <1>1, <3>1
  <2>3. QED
    BY <1>3, <2>1, <2>2 DEF ServerStep
<1>4. ASSUME NEW p \in Processes, NEW j \in Jobs, CreateJob(p, j)
      PROVE  InFlightOfThisServer'
  <2>1. \A k \in InFlight(rows') : k = j \/ k \in InFlight(rows)
    BY <1>4, InsertRow, ReapRow DEF CreateJob, InFlight, NoRow, InFlightStatus
  <2>2. \A k \in Jobs : home'[k] = IF k = j THEN p ELSE home[k]
    BY <1>4 DEF CreateJob
  <2>3. \A q \in Processes : proc'[q] = "up" => proc[q] = "up" /\ q = p
    BY <1>4 DEF CreateJob, OwnerUnique, serverVars
  <2>4. QED
    BY <2>1, <2>2, <2>3 DEF InFlightOfThisServer, InFlight
<1>5. ASSUME NEW j \in Jobs, WorkerStep(j)
      PROVE  InFlightOfThisServer'
  <2>1. CASE MarksRunning(j)
    BY <1>1, <2>1, InFlightShrinks DEF MarksRunning, serverVars
  <2>2. CASE RecordsAnswer(j) \/ RecordsFailure(j)
    <3>1. \E status \in TerminalStatus : \E result, error :
            rows' = Finish(rows, j, status, result, error, clock)
      BY <2>2 DEF RecordsAnswer, RecordsFailure, MarkCompleted, MarkFailed, TerminalStatus
    <3>2. InFlight(rows') \subseteq InFlight(rows)
      BY <3>1, InFlightShrinks
    <3>3. QED
      BY <1>1, <2>2, <3>2 DEF RecordsAnswer, RecordsFailure, serverVars
  <2>3. QED
    BY <1>2, <1>5, <2>1, <2>2
    DEF WorkerStep, AsksGateway, GatewayAnswers, GatewayFails, AnswerUnstorable, serverVars
<1>6. ASSUME NEW c \in Callers, CallerStep(c)
      PROVE  InFlightOfThisServer'
  <2>1. ASSUME rows' = Reap(rows, clock), UNCHANGED <<home, proc>>
        PROVE  InFlightOfThisServer'
    BY <1>1, <2>1, InFlightShrinks
  <2>2. ASSUME NEW p \in Processes, HermesReset(p, c)
        PROVE  InFlightOfThisServer'
    <3>1. InFlight(rows') = {}
      BY <2>2 DEF HermesReset, ResetAll, EmptyTable, InFlight, InFlightStatus, NoRow
    <3>2. QED
      BY <3>1 DEF InFlightOfThisServer
  <2>3. ASSUME NEW p \in Processes, NEW j \in Jobs, HermesCancelMarks(p, c, j)
        PROVE  InFlightOfThisServer'
    <3>1. rows' = Finish(rows, j, "cancelled", NoText, NoText, clock)
      BY <2>3 DEF HermesCancelMarks, MarkCancelled
    <3>2. InFlight(rows') \subseteq InFlight(rows)
      BY <3>1, InFlightShrinks DEF TerminalStatus
    <3>3. QED
      BY <1>1, <2>3, <3>2 DEF HermesCancelMarks, serverVars, jobVars
  <2>4. QED
    BY <1>2, <1>6, <2>1, <2>2, <2>3
    DEF CallerStep, HermesCancelReplies, HermesCancelAborts, StartWorker,
        HermesCheck, HermesCheckUnknown,
        serverVars, jobVars
<1>7. QED
  BY <1>2, <1>3, <1>4, <1>5, <1>6
  DEF Next, Tick, ClockIsSet, AskDropped, StoreRaises, serverVars, jobVars, vars

(* No job in flight predates the server that serves: what an earlier one   *)
(* left without a thread was settled by the start.                         *)
THEOREM NoOrphanOutlivesItsServer == Spec => []InFlightOfThisServer
<1>1. Init => InFlightOfThisServer
  BY DEF Init, InFlightOfThisServer
<1>2. IInv /\ InFlightOfThisServer /\ [Next]_vars => InFlightOfThisServer'
  BY HomeStep DEF IInv
<1>3. QED
  BY <1>1, <1>2, Invariant, PTL DEF Spec

-----------------------------------------------------------------------------
(* A stored row disappears only by a reset or after its retention.         *)
THEOREM NothingForgottenEarly == Spec => ForgottenOnlyWhenDue
<1> DEFINE Due ==
      \A j \in Jobs :
        (rows[j].status # "absent" /\ rows'[j].status = "absent") =>
            \/ \E p \in Processes, c \in Callers : HermesReset(p, c)
            \/ /\ rows[j].status \in TerminalStatus
               /\ rows[j].finished_at < clock - Ttl
<1>1. ASSUME IInv, [Next]_vars
      PROVE  Due \/ UNCHANGED vars
  <2> USE <1>1 DEF IInv, TypeOK
  <2>1. CASE UNCHANGED rows
    BY <2>1
  <2>2. ASSUME NEW t, t = Reap(rows, clock), NEW k \in Jobs,
               rows[k].status # "absent", t[k].status = "absent"
        PROVE  /\ rows[k].status \in TerminalStatus
               /\ rows[k].finished_at < clock - Ttl
    BY <2>2, ReapRow DEF RowWellFormed
  <2>3. ASSUME Stored(rows) \subseteq Stored(rows')
        PROVE  Due
    BY <2>3 DEF Stored
  <2>4. CASE \E p \in Processes : RecoverUnfinished(p)
    <3>1. \A k \in Jobs : rows[k] \in Row
      BY DEF Table
    <3>2. Stored(rows) \subseteq Stored(rows')
      <4>1. \A k \in Jobs :
              rows'[k] = IF rows[k].status \in InFlightStatus
                         THEN [rows[k] EXCEPT !.status = "failed", !.error = "interrupted",
                                              !.finished_at = clock]
                         ELSE rows[k]
        <5>1. rows' = FailUnfinished(rows, clock)
          BY <2>4 DEF RecoverUnfinished
        <5>2. QED
          BY <5>1, FailUnfinishedRow
      <4>2. \A k \in Jobs : rows[k].status # "absent" => rows'[k].status # "absent"
        BY <3>1, <4>1 DEF Row
      <4>3. QED
        BY <4>2 DEF Stored
    <3>3. QED
      BY <2>3, <3>2
  <2>5. ASSUME NEW p \in Processes, NEW j \in Jobs, CreateJob(p, j)
        PROVE  Due
    <3>1. \A k \in Jobs : rows'[k] = IF k = j THEN NewRow ELSE Reap(rows, clock)[k]
      BY <2>5, InsertRow DEF CreateJob
    <3>2. NewRow.status # "absent"
      BY DEF NewRow, NoRow
    <3>3. QED
      BY <2>2, <3>1, <3>2
  <2>6. ASSUME NEW j \in Jobs, MarksRunning(j)
        PROVE  Due
    <3>1. \A k \in Jobs : rows[k] \in Row
      BY DEF Table
    <3>2. Stored(rows) \subseteq Stored(rows')
      BY <2>6, <3>1 DEF MarksRunning, MarkRunning, Stored, Row
    <3>3. QED
      BY <2>3, <3>2
  <2>7. ASSUME NEW j \in Jobs, NEW status \in TerminalStatus, NEW result, NEW error,
               rows' = Finish(rows, j, status, result, error, clock)
        PROVE  Due
    <3>1. \A k \in Jobs :
            rows'[k] = IF k = j /\ rows[j].status \in InFlightStatus
                       THEN [status |-> status, result |-> result,
                             error |-> error, finished_at |-> clock]
                       ELSE rows[k]
      BY <2>7, FinishRow
    <3>2. QED
      BY <3>1 DEF TerminalStatus
  <2>8. CASE \E j \in Jobs : WorkerStep(j)
    <3>1. PICK j \in Jobs : WorkerStep(j)
      BY <2>8
    <3>2. CASE RecordsAnswer(j)
      BY <2>7, <3>2 DEF RecordsAnswer, MarkCompleted, TerminalStatus
    <3>3. CASE RecordsFailure(j)
      BY <2>7, <3>3 DEF RecordsFailure, MarkFailed, TerminalStatus
    <3>4. QED
      BY <2>1, <2>6, <3>1, <3>2, <3>3
      DEF WorkerStep, AsksGateway, GatewayAnswers, GatewayFails, AnswerUnstorable
  <2>9. CASE \E c \in Callers : CallerStep(c)
    <3>1. PICK c \in Callers : CallerStep(c)
      BY <2>9
    <3>2. CASE rows' = Reap(rows, clock)
      BY <2>2, <3>2
    <3>3. CASE \E p \in Processes : HermesReset(p, c)
      BY <3>3
    <3>4. CASE \E p \in Processes, j \in Jobs : HermesCancelMarks(p, c, j)
      BY <2>7, <3>4 DEF HermesCancelMarks, MarkCancelled, TerminalStatus
    <3>5. QED
      BY <2>1, <3>1, <3>2, <3>3, <3>4
      DEF CallerStep, HermesCancelReplies, HermesCancelAborts, StartWorker,
          HermesCheck, HermesCheckUnknown
  <2>10. CASE \E p \in Processes : ServerStep(p)
    BY <2>1, <2>4, <2>10 DEF ServerStep, OpenOwnerLock, OpenFails, ProcessExits
  <2>11. QED
    BY <2>1, <2>5, <2>8, <2>9, <2>10 DEF Next, Tick, ClockIsSet, AskDropped, StoreRaises, vars
<1>2. IInv /\ [Next]_vars => [Due]_vars
  BY <1>1
<1>3. QED
  BY <1>2, Invariant, PTL DEF Spec, ForgottenOnlyWhenDue

-----------------------------------------------------------------------------
(* The bridge implements the life cycle.                                   *)

(* A step that changes no row, no first appearance and no dispatch is a    *)
(* stutter of the life cycle.                                              *)
LEMMA LifecycleStutter ==
    ASSUME UNCHANGED <<rows, dispatched>>,
           \A k \in Jobs : ask'[k] = "none" <=> ask[k] = "none"
    PROVE  UNCHANGED Lifecycle!vars
BY DEF Lifecycle!vars, PhaseOf

(* Settling a job in flight that the gateway has answered, or that fails   *)
(* or is cancelled, is the life cycle's Complete or FailOrCancel; settling *)
(* any other job changes nothing.                                          *)
LEMMA LifecycleFinish ==
    ASSUME TypeOK, RowWellFormed, NEW j \in Jobs, NEW status \in TerminalStatus,
           NEW result, NEW error,
           rows' = Finish(rows, j, status, result, error, clock),
           UNCHANGED <<ask, dispatched>>,
           IF status = "completed"
           THEN result \in Answers /\ dispatched[j] = 1
           ELSE result = NoText
    PROVE  [Lifecycle!Next]_(Lifecycle!vars)
<1> USE DEF TypeOK
<1>1. CASE rows[j].status \notin InFlightStatus
  <2>1. rows' = rows
    BY <1>1 DEF Finish, InFlight
  <2>2. QED
    BY <2>1, LifecycleStutter
<1>2. CASE rows[j].status \in InFlightStatus
  <2>1. \A k \in Jobs :
          rows'[k] = IF k = j
                     THEN [status |-> status, result |-> result,
                           error |-> error, finished_at |-> clock]
                     ELSE rows[k]
    BY <1>2, FinishRow
  <2>2. /\ PhaseOf(j) \in Lifecycle!InFlight
        /\ PhaseOf(j)' = status
        /\ \A k \in Jobs \ {j} : PhaseOf(k)' = PhaseOf(k)
    BY <1>2, <2>1 DEF PhaseOf, InFlightStatus, TerminalStatus, Lifecycle!InFlight
  <2>3. rows[j].result = NoText
    BY <1>2 DEF RowWellFormed, InFlightStatus
  <2>4. CASE status = "completed"
    <3>1. [k \in Jobs |-> PhaseOf(k)]' = [[k \in Jobs |-> PhaseOf(k)] EXCEPT ![j] = "completed"]
      BY <2>2, <2>4
    <3>2. [k \in Jobs |-> rows[k].result]' =
            [[k \in Jobs |-> rows[k].result] EXCEPT ![j] = result]
      <4>1. \A k \in Jobs : rows'[k].result = IF k = j THEN result ELSE rows[k].result
        BY <2>1
      <4>2. QED
        BY <4>1
    <3>3. Lifecycle!Complete(j)
      BY <2>2, <2>4, <3>1, <3>2 DEF Lifecycle!Complete
    <3>4. QED
      BY <3>3 DEF Lifecycle!Next
  <2>5. CASE status # "completed"
    <3>1. status \in {"failed", "cancelled"}
      BY <2>5 DEF TerminalStatus
    <3>2. \A k \in Jobs : rows'[k].result = rows[k].result
      BY <2>1, <2>3, <2>5
    <3>3. Lifecycle!FailOrCancel(j)
      BY <2>2, <3>1, <3>2 DEF Lifecycle!FailOrCancel
    <3>4. QED
      BY <3>3 DEF Lifecycle!Next
  <2>6. QED
    BY <2>4, <2>5
<1>3. QED
  BY <1>1, <1>2

(* What the life cycle sees of a reaped row: a final job goes. *)
LEMMA LifecycleReap ==
    ASSUME TypeOK, RowWellFormed, JobCoherent
    PROVE  /\ Expired(rows, clock) \subseteq Lifecycle!FinalJobs
           /\ \A k \in Jobs : k \in Expired(rows, clock) => ask[k] # "none"
           /\ \A k \in Jobs : Reap(rows, clock)[k] =
                 IF k \in Expired(rows, clock) THEN NoRow ELSE rows[k]
<1>1. \A k \in Expired(rows, clock) : rows[k].status \in TerminalStatus
  BY DEF Expired, RowWellFormed
<1>2. \A k \in Expired(rows, clock) : PhaseOf(k) \in Lifecycle!Final /\ k \in Jobs
  BY <1>1 DEF PhaseOf, TerminalStatus, Lifecycle!Final, Expired
<1>3. Expired(rows, clock) \subseteq Lifecycle!FinalJobs
  BY <1>2 DEF Lifecycle!FinalJobs
<1>4. \A k \in Jobs : k \in Expired(rows, clock) => ask[k] # "none"
  BY <1>1 DEF JobCoherent, RowCoherent, TerminalStatus
<1>5. QED
  BY <1>3, <1>4 DEF Reap

(* Recovery is the life cycle's Interrupt. *)
LEMMA LifecycleRecover ==
    ASSUME TypeOK, NEW p \in Processes, RecoverUnfinished(p)
    PROVE  Lifecycle!Next
<1>1. ASSUME NEW k \in Jobs
      PROVE  /\ rows[k].status \in InFlightStatus => rows'[k].status = "failed"
             /\ rows[k].status \notin InFlightStatus => rows'[k] = rows[k]
             /\ rows'[k].result = rows[k].result
  <2>1. rows[k] \in Row
    BY DEF TypeOK, Table
  <2>2. rows'[k] = IF rows[k].status \in InFlightStatus
                   THEN [rows[k] EXCEPT !.status = "failed", !.error = "interrupted",
                                        !.finished_at = clock]
                   ELSE rows[k]
    BY FailUnfinishedRow DEF RecoverUnfinished, TypeOK
  <2>3. QED
    BY <2>1, <2>2 DEF Row
<1>2. ASSUME NEW k \in Jobs
      PROVE  PhaseOf(k)' = IF PhaseOf(k) \in Lifecycle!InFlight THEN "failed" ELSE PhaseOf(k)
  BY <1>1 DEF RecoverUnfinished, jobVars, PhaseOf, InFlightStatus, Lifecycle!InFlight
<1>3. Lifecycle!Interrupt
  BY <1>1, <1>2 DEF Lifecycle!Interrupt, RecoverUnfinished, jobVars
<1>4. QED
  BY <1>3 DEF Lifecycle!Next

(* A create is the life cycle's Issue, with the expiries of its reap. *)
LEMMA LifecycleCreate ==
    ASSUME TypeOK, RowWellFormed, JobCoherent,
           NEW p \in Processes, NEW j \in Jobs, CreateJob(p, j)
    PROVE  Lifecycle!Next
<1> DEFINE S == Expired(rows, clock)
<1>1. rows[j].status = "absent" /\ j \notin S /\ PhaseOf(j) = "unissued"
  BY DEF TypeOK, CreateJob, JobCoherent, RowCoherent, RowWellFormed, Expired, PhaseOf, TerminalStatus
<1>2. ASSUME NEW k \in Jobs
      PROVE  rows'[k] = IF k = j THEN NewRow ELSE IF k \in S THEN NoRow ELSE rows[k]
  BY InsertRow, LifecycleReap DEF CreateJob, TypeOK
<1>3. ASSUME NEW k \in Jobs
      PROVE  ask'[k] = IF k = j THEN "created" ELSE ask[k]
  BY DEF CreateJob, TypeOK
<1>4. S \subseteq Lifecycle!FinalJobs /\ \A k \in Jobs : k \in S => ask[k] # "none"
  BY LifecycleReap
<1>5. ASSUME NEW k \in Jobs
      PROVE  PhaseOf(k)' = IF k = j THEN "pending" ELSE IF k \in S THEN "gone" ELSE PhaseOf(k)
  BY <1>2, <1>3, <1>4 DEF PhaseOf, NewRow, NoRow
<1>6. ASSUME NEW k \in Jobs
      PROVE  rows'[k].result = IF k \in S THEN NoText ELSE rows[k].result
  <2>1. rows[j].result = NoText
    BY <1>1 DEF RowWellFormed
  <2>2. QED
    BY <1>1, <1>2, <2>1 DEF NewRow, NoRow
<1> HIDE DEF S
<1>7. Lifecycle!Issue(j, S)
  BY <1>1, <1>4, <1>5, <1>6
  DEF Lifecycle!Issue, Lifecycle!WithoutPhase, Lifecycle!WithoutOutcome, Lifecycle!NoAnswer,
      NoText, CreateJob
<1>8. \E T \in SUBSET Lifecycle!FinalJobs : Lifecycle!Issue(j, T)
  <2>1. S \in SUBSET Lifecycle!FinalJobs
    BY <1>4
  <2>2. QED
    BY <1>7, <2>1 DEF Lifecycle!Issue, Lifecycle!WithoutPhase, Lifecycle!WithoutOutcome
<1>9. QED
  BY <1>8 DEF Lifecycle!Next

(* A reap outside create is the life cycle's Expire. *)
LEMMA LifecycleExpire ==
    ASSUME TypeOK, RowWellFormed, JobCoherent,
           rows' = Reap(rows, clock), UNCHANGED <<ask, dispatched>>
    PROVE  Lifecycle!Next
<1> DEFINE S == Expired(rows, clock)
<1>1. S \subseteq Lifecycle!FinalJobs /\ \A k \in Jobs : k \in S => ask[k] # "none"
  BY LifecycleReap
<1>2. ASSUME NEW k \in Jobs
      PROVE  rows'[k] = IF k \in S THEN NoRow ELSE rows[k]
  BY LifecycleReap
<1> HIDE DEF S
<1>3. ASSUME NEW k \in Jobs
      PROVE  /\ PhaseOf(k)' = IF k \in S THEN "gone" ELSE PhaseOf(k)
             /\ rows'[k].result = IF k \in S THEN NoText ELSE rows[k].result
  BY <1>1, <1>2 DEF PhaseOf, NoRow
<1>4. Lifecycle!Expire(S)
  BY <1>1, <1>3
  DEF Lifecycle!Expire, Lifecycle!WithoutPhase, Lifecycle!WithoutOutcome, Lifecycle!NoAnswer, NoText
<1>5. \E T \in SUBSET Lifecycle!FinalJobs : Lifecycle!Expire(T)
  <2>1. S \in SUBSET Lifecycle!FinalJobs
    BY <1>1
  <2>2. QED
    BY <1>4, <2>1 DEF Lifecycle!Expire, Lifecycle!WithoutPhase, Lifecycle!WithoutOutcome
<1>6. QED
  BY <1>5 DEF Lifecycle!Next

(* A reset is the life cycle's Reset. *)
LEMMA LifecycleReset ==
    ASSUME TypeOK, RowWellFormed, JobCoherent, rows' = ResetAll, UNCHANGED <<ask, dispatched>>
    PROVE  Lifecycle!Next
<1>1. ASSUME NEW k \in Jobs
      PROVE  rows'[k] = NoRow /\ ask'[k] = ask[k]
  BY DEF ResetAll, EmptyTable
<1>2. ASSUME NEW k \in Jobs
      PROVE  /\ PhaseOf(k) = "unissued" <=> ask[k] = "none"
             /\ PhaseOf(k) = "unissued" => rows[k].result = NoText
  BY DEF PhaseOf, JobCoherent, RowCoherent, RowWellFormed, TypeOK, Table, Row, Status,
         InFlightStatus, TerminalStatus
<1>3. ASSUME NEW k \in Jobs
      PROVE  /\ PhaseOf(k)' = IF PhaseOf(k) # "unissued" THEN "gone" ELSE PhaseOf(k)
             /\ rows'[k].result = IF PhaseOf(k) # "unissued" THEN NoText ELSE rows[k].result
  BY <1>1, <1>2 DEF PhaseOf, NoRow
<1>4. Lifecycle!Reset
  BY <1>3
  DEF Lifecycle!Reset, Lifecycle!WithoutPhase, Lifecycle!WithoutOutcome, Lifecycle!NoAnswer, NoText
<1>5. QED
  BY <1>4 DEF Lifecycle!Next

(* A worker step is Start, AskGateway, Complete, FailOrCancel or a stutter. *)
LEMMA LifecycleWorker ==
    ASSUME IInv, NEW j \in Jobs, WorkerStep(j)
    PROVE  [Lifecycle!Next]_(Lifecycle!vars)
<1> USE DEF IInv
<1>1. CASE MarksRunning(j)
  <2>1. CASE rows[j].status = "pending"
    <3>1. ASSUME NEW k \in Jobs
          PROVE  rows'[k] = IF k = j THEN [rows[k] EXCEPT !.status = "running"] ELSE rows[k]
      <4>1. rows' = MarkRunning(rows, j) /\ rows \in Table
        BY <1>1 DEF MarksRunning, TypeOK
      <4>2. QED
        BY <2>1, <4>1, MarkRunningRow
    <3>2. rows[j] \in Row
      BY DEF TypeOK, Table
    <3>3. ASSUME NEW k \in Jobs
          PROVE  /\ rows'[k].result = rows[k].result
                 /\ PhaseOf(k)' = IF k = j THEN "running" ELSE PhaseOf(k)
      BY <1>1, <3>1, <3>2 DEF MarksRunning, PhaseOf, Row
    <3>4. Lifecycle!Start(j)
      BY <1>1, <2>1, <3>3 DEF Lifecycle!Start, MarksRunning, PhaseOf
    <3>5. QED
      BY <3>4 DEF Lifecycle!Next
  <2>2. CASE rows[j].status # "pending"
    BY <1>1, <2>2, LifecycleStutter DEF MarksRunning, MarkRunning
  <2>3. QED
    BY <2>1, <2>2
<1>2. CASE AsksGateway(j)
  <2>1. rows[j].status \in {"running", "cancelled", "absent"} /\ ask[j] # "none"
    BY <1>2
    DEF AsksGateway, JobCoherent, RowCoherent, ThreadCoherent, Alive, AliveState,
        TypeOK, Table, Row, Status, InFlightStatus, TerminalStatus
  <2>2. PhaseOf(j) \in {"running", "cancelled", "gone"}
    BY <2>1 DEF PhaseOf
  <2>3. dispatched[j] = 0
    BY <1>2 DEF AsksGateway, JobCoherent, DispatchCoherent
  <2>4. UNCHANGED <<rows, ask>> /\ dispatched' = [dispatched EXCEPT ![j] = 1]
    BY <1>2, <2>3 DEF AsksGateway
  <2>5. Lifecycle!AskGateway(j)
    BY <2>2, <2>3, <2>4 DEF Lifecycle!AskGateway, PhaseOf
  <2>6. QED
    BY <2>5 DEF Lifecycle!Next
<1>3. CASE GatewayAnswers(j) \/ GatewayFails(j) \/ AnswerUnstorable(j)
  BY <1>3, LifecycleStutter DEF GatewayAnswers, GatewayFails, AnswerUnstorable
<1>4. CASE RecordsAnswer(j)
  <2>1. answer[j] \in Answers /\ dispatched[j] = 1
    BY <1>4 DEF RecordsAnswer, JobCoherent, ThreadCoherent, DispatchCoherent
  <2>2. QED
    BY <1>4, <2>1, LifecycleFinish DEF RecordsAnswer, MarkCompleted, TerminalStatus
<1>5. CASE RecordsFailure(j)
  BY <1>5, LifecycleFinish DEF RecordsFailure, MarkFailed, TerminalStatus
<1>6. QED
  BY <1>1, <1>2, <1>3, <1>4, <1>5 DEF WorkerStep

(* Every step of the bridge is a step of the life cycle or a stutter of it. *)
LEMMA LifecycleStep ==
    ASSUME IInv, [Next]_vars
    PROVE  [Lifecycle!Next]_(Lifecycle!vars)
<1> USE DEF IInv
<1>1. CASE Tick \/ ClockIsSet \/ UNCHANGED vars
  BY <1>1, LifecycleStutter DEF Tick, ClockIsSet, vars, jobVars
<1>2. ASSUME NEW p \in Processes, ServerStep(p)
      PROVE  [Lifecycle!Next]_(Lifecycle!vars)
  <2>1. CASE RecoverUnfinished(p)
    BY <2>1, LifecycleRecover
  <2>2. CASE OpenOwnerLock(p) \/ OpenFails(p)
    BY <2>2, LifecycleStutter DEF OpenOwnerLock, OpenFails, jobVars
  <2>3. CASE ProcessExits(p)
    BY <2>3, LifecycleStutter DEF ProcessExits, TypeOK
  <2>4. QED
    BY <1>2, <2>1, <2>2, <2>3 DEF ServerStep
<1>3. ASSUME NEW p \in Processes, NEW j \in Jobs, CreateJob(p, j)
      PROVE  Lifecycle!Next
  BY <1>3, LifecycleCreate
<1>4. ASSUME NEW j \in Jobs, AskDropped(j) \/ StoreRaises(j)
      PROVE  UNCHANGED Lifecycle!vars
  BY <1>4, LifecycleStutter DEF AskDropped, StoreRaises, TypeOK
<1>5. ASSUME NEW c \in Callers, CallerStep(c)
      PROVE  [Lifecycle!Next]_(Lifecycle!vars)
  <2>1. ASSUME NEW p \in Processes, NEW j \in Jobs, HermesCancelMarks(p, c, j)
        PROVE  [Lifecycle!Next]_(Lifecycle!vars)
    BY <2>1, LifecycleFinish DEF HermesCancelMarks, MarkCancelled, TerminalStatus, jobVars
  <2>2. ASSUME NEW p \in Processes, HermesReset(p, c)
        PROVE  Lifecycle!Next
    BY <2>2, LifecycleReset DEF HermesReset, jobVars
  <2>3. ASSUME NEW j \in Jobs, StartWorker(c, j)
        PROVE  UNCHANGED Lifecycle!vars
    BY <2>3, LifecycleStutter DEF StartWorker, TypeOK
  <2>4. CASE HermesCancelAborts(c)
    BY <2>4, LifecycleStutter DEF HermesCancelAborts, jobVars
  <2>5. ASSUME rows' = Reap(rows, clock), UNCHANGED jobVars
        PROVE  Lifecycle!Next
    BY <2>5, LifecycleExpire DEF jobVars
  <2>6. QED
    BY <1>5, <2>1, <2>2, <2>3, <2>4, <2>5
    DEF CallerStep, HermesCancelReplies, HermesCheck, HermesCheckUnknown
<1>6. QED
  BY <1>1, <1>2, <1>3, <1>4, <1>5, LifecycleWorker DEF Next

(* Every behaviour of the bridge is one the life cycle allows. *)
THEOREM BridgeImplementsLifecycle == Spec => ImplementsLifecycle
<1>1. Init => Lifecycle!Init
  BY DEF Init, EmptyTable, NoRow, NoText, PhaseOf, Lifecycle!Init, Lifecycle!NoAnswer
<1>2. IInv /\ [Next]_vars => [Lifecycle!Next]_(Lifecycle!vars)
  BY LifecycleStep
<1>3. QED
  BY <1>1, <1>2, Invariant, PTL DEF Spec, ImplementsLifecycle, Lifecycle!Spec

-----------------------------------------------------------------------------
(* What a caller is told moves forward.                                    *)

(* The life cycle moves an issued job forward only. *)
LEMMA PhaseForward ==
    ASSUME [Lifecycle!Next]_(Lifecycle!vars), NEW k \in Jobs, PhaseOf(k) # "unissued"
    PROVE  /\ PhaseOf(k) # "pending" => PhaseOf(k)' # "pending"
           /\ PhaseOf(k) \in TerminalStatus => PhaseOf(k)' \in {PhaseOf(k), "gone"}
           /\ PhaseOf(k) = "gone" => PhaseOf(k)' = "gone"
<1> DEFINE ph == [j \in Jobs |-> PhaseOf(j)]
<1>1. /\ ph[k] = PhaseOf(k)
      /\ ph'[k] = PhaseOf(k)'
  OBVIOUS
<1> HIDE DEF ph
<1>2. UNCHANGED ph \/ Lifecycle!Next
  BY DEF ph, Lifecycle!vars
<1>3. \A S \in SUBSET Lifecycle!FinalJobs :
        ph' = Lifecycle!WithoutPhase(S) => ph'[k] = IF k \in S THEN "gone" ELSE ph[k]
  BY DEF ph, Lifecycle!WithoutPhase
<1>4. CASE Lifecycle!Interrupt
  BY <1>1, <1>4 DEF ph, Lifecycle!Interrupt, Lifecycle!InFlight, TerminalStatus
<1>5. CASE Lifecycle!Reset
  BY <1>1, <1>5 DEF ph, Lifecycle!Reset, Lifecycle!WithoutPhase
<1>6. ASSUME NEW S \in SUBSET Lifecycle!FinalJobs, Lifecycle!Expire(S)
      PROVE  ph'[k] \in {ph[k], "gone"}
  BY <1>3, <1>6 DEF ph, Lifecycle!Expire
<1>7. ASSUME NEW j \in Jobs, NEW S \in SUBSET Lifecycle!FinalJobs, Lifecycle!Issue(j, S)
      PROVE  ph'[k] \in {ph[k], "gone"}
  BY <1>1, <1>7 DEF ph, Lifecycle!Issue, Lifecycle!WithoutPhase
<1>8. ASSUME NEW j \in Jobs, \/ Lifecycle!Start(j) \/ Lifecycle!AskGateway(j)
                             \/ Lifecycle!Complete(j) \/ Lifecycle!FailOrCancel(j)
      PROVE  \/ ph'[k] = ph[k]
             \/ ph[k] \in InFlightStatus /\ ph'[k] \in {"running"} \union TerminalStatus
  BY <1>1, <1>8
  DEF ph, Lifecycle!Start, Lifecycle!AskGateway, Lifecycle!Complete, Lifecycle!FailOrCancel,
      Lifecycle!InFlight, InFlightStatus, TerminalStatus
<1>9. QED
  BY <1>1, <1>2, <1>4, <1>5, <1>6, <1>7, <1>8 DEF Lifecycle!Next, InFlightStatus, TerminalStatus

(* The row of a job that hermes_ask has returned moves forward only. *)
LEMMA RowForward ==
    ASSUME IInv, [Next]_vars, NEW k \in Jobs, ask[k] = "replied"
    PROVE  /\ ask'[k] = "replied"
           /\ rows[k].status # "pending" => rows'[k].status # "pending"
           /\ rows[k].status \in TerminalStatus => rows'[k].status \in {rows[k].status, "absent"}
           /\ rows[k].status = "absent" => rows'[k].status = "absent"
<1>1. PhaseOf(k) # "unissued"
  <2>1. rows[k].status \in Status
    BY DEF IInv, TypeOK, Table, Row
  <2>2. QED
    BY <2>1 DEF PhaseOf, Status, InFlightStatus, TerminalStatus
<1>2. ask'[k] = "replied"
  BY DEF IInv, TypeOK, Next, vars, jobVars, Tick, ClockIsSet, ServerStep, OpenOwnerLock,
         RecoverUnfinished, OpenFails, ProcessExits, CreateJob, AskDropped, WorkerStep,
         MarksRunning, AsksGateway, GatewayAnswers, GatewayFails, RecordsAnswer,
         AnswerUnstorable, RecordsFailure, StoreRaises, CallerStep, HermesCancelReplies,
         HermesCancelAborts, HermesReset, StartWorker,
         HermesCheck, HermesCheckUnknown, HermesCancelMarks
<1>3. rows'[k].status \in Status
  BY TypeStep DEF IInv, TypeOK, Table, Row
<1>4. /\ PhaseOf(k) = IF rows[k].status # "absent" THEN rows[k].status ELSE "gone"
      /\ PhaseOf(k)' = IF rows'[k].status # "absent" THEN rows'[k].status ELSE "gone"
  BY <1>2 DEF PhaseOf
<1>5. /\ PhaseOf(k) # "pending" => PhaseOf(k)' # "pending"
      /\ PhaseOf(k) \in TerminalStatus => PhaseOf(k)' \in {PhaseOf(k), "gone"}
      /\ PhaseOf(k) = "gone" => PhaseOf(k)' = "gone"
  BY <1>1, LifecycleStep, PhaseForward
<1>6. "gone" \notin Status /\ rows[k].status \in Status
  BY DEF IInv, TypeOK, Table, Row, Status, InFlightStatus, TerminalStatus
<1>7. QED
  BY <1>2, <1>3, <1>4, <1>5, <1>6 DEF TerminalStatus

(* A step tells a caller nothing new, that the job it submitted is         *)
(* pending, or the status the row has after the step.                      *)
LEMMA ToldByStep ==
    ASSUME IInv, [Next]_vars, NEW c \in Callers, NEW k \in Jobs
    PROVE  \/ seen'[c][k] = seen[c][k]
           \/ ask[k] = "created" /\ ask'[k] = "replied" /\ seen'[c][k] = "pending"
           \/ CallerCoherent => ask[k] = "replied" /\ seen'[c][k] = Reported(rows', k)
<1> USE DEF IInv, TypeOK
<1>1. ASSUME NEW d \in Callers, NEW j \in Jobs, StartWorker(d, j)
      PROVE  \/ seen'[c][k] = seen[c][k]
             \/ ask[k] = "created" /\ ask'[k] = "replied" /\ seen'[c][k] = "pending"
  BY <1>1 DEF StartWorker
<1>2. ASSUME NEW p \in Processes, NEW d \in Callers, NEW j \in Jobs, HermesCheck(p, d, j)
      PROVE  \/ seen'[c][k] = seen[c][k]
             \/ ask[k] = "replied" /\ seen'[c][k] = Reported(rows', k)
  BY <1>2 DEF HermesCheck, KnownJobs
<1>3. ASSUME NEW d \in Callers, HermesCancelReplies(d), CallerCoherent
      PROVE  \/ seen'[c][k] = seen[c][k]
             \/ ask[k] = "replied" /\ seen'[c][k] = Reported(rows', k)
  <2>1. ask[cancelling[d].job] = "replied"
    BY <1>3 DEF HermesCancelReplies, CallerCoherent
  <2>2. seen' = [seen EXCEPT ![d][cancelling[d].job] = Reported(rows', cancelling[d].job)]
    BY <1>3 DEF HermesCancelReplies
  <2>3. QED
    BY <2>1, <2>2
<1>4. CASE UNCHANGED seen
  BY <1>4
<1>5. QED
  BY <1>1, <1>2, <1>3, <1>4
  DEF Next, vars, callerVars, Tick, ClockIsSet, ServerStep, OpenOwnerLock, RecoverUnfinished,
      OpenFails, ProcessExits, CreateJob, AskDropped, WorkerStep, MarksRunning, AsksGateway,
      GatewayAnswers, GatewayFails, RecordsAnswer, AnswerUnstorable, RecordsFailure,
      StoreRaises, CallerStep, HermesCancelAborts, HermesReset, HermesCancelMarks,
      HermesCheckUnknown

(* What a caller was told keeps agreeing with the row, and what it is told *)
(* next is a later report.                                                 *)
LEMMA CallerCoherentStep ==
    ASSUME IInv, CallerCoherent, [Next]_vars
    PROVE  /\ CallerCoherent'
           /\ \A c \in Callers, k \in Jobs : seen'[c][k] \in Later(seen[c][k])
<1>1. /\ TypeOK /\ TypeOK'
      /\ \A k \in Jobs : rows[k].status \in Status /\ rows'[k].status \in Status
  BY TypeStep DEF IInv, TypeOK, Table, Row
<1>2. ASSUME NEW c \in Callers, cancelling'[c] # NoCancel
      PROVE  ask'[cancelling'[c].job] = "replied"
  <2>1. /\ cancelling'[c].job \in Jobs
        /\ ask[cancelling'[c].job] = "replied"
    <3>1. CASE cancelling'[c] = cancelling[c]
      BY <1>1, <1>2, <3>1 DEF CallerCoherent, TypeOK, Cancels
    <3>2. ASSUME NEW p \in Processes, NEW d \in Callers, NEW j \in Jobs,
                 HermesCancelMarks(p, d, j)
          PROVE  cancelling'[c] = cancelling[c] \/ cancelling'[c].job \in KnownJobs
      BY <1>1, <3>2 DEF HermesCancelMarks, TypeOK
    <3>3. \/ cancelling'[c] = cancelling[c] \/ cancelling'[c] = NoCancel
          \/ \E p \in Processes, d \in Callers, j \in Jobs : HermesCancelMarks(p, d, j)
      BY <1>1
      DEF TypeOK, Next, vars, callerVars, Tick, ClockIsSet, ServerStep, OpenOwnerLock,
          RecoverUnfinished, OpenFails, ProcessExits, CreateJob, AskDropped, WorkerStep,
          MarksRunning, AsksGateway, GatewayAnswers, GatewayFails, RecordsAnswer,
          AnswerUnstorable, RecordsFailure, StoreRaises, CallerStep, HermesCancelReplies,
          HermesCancelAborts, HermesReset, StartWorker, HermesCheck, HermesCheckUnknown
    <3>4. QED
      BY <1>2, <3>1, <3>2, <3>3 DEF KnownJobs
  <2>2. QED
    BY <2>1, RowForward
<1>3. ASSUME NEW c \in Callers, NEW k \in Jobs
      PROVE  LET s == seen'[c][k]
             IN /\ s # "never" => ask'[k] = "replied"
                /\ s = "running" => rows'[k].status # "pending"
                /\ s \in TerminalStatus => rows'[k].status \in {s, "absent"}
                /\ s = "unknown" => rows'[k].status = "absent"
                /\ s \in Later(seen[c][k])
  <2>1. /\ seen[c][k] \in SeenStatus /\ seen'[c][k] \in SeenStatus
        /\ seen[c][k] # "never" => ask[k] = "replied"
        /\ seen[c][k] = "running" => rows[k].status # "pending"
        /\ seen[c][k] \in TerminalStatus => rows[k].status \in {seen[c][k], "absent"}
        /\ seen[c][k] = "unknown" => rows[k].status = "absent"
    BY <1>1 DEF CallerCoherent, TypeOK
  <2>2. ask[k] = "replied" =>
          /\ ask'[k] = "replied"
          /\ rows[k].status # "pending" => rows'[k].status # "pending"
          /\ rows[k].status \in TerminalStatus => rows'[k].status \in {rows[k].status, "absent"}
          /\ rows[k].status = "absent" => rows'[k].status = "absent"
    BY RowForward
  <2>3. CASE seen'[c][k] = seen[c][k]
    BY <2>1, <2>2, <2>3 DEF Later, SeenStatus, TerminalStatus
  <2>4. CASE ask[k] = "created" /\ ask'[k] = "replied" /\ seen'[c][k] = "pending"
    BY <2>1, <2>4 DEF Later, TerminalStatus
  <2>5. CASE ask[k] = "replied" /\ seen'[c][k] = Reported(rows', k)
    <3>1. seen'[c][k] = IF rows'[k].status = "absent" THEN "unknown" ELSE rows'[k].status
      BY <2>5 DEF Reported
    <3>2. QED
      BY <1>1, <2>1, <2>2, <2>5, <3>1
      DEF Later, SeenStatus, Status, InFlightStatus, TerminalStatus
  <2>6. QED
    BY <2>3, <2>4, <2>5, ToldByStep
<1>4. QED
  BY <1>2, <1>3 DEF CallerCoherent

(* What one caller is told about one job only moves forward, across        *)
(* restarts, faults and other callers.                                     *)
THEOREM CallersAreToldForward == Spec => ToldForward
<1>1. Init => CallerCoherent
  BY DEF Init, CallerCoherent, TerminalStatus
<1>2. IInv /\ CallerCoherent /\ [Next]_vars => CallerCoherent'
  BY CallerCoherentStep
<1>3. IInv /\ CallerCoherent /\ [Next]_vars =>
        [\A c \in Callers, j \in Jobs : seen'[c][j] \in Later(seen[c][j])]_seen
  BY CallerCoherentStep
<1>4. QED
  BY <1>1, <1>2, <1>3, Invariant, PTL DEF Spec, ToldForward
=============================================================================
