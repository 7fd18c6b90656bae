-------------------------- MODULE JobMemory_proofs ---------------------------
(***************************************************************************)
(* Proofs about JobMemory for any number of jobs and concurrent readers,   *)
(* any lifetime and capacity.  While a finishing method is inside, the one *)
(* record it writes is known field by field; every other one is coherent,  *)
(* and a record with its finished_at is never written again.               *)
(***************************************************************************)
EXTENDS JobMemory, FiniteSetTheorems, TLAPS

Coherent(j) ==
    /\ record[j].status \in Terminal <=> record[j].finished_at # NoTime
    /\ record[j].status = "completed" <=> record[j].result
    /\ record[j].status = "failed" <=> record[j].error

\* What the method inside has written of the record it settles.
HalfSettled(j) ==
    /\ record[j].finished_at = NoTime
    /\ section.next = "status" =>
          record[j].status \notin Terminal /\ ~record[j].result /\ ~record[j].error
    /\ section.next = "outcome" =>
          /\ section.status \in {"completed", "failed"}
          /\ record[j].status = section.status /\ ~record[j].result /\ ~record[j].error
    /\ section.next = "finished_at" =>
          /\ record[j].status = section.status
          /\ section.status = "completed" <=> record[j].result
          /\ section.status = "failed" <=> record[j].error

\* What a reader has read of a record with its finished_at is still there.
ReaderCoherent(r) ==
    LET d == reader[r].reply
        j == reader[r].job
    IN reader[r].at \in {"result", "error", "replied"} /\ d.finished_at # NoTime =>
        /\ j \in Jobs /\ record[j].finished_at # NoTime
        /\ reader[r].at \in {"error", "replied"} => d.result = record[j].result
        /\ reader[r].at = "replied" => d.error = record[j].error

Settling ==
    \A j \in Jobs : IF section.job = j THEN HalfSettled(j) ELSE Coherent(j)

IInv ==
    /\ TypeOK
    /\ Settling
    /\ \A r \in Readers : ReaderCoherent(r)

-----------------------------------------------------------------------------

(* The initial states satisfy the invariant. *)
LEMMA InitIInv == Init => IInv
<1> SUFFICES ASSUME Init
             PROVE  IInv
  OBVIOUS
<1>1. NewRecord \in Record
  BY DEF NewRecord, Record, Status, NoTime
<1>2. TypeOK
  BY <1>1 DEF Init, TypeOK, Section, ReaderState
<1>3. Settling
  BY NoneIsNoJob DEF Init, Settling, Coherent, NewRecord, Free, NoTime, Terminal
<1>4. \A r \in Readers : ReaderCoherent(r)
  BY DEF Init, ReaderCoherent, Idle
<1>5. QED
  BY <1>2, <1>3, <1>4 DEF IInv

(* A method that is inside knows its job, its status and its next field. *)
LEMMA InsideIsTyped ==
    ASSUME TypeOK, section.next # "none"
    PROVE  /\ section # Free /\ section.job \in Jobs /\ section.status \in Terminal
           /\ section.next \in {"status", "outcome", "finished_at"}
BY DEF TypeOK, Section, Free

(* A reader that has got a Job reads a record of a job. *)
LEMMA ReaderIsTyped ==
    ASSUME TypeOK, NEW r \in Readers, reader[r].at # "idle"
    PROVE  reader[r].job \in Jobs /\ reader[r].reply \in Record
BY DEF TypeOK, ReaderState, Idle

(* Only the record being settled is written, a pending one apart; a record *)
(* with its finished_at is not.                                            *)
LEMMA OthersUnwritten ==
    ASSUME IInv, [Next]_vars, NEW j \in Jobs, record[j].finished_at # NoTime
    PROVE  record'[j] = record[j]
<1>1. Coherent(j) /\ section.job # j
  BY DEF IInv, Settling, HalfSettled
<1>2. record[j].status \in Terminal
  BY <1>1 DEF Coherent
<1>3. ASSUME NEW k \in Jobs, MarkRunning(k)
      PROVE  record'[j] = record[j]
  BY <1>2, <1>3 DEF MarkRunning, Terminal, IInv, TypeOK
<1>4. CASE WriteStatus \/ WriteOutcome \/ WriteFinishedAt
  BY <1>1, <1>4 DEF WriteStatus, WriteOutcome, WriteFinishedAt, IInv, TypeOK
<1>5. CASE UNCHANGED record
  BY <1>5
<1>6. QED
  BY <1>3, <1>4, <1>5 DEF Next, vars, ClockShows, Reset, CreateRefused, Create, WorkerFinishes,
     CallerCancels, CheckCalls, CheckGets, ToDict, Reads

(* The types are kept. *)
LEMMA TypeStep ==
    ASSUME TypeOK, [Next]_vars
    PROVE  TypeOK'
<1> USE DEF TypeOK
<1>1. NewRecord \in Record
  BY DEF NewRecord, Record, Status, NoTime
<1>2. CASE ClockShows \/ Reset
  BY <1>2, MemoryLimitsAreNat DEF ClockShows, Reset
<1>3. ASSUME NEW now \in 0..shown, CreateRefused(now) \/ \E j \in Jobs : Create(j, now)
      PROVE  TypeOK'
  <2>1. Reaped(now) \subseteq Jobs
    BY DEF Reaped
  <2>2. QED
    BY <1>3, <2>1 DEF CreateRefused, Create
<1>4. ASSUME NEW j \in Jobs, MarkRunning(j)
      PROVE  TypeOK'
  <2>1. record' \in [Jobs -> Record]
    BY <1>4 DEF MarkRunning, Record, Status
  <2>2. QED
    BY <1>4, <2>1 DEF MarkRunning
<1>5. ASSUME NEW j \in Jobs, WorkerFinishes(j) \/ CallerCancels(j)
      PROVE  TypeOK'
  <2>1. \A s \in Terminal : EnterFinish(j, s) \in Section
    BY DEF EnterFinish, Section
  <2>2. QED
    BY <1>5, <2>1 DEF WorkerFinishes, CallerCancels, Terminal
<1>6. CASE WriteStatus
  <2>1. section.job \in Jobs /\ section.status \in Terminal /\ section # Free
    BY <1>6, InsideIsTyped DEF WriteStatus
  <2>2. record' \in [Jobs -> Record]
    BY <1>6, <2>1 DEF WriteStatus, Record, Status
  <2>3. section' \in Section
    BY <1>6, <2>1 DEF WriteStatus, Section
  <2>4. QED
    BY <1>6, <2>2, <2>3 DEF WriteStatus
<1>7. CASE WriteOutcome
  <2>1. section.job \in Jobs /\ section.status \in Terminal /\ section # Free
    BY <1>7, InsideIsTyped DEF WriteOutcome
  <2>2. record' \in [Jobs -> Record]
    BY <1>7, <2>1 DEF WriteOutcome, Record
  <2>3. section' \in Section
    BY <1>7, <2>1 DEF WriteOutcome, Section
  <2>4. QED
    BY <1>7, <2>2, <2>3 DEF WriteOutcome
<1>8. CASE WriteFinishedAt
  <2>1. section.job \in Jobs /\ clock \in Nat
    BY <1>8, InsideIsTyped DEF WriteFinishedAt
  <2>2. record' \in [Jobs -> Record]
    BY <1>8, <2>1 DEF WriteFinishedAt, Record
  <2>3. QED
    BY <1>8, <2>2 DEF WriteFinishedAt, Section
<1>9. ASSUME NEW r \in Readers, NEW j \in Jobs, CheckCalls(r, j)
      PROVE  TypeOK'
  BY <1>1, <1>9 DEF CheckCalls, ReaderState
<1>10. ASSUME NEW r \in Readers, CheckGets(r)
       PROVE  TypeOK'
  <2>1. Reaped(reader[r].now) \subseteq Jobs
    BY DEF Reaped
  <2>2. [reader[r] EXCEPT !.at = "status"] \in ReaderState /\ Idle \in ReaderState
    BY <1>10 DEF CheckGets, ReaderState, Idle
  <2>3. QED
    BY <1>10, <2>1, <2>2 DEF CheckGets
<1>11. ASSUME NEW r \in Readers, ToDict(r)
       PROVE  TypeOK'
  <2>1. reader[r].job \in Jobs /\ reader[r].reply \in Record /\ reader[r] # Idle
    BY <1>11, ReaderIsTyped DEF ToDict, Reads, Idle
  <2>2. record[reader[r].job] \in Record
    BY <2>1
  <2>3. reader' \in [Readers -> ReaderState]
    BY <1>11, <2>1, <2>2 DEF ToDict, Reads, ReaderState, Record
  <2>4. QED
    BY <1>11, <2>3 DEF ToDict, Reads
<1>12. CASE UNCHANGED vars
  BY <1>12 DEF vars
<1>13. QED
  BY <1>2, <1>3, <1>4, <1>5, <1>6, <1>7, <1>8, <1>9, <1>10, <1>11, <1>12 DEF Next

(* The record being settled is half settled as far as the method says, and *)
(* every other one is coherent.                                            *)
LEMMA SettlingStep ==
    ASSUME IInv, [Next]_vars
    PROVE  Settling'
<1> USE DEF IInv, TypeOK
<1>1. ASSUME UNCHANGED <<record, section>>
      PROVE  Settling'
  BY <1>1 DEF Settling, HalfSettled, Coherent
<1>2. ASSUME NEW j \in Jobs, MarkRunning(j)
      PROVE  Settling'
  <2>1. section.job \notin Jobs /\ section' = section
    BY <1>2, NoneIsNoJob DEF MarkRunning, Free
  <2>2. \A k \in Jobs : Coherent(k)
    BY <2>1 DEF Settling
  <2>3. \A k \in Jobs : Coherent(k)'
    BY <1>2, <2>2 DEF MarkRunning, Coherent, Terminal, Record
  <2>4. QED
    BY <2>1, <2>3 DEF Settling
<1>3. ASSUME NEW j \in Jobs, NEW s \in Terminal, Accepts(j), section = Free,
             section' = EnterFinish(j, s), UNCHANGED record
      PROVE  Settling'
  <2>1. \A k \in Jobs : Coherent(k)
    BY <1>3, NoneIsNoJob DEF Settling, Free
  <2>2. section'.job = j /\ section'.next = "status"
    BY <1>3 DEF EnterFinish
  <2>3. HalfSettled(j)'
    BY <1>3, <2>1, <2>2 DEF Accepts, Coherent, HalfSettled, Terminal, Record
  <2>4. \A k \in Jobs : Coherent(k)'
    BY <1>3, <2>1 DEF Coherent
  <2>5. QED
    BY <2>2, <2>3, <2>4 DEF Settling
<1>4. ASSUME NEW j \in Jobs, WorkerFinishes(j) \/ CallerCancels(j)
      PROVE  Settling'
  BY <1>1, <1>3, <1>4 DEF WorkerFinishes, CallerCancels, Terminal
<1>5. ASSUME NEW j \in Jobs, section.job = j, HalfSettled(j),
             \A k \in Jobs \ {j} : Coherent(k) /\ record'[k] = record[k],
             \/ section'.job = j /\ HalfSettled(j)'
             \/ section' = Free /\ Coherent(j)'
      PROVE  Settling'
  <2>1. \A k \in Jobs \ {j} : Coherent(k)'
    BY <1>5 DEF Coherent
  <2>2. Free.job \notin Jobs
    BY NoneIsNoJob DEF Free
  <2>3. QED
    BY <1>5, <2>1, <2>2 DEF Settling
<1>6. ASSUME WriteStatus \/ WriteOutcome \/ WriteFinishedAt
      PROVE  Settling'
  <2>1. PICK j \in Jobs : section.job = j /\ section.status \in Terminal
    BY <1>6, InsideIsTyped DEF WriteStatus, WriteOutcome, WriteFinishedAt
  <2>2. /\ HalfSettled(j) /\ record[j] \in Record /\ clock \in Nat
        /\ \A k \in Jobs \ {j} : Coherent(k) /\ record'[k] = record[k]
    BY <1>6, <2>1 DEF Settling, WriteStatus, WriteOutcome, WriteFinishedAt
  <2>3. CASE WriteStatus
    <3>1. /\ record'[j] = [record[j] EXCEPT !.status = section.status]
          /\ section' = [section EXCEPT !.next = IF section.status = "cancelled"
                                               THEN "finished_at" ELSE "outcome"]
          /\ section.next = "status"
      BY <2>1, <2>3 DEF WriteStatus
    <3>2. /\ section'.job = j /\ section'.status = section.status
          /\ section'.next = IF section.status = "cancelled" THEN "finished_at" ELSE "outcome"
      BY <2>1, <3>1 DEF Section, Free
    <3>3. HalfSettled(j)'
      BY <2>1, <2>2, <3>1, <3>2 DEF HalfSettled, Record, Terminal
    <3>4. QED
      BY <1>5, <2>1, <2>2, <3>2, <3>3
  <2>4. CASE WriteOutcome
    <3>1. /\ record'[j] = IF section.status = "completed"
                          THEN [record[j] EXCEPT !.result = TRUE]
                          ELSE [record[j] EXCEPT !.error = TRUE]
          /\ section' = [section EXCEPT !.next = "finished_at"]
          /\ section.next = "outcome"
      BY <2>1, <2>4 DEF WriteOutcome
    <3>2. section'.job = j /\ section'.status = section.status /\ section'.next = "finished_at"
      BY <2>1, <3>1 DEF Section, Free
    <3>3. HalfSettled(j)'
      BY <2>1, <2>2, <3>1, <3>2 DEF HalfSettled, Record, Terminal
    <3>4. QED
      BY <1>5, <2>1, <2>2, <3>2, <3>3
  <2>5. CASE WriteFinishedAt
    <3>1. /\ record'[j] = [record[j] EXCEPT !.finished_at = clock]
          /\ section' = Free /\ section.next = "finished_at"
      BY <2>1, <2>5 DEF WriteFinishedAt
    <3>2. Coherent(j)'
      BY <2>1, <2>2, <3>1 DEF HalfSettled, Coherent, Record, Terminal, NoTime
    <3>3. QED
      BY <1>5, <2>1, <2>2, <3>1, <3>2
  <2>6. QED
    BY <1>6, <2>3, <2>4, <2>5
<1>7. QED
  BY <1>1, <1>2, <1>4, <1>6 DEF Next, vars, ClockShows, Reset, CreateRefused, Create,
     CheckCalls, CheckGets, ToDict, Reads

(* What a reader has read of a settled record is still what the record     *)
(* holds, whoever writes another one in between.                           *)
LEMMA ReaderStep ==
    ASSUME IInv, [Next]_vars, NEW r \in Readers
    PROVE  ReaderCoherent(r)'
<1> USE DEF IInv, TypeOK
<1>1. \A j \in Jobs : record[j].finished_at # NoTime => record'[j] = record[j]
  BY OthersUnwritten
<1>2. ASSUME reader'[r] = reader[r]
      PROVE  ReaderCoherent(r)'
  BY <1>1, <1>2 DEF ReaderCoherent
<1>3. ASSUME NEW j \in Jobs, CheckCalls(r, j)
      PROVE  ReaderCoherent(r)'
  BY <1>3 DEF CheckCalls, ReaderCoherent
<1>4. CASE CheckGets(r)
  BY <1>4 DEF CheckGets, ReaderCoherent, Idle, ReaderState
<1>5. CASE ToDict(r)
  <2>1. /\ reader[r].job \in Jobs /\ reader[r].reply \in Record
        /\ reader[r].at \in {"status", "finished_at", "result", "error"}
        /\ UNCHANGED record
    BY <1>5, ReaderIsTyped DEF ToDict, Reads
  <2>2. reader'[r].job = reader[r].job
    BY <1>5, <2>1 DEF ToDict, Reads, ReaderState, Idle
  <2>3. CASE Reads(r, "status", "finished_at")
    BY <2>1, <2>3 DEF Reads, ReaderCoherent, ReaderState, Idle
  <2>4. CASE Reads(r, "finished_at", "result")
    BY <2>1, <2>4 DEF Reads, ReaderCoherent, ReaderState, Idle, Record
  <2>5. CASE Reads(r, "result", "error")
    BY <2>1, <2>5 DEF Reads, ReaderCoherent, ReaderState, Idle, Record
  <2>6. CASE Reads(r, "error", "replied")
    BY <2>1, <2>6 DEF Reads, ReaderCoherent, ReaderState, Idle, Record
  <2>7. QED
    BY <1>5, <2>3, <2>4, <2>5, <2>6 DEF ToDict
<1>6. ASSUME NEW q \in Readers \ {r}, CheckGets(q) \/ ToDict(q) \/ \E j \in Jobs : CheckCalls(q, j)
      PROVE  ReaderCoherent(r)'
  BY <1>2, <1>6 DEF CheckGets, ToDict, Reads, CheckCalls
<1>7. CASE UNCHANGED reader
  BY <1>2, <1>7
<1>8. QED
  BY <1>3, <1>4, <1>5, <1>6, <1>7 DEF Next, vars, ClockShows, Reset, CreateRefused, Create,
     MarkRunning, WorkerFinishes, CallerCancels, WriteStatus, WriteOutcome, WriteFinishedAt

-----------------------------------------------------------------------------

(* The inductive invariant: what the method inside has written, what the   *)
(* others left, and what the readers have seen of it.                      *)
THEOREM MemoryInvariant == Spec => []IInv
<1>1. IInv /\ [Next]_vars => IInv'
  BY TypeStep, SettlingStep, ReaderStep DEF IInv
<1>2. QED
  BY <1>1, InitIInv, PTL DEF Spec

(* The types hold for every number of jobs and readers. *)
THEOREM MemoryTyped == Spec => []TypeOK
BY MemoryInvariant, PTL DEF IInv

(* Nobody who takes the lock of the store sees a job half settled          *)
(* (jobs.py:146-189).                                                      *)
THEOREM LockedReadsAreCoherent == Spec => []CoherentWhenFree
<1>1. IInv => CoherentWhenFree
  BY NoneIsNoJob DEF IInv, Settling, Coherent, CoherentWhenFree, Free
<1>2. QED
  BY <1>1, MemoryInvariant, PTL

(* A reply torn by a concurrent writer that shows finished_at shows the    *)
(* outcome (jobs.py:157-159).                                              *)
THEOREM TornRepliesShowOutcome == Spec => []FinishedShowsOutcome
<1>1. IInv => FinishedShowsOutcome
  <2> SUFFICES ASSUME IInv, NEW r \in Readers, reader[r].at = "replied",
                      reader[r].reply.finished_at # NoTime
               PROVE  \/ reader[r].reply.result \/ reader[r].reply.error
                      \/ record[reader[r].job].status = "cancelled"
    BY DEF FinishedShowsOutcome
  <2> DEFINE j == reader[r].job
  <2>1. /\ j \in Jobs /\ record[j].finished_at # NoTime
        /\ reader[r].reply.result = record[j].result
        /\ reader[r].reply.error = record[j].error
    BY DEF IInv, ReaderCoherent
  <2>2. Coherent(j)
    BY <2>1 DEF IInv, Settling, HalfSettled
  <2>3. QED
    BY <2>1, <2>2 DEF Coherent, Terminal
<1>2. QED
  BY <1>1, MemoryInvariant, PTL

(* A settled job keeps its status, whoever finishes or cancels it again.   *)
THEOREM JobsSettleOnce == Spec => SettledOnce
<1> DEFINE A(j) == record[j].status \in Terminal => record'[j].status = record[j].status
<1>1. ASSUME IInv, [Next]_vars, NEW j \in Jobs
      PROVE  A(j)
  <2> SUFFICES ASSUME record[j].status \in Terminal
               PROVE  record'[j].status = record[j].status
    OBVIOUS
  <2> USE <1>1 DEF IInv, TypeOK
  <2>1. ASSUME NEW k \in Jobs, MarkRunning(k)
        PROVE  record'[j].status = record[j].status
    BY <2>1 DEF MarkRunning, Terminal, Record
  <2>2. CASE WriteStatus
    <3>1. section.job # j
      BY <2>2 DEF WriteStatus, Settling, HalfSettled
    <3>2. QED
      BY <2>2, <3>1 DEF WriteStatus
  <2>3. CASE WriteOutcome \/ WriteFinishedAt
    BY <2>3 DEF WriteOutcome, WriteFinishedAt, Record
  <2>4. CASE UNCHANGED record
    BY <2>4
  <2>5. QED
    BY <2>1, <2>2, <2>3, <2>4 DEF Next, vars, ClockShows, Reset, CreateRefused, Create,
       WorkerFinishes, CallerCancels, CheckCalls, CheckGets, ToDict, Reads
<1>2. IInv /\ [Next]_vars => [\A j \in Jobs : A(j)]_vars
  BY <1>1
<1>3. QED
  BY <1>2, MemoryInvariant, PTL DEF Spec, SettledOnce

-----------------------------------------------------------------------------
(* What nobody finds missing, and what a reply may be believed for.        *)

CapacityKept == Cardinality(jobs) <= MaxJobs

(* The store never holds more than MaxJobs jobs, however its creates,      *)
(* reaps and checks follow each other (JobStore.create).                   *)
THEOREM MemoryKeepsCapacity == Spec => []CapacityKept
<1>1. Init => CapacityKept
  BY FS_EmptySet, MemoryLimitsAreNat DEF Init, CapacityKept
<1>2. ASSUME IInv, CapacityKept, [Next]_vars
      PROVE  CapacityKept'
  <2>1. IsFiniteSet(jobs) /\ Cardinality(jobs) \in Nat
    BY <1>2, MemoryJobsFinite, FS_Subset, FS_CardinalityType DEF IInv, TypeOK
  <2>2. ASSUME jobs' \subseteq jobs
        PROVE  CapacityKept'
    <3>1. Cardinality(jobs') <= Cardinality(jobs) /\ Cardinality(jobs') \in Nat
      BY <2>1, <2>2, FS_Subset, FS_CardinalityType
    <3>2. QED
      BY <1>2, <2>1, <3>1, MemoryLimitsAreNat DEF CapacityKept
  <2>3. ASSUME NEW j \in Jobs, NEW now, Create(j, now)
        PROVE  CapacityKept'
    <3>1. IsFiniteSet(Reaped(now)) /\ Cardinality(Reaped(now)) \in Nat
      BY <2>1, FS_Subset, FS_CardinalityType DEF Reaped
    <3>2. Cardinality(Reaped(now) \union {j}) \in {Cardinality(Reaped(now)),
                                                   Cardinality(Reaped(now)) + 1}
      BY <3>1, FS_AddElement
    <3>3. QED
      BY <2>3, <3>1, <3>2, MemoryLimitsAreNat DEF Create, CapacityKept
  <2>4. QED
    BY <1>2, <2>2, <2>3 DEF Next, vars, ClockShows, Reset, WriteStatus, WriteOutcome,
       WriteFinishedAt, CreateRefused, MarkRunning, WorkerFinishes, CallerCancels,
       CheckCalls, CheckGets, ToDict, Reads, Reaped
<1>3. QED
  BY <1>1, <1>2, MemoryInvariant, PTL DEF Spec

\* The time a check took before it waited for the lock has been shown.
NowWasShown == \A r \in Readers : reader[r].now <= shown

(* The times that create and get took before they waited for the lock are  *)
(* stale, and the clock may be set; still no job is forgotten early, and   *)
(* none in flight at all, other than by a reset.                           *)
THEOREM MemoryForgetsOnlyWhenDue == Spec => ForgottenOnlyWhenDue
<1> DEFINE Due == \A j \in jobs \ jobs' :
                    Reset \/ (record[j].status \in Terminal /\ record[j].finished_at + Ttl < shown)
<1>1. Init => NowWasShown
  BY DEF Init, NowWasShown, Idle
<1>2. ASSUME IInv, NowWasShown, [Next]_vars
      PROVE  NowWasShown'
  <2>1. shown' \in Nat /\ shown' >= shown
    <3>1. shown \in Nat /\ MaxTime \in Nat
      BY <1>2, MemoryLimitsAreNat DEF IInv, TypeOK
    <3>2. ClockShows \/ shown' = shown
      BY <1>2 DEF Next, vars, Reset, WriteStatus, WriteOutcome, WriteFinishedAt,
         CreateRefused, Create, MarkRunning, WorkerFinishes, CallerCancels, CheckCalls,
         CheckGets, ToDict, Reads
    <3>3. QED
      BY <3>1, <3>2 DEF ClockShows
  <2> USE <1>2 DEF IInv, TypeOK
  <2>2. ASSUME NEW q \in Readers
        PROVE  reader'[q].now \in {0, clock, reader[q].now}
    <3>1. CASE UNCHANGED reader
      BY <3>1
    <3>2. ASSUME NEW r \in Readers, NEW j \in Jobs, CheckCalls(r, j)
          PROVE  reader'[q].now \in {0, clock, reader[q].now}
      BY <3>2 DEF CheckCalls
    <3>3. ASSUME NEW r \in Readers, CheckGets(r)
          PROVE  reader'[q].now \in {0, clock, reader[q].now}
      BY <3>3 DEF CheckGets, Idle, ReaderState
    <3>4. ASSUME NEW r \in Readers, ToDict(r)
          PROVE  reader'[q].now \in {0, clock, reader[q].now}
      BY <3>4 DEF ToDict, Reads, Idle, ReaderState
    <3>5. QED
      BY <3>1, <3>2, <3>3, <3>4 DEF Next, vars, ClockShows, Reset, WriteStatus, WriteOutcome,
         WriteFinishedAt, CreateRefused, Create, MarkRunning, WorkerFinishes, CallerCancels
  <2>3. \A q \in Readers : reader[q].now \in Nat
    BY DEF ReaderState, Idle
  <2>4. ASSUME NEW q \in Readers
        PROVE  reader'[q].now <= shown'
    <3>1. reader[q].now <= shown /\ clock <= shown /\ clock \in Nat
      BY <1>2 DEF NowWasShown
    <3>2. QED
      BY <2>1, <2>2, <2>3, <3>1
  <2>5. QED
    BY <2>4 DEF NowWasShown
<1>3. ASSUME IInv, NowWasShown, [Next]_vars
      PROVE  Due \/ UNCHANGED vars
  <2> USE <1>3 DEF IInv, TypeOK
  <2>1. ASSUME section = Free, NEW now \in Nat, now <= shown, NEW j \in jobs \ Reaped(now)
        PROVE  record[j].status \in Terminal /\ record[j].finished_at + Ttl < shown
    <3>1. section.job # j /\ j \in Jobs
      BY <2>1, NoneIsNoJob DEF Free
    <3>2. record[j].finished_at # NoTime /\ record[j].finished_at < now - Ttl
      BY <2>1 DEF Reaped
    <3>3. record[j].finished_at \in Nat
      BY <3>1, <3>2 DEF Record
    <3>4. record[j].finished_at + Ttl < shown
      BY <2>1, <3>2, <3>3, MemoryLimitsAreNat
    <3>5. QED
      BY <3>1, <3>2, <3>4 DEF Settling, Coherent
  <2>2. ASSUME NEW now \in 0..shown, CreateRefused(now) \/ \E j \in Jobs : Create(j, now)
        PROVE  Due
    BY <2>1, <2>2 DEF CreateRefused, Create
  <2>3. ASSUME NEW r \in Readers, CheckGets(r)
        PROVE  Due
    <3>1. reader[r].now \in Nat /\ reader[r].now <= shown
      BY DEF ReaderState, Idle, NowWasShown
    <3>2. QED
      BY <2>1, <2>3, <3>1 DEF CheckGets
  <2>4. CASE Reset \/ UNCHANGED jobs
    BY <2>4
  <2>5. QED
    BY <2>2, <2>3, <2>4 DEF Next, vars, ClockShows, WriteStatus, WriteOutcome,
       WriteFinishedAt, MarkRunning, WorkerFinishes, CallerCancels, CheckCalls, ToDict, Reads
<1>4. IInv /\ NowWasShown /\ [Next]_vars => [Due]_vars
  BY <1>3
<1>5. QED
  BY <1>1, <1>2, <1>4, MemoryInvariant, PTL DEF Spec, ForgottenOnlyWhenDue

\* A reply that has read a final status has read the last one.
StatusRead(r) ==
    LET d == reader[r].reply
        j == reader[r].job
    IN reader[r].at \in {"finished_at", "result", "error", "replied"} /\ d.status \in Terminal =>
          j \in Jobs /\ record[j].status = d.status

FinalRepliesStayTrue == \A r \in Readers : StatusRead(r)

(* However torn a reply is, a final status in it is the job's for good: no *)
(* finish, reset or expiry afterwards makes it untrue.                     *)
THEOREM FinalRepliesAreFinal == Spec => []FinalRepliesStayTrue
<1>1. Init => FinalRepliesStayTrue
  BY DEF Init, FinalRepliesStayTrue, StatusRead, Idle
<1>2. ASSUME IInv, FinalRepliesStayTrue, [Next]_vars,
             \A j \in Jobs : record[j].status \in Terminal => record'[j].status = record[j].status,
             NEW q \in Readers
      PROVE  StatusRead(q)'
  <2> USE <1>2 DEF IInv, TypeOK
  <2>1. StatusRead(q)
    BY DEF FinalRepliesStayTrue
  <2>2. CASE reader'[q] = reader[q]
    BY <2>1, <2>2 DEF StatusRead
  <2>3. ASSUME NEW j \in Jobs, CheckCalls(q, j)
        PROVE  StatusRead(q)'
    BY <2>3 DEF CheckCalls, StatusRead
  <2>4. CASE CheckGets(q)
    <3>1. reader'[q].at \in {"status", "idle"}
      BY <2>4 DEF CheckGets, Idle, ReaderState
    <3>2. QED
      BY <3>1 DEF StatusRead
  <2>5. CASE Reads(q, "status", "finished_at")
    <3>1. /\ UNCHANGED record
          /\ reader'[q].job = reader[q].job /\ reader[q].job \in Jobs
          /\ reader'[q].reply.status = record[reader[q].job].status
      BY <2>5, ReaderIsTyped DEF Reads, ReaderState, Idle, NewRecord, Record
    <3>2. QED
      BY <3>1 DEF StatusRead
  <2>6. ASSUME NEW f \in {"finished_at", "result", "error"}, NEW n, Reads(q, f, n)
        PROVE  StatusRead(q)'
    <3>1. /\ UNCHANGED record
          /\ reader[q].at \in {"finished_at", "result", "error"}
          /\ reader'[q].job = reader[q].job
          /\ reader'[q].reply.status = reader[q].reply.status
      BY <2>6, ReaderIsTyped DEF Reads, ReaderState, Idle, NewRecord, Record
    <3>2. QED
      BY <2>1, <3>1 DEF StatusRead
  <2>7. QED
    BY <2>2, <2>3, <2>4, <2>5, <2>6 DEF Next, vars, ClockShows, Reset, WriteStatus, WriteOutcome,
       WriteFinishedAt, CreateRefused, Create, MarkRunning, WorkerFinishes, CallerCancels,
       CheckCalls, CheckGets, ToDict, Reads
<1>3. IInv /\ FinalRepliesStayTrue /\ [Next]_vars
        /\ [\A j \in Jobs : record[j].status \in Terminal
              => record'[j].status = record[j].status]_vars
      => FinalRepliesStayTrue'
  <2>1. UNCHANGED vars => UNCHANGED record
    BY DEF vars
  <2>2. QED
    BY <1>2, <2>1 DEF FinalRepliesStayTrue
<1>4. QED
  BY <1>1, <1>3, MemoryInvariant, JobsSettleOnce, PTL DEF Spec, SettledOnce

-----------------------------------------------------------------------------
(* The store implements the life cycle of a job.                           *)

\* What the worker thread of a job and the method inside say of its record.
WorkerCoherent(j) ==
    /\ worker[j] = "none" =>
          /\ j \notin jobs /\ section.job # j
          /\ record[j].status = "pending" /\ ~record[j].result
    /\ j \in jobs /\ section.job # j =>
          /\ worker[j] = "spawned" => record[j].status \in {"pending", "cancelled"}
          /\ worker[j] = "marked" => record[j].status \in {"running", "cancelled"}
          /\ worker[j] = "ended" => record[j].status \in Terminal
    /\ section.job = j =>
          /\ j \in jobs
          /\ section.status # "cancelled" => worker[j] = "ended"

Attended == \A j \in Jobs : WorkerCoherent(j)

(* A thread that has started its job finds it running or cancelled; one    *)
(* that has ended leaves it settled, unless it was forgotten.              *)
LEMMA AttendedStep ==
    ASSUME IInv, Attended, [Next]_vars
    PROVE  Attended'
<1> USE DEF IInv, TypeOK
<1> SUFFICES ASSUME NEW k \in Jobs
             PROVE  WorkerCoherent(k)'
  BY DEF Attended
<1>0. WorkerCoherent(k)
  BY DEF Attended
<1>1. ASSUME section = Free, jobs' \subseteq jobs, UNCHANGED <<record, section, worker>>
      PROVE  WorkerCoherent(k)'
  BY <1>0, <1>1, NoneIsNoJob DEF WorkerCoherent, Free
<1>2. CASE Reset \/ \E now \in 0..shown : CreateRefused(now)
  BY <1>1, <1>2 DEF Reset, CreateRefused, Reaped
<1>3. ASSUME NEW r \in Readers, CheckGets(r)
      PROVE  WorkerCoherent(k)'
  BY <1>1, <1>3 DEF CheckGets, Reaped
<1>4. ASSUME NEW j \in Jobs, NEW now, Create(j, now)
      PROVE  WorkerCoherent(k)'
  BY <1>0, <1>4, NoneIsNoJob DEF Create, Reaped, WorkerCoherent, Free
<1>5. ASSUME NEW j \in Jobs, MarkRunning(j)
      PROVE  WorkerCoherent(k)'
  <2>1. section.job # k /\ UNCHANGED <<jobs, section>>
    BY <1>5, NoneIsNoJob DEF MarkRunning, Free
  <2>2. CASE k = j
    <3>1. record[j] \in Record /\ worker[j] = "spawned" /\ worker'[j] = "marked"
      BY <1>5 DEF MarkRunning
    <3>2. record'[j] = IF j \in jobs /\ record[j].status = "pending"
                       THEN [record[j] EXCEPT !.status = "running"] ELSE record[j]
      BY <1>5 DEF MarkRunning
    <3>3. j \in jobs => record'[j].status \in {"running", "cancelled"}
      BY <1>0, <2>1, <2>2, <3>1, <3>2 DEF WorkerCoherent, Record
    <3>4. QED
      BY <2>1, <2>2, <3>1, <3>3 DEF WorkerCoherent
  <2>3. CASE k # j
    BY <1>0, <1>5, <2>1, <2>3 DEF MarkRunning, WorkerCoherent
  <2>4. QED
    BY <2>2, <2>3
<1>6. ASSUME NEW j \in Jobs, NEW s \in Terminal, Accepts(j), section = Free,
             section' = EnterFinish(j, s), UNCHANGED <<jobs, record>>,
             s # "cancelled" => worker'[j] = "ended",
             worker'[j] # "none", \A i \in Jobs \ {j} : worker'[i] = worker[i]
      PROVE  WorkerCoherent(k)'
  <2>1. section.job # k /\ section'.job = j /\ section'.status = s
    BY <1>6, NoneIsNoJob DEF EnterFinish, Free
  <2>2. CASE k = j
    <3>1. j \in jobs'
      BY <1>6 DEF Accepts
    <3>2. QED
      BY <1>6, <2>1, <2>2, <3>1 DEF WorkerCoherent
  <2>3. CASE k # j
    BY <1>0, <1>6, <2>1, <2>3 DEF WorkerCoherent
  <2>4. QED
    BY <2>2, <2>3
<1>7. ASSUME NEW j \in Jobs, WorkerFinishes(j)
      PROVE  WorkerCoherent(k)'
  <2>1. CASE Accepts(j)
    BY <1>6, <1>7, <2>1 DEF WorkerFinishes, Terminal
  <2>2. CASE ~Accepts(j)
    BY <1>0, <1>7, <2>2, NoneIsNoJob DEF WorkerFinishes, WorkerCoherent, Accepts, Free
  <2>3. QED
    BY <2>1, <2>2
<1>8. ASSUME NEW j \in Jobs, CallerCancels(j)
      PROVE  WorkerCoherent(k)'
  <2>1. worker[j] # "none"
    BY <1>8 DEF CallerCancels, Accepts, Attended, WorkerCoherent
  <2>2. QED
    BY <1>6, <1>8, <2>1 DEF CallerCancels, Terminal
<1>9. CASE WriteStatus \/ WriteOutcome
  <2>1. /\ section'.job = section.job /\ section'.status = section.status
        /\ UNCHANGED <<jobs, worker>>
        /\ \A i \in Jobs : i # section.job => record'[i] = record[i]
    BY <1>9, InsideIsTyped DEF WriteStatus, WriteOutcome, Section, Free
  <2>2. QED
    BY <1>0, <2>1 DEF WorkerCoherent
<1>10. CASE WriteFinishedAt
  <2>1. PICK j \in Jobs : section.job = j /\ section.status \in Terminal
    BY <1>10, InsideIsTyped DEF WriteFinishedAt
  <2>2. /\ record'[j].status = section.status
        /\ section' = Free /\ UNCHANGED <<jobs, worker>>
        /\ \A i \in Jobs \ {j} : record'[i] = record[i]
    BY <1>10, <2>1 DEF WriteFinishedAt, Settling, HalfSettled, Record
  <2>3. WorkerCoherent(j)
    BY DEF Attended
  <2>4. CASE k = j
    BY <2>1, <2>2, <2>3, <2>4, NoneIsNoJob DEF WorkerCoherent, Free, Terminal
  <2>5. CASE k # j
    BY <1>0, <2>1, <2>2, <2>5, NoneIsNoJob DEF WorkerCoherent, Free
  <2>6. QED
    BY <2>4, <2>5
<1>11. CASE UNCHANGED <<jobs, record, section, worker>>
  BY <1>0, <1>11 DEF WorkerCoherent
<1>12. QED
  BY <1>2, <1>3, <1>4, <1>5, <1>7, <1>8, <1>9, <1>10, <1>11
  DEF Next, vars, ClockShows, CheckCalls, ToDict, Reads

(* A step that moves no phase, no outcome and ends no thread is a stutter  *)
(* of the life cycle.                                                      *)
LEMMA LifecycleStutter ==
    ASSUME \A k \in Jobs : /\ PhaseOf(k)' = PhaseOf(k)
                           /\ HasResult(k)' <=> HasResult(k)
                           /\ worker'[k] = "ended" <=> worker[k] = "ended"
    PROVE  UNCHANGED Lifecycle!vars
<1>1. UNCHANGED [k \in Jobs |-> PhaseOf(k)]
  OBVIOUS
<1>2. UNCHANGED [k \in Jobs |-> IF worker[k] = "ended" THEN 1 ELSE 0]
  OBVIOUS
<1>3. UNCHANGED [k \in Jobs |-> IF HasResult(k) THEN "text" ELSE "none"]
  OBVIOUS
<1>4. QED
  BY <1>1, <1>2, <1>3 DEF Lifecycle!vars

(* What is reaped while the lock is free is final to the life cycle. *)
LEMMA LifecycleReap ==
    ASSUME IInv, Attended, section = Free, NEW now
    PROVE  /\ jobs \ Reaped(now) \in SUBSET Lifecycle!FinalJobs
           /\ \A k \in jobs : worker[k] # "none"
<1> USE DEF IInv, TypeOK
<1>1. \A k \in Jobs : section.job # k
  BY NoneIsNoJob DEF Free
<1>2. \A k \in jobs : worker[k] # "none"
  BY DEF Attended, WorkerCoherent
<1>3. ASSUME NEW k \in jobs \ Reaped(now)
      PROVE  k \in Jobs /\ PhaseOf(k) \in Lifecycle!Final
  <2>1. k \in Jobs /\ k \in jobs /\ record[k].finished_at # NoTime
    BY <1>3 DEF Reaped
  <2>2. record[k].status \in Terminal
    BY <1>1, <2>1 DEF Settling, Coherent
  <2>3. QED
    BY <1>1, <1>2, <2>1, <2>2 DEF PhaseOf, Terminal, Lifecycle!Final
<1>4. QED
  BY <1>2, <1>3 DEF Lifecycle!FinalJobs

(* A reap is the life cycle's Expire. *)
LEMMA LifecycleExpire ==
    ASSUME IInv, Attended, section = Free, NEW now,
           jobs' = Reaped(now), UNCHANGED <<record, section, worker>>
    PROVE  Lifecycle!Next
<1> DEFINE S == jobs \ Reaped(now)
<1>1. \A k \in Jobs : section.job # k
  BY NoneIsNoJob DEF Free
<1>2. S \in SUBSET Lifecycle!FinalJobs /\ \A k \in S : k \in jobs /\ worker[k] # "none"
  BY LifecycleReap
<1>3. \A k \in Jobs : k \in jobs' <=> k \in jobs /\ k \notin S
  BY DEF Reaped
<1> HIDE DEF S
<1>4. ASSUME NEW k \in Jobs
      PROVE  PhaseOf(k)' = IF k \in S THEN "gone" ELSE PhaseOf(k)
  BY <1>1, <1>2, <1>3 DEF PhaseOf
<1>5. ASSUME NEW k \in Jobs
      PROVE  HasResult(k)' <=> HasResult(k) /\ k \notin S
  BY <1>1, <1>2, <1>3 DEF HasResult
<1>6. Lifecycle!Expire(S)
  BY <1>2, <1>4, <1>5
  DEF Lifecycle!Expire, Lifecycle!WithoutPhase, Lifecycle!WithoutOutcome, Lifecycle!NoAnswer
<1>7. \E T \in SUBSET Lifecycle!FinalJobs : Lifecycle!Expire(T)
  BY <1>2, <1>6
<1>8. QED
  BY <1>7 DEF Lifecycle!Next

(* A create is the life cycle's Issue, with the expiries of its reap. *)
LEMMA LifecycleCreate ==
    ASSUME IInv, Attended, NEW j \in Jobs, NEW now, Create(j, now)
    PROVE  Lifecycle!Next
<1> DEFINE S == jobs \ Reaped(now)
<1>1. section = Free /\ worker[j] = "none" /\ UNCHANGED <<record, section>>
  BY DEF Create
<1>2. \A k \in Jobs : section.job # k
  BY <1>1, NoneIsNoJob DEF Free
<1>3. S \in SUBSET Lifecycle!FinalJobs /\ \A k \in S : k \in jobs /\ worker[k] # "none"
  BY <1>1, LifecycleReap
<1>4. j \notin jobs /\ record[j].status = "pending" /\ ~record[j].result
  BY <1>1 DEF Attended, WorkerCoherent
<1>5. ASSUME NEW k \in Jobs
      PROVE  /\ worker'[k] = IF k = j THEN "spawned" ELSE worker[k]
             /\ k \in jobs' <=> k = j \/ (k \in jobs /\ k \notin S)
  BY DEF Create, Reaped, IInv, TypeOK
<1> HIDE DEF S
<1>6. ASSUME NEW k \in Jobs
      PROVE  PhaseOf(k)' = IF k = j THEN "pending" ELSE IF k \in S THEN "gone" ELSE PhaseOf(k)
  BY <1>1, <1>2, <1>3, <1>4, <1>5 DEF PhaseOf
<1>7. ASSUME NEW k \in Jobs
      PROVE  HasResult(k)' <=> HasResult(k) /\ k \notin S
  BY <1>1, <1>2, <1>3, <1>4, <1>5 DEF HasResult
<1>8. ASSUME NEW k \in Jobs
      PROVE  worker'[k] = "ended" <=> worker[k] = "ended"
  BY <1>1, <1>5
<1>9. PhaseOf(j) = "unissued"
  BY <1>1 DEF PhaseOf
<1>10. Lifecycle!Issue(j, S)
  BY <1>3, <1>6, <1>7, <1>8, <1>9
  DEF Lifecycle!Issue, Lifecycle!WithoutPhase, Lifecycle!WithoutOutcome, Lifecycle!NoAnswer
<1>11. \E T \in SUBSET Lifecycle!FinalJobs : Lifecycle!Issue(j, T)
  BY <1>3, <1>10
<1>12. QED
  BY <1>11 DEF Lifecycle!Next

(* A reset is the life cycle's Reset. *)
LEMMA LifecycleReset ==
    ASSUME IInv, Attended, Reset
    PROVE  Lifecycle!Next
<1>1. jobs' = {} /\ UNCHANGED <<record, section, worker>>
  BY DEF Reset
<1>2. ASSUME NEW k \in Jobs
      PROVE  worker[k] = "none" <=> PhaseOf(k) = "unissued"
  BY DEF IInv, TypeOK, PhaseOf, Record, Status, Terminal
<1>3. ASSUME NEW k \in Jobs
      PROVE  /\ PhaseOf(k)' = IF PhaseOf(k) # "unissued" THEN "gone" ELSE PhaseOf(k)
             /\ ~HasResult(k)'
             /\ PhaseOf(k) = "unissued" => ~HasResult(k)
  BY <1>1, <1>2 DEF PhaseOf, HasResult, Attended, WorkerCoherent
<1>4. Lifecycle!Reset
  BY <1>1, <1>3
  DEF Lifecycle!Reset, Lifecycle!WithoutPhase, Lifecycle!WithoutOutcome, Lifecycle!NoAnswer
<1>5. QED
  BY <1>4 DEF Lifecycle!Next

(* mark_running on a pending job is Start, on any other a stutter. *)
LEMMA LifecycleStart ==
    ASSUME IInv, Attended, NEW j \in Jobs, MarkRunning(j)
    PROVE  [Lifecycle!Next]_(Lifecycle!vars)
<1> USE DEF IInv, TypeOK
<1>1. /\ UNCHANGED <<jobs, section>>
      /\ worker[j] = "spawned" /\ worker' = [worker EXCEPT ![j] = "marked"]
      /\ \A k \in Jobs : section.job # k
  BY NoneIsNoJob DEF MarkRunning, Free
<1>2. ASSUME NEW k \in Jobs
      PROVE  /\ worker'[k] = "ended" <=> worker[k] = "ended"
             /\ worker'[k] = "none" <=> worker[k] = "none"
  BY <1>1
<1>3. CASE j \in jobs /\ record[j].status = "pending"
  <2>1. record' = [record EXCEPT ![j].status = "running"] /\ record[j] \in Record
    BY <1>3 DEF MarkRunning
  <2>2. ASSUME NEW k \in Jobs
        PROVE  /\ record'[k].status = IF k = j THEN "running" ELSE record[k].status
               /\ record'[k].result = record[k].result
    BY <2>1 DEF Record
  <2>3. ASSUME NEW k \in Jobs
        PROVE  /\ PhaseOf(k)' = IF k = j THEN "running" ELSE PhaseOf(k)
               /\ HasResult(k)' <=> HasResult(k)
    BY <1>1, <1>2, <1>3, <2>2 DEF PhaseOf, HasResult
  <2>4. PhaseOf(j) = "pending"
    BY <1>1, <1>3 DEF PhaseOf
  <2>5. Lifecycle!Start(j)
    BY <1>2, <2>3, <2>4 DEF Lifecycle!Start
  <2>6. QED
    BY <2>5 DEF Lifecycle!Next
<1>4. CASE ~(j \in jobs /\ record[j].status = "pending")
  <2>1. UNCHANGED record
    BY <1>4 DEF MarkRunning
  <2>2. \A k \in Jobs : /\ PhaseOf(k)' = PhaseOf(k)
                        /\ HasResult(k)' <=> HasResult(k)
    BY <1>1, <1>2, <2>1 DEF PhaseOf, HasResult
  <2>3. QED
    BY <1>2, <2>2, LifecycleStutter
<1>5. QED
  BY <1>3, <1>4

(* A job whose settling begins is in flight, and stays in its phase until  *)
(* the settling is over.                                                   *)
LEMMA LifecycleEnters ==
    ASSUME IInv, Attended, NEW j \in Jobs, NEW s, Accepts(j), section = Free,
           section' = EnterFinish(j, s), UNCHANGED <<jobs, record>>,
           worker'[j] = "spawned" <=> worker[j] = "spawned",
           \A k \in Jobs : worker'[k] = "none" <=> worker[k] = "none"
    PROVE  \A k \in Jobs : /\ PhaseOf(k)' = PhaseOf(k)
                           /\ HasResult(k)' <=> HasResult(k)
<1> USE DEF IInv, TypeOK
<1>1. /\ \A k \in Jobs : section.job # k
      /\ section'.job = j
  BY NoneIsNoJob DEF EnterFinish, Free
<1>2. j \in jobs /\ record[j].status \notin Terminal /\ worker[j] # "none"
  BY DEF Accepts, Attended, WorkerCoherent
<1>3. ~record[j].result
  BY <1>1, <1>2 DEF Settling, Coherent, Terminal
<1>4. worker[j] = "spawned" => record[j].status = "pending"
  BY <1>1, <1>2 DEF Attended, WorkerCoherent, Terminal
<1>5. worker[j] # "spawned" => record[j].status = "running"
  BY <1>1, <1>2 DEF Attended, WorkerCoherent, Terminal
<1>6. PhaseOf(j)' = PhaseOf(j) /\ ~HasResult(j) /\ ~HasResult(j)'
  BY <1>1, <1>2, <1>3, <1>4, <1>5 DEF PhaseOf, HasResult
<1>7. ASSUME NEW k \in Jobs \ {j}
      PROVE  PhaseOf(k)' = PhaseOf(k) /\ (HasResult(k)' <=> HasResult(k))
  BY <1>1 DEF PhaseOf, HasResult
<1>8. QED
  BY <1>6, <1>7

(* The end of a thread is the life cycle's AskGateway: the job is running, *)
(* or was cancelled or forgotten meanwhile.                                *)
LEMMA LifecycleAsk ==
    ASSUME IInv, Attended, NEW j \in Jobs, WorkerFinishes(j)
    PROVE  Lifecycle!Next
<1> USE DEF IInv, TypeOK
<1>1. /\ section = Free /\ worker[j] = "marked" /\ UNCHANGED <<jobs, record>>
      /\ worker' = [worker EXCEPT ![j] = "ended"]
      /\ \A k \in Jobs : section.job # k
  BY NoneIsNoJob DEF WorkerFinishes, Free
<1>2. \A k \in Jobs : worker'[k] = "none" <=> worker[k] = "none"
  BY <1>1
<1>3. \A k \in Jobs : /\ PhaseOf(k)' = PhaseOf(k)
                      /\ HasResult(k)' <=> HasResult(k)
  <2>1. CASE Accepts(j)
    BY <1>1, <1>2, <2>1, LifecycleEnters DEF WorkerFinishes
  <2>2. CASE ~Accepts(j)
    <3>1. UNCHANGED section
      BY <2>2 DEF WorkerFinishes
    <3>2. QED
      BY <1>1, <1>2, <3>1 DEF PhaseOf, HasResult
  <2>3. QED
    BY <2>1, <2>2
<1>4. PhaseOf(j) \in {"running", "cancelled", "gone"}
  BY <1>1 DEF PhaseOf, Attended, WorkerCoherent
<1>5. Lifecycle!AskGateway(j)
  BY <1>1, <1>3, <1>4 DEF Lifecycle!AskGateway
<1>6. QED
  BY <1>5 DEF Lifecycle!Next

(* The last assignment of a settling is Complete or FailOrCancel. *)
LEMMA LifecycleSettle ==
    ASSUME IInv, Attended, WriteFinishedAt
    PROVE  Lifecycle!Next
<1> USE DEF IInv, TypeOK
<1>1. PICK j \in Jobs : section.job = j /\ section.status \in Terminal
  BY InsideIsTyped DEF WriteFinishedAt
<1>2. /\ section' = Free /\ UNCHANGED <<jobs, worker>>
      /\ record' = [record EXCEPT ![j].finished_at = clock] /\ record[j] \in Record
  BY <1>1 DEF WriteFinishedAt
<1>3. ASSUME NEW k \in Jobs
      PROVE  /\ record'[k].status = record[k].status
             /\ record'[k].result = record[k].result
  BY <1>2 DEF Record
<1>4. /\ record[j].status = section.status
      /\ section.status = "completed" <=> record[j].result
  BY <1>1 DEF WriteFinishedAt, Settling, HalfSettled
<1>5. /\ j \in jobs /\ worker[j] # "none"
      /\ section.status = "completed" => worker[j] = "ended"
  BY <1>1 DEF Attended, WorkerCoherent
<1>6. \A k \in Jobs : section'.job # k
  BY <1>2, NoneIsNoJob DEF Free
<1>7. PhaseOf(j) \in Lifecycle!InFlight /\ PhaseOf(j)' = section.status
  BY <1>1, <1>2, <1>3, <1>4, <1>5, <1>6 DEF PhaseOf, Lifecycle!InFlight
<1>8. ~HasResult(j) /\ (HasResult(j)' <=> section.status = "completed")
  BY <1>1, <1>2, <1>3, <1>4, <1>5, <1>6 DEF HasResult
<1>9. ASSUME NEW k \in Jobs \ {j}
      PROVE  PhaseOf(k)' = PhaseOf(k) /\ (HasResult(k)' <=> HasResult(k))
  BY <1>1, <1>2, <1>3, <1>6 DEF PhaseOf, HasResult
<1>10. CASE section.status = "completed"
  <2>1. [k \in Jobs |-> PhaseOf(k)]' = [[k \in Jobs |-> PhaseOf(k)] EXCEPT ![j] = "completed"]
    BY <1>7, <1>9, <1>10
  <2>2. [k \in Jobs |-> IF HasResult(k) THEN "text" ELSE "none"]' =
          [[k \in Jobs |-> IF HasResult(k) THEN "text" ELSE "none"] EXCEPT ![j] = "text"]
    BY <1>8, <1>9, <1>10
  <2>3. Lifecycle!Complete(j)
    BY <1>2, <1>5, <1>7, <1>10, <2>1, <2>2 DEF Lifecycle!Complete
  <2>4. QED
    BY <2>3 DEF Lifecycle!Next
<1>11. CASE section.status \in {"failed", "cancelled"}
  <2>1. [k \in Jobs |-> PhaseOf(k)]' =
          [[k \in Jobs |-> PhaseOf(k)] EXCEPT ![j] = section.status]
    BY <1>7, <1>9
  <2>2. \A k \in Jobs : HasResult(k)' <=> HasResult(k)
    BY <1>8, <1>9, <1>11
  <2>3. Lifecycle!FailOrCancel(j)
    BY <1>2, <1>7, <1>11, <2>1, <2>2 DEF Lifecycle!FailOrCancel
  <2>4. QED
    BY <2>3 DEF Lifecycle!Next
<1>12. QED
  BY <1>1, <1>10, <1>11 DEF Terminal

(* Every step of the store is a step of the life cycle or a stutter of it. *)
LEMMA LifecycleStep ==
    ASSUME IInv, Attended, [Next]_vars
    PROVE  [Lifecycle!Next]_(Lifecycle!vars)
<1> USE DEF IInv, TypeOK
<1>1. CASE UNCHANGED <<jobs, record, section, worker>>
  <2>1. \A k \in Jobs : PhaseOf(k)' = PhaseOf(k) /\ (HasResult(k)' <=> HasResult(k))
    BY <1>1 DEF PhaseOf, HasResult
  <2>2. QED
    BY <1>1, <2>1, LifecycleStutter
<1>2. CASE Reset
  BY <1>2, LifecycleReset
<1>3. CASE WriteStatus \/ WriteOutcome
  <2>1. /\ section'.job = section.job /\ section.job \in Jobs
        /\ UNCHANGED <<jobs, worker>>
        /\ \A i \in Jobs : i # section.job => record'[i] = record[i]
    BY <1>3, InsideIsTyped DEF WriteStatus, WriteOutcome, Section, Free
  <2>2. ASSUME NEW k \in Jobs
        PROVE  /\ PhaseOf(k)' = PhaseOf(k)
               /\ HasResult(k)' <=> HasResult(k)
               /\ worker'[k] = "ended" <=> worker[k] = "ended"
    <3>1. CASE section.job = k
      BY <2>1, <3>1 DEF PhaseOf, HasResult
    <3>2. CASE section.job # k
      BY <2>1, <3>2 DEF PhaseOf, HasResult
    <3>3. QED
      BY <3>1, <3>2
  <2>3. QED
    BY <2>2, LifecycleStutter
<1>4. CASE WriteFinishedAt
  BY <1>4, LifecycleSettle
<1>5. ASSUME NEW now \in 0..shown, CreateRefused(now)
      PROVE  Lifecycle!Next
  BY <1>5, LifecycleExpire DEF CreateRefused
<1>6. ASSUME NEW r \in Readers, CheckGets(r)
      PROVE  Lifecycle!Next
  BY <1>6, LifecycleExpire DEF CheckGets
<1>7. ASSUME NEW now \in 0..shown, NEW j \in Jobs, Create(j, now)
      PROVE  Lifecycle!Next
  BY <1>7, LifecycleCreate
<1>8. ASSUME NEW j \in Jobs, MarkRunning(j)
      PROVE  [Lifecycle!Next]_(Lifecycle!vars)
  BY <1>8, LifecycleStart
<1>9. ASSUME NEW j \in Jobs, WorkerFinishes(j)
      PROVE  Lifecycle!Next
  BY <1>9, LifecycleAsk
<1>10. ASSUME NEW j \in Jobs, CallerCancels(j)
      PROVE  UNCHANGED Lifecycle!vars
  <2>1. \A k \in Jobs : PhaseOf(k)' = PhaseOf(k) /\ (HasResult(k)' <=> HasResult(k))
    BY <1>10, LifecycleEnters DEF CallerCancels
  <2>2. QED
    BY <1>10, <2>1, LifecycleStutter DEF CallerCancels
<1>11. QED
  BY <1>1, <1>2, <1>3, <1>4, <1>5, <1>6, <1>7, <1>8, <1>9, <1>10
  DEF Next, vars, ClockShows, CheckCalls, ToDict, Reads

(* Every behaviour of the in-memory store is one the life cycle allows:    *)
(* the three assignments of a finishing method are one step to whoever     *)
(* takes the lock, a job is issued once, started before the gateway is     *)
(* asked, settled once, and expires only when it is final.                 *)
THEOREM MemoryImplementsLifecycle == Spec => ImplementsLifecycle
<1>1. Init => Lifecycle!Init
  BY DEF Init, PhaseOf, HasResult, NewRecord, Lifecycle!Init, Lifecycle!NoAnswer
<1>2. Init => Attended
  BY NoneIsNoJob DEF Init, Attended, WorkerCoherent, NewRecord, Free
<1>3. IInv /\ Attended /\ [Next]_vars => Attended'
  BY AttendedStep
<1>4. IInv /\ Attended /\ [Next]_vars => [Lifecycle!Next]_(Lifecycle!vars)
  BY LifecycleStep
<1>5. QED
  BY <1>1, <1>2, <1>3, <1>4, MemoryInvariant, PTL
  DEF Spec, ImplementsLifecycle, Lifecycle!Spec
=============================================================================
