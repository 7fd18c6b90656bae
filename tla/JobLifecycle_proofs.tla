------------------------ MODULE JobLifecycle_proofs ------------------------
(***************************************************************************)
(* What the life cycle of a job is worth to a caller, for any set of jobs  *)
(* and answers.  JobBridge and JobMemory implement JobLifecycle, so each   *)
(* of these holds of the durable store and of the one in memory, read      *)
(* through their refinement mappings.                                      *)
(***************************************************************************)
EXTENDS JobLifecycle, TLAPS

\* An answer is shown for a completed job, always, and for no other; it was
\* given by the one request that was made for the job.
AnswersAreGiven ==
    \A j \in Jobs :
        /\ phase[j] = "completed" => outcome[j] \in Answers /\ asks[j] = 1
        /\ phase[j] # "completed" => outcome[j] = NoAnswer

IInv == TypeOK /\ AnswersAreGiven

\* How far a phase is: nothing moves back.
Rank(p) ==
    CASE p = "unissued" -> 0 [] p = "pending" -> 1 [] p = "running" -> 2
      [] p \in Final -> 3 [] p = "gone" -> 4

\* A phase is kept or left for a later one, so a final one is left only for
\* "gone"; a job in flight is forgotten by a reset alone; and the gateway is
\* asked neither before the job has started nor when it is settled with an
\* outcome.
MovesForward ==
    \A j \in Jobs :
        /\ phase'[j] = phase[j] \/ Rank(phase[j]) < Rank(phase'[j])
        /\ phase[j] \in InFlight /\ phase'[j] = "gone" => Reset
        /\ asks'[j] # asks[j] => phase[j] \notin {"unissued", "pending", "completed", "failed"}

-----------------------------------------------------------------------------

(* What is left when the final jobs in S are forgotten. *)
LEMMA WithoutKeeps ==
    ASSUME IInv, NEW S \in SUBSET Jobs
    PROVE  \A j \in Jobs :
             /\ WithoutPhase(S)[j] \in Phase
             /\ WithoutOutcome(S)[j] \in Answers \union {NoAnswer}
             /\ WithoutPhase(S)[j] = "completed" =>
                   WithoutOutcome(S)[j] \in Answers /\ asks[j] = 1
             /\ WithoutPhase(S)[j] # "completed" => WithoutOutcome(S)[j] = NoAnswer
BY DEF IInv, TypeOK, AnswersAreGiven, WithoutPhase, WithoutOutcome, Phase

(* The inductive invariant is kept. *)
LEMMA InvariantStep ==
    ASSUME IInv, [Next]_vars
    PROVE  IInv'
<1> USE DEF IInv, TypeOK, AnswersAreGiven
<1>1. CASE UNCHANGED vars
  BY <1>1 DEF vars
<1>2. CASE Interrupt
  BY <1>2 DEF Interrupt, InFlight, Phase, Final
<1>3. CASE Reset
  <2> DEFINE issued == {j \in Jobs : phase[j] # "unissued"}
  <2>1. issued \in SUBSET Jobs
    OBVIOUS
  <2>2. phase' = WithoutPhase(issued) /\ outcome' = WithoutOutcome(issued) /\ UNCHANGED asks
    BY <1>3 DEF Reset
  <2> HIDE DEF issued
  <2>3. QED
    BY <2>1, <2>2, WithoutKeeps DEF WithoutPhase, WithoutOutcome
<1>4. ASSUME NEW S \in SUBSET FinalJobs, Expire(S)
      PROVE  IInv'
  <2>1. S \in SUBSET Jobs
    BY DEF FinalJobs
  <2>2. QED
    BY <1>4, <2>1, WithoutKeeps DEF Expire, WithoutPhase, WithoutOutcome
<1>5. ASSUME NEW j \in Jobs, NEW S \in SUBSET FinalJobs, Issue(j, S)
      PROVE  IInv'
  <2>1. S \in SUBSET Jobs /\ outcome[j] = NoAnswer /\ WithoutOutcome(S)[j] = NoAnswer
    BY <1>5 DEF FinalJobs, Issue, WithoutOutcome
  <2>2. \A k \in Jobs : phase'[k] = IF k = j THEN "pending" ELSE WithoutPhase(S)[k]
    BY <1>5 DEF Issue, WithoutPhase
  <2>3. phase' \in [Jobs -> Phase]
    BY <1>5, <2>1, <2>2, WithoutKeeps DEF Issue, WithoutPhase, Phase, InFlight
  <2>4. outcome' = WithoutOutcome(S) /\ UNCHANGED asks
    BY <1>5 DEF Issue
  <2>5. QED
    BY <2>1, <2>2, <2>3, <2>4, WithoutKeeps DEF WithoutOutcome
<1>6. ASSUME NEW j \in Jobs, Start(j) \/ AskGateway(j) \/ FailOrCancel(j)
      PROVE  IInv'
  BY <1>6 DEF Start, AskGateway, FailOrCancel, Phase, InFlight, Final
<1>7. ASSUME NEW j \in Jobs, Complete(j)
      PROVE  IInv'
  BY <1>7 DEF Complete, Phase, InFlight, Final
<1>8. QED
  BY <1>1, <1>2, <1>3, <1>4, <1>5, <1>6, <1>7 DEF Next

(* The types of the life cycle, and that an answer is shown for a          *)
(* completed job, always, and for no other, and was given by the one       *)
(* request made for that job.                                              *)
THEOREM AnswersAreTheGateways == Spec => []IInv
<1>1. Init => IInv
  BY DEF Init, IInv, TypeOK, AnswersAreGiven, Phase
<1>2. IInv /\ [Next]_vars => IInv'
  BY InvariantStep
<1>3. QED
  BY <1>1, <1>2, PTL DEF Spec

(* Nothing moves back: no settled or forgotten job is revived or changes   *)
(* its outcome, only a reset forgets a job in flight, and a job reported   *)
(* completed or failed is not sent to the gateway again.                   *)
THEOREM JobsMoveForward == Spec => [][MovesForward]_vars
<1>1. ASSUME IInv, Next
      PROVE  MovesForward
  <2> USE <1>1 DEF IInv, TypeOK
  <2>1. CASE Interrupt
    BY <2>1 DEF Interrupt, MovesForward, Rank, InFlight, Final, Phase
  <2>2. CASE Reset
    BY <2>2 DEF Reset, MovesForward, Rank, InFlight, Final, Phase, WithoutPhase
  <2>3. ASSUME NEW S \in SUBSET FinalJobs, Expire(S)
        PROVE  MovesForward
    <3>1. \A k \in Jobs : phase'[k] = IF k \in S THEN "gone" ELSE phase[k]
      BY <2>3 DEF Expire, WithoutPhase
    <3>2. \A k \in S : phase[k] \in Final
      BY DEF FinalJobs
    <3>3. QED
      BY <2>3, <3>1, <3>2 DEF Expire, MovesForward, Rank, InFlight, Final, Phase
  <2>4. ASSUME NEW j \in Jobs, NEW S \in SUBSET FinalJobs, Issue(j, S)
        PROVE  MovesForward
    <3>1. \A k \in Jobs : phase'[k] = IF k = j THEN "pending"
                                      ELSE IF k \in S THEN "gone" ELSE phase[k]
      BY <2>4 DEF Issue, WithoutPhase
    <3>2. \A k \in S : phase[k] \in Final
      BY DEF FinalJobs
    <3>3. QED
      BY <2>4, <3>1, <3>2 DEF Issue, MovesForward, Rank, InFlight, Final, Phase
  <2>5. ASSUME NEW j \in Jobs,
               Start(j) \/ AskGateway(j) \/ Complete(j) \/ FailOrCancel(j)
        PROVE  MovesForward
    BY <2>5 DEF Start, AskGateway, Complete, FailOrCancel, MovesForward, Rank, InFlight,
       Final, Phase
  <2>6. QED
    BY <2>1, <2>2, <2>3, <2>4, <2>5 DEF Next
<1>2. IInv /\ [Next]_vars => [MovesForward]_vars
  BY <1>1
<1>3. QED
  BY <1>2, AnswersAreTheGateways, PTL DEF Spec
=============================================================================
