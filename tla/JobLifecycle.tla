---------------------------- MODULE JobLifecycle ----------------------------
(***************************************************************************)
(* What an asynchronous hermes_ask promises, whatever crashes, restarts,   *)
(* cancels and resets happen on the way:                                   *)
(*                                                                         *)
(*   - a job moves forward only: pending, running, one final status, gone; *)
(*   - the gateway is asked about a job at most once, and not at all once  *)
(*     the job has been reported failed;                                   *)
(*   - a job is completed only with an answer the gateway gave for it;     *)
(*   - only a job with a final status expires; nothing but a reset may     *)
(*     forget a job that is still in flight.                               *)
(*                                                                         *)
(* JobBridge and JobMemory implement this specification.                   *)
(***************************************************************************)
EXTENDS Naturals

CONSTANTS Jobs, Answers

VARIABLES
    phase,      \* where each job stands
    asks,       \* how often the gateway was asked about the job
    outcome     \* the answer a completed job carries

vars == <<phase, asks, outcome>>

NoAnswer == "none"

InFlight == {"pending", "running"}
Final == {"completed", "failed", "cancelled"}
Phase == {"unissued", "gone"} \union InFlight \union Final

TypeOK ==
    /\ phase \in [Jobs -> Phase]
    /\ asks \in [Jobs -> 0..1]
    /\ outcome \in [Jobs -> Answers \union {NoAnswer}]

Init ==
    /\ phase = [j \in Jobs |-> "unissued"]
    /\ asks = [j \in Jobs |-> 0]
    /\ outcome = [j \in Jobs |-> NoAnswer]

FinalJobs == {j \in Jobs : phase[j] \in Final}

\* The phases and outcomes left when the jobs in S are forgotten.
WithoutPhase(S) == [j \in Jobs |-> IF j \in S THEN "gone" ELSE phase[j]]
WithoutOutcome(S) == [j \in Jobs |-> IF j \in S THEN NoAnswer ELSE outcome[j]]

\* Final jobs whose retention has passed are forgotten.
Expire(S) ==
    /\ S \subseteq FinalJobs
    /\ phase' = WithoutPhase(S)
    /\ outcome' = WithoutOutcome(S)
    /\ UNCHANGED asks

\* A job is accepted; jobs in S expire on the same occasion.
Issue(j, S) ==
    /\ phase[j] = "unissued"
    /\ S \subseteq FinalJobs
    /\ phase' = [WithoutPhase(S) EXCEPT ![j] = "pending"]
    /\ outcome' = WithoutOutcome(S)
    /\ UNCHANGED asks

Start(j) ==
    /\ phase[j] = "pending"
    /\ phase' = [phase EXCEPT ![j] = "running"]
    /\ UNCHANGED <<asks, outcome>>

\* A job cancelled or forgotten meanwhile still reaches the gateway, a job
\* that was given up (failed) no longer does.
AskGateway(j) ==
    /\ phase[j] \in {"running", "cancelled", "gone"}
    /\ asks[j] = 0
    /\ asks' = [asks EXCEPT ![j] = 1]
    /\ UNCHANGED <<phase, outcome>>

Complete(j) ==
    /\ phase[j] \in InFlight
    /\ asks[j] = 1
    /\ phase' = [phase EXCEPT ![j] = "completed"]
    /\ \E a \in Answers : outcome' = [outcome EXCEPT ![j] = a]
    /\ UNCHANGED asks

FailOrCancel(j) ==
    /\ phase[j] \in InFlight
    /\ \E f \in {"failed", "cancelled"} : phase' = [phase EXCEPT ![j] = f]
    /\ UNCHANGED <<asks, outcome>>

\* A new owner of the store gives up on everything its predecessor left.
Interrupt ==
    /\ phase' = [j \in Jobs |-> IF phase[j] \in InFlight THEN "failed" ELSE phase[j]]
    /\ UNCHANGED <<asks, outcome>>

Reset ==
    LET issued == {j \in Jobs : phase[j] # "unissued"}
    IN /\ phase' = WithoutPhase(issued)
       /\ outcome' = WithoutOutcome(issued)
       /\ UNCHANGED asks

Next ==
    \/ Interrupt
    \/ Reset
    \/ \E S \in SUBSET FinalJobs : Expire(S)
    \/ \E j \in Jobs :
        \/ \E S \in SUBSET FinalJobs : Issue(j, S)
        \/ Start(j)
        \/ AskGateway(j)
        \/ Complete(j)
        \/ FailOrCancel(j)

Spec == Init /\ [][Next]_vars
=============================================================================
