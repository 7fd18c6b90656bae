------------------------- MODULE GatewayCall_proofs --------------------------
(***************************************************************************)
(* What holds of a gateway call for every timeout and every response: the  *)
(* prompt is posted once, only a whole answer is returned, and the time    *)
(* the call takes is bounded by the operations it needs.                   *)
(***************************************************************************)
EXTENDS GatewayCall, TLAPS

(* The allowance of one more operation is one more timeout. *)
LEMMA OneMoreTimeout ==
    ASSUME NEW n \in Nat \ {0}
    PROVE  /\ Timeout * (n - 1) + Timeout = Timeout * n
           /\ Timeout * ((n + 1) - 1) = Timeout * n
           /\ Timeout * n \in Nat
           /\ Timeout * (n - 1) \in Nat
BY TimeoutPositive

(* A complete response is classified as one of the outcomes, and as a text *)
(* only if it is a string with status 200. *)
LEMMA ClassifiedOutcome ==
    ASSUME NEW r \in Responses
    PROVE  /\ Classified(r) \in Outcomes \ {"none"}
           /\ Classified(r) = "text" => r = [status |-> "ok", body |-> "text"]
BY DEF Responses, Classified, Outcomes, HermesErrors

(* The invariant survives the end of an operation that is not the last. *)
LEMMA OperationStep ==
    ASSUME TypeOK, StageCoherent, NextOperation, UNCHANGED clock
    PROVE  /\ heard' \in 0..clock' /\ ops' \in Nat \ {0}
           /\ (clock - heard)' <= Timeout
           /\ heard' <= Timeout * (ops' - 1)
<1>1. heard' = clock /\ ops' = ops + 1 /\ clock' = clock
  BY DEF NextOperation
<1>2. clock \in Nat /\ heard \in Nat /\ ops \in Nat \ {0}
  BY DEF TypeOK
<1>3. clock <= Timeout * ops
  <2>1. clock <= heard + Timeout /\ heard <= Timeout * (ops - 1)
    BY <1>2, TimeoutPositive DEF StageCoherent
  <2>2. QED
    BY <1>2, <2>1, OneMoreTimeout, TimeoutPositive
<1>4. Timeout * (ops' - 1) = Timeout * ops
  BY <1>1, <1>2, OneMoreTimeout
<1>5. QED
  BY <1>1, <1>2, <1>3, <1>4, TimeoutPositive

(* The initial states satisfy the invariant. *)
LEMMA InitHolds == Init => IInv
<1> SUFFICES ASSUME Init
             PROVE  IInv
  OBVIOUS
<1>1. TypeOK
  BY ReadsPositive DEF Init, TypeOK, Network, Outcomes
<1>2. Timeout * (1 - 1) = 0
  BY TimeoutPositive
<1>3. StageCoherent
  BY <1>2, TimeoutPositive DEF Init, StageCoherent
<1>4. QED
  BY <1>1, <1>3 DEF Init, IInv, TextIsWholeAnswer

(* Every step preserves the invariant. *)
LEMMA StepHolds == IInv /\ [Next]_vars => IInv'
<1> SUFFICES ASSUME TypeOK, StageCoherent, TextIsWholeAnswer, [Next]_vars
             PROVE  TypeOK' /\ StageCoherent' /\ TextIsWholeAnswer'
  BY DEF IInv
<1>1. CASE UNCHANGED vars
  BY <1>1 DEF vars, TypeOK, StageCoherent, TextIsWholeAnswer
<1>2. CASE Connects
  <2>1. NextOperation /\ UNCHANGED clock
    BY <1>2 DEF Connects
  <2>2. QED
    BY <1>2, <2>1, OperationStep
    DEF Connects, TypeOK, StageCoherent, TextIsWholeAnswer, Network
<1>3. CASE Sends
  <2>1. NextOperation /\ UNCHANGED clock
    BY <1>3 DEF Sends
  <2>2. QED
    BY <1>3, <2>1, OperationStep
    DEF Sends, TypeOK, StageCoherent, TextIsWholeAnswer, Network
<1>4. CASE GatewayAnswers
  BY <1>4, ReadsPositive DEF GatewayAnswers, TypeOK, StageCoherent, TextIsWholeAnswer
<1>5. CASE ReadArrives
  <2>1. left \in 1..MaxReads /\ left' = left - 1 /\ left' \in 0..MaxReads
    BY <1>5, ReadsPositive DEF ReadArrives, TypeOK
  <2>2. outcome # "text" /\ gateway = "answered"
    BY <2>1 DEF StageCoherent, TextIsWholeAnswer
  <2>3. UNCHANGED <<mode, clock, sent, gateway, response, outcome>>
    BY <1>5 DEF ReadArrives
  <2>4. CASE left = 1
    <3>1. stage' = "received" /\ left' = 0 /\ UNCHANGED <<heard, ops>>
      BY <1>5, <2>1, <2>4 DEF ReadArrives
    <3>2. TypeOK'
      BY <2>1, <2>3, <3>1 DEF TypeOK
    <3>3. StageCoherent' /\ TextIsWholeAnswer'
      BY <2>2, <2>3, <3>1 DEF StageCoherent, TextIsWholeAnswer
    <3>4. QED
      BY <3>2, <3>3
  <2>5. CASE left # 1
    <3>1. NextOperation /\ UNCHANGED <<clock, stage>> /\ stage = "receiving"
      BY <1>5, <2>5 DEF ReadArrives
    <3>2. /\ heard' \in 0..clock' /\ ops' \in Nat \ {0}
          /\ (clock - heard)' <= Timeout
          /\ heard' <= Timeout * (ops' - 1)
      BY <3>1, OperationStep
    <3>3. TypeOK'
      BY <2>1, <2>3, <3>1, <3>2 DEF TypeOK
    <3>4. StageCoherent' /\ TextIsWholeAnswer'
      BY <2>2, <2>3, <3>1, <3>2 DEF StageCoherent, TextIsWholeAnswer
    <3>5. QED
      BY <3>3, <3>4
  <2>6. QED
    BY <2>4, <2>5
<1>6. CASE TimesOut \/ TransportFails \/ RequestRaises \/ Cancelled
  BY <1>6 DEF TimesOut, TransportFails, RequestRaises, Cancelled, Returns,
              TypeOK, StageCoherent, TextIsWholeAnswer, Network, Outcomes, HermesErrors
<1>7. CASE Classifies
  <2>1. response \in Responses
    BY <1>7 DEF Classifies, StageCoherent
  <2>2. QED
    BY <1>7, <2>1, ClassifiedOutcome
    DEF Classifies, Returns, TypeOK, StageCoherent, TextIsWholeAnswer
<1>8. CASE Tick
  BY <1>8, TimeoutPositive DEF Tick, TypeOK, StageCoherent, TextIsWholeAnswer
<1>9. QED
  BY <1>1, <1>2, <1>3, <1>4, <1>5, <1>6, <1>7, <1>8 DEF Next

(* The inductive invariant holds in every state. *)
THEOREM CallInvariant == Spec => []IInv
<1>1. Init => IInv
  BY InitHolds
<1>2. IInv /\ [Next]_vars => IInv'
  BY StepHolds
<1>3. QED
  BY <1>1, <1>2, PTL DEF Spec

(* The variables of a call keep their types. *)
THEOREM CallTypes == Spec => []TypeOK
<1>1. IInv => TypeOK
  BY DEF IInv
<1>2. QED
  BY <1>1, CallInvariant, PTL

(* No part of a response and no failed response is returned as an answer. *)
THEOREM TextIsWhole == Spec => []TextIsWholeAnswer
<1>1. IInv => TextIsWholeAnswer
  BY DEF IInv
<1>2. QED
  BY <1>1, CallInvariant, PTL

(* The prompt is posted to the gateway at most once. *)
THEOREM PostedOnce == Spec => []SentAtMostOnce
<1>1. IInv => SentAtMostOnce
  BY DEF IInv, StageCoherent, SentAtMostOnce
<1>2. QED
  BY <1>1, CallInvariant, PTL

(* A call lasts at most the timeout times the operations it has begun. *)
THEOREM TimeIsBounded == Spec => []TimePerOperation
<1>1. IInv => TimePerOperation
  <2> SUFFICES ASSUME TypeOK, StageCoherent
               PROVE  clock <= Timeout * ops
    BY DEF IInv, TimePerOperation
  <2>1. clock \in Nat /\ heard \in Nat /\ ops \in Nat \ {0}
    BY DEF TypeOK
  <2>2. clock <= heard + Timeout /\ heard <= Timeout * (ops - 1)
    BY <2>1, TimeoutPositive DEF StageCoherent
  <2>3. QED
    BY <2>1, <2>2, OneMoreTimeout, TimeoutPositive
<1>2. QED
  BY <1>1, CallInvariant, PTL
=============================================================================
