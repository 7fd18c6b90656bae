--------------------------- MODULE Startup_proofs ---------------------------
(***************************************************************************)
(* Proofs about Startup for every set of processes run by hand, every set  *)
(* of settings that are edited, and any number of troubles.                *)
(***************************************************************************)
EXTENDS Startup, TLAPS

(* A Config that from_env returns holds good settings, settings their user *)
(* may still refuse, and no bearer token when none is given.               *)
LEMMA FromEnvSound ==
    ASSUME NEW e \in [Keys -> Texts], \A k \in Keys : e[k] \in Written(k), Wrong(e) = {}
    PROVE  FromEnv(e) \in [Keys -> Texts \union {"none"}] /\ ConfigOK(FromEnv(e))
<1>1. \A k \in Keys \ {"BIND_HOST", "HERMES_MCP_JOB_STORE_PATH"} : e[k] \notin Refused(k)
  <2>1. \A i \in 1..10 : e[Checks[i]] \notin Refused(Checks[i])
    BY DEF Wrong, Checks
  <2>2. \A k \in Keys \ {"BIND_HOST", "HERMES_MCP_JOB_STORE_PATH"} : \E i \in 1..10 : Checks[i] = k
    <3>1. /\ Checks[1] = "OAUTH_CLIENT_ID" /\ Checks[2] = "OAUTH_CLIENT_SECRET"
          /\ Checks[3] = "OAUTH_ISSUER_URL" /\ Checks[4] = "HERMES_API_URL"
          /\ Checks[5] = "HERMES_API_KEY" /\ Checks[6] = "BIND_PORT"
          /\ Checks[7] = Timeout
          /\ Checks[8] = "MCP_BEARER_TOKEN" /\ Checks[9] = "LOG_LEVEL"
          /\ Checks[10] = "HERMES_MCP_EXECUTOR_WORKERS"
      BY DEF Checks
    <3>2. QED
      BY <3>1 DEF Keys, Required, Numbers, Timeout, Optional
  <2>3. QED
    BY <2>1, <2>2
<1>2. ASSUME NEW k \in Keys, e[k] \notin {"unset", "empty", "blank"}
      PROVE  e[k] = "good" \/ (e[k] = "unusable" /\ k \in MayBeUnusable)
  BY <1>1, <1>2 DEF Written, Refused, Keys, Required, Numbers, Timeout, Optional, MayBeUnusable
<1>3. QED
  BY <1>2 DEF FromEnv, ConfigOK, Texts

(* An end of a process frees what it held and leaves the others alone. *)
LEMMA EndsKeeps ==
    ASSUME TypeOK, \A q \in Processes : StageCoherent(q), NEW p \in Processes, NEW code,
           Ends(p, code), \A q \in Processes \ {p} : cmd'[q] = cmd[q]
    PROVE  \A q \in Processes : StageCoherent(q)'
BY UnitIsNotByHand DEF Ends, StageCoherent, TypeOK, Processes, Unit, Nobody

(* A step from one stage to the next. *)
LEMMA ProceedsKeeps ==
    ASSUME TypeOK, \A q \in Processes : StageCoherent(q), NEW p \in Processes,
           NEW stage, Proceeds(p, stage), UNCHANGED cmd,
           \/ /\ pc[p] = "health" /\ stage = "models"
              /\ cfg[p]["HERMES_API_URL"] # "unusable"
           \/ /\ pc[p] = "models" /\ stage = "build" /\ cmd[p] = "serve"
              /\ cfg[p]["HERMES_API_KEY"] # "unusable"
           \/ /\ pc[p] = "bind" /\ stage = "serving"
              /\ "unusable" \notin {cfg[p]["OAUTH_ISSUER_URL"], cfg[p]["BIND_HOST"]}
    PROVE  \A q \in Processes : StageCoherent(q)'
BY DEF Proceeds, StageCoherent, TypeOK

(* The types are kept. *)
LEMMA TypeStep ==
    ASSUME TypeOK, [Next]_vars
    PROVE  TypeOK'
<1> USE DEF TypeOK
<1>1. ASSUME NEW p \in Processes, NEW code \in ExitCodes \union {Killed}, Ends(p, code)
      PROVE  /\ pc' \in [Processes -> Stages]
             /\ exit' \in [Processes -> ExitCodes \union {Killed, NotYet}]
             /\ cfg' \in [Processes -> [Keys -> Texts \union {"none"}]]
             /\ lock' \in Processes \union {Nobody}
  BY <1>1 DEF Ends, Stages, NoConfig
<1>2. ASSUME NEW p \in Processes, NEW stage \in Stages, Proceeds(p, stage)
      PROVE  /\ pc' \in [Processes -> Stages]
             /\ UNCHANGED <<exit, cfg, lock, complaint>>
  BY <1>2 DEF Proceeds
<1>3. \A p \in Processes : Crashes(p) => Ends(p, 1) /\ complaint' \in Keys \union {Nothing}
  BY DEF Crashes
<1>4. ASSUME NEW p \in Processes, NEW c \in Commands, Starts(p, c)
      PROVE  TypeOK'
  <2>1. cmd' \in [Processes -> Commands]
    BY <1>4 DEF Starts
  <2>2. CASE c = "mint" /\ Ends(p, 0) /\ UNCHANGED complaint
    BY <1>1, <1>4, <2>1, <2>2 DEF Starts, world, ExitCodes
  <2>3. CASE complaint' \in FirstWrong(env) /\ Ends(p, 2)
    <3>1. FirstWrong(env) \subseteq Keys
      BY DEF FirstWrong, Wrong, Checks, Keys, Required, Numbers, Timeout, Optional
    <3>2. QED
      BY <1>1, <1>4, <2>1, <2>3, <3>1 DEF Starts, world, ExitCodes
  <2>4. CASE /\ Wrong(env) = {}
             /\ pc' = [pc EXCEPT ![p] = "health"]
             /\ cfg' = [cfg EXCEPT ![p] = FromEnv(env)]
             /\ UNCHANGED <<exit, lock, complaint>>
    <3>1. FromEnv(env) \in [Keys -> Texts \union {"none"}]
      BY <2>4, FromEnvSound
    <3>2. UNCHANGED <<env, world, troubles>>
      BY <1>4 DEF Starts
    <3>3. QED
      BY <2>1, <2>4, <3>1, <3>2 DEF world, Stages
  <2>5. QED
    BY <1>4, <2>2, <2>3, <2>4 DEF Starts
<1>5. ASSUME NEW p \in Processes, MainStep(p)
      PROVE  TypeOK'
  <2> USE DEF Keys, Required, Numbers, Timeout, Optional, ExitCodes, Stages, DoctorError, world
  <2>1. CASE ChecksHealth(p)
    BY <1>1, <1>2, <1>3, <2>1 DEF ChecksHealth, Crashes
  <2>2. CASE ChecksModels(p)
    BY <1>1, <1>2, <1>3, <2>2 DEF ChecksModels, ChecksPassed, Crashes
  <2>3. CASE OpensStore(p)
    BY <1>1, <1>3, <2>3 DEF OpensStore, Crashes
  <2>4. CASE Binds(p)
    BY <1>1, <1>2, <1>3, <2>4 DEF Binds, Crashes
  <2>5. QED
    BY <1>5, <2>1, <2>2, <2>3, <2>4 DEF MainStep
<1>6. ASSUME NEW p \in Processes, Interrupted(p)
      PROVE  TypeOK'
  BY <1>1, <1>6 DEF Interrupted, ExitCodes
<1>7. CASE Trouble
  <2>1. CASE \E k \in Edited : \E t \in Written(k) : env' = [env EXCEPT ![k] = t]
    <3>1. \A k \in Keys : Written(k) \subseteq Texts
      BY DEF Written, Texts, Keys, Required, Numbers, Timeout, Optional
    <3>2. env' \in [Keys -> Texts] /\ \A k \in Keys : env'[k] \in Written(k)
      BY <2>1, <3>1, EditedAreKeys
    <3>3. QED
      BY <1>1, <1>7, <3>2 DEF Trouble, world
  <2>2. CASE UNCHANGED env
    BY <1>1, <1>7, <2>2 DEF Trouble, world
  <2>3. QED
    BY <1>7, <2>1, <2>2 DEF Trouble
<1>8. CASE OperatorFixes
  BY <1>8 DEF OperatorFixes, Texts, Written, world
<1>9. CASE OperatorWantsUnit \/ Recovers \/ UNCHANGED vars
  BY <1>9 DEF OperatorWantsUnit, Recovers, vars, world, Gateways, Processes
<1>10. QED
  BY <1>4, <1>5, <1>6, <1>7, <1>8, <1>9
  DEF Next, SupervisorStarts, OperatorRuns, Commands, Processes

(* The stage of every process keeps agreeing with its settings, its        *)
(* command and the lock.                                                   *)
LEMMA StageStep ==
    ASSUME TypeOK, \A q \in Processes : StageCoherent(q), [Next]_vars
    PROVE  \A q \in Processes : StageCoherent(q)'
<1>1. ASSUME NEW p \in Processes, NEW c \in Commands, Starts(p, c)
      PROVE  \A q \in Processes : StageCoherent(q)'
  <2>1. \A q \in Processes \ {p} : cmd'[q] = cmd[q]
    BY <1>1 DEF Starts, TypeOK
  <2>2. CASE Ends(p, 0) \/ Ends(p, 2)
    BY <2>1, <2>2, EndsKeeps
  <2>3. CASE /\ Wrong(env) = {}
             /\ pc' = [pc EXCEPT ![p] = "health"]
             /\ cfg' = [cfg EXCEPT ![p] = FromEnv(env)]
             /\ UNCHANGED <<exit, lock, complaint>>
    <3>1. ConfigOK(FromEnv(env))
      BY <2>3, FromEnvSound DEF TypeOK
    <3>2. lock # p
      BY <1>1 DEF Starts, StageCoherent
    <3>3. QED
      BY <2>1, <2>3, <3>1, <3>2 DEF StageCoherent, TypeOK
  <2>4. QED
    BY <1>1, <2>2, <2>3 DEF Starts
<1>2. ASSUME NEW p \in Processes, MainStep(p)
      PROVE  \A q \in Processes : StageCoherent(q)'
  <2>1. UNCHANGED cmd
    BY <1>2 DEF MainStep, ChecksHealth, ChecksModels, OpensStore, Binds
  <2>2. ASSUME NEW code, Ends(p, code)
        PROVE  \A q \in Processes : StageCoherent(q)'
    BY <2>1, <2>2, EndsKeeps
  <2>3. CASE ChecksHealth(p)
    BY <2>1, <2>2, <2>3, ProceedsKeeps DEF ChecksHealth, Crashes, DoctorError
  <2>4. CASE ChecksModels(p)
    BY <2>1, <2>2, <2>4, ProceedsKeeps DEF ChecksModels, ChecksPassed, Crashes, DoctorError
  <2>5. CASE OpensStore(p)
    <3>1. CASE Crashes(p)
      BY <2>2, <3>1 DEF Crashes
    <3>2. CASE /\ cfg[p]["HERMES_MCP_JOB_STORE_PATH"] # "unusable"
               /\ lock = Nobody
               /\ lock' = p
               /\ pc' = [pc EXCEPT ![p] = "bind"]
               /\ UNCHANGED <<exit, cfg, complaint>>
      <4>1. \A q \in Processes : pc[q] \notin {"bind", "serving"}
        BY <3>2, UnitIsNotByHand DEF StageCoherent, Processes, Unit, Nobody
      <4>2. QED
        BY <2>1, <2>5, <3>2, <4>1 DEF OpensStore, StageCoherent, TypeOK
    <3>3. QED
      BY <2>5, <3>1, <3>2 DEF OpensStore
  <2>6. CASE Binds(p)
    BY <2>1, <2>2, <2>6, ProceedsKeeps DEF Binds, Crashes
  <2>7. QED
    BY <1>2, <2>3, <2>4, <2>5, <2>6 DEF MainStep
<1>3. ASSUME NEW p \in Processes, Interrupted(p)
      PROVE  \A q \in Processes : StageCoherent(q)'
  BY <1>3, EndsKeeps DEF Interrupted
<1>4. CASE UNCHANGED <<pc, cmd, cfg, lock>>
  BY <1>4 DEF StageCoherent
<1>5. CASE Trouble
  BY <1>4, <1>5, EndsKeeps DEF Trouble
<1>6. QED
  BY <1>1, <1>2, <1>3, <1>4, <1>5
  DEF Next, SupervisorStarts, OperatorRuns, OperatorWantsUnit, OperatorFixes, Recovers, vars,
      Commands, Processes

(* The inductive invariant holds in every state. *)
THEOREM StartupInvariant == Spec => []IInv
<1>1. Init => IInv
  <2> SUFFICES ASSUME Init PROVE IInv
    OBVIOUS
  <2>1. TypeOK
    BY DEF Init, TypeOK, Texts, Written, Gateways, Stages, Commands, NoConfig, Nobody
  <2>2. \A p \in Processes : pc[p] = "off" /\ lock # p
    BY UnitIsNotByHand DEF Init, Processes, Unit, Nobody
  <2>3. QED
    BY <2>1, <2>2 DEF IInv, StageCoherent
<1>2. IInv /\ [Next]_vars => IInv'
  BY TypeStep, StageStep DEF IInv
<1>3. QED
  BY <1>1, <1>2, PTL DEF Spec

(* The state has its types, for any number of processes run by hand, edits *)
(* and troubles.                                                           *)
THEOREM StartupTyped == Spec => []TypeOK
BY StartupInvariant, PTL DEF IInv

(* The job store is held by the process that serves or is about to, and by *)
(* no other, for any number of processes run by hand.                      *)
THEOREM StoreIsHeldByServer == Spec => []StoreHeldByServer
<1>1. IInv => StoreHeldByServer
  BY DEF IInv, StageCoherent, StoreHeldByServer
<1>2. QED
  BY <1>1, StartupInvariant, PTL

(* No setting that from_env refuses reaches a user, and a server was       *)
(* stopped by no user at its start: whatever is written, only the timeout  *)
(* of one that serves may still be too large (config.py:115).              *)
THEOREM SettingsAreSound == Spec => []ServedSettingsAreSound
<1>1. IInv => ServedSettingsAreSound
  BY DEF IInv, StageCoherent, ServedSettingsAreSound, ConfigOK, MayBeUnusable, Timeout,
     Keys, Required, Numbers, Optional
<1>2. QED
  BY <1>1, StartupInvariant, PTL

-----------------------------------------------------------------------------
(* The safety half of ServesAgain.                                         *)

\* systemd does not start again what ended with 0.
UnitIsRestarted == wanted /\ pc[Unit] = "off" => exit[Unit] # 0

\* The unit serves and nothing else, and ended with 0 only when stopped.
UnitCoherent == cmd[Unit] = "serve" /\ (exit[Unit] = 0 => ~wanted)

(* Ending with any status but 0, or an end of another process, keeps it. *)
LEMMA EndsKeepsUnit ==
    ASSUME TypeOK, UnitCoherent, UNCHANGED cmd, wanted' => wanted, NEW p \in Processes, NEW code,
           Ends(p, code), p = Unit => code # 0
    PROVE  UnitCoherent'
BY DEF Ends, UnitCoherent, TypeOK, Processes

(* However a start of the unit fails, and however a server dies, the       *)
(* status is one that the supervisor restarts on: a unit that is wanted    *)
(* and down is always one the supervisor starts, for any number of edits,  *)
(* outages, kills and rivals (main, run_checks and serve).                 *)
THEOREM WantedUnitIsRestarted == Spec => []UnitIsRestarted
<1>1. Init => UnitCoherent
  BY DEF Init, UnitCoherent, Processes, NotYet
<1>2. ASSUME IInv, UnitCoherent, [Next]_vars
      PROVE  UnitCoherent'
  <2> USE <1>2 DEF IInv
  <2>0. Unit \in Processes
    BY DEF Processes
  <2>1. CASE SupervisorStarts
    <3>1. Starts(Unit, "serve") /\ exit[Unit] # 0
      BY <2>1 DEF SupervisorStarts
    <3>2. cmd'[Unit] = "serve" /\ exit'[Unit] # 0
      BY <2>0, <3>1 DEF Starts, Ends, TypeOK
    <3>3. QED
      BY <3>2 DEF UnitCoherent
  <2>2. ASSUME NEW p \in Processes, OperatorRuns(p)
        PROVE  UnitCoherent'
    <3>1. cmd'[Unit] = cmd[Unit] /\ exit'[Unit] = exit[Unit] /\ UNCHANGED wanted
      BY <2>0, <2>2 DEF OperatorRuns, Starts, Ends, TypeOK, world
    <3>2. QED
      BY <3>1 DEF UnitCoherent
  <2>3. ASSUME NEW p \in Processes, MainStep(p)
        PROVE  UnitCoherent'
    <3>1. UNCHANGED <<cmd, wanted>>
      BY <2>3 DEF MainStep, ChecksHealth, ChecksModels, OpensStore, Binds, world
    <3>2. CASE Crashes(p)
      BY <3>1, <3>2, EndsKeepsUnit DEF Crashes
    <3>3. CASE DoctorError(p)
      BY <3>1, <3>3, EndsKeepsUnit DEF DoctorError
    <3>4. CASE ChecksPassed(p) /\ Ends(p, 0)
      BY <3>1, <3>4, EndsKeepsUnit DEF ChecksPassed, Proceeds, UnitCoherent
    <3>5. CASE UNCHANGED exit
      BY <3>1, <3>5 DEF UnitCoherent
    <3>6. QED
      BY <2>3, <3>2, <3>3, <3>4, <3>5
      DEF MainStep, ChecksHealth, ChecksModels, ChecksPassed, OpensStore, Binds, Proceeds
  <2>4. ASSUME NEW p \in Processes, Interrupted(p)
        PROVE  UnitCoherent'
    <3>1. CASE p = Unit
      BY <2>4, <3>1 DEF Interrupted, UnitCoherent
    <3>2. CASE p # Unit
      BY <2>4, <3>2, EndsKeepsUnit DEF Interrupted
    <3>3. QED
      BY <3>1, <3>2
  <2>5. CASE OperatorWantsUnit
    BY <2>0, <2>5 DEF OperatorWantsUnit, UnitCoherent, TypeOK, NotYet
  <2>6. CASE Trouble
    <3>1. UNCHANGED <<cmd, wanted>>
      BY <2>6 DEF Trouble, world
    <3>2. ASSUME NEW p \in Processes, Ends(p, Killed)
          PROVE  UnitCoherent'
      BY <3>1, <3>2, EndsKeepsUnit DEF Killed
    <3>3. CASE UNCHANGED exit
      BY <3>1, <3>3 DEF UnitCoherent
    <3>4. QED
      BY <2>6, <3>2, <3>3 DEF Trouble
  <2>7. CASE UNCHANGED <<cmd, exit, wanted>>
    BY <2>7 DEF UnitCoherent
  <2>8. QED
    BY <2>1, <2>2, <2>3, <2>4, <2>5, <2>6, <2>7
    DEF Next, OperatorFixes, Recovers, vars, world
<1>3. UnitCoherent => UnitIsRestarted
  BY DEF UnitCoherent, UnitIsRestarted
<1>4. QED
  BY <1>1, <1>2, <1>3, StartupInvariant, PTL DEF Spec
=============================================================================
