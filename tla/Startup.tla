------------------------------- MODULE Startup -------------------------------
(***************************************************************************)
(* How hermes-mcp comes up: main, Config.from_env, run_checks and serve,   *)
(* run by a supervisor (Restart=on-failure) as "unit" and by an operator   *)
(* by hand, while the environment file, the gateway and the port change    *)
(* under them.  JobBridge takes for granted that a server which died is    *)
(* started again; this module says what that rests on.                     *)
(*                                                                         *)
(* The text of an environment variable is told apart only as far as        *)
(* from_env and the users of its result do: see Written.                   *)
(***************************************************************************)
EXTENDS Naturals

CONSTANTS
    ByHand,       \* processes an operator may run beside the unit
    Edited,       \* the settings that may be edited
    MaxTroubles   \* bound on bad edits, outages and kills

ASSUME UnitIsNotByHand == "unit" \notin ByHand /\ "nobody" \notin ByHand
Required == {"OAUTH_CLIENT_ID", "OAUTH_CLIENT_SECRET", "OAUTH_ISSUER_URL", "HERMES_API_KEY"}
Timeout == "HERMES_REQUEST_TIMEOUT_SECONDS"
Numbers == {"BIND_PORT", Timeout, "HERMES_MCP_EXECUTOR_WORKERS"}
Optional ==
    {"HERMES_API_URL", "BIND_HOST", "MCP_BEARER_TOKEN", "LOG_LEVEL", "HERMES_MCP_JOB_STORE_PATH"}
Keys == Required \union Numbers \union Optional

ASSUME EditedAreKeys == Edited \subseteq Keys
ASSUME TroublesAreBounded == MaxTroubles \in Nat

VARIABLES
    env,        \* the environment file, as the next process finds it
    gateway,    \* what answers at HERMES_API_URL
    portTaken,  \* another program listens on BIND_PORT
    wanted,     \* the operator wants the unit to run
    pc,         \* per process: how far main has come
    cmd,        \* per process: the command it was started with
    cfg,        \* per process: the Config it holds
    exit,       \* per process: its last exit status
    lock,       \* who holds the owner lock of the job store
    complaint,  \* the setting the last ConfigError named, unless mended since
    troubles

world == <<gateway, portTaken, wanted>>
vars == <<env, world, pc, cmd, cfg, exit, lock, complaint, troubles>>

Unit == "unit"
Processes == ByHand \union {Unit}
Nobody == "nobody"
Nothing == "nothing"

Texts == {"unset", "empty", "blank", "good", "short", "bad", "low", "high", "unusable"}

(***************************************************************************)
(* What the file may say for a key: nothing, an empty or a blank text, a   *)
(* good one, and the ways to be wrong: under 32 characters, of the wrong   *)
(* form, out of range, or accepted by from_env and refused by its user (a  *)
(* URL httpx, pydantic or the SDK refuses, a key that is no header value,  *)
(* a path that cannot be created, an address of another host, a timeout    *)
(* too large for a socket, for which from_env has no upper limit).         *)
(***************************************************************************)
Written(k) ==
    {"unset", "empty", "blank", "good"} \union
    CASE k = "OAUTH_CLIENT_ID" -> {}
      [] k \in {"OAUTH_CLIENT_SECRET", "MCP_BEARER_TOKEN"} -> {"short"}
      [] k \in {"OAUTH_ISSUER_URL", "HERMES_API_URL"} -> {"bad", "unusable"}
      [] k \in {"HERMES_API_KEY", "BIND_HOST", "HERMES_MCP_JOB_STORE_PATH"} -> {"unusable"}
      [] k = "LOG_LEVEL" -> {"bad"}
      [] k = Timeout -> {"bad", "low", "unusable"}
      [] k \in Numbers \ {Timeout} -> {"bad", "low", "high"}

\* Wrong on purpose: the upper limits of port and pool are forgotten.
Mut_RefusedBelowOnly(k) ==
    CASE k \in Required -> {"unset", "empty", "blank", "short", "bad"}
      [] k \in Numbers -> {"empty", "blank", "bad", "low"}
      [] k \in {"HERMES_API_URL", "LOG_LEVEL"} -> {"blank", "bad"}
      [] OTHER -> {"short"}

\* What from_env raises ConfigError for: port and pool have an upper limit, the
\* timeout has none (config.py:104, 115, 176).  An empty number is no integer; an
\* empty URL or log level is its default, a blank one is of no known form.
Refused(k) ==
    CASE k \in Required -> {"unset", "empty", "blank", "short", "bad"}
      [] k = Timeout -> {"empty", "blank", "bad", "low"}
      [] k \in Numbers \ {Timeout} -> {"empty", "blank", "bad", "low", "high"}
      [] k \in {"HERMES_API_URL", "LOG_LEVEL"} -> {"blank", "bad"}
      [] OTHER -> {"short"}

\* The order of the checks in from_env: the first error is the one raised.
Checks == <<"OAUTH_CLIENT_ID", "OAUTH_CLIENT_SECRET", "OAUTH_ISSUER_URL",
            "HERMES_API_URL", "HERMES_API_KEY", "BIND_PORT",
            Timeout, "MCP_BEARER_TOKEN", "LOG_LEVEL",
            "HERMES_MCP_EXECUTOR_WORKERS">>

Wrong(e) == {i \in DOMAIN Checks : e[Checks[i]] \in Refused(Checks[i])}

\* Wrong on purpose: the message does not say which setting it is about.
Mut_FirstWrongUnnamed(e) == IF Wrong(e) = {} THEN {} ELSE {"a setting"}

FirstWrong(e) == {Checks[i] : i \in {n \in Wrong(e) : \A j \in Wrong(e) : n <= j}}

\* The Config: defaults stand in for what is not said, None for no token.  A
\* blank BIND_HOST is no default but any address, which binds as well.
FromEnv(e) ==
    [k \in Keys |-> IF e[k] \notin {"unset", "empty", "blank"} THEN e[k]
                    ELSE IF k = "MCP_BEARER_TOKEN" THEN "none" ELSE "good"]

NoConfig == [k \in Keys |-> "none"]

(***************************************************************************)
(* The gateway: not listening; listening and not ready; refusing the key;  *)
(* answering /v1/models with something run_checks calls malformed; with    *)
(* JSON that is no object; as it should.                                   *)
(***************************************************************************)
Gateways == {"down", "starting", "rejecting", "malformed", "notObject", "ok"}

Commands == {"serve", "doctor", "mint"}
Stages == {"off", "health", "models", "build", "bind", "serving"}
ExitCodes == {0, 1, 2, 3}
Killed == 137
NotYet == 255

TypeOK ==
    /\ env \in [Keys -> Texts] /\ \A k \in Keys : env[k] \in Written(k)
    /\ gateway \in Gateways
    /\ portTaken \in BOOLEAN
    /\ wanted \in BOOLEAN
    /\ pc \in [Processes -> Stages]
    /\ cmd \in [Processes -> Commands]
    /\ cfg \in [Processes -> [Keys -> Texts \union {"none"}]]
    /\ exit \in [Processes -> ExitCodes \union {Killed, NotYet}]
    /\ lock \in Processes \union {Nobody}
    /\ complaint \in Keys \union {Nothing}
    /\ troubles \in Nat

Init ==
    /\ env = [k \in Keys |-> "good"]
    /\ gateway \in {"down", "ok"}
    /\ portTaken = FALSE
    /\ wanted = TRUE
    /\ pc = [p \in Processes |-> "off"]
    /\ cmd = [p \in Processes |-> "serve"]
    /\ cfg = [p \in Processes |-> NoConfig]
    /\ exit = [p \in Processes |-> NotYet]
    /\ lock = Nobody
    /\ complaint = Nothing
    /\ troubles = 0

-----------------------------------------------------------------------------
(* main.                                                                   *)

\* The process is gone; the system releases its flock.
Ends(p, code) ==
    /\ pc' = [pc EXCEPT ![p] = "off"]
    /\ exit' = [exit EXCEPT ![p] = code]
    /\ cfg' = [cfg EXCEPT ![p] = NoConfig]
    /\ lock' = IF lock = p THEN Nobody ELSE lock

\* An exception nobody catches; its traceback names no setting.
Crashes(p) == Ends(p, 1) /\ UNCHANGED complaint

\* Wrong on purpose: a failed check is not told to the supervisor.
Mut_DoctorErrorIsSuccess(p) == Ends(p, 0) /\ UNCHANGED complaint

DoctorError(p) == Ends(p, 3) /\ UNCHANGED complaint

Proceeds(p, stage) ==
    /\ pc' = [pc EXCEPT ![p] = stage]
    /\ UNCHANGED <<exit, cfg, lock, complaint>>

\* A process starts and reads its environment, which is its own copy: until
\* run_checks nothing it does depends on anybody else.
Starts(p, c) ==
    /\ pc[p] = "off"
    /\ cmd' = [cmd EXCEPT ![p] = c]
    /\ \/ c = "mint" /\ Ends(p, 0) /\ UNCHANGED complaint
       \/ c # "mint" /\ complaint' \in FirstWrong(env) /\ Ends(p, 2)
       \/ /\ c # "mint"
          /\ Wrong(env) = {}
          /\ pc' = [pc EXCEPT ![p] = "health"]
          /\ cfg' = [cfg EXCEPT ![p] = FromEnv(env)]
          /\ UNCHANGED <<exit, lock, complaint>>
    /\ UNCHANGED <<env, world, troubles>>

\* systemd starts the unit when it is wanted and did not exit with 0.
SupervisorStarts == wanted /\ exit[Unit] # 0 /\ Starts(Unit, "serve")

OperatorRuns(p) == p # Unit /\ \E c \in Commands : Starts(p, c)

\* run_checks, GET /v1/health.
ChecksHealth(p) ==
    /\ pc[p] = "health"
    /\ IF cfg[p]["HERMES_API_URL"] = "unusable" THEN Crashes(p)
       ELSE IF gateway \in {"down", "starting"} THEN DoctorError(p)
       ELSE Proceeds(p, "models")
    /\ UNCHANGED <<env, world, cmd, troubles>>

\* Wrong on purpose: the doctor goes on to build the application.
Mut_ChecksPassedAlwaysBuild(p) == Proceeds(p, "build")

ChecksPassed(p) ==
    \/ cmd[p] = "doctor" /\ Ends(p, 0) /\ UNCHANGED complaint
    \/ cmd[p] = "serve" /\ Proceeds(p, "build")

\* run_checks, GET /v1/models: data.get on a list or null is an
\* AttributeError, which is not among the exceptions caught.
ChecksModels(p) ==
    /\ pc[p] = "models"
    /\ IF cfg[p]["HERMES_API_KEY"] = "unusable" THEN Crashes(p)
       ELSE IF gateway = "notObject" THEN Crashes(p)
       ELSE IF gateway # "ok" THEN DoctorError(p)
       ELSE ChecksPassed(p)
    /\ UNCHANGED <<env, world, cmd, troubles>>

\* build_app: the issuer is parsed, then the store opened.  Some issuers that
\* are unusable are refused here, others by the SDK when the store is open.
OpensStore(p) ==
    /\ pc[p] = "build"
    /\ \/ cfg[p]["OAUTH_ISSUER_URL"] = "unusable" /\ Crashes(p)
       \/ cfg[p]["HERMES_MCP_JOB_STORE_PATH"] = "unusable" /\ Crashes(p)
       \/ cfg[p]["HERMES_MCP_JOB_STORE_PATH"] # "unusable" /\ lock # Nobody /\ Crashes(p)
       \/ /\ cfg[p]["HERMES_MCP_JOB_STORE_PATH"] # "unusable"
          /\ lock = Nobody
          /\ lock' = p
          /\ pc' = [pc EXCEPT ![p] = "bind"]
          /\ UNCHANGED <<exit, cfg, complaint>>
    /\ UNCHANGED <<env, world, cmd, troubles>>

\* streamable_http_app, which refuses the issuers left, and uvicorn.run, which
\* exits with 1 when it cannot bind.
Binds(p) ==
    /\ pc[p] = "bind"
    /\ IF "unusable" \in {cfg[p]["OAUTH_ISSUER_URL"], cfg[p]["BIND_HOST"]} \/ portTaken
       THEN Crashes(p)
       ELSE Proceeds(p, "serving")
    /\ UNCHANGED <<env, world, cmd, troubles>>

\* A serving process is interrupted: KeyboardInterrupt is caught, status 0.
\* For the unit it is the operator who stops it.
Interrupted(p) ==
    /\ pc[p] = "serving"
    /\ Ends(p, 0)
    /\ wanted' = (wanted /\ p # Unit)
    /\ UNCHANGED <<env, gateway, portTaken, cmd, complaint, troubles>>

-----------------------------------------------------------------------------
(* The operator, the gateway, the host.                                    *)

OperatorWantsUnit ==
    /\ ~wanted
    /\ wanted' = TRUE
    /\ exit' = [exit EXCEPT ![Unit] = NotYet]
    /\ UNCHANGED <<env, gateway, portTaken, pc, cmd, cfg, lock, complaint, troubles>>

\* The operator mends the setting the last ConfigError named.
OperatorFixes ==
    /\ complaint # Nothing
    /\ env' = [env EXCEPT ![complaint] = "good"]
    /\ complaint' = Nothing
    /\ UNCHANGED <<world, pc, cmd, cfg, exit, lock, troubles>>

Recovers ==
    /\ gateway' = "ok"
    /\ portTaken' = FALSE
    /\ UNCHANGED <<env, wanted, pc, cmd, cfg, exit, lock, complaint, troubles>>

Trouble ==
    /\ troubles < MaxTroubles
    /\ troubles' = troubles + 1
    /\ \/ /\ \E k \in Edited : \E t \in Written(k) : env' = [env EXCEPT ![k] = t]
          /\ UNCHANGED <<world, pc, cfg, exit, lock>>
       \/ /\ gateway' \in Gateways
          /\ portTaken' \in BOOLEAN
          /\ UNCHANGED <<env, wanted, pc, cfg, exit, lock>>
       \/ /\ \E p \in Processes : pc[p] # "off" /\ Ends(p, Killed)
          /\ UNCHANGED <<env, world>>
    /\ UNCHANGED <<cmd, complaint>>

MainStep(p) == ChecksHealth(p) \/ ChecksModels(p) \/ OpensStore(p) \/ Binds(p)

Next ==
    \/ SupervisorStarts \/ OperatorWantsUnit \/ OperatorFixes \/ Recovers \/ Trouble
    \/ \E p \in Processes : OperatorRuns(p) \/ MainStep(p) \/ Interrupted(p)

Spec == Init /\ [][Next]_vars

(***************************************************************************)
(* Fairness: the supervisor restarts, processes run, outages end, and the  *)
(* operator mends what a ConfigError named.  That he also mends what only  *)
(* a traceback speaks of, and stops the server he runs by hand, is a       *)
(* premise of the property that needs it.                                  *)
(***************************************************************************)
FairSpec ==
    /\ Spec
    /\ WF_vars(SupervisorStarts) /\ WF_vars(OperatorFixes) /\ WF_vars(Recovers)
    /\ \A p \in Processes : WF_vars(MainStep(p))

-----------------------------------------------------------------------------
(* The job store is held by the process that serves or is about to, and by *)
(* no other: a doctor or a mint beside a running server never takes the    *)
(* owner lock, no start that fails keeps it, and there is one server.      *)
StoreHeldByServer ==
    \A p \in Processes :
        lock = p <=> pc[p] \in {"bind", "serving"} /\ cmd[p] = "serve"

(* A process that goes on past from_env holds no setting that from_env     *)
(* means to keep from its users: a port outside 1..65535, an empty or a    *)
(* boundless pool, a short secret.  One that serves was stopped by no user *)
(* at its start either, and the timeout is the one setting it may still    *)
(* choke on, at the first call of the gateway: config.py:115 has no upper  *)
(* limit, and neither the checks of the doctor nor build_app use it.       *)
ServedSettingsAreSound ==
    \A p \in Processes :
        /\ pc[p] # "off" => \A k \in Keys : cfg[p][k] \in {"good", "none", "unusable"}
        /\ pc[p] = "serving" =>
                /\ \A k \in Keys \ {"MCP_BEARER_TOKEN", Timeout} : cfg[p][k] = "good"
                /\ cfg[p]["MCP_BEARER_TOKEN"] # "unusable"
                /\ cfg[p][Timeout] # "none"

\* What from_env accepts and a user may refuse.
MayBeUnusable == {"OAUTH_ISSUER_URL", "HERMES_API_URL", "HERMES_API_KEY", "BIND_HOST",
                  "HERMES_MCP_JOB_STORE_PATH", Timeout}

\* What stops a start with a traceback, which names no setting.
StopsUnnamed == MayBeUnusable \ {Timeout}

(* The unit serves again, after any finite run of edits, outages, kills    *)
(* and rivals, once the settings of which no message speaks are usable and *)
(* no server run by hand is left: every failed start ends with a status    *)
(* the supervisor restarts on and gives the store back, and every         *)
(* ConfigError names a setting that is really wrong, so that mending what  *)
(* they name comes to an end.                                              *)
ServesAgain ==
    /\ <>[](\A k \in StopsUnnamed : env[k] # "unusable")
    /\ <>[](\A p \in ByHand : cmd[p] = "serve" => pc[p] = "off")
    => (wanted ~> (~wanted \/ pc[Unit] = "serving"))

(***************************************************************************)
(* The inductive invariant: how far main has come says who holds the store *)
(* and which settings were found usable.  Startup_proofs proves it.        *)
(***************************************************************************)
ConfigOK(c) ==
    \A k \in Keys : /\ c[k] \in {"good", "none", "unusable"}
                    /\ c[k] = "none" => k = "MCP_BEARER_TOKEN"
                    /\ c[k] = "unusable" => k \in MayBeUnusable

StageCoherent(p) ==
    /\ pc[p] # "off" => ConfigOK(cfg[p])
    /\ pc[p] \in {"models", "build", "bind", "serving"} =>
            cfg[p]["HERMES_API_URL"] # "unusable"
    /\ pc[p] \in {"build", "bind", "serving"} =>
            cmd[p] = "serve" /\ cfg[p]["HERMES_API_KEY"] # "unusable"
    /\ pc[p] \in {"bind", "serving"} => cfg[p]["HERMES_MCP_JOB_STORE_PATH"] # "unusable"
    /\ pc[p] = "serving" =>
            "unusable" \notin {cfg[p]["OAUTH_ISSUER_URL"], cfg[p]["BIND_HOST"]}
    /\ lock = p <=> pc[p] \in {"bind", "serving"}

IInv == TypeOK /\ \A p \in Processes : StageCoherent(p)

(* "Fails loudly with actionable messages - never a Python traceback"      *)
(* (doctor.py:4).                                                          *)
DoctorNeverTracebacks ==
    [][\A p \in Processes : ChecksHealth(p) \/ ChecksModels(p) => exit'[p] # 1]_vars
=============================================================================
