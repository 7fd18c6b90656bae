------------------------------ MODULE Executor -------------------------------
(***************************************************************************)
(* How the tool handlers get at the job store: the event loop that must    *)
(* never wait, the default executor that runs each store call in one of    *)
(* executor_workers threads, the lock of the store, and the job threads,   *)
(* which are none of the executor's and want the same lock.                *)
(*                                                                         *)
(* JobBridge makes a store call one step and lets a handler vanish at an   *)
(* await; this module is about the waiting in between: for a thread, for   *)
(* the lock, for the disk, for the gateway.  When HERMES_API_URL gives a   *)
(* host name (docker-compose.traefik.yml:15) an ask waits for a thread     *)
(* too: the event loop resolves names in its default executor.             *)
(***************************************************************************)
EXTENDS Naturals, Sequences, FiniteSets

CONSTANTS
    Calls,        \* tool calls
    Workers,      \* executor_workers
    MaxSessions   \* bound on the entries into lifespan

ASSUME CallsAreFinite == IsFiniteSet(Calls)
ASSUME LimitsArePositive == Workers \in Nat \ {0} /\ MaxSessions \in Nat \ {0}

VARIABLES
    kind,      \* per call: which tool it calls
    handler,   \* per call: where its coroutine is
    item,      \* per call: its work item in an executor
    pool,      \* per call: the executor that has its work item, 0 if there is none
    done,      \* per call: store transactions committed for its handler
    job,       \* per hermes_ask with async_mode: its _run_job thread
    queue,     \* per executor: the work items nobody has picked up
    current,   \* the default executor of the loop
    lock       \* who holds the lock of the store

vars == <<kind, handler, item, pool, done, job, queue, current, lock>>

Executors == 1..MaxSessions

\* "ask" is the synchronous hermes_ask, "create" the one with async_mode,
\* "once" a hermes_check or hermes_reset, "cancel" a hermes_cancel.
Kinds == {"ask", "create", "once", "cancel"}

\* The store calls of a handler, one after the other.
Hops(k) == CASE k = "ask" -> 0 [] k = "cancel" -> 2 [] OTHER -> 1

Ended == {"replied", "failed", "gone"}
HandlerState == {"idle", "asking", "waiting", "resumed"} \union Ended
ItemState == {"none", "queued", "cancelled", "picked", "inStore"}
JobState == {"none", "marks", "marking", "asking", "records", "recording", "ended"}

Free == [by |-> "nobody"]
ByItem(c) == [by |-> "item", of |-> c]
ByJob(c) == [by |-> "job", of |-> c]

TypeOK ==
    /\ kind \in [Calls -> Kinds]
    /\ handler \in [Calls -> HandlerState]
    /\ item \in [Calls -> ItemState]
    /\ pool \in [Calls -> 0..MaxSessions]
    /\ done \in [Calls -> 0..2]
    /\ job \in [Calls -> JobState]
    /\ queue \in [Executors -> Seq(Calls)]
    /\ current \in Executors
    /\ lock \in {Free} \union {ByItem(c) : c \in Calls} \union {ByJob(c) : c \in Calls}

Init ==
    /\ kind \in [Calls -> Kinds]
    /\ handler = [c \in Calls |-> "idle"]
    /\ item = [c \in Calls |-> "none"]
    /\ pool = [c \in Calls |-> 0]
    /\ done = [c \in Calls |-> 0]
    /\ job = [c \in Calls |-> "none"]
    /\ queue = [e \in Executors |-> <<>>]
    /\ current = 1
    /\ lock = Free

-----------------------------------------------------------------------------
(* The event loop: the parts of a handler between two awaits.              *)

\* asyncio.to_thread: the item is queued and the handler awaits it.
ToThread(c) ==
    /\ handler' = [handler EXCEPT ![c] = "waiting"]
    /\ item' = [item EXCEPT ![c] = "queued"]
    /\ pool' = [pool EXCEPT ![c] = current]
    /\ queue' = [queue EXCEPT ![current] = Append(@, c)]

\* The handler makes its first store call; or asks the gateway, at once when
\* HERMES_API_URL gives an address, after a lookup when it gives a name.
Begins(c) ==
    /\ handler[c] = "idle"
    /\ \/ ToThread(c)
       \/ /\ kind[c] = "ask"
          /\ handler' = [handler EXCEPT ![c] = "asking"]
          /\ UNCHANGED <<item, pool, queue>>
    /\ UNCHANGED <<kind, done, job, current, lock>>

\* The handler has its results: it replies, or starts the job thread, which
\* may raise with the row committed, or goes on to ask the gateway.
GoesOn(c) ==
    \/ /\ kind[c] \in {"once", "cancel"}
       /\ handler' = [handler EXCEPT ![c] = "replied"]
       /\ UNCHANGED job
    \/ /\ kind[c] = "create"
       /\ handler' = [handler EXCEPT ![c] = "replied"]
       /\ job' = [job EXCEPT ![c] = "marks"]
    \/ /\ kind[c] = "create"
       /\ handler' = [handler EXCEPT ![c] = "failed"]
       /\ UNCHANGED job
    \/ /\ kind[c] = "ask"
       /\ handler' = [handler EXCEPT ![c] = "asking"]
       /\ UNCHANGED job

\* Wrong on purpose: a cancel replies when its first store call is done.
Mut_ResumesAfterOne(c) ==
    /\ handler[c] = "resumed"
    /\ GoesOn(c)
    /\ UNCHANGED <<kind, item, pool, done, queue, current, lock>>

\* Wrong on purpose: off by one, a store call too many.
Mut_ResumesOnceMore(c) ==
    /\ handler[c] = "resumed"
    /\ IF done[c] <= Hops(kind[c])
       THEN ToThread(c) /\ UNCHANGED job
       ELSE GoesOn(c) /\ UNCHANGED <<item, pool, queue>>
    /\ UNCHANGED <<kind, done, current, lock>>

\* The thread returned: the next store call, or the rest of the handler.
Resumes(c) ==
    /\ handler[c] = "resumed"
    /\ IF done[c] < Hops(kind[c])
       THEN ToThread(c) /\ UNCHANGED job
       ELSE GoesOn(c) /\ UNCHANGED <<item, pool, queue>>
    /\ UNCHANGED <<kind, done, current, lock>>

\* Wrong on purpose: the work item of a cancelled handler is not cancelled.
Mut_CancelledItemStays(c) ==
    /\ handler[c] \in {"asking", "waiting", "resumed"}
    /\ handler' = [handler EXCEPT ![c] = "gone"]
    /\ UNCHANGED <<kind, item, pool, queue, done, job, current, lock>>

\* The client disconnects or the session ends: the handler is cancelled at
\* its await, and so is an item still queued; one that runs runs on.
Cancelled(c) ==
    /\ handler[c] \in {"asking", "waiting", "resumed"}
    /\ handler' = [handler EXCEPT ![c] = "gone"]
    /\ item' = [item EXCEPT ![c] = IF @ = "queued" THEN "cancelled" ELSE @]
    /\ UNCHANGED <<kind, pool, queue, done, job, current, lock>>

\* The connect timeout passes before the name is looked up: the handler ends
\* with a HermesError, and its item as if it were cancelled.
LookupTimesOut(c) ==
    /\ handler[c] = "waiting" /\ kind[c] = "ask"
    /\ handler' = [handler EXCEPT ![c] = "failed"]
    /\ item' = [item EXCEPT ![c] = IF @ = "queued" THEN "cancelled" ELSE @]
    /\ UNCHANGED <<kind, pool, queue, done, job, current, lock>>

\* lifespan: whoever enters it gives the loop a new default executor; the
\* items in the one before still run there.
SessionOpens ==
    /\ current < MaxSessions
    /\ current' = current + 1
    /\ UNCHANGED <<kind, handler, item, pool, done, job, queue, lock>>

-----------------------------------------------------------------------------
(* The threads of an executor, and the store.                              *)

Busy(e) == {c \in Calls : pool[c] = e /\ item[c] \in {"picked", "inStore"}}

\* A thread of the executor e takes the item that has waited longest, and
\* throws it away if it was cancelled.
PicksUp(e) ==
    /\ queue[e] # <<>>
    /\ Cardinality(Busy(e)) < Workers
    /\ LET c == Head(queue[e])
           runs == item[c] = "queued"
       IN /\ item' = [item EXCEPT ![c] = IF runs THEN "picked" ELSE "none"]
          /\ pool' = [pool EXCEPT ![c] = IF runs THEN @ ELSE 0]
    /\ queue' = [queue EXCEPT ![e] = Tail(@)]
    /\ UNCHANGED <<kind, handler, done, job, current, lock>>

\* getaddrinfo, which takes no lock and may fail.
LooksUp(c) ==
    /\ item[c] = "picked" /\ kind[c] = "ask"
    /\ item' = [item EXCEPT ![c] = "none"]
    /\ pool' = [pool EXCEPT ![c] = 0]
    /\ \E h \in {"resumed", "failed"} :
        handler' = [handler EXCEPT ![c] = IF @ = "waiting" THEN h ELSE @]
    /\ UNCHANGED <<kind, done, job, queue, current, lock>>

EntersStore(c) ==
    /\ item[c] = "picked" /\ kind[c] # "ask"
    /\ lock = Free
    /\ lock' = ByItem(c)
    /\ item' = [item EXCEPT ![c] = "inStore"]
    /\ UNCHANGED <<kind, handler, pool, done, job, queue, current>>

\* Wrong on purpose: an exception leaves the lock behind.
Mut_LeavesStoreLocked(c) ==
    /\ item[c] = "inStore"
    /\ item' = [item EXCEPT ![c] = "none"]
    /\ pool' = [pool EXCEPT ![c] = 0]
    /\ \E ok \in BOOLEAN :
        /\ lock' = IF ok THEN Free ELSE lock
        /\ done' = [done EXCEPT ![c] = IF ok THEN @ + 1 ELSE @]
        /\ handler' = [handler EXCEPT ![c] =
              IF @ # "waiting" THEN @ ELSE IF ok THEN "resumed" ELSE "failed"]
    /\ UNCHANGED <<kind, job, queue, current>>

\* The transaction commits, or raises and rolls back; a handler that still
\* waits is resumed with the result, or ends with the error as its reply.
LeavesStore(c) ==
    /\ item[c] = "inStore"
    /\ item' = [item EXCEPT ![c] = "none"]
    /\ pool' = [pool EXCEPT ![c] = 0]
    /\ lock' = Free
    /\ \E ok \in BOOLEAN :
        /\ done' = [done EXCEPT ![c] = IF ok THEN @ + 1 ELSE @]
        /\ handler' = [handler EXCEPT ![c] =
              IF @ # "waiting" THEN @ ELSE IF ok THEN "resumed" ELSE "failed"]
    /\ UNCHANGED <<kind, job, queue, current>>

-----------------------------------------------------------------------------
(* _run_job, and the gateway.                                              *)

JobEntersStore(c) ==
    /\ job[c] \in {"marks", "records"}
    /\ lock = Free
    /\ lock' = ByJob(c)
    /\ job' = [job EXCEPT ![c] = IF @ = "marks" THEN "marking" ELSE "recording"]
    /\ UNCHANGED <<kind, handler, item, pool, done, queue, current>>

\* Wrong on purpose: the lock is kept while the gateway is asked.
Mut_JobKeepsLock(c) ==
    /\ job[c] \in {"marking", "recording"}
    /\ lock' = IF job[c] = "marking" THEN lock ELSE Free
    /\ job' = [job EXCEPT ![c] = IF @ = "marking" THEN "asking" ELSE "ended"]
    /\ UNCHANGED <<kind, handler, item, pool, done, queue, current>>

\* An exception of the store ends the thread.
JobLeavesStore(c) ==
    /\ job[c] \in {"marking", "recording"}
    /\ lock' = Free
    /\ job' = [job EXCEPT ![c] = IF @ = "marking" THEN "asking" ELSE "ended"]
       \/ job' = [job EXCEPT ![c] = "ended"]
    /\ UNCHANGED <<kind, handler, item, pool, done, queue, current>>

\* The gateway answers a job, or its timeout passes.
GatewayEndsJob(c) ==
    /\ job[c] = "asking"
    /\ job' = [job EXCEPT ![c] = "records"]
    /\ UNCHANGED <<kind, handler, item, pool, done, queue, current, lock>>

\* The same for a synchronous ask that knows the address, which no thread
\* waits for: the answer or the HermesError is the reply.
GatewayEndsAsk(c) ==
    /\ handler[c] = "asking"
    /\ \E h \in {"replied", "failed"} : handler' = [handler EXCEPT ![c] = h]
    /\ UNCHANGED <<kind, item, pool, done, job, queue, current, lock>>

-----------------------------------------------------------------------------
Next ==
    \/ SessionOpens
    \/ \E e \in Executors : PicksUp(e)
    \/ \E c \in Calls :
        \/ Begins(c) \/ Resumes(c) \/ Cancelled(c)
        \/ LooksUp(c) \/ LookupTimesOut(c)
        \/ EntersStore(c) \/ LeavesStore(c)
        \/ JobEntersStore(c) \/ JobLeavesStore(c)
        \/ GatewayEndsJob(c) \/ GatewayEndsAsk(c)

Spec == Init /\ [][Next]_vars

(***************************************************************************)
(* Fairness: the loop runs what is ready, threads pick up items and get a  *)
(* lock that stays free (calls are finitely many, so no thread loses it to *)
(* others for ever).  Nothing is assumed of the gateway and of timers, and *)
(* the disk and the resolver are premises of the property that needs them. *)
(***************************************************************************)
FairSpec ==
    /\ Spec
    /\ \A e \in Executors : WF_vars(PicksUp(e))
    /\ \A c \in Calls : /\ WF_vars(Resumes(c))
                        /\ WF_vars(EntersStore(c))
                        /\ WF_vars(JobEntersStore(c))

\* Every transaction ends, one way or the other.
DiskWorks == \A c \in Calls : WF_vars(LeavesStore(c)) /\ WF_vars(JobLeavesStore(c))

\* Every lookup ends, with an address or without.
ResolverWorks == \A c \in Calls : WF_vars(LooksUp(c))

-----------------------------------------------------------------------------
(* Who is inside the store holds its lock, and nobody else does: a thread  *)
(* of the executor and a job thread are never in there together, and no    *)
(* exception leaves the lock behind (persistent_jobs.py:84, 109, 130).     *)
StoreExclusive ==
    \A c \in Calls :
        /\ item[c] = "inStore" <=> lock = ByItem(c)
        /\ job[c] \in {"marking", "recording"} <=> lock = ByJob(c)

(* A call that was answered has had every store call of its handler, and   *)
(* an accepted job its thread; a check, a reset or a cancel that failed    *)
(* lacks a store call; and a job thread runs only for a committed row      *)
(* whose id was returned (server.py:322-345).  A failed hermes_ask may     *)
(* leave a committed row without a thread (JobBridge!AskDropped).          *)
RepliesFollowEffects ==
    \A c \in Calls :
        /\ handler[c] = "replied" =>
                /\ done[c] = Hops(kind[c])
                /\ kind[c] = "create" => job[c] # "none"
        /\ handler[c] = "failed" /\ kind[c] \in {"once", "cancel"} => done[c] < Hops(kind[c])
        /\ job[c] # "none" => kind[c] = "create" /\ done[c] = 1 /\ handler[c] = "replied"

(* The store call of a handler that is cancelled while it waits for a      *)
(* thread is never made, and neither is the lookup of one that timed out:  *)
(* only a call already picked up may still commit, and leave a row without *)
(* a thread (JobBridge!AskDropped).                                        *)
CancelledInQueueNeverRuns ==
    [][\A c \in Calls :
        handler[c] \in Ended /\ item[c] \notin {"picked", "inStore"} =>
            done'[c] = done[c] /\ item'[c] \notin {"picked", "inStore"}]_vars

(* While the disk and the resolver work every store call, every lookup and *)
(* every outcome of a job comes to an end, though the gateway may hang for *)
(* ever, the executor is full of threads that wait for the lock or look up *)
(* a name, handlers are cancelled, transactions raise and executors are    *)
(* replaced: "Keep MCP responsive during a long synchronous-mode Hermes    *)
(* request" (CHANGELOG.md:10).                                             *)
StoreCallsEnd ==
    DiskWorks /\ ResolverWorks =>
        \A c \in Calls :
            /\ (handler[c] = "waiting") ~> (handler[c] \in Ended \union {"asking"})
            /\ (job[c] = "records") ~> (job[c] = "ended")
=============================================================================
