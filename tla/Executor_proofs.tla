--------------------------- MODULE Executor_proofs ---------------------------
(***************************************************************************)
(* Proofs about Executor for any number of calls, threads and sessions:    *)
(* its safety rests on how far a handler has come saying where its work    *)
(* item is, and on a call being in one queue, once.                        *)
(***************************************************************************)
EXTENDS Executor, FiniteSetTheorems, SequenceTheorems, TLAPS

\* How far the handler of c has come says what became of its store calls.
CallCoherent(c) ==
    /\ handler[c] = "idle" => item[c] = "none" /\ done[c] = 0
    /\ handler[c] = "asking" => kind[c] = "ask" /\ item[c] = "none"
    /\ handler[c] = "waiting" => item[c] \in {"queued", "picked", "inStore"}
    /\ handler[c] \in {"resumed", "replied"} => item[c] = "none"
    /\ handler[c] = "resumed" => done[c] \in 0..Hops(kind[c]) /\ (kind[c] # "ask" => done[c] # 0)
    /\ handler[c] \in {"gone", "failed"} => item[c] # "queued"
    /\ handler[c] = "failed" /\ kind[c] # "ask" => item[c] = "none"
    /\ kind[c] = "ask" => done[c] = 0 /\ item[c] # "inStore"
    /\ item[c] # "none" /\ kind[c] # "ask" => done[c] < Hops(kind[c])

\* What is queued waits or was cancelled, knows its executor, and is there once.
QueueCoherent(e) ==
    /\ \A i \in 1..Len(queue[e]) :
          item[queue[e][i]] \in {"queued", "cancelled"} /\ pool[queue[e][i]] = e
    /\ \A i, j \in 1..Len(queue[e]) : queue[e][i] = queue[e][j] => i = j

IInv ==
    /\ TypeOK
    /\ \A c \in Calls : CallCoherent(c)
    /\ \A e \in Executors : QueueCoherent(e)
    /\ StoreExclusive
    /\ RepliesFollowEffects

-----------------------------------------------------------------------------

(* No handler makes more than two store calls. *)
LEMMA HopsBounded == \A k \in Kinds : Hops(k) \in 0..2 /\ (k # "ask" => Hops(k) # 0)
BY DEF Kinds, Hops

(* Putting a call that has no item into the current queue keeps the queues *)
(* coherent.                                                               *)
LEMMA QueuedOnce ==
    ASSUME TypeOK, \A e \in Executors : QueueCoherent(e),
           NEW c \in Calls, item[c] = "none", ToThread(c)
    PROVE  /\ queue' \in [Executors -> Seq(Calls)]
           /\ \A e \in Executors : QueueCoherent(e)'
<1>1. current \in Executors /\ queue[current] \in Seq(Calls)
  BY DEF TypeOK
<1>2. queue' = [queue EXCEPT ![current] = Append(@, c)]
  BY DEF ToThread
<1>3. Append(queue[current], c) \in Seq(Calls)
  BY <1>1
<1>4. queue' \in [Executors -> Seq(Calls)]
  BY <1>1, <1>2, <1>3 DEF TypeOK
<1>5. item' = [item EXCEPT ![c] = "queued"] /\ pool' = [pool EXCEPT ![c] = current]
  BY DEF ToThread
<1>6. ASSUME NEW e \in Executors
      PROVE  /\ QueueCoherent(e)
             /\ queue[e] \in Seq(Calls)
             /\ \A i \in 1..Len(queue[e]) : queue[e][i] \in Calls /\ queue[e][i] # c
  <2>1. QueueCoherent(e) /\ queue[e] \in Seq(Calls)
    BY <1>6 DEF TypeOK
  <2>2. QED
    BY <2>1 DEF QueueCoherent
<1>7. ASSUME NEW e \in Executors, e # current
      PROVE  QueueCoherent(e)'
  BY <1>1, <1>2, <1>5, <1>6, <1>7 DEF QueueCoherent, TypeOK
<1>8. ASSUME NEW k \in Executors, k = current
      PROVE  QueueCoherent(k)'
  <2> DEFINE q == queue[k]
             r == Append(q, c)
  <2>1. /\ Len(r) = Len(q) + 1
        /\ \A i \in 1..Len(q) : r[i] = q[i]
        /\ r[Len(q) + 1] = c
        /\ Len(q) \in Nat
    BY <1>1, <1>8, AppendProperties
  <2>2. queue'[k] = r
    BY <1>1, <1>2, <1>8 DEF TypeOK
  <2>3. ASSUME NEW i \in 1..Len(r)
        PROVE  item'[r[i]] \in {"queued", "cancelled"} /\ pool'[r[i]] = k
    BY <2>1, <2>3, <1>1, <1>5, <1>6, <1>8 DEF QueueCoherent, TypeOK
  <2>4. ASSUME NEW i \in 1..Len(r), NEW j \in 1..Len(r), r[i] = r[j]
        PROVE  i = j
    BY <2>1, <2>4, <1>1, <1>6, <1>8 DEF QueueCoherent
  <2>5. QED
    BY <2>2, <2>3, <2>4 DEF QueueCoherent
<1>9. QED
  BY <1>4, <1>7, <1>8

(* Taking the head away keeps the queues coherent. *)
LEMMA HeadTaken ==
    ASSUME TypeOK, \A e \in Executors : QueueCoherent(e), NEW e \in Executors, PicksUp(e)
    PROVE  /\ queue' \in [Executors -> Seq(Calls)]
           /\ \A f \in Executors : QueueCoherent(f)'
           /\ Head(queue[e]) \in Calls
           /\ item[Head(queue[e])] \in {"queued", "cancelled"}
<1> DEFINE q == queue[e]
           c == Head(q)
<1>1. q \in Seq(Calls) /\ q # <<>> /\ queue' = [queue EXCEPT ![e] = Tail(q)]
  BY DEF TypeOK, PicksUp
<1>2. /\ c \in Calls /\ Tail(q) \in Seq(Calls)
      /\ Len(Tail(q)) = Len(q) - 1 /\ Len(q) \in Nat \ {0}
      /\ \A i \in 1..Len(Tail(q)) : Tail(q)[i] = q[i + 1]
      /\ c = q[1]
  BY <1>1, HeadTailProperties, LenProperties
<1>3. queue' \in [Executors -> Seq(Calls)]
  BY <1>1, <1>2 DEF TypeOK
<1>4. item[c] \in {"queued", "cancelled"} /\ pool[c] = e
  BY <1>2 DEF QueueCoherent
<1>5. /\ \A d \in Calls : d # c => item'[d] = item[d] /\ pool'[d] = pool[d]
      /\ UNCHANGED current
  BY DEF PicksUp, TypeOK
<1>6. ASSUME NEW f \in Executors, f # e
      PROVE  QueueCoherent(f)'
  <2>1. queue'[f] = queue[f] /\ queue[f] \in Seq(Calls)
    BY <1>1, <1>6 DEF TypeOK
  <2>2. \A i \in 1..Len(queue[f]) : queue[f][i] \in Calls /\ queue[f][i] # c
    BY <2>1, <1>4, <1>6 DEF QueueCoherent
  <2>3. \A i \in 1..Len(queue[f]) :
          item'[queue[f][i]] = item[queue[f][i]] /\ pool'[queue[f][i]] = pool[queue[f][i]]
    BY <2>2, <1>5
  <2>4. QueueCoherent(f)
    OBVIOUS
  <2>5. QED
    BY <2>1, <2>3, <2>4 DEF QueueCoherent
<1>7. QueueCoherent(e)'
  <2>1. queue'[e] = Tail(q)
    BY <1>1 DEF TypeOK
  <2>2. ASSUME NEW i \in 1..Len(Tail(q))
        PROVE  Tail(q)[i] = q[i + 1] /\ i + 1 \in 1..Len(q) /\ q[i + 1] \in Calls /\ q[i + 1] # c
    BY <1>1, <1>2, <2>2 DEF QueueCoherent
  <2>3. ASSUME NEW i \in 1..Len(Tail(q))
        PROVE  item'[Tail(q)[i]] \in {"queued", "cancelled"} /\ pool'[Tail(q)[i]] = e
    BY <1>5, <2>2 DEF QueueCoherent
  <2>4. ASSUME NEW i \in 1..Len(Tail(q)), NEW j \in 1..Len(Tail(q)), Tail(q)[i] = Tail(q)[j]
        PROVE  i = j
    <3>1. i + 1 \in 1..Len(q) /\ j + 1 \in 1..Len(q) /\ q[i + 1] = q[j + 1]
      BY <2>2, <2>4
    <3>2. \A x, y \in 1..Len(q) : q[x] = q[y] => x = y
      BY DEF QueueCoherent
    <3>3. i + 1 = j + 1
      BY <3>1, <3>2
    <3>4. QED
      BY <3>3
  <2>5. QED
    BY <2>1, <2>3, <2>4 DEF QueueCoherent
<1>8. QED
  BY <1>2, <1>3, <1>4, <1>6, <1>7

(* A step that leaves the queues and their executors alone, and no item    *)
(* but one, which is not queued or is cancelled, keeps the queues coherent.*)
LEMMA QueuesUntouched ==
    ASSUME TypeOK, \A e \in Executors : QueueCoherent(e), NEW c \in Calls,
           UNCHANGED queue,
           \A d \in Calls \ {c} : item'[d] = item[d] /\ pool'[d] = pool[d],
           item[c] \in {"queued", "cancelled"} =>
               item'[c] \in {"queued", "cancelled"} /\ pool'[c] = pool[c]
    PROVE  \A e \in Executors : QueueCoherent(e)'
BY DEF QueueCoherent, TypeOK

-----------------------------------------------------------------------------

(* The initial states satisfy the invariant. *)
LEMMA InitIInv == Init => IInv
<1> SUFFICES ASSUME Init
             PROVE  IInv
  OBVIOUS
<1>1. 1 \in Executors /\ 0 \in 0..MaxSessions /\ 0 \in 0..2
  BY LimitsArePositive DEF Executors
<1>2. TypeOK
  BY <1>1, EmptySeq DEF Init, TypeOK, HandlerState, ItemState, JobState
<1>3. \A e \in Executors : QueueCoherent(e)
  BY EmptySeq DEF Init, QueueCoherent
<1>4. (\A c \in Calls : CallCoherent(c)) /\ RepliesFollowEffects
  BY DEF Init, CallCoherent, RepliesFollowEffects, Ended
<1>5. StoreExclusive
  BY DEF Init, StoreExclusive, Free, ByItem, ByJob
<1>6. QED
  BY <1>2, <1>3, <1>4, <1>5 DEF IInv

\* What a step does to the calls, kept for all of them when it is for one.
CallKept(c) ==
    /\ CallCoherent(c)'
    /\ (handler[c] = "replied" =>
           done[c] = Hops(kind[c]) /\ (kind[c] = "create" => job[c] # "none"))'
    /\ (handler[c] = "failed" /\ kind[c] \in {"once", "cancel"} => done[c] < Hops(kind[c]))'
    /\ (job[c] # "none" => kind[c] = "create" /\ done[c] = 1 /\ handler[c] = "replied")'
    /\ (item[c] = "inStore" <=> lock = ByItem(c))'
    /\ (job[c] \in {"marking", "recording"} <=> lock = ByJob(c))'

(* A step of one call that leaves the others alone keeps what holds of them*)
(* if the lock was and stays theirs, or was and is none of theirs.         *)
LEMMA OthersKept ==
    ASSUME IInv, NEW c \in Calls, NEW d \in Calls \ {c}, UNCHANGED kind,
           handler'[d] = handler[d], item'[d] = item[d], done'[d] = done[d], job'[d] = job[d],
           lock' = lock \/ (lock \in {Free, ByItem(c), ByJob(c)} /\ lock' \in {Free, ByItem(c), ByJob(c)})
    PROVE  CallKept(d)
<1>1. ByItem(c) # ByItem(d) /\ ByJob(c) # ByJob(d) /\ ByItem(c) # ByJob(d) /\ ByJob(c) # ByItem(d)
      /\ Free # ByItem(d) /\ Free # ByJob(d)
  BY DEF ByItem, ByJob, Free
<1>2. CallCoherent(d)'
  BY DEF IInv, CallCoherent
<1>3. (handler[d] = "replied" =>
          done[d] = Hops(kind[d]) /\ (kind[d] = "create" => job[d] # "none"))'
      /\ (handler[d] = "failed" /\ kind[d] \in {"once", "cancel"} => done[d] < Hops(kind[d]))'
      /\ (job[d] # "none" => kind[d] = "create" /\ done[d] = 1 /\ handler[d] = "replied")'
  BY DEF IInv, RepliesFollowEffects
<1>4. (item[d] = "inStore" <=> lock = ByItem(d))'
      /\ (job[d] \in {"marking", "recording"} <=> lock = ByJob(d))'
  BY <1>1 DEF IInv, StoreExclusive
<1>5. QED
  BY <1>2, <1>3, <1>4 DEF CallKept

-----------------------------------------------------------------------------

(* Each step keeps the types. *)
LEMMA TypeStep ==
    ASSUME IInv, [Next]_vars
    PROVE  TypeOK'
<1> USE DEF TypeOK, IInv
<1>1. ASSUME NEW c \in Calls, item[c] = "none", ToThread(c)
      PROVE  /\ handler' \in [Calls -> HandlerState]
             /\ item' \in [Calls -> ItemState]
             /\ pool' \in [Calls -> 0..MaxSessions]
             /\ queue' \in [Executors -> Seq(Calls)]
  <2>1. queue' \in [Executors -> Seq(Calls)]
    BY <1>1, QueuedOnce
  <2>2. current \in 0..MaxSessions
    BY LimitsArePositive DEF Executors
  <2>3. QED
    BY <1>1, <2>1, <2>2 DEF ToThread, HandlerState, ItemState
<1>2. CASE SessionOpens
  BY <1>2, LimitsArePositive DEF SessionOpens, Executors
<1>3. ASSUME NEW e \in Executors, PicksUp(e)
      PROVE  TypeOK'
  <2>1. 0 \in 0..MaxSessions
    BY LimitsArePositive
  <2>2. QED
    BY <1>3, <2>1, HeadTaken DEF PicksUp, ItemState
<1>4. ASSUME NEW c \in Calls, Begins(c)
      PROVE  TypeOK'
  BY <1>1, <1>4 DEF Begins, HandlerState, CallCoherent
<1>5. ASSUME NEW c \in Calls, Resumes(c)
      PROVE  TypeOK'
  BY <1>1, <1>5 DEF Resumes, GoesOn, HandlerState, JobState, Ended, CallCoherent
<1>6. ASSUME NEW c \in Calls, Cancelled(c) \/ LookupTimesOut(c)
      PROVE  TypeOK'
  BY <1>6 DEF Cancelled, LookupTimesOut, HandlerState, ItemState, Ended
<1>7. ASSUME NEW c \in Calls, EntersStore(c) \/ LooksUp(c)
      PROVE  TypeOK'
  <2>1. 0 \in 0..MaxSessions
    BY LimitsArePositive
  <2>2. CASE EntersStore(c)
    BY <2>2 DEF EntersStore, ItemState
  <2>3. CASE LooksUp(c)
    BY <2>1, <2>3 DEF LooksUp, ItemState, HandlerState, Ended
  <2>4. QED
    BY <1>7, <2>2, <2>3
<1>8. ASSUME NEW c \in Calls, LeavesStore(c)
      PROVE  TypeOK'
  <2>1. 0 \in 0..MaxSessions
    BY LimitsArePositive
  <2>2. kind[c] \in Kinds /\ done[c] \in 0..2 /\ done[c] < Hops(kind[c])
    <3>1. item[c] = "inStore" /\ CallCoherent(c)
      BY <1>8 DEF LeavesStore
    <3>2. QED
      BY <3>1 DEF CallCoherent
  <2>3. done[c] + 1 \in 0..2
    <3>1. Hops(kind[c]) \in 0..2
      BY <2>2, HopsBounded
    <3>2. QED
      BY <2>2, <3>1
  <2>4. PICK ok \in BOOLEAN :
           /\ done' = [done EXCEPT ![c] = IF ok THEN @ + 1 ELSE @]
           /\ handler' = [handler EXCEPT ![c] =
                 IF @ # "waiting" THEN @ ELSE IF ok THEN "resumed" ELSE "failed"]
    BY <1>8 DEF LeavesStore
  <2>5. done' \in [Calls -> 0..2]
    BY <2>3, <2>4
  <2>6. handler[c] \in HandlerState /\ {"resumed", "failed"} \subseteq HandlerState
    BY DEF HandlerState, Ended
  <2>7. handler' \in [Calls -> HandlerState]
    BY <2>4, <2>6
  <2>8. QED
    BY <1>8, <2>1, <2>5, <2>7 DEF LeavesStore, ItemState
<1>9. ASSUME NEW c \in Calls, JobEntersStore(c) \/ JobLeavesStore(c) \/ GatewayEndsJob(c)
      PROVE  TypeOK'
  BY <1>9 DEF JobEntersStore, JobLeavesStore, GatewayEndsJob, JobState
<1>10. ASSUME NEW c \in Calls, GatewayEndsAsk(c)
      PROVE  TypeOK'
  BY <1>10 DEF GatewayEndsAsk, HandlerState, Ended
<1>11. CASE UNCHANGED vars
  BY <1>11 DEF vars
<1>12. QED
  BY <1>2, <1>3, <1>4, <1>5, <1>6, <1>7, <1>8, <1>9, <1>10, <1>11 DEF Next

(* Each step keeps the queues coherent. *)
LEMMA QueueStep ==
    ASSUME IInv, [Next]_vars
    PROVE  \A e \in Executors : QueueCoherent(e)'
<1> USE DEF IInv
<1>1. CASE SessionOpens
  BY <1>1 DEF SessionOpens, QueueCoherent
<1>2. ASSUME NEW e \in Executors, PicksUp(e)
      PROVE  \A f \in Executors : QueueCoherent(f)'
  BY <1>2, HeadTaken
<1>3. ASSUME NEW c \in Calls, ToThread(c), item[c] = "none"
      PROVE  \A e \in Executors : QueueCoherent(e)'
  BY <1>3, QueuedOnce
<1>4. ASSUME NEW c \in Calls, Begins(c) \/ Resumes(c)
      PROVE  \A e \in Executors : QueueCoherent(e)'
  <2>1. item[c] = "none"
    BY <1>4 DEF Begins, Resumes, CallCoherent
  <2>2. ToThread(c) \/ UNCHANGED <<item, pool, queue>>
    BY <1>4 DEF Begins, Resumes
  <2>3. QED
    BY <1>3, <2>1, <2>2 DEF QueueCoherent
<1>5. ASSUME NEW c \in Calls, Cancelled(c) \/ LookupTimesOut(c) \/ LooksUp(c)
                               \/ EntersStore(c) \/ LeavesStore(c)
      PROVE  \A e \in Executors : QueueCoherent(e)'
  <2>1. /\ UNCHANGED queue
        /\ \A d \in Calls \ {c} : item'[d] = item[d] /\ pool'[d] = pool[d]
        /\ item[c] \in {"queued", "cancelled"} =>
              item'[c] \in {"queued", "cancelled"} /\ pool'[c] = pool[c]
    BY <1>5 DEF Cancelled, LookupTimesOut, LooksUp, EntersStore, LeavesStore, TypeOK
  <2>2. QED
    BY <2>1, QueuesUntouched
<1>6. ASSUME NEW c \in Calls, JobEntersStore(c) \/ JobLeavesStore(c)
                               \/ GatewayEndsJob(c) \/ GatewayEndsAsk(c)
      PROVE  \A e \in Executors : QueueCoherent(e)'
  BY <1>6 DEF JobEntersStore, JobLeavesStore, GatewayEndsJob, GatewayEndsAsk, QueueCoherent
<1>7. CASE UNCHANGED vars
  BY <1>7 DEF vars, QueueCoherent
<1>8. QED
  BY <1>1, <1>2, <1>4, <1>5, <1>6, <1>7 DEF Next

(* What is kept for every call is the rest of the invariant. *)
LEMMA KeptForAll ==
    ASSUME \A c \in Calls : CallKept(c)
    PROVE  (\A c \in Calls : CallCoherent(c))' /\ StoreExclusive' /\ RepliesFollowEffects'
BY DEF CallKept, StoreExclusive, RepliesFollowEffects

(* Each step keeps what is known of the calls. *)
LEMMA CallStep ==
    ASSUME IInv, [Next]_vars
    PROVE  \A c \in Calls : CallKept(c)
<1> USE DEF IInv, TypeOK
<1>1. ASSUME UNCHANGED <<kind, handler, item, done, job, lock>>
      PROVE  \A c \in Calls : CallKept(c)
  BY <1>1 DEF CallKept, CallCoherent, StoreExclusive, RepliesFollowEffects
<1>2. ASSUME NEW e \in Executors, PicksUp(e)
      PROVE  \A c \in Calls : CallKept(c)
  <2>1. PICK h \in Calls : h = Head(queue[e]) /\ item[h] \in {"queued", "cancelled"}
    BY <1>2, HeadTaken
  <2>2. /\ item'[h] = IF item[h] = "queued" THEN "picked" ELSE "none"
        /\ \A d \in Calls \ {h} : item'[d] = item[d]
        /\ UNCHANGED <<kind, handler, done, job, lock>>
    BY <1>2, <2>1 DEF PicksUp
  <2>3. CallKept(h)
    BY <2>1, <2>2 DEF CallKept, CallCoherent, StoreExclusive, RepliesFollowEffects
  <2>4. \A d \in Calls \ {h} : CallKept(d)
    BY <2>1, <2>2, OthersKept
  <2>5. QED
    BY <2>3, <2>4
<1>3. ASSUME NEW c \in Calls, Begins(c)
      PROVE  CallKept(c) /\ \A d \in Calls \ {c} : CallKept(d)
  <2>1. /\ UNCHANGED <<kind, done, job, lock>>
        /\ \A d \in Calls \ {c} : handler'[d] = handler[d] /\ item'[d] = item[d]
        /\ \/ kind[c] = "ask" /\ handler'[c] = "asking" /\ item'[c] = item[c]
           \/ handler'[c] = "waiting" /\ item'[c] = "queued"
    BY <1>3 DEF Begins, ToThread
  <2>2. kind[c] \in Kinds /\ handler[c] = "idle" /\ item[c] = "none" /\ done[c] = 0
    BY <1>3 DEF Begins, CallCoherent
  <2>3. kind[c] # "ask" => 0 < Hops(kind[c])
    <3>1. Hops(kind[c]) \in 0..2 /\ (kind[c] # "ask" => Hops(kind[c]) # 0)
      BY <2>2, HopsBounded
    <3>2. QED
      BY <3>1
  <2>4. CallKept(c)
    BY <2>1, <2>2, <2>3 DEF CallKept, CallCoherent, StoreExclusive, RepliesFollowEffects
  <2>5. QED
    BY <2>1, <2>4, OthersKept
<1>4. ASSUME NEW c \in Calls, Resumes(c)
      PROVE  CallKept(c) /\ \A d \in Calls \ {c} : CallKept(d)
  <2>1. /\ UNCHANGED <<kind, done, lock>>
        /\ \A d \in Calls \ {c} : handler'[d] = handler[d] /\ item'[d] = item[d] /\ job'[d] = job[d]
        /\ \/ /\ done[c] < Hops(kind[c])
              /\ handler'[c] = "waiting" /\ item'[c] = "queued" /\ job'[c] = job[c]
           \/ /\ ~(done[c] < Hops(kind[c])) /\ item'[c] = item[c]
              /\ \/ kind[c] # "create" /\ handler'[c] = "replied" /\ job'[c] = job[c]
                 \/ kind[c] = "create" /\ handler'[c] = "replied" /\ job'[c] = "marks"
                 \/ kind[c] = "create" /\ handler'[c] = "failed" /\ job'[c] = job[c]
                 \/ kind[c] = "ask" /\ handler'[c] = "asking" /\ job'[c] = job[c]
    BY <1>4 DEF Resumes, GoesOn, ToThread
  <2>2. /\ kind[c] \in Kinds /\ handler[c] = "resumed" /\ item[c] = "none"
        /\ done[c] \in 0..Hops(kind[c]) /\ (kind[c] # "ask" => done[c] # 0)
        /\ job[c] = "none" /\ lock # ByJob(c)
    <3>1. handler[c] = "resumed"
      BY <1>4 DEF Resumes
    <3>2. job[c] = "none"
      BY <3>1 DEF RepliesFollowEffects
    <3>3. lock # ByJob(c)
      BY <3>2 DEF StoreExclusive
    <3>4. CallCoherent(c) /\ kind[c] \in Kinds
      OBVIOUS
    <3>5. QED
      BY <3>1, <3>2, <3>3, <3>4 DEF CallCoherent
  <2>3. (kind[c] = "create" => Hops(kind[c]) = 1) /\ (kind[c] = "ask" => Hops(kind[c]) = 0)
    BY DEF Hops
  <2>. Hops(kind[c]) \in 0..2
    BY <2>2, HopsBounded
  <2>4. CallKept(c)
    BY <2>1, <2>2, <2>3 DEF CallKept, CallCoherent, StoreExclusive, RepliesFollowEffects
  <2>5. QED
    BY <2>1, <2>4, OthersKept
<1>5. ASSUME NEW c \in Calls, Cancelled(c)
      PROVE  CallKept(c) /\ \A d \in Calls \ {c} : CallKept(d)
  <2>1. /\ UNCHANGED <<kind, done, job, lock>>
        /\ \A d \in Calls \ {c} : handler'[d] = handler[d] /\ item'[d] = item[d]
        /\ handler'[c] = "gone"
        /\ item'[c] = IF item[c] = "queued" THEN "cancelled" ELSE item[c]
    BY <1>5 DEF Cancelled
  <2>2. CallKept(c)
    BY <1>5, <2>1 DEF Cancelled, CallKept, CallCoherent, StoreExclusive, RepliesFollowEffects
  <2>3. QED
    BY <2>1, <2>2, OthersKept
<1>6. ASSUME NEW c \in Calls, EntersStore(c)
      PROVE  CallKept(c) /\ \A d \in Calls \ {c} : CallKept(d)
  <2>1. /\ UNCHANGED <<kind, handler, done, job>>
        /\ \A d \in Calls \ {c} : item'[d] = item[d]
        /\ item[c] = "picked" /\ item'[c] = "inStore" /\ lock = Free /\ lock' = ByItem(c)
        /\ kind[c] # "ask"
    BY <1>6 DEF EntersStore
  <2>2. ByItem(c) # ByJob(c) /\ Free # ByJob(c)
    BY DEF ByItem, ByJob, Free
  <2>3. CallKept(c)
    BY <2>1, <2>2 DEF CallKept, CallCoherent, StoreExclusive, RepliesFollowEffects
  <2>4. QED
    BY <2>1, <2>3, OthersKept
<1>7. ASSUME NEW c \in Calls, LeavesStore(c)
      PROVE  CallKept(c) /\ \A d \in Calls \ {c} : CallKept(d)
  <2>1. PICK ok \in BOOLEAN :
           /\ done' = [done EXCEPT ![c] = IF ok THEN @ + 1 ELSE @]
           /\ handler' = [handler EXCEPT ![c] =
                 IF @ # "waiting" THEN @ ELSE IF ok THEN "resumed" ELSE "failed"]
    BY <1>7 DEF LeavesStore
  <2>2. /\ UNCHANGED <<kind, job>>
        /\ item[c] = "inStore" /\ item' = [item EXCEPT ![c] = "none"] /\ lock' = Free
        /\ lock = ByItem(c)
    BY <1>7 DEF LeavesStore, StoreExclusive
  <2>3. ByItem(c) # ByJob(c) /\ Free # ByJob(c) /\ Free # ByItem(c)
    BY DEF ByItem, ByJob, Free
  <2>4. /\ handler[c] \in {"waiting", "gone"} /\ kind[c] \in Kinds \ {"ask"}
        /\ done[c] \in 0..2 /\ done[c] < Hops(kind[c])
    <3>1. CallCoherent(c) /\ kind[c] \in Kinds /\ done[c] \in 0..2 /\ handler[c] \in HandlerState
      OBVIOUS
    <3>2. QED
      BY <2>2, <3>1 DEF CallCoherent, HandlerState, Ended
  <2>5. Hops(kind[c]) \in 0..2
    BY <2>4, HopsBounded
  <2>6. CallCoherent(c)'
    BY <2>1, <2>2, <2>4, <2>5 DEF CallCoherent
  <2>7. CallKept(c)
    BY <2>1, <2>2, <2>3, <2>4, <2>5, <2>6 DEF CallKept, StoreExclusive, RepliesFollowEffects
  <2>8. QED
    BY <2>1, <2>2, <2>7, OthersKept
<1>8. ASSUME NEW c \in Calls, JobEntersStore(c)
      PROVE  CallKept(c) /\ \A d \in Calls \ {c} : CallKept(d)
  <2>1. /\ UNCHANGED <<kind, handler, item, done>>
        /\ \A d \in Calls \ {c} : job'[d] = job[d]
        /\ job[c] # "none" /\ job'[c] \in {"marking", "recording"}
        /\ lock = Free /\ lock' = ByJob(c)
    BY <1>8 DEF JobEntersStore
  <2>2. ByItem(c) # ByJob(c) /\ Free # ByItem(c)
    BY DEF ByItem, ByJob, Free
  <2>3. CallKept(c)
    BY <2>1, <2>2 DEF CallKept, CallCoherent, StoreExclusive, RepliesFollowEffects
  <2>4. QED
    BY <2>1, <2>3, OthersKept
<1>9. ASSUME NEW c \in Calls, JobLeavesStore(c)
      PROVE  CallKept(c) /\ \A d \in Calls \ {c} : CallKept(d)
  <2>1. /\ UNCHANGED <<kind, handler, item, done>>
        /\ \A d \in Calls \ {c} : job'[d] = job[d]
        /\ job[c] \in {"marking", "recording"} /\ job'[c] \in {"asking", "ended"}
        /\ lock = ByJob(c) /\ lock' = Free
    BY <1>9 DEF JobLeavesStore, StoreExclusive
  <2>2. ByItem(c) # ByJob(c) /\ Free # ByItem(c) /\ Free # ByJob(c)
    BY DEF ByItem, ByJob, Free
  <2>3. CallKept(c)
    BY <2>1, <2>2 DEF CallKept, CallCoherent, StoreExclusive, RepliesFollowEffects
  <2>4. QED
    BY <2>1, <2>3, OthersKept
<1>10. ASSUME NEW c \in Calls, GatewayEndsJob(c)
      PROVE  CallKept(c) /\ \A d \in Calls \ {c} : CallKept(d)
  <2>1. /\ UNCHANGED <<kind, handler, item, done, lock>>
        /\ \A d \in Calls \ {c} : job'[d] = job[d]
        /\ job[c] = "asking" /\ job'[c] = "records"
    BY <1>10 DEF GatewayEndsJob
  <2>2. CallKept(c)
    BY <2>1 DEF CallKept, CallCoherent, StoreExclusive, RepliesFollowEffects
  <2>3. QED
    BY <2>1, <2>2, OthersKept
<1>11. ASSUME NEW c \in Calls, GatewayEndsAsk(c)
      PROVE  CallKept(c) /\ \A d \in Calls \ {c} : CallKept(d)
  <2>1. /\ UNCHANGED <<kind, item, done, job, lock>>
        /\ \A d \in Calls \ {c} : handler'[d] = handler[d]
        /\ handler[c] = "asking" /\ handler'[c] \in {"replied", "failed"}
    BY <1>11 DEF GatewayEndsAsk
  <2>2. Hops("ask") = 0
    BY DEF Hops
  <2>3. CallKept(c)
    BY <2>1, <2>2 DEF CallKept, CallCoherent, StoreExclusive, RepliesFollowEffects
  <2>4. QED
    BY <2>1, <2>3, OthersKept
<1>12. ASSUME NEW c \in Calls, LooksUp(c)
       PROVE  CallKept(c) /\ \A d \in Calls \ {c} : CallKept(d)
  <2>1. /\ UNCHANGED <<kind, done, job, lock>>
        /\ \A d \in Calls \ {c} : handler'[d] = handler[d] /\ item'[d] = item[d]
        /\ kind[c] = "ask" /\ item[c] = "picked" /\ item'[c] = "none"
        /\ IF handler[c] = "waiting" THEN handler'[c] \in {"resumed", "failed"}
           ELSE handler'[c] = handler[c]
    BY <1>12 DEF LooksUp
  <2>2. Hops("ask") = 0
    BY DEF Hops
  <2>3. CallKept(c)
    BY <2>1, <2>2 DEF CallKept, CallCoherent, StoreExclusive, RepliesFollowEffects
  <2>4. QED
    BY <2>1, <2>3, OthersKept
<1>13. ASSUME NEW c \in Calls, LookupTimesOut(c)
       PROVE  CallKept(c) /\ \A d \in Calls \ {c} : CallKept(d)
  <2>1. /\ UNCHANGED <<kind, done, job, lock>>
        /\ \A d \in Calls \ {c} : handler'[d] = handler[d] /\ item'[d] = item[d]
        /\ kind[c] = "ask" /\ handler[c] = "waiting" /\ handler'[c] = "failed"
        /\ item'[c] = IF item[c] = "queued" THEN "cancelled" ELSE item[c]
    BY <1>13 DEF LookupTimesOut
  <2>2. CallKept(c)
    BY <2>1 DEF CallKept, CallCoherent, StoreExclusive, RepliesFollowEffects
  <2>3. QED
    BY <2>1, <2>2, OthersKept
<1>14. QED
  <2>1. CASE SessionOpens \/ UNCHANGED vars
    BY <1>1, <2>1 DEF SessionOpens, vars
  <2>2. CASE \E c \in Calls : \/ Begins(c) \/ Resumes(c) \/ Cancelled(c)
                             \/ LooksUp(c) \/ LookupTimesOut(c)
                             \/ EntersStore(c) \/ LeavesStore(c)
                             \/ JobEntersStore(c) \/ JobLeavesStore(c)
                             \/ GatewayEndsJob(c) \/ GatewayEndsAsk(c)
    BY <1>3, <1>4, <1>5, <1>6, <1>7, <1>8, <1>9, <1>10, <1>11, <1>12, <1>13, <2>2
  <2>3. QED
    BY <1>2, <2>1, <2>2 DEF Next

-----------------------------------------------------------------------------

(* The inductive invariant: a handler that waits has one work item, in one *)
(* queue and there once, and whoever is inside the store holds its lock.   *)
THEOREM ExecutorInvariant == Spec => []IInv
<1>1. IInv /\ [Next]_vars => IInv'
  BY TypeStep, QueueStep, CallStep, KeptForAll DEF IInv
<1>2. QED
  BY <1>1, InitIInv, PTL DEF Spec

(* The state has its types, for any number of calls, threads and sessions. *)
THEOREM ExecutorTyped == Spec => []TypeOK
BY ExecutorInvariant, PTL DEF IInv

(* Two threads are never inside the store at once, whatever handlers are   *)
(* cancelled and transactions raise (persistent_jobs.py:78-84).            *)
THEOREM StoreIsExclusive == Spec => []StoreExclusive
BY ExecutorInvariant, PTL DEF IInv

(* A reply means that every store call of its handler was made, once, and  *)
(* that an accepted job has its thread; an error of a check, a reset or a  *)
(* cancel that a store call was not made; and a job thread runs for a      *)
(* committed row only.                                                     *)
THEOREM RepliesFollow == Spec => []RepliesFollowEffects
BY ExecutorInvariant, PTL DEF IInv

(* The store call of a handler cancelled while it waits for a thread is    *)
(* never made, nor the lookup of one that timed out there.                 *)
THEOREM QueuedCallsAreDropped == Spec => CancelledInQueueNeverRuns
<1> DEFINE A(c) == handler[c] \in Ended /\ item[c] \notin {"picked", "inStore"} =>
                      done'[c] = done[c] /\ item'[c] \notin {"picked", "inStore"}
<1>1. ASSUME IInv, [Next]_vars, NEW c \in Calls
      PROVE  A(c)
  <2> SUFFICES ASSUME handler[c] \in Ended, item[c] \notin {"picked", "inStore"}
               PROVE  done'[c] = done[c] /\ item'[c] \notin {"picked", "inStore"}
    OBVIOUS
  <2> USE <1>1 DEF IInv, TypeOK
  <2>1. item[c] # "queued"
    BY DEF CallCoherent, Ended
  <2>2. ASSUME NEW e \in Executors, PicksUp(e)
        PROVE  done'[c] = done[c] /\ item'[c] \notin {"picked", "inStore"}
    BY <2>1, <2>2, HeadTaken DEF PicksUp
  <2>3. ASSUME NEW d \in Calls, Begins(d) \/ Resumes(d) \/ Cancelled(d) \/ LookupTimesOut(d)
        PROVE  done'[c] = done[c] /\ item'[c] \notin {"picked", "inStore"}
    BY <2>1, <2>3 DEF Begins, Resumes, Cancelled, LookupTimesOut, ToThread
  <2>4. ASSUME NEW d \in Calls, LooksUp(d) \/ EntersStore(d) \/ LeavesStore(d)
        PROVE  done'[c] = done[c] /\ item'[c] \notin {"picked", "inStore"}
    BY <2>1, <2>4 DEF LooksUp, EntersStore, LeavesStore
  <2>5. ASSUME NEW d \in Calls, JobEntersStore(d) \/ JobLeavesStore(d)
                                 \/ GatewayEndsJob(d) \/ GatewayEndsAsk(d)
        PROVE  done'[c] = done[c] /\ item'[c] \notin {"picked", "inStore"}
    BY <2>5 DEF JobEntersStore, JobLeavesStore, GatewayEndsJob, GatewayEndsAsk
  <2>6. CASE SessionOpens \/ UNCHANGED vars
    BY <2>6 DEF SessionOpens, vars
  <2>7. QED
    BY <2>2, <2>3, <2>4, <2>5, <2>6 DEF Next
<1>2. IInv /\ [Next]_vars => [\A c \in Calls : A(c)]_vars
  BY <1>1
<1>3. QED
  BY <1>2, ExecutorInvariant, PTL DEF Spec, CancelledInQueueNeverRuns

-----------------------------------------------------------------------------
(* Where a waiting call is.                                                *)

\* No executor has more items in hand than it has threads.
ThreadsSuffice == \A e \in Executors : Cardinality(Busy(e)) <= Workers

\* A work item that no thread has in hand is in the queue of its executor.
InQueue(c) ==
    /\ pool[c] \in Executors
    /\ \E i \in 1..Len(queue[pool[c]]) : queue[pool[c]][i] = c

Placed ==
    \A c \in Calls :
        /\ item[c] \in {"queued", "cancelled"} => InQueue(c)
        /\ item[c] \in {"picked", "inStore"} => pool[c] \in Executors

\* A handler that waits, waits for an item in a queue or for a thread.
WaitersAreServed ==
    \A c \in Calls :
        handler[c] = "waiting" =>
            \/ InQueue(c)
            \/ \E e \in Executors : c \in Busy(e)

(* An executor whose items in hand become no more keeps to its threads. *)
LEMMA BusyShrinks ==
    ASSUME ThreadsSuffice, NEW e \in Executors, NEW B \in SUBSET Busy(e)
    PROVE  Cardinality(B) <= Workers
<1>1. IsFiniteSet(Busy(e))
  BY CallsAreFinite, FS_Subset DEF Busy
<1>2. IsFiniteSet(B) /\ Cardinality(B) <= Cardinality(Busy(e))
  BY <1>1, FS_Subset
<1>3. Cardinality(B) \in Nat /\ Cardinality(Busy(e)) \in Nat
  BY <1>1, <1>2, FS_CardinalityType
<1>4. QED
  BY <1>2, <1>3, LimitsArePositive DEF ThreadsSuffice

(* A set grows by one element at most when one is added. *)
LEMMA OneMore ==
    ASSUME NEW S, IsFiniteSet(S), NEW x, NEW B \in SUBSET (S \union {x})
    PROVE  /\ Cardinality(S) \in Nat /\ Cardinality(B) \in Nat
           /\ Cardinality(B) <= Cardinality(S) + 1
<1>1. /\ IsFiniteSet(S \union {x})
      /\ Cardinality(S \union {x}) = IF x \in S THEN Cardinality(S) ELSE Cardinality(S) + 1
  BY FS_AddElement
<1>2. IsFiniteSet(B) /\ Cardinality(B) <= Cardinality(S \union {x})
  BY <1>1, FS_Subset
<1>3. Cardinality(S) \in Nat /\ Cardinality(B) \in Nat
  BY <1>2, FS_CardinalityType
<1>4. QED
  BY <1>1, <1>2, <1>3

(* A thread takes an item only when it has none in hand. *)
LEMMA ThreadsStep ==
    ASSUME IInv, ThreadsSuffice, [Next]_vars
    PROVE  ThreadsSuffice'
<1> USE DEF IInv, TypeOK
<1> SUFFICES ASSUME NEW e \in Executors
             PROVE  Cardinality(Busy(e)') <= Workers
  BY DEF ThreadsSuffice
<1>1. ASSUME NEW f \in Executors, PicksUp(f)
      PROVE  Cardinality(Busy(e)') <= Workers
  <2>1. PICK c \in Calls : c = Head(queue[f]) /\ item[c] \in {"queued", "cancelled"}
    BY <1>1, HeadTaken
  <2>2. /\ item' = [item EXCEPT ![c] = IF item[c] = "queued" THEN "picked" ELSE "none"]
        /\ pool' = [pool EXCEPT ![c] = IF item[c] = "queued" THEN @ ELSE 0]
        /\ Cardinality(Busy(f)) < Workers
    BY <1>1, <2>1 DEF PicksUp
  <2>3. pool[c] = f
    <3>1. queue[f] \in Seq(Calls) /\ queue[f] # <<>>
      BY <1>1 DEF PicksUp
    <3>2. c = queue[f][1] /\ 1 \in 1..Len(queue[f])
      BY <2>1, <3>1, HeadTailProperties, LenProperties
    <3>3. QED
      BY <3>2 DEF QueueCoherent
  <2>4. Busy(e)' \subseteq Busy(e) \union {c} /\ (e # f => Busy(e)' \subseteq Busy(e))
    BY <2>2, <2>3 DEF Busy
  <2>5. CASE e # f
    BY <2>4, <2>5, BusyShrinks
  <2>6. CASE e = f
    <3>1. IsFiniteSet(Busy(e))
      BY CallsAreFinite, FS_Subset DEF Busy
    <3>2. /\ Cardinality(Busy(e)') <= Cardinality(Busy(e)) + 1
          /\ Cardinality(Busy(e)') \in Nat /\ Cardinality(Busy(e)) \in Nat
      BY <2>4, <3>1, OneMore
    <3>3. QED
      BY <2>2, <2>6, <3>2, LimitsArePositive
  <2>7. QED
    BY <2>5, <2>6
<1>2. ASSUME \A c \in Calls : item'[c] \in {"picked", "inStore"} =>
                item[c] \in {"picked", "inStore"} /\ pool'[c] = pool[c]
      PROVE  Cardinality(Busy(e)') <= Workers
  <2>1. Busy(e)' \subseteq Busy(e)
    BY <1>2 DEF Busy
  <2>2. QED
    BY <2>1, BusyShrinks
<1>3. ASSUME NEW c \in Calls, Begins(c) \/ Resumes(c) \/ Cancelled(c) \/ LookupTimesOut(c)
      PROVE  Cardinality(Busy(e)') <= Workers
  BY <1>2, <1>3 DEF Begins, Resumes, Cancelled, LookupTimesOut, ToThread
<1>4. ASSUME NEW c \in Calls, LooksUp(c) \/ EntersStore(c) \/ LeavesStore(c)
      PROVE  Cardinality(Busy(e)') <= Workers
  BY <1>2, <1>4 DEF LooksUp, EntersStore, LeavesStore
<1>5. ASSUME NEW c \in Calls, JobEntersStore(c) \/ JobLeavesStore(c)
                              \/ GatewayEndsJob(c) \/ GatewayEndsAsk(c)
      PROVE  Cardinality(Busy(e)') <= Workers
  BY <1>2, <1>5 DEF JobEntersStore, JobLeavesStore, GatewayEndsJob, GatewayEndsAsk
<1>6. CASE SessionOpens \/ UNCHANGED vars
  BY <1>2, <1>6 DEF SessionOpens, vars
<1>7. QED
  BY <1>1, <1>3, <1>4, <1>5, <1>6 DEF Next

(* An item that is put into a queue, or left there, stays where it can be  *)
(* found until a thread takes it.                                          *)
LEMMA PlacedStep ==
    ASSUME IInv, Placed, [Next]_vars
    PROVE  Placed'
<1> USE DEF IInv, TypeOK
<1> DEFINE Found(c) == /\ item[c] \in {"queued", "cancelled"} => InQueue(c)
                       /\ item[c] \in {"picked", "inStore"} => pool[c] \in Executors
<1> SUFFICES ASSUME NEW d \in Calls
             PROVE  Found(d)'
  BY DEF Placed
<1>0. Found(d)
  BY DEF Placed
<1>1. ASSUME UNCHANGED <<queue, pool>>,
             item'[d] \in {"queued", "cancelled"} => item[d] \in {"queued", "cancelled"},
             item'[d] \in {"picked", "inStore"} => item[d] # "none"
      PROVE  Found(d)'
  <2>1. item[d] # "none" => pool[d] \in Executors
    BY <1>0 DEF InQueue, ItemState
  <2>2. QED
    BY <1>0, <1>1, <2>1 DEF InQueue
<1>2. ASSUME NEW c \in Calls, item[c] = "none", ToThread(c)
      PROVE  Found(d)'
  <2>1. current \in Executors /\ queue[current] \in Seq(Calls)
    OBVIOUS
  <2>2. queue' = [queue EXCEPT ![current] = Append(queue[current], c)]
    BY <1>2 DEF ToThread
  <2>3. /\ Len(Append(queue[current], c)) = Len(queue[current]) + 1
        /\ \A i \in 1..Len(queue[current]) :
              Append(queue[current], c)[i] = queue[current][i]
        /\ Append(queue[current], c)[Len(queue[current]) + 1] = c
        /\ Len(queue[current]) \in Nat
    BY <2>1, AppendProperties
  <2>4. CASE d = c
    BY <1>2, <2>1, <2>2, <2>3, <2>4 DEF ToThread, InQueue
  <2>5. CASE d # c
    <3>1. item'[d] = item[d] /\ pool'[d] = pool[d]
      BY <1>2, <2>5 DEF ToThread
    <3>2. ASSUME InQueue(d)
          PROVE  InQueue(d)'
      <4>1. PICK i \in 1..Len(queue[pool[d]]) : queue[pool[d]][i] = d
        BY <3>2 DEF InQueue
      <4>2. i \in 1..Len(queue'[pool[d]]) /\ queue'[pool[d]][i] = d
        BY <2>1, <2>2, <2>3, <3>2, <4>1 DEF InQueue
      <4>3. QED
        BY <3>1, <3>2, <4>2 DEF InQueue
    <3>3. QED
      BY <1>0, <3>1, <3>2
  <2>6. QED
    BY <2>4, <2>5
<1>3. ASSUME NEW e \in Executors, PicksUp(e)
      PROVE  Found(d)'
  <2>1. PICK c \in Calls : c = Head(queue[e]) /\ item[c] \in {"queued", "cancelled"}
    BY <1>3, HeadTaken
  <2>2. /\ item' = [item EXCEPT ![c] = IF item[c] = "queued" THEN "picked" ELSE "none"]
        /\ pool' = [pool EXCEPT ![c] = IF item[c] = "queued" THEN @ ELSE 0]
        /\ queue' = [queue EXCEPT ![e] = Tail(queue[e])]
    BY <1>3, <2>1 DEF PicksUp
  <2>3. /\ queue[e] \in Seq(Calls) /\ queue[e] # <<>>
        /\ Len(Tail(queue[e])) = Len(queue[e]) - 1 /\ Len(queue[e]) \in Nat \ {0}
        /\ \A i \in 1..Len(Tail(queue[e])) : Tail(queue[e])[i] = queue[e][i + 1]
        /\ c = queue[e][1]
    BY <1>3, <2>1, HeadTailProperties, LenProperties DEF PicksUp
  <2>4. CASE d = c
    BY <1>0, <2>1, <2>2, <2>4 DEF InQueue
  <2>5. CASE d # c
    <3>1. item'[d] = item[d] /\ pool'[d] = pool[d]
      BY <2>2, <2>5
    <3>2. ASSUME InQueue(d)
          PROVE  InQueue(d)'
      <4>1. PICK i \in 1..Len(queue[pool[d]]) : queue[pool[d]][i] = d
        BY <3>2 DEF InQueue
      <4>2. \E k \in 1..Len(queue'[pool[d]]) : queue'[pool[d]][k] = d
        <5>1. CASE pool[d] = e
          <6>1. i # 1
            BY <2>3, <2>5, <4>1, <5>1
          <6>2. i - 1 \in 1..Len(Tail(queue[e])) /\ Tail(queue[e])[i - 1] = d
            BY <2>3, <4>1, <5>1, <6>1
          <6>3. QED
            BY <2>2, <5>1, <6>2
        <5>2. CASE pool[d] # e
          BY <2>2, <3>2, <4>1, <5>2 DEF InQueue
        <5>3. QED
          BY <5>1, <5>2
      <4>3. QED
        BY <3>1, <3>2, <4>2 DEF InQueue
    <3>3. QED
      BY <1>0, <3>1, <3>2
  <2>6. QED
    BY <2>4, <2>5
<1>4. ASSUME NEW c \in Calls, Begins(c) \/ Resumes(c)
      PROVE  Found(d)'
  <2>1. item[c] = "none"
    BY <1>4 DEF Begins, Resumes, CallCoherent
  <2>2. ToThread(c) \/ UNCHANGED <<item, pool, queue>>
    BY <1>4 DEF Begins, Resumes
  <2>3. QED
    BY <1>1, <1>2, <2>1, <2>2
<1>5. ASSUME NEW c \in Calls, Cancelled(c) \/ LookupTimesOut(c) \/ EntersStore(c)
      PROVE  Found(d)'
  BY <1>1, <1>5 DEF Cancelled, LookupTimesOut, EntersStore
<1>6. ASSUME NEW c \in Calls, LooksUp(c) \/ LeavesStore(c)
      PROVE  Found(d)'
  BY <1>0, <1>6 DEF LooksUp, LeavesStore, InQueue
<1>7. ASSUME NEW c \in Calls, JobEntersStore(c) \/ JobLeavesStore(c)
                              \/ GatewayEndsJob(c) \/ GatewayEndsAsk(c)
      PROVE  Found(d)'
  BY <1>1, <1>7 DEF JobEntersStore, JobLeavesStore, GatewayEndsJob, GatewayEndsAsk
<1>8. CASE SessionOpens \/ UNCHANGED vars
  BY <1>1, <1>8 DEF SessionOpens, vars
<1>9. QED
  BY <1>2, <1>3, <1>4, <1>5, <1>6, <1>7, <1>8 DEF Next

(* No executor ever runs more store calls at once than it has threads      *)
(* (executor_workers), however sessions replace it and handlers are        *)
(* cancelled.                                                              *)
THEOREM ThreadsAreBounded == Spec => []ThreadsSuffice
<1>1. Init => ThreadsSuffice
  <2> SUFFICES ASSUME Init, NEW e \in Executors
               PROVE  Cardinality(Busy(e)) <= Workers
    BY DEF ThreadsSuffice
  <2>1. Busy(e) = {}
    BY DEF Init, Busy
  <2>2. QED
    BY <2>1, FS_EmptySet, LimitsArePositive
<1>2. IInv /\ ThreadsSuffice /\ [Next]_vars => ThreadsSuffice'
  BY ThreadsStep
<1>3. QED
  BY <1>1, <1>2, ExecutorInvariant, PTL DEF Spec

(* No store call is lost on the way: a handler that waits has its work     *)
(* item in a queue or in the hands of a thread, also when a session has    *)
(* replaced the executor meanwhile (server.py:280-290).                    *)
THEOREM WaitersHaveAPlace == Spec => []WaitersAreServed
<1>1. Init => Placed
  BY DEF Init, Placed
<1>2. IInv /\ Placed /\ [Next]_vars => Placed'
  BY PlacedStep
<1>3. IInv /\ Placed => WaitersAreServed
  <2> SUFFICES ASSUME IInv, Placed, NEW c \in Calls, handler[c] = "waiting"
               PROVE  InQueue(c) \/ \E e \in Executors : c \in Busy(e)
    BY DEF WaitersAreServed
  <2>1. item[c] \in {"queued", "picked", "inStore"}
    BY DEF IInv, CallCoherent
  <2>2. QED
    BY <2>1 DEF Placed, Busy
<1>4. QED
  BY <1>1, <1>2, <1>3, ExecutorInvariant, PTL DEF Spec
=============================================================================
