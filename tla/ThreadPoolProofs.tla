-------------------------- MODULE ThreadPoolProofs ---------------------------
(***************************************************************************)
(* Proofs about the thread pool for every number of workers and tasks and  *)
(* every capacity: no accepted task is lost or held twice, none is called  *)
(* again but by a worker that was stopped, and the work outstanding is     *)
(* bounded.                                                                *)
(***************************************************************************)
EXTENDS ThreadPool, FiniteSetTheorems, SequenceTheorems, TLAPS

-----------------------------------------------------------------------------
(* The inductive invariant                                                 *)

LEMMA InitPool == Init => PoolInv
<1> SUFFICES ASSUME Init PROVE PoolInv
  OBVIOUS
<1>1. TypeOK
  BY DEF Init, TypeOK, WorkerLabels, OwnerLabels
<1>2. QueueInv /\ HandlerInv /\ NothingLost /\ CalledAgainOnlyByStop
  BY CapacityAssumption
     DEF Init, QueueInv, HandlerInv, NothingLost, CalledAgainOnlyByStop
<1> QED BY <1>1, <1>2 DEF Init, PoolInv

\* A step that leaves the queue, the handlers and the histories alone and
\* moves no worker that holds a task, nor one that is done, preserves the
\* invariant: what a worker calls is what it popped, unless it was stopped.
LEMMA BookkeepingStep ==
  ASSUME PoolInv, TypeOK',
         UNCHANGED <<queue, handler, accepted, runs>>,
         refused' = refused,
         \A w \in Workers : wpc[w] \in {"release", "call"} => wpc'[w] = "call" \/ wpc'[w] = wpc[w],
         \A w \in Workers : wpc'[w] = "release" => wpc[w] = "release",
         \A w \in Workers : wpc'[w] = "call" => wpc[w] \in {"release", "call"} \/ ~ running[w],
         \A w \in Workers : running'[w] => running[w],
         \A w \in Workers :
           wpc[w] \in {"loop", "exited"} /\ ~ running[w] => wpc'[w] \in {"loop", "exited"}
  PROVE  PoolInv'
<1>1. QueueInv'
  BY DEF PoolInv, QueueInv
<1>2. HandlerInv'
  BY DEF PoolInv, HandlerInv, Queued
<1>3. NothingLost'
  <2> SUFFICES ASSUME NEW t \in accepted, ~ Queued(t), ~ (runs[t] > 0)
               PROVE  \E w \in Workers : Holds(w, t)'
    BY DEF NothingLost, Queued
  <2>1. PICK w \in Workers : Holds(w, t)
    BY DEF PoolInv, NothingLost
  <2> QED BY <2>1 DEF Holds
<1>4. CalledAgainOnlyByStop'
  BY DEF PoolInv, CalledAgainOnlyByStop
<1> QED BY <1>1, <1>2, <1>3, <1>4 DEF PoolInv

\* An accepted task is new, so it joins the queue alone.
LEMMA PostStep ==
  ASSUME PoolInv, NEW t \in Tasks, PostAccepted(t)
  PROVE  PoolInv'
<1>1. /\ TypeOK /\ QueueInv /\ HandlerInv /\ NothingLost
      /\ t \notin accepted /\ t \notin refused
      /\ queue' = Append(queue, t) /\ accepted' = accepted \cup {t}
      /\ UNCHANGED <<taken, handler, holds, wpc, running, refused, runs>>
      /\ unpublished' = t /\ opc' = "publish"
      /\ Len(queue) # Size
  BY DEF PostAccepted, PoolInv, NextCellBusy
<1>2. /\ queue \in Seq(Tasks) /\ queue' \in Seq(Tasks)
      /\ Len(queue) \in Nat /\ Len(queue') = Len(queue) + 1
      /\ queue'[Len(queue) + 1] = t
      /\ \A i \in 1..Len(queue) : queue'[i] = queue[i]
  BY <1>1, AppendProperties, LenProperties DEF TypeOK
<1>3. TypeOK'
  BY <1>1, <1>2 DEF TypeOK, OwnerLabels
<1>4. runs[t] = 0
  BY <1>1 DEF PoolInv, TypeOK
<1>5. \A i \in 1..Len(queue) : queue[i] # t
  BY <1>1 DEF QueueInv
<1>6. QueueInv'
  BY <1>1, <1>2, <1>4, <1>5, CapacityAssumption DEF QueueInv
<1>7. \A u \in Tasks : Queued(u)' <=> Queued(u) \/ u = t
  BY <1>2 DEF Queued
<1>8. HandlerInv'
  BY <1>1, <1>7, NoTaskAssumption DEF HandlerInv, TypeOK
<1>9. NothingLost'
  BY <1>1, <1>7 DEF NothingLost, TypeOK, Holds
<1>10. CalledAgainOnlyByStop'
  BY <1>1 DEF PoolInv, CalledAgainOnlyByStop
<1> QED BY <1>1, <1>3, <1>6, <1>8, <1>9, <1>10 DEF PoolInv

\* The popped task leaves the queue, where it was once, for a worker whose
\* previous handler has run.
LEMMA PopStep ==
  ASSUME PoolInv, NEW w \in Workers, PopSucceeds(w)
  PROVE  PoolInv'
<1> DEFINE h == Head(queue)
           QueuedNext(u) == \E i \in 1..Len(queue') : queue'[i] = u
<1>1. /\ TypeOK /\ QueueInv /\ HandlerInv /\ NothingLost
      /\ wpc[w] = "pop" /\ queue # <<>>
      /\ handler' = [handler EXCEPT ![w] = h]
      /\ holds' = [holds EXCEPT ![w] = taken]
      /\ queue' = Tail(queue) /\ taken' = taken + 1
      /\ wpc' = [wpc EXCEPT ![w] = "release"]
      /\ UNCHANGED <<unpublished, running, opc, accepted, refused, runs>>
  BY DEF PopSucceeds, PoolInv, CanPop, MoveTo, ownerVars
<1>2. /\ queue \in Seq(Tasks) /\ Len(queue) \in Nat \ {0}
      /\ h = queue[1] /\ h \in Tasks
      /\ queue' \in Seq(Tasks) /\ Len(queue') = Len(queue) - 1
      /\ \A i \in 1..(Len(queue) - 1) : queue'[i] = queue[i + 1]
  BY <1>1, EmptySeq, HeadTailProperties, LenProperties DEF TypeOK
<1>3. TypeOK'
  BY <1>1, <1>2 DEF TypeOK, WorkerLabels
<1>4. h \in accepted /\ runs[h] = 0 /\ h # None
  BY <1>1, <1>2, NoTaskAssumption DEF QueueInv
<1>5. \A u \in Tasks : QueuedNext(u) <=> Queued(u) /\ u # h
  <2>1. \A i \in 1..Len(queue) : queue[i] = h => i = 1
    BY <1>1, <1>2 DEF QueueInv
  <2> TAKE u \in Tasks
  <2>2. ASSUME QueuedNext(u) PROVE Queued(u) /\ u # h
    <3>1. PICK i \in 1..(Len(queue) - 1) : queue[i + 1] = u
      BY <2>2, <1>2
    <3> QED BY <3>1, <2>1, <1>2 DEF Queued
  <2>3. ASSUME Queued(u), u # h PROVE QueuedNext(u)
    <3>1. PICK i \in 1..Len(queue) : queue[i] = u
      BY <2>3 DEF Queued
    <3>2. i - 1 \in 1..(Len(queue) - 1) /\ queue'[i - 1] = u
      BY <3>1, <2>3, <1>2
    <3> QED BY <3>2, <1>2
  <2> QED BY <2>2, <2>3
<1> HIDE DEF QueuedNext
<1>6. QueueInv'
  BY <1>1, <1>2, CapacityAssumption DEF QueueInv
<1>7. \A v \in Workers : v # w => handler'[v] = handler[v] /\ wpc'[v] = wpc[v]
  BY <1>1 DEF TypeOK
<1>8. handler'[w] = h /\ wpc'[w] = "release"
  BY <1>1 DEF TypeOK
<1>9. Queued(h)
  BY <1>2 DEF Queued
<1>10. \A v \in Workers : handler[v] # h
  BY <1>1, <1>4, <1>9 DEF HandlerInv
<1>11. HandlerInv'
  <2> SUFFICES ASSUME NEW v \in Workers
               PROVE  /\ wpc'[v] = "release" => handler'[v] # None /\ runs[handler'[v]] = 0
                      /\ handler'[v] # None => handler'[v] \in accepted
                      /\ handler'[v] # None /\ runs[handler'[v]] = 0 =>
                           /\ wpc'[v] \in {"release", "call"}
                           /\ ~ QueuedNext(handler'[v])
                      /\ handler'[v] # None =>
                           \A x \in Workers : handler'[x] = handler'[v] => x = v
                      /\ wpc'[v] = "call" /\ handler'[v] # None /\ runs[handler'[v]] > 0 =>
                           ~ running[v]
    BY <1>1 DEF HandlerInv, Queued, QueuedNext
  <2>1. CASE v = w
    BY <2>1, <1>4, <1>5, <1>7, <1>8, <1>10, <1>2
  <2>2. CASE v # w
    <3>1. handler[v] # None => handler[v] \in Tasks
      BY <1>1 DEF TypeOK
    <3> QED BY <2>2, <3>1, <1>1, <1>5, <1>7, <1>8, <1>10 DEF HandlerInv
  <2> QED BY <2>1, <2>2
<1>12. NothingLost'
  <2> SUFFICES ASSUME NEW t \in accepted, ~ QueuedNext(t), ~ (runs[t] > 0)
               PROVE  \E v \in Workers : Holds(v, t)'
    BY <1>1 DEF NothingLost, Queued, QueuedNext
  <2>0. t \in Tasks
    BY <1>1 DEF TypeOK
  <2>1. CASE t = h
    BY <2>1, <1>8 DEF Holds
  <2>2. CASE t # h
    <3>1. PICK v \in Workers : Holds(v, t)
      BY <2>0, <2>2, <1>1, <1>5 DEF NothingLost
    <3>2. v # w
      BY <3>1, <1>1 DEF Holds
    <3> QED BY <3>1, <3>2, <1>7 DEF Holds
  <2> QED BY <2>1, <2>2
<1>13. CalledAgainOnlyByStop'
  <2> SUFFICES ASSUME NEW t \in Tasks, runs[t] > 1
               PROVE  /\ runs[t] = 2
                      /\ \E v \in Workers :
                           handler'[v] = t /\ ~ running[v] /\ wpc'[v] \in {"loop", "exited"}
    BY <1>1 DEF CalledAgainOnlyByStop, TypeOK
  <2>1. runs[t] \in Nat /\ ~ (runs[t] <= 1)
    BY <1>1 DEF TypeOK
  <2>2. PICK v \in Workers :
          runs[t] = 2 /\ handler[v] = t /\ ~ running[v] /\ wpc[v] \in {"loop", "exited"}
    BY <2>1 DEF PoolInv, CalledAgainOnlyByStop
  <2>3. v # w
    BY <2>2, <1>1
  <2> QED BY <2>2, <2>3, <1>7
<1> QED BY <1>1, <1>3, <1>6, <1>11, <1>12, <1>13 DEF PoolInv

\* The called task was in this worker's hands only: it is its first call, or
\* the worker was stopped and exits after its second.
LEMMA CallStep ==
  ASSUME PoolInv, NEW w \in Workers, Call(w)
  PROVE  PoolInv'
<1> DEFINE t == handler[w]
<1>1. /\ TypeOK /\ QueueInv /\ HandlerInv /\ NothingLost /\ CalledAgainOnlyByStop
      /\ wpc[w] = "call" /\ wpc' = [wpc EXCEPT ![w] = "loop"]
      /\ runs' = IF t = None THEN runs ELSE [runs EXCEPT ![t] = @ + 1]
      /\ UNCHANGED <<queue, unpublished, taken, handler, holds, running, opc,
                     accepted, refused>>
  BY DEF Call, PoolInv, MoveTo, queueVars, ownerVars
<1>2. t # None => t \in Tasks /\ t \in accepted /\ runs'[t] > 0
  BY <1>1 DEF TypeOK, HandlerInv
<1>3. \A u \in Tasks : u # t => runs'[u] = runs[u]
  BY <1>1 DEF TypeOK
<1>4. \A u \in Tasks : runs'[u] = 0 => runs[u] = 0 /\ u # t
  BY <1>2, <1>3, NoTaskAssumption
<1>5. TypeOK'
  <2>1. runs' \in [Tasks -> Nat]
    BY <1>1, <1>2 DEF TypeOK
  <2> QED BY <2>1, <1>1 DEF TypeOK, WorkerLabels
<1>6. ~ Queued(t) \/ runs[t] > 0 \/ t = None
  BY <1>1, <1>2 DEF HandlerInv, TypeOK
<1>7. \A i \in 1..Len(queue) : queue[i] \in Tasks /\ queue[i] # t
  <2> TAKE i \in 1..Len(queue)
  <2>1. queue[i] \in Tasks
    BY <1>1 DEF TypeOK
  <2>2. Queued(queue[i]) /\ runs[queue[i]] = 0
    BY <1>1 DEF Queued, QueueInv
  <2> QED BY <2>1, <2>2, <1>6, NoTaskAssumption
<1>8. QueueInv'
  BY <1>1, <1>3, <1>7 DEF QueueInv
<1>9. \A v \in Workers : v # w => wpc'[v] = wpc[v]
  BY <1>1 DEF TypeOK
<1>10. HandlerInv'
  <2> SUFFICES ASSUME NEW v \in Workers
               PROVE  /\ wpc'[v] = "release" => handler[v] # None /\ runs'[handler[v]] = 0
                      /\ handler[v] # None /\ runs'[handler[v]] = 0 =>
                           /\ wpc'[v] \in {"release", "call"}
                           /\ runs[handler[v]] = 0
                      /\ wpc'[v] = "call" /\ handler[v] # None /\ runs'[handler[v]] > 0 =>
                           ~ running[v]
    BY <1>1 DEF HandlerInv, Queued
  <2>1. CASE v = w
    BY <2>1, <1>1, <1>2 DEF TypeOK
  <2>2. CASE v # w
    <3>1. handler[v] # None => handler[v] \in Tasks
      BY <1>1 DEF TypeOK
    <3>2. handler[v] # None => handler[v] # t
      BY <2>2, <1>1 DEF HandlerInv
    <3> QED BY <2>2, <3>1, <3>2, <1>1, <1>3, <1>4, <1>9 DEF HandlerInv
  <2> QED BY <2>1, <2>2
<1>11. NothingLost'
  <2> SUFFICES ASSUME NEW u \in accepted, ~ Queued(u), ~ (runs'[u] > 0)
               PROVE  \E v \in Workers : Holds(v, u)'
    BY <1>1 DEF NothingLost, Queued
  <2>1. u \in Tasks /\ runs'[u] = 0 /\ runs[u] = 0 /\ u # t
    BY <1>1, <1>4, <1>5 DEF TypeOK
  <2>2. PICK v \in Workers : Holds(v, u)
    BY <2>1, <1>1 DEF NothingLost
  <2> QED BY <2>1, <2>2, <1>1, <1>9 DEF Holds
<1>12. \A u \in Tasks : runs'[u] > 0 => u \in accepted'
  BY <1>1, <1>2, <1>3 DEF PoolInv
<1>13. CalledAgainOnlyByStop'
  <2> SUFFICES ASSUME NEW u \in Tasks, ~ (runs'[u] <= 1)
               PROVE  /\ runs'[u] = 2
                      /\ \E v \in Workers :
                           handler[v] = u /\ ~ running[v] /\ wpc'[v] \in {"loop", "exited"}
    BY <1>1 DEF CalledAgainOnlyByStop
  <2>1. CASE u = t
    <3>1. u # None /\ runs[u] \in Nat /\ runs'[u] = runs[u] + 1
      BY <2>1, <1>1, NoTaskAssumption DEF TypeOK
    <3>2. ~ running[w]
      BY <2>1, <3>1, <1>1 DEF HandlerInv
    <3>3. runs[u] <= 1
      <4> SUFFICES ASSUME ~ (runs[u] <= 1) PROVE FALSE
        OBVIOUS
      <4>1. PICK v \in Workers : handler[v] = u /\ wpc[v] \in {"loop", "exited"}
        BY <1>1 DEF CalledAgainOnlyByStop
      <4>2. v = w
        BY <2>1, <3>1, <4>1, <1>1 DEF HandlerInv
      <4> QED BY <4>1, <4>2, <1>1
    <3> QED BY <2>1, <3>1, <3>2, <3>3, <1>1 DEF TypeOK
  <2>2. CASE u # t
    <3>1. PICK v \in Workers :
            runs[u] = 2 /\ handler[v] = u /\ ~ running[v] /\ wpc[v] \in {"loop", "exited"}
      BY <2>2, <1>1, <1>3 DEF CalledAgainOnlyByStop
    <3> QED BY <2>2, <3>1, <1>3, <1>9
  <2> QED BY <2>1, <2>2
<1> QED BY <1>1, <1>5, <1>8, <1>10, <1>11, <1>12, <1>13 DEF PoolInv

\* A refused task was never accepted.
LEMMA RefuseStep ==
  ASSUME PoolInv, NEW t \in Tasks, PostRefused(t)
  PROVE  PoolInv'
BY DEF PostRefused, PoolInv, TypeOK, QueueInv, HandlerInv, NothingLost, Queued,
       Holds, CalledAgainOnlyByStop, queueVars

\* The owner's other steps touch no task.
LEMMA OwnerStep ==
  ASSUME PoolInv, Destroy \/ OwnerContinues
  PROVE  PoolInv'
<1>1. TypeOK
  BY DEF PoolInv
<1> USE <1>1 DEF TypeOK, OwnerLabels, WorkerLabels, queueVars
<1>2. CASE Destroy
  <2>1. TypeOK'
    BY <1>2 DEF Destroy
  <2> QED BY <1>2, <2>1, BookkeepingStep DEF Destroy
<1>3. CASE Publish
  <2>1. TypeOK'
    BY <1>3 DEF Publish
  <2> QED BY <1>3, <2>1, BookkeepingStep DEF Publish
<1>4. CASE NotifyOne
  <2>1. wpc' = wpc \/ \E w \in Workers : wpc[w] = "waiting" /\ wpc' = [wpc EXCEPT ![w] = "pop"]
    BY <1>4 DEF NotifyOne, Waiting, MoveTo
  <2>2. TypeOK'
    BY <1>4, <2>1 DEF NotifyOne
  <2> QED BY <1>4, <2>1, <2>2, BookkeepingStep DEF NotifyOne
<1>5. CASE StopOne
  <2>1. TypeOK'
    BY <1>5 DEF StopOne
  <2> QED BY <1>5, <2>1, BookkeepingStep DEF StopOne
<1>6. CASE NotifyAll
  <2>1. TypeOK'
    BY <1>6 DEF NotifyAll, Waiting
  <2> QED BY <1>6, <2>1, BookkeepingStep DEF NotifyAll, Waiting
<1>7. CASE JoinAll
  <2>1. TypeOK'
    BY <1>7 DEF JoinAll
  <2> QED BY <1>7, <2>1, BookkeepingStep DEF JoinAll
<1> QED BY <1>2, <1>3, <1>4, <1>5, <1>6, <1>7 DEF OwnerContinues

\* A worker's steps between its pop and its call touch no task.
LEMMA WorkerMoves ==
  ASSUME PoolInv, NEW w \in Workers,
         \/ LoopHead(w) \/ PopFails(w) \/ Release(w) \/ ReadFlag(w)
         \/ Block(w) \/ SpuriousWakeup(w)
  PROVE  PoolInv'
<1>1. TypeOK
  BY DEF PoolInv
<1>2. PICK l \in WorkerLabels \ {"release"} :
        /\ wpc' = [wpc EXCEPT ![w] = l]
        /\ wpc[w] # "call" /\ (wpc[w] = "release" => l = "call")
        /\ l = "call" => wpc[w] = "release" \/ ~ running[w]
        /\ wpc[w] \in {"loop", "exited"} /\ ~ running[w] => l = "exited"
        /\ UNCHANGED <<queueVars, handler, holds, running, ownerVars, runs>>
  BY DEF LoopHead, PopFails, Release, ReadFlag, Block, SpuriousWakeup, MoveTo,
         WorkerLabels
<1>3. TypeOK'
  BY <1>1, <1>2 DEF TypeOK, queueVars, ownerVars
<1>4. \A v \in Workers : wpc'[v] = (IF v = w THEN l ELSE wpc[v])
  BY <1>1, <1>2 DEF TypeOK
<1> QED BY <1>2, <1>3, <1>4, BookkeepingStep DEF queueVars, ownerVars

LEMMA PoolStep == PoolInv /\ [Next]_vars => PoolInv'
<1> SUFFICES ASSUME PoolInv, [Next]_vars PROVE PoolInv'
  OBVIOUS
<1>1. CASE UNCHANGED vars
  BY <1>1 DEF vars, PoolInv, TypeOK, QueueInv, HandlerInv, NothingLost, Queued,
              Holds, CalledAgainOnlyByStop
<1>2. CASE \E t \in Tasks : PostAccepted(t) \/ PostRefused(t)
  BY <1>2, PostStep, RefuseStep
<1>3. CASE Destroy \/ OwnerContinues
  BY <1>3, OwnerStep
<1>4. CASE \E w \in Workers : Worker(w) \/ SpuriousWakeup(w)
  BY <1>4, PopStep, CallStep, WorkerMoves DEF Worker
<1> QED BY <1>1, <1>2, <1>3, <1>4 DEF Next

-----------------------------------------------------------------------------
(* What the invariant gives                                                *)

\* Every task the pool holds is held exactly once, in every reachable state.
THEOREM PoolIsConsistent == Spec => []PoolInv
BY InitPool, PoolStep, PTL DEF Spec

\* tryPost's true is kept: no accepted task disappears before it is called.
THEOREM AcceptedNotLost == Spec => []NothingLost
<1>1. PoolInv => NothingLost
  BY DEF PoolInv
<1> QED BY <1>1, PoolIsConsistent, PTL

\* No task is called twice, by two workers or by one, unless its worker was
\* stopped while it was idle: the stale handler of the last iteration.
THEOREM OnlyStopCallsAgain == Spec => []CalledAgainOnlyByStop
<1>1. PoolInv => CalledAgainOnlyByStop
  BY DEF PoolInv
<1> QED BY <1>1, PoolIsConsistent, PTL

\* The tasks accepted and not yet run fit in the ring and the workers' hands,
\* however fast the owner posts.
THEOREM WorkIsBounded == Spec => []OutstandingBounded
<1>1. PoolInv => OutstandingBounded
  <2> SUFFICES ASSUME PoolInv PROVE OutstandingBounded
    OBVIOUS
  <2> DEFINE n == Len(queue)
             inRing == {queue[i] : i \in 1..n}
             inHands == {handler[w] : w \in Busy}
  <2>1. n \in Nat /\ n <= Size /\ Size \in Nat
    BY CapacityAssumption, LenProperties DEF PoolInv, TypeOK, QueueInv
  <2>2. Unfinished \subseteq inRing \cup inHands
    <3> SUFFICES ASSUME NEW u \in accepted, runs[u] = 0
                 PROVE  u \in inRing \cup inHands
      BY DEF Unfinished
    <3>1. Queued(u) \/ \E w \in Busy : handler[w] = u
      BY DEF PoolInv, TypeOK, NothingLost, Holds, Busy
    <3> QED BY <3>1 DEF Queued
  <2> HIDE DEF n
  <2>3. IsFiniteSet(1..n) /\ Cardinality(1..n) = n
    <3>1. 1 \in Int /\ n \in Int
      BY <2>1
    <3>2. IsFiniteSet(1..n) /\ Cardinality(1..n) = IF 1 > n THEN 0 ELSE n - 1 + 1
      BY <3>1, FS_Interval
    <3> QED BY <3>2, <2>1
  <2>4. IsFiniteSet(inRing) /\ Cardinality(inRing) <= n
    <3> DEFINE at == [i \in 1..n |-> queue[i]]
    <3>1. at \in Surjection(1..n, inRing)
      BY DEF Surjection
    <3> QED BY <2>3, <3>1, FS_Surjection
  <2>5. IsFiniteSet(Busy) /\ Cardinality(Busy) \in Nat
    <3>1. Busy \subseteq Workers
      BY DEF Busy
    <3> QED BY <3>1, WorkersAssumption, FS_Subset, FS_CardinalityType
  <2>6. IsFiniteSet(inHands) /\ Cardinality(inHands) <= Cardinality(Busy)
    <3> DEFINE of == [w \in Busy |-> handler[w]]
    <3>1. of \in Surjection(Busy, inHands)
      BY DEF Surjection
    <3> QED BY <3>1, <2>5, FS_Surjection
  <2>7. /\ IsFiniteSet(inRing \cup inHands)
        /\ Cardinality(inRing \cup inHands) <= n + Cardinality(Busy)
    <3>1. /\ IsFiniteSet(inRing \cup inHands)
          /\ Cardinality(inRing \cup inHands) =
               Cardinality(inRing) + Cardinality(inHands) - Cardinality(inRing \cap inHands)
      BY <2>4, <2>6, FS_Union
    <3>2. IsFiniteSet(inRing \cap inHands)
      BY <2>4, FS_Subset
    <3>3. /\ Cardinality(inRing) \in Nat /\ Cardinality(inHands) \in Nat
          /\ Cardinality(inRing \cap inHands) \in Nat
          /\ Cardinality(Busy) \in Nat
      BY <2>4, <2>6, <3>2, <2>5, FS_CardinalityType
    <3> HIDE DEF inRing, inHands
    <3> QED BY <3>1, <3>3, <2>1, <2>4, <2>6
  <2>8. IsFiniteSet(Unfinished) /\ Cardinality(Unfinished) <= Cardinality(inRing \cup inHands)
    BY <2>2, <2>7, FS_Subset
  <2>9. /\ Cardinality(Unfinished) \in Nat
        /\ Cardinality(inRing \cup inHands) \in Nat
        /\ Cardinality(Busy) \in Nat
    BY <2>7, <2>8, <2>5, FS_CardinalityType
  <2> HIDE DEF inRing, inHands
  <2> QED BY <2>1, <2>7, <2>8, <2>9 DEF OutstandingBounded
<1> QED BY <1>1, PoolIsConsistent, PTL

-----------------------------------------------------------------------------
(* The queue                                                               *)

LEMMA StepUsesFifo ==
  ASSUME PoolInv, [Next]_vars
  PROVE  [Ring!Next]_(Ring!vars)
<1>1. TypeOK /\ queue \in Seq(Tasks) /\ Len(queue) \in Nat /\ Len(queue) <= Size
  BY DEF PoolInv, TypeOK, QueueInv
<1>2. ASSUME NEW t \in Tasks, PostAccepted(t) PROVE Ring!Enqueue(t)
  BY <1>1, <1>2, CapacityAssumption DEF PostAccepted, NextCellBusy, Ring!Enqueue
<1>3. ASSUME NEW w \in Workers, PopSucceeds(w) PROVE Ring!Dequeue(w)
  BY <1>3 DEF PopSucceeds, CanPop, Ring!Dequeue
<1>4. ASSUME NEW t \in Tasks, PostRefused(t) PROVE UNCHANGED <<queue, handler>>
  BY <1>4 DEF PostRefused, queueVars
<1>5. ASSUME Destroy \/ OwnerContinues PROVE UNCHANGED <<queue, handler>>
  BY <1>5 DEF Destroy, OwnerContinues, Publish, NotifyOne, StopOne, NotifyAll, JoinAll, queueVars
<1>6. ASSUME NEW w \in Workers, Worker(w) \/ SpuriousWakeup(w), ~ PopSucceeds(w)
      PROVE  UNCHANGED <<queue, handler>>
  BY <1>6 DEF Worker, SpuriousWakeup, LoopHead, PopFails, Release, ReadFlag, Block, Call, queueVars
<1>7. UNCHANGED vars => UNCHANGED <<queue, handler>>
  BY DEF vars
<1>8. UNCHANGED <<queue, handler>> => UNCHANGED Ring!vars
  BY DEF Ring!vars
<1> QED BY <1>2, <1>3, <1>4, <1>5, <1>6, <1>7, <1>8 DEF Next, Ring!Next

\* What the pool asks of its queue is what MPMCBoundedQueue is proved to do: the
\* abstract FIFO is the one LimbQueue implements.
THEOREM PoolUsesFifo == Spec => UsesFifo
<1>1. Init => Ring!Init
  BY DEF Init, Ring!Init
<1>2. PoolInv /\ [Next]_vars => [Ring!Next]_(Ring!vars)
  BY StepUsesFifo
<1> QED BY <1>1, <1>2, PoolIsConsistent, PTL DEF Spec, UsesFifo, Ring!Spec
===============================================================================
