----------------------------- MODULE ThreadPool ------------------------------
(***************************************************************************)
(* ThreadPoolImpl and Worker (include/thread-pool/thread-pool.hpp and      *)
(* worker.hpp): an owner thread posts tasks to a shared MPMCBoundedQueue   *)
(* and later destroys the pool; the workers pop tasks and call them.       *)
(*                                                                         *)
(* The queue is taken at the level LimbQueue justifies: a push or a pop    *)
(* claims its position in one step and hands its cell on in a later one.   *)
(* Workers wait on one condition variable, each with a mutex of its own,   *)
(* so nothing orders a push and its notify_one with a worker's last look   *)
(* at the queue.                                                           *)
(***************************************************************************)
EXTENDS Integers, Sequences, FiniteSets

CONSTANTS
  Workers,   \* m_workers
  Tasks,     \* the handlers posted; each is posted at most once
  Size,      \* capacity of ring_buffer
  None

ASSUME WorkersAssumption == IsFiniteSet(Workers) /\ Workers # {}
ASSUME CapacityAssumption == Size \in Nat /\ Size >= 2
ASSUME NoTaskAssumption == None \notin Tasks

VARIABLES
  queue,        \* ring_buffer: claimed by push and not yet by pop, in order
  unpublished,  \* the task whose push has not yet published its cell
  taken,        \* how many positions pop has claimed
  handler,      \* handler[w]: the worker's local variable; it is never cleared
  holds,        \* holds[w]: the position worker w popped last
  wpc,          \* where each worker is in threadFunc
  running,      \* running[w]: m_running_flag
  opc,          \* where the owner is in tryPost or in the destructor
  accepted,     \* history: the tasks for which tryPost returned true
  refused,      \* history: the tasks for which it returned false
  runs          \* history: how many times the handler of a task was called

vars == <<queue, unpublished, taken, handler, holds, wpc, running, opc,
          accepted, refused, runs>>

ownerVars == <<opc, accepted, refused>>
queueVars == <<queue, unpublished, taken>>

Init ==
  /\ queue = <<>>
  /\ unpublished = None
  /\ taken = 0
  /\ handler = [w \in Workers |-> None]
  /\ holds = [w \in Workers |-> 0]
  /\ wpc = [w \in Workers |-> "loop"]
  /\ running = [w \in Workers |-> TRUE]
  /\ opc = "ready"
  /\ accepted = {}
  /\ refused = {}
  /\ runs = [t \in Tasks |-> 0]

MoveTo(w, label) == wpc' = [wpc EXCEPT ![w] = label]

-----------------------------------------------------------------------------
(* tryPost, called by the owner                                            *)

\* The cell of the next push still belongs to the position Size earlier.
\* Mutant: the ring takes one value too many.
NextCellBusy_OffByOne == Len(queue) = Size + 1

NextCellBusy ==
  \/ Len(queue) = Size
  \/ \E w \in Workers :
       wpc[w] = "release" /\ holds[w] = taken + Len(queue) - Size

PostAccepted(t) ==
  /\ opc = "ready"
  /\ t \notin accepted \cup refused
  /\ ~ NextCellBusy
  /\ queue' = Append(queue, t)
  /\ unpublished' = t
  /\ accepted' = accepted \cup {t}
  /\ opc' = "publish"
  /\ UNCHANGED <<taken, handler, holds, wpc, running, refused, runs>>

PostRefused(t) ==
  /\ opc = "ready"
  /\ t \notin accepted \cup refused
  /\ NextCellBusy
  /\ refused' = refused \cup {t}
  /\ UNCHANGED <<queueVars, handler, holds, wpc, running, opc, accepted, runs>>

Publish ==
  /\ opc = "publish"
  /\ unpublished' = None
  /\ opc' = "notify"
  /\ UNCHANGED <<queue, taken, handler, holds, wpc, running, accepted, refused,
                 runs>>

\* notify_one reaches a thread that is already waiting, and nobody else.
Waiting == {w \in Workers : wpc[w] = "waiting"}

NotifyOne ==
  /\ opc = "notify"
  /\ opc' = "ready"
  /\ IF Waiting = {}
     THEN UNCHANGED wpc
     ELSE \E w \in Waiting : MoveTo(w, "pop")
  /\ UNCHANGED <<queueVars, handler, holds, running, accepted, refused, runs>>

-----------------------------------------------------------------------------
(* ~ThreadPoolImpl, called by the owner                                    *)

Destroy ==
  /\ opc = "ready"
  /\ opc' = "stopping"
  /\ UNCHANGED <<queueVars, handler, holds, wpc, running, accepted, refused,
                 runs>>

StopOne ==
  /\ opc = "stopping"
  /\ \E w \in Workers : running[w] /\ running' = [running EXCEPT ![w] = FALSE]
  /\ opc' = IF \E w \in Workers : running'[w] THEN "stopping" ELSE "notifyAll"
  /\ UNCHANGED <<queueVars, handler, holds, wpc, accepted, refused, runs>>

\* Mutant: one worker is notified instead of all.
NotifyAll_One ==
  /\ opc = "notifyAll"
  /\ opc' = "joining"
  /\ IF Waiting = {}
     THEN UNCHANGED wpc
     ELSE \E w \in Waiting : MoveTo(w, "pop")
  /\ UNCHANGED <<queueVars, handler, holds, running, accepted, refused, runs>>

NotifyAll ==
  /\ opc = "notifyAll"
  /\ opc' = "joining"
  /\ wpc' = [w \in Workers |-> IF w \in Waiting THEN "pop" ELSE wpc[w]]
  /\ UNCHANGED <<queueVars, handler, holds, running, accepted, refused, runs>>

JoinAll ==
  /\ opc = "joining"
  /\ \A w \in Workers : wpc[w] = "exited"
  /\ opc' = "destroyed"
  /\ UNCHANGED <<queueVars, handler, holds, wpc, running, accepted, refused,
                 runs>>

-----------------------------------------------------------------------------
(* Worker::threadFunc                                                      *)

LoopHead(w) ==
  /\ wpc[w] = "loop"
  /\ MoveTo(w, IF running[w] THEN "pop" ELSE "exited")
  /\ UNCHANGED <<queueVars, handler, holds, running, ownerVars, runs>>

\* Mutant: a worker takes a task only from a ring that holds two.
CanPop_OffByOne == Len(queue) > 1 /\ Head(queue) # unpublished
CanPop == queue # <<>> /\ Head(queue) # unpublished

\* Mutant: the head is copied out and dropped from the ring later.
PopSucceeds_Copies(w) ==
  /\ wpc[w] = "pop"
  /\ CanPop
  /\ handler' = [handler EXCEPT ![w] = Head(queue)]
  /\ holds' = [holds EXCEPT ![w] = taken]
  /\ MoveTo(w, "release")
  /\ UNCHANGED <<queueVars, running, ownerVars, runs>>

\* The predicate of cv.wait: m_queue->pop(handler) ...
PopSucceeds(w) ==
  /\ wpc[w] = "pop"
  /\ CanPop
  /\ handler' = [handler EXCEPT ![w] = Head(queue)]
  /\ holds' = [holds EXCEPT ![w] = taken]
  /\ queue' = Tail(queue)
  /\ taken' = taken + 1
  /\ MoveTo(w, "release")
  /\ UNCHANGED <<unpublished, running, ownerVars, runs>>

PopFails(w) ==
  /\ wpc[w] = "pop"
  /\ ~ CanPop
  /\ MoveTo(w, "flag")
  /\ UNCHANGED <<queueVars, handler, holds, running, ownerVars, runs>>

\* Mutant: the worker looks at its flag again before it calls the handler.
Release_ThenFlag(w) ==
  /\ wpc[w] = "release"
  /\ MoveTo(w, IF running[w] THEN "call" ELSE "exited")
  /\ UNCHANGED <<queueVars, handler, holds, running, ownerVars, runs>>

Release(w) ==
  /\ wpc[w] = "release"
  /\ MoveTo(w, "call")
  /\ UNCHANGED <<queueVars, handler, holds, running, ownerVars, runs>>

\* ... || !m_running_flag: a stopped worker leaves the wait without a task.
ReadFlag(w) ==
  /\ wpc[w] = "flag"
  /\ MoveTo(w, IF running[w] THEN "block" ELSE "call")
  /\ UNCHANGED <<queueVars, handler, holds, running, ownerVars, runs>>

\* The predicate was false: the worker becomes one a notification can reach.
Block(w) ==
  /\ wpc[w] = "block"
  /\ MoveTo(w, "waiting")
  /\ UNCHANGED <<queueVars, handler, holds, running, ownerVars, runs>>

\* Mutant: a worker that is woken goes on without asking the predicate again.
SpuriousWakeup_Calls(w) ==
  /\ wpc[w] = "waiting"
  /\ MoveTo(w, "call")
  /\ UNCHANGED <<queueVars, handler, holds, running, ownerVars, runs>>

SpuriousWakeup(w) ==
  /\ wpc[w] = "waiting"
  /\ MoveTo(w, "pop")
  /\ UNCHANGED <<queueVars, handler, holds, running, ownerVars, runs>>

\* handler(): an exception, such as that of an empty handler, is suppressed.  A
\* worker that was stopped has popped nothing and calls what it called last.
Call(w) ==
  LET t == handler[w] IN
  /\ wpc[w] = "call"
  /\ runs' = IF t = None THEN runs ELSE [runs EXCEPT ![t] = @ + 1]
  /\ MoveTo(w, "loop")
  /\ UNCHANGED <<queueVars, handler, holds, running, ownerVars>>

-----------------------------------------------------------------------------
Worker(w) ==
  \/ LoopHead(w) \/ PopSucceeds(w) \/ PopFails(w) \/ Release(w)
  \/ ReadFlag(w) \/ Block(w) \/ Call(w)

OwnerContinues == Publish \/ NotifyOne \/ StopOne \/ NotifyAll \/ JoinAll

Next ==
  \/ \E t \in Tasks : PostAccepted(t) \/ PostRefused(t)
  \/ Destroy
  \/ OwnerContinues
  \/ \E w \in Workers : Worker(w) \/ SpuriousWakeup(w)

Spec == Init /\ [][Next]_vars

\* The scheduler runs every thread that can run, and tasks return.  Nothing
\* makes the owner post or destroy, and no wakeup comes for free.
Fairness == WF_vars(OwnerContinues) /\ \A w \in Workers : WF_vars(Worker(w))

FairSpec == Spec /\ Fairness

-----------------------------------------------------------------------------
(* Properties                                                              *)

WorkerLabels ==
  {"loop", "pop", "release", "flag", "block", "waiting", "call", "exited"}
OwnerLabels ==
  {"ready", "publish", "notify", "stopping", "notifyAll", "joining", "destroyed"}

TypeOK ==
  /\ queue \in Seq(Tasks)
  /\ unpublished \in Tasks \cup {None}
  /\ taken \in Nat
  /\ handler \in [Workers -> Tasks \cup {None}]
  /\ holds \in [Workers -> Nat]
  /\ wpc \in [Workers -> WorkerLabels]
  /\ running \in [Workers -> BOOLEAN]
  /\ opc \in OwnerLabels
  /\ accepted \in SUBSET Tasks
  /\ refused \in SUBSET Tasks
  /\ runs \in [Tasks -> Nat]

Queued(t) == \E i \in 1..Len(queue) : queue[i] = t

\* Worker w has popped t and not called it yet.
Holds(w, t) == handler[w] = t /\ wpc[w] \in {"release", "call"}

\* tryPost's true is a promise: until the pool is destroyed, an accepted task
\* is in the queue, with a worker that is about to call it, or has been
\* called; handler, which is never cleared, is overwritten only after the call.
NothingLost ==
  \A t \in accepted :
    Queued(t) \/ runs[t] > 0 \/ \E w \in Workers : Holds(w, t)

\* Nothing but stop() makes a worker call a task again: a task is called once,
\* by one worker, and a second time only if that worker was stopped while it
\* had nothing else to call.  It exits then, so there is no third call.  (A
\* std::packaged_task, which handle() posts, throws in place of the second.)
CalledAgainOnlyByStop ==
  \A t \in Tasks :
    \/ runs[t] <= 1
    \/ /\ runs[t] = 2
       /\ \E w \in Workers :
            handler[w] = t /\ ~ running[w] /\ wpc[w] \in {"loop", "exited"}

\* The owner is never ahead of the workers by more than the ring and one task
\* for each worker that has taken one: this is the bound on the images being
\* held in memory.
Unfinished == {t \in accepted : runs[t] = 0}
Busy == {w \in Workers : wpc[w] \in {"release", "call"}}

OutstandingBounded == Cardinality(Unfinished) <= Size + Cardinality(Busy)

\* The inductive invariant: an accepted task that has not run is in the queue
\* or in one worker's hands, once, and only such tasks are.
QueueInv ==
  /\ Len(queue) <= Size
  /\ \A i \in 1..Len(queue) : queue[i] \in accepted /\ runs[queue[i]] = 0
  /\ \A i, j \in 1..Len(queue) : queue[i] = queue[j] => i = j

HandlerInv ==
  \A w \in Workers :
    /\ wpc[w] = "release" => handler[w] # None /\ runs[handler[w]] = 0
    /\ handler[w] # None => handler[w] \in accepted
    /\ handler[w] # None /\ runs[handler[w]] = 0 =>
         /\ wpc[w] \in {"release", "call"}
         /\ ~ Queued(handler[w])
    /\ handler[w] # None => \A v \in Workers : handler[v] = handler[w] => v = w
    /\ wpc[w] = "call" /\ handler[w] # None /\ runs[handler[w]] > 0 => ~ running[w]

\* Every task the pool holds is held exactly once, and none was refused.
PoolInv ==
  /\ TypeOK
  /\ QueueInv
  /\ HandlerInv
  /\ NothingLost
  /\ CalledAgainOnlyByStop
  /\ accepted \cap refused = {}
  /\ \A t \in Tasks : runs[t] > 0 => t \in accepted

\* A published task is taken while some worker has yet to look at the queue,
\* whatever the other workers and the owner do, unless the pool is stopping.
Stopping == opc \in {"stopping", "notifyAll", "joining", "destroyed"}

WillLook(w) == wpc[w] \in {"loop", "pop", "release", "call"} /\ running[w]

TakenWhileAwake ==
  \A t \in Tasks :
    Queued(t) /\ unpublished # t /\ (\E w \in Workers : WillLook(w))
      ~> ~ Queued(t) \/ Stopping

\* The destructor returns if no worker is between its last look at its flag
\* and its wait when notify_all is called.
DestroyedUnlessRaced ==
  opc = "notifyAll" /\ (\A w \in Workers : wpc[w] # "block")
    ~> opc = "destroyed"

-----------------------------------------------------------------------------
(* The pool uses the queue as LimbQueue promises it: got is the handler a   *)
(* worker hands to pop.                                                     *)

Ring == INSTANCE BoundedFifo WITH Values <- Tasks, Poppers <- Workers, got <- handler

\* Tasks enter and leave the queue of the pool as they do a bounded FIFO, and a
\* handler changes only when a task is popped into it.
UsesFifo == Ring!Spec

-----------------------------------------------------------------------------
(* What the documentation says of the pool and the code does not do.       *)

\* thread-pool.hpp: "~ThreadPool Stop all workers and destroy thread pool."
DestructorFinishes == opc = "stopping" ~> opc = "destroyed"
=============================================================================
