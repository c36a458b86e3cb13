----------------------------- MODULE BoundedFifo -----------------------------
(***************************************************************************)
(* What a user of MPMCBoundedQueue (include/thread-pool/limb-queue.hpp)    *)
(* relies on: a FIFO that never holds more than Size elements, in which    *)
(* a successful push appends one value and a successful pop hands the      *)
(* oldest value to exactly one popper.  Calls that return false change     *)
(* nothing; LimbQueue says when they may do so.                            *)
(***************************************************************************)
EXTENDS Naturals, Sequences

CONSTANTS
  Values,   \* what is queued: tasks are move-only, so each value is unique
  None,     \* "no value yet" in a popper's output argument
  Poppers,  \* the threads that pop
  Size      \* capacity

VARIABLES
  queue,    \* the values pushed and not yet popped, oldest first
  got       \* got[c]: the value popper c received last

vars == <<queue, got>>

Init ==
  /\ queue = <<>>
  /\ got = [c \in Poppers |-> None]

Enqueue(v) ==
  /\ Len(queue) < Size
  /\ queue' = Append(queue, v)
  /\ UNCHANGED got

Dequeue(c) ==
  /\ queue # <<>>
  /\ got' = [got EXCEPT ![c] = Head(queue)]
  /\ queue' = Tail(queue)

Next ==
  \/ \E v \in Values : Enqueue(v)
  \/ \E c \in Poppers : Dequeue(c)

Spec == Init /\ [][Next]_vars
=============================================================================
