------------------------------ MODULE LimbQueue ------------------------------
(***************************************************************************)
(* MPMCBoundedQueue (include/thread-pool/limb-queue.hpp): a bounded        *)
(* lock-free queue.  Every cell has an atomic sequence number; push and    *)
(* pop claim a position with a compare-and-swap on m_enqueue_pos or        *)
(* m_dequeue_pos and then own the cell until they store its next sequence. *)
(* Each step below makes at most one access to shared memory.              *)
(*                                                                         *)
(* Positions are unbounded here: they are size_t in the code, and 2^64     *)
(* calls do not happen in the life of a process.                           *)
(***************************************************************************)
EXTENDS Integers, Sequences

CONSTANTS
  Pushers,  \* threads that call push (the network thread)
  Poppers,  \* threads that call pop (the pool's workers)
  Values,   \* what is pushed; values are moved, so a value is pushed once
  None,     \* an output argument that was never assigned
  Size      \* the constructor's argument, m_buffer_mask + 1

ASSUME SizeAssumption == Size \in Nat /\ Size >= 2
ASSUME SizePowerOfTwo == \E k \in 1..Size : Size = 2^k
ASSUME ThreadsAssumption == Pushers \cap Poppers = {}
ASSUME NoneAssumption == None \notin Values

VARIABLES
  enqueuePos,  \* m_enqueue_pos
  dequeuePos,  \* m_dequeue_pos
  seq,         \* seq[i]: m_buffer[i].sequence
  data,        \* data[i]: m_buffer[i].data
  pc,          \* what the thread does next
  pos,         \* the local variable pos of push and pop
  item,        \* the data argument: the value to push, or the value popped
  log          \* history: the values in the order their positions were claimed

vars == <<enqueuePos, dequeuePos, seq, data, pc, pos, item, log>>

Threads == Pushers \cup Poppers
Cells == 0..(Size - 1)

\* pos & m_buffer_mask: Size is a power of two, so this is the remainder.
Cell(p) == p % Size

Goto(t, label) == pc' = [pc EXCEPT ![t] = label]

Init ==
  /\ enqueuePos = 0
  /\ dequeuePos = 0
  /\ seq = [i \in Cells |-> i]
  /\ data = [i \in Cells |-> None]
  /\ pc = [t \in Threads |-> "idle"]
  /\ pos = [t \in Threads |-> 0]
  /\ item = [t \in Threads |-> None]
  /\ log = <<>>

-----------------------------------------------------------------------------
(* push                                                                    *)

\* A value that no push has accepted and that no other push is carrying.
Fresh(v) ==
  /\ \A i \in 1..Len(log) : log[i] # v
  /\ \A u \in Threads : item[u] # v

PushBegin(t, v) ==
  /\ pc[t] = "idle"
  /\ Fresh(v)
  /\ item' = [item EXCEPT ![t] = v]
  /\ Goto(t, "load")
  /\ UNCHANGED <<enqueuePos, dequeuePos, seq, data, pos, log>>

\* A relaxed load may return any value m_enqueue_pos has had since this
\* thread last saw it.
PushLoad(t) ==
  /\ pc[t] = "load"
  /\ \E p \in pos[t]..enqueuePos : pos' = [pos EXCEPT ![t] = p]
  /\ Goto(t, "check")
  /\ UNCHANGED <<enqueuePos, dequeuePos, seq, data, item, log>>

\* dif = seq - pos: claim the position, report a full queue, or start again.
\* Mutant: the comparison with seq does not tell a free cell from a full one.
PushClaimable_NotExact(t) == seq[Cell(pos[t])] <= pos[t]
PushClaimable(t) == seq[Cell(pos[t])] = pos[t]
\* Mutant: dif <= 0.
PushFull_OffByOne(t) == seq[Cell(pos[t])] <= pos[t]
PushFull(t) == seq[Cell(pos[t])] < pos[t]

PushCheck(t) ==
  /\ pc[t] = "check"
  /\ \/ PushClaimable(t) /\ Goto(t, "cas") /\ UNCHANGED item
     \/ PushFull(t) /\ Goto(t, "idle") /\ item' = [item EXCEPT ![t] = None]
     \/ ~PushClaimable(t) /\ ~PushFull(t) /\ Goto(t, "load") /\ UNCHANGED item
  /\ UNCHANGED <<enqueuePos, dequeuePos, seq, data, pos, log>>

PushClaim(t) ==
  /\ pc[t] = "cas"
  /\ enqueuePos = pos[t]
  /\ enqueuePos' = pos[t] + 1
  /\ log' = Append(log, item[t])
  /\ Goto(t, "write")
  /\ UNCHANGED <<dequeuePos, seq, data, pos, item>>

\* compare_exchange_weak failed, because the position moved or spuriously,
\* and left the current position in pos.
PushClaimFails(t) ==
  /\ pc[t] = "cas"
  /\ pos' = [pos EXCEPT ![t] = enqueuePos]
  /\ Goto(t, "check")
  /\ UNCHANGED <<enqueuePos, dequeuePos, seq, data, item, log>>

PushWrite(t) ==
  /\ pc[t] = "write"
  /\ data' = [data EXCEPT ![Cell(pos[t])] = item[t]]
  /\ Goto(t, "publish")
  /\ UNCHANGED <<enqueuePos, dequeuePos, seq, pos, item, log>>

PushPublish(t) ==
  /\ pc[t] = "publish"
  /\ seq' = [seq EXCEPT ![Cell(pos[t])] = pos[t] + 1]
  /\ item' = [item EXCEPT ![t] = None]
  /\ Goto(t, "idle")
  /\ UNCHANGED <<enqueuePos, dequeuePos, data, pos, log>>

-----------------------------------------------------------------------------
(* pop                                                                     *)

PopBegin(c) ==
  /\ pc[c] = "idle"
  /\ Goto(c, "load")
  /\ UNCHANGED <<enqueuePos, dequeuePos, seq, data, pos, item, log>>

PopLoad(c) ==
  /\ pc[c] = "load"
  /\ \E p \in pos[c]..dequeuePos : pos' = [pos EXCEPT ![c] = p]
  /\ Goto(c, "check")
  /\ UNCHANGED <<enqueuePos, dequeuePos, seq, data, item, log>>

PopClaimable(c) == seq[Cell(pos[c])] = pos[c] + 1
\* Mutant: dif <= 0.
PopEmpty_OffByOne(c) == seq[Cell(pos[c])] <= pos[c] + 1
PopEmpty(c) == seq[Cell(pos[c])] < pos[c] + 1

PopCheck(c) ==
  /\ pc[c] = "check"
  /\ \/ PopClaimable(c) /\ Goto(c, "cas")
     \/ PopEmpty(c) /\ Goto(c, "idle")
     \/ ~PopClaimable(c) /\ ~PopEmpty(c) /\ Goto(c, "load")
  /\ UNCHANGED <<enqueuePos, dequeuePos, seq, data, pos, item, log>>

\* Mutant: a load and a store instead of the compare-and-swap.
PopClaim_NotAtomic(c) ==
  /\ pc[c] = "cas"
  /\ dequeuePos' = pos[c] + 1
  /\ Goto(c, "take")
  /\ UNCHANGED <<enqueuePos, seq, data, pos, item, log>>

PopClaim(c) ==
  /\ pc[c] = "cas"
  /\ dequeuePos = pos[c]
  /\ dequeuePos' = pos[c] + 1
  /\ Goto(c, "take")
  /\ UNCHANGED <<enqueuePos, seq, data, pos, item, log>>

\* Mutant: a failed compare-and-swap is taken for a success.
PopClaimFails_Ignored(c) ==
  /\ pc[c] = "cas"
  /\ Goto(c, "take")
  /\ UNCHANGED <<enqueuePos, dequeuePos, seq, data, pos, item, log>>

PopClaimFails(c) ==
  /\ pc[c] = "cas"
  /\ pos' = [pos EXCEPT ![c] = dequeuePos]
  /\ Goto(c, "check")
  /\ UNCHANGED <<enqueuePos, dequeuePos, seq, data, item, log>>

\* data = std::move(cell->data): the cell is left with a moved-from value,
\* which nobody looks at before the next push overwrites it.
PopTake(c) ==
  /\ pc[c] = "take"
  /\ item' = [item EXCEPT ![c] = data[Cell(pos[c])]]
  /\ data' = [data EXCEPT ![Cell(pos[c])] = None]
  /\ Goto(c, "release")
  /\ UNCHANGED <<enqueuePos, dequeuePos, seq, pos, log>>

\* Mutant: pos + m_buffer_mask, without the + 1.
PopRelease_OffByOne(c) ==
  /\ pc[c] = "release"
  /\ seq' = [seq EXCEPT ![Cell(pos[c])] = pos[c] + Size - 1]
  /\ Goto(c, "idle")
  /\ UNCHANGED <<enqueuePos, dequeuePos, data, pos, item, log>>

PopRelease(c) ==
  /\ pc[c] = "release"
  /\ seq' = [seq EXCEPT ![Cell(pos[c])] = pos[c] + Size]
  /\ Goto(c, "idle")
  /\ UNCHANGED <<enqueuePos, dequeuePos, data, pos, item, log>>

-----------------------------------------------------------------------------
Push(t) ==
  \/ \E v \in Values : PushBegin(t, v)
  \/ PushLoad(t) \/ PushCheck(t) \/ PushClaim(t) \/ PushClaimFails(t)
  \/ PushWrite(t) \/ PushPublish(t)

Pop(c) ==
  \/ PopBegin(c) \/ PopLoad(c) \/ PopCheck(c) \/ PopClaim(c)
  \/ PopClaimFails(c) \/ PopTake(c) \/ PopRelease(c)

Next ==
  \/ \E t \in Pushers : Push(t)
  \/ \E c \in Poppers : Pop(c)

Spec == Init /\ [][Next]_vars

-----------------------------------------------------------------------------
(* Properties                                                              *)

PushLabels == {"idle", "load", "check", "cas", "write", "publish"}
PopLabels == {"idle", "load", "check", "cas", "take", "release"}

\* Every variable has its type; the history has one entry per claimed position.
TypeOK ==
  /\ enqueuePos \in Nat
  /\ dequeuePos \in Nat
  /\ seq \in [Cells -> Nat]
  /\ data \in [Cells -> Values \cup {None}]
  /\ pc \in [Threads -> PushLabels \cup PopLabels]
  /\ \A t \in Pushers : pc[t] \in PushLabels
  /\ \A c \in Poppers : pc[c] \in PopLabels
  /\ pos \in [Threads -> Nat]
  /\ item \in [Threads -> Values \cup {None}]
  /\ log \in Seq(Values)
  /\ Len(log) = enqueuePos

\* The thread has claimed the position pos[t] and not yet handed the cell on.
Owns(t) == pc[t] \in {"write", "publish", "take", "release"}

\* The cells are plain memory, protected only by their sequence numbers: two
\* threads never own the same cell at the same time, however the claims,
\* stale loads and failed compare-and-swaps interleave.
CellOwnersExclusive ==
  \A t, u \in Threads :
    t # u /\ Owns(t) /\ Owns(u) => Cell(pos[t]) # Cell(pos[u])

\* push returns false only if the slot it needs is really not free: Size
\* values are queued, or the pop that empties the slot has not finished.
FullIsJustified ==
  \A t \in Pushers : pc[t] = "check" /\ PushFull(t) =>
    \/ enqueuePos - dequeuePos >= Size
    \/ \E c \in Poppers : Owns(c) /\ pos[c] = enqueuePos - Size

\* pop returns false only if nothing is queued, or the push of the oldest
\* value has claimed its position and not yet published it.
EmptyIsJustified ==
  \A c \in Poppers : pc[c] = "check" /\ PopEmpty(c) =>
    \/ dequeuePos = enqueuePos
    \/ \E t \in Pushers : Owns(t) /\ pos[t] = dequeuePos

\* The value a popper holds is the one pushed at the position it claimed: no
\* value is lost, duplicated, reordered or read before it is written.
TakesOwnPosition ==
  \A c \in Poppers : pc[c] = "release" => item[c] = log[pos[c] + 1]

-----------------------------------------------------------------------------
(* The inductive invariant: what every cell of the ring holds.  Positions  *)
(* dequeuePos..enqueuePos-1 are pushed and not popped; the cells of the    *)
(* Size positions from dequeuePos on are all the cells there are.          *)

\* At most Size positions are outstanding, and no thread is ahead of the
\* counter it loads.
PositionsBounded ==
  /\ dequeuePos <= enqueuePos
  /\ enqueuePos <= dequeuePos + Size
  /\ \A t \in Pushers : pos[t] <= enqueuePos
  /\ \A c \in Poppers : pos[c] <= dequeuePos

\* The cell of a pushed position is published, or its pusher still owns it.
PushedCells ==
  \A p \in dequeuePos..(enqueuePos - 1) :
    \/ seq[Cell(p)] = p + 1 /\ data[Cell(p)] = log[p + 1]
    \/ seq[Cell(p)] = p /\ \E t \in Pushers : Owns(t) /\ pos[t] = p

\* The cell of a position not yet pushed is free, or the popper of the
\* position one round earlier still owns it.
FreeCells ==
  \A p \in enqueuePos..(dequeuePos + Size - 1) :
    \/ seq[Cell(p)] = p
    \/ /\ seq[Cell(p)] = p - Size + 1
       /\ \E c \in Poppers : Owns(c) /\ pos[c] = p - Size

\* What a pusher knows of the cell it owns or is about to claim.
PusherCells ==
  \A t \in Pushers :
    /\ Owns(t) => /\ dequeuePos <= pos[t] /\ pos[t] < enqueuePos
                  /\ seq[Cell(pos[t])] = pos[t]
                  /\ log[pos[t] + 1] = item[t]
    /\ pc[t] = "publish" => data[Cell(pos[t])] = item[t]
    /\ pc[t] = "cas" /\ pos[t] = enqueuePos => seq[Cell(pos[t])] = pos[t]
    /\ pc[t] # "idle" => item[t] \in Values

\* What a popper knows of the cell it owns or is about to claim.
PopperCells ==
  \A c \in Poppers :
    /\ Owns(c) => /\ pos[c] < dequeuePos /\ enqueuePos <= pos[c] + Size
                  /\ seq[Cell(pos[c])] = pos[c] + 1
    /\ pc[c] = "take" => data[Cell(pos[c])] = log[pos[c] + 1]
    /\ pc[c] = "release" => item[c] = log[pos[c] + 1]
    /\ pc[c] = "cas" /\ pos[c] = dequeuePos => seq[Cell(pos[c])] = pos[c] + 1

\* A position is claimed by one pusher and by one popper.
ClaimsDistinct ==
  /\ \A t, u \in Pushers : t # u /\ Owns(t) /\ Owns(u) => pos[t] # pos[u]
  /\ \A c, d \in Poppers : c # d /\ Owns(c) /\ Owns(d) => pos[c] # pos[d]

\* Between any two steps of any threads the ring is consistent: this is what
\* makes the sequence numbers a lock on each cell.
RingInv ==
  /\ TypeOK
  /\ PositionsBounded
  /\ PushedCells
  /\ FreeCells
  /\ PusherCells
  /\ PopperCells
  /\ ClaimsDistinct

-----------------------------------------------------------------------------
(* LimbQueue implements BoundedFifo: a push takes effect when it claims its *)
(* position, a pop when it claims its position.                            *)

Got(c) == IF pc[c] = "take" THEN log[pos[c] + 1] ELSE item[c]

Fifo == INSTANCE BoundedFifo WITH
          queue <- SubSeq(log, dequeuePos + 1, enqueuePos),
          got <- [c \in Poppers |-> Got(c)]

\* The queue, with all its retries and stale loads, is a bounded FIFO.
FifoSpec == Fifo!Spec
=============================================================================
