--------------------------- MODULE LimbQueueProofs ---------------------------
(***************************************************************************)
(* Proofs about MPMCBoundedQueue for every number of threads, every set of *)
(* values and every capacity: the ring's inductive invariant and, from it, *)
(* the exclusive ownership of cells, the justification of failed calls and *)
(* the refinement of BoundedFifo.                                          *)
(***************************************************************************)
EXTENDS LimbQueue, SequenceTheorems, TLAPS

-----------------------------------------------------------------------------
(* Arithmetic of pos & m_buffer_mask                                       *)

\* Quotient and remainder are unique.
LEMMA DivisionUnique ==
  ASSUME NEW q \in Nat, NEW p \in Nat,
         NEW r \in 0..(Size - 1), NEW s \in 0..(Size - 1),
         Size * q + r = Size * p + s
  PROVE  q = p /\ r = s
<1>1. CASE q < p
  <2>1. Size * (q + 1) <= Size * p  BY <1>1, SizeAssumption
  <2> QED BY <2>1, SizeAssumption
<1>2. CASE p < q
  <2>1. Size * (p + 1) <= Size * q  BY <1>2, SizeAssumption
  <2> QED BY <2>1, SizeAssumption
<1> QED BY <1>1, <1>2, SizeAssumption

\* A position is Size times its round plus its cell.
LEMMA CellDivision ==
  ASSUME NEW p \in Nat
  PROVE  /\ Cell(p) \in Cells
         /\ p \div Size \in Nat
         /\ p = Size * (p \div Size) + Cell(p)
BY SizeAssumption DEF Cell, Cells

\* The first Size positions use their own cell.
LEMMA CellFirstRound ==
  ASSUME NEW i \in Cells
  PROVE  Cell(i) = i
BY SizeAssumption DEF Cell, Cells

\* A position and the one a round later share a cell.
LEMMA CellNextRound ==
  ASSUME NEW p \in Nat
  PROVE  Cell(p + Size) = Cell(p)
<1> DEFINE q == p \div Size
           r == (p + Size) \div Size
<1>1. p + Size \in Nat  BY SizeAssumption
<1>2. /\ q \in Nat /\ p = Size * q + Cell(p) /\ Cell(p) \in 0..(Size - 1)
  BY CellDivision DEF Cells
<1>3. /\ r \in Nat /\ p + Size = Size * r + Cell(p + Size)
      /\ Cell(p + Size) \in 0..(Size - 1)
  BY <1>1, CellDivision DEF Cells
<1> HIDE DEF q, r
<1>4. Size * (q + 1) + Cell(p) = Size * r + Cell(p + Size)
  BY <1>2, <1>3, SizeAssumption
<1> QED BY <1>2, <1>3, <1>4, q + 1 \in Nat, DivisionUnique

\* Positions less than a round apart have different cells.
LEMMA CellsDistinct ==
  ASSUME NEW a \in Nat, NEW b \in Nat, a < b, b < a + Size
  PROVE  Cell(a) # Cell(b)
<1> DEFINE q == a \div Size
           r == b \div Size
<1>1. q \in Nat /\ a = Size * q + Cell(a) /\ Cell(a) \in 0..(Size - 1)
  BY CellDivision DEF Cells
<1>2. r \in Nat /\ b = Size * r + Cell(b) /\ Cell(b) \in 0..(Size - 1)
  BY CellDivision DEF Cells
<1> HIDE DEF q, r
<1> SUFFICES ASSUME Cell(a) = Cell(b) PROVE FALSE
  OBVIOUS
<1>3. q < r  
  <2>1. CASE r <= q
    <3>1. Size * r <= Size * q  BY <1>1, <1>2, <2>1, SizeAssumption
    <3> QED BY <3>1, <1>1, <1>2, SizeAssumption
  <2> QED BY <2>1, <1>1, <1>2
<1>4. Size * (q + 1) <= Size * r  BY <1>1, <1>2, <1>3, SizeAssumption
<1> QED BY <1>1, <1>2, <1>4, SizeAssumption

\* Every position has a counterpart in the window of Size positions from lo:
\* the cell is the same, and it is this position or a later round's.
LEMMA CellInWindow ==
  ASSUME NEW a \in Nat, NEW lo \in Nat, a < lo + Size
  PROVE  \E p \in lo..(lo + Size - 1) :
           Cell(p) = Cell(a) /\ (p = a \/ p >= a + Size)
<1> DEFINE m == a \div Size
           q == lo \div Size
           r == Cell(lo)
           s == Cell(a)
           n == IF s >= r THEN q ELSE q + 1
           p == Size * n + s
<1>1. m \in Nat /\ a = Size * m + s /\ s \in 0..(Size - 1)
  BY CellDivision DEF Cells
<1>2. q \in Nat /\ lo = Size * q + r /\ r \in 0..(Size - 1)
  BY CellDivision DEF Cells
<1> HIDE DEF m, q, r, s
<1>3. n \in Nat /\ Size * (q + 1) = Size * q + Size
  BY <1>2, SizeAssumption
<1>4. p \in lo..(lo + Size - 1)
  <2>1. CASE s >= r
    BY <2>1, <1>1, <1>2, <1>3, SizeAssumption
  <2>2. CASE s < r
    BY <2>2, <1>1, <1>2, <1>3, SizeAssumption
  <2> QED BY <2>1, <2>2, <1>1, <1>2
<1> HIDE DEF n
<1>5. Cell(p) = s
  <2>1. p \in Nat
    BY <1>2, <1>4, SizeAssumption
  <2>2. /\ p \div Size \in Nat /\ Cell(p) \in 0..(Size - 1)
        /\ p = Size * (p \div Size) + Cell(p)
    BY <2>1, CellDivision DEF Cells
  <2> QED BY <2>2, <1>1, <1>3, DivisionUnique
<1>6. p = a \/ p >= a + Size
  <2>1. CASE n < m
    <3>1. Size * (n + 1) <= Size * m
      BY <2>1, <1>1, <1>3, SizeAssumption
    <3> QED BY <3>1, <1>1, <1>3, <1>4, SizeAssumption
  <2>2. CASE n = m
    BY <2>2, <1>1
  <2>3. CASE n > m
    <3>1. Size * (m + 1) <= Size * n
      BY <2>3, <1>1, <1>3, SizeAssumption
    <3> QED BY <3>1, <1>1, <1>3, SizeAssumption
  <2> QED BY <2>1, <2>2, <2>3, <1>1, <1>3
<1> QED BY <1>4, <1>5, <1>6 DEF s

-----------------------------------------------------------------------------
(* The inductive invariant                                                 *)

LEMMA InitRing == Init => RingInv
<1> SUFFICES ASSUME Init PROVE RingInv
  OBVIOUS
<1> USE SizeAssumption DEF Init
<1>1. TypeOK
  BY DEF TypeOK, PushLabels, PopLabels, Threads, Cells
<1>2. PositionsBounded
  BY DEF PositionsBounded, Threads
<1>3. PushedCells
  BY DEF PushedCells
<1>4. FreeCells
  BY CellFirstRound DEF FreeCells, Cells
<1>5. PusherCells /\ PopperCells /\ ClaimsDistinct
  BY DEF PusherCells, PopperCells, ClaimsDistinct, Owns, Threads
<1> QED BY <1>1, <1>2, <1>3, <1>4, <1>5 DEF RingInv

Private == {"idle", "load", "check", "cas"}

\* A step of a thread that owns no cell before or after it, which touches no
\* cell and no counter, preserves the invariant if what it learns is right.
LEMMA PrivateStep ==
  ASSUME RingInv, NEW t \in Threads,
         NEW l \in Private, NEW p \in Nat, NEW v \in Values \cup {None},
         UNCHANGED <<enqueuePos, dequeuePos, seq, data, log>>,
         pc[t] \in Private,
         pc' = [pc EXCEPT ![t] = l],
         pos' = [pos EXCEPT ![t] = p],
         item' = [item EXCEPT ![t] = v],
         t \in Pushers => /\ p <= enqueuePos
                          /\ l # "idle" => v \in Values
                          /\ l = "cas" => seq[Cell(p)] = p,
         t \in Poppers => /\ p <= dequeuePos
                          /\ l = "cas" => seq[Cell(p)] = p + 1
  PROVE  RingInv'
<1>1. TypeOK
  BY DEF RingInv
<1>2. TypeOK'
  BY <1>1 DEF TypeOK, Private, PushLabels, PopLabels
<1>3. ~ Owns(t) /\ ~ Owns(t)'
  BY <1>1 DEF TypeOK, Owns, Private
<1>4. \A u \in Threads : u # t => /\ pc'[u] = pc[u] /\ pos'[u] = pos[u]
                                  /\ item'[u] = item[u]
                                  /\ Owns(u)' <=> Owns(u)
  BY <1>1 DEF TypeOK, Owns
<1>5. pc'[t] = l /\ pos'[t] = p /\ item'[t] = v
  BY <1>1 DEF TypeOK
<1>6. PositionsBounded'
  BY <1>4, <1>5 DEF RingInv, PositionsBounded, Threads
<1>7. PushedCells'
  BY <1>3, <1>4 DEF RingInv, PushedCells, Threads, Cell
<1>8. FreeCells'
  BY <1>3, <1>4 DEF RingInv, FreeCells, Threads, Cell
<1>9. PusherCells'
  <2> SUFFICES ASSUME NEW u \in Pushers
               PROVE  /\ Owns(u)' => /\ dequeuePos <= pos'[u] /\ pos'[u] < enqueuePos
                                     /\ seq[Cell(pos'[u])] = pos'[u]
                                     /\ log[pos'[u] + 1] = item'[u]
                      /\ pc'[u] = "publish" => data[Cell(pos'[u])] = item'[u]
                      /\ pc'[u] = "cas" /\ pos'[u] = enqueuePos =>
                           seq[Cell(pos'[u])] = pos'[u]
                      /\ pc'[u] # "idle" => item'[u] \in Values
    BY DEF PusherCells, Cell
  <2>1. CASE u = t
    BY <2>1, <1>3, <1>5 DEF Private
  <2>2. CASE u # t
    BY <2>2, <1>4 DEF RingInv, PusherCells, Threads
  <2> QED BY <2>1, <2>2
<1>10. PopperCells'
  <2> SUFFICES ASSUME NEW c \in Poppers
               PROVE  /\ Owns(c)' => /\ pos'[c] < dequeuePos
                                     /\ enqueuePos <= pos'[c] + Size
                                     /\ seq[Cell(pos'[c])] = pos'[c] + 1
                      /\ pc'[c] = "take" => data[Cell(pos'[c])] = log[pos'[c] + 1]
                      /\ pc'[c] = "release" => item'[c] = log[pos'[c] + 1]
                      /\ pc'[c] = "cas" /\ pos'[c] = dequeuePos =>
                           seq[Cell(pos'[c])] = pos'[c] + 1
    BY DEF PopperCells, Cell
  <2>1. CASE c = t
    BY <2>1, <1>3, <1>5 DEF Private
  <2>2. CASE c # t
    BY <2>2, <1>4 DEF RingInv, PopperCells, Threads
  <2> QED BY <2>1, <2>2
<1>11. ClaimsDistinct'
  BY <1>3, <1>4 DEF RingInv, ClaimsDistinct, Threads
<1> QED BY <1>2, <1>6, <1>7, <1>8, <1>9, <1>10, <1>11 DEF RingInv

\* Loads, checks, failed claims and the start of a call are private steps.
LEMMA PushPrivate ==
  ASSUME RingInv, NEW t \in Pushers,
         \/ \E v \in Values : PushBegin(t, v)
         \/ PushLoad(t) \/ PushCheck(t) \/ PushClaimFails(t)
  PROVE  RingInv'
<1>1. /\ t \in Threads /\ t \notin Poppers
      /\ pos[t] \in Nat /\ pos[t] <= enqueuePos
      /\ enqueuePos \in Nat /\ item[t] \in Values \cup {None}
      /\ pc[t] # "idle" => item[t] \in Values
      /\ pos = [pos EXCEPT ![t] = pos[t]] /\ item = [item EXCEPT ![t] = item[t]]
  BY ThreadsAssumption
  DEF Threads, RingInv, TypeOK, PositionsBounded, PusherCells
<1> USE <1>1 DEF Goto, Private
<1>2. CASE \E v \in Values : PushBegin(t, v)
  BY <1>2, PrivateStep DEF PushBegin
<1>3. CASE PushLoad(t)
  <2>1. PICK p \in pos[t]..enqueuePos : pos' = [pos EXCEPT ![t] = p]
    BY <1>3 DEF PushLoad
  <2>2. /\ p \in Nat /\ p <= enqueuePos /\ item[t] \in Values
        /\ pc[t] = "load" /\ pc' = [pc EXCEPT ![t] = "check"]
        /\ item' = [item EXCEPT ![t] = item[t]]
        /\ UNCHANGED <<enqueuePos, dequeuePos, seq, data, log>>
    BY <1>3, <2>1 DEF PushLoad
  <2> QED BY <2>1, <2>2, PrivateStep
<1>4. CASE PushCheck(t)
  <2>1. CASE PushClaimable(t) /\ Goto(t, "cas") /\ UNCHANGED item
    <3>1. /\ seq[Cell(pos[t])] = pos[t] /\ item[t] \in Values
          /\ pc[t] = "check" /\ pc' = [pc EXCEPT ![t] = "cas"]
          /\ pos' = [pos EXCEPT ![t] = pos[t]]
          /\ item' = [item EXCEPT ![t] = item[t]]
          /\ UNCHANGED <<enqueuePos, dequeuePos, seq, data, log>>
      BY <1>4, <2>1 DEF PushCheck, PushClaimable
    <3> QED BY <3>1, PrivateStep
  <2>2. CASE Goto(t, "idle") /\ item' = [item EXCEPT ![t] = None]
    BY <1>4, <2>2, PrivateStep DEF PushCheck
  <2>3. CASE Goto(t, "load") /\ UNCHANGED item
    BY <1>4, <2>3, PrivateStep DEF PushCheck
  <2> QED BY <1>4, <2>1, <2>2, <2>3 DEF PushCheck
<1>5. CASE PushClaimFails(t)
  <2>1. PICK p \in Nat : p = enqueuePos
    OBVIOUS
  <2>2. /\ item[t] \in Values /\ p <= enqueuePos
        /\ pc[t] = "cas" /\ pc' = [pc EXCEPT ![t] = "check"]
        /\ pos' = [pos EXCEPT ![t] = p]
        /\ item' = [item EXCEPT ![t] = item[t]]
        /\ UNCHANGED <<enqueuePos, dequeuePos, seq, data, log>>
    BY <1>5, <2>1 DEF PushClaimFails
  <2> QED BY <2>2, PrivateStep
<1> QED BY <1>2, <1>3, <1>4, <1>5

LEMMA PopPrivate ==
  ASSUME RingInv, NEW c \in Poppers,
         PopBegin(c) \/ PopLoad(c) \/ PopCheck(c) \/ PopClaimFails(c)
  PROVE  RingInv'
<1>1. /\ c \in Threads /\ c \notin Pushers
      /\ pos[c] \in Nat /\ pos[c] <= dequeuePos
      /\ dequeuePos \in Nat /\ item[c] \in Values \cup {None}
      /\ pos = [pos EXCEPT ![c] = pos[c]] /\ item = [item EXCEPT ![c] = item[c]]
  BY ThreadsAssumption DEF Threads, RingInv, TypeOK, PositionsBounded
<1> USE <1>1 DEF Goto, Private
<1>2. CASE PopBegin(c)
  BY <1>2, PrivateStep DEF PopBegin
<1>3. CASE PopLoad(c)
  <2>1. PICK p \in pos[c]..dequeuePos : pos' = [pos EXCEPT ![c] = p]
    BY <1>3 DEF PopLoad
  <2>2. /\ p \in Nat /\ p <= dequeuePos
        /\ pc[c] = "load" /\ pc' = [pc EXCEPT ![c] = "check"]
        /\ item' = [item EXCEPT ![c] = item[c]]
        /\ UNCHANGED <<enqueuePos, dequeuePos, seq, data, log>>
    BY <1>3, <2>1 DEF PopLoad
  <2> QED BY <2>1, <2>2, PrivateStep
<1>4. CASE PopCheck(c)
  <2>1. CASE PopClaimable(c) /\ Goto(c, "cas")
    <3>1. /\ seq[Cell(pos[c])] = pos[c] + 1
          /\ pc[c] = "check" /\ pc' = [pc EXCEPT ![c] = "cas"]
          /\ pos' = [pos EXCEPT ![c] = pos[c]]
          /\ item' = [item EXCEPT ![c] = item[c]]
          /\ UNCHANGED <<enqueuePos, dequeuePos, seq, data, log>>
      BY <1>4, <2>1 DEF PopCheck, PopClaimable
    <3> QED BY <3>1, PrivateStep
  <2>2. CASE Goto(c, "idle") \/ Goto(c, "load")
    <3>1. PICK l \in {"idle", "load"} : pc' = [pc EXCEPT ![c] = l]
      BY <2>2
    <3>2. /\ l # "cas" /\ l \in Private /\ pc[c] = "check"
          /\ pos' = [pos EXCEPT ![c] = pos[c]]
          /\ item' = [item EXCEPT ![c] = item[c]]
          /\ UNCHANGED <<enqueuePos, dequeuePos, seq, data, log>>
      BY <1>4, <3>1 DEF PopCheck
    <3> QED BY <3>1, <3>2, PrivateStep
  <2> QED BY <1>4, <2>1, <2>2 DEF PopCheck
<1>5. CASE PopClaimFails(c)
  <2>1. PICK p \in Nat : p = dequeuePos
    OBVIOUS
  <2>2. /\ p <= dequeuePos
        /\ pc[c] = "cas" /\ pc' = [pc EXCEPT ![c] = "check"]
        /\ pos' = [pos EXCEPT ![c] = p]
        /\ item' = [item EXCEPT ![c] = item[c]]
        /\ UNCHANGED <<enqueuePos, dequeuePos, seq, data, log>>
    BY <1>5, <2>1 DEF PopClaimFails
  <2> QED BY <2>2, PrivateStep
<1> QED BY <1>2, <1>3, <1>4, <1>5

\* A pusher that wins the compare-and-swap owns the cell of the position: it
\* was free, so fewer than Size positions were outstanding.
LEMMA PushClaimStep ==
  ASSUME RingInv, NEW t \in Pushers, PushClaim(t)
  PROVE  RingInv'
<1> DEFINE H == enqueuePos
           T == dequeuePos
<1>1. t \in Threads /\ t \notin Poppers
  BY ThreadsAssumption DEF Threads
<1>2. /\ H \in Nat /\ T \in Nat /\ pos[t] = H /\ H' = H + 1
      /\ log \in Seq(Values) /\ Len(log) = H /\ item[t] \in Values
      /\ log' = Append(log, item[t])
      /\ UNCHANGED <<dequeuePos, seq, data, pos, item>>
      /\ pc' = [pc EXCEPT ![t] = "write"] /\ pc[t] = "cas"
  BY DEF PushClaim, Goto, RingInv, TypeOK, PusherCells
<1>3. /\ log' \in Seq(Values) /\ Len(log') = H + 1 /\ log'[H + 1] = item[t]
      /\ \A i \in 1..H : log'[i] = log[i]
  BY <1>2, AppendProperties
<1>4. TypeOK'
  BY <1>1, <1>2, <1>3 DEF RingInv, TypeOK, PushLabels
<1>5. seq[Cell(H)] = H
  BY <1>2 DEF RingInv, PusherCells
<1>6. T <= H /\ H < T + Size
  <2>1. T <= H /\ H <= T + Size
    BY DEF RingInv, PositionsBounded
  <2>2. CASE H = T + Size
    <3>1. Cell(H) = Cell(T) /\ T \in T..(H - 1)
      BY <2>2, <1>2, CellNextRound, SizeAssumption
    <3>2. seq[Cell(T)] = T \/ seq[Cell(T)] = T + 1
      BY <3>1 DEF RingInv, PushedCells
    <3> QED BY <3>1, <3>2, <2>2, <1>2, <1>5, SizeAssumption
  <2> QED BY <2>1, <2>2, <1>2, SizeAssumption
<1>7. \A u \in Threads : u # t => pc'[u] = pc[u] /\ (Owns(u)' <=> Owns(u))
  BY <1>2 DEF RingInv, TypeOK, Owns
<1>8. Owns(t)' /\ pc'[t] = "write"
  BY <1>1, <1>2 DEF RingInv, TypeOK, Owns
<1>9. PositionsBounded'
  BY <1>1, <1>2, <1>6, SizeAssumption DEF RingInv, TypeOK, PositionsBounded, Threads
<1>10. PushedCells'
  <2> SUFFICES ASSUME NEW p \in T..H
               PROVE  \/ seq[Cell(p)] = p + 1 /\ data[Cell(p)] = log'[p + 1]
                      \/ seq[Cell(p)] = p /\ \E u \in Pushers : Owns(u)' /\ pos[u] = p
    BY <1>2 DEF PushedCells, Cell
  <2>1. CASE p = H
    BY <2>1, <1>2, <1>5, <1>8
  <2>2. CASE p # H
    <3>1. p \in T..(H - 1) /\ p + 1 \in 1..H
      BY <2>2, <1>2
    <3> QED BY <3>1, <1>3, <1>7, <1>8 DEF RingInv, PushedCells, Threads
  <2> QED BY <2>1, <2>2
<1>11. FreeCells'
  BY <1>1, <1>2, <1>7 DEF RingInv, FreeCells, Threads, Cell
<1>12. PusherCells'
  BY <1>1, <1>2, <1>3, <1>5, <1>6, <1>7, <1>8
  DEF RingInv, TypeOK, PositionsBounded, PusherCells, Threads, Cell
<1>13. PopperCells'
  <2> SUFFICES ASSUME NEW c \in Poppers
               PROVE  /\ Owns(c) => /\ pos[c] < T /\ H + 1 <= pos[c] + Size
                                    /\ seq[Cell(pos[c])] = pos[c] + 1
                      /\ pc[c] = "take" => data[Cell(pos[c])] = log'[pos[c] + 1]
                      /\ pc[c] = "release" => item[c] = log'[pos[c] + 1]
                      /\ pc[c] = "cas" /\ pos[c] = T =>
                           seq[Cell(pos[c])] = pos[c] + 1
    BY <1>1, <1>2, <1>7 DEF PopperCells, Threads, Cell
  <2>1. pos[c] \in Nat
    BY DEF RingInv, TypeOK, Threads
  <2>2. /\ Owns(c) => /\ pos[c] < T /\ H <= pos[c] + Size
                      /\ seq[Cell(pos[c])] = pos[c] + 1
        /\ pc[c] = "take" => data[Cell(pos[c])] = log[pos[c] + 1]
        /\ pc[c] = "release" => item[c] = log[pos[c] + 1]
        /\ pc[c] = "cas" /\ pos[c] = T => seq[Cell(pos[c])] = pos[c] + 1
    BY DEF RingInv, PopperCells
  <2>3. ASSUME Owns(c) PROVE pos[c] + Size # H
    <3> SUFFICES ASSUME pos[c] + Size = H PROVE FALSE
      OBVIOUS
    <3>1. Cell(H) = Cell(pos[c])
      BY <2>1, CellNextRound
    <3>2. seq[Cell(H)] = pos[c] + 1
      BY <3>1, <2>2, <2>3
    <3> QED BY <3>2, <2>1, <1>2, <1>5, SizeAssumption
  <2>4. Owns(c) => log'[pos[c] + 1] = log[pos[c] + 1]
    BY <2>1, <2>2, <1>2, <1>3, <1>6
  <2>5. Owns(c) => H + 1 <= pos[c] + Size
    <3> SUFFICES ASSUME Owns(c) PROVE H + 1 <= pos[c] + Size
      OBVIOUS
    <3>1. H <= pos[c] + Size
      BY <2>2
    <3>2. pos[c] + Size # H
      BY <2>3
    <3> QED BY <3>1, <3>2, <2>1, <1>2, SizeAssumption
  <2>6. pc[c] \in {"take", "release"} => Owns(c)
    BY DEF Owns
  <2> QED BY <2>2, <2>4, <2>5, <2>6
<1>14. ClaimsDistinct'
  <2>1. \A u \in Pushers : u # t /\ Owns(u) => pos[u] # H
    BY <1>2 DEF RingInv, TypeOK, PusherCells, Threads
  <2> QED BY <2>1, <1>1, <1>2, <1>7 DEF RingInv, ClaimsDistinct, Threads
<1> QED BY <1>4, <1>9, <1>10, <1>11, <1>12, <1>13, <1>14 DEF RingInv

\* Writing the value touches only the pusher's own cell, whose position is
\* not published yet.
LEMMA PushWriteStep ==
  ASSUME RingInv, NEW t \in Pushers, PushWrite(t)
  PROVE  RingInv'
<1> DEFINE k == Cell(pos[t])
<1>1. t \in Threads /\ t \notin Poppers /\ TypeOK /\ ClaimsDistinct
  BY ThreadsAssumption DEF Threads, RingInv
<1>2. /\ UNCHANGED <<enqueuePos, dequeuePos, seq, pos, item, log>>
      /\ pc[t] = "write" /\ pc' = [pc EXCEPT ![t] = "publish"]
      /\ data' = [data EXCEPT ![k] = item[t]]
  BY DEF PushWrite, Goto
<1>3. pos[t] \in Nat /\ k \in Cells /\ Owns(t) /\ item[t] \in Values
  BY <1>1, <1>2, CellDivision DEF TypeOK, Owns, RingInv, PusherCells
<1>4. /\ dequeuePos <= pos[t] /\ pos[t] < enqueuePos
      /\ seq[k] = pos[t] /\ log[pos[t] + 1] = item[t]
  BY <1>3 DEF RingInv, PusherCells
<1>5. TypeOK'
  BY <1>1, <1>2, <1>3 DEF TypeOK, PushLabels
<1>6. \A u \in Threads : Owns(u)' <=> Owns(u)
  BY <1>1, <1>2 DEF TypeOK, Owns
<1>7. \A u \in Threads : u # t => pc'[u] = pc[u]
  BY <1>1, <1>2 DEF TypeOK
<1>8. \A i \in Cells : seq[i] # pos[t] => data'[i] = data[i]
  BY <1>1, <1>2, <1>3, <1>4 DEF TypeOK
<1>9. PositionsBounded' /\ ClaimsDistinct'
  BY <1>2, <1>6 DEF RingInv, PositionsBounded, ClaimsDistinct, Threads
<1>10. FreeCells'
  BY <1>2, <1>6 DEF RingInv, FreeCells, Threads, Cell
<1>11. PushedCells'
  <2> SUFFICES ASSUME NEW p \in dequeuePos..(enqueuePos - 1)
               PROVE  \/ seq[Cell(p)] = p + 1 /\ data'[Cell(p)] = log[p + 1]
                      \/ seq[Cell(p)] = p /\ \E u \in Pushers : Owns(u)' /\ pos[u] = p
    BY <1>2 DEF PushedCells, Cell
  <2>1. p \in Nat /\ Cell(p) \in Cells
    BY <1>1, CellDivision DEF TypeOK
  <2>2. \/ seq[Cell(p)] = p + 1 /\ data[Cell(p)] = log[p + 1]
        \/ seq[Cell(p)] = p /\ \E u \in Pushers : Owns(u) /\ pos[u] = p
    BY DEF RingInv, PushedCells
  <2>3. CASE seq[Cell(p)] = p + 1 /\ data[Cell(p)] = log[p + 1]
    <3>1. Cell(p) # k
      <4> SUFFICES ASSUME Cell(p) = k PROVE FALSE
        OBVIOUS
      <4>1. pos[t] = p + 1
        BY <2>3, <1>4
      <4>2. Cell(p) # Cell(p + 1)
        BY <2>1, CellsDistinct, SizeAssumption
      <4> QED BY <4>1, <4>2
    <3> QED BY <2>3, <3>1, <2>1, <1>1, <1>2, <1>3 DEF TypeOK
  <2>4. CASE seq[Cell(p)] = p /\ \E u \in Pushers : Owns(u) /\ pos[u] = p
    BY <2>4, <1>6 DEF Threads
  <2> QED BY <2>2, <2>3, <2>4
<1>12. PusherCells'
  <2> SUFFICES ASSUME NEW u \in Pushers, pc'[u] = "publish"
               PROVE  data'[Cell(pos[u])] = item[u]
    BY <1>1, <1>2, <1>6, <1>7 DEF RingInv, PusherCells, Threads, Cell
  <2>1. CASE u = t
    BY <2>1, <1>1, <1>2, <1>3 DEF TypeOK
  <2>2. CASE u # t
    <3>1. u \in Threads /\ pc[u] = "publish" /\ Owns(u)
      BY <2>2, <1>7 DEF Threads, Owns
    <3>2. pos[u] # pos[t]
      BY <2>2, <3>1, <1>1, <1>3 DEF ClaimsDistinct
    <3>3. pos[u] \in Nat /\ Cell(pos[u]) \in Cells
      BY <3>1, <1>1, CellDivision DEF TypeOK
    <3>4. seq[Cell(pos[u])] = pos[u] /\ data[Cell(pos[u])] = item[u]
      BY <3>1 DEF RingInv, PusherCells
    <3> QED BY <3>2, <3>3, <3>4, <1>8
  <2> QED BY <2>1, <2>2
<1>13. PopperCells'
  <2> SUFFICES ASSUME NEW c \in Poppers, pc[c] = "take"
               PROVE  data'[Cell(pos[c])] = log[pos[c] + 1]
    BY <1>1, <1>2, <1>6, <1>7 DEF RingInv, PopperCells, Threads, Cell
  <2>1. c \in Threads /\ Owns(c) /\ pos[c] \in Nat
    BY <1>1 DEF Threads, Owns, TypeOK
  <2>2. /\ pos[c] < dequeuePos /\ enqueuePos <= pos[c] + Size
        /\ data[Cell(pos[c])] = log[pos[c] + 1]
    BY <2>1 DEF RingInv, PopperCells
  <2>3. Cell(pos[c]) # k
    <3>1. pos[c] < pos[t] /\ pos[t] < pos[c] + Size
      BY <2>1, <2>2, <1>1, <1>3, <1>4, SizeAssumption DEF TypeOK
    <3> QED BY <3>1, <2>1, <1>3, CellsDistinct
  <2> QED BY <2>1, <2>2, <2>3, <1>1, <1>2, <1>3, CellDivision DEF TypeOK
<1> QED BY <1>5, <1>9, <1>10, <1>11, <1>12, <1>13 DEF RingInv

\* Publishing hands the written cell to the popper of the same position.
LEMMA PushPublishStep ==
  ASSUME RingInv, NEW t \in Pushers, PushPublish(t)
  PROVE  RingInv'
<1> DEFINE k == Cell(pos[t])
<1>1. t \in Threads /\ t \notin Poppers /\ TypeOK /\ ClaimsDistinct
  BY ThreadsAssumption DEF Threads, RingInv
<1>2. /\ UNCHANGED <<enqueuePos, dequeuePos, data, pos, log>>
      /\ pc[t] = "publish" /\ pc' = [pc EXCEPT ![t] = "idle"]
      /\ seq' = [seq EXCEPT ![k] = pos[t] + 1]
      /\ item' = [item EXCEPT ![t] = None]
  BY DEF PushPublish, Goto
<1>3. pos[t] \in Nat /\ k \in Cells /\ Owns(t)
  BY <1>1, <1>2, CellDivision DEF TypeOK, Owns
<1>4. /\ dequeuePos <= pos[t] /\ pos[t] < enqueuePos /\ seq[k] = pos[t]
      /\ data[k] = log[pos[t] + 1] /\ enqueuePos <= dequeuePos + Size
      /\ dequeuePos \in Nat /\ enqueuePos \in Nat
  BY <1>1, <1>2, <1>3 DEF RingInv, PusherCells, TypeOK, PositionsBounded
<1>5. TypeOK'
  BY <1>1, <1>2, <1>3 DEF TypeOK, PushLabels
<1>6. \A u \in Threads : u # t => /\ pc'[u] = pc[u] /\ item'[u] = item[u]
                                  /\ Owns(u)' <=> Owns(u)
  BY <1>1, <1>2 DEF TypeOK, Owns
<1>7. ~ Owns(t)' /\ pc'[t] = "idle"
  BY <1>1, <1>2 DEF TypeOK, Owns
<1>8. /\ seq'[k] = pos[t] + 1
      /\ \A i \in Cells : i # k => seq'[i] = seq[i]
  BY <1>1, <1>2, <1>3 DEF TypeOK
<1>9. PositionsBounded' /\ ClaimsDistinct'
  BY <1>2, <1>6, <1>7 DEF RingInv, PositionsBounded, ClaimsDistinct, Threads
<1>10. \A p \in Nat : p # pos[t] /\ dequeuePos <= p /\ p < dequeuePos + Size
                        => Cell(p) \in Cells /\ Cell(p) # k
  <2> TAKE p \in Nat
  <2> HAVE p # pos[t] /\ dequeuePos <= p /\ p < dequeuePos + Size
  <2>1. CASE p < pos[t]
    BY <2>1, <1>3, <1>4, CellsDistinct, CellDivision, SizeAssumption
  <2>2. CASE pos[t] < p
    BY <2>2, <1>3, <1>4, CellsDistinct, CellDivision, SizeAssumption
  <2> QED BY <2>1, <2>2, <1>3
<1>11. PushedCells'
  <2> SUFFICES ASSUME NEW p \in dequeuePos..(enqueuePos - 1)
               PROVE  \/ seq'[Cell(p)] = p + 1 /\ data[Cell(p)] = log[p + 1]
                      \/ seq'[Cell(p)] = p /\ \E u \in Pushers : Owns(u)' /\ pos[u] = p
    BY <1>2 DEF PushedCells, Cell
  <2>1. CASE p = pos[t]
    BY <2>1, <1>4, <1>8
  <2>2. CASE p # pos[t]
    <3>1. Cell(p) \in Cells /\ Cell(p) # k
      <4>1. p \in Nat /\ dequeuePos <= p /\ p < dequeuePos + Size
        BY <1>4, SizeAssumption
      <4> QED BY <4>1, <2>2, <1>10
    <3> QED BY <3>1, <2>2, <1>6, <1>8 DEF RingInv, PushedCells, Threads
  <2> QED BY <2>1, <2>2
<1>12. FreeCells'
  <2> SUFFICES ASSUME NEW p \in enqueuePos..(dequeuePos + Size - 1)
               PROVE  \/ seq'[Cell(p)] = p
                      \/ /\ seq'[Cell(p)] = p - Size + 1
                         /\ \E c \in Poppers : Owns(c)' /\ pos[c] = p - Size
    BY <1>2 DEF FreeCells, Cell
  <2>1. p \in Nat /\ p # pos[t] /\ dequeuePos <= p /\ p < dequeuePos + Size
    BY <1>3, <1>4, SizeAssumption
  <2>2. Cell(p) \in Cells /\ Cell(p) # k
    BY <2>1, <1>10
  <2> QED BY <2>2, <1>1, <1>6, <1>8 DEF RingInv, FreeCells, Threads
<1>13. PusherCells'
  <2> SUFFICES ASSUME NEW u \in Pushers
               PROVE  /\ Owns(u)' => /\ dequeuePos <= pos[u] /\ pos[u] < enqueuePos
                                     /\ seq'[Cell(pos[u])] = pos[u]
                                     /\ log[pos[u] + 1] = item'[u]
                      /\ pc'[u] = "publish" => data[Cell(pos[u])] = item'[u]
                      /\ pc'[u] = "cas" /\ pos[u] = enqueuePos =>
                           seq'[Cell(pos[u])] = pos[u]
                      /\ pc'[u] # "idle" => item'[u] \in Values
    BY <1>2 DEF PusherCells, Cell
  <2>1. CASE u = t
    BY <2>1, <1>7
  <2>2. CASE u # t
    <3>1. u \in Threads /\ pos[u] \in Nat
      BY <1>1 DEF Threads, TypeOK
    <3>2. ASSUME Owns(u) PROVE Cell(pos[u]) \in Cells /\ Cell(pos[u]) # k
      <4>1. pos[u] # pos[t] /\ dequeuePos <= pos[u] /\ pos[u] < enqueuePos
        BY <2>2, <3>2, <1>1, <1>3 DEF ClaimsDistinct, RingInv, PusherCells
      <4> QED BY <4>1, <3>1, <1>4, <1>10, SizeAssumption
    <3>3. ASSUME pc[u] = "cas", pos[u] = enqueuePos
          PROVE  seq'[Cell(pos[u])] = pos[u]
      <4>1. seq[Cell(pos[u])] = pos[u] /\ Cell(pos[u]) \in Cells
        BY <3>1, <3>3, CellDivision DEF RingInv, PusherCells
      <4>2. Cell(pos[u]) # k
        BY <4>1, <3>3, <1>3, <1>4
      <4> QED BY <4>1, <4>2, <1>8
    <3> QED BY <2>2, <3>1, <3>2, <3>3, <1>6, <1>8 DEF RingInv, PusherCells
  <2> QED BY <2>1, <2>2
<1>14. PopperCells'
  <2> SUFFICES ASSUME NEW c \in Poppers
               PROVE  /\ Owns(c) => /\ pos[c] < dequeuePos /\ enqueuePos <= pos[c] + Size
                                    /\ seq'[Cell(pos[c])] = pos[c] + 1
                      /\ pc[c] = "take" => data[Cell(pos[c])] = log[pos[c] + 1]
                      /\ pc[c] = "release" => item[c] = log[pos[c] + 1]
                      /\ pc[c] = "cas" /\ pos[c] = dequeuePos =>
                           seq'[Cell(pos[c])] = pos[c] + 1
    BY <1>1, <1>2, <1>6 DEF PopperCells, Threads, Cell
  <2>1. c \in Threads /\ pos[c] \in Nat /\ Cell(pos[c]) \in Cells
    BY <1>1, CellDivision DEF Threads, TypeOK
  <2>2. ASSUME Owns(c) PROVE Cell(pos[c]) # k
    <3>1. pos[c] < pos[t] /\ pos[t] < pos[c] + Size
      BY <2>1, <2>2, <1>3, <1>4, SizeAssumption DEF RingInv, PopperCells
    <3> QED BY <3>1, <2>1, <1>3, CellsDistinct
  <2>3. ASSUME pc[c] = "cas", pos[c] = dequeuePos
        PROVE  seq'[Cell(pos[c])] = pos[c] + 1
    <3>1. seq[Cell(pos[c])] = pos[c] + 1
      BY <2>3 DEF RingInv, PopperCells
    <3>2. Cell(pos[c]) # k
      <4> SUFFICES ASSUME Cell(pos[c]) = k PROVE FALSE
        OBVIOUS
      <4>1. pos[t] = pos[c] + 1
        BY <3>1, <1>4
      <4> QED BY <4>1, <2>1, CellsDistinct, SizeAssumption
    <3> QED BY <3>1, <3>2, <2>1, <1>8
  <2> QED BY <2>1, <2>2, <2>3, <1>8 DEF RingInv, PopperCells
<1> QED BY <1>5, <1>9, <1>11, <1>12, <1>13, <1>14 DEF RingInv

\* A popper that wins the compare-and-swap owns the cell of the position,
\* which its pusher has published.
LEMMA PopClaimStep ==
  ASSUME RingInv, NEW c \in Poppers, PopClaim(c)
  PROVE  RingInv'
<1> DEFINE H == enqueuePos
           T == dequeuePos
<1>1. c \in Threads /\ c \notin Pushers /\ TypeOK
  BY ThreadsAssumption DEF Threads, RingInv
<1>2. /\ H \in Nat /\ T \in Nat /\ pos[c] = T /\ T' = T + 1
      /\ UNCHANGED <<enqueuePos, seq, data, pos, item, log>>
      /\ pc[c] = "cas" /\ pc' = [pc EXCEPT ![c] = "take"]
  BY <1>1 DEF PopClaim, Goto, TypeOK
<1>3. seq[Cell(T)] = T + 1
  BY <1>2 DEF RingInv, PopperCells
<1>4. T < H /\ H <= T + Size
  <2>1. T <= H /\ H <= T + Size
    BY DEF RingInv, PositionsBounded
  <2>2. ASSUME T = H PROVE FALSE
    <3>1. seq[Cell(H)] = H \/ seq[Cell(H)] = H - Size + 1
      <4>1. H \in H..(T + Size - 1)
        BY <2>2, <1>2, SizeAssumption
      <4> QED BY <4>1 DEF RingInv, FreeCells
    <3> QED BY <3>1, <2>2, <1>2, <1>3, SizeAssumption
  <2> QED BY <2>1, <2>2, <1>2
<1>5. data[Cell(T)] = log[T + 1]
  <2>1. T \in T..(H - 1)
    BY <1>2, <1>4
  <2> QED BY <2>1, <1>2, <1>3 DEF RingInv, PushedCells
<1>6. TypeOK'
  BY <1>1, <1>2 DEF TypeOK, PopLabels
<1>7. \A u \in Threads : u # c => pc'[u] = pc[u] /\ (Owns(u)' <=> Owns(u))
  BY <1>1, <1>2 DEF TypeOK, Owns
<1>8. Owns(c)' /\ pc'[c] = "take"
  BY <1>1, <1>2 DEF TypeOK, Owns
<1>9. PositionsBounded'
  BY <1>1, <1>2, <1>4, SizeAssumption
  DEF RingInv, TypeOK, PositionsBounded, Threads
<1>10. PushedCells'
  BY <1>1, <1>2, <1>7 DEF RingInv, PushedCells, Threads, Cell
<1>11. FreeCells'
  <2> SUFFICES ASSUME NEW p \in H..(T + Size)
               PROVE  \/ seq[Cell(p)] = p
                      \/ /\ seq[Cell(p)] = p - Size + 1
                         /\ \E d \in Poppers : Owns(d)' /\ pos[d] = p - Size
    BY <1>2, SizeAssumption DEF FreeCells, Cell
  <2>1. CASE p = T + Size
    <3>1. Cell(p) = Cell(T)
      BY <2>1, <1>2, CellNextRound
    <3>2. p - Size = T
      BY <2>1, <1>2, SizeAssumption
    <3> QED BY <3>1, <3>2, <1>2, <1>3, <1>8
  <2>2. CASE p # T + Size
    <3>1. p \in H..(T + Size - 1)
      BY <2>2, <1>2, SizeAssumption
    <3> QED BY <3>1, <1>7, <1>8 DEF RingInv, FreeCells, Threads
  <2> QED BY <2>1, <2>2
<1>12. PusherCells'
  <2> SUFFICES ASSUME NEW t \in Pushers, Owns(t)
               PROVE  T + 1 <= pos[t]
    BY <1>1, <1>2, <1>7 DEF RingInv, PusherCells, Threads, Cell
  <2>1. T <= pos[t] /\ seq[Cell(pos[t])] = pos[t] /\ pos[t] \in Nat
    BY <1>1 DEF RingInv, PusherCells, TypeOK, Threads
  <2> QED BY <2>1, <1>2, <1>3
<1>13. PopperCells'
  <2> SUFFICES ASSUME NEW d \in Poppers
               PROVE  /\ Owns(d)' => /\ pos[d] < T + 1 /\ H <= pos[d] + Size
                                     /\ seq[Cell(pos[d])] = pos[d] + 1
                      /\ pc'[d] = "take" => data[Cell(pos[d])] = log[pos[d] + 1]
                      /\ pc'[d] = "release" => item[d] = log[pos[d] + 1]
                      /\ pc'[d] = "cas" /\ pos[d] = T + 1 =>
                           seq[Cell(pos[d])] = pos[d] + 1
    BY <1>2 DEF PopperCells, Cell
  <2>1. CASE d = c
    BY <2>1, <1>2, <1>3, <1>4, <1>5, <1>8
  <2>2. CASE d # c
    <3>1. pos[d] \in Nat /\ pos[d] <= T /\ d \in Threads
      BY <1>1 DEF RingInv, PositionsBounded, TypeOK, Threads
    <3> QED BY <3>1, <2>2, <1>2, <1>7 DEF RingInv, PopperCells
  <2> QED BY <2>1, <2>2
<1>14. ClaimsDistinct'
  <2>1. \A d \in Poppers : d # c /\ Owns(d) => pos[d] # T
    BY <1>1, <1>2 DEF RingInv, TypeOK, PopperCells, Threads
  <2> QED BY <2>1, <1>1, <1>2, <1>7 DEF RingInv, ClaimsDistinct, Threads
<1> QED BY <1>6, <1>9, <1>10, <1>11, <1>12, <1>13, <1>14 DEF RingInv

\* Moving the value out touches only the popper's own cell, which no pushed
\* position and no other thread is using.
LEMMA PopTakeStep ==
  ASSUME RingInv, NEW c \in Poppers, PopTake(c)
  PROVE  RingInv'
<1> DEFINE k == Cell(pos[c])
<1>1. c \in Threads /\ c \notin Pushers /\ TypeOK /\ ClaimsDistinct
  BY ThreadsAssumption DEF Threads, RingInv
<1>2. /\ UNCHANGED <<enqueuePos, dequeuePos, seq, pos, log>>
      /\ pc[c] = "take" /\ pc' = [pc EXCEPT ![c] = "release"]
      /\ item' = [item EXCEPT ![c] = data[k]]
      /\ data' = [data EXCEPT ![k] = None]
  BY DEF PopTake, Goto
<1>3. pos[c] \in Nat /\ k \in Cells /\ Owns(c)
  BY <1>1, <1>2, CellDivision DEF TypeOK, Owns
<1>4. /\ pos[c] < dequeuePos /\ enqueuePos <= pos[c] + Size
      /\ seq[k] = pos[c] + 1 /\ data[k] = log[pos[c] + 1]
      /\ dequeuePos \in Nat /\ enqueuePos \in Nat
  BY <1>1, <1>2, <1>3 DEF RingInv, PopperCells, TypeOK
<1>5. TypeOK'
  BY <1>1, <1>2, <1>3 DEF TypeOK, PopLabels
<1>6. \A u \in Threads : Owns(u)' <=> Owns(u)
  BY <1>1, <1>2 DEF TypeOK, Owns
<1>7. \A u \in Threads : u # c => pc'[u] = pc[u] /\ item'[u] = item[u]
  BY <1>1, <1>2 DEF TypeOK
<1>8. /\ item'[c] = data[k] /\ pc'[c] = "release"
      /\ \A i \in Cells : i # k => data'[i] = data[i]
  BY <1>1, <1>2, <1>3 DEF TypeOK
<1>9. PositionsBounded' /\ ClaimsDistinct' /\ FreeCells'
  BY <1>2, <1>6
  DEF RingInv, PositionsBounded, ClaimsDistinct, FreeCells, Threads, Cell
<1>10. \A p \in Nat : dequeuePos <= p /\ p < enqueuePos
                        => Cell(p) \in Cells /\ Cell(p) # k
  <2> TAKE p \in Nat
  <2> HAVE dequeuePos <= p /\ p < enqueuePos
  <2>1. pos[c] < p /\ p < pos[c] + Size
    BY <1>3, <1>4, SizeAssumption
  <2> QED BY <2>1, <1>3, CellsDistinct, CellDivision
<1>11. PushedCells'
  <2> SUFFICES ASSUME NEW p \in dequeuePos..(enqueuePos - 1)
               PROVE  \/ seq[Cell(p)] = p + 1 /\ data'[Cell(p)] = log[p + 1]
                      \/ seq[Cell(p)] = p /\ \E u \in Pushers : Owns(u)' /\ pos[u] = p
    BY <1>2 DEF PushedCells, Cell
  <2>1. p \in Nat /\ dequeuePos <= p /\ p < enqueuePos
    BY <1>4
  <2>2. Cell(p) \in Cells /\ Cell(p) # k
    BY <2>1, <1>10
  <2> QED BY <2>2, <1>6, <1>8 DEF RingInv, PushedCells, Threads
<1>12. PusherCells'
  <2> SUFFICES ASSUME NEW t \in Pushers, pc[t] = "publish"
               PROVE  data'[Cell(pos[t])] = item[t]
    BY <1>1, <1>2, <1>6, <1>7 DEF RingInv, PusherCells, Threads, Cell
  <2>1. t \in Threads /\ Owns(t) /\ pos[t] \in Nat
    BY <1>1 DEF Threads, Owns, TypeOK
  <2>2. dequeuePos <= pos[t] /\ pos[t] < enqueuePos /\ data[Cell(pos[t])] = item[t]
    BY <2>1 DEF RingInv, PusherCells
  <2> QED BY <2>1, <2>2, <1>8, <1>10
<1>13. PopperCells'
  <2> SUFFICES ASSUME NEW d \in Poppers
               PROVE  /\ pc'[d] = "take" => data'[Cell(pos[d])] = log[pos[d] + 1]
                      /\ pc'[d] = "release" => item'[d] = log[pos[d] + 1]
                      /\ pc'[d] = "cas" => pc[d] = "cas"
    BY <1>2, <1>6 DEF RingInv, PopperCells, Threads, Cell
  <2>1. CASE d = c
    BY <2>1, <1>4, <1>8
  <2>2. CASE d # c
    <3>1. d \in Threads /\ pos[d] \in Nat /\ Cell(pos[d]) \in Cells
      BY <1>1, CellDivision DEF Threads, TypeOK
    <3>2. ASSUME pc[d] = "take" PROVE Cell(pos[d]) # k
      <4>1. /\ Owns(d) /\ pos[d] # pos[c]
            /\ seq[Cell(pos[d])] = pos[d] + 1
        BY <3>1, <3>2, <2>2, <1>1, <1>3 DEF Owns, ClaimsDistinct, RingInv, PopperCells
      <4> QED BY <4>1, <3>1, <1>3, <1>4
    <3> QED BY <2>2, <3>1, <3>2, <1>7, <1>8 DEF RingInv, PopperCells
  <2> QED BY <2>1, <2>2
<1> QED BY <1>5, <1>9, <1>11, <1>12, <1>13 DEF RingInv

\* Releasing hands the emptied cell to the pusher of the next round.
LEMMA PopReleaseStep ==
  ASSUME RingInv, NEW c \in Poppers, PopRelease(c)
  PROVE  RingInv'
<1> DEFINE k == Cell(pos[c])
           T == dequeuePos
           H == enqueuePos
<1>1. c \in Threads /\ c \notin Pushers /\ TypeOK /\ ClaimsDistinct
  BY ThreadsAssumption DEF Threads, RingInv
<1>2. /\ UNCHANGED <<enqueuePos, dequeuePos, data, pos, item, log>>
      /\ pc[c] = "release" /\ pc' = [pc EXCEPT ![c] = "idle"]
      /\ seq' = [seq EXCEPT ![k] = pos[c] + Size]
  BY DEF PopRelease, Goto
<1>3. pos[c] \in Nat /\ k \in Cells /\ Owns(c)
  BY <1>1, <1>2, CellDivision DEF TypeOK, Owns
<1>4. /\ pos[c] < T /\ H <= pos[c] + Size /\ T <= H
      /\ seq[k] = pos[c] + 1 /\ T \in Nat /\ H \in Nat
  BY <1>1, <1>2, <1>3 DEF RingInv, PopperCells, TypeOK, PositionsBounded
<1>5. TypeOK'
  BY <1>1, <1>2, <1>3, SizeAssumption DEF TypeOK, PopLabels
<1>6. \A u \in Threads : u # c => pc'[u] = pc[u] /\ (Owns(u)' <=> Owns(u))
  BY <1>1, <1>2 DEF TypeOK, Owns
<1>7. ~ Owns(c)' /\ pc'[c] = "idle"
  BY <1>1, <1>2 DEF TypeOK, Owns
<1>8. /\ seq'[k] = pos[c] + Size
      /\ \A i \in Cells : i # k => seq'[i] = seq[i]
  BY <1>1, <1>2, <1>3 DEF TypeOK
<1>9. PositionsBounded' /\ ClaimsDistinct'
  BY <1>2, <1>6, <1>7 DEF RingInv, PositionsBounded, ClaimsDistinct, Threads
<1>10. \A p \in Nat : T <= p /\ p < pos[c] + Size
                        => Cell(p) \in Cells /\ Cell(p) # k
  <2> TAKE p \in Nat
  <2> HAVE T <= p /\ p < pos[c] + Size
  <2>1. pos[c] < p /\ p < pos[c] + Size
    BY <1>3, <1>4, SizeAssumption
  <2> QED BY <2>1, <1>3, CellsDistinct, CellDivision
<1>11. PushedCells'
  <2> SUFFICES ASSUME NEW p \in T..(H - 1)
               PROVE  \/ seq'[Cell(p)] = p + 1 /\ data[Cell(p)] = log[p + 1]
                      \/ seq'[Cell(p)] = p /\ \E u \in Pushers : Owns(u)' /\ pos[u] = p
    BY <1>2 DEF PushedCells, Cell
  <2>1. p \in Nat /\ T <= p /\ p < pos[c] + Size
    BY <1>3, <1>4, SizeAssumption
  <2>2. Cell(p) \in Cells /\ Cell(p) # k
    BY <2>1, <1>10
  <2> QED BY <2>2, <1>1, <1>6, <1>8 DEF RingInv, PushedCells, Threads
<1>12. FreeCells'
  <2> SUFFICES ASSUME NEW p \in H..(T + Size - 1)
               PROVE  \/ seq'[Cell(p)] = p
                      \/ /\ seq'[Cell(p)] = p - Size + 1
                         /\ \E d \in Poppers : Owns(d)' /\ pos[d] = p - Size
    BY <1>2 DEF FreeCells, Cell
  <2>1. CASE p = pos[c] + Size
    <3>1. Cell(p) = k
      BY <2>1, <1>3, CellNextRound
    <3> QED BY <3>1, <2>1, <1>8
  <2>2. CASE p # pos[c] + Size
    <3>1. p \in Nat /\ Cell(p) \in Cells
      BY <1>4, CellDivision, SizeAssumption
    <3>2. \/ seq[Cell(p)] = p
          \/ /\ seq[Cell(p)] = p - Size + 1
             /\ \E d \in Poppers : Owns(d) /\ pos[d] = p - Size
      BY DEF RingInv, FreeCells
    <3>3. Cell(p) # k
      <4> SUFFICES ASSUME Cell(p) = k PROVE FALSE
        OBVIOUS
      <4>1. p = pos[c] + 1
        BY <3>1, <3>2, <2>2, <1>3, <1>4, SizeAssumption
      <4> QED BY <4>1, <1>3, CellsDistinct, SizeAssumption
    <3>4. p - Size # pos[c]
      BY <3>1, <2>2, <1>3, SizeAssumption
    <3> QED BY <3>1, <3>2, <3>3, <3>4, <1>6, <1>8 DEF Threads
  <2> QED BY <2>1, <2>2
<1>13. PusherCells'
  <2> SUFFICES ASSUME NEW t \in Pushers
               PROVE  /\ Owns(t) => seq'[Cell(pos[t])] = pos[t]
                      /\ pc[t] = "cas" /\ pos[t] = H => seq'[Cell(pos[t])] = pos[t]
    BY <1>1, <1>2, <1>6 DEF RingInv, PusherCells, Threads, Cell
  <2>1. t \in Threads /\ pos[t] \in Nat /\ Cell(pos[t]) \in Cells
    BY <1>1, CellDivision DEF Threads, TypeOK
  <2>2. ASSUME Owns(t) \/ (pc[t] = "cas" /\ pos[t] = H)
        PROVE  seq[Cell(pos[t])] = pos[t] /\ T <= pos[t]
    BY <2>2, <1>4 DEF RingInv, PusherCells
  <2>3. ASSUME Owns(t) \/ (pc[t] = "cas" /\ pos[t] = H)
        PROVE  Cell(pos[t]) # k
    <3> SUFFICES ASSUME Cell(pos[t]) = k PROVE FALSE
      OBVIOUS
    <3>1. pos[t] = pos[c] + 1
      BY <2>2, <2>3, <1>4
    <3> QED BY <3>1, <1>3, CellsDistinct, SizeAssumption
  <2> QED BY <2>1, <2>2, <2>3, <1>8
<1>14. PopperCells'
  <2> SUFFICES ASSUME NEW d \in Poppers
               PROVE  /\ Owns(d)' => seq'[Cell(pos[d])] = pos[d] + 1
                      /\ pc'[d] \in {"take", "release", "cas"} => pc'[d] = pc[d]
                      /\ pc[d] = "cas" /\ pos[d] = T => seq'[Cell(pos[d])] = pos[d] + 1
                      /\ Owns(d)' => Owns(d)
    BY <1>2 DEF RingInv, PopperCells, Cell
  <2>1. d \in Threads /\ pos[d] \in Nat /\ Cell(pos[d]) \in Cells
    BY <1>1, CellDivision DEF Threads, TypeOK
  <2>2. CASE d = c
    BY <2>2, <1>2, <1>7
  <2>3. CASE d # c
    <3>1. ASSUME Owns(d) \/ (pc[d] = "cas" /\ pos[d] = T)
          PROVE  Cell(pos[d]) # k /\ seq[Cell(pos[d])] = pos[d] + 1
      <4>1. seq[Cell(pos[d])] = pos[d] + 1
        BY <3>1 DEF RingInv, PopperCells
      <4>2. pos[d] # pos[c]
        BY <3>1, <2>3, <1>1, <1>3, <1>4 DEF ClaimsDistinct
      <4> QED BY <4>1, <4>2, <2>1, <1>3, <1>4
    <3> QED BY <2>1, <2>3, <3>1, <1>6, <1>8
  <2> QED BY <2>2, <2>3
<1> QED BY <1>5, <1>9, <1>11, <1>12, <1>13, <1>14 DEF RingInv

\* A step that changes no variable changes no part of the invariant.
LEMMA RingStutter == RingInv /\ UNCHANGED vars => RingInv'
BY DEF RingInv, TypeOK, PositionsBounded, PushedCells, FreeCells, PusherCells,
       PopperCells, ClaimsDistinct, Owns, Cell, vars

\* Every step of every thread preserves the invariant of the ring.
LEMMA RingStep == RingInv /\ [Next]_vars => RingInv'
<1> SUFFICES ASSUME RingInv, [Next]_vars PROVE RingInv'
  OBVIOUS
<1>1. ASSUME NEW t \in Pushers, Push(t) PROVE RingInv'
  BY <1>1, PushPrivate, PushClaimStep, PushWriteStep, PushPublishStep DEF Push
<1>2. ASSUME NEW c \in Poppers, Pop(c) PROVE RingInv'
  BY <1>2, PopPrivate, PopClaimStep, PopTakeStep, PopReleaseStep DEF Pop
<1> QED BY <1>1, <1>2, RingStutter DEF Next

-----------------------------------------------------------------------------
(* What the invariant gives                                                *)

\* The ring of the queue is consistent in every reachable state, for every
\* number of threads and every capacity.
THEOREM RingIsConsistent == Spec => []RingInv
BY InitRing, RingStep, PTL DEF Spec

\* No two threads ever own the same cell: push and pop never race on
\* cell->data.
THEOREM CellsNeverShared == Spec => []CellOwnersExclusive
<1>1. RingInv => CellOwnersExclusive
  <2> SUFFICES ASSUME RingInv, NEW t \in Threads, NEW u \in Threads,
                      t # u, Owns(t), Owns(u), Cell(pos[t]) = Cell(pos[u])
               PROVE  FALSE
    BY DEF CellOwnersExclusive
  <2>1. pos[t] \in Nat /\ pos[u] \in Nat
    BY DEF RingInv, TypeOK
  <2>2. ASSUME NEW a \in Pushers, NEW b \in Poppers,
               Owns(a), Owns(b), Cell(pos[a]) = Cell(pos[b])
        PROVE  FALSE
    <3>1. /\ pos[a] = pos[b] + 1 /\ pos[a] \in Nat /\ pos[b] \in Nat
      BY <2>2 DEF RingInv, TypeOK, PusherCells, PopperCells, Threads
    <3> QED BY <2>2, <3>1, CellsDistinct, SizeAssumption
  <2>3. CASE t \in Pushers /\ u \in Pushers
    BY <2>3, <2>1 DEF RingInv, PusherCells, ClaimsDistinct
  <2>4. CASE t \in Poppers /\ u \in Poppers
    BY <2>4, <2>1 DEF RingInv, PopperCells, ClaimsDistinct
  <2> QED BY <2>2, <2>3, <2>4 DEF Threads
<1> QED BY <1>1, RingIsConsistent, PTL

\* The value a pop hands out is the one pushed at the position it claimed.
THEOREM PopsTakeTheirOwn == Spec => []TakesOwnPosition
<1>1. RingInv => TakesOwnPosition
  BY DEF RingInv, PopperCells, TakesOwnPosition
<1> QED BY <1>1, RingIsConsistent, PTL

\* The sequence number of a cell is never behind a position already pushed
\* by more than the thread that works on it can explain.
LEMMA SequenceNotBehind ==
  ASSUME RingInv, NEW a \in Nat
  PROVE  /\ a < enqueuePos => seq[Cell(a)] >= a
         /\ a < dequeuePos => seq[Cell(a)] >= a + 1
<1> DEFINE H == enqueuePos
           T == dequeuePos
<1>1. H \in Nat /\ T \in Nat /\ T <= H /\ H <= T + Size
  BY DEF RingInv, TypeOK, PositionsBounded
<1> SUFFICES ASSUME a < H
             PROVE  seq[Cell(a)] >= a /\ (a < T => seq[Cell(a)] >= a + 1)
  BY <1>1
<1>2. PICK p \in T..(T + Size - 1) : Cell(p) = Cell(a) /\ (p = a \/ p >= a + Size)
  BY <1>1, CellInWindow, SizeAssumption
<1>3. CASE p \in T..(H - 1)
  <2>1. seq[Cell(p)] = p \/ seq[Cell(p)] = p + 1
    BY <1>3 DEF RingInv, PushedCells
  <2> QED BY <2>1, <1>1, <1>2, SizeAssumption
<1>4. CASE p \in H..(T + Size - 1)
  <2>1. seq[Cell(p)] = p \/ seq[Cell(p)] = p - Size + 1
    BY <1>4 DEF RingInv, FreeCells
  <2>2. p >= a + Size
    BY <1>1, <1>2, <1>4
  <2> QED BY <2>1, <2>2, <1>1, <1>2, SizeAssumption
<1> QED BY <1>1, <1>2, <1>3, <1>4, SizeAssumption

\* A push that reports a full queue saw one: Size values are outstanding, or
\* the pop that frees its cell is not finished.
THEOREM FullMeansFull == Spec => []FullIsJustified
<1>1. RingInv => FullIsJustified
  <2> SUFFICES ASSUME RingInv, NEW t \in Pushers, PushFull(t),
                      enqueuePos - dequeuePos < Size
               PROVE  \E c \in Poppers : Owns(c) /\ pos[c] = enqueuePos - Size
    BY SizeAssumption DEF FullIsJustified, RingInv, TypeOK
  <2>1. /\ pos[t] \in Nat /\ pos[t] <= enqueuePos
        /\ enqueuePos \in Nat /\ dequeuePos \in Nat
    BY DEF RingInv, TypeOK, PositionsBounded, Threads
  <2>2. seq[Cell(pos[t])] < pos[t]
    BY DEF PushFull
  <2>3. pos[t] = enqueuePos
    <3>1. pos[t] < enqueuePos => seq[Cell(pos[t])] >= pos[t]
      BY <2>1, SequenceNotBehind
    <3>2. seq[Cell(pos[t])] \in Nat
      BY <2>1, CellDivision DEF RingInv, TypeOK
    <3> QED BY <3>1, <3>2, <2>1, <2>2
  <2>4. enqueuePos \in enqueuePos..(dequeuePos + Size - 1)
    BY <2>1, SizeAssumption
  <2> QED BY <2>1, <2>2, <2>3, <2>4 DEF RingInv, FreeCells
<1> QED BY <1>1, RingIsConsistent, PTL

\* A pop that reports an empty queue saw one: nothing is outstanding, or the
\* oldest value is claimed and not yet published.
THEOREM EmptyMeansEmpty == Spec => []EmptyIsJustified
<1>1. RingInv => EmptyIsJustified
  <2> SUFFICES ASSUME RingInv, NEW c \in Poppers, PopEmpty(c),
                      dequeuePos # enqueuePos
               PROVE  \E t \in Pushers : Owns(t) /\ pos[t] = dequeuePos
    BY DEF EmptyIsJustified
  <2>1. /\ pos[c] \in Nat /\ pos[c] <= dequeuePos /\ dequeuePos < enqueuePos
        /\ enqueuePos \in Nat /\ dequeuePos \in Nat
    BY DEF RingInv, TypeOK, PositionsBounded, Threads
  <2>2. seq[Cell(pos[c])] < pos[c] + 1
    BY DEF PopEmpty
  <2>3. pos[c] = dequeuePos
    <3>1. pos[c] < dequeuePos => seq[Cell(pos[c])] >= pos[c] + 1
      BY <2>1, SequenceNotBehind
    <3>2. seq[Cell(pos[c])] \in Nat
      BY <2>1, CellDivision DEF RingInv, TypeOK
    <3> QED BY <3>1, <3>2, <2>1, <2>2
  <2>4. dequeuePos \in dequeuePos..(enqueuePos - 1)
    BY <2>1
  <2> QED BY <2>1, <2>2, <2>3, <2>4 DEF RingInv, PushedCells
<1> QED BY <1>1, RingIsConsistent, PTL

-----------------------------------------------------------------------------
(* The refinement of BoundedFifo                                           *)

\* Claiming a position appends to, or drops the head of, the queued values.
LEMMA QueueWindow ==
  ASSUME NEW s \in Seq(Values), NEW lo \in Nat, lo <= Len(s)
  PROVE  /\ Len(SubSeq(s, lo + 1, Len(s))) = Len(s) - lo
         /\ \A v \in Values : SubSeq(Append(s, v), lo + 1, Len(s) + 1)
                               = Append(SubSeq(s, lo + 1, Len(s)), v)
         /\ lo < Len(s) =>
              /\ SubSeq(s, lo + 1, Len(s)) # <<>>
              /\ Head(SubSeq(s, lo + 1, Len(s))) = s[lo + 1]
              /\ Tail(SubSeq(s, lo + 1, Len(s))) = SubSeq(s, lo + 2, Len(s))
<1>1. SubSeq(s, lo + 1, Len(s)) \in Seq(Values)
  BY SubSeqProperties
<1>2. Len(SubSeq(s, lo + 1, Len(s))) = Len(s) - lo
  BY SubSeqProperties
<1>3. ASSUME NEW v \in Values
      PROVE  SubSeq(Append(s, v), lo + 1, Len(s) + 1)
               = Append(SubSeq(s, lo + 1, Len(s)), v)
  <2> DEFINE a == SubSeq(Append(s, v), lo + 1, Len(s) + 1)
             b == Append(SubSeq(s, lo + 1, Len(s)), v)
             n == Len(s) - lo
  <2>1. Append(s, v) \in Seq(Values) /\ Len(Append(s, v)) = Len(s) + 1
    BY AppendProperties
  <2>2. a \in Seq(Values) /\ Len(a) = n + 1
    BY <2>1, SubSeqProperties
  <2>3. \A i \in 1..(n + 1) : a[i] = Append(s, v)[lo + i]
    BY <2>1, SubSeqProperties
  <2>4. b \in Seq(Values) /\ Len(b) = n + 1 /\ b[n + 1] = v
    BY <1>1, <1>2, AppendProperties
  <2>5. \A i \in 1..n : b[i] = s[lo + i]
    <3>1. \A i \in 1..n : SubSeq(s, lo + 1, Len(s))[i] = s[lo + i]
      BY SubSeqProperties
    <3> QED BY <3>1, <1>1, <1>2, AppendProperties
  <2> HIDE DEF a, b
  <2>6. \A i \in 1..(n + 1) : a[i] = b[i]
    <3> TAKE i \in 1..(n + 1)
    <3>1. CASE i = n + 1
      BY <3>1, <2>3, <2>4, AppendProperties
    <3>2. CASE i \in 1..n
      <4>1. Append(s, v)[lo + i] = s[lo + i]
        BY <3>2, AppendProperties
      <4> QED BY <3>2, <4>1, <2>3, <2>5
    <3> QED BY <3>1, <3>2
  <2>7. a = b
    BY <2>2, <2>4, <2>6, SeqEqual
  <2> QED BY <2>7 DEF a, b
<1>4. ASSUME lo < Len(s)
      PROVE  /\ SubSeq(s, lo + 1, Len(s)) # <<>>
             /\ Head(SubSeq(s, lo + 1, Len(s))) = s[lo + 1]
             /\ Tail(SubSeq(s, lo + 1, Len(s))) = SubSeq(s, lo + 2, Len(s))
  <2>1. SubSeq(s, lo + 1, Len(s)) # <<>>
    <3>1. Len(<<>>) = 0
      BY EmptySeq
    <3>2. Len(s) - lo # 0
      BY <1>4
    <3> QED BY <1>2, <3>1, <3>2, Zenon
  <2>2. lo + 1 \in 1..Len(s) /\ Len(s) \in (lo + 1)..Len(s)
    BY <1>4
  <2> QED BY <2>1, <2>2, HeadTailOfSubSeq
<1> QED BY <1>2, <1>3, <1>4

\* The refinement mapping at a state of the ring.
Queued == SubSeq(log, dequeuePos + 1, enqueuePos)
Received == [c \in Poppers |-> Got(c)]

\* A step that moves neither counter and appends nothing leaves the queue
\* alone, and the poppers' results too if each one's expected value is kept.
LEMMA FifoStutter ==
  ASSUME UNCHANGED <<enqueuePos, dequeuePos, log>>,
         \A c \in Poppers : Got(c)' = Got(c)
  PROVE  UNCHANGED Fifo!vars
<1>1. Queued' = Queued
  BY DEF Queued
<1>2. Received' = Received
  BY DEF Received
<1> QED BY <1>1, <1>2 DEF Fifo!vars, Queued, Received

LEMMA FifoInit == Init => Fifo!Init
<1> SUFFICES ASSUME Init PROVE Fifo!Init
  OBVIOUS
<1>1. SubSeq(log, dequeuePos + 1, enqueuePos) = <<>>
  BY SubSeqEmpty DEF Init
<1>2. \A c \in Poppers : Got(c) = None
  BY DEF Init, Got, Threads
<1> QED BY <1>1, <1>2 DEF Fifo!Init

\* The claim of a push is an Enqueue, the claim of a pop is a Dequeue, and
\* every other step leaves the abstract queue as it is.
LEMMA FifoStep == RingInv /\ RingInv' /\ [Next]_vars => [Fifo!Next]_Fifo!vars
<1> SUFFICES ASSUME RingInv, RingInv', [Next]_vars
             PROVE  Fifo!Next \/ UNCHANGED Fifo!vars
  OBVIOUS
<1>1. /\ TypeOK /\ log \in Seq(Values) /\ Len(log) = enqueuePos
      /\ dequeuePos \in Nat /\ enqueuePos \in Nat
      /\ dequeuePos <= enqueuePos
      /\ \A c \in Poppers : c \in Threads /\ c \notin Pushers
  BY ThreadsAssumption DEF RingInv, TypeOK, PositionsBounded, Threads
<1>2. ASSUME NEW t \in Pushers, PushClaim(t) PROVE Fifo!Next
  <2>1. /\ enqueuePos' = enqueuePos + 1 /\ log' = Append(log, item[t])
        /\ dequeuePos' = dequeuePos /\ item' = item /\ pos' = pos
        /\ pc' = [pc EXCEPT ![t] = "write"] /\ pc[t] = "cas"
        /\ item[t] \in Values
    BY <1>2 DEF PushClaim, Goto, RingInv, PusherCells
  <2>2. /\ Len(Queued) = enqueuePos - dequeuePos
        /\ Queued' = Append(Queued, item[t])
    BY <1>1, <2>1, QueueWindow DEF Queued
  <2>3. Len(Queued) < Size
    <3>1. enqueuePos' <= dequeuePos' + Size
      BY DEF RingInv, PositionsBounded
    <3> QED BY <3>1, <2>1, <2>2, <1>1, SizeAssumption
  <2>4. \A c \in Poppers : Got(c)' = Got(c)
    <3> TAKE c \in Poppers
    <3>1. pc'[c] = pc[c]
      BY <1>1, <2>1 DEF TypeOK
    <3>2. CASE pc[c] = "take"
      <4>1. pos[c] + 1 \in 1..enqueuePos
        BY <3>2, <1>1 DEF RingInv, PopperCells, Owns, TypeOK
      <4> QED BY <3>1, <3>2, <4>1, <1>1, <2>1, AppendProperties DEF Got
    <3>3. CASE pc[c] # "take"
      BY <3>1, <3>3, <2>1 DEF Got
    <3> QED BY <3>2, <3>3
  <2>5. Received' = Received
    BY <2>4 DEF Received
  <2> QED BY <2>1, <2>2, <2>3, <2>5 DEF Fifo!Next, Fifo!Enqueue, Queued, Received
<1>3. ASSUME NEW c \in Poppers, PopClaim(c) PROVE Fifo!Next
  <2>1. /\ enqueuePos' = enqueuePos /\ log' = log /\ item' = item /\ pos' = pos
        /\ dequeuePos' = dequeuePos + 1 /\ pos[c] = dequeuePos
        /\ pc' = [pc EXCEPT ![c] = "take"] /\ pc[c] = "cas"
    BY <1>3 DEF PopClaim, Goto
  <2>2. dequeuePos < enqueuePos
    <3>1. dequeuePos' <= enqueuePos'
      BY DEF RingInv, PositionsBounded
    <3> QED BY <3>1, <2>1, <1>1
  <2>3. /\ Queued # <<>> /\ Head(Queued) = log[dequeuePos + 1]
        /\ Queued' = Tail(Queued)
    <3>1. Queued' = SubSeq(log, dequeuePos + 2, enqueuePos)
      BY <1>1, <2>1 DEF Queued
    <3> QED BY <3>1, <1>1, <2>2, QueueWindow DEF Queued
  <2>4. Got(c)' = Head(Queued)
    BY <1>1, <2>1, <2>3 DEF Got, TypeOK
  <2>5. \A d \in Poppers : d # c => Got(d)' = Got(d)
    BY <1>1, <2>1 DEF Got, TypeOK
  <2>6. Received' = [Received EXCEPT ![c] = Head(Queued)]
    BY <2>4, <2>5 DEF Received
  <2> QED BY <2>3, <2>6 DEF Fifo!Next, Fifo!Dequeue, Queued, Received
<1>4. ASSUME NEW c \in Poppers, PopTake(c) PROVE UNCHANGED Fifo!vars
  <2>1. /\ UNCHANGED <<enqueuePos, dequeuePos, log, pos>>
        /\ pc[c] = "take" /\ pc' = [pc EXCEPT ![c] = "release"]
        /\ item' = [item EXCEPT ![c] = data[Cell(pos[c])]]
        /\ data[Cell(pos[c])] = log[pos[c] + 1]
    BY <1>4 DEF PopTake, Goto, RingInv, PopperCells
  <2>2. \A d \in Poppers : Got(d)' = Got(d)
    BY <1>1, <2>1 DEF Got, TypeOK
  <2> QED BY <2>1, <2>2, FifoStutter
<1>5. ASSUME NEW c \in Poppers,
             \/ PopBegin(c) \/ PopLoad(c) \/ PopCheck(c)
             \/ PopClaimFails(c) \/ PopRelease(c)
      PROVE  UNCHANGED Fifo!vars
  <2>1. /\ UNCHANGED <<enqueuePos, dequeuePos, log, item>>
        /\ pc[c] # "take" /\ pc'[c] # "take"
        /\ \A d \in Poppers : d # c => pc'[d] = pc[d] /\ pos'[d] = pos[d]
    BY <1>1, <1>5 DEF PopBegin, PopLoad, PopCheck, PopClaimFails, PopRelease,
                      Goto, TypeOK
  <2>2. \A d \in Poppers : Got(d)' = Got(d)
    BY <2>1 DEF Got
  <2> QED BY <2>1, <2>2, FifoStutter
<1>6. ASSUME NEW t \in Pushers,
             \/ \E v \in Values : PushBegin(t, v)
             \/ PushLoad(t) \/ PushCheck(t) \/ PushClaimFails(t)
             \/ PushWrite(t) \/ PushPublish(t)
      PROVE  UNCHANGED Fifo!vars
  <2>1. /\ UNCHANGED <<enqueuePos, dequeuePos, log>>
        /\ \A d \in Poppers : pc'[d] = pc[d] /\ pos'[d] = pos[d] /\ item'[d] = item[d]
    BY <1>1, <1>6 DEF PushBegin, PushLoad, PushCheck, PushClaimFails, PushWrite,
                      PushPublish, Goto, TypeOK
  <2>2. \A d \in Poppers : Got(d)' = Got(d)
    BY <2>1 DEF Got
  <2> QED BY <2>1, <2>2, FifoStutter
<1>7. ASSUME UNCHANGED vars PROVE UNCHANGED Fifo!vars
  <2>1. \A c \in Poppers : Got(c)' = Got(c)
    BY <1>7 DEF vars, Got
  <2> QED BY <1>7, <2>1, FifoStutter DEF vars
<1> QED BY <1>2, <1>3, <1>4, <1>5, <1>6, <1>7 DEF Next, Push, Pop

\* MPMCBoundedQueue is a bounded FIFO, whatever the number of threads, the
\* capacity and the interleaving.
THEOREM QueueIsFifo == Spec => FifoSpec
BY FifoInit, FifoStep, RingIsConsistent, PTL DEF Spec, FifoSpec, Fifo!Spec
=============================================================================
