------------------------- MODULE AmqpTransportProofs --------------------------
(***************************************************************************)
(* Proofs about the way of a request, for every number of requests,        *)
(* threads and every size of the ring and the window: a delivery is at one *)
(* place of the process, is settled once, after its result, and holds its  *)
(* place of the window unworked only after a failure.                      *)
(***************************************************************************)
EXTENDS AmqpTransport, SequenceTheorems, TLAPS

Calls == [kind : {"reply"}, msg : Messages, status : Statuses]
         \cup [kind : {"settle"}, msg : Messages, status : Verdicts]

\* The variables that only take a few values.
StatesOK ==
  /\ up \in BOOLEAN /\ exits \in 0..MaxExits
  /\ wpc \in [Workers -> WorkerLabels] /\ sent \in [Workers -> Nat]
  /\ task \in [Workers -> Messages \cup {None}] /\ threw \subseteq Messages

AccountOK ==
  /\ ready \subseteq Messages /\ unacked \subseteq Messages
  /\ acked \subseteq Messages /\ dropped \subseteq Messages
  /\ ready \cup unacked \cup acked \cup dropped = Messages
  /\ ready \cap (unacked \cup acked \cup dropped) = {}
  /\ unacked \cap (acked \cup dropped) = {}
  /\ acked \cap dropped = {}

SequencesOK ==
  /\ pool \in Seq(Messages) /\ wire \in Seq(Calls)
  /\ replies \in [Messages -> Seq(Statuses)]

\* What the threads hold and what waits for them.
PlacesOK ==
  /\ \A i, j \in 1..Len(pool) : pool[i] = pool[j] => i = j
  /\ \A i \in 1..Len(pool) : pool[i] \in unacked
  /\ \A w \in Workers : wpc[w] # "idle" =>
       task[w] \in unacked /\ \A i \in 1..Len(pool) : pool[i] # task[w]
  /\ \A v, w \in Workers :
       wpc[v] # "idle" /\ wpc[w] # "idle" /\ task[v] = task[w] => v = w
  /\ ~ up => unacked = {} /\ wire = <<>>

\* The request waits for a thread or is with one that has not sent its result.
Pending(m) ==
  \/ Contains(pool, m)
  \/ \E w \in Workers :
       wpc[w] \in {"release", "parse", "process", "fail", "done"} /\ task[w] = m

\* Its result was sent and it is to be acknowledged.
Acking(m) == \E w \in Workers : wpc[w] = "ack" /\ task[w] = m

IsFinal(c) == c.kind = "reply" /\ c.status \in Finals
IsAck(c) == c.kind = "settle" /\ c.status = "ack"

\* The client has the result, or gets it before call n of the wire.
HasResult(m) == replies[m] # <<>> /\ Last(replies[m]) \in Finals
Answered(m, n) ==
  HasResult(m) \/ \E j \in 1..Len(wire) : j < n /\ wire[j].msg = m /\ IsFinal(wire[j])

\* The calls about one delivery are in order: reports, the result, one verdict.
InOrder(m) ==
  /\ \A i \in 1..Len(wire) : wire[i].msg = m => m \in unacked
  /\ \A i, j \in 1..Len(wire) : i < j /\ wire[i].msg = m /\ wire[j].msg = m =>
       wire[i].kind = "reply" /\ (IsFinal(wire[i]) => IsAck(wire[j]))
  /\ \A i \in 1..Len(wire) : wire[i].msg = m /\ IsAck(wire[i]) => Answered(m, i)
  /\ \A i \in 1..Len(replies[m]) : i < Len(replies[m]) => replies[m][i] = "progress"
  /\ HasResult(m) => \A i \in 1..Len(wire) : wire[i].msg = m => IsAck(wire[i])

\* ... and where the request is tells how far they are.
InStep(m) ==
  /\ Pending(m) =>
       ~ HasResult(m) /\ \A i \in 1..Len(wire) :
         wire[i].msg = m => wire[i].kind = "reply" /\ ~ IsFinal(wire[i])
  /\ Acking(m) =>
       Answered(m, Len(wire) + 1) /\ \A i \in 1..Len(wire) :
         wire[i].msg = m => wire[i].kind = "reply"
  /\ m \in acked => HasResult(m)
  /\ m \in unacked =>
       \/ Pending(m) \/ Acking(m) \/ m \in threw
       \/ \E i \in 1..Len(wire) :
            wire[i].msg = m /\ (wire[i].kind = "settle" \/ wire[i].status = "fail")
       \/ \E i \in 1..Len(replies[m]) : replies[m][i] = "fail"

RequestsInv ==
  /\ StatesOK /\ AccountOK /\ SequencesOK /\ PlacesOK
  /\ \A m \in Messages : InOrder(m) /\ InStep(m)

-----------------------------------------------------------------------------
LEMMA CallShape ==
  ASSUME NEW c \in Calls
  PROVE  /\ c.msg \in Messages /\ c.kind \in {"reply", "settle"}
         /\ c.kind = "reply" => c.status \in Statuses /\ c = Reply(c.msg, c.status)
         /\ c.kind = "settle" => c.status \in Verdicts /\ c = Settle(c.msg, c.status)
         /\ (c.status = "ack" <=> IsAck(c)) /\ (IsFinal(c) => c.kind = "reply")
BY DEF Calls, Reply, Settle, Statuses, Verdicts, Finals, IsAck, IsFinal

LEMMA ReplyShape ==
  ASSUME NEW m \in Messages, NEW s \in Statuses
  PROVE  /\ Reply(m, s) \in Calls /\ Reply(m, s).msg = m /\ Reply(m, s).kind = "reply"
         /\ Reply(m, s).status = s /\ ~ IsAck(Reply(m, s))
         /\ (IsFinal(Reply(m, s)) <=> s \in Finals)
BY DEF Calls, Reply, IsAck, IsFinal

LEMMA SettleShape ==
  ASSUME NEW m \in Messages, NEW s \in Verdicts
  PROVE  /\ Settle(m, s) \in Calls /\ Settle(m, s).msg = m /\ Settle(m, s).kind = "settle"
         /\ ~ IsFinal(Settle(m, s)) /\ (IsAck(Settle(m, s)) <=> s = "ack")
BY DEF Calls, Settle, IsAck, IsFinal

\* The last reply of a typed sequence of replies.
LEMMA LastReply ==
  ASSUME NEW s \in Seq(Statuses), s # <<>>
  PROVE  /\ Len(s) \in Nat /\ Len(s) >= 1 /\ Last(s) = s[Len(s)] /\ Last(s) \in Statuses
         /\ Last(s) \notin Finals => Last(s) = "progress"
<1>1. Len(s) \in Nat /\ Len(s) >= 1 /\ Last(s) = s[Len(s)]
  BY DEF Last
<1>2. s[Len(s)] \in Statuses
  BY <1>1
<1> QED BY <1>1, <1>2 DEF Statuses

LEMMA InitRequests == Init => RequestsInv
<1> SUFFICES ASSUME Init PROVE RequestsInv
  OBVIOUS
<1>1. StatesOK /\ AccountOK /\ SequencesOK /\ PlacesOK
  BY BoundsAssumption DEF Init, StatesOK, AccountOK, SequencesOK, PlacesOK, WorkerLabels
<1>2. ASSUME NEW m \in Messages PROVE InOrder(m) /\ InStep(m)
  BY DEF Init, InOrder, InStep, Pending, Acking, HasResult, Contains
<1> QED BY <1>1, <1>2 DEF RequestsInv

\* The invariant implies what the properties say.
LEMMA InvImpliesTransport == RequestsInv => TransportInv
<1> SUFFICES ASSUME RequestsInv PROVE TransportInv
  OBVIOUS
<1>0. StatesOK /\ AccountOK /\ SequencesOK /\ PlacesOK
  BY DEF RequestsInv
<1>1. TypeOK
  BY <1>0 DEF TypeOK, StatesOK, AccountOK, SequencesOK, Calls
<1>2. \A i \in 1..Len(wire) : wire[i] \in Calls
  BY <1>0 DEF SequencesOK
<1>3. OnePlace
  <2>1. ASSUME NEW i \in 1..Len(wire), NEW j \in 1..Len(wire),
               wire[i].kind = "settle", wire[j].kind = "settle", wire[i].msg = wire[j].msg
        PROVE  i = j
    <3>1. wire[i].msg \in Messages
      BY <1>2, CallShape
    <3>2. ~ (i < j) /\ ~ (j < i)
      BY <2>1, <3>1 DEF RequestsInv, InOrder
    <3> QED BY <3>2
  <2>2. ASSUME NEW m \in Messages
        PROVE  /\ Held(m) \/ Settling(m) \/ Contains(pool, m) => m \in unacked
               /\ ~ (Held(m) /\ Settling(m))
               /\ ~ (Held(m) /\ Contains(pool, m))
               /\ ~ (Settling(m) /\ Contains(pool, m))
    <3>1. Settling(m) => \E i \in 1..Len(wire) : wire[i].msg = m /\ wire[i].kind = "settle"
      BY DEF Settling, Settle
    <3>2. Settling(m) => m \in unacked /\ ~ Pending(m) /\ ~ Acking(m)
      BY <3>1 DEF RequestsInv, InOrder, InStep
    <3>3. Held(m) => Pending(m) \/ Acking(m)
      BY <1>0 DEF Held, Pending, Acking, StatesOK, WorkerLabels
    <3>4. Contains(pool, m) => Pending(m) /\ m \in unacked /\ ~ Held(m)
      BY <1>0 DEF Contains, Pending, PlacesOK, Held
    <3>5. Held(m) => m \in unacked
      BY <1>0 DEF Held, PlacesOK
    <3> QED BY <3>2, <3>3, <3>4, <3>5
  <2> QED BY <1>0, <2>1, <2>2 DEF OnePlace, PlacesOK
<1> QED BY <1>0, <1>1, <1>3 DEF TransportInv, AccountOK, PlacesOK

LEMMA InvImpliesAnswers ==
  RequestsInv => AckedWasAnswered /\ FinalIsLast /\ OnlyFailuresLeak
<1> SUFFICES ASSUME RequestsInv PROVE AckedWasAnswered /\ FinalIsLast /\ OnlyFailuresLeak
  OBVIOUS
<1>0. AccountOK /\ SequencesOK
  BY DEF RequestsInv
<1>1. AckedWasAnswered
  BY <1>0 DEF AckedWasAnswered, RequestsInv, InStep, HasResult, AccountOK
<1>2. FinalIsLast
  BY DEF FinalIsLast, RequestsInv, InOrder
<1>3. ASSUME NEW m \in unacked
      PROVE  \/ Contains(pool, m) \/ Held(m) \/ Settling(m)
             \/ Replied(m, "fail") \/ m \in threw
  <2>1. m \in Messages /\ \A i \in 1..Len(wire) : wire[i] \in Calls
    BY <1>0 DEF AccountOK, SequencesOK
  <2>2. Pending(m) \/ Acking(m) => Contains(pool, m) \/ Held(m)
    BY DEF Pending, Acking, Held
  <2>3. ASSUME NEW i \in 1..Len(wire), wire[i].msg = m
        PROVE  /\ wire[i].kind = "settle" => Settling(m)
               /\ wire[i].status = "fail" => Replied(m, "fail")
    <3>1. wire[i].kind = "settle" => wire[i] \in {Settle(m, "ack"), Settle(m, "reject")}
      BY <2>1, <2>3, CallShape DEF Verdicts
    <3>2. wire[i].status = "fail" => wire[i] = Reply(m, "fail")
      BY <2>1, <2>3, CallShape DEF Verdicts
    <3> QED BY <3>1, <3>2 DEF Settling, Replied
  <2>4. (\E i \in 1..Len(replies[m]) : replies[m][i] = "fail") => Replied(m, "fail")
    BY DEF Replied
  <2> QED BY <2>1, <2>2, <2>3, <2>4 DEF RequestsInv, InStep
<1> QED BY <1>1, <1>2, <1>3 DEF OnlyFailuresLeak

-----------------------------------------------------------------------------
(* What a step does to the calls about one request                         *)

\* The wire has grown by k calls, of which the first n are the old ones.
Grown(n, k) ==
  /\ n \in Nat /\ k \in Nat /\ Len(wire) = n /\ Len(wire') = n + k
  /\ \A i \in 1..n : wire'[i] = wire[i]

\* A request the step is not about: what it puts on the wire is about others.
LEMMA Unconcerned ==
  ASSUME NEW m \in Messages, InOrder(m), InStep(m), NEW n, NEW k, Grown(n, k),
         \A i \in 1..(n + k) : i > n => wire'[i].msg # m,
         replies'[m] = replies[m],
         m \in unacked' <=> m \in unacked, m \in acked' <=> m \in acked,
         Pending(m)' <=> Pending(m), Acking(m)' <=> Acking(m), m \in threw => m \in threw'
  PROVE  InOrder(m)' /\ InStep(m)'
<1>0. /\ n \in Nat /\ k \in Nat /\ Len(wire) = n /\ Len(wire') = n + k
      /\ \A i \in 1..n : wire'[i] = wire[i]
  BY DEF Grown
<1>1. \A i \in 1..(n + k) : wire'[i].msg = m => i \in 1..n /\ wire'[i] = wire[i]
  BY <1>0
<1>2. \A i \in 1..n : i \in 1..(n + k)
  BY <1>0
<1>3. HasResult(m)' <=> HasResult(m)
  BY DEF HasResult
<1>4. /\ \A i : Answered(m, i) => Answered(m, i)'
      /\ Answered(m, n + 1) => Answered(m, n + k + 1)'
  <2>1. \A i : Answered(m, i) => Answered(m, i)'
    BY <1>0, <1>2, <1>3 DEF Answered, IsFinal
  <2>2. Answered(m, n + 1) => Answered(m, n + k + 1)
    BY <1>0 DEF Answered
  <2> QED BY <2>1, <2>2
<1>5. InOrder(m)'
  <2>1. \A i \in 1..Len(wire') : wire'[i].msg = m => m \in unacked'
    BY <1>0, <1>1 DEF InOrder
  <2>2. \A i, j \in 1..Len(wire') : i < j /\ wire'[i].msg = m /\ wire'[j].msg = m =>
          wire'[i].kind = "reply" /\ (IsFinal(wire'[i]) => IsAck(wire'[j]))
    BY <1>0, <1>1 DEF InOrder
  <2>3. \A i \in 1..Len(wire') : wire'[i].msg = m /\ IsAck(wire'[i]) => Answered(m, i)'
    BY <1>0, <1>1, <1>4 DEF InOrder
  <2>4. \A i \in 1..Len(replies'[m]) : i < Len(replies'[m]) => replies'[m][i] = "progress"
    BY DEF InOrder
  <2>5. HasResult(m)' => \A i \in 1..Len(wire') : wire'[i].msg = m => IsAck(wire'[i])
    BY <1>0, <1>1, <1>3 DEF InOrder
  <2> QED BY <2>1, <2>2, <2>3, <2>4, <2>5 DEF InOrder, IsFinal, IsAck
<1>6. InStep(m)'
  <2>1. Pending(m)' =>
          ~ HasResult(m)' /\ \A i \in 1..Len(wire') :
            wire'[i].msg = m => wire'[i].kind = "reply" /\ ~ IsFinal(wire'[i])
    BY <1>0, <1>1, <1>3 DEF InStep
  <2>2. Acking(m)' =>
          Answered(m, Len(wire) + 1)' /\ \A i \in 1..Len(wire') :
            wire'[i].msg = m => wire'[i].kind = "reply"
    <3>1. Acking(m)' => Answered(m, n + k + 1)'
      BY <1>0, <1>4 DEF InStep
    <3> QED BY <1>0, <1>1, <3>1 DEF InStep, Answered, IsFinal, HasResult
  <2>3. m \in acked' => HasResult(m)'
    BY <1>3 DEF InStep
  <2>4. m \in unacked' =>
          \/ Pending(m)' \/ Acking(m)' \/ m \in threw'
          \/ \E i \in 1..Len(wire') :
               wire'[i].msg = m /\ (wire'[i].kind = "settle" \/ wire'[i].status = "fail")
          \/ \E i \in 1..Len(replies'[m]) : replies'[m][i] = "fail"
    BY <1>0, <1>2 DEF InStep
  <2> QED BY <2>1, <2>2, <2>3, <2>4 DEF InStep, IsFinal
<1> QED BY <1>5, <1>6

\* A thread sends a call about its request.
LEMMA SendKeepsOrder ==
  ASSUME NEW m \in Messages, InOrder(m), NEW n, Grown(n, 1), NEW c, wire'[n + 1] = c, c.msg = m,
         m \in unacked', replies'[m] = replies[m],
         \A i \in 1..n : wire[i].msg = m => wire[i].kind = "reply" /\ (IsFinal(wire[i]) => IsAck(c)),
         IsAck(c) => Answered(m, n + 1), HasResult(m) => IsAck(c)
  PROVE  InOrder(m)'
<1>0. /\ n \in Nat /\ Len(wire) = n /\ Len(wire') = n + 1
      /\ \A i \in 1..n : wire'[i] = wire[i]
  BY DEF Grown
<1>1. \A i \in 1..(n + 1) : i \in 1..n \/ i = n + 1
  BY <1>0
<1>2. HasResult(m)' <=> HasResult(m)
  BY DEF HasResult
<1>3. \A i : Answered(m, i) => Answered(m, i)'
  BY <1>0, <1>2 DEF Answered, IsFinal
<1>4. \A i, j \in 1..Len(wire') : i < j /\ wire'[i].msg = m /\ wire'[j].msg = m =>
        wire'[i].kind = "reply" /\ (IsFinal(wire'[i]) => IsAck(wire'[j]))
  <2>1. \A i, j \in 1..n : i < j /\ wire'[i].msg = m /\ wire'[j].msg = m =>
          wire'[i].kind = "reply" /\ (IsFinal(wire'[i]) => IsAck(wire'[j]))
    BY <1>0 DEF InOrder
  <2>2. \A i \in 1..n : wire'[i].msg = m =>
          wire'[i].kind = "reply" /\ (IsFinal(wire'[i]) => IsAck(wire'[n + 1]))
    BY <1>0
  <2>3. \A i, j \in 1..(n + 1) : i < j => i \in 1..n
    BY <1>0
  <2> QED BY <1>0, <1>1, <2>1, <2>2, <2>3
<1>5. \A i \in 1..Len(wire') : wire'[i].msg = m /\ IsAck(wire'[i]) => Answered(m, i)'
  BY <1>0, <1>1, <1>3 DEF InOrder
<1>6. HasResult(m)' => \A i \in 1..Len(wire') : wire'[i].msg = m => IsAck(wire'[i])
  BY <1>0, <1>1, <1>2 DEF InOrder
<1>7. \A i \in 1..Len(replies'[m]) : i < Len(replies'[m]) => replies'[m][i] = "progress"
  BY DEF InOrder
<1> QED BY <1>4, <1>5, <1>6, <1>7 DEF InOrder, IsFinal, IsAck

LEMMA WireStays ==
  ASSUME SequencesOK, UNCHANGED wire
  PROVE  Grown(Len(wire), 0)
BY DEF SequencesOK, Grown

LEMMA WireAppends ==
  ASSUME SequencesOK, NEW c \in Calls, wire' = Append(wire, c)
  PROVE  wire' \in Seq(Calls) /\ Grown(Len(wire), 1) /\ wire'[Len(wire) + 1] = c
<1>1. wire \in Seq(Calls) /\ Len(wire) \in Nat
  BY DEF SequencesOK
<1>2. /\ wire' \in Seq(Calls) /\ Len(wire') = Len(wire) + 1
      /\ \A i \in 1..Len(wire) : wire'[i] = wire[i]
      /\ wire'[Len(wire) + 1] = c
  BY <1>1, AppendProperties
<1> QED BY <1>1, <1>2 DEF Grown

LEMMA WireAppendsTwo ==
  ASSUME SequencesOK, NEW c \in Calls, NEW d \in Calls, wire' = wire \o <<c, d>>
  PROVE  /\ wire' \in Seq(Calls) /\ Grown(Len(wire), 2)
         /\ wire'[Len(wire) + 1] = c /\ wire'[Len(wire) + 2] = d
<1>1. wire \in Seq(Calls) /\ Len(wire) \in Nat /\ <<c, d>> \in Seq(Calls) /\ Len(<<c, d>>) = 2
  BY DEF SequencesOK
<1>2. /\ wire' \in Seq(Calls) /\ Len(wire') = Len(wire) + 2
      /\ \A i \in 1..Len(wire) : wire'[i] = wire[i]
      /\ wire'[Len(wire) + 1] = c /\ wire'[Len(wire) + 2] = d
  BY <1>1
<1> QED BY <1>1, <1>2 DEF Grown

-----------------------------------------------------------------------------
(* The steps of a thread                                                   *)

\* What a thread's step may do to its request.
LEMMA WorkKeepsRequests ==
  ASSUME RequestsInv, NEW w \in Workers, Work(w)
  PROVE  RequestsInv'
<1>k. PICK m, n : m = task[w] /\ n = Len(wire)
  OBVIOUS
<1>0. /\ StatesOK /\ AccountOK /\ SequencesOK /\ PlacesOK
      /\ wpc \in [Workers -> WorkerLabels] /\ task \in [Workers -> Messages \cup {None}]
      /\ sent \in [Workers -> Nat] /\ threw \subseteq Messages
  BY DEF RequestsInv, StatesOK
<1>1. /\ UNCHANGED <<ready, unacked, acked, dropped, replies, up, exits, pool, task>>
      /\ wpc[w] \in {"release", "parse", "process", "fail", "done", "ack"}
  BY DEF Work, Release, ParseSucceeds, ParseFails, Throws, SendProgress, ProcessReturns,
     SendFail, SendDone, SendAck, brokerVars
<1>2. PICK to \in WorkerLabels : wpc' = [wpc EXCEPT ![w] = to]
  <2>1. SendProgress(w) => wpc' = [wpc EXCEPT ![w] = wpc[w]]
    BY <1>0 DEF SendProgress
  <2>2. wpc[w] \in WorkerLabels
    BY <1>0
  <2>3. ~ SendProgress(w) => \E to \in WorkerLabels : wpc' = [wpc EXCEPT ![w] = to]
    BY DEF Work, Release, ParseSucceeds, ParseFails, Throws, ProcessReturns,
       SendFail, SendDone, SendAck, Goto, WorkerLabels
  <2> QED BY <2>1, <2>2, <2>3
<1>3. wpc'[w] = to /\ \A v \in Workers \ {w} : wpc'[v] = wpc[v]
  BY <1>0, <1>2
<1>4. /\ m \in Messages /\ m \in unacked /\ ~ Contains(pool, m)
      /\ \A v \in Workers \ {w} : wpc[v] # "idle" => task[v] # m
  BY <1>k, <1>0, <1>1 DEF PlacesOK, Contains, AccountOK
<1> DEFINE Early == {"release", "parse", "process", "fail", "done"}
<1>5. /\ Pending(m) <=> wpc[w] \in Early
      /\ Acking(m) <=> wpc[w] = "ack"
      /\ Pending(m)' <=> to \in Early
      /\ Acking(m)' <=> to = "ack"
  BY <1>k, <1>1, <1>3, <1>4 DEF Pending, Acking
<1>6. /\ InOrder(m) /\ InStep(m)
      /\ \A i \in 1..n : wire[i] \in Calls
  BY <1>k, <1>0, <1>4 DEF RequestsInv, SequencesOK
<1>a. ASSUME threw' = threw \/ threw' = threw \cup {m}, sent' \in [Workers -> Nat],
             NEW k, Grown(n, k), wire' \in Seq(Calls),
             \A i \in 1..(n + k) : i > n => wire'[i].msg = m,
             InOrder(m)' /\ InStep(m)'
      PROVE  RequestsInv'
  <2>1. StatesOK' /\ AccountOK'
    BY <1>0, <1>1, <1>2, <1>4, <1>a DEF StatesOK, AccountOK
  <2>2. SequencesOK'
    BY <1>0, <1>1, <1>a DEF SequencesOK
  <2>3. PlacesOK'
    <3>1. \A v \in Workers : wpc'[v] # "idle" => wpc[v] # "idle"
      BY <1>1, <1>3
    <3>2. up' \/ wire' = <<>>
      BY <1>0, <1>1, <1>4 DEF PlacesOK
    <3> QED BY <1>0, <1>1, <3>1, <3>2 DEF PlacesOK
  <2>4. ASSUME NEW x \in Messages, x # m PROVE InOrder(x)' /\ InStep(x)'
    <3>1. InOrder(x) /\ InStep(x)
      BY DEF RequestsInv
    <3>2. (Pending(x)' <=> Pending(x)) /\ (Acking(x)' <=> Acking(x))
      BY <1>k, <1>1, <1>3, <2>4 DEF Pending, Acking
    <3>3. \A i \in 1..(n + k) : i > n => wire'[i].msg # x
      BY <1>a, <2>4
    <3> QED BY <3>1, <3>2, <3>3, <1>1, <1>a, Unconcerned
  <2> QED BY <2>1, <2>2, <2>3, <2>4, <1>a DEF RequestsInv
<1>b. ASSUME UNCHANGED wire PROVE Grown(n, 0) /\ wire' \in Seq(Calls) /\ \A i \in 1..(n + 0) : ~ (i > n)
  BY <1>b, <1>k, <1>0, WireStays DEF Grown, SequencesOK
<1>7. CASE Release(w) \/ ParseSucceeds(w) \/ ProcessReturns(w)
  <2>1. UNCHANGED <<wire, threw, sent>> /\ wpc[w] \in Early /\ wpc'[w] \in Early
    BY <1>7, <1>0 DEF Release, ParseSucceeds, ProcessReturns, Goto
  <2>2. (Pending(m)' <=> Pending(m)) /\ (Acking(m)' <=> Acking(m))
    BY <1>3, <1>5, <2>1
  <2>3. InOrder(m)' /\ InStep(m)'
    BY <2>1, <2>2, <1>1, <1>4, <1>6, <1>b, Unconcerned
  <2> QED BY <2>1, <2>3, <1>0, <1>a, <1>b
<1>8. CASE Throws(w)
  <2>1. /\ UNCHANGED <<wire, sent>> /\ threw' = threw \cup {m}
        /\ wpc[w] \in Early /\ wpc'[w] = "idle"
    BY <1>8, <1>k, <1>0 DEF Throws, Goto
  <2>2. ~ Pending(m)' /\ ~ Acking(m)'
    BY <1>3, <1>5, <2>1
  <2>3. InOrder(m)'
    BY <2>1, <1>1, <1>6 DEF InOrder, Answered, HasResult, IsFinal, IsAck
  <2>4. InStep(m)'
    BY <2>1, <2>2, <1>1, <1>4, <1>6 DEF InStep, HasResult
  <2> QED BY <2>1, <2>3, <2>4, <1>0, <1>a, <1>b
<1>c. ASSUME NEW c \in Calls, wire' = Append(wire, c), c.msg = m
      PROVE  /\ wire' \in Seq(Calls) /\ Grown(n, 1) /\ wire'[n + 1] = c
             /\ n \in Nat /\ Len(wire) = n /\ Len(wire') = n + 1 /\ n + 1 \in 1..Len(wire')
             /\ \A i \in 1..(n + 1) : i > n => wire'[i].msg = m
             /\ \A i \in 1..Len(wire') : i = n + 1 \/ (i \in 1..n /\ wire'[i] = wire[i])
  <2>1. wire' \in Seq(Calls) /\ Grown(n, 1) /\ wire'[n + 1] = c
    BY <1>c, <1>k, <1>0, WireAppends
  <2> QED BY <2>1, <1>c DEF Grown
<1>9. CASE ParseFails(w)
  <2> DEFINE c == Settle(m, "reject")
  <2>1. /\ wire' = Append(wire, c) /\ UNCHANGED <<sent, threw>>
        /\ wpc[w] \in Early /\ wpc'[w] = "idle"
    BY <1>9, <1>k, <1>0 DEF ParseFails, Goto
  <2>2. c \in Calls /\ c.msg = m /\ c.kind = "settle" /\ ~ IsAck(c)
    BY <1>4, SettleShape DEF Verdicts
  <2> HIDE DEF c
  <2>3. ~ Pending(m)' /\ ~ Acking(m)' /\ Pending(m)
    BY <1>3, <1>5, <2>1
  <2>4. InOrder(m)'
    BY <2>1, <2>2, <2>3, <1>1, <1>4, <1>6, <1>c, SendKeepsOrder DEF InStep
  <2>5. InStep(m)'
    <3>1. wire'[n + 1].msg = m /\ wire'[n + 1].kind = "settle" /\ n + 1 \in 1..Len(wire')
      BY <2>1, <2>2, <1>c
    <3> QED BY <3>1, <2>3, <1>0, <1>1, <1>4 DEF InStep, AccountOK
  <2> QED BY <2>1, <2>2, <2>4, <2>5, <1>0, <1>a, <1>c
<1>10. CASE SendProgress(w)
  <2> DEFINE c == Reply(m, "progress")
  <2>1. /\ wire' = Append(wire, c) /\ sent' = [sent EXCEPT ![w] = sent[w] + 1]
        /\ UNCHANGED threw /\ wpc[w] \in Early /\ wpc'[w] \in Early
    BY <1>10, <1>k, <1>0 DEF SendProgress
  <2>2. c \in Calls /\ c.msg = m /\ c.kind = "reply" /\ ~ IsAck(c) /\ ~ IsFinal(c)
    BY <1>4, ReplyShape DEF Statuses, Finals
  <2> HIDE DEF c
  <2>3. Pending(m)' /\ ~ Acking(m)' /\ Pending(m)
    BY <1>3, <1>5, <2>1
  <2>4. InOrder(m)'
    BY <2>1, <2>2, <2>3, <1>1, <1>4, <1>6, <1>c, SendKeepsOrder DEF InStep
  <2>5. \A i \in 1..Len(wire') : wire'[i].msg = m => wire'[i].kind = "reply" /\ ~ IsFinal(wire'[i])
    BY <2>1, <2>2, <2>3, <1>6, <1>c, <1>k DEF InStep
  <2>6. InStep(m)'
    BY <2>3, <2>5, <1>0, <1>1, <1>4, <1>6 DEF InStep, HasResult, AccountOK, IsFinal
  <2>7. sent' \in [Workers -> Nat]
    BY <2>1, <1>0
  <2> QED BY <2>1, <2>2, <2>4, <2>6, <2>7, <1>a, <1>c
<1>11. CASE SendFail(w)
  <2> DEFINE c == Reply(m, "fail")
  <2>1. /\ wire' = Append(wire, c) /\ UNCHANGED <<sent, threw>>
        /\ wpc[w] \in Early /\ wpc'[w] = "idle"
    BY <1>11, <1>k, <1>0 DEF SendFail, Goto
  <2>2. c \in Calls /\ c.msg = m /\ c.kind = "reply" /\ ~ IsAck(c) /\ c.status = "fail"
    BY <1>4, ReplyShape DEF Statuses, Finals
  <2> HIDE DEF c
  <2>3. ~ Pending(m)' /\ ~ Acking(m)' /\ Pending(m)
    BY <1>3, <1>5, <2>1
  <2>4. InOrder(m)'
    BY <2>1, <2>2, <2>3, <1>1, <1>4, <1>6, <1>c, SendKeepsOrder DEF InStep
  <2>5. InStep(m)'
    <3>1. wire'[n + 1].msg = m /\ wire'[n + 1].status = "fail" /\ n + 1 \in 1..Len(wire')
      BY <2>1, <2>2, <1>c
    <3> QED BY <3>1, <2>3, <1>0, <1>1, <1>4 DEF InStep, AccountOK
  <2> QED BY <2>1, <2>2, <2>4, <2>5, <1>0, <1>a, <1>c
<1>12. CASE SendDone(w)
  <2> DEFINE c == Reply(m, "done")
  <2>1. /\ wire' = Append(wire, c) /\ UNCHANGED <<sent, threw>>
        /\ wpc[w] \in Early /\ wpc'[w] = "ack"
    BY <1>12, <1>k, <1>0 DEF SendDone, Goto
  <2>2. c \in Calls /\ c.msg = m /\ c.kind = "reply" /\ ~ IsAck(c) /\ IsFinal(c)
    BY <1>4, ReplyShape DEF Statuses, Finals
  <2> HIDE DEF c
  <2>3. ~ Pending(m)' /\ Acking(m)' /\ Pending(m)
    BY <1>3, <1>5, <2>1
  <2>4. InOrder(m)'
    BY <2>1, <2>2, <2>3, <1>1, <1>4, <1>6, <1>c, SendKeepsOrder DEF InStep
  <2>5. \A i \in 1..Len(wire') : wire'[i].msg = m => wire'[i].kind = "reply"
    BY <2>1, <2>2, <2>3, <1>6, <1>c, <1>k DEF InStep
  <2>6. Answered(m, Len(wire) + 1)'
    <3>1. n + 1 \in 1..Len(wire') /\ n + 1 < Len(wire') + 1 /\ wire'[n + 1] = c
      BY <2>1, <2>2, <1>c
    <3> QED BY <3>1, <2>2 DEF Answered, IsFinal
  <2>7. InStep(m)'
    BY <2>3, <2>5, <2>6, <1>0, <1>1, <1>4 DEF InStep, AccountOK
  <2> QED BY <2>1, <2>2, <2>4, <2>7, <1>0, <1>a, <1>c
<1>13. CASE SendAck(w)
  <2> DEFINE c == Settle(m, "ack")
  <2>1. /\ wire' = Append(wire, c) /\ UNCHANGED <<sent, threw>>
        /\ wpc[w] = "ack" /\ wpc'[w] = "idle"
    BY <1>13, <1>k, <1>0 DEF SendAck, Goto
  <2>2. c \in Calls /\ c.msg = m /\ c.kind = "settle" /\ IsAck(c)
    BY <1>4, SettleShape DEF Verdicts
  <2> HIDE DEF c
  <2>3. ~ Pending(m)' /\ ~ Acking(m)' /\ Acking(m)
    BY <1>3, <1>5, <2>1
  <2>4. InOrder(m)'
    BY <2>1, <2>2, <2>3, <1>k, <1>1, <1>4, <1>6, <1>c, SendKeepsOrder DEF InStep
  <2>5. InStep(m)'
    <3>1. wire'[n + 1].msg = m /\ wire'[n + 1].kind = "settle" /\ n + 1 \in 1..Len(wire')
      BY <2>1, <2>2, <1>c
    <3> QED BY <3>1, <2>3, <1>0, <1>1, <1>4 DEF InStep, AccountOK
  <2> QED BY <2>1, <2>2, <2>4, <2>5, <1>0, <1>a, <1>c
<1> QED BY <1>7, <1>8, <1>9, <1>10, <1>11, <1>12, <1>13 DEF Work

\* A request moves from the ring to a thread.
LEMMA TakeKeepsRequests ==
  ASSUME RequestsInv, NEW w \in Workers, Take(w)
  PROVE  RequestsInv'
<1>k. PICK m, n, k : m = Head(pool) /\ n = Len(wire) /\ k = Len(pool)
  OBVIOUS
<1>0. /\ StatesOK /\ AccountOK /\ SequencesOK /\ PlacesOK
      /\ wpc \in [Workers -> WorkerLabels] /\ task \in [Workers -> Messages \cup {None}]
      /\ sent \in [Workers -> Nat] /\ pool \in Seq(Messages)
  BY DEF RequestsInv, StatesOK, SequencesOK
<1>1. /\ wpc[w] = "idle" /\ pool # <<>> /\ pool' = Tail(pool)
      /\ task' = [task EXCEPT ![w] = m] /\ sent' = [sent EXCEPT ![w] = 0]
      /\ wpc' = [wpc EXCEPT ![w] = "release"]
      /\ UNCHANGED <<ready, unacked, acked, dropped, replies, wire, up, exits, threw>>
  BY <1>k DEF Take, Goto, brokerVars
<1>2. /\ k \in Nat /\ k >= 1 /\ m = pool[1] /\ m \in Messages
      /\ pool' \in Seq(Messages) /\ Len(pool') = k - 1
      /\ \A i \in 1..(k - 1) : pool'[i] = pool[i + 1]
  BY <1>0, <1>1, <1>k, HeadTailProperties
<1>3. \A i \in 1..Len(pool') : i \in 1..(k - 1) /\ i + 1 \in 1..k /\ i + 1 # 1 /\ pool'[i] = pool[i + 1]
  BY <1>2
<1>4. /\ wpc'[w] = "release" /\ task'[w] = m
      /\ \A v \in Workers \ {w} : wpc'[v] = wpc[v] /\ task'[v] = task[v]
  BY <1>0, <1>1
<1>5. 1 \in 1..k /\ m \in unacked
  BY <1>k, <1>0, <1>2 DEF PlacesOK
<1>6. StatesOK' /\ AccountOK' /\ SequencesOK'
  BY <1>0, <1>1, <1>2 DEF StatesOK, AccountOK, SequencesOK, WorkerLabels
<1>7. PlacesOK'
  <2>1. \A i, j \in 1..Len(pool') : pool'[i] = pool'[j] => i = j
    <3>1. ASSUME NEW i \in 1..Len(pool'), NEW j \in 1..Len(pool'), pool'[i] = pool'[j] PROVE i = j
      <4>1. i + 1 = j + 1
        BY <1>0, <1>3, <1>k, <3>1 DEF PlacesOK
      <4> QED BY <4>1, <1>2, <1>3
    <3> QED BY <3>1
  <2>2. \A i \in 1..Len(pool') : pool'[i] \in unacked /\ pool'[i] # m
    BY <1>0, <1>2, <1>3, <1>5, <1>k DEF PlacesOK
  <2>3. \A v \in Workers \ {w} : wpc[v] # "idle" => task[v] # m
    BY <1>0, <1>2, <1>5, <1>k DEF PlacesOK
  <2>4. \A v \in Workers : wpc'[v] # "idle" =>
          task'[v] \in unacked' /\ \A i \in 1..Len(pool') : pool'[i] # task'[v]
    BY <1>0, <1>1, <1>3, <1>4, <1>5, <1>k, <2>2 DEF PlacesOK
  <2>5. \A v, u \in Workers : wpc'[v] # "idle" /\ wpc'[u] # "idle" /\ task'[v] = task'[u] => v = u
    BY <1>0, <1>4, <2>3 DEF PlacesOK
  <2> QED BY <1>0, <1>1, <2>1, <2>2, <2>4, <2>5 DEF PlacesOK
<1>8. ASSUME NEW x \in Messages PROVE InOrder(x)' /\ InStep(x)'
  <2>1. InOrder(x) /\ InStep(x)
    BY DEF RequestsInv
  <2>2. Contains(pool, x) <=> x = m \/ Contains(pool', x)
    <3>1. \A i \in 1..k : i = 1 \/ (i - 1 \in 1..Len(pool') /\ pool'[i - 1] = pool[i])
      BY <1>2
    <3>2. Contains(pool, x) => x = m \/ Contains(pool', x)
      BY <3>1, <1>2, <1>k DEF Contains
    <3>3. x = m \/ Contains(pool', x) => Contains(pool, x)
      BY <1>2, <1>3, <1>5, <1>k DEF Contains
    <3> QED BY <3>2, <3>3
  <2>3. Contains(pool, x)' <=> Contains(pool', x)
    BY DEF Contains
  <2>4. Pending(x)' <=> Pending(x)
    BY <2>2, <2>3, <1>1, <1>4 DEF Pending
  <2>5. Acking(x)' <=> Acking(x)
    BY <1>1, <1>4 DEF Acking
  <2>6. Grown(n, 0) /\ \A i \in 1..(n + 0) : ~ (i > n)
    BY <1>0, <1>1, <1>k, WireStays DEF Grown
  <2> QED BY <2>1, <2>4, <2>5, <2>6, <1>1, Unconcerned
<1> QED BY <1>6, <1>7, <1>8 DEF RequestsInv

-----------------------------------------------------------------------------
(* A delivery                                                              *)

\* The callback answers at once, rejects the delivery or posts a task.
LEMMA DeliveryKeepsRequests ==
  ASSUME RequestsInv, NEW m \in Messages, NEW q, Deliver(m, q), UNCHANGED <<exits, workerVars>>,
         up' = up,
         \/ wire' = wire /\ pool' = Append(pool, m)
         \/ wire' = Append(wire, Settle(m, "reject")) /\ pool' = pool
         \/ \E s \in Finals : wire' = wire \o <<Reply(m, s), Settle(m, "ack")>> /\ pool' = pool
  PROVE  RequestsInv'
<1>k. PICK n, k : n = Len(wire) /\ k = Len(pool)
  OBVIOUS
<1>0. /\ StatesOK /\ AccountOK /\ SequencesOK /\ PlacesOK
      /\ replies \in [Messages -> Seq(Statuses)] /\ pool \in Seq(Messages)
      /\ n \in Nat /\ k \in Nat
  BY <1>k DEF RequestsInv, SequencesOK
<1>1. /\ up /\ m \in ready /\ ready' = ready \ {m} /\ unacked' = unacked \cup {m}
      /\ replies' = [replies EXCEPT ![m] = <<>>]
      /\ UNCHANGED <<acked, dropped, up, exits, wpc, task, sent, threw>>
  BY DEF Deliver, workerVars
<1>2. /\ m \notin unacked /\ m \notin acked /\ m \notin dropped /\ ~ Pending(m) /\ ~ Acking(m)
      /\ \A i \in 1..n : wire[i].msg # m
      /\ \A i \in 1..k : pool[i] # m
      /\ \A w \in Workers : wpc[w] # "idle" => task[w] # m
  BY <1>0, <1>1, <1>k DEF RequestsInv, AccountOK, InOrder, PlacesOK, Pending, Acking, Contains
<1>3. StatesOK' /\ AccountOK'
  BY <1>0, <1>1 DEF StatesOK, AccountOK
<1>4. /\ replies' \in [Messages -> Seq(Statuses)] /\ replies'[m] = <<>>
      /\ \A x \in Messages : x # m => replies'[x] = replies[x]
  BY <1>0, <1>1
<1>5. ~ HasResult(m)' /\ Len(replies'[m]) = 0
  BY <1>4 DEF HasResult
<1>6. ASSUME NEW j, Grown(n, j), \A i \in 1..(n + j) : i > n => wire'[i].msg = m,
             \A x \in Messages : x # m => (Contains(pool, x)' <=> Contains(pool, x)),
             NEW x \in Messages, x # m
      PROVE  InOrder(x)' /\ InStep(x)'
  <2>1. InOrder(x) /\ InStep(x)
    BY DEF RequestsInv
  <2>2. (Pending(x)' <=> Pending(x)) /\ (Acking(x)' <=> Acking(x))
    BY <1>1, <1>6 DEF Pending, Acking
  <2>3. \A i \in 1..(n + j) : i > n => wire'[i].msg # x
    BY <1>6
  <2> QED BY <2>1, <2>2, <2>3, <1>1, <1>4, <1>6, Unconcerned
<1>7. CASE wire' = wire /\ pool' = Append(pool, m)
  <2>1. /\ pool' \in Seq(Messages) /\ Len(pool') = k + 1 /\ pool'[k + 1] = m
        /\ \A i \in 1..k : pool'[i] = pool[i]
    BY <1>0, <1>7, <1>k, AppendProperties
  <2>2. \A i \in 1..(k + 1) : i = k + 1 \/ i \in 1..k
    BY <1>0
  <2>3. k + 1 \in 1..(k + 1) /\ \A i \in 1..k : i \in 1..(k + 1)
    BY <1>0
  <2>4. \A x : Contains(pool, x)' <=> x = m \/ Contains(pool, x)
    BY <2>1, <2>2, <2>3, <1>k DEF Contains
  <2>5. Grown(n, 0) /\ \A i \in 1..(n + 0) : ~ (i > n)
    BY <1>0, <1>7, <1>k, WireStays DEF Grown
  <2>6. PlacesOK'
    <3>1. \A i, j \in 1..Len(pool') : pool'[i] = pool'[j] => i = j
      <4>1. \A i, j \in 1..k : pool'[i] = pool'[j] => i = j
        BY <1>0, <1>k, <2>1 DEF PlacesOK
      <4>2. \A i \in 1..k : pool'[i] # pool'[k + 1]
        BY <1>2, <2>1
      <4> QED BY <2>1, <2>2, <4>1, <4>2
    <3>2. \A i \in 1..Len(pool') : pool'[i] \in unacked'
      BY <1>0, <1>1, <1>k, <2>1, <2>2 DEF PlacesOK
    <3>3. \A w \in Workers : wpc'[w] # "idle" =>
            task'[w] \in unacked' /\ \A i \in 1..Len(pool') : pool'[i] # task'[w]
      BY <1>0, <1>1, <1>2, <1>k, <2>1, <2>2 DEF PlacesOK
    <3> QED BY <1>0, <1>1, <3>1, <3>2, <3>3 DEF PlacesOK
  <2>7. Pending(m)' /\ ~ Acking(m)'
    BY <2>4, <1>1, <1>2 DEF Pending, Acking
  <2>8. \A i \in 1..Len(wire') : wire'[i].msg # m
    BY <1>2, <1>7, <1>k
  <2>9. InOrder(m)'
    BY <2>8, <1>5 DEF InOrder
  <2>10. InStep(m)'
    BY <2>7, <2>8, <1>1, <1>2, <1>5 DEF InStep
  <2>11. SequencesOK'
    BY <2>1, <1>0, <1>4, <1>7 DEF SequencesOK
  <2>12. \A x \in Messages : x # m => InOrder(x)' /\ InStep(x)'
    BY <2>4, <2>5, <1>6
  <2> QED BY <1>3, <2>6, <2>9, <2>10, <2>11, <2>12 DEF RequestsInv
<1>8. ASSUME pool' = pool PROVE PlacesOK' /\ ~ Pending(m)' /\ ~ Acking(m)'
             /\ \A x : Contains(pool, x)' <=> Contains(pool, x)
  BY <1>0, <1>1, <1>2, <1>8 DEF PlacesOK, Pending, Acking, Contains
<1>9. CASE wire' = Append(wire, Settle(m, "reject")) /\ pool' = pool
  <2> DEFINE c == Settle(m, "reject")
  <2>1. c \in Calls /\ c.msg = m /\ c.kind = "settle" /\ ~ IsAck(c)
    BY SettleShape DEF Verdicts
  <2>2. wire' \in Seq(Calls) /\ Grown(n, 1) /\ wire'[n + 1] = c
    BY <1>0, <1>9, <1>k, <2>1, WireAppends
  <2> HIDE DEF c
  <2>3. /\ Len(wire') = n + 1 /\ n + 1 \in 1..Len(wire')
        /\ \A i \in 1..(n + 1) : i > n => i = n + 1
        /\ \A i \in 1..Len(wire') : wire'[i].msg = m => i = n + 1
    BY <1>0, <1>2, <2>2 DEF Grown
  <2>4. InOrder(m)'
    BY <2>1, <2>2, <2>3, <1>1, <1>5 DEF InOrder, IsAck
  <2>5. InStep(m)'
    BY <2>1, <2>2, <2>3, <1>1, <1>2, <1>8, <1>9 DEF InStep
  <2>6. SequencesOK'
    BY <2>2, <1>0, <1>4, <1>9 DEF SequencesOK
  <2>7. \A x \in Messages : x # m => InOrder(x)' /\ InStep(x)'
    BY <2>1, <2>2, <2>3, <1>6, <1>8, <1>9
  <2> QED BY <1>3, <1>8, <1>9, <2>4, <2>5, <2>6, <2>7 DEF RequestsInv
<1>10. ASSUME NEW s \in Finals, wire' = wire \o <<Reply(m, s), Settle(m, "ack")>>, pool' = pool
       PROVE  RequestsInv'
  <2> DEFINE r == Reply(m, s)
             c == Settle(m, "ack")
  <2>1. /\ r \in Calls /\ r.msg = m /\ r.kind = "reply" /\ ~ IsAck(r) /\ IsFinal(r)
        /\ c \in Calls /\ c.msg = m /\ c.kind = "settle" /\ IsAck(c) /\ ~ IsFinal(c)
    BY SettleShape, ReplyShape DEF Verdicts, Statuses
  <2>2. wire' \in Seq(Calls) /\ Grown(n, 2) /\ wire'[n + 1] = r /\ wire'[n + 2] = c
    BY <1>0, <1>10, <1>k, <2>1, WireAppendsTwo
  <2> HIDE DEF r, c
  <2>3. /\ Len(wire') = n + 2 /\ n + 1 \in 1..Len(wire') /\ n + 2 \in 1..Len(wire')
        /\ \A i \in 1..(n + 2) : i > n => i = n + 1 \/ i = n + 2
        /\ \A i \in 1..Len(wire') : wire'[i].msg = m => i = n + 1 \/ i = n + 2
    BY <1>0, <1>2, <2>2 DEF Grown
  <2>4. n + 1 < n + 2 /\ ~ (n + 2 < n + 1) /\ ~ (n + 1 < n + 1) /\ ~ (n + 2 < n + 2)
    BY <1>0
  <2>5. Answered(m, n + 2)'
    <3>1. /\ n + 1 \in 1..Len(wire') /\ n + 1 < n + 2 /\ wire'[n + 1].msg = m
          /\ wire'[n + 1].kind = "reply" /\ wire'[n + 1].status \in Finals
      BY <2>1, <2>2, <2>3, <2>4 DEF IsFinal
    <3>2. \E j \in 1..Len(wire') : j < n + 2 /\ wire'[j].msg = m
            /\ wire'[j].kind = "reply" /\ wire'[j].status \in Finals
      BY <3>1
    <3> QED BY <3>2, <1>k, <1>0 DEF Answered, IsFinal
  <2>6. InOrder(m)'
    <3>1. \A i, j \in 1..Len(wire') : i < j /\ wire'[i].msg = m /\ wire'[j].msg = m =>
            wire'[i].kind = "reply" /\ (IsFinal(wire'[i]) => IsAck(wire'[j]))
      BY <2>1, <2>2, <2>3, <2>4
    <3>2. \A i \in 1..Len(wire') : wire'[i].msg = m /\ IsAck(wire'[i]) => i = n + 2
      BY <2>1, <2>2, <2>3
    <3> QED BY <3>1, <3>2, <2>5, <1>1, <1>5 DEF InOrder, IsAck, IsFinal
  <2>7. InStep(m)'
    BY <2>1, <2>2, <2>3, <1>1, <1>2, <1>8, <1>10 DEF InStep
  <2>8. SequencesOK'
    BY <2>2, <1>0, <1>4, <1>10 DEF SequencesOK
  <2>9. \A x \in Messages : x # m => InOrder(x)' /\ InStep(x)'
    <3>1. \A i \in 1..(n + 2) : i > n => wire'[i].msg = m
      BY <2>1, <2>2, <2>3
    <3> QED BY <3>1, <2>2, <1>6, <1>8, <1>10
  <2> QED BY <1>3, <1>8, <1>10, <2>6, <2>7, <2>8, <2>9 DEF RequestsInv
<1> QED BY <1>7, <1>9, <1>10

-----------------------------------------------------------------------------
(* What the broker receives                                                *)

LEMMA ReceiveKeepsRequests ==
  ASSUME RequestsInv, BrokerReceives
  PROVE  RequestsInv'
<1>k. PICK n, c, m : n = Len(wire) /\ c = Head(wire) /\ m = c.msg
  OBVIOUS
<1>0. /\ StatesOK /\ AccountOK /\ SequencesOK /\ PlacesOK
      /\ wire \in Seq(Calls) /\ replies \in [Messages -> Seq(Statuses)]
  BY DEF RequestsInv, SequencesOK
<1>1. /\ wire # <<>> /\ wire' = Tail(wire)
      /\ replies' = IF c.kind = "reply" THEN [replies EXCEPT ![m] = Append(replies[m], c.status)]
                    ELSE replies
      /\ acked' = IF c.status = "ack" THEN acked \cup {m} ELSE acked
      /\ dropped' = IF c.status = "reject" THEN dropped \cup {m} ELSE dropped
      /\ unacked' = IF c.kind = "settle" THEN unacked \ {m} ELSE unacked
      /\ UNCHANGED <<ready, up, exits, pool, wpc, task, sent, threw>>
  BY <1>k DEF BrokerReceives, workerVars
<1>2. /\ n \in Nat /\ n >= 1 /\ c = wire[1] /\ c \in Calls /\ 1 \in 1..n
      /\ wire' \in Seq(Calls) /\ Len(wire') = n - 1
      /\ \A i \in 1..(n - 1) : wire'[i] = wire[i + 1]
  BY <1>0, <1>1, <1>k, HeadTailProperties
<1>3. /\ \A i \in 1..Len(wire') : i + 1 \in 1..n /\ 1 < i + 1 /\ wire'[i] = wire[i + 1]
      /\ \A i \in 1..n : i = 1 \/ (i - 1 \in 1..Len(wire') /\ wire'[i - 1] = wire[i])
      /\ \A i, j \in 1..Len(wire') : i < j => i + 1 < j + 1
  BY <1>2
<1>4. /\ m \in Messages /\ c.kind \in {"reply", "settle"}
      /\ c.kind = "reply" => c.status \in Statuses /\ ~ IsAck(c) /\ c.status \notin Verdicts
      /\ c.kind = "settle" => c.status \in Verdicts /\ ~ IsFinal(c)
      /\ (c.status = "ack" <=> IsAck(c)) /\ (IsFinal(c) <=> c.kind = "reply" /\ c.status \in Finals)
  BY <1>2, <1>k, CallShape DEF IsAck, IsFinal, Statuses, Verdicts, Finals
<1>5. InOrder(m) /\ InStep(m) /\ m \in unacked
  <2>1. InOrder(m) /\ InStep(m)
    BY <1>4 DEF RequestsInv
  <2> QED BY <2>1, <1>2, <1>k DEF InOrder
<1>6. \A i \in 1..Len(wire') : wire'[i].msg = m => c.kind = "reply" /\ (IsFinal(c) => IsAck(wire'[i]))
  BY <1>2, <1>3, <1>5, <1>k DEF InOrder
<1>7. StatesOK'
  BY <1>0, <1>1 DEF StatesOK
<1>8. AccountOK'
  <2>1. m \in unacked /\ m \notin ready /\ m \notin acked /\ m \notin dropped
    BY <1>0, <1>5 DEF AccountOK
  <2>2. CASE c.kind = "reply"
    BY <1>0, <1>1, <1>4, <2>2 DEF AccountOK, Verdicts
  <2>3. CASE IsAck(c)
    BY <1>0, <1>1, <1>4, <2>1, <2>3 DEF AccountOK, IsAck
  <2>4. CASE c.kind = "settle" /\ c.status = "reject"
    BY <1>0, <1>1, <1>4, <2>1, <2>4 DEF AccountOK
  <2> QED BY <1>4, <2>2, <2>3, <2>4 DEF IsAck, Verdicts
<1>9. SequencesOK'
  <2>1. replies' \in [Messages -> Seq(Statuses)]
    <3>1. CASE c.kind = "reply"
      <4>1. Append(replies[m], c.status) \in Seq(Statuses)
        BY <1>0, <1>4, <3>1, AppendProperties
      <4> QED BY <4>1, <1>0, <1>1, <3>1
    <3> QED BY <1>0, <1>1, <3>1
  <2> QED BY <2>1, <1>0, <1>1, <1>2 DEF SequencesOK
<1>10. PlacesOK'
  <2>1. c.kind = "settle" => ~ Pending(m) /\ ~ Acking(m)
    BY <1>2, <1>5, <1>k DEF InStep
  <2>2. c.kind = "settle" => \A w \in Workers : wpc[w] # "idle" => task[w] # m
    BY <1>0, <2>1 DEF Pending, Acking, StatesOK, WorkerLabels
  <2>3. c.kind = "settle" => \A i \in 1..Len(pool) : pool[i] # m
    BY <2>1 DEF Pending, Contains
  <2>4. up'
    BY <1>0, <1>1 DEF PlacesOK
  <2> QED BY <1>0, <1>1, <2>2, <2>3, <2>4 DEF PlacesOK
<1>11. \A x \in Messages : (Pending(x)' <=> Pending(x)) /\ (Acking(x)' <=> Acking(x))
  BY <1>1 DEF Pending, Acking, Contains
<1>12. ASSUME NEW x \in Messages, x # m PROVE InOrder(x)' /\ InStep(x)'
  <2>1. /\ InOrder(x) /\ InStep(x) /\ (HasResult(x)' <=> HasResult(x)) /\ replies'[x] = replies[x]
        /\ (x \in unacked' <=> x \in unacked) /\ (x \in acked' <=> x \in acked)
    BY <1>0, <1>1, <1>12 DEF RequestsInv, HasResult
  <2>2. \A i \in 1..n : wire[i].msg = x => i - 1 \in 1..Len(wire') /\ wire'[i - 1] = wire[i]
    BY <1>2, <1>3, <1>12, <1>k
  <2>3. ASSUME NEW i \in 1..n, Answered(x, i + 1) PROVE Answered(x, i)'
    <3>1. CASE HasResult(x)
      BY <2>1, <3>1 DEF Answered
    <3>2. ASSUME NEW j \in 1..Len(wire), j < i + 1, wire[j].msg = x, IsFinal(wire[j])
          PROVE  Answered(x, i)'
      <4>1. j - 1 \in 1..Len(wire') /\ wire'[j - 1] = wire[j] /\ j - 1 < i
        BY <2>2, <3>2, <1>2, <1>k
      <4>2. \E l \in 1..Len(wire') : l < i /\ wire'[l].msg = x /\ IsFinal(wire'[l])
        BY <4>1, <3>2
      <4> QED BY <4>2 DEF Answered, IsFinal
    <3> QED BY <2>3, <3>1, <3>2 DEF Answered
  <2>4. InOrder(x)'
    <3>1. \A i, j \in 1..Len(wire') : i < j /\ wire'[i].msg = x /\ wire'[j].msg = x =>
            wire'[i].kind = "reply" /\ (IsFinal(wire'[i]) => IsAck(wire'[j]))
      BY <1>3, <1>k, <2>1 DEF InOrder
    <3>2. ASSUME NEW i \in 1..Len(wire'), wire'[i].msg = x, IsAck(wire'[i]) PROVE Answered(x, i)'
      <4>1. i + 1 \in 1..Len(wire) /\ wire[i + 1] = wire'[i] /\ i \in 1..n
        BY <1>2, <1>3, <1>k, <3>2
      <4>2. Answered(x, i + 1)
        BY <4>1, <3>2, <2>1 DEF InOrder
      <4> QED BY <4>1, <4>2, <2>3
    <3>3. \A i \in 1..Len(wire') : wire'[i].msg = x => x \in unacked'
      BY <1>3, <1>k, <2>1 DEF InOrder
    <3>4. HasResult(x)' => \A i \in 1..Len(wire') : wire'[i].msg = x => IsAck(wire'[i])
      BY <1>3, <1>k, <2>1 DEF InOrder
    <3>5. \A i \in 1..Len(replies'[x]) : i < Len(replies'[x]) => replies'[x][i] = "progress"
      BY <2>1 DEF InOrder
    <3> QED BY <3>1, <3>2, <3>3, <3>4, <3>5 DEF InOrder, IsAck, IsFinal
  <2>5. InStep(x)'
    <3>1. Pending(x)' =>
            ~ HasResult(x)' /\ \A i \in 1..Len(wire') :
              wire'[i].msg = x => wire'[i].kind = "reply" /\ ~ IsFinal(wire'[i])
      BY <1>3, <1>11, <1>k, <2>1 DEF InStep
    <3>2. Acking(x)' =>
            Answered(x, Len(wire) + 1)' /\ \A i \in 1..Len(wire') :
              wire'[i].msg = x => wire'[i].kind = "reply"
      <4>1. Acking(x)' => Answered(x, n + 1)
        BY <1>11, <1>k, <2>1 DEF InStep
      <4>2. Acking(x)' => Answered(x, n)'
        BY <4>1, <2>3, <1>2
      <4>3. Answered(x, n)' => Answered(x, Len(wire) + 1)'
        BY <1>2, <1>3 DEF Answered
      <4> QED BY <4>2, <4>3, <1>3, <1>11, <1>k, <2>1 DEF InStep
    <3>3. x \in unacked' =>
            \/ Pending(x)' \/ Acking(x)' \/ x \in threw'
            \/ \E i \in 1..Len(wire') :
                 wire'[i].msg = x /\ (wire'[i].kind = "settle" \/ wire'[i].status = "fail")
            \/ \E i \in 1..Len(replies'[x]) : replies'[x][i] = "fail"
      BY <1>1, <1>11, <1>k, <2>1, <2>2 DEF InStep
    <3> QED BY <3>1, <3>2, <3>3, <2>1 DEF InStep, IsFinal
  <2> QED BY <2>4, <2>5
<1>13. CASE c.kind = "settle"
  <2>1. /\ replies' = replies /\ m \notin unacked' /\ \A i \in 1..Len(wire') : wire'[i].msg # m
        /\ ~ Pending(m)' /\ ~ Acking(m)'
    BY <1>1, <1>2, <1>5, <1>6, <1>11, <1>13, <1>4, <1>k DEF InStep
  <2>2. InOrder(m)'
    BY <2>1, <1>5 DEF InOrder, HasResult
  <2>3. m \in acked' => HasResult(m)'
    <3>1. CASE IsAck(c)
      <4>1. Answered(m, 1)
        BY <1>2, <1>5, <1>k, <3>1 DEF InOrder
      <4>2. \A j \in 1..Len(wire) : ~ (j < 1)
        BY <1>2, <1>k
      <4> QED BY <4>1, <4>2, <2>1 DEF Answered, HasResult
    <3>2. CASE ~ IsAck(c)
      BY <3>2, <2>1, <1>1, <1>4, <1>5 DEF InStep, HasResult
    <3> QED BY <3>1, <3>2
  <2>4. InStep(m)'
    BY <2>1, <2>3 DEF InStep
  <2> QED BY <1>7, <1>8, <1>9, <1>10, <1>12, <2>2, <2>4 DEF RequestsInv
<1>14. CASE c.kind = "reply"
  <2> DEFINE old == replies[m]
  <2>1. /\ UNCHANGED <<acked, dropped, unacked>> /\ replies'[m] = Append(old, c.status)
        /\ old \in Seq(Statuses) /\ c.status \in Statuses
    BY <1>0, <1>1, <1>4, <1>14 DEF Verdicts
  <2>2. PICK k \in Nat : k = Len(old)
    BY <2>1
  <2>3. /\ Len(replies'[m]) = k + 1 /\ replies'[m] # <<>> /\ replies'[m][k + 1] = c.status
        /\ Last(replies'[m]) = c.status
        /\ \A i \in 1..k : replies'[m][i] = old[i]
    BY <2>1, <2>2, AppendProperties DEF Last
  <2>4. HasResult(m)' <=> IsFinal(c)
    BY <2>3, <1>4, <1>14 DEF HasResult
  <2>5. ~ HasResult(m)
    BY <1>2, <1>4, <1>5, <1>14, <1>k DEF InOrder
  <2>6. \A i \in 1..k : old[i] = "progress"
    <3>1. \A i \in 1..k : i < k => old[i] = "progress"
      BY <1>5, <2>2 DEF InOrder
    <3>2. k >= 1 => old # <<>> /\ old[k] = "progress"
      <4>1. k >= 1 => old # <<>>
        BY <2>1, <2>2
      <4>2. old # <<>> => Last(old) = old[k] /\ (Last(old) \notin Finals => Last(old) = "progress")
        BY <2>1, <2>2, LastReply
      <4> QED BY <4>1, <4>2, <2>5 DEF HasResult
    <3> QED BY <3>1, <3>2
  <2>7. ASSUME NEW i \in 1..n, Answered(m, i + 1) PROVE Answered(m, i)'
    <3>1. PICK j \in 1..Len(wire) : j < i + 1 /\ wire[j].msg = m /\ IsFinal(wire[j])
      BY <2>5, <2>7 DEF Answered
    <3>2. CASE j = 1
      BY <3>1, <3>2, <1>2, <2>4 DEF Answered
    <3>3. CASE j # 1
      <4>1. j - 1 \in 1..Len(wire') /\ wire'[j - 1] = wire[j] /\ j - 1 < i
        BY <1>2, <1>3, <1>k, <3>1, <3>3
      <4>2. \E l \in 1..Len(wire') : l < i /\ wire'[l].msg = m /\ IsFinal(wire'[l])
        BY <4>1, <3>1
      <4> QED BY <4>2 DEF Answered, IsFinal
    <3> QED BY <3>2, <3>3
  <2>8. InOrder(m)'
    <3>1. \A i, j \in 1..Len(wire') : i < j /\ wire'[i].msg = m /\ wire'[j].msg = m =>
            wire'[i].kind = "reply" /\ (IsFinal(wire'[i]) => IsAck(wire'[j]))
      BY <1>3, <1>5, <1>k DEF InOrder
    <3>2. ASSUME NEW i \in 1..Len(wire'), wire'[i].msg = m, IsAck(wire'[i]) PROVE Answered(m, i)'
      <4>1. i + 1 \in 1..Len(wire) /\ wire[i + 1] = wire'[i] /\ i \in 1..n
        BY <1>2, <1>3, <1>k, <3>2
      <4>2. Answered(m, i + 1)
        BY <4>1, <3>2, <1>5 DEF InOrder
      <4> QED BY <4>1, <4>2, <2>7
    <3>3. m \in unacked'
      BY <1>5, <2>1
    <3>4. HasResult(m)' => \A i \in 1..Len(wire') : wire'[i].msg = m => IsAck(wire'[i])
      BY <1>6, <2>4
    <3>5. \A i \in 1..Len(replies'[m]) : i < Len(replies'[m]) => replies'[m][i] = "progress"
      BY <2>2, <2>3, <2>6
    <3> QED BY <3>1, <3>2, <3>3, <3>4, <3>5 DEF InOrder, IsAck, IsFinal
  <2>9. InStep(m)'
    <3>1. Pending(m)' =>
            ~ HasResult(m)' /\ \A i \in 1..Len(wire') :
              wire'[i].msg = m => wire'[i].kind = "reply" /\ ~ IsFinal(wire'[i])
      BY <1>2, <1>3, <1>4, <1>5, <1>11, <1>k, <2>4 DEF InStep
    <3>2. Acking(m)' =>
            Answered(m, Len(wire) + 1)' /\ \A i \in 1..Len(wire') :
              wire'[i].msg = m => wire'[i].kind = "reply"
      <4>1. Acking(m)' => Answered(m, n + 1)
        BY <1>5, <1>11, <1>k, <1>4 DEF InStep
      <4>2. Acking(m)' => Answered(m, n)'
        BY <4>1, <2>7, <1>2
      <4>3. Answered(m, n)' => Answered(m, Len(wire) + 1)'
        BY <1>2, <1>3 DEF Answered
      <4> QED BY <4>2, <4>3, <1>3, <1>4, <1>5, <1>11, <1>k DEF InStep
    <3>3. m \notin acked'
      BY <1>0, <1>5, <2>1 DEF AccountOK
    <3>4. \/ Pending(m)' \/ Acking(m)' \/ m \in threw'
          \/ \E i \in 1..Len(wire') :
               wire'[i].msg = m /\ (wire'[i].kind = "settle" \/ wire'[i].status = "fail")
          \/ \E i \in 1..Len(replies'[m]) : replies'[m][i] = "fail"
      <4>1. ASSUME NEW i \in 1..Len(wire), wire[i].msg = m,
                   wire[i].kind = "settle" \/ wire[i].status = "fail"
            PROVE  \/ \E l \in 1..Len(wire') :
                        wire'[l].msg = m /\ (wire'[l].kind = "settle" \/ wire'[l].status = "fail")
                   \/ \E l \in 1..Len(replies'[m]) : replies'[m][l] = "fail"
        <5>1. CASE i = 1
          <6>1. c.status = "fail"
            BY <4>1, <5>1, <1>2, <1>14
          <6>2. k + 1 \in 1..Len(replies'[m])
            BY <2>2, <2>3
          <6> QED BY <6>1, <6>2, <2>3
        <5>2. CASE i # 1
          <6>1. i - 1 \in 1..Len(wire') /\ wire'[i - 1] = wire[i]
            BY <5>2, <4>1, <1>3, <1>k
          <6> QED BY <6>1, <4>1
        <5> QED BY <5>1, <5>2
      <4>2. \A l \in 1..Len(old) : old[l] = "fail" => l \in 1..Len(replies'[m]) /\ replies'[m][l] = "fail"
        BY <2>2, <2>3
      <4> QED BY <4>1, <4>2, <1>1, <1>5, <1>11, <1>4 DEF InStep
    <3> QED BY <3>1, <3>2, <3>3, <3>4 DEF InStep, IsFinal
  <2> QED BY <1>7, <1>8, <1>9, <1>10, <1>12, <2>8, <2>9 DEF RequestsInv
<1> QED BY <1>4, <1>13, <1>14

-----------------------------------------------------------------------------
LEMMA TerminateKeepsRequests ==
  ASSUME RequestsInv, Terminate
  PROVE  RequestsInv'
<1>0. StatesOK /\ AccountOK /\ SequencesOK
  BY DEF RequestsInv
<1>1. /\ ready' = ready \cup unacked /\ unacked' = {} /\ wire' = <<>> /\ pool' = <<>> /\ up' = FALSE
      /\ wpc' = [w \in Workers |-> "idle"] /\ task' = [w \in Workers |-> None] /\ threw' = {}
      /\ UNCHANGED <<acked, dropped, replies, sent>> /\ exits < MaxExits /\ exits' = exits + 1
  BY DEF Terminate
<1>2. StatesOK'
  <2>1. exits' \in 0..MaxExits
    BY <1>0, <1>1, BoundsAssumption DEF StatesOK
  <2>2. wpc' \in [Workers -> WorkerLabels]
    BY <1>1 DEF WorkerLabels
  <2>3. task' \in [Workers -> Messages \cup {None}]
    BY <1>1
  <2>4. up' \in BOOLEAN /\ sent' \in [Workers -> Nat] /\ threw' \subseteq Messages
    BY <1>0, <1>1 DEF StatesOK
  <2> QED BY <2>1, <2>2, <2>3, <2>4 DEF StatesOK
<1>3. AccountOK' /\ SequencesOK' /\ PlacesOK'
  BY <1>0, <1>1 DEF AccountOK, SequencesOK, PlacesOK
<1>4. ASSUME NEW m \in Messages PROVE InOrder(m)' /\ InStep(m)'
  <2>1. InOrder(m) /\ InStep(m) /\ (HasResult(m)' <=> HasResult(m))
    BY <1>1 DEF RequestsInv, HasResult
  <2>2. Len(wire') = 0 /\ ~ Pending(m)' /\ ~ Acking(m)'
    BY <1>1 DEF Pending, Acking, Contains
  <2>3. InOrder(m)'
    BY <1>1, <2>1, <2>2 DEF InOrder
  <2>4. InStep(m)'
    BY <1>1, <2>1, <2>2 DEF InStep
  <2> QED BY <2>3, <2>4
<1> QED BY <1>2, <1>3, <1>4 DEF RequestsInv

LEMMA NextKeepsRequests ==
  ASSUME RequestsInv, [Next]_vars
  PROVE  RequestsInv'
<1>1. ASSUME NEW m \in Messages,
             HandlePing(m) \/ HandleGetAppInfo(m) \/ PostTask(m) \/ RejectTask(m)
      PROVE  RequestsInv'
  <2>1. \E q : Deliver(m, q)
    BY <1>1 DEF HandlePing, HandleGetAppInfo, PostTask, RejectTask
  <2>2. UNCHANGED <<up, exits, workerVars>>
    BY <1>1 DEF HandlePing, HandleGetAppInfo, PostTask, RejectTask
  <2>3. \/ wire' = wire /\ pool' = Append(pool, m)
        \/ wire' = Append(wire, Settle(m, "reject")) /\ pool' = pool
        \/ \E s \in Finals : wire' = wire \o <<Reply(m, s), Settle(m, "ack")>> /\ pool' = pool
    BY <1>1 DEF HandlePing, HandleGetAppInfo, PostTask, RejectTask, Finals
  <2> QED BY <2>1, <2>2, <2>3, DeliveryKeepsRequests
<1>2. ASSUME NEW w \in Workers, Take(w) \/ Work(w) PROVE RequestsInv'
  BY <1>2, TakeKeepsRequests, WorkKeepsRequests
<1>3. CASE Exit \/ PingThrows
  BY <1>3, TerminateKeepsRequests DEF Exit, PingThrows
<1>4. CASE Restart \/ UNCHANGED vars
  <2>1. /\ UNCHANGED <<ready, unacked, acked, dropped, replies, wire, exits, pool>>
        /\ UNCHANGED <<wpc, task, sent, threw>>
        /\ up' = TRUE \/ up' = up
    BY <1>4 DEF Restart, vars, brokerVars, workerVars
  <2>2. StatesOK /\ AccountOK /\ SequencesOK /\ PlacesOK
    BY DEF RequestsInv
  <2>3. StatesOK'
    BY <2>1, <2>2 DEF StatesOK
  <2>4. AccountOK' /\ SequencesOK'
    BY <2>1, <2>2 DEF AccountOK, SequencesOK
  <2>5. PlacesOK'
    BY <2>1, <2>2 DEF PlacesOK
  <2>6. \A m \in Messages : InOrder(m)' /\ InStep(m)'
    BY <2>1 DEF RequestsInv, InOrder, InStep, Pending, Acking, Contains, Answered, HasResult
  <2> QED BY <2>3, <2>4, <2>5, <2>6 DEF RequestsInv
<1> QED BY <1>1, <1>2, <1>3, <1>4, ReceiveKeepsRequests DEF Next

LEMMA RequestsAlways == Spec => []RequestsInv
<1>1. RequestsInv /\ [Next]_vars => RequestsInv'
  BY NextKeepsRequests
<1> QED BY InitRequests, <1>1, PTL DEF Spec

\* The broker's account is complete, a delivery is at one place of the process,
\* and no second verdict is sent for it.
THEOREM TransportIsConsistent == Spec => []TransportInv
BY RequestsAlways, InvImpliesTransport, PTL

\* An acknowledged request has had its result, for every number of requests and
\* threads, whenever the process ends and is started again.
THEOREM AckFollowsResult == Spec => []AckedWasAnswered
BY RequestsAlways, InvImpliesAnswers, PTL

\* A client sees the result of a delivery once and after all reports.
THEOREM ResultComesLast == Spec => []FinalIsLast
BY RequestsAlways, InvImpliesAnswers, PTL

\* A place of the broker's window is lost only to a Fail that is not settled or
\* to an exception in the thread.
THEOREM WindowLeaksByFailure == Spec => []OnlyFailuresLeak
BY RequestsAlways, InvImpliesAnswers, PTL
=============================================================================
