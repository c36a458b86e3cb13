------------------------ MODULE AmqpConnectionProofs -------------------------
(***************************************************************************)
(* Proofs about the life of the connection, for every number of workers,   *)
(* every negotiated interval and every delay of the heartbeater: something *)
(* goes out often enough for a broker, and at the end nobody uses what has *)
(* been destroyed but for one heartbeat.                                   *)
(***************************************************************************)
EXTENDS AmqpConnection, TLAPS

Running == {"sleep", "due", "beat"}

\* Once the transport is being destroyed, or the connection was closed, quit is
\* set and stays; the connection exists as long as nobody has said so.
QuitInv == closed \/ mpc \in Destroying => quit

\* When the heartbeater runs, an interval has been agreed on.
BeaterInv == hpc # "none" => interval >= 1

\* How the heartbeater's two times and the last message go together: the last
\* message is never older than what it counts from, and what it counts from was
\* less than an interval old, but for Jitter, when it last looked.
SilenceInv ==
  hpc \in Running /\ ~quit =>
    /\ lastMessage <= interval - 1 + Jitter + slept
    /\ hpc \in {"sleep", "due"} =>
         /\ lastMessage <= lastSent
         /\ lastSent <= interval - 1 + Jitter + slept
    /\ hpc = "due" => currentTime <= slept - 1
    /\ hpc = "beat" => lastSent <= slept - 1

IInv == ConnectionInv /\ QuitInv /\ BeaterInv /\ SilenceInv

LEMMA OffersAgree ==
  ASSUME NEW offer \in Offers
  PROVE  /\ Negotiated(offer) \in Intervals
         /\ Negotiated(offer) \in Nat
         /\ Heartbeat # 0 => Negotiated(offer) >= 1
BY ConnectionAssumption DEF Negotiated, Intervals, Lower

LEMMA IntervalsAreNumbers == Intervals \subseteq Nat
BY OffersAgree DEF Intervals

LEMMA OldestIsNumber == Oldest \in Nat
BY ConnectionAssumption DEF Oldest, Longest

\* An age grows by one at most, keeps its order and its range.
LEMMA AgesGrow ==
  ASSUME NEW a \in 0..Oldest
  PROVE  /\ Older(a) \in 0..Oldest
         /\ Older(a) <= a + 1
         /\ \A b \in 0..Oldest : a <= b => Older(a) <= Older(b)
BY OldestIsNumber DEF Older, Lower

-----------------------------------------------------------------------------
LEMMA InitConnection == Init => IInv
<1> SUFFICES ASSUME Init PROVE IInv
  OBVIOUS
<1>0. FlagsOK /\ PlacesOK
  <2>1. FlagsOK
    BY DEF Init, FlagsOK
  <2>2. PlacesOK
    BY DEF Init, PlacesOK
  <2> QED BY <2>1, <2>2
<1>1. PoolOK
  BY ConnectionAssumption DEF Init, PoolOK
<1>2. TimesOK
  BY ConnectionAssumption, OldestIsNumber DEF Init, TimesOK
<1>3. ClosedIsFinal /\ WorkersUseLive /\ NobodyUsesFreed /\ LateOnce
  BY DEF Init, ClosedIsFinal, WorkersUseLive, NobodyUsesFreed, LateOnce
<1>4. QuitInv /\ BeaterInv /\ SilenceInv
  BY DEF Init, QuitInv, BeaterInv, SilenceInv, Destroying, Running
<1> QED BY <1>0, <1>1, <1>2, <1>3, <1>4 DEF IInv, ConnectionInv, TypeOK

-----------------------------------------------------------------------------
(* Types                                                                   *)

LEMMA NextKeepsFlags ==
  ASSUME FlagsOK, [Next]_vars
  PROVE  FlagsOK'
<1> USE DEF FlagsOK
<1>1. ASSUME Receive PROVE FlagsOK'
  BY <1>1 DEF Receive, ReceiveTask, ReceiveBeat, ReceiveClose, ReceiveTune, Received, Send
<1>2. ASSUME HeartbeaterStep PROVE FlagsOK'
  BY <1>2 DEF HeartbeaterStep, Wake, Decide, Beat, Send
<1>3. ASSUME MainStep PROVE FlagsOK'
  BY <1>3 DEF MainStep, Head, RecvFails, QuitHandler, JoinPool, DestroyConnection,
              DestroyHandler, Teardown, Send
<1>4. CASE Tick \/ Quit \/ LinkFails
  BY <1>4 DEF Tick, Quit, LinkFails
<1>5. ASSUME NEW w \in Workers, WorkerStep(w) PROVE FlagsOK'
  BY <1>5 DEF WorkerStep, WorkerGoesOn, Take, Answer, Leave, Oversleep, Goes,
              TakesTooLate, SpuriousWakeup, PureVirtualCall, Send
<1>6. CASE UNCHANGED vars
  BY <1>6 DEF vars
<1> QED BY <1>1, <1>2, <1>3, <1>4, <1>5, <1>6 DEF Next

LEMMA NextKeepsPlaces ==
  ASSUME PlacesOK, [Next]_vars
  PROVE  PlacesOK'
<1> USE DEF PlacesOK, Destroying
<1>1. ASSUME Receive PROVE PlacesOK'
  BY <1>1 DEF Receive, ReceiveTask, ReceiveBeat, ReceiveClose, ReceiveTune, Received, Send
<1>2. ASSUME HeartbeaterStep PROVE PlacesOK'
  <2>1. UNCHANGED <<mpc, object>>
    BY <1>2 DEF HeartbeaterStep, Wake, Decide, Beat
  <2> QED BY <2>1
<1>3. ASSUME MainStep PROVE PlacesOK'
  BY <1>3 DEF MainStep, Head, RecvFails, QuitHandler, JoinPool, DestroyConnection,
              DestroyHandler, Teardown, Send
<1>4. CASE Tick \/ Quit \/ LinkFails
  BY <1>4 DEF Tick, Quit, LinkFails
<1>5. ASSUME NEW w \in Workers, WorkerStep(w) PROVE PlacesOK'
  BY <1>5 DEF WorkerStep, WorkerGoesOn, Take, Answer, Leave, Oversleep, Goes,
              TakesTooLate, SpuriousWakeup, PureVirtualCall, Send
<1>6. CASE UNCHANGED vars
  BY <1>6 DEF vars
<1> QED BY <1>1, <1>2, <1>3, <1>4, <1>5, <1>6 DEF Next

LEMMA NextKeepsPool ==
  ASSUME PoolOK, [Next]_vars
  PROVE  PoolOK'
<1> USE ConnectionAssumption DEF PoolOK
<1>1. ASSUME Receive PROVE PoolOK'
  BY <1>1 DEF Receive, ReceiveTask, ReceiveBeat, ReceiveClose, ReceiveTune, pool
<1>2. ASSUME HeartbeaterStep PROVE PoolOK'
  BY <1>2 DEF HeartbeaterStep, Wake, Decide, Beat, pool
<1>3. ASSUME MainStep PROVE PoolOK'
  BY <1>3 DEF MainStep, Head, RecvFails, QuitHandler, JoinPool, DestroyConnection,
              DestroyHandler, Teardown, pool
<1>4. CASE Tick \/ Quit \/ LinkFails
  BY <1>4 DEF Tick, Quit, LinkFails, pool
<1>5. ASSUME NEW w \in Workers, WorkerStep(w) PROVE PoolOK'
  BY <1>5 DEF WorkerStep, WorkerGoesOn, Take, Answer, Leave, Oversleep, Goes,
              TakesTooLate, SpuriousWakeup, PureVirtualCall
<1>6. CASE UNCHANGED vars
  BY <1>6 DEF vars, pool
<1> QED BY <1>1, <1>2, <1>3, <1>4, <1>5, <1>6 DEF Next

LEMMA NextKeepsTimes ==
  ASSUME TimesOK, [Next]_vars
  PROVE  TimesOK'
<1> USE ConnectionAssumption, OldestIsNumber DEF TimesOK
<1>1. ASSUME UNCHANGED <<beater, late>>, lastMessage' \in {lastMessage, 0} PROVE TimesOK'
  BY <1>1 DEF beater
<1>2. ASSUME Receive PROVE TimesOK'
  <2>1. CASE ReceiveTask \/ ReceiveBeat \/ ReceiveClose
    BY <1>1, <2>1 DEF ReceiveTask, ReceiveBeat, ReceiveClose, Send
  <2>2. ASSUME NEW offer \in Offers, ReceiveTune(offer) PROVE TimesOK'
    BY <2>2, OffersAgree DEF ReceiveTune, Send
  <2> QED BY <1>2, <2>1, <2>2 DEF Receive
<1>3. ASSUME HeartbeaterStep PROVE TimesOK'
  <2>1. CASE Wake
    BY <2>1 DEF Wake, Around
  <2>2. CASE Decide
    BY <2>2 DEF Decide, Around
  <2>3. CASE Beat
    BY <2>3 DEF Beat, Around, Send, Lower
  <2> QED BY <1>3, <2>1, <2>2, <2>3 DEF HeartbeaterStep
<1>4. ASSUME MainStep PROVE TimesOK'
  BY <1>1, <1>4 DEF MainStep, Head, RecvFails, QuitHandler, JoinPool, DestroyConnection,
                    DestroyHandler, Teardown, Send
<1>5. ASSUME Tick PROVE TimesOK'
  BY <1>5, AgesGrow DEF Tick
<1>6. CASE Quit \/ LinkFails
  BY <1>1, <1>6 DEF Quit, LinkFails
<1>7. ASSUME NEW w \in Workers, WorkerStep(w) PROVE TimesOK'
  BY <1>1, <1>7 DEF WorkerStep, WorkerGoesOn, Take, Answer, Leave, Oversleep, Goes,
              TakesTooLate, SpuriousWakeup, PureVirtualCall, Send
<1>8. CASE UNCHANGED vars
  BY <1>1, <1>8 DEF vars
<1> QED BY <1>2, <1>3, <1>4, <1>5, <1>6, <1>7, <1>8 DEF Next

-----------------------------------------------------------------------------
(* Who uses what, and until when                                           *)

\* What a worker does is a step of a thread that is there and touches neither
\* main nor the heartbeater, or it is the end of the process.
LEMMA WorkersMayCrash ==
  ASSUME NEW w \in Workers, WorkerStep(w)
  PROVE  \/ PureVirtualCall /\ mpc = "pool"
         \/ /\ wpc[w] # "gone"
            /\ UNCHANGED <<mpc, quit, closed, beater, late>>
            /\ lastMessage' \in {lastMessage, 0}
BY DEF WorkerStep, WorkerGoesOn, Take, Answer, Leave, Oversleep, Goes, TakesTooLate,
       SpuriousWakeup, Send, beater

LEMMA NextKeepsOwners ==
  ASSUME IInv, [Next]_vars
  PROVE  ClosedIsFinal' /\ WorkersUseLive' /\ NobodyUsesFreed' /\ LateOnce' /\ QuitInv'
<1> DEFINE Goal == ClosedIsFinal /\ WorkersUseLive /\ NobodyUsesFreed /\ LateOnce /\ QuitInv
<1> SUFFICES Goal'
  OBVIOUS
<1>0. TypeOK /\ ClosedIsFinal /\ WorkersUseLive /\ NobodyUsesFreed /\ LateOnce /\ QuitInv
  BY DEF IInv, ConnectionInv
<1> USE <1>0 DEF ClosedIsFinal, WorkersUseLive, NobodyUsesFreed, LateOnce, QuitInv, Destroying
<1>1. ASSUME Receive PROVE Goal'
  <2>1. CASE ReceiveTask \/ ReceiveBeat \/ ReceiveClose
    BY <2>1 DEF ReceiveTask, ReceiveBeat, ReceiveClose, Received, beater, pool
  <2>2. ASSUME NEW offer \in Offers, ReceiveTune(offer) PROVE Goal'
    <3>1. mpc = "recv" /\ interval = 0 /\ late = 0
      BY <2>2 DEF ReceiveTune, Received, TypeOK, TimesOK, IInv, BeaterInv
    <3> QED BY <2>2, <3>1 DEF ReceiveTune, Received, pool
  <2> QED BY <1>1, <2>1, <2>2 DEF Receive
<1>2. ASSUME HeartbeaterStep PROVE Goal'
  <2>1. CASE Wake \/ Decide
    <3>1. /\ UNCHANGED <<mpc, quit, closed, wpc, late>>
          /\ hpc \in {"sleep", "due"}
          /\ late = 0
      BY <2>1 DEF Wake, Decide, TypeOK, TimesOK, pool
    <3>2. mpc # "freed"
      BY <3>1
    <3> QED BY <3>1, <3>2
  <2>2. CASE Beat
    <3>1. /\ UNCHANGED <<mpc, quit, closed, wpc>> /\ hpc = "beat" /\ late = 0
      BY <2>2 DEF Beat, TypeOK, TimesOK, pool
    <3>2. CASE object
      BY <2>2, <3>1, <3>2 DEF Beat
    <3>3. CASE ~object
      <4>1. quit
        BY <3>3 DEF TypeOK, FlagsOK, PlacesOK
      <4>2. late' = 1 /\ hpc' = "done"
        BY <2>2, <3>1, <3>3, <4>1 DEF Beat, Around, Lower
      <4> QED BY <3>1, <4>2
    <3> QED BY <3>2, <3>3 DEF TypeOK, FlagsOK, PlacesOK
  <2> QED BY <1>2, <2>1, <2>2 DEF HeartbeaterStep
<1>3. ASSUME MainStep PROVE Goal'
  BY <1>3 DEF MainStep, Head, RecvFails, QuitHandler, JoinPool, DestroyConnection,
              DestroyHandler, Teardown, beater, pool
<1>4. CASE Tick
  BY <1>4 DEF Tick, pool
<1>5. CASE Quit \/ LinkFails
  BY <1>5 DEF Quit, LinkFails, beater, pool
<1>6. ASSUME NEW w \in Workers, WorkerStep(w) PROVE Goal'
  <2>1. CASE PureVirtualCall /\ mpc = "pool"
    BY <2>1 DEF PureVirtualCall, TypeOK, TimesOK
  <2>2. CASE ~ (PureVirtualCall /\ mpc = "pool")
    <3>1. /\ wpc[w] # "gone"
          /\ UNCHANGED <<mpc, quit, closed, beater, late>>
      BY <1>6, <2>2, WorkersMayCrash
    <3>2. mpc \notin {"object", "socket", "wait", "freed"}
      BY <3>1
    <3> QED BY <3>1, <3>2 DEF beater
  <2> QED BY <2>1, <2>2
<1>7. CASE UNCHANGED vars
  BY <1>7 DEF vars, beater, pool
<1> QED BY <1>1, <1>2, <1>3, <1>4, <1>5, <1>6, <1>7 DEF Next

-----------------------------------------------------------------------------
(* The times                                                               *)

LEMMA NextKeepsSilence ==
  ASSUME IInv, [Next]_vars
  PROVE  BeaterInv' /\ SilenceInv'
<1>1. TypeOK /\ QuitInv /\ BeaterInv /\ SilenceInv /\ LateOnce
  BY DEF IInv, ConnectionInv
<1>2. /\ lastMessage \in 0..Oldest /\ lastSent \in 0..Oldest /\ currentTime \in 0..Oldest
      /\ slept \in 0..(1 + Jitter) /\ interval \in Nat /\ Jitter \in Nat /\ Oldest \in Nat
      /\ quit \in BOOLEAN
  BY <1>1, ConnectionAssumption, IntervalsAreNumbers, OldestIsNumber DEF TypeOK, FlagsOK, PlacesOK, TimesOK
<1> USE <1>1, <1>2 DEF BeaterInv, SilenceInv, Running
\* What does not concern the heartbeater can only make the silence shorter.
<1>3. ASSUME UNCHANGED beater, lastMessage' \in {lastMessage, 0}, quit => quit'
      PROVE  BeaterInv' /\ SilenceInv'
  BY <1>3 DEF beater
<1>4. ASSUME Receive PROVE BeaterInv' /\ SilenceInv'
  <2>1. CASE ReceiveTask \/ ReceiveBeat \/ ReceiveClose
    BY <2>1, <1>3 DEF ReceiveTask, ReceiveBeat, ReceiveClose, Send
  <2>2. ASSUME NEW offer \in Offers, ReceiveTune(offer) PROVE BeaterInv' /\ SilenceInv'
    BY <2>2, OffersAgree DEF ReceiveTune, Send
  <2> QED BY <1>4, <2>1, <2>2 DEF Receive
<1>5. ASSUME HeartbeaterStep PROVE BeaterInv' /\ SilenceInv'
  <2>1. CASE Wake
    BY <2>1 DEF Wake, Around
  <2>2. CASE Decide
    <3>1. CASE MayBeRecent /\ lastSent' = lastMessage /\ slept' = 0 /\ hpc' = Around
      BY <2>2, <3>1 DEF Decide, Around, MayBeRecent, writeDiff
    <3>2. CASE lastSent' = currentTime /\ hpc' = "beat" /\ UNCHANGED slept
      BY <2>2, <3>2 DEF Decide
    <3> QED BY <2>2, <3>1, <3>2 DEF Decide
  <2>3. CASE Beat
    <3>1. ~quit => object
      BY DEF TypeOK, FlagsOK, PlacesOK, QuitInv, Destroying
    <3> QED BY <2>3, <3>1 DEF Beat, Around, Send, TypeOK, TimesOK
  <2> QED BY <1>5, <2>1, <2>2, <2>3 DEF HeartbeaterStep
<1>6. ASSUME MainStep PROVE BeaterInv' /\ SilenceInv'
  BY <1>3, <1>6 DEF MainStep, Head, RecvFails, QuitHandler, JoinPool, DestroyConnection,
                    DestroyHandler, Teardown, Send
<1>7. CASE Tick
  <2>1. /\ lastMessage' <= lastMessage + 1 /\ lastSent' <= lastSent + 1
        /\ lastMessage <= lastSent => lastMessage' <= lastSent'
    BY <1>7, AgesGrow DEF Tick
  <2>2. hpc = "due" => currentTime' <= currentTime + 1
    BY <1>7, AgesGrow DEF Tick
  <2>3. /\ lastMessage' \in Nat /\ lastSent' \in Nat /\ currentTime' \in Nat
        /\ slept' = slept + 1 /\ UNCHANGED <<hpc, interval, quit>>
    BY <1>7, AgesGrow DEF Tick
  <2> QED BY <2>1, <2>2, <2>3
<1>8. CASE Quit \/ LinkFails
  BY <1>3, <1>8 DEF Quit, LinkFails
<1>9. ASSUME NEW w \in Workers, WorkerStep(w) PROVE BeaterInv' /\ SilenceInv'
  <2>1. CASE PureVirtualCall /\ mpc = "pool"
    BY <2>1 DEF PureVirtualCall
  <2>2. CASE ~ (PureVirtualCall /\ mpc = "pool")
    BY <1>3, <1>9, <2>2, WorkersMayCrash
  <2> QED BY <2>1, <2>2
<1>10. CASE UNCHANGED vars
  BY <1>3, <1>10 DEF vars
<1> QED BY <1>4, <1>5, <1>6, <1>7, <1>8, <1>9, <1>10 DEF Next

-----------------------------------------------------------------------------
LEMMA SpecKeepsIInv == Spec => []IInv
<1>1. IInv /\ [Next]_vars => IInv'
  BY NextKeepsFlags, NextKeepsPlaces, NextKeepsPool, NextKeepsTimes, NextKeepsOwners, NextKeepsSilence
  DEF IInv, ConnectionInv, TypeOK
<1> QED BY InitConnection, <1>1, PTL DEF Spec

\* Workers are gone before the connection, the heartbeater before the handler,
\* and of all threads only the heartbeater can use the connection after it was
\* destroyed, once.
THEOREM ConnectionIsConsistent == Spec => []ConnectionInv
<1>1. IInv => ConnectionInv
  BY DEF IInv
<1> QED BY SpecKeepsIInv, <1>1, PTL

\* The broker hears something at least every interval and 2 * Jitter ticks.
THEOREM SilenceStaysBounded == Spec => []SilenceIsBounded
<1>1. IInv => SilenceIsBounded
  <2> SUFFICES ASSUME IInv PROVE SilenceIsBounded
    OBVIOUS
  <2>1. /\ lastMessage \in Nat /\ slept \in 0..(1 + Jitter) /\ interval \in Nat
        /\ Jitter \in Nat
    BY ConnectionAssumption, OldestIsNumber, IntervalsAreNumbers DEF IInv, ConnectionInv, TypeOK, TimesOK
  <2> QED BY <2>1 DEF IInv, SilenceInv, SilenceIsBounded, Running
<1> QED BY SpecKeepsIInv, <1>1, PTL
=============================================================================
