---------------------------- MODULE AmqpConnection ----------------------------
(***************************************************************************)
(* The life of the connection: the network loop, the heartbeater that      *)
(* onNegotiate starts, the workers of the pool that answer over the        *)
(* connection, and the end of it all, when main leaves loop() and the      *)
(* members of AmqpTransport are destroyed (amqp-handler.cpp, amqp-         *)
(* transport.cpp, main.cpp).                                               *)
(*                                                                         *)
(* Time passes in ticks of HEARTBEAT_RESOLUTION.  The steps of onData are  *)
(* the subject of AmqpHandler; here a call that sends is one step.  The    *)
(* broker is external: it negotiates, sends requests and heartbeats, and   *)
(* may close; the network may fail.                                        *)
(***************************************************************************)
EXTENDS Integers, FiniteSets

CONSTANTS
  Workers,
  Offers,             \* the heartbeat intervals a broker proposes, in ticks
  Heartbeat,          \* m_impl->conf->heartbeat
  DEFAULT_HEARTBEAT,
  Jitter,             \* ticks by which the scheduler may delay the heartbeater
  MaxTasks            \* bound: the requests the broker sends

ASSUME ConnectionAssumption ==
  /\ IsFiniteSet(Workers) /\ Offers \subseteq Nat
  /\ Heartbeat \in Nat /\ DEFAULT_HEARTBEAT \in Nat \ {0}
  /\ Jitter \in Nat /\ MaxTasks \in Nat

VARIABLES
  mpc,         \* where main is: in loop(), or in a destructor
  quit,        \* m_impl->quit
  connection,  \* m_impl->connection is set
  object,      \* m_connection exists
  link,        \* the socket is open and the network works
  closed,      \* history: onClosed was called
  posted,      \* the requests that were put into the pool
  waiting,     \* those that no worker has taken
  wpc,         \* what each worker does
  hpc,         \* where the heartbeater is
  interval,    \* its interval
  slept,       \* ticks since it looked at quit
  lastMessage, \* age of m_impl->lastMessage
  lastSent,    \* age of the heartbeater's lastSent
  currentTime, \* age of its currentTime
  late         \* history: heartbeats on a connection that does not exist, up to 2

beater == <<hpc, interval, slept, lastSent, currentTime>>
pool == <<posted, waiting, wpc>>
vars == <<mpc, quit, connection, object, link, closed, pool, beater, lastMessage, late>>

\* onNegotiate.  The handler is constructed without a configuration, so that
\* Heartbeat is the default of the handler.
Lower(a, b) == IF a < b THEN a ELSE b
Negotiated(offer) ==
  IF Heartbeat = 0 THEN 0
  ELSE LET agreed == Lower(offer, Heartbeat)
       IN IF agreed < DEFAULT_HEARTBEAT THEN DEFAULT_HEARTBEAT ELSE agreed

\* Ages stop growing when no comparison can tell them apart any more.
Intervals == {Negotiated(offer) : offer \in Offers}
Longest == IF Heartbeat < DEFAULT_HEARTBEAT THEN DEFAULT_HEARTBEAT ELSE Heartbeat
Oldest == 2 * Longest + 2 * Jitter + 4
Older(age) == Lower(age + 1, Oldest)

\* AMQP::Connection writes the protocol header when it is constructed.
Init ==
  /\ mpc = "head" /\ quit = FALSE
  /\ connection = TRUE /\ object = TRUE
  /\ link \in BOOLEAN
  /\ closed = FALSE
  /\ posted = 0 /\ waiting = 0
  /\ wpc = [w \in Workers |-> "idle"]
  /\ hpc = "none" /\ interval = 0 /\ slept = 0
  /\ lastMessage = 0 /\ lastSent = 0 /\ currentTime = 0
  /\ late = 0

\* sendDataFromBuffer, reached through onData: it stores the pointer and the
\* time, whether the socket takes the bytes or not.
Send == connection' = TRUE /\ lastMessage' = 0

-----------------------------------------------------------------------------
(* loop                                                                    *)

Head ==
  /\ mpc = "head"
  /\ mpc' = IF quit THEN "left" ELSE "recv"
  /\ UNCHANGED <<quit, connection, object, link, closed, pool, beater, lastMessage, late>>

\* poll_read or recv1 fails.  When poll_read runs into its timeout, recv1 is
\* called all the same and waits.
RecvFails ==
  /\ mpc = "recv" /\ ~link
  /\ mpc' = "left"
  /\ UNCHANGED <<quit, connection, object, link, closed, pool, beater, lastMessage, late>>

Received == mpc = "recv" /\ link /\ mpc' = "head"

\* parse calls onNegotiate, and the answer goes out.
ReceiveTune(offer) ==
  /\ Received
  /\ interval = 0 /\ connection
  /\ interval' = Negotiated(offer)
  /\ hpc' = IF Heartbeat = 0 THEN "none" ELSE "sleep"
  /\ slept' = 0 /\ lastSent' = 0 /\ currentTime' = 0
  /\ Send
  /\ UNCHANGED <<quit, object, link, closed, pool, late>>

\* A request of the process-image queue: tryPost succeeds or it is rejected.
ReceiveTask ==
  /\ Received
  /\ interval # 0 /\ connection /\ posted < MaxTasks
  /\ \/ posted' = posted + 1 /\ waiting' = waiting + 1 /\ UNCHANGED <<connection, lastMessage>>
     \/ posted' = posted + 1 /\ UNCHANGED waiting /\ Send
  /\ UNCHANGED <<quit, object, link, closed, wpc, beater, late>>

\* Heartbeats and whatever else needs no answer.  Without a connection the
\* bytes stay in inputBuffer.
ReceiveBeat ==
  /\ Received
  /\ UNCHANGED <<quit, connection, object, link, closed, pool, beater, lastMessage, late>>

\* onClosed.
ReceiveClose ==
  /\ Received
  /\ interval # 0 /\ connection
  /\ connection' = FALSE
  /\ quit' = TRUE
  /\ closed' = TRUE
  /\ UNCHANGED <<object, link, pool, beater, lastMessage, late>>

\* AmqpTransport::quit, by any thread while the transport exists.
Quit ==
  /\ mpc \in {"head", "recv", "left"}
  /\ quit' = TRUE
  /\ UNCHANGED <<mpc, connection, object, link, closed, pool, beater, lastMessage, late>>

LinkFails ==
  /\ link
  /\ link' = FALSE
  /\ UNCHANGED <<mpc, quit, connection, object, closed, pool, beater, lastMessage, late>>

-----------------------------------------------------------------------------
(* The workers of m_pool                                                   *)

\* The call of handleProcessImage, which is virtual.
Take(w) ==
  /\ wpc[w] = "idle" /\ waiting > 0
  /\ mpc # "pool"
  /\ waiting' = waiting - 1
  /\ wpc' = [wpc EXCEPT ![w] = "working"]
  /\ UNCHANGED <<mpc, quit, connection, object, link, closed, posted, beater, lastMessage, late>>

\* A progress report, and then the result with its acknowledgement.
Answer(w) ==
  /\ wpc[w] \in {"working", "reported"}
  /\ wpc' = [wpc EXCEPT ![w] = IF @ = "working" THEN "reported" ELSE "idle"]
  /\ Send
  /\ UNCHANGED <<mpc, quit, object, link, closed, posted, waiting, beater, late>>

\* Steps that change where a worker is and nothing else.
Goes(w, from, to) ==
  /\ mpc = "pool" /\ wpc[w] = from
  /\ wpc' = [wpc EXCEPT ![w] = to]
  /\ UNCHANGED <<mpc, quit, connection, object, link, closed, posted, waiting, beater, lastMessage, late>>

\* The pool was told to stop; what is still in the ring may be left there.
Leave(w) == Goes(w, "idle", "gone")

\* The worker looked at its flag before stop() and waits after notify_all().
Oversleep(w) == Goes(w, "idle", "asleep")

\* The derived part of the transport has been destroyed: a handler that is
\* called now finds handleProcessImage pure, and the process is aborted.
PureVirtualCall ==
  /\ waiting > 0 /\ waiting' = waiting - 1
  /\ mpc' = "aborted" /\ link' = FALSE
  /\ hpc' = IF hpc = "none" THEN "none" ELSE "done"
  /\ wpc' = [w \in Workers |-> "gone"]
  /\ UNCHANGED <<quit, connection, object, closed, posted, interval, slept, lastSent,
                 currentTime, lastMessage, late>>

\* A worker looks into the ring before it looks at its flag.
TakesTooLate(w) == mpc = "pool" /\ wpc[w] = "idle" /\ PureVirtualCall

\* What wakes a worker that oversleeps, if anything does.
SpuriousWakeup(w) ==
  \/ waiting = 0 /\ Goes(w, "asleep", "gone")
  \/ mpc = "pool" /\ wpc[w] = "asleep" /\ PureVirtualCall

-----------------------------------------------------------------------------
(* heartbeater                                                             *)

\* The head of its loop is reached from three places.
Around == IF quit THEN "done" ELSE "sleep"

\* sleep_for is over and the time is taken.  The interval is compared with
\* whole seconds.
Wake ==
  /\ hpc = "sleep" /\ slept >= 1
  /\ IF lastSent >= interval
     THEN hpc' = "due" /\ currentTime' = 0 /\ UNCHANGED slept
     ELSE hpc' = Around /\ slept' = 0 /\ UNCHANGED currentTime
  /\ UNCHANGED <<mpc, quit, connection, object, link, closed, pool, interval, lastSent,
                 lastMessage, late>>

\* writeDiff in whole seconds.  A message may have gone out since the time was
\* taken: the difference is negative then, and what its conversion to uint16_t
\* gives is undefined.
writeDiff == lastMessage - currentTime
MayBeRecent == writeDiff < interval
MayBeOld == writeDiff < 0 \/ writeDiff >= interval

\* Mutant: a message puts the next look off by a whole interval from now.
Decide_FromNow ==
  /\ hpc = "due"
  /\ lastSent' = currentTime
  /\ \/ MayBeRecent /\ slept' = 0 /\ hpc' = Around
     \/ MayBeOld /\ hpc' = "beat" /\ UNCHANGED slept
  /\ UNCHANGED <<mpc, quit, connection, object, link, closed, pool, interval, currentTime,
                 lastMessage, late>>

Decide ==
  /\ hpc = "due"
  /\ \/ MayBeRecent /\ lastSent' = lastMessage /\ slept' = 0 /\ hpc' = Around
     \/ MayBeOld /\ lastSent' = currentTime /\ hpc' = "beat" /\ UNCHANGED slept
  /\ UNCHANGED <<mpc, quit, connection, object, link, closed, pool, interval, currentTime,
                 lastMessage, late>>

\* connection->heartbeat() on the pointer onNegotiate was given; quit is not
\* looked at again.
Beat ==
  /\ hpc = "beat"
  /\ hpc' = Around /\ slept' = 0
  /\ IF object THEN Send /\ UNCHANGED late
               ELSE late' = Lower(late + 1, 2) /\ UNCHANGED <<connection, lastMessage>>
  /\ UNCHANGED <<mpc, quit, object, link, closed, pool, interval, lastSent, currentTime>>

\* Time passes while there is something it is measured for; the heartbeater is
\* never held up for more than Jitter ticks between two sleeps.
Tick ==
  /\ hpc \in {"sleep", "due", "beat"} /\ slept < 1 + Jitter
  /\ slept' = slept + 1
  /\ lastMessage' = Older(lastMessage)
  /\ lastSent' = Older(lastSent)
  /\ currentTime' = IF hpc = "sleep" THEN 0 ELSE Older(currentTime)
  /\ UNCHANGED <<mpc, quit, connection, object, link, closed, pool, hpc, interval, late>>

-----------------------------------------------------------------------------
(* The end: main returns and the members go, the last one first            *)

Teardown(from, to) ==
  /\ mpc = from /\ mpc' = to
  /\ UNCHANGED <<closed, pool, beater>>

\* Mutant: the handler is not told.
QuitHandler_Not ==
  /\ Teardown("left", "pool")
  /\ UNCHANGED <<quit, connection, object, link, lastMessage, late>>

\* ~AmqpTransport; loop() may also have ended by itself.
QuitHandler ==
  /\ Teardown("left", "pool")
  /\ quit' = TRUE
  /\ UNCHANGED <<connection, object, link, lastMessage, late>>

\* Mutant: the connection does not wait for the pool.
JoinPool_Not ==
  /\ Teardown("pool", "object")
  /\ UNCHANGED <<quit, connection, object, link, lastMessage, late>>

\* ~ThreadPool joins the workers.
JoinPool ==
  /\ Teardown("pool", "object")
  /\ \A w \in Workers : wpc[w] = "gone"
  /\ UNCHANGED <<quit, connection, object, link, lastMessage, late>>

\* ~Channel and ~Connection; the library says good-bye through onData.
DestroyConnection ==
  /\ Teardown("object", "socket")
  /\ object' = FALSE
  /\ Send
  /\ UNCHANGED <<quit, link, late>>

\* ~AmqpHandler closes the socket and waits for the heartbeaters before it
\* frees what they use.
DestroyHandler ==
  \/ /\ Teardown("socket", "wait")
     /\ link' = FALSE
     /\ UNCHANGED <<quit, connection, object, lastMessage, late>>
  \/ /\ Teardown("wait", "freed")
     /\ hpc \in {"none", "done"}
     /\ UNCHANGED <<quit, connection, object, link, lastMessage, late>>

-----------------------------------------------------------------------------
Receive ==
  ReceiveTask \/ ReceiveBeat \/ ReceiveClose \/ \E offer \in Offers : ReceiveTune(offer)
HeartbeaterStep == Wake \/ Decide \/ Beat
MainStep == Head \/ RecvFails \/ QuitHandler \/ JoinPool \/ DestroyConnection \/ DestroyHandler
WorkerGoesOn(w) == Answer(w) \/ Leave(w) \/ Oversleep(w) \/ TakesTooLate(w)
WorkerStep(w) == Take(w) \/ WorkerGoesOn(w) \/ SpuriousWakeup(w)

Next ==
  \/ Receive \/ HeartbeaterStep \/ MainStep \/ Tick
  \/ Quit \/ LinkFails
  \/ \E w \in Workers : WorkerStep(w)

Spec == Init /\ [][Next]_vars

\* Every thread runs, time passes, and a broker that is there sends heartbeats
\* as it was told to in the negotiation.  No worker need take a task, because a
\* notification can be lost, and nothing wakes one that oversleeps.
FairSpec ==
  /\ Spec
  /\ WF_vars(Receive) /\ WF_vars(MainStep) /\ WF_vars(Tick) /\ WF_vars(HeartbeaterStep)
  /\ \A w \in Workers : WF_vars(WorkerGoesOn(w))

-----------------------------------------------------------------------------
(* Properties                                                              *)

Destroying == {"pool", "object", "socket", "wait", "freed", "aborted"}

\* The values each variable ranges over, and how main's place in the code goes
\* with the object that exists.
FlagsOK ==
  /\ quit \in BOOLEAN /\ connection \in BOOLEAN /\ link \in BOOLEAN /\ closed \in BOOLEAN
  /\ object \in BOOLEAN

PlacesOK ==
  /\ mpc \in {"head", "recv", "left"} \cup Destroying
  /\ object <=> mpc \notin {"socket", "wait", "freed"}

PoolOK ==
  /\ posted \in 0..MaxTasks /\ waiting \in 0..posted
  /\ wpc \in [Workers -> {"idle", "working", "reported", "asleep", "gone"}]

TimesOK ==
  /\ hpc \in {"none", "sleep", "due", "beat", "done"} /\ late \in 0..2
  /\ interval \in {0} \cup Intervals /\ slept \in 0..(1 + Jitter)
  /\ lastMessage \in 0..Oldest /\ lastSent \in 0..Oldest /\ currentTime \in 0..Oldest

TypeOK == FlagsOK /\ PlacesOK /\ PoolOK /\ TimesOK

\* Something goes out at least every interval and a few ticks: a broker that
\* waits for two intervals does not give the connection up (heartbeater:
\* lastSent is set back to the last message when there was one).
SilenceIsBounded ==
  hpc \in {"sleep", "due", "beat"} /\ ~quit => lastMessage <= interval + 2 * Jitter

\* After onClosed the loop neither reads nor parses, although a worker that
\* answers late stores the pointer to the connection again.
ClosedIsFinal == closed => mpc # "recv"

\* Workers use the connection, the channel and the handler; they are gone
\* before any of these is (the order of the members in amqp-transport.hpp).
WorkersUseLive ==
  mpc \in {"object", "socket", "wait", "freed"} => \A w \in Workers : wpc[w] = "gone"

\* When the handler is freed nobody is left who could use it.
NobodyUsesFreed ==
  mpc = "freed" => hpc \in {"none", "done"} /\ \A w \in Workers : wpc[w] = "gone"

\* The heartbeater looks at quit before it sleeps and not after: it can use
\* the connection that was destroyed meanwhile, once and not again.
LateOnce == late <= 1 /\ (late = 1 => hpc = "done")

\* Who uses the connection and the handler, and until when: workers to their
\* end, the heartbeater once too often, and nobody what is freed.
ConnectionInv == TypeOK /\ ClosedIsFinal /\ WorkersUseLive /\ NobodyUsesFreed /\ LateOnce

\* When quit is called, or the loop is left for another reason, the process
\* comes to its end: the loop notices with the next bytes of the broker, the
\* workers finish what they do, and the heartbeater, which only looks at quit,
\* ends (~AmqpTransport, ~AmqpHandler).  The end is an abort when a worker takes
\* a task too late, and there is none when one oversleeps the end of the pool;
\* nothing else keeps the process.
Ended == mpc \in {"freed", "aborted"}
Overslept == \E w \in Workers : wpc[w] = "asleep"

EndIsReached == quit \/ mpc = "left" ~> Ended \/ []Overslept
=============================================================================
