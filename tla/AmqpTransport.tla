---------------------------- MODULE AmqpTransport ----------------------------
(***************************************************************************)
(* What becomes of a request: from the broker through AmqpTransport and    *)
(* AmqpTransportAdapter (src/internal/app-transport/amqp-transport.cpp) to *)
(* the thread pool, and back as replies and an acknowledgement or a        *)
(* rejection.  The process may end at any moment and be started again; the *)
(* broker then delivers every unacknowledged message once more.            *)
(*                                                                         *)
(* The broker is external: it is modelled from the calls the code makes,   *)
(* consume with acknowledgements, setQos per consumer, and reject without  *)
(* the requeue flag.                                                       *)
(***************************************************************************)
EXTENDS Integers, Sequences, FiniteSets, SequencesExt

CONSTANTS
  Messages,     \* the requests
  Queue,        \* Queue[m]: the queue of the broker m is in
  Body,         \* Body[m]: what the task parser makes of m
  Workers,      \* threads of m_pool
  Prefetch,     \* m_conf.prefetchCount
  QueueSize,    \* capacity of the pool's ring
  MaxProgress,  \* bound: progress reports per task
  MaxExits,     \* bound: how often the process ends
  None

Queues == {"Ping", "GetAppInfo", "ProcessImage"}

\* parse returns kOk, or another status, or simdjson throws.
Bodies == {"good", "bad", "garbled"}

ASSUME QueueAssumption == Queue \in [Messages -> Queues]
ASSUME BodyAssumption == Body \in [Messages -> Bodies]
ASSUME SizesAssumption == Prefetch \in Nat /\ QueueSize \in Nat /\ QueueSize >= 2
ASSUME BoundsAssumption == MaxProgress \in Nat /\ MaxExits \in Nat
ASSUME NoMessageAssumption == None \notin Messages

VARIABLES
  ready,    \* broker: messages waiting in their queues
  unacked,  \* broker: messages delivered and not settled
  acked,    \* broker: messages acknowledged
  dropped,  \* broker: messages rejected; they are not requeued
  replies,  \* broker: the replies to a message since its last delivery
  wire,     \* calls on m_ch on their way to the broker, in order
  up,       \* the process runs
  exits,    \* how often it has ended
  pool,     \* the messages accepted by m_pool.tryPost, in order
  wpc,      \* where each worker is in handleProcessImage
  task,     \* the message each worker works on
  sent,     \* how many progress reports each worker has sent for it
  threw     \* history: tasks whose handler ended in an exception

vars == <<ready, unacked, acked, dropped, replies, wire, up, exits, pool, wpc,
          task, sent, threw>>

brokerVars == <<ready, unacked, acked, dropped, replies>>
workerVars == <<wpc, task, sent, threw>>

Reply(m, status) == [kind |-> "reply", msg |-> m, status |-> status]
Settle(m, verdict) == [kind |-> "settle", msg |-> m, status |-> verdict]

Init ==
  /\ ready = Messages
  /\ unacked = {} /\ acked = {} /\ dropped = {}
  /\ replies = [m \in Messages |-> <<>>]
  /\ wire = <<>>
  /\ up = TRUE
  /\ exits = 0
  /\ pool = <<>>
  /\ wpc = [w \in Workers |-> "idle"]
  /\ task = [w \in Workers |-> None]
  /\ sent = [w \in Workers |-> 0]
  /\ threw = {}

-----------------------------------------------------------------------------
(* The broker                                                              *)

\* The window of setQos holds for each consumer by itself.
WindowOpen(q) == Cardinality({m \in unacked : Queue[m] = q}) < Prefetch

Deliver(m, q) ==
  /\ up
  /\ m \in ready /\ Queue[m] = q /\ WindowOpen(q)
  /\ ready' = ready \ {m}
  /\ unacked' = unacked \cup {m}
  /\ replies' = [replies EXCEPT ![m] = <<>>]
  /\ UNCHANGED <<acked, dropped>>

BrokerReceives ==
  LET c == Head(wire) IN
  /\ wire # <<>>
  /\ wire' = Tail(wire)
  /\ replies' = IF c.kind = "reply"
                THEN [replies EXCEPT ![c.msg] = Append(@, c.status)]
                ELSE replies
  /\ acked' = IF c.status = "ack" THEN acked \cup {c.msg} ELSE acked
  /\ dropped' = IF c.status = "reject" THEN dropped \cup {c.msg} ELSE dropped
  /\ unacked' = IF c.kind = "settle" THEN unacked \ {c.msg} ELSE unacked
  /\ UNCHANGED <<ready, up, exits, pool, workerVars>>

-----------------------------------------------------------------------------
(* The callbacks of the consumers, in the network thread                   *)

\* Mutant: the acknowledgement goes out before the reply.
HandlePing_AckFirst(m) ==
  /\ Deliver(m, "Ping")
  /\ \/ Body[m] = "good" /\ wire' = wire \o <<Settle(m, "ack"), Reply(m, "pong")>>
     \/ Body[m] = "bad" /\ wire' = Append(wire, Settle(m, "reject"))
  /\ UNCHANGED <<up, exits, pool, workerVars>>

HandlePing(m) ==
  /\ Deliver(m, "Ping")
  /\ \/ Body[m] = "good" /\ wire' = wire \o <<Reply(m, "pong"), Settle(m, "ack")>>
     \/ Body[m] = "bad" /\ wire' = Append(wire, Settle(m, "reject"))
  /\ UNCHANGED <<up, exits, pool, workerVars>>

HandleGetAppInfo(m) ==
  /\ Deliver(m, "GetAppInfo")
  /\ wire' = wire \o <<Reply(m, "info"), Settle(m, "ack")>>
  /\ UNCHANGED <<up, exits, pool, workerVars>>

PostTask(m) ==
  /\ Deliver(m, "ProcessImage")
  /\ Len(pool) < QueueSize
  /\ pool' = Append(pool, m)
  /\ UNCHANGED <<wire, up, exits, workerVars>>

\* The ring is full, or its next cell is still with a worker (ThreadPool).
PoolRefuses == Len(pool) = QueueSize \/ \E w \in Workers : wpc[w] = "release"

\* Mutant: the refused task is forgotten.
RejectTask_Forgets(m) ==
  /\ Deliver(m, "ProcessImage")
  /\ PoolRefuses
  /\ UNCHANGED <<wire, up, exits, pool, workerVars>>

RejectTask(m) ==
  /\ Deliver(m, "ProcessImage")
  /\ PoolRefuses
  /\ wire' = Append(wire, Settle(m, "reject"))
  /\ UNCHANGED <<up, exits, pool, workerVars>>

-----------------------------------------------------------------------------
(* handleProcessImage, in a thread of the pool                             *)

Goto(w, label) == wpc' = [wpc EXCEPT ![w] = label]

Take(w) ==
  /\ wpc[w] = "idle" /\ pool # <<>>
  /\ task' = [task EXCEPT ![w] = Head(pool)]
  /\ pool' = Tail(pool)
  /\ sent' = [sent EXCEPT ![w] = 0]
  /\ Goto(w, "release")
  /\ UNCHANGED <<brokerVars, wire, up, exits, threw>>

Release(w) ==
  /\ wpc[w] = "release"
  /\ Goto(w, "parse")
  /\ UNCHANGED <<brokerVars, wire, up, exits, pool, task, sent, threw>>

ParseSucceeds(w) ==
  /\ wpc[w] = "parse" /\ Body[task[w]] = "good"
  /\ Goto(w, "process")
  /\ UNCHANGED <<brokerVars, wire, up, exits, pool, task, sent, threw>>

\* Mutant: a return is missing after the rejection.
ParseFails_NoReturn(w) ==
  /\ wpc[w] = "parse" /\ Body[task[w]] = "bad"
  /\ wire' = Append(wire, Settle(task[w], "reject"))
  /\ Goto(w, "process")
  /\ UNCHANGED <<brokerVars, up, exits, pool, task, sent, threw>>

ParseFails(w) ==
  /\ wpc[w] = "parse" /\ Body[task[w]] = "bad"
  /\ wire' = Append(wire, Settle(task[w], "reject"))
  /\ Goto(w, "idle")
  /\ UNCHANGED <<brokerVars, up, exits, pool, task, sent, threw>>

\* An exception ends up in the future of the packaged task, which nobody reads.
Throws(w) ==
  /\ \/ wpc[w] = "parse" /\ Body[task[w]] = "garbled"
     \/ wpc[w] = "process"
  /\ threw' = threw \cup {task[w]}
  /\ Goto(w, "idle")
  /\ UNCHANGED <<brokerVars, wire, up, exits, pool, task, sent>>

\* progressCb.  Mutant: a report that comes after the result was sent.
SendProgress_Late(w) ==
  /\ wpc[w] \in {"process", "ack"} /\ sent[w] < MaxProgress
  /\ wire' = Append(wire, Reply(task[w], "progress"))
  /\ sent' = [sent EXCEPT ![w] = @ + 1]
  /\ UNCHANGED <<brokerVars, up, exits, pool, wpc, task, threw>>

SendProgress(w) ==
  /\ wpc[w] = "process" /\ sent[w] < MaxProgress
  /\ wire' = Append(wire, Reply(task[w], "progress"))
  /\ sent' = [sent EXCEPT ![w] = @ + 1]
  /\ UNCHANGED <<brokerVars, up, exits, pool, wpc, task, threw>>

\* m_app->processImage returns kOk or an error.
ProcessReturns(w) ==
  /\ wpc[w] = "process"
  /\ \E label \in {"done", "fail"} : Goto(w, label)
  /\ UNCHANGED <<brokerVars, wire, up, exits, pool, task, sent, threw>>

SendFail(w) ==
  /\ wpc[w] = "fail"
  /\ wire' = Append(wire, Reply(task[w], "fail"))
  /\ Goto(w, "idle")
  /\ UNCHANGED <<brokerVars, up, exits, pool, task, sent, threw>>

SendDone(w) ==
  /\ wpc[w] = "done"
  /\ wire' = Append(wire, Reply(task[w], "done"))
  /\ Goto(w, "ack")
  /\ UNCHANGED <<brokerVars, up, exits, pool, task, sent, threw>>

\* Mutant: the acknowledgement is left to the transport, as for a ping.
SendAck_Skipped(w) ==
  /\ wpc[w] = "ack"
  /\ Goto(w, "idle")
  /\ UNCHANGED <<brokerVars, wire, up, exits, pool, task, sent, threw>>

SendAck(w) ==
  /\ wpc[w] = "ack"
  /\ wire' = Append(wire, Settle(task[w], "ack"))
  /\ Goto(w, "idle")
  /\ UNCHANGED <<brokerVars, up, exits, pool, task, sent, threw>>

-----------------------------------------------------------------------------
(* The end of the process and its restart                                  *)

\* What was not read from the wire is gone; the broker requeues what is not
\* settled.
Terminate ==
  /\ exits < MaxExits
  /\ exits' = exits + 1
  /\ up' = FALSE
  /\ ready' = ready \cup unacked
  /\ unacked' = {}
  /\ wire' = <<>>
  /\ pool' = <<>>
  /\ wpc' = [w \in Workers |-> "idle"]
  /\ task' = [w \in Workers |-> None]
  /\ threw' = {}
  /\ UNCHANGED <<acked, dropped, replies, sent>>

\* A crash, a closed connection, or the end of loop().
Exit == up /\ Terminate

\* An exception of the network thread leaves loop() and main().
PingThrows ==
  /\ up
  /\ \E m \in ready : Queue[m] = "Ping" /\ Body[m] = "garbled" /\ WindowOpen("Ping")
  /\ Terminate

Restart ==
  /\ ~ up
  /\ up' = TRUE
  /\ UNCHANGED <<brokerVars, wire, exits, pool, workerVars>>

-----------------------------------------------------------------------------
Work(w) ==
  \/ Release(w) \/ ParseSucceeds(w) \/ ParseFails(w) \/ Throws(w)
  \/ SendProgress(w) \/ ProcessReturns(w)
  \/ SendFail(w) \/ SendDone(w) \/ SendAck(w)

Next ==
  \/ \E m \in Messages :
       HandlePing(m) \/ HandleGetAppInfo(m) \/ PostTask(m) \/ RejectTask(m)
  \/ \E w \in Workers : Take(w) \/ Work(w)
  \/ BrokerReceives
  \/ Exit \/ PingThrows \/ Restart

Spec == Init /\ [][Next]_vars

\* A worker that has a task goes on, and what is on the wire arrives.  Nothing
\* makes an idle worker take a task (ThreadPool) or the process start again.
FairSpec ==
  /\ Spec
  /\ WF_vars(BrokerReceives)
  /\ \A w \in Workers : WF_vars(Work(w))

-----------------------------------------------------------------------------
(* Properties                                                              *)

WorkerLabels ==
  {"idle", "release", "parse", "process", "fail", "done", "ack"}
Finals == {"pong", "info", "done", "fail"}
Statuses == Finals \cup {"progress"}
Verdicts == {"ack", "reject"}

TypeOK ==
  /\ ready \in SUBSET Messages /\ unacked \in SUBSET Messages
  /\ acked \in SUBSET Messages /\ dropped \in SUBSET Messages
  /\ replies \in [Messages -> Seq(Statuses)]
  /\ wire \in Seq([kind : {"reply"}, msg : Messages, status : Statuses]
                  \cup [kind : {"settle"}, msg : Messages, status : Verdicts])
  /\ up \in BOOLEAN
  /\ exits \in 0..MaxExits
  /\ pool \in Seq(Messages)
  /\ wpc \in [Workers -> WorkerLabels]
  /\ task \in [Workers -> Messages \cup {None}]
  /\ sent \in [Workers -> Nat]
  /\ threw \in SUBSET Messages

Held(m) == \E w \in Workers : wpc[w] # "idle" /\ task[w] = m
Settling(m) == \E i \in 1..Len(wire) : wire[i] \in {Settle(m, "ack"), Settle(m, "reject")}
Replied(m, status) ==
  \/ \E i \in 1..Len(replies[m]) : replies[m][i] = status
  \/ \E i \in 1..Len(wire) : wire[i] = Reply(m, status)

\* A message is at one place of the process: with one worker, once in the
\* pool, or on its way back with one verdict; and the broker waits for it.
\* A second verdict for a delivery would make the broker close the channel.
OnePlace ==
  /\ \A i, j \in 1..Len(pool) : pool[i] = pool[j] => i = j
  /\ \A v, w \in Workers :
       wpc[v] # "idle" /\ wpc[w] # "idle" /\ task[v] = task[w] => v = w
  /\ \A i, j \in 1..Len(wire) :
       /\ wire[i].kind = "settle" /\ wire[j].kind = "settle"
       /\ wire[i].msg = wire[j].msg
       => i = j
  /\ \A m \in Messages :
       /\ Held(m) \/ Settling(m) \/ Contains(pool, m) => m \in unacked
       /\ ~ (Held(m) /\ Settling(m))
       /\ ~ (Held(m) /\ Contains(pool, m))
       /\ ~ (Settling(m) /\ Contains(pool, m))

\* The broker's account of the messages, and a process that is not running
\* holds nothing.
TransportInv ==
  /\ TypeOK
  /\ ready \cup unacked \cup acked \cup dropped = Messages
  /\ ready \cap (unacked \cup acked \cup dropped) = {}
  /\ unacked \cap (acked \cup dropped) = {}
  /\ acked \cap dropped = {}
  /\ ~ up => unacked = {} /\ wire = <<>>
  /\ \A w \in Workers : wpc[w] # "idle" => task[w] \in Messages
  /\ OnePlace

\* An acknowledged request has had its result: the acknowledgement overtakes
\* no reply, and no request is acknowledged that was not worked on.
AckedWasAnswered ==
  \A m \in acked :
    /\ replies[m] # <<>>
    /\ Last(replies[m]) \in Finals

\* In what a client receives for one delivery, the result comes last and once.
FinalIsLast ==
  \A m \in Messages :
    \A i \in 1..Len(replies[m]) : i < Len(replies[m]) => replies[m][i] = "progress"

\* Every delivery that holds a place of the window is being worked on, is on
\* its way back, or has failed: only a failure or an exception leaks a place.
OnlyFailuresLeak ==
  \A m \in unacked :
    \/ Contains(pool, m) \/ Held(m) \/ Settling(m)
    \/ Replied(m, "fail") \/ m \in threw

\* A request whose result was sent is settled at the broker, or goes back to
\* its queue because the process ended: it does not hold its place for ever.
DoneIsSettled ==
  \A m \in Messages :
    (\E w \in Workers : wpc[w] = "ack" /\ task[w] = m) ~> m \notin unacked
=============================================================================
