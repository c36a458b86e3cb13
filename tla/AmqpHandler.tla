----------------------------- MODULE AmqpHandler -----------------------------
(***************************************************************************)
(* How frames reach the socket (src/internal/app-transport/amqp-handler.cpp *)
(* and the channel calls of amqp-transport.cpp).  The AMQP library turns   *)
(* each call on the channel into frames and hands every frame to onData;   *)
(* onData copies it into outBuffer under writeMtx and flushes the buffer   *)
(* under sendMtx.  The network loop flushes too, under sendMtx only, so    *)
(* outBuffer itself has no single lock.                                    *)
(*                                                                         *)
(* Sizes are counted in frames: every frame is smaller than BUFFER_SIZE.   *)
(***************************************************************************)
EXTENDS Integers, Sequences

CONSTANTS
  Net,          \* the thread in loop(): flushes, and answers inside parse()
  Heartbeater,  \* the thread in heartbeater()
  Workers,      \* pool threads: they publish results and acknowledge tasks
  None,
  Capacity,     \* BUFFER_SIZE, in frames
  MaxCalls      \* bound: library calls per thread

ASSUME CapacityAssumption == Capacity \in Nat /\ Capacity >= 1
ASSUME MaxCallsAssumption == MaxCalls \in Nat
ASSUME ThreadsAssumption ==
  /\ Net \notin Workers \cup {Heartbeater}
  /\ Heartbeater \notin Workers
  /\ None \notin Workers \cup {Net, Heartbeater}

VARIABLES
  pc,          \* where each thread is in the call below
  call,        \* the call each thread is in
  part,        \* the number of the call's frame being sent
  calls,       \* how many calls each thread has made
  chOwner,     \* m_chMutex
  writeOwner,  \* writeMtx
  sendOwner,   \* sendMtx
  buf,         \* outBuffer.m_data
  use,         \* outBuffer.m_use
  wire,        \* the frames the socket has accepted, in order, until broken
  written,     \* history: the frames onData has put into outBuffer, in order
  broken,      \* history: a send1 has failed, or has taken only a part
  quit         \* m_impl->quit

vars == <<pc, call, part, calls, chOwner, writeOwner, sendOwner, buf, use,
          wire, written, broken, quit>>

Threads == Workers \cup {Net, Heartbeater}

\* The calls a thread makes.  A response to a message goes out with its
\* acknowledgement; a worker's response and its acknowledgement are two calls.
Calls(t) ==
  CASE t = Net -> {"respond", "reject"}
    [] t = Heartbeater -> {"heartbeat"}
    [] OTHER -> {"publish", "ack", "reject"}

Flushes == {"flush", "lastFlush"}
AllCalls ==
  Flushes \cup {"respond", "publish", "ack", "reject", "heartbeat"}

\* The frames of a call.  "head" stands for the publish method and the header
\* that announces a content of one "body" frame.
Frames(c) ==
  CASE c = "publish" -> <<"head", "body">>
    [] c = "respond" -> <<"head", "body", "method">>
    [] c = "heartbeat" -> <<"beat">>
    [] OTHER -> <<"method">>

\* sendResponse takes m_chMutex; sendAck, sendReject and heartbeat do not.
\* Mutant: publishing relies on the lock of the buffer.
TakesChannel_Never(c) == FALSE

TakesChannel(c) == c \in {"publish", "respond"}

FrameTypes == {"head", "body", "method", "beat"}
FrameSet == [type : FrameTypes, from : Threads, number : Nat]

Frame(t) == [type |-> Frames(call[t])[part[t]], from |-> t, number |-> calls[t]]

Goto(t, label) == pc' = [pc EXCEPT ![t] = label]

Init ==
  /\ pc = [t \in Threads |-> "idle"]
  /\ call = [t \in Threads |-> "flush"]
  /\ part = [t \in Threads |-> 1]
  /\ calls = [t \in Threads |-> 0]
  /\ chOwner = None
  /\ writeOwner = None
  /\ sendOwner = None
  /\ buf = <<>>
  /\ use = 0
  /\ wire = <<>>
  /\ written = <<>>
  /\ broken = FALSE
  /\ quit = FALSE

bufferVars == <<buf, use, wire, written, broken>>
lockVars == <<chOwner, writeOwner, sendOwner>>

-----------------------------------------------------------------------------
(* Calls on the channel and the connection                                 *)

\* The network loop and the heartbeater look at quit at the head of an
\* iteration and make their calls in its body; workers do not look at it.
Begin(t, c) ==
  /\ pc[t] = (IF t \in Workers THEN "idle" ELSE "body")
  /\ calls[t] < MaxCalls
  /\ call' = [call EXCEPT ![t] = c]
  /\ part' = [part EXCEPT ![t] = 1]
  /\ calls' = [calls EXCEPT ![t] = @ + 1]
  /\ Goto(t, IF TakesChannel(c) THEN "lockChannel" ELSE "lockWrite")
  /\ UNCHANGED <<lockVars, bufferVars, quit>>

LockChannel(t) ==
  /\ pc[t] = "lockChannel"
  /\ chOwner = None
  /\ chOwner' = t
  /\ Goto(t, "lockWrite")
  /\ UNCHANGED <<call, part, calls, writeOwner, sendOwner, bufferVars, quit>>

-----------------------------------------------------------------------------
(* onData                                                                  *)

LockWrite(t) ==
  /\ pc[t] = "lockWrite"
  /\ writeOwner = None
  /\ writeOwner' = t
  /\ Goto(t, "copy")
  /\ UNCHANGED <<call, part, calls, chOwner, sendOwner, bufferVars, quit>>

\* Buffer::write copies behind m_use; a full buffer takes nothing, and onData
\* then drops the frame.
Copy(t) ==
  /\ pc[t] = "copy"
  /\ IF use < Capacity
     THEN /\ buf' = Append(SubSeq(buf, 1, use), Frame(t))
          /\ Goto(t, "commit")
     ELSE UNCHANGED buf /\ Goto(t, "unlock")
  /\ UNCHANGED <<call, part, calls, lockVars, use, wire, written, broken, quit>>

\* m_use += write
Commit(t) ==
  /\ pc[t] = "commit"
  /\ use' = use + 1
  /\ written' = Append(written, Frame(t))
  /\ Goto(t, "lockSend")
  /\ UNCHANGED <<call, part, calls, lockVars, buf, wire, broken, quit>>

\* parse may call several handlers; a heartbeat ends the iteration.
AfterCall(t) == IF t = Net THEN "body" ELSE "idle"

\* The guard of writeMtx ends, and with the last frame that of m_chMutex.
\* Mutant: m_chMutex is given up after every frame.
Unlock_FreesChannel(t) ==
  LET last == part[t] = Len(Frames(call[t])) IN
  /\ pc[t] = "unlock"
  /\ writeOwner' = None
  /\ chOwner' = IF chOwner = t THEN None ELSE chOwner
  /\ part' = [part EXCEPT ![t] = IF last THEN @ ELSE @ + 1]
  /\ Goto(t, IF last THEN AfterCall(t) ELSE "lockWrite")
  /\ UNCHANGED <<call, calls, sendOwner, bufferVars, quit>>

Unlock(t) ==
  LET last == part[t] = Len(Frames(call[t])) IN
  /\ pc[t] = "unlock"
  /\ writeOwner' = None
  /\ IF last
     THEN /\ chOwner' = IF chOwner = t THEN None ELSE chOwner
          /\ Goto(t, AfterCall(t))
          /\ UNCHANGED part
     ELSE /\ part' = [part EXCEPT ![t] = @ + 1]
          /\ Goto(t, "lockWrite")
          /\ UNCHANGED chOwner
  /\ UNCHANGED <<call, calls, sendOwner, bufferVars, quit>>

-----------------------------------------------------------------------------
(* sendDataFromBuffer, called by onData and by the network loop            *)

AfterFlush(t) ==
  CASE call[t] = "flush" -> "idle"
    [] call[t] = "lastFlush" -> "exited"
    [] OTHER -> "unlock"

\* Mutant: the early return of an empty buffer leaves sendMtx locked.
LockSend_KeepsOnEmpty(t) ==
  /\ pc[t] = "lockSend"
  /\ sendOwner = None
  /\ sendOwner' = t
  /\ Goto(t, IF use > 0 THEN "send" ELSE AfterFlush(t))
  /\ UNCHANGED <<call, part, calls, chOwner, writeOwner, bufferVars, quit>>

\* Mutant: a busy socket lock is skipped, the holder is trusted to flush.
LockSend_TryLock(t) ==
  /\ pc[t] = "lockSend"
  /\ IF use > 0 /\ sendOwner = None
     THEN sendOwner' = t /\ Goto(t, "send")
     ELSE UNCHANGED sendOwner /\ Goto(t, AfterFlush(t))
  /\ UNCHANGED <<call, part, calls, chOwner, writeOwner, bufferVars, quit>>

\* Mutant: no lock around send1 and drain.
LockSend_NoLock(t) ==
  /\ pc[t] = "lockSend"
  /\ Goto(t, IF use > 0 THEN "send" ELSE AfterFlush(t))
  /\ UNCHANGED <<call, part, calls, lockVars, bufferVars, quit>>

LockSend(t) ==
  /\ pc[t] = "lockSend"
  /\ sendOwner = None
  /\ IF use > 0
     THEN sendOwner' = t /\ Goto(t, "send")
     ELSE UNCHANGED sendOwner /\ Goto(t, AfterFlush(t))
  /\ UNCHANGED <<call, part, calls, chOwner, writeOwner, bufferVars, quit>>

\* send1 takes all the bytes, or it fails or takes some of them; what it does
\* not take is drained all the same.  Later sends may succeed, but wire follows
\* the socket only up to the first bytes that are missing from it.
Send(t) ==
  /\ pc[t] = "send"
  /\ \/ wire' = (IF broken THEN wire ELSE wire \o SubSeq(buf, 1, use)) /\ UNCHANGED broken
     \/ broken' = TRUE /\ UNCHANGED wire
  /\ Goto(t, "drain")
  /\ UNCHANGED <<call, part, calls, lockVars, buf, use, written, quit>>

Drain(t) ==
  /\ pc[t] = "drain"
  /\ use' = 0
  /\ sendOwner' = None
  /\ Goto(t, AfterFlush(t))
  /\ UNCHANGED <<call, part, calls, chOwner, writeOwner, buf, wire, written,
                 broken, quit>>

-----------------------------------------------------------------------------
(* loop and heartbeater outside their calls                                *)

\* while (!quit): a thread that saw the flag clear runs its whole iteration.
LoopHead(t) ==
  /\ t \in {Net, Heartbeater}
  /\ pc[t] = "idle"
  /\ Goto(t, IF ~ quit THEN "body" ELSE IF t = Net THEN "leave" ELSE "exited")
  /\ UNCHANGED <<call, part, calls, lockVars, bufferVars, quit>>

\* Something was sent in the last interval, or the interval is not over.
SkipBeat ==
  /\ pc[Heartbeater] = "body"
  /\ Goto(Heartbeater, "idle")
  /\ UNCHANGED <<call, part, calls, lockVars, bufferVars, quit>>

LoopFlush ==
  /\ pc[Net] = "body"
  /\ call' = [call EXCEPT ![Net] = "flush"]
  /\ Goto(Net, "lockSend")
  /\ UNCHANGED <<part, calls, lockVars, bufferVars, quit>>

\* poll_read or recv1 fails, or the broker has closed the socket.
LoopBreak ==
  /\ pc[Net] = "body"
  /\ Goto(Net, "leave")
  /\ UNCHANGED <<call, part, calls, lockVars, bufferVars, quit>>

\* After the loop: one more flush, if quit is set and the buffer is not empty.
LoopLeave ==
  /\ pc[Net] = "leave"
  /\ IF quit /\ use > 0
     THEN call' = [call EXCEPT ![Net] = "lastFlush"] /\ Goto(Net, "lockSend")
     ELSE UNCHANGED call /\ Goto(Net, "exited")
  /\ UNCHANGED <<part, calls, lockVars, bufferVars, quit>>

\* onClosed, quit() and the destructor set the flag.
Quit ==
  /\ ~ quit
  /\ quit' = TRUE
  /\ UNCHANGED <<pc, call, part, calls, lockVars, bufferVars>>

-----------------------------------------------------------------------------
Step(t) ==
  \/ \E c \in Calls(t) : Begin(t, c)
  \/ LockChannel(t) \/ LockWrite(t) \/ Copy(t) \/ Commit(t)
  \/ LockSend(t) \/ Send(t) \/ Drain(t) \/ Unlock(t)

Next ==
  \/ \E t \in Threads : Step(t) \/ LoopHead(t)
  \/ SkipBeat \/ LoopFlush \/ LoopBreak \/ LoopLeave
  \/ Quit

Spec == Init /\ [][Next]_vars

-----------------------------------------------------------------------------
(* Properties                                                              *)

Resting == {"idle", "body", "leave", "exited"}
Labels ==
  Resting \cup {"lockChannel", "lockWrite", "copy", "commit", "lockSend",
                "send", "drain", "unlock"}

TypeOK ==
  /\ pc \in [Threads -> Labels]
  /\ call \in [Threads -> AllCalls]
  /\ part \in [Threads -> 1..3]
  /\ calls \in [Threads -> Nat]
  /\ chOwner \in Threads \cup {None}
  /\ writeOwner \in Threads \cup {None}
  /\ sendOwner \in Threads \cup {None}
  /\ buf \in Seq(FrameSet)
  /\ use \in Nat
  /\ wire \in Seq(FrameSet)
  /\ written \in Seq(FrameSet)
  /\ broken \in BOOLEAN
  /\ quit \in BOOLEAN

\* The frames in outBuffer that are not on the socket yet: between send1 and
\* drain they are on both.
Unsent == IF \E t \in Threads : pc[t] = "drain" THEN <<>> ELSE SubSeq(buf, 1, use)

\* As long as every send1 has taken all it was given, no frame is lost,
\* duplicated or overtaken between onData and the socket, although the loop
\* reads and drains outBuffer without the lock the writers hold.
FramesInOrder == ~ broken => wire \o Unsent = written

\* A frame never finds the buffer full: onData would drop it silently.
NeverFull == \A t \in Threads : pc[t] = "copy" => use < Capacity

\* No thread waits for a lock that, through others that wait, waits for it.
Blocked(t) ==
  \/ pc[t] = "lockChannel" /\ chOwner # None
  \/ pc[t] = "lockWrite" /\ writeOwner # None
  \/ pc[t] = "lockSend" /\ sendOwner # None

NoDeadlock ==
  (\E t \in Threads : pc[t] \notin Resting)
    => \E t \in Threads : pc[t] \notin Resting /\ ~ Blocked(t)

\* Responses are not mixed with each other: between the head and the body of
\* a content, onData takes no frame of another response.
SameCall(f, g) == f.from = g.from /\ f.number = g.number

InResponse(f) == f.type \in {"head", "body"}

ResponsesNotMixed ==
  \A i \in 1..Len(written) :
    written[i].type = "body" =>
      \E h \in 1..(i - 1) :
        /\ written[h].type = "head" /\ SameCall(written[h], written[i])
        /\ \A j \in (h + 1)..(i - 1) : ~ InResponse(written[j])

\* The inductive invariant.  A lock has an owner exactly while the owner is in
\* its guard; outBuffer holds at most the frame of the thread in onData, from
\* its commit to its flush; and a head in written waits for its body while its
\* thread holds m_chMutex.
AfterCommit == {"lockSend", "send", "drain"}

InOnData(t) ==
  \/ pc[t] \in {"copy", "commit", "unlock"}
  \/ pc[t] \in AfterCommit /\ call[t] \notin Flushes

LockInv ==
  \A t \in Threads :
    /\ sendOwner = t <=> pc[t] \in {"send", "drain"}
    /\ writeOwner = t <=> InOnData(t)
    /\ chOwner = t <=> TakesChannel(call[t]) /\ (InOnData(t) \/ pc[t] = "lockWrite")
    /\ pc[t] = "lockChannel" => TakesChannel(call[t])
    /\ call[t] \in Flushes => pc[t] \in Resting \cup AfterCommit

BufferInv ==
  /\ use \in {0, 1}
  /\ use = 1 =>
       /\ Len(buf) = 1
       /\ \E t \in Threads : pc[t] \in AfterCommit /\ call[t] \notin Flushes
  /\ \A t \in Threads :
       /\ pc[t] = "commit" => buf = <<Frame(t)>>
       /\ pc[t] \in {"send", "drain"} => use = 1

\* The last content frame of written is the head of t's content.
HeadWaits(t) ==
  \E h \in 1..Len(written) :
    /\ written[h].type = "head"
    /\ written[h].from = t /\ written[h].number = calls[t]
    /\ \A j \in (h + 1)..Len(written) : ~ InResponse(written[j])

BetweenHeadAndBody(t) ==
  /\ TakesChannel(call[t])
  /\ \/ part[t] = 1 /\ pc[t] \in AfterCommit \cup {"unlock"}
     \/ part[t] = 2 /\ pc[t] \in {"lockWrite", "copy", "commit"}

PartInv ==
  \A t \in Threads :
    /\ pc[t] \in {"lockWrite", "copy", "commit", "unlock"} =>
         part[t] <= Len(Frames(call[t]))
    /\ pc[t] \in AfterCommit /\ call[t] \notin Flushes =>
         part[t] <= Len(Frames(call[t]))
    /\ pc[t] = "lockChannel" => part[t] = 1
    /\ BetweenHeadAndBody(t) => HeadWaits(t)

HandlerInv ==
  /\ TypeOK
  /\ LockInv
  /\ BufferInv
  /\ PartInv
  /\ FramesInOrder
  /\ ResponsesNotMixed
=============================================================================
