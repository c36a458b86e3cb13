-------------------------- MODULE AmqpHandlerProofs --------------------------
(***************************************************************************)
(* Proofs about the way frames take to the socket, for every number of     *)
(* workers and calls and every buffer: the frames of a response are not    *)
(* mixed with those of another one, no frame is lost, doubled or           *)
(* overtaken, and the three locks cannot deadlock.                         *)
(***************************************************************************)
EXTENDS AmqpHandler, SequenceTheorems, TLAPS

\* The frames a call sends: a content is a head and a body, and only a call
\* that takes m_chMutex sends one.
LEMMA FramesOfCalls ==
  ASSUME NEW c \in AllCalls
  PROVE  /\ Len(Frames(c)) \in 1..3
         /\ \A i \in 1..Len(Frames(c)) : Frames(c)[i] \in FrameTypes
         /\ TakesChannel(c) =>
              /\ Len(Frames(c)) >= 2 /\ c \notin Flushes
              /\ Frames(c)[1] = "head" /\ Frames(c)[2] = "body"
              /\ \A i \in 1..Len(Frames(c)) : i > 2 => Frames(c)[i] = "method"
         /\ ~ TakesChannel(c) =>
              \A i \in 1..Len(Frames(c)) : Frames(c)[i] \notin {"head", "body"}
BY DEF AllCalls, Flushes, Frames, FrameTypes, TakesChannel

LEMMA CallsAreCalls ==
  ASSUME NEW t \in Threads, NEW c \in Calls(t)
  PROVE  c \in AllCalls \ Flushes
BY DEF Calls, AllCalls, Flushes

LEMMA NoneIsNoThread == None \notin Threads /\ Net \in Threads /\ Heartbeater \in Threads
BY ThreadsAssumption DEF Threads

\* A step of the network loop or of the heartbeater outside their calls.
Outside(t) ==
  \/ LoopHead(t)
  \/ t = Heartbeater /\ SkipBeat
  \/ t = Net /\ (LoopFlush \/ LoopBreak \/ LoopLeave)

\* A thread in onData or in its final step has an outBuffer with room.
LEMMA RoomForTheFrame ==
  ASSUME LockInv, BufferInv, NEW t \in Threads, pc[t] \in {"copy", "commit"}
  PROVE  use = 0
<1>1. writeOwner = t
  BY DEF LockInv, InOnData
<1>2. ASSUME use = 1 PROVE FALSE
  <2>1. PICK u \in Threads : pc[u] \in AfterCommit /\ call[u] \notin Flushes
    BY <1>2 DEF BufferInv
  <2>2. writeOwner = u
    BY <2>1 DEF LockInv, InOnData
  <2> QED BY <1>1, <2>1, <2>2 DEF AfterCommit
<1> QED BY <1>2 DEF BufferInv

-----------------------------------------------------------------------------
(* Types                                                                   *)

LEMMA InitHandler == Init => HandlerInv
<1> SUFFICES ASSUME Init PROVE HandlerInv
  OBVIOUS
<1>1. TypeOK
  <2>1. /\ "idle" \in Labels /\ "flush" \in AllCalls /\ 1 \in 1..3 /\ 0 \in Nat
        /\ <<>> \in Seq(FrameSet)
    BY DEF Labels, Resting, AllCalls, Flushes
  <2> QED BY <2>1 DEF Init, TypeOK
<1>2. \A t \in Threads : pc[t] = "idle" /\ call[t] = "flush"
  BY DEF Init
<1>3. LockInv
  BY <1>2, NoneIsNoThread DEF Init, LockInv, InOnData, AfterCommit, Resting, Flushes, TakesChannel
<1>4. BufferInv
  BY <1>2 DEF Init, BufferInv
<1>5. PartInv
  BY <1>2 DEF PartInv, AfterCommit, BetweenHeadAndBody
<1>6. FramesInOrder /\ ResponsesNotMixed
  <2>1. Unsent = <<>> /\ wire = <<>> /\ written = <<>>
    BY <1>2 DEF Init, Unsent
  <2> QED BY <2>1 DEF FramesInOrder, ResponsesNotMixed
<1> QED BY <1>1, <1>3, <1>4, <1>5, <1>6 DEF HandlerInv

LEMMA FrameIsAFrame ==
  ASSUME TypeOK, PartInv, NEW t \in Threads, pc[t] \in {"copy", "commit"}
  PROVE  Frame(t) \in FrameSet
<1>1. part[t] \in 1..Len(Frames(call[t])) /\ call[t] \in AllCalls
  <2>1. call[t] \in AllCalls /\ part[t] \in 1..3
    BY DEF TypeOK
  <2>2. Len(Frames(call[t])) \in 1..3
    BY <2>1, FramesOfCalls
  <2> QED BY <2>1, <2>2 DEF PartInv
<1>2. Frames(call[t])[part[t]] \in FrameTypes
  BY <1>1, FramesOfCalls
<1> QED BY <1>2 DEF TypeOK, Frame, FrameSet

\* A copy is made into an empty buffer, so the frame is alone in it.
LEMMA CopyIsAlone ==
  ASSUME HandlerInv, NEW t \in Threads, Copy(t)
  PROVE  /\ use = 0 /\ use < Capacity
         /\ buf' = <<Frame(t)>>
         /\ pc' = [pc EXCEPT ![t] = "commit"]
<1>1. use = 0
  BY RoomForTheFrame DEF HandlerInv, Copy
<1>2. SubSeq(buf, 1, use) = <<>>
  BY <1>1, SubSeqEmpty DEF HandlerInv, TypeOK
<1>3. Append(<<>>, Frame(t)) = <<Frame(t)>>
  OBVIOUS
<1> QED BY <1>1, <1>2, <1>3, CapacityAssumption DEF Copy, Goto

LEMMA TypesKept ==
  ASSUME HandlerInv, [Next]_vars
  PROVE  TypeOK'
<1> USE DEF Labels, Resting, Goto, lockVars, bufferVars
<1>0. TypeOK /\ PartInv
  BY DEF HandlerInv
<1>1. ASSUME NEW t \in Threads, NEW c \in Calls(t), Begin(t, c) PROVE TypeOK'
  BY <1>0, <1>1, CallsAreCalls DEF TypeOK, Begin
<1>2. ASSUME NEW t \in Threads, LockChannel(t) PROVE TypeOK'
  BY <1>0, <1>2 DEF TypeOK, LockChannel
<1>3. ASSUME NEW t \in Threads, LockWrite(t) PROVE TypeOK'
  BY <1>0, <1>3 DEF TypeOK, LockWrite
<1>4. ASSUME NEW t \in Threads, Copy(t) PROVE TypeOK'
  <2>1. Frame(t) \in FrameSet
    BY <1>0, <1>4, FrameIsAFrame DEF Copy, HandlerInv
  <2>2. buf' \in Seq(FrameSet)
    <3>1. buf' = <<Frame(t)>>
      BY <1>4, CopyIsAlone
    <3>2. <<Frame(t)>> \in Seq(FrameSet)
      BY <2>1
    <3> QED BY <3>1, <3>2
  <2> QED BY <1>0, <1>4, <2>2 DEF TypeOK, Copy
<1>5. ASSUME NEW t \in Threads, Commit(t) PROVE TypeOK'
  <2>1. Frame(t) \in FrameSet
    BY <1>0, <1>5, FrameIsAFrame DEF Commit, HandlerInv
  <2> QED BY <1>0, <1>5, <2>1, AppendProperties DEF TypeOK, Commit
<1>6. ASSUME NEW t \in Threads, LockSend(t) PROVE TypeOK'
  BY <1>0, <1>6 DEF TypeOK, LockSend, AfterFlush
<1>7. ASSUME NEW t \in Threads, Send(t) PROVE TypeOK'
  <2>1. CASE wire' = wire \o SubSeq(buf, 1, use)
    <3>1. SubSeq(buf, 1, use) \in Seq(FrameSet)
      <4>1. use \in 0..Len(buf)
        <5>1. Len(buf) \in Nat
          BY <1>0 DEF TypeOK
        <5> QED BY <5>1 DEF HandlerInv, BufferInv
      <4> QED BY <1>0, <4>1, SubSeqProperties, LenProperties DEF TypeOK
    <3>2. wire' \in Seq(FrameSet)
      BY <1>0, <2>1, <3>1, ConcatProperties DEF TypeOK
    <3> QED BY <1>0, <1>7, <3>2 DEF TypeOK, Send
  <2>2. CASE UNCHANGED wire
    BY <1>0, <1>7, <2>2 DEF TypeOK, Send
  <2> QED BY <1>7, <2>1, <2>2 DEF Send
<1>8. ASSUME NEW t \in Threads, Drain(t) PROVE TypeOK'
  BY <1>0, <1>8 DEF TypeOK, Drain, AfterFlush
<1>9. ASSUME NEW t \in Threads, Unlock(t) PROVE TypeOK'
  <2>1. /\ part[t] <= Len(Frames(call[t])) /\ Len(Frames(call[t])) \in 1..3
        /\ part[t] \in 1..3
    BY <1>0, <1>9, FramesOfCalls DEF TypeOK, PartInv, Unlock
  <2>2. part' \in [Threads -> 1..3]
    <3>1. CASE part[t] = Len(Frames(call[t]))
      BY <1>0, <1>9, <3>1 DEF TypeOK, Unlock
    <3>2. CASE part[t] # Len(Frames(call[t]))
      <4>1. part[t] + 1 \in 1..3
        <5>1. \A p, n \in 1..3 : p <= n /\ p # n => p + 1 \in 1..3
          OBVIOUS
        <5> QED BY <2>1, <3>2, <5>1
      <4>2. part' = [part EXCEPT ![t] = part[t] + 1]
        BY <1>9, <3>2 DEF Unlock
      <4> QED BY <1>0, <4>1, <4>2 DEF TypeOK
    <3> QED BY <3>1, <3>2
  <2>3. pc' \in [Threads -> Labels] /\ chOwner' \in Threads \cup {None}
    BY <1>0, <1>9 DEF TypeOK, Unlock, AfterCall
  <2> QED BY <1>0, <1>9, <2>2, <2>3 DEF TypeOK, Unlock
<1>10. ASSUME NEW t \in Threads, Outside(t) PROVE TypeOK'
  BY <1>0, <1>10 DEF TypeOK, Outside, LoopHead, SkipBeat, LoopFlush, LoopBreak, LoopLeave, AllCalls, Flushes
<1>11. ASSUME Quit PROVE TypeOK'
  BY <1>0, <1>11 DEF TypeOK, Quit
<1>12. CASE UNCHANGED vars
  BY <1>0, <1>12 DEF TypeOK, vars
<1> QED BY <1>1, <1>2, <1>3, <1>4, <1>5, <1>6, <1>7, <1>8, <1>9, <1>10, <1>11, <1>12, NoneIsNoThread
       DEF Next, Step, Outside

-----------------------------------------------------------------------------
(* The locks                                                               *)

\* A step of t changes the place, the call and the frame of t only.
LEMMA OthersStay ==
  ASSUME TypeOK, NEW t \in Threads, Step(t) \/ Outside(t), NEW u \in Threads, u # t
  PROVE  /\ pc'[u] = pc[u] /\ call'[u] = call[u]
         /\ part'[u] = part[u] /\ calls'[u] = calls[u]
BY DEF TypeOK, Step, Outside, Begin, LockChannel, LockWrite, Copy, Commit, LockSend,
   Send, Drain, Unlock, LoopHead, SkipBeat, LoopFlush, LoopBreak, LoopLeave, Goto

\* Where a step of t leaves t and the locks.
LockPart(t) ==
  /\ sendOwner = t <=> pc[t] \in {"send", "drain"}
  /\ writeOwner = t <=> InOnData(t)
  /\ chOwner = t <=> TakesChannel(call[t]) /\ (InOnData(t) \/ pc[t] = "lockWrite")
  /\ pc[t] = "lockChannel" => TakesChannel(call[t])
  /\ call[t] \in Flushes => pc[t] \in Resting \cup AfterCommit

LockMoves(t, owner, owner1) ==
  \/ owner1 = owner
  \/ owner = None /\ owner1 = t
  \/ owner = t /\ owner1 = None

LEMMA LocksMove ==
  ASSUME HandlerInv, NEW t \in Threads, Step(t) \/ Outside(t)
  PROVE  /\ LockPart(t)'
         /\ LockMoves(t, sendOwner, sendOwner')
         /\ LockMoves(t, writeOwner, writeOwner')
         /\ LockMoves(t, chOwner, chOwner')
<1>0. /\ TypeOK /\ LockPart(t) /\ t # None
      /\ \A c \in Flushes : ~ TakesChannel(c)
  BY NoneIsNoThread DEF HandlerInv, LockInv, LockPart, TakesChannel, Flushes
<1> USE <1>0 DEF LockPart, LockMoves, InOnData, AfterCommit, Resting, TypeOK, Goto, lockVars, bufferVars
<1> DEFINE Goal ==
      /\ LockPart(t)'
      /\ LockMoves(t, sendOwner, sendOwner')
      /\ LockMoves(t, writeOwner, writeOwner')
      /\ LockMoves(t, chOwner, chOwner')
<1>1. ASSUME NEW c \in Calls(t), Begin(t, c) PROVE Goal
  BY <1>1, CallsAreCalls DEF Begin
<1>2. CASE LockChannel(t)
  BY <1>2 DEF LockChannel
<1>3. CASE LockWrite(t)
  BY <1>3 DEF LockWrite, TakesChannel, Flushes
<1>4. CASE Copy(t)
  BY <1>4, CopyIsAlone DEF Copy
<1>5. CASE Commit(t)
  BY <1>5 DEF Commit
<1>6. CASE LockSend(t)
  BY <1>6 DEF LockSend, AfterFlush, Flushes
<1>7. CASE Send(t)
  BY <1>7 DEF Send
<1>8. CASE Drain(t)
  BY <1>8 DEF Drain, AfterFlush, Flushes
<1>9. CASE Unlock(t)
  BY <1>9 DEF Unlock, AfterCall
<1>10. CASE Outside(t)
  BY <1>10 DEF Outside, LoopHead, SkipBeat, LoopFlush, LoopBreak, LoopLeave, Flushes
<1> QED BY <1>1, <1>2, <1>3, <1>4, <1>5, <1>6, <1>7, <1>8, <1>9, <1>10 DEF Step

LEMMA LocksKept ==
  ASSUME HandlerInv, [Next]_vars
  PROVE  LockInv'
<1>0. TypeOK /\ LockInv /\ None \notin Threads
  BY NoneIsNoThread DEF HandlerInv
<1>1. ASSUME NEW t \in Threads, Step(t) \/ Outside(t) PROVE LockInv'
  <2> SUFFICES ASSUME NEW u \in Threads PROVE LockPart(u)'
    BY DEF LockInv, LockPart
  <2>1. CASE u = t
    BY <1>1, <2>1, LocksMove
  <2>2. CASE u # t
    <3>1. LockPart(u)
      BY <1>0 DEF LockInv, LockPart
    <3>2. /\ sendOwner' = u <=> sendOwner = u
          /\ writeOwner' = u <=> writeOwner = u
          /\ chOwner' = u <=> chOwner = u
      BY <1>0, <1>1, <2>2, LocksMove DEF LockMoves
    <3>3. pc'[u] = pc[u] /\ call'[u] = call[u]
      BY <1>0, <1>1, <2>2, OthersStay
    <3> QED BY <3>1, <3>2, <3>3 DEF LockPart, InOnData
  <2> QED BY <2>1, <2>2
<1>2. CASE Quit \/ UNCHANGED vars
  BY <1>0, <1>2 DEF Quit, vars, lockVars, LockInv, InOnData
<1> QED BY <1>1, <1>2, NoneIsNoThread DEF Next, Outside

-----------------------------------------------------------------------------
(* The buffer and the socket                                               *)

\* The steps that touch neither outBuffer nor the socket.
BufferStays == UNCHANGED <<buf, use, wire, written>>

LEMMA BufferKeptByQuietStep ==
  ASSUME HandlerInv, NEW t \in Threads, BufferStays,
         Step(t) \/ Outside(t),
         ~ Send(t), pc'[t] # "commit",
         pc'[t] \in {"send", "drain"} => use = 1,
         pc[t] \in AfterCommit /\ pc'[t] \notin AfterCommit /\ call[t] \notin Flushes
           => use = 0,
         pc[t] \in AfterCommit => call'[t] = call[t]
  PROVE  BufferInv'
<1>0. TypeOK /\ BufferInv
  BY DEF HandlerInv
<1>1. use' \in {0, 1} /\ (use' = 1 => Len(buf') = 1)
  BY <1>0 DEF BufferInv, BufferStays
<1>2. ASSUME use' = 1
      PROVE  \E u \in Threads : pc'[u] \in AfterCommit /\ call'[u] \notin Flushes
  <2>1. PICK u \in Threads : pc[u] \in AfterCommit /\ call[u] \notin Flushes
    BY <1>0, <1>2 DEF BufferInv, BufferStays
  <2>2. CASE u = t
    BY <1>2, <2>1, <2>2 DEF BufferStays
  <2>3. CASE u # t
    BY <1>0, <2>1, <2>3, OthersStay
  <2> QED BY <2>2, <2>3
<1>3. ASSUME NEW u \in Threads, pc'[u] = "commit" PROVE (buf = <<Frame(u)>>)'
  <2>1. u # t
    BY <1>3
  <2>2. Frame(u)' = Frame(u) /\ pc[u] = "commit"
    BY <1>0, <1>3, <2>1, OthersStay DEF Frame
  <2> QED BY <1>0, <2>2 DEF BufferInv, BufferStays
<1>4. ASSUME NEW u \in Threads, pc'[u] \in {"send", "drain"} PROVE use' = 1
  <2>1. CASE u = t
    BY <1>4, <2>1 DEF BufferStays
  <2>2. CASE u # t
    BY <1>0, <1>4, <2>2, OthersStay DEF BufferInv, BufferStays
  <2> QED BY <2>1, <2>2
<1> QED BY <1>1, <1>2, <1>3, <1>4 DEF BufferInv

LEMMA BufferKept ==
  ASSUME HandlerInv, [Next]_vars
  PROVE  BufferInv'
<1>0. TypeOK /\ BufferInv /\ LockInv
  BY DEF HandlerInv
<1> USE DEF BufferStays, Goto, bufferVars, lockVars, AfterCommit
<1>1. ASSUME NEW t \in Threads, NEW c \in Calls(t), Begin(t, c) PROVE BufferInv'
  <2>1. pc[t] \in {"idle", "body"} /\ pc'[t] \in {"lockChannel", "lockWrite"}
    BY <1>0, <1>1 DEF TypeOK, Begin
  <2> QED BY <1>1, <2>1, BufferKeptByQuietStep DEF Begin, Step, Send
<1>2. ASSUME NEW t \in Threads, LockChannel(t) \/ LockWrite(t) PROVE BufferInv'
  <2>1. /\ pc[t] \in {"lockChannel", "lockWrite"} /\ pc'[t] \in {"lockWrite", "copy"}
        /\ BufferStays
    BY <1>0, <1>2 DEF TypeOK, LockChannel, LockWrite
  <2> QED BY <1>2, <2>1, BufferKeptByQuietStep DEF Step, Send
<1>3. ASSUME NEW t \in Threads, Copy(t) PROVE BufferInv'
  <2>1. /\ use' = 0 /\ buf' = <<Frame(t)>> /\ pc'[t] = "commit"
        /\ UNCHANGED <<call, part, calls>>
    BY <1>0, <1>3, CopyIsAlone DEF TypeOK, Copy
  <2>2. \A u \in Threads : u # t => pc'[u] = pc[u]
    BY <1>0, <1>3, OthersStay DEF Step
  <2>3. Frame(t)' = Frame(t)
    BY <2>1 DEF Frame
  <2>4. ASSUME NEW u \in Threads, pc'[u] = "commit" PROVE (buf = <<Frame(u)>>)'
    <3>1. CASE u = t
      BY <2>1, <2>3, <3>1
    <3>2. CASE u # t
      <4>1. writeOwner = t /\ writeOwner = u
        BY <1>0, <1>3, <2>2, <2>4, <3>2 DEF LockInv, InOnData, Copy
      <4> QED BY <3>2, <4>1
    <3> QED BY <3>1, <3>2
  <2>5. ASSUME NEW u \in Threads, pc'[u] \in {"send", "drain"} PROVE use' = 1
    <3>1. u # t /\ pc[u] \in {"send", "drain"}
      BY <2>1, <2>2, <2>5
    <3>2. use = 1 /\ use = 0
      BY <1>0, <1>3, <3>1, CopyIsAlone DEF BufferInv
    <3> QED BY <3>2
  <2> QED BY <2>1, <2>4, <2>5 DEF BufferInv
<1>4. ASSUME NEW t \in Threads, Commit(t) PROVE BufferInv'
  <2>1. use = 0 /\ buf = <<Frame(t)>> /\ call[t] \notin Flushes
    BY <1>0, <1>4, RoomForTheFrame DEF Commit, BufferInv, LockInv, Resting
  <2>2. /\ use' = 1 /\ buf' = <<Frame(t)>> /\ pc'[t] = "lockSend"
        /\ UNCHANGED <<call, part, calls>>
    BY <1>0, <1>4, <2>1 DEF TypeOK, Commit
  <2>3. \A u \in Threads : u # t => pc'[u] = pc[u]
    BY <1>0, <1>4, OthersStay DEF Step
  <2>4. Len(buf') = 1
    BY <2>2
  <2>5. ASSUME NEW u \in Threads, pc'[u] = "commit" PROVE FALSE
    <3>1. u # t
      BY <2>2, <2>5
    <3>2. writeOwner = t /\ writeOwner = u
      BY <1>0, <1>4, <2>3, <2>5, <3>1 DEF LockInv, InOnData, Commit
    <3> QED BY <3>1, <3>2
  <2> QED BY <2>1, <2>2, <2>4, <2>5 DEF BufferInv
<1>5. ASSUME NEW t \in Threads, LockSend(t) PROVE BufferInv'
  <2>1. /\ pc[t] = "lockSend" /\ call' = call /\ BufferStays
        /\ pc'[t] # "commit"
        /\ pc'[t] \in {"send", "drain"} => use = 1
        /\ pc'[t] \notin AfterCommit => use = 0
    BY <1>0, <1>5 DEF TypeOK, LockSend, AfterFlush, BufferInv
  <2> QED BY <1>5, <2>1, BufferKeptByQuietStep DEF Step, Send
<1>6. ASSUME NEW t \in Threads, Send(t) PROVE BufferInv'
  <2>1. /\ pc[t] = "send" /\ pc'[t] = "drain"
        /\ UNCHANGED <<call, part, calls, buf, use>>
    BY <1>0, <1>6 DEF TypeOK, Send
  <2>2. \A u \in Threads : u # t => pc'[u] = pc[u]
    BY <1>0, <1>6, OthersStay DEF Step
  <2>3. \A u \in Threads : Frame(u)' = Frame(u)
    BY <2>1 DEF Frame
  <2> QED BY <1>0, <2>1, <2>2, <2>3 DEF BufferInv
<1>7. ASSUME NEW t \in Threads, Drain(t) PROVE BufferInv'
  <2>1. /\ pc[t] = "drain" /\ pc'[t] \notin {"send", "drain", "commit"} /\ use' = 0
        /\ UNCHANGED <<call, part, calls, buf>>
    BY <1>0, <1>7 DEF TypeOK, Drain, AfterFlush
  <2>2. \A u \in Threads : u # t => pc'[u] = pc[u]
    BY <1>0, <1>7, OthersStay DEF Step
  <2>3. \A u \in Threads : Frame(u)' = Frame(u)
    BY <2>1 DEF Frame
  <2>4. \A u \in Threads : pc'[u] \in {"send", "drain"} => u = t
    BY <1>0, <2>1, <2>2 DEF LockInv
  <2> QED BY <1>0, <2>1, <2>2, <2>3, <2>4 DEF BufferInv
<1>8. ASSUME NEW t \in Threads, Unlock(t) PROVE BufferInv'
  <2>1. /\ pc[t] = "unlock" /\ pc'[t] \in {"idle", "body", "lockWrite"}
        /\ BufferStays
    BY <1>0, <1>8 DEF TypeOK, Unlock, AfterCall
  <2> QED BY <1>8, <2>1, BufferKeptByQuietStep DEF Step, Send
<1>9. ASSUME NEW t \in Threads, Outside(t) PROVE BufferInv'
  <2>1. /\ pc[t] \in Resting /\ pc'[t] \in Resting \cup {"lockSend"}
        /\ BufferStays
    BY <1>0, <1>9 DEF TypeOK, Outside, LoopHead, SkipBeat, LoopFlush, LoopBreak,
       LoopLeave, Resting
  <2> QED BY <1>9, <2>1, BufferKeptByQuietStep DEF Resting, Send
<1>10. CASE Quit \/ UNCHANGED vars
  <2>1. UNCHANGED <<pc, call, part, calls, buf, use>>
    BY <1>10 DEF Quit, vars
  <2> QED BY <1>0, <2>1 DEF BufferInv, Frame
<1> QED BY <1>1, <1>2, <1>3, <1>4, <1>5, <1>6, <1>7, <1>8, <1>9, <1>10, NoneIsNoThread
       DEF Next, Step, Outside

\* The frames of outBuffer, when nobody is between send1 and drain.
Pending == SubSeq(buf, 1, use)

LEMMA OrderKept ==
  ASSUME HandlerInv, [Next]_vars
  PROVE  FramesInOrder'
<1>0. TypeOK /\ BufferInv /\ LockInv /\ FramesInOrder
  BY DEF HandlerInv
<1> USE DEF Goto, bufferVars, lockVars
<1>1. ASSUME UNCHANGED <<buf, use, wire, written, broken>>,
             (\E t \in Threads : pc'[t] = "drain") <=> (\E t \in Threads : pc[t] = "drain")
      PROVE  FramesInOrder'
  BY <1>0, <1>1 DEF FramesInOrder, Unsent
<1>2. ASSUME NEW t \in Threads, Step(t) \/ Outside(t), pc[t] # "drain", pc'[t] # "drain"
      PROVE  (\E u \in Threads : pc'[u] = "drain") <=> (\E u \in Threads : pc[u] = "drain")
  BY <1>0, <1>2, OthersStay
<1>3. ASSUME NEW t \in Threads,
             (\E c \in Calls(t) : Begin(t, c)) \/ LockChannel(t) \/ LockWrite(t)
               \/ LockSend(t) \/ Unlock(t) \/ Outside(t)
      PROVE  FramesInOrder'
  <2>1. pc[t] # "drain" /\ pc'[t] # "drain" /\ UNCHANGED <<buf, use, wire, written, broken>>
    BY <1>0, <1>3 DEF TypeOK, Begin, LockChannel, LockWrite, LockSend, AfterFlush, Unlock,
       AfterCall, Outside, LoopHead, SkipBeat, LoopFlush, LoopBreak, LoopLeave
  <2> QED BY <1>1, <1>2, <1>3, <2>1 DEF Step
<1>4. \A t \in Threads : use = 0 => pc[t] # "drain"
  BY <1>0 DEF BufferInv
<1>5. use = 0 => Pending = <<>>
  BY <1>0, SubSeqEmpty DEF TypeOK, Pending
<1>6. use = 1 => Pending = buf
  <2> SUFFICES ASSUME use = 1 PROVE Pending = buf
    OBVIOUS
  <2>1. Len(buf) = 1 /\ buf \in Seq(FrameSet)
    BY <1>0 DEF BufferInv, TypeOK
  <2> QED BY <2>1, SubSeqFull DEF Pending
<1>7. wire \in Seq(FrameSet) /\ wire \o <<>> = wire
  BY <1>0 DEF TypeOK
<1>8. ASSUME NEW t \in Threads, Copy(t) PROVE FramesInOrder'
  <2>1. use = 0 /\ UNCHANGED <<use, wire, written, broken>>
    BY <1>8, CopyIsAlone DEF Copy
  <2>2. SubSeq(buf', 1, use') = <<>>
    BY <2>1, SubSeqEmpty
  <2>3. Unsent = <<>> /\ Unsent' = <<>>
    BY <1>4, <1>5, <2>1, <2>2 DEF Unsent, Pending
  <2> QED BY <1>0, <2>1, <2>3 DEF FramesInOrder
<1>9. ASSUME NEW t \in Threads, Commit(t) PROVE FramesInOrder'
  <2>1. use = 0 /\ buf = <<Frame(t)>>
    BY <1>0, <1>9, RoomForTheFrame DEF Commit, BufferInv
  <2>2. /\ use' = 1 /\ written' = Append(written, Frame(t)) /\ pc'[t] = "lockSend"
        /\ UNCHANGED <<buf, wire, broken>> /\ pc[t] = "commit"
    BY <1>0, <1>9, <2>1 DEF TypeOK, Commit
  <2>3. ~ \E u \in Threads : pc'[u] = "drain"
    BY <1>2, <1>4, <1>9, <2>1, <2>2 DEF Step
  <2>4. Unsent = <<>>
    BY <1>4, <1>5, <2>1 DEF Unsent, Pending
  <2>5. Frame(t) \in FrameSet
    BY <1>9, FrameIsAFrame DEF HandlerInv, Commit
  <2>6. Unsent' = <<Frame(t)>>
    <3>1. SubSeq(<<Frame(t)>>, 1, 1) = <<Frame(t)>>
      <4>1. <<Frame(t)>> \in Seq(FrameSet) /\ Len(<<Frame(t)>>) = 1
        BY <2>5
      <4> QED BY <4>1, SubSeqFull
    <3> QED BY <2>1, <2>2, <2>3, <3>1 DEF Unsent
  <2>7. Append(wire, Frame(t)) = wire \o <<Frame(t)>>
    BY <1>7, <2>5
  <2> QED BY <1>0, <1>7, <2>2, <2>4, <2>6, <2>7 DEF FramesInOrder
<1>10. ASSUME NEW t \in Threads, Send(t) PROVE FramesInOrder'
  <2>1. /\ pc[t] = "send" /\ pc'[t] = "drain" /\ UNCHANGED <<buf, use, written>>
        /\ broken' = TRUE \/ (broken' = broken /\ (~broken => wire' = wire \o Pending))
    BY <1>0, <1>10 DEF TypeOK, Send, Pending
  <2>2. \A u \in Threads : pc[u] # "drain"
    <3>1. ASSUME NEW u \in Threads, pc[u] = "drain" PROVE FALSE
      BY <1>0, <2>1, <3>1 DEF LockInv
    <3> QED BY <3>1
  <2>3. Unsent = Pending /\ Unsent' = <<>>
    BY <2>1, <2>2 DEF Unsent, Pending
  <2>4. CASE broken'
    BY <2>4 DEF FramesInOrder
  <2>5. CASE ~broken' /\ broken' = broken /\ wire' = wire \o Pending
    <3>1. Pending \in Seq(FrameSet)
      <4>1. <<>> \in Seq(FrameSet) /\ buf \in Seq(FrameSet)
        BY <1>0 DEF TypeOK
      <4> QED BY <1>0, <1>5, <1>6, <4>1 DEF BufferInv
    <3>2. wire' \o <<>> = wire'
      BY <1>7, <2>5, <3>1
    <3> QED BY <1>0, <2>1, <2>3, <2>5, <3>2 DEF FramesInOrder
  <2> QED BY <2>1, <2>4, <2>5
<1>11. ASSUME NEW t \in Threads, Drain(t) PROVE FramesInOrder'
  <2>1. /\ pc[t] = "drain" /\ pc'[t] # "drain" /\ use' = 0
        /\ UNCHANGED <<buf, wire, written, broken>>
    BY <1>0, <1>11 DEF TypeOK, Drain, AfterFlush
  <2>2. SubSeq(buf', 1, use') = <<>>
    BY <2>1, SubSeqEmpty
  <2>3. Unsent = <<>> /\ Unsent' = <<>>
    BY <2>1, <2>2 DEF Unsent
  <2> QED BY <1>0, <2>1, <2>3 DEF FramesInOrder
<1>12. CASE Quit \/ UNCHANGED vars
  BY <1>1, <1>12 DEF Quit, vars
<1> QED BY <1>3, <1>8, <1>9, <1>10, <1>11, <1>12, NoneIsNoThread DEF Next, Step, Outside

-----------------------------------------------------------------------------
(* The content of a response                                               *)

LEMMA ResponsesKept ==
  ASSUME HandlerInv, [Next]_vars
  PROVE  ResponsesNotMixed'
<1>0. TypeOK /\ LockInv /\ PartInv /\ ResponsesNotMixed
  BY DEF HandlerInv
<1>1. CASE UNCHANGED written
  BY <1>0, <1>1 DEF ResponsesNotMixed, SameCall, InResponse
<1>2. ASSUME NEW t \in Threads, Commit(t) PROVE ResponsesNotMixed'
  <2> DEFINE f == Frame(t)
             n == Len(written)
  <2>1. /\ f \in FrameSet /\ n \in Nat /\ written' = Append(written, f)
        /\ Len(written') = n + 1 /\ written'[n + 1] = f
        /\ \A i \in 1..n : written'[i] = written[i]
    BY <1>0, <1>2, FrameIsAFrame, AppendProperties, LenProperties DEF TypeOK, Commit
  <2>2. f.type = "body" => HeadWaits(t)
    <3> SUFFICES ASSUME f.type = "body" PROVE HeadWaits(t)
      OBVIOUS
    <3>1. call[t] \in AllCalls /\ part[t] \in 1..3 /\ pc[t] = "commit"
      BY <1>0, <1>2 DEF TypeOK, Commit
    <3>2. Len(Frames(call[t])) \in 1..3 /\ part[t] <= Len(Frames(call[t]))
      BY <1>0, <3>1, FramesOfCalls DEF PartInv
    <3>3. part[t] \in 1..Len(Frames(call[t])) /\ Frames(call[t])[part[t]] = "body"
      BY <3>1, <3>2 DEF Frame
    <3>4. TakesChannel(call[t]) /\ part[t] = 2
      BY <3>1, <3>2, <3>3, FramesOfCalls
    <3> QED BY <1>0, <3>1, <3>4 DEF PartInv, BetweenHeadAndBody
  <2>3. ASSUME NEW i \in 1..(n + 1), written'[i].type = "body"
        PROVE  \E h \in 1..(i - 1) :
                 /\ written'[h].type = "head" /\ SameCall(written'[h], written'[i])
                 /\ \A j \in (h + 1)..(i - 1) : ~ InResponse(written'[j])
    <3>1. CASE i \in 1..n
      <4>1. PICK h \in 1..(i - 1) :
                 /\ written[h].type = "head" /\ SameCall(written[h], written[i])
                 /\ \A j \in (h + 1)..(i - 1) : ~ InResponse(written[j])
        BY <1>0, <2>1, <2>3, <3>1 DEF ResponsesNotMixed
      <4>2. h \in 1..n /\ \A j \in (h + 1)..(i - 1) : j \in 1..n
        BY <2>1, <3>1, <4>1
      <4> QED BY <2>1, <3>1, <4>1, <4>2 DEF SameCall, InResponse
    <3>2. CASE i = n + 1
      <4>1. f.type = "body"
        BY <2>1, <2>3, <3>2
      <4>2. PICK h \in 1..n :
                 /\ written[h].type = "head"
                 /\ written[h].from = t /\ written[h].number = calls[t]
                 /\ \A j \in (h + 1)..n : ~ InResponse(written[j])
        BY <2>2, <4>1 DEF HeadWaits
      <4>3. f.from = t /\ f.number = calls[t]
        BY DEF Frame
      <4>4. i - 1 = n /\ \A j \in (h + 1)..n : j \in 1..n
        BY <2>1, <3>2, <4>2
      <4> QED BY <2>1, <3>2, <4>2, <4>3, <4>4 DEF SameCall, InResponse
    <3> QED BY <2>1, <2>3, <3>1, <3>2
  <2> QED BY <2>1, <2>3 DEF ResponsesNotMixed
<1> QED BY <1>1, <1>2 DEF Next, Step, Begin, LockChannel, LockWrite, Copy, LockSend, Send,
        Drain, Unlock, LoopHead, SkipBeat, LoopFlush, LoopBreak, LoopLeave, Quit,
        bufferVars, vars

PartOf(t) ==
  /\ pc[t] \in {"lockWrite", "copy", "commit", "unlock"} =>
       part[t] <= Len(Frames(call[t]))
  /\ pc[t] \in AfterCommit /\ call[t] \notin Flushes =>
       part[t] <= Len(Frames(call[t]))
  /\ pc[t] = "lockChannel" => part[t] = 1
  /\ BetweenHeadAndBody(t) => HeadWaits(t)

LEMMA OnePartWithoutChannel ==
  ASSUME NEW c \in AllCalls
  PROVE  1 <= Len(Frames(c)) /\ Len(Frames(c)) \in Nat
<1>1. Len(Frames(c)) \in 1..3
  BY FramesOfCalls
<1> QED BY <1>1

\* A step that commits no frame keeps what the other threads wait for.
LEMMA OthersWait ==
  ASSUME HandlerInv, NEW t \in Threads, Step(t) \/ Outside(t), UNCHANGED written,
         NEW u \in Threads, u # t
  PROVE  PartOf(u)'
<1>1. PartOf(u) /\ TypeOK
  BY DEF HandlerInv, PartInv, PartOf
<1>2. pc'[u] = pc[u] /\ call'[u] = call[u] /\ part'[u] = part[u] /\ calls'[u] = calls[u]
  BY <1>1, OthersStay
<1>3. BetweenHeadAndBody(u)' <=> BetweenHeadAndBody(u)
  BY <1>2 DEF BetweenHeadAndBody
<1>4. HeadWaits(u)' <=> HeadWaits(u)
  BY <1>2 DEF HeadWaits, InResponse
<1> QED BY <1>1, <1>2, <1>3, <1>4 DEF PartOf

\* A commit of t is of no content, or t alone is inside sendResponse.
LEMMA CommitKeepsHeads ==
  ASSUME HandlerInv, NEW t \in Threads, Commit(t)
  PROVE  \A u \in Threads : PartOf(u)'
<1> DEFINE f == Frame(t)
           n == Len(written)
<1>0. TypeOK /\ LockInv /\ PartInv
  BY DEF HandlerInv
<1>1. /\ f \in FrameSet /\ n \in Nat /\ written' = Append(written, f)
      /\ Len(written') = n + 1 /\ written'[n + 1] = f
      /\ \A i \in 1..n : written'[i] = written[i]
  BY <1>0, FrameIsAFrame, AppendProperties, LenProperties DEF TypeOK, Commit
<1>2. /\ pc[t] = "commit" /\ pc'[t] = "lockSend" /\ UNCHANGED <<call, part, calls>>
      /\ call[t] \in AllCalls /\ part[t] \in 1..3 /\ part[t] <= Len(Frames(call[t]))
      /\ Len(Frames(call[t])) \in 1..3
  BY <1>0, FramesOfCalls DEF TypeOK, PartInv, Commit, Goto
<1>3. PartOf(t)'
  <2>1. ASSUME BetweenHeadAndBody(t)' PROVE HeadWaits(t)'
    <3>1. TakesChannel(call[t]) /\ part[t] = 1
      BY <1>2, <2>1 DEF BetweenHeadAndBody
    <3>2. f.type = "head" /\ f.from = t /\ f.number = calls[t]
      BY <1>2, <3>1, FramesOfCalls DEF Frame
    <3>3. n + 1 \in 1..Len(written') /\ \A j \in (n + 1 + 1)..Len(written') : FALSE
      BY <1>1
    <3> QED BY <1>1, <1>2, <3>2, <3>3 DEF HeadWaits
  <2> QED BY <1>2, <2>1 DEF PartOf, AfterCommit
<1>4. ASSUME NEW u \in Threads, u # t PROVE PartOf(u)'
  <2>1. pc'[u] = pc[u] /\ call'[u] = call[u] /\ part'[u] = part[u] /\ calls'[u] = calls[u]
    BY <1>0, <1>4, OthersStay DEF Step
  <2>2. PartOf(u)
    BY <1>0 DEF PartInv, PartOf
  <2>3. ASSUME BetweenHeadAndBody(u)' PROVE HeadWaits(u)'
    <3>1. BetweenHeadAndBody(u)
      BY <2>1, <2>3 DEF BetweenHeadAndBody
    <3>2. chOwner = u
      BY <1>0, <3>1, FramesOfCalls DEF TypeOK, LockInv, BetweenHeadAndBody, InOnData
    <3>3. ~ TakesChannel(call[t])
      BY <1>0, <1>2, <1>4, <3>2 DEF LockInv, InOnData
    <3>4. f.type \notin {"head", "body"}
      BY <1>2, <3>3, FramesOfCalls DEF Frame
    <3>5. PICK h \in 1..n :
               /\ written[h].type = "head"
               /\ written[h].from = u /\ written[h].number = calls[u]
               /\ \A j \in (h + 1)..n : ~ InResponse(written[j])
      BY <2>2, <3>1 DEF PartOf, HeadWaits
    <3>6. \A j \in (h + 1)..(n + 1) : ~ InResponse(written'[j])
      <4> TAKE j \in (h + 1)..(n + 1)
      <4>1. CASE j = n + 1
        BY <1>1, <3>4, <4>1 DEF InResponse
      <4>2. CASE j # n + 1
        <5>1. j \in (h + 1)..n /\ j \in 1..n
          BY <1>1, <3>5, <4>2
        <5> QED BY <1>1, <3>5, <5>1
      <4> QED BY <4>1, <4>2
    <3>7. h \in 1..(n + 1)
      BY <1>1, <3>5
    <3> QED BY <1>1, <2>1, <3>5, <3>6, <3>7 DEF HeadWaits, InResponse
  <2> QED BY <2>1, <2>2, <2>3 DEF PartOf
<1> QED BY <1>3, <1>4

LEMMA PartsKept ==
  ASSUME HandlerInv, [Next]_vars
  PROVE  PartInv'
<1>0. TypeOK /\ LockInv /\ PartInv /\ \A u \in Threads : PartOf(u)
  BY DEF HandlerInv, PartInv, PartOf
<1> USE DEF Goto, bufferVars, lockVars
<1> SUFFICES \A u \in Threads : PartOf(u)'
  BY DEF PartInv, PartOf
<1>1. ASSUME NEW t \in Threads, Step(t) \/ Outside(t), UNCHANGED written, PartOf(t)'
      PROVE  \A u \in Threads : PartOf(u)'
  BY <1>1, OthersWait
<1>2. ASSUME NEW t \in Threads, UNCHANGED <<written, calls>>
      PROVE  HeadWaits(t)' <=> HeadWaits(t)
  BY <1>2 DEF HeadWaits, InResponse
<1>3. ASSUME NEW t \in Threads, NEW c \in Calls(t), Begin(t, c)
      PROVE  \A u \in Threads : PartOf(u)'
  <2>1. /\ part'[t] = 1 /\ call'[t] = c /\ UNCHANGED written
        /\ \/ TakesChannel(c) /\ pc'[t] = "lockChannel"
           \/ ~ TakesChannel(c) /\ pc'[t] = "lockWrite"
    BY <1>0, <1>3 DEF TypeOK, Begin
  <2>2. PartOf(t)'
    BY <2>1, CallsAreCalls, OnePartWithoutChannel
       DEF PartOf, BetweenHeadAndBody, AfterCommit
  <2> QED BY <1>1, <1>3, <2>1, <2>2 DEF Step
<1>4. ASSUME NEW t \in Threads, LockChannel(t) PROVE \A u \in Threads : PartOf(u)'
  <2>1. /\ pc[t] = "lockChannel" /\ pc'[t] = "lockWrite" /\ part[t] = 1
        /\ UNCHANGED <<part, call, written>> /\ call[t] \in AllCalls
    BY <1>0, <1>4 DEF TypeOK, PartOf, LockChannel
  <2>2. PartOf(t)'
    BY <2>1, OnePartWithoutChannel DEF PartOf, BetweenHeadAndBody, AfterCommit
  <2> QED BY <1>1, <1>4, <2>1, <2>2 DEF Step
<1>5. ASSUME NEW t \in Threads, LockWrite(t) \/ Copy(t) PROVE \A u \in Threads : PartOf(u)'
  <2>1. /\ \/ pc[t] = "lockWrite" /\ pc'[t] = "copy"
           \/ pc[t] = "copy" /\ pc'[t] = "commit"
        /\ UNCHANGED <<part, call, written, calls>>
    BY <1>0, <1>5, CopyIsAlone DEF TypeOK, LockWrite, Copy
  <2>2. PartOf(t)'
    BY <1>0, <1>2, <2>1 DEF PartOf, BetweenHeadAndBody, AfterCommit
  <2> QED BY <1>1, <1>5, <2>1, <2>2 DEF Step
<1>6. ASSUME NEW t \in Threads, LockSend(t) \/ Send(t) \/ Drain(t)
      PROVE  \A u \in Threads : PartOf(u)'
  <2>1. /\ pc[t] \in AfterCommit
        /\ \/ pc'[t] \in AfterCommit
           \/ call[t] \in Flushes /\ pc'[t] \in {"idle", "exited"}
           \/ call[t] \notin Flushes /\ pc'[t] = "unlock"
        /\ UNCHANGED <<part, call, written, calls>>
    BY <1>0, <1>6 DEF TypeOK, LockSend, Send, Drain, AfterFlush, AfterCommit, Flushes
  <2>2. PartOf(t)'
    BY <1>0, <1>2, <2>1 DEF PartOf, BetweenHeadAndBody, AfterCommit
  <2> QED BY <1>1, <1>6, <2>1, <2>2 DEF Step
<1>7. ASSUME NEW t \in Threads, Unlock(t) PROVE \A u \in Threads : PartOf(u)'
  <2>1. /\ pc[t] = "unlock" /\ UNCHANGED <<call, written, calls>>
        /\ call[t] \in AllCalls /\ part[t] \in 1..3 /\ Len(Frames(call[t])) \in 1..3
        /\ part[t] <= Len(Frames(call[t]))
    BY <1>0, <1>7, FramesOfCalls DEF TypeOK, PartOf, Unlock
  <2>2. \/ pc'[t] \in {"idle", "body"}
        \/ pc'[t] = "lockWrite" /\ part'[t] = part[t] + 1 /\ part[t] # Len(Frames(call[t]))
    BY <1>0, <1>7 DEF TypeOK, Unlock, AfterCall
  <2>3. PartOf(t)'
    <3>1. CASE pc'[t] \in {"idle", "body"}
      BY <3>1 DEF PartOf, BetweenHeadAndBody, AfterCommit
    <3>2. CASE /\ pc'[t] = "lockWrite" /\ part'[t] = part[t] + 1
               /\ part[t] # Len(Frames(call[t]))
      <4>1. part'[t] <= Len(Frames(call[t]))
        <5>1. \A p, k \in 1..3 : p <= k /\ p # k => p + 1 <= k
          OBVIOUS
        <5> QED BY <2>1, <3>2, <5>1
      <4>2. BetweenHeadAndBody(t)' => BetweenHeadAndBody(t)
        BY <2>1, <3>2 DEF BetweenHeadAndBody, AfterCommit
      <4> QED BY <1>0, <1>2, <2>1, <3>2, <4>1, <4>2 DEF PartOf, AfterCommit
    <3> QED BY <2>2, <3>1, <3>2
  <2> QED BY <1>1, <1>7, <2>1, <2>3 DEF Step
<1>8. ASSUME NEW t \in Threads, Outside(t) PROVE \A u \in Threads : PartOf(u)'
  <2>1. /\ \/ pc'[t] \in Resting
           \/ pc'[t] = "lockSend" /\ call'[t] \in Flushes
        /\ UNCHANGED written
    BY <1>0, <1>8 DEF TypeOK, Outside, LoopHead, SkipBeat, LoopFlush, LoopBreak,
       LoopLeave, Resting, Flushes
  <2>2. PartOf(t)'
    BY <2>1 DEF PartOf, BetweenHeadAndBody, AfterCommit, Resting, TakesChannel, Flushes
  <2> QED BY <1>1, <1>8, <2>1, <2>2
<1>9. CASE Quit \/ UNCHANGED vars
  <2>1. UNCHANGED <<pc, call, part, calls, written>>
    BY <1>9 DEF Quit, vars
  <2> QED BY <1>0, <1>2, <2>1 DEF PartOf, BetweenHeadAndBody
<1> QED BY <1>3, <1>4, <1>5, <1>6, <1>7, <1>8, <1>9, CommitKeepsHeads, NoneIsNoThread
       DEF Next, Step, Outside

-----------------------------------------------------------------------------
(* Theorems                                                                *)

\* The inductive invariant: the locks have the owners the code's guards give
\* them, outBuffer holds at most one frame, and heads wait for their bodies.
THEOREM HandlerIsConsistent == Spec => []HandlerInv
<1>1. Init => HandlerInv
  BY InitHandler
<1>2. HandlerInv /\ [Next]_vars => HandlerInv'
  BY TypesKept, LocksKept, BufferKept, PartsKept, OrderKept, ResponsesKept DEF HandlerInv
<1> QED BY <1>1, <1>2, PTL DEF Spec

\* Between onData and the socket no frame is lost, doubled or overtaken,
\* although the network loop drains outBuffer without writeMtx.
THEOREM SocketKeepsOrder == Spec => []FramesInOrder
<1>1. HandlerInv => FramesInOrder
  BY DEF HandlerInv
<1> QED BY <1>1, HandlerIsConsistent, PTL

\* onData never finds outBuffer full, however small it is: no frame is dropped.
THEOREM BufferHasRoom == Spec => []NeverFull
<1>1. HandlerInv => NeverFull
  BY RoomForTheFrame, CapacityAssumption DEF HandlerInv, NeverFull
<1> QED BY <1>1, HandlerIsConsistent, PTL

\* sendResponse keeps the head and the body of a response together as far as
\* other responses are concerned.
THEOREM ContentsStayApart == Spec => []ResponsesNotMixed
<1>1. HandlerInv => ResponsesNotMixed
  BY DEF HandlerInv
<1> QED BY <1>1, HandlerIsConsistent, PTL

\* m_chMutex, writeMtx and sendMtx are always taken in this order, so some
\* thread inside a call can go on.
THEOREM LocksCannotDeadlock == Spec => []NoDeadlock
<1>1. ASSUME HandlerInv PROVE NoDeadlock
  <2>0. TypeOK /\ LockInv /\ None \notin Threads
    BY <1>1, NoneIsNoThread DEF HandlerInv
  <2> SUFFICES ASSUME NEW t \in Threads, pc[t] \notin Resting
               PROVE  \E u \in Threads : pc[u] \notin Resting /\ ~ Blocked(u)
    BY DEF NoDeadlock
  <2>1. CASE sendOwner # None
    <3>1. sendOwner \in Threads /\ pc[sendOwner] \in {"send", "drain"}
      BY <2>0, <2>1 DEF TypeOK, LockInv
    <3> QED BY <3>1 DEF Blocked, Resting
  <2>2. CASE sendOwner = None /\ writeOwner # None
    <3>1. /\ writeOwner \in Threads
          /\ pc[writeOwner] \in {"copy", "commit", "unlock", "lockSend", "send", "drain"}
      BY <2>0, <2>2 DEF TypeOK, LockInv, InOnData, AfterCommit
    <3> QED BY <2>2, <3>1 DEF Blocked, Resting
  <2>3. CASE sendOwner = None /\ writeOwner = None /\ chOwner # None
    <3>1. chOwner \in Threads /\ (InOnData(chOwner) \/ pc[chOwner] = "lockWrite")
      BY <2>0, <2>3 DEF TypeOK, LockInv
    <3>2. pc[chOwner] \notin Resting /\ pc[chOwner] # "lockChannel"
      BY <3>1 DEF InOnData, AfterCommit, Resting
    <3> QED BY <2>3, <3>1, <3>2 DEF Blocked
  <2>4. CASE sendOwner = None /\ writeOwner = None /\ chOwner = None
    BY <2>4 DEF Blocked
  <2> QED BY <2>1, <2>2, <2>3, <2>4
<1> QED BY <1>1, HandlerIsConsistent, PTL
=============================================================================
