---------------------------- MODULE HttpSrcProofs ----------------------------
(***************************************************************************)
(* Proofs about HttpSrc for every block size, queue factor, content length *)
(* and bound.  The invariant is built in two layers: Control says who is   *)
(* where and who holds flowTimerMutex, Data what the queue, the partial    *)
(* block and the counters hold at those places.  Above them: no wakeup of  *)
(* the queue is lost.                                                      *)
(***************************************************************************)
EXTENDS HttpSrc, TLAPS

SessionHolds == {"fill", "enqueue", "lockNotFull", "waitNotFull", "wokenNotFull"}
TimerHolds == {"enqueue", "lockNotFull", "waitNotFull", "wokenNotFull"}

\* create() has requested a stop and looked at the partial block.
Settled ==
  \/ pc.create \in {"pushQueued", "pushEos"}
  \/ pc.create = "paused" /\ pc.ctl \in {"running", "unlocking", "flushed"}

Places == [ctl : CtlPC, create : CreatePC, session : SessionPC, timer : TimerPC]

\* The flags and the threads' places are of their types.
ControlTypes ==
  /\ flowTimerMutex \in {"none", "session", "timer"}
  /\ currBlock \in BOOLEAN /\ threadStopRequested \in BOOLEAN
  /\ pc \in Places

\* flowTimerMutex is with the thread that copies data or queues a block.
MutexOwner ==
  /\ flowTimerMutex = "session" <=> pc.session \in SessionHolds
  /\ flowTimerMutex = "timer" <=> pc.timer \in TimerHolds
  /\ flowTimerMutex # "none" /\ pc.session # "fill" => ~currBlock

\* create() runs only between start() and the end of unlock(); its stop request
\* holds until it returns, and from then on nobody makes a new block.
Quiet ==
  /\ pc.ctl \in {"null", "starting", "started"} => pc.create = "off"
  /\ pc.ctl \in {"flushed", "cleared", "stopping", "joining"}
       => pc.create \in {"idle", "paused", "error"}
  /\ pc.create = "pushPartial" \/ Settled => threadStopRequested
  /\ Settled => flowTimerMutex = "none" /\ ~currBlock

\* The session runs between start() and stop(), and outlives the flow timer.
Lifetimes ==
  /\ pc.ctl \in {"null", "starting"} => pc.session = "none"
  /\ pc.session = "wake" => pc.timer = "none"

\* A partial block is never full.
PartialBlock == currBlockOffset \in 0 .. BlockSize - 1 /\ chunk \in 0..MaxChunk

Control == ControlTypes /\ PartialBlock /\ MutexOwner /\ Quiet /\ Lifetimes

-----------------------------------------------------------------------------
(* What a signal does to the threads' places.                              *)

\* A signal for NotEmpty changes create()'s place at most.
LEMMA SignalNotEmptyEffect ==
  ASSUME NEW p \in Places
  PROVE  /\ SignalNotEmpty(p) \in Places
         /\ SignalNotEmpty(p).ctl = p.ctl
         /\ SignalNotEmpty(p).session = p.session
         /\ SignalNotEmpty(p).timer = p.timer
         /\ \/ SignalNotEmpty(p).create = p.create
            \/ p.create = "waitNotEmpty" /\ SignalNotEmpty(p).create = "wokenNotEmpty"
  BY DEF Places, SignalNotEmpty, CreatePC

\* A signal for NotFull moves a waiting producer and nobody else.
LEMMA SignalNotFullEffect ==
  ASSUME NEW p \in Places
  PROVE  /\ SignalNotFull(p) \in Places
         /\ SignalNotFull(p).ctl = p.ctl
         /\ SignalNotFull(p).create = p.create
         /\ \/ SignalNotFull(p).session = p.session
            \/ p.session = "waitNotFull" /\ SignalNotFull(p).session = "wokenNotFull"
         /\ \/ SignalNotFull(p).timer = p.timer
            \/ p.timer = "waitNotFull" /\ SignalNotFull(p).timer = "wokenNotFull"
  BY DEF Places, SignalNotFull, SessionPC, TimerPC

\* A signal to the flow timer changes the timer's place at most.
LEMMA SignalTimerEffect ==
  ASSUME NEW p \in Places
  PROVE  /\ SignalTimer(p) \in Places
         /\ SignalTimer(p).ctl = p.ctl
         /\ SignalTimer(p).create = p.create
         /\ SignalTimer(p).session = p.session
         /\ \/ SignalTimer(p).timer = p.timer
            \/ p.timer \in {"waitFirst", "timedWait"} /\ SignalTimer(p).timer = "woken"
  BY DEF Places, SignalTimer, TimerPC

\* A spurious wakeup moves threads that wait.
LEMMA SpuriousEffect ==
  ASSUME Control, SpuriousWakeup
  PROVE  /\ pc'.ctl = pc.ctl
         /\ \/ pc'.create = pc.create
            \/ pc.create = "waitNotEmpty" /\ pc'.create = "wokenNotEmpty"
         /\ \/ pc'.session = pc.session
            \/ pc.session = "waitNotFull" /\ pc'.session = "wokenNotFull"
         /\ \/ pc'.timer = pc.timer
            \/ pc.timer = "waitNotFull" /\ pc'.timer = "wokenNotFull"
            \/ pc.timer \in {"waitFirst", "timedWait"} /\ pc'.timer = "woken"
<1>1. pc \in Places
  BY DEF Control, ControlTypes
<1>2. pc' \in {SignalNotEmpty(pc), SignalNotFull(pc), SignalTimer(pc)}
  BY DEF SpuriousWakeup
<1>3. QED
  BY <1>1, <1>2, SignalNotEmptyEffect, SignalNotFullEffect, SignalTimerEffect

\* buffer_ready() goes back to its caller when the block is queued.
LEMMA EnqueueEffect ==
  ASSUME Control, NEW t \in {"session", "timer"}, Enqueue(t)
  PROVE  /\ pc'.ctl = pc.ctl
         /\ \/ pc'.create = pc.create
            \/ pc.create = "waitNotEmpty" /\ pc'.create = "wokenNotEmpty"
         /\ \/ t = "timer" /\ pc'.session = pc.session
            \/ t = "session" /\ pc.session = "enqueue"
                 /\ pc'.session = IF chunk > 0 THEN "fill" ELSE "perform"
         /\ \/ t = "session" /\ pc'.timer = pc.timer
            \/ t = "timer" /\ pc.timer = "enqueue" /\ pc'.timer = "loop"
<1> DEFINE q == [pc EXCEPT ![t] = IF Copying(t) THEN "fill"
                                  ELSE IF t = "session" THEN "perform" ELSE "loop"]
<1>1. pc \in Places
  BY DEF Control, ControlTypes
<1>2. /\ q \in Places /\ q.ctl = pc.ctl /\ q.create = pc.create
      /\ t = "session" => /\ q.session = IF chunk > 0 THEN "fill" ELSE "perform"
                          /\ q.timer = pc.timer
      /\ t = "timer" => q.session = pc.session /\ q.timer = "loop"
  BY <1>1 DEF Places, SessionPC, TimerPC, Copying
<1>3. pc[t] = "enqueue" /\ pc' \in {q, SignalNotEmpty(q)}
  BY DEF Enqueue
<1> HIDE DEF q
<1>4. QED
  BY <1>2, <1>3, SignalNotEmptyEffect

\* create()'s signals move a waiting producer at most.
LEMMA TakerEffect ==
  ASSUME Control, CreatePop \/ CreateSetStop
  PROVE  /\ pc'.ctl = pc.ctl /\ pc.create \in {"loop", "setStop"}
         /\ pc.create = "loop" => pc'.create = "idle"
         /\ pc.create = "setStop" => pc'.create = "pushPartial"
         /\ \/ pc'.session = pc.session
            \/ pc.session = "waitNotFull" /\ pc'.session = "wokenNotFull"
         /\ \/ pc'.timer = pc.timer
            \/ pc.timer = "waitNotFull" /\ pc'.timer = "wokenNotFull"
<1> DEFINE p == [pc EXCEPT !.create = "idle"]
           q == [pc EXCEPT !.create = "pushPartial"]
<1>1. /\ p \in Places /\ p.ctl = pc.ctl /\ p.create = "idle"
      /\ p.session = pc.session /\ p.timer = pc.timer
      /\ q \in Places /\ q.ctl = pc.ctl /\ q.create = "pushPartial"
      /\ q.session = pc.session /\ q.timer = pc.timer
  BY DEF Control, ControlTypes, Places, CreatePC
<1>2. \/ pc.create = "loop" /\ pc' \in {p, SignalNotFull(p)}
      \/ pc.create = "setStop" /\ pc' = SignalNotFull(q)
  BY DEF CreatePop, CreateSetStop
<1> HIDE DEF p, q
<1>3. QED
  BY <1>1, <1>2, SignalNotFullEffect

\* A new element satisfies Control.
LEMMA ControlInit == Init => Control
<1> SUFFICES ASSUME Init PROVE Control
  OBVIOUS
<1> USE DEF Init
<1>1. pc \in Places
  BY DEF Places, CtlPC, CreatePC, SessionPC, TimerPC
<1>2. ControlTypes
  BY <1>1 DEF ControlTypes
<1>3. PartialBlock
  BY BlockSizeAssumption, ContentAssumption DEF PartialBlock
<1>4. MutexOwner
  BY DEF MutexOwner, SessionHolds, TimerHolds
<1>5. Quiet
  BY DEF Quiet, Settled
<1>6. Lifetimes
  BY DEF Lifetimes
<1>7. QED
  BY <1>2, <1>3, <1>4, <1>5, <1>6 DEF Control

\* create() keeps Control: it lets flowTimerMutex pass and takes the partial block
\* only while nobody fills one.
LEMMA ControlCreate == Control /\ Create => Control'
<1> SUFFICES ASSUME Control, Create PROVE Control'
  OBVIOUS
<1> USE DEF Control, ControlTypes, PartialBlock, MutexOwner, Quiet, Lifetimes,
            Settled, SessionHolds, TimerHolds, flowVars, blockVars, dataVars
<1> USE BlockSizeAssumption, ContentAssumption
<1> USE DEF Places, CtlPC, CreatePC, SessionPC, TimerPC
<1>1. CASE CreateEnter
  BY <1>1 DEF CreateEnter
<1>2. CASE CreatePop
  <2> DEFINE q == [pc EXCEPT !.create = "idle"]
  <2>1. q \in Places
    BY DEF Places, CtlPC, CreatePC, SessionPC, TimerPC
  <2>2. pc' \in {q, SignalNotFull(q)}
    BY <1>2 DEF CreatePop
  <2>3. QED
    BY <1>2, <2>1, <2>2, SignalNotFullEffect DEF CreatePop
<1>3. CASE CreateEmpty
  BY <1>3 DEF CreateEmpty
<1>4. CASE CreateWoken
  BY <1>4 DEF CreateWoken
<1>5. CASE CreateFailed
  BY <1>5 DEF CreateFailed
<1>6. CASE CreateRequestStop
  BY <1>6 DEF CreateRequestStop
<1>7. CASE CreateSetStop
  <2> DEFINE q == [pc EXCEPT !.create = "pushPartial"]
  <2>1. q \in Places
    BY DEF Places, CtlPC, CreatePC, SessionPC, TimerPC
  <2>2. pc' \in {q, SignalNotFull(q)}
    BY <1>7 DEF CreateSetStop
  <2>3. QED
    BY <1>7, <2>1, <2>2, SignalNotFullEffect DEF CreateSetStop
<1>8. CASE CreatePushPartial
  <2>1. currBlockOffset < BlockSize
    OBVIOUS
  <2>2. /\ \/ pc' = [pc EXCEPT !.create = "pushEos"]
           \/ pc' = [pc EXCEPT !.create = "pushQueued"]
        /\ currBlock' = FALSE
        /\ pc.create = "pushPartial" /\ flowTimerMutex = "none"
        /\ UNCHANGED <<currBlockOffset, chunk, flowTimerMutex, threadStopRequested>>
    BY <1>8, <2>1 DEF CreatePushPartial, MutexFree
  <2>3. ControlTypes'
    BY <2>2
  <2>4. PartialBlock'
    BY <2>2
  <2>5. MutexOwner'
    BY <2>2
  <2>6. Quiet'
    BY <2>2
  <2>7. Lifetimes'
    BY <2>2
  <2>8. QED
    BY <2>3, <2>4, <2>5, <2>6, <2>7
<1>9. CASE CreatePushQueued
  BY <1>9 DEF CreatePushQueued, FlushQueue
<1>10. CASE CreatePushEos
  BY <1>10 DEF CreatePushEos
<1>11. QED
  BY <1>1, <1>2, <1>3, <1>4, <1>5, <1>6, <1>7, <1>8, <1>9, <1>10 DEF Create

\* start() keeps Control: the new threads find everything at rest.
LEMMA ControlStart == Control /\ Start => Control'
<1> SUFFICES ASSUME Control, Start PROVE Control'
  OBVIOUS
<1> USE DEF Control, ControlTypes, PartialBlock, MutexOwner, Quiet, Lifetimes,
            Settled, SessionHolds, TimerHolds, flowVars, blockVars, dataVars
<1> USE BlockSizeAssumption, ContentAssumption
<1> USE DEF Places, CtlPC, CreatePC, SessionPC, TimerPC
<1>1. CASE StartTimer
  BY <1>1 DEF StartTimer
<1>2. CASE StartSession
  BY <1>2 DEF StartSession
<1>3. CASE StartReturns
  <2>1. ControlTypes' /\ PartialBlock'
    BY <1>3 DEF StartReturns
  <2>2. MutexOwner' /\ Lifetimes'
    BY <1>3 DEF StartReturns
  <2>3. Quiet'
    BY <1>3 DEF StartReturns
  <2>4. QED
    BY <2>1, <2>2, <2>3
<1>4. QED
  BY <1>1, <1>2, <1>3 DEF Start

\* stop() keeps Control: it returns to null only after the session thread is done.
LEMMA ControlStop == Control /\ Stop => Control'
<1> SUFFICES ASSUME Control, Stop PROVE Control'
  OBVIOUS
<1> USE DEF Control, ControlTypes, PartialBlock, MutexOwner, Quiet, Lifetimes,
            Settled, SessionHolds, TimerHolds, flowVars, blockVars, dataVars
<1> USE BlockSizeAssumption, ContentAssumption
<1> USE DEF Places, CtlPC, CreatePC, SessionPC, TimerPC
<1>1. CASE StopRequest
  BY <1>1 DEF StopRequest
<1>2. CASE StopSignal
  <2> DEFINE q == [pc EXCEPT !.ctl = "joining"]
  <2>1. q \in Places
    OBVIOUS
  <2>2. pc' \in {q, SignalNotFull(q)}
    BY <1>2 DEF StopSignal
  <2>3. QED
    BY <1>2, <2>1, <2>2, SignalNotFullEffect DEF StopSignal
<1>3. CASE StopJoin
  <2>1. ControlTypes'
    BY <1>3 DEF StopJoin, FlushQueue
  <2>2. PartialBlock'
    BY <1>3 DEF StopJoin, FlushQueue
  <2>3. MutexOwner'
    BY <1>3 DEF StopJoin, FlushQueue
  <2>4. Quiet'
    BY <1>3 DEF StopJoin, FlushQueue
  <2>5. Lifetimes'
    BY <1>3 DEF StopJoin, FlushQueue
  <2>6. QED
    BY <2>1, <2>2, <2>3, <2>4, <2>5
<1>4. QED
  BY <1>1, <1>2, <1>3 DEF Stop

\* unlock(), unlock_stop() and a flushing seek keep Control.
LEMMA ControlFlush == Control /\ (Unlock \/ Flushed \/ UnlockStop \/ Resume) => Control'
<1> SUFFICES ASSUME Control, (Unlock \/ Flushed \/ UnlockStop \/ Resume) PROVE Control'
  OBVIOUS
<1> USE DEF Control, ControlTypes, PartialBlock, MutexOwner, Quiet, Lifetimes,
            Settled, SessionHolds, TimerHolds, flowVars, blockVars, dataVars
<1> USE BlockSizeAssumption, ContentAssumption
<1> USE DEF Places, CtlPC, CreatePC, SessionPC, TimerPC
<1>1. CASE Unlock
  BY <1>1 DEF Unlock
<1>2. CASE Flushed
  BY <1>2 DEF Flushed
<1>3. CASE UnlockStop
  <2>1. ControlTypes'
    BY <1>3 DEF UnlockStop
  <2>2. PartialBlock'
    BY <1>3 DEF UnlockStop
  <2>3. MutexOwner'
    BY <1>3 DEF UnlockStop
  <2>4. Quiet'
    BY <1>3 DEF UnlockStop
  <2>5. Lifetimes'
    BY <1>3 DEF UnlockStop
  <2>6. QED
    BY <2>1, <2>2, <2>3, <2>4, <2>5
<1>4. CASE Resume
  <2>1. ControlTypes'
    BY <1>4 DEF Resume
  <2>2. PartialBlock'
    BY <1>4 DEF Resume
  <2>3. MutexOwner'
    BY <1>4 DEF Resume
  <2>4. Quiet'
    BY <1>4 DEF Resume
  <2>5. Lifetimes'
    BY <1>4 DEF Resume
  <2>6. QED
    BY <2>1, <2>2, <2>3, <2>4, <2>5
<1>5. QED
  BY <1>1, <1>2, <1>3, <1>4

\* buffer_ready() keeps Control: its caller holds flowTimerMutex throughout and
\* lets it go only when nothing is left to copy.
LEMMA ControlBufferReady ==
  ASSUME Control, NEW t \in {"session", "timer"}, BufferReady(t) PROVE Control'
<1> USE DEF Control, ControlTypes, PartialBlock, MutexOwner, Quiet, Lifetimes,
            Settled, SessionHolds, TimerHolds, flowVars, blockVars, dataVars
<1> USE BlockSizeAssumption, ContentAssumption
<1> USE DEF Places, CtlPC, CreatePC, SessionPC, TimerPC
<1>1. CASE Enqueue(t)
  <2> DEFINE next == IF Copying(t) THEN "fill" ELSE IF t = "session" THEN "perform"
                     ELSE "loop"
             q == [pc EXCEPT ![t] = next]
  <2>1. /\ q \in Places /\ q.ctl = pc.ctl /\ q.create = pc.create
        /\ q.session = IF t = "session" THEN next ELSE pc.session
        /\ q.timer = IF t = "timer" THEN next ELSE pc.timer
    BY DEF Copying
  <2>2. /\ pc' \in {q, SignalNotEmpty(q)} /\ pc[t] = "enqueue"
        /\ flowTimerMutex' = IF Copying(t) THEN flowTimerMutex ELSE "none"
        /\ UNCHANGED <<currBlock, currBlockOffset, chunk, threadStopRequested>>
    BY <1>1 DEF Enqueue
  <2>3. /\ pc' \in Places /\ pc'.ctl = pc.ctl /\ pc'.session = q.session
        /\ pc'.timer = q.timer
        /\ \/ pc'.create = pc.create
           \/ pc.create = "waitNotEmpty" /\ pc'.create = "wokenNotEmpty"
    <3> HIDE DEF q, Places
    <3>1. CASE pc' = q
      BY <2>1, <3>1
    <3>2. CASE pc' = SignalNotEmpty(q)
      BY <2>1, <3>2, SignalNotEmptyEffect
    <3>3. QED
      BY <2>2, <3>1, <3>2
  <2> HIDE DEF q
  <2>4. ControlTypes'
    BY <2>1, <2>2, <2>3 DEF Copying
  <2>5. PartialBlock'
    BY <2>1, <2>2, <2>3 DEF Copying
  <2>6. MutexOwner'
    BY <2>1, <2>2, <2>3 DEF Copying
  <2>7. Quiet'
    BY <2>1, <2>2, <2>3 DEF Copying
  <2>8. Lifetimes'
    BY <2>1, <2>2, <2>3 DEF Copying
  <2>9. QED
    BY <2>4, <2>5, <2>6, <2>7, <2>8
<1>2. CASE EnqueueWait(t)
  BY <1>2 DEF EnqueueWait
<1>3. CASE EnqueueLocked(t)
  BY <1>3 DEF EnqueueLocked
<1>4. CASE EnqueueFails(t)
  BY <1>4 DEF EnqueueFails
<1>5. CASE EnqueueWoken(t)
  BY <1>5 DEF EnqueueWoken
<1>6. QED
  BY <1>1, <1>2, <1>3, <1>4, <1>5 DEF BufferReady

\* The flow timer's steps keep Control.
LEMMA ControlTimer == Control /\ Timer => Control'
<1> SUFFICES ASSUME Control, Timer PROVE Control'
  OBVIOUS
<1> USE DEF Control, ControlTypes, PartialBlock, MutexOwner, Quiet, Lifetimes,
            Settled, SessionHolds, TimerHolds, flowVars, blockVars, dataVars
<1> USE BlockSizeAssumption, ContentAssumption
<1> USE DEF Places, CtlPC, CreatePC, SessionPC, TimerPC
<1>1. CASE TimerBegin
  BY <1>1 DEF TimerBegin, MutexFree
<1>2. CASE TimerWoken
  BY <1>2 DEF TimerWoken, MutexFree
<1>3. CASE TimerLoop
  BY <1>3 DEF TimerLoop
<1>4. CASE TimerExpires
  BY <1>4 DEF TimerExpires
<1>5. CASE TimerFlush
  <2>1. ControlTypes'
    BY <1>5 DEF TimerFlush, MutexFree
  <2>2. PartialBlock'
    BY <1>5 DEF TimerFlush, MutexFree
  <2>3. MutexOwner'
    BY <1>5 DEF TimerFlush, MutexFree
  <2>4. Quiet'
    BY <1>5 DEF TimerFlush, MutexFree
  <2>5. Lifetimes'
    BY <1>5 DEF TimerFlush, MutexFree
  <2>6. QED
    BY <2>1, <2>2, <2>3, <2>4, <2>5
<1>6. CASE BufferReady("timer")
  BY <1>6, ControlBufferReady
<1>7. QED
  BY <1>1, <1>2, <1>3, <1>4, <1>5, <1>6 DEF Timer

\* The session thread's steps keep Control.
LEMMA ControlSession == Control /\ Session => Control'
<1> SUFFICES ASSUME Control, Session PROVE Control'
  OBVIOUS
<1> USE DEF Control, ControlTypes, PartialBlock, MutexOwner, Quiet, Lifetimes,
            Settled, SessionHolds, TimerHolds, flowVars, blockVars, dataVars
<1> USE BlockSizeAssumption, ContentAssumption
<1> USE DEF Places, CtlPC, CreatePC, SessionPC, TimerPC
<1>1. CASE SessionBegin
  BY <1>1 DEF SessionBegin
<1>2. CASE SessionProgress
  BY <1>2 DEF SessionProgress
<1>3. CASE \E r \in Results : SessionResult(r)
  BY <1>3 DEF SessionResult
<1>4. CASE SessionTrailer
  BY <1>4 DEF SessionTrailer
<1>5. CASE SessionTrailerWake
  <2> DEFINE q == [pc EXCEPT !.session = "perform"]
  <2>1. q \in Places
    OBVIOUS
  <2>2. pc' \in {q, SignalNotEmpty(q)}
    BY <1>5 DEF SessionTrailerWake
  <2>3. QED
    BY <1>5, <2>1, <2>2, SignalNotEmptyEffect DEF SessionTrailerWake
<1>6. CASE \E n \in 1..MaxChunk : SessionReceive(n)
  <2> DEFINE q == [pc EXCEPT !.session = "fill"]
  <2>1. q \in Places
    OBVIOUS
  <2>2. PICK n \in 1..MaxChunk : SessionReceive(n)
    BY <1>6
  <2>3. CASE threadStarted /\ ~threadStopRequested
    <3>1. /\ pc' \in {q, SignalTimer(q)}
          /\ flowTimerMutex' = "session" /\ chunk' = n /\ flowTimerMutex = "none"
          /\ UNCHANGED <<blockVars, threadStopRequested>>
      BY <2>2, <2>3 DEF SessionReceive, MutexFree
    <3>2. /\ pc' \in Places /\ pc'.ctl = pc.ctl /\ pc'.create = pc.create
          /\ pc'.session = "fill" /\ pc.session = "perform"
          /\ \/ pc'.timer = pc.timer
             \/ pc.timer \in {"waitFirst", "timedWait"} /\ pc'.timer = "woken"
      <4>1. /\ q.ctl = pc.ctl /\ q.create = pc.create /\ q.session = "fill"
            /\ q.timer = pc.timer /\ pc.session = "perform"
        BY <2>2 DEF SessionReceive
      <4> HIDE DEF q, Places
      <4>2. CASE pc' = q
        BY <2>1, <4>1, <4>2
      <4>3. CASE pc' = SignalTimer(q)
        BY <2>1, <4>1, <4>3, SignalTimerEffect
      <4>4. QED
        BY <3>1, <4>2, <4>3
    <3>3. ControlTypes'
      BY <2>3, <3>1, <3>2
    <3>4. PartialBlock'
      BY <2>3, <3>1, <3>2
    <3>5. MutexOwner'
      BY <2>3, <3>1, <3>2
    <3>6. Quiet'
      BY <2>3, <3>1, <3>2
    <3>7. Lifetimes'
      BY <2>3, <3>1, <3>2
    <3>8. QED
      BY <3>3, <3>4, <3>5, <3>6, <3>7
  <2>4. CASE ~(threadStarted /\ ~threadStopRequested)
    BY <2>2, <2>4 DEF SessionReceive
  <2>5. QED
    BY <2>3, <2>4
<1>7. CASE SessionFill
  <2>1. ControlTypes'
    <3> DEFINE p == [pc EXCEPT !.session = "enqueue"]
               q == [pc EXCEPT !.session = "perform"]
    <3>1. p \in Places /\ q \in Places
      OBVIOUS
    <3>2. pc' = q \/ pc' = SignalTimer(p)
      BY <1>7 DEF SessionFill
    <3>3. /\ flowTimerMutex' \in {"none", "session", "timer"}
          /\ currBlock' \in BOOLEAN /\ threadStopRequested' \in BOOLEAN
      BY <1>7 DEF SessionFill
    <3> HIDE DEF p, q
    <3>4. pc' \in Places
      BY <3>1, <3>2, SignalTimerEffect
    <3>5. QED
      BY <3>3, <3>4
  <2>2. PartialBlock'
    BY <1>7 DEF SessionFill, Avail, Offset, SignalTimer
  <2>3. MutexOwner'
    BY <1>7 DEF SessionFill, Avail, Offset, SignalTimer
  <2>4. Quiet'
    BY <1>7 DEF SessionFill, Avail, Offset, SignalTimer
  <2>5. Lifetimes'
    BY <1>7 DEF SessionFill, Avail, Offset, SignalTimer
  <2>6. QED
    BY <2>1, <2>2, <2>3, <2>4, <2>5
<1>8. CASE SessionReject
  BY <1>8 DEF SessionReject
<1>9. CASE SessionEnded
  BY <1>9 DEF SessionEnded
<1>10. CASE SessionMark
  BY <1>10 DEF SessionMark
<1>11. CASE SessionFlagStop
  BY <1>11 DEF SessionFlagStop
<1>12. CASE SessionPause
  BY <1>12 DEF SessionPause
<1>13. CASE SessionAwaitTimer
  <2> DEFINE q == [pc EXCEPT !.session = "joinTimer"]
  <2>1. q \in Places
    OBVIOUS
  <2>2. pc' \in {q, SignalTimer(q)}
    BY <1>13 DEF SessionAwaitTimer
  <2>3. QED
    BY <1>13, <2>1, <2>2, SignalTimerEffect DEF SessionAwaitTimer
<1>14. CASE SessionJoinTimer
  BY <1>14 DEF SessionJoinTimer
<1>15. CASE SessionWake
  <2> DEFINE q == [pc EXCEPT !.session = "done"]
  <2>1. q \in Places
    OBVIOUS
  <2>2. pc' \in {q, SignalNotEmpty(q)}
    BY <1>15 DEF SessionWake
  <2>3. QED
    BY <1>15, <2>1, <2>2, SignalNotEmptyEffect DEF SessionWake
<1>16. CASE BufferReady("session")
  BY <1>16, ControlBufferReady
<1>17. QED
  BY <1>1, <1>2, <1>3, <1>4, <1>5, <1>6, <1>7, <1>8, <1>9, <1>10, <1>11,
     <1>12, <1>13, <1>14, <1>15, <1>16 DEF Session, SessionEnds

\* Every step keeps Control.
LEMMA ControlNext == Control /\ [Next]_vars => Control'
<1> SUFFICES ASSUME Control, [Next]_vars PROVE Control'
  OBVIOUS
<1>1. CASE SpuriousWakeup
  BY <1>1, SignalNotEmptyEffect, SignalNotFullEffect, SignalTimerEffect
     DEF SpuriousWakeup, Control, ControlTypes, PartialBlock, MutexOwner, Quiet,
         Lifetimes, Settled, SessionHolds, TimerHolds, flowVars, blockVars, dataVars
<1>2. CASE UNCHANGED vars
  BY <1>2 DEF vars, Control, ControlTypes, PartialBlock, MutexOwner, Quiet,
              Lifetimes, Settled, SessionHolds, TimerHolds, flowVars, blockVars,
              dataVars
<1>3. QED
  BY <1>1, <1>2, ControlStart, ControlFlush, ControlStop, ControlCreate,
     ControlSession, ControlTimer DEF Next, Terminated

\* Who holds flowTimerMutex, whether a partial block exists and which threads are
\* alive fit together: data_received(), create() and the flow timer exclude each
\* other although the mutex is held across the waits of buffer_ready().
THEOREM ControlInvariant == Spec => []Control
  BY ControlInit, ControlNext, PTL DEF Spec

\* A session that is over has joined the flow timer, and so has an element in null.
TimerJoined ==
  pc.ctl = "null" \/ pc.session = "done" => pc.timer = "none" \/ "curl_init" \in Faults

\* The flow timer begins only in start(), and is joined before the session ends.
LEMMA TimerJoinedNext ==
  ASSUME Control, TimerJoined, [Next]_vars
  PROVE  TimerJoined'
<1> USE DEF TimerJoined, Control, ControlTypes, Lifetimes
<1>1. ASSUME pc'.ctl # "null" \/ pc.ctl = "null",
             pc'.session # "done" \/ pc.session \in {"done", "wake"},
             pc'.timer = "none" \/ pc.timer # "none"
      PROVE  TimerJoined'
  BY <1>1
<1>2. CASE Start
  BY <1>2 DEF Start, StartTimer, StartSession, StartReturns, Places
<1>3. CASE Unlock \/ Flushed \/ UnlockStop \/ Resume
  BY <1>1, <1>3 DEF Unlock, Flushed, UnlockStop, Resume, Places
<1>4. CASE Stop
  <2>1. CASE StopSignal
    <3>1. /\ pc'.ctl = "joining" /\ (pc'.timer # "none" => pc.timer # "none")
          /\ (pc'.session = "done" => pc.session = "done")
      BY <2>1 DEF SignalNotFull, StopSignal, Places
    <3>2. QED
      BY <1>1, <3>1
  <2>2. QED
    BY <1>1, <1>4, <2>1 DEF Stop, StopRequest, StopJoin, Places
<1>5. CASE Create
  <2>1. CASE CreatePop
    <3>1. /\ pc'.ctl = pc.ctl /\ (pc'.timer # "none" => pc.timer # "none")
          /\ (pc'.session = "done" => pc.session = "done")
      BY <2>1 DEF SignalNotFull, CreatePop, Places
    <3>2. QED
      BY <1>1, <3>1
  <2>2. CASE CreateSetStop
    <3>1. /\ pc'.ctl = pc.ctl /\ (pc'.timer # "none" => pc.timer # "none")
          /\ (pc'.session = "done" => pc.session = "done")
      BY <2>2 DEF SignalNotFull, CreateSetStop, Places
    <3>2. QED
      BY <1>1, <3>1
  <2>3. QED
    BY <1>1, <1>5, <2>1, <2>2 DEF Create, CreateEnter, CreateEmpty, CreateWoken,
       CreateFailed, CreateRequestStop, CreatePushPartial, CreatePushQueued, CreatePushEos,
       Places
<1>6. CASE Timer
  <2>1. CASE BufferReady("timer")
    <3>1. pc.timer # "none" /\ pc'.ctl = pc.ctl /\ pc'.session = pc.session
      BY <2>1 DEF SignalNotEmpty, BufferReady, Enqueue, EnqueueWait, EnqueueLocked,
         EnqueueFails, EnqueueWoken, Places, TimerPC
    <3>2. QED
      BY <1>1, <3>1
  <2>2. QED
    BY <1>1, <1>6, <2>1 DEF Timer, TimerBegin, TimerWoken, TimerLoop, TimerExpires,
       TimerFlush, Places
<1>7. CASE Session
  <2>1. CASE BufferReady("session")
    <3>1. pc'.ctl = pc.ctl /\ pc'.timer = pc.timer /\ pc'.session # "done"
      BY <2>1 DEF SignalNotEmpty, BufferReady, Enqueue, EnqueueWait, EnqueueLocked,
         EnqueueFails, EnqueueWoken, Places, SessionPC
    <3>2. QED
      BY <1>1, <3>1
  <2>2. CASE SessionBegin \/ SessionJoinTimer
    BY <2>2 DEF SessionBegin, SessionJoinTimer, Places
  <2>3. CASE SessionProgress \/ (\E r \in Results : SessionResult(r)) \/ SessionTrailer
             \/ SessionReject \/ SessionEnded \/ SessionMark \/ SessionFlagStop \/ SessionPause
    BY <1>1, <2>3 DEF SessionProgress, SessionResult, SessionTrailer, SessionReject,
       SessionEnded, SessionMark, SessionFlagStop, SessionPause, Places
  <2>4. CASE SessionTrailerWake \/ SessionWake
    <3>1. /\ pc'.ctl = pc.ctl /\ pc'.timer = pc.timer
          /\ pc'.session # "done" \/ pc.session = "wake"
      BY <2>4 DEF SignalNotEmpty, SessionTrailerWake, SessionWake, Places
    <3>2. QED
      BY <1>1, <3>1
  <2>5. CASE (\E n \in 1..MaxChunk : SessionReceive(n)) \/ SessionFill \/ SessionAwaitTimer
    <3>1. /\ pc'.ctl = pc.ctl /\ pc'.session # "done"
          /\ pc'.timer = pc.timer \/ pc.timer \in {"waitFirst", "timedWait"}
      BY <2>5 DEF SignalTimer, SessionReceive, SessionFill, SessionAwaitTimer,
         Places
    <3>2. QED
      BY <1>1, <3>1
  <2>6. QED
    BY <1>7, <2>1, <2>2, <2>3, <2>4, <2>5 DEF Session, SessionEnds
<1>8. CASE SpuriousWakeup
  <2>1. /\ pc'.ctl = pc.ctl /\ (pc'.timer # "none" => pc.timer # "none")
        /\ (pc'.session = "done" => pc.session = "done")
    BY <1>8 DEF SpuriousWakeup, SignalNotEmpty, SignalNotFull, SignalTimer, Places
  <2>2. QED
    BY <1>1, <2>1
<1>9. CASE Terminated \/ UNCHANGED vars
  BY <1>9 DEF Terminated, vars
<1>10. QED
  BY <1>2, <1>3, <1>4, <1>5, <1>6, <1>7, <1>8, <1>9 DEF Next

\* After stop() no thread of the element is left to run into the reset state, unless
\* curl_easy_init() failed (gst_http_src_session_thread() joins the flow timer,
\* gst_http_src_stop() joins the session).
THEOREM StopJoinsThreadsTheorem == Spec => []StopJoinsThreads
<1>1. Init => TimerJoined
  BY DEF Init, TimerJoined
<1>2. TimerJoined => StopJoinsThreads
  BY DEF TimerJoined, StopJoinsThreads
<1>3. QED
  BY <1>1, <1>2, TimerJoinedNext, ControlInvariant, PTL DEF Spec

-----------------------------------------------------------------------------
(* The data layer.                                                         *)

\* The elements are numbered through: each begins where the one before ends.
Linked ==
  /\ queue \in Seq(Element) /\ queuedByteCount \in Nat
  /\ \A i \in 1 .. Len(queue) - 1 : queue[i + 1].at = queue[i].at + queue[i].size
  /\ \A i \in 1 .. Len(queue), j \in 1 .. Len(queue) :
       i < j => queue[i].at + queue[i].size <= queue[j].at

\* Only the holder of flowTimerMutex has a block in its hands.
BlockOwner ==
  /\ block \in 0..BlockSize
  /\ block # 0 => flowTimerMutex # "none"
  /\ pc.session = "fill" => block = 0

\* Before a session receives anything, and after curl_easy_init() has failed.
NoTransfer ==
  \/ pc.session \in {"none", "begin"}
  \/ pc.session = "done" /\ pc.timer # "none"

Totals ==
  /\ stored \in Nat /\ readPosition \in Nat
  /\ Conservation
  /\ NoTransfer => currBlockOffset = 0 /\ block = 0

Data == Linked /\ QueueAccounting /\ BlockOwner /\ Totals

\* The full mark is a number of bytes.
LEMMA FullMarkType == FullMark \in Nat
  BY BlockSizeAssumption, QueueFactorAssumption DEF FullMark

\* A new element satisfies Data.
LEMMA DataInit == Init => Data
  BY BlockSizeAssumption, FullMarkType
     DEF Init, Data, Linked, QueueAccounting, BlockOwner, Totals, Conservation, Offset

\* What the data layer speaks of, besides the threads' places.
dataState == <<queueVars, blockVars, block, flowTimerMutex, readPosition>>

\* Data depends on the queue, the blocks and the mutex only.
LEMMA DataStable ==
  ASSUME Data, UNCHANGED dataState,
         pc'.session = "fill" => pc.session = "fill",
         NoTransfer' => NoTransfer
  PROVE  Data'
<1> USE DEF Data, dataState, queueVars, blockVars
<1>1. Linked' /\ QueueAccounting'
  BY DEF Linked, QueueAccounting
<1>2. BlockOwner'
  BY DEF BlockOwner
<1>3. Totals'
  BY DEF Totals, Conservation, Offset
<1>4. QED
  BY <1>1, <1>2, <1>3

\* The elements of a linked queue are queue elements.
LEMMA LinkedElements ==
  ASSUME Linked, NEW i \in 1 .. Len(queue)
  PROVE  /\ queue[i].from \in Nat /\ queue[i].at \in Nat
         /\ queue[i].size \in 0..BlockSize
<1>1. queue[i] \in Element
  BY DEF Linked
<1>2. QED
  BY <1>1 DEF Element

\* Taking the first block keeps the queue linked and its bytes counted.
LEMMA QueueAfterPop ==
  ASSUME Linked, QueueAccounting, queue # <<>>,
         queue' = Tail(queue),
         queuedByteCount' = queuedByteCount - Head(queue).size
  PROVE  Linked' /\ QueueAccounting' /\ Head(queue) \in Element
<1> USE DEF Linked
<1>1. /\ Head(queue) = queue[1] /\ Head(queue) \in Element /\ Len(queue) \in Nat \ {0}
      /\ queue' \in Seq(Element) /\ Len(queue') = Len(queue) - 1
      /\ \A i \in 1 .. Len(queue') : queue'[i] = queue[i + 1]
  OBVIOUS
<1>2. \A i \in 1 .. Len(queue) : queue[i].at \in Nat /\ queue[i].size \in 0..BlockSize
  BY LinkedElements
<1>3. CASE Len(queue) = 1
  <2>1. queue' = <<>>
    BY <1>1, <1>3
  <2>2. queuedByteCount' = 0
    BY <1>1, <1>2, <1>3 DEF QueueAccounting
  <2>3. QED
    BY <1>1, <2>1, <2>2, FullMarkType, BlockSizeAssumption DEF QueueAccounting
<1>4. CASE Len(queue) > 1
  <2>1. queue' # <<>>
    <3>1. Len(queue') # 0
      BY <1>1, <1>4
    <3>2. QED
      BY <3>1
  <2>2. /\ queue'[Len(queue')] = queue[Len(queue)]
        /\ queue'[1] = queue[2]
        /\ queue[2].at = queue[1].at + queue[1].size
    BY <1>1, <1>4
  <2>3. queue[2].at <= queue[Len(queue)].at + queue[Len(queue)].size
    <3>1. CASE Len(queue) = 2
      BY <3>1, <1>2, <1>4
    <3>2. CASE Len(queue) > 2
      BY <3>2, <1>1, <1>2, <1>4
    <3>3. QED
      BY <1>1, <1>4, <3>1, <3>2
  <2>4. queuedByteCount' = queue[Len(queue)].at + queue[Len(queue)].size - queue[2].at
    BY <1>1, <1>2, <1>4, <2>2, SMTT(60) DEF QueueAccounting
  <2>5. queuedByteCount' \in Nat /\ queuedByteCount' <= queuedByteCount
    BY <1>1, <1>2, <1>4, <2>3, <2>4, BlockSizeAssumption, SMTT(60)
  <2>6. QueueAccounting'
    BY <1>1, <1>2, <2>1, <2>2, <2>4, <2>5, FullMarkType, BlockSizeAssumption
       DEF QueueAccounting
  <2>7. Linked'
    BY <1>1, <1>4, <2>5
  <2>8. QED
    BY <1>1, <2>6, <2>7
<1>5. QED
  BY <1>1, <1>3, <1>4

\* Appending a block keeps the queue linked and its bytes counted.
LEMMA QueueAfterAppend ==
  ASSUME Linked, QueueAccounting, ~Full, NEW e \in Element,
         e.at = IF queue = <<>> THEN 0
                ELSE queue[Len(queue)].at + queue[Len(queue)].size,
         queue' = Append(queue, e),
         queuedByteCount' = queuedByteCount + e.size
  PROVE  Linked' /\ QueueAccounting'
<1> USE DEF Linked
<1>1. /\ queue' \in Seq(Element) /\ Len(queue') = Len(queue) + 1 /\ Len(queue) \in Nat
      /\ queue' # <<>> /\ queue'[Len(queue')] = e
      /\ \A i \in 1 .. Len(queue) : queue'[i] = queue[i]
  OBVIOUS
<1>2. e.size \in 0..BlockSize /\ e.at \in Nat
  BY DEF Element
<1>3. \A i \in 1 .. Len(queue) : queue[i].at \in Nat /\ queue[i].size \in 0..BlockSize
  BY LinkedElements
<1>4. queuedByteCount' \in Nat /\ queuedByteCount' <= FullMark + BlockSize
  BY <1>2, FullMarkType, BlockSizeAssumption DEF Full
<1>5. CASE queue = <<>>
  <2>1. Len(queue) = 0 /\ queuedByteCount = 0 /\ queue'[1] = e
    BY <1>1, <1>5 DEF QueueAccounting
  <2>2. QueueAccounting'
    BY <1>1, <1>2, <1>4, <1>5, <2>1 DEF QueueAccounting
  <2>3. QED
    BY <1>1, <1>4, <2>1, <2>2
<1>6. CASE queue # <<>>
  <2>1. Len(queue) >= 1 /\ queue'[1] = queue[1]
    BY <1>1, <1>6
  <2>2. QueueAccounting'
    <3>1. queuedByteCount = queue[Len(queue)].at + queue[Len(queue)].size - queue[1].at
      BY <1>6 DEF QueueAccounting
    <3>2. e.at = queue[Len(queue)].at + queue[Len(queue)].size
      BY <1>6
    <3>3. queue[1].at \in Nat /\ queue[Len(queue)].at \in Nat
          /\ queue[Len(queue)].size \in Nat
      BY <1>1, <1>3, <2>1
    <3>4. queuedByteCount' = e.at + e.size - queue[1].at
      BY <1>2, <3>1, <3>2, <3>3
    <3>5. QED
      BY <1>1, <1>4, <2>1, <3>4 DEF QueueAccounting
  <2>3. \A i \in 1 .. Len(queue) : queue[i].at + queue[i].size <= e.at
    <3>1. TAKE i \in 1 .. Len(queue)
    <3>2. CASE i = Len(queue)
      BY <3>2, <1>6, <1>3
    <3>3. CASE i < Len(queue)
      BY <3>3, <1>1, <1>3, <1>6, <2>1, BlockSizeAssumption
    <3>4. QED
      BY <1>1, <3>2, <3>3
  <2>4. \A i \in 1 .. Len(queue') - 1 : queue'[i + 1].at = queue'[i].at + queue'[i].size
    <3>1. TAKE i \in 1 .. Len(queue') - 1
    <3>2. CASE i = Len(queue)
      BY <3>2, <1>1, <1>6, <2>1
    <3>3. CASE i < Len(queue)
      BY <3>3, <1>1
    <3>4. QED
      BY <1>1, <3>2, <3>3
  <2>5. \A i \in 1 .. Len(queue'), j \in 1 .. Len(queue') :
          i < j => queue'[i].at + queue'[i].size <= queue'[j].at
    <3> SUFFICES ASSUME NEW i \in 1 .. Len(queue'), NEW j \in 1 .. Len(queue'), i < j
                 PROVE  queue'[i].at + queue'[i].size <= queue'[j].at
      OBVIOUS
    <3>1. i \in 1 .. Len(queue) /\ queue'[i] = queue[i]
      BY <1>1
    <3>2. CASE j = Len(queue')
      BY <3>1, <3>2, <1>1, <2>3
    <3>3. CASE j # Len(queue')
      <4>1. j \in 1 .. Len(queue) /\ queue'[j] = queue[j]
        BY <1>1, <3>3
      <4>2. QED
        BY <3>1, <4>1
    <3>4. QED
      BY <3>2, <3>3
  <2>6. QED
    BY <1>1, <1>4, <2>2, <2>4, <2>5
<1>7. QED
  BY <1>5, <1>6

\* The actions that leave the data layer alone.
DataKept ==
  \/ Start \/ Unlock \/ Flushed \/ UnlockStop \/ Resume \/ StopRequest \/ StopSignal
  \/ CreateEnter \/ CreateEmpty \/ CreateWoken \/ CreateFailed
  \/ CreateRequestStop \/ CreateSetStop \/ CreatePushEos
  \/ SessionBegin \/ SessionProgress \/ SessionTrailer \/ SessionTrailerWake
  \/ SessionReject \/ SessionEnds \/ (\E r \in Results : SessionResult(r))
  \/ \E t \in {"session", "timer"} : EnqueueWait(t) \/ EnqueueLocked(t) \/ EnqueueWoken(t)
  \/ TimerBegin \/ TimerWoken \/ TimerLoop \/ TimerExpires
  \/ SpuriousWakeup \/ UNCHANGED vars

\* A step that leaves the data alone keeps Data, whatever it does to the threads.
LEMMA DataKeptStep == Control /\ Data /\ DataKept => Data'
<1> SUFFICES ASSUME Control, Data, DataKept PROVE Data'
  OBVIOUS
<1> USE DEF Control, ControlTypes, Lifetimes, NoTransfer, Places, dataState,
            flowVars, queueVars, blockVars, dataVars, outVars, restVars
<1>1. CASE StartTimer
  BY <1>1, DataStable DEF StartTimer
<1>2. CASE StartSession
  BY <1>2, DataStable DEF StartSession
<1>3. CASE StartReturns
  BY <1>3, DataStable DEF StartReturns
<1>4. CASE Unlock
  BY <1>4, DataStable DEF Unlock
<1>5. CASE Flushed
  BY <1>5, DataStable DEF Flushed
<1>6. CASE UnlockStop
  BY <1>6, DataStable DEF UnlockStop
<1>7. CASE Resume
  BY <1>7, DataStable DEF Resume
<1>8. CASE StopRequest
  BY <1>8, DataStable DEF StopRequest
<1>9. CASE StopSignal
  <2> DEFINE q == [pc EXCEPT !.ctl = "joining"]
  <2>1. q \in Places
    BY DEF CtlPC, CreatePC, SessionPC, TimerPC
  <2>2. pc' \in {q, SignalNotFull(q)}
    BY <1>9 DEF StopSignal
  <2>3. /\ pc'.session = q.session \/ pc'.session = "wokenNotFull"
        /\ pc'.timer = "none" <=> q.timer = "none"
    BY <2>1, <2>2, SignalNotFullEffect
  <2>4. QED
    BY <1>9, <2>3, DataStable DEF StopSignal
<1>10. CASE CreateEnter
  BY <1>10, DataStable DEF CreateEnter
<1>11. CASE CreateEmpty
  BY <1>11, DataStable DEF CreateEmpty
<1>12. CASE CreateWoken
  BY <1>12, DataStable DEF CreateWoken
<1>13. CASE CreateFailed
  BY <1>13, DataStable DEF CreateFailed
<1>14. CASE CreateRequestStop
  BY <1>14, DataStable DEF CreateRequestStop
<1>15. CASE CreateSetStop
  <2> DEFINE q == [pc EXCEPT !.create = "pushPartial"]
  <2>1. q \in Places
    BY DEF CtlPC, CreatePC, SessionPC, TimerPC
  <2>2. pc' \in {q, SignalNotFull(q)}
    BY <1>15 DEF CreateSetStop
  <2>3. /\ pc'.session = q.session \/ pc'.session = "wokenNotFull"
        /\ pc'.timer = "none" <=> q.timer = "none"
    BY <2>1, <2>2, SignalNotFullEffect
  <2>4. QED
    BY <1>15, <2>3, DataStable DEF CreateSetStop
<1>16. CASE CreatePushEos
  BY <1>16, DataStable DEF CreatePushEos
<1>17. CASE SessionBegin
  BY <1>17, DataStable DEF SessionBegin
<1>18. CASE SessionProgress
  BY <1>18, DataStable DEF SessionProgress
<1>19. CASE SessionTrailer
  BY <1>19, DataStable DEF SessionTrailer
<1>20. CASE SessionTrailerWake
  <2> DEFINE q == [pc EXCEPT !.session = "perform"]
  <2>1. q \in Places
    BY DEF CtlPC, CreatePC, SessionPC, TimerPC
  <2>2. pc' \in {q, SignalNotEmpty(q)}
    BY <1>20 DEF SessionTrailerWake
  <2>3. pc'.session = q.session /\ (pc'.timer = "none" <=> q.timer = "none")
    BY <2>1, <2>2, SignalNotEmptyEffect
  <2>4. QED
    BY <1>20, <2>3, DataStable DEF SessionTrailerWake
<1>21. CASE SessionReject
  BY <1>21, DataStable DEF SessionReject
<1>22. CASE SessionEnded
  BY <1>22, DataStable DEF SessionEnded
<1>23. CASE SessionMark
  BY <1>23, DataStable DEF SessionMark
<1>24. CASE SessionFlagStop
  BY <1>24, DataStable DEF SessionFlagStop
<1>25. CASE SessionPause
  BY <1>25, DataStable DEF SessionPause
<1>26. CASE SessionAwaitTimer
  <2> DEFINE q == [pc EXCEPT !.session = "joinTimer"]
  <2>1. q \in Places
    BY DEF CtlPC, CreatePC, SessionPC, TimerPC
  <2>2. pc' \in {q, SignalTimer(q)}
    BY <1>26 DEF SessionAwaitTimer
  <2>3. pc'.session = q.session /\ (pc'.timer = "none" <=> q.timer = "none")
    BY <2>1, <2>2, SignalTimerEffect
  <2>4. QED
    BY <1>26, <2>3, DataStable DEF SessionAwaitTimer
<1>27. CASE SessionJoinTimer
  BY <1>27, DataStable DEF SessionJoinTimer
<1>28. CASE SessionWake
  <2> DEFINE q == [pc EXCEPT !.session = "done"]
  <2>1. q \in Places
    BY DEF CtlPC, CreatePC, SessionPC, TimerPC
  <2>2. pc' \in {q, SignalNotEmpty(q)}
    BY <1>28 DEF SessionWake
  <2>3. pc'.session = q.session /\ (pc'.timer = "none" <=> q.timer = "none")
    BY <2>1, <2>2, SignalNotEmptyEffect
  <2>4. QED
    BY <1>28, <2>3, DataStable DEF SessionWake
<1>29. CASE \E r \in Results : SessionResult(r)
  BY <1>29, DataStable DEF SessionResult
<1>30. ASSUME NEW t \in {"session", "timer"},
            EnqueueWait(t) \/ EnqueueLocked(t) \/ EnqueueWoken(t)
       PROVE  Data'
  BY <1>30, DataStable DEF EnqueueWait, EnqueueLocked, EnqueueWoken
<1>31. CASE TimerBegin
  BY <1>31, DataStable DEF TimerBegin
<1>32. CASE TimerWoken
  BY <1>32, DataStable DEF TimerWoken
<1>33. CASE TimerLoop
  BY <1>33, DataStable DEF TimerLoop
<1>34. CASE TimerExpires
  BY <1>34, DataStable DEF TimerExpires
<1>35. CASE SpuriousWakeup
  BY <1>35, DataStable, SignalNotEmptyEffect, SignalNotFullEffect, SignalTimerEffect
     DEF SpuriousWakeup
<1>36. CASE UNCHANGED vars
  BY <1>36, DataStable DEF vars
<1>37. QED
  BY <1>1, <1>2, <1>3, <1>4, <1>5, <1>6, <1>7, <1>8, <1>9, <1>10, <1>11,
     <1>12, <1>13, <1>14, <1>15, <1>16, <1>17, <1>18, <1>19, <1>20, <1>21,
     <1>22, <1>23, <1>24, <1>25, <1>26, <1>27, <1>28, <1>29, <1>30, <1>31,
     <1>32, <1>33, <1>34, <1>35, <1>36 DEF DataKept, Start, SessionEnds

\* create() keeps Data: what it takes from the queue or from the partial block is
\* what it adds to m_readPosition.
LEMMA DataCreate ==
  Control /\ Data /\ (CreatePop \/ CreatePushPartial \/ CreatePushQueued) => Data'
<1> SUFFICES ASSUME Control, Data, CreatePop \/ CreatePushPartial \/ CreatePushQueued
             PROVE  Data'
  OBVIOUS
<1> USE DEF Control, ControlTypes, NoTransfer, Places, queueVars, blockVars, dataVars
<1> USE DEF Data
<1>1. CASE CreatePop
  <2> DEFINE q == [pc EXCEPT !.create = "idle"]
  <2>1. /\ queue # <<>> /\ queue' = Tail(queue)
        /\ queuedByteCount' = queuedByteCount - Head(queue).size
        /\ readPosition' = readPosition + Head(queue).size
        /\ pc' \in {q, SignalNotFull(q)}
        /\ UNCHANGED <<blockVars, dataVars, flowTimerMutex>>
    BY <1>1 DEF CreatePop, Push
  <2>2. Linked' /\ QueueAccounting' /\ Head(queue) \in Element
    BY <2>1, QueueAfterPop
  <2>3. q \in Places /\ q.session = pc.session /\ q.timer = pc.timer
    BY DEF CreatePC
  <2>4. /\ pc'.session = pc.session \/ pc'.session = "wokenNotFull"
        /\ pc'.timer = "none" <=> pc.timer = "none"
    BY <2>1, <2>3, SignalNotFullEffect
  <2>5. BlockOwner'
    BY <2>1, <2>4 DEF BlockOwner
  <2>6. Totals'
    <3>1. Head(queue).size \in Nat
      BY <2>2 DEF Element
    <3>2. Offset' = Offset /\ Offset \in Nat
      BY <2>1, BlockSizeAssumption DEF Offset, PartialBlock
    <3>3. stored' \in Nat /\ readPosition' \in Nat /\ (NoTransfer' => NoTransfer)
      BY <2>1, <2>4, <3>1 DEF Totals
    <3>4. Conservation'
      BY <2>1, <3>1, <3>2 DEF Totals, Conservation, Linked, BlockOwner
    <3>5. QED
      BY <2>1, <3>3, <3>4 DEF Totals
  <2>7. QED
    BY <2>2, <2>5, <2>6
<1>2. CASE CreatePushPartial
  <2>1. currBlockOffset < BlockSize
    BY BlockSizeAssumption DEF PartialBlock
  <2>2. /\ currBlock' = FALSE /\ flowTimerMutex = "none"
        /\ readPosition' = readPosition + Offset
        /\ pc'.session = pc.session /\ pc'.timer = pc.timer
        /\ UNCHANGED <<queueVars, currBlockOffset, stored, dataVars, flowTimerMutex>>
    <3>1. CASE currBlock
      BY <1>2, <2>1, <3>1 DEF CreatePushPartial, Push, Offset, MutexFree
    <3>2. CASE ~currBlock
      BY <1>2, <3>2 DEF CreatePushPartial, Offset, MutexFree, outVars, Totals
    <3>3. QED
      BY <3>1, <3>2
  <2>3. Linked' /\ QueueAccounting'
    BY <2>2 DEF Linked, QueueAccounting
  <2>4. BlockOwner'
    BY <2>2 DEF BlockOwner
  <2>5. Totals'
    <3>1. Offset \in Nat /\ Offset' = 0
      BY <2>2, BlockSizeAssumption DEF Offset, PartialBlock
    <3>2. stored' \in Nat /\ readPosition' \in Nat /\ (NoTransfer' <=> NoTransfer)
      BY <2>2, <3>1 DEF Totals
    <3>3. Conservation'
      BY <2>2, <3>1 DEF Totals, Conservation, Linked, BlockOwner
    <3>4. QED
      BY <2>2, <3>2, <3>3 DEF Totals
  <2>6. QED
    BY <2>3, <2>4, <2>5
<1>3. CASE CreatePushQueued
  <2>1. ~currBlock /\ flowTimerMutex = "none"
    BY <1>3 DEF CreatePushQueued, Quiet, Settled
  <2>2. /\ pc'.session = pc.session /\ pc'.timer = pc.timer
        /\ UNCHANGED <<currBlock, stored, dataVars, flowTimerMutex>>
    BY <1>3 DEF CreatePushQueued
  <2>3. BlockOwner'
    BY <2>2 DEF BlockOwner
  <2>4. CASE Len(queue) = 1
    <3>1. /\ queue # <<>> /\ queue' = <<>> /\ queuedByteCount' = 0 /\ currBlockOffset' = 0
          /\ readPosition' = readPosition + queue[1].size
      <4>1. queue # <<>> /\ Head(queue) = queue[1]
        <5>1. queue \in Seq(Element)
          BY DEF Linked
        <5>2. queue # <<>>
          BY <2>4
        <5>3. QED
          BY <5>1, <5>2
      <4>2. QED
        BY <1>3, <2>4, <4>1 DEF CreatePushQueued, LastBlockQueued, FlushQueue, Push
    <3>2. queuedByteCount = queue[1].size /\ queue[1].size \in Nat
      BY <2>4, <3>1, LinkedElements DEF QueueAccounting
    <3>3. Linked' /\ QueueAccounting'
      BY <3>1, FullMarkType, BlockSizeAssumption DEF Linked, QueueAccounting
    <3>4. Totals'
      BY <2>1, <2>2, <3>1, <3>2 DEF Totals, Conservation, Offset
    <3>5. QED
      BY <2>3, <3>3, <3>4
  <2>5. CASE Len(queue) # 1
    <3>1. UNCHANGED <<queueVars, currBlockOffset, readPosition>>
      BY <1>3, <2>5 DEF CreatePushQueued, LastBlockQueued, outVars
    <3>2. QED
      BY <2>2, <3>1, DataStable DEF dataState
  <2>6. QED
    BY <2>4, <2>5
<1>4. QED
  BY <1>1, <1>2, <1>3

\* The copy loop of data_received() keeps Data.
LEMMA DataReceive ==
  Control /\ Data /\ ((\E n \in 1..MaxChunk : SessionReceive(n)) \/ SessionFill) => Data'
<1> SUFFICES ASSUME Control, Data,
                    (\E n \in 1..MaxChunk : SessionReceive(n)) \/ SessionFill
             PROVE  Data'
  OBVIOUS
<1> USE DEF Control, ControlTypes, NoTransfer, Places, queueVars, blockVars, dataVars
<1> USE DEF Data
<1>1. ASSUME NEW n \in 1..MaxChunk, SessionReceive(n) PROVE Data'
  <2>1. /\ flowTimerMutex = "none" /\ pc'.session \in {"fill", "reject"}
        /\ UNCHANGED <<queueVars, blockVars, block, readPosition>>
    BY <1>1 DEF SessionReceive, MutexFree, SignalTimer, SessionPC, restVars, outVars
  <2>2. Linked' /\ QueueAccounting'
    BY <2>1 DEF Linked, QueueAccounting
  <2>3. block = 0
    BY <2>1 DEF BlockOwner
  <2>4. BlockOwner'
    BY <2>1, <2>3 DEF BlockOwner
  <2>5. Totals'
    BY <2>1 DEF Totals, Conservation, Offset
  <2>6. QED
    BY <2>2, <2>4, <2>5
<1>2. CASE SessionFill
  <2>1. /\ pc.session = "fill" /\ block = 0
        /\ chunk \in Nat /\ Offset \in 0 .. BlockSize - 1 /\ Avail = BlockSize - Offset
    BY <1>2, BlockSizeAssumption, ContentAssumption
       DEF SessionFill, BlockOwner, PartialBlock, Offset, Avail
  <2>2. Linked' /\ QueueAccounting' /\ UNCHANGED <<queueVars, readPosition>>
    BY <1>2 DEF SessionFill, Linked, QueueAccounting, restVars, outVars
  <2>3. CASE chunk < Avail
    <3>1. /\ currBlock' = TRUE /\ currBlockOffset' = Offset + chunk
          /\ stored' = stored + chunk /\ UNCHANGED block
          /\ pc'.session = "perform"
      BY <1>2, <2>3 DEF SessionFill
    <3>2. BlockOwner'
      BY <2>1, <3>1, BlockSizeAssumption DEF BlockOwner
    <3>3. Totals'
      BY <2>1, <2>2, <3>1, BlockSizeAssumption DEF Totals, Conservation, Offset, Linked
    <3>4. QED
      BY <2>2, <3>2, <3>3
  <2>4. CASE ~(chunk < Avail)
    <3>1. /\ currBlock' = FALSE /\ stored' = stored + Avail /\ block' = BlockSize
          /\ pc'.session = "enqueue" /\ UNCHANGED <<currBlockOffset, flowTimerMutex>>
      BY <1>2, <2>4 DEF SessionFill, SignalTimer
    <3>2. BlockOwner'
      BY <2>1, <3>1, BlockSizeAssumption DEF BlockOwner, MutexOwner, SessionHolds
    <3>3. Totals'
      BY <2>1, <2>2, <3>1, BlockSizeAssumption DEF Totals, Conservation, Offset, Linked
    <3>4. QED
      BY <2>2, <3>2, <3>3
  <2>5. QED
    BY <2>3, <2>4
<1>3. QED
  BY <1>1, <1>2

\* buffer_ready() keeps Data: the block is queued and counted, or freed.
LEMMA DataBufferReady ==
  ASSUME Control, Data, NEW t \in {"session", "timer"}, Enqueue(t) \/ EnqueueFails(t)
  PROVE  Data'
<1> USE DEF Control, ControlTypes, NoTransfer, Places, queueVars, blockVars, dataVars
<1> USE DEF Data
<1>1. pc[t] \in {"enqueue", "wokenNotFull"}
  BY DEF Enqueue, EnqueueFails
<1>2. flowTimerMutex = t /\ ~currBlock /\ Offset = 0 /\ Offset' = 0
  BY <1>1 DEF MutexOwner, SessionHolds, TimerHolds, Enqueue, EnqueueFails, Offset
<1>3. /\ stored = readPosition + queuedByteCount + block
      /\ queuedByteCount \in Nat /\ readPosition \in Nat
      /\ block \in 0..BlockSize /\ stored - block \in Nat
  BY <1>2, BlockSizeAssumption DEF Totals, Conservation, BlockOwner, Linked
<1>4. CASE Enqueue(t)
  <2> DEFINE e == [from |-> stored - block, size |-> block,
                   at |-> IF queue = <<>> THEN 0
                          ELSE queue[Len(queue)].at + queue[Len(queue)].size]
  <2>1. e \in Element
    <3>1. queue # <<>> => queue[Len(queue)].at \in Nat /\ queue[Len(queue)].size \in Nat
      <4>1. queue # <<>> => Len(queue) \in 1 .. Len(queue)
        BY DEF Linked
      <4>2. QED
        BY <4>1, LinkedElements, BlockSizeAssumption
    <3>2. QED
      BY <1>3, <3>1 DEF Element
  <2>2. /\ ~Full /\ queue' = Append(queue, e)
        /\ queuedByteCount' = queuedByteCount + block
        /\ block' = 0 /\ UNCHANGED <<blockVars, readPosition>>
    BY <1>4 DEF Enqueue, restVars, outVars
  <2>3. Linked' /\ QueueAccounting'
    <3> HIDE DEF Data
    <3>1. /\ e.size = block
          /\ e.at = IF queue = <<>> THEN 0
                    ELSE queue[Len(queue)].at + queue[Len(queue)].size
      OBVIOUS
    <3>2. Linked /\ QueueAccounting
      BY DEF Data
    <3> HIDE DEF e
    <3>3. QED
      BY <2>1, <2>2, <3>1, <3>2, QueueAfterAppend
  <2>4. BlockOwner'
    BY <2>2, BlockSizeAssumption DEF BlockOwner
  <2>5. NoTransfer' => currBlockOffset = 0
    <3>1. CASE t = "session"
      BY <1>4, <3>1 DEF Enqueue, Copying, SignalNotEmpty, SessionPC
    <3>2. CASE t = "timer"
      BY <1>4, <3>2 DEF Enqueue, Copying, SignalNotEmpty, Totals
    <3>3. QED
      BY <3>1, <3>2
  <2>6. Totals'
    BY <1>2, <1>3, <2>2, <2>5 DEF Totals, Conservation
  <2>7. QED
    BY <2>3, <2>4, <2>6
<1>5. CASE EnqueueFails(t)
  <2>1. /\ stored' = stored - block /\ block' = 0
        /\ UNCHANGED <<queueVars, currBlockOffset, readPosition>>
    BY <1>5 DEF EnqueueFails, restVars, outVars
  <2>2. Linked' /\ QueueAccounting'
    BY <2>1 DEF Linked, QueueAccounting
  <2>3. BlockOwner'
    BY <2>1, BlockSizeAssumption DEF BlockOwner
  <2>4. NoTransfer' => currBlockOffset = 0
    <3>1. CASE t = "session"
      BY <1>5, <3>1 DEF EnqueueFails
    <3>2. CASE t = "timer"
      BY <1>5, <3>2 DEF EnqueueFails, Totals
    <3>3. QED
      BY <3>1, <3>2
  <2>5. Totals'
    BY <1>2, <1>3, <2>1, <2>4 DEF Totals, Conservation
  <2>6. QED
    BY <2>2, <2>3, <2>5
<1>6. QED
  BY <1>4, <1>5

\* The flow timer's flush keeps Data: the partial block becomes a block to queue.
LEMMA DataTimerFlush == Control /\ Data /\ TimerFlush => Data'
<1> SUFFICES ASSUME Control, Data, TimerFlush PROVE Data'
  OBVIOUS
<1> USE DEF Control, ControlTypes, NoTransfer, Places, queueVars, blockVars, dataVars
<1> USE DEF Data
<1>1. flowTimerMutex = "none" /\ block = 0 /\ pc.session # "fill"
  BY DEF TimerFlush, MutexFree, BlockOwner, MutexOwner, SessionHolds
<1>2. CASE currBlock
  <2>1. /\ flowTimerMutex' = "timer" /\ block' = currBlockOffset /\ currBlock' = FALSE
        /\ pc.timer = "flush" /\ pc' = [pc EXCEPT !.timer = "enqueue"]
        /\ UNCHANGED <<queueVars, currBlockOffset, stored, readPosition>>
    BY <1>2 DEF TimerFlush, restVars, outVars
  <2>2. Linked' /\ QueueAccounting'
    BY <2>1 DEF Linked, QueueAccounting
  <2>3. BlockOwner'
    BY <1>1, <2>1, BlockSizeAssumption DEF BlockOwner, PartialBlock
  <2>4. Totals'
    BY <1>1, <1>2, <2>1, BlockSizeAssumption DEF Totals, Conservation, Offset, PartialBlock, Linked
  <2>5. QED
    BY <2>2, <2>3, <2>4
<1>3. CASE ~currBlock
  BY <1>3, DataStable DEF TimerFlush, dataState, restVars, outVars
<1>4. QED
  BY <1>2, <1>3

\* stop() keeps Data: the reset empties the queue and its count together.
LEMMA DataStopJoin == Control /\ Data /\ StopJoin => Data'
<1> SUFFICES ASSUME Control, Data, StopJoin PROVE Data'
  OBVIOUS
<1> USE DEF Control, ControlTypes, NoTransfer, Places, queueVars, blockVars, dataVars
<1> USE DEF Data
<1>1. block = 0
  <2>1. pc.session = "done"
    BY DEF StopJoin
  <2>2. CASE pc.timer = "none"
    BY <2>1, <2>2 DEF MutexOwner, SessionHolds, TimerHolds, BlockOwner
  <2>3. CASE pc.timer # "none"
    BY <2>1, <2>3 DEF Totals
  <2>4. QED
    BY <2>2, <2>3
<1>2. /\ queue' = <<>> /\ queuedByteCount' = 0 /\ currBlockOffset' = 0
      /\ stored' = 0 /\ readPosition' = 0 /\ block' = 0 /\ pc'.session = "none"
  BY <1>1 DEF StopJoin, FlushQueue
<1>3. Linked' /\ QueueAccounting'
  BY <1>2, FullMarkType, BlockSizeAssumption DEF Linked, QueueAccounting
<1>4. BlockOwner'
  BY <1>2, BlockSizeAssumption DEF BlockOwner
<1>5. Totals'
  BY <1>2 DEF Totals, Conservation, Offset
<1>6. QED
  BY <1>3, <1>4, <1>5

\* Every step keeps Data.
LEMMA DataNext == Control /\ Data /\ [Next]_vars => Data'
<1> SUFFICES ASSUME Control, Data, [Next]_vars PROVE Data'
  OBVIOUS
<1>1. CASE DataKept
  BY <1>1, DataKeptStep
<1>2. CASE Create
  BY <1>1, <1>2, DataCreate DEF Create, DataKept
<1>3. CASE Session
  BY <1>1, <1>3, DataReceive, DataBufferReady DEF Session, DataKept, BufferReady
<1>4. CASE Timer
  BY <1>1, <1>4, DataTimerFlush, DataBufferReady DEF Timer, DataKept, BufferReady
<1>5. CASE Stop
  BY <1>1, <1>5, DataStopJoin DEF Stop, DataKept
<1>6. QED
  BY <1>1, <1>2, <1>3, <1>4, <1>5 DEF Next, DataKept, Terminated

\* The queue, its count, the partial block, the block in buffer_ready()'s hands and
\* m_readPosition agree byte for byte.
THEOREM DataInvariant == Spec => []Data
  BY ControlInvariant, DataInit, DataNext, PTL DEF Spec

\* m_queuedByteCount is the number of bytes in the queue, and at most one block
\* above the full mark: buffer_ready() and create() keep their books together.
THEOREM QueueAccountingTheorem == Spec => []QueueAccounting
  BY DataInvariant, PTL DEF Data

\* Every byte that data_received() has taken is in exactly one place, until it
\* is pushed, freed by a refusal, or dropped by stop().
THEOREM ConservationTheorem == Spec => []Conservation
<1>1. Data => Conservation
  BY DEF Data, Totals
<1>2. QED
  BY <1>1, DataInvariant, PTL

-----------------------------------------------------------------------------
(* Stream order inside the element.                                        *)

\* A new element holds nothing out of order.
LEMMA OrderInit == Init => InStreamOrder
  BY DEF Init, InStreamOrder

\* InStreamOrder depends on the queue and the blocks only.
LEMMA OrderStable ==
  ASSUME InStreamOrder, UNCHANGED <<queue, stored, block, currBlock, currBlockOffset>>
  PROVE  InStreamOrder'
  BY DEF InStreamOrder, Offset

\* create() keeps the waiting bytes in order: it takes from the front.
LEMMA OrderCreate == Control /\ Data /\ InStreamOrder /\ Create => InStreamOrder'
<1> SUFFICES ASSUME Control, Data, InStreamOrder, Create PROVE InStreamOrder'
  OBVIOUS
<1>1. CASE CreatePop
  <2>1. /\ queue # <<>> /\ queue' = Tail(queue) /\ queue \in Seq(Element)
        /\ UNCHANGED <<stored, block, currBlock, currBlockOffset>>
    BY <1>1 DEF CreatePop, blockVars, dataVars, Data, Linked
  <2>2. /\ Len(queue) \in Nat /\ Len(queue') = Len(queue) - 1
        /\ \A i \in 1 .. Len(queue') : queue'[i] = queue[i + 1]
    BY <2>1
  <2>3. QED
    BY <2>1, <2>2 DEF InStreamOrder, Offset
<1>2. CASE CreatePushPartial
  <2>1. /\ UNCHANGED <<queue, stored, block, currBlockOffset>>
        /\ currBlock' \in {currBlock, FALSE}
    BY <1>2 DEF CreatePushPartial, queueVars, dataVars, Control, ControlTypes
  <2>2. /\ stored \in Int /\ block \in Int /\ Offset \in Nat /\ queue \in Seq(Element)
    BY BlockSizeAssumption
       DEF Offset, Data, Totals, BlockOwner, Control, PartialBlock, Linked
  <2>3. \A i \in 1 .. Len(queue) : queue[i].from \in Int /\ queue[i].size \in Int
    BY LinkedElements DEF Data
  <2>4. Offset' = Offset \/ Offset' = 0
    <3>1. CASE currBlock' = currBlock
      BY <2>1, <3>1 DEF Offset
    <3>2. CASE currBlock' = FALSE
      BY <3>2 DEF Offset
    <3>3. QED
      BY <2>1, <3>1, <3>2
  <2>5. QED
    BY <2>1, <2>2, <2>3, <2>4 DEF InStreamOrder
<1>3. CASE CreatePushQueued
  <2>1. CASE queue' = <<>>
    BY <2>1 DEF InStreamOrder
  <2>2. CASE queue' # <<>>
    BY <1>3, <2>2, OrderStable
       DEF CreatePushQueued, FlushQueue, queueVars, dataVars
  <2>3. QED
    BY <2>1, <2>2
<1>4. QED
  BY <1>1, <1>2, <1>3, OrderStable
     DEF Create, CreateEnter, CreateEmpty, CreateWoken, CreateFailed,
         CreateRequestStop, CreateSetStop, CreatePushEos,
         flowVars, queueVars, blockVars, dataVars

\* buffer_ready() keeps the waiting bytes in order: its block is the last one.
LEMMA OrderBufferReady ==
  ASSUME Control, Data, InStreamOrder, NEW t \in {"session", "timer"}, BufferReady(t)
  PROVE  InStreamOrder'
<1> USE DEF Data
<1>1. /\ stored \in Int /\ block \in Nat /\ queue \in Seq(Element)
  BY BlockSizeAssumption DEF Totals, BlockOwner, Linked
<1>2. \A i \in 1 .. Len(queue) : queue[i].from \in Int /\ queue[i].size \in Int
  BY LinkedElements
<1>3. CASE Enqueue(t)
  <2>1. ~currBlock /\ ~currBlock'
    BY <1>3 DEF Enqueue, Control, MutexOwner, SessionHolds, TimerHolds, blockVars
  <2> DEFINE at == IF queue = <<>> THEN 0
                   ELSE queue[Len(queue)].at + queue[Len(queue)].size
             e == [from |-> stored - block, size |-> block, at |-> at]
  <2>2. queue' = Append(queue, e) /\ block' = 0 /\ stored' = stored
    BY <1>3 DEF Enqueue, blockVars
  <2>3. e.from = stored - block /\ e.size = block
    OBVIOUS
  <2> HIDE DEF e, at
  <2>4. /\ Len(queue) \in Nat /\ Len(queue') = Len(queue) + 1
        /\ queue'[Len(queue')] = e
        /\ \A i \in 1 .. Len(queue) : queue'[i] = queue[i]
    BY <1>1, <2>2
  <2>5. \A i \in 1 .. Len(queue) : queue[i].from + queue[i].size <= stored - block
    BY <1>1, <1>2, <2>1 DEF InStreamOrder, Offset
  <2>6. \A i \in 1 .. Len(queue') : queue'[i].from + queue'[i].size <= stored
    <3> TAKE i \in 1 .. Len(queue')
    <3>1. CASE i = Len(queue')
      BY <1>1, <2>3, <2>4, <3>1
    <3>2. CASE i # Len(queue')
      <4>1. i \in 1 .. Len(queue)
        BY <2>4, <3>2
      <4>2. QED
        BY <1>1, <1>2, <2>4, <2>5, <4>1
    <3>3. QED
      BY <3>1, <3>2
  <2>7. ASSUME NEW i \in 1 .. Len(queue'), NEW j \in 1 .. Len(queue'), i < j
        PROVE  queue'[i].from + queue'[i].size <= queue'[j].from
    <3>1. i \in 1 .. Len(queue) /\ queue'[i] = queue[i]
      BY <2>4, <2>7
    <3>2. CASE j = Len(queue')
      BY <2>3, <2>4, <2>5, <3>1, <3>2
    <3>3. CASE j # Len(queue')
      <4>1. j \in 1 .. Len(queue) /\ queue'[j] = queue[j]
        BY <2>4, <3>3
      <4>2. QED
        BY <2>7, <3>1, <4>1 DEF InStreamOrder
    <3>4. QED
      BY <3>2, <3>3
  <2>8. stored' - block' - Offset' = stored
    BY <1>1, <2>1, <2>2 DEF Offset
  <2>9. QED
    BY <2>6, <2>7, <2>8 DEF InStreamOrder
<1>4. CASE EnqueueFails(t)
  <2>1. ~currBlock /\ ~currBlock' /\ stored' = stored - block /\ block' = 0 /\ queue' = queue
    BY <1>4 DEF EnqueueFails, Control, MutexOwner, SessionHolds, TimerHolds, queueVars
  <2>2. QED
    BY <1>1, <2>1 DEF InStreamOrder, Offset
<1>5. CASE EnqueueWait(t) \/ EnqueueLocked(t) \/ EnqueueWoken(t)
  BY <1>5, OrderStable
     DEF EnqueueWait, EnqueueLocked, EnqueueWoken, flowVars, queueVars, blockVars, dataVars
<1>6. QED
  BY <1>3, <1>4, <1>5 DEF BufferReady

\* The session thread keeps the waiting bytes in order.
LEMMA OrderSession == Control /\ Data /\ InStreamOrder /\ Session => InStreamOrder'
<1> SUFFICES ASSUME Control, Data, InStreamOrder, Session PROVE InStreamOrder'
  OBVIOUS
<1>1. CASE SessionFill
  <2>1. /\ stored \in Int /\ block = 0 /\ chunk \in Int /\ Offset \in Int
        /\ Avail = BlockSize - Offset /\ BlockSize \in Int /\ queue' = queue
    BY <1>1, BlockSizeAssumption, ContentAssumption
       DEF SessionFill, Data, Totals, BlockOwner, Control, PartialBlock, Offset, Avail,
           queueVars
  <2>2. stored' - block' - Offset' = stored - block - Offset
    BY <1>1, <2>1 DEF SessionFill, Offset
  <2>3. QED
    BY <2>1, <2>2 DEF InStreamOrder
<1>2. CASE BufferReady("session")
  BY <1>2, OrderBufferReady
<1>3. CASE SessionEnds
  BY <1>3, OrderStable
     DEF SessionEnds, SessionEnded, SessionMark, SessionFlagStop, SessionPause,
         SessionAwaitTimer, SessionJoinTimer, SessionWake,
         flowVars, queueVars, blockVars, dataVars
<1>4. QED
  BY <1>1, <1>2, <1>3, OrderStable
     DEF Session, SessionBegin, SessionProgress, SessionResult, SessionTrailer,
         SessionTrailerWake, SessionReceive, SessionReject,
         flowVars, queueVars, blockVars, dataVars

\* The flow timer keeps the waiting bytes in order.
LEMMA OrderTimer == Control /\ Data /\ InStreamOrder /\ Timer => InStreamOrder'
<1> SUFFICES ASSUME Control, Data, InStreamOrder, Timer PROVE InStreamOrder'
  OBVIOUS
<1>1. CASE TimerFlush
  <2>1. /\ stored \in Int /\ block = 0 /\ currBlockOffset \in Int
    BY <1>1, BlockSizeAssumption
       DEF TimerFlush, MutexFree, Data, Totals, BlockOwner, Control, PartialBlock
  <2>2. UNCHANGED <<queue, stored, currBlockOffset>>
    BY <1>1 DEF TimerFlush, queueVars
  <2>3. stored' - block' - Offset' = stored - block - Offset
    BY <1>1, <2>1, <2>2 DEF TimerFlush, Offset
  <2>4. QED
    BY <2>2, <2>3 DEF InStreamOrder
<1>2. CASE BufferReady("timer")
  BY <1>2, OrderBufferReady
<1>3. QED
  BY <1>1, <1>2, OrderStable
     DEF Timer, TimerBegin, TimerWoken, TimerLoop, TimerExpires,
         flowVars, queueVars, blockVars, dataVars

\* Every step keeps the waiting bytes in order.
LEMMA OrderNext == Control /\ Data /\ InStreamOrder /\ [Next]_vars => InStreamOrder'
<1> SUFFICES ASSUME Control, Data, InStreamOrder, [Next]_vars PROVE InStreamOrder'
  OBVIOUS
<1>1. CASE StopJoin
  BY <1>1 DEF StopJoin, FlushQueue, InStreamOrder
<1>2. CASE Start \/ Unlock \/ Flushed \/ UnlockStop \/ Resume
  BY <1>2, OrderStable
     DEF Start, StartTimer, StartSession, StartReturns, Unlock, Flushed, UnlockStop,
         Resume, flowVars, queueVars, blockVars, dataVars
<1>3. CASE StopRequest \/ StopSignal \/ SpuriousWakeup \/ UNCHANGED vars
  BY <1>3, OrderStable
     DEF StopRequest, StopSignal, SpuriousWakeup, vars, flowVars, queueVars,
         blockVars, dataVars
<1>4. QED
  BY <1>1, <1>2, <1>3, OrderCreate, OrderSession, OrderTimer
     DEF Next, Stop, Terminated

\* What waits inside the element is in stream order: the flow timer's flushes and
\* the session's blocks never overtake each other.
THEOREM InStreamOrderTheorem == Spec => []InStreamOrder
  BY OrderInit, OrderNext, ControlInvariant, DataInvariant, PTL DEF Spec

-----------------------------------------------------------------------------
(* The queue is settled once create() goes on to look at it after its stop *)
(* request.                                                                *)

\* No step adds to the queue between create()'s look at the partial block and the
\* end of its EOS sequence.
LEMMA SettledStep ==
  ASSUME Control, Data, [Next]_vars, Settled, Len(queue') > Len(queue)
  PROVE  FALSE
<1>1. flowTimerMutex = "none" /\ queue \in Seq(Element)
  BY DEF Control, Quiet, Data, Linked
<1>2. ASSUME NEW t \in {"session", "timer"}, Enqueue(t) PROVE FALSE
  BY <1>1, <1>2 DEF Enqueue, Control, MutexOwner, SessionHolds, TimerHolds
<1>3. ASSUME queue' = queue \/ queue' = <<>> \/ (queue # <<>> /\ queue' = Tail(queue))
      PROVE  FALSE
  BY <1>1, <1>3
<1>4. CASE Create
  BY <1>3, <1>4
     DEF Create, CreateEnter, CreatePop, CreateEmpty, CreateWoken, CreateFailed,
         CreateRequestStop, CreateSetStop, CreatePushPartial, CreatePushQueued,
         FlushQueue, CreatePushEos, flowVars, queueVars
<1>5. ASSUME NEW t \in {"session", "timer"}, BufferReady(t) PROVE FALSE
  BY <1>2, <1>3, <1>5
     DEF BufferReady, EnqueueWait, EnqueueLocked, EnqueueFails, EnqueueWoken,
         flowVars, queueVars
<1>6. CASE Session
  BY <1>3, <1>5, <1>6
     DEF Session, SessionBegin, SessionProgress, SessionResult, SessionTrailer,
         SessionTrailerWake, SessionReceive, SessionFill, SessionReject, SessionEnds,
         SessionEnded, SessionMark, SessionFlagStop, SessionPause, SessionAwaitTimer,
         SessionJoinTimer, SessionWake, flowVars, queueVars
<1>7. CASE Timer
  BY <1>3, <1>5, <1>7
     DEF Timer, TimerBegin, TimerWoken, TimerLoop, TimerExpires, TimerFlush,
         flowVars, queueVars
<1>8. CASE Start \/ Stop \/ Unlock \/ Flushed \/ UnlockStop \/ Resume
  BY <1>3, <1>8
     DEF Start, StartTimer, StartSession, StartReturns, Stop, StopRequest, StopSignal,
         StopJoin, FlushQueue, Unlock, Flushed, UnlockStop, Resume, flowVars, queueVars
<1>9. CASE SpuriousWakeup \/ UNCHANGED vars
  BY <1>3, <1>9 DEF SpuriousWakeup, vars, flowVars, queueVars
<1>10. QED
  BY <1>4, <1>6, <1>7, <1>8, <1>9 DEF Next, Terminated

\* create() can trust what it sees of the queue after its stop request: neither
\* producer adds to it any more.
THEOREM QueueSettledTheorem == Spec => QueueSettled
<1>1. Control /\ Control' /\ Data /\ Data' /\ [Next]_vars
      => [(/\ pc.create \in {"pushQueued", "pushEos", "paused"}
           /\ pc.ctl \in {"running", "unlocking", "flushed"})
          => Len(queue') <= Len(queue)]_vars
  <2> SUFFICES ASSUME Control, Data, Data', [Next]_vars,
                      pc.create \in {"pushQueued", "pushEos", "paused"},
                      pc.ctl \in {"running", "unlocking", "flushed"}
               PROVE  Len(queue') <= Len(queue)
    OBVIOUS
  <2>1. Settled
    BY DEF Settled
  <2>2. Len(queue) \in Int /\ Len(queue') \in Int
    BY DEF Data, Linked
  <2>3. QED
    BY <2>1, <2>2, SettledStep
<1>2. QED
  BY <1>1, ControlInvariant, DataInvariant, PTL DEF Spec, QueueSettled

-----------------------------------------------------------------------------
(* The type invariant.                                                     *)

\* The flags that neither layer speaks of.
FlagTypes ==
  /\ threadStarted \in BOOLEAN /\ threadRunning \in BOOLEAN
  /\ flowTimerThreadStarted \in BOOLEAN
  /\ sessionPaused \in BOOLEAN /\ sessionUnPause \in BOOLEAN
  /\ sessionError \in BOOLEAN /\ eosEventPushed \in BOOLEAN
  /\ haveFirstData \in BOOLEAN /\ haveTrailers \in BOOLEAN

\* The server and the counters.
CounterTypes ==
  /\ numTrailerHeadersExpected \in 0..MaxTrailers
  /\ result \in ResultKinds /\ toSend \in 0..ContentLength
  /\ starts \in 0..MaxStarts /\ flushes \in 0..MaxFlushes

\* The variables of a new element are in their domains.
LEMMA TypesInit == Init => FlagTypes /\ CounterTypes
<1> SUFFICES ASSUME Init PROVE FlagTypes /\ CounterTypes
  OBVIOUS
<1>1. FlagTypes
  BY DEF Init, FlagTypes
<1>2. CounterTypes
  BY ContentAssumption, BoundsAssumption DEF Init, CounterTypes, ResultKinds
<1>3. QED
  BY <1>1, <1>2

\* Every step keeps the flags and the threads' places in their domains.
LEMMA FlagTypesNext == FlagTypes /\ [Next]_vars => FlagTypes'
<1> SUFFICES ASSUME FlagTypes, [Next]_vars PROVE FlagTypes'
  OBVIOUS
<1> USE DEF FlagTypes, flagVars, threadVars, pauseVars, headerVars, endVars
<1>1. CASE Start \/ Unlock \/ Flushed \/ UnlockStop \/ Resume
  <2>1. CASE Start
    BY <2>1 DEF Start, StartTimer, StartSession, StartReturns
  <2>2. CASE Unlock \/ Flushed \/ UnlockStop \/ Resume
    BY <2>2 DEF Unlock, Flushed, UnlockStop, Resume
  <2>3. QED
    BY <1>1, <2>1, <2>2
<1>2. CASE Stop
  BY <1>2 DEF Stop, StopRequest, StopSignal, StopJoin
<1>3. CASE Create
  BY <1>3 DEF Create, CreateEnter, CreatePop, CreateEmpty, CreateWoken, CreateFailed,
              CreateRequestStop, CreateSetStop, CreatePushPartial,
              CreatePushQueued, CreatePushEos
<1>4. ASSUME NEW t \in {"session", "timer"}, BufferReady(t) PROVE FlagTypes'
  BY <1>4 DEF BufferReady, Enqueue, EnqueueWait, EnqueueLocked, EnqueueFails, EnqueueWoken
<1>5. CASE \E n \in 1..MaxChunk : SessionReceive(n)
  BY <1>5 DEF SessionReceive
<1>6. CASE SessionEnds
  BY <1>6 DEF SessionEnds, SessionEnded, SessionMark, SessionFlagStop, SessionPause,
              SessionAwaitTimer, SessionJoinTimer, SessionWake
<1>7. CASE Session
  <2>1. CASE SessionBegin \/ SessionProgress
    BY <2>1 DEF SessionBegin, SessionProgress
  <2>2. CASE SessionTrailer \/ SessionTrailerWake
    BY <2>2 DEF SessionTrailer, SessionTrailerWake
  <2>3. CASE SessionFill \/ SessionReject \/ (\E r \in Results : SessionResult(r))
    BY <2>3 DEF SessionFill, SessionReject, SessionResult
  <2>4. QED
    BY <1>4, <1>5, <1>6, <1>7, <2>1, <2>2, <2>3 DEF Session
<1>8. CASE Timer
  BY <1>4, <1>8 DEF Timer, TimerBegin, TimerWoken, TimerLoop, TimerExpires, TimerFlush
<1>9. CASE SpuriousWakeup \/ UNCHANGED vars
  BY <1>9 DEF SpuriousWakeup, vars
<1>10. QED
  BY <1>1, <1>2, <1>3, <1>7, <1>8, <1>9 DEF Next, Terminated

\* Every step keeps the sizes and the bounded counters in their domains.
LEMMA CounterTypesNext == CounterTypes /\ [Next]_vars => CounterTypes'
<1> SUFFICES ASSUME CounterTypes, [Next]_vars PROVE CounterTypes'
  OBVIOUS
<1> USE DEF CounterTypes, ResultKinds, flowVars, dataVars, flagVars, headerVars,
            restVars, boundVars
<1> USE ContentAssumption, BoundsAssumption, EnvironmentAssumption
<1>1. CASE Start \/ Unlock \/ Flushed \/ UnlockStop \/ Resume
  BY <1>1 DEF Start, StartTimer, StartSession, StartReturns, Unlock, Flushed,
              UnlockStop, Resume
<1>2. CASE Stop
  BY <1>2 DEF Stop, StopRequest, StopSignal, StopJoin
<1>3. CASE Create
  BY <1>3 DEF Create, CreateEnter, CreatePop, CreateEmpty, CreateWoken, CreateFailed,
              CreateRequestStop, CreateSetStop, CreatePushPartial,
              CreatePushQueued, CreatePushEos
<1>4. ASSUME NEW t \in {"session", "timer"}, BufferReady(t) PROVE CounterTypes'
  BY <1>4 DEF BufferReady, Enqueue, EnqueueWait, EnqueueLocked, EnqueueFails, EnqueueWoken
<1>5. CASE \E n \in 1..MaxChunk : SessionReceive(n)
  BY <1>5 DEF SessionReceive
<1>6. CASE SessionEnds
  BY <1>6 DEF SessionEnds, SessionEnded, SessionMark, SessionFlagStop, SessionPause,
              SessionAwaitTimer, SessionJoinTimer, SessionWake
<1>7. CASE Session
  BY <1>4, <1>5, <1>6, <1>7
     DEF Session, SessionBegin, SessionProgress, SessionResult, SessionTrailer,
         SessionTrailerWake, SessionFill, SessionReject
<1>8. CASE Timer
  BY <1>4, <1>8 DEF Timer, TimerBegin, TimerWoken, TimerLoop, TimerExpires, TimerFlush
<1>9. CASE SpuriousWakeup \/ UNCHANGED vars
  BY <1>9 DEF SpuriousWakeup, vars
<1>10. QED
  BY <1>1, <1>2, <1>3, <1>7, <1>8, <1>9 DEF Next, Terminated

OutType == out \in [end : Nat \cup {AnyPlace}, breaks : Nat]

\* A push goes downstream from a place that is a byte number.
LEMMA OutNext == Control /\ Data /\ OutType /\ [Next]_vars => OutType'
<1> SUFFICES ASSUME Control, Data, OutType, [Next]_vars PROVE OutType'
  OBVIOUS
<1>1. ASSUME NEW from \in Nat, NEW size \in Nat, Push(from, size) PROVE OutType'
  BY <1>1 DEF Push, OutType
<1>2. CASE CreatePop
  <2>1. Head(queue) \in Element
    BY <1>2 DEF CreatePop, Data, Linked
  <2>2. QED
    BY <1>1, <1>2, <2>1, BlockSizeAssumption DEF CreatePop, Element
<1>3. CASE CreatePushPartial
  <2>1. currBlock => currBlockOffset \in Nat /\ stored - currBlockOffset \in Nat
    BY BlockSizeAssumption
       DEF Control, PartialBlock, Data, Totals, Conservation, Offset, BlockOwner, Linked
  <2>2. QED
    BY <1>1, <1>3, <2>1 DEF CreatePushPartial, outVars, OutType
<1>4. CASE CreatePushQueued
  <2>1. Len(queue) = 1 => Head(queue) \in Element
    <3>1. queue \in Seq(Element)
      BY DEF Data, Linked
    <3>2. Len(queue) = 1 => queue # <<>>
      OBVIOUS
    <3>3. QED
      BY <3>1, <3>2
  <2>2. QED
    BY <1>1, <1>4, <2>1, BlockSizeAssumption
       DEF CreatePushQueued, LastBlockQueued, Element, outVars, OutType
<1>5. CASE Resume \/ StopJoin
  BY <1>5 DEF Resume, StopJoin, OutType
<1>6. CASE UNCHANGED out
  BY <1>6 DEF OutType
<1>7. CASE Create
  BY <1>2, <1>3, <1>4, <1>6, <1>7
     DEF Create, CreateEnter, CreateEmpty, CreateWoken, CreateFailed,
         CreateRequestStop, CreateSetStop, CreatePushEos, restVars, outVars
<1>8. ASSUME NEW t \in {"session", "timer"}, BufferReady(t) PROVE UNCHANGED out
  BY <1>8 DEF BufferReady, Enqueue, EnqueueWait, EnqueueLocked, EnqueueFails,
              EnqueueWoken, restVars, outVars
<1>9. CASE Session \/ Timer
  BY <1>6, <1>8, <1>9
     DEF Session, SessionBegin, SessionProgress, SessionResult, SessionTrailer,
         SessionTrailerWake, SessionReceive, SessionFill, SessionReject, SessionEnds,
         SessionEnded, SessionMark, SessionFlagStop, SessionPause, SessionAwaitTimer,
         SessionJoinTimer, SessionWake, Timer, TimerBegin, TimerWoken, TimerLoop,
         TimerExpires, TimerFlush, restVars, outVars
<1>10. CASE Start \/ Unlock \/ Flushed \/ UnlockStop \/ StopRequest \/ StopSignal
  BY <1>6, <1>10
     DEF Start, StartTimer, StartSession, StartReturns, Unlock, Flushed, UnlockStop,
         StopRequest, StopSignal, restVars, outVars
<1>11. QED
  BY <1>5, <1>6, <1>7, <1>9, <1>10
     DEF Next, Stop, Terminated, SpuriousWakeup, vars, restVars, outVars

\* Every variable stays in its domain; m_queuedByteCount is never negative, which
\* create() asserts.
THEOREM TypeCorrect == Spec => []TypeOK
<1>1. Init => OutType
  BY DEF Init, OutType
<1>2. Control /\ Data /\ FlagTypes /\ CounterTypes /\ OutType => TypeOK
  BY BlockSizeAssumption
     DEF TypeOK, Control, ControlTypes, PartialBlock, Places, Data, Linked, BlockOwner,
         Totals, FlagTypes, CounterTypes, OutType
<1>3. Spec => [](FlagTypes /\ CounterTypes)
  BY TypesInit, FlagTypesNext, CounterTypesNext, PTL DEF Spec
<1>4. Spec => []OutType
  BY <1>1, OutNext, ControlInvariant, DataInvariant, PTL DEF Spec
<1>5. QED
  BY <1>2, <1>3, <1>4, ControlInvariant, DataInvariant, PTL

-----------------------------------------------------------------------------
(* Waiting for the queue.                                                  *)

\* A producer that sleeps, or is about to, has found the queue full, and it still is.
WaitFull ==
  \A t \in {"session", "timer"} : pc[t] \in {"lockNotFull", "waitNotFull"} => Full

\* A producer is kept from going to sleep only by the end of a create().
WaitPlaces ==
  \A t \in {"session", "timer"} :
    pc[t] = "lockNotFull" => pc.create \in {"setStop", "pushPartial"}

\* create() sleeps in front of an empty queue.
WaitEmpty == pc.create = "waitNotEmpty" => queue = <<>>

\* Before a transfer, and without one, no byte is accepted.
Untouched == NoTransfer => stored = 0

\* Whoever shrinks a full queue signals, and a producer that has still to go to sleep
\* keeps create() from it.
LEMMA WaitFullNext ==
  ASSUME Control, Data, WaitPlaces, Untouched, WaitFull, [Next]_vars
  PROVE  WaitFull'
<1> USE DEF WaitFull, WaitPlaces, Untouched, Full, FullMark, NoTransfer, Control,
            ControlTypes, MutexOwner, Quiet, Settled, Lifetimes, SessionHolds,
            TimerHolds, Places
<1> USE DEF flowVars, queueVars, blockVars, dataVars, flagVars, threadVars, pauseVars,
            headerVars, endVars, restVars, outVars, boundVars
<1> USE BlockSizeAssumption, ContentAssumption, BoundsAssumption
<1> USE DEF CtlPC, CreatePC, SessionPC, TimerPC
<1>1. CASE Start
  BY <1>1 DEF Start, StartTimer, StartSession, StartReturns
<1>2. CASE Unlock \/ Flushed \/ UnlockStop \/ Resume
  <2>1. CASE Unlock
    BY <2>1 DEF Unlock
  <2>2. CASE Flushed
    BY <2>2 DEF Flushed
  <2>3. CASE UnlockStop
    BY <2>3 DEF UnlockStop
  <2>4. CASE Resume
    BY <2>4 DEF Resume
  <2>5. QED
    BY <1>2, <2>1, <2>2, <2>3, <2>4
<1>3. CASE Stop
  <2>1. CASE StopRequest
    BY <2>1 DEF StopRequest
  <2>2. CASE StopSignal
    <3>1. [pc EXCEPT !.ctl = "joining"] \in Places /\ queuedByteCount' = queuedByteCount
      BY <2>2 DEF StopSignal, Places
    <3>2. QED
      BY <2>2, <3>1, SignalNotFullEffect DEF StopSignal
  <2>3. CASE StopJoin
    <3>1. /\ pc.session = "done" /\ pc'.session = "none" /\ pc'.timer = pc.timer
          /\ queuedByteCount' = 0
      BY <2>3 DEF StopJoin, FlushQueue
    <3>2. ASSUME pc.timer \in {"lockNotFull", "waitNotFull"}
          PROVE  FALSE
      <4>1. stored = 0 /\ block = 0 /\ Offset = 0
        BY <3>1, <3>2 DEF Data, Totals, Offset
      <4>2. queuedByteCount = 0
        BY <4>1 DEF Data, Totals, Conservation, Linked
      <4>3. QED
        BY <3>2, <4>2, FullMarkType DEF FullMark
    <3>3. QED
      BY <3>1, <3>2
  <2>4. QED
    BY <1>3, <2>1, <2>2, <2>3 DEF Stop
<1>4. CASE CreateEnter \/ CreateEmpty \/ CreateWoken \/ CreateFailed \/
           CreateRequestStop \/ CreatePushEos
  BY <1>4 DEF CreateEnter, CreateEmpty, NoMoreData, CreateWoken, CreateFailed,
     CreateRequestStop, CreatePushEos
<1>5. CASE CreatePop \/ CreateSetStop
  <2>1. CASE CreatePop
    <3>1. pc.create = "loop" /\ [pc EXCEPT !.create = "idle"] \in Places
      BY <2>1 DEF CreatePop, Places
    <3>2. CASE WasFull
      <4>1. pc' = SignalNotFull([pc EXCEPT !.create = "idle"])
        BY <2>1, <3>2 DEF CreatePop
      <4>2. pc'.session # "waitNotFull" /\ pc'.timer # "waitNotFull"
        BY <4>1 DEF SignalNotFull
      <4>3. pc'.session # "lockNotFull" /\ pc'.timer # "lockNotFull"
        BY <3>1, <4>1, SignalNotFullEffect
      <4>4. QED
        BY <4>2, <4>3
    <3>3. CASE ~WasFull
      <4>1. pc'.session = pc.session /\ pc'.timer = pc.timer
        BY <2>1, <3>3 DEF CreatePop
      <4>2. QED
        BY <3>3, <4>1 DEF WasFull
    <3>4. QED
      BY <3>2, <3>3
  <2>2. CASE CreateSetStop
    <3>1. /\ [pc EXCEPT !.create = "pushPartial"] \in Places
          /\ queuedByteCount' = queuedByteCount
      BY <2>2 DEF CreateSetStop, Places
    <3>2. QED
      BY <2>2, <3>1, SignalNotFullEffect DEF CreateSetStop
  <2>3. QED
    BY <1>5, <2>1, <2>2
<1>6. CASE CreatePushPartial \/ CreatePushQueued
  BY <1>6 DEF CreatePushPartial, MutexFree, CreatePushQueued, FlushQueue
<1>7. CASE SessionBegin \/ SessionProgress \/ SessionTrailer \/ SessionReject
  BY <1>7 DEF SessionBegin, SessionProgress, SessionTrailer, SessionReject
<1>8. CASE SessionTrailerWake
  BY <1>8 DEF SessionTrailerWake, SignalNotEmpty
<1>9. CASE SessionFill
  <2>1. pc.session = "fill" /\ queuedByteCount' = queuedByteCount
    BY <1>9 DEF SessionFill
  <2>2. [pc EXCEPT !.session = "enqueue"] \in Places
    BY DEF Places
  <2>3. /\ pc'.create = pc.create /\ pc'.session \in {"perform", "enqueue"}
        /\ pc'.timer = pc.timer \/ pc'.timer = "woken"
    <3>1. CASE pc' = [pc EXCEPT !.session = "perform"]
      BY <3>1
    <3>2. CASE pc' = SignalTimer([pc EXCEPT !.session = "enqueue"])
      BY <2>2, <3>2, SignalTimerEffect DEF SignalTimer
    <3>3. QED
      BY <1>9, <3>1, <3>2 DEF SessionFill
  <2>4. QED
    BY <2>1, <2>3
<1>10. ASSUME NEW r \in Results, SessionResult(r)
       PROVE  WaitFull'
  BY <1>10 DEF SessionResult
<1>11. ASSUME NEW n \in 1..MaxChunk, SessionReceive(n)
       PROVE  WaitFull'
  <2>1. pc.session = "perform" /\ queuedByteCount' = queuedByteCount
    BY <1>11 DEF SessionReceive
  <2>2. [pc EXCEPT !.session = "fill"] \in Places
    BY DEF Places
  <2>3. /\ pc'.create = pc.create /\ pc'.session \in {"fill", "reject"}
        /\ pc'.timer = pc.timer \/ pc'.timer = "woken"
    <3>1. CASE pc' \in {[pc EXCEPT !.session = "reject"], [pc EXCEPT !.session = "fill"]}
      BY <3>1
    <3>2. CASE pc' = SignalTimer([pc EXCEPT !.session = "fill"])
      BY <2>2, <3>2, SignalTimerEffect DEF SignalTimer
    <3>3. QED
      BY <1>11, <3>1, <3>2 DEF SessionReceive
  <2>4. QED
    BY <2>1, <2>3
<1>12. CASE SessionEnded \/ SessionMark \/ SessionFlagStop \/ SessionPause \/
            SessionJoinTimer
  BY <1>12 DEF SessionEnded, SessionMark, SessionFlagStop, SessionPause,
     SessionJoinTimer
<1>13. CASE SessionAwaitTimer \/ SessionWake
  <2>1. CASE SessionAwaitTimer
    BY <2>1 DEF SessionAwaitTimer, SignalTimer
  <2>2. CASE SessionWake
    BY <2>2 DEF SessionWake, SignalNotEmpty
  <2>3. QED
    BY <1>13, <2>1, <2>2
<1>14. ASSUME NEW t \in {"session", "timer"}, Enqueue(t)
       PROVE  WaitFull'
  BY <1>14 DEF Enqueue, SignalNotEmpty, Copying
<1>15. ASSUME NEW t \in {"session", "timer"},
              EnqueueWait(t) \/ EnqueueLocked(t) \/ EnqueueFails(t) \/ EnqueueWoken(t)
       PROVE  WaitFull'
  BY <1>15 DEF EnqueueWait, EnqueueLocked, EnqueueFails, EnqueueWoken
<1>16. CASE TimerBegin \/ TimerWoken \/ TimerLoop \/ TimerExpires \/ TimerFlush
  BY <1>16 DEF TimerBegin, TimerWoken, TimerLoop, TimerExpires, TimerFlush, MutexFree
<1>17. CASE SpuriousWakeup
  <2>1. UNCHANGED <<queuedByteCount, threadStopRequested>>
    BY <1>17 DEF SpuriousWakeup
  <2>2. QED
    BY <1>17, <2>1, SpuriousEffect
<1>18. CASE Terminated \/ UNCHANGED vars
  BY <1>18 DEF Terminated, vars
<1>19. QED
  BY <1>1, <1>2, <1>3, <1>4, <1>5, <1>6, <1>7, <1>8, <1>9, <1>10, <1>11, <1>12, <1>13,
     <1>14, <1>15, <1>16, <1>17, <1>18
     DEF Next, Create, Session, SessionEnds, Timer, BufferReady

\* The producer holds flowTimerMutex, which create() needs next.
LEMMA WaitPlacesNext ==
  ASSUME Control, WaitPlaces, [Next]_vars
  PROVE  WaitPlaces'
<1> USE DEF WaitPlaces, Control, ControlTypes, MutexOwner, Quiet, Lifetimes,
            SessionHolds, TimerHolds, Places
<1> USE DEF flowVars, queueVars, blockVars, dataVars, flagVars, threadVars, pauseVars,
            headerVars, endVars, restVars, outVars, boundVars
<1> USE BlockSizeAssumption, ContentAssumption, BoundsAssumption
<1> USE DEF CtlPC, CreatePC, SessionPC, TimerPC
<1>1. CASE Start
  BY <1>1 DEF Start, StartTimer, StartSession, StartReturns
<1>2. CASE Unlock \/ Flushed \/ UnlockStop \/ Resume
  <2>1. CASE Unlock
    BY <2>1 DEF Unlock
  <2>2. CASE Flushed
    BY <2>2 DEF Flushed
  <2>3. CASE UnlockStop
    BY <2>3 DEF UnlockStop
  <2>4. CASE Resume
    BY <2>4 DEF Resume
  <2>5. QED
    BY <1>2, <2>1, <2>2, <2>3, <2>4
<1>3. CASE Stop
  <2>1. CASE StopRequest
    BY <2>1 DEF StopRequest
  <2>2. CASE StopSignal
    <3>1. [pc EXCEPT !.ctl = "joining"] \in Places /\ queuedByteCount' = queuedByteCount
      BY <2>2 DEF StopSignal, Places
    <3>2. QED
      BY <2>2, <3>1, SignalNotFullEffect DEF StopSignal
  <2>3. CASE StopJoin
    BY <2>3 DEF StopJoin, FlushQueue
  <2>4. QED
    BY <1>3, <2>1, <2>2, <2>3 DEF Stop
<1>4. CASE CreateEnter \/ CreateEmpty \/ CreateWoken \/ CreateFailed \/
           CreateRequestStop \/ CreatePushEos
  BY <1>4 DEF CreateEnter, CreateEmpty, NoMoreData, CreateWoken, CreateFailed,
     CreateRequestStop, CreatePushEos
<1>5. CASE CreatePop \/ CreateSetStop
  BY <1>5, TakerEffect
<1>6. CASE CreatePushPartial \/ CreatePushQueued
  BY <1>6 DEF CreatePushPartial, MutexFree, CreatePushQueued, FlushQueue
<1>7. CASE SessionBegin \/ SessionProgress \/ SessionTrailer \/ SessionReject
  BY <1>7 DEF SessionBegin, SessionProgress, SessionTrailer, SessionReject
<1>8. CASE SessionTrailerWake
  BY <1>8 DEF SessionTrailerWake, SignalNotEmpty
<1>9. CASE SessionFill
  <2>1. pc.session = "fill" /\ queuedByteCount' = queuedByteCount
    BY <1>9 DEF SessionFill
  <2>2. [pc EXCEPT !.session = "enqueue"] \in Places
    BY DEF Places
  <2>3. /\ pc'.create = pc.create /\ pc'.session \in {"perform", "enqueue"}
        /\ pc'.timer = pc.timer \/ pc'.timer = "woken"
    <3>1. CASE pc' = [pc EXCEPT !.session = "perform"]
      BY <3>1
    <3>2. CASE pc' = SignalTimer([pc EXCEPT !.session = "enqueue"])
      BY <2>2, <3>2, SignalTimerEffect DEF SignalTimer
    <3>3. QED
      BY <1>9, <3>1, <3>2 DEF SessionFill
  <2>4. QED
    BY <2>1, <2>3
<1>10. ASSUME NEW r \in Results, SessionResult(r)
       PROVE  WaitPlaces'
  BY <1>10 DEF SessionResult
<1>11. ASSUME NEW n \in 1..MaxChunk, SessionReceive(n)
       PROVE  WaitPlaces'
  <2>1. pc.session = "perform" /\ queuedByteCount' = queuedByteCount
    BY <1>11 DEF SessionReceive
  <2>2. [pc EXCEPT !.session = "fill"] \in Places
    BY DEF Places
  <2>3. /\ pc'.create = pc.create /\ pc'.session \in {"fill", "reject"}
        /\ pc'.timer = pc.timer \/ pc'.timer = "woken"
    <3>1. CASE pc' \in {[pc EXCEPT !.session = "reject"], [pc EXCEPT !.session = "fill"]}
      BY <3>1
    <3>2. CASE pc' = SignalTimer([pc EXCEPT !.session = "fill"])
      BY <2>2, <3>2, SignalTimerEffect DEF SignalTimer
    <3>3. QED
      BY <1>11, <3>1, <3>2 DEF SessionReceive
  <2>4. QED
    BY <2>1, <2>3
<1>12. CASE SessionEnded \/ SessionMark \/ SessionFlagStop \/ SessionPause \/
            SessionJoinTimer
  <2>1. CASE SessionEnded \/ SessionMark
    BY <2>1 DEF SessionEnded, SessionMark
  <2>2. CASE SessionFlagStop \/ SessionPause
    BY <2>2 DEF SessionFlagStop, SessionPause
  <2>3. CASE SessionJoinTimer
    BY <2>3 DEF SessionJoinTimer
  <2>4. QED
    BY <1>12, <2>1, <2>2, <2>3
<1>13. CASE SessionAwaitTimer \/ SessionWake
  <2>1. CASE SessionAwaitTimer
    BY <2>1 DEF SessionAwaitTimer, SignalTimer
  <2>2. CASE SessionWake
    BY <2>2 DEF SessionWake, SignalNotEmpty
  <2>3. QED
    BY <1>13, <2>1, <2>2
<1>14. ASSUME NEW t \in {"session", "timer"}, Enqueue(t)
       PROVE  WaitPlaces'
  BY <1>14 DEF Enqueue, SignalNotEmpty, Copying
<1>15. ASSUME NEW t \in {"session", "timer"},
              EnqueueWait(t) \/ EnqueueLocked(t) \/ EnqueueFails(t) \/ EnqueueWoken(t)
       PROVE  WaitPlaces'
  BY <1>15 DEF EnqueueWait, EnqueueLocked, EnqueueFails, EnqueueWoken
<1>16. CASE TimerBegin \/ TimerWoken \/ TimerLoop \/ TimerExpires \/ TimerFlush
  BY <1>16 DEF TimerBegin, TimerWoken, TimerLoop, TimerExpires, TimerFlush, MutexFree
<1>17. CASE SpuriousWakeup
  <2>1. UNCHANGED <<queuedByteCount, threadStopRequested>>
    BY <1>17 DEF SpuriousWakeup
  <2>2. QED
    BY <1>17, <2>1, SpuriousEffect
<1>18. CASE Terminated \/ UNCHANGED vars
  BY <1>18 DEF Terminated, vars
<1>19. QED
  BY <1>1, <1>2, <1>3, <1>4, <1>5, <1>6, <1>7, <1>8, <1>9, <1>10, <1>11, <1>12, <1>13,
     <1>14, <1>15, <1>16, <1>17, <1>18
     DEF Next, Create, Session, SessionEnds, Timer, BufferReady

\* Only buffer_ready() adds to the queue, and it signals when it was empty.
LEMMA WaitEmptyNext ==
  ASSUME Control, WaitEmpty, [Next]_vars
  PROVE  WaitEmpty'
<1> USE DEF WaitEmpty, Control, ControlTypes, Quiet, Places
<1> USE DEF flowVars, queueVars, blockVars, dataVars, flagVars, threadVars, pauseVars,
            headerVars, endVars, restVars, outVars, boundVars
<1> USE BlockSizeAssumption, ContentAssumption, BoundsAssumption
<1> USE DEF CtlPC, CreatePC, SessionPC, TimerPC
<1>1. CASE Start
  BY <1>1 DEF Start, StartTimer, StartSession, StartReturns
<1>2. CASE Unlock \/ Flushed \/ UnlockStop \/ Resume
  BY <1>2 DEF Unlock, Flushed, UnlockStop, Resume
<1>3. CASE Stop
  BY <1>3 DEF Stop, StopRequest, StopSignal, SignalNotFull, StopJoin, FlushQueue
<1>4. CASE CreateEnter \/ CreateEmpty \/ CreateWoken \/ CreateFailed \/
           CreateRequestStop \/ CreatePushEos
  BY <1>4 DEF CreateEnter, CreateEmpty, NoMoreData, CreateWoken, CreateFailed,
     CreateRequestStop, CreatePushEos
<1>5. CASE CreatePop \/ CreateSetStop
  BY <1>5 DEF CreatePop, SignalNotFull, CreateSetStop
<1>6. CASE CreatePushPartial \/ CreatePushQueued
  BY <1>6 DEF CreatePushPartial, MutexFree, CreatePushQueued, FlushQueue
<1>7. CASE SessionBegin \/ SessionProgress \/ SessionTrailer \/ SessionReject
  BY <1>7 DEF SessionBegin, SessionProgress, SessionTrailer, SessionReject
<1>8. CASE SessionTrailerWake
  BY <1>8 DEF SessionTrailerWake, SignalNotEmpty
<1>9. CASE SessionFill
  BY <1>9 DEF SessionFill, Avail, Offset, SignalTimer
<1>10. ASSUME NEW r \in Results, SessionResult(r)
       PROVE  WaitEmpty'
  BY <1>10 DEF SessionResult
<1>11. ASSUME NEW n \in 1..MaxChunk, SessionReceive(n)
       PROVE  WaitEmpty'
  BY <1>11 DEF SessionReceive, SignalTimer
<1>12. CASE SessionEnded \/ SessionMark \/ SessionFlagStop \/ SessionPause \/
            SessionJoinTimer
  BY <1>12 DEF SessionEnded, SessionMark, SessionFlagStop, SessionPause,
     SessionJoinTimer
<1>13. CASE SessionAwaitTimer \/ SessionWake
  BY <1>13 DEF SessionAwaitTimer, SignalTimer, SessionWake, SignalNotEmpty
<1>14. ASSUME NEW t \in {"session", "timer"}, Enqueue(t)
       PROVE  WaitEmpty'
  BY <1>14 DEF Enqueue, SignalNotEmpty, Copying
<1>15. ASSUME NEW t \in {"session", "timer"},
              EnqueueWait(t) \/ EnqueueLocked(t) \/ EnqueueFails(t) \/ EnqueueWoken(t)
       PROVE  WaitEmpty'
  BY <1>15 DEF EnqueueWait, EnqueueLocked, EnqueueFails, EnqueueWoken
<1>16. CASE TimerBegin \/ TimerWoken \/ TimerLoop \/ TimerExpires \/ TimerFlush
  BY <1>16 DEF TimerBegin, TimerWoken, TimerLoop, TimerExpires, TimerFlush, MutexFree
<1>17. CASE SpuriousWakeup
  BY <1>17 DEF SpuriousWakeup, SignalNotEmpty, SignalNotFull, SignalTimer
<1>18. CASE Terminated \/ UNCHANGED vars
  BY <1>18 DEF Terminated, vars
<1>19. QED
  BY <1>1, <1>2, <1>3, <1>4, <1>5, <1>6, <1>7, <1>8, <1>9, <1>10, <1>11, <1>12, <1>13,
     <1>14, <1>15, <1>16, <1>17, <1>18
     DEF Next, Create, Session, SessionEnds, Timer, BufferReady

\* The bytes come with curl_easy_perform().
LEMMA UntouchedNext ==
  ASSUME Control, Data, Untouched, [Next]_vars
  PROVE  Untouched'
<1> USE DEF Untouched, NoTransfer, Data, Totals, BlockOwner, Control, ControlTypes,
            MutexOwner, Lifetimes, SessionHolds, TimerHolds, Places
<1> USE DEF flowVars, queueVars, blockVars, dataVars, flagVars, threadVars, pauseVars,
            headerVars, endVars, restVars, outVars, boundVars
<1> USE BlockSizeAssumption, ContentAssumption, BoundsAssumption
<1> USE DEF CtlPC, CreatePC, SessionPC, TimerPC
<1>1. CASE Start
  BY <1>1 DEF Start, StartTimer, StartSession, StartReturns
<1>2. CASE Unlock \/ Flushed \/ UnlockStop \/ Resume
  <2>1. CASE Unlock
    BY <2>1 DEF Unlock
  <2>2. CASE Flushed
    BY <2>2 DEF Flushed
  <2>3. CASE UnlockStop
    BY <2>3 DEF UnlockStop
  <2>4. CASE Resume
    BY <2>4 DEF Resume
  <2>5. QED
    BY <1>2, <2>1, <2>2, <2>3, <2>4
<1>3. CASE Stop
  BY <1>3 DEF Stop, StopRequest, StopSignal, SignalNotFull, StopJoin, FlushQueue
<1>4. CASE CreateEnter \/ CreateEmpty \/ CreateWoken \/ CreateFailed \/
           CreateRequestStop \/ CreatePushEos
  BY <1>4 DEF CreateEnter, CreateEmpty, NoMoreData, CreateWoken, CreateFailed,
     CreateRequestStop, CreatePushEos
<1>5. CASE CreatePop \/ CreateSetStop
  <2>1. stored' = stored
    BY <1>5 DEF CreatePop, CreateSetStop
  <2>2. QED
    BY <1>5, <2>1, TakerEffect
<1>6. CASE CreatePushPartial \/ CreatePushQueued
  BY <1>6 DEF CreatePushPartial, MutexFree, CreatePushQueued, FlushQueue
<1>7. CASE SessionBegin \/ SessionProgress \/ SessionTrailer \/ SessionReject
  BY <1>7 DEF SessionBegin, SessionProgress, SessionTrailer, SessionReject
<1>8. CASE SessionTrailerWake
  BY <1>8 DEF SessionTrailerWake, SignalNotEmpty
<1>9. CASE SessionFill
  BY <1>9 DEF SessionFill, Avail, Offset, SignalTimer
<1>10. ASSUME NEW r \in Results, SessionResult(r)
       PROVE  Untouched'
  BY <1>10 DEF SessionResult
<1>11. ASSUME NEW n \in 1..MaxChunk, SessionReceive(n)
       PROVE  Untouched'
  BY <1>11 DEF SessionReceive, SignalTimer
<1>12. CASE SessionEnded \/ SessionMark \/ SessionFlagStop \/ SessionPause \/
            SessionJoinTimer
  BY <1>12 DEF SessionEnded, SessionMark, SessionFlagStop, SessionPause,
     SessionJoinTimer
<1>13. CASE SessionAwaitTimer \/ SessionWake
  <2>1. CASE SessionAwaitTimer
    BY <2>1 DEF SessionAwaitTimer, SignalTimer
  <2>2. CASE SessionWake
    BY <2>2 DEF SessionWake, SignalNotEmpty
  <2>3. QED
    BY <1>13, <2>1, <2>2
<1>14. ASSUME NEW t \in {"session", "timer"}, Enqueue(t)
       PROVE  Untouched'
  BY <1>14 DEF Enqueue, SignalNotEmpty, Copying
<1>15. ASSUME NEW t \in {"session", "timer"},
              EnqueueWait(t) \/ EnqueueLocked(t) \/ EnqueueFails(t) \/ EnqueueWoken(t)
       PROVE  Untouched'
  BY <1>15 DEF EnqueueWait, EnqueueLocked, EnqueueFails, EnqueueWoken
<1>16. CASE TimerBegin \/ TimerWoken \/ TimerLoop \/ TimerExpires \/ TimerFlush
  BY <1>16 DEF TimerBegin, TimerWoken, TimerLoop, TimerExpires, TimerFlush, MutexFree
<1>17. CASE SpuriousWakeup
  BY <1>17 DEF SpuriousWakeup, SignalNotEmpty, SignalNotFull, SignalTimer
<1>18. CASE Terminated \/ UNCHANGED vars
  BY <1>18 DEF Terminated, vars
<1>19. QED
  BY <1>1, <1>2, <1>3, <1>4, <1>5, <1>6, <1>7, <1>8, <1>9, <1>10, <1>11, <1>12, <1>13,
     <1>14, <1>15, <1>16, <1>17, <1>18
     DEF Next, Create, Session, SessionEnds, Timer, BufferReady

\* No step loses a wakeup.
LEMMA WaitNext ==
  ASSUME Control, Data, WaitFull, WaitPlaces, WaitEmpty, Untouched, [Next]_vars
  PROVE  WaitFull' /\ WaitPlaces' /\ WaitEmpty' /\ Untouched'
  BY WaitFullNext, WaitPlacesNext, WaitEmptyNext, UntouchedNext

\* Nobody waits in a new element.
LEMMA WaitInit == Init => WaitFull /\ WaitPlaces /\ WaitEmpty /\ Untouched
<1> SUFFICES ASSUME Init PROVE WaitFull /\ WaitPlaces /\ WaitEmpty /\ Untouched
  OBVIOUS
<1>1. WaitFull /\ WaitPlaces
  BY DEF Init, WaitFull, WaitPlaces
<1>2. WaitEmpty /\ Untouched
  BY DEF Init, WaitEmpty, Untouched
<1>3. QED
  BY <1>1, <1>2

\* A producer sleeps only while the queue is full, and create() only while it is empty:
\* buffer_ready() signals when it adds to an empty queue, create() when it takes from
\* a full one, and neither signal comes between the other's test and its wait.
THEOREM NoWakeupLostTheorem == Spec => []NoWakeupLost
<1>1. WaitFull /\ WaitEmpty => NoWakeupLost
  BY DEF WaitFull, WaitEmpty, NoWakeupLost
<1>2. QED
  BY <1>1, WaitInit, WaitNext, ControlInvariant, DataInvariant, PTL DEF Spec

\* So the two sides of the queue never sleep at once.
THEOREM NeverBothAsleep ==
  Spec => [](pc.create = "waitNotEmpty" =>
               pc.session # "waitNotFull" /\ pc.timer # "waitNotFull")
<1>1. Data /\ NoWakeupLost
        => (pc.create = "waitNotEmpty" =>
              pc.session # "waitNotFull" /\ pc.timer # "waitNotFull")
  <2> SUFFICES ASSUME Data, NoWakeupLost, pc.create = "waitNotEmpty", Full
               PROVE  FALSE
    BY DEF NoWakeupLost
  <2>1. queue = <<>> /\ queuedByteCount = 0
    BY DEF NoWakeupLost, Data, QueueAccounting
  <2>2. QED
    BY <2>1, FullMarkType DEF Full
<1>2. QED
  BY <1>1, NoWakeupLostTheorem, DataInvariant, PTL
=============================================================================
