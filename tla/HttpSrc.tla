------------------------------- MODULE HttpSrc -------------------------------
(***************************************************************************)
(* The httpsrc element (src/httpsrc/gsthttpsrc.c): an HTTP body, received  *)
(* by a curl session thread, is cut into blocks that wait in a bounded     *)
(* queue for the streaming thread's create().  A flow timer thread flushes *)
(* a partial block when nothing has arrived for 50 ms.  A fourth thread,   *)
(* "ctl", is the application driving start, unlock, unlock_stop and stop   *)
(* through the GStreamer base class.                                       *)
(*                                                                         *)
(* One action is one critical section under queueMutex, or one access to a *)
(* flag that the code reads and writes with no lock.  A critical section   *)
(* that ends in pthread_cond_wait() takes the mutex of the condition       *)
(* before it gives queueMutex back, so testing and starting to wait are    *)
(* one step.  flowTimerMutex is held across blocking calls, and so it is a *)
(* variable.  Bytes are numbered by their place among the bytes accepted   *)
(* in this session.                                                        *)
(***************************************************************************)
EXTENDS Integers, Sequences

CONSTANTS
  BlockSize,      \* basesrc->blocksize, in bytes
  QueueFactor,    \* the queue is full above QueueFactor blocks (4 in the code)
  ContentLength,  \* length of the body the server sends
  MaxChunk,       \* the largest piece curl hands to one write callback
  MaxTrailers,    \* the most trailers a "Trailer:" header announces
  Results,        \* the kinds of curl result the run considers
  Faults,         \* the local faults the run considers
  MaxStarts,      \* bound on start() calls
  MaxFlushes      \* bound on flushing seeks

\* "ok"; "error": only m_sessionError is set; "network": connect and timeout
\* codes, error and stop; "closed": the codes "treated as EOS", stop only.
ResultKinds == {"ok", "error", "network", "closed"}

\* "late_timer": the flow timer is not scheduled within the 2 s the session
\* waits for it.  "curl_init": curl_easy_init() fails.
FaultKinds == {"late_timer", "curl_init"}

ASSUME BlockSizeAssumption == BlockSize \in Nat \ {0}
ASSUME QueueFactorAssumption == QueueFactor \in Nat \ {0}
ASSUME ContentAssumption == ContentLength \in Nat /\ MaxChunk \in Nat /\ MaxTrailers \in Nat
ASSUME EnvironmentAssumption == Results \subseteq ResultKinds /\ Faults \subseteq FaultKinds
ASSUME BoundsAssumption == MaxStarts \in Nat /\ MaxFlushes \in Nat

VARIABLES
  queue,                  \* m_queueHead .. m_queueTail
  queuedByteCount,        \* m_queuedByteCount
  currBlock,              \* m_currBlock is not NULL
  currBlockOffset,        \* m_currBlockOffset
  flowTimerMutex,         \* who holds m_flowTimerMutex across a step
  threadStarted, threadRunning, threadStopRequested,
  flowTimerThreadStarted,
  sessionPaused, sessionUnPause, sessionError,
  haveFirstData, haveTrailers, numTrailerHeadersExpected,
  eosEventPushed, readPosition,
  pc,                     \* where each of the four threads is
  block,                  \* size of the block buffer_ready() is called with
  chunk,                  \* bytes of this data_received() call still to copy
  result,                 \* what curl_easy_perform() returned
  toSend,                 \* bytes the server has still to send
  stored,                 \* history: bytes accepted and not thrown away
  out,                    \* history: what went downstream since the last flush
  starts, flushes         \* bounded counters

queueVars == <<queue, queuedByteCount>>
blockVars == <<currBlock, currBlockOffset, stored>>
dataVars == <<block, chunk, toSend>>
flowVars == <<queueVars, blockVars, dataVars, flowTimerMutex>>
threadVars == <<threadStarted, threadRunning, flowTimerThreadStarted>>
pauseVars == <<sessionPaused, sessionUnPause>>
headerVars == <<haveFirstData, haveTrailers, numTrailerHeadersExpected>>
endVars == <<sessionError, eosEventPushed>>
flagVars == <<threadVars, pauseVars, headerVars, endVars>>
outVars == <<out, readPosition>>
boundVars == <<starts, flushes>>
restVars == <<outVars, boundVars, result>>
vars == <<flowVars, flagVars, restVars, threadStopRequested, pc>>

CtlPC == {"null", "starting", "started", "running", "unlocking", "flushed",
          "cleared", "stopping", "joining"}
CreatePC == {"off", "idle", "loop", "waitNotEmpty", "wokenNotEmpty", "failed",
             "requestStop", "setStop", "pushPartial", "pushQueued", "pushEos",
             "paused", "error"}
SessionPC == {"none", "begin", "perform", "trailer", "fill", "enqueue",
              "lockNotFull", "waitNotFull", "wokenNotFull", "reject", "ended",
              "mark", "flagStop", "pause", "awaitTimer", "joinTimer", "wake", "done"}
TimerPC == {"none", "begin", "waitFirst", "woken", "loop", "timedWait", "flush",
            "enqueue", "lockNotFull", "waitNotFull", "wokenNotFull", "done"}

\* A queue element: its bytes are from .. from + size - 1; at counts the bytes
\* queued before it since the queue was last empty.
Element == [from : Nat, size : 0..BlockSize, at : Nat]

\* The queue is full when it holds more bytes than this.
FullMark == QueueFactor * BlockSize

Full == queuedByteCount > FullMark

\* Mutant: create() tests for "was full" after it has taken the block.
WasFull_After == queuedByteCount - Head(queue).size > FullMark

\* What create() tests before it takes a block.
WasFull == Full

\* Mutant: head and tail of the queue are different blocks.
LastBlockQueued_Never == Len(queue) > 1

\* Head and tail of the queue are the same block.
LastBlockQueued == Len(queue) = 1

\* Mutant: m_queuedByteCount keeps its value.
FlushQueue_KeepsCount ==
  queue' = <<>> /\ currBlockOffset' = 0 /\ UNCHANGED queuedByteCount

\* Mutant: the blocks stay linked.
FlushQueue_KeepsBlocks ==
  queuedByteCount' = 0 /\ currBlockOffset' = 0 /\ UNCHANGED queue

\* The four assignments that empty the queue.
FlushQueue == queue' = <<>> /\ queuedByteCount' = 0 /\ currBlockOffset' = 0

\* Mutant: data_received() and create() go on without the lock.
MutexFree_Ignored == TRUE

\* m_flowTimerMutex can be locked.
MutexFree == flowTimerMutex = "none"

\* Where data_received() copies to, and what still fits in there.
Offset == IF currBlock THEN currBlockOffset ELSE 0

\* Mutant: a new block starts at the offset of the one before it.
Avail_Stale == BlockSize - currBlockOffset

Avail == BlockSize - Offset

-----------------------------------------------------------------------------
(* Condition variables: what a signal does to the program counters.  Each  *)
(* has one waiter at a time: to wait for NotFull a thread holds            *)
(* flowTimerMutex.                                                         *)

\* Mutant: nobody is woken.
SignalNotEmpty_Silent(p) == p

SignalNotEmpty(p) ==
  IF p.create = "waitNotEmpty" THEN [p EXCEPT !.create = "wokenNotEmpty"] ELSE p

\* Mutant: the session thread is not woken.
SignalNotFull_TimerOnly(p) ==
  IF p.timer = "waitNotFull" THEN [p EXCEPT !.timer = "wokenNotFull"] ELSE p

SignalNotFull(p) ==
  [p EXCEPT
    !.session = IF @ = "waitNotFull" THEN "wokenNotFull" ELSE @,
    !.timer = IF @ = "waitNotFull" THEN "wokenNotFull" ELSE @]

SignalTimer(p) ==
  IF p.timer \in {"waitFirst", "timedWait"} THEN [p EXCEPT !.timer = "woken"] ELSE p

-----------------------------------------------------------------------------
(* What goes downstream.  out.end is the place of the next byte in order,  *)
(* AnyPlace right after a flush; out.breaks counts the pushes that did not *)
(* start there.                                                            *)

AnyPlace == -1

Push(from, size) ==
  /\ readPosition' = readPosition + size
  /\ out' = [end |-> from + size,
             breaks |-> IF out.end \in {from, AnyPlace} THEN out.breaks
                                                        ELSE out.breaks + 1]

-----------------------------------------------------------------------------
Init ==
  /\ queue = <<>> /\ queuedByteCount = 0
  /\ currBlock = FALSE /\ currBlockOffset = 0
  /\ flowTimerMutex = "none"
  /\ threadStarted = FALSE /\ threadRunning = FALSE
  /\ threadStopRequested = FALSE /\ flowTimerThreadStarted = FALSE
  /\ sessionPaused = FALSE /\ sessionUnPause = FALSE /\ sessionError = FALSE
  /\ haveFirstData = FALSE /\ haveTrailers = FALSE
  /\ numTrailerHeadersExpected = 0
  /\ eosEventPushed = FALSE /\ readPosition = 0
  /\ pc = [ctl |-> "null", create |-> "off", session |-> "none", timer |-> "none"]
  /\ block = 0 /\ chunk = 0 /\ result = "ok" /\ toSend = ContentLength
  /\ stored = 0 /\ out = [end |-> 0, breaks |-> 0]
  /\ starts = 0 /\ flushes = 0

-----------------------------------------------------------------------------
(* start(), unlock(), unlock_stop() and stop(), as the base class calls    *)
(* them: unlock at any time, the other two only while create() does not    *)
(* run.                                                                    *)

\* The flow timer thread is created first.  A timer that an earlier session
\* left behind (curl_init) would run beside the new one: not modelled.
StartTimer ==
  /\ pc.ctl = "null" /\ pc.timer = "none" /\ starts < MaxStarts
  /\ starts' = starts + 1
  /\ pc' = [pc EXCEPT !.ctl = "starting", !.timer = "begin"]
  /\ UNCHANGED <<flowVars, flagVars, outVars, flushes, result,
                 threadStopRequested>>

StartSession ==
  /\ pc.ctl = "starting"
  /\ pc' = [pc EXCEPT !.ctl = "started", !.session = "begin"]
  /\ UNCHANGED <<flowVars, flagVars, restVars, threadStopRequested>>

\* m_threadStarted is set after both threads already run.
StartReturns ==
  /\ pc.ctl = "started"
  /\ threadStarted' = TRUE
  /\ pc' = [pc EXCEPT !.ctl = "running", !.create = "idle"]
  /\ UNCHANGED <<flowVars, restVars, pauseVars, headerVars, endVars,
                 threadRunning, flowTimerThreadStarted, threadStopRequested>>

\* unlock() wakes nobody: it only sets the flag.
Unlock ==
  /\ pc.ctl = "running"
  /\ threadStopRequested' = TRUE
  /\ pc' = [pc EXCEPT !.ctl = "unlocking"]
  /\ UNCHANGED <<flowVars, flagVars, restVars>>

\* The base class has got the stream lock: create() is not running any more.
Flushed ==
  /\ pc.ctl = "unlocking" /\ pc.create \in {"idle", "paused", "error"}
  /\ pc' = [pc EXCEPT !.ctl = "flushed"]
  /\ UNCHANGED <<flowVars, flagVars, restVars, threadStopRequested>>

UnlockStop ==
  /\ pc.ctl = "flushed"
  /\ threadStopRequested' = FALSE
  /\ pc' = [pc EXCEPT !.ctl = "cleared"]
  /\ UNCHANGED <<flowVars, flagVars, restVars>>

\* A flushing seek restarts the streaming task.  do_seek() itself changes only
\* m_requestPosition, which no later step of the transfer reads.
Resume ==
  /\ pc.ctl = "cleared" /\ flushes < MaxFlushes
  /\ flushes' = flushes + 1
  /\ out' = [end |-> AnyPlace, breaks |-> 0]
  /\ pc' = [pc EXCEPT !.ctl = "running", !.create = "idle"]
  /\ UNCHANGED <<flowVars, flagVars, readPosition, starts, result,
                 threadStopRequested>>

\* stop() finds a thread to join, and asks it to end ...
StopRequest ==
  /\ pc.ctl \in {"flushed", "cleared"}
  /\ threadStarted \/ threadRunning
  /\ threadStopRequested' = TRUE
  /\ threadRunning' = FALSE
  /\ pc' = [pc EXCEPT !.ctl = "stopping"]
  /\ UNCHANGED <<flowVars, restVars, pauseVars, headerVars, endVars,
                 threadStarted, flowTimerThreadStarted>>

\* ... wakes it in case it waits for room in the queue ...
StopSignal ==
  /\ pc.ctl = "stopping"
  /\ pc' = SignalNotFull([pc EXCEPT !.ctl = "joining"])
  /\ UNCHANGED <<flowVars, flagVars, restVars, threadStopRequested>>

\* ... joins it and resets the element.  reset() leaves m_currBlock alone and
\* flush_queue() takes its offset back to 0.
StopJoin ==
  /\ pc.ctl = "joining" /\ pc.session = "done"
  /\ pc' = [pc EXCEPT !.ctl = "null", !.create = "off", !.session = "none"]
  /\ FlushQueue
  /\ threadStarted' = FALSE /\ threadRunning' = FALSE
  /\ threadStopRequested' = FALSE /\ flowTimerThreadStarted' = FALSE
  /\ sessionPaused' = FALSE /\ sessionUnPause' = FALSE /\ sessionError' = FALSE
  /\ haveFirstData' = FALSE /\ haveTrailers' = FALSE
  /\ numTrailerHeadersExpected' = 0
  /\ eosEventPushed' = FALSE /\ readPosition' = 0
  /\ toSend' = ContentLength /\ stored' = 0 /\ out' = [end |-> 0, breaks |-> 0]
  /\ result' = "ok" /\ flushes' = 0
  /\ UNCHANGED <<currBlock, block, chunk, flowTimerMutex, starts>>

-----------------------------------------------------------------------------
(* create(), on the streaming thread.                                      *)

NoMoreData == ~threadStarted \/ threadStopRequested \/ sessionPaused

CreateEnter ==
  /\ pc.create = "idle" /\ pc.ctl \in {"running", "unlocking"}
  /\ IF threadStarted /\ ~threadStopRequested /\ ~haveTrailers
       THEN /\ sessionUnPause' = (sessionUnPause \/ sessionPaused)
            /\ pc' = [pc EXCEPT !.create = "loop"]
       ELSE /\ pc' = [pc EXCEPT !.create = "failed"]
            /\ UNCHANGED sessionUnPause
  /\ UNCHANGED <<flowVars, restVars, threadVars, headerVars, endVars,
                 sessionPaused, threadStopRequested>>

\* A block is there: take it, tell a waiting producer that the queue was full,
\* return it to the base class, which pushes it downstream.
CreatePop ==
  /\ pc.create = "loop" /\ queue # <<>>
  /\ queue' = Tail(queue)
  /\ queuedByteCount' = queuedByteCount - Head(queue).size
  /\ Push(Head(queue).from, Head(queue).size)
  /\ LET returned == [pc EXCEPT !.create = "idle"]
     IN  pc' = IF WasFull THEN SignalNotFull(returned) ELSE returned
  /\ UNCHANGED <<flagVars, blockVars, dataVars, boundVars, flowTimerMutex,
                 result, threadStopRequested>>

\* No block: give up ("create A") or wait for one.
CreateEmpty ==
  /\ pc.create = "loop" /\ queue = <<>>
  /\ pc' = [pc EXCEPT !.create = IF NoMoreData THEN "failed" ELSE "waitNotEmpty"]
  /\ UNCHANGED <<flowVars, flagVars, restVars, threadStopRequested>>

\* After the wait the flags are looked at before the queue is ("create B").
CreateWoken ==
  /\ pc.create = "wokenNotEmpty"
  /\ pc' = [pc EXCEPT !.create = IF NoMoreData THEN "failed" ELSE "loop"]
  /\ UNCHANGED <<flowVars, flagVars, restVars, threadStopRequested>>

\* With a session error create() returns GST_FLOW_ERROR at once.
CreateFailed ==
  /\ pc.create = "failed"
  /\ pc' = [pc EXCEPT !.create = IF sessionError THEN "error" ELSE "requestStop"]
  /\ UNCHANGED <<flowVars, flagVars, restVars, threadStopRequested>>

\* Otherwise the session is told to stop: create() passes from queueMutex to
\* queueNotFullMutex, ...
CreateRequestStop ==
  /\ pc.create = "requestStop"
  /\ pc' = [pc EXCEPT !.create = "setStop"]
  /\ UNCHANGED <<flowVars, flagVars, restVars, threadStopRequested>>

\* ... and only then sets the flag and signals, ...
CreateSetStop ==
  /\ pc.create = "setStop"
  /\ threadStopRequested' = TRUE
  /\ pc' = SignalNotFull([pc EXCEPT !.create = "pushPartial"])
  /\ UNCHANGED <<flowVars, flagVars, restVars>>

\* Mutant: lastBufPushed is not set.
CreatePushPartial_NoFlag ==
  /\ pc.create = "pushPartial" /\ MutexFree
  /\ IF currBlock /\ currBlockOffset < BlockSize
       THEN /\ Push(stored - currBlockOffset, currBlockOffset)
            /\ currBlock' = FALSE
            /\ pc' = [pc EXCEPT !.create = "pushQueued"]
       ELSE /\ pc' = [pc EXCEPT !.create = "pushQueued"]
            /\ UNCHANGED <<outVars, currBlock>>
  /\ UNCHANGED <<flagVars, queueVars, dataVars, boundVars, currBlockOffset,
                 stored, flowTimerMutex, result, threadStopRequested>>

\* ... a partial block goes downstream, ahead of whatever is queued, ...
CreatePushPartial ==
  /\ pc.create = "pushPartial" /\ MutexFree
  /\ IF currBlock /\ currBlockOffset < BlockSize
       THEN /\ Push(stored - currBlockOffset, currBlockOffset)
            /\ currBlock' = FALSE
            /\ pc' = [pc EXCEPT !.create = "pushEos"]
       ELSE /\ pc' = [pc EXCEPT !.create = "pushQueued"]
            /\ UNCHANGED <<outVars, currBlock>>
  /\ UNCHANGED <<flagVars, queueVars, dataVars, boundVars, currBlockOffset,
                 stored, flowTimerMutex, result, threadStopRequested>>

\* ... or else the queued block, if there is exactly one, ...
CreatePushQueued ==
  /\ pc.create = "pushQueued"
  /\ pc' = [pc EXCEPT !.create = "pushEos"]
  /\ IF LastBlockQueued
       THEN /\ Push(Head(queue).from, Head(queue).size)
            /\ FlushQueue
       ELSE UNCHANGED <<queueVars, outVars, currBlockOffset>>
  /\ UNCHANGED <<flagVars, dataVars, boundVars, currBlock, stored,
                 flowTimerMutex, result, threadStopRequested>>

\* Mutant: create() does not make the task pause.
CreatePushEos_GoesOn ==
  /\ pc.create = "pushEos"
  /\ IF ~eosEventPushed /\ (threadStarted \/ sessionPaused)
       THEN \E accepted \in BOOLEAN :
              /\ accepted \/ pc.ctl = "unlocking"
              /\ eosEventPushed' = accepted
       ELSE UNCHANGED eosEventPushed
  /\ pc' = [pc EXCEPT !.create = "idle"]
  /\ UNCHANGED <<flowVars, restVars, threadVars, pauseVars, headerVars,
                 sessionError, threadStopRequested>>

\* ... and EOS once; a flushing pad refuses the event.
CreatePushEos ==
  /\ pc.create = "pushEos"
  /\ IF ~eosEventPushed /\ (threadStarted \/ sessionPaused)
       THEN \E accepted \in BOOLEAN :
              /\ accepted \/ pc.ctl = "unlocking"
              /\ eosEventPushed' = accepted
       ELSE UNCHANGED eosEventPushed
  /\ pc' = [pc EXCEPT !.create = "paused"]
  /\ UNCHANGED <<flowVars, restVars, threadVars, pauseVars, headerVars,
                 sessionError, threadStopRequested>>

-----------------------------------------------------------------------------
(* The session thread.  curl_easy_perform() calls the progress, header and *)
(* write callbacks; "perform" is the time between two callbacks.           *)

SessionBegin ==
  /\ pc.session = "begin"
  /\ threadRunning' = TRUE
  /\ \/ /\ pc' = [pc EXCEPT !.session = "perform"]
        /\ numTrailerHeadersExpected' \in 0..MaxTrailers
     \/ /\ "curl_init" \in Faults
        /\ pc' = [pc EXCEPT !.session = "done"]
        /\ UNCHANGED numTrailerHeadersExpected
  /\ UNCHANGED <<flowVars, restVars, pauseVars, endVars, threadStarted,
                 flowTimerThreadStarted, haveFirstData, haveTrailers,
                 threadStopRequested>>

\* progress_callback(): the only place where a stop request ends the transfer.
SessionProgress ==
  /\ pc.session = "perform"
  /\ sessionPaused' = (sessionPaused /\ ~sessionUnPause)
  /\ sessionUnPause' = (sessionUnPause /\ ~sessionPaused)
  /\ IF threadStopRequested
       THEN pc' = [pc EXCEPT !.session = "ended"] /\ result' = "closed"
       ELSE UNCHANGED <<result, pc>>
  /\ UNCHANGED <<flowVars, threadVars, headerVars, endVars, outVars, boundVars,
                 threadStopRequested>>

\* The transfer ends by itself.  A transfer paused at its trailers does not.
SessionResult(r) ==
  /\ pc.session = "perform" /\ ~haveTrailers
  /\ r = "ok" => toSend = 0 /\ numTrailerHeadersExpected = 0
  /\ result' = r
  /\ pc' = [pc EXCEPT !.session = "ended"]
  /\ UNCHANGED <<flowVars, flagVars, outVars, boundVars, threadStopRequested>>

\* header_callback() with a trailer: the last one expected pauses the transfer
\* and, with its next steps, tells create() so.
SessionTrailer ==
  /\ pc.session = "perform" /\ toSend = 0 /\ numTrailerHeadersExpected > 0
  /\ numTrailerHeadersExpected' = numTrailerHeadersExpected - 1
  /\ IF numTrailerHeadersExpected = 1
       THEN sessionPaused' = TRUE /\ pc' = [pc EXCEPT !.session = "trailer"]
       ELSE UNCHANGED <<sessionPaused, pc>>
  /\ UNCHANGED <<flowVars, restVars, threadVars, endVars, sessionUnPause,
                 haveFirstData, haveTrailers, threadStopRequested>>

SessionTrailerWake ==
  /\ pc.session = "trailer"
  /\ haveTrailers' = TRUE
  /\ pc' = SignalNotEmpty([pc EXCEPT !.session = "perform"])
  /\ UNCHANGED <<flowVars, restVars, threadVars, pauseVars, endVars,
                 haveFirstData, numTrailerHeadersExpected,
                 threadStopRequested>>

\* data_received() with n bytes: refused unless the element runs.
SessionReceive(n) ==
  /\ pc.session = "perform" /\ ~haveTrailers /\ n <= toSend
  /\ MutexFree
  /\ toSend' = toSend - n
  /\ IF threadStarted /\ ~threadStopRequested
       THEN /\ flowTimerMutex' = "session"
            /\ chunk' = n
            /\ haveFirstData' = TRUE
            /\ LET filling == [pc EXCEPT !.session = "fill"]
               IN  pc' = IF haveFirstData THEN filling ELSE SignalTimer(filling)
       ELSE /\ pc' = [pc EXCEPT !.session = "reject"]
            /\ UNCHANGED <<chunk, flowTimerMutex, haveFirstData>>
  /\ UNCHANGED <<restVars, queueVars, blockVars, threadVars, pauseVars,
                 endVars, block, haveTrailers, numTrailerHeadersExpected,
                 threadStopRequested>>

\* One turn of the copy loop: into the partial block if there is one, else into
\* a new one.  A full block goes to buffer_ready(), which first tells the timer.
SessionFill ==
  /\ pc.session = "fill"
  /\ IF chunk < Avail
       THEN /\ currBlock' = TRUE
            /\ currBlockOffset' = Offset + chunk
            /\ stored' = stored + chunk
            /\ chunk' = 0
            /\ flowTimerMutex' = "none"
            /\ pc' = [pc EXCEPT !.session = "perform"]
            /\ UNCHANGED block
       ELSE /\ currBlock' = FALSE
            /\ stored' = stored + Avail
            /\ chunk' = chunk - Avail
            /\ block' = BlockSize
            /\ pc' = SignalTimer([pc EXCEPT !.session = "enqueue"])
            /\ UNCHANGED <<currBlockOffset, flowTimerMutex>>
  /\ UNCHANGED <<flagVars, restVars, queueVars, toSend, threadStopRequested>>

\* What data_received() returns after a refusal: the size it was given if a stop
\* was requested, else 0, which curl takes for a write error.
SessionReject ==
  /\ pc.session = "reject"
  /\ IF threadStarted /\ threadStopRequested
       THEN pc' = [pc EXCEPT !.session = "perform"] /\ UNCHANGED result
       ELSE pc' = [pc EXCEPT !.session = "ended"] /\ result' = "error"
  /\ UNCHANGED <<flowVars, flagVars, outVars, boundVars, threadStopRequested>>

\* After curl_easy_perform(): a stop request makes the result irrelevant.
SessionEnded ==
  /\ pc.session = "ended"
  /\ pc' = [pc EXCEPT !.session = IF threadStopRequested THEN "awaitTimer" ELSE "mark"]
  /\ UNCHANGED <<flowVars, flagVars, restVars, threadStopRequested>>

\* Otherwise it is sorted: m_sessionError, a stop request, both or neither.
SessionMark ==
  /\ pc.session = "mark"
  /\ sessionError' = (sessionError \/ result \in {"error", "network"})
  /\ pc' = [pc EXCEPT !.session =
              IF result \in {"network", "closed"} THEN "flagStop" ELSE "pause"]
  /\ UNCHANGED <<flowVars, restVars, threadVars, pauseVars, headerVars,
                 eosEventPushed, threadStopRequested>>

SessionFlagStop ==
  /\ pc.session = "flagStop"
  /\ threadStopRequested' = TRUE
  /\ pc' = [pc EXCEPT !.session = "pause"]
  /\ UNCHANGED <<flowVars, flagVars, restVars>>

\* The session reports itself paused; nobody is woken.
SessionPause ==
  /\ pc.session = "pause"
  /\ sessionPaused' = TRUE
  /\ pc' = [pc EXCEPT !.session = "awaitTimer"]
  /\ UNCHANGED <<flowVars, restVars, threadVars, headerVars, endVars,
                 sessionUnPause, threadStopRequested>>

\* Up to 2 s for the timer to start, then it is signalled.
SessionAwaitTimer ==
  /\ pc.session = "awaitTimer" /\ MutexFree
  /\ flowTimerThreadStarted \/ "late_timer" \in Faults
  /\ pc' = SignalTimer([pc EXCEPT !.session = "joinTimer"])
  /\ UNCHANGED <<flowVars, flagVars, restVars, threadStopRequested>>

\* Mutant: the flow timer is not joined.
SessionJoinTimer_NoJoin ==
  /\ pc.session = "joinTimer"
  /\ flowTimerThreadStarted' = FALSE
  /\ threadStarted' = FALSE
  /\ pc' = [pc EXCEPT !.session = "wake"]
  /\ UNCHANGED <<flowVars, restVars, pauseVars, headerVars, endVars,
                 threadRunning, threadStopRequested>>

SessionJoinTimer ==
  /\ pc.session = "joinTimer" /\ pc.timer = "done"
  /\ flowTimerThreadStarted' = FALSE
  /\ threadStarted' = FALSE
  /\ pc' = [pc EXCEPT !.session = "wake", !.timer = "none"]
  /\ UNCHANGED <<flowVars, restVars, pauseVars, headerVars, endVars,
                 threadRunning, threadStopRequested>>

\* "wakeup src thread which might be blocked in create"
SessionWake ==
  /\ pc.session = "wake"
  /\ pc' = SignalNotEmpty([pc EXCEPT !.session = "done"])
  /\ UNCHANGED <<flowVars, flagVars, restVars, threadStopRequested>>

-----------------------------------------------------------------------------
(* buffer_ready(), called by the session thread and by the flow timer, who *)
(* holds flowTimerMutex throughout.                                        *)

\* Where the caller goes on: the session copies the rest of its chunk.
Copying(t) == t = "session" /\ chunk > 0

\* The block joins the queue; an empty queue wakes create().
Enqueue(t) ==
  /\ pc[t] = "enqueue" /\ ~Full
  /\ queue' = Append(queue,
       [from |-> stored - block,
        size |-> block,
        at |-> IF queue = <<>> THEN 0
               ELSE queue[Len(queue)].at + queue[Len(queue)].size])
  /\ queuedByteCount' = queuedByteCount + block
  /\ block' = 0
  /\ flowTimerMutex' = IF Copying(t) THEN flowTimerMutex ELSE "none"
  /\ LET returned == [pc EXCEPT ![t] = IF Copying(t) THEN "fill"
                                       ELSE IF t = "session" THEN "perform"
                                       ELSE "loop"]
     IN  pc' = IF queue = <<>> THEN SignalNotEmpty(returned) ELSE returned
  /\ UNCHANGED <<flagVars, restVars, blockVars, chunk, toSend,
                 threadStopRequested>>

\* Full and no stop request: wait for room.  queueNotFullMutex may be with
\* create(), about to request the stop that was just tested for.
EnqueueWait(t) ==
  /\ pc[t] = "enqueue" /\ Full /\ ~threadStopRequested
  /\ pc' = [pc EXCEPT ![t] = IF pc.create = "setStop" THEN "lockNotFull"
                             ELSE "waitNotFull"]
  /\ UNCHANGED <<flowVars, flagVars, restVars, threadStopRequested>>

EnqueueLocked(t) ==
  /\ pc[t] = "lockNotFull" /\ pc.create # "setStop"
  /\ pc' = [pc EXCEPT ![t] = "waitNotFull"]
  /\ UNCHANGED <<flowVars, flagVars, restVars, threadStopRequested>>

\* A stop request, found before or after the wait, makes buffer_ready() fail:
\* data_received() frees the block and skips the rest of its chunk.
EnqueueFails(t) ==
  /\ \/ pc[t] = "enqueue" /\ Full
     \/ pc[t] = "wokenNotFull"
  /\ threadStopRequested
  /\ stored' = stored - block
  /\ block' = 0 /\ chunk' = 0
  /\ flowTimerMutex' = "none"
  /\ pc' = [pc EXCEPT ![t] = IF t = "session" THEN "reject" ELSE "loop"]
  /\ UNCHANGED <<flagVars, restVars, queueVars, currBlock, currBlockOffset,
                 toSend, threadStopRequested>>

EnqueueWoken(t) ==
  /\ pc[t] = "wokenNotFull" /\ ~threadStopRequested
  /\ pc' = [pc EXCEPT ![t] = "enqueue"]
  /\ UNCHANGED <<flowVars, flagVars, restVars, threadStopRequested>>

BufferReady(t) ==
  Enqueue(t) \/ EnqueueWait(t) \/ EnqueueLocked(t) \/ EnqueueFails(t) \/ EnqueueWoken(t)

-----------------------------------------------------------------------------
(* The flow timer thread.                                                  *)

\* It waits for the first chunk with no predicate, unless a stop was requested.
TimerBegin ==
  /\ pc.timer = "begin" /\ MutexFree
  /\ flowTimerThreadStarted' = TRUE
  /\ pc' = [pc EXCEPT !.timer = IF threadStopRequested THEN "loop" ELSE "waitFirst"]
  /\ UNCHANGED <<flowVars, restVars, pauseVars, headerVars, endVars,
                 threadStarted, threadRunning, threadStopRequested>>

\* The wait returns once it has the mutex back, which is let go at once.
TimerWoken ==
  /\ pc.timer = "woken" /\ MutexFree
  /\ pc' = [pc EXCEPT !.timer = "loop"]
  /\ UNCHANGED <<flowVars, flagVars, restVars, threadStopRequested>>

TimerLoop ==
  /\ pc.timer = "loop"
  /\ \/ threadStopRequested /\ pc' = [pc EXCEPT !.timer = "done"]
     \/ /\ ~threadStopRequested /\ MutexFree
        /\ pc' = [pc EXCEPT !.timer = "timedWait"]
  /\ UNCHANGED <<flowVars, flagVars, restVars, threadStopRequested>>

\* Mutant: the expiry is not reported to data_received().
TimerExpires_NoFlush ==
  /\ pc.timer = "timedWait"
  /\ pc' = [pc EXCEPT !.timer = "loop"]
  /\ UNCHANGED <<flowVars, flagVars, restVars, threadStopRequested>>

TimerExpires ==
  /\ pc.timer = "timedWait"
  /\ pc' = [pc EXCEPT !.timer = "flush"]
  /\ UNCHANGED <<flowVars, flagVars, restVars, threadStopRequested>>

\* data_received(NULL): "consider current buffer, if any, complete".
TimerFlush ==
  /\ pc.timer = "flush" /\ MutexFree
  /\ IF currBlock
       THEN /\ flowTimerMutex' = "timer"
            /\ block' = currBlockOffset
            /\ currBlock' = FALSE
            /\ pc' = [pc EXCEPT !.timer = "enqueue"]
       ELSE /\ pc' = [pc EXCEPT !.timer = "loop"]
            /\ UNCHANGED <<currBlock, block, flowTimerMutex>>
  /\ UNCHANGED <<flagVars, restVars, queueVars, currBlockOffset, stored, chunk,
                 toSend, threadStopRequested>>

-----------------------------------------------------------------------------
\* pthread_cond_wait() may return without a signal.
SpuriousWakeup ==
  /\ pc' \in {SignalNotEmpty(pc), SignalNotFull(pc), SignalTimer(pc)}
  /\ UNCHANGED <<flowVars, flagVars, restVars, threadStopRequested>>

\* The application is done with the element, for good.
Terminated ==
  /\ pc.ctl = "null" /\ (starts = MaxStarts \/ pc.timer # "none")
  /\ UNCHANGED vars

Start == StartTimer \/ StartSession \/ StartReturns
Stop == StopRequest \/ StopSignal \/ StopJoin

Create ==
  \/ CreateEnter \/ CreatePop \/ CreateEmpty \/ CreateWoken \/ CreateFailed
  \/ CreateRequestStop \/ CreateSetStop \/ CreatePushPartial \/ CreatePushQueued \/ CreatePushEos

SessionEnds ==
  \/ SessionEnded \/ SessionMark \/ SessionFlagStop \/ SessionPause
  \/ SessionAwaitTimer \/ SessionJoinTimer \/ SessionWake

Session ==
  \/ SessionBegin \/ SessionProgress
  \/ \E r \in Results : SessionResult(r)
  \/ SessionTrailer \/ SessionTrailerWake
  \/ \E n \in 1..MaxChunk : SessionReceive(n)
  \/ SessionFill \/ SessionReject \/ SessionEnds
  \/ BufferReady("session")

Timer ==
  \/ TimerBegin \/ TimerWoken \/ TimerLoop \/ TimerExpires \/ TimerFlush
  \/ BufferReady("timer")

Next ==
  \/ Start \/ Unlock \/ Flushed \/ UnlockStop \/ Resume \/ Stop
  \/ Create \/ Session \/ Timer \/ SpuriousWakeup \/ Terminated

Spec == Init /\ [][Next]_vars
-----------------------------------------------------------------------------
(* Fairness: the scheduler runs every thread, curl keeps calling the       *)
(* progress callback, and the timed wait expires now and then (it is not   *)
(* cut short by a spurious wakeup every time).  The application need not   *)
(* call anything, and the server may stall for ever.                       *)

CtlCompletes == StartSession \/ StartReturns \/ Flushed \/ StopSignal \/ StopJoin

SessionRuns ==
  \/ SessionBegin \/ SessionTrailerWake \/ SessionFill \/ SessionReject
  \/ SessionEnds \/ BufferReady("session")

Fairness ==
  /\ WF_vars(CtlCompletes) /\ WF_vars(Create)
  /\ WF_vars(SessionRuns) /\ WF_vars(SessionProgress)
  /\ WF_vars(Timer) /\ SF_vars(TimerExpires)

FairSpec == Spec /\ Fairness

\* A server that goes on and completes the transfer.
ServerCompletes ==
  /\ WF_vars(\E n \in 1..MaxChunk : SessionReceive(n))
  /\ WF_vars(SessionResult("ok"))

CompletingSpec == FairSpec /\ ServerCompletes

-----------------------------------------------------------------------------
(* Every variable stays in its domain; in particular m_queuedByteCount is  *)
(* never negative, which create() asserts.                                 *)
TypeOK ==
  /\ queue \in Seq(Element) /\ queuedByteCount \in Nat
  /\ currBlock \in BOOLEAN /\ currBlockOffset \in 0..BlockSize
  /\ flowTimerMutex \in {"none", "session", "timer"}
  /\ threadStarted \in BOOLEAN /\ threadRunning \in BOOLEAN
  /\ threadStopRequested \in BOOLEAN /\ flowTimerThreadStarted \in BOOLEAN
  /\ sessionPaused \in BOOLEAN /\ sessionUnPause \in BOOLEAN
  /\ sessionError \in BOOLEAN
  /\ haveFirstData \in BOOLEAN /\ haveTrailers \in BOOLEAN
  /\ numTrailerHeadersExpected \in 0..MaxTrailers
  /\ eosEventPushed \in BOOLEAN /\ readPosition \in Nat
  /\ pc \in [ctl : CtlPC, create : CreatePC, session : SessionPC, timer : TimerPC]
  /\ block \in 0..BlockSize /\ chunk \in 0..MaxChunk
  /\ result \in ResultKinds /\ toSend \in 0..ContentLength
  /\ stored \in Nat
  /\ out \in [end : Nat \cup {AnyPlace}, breaks : Nat]
  /\ starts \in 0..MaxStarts /\ flushes \in 0..MaxFlushes

\* m_queuedByteCount is exactly the number of bytes in the queue, and one block
\* more than the full mark at most.
QueueAccounting ==
  /\ queuedByteCount =
       IF queue = <<>> THEN 0
       ELSE queue[Len(queue)].at + queue[Len(queue)].size - queue[1].at
  /\ queuedByteCount <= FullMark + BlockSize

\* Every byte accepted from the server is in one place: pushed downstream,
\* queued, in the partial block, or in the hands of buffer_ready().
Conservation ==
  stored = readPosition + queuedByteCount + block
           + Offset

\* The bytes that wait inside the element are in stream order: the queued blocks
\* first, then the block in the hands of buffer_ready() or the partial block.
InStreamOrder ==
  LET inside == stored - block - Offset
  IN  /\ \A i \in 1..Len(queue) : queue[i].from + queue[i].size <= inside
      /\ \A i \in 1..Len(queue), j \in 1..Len(queue) :
           i < j => queue[i].from + queue[i].size <= queue[j].from

\* Downstream never gets a byte twice, nor an earlier byte after a later one.
OutputInOrder ==
  [][pc.ctl # "joining" /\ flushes' = flushes => out'.end >= out.end]_vars

\* Bytes are only ever skipped by the very last push of a session, the one that
\* create() makes before EOS (a flushing seek may resume after it).
GapIsLast ==
  [][flushes' = 0 /\ out.breaks > 0 => out' = out \/ pc.ctl = "joining"]_vars

\* The queue, the partial block and the two producers come to this: to downstream the
\* element is a stream of bytes in order, complete but for what the last push may skip.
Stream == INSTANCE ByteStream WITH
  accepted <- stored, delivered <- readPosition, next <- out.end,
  gap <- out.breaks > 0, flushed <- flushes > 0
StreamOfBytes == Stream!StreamSpec

\* Once create() has looked at the partial block after its stop request, nobody
\* adds to the queue it goes on to look at.
QueueSettled ==
  [][(/\ pc.create \in {"pushQueued", "pushEos", "paused"}
      /\ pc.ctl \in {"running", "unlocking", "flushed"})
     => Len(queue') <= Len(queue)]_vars

\* When create() has pushed EOS after a complete transfer, what downstream lacks
\* is blocks left in the queue (two or more, or one that a partial block was pushed
\* past, unless it is empty: stop() leaves m_currBlock, and the flow timer may queue
\* it before the next session fills it) and less than one block that the flow timer
\* had to free.
EosLossBounded ==
  /\ eosEventPushed /\ result = "ok" /\ flushes = 0
  /\ pc.ctl = "running" /\ pc.session \in {"awaitTimer", "joinTimer", "wake", "done"}
  => /\ readPosition + queuedByteCount + BlockSize > ContentLength
     /\ Len(queue) = 1 /\ queuedByteCount > 0 => out.breaks > 0

\* Nobody misses a wakeup of the queue: a producer sleeps only while the queue is full,
\* create() only while it is empty, and so never both at once.
NoWakeupLost ==
  /\ \A t \in {"session", "timer"} : pc[t] = "waitNotFull" => Full
  /\ pc.create = "waitNotEmpty" => queue = <<>>

\* After stop() no thread of the element is left to run into the reset state,
\* unless curl_easy_init() failed and nobody joined the flow timer.
StopJoinsThreads ==
  pc.ctl = "null" => pc.timer = "none" \/ "curl_init" \in Faults

\* create() has requested a stop that a producer, holding flowTimerMutex, tested
\* for just before: the producer waits, and create() waits for the mutex.
StopMissed ==
  pc.create = "pushPartial" /\ \E t \in {"session", "timer"} : pc[t] = "waitNotFull"

\* unlock() gets a blocked create() to return, though it signals no condition:
\* it makes the session end, which has to "wakeup src thread which might be
\* blocked in create".
UnlockReturns == pc.ctl = "unlocking" ~> pc.ctl = "flushed"

\* Nothing but a missed stop request keeps unlock() from getting create() to
\* return.
UnlockReturnsUnlessMissed == pc.ctl = "unlocking" ~> pc.ctl = "flushed" \/ StopMissed

\* stop() returns.
StopReturns == pc.ctl = "stopping" ~> pc.ctl = "null"

\* Once the flow timer runs, a partial block does not stay back.
TimerFlushesPartial ==
  pc.timer \in {"woken", "loop", "timedWait", "flush"} /\ currBlock
    ~> ~currBlock \/ threadStopRequested

\* A producer that found the queue full is woken, unless it missed the stop
\* request or the consumer is gone: after m_sessionError create() leaves for good
\* and signals nobody.
RoomIsSignalled ==
  \A t \in {"session", "timer"} :
    pc[t] = "waitNotFull"
      ~> \/ pc[t] # "waitNotFull" \/ StopMissed
         \/ pc.ctl \in {"flushed", "cleared"} \/ pc.create = "error"

\* A create() that waits while the session of a complete transfer comes to its
\* end is woken ("wakeup src thread which might be blocked in create").
EndWakesCreate ==
  pc.session = "pause" /\ result = "ok" /\ pc.create = "waitNotEmpty"
    ~> pc.create # "waitNotEmpty"

\* "indicate to flow timer we received the first buffer": from then on, a partial
\* block does not stay back while the element runs.
FirstChunkStartsTimer ==
  haveFirstData /\ currBlock /\ pc.ctl = "running"
    ~> ~currBlock \/ threadStopRequested \/ pc.ctl # "running"
=============================================================================
