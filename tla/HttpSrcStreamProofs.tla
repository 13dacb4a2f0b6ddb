------------------------- MODULE HttpSrcStreamProofs -------------------------
(***************************************************************************)
(* HttpSrc implements ByteStream, for every block size, queue factor,      *)
(* content length and bound.  Above Control and Data of HttpSrcProofs,     *)
(* StreamInv relates what went downstream to what waits inside, and Ending *)
(* says what is left where when a transfer is over.                        *)
(***************************************************************************)
EXTENDS HttpSrcProofs

\* create() has pushed what it had, or left it in the queue.
Over == pc.create \in {"pushEos", "paused"}

\* How many bytes are neither in the partial block nor in buffer_ready()'s hands.
Inside == stored - block - Offset

\* What went downstream comes before what waits, until the last push may have skipped
\* the queue.
Behind ==
  /\ out.end <= Inside
  /\ ~Over => \A i \in 1 .. Len(queue) : out.end <= queue[i].from

\* Without a flush, the queue goes on where the output ends.
Seamless ==
  flushes = 0 /\ ~Over =>
    /\ out.breaks = 0 /\ out.end = readPosition
    /\ \A i \in 1 .. Len(queue) :
         queue[i].from = readPosition + queue[i].at - queue[1].at

StreamInv == OutType /\ flushes \in Nat /\ Behind /\ Seamless

Invariants == Control /\ Data /\ InStreamOrder /\ StreamInv

\* The state that StreamInv speaks of, besides create()'s place.
streamState == <<queue, blockVars, block, out, readPosition, flushes>>

-----------------------------------------------------------------------------
\* The numbers the invariants are about are numbers.
LEMMA StreamTypes ==
  ASSUME Invariants
  PROVE  /\ stored \in Nat /\ block \in Nat /\ Offset \in Nat /\ Inside \in Nat
         /\ readPosition \in Nat /\ queuedByteCount \in Nat
         /\ Inside = readPosition + queuedByteCount
         /\ out.end \in Int /\ out.breaks \in Nat /\ Len(queue) \in Nat
  BY BlockSizeAssumption
     DEF Invariants, Control, PartialBlock, Data, Linked, BlockOwner, Totals,
         Conservation, Offset, Inside, StreamInv, OutType, AnyPlace

\* StreamInv depends on the blocks, the output and create()'s place.
LEMMA StreamStable ==
  ASSUME StreamInv, UNCHANGED streamState, Over => Over'
  PROVE  StreamInv'
<1> USE DEF streamState, blockVars
<1>1. OutType' /\ flushes' \in Nat
  BY DEF StreamInv, OutType
<1>2. Behind'
  BY DEF StreamInv, Behind, Inside, Offset
<1>3. Seamless'
  BY DEF StreamInv, Seamless
<1>4. QED
  BY <1>1, <1>2, <1>3 DEF StreamInv

\* The actions that leave it alone.
StreamKept ==
  \/ Start \/ Unlock \/ Flushed \/ UnlockStop \/ StopRequest \/ StopSignal
  \/ CreateEnter \/ CreateEmpty \/ CreateWoken \/ CreateFailed
  \/ CreateRequestStop \/ CreateSetStop \/ CreatePushEos
  \/ SessionBegin \/ SessionProgress \/ SessionTrailer \/ SessionTrailerWake
  \/ SessionReject \/ SessionEnds \/ (\E r \in Results : SessionResult(r))
  \/ (\E n \in 1..MaxChunk : SessionReceive(n))
  \/ (\E t \in {"session", "timer"} : EnqueueWait(t) \/ EnqueueLocked(t) \/ EnqueueWoken(t))
  \/ TimerBegin \/ TimerWoken \/ TimerLoop \/ TimerExpires
  \/ SpuriousWakeup \/ UNCHANGED vars

\* The signals do not move a create() that does not wait.
LEMMA SignalsLeaveOver ==
  ASSUME NEW p \in Places, p.create \in {"pushEos", "paused"}
  PROVE  /\ SignalNotEmpty(p).create = p.create
         /\ SignalNotFull(p).create = p.create
         /\ SignalTimer(p).create = p.create
  BY SignalNotEmptyEffect, SignalNotFullEffect, SignalTimerEffect

\* They touch neither the blocks nor the output, and create() stays where it is over.
LEMMA StreamKeptStep ==
  ASSUME Control, StreamKept
  PROVE  UNCHANGED streamState /\ (Over => Over')
<1> USE DEF Control, ControlTypes, Quiet, Places, Over, streamState,
            flowVars, queueVars, blockVars, dataVars, outVars, restVars, boundVars
<1>1. CASE Start
  BY <1>1 DEF Start, StartTimer, StartSession, StartReturns
<1>2. CASE Unlock \/ Flushed \/ UnlockStop
  BY <1>2 DEF Unlock, Flushed, UnlockStop
<1>3. CASE StopRequest
  BY <1>3 DEF StopRequest
<1>4. CASE StopSignal
  <2>1. [pc EXCEPT !.ctl = "joining"] \in Places
    BY DEF CtlPC
  <2>2. QED
    BY <1>4, <2>1, SignalsLeaveOver DEF StopSignal
<1>5. CASE CreateEnter \/ CreateEmpty \/ CreateWoken \/ CreateFailed \/ CreateRequestStop
  BY <1>5 DEF CreateEnter, CreateEmpty, CreateWoken, CreateFailed, CreateRequestStop
<1>6. CASE CreateSetStop
  BY <1>6 DEF CreateSetStop
<1>7. CASE CreatePushEos
  BY <1>7 DEF CreatePushEos
<1>8. CASE SessionBegin \/ SessionProgress \/ SessionTrailer \/ SessionReject
  BY <1>8 DEF SessionBegin, SessionProgress, SessionTrailer, SessionReject
<1>9. CASE SessionTrailerWake
  <2>1. [pc EXCEPT !.session = "perform"] \in Places
    BY DEF SessionPC
  <2>2. QED
    BY <1>9, <2>1, SignalsLeaveOver DEF SessionTrailerWake
<1>10. CASE SessionEnds
  <2>1. [pc EXCEPT !.session = "joinTimer"] \in Places
    BY DEF SessionPC
  <2>2. [pc EXCEPT !.session = "done"] \in Places
    BY DEF SessionPC
  <2>3. CASE SessionAwaitTimer
    BY <2>1, <2>3, SignalsLeaveOver DEF SessionAwaitTimer
  <2>4. CASE SessionWake
    BY <2>2, <2>4, SignalsLeaveOver DEF SessionWake
  <2>5. QED
    BY <1>10, <2>3, <2>4
       DEF SessionEnds, SessionEnded, SessionMark, SessionFlagStop, SessionPause,
           SessionJoinTimer
<1>11. ASSUME NEW r \in Results, SessionResult(r)
       PROVE  UNCHANGED streamState /\ (Over => Over')
  BY <1>11 DEF SessionResult
<1>12. ASSUME NEW n \in 1..MaxChunk, SessionReceive(n)
       PROVE  UNCHANGED streamState /\ (Over => Over')
  <2>1. [pc EXCEPT !.session = "fill"] \in Places
    BY DEF SessionPC
  <2>2. QED
    BY <1>12, <2>1, SignalsLeaveOver DEF SessionReceive
<1>13. ASSUME NEW t \in {"session", "timer"},
              EnqueueWait(t) \/ EnqueueLocked(t) \/ EnqueueWoken(t)
       PROVE  UNCHANGED streamState /\ (Over => Over')
  BY <1>13 DEF EnqueueWait, EnqueueLocked, EnqueueWoken
<1>14. CASE TimerBegin \/ TimerWoken \/ TimerLoop \/ TimerExpires
  BY <1>14 DEF TimerBegin, TimerWoken, TimerLoop, TimerExpires
<1>15. CASE SpuriousWakeup
  BY <1>15, SignalsLeaveOver DEF SpuriousWakeup
<1>16. CASE UNCHANGED vars
  BY <1>16 DEF vars
<1>17. QED
  BY <1>1, <1>2, <1>3, <1>4, <1>5, <1>6, <1>7, <1>8, <1>9, <1>10, <1>11, <1>12, <1>13,
     <1>14, <1>15, <1>16 DEF StreamKept

-----------------------------------------------------------------------------
(* The pushes.                                                             *)

\* A push from behind the output is what ByteStream calls a delivery.
LEMMA PushDelivers ==
  ASSUME Invariants, ~Over, NEW from \in Nat, NEW size \in Nat, Push(from, size),
         UNCHANGED <<stored, flushes>>, out.end <= from, from + size <= stored
  PROVE  /\ Stream!Deliver(from)
         /\ out'.end = from + size
         /\ OutType'
         /\ out.breaks = 0 /\ out.end = from => out'.breaks = 0
<1>1. /\ out'.end = from + size /\ readPosition' = readPosition + size
      /\ out'.breaks = IF out.end \in {from, AnyPlace} THEN out.breaks ELSE out.breaks + 1
      /\ out' = [end |-> out'.end, breaks |-> out'.breaks]
  BY DEF Push
<1>2. out.breaks \in Nat /\ out.end \in Int /\ stored \in Nat /\ readPosition \in Nat
  BY StreamTypes
<1>3. out.breaks > 0 => flushes > 0
  BY <1>2 DEF Invariants, StreamInv, Seamless
<1>4. out'.breaks \in Nat /\ out'.end \in Nat
  BY <1>1, <1>2
<1>5. OutType'
  BY <1>1, <1>4 DEF OutType
<1>6. (out.breaks > 0)' <=> (out.breaks > 0 \/ out.end \notin {from, AnyPlace})
  BY <1>1, <1>2
<1>7. (out.breaks > 0)' = (out.breaks > 0 \/ out.end \notin {from, Stream!Anywhere})
  BY <1>6 DEF AnyPlace, Stream!Anywhere
<1>8. /\ out.end <= from /\ out'.end \in from..stored
      /\ readPosition' = readPosition + (out'.end - from)
  BY <1>1, <1>2
<1>9. (flushes > 0)' = (flushes > 0)
  OBVIOUS
<1>10. Stream!Deliver(from)
  BY <1>3, <1>7, <1>8, <1>9, Zenon DEF Stream!Deliver
<1>11. QED
  BY <1>1, <1>5, <1>10

\* The first block of the queue continues the output.
LEMMA FirstContinues ==
  ASSUME Invariants, ~Over, queue # <<>>
  PROVE  /\ Head(queue) \in Element /\ Head(queue) = queue[1]
         /\ Head(queue).from \in Nat /\ Head(queue).size \in Nat
         /\ out.end <= Head(queue).from
         /\ Head(queue).from + Head(queue).size <= Inside
         /\ flushes = 0 => Head(queue).from = readPosition /\ out.end = readPosition
                           /\ out.breaks = 0
<1>1. queue \in Seq(Element) /\ 1 \in 1 .. Len(queue)
  BY DEF Invariants, Data, Linked
<1>2. Head(queue) \in Element /\ Head(queue) = queue[1]
  BY <1>1
<1>3. queue[1].from \in Nat /\ queue[1].size \in Nat /\ queue[1].at \in Nat
  BY <1>1, LinkedElements, BlockSizeAssumption DEF Invariants, Data
<1>4. out.end <= queue[1].from
  BY <1>1 DEF Invariants, StreamInv, Behind
<1>5. queue[1].from + queue[1].size <= Inside
  BY <1>1 DEF Invariants, InStreamOrder, Inside
<1>6. flushes = 0 => queue[1].from = readPosition /\ out.end = readPosition /\ out.breaks = 0
  <2>1. readPosition \in Nat
    BY StreamTypes
  <2>2. QED
    BY <1>1, <1>3, <2>1 DEF Invariants, StreamInv, Seamless
<1>7. QED
  BY <1>2, <1>3, <1>4, <1>5, <1>6

\* create() takes the first block.
LEMMA StreamPop ==
  ASSUME Invariants, CreatePop
  PROVE  StreamInv' /\ Stream!StreamNext /\ out'.end >= out.end
<1>1. /\ queue # <<>> /\ queue' = Tail(queue) /\ ~Over
      /\ Push(Head(queue).from, Head(queue).size)
      /\ UNCHANGED <<stored, block, currBlock, currBlockOffset, flushes>>
  BY DEF CreatePop, Over, blockVars, dataVars, boundVars
<1> DEFINE from == Head(queue).from
           size == Head(queue).size
<1>2. /\ from \in Nat /\ size \in Nat /\ out.end <= from /\ from + size <= Inside
      /\ Head(queue) = queue[1]
      /\ flushes = 0 => from = readPosition /\ out.end = readPosition /\ out.breaks = 0
  BY <1>1, FirstContinues
<1>3. /\ stored \in Nat /\ Inside \in Nat /\ Inside <= stored /\ readPosition \in Nat
      /\ Len(queue) \in Nat /\ out.end \in Int
  BY StreamTypes DEF Inside
<1> HIDE DEF from, size
<1>4. /\ Stream!Deliver(from) /\ out'.end = from + size /\ OutType'
      /\ out.breaks = 0 /\ out.end = from => out'.breaks = 0
  BY <1>1, <1>2, <1>3, PushDelivers DEF from, size
<1>5. /\ queue \in Seq(Element) /\ Len(queue') = Len(queue) - 1
      /\ \A i \in 1 .. Len(queue') : i + 1 \in 1 .. Len(queue) /\ queue'[i] = queue[i + 1]
  BY <1>1 DEF Invariants, Data, Linked
<1>6. Behind'
  <2>1. out'.end <= Inside'
    BY <1>1, <1>2, <1>4 DEF Inside, Offset
  <2>2. ASSUME NEW i \in 1 .. Len(queue')
        PROVE  out'.end <= queue'[i].from
    BY <1>2, <1>3, <1>4, <1>5 DEF Invariants, InStreamOrder, from, size
  <2>3. QED
    BY <2>1, <2>2 DEF Behind
<1>7. Seamless'
  <2> SUFFICES ASSUME flushes = 0
               PROVE  /\ out'.breaks = 0 /\ out'.end = readPosition'
                      /\ \A i \in 1 .. Len(queue') :
                           queue'[i].from = readPosition' + queue'[i].at - queue'[1].at
    BY <1>1 DEF Seamless
  <2>1. readPosition' = readPosition + size
    BY <1>1 DEF Push, size
  <2>2. out'.breaks = 0 /\ out'.end = readPosition'
    BY <1>2, <1>4, <2>1
  <2>3. ASSUME NEW i \in 1 .. Len(queue')
        PROVE  queue'[i].from = readPosition' + queue'[i].at - queue'[1].at
    <3>1. queue'[1] = queue[2] /\ 1 \in 1 .. Len(queue) - 1
      BY <1>3, <1>5
    <3>2. queue[2].at = queue[1].at + size
      BY <1>2, <3>1 DEF Invariants, Data, Linked, size
    <3>3. queue[i + 1].from = readPosition + queue[i + 1].at - queue[1].at
      BY <1>1, <1>5 DEF Invariants, StreamInv, Seamless
    <3>4. queue[1].at \in Nat /\ queue[i + 1].at \in Nat
      BY <1>3, <1>5, <3>1, LinkedElements DEF Invariants, Data
    <3>5. /\ queue'[i].from = queue[i + 1].from /\ queue'[i].at = queue[i + 1].at
          /\ queue'[1].at = queue[1].at + size
      BY <1>5, <3>1, <3>2
    <3>6. size \in Nat /\ readPosition \in Nat
      BY <1>2, <1>3
    <3>7. queue[i + 1].from = (readPosition + size) + queue[i + 1].at - (queue[1].at + size)
      BY <3>3, <3>4, <3>6
    <3>8. QED
      BY <2>1, <3>5, <3>7
  <2>4. QED
    BY <2>2, <2>3
<1>8. StreamInv'
  BY <1>1, <1>4, <1>6, <1>7 DEF Invariants, StreamInv
<1>9. Stream!StreamNext
  BY <1>2, <1>3, <1>4 DEF Stream!StreamNext
<1>10. QED
  BY <1>2, <1>3, <1>4, <1>8, <1>9

\* create() pushes the partial block, and nothing after it.
LEMMA StreamPushPartial ==
  ASSUME Invariants, CreatePushPartial, currBlock, currBlockOffset < BlockSize
  PROVE  StreamInv' /\ Stream!StreamNext /\ out'.end >= out.end
<1>1. /\ currBlock /\ currBlock' = FALSE /\ ~Over /\ Over' /\ flowTimerMutex = "none"
      /\ Push(stored - currBlockOffset, currBlockOffset)
      /\ UNCHANGED <<stored, block, currBlockOffset, flushes, queue>>
  BY DEF CreatePushPartial, Over, outVars, queueVars, dataVars, boundVars, MutexFree,
         Invariants, Control, ControlTypes, Places
<1>2. /\ block = 0 /\ Offset = currBlockOffset /\ Offset' = 0
  BY <1>1 DEF Offset, Invariants, Data, BlockOwner
<1>3. /\ stored \in Nat /\ Inside \in Nat /\ Offset \in Nat /\ out.end \in Int
      /\ Inside = stored - currBlockOffset
  BY <1>2, StreamTypes DEF Inside
<1>4. out.end <= Inside
  BY DEF Invariants, StreamInv, Behind
<1> DEFINE from == stored - currBlockOffset
<1>5. from \in Nat /\ currBlockOffset \in Nat /\ from + currBlockOffset = stored
  BY <1>2, <1>3
<1>6. out.end <= from
  BY <1>3, <1>4
<1>7. Push(from, currBlockOffset)
  BY <1>1
<1> HIDE DEF from
<1>8. Stream!Deliver(from) /\ out'.end = stored /\ OutType'
  BY <1>1, <1>3, <1>5, <1>6, <1>7, PushDelivers
<1>9. Behind' /\ Seamless'
  BY <1>1, <1>2, <1>3, <1>8 DEF Behind, Seamless, Inside
<1>10. StreamInv'
  BY <1>1, <1>8, <1>9 DEF Invariants, StreamInv
<1>11. Stream!StreamNext
  BY <1>3, <1>5, <1>8 DEF Stream!StreamNext
<1>12. QED
  BY <1>3, <1>5, <1>6, <1>8, <1>10, <1>11

\* create() pushes the one block that is queued, or leaves the queue.
LEMMA StreamPushQueued ==
  ASSUME Invariants, CreatePushQueued
  PROVE  /\ StreamInv' /\ out'.end >= out.end
         /\ Stream!StreamNext \/ UNCHANGED Stream!streamVars
<1>1. /\ ~Over /\ Over' /\ ~currBlock /\ ~currBlock'
      /\ UNCHANGED <<stored, block, flushes>>
  BY DEF CreatePushQueued, Over, blockVars, dataVars, boundVars,
         Invariants, Control, ControlTypes, Places, Quiet, Settled
<1>2. /\ stored \in Nat /\ Inside \in Nat /\ Inside <= stored /\ out.end \in Int
      /\ readPosition \in Nat /\ Inside' = Inside
  BY <1>1, StreamTypes DEF Inside, Offset
<1>3. CASE LastBlockQueued
  <2>1. queue # <<>> /\ Push(Head(queue).from, Head(queue).size)
    BY <1>3 DEF CreatePushQueued, LastBlockQueued
  <2>2. /\ Head(queue).from \in Nat /\ Head(queue).size \in Nat
        /\ out.end <= Head(queue).from
        /\ Head(queue).from + Head(queue).size <= Inside
    BY <1>1, <2>1, FirstContinues
  <2>3. /\ Stream!Deliver(Head(queue).from) /\ OutType'
        /\ out'.end = Head(queue).from + Head(queue).size
    BY <1>1, <1>2, <2>1, <2>2, PushDelivers
  <2>4. Behind' /\ Seamless'
    BY <1>1, <1>2, <2>2, <2>3 DEF Behind, Seamless
  <2>5. StreamInv'
    BY <1>1, <2>3, <2>4 DEF Invariants, StreamInv
  <2>6. Stream!StreamNext
    BY <1>2, <2>2, <2>3 DEF Stream!StreamNext
  <2>7. QED
    BY <1>2, <2>2, <2>3, <2>5, <2>6
<1>4. CASE ~LastBlockQueued
  <2>1. UNCHANGED <<out, readPosition, queue, currBlockOffset>>
    BY <1>4 DEF CreatePushQueued, outVars, queueVars
  <2>2. UNCHANGED Stream!streamVars
    BY <1>1, <2>1 DEF Stream!streamVars
  <2>3. OutType' /\ Behind' /\ Seamless'
    BY <1>1, <1>2, <2>1 DEF Behind, Seamless, Invariants, StreamInv, OutType
  <2>4. QED
    BY <1>1, <1>2, <2>1, <2>2, <2>3 DEF Invariants, StreamInv
<1>5. QED
  BY <1>3, <1>4

-----------------------------------------------------------------------------
(* The producers.                                                          *)

\* The session accepts bytes.
LEMMA StreamFill ==
  ASSUME Invariants, SessionFill
  PROVE  /\ StreamInv' /\ UNCHANGED out
         /\ Stream!StreamNext \/ UNCHANGED Stream!streamVars
<1>1. /\ UNCHANGED <<queue, queuedByteCount, out, readPosition, flushes>>
      /\ pc'.create = pc.create
  <2> DEFINE p == [pc EXCEPT !.session = "enqueue"]
             q == [pc EXCEPT !.session = "perform"]
  <2>1. p \in Places /\ p.create = pc.create /\ q.create = pc.create
    BY DEF Invariants, Control, ControlTypes, Places, SessionPC
  <2>2. pc' = q \/ pc' = SignalTimer(p)
    BY DEF SessionFill
  <2> HIDE DEF p, q
  <2>3. pc'.create = pc.create
    BY <2>1, <2>2, SignalTimerEffect
  <2>4. QED
    BY <2>3 DEF SessionFill, flagVars, queueVars, restVars, outVars, boundVars
<1>2. /\ stored \in Nat /\ block = 0 /\ chunk \in Nat /\ Offset \in 0..BlockSize
      /\ Avail = BlockSize - Offset /\ BlockSize \in Nat
  BY BlockSizeAssumption, ContentAssumption
     DEF SessionFill, Invariants, Data, Totals, BlockOwner, Control, PartialBlock,
         Offset, Avail
<1>3. stored' \in Nat /\ stored' >= stored
  BY <1>2 DEF SessionFill
<1>4. Inside' = Inside
  BY <1>2 DEF SessionFill, Inside, Offset
<1>5. OutType' /\ Behind' /\ Seamless'
  BY <1>1, <1>4 DEF Invariants, StreamInv, OutType, Behind, Seamless, Over
<1>6. CASE stored' = stored
  BY <1>1, <1>5, <1>6 DEF Stream!streamVars, Invariants, StreamInv
<1>7. CASE stored' > stored
  BY <1>1, <1>5, <1>7
     DEF Stream!StreamNext, Stream!Accept, Invariants, StreamInv
<1>8. QED
  BY <1>2, <1>3, <1>6, <1>7

\* buffer_ready() queues a block behind all the others, or it gives the block up.
LEMMA StreamBufferReady ==
  ASSUME Invariants, NEW t \in {"session", "timer"}, Enqueue(t) \/ EnqueueFails(t)
  PROVE  /\ StreamInv' /\ UNCHANGED out
         /\ Stream!StreamNext \/ UNCHANGED Stream!streamVars
<1>1. /\ stored \in Nat /\ block \in Nat /\ Inside \in Nat /\ readPosition \in Nat
      /\ queuedByteCount \in Nat /\ Inside = readPosition + queuedByteCount
      /\ Len(queue) \in Nat /\ out.end \in Int
  BY StreamTypes
<1> queue \in Seq(Element)
  BY DEF Invariants, Data, Linked
<1>2. ~currBlock /\ Offset = 0 /\ Inside = stored - block
  <2>1. pc[t] \in {"enqueue", "wokenNotFull"}
    BY DEF Enqueue, EnqueueFails
  <2>2. ~currBlock
    BY <2>1 DEF Invariants, Control, MutexOwner, SessionHolds, TimerHolds
  <2>3. QED
    BY <1>1, <2>2 DEF Inside, Offset
<1>3. out.end <= Inside
  BY DEF Invariants, StreamInv, Behind
<1>4. CASE EnqueueFails(t)
  <2>1. /\ UNCHANGED <<queue, out, readPosition, flushes, currBlock, currBlockOffset>>
        /\ pc'.create = pc.create /\ stored' = stored - block /\ block' = 0
    BY <1>4 DEF EnqueueFails, queueVars, restVars, outVars, boundVars,
                Invariants, Control, ControlTypes, Places
  <2>2. Inside' = Inside
    BY <1>1, <1>2, <2>1 DEF Inside, Offset
  <2>3. OutType' /\ Behind' /\ Seamless'
    BY <2>1, <2>2 DEF Invariants, StreamInv, OutType, Behind, Seamless, Over
  <2>4. StreamInv'
    BY <2>1, <2>3 DEF Invariants, StreamInv
  <2>5. stored' \in 0..stored /\ stored' >= out.end
    BY <1>1, <1>2, <1>3, <2>1
  <2>6. Stream!StreamNext
    BY <2>1, <2>5 DEF Stream!StreamNext, Stream!GiveUp
  <2>7. QED
    BY <2>1, <2>4, <2>6
<1>5. CASE Enqueue(t)
  <2> DEFINE at == IF queue = <<>> THEN 0
                   ELSE queue[Len(queue)].at + queue[Len(queue)].size
             e == [from |-> stored - block, size |-> block, at |-> at]
  <2>1. /\ UNCHANGED <<stored, out, readPosition, flushes, currBlock, currBlockOffset>>
        /\ queue' = Append(queue, e) /\ block' = 0
    BY <1>5 DEF Enqueue, blockVars, restVars, outVars, boundVars
  <2>2. Over' <=> Over
    <3> DEFINE p == [pc EXCEPT ![t] = IF Copying(t) THEN "fill"
                                      ELSE IF t = "session" THEN "perform" ELSE "loop"]
    <3>1. p.create = pc.create /\ p \in Places
      <4>1. CASE t = "session"
        BY <4>1 DEF Invariants, Control, ControlTypes, Places, SessionPC
      <4>2. CASE t = "timer"
        BY <4>2 DEF Invariants, Control, ControlTypes, Places, TimerPC, Copying
      <4>3. QED
        BY <4>1, <4>2
    <3>2. pc' = p \/ pc' = SignalNotEmpty(p)
      BY <1>5 DEF Enqueue
    <3> HIDE DEF p
    <3>3. CASE pc' = p
      BY <3>1, <3>3 DEF Over
    <3>4. CASE pc' = SignalNotEmpty(p)
      BY <3>1, <3>4, SignalNotEmptyEffect DEF Over
    <3>5. QED
      BY <3>2, <3>3, <3>4
  <2>3. e.from = Inside /\ e.at = at
    BY <1>2
  <2> HIDE DEF e
  <2>4. /\ Len(queue') = Len(queue) + 1
        /\ queue'[Len(queue')] = e
        /\ \A i \in 1 .. Len(queue) : queue'[i] = queue[i]
    BY <1>1, <2>1
  <2>5. Inside' = stored /\ stored >= Inside
    BY <1>1, <1>2, <2>1 DEF Inside, Offset
  <2>6. Behind'
    <3>1. out'.end <= Inside'
      BY <1>1, <1>3, <2>1, <2>5
    <3>2. ASSUME ~Over, NEW i \in 1 .. Len(queue')
          PROVE  out.end <= queue'[i].from
      <4>1. CASE i = Len(queue')
        BY <1>3, <2>3, <2>4, <4>1
      <4>2. CASE i # Len(queue')
        <5>1. i \in 1 .. Len(queue) /\ queue'[i] = queue[i]
          BY <1>1, <2>4, <4>2
        <5>2. QED
          BY <3>2, <5>1 DEF Invariants, StreamInv, Behind
      <4>3. QED
        BY <4>1, <4>2
    <3>3. QED
      BY <2>1, <2>2, <3>1, <3>2 DEF Behind
  <2>7. Seamless'
    <3> SUFFICES ASSUME flushes = 0, ~Over, NEW i \in 1 .. Len(queue')
                 PROVE  queue'[i].from = readPosition + queue'[i].at - queue'[1].at
      BY <2>1, <2>2 DEF Seamless, Invariants, StreamInv
    <3>1. CASE queue = <<>>
      <4>1. i = 1 /\ queue'[i] = e /\ at = 0 /\ queuedByteCount = 0
        BY <2>4, <3>1 DEF Invariants, Data, QueueAccounting
      <4>2. QED
        BY <1>1, <2>3, <4>1
    <3>2. CASE queue # <<>>
      <4>1. 1 \in 1 .. Len(queue) /\ Len(queue) \in 1 .. Len(queue)
        BY <1>1, <3>2
      <4>2. queue'[1] = queue[1] /\ queue[1].at \in Nat
        BY <2>4, <4>1, LinkedElements DEF Invariants, Data
      <4>3. CASE i = Len(queue')
        <5>1. at = queue[Len(queue)].at + queue[Len(queue)].size
          BY <3>2
        <5>2. queue[Len(queue)].at \in Nat /\ queue[Len(queue)].size \in Nat
          BY <4>1, LinkedElements, BlockSizeAssumption DEF Invariants, Data
        <5> HIDE DEF at
        <5>3. queuedByteCount = at - queue[1].at /\ at \in Nat
          <6>1. queuedByteCount
                  = queue[Len(queue)].at + queue[Len(queue)].size - queue[1].at
            BY <3>2 DEF Invariants, Data, QueueAccounting
          <6>2. at \in Nat
            BY <5>1, <5>2
          <6>3. ASSUME NEW a \in Nat, NEW s \in Nat, NEW f \in Nat, NEW c,
                       at = a + s, c = a + s - f
                PROVE  c = at - f
            BY <6>3
          <6>4. QED
            BY <4>2, <5>1, <5>2, <6>1, <6>2, <6>3
        <5>4. /\ queue'[i].from = readPosition + queuedByteCount
              /\ queue'[i].at = at /\ queue'[1].at = queue[1].at
          BY <1>1, <2>3, <2>4, <4>2, <4>3
        <5>5. QED
          BY <1>1, <4>2, <5>3, <5>4
      <4>4. CASE i # Len(queue')
        <5>1. i \in 1 .. Len(queue) /\ queue'[i] = queue[i]
          BY <1>1, <2>4, <4>4
        <5>2. QED
          BY <4>2, <5>1 DEF Invariants, StreamInv, Seamless
      <4>5. QED
        BY <4>3, <4>4
    <3>3. QED
      BY <3>1, <3>2
  <2>8. StreamInv'
    BY <2>1, <2>6, <2>7 DEF Invariants, StreamInv, OutType
  <2>9. UNCHANGED Stream!streamVars
    BY <2>1 DEF Stream!streamVars
  <2>10. QED
    BY <2>1, <2>8, <2>9
<1>6. QED
  BY <1>4, <1>5

\* The flow timer takes the partial block: it still waits inside.
LEMMA StreamTimerFlush ==
  ASSUME Invariants, TimerFlush
  PROVE  StreamInv' /\ UNCHANGED out /\ UNCHANGED Stream!streamVars
<1>1. /\ UNCHANGED <<queue, stored, out, readPosition, flushes, currBlockOffset>>
      /\ pc'.create = pc.create
  BY DEF TimerFlush, queueVars, restVars, outVars, boundVars,
         Invariants, Control, ControlTypes, Places
<1>2. stored \in Nat /\ block = 0 /\ currBlockOffset \in Nat
  BY StreamTypes, BlockSizeAssumption
     DEF TimerFlush, MutexFree, Invariants, Data, BlockOwner, Control, PartialBlock
<1>3. Inside' = Inside
  BY <1>1, <1>2 DEF TimerFlush, Inside, Offset
<1>4. OutType' /\ Behind' /\ Seamless'
  BY <1>1, <1>3 DEF Invariants, StreamInv, OutType, Behind, Seamless, Over
<1>5. QED
  BY <1>1, <1>4 DEF Invariants, StreamInv, Stream!streamVars

-----------------------------------------------------------------------------
(* A seek, a stop, and all steps together.                                 *)

\* A flushing seek: the output may go on anywhere.
LEMMA StreamResume ==
  ASSUME Invariants, Resume
  PROVE  StreamInv' /\ Stream!StreamNext
<1>1. /\ UNCHANGED <<queue, stored, block, currBlock, currBlockOffset, readPosition>>
      /\ out'.end = -1 /\ out'.breaks = 0 /\ OutType' /\ flushes' = flushes + 1
  BY DEF Resume, flowVars, queueVars, blockVars, dataVars, AnyPlace, OutType
<1>2. flushes \in Nat /\ Inside \in Nat /\ Inside' = Inside
  BY <1>1, StreamTypes DEF Invariants, StreamInv, Inside, Offset
<1>3. \A i \in 1 .. Len(queue) : queue[i].from \in Nat
  BY LinkedElements DEF Invariants, Data
<1>4. Behind' /\ Seamless'
  BY <1>1, <1>2, <1>3 DEF Behind, Seamless
<1>5. StreamInv'
  BY <1>1, <1>2, <1>4 DEF StreamInv
<1>6. (flushes > 0)' /\ ~(out.breaks > 0)'
  BY <1>1, <1>2
<1>7. Stream!Flush
  BY <1>1, <1>6 DEF Stream!Flush, Stream!Anywhere
<1>8. QED
  BY <1>5, <1>7 DEF Stream!StreamNext

\* stop() ends the session, and with it the stream.
LEMMA StreamStopJoin ==
  ASSUME Invariants, StopJoin
  PROVE  StreamInv' /\ Stream!StreamNext
<1>1. /\ queue' = <<>> /\ stored' = 0 /\ readPosition' = 0 /\ flushes' = 0
      /\ out' = [end |-> 0, breaks |-> 0]
      /\ UNCHANGED block /\ currBlockOffset' = 0
  BY DEF StopJoin, FlushQueue
<1>2. block = 0
  BY DEF StopJoin, Invariants, Control, ControlTypes, Quiet, MutexOwner, Data, BlockOwner,
         NoTransfer, Totals, SessionHolds, TimerHolds, Settled
<1>3. Inside' = 0
  BY <1>1, <1>2 DEF Inside, Offset
<1>4. OutType' /\ Behind' /\ Seamless'
  BY <1>1, <1>3 DEF OutType, Behind, Seamless
<1>5. ~(out.breaks > 0)' /\ ~(flushes > 0)'
  BY <1>1
<1>6. Stream!Reset
  BY <1>1, <1>5 DEF Stream!Reset, Stream!StreamInit
<1>7. QED
  BY <1>1, <1>4, <1>6 DEF StreamInv, Stream!StreamNext

\* The invariant holds in the beginning.
LEMMA StreamInit == Init => StreamInv
<1> SUFFICES ASSUME Init PROVE StreamInv
  OBVIOUS
<1>1. /\ queue = <<>> /\ stored = 0 /\ block = 0 /\ readPosition = 0 /\ flushes = 0
      /\ currBlock = FALSE /\ out.end = 0 /\ out.breaks = 0 /\ OutType
  BY DEF Init, OutType
<1>2. Behind /\ Seamless
  BY <1>1 DEF Behind, Seamless, Inside, Offset
<1>3. QED
  BY <1>1, <1>2 DEF StreamInv

\* What a step does to the stream, and to the output.
StreamStep ==
  /\ StreamInv'
  /\ Stream!StreamNext \/ UNCHANGED Stream!streamVars
  /\ pc.ctl # "joining" /\ flushes' = flushes => out'.end >= out.end
  /\ flushes' = 0 /\ out.breaks > 0 => out' = out \/ pc.ctl = "joining"

\* Every step is a step of the stream or none, and keeps the invariant.
LEMMA StreamNextStep == Invariants /\ [Next]_vars => StreamStep
<1> SUFFICES ASSUME Invariants, [Next]_vars PROVE StreamStep
  OBVIOUS
<1>1. out.end \in Int /\ out.breaks \in Nat /\ flushes \in Nat
  BY StreamTypes DEF Invariants, StreamInv
<1>2. ~Over /\ out.breaks > 0 => flushes > 0
  BY <1>1 DEF Invariants, StreamInv, Seamless
<1>3. CASE StreamKept
  <2>1. UNCHANGED streamState /\ (Over => Over')
    BY <1>3, StreamKeptStep DEF Invariants
  <2>2. StreamInv'
    BY <2>1, StreamStable DEF Invariants
  <2>3. UNCHANGED Stream!streamVars
    BY <2>1 DEF streamState, blockVars, Stream!streamVars
  <2>4. QED
    BY <1>1, <2>1, <2>2, <2>3 DEF StreamStep, streamState
<1>4. CASE CreatePop
  BY <1>1, <1>2, <1>4, StreamPop DEF StreamStep, CreatePop, Over, boundVars
<1>5. CASE CreatePushPartial
  <2>1. ~Over /\ flushes' = flushes
    BY <1>5 DEF CreatePushPartial, Over, boundVars
  <2>2. CASE currBlock /\ currBlockOffset < BlockSize
    BY <1>1, <1>2, <1>5, <2>1, <2>2, StreamPushPartial DEF StreamStep
  <2>3. CASE ~(currBlock /\ currBlockOffset < BlockSize)
    <3>1. UNCHANGED streamState
      BY <1>5, <2>3
         DEF CreatePushPartial, streamState, blockVars, queueVars, outVars, dataVars,
             boundVars
    <3>2. StreamInv'
      BY <2>1, <3>1, StreamStable DEF Invariants
    <3>3. UNCHANGED Stream!streamVars
      BY <3>1 DEF streamState, blockVars, Stream!streamVars
    <3>4. QED
      BY <1>1, <3>1, <3>2, <3>3 DEF StreamStep, streamState
  <2>4. QED
    BY <2>2, <2>3
<1>6. CASE CreatePushQueued
  BY <1>1, <1>2, <1>6, StreamPushQueued DEF StreamStep, CreatePushQueued, Over, boundVars
<1>7. CASE SessionFill
  BY <1>1, <1>7, StreamFill DEF StreamStep
<1>8. ASSUME NEW t \in {"session", "timer"}, Enqueue(t) \/ EnqueueFails(t)
      PROVE  StreamStep
  BY <1>1, <1>8, StreamBufferReady DEF StreamStep
<1>9. CASE TimerFlush
  BY <1>1, <1>9, StreamTimerFlush DEF StreamStep
<1>10. CASE Resume
  BY <1>1, <1>10, StreamResume DEF StreamStep, Resume
<1>11. CASE StopJoin
  BY <1>11, StreamStopJoin DEF StreamStep, StopJoin
<1>12. QED
  BY <1>3, <1>4, <1>5, <1>6, <1>7, <1>8, <1>9, <1>10, <1>11
     DEF Next, Create, Session, Timer, BufferReady, Stop, StreamKept, Terminated

-----------------------------------------------------------------------------
\* What waits inside and what went downstream fit together in every reachable state.
THEOREM StreamInvariant == Spec => []Invariants
<1>1. Spec => []StreamInv
  <2>1. StreamInv /\ Control /\ Data /\ InStreamOrder /\ [Next]_vars => StreamInv'
    BY StreamNextStep DEF Invariants, StreamStep
  <2>2. QED
    BY <2>1, StreamInit, ControlInvariant, DataInvariant, InStreamOrderTheorem, PTL DEF Spec
<1>2. QED
  BY <1>1, ControlInvariant, DataInvariant, InStreamOrderTheorem, PTL DEF Invariants

\* Downstream never gets a byte twice, nor an earlier byte after a later one.
THEOREM OutputInOrderTheorem == Spec => OutputInOrder
<1>1. Invariants /\ [Next]_vars
        => [pc.ctl # "joining" /\ flushes' = flushes => out'.end >= out.end]_vars
  BY StreamNextStep DEF StreamStep
<1>2. QED
  BY <1>1, StreamInvariant, PTL DEF Spec, OutputInOrder

\* Only the last push of a session may skip bytes, unless there was a flush.
THEOREM GapIsLastTheorem == Spec => GapIsLast
<1>1. Invariants /\ [Next]_vars
        => [flushes' = 0 /\ out.breaks > 0 => out' = out \/ pc.ctl = "joining"]_vars
  BY StreamNextStep DEF StreamStep
<1>2. QED
  BY <1>1, StreamInvariant, PTL DEF Spec, GapIsLast

\* With its queue, partial block and two producers, the element implements ByteStream.
THEOREM Refinement == Spec => StreamOfBytes
<1>1. Init => Stream!StreamInit
  BY DEF Init, Stream!StreamInit
<1>2. Invariants /\ [Next]_vars => [Stream!StreamNext]_(Stream!streamVars)
  BY StreamNextStep DEF StreamStep
<1>3. QED
  BY <1>1, <1>2, StreamInvariant, PTL DEF Spec, StreamOfBytes, Stream!StreamSpec

-----------------------------------------------------------------------------
(* How a transfer ends.                                                    *)

\* curl_easy_perform() has returned, or was never called.
EndPC == {"ended", "mark", "flagStop", "pause", "awaitTimer", "joinTimer", "wake", "done"}

\* create() has found that no more data will come.
FailPC == {"failed", "requestStop", "setStop", "pushPartial", "pushQueued", "pushEos",
           "paused", "error"}

\* Since start(), nobody has called unlock().
Undisturbed == flushes = 0 /\ pc.ctl \in {"starting", "started", "running"}

\* The server has sent everything, and the copy loop is done with it ...
Received == toSend = 0 /\ pc.session \in {"perform", "trailer"} \cup EndPC

\* ... or the transfer has failed.
Aborted == result # "ok" /\ pc.session \in EndPC

\* Something tells create() to give up, or has told it.
GivingUp ==
  \/ threadStopRequested \/ sessionPaused \/ haveTrailers \/ eosEventPushed
  \/ pc.create \in FailPC
  \/ pc.create # "off" /\ ~threadStarted

\* Stop has left nothing behind but m_currBlock.
ResetDone ==
  pc.ctl = "null" =>
    /\ flushes = 0 /\ stored = 0 /\ toSend = ContentLength /\ result = "ok"
    /\ ~threadStopRequested /\ ~sessionPaused /\ ~haveTrailers /\ ~eosEventPushed

\* A transfer that ended well is complete, and requests no stop; trailers come last.
EndsWell ==
  /\ pc.session = "trailer" => toSend = 0
  /\ pc.session \in EndPC \ {"done"} /\ result = "ok" => toSend = 0
  /\ pc.session = "flagStop" => result # "ok"

\* Undisturbed, nothing tells create() to give up before the transfer is over.
GivesUpLate == Undisturbed /\ GivingUp => Received \/ Aborted

\* Only data_received() has bytes to copy.
ChunkOwner == pc.session \notin SessionHolds => chunk = 0

\* The flow timer only flushes a partial block.
ShortBlock == flowTimerMutex = "timer" => block < BlockSize

\* The flow timer has freed its block after create()'s stop request, and is done.
Freed ==
  /\ threadStopRequested /\ ~currBlock /\ block = 0
  /\ pc.timer \in {"loop", "done", "none"}
  /\ stored + BlockSize > ContentLength

\* Undisturbed, every byte is with the server, in the copy loop or accepted, until the
\* flow timer frees a block.
Complete ==
  Undisturbed /\ pc.session # "reject" /\ ~Aborted =>
    \/ stored + chunk + toSend = ContentLength
    \/ Received /\ Freed

\* Undisturbed, create() stays where EOS left it, and left one block in the queue only
\* if it pushed another past it.
LastLook ==
  Undisturbed =>
    /\ eosEventPushed => pc.create = "paused"
    /\ Over /\ Len(queue) = 1 /\ queuedByteCount > 0 => out.breaks > 0

Ending ==
  /\ ResetDone /\ EndsWell /\ GivesUpLate /\ ChunkOwner
  /\ ShortBlock /\ Complete /\ LastLook

\* No step but stop() enters null, and nothing in null undoes the reset.
LEMMA ResetDoneNext ==
  ASSUME Control, ResetDone, [Next]_vars
  PROVE  ResetDone'
<1> USE DEF ResetDone, Control, ControlTypes, Quiet, Lifetimes, Places
<1> USE DEF flowVars, queueVars, blockVars, dataVars, flagVars, threadVars, pauseVars,
            headerVars, endVars, restVars, outVars, boundVars
<1> USE BlockSizeAssumption, ContentAssumption, BoundsAssumption
<1> USE DEF CtlPC, CreatePC, SessionPC, TimerPC
<1>1. CASE Start
  BY <1>1 DEF Start, StartTimer, StartSession, StartReturns
<1>2. CASE Unlock \/ Flushed \/ UnlockStop \/ Resume
  BY <1>2 DEF Unlock, Flushed, UnlockStop, Resume
<1>3. CASE Stop
  BY <1>3 DEF Stop, StopRequest, StopSignal, SignalNotFull, StopJoin, FlushQueue
<1>4. CASE CreateEnter \/ CreateEmpty \/ CreateWoken \/ CreateFailed \/
           CreateRequestStop \/ CreatePushEos
  BY <1>4 DEF CreateEnter, CreateEmpty, NoMoreData, CreateWoken, CreateFailed,
     CreateRequestStop, CreatePushEos
<1>5. CASE CreatePop \/ CreateSetStop
  BY <1>5 DEF CreatePop, SignalNotFull, CreateSetStop
<1>6. CASE CreatePushPartial \/ CreatePushQueued
  BY <1>6 DEF CreatePushPartial, MutexFree, CreatePushQueued, FlushQueue
<1>7. CASE SessionBegin \/ SessionProgress \/ SessionTrailer \/ SessionReject
  BY <1>7 DEF SessionBegin, SessionProgress, SessionTrailer, SessionReject
<1>8. CASE SessionTrailerWake
  BY <1>8 DEF SessionTrailerWake, SignalNotEmpty
<1>9. CASE SessionFill
  BY <1>9 DEF SessionFill, Avail, Offset, SignalTimer
<1>10. ASSUME NEW r \in Results, SessionResult(r)
       PROVE  ResetDone'
  BY <1>10 DEF SessionResult
<1>11. ASSUME NEW n \in 1..MaxChunk, SessionReceive(n)
       PROVE  ResetDone'
  BY <1>11 DEF SessionReceive, SignalTimer
<1>12. CASE SessionEnded \/ SessionMark \/ SessionFlagStop \/ SessionPause \/
            SessionJoinTimer
  BY <1>12 DEF SessionEnded, SessionMark, SessionFlagStop, SessionPause,
     SessionJoinTimer
<1>13. CASE SessionAwaitTimer \/ SessionWake
  BY <1>13 DEF SessionAwaitTimer, SignalTimer, SessionWake, SignalNotEmpty
<1>14. ASSUME NEW t \in {"session", "timer"}, Enqueue(t)
       PROVE  ResetDone'
  BY <1>14 DEF Enqueue, SignalNotEmpty, Copying
<1>15. ASSUME NEW t \in {"session", "timer"},
              EnqueueWait(t) \/ EnqueueLocked(t) \/ EnqueueFails(t) \/ EnqueueWoken(t)
       PROVE  ResetDone'
  BY <1>15 DEF EnqueueWait, EnqueueLocked, EnqueueFails, EnqueueWoken
<1>16. CASE TimerBegin \/ TimerWoken \/ TimerLoop \/ TimerExpires \/ TimerFlush
  BY <1>16 DEF TimerBegin, TimerWoken, TimerLoop, TimerExpires, TimerFlush, MutexFree
<1>17. CASE SpuriousWakeup
  BY <1>17 DEF SpuriousWakeup, SignalNotEmpty, SignalNotFull, SignalTimer
<1>18. CASE Terminated \/ UNCHANGED vars
  BY <1>18 DEF Terminated, vars
<1>19. QED
  BY <1>1, <1>2, <1>3, <1>4, <1>5, <1>6, <1>7, <1>8, <1>9, <1>10, <1>11, <1>12, <1>13,
     <1>14, <1>15, <1>16, <1>17, <1>18
     DEF Next, Create, Session, SessionEnds, Timer, BufferReady

\* A transfer ends well only when the server has sent everything.
LEMMA EndsWellNext ==
  ASSUME Control, EndsWell, [Next]_vars
  PROVE  EndsWell'
<1> USE DEF EndsWell, EndPC, Control, ControlTypes, Lifetimes, Places
<1> USE DEF flowVars, queueVars, blockVars, dataVars, flagVars, threadVars, pauseVars,
            headerVars, endVars, restVars, outVars, boundVars
<1> USE BlockSizeAssumption, ContentAssumption, BoundsAssumption
<1> USE DEF CtlPC, CreatePC, SessionPC, TimerPC
<1>1. CASE Start
  BY <1>1 DEF Start, StartTimer, StartSession, StartReturns
<1>2. CASE Unlock \/ Flushed \/ UnlockStop \/ Resume
  <2>1. CASE Unlock
    BY <2>1 DEF Unlock
  <2>2. CASE Flushed
    BY <2>2 DEF Flushed
  <2>3. CASE UnlockStop
    BY <2>3 DEF UnlockStop
  <2>4. CASE Resume
    BY <2>4 DEF Resume
  <2>5. QED
    BY <1>2, <2>1, <2>2, <2>3, <2>4
<1>3. CASE Stop
  BY <1>3 DEF Stop, StopRequest, StopSignal, SignalNotFull, StopJoin, FlushQueue
<1>4. CASE CreateEnter \/ CreateEmpty \/ CreateWoken \/ CreateFailed \/
           CreateRequestStop \/ CreatePushEos
  BY <1>4 DEF CreateEnter, CreateEmpty, NoMoreData, CreateWoken, CreateFailed,
     CreateRequestStop, CreatePushEos
<1>5. CASE CreatePop \/ CreateSetStop
  <2>1. CASE CreatePop
    BY <2>1 DEF CreatePop, SignalNotFull
  <2>2. CASE CreateSetStop
    BY <2>2 DEF CreateSetStop, SignalNotFull
  <2>3. QED
    BY <1>5, <2>1, <2>2
<1>6. CASE CreatePushPartial \/ CreatePushQueued
  BY <1>6 DEF CreatePushPartial, MutexFree, CreatePushQueued, FlushQueue
<1>7. CASE SessionBegin \/ SessionProgress \/ SessionTrailer \/ SessionReject
  BY <1>7 DEF SessionBegin, SessionProgress, SessionTrailer, SessionReject
<1>8. CASE SessionTrailerWake
  BY <1>8 DEF SessionTrailerWake, SignalNotEmpty
<1>9. CASE SessionFill
  BY <1>9 DEF SessionFill, Avail, Offset, SignalTimer
<1>10. ASSUME NEW r \in Results, SessionResult(r)
       PROVE  EndsWell'
  BY <1>10 DEF SessionResult
<1>11. ASSUME NEW n \in 1..MaxChunk, SessionReceive(n)
       PROVE  EndsWell'
  BY <1>11 DEF SessionReceive, SignalTimer
<1>12. CASE SessionEnded \/ SessionMark \/ SessionFlagStop \/ SessionPause \/
            SessionJoinTimer
  BY <1>12 DEF SessionEnded, SessionMark, SessionFlagStop, SessionPause,
     SessionJoinTimer
<1>13. CASE SessionAwaitTimer \/ SessionWake
  BY <1>13 DEF SessionAwaitTimer, SignalTimer, SessionWake, SignalNotEmpty
<1>14. ASSUME NEW t \in {"session", "timer"}, Enqueue(t)
       PROVE  EndsWell'
  BY <1>14 DEF Enqueue, SignalNotEmpty, Copying
<1>15. ASSUME NEW t \in {"session", "timer"},
              EnqueueWait(t) \/ EnqueueLocked(t) \/ EnqueueFails(t) \/ EnqueueWoken(t)
       PROVE  EndsWell'
  BY <1>15 DEF EnqueueWait, EnqueueLocked, EnqueueFails, EnqueueWoken
<1>16. CASE TimerBegin \/ TimerWoken \/ TimerLoop \/ TimerExpires \/ TimerFlush
  BY <1>16 DEF TimerBegin, TimerWoken, TimerLoop, TimerExpires, TimerFlush, MutexFree
<1>17. CASE SpuriousWakeup
  <2>1. UNCHANGED <<flowVars, flagVars, restVars, threadStopRequested>>
    BY <1>17 DEF SpuriousWakeup
  <2>2. QED
    BY <1>17, <2>1, SpuriousEffect
<1>18. CASE Terminated \/ UNCHANGED vars
  BY <1>18 DEF Terminated, vars
<1>19. QED
  BY <1>1, <1>2, <1>3, <1>4, <1>5, <1>6, <1>7, <1>8, <1>9, <1>10, <1>11, <1>12, <1>13,
     <1>14, <1>15, <1>16, <1>17, <1>18
     DEF Next, Create, Session, SessionEnds, Timer, BufferReady

\* A stop request, the pause and the trailers all come after the last byte.
LEMMA GivesUpLateNext ==
  ASSUME Control, ResetDone, EndsWell, GivesUpLate, FlagTypes, CounterTypes, [Next]_vars
  PROVE  GivesUpLate'
<1> USE DEF ResetDone, EndsWell, FlagTypes, CounterTypes, GivesUpLate, GivingUp,
            Undisturbed, Received, Aborted, EndPC, FailPC, Control, ControlTypes, Quiet,
            Lifetimes, Places
<1> USE DEF flowVars, queueVars, blockVars, dataVars, flagVars, threadVars, pauseVars,
            headerVars, endVars, restVars, outVars, boundVars
<1> USE BlockSizeAssumption, ContentAssumption, BoundsAssumption
<1> USE DEF CtlPC, CreatePC, SessionPC, TimerPC
<1>1. CASE Start
  <2>1. CASE StartTimer
    BY <2>1 DEF StartTimer
  <2>2. CASE StartSession
    BY <2>2 DEF StartSession
  <2>3. CASE StartReturns
    BY <2>3 DEF StartReturns
  <2>4. QED
    BY <1>1, <2>1, <2>2, <2>3 DEF Start
<1>2. CASE Unlock \/ Flushed \/ UnlockStop \/ Resume
  <2>1. CASE Unlock
    BY <2>1 DEF Unlock
  <2>2. CASE Flushed
    BY <2>2 DEF Flushed
  <2>3. CASE UnlockStop
    BY <2>3 DEF UnlockStop
  <2>4. CASE Resume
    BY <2>4 DEF Resume
  <2>5. QED
    BY <1>2, <2>1, <2>2, <2>3, <2>4
<1>3. CASE Stop
  <2>1. CASE StopRequest
    BY <2>1 DEF StopRequest
  <2>2. CASE StopSignal
    BY <2>2 DEF StopSignal, SignalNotFull
  <2>3. CASE StopJoin
    BY <2>3 DEF StopJoin, FlushQueue
  <2>4. QED
    BY <1>3, <2>1, <2>2, <2>3 DEF Stop
<1>4. CASE CreateEnter \/ CreateEmpty \/ CreateWoken \/ CreateFailed \/
           CreateRequestStop \/ CreatePushEos
  BY <1>4 DEF CreateEnter, CreateEmpty, NoMoreData, CreateWoken, CreateFailed,
     CreateRequestStop, CreatePushEos
<1>5. CASE CreatePop \/ CreateSetStop
  <2>1. CASE CreatePop
    BY <2>1 DEF CreatePop, SignalNotFull
  <2>2. CASE CreateSetStop
    BY <2>2 DEF CreateSetStop, SignalNotFull
  <2>3. QED
    BY <1>5, <2>1, <2>2
<1>6. CASE CreatePushPartial \/ CreatePushQueued
  BY <1>6 DEF CreatePushPartial, MutexFree, CreatePushQueued, FlushQueue
<1>7. CASE SessionBegin \/ SessionProgress \/ SessionTrailer \/ SessionReject
  BY <1>7 DEF SessionBegin, SessionProgress, SessionTrailer, SessionReject
<1>8. CASE SessionTrailerWake
  BY <1>8 DEF SessionTrailerWake, SignalNotEmpty
<1>9. CASE SessionFill
  BY <1>9 DEF SessionFill, Avail, Offset, SignalTimer
<1>10. ASSUME NEW r \in Results, SessionResult(r)
       PROVE  GivesUpLate'
  BY <1>10 DEF SessionResult
<1>11. ASSUME NEW n \in 1..MaxChunk, SessionReceive(n)
       PROVE  GivesUpLate'
  <2>1. /\ pc.session = "perform" /\ toSend # 0 /\ toSend' = toSend - n
        /\ UNCHANGED <<threadStopRequested, stored, pauseVars, eosEventPushed,
                       haveTrailers, threadStarted, result, flushes>>
    BY <1>11 DEF SessionReceive
  <2>2. [pc EXCEPT !.session = "fill"] \in Places
    BY DEF Places
  <2>3. /\ pc'.ctl = pc.ctl /\ pc'.create = pc.create /\ pc'.session \in {"fill", "reject"}
        /\ pc'.session = "fill" => chunk' = n
    <3>1. CASE pc' = [pc EXCEPT !.session = "reject"]
      BY <3>1
    <3>2. CASE /\ pc' \in {[pc EXCEPT !.session = "fill"],
                            SignalTimer([pc EXCEPT !.session = "fill"])}
               /\ chunk' = n
      BY <2>2, <3>2, SignalTimerEffect
    <3>3. QED
      BY <1>11, <3>1, <3>2 DEF SessionReceive
  <2>4. ~(Undisturbed /\ GivingUp)
    BY <2>1
  <2>5. QED
    BY <2>1, <2>3, <2>4
<1>12. CASE SessionEnded \/ SessionMark \/ SessionFlagStop \/ SessionPause \/
            SessionJoinTimer
  <2>1. CASE SessionEnded
    BY <2>1 DEF SessionEnded
  <2>2. CASE SessionMark
    BY <2>2 DEF SessionMark
  <2>3. CASE SessionFlagStop
    BY <2>3 DEF SessionFlagStop
  <2>4. CASE SessionPause
    BY <2>4 DEF SessionPause
  <2>5. CASE SessionJoinTimer
    BY <2>5 DEF SessionJoinTimer
  <2>6. QED
    BY <1>12, <2>1, <2>2, <2>3, <2>4, <2>5
<1>13. CASE SessionAwaitTimer \/ SessionWake
  <2>1. CASE SessionAwaitTimer
    BY <2>1 DEF SessionAwaitTimer, SignalTimer
  <2>2. CASE SessionWake
    BY <2>2 DEF SessionWake, SignalNotEmpty
  <2>3. QED
    BY <1>13, <2>1, <2>2
<1>14. ASSUME NEW t \in {"session", "timer"}, Enqueue(t)
       PROVE  GivesUpLate'
  <2>1. /\ UNCHANGED <<flagVars, restVars, blockVars, chunk, toSend, threadStopRequested>>
        /\ pc[t] = "enqueue" /\ block' = 0
    BY <1>14 DEF Enqueue
  <2>2. QED
    BY <1>14, <2>1, EnqueueEffect
<1>15. ASSUME NEW t \in {"session", "timer"},
              EnqueueWait(t) \/ EnqueueLocked(t) \/ EnqueueFails(t) \/ EnqueueWoken(t)
       PROVE  GivesUpLate'
  BY <1>15 DEF EnqueueWait, EnqueueLocked, EnqueueFails, EnqueueWoken
<1>16. CASE TimerBegin \/ TimerWoken \/ TimerLoop \/ TimerExpires \/ TimerFlush
  BY <1>16 DEF TimerBegin, TimerWoken, TimerLoop, TimerExpires, TimerFlush, MutexFree
<1>17. CASE SpuriousWakeup
  <2>1. UNCHANGED <<flowVars, flagVars, restVars, threadStopRequested>>
    BY <1>17 DEF SpuriousWakeup
  <2>2. QED
    BY <1>17, <2>1, SpuriousEffect
<1>18. CASE Terminated \/ UNCHANGED vars
  BY <1>18 DEF Terminated, vars
<1>19. QED
  BY <1>1, <1>2, <1>3, <1>4, <1>5, <1>6, <1>7, <1>8, <1>9, <1>10, <1>11, <1>12, <1>13,
     <1>14, <1>15, <1>16, <1>17, <1>18
     DEF Next, Create, Session, SessionEnds, Timer, BufferReady

\* The copy loop goes on until its chunk is used up.
LEMMA ChunkOwnerNext ==
  ASSUME Control, ChunkOwner, [Next]_vars
  PROVE  ChunkOwner'
<1> USE DEF ChunkOwner, SessionHolds, Control, ControlTypes, PartialBlock, MutexOwner,
            Lifetimes, Places
<1> USE DEF flowVars, queueVars, blockVars, dataVars, flagVars, threadVars, pauseVars,
            headerVars, endVars, restVars, outVars, boundVars
<1> USE BlockSizeAssumption, ContentAssumption, BoundsAssumption
<1> USE DEF CtlPC, CreatePC, SessionPC, TimerPC
<1>1. CASE Start
  BY <1>1 DEF Start, StartTimer, StartSession, StartReturns
<1>2. CASE Unlock \/ Flushed \/ UnlockStop \/ Resume
  BY <1>2 DEF Unlock, Flushed, UnlockStop, Resume
<1>3. CASE Stop
  BY <1>3 DEF Stop, StopRequest, StopSignal, SignalNotFull, StopJoin, FlushQueue
<1>4. CASE CreateEnter \/ CreateEmpty \/ CreateWoken \/ CreateFailed \/
           CreateRequestStop \/ CreatePushEos
  BY <1>4 DEF CreateEnter, CreateEmpty, NoMoreData, CreateWoken, CreateFailed,
     CreateRequestStop, CreatePushEos
<1>5. CASE CreatePop \/ CreateSetStop
  BY <1>5 DEF CreatePop, SignalNotFull, CreateSetStop
<1>6. CASE CreatePushPartial \/ CreatePushQueued
  BY <1>6 DEF CreatePushPartial, MutexFree, CreatePushQueued, FlushQueue
<1>7. CASE SessionBegin \/ SessionProgress \/ SessionTrailer \/ SessionReject
  BY <1>7 DEF SessionBegin, SessionProgress, SessionTrailer, SessionReject
<1>8. CASE SessionTrailerWake
  BY <1>8 DEF SessionTrailerWake, SignalNotEmpty
<1>9. CASE SessionFill
  BY <1>9 DEF SessionFill, Avail, Offset, SignalTimer
<1>10. ASSUME NEW r \in Results, SessionResult(r)
       PROVE  ChunkOwner'
  BY <1>10 DEF SessionResult
<1>11. ASSUME NEW n \in 1..MaxChunk, SessionReceive(n)
       PROVE  ChunkOwner'
  BY <1>11 DEF SessionReceive, SignalTimer
<1>12. CASE SessionEnded \/ SessionMark \/ SessionFlagStop \/ SessionPause \/
            SessionJoinTimer
  BY <1>12 DEF SessionEnded, SessionMark, SessionFlagStop, SessionPause,
     SessionJoinTimer
<1>13. CASE SessionAwaitTimer \/ SessionWake
  BY <1>13 DEF SessionAwaitTimer, SignalTimer, SessionWake, SignalNotEmpty
<1>14. ASSUME NEW t \in {"session", "timer"}, Enqueue(t)
       PROVE  ChunkOwner'
  <2>1. pc[t] = "enqueue" /\ chunk' = chunk
    BY <1>14 DEF Enqueue
  <2>2. CASE t = "session"
    <3>1. chunk > 0 => pc'.session = "fill"
      BY <1>14, <2>2 DEF Enqueue, Copying, SignalNotEmpty
    <3>2. QED
      BY <2>1, <3>1
  <2>3. CASE t = "timer"
    <3>1. pc'.session = pc.session
      BY <1>14, <2>3 DEF Enqueue, Copying, SignalNotEmpty
    <3>2. QED
      BY <2>1, <3>1
  <2>4. QED
    BY <2>2, <2>3
<1>15. ASSUME NEW t \in {"session", "timer"},
              EnqueueWait(t) \/ EnqueueLocked(t) \/ EnqueueFails(t) \/ EnqueueWoken(t)
       PROVE  ChunkOwner'
  BY <1>15 DEF EnqueueWait, EnqueueLocked, EnqueueFails, EnqueueWoken
<1>16. CASE TimerBegin \/ TimerWoken \/ TimerLoop \/ TimerExpires \/ TimerFlush
  BY <1>16 DEF TimerBegin, TimerWoken, TimerLoop, TimerExpires, TimerFlush, MutexFree
<1>17. CASE SpuriousWakeup
  BY <1>17 DEF SpuriousWakeup, SignalNotEmpty, SignalNotFull, SignalTimer
<1>18. CASE Terminated \/ UNCHANGED vars
  BY <1>18 DEF Terminated, vars
<1>19. QED
  BY <1>1, <1>2, <1>3, <1>4, <1>5, <1>6, <1>7, <1>8, <1>9, <1>10, <1>11, <1>12, <1>13,
     <1>14, <1>15, <1>16, <1>17, <1>18
     DEF Next, Create, Session, SessionEnds, Timer, BufferReady

\* The partial block that the flow timer takes is not full.
LEMMA ShortBlockNext ==
  ASSUME Control, ShortBlock, [Next]_vars
  PROVE  ShortBlock'
<1> USE DEF ShortBlock, Control, ControlTypes, PartialBlock, MutexOwner, SessionHolds,
            TimerHolds, Places
<1> USE DEF flowVars, queueVars, blockVars, dataVars, flagVars, threadVars, pauseVars,
            headerVars, endVars, restVars, outVars, boundVars
<1> USE BlockSizeAssumption, ContentAssumption, BoundsAssumption
<1> USE DEF CtlPC, CreatePC, SessionPC, TimerPC
<1>1. CASE Start
  BY <1>1 DEF Start, StartTimer, StartSession, StartReturns
<1>2. CASE Unlock \/ Flushed \/ UnlockStop \/ Resume
  BY <1>2 DEF Unlock, Flushed, UnlockStop, Resume
<1>3. CASE Stop
  BY <1>3 DEF Stop, StopRequest, StopSignal, SignalNotFull, StopJoin, FlushQueue
<1>4. CASE CreateEnter \/ CreateEmpty \/ CreateWoken \/ CreateFailed \/
           CreateRequestStop \/ CreatePushEos
  BY <1>4 DEF CreateEnter, CreateEmpty, NoMoreData, CreateWoken, CreateFailed,
     CreateRequestStop, CreatePushEos
<1>5. CASE CreatePop \/ CreateSetStop
  BY <1>5 DEF CreatePop, SignalNotFull, CreateSetStop
<1>6. CASE CreatePushPartial \/ CreatePushQueued
  BY <1>6 DEF CreatePushPartial, MutexFree, CreatePushQueued, FlushQueue
<1>7. CASE SessionBegin \/ SessionProgress \/ SessionTrailer \/ SessionReject
  BY <1>7 DEF SessionBegin, SessionProgress, SessionTrailer, SessionReject
<1>8. CASE SessionTrailerWake
  BY <1>8 DEF SessionTrailerWake, SignalNotEmpty
<1>9. CASE SessionFill
  BY <1>9 DEF SessionFill, Avail, Offset, SignalTimer
<1>10. ASSUME NEW r \in Results, SessionResult(r)
       PROVE  ShortBlock'
  BY <1>10 DEF SessionResult
<1>11. ASSUME NEW n \in 1..MaxChunk, SessionReceive(n)
       PROVE  ShortBlock'
  BY <1>11 DEF SessionReceive, SignalTimer
<1>12. CASE SessionEnded \/ SessionMark \/ SessionFlagStop \/ SessionPause \/
            SessionJoinTimer
  BY <1>12 DEF SessionEnded, SessionMark, SessionFlagStop, SessionPause,
     SessionJoinTimer
<1>13. CASE SessionAwaitTimer \/ SessionWake
  BY <1>13 DEF SessionAwaitTimer, SignalTimer, SessionWake, SignalNotEmpty
<1>14. ASSUME NEW t \in {"session", "timer"}, Enqueue(t)
       PROVE  ShortBlock'
  BY <1>14 DEF Enqueue, SignalNotEmpty, Copying
<1>15. ASSUME NEW t \in {"session", "timer"},
              EnqueueWait(t) \/ EnqueueLocked(t) \/ EnqueueFails(t) \/ EnqueueWoken(t)
       PROVE  ShortBlock'
  BY <1>15 DEF EnqueueWait, EnqueueLocked, EnqueueFails, EnqueueWoken
<1>16. CASE TimerBegin \/ TimerWoken \/ TimerLoop \/ TimerExpires \/ TimerFlush
  BY <1>16 DEF TimerBegin, TimerWoken, TimerLoop, TimerExpires, TimerFlush, MutexFree
<1>17. CASE SpuriousWakeup
  BY <1>17 DEF SpuriousWakeup, SignalNotEmpty, SignalNotFull, SignalTimer
<1>18. CASE Terminated \/ UNCHANGED vars
  BY <1>18 DEF Terminated, vars
<1>19. QED
  BY <1>1, <1>2, <1>3, <1>4, <1>5, <1>6, <1>7, <1>8, <1>9, <1>10, <1>11, <1>12, <1>13,
     <1>14, <1>15, <1>16, <1>17, <1>18
     DEF Next, Create, Session, SessionEnds, Timer, BufferReady

\* Bytes only move, until the flow timer frees its block.
LEMMA CompleteNext ==
  ASSUME Control, ResetDone, GivesUpLate, ChunkOwner, ShortBlock, Complete,
         CounterTypes, Data, [Next]_vars
  PROVE  Complete'
<1> USE DEF Complete, Freed, ResetDone, ChunkOwner, ShortBlock, Undisturbed, Received,
            Aborted, GivesUpLate, GivingUp, EndPC, SessionHolds, TimerHolds,
            CounterTypes, Data, Totals, BlockOwner, Control, ControlTypes, PartialBlock,
            MutexOwner, Lifetimes, Places
<1> USE DEF flowVars, queueVars, blockVars, dataVars, flagVars, threadVars, pauseVars,
            headerVars, endVars, restVars, outVars, boundVars
<1> USE BlockSizeAssumption, ContentAssumption, BoundsAssumption
<1> USE DEF CtlPC, CreatePC, SessionPC, TimerPC
<1>1. CASE Start
  <2>1. CASE StartTimer
    <3>1. chunk = 0 /\ pc.session = "none" /\ stored = 0 /\ toSend = ContentLength
      BY <2>1 DEF StartTimer
    <3>2. stored' + chunk' + toSend' = ContentLength
      BY <2>1, <3>1 DEF StartTimer
    <3>3. QED
      BY <3>2
  <2>2. CASE StartSession
    BY <2>2 DEF StartSession
  <2>3. CASE StartReturns
    BY <2>3 DEF StartReturns
  <2>4. QED
    BY <1>1, <2>1, <2>2, <2>3 DEF Start
<1>2. CASE Unlock \/ Flushed \/ UnlockStop \/ Resume
  BY <1>2 DEF Unlock, Flushed, UnlockStop, Resume
<1>3. CASE Stop
  BY <1>3 DEF Stop, StopRequest, StopSignal, SignalNotFull, StopJoin, FlushQueue
<1>4. CASE CreateEnter \/ CreateEmpty \/ CreateWoken \/ CreateFailed \/
           CreateRequestStop \/ CreatePushEos
  <2>1. CASE CreateEnter
    BY <2>1 DEF CreateEnter
  <2>2. CASE CreateEmpty
    BY <2>2 DEF CreateEmpty, NoMoreData
  <2>3. CASE CreateWoken
    BY <2>3 DEF CreateWoken, NoMoreData
  <2>4. CASE CreateFailed
    BY <2>4 DEF CreateFailed
  <2>5. CASE CreateRequestStop
    BY <2>5 DEF CreateRequestStop
  <2>6. CASE CreatePushEos
    BY <2>6 DEF CreatePushEos
  <2>7. QED
    BY <1>4, <2>1, <2>2, <2>3, <2>4, <2>5, <2>6
<1>5. CASE CreatePop \/ CreateSetStop
  <2>1. CASE CreatePop
    <3>1. UNCHANGED <<stored, chunk, toSend, block, currBlock, result, flushes,
                      threadStopRequested>>
      BY <2>1 DEF CreatePop
    <3>2. QED
      BY <2>1, <3>1, TakerEffect
  <2>2. CASE CreateSetStop
    BY <2>2 DEF CreateSetStop, SignalNotFull
  <2>3. QED
    BY <1>5, <2>1, <2>2
<1>6. CASE CreatePushPartial \/ CreatePushQueued
  <2>1. CASE CreatePushPartial
    BY <2>1 DEF CreatePushPartial, MutexFree
  <2>2. CASE CreatePushQueued
    BY <2>2 DEF CreatePushQueued, FlushQueue
  <2>3. QED
    BY <1>6, <2>1, <2>2
<1>7. CASE SessionBegin \/ SessionProgress \/ SessionTrailer \/ SessionReject
  BY <1>7 DEF SessionBegin, SessionProgress, SessionTrailer, SessionReject
<1>8. CASE SessionTrailerWake
  BY <1>8 DEF SessionTrailerWake, SignalNotEmpty
<1>9. CASE SessionFill
  <2>1. /\ pc.session = "fill" /\ stored' + chunk' = stored + chunk
        /\ UNCHANGED <<toSend, flushes>>
    BY <1>9 DEF SessionFill, Avail, Offset
  <2>2. pc'.ctl = pc.ctl
    BY <1>9 DEF SessionFill, SignalTimer
  <2>3. Undisturbed => stored + chunk + toSend = ContentLength
    BY <2>1
  <2>4. QED
    BY <2>1, <2>2, <2>3
<1>10. ASSUME NEW r \in Results, SessionResult(r)
       PROVE  Complete'
  BY <1>10 DEF SessionResult
<1>11. ASSUME NEW n \in 1..MaxChunk, SessionReceive(n)
       PROVE  Complete'
  <2>1. /\ pc.session = "perform" /\ toSend # 0 /\ toSend' = toSend - n
        /\ UNCHANGED <<threadStopRequested, stored, pauseVars, eosEventPushed,
                       haveTrailers, threadStarted, result, flushes>>
    BY <1>11 DEF SessionReceive
  <2>2. [pc EXCEPT !.session = "fill"] \in Places
    BY DEF Places
  <2>3. /\ pc'.ctl = pc.ctl /\ pc'.create = pc.create /\ pc'.session \in {"fill", "reject"}
        /\ pc'.session = "fill" => chunk' = n
    <3>1. CASE pc' = [pc EXCEPT !.session = "reject"]
      BY <3>1
    <3>2. CASE /\ pc' \in {[pc EXCEPT !.session = "fill"],
                            SignalTimer([pc EXCEPT !.session = "fill"])}
               /\ chunk' = n
      BY <2>2, <3>2, SignalTimerEffect
    <3>3. QED
      BY <1>11, <3>1, <3>2 DEF SessionReceive
  <2>4. Undisturbed => chunk = 0 /\ stored + toSend = ContentLength
    BY <2>1
  <2>5. QED
    BY <2>1, <2>3, <2>4
<1>12. CASE SessionEnded \/ SessionMark \/ SessionFlagStop \/ SessionPause \/
            SessionJoinTimer
  <2>1. CASE SessionEnded
    BY <2>1 DEF SessionEnded
  <2>2. CASE SessionMark
    BY <2>2 DEF SessionMark
  <2>3. CASE SessionFlagStop
    BY <2>3 DEF SessionFlagStop
  <2>4. CASE SessionPause
    BY <2>4 DEF SessionPause
  <2>5. CASE SessionJoinTimer
    BY <2>5 DEF SessionJoinTimer
  <2>6. QED
    BY <1>12, <2>1, <2>2, <2>3, <2>4, <2>5
<1>13. CASE SessionAwaitTimer \/ SessionWake
  <2>1. CASE SessionAwaitTimer
    BY <2>1 DEF SessionAwaitTimer, SignalTimer
  <2>2. CASE SessionWake
    BY <2>2 DEF SessionWake, SignalNotEmpty
  <2>3. QED
    BY <1>13, <2>1, <2>2
<1>14. ASSUME NEW t \in {"session", "timer"}, Enqueue(t)
       PROVE  Complete'
  <2>1. /\ UNCHANGED <<flagVars, restVars, blockVars, chunk, toSend, threadStopRequested>>
        /\ pc[t] = "enqueue" /\ block' = 0
    BY <1>14 DEF Enqueue
  <2>2. QED
    BY <1>14, <2>1, EnqueueEffect
<1>15. ASSUME NEW t \in {"session", "timer"},
              EnqueueWait(t) \/ EnqueueLocked(t) \/ EnqueueFails(t) \/ EnqueueWoken(t)
       PROVE  Complete'
  BY <1>15 DEF EnqueueWait, EnqueueLocked, EnqueueFails, EnqueueWoken
<1>16. CASE TimerBegin \/ TimerWoken \/ TimerLoop \/ TimerExpires \/ TimerFlush
  BY <1>16 DEF TimerBegin, TimerWoken, TimerLoop, TimerExpires, TimerFlush, MutexFree
<1>17. CASE SpuriousWakeup
  <2>1. UNCHANGED <<flowVars, flagVars, restVars, threadStopRequested>>
    BY <1>17 DEF SpuriousWakeup
  <2>2. QED
    BY <1>17, <2>1, SpuriousEffect
<1>18. CASE Terminated \/ UNCHANGED vars
  BY <1>18 DEF Terminated, vars
<1>19. QED
  BY <1>1, <1>2, <1>3, <1>4, <1>5, <1>6, <1>7, <1>8, <1>9, <1>10, <1>11, <1>12, <1>13,
     <1>14, <1>15, <1>16, <1>17, <1>18
     DEF Next, Create, Session, SessionEnds, Timer, BufferReady

\* Nobody adds to the queue after create() has looked at it for the last time.
LEMMA LastLookNext ==
  ASSUME Control, Data, StreamInv, InStreamOrder, ResetDone, LastLook, CounterTypes,
         [Next]_vars
  PROVE  LastLook'
<1> USE DEF LastLook, ResetDone, Undisturbed, Over, CounterTypes, Control, ControlTypes,
            MutexOwner, Quiet, Settled, SessionHolds, TimerHolds, Places
<1> USE DEF flowVars, queueVars, blockVars, dataVars, flagVars, threadVars, pauseVars,
            headerVars, endVars, restVars, outVars, boundVars
<1> USE BlockSizeAssumption, ContentAssumption, BoundsAssumption
<1> USE DEF CtlPC, CreatePC, SessionPC, TimerPC
<1>1. CASE Start
  BY <1>1 DEF Start, StartTimer, StartSession, StartReturns
<1>2. CASE Unlock \/ Flushed \/ UnlockStop \/ Resume
  BY <1>2 DEF Unlock, Flushed, UnlockStop, Resume
<1>3. CASE Stop
  <2>1. CASE StopRequest
    BY <2>1 DEF StopRequest
  <2>2. CASE StopSignal
    BY <2>2 DEF StopSignal, SignalNotFull
  <2>3. CASE StopJoin
    BY <2>3 DEF StopJoin, FlushQueue
  <2>4. QED
    BY <1>3, <2>1, <2>2, <2>3 DEF Stop
<1>4. CASE CreateEnter \/ CreateEmpty \/ CreateWoken \/ CreateFailed \/
           CreateRequestStop \/ CreatePushEos
  BY <1>4 DEF CreateEnter, CreateEmpty, NoMoreData, CreateWoken, CreateFailed,
     CreateRequestStop, CreatePushEos
<1>5. CASE CreatePop \/ CreateSetStop
  BY <1>5 DEF CreatePop, SignalNotFull, CreateSetStop
<1>6. CASE CreatePushPartial \/ CreatePushQueued
  <2> Len(queue) \in Nat /\ queuedByteCount \in Nat
    BY DEF Data, Linked
  <2>1. CASE CreatePushPartial
    <3>1. /\ pc.create = "pushPartial" /\ flowTimerMutex = "none"
          /\ UNCHANGED <<queue, queuedByteCount, flushes, eosEventPushed>>
      BY <2>1 DEF CreatePushPartial, MutexFree
    <3>2. CASE ~currBlock
      BY <2>1, <3>1, <3>2 DEF CreatePushPartial
    <3>3. CASE currBlock
      <4>1. /\ Push(stored - currBlockOffset, currBlockOffset)
            /\ pc' = [pc EXCEPT !.create = "pushEos"]
        <5>1. currBlockOffset < BlockSize
          BY DEF PartialBlock
        <5>2. QED
          BY <2>1, <3>3, <5>1 DEF CreatePushPartial
      <4>2. ASSUME Undisturbed, Len(queue) = 1, queuedByteCount > 0
            PROVE  out'.breaks > 0
        <5>1. block = 0
          BY <3>1 DEF Data, BlockOwner
        <5>2. queue[1].size = queuedByteCount
          <6>1. queue # <<>> /\ queuedByteCount = queue[1].at + queue[1].size - queue[1].at
            BY <4>2 DEF Data, QueueAccounting
          <6>2. queue[1].at \in Nat /\ queue[1].size \in Nat
            BY <4>2, LinkedElements DEF Data
          <6>3. QED
            BY <6>1, <6>2
        <5>3. queue[1].from + queue[1].size <= stored - currBlockOffset
          <6>1. 1 \in 1 .. Len(queue) /\ Offset = currBlockOffset
            BY <3>3, <4>2 DEF Offset
          <6>2. queue[1].from + queue[1].size <= stored - block - Offset
            BY <6>1 DEF InStreamOrder
          <6>3. stored \in Nat /\ currBlockOffset \in Nat
            BY DEF Data, Totals, PartialBlock
          <6>4. QED
            BY <5>1, <6>1, <6>2, <6>3
        <5>4. /\ out.end = readPosition /\ out.breaks = 0
              /\ queue[1].from = readPosition + queue[1].at - queue[1].at
          BY <3>1, <4>2 DEF StreamInv, Seamless
        <5>5. /\ queue[1].from \in Nat /\ queue[1].at \in Nat
              /\ readPosition \in Nat /\ stored \in Nat
          BY <4>2, LinkedElements DEF Data, Totals
        <5>6. out.end # stored - currBlockOffset /\ out.end # AnyPlace
          BY <4>2, <5>2, <5>3, <5>4, <5>5 DEF AnyPlace
        <5>7. QED
          BY <4>1, <5>4, <5>6 DEF Push
      <4>3. QED
        BY <3>1, <4>1, <4>2
    <3>4. QED
      BY <3>2, <3>3
  <2>2. CASE CreatePushQueued
    <3>1. /\ pc.create = "pushQueued" /\ pc' = [pc EXCEPT !.create = "pushEos"]
          /\ UNCHANGED <<flushes, eosEventPushed>>
      BY <2>2 DEF CreatePushQueued
    <3>2. Len(queue') # 1
      BY <2>2 DEF CreatePushQueued, LastBlockQueued, FlushQueue
    <3>3. QED
      BY <3>1, <3>2
  <2>3. QED
    BY <1>6, <2>1, <2>2
<1>7. CASE SessionBegin \/ SessionProgress \/ SessionTrailer \/ SessionReject
  BY <1>7 DEF SessionBegin, SessionProgress, SessionTrailer, SessionReject
<1>8. CASE SessionTrailerWake
  BY <1>8 DEF SessionTrailerWake, SignalNotEmpty
<1>9. CASE SessionFill
  BY <1>9 DEF SessionFill, Avail, Offset, SignalTimer
<1>10. ASSUME NEW r \in Results, SessionResult(r)
       PROVE  LastLook'
  BY <1>10 DEF SessionResult
<1>11. ASSUME NEW n \in 1..MaxChunk, SessionReceive(n)
       PROVE  LastLook'
  BY <1>11 DEF SessionReceive, SignalTimer
<1>12. CASE SessionEnded \/ SessionMark \/ SessionFlagStop \/ SessionPause \/
            SessionJoinTimer
  <2>1. CASE SessionEnded
    BY <2>1 DEF SessionEnded
  <2>2. CASE SessionMark
    BY <2>2 DEF SessionMark
  <2>3. CASE SessionFlagStop
    BY <2>3 DEF SessionFlagStop
  <2>4. CASE SessionPause
    BY <2>4 DEF SessionPause
  <2>5. CASE SessionJoinTimer
    BY <2>5 DEF SessionJoinTimer
  <2>6. QED
    BY <1>12, <2>1, <2>2, <2>3, <2>4, <2>5
<1>13. CASE SessionAwaitTimer \/ SessionWake
  <2>1. CASE SessionAwaitTimer
    BY <2>1 DEF SessionAwaitTimer, SignalTimer
  <2>2. CASE SessionWake
    BY <2>2 DEF SessionWake, SignalNotEmpty
  <2>3. QED
    BY <1>13, <2>1, <2>2
<1>14. ASSUME NEW t \in {"session", "timer"}, Enqueue(t)
       PROVE  LastLook'
  BY <1>14 DEF Enqueue, SignalNotEmpty, Copying
<1>15. ASSUME NEW t \in {"session", "timer"},
              EnqueueWait(t) \/ EnqueueLocked(t) \/ EnqueueFails(t) \/ EnqueueWoken(t)
       PROVE  LastLook'
  BY <1>15 DEF EnqueueWait, EnqueueLocked, EnqueueFails, EnqueueWoken
<1>16. CASE TimerBegin \/ TimerWoken \/ TimerLoop \/ TimerExpires \/ TimerFlush
  BY <1>16 DEF TimerBegin, TimerWoken, TimerLoop, TimerExpires, TimerFlush, MutexFree
<1>17. CASE SpuriousWakeup
  <2>1. UNCHANGED <<queue, queuedByteCount, out, flushes, eosEventPushed>>
    BY <1>17 DEF SpuriousWakeup
  <2>2. QED
    BY <1>17, <2>1, SpuriousEffect
<1>18. CASE Terminated \/ UNCHANGED vars
  BY <1>18 DEF Terminated, vars
<1>19. QED
  BY <1>1, <1>2, <1>3, <1>4, <1>5, <1>6, <1>7, <1>8, <1>9, <1>10, <1>11, <1>12, <1>13,
     <1>14, <1>15, <1>16, <1>17, <1>18
     DEF Next, Create, Session, SessionEnds, Timer, BufferReady


\* All of it together is inductive, above the invariants of the earlier layers.
LEMMA EndingNext ==
  ASSUME Invariants, FlagTypes, CounterTypes, Ending, [Next]_vars
  PROVE  Ending'
  BY ResetDoneNext, EndsWellNext, GivesUpLateNext, ChunkOwnerNext, ShortBlockNext,
     CompleteNext, LastLookNext DEF Ending, Invariants

\* A new element has nothing to end.
LEMMA EndingInit == Init => Ending
<1> SUFFICES ASSUME Init PROVE Ending
  OBVIOUS
<1>1. ResetDone /\ EndsWell /\ ChunkOwner /\ ShortBlock
  BY DEF Init, ResetDone, EndsWell, ChunkOwner, ShortBlock, EndPC
<1>2. GivesUpLate /\ Complete /\ LastLook
  BY DEF Init, GivesUpLate, Complete, LastLook, Undisturbed
<1>3. QED
  BY <1>1, <1>2 DEF Ending

\* At the end of a complete transfer every byte that is not pushed or queued is in the
\* partial block, in the flow timer's hands or freed by it, and that is one block.
LEMMA EndingBounds ==
  ASSUME Invariants, CounterTypes, Ending
  PROVE  EosLossBounded
<1> SUFFICES ASSUME eosEventPushed, result = "ok", flushes = 0, pc.ctl = "running",
                    pc.session \in {"awaitTimer", "joinTimer", "wake", "done"}
             PROVE  /\ readPosition + queuedByteCount + BlockSize > ContentLength
                    /\ Len(queue) = 1 /\ queuedByteCount > 0 => out.breaks > 0
  BY DEF EosLossBounded
<1>1. Undisturbed /\ ~Aborted /\ Received /\ toSend = 0
  BY DEF Ending, GivesUpLate, GivingUp, Undisturbed, Aborted, Received
<1>2. chunk = 0 /\ pc.session \notin SessionHolds
  BY DEF Ending, ChunkOwner, SessionHolds
<1>3. /\ stored \in Nat /\ block \in Nat /\ Offset \in Nat /\ readPosition \in Nat
      /\ queuedByteCount \in Nat /\ BlockSize \in Nat /\ ContentLength \in Nat
      /\ stored = readPosition + queuedByteCount + block + Offset
  BY StreamTypes, BlockSizeAssumption, ContentAssumption
     DEF Invariants, Data, Totals, Conservation
<1>4. block + Offset < BlockSize
  <2>1. CASE block = 0
    BY <2>1, BlockSizeAssumption DEF Offset, Invariants, Control, PartialBlock
  <2>2. CASE block # 0
    <3>1. flowTimerMutex = "timer"
      BY <1>2, <2>2
         DEF Invariants, Control, ControlTypes, MutexOwner, Data, BlockOwner
    <3>2. ~currBlock /\ block < BlockSize
      BY <1>2, <3>1
         DEF Invariants, Control, MutexOwner, SessionHolds, Ending, ShortBlock
    <3>3. QED
      BY <1>3, <3>2 DEF Offset
  <2>3. QED
    BY <2>1, <2>2
<1>5. readPosition + queuedByteCount + BlockSize > ContentLength
  <2>1. stored + chunk + toSend = ContentLength \/ Freed
    BY <1>1 DEF Ending, Complete
  <2>2. CASE stored + chunk + toSend = ContentLength
    BY <1>1, <1>2, <1>3, <1>4, <2>2
  <2>3. CASE Freed
    BY <1>3, <2>3 DEF Freed, Offset
  <2>4. QED
    BY <2>1, <2>2, <2>3
<1>6. Len(queue) = 1 /\ queuedByteCount > 0 => out.breaks > 0
  BY <1>1 DEF Ending, LastLook, Over
<1>7. QED
  BY <1>5, <1>6

\* Ending holds in every reachable state.
THEOREM EndingInvariant == Spec => []Ending
<1>1. FlagTypes /\ CounterTypes /\ [Next]_vars => FlagTypes' /\ CounterTypes'
  BY FlagTypesNext, CounterTypesNext
<1>2. Invariants /\ FlagTypes /\ CounterTypes /\ Ending /\ [Next]_vars => Ending'
  BY EndingNext
<1>3. QED
  BY <1>1, <1>2, EndingInit, TypesInit, StreamInvariant, PTL DEF Spec

\* When create() has pushed EOS after a complete transfer nobody disturbed, downstream
\* has all of it but what stays in the queue and less than one block
\* (gst_http_src_create(), data_received(NULL) and buffer_ready() at the end).
THEOREM EosLossBoundedTheorem == Spec => []EosLossBounded
<1>1. Spec => [](FlagTypes /\ CounterTypes)
  <2>1. FlagTypes /\ CounterTypes /\ [Next]_vars => FlagTypes' /\ CounterTypes'
    BY FlagTypesNext, CounterTypesNext
  <2>2. QED
    BY <2>1, TypesInit, PTL DEF Spec
<1>2. Invariants /\ CounterTypes /\ Ending => EosLossBounded
  BY EndingBounds
<1>3. QED
  BY <1>1, <1>2, EndingInvariant, StreamInvariant, PTL
=============================================================================
