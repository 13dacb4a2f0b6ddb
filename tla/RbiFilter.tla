------------------------------ MODULE RbiFilter ------------------------------
(***************************************************************************)
(* The rbifilter element (src/rbifilter/rbifilter.c).  While it is playing *)
(* the buffers and events from upstream go through pendingItems to a task  *)
(* of its own, which asks the insertion context what to do with each and   *)
(* may push a buffer of the context's instead.  While it is not playing    *)
(* they go downstream directly, under lockItems.                           *)
(*                                                                         *)
(* Two threads call in from upstream: the streaming thread ("up") and the  *)
(* one that flushes ("seek").  playing is written outside lockItems, so    *)
(* the test of it and what follows are steps of their own.  Items are      *)
(* numbered in the order in which their callers get the lock.              *)
(***************************************************************************)
EXTENDS Integers, Sequences, FiniteSets

CONSTANTS
  Errors,     \* whether downstream may refuse a buffer out of hand
  MaxItems,   \* bound on buffers and serialized events from upstream
  MaxSeeks    \* bound on flushes

ASSUME RbiBoundsAssumption == Errors \in BOOLEAN /\ MaxItems \in Nat /\ MaxSeeks \in Nat

VARIABLES
  pendingItems, playing, inserting,
  srcRet,         \* "ok" or "error"
  task,           \* the source pad's task
  app,            \* where the state change is
  loop,           \* where the task's function is
  hand,           \* the item it is working on
  call,           \* the two upstream callers
  flushing,       \* the sink pad, from FLUSH_START to FLUSH_STOP
  downFlushing,   \* the same downstream
  hist,           \* history, see Init
  stale,          \* history of flushes, see Old
  arrivals, seeks \* bounded counters

vars == <<pendingItems, playing, inserting, srcRet, task, app, loop, hand, call,
          flushing, downFlushing, hist, stale, arrivals, seeks>>

Callers == {"up", "seek"}
Kinds == {"buffer", "event", "flushStart", "flushStop"}
Item == [kind : Kinds, id : Nat]
NoItem == [kind |-> "none", id |-> 0]
Ad == [kind |-> "ad", id |-> 0]
Idle == [pc |-> "idle", item |-> NoItem]

\* A caller holds lockItems while it appends and while it pushes.
LockFree == \A c \in Callers : call[c].pc \notin {"append", "push"}

IsBuffer(item) == item.kind = "buffer"

\* The places of the items flush() keeps, and how many of them are no later than j.
Kept(q) == {j \in DOMAIN q : ~IsBuffer(q[j])}
Rank(q, j) == Cardinality({i \in Kept(q) : i <= j})

\* flush() drops the buffers and keeps the events, in their order.
Flushed(q) ==
  [n \in 1..Cardinality(Kept(q)) |-> q[CHOOSE j \in Kept(q) : Rank(q, j) = n]]

\* g_cond_signal(condNotEmpty) for the only waiter.
SignalNotEmpty(at) == IF at = "wait" THEN "lock" ELSE at

Inside == pendingItems # <<>> \/ hand.kind \in Kinds

\* The history when items stay inside although the element does not play.
LeftBehind == [hist EXCEPT !.stranded = TRUE, !.out = 0]

-----------------------------------------------------------------------------
\* The element in READY, nothing received.  hist records the last number given,
\* the highest one delivered, whether one came after a higher one, whether items
\* were left inside while not playing, and the last number at srcRet's error.
Init ==
  /\ pendingItems = <<>> /\ playing = FALSE /\ inserting = FALSE /\ srcRet = "ok"
  /\ task = "none" /\ app = "ready" /\ loop = "off" /\ hand = NoItem
  /\ call = [c \in Callers |-> Idle]
  /\ flushing = FALSE /\ downFlushing = FALSE
  /\ hist = [added |-> 0, out |-> 0, late |-> FALSE, stranded |-> FALSE, errAt |-> 0]
  /\ stale = [before |-> 0, pushed |-> 0]
  /\ arrivals = 0 /\ seeks = 0

-----------------------------------------------------------------------------
(* The application: state changes.                                         *)

\* READY to PAUSED activates the pads.
ToPaused ==
  /\ app = "ready"
  /\ app' = "paused" /\ downFlushing' = FALSE
  /\ UNCHANGED <<pendingItems, playing, inserting, srcRet, task, loop, hand, call,
                 flushing, hist, stale, arrivals, seeks>>

\* PAUSED to READY waits for the streaming thread.  pendingItems stays.
ToReady ==
  /\ app = "paused" /\ ~flushing /\ \A c \in Callers : call[c] = Idle
  /\ app' = "ready" /\ inserting' = FALSE /\ srcRet' = "ok"
  /\ UNCHANGED <<pendingItems, playing, task, loop, hand, call, flushing,
                 downFlushing, hist, stale, arrivals, seeks>>

\* PAUSED to PLAYING, with a context and its callbacks set.
Play ==
  /\ app = "paused"
  /\ app' = "starting" /\ playing' = TRUE /\ inserting' = FALSE /\ srcRet' = "ok"
  /\ hist' = [hist EXCEPT !.errAt = 0]
  /\ UNCHANGED <<pendingItems, task, loop, hand, call, flushing, downFlushing, stale,
                 arrivals, seeks>>

StartTask ==
  /\ app = "starting"
  /\ app' = "playing" /\ task' = "started" /\ loop' = "top"
  /\ UNCHANGED <<pendingItems, playing, inserting, srcRet, hand, call, flushing,
                 downFlushing, hist, stale, arrivals, seeks>>

\* PLAYING to PAUSED: playing is cleared without the lock, ...
Pause ==
  /\ app = "playing"
  /\ app' = "pausing" /\ playing' = FALSE
  /\ hist' = IF Inside THEN LeftBehind ELSE hist
  /\ UNCHANGED <<stale, pendingItems, inserting, srcRet, task, loop, hand, call, flushing,
                 downFlushing, arrivals, seeks>>

\* Mutant: the task is not woken.
PauseSignal_Silent ==
  /\ app = "pausing" /\ LockFree
  /\ app' = "signalled"
  /\ UNCHANGED <<pendingItems, playing, inserting, srcRet, task, loop, hand, call,
                 flushing, downFlushing, hist, stale, arrivals, seeks>>

\* ... the task is woken, ...
PauseSignal ==
  /\ app = "pausing" /\ LockFree
  /\ app' = "signalled" /\ loop' = SignalNotEmpty(loop)
  /\ UNCHANGED <<pendingItems, playing, inserting, srcRet, task, hand, call,
                 flushing, downFlushing, hist, stale, arrivals, seeks>>

\* ... told to stop, ...
StopTask ==
  /\ app = "signalled"
  /\ app' = "joining" /\ task' = "stopping"
  /\ UNCHANGED <<pendingItems, playing, inserting, srcRet, loop, hand, call,
                 flushing, downFlushing, hist, stale, arrivals, seeks>>

\* ... and waited for.
Joined ==
  /\ app = "joining" /\ loop = "off"
  /\ app' = "paused" /\ task' = "none"
  /\ UNCHANGED <<pendingItems, playing, inserting, srcRet, loop, hand, call,
                 flushing, downFlushing, hist, stale, arrivals, seeks>>

-----------------------------------------------------------------------------
(* Upstream.  The pad passes nothing serialized on while it is flushing or *)
(* while FLUSH_STOP goes through it.                                       *)

Streaming ==
  /\ call["up"].pc = "idle" /\ app # "ready" /\ arrivals < MaxItems
  /\ ~flushing /\ call["seek"].item.kind # "flushStop"

At(pc, kind, id) == [pc |-> pc, item |-> [kind |-> kind, id |-> id]]

Enter(c, kind) == call' = [call EXCEPT ![c] = At("add", kind, 0)]

\* Mutant: srcRet is not looked at.
Chain_Always ==
  /\ Streaming
  /\ Enter("up", "buffer")
  /\ arrivals' = arrivals + 1
  /\ UNCHANGED <<pendingItems, playing, inserting, srcRet, task, app, loop, hand,
                 flushing, downFlushing, hist, stale, seeks>>

\* chain() takes a buffer unless the task's push has failed.
Chain ==
  /\ Streaming /\ srcRet = "ok"
  /\ Enter("up", "buffer")
  /\ arrivals' = arrivals + 1
  /\ UNCHANGED <<pendingItems, playing, inserting, srcRet, task, app, loop, hand,
                 flushing, downFlushing, hist, stale, seeks>>

\* A segment or EOS is taken in any case.
SinkEvent ==
  /\ Streaming
  /\ Enter("up", "event")
  /\ arrivals' = arrivals + 1
  /\ UNCHANGED <<pendingItems, playing, inserting, srcRet, task, app, loop, hand,
                 flushing, downFlushing, hist, stale, seeks>>

\* FLUSH_START is not serialized: the pad is flushing from here on, ...
FlushStart ==
  /\ call["seek"] = Idle /\ ~flushing /\ app # "ready" /\ seeks < MaxSeeks
  /\ flushing' = TRUE
  /\ call' = [call EXCEPT !["seek"] = [pc |-> "flush", item |-> NoItem]]
  /\ seeks' = seeks + 1
  /\ UNCHANGED <<pendingItems, playing, inserting, srcRet, task, app, loop, hand,
                 downFlushing, hist, stale, arrivals>>

\* Mutant: one of the two list links of a buffer stays.
Flush_LeavesLinks ==
  /\ call["seek"].pc = "flush" /\ LockFree
  /\ pendingItems' = [j \in DOMAIN pendingItems |->
       IF IsBuffer(pendingItems[j]) THEN NoItem ELSE pendingItems[j]]
  /\ stale' = [stale EXCEPT !.pushed = 0]
  /\ Enter("seek", "flushStart")
  /\ UNCHANGED <<playing, inserting, srcRet, task, app, loop, hand, flushing,
                 downFlushing, hist, arrivals, seeks>>

\* Mutant: the walk through the list starts behind its first item.
Flush_SkipsFirst ==
  /\ call["seek"].pc = "flush" /\ LockFree
  /\ pendingItems' = IF pendingItems = <<>> THEN <<>>
       ELSE <<Head(pendingItems)>> \o Flushed(Tail(pendingItems))
  /\ stale' = [stale EXCEPT !.pushed = 0]
  /\ Enter("seek", "flushStart")
  /\ UNCHANGED <<playing, inserting, srcRet, task, app, loop, hand, flushing,
                 downFlushing, hist, arrivals, seeks>>

\* ... flush() empties the queue, and the event is added after that.
Flush ==
  /\ call["seek"].pc = "flush" /\ LockFree
  /\ pendingItems' = Flushed(pendingItems)
  /\ stale' = [stale EXCEPT !.pushed = 0]
  /\ Enter("seek", "flushStart")
  /\ UNCHANGED <<playing, inserting, srcRet, task, app, loop, hand, flushing,
                 downFlushing, hist, arrivals, seeks>>

\* FLUSH_STOP takes the pad's stream lock.
FlushStop ==
  /\ flushing /\ call["seek"] = Idle /\ call["up"] = Idle
  /\ flushing' = FALSE
  /\ Enter("seek", "flushStop")
  /\ UNCHANGED <<pendingItems, playing, inserting, srcRet, task, app, loop, hand,
                 downFlushing, hist, stale, arrivals, seeks>>

\* The history notes the number of FLUSH_START.
NumberFlush(c) ==
  stale' = IF call[c].item.kind = "flushStart"
             THEN [stale EXCEPT !.before = hist.added + 1] ELSE stale

\* Mutant: events do not go through the queue.
AddLock_EventsDirect(c) ==
  /\ call[c].pc = "add" /\ LockFree
  /\ call' = [call EXCEPT ![c] =
       At(IF playing /\ IsBuffer(@.item) THEN "append" ELSE "push", @.item.kind,
          hist.added + 1)]
  /\ hist' = [hist EXCEPT !.added = @ + 1]
  /\ NumberFlush(c)
  /\ UNCHANGED <<pendingItems, playing, inserting, srcRet, task, app, loop, hand,
                 flushing, downFlushing, arrivals, seeks>>

\* add_event(), add_buffer(): with the lock, playing decides which way it goes.
AddLock(c) ==
  /\ call[c].pc = "add" /\ LockFree
  /\ call' = [call EXCEPT ![c] =
       At(IF playing THEN "append" ELSE "push", @.item.kind, hist.added + 1)]
  /\ hist' = [hist EXCEPT !.added = @ + 1]
  /\ NumberFlush(c)
  /\ UNCHANGED <<pendingItems, playing, inserting, srcRet, task, app, loop, hand,
                 flushing, downFlushing, arrivals, seeks>>

\* Mutant: the loop is not signalled.
AddAppend_Silent(c) ==
  /\ call[c].pc = "append"
  /\ pendingItems' = Append(pendingItems, call[c].item)
  /\ call' = [call EXCEPT ![c] = Idle]
  /\ hist' = IF playing THEN hist ELSE LeftBehind
  /\ UNCHANGED <<stale, playing, inserting, srcRet, task, app, loop, hand, flushing,
                 downFlushing, arrivals, seeks>>

AddAppend(c) ==
  /\ call[c].pc = "append"
  /\ pendingItems' = Append(pendingItems, call[c].item)
  /\ loop' = SignalNotEmpty(loop)
  /\ call' = [call EXCEPT ![c] = Idle]
  /\ hist' = IF playing THEN hist ELSE LeftBehind
  /\ UNCHANGED <<stale, playing, inserting, srcRet, task, app, hand, flushing,
                 downFlushing, arrivals, seeks>>

-----------------------------------------------------------------------------
(* Downstream.                                                             *)

\* It takes an event; a buffer is refused while it is flushing.
Accepts(item, ok) ==
  IF item.kind \in {"buffer", "ad"} THEN ok => ~downFlushing ELSE ok

\* What a push of an item does there and to the history, which does not follow the
\* order any more once items were left behind.
Deliver(item, ok, h) ==
  /\ downFlushing' = IF item.kind \in {"flushStart", "flushStop"}
                       THEN item.kind = "flushStart" ELSE downFlushing
  /\ hist' = IF ok /\ item.kind # "ad" /\ ~h.stranded
               THEN [h EXCEPT !.late = @ \/ item.id < h.out,
                              !.out = IF item.id < @ THEN @ ELSE item.id]
               ELSE h

\* The history counts the old buffers handed downstream since flush() let go of the
\* lock: those that came before its FLUSH_START, which may not be added yet.
Old(item) ==
  /\ IsBuffer(item)
  /\ \/ call["seek"].pc = "add" /\ call["seek"].item.kind = "flushStart"
     \/ item.id < stale.before

CountStale(item) == stale' = IF Old(item) THEN [stale EXCEPT !.pushed = @ + 1] ELSE stale

\* The direct push returns and the lock is released.  Nobody looks at the result
\* of a buffer's push.
AddPushed(c) ==
  /\ call[c].pc = "push"
  /\ \E ok \in BOOLEAN :
       /\ Accepts(call[c].item, ok) /\ (ok \/ Errors \/ downFlushing)
       /\ Deliver(call[c].item, ok, hist)
  /\ CountStale(call[c].item)
  /\ call' = [call EXCEPT ![c] = Idle]
  /\ UNCHANGED <<pendingItems, playing, inserting, srcRet, task, app, loop, hand,
                 flushing, arrivals, seeks>>

-----------------------------------------------------------------------------
(* The task.                                                               *)

\* Its function is called while it is started.  It first asks whether the context
\* is inserting.
LoopTop ==
  /\ loop = "top" /\ task = "started"
  /\ inserting' \in BOOLEAN
  /\ loop' = "lock"
  /\ UNCHANGED <<pendingItems, playing, srcRet, task, app, hand, call, flushing,
                 downFlushing, hist, stale, arrivals, seeks>>

LoopEnd ==
  /\ loop = "top" /\ task = "stopping"
  /\ loop' = "off"
  /\ UNCHANGED <<pendingItems, playing, inserting, srcRet, task, app, hand, call,
                 flushing, downFlushing, hist, stale, arrivals, seeks>>

\* Mutant: the queue is looked at without the lock.
LoopMayLook_NoLock == TRUE

LoopMayLook == LockFree

\* With nothing to do it waits; inserting is not asked again before an item comes.
LoopWait ==
  /\ loop = "lock" /\ LoopMayLook
  /\ ~inserting /\ pendingItems = <<>> /\ playing
  /\ loop' = "wait"
  /\ UNCHANGED <<pendingItems, playing, inserting, srcRet, task, app, hand, call,
                 flushing, downFlushing, hist, stale, arrivals, seeks>>

\* It takes the first item, if there is one.
LoopTake ==
  /\ loop = "lock" /\ LoopMayLook
  /\ inserting \/ pendingItems # <<>> \/ ~playing
  /\ IF pendingItems # <<>>
       THEN hand' = Head(pendingItems) /\ pendingItems' = Tail(pendingItems)
       ELSE hand' = NoItem /\ UNCHANGED pendingItems
  /\ loop' = "process"
  /\ UNCHANGED <<playing, inserting, srcRet, task, app, call, flushing,
                 downFlushing, hist, stale, arrivals, seeks>>

\* The context sees a buffer and may drop it.  Without an item, it is asked for a
\* buffer of its own while it is inserting.
LoopProcess ==
  /\ loop = "process"
  /\ \E keep \in BOOLEAN, offered \in BOOLEAN :
       LET item == IF IsBuffer(hand) /\ ~keep THEN NoItem ELSE hand
       IN  hand' = IF item = NoItem /\ inserting /\ offered THEN Ad ELSE item
  /\ loop' = IF hand' = NoItem THEN "top" ELSE "push"
  /\ UNCHANGED <<pendingItems, playing, inserting, srcRet, task, app, call, flushing,
                 downFlushing, hist, stale, arrivals, seeks>>

\* The push returns.  A refused buffer pauses the task, unless it is being stopped.
LoopPushed ==
  /\ loop = "push"
  /\ \E ok \in BOOLEAN :
       /\ Accepts(hand, ok) /\ (ok \/ Errors \/ downFlushing)
       /\ Deliver(hand, ok, IF ok THEN hist ELSE [hist EXCEPT !.errAt = hist.added])
       /\ srcRet' = IF ok THEN srcRet ELSE "error"
       /\ task' = IF ~ok /\ task = "started" THEN "paused" ELSE task
  /\ CountStale(hand)
  /\ hand' = NoItem /\ loop' = "top"
  /\ UNCHANGED <<pendingItems, playing, inserting, app, call, flushing, arrivals,
                 seeks>>

\* g_cond_wait() returns without a signal.
SpuriousWakeup ==
  /\ loop = "wait"
  /\ loop' = "lock"
  /\ UNCHANGED <<pendingItems, playing, inserting, srcRet, task, app, hand, call,
                 flushing, downFlushing, hist, stale, arrivals, seeks>>

-----------------------------------------------------------------------------
StateChange == StartTask \/ PauseSignal \/ StopTask \/ Joined

Application == ToPaused \/ ToReady \/ Play \/ Pause \/ StateChange

Upstream == Chain \/ SinkEvent \/ FlushStart

Calling ==
  Flush \/ FlushStop \/ \E c \in Callers : AddLock(c) \/ AddAppend(c) \/ AddPushed(c)

Loop == LoopTop \/ LoopEnd \/ LoopWait \/ LoopTake \/ LoopProcess \/ LoopPushed

Next == Application \/ Upstream \/ Calling \/ Loop \/ SpuriousWakeup

Spec == Init /\ [][Next]_vars

\* The task and a state change run on, a call that came in is finished, a flush is
\* ended, and downstream returns from every push.
FairSpec == Spec /\ WF_vars(StateChange) /\ WF_vars(Calling) /\ WF_vars(Loop)

-----------------------------------------------------------------------------
\* The variables stay in their domains.
TypeOK ==
  /\ pendingItems \in Seq(Item) /\ playing \in BOOLEAN /\ inserting \in BOOLEAN
  /\ srcRet \in {"ok", "error"} /\ task \in {"none", "started", "paused", "stopping"}
  /\ app \in {"ready", "paused", "starting", "playing", "pausing", "signalled", "joining"}
  /\ loop \in {"off", "top", "lock", "wait", "process", "push"}
  /\ hand \in Item \cup {NoItem, Ad}
  /\ \A c \in Callers :
       /\ call[c].pc \in {"idle", "flush", "add", "append", "push"}
       /\ call[c].item \in Item \cup {NoItem}
       /\ call[c].pc \in {"add", "append", "push"} <=> call[c].item # NoItem
  /\ flushing \in BOOLEAN /\ downFlushing \in BOOLEAN
  /\ arrivals \in 0..MaxItems /\ seeks \in 0..MaxSeeks

\* Two threads are never in downstream's chain function at once, but for a state
\* change to PAUSED that has not yet waited for the task.
OnePusher ==
  /\ \A c \in Callers : call[c].pc = "push" /\ loop = "push" =>
       ~playing /\ app \in {"pausing", "signalled", "joining"}
  /\ ~(\A c \in Callers : call[c].pc = "push")

\* Items reach downstream in the order in which they were added, unless a change to
\* PAUSED left some of them behind.
InOrderUnlessStranded == hist.late => hist.stranded

\* A flush lets at most two old buffers through to downstream: the one in the task's
\* hand, and the one whose chain() was under way between flush() and the adding of
\* FLUSH_START.
AtMostTwoStale == stale.pushed <= 2

\* After the task's push failed, at most one more buffer is taken in: the one whose
\* chain() had looked at srcRet before.
AtMostOneAfterError ==
  srcRet = "error" /\ playing =>
    Cardinality({j \in DOMAIN pendingItems :
                   IsBuffer(pendingItems[j]) /\ pendingItems[j].id > hist.errAt}) <= 1

\* A change to PAUSED is completed: a task that waits for items is woken.
PauseReturns == app = "pausing" ~> app = "paused"

\* An item does not stay in the queue of a playing element whose pushes succeed.
ItemsLeave ==
  \A n \in 1..MaxItems + 2 * MaxSeeks :
    (\E j \in DOMAIN pendingItems : pendingItems[j].id = n)
      ~> \/ \A j \in DOMAIN pendingItems : pendingItems[j].id # n
         \/ ~playing \/ srcRet = "error"
=============================================================================
