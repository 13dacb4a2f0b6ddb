--------------------------- MODULE RbiFilterProofs ---------------------------
(***************************************************************************)
(* Theorems about RbiFilter, for every bound: who holds lockItems, how the *)
(* state change, playing and the task fit together, and from that: who may *)
(* be pushing downstream.                                                  *)
(***************************************************************************)
EXTENDS RbiFilter, FiniteSetTheorems, TLAPS

CallerPC == {"idle", "flush", "add", "append", "push"}
AppPC == {"ready", "paused", "starting", "playing", "pausing", "signalled", "joining"}
LoopPC == {"off", "top", "lock", "wait", "process", "push"}

\* The types the control needs.
ControlTypes ==
  /\ playing \in BOOLEAN /\ app \in AppPC /\ loop \in LoopPC
  /\ call = [c \in Callers |-> call[c]]
  /\ \A c \in Callers : call[c].pc \in CallerPC

\* lockItems has one holder.
Exclusive == \A c, d \in Callers :
  call[c].pc \in {"append", "push"} /\ call[d].pc \in {"append", "push"} => c = d

\* The task runs from the start of PLAYING to the end of the change to PAUSED, and
\* playing is set a little before and cleared at the begin of that change.
Phases ==
  /\ app \in {"ready", "paused", "starting"} => loop = "off"
  /\ playing => app \in {"starting", "playing"}
  /\ app \in {"starting", "playing"} => playing

\* A direct push that is still under way when PLAYING comes keeps the loop from
\* getting past the lock.
PushBlocks == \A c \in Callers :
  playing /\ call[c].pc = "push" => loop \in {"off", "top", "lock"}

Control == ControlTypes /\ Exclusive /\ Phases /\ PushBlocks

\* A new element satisfies Control.
LEMMA ControlInit == Init => Control
<1> SUFFICES ASSUME Init PROVE Control
  OBVIOUS
<1>1. call = [c \in Callers |-> Idle] /\ Idle.pc = "idle"
  BY DEF Init, Idle
<1>2. call = [c \in Callers |-> call[c]] /\ \A c \in Callers : call[c].pc = "idle"
  BY <1>1
<1>3. playing = FALSE /\ app = "ready" /\ loop = "off"
  BY DEF Init
<1>4. ControlTypes
  BY <1>2, <1>3 DEF ControlTypes, CallerPC, AppPC, LoopPC
<1>5. Exclusive /\ Phases /\ PushBlocks
  BY <1>2, <1>3 DEF Exclusive, Phases, PushBlocks
<1> QED BY <1>4, <1>5 DEF Control

\* A step that touches only the state change, playing and the loop keeps Control if it
\* keeps what these are to each other.
LEMMA ControlKept ==
  ASSUME Control, UNCHANGED call, playing' \in BOOLEAN, app' \in AppPC, loop' \in LoopPC,
         Phases', PushBlocks'
  PROVE  Control'
BY DEF Control, ControlTypes, Exclusive

\* Steps of the application keep Control: only a loop that is off is started, and
\* only a loop that is off lets the change to PAUSED end.
LEMMA ControlApplication == Control /\ Application => Control'
<1> USE DEF Control, ControlTypes, AppPC, LoopPC, Phases, PushBlocks
<1>1. ASSUME Control, ToPaused \/ ToReady PROVE Control'
  <2>1. UNCHANGED <<call, playing, loop>> /\ app \in {"ready", "paused"}
        /\ app' \in {"ready", "paused"}
    BY <1>1 DEF ToPaused, ToReady
  <2> QED BY <1>1, <2>1, ControlKept
<1>2. ASSUME Control, Play PROVE Control'
  <2>1. UNCHANGED <<call, loop>> /\ playing' = TRUE /\ app = "paused" /\ app' = "starting"
    BY <1>2 DEF Play
  <2> QED BY <1>2, <2>1, ControlKept
<1>3. ASSUME Control, StartTask PROVE Control'
  <2>1. UNCHANGED <<call, playing>> /\ app = "starting" /\ app' = "playing" /\ loop' = "top"
    BY <1>3 DEF StartTask
  <2> QED BY <1>3, <2>1, ControlKept
<1>4. ASSUME Control, Pause PROVE Control'
  <2>1. UNCHANGED <<call, loop>> /\ playing' = FALSE /\ app' = "pausing"
    BY <1>4 DEF Pause
  <2> QED BY <1>4, <2>1, ControlKept
<1>5. ASSUME Control, PauseSignal \/ StopTask \/ Joined PROVE Control'
  <2>1. /\ UNCHANGED <<call, playing>> /\ app \in {"pausing", "signalled", "joining"}
        /\ app' \in {"signalled", "joining", "paused"}
        /\ loop' \in {loop, "lock"} /\ (app' = "paused" => loop' = "off")
    BY <1>5 DEF PauseSignal, StopTask, Joined, SignalNotEmpty
  <2> QED BY <1>5, <2>1, ControlKept
<1> QED BY <1>1, <1>2, <1>3, <1>4, <1>5 DEF Application, StateChange

\* A caller that enters, leaves, or gets the lock keeps Control, if it starts a push
\* only while not playing and takes the lock only when it is free.
LEMMA ControlCall ==
  ASSUME Control, UNCHANGED <<playing, app>>, loop' \in {loop, SignalNotEmpty(loop)},
         NEW c \in Callers, NEW r, call' = [call EXCEPT ![c] = r], r.pc \in CallerPC,
         r.pc \in {"append", "push"} => LockFree,
         r.pc = "push" => ~playing
  PROVE  Control'
<1>1. call' = [d \in Callers |-> IF d = c THEN r ELSE call[d]]
  BY DEF Control, ControlTypes
<1>2. \A d \in Callers : call'[d] = IF d = c THEN r ELSE call[d]
  BY <1>1
<1>3. loop' = loop \/ (loop = "wait" /\ loop' = "lock")
  BY DEF SignalNotEmpty
<1>4. ControlTypes'
  <2>1. call' = [d \in Callers |-> call'[d]]
    BY <1>1
  <2>2. \A d \in Callers : call'[d].pc \in CallerPC
    BY <1>2 DEF Control, ControlTypes
  <2> QED BY <1>3, <2>1, <2>2 DEF Control, ControlTypes, LoopPC
<1>5. Exclusive'
  BY <1>2 DEF Control, Exclusive, LockFree
<1>6. Phases'
  BY <1>3 DEF Control, Phases
<1>7. PushBlocks'
  BY <1>2, <1>3 DEF Control, PushBlocks
<1> QED BY <1>4, <1>5, <1>6, <1>7 DEF Control

\* Steps of the callers keep Control.
LEMMA ControlCallers == Control /\ (Upstream \/ Calling) => Control'
<1>1. ASSUME Control, NEW c \in Callers, NEW kind, Enter(c, kind),
             UNCHANGED <<playing, app, loop>>
      PROVE  Control'
  <2>1. call' = [call EXCEPT ![c] = At("add", kind, 0)] /\ At("add", kind, 0).pc = "add"
    BY <1>1 DEF Enter, At
  <2>2. loop' \in {loop, SignalNotEmpty(loop)} /\ UNCHANGED <<playing, app>>
    BY <1>1
  <2> QED BY <1>1, <2>1, <2>2, ControlCall DEF CallerPC
<1>2. ASSUME Control, Chain \/ SinkEvent \/ Flush \/ FlushStop PROVE Control'
  <2>1. \E c \in Callers : \E kind \in Kinds : Enter(c, kind)
    BY <1>2 DEF Chain, SinkEvent, Flush, FlushStop, Callers, Kinds
  <2>2. UNCHANGED <<playing, app, loop>>
    BY <1>2 DEF Chain, SinkEvent, Flush, FlushStop
  <2> QED BY <1>1, <1>2, <2>1, <2>2
<1>3. ASSUME Control, FlushStart PROVE Control'
  <2> DEFINE r == [pc |-> "flush", item |-> NoItem]
  <2>1. call' = [call EXCEPT !["seek"] = r] /\ r.pc = "flush" /\ "seek" \in Callers
    BY <1>3 DEF FlushStart, Callers
  <2>2. loop' \in {loop, SignalNotEmpty(loop)} /\ UNCHANGED <<playing, app>>
    BY <1>3 DEF FlushStart
  <2> HIDE DEF r
  <2> QED BY <1>3, <2>1, <2>2, ControlCall DEF CallerPC
<1>4. ASSUME Control, NEW c \in Callers, AddLock(c) PROVE Control'
  <2> DEFINE pc == IF playing THEN "append" ELSE "push"
             r == At(pc, call[c].item.kind, hist.added + 1)
  <2>1. call' = [call EXCEPT ![c] = r] /\ r.pc = pc
    BY <1>4 DEF AddLock, At, Control, ControlTypes
  <2>2. /\ loop' \in {loop, SignalNotEmpty(loop)} /\ UNCHANGED <<playing, app>>
        /\ LockFree
    BY <1>4 DEF AddLock
  <2>3. pc \in CallerPC /\ (pc = "push" => ~playing)
    BY DEF CallerPC
  <2> HIDE DEF r, pc
  <2> QED BY <1>4, <2>1, <2>2, <2>3, ControlCall
<1>5. ASSUME Control, NEW c \in Callers, AddAppend(c) \/ AddPushed(c) PROVE Control'
  <2>1. call' = [call EXCEPT ![c] = Idle] /\ Idle.pc = "idle"
    BY <1>5 DEF AddAppend, AddPushed, Idle
  <2>2. loop' \in {loop, SignalNotEmpty(loop)} /\ UNCHANGED <<playing, app>>
    BY <1>5 DEF AddAppend, AddPushed
  <2> QED BY <1>5, <2>1, <2>2, ControlCall DEF CallerPC
<1> QED BY <1>2, <1>3, <1>4, <1>5 DEF Upstream, Calling

\* Steps of the task keep Control: it does not get past the lock while a direct push
\* is under way.
LEMMA ControlLoop == Control /\ (Loop \/ SpuriousWakeup) => Control'
<1> SUFFICES ASSUME Control, Loop \/ SpuriousWakeup PROVE Control'
  OBVIOUS
<1>1. UNCHANGED <<call, playing, app>>
  BY DEF Loop, LoopTop, LoopEnd, LoopWait, LoopTake, LoopProcess, LoopPushed,
     SpuriousWakeup
<1>2. /\ loop # "off" /\ loop' \in LoopPC
      /\ loop = "lock" => LockFree
      /\ loop' \in {"off", "top", "lock"} \/ loop \in {"lock", "process"}
  BY DEF Loop, LoopTop, LoopEnd, LoopWait, LoopTake, LoopProcess, LoopPushed,
     SpuriousWakeup, LoopMayLook, LoopPC
<1>3. Phases'
  BY <1>1, <1>2 DEF Control, Phases
<1>4. PushBlocks'
  BY <1>1, <1>2 DEF Control, PushBlocks, LockFree
<1>5. playing' \in BOOLEAN /\ app' \in AppPC
  BY <1>1 DEF Control, ControlTypes
<1> QED BY <1>1, <1>2, <1>3, <1>4, <1>5, ControlKept

\* In every reachable state the lock, the state change, playing and the task fit
\* together.
THEOREM ControlInvariant == Spec => []Control
<1>1. Control /\ UNCHANGED vars => Control'
  BY DEF Control, ControlTypes, Exclusive, Phases, PushBlocks, vars
<1>2. Control /\ [Next]_vars => Control'
  BY <1>1, ControlApplication, ControlCallers, ControlLoop DEF Next
<1> QED BY <1>2, ControlInit, PTL DEF Spec

\* Two threads push downstream at once only while a change to PAUSED still waits for
\* the task, although playing is written and the push of the task is made without
\* the lock.
THEOREM OnePusherTheorem == Spec => []OnePusher
<1>1. Control => OnePusher
  <2> SUFFICES ASSUME Control PROVE OnePusher
    OBVIOUS
  <2>1. ASSUME NEW c \in Callers, call[c].pc = "push", loop = "push"
        PROVE  ~playing /\ app \in {"pausing", "signalled", "joining"}
    BY <2>1 DEF Control, ControlTypes, Phases, PushBlocks, AppPC
  <2>2. ~(\A c \in Callers : call[c].pc = "push")
    BY DEF Control, Exclusive, Callers
  <2> QED BY <2>1, <2>2 DEF OnePusher
<1> QED BY <1>1, ControlInvariant, PTL
-----------------------------------------------------------------------------
(* The items: which may be inside, and with which numbers.                 *)

History ==
  [added : Nat, out : Nat, late : BOOLEAN, stranded : BOOLEAN, errAt : Nat]

\* The types of the items, for which every bound will do.
ItemTypes ==
  /\ pendingItems \in Seq(Item) /\ hand \in Item \cup {NoItem, Ad}
  /\ \A c \in Callers :
       /\ call[c].item \in Item \cup {NoItem}
       /\ call[c].pc \in {"add", "append", "push"} <=> call[c].item # NoItem
  /\ hist \in History

\* Holding the lock with an item in hand.
Holds(c) == call[c].pc \in {"append", "push"}
InHand == hand.kind \in Kinds

\* Numbers grow along the way of the items, to the one last given.
Numbered ==
  /\ \A i, j \in DOMAIN pendingItems : i < j => pendingItems[i].id < pendingItems[j].id
  /\ \A i \in DOMAIN pendingItems :
       /\ pendingItems[i].id <= hist.added
       /\ InHand => hand.id < pendingItems[i].id
       /\ \A c \in Callers : Holds(c) => pendingItems[i].id < hist.added
  /\ InHand => hand.id <= hist.added
  /\ hist.out <= hist.added /\ hist.errAt <= hist.added
  /\ \A c \in Callers : Holds(c) =>
       /\ call[c].item.id = hist.added /\ hist.out < hist.added
       /\ InHand => hand.id < hist.added

\* As long as nothing was left behind, what is inside comes after what is out, and a
\* direct push finds the element empty.
Ordered ==
  hist.stranded \/
    /\ ~hist.late
    /\ Inside => playing
    /\ \A c \in Callers : call[c].pc = "push" => ~Inside
    /\ \A i \in DOMAIN pendingItems : hist.out < pendingItems[i].id
    /\ InHand => hist.out < hand.id

\* Only the streaming thread brings buffers, and none while a flush is under way.
Roles ==
  /\ call["up"].pc # "flush" /\ call["up"].item.kind \in {"none", "buffer", "event"}
  /\ call["seek"].item.kind \in {"none", "flushStart", "flushStop"}
  /\ call["seek"].pc = "flush" \/ call["seek"].item.kind = "flushStart" => flushing

\* The places of a queue where a buffer is, and at most one of which is.
BufferAt(i) == i \in DOMAIN pendingItems /\ IsBuffer(pendingItems[i])
BufferComes == call["up"].pc \in {"add", "append"} /\ IsBuffer(call["up"].item)

\* Where a buffer from before the last flush can be: in the queue, in the task's hand,
\* or coming with the streaming thread (which gets no number of before once FLUSH_START
\* has its own).
FlushPending == call["seek"].pc = "add" /\ call["seek"].item.kind = "flushStart"
OldAt(i) == BufferAt(i) /\ Old(pendingItems[i])
OldInHand == Old(hand)
OldComes ==
  /\ IsBuffer(call["up"].item)
  /\ \/ call["up"].pc = "add" /\ FlushPending
     \/ Holds("up") /\ Old(call["up"].item)
OldQueued == \E i \in DOMAIN pendingItems : OldAt(i)

One(b) == IF b THEN 1 ELSE 0

\* flush() leaves one buffer in the hand and one that comes; each of them is pushed,
\* dropped or on its way, and only the one that comes gets into the queue.
StaleBound ==
  /\ stale \in [before : Nat, pushed : Nat] /\ stale.before <= hist.added
  /\ \A i, j \in DOMAIN pendingItems : OldAt(i) /\ OldAt(j) => i = j
  /\ OldQueued => ~OldComes
  /\ stale.pushed + One(OldInHand) + One(OldQueued) + One(OldComes) <= 2

\* A buffer whose number is, or will be, above that of the error.
AfterErrorAt(i) == BufferAt(i) /\ pendingItems[i].id > hist.errAt
AfterErrorComes ==
  BufferComes /\ (call["up"].pc = "append" => call["up"].item.id > hist.errAt)

ErrorBound ==
  srcRet = "error" =>
    \A i, j \in DOMAIN pendingItems :
      AfterErrorAt(i) /\ AfterErrorAt(j) => i = j /\ ~AfterErrorComes

\* What an Append, a Tail and a Head of a queue are.
LEMMA AppendItem ==
  ASSUME NEW q \in Seq(Item), NEW x \in Item
  PROVE  /\ Append(q, x) \in Seq(Item) /\ DOMAIN Append(q, x) = 1..Len(q) + 1
         /\ DOMAIN q = 1..Len(q) /\ Len(q) \in Nat
         /\ \A i \in DOMAIN q : Append(q, x)[i] = q[i]
         /\ Append(q, x)[Len(q) + 1] = x
OBVIOUS

LEMMA TakeItem ==
  ASSUME NEW q \in Seq(Item), q # <<>>
  PROVE  /\ Tail(q) \in Seq(Item) /\ DOMAIN Tail(q) = 1..Len(q) - 1
         /\ DOMAIN q = 1..Len(q) /\ Len(q) \in Nat /\ 1 \in DOMAIN q
         /\ \A i \in DOMAIN Tail(q) : i + 1 \in DOMAIN q /\ Tail(q)[i] = q[i + 1]
         /\ Head(q) \in Item /\ Head(q) = q[1]
OBVIOUS

\* The places kept are finitely many, and of two of them the later has the higher rank.
LEMMA RankGrows ==
  ASSUME NEW q \in Seq(Item)
  PROVE  /\ IsFiniteSet(Kept(q)) /\ Cardinality(Kept(q)) \in Nat
         /\ \A j \in Kept(q) : Rank(q, j) \in 1..Cardinality(Kept(q))
         /\ \A i, j \in Kept(q) : i < j => Rank(q, i) < Rank(q, j)
<1> DEFINE K == Kept(q)
           Below(j) == {i \in K : i <= j}
<1>1. K \subseteq 1..Len(q) /\ Len(q) \in Nat /\ IsFiniteSet(1..Len(q))
  BY FS_Interval DEF Kept
<1>2. IsFiniteSet(K) /\ Cardinality(K) \in Nat
  BY <1>1, FS_Subset, FS_CardinalityType
<1>3. ASSUME NEW j \in K
      PROVE  /\ IsFiniteSet(Below(j)) /\ Cardinality(Below(j)) \in Nat
             /\ Cardinality(Below(j)) <= Cardinality(K)
             /\ Cardinality(Below(j)) # 0
  <2>1. Below(j) \in SUBSET K /\ j \in Below(j)
    BY <1>1, <1>3
  <2> HIDE DEF K, Below
  <2>2. IsFiniteSet(Below(j)) /\ Cardinality(Below(j)) <= Cardinality(K)
    BY <1>2, <2>1, FS_Subset
  <2> QED BY <2>1, <2>2, FS_CardinalityType, FS_EmptySet
<1>4. ASSUME NEW i \in K, NEW j \in K, i < j
      PROVE  Cardinality(Below(i)) < Cardinality(Below(j))
  <2>1. Below(i) \in SUBSET Below(j) /\ j \in Below(j) /\ j \notin Below(i)
    BY <1>1, <1>4
  <2>2. IsFiniteSet(Below(i)) /\ Cardinality(Below(i)) \in Nat
        /\ IsFiniteSet(Below(j)) /\ Cardinality(Below(j)) \in Nat
    BY <1>3
  <2> HIDE DEF K, Below
  <2>3. Cardinality(Below(i)) <= Cardinality(Below(j))
        /\ Cardinality(Below(i)) # Cardinality(Below(j))
    BY <2>1, <2>2, FS_Subset
  <2> QED BY <2>2, <2>3
<1>5. \A j \in K : Rank(q, j) = Cardinality(Below(j))
  BY DEF Rank
<1> HIDE DEF Below
<1> QED BY <1>2, <1>3, <1>4, <1>5

\* Each rank is taken: if one were not, the places kept would outnumber their ranks.
LEMMA RankTaken ==
  ASSUME NEW q \in Seq(Item), NEW n \in 1..Cardinality(Kept(q))
  PROVE  \E j \in Kept(q) : Rank(q, j) = n
<1> SUFFICES ASSUME \A j \in Kept(q) : Rank(q, j) # n PROVE FALSE
  OBVIOUS
<1> DEFINE K == Kept(q)
           m == Cardinality(K)
           R == (1..m) \ {n}
           rank == [j \in K |-> Rank(q, j)]
<1>1. IsFiniteSet(K) /\ m \in Nat /\ n \in 1..m
  BY RankGrows
<1>2. IsFiniteSet(1..m) /\ Cardinality(1..m) = m
  BY <1>1, FS_Interval
<1>3. IsFiniteSet(R) /\ Cardinality(R) < m
  <2> HIDE DEF m
  <2>1. /\ IsFiniteSet(R)
        /\ Cardinality(R) = IF n \in 1..m THEN Cardinality(1..m) - 1 ELSE Cardinality(1..m)
    BY <1>2, FS_RemoveElement, Zenon
  <2> QED BY <1>1, <1>2, <2>1
<1>4. rank \in [K -> R]
  BY RankGrows
<1>5. \A i, j \in K : i # j => rank[i] # rank[j]
  <2>1. K \subseteq Int
    BY DEF Kept
  <2>2. \A i, j \in K : i < j => rank[i] < rank[j]
    BY RankGrows
  <2>3. \A i \in K : rank[i] \in Int
    BY <1>1, <1>4
  <2> QED BY <2>1, <2>2, <2>3
<1> HIDE DEF K, R, rank
<1> QED BY <1>1, <1>3, <1>4, <1>5, FS_PigeonHole

\* flush() leaves exactly the items that are not buffers, in the order they had, in a
\* queue of any length.
THEOREM FlushKeepsEvents ==
  ASSUME NEW q \in Seq(Item)
  PROVE  /\ Flushed(q) \in Seq(Item)
         /\ \A n \in DOMAIN Flushed(q) : ~IsBuffer(Flushed(q)[n])
         /\ \E p \in [DOMAIN Flushed(q) -> DOMAIN q] :
              /\ \A n \in DOMAIN p : Flushed(q)[n] = q[p[n]]
              /\ \A i, j \in DOMAIN p : i < j => p[i] < p[j]
              /\ \A j \in DOMAIN q : ~IsBuffer(q[j]) => \E n \in DOMAIN p : p[n] = j
<1> DEFINE m == Cardinality(Kept(q))
           place == [n \in 1..m |-> CHOOSE j \in Kept(q) : Rank(q, j) = n]
<1>1. m \in Nat /\ Kept(q) \subseteq DOMAIN q /\ Kept(q) \subseteq Int
  <2>1. DOMAIN q = 1..Len(q)
    OBVIOUS
  <2>2. Kept(q) \subseteq DOMAIN q
    BY DEF Kept
  <2> QED BY <2>1, <2>2, RankGrows
<1>2. \A n \in 1..m : place[n] \in Kept(q) /\ Rank(q, place[n]) = n
  BY RankTaken
<1>3. Flushed(q) = [n \in 1..m |-> q[place[n]]]
  BY DEF Flushed
<1>4. \A i, j \in Kept(q) : Rank(q, i) = Rank(q, j) => i = j
  BY <1>1, RankGrows
<1>5. \A j \in Kept(q) : Rank(q, j) \in 1..m /\ place[Rank(q, j)] = j
  <2>1. \A j \in Kept(q) : Rank(q, j) \in 1..m
    BY RankGrows
  <2> QED BY <1>2, <1>4, <2>1
<1>6. ASSUME NEW i \in 1..m, NEW j \in 1..m, i < j PROVE place[i] < place[j]
  <2>1. ~(place[j] < place[i]) /\ place[j] # place[i]
    BY <1>2, <1>6, RankGrows
  <2> QED BY <1>1, <1>2, <2>1
<1>7. place \in [1..m -> DOMAIN q]
  BY <1>1, <1>2
<1>8. DOMAIN Flushed(q) = 1..m /\ \A n \in 1..m : Flushed(q)[n] = q[place[n]]
  BY <1>3
<1>9. Flushed(q) \in Seq(Item)
  <2>1. \A n \in 1..m : q[place[n]] \in Item
    BY <1>7
  <2> HIDE DEF m, place
  <2>2. Flushed(q) \in [1..m -> Item]
    BY <1>3, <2>1
  <2> QED BY <1>1, <2>2
<1>10. \A n \in 1..m : ~IsBuffer(Flushed(q)[n])
  BY <1>2, <1>8 DEF Kept
<1>11. \A j \in DOMAIN q : ~IsBuffer(q[j]) => \E n \in 1..m : place[n] = j
  BY <1>5 DEF Kept
<1> HIDE DEF m, place
<1>12. DOMAIN place = 1..m
  BY <1>7
<1>13. \E p \in [DOMAIN Flushed(q) -> DOMAIN q] :
         /\ \A n \in DOMAIN p : Flushed(q)[n] = q[p[n]]
         /\ \A i, j \in DOMAIN p : i < j => p[i] < p[j]
         /\ \A j \in DOMAIN q : ~IsBuffer(q[j]) => \E n \in DOMAIN p : p[n] = j
  <2>1. place \in [DOMAIN Flushed(q) -> DOMAIN q]
    BY <1>7, <1>8
  <2> WITNESS place \in [DOMAIN Flushed(q) -> DOMAIN q]
  <2> QED BY <1>6, <1>8, <1>11, <1>12
<1> QED BY <1>8, <1>9, <1>10, <1>13

-----------------------------------------------------------------------------
\* One caller moves on and the other stays.
Moves(c, r) == \A d \in Callers : call'[d] = IF d = c THEN r ELSE call[d]

items == <<pendingItems, hand, call, hist, stale>>

\* The steps that have nothing to do with the items.
Quiet == UNCHANGED items

LEMMA QuietSteps ==
  ToPaused \/ ToReady \/ StateChange \/ LoopTop \/ LoopEnd \/ LoopWait
    \/ SpuriousWakeup \/ UNCHANGED vars => Quiet
BY DEF ToPaused, ToReady, StateChange, StartTask, PauseSignal, StopTask, Joined,
       LoopTop, LoopEnd, LoopWait, SpuriousWakeup, vars, items, Quiet

\* The two state changes that leave their mark on the history.
Noted == Pause \/ Play

LEMMA NotedMoves ==
  ASSUME ItemTypes, Noted
  PROVE  /\ UNCHANGED <<pendingItems, hand, call, stale>> /\ hist' \in History
         /\ hist'.added = hist.added /\ hist'.late = hist.late
         /\ hist'.out \in {0, hist.out} /\ hist'.errAt \in {0, hist.errAt}
         /\ ~hist'.stranded =>
              hist'.out = hist.out /\ ~hist.stranded /\ (playing' = TRUE \/ ~Inside)
<1>1. CASE Pause
  BY <1>1 DEF Pause, LeftBehind, ItemTypes, History
<1>2. CASE Play
  BY <1>2 DEF Play, ItemTypes, History
<1> QED BY <1>1, <1>2 DEF Noted

\* The others, by what they do to the items.
LEMMA ItemSteps ==
  ASSUME ControlTypes, [Next]_vars
  PROVE  \/ Quiet
         \/ Noted
         \/ \E kind \in {"buffer", "event"} :
              Streaming /\ Enter("up", kind) /\ (kind = "buffer" => srcRet = "ok")
              /\ UNCHANGED <<pendingItems, hand, hist, stale, flushing, srcRet, playing>>
         \/ FlushStart \/ Flush \/ FlushStop
         \/ \E c \in Callers : AddLock(c) \/ AddAppend(c) \/ AddPushed(c)
         \/ LoopTake \/ LoopProcess \/ LoopPushed
<1>1. Chain => Streaming /\ Enter("up", "buffer") /\ srcRet = "ok"
               /\ UNCHANGED <<pendingItems, hand, hist, stale, flushing, srcRet, playing>>
  BY DEF Chain
<1>2. SinkEvent => Streaming /\ Enter("up", "event")
                   /\ UNCHANGED <<pendingItems, hand, hist, stale, flushing, srcRet, playing>>
  BY DEF SinkEvent
<1> QED BY <1>1, <1>2, QuietSteps DEF Noted, Next, Application, Upstream, Calling, Loop

LEMMA CallMoves ==
  ASSUME ControlTypes, NEW c \in Callers, NEW r, call' = [call EXCEPT ![c] = r]
  PROVE  Moves(c, r)
BY DEF ControlTypes, Moves

LEMMA EnterMoves ==
  ASSUME ControlTypes, NEW c \in Callers, NEW kind \in Kinds, Enter(c, kind)
  PROVE  \E r : /\ Moves(c, r) /\ r.pc = "add" /\ r.item \in Item /\ r.item # NoItem
                /\ r.item.kind = kind
<1> DEFINE r == At("add", kind, 0)
<1>1. r.pc = "add" /\ r.item \in Item /\ r.item # NoItem /\ r.item.kind = kind
  BY DEF At, Item, NoItem, Kinds
<1>2. call' = [call EXCEPT ![c] = r]
  BY DEF Enter
<1> HIDE DEF r
<1> QED BY <1>1, <1>2, CallMoves

LEMMA AddLockMoves ==
  ASSUME ControlTypes, ItemTypes, NEW c \in Callers, AddLock(c)
  PROVE  /\ call[c].pc = "add" /\ LockFree
         /\ UNCHANGED <<pendingItems, hand, srcRet, flushing, playing>>
         /\ hist' = [hist EXCEPT !.added = @ + 1] /\ NumberFlush(c)
         /\ \E r : /\ Moves(c, r) /\ r.pc = (IF playing THEN "append" ELSE "push")
                   /\ r.item \in Item /\ r.item # NoItem
                   /\ r.item.kind = call[c].item.kind /\ r.item.id = hist.added + 1
<1> DEFINE r == At(IF playing THEN "append" ELSE "push", call[c].item.kind, hist.added + 1)
<1>1. call[c].item \in Item /\ hist.added + 1 \in Nat
  BY DEF AddLock, ItemTypes, History
<1>2. call[c].item.kind \in Kinds
  BY <1>1 DEF Item
<1>3. /\ r.pc = (IF playing THEN "append" ELSE "push")
      /\ r.item \in Item /\ r.item # NoItem
      /\ r.item.kind = call[c].item.kind /\ r.item.id = hist.added + 1
  BY <1>1, <1>2 DEF At, Item, NoItem, Kinds
<1>4. call' = [call EXCEPT ![c] = r]
  BY DEF AddLock, ControlTypes
<1> HIDE DEF r
<1>5. Moves(c, r)
  BY <1>4, CallMoves
<1> QED BY <1>3, <1>5 DEF AddLock

LEMMA AppendMoves ==
  ASSUME ControlTypes, ItemTypes, NEW c \in Callers, AddAppend(c)
  PROVE  /\ call[c].pc = "append" /\ call[c].item \in Item /\ call[c].item # NoItem
         /\ UNCHANGED <<hand, srcRet, flushing, playing>>
         /\ pendingItems' = Append(pendingItems, call[c].item)
         /\ UNCHANGED stale /\ hist' = IF playing THEN hist ELSE LeftBehind
         /\ Moves(c, Idle)
<1>1. Moves(c, Idle)
  BY CallMoves DEF AddAppend
<1> QED BY <1>1 DEF AddAppend, ItemTypes

\* What a delivery leaves in the history.
LEMMA Delivered ==
  ASSUME ItemTypes, NEW item, item.id \in Nat, NEW ok \in BOOLEAN, NEW h,
         h \in History,
         Deliver(item, ok, h)
  PROVE  /\ hist' \in History
         /\ hist'.added = h.added /\ hist'.errAt = h.errAt /\ hist'.stranded = h.stranded
         /\ \/ hist' = h
            \/ /\ item.kind # "ad"
               /\ hist'.late = (h.late \/ item.id < h.out)
               /\ hist'.out = IF item.id < h.out THEN h.out ELSE item.id
BY DEF Deliver, History

LEMMA PushedMoves ==
  ASSUME ControlTypes, ItemTypes, NEW c \in Callers, AddPushed(c)
  PROVE  /\ call[c].pc = "push" /\ call[c].item \in Item
         /\ UNCHANGED <<pendingItems, hand, srcRet, flushing, playing>>
         /\ \E ok \in BOOLEAN : Deliver(call[c].item, ok, hist)
         /\ CountStale(call[c].item) /\ Moves(c, Idle)
<1>1. Moves(c, Idle)
  BY CallMoves DEF AddPushed
<1>2. call[c].item \in Item
  BY DEF AddPushed, ItemTypes
<1> QED BY <1>1, <1>2 DEF AddPushed

LEMMA LoopPushedMoves ==
  ASSUME ItemTypes, LoopPushed
  PROVE  /\ UNCHANGED <<pendingItems, call, flushing, playing>> /\ hand' = NoItem
         /\ hand.id \in Nat /\ CountStale(hand)
         /\ \E ok, h :
              /\ ok \in BOOLEAN
              /\ Deliver(hand, ok, h)
              /\ h = IF ok THEN hist ELSE [hist EXCEPT !.errAt = hist.added]
              /\ h \in History
              /\ srcRet' = IF ok THEN srcRet ELSE "error"
<1>1. hand.id \in Nat
  BY DEF ItemTypes, Item, NoItem, Ad
<1>2. PICK ok \in BOOLEAN :
        /\ Deliver(hand, ok, IF ok THEN hist ELSE [hist EXCEPT !.errAt = hist.added])
        /\ srcRet' = IF ok THEN srcRet ELSE "error"
  BY DEF LoopPushed
<1> DEFINE h == IF ok THEN hist ELSE [hist EXCEPT !.errAt = hist.added]
<1>3. h \in History
  BY DEF ItemTypes, History
<1> QED BY <1>1, <1>2, <1>3 DEF LoopPushed

LEMMA ProcessMoves ==
  ASSUME LoopProcess
  PROVE  /\ UNCHANGED <<pendingItems, call, hist, stale, flushing, playing, srcRet>>
         /\ hand' \in {hand, NoItem, Ad}
BY DEF LoopProcess

LEMMA TakeMoves ==
  ASSUME LoopTake
  PROVE  /\ UNCHANGED <<call, hist, stale, flushing, playing, srcRet>> /\ LockFree
         /\ \/ /\ pendingItems # <<>> /\ hand' = Head(pendingItems)
               /\ pendingItems' = Tail(pendingItems)
            \/ pendingItems = <<>> /\ hand' = NoItem /\ UNCHANGED pendingItems
BY DEF LoopTake, LoopMayLook

LEMMA FlushMoves ==
  ASSUME ControlTypes, Flush
  PROVE  /\ call["seek"].pc = "flush" /\ LockFree
         /\ UNCHANGED <<hand, hist, flushing, playing, srcRet>>
         /\ pendingItems' = Flushed(pendingItems) /\ stale' = [stale EXCEPT !.pushed = 0]
         /\ \E r : /\ Moves("seek", r) /\ r.pc = "add" /\ r.item \in Item /\ r.item # NoItem
                   /\ r.item.kind = "flushStart"
<1>1. "seek" \in Callers /\ "flushStart" \in Kinds
  BY DEF Callers, Kinds
<1> QED BY <1>1, EnterMoves DEF Flush

LEMMA FlushEdges ==
  ASSUME ControlTypes, FlushStart \/ FlushStop
  PROVE  /\ UNCHANGED <<pendingItems, hand, hist, stale, playing, srcRet>>
         /\ call["seek"] = Idle
         /\ \/ /\ flushing' /\ Moves("seek", [pc |-> "flush", item |-> NoItem])
            \/ /\ ~flushing' /\ call["up"] = Idle
               /\ \E r : /\ Moves("seek", r) /\ r.pc = "add" /\ r.item \in Item
                         /\ r.item # NoItem /\ r.item.kind = "flushStop"
<1>1. "seek" \in Callers /\ "flushStop" \in Kinds
  BY DEF Callers, Kinds
<1>2. FlushStart => Moves("seek", [pc |-> "flush", item |-> NoItem])
  BY <1>1, CallMoves DEF FlushStart
<1>3. FlushStop => \E r : /\ Moves("seek", r) /\ r.pc = "add" /\ r.item \in Item
                          /\ r.item # NoItem /\ r.item.kind = "flushStop"
  BY <1>1, EnterMoves DEF FlushStop
<1> QED BY <1>2, <1>3 DEF FlushStart, FlushStop

LEMMA UpEnters ==
  ASSUME ControlTypes, NEW kind \in {"buffer", "event"}, Streaming, Enter("up", kind)
  PROVE  /\ call["up"].pc = "idle" /\ ~flushing
         /\ \E r : /\ Moves("up", r) /\ r.pc = "add" /\ r.item \in Item /\ r.item # NoItem
                   /\ r.item.kind = kind
<1>1. "up" \in Callers /\ kind \in Kinds
  BY DEF Callers, Kinds
<1> QED BY <1>1, EnterMoves DEF Streaming

-----------------------------------------------------------------------------
(* The items keep their types.                                             *)

LEMMA ItemTypesInit == Init => ItemTypes
BY DEF Init, ItemTypes, History, Idle, NoItem

\* A caller that moves keeps the types if its new item fits its place.
LEMMA ItemTypesMoves ==
  ASSUME ItemTypes, NEW c \in Callers, NEW r, Moves(c, r),
         r.item \in Item \cup {NoItem},
         r.pc \in {"add", "append", "push"} <=> r.item # NoItem
  PROVE  \A d \in Callers :
           /\ call'[d].item \in Item \cup {NoItem}
           /\ call'[d].pc \in {"add", "append", "push"} <=> call'[d].item # NoItem
BY DEF ItemTypes, Moves

LEMMA ItemTypesNext ==
  ASSUME Control, ItemTypes, [Next]_vars
  PROVE  ItemTypes'
<1>0. ControlTypes
  BY DEF Control
<1>1. CASE Quiet
  BY <1>1 DEF Quiet, items, ItemTypes
<1>2. CASE Noted
  BY <1>2, NotedMoves DEF ItemTypes
<1>3. ASSUME NEW kind \in {"buffer", "event"}, Streaming, Enter("up", kind),
             UNCHANGED <<pendingItems, hand, hist>>
      PROVE  ItemTypes'
  <2>1. PICK r : Moves("up", r) /\ r.pc = "add" /\ r.item \in Item /\ r.item # NoItem
    BY <1>0, <1>3, UpEnters
  <2>2. "up" \in Callers
    BY DEF Callers
  <2> QED BY <1>3, <2>1, <2>2, ItemTypesMoves DEF ItemTypes
<1>4. CASE FlushStart \/ FlushStop
  <2>1. PICK r : /\ Moves("seek", r) /\ r.item \in Item \cup {NoItem}
                 /\ r.pc \in {"add", "append", "push"} <=> r.item # NoItem
    BY <1>0, <1>4, FlushEdges
  <2>2. "seek" \in Callers /\ UNCHANGED <<pendingItems, hand, hist>>
    BY <1>0, <1>4, FlushEdges DEF Callers
  <2> QED BY <2>1, <2>2, ItemTypesMoves DEF ItemTypes
<1>5. CASE Flush
  <2>1. PICK r : Moves("seek", r) /\ r.pc = "add" /\ r.item \in Item /\ r.item # NoItem
    BY <1>0, <1>5, FlushMoves
  <2>2. "seek" \in Callers /\ UNCHANGED <<hand, hist>> /\ pendingItems' \in Seq(Item)
    BY <1>0, <1>5, FlushMoves, FlushKeepsEvents DEF Callers, ItemTypes
  <2> QED BY <2>1, <2>2, ItemTypesMoves DEF ItemTypes
<1>6. ASSUME NEW c \in Callers, AddLock(c) PROVE ItemTypes'
  <2>1. PICK r : Moves(c, r) /\ r.pc \in {"append", "push"} /\ r.item \in Item /\ r.item # NoItem
    BY <1>0, <1>6, AddLockMoves
  <2>2. UNCHANGED <<pendingItems, hand>> /\ hist' = [hist EXCEPT !.added = @ + 1]
    BY <1>0, <1>6, AddLockMoves
  <2> QED BY <2>1, <2>2, ItemTypesMoves DEF ItemTypes, History
<1>7. ASSUME NEW c \in Callers, AddAppend(c) PROVE ItemTypes'
  <2>1. Moves(c, Idle) /\ call[c].item \in Item /\ UNCHANGED hand
        /\ pendingItems' = Append(pendingItems, call[c].item)
        /\ hist' = IF playing THEN hist ELSE LeftBehind
    BY <1>0, <1>7, AppendMoves
  <2>2. pendingItems' \in Seq(Item)
    BY <2>1, AppendItem DEF ItemTypes
  <2>3. /\ Idle.item \in Item \cup {NoItem}
        /\ Idle.pc \in {"add", "append", "push"} <=> Idle.item # NoItem
    BY DEF Idle
  <2>4. hist' \in History
    BY <2>1 DEF LeftBehind, ItemTypes, History
  <2> QED BY <2>1, <2>2, <2>3, <2>4, ItemTypesMoves DEF ItemTypes, Control, ControlTypes
<1>8. ASSUME NEW c \in Callers, AddPushed(c) PROVE ItemTypes'
  <2>1. Moves(c, Idle) /\ call[c].item \in Item /\ UNCHANGED <<pendingItems, hand>>
        /\ \E ok \in BOOLEAN : Deliver(call[c].item, ok, hist)
    BY <1>0, <1>8, PushedMoves
  <2>2. hist' \in History
    BY <2>1, Delivered DEF Item, ItemTypes
  <2>3. /\ Idle.item \in Item \cup {NoItem}
        /\ Idle.pc \in {"add", "append", "push"} <=> Idle.item # NoItem
    BY DEF Idle
  <2> QED BY <2>1, <2>2, <2>3, ItemTypesMoves DEF ItemTypes
<1>9. CASE LoopTake
  <2>1. hand' \in Item \cup {NoItem, Ad} /\ pendingItems' \in Seq(Item)
    BY <1>9, TakeMoves, TakeItem DEF ItemTypes
  <2> QED BY <1>9, <2>1, TakeMoves DEF ItemTypes
<1>10. CASE LoopProcess
  BY <1>10, ProcessMoves DEF ItemTypes
<1>11. CASE LoopPushed
  <2>1. hist' \in History
    BY <1>11, LoopPushedMoves, Delivered
  <2> QED BY <1>11, <2>1, LoopPushedMoves DEF ItemTypes
<1> QED BY <1>0, <1>1, <1>2, <1>3, <1>4, <1>5, <1>6, <1>7, <1>8, <1>9, <1>10, <1>11, ItemSteps

\* The items inside have their types in every reachable state.
LEMMA ItemTypesInvariant == Spec => []ItemTypes
BY ItemTypesInit, ItemTypesNext, ControlInvariant, PTL DEF Spec

\* The rest of the types: no step but those of the bounded counters adds to them.
OtherTypes ==
  /\ inserting \in BOOLEAN /\ srcRet \in {"ok", "error"}
  /\ task \in {"none", "started", "paused", "stopping"}
  /\ flushing \in BOOLEAN /\ downFlushing \in BOOLEAN
  /\ arrivals \in 0..MaxItems /\ seeks \in 0..MaxSeeks

LEMMA BoundsAreNat == MaxItems \in Nat /\ MaxSeeks \in Nat
BY RbiBoundsAssumption

LEMMA OtherTypesNext == OtherTypes /\ [Next]_vars => OtherTypes'
<1> SUFFICES ASSUME OtherTypes, [Next]_vars PROVE OtherTypes'
  OBVIOUS
<1> USE DEF OtherTypes
<1>1. CASE Application
  BY <1>1 DEF Application, ToPaused, ToReady, Play, Pause, StateChange, StartTask,
     PauseSignal, StopTask, Joined
<1>2. CASE Upstream
  <2>1. ASSUME Chain \/ SinkEvent PROVE OtherTypes'
    <3>1. /\ arrivals < MaxItems /\ arrivals' = arrivals + 1
          /\ UNCHANGED <<inserting, srcRet, task, flushing, downFlushing, seeks>>
      BY <2>1 DEF Chain, SinkEvent, Streaming
    <3>2. arrivals + 1 \in 0..MaxItems
      BY <3>1, BoundsAreNat
    <3> QED BY <3>1, <3>2
  <2>2. ASSUME FlushStart PROVE OtherTypes'
    <3>1. /\ seeks < MaxSeeks /\ seeks' = seeks + 1 /\ flushing' = TRUE
          /\ UNCHANGED <<inserting, srcRet, task, downFlushing, arrivals>>
      BY <2>2 DEF FlushStart
    <3>2. seeks + 1 \in 0..MaxSeeks
      BY <3>1, BoundsAreNat
    <3> QED BY <3>1, <3>2
  <2> QED BY <1>2, <2>1, <2>2 DEF Upstream
<1>3. CASE Flush \/ FlushStop
  BY <1>3 DEF Flush, FlushStop
<1>4. CASE \E c \in Callers : AddLock(c) \/ AddAppend(c)
  BY <1>4 DEF AddLock, AddAppend
<1>5. ASSUME NEW item, NEW ok, NEW h, Deliver(item, ok, h) PROVE downFlushing' \in BOOLEAN
  BY <1>5 DEF Deliver
<1>6. ASSUME NEW c \in Callers, AddPushed(c) PROVE OtherTypes'
  <2>1. downFlushing' \in BOOLEAN
    BY <1>5, <1>6 DEF AddPushed
  <2> QED BY <1>6, <2>1 DEF AddPushed
<1>7. CASE LoopPushed
  <2>1. downFlushing' \in BOOLEAN
    BY <1>5, <1>7 DEF LoopPushed
  <2> QED BY <1>7, <2>1 DEF LoopPushed
<1>8. CASE LoopTop \/ LoopEnd \/ LoopWait \/ LoopTake \/ LoopProcess \/ SpuriousWakeup
  BY <1>8 DEF LoopTop, LoopEnd, LoopWait, LoopTake, LoopProcess, SpuriousWakeup
<1>9. CASE UNCHANGED vars
  BY <1>9 DEF vars
<1> QED BY <1>1, <1>2, <1>3, <1>4, <1>6, <1>7, <1>8, <1>9 DEF Next, Calling, Loop

\* The variables stay in their domains, for any bounds and any length of the queue; a
\* flush in particular leaves a queue of whole items.
THEOREM TypeCorrect == Spec => []TypeOK
<1>1. Init => OtherTypes
  <2>1. 0 \in 0..MaxItems /\ 0 \in 0..MaxSeeks
    BY BoundsAreNat
  <2> QED BY <2>1 DEF Init, OtherTypes
<1>2. Control /\ ItemTypes /\ OtherTypes => TypeOK
  BY DEF Control, ControlTypes, ItemTypes, OtherTypes, TypeOK, CallerPC, AppPC, LoopPC
<1>3. Spec => []OtherTypes
  BY <1>1, OtherTypesNext, PTL DEF Spec
<1> QED BY <1>2, <1>3, ControlInvariant, ItemTypesInvariant, PTL

-----------------------------------------------------------------------------
(* The numbers grow along the queue.                                       *)

LEMMA NumberedInit == Init => Numbered
<1> SUFFICES ASSUME Init PROVE Numbered
  OBVIOUS
<1>1. pendingItems = <<>> /\ DOMAIN pendingItems = {} /\ ~InHand
  BY DEF Init, InHand, NoItem, Kinds
<1>2. hist.added = 0 /\ hist.out = 0 /\ hist.errAt = 0 /\ \A c \in Callers : ~Holds(c)
  BY DEF Init, Holds, Idle
<1> QED BY <1>1, <1>2 DEF Numbered

LEMMA NumbersAreNat ==
  ASSUME ItemTypes
  PROVE  /\ hist.added \in Nat /\ hist.out \in Nat /\ hist.errAt \in Nat
         /\ hand.id \in Nat /\ \A i \in DOMAIN pendingItems : pendingItems[i].id \in Nat
<1>1. hist.added \in Nat /\ hist.out \in Nat /\ hist.errAt \in Nat
  BY DEF ItemTypes, History
<1>2. hand.id \in Nat
  BY DEF ItemTypes, Item, NoItem, Ad
<1>3. \A i \in DOMAIN pendingItems : pendingItems[i] \in Item
  BY DEF ItemTypes
<1>4. \A x \in Item : x.id \in Nat
  BY DEF Item
<1> QED BY <1>1, <1>2, <1>3, <1>4

\* Numbers inside are not disturbed by a caller that moves without the lock, or lets go of it.
LEMMA NumberedKept ==
  ASSUME Numbered, NEW c \in Callers, NEW r, Moves(c, r), r.pc \notin {"append", "push"},
         UNCHANGED <<pendingItems, hand>>,
         hist'.added = hist.added, hist'.out = hist.out, hist'.errAt = hist.errAt
  PROVE  Numbered'
<1>1. \A d \in Callers : Holds(d)' => Holds(d) /\ call'[d] = call[d]
  BY DEF Holds, Moves
<1> QED BY <1>1 DEF Numbered, InHand

LEMMA NumberedNext ==
  ASSUME Control, ItemTypes, Numbered, [Next]_vars
  PROVE  Numbered'
<1>0. ControlTypes /\ Exclusive
  BY DEF Control
<1>1. CASE Quiet
  BY <1>1 DEF Quiet, items, Numbered, InHand, Holds
<1>2. CASE Noted
  <2>1. /\ UNCHANGED <<pendingItems, hand, call>> /\ hist'.added = hist.added
        /\ hist'.out \in {0, hist.out} /\ hist'.errAt \in {0, hist.errAt}
    BY <1>2, NotedMoves
  <2> QED BY <2>1, NumbersAreNat DEF Numbered, InHand, Holds
<1>3. ASSUME NEW kind \in {"buffer", "event"}, Streaming, Enter("up", kind),
             UNCHANGED <<pendingItems, hand, hist>>
      PROVE  Numbered'
  <2>1. PICK r : Moves("up", r) /\ r.pc = "add"
    BY <1>0, <1>3, UpEnters
  <2>2. "up" \in Callers
    BY DEF Callers
  <2> QED BY <1>3, <2>1, <2>2, NumberedKept
<1>4. CASE FlushStart \/ FlushStop
  <2>1. PICK r : Moves("seek", r) /\ r.pc \notin {"append", "push"}
    BY <1>0, <1>4, FlushEdges
  <2>2. "seek" \in Callers /\ UNCHANGED <<pendingItems, hand, hist>>
    BY <1>0, <1>4, FlushEdges DEF Callers
  <2> QED BY <2>1, <2>2, NumberedKept
<1>5. CASE Flush
  <2>1. PICK r : Moves("seek", r) /\ r.pc = "add"
    BY <1>0, <1>5, FlushMoves
  <2>2. "seek" \in Callers /\ UNCHANGED <<hand, hist>> /\ pendingItems' = Flushed(pendingItems)
    BY <1>0, <1>5, FlushMoves DEF Callers
  <2>3. PICK p \in [DOMAIN pendingItems' -> DOMAIN pendingItems] :
          /\ \A n \in DOMAIN p : pendingItems'[n] = pendingItems[p[n]]
          /\ \A i, j \in DOMAIN p : i < j => p[i] < p[j]
    BY <2>2, FlushKeepsEvents DEF ItemTypes
  <2>4. DOMAIN p = DOMAIN pendingItems' /\ \A n \in DOMAIN p : p[n] \in DOMAIN pendingItems
    BY <2>3
  <2>5. \A d \in Callers : Holds(d)' => Holds(d) /\ call'[d] = call[d]
    BY <2>1 DEF Holds, Moves
  <2> QED BY <2>2, <2>3, <2>4, <2>5 DEF Numbered, InHand
<1>6. ASSUME NEW c \in Callers, AddLock(c) PROVE Numbered'
  <2>1. PICK r : /\ Moves(c, r) /\ r.pc \in {"append", "push"} /\ r.item.id = hist.added + 1
    BY <1>0, <1>6, AddLockMoves
  <2>2. /\ UNCHANGED <<pendingItems, hand>> /\ LockFree
        /\ hist'.added = hist.added + 1 /\ hist'.out = hist.out /\ hist'.errAt = hist.errAt
    BY <1>0, <1>6, AddLockMoves DEF ItemTypes, History
  <2>3. \A d \in Callers : Holds(d)' => call'[d].item.id = hist.added + 1
    BY <2>1, <2>2 DEF Holds, Moves, LockFree
  <2>4. /\ hist.added \in Nat /\ hist.out \in Nat /\ hist.errAt \in Nat
        /\ hand.id \in Nat /\ \A i \in DOMAIN pendingItems : pendingItems[i].id \in Nat
    BY NumbersAreNat
  <2> QED BY <2>2, <2>3, <2>4 DEF Numbered, InHand
<1>7. ASSUME NEW c \in Callers, AddAppend(c) PROVE Numbered'
  <2>1. Moves(c, Idle) /\ call[c].item \in Item /\ UNCHANGED hand /\ Holds(c)
        /\ pendingItems' = Append(pendingItems, call[c].item)
        /\ hist' = IF playing THEN hist ELSE LeftBehind
    BY <1>0, <1>7, AppendMoves DEF Holds
  <2>2. hist'.added = hist.added /\ hist'.out \in {0, hist.out} /\ hist'.errAt = hist.errAt
    BY <2>1 DEF LeftBehind, ItemTypes, History
  <2>3. \A d \in Callers : ~Holds(d)'
    BY <1>0, <2>1 DEF Holds, Moves, Idle, Exclusive
  <2>4. /\ Len(pendingItems) \in Nat /\ DOMAIN pendingItems = 1..Len(pendingItems)
        /\ DOMAIN pendingItems' = 1..Len(pendingItems) + 1
        /\ \A i \in DOMAIN pendingItems : pendingItems'[i] = pendingItems[i]
        /\ pendingItems'[Len(pendingItems) + 1] = call[c].item
    BY <2>1, AppendItem DEF ItemTypes
  <2>5. \A i \in DOMAIN pendingItems' : i \in DOMAIN pendingItems \/ i = Len(pendingItems) + 1
    BY <2>4
  <2>6. \A i, j \in DOMAIN pendingItems' : i < j => i \in DOMAIN pendingItems
    BY <2>4
  <2>7. \A i, j \in DOMAIN pendingItems' : i < j => pendingItems'[i].id < pendingItems'[j].id
    BY <2>1, <2>4, <2>5, <2>6 DEF Numbered
  <2>8. call[c].item.id = hist.added /\ (InHand => hand.id < hist.added) /\ hist.added \in Nat
    BY <2>1 DEF Numbered, ItemTypes, History
  <2>9. \A i \in DOMAIN pendingItems' :
          /\ pendingItems'[i].id <= hist.added
          /\ InHand => hand.id < pendingItems'[i].id
    BY <2>4, <2>5, <2>8 DEF Numbered
  <2> QED BY <2>1, <2>2, <2>3, <2>7, <2>9, NumbersAreNat DEF Numbered, InHand
<1>8. ASSUME NEW c \in Callers, AddPushed(c) PROVE Numbered'
  <2>1. Moves(c, Idle) /\ call[c].item \in Item /\ UNCHANGED <<pendingItems, hand>> /\ Holds(c)
        /\ \E ok \in BOOLEAN : Deliver(call[c].item, ok, hist)
    BY <1>0, <1>8, PushedMoves DEF Holds
  <2>2. /\ hist'.added = hist.added /\ hist'.errAt = hist.errAt
        /\ hist'.out \in {hist.out, call[c].item.id}
    BY <2>1, Delivered DEF Item, ItemTypes
  <2>3. \A d \in Callers : ~Holds(d)'
    BY <1>0, <2>1 DEF Holds, Moves, Idle, Exclusive
  <2>4. hist'.out <= hist.added
    BY <2>1, <2>2 DEF Numbered, ItemTypes, History
  <2> QED BY <2>1, <2>2, <2>3, <2>4 DEF Numbered, InHand
<1>9. CASE LoopTake
  <2>1. UNCHANGED <<call, hist>>
    BY <1>9, TakeMoves
  <2>2. CASE pendingItems = <<>> /\ hand' = NoItem /\ UNCHANGED pendingItems
    <3>1. ~InHand'
      BY <2>2 DEF InHand, NoItem, Kinds
    <3> QED BY <2>1, <2>2, <3>1 DEF Numbered, Holds
  <2>3. CASE /\ pendingItems # <<>> /\ hand' = Head(pendingItems)
             /\ pendingItems' = Tail(pendingItems)
    <3>1. /\ DOMAIN pendingItems' = 1..Len(pendingItems) - 1
          /\ DOMAIN pendingItems = 1..Len(pendingItems) /\ Len(pendingItems) \in Nat
          /\ 1 \in DOMAIN pendingItems /\ hand' = pendingItems[1]
          /\ \A i \in DOMAIN pendingItems' :
               i + 1 \in DOMAIN pendingItems /\ pendingItems'[i] = pendingItems[i + 1]
      BY <2>3, TakeItem DEF ItemTypes
    <3>2. \A i \in DOMAIN pendingItems' : 1 < i + 1
      BY <3>1
    <3>3. \A i, j \in DOMAIN pendingItems' : i < j => i + 1 < j + 1
      BY <3>1
    <3> QED BY <2>1, <3>1, <3>2, <3>3 DEF Numbered, Holds
  <2> QED BY <1>9, <2>2, <2>3, TakeMoves
<1>10. CASE LoopProcess
  <2>1. UNCHANGED <<pendingItems, call, hist>> /\ (hand' = hand \/ ~InHand')
    BY <1>10, ProcessMoves DEF InHand, NoItem, Ad, Kinds
  <2> QED BY <2>1 DEF Numbered, InHand, Holds
<1>11. CASE LoopPushed
  <2>1. UNCHANGED <<pendingItems, call>> /\ ~InHand' /\ hand.id \in Nat
    BY <1>11, LoopPushedMoves DEF InHand, NoItem, Kinds
  <2>2. PICK ok, h :
          /\ ok \in BOOLEAN
          /\ Deliver(hand, ok, h)
          /\ h = IF ok THEN hist ELSE [hist EXCEPT !.errAt = hist.added]
          /\ h \in History
    BY <1>11, LoopPushedMoves
  <2>3. /\ h.added = hist.added /\ h.out = hist.out /\ h.errAt \in {hist.errAt, hist.added}
    BY <2>2 DEF ItemTypes
  <2>4. /\ hist'.added = h.added /\ hist'.errAt = h.errAt
        /\ hist'.out = h.out \/ (hand.kind # "ad" /\ hist'.out \in {h.out, hand.id})
    BY <2>1, <2>2, Delivered DEF History
  <2>5. hand.kind # "ad" => InHand \/ hand.id = 0
    BY DEF ItemTypes, Item, NoItem, Ad, InHand
  <2>6. hist.added \in Nat /\ hist.out \in Nat
    BY DEF ItemTypes, History
  <2>7. hist'.out <= hist.added /\ hist'.errAt <= hist.added
    BY <2>1, <2>3, <2>4, <2>5, <2>6 DEF Numbered
  <2>8. \A c \in Callers : Holds(c) => hist'.out < hist.added
    BY <2>1, <2>3, <2>4, <2>5, <2>6 DEF Numbered
  <2> QED BY <2>1, <2>3, <2>4, <2>7, <2>8 DEF Numbered, Holds
<1> QED BY <1>0, <1>1, <1>2, <1>3, <1>4, <1>5, <1>6, <1>7, <1>8, <1>9, <1>10, <1>11, ItemSteps

LEMMA NumberedInvariant == Spec => []Numbered
BY NumberedInit, NumberedNext, ItemTypesInvariant, ControlInvariant, PTL DEF Spec

-----------------------------------------------------------------------------
(* What goes out goes out in order, unless items were left behind.         *)

LEMMA OrderedInit == Init => Ordered
<1> SUFFICES ASSUME Init PROVE Ordered
  OBVIOUS
<1>1. pendingItems = <<>> /\ DOMAIN pendingItems = {} /\ ~InHand /\ ~Inside
  BY DEF Init, InHand, NoItem, Kinds, Inside
<1>2. hist.late = FALSE /\ \A c \in Callers : call[c].pc # "push"
  BY DEF Init, Idle
<1> QED BY <1>1, <1>2 DEF Ordered

\* A step after which no more is inside, and no more pushes are under way, keeps Ordered.
LEMMA OrderedKept ==
  ASSUME Ordered, UNCHANGED <<pendingItems, hand>>, playing' = playing \/ playing' = TRUE,
         \A c \in Callers : call'[c].pc = "push" => call[c].pc = "push",
         hist'.out = hist.out, hist'.late = hist.late, hist'.stranded = hist.stranded
  PROVE  Ordered'
BY DEF Ordered, InHand, Inside

\* Only the change to PAUSED clears playing.
LEMMA PlayingSteps == [Next]_vars => playing' = playing \/ playing' = TRUE \/ Pause
BY DEF Next, Application, ToPaused, ToReady, Play, StateChange, StartTask,
   PauseSignal, StopTask, Joined, Upstream, Chain, SinkEvent, FlushStart, Calling, Flush,
   FlushStop, AddLock, AddAppend, AddPushed, Loop, LoopTop, LoopEnd, LoopWait, LoopTake,
   LoopProcess, LoopPushed, SpuriousWakeup, vars

\* The task pushes only what it has.
HandFull == loop = "push" => hand # NoItem

LEMMA HandFullNext == HandFull /\ [Next]_vars => HandFull'
<1> SUFFICES ASSUME HandFull, [Next]_vars PROVE HandFull'
  OBVIOUS
<1> USE DEF HandFull
<1>1. CASE Application
  BY <1>1 DEF Application, ToPaused, ToReady, Play, Pause, StateChange, StartTask,
     PauseSignal, StopTask, Joined, SignalNotEmpty
<1>2. CASE Upstream
  BY <1>2 DEF Upstream, Chain, SinkEvent, FlushStart
<1>3. CASE Calling
  BY <1>3 DEF Calling, Flush, FlushStop, AddLock, AddAppend, AddPushed, SignalNotEmpty
<1>4. CASE LoopProcess
  BY <1>4 DEF LoopProcess
<1>5. CASE LoopTop \/ LoopEnd \/ LoopWait \/ LoopTake \/ LoopPushed \/ SpuriousWakeup
  BY <1>5 DEF LoopTop, LoopEnd, LoopWait, LoopTake, LoopPushed, SpuriousWakeup
<1>6. CASE UNCHANGED vars
  BY <1>6 DEF vars
<1> QED BY <1>1, <1>2, <1>3, <1>4, <1>5, <1>6 DEF Next, Loop

LEMMA OrderedNext ==
  ASSUME Control, ItemTypes, Numbered, HandFull, Ordered, [Next]_vars
  PROVE  Ordered'
<1>0. ControlTypes /\ Exclusive
  BY DEF Control
<1>1. SUFFICES ASSUME ~hist'.stranded PROVE Ordered'
  BY DEF Ordered
<1>2. CASE Quiet
  <2>1. CASE Pause
    BY <1>1, <1>2, <2>1 DEF Quiet, items, Pause, LeftBehind, Ordered, InHand, ItemTypes,
       History, Inside
  <2>2. CASE ~Pause
    BY <1>2, <2>2, PlayingSteps, OrderedKept DEF Quiet, items
  <2> QED BY <2>1, <2>2
<1>3. CASE Noted
  <2>1. /\ UNCHANGED <<pendingItems, hand, call>> /\ ~hist.stranded
        /\ hist'.out = hist.out /\ hist'.late = hist.late /\ (playing' = TRUE \/ ~Inside)
    BY <1>1, <1>3, NotedMoves
  <2> QED BY <1>1, <2>1 DEF Ordered, Inside, InHand
<1>4. ASSUME NEW kind \in {"buffer", "event"}, Streaming, Enter("up", kind),
             UNCHANGED <<pendingItems, hand, hist, playing>>
      PROVE  Ordered'
  <2>1. PICK r : Moves("up", r) /\ r.pc = "add"
    BY <1>0, <1>4, UpEnters
  <2> QED BY <1>4, <2>1, OrderedKept DEF Moves
<1>5. CASE FlushStart \/ FlushStop
  <2>1. PICK r : Moves("seek", r) /\ r.pc # "push"
    BY <1>0, <1>5, FlushEdges
  <2>2. UNCHANGED <<pendingItems, hand, hist, playing>>
    BY <1>0, <1>5, FlushEdges
  <2> QED BY <2>1, <2>2, OrderedKept DEF Moves
<1>6. CASE Flush
  <2>1. PICK r : Moves("seek", r) /\ r.pc = "add"
    BY <1>0, <1>6, FlushMoves
  <2>2. /\ UNCHANGED <<hand, hist, playing>> /\ pendingItems' = Flushed(pendingItems)
        /\ pendingItems \in Seq(Item)
    BY <1>0, <1>6, FlushMoves DEF ItemTypes
  <2>3. PICK p \in [DOMAIN pendingItems' -> DOMAIN pendingItems] :
          \A n \in DOMAIN p : pendingItems'[n] = pendingItems[p[n]]
    BY <2>2, FlushKeepsEvents
  <2>4. \A n \in DOMAIN pendingItems' :
          p[n] \in DOMAIN pendingItems /\ pendingItems'[n] = pendingItems[p[n]]
    BY <2>3
  <2>5. pendingItems' # <<>> => pendingItems # <<>>
    <3>1. pendingItems' \in Seq(Item)
      BY <2>2, FlushKeepsEvents
    <3>2. pendingItems' # <<>> => 1 \in DOMAIN pendingItems'
      BY <3>1
    <3> QED BY <2>4, <3>2
  <2>6. \A c \in Callers : call'[c].pc = "push" => call[c].pc = "push"
    BY <2>1 DEF Moves
  <2> QED BY <1>1, <2>2, <2>4, <2>5, <2>6 DEF Ordered, Inside, InHand
<1>7. ASSUME NEW c \in Callers, AddLock(c) PROVE Ordered'
  <2>1. PICK r : Moves(c, r) /\ r.pc = (IF playing THEN "append" ELSE "push")
    BY <1>0, <1>7, AddLockMoves
  <2>2. /\ UNCHANGED <<pendingItems, hand, playing>>
        /\ hist'.out = hist.out /\ hist'.late = hist.late /\ hist'.stranded = hist.stranded
    BY <1>0, <1>7, AddLockMoves DEF ItemTypes, History
  <2>3. \A d \in Callers : call'[d].pc = "push" => call[d].pc = "push" \/ ~playing
    BY <2>1 DEF Moves
  <2> QED BY <1>1, <2>2, <2>3 DEF Ordered, InHand, Inside
<1>8. ASSUME NEW c \in Callers, AddAppend(c) PROVE Ordered'
  <2>1. Moves(c, Idle) /\ call[c].item \in Item /\ UNCHANGED <<hand, playing>> /\ Holds(c)
        /\ pendingItems' = Append(pendingItems, call[c].item)
        /\ hist' = IF playing THEN hist ELSE LeftBehind
    BY <1>0, <1>8, AppendMoves DEF Holds
  <2>2. hist' = hist /\ playing /\ ~hist.stranded
    <3>1. LeftBehind.stranded
      BY DEF LeftBehind, ItemTypes, History
    <3> QED BY <1>1, <2>1, <3>1 DEF Control, ControlTypes
  <2>3. \A d \in Callers : call'[d].pc # "push"
    BY <1>0, <2>1 DEF Holds, Moves, Idle, Exclusive
  <2>4. \A i \in DOMAIN pendingItems' :
          \/ i \in DOMAIN pendingItems /\ pendingItems'[i] = pendingItems[i]
          \/ pendingItems'[i] = call[c].item
    BY <2>1, AppendItem DEF ItemTypes
  <2>5. hist.out < call[c].item.id
    BY <2>1 DEF Numbered
  <2> QED BY <1>1, <2>1, <2>2, <2>3, <2>4, <2>5 DEF Ordered, InHand, Inside
<1>9. ASSUME NEW c \in Callers, AddPushed(c) PROVE Ordered'
  <2>1. Moves(c, Idle) /\ call[c].item \in Item /\ UNCHANGED <<pendingItems, hand, playing>>
        /\ call[c].pc = "push"
    BY <1>0, <1>9, PushedMoves
  <2>2. PICK ok \in BOOLEAN : Deliver(call[c].item, ok, hist)
    BY <1>0, <1>9, PushedMoves
  <2>3. /\ hist'.stranded = hist.stranded
        /\ hist' = hist \/ /\ hist'.late = (hist.late \/ call[c].item.id < hist.out)
                           /\ call[c].item.id < hist.out \/ hist'.out = call[c].item.id
    BY <2>1, <2>2, Delivered DEF Item, ItemTypes
  <2>4. ~Inside /\ ~InHand /\ DOMAIN pendingItems = {}
    BY <1>1, <2>1, <2>3 DEF Ordered, Inside, InHand
  <2>5. ~(call[c].item.id < hist.out)
    BY <2>1, NumbersAreNat DEF Numbered, Holds
  <2>6. hist'.late = FALSE
    BY <1>1, <2>3, <2>5 DEF Ordered, ItemTypes, History
  <2> QED BY <2>1, <2>4, <2>6 DEF Ordered, Inside, InHand
<1>10. CASE LoopTake
  <2>1. UNCHANGED <<call, hist, playing>>
    BY <1>10, TakeMoves
  <2>2. CASE pendingItems = <<>> /\ hand' = NoItem /\ UNCHANGED pendingItems
    <3>1. ~InHand' /\ ~Inside'
      BY <2>2 DEF InHand, NoItem, Kinds, Inside
    <3> QED BY <1>1, <2>1, <2>2, <3>1 DEF Ordered
  <2>3. CASE /\ pendingItems # <<>> /\ hand' = Head(pendingItems)
             /\ pendingItems' = Tail(pendingItems)
    <3>1. /\ 1 \in DOMAIN pendingItems /\ hand' = pendingItems[1]
          /\ \A i \in DOMAIN pendingItems' :
               i + 1 \in DOMAIN pendingItems /\ pendingItems'[i] = pendingItems[i + 1]
      BY <2>3, TakeItem DEF ItemTypes
    <3>2. Inside
      BY <2>3 DEF Inside
    <3> QED BY <1>1, <2>1, <3>1, <3>2 DEF Ordered
  <2> QED BY <1>10, <2>2, <2>3, TakeMoves
<1>11. CASE LoopProcess
  <2>1. UNCHANGED <<pendingItems, call, hist, playing>> /\ (hand' = hand \/ ~InHand')
    BY <1>11, ProcessMoves DEF InHand, NoItem, Ad, Kinds
  <2> QED BY <2>1 DEF Ordered, InHand, Inside
<1>12. CASE LoopPushed
  <2>1. UNCHANGED <<pendingItems, call, playing>> /\ ~InHand' /\ hand.id \in Nat
    BY <1>12, LoopPushedMoves DEF InHand, NoItem, Kinds
  <2>2. PICK ok, h :
          /\ ok \in BOOLEAN
          /\ Deliver(hand, ok, h)
          /\ h = IF ok THEN hist ELSE [hist EXCEPT !.errAt = hist.added]
          /\ h \in History
    BY <1>12, LoopPushedMoves
  <2>3. h.out = hist.out /\ h.late = hist.late /\ h.stranded = hist.stranded
    BY <2>2 DEF ItemTypes
  <2>4. /\ hist'.stranded = h.stranded
        /\ \/ hist' = h
           \/ /\ hand.kind # "ad" /\ hist'.late = (h.late \/ hand.id < h.out)
              /\ hist'.out = IF hand.id < h.out THEN h.out ELSE hand.id
    BY <2>1, <2>2, Delivered
  <2>5. Inside' => Inside
    BY <2>1 DEF Inside, InHand
  <2>6. ~hist.stranded /\ ~hist.late
    BY <1>1, <2>3, <2>4 DEF Ordered
  <2>7. CASE hist' = h
    BY <2>1, <2>3, <2>5, <2>6, <2>7 DEF Ordered
  <2>8. CASE /\ hand.kind # "ad" /\ hist'.late = (h.late \/ hand.id < h.out)
             /\ hist'.out = IF hand.id < h.out THEN h.out ELSE hand.id
    <3>1. InHand
      BY <1>12, <2>8 DEF LoopPushed, HandFull, InHand, ItemTypes, Item, Ad
    <3>2. ~(hand.id < h.out)
      BY <2>1, <2>2, <2>3, <2>6, <3>1 DEF Ordered, History
    <3>3. hist'.late = FALSE /\ hist'.out = hand.id
      BY <2>2, <2>3, <2>6, <2>8, <3>2
    <3>4. \A i \in DOMAIN pendingItems : hand.id < pendingItems[i].id
      BY <3>1 DEF Numbered
    <3> QED BY <2>1, <2>5, <2>6, <3>3, <3>4 DEF Ordered
  <2> QED BY <2>4, <2>7, <2>8
<1> QED BY <1>0, <1>2, <1>3, <1>4, <1>5, <1>6, <1>7, <1>8, <1>9, <1>10, <1>11, <1>12, ItemSteps

\* Items reach downstream in the order in which their callers got the lock, whatever the
\* flushes, the ads and the failures in between, unless a change to PAUSED left some behind
\* (pendingItems is not emptied by it, and the next items go past them).
THEOREM InOrderTheorem == Spec => []InOrderUnlessStranded
<1>1. Init => HandFull
  BY DEF Init, HandFull
<1>2. Spec => []HandFull
  BY <1>1, HandFullNext, PTL DEF Spec
<1>3. Spec => []Ordered
  BY <1>2, OrderedInit, OrderedNext, NumberedInvariant, ItemTypesInvariant, ControlInvariant,
     PTL DEF Spec
<1>4. Ordered => InOrderUnlessStranded
  BY DEF Ordered, InOrderUnlessStranded
<1> QED BY <1>3, <1>4, PTL

-----------------------------------------------------------------------------
(* Who brings what.                                                        *)

LEMMA RolesInit == Init => Roles
BY DEF Init, Roles, Callers, Idle, NoItem

\* The streaming thread's place or the other's is as before or as the move says.
LEMMA MovesOf ==
  ASSUME NEW c \in Callers, NEW r, Moves(c, r)
  PROVE  /\ call'["up"] = IF c = "up" THEN r ELSE call["up"]
         /\ call'["seek"] = IF c = "seek" THEN r ELSE call["seek"]
         /\ c \in {"up", "seek"}
BY DEF Moves, Callers

\* Only the edges of a flush change the pad's state.
LEMMA FlushingSteps == [Next]_vars => flushing' = flushing \/ FlushStart \/ FlushStop
BY DEF Next, Application, ToPaused, ToReady, Play, Pause, StateChange, StartTask,
   PauseSignal, StopTask, Joined, Upstream, Chain, SinkEvent, FlushStart, Calling, Flush,
   FlushStop, AddLock, AddAppend, AddPushed, Loop, LoopTop, LoopEnd, LoopWait, LoopTake,
   LoopProcess, LoopPushed, SpuriousWakeup, vars

LEMMA RolesNext ==
  ASSUME Control, ItemTypes, Roles, [Next]_vars
  PROVE  Roles'
<1>0. ControlTypes /\ "up" \in Callers /\ "seek" \in Callers
  BY DEF Control, Callers
<1>1. CASE Quiet /\ ~FlushStart /\ ~FlushStop
  <2>1. UNCHANGED <<call, flushing>>
    BY <1>1, FlushingSteps DEF Quiet, items
  <2> QED BY <2>1 DEF Roles
<1>2. CASE Noted
  BY <1>2 DEF Noted, Pause, Play, Roles
<1>3. ASSUME NEW kind \in {"buffer", "event"}, Streaming, Enter("up", kind), UNCHANGED flushing
      PROVE  Roles'
  <2>1. PICK r : Moves("up", r) /\ r.pc = "add" /\ r.item.kind = kind
    BY <1>0, <1>3, UpEnters
  <2> QED BY <1>0, <1>3, <2>1, MovesOf DEF Roles
<1>4. CASE FlushStart \/ FlushStop
  <2>1. CASE flushing' /\ Moves("seek", [pc |-> "flush", item |-> NoItem])
    BY <1>0, <2>1, MovesOf DEF Roles, NoItem
  <2>2. CASE ~flushing' /\ \E r : Moves("seek", r) /\ r.pc = "add" /\ r.item.kind = "flushStop"
    BY <1>0, <2>2, MovesOf DEF Roles
  <2> QED BY <1>0, <1>4, <2>1, <2>2, FlushEdges
<1>5. CASE Flush
  <2>1. PICK r : Moves("seek", r) /\ r.pc = "add" /\ r.item.kind = "flushStart"
    BY <1>0, <1>5, FlushMoves
  <2>2. call["seek"].pc = "flush" /\ UNCHANGED flushing
    BY <1>0, <1>5, FlushMoves
  <2> QED BY <1>0, <2>1, <2>2, MovesOf DEF Roles
<1>6. ASSUME NEW c \in Callers, AddLock(c) PROVE Roles'
  <2>1. PICK r : Moves(c, r) /\ r.pc \in {"append", "push"} /\ r.item.kind = call[c].item.kind
    BY <1>0, <1>6, AddLockMoves
  <2>2. UNCHANGED flushing
    BY <1>0, <1>6, AddLockMoves
  <2> QED BY <2>1, <2>2, MovesOf DEF Roles
<1>7. ASSUME NEW c \in Callers, AddAppend(c) \/ AddPushed(c) PROVE Roles'
  <2>1. Moves(c, Idle) /\ UNCHANGED flushing
    BY <1>0, <1>7, AppendMoves, PushedMoves
  <2>2. Idle.pc = "idle" /\ Idle.item.kind = "none"
    BY DEF Idle, NoItem
  <2> QED BY <2>1, <2>2, MovesOf DEF Roles
<1>8. CASE LoopTake \/ LoopProcess \/ LoopPushed
  <2>1. UNCHANGED <<call, flushing>>
    BY <1>8, TakeMoves, ProcessMoves, LoopPushedMoves
  <2> QED BY <2>1 DEF Roles
<1> QED BY <1>0, <1>1, <1>2, <1>3, <1>4, <1>5, <1>6, <1>7, <1>8, ItemSteps

LEMMA RolesInvariant == Spec => []Roles
BY RolesInit, RolesNext, ItemTypesInvariant, ControlInvariant, PTL DEF Spec

-----------------------------------------------------------------------------
(* How many buffers a flush lets through.                                  *)

LEMMA StaleInit == Init => StaleBound
<1> SUFFICES ASSUME Init PROVE StaleBound
  OBVIOUS
<1>1. pendingItems = <<>> /\ DOMAIN pendingItems = {} /\ hist.added = 0
      /\ stale = [before |-> 0, pushed |-> 0]
  BY DEF Init
<1>2. ~OldInHand /\ ~OldComes /\ ~OldQueued
  BY <1>1 DEF Init, OldInHand, Old, OldComes, OldQueued, IsBuffer, Callers, Idle, NoItem
<1> QED BY <1>1, <1>2 DEF StaleBound, One

\* A step that pushes nothing downstream and makes no buffer old keeps the bound.
LEMMA StaleKept ==
  ASSUME StaleBound, stale'.pushed = stale.pushed, stale' \in [before : Nat, pushed : Nat],
         stale'.before <= hist'.added,
         \A i \in DOMAIN pendingItems' : OldAt(i)' => i \in DOMAIN pendingItems /\ OldAt(i),
         OldInHand' => OldInHand, OldComes' => OldComes
  PROVE  StaleBound'
<1>1. OldQueued' => OldQueued
  BY DEF OldQueued
<1>2. stale.pushed \in Nat
  BY DEF StaleBound
<1>3. /\ One(OldInHand') <= One(OldInHand) /\ One(OldQueued') <= One(OldQueued)
      /\ One(OldComes') <= One(OldComes)
      /\ \A b : One(b) \in Nat
  BY <1>1 DEF One
<1>4. stale'.pushed + One(OldInHand') + One(OldQueued') + One(OldComes') <= 2
  <2> DEFINE h == One(OldInHand)  q == One(OldQueued)  u == One(OldComes)
             hh == One(OldInHand')  qq == One(OldQueued')  uu == One(OldComes')
  <2>1. /\ {h, q, u, hh, qq, uu} \subseteq Nat /\ hh <= h /\ qq <= q /\ uu <= u
        /\ stale.pushed + h + q + u <= 2
    BY <1>3 DEF StaleBound
  <2> HIDE DEF h, q, u, hh, qq, uu
  <2>2. stale'.pushed + hh + qq + uu <= 2
    BY <1>2, <2>1
  <2> QED BY <2>2 DEF hh, qq, uu
<1> QED BY <1>1, <1>4 DEF StaleBound

LEMMA StaleNext ==
  ASSUME Control, ItemTypes, Numbered, Roles, StaleBound, [Next]_vars
  PROVE  StaleBound'
<1>0. ControlTypes /\ Exclusive /\ "up" \in Callers /\ "seek" \in Callers
  BY DEF Control, Callers
<1>1. CASE Quiet \/ Noted
  <2>1. UNCHANGED <<pendingItems, hand, call, stale>> /\ hist'.added = hist.added
    BY <1>1, NotedMoves DEF Quiet, items
  <2>2. /\ OldInHand' = OldInHand /\ OldComes' = OldComes
        /\ \A i : OldAt(i)' = OldAt(i)
    BY <2>1 DEF OldInHand, OldComes, OldAt, BufferAt, Old, FlushPending, Holds
  <2> QED BY <2>1, <2>2, StaleKept DEF StaleBound
<1>2. ASSUME NEW kind \in {"buffer", "event"}, Streaming, Enter("up", kind),
             UNCHANGED <<pendingItems, hand, hist, stale>>
      PROVE  StaleBound'
  <2>1. ~flushing /\ \E r : Moves("up", r) /\ r.pc = "add"
    BY <1>0, <1>2, UpEnters
  <2>2. call'["seek"] = call["seek"] /\ call'["up"].pc = "add"
    BY <1>0, <2>1, MovesOf
  <2>3. ~OldComes'
    BY <2>1, <2>2 DEF OldComes, Holds, FlushPending, Roles
  <2>4. OldInHand' = OldInHand /\ \A i : OldAt(i)' = OldAt(i)
    BY <1>2, <2>2 DEF OldInHand, OldAt, BufferAt, Old
  <2> QED BY <1>2, <2>3, <2>4, StaleKept DEF StaleBound
<1>3. CASE FlushStart \/ FlushStop
  <2>1. PICK r : Moves("seek", r) /\ r.item.kind # "flushStart"
    BY <1>0, <1>3, FlushEdges DEF NoItem
  <2>2. UNCHANGED <<pendingItems, hand, hist, stale>>
    BY <1>0, <1>3, FlushEdges
  <2>3. call'["up"] = call["up"] /\ ~FlushPending'
    BY <1>0, <2>1, MovesOf DEF FlushPending
  <2>4. /\ (OldInHand' => OldInHand) /\ (OldComes' => OldComes)
        /\ \A i : OldAt(i)' => OldAt(i)
    BY <2>2, <2>3 DEF OldInHand, OldComes, OldAt, BufferAt, Old, FlushPending, Holds
  <2>5. stale'.pushed = stale.pushed /\ stale'.before <= hist'.added
        /\ stale' \in [before : Nat, pushed : Nat]
    BY <2>2 DEF StaleBound
  <2> QED BY <2>2, <2>4, <2>5, StaleKept
<1>4. CASE Flush
  <2>1. /\ pendingItems' = Flushed(pendingItems) /\ pendingItems \in Seq(Item)
        /\ stale' = [stale EXCEPT !.pushed = 0] /\ UNCHANGED hist
    BY <1>0, <1>4, FlushMoves DEF ItemTypes
  <2>2. \A n \in DOMAIN pendingItems' : ~IsBuffer(pendingItems'[n])
    BY <2>1, FlushKeepsEvents
  <2>3. ~OldQueued' /\ \A i : ~OldAt(i)'
    BY <2>2 DEF OldQueued, OldAt, BufferAt
  <2>4. /\ stale' \in [before : Nat, pushed : Nat] /\ stale'.before <= hist'.added
        /\ stale'.pushed = 0
    BY <2>1 DEF StaleBound
  <2>5. One(OldQueued') = 0 /\ One(OldInHand') \in {0, 1} /\ One(OldComes') \in {0, 1}
    BY <2>3 DEF One
  <2>6. stale'.pushed + One(OldInHand') + One(OldQueued') + One(OldComes') <= 2
    BY <2>4, <2>5
  <2> QED BY <2>3, <2>4, <2>6 DEF StaleBound
<1>5. ASSUME NEW c \in Callers, AddLock(c) PROVE StaleBound'
  <2>1. PICK r : /\ Moves(c, r) /\ r.pc \in {"append", "push"}
                 /\ r.item.kind = call[c].item.kind /\ r.item.id = hist.added + 1
    BY <1>0, <1>5, AddLockMoves
  <2>2. /\ UNCHANGED <<pendingItems, hand>> /\ call[c].pc = "add" /\ LockFree
        /\ hist'.added = hist.added + 1 /\ NumberFlush(c)
    BY <1>0, <1>5, AddLockMoves DEF ItemTypes, History
  <2>3. stale \in [before : Nat, pushed : Nat] /\ stale.before <= hist.added
        /\ hist.added \in Nat
    BY NumbersAreNat DEF StaleBound
  <2>4. CASE c = "seek" /\ call[c].item.kind = "flushStart"
    <3>1. FlushPending /\ ~FlushPending' /\ call'["up"] = call["up"] /\ ~Holds("up")
      BY <1>0, <2>1, <2>2, <2>4, MovesOf DEF FlushPending, Holds, LockFree
    <3>2. stale' = [stale EXCEPT !.before = hist.added + 1]
      BY <2>2, <2>4 DEF NumberFlush
    <3>3. ~OldComes'
      BY <3>1 DEF OldComes, Holds
    <3>4. \A item : Old(item)' => Old(item)
      BY <3>1 DEF Old, FlushPending
    <3>5. /\ OldInHand' => OldInHand
          /\ \A i \in DOMAIN pendingItems' : OldAt(i)' => OldAt(i)
      BY <2>2, <3>4 DEF OldInHand, OldAt, BufferAt
    <3>6. /\ stale' \in [before : Nat, pushed : Nat] /\ stale'.pushed = stale.pushed
          /\ stale'.before <= hist'.added
      BY <2>2, <2>3, <3>2
    <3> QED BY <2>2, <3>3, <3>5, <3>6, StaleKept
  <2>5. CASE ~(c = "seek" /\ call[c].item.kind = "flushStart")
    <3>1. UNCHANGED stale
      BY <2>2, <2>5 DEF NumberFlush, Roles, Callers
    <3>2. FlushPending' = FlushPending
      BY <1>0, <2>1, <2>2, <2>5, MovesOf DEF FlushPending
    <3>3. \A item : Old(item)' = Old(item)
      BY <3>1, <3>2 DEF Old, FlushPending
    <3>4. OldInHand' = OldInHand /\ \A i : OldAt(i)' = OldAt(i)
      BY <2>2, <3>3 DEF OldInHand, OldAt, BufferAt
    <3>5. OldComes' => OldComes
      <4>1. CASE c = "up"
        <5>1. call'["up"] = r /\ call'["seek"] = call["seek"]
          BY <1>0, <2>1, <4>1, MovesOf
        <5>2. IsBuffer(call'["up"].item) = IsBuffer(call["up"].item)
          BY <2>1, <4>1, <5>1 DEF IsBuffer
        <5>3. Old(call'["up"].item) => FlushPending
          BY <2>1, <2>3, <5>1 DEF Old, FlushPending
        <5> QED BY <2>2, <3>2, <3>3, <4>1, <5>2, <5>3 DEF OldComes, Holds, FlushPending
      <4>2. CASE c = "seek"
        <5>1. call'["up"] = call["up"]
          BY <1>0, <2>1, <4>2, MovesOf
        <5> QED BY <3>2, <3>3, <5>1 DEF OldComes, Holds
      <4> QED BY <4>1, <4>2 DEF Callers
    <3> QED BY <2>2, <2>3, <3>1, <3>4, <3>5, StaleKept
  <2> QED BY <2>4, <2>5
<1>6. ASSUME NEW c \in Callers, AddAppend(c) PROVE StaleBound'
  <2> DEFINE last == Len(pendingItems) + 1
  <2>1. Moves(c, Idle) /\ call[c].item \in Item /\ call[c].pc = "append"
        /\ pendingItems' = Append(pendingItems, call[c].item)
        /\ UNCHANGED <<hand, stale>> /\ hist'.added = hist.added
    BY <1>0, <1>6, AppendMoves DEF LeftBehind, ItemTypes, History
  <2>2. /\ Len(pendingItems) \in Nat /\ DOMAIN pendingItems = 1..Len(pendingItems)
        /\ DOMAIN pendingItems' = 1..last
        /\ \A i \in DOMAIN pendingItems : pendingItems'[i] = pendingItems[i]
        /\ pendingItems'[last] = call[c].item
    BY <2>1, AppendItem DEF ItemTypes
  <2>3. \A i \in DOMAIN pendingItems' : i \in DOMAIN pendingItems \/ i = last
    BY <2>2
  <2> HIDE DEF last
  <2>4. FlushPending' = FlushPending
    BY <1>0, <2>1, MovesOf DEF FlushPending, Idle
  <2>5. \A item : Old(item)' = Old(item)
    BY <2>1, <2>4 DEF Old, FlushPending
  <2>6. OldInHand' = OldInHand
    BY <2>1, <2>5 DEF OldInHand
  <2>7. \A i \in DOMAIN pendingItems' :
          OldAt(i)' => \/ i \in DOMAIN pendingItems /\ OldAt(i)
                       \/ i = last /\ Old(call[c].item)
    BY <2>2, <2>3, <2>5 DEF OldAt, BufferAt
  <2>8. CASE ~Old(call[c].item)
    <3>1. OldComes' => OldComes
      BY <1>0, <2>1, <2>4, <2>5, MovesOf DEF OldComes, Holds, Idle, NoItem, IsBuffer
    <3> QED BY <2>1, <2>6, <2>7, <2>8, <3>1, StaleKept DEF StaleBound
  <2>9. CASE Old(call[c].item)
    <3>1. c = "up" /\ OldComes
      BY <2>1, <2>9 DEF Old, IsBuffer, Roles, Callers, OldComes, Holds
    <3>2. ~OldComes'
      BY <1>0, <2>1, <3>1, MovesOf DEF OldComes, Idle, NoItem, IsBuffer
    <3>3. ~OldQueued
      BY <3>1 DEF StaleBound
    <3>4. \A i \in DOMAIN pendingItems' : OldAt(i)' => i = last
      BY <2>7, <3>3 DEF OldQueued
    <3>5. /\ One(OldInHand') = One(OldInHand) /\ One(OldQueued') \in {0, 1}
          /\ One(OldComes') = 0 /\ One(OldComes) = 1 /\ One(OldQueued) = 0
          /\ One(OldInHand) \in {0, 1}
      BY <2>6, <3>1, <3>2, <3>3 DEF One
    <3>6. stale'.pushed + One(OldInHand') + One(OldQueued') + One(OldComes') <= 2
      BY <2>1, <3>5 DEF StaleBound
    <3> QED BY <2>1, <3>2, <3>4, <3>6 DEF StaleBound
  <2> QED BY <2>8, <2>9
<1>7. ASSUME NEW c \in Callers, AddPushed(c) PROVE StaleBound'
  <2>1. Moves(c, Idle) /\ UNCHANGED <<pendingItems, hand>> /\ call[c].pc = "push"
        /\ CountStale(call[c].item) /\ hist'.added = hist.added
    BY <1>0, <1>7, PushedMoves, Delivered DEF Item, ItemTypes
  <2>2. FlushPending' = FlushPending
    BY <1>0, <2>1, MovesOf DEF FlushPending, Idle
  <2>3. stale'.before = stale.before
    BY <2>1 DEF CountStale, StaleBound
  <2>4. \A item : Old(item)' = Old(item)
    BY <2>2, <2>3 DEF Old, FlushPending
  <2>5. OldInHand' = OldInHand /\ \A i : OldAt(i)' = OldAt(i)
    BY <2>1, <2>4 DEF OldInHand, OldAt, BufferAt
  <2>6. CASE ~Old(call[c].item)
    <3>1. OldComes' => OldComes
      BY <1>0, <2>1, <2>2, <2>4, MovesOf DEF OldComes, Holds, Idle, NoItem, IsBuffer
    <3>2. UNCHANGED stale
      BY <2>1, <2>6 DEF CountStale
    <3> QED BY <2>1, <2>5, <3>1, <3>2, StaleKept DEF StaleBound
  <2>7. CASE Old(call[c].item)
    <3>1. c = "up" /\ OldComes
      BY <2>1, <2>7 DEF Old, IsBuffer, Roles, Callers, OldComes, Holds
    <3>2. ~OldComes'
      BY <1>0, <2>1, <3>1, MovesOf DEF OldComes, Idle, NoItem, IsBuffer
    <3>3. OldQueued' = OldQueued
      BY <2>1, <2>5 DEF OldQueued
    <3>4. /\ stale' \in [before : Nat, pushed : Nat] /\ stale'.pushed = stale.pushed + 1
      BY <2>1, <2>7 DEF CountStale, StaleBound
    <3>5. /\ One(OldInHand') = One(OldInHand) /\ One(OldQueued') = One(OldQueued)
          /\ One(OldComes') = 0 /\ One(OldComes) = 1
          /\ One(OldQueued) \in {0, 1} /\ One(OldInHand) \in {0, 1} /\ stale.pushed \in Nat
      BY <2>5, <3>1, <3>2, <3>3 DEF One, StaleBound
    <3>6. stale'.pushed + One(OldInHand') + One(OldQueued') + One(OldComes') <= 2
      BY <3>4, <3>5 DEF StaleBound
    <3> QED BY <2>1, <2>3, <2>5, <3>2, <3>4, <3>6 DEF StaleBound
  <2> QED BY <2>6, <2>7
<1>8. CASE LoopTake
  <2>1. UNCHANGED <<call, hist, stale>>
    BY <1>8, TakeMoves
  <2>2. OldComes' = OldComes /\ \A item : Old(item)' = Old(item)
    BY <2>1 DEF OldComes, Old, FlushPending, Holds
  <2>3. CASE hand' = NoItem /\ UNCHANGED pendingItems
    <3>1. ~OldInHand' /\ \A i : OldAt(i)' = OldAt(i)
      BY <2>2, <2>3 DEF OldInHand, Old, IsBuffer, NoItem, OldAt, BufferAt
    <3> QED BY <2>1, <2>2, <2>3, <3>1, StaleKept DEF StaleBound
  <2>4. CASE /\ pendingItems # <<>> /\ hand' = Head(pendingItems)
             /\ pendingItems' = Tail(pendingItems)
    <3>1. /\ DOMAIN pendingItems' = 1..Len(pendingItems) - 1
          /\ DOMAIN pendingItems = 1..Len(pendingItems) /\ Len(pendingItems) \in Nat
          /\ 1 \in DOMAIN pendingItems /\ hand' = pendingItems[1]
          /\ \A i \in DOMAIN pendingItems' :
               i + 1 \in DOMAIN pendingItems /\ pendingItems'[i] = pendingItems[i + 1]
      BY <2>4, TakeItem DEF ItemTypes
    <3>2. \A i \in DOMAIN pendingItems' : OldAt(i)' => OldAt(i + 1)
      BY <2>2, <3>1 DEF OldAt, BufferAt
    <3>3. OldInHand' => OldAt(1)
      BY <2>2, <3>1 DEF OldInHand, OldAt, BufferAt, Old
    <3>4. \A i \in DOMAIN pendingItems' : i + 1 # 1
      BY <3>1
    <3>5. /\ OldQueued' => OldQueued /\ ~OldInHand'
          /\ OldInHand' => OldQueued
      BY <3>1, <3>2, <3>3, <3>4 DEF OldQueued, StaleBound
    <3>6. /\ One(OldInHand') + One(OldQueued') <= One(OldQueued)
          /\ One(OldComes') = One(OldComes) /\ One(OldInHand) \in {0, 1}
          /\ {One(OldInHand'), One(OldQueued'), One(OldQueued), One(OldComes)} \subseteq {0, 1}
      BY <2>2, <3>5 DEF One
    <3>7. stale'.pushed + One(OldInHand') + One(OldQueued') + One(OldComes') <= 2
      BY <2>1, <3>6 DEF StaleBound
    <3>8. \A i, j \in DOMAIN pendingItems' : OldAt(i)' /\ OldAt(j)' => i = j
      <4>1. \A i, j \in DOMAIN pendingItems' : i + 1 = j + 1 => i = j
        BY <3>1
      <4> QED BY <3>1, <3>2, <4>1 DEF StaleBound
    <3> QED BY <2>1, <2>2, <3>5, <3>7, <3>8 DEF StaleBound
  <2> QED BY <1>8, <2>3, <2>4, TakeMoves
<1>9. CASE LoopProcess
  <2>1. UNCHANGED <<pendingItems, call, hist, stale>> /\ hand' \in {hand, NoItem, Ad}
    BY <1>9, ProcessMoves
  <2>2. /\ OldInHand' => OldInHand
        /\ \A i : OldAt(i)' = OldAt(i)
    BY <2>1 DEF OldInHand, OldComes, Old, FlushPending, Holds, OldAt, BufferAt, IsBuffer,
       NoItem, Ad
  <2>3. OldComes' = OldComes
    BY <2>1 DEF OldComes, Old, FlushPending, Holds
  <2> QED BY <2>1, <2>2, <2>3, StaleKept DEF StaleBound
<1>10. CASE LoopPushed
  <2>1. UNCHANGED <<pendingItems, call>> /\ hand' = NoItem /\ CountStale(hand)
    BY <1>10, LoopPushedMoves
  <2>2. hist'.added = hist.added
    <3>1. PICK ok, h : /\ ok \in BOOLEAN /\ Deliver(hand, ok, h) /\ h \in History
                       /\ h = IF ok THEN hist ELSE [hist EXCEPT !.errAt = hist.added]
      BY <1>10, LoopPushedMoves
    <3>2. h.added = hist.added /\ hand.id \in Nat
      BY <1>10, <3>1, LoopPushedMoves DEF ItemTypes, History
    <3> QED BY <3>1, <3>2, Delivered
  <2>3. stale'.before = stale.before
    BY <2>1 DEF CountStale, StaleBound
  <2>4. /\ OldComes' = OldComes /\ \A i : OldAt(i)' = OldAt(i)
        /\ ~OldInHand'
    BY <2>1, <2>3 DEF OldInHand, OldComes, Old, FlushPending, Holds, OldAt, BufferAt,
       IsBuffer, NoItem
  <2>5. CASE ~Old(hand)
    <3>1. UNCHANGED stale
      BY <2>1, <2>5 DEF CountStale
    <3> QED BY <2>1, <2>2, <2>4, <3>1, StaleKept DEF StaleBound
  <2>6. CASE Old(hand)
    <3>1. OldQueued' = OldQueued
      BY <2>1, <2>4 DEF OldQueued
    <3>2. stale' \in [before : Nat, pushed : Nat] /\ stale'.pushed = stale.pushed + 1
      BY <2>1, <2>6 DEF CountStale, StaleBound
    <3>3. /\ One(OldInHand') = 0 /\ One(OldInHand) = 1 /\ One(OldQueued') = One(OldQueued)
          /\ One(OldComes') = One(OldComes)
          /\ One(OldQueued) \in {0, 1} /\ One(OldComes) \in {0, 1} /\ stale.pushed \in Nat
      BY <2>4, <2>6, <3>1 DEF One, OldInHand, StaleBound
    <3>4. stale'.pushed + One(OldInHand') + One(OldQueued') + One(OldComes') <= 2
      BY <3>2, <3>3 DEF StaleBound
    <3> QED BY <2>1, <2>2, <2>3, <2>4, <3>1, <3>2, <3>4 DEF StaleBound
  <2> QED BY <2>5, <2>6
<1> QED BY <1>0, <1>1, <1>2, <1>3, <1>4, <1>5, <1>6, <1>7, <1>8, <1>9, <1>10, ItemSteps

\* A flush lets at most two buffers of before through, in queues of any length and however
\* often it is repeated: flush() empties the queue under the lock, which leaves the one in
\* the task's hand and, as the pad takes no more of them, the one whose chain() was under
\* way when the flush began.
THEOREM AtMostTwoStaleTheorem == Spec => []AtMostTwoStale
<1>1. StaleBound => AtMostTwoStale
  <2> SUFFICES ASSUME StaleBound PROVE stale.pushed <= 2
    BY DEF AtMostTwoStale
  <2>1. /\ {One(OldInHand), One(OldQueued), One(OldComes)} \subseteq {0, 1}
        /\ stale.pushed \in Nat
    BY DEF One, StaleBound
  <2> QED BY <2>1 DEF StaleBound
<1>2. Spec => []StaleBound
  BY StaleInit, StaleNext, NumberedInvariant, RolesInvariant, ItemTypesInvariant,
     ControlInvariant, PTL DEF Spec
<1> QED BY <1>1, <1>2, PTL

\* A set of places of which any two are the same has at most one.
LEMMA AtMostOnePlace ==
  ASSUME NEW S, IsFiniteSet(S), \A i, j \in S : i = j
  PROVE  Cardinality(S) <= 1
<1>1. CASE S = {}
  BY <1>1, FS_EmptySet
<1>2. CASE S # {}
  <2>1. PICK i \in S : S = {i}
    BY <1>2
  <2> QED BY <2>1, FS_Singleton
<1> QED BY <1>1, <1>2

-----------------------------------------------------------------------------
(* How many buffers come in after an error.                                *)

\* Only the task's push reports an error.
LEMMA SrcRetSteps == [Next]_vars => srcRet' = srcRet \/ srcRet' = "ok" \/ LoopPushed
BY DEF Next, Application, ToPaused, ToReady, Play, Pause, StateChange, StartTask,
   PauseSignal, StopTask, Joined, Upstream, Chain, SinkEvent, FlushStart, Calling, Flush,
   FlushStop, AddLock, AddAppend, AddPushed, Loop, LoopTop, LoopEnd, LoopWait, LoopTake,
   LoopProcess, SpuriousWakeup, vars

\* A step that neither adds to the queue nor lets a new buffer come keeps the bound.
LEMMA ErrorKept ==
  ASSUME ErrorBound, UNCHANGED pendingItems, srcRet' = srcRet \/ srcRet' = "ok",
         hist'.errAt = hist.errAt, srcRet = "error" => (AfterErrorComes' => AfterErrorComes)
  PROVE  ErrorBound'
BY DEF ErrorBound, AfterErrorAt, BufferAt

\* A step of the other caller is nothing to the streaming thread.
LEMMA OtherMoves ==
  ASSUME NEW r, Moves("seek", r), hist'.errAt = hist.errAt
  PROVE  AfterErrorComes' = AfterErrorComes
<1>1. call'["up"] = call["up"]
  BY DEF Moves, Callers
<1> QED BY <1>1 DEF AfterErrorComes, BufferComes

LEMMA ErrorNext ==
  ASSUME Control, ItemTypes, Numbered, Roles, ErrorBound, [Next]_vars
  PROVE  ErrorBound'
<1>0. ControlTypes /\ Exclusive /\ "up" \in Callers /\ "seek" \in Callers
  BY DEF Control, Callers
<1>1. CASE (Quiet \/ Noted) /\ ~LoopPushed
  <2>1. CASE Play
    BY <2>1 DEF Play, ErrorBound
  <2>2. CASE ~Play
    <3>1. UNCHANGED <<pendingItems, call>> /\ hist'.errAt = hist.errAt
      BY <1>1, <2>2 DEF Quiet, items, Noted, Pause, LeftBehind, ItemTypes, History
    <3> QED BY <1>1, <3>1, SrcRetSteps, ErrorKept DEF BufferComes, AfterErrorComes
  <2> QED BY <2>1, <2>2
<1>2. ASSUME NEW kind \in {"buffer", "event"}, Streaming, Enter("up", kind),
             kind = "buffer" => srcRet = "ok", UNCHANGED <<pendingItems, hist, srcRet>>
      PROVE  ErrorBound'
  <2>1. PICK r : Moves("up", r) /\ r.item.kind = kind
    BY <1>0, <1>2, UpEnters
  <2>2. srcRet = "error" => ~BufferComes'
    BY <1>2, <2>1, MovesOf, <1>0 DEF BufferComes, IsBuffer
  <2> QED BY <1>2, <2>2, ErrorKept DEF AfterErrorComes
<1>3. CASE FlushStart \/ FlushStop
  <2>1. PICK r : Moves("seek", r)
    BY <1>0, <1>3, FlushEdges
  <2>2. UNCHANGED <<pendingItems, hist, srcRet>>
    BY <1>0, <1>3, FlushEdges
  <2> QED BY <2>1, <2>2, OtherMoves, ErrorKept
<1>4. CASE Flush
  <2>1. pendingItems' = Flushed(pendingItems) /\ pendingItems \in Seq(Item)
    BY <1>0, <1>4, FlushMoves DEF ItemTypes
  <2>2. \A n \in DOMAIN pendingItems' : ~IsBuffer(pendingItems'[n])
    BY <2>1, FlushKeepsEvents
  <2> QED BY <2>2 DEF ErrorBound, AfterErrorAt, BufferAt
<1>5. ASSUME NEW c \in Callers, AddLock(c) PROVE ErrorBound'
  <2>1. PICK r : Moves(c, r) /\ r.pc \in {"append", "push"} /\ r.item.kind = call[c].item.kind
    BY <1>0, <1>5, AddLockMoves
  <2>2. UNCHANGED <<pendingItems, srcRet>> /\ call[c].pc = "add" /\ hist'.errAt = hist.errAt
    BY <1>0, <1>5, AddLockMoves DEF ItemTypes, History
  <2>3. AfterErrorComes' => AfterErrorComes
    <3>1. CASE c = "up"
      BY <2>1, <2>2, <3>1, MovesOf DEF AfterErrorComes, BufferComes, IsBuffer
    <3>2. CASE c = "seek"
      BY <2>1, <2>2, <3>2, OtherMoves
    <3> QED BY <3>1, <3>2 DEF Callers
  <2> QED BY <2>2, <2>3, ErrorKept
<1>6. ASSUME NEW c \in Callers, AddAppend(c) PROVE ErrorBound'
  <2> DEFINE last == Len(pendingItems) + 1
  <2>1. Moves(c, Idle) /\ call[c].item \in Item /\ call[c].pc = "append" /\ UNCHANGED srcRet
        /\ pendingItems' = Append(pendingItems, call[c].item) /\ hist'.errAt = hist.errAt
    BY <1>0, <1>6, AppendMoves DEF LeftBehind, ItemTypes, History
  <2>2. /\ Len(pendingItems) \in Nat /\ DOMAIN pendingItems = 1..Len(pendingItems)
        /\ DOMAIN pendingItems' = 1..last
        /\ \A i \in DOMAIN pendingItems : pendingItems'[i] = pendingItems[i]
        /\ pendingItems'[last] = call[c].item
    BY <2>1, AppendItem DEF ItemTypes
  <2>3. \A i \in DOMAIN pendingItems' : i \in DOMAIN pendingItems \/ i = last
    BY <2>2
  <2> HIDE DEF last
  <2>4. CASE c = "up"
    <3>1. ~AfterErrorComes'
      BY <1>0, <2>1, <2>4, MovesOf DEF AfterErrorComes, BufferComes, Idle
    <3>2. \A i \in DOMAIN pendingItems' :
            AfterErrorAt(i)' => AfterErrorAt(i) \/ (i = last /\ AfterErrorComes)
      BY <2>1, <2>2, <2>3, <2>4 DEF AfterErrorAt, BufferAt, AfterErrorComes, BufferComes
    <3>3. \A i : AfterErrorAt(i) => i \in DOMAIN pendingItems
      BY DEF AfterErrorAt, BufferAt
    <3> QED BY <2>1, <3>1, <3>2, <3>3 DEF ErrorBound
  <2>5. CASE c = "seek"
    <3>1. ~IsBuffer(pendingItems'[last])
      BY <2>2, <2>5 DEF Roles, IsBuffer
    <3>2. \A i \in DOMAIN pendingItems' : AfterErrorAt(i)' => AfterErrorAt(i)
      BY <2>1, <2>2, <2>3, <3>1 DEF AfterErrorAt, BufferAt
    <3>3. \A i : AfterErrorAt(i) => i \in DOMAIN pendingItems
      BY DEF AfterErrorAt, BufferAt
    <3>4. AfterErrorComes' = AfterErrorComes
      BY <2>1, <2>5, OtherMoves
    <3> QED BY <2>1, <3>2, <3>3, <3>4 DEF ErrorBound
  <2> QED BY <2>4, <2>5 DEF Callers
<1>7. ASSUME NEW c \in Callers, AddPushed(c) PROVE ErrorBound'
  <2>1. Moves(c, Idle) /\ UNCHANGED <<pendingItems, srcRet>> /\ call[c].item \in Item
        /\ \E ok \in BOOLEAN : Deliver(call[c].item, ok, hist)
    BY <1>0, <1>7, PushedMoves
  <2>2. hist'.errAt = hist.errAt
    BY <2>1, Delivered DEF Item, ItemTypes
  <2>3. AfterErrorComes' => AfterErrorComes
    <3>1. CASE c = "up"
      BY <2>1, <3>1, MovesOf DEF AfterErrorComes, BufferComes, Idle
    <3>2. CASE c = "seek"
      BY <2>1, <2>2, <3>2, OtherMoves
    <3> QED BY <3>1, <3>2 DEF Callers
  <2> QED BY <2>1, <2>2, <2>3, ErrorKept
<1>8. CASE LoopTake
  <2>1. UNCHANGED <<call, hist, srcRet>>
    BY <1>8, TakeMoves
  <2>2. AfterErrorComes' = AfterErrorComes
    BY <2>1 DEF AfterErrorComes, BufferComes
  <2>3. CASE UNCHANGED pendingItems
    BY <2>1, <2>2, <2>3, ErrorKept
  <2>4. CASE pendingItems # <<>> /\ pendingItems' = Tail(pendingItems)
    <3>1. /\ DOMAIN pendingItems' = 1..Len(pendingItems) - 1
          /\ \A i \in DOMAIN pendingItems' :
               i + 1 \in DOMAIN pendingItems /\ pendingItems'[i] = pendingItems[i + 1]
      BY <2>4, TakeItem DEF ItemTypes
    <3>2. \A i \in DOMAIN pendingItems' : AfterErrorAt(i)' => AfterErrorAt(i + 1)
      BY <2>1, <3>1 DEF AfterErrorAt, BufferAt
    <3>3. \A i, j \in DOMAIN pendingItems' : i + 1 = j + 1 => i = j
      BY <3>1
    <3> QED BY <2>1, <2>2, <3>1, <3>2, <3>3 DEF ErrorBound
  <2> QED BY <1>8, <2>3, <2>4, TakeMoves
<1>9. CASE LoopProcess
  <2>1. UNCHANGED <<pendingItems, call, hist, srcRet>>
    BY <1>9, ProcessMoves
  <2> QED BY <2>1, ErrorKept DEF BufferComes, AfterErrorComes
<1>10. CASE LoopPushed
  <2>1. UNCHANGED <<pendingItems, call>> /\ hand.id \in Nat
    BY <1>10, LoopPushedMoves
  <2>2. PICK ok, h :
          /\ ok \in BOOLEAN
          /\ Deliver(hand, ok, h)
          /\ h = IF ok THEN hist ELSE [hist EXCEPT !.errAt = hist.added]
          /\ h \in History
          /\ srcRet' = IF ok THEN srcRet ELSE "error"
    BY <1>10, LoopPushedMoves
  <2>3. hist'.errAt = h.errAt
    BY <2>1, <2>2, Delivered
  <2>4. CASE ok
    BY <2>1, <2>2, <2>3, <2>4, ErrorKept DEF AfterErrorComes, BufferComes
  <2>5. CASE ~ok
    <3>1. hist'.errAt = hist.added
      BY <2>2, <2>3, <2>5 DEF ItemTypes
    <3>2. \A i \in DOMAIN pendingItems : ~(pendingItems[i].id > hist.added)
      BY NumbersAreNat DEF Numbered
    <3> QED BY <2>1, <3>1, <3>2 DEF ErrorBound, AfterErrorAt
  <2> QED BY <2>4, <2>5
<1> QED BY <1>0, <1>1, <1>2, <1>3, <1>4, <1>5, <1>6, <1>7, <1>8, <1>9, <1>10, ItemSteps

\* After the task's push failed, at most one more buffer comes into the queue, however
\* many were already in it and however often the push fails again while the task stops
\* (chain() looks at srcRet without the lock).
THEOREM AtMostOneAfterErrorTheorem == Spec => []AtMostOneAfterError
<1>1. ItemTypes /\ ErrorBound => AtMostOneAfterError
  <2> SUFFICES ASSUME ItemTypes, ErrorBound, srcRet = "error"
               PROVE  Cardinality({j \in DOMAIN pendingItems :
                        IsBuffer(pendingItems[j]) /\ pendingItems[j].id > hist.errAt}) <= 1
    BY DEF AtMostOneAfterError
  <2> DEFINE S == {j \in DOMAIN pendingItems :
                     IsBuffer(pendingItems[j]) /\ pendingItems[j].id > hist.errAt}
  <2>1. DOMAIN pendingItems = 1..Len(pendingItems) /\ Len(pendingItems) \in Int
    BY DEF ItemTypes
  <2>2. IsFiniteSet(S)
    <3>1. IsFiniteSet(DOMAIN pendingItems)
      BY <2>1, FS_Interval
    <3> QED BY <3>1, FS_Subset
  <2>3. \A j \in S : j \in DOMAIN pendingItems /\ AfterErrorAt(j)
    BY DEF AfterErrorAt, BufferAt
  <2>4. \A j, k \in S : j = k
    BY <2>3 DEF ErrorBound
  <2> QED BY <2>2, <2>4, AtMostOnePlace
<1>2. Init => ErrorBound
  BY DEF Init, ErrorBound
<1>3. Spec => []ErrorBound
  BY <1>2, ErrorNext, NumberedInvariant, RolesInvariant, ItemTypesInvariant, ControlInvariant,
     PTL DEF Spec
<1> QED BY <1>1, <1>3, ItemTypesInvariant, PTL
-----------------------------------------------------------------------------
(* The task's wait.                                                        *)

\* While the task waits nothing is in the queue, and the element is playing or the
\* change to PAUSED has not yet come to its signal.
WaitsForWork == loop = "wait" => pendingItems = <<>> /\ (playing \/ app = "pausing")

LEMMA WaitsForWorkNext ==
  ASSUME Control, ItemTypes, WaitsForWork, [Next]_vars
  PROVE  WaitsForWork'
<1> USE DEF WaitsForWork
<1>1. CASE LoopTop \/ LoopEnd \/ LoopTake \/ LoopProcess \/ LoopPushed \/ SpuriousWakeup
  <2>1. loop' # "wait"
    BY <1>1 DEF LoopTop, LoopEnd, LoopTake, LoopProcess, LoopPushed, SpuriousWakeup
  <2> QED BY <2>1
<1>2. CASE LoopWait
  BY <1>2 DEF LoopWait
<1>3. CASE ToPaused \/ ToReady \/ Play \/ StartTask \/ Pause \/ StopTask \/ Joined
  BY <1>3 DEF ToPaused, ToReady, Play, StartTask, Pause, StopTask, Joined,
              Control, ControlTypes, Phases
<1>4. CASE PauseSignal
  <2>1. loop' # "wait"
    BY <1>4 DEF PauseSignal, SignalNotEmpty
  <2> QED BY <2>1
<1>5. CASE Flush
  <2>1. UNCHANGED <<loop, playing, app>> /\ pendingItems' = Flushed(pendingItems)
    BY <1>5 DEF Flush
  <2>2. ASSUME pendingItems = <<>> PROVE Flushed(pendingItems) = <<>>
    <3>1. Kept(pendingItems) = {}
      BY <2>2 DEF Kept
    <3>2. Cardinality(Kept(pendingItems)) = 0
      BY <3>1, FS_EmptySet
    <3> QED BY <3>2 DEF Flushed
  <2> QED BY <2>1, <2>2
<1>6. ASSUME NEW c \in Callers, AddAppend(c) PROVE WaitsForWork'
  <2>1. loop' # "wait"
    BY <1>6 DEF AddAppend, SignalNotEmpty
  <2> QED BY <2>1
<1>7. ASSUME NEW c \in Callers, AddLock(c) \/ AddPushed(c) PROVE WaitsForWork'
  BY <1>7 DEF AddLock, AddPushed
<1>8. CASE Chain \/ SinkEvent \/ FlushStart \/ FlushStop
  BY <1>8 DEF Chain, SinkEvent, FlushStart, FlushStop
<1>9. CASE UNCHANGED vars
  BY <1>9 DEF vars
<1> QED BY <1>1, <1>2, <1>3, <1>4, <1>5, <1>6, <1>7, <1>8, <1>9
       DEF Next, Application, StateChange, Upstream, Calling, Loop

\* The task never sleeps through an item or through a change to PAUSED that was
\* signalled: both signals of condNotEmpty come after what they announce, so no order of
\* the threads loses one (task_loop()'s wait and the three places that signal it).
THEOREM NeverSleepsOnWork == Spec => []WaitsForWork
<1>1. Init => WaitsForWork
  BY DEF Init, WaitsForWork
<1> QED BY <1>1, WaitsForWorkNext, ItemTypesInvariant, ControlInvariant, PTL DEF Spec
=============================================================================
