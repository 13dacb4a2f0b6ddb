--------------------------- MODULE DtvSourceProofs ---------------------------
(***************************************************************************)
(* Theorems about DtvSource, for every ring, block and packet size.  The   *)
(* inductive invariant adds to TypeOK and RingConsistent what the places   *)
(* of the threads say about lent and nbytes, and that nothing has happened *)
(* to the ring before the first session's read thread begins.              *)
(***************************************************************************)
EXTENDS DtvSource, TLAPS

\* Bytes are lent and read only between the two steps that do so.
Phases ==
  /\ pc.create # "move" => lent = 0
  /\ pc.reader # "account" => nbytes = 0
  /\ writePtr + nbytes <= BufferSize
  /\ pc.ctl # "started" => pc.create = "off"
  /\ pc.ctl = "null" => pc.reader = "none"
  /\ starts = 0 => pc.ctl = "null"

\* The ring of a new element is empty.
FirstUse ==
  sound /\ (starts = 0 \/ (starts = 1 /\ pc.reader = "begin")) =>
    readPtr = 0 /\ writePtr = 0 /\ held = 0 /\ lent = 0 /\ space = BufferSize

\* The types the ring's arithmetic needs.
RingTypes ==
  /\ readPtr \in Nat /\ (pc.create # "wild" => readPtr < BufferSize)
  /\ writePtr \in 0..BufferSize - 1 /\ space \in 0..MaxSpace
  /\ lent \in 0..BufferSize /\ nbytes \in 0..BlockSize
  /\ held \in 0..2 * BufferSize /\ sound \in BOOLEAN
  /\ starts \in 0..MaxStarts
  /\ pc \in DtvPC

RingInv == RingTypes /\ Phases /\ FirstUse /\ RingConsistent

\* Whole blocks of a number of bytes are not more than these.
LEMMA WholeBlocks ==
  ASSUME NEW a \in Nat, NEW b \in Nat \ {0} PROVE (a \div b) * b \in 0..a
  OBVIOUS

\* A block that is there is a block to return.
LEMMA SomeBlock ==
  ASSUME NEW a \in Nat, NEW b \in Nat \ {0}, a >= b PROVE (a \div b) * b > 0
  OBVIOUS

\* What create() decides to return: at least a byte, and no more than it takes to
\* be available.
LEMMA TakenRange ==
  ASSUME RingTypes, readPtr < BufferSize
  PROVE  Available \in 1..BufferSize /\ Taken \in 1..Available
<1>1. Contiguous \in 0..BufferSize
  BY SizesAssumption DEF Contiguous, RingTypes
<1>2. Available \in 1..BufferSize
  BY <1>1, SizesAssumption DEF Available
<1>3. CASE Available < BlockSize
  BY <1>2, <1>3 DEF Taken
<1>4. CASE ~(Available < BlockSize)
  <2>1. Available \in Nat /\ BlockSize \in Nat \ {0} /\ Available >= BlockSize
    BY <1>2, <1>4, SizesAssumption
  <2>2. (Available \div BlockSize) * BlockSize \in 0..Available
    BY <2>1, WholeBlocks
  <2>3. (Available \div BlockSize) * BlockSize > 0
    BY <2>1, SomeBlock
  <2>4. Taken = (Available \div BlockSize) * BlockSize
    BY <1>4 DEF Taken
  <2> QED BY <1>2, <2>2, <2>3, <2>4
<1> QED BY <1>2, <1>3, <1>4

\* With different pointers, what create() takes is in the ring, before its end.
LEMMA TakenFresh ==
  ASSUME RingTypes, RingConsistent, sound, lent = 0, readPtr < BufferSize,
         readPtr # writePtr
  PROVE  Taken > 0 /\ Taken <= held /\ readPtr + Taken <= BufferSize
<1>1. Contiguous \in 1..BufferSize - readPtr /\ Contiguous <= held
  <2>1. /\ held \in 0..BufferSize
        /\ readPtr + held \in {writePtr, writePtr + BufferSize, writePtr + 2 * BufferSize}
    BY SizesAssumption DEF RingConsistent, RingTypes
  <2> QED BY <2>1, SizesAssumption DEF Contiguous, RingTypes
<1>2. Available = Contiguous
  BY <1>1, SizesAssumption DEF Available, RingTypes
<1> QED BY <1>1, <1>2, TakenRange, SizesAssumption DEF RingTypes

-----------------------------------------------------------------------------
\* A new element satisfies RingInv.
LEMMA RingInit == Init => RingInv
<1> SUFFICES ASSUME Init PROVE RingInv
  OBVIOUS
<1> USE SizesAssumption, DtvBoundsAssumption DEF Init
<1>1. RingTypes
  BY DEF RingTypes, DtvPC
<1>2. Phases /\ FirstUse
  BY DEF Phases, FirstUse
<1>3. RingConsistent
  BY DEF RingConsistent
<1> QED BY <1>1, <1>2, <1>3 DEF RingInv

\* A signal for create() changes create()'s place at most.
LEMMA SignalDataEffect ==
  ASSUME NEW p \in DtvPC
  PROVE  /\ SignalData(p) \in DtvPC
         /\ SignalData(p).reader = p.reader /\ SignalData(p).ctl = p.ctl
         /\ SignalData(p).create # p.create =>
              p.create = "wait" /\ SignalData(p).create = "woken"
  BY DEF SignalData, DtvPC

\* Steps that leave the ring alone and keep the threads' phases keep RingInv.
LEMMA RingKept ==
  ASSUME RingInv, UNCHANGED <<ring, held, sound, starts, lent, nbytes>>, pc' \in DtvPC,
         pc'.create = "move" <=> pc.create = "move",
         pc'.create = "wild" <=> pc.create = "wild",
         pc'.reader # "account" => nbytes = 0,
         pc'.reader = "begin" => pc.reader = "begin",
         pc'.ctl # "started" => pc'.create = "off",
         pc'.ctl = "null" => pc'.reader = "none",
         starts = 0 => pc'.ctl = "null"
  PROVE  RingInv'
<1> USE SizesAssumption
<1>1. RingTypes'
  BY DEF RingInv, RingTypes, ring
<1>2. Phases'
  BY DEF RingInv, Phases, ring
<1>3. FirstUse'
  BY DEF RingInv, FirstUse, ring
<1>4. RingConsistent'
  BY DEF RingInv, RingConsistent, ring
<1> QED BY <1>1, <1>2, <1>3, <1>4 DEF RingInv

\* The application and stop() keep RingInv.
LEMMA RingApplication == RingInv /\ (Application \/ StopJoin) => RingInv'
<1> USE SizesAssumption
<1>1. ASSUME RingInv,
             \/ (\E s \in Services : SetService(s)) \/ (\E p \in Pids : SetPmtPid(p))
             \/ AnnouncePmtPid
      PROVE  RingInv'
  <2>1. UNCHANGED <<ring, held, sound, starts, lent, nbytes, pc>>
    BY <1>1 DEF SetService, SetPmtPid, AnnouncePmtPid, history
  <2> QED BY <1>1, <2>1, RingKept DEF RingInv, RingTypes, Phases
<1>2. ASSUME RingInv, Start PROVE RingInv'
  <2>1. /\ UNCHANGED <<readPtr, writePtr, space, held, sound, lent, nbytes>>
        /\ starts' = starts + 1 /\ starts < MaxStarts
        /\ pc.ctl = "null"
        /\ pc' = [ctl |-> "started", create |-> "idle", reader |-> "begin"]
    BY <1>2 DEF Start, ring, history
  <2>2. pc.create = "off" /\ pc.reader = "none"
    BY <1>2 DEF Start, RingInv, Phases
  <2>3. RingTypes'
    BY <1>2, <2>1, <2>2, DtvBoundsAssumption DEF RingInv, RingTypes, DtvPC
  <2>4. Phases'
    BY <1>2, <2>1, <2>2 DEF RingInv, RingTypes, Phases
  <2>5. FirstUse' /\ RingConsistent'
    BY <1>2, <2>1, <2>2 DEF RingInv, RingTypes, Phases, FirstUse, RingConsistent
  <2> QED BY <2>3, <2>4, <2>5 DEF RingInv
<1>3. ASSUME RingInv, StopRequest PROVE RingInv'
  <2>1. /\ UNCHANGED <<ring, held, sound, starts, lent, nbytes>>
        /\ pc.create = "idle" /\ pc \in DtvPC
        /\ pc' = [pc EXCEPT !.ctl = "stopping", !.create = "off"]
    BY <1>3 DEF StopRequest, history, RingInv, RingTypes
  <2>2. pc' \in DtvPC /\ pc'.create = "off" /\ pc'.reader = pc.reader
        /\ pc'.ctl = "stopping"
    BY <2>1 DEF DtvPC
  <2> QED BY <1>3, <2>1, <2>2, RingKept DEF RingInv, Phases
<1>4. ASSUME RingInv, StopJoin PROVE RingInv'
  <2>1. /\ UNCHANGED <<ring, held, sound, starts, lent, nbytes>>
        /\ pc.reader = "done" /\ pc \in DtvPC
        /\ pc' = [pc EXCEPT !.ctl = "null", !.reader = "none"]
    BY <1>4 DEF StopJoin, history, RingInv, RingTypes
  <2>2. pc' \in DtvPC /\ pc'.create = pc.create /\ pc'.reader = "none"
        /\ pc.ctl # "started"
    BY <1>4, <2>1 DEF DtvPC, StopJoin
  <2> QED BY <1>4, <2>1, <2>2, RingKept DEF RingInv, Phases
<1> QED BY <1>1, <1>2, <1>3, <1>4 DEF Application

\* create() keeps RingInv: the space it gives back is that of bytes it is about to
\* return.
LEMMA RingCreate == RingInv /\ Create => RingInv'
<1> USE SizesAssumption
<1>1. ASSUME RingInv, CreateWait \/ CreateTimeout PROVE RingInv'
  <2>1. /\ UNCHANGED <<ring, held, sound, starts, lent, nbytes>>
        /\ pc.create \in {"idle", "wait"} /\ pc \in DtvPC
        /\ \/ pc' = [pc EXCEPT !.create = "wait"]
           \/ pc' = [pc EXCEPT !.create = "idle"]
    BY <1>1 DEF CreateWait, CreateTimeout, history, RingInv, RingTypes
  <2>2. pc' \in DtvPC /\ pc'.create \in {"idle", "wait"} /\ pc'.reader = pc.reader
        /\ pc'.ctl = pc.ctl
    BY <2>1 DEF DtvPC
  <2> QED BY <1>1, <2>1, <2>2, RingKept DEF RingInv, Phases
<1>2. ASSUME RingInv, CreateTake PROVE RingInv'
  <2>1. /\ pc.create = "woken" /\ space + Taken <= MaxSpace
        /\ lent' = Taken /\ space' = space + Taken
        /\ sound' \in BOOLEAN
        /\ sound' => sound /\ Taken <= held /\ readPtr + Taken <= BufferSize /\ held' = held
        /\ ~sound' => held' = 0
        /\ UNCHANGED <<readPtr, writePtr, nbytes, starts>>
        /\ pc' = [pc EXCEPT !.create = "move"] /\ pc \in DtvPC
        /\ lent = 0 /\ readPtr < BufferSize
    <3>1. sound' = (sound /\ Taken <= held /\ readPtr + Taken <= BufferSize)
      BY <1>2 DEF CreateTake, Record
    <3>2. held' = IF sound' THEN held + 0 ELSE 0
      BY <1>2 DEF CreateTake, Record
    <3>3. held + 0 = held
      BY <1>2 DEF RingInv, RingTypes
    <3> QED BY <1>2, <3>1, <3>2, <3>3 DEF CreateTake, RingInv, RingTypes, Phases
  <2>2. pc' \in DtvPC /\ pc'.create = "move" /\ pc'.reader = pc.reader
        /\ pc'.ctl = pc.ctl
    BY <2>1 DEF DtvPC
  <2>3. Taken \in 1..BufferSize
    BY <1>2, <2>1, TakenRange DEF RingInv
  <2>4. RingTypes'
    BY <1>2, <2>1, <2>2, <2>3, DtvBoundsAssumption DEF RingInv, RingTypes
  <2>5. Phases'
    BY <1>2, <2>1, <2>2 DEF RingInv, Phases
  <2>6. FirstUse'
    BY <1>2, <2>1, <2>2, <2>3 DEF RingInv, FirstUse
  <2>7. RingConsistent'
    BY <1>2, <2>1, <2>2, <2>3 DEF RingInv, RingTypes, RingConsistent
  <2> QED BY <2>4, <2>5, <2>6, <2>7 DEF RingInv
<1>3. ASSUME RingInv, CreateMove PROVE RingInv'
  <2>1. /\ pc.create = "move"
        /\ readPtr' = Wrap(readPtr + lent) /\ lent' = 0
        /\ sound' = sound
        /\ held' = IF sound THEN held - lent ELSE 0
        /\ UNCHANGED <<writePtr, space, nbytes, starts>>
        /\ pc' = [pc EXCEPT !.create = IF readPtr' > BufferSize THEN "wild" ELSE "idle"]
        /\ pc \in DtvPC /\ readPtr < BufferSize
    BY <1>3 DEF CreateMove, Record, RingInv, RingTypes
  <2>2. /\ pc' \in DtvPC /\ pc'.reader = pc.reader /\ pc'.create # "move" /\ pc'.ctl = pc.ctl
        /\ pc'.create # "wild" => ~(readPtr' > BufferSize)
    BY <2>1 DEF DtvPC
  <2>3. readPtr' \in Nat /\ readPtr' # BufferSize
    BY <1>3, <2>1 DEF RingInv, RingTypes, Wrap
  <2>4. sound => held - lent \in 0..BufferSize
    BY <1>3 DEF RingInv, RingConsistent
  <2>5. RingTypes'
    BY <1>3, <2>1, <2>2, <2>3, <2>4 DEF RingInv, RingTypes
  <2>6. Phases'
    BY <1>3, <2>1, <2>2 DEF RingInv, Phases
  <2>7. FirstUse'
    BY <1>3, <2>1, <2>2 DEF RingInv, RingTypes, FirstUse, Wrap, DtvPC
  <2>8. RingConsistent'
    BY <1>3, <2>1, <2>2 DEF RingInv, RingTypes, RingConsistent, Wrap
  <2> QED BY <2>5, <2>6, <2>7, <2>8 DEF RingInv
<1> QED BY <1>1, <1>2, <1>3 DEF Create

\* The read thread's steps outside the ring: its tests, and the creation of a PAT.
Elsewhere ==
  \/ ReaderLoop \/ ReaderUpdated \/ ReaderCreatePat \/ ReaderPatMade \/ ReaderKnown
  \/ ReaderUsed

Places == {"loop", "updated", "patWanted", "patMade", "known", "used", "signal"}

\* These steps leave the ring alone and end in one of these places, or at the driver's
\* read or the end of the thread.
LEMMA ElsewhereEffect ==
  ASSUME Elsewhere
  PROVE  /\ UNCHANGED <<ring, held, sound, starts, lent, nbytes>>
         /\ pc.reader \in Places
         /\ pc' \in {[pc EXCEPT !.reader = r] : r \in Places \cup {"done", "read"}}
<1> USE DEF history, Places
<1>1. CASE ReaderLoop
  BY <1>1 DEF ReaderLoop, ReaderGoesTo
<1>2. CASE ReaderUpdated
  BY <1>2 DEF ReaderUpdated, ReaderGoesTo
<1>3. CASE ReaderCreatePat \/ ReaderPatMade
  BY <1>3 DEF ReaderCreatePat, ReaderPatMade
<1>4. CASE ReaderKnown
  BY <1>4 DEF ReaderKnown, ReaderGoesTo
<1>5. CASE ReaderUsed
  BY <1>5 DEF ReaderUsed, ReaderGoesTo
<1> QED BY <1>1, <1>2, <1>3, <1>4, <1>5 DEF Elsewhere

\* The read thread keeps RingInv: what it adds had room.
LEMMA RingReader == RingInv /\ Reader => RingInv'
<1> USE SizesAssumption
<1>1. ASSUME RingInv, ReaderBegin PROVE RingInv'
  <2>1. /\ pc.reader = "begin"
        /\ readPtr' = 0 /\ writePtr' = 0
        /\ sound' \in BOOLEAN /\ (sound' => sound /\ lent = 0)
        /\ held' = 0
        /\ UNCHANGED <<space, lent, nbytes, starts>>
        /\ pc' = [pc EXCEPT !.reader = "loop"] /\ pc \in DtvPC
    <3>1. held' = IF sound /\ lent = 0 THEN held + (-held) ELSE 0
      BY <1>1 DEF ReaderBegin, Record
    <3>2. held' = 0
      BY <1>1, <3>1 DEF RingInv, RingTypes
    <3> QED BY <1>1, <3>2 DEF ReaderBegin, Record, RingInv, RingTypes
  <2>2. pc' \in DtvPC /\ pc'.reader = "loop" /\ pc'.create = pc.create
        /\ pc'.ctl = pc.ctl
    BY <2>1 DEF DtvPC
  <2>3. RingTypes'
    BY <1>1, <2>1, <2>2 DEF RingInv, RingTypes
  <2>4. Phases'
    BY <1>1, <2>1, <2>2 DEF RingInv, RingTypes, Phases
  <2>5. FirstUse'
    BY <1>1, <2>1, <2>2 DEF RingInv, RingTypes, FirstUse
  <2>6. RingConsistent'
    BY <1>1, <2>1, <2>2 DEF RingInv, RingTypes, RingConsistent, FirstUse
  <2> QED BY <2>3, <2>4, <2>5, <2>6 DEF RingInv
<1>2. ASSUME RingInv, Elsewhere PROVE RingInv'
  <2>1. /\ UNCHANGED <<ring, held, sound, starts, lent, nbytes>>
        /\ pc.reader \in Places /\ pc \in DtvPC
        /\ pc' \in {[pc EXCEPT !.reader = r] : r \in Places \cup {"done", "read"}}
    BY <1>2, ElsewhereEffect DEF RingInv, RingTypes
  <2>2. /\ pc' \in DtvPC /\ pc'.reader \in Places \cup {"done", "read"}
        /\ pc'.create = pc.create /\ pc'.ctl = pc.ctl
    BY <2>1 DEF DtvPC, Places
  <2> QED BY <1>2, <2>1, <2>2, RingKept DEF RingInv, Phases, Places
<1>5. ASSUME RingInv, ReaderSignal PROVE RingInv'
  <2> DEFINE back == [pc EXCEPT !.reader = "loop"]
  <2>1. /\ UNCHANGED <<ring, held, sound, starts, lent, nbytes>>
        /\ pc.reader = "signal" /\ pc \in DtvPC /\ pc' = SignalData(back)
    BY <1>5 DEF ReaderSignal, history, RingInv, RingTypes
  <2>2. back \in DtvPC /\ back.reader = "loop" /\ back.create = pc.create
        /\ back.ctl = pc.ctl
    BY <2>1 DEF DtvPC
  <2> HIDE DEF back
  <2>3. /\ pc' \in DtvPC /\ pc'.reader = "loop" /\ pc'.ctl = pc.ctl
        /\ pc'.create = pc.create \/ (pc.create = "wait" /\ pc'.create = "woken")
    BY <2>1, <2>2, SignalDataEffect
  <2> QED BY <1>5, <2>1, <2>3, RingKept DEF RingInv, Phases
<1>3. ASSUME NEW n \in 0..BlockSize, RingInv, ReaderRead(n) PROVE RingInv'
  <2>1. /\ UNCHANGED <<readPtr, writePtr, space, held, sound, starts, lent>>
        /\ pc.reader = "read" /\ pc \in DtvPC
        /\ writePtr + n <= BufferSize /\ nbytes' = n
        /\ pc' = [pc EXCEPT !.reader = IF n > 0 THEN "account" ELSE "loop"]
    BY <1>3 DEF ReaderRead, ring, history, RingInv, RingTypes
  <2>2. /\ pc' \in DtvPC /\ pc'.reader = (IF n > 0 THEN "account" ELSE "loop")
        /\ pc'.create = pc.create /\ pc'.ctl = pc.ctl
    BY <2>1 DEF DtvPC
  <2>3. RingTypes'
    BY <1>3, <2>1, <2>2 DEF RingInv, RingTypes
  <2>4. Phases'
    BY <1>3, <2>1, <2>2 DEF RingInv, Phases
  <2>5. FirstUse' /\ RingConsistent'
    BY <1>3, <2>1, <2>2 DEF RingInv, FirstUse, RingConsistent
  <2> QED BY <2>3, <2>4, <2>5 DEF RingInv
<1>4. ASSUME RingInv, ReaderAccount PROVE RingInv'
  <2> DEFINE overflow == space < nbytes
             left == IF overflow THEN 0 ELSE space - nbytes
             next == Wrap(writePtr + nbytes)
  <2>1. PICK added \in {0, PacketSize} :
          /\ added > 0 => left >= PacketSize /\ BufferSize - next >= PacketSize
          /\ space' = left - added
          /\ writePtr' = (IF added > 0 THEN Wrap(next + PacketSize) ELSE next)
          /\ sound' \in BOOLEAN
          /\ sound' => sound /\ ~overflow /\ held' = held + nbytes + added
          /\ ~sound' => held' = 0
    <3>1. PICK w \in BOOLEAN, d \in BOOLEAN :
           IF w /\ nbytes >= 2 * PacketSize /\ d /\ HasRoom(left, next)
             THEN /\ space' = left - PacketSize
                  /\ writePtr' = Wrap(next + PacketSize)
                  /\ Record(~overflow, nbytes + PacketSize)
             ELSE /\ space' = left
                  /\ writePtr' = next
                  /\ Record(~overflow, nbytes)
      BY <1>4 DEF ReaderAccount
    <3>2. left \in Nat /\ held \in Nat /\ nbytes \in Nat
      BY <1>4 DEF RingInv, RingTypes
    <3>3. CASE /\ HasRoom(left, next) /\ space' = left - PacketSize
               /\ writePtr' = Wrap(next + PacketSize)
               /\ Record(~overflow, nbytes + PacketSize)
      <4>1. /\ sound' = (sound /\ ~overflow)
            /\ held' = IF sound /\ ~overflow THEN held + (nbytes + PacketSize) ELSE 0
        BY <3>3 DEF Record
      <4>2. held + (nbytes + PacketSize) = held + nbytes + PacketSize
        BY <3>2
      <4>3. PacketSize > 0
        OBVIOUS
      <4> HIDE DEF left, next, overflow
      <4> WITNESS PacketSize \in {0, PacketSize}
      <4> QED BY <3>3, <4>1, <4>2, <4>3 DEF HasRoom
    <3>4. CASE /\ space' = left /\ writePtr' = next
               /\ Record(~overflow, nbytes)
      <4>1. /\ sound' = (sound /\ ~overflow)
            /\ held' = IF sound /\ ~overflow THEN held + nbytes ELSE 0
        BY <3>4 DEF Record
      <4>2. held + nbytes = held + nbytes + 0 /\ left - 0 = left
        BY <3>2
      <4>3. ~(0 > 0)
        OBVIOUS
      <4>4. space' = left - 0 /\ writePtr' = (IF 0 > 0 THEN Wrap(next + PacketSize) ELSE next)
        BY <3>4, <4>2, <4>3
      <4>5. sound' \in BOOLEAN /\ (sound' => sound /\ ~overflow)
        BY <4>1
      <4>6. sound' => held' = held + nbytes + 0
        BY <4>1, <4>2
      <4>7. ~sound' => held' = 0
        BY <4>1
      <4> HIDE DEF left, next, overflow
      <4> WITNESS 0 \in {0, PacketSize}
      <4> QED BY <4>3, <4>4, <4>5, <4>6, <4>7, Zenon
    <3> HIDE DEF left, next, overflow
    <3> QED BY <3>1, <3>3, <3>4
  <2>2. /\ UNCHANGED <<readPtr, lent, starts>> /\ nbytes' = 0
        /\ pc.reader = "account" /\ pc \in DtvPC
        /\ pc' = [pc EXCEPT !.reader = "used"]
    BY <1>4 DEF ReaderAccount, RingInv, RingTypes
  <2>3. pc' \in DtvPC /\ pc'.reader = "used" /\ pc'.create = pc.create
        /\ pc'.ctl = pc.ctl
    BY <2>2 DEF DtvPC
  <2>4. writePtr' \in 0..BufferSize - 1
    BY <1>4, <2>1 DEF RingInv, RingTypes, Phases, Wrap
  <2>5. sound' =>
          /\ held' - lent \in 0..BufferSize
          /\ space' + (held' - lent) = space + (held - lent)
    BY <1>4, <2>1 DEF RingInv, RingTypes, RingConsistent
  <2>6. sound' =>
          readPtr + held' \in {writePtr', writePtr' + BufferSize, writePtr' + 2 * BufferSize}
    BY <1>4, <2>1, <2>5 DEF RingInv, RingTypes, RingConsistent, Phases, Wrap
  <2>7. RingTypes'
    BY <1>4, <2>1, <2>2, <2>3, <2>4, <2>5, DtvBoundsAssumption DEF RingInv, RingTypes
  <2>8. Phases'
    BY <1>4, <2>2, <2>3, <2>4 DEF RingInv, Phases
  <2>9. FirstUse'
    BY <1>4, <2>1, <2>2, <2>3 DEF RingInv, RingTypes, FirstUse, Phases
  <2>10. RingConsistent'
    BY <1>4, <2>1, <2>2, <2>3, <2>5, <2>6 DEF RingInv, RingTypes, RingConsistent
  <2> QED BY <2>7, <2>8, <2>9, <2>10 DEF RingInv
<1> QED BY <1>1, <1>2, <1>3, <1>4, <1>5 DEF Reader, Elsewhere

\* Every step keeps RingInv.
LEMMA RingNext == RingInv /\ [Next]_vars => RingInv'
<1>1. ASSUME RingInv, SpuriousWakeup PROVE RingInv'
  <2>1. /\ UNCHANGED <<ring, held, sound, starts, lent, nbytes>>
        /\ pc \in DtvPC /\ pc' = SignalData(pc)
    BY <1>1 DEF SpuriousWakeup, history, RingInv, RingTypes
  <2>2. /\ pc' \in DtvPC /\ pc'.reader = pc.reader /\ pc'.ctl = pc.ctl
        /\ pc'.create # pc.create => pc.create = "wait" /\ pc'.create = "woken"
    BY <2>1, SignalDataEffect
  <2> QED BY <1>1, <2>1, <2>2, RingKept DEF RingInv, Phases
<1>2. ASSUME RingInv, UNCHANGED vars PROVE RingInv'
  <2>1. UNCHANGED <<ring, held, sound, starts, lent, nbytes, pc>>
    BY <1>2 DEF vars, history
  <2> QED BY <1>2, <2>1, RingKept DEF RingInv, RingTypes, Phases
<1> QED BY <1>1, <1>2, RingApplication, RingCreate, RingReader DEF Next

\* In every reachable state the ring, what was lent of it, and the places of the
\* threads fit together.
THEOREM RingInvariant == Spec => []RingInv
BY RingInit, RingNext, PTL DEF Spec

\* The bookkeeping of the ring (read_ptr, write_ptr and space_in_buffer) agrees
\* with the bytes that came in and were not returned, until it overflows or an
\* exactly full ring is misread.
THEOREM RingBookkeeping == Spec => []RingConsistent
<1>1. RingInv => RingConsistent
  BY DEF RingInv
<1> QED BY <1>1, RingInvariant, PTL

\* Whenever the pointers differ, create() returns bytes that came in and were not
\* returned before, none of them past the end of the ring.
THEOREM TakesFresh == Spec => TakesOnlyFresh
<1> DEFINE Fresh ==
      pc.create = "woken" /\ pc'.create = "move" /\ sound /\ readPtr # writePtr
      => lent' > 0 /\ lent' <= held /\ readPtr + lent' <= BufferSize
<1>1. ASSUME RingInv, [Next]_vars PROVE [Fresh]_vars
  <2> SUFFICES ASSUME Next, pc.create = "woken", pc'.create = "move", sound,
                      readPtr # writePtr
               PROVE  lent' > 0 /\ lent' <= held /\ readPtr + lent' <= BufferSize
    BY <1>1
  <2>1. pc \in DtvPC
    BY <1>1 DEF RingInv, RingTypes
  <2>2. CreateTake
    <3>1. ASSUME Application \/ StopJoin PROVE FALSE
      <4>1. CASE \/ (\E s \in Services : SetService(s)) \/ (\E p \in Pids : SetPmtPid(p))
                 \/ AnnouncePmtPid
        BY <4>1 DEF SetService, SetPmtPid, AnnouncePmtPid
      <4>2. CASE Start
        BY <4>2 DEF Start
      <4>3. CASE StopRequest \/ StopJoin
        BY <4>3, <2>1 DEF StopRequest, StopJoin, DtvPC
      <4> QED BY <3>1, <4>1, <4>2, <4>3 DEF Application
    <3>2. ASSUME CreateWait \/ CreateTimeout \/ CreateMove PROVE FALSE
      BY <3>2 DEF CreateWait, CreateTimeout, CreateMove
    <3>3. ASSUME ReaderBegin \/ ReaderAccount PROVE FALSE
      BY <3>3, <2>1 DEF ReaderBegin, ReaderAccount, DtvPC
    <3>6. ASSUME Elsewhere PROVE FALSE
      BY <3>6, <2>1, ElsewhereEffect DEF DtvPC
    <3>4. ASSUME \E n \in 0..BlockSize : ReaderRead(n) PROVE FALSE
      BY <3>4, <2>1 DEF ReaderRead, DtvPC
    <3>5. ASSUME ReaderSignal \/ SpuriousWakeup PROVE FALSE
      BY <3>5, <2>1 DEF ReaderSignal, SpuriousWakeup, SignalData, DtvPC
    <3> QED BY <3>1, <3>2, <3>3, <3>4, <3>5, <3>6 DEF Next, Create, Reader, Elsewhere
  <2>3. lent' = Taken
    BY <2>2 DEF CreateTake
  <2>4. lent = 0 /\ readPtr < BufferSize
    BY <1>1 DEF RingInv, RingTypes, Phases
  <2> QED BY <1>1, <2>3, <2>4, TakenFresh DEF RingInv
<1>2. [Next]_vars /\ RingInv => [Fresh]_vars
  BY <1>1
<1> QED BY <1>2, RingInvariant, PTL DEF Spec, TakesOnlyFresh

\* What is not the ring: the ids, the PAT and the flags.
PsiTypes ==
  /\ service \in Services \cup {Invalid} /\ pmtPid \in Pids \cup {Invalid}
  /\ pmtUpdated \in BOOLEAN /\ pat \in (Services \X Pids) \cup {Blank}
  /\ setter \in {"idle", "announce"} /\ missed \in BOOLEAN
  /\ stopThread \in BOOLEAN

\* A PAT is made only when both ids are known, and only a PAT that was made is noted.
PatInHand ==
  /\ pc.reader = "patWanted" => IdsKnown
  /\ pc.reader = "patMade" => pat # Blank

\* Every step keeps these types: a PAT is made from ids that have been set.
LEMMA PsiNext ==
  ASSUME PsiTypes, pc \in DtvPC, PatInHand, [Next]_vars PROVE PsiTypes'
<1> USE DEF PsiTypes
<1>1. CASE UNCHANGED <<psi, stopThread>>
  BY <1>1 DEF psi
<1>2. CASE Application
  BY <1>2 DEF Application, SetService, SetPmtPid, AnnouncePmtPid, Start, StopRequest, psi
<1>3. CASE StopJoin \/ Create \/ SpuriousWakeup \/ UNCHANGED vars
  BY <1>1, <1>3 DEF StopJoin, Create, CreateWait, CreateTimeout, CreateTake, CreateMove,
     SpuriousWakeup, vars, psi
<1>4. CASE ReaderLoop \/ ReaderUpdated \/ ReaderKnown \/ ReaderUsed
  BY <1>1, <1>4 DEF ReaderLoop, ReaderUpdated, ReaderKnown, ReaderUsed, ReaderGoesTo
<1>5. CASE ReaderPatMade
  BY <1>5 DEF ReaderPatMade
<1>6. CASE ReaderBegin \/ (\E n \in 0..BlockSize : ReaderRead(n)) \/ ReaderAccount \/ ReaderSignal
  BY <1>1, <1>6 DEF ReaderBegin, ReaderRead, ReaderAccount, ReaderSignal, psi
<1>7. CASE ReaderCreatePat
  BY <1>7 DEF ReaderCreatePat, PatInHand, IdsKnown
<1> QED BY <1>2, <1>3, <1>4, <1>5, <1>6, <1>7 DEF Next, Reader

-----------------------------------------------------------------------------
(* The PAT.                                                                *)

\* Every step keeps PatInHand and PatOwed: what creates the PAT uses the ids as they
\* are, and pmt_updated is cleared only behind a PAT.
LEMMA PatNext ==
  ASSUME PsiTypes, pc \in DtvPC, PatInHand, PatOwed, [Next]_vars
  PROVE  PatInHand' /\ PatOwed'
<1> USE DEF PsiTypes, PatInHand, PatOwed, IdsKnown
<1>1. ASSUME UNCHANGED psi,
             pc'.reader \in {"patWanted", "patMade"} =>
               pc'.reader = pc.reader \/ (pc'.reader = "patWanted" /\ IdsKnown)
      PROVE  PatInHand' /\ PatOwed'
  BY <1>1 DEF psi
<1>2. CASE (\E s \in Services : SetService(s)) \/ (\E p \in Pids : SetPmtPid(p))
  BY <1>2, IdsAssumption DEF SetService, SetPmtPid
<1>3. CASE AnnouncePmtPid
  BY <1>3 DEF AnnouncePmtPid
<1>4. CASE Start \/ StopRequest \/ StopJoin
  <2>1. UNCHANGED psi
    BY <1>4 DEF Start, StopRequest, StopJoin
  <2>2. CASE Start
    BY <1>1, <2>1, <2>2 DEF Start
  <2>3. CASE StopRequest
    BY <1>1, <2>1, <2>3 DEF StopRequest, DtvPC
  <2>4. CASE StopJoin
    BY <1>1, <2>1, <2>4 DEF StopJoin, DtvPC
  <2>5. QED
    BY <1>4, <2>2, <2>3, <2>4
<1>5. CASE Create
  BY <1>1, <1>5 DEF Create, CreateWait, CreateTimeout, CreateTake, CreateMove, psi, DtvPC
<1>6. CASE ReaderLoop \/ ReaderUpdated \/ ReaderKnown \/ ReaderUsed
  BY <1>1, <1>6 DEF ReaderLoop, ReaderUpdated, ReaderKnown, ReaderUsed, ReaderGoesTo, DtvPC
<1>7. CASE ReaderCreatePat
  <2>1. pat' = <<service, pmtPid>> /\ pat' \in Services \X Pids
    BY <1>7 DEF ReaderCreatePat
  <2>2. pat' # Blank /\ pat'[2] = pmtPid
    BY <2>1, IdsAssumption
  <2>3. pmtPid' = pmtPid /\ pc'.reader = "patMade"
    BY <1>7 DEF ReaderCreatePat, DtvPC
  <2>4. QED
    BY <2>2, <2>3
<1>8. CASE ReaderPatMade
  <2>1. pat # Blank /\ pc'.reader = "known" /\ UNCHANGED <<pat, pmtPid, setter>>
        /\ missed' = (setter = "idle" /\ pat[2] # pmtPid)
    BY <1>8 DEF ReaderPatMade, DtvPC
  <2>2. QED
    BY <2>1
<1>9. CASE ReaderBegin \/ ReaderAccount \/ (\E n \in 0..BlockSize : ReaderRead(n))
  BY <1>1, <1>9 DEF ReaderBegin, ReaderAccount, ReaderRead, psi, DtvPC
<1>10. CASE ReaderSignal \/ SpuriousWakeup
  <2>1. \A p \in DtvPC : SignalData(p).reader = p.reader
    BY SignalDataEffect
  <2>2. [pc EXCEPT !.reader = "loop"] \in DtvPC
    BY DEF DtvPC
  <2>3. pc'.reader \in {pc.reader, "loop"} /\ UNCHANGED psi
    BY <1>10, <2>1, <2>2 DEF ReaderSignal, SpuriousWakeup, DtvPC
  <2>4. QED
    BY <1>1, <2>3
<1>11. CASE UNCHANGED vars
  BY <1>1, <1>11 DEF vars
<1>12. QED
  BY <1>2, <1>3, <1>4, <1>5, <1>6, <1>7, <1>8, <1>9, <1>10, <1>11
     DEF Next, Application, Reader

\* In every reachable state the ids, the PAT and the flags fit together.
LEMMA PsiInvariant == Spec => [](PsiTypes /\ PatInHand /\ PatOwed)
<1>1. Init => PsiTypes /\ PatInHand /\ PatOwed
  <2>1. Init => pc.reader = "none" /\ pmtPid = Invalid
    BY DEF Init
  <2>2. Init => PsiTypes
    BY DEF Init, PsiTypes
  <2>3. QED
    BY <2>1, <2>2 DEF PatInHand, PatOwed
<1>2. RingInv => pc \in DtvPC
  BY DEF RingInv, RingTypes
<1>3. RingInv /\ PsiTypes /\ PatInHand /\ PatOwed /\ [Next]_vars
      => (PsiTypes /\ PatInHand /\ PatOwed)'
  BY <1>2, PsiNext, PatNext
<1> QED BY <1>1, <1>3, RingInvariant, PTL DEF Spec

\* The variables stay in their domains, and both pointers inside the ring until
\* create() has returned bytes past its end.
THEOREM TypeCorrect == Spec => []TypeOK
<1>1. RingInv /\ PsiTypes => TypeOK
  BY DEF RingInv, RingTypes, PsiTypes, TypeOK
<1> QED BY <1>1, RingInvariant, PsiInvariant, PTL

\* A PAT that is blank or has another PMT PID than the one that is set is due, but for
\* a PID announced between the creation of a PAT and the note of it (the two stores of
\* set_property(), the read thread's two tests, the creation of the PAT and the
\* clearing of pmt_updated, each a step of its own).
THEOREM PatOwedTheorem == Spec => []PatOwed
BY PsiInvariant, PTL
=============================================================================
