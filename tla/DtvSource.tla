------------------------------ MODULE DtvSource ------------------------------
(***************************************************************************)
(* The dtvsource element (src/dtvsource/gstdtvsource.c): a read thread     *)
(* copies the transport stream of a tuner into a ring buffer and adds a    *)
(* PAT of its own from time to time; create(), on the streaming thread,    *)
(* hands whole blocks of the ring downstream without copying them.         *)
(*                                                                         *)
(* The driver writes into the ring outside the mutex, the pointers are     *)
(* reset outside it, and create() gives the space of a block back before   *)
(* it moves read_ptr: these are steps of their own, and so is every test   *)
(* and store of the ids and flags the application and the read thread      *)
(* share without a lock.  Pointers count from buffer_start.  A pointer     *)
(* that leaves the ring ends the model of create() (the place "wild"):     *)
(* what it does then is undefined.                                         *)
(***************************************************************************)
EXTENDS Integers

CONSTANTS
  BufferSize,   \* SPTS_BUFFER_SIZE, in bytes
  BlockSize,    \* the base class's blocksize
  PacketSize,   \* TSPKT_SIZE
  Services,     \* the service ids the application may set
  Pids,         \* the PMT PIDs it may set
  Invalid,      \* INVALID_PID, INVALID_DVB_ID
  Blank,        \* current_pat before a PAT has been created
  Spurious,     \* whether the run considers spurious wakeups
  MaxStarts,    \* bound on start() calls
  MaxSpace      \* bound on a space_in_buffer that has gone wrong

ASSUME SizesAssumption ==
  /\ BufferSize \in Nat \ {0}
  /\ BlockSize \in 1..BufferSize
  /\ PacketSize \in 1..BufferSize
ASSUME IdsAssumption == Invalid \notin Services \cup Pids /\ Blank \notin Services \X Pids
ASSUME DtvBoundsAssumption ==
  Spurious \in BOOLEAN /\ MaxStarts \in Nat /\ MaxSpace \in Nat /\ MaxSpace >= BufferSize

VARIABLES
  readPtr, writePtr,      \* read_ptr, write_ptr
  space,                  \* space_in_buffer
  service, pmtPid,        \* service_id, pmt_pid
  pmtUpdated,             \* pmt_updated
  pat,                    \* what current_pat says
  setter,                 \* set_property(): idle, or pmt_pid stored and pmt_updated not
  stopThread,             \* stop_thread
  lent,                   \* create(): bytes taken, read_ptr not yet moved
  nbytes,                 \* read thread: what the driver wrote at write_ptr
  pc,                     \* where the application and the two threads are
  held,                   \* history: bytes in the ring that are not returned yet
  sound,                  \* history: no overflow, no read past what is there
  missed,                 \* history: pmt_updated was cleared after the PID had changed again
  starts                  \* bounded counter

ring == <<readPtr, writePtr, space>>
psi == <<service, pmtPid, pmtUpdated, pat, setter, missed>>
history == <<held, sound>>
vars == <<ring, psi, history, stopThread, lent, nbytes, pc, starts>>

DtvPC == [ctl : {"null", "started", "stopping"},
          create : {"off", "idle", "wait", "woken", "move", "wild"},
          reader : {"none", "begin", "loop", "updated", "patWanted", "patMade",
                    "known", "read", "account", "used", "signal", "done"}]

\* Mutant: the end of the ring is passed.
Wrap_PastEnd(p) == IF p > BufferSize THEN 0 ELSE p

\* A pointer that reaches buffer_end goes back to buffer_start.
Wrap(p) == IF p = BufferSize THEN 0 ELSE p

\* Mutant: what is behind the wrap counts as well.
Contiguous_PastWrap ==
  IF writePtr >= readPtr THEN writePtr - readPtr ELSE BufferSize - readPtr + writePtr

\* bytes_available: what can be returned without wrapping.  Equal pointers are
\* taken for a full ring.
Contiguous == IF writePtr >= readPtr THEN writePtr - readPtr ELSE BufferSize - readPtr

Available == IF Contiguous = 0 THEN BufferSize ELSE Contiguous

\* As many whole blocks as there are, or what there is of one.
Taken ==
  IF Available < BlockSize THEN Available ELSE (Available \div BlockSize) * BlockSize

\* The read thread's signal reaches create() only while it waits.
SignalData(p) == IF p.create = "wait" THEN [p EXCEPT !.create = "woken"] ELSE p

\* What is recorded of the ring: sound bytes in it, or that it is not sound.
Record(ok, n) ==
  /\ sound' = (sound /\ ok)
  /\ held' = IF sound /\ ok THEN held + n ELSE 0

-----------------------------------------------------------------------------
Init ==
  /\ readPtr = 0 /\ writePtr = 0 /\ space = BufferSize
  /\ service = Invalid /\ pmtPid = Invalid /\ pmtUpdated = FALSE /\ pat = Blank
  /\ setter = "idle" /\ missed = FALSE
  /\ stopThread = FALSE /\ lent = 0 /\ nbytes = 0
  /\ pc = [ctl |-> "null", create |-> "off", reader |-> "none"]
  /\ held = 0 /\ sound = TRUE /\ starts = 0

-----------------------------------------------------------------------------
(* The application.  One of its threads sets the properties.               *)

\* Setting the service id does not ask for a new PAT.
SetService(s) ==
  /\ setter = "idle"
  /\ service' = s
  /\ UNCHANGED <<ring, pmtPid, pmtUpdated, pat, setter, missed, history, stopThread,
                 lent, nbytes, pc, starts>>

\* Setting another PMT PID does: the PID is stored, ...
SetPmtPid(p) ==
  /\ setter = "idle" /\ pmtPid # p
  /\ pmtPid' = p
  /\ setter' = "announce"
  /\ missed' = FALSE
  /\ UNCHANGED <<ring, service, pmtUpdated, pat, history, stopThread, lent, nbytes,
                 pc, starts>>

\* Mutant: only the first PID is announced.
AnnouncePmtPid_First ==
  /\ setter = "announce"
  /\ pmtUpdated' = (pmtUpdated \/ pat = Blank)
  /\ setter' = "idle"
  /\ UNCHANGED <<ring, service, pmtPid, pat, missed, history, stopThread, lent,
                 nbytes, pc, starts>>

\* ... and then announced.
AnnouncePmtPid ==
  /\ setter = "announce"
  /\ pmtUpdated' = TRUE
  /\ setter' = "idle"
  /\ UNCHANGED <<ring, service, pmtPid, pat, missed, history, stopThread, lent,
                 nbytes, pc, starts>>

\* start() opens the device and creates the read thread.  It leaves the ring as
\* the last session left it.
Start ==
  /\ pc.ctl = "null" /\ starts < MaxStarts
  /\ starts' = starts + 1
  /\ stopThread' = FALSE
  /\ pc' = [ctl |-> "started", create |-> "idle", reader |-> "begin"]
  /\ UNCHANGED <<ring, psi, history, lent, nbytes>>

\* stop() is called when the streaming task has ended, so its signal meets
\* nobody.
StopRequest ==
  /\ pc.ctl = "started" /\ pc.create = "idle"
  /\ stopThread' = TRUE
  /\ pc' = [pc EXCEPT !.ctl = "stopping", !.create = "off"]
  /\ UNCHANGED <<ring, psi, history, lent, nbytes, starts>>

StopJoin ==
  /\ pc.ctl = "stopping" /\ pc.reader = "done"
  /\ pc' = [pc EXCEPT !.ctl = "null", !.reader = "none"]
  /\ UNCHANGED <<ring, psi, history, stopThread, lent, nbytes, starts>>

-----------------------------------------------------------------------------
(* create().  It waits without looking at the ring first.                  *)

CreateWait ==
  /\ pc.create = "idle" /\ pc.ctl = "started"
  /\ pc' = [pc EXCEPT !.create = "wait"]
  /\ UNCHANGED <<ring, psi, history, stopThread, lent, nbytes, starts>>

\* After 500 ms an empty buffer is returned "to maintain the flow".
CreateTimeout ==
  /\ pc.create = "wait"
  /\ pc' = [pc EXCEPT !.create = "idle"]
  /\ UNCHANGED <<ring, psi, history, stopThread, lent, nbytes, starts>>

\* Woken, it decides what to return and gives that space back, ...
CreateTake ==
  /\ pc.create = "woken" /\ space + Taken <= MaxSpace
  /\ lent' = Taken
  /\ space' = space + Taken
  /\ Record(Taken <= held /\ readPtr + Taken <= BufferSize, 0)
  /\ pc' = [pc EXCEPT !.create = "move"]
  /\ UNCHANGED <<readPtr, writePtr, psi, stopThread, nbytes, starts>>

\* ... and takes the mutex again to move read_ptr past it.
CreateMove ==
  /\ pc.create = "move"
  /\ readPtr' = Wrap(readPtr + lent)
  /\ lent' = 0
  /\ Record(TRUE, -lent)
  /\ pc' = [pc EXCEPT !.create = IF readPtr' > BufferSize THEN "wild" ELSE "idle"]
  /\ UNCHANGED <<writePtr, space, psi, stopThread, nbytes, starts>>

-----------------------------------------------------------------------------
(* The read thread.                                                        *)

\* Mutant: the pointers stay where the last session left them, but for write_ptr.
ReaderBegin_KeepsReadPtr ==
  /\ pc.reader = "begin"
  /\ writePtr' = 0
  /\ Record(lent = 0, -held)
  /\ pc' = [pc EXCEPT !.reader = "loop"]
  /\ UNCHANGED <<readPtr, space, psi, stopThread, lent, nbytes, starts>>

\* It empties the ring, but does not reset space_in_buffer.
ReaderBegin ==
  /\ pc.reader = "begin"
  /\ readPtr' = 0 /\ writePtr' = 0
  /\ Record(lent = 0, -held)
  /\ pc' = [pc EXCEPT !.reader = "loop"]
  /\ UNCHANGED <<space, psi, stopThread, lent, nbytes, starts>>

\* Steps of the read thread that only get it from one place to another.
ReaderGoesTo(place) ==
  /\ pc' = [pc EXCEPT !.reader = place]
  /\ UNCHANGED <<ring, psi, history, stopThread, lent, nbytes, starts>>

\* One turn starts with the test of stop_thread.
ReaderLoop ==
  /\ pc.reader = "loop"
  /\ ReaderGoesTo(IF stopThread THEN "done" ELSE "updated")

\* Neither id ever goes back to its invalid value.
IdsKnown == service # Invalid /\ pmtPid # Invalid

\* Mutant: only the first PMT PID gets a PAT.
PatWanted_Once == pmtUpdated /\ pat = Blank

PatWanted == pmtUpdated

\* Has the PMT PID changed?
ReaderUpdated ==
  /\ pc.reader = "updated"
  /\ ReaderGoesTo(IF PatWanted /\ IdsKnown THEN "patWanted" ELSE "known")

\* A PAT is created from what the ids are now, ...
ReaderCreatePat ==
  /\ pc.reader = "patWanted"
  /\ pat' = <<service, pmtPid>>
  /\ pc' = [pc EXCEPT !.reader = "patMade"]
  /\ UNCHANGED <<ring, service, pmtPid, pmtUpdated, setter, missed, history,
                 stopThread, lent, nbytes, starts>>

\* ... which is noted only afterwards: a PID that was set and announced in between
\* is missed.
ReaderPatMade ==
  /\ pc.reader = "patMade"
  /\ pmtUpdated' = FALSE
  /\ missed' = (setter = "idle" /\ pat[2] # pmtPid)
  /\ pc' = [pc EXCEPT !.reader = "known"]
  /\ UNCHANGED <<ring, service, pmtPid, pat, setter, history, stopThread, lent,
                 nbytes, starts>>

\* Are the ids known?  They may have become so since they were asked for a PAT: then
\* the stream is read although no PAT was created yet.
ReaderKnown ==
  /\ pc.reader = "known"
  /\ ReaderGoesTo(IF IdsKnown THEN "read" ELSE "loop")

\* The driver writes n bytes at write_ptr, up to a block and not past the end.
\* n = 0 stands for an error as well.
ReaderRead(n) ==
  /\ pc.reader = "read"
  /\ n <= BlockSize /\ writePtr + n <= BufferSize
  /\ nbytes' = n
  /\ pc' = [pc EXCEPT !.reader = IF n > 0 THEN "account" ELSE "loop"]
  /\ UNCHANGED <<ring, psi, history, stopThread, lent, starts>>

\* Room for a PAT: in the ring, and before its end.
HasRoom(s, w) == s >= PacketSize /\ BufferSize - w >= PacketSize

\* The bytes are accounted for; an overflow is only logged.  If the last two
\* packets look whole (wholePackets) and 100 ms have gone by, a PAT is added.
ReaderAccount ==
  /\ pc.reader = "account"
  /\ LET overflow == space < nbytes
         left == IF overflow THEN 0 ELSE space - nbytes
         next == Wrap(writePtr + nbytes)
     IN  \E wholePackets \in BOOLEAN, patDue \in BOOLEAN :
           IF /\ wholePackets /\ nbytes >= 2 * PacketSize
              /\ patDue /\ HasRoom(left, next)
             THEN /\ space' = left - PacketSize
                  /\ writePtr' = Wrap(next + PacketSize)
                  /\ Record(~overflow, nbytes + PacketSize)
             ELSE /\ space' = left
                  /\ writePtr' = next
                  /\ Record(~overflow, nbytes)
  /\ nbytes' = 0
  /\ pc' = [pc EXCEPT !.reader = "used"]
  /\ UNCHANGED <<readPtr, psi, stopThread, lent, starts>>

\* Out of the mutex, it asks whether a block is in use.  The difference is unsigned:
\* a space_in_buffer that is too large counts as a block.
ReaderUsed ==
  /\ pc.reader = "used"
  /\ ReaderGoesTo(IF space > BufferSize \/ BufferSize - space >= BlockSize
                    THEN "signal" ELSE "loop")

\* If so, it signals create().
ReaderSignal ==
  /\ pc.reader = "signal"
  /\ pc' = SignalData([pc EXCEPT !.reader = "loop"])
  /\ UNCHANGED <<ring, psi, history, stopThread, lent, nbytes, starts>>

-----------------------------------------------------------------------------
\* pthread_cond_timedwait() may return without a signal.
SpuriousWakeup ==
  /\ Spurious
  /\ pc' = SignalData(pc)
  /\ UNCHANGED <<ring, psi, history, stopThread, lent, nbytes, starts>>

Application ==
  \/ \E s \in Services : SetService(s)
  \/ \E p \in Pids : SetPmtPid(p)
  \/ AnnouncePmtPid
  \/ Start \/ StopRequest

Create == CreateWait \/ CreateTimeout \/ CreateTake \/ CreateMove

Reader ==
  \/ ReaderBegin \/ ReaderLoop \/ ReaderUpdated \/ ReaderCreatePat \/ ReaderPatMade
  \/ ReaderKnown \/ (\E n \in 0..BlockSize : ReaderRead(n))
  \/ ReaderAccount \/ ReaderUsed \/ ReaderSignal

Next == Application \/ StopJoin \/ Create \/ Reader \/ SpuriousWakeup

Spec == Init /\ [][Next]_vars

\* Both threads run, the driver's read returns sooner or later, and the application
\* gets to the end of set_property().
FairSpec ==
  /\ Spec
  /\ WF_vars(StopJoin) /\ WF_vars(Create) /\ WF_vars(Reader) /\ WF_vars(AnnouncePmtPid)

-----------------------------------------------------------------------------
(* The variables stay in their domains; both pointers stay inside the ring *)
(* unless create() has returned bytes past its end.                        *)
TypeOK ==
  /\ readPtr \in Nat /\ (pc.create # "wild" => readPtr < BufferSize)
  /\ writePtr \in 0..BufferSize - 1 /\ space \in 0..MaxSpace
  /\ service \in Services \cup {Invalid} /\ pmtPid \in Pids \cup {Invalid}
  /\ pmtUpdated \in BOOLEAN /\ pat \in (Services \X Pids) \cup {Blank}
  /\ setter \in {"idle", "announce"} /\ missed \in BOOLEAN
  /\ stopThread \in BOOLEAN /\ lent \in 0..BufferSize /\ nbytes \in 0..BlockSize
  /\ pc \in DtvPC /\ held \in 0..2 * BufferSize /\ sound \in BOOLEAN
  /\ starts \in 0..MaxStarts

\* While the ring is sound, the bytes from read_ptr (past what create() is about
\* to return) to write_ptr are exactly those that came in and were not returned,
\* and space_in_buffer never promises room that is not there.  In the first
\* session it is exact; a restart loses what was in the ring then.
RingConsistent ==
  sound =>
    LET from == readPtr + lent
        inRing == held - lent
    IN  /\ inRing \in 0..BufferSize
        /\ from <= BufferSize
        /\ from + inRing \in {writePtr, writePtr + BufferSize, writePtr + 2 * BufferSize}
        /\ space + inRing <= BufferSize
        /\ starts <= 1 => space + inRing = BufferSize

\* When the pointers differ, create() returns bytes of the ring that came in and
\* were not returned before, and no other.
TakesOnlyFresh ==
  [][/\ pc.create = "woken" /\ pc'.create = "move"
     /\ sound /\ readPtr # writePtr
     => lent' > 0 /\ lent' <= held /\ readPtr + lent' <= BufferSize]_vars

\* "Return as many whole blocks as are available": create() never returns more
\* than the ring holds, nor past its end.
TakesOnlyAvailable ==
  [][/\ pc.create = "woken" /\ pc'.create = "move" /\ sound
     => lent' <= held /\ readPtr + lent' <= BufferSize]_vars

\* A PAT that is blank or has another PMT PID than the one that is set is due: the
\* change waits for the read thread, or set_property() is about to announce it.  The
\* one exception is a PID that was announced between the creation of a PAT and the
\* note that it is done; a blank PAT is always due.
PatOwed ==
  pmtPid # Invalid =>
    \/ pmtUpdated \/ setter = "announce"
    \/ pat # Blank /\ (pat[2] = pmtPid \/ missed)

\* A new PMT PID reaches the PAT, if it is not set just between the creation of
\* a PAT and the note that it is done.
PatCatchesUp ==
  \A p \in Pids :
    (/\ pmtPid = p /\ (pmtUpdated \/ setter = "announce") /\ service # Invalid
     /\ pc.reader \notin {"none", "patMade", "done"})
      ~> (pmtPid # p \/ stopThread \/ (pat # Blank /\ pat[2] = p))
=============================================================================
