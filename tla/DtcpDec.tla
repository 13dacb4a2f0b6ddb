------------------------------- MODULE DtcpDec -------------------------------
(***************************************************************************)
(* The dtcpdec element (src/dtcpdecrypt/gstdtcpdec.c): chain() has the     *)
(* DTCP manager decrypt each buffer, in place or into a packet of its own  *)
(* that the buffer pushed downstream owns.                                 *)
(*                                                                         *)
(* packet_count, the packets that downstream owns, and its mutex belong to *)
(* the library, not to the element: every element that is created replaces *)
(* the mutex, every one that leaves NULL clears the count, and all of them *)
(* count their packets there.  Of this element three threads use it: the   *)
(* one in chain(), the one that frees a buffer and the application's; one  *)
(* more thread stands for those of other elements.  The manager is         *)
(* external.                                                               *)
(***************************************************************************)
EXTENDS Integers, Sequences, FiniteSets

CONSTANTS
  DecMaxPackets,        \* bound on the buffers that arrive
  MaxOthers,            \* bound on the other elements' steps that matter here
  MaxDecStarts,         \* bound on changes from NULL to READY
  CountModulus          \* 2^32: packet_count is an unsigned int

ASSUME DecBoundsAssumption ==
  /\ DecMaxPackets \in Nat /\ MaxOthers \in Nat /\ MaxDecStarts \in Nat
  /\ CountModulus \in Nat \ {0}
\* The count does not wrap for the buffers that arrive, here and elsewhere.
ASSUME CountAssumption == DecMaxPackets + MaxOthers + 2 < CountModulus

VARIABLES
  decState,             \* the element's state; "STARTING", "STOPPING": a change under way
  hasSession, bypass,   \* pDtcpSession # 0, dtcp_element_bypass
  decChain,             \* chain(): where it is, and its packet if it has one
  freeing,              \* the released packet a free function has not counted yet
  decPackets,           \* the packets so far: processed, and how often released
  owned,                \* the packets of the buffers downstream has
  count,                \* packet_count
  countMutex,           \* packet_count_mutex: the one created last
  locked,               \* which of the mutexes are held
  work,                 \* what each thread is doing with the count
  abroad,               \* other elements' packets, counted and not counted back
  undisturbed,          \* history: see CountExplained
  others, decStarts     \* bounded counters

decVars == <<decState, hasSession, bypass, decChain, freeing, decPackets, owned, count,
             countMutex, locked, work, abroad, undisturbed, others, decStarts>>

counting == <<count, countMutex, locked, work, abroad, undisturbed>>
decElement == <<decState, hasSession, bypass, decStarts>>

Threads == {"chain", "free", "app", "other"}
Jobs == {"up", "down", "clear", "look"}
Places == {"waiting", "inside", "read", "written"}
NoPacket == 0
NoPc == [pc |-> "idle", packet |-> NoPacket]
NoWork == [job |-> "none", at |-> "none", mutex |-> 0, read |-> 0]

\* What packet_count should be: one for each packet, from when its thread has written the
\* count up until one has written it down.
Out ==
  Cardinality(owned) + abroad
  + (IF decChain.pc = "pushing" \/ work["chain"].at = "written" THEN 1 ELSE 0)
  + (IF freeing # NoPacket /\ work["free"].at # "written" THEN 1 ELSE 0)

-----------------------------------------------------------------------------
DecInit ==
  /\ decState = "NULL" /\ hasSession = FALSE /\ bypass = FALSE
  /\ decChain = NoPc /\ freeing = NoPacket
  /\ decPackets = <<>> /\ owned = {}
  /\ count = 0 /\ countMutex = 1 /\ locked = [m \in 1..MaxOthers + 1 |-> FALSE]
  /\ work = [t \in Threads |-> NoWork] /\ abroad = 0 /\ undisturbed = TRUE
  /\ others = 0 /\ decStarts = 0

-----------------------------------------------------------------------------
(* packet_count: lock, job, unlock.                                        *)

\* The pointer to the mutex is read, ...
Begin(t, job) ==
  /\ work[t] = NoWork
  /\ work' = [work EXCEPT ![t] = [job |-> job, at |-> "waiting",
                                  mutex |-> countMutex, read |-> 0]]
  /\ UNCHANGED <<count, countMutex, locked, abroad, undisturbed>>

\* Mutant: the count is used without the mutex.
Take_Anyway(t) ==
  /\ work[t].at = "waiting"
  /\ work' = [work EXCEPT ![t].at = "inside"]
  /\ UNCHANGED <<count, countMutex, locked, abroad, undisturbed>>

\* ... and g_mutex_lock() waits for that mutex.
Take(t) ==
  /\ work[t].at = "waiting" /\ ~locked[work[t].mutex]
  /\ locked' = [locked EXCEPT ![work[t].mutex] = TRUE]
  /\ work' = [work EXCEPT ![t].at = "inside"]
  /\ UNCHANGED <<count, countMutex, abroad, undisturbed>>

\* packet_count++ and packet_count-- read the count, ...
Read(t) ==
  /\ work[t].at = "inside" /\ work[t].job \in {"up", "down"}
  /\ work' = [work EXCEPT ![t].at = "read", ![t].read = count]
  /\ UNCHANGED <<count, countMutex, locked, abroad, undisturbed>>

\* ... and write it: n more (or less) than it was.
Write(t, job, n) ==
  /\ work[t].at = "read" /\ work[t].job = job
  /\ count' = (work[t].read + n) % CountModulus
  /\ abroad' = IF t = "other" THEN abroad + n ELSE abroad
  /\ work' = [work EXCEPT ![t].at = "written"]
  /\ UNCHANGED <<countMutex, locked, undisturbed>>

\* packet_count = 0 no longer says what is out, if anything is.
WriteZero(t) ==
  /\ work[t].at = "inside" /\ work[t].job = "clear"
  /\ count' = 0
  /\ undisturbed' = (undisturbed /\ Out = 0)
  /\ work' = [work EXCEPT ![t].at = "written"]
  /\ UNCHANGED <<countMutex, locked, abroad>>

\* g_mutex_unlock() is given the mutex there is by then.  GLib may stop the program for a
\* mutex that nobody holds; here it goes on.
Leave(t) ==
  /\ \/ work[t].at = "written"
     \/ work[t].at = "inside" /\ work[t].job = "look"
  /\ locked' = [locked EXCEPT ![countMutex] = FALSE]
  /\ work' = [work EXCEPT ![t] = NoWork]
  /\ UNCHANGED <<count, countMutex, abroad, undisturbed>>

\* A thread goes on, but for the unlocking.
Counts ==
  /\ \E t \in Threads :
       Take(t) \/ Read(t) \/ Write(t, "up", 1) \/ Write(t, "down", -1) \/ WriteZero(t)
  /\ UNCHANGED <<decElement, decChain, freeing, decPackets, owned, others>>

-----------------------------------------------------------------------------
(* Other elements.                                                         *)

\* gst_dtcp_dec_init() of another element replaces the mutex, whoever uses the old one.
OtherCreated ==
  /\ others < MaxOthers /\ others' = others + 1
  /\ countMutex' = countMutex + 1
  /\ undisturbed' = (undisturbed /\ \A t \in Threads : work[t] = NoWork)
  /\ UNCHANGED <<decElement, decChain, freeing, decPackets, owned, count, locked, work,
                 abroad>>

\* Another element counts a packet up, or down if it has one out, leaves NULL or goes
\* back to it.
OtherBegins(job) ==
  /\ others < MaxOthers /\ others' = others + 1
  /\ job = "down" => abroad > 0
  /\ Begin("other", job)
  /\ UNCHANGED <<decElement, decChain, freeing, decPackets, owned>>

OtherLeaves ==
  /\ Leave("other")
  /\ UNCHANGED <<decElement, decChain, freeing, decPackets, owned, others>>

-----------------------------------------------------------------------------
(* State changes.                                                          *)

\* The key exchange succeeds and the count is cleared, ...
DecNullToReady ==
  /\ decState = "NULL" /\ decStarts < MaxDecStarts
  /\ decState' = "STARTING" /\ decStarts' = decStarts + 1 /\ hasSession' = TRUE
  /\ Begin("app", "clear")
  /\ UNCHANGED <<bypass, decChain, freeing, decPackets, owned, others>>

DecChanged(from, to) ==
  /\ decState = from /\ decState' = to
  /\ Leave("app")
  /\ UNCHANGED <<hasSession, bypass, decStarts, decChain, freeing, decPackets, owned, others>>

\* ... or it fails: the state does not change, and the element passes everything on
\* from then on.
DecSessionFails ==
  /\ decState = "NULL" /\ decStarts < MaxDecStarts
  /\ decStarts' = decStarts + 1 /\ bypass' = TRUE
  /\ UNCHANGED <<decState, hasSession, decChain, freeing, decPackets, owned, counting,
                 others>>

DecReadyToPaused ==
  /\ decState = "READY" /\ decState' = "PAUSED"
  /\ UNCHANGED <<hasSession, bypass, decStarts, decChain, freeing, decPackets, owned,
                 counting, others>>

\* The base class waits for chain().
DecPausedToReady ==
  /\ decState = "PAUSED" /\ decChain = NoPc /\ decState' = "READY"
  /\ UNCHANGED <<hasSession, bypass, decStarts, decChain, freeing, decPackets, owned,
                 counting, others>>

\* The session goes, whatever downstream still owns, and the count is printed.
DecReadyToNull ==
  /\ decState = "READY" /\ decState' = "STOPPING" /\ hasSession' = FALSE
  /\ Begin("app", "look")
  /\ UNCHANGED <<bypass, decStarts, decChain, freeing, decPackets, owned, others>>

-----------------------------------------------------------------------------
(* chain().                                                                *)

\* A buffer passes as it is when bypass is set; else DTCPMgrProcessPacket() fails and
\* the packet is freed without a release, ...
DecChainFails ==
  /\ decState = "PAUSED" /\ decChain = NoPc /\ ~bypass /\ hasSession
  /\ Len(decPackets) < DecMaxPackets
  /\ decPackets' = Append(decPackets, [processed |-> FALSE, released |-> 0])
  /\ UNCHANGED <<decElement, decChain, freeing, owned, counting, others>>

\* ... or succeeds: without data ("out") or in place ("push") the packet stays with
\* chain(), ...
DecChainProcesses(result) ==
  /\ decState = "PAUSED" /\ decChain = NoPc /\ ~bypass /\ hasSession
  /\ Len(decPackets) < DecMaxPackets
  /\ decPackets' = Append(decPackets, [processed |-> TRUE, released |-> 0])
  /\ decChain' = [NoPc EXCEPT !.pc = result, !.packet = Len(decPackets) + 1]
  /\ UNCHANGED <<decElement, freeing, owned, counting, others>>

\* ... else a buffer gets it and it is counted.
DecCountUp ==
  /\ decChain.pc = "wrapped"
  /\ decChain' = [decChain EXCEPT !.pc = "counting"]
  /\ Begin("chain", "up")
  /\ UNCHANGED <<decElement, freeing, decPackets, owned, others>>

DecCountedUp ==
  /\ decChain.pc = "counting"
  /\ Leave("chain")
  /\ decChain' = [decChain EXCEPT !.pc = "pushing"]
  /\ UNCHANGED <<decElement, freeing, decPackets, owned, others>>

\* The buffer that came in is pushed.
DecPushInPlace ==
  /\ decChain.pc = "push"
  /\ decChain' = [decChain EXCEPT !.pc = "out"]
  /\ UNCHANGED <<decElement, freeing, decPackets, owned, counting, others>>

\* chain() returns what it still has.
DecOut ==
  /\ decChain.pc = "out"
  /\ decPackets' = [decPackets EXCEPT ![decChain.packet].released = @ + 1]
  /\ decChain' = NoPc
  /\ UNCHANGED <<decElement, freeing, owned, counting, others>>

\* Mutant: chain() keeps the packet as well.
DecPush_KeepsPacket ==
  /\ decChain.pc = "pushing"
  /\ owned' = owned \cup {decChain.packet}
  /\ decChain' = [decChain EXCEPT !.pc = "out"]
  /\ UNCHANGED <<decElement, freeing, decPackets, counting, others>>

\* Downstream gets the buffer and the packet with it.
DecPush ==
  /\ decChain.pc = "pushing"
  /\ owned' = owned \cup {decChain.packet}
  /\ decChain' = NoPc
  /\ UNCHANGED <<decElement, freeing, decPackets, counting, others>>

-----------------------------------------------------------------------------
\* Downstream frees a buffer: gst_dtcpdecrypt_buf_delete() releases its packet ...
DecRelease(p) ==
  /\ freeing = NoPacket /\ p \in owned
  /\ decPackets' = [decPackets EXCEPT ![p].released = @ + 1]
  /\ owned' = owned \ {p}
  /\ freeing' = p
  /\ UNCHANGED <<decElement, decChain, counting, others>>

\* ... and counts it.
DecCountDown ==
  /\ freeing # NoPacket
  /\ Begin("free", "down")
  /\ UNCHANGED <<decElement, decChain, freeing, decPackets, owned, others>>

DecCountedDown ==
  /\ freeing # NoPacket
  /\ Leave("free")
  /\ freeing' = NoPacket
  /\ UNCHANGED <<decElement, decChain, decPackets, owned, others>>

-----------------------------------------------------------------------------
DecNext ==
  \/ Counts
  \/ OtherCreated \/ OtherLeaves \/ \E job \in Jobs : OtherBegins(job)
  \/ DecNullToReady \/ DecSessionFails \/ DecReadyToPaused \/ DecPausedToReady
  \/ DecReadyToNull \/ DecChanged("STARTING", "READY") \/ DecChanged("STOPPING", "NULL")
  \/ DecChainFails \/ \E result \in {"out", "push", "wrapped"} : DecChainProcesses(result)
  \/ DecPushInPlace \/ DecOut \/ DecCountUp \/ DecCountedUp \/ DecPush
  \/ DecCountDown \/ DecCountedDown \/ \E p \in owned : DecRelease(p)

DecSpec == DecInit /\ [][DecNext]_decVars

-----------------------------------------------------------------------------
\* The variables stay in their domains.
DecTypeOK ==
  /\ decState \in {"NULL", "STARTING", "READY", "PAUSED", "STOPPING"}
  /\ hasSession \in BOOLEAN /\ bypass \in BOOLEAN
  /\ decChain.pc \in {"idle", "push", "out", "wrapped", "counting", "pushing"}
  /\ {decChain.packet, freeing} \subseteq {NoPacket} \cup DOMAIN decPackets
  /\ decPackets \in Seq([processed : BOOLEAN, released : Nat])
  /\ owned \subseteq DOMAIN decPackets
  /\ count \in 0..CountModulus - 1 /\ abroad \in Int
  /\ work \in [Threads -> {NoWork} \cup [job : Jobs, at : Places, mutex : 1..MaxOthers + 1,
                                         read : 0..CountModulus - 1]]
  /\ countMutex \in 1..MaxOthers + 1 /\ locked \in [1..MaxOthers + 1 -> BOOLEAN]
  /\ undisturbed \in BOOLEAN /\ others \in Nat /\ decStarts \in Nat

\* Every packet the manager processed goes back to it exactly once, from chain() or
\* from the buffer that owns it, and one it did not process never does.
DecReleasedOnce ==
  \A p \in DOMAIN decPackets :
    decPackets[p].released +
      (IF p \in owned THEN 1 ELSE 0) + (IF decChain.packet = p THEN 1 ELSE 0)
    = IF decPackets[p].processed THEN 1 ELSE 0

\* packet_count is at any time the number of the library's packets that were counted up
\* and not down, although every element and several threads of each change it: until an
\* element is created while a thread uses the count, or a start clears it while packets
\* are out.
CountExplained == undisturbed => count = Out
=============================================================================
