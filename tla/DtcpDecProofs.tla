---------------------------- MODULE DtcpDecProofs -----------------------------
(***************************************************************************)
(* dtcpdec's packets: each goes back to the manager exactly once, from     *)
(* whoever has it then, and packet_count counts those that are out.        *)
(***************************************************************************)
EXTENDS DtcpDec, FiniteSetTheorems, TLAPS

-----------------------------------------------------------------------------
(* Who has a packet.                                                       *)

DecPacket == [processed : BOOLEAN, released : Nat]

\* What the releases depend on: chain() has a packet exactly while it is at work, and
\* downstream has packets that exist.
DecHolds ==
  /\ decPackets \in Seq(DecPacket)
  /\ owned \subseteq DOMAIN decPackets
  /\ decChain = [pc |-> decChain.pc, packet |-> decChain.packet]
  /\ decChain.pc # "idle" => decChain.packet \in DOMAIN decPackets
  /\ decChain.pc = "idle" => decChain.packet = NoPacket

\* The fields of a packet.
LEMMA DecPacketFields ==
  ASSUME DecHolds
  PROVE  \A p \in DOMAIN decPackets : decPackets[p].released \in Nat
<1>1. \A p \in DOMAIN decPackets : decPackets[p] \in DecPacket
  BY DEF DecHolds
<1>2. QED
  BY <1>1 DEF DecPacket

\* The steps that count leave the packets and their owners alone.
LEMMA CountingHolds ==
  ASSUME DecHolds, DecReleasedOnce,
         decPackets' = decPackets, owned' = owned,
         decChain'.packet = decChain.packet, decChain'.pc # "idle" <=> decChain.pc # "idle",
         decChain' = [pc |-> decChain'.pc, packet |-> decChain'.packet]
  PROVE  DecHolds' /\ DecReleasedOnce'
  BY DEF DecHolds, DecReleasedOnce

\* A new packet: processed packets stay with chain(), the others are forgotten.
LEMMA NewPacketHolds ==
  ASSUME DecHolds, DecReleasedOnce, decChain.pc = "idle",
         DecChainFails \/ \E result \in {"out", "push", "wrapped"} : DecChainProcesses(result)
  PROVE  DecHolds' /\ DecReleasedOnce'
<1> USE DEF DecHolds
<1> DEFINE n == Len(decPackets) + 1
<1>1. /\ Len(decPackets) \in Nat /\ DOMAIN decPackets = 1..Len(decPackets)
      /\ n \in Nat \ {0} /\ n \notin DOMAIN decPackets
  OBVIOUS
<1>2. ASSUME NEW e \in DecPacket, decPackets' = Append(decPackets, e)
      PROVE  /\ decPackets' \in Seq(DecPacket)
             /\ DOMAIN decPackets' = (DOMAIN decPackets) \cup {n}
             /\ decPackets'[n] = e
             /\ \A p \in DOMAIN decPackets : decPackets'[p] = decPackets[p]
  BY <1>1, <1>2
<1>3. CASE DecChainFails
  <2> DEFINE e == [processed |-> FALSE, released |-> 0]
  <2>1. /\ e \in DecPacket /\ decPackets' = Append(decPackets, e)
        /\ decChain' = decChain /\ owned' = owned
    BY <1>3 DEF DecChainFails, DecPacket
  <2>2. n \notin owned' /\ decChain'.packet # n
    BY <1>1, <2>1 DEF NoPacket
  <2>3. DecHolds'
    BY <1>2, <2>1
  <2>4. ASSUME NEW p \in DOMAIN decPackets'
        PROVE  decPackets'[p].released +
                 (IF p \in owned' THEN 1 ELSE 0) + (IF decChain'.packet = p THEN 1 ELSE 0)
               = IF decPackets'[p].processed THEN 1 ELSE 0
    <3>1. CASE p = n
      BY <1>2, <2>1, <2>2, <3>1
    <3>2. CASE p \in DOMAIN decPackets
      BY <1>2, <2>1, <3>2 DEF DecReleasedOnce
    <3>3. QED
      BY <1>2, <2>1, <2>4, <3>1, <3>2
  <2>5. QED
    BY <2>3, <2>4 DEF DecReleasedOnce
<1>4. ASSUME NEW result \in {"out", "push", "wrapped"}, DecChainProcesses(result)
      PROVE  DecHolds' /\ DecReleasedOnce'
  <2> DEFINE e == [processed |-> TRUE, released |-> 0]
  <2>1. /\ e \in DecPacket /\ decPackets' = Append(decPackets, e)
        /\ decChain' = [pc |-> result, packet |-> n] /\ owned' = owned
    BY <1>4 DEF DecChainProcesses, DecPacket, NoPc
  <2>2. n \notin owned' /\ decChain'.packet = n
    BY <1>1, <2>1
  <2>3. DecHolds'
    BY <1>2, <2>1, <2>2
  <2>4. ASSUME NEW p \in DOMAIN decPackets'
        PROVE  decPackets'[p].released +
                 (IF p \in owned' THEN 1 ELSE 0) + (IF decChain'.packet = p THEN 1 ELSE 0)
               = IF decPackets'[p].processed THEN 1 ELSE 0
    <3>1. CASE p = n
      BY <1>2, <2>1, <2>2, <3>1
    <3>2. CASE p \in DOMAIN decPackets
      <4>1. decChain.packet # p /\ decChain'.packet # p
        BY <1>1, <2>2, <3>2 DEF NoPacket
      <4>2. QED
        BY <1>2, <2>1, <3>2, <4>1 DEF DecReleasedOnce
    <3>3. QED
      BY <1>2, <2>1, <2>4, <3>1, <3>2
  <2>5. QED
    BY <2>3, <2>4 DEF DecReleasedOnce
<1>5. QED
  BY <1>3, <1>4

\* A release: one packet's holder has it no more, and the manager has it once more.
LEMMA ReleaseHolds ==
  ASSUME DecHolds, DecReleasedOnce, DecOut \/ \E p \in owned : DecRelease(p)
  PROVE  DecHolds' /\ DecReleasedOnce'
<1> USE DEF DecHolds
<1>1. ASSUME NEW q \in DOMAIN decPackets,
             decPackets' = [decPackets EXCEPT ![q].released = @ + 1]
      PROVE  /\ decPackets' \in Seq(DecPacket) /\ DOMAIN decPackets' = DOMAIN decPackets
             /\ decPackets'[q].released = decPackets[q].released + 1
             /\ decPackets'[q].processed = decPackets[q].processed
             /\ \A p \in DOMAIN decPackets : p # q => decPackets'[p] = decPackets[p]
  <2>1. decPackets[q] \in DecPacket /\ Len(decPackets) \in Nat
        /\ DOMAIN decPackets = 1..Len(decPackets)
    OBVIOUS
  <2>2. DOMAIN decPackets' = DOMAIN decPackets
    BY <1>1
  <2>3. \A p \in DOMAIN decPackets : p # q => decPackets'[p] = decPackets[p]
    BY <1>1
  <2>4. decPackets'[q] = [decPackets[q] EXCEPT !.released = @ + 1]
    BY <1>1
  <2>5. /\ decPackets'[q] \in DecPacket
        /\ decPackets'[q].released = decPackets[q].released + 1
        /\ decPackets'[q].processed = decPackets[q].processed
    BY <2>1, <2>4 DEF DecPacket
  <2>6. decPackets' = [p \in 1..Len(decPackets) |-> decPackets'[p]]
    BY <1>1, <2>1, <2>2
  <2>7. \A p \in 1..Len(decPackets) : decPackets'[p] \in DecPacket
    BY <2>1, <2>3, <2>5
  <2>8. decPackets' \in Seq(DecPacket)
    BY <2>1, <2>6, <2>7
  <2>9. QED
    BY <2>2, <2>3, <2>5, <2>8
<1>2. \A p \in DOMAIN decPackets : decPackets[p].released \in Nat
  BY DecPacketFields
<1>3. CASE DecOut
  <2> DEFINE q == decChain.packet
  <2>1. /\ q \in DOMAIN decPackets /\ decChain' = NoPc /\ owned' = owned
        /\ decPackets' = [decPackets EXCEPT ![q].released = @ + 1]
    BY <1>3 DEF DecOut
  <2>2. DecHolds'
    BY <1>1, <2>1 DEF NoPc
  <2>3. decChain'.packet = NoPacket /\ NoPacket \notin DOMAIN decPackets
    BY <2>1 DEF NoPc, NoPacket
  <2>4. ASSUME NEW p \in DOMAIN decPackets'
        PROVE  decPackets'[p].released +
                 (IF p \in owned' THEN 1 ELSE 0) + (IF decChain'.packet = p THEN 1 ELSE 0)
               = IF decPackets'[p].processed THEN 1 ELSE 0
    <3>1. p \in DOMAIN decPackets /\ decChain'.packet # p
      BY <1>1, <2>1, <2>3
    <3>2. CASE p = q
      <4>1. decPackets[q].released + (IF q \in owned THEN 1 ELSE 0) + 1
              = IF decPackets[q].processed THEN 1 ELSE 0
        BY <2>1 DEF DecReleasedOnce
      <4>2. /\ decPackets'[q].released = decPackets[q].released + 1
            /\ decPackets'[q].processed = decPackets[q].processed
            /\ decPackets[q].released \in Nat
        BY <1>1, <1>2, <2>1
      <4>3. (IF decPackets'[q].processed THEN 1 ELSE 0)
              = (IF decPackets[q].processed THEN 1 ELSE 0)
        BY <4>2, Zenon
      <4>4. decPackets'[q].released + (IF q \in owned' THEN 1 ELSE 0) + 0
              = decPackets[q].released + (IF q \in owned THEN 1 ELSE 0) + 1
        BY <2>1, <4>2
      <4>5. QED
        BY <3>1, <3>2, <4>1, <4>3, <4>4
    <3>3. CASE p # q
      BY <1>1, <1>2, <2>1, <3>1, <3>3 DEF DecReleasedOnce
    <3>4. QED
      BY <3>2, <3>3
  <2>5. QED
    BY <2>2, <2>4 DEF DecReleasedOnce
<1>4. ASSUME NEW q \in owned, DecRelease(q)
      PROVE  DecHolds' /\ DecReleasedOnce'
  <2>1. /\ q \in DOMAIN decPackets /\ decChain' = decChain /\ owned' = owned \ {q}
        /\ decPackets' = [decPackets EXCEPT ![q].released = @ + 1]
    BY <1>4 DEF DecRelease
  <2>2. DecHolds'
    BY <1>1, <2>1
  <2>3. ASSUME NEW p \in DOMAIN decPackets'
        PROVE  decPackets'[p].released +
                 (IF p \in owned' THEN 1 ELSE 0) + (IF decChain'.packet = p THEN 1 ELSE 0)
               = IF decPackets'[p].processed THEN 1 ELSE 0
    <3>1. p \in DOMAIN decPackets
      BY <1>1, <2>1
    <3>2. CASE p = q
      <4>1. decPackets[q].released + 1 + (IF decChain.packet = q THEN 1 ELSE 0)
              = IF decPackets[q].processed THEN 1 ELSE 0
        BY <2>1 DEF DecReleasedOnce
      <4>2. /\ decPackets'[q].released = decPackets[q].released + 1
            /\ decPackets'[q].processed = decPackets[q].processed
            /\ decPackets[q].released \in Nat
        BY <1>1, <1>2, <2>1
      <4>3. (IF decPackets'[q].processed THEN 1 ELSE 0)
              = (IF decPackets[q].processed THEN 1 ELSE 0)
        BY <4>2, Zenon
      <4>4. decPackets'[q].released + 0 + (IF decChain'.packet = q THEN 1 ELSE 0)
              = decPackets[q].released + 1 + (IF decChain.packet = q THEN 1 ELSE 0)
        BY <2>1, <4>2
      <4>5. q \notin owned'
        BY <2>1
      <4>6. QED
        BY <3>2, <4>1, <4>3, <4>4, <4>5
    <3>3. CASE p # q
      BY <1>1, <1>2, <2>1, <3>1, <3>3 DEF DecReleasedOnce
    <3>4. QED
      BY <3>2, <3>3
  <2>4. QED
    BY <2>2, <2>3 DEF DecReleasedOnce
<1>5. QED
  BY <1>3, <1>4

\* chain() gives its packet away with the buffer it pushes.
LEMMA PushHolds ==
  ASSUME DecHolds, DecReleasedOnce, DecPush
  PROVE  DecHolds' /\ DecReleasedOnce'
<1> USE DEF DecHolds
<1> DEFINE q == decChain.packet
<1>1. /\ q \in DOMAIN decPackets /\ decChain' = NoPc /\ owned' = owned \cup {q}
      /\ decPackets' = decPackets
      /\ NoPacket \notin DOMAIN decPackets
  BY DEF DecPush, NoPacket
<1>2. \A p \in DOMAIN decPackets : decPackets[p].released \in Nat
  BY DecPacketFields
<1>3. q \notin owned
  BY <1>1, <1>2 DEF DecReleasedOnce
<1>4. DecHolds'
  BY <1>1 DEF NoPc
<1>5. ASSUME NEW p \in DOMAIN decPackets
      PROVE  decPackets[p].released +
               (IF p \in owned' THEN 1 ELSE 0) + (IF decChain'.packet = p THEN 1 ELSE 0)
             = IF decPackets[p].processed THEN 1 ELSE 0
  <2>1. decChain'.packet # p
    BY <1>1 DEF NoPc
  <2>2. CASE p = q
    BY <1>1, <1>2, <1>3, <2>1, <2>2 DEF DecReleasedOnce
  <2>3. CASE p # q
    BY <1>1, <1>2, <2>1, <2>3 DEF DecReleasedOnce
  <2>4. QED
    BY <2>2, <2>3
<1>6. QED
  BY <1>1, <1>4, <1>5 DEF DecReleasedOnce

\* No step gives a packet back twice, or to nobody.
LEMMA DecStepHolds ==
  ASSUME DecHolds, DecReleasedOnce, [DecNext]_decVars
  PROVE  DecHolds' /\ DecReleasedOnce'
<1>1. ASSUME UNCHANGED <<decPackets, owned, decChain>>
      PROVE  DecHolds' /\ DecReleasedOnce'
  BY <1>1 DEF DecHolds, DecReleasedOnce
<1>2. CASE Counts \/ OtherCreated \/ OtherLeaves \/ \E job \in Jobs : OtherBegins(job)
  BY <1>1, <1>2 DEF Counts, OtherCreated, OtherLeaves, OtherBegins
<1>3. CASE \/ DecNullToReady \/ DecSessionFails \/ DecReadyToPaused
           \/ DecPausedToReady \/ DecReadyToNull
           \/ DecChanged("STARTING", "READY") \/ DecChanged("STOPPING", "NULL")
  BY <1>1, <1>3 DEF DecNullToReady, DecSessionFails, DecReadyToPaused, DecPausedToReady,
     DecReadyToNull, DecChanged
<1>4. CASE DecChainFails \/ \E result \in {"out", "push", "wrapped"} :
                                DecChainProcesses(result)
  <2>1. decChain.pc = "idle"
    BY <1>4 DEF DecChainFails, DecChainProcesses, NoPc
  <2>2. QED
    BY <1>4, <2>1, NewPacketHolds
<1>5. CASE DecPushInPlace \/ DecCountUp \/ DecCountedUp
  <2>1. /\ decPackets' = decPackets /\ owned' = owned
        /\ decChain.pc # "idle" /\ decChain'.pc # "idle"
        /\ decChain' = [pc |-> decChain'.pc, packet |-> decChain.packet]
    BY <1>5 DEF DecPushInPlace, DecCountUp, DecCountedUp, DecHolds
  <2>2. QED
    BY <2>1, CountingHolds
<1>6. CASE DecOut \/ \E p \in owned : DecRelease(p)
  BY <1>6, ReleaseHolds
<1>7. CASE DecPush
  BY <1>7, PushHolds
<1>8. CASE DecCountDown \/ DecCountedDown
  BY <1>1, <1>8 DEF DecCountDown, DecCountedDown
<1>9. CASE UNCHANGED decVars
  BY <1>1, <1>9 DEF decVars
<1>10. QED
  BY <1>2, <1>3, <1>4, <1>5, <1>6, <1>7, <1>8, <1>9 DEF DecNext

\* The initial state.
LEMMA DecInitHolds == DecInit => DecHolds /\ DecReleasedOnce
  BY DEF DecInit, DecHolds, DecReleasedOnce, NoPc, NoPacket, DecPacket

\* Every packet that the manager processed goes back to it exactly once, from chain() or
\* from the buffer that owns it, and one it did not process never does
\* (gst_dtcp_dec_chain(), gst_dtcpdecrypt_buf_delete()).
THEOREM DecReleasedOnceTheorem == DecSpec => []DecReleasedOnce
<1>1. DecInit => DecHolds /\ DecReleasedOnce
  BY DecInitHolds
<1>2. DecHolds /\ DecReleasedOnce /\ [DecNext]_decVars => DecHolds' /\ DecReleasedOnce'
  BY DecStepHolds
<1>3. QED
  BY <1>1, <1>2, PTL DEF DecSpec

-----------------------------------------------------------------------------
(* packet_count.                                                           *)

Work == [job : Jobs, at : Places, mutex : 1..MaxOthers + 1, read : Int]
Held == {"inside", "read", "written"}

\* Each thread does its own job, and while it has its own packet to count.
WorkTypes ==
  /\ work = [t \in Threads |-> work[t]]
  /\ \A t \in Threads : work[t] = NoWork \/ work[t] \in Work
  /\ work["chain"].job \in {"none", "up"} /\ work["free"].job \in {"none", "down"}
  /\ work["app"].job \in {"none", "clear", "look"}
  /\ work["chain"] # NoWork => decChain.pc = "counting"
  /\ work["free"] # NoWork => freeing # NoPacket

\* The other elements count nothing down that they have not counted up.
AbroadTypes ==
  /\ others \in 0..MaxOthers /\ abroad \in 0..others
  /\ work["other"].at # "written" =>
       /\ work["other"].job = "down" => abroad > 0
       /\ work["other"].job = "up" => abroad < others

CountTypes ==
  /\ DecHolds /\ DecReleasedOnce
  /\ Len(decPackets) <= DecMaxPackets
  /\ countMutex \in 1..others + 1
  /\ locked \in [1..MaxOthers + 1 -> BOOLEAN] /\ count \in Int

\* As long as nobody disturbs it: the count is right, the threads use the same mutex and
\* exclude each other, and what one of them has read is still the count.
Counting ==
  undisturbed =>
    /\ count = Out
    /\ \A t \in Threads : work[t] # NoWork => work[t].mutex = countMutex
    /\ \A t \in Threads : work[t].at \in Held => locked[countMutex]
    /\ \A t, u \in Threads : work[t].at \in Held /\ work[u].at \in Held => t = u
    /\ \A t \in Threads : work[t].at = "read" => work[t].read = count

CountHolds == CountTypes /\ WorkTypes /\ AbroadTypes

-----------------------------------------------------------------------------
\* What a thread does with the count changes its own work only.
Others(t) == \A u \in Threads : u # t => work'[u] = work[u]

\* A thread that has no work, and one that has, in parts.
LEMMA WorkFields ==
  ASSUME WorkTypes, NEW t \in Threads
  PROVE  /\ work[t].at = "none" <=> work[t] = NoWork
         /\ work[t].at # "none" =>
              /\ work[t].job \in Jobs /\ work[t].at \in Places
              /\ work[t].mutex \in 1..MaxOthers + 1 /\ work[t].read \in Int
              /\ work[t] = [job |-> work[t].job, at |-> work[t].at,
                            mutex |-> work[t].mutex, read |-> work[t].read]
<1>1. CASE work[t] = NoWork
  BY <1>1 DEF NoWork
<1>2. CASE work[t] \in Work
  BY <1>2 DEF NoWork, Work, Places
<1>3. QED
  BY <1>1, <1>2 DEF WorkTypes

LEMMA BeginWork ==
  ASSUME WorkTypes, countMutex \in 1..MaxOthers + 1,
         NEW t \in Threads, NEW job \in Jobs, Begin(t, job)
  PROVE  /\ Others(t) /\ work[t] = NoWork /\ work' = [u \in Threads |-> work'[u]]
         /\ work'[t] \in Work /\ work'[t].job = job /\ work'[t].at = "waiting"
         /\ work'[t].mutex = countMutex /\ work'[t] # NoWork
<1>1. work'[t] = [job |-> job, at |-> "waiting", mutex |-> countMutex, read |-> 0]
  BY DEF Begin, WorkTypes
<1>2. Others(t) /\ work[t] = NoWork /\ work' = [u \in Threads |-> work'[u]]
  BY DEF Begin, WorkTypes, Others
<1>3. QED
  BY <1>1, <1>2 DEF Work, Places, NoWork

LEMMA MoveWork ==
  ASSUME WorkTypes, count \in Int, NEW t \in Threads,
         Take(t) \/ Read(t) \/ Write(t, "up", 1) \/ Write(t, "down", -1) \/ WriteZero(t)
  PROVE  /\ Others(t) /\ work' = [u \in Threads |-> work'[u]]
         /\ work[t] # NoWork /\ work'[t] # NoWork
         /\ work[t] \in Work /\ work'[t] \in Work
         /\ work'[t].job = work[t].job /\ work'[t].mutex = work[t].mutex
<1>1. work[t].at \in Places /\ work[t] # NoWork /\ work[t] \in Work
  BY WorkFields DEF Take, Read, Write, WriteZero, NoWork, WorkTypes, Places
<1>2. CASE Take(t)
  <2>1. work'[t] = [work[t] EXCEPT !.at = "inside"] /\ Others(t)
        /\ work' = [u \in Threads |-> work'[u]]
    BY <1>2 DEF Take, WorkTypes, Others
  <2>2. QED
    BY <1>1, <2>1 DEF Work, Places, NoWork
<1>3. CASE Read(t)
  <2>1. work'[t] = [work[t] EXCEPT !.at = "read", !.read = count] /\ Others(t)
        /\ work' = [u \in Threads |-> work'[u]]
    BY <1>3 DEF Read, WorkTypes, Others
  <2>2. work'[t] = [job |-> work[t].job, at |-> "read", mutex |-> work[t].mutex,
                    read |-> count]
    BY <1>1, <2>1 DEF Work
  <2>3. /\ work[t].job \in Jobs /\ work[t].mutex \in 1..MaxOthers + 1
        /\ "read" \in Places /\ "read" # "none"
    BY <1>1 DEF Work, Places
  <2>4. work'[t] \in Work
    BY <2>2, <2>3 DEF Work
  <2>5. work'[t] # NoWork
    BY <2>2, <2>3 DEF NoWork
  <2>6. QED
    BY <1>1, <2>1, <2>2, <2>4, <2>5
<1>4. CASE Write(t, "up", 1) \/ Write(t, "down", -1) \/ WriteZero(t)
  <2>1. work'[t] = [work[t] EXCEPT !.at = "written"] /\ Others(t)
        /\ work' = [u \in Threads |-> work'[u]]
    BY <1>4 DEF Write, WriteZero, WorkTypes, Others
  <2>2. QED
    BY <1>1, <2>1 DEF Work, Places, NoWork
<1>5. QED
  BY <1>2, <1>3, <1>4

LEMMA LeaveWork ==
  ASSUME WorkTypes, NEW t \in Threads, Leave(t)
  PROVE  /\ Others(t) /\ work'[t] = NoWork /\ work' = [u \in Threads |-> work'[u]]
         /\ work[t].at \in Held /\ work[t] # NoWork
  BY DEF Leave, WorkTypes, Others, Held, NoWork

LEMMA MoveAt ==
  ASSUME WorkTypes, count \in Int, NEW t \in Threads
  PROVE  /\ Take(t) => work'[t].at = "inside"
         /\ Read(t) => work'[t].at = "read" /\ work'[t].read = count
         /\ \A job, n : Write(t, job, n) => work'[t].at = "written"
         /\ WriteZero(t) => work'[t].at = "written"
<1>1. work[t].at \in Places => work[t] \in Work
  BY DEF WorkTypes, NoWork, Places
<1>2. ASSUME Take(t) PROVE work'[t].at = "inside"
  <2>1. work'[t] = [work[t] EXCEPT !.at = "inside"] /\ work[t] \in Work
    BY <1>1, <1>2 DEF Take, WorkTypes, Places
  <2>2. QED
    BY <2>1 DEF Work
<1>3. ASSUME Read(t) PROVE work'[t].at = "read" /\ work'[t].read = count
  <2>1. work'[t] = [work[t] EXCEPT !.at = "read", !.read = count] /\ work[t] \in Work
    BY <1>1, <1>3 DEF Read, WorkTypes, Places
  <2>2. QED
    BY <2>1 DEF Work
<1>4. ASSUME WriteZero(t) \/ \E job, n : Write(t, job, n) PROVE work'[t].at = "written"
  <2>1. work'[t] = [work[t] EXCEPT !.at = "written"] /\ work[t] \in Work
    BY <1>1, <1>4 DEF Write, WriteZero, WorkTypes, Places
  <2>2. QED
    BY <2>1 DEF Work
<1>5. QED
  BY <1>2, <1>3, <1>4

\* Downstream has finitely many packets, and chain() may have one more.
LEMMA OwnedFinite ==
  ASSUME CountTypes
  PROVE  /\ IsFiniteSet(owned) /\ Cardinality(owned) \in Nat
         /\ Cardinality(owned) <= DecMaxPackets
         /\ decChain.pc # "idle" => decChain.packet \notin owned
<1>1. /\ Len(decPackets) \in Nat /\ DOMAIN decPackets = 1..Len(decPackets)
      /\ owned \in SUBSET (1..Len(decPackets))
  BY DEF CountTypes, DecHolds
<1>2. ASSUME NEW n \in Nat PROVE IsFiniteSet(1..n) /\ Cardinality(1..n) = n
  <2>1. IsFiniteSet(1..n) /\ Cardinality(1..n) = IF 1 > n THEN 0 ELSE n - 1 + 1
    BY FS_Interval
  <2>2. QED
    BY <2>1
<1>3. IsFiniteSet(owned) /\ Cardinality(owned) <= Len(decPackets)
  <2> DEFINE S == 1..Len(decPackets)
  <2>1. IsFiniteSet(S) /\ Cardinality(S) = Len(decPackets) /\ owned \in SUBSET S
    BY <1>1, <1>2
  <2> HIDE DEF S
  <2>2. IsFiniteSet(owned) /\ Cardinality(owned) <= Cardinality(S)
    BY <2>1, FS_Subset
  <2>3. QED
    BY <2>1, <2>2
<1>4. Cardinality(owned) \in Nat
  BY <1>3, FS_CardinalityType
<1>5. ASSUME decChain.pc # "idle" PROVE decChain.packet \notin owned
  <2> DEFINE q == decChain.packet
  <2>1. q \in DOMAIN decPackets
    BY <1>5 DEF CountTypes, DecHolds
  <2>2. decPackets[q].released + (IF q \in owned THEN 1 ELSE 0) + 1
          = IF decPackets[q].processed THEN 1 ELSE 0
    BY <2>1 DEF CountTypes, DecReleasedOnce
  <2>3. decPackets[q].released \in Nat
    BY <2>1, DecPacketFields DEF CountTypes
  <2>4. QED
    BY <2>2, <2>3
<1>6. QED
  BY <1>1, <1>3, <1>4, <1>5, DecBoundsAssumption DEF CountTypes

\* What can be out: it does not wrap the count.
LEMMA OutBounds == CountHolds => Out \in 0..DecMaxPackets + MaxOthers + 2
  BY OwnedFinite, DecBoundsAssumption DEF CountHolds, AbroadTypes, Out

LEMMA NoWrap ==
  ASSUME NEW n \in 0..DecMaxPackets + MaxOthers + 2
  PROVE  n % CountModulus = n
  BY CountAssumption, DecBoundsAssumption

-----------------------------------------------------------------------------
\* Every step keeps the types, ...
LEMMA CountTypesKept ==
  ASSUME CountHolds, [DecNext]_decVars
  PROVE  CountTypes'
<1> USE DEF CountHolds, CountTypes, AbroadTypes
<1>1. DecHolds' /\ DecReleasedOnce'
  BY DecStepHolds
<1> DEFINE Same == UNCHANGED <<others, countMutex, locked, count>>
<1>2. CASE Len(decPackets') = Len(decPackets) /\ Same
  BY <1>1, <1>2
<1>3. CASE /\ decPackets' = decPackets /\ count' = count /\ countMutex' = countMutex
           /\ others' = others \/ (others' = others + 1 /\ others < MaxOthers)
           /\ locked' = locked \/ \E m : locked' = [locked EXCEPT ![m] = FALSE]
  <2>1. locked' \in [1..MaxOthers + 1 -> BOOLEAN]
    BY <1>3
  <2>2. countMutex' \in 1..others' + 1
    BY <1>3, DecBoundsAssumption
  <2>3. QED
    BY <1>1, <1>3, <2>1, <2>2
<1>4. CASE OtherCreated
  BY <1>1, <1>4, DecBoundsAssumption DEF OtherCreated
<1>5. CASE OtherLeaves \/ \E job \in Jobs : OtherBegins(job)
  BY <1>3, <1>5 DEF OtherLeaves, OtherBegins, Begin, Leave
<1>6. CASE DecSessionFails \/ DecReadyToPaused \/ DecPausedToReady \/ DecPushInPlace \/ DecPush
  BY <1>2, <1>6 DEF DecSessionFails, DecReadyToPaused, DecPausedToReady, DecPushInPlace,
     DecPush, counting
<1>7. CASE \/ DecNullToReady \/ DecReadyToNull \/ DecChanged("STARTING", "READY")
           \/ DecChanged("STOPPING", "NULL")
           \/ DecCountUp \/ DecCountedUp \/ DecCountDown \/ DecCountedDown
  BY <1>3, <1>7 DEF DecNullToReady, DecReadyToNull, DecChanged, DecCountUp, DecCountedUp,
     DecCountDown, DecCountedDown, Begin, Leave
<1>8. CASE DecChainFails \/ \E result \in {"out", "push", "wrapped"} :
                                DecChainProcesses(result)
  <2>1. Len(decPackets) < DecMaxPackets /\ Same
        /\ \E e : decPackets' = Append(decPackets, e)
    BY <1>8 DEF DecChainFails, DecChainProcesses, counting
  <2>2. Len(decPackets') = Len(decPackets) + 1 /\ Len(decPackets) \in Nat
    BY <2>1 DEF DecHolds
  <2>3. QED
    BY <1>1, <2>1, <2>2, DecBoundsAssumption
<1>9. CASE DecOut \/ \E p \in owned : DecRelease(p)
  <2>1. DOMAIN decPackets' = DOMAIN decPackets /\ Same
    BY <1>9 DEF DecOut, DecRelease, counting
  <2>2. Len(decPackets') = Len(decPackets)
    BY <1>1, <2>1 DEF DecHolds
  <2>3. QED
    BY <1>2, <2>1, <2>2
<1>10. CASE Counts
  <2> PICK t \in Threads :
        Take(t) \/ Read(t) \/ Write(t, "up", 1) \/ Write(t, "down", -1) \/ WriteZero(t)
    BY <1>10 DEF Counts
  <2>1. work[t].read \in Int
    BY MoveWork DEF Work
  <2>2. \A n \in Int : n % CountModulus \in Int
    BY DecBoundsAssumption
  <2>3. count' \in Int
    BY <2>1, <2>2 DEF Take, Read, Write, WriteZero
  <2>4. /\ decPackets' = decPackets /\ others' = others /\ countMutex' = countMutex
        /\ locked' = locked \/ \E m : locked' = [locked EXCEPT ![m] = TRUE]
    BY <1>10 DEF Counts, Take, Read, Write, WriteZero
  <2>5. locked' \in [1..MaxOthers + 1 -> BOOLEAN]
    BY <2>4
  <2>6. QED
    BY <1>1, <2>3, <2>4, <2>5
<1>11. CASE UNCHANGED decVars
  BY <1>2, <1>11 DEF decVars
<1>12. QED
  BY <1>4, <1>5, <1>6, <1>7, <1>8, <1>9, <1>10, <1>11 DEF DecNext

\* ... each thread's work is its own, ...
LEMMA WorkTypesKept ==
  ASSUME CountHolds, [DecNext]_decVars
  PROVE  WorkTypes'
<1> USE DEF CountHolds
<1>1. WorkTypes /\ count \in Int /\ countMutex \in 1..MaxOthers + 1
  BY DecBoundsAssumption DEF CountTypes, AbroadTypes
<1>2. ASSUME work' = work, freeing' # NoPacket \/ freeing' = freeing,
             decChain' = decChain \/ decChain.pc # "counting"
      PROVE  WorkTypes'
  BY <1>1, <1>2 DEF WorkTypes
<1>3. ASSUME NEW t \in Threads, Others(t), work' = [u \in Threads |-> work'[u]],
             work'[t] = NoWork \/ work'[t] \in Work,
             t = "chain" => /\ work'[t].job \in {"none", "up"}
                            /\ work'[t] # NoWork => decChain'.pc = "counting",
             t # "chain" => decChain' = decChain,
             t = "free" => /\ work'[t].job \in {"none", "down"}
                           /\ work'[t] # NoWork => freeing' # NoPacket,
             t # "free" => freeing' = freeing,
             t = "app" => work'[t].job \in {"none", "clear", "look"}
      PROVE  WorkTypes'
  BY <1>1, <1>3, Zenon DEF WorkTypes, Others, Threads
<1>4. CASE Counts
  <2> PICK t \in Threads :
        Take(t) \/ Read(t) \/ Write(t, "up", 1) \/ Write(t, "down", -1) \/ WriteZero(t)
    BY <1>4 DEF Counts
  <2>1. /\ Others(t) /\ work' = [u \in Threads |-> work'[u]]
        /\ work[t] # NoWork /\ work'[t] \in Work /\ work'[t].job = work[t].job
    BY <1>1, MoveWork
  <2>2. decChain' = decChain /\ freeing' = freeing
    BY <1>4 DEF Counts
  <2>3. QED
    BY <1>1, <1>3, <2>1, <2>2 DEF WorkTypes
<1>5. ASSUME NEW t \in Threads, Leave(t),
             t # "chain" => decChain' = decChain, t # "free" => freeing' = freeing
      PROVE  WorkTypes'
  <2>1. Others(t) /\ work'[t] = NoWork /\ work' = [u \in Threads |-> work'[u]]
    BY <1>1, <1>5, LeaveWork
  <2>2. NoWork.job = "none"
    BY DEF NoWork
  <2>3. QED
    BY <1>3, <1>5, <2>1, <2>2
<1>6. ASSUME NEW t \in Threads, NEW job \in Jobs, Begin(t, job),
             t = "chain" => job = "up" /\ decChain'.pc = "counting",
             t # "chain" => decChain' = decChain,
             t = "free" => job = "down" /\ freeing' # NoPacket,
             t # "free" => freeing' = freeing,
             t = "app" => job \in {"clear", "look"}
      PROVE  WorkTypes'
  <2>1. /\ Others(t) /\ work' = [u \in Threads |-> work'[u]]
        /\ work'[t] \in Work /\ work'[t].job = job
    BY <1>1, <1>6, BeginWork
  <2>2. QED
    BY <1>3, <1>6, <2>1
<1>7. CASE OtherCreated \/ DecSessionFails \/ DecReadyToPaused \/ DecPausedToReady \/ DecChainFails
  BY <1>2, <1>7 DEF OtherCreated, DecSessionFails, DecReadyToPaused, DecPausedToReady,
     DecChainFails, counting
<1>8. CASE OtherLeaves
  BY <1>5, <1>8 DEF OtherLeaves, Threads
<1>9. ASSUME NEW job \in Jobs, OtherBegins(job) PROVE WorkTypes'
  BY <1>6, <1>9 DEF OtherBegins, Threads
<1>10. CASE DecNullToReady
  BY <1>6, <1>10 DEF DecNullToReady, Threads, Jobs
<1>11. CASE DecReadyToNull
  BY <1>6, <1>11 DEF DecReadyToNull, Threads, Jobs
<1>12. CASE DecChanged("STARTING", "READY") \/ DecChanged("STOPPING", "NULL")
  BY <1>5, <1>12 DEF DecChanged, Threads
<1>13. CASE \E result \in {"out", "push", "wrapped"} : DecChainProcesses(result)
  BY <1>2, <1>13 DEF DecChainProcesses, counting, NoPc
<1>14. CASE DecPushInPlace \/ DecOut \/ DecPush
  BY <1>2, <1>14 DEF DecPushInPlace, DecOut, DecPush, counting
<1>15. CASE DecCountUp
  <2>1. decChain'.pc = "counting" /\ freeing' = freeing
    BY <1>15 DEF DecCountUp, CountTypes, DecHolds
  <2>2. Begin("chain", "up")
    BY <1>15 DEF DecCountUp
  <2>3. QED
    BY <1>6, <2>1, <2>2 DEF Threads, Jobs
<1>16. CASE DecCountedUp
  BY <1>5, <1>16 DEF DecCountedUp, Threads
<1>17. CASE DecCountDown
  BY <1>6, <1>17 DEF DecCountDown, Threads, Jobs
<1>18. CASE DecCountedDown
  BY <1>5, <1>18 DEF DecCountedDown, Threads
<1>19. ASSUME NEW p \in owned, DecRelease(p) PROVE WorkTypes'
  <2>1. freeing' = p /\ p # NoPacket /\ work' = work /\ decChain' = decChain
    BY <1>19 DEF DecRelease, counting, CountTypes, DecHolds, NoPacket
  <2>2. QED
    BY <1>2, <2>1
<1>20. CASE UNCHANGED decVars
  BY <1>2, <1>20 DEF decVars
<1>21. QED
  BY <1>4, <1>7, <1>8, <1>9, <1>10, <1>11, <1>12, <1>13, <1>14, <1>15, <1>16, <1>17,
     <1>18, <1>19, <1>20 DEF DecNext

\* ... and so is what other elements have out.
LEMMA AbroadTypesKept ==
  ASSUME CountHolds, [DecNext]_decVars
  PROVE  AbroadTypes'
<1> USE DEF CountHolds
<1>1. WorkTypes /\ count \in Int /\ countMutex \in 1..MaxOthers + 1
      /\ "other" \in Threads
  BY DecBoundsAssumption DEF CountTypes, AbroadTypes, Threads
<1>2. ASSUME work'["other"] = work["other"], abroad' = abroad,
             others' = others \/ (others < MaxOthers /\ others' = others + 1)
      PROVE  AbroadTypes'
  BY <1>2, DecBoundsAssumption DEF AbroadTypes
<1>3. CASE Counts
  <2> PICK t \in Threads :
        Take(t) \/ Read(t) \/ Write(t, "up", 1) \/ Write(t, "down", -1) \/ WriteZero(t)
    BY <1>3 DEF Counts
  <2>1. Others(t) /\ work'[t].job = work[t].job /\ work[t] \in Work
    BY <1>1, MoveWork
  <2>2. others' = others
    BY <1>3 DEF Counts
  <2>3. CASE t # "other"
    <3>1. work'["other"] = work["other"] /\ abroad' = abroad
      BY <1>1, <2>1, <2>3 DEF Others, Take, Read, Write, WriteZero
    <3>2. QED
      BY <1>2, <2>2, <3>1
  <2>4. CASE t = "other"
    <3>1. CASE Take(t) \/ Read(t) \/ WriteZero(t)
      <4>1. abroad' = abroad /\ work[t].at # "written"
        BY <3>1 DEF Take, Read, WriteZero
      <4>2. QED
        BY <2>1, <2>2, <2>4, <4>1 DEF AbroadTypes
    <3>2. CASE Write(t, "up", 1)
      <4>1. /\ abroad' = abroad + 1 /\ work[t].at = "read" /\ work[t].job = "up"
            /\ work'[t].at = "written"
        BY <1>1, <2>4, <3>2, MoveAt DEF Write
      <4>2. QED
        BY <2>1, <2>2, <2>4, <4>1 DEF AbroadTypes
    <3>3. CASE Write(t, "down", -1)
      <4>1. /\ abroad' = abroad + (-1) /\ work[t].at = "read" /\ work[t].job = "down"
            /\ work'[t].at = "written"
        BY <1>1, <2>4, <3>3, MoveAt DEF Write
      <4>2. QED
        BY <2>1, <2>2, <2>4, <4>1 DEF AbroadTypes
    <3>4. QED
      BY <3>1, <3>2, <3>3
  <2>5. QED
    BY <2>3, <2>4
<1>4. ASSUME NEW job \in Jobs, OtherBegins(job) PROVE AbroadTypes'
  <2>1. /\ others < MaxOthers /\ others' = others + 1 /\ abroad' = abroad
        /\ job = "down" => abroad > 0
    BY <1>4 DEF OtherBegins, Begin
  <2>2. work'["other"].job = job
    BY <1>1, <1>4, BeginWork DEF OtherBegins
  <2>3. QED
    BY <2>1, <2>2, DecBoundsAssumption DEF AbroadTypes
<1>5. CASE OtherLeaves
  <2>1. work'["other"] = NoWork /\ abroad' = abroad /\ others' = others
    BY <1>1, <1>5, LeaveWork DEF OtherLeaves, Leave
  <2>2. NoWork.job = "none"
    BY DEF NoWork
  <2>3. QED
    BY <2>1, <2>2 DEF AbroadTypes
<1>6. ASSUME NEW t \in Threads, t # "other", Leave(t) \/ \E job \in Jobs : Begin(t, job),
             others' = others
      PROVE  AbroadTypes'
  <2>1. Others(t) /\ abroad' = abroad
    BY <1>1, <1>6, LeaveWork, BeginWork DEF Leave, Begin
  <2>2. QED
    BY <1>1, <1>2, <1>6, <2>1 DEF Others
<1>7. CASE DecNullToReady \/ DecReadyToNull
  BY <1>6, <1>7 DEF DecNullToReady, DecReadyToNull, Threads, Jobs
<1>8. CASE DecChanged("STARTING", "READY") \/ DecChanged("STOPPING", "NULL")
  BY <1>6, <1>8 DEF DecChanged, Threads
<1>9. CASE DecCountUp \/ DecCountDown
  BY <1>6, <1>9 DEF DecCountUp, DecCountDown, Threads, Jobs
<1>10. CASE DecCountedUp \/ DecCountedDown
  BY <1>6, <1>10 DEF DecCountedUp, DecCountedDown, Threads
<1>11. CASE OtherCreated
  BY <1>2, <1>11 DEF OtherCreated
<1>12. CASE \/ DecSessionFails \/ DecReadyToPaused \/ DecPausedToReady
            \/ DecChainFails \/ DecPushInPlace \/ DecOut \/ DecPush
  BY <1>2, <1>12 DEF DecSessionFails, DecReadyToPaused, DecPausedToReady,
     DecChainFails, DecPushInPlace, DecOut, DecPush, counting
<1>13. CASE (\E result \in {"out", "push", "wrapped"} : DecChainProcesses(result))
            \/ \E p \in owned : DecRelease(p)
  BY <1>2, <1>13 DEF DecChainProcesses, DecRelease, counting
<1>14. CASE UNCHANGED decVars
  BY <1>2, <1>14 DEF decVars
<1>15. QED
  BY <1>3, <1>4, <1>5, <1>7, <1>8, <1>9, <1>10, <1>11, <1>12, <1>13, <1>14 DEF DecNext

-----------------------------------------------------------------------------
\* A thread comes: it uses the mutex there is.
LEMMA BeginCounts ==
  ASSUME CountHolds, Counting, NEW t \in Threads, NEW job \in Jobs, Begin(t, job),
         Out' = Out
  PROVE  Counting'
<1>1. /\ Others(t) /\ work'[t].at = "waiting" /\ work'[t].mutex = countMutex
  BY BeginWork, DecBoundsAssumption DEF CountHolds, CountTypes, AbroadTypes
<1>2. UNCHANGED <<count, countMutex, locked, undisturbed>>
  BY DEF Begin
<1>3. QED
  BY <1>1, <1>2 DEF Counting, Others, Held

\* A thread leaves: nobody else has the mutex that it unlocks.
LEMMA LeaveCounts ==
  ASSUME CountHolds, Counting, NEW t \in Threads, Leave(t), Out' = Out
  PROVE  Counting'
<1>1. Others(t) /\ work'[t] = NoWork /\ work[t].at \in Held /\ NoWork.at \notin Held
      /\ NoWork.at # "read"
  BY LeaveWork DEF CountHolds, NoWork, Held
<1>2. UNCHANGED <<count, countMutex, undisturbed>>
  BY DEF Leave
<1>3. ASSUME undisturbed, NEW u \in Threads PROVE work'[u].at \notin Held
  BY <1>1, <1>3 DEF Counting, Others
<1>4. QED
  BY <1>1, <1>2, <1>3 DEF Counting, Others, Held

\* A thread locks the mutex, reads the count and writes it.
LEMMA MoveCounts ==
  ASSUME CountHolds, Counting, Counts
  PROVE  Counting'
<1> USE DEF CountHolds
<1> PICK t \in Threads :
      Take(t) \/ Read(t) \/ Write(t, "up", 1) \/ Write(t, "down", -1) \/ WriteZero(t)
  BY DEF Counts
<1>1. /\ Others(t) /\ work[t] # NoWork /\ work'[t].job = work[t].job
      /\ work'[t].mutex = work[t].mutex /\ work[t] \in Work
  BY MoveWork DEF CountTypes
<1>2. /\ UNCHANGED <<decChain, freeing, owned, countMutex>>
      /\ countMutex \in 1..MaxOthers + 1
  BY DecBoundsAssumption DEF Counts, Take, Read, Write, WriteZero, CountTypes, AbroadTypes
<1>3. Out' = Out + (IF work'[t].at = "written" /\ work[t].at = "read"
                    THEN IF work[t].job = "up" THEN 1 ELSE -1 ELSE 0)
  <2>1. /\ Cardinality(owned) \in Int /\ abroad \in Int
    BY OwnedFinite DEF AbroadTypes
  <2>2. /\ work[t].at # "written"
        /\ ~(work'[t].at = "written" /\ work[t].at = "read") =>
             /\ abroad' = abroad
             /\ work'[t].at = "written" => work[t].job = "clear"
    BY MoveAt DEF CountTypes, Take, Read, Write, WriteZero
  <2>3. work'[t].at = "written" /\ work[t].at = "read" =>
          \/ Write(t, "up", 1) /\ work[t].job = "up"
          \/ Write(t, "down", -1) /\ work[t].job = "down"
    BY MoveAt DEF CountTypes, Take, Read, Write, WriteZero
  <2>4. ASSUME Write(t, "up", 1) PROVE abroad' = IF t = "other" THEN abroad + 1 ELSE abroad
    BY <2>4 DEF Write
  <2>5. ASSUME Write(t, "down", -1)
        PROVE  abroad' = IF t = "other" THEN abroad - 1 ELSE abroad
    BY <2>1, <2>5 DEF Write
  <2>6. /\ t = "chain" => decChain.pc = "counting" /\ work[t].job = "up"
        /\ t = "free" => freeing # NoPacket /\ work[t].job = "down"
        /\ t = "app" => work[t].job \in {"clear", "look"}
    BY <1>1 DEF WorkTypes, NoWork, Work, Jobs
  <2>7. CASE t = "other"
    <3>1. work'["chain"] = work["chain"] /\ work'["free"] = work["free"]
      BY <1>1, <2>7 DEF Others, Threads
    <3>2. QED
      BY <1>2, <2>1, <2>2, <2>3, <2>4, <2>5, <2>7, <3>1 DEF Out
  <2>8. CASE t = "chain"
    <3>1. work'["free"] = work["free"]
      BY <1>1, <2>8 DEF Others, Threads
    <3>2. QED
      BY <1>2, <2>1, <2>2, <2>3, <2>4, <2>5, <2>6, <2>8, <3>1 DEF Out
  <2>9. CASE t = "free"
    <3>1. work'["chain"] = work["chain"]
      BY <1>1, <2>9 DEF Others, Threads
    <3>2. QED
      BY <1>2, <2>1, <2>2, <2>3, <2>4, <2>5, <2>6, <2>9, <3>1 DEF Out
  <2>10. CASE t = "app"
    <3>1. work'["chain"] = work["chain"] /\ work'["free"] = work["free"]
      BY <1>1, <2>10 DEF Others, Threads
    <3>2. QED
      BY <1>2, <2>1, <2>2, <2>3, <2>6, <2>10, <3>1 DEF Out
  <2>11. QED
    BY <2>7, <2>8, <2>9, <2>10 DEF Threads
<1>4. Out \in Int /\ Out' \in 0..DecMaxPackets + MaxOthers + 2
  <2>1. CountHolds'
    BY CountTypesKept, WorkTypesKept, AbroadTypesKept DEF DecNext
  <2>2. (CountHolds => Out \in 0..DecMaxPackets + MaxOthers + 2)'
    BY OutBounds, PTL
  <2>3. QED
    BY <2>1, <2>2, OutBounds
<1>5. CASE Take(t)
  <2>1. /\ work[t].at = "waiting" /\ work'[t].at = "inside" /\ ~locked[work[t].mutex]
        /\ locked' = [locked EXCEPT ![work[t].mutex] = TRUE]
        /\ UNCHANGED <<count, undisturbed>>
    BY <1>5, MoveAt DEF Take, CountTypes
  <2>2. ASSUME undisturbed PROVE locked'[countMutex] /\ ~locked[countMutex]
    BY <1>1, <1>2, <2>1, <2>2 DEF Counting, CountTypes
  <2>3. Out' = Out
    BY <1>3, <1>4, <2>1
  <2>4. QED
    BY <1>1, <1>2, <2>1, <2>2, <2>3 DEF Counting, Others, Held
<1>6. CASE Read(t)
  <2>1. /\ work[t].at = "inside" /\ work'[t].at = "read" /\ work'[t].read = count
        /\ UNCHANGED <<count, locked, undisturbed>>
    BY <1>6, MoveAt DEF Read, CountTypes
  <2>2. Out' = Out
    BY <1>3, <1>4, <2>1
  <2>3. QED
    BY <1>1, <1>2, <2>1, <2>2 DEF Counting, Others, Held
<1>7. ASSUME NEW n \in {1, -1}, NEW job \in {"up", "down"}, Write(t, job, n),
             n = IF job = "up" THEN 1 ELSE -1
      PROVE  Counting'
  <2>1. /\ work[t].at = "read" /\ work'[t].at = "written" /\ work[t].job = job
        /\ count' = (work[t].read + n) % CountModulus
        /\ UNCHANGED <<locked, undisturbed>>
    BY <1>7, MoveAt DEF Write, CountTypes
  <2>2. ASSUME undisturbed PROVE count' = Out'
    <3>1. work[t].read = Out
      BY <2>1, <2>2 DEF Counting
    <3>2. Out' = Out + n
      BY <1>3, <1>7, <2>1
    <3>3. Out' % CountModulus = Out'
      BY <1>4, NoWrap
    <3>4. QED
      BY <2>1, <3>1, <3>2, <3>3
  <2>3. QED
    BY <1>1, <1>2, <2>1, <2>2 DEF Counting, Others, Held
<1>8. CASE WriteZero(t)
  <2>1. /\ work[t].at = "inside" /\ work'[t].at = "written" /\ count' = 0
        /\ undisturbed' => undisturbed /\ Out = 0
        /\ UNCHANGED <<locked>>
    BY <1>8, MoveAt DEF WriteZero, CountTypes
  <2>2. Out' = Out
    BY <1>3, <1>4, <2>1
  <2>3. QED
    BY <1>1, <1>2, <2>1, <2>2 DEF Counting, Others, Held
<1>9. QED
  BY <1>5, <1>6, <1>7, <1>8

\* Every step keeps the count.
LEMMA StepCounts ==
  ASSUME CountHolds, Counting, [DecNext]_decVars
  PROVE  Counting'
<1> USE DEF CountHolds
<1>1. ASSUME UNCHANGED <<owned, freeing>>,
             UNCHANGED <<count, countMutex, locked, work, abroad, undisturbed>>,
             decChain' = decChain \/ {decChain.pc, decChain'.pc} \cap {"pushing"} = {}
      PROVE  Counting'
  <2>1. Out' = Out
    BY <1>1 DEF Out
  <2>2. QED
    BY <1>1, <2>1 DEF Counting
<1>2. /\ \A t \in Threads : work[t].at = "none" <=> work[t] = NoWork
      /\ NoWork.at = "none"
      /\ {"chain", "free", "app", "other"} \subseteq Threads
      /\ countMutex \in 1..MaxOthers + 1
  BY WorkFields, DecBoundsAssumption DEF NoWork, Threads, CountTypes, AbroadTypes
<1>3. ASSUME NEW t \in {"app", "other"}, Leave(t) \/ \E job \in Jobs : Begin(t, job),
             UNCHANGED <<owned, freeing, decChain>>
      PROVE  Counting'
  <2>1. Others(t) /\ abroad' = abroad
    BY <1>2, <1>3, LeaveWork, BeginWork DEF Leave, Begin
  <2>2. work'["chain"] = work["chain"] /\ work'["free"] = work["free"]
    BY <1>2, <1>3, <2>1 DEF Others
  <2>3. Out' = Out
    BY <1>3, <2>1, <2>2 DEF Out
  <2>4. QED
    BY <1>2, <1>3, <2>3, LeaveCounts, BeginCounts
<1>4. CASE OtherLeaves \/ \E job \in Jobs : OtherBegins(job)
  BY <1>3, <1>4 DEF OtherLeaves, OtherBegins
<1>5. CASE \/ DecNullToReady \/ DecReadyToNull
           \/ DecChanged("STARTING", "READY") \/ DecChanged("STOPPING", "NULL")
  BY <1>3, <1>5 DEF DecNullToReady, DecReadyToNull, DecChanged, Jobs
<1>6. CASE Counts
  BY <1>6, MoveCounts
<1>7. CASE OtherCreated
  <2>1. UNCHANGED <<owned, freeing, decChain, count, work, abroad>>
        /\ (undisturbed' => undisturbed /\ \A t \in Threads : work[t] = NoWork)
    BY <1>7 DEF OtherCreated
  <2>2. Out' = Out
    BY <2>1 DEF Out
  <2>3. QED
    BY <1>2, <2>1, <2>2 DEF Counting, Held
<1>8. CASE DecSessionFails \/ DecReadyToPaused \/ DecPausedToReady \/ DecChainFails
  BY <1>1, <1>8 DEF DecSessionFails, DecReadyToPaused, DecPausedToReady, DecChainFails,
     counting
<1>9. CASE \/ DecPushInPlace \/ DecOut
           \/ \E result \in {"out", "push", "wrapped"} : DecChainProcesses(result)
  BY <1>1, <1>9 DEF DecPushInPlace, DecOut, DecChainProcesses, NoPc, CountTypes, DecHolds,
     counting
<1>10. CASE DecCountUp
  <2>1. Begin("chain", "up") /\ UNCHANGED <<owned, freeing>> /\ abroad' = abroad
        /\ decChain.pc = "wrapped" /\ decChain'.pc = "counting"
    BY <1>10 DEF DecCountUp, Begin, CountTypes, DecHolds
  <2>2. /\ Others("chain") /\ work["chain"].at # "written" /\ work'["chain"].at # "written"
    BY <1>2, <2>1, BeginWork DEF Jobs
  <2>3. Out' = Out
    BY <1>2, <2>1, <2>2 DEF Out, Others
  <2>4. QED
    BY <1>2, <2>1, <2>3, BeginCounts DEF Jobs
<1>11. CASE DecCountedUp
  <2>1. Leave("chain") /\ UNCHANGED <<owned, freeing>> /\ abroad' = abroad
        /\ decChain'.pc = "pushing"
    BY <1>11 DEF DecCountedUp, Leave, CountTypes, DecHolds
  <2>2. /\ Others("chain") /\ work["chain"].at = "written"
    BY <1>2, <2>1, LeaveWork DEF Leave, WorkTypes
  <2>3. Out' = Out
    BY <1>2, <2>1, <2>2 DEF Out, Others
  <2>4. QED
    BY <1>2, <2>1, <2>3, LeaveCounts
<1>12. CASE DecCountDown
  <2>1. Begin("free", "down") /\ UNCHANGED <<owned, freeing, decChain>> /\ abroad' = abroad
    BY <1>12 DEF DecCountDown, Begin
  <2>2. /\ Others("free") /\ work["free"].at # "written" /\ work'["free"].at # "written"
    BY <1>2, <2>1, BeginWork DEF Jobs
  <2>3. Out' = Out
    BY <1>2, <2>1, <2>2 DEF Out, Others
  <2>4. QED
    BY <1>2, <2>1, <2>3, BeginCounts DEF Jobs
<1>13. CASE DecCountedDown
  <2>1. Leave("free") /\ UNCHANGED <<owned, decChain>> /\ abroad' = abroad
        /\ freeing' = NoPacket
    BY <1>13 DEF DecCountedDown, Leave
  <2>2. /\ Others("free") /\ work["free"].at = "written"
    BY <1>2, <2>1, LeaveWork DEF Leave, WorkTypes
  <2>3. Out' = Out
    BY <1>2, <2>1, <2>2 DEF Out, Others
  <2>4. QED
    BY <1>2, <2>1, <2>3, LeaveCounts
<1>14. CASE DecPush
  <2> DEFINE q == decChain.packet
  <2>1. /\ decChain.pc = "pushing" /\ decChain'.pc = "idle" /\ freeing' = freeing
        /\ owned' = owned \cup {q} /\ UNCHANGED counting
    BY <1>14 DEF DecPush, NoPc
  <2>2. IsFiniteSet(owned) /\ Cardinality(owned) \in Nat /\ q \notin owned
    BY <2>1, OwnedFinite
  <2>3. Cardinality(owned') = Cardinality(owned) + 1
    BY <2>1, <2>2, FS_AddElement
  <2>4. work["chain"].at # "written"
    BY <1>2, <2>1 DEF WorkTypes
  <2>5. Out' = Out
    BY <2>1, <2>2, <2>3, <2>4 DEF Out, counting, AbroadTypes
  <2>6. QED
    BY <2>1, <2>5 DEF Counting, counting
<1>15. ASSUME NEW q \in owned, DecRelease(q) PROVE Counting'
  <2>1. /\ freeing = NoPacket /\ freeing' = q /\ decChain' = decChain
        /\ owned' = owned \ {q} /\ q # NoPacket /\ UNCHANGED counting
    BY <1>15 DEF DecRelease, CountTypes, DecHolds, NoPacket
  <2>2. IsFiniteSet(owned) /\ Cardinality(owned) \in Nat
    BY OwnedFinite
  <2>3. Cardinality(owned') = Cardinality(owned) - 1
    BY <2>1, <2>2, FS_RemoveElement
  <2>4. work["free"].at # "written"
    BY <1>2, <2>1 DEF WorkTypes
  <2>5. Out' = Out
    BY <2>1, <2>2, <2>3, <2>4 DEF Out, counting, AbroadTypes
  <2>6. QED
    BY <2>1, <2>5 DEF Counting, counting
<1>16. CASE UNCHANGED decVars
  BY <1>1, <1>16 DEF decVars
<1>17. QED
  BY <1>4, <1>5, <1>6, <1>7, <1>8, <1>9, <1>10, <1>11, <1>12, <1>13, <1>14, <1>15, <1>16
     DEF DecNext

\* packet_count is at any time the number of the library's packets that were counted up
\* and not down, although every element and several threads of each change it, until an
\* element is created while a thread uses the count, or a start clears it while packets
\* are out (gst_dtcp_dec_chain(), gst_dtcpdecrypt_buf_delete(), gst_dtcp_dec_init(),
\* gst_dtcp_dec_change_state()).
THEOREM CountExplainedTheorem == DecSpec => []CountExplained
<1>1. DecInit => CountHolds /\ Counting
  <2> SUFFICES ASSUME DecInit PROVE CountHolds /\ Counting
    OBVIOUS
  <2>1. DecHolds /\ DecReleasedOnce
    BY DecInitHolds
  <2>2. /\ \A t \in Threads : work[t] = NoWork
        /\ {"chain", "free", "app", "other"} \subseteq Threads
    BY DEF DecInit, Threads
  <2>3. /\ NoWork.at = "none" /\ NoWork.job = "none"
    BY DEF NoWork
  <2>4. CountTypes /\ AbroadTypes
    BY <2>1, <2>2, <2>3, DecBoundsAssumption DEF DecInit, CountTypes, AbroadTypes
  <2>5. WorkTypes
    BY <2>2, <2>3 DEF DecInit, WorkTypes
  <2>6. Out = 0
    BY <2>2, <2>3, FS_EmptySet DEF DecInit, Out, NoPc
  <2>7. Counting
    BY <2>2, <2>3, <2>6 DEF Counting, DecInit, Held
  <2>8. QED
    BY <2>4, <2>5, <2>7 DEF CountHolds
<1>2. CountHolds /\ Counting /\ [DecNext]_decVars => CountHolds' /\ Counting'
  BY CountTypesKept, WorkTypesKept, AbroadTypesKept, StepCounts DEF CountHolds
<1>3. Counting => CountExplained
  BY DEF Counting, CountExplained
<1>4. QED
  BY <1>1, <1>2, <1>3, PTL DEF DecSpec
=============================================================================
