--------------------------- MODULE DtcpServerProofs ---------------------------
(***************************************************************************)
(* The server's end of the pipeline: dtcpenc's packets go back to the      *)
(* manager exactly once, or never, if there is no data; every step of the composition is a step of        *)
(* dtcpenc and of httpsink, so that what is proved of each holds there;    *)
(* and the element deletes a session only when no packet needs it, which   *)
(* neither element promises alone: the sink is stopped first, the base     *)
(* class lets go of its last buffer, and dtcpenc's pads wait for chain().  *)
(***************************************************************************)
EXTENDS DtcpServer, HttpSinkProofs, FiniteSetTheorems, TLAPS

-----------------------------------------------------------------------------
(* Who has a packet.                                                       *)

\* The buffers that own the packet p.
Owners(p) == {b \in buffers : b.owner /\ b.packet = p}

EncControl ==
  /\ session \in Nat /\ created \in Nat
  /\ chain.pc \in {"idle", "entered", "tagged", "encrypted", "pushing"}
  /\ chain = [pc |-> chain.pc, layout |-> chain.layout, held |-> chain.held]

\* Where chain()'s packet and the buffers' packets are in their lives.
EncHolds ==
  /\ packets \in Seq(Packet)
  /\ buffers \subseteq Buffer /\ IsFiniteSet(buffers)
  /\ chain.pc \in {"idle", "entered", "pushing"} => chain.held = 0
  /\ chain.pc = "tagged" => chain.held \in DOMAIN packets /\ packets[chain.held].used = NotUsed
  /\ chain.pc = "encrypted" => /\ chain.held \in DOMAIN packets
                               /\ packets[chain.held].used # NotUsed
                               /\ chain.layout \in KnownLayouts \ {"fail"}
                               /\ (packets[chain.held].empty <=> chain.layout = "empty")
  /\ \A b \in buffers : /\ b.packet \in DOMAIN packets /\ packets[b.packet].used # NotUsed
                        /\ b.owner => ~packets[b.packet].empty

EncInv == EncControl /\ EncHolds /\ ReleasedOnce

\* A packet's balance, given whether chain() has it and how many buffers own it.
Balanced(packet, has, owners) ==
  IF packet.used = NotUsed \/ (packet.empty /\ ~has) THEN packet.released = 0
  ELSE packet.released + ((IF has THEN 1 ELSE 0) + owners) = 1

\* A packet's fields, as they are changed.
LEMMA PacketRelease ==
  ASSUME NEW r \in Packet, NEW n \in Nat, NEW t, t = [r EXCEPT !.released = @ + n]
  PROVE  /\ t \in Packet /\ t.used = r.used /\ (t.empty <=> r.empty)
         /\ t.released = r.released + n
<1>1. /\ r.tag \in Nat /\ r.used \in Nat \cup {NotUsed} /\ r.empty \in BOOLEAN
      /\ r.released \in Nat
      /\ r = [tag |-> r.tag, used |-> r.used, empty |-> r.empty, released |-> r.released]
  BY DEF Packet
<1>2. t = [tag |-> r.tag, used |-> r.used, empty |-> r.empty, released |-> r.released + n]
  BY <1>1
<1>3. r.released + n \in Nat
  BY <1>1
<1>4. QED
  BY <1>1, <1>2, <1>3, Zenon DEF Packet

\* Handles are natural numbers.
LEMMA EncControlKept ==
  ASSUME EncControl, [EncNext]_encVars
  PROVE  EncControl'
<1> USE DEF EncControl
<1>1. session' \in Nat /\ created' \in Nat
  <2>1. CASE EncNullToReady \/ ResetCreate
    BY <2>1 DEF EncNullToReady, ResetCreate, CreateSession
  <2>2. CASE session' \in {session, 0} /\ created' = created
    BY <2>2
  <2>3. QED
    BY <2>1, <2>2 DEF EncNext, EncApplication, EncReadyToPaused, EncPausedToReady,
       EncReadyToNull, ResetDelete, ResetForget, EncBeforePush, EncEnter, EncTag,
       EncProcess, EncProcessFails, EncCannotCopy, EncBuild, EncReturn, Downstream,
       sessionVars, encVars
<1>2. /\ chain'.pc \in {"idle", "entered", "tagged", "encrypted", "pushing"}
      /\ chain' = [pc |-> chain'.pc, layout |-> chain'.layout, held |-> chain'.held]
  <2>1. CASE EncApplication
    BY <2>1 DEF EncApplication, EncNullToReady, EncReadyToPaused, EncPausedToReady,
       EncReadyToNull, ResetDelete, ResetForget, ResetCreate
  <2>2. CASE EncProcessFails \/ EncCannotCopy \/ EncReturn
    <3>1. chain' = Waiting
      BY <2>2 DEF EncProcessFails, EncCannotCopy, EncReturn
    <3>2. QED
      BY <3>1 DEF Waiting
  <2>3. CASE EncEnter \/ EncTag
    BY <2>3 DEF EncEnter, EncTag
  <2>4. ASSUME NEW layout \in Layouts, EncProcess(layout)
        PROVE  /\ chain'.pc = "encrypted"
               /\ chain' = [pc |-> chain'.pc, layout |-> chain'.layout, held |-> chain'.held]
    BY <2>4 DEF EncProcess
  <2>5. CASE EncBuild
    BY <2>5 DEF EncBuild
  <2>6. CASE Downstream \/ UNCHANGED encVars
    BY <2>6 DEF Downstream, encVars
  <2>7. QED
    BY <2>1, <2>2, <2>3, <2>4, <2>5, <2>6 DEF EncNext, EncBeforePush
<1>3. QED
  BY <1>1, <1>2

\* The fields of a packet.
LEMMA EncPacketFields ==
  ASSUME EncHolds
  PROVE  \A p \in DOMAIN packets : packets[p] \in Packet /\ packets[p].released \in Nat
<1>1. \A p \in DOMAIN packets : packets[p] \in Packet
  BY DEF EncHolds
<1>2. QED
  BY <1>1 DEF Packet

\* A packet's owners are finitely many, and there are none for one in chain()'s hands,
\* one that was not processed or one without data.
LEMMA OwnersFinite ==
  ASSUME EncHolds, ReleasedOnce, NEW p \in DOMAIN packets
  PROVE  /\ IsFiniteSet(Owners(p)) /\ Cardinality(Owners(p)) \in Nat
         /\ packets[p].used = NotUsed \/ packets[p].empty => Owners(p) = {}
         /\ packets[p].used # NotUsed /\ chain.held = p =>
              Owners(p) = {} /\ packets[p].released = 0
<1>1. IsFiniteSet(Owners(p)) /\ Cardinality(Owners(p)) \in Nat
  <2>1. Owners(p) \in SUBSET buffers /\ IsFiniteSet(buffers)
    BY DEF Owners, EncHolds
  <2>2. IsFiniteSet(Owners(p))
    BY <2>1, FS_Subset
  <2>3. QED
    BY <2>2, FS_CardinalityType
<1>2. ASSUME packets[p].used = NotUsed \/ packets[p].empty PROVE Owners(p) = {}
  BY <1>2 DEF Owners, EncHolds
<1>3. ASSUME packets[p].used # NotUsed, chain.held = p
      PROVE  Owners(p) = {} /\ packets[p].released = 0
  <2>1. packets[p].released + (1 + Cardinality(Owners(p))) = 1
    BY <1>3 DEF ReleasedOnce, Forgotten, Holders, Owners
  <2>2. Cardinality(Owners(p)) = 0 /\ packets[p].released = 0
    BY <1>1, <2>1, EncPacketFields
  <2>3. QED
    BY <1>1, <2>2, FS_EmptySet
<1>4. QED
  BY <1>1, <1>2, <1>3

\* The buffers that the list gets: finitely many, all of the packet, and one owner if
\* there is data, none otherwise.
LEMMA ListBuffers ==
  ASSUME NEW p \in Nat, NEW layout \in KnownLayouts \ {"fail", "nocopy"}
  PROVE  /\ BuffersOf(p, layout) \subseteq Buffer
         /\ IsFiniteSet(BuffersOf(p, layout))
         /\ \A b \in BuffersOf(p, layout) : b.packet = p
         /\ IF layout = "empty" THEN \A b \in BuffersOf(p, layout) : ~b.owner
            ELSE \E o : {b \in BuffersOf(p, layout) : b.owner} = {o}
<1> DEFINE buffer(part) == [packet |-> p, part |-> part, owner |-> part \in OwnerOf(layout)]
           S == {PartsOf(layout)[j] : j \in DOMAIN PartsOf(layout)}
           o == IF layout = "end" THEN "before" ELSE "after"
<1>1. S \subseteq Parts /\ (layout # "empty" => o \in S)
  <2>1. CASE layout = "bare"
    BY <2>1 DEF PartsOf, Parts
  <2>2. CASE layout = "front"
    BY <2>2 DEF PartsOf, Parts
  <2>3. CASE layout = "middle"
    BY <2>3 DEF PartsOf, Parts
  <2>4. CASE layout = "end"
    BY <2>4 DEF PartsOf, Parts
  <2>5. CASE layout = "empty"
    BY <2>5 DEF PartsOf, Parts
  <2>6. QED
    BY <2>1, <2>2, <2>3, <2>4, <2>5 DEF KnownLayouts
<1>2. OwnerOf(layout) = IF layout = "empty" THEN {} ELSE {o}
  BY DEF OwnerOf
<1>3. BuffersOf(p, layout) = {buffer(part) : part \in S}
  BY DEF BuffersOf
<1> HIDE DEF S, o
<1>4. BuffersOf(p, layout) \subseteq Buffer /\ \A b \in BuffersOf(p, layout) : b.packet = p
  <2>1. ASSUME NEW part \in Parts PROVE buffer(part) \in Buffer /\ buffer(part).packet = p
    <3>1. (part \in OwnerOf(layout)) \in BOOLEAN
      OBVIOUS
    <3>2. ASSUME NEW owner \in BOOLEAN
          PROVE  /\ [packet |-> p, part |-> part, owner |-> owner] \in Buffer
                 /\ [packet |-> p, part |-> part, owner |-> owner].packet = p
      BY DEF Buffer
    <3>3. QED
      BY <3>1, <3>2, Zenon
  <2> HIDE DEF buffer
  <2>2. QED
    BY <1>1, <1>3, <2>1
<1>5. IsFiniteSet(BuffersOf(p, layout))
  <2> DEFINE T == {buffer("before"), buffer("header"), buffer("after")}
  <2>1. IsFiniteSet({}) /\ IsFiniteSet({buffer("before")})
    BY FS_EmptySet, FS_Singleton
  <2>2. IsFiniteSet({buffer("before")} \cup {buffer("header")})
    BY <2>1, FS_AddElement
  <2>3. IsFiniteSet(({buffer("before")} \cup {buffer("header")}) \cup {buffer("after")})
    BY <2>2, FS_AddElement
  <2>4. T = ({buffer("before")} \cup {buffer("header")}) \cup {buffer("after")}
    OBVIOUS
  <2>5. BuffersOf(p, layout) \subseteq T
    BY <1>1, <1>3 DEF Parts
  <2> HIDE DEF T
  <2>6. QED
    BY <2>3, <2>4, <2>5, FS_Subset
<1>6. ASSUME layout # "empty" PROVE {b \in BuffersOf(p, layout) : b.owner} = {buffer(o)}
  <2>1. ASSUME NEW part PROVE buffer(part).owner <=> part = o
    <3>1. buffer(part).owner = (part \in OwnerOf(layout))
      BY Zenon
    <3>2. QED
      BY <1>2, <1>6, <3>1, Zenon
  <2> HIDE DEF buffer
  <2>2. QED
    BY <1>1, <1>3, <1>6, <2>1, Zenon
<1>7. ASSUME layout = "empty" PROVE \A b \in BuffersOf(p, layout) : ~b.owner
  <2>1. ASSUME NEW part PROVE ~buffer(part).owner
    <3>1. buffer(part).owner = (part \in OwnerOf(layout))
      BY Zenon
    <3>2. QED
      BY <1>2, <1>7, <3>1, Zenon
  <2> HIDE DEF buffer
  <2>2. QED
    BY <1>3, <2>1, Zenon
<1>8. QED
  BY <1>4, <1>5, <1>6, <1>7, Zenon

\* The balance of all packets, with the owners by name.
LEMMA OnceByOwners ==
  ReleasedOnce <=>
    \A p \in DOMAIN packets :
      Balanced(packets[p], chain.held = p, Cardinality(Owners(p)))
  BY DEF ReleasedOnce, Forgotten, Holders, Owners, Balanced

\* A packet that is new, and one that is given up unprocessed.
LEMMA TagHolds ==
  ASSUME EncInv, EncEnter \/ EncTag \/ EncProcessFails
  PROVE  EncHolds' /\ ReleasedOnce'
<1> USE DEF EncInv, EncControl, EncHolds
<1>1. Len(packets) \in Nat /\ DOMAIN packets = 1..Len(packets)
  OBVIOUS
<1>2. buffers' = buffers
  BY DEF EncEnter, EncTag, EncProcessFails
<1>3. \A p : Owners(p)' = Owners(p)
  BY <1>2 DEF Owners
<1>4. CASE EncEnter
  <2>1. packets' = packets /\ chain'.held = chain.held /\ chain'.pc = "entered"
        /\ chain.pc = "idle"
    BY <1>4 DEF EncEnter, Waiting
  <2>2. QED
    BY <1>2, <2>1 DEF ReleasedOnce, Forgotten, Holders
<1>5. CASE EncTag
  <2> DEFINE e == [tag |-> session, used |-> NotUsed, empty |-> FALSE, released |-> 0]
             n == Len(packets) + 1
  <2>1. /\ chain.held = 0 /\ chain'.pc = "tagged" /\ chain'.held = n
        /\ packets' = Append(packets, e)
    BY <1>5 DEF EncTag
  <2>2. e \in Packet /\ e.used = NotUsed /\ ~e.empty /\ e.released = 0
    BY DEF Packet
  <2> HIDE DEF e
  <2>3. /\ packets' \in Seq(Packet) /\ DOMAIN packets' = (DOMAIN packets) \cup {n}
        /\ packets'[n] = e /\ n \notin DOMAIN packets
        /\ \A p \in DOMAIN packets : packets'[p] = packets[p]
    BY <1>1, <2>1, <2>2
  <2>4. EncHolds'
    BY <1>2, <2>1, <2>2, <2>3
  <2>5. ASSUME NEW p \in DOMAIN packets', packets'[p].used # NotUsed
        PROVE  p \in DOMAIN packets /\ chain.held # p /\ chain'.held # p
    BY <1>1, <2>1, <2>2, <2>3, <2>5
  <2>6. ASSUME NEW p \in DOMAIN packets'
        PROVE  Balanced(packets'[p], chain'.held = p, Cardinality(Owners(p)'))
    <3>1. CASE p = n
      BY <2>2, <2>3, <3>1 DEF Balanced
    <3>2. CASE p \in DOMAIN packets
      BY <1>3, <2>1, <2>3, <2>5, <3>2, OnceByOwners DEF Balanced
    <3>3. QED
      BY <2>3, <3>1, <3>2
  <2>7. ReleasedOnce'
    BY <2>6 DEF ReleasedOnce, Forgotten, Holders, Owners, Balanced
  <2>8. QED
    BY <2>4, <2>7
<1>6. CASE EncProcessFails
  <2>1. packets' = packets /\ chain'.held = 0 /\ chain'.pc = "idle"
        /\ chain.pc = "tagged" /\ 0 \notin DOMAIN packets
    BY <1>1, <1>6 DEF EncProcessFails, Waiting
  <2>2. \A p \in DOMAIN packets : packets[p].used # NotUsed => chain.held # p
    BY <2>1
  <2>3. EncHolds'
    BY <1>2, <2>1
  <2>4. ReleasedOnce'
    BY <1>2, <2>1, <2>2 DEF ReleasedOnce, Forgotten, Holders
  <2>5. QED
    BY <2>3, <2>4
<1>7. QED
  BY <1>4, <1>5, <1>6

\* The manager processes the packet: from then on it is to be released.
LEMMA ProcessHolds ==
  ASSUME EncInv, NEW layout \in Layouts, EncProcess(layout)
  PROVE  EncHolds' /\ ReleasedOnce'
<1> USE DEF EncInv, EncControl, EncHolds
<1> DEFINE q == chain.held
<1>1. /\ q \in DOMAIN packets /\ packets[q].used = NotUsed /\ packets[q] \in Packet
      /\ chain'.pc = "encrypted" /\ chain'.held = q
      /\ chain'.layout = layout /\ layout \in KnownLayouts \ {"fail"} /\ buffers' = buffers
  BY LayoutAssumption DEF EncProcess
<1>2. packets' = [packets EXCEPT ![q] = [@ EXCEPT !.used = session, !.empty = (layout = "empty")]]
  BY DEF EncProcess
<1>3. /\ DOMAIN packets' = DOMAIN packets
      /\ packets'[q] = [packets[q] EXCEPT !.used = session, !.empty = (layout = "empty")]
      /\ \A p \in DOMAIN packets : p # q => packets'[p] = packets[p]
  BY <1>1, <1>2
<1>4. /\ packets'[q] \in Packet /\ packets'[q].used # NotUsed
      /\ (packets'[q].empty <=> layout = "empty") /\ packets'[q].released = packets[q].released
  <2> DEFINE s == packets'[q]
             r == packets[q]
  <2>1. session \in Nat /\ r \in Packet
        /\ s = [r EXCEPT !.used = session, !.empty = (layout = "empty")]
    BY <1>1, <1>3
  <2> HIDE DEF s, r, EncInv, EncControl, EncHolds
  <2>2. /\ r.tag \in Nat /\ r.released \in Nat
        /\ r = [tag |-> r.tag, used |-> r.used, empty |-> r.empty, released |-> r.released]
    BY <2>1 DEF Packet
  <2>3. s = [tag |-> r.tag, used |-> session, empty |-> (layout = "empty"),
             released |-> r.released]
    BY <2>1, <2>2
  <2>4. (layout = "empty") \in BOOLEAN
    OBVIOUS
  <2>5. /\ s \in Packet /\ s.used = session /\ (s.empty <=> layout = "empty")
        /\ s.released = r.released
    BY <2>1, <2>2, <2>3, <2>4, Zenon DEF Packet
  <2>6. QED
    BY <2>1, <2>5 DEF NotUsed, s, r
<1>5. packets' \in Seq(Packet)
  <2>1. Len(packets) \in Nat /\ DOMAIN packets = 1..Len(packets)
    OBVIOUS
  <2>2. packets' = [p \in 1..Len(packets) |-> packets'[p]]
    BY <1>2, <1>3, <2>1
  <2>3. \A p \in 1..Len(packets) : packets'[p] \in Packet
    BY <1>1, <1>3, <1>4, <2>1
  <2>4. QED
    BY <2>1, <2>2, <2>3
<1>6. EncHolds'
  BY <1>1, <1>3, <1>4, <1>5
<1>7. \A p : Owners(p)' = Owners(p)
  BY <1>1 DEF Owners
<1>8. packets[q].released = 0 /\ Cardinality(Owners(q)) = 0
  <2>1. Owners(q) = {}
    BY <1>1, OwnersFinite
  <2>2. packets[q].released = 0
    BY <1>1 DEF ReleasedOnce
  <2>3. QED
    BY <2>1, <2>2, FS_EmptySet
<1>9. ASSUME NEW p \in DOMAIN packets'
      PROVE  Balanced(packets'[p], chain'.held = p, Cardinality(Owners(p)'))
  <2>1. CASE p = q
    BY <1>1, <1>4, <1>7, <1>8, <2>1 DEF Balanced
  <2>2. CASE p # q
    BY <1>1, <1>3, <1>7, <2>2, OnceByOwners DEF Balanced
  <2>3. QED
    BY <2>1, <2>2
<1>10. ReleasedOnce'
  BY <1>9 DEF ReleasedOnce, Forgotten, Holders, Owners, Balanced
<1>11. QED
  BY <1>6, <1>10

\* chain() releases the packet itself when it cannot copy the header.
LEMMA CannotCopyHolds ==
  ASSUME EncInv, EncCannotCopy
  PROVE  EncHolds' /\ ReleasedOnce'
<1> USE DEF EncInv, EncControl, EncHolds
<1> DEFINE q == chain.held
<1>1. /\ q \in DOMAIN packets /\ packets[q].used # NotUsed /\ packets[q] \in Packet
      /\ chain'.pc = "idle" /\ chain'.held = 0 /\ buffers' = buffers
      /\ ~packets[q].empty
  BY DEF EncCannotCopy, Waiting
<1>2. packets' = [packets EXCEPT ![q].released = @ + 1]
  BY DEF EncCannotCopy
<1>3. /\ DOMAIN packets' = DOMAIN packets
      /\ packets'[q] = [packets[q] EXCEPT !.released = @ + 1]
      /\ \A p \in DOMAIN packets : p # q => packets'[p] = packets[p]
  BY <1>1, <1>2
<1>4. /\ packets'[q] \in Packet /\ packets'[q].used = packets[q].used
      /\ (packets'[q].empty <=> packets[q].empty) /\ packets'[q].released = packets[q].released + 1
  BY <1>1, <1>3, PacketRelease
<1>5. packets' \in Seq(Packet)
  <2>1. Len(packets) \in Nat /\ DOMAIN packets = 1..Len(packets)
    OBVIOUS
  <2>2. packets' = [p \in 1..Len(packets) |-> packets'[p]]
    BY <1>2, <1>3, <2>1
  <2>3. \A p \in 1..Len(packets) : packets'[p] \in Packet
    BY <1>1, <1>3, <1>4, <2>1
  <2>4. QED
    BY <2>1, <2>2, <2>3
<1>6. EncHolds'
  BY <1>1, <1>3, <1>4, <1>5
<1>7. \A p : Owners(p)' = Owners(p)
  BY <1>1 DEF Owners
<1>8. packets[q].released = 0 /\ Cardinality(Owners(q)) = 0 /\ 0 \notin DOMAIN packets
  BY <1>1, OwnersFinite, FS_EmptySet
<1>9. ASSUME NEW p \in DOMAIN packets'
      PROVE  Balanced(packets'[p], chain'.held = p, Cardinality(Owners(p)'))
  <2>1. CASE p = q
    BY <1>1, <1>4, <1>7, <1>8, <2>1 DEF Balanced
  <2>2. CASE p # q
    BY <1>1, <1>3, <1>7, <1>8, <2>2, OnceByOwners DEF Balanced
  <2>3. QED
    BY <2>1, <2>2
<1>10. ReleasedOnce'
  BY <1>9 DEF ReleasedOnce, Forgotten, Holders, Owners, Balanced
<1>11. QED
  BY <1>6, <1>10

\* The list takes the packet over: one of its buffers owns it, if there is data.
LEMMA BuildHolds ==
  ASSUME EncInv, EncBuild
  PROVE  EncHolds' /\ ReleasedOnce'
<1> USE DEF EncInv, EncControl, EncHolds
<1> DEFINE q == chain.held
           B == BuffersOf(chain.held, chain.layout)
<1>1. /\ q \in DOMAIN packets /\ packets[q].used # NotUsed /\ packets' = packets
      /\ chain'.pc = "pushing" /\ chain'.held = 0 /\ buffers' = buffers \cup B
      /\ q \in Nat /\ chain.layout \in KnownLayouts \ {"fail", "nocopy"}
      /\ 0 \notin DOMAIN packets /\ (packets[q].empty <=> chain.layout = "empty")
  BY DEF EncBuild
<1>2. /\ B \subseteq Buffer /\ IsFiniteSet(B) /\ \A b \in B : b.packet = q
      /\ IF chain.layout = "empty" THEN \A b \in B : ~b.owner
         ELSE \E o : {b \in B : b.owner} = {o}
  BY <1>1, ListBuffers
<1> HIDE DEF B
<1>3. IsFiniteSet(buffers') /\ buffers' \subseteq Buffer
  BY <1>1, <1>2, FS_Union
<1>4. EncHolds'
  BY <1>1, <1>2, <1>3
<1>5. Owners(q) = {} /\ packets[q].released = 0
  BY <1>1, OwnersFinite
<1>6. \A p : Owners(p)' = Owners(p) \cup {b \in B : b.owner /\ b.packet = p}
  BY <1>1 DEF Owners
<1>7. ASSUME NEW p, p = q, chain.layout # "empty" PROVE Cardinality(Owners(p)') = 1
  <2>1. PICK o : {b \in B : b.owner} = {o}
    BY <1>2, <1>7
  <2>2. {b \in B : b.owner /\ b.packet = p} = {b \in B : b.owner}
    BY <1>2, <1>7
  <2>3. Owners(p) = {}
    BY <1>5, <1>7
  <2>4. Owners(p)' = {o}
    BY <1>6, <2>1, <2>2, <2>3
  <2>5. QED
    BY <2>4, FS_Singleton
<1>8. \A p : p # q => Owners(p)' = Owners(p)
  BY <1>2, <1>6
<1>9. ASSUME NEW p \in DOMAIN packets'
      PROVE  Balanced(packets'[p], chain'.held = p, Cardinality(Owners(p)'))
  <2>1. CASE p = q
    BY <1>1, <1>5, <1>7, <2>1 DEF Balanced
  <2>2. CASE p # q
    BY <1>1, <1>8, <2>2, OnceByOwners DEF Balanced
  <2>3. QED
    BY <2>1, <2>2
<1>10. ReleasedOnce'
  BY <1>9 DEF ReleasedOnce, Forgotten, Holders, Owners, Balanced
<1>11. QED
  BY <1>4, <1>10

\* Downstream lets go of buffers: their owners release the packets.
LEMMA UnrefHolds ==
  ASSUME EncInv, NEW bs \in SUBSET buffers, Unref(bs), chain' = chain \/ EncReturn
  PROVE  EncHolds' /\ ReleasedOnce'
<1> USE DEF EncInv, EncControl, EncHolds
<1> DEFINE gone(p) == {b \in bs : b.owner /\ b.packet = p}
<1>0. /\ chain'.held = chain.held
      /\ chain' = chain \/ (chain'.pc = "idle" /\ chain.held = 0)
  BY DEF EncReturn, Waiting
<1>1. /\ buffers' = buffers \ bs
      /\ packets' = [p \in DOMAIN packets |->
                       [packets[p] EXCEPT !.released = @ + Cardinality(gone(p))]]
  BY DEF Unref, Released
<1>2. /\ IsFiniteSet(bs) /\ IsFiniteSet(buffers') /\ buffers' \subseteq buffers
  BY <1>1, FS_Subset
<1>3. ASSUME NEW p \in DOMAIN packets
      PROVE  /\ IsFiniteSet(gone(p)) /\ Cardinality(gone(p)) \in Nat
             /\ Cardinality(Owners(p)) \in Nat
             /\ Cardinality(Owners(p)') = Cardinality(Owners(p)) - Cardinality(gone(p))
  <2>1. gone(p) \subseteq Owners(p) /\ Owners(p)' = Owners(p) \ gone(p)
    BY <1>1 DEF Owners
  <2>2. IsFiniteSet(Owners(p)) /\ Cardinality(Owners(p)) \in Nat
    BY OwnersFinite
  <2> HIDE DEF gone
  <2>3. IsFiniteSet(gone(p)) /\ Owners(p) \cap gone(p) = gone(p)
    BY <2>1, <2>2, FS_Subset
  <2>4. Cardinality(gone(p)) \in Nat
    BY <2>3, FS_CardinalityType
  <2>5. Cardinality(Owners(p) \ gone(p)) = Cardinality(Owners(p)) - Cardinality(Owners(p) \cap gone(p))
    BY <2>2, FS_Difference
  <2>6. QED
    BY <2>1, <2>2, <2>3, <2>4, <2>5
<1>4. ASSUME NEW p \in DOMAIN packets
      PROVE  /\ packets'[p] \in Packet /\ packets'[p].used = packets[p].used
             /\ (packets'[p].empty <=> packets[p].empty)
             /\ packets'[p].released = packets[p].released + Cardinality(gone(p))
             /\ packets[p].released \in Nat
  <2> DEFINE n == Cardinality(gone(p))
  <2>1. packets'[p] = [packets[p] EXCEPT !.released = @ + n]
    BY <1>1
  <2>2. n \in Nat
    BY <1>3, Zenon
  <2>3. packets[p] \in Packet /\ packets[p].released \in Nat
    BY EncPacketFields
  <2> HIDE DEF n
  <2>4. /\ packets'[p] \in Packet /\ packets'[p].used = packets[p].used
        /\ (packets'[p].empty <=> packets[p].empty)
        /\ packets'[p].released = packets[p].released + n
    BY <2>1, <2>2, <2>3, PacketRelease
  <2>5. QED
    BY <2>3, <2>4 DEF n
<1>5. DOMAIN packets' = DOMAIN packets
  BY <1>1
<1>6. packets' \in Seq(Packet)
  <2>1. Len(packets) \in Nat /\ DOMAIN packets = 1..Len(packets)
    OBVIOUS
  <2>2. packets' = [p \in 1..Len(packets) |-> packets'[p]]
    BY <1>1, <2>1
  <2>3. \A p \in 1..Len(packets) : packets'[p] \in Packet
    BY <1>4, <2>1
  <2>4. QED
    BY <2>1, <2>2, <2>3
<1>7. EncHolds'
  <2>1. \A b \in buffers' : /\ b.packet \in DOMAIN packets' /\ packets'[b.packet].used # NotUsed
                            /\ b.owner => ~packets'[b.packet].empty
    BY <1>2, <1>4, <1>5
  <2>2. CASE chain' = chain
    BY <1>2, <1>4, <1>5, <1>6, <2>1, <2>2
  <2>3. CASE chain'.pc = "idle" /\ chain'.held = 0
    BY <1>2, <1>6, <2>1, <2>3
  <2>4. QED
    BY <1>0, <2>2, <2>3
<1>8. ASSUME NEW p \in DOMAIN packets'
      PROVE  Balanced(packets'[p], chain'.held = p, Cardinality(Owners(p)'))
  <2> DEFINE n == Cardinality(gone(p))
             c == Cardinality(Owners(p))
             c2 == Cardinality(Owners(p)')
  <2>1. /\ p \in DOMAIN packets /\ n \in Nat /\ c \in Nat /\ c2 = c - n
        /\ packets'[p].used = packets[p].used /\ (packets'[p].empty <=> packets[p].empty)
        /\ packets[p].released \in Nat
        /\ packets'[p].released = packets[p].released + n
        /\ (chain'.held = p <=> chain.held = p)
    <3>1. p \in DOMAIN packets
      BY <1>5
    <3>2. chain'.held = chain.held
      BY <1>0
    <3> HIDE DEF EncInv, EncControl, EncHolds, gone
    <3>3. QED
      BY <1>3, <1>4, <3>1, <3>2
  <2>2. Balanced(packets[p], chain.held = p, c)
    BY <2>1, OnceByOwners
  <2>3. ASSUME packets[p].used = NotUsed \/ packets[p].empty PROVE n = 0
    <3>1. Owners(p) = {}
      BY <2>1, <2>3, OwnersFinite
    <3>2. gone(p) = {}
      BY <3>1 DEF Owners
    <3>3. QED
      BY <3>2, FS_EmptySet
  <2> HIDE DEF n, c, c2
  <2>4. Balanced(packets'[p], chain'.held = p, c2)
    BY <2>1, <2>2, <2>3 DEF Balanced
  <2>5. QED
    BY <2>4 DEF c2
<1>9. ReleasedOnce'
  BY <1>8 DEF ReleasedOnce, Forgotten, Holders, Owners, Balanced
<1>10. QED
  BY <1>7, <1>9

\* The packets' owners are those of the invariant, from the start ...
LEMMA EncInvInit == EncInit => EncInv
  BY FS_EmptySet DEF EncInit, EncInv, EncControl, EncHolds, ReleasedOnce, Waiting

\* ... and after every step of dtcpenc.
LEMMA EncInvKept ==
  ASSUME EncInv, [EncNext]_encVars
  PROVE  EncInv'
<1>1. EncControl'
  BY EncControlKept DEF EncInv
<1>2. EncHolds' /\ ReleasedOnce'
  <2>1. ASSUME packets' = packets, buffers' = buffers, chain'.held = chain.held,
               chain'.pc = chain.pc, chain'.layout = chain.layout
        PROVE  EncHolds' /\ ReleasedOnce'
    BY <2>1 DEF EncInv, EncHolds, ReleasedOnce, Forgotten, Holders
  <2>2. CASE EncApplication
    BY <2>1, <2>2 DEF EncApplication, EncNullToReady, EncReadyToPaused,
       EncPausedToReady, EncReadyToNull, ResetDelete, ResetForget, ResetCreate
  <2>3. CASE EncBeforePush
    BY <2>3, TagHolds, ProcessHolds, CannotCopyHolds DEF EncBeforePush
  <2>4. CASE EncBuild
    BY <2>4, BuildHolds
  <2>5. CASE Downstream
    BY <2>5, UnrefHolds DEF Downstream
  <2>6. ASSUME NEW bs \in SUBSET buffers, EncReturn, Unref(bs)
        PROVE  EncHolds' /\ ReleasedOnce'
    BY <2>6, UnrefHolds
  <2>7. CASE UNCHANGED encVars
    BY <2>1, <2>7 DEF encVars
  <2>8. QED
    BY <2>2, <2>3, <2>4, <2>5, <2>6, <2>7 DEF EncNext
<1>3. QED
  BY <1>1, <1>2 DEF EncInv

\* What the manager processed is handed back exactly once, by the one who has it then,
\* whichever way chain() returns and however late downstream frees its buffers, and a
\* packet of a header without data never once it is pushed (gst_dtcp_enc_chain(), the
\* free functions of the buffers); for any set of layouts.
THEOREM ReleasedOnceTheorem == EncSpec => []ReleasedOnce
<1>1. EncInv /\ [EncNext]_encVars => EncInv'
  BY EncInvKept
<1>2. EncInv => ReleasedOnce
  BY DEF EncInv
<1>3. QED
  BY EncInvInit, <1>1, <1>2, PTL DEF EncSpec

-----------------------------------------------------------------------------
(* The composition.                                                        *)

\* Every step of the server is one of dtcpenc, or dtcpenc does not notice it.
LEMMA StepOfEnc == [ServerNext]_serverVars => [EncNext]_encVars
<1> SUFFICES ASSUME [ServerNext]_serverVars PROVE [EncNext]_encVars
  OBVIOUS
<1>1. CASE \/ SinkStateChange \/ ChangeSocket \/ RenderPart \/ RenderNoBuffer
           \/ SendPart \/ TurnAway
  BY <1>1 DEF SinkStateChange, ChangeSocket, RenderPart, RenderNoBuffer, SendPart, TurnAway
<1>2. CASE EncStateChange \/ Reset
  BY <1>2 DEF EncStateChange, Reset, EncNext, EncApplication
<1>3. CASE BeforePush \/ Push
  BY <1>3 DEF BeforePush, Push, EncNext
<1>4. CASE PushReturn
  <2>1. buffers \ lastSample \in SUBSET buffers
    OBVIOUS
  <2>2. QED
    BY <1>4, <2>1 DEF PushReturn, EncNext
<1>5. CASE ForgetSample
  <2>1. lastSample \in SUBSET buffers
    BY <1>5 DEF ForgetSample, Unref
  <2>2. QED
    BY <1>5, <2>1 DEF ForgetSample, EncNext, Downstream
<1>6. CASE UNCHANGED serverVars
  BY <1>6 DEF serverVars
<1>7. QED
  BY <1>1, <1>2, <1>3, <1>4, <1>5, <1>6 DEF ServerNext

\* Every step of the server is one of httpsink, or httpsink does not notice it.
LEMMA StepOfSink == [ServerNext]_serverVars => [SinkNext]_sinkVars
<1> SUFFICES ASSUME [ServerNext]_serverVars PROVE [SinkNext]_sinkVars
  OBVIOUS
<1>1. CASE EncStateChange \/ Reset \/ BeforePush \/ Push \/ TurnAway \/ PushReturn
           \/ ForgetSample
  BY <1>1 DEF EncStateChange, Reset, BeforePush, Push, TurnAway, PushReturn, ForgetSample
<1>2. CASE SinkStateChange \/ ChangeSocket
  BY <1>2 DEF SinkStateChange, ChangeSocket, SinkNext, SinkApplication
<1>3. CASE RenderPart
  BY <1>3, PartSizeAssumption DEF RenderPart, SinkNext
<1>4. CASE SendPart \/ RenderNoBuffer
  BY <1>4 DEF SendPart, RenderNoBuffer, SinkNext
<1>5. CASE UNCHANGED serverVars
  BY <1>5 DEF serverVars
<1>6. QED
  BY <1>1, <1>2, <1>3, <1>4, <1>5 DEF ServerNext

\* The composition implements dtcpenc: what is proved of EncSpec holds in the pipeline
\* (gst_dtcp_enc_chain() pushes to the sink, whose base class frees the list).
THEOREM ServerImplementsEnc == ServerSpec => EncSpec
<1>1. ServerInit => EncInit
  BY DEF ServerInit
<1>2. QED
  BY <1>1, StepOfEnc, PTL DEF ServerSpec, EncSpec

\* The composition implements httpsink (gst_http_sink_render() is called with the parts
\* of dtcpenc's lists).
THEOREM ServerImplementsSink == ServerSpec => SinkSpec
<1>1. ServerInit => SinkInit
  BY DEF ServerInit
<1>2. QED
  BY <1>1, StepOfSink, PTL DEF ServerSpec, SinkSpec

\* What the elements promise holds in the pipeline that serves a protected stream.
THEOREM ServerSafety ==
  ServerSpec => /\ []ReleasedOnce
                /\ [](FramesIntact /\ SentSizeExplained)
                /\ NewSocketKept
  BY ServerImplementsEnc, ServerImplementsSink, ReleasedOnceTheorem, FramesIntactTheorem,
     SentSizeExplainedTheorem, NewSocketKeptTheorem, PTL

-----------------------------------------------------------------------------
(* Sessions.                                                               *)

Known(tag) == tag \in live \cup resetAway

\* Downstream has at most the last sample when no push is under way, and nothing when
\* dtcpenc is not in PAUSED.
ListGone ==
  /\ chain.pc # "pushing" => todo = <<>> /\ buffers \subseteq lastSample
  /\ encState # "PAUSED" => chain.pc = "idle" /\ buffers = {}

\* The session, and the sessions of the packets that someone has, exist or were reset.
SessionsKnown ==
  /\ session = 0 \/ Known(session)
  /\ reset # "idle" => 0 \in resetAway
  /\ chain.pc = "entered" /\ session = 0 => 0 \in resetAway
  /\ chain.pc \in {"tagged", "encrypted"} => Known(packets[chain.held].tag)
  /\ \A b \in buffers : Known(packets[b.packet].tag)

ServerInv == EncInv /\ ListGone /\ SessionsKnown

\* No step changes what session a packet carries.
LEMMA TagsKept ==
  ASSUME EncInv, [EncNext]_encVars
  PROVE  \A p \in DOMAIN packets : p \in DOMAIN packets' /\ packets'[p].tag = packets[p].tag
<1> USE DEF EncInv, EncHolds
<1>1. Len(packets) \in Nat /\ DOMAIN packets = 1..Len(packets)
  OBVIOUS
<1>2. CASE packets' = packets
  BY <1>2
<1>3. CASE EncTag
  BY <1>1, <1>3 DEF EncTag
<1>4. ASSUME NEW layout \in Layouts, EncProcess(layout)
      PROVE  \A p \in DOMAIN packets : p \in DOMAIN packets' /\ packets'[p].tag = packets[p].tag
  BY <1>4 DEF EncProcess, Packet
<1>5. CASE EncCannotCopy
  BY <1>5 DEF EncCannotCopy, Packet
<1>6. ASSUME NEW bs \in SUBSET buffers, Unref(bs)
      PROVE  \A p \in DOMAIN packets : p \in DOMAIN packets' /\ packets'[p].tag = packets[p].tag
  <2>1. ASSUME NEW r \in Packet, NEW n
        PROVE  [r EXCEPT !.released = @ + n].tag = r.tag
    BY DEF Packet
  <2>2. /\ DOMAIN packets' = DOMAIN packets
        /\ \A p \in DOMAIN packets :
             packets'[p] = [packets[p] EXCEPT !.released =
                              @ + Cardinality({b \in bs : b.owner /\ b.packet = p})]
    BY <1>6, Zenon DEF Unref, Released
  <2>3. ASSUME NEW p \in DOMAIN packets PROVE packets'[p].tag = packets[p].tag
    <3>1. packets[p] \in Packet
      BY EncPacketFields
    <3> DEFINE n == Cardinality({b \in bs : b.owner /\ b.packet = p})
    <3>2. packets'[p] = [packets[p] EXCEPT !.released = @ + n]
      BY <2>2, Zenon
    <3> HIDE DEF n
    <3>3. QED
      BY <2>1, <3>1, <3>2
  <2>4. QED
    BY <2>2, <2>3
<1>7. QED
  BY <1>2, <1>3, <1>4, <1>5, <1>6 DEF EncNext, EncApplication, EncNullToReady,
     EncReadyToPaused, EncPausedToReady, EncReadyToNull, ResetDelete, ResetForget,
     ResetCreate, EncBeforePush, EncEnter, EncProcessFails, EncBuild, Downstream, encVars

\* Only the way to NULL makes a session unknown.
LEMMA KnownKept ==
  ASSUME [EncNext]_encVars, ~EncReadyToNull, NEW tag, Known(tag)
  PROVE  tag \in live' \cup resetAway'
<1> USE DEF Known
<1>1. CASE live' = live /\ resetAway' = resetAway
  BY <1>1
<1>2. CASE EncNullToReady \/ ResetCreate
  BY <1>2 DEF EncNullToReady, ResetCreate, CreateSession
<1>3. CASE ResetDelete
  BY <1>3 DEF ResetDelete
<1>4. QED
  BY <1>1, <1>2, <1>3 DEF EncNext, EncApplication, EncReadyToPaused, EncPausedToReady,
     ResetForget, EncBeforePush, EncEnter, EncTag, EncProcess, EncProcessFails,
     EncCannotCopy, EncBuild, EncReturn, Downstream, sessionVars, encVars

\* The list is gone when chain() and the base class are out.
LEMMA ListGoneKept ==
  ASSUME ListGone, EncControl, [ServerNext]_serverVars
  PROVE  ListGone'
<1> USE DEF ListGone
<1>1. CASE EncStateChange
  BY <1>1 DEF EncStateChange, EncNullToReady, EncReadyToPaused, EncPausedToReady,
     EncReadyToNull, Waiting, baseVars
<1>2. CASE Reset
  BY <1>2 DEF Reset, ResetDelete, ResetForget, ResetCreate, baseVars
<1>3. CASE BeforePush
  <2>1. UNCHANGED <<todo, lastSample>>
    BY <1>3 DEF BeforePush, baseVars
  <2>2. CASE EncEnter \/ EncTag
    BY <2>1, <2>2 DEF EncEnter, EncTag, Waiting, sessionVars
  <2>3. CASE EncProcessFails \/ EncCannotCopy
    BY <2>1, <2>3 DEF EncProcessFails, EncCannotCopy, Waiting, sessionVars
  <2>4. ASSUME NEW layout \in Layouts, EncProcess(layout) PROVE ListGone'
    BY <2>1, <2>4 DEF EncProcess, sessionVars
  <2>5. QED
    BY <1>3, <2>2, <2>3, <2>4 DEF BeforePush, EncBeforePush
<1>4. CASE Push
  BY <1>4 DEF Push, EncBuild, sessionVars, EncControl
<1>5. CASE RenderPart
  BY <1>5 DEF RenderPart, encVars
<1>6. CASE TurnAway \/ RenderNoBuffer
  BY <1>6 DEF TurnAway, RenderNoBuffer, encVars
<1>7. CASE PushReturn
  BY <1>7 DEF PushReturn, EncReturn, Unref, Waiting, sessionVars, baseVars
<1>8. CASE ForgetSample
  BY <1>8 DEF ForgetSample, Unref, sessionVars
<1>9. CASE SinkStateChange \/ ChangeSocket \/ SendPart \/ UNCHANGED serverVars
  BY <1>9 DEF SinkStateChange, ChangeSocket, SendPart, serverVars, encVars, baseVars
<1>10. QED
  BY <1>1, <1>2, <1>3, <1>4, <1>5, <1>6, <1>7, <1>8, <1>9 DEF ServerNext

\* The sessions stay known.
LEMMA SessionsKept ==
  ASSUME ServerInv, [ServerNext]_serverVars
  PROVE  SessionsKnown'
<1> USE DEF ServerInv, SessionsKnown, EncInv, EncControl, Known
<1>1. [EncNext]_encVars
  BY StepOfEnc
<1>2. \A p \in DOMAIN packets : p \in DOMAIN packets' /\ packets'[p].tag = packets[p].tag
  BY <1>1, TagsKept
<1>3. CASE EncReadyToNull
  BY <1>3 DEF EncReadyToNull, ListGone
<1>4. ASSUME ~EncReadyToNull PROVE SessionsKnown'
  <2>1. \A tag : tag \in live \cup resetAway => tag \in live' \cup resetAway'
    BY <1>1, <1>4, KnownKept DEF Known
  <2>2. session' = 0 \/ Known(session)'
    <3>1. CASE EncNullToReady \/ ResetCreate
      BY <3>1 DEF EncNullToReady, ResetCreate, CreateSession, Known
    <3>2. CASE session' \in {session, 0}
      BY <2>1, <3>2
    <3>3. QED
      BY <1>1, <1>4, <3>1, <3>2 DEF EncNext, EncApplication, EncReadyToPaused,
         EncPausedToReady, ResetDelete, ResetForget, EncBeforePush, EncEnter, EncTag,
         EncProcess, EncProcessFails, EncCannotCopy, EncBuild, EncReturn, Downstream,
         sessionVars, encVars
  <2>3. reset' # "idle" => 0 \in resetAway'
    BY <1>1, <1>4 DEF EncNext, EncApplication, EncNullToReady, EncReadyToPaused,
       EncPausedToReady, ResetDelete, ResetForget, ResetCreate, EncBeforePush, EncEnter,
       EncTag, EncProcess, EncProcessFails, EncCannotCopy, EncBuild, EncReturn,
       Downstream, sessionVars, encVars
  <2>4. chain'.pc = "entered" /\ session' = 0 => 0 \in resetAway'
    <3>1. CASE EncNullToReady
      BY <3>1 DEF EncNullToReady, ListGone
    <3>2. CASE ResetDelete \/ ResetForget \/ ResetCreate
      BY <3>2 DEF ResetDelete, ResetForget, ResetCreate
    <3>3. CASE UNCHANGED <<session, resetAway>> /\ (EncEnter \/ chain' = chain \/ chain'.pc # "entered")
      BY <3>3 DEF EncEnter
    <3>4. ASSUME NEW layout \in Layouts, EncProcess(layout)
          PROVE  UNCHANGED <<session, resetAway>> /\ chain'.pc # "entered"
      BY <3>4 DEF EncProcess, sessionVars
    <3>5. CASE EncBuild
      BY <3>5 DEF EncBuild, sessionVars
    <3>6. QED
      BY <1>1, <1>4, <3>1, <3>2, <3>3, <3>4, <3>5 DEF EncNext, EncApplication,
         EncReadyToPaused, EncPausedToReady, EncBeforePush, EncEnter, EncTag,
         EncProcessFails, EncCannotCopy, EncReturn, Downstream, sessionVars, encVars,
         Waiting
  <2>5. chain'.pc \in {"tagged", "encrypted"} => Known(packets[chain.held].tag)'
    <3>1. CASE EncTag
      <4> DEFINE e == [tag |-> session, used |-> NotUsed, empty |-> FALSE, released |-> 0]
      <4>1. packets \in Seq(Packet) /\ e \in Packet
        BY DEF EncHolds, Packet
      <4>2. chain.pc = "entered" /\ chain'.held = Len(packets) + 1
            /\ packets' = Append(packets, e) /\ UNCHANGED <<live, resetAway>>
        BY <3>1 DEF EncTag, sessionVars
      <4>3. e.tag = session
        OBVIOUS
      <4> HIDE DEF e
      <4>4. packets'[chain'.held] = e
        BY <4>1, <4>2
      <4>5. Known(session)
        BY <4>2 DEF Known
      <4>6. QED
        BY <2>1, <4>3, <4>4, <4>5
    <3>2. CASE /\ chain.pc \in {"tagged", "encrypted"} /\ chain'.held = chain.held
      <4>1. chain.held \in DOMAIN packets
        BY <3>2 DEF EncHolds
      <4>2. packets'[chain'.held].tag = packets[chain.held].tag
        BY <1>2, <3>2, <4>1
      <4>3. QED
        BY <2>1, <3>2, <4>2
    <3>3. CASE chain'.pc \notin {"tagged", "encrypted"}
      BY <3>3
    <3>4. CASE EncEnter \/ EncBuild
      BY <3>3, <3>4 DEF EncEnter, EncBuild
    <3>5. ASSUME NEW layout \in Layouts, EncProcess(layout)
          PROVE  chain.pc \in {"tagged", "encrypted"} /\ chain'.held = chain.held
      BY <3>5 DEF EncProcess
    <3>6. CASE chain' = chain
      BY <3>2, <3>3, <3>6
    <3>7. CASE chain' = Waiting
      BY <3>3, <3>7 DEF Waiting
    <3>8. QED
      BY <1>1, <1>4, <3>1, <3>2, <3>4, <3>5, <3>6, <3>7 DEF EncNext, EncApplication,
         EncNullToReady, EncReadyToPaused, EncPausedToReady, ResetDelete, ResetForget,
         ResetCreate, EncBeforePush, EncProcessFails, EncCannotCopy, EncReturn,
         Downstream, encVars
  <2>6. \A b \in buffers' : packets'[b.packet].tag \in live' \cup resetAway'
    <3>1. CASE buffers' \subseteq buffers
      BY <1>2, <2>1, <3>1 DEF EncHolds
    <3>2. CASE EncBuild
      <4>1. /\ chain.pc = "encrypted" /\ chain.layout # "nocopy"
            /\ buffers' = buffers \cup BuffersOf(chain.held, chain.layout)
        BY <3>2 DEF EncBuild
      <4>2. /\ chain.held \in Nat /\ chain.held \in DOMAIN packets
            /\ chain.layout \in KnownLayouts \ {"fail", "nocopy"}
        BY <4>1 DEF EncHolds
      <4>3. \A b \in BuffersOf(chain.held, chain.layout) : b.packet = chain.held
        BY <4>2, ListBuffers
      <4>4. Known(packets[chain.held].tag)
        BY <4>1
      <4>5. \A b \in buffers' : b.packet \in DOMAIN packets /\ Known(packets[b.packet].tag)
        BY <4>1, <4>2, <4>3, <4>4 DEF EncHolds
      <4>6. QED
        BY <1>2, <2>1, <4>5
    <3>3. QED
      BY <1>1, <1>4, <3>1, <3>2 DEF EncNext, EncApplication, EncNullToReady,
         EncReadyToPaused, EncPausedToReady, ResetDelete, ResetForget, ResetCreate,
         EncBeforePush, EncEnter, EncTag, EncProcess, EncProcessFails, EncCannotCopy,
         EncReturn, Downstream, Unref, encVars
  <2>7. QED
    BY <2>2, <2>3, <2>4, <2>5, <2>6
<1>5. QED
  BY <1>3, <1>4

\* The sessions of the packets in the pipeline are known.
LEMMA KnownSuffices == ServerInv => PacketsHaveSessions
<1> SUFFICES ASSUME ServerInv, NEW p \in DOMAIN packets, Holders(p) > 0
             PROVE  Known(packets[p].tag)
  BY DEF PacketsHaveSessions, Known
<1> USE DEF ServerInv, SessionsKnown, EncInv, EncControl, EncHolds
<1>1. CASE chain.held = p
  <2>1. p # 0
    OBVIOUS
  <2>2. QED
    BY <1>1, <2>1
<1>2. CASE chain.held # p
  <2>1. ASSUME {b \in buffers : b.owner /\ b.packet = p} = {} PROVE FALSE
    <3>1. Cardinality({b \in buffers : b.owner /\ b.packet = p}) = 0
      BY <2>1, FS_EmptySet, Zenon
    <3>2. QED
      BY <1>2, <3>1 DEF Holders
  <2>2. QED
    BY <2>1
<1>3. QED
  BY <1>1, <1>2

\* Only a reset takes a session away from a packet that was not handed back yet
\* (gst_dtcp_enc_change_state() deletes it in READY to NULL).
THEOREM PacketsHaveSessionsTheorem == ServerSpec => []PacketsHaveSessions
<1>1. ServerInit => ServerInv
  <2>1. ServerInit => EncInv
    BY EncInvInit DEF ServerInit
  <2>2. QED
    BY <2>1 DEF ServerInit, EncInit, ServerInv, ListGone, SessionsKnown, Waiting
<1>2. ServerInv /\ [ServerNext]_serverVars => ServerInv'
  BY StepOfEnc, EncInvKept, ListGoneKept, SessionsKept DEF ServerInv, EncInv
<1>3. QED
  BY <1>1, <1>2, KnownSuffices, PTL DEF ServerSpec
=============================================================================
