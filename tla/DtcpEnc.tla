------------------------------- MODULE DtcpEnc -------------------------------
(***************************************************************************)
(* The dtcpenc element (src/dtcpencrypt/gstdtcpenc.c): chain() has the     *)
(* DTCP manager encrypt each buffer and pushes a list of up to three       *)
(* buffers, the PCP header and the data before and after the place where   *)
(* it belongs.  One of the data buffers owns the manager's packet and      *)
(* releases it when downstream lets go of the buffer; if there are none,   *)
(* because the manager gave a header and no data, nobody does.             *)
(*                                                                         *)
(* The session belongs to the element: NULL to READY creates it, READY to  *)
(* NULL deletes it, and the property "reset" exchanges it, without a lock, *)
(* while chain() may be anywhere.  The manager is external; a handle is a  *)
(* number it gives out once, 0 is no session.                              *)
(***************************************************************************)
EXTENDS Integers, Sequences, FiniteSets

CONSTANTS
  Layouts,      \* what ProcessPacket may return, see KnownLayouts
  MaxPackets,   \* bound on the buffers that arrive
  MaxSessions,  \* bound on the sessions created
  MaxResets     \* bound on the application's resets

\* No header, a header before, within or after the data, a header without data; "fail"
\* is a negative result, "nocopy" a header that could not be copied.
KnownLayouts == {"bare", "front", "middle", "end", "empty", "fail", "nocopy"}

ASSUME LayoutAssumption == Layouts \subseteq KnownLayouts
ASSUME EncBoundsAssumption == MaxPackets \in Nat /\ MaxSessions \in Nat /\ MaxResets \in Nat

VARIABLES
  encState,     \* the element's state: "NULL", "READY" or "PAUSED" (or PLAYING)
  session,      \* pDtcpSession
  live,         \* the manager's sessions
  created,      \* how many it has created
  resetAway,    \* history: the handles a reset took away
  reset,        \* set_property(PROP_RESET): where it is
  chain,        \* chain(): where it is, its packet and that packet's layout
  packets,      \* the packets so far: tag is packet->session, see Packet
  buffers,      \* the buffers downstream may still look at
  resets        \* bounded counter

encVars == <<encState, session, live, created, resetAway, reset, chain, packets,
             buffers, resets>>

\* used: the handle ProcessPacket was given (NotUsed before that), empty: whether the
\* manager gave it a header and no data, released: how often ReleasePacket was called.
NotUsed == -1
Packet == [tag : Nat, used : Nat \cup {NotUsed}, empty : BOOLEAN, released : Nat]
Parts == {"before", "header", "after"}
Buffer == [packet : Nat, part : Parts, owner : BOOLEAN]
Waiting == [pc |-> "idle", layout |-> "bare", held |-> 0]

sessionVars == <<encState, session, live, created, resetAway, reset, resets>>

-----------------------------------------------------------------------------
\* The parts of the list that is pushed, in its order ...
PartsOf(layout) ==
  CASE layout = "bare" -> <<"after">>
    [] layout = "front" -> <<"header", "after">>
    [] layout = "middle" -> <<"before", "header", "after">>
    [] layout = "end" -> <<"before", "header">>
    [] layout = "empty" -> <<"header">>

\* Mutant: the first section always owns the packet, as if there were one.
OwnerOf_First(layout) ==
  CASE layout = "empty" -> {}
    [] layout \in {"middle", "end"} -> {"before", "after"}
    [] OTHER -> {"after"}

\* ... and the one whose free function releases the packet: the second section, or
\* the first if the header comes last.  Without data there is neither.
OwnerOf(layout) ==
  CASE layout = "empty" -> {}
    [] layout = "end" -> {"before"}
    [] OTHER -> {"after"}

BuffersOf(p, layout) ==
  {[packet |-> p, part |-> part, owner |-> part \in OwnerOf(layout)] :
     part \in {PartsOf(layout)[j] : j \in DOMAIN PartsOf(layout)}}

\* What becomes of the packets when the buffers bs are freed: every free function
\* calls ReleasePacket.
Released(ps, bs) ==
  [p \in DOMAIN ps |->
    [ps[p] EXCEPT !.released = @ + Cardinality({b \in bs : b.owner /\ b.packet = p})]]

\* Downstream lets go of the buffers bs.
Unref(bs) ==
  /\ bs \subseteq buffers
  /\ buffers' = buffers \ bs /\ packets' = Released(packets, bs)

-----------------------------------------------------------------------------
EncInit ==
  /\ encState = "NULL" /\ session = 0 /\ live = {} /\ created = 0
  /\ resetAway = {} /\ reset = "idle" /\ chain = Waiting
  /\ packets = <<>> /\ buffers = {} /\ resets = 0

-----------------------------------------------------------------------------
(* The application: state changes and the property "reset".                *)

\* DTCPMgrCreateSourceSession(): a new handle, or a negative result.
CreateSession ==
  \/ /\ created < MaxSessions
     /\ created' = created + 1 /\ live' = live \cup {created'} /\ session' = created'
  \/ session' = 0 /\ UNCHANGED <<created, live>>

\* The state changes whether there is a session or not.
EncNullToReady ==
  /\ encState = "NULL" /\ reset = "idle"
  /\ encState' = "READY"
  /\ CreateSession
  /\ UNCHANGED <<resetAway, reset, resets, chain, packets, buffers>>

EncReadyToPaused ==
  /\ encState = "READY" /\ reset = "idle"
  /\ encState' = "PAUSED"
  /\ UNCHANGED <<session, live, created, resetAway, reset, resets, chain, packets, buffers>>

\* Mutant: the base class is not waited for, the pad is left to the streaming thread.
EncPausedToReady_NoWait ==
  /\ encState = "PAUSED" /\ reset = "idle"
  /\ encState' = "READY"
  /\ UNCHANGED <<session, live, created, resetAway, reset, resets, chain, packets, buffers>>

\* The base class deactivates the pads, for which chain() has to return.
EncPausedToReady ==
  /\ encState = "PAUSED" /\ reset = "idle" /\ chain = Waiting
  /\ encState' = "READY"
  /\ UNCHANGED <<session, live, created, resetAway, reset, resets, chain, packets, buffers>>

EncReadyToNull ==
  /\ encState = "READY" /\ reset = "idle"
  /\ encState' = "NULL" /\ live' = live \ {session} /\ session' = 0
  /\ UNCHANGED <<created, resetAway, reset, resets, chain, packets, buffers>>

\* PROP_RESET deletes the session, ...
ResetDelete ==
  /\ reset = "idle" /\ encState # "NULL" /\ resets < MaxResets
  /\ reset' = "deleted" /\ resets' = resets + 1
  /\ live' = live \ {session} /\ resetAway' = resetAway \cup {session, 0}
  /\ UNCHANGED <<encState, session, created, chain, packets, buffers>>

\* ... forgets it ...
ResetForget ==
  /\ reset = "deleted"
  /\ reset' = "forgotten" /\ session' = 0
  /\ UNCHANGED <<encState, live, created, resetAway, resets, chain, packets, buffers>>

\* ... and creates another.
ResetCreate ==
  /\ reset = "forgotten"
  /\ reset' = "idle"
  /\ CreateSession
  /\ UNCHANGED <<encState, resetAway, resets, chain, packets, buffers>>

-----------------------------------------------------------------------------
(* chain(), called by upstream's thread while the pads are active.         *)

\* A buffer is refused, unread and with an error, while there is no session, and so is
\* an empty one, with success.
EncEnter ==
  /\ encState = "PAUSED" /\ chain = Waiting /\ session # 0 /\ Len(packets) < MaxPackets
  /\ chain' = [chain EXCEPT !.pc = "entered"]
  /\ UNCHANGED <<sessionVars, packets, buffers>>

\* The packet carries the session as it is now ...
EncTag ==
  /\ chain.pc = "entered"
  /\ packets' = Append(packets,
       [tag |-> session, used |-> NotUsed, empty |-> FALSE, released |-> 0])
  /\ chain' = [pc |-> "tagged", layout |-> "bare", held |-> Len(packets) + 1]
  /\ UNCHANGED <<sessionVars, buffers>>

\* ... and DTCPMgrProcessPacket() gets it as it is then.
EncProcess(layout) ==
  /\ chain.pc = "tagged" /\ layout # "fail" /\ session \in live
  /\ packets' = [packets EXCEPT ![chain.held] =
       [@ EXCEPT !.used = session, !.empty = (layout = "empty")]]
  /\ chain' = [chain EXCEPT !.pc = "encrypted", !.layout = layout]
  /\ UNCHANGED <<sessionVars, buffers>>

\* A packet that was not processed is freed and not released.
EncProcessFails ==
  /\ chain.pc = "tagged" /\ ("fail" \in Layouts \/ session \notin live)
  /\ chain' = Waiting
  /\ UNCHANGED <<sessionVars, packets, buffers>>

\* chain() still has the packet when it gives up the list.
EncCannotCopy ==
  /\ chain.pc = "encrypted" /\ chain.layout = "nocopy"
  /\ packets' = [packets EXCEPT ![chain.held].released = @ + 1]
  /\ chain' = Waiting
  /\ UNCHANGED <<sessionVars, buffers>>

\* Mutant: "packet = NULL" is missing, chain() releases what it has given away.
EncBuild_KeepsPacket ==
  /\ chain.pc = "encrypted" /\ chain.layout # "nocopy"
  /\ buffers' = buffers \cup BuffersOf(chain.held, chain.layout)
  /\ packets' = [packets EXCEPT ![chain.held].released = @ + 1]
  /\ chain' = [chain EXCEPT !.pc = "pushing"]
  /\ UNCHANGED sessionVars

\* The list gets the packet, and is pushed; chain() forgets it, owner or not.
EncBuild ==
  /\ chain.pc = "encrypted" /\ chain.layout # "nocopy"
  /\ buffers' = buffers \cup BuffersOf(chain.held, chain.layout)
  /\ chain' = [chain EXCEPT !.pc = "pushing", !.held = 0]
  /\ UNCHANGED <<sessionVars, packets>>

EncReturn ==
  /\ chain.pc = "pushing"
  /\ chain' = Waiting
  /\ UNCHANGED sessionVars

-----------------------------------------------------------------------------
EncApplication ==
  \/ EncNullToReady \/ EncReadyToPaused \/ EncPausedToReady \/ EncReadyToNull
  \/ ResetDelete \/ ResetForget \/ ResetCreate

EncBeforePush ==
  \/ EncEnter \/ EncTag \/ EncProcessFails \/ EncCannotCopy
  \/ \E layout \in Layouts : EncProcess(layout)

\* Downstream lets go of buffers whenever it likes, and as the push returns.
Downstream ==
  \E bs \in SUBSET buffers : Unref(bs) /\ UNCHANGED <<sessionVars, chain>>

EncNext ==
  \/ EncApplication \/ EncBeforePush \/ EncBuild \/ Downstream
  \/ EncReturn /\ \E bs \in SUBSET buffers : Unref(bs)

EncSpec == EncInit /\ [][EncNext]_encVars

-----------------------------------------------------------------------------
\* The variables stay in their domains, and a packet is with chain() only while it
\* works on it.
EncTypeOK ==
  /\ encState \in {"NULL", "READY", "PAUSED"}
  /\ session \in Nat /\ live \subseteq Nat /\ created \in Nat /\ resetAway \subseteq Nat
  /\ reset \in {"idle", "deleted", "forgotten"} /\ resets \in Nat
  /\ chain.pc \in {"idle", "entered", "tagged", "encrypted", "pushing"}
  /\ chain.layout \in KnownLayouts /\ chain.held \in 0..Len(packets)
  /\ packets \in Seq(Packet)
  /\ buffers \subseteq Buffer

\* Whoever has a packet: chain(), until it pushes, or the buffers that own it.
Holders(p) ==
  (IF chain.held = p THEN 1 ELSE 0) + Cardinality({b \in buffers : b.owner /\ b.packet = p})

\* chain() gave up a packet whose list has no buffer to own it.
Forgotten(p) == packets[p].empty /\ chain.held # p

\* What the manager processed is handed back exactly once, by the one who has it then,
\* whichever way chain() returns and however late downstream frees its buffers, but for
\* a header without data, whose packet is never handed back once it is pushed.  What
\* the manager did not process is not handed back either.
ReleasedOnce ==
  \A p \in DOMAIN packets :
    IF packets[p].used = NotUsed \/ Forgotten(p) THEN packets[p].released = 0
    ELSE packets[p].released + Holders(p) = 1

\* Only a reset takes a session away from a packet that was not handed back yet: by
\* the time the element deletes it (READY to NULL), the pipeline holds no packet.
PacketsHaveSessions ==
  \A p \in DOMAIN packets :
    Holders(p) > 0 => packets[p].tag \in live \cup resetAway
=============================================================================
