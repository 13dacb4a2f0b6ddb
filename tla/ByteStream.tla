------------------------------ MODULE ByteStream ------------------------------
(***************************************************************************)
(* What a source element promises about the bytes of a session, whatever   *)
(* threads and queues it has inside: they go downstream in order and once, *)
(* and none is left out before the last push.  After a flushing seek bytes *)
(* may be left out, but the order holds from the flush on.                 *)
(***************************************************************************)
EXTENDS Integers

VARIABLES
  accepted,     \* how many bytes the element has taken from the server
  delivered,    \* how many it has pushed downstream
  next,         \* the place of the byte after those of the last push
  gap,          \* a push did not start at next
  flushed       \* there was a flush in this session

streamVars == <<accepted, delivered, next, gap, flushed>>

\* next, right after a flush.
Anywhere == -1

StreamInit ==
  accepted = 0 /\ delivered = 0 /\ next = 0 /\ gap = FALSE /\ flushed = FALSE

Accept ==
  /\ accepted' > accepted
  /\ UNCHANGED <<delivered, next, gap, flushed>>

\* The bytes that came last are thrown away, but for those already delivered.
GiveUp ==
  /\ accepted' \in 0..accepted /\ accepted' >= next
  /\ UNCHANGED <<delivered, next, gap, flushed>>

\* A push, of bytes that were accepted and not of earlier ones than before.
Deliver(from) ==
  /\ from >= next /\ (gap => flushed)
  /\ next' \in from..accepted
  /\ delivered' = delivered + (next' - from)
  /\ gap' = (gap \/ next \notin {from, Anywhere})
  /\ UNCHANGED <<accepted, flushed>>

Flush ==
  /\ next' = Anywhere /\ gap' = FALSE /\ flushed' = TRUE
  /\ UNCHANGED <<accepted, delivered>>

\* The next session.
Reset == StreamInit'

StreamNext ==
  Accept \/ GiveUp \/ (\E from \in 0..accepted : Deliver(from)) \/ Flush \/ Reset

StreamSpec == StreamInit /\ [][StreamNext]_streamVars
=============================================================================
