------------------------------ MODULE HttpSink -------------------------------
(***************************************************************************)
(* The httpsink element (src/httpsink/gsthttpsink.c): render() writes each *)
(* buffer to the socket in http_obj, as one HTTP chunk (length line, data, *)
(* line end, one send() each) or, for a linear stream, as it is.  The      *)
(* length line always fits its buffer of 32 bytes.  The application hands  *)
(* the socket over, or takes it back, with the property "http obj"         *)
(* whenever it likes; http_obj_mutex is held for the whole of render(),    *)
(* the blocking send()s included.                                          *)
(*                                                                         *)
(* wire is the environment's side: how each connection's byte stream       *)
(* stands.  It is between chunks ("whole"), in one ("head", "body"), short *)
(* of bytes the last send() did not take, mixed by bytes written after     *)
(* that, cut off by a failed send(), or garbled by bytes written after a   *)
(* failed send() or, with none missing, out of place.                      *)
(***************************************************************************)
EXTENDS Integers

CONSTANTS
  Sockets,              \* descriptors of accepted connections
  NoSocket,             \* -1
  HeadSize, TailSize,   \* bytes of the length line and of the line end
  Modulus,              \* 2^64: sent_data_size is a guint64
  MaxRequests,          \* bound on the application's writes of "http obj"
  MaxNulls,             \* bound on calls of render() without a buffer
  MaxPlays              \* bound on changes to PLAYING

ASSUME SocketAssumption == NoSocket \notin Sockets
ASSUME SizeAssumption ==
  /\ HeadSize \in Nat \ {0} /\ TailSize \in Nat \ {0} /\ Modulus \in Nat \ {0}
ASSUME SinkBoundsAssumption ==
  MaxRequests \in Nat /\ MaxNulls \in Nat /\ MaxPlays \in Nat

VARIABLES
  httpObj, sendError, sentDataSize, isBlocked, isChunked,
  hasBus,               \* whether a message the element posts reaches a bus
  sinkState,            \* the element's state
  mutex,                \* how often the streaming thread has locked http_obj_mutex
  render,               \* render(): where it is, its socket and its buffer's size
  request,              \* the application's pending write of "http obj"
  wire,                 \* the connections
  bytes,                \* history of this PLAYING, modulo Modulus: bytes sent, detached renders
  nulls,                \* calls of render() without a buffer
  requests, plays       \* bounded counters

sinkVars == <<httpObj, sendError, sentDataSize, isBlocked, isChunked, hasBus,
              sinkState, mutex, render, request, wire, bytes, nulls, requests, plays>>

propVars == <<isChunked, hasBus>>
countVars == <<sentDataSize, bytes>>
appVars == <<request, requests, plays, sinkState>>
lockVars == <<mutex, nulls>>

NoRequest == "none"
Standings == {"whole", "head", "body", "short", "mixed", "cut", "garbled"}
Descriptors == Sockets \cup {NoSocket}
SendPcs == {"linear", "head", "body", "tail"}
Idle == [pc |-> "idle", fd |-> NoSocket, size |-> 0]

-----------------------------------------------------------------------------
\* How many bytes the send() at pc is asked for.
Asked(pc, size) == CASE pc = "head" -> HeadSize [] pc = "tail" -> TailSize [] OTHER -> size

\* Where render() goes from there.
After(pc) == CASE pc = "head" -> "body" [] pc = "body" -> "tail" [] OTHER -> "done"

\* What a connection was like before the bytes of pc belong there, and is after them.
Before(pc) == IF pc \in {"head", "linear"} THEN "whole" ELSE IF pc = "body" THEN "head" ELSE "body"
Written(w, pc, all) ==
  CASE w \in {"cut", "garbled"} -> "garbled"
    [] w \in {"short", "mixed"} -> "mixed"
    [] w = Before(pc) -> IF ~all THEN "short" ELSE IF pc \in {"head", "body"} THEN pc ELSE "whole"
    [] OTHER -> "garbled"

-----------------------------------------------------------------------------
\* The application may have set the socket already.
SinkInit ==
  /\ httpObj \in Descriptors /\ sendError = FALSE /\ sentDataSize = 0 /\ isBlocked = FALSE
  /\ isChunked \in BOOLEAN /\ hasBus \in BOOLEAN
  /\ sinkState = "READY" /\ mutex = 0 /\ nulls = 0 /\ render = Idle
  /\ request = NoRequest /\ wire = [s \in Sockets |-> "whole"]
  /\ bytes = [sent |-> 0, detached |-> 0]
  /\ requests = 0 /\ plays = 0

-----------------------------------------------------------------------------
(* The application.                                                        *)

\* It gives the element an open connection that the element does not have, or takes
\* back what it has.
RequestSocket(s) ==
  /\ request = NoRequest /\ requests < MaxRequests
  /\ s # httpObj /\ (s \in Sockets => wire[s] \notin {"cut", "garbled"})
  /\ request' = s /\ requests' = requests + 1
  /\ UNCHANGED <<httpObj, sendError, isBlocked, propVars, countVars, sinkState, lockVars,
                 render, wire, plays>>

\* Mutant: the property is set without the mutex.
SetHttpObj_Unlocked ==
  /\ request # NoRequest
  /\ httpObj' = request /\ request' = NoRequest
  /\ UNCHANGED <<sendError, isBlocked, propVars, countVars, sinkState, lockVars, render,
                 wire, requests, plays>>

\* set_property(PROP_HTTP_OBJ) waits for the mutex.
SetHttpObj ==
  /\ request # NoRequest /\ mutex = 0
  /\ httpObj' = request /\ request' = NoRequest
  /\ UNCHANGED <<sendError, isBlocked, propVars, countVars, sinkState, lockVars, render,
                 wire, requests, plays>>

\* READY to PAUSED.
SinkReadyToPaused ==
  /\ sinkState = "READY"
  /\ sinkState' = "PAUSED" /\ sendError' = FALSE
  /\ UNCHANGED <<httpObj, isBlocked, propVars, countVars, lockVars, render, request, wire,
                 requests, plays>>

\* PAUSED to PLAYING starts the counting anew.
SinkPausedToPlaying ==
  /\ sinkState = "PAUSED" /\ plays < MaxPlays
  /\ sinkState' = "PLAYING" /\ plays' = plays + 1
  /\ sentDataSize' = 0 /\ sendError' = FALSE /\ bytes' = [sent |-> 0, detached |-> 0]
  /\ UNCHANGED <<httpObj, isBlocked, propVars, lockVars, render, request, wire, requests>>

\* The base class takes its preroll lock, which render() is called with.
SinkPlayingToPaused ==
  /\ sinkState = "PLAYING" /\ render = Idle
  /\ sinkState' = "PAUSED"
  /\ UNCHANGED <<httpObj, sendError, isBlocked, propVars, countVars, lockVars, render,
                 request, wire, requests, plays>>

SinkPausedToReady ==
  /\ sinkState = "PAUSED" /\ render = Idle
  /\ sinkState' = "READY"
  /\ UNCHANGED <<httpObj, sendError, isBlocked, propVars, countVars, lockVars, render,
                 request, wire, requests, plays>>

-----------------------------------------------------------------------------
(* render(), called by the base class in PLAYING.  The mutex is recursive, *)
(* so the streaming thread gets it, however often it has locked it.        *)

RenderCall(size, pc) ==
  /\ sinkState = "PLAYING" /\ render = Idle
  /\ mutex' = mutex + 1 /\ render' = [pc |-> pc, fd |-> httpObj, size |-> size]
  /\ UNCHANGED <<httpObj, sendError, propVars, wire, nulls, appVars>>

\* Without a buffer render() returns at once, and keeps the mutex.
RenderNull ==
  /\ sinkState = "PLAYING" /\ render = Idle /\ nulls < MaxNulls
  /\ mutex' = mutex + 1 /\ nulls' = nulls + 1
  /\ UNCHANGED <<httpObj, sendError, isBlocked, propVars, countVars, render, wire, appVars>>

\* A linear stream looks at the socket only.
RenderLinear(size) ==
  /\ ~isChunked /\ httpObj # NoSocket
  /\ RenderCall(size, "linear")
  /\ UNCHANGED <<isBlocked, countVars>>

\* Without one, the -1 that sockRet was set to is added to the count.
RenderDetached(size) ==
  /\ ~isChunked /\ httpObj = NoSocket
  /\ RenderCall(size, "done")
  /\ sentDataSize' = (sentDataSize - 1) % Modulus
  /\ bytes' = [bytes EXCEPT !.detached = (@ + 1) % Modulus]
  /\ UNCHANGED isBlocked

RenderChunk(size) ==
  /\ isChunked /\ httpObj # NoSocket /\ ~sendError
  /\ RenderCall(size, "head")
  /\ isBlocked' = TRUE
  /\ UNCHANGED countVars

\* A chunked stream is silent after an error, whatever socket it is given.
RenderNothing(size) ==
  /\ isChunked /\ (httpObj = NoSocket \/ sendError)
  /\ RenderCall(size, "done")
  /\ UNCHANGED <<isBlocked, countVars>>

RenderStart(size) ==
  RenderLinear(size) \/ RenderDetached(size) \/ RenderChunk(size) \/ RenderNothing(size)

\* send() takes n of the bytes.  There is no loop for the rest.
Send(n) ==
  /\ render.pc \in SendPcs /\ n \in 1..Asked(render.pc, render.size)
  /\ sentDataSize' = (sentDataSize + n) % Modulus
  /\ bytes' = [bytes EXCEPT !.sent = (@ + n) % Modulus]
  /\ wire' = [wire EXCEPT ![render.fd] =
                Written(@, render.pc, n = Asked(render.pc, render.size))]
  /\ render' = [render EXCEPT !.pc = After(@)]
  /\ UNCHANGED <<httpObj, sendError, isBlocked, propVars, lockVars, appVars>>

\* Mutant: the socket is kept, as if the error were not the connection's.
OnError_KeepsSocket == IF hasBus THEN sendError' = TRUE /\ UNCHANGED httpObj
                       ELSE UNCHANGED <<sendError, httpObj>>

\* onError() gives the socket up once its message is posted, and leaves both
\* variables alone if there is no bus to post it on.
OnError ==
  IF hasBus THEN sendError' = TRUE /\ httpObj' = NoSocket ELSE UNCHANGED <<sendError, httpObj>>

\* Mutant: the early return keeps the mutex.
SendFails_KeepsMutex ==
  /\ render.pc \in SendPcs
  /\ OnError
  /\ wire' = [wire EXCEPT ![render.fd] = IF @ = "garbled" THEN @ ELSE "cut"]
  /\ isBlocked' = FALSE /\ render' = Idle
  /\ UNCHANGED <<propVars, countVars, appVars, lockVars>>

\* send() returns -1: the rest of the buffer is dropped and render() returns.
SendFails ==
  /\ render.pc \in SendPcs
  /\ OnError
  /\ wire' = [wire EXCEPT ![render.fd] = IF @ = "garbled" THEN @ ELSE "cut"]
  /\ isBlocked' = FALSE /\ mutex' = mutex - 1 /\ render' = Idle
  /\ UNCHANGED <<propVars, countVars, appVars, nulls>>

RenderReturn ==
  /\ render.pc = "done"
  /\ isBlocked' = FALSE /\ mutex' = mutex - 1 /\ render' = Idle
  /\ UNCHANGED <<httpObj, sendError, propVars, countVars, wire, appVars, nulls>>

-----------------------------------------------------------------------------
SinkApplication ==
  \/ \E s \in Descriptors : RequestSocket(s)
  \/ SetHttpObj
  \/ SinkReadyToPaused \/ SinkPausedToPlaying \/ SinkPlayingToPaused \/ SinkPausedToReady

Sending == SendFails \/ \E n \in 1..Asked(render.pc, render.size) : Send(n)

SinkNext ==
  \/ SinkApplication \/ Sending \/ RenderReturn \/ RenderNull
  \/ \E size \in Nat \ {0} : RenderStart(size)

SinkSpec == SinkInit /\ [][SinkNext]_sinkVars

-----------------------------------------------------------------------------
\* The variables stay in their domains, and the mutex is held once for render() while it
\* is under way and once for every call without a buffer: no other return keeps it.
SinkTypeOK ==
  /\ httpObj \in Descriptors /\ request \in Descriptors \cup {NoRequest}
  /\ sendError \in BOOLEAN /\ isBlocked \in BOOLEAN
  /\ isChunked \in BOOLEAN /\ hasBus \in BOOLEAN
  /\ sentDataSize \in 0..Modulus - 1
  /\ sinkState \in {"READY", "PAUSED", "PLAYING"}
  /\ nulls \in Nat /\ mutex = nulls + (IF render = Idle THEN 0 ELSE 1)
  /\ render.pc \in SendPcs \cup {"idle", "done"} /\ render.fd \in Descriptors
  /\ render.size \in Nat
  /\ wire \in [Sockets -> Standings]
  /\ bytes \in [sent : 0..Modulus - 1, detached : 0..Modulus - 1]
  /\ requests \in Nat /\ plays \in Nat

\* Nothing is written to a connection after a send() on it has failed, and no chunk
\* starts inside another of which nothing is missing, although the application exchanges
\* the socket at any time: only an element that is on no bus goes on after the failure.
\* (A send() that takes a part breaks the framing: nobody sends the rest, see "mixed".)
FramesIntact == \A s \in Sockets : wire[s] = "garbled" => ~hasBus

\* sent_data_size is the number of bytes written in this PLAYING less one for every
\* buffer that a linear stream rendered without a socket.
SentSizeExplained == sentDataSize = (bytes.sent - bytes.detached) % Modulus

\* The description of the property sent_data_size: "total size of data written to socket".
SentSizeIsWritten == sentDataSize = bytes.sent

\* A failing send() only ever takes away the socket it failed on: one that the
\* application sets meanwhile is not lost to an error of the connection before it.
NewSocketKept ==
  [][httpObj # NoSocket /\ httpObj' = NoSocket =>
       request = NoSocket \/ render.fd = httpObj]_sinkVars

\* The application gets the mutex for "http obj", though render() holds it over its
\* send()s, unless render() has been called without a buffer.
SetHttpObjReturns == request # NoRequest ~> request = NoRequest \/ nulls > 0
=============================================================================
