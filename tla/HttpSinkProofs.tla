---------------------------- MODULE HttpSinkProofs ----------------------------
(***************************************************************************)
(* What the HTTP sink never does to a connection, for any number of        *)
(* sockets and requests.  Connections is the inductive invariant: render() *)
(* sends on http_obj only, whose stream stands where the code is; every    *)
(* other connection stands between chunks, short, mixed or cut, and        *)
(* neither the socket the element has nor the one on its way to it is cut. *)
(***************************************************************************)
EXTENDS HttpSink, TLAPS

-----------------------------------------------------------------------------
(* Arithmetic modulo a positive number.                                    *)

\* Division with remainder.
LEMMA DivMod ==
  ASSUME NEW M \in Nat \ {0}, NEW a \in Int
  PROVE  a \div M \in Int /\ a % M \in 0..M - 1 /\ a = M * (a \div M) + (a % M)
  OBVIOUS

\* The only multiple of M strictly between -M and M is 0.
LEMMA SmallMultiple ==
  ASSUME NEW M \in Nat \ {0}, NEW k \in Int, M * k < M, -M < M * k
  PROVE  k = 0
<1>1. CASE k >= 1
  <2>1. M * k >= M * 1
    BY <1>1
  <2>2. QED
    BY <2>1
<1>2. CASE k <= -1
  <2>1. M * k <= M * (-1)
    BY <1>2
  <2>2. QED
    BY <2>1
<1>3. QED
  BY <1>1, <1>2

\* A number has one remainder.
LEMMA UniqueRemainder ==
  ASSUME NEW M \in Nat \ {0}, NEW p \in Int, NEW q \in Int,
         NEW r \in 0..M - 1, NEW s \in 0..M - 1, M * p + r = M * q + s
  PROVE  r = s
<1>1. M * (p - q) = s - r
  OBVIOUS
<1>2. p - q = 0
  BY <1>1, SmallMultiple
<1>3. QED
  BY <1>1, <1>2

\* Adding a multiple of M leaves the remainder.
LEMMA ModShift ==
  ASSUME NEW M \in Nat \ {0}, NEW a \in Int, NEW k \in Int
  PROVE  (a + M * k) % M = a % M
<1> DEFINE b == a + M * k
<1>1. M * k \in Int /\ b \in Int /\ b = a + M * k
  OBVIOUS
<1> HIDE DEF b
<1>2. PICK u \in Int, v \in Int : a = M * u + (a % M) /\ b = M * v + (b % M)
  BY <1>1, DivMod
<1>3. a % M \in 0..M - 1 /\ b % M \in 0..M - 1
  BY <1>1, DivMod
<1>4. M * (u + k) = M * u + M * k
  OBVIOUS
<1>5. u + k \in Int /\ M * u \in Int /\ M * v \in Int
  OBVIOUS
<1>6. M * v + (b % M) = M * (u + k) + (a % M)
  BY <1>1, <1>2, <1>3, <1>4, <1>5
<1>7. b % M = a % M
  BY <1>3, <1>5, <1>6, UniqueRemainder
<1>8. QED
  BY <1>7 DEF b

\* A sum may be reduced before the sum is ...
LEMMA ModAdd ==
  ASSUME NEW M \in Nat \ {0}, NEW a \in Int, NEW n \in Int
  PROVE  ((a % M) + n) % M = (a + n) % M
<1> DEFINE q == a \div M
           b == (a % M) + n
<1>1. q \in Int /\ b \in Int /\ a + n = b + M * q
  BY DivMod
<1> HIDE DEF q, b
<1>2. (b + M * q) % M = b % M
  BY <1>1, ModShift
<1>3. QED
  BY <1>1, <1>2 DEF b

\* ... and so may what is taken away.
LEMMA ModSubtract ==
  ASSUME NEW M \in Nat \ {0}, NEW a \in Int, NEW n \in Int
  PROVE  (a - (n % M)) % M = (a - n) % M
<1> DEFINE q == n \div M
           b == a - n
<1>1. q \in Int /\ b \in Int /\ a - (n % M) = b + M * q
  BY DivMod
<1> HIDE DEF q, b
<1>2. (b + M * q) % M = b % M
  BY <1>1, ModShift
<1>3. QED
  BY <1>1, <1>2 DEF b

-----------------------------------------------------------------------------
(* The invariant.                                                          *)

\* render() is about to send.
InSend == render.pc \in SendPcs

\* The connections a chunk may start on.
Usable(s) == wire[s] \in {"whole", "short", "mixed"}

\* render() holds the mutex, so the socket it sends on is http_obj.
RenderOwns == InSend => render.fd = httpObj /\ httpObj \in Sockets

Connections ==
  hasBus =>
    /\ \A s \in Sockets :
         IF InSend /\ s = httpObj THEN wire[s] \in {Before(render.pc), "short", "mixed"}
         ELSE wire[s] \in {"whole", "short", "mixed", "cut"}
    /\ ~InSend /\ httpObj \in Sockets => Usable(httpObj)
    /\ request # NoRequest /\ request \in Sockets => request # httpObj /\ Usable(request)

SinkInv == SinkTypeOK /\ RenderOwns /\ Connections

-----------------------------------------------------------------------------
(* Types.                                                                  *)

\* Sums are taken modulo 2^64.
LEMMA ModuloType == \A a \in Int : a % Modulus \in 0..Modulus - 1
  BY SizeAssumption

\* A send() asks for a natural number of bytes.
LEMMA AskedType ==
  ASSUME SinkTypeOK, InSend
  PROVE  Asked(render.pc, render.size) \in Nat
  BY SizeAssumption DEF SinkTypeOK, InSend, SendPcs, Asked

\* Where a send() leaves the connection is a state of a connection.
LEMMA WrittenType ==
  ASSUME NEW w \in Standings, NEW pc \in SendPcs, NEW all \in BOOLEAN
  PROVE  Written(w, pc, all) \in Standings
<1>1. CASE w \in {"short", "mixed", "cut", "garbled"}
  BY <1>1 DEF Written, Standings
<1>2. CASE w \notin {"short", "mixed", "cut", "garbled"} /\ w # Before(pc)
  BY <1>2 DEF Written, Standings
<1>3. CASE w = Before(pc) /\ ~all /\ w \notin {"short", "mixed", "cut", "garbled"}
  BY <1>3 DEF Written, Standings
<1>4. CASE w = Before(pc) /\ all /\ w \notin {"short", "mixed", "cut", "garbled"}
  BY <1>4 DEF Written, Standings, SendPcs
<1>5. QED
  BY <1>1, <1>2, <1>3, <1>4

\* The application's steps keep the types.
LEMMA ApplicationTypes ==
  ASSUME SinkTypeOK, SinkApplication
  PROVE  SinkTypeOK'
<1> USE DEF SinkTypeOK
<1>1. ASSUME NEW s \in Descriptors, RequestSocket(s)
      PROVE  SinkTypeOK'
  BY <1>1 DEF RequestSocket, propVars, countVars, lockVars
<1>2. CASE SetHttpObj
  BY <1>2 DEF SetHttpObj, propVars, countVars, lockVars
<1>3. CASE SinkReadyToPaused
  BY <1>3 DEF SinkReadyToPaused, propVars, countVars, lockVars
<1>4. CASE SinkPausedToPlaying
  <2>1. plays' \in Nat /\ sentDataSize' \in 0..Modulus - 1
        /\ bytes' \in [sent : 0..Modulus - 1, detached : 0..Modulus - 1]
    BY <1>4, SizeAssumption DEF SinkPausedToPlaying
  <2>2. /\ sinkState' = "PLAYING" /\ sendError' = FALSE /\ httpObj' = httpObj
        /\ isBlocked' = isBlocked /\ isChunked' = isChunked /\ hasBus' = hasBus
        /\ mutex' = mutex /\ nulls' = nulls /\ render' = render /\ request' = request
        /\ wire' = wire /\ requests' = requests
    BY <1>4 DEF SinkPausedToPlaying, propVars, lockVars
  <2>3. QED
    BY <2>1, <2>2, Zenon
<1>5. CASE SinkPlayingToPaused
  BY <1>5 DEF SinkPlayingToPaused, propVars, countVars, lockVars
<1>6. CASE SinkPausedToReady
  BY <1>6 DEF SinkPausedToReady, propVars, countVars, lockVars
<1>7. QED
  BY <1>1, <1>2, <1>3, <1>4, <1>5, <1>6 DEF SinkApplication

\* The steps of render() keep the types.
LEMMA RenderTypes ==
  ASSUME SinkTypeOK, NEW size \in Nat \ {0}, RenderStart(size)
  PROVE  SinkTypeOK'
<1> USE DEF SinkTypeOK
<1>1. ASSUME NEW pc \in SendPcs \cup {"done"}, RenderCall(size, pc)
      PROVE  /\ httpObj' \in Descriptors /\ request' \in Descriptors \cup {NoRequest}
             /\ sendError' \in BOOLEAN /\ isChunked' \in BOOLEAN /\ hasBus' \in BOOLEAN
             /\ sinkState' \in {"READY", "PAUSED", "PLAYING"}
             /\ nulls' = nulls /\ mutex' = nulls + 1 /\ render'.pc = pc /\ render'.fd \in Descriptors
             /\ render'.size \in Nat /\ render' # Idle
             /\ wire' \in [Sockets -> Standings]
             /\ requests' \in Nat /\ plays' \in Nat
  BY <1>1 DEF RenderCall, Idle, SendPcs, propVars, appVars
<1>2. CASE RenderDetached(size)
  <2>1. (sentDataSize - 1) % Modulus \in 0..Modulus - 1
        /\ (bytes.detached + 1) % Modulus \in 0..Modulus - 1
    BY ModuloType, SizeAssumption
  <2>2. sentDataSize' \in 0..Modulus - 1
        /\ bytes' \in [sent : 0..Modulus - 1, detached : 0..Modulus - 1]
    BY <1>2, <2>1 DEF RenderDetached
  <2>3. isBlocked' = isBlocked /\ RenderCall(size, "done")
    BY <1>2 DEF RenderDetached
  <2>4. QED
    BY <1>1, <2>2, <2>3, Zenon
<1>3. CASE RenderLinear(size) \/ RenderChunk(size) \/ RenderNothing(size)
  <2>1. PICK pc \in SendPcs \cup {"done"} : RenderCall(size, pc)
    BY <1>3 DEF RenderLinear, RenderChunk, RenderNothing, SendPcs
  <2>2. isBlocked' \in BOOLEAN /\ sentDataSize' = sentDataSize /\ bytes' = bytes
    BY <1>3 DEF RenderLinear, RenderChunk, RenderNothing, countVars
  <2>3. QED
    BY <1>1, <2>1, <2>2, Zenon
<1>4. QED
  BY <1>2, <1>3 DEF RenderStart

\* A send() keeps the types.
LEMMA SendTypes ==
  ASSUME SinkTypeOK, NEW n \in 1..Asked(render.pc, render.size), Send(n), InSend
  PROVE  SinkTypeOK'
<1> USE DEF SinkTypeOK
<1>1. n \in Nat
  BY AskedType
<1>2. sentDataSize' \in 0..Modulus - 1
      /\ bytes' \in [sent : 0..Modulus - 1, detached : 0..Modulus - 1]
  <2>1. (sentDataSize + n) % Modulus \in 0..Modulus - 1
        /\ (bytes.sent + n) % Modulus \in 0..Modulus - 1
    BY <1>1, ModuloType, SizeAssumption
  <2>2. QED
    BY <2>1 DEF Send
<1>3. wire' \in [Sockets -> Standings]
  <2>1. \A s \in Sockets :
          Written(wire[s], render.pc, n = Asked(render.pc, render.size))
            \in Standings
    BY WrittenType, Zenon DEF InSend
  <2>2. QED
    BY <2>1 DEF Send
<1>4. /\ render'.pc \in SendPcs \cup {"done"} /\ render'.fd = render.fd
      /\ render'.size = render.size /\ render' # Idle
  BY DEF Send, After, SendPcs, Idle
<1>5. /\ httpObj' = httpObj /\ request' = request /\ sendError' = sendError
      /\ isBlocked' = isBlocked /\ isChunked' = isChunked /\ hasBus' = hasBus
      /\ sinkState' = sinkState /\ mutex' = mutex /\ nulls' = nulls
      /\ requests' = requests /\ plays' = plays
  BY DEF Send, propVars, appVars, lockVars
<1>6. mutex = nulls + 1
  BY DEF InSend, SendPcs, Idle
<1>7. QED
  BY <1>2, <1>3, <1>4, <1>5, <1>6, Zenon

\* So does a send() that fails, and render()'s return.
LEMMA EndTypes ==
  ASSUME SinkTypeOK, SendFails \/ RenderReturn
  PROVE  SinkTypeOK'
<1> USE DEF SinkTypeOK
<1>0. /\ Idle.pc = "idle" /\ Idle.fd \in Descriptors /\ Idle.size \in Nat
      /\ nulls = nulls + (IF Idle = Idle THEN 0 ELSE 1)
  BY DEF Idle, Descriptors
<1>1. CASE SendFails
  <2>1. wire' \in [Sockets -> Standings]
    <3>1. \A s \in Sockets : (IF wire[s] = "garbled" THEN wire[s] ELSE "cut") \in Standings
      BY DEF Standings
    <3>2. QED
      BY <1>1, <3>1 DEF SendFails
  <2>2. httpObj' \in Descriptors /\ sendError' \in BOOLEAN
    <3>1. CASE hasBus
      BY <1>1, <3>1 DEF SendFails, OnError, Descriptors
    <3>2. CASE ~hasBus
      BY <1>1, <3>2 DEF SendFails, OnError
    <3>3. QED
      BY <3>1, <3>2
  <2>3. /\ isBlocked' = FALSE /\ render' = Idle /\ nulls' = nulls /\ mutex' = nulls
        /\ isChunked' = isChunked /\ hasBus' = hasBus /\ sentDataSize' = sentDataSize
        /\ bytes' = bytes /\ request' = request /\ requests' = requests /\ plays' = plays
        /\ sinkState' = sinkState
    BY <1>1 DEF SendFails, propVars, countVars, appVars, SendPcs, Idle
  <2>4. QED
    BY <1>0, <2>1, <2>2, <2>3, Zenon
<1>2. CASE RenderReturn
  <2>1. /\ isBlocked' = FALSE /\ render' = Idle /\ nulls' = nulls /\ mutex' = nulls
        /\ isChunked' = isChunked /\ hasBus' = hasBus /\ sentDataSize' = sentDataSize
        /\ bytes' = bytes /\ request' = request /\ requests' = requests /\ plays' = plays
        /\ sinkState' = sinkState /\ httpObj' = httpObj /\ sendError' = sendError
        /\ wire' = wire
    BY <1>2 DEF RenderReturn, propVars, countVars, appVars, Idle
  <2>2. QED
    BY <1>0, <2>1, Zenon
<1>3. QED
  BY <1>1, <1>2

\* A call without a buffer leaves all but the mutex.
LEMMA NullKeeps ==
  ASSUME SinkInv, RenderNull
  PROVE  SinkInv'
<1>1. /\ nulls' = nulls + 1 /\ mutex' = mutex + 1
      /\ UNCHANGED <<httpObj, sendError, sentDataSize, isBlocked, isChunked, hasBus,
                     sinkState, render, request, wire, bytes, requests, plays>>
  BY DEF RenderNull, propVars, countVars, appVars
<1>2. SinkTypeOK'
  BY <1>1 DEF SinkInv, SinkTypeOK
<1>3. RenderOwns' /\ Connections'
  BY <1>1 DEF SinkInv, RenderOwns, Connections, InSend, Usable
<1>4. QED
  BY <1>2, <1>3 DEF SinkInv

-----------------------------------------------------------------------------
(* The connections.                                                        *)

\* The application's steps keep the connections in order: a request is for a socket
\* that the element does not have, and the mutex keeps it out of render().
LEMMA ApplicationConnections ==
  ASSUME SinkInv, SinkApplication
  PROVE  RenderOwns' /\ Connections'
<1> USE DEF SinkInv, RenderOwns, InSend
<1>1. ASSUME NEW s \in Descriptors, RequestSocket(s)
      PROVE  RenderOwns' /\ Connections'
  <2>1. /\ httpObj' = httpObj /\ render' = render /\ wire' = wire /\ hasBus' = hasBus
        /\ request' = s /\ s # httpObj /\ (s \in Sockets => wire[s] # "cut")
    BY <1>1 DEF RequestSocket, propVars
  <2>2. QED
    BY <2>1 DEF Connections, Usable
<1>2. CASE SetHttpObj
  <2>1. /\ render' = render /\ wire' = wire /\ hasBus' = hasBus
        /\ httpObj' = request /\ request # NoRequest /\ request' = NoRequest
        /\ render = Idle
    BY <1>2 DEF SetHttpObj, propVars, SinkTypeOK
  <2>2. ~InSend /\ ~InSend'
    BY <2>1 DEF Idle, SendPcs
  <2>3. QED
    BY <2>1, <2>2 DEF Connections, Usable
<1>3. CASE \/ SinkReadyToPaused \/ SinkPausedToPlaying
           \/ SinkPlayingToPaused \/ SinkPausedToReady
  <2>1. /\ render' = render /\ wire' = wire /\ hasBus' = hasBus
        /\ httpObj' = httpObj /\ request' = request
    BY <1>3 DEF SinkReadyToPaused, SinkPausedToPlaying, SinkPlayingToPaused,
                SinkPausedToReady, propVars
  <2>2. QED
    BY <2>1 DEF Connections, Usable
<1>4. QED
  BY <1>1, <1>2, <1>3 DEF SinkApplication

\* render() starts a chunk on a connection that is usable.
LEMMA StartConnections ==
  ASSUME SinkInv, NEW size \in Nat \ {0}, RenderStart(size)
  PROVE  RenderOwns' /\ Connections'
<1> USE DEF SinkInv, RenderOwns, InSend
<1>1. PICK pc \in {"linear", "head", "done"} :
        RenderCall(size, pc) /\ (pc \in SendPcs => httpObj # NoSocket)
  BY DEF RenderStart, RenderLinear, RenderDetached, RenderChunk, RenderNothing, SendPcs
<1>2. /\ httpObj' = httpObj /\ wire' = wire /\ hasBus' = hasBus /\ request' = request
      /\ render'.pc = pc /\ render'.fd = httpObj /\ ~InSend
  BY <1>1 DEF RenderCall, Idle, SendPcs, propVars, appVars
<1>3. pc \in SendPcs => httpObj \in Sockets /\ Before(pc) = "whole"
  BY <1>1 DEF SinkTypeOK, Descriptors, Before, SendPcs
<1>4. RenderOwns'
  BY <1>2, <1>3
<1>5. Connections'
  BY <1>2, <1>3 DEF Connections, Usable
<1>6. QED
  BY <1>4, <1>5

\* A send() moves the connection of http_obj on, or leaves it short.
LEMMA SendConnections ==
  ASSUME SinkInv, InSend, NEW n \in 1..Asked(render.pc, render.size), Send(n)
  PROVE  RenderOwns' /\ Connections'
<1> USE DEF SinkInv, RenderOwns
<1> DEFINE all == n = Asked(render.pc, render.size)
<1>1. /\ httpObj' = httpObj /\ hasBus' = hasBus /\ request' = request
      /\ render'.pc = After(render.pc) /\ render'.fd = httpObj
      /\ httpObj \in Sockets
  BY DEF Send, propVars, appVars, SinkTypeOK
<1>2. /\ wire' = [wire EXCEPT ![httpObj] = Written(@, render.pc, all)]
      /\ wire \in [Sockets -> Standings]
  BY DEF Send, SinkTypeOK
<1>3. /\ wire'[httpObj] = Written(wire[httpObj], render.pc, all)
      /\ \A s \in Sockets \ {httpObj} : wire'[s] = wire[s]
  BY <1>1, <1>2
<1>4. RenderOwns'
  BY <1>1
<1>5. ASSUME hasBus PROVE
        IF After(render.pc) \in SendPcs
        THEN wire'[httpObj] \in {Before(After(render.pc)), "short", "mixed"}
        ELSE wire'[httpObj] \in {"whole", "short", "mixed"}
  <2>1. wire[httpObj] \in {Before(render.pc), "short", "mixed"}
    BY <1>1, <1>5 DEF Connections
  <2>2. CASE wire[httpObj] \in {"short", "mixed"}
    <3>1. Written("short", render.pc, all) = "mixed" /\ Written("mixed", render.pc, all) = "mixed"
      BY DEF Written, Before
    <3>2. QED
      BY <1>3, <2>2, <3>1
  <2> DEFINE w == wire[httpObj]
  <2>a. ASSUME w \notin {"short", "mixed"}
        PROVE  w = Before(render.pc) /\ w \notin {"cut", "garbled"}
    BY <2>1, <2>a DEF Before
  <2>3. CASE w \notin {"short", "mixed"} /\ ~all
    BY <1>3, <2>a, <2>3 DEF Written, Before
  <2>4. CASE w \notin {"short", "mixed"} /\ all
    <3>1. wire'[httpObj] = IF render.pc \in {"head", "body"} THEN render.pc ELSE "whole"
      BY <1>3, <2>a, <2>4 DEF Written, Before
    <3>2. QED
      BY <3>1 DEF After, Before, SendPcs, InSend
  <2>5. QED
    BY <2>2, <2>3, <2>4
<1>6. Connections'
  BY <1>1, <1>3, <1>5 DEF Connections, Usable, InSend
<1>7. QED
  BY <1>4, <1>6

\* A send() that fails cuts the connection that the element then gives up.
LEMMA EndConnections ==
  ASSUME SinkInv, (SendFails /\ InSend) \/ RenderReturn
  PROVE  RenderOwns' /\ Connections'
<1> USE DEF SinkInv, RenderOwns
<1>1. CASE SendFails /\ InSend
  <2>1. /\ render' = Idle /\ hasBus' = hasBus /\ request' = request
        /\ httpObj \in Sockets /\ (hasBus => httpObj' = NoSocket) /\ ~InSend'
    BY <1>1 DEF SendFails, OnError, propVars, appVars, InSend, Idle, SendPcs
  <2>2. /\ \A s \in Sockets \ {httpObj} : wire'[s] = wire[s]
        /\ wire'[httpObj] = IF wire[httpObj] = "garbled" THEN "garbled" ELSE "cut"
    BY <1>1, <2>1 DEF SendFails, SinkTypeOK
  <2>3. hasBus => wire'[httpObj] = "cut"
    BY <1>1, <2>1, <2>2 DEF Connections, Before
  <2>4. QED
    BY <1>1, <2>1, <2>2, <2>3, SocketAssumption DEF Connections, Usable
<1>2. CASE RenderReturn
  <2>1. /\ httpObj' = httpObj /\ wire' = wire /\ hasBus' = hasBus /\ request' = request
        /\ ~InSend /\ ~InSend'
    BY <1>2 DEF RenderReturn, InSend, Idle, SendPcs, propVars, appVars
  <2>2. QED
    BY <2>1 DEF Connections, Usable
<1>3. QED
  BY <1>1, <1>2

-----------------------------------------------------------------------------
(* The theorems.                                                           *)

\* The inductive invariant (gst_http_sink_render(), gst_http_sink_set_property(),
\* gst_http_sink_change_state()).
THEOREM SinkInvariant == SinkSpec => []SinkInv
<1>1. SinkInit => SinkInv
  <2> SUFFICES ASSUME SinkInit PROVE SinkInv
    OBVIOUS
  <2>1. /\ sentDataSize \in 0..Modulus - 1 /\ requests \in Nat /\ plays \in Nat
        /\ bytes \in [sent : 0..Modulus - 1, detached : 0..Modulus - 1]
    BY SizeAssumption DEF SinkInit
  <2>2. render.pc = "idle" /\ render.fd \in Descriptors /\ render.size \in Nat
    BY DEF SinkInit, Idle, Descriptors
  <2>3. \A s \in Sockets : wire[s] = "whole"
    BY DEF SinkInit
  <2>4. wire \in [Sockets -> Standings]
    <3>1. "whole" \in Standings
      BY DEF Standings
    <3>2. QED
      BY <3>1 DEF SinkInit
  <2>5. /\ request \in Descriptors \cup {NoRequest} /\ httpObj \in Descriptors
        /\ sendError = FALSE /\ isBlocked = FALSE /\ isChunked \in BOOLEAN
        /\ hasBus \in BOOLEAN /\ sinkState = "READY" /\ render = Idle
        /\ nulls = 0 /\ mutex = 0
    BY DEF SinkInit
  <2>6. nulls \in Nat /\ mutex = nulls + (IF render = Idle THEN 0 ELSE 1)
    BY <2>5
  <2>9. SinkTypeOK
    BY <2>1, <2>2, <2>4, <2>5, <2>6, Zenon DEF SinkTypeOK
  <2>7. RenderOwns /\ Connections
    BY <2>2, <2>3, <2>5 DEF SinkInit, RenderOwns, Connections, InSend, Usable, SendPcs
  <2>8. QED
    BY <2>7, <2>9 DEF SinkInv
<1>2. SinkInv /\ [SinkNext]_sinkVars => SinkInv'
  <2> SUFFICES ASSUME SinkInv, [SinkNext]_sinkVars PROVE SinkInv'
    OBVIOUS
  <2>1. CASE SinkApplication
    BY <2>1, ApplicationTypes, ApplicationConnections DEF SinkInv
  <2>2. ASSUME NEW size \in Nat \ {0}, RenderStart(size)
        PROVE  SinkInv'
    BY <2>2, RenderTypes, StartConnections DEF SinkInv
  <2>3. ASSUME NEW n \in 1..Asked(render.pc, render.size), Send(n)
        PROVE  SinkInv'
    <3>1. InSend
      BY <2>3 DEF Send, InSend
    <3>2. QED
      BY <2>3, <3>1, SendTypes, SendConnections DEF SinkInv
  <2>4. CASE SendFails \/ RenderReturn
    <3>1. SendFails => InSend
      BY DEF SendFails, InSend
    <3>2. QED
      BY <2>4, <3>1, EndTypes, EndConnections DEF SinkInv
  <2>5. CASE UNCHANGED sinkVars
    BY <2>5 DEF sinkVars, SinkInv, SinkTypeOK, RenderOwns, Connections, InSend, Usable
  <2>6. QED
    BY <2>1, <2>2, <2>3, <2>4, <2>5, NullKeeps DEF SinkNext, Sending
<1>3. QED
  BY <1>1, <1>2, PTL DEF SinkSpec

\* The variables stay in their domains, and http_obj_mutex is locked once for render()
\* while it is under way and once for every call without a buffer: no other return of
\* gst_http_sink_render() keeps it.
THEOREM SinkTypes == SinkSpec => []SinkTypeOK
<1>1. SinkInv => SinkTypeOK
  BY DEF SinkInv
<1>2. QED
  BY <1>1, SinkInvariant, PTL

\* Nothing is written to a connection after a send() on it has failed, even one that was
\* short of bytes before, and no chunk starts inside another of which nothing is missing,
\* although the application exchanges the socket at any time (render() and
\* set_property("http obj") under http_obj_mutex, onError()).
THEOREM FramesIntactTheorem == SinkSpec => []FramesIntact
<1>1. SinkInv => FramesIntact
  <2> SUFFICES ASSUME SinkInv, NEW s \in Sockets, hasBus PROVE wire[s] # "garbled"
    BY DEF FramesIntact, SinkInv, SinkTypeOK
  <2>1. Before(render.pc) # "garbled"
    BY DEF Before
  <2>2. QED
    BY <2>1 DEF SinkInv, Connections
<1>2. QED
  BY <1>1, SinkInvariant, PTL

\* A failing send() takes away only the socket it failed on (onError() sets http_obj
\* to -1 with the mutex held since the socket was read).
THEOREM NewSocketKeptTheorem == SinkSpec => NewSocketKept
<1> DEFINE Kept == httpObj # NoSocket /\ httpObj' = NoSocket =>
                     request = NoSocket \/ render.fd = httpObj
<1>1. SinkInv /\ [SinkNext]_sinkVars => [Kept]_sinkVars
  <2> SUFFICES ASSUME SinkInv, SinkNext, httpObj' # httpObj
               PROVE  request = httpObj' \/ render.fd = httpObj
    BY DEF sinkVars
  <2>1. CASE SinkApplication
    BY <2>1 DEF SinkApplication, RequestSocket, SetHttpObj, SinkReadyToPaused,
       SinkPausedToPlaying, SinkPlayingToPaused, SinkPausedToReady
  <2>2. CASE SendFails
    BY <2>2 DEF SendFails, SinkInv, RenderOwns, InSend
  <2>3. CASE RenderReturn \/ RenderNull \/ \E n \in 1..Asked(render.pc, render.size) : Send(n)
    BY <2>3 DEF RenderReturn, RenderNull, Send
  <2>4. CASE \E size \in Nat \ {0} : RenderStart(size)
    BY <2>4 DEF RenderStart, RenderLinear, RenderDetached, RenderChunk, RenderNothing,
       RenderCall
  <2>5. QED
    BY <2>1, <2>2, <2>3, <2>4 DEF SinkNext, Sending
<1>2. QED
  BY <1>1, SinkInvariant, PTL DEF SinkSpec, NewSocketKept

\* sent_data_size, the 64-bit counter of a PLAYING, is the bytes that send() took less
\* one for every buffer of a linear stream without a socket (sockRet starts at -1 and is
\* added to sent_data_size whether there was a send() or not).
THEOREM SentSizeExplainedTheorem == SinkSpec => []SentSizeExplained
<1>1. SinkInit => SentSizeExplained
  <2>1. 0 - 0 = 0 /\ 0 % Modulus = 0
    BY SizeAssumption
  <2>2. QED
    BY <2>1 DEF SinkInit, SentSizeExplained
<1>2. SinkInv /\ SentSizeExplained /\ [SinkNext]_sinkVars => SentSizeExplained'
  <2> SUFFICES ASSUME SinkInv, SentSizeExplained, [SinkNext]_sinkVars
               PROVE  SentSizeExplained'
    OBVIOUS
  <2>1. /\ bytes \in [sent : 0..Modulus - 1, detached : 0..Modulus - 1]
        /\ sentDataSize = (bytes.sent - bytes.detached) % Modulus
        /\ bytes.sent \in Int /\ bytes.detached \in Int
        /\ bytes.sent - bytes.detached \in Int
    BY DEF SinkInv, SinkTypeOK, SentSizeExplained
  <2>2. CASE UNCHANGED <<sentDataSize, bytes>>
    BY <2>2 DEF SentSizeExplained
  <2>3. CASE SinkPausedToPlaying
    <3>1. sentDataSize' = 0 /\ bytes'.sent = 0 /\ bytes'.detached = 0
      BY <2>3 DEF SinkPausedToPlaying
    <3>2. 0 - 0 = 0 /\ 0 % Modulus = 0
      BY SizeAssumption
    <3>3. QED
      BY <3>1, <3>2 DEF SentSizeExplained
  <2>4. ASSUME NEW size \in Nat \ {0}, RenderDetached(size)
        PROVE  SentSizeExplained'
    <3> DEFINE S == bytes.sent
               x == bytes.sent - bytes.detached
               y == bytes.detached + 1
               m == -1
    <3>1. /\ sentDataSize' = (sentDataSize + m) % Modulus
          /\ bytes'.sent = S /\ bytes'.detached = y % Modulus
      <4>1. sentDataSize - 1 = sentDataSize + m
        BY DEF SinkInv, SinkTypeOK
      <4>2. QED
        BY <2>1, <2>4, <4>1 DEF RenderDetached
    <3>2. /\ S \in Int /\ x \in Int /\ y \in Int /\ m \in Int
          /\ sentDataSize = x % Modulus /\ x + m = S - y
      BY <2>1
    <3> HIDE DEF S, x, y, m
    <3>3. ((x % Modulus) + m) % Modulus = (x + m) % Modulus
      BY <3>2, ModAdd, SizeAssumption
    <3>4. (S - (y % Modulus)) % Modulus = (S - y) % Modulus
      BY <3>2, ModSubtract, SizeAssumption
    <3>5. QED
      BY <3>1, <3>2, <3>3, <3>4 DEF SentSizeExplained
  <2>5. ASSUME NEW n \in 1..Asked(render.pc, render.size), Send(n)
        PROVE  SentSizeExplained'
    <3> DEFINE x == bytes.sent - bytes.detached
               y == bytes.sent + n
               m == -bytes.detached
    <3>1. Asked(render.pc, render.size) \in Nat
      BY <2>5, AskedType DEF SinkInv, Send, InSend
    <3>2. /\ n \in Int /\ x \in Int /\ y \in Int /\ m \in Int
          /\ sentDataSize = x % Modulus /\ x + n = y + m
      BY <2>1, <3>1
    <3>3. /\ sentDataSize' = (sentDataSize + n) % Modulus
          /\ bytes'.sent - bytes'.detached = (y % Modulus) + m
      <4>1. /\ sentDataSize' = (sentDataSize + n) % Modulus
            /\ bytes'.sent = y % Modulus /\ bytes'.detached = bytes.detached
        BY <2>1, <2>5 DEF Send
      <4>2. y % Modulus \in Int
        BY <3>2, SizeAssumption
      <4> HIDE DEF y
      <4>3. QED
        BY <2>1, <4>1, <4>2
    <3> HIDE DEF x, y, m
    <3>4. ((x % Modulus) + n) % Modulus = (x + n) % Modulus
      BY <3>2, ModAdd, SizeAssumption
    <3>5. ((y % Modulus) + m) % Modulus = (y + m) % Modulus
      BY <3>2, ModAdd, SizeAssumption
    <3>6. QED
      BY <3>2, <3>3, <3>4, <3>5 DEF SentSizeExplained
  <2>6. CASE SinkApplication /\ ~SinkPausedToPlaying
    BY <2>2, <2>6 DEF SinkApplication, RequestSocket, SetHttpObj, SinkReadyToPaused,
       SinkPlayingToPaused, SinkPausedToReady, countVars
  <2>7. ASSUME NEW size \in Nat \ {0}, RenderStart(size), ~RenderDetached(size)
        PROVE  SentSizeExplained'
    BY <2>2, <2>7 DEF RenderStart, RenderLinear, RenderChunk, RenderNothing, countVars
  <2>8. CASE SendFails \/ RenderReturn \/ RenderNull \/ UNCHANGED sinkVars
    BY <2>2, <2>8 DEF SendFails, RenderReturn, RenderNull, countVars, sinkVars
  <2>9. QED
    BY <2>3, <2>4, <2>5, <2>6, <2>7, <2>8 DEF SinkNext, Sending
<1>3. QED
  BY <1>1, <1>2, SinkInvariant, PTL DEF SinkSpec
=============================================================================
