# Verification of rdk-gst-plugins-rdk

TLA+ models of the GStreamer elements of rdk-gst-plugins-rdk, checked with TLC on
small instances, and theorems about them proved with TLAPS for every value of the
constants. Paths below are relative to the repository (`src/httpsrc/...` is
`src/src/httpsrc/...` in `PROJECT.json`). `PROJECT.json` lists the components, the
runs, for each definition the lines it models, the findings and the hazards.

## 1. The system

The repository holds GStreamer elements that do not call each other: they meet only
through pads in a pipeline, and each is driven by the GStreamer base classes, by an
application that changes its state, and by threads of its own. So each module models one
element with its threads and takes the rest (base class, kernel driver, curl, DTCP
manager, compositor, downstream, insertion context) as nondeterministic choices,
constrained only by what the code relies on. The one chain of elements that the code
itself speaks of, dtcpenc in front of httpsink in a home network's server, is composed
in a module of its own.

| component | state it keeps | operations | who else runs | module |
|---|---|---|---|---|
| httpsrc `src/httpsrc` | block queue and byte count, partial block, about 12 flags | start, unlock, unlock_stop, stop, create, do_seek; curl callbacks | session thread, flow timer thread, streaming thread, application | `HttpSrc` |
| dtvsource `src/dtvsource` | ring buffer (two pointers, a space count), PAT, ids | start, stop, create, set_property | read thread, streaming thread, application | `DtvSource` |
| rbifilter `src/rbifilter` | list of pending items, `playing`, `inserting`, `srcRet` | chain, sink_event, loop, change_state | source pad task, upstream streaming thread, flushing thread, application | `RbiFilter` |
| httpsink `src/httpsink` | socket, send error, sent bytes, blocked flag | render, set_property, change_state | the application that owns the connections | `HttpSink`, `DtcpServer` |
| dtcpenc `src/dtcpencrypt` | DTCP session, the packet being encrypted, lists of buffers that own packets | chain, free functions of the buffers, change_state, the property "reset" | application, whoever frees a buffer | `DtcpEnc`, `DtcpServer` |
| dtcpdec `src/dtcpdecrypt` | DTCP session, bypass; a packet count and its mutex for the whole library | chain, the buffers' free function, change_state, init | whoever frees a buffer, other instances | `DtcpDec` |
| external sink `src/external` | window, size override, Wayland objects | start, stop, set_property("rectangle"), compositor callbacks | dispatch thread | `ExternalSink` |
| external source `src/external` | a URI | queries | none | not modelled |
| aesmptsdec `src/aesmptsdec` | key, vector, processor | set_property, start, stop, transform_ip | none | `AesMptsDec` |
| mediaplayersink_generic | none of its own: vendor templates with empty bodies | | | not modelled |
| build, packaging, test programs | | | | not modelled |

What is hard in each, and what makes it correct:

* **httpsrc**: four threads, one queue mutex, three condition variables each with a
  mutex of its own, and flags that are read and written with no lock. Correct means: no
  byte is lost, repeated or reordered inside; what is lost at the end of a transfer is
  bounded; a blocked `create()` can be unlocked; `stop()` returns and leaves no thread
  behind; a partial block does not stay back while the server is silent.
* **dtvsource**: the driver writes into the ring outside the mutex; equal pointers mean
  empty or full; the space is given back before the pointer moves. Correct means: the
  pointers and the space agree with what is in the ring, and `create()` returns bytes
  that came in, once.
* **rbifilter**: items go through the task's queue or directly, depending on a flag that
  is written without the lock; pushes are made with and without the lock; flushes
  overtake. Correct means: order is kept, one thread at a time pushes downstream, a
  state change completes, and nothing that came before a flush or an error slips in.
* **httpsink**: partial sends that nobody completes, a socket that is exchanged while
  `render()` is under way, a mutex held over blocking sends, a byte count that a
  missing socket decreases. Correct means: no connection gets bytes after an error or in
  the middle of a chunk, an error does not cost the next connection its socket, the
  application gets the mutex, and the count is what was written.
* **dtcpenc, dtcpdec**: who has a packet on each way out of `chain()`, and after it, when
  downstream frees buffers on any thread and in any order; a session that is deleted,
  forgotten and created anew without a lock; a counter and its mutex that all instances
  share and each of them resets. Correct means: the DTCP manager gets each packet that it
  processed back once, while its session exists, and the count says what is out.
* **external sink**: the application's rectangle and the compositor's events both set the
  window and tell the surface, partly without the lock; `stop()` joins a thread that waits
  for events. Correct means: the application's choice stays, the surface ends up where the
  window is, and `stop()` returns.
* **aesmptsdec**: sequential; SCTE-52 packet layouts, CBC in place, a residue that needs the
  block before it as it came, parameters that `start()` takes away. Correct means: a
  scrambled packet leaves clear, and every other packet as it came.

The full list of hazards, with the line where each bites and the properties that watch
it, is in `PROJECT.json`.

## 2. How the modules are built

Each element has a module with its VARIABLES, one action per critical section or lone
flag access, `Spec`, `FairSpec` and its properties; an `MC` module and `.cfg` files with
the values for TLC; and a `Proofs` module. A definition named `X_Something` under a
"Mutant" comment is `X` with a plausible bug; no specification uses it. It is there to
show that the property paired with it in `PROJECT.json` notices such a bug.

**Atomicity.** Code between locking and unlocking a mutex is one action, if everything
it touches is protected by that mutex. Where it is not, it is split:

* httpsrc: `m_flowTimerMutex` is held across blocking calls, and is a variable
  (`flowTimerMutex`). A critical section under `queueMutex` that ends in a wait takes the
  mutex of the condition before it gives `queueMutex` back, so test and wait are one step;
  the one exception is that `create()` sets its stop request after giving `queueMutex`
  back (1374-1375), which is an action of its own (`CreateSetStop`), as is the producer's
  step from one mutex to the other (`EnqueueLocked`).
* dtvsource: the driver's `read()` (`ReaderRead`), the accounting (`ReaderAccount`), the
  test whether to signal (`ReaderUsed`), the signal (`ReaderSignal`), and the two halves of
  `create()` (`CreateTake`, `CreateMove`) are separate. So is every unlocked test and store of
  what the application and the read thread share: `SetPmtPid` stores the PID and
  `AnnouncePmtPid` sets `pmt_updated`; `ReaderLoop`, `ReaderUpdated`, `ReaderCreatePat`,
  `ReaderPatMade` and `ReaderKnown` are the lines of the read thread's loop up to the `read()`.
* rbifilter: `playing` is written without `lockItems`, so taking the lock with the test of
  `playing` (`AddLock`) and what follows (`AddAppend`, or a push that ends in `AddPushed`)
  are separate, with the lock held between them. The task's push is made without the lock.
* httpsink: every `send()` blocks and is an action; what lies between two of them is
  protected by `http_obj_mutex` and goes with the one before. What `render()` decides before
  its first `send()` is one action. The mutex is recursive, and `mutex` counts how often the
  streaming thread has locked it.
* dtcpenc: a reset is three actions and `chain()` reads `pDtcpSession` in three, since
  neither takes a lock.
* dtcpdec: a change of `packet_count` is `Begin` (the pointer to the mutex is read), `Take`
  (the mutex is had), `Read` and `Write` (or `WriteZero`), and `Leave`, which unlocks the mutex
  there is by then.
* external sink: the comparison of position and width, that of the height, the locked change
  and the unlocked calls of `set_property("rectangle")` are separate. The position is written by
  `set_property()` only, so a comparison of one field at a time would not show more.

**Condition variables.** A thread that waits is at a place of its own; a signal moves it
on and is lost if nobody waits. Spurious wakeups are an action.

**History variables** (`stored`, `out`; `held`, `sound`, `missed`; `hist`, `stale`; `bytes`;
`resetAway`, `used`, `empty`, `released`; `undisturbed`; `differed`) record what the properties are
about and never enable or disable an action. `wire` in httpsink is not one of them: it is the
state of the connections, in the environment, and the application does not hand over one that
it has seen fail (`RequestSocket`).

### HttpSrc

| code | model |
|---|---|
| `m_queueHead..m_queueTail`, `m_queuedByteCount` | `queue` (first byte, size, place), `queuedByteCount` |
| `m_currBlock`, `m_currBlockOffset` | `currBlock`, `currBlockOffset` |
| the flags `m_threadStarted` ... `m_haveTrailers` | variables of the same names |
| the four threads | `pc.ctl` (application and base class), `pc.create`, `pc.session`, `pc.timer` |
| `start`, `unlock`, `unlock_stop`, `stop`, a flushing seek | `Start*`, `Unlock`, `UnlockStop`, `Stop*`, `Flushed`/`Resume` |
| `create()` | `CreateEnter` ... `CreatePushEos` |
| session thread and curl callbacks | `Session*`, with `SessionReceive` and `SessionFill` for `data_received()` |
| `buffer_ready()`, called by both producers | `Enqueue*` with the caller's name |
| flow timer thread | `Timer*` |

Bytes are numbered in the order in which they are accepted. Allocation failures, the
log, the text of headers, curl options, queries and properties are left out. curl's
results are four kinds (`ResultKinds`), grouped by what the code does with them.
`out` is what downstream has seen: the place after the last byte pushed, and how many
pushes did not go on where the one before ended. `ByteStream` states what that promises
with no thread, queue or block in it, and `Stream` is the refinement mapping (`accepted`
is `stored`, `delivered` is `readPosition`, `next` and `gap` come from `out`).
`m_requestPosition` is not in the model: `do_seek()` stores it, and only a new session
thread reads it, so after a flushing seek the running transfer goes on (`Resume`).

### DtvSource

| code | model |
|---|---|
| `read_ptr`, `write_ptr`, `space_in_buffer` | `readPtr`, `writePtr` (from `buffer_start`), `space` |
| `service_id`, `pmt_pid`, `pmt_updated`, `current_pat` | `service`, `pmtPid`, `pmtUpdated`, `pat` (the ids it was made of, or blank) |
| `set_property()` | `SetService`; `SetPmtPid` and `AnnouncePmtPid`, with `setter` between them |
| `start`, `stop`, `create` | `Start`, `StopRequest` and `StopJoin`, `CreateWait` ... `CreateMove` |
| `gst_dtv_read_data_thread()` | `Reader*`, one action per test, store, call or critical section |

The driver writes any number of bytes
up to a block and not past the end of the ring; whether the last packets look whole and
whether 100 ms have passed are free choices. When `create()` has moved `read_ptr` past
`buffer_end`, what it does next is undefined; the model stops that thread there
("wild"). The device, tuning, queries and the buffer offset are left out.

### RbiFilter

An item is a kind and a number; buffers and events that go through the pad get their
numbers when their caller has the lock. `call["up"]` is the upstream streaming thread,
`call["seek"]` the one that sends FLUSH_START and FLUSH_STOP. The pad's own behaviour is
external: nothing serialized passes while it is flushing, FLUSH_STOP takes the stream
lock, downstream refuses buffers between the two. `stale` counts the old buffers that are pushed
after `flush()` let go of the lock, by either thread: those whose number is below FLUSH_START's,
and all while it has none yet. The insertion context is three free
choices: is it inserting, does it keep a buffer, has it one to offer.

### HttpSink

| code | model |
|---|---|
| `http_obj`, `send_error`, `sent_data_size`, `is_blocked`, `is_chunked` | variables of camel-case names; `NoSocket` is -1 |
| `http_obj_mutex`, `gst_http_sink_render()` | `mutex`, `render` (where it is, its socket, its buffer's size) |
| the branches before the first `send()` | `RenderNull` (no buffer: it returns with the mutex held), `RenderLinear`, `RenderDetached`, `RenderChunk`, `RenderNothing` |
| `send()`, and its failure with `onError()` | `Send(n)`, `SendFails`; `hasBus` says whether the message is posted, which `onError()` looks at |
| `set_property(PROP_HTTP_OBJ)` | `RequestSocket` (the application calls), `SetHttpObj` (it has the mutex) |
| `gst_http_sink_change_state()` | `SinkReadyToPaused` ... `SinkPausedToReady` |

`wire` says for each connection where its bytes stand: between chunks (`whole`), after the
length line or the data, `cut` by a failed `send()`, `short` after a partial one, `mixed` when
bytes follow that, `garbled` when bytes follow a cut or, with none missing, come out of place.
There is no loop around `send()`, so what follows a partial one starts inside a chunk that lacks
its end; `FramesIntact` leaves those connections out until a `send()` on them fails. `sprintf_s()`
is taken to succeed: the length line has at most ten characters, its buffer 32. The application does not
hand over a connection it has seen fail; anything else it may do at any time.

### DtcpEnc and DtcpServer

A packet is a record of the session it carries (`tag`, which is `packet->session`), the handle the manager was given
(`used`) and how often it was released. `KnownLayouts` are the outcomes of
`DTCPMgrProcessPacket()` and of the search for the PCP header that `chain()` tells apart;
`PartsOf` and `OwnerOf` say which buffers each layout makes and which of them carries the
free function that releases the packet. With a header and no data (`empty`) both sections are
empty: the list is the header alone, no buffer owns the packet, and `chain()` forgets it (1617), so
that it never goes back to the manager; `ReleasedOnce` names that case (`Forgotten`). `EncEnter`, `EncTag`, `EncProcess`/`EncProcessFails`,
`EncCannotCopy`, `EncBuild` and `EncReturn` are `chain()` in its order; `Downstream` frees any
buffers at any time. `ResetDelete`, `ResetForget` and `ResetCreate` are the three statements of
`PROP_RESET`; state changes do not overlap with a reset, because the application makes both.

`DtcpServer` puts `HttpSink` downstream. The sink's base class is external and modelled from
what `render()` needs of it: it renders the parts of a list in order (`RenderPart`), could call
it without a buffer (`RenderNoBuffer`, which the base class does not do, but `render()` provides
for), drops
what is left when it is flushing (`TurnAway`), frees the list when the push returns
(`PushReturn`) but for the last buffer it rendered, which it keeps until READY
(`ForgetSample`). The bin changes the sink's state first, upwards and downwards.

### DtcpDec

`decChain` is `chain()`: the packet leaves it without a release when the manager refuses it
(`DecChainFails`), is released at the end when it stays there (`DecOut`: no data, or decrypted
in place), or belongs to the pushed buffer (`DecCountUp`, `DecPush`). `DecRelease` and
`DecCountDown` are `gst_dtcpdecrypt_buf_delete()`, on a thread of its own. The count and its mutex
are the library's: `work` says for `chain()`, the freeing thread, the application's thread and one
thread of other elements what each is doing with the count, which mutex it waits for or has taken,
and what it read. The application's thread clears the count on the way to READY and looks at it
(lock, print, unlock) on the way to NULL. The other elements' thread (`OtherBegins`) counts packets
of its own up and down (`abroad`), clears and looks; `OtherCreated` replaces the mutex at any
moment. A count that was cleared with packets out, or changed while the mutex was replaced, is
out of `CountExplained` (`undisturbed`) and is in the hazards.

### ExternalSink

`window` is `windowX` to `windowHeight`, as a position and a size; `vpcGeometry` is what the
compositor was last told for the surface. `CompareRectangle`, `CompareHeight`, `SetRectangle`,
`SetterTellsVpc` and `SetterUpdates` are `set_property("rectangle")`; `XformEvent` and `ModeEvent` the two callbacks
that change what the model has; `DispatchLoop` and `DispatchFails` the loop of
`wlDispatchThread()`. `start()` is one action: it creates the thread last. The compositor's
events and which objects it offers are free choices. A rectangle that equals the window when it is
compared is ignored: it sets no override, and if it was the first the next mode event changes the
window. `differed` records whether one has been taken; `RectangleKept` is about what follows.

### AesMptsDec

Pure functions under a small state machine: `ProcessPacket` and what it calls are the
processor, `AesStart`, `AesStop`, `SetMode` and `SetParameter` the element. A byte is one bit,
a block two bytes and a packet nine, so that payloads have zero to two blocks and a residue of
zero or one byte. `Cipher` is any family of permutations; the sender (`Scrambles`) is external
and uses the cipher itself where the element uses a CBC object. So `DecryptInverts` says of a
scrambled packet that all its whole blocks leave clear, and of its residue what it leaves as
(`ResidueLeft`): the clear one XORed with the enciphered last block and the enciphered mixture of
that block and the vector, which are the same when the vector is zero. The test programs in the
repository set a zero vector.
A `start()` without parameters dereferences null pointers (a TODO in the code says so);
the model stops there (`AesStartCrashes`).

## 3. The runs

| run | bounds | what it shows |
|---|---|---|
| `http_transfer` | blocks of 2 bytes, queue full above one block, 6 bytes, chunks up to 5, 1 trailer, all results, curl_easy_init failure | accounting, no lost wakeup of the queue, stream order, order of the output, what may be lost at EOS; the element implements `ByteStream` |
| `http_restart` | 3 bytes, chunks up to 3, results ok and error, late flow timer, 2 starts, 1 flush in each session | types, conservation and the order of the output across sessions; `stop()` joins the threads |
| `http_progress` | 5 bytes, chunks up to 2, fair threads, a server that may stall | `unlock()` and `stop()` return, the flow timer flushes, producers are woken |
| `http_missed_stop`, `http_end_wakes`, `http_first_chunk` | the smallest transfers that show it | three findings, below |
| `dtv_ring` | ring of 6 bytes, blocks of 2, packets of 1, 2 starts, 2 PMT PIDs, spurious wakeups | pointers, space and contents agree; fresh bytes only; a PAT that is behind is due and catches up |
| `dtv_available` | the same ring, one start, no spurious wakeup | a finding, below |
| `rbi_filter` | 3 items, 1 flush with its two events, refused pushes, any state changes, fair threads | order, one pusher, two stale buffers at most, one after an error; a change to PAUSED completes, items leave |
| `dtcp_server` | 2 packets of 6 layouts, 2 sessions, 1 reset, 2 connections, 1 exchange of the socket, 1 call without a buffer, 1 PLAYING, parts of 2 bytes | packets are released once and have their session, no bytes after a failed send, the new socket is kept, the mutex is had |
| `http_sink_count` | 1 packet, 1 connection, a counter modulo 256 | a finding, below |
| `client_elements` | dtcpdec: 2 packets, 3 steps of other elements, 2 starts; external sink: 2 positions, 2 widths, 2 heights, 2 rectangles, 4 events, 2 starts; aesmptsdec: 2 keys, 2 vectors, 2 starts, every layout | one owner per packet and a count that is right, window and surface, `stop()` returns, packets leave clear |

Why these bounds are enough: a block of two bytes is the smallest with a partial fill; a
queue that is full above one block makes both producers wait with one block in hand and
two queued, which is every case `create()` tells apart (empty, one block, more, above the
mark); six bytes are three blocks, so a block can be taken, queued and partial at
once, and a chunk of five spans three. Two sessions are what it takes for one to leak into
the next. The ring holds three blocks and six packets, so it can wrap in the middle of a
block, be exactly full at any place, and overflow. Three items with the two events of a flush
are one in the task's hand, one in the queue and one that is coming in, which is what the
bounds of the flush and of the error tell apart. Two packets in dtcp_server are one that downstream still keeps (its last
buffer) while the next one is under way; with two sessions and a reset, `chain()` can read three
different handles. "front" is left out there because it differs from "bare" only in a
buffer that owns nothing; the theorem covers it. The counter of sent bytes is not watched there
(its modulus is 1, which folds the states together); `http_sink_count` watches it. In client_elements a behaviour belongs to one of three elements that share
nothing, chosen in the first state, so the run is three small runs in one. With two
packets one is counted up while one is counted down; three steps of others are a packet of
theirs counted up and down and a new mutex or a cleared count, in any order. `MaxSpace` caps a `space_in_buffer` that has gone
wrong, at two rings. The other `Max...` constants cap counters that
the code does not have.

**Fairness.** Every thread that can take a step takes one in the end (WF per thread),
because they are POSIX threads of one process. In httpsrc, curl calls the progress
callback in the end (about once a second in curl), and the flow timer's wait expires now and then even
when it is often signalled (SF for `TimerExpires`). The server need not
send anything, and the application need not call anything; `CompletingSpec`, used by one
run only, adds a server that completes the transfer. In dtvsource, the driver's `read()` returns
(perhaps with nothing), and `set_property()` gets to its end (WF for `AnnouncePmtPid`). In rbifilter, downstream returns from every push, a call that came in is
finished, and a FLUSH_START is followed by a FLUSH_STOP; WF of a contended lock is enough
there because the number of callers' items is bounded. In dtcp_server, a client reads or goes
away, so that a `send()` returns (WF for `SendPart`), and a thread that waits for
`http_obj_mutex` gets it although `render()` takes it again and again (SF for `SetHttpObj`:
the scheduler lets a waiting thread run at some moment when the mutex is free). In
client_elements, the dispatch thread runs, a dispatch on a connection that was shut down
returns -1, and the application goes on when the thread is joined; the compositor need not
send anything.

### Findings

Each is shown by a run whose single property, the sentence quoted in `PROJECT.json`, is
violated by the code.

* `http_missed_stop`: a stop request that `create()` makes between a producer's test and
  its wait leaves both blocked, and `unlock()` never completes. `UnlockReturnsUnlessMissed`
  and `RoomIsSignalled` show that this is the only way.
* `http_end_wakes`: after a transfer that ends well, the session thread joins a flow timer
  that has no reason to exit, and so never reaches "wakeup src thread which might be
  blocked in create".
* `http_first_chunk`: a first chunk signalled before the flow timer waits for it is not
  noticed; a partial block then stays back until a full one comes.
* `dtv_available`: `create()` takes equal pointers for a full ring. When it has emptied the
  ring between the read thread's look at it and its signal, it returns a ring's worth of bytes
  that are not there; in a ring exactly full in mid-buffer these run past `buffer_end`.
* `http_sink_count`: `sent_data_size`, the "total size of data written to socket", loses one for
  each buffer that a linear stream renders without a socket, down from 0 to 2^64 - 1.

Behaviour that no sentence in the repository contradicts is in the properties as a named
exception, and in the hazards: blocks left in the queue at EOS (`EosLossBounded`), a
flow timer left behind when `curl_easy_init()` fails (`StopJoinsThreads`), the space
lost by a restart of dtvsource (`RingConsistent` claims equality for the first session
only), a PMT PID announced while a PAT for the last one is made (`PatOwed`), items stranded by a
change to PAUSED in rbifilter (`InOrderUnlessStranded`), two old buffers that pass a flush
(`AtMostTwoStale`),
an rbifilter that stays paused after a buffer was refused in the middle of a flush
(`ItemsLeave`), an httpsink on no bus that
goes on writing after an error, and one whose partial sends leave chunks short (`FramesIntact`),
a `render()` without a buffer that keeps the mutex (`SetHttpObjReturns`), the packet of a header
without data, which nobody releases (`ReleasedOnce`), a reset that takes the session away from
packets that are under way (`PacketsHaveSessions`), dtcpdec's counter when a further instance
replaces its mutex or clears it (`CountExplained`), a first rectangle that equals the window
(`RectangleKept`), and a residue under a vector that is not zero (`DecryptInverts`).

## 4. The proofs

The theorems hold for every value of the constants that the named assumptions in the
modules allow (sizes positive, blocks and packets no larger than the ring, bounds
natural, the reserved ids not among the real ones); the runs evaluate these assumptions.

**HttpSrcProofs.** `Control`: who holds `flowTimerMutex` is the thread that copies or
queues; it holds it with no partial block except while copying; `create()` runs only
between `start()` and `unlock()`; once it has looked at the partial block after its stop
request (`Settled`), nobody holds the mutex and no partial block exists. Control is
needed because the properties say nothing of the flags: without it, a step of the timer
could add to a queue that `create()` is draining. `Data` adds, byte for byte, what is in
the queue, the partial block and `buffer_ready()`'s hands at each place. From the two
follow `TypeOK` (so the count that `create()` asserts is never negative),
`QueueAccounting`, `Conservation`, `InStreamOrder` and the action property `QueueSettled`.
`TimerJoined` adds that a session which is over has joined the flow timer, and `stop()` joins
the session: `StopJoinsThreads`.
`NoWakeupLost` needs four parts. What a sleeper waits for has not come (`WaitFull`,
`WaitEmpty`), since whoever shrinks a full queue, or adds to an empty one, signals. A
producer that found the queue full and has still to go to sleep is kept from it only by a
`create()` that is past the queue (`WaitPlaces`), so nobody takes a block in between. And
without a transfer no byte is accepted (`Untouched`): `stop()` empties the queue without a
signal, and the only thread it can then find is the flow timer of a session that got no curl
handle, which has nothing to queue. `NeverBothAsleep` follows: a full queue is not empty. It
does not contradict `UnlockReturns`, where the one who sleeps is the producer and `create()`
waits for the mutex.

**DtvSourceProofs.** `RingInv` adds to `RingConsistent` that bytes are lent only between
the two halves of `create()` and read only between the driver and the accounting, and
that the ring of a new element is empty until the first read thread begins (the start
does not reset the space, so without this the equality for the first session is not
inductive). From it follow `RingConsistent` for rings of any size and the action property
`TakesOnlyFresh`; with the types of the ids, `TypeOK`. `PatOwed` is
inductive with the types and `PatInHand` (the read thread creates a PAT only when the ids are
known, and has one when it is about to clear `pmt_updated`): each test and store is a step, and
at each the PAT is the one for the PID there is, or `pmt_updated` is still set, or the PID was
stored since and its announcement is still to come or came too early (`missed`).

**RbiFilterProofs.** `Control`: one holder of `lockItems`; the task runs only between the
start of PLAYING and the end of the change to PAUSED; and a direct push that is still
under way when PLAYING comes keeps the loop in front of the lock (`PushBlocks`). The last
is what makes `OnePusher` inductive, since neither the write of `playing` nor the task's
push is made under the lock.
`Flushed` numbers the places that flush() keeps by their rank; that each rank is taken by
one place (`RankTaken`, by the pigeonhole principle) gives `FlushKeepsEvents`: exactly the
items that are not buffers stay, in their order. `MCRbiFilter` (the module of
`rbi_filter`) lets TLC compare it with `SelectSeq` on every queue of up to four items.
`ItemTypes` says which items are where, and with the rest of the types gives `TypeOK`.
`Numbered` bounds every number inside by the last one given and keeps them apart; `Ordered`
says, unless items were stranded, that the output, the task's hand, the queue and the caller
that appends follow each other in that order, and that a caller pushes directly only when
nothing is inside: that is `InOrderUnlessStranded`. `Roles` says what the two callers can
carry; from it `StaleBound` and `ErrorBound` count, besides the buffers in the queue, the
one that may still come in and, for a flush, the one in the task's hand, which the properties do
not see: `AtMostTwoStale` and `AtMostOneAfterError`. `NeverSleepsOnWork` shows that the task waits only for an empty queue
and never past a signalled change to PAUSED.

**HttpSrcStreamProofs** builds on these. `Behind`: the output never ends after the bytes
that are inside, and, as long as the session can still push, every block of the queue lies
after the output. `Seamless`: without a flush, the queue goes on exactly where the output
ends. They are needed because `OutputInOrder` speaks of two states and the
queue in between is what connects them. From them follow `OutputInOrder`, `GapIsLast` and
`Refinement`, `Spec => StreamOfBytes`: initial states map to initial states, and each step to
a step of `ByteStream` or a stutter.
`EosLossBounded` needs the history of a transfer, `Ending`. While nobody calls `unlock()`:
nothing makes `create()` give up before the server's last byte was copied or the transfer
failed (`GivesUpLate`); every byte is with the server, in the copy loop or accepted until the
flow timer has to free its short block, which it does only after a stop request and once
(`Complete`, `Freed`, `ShortBlock`); and after EOS `create()` stays where it is, with one block
left behind only if it pushed another past it (`LastLook`). `ResetDone` says that a new session
starts from there. The proof did not go through for an earlier form of the property, which said
that no single block is ever left unless one was pushed past it: `stop()` leaves `m_currBlock`
with offset 0, and after a restart with a transfer shorter than a block the flow timer can queue
that empty block. TLC shows it with two starts and one byte; the property now excepts a block
of no bytes.

**HttpSinkProofs.** `SinkInv` is the types (with them, that the mutex is held once for
a `send()` under way and once for each call without a buffer), `RenderOwns` (while a `send()` is
under way, the socket it uses is `http_obj`) and `Connections` (on a bus, only that connection may be in the
middle of a chunk, and exactly where the code is; neither the socket the element has nor the
one about to be set is cut). `FramesIntact` alone is not inductive: it does not say where
`render()` stands. `SentSizeExplained` rests on lemmas about sums modulo any positive number,
proved in the same module; it is the extent of the finding of `http_sink_count`, which the code's
own sentence denies.

**DtcpServerProofs.** `EncInv` follows a packet: a packet with `chain()` has no owner among
the buffers, a new list has exactly one, or none if its packet is marked as a header without data,
and freeing any set of buffers releases once per owner that goes; then `ReleasedOnce`. `ServerImplementsEnc` and `ServerImplementsSink` show
that each step of the pipeline is a step of either element (or none), so that
`ReleasedOnce`, `FramesIntact`, `SentSizeExplained` and `NewSocketKept` hold there
(`ServerSafety`). `PacketsHaveSessions` is true of the pipeline only, and its invariant says
why: when `chain()` is out, downstream has at most the last buffer, and when dtcpenc is not in
PAUSED, none (`ListGone`), so that READY to NULL finds no packet; until then the session of every
packet exists or was reset away (`SessionsKnown`).

**DtcpDecProofs.** `DecHolds` says where a packet is; with `DecReleasedOnce` it is inductive.
`Counting` says that, undisturbed, the four threads exclude each other by the mutex there is, and
that what one has read is still the count when it writes. It holds from the moment a mutex is
replaced while nobody uses the count, because a thread that waits for it counts as a user: its
pointer is the old one. `CountAssumption` (the packets of a behaviour are fewer than 2^32) is what
makes the modulus invisible.

**ClientElementProofs.** Of externalsink, `ExtTypeOK` and `VpcFollowsWindow` are inductive as they stand. `RectangleKept`
needs `RectInv`: an override is set once a rectangle that differed was written, and while
the height is still to be compared, the position of `rectangle` is the window's and, once a
rectangle has differed, the width as well.
Of aesmptsdec, `ProcessPayloadInverts` is proved from what a block cipher is (for each key a
permutation of the blocks) and what XOR is (its own inverse, bit by bit): CBC in place reads
each block before it is overwritten and the one before it as it came, and the residue is XORed
with the enciphered last block (or vector, if there is no block) by the sender and with that block
enciphered by a CBC object in the element; for a zero vector these are one and cancel out. `DecryptInvertsTheorem` carries it to the element: while it runs, the
processor has one key and one vector, those of its `start()` (`AesTypeOK`), and stays until
the packet it went over is judged (`AesInv`).

Checked by TLC only: everything under fairness (`UnlockReturnsUnlessMissed`,
`StopReturns`, `TimerFlushesPartial`, `RoomIsSignalled`, `PatCatchesUp`, `PauseReturns`,
`ItemsLeave`, `SetHttpObjReturns`, `ExtStopReturns`), because the provers have no liveness.
Every safety invariant and action property of the passing runs is a theorem.

## 5. Not modelled, and what is left

Not modelled:

* In every element: properties that are only stored and returned, queries, caps, logging,
  debug statistics, the text of messages, allocation failures, and the GStreamer 0.10 branches of the
  `#ifdef`s.
* dtcpenc's search for the PMT (`examine_buffer()`, `generate_pmt()`, `putPmtByte()` and the
  CRC, about 600 lines): its only call is commented out in `chain()`, so the program never
  runs it.
* The input buffers of dtcpenc and dtcpdec, which `chain()` unrefs at its common exit (dtcpenc's
  early returns keep theirs); the packets are where the ownership is hard.
* httpsrc: parsing of header values, choice of curl options. dtvsource: opening and
  tuning the device, and the search for packet boundaries (whether the last
  packets look whole is a free choice). rbifilter: the bytes of packets, default events.
* externalsink: the shell's surface, the buffer that punches the hole, translation and scale of
  the video. externalsrc: it keeps a URI and answers queries.
* aesmptsdec: parsing of key strings, errors of OpenSSL, buffers that are not whole packets.
* mediaplayersink_generic (vendor templates with empty bodies), the test programs, and the build
  files.

Left: the bounded form of some liveness properties (that a step which ends a wait stays possible
until it is taken) can be stated without fairness and proved; `NoWakeupLost` and
`NeverSleepsOnWork` are two of that kind. An abstract specification of a packet that is lent and
handed back, which dtcpenc and dtcpdec would both implement. Left to check: a second pipeline,
httpsrc in front of dtcpdec, in which flushes of one meet packets of the other.
