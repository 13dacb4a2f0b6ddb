----------------------------- MODULE DtcpServer ------------------------------
(***************************************************************************)
(* The end of the pipeline that serves a protected stream: dtcpenc pushes  *)
(* its lists to httpsink.  The base class of the sink, external, takes a   *)
(* list apart, waits in PAUSED, keeps the last buffer it rendered until    *)
(* the element is in READY again, and turns the list away there.  The bin  *)
(* changes the state of the sink before that of the elements before it.    *)
(***************************************************************************)
EXTENDS DtcpEnc, HttpSink

CONSTANT Sizes        \* bytes of a part

ASSUME PartSizeAssumption == Sizes \subseteq Nat \ {0}

VARIABLES
  todo,               \* the parts of the list that are not rendered yet
  lastSample          \* the buffer the base class keeps, if any

serverVars == <<encVars, sinkVars, todo, lastSample>>
baseVars == <<todo, lastSample>>

\* Elements of a bin have its bus.
ServerInit == EncInit /\ SinkInit /\ hasBus /\ todo = <<>> /\ lastSample = {}

-----------------------------------------------------------------------------
\* gst_pad_push_list(): the base class takes the list.
Push ==
  /\ EncBuild
  /\ todo' = PartsOf(chain.layout)
  /\ UNCHANGED <<sinkVars, lastSample>>

\* It renders the next part, ...
RenderPart ==
  /\ todo # <<>>
  /\ \E size \in Sizes : RenderStart(size)
  /\ lastSample' = {b \in buffers : b.packet = Len(packets) /\ b.part = Head(todo)}
  /\ todo' = Tail(todo)
  /\ UNCHANGED encVars

\* ... or would call render() without a buffer, which returns an error, for which the
\* rest of the list is given up ...
RenderNoBuffer ==
  /\ todo # <<>> /\ RenderNull
  /\ todo' = <<>>
  /\ UNCHANGED <<encVars, lastSample>>

\* ... none if its pad is flushing ...
TurnAway ==
  /\ todo # <<>> /\ sinkState = "READY" /\ render = Idle
  /\ todo' = <<>>
  /\ UNCHANGED <<encVars, sinkVars, lastSample>>

\* ... and gives up the list before the push returns.
PushReturn ==
  /\ todo = <<>> /\ render = Idle
  /\ EncReturn /\ Unref(buffers \ lastSample)
  /\ UNCHANGED <<sinkVars, baseVars>>

\* On the way to READY the last buffer goes when the streaming thread is out.
ForgetSample ==
  /\ sinkState = "READY" /\ lastSample # {} /\ chain.pc # "pushing"
  /\ Unref(lastSample)
  /\ lastSample' = {}
  /\ UNCHANGED <<sessionVars, chain, sinkVars, todo>>

-----------------------------------------------------------------------------
\* The bin starts the sink first and stops it first.
SinkStateChange ==
  /\ \/ encState = "READY" /\ SinkReadyToPaused
     \/ SinkPausedToPlaying \/ SinkPlayingToPaused \/ SinkPausedToReady
  /\ UNCHANGED <<encVars, baseVars>>

EncStateChange ==
  /\ \/ EncNullToReady
     \/ EncReadyToPaused /\ sinkState # "READY"
     \/ EncPausedToReady /\ sinkState = "READY" /\ lastSample = {}
     \/ EncReadyToNull /\ sinkState = "READY"
  /\ UNCHANGED <<sinkVars, baseVars>>

Reset ==
  /\ ResetDelete \/ ResetForget \/ ResetCreate
  /\ UNCHANGED <<sinkVars, baseVars>>

ChangeSocket ==
  /\ SetHttpObj \/ \E s \in Descriptors : RequestSocket(s)
  /\ UNCHANGED <<encVars, baseVars>>

BeforePush == EncBeforePush /\ UNCHANGED <<sinkVars, baseVars>>

SendPart == (Sending \/ RenderReturn) /\ UNCHANGED <<encVars, baseVars>>

ServerNext ==
  \/ SinkStateChange \/ EncStateChange \/ Reset \/ ChangeSocket
  \/ BeforePush \/ Push \/ RenderPart \/ RenderNoBuffer \/ SendPart \/ TurnAway \/ PushReturn \/ ForgetSample

\* The client reads, or goes away, and the scheduler does not starve the application.
ServerFairness ==
  /\ WF_serverVars(SendPart)
  /\ SF_serverVars(SetHttpObj /\ UNCHANGED <<encVars, baseVars>>)

ServerSpec == ServerInit /\ [][ServerNext]_serverVars /\ ServerFairness
=============================================================================
