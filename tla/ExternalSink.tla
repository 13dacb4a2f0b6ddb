----------------------------- MODULE ExternalSink ----------------------------
(***************************************************************************)
(* The externalsink element (src/external/gst_external_sink.c): it shows   *)
(* nothing itself but tells the compositor where the external player's     *)
(* video belongs.  The application's thread starts and stops the element   *)
(* and sets its rectangle, with unlocked steps after the locked one; the   *)
(* dispatch thread handles the compositor's events.  The compositor and    *)
(* the Wayland library are external.                                       *)
(*                                                                         *)
(* A window is a position and a size.  Its translation and scale, the      *)
(* shell's surface and the buffer that punches the hole are left out.      *)
(***************************************************************************)
EXTENDS Integers

CONSTANTS
  Positions, Widths, Heights,     \* where a window may be, and how large
  DefaultPosition, DefaultWidth, DefaultHeight,
  Unset,                \* no geometry was requested
  MaxRects,             \* bound on the application's rectangles
  MaxEvents,            \* bound on the compositor's events
  MaxExtStarts          \* bound on starts

WindowSizes == [width : Widths, height : Heights]
Windows == [pos : Positions, size : WindowSizes]
DefaultSize == [width |-> DefaultWidth, height |-> DefaultHeight]
DefaultWindow == [pos |-> DefaultPosition, size |-> DefaultSize]

ASSUME WindowAssumption == DefaultWindow \in Windows /\ Unset \notin Windows
ASSUME ExtBoundsAssumption == MaxRects \in Nat /\ MaxEvents \in Nat /\ MaxExtStarts \in Nat

VARIABLES
  connected,            \* display # NULL
  globals,              \* which of the compositor's objects were bound
  vpcSurface,           \* vpcSurface # NULL
  window,               \* windowX .. windowHeight
  sizeOverride,         \* windowSizeOverride
  windowChange,
  vpcGeometry,          \* what the compositor was last told for vpcSurface
  rectangle,            \* set_property()'s nx .. nh: what the application set last
  differed,             \* history: whether a rectangle ever differed from the window
  setter,               \* set_property(): where it is
  dispatcher,           \* wlDispatchThread() likewise, "none" when there is none
  stopper,              \* stop(): where it is
  quit,                 \* quitDispatchThread
  shut,                 \* the connection was shut down
  rects, events, extStarts    \* bounded counters

extVars == <<connected, globals, vpcSurface, window, sizeOverride, windowChange,
             vpcGeometry, rectangle, differed, setter, dispatcher, stopper, quit, shut, rects,
             events, extStarts>>

objects == <<connected, globals, vpcSurface>>
choice == <<rectangle, differed>>
geometry == <<window, sizeOverride, windowChange, vpcGeometry, choice>>
stopping == <<stopper, quit, shut>>
counters == <<rects, events, extStarts>>

-----------------------------------------------------------------------------
ExtInit ==
  /\ connected = FALSE /\ globals = {} /\ vpcSurface = FALSE
  /\ window = DefaultWindow /\ sizeOverride = FALSE /\ windowChange = FALSE
  /\ vpcGeometry = Unset /\ rectangle = DefaultWindow /\ differed = FALSE
  /\ setter = "idle" /\ dispatcher = "none" /\ stopper = "idle"
  /\ quit = FALSE /\ shut = FALSE
  /\ rects = 0 /\ events = 0 /\ extStarts = 0

\* The application's thread is in none of the element's functions.
AppIdle == setter = "idle" /\ stopper = "idle"

-----------------------------------------------------------------------------
(* start() and stop().                                                     *)

\* Mutant: the new surface gets no geometry.
StartGeometry_Never(w) == Unset

\* A size other than the default is requested for the new surface.
StartGeometry(w) == IF w.size # DefaultSize THEN w ELSE Unset

\* start() binds what the compositor has; the last thing it does is the thread.
ExtStart(available) ==
  /\ AppIdle /\ ~connected /\ extStarts < MaxExtStarts
  /\ connected' = TRUE /\ globals' = available
  /\ vpcSurface' = ("vpc" \in available)
  /\ vpcGeometry' = IF "vpc" \in available THEN StartGeometry(window) ELSE Unset
  /\ quit' = FALSE /\ shut' = FALSE /\ dispatcher' = "loop"
  /\ extStarts' = extStarts + 1
  /\ UNCHANGED <<window, sizeOverride, windowChange, choice, setter, stopper, rects,
                 events>>

\* Mutant: the thread is only told to leave its loop.
ExtStop_NoShutdown ==
  /\ AppIdle /\ connected
  /\ quit' = TRUE /\ stopper' = "joining"
  /\ UNCHANGED <<objects, geometry, setter, dispatcher, counters, shut>>

\* stop() tells the thread to leave, and shuts the connection down that it waits on.
ExtStop ==
  /\ AppIdle /\ connected
  /\ quit' = TRUE /\ shut' = TRUE /\ stopper' = "joining"
  /\ UNCHANGED <<objects, geometry, setter, dispatcher, counters>>

\* It destroys the objects when the thread has returned.  surfaceId stays.
ExtStopped ==
  /\ stopper = "joining" /\ dispatcher = "none"
  /\ stopper' = "idle" /\ connected' = FALSE /\ globals' = {} /\ vpcSurface' = FALSE
  /\ vpcGeometry' = Unset
  /\ UNCHANGED <<window, sizeOverride, windowChange, choice, setter, dispatcher, quit,
                 shut, counters>>

-----------------------------------------------------------------------------
(* set_property("rectangle").                                              *)

\* The rectangle is compared with the window, without the lock: position and width, ...
CompareRectangle(w) ==
  /\ AppIdle /\ rects < MaxRects
  /\ rects' = rects + 1 /\ rectangle' = w
  /\ LET same == w.pos = window.pos /\ w.size.width = window.size.width
     IN  /\ setter' = IF same THEN "compare" ELSE "differs"
         /\ differed' = (differed \/ ~same)
  /\ UNCHANGED <<objects, window, sizeOverride, windowChange, vpcGeometry, dispatcher,
                 stopping, events, extStarts>>

\* ... then the height.  One that is the window already is ignored.
CompareHeight ==
  /\ setter = "compare"
  /\ LET same == rectangle.size.height = window.size.height
     IN  /\ setter' = IF same THEN "idle" ELSE "differs"
         /\ differed' = (differed \/ ~same)
  /\ UNCHANGED <<objects, window, sizeOverride, windowChange, vpcGeometry, rectangle,
                 dispatcher, stopping, counters>>

\* The change is locked.
SetRectangle ==
  /\ setter = "differs"
  /\ window' = rectangle /\ sizeOverride' = TRUE /\ windowChange' = TRUE
  /\ setter' = "vpc"
  /\ UNCHANGED <<objects, vpcGeometry, choice, dispatcher, stopping, counters>>

\* The surface is told, without the lock.
SetterTellsVpc ==
  /\ setter = "vpc"
  /\ vpcGeometry' = IF vpcSurface THEN window ELSE vpcGeometry
  /\ setter' = "update"
  /\ UNCHANGED <<objects, window, sizeOverride, windowChange, choice, dispatcher,
                 stopping, counters>>

\* update_video_position() does its work if nobody has done it since the change: it
\* punches the hole for the video.
Update(p, after) ==
  /\ p = "update" /\ p' = after
  /\ windowChange' = FALSE

SetterUpdates ==
  /\ Update(setter, "idle")
  /\ UNCHANGED <<objects, window, sizeOverride, vpcGeometry, choice, dispatcher, stopping,
                 counters>>

-----------------------------------------------------------------------------
(* The dispatch thread.                                                    *)

\* The loop ends when it is told to, or when the connection is gone.
DispatchLoop ==
  /\ dispatcher = "loop"
  /\ dispatcher' = IF quit THEN "none" ELSE "dispatch"
  /\ UNCHANGED <<objects, geometry, setter, stopping, counters>>

DispatchFails ==
  /\ dispatcher = "dispatch" /\ shut
  /\ dispatcher' = "none"
  /\ UNCHANGED <<objects, geometry, setter, stopping, counters>>

Dispatch ==
  /\ dispatcher = "dispatch" /\ events < MaxEvents
  /\ events' = events + 1

\* vpcVideoXformChange().
XformEvent ==
  /\ Dispatch /\ vpcSurface
  /\ windowChange' = TRUE /\ dispatcher' = "update"
  /\ UNCHANGED <<objects, window, sizeOverride, vpcGeometry, choice, setter, stopping,
                 rects, extStarts>>

\* Mutant: the compositor's size always counts.
ModeEvent_NoOverride(size) ==
  /\ Dispatch /\ "output" \in globals
  /\ window' = [window EXCEPT !.size = size]
  /\ vpcGeometry' = IF vpcSurface THEN window' ELSE vpcGeometry
  /\ dispatcher' = "loop"
  /\ UNCHANGED <<objects, sizeOverride, windowChange, choice, setter, stopping, rects,
                 extStarts>>

\* outputHandleMode(): the size of the screen counts until the application has set one.
ModeEvent(size) ==
  /\ Dispatch /\ "output" \in globals
  /\ IF sizeOverride THEN UNCHANGED <<window, vpcGeometry>>
     ELSE /\ window' = [window EXCEPT !.size = size]
          /\ vpcGeometry' = IF vpcSurface THEN window' ELSE vpcGeometry
  /\ dispatcher' = "loop"
  /\ UNCHANGED <<objects, sizeOverride, windowChange, choice, setter, stopping, rects,
                 extStarts>>

DispatcherUpdates ==
  /\ Update(dispatcher, "loop")
  /\ UNCHANGED <<objects, window, sizeOverride, vpcGeometry, choice, setter, stopping,
                 counters>>

-----------------------------------------------------------------------------
DispatchThread == DispatchLoop \/ DispatchFails \/ DispatcherUpdates
ExtEvents == XformEvent \/ \E size \in WindowSizes : ModeEvent(size)
ExtApplication ==
  \/ \E available \in SUBSET {"vpc", "output"} : ExtStart(available)
  \/ ExtStop \/ ExtStopped
  \/ CompareHeight \/ SetRectangle \/ SetterTellsVpc \/ SetterUpdates
  \/ \E w \in Windows : CompareRectangle(w)

ExtNext == DispatchThread \/ ExtEvents \/ ExtApplication

ExtSpec == ExtInit /\ [][ExtNext]_extVars

-----------------------------------------------------------------------------
\* The variables stay in their domains.
ExtTypeOK ==
  /\ connected \in BOOLEAN /\ vpcSurface \in BOOLEAN /\ quit \in BOOLEAN /\ shut \in BOOLEAN
  /\ sizeOverride \in BOOLEAN /\ windowChange \in BOOLEAN
  /\ globals \subseteq {"vpc", "output"}
  /\ window \in Windows /\ rectangle \in Windows /\ differed \in BOOLEAN
  /\ vpcGeometry \in Windows \cup {Unset}
  /\ setter \in {"idle", "compare", "differs", "vpc", "update"}
  /\ dispatcher \in {"none", "loop", "dispatch", "update"}
  /\ stopper \in {"idle", "joining"}
  /\ rects \in Nat /\ events \in Nat /\ extStarts \in Nat

\* From the first rectangle on that was found to differ from the window, the window is the
\* application's last rectangle, whatever event the compositor sends at whatever moment
\* and over whatever restart.  A first one that seems to be the window already does not
\* count: it is ignored, and the next event may change the window.
RectangleKept == differed /\ setter \notin {"compare", "differs"} => window = rectangle

\* The surface has the geometry of the window, whichever thread told it last, except
\* while set_property() is about to tell it and for a window of the default size that
\* was only moved before start().
VpcFollowsWindow ==
  vpcSurface /\ setter # "vpc" =>
    vpcGeometry = window \/ (vpcGeometry = Unset /\ window.size = DefaultSize)

\* stop() returns: the dispatch thread comes out of its wait for events.
ExtStopReturns == stopper = "joining" ~> stopper = "idle"
=============================================================================
