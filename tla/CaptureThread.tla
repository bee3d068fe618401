--------------------------- MODULE CaptureThread ---------------------------
(***************************************************************************)
(* The screen half of the capture thread, crates/hypr-capture/src/         *)
(* thread.rs, between the compositor (ext-image-copy-capture-v1) and a     *)
(* consumer that holds CapturedFrames (crates/hypr-capture/src/lib.rs).    *)
(*                                                                         *)
(* The thread handles one command or one Wayland event at a time (calloop) *)
(* and never waits, so each handler is one action.  Commands and captured  *)
(* frames travel on unbounded channels.  The consumer here is any consumer:*)
(* it may hold frames as long as it likes; the session's own policy is in  *)
(* CapturePath.                                                            *)
(***************************************************************************)
EXTENDS Naturals, Sequences, Functions

CONSTANTS
  N,         \* slots of the ring (CaptureConfig.buffers)
  Sizes,     \* sizes the output can have
  Objs,      \* names of frame objects; the connection reuses freed ones
  None,
  MaxCmds,   \* bound: commands waiting in the channel
  MaxWl,     \* bound: Wayland events waiting for the thread
  MaxGen     \* bound: reallocations of the ring

Slots == 0..(N - 1)

ASSUME CaptureAssumption ==
  /\ N \in Nat \ {0} /\ MaxCmds \in Nat /\ MaxWl \in Nat /\ MaxGen \in Nat
  /\ Sizes # {} /\ None \notin Sizes /\ None \notin [obj : Objs, slot : Slots]

VARIABLES
  ring,      \* size the ring is allocated for, or None (State.ring empty)
  gen,       \* ring_generation
  busy,      \* RingSlot.busy
  inFlight,  \* in_flight: [obj, slot] or None
  want,      \* want_frame
  stopped,   \* stopped
  quit,      \* quit
  over,      \* the thread has torn down and ended
  cmds,      \* the command channel
  events,    \* the event channel to the consumer
  wl,        \* Wayland events the thread has not read yet
  owed,      \* the compositor still owes the capture in flight an answer
  mode,      \* the output's size; None once the capture session is gone
  held       \* the CapturedFrames the consumer holds

threadVars == <<ring, gen, busy, inFlight, want, stopped, quit, over>>
captureVars == <<threadVars, cmds, events, wl, owed, mode, held>>

Frame == [slot : Slots, gen : Nat, size : Sizes]
Cmd == [type : {"request", "recapture", "stop"}]
         \cup [type : {"release"}, slot : Slots, gen : Nat]
Event == [type : {"frame"}, frame : Frame] \cup [type : {"stopped", "error"}]
FrameEvents == {"ready", "failed", "failedStopped"}
WlEvent == [type : {"done"}, size : Sizes]
             \cup [type : FrameEvents, obj : Objs]
             \cup [type : {"stopped"}]

Release(f) == [type |-> "release", slot |-> f.slot, gen |-> f.gen]

\* c are the commands already sent.
InitWith(c) ==
  /\ mode \in Sizes
  /\ wl = <<[type |-> "done", size |-> mode]>>
  /\ ring = None /\ gen = 0 /\ busy = [s \in Slots |-> FALSE]
  /\ inFlight = None /\ want = FALSE /\ owed = FALSE
  /\ stopped = FALSE /\ quit = FALSE /\ over = FALSE
  /\ cmds = c /\ events = <<>> /\ held = {}

CaptureInit == InitWith(<<>>)

(***************************************************************************)
(* The compositor (external).                                              *)
(***************************************************************************)

CompositorUnchanged == UNCHANGED <<threadVars, cmds, events, held>>

\* The output changes mode, or its formats change: fresh constraints.
Announce(size) ==
  /\ mode # None /\ Len(wl) < MaxWl /\ gen + Len(wl) < MaxGen
  /\ mode' = size
  /\ wl' = Append(wl, [type |-> "done", size |-> size])
  /\ UNCHANGED owed
  /\ CompositorUnchanged

\* The capture in flight is answered: ready when the buffer still fits.
Answer(type) ==
  /\ owed /\ Len(wl) < MaxWl
  /\ type = "ready" => ring = mode
  /\ wl' = Append(wl, [type |-> type, obj |-> inFlight.obj])
  /\ owed' = FALSE
  /\ UNCHANGED mode
  /\ CompositorUnchanged

\* The capture session ends: the output is gone.  The session is told, and
\* the frame it owes fails, in either order.
EndCapture ==
  /\ mode # None /\ Len(wl) < MaxWl
  /\ mode' = None /\ owed' = FALSE
  /\ LET told == <<[type |-> "stopped"]>>
         failed == IF owed THEN <<[type |-> "failedStopped", obj |-> inFlight.obj]>>
                           ELSE <<>>
     IN wl' \in {wl \o (told \o failed), wl \o (failed \o told)}
  /\ CompositorUnchanged

Compositor == \/ \E size \in Sizes : Announce(size)
              \/ \E type \in {"ready", "failed"} : Answer(type)
              \/ EndCapture

(***************************************************************************)
(* The thread's handlers.                                                  *)
(***************************************************************************)

Free == {s \in Slots : ~busy'[s]}

\* An object name no unread event bears.
Unused(o) == \A i \in 1..Len(wl') : wl'[i].type \in FrameEvents => wl'[i].obj # o

\* maybe_capture, run after a handler has set ring, busy and stopped; w and f
\* are want_frame and in_flight as the handler leaves them.  The first free
\* slot is captured into.
MaybeCapture(w, f) ==
  IF w /\ f = None /\ ~stopped' /\ ring' # None /\ Free # {}
    THEN /\ \E o \in Objs, s \in Free :
              /\ Unused(o) /\ \A t \in Free : s <= t
              /\ inFlight' = [obj |-> o, slot |-> s]
         /\ want' = FALSE
         /\ owed' = (mode # None)
    ELSE /\ inFlight' = f /\ want' = w
         /\ owed' = (owed /\ f # None)

\* The next command, of this type, leaves the channel.
TakeCmd(type) ==
  /\ ~over /\ cmds # <<>> /\ Head(cmds).type = type
  /\ cmds' = Tail(cmds)
  /\ UNCHANGED <<gen, ring, stopped, over, events, wl, mode, held>>

\* Cmd::RequestFrame.
HandleRequest ==
  /\ TakeCmd("request")
  /\ UNCHANGED <<busy, quit>>
  /\ MaybeCapture(TRUE, inFlight)

\* Cmd::Recapture: the frame object in flight is destroyed.
HandleRecapture ==
  /\ TakeCmd("recapture")
  /\ UNCHANGED <<busy, quit>>
  /\ MaybeCapture(TRUE, None)

\* Mutant: the generation is not looked at.
FreesAnySlot(c) == TRUE

\* A release of a frame of an older ring frees nothing.
Frees(c) == c.gen = gen

\* Mutant: the slot is freed and a wanted capture not started.
HandleReleaseOnly ==
  /\ TakeCmd("release")
  /\ busy' = IF Frees(Head(cmds)) THEN [busy EXCEPT ![Head(cmds).slot] = FALSE] ELSE busy
  /\ UNCHANGED <<quit, want, inFlight, owed>>

\* Cmd::Release.
HandleRelease ==
  /\ TakeCmd("release")
  /\ busy' = IF Frees(Head(cmds)) THEN [busy EXCEPT ![Head(cmds).slot] = FALSE] ELSE busy
  /\ UNCHANGED quit
  /\ MaybeCapture(want, inFlight)

\* Cmd::Stop.
HandleStop ==
  /\ TakeCmd("stop")
  /\ quit' = TRUE
  /\ UNCHANGED <<busy, inFlight, want, owed>>

TakeEvent(type) ==
  /\ ~over /\ wl # <<>> /\ Head(wl).type = type
  /\ wl' = Tail(wl)
  /\ UNCHANGED <<over, cmds, mode, held>>

\* allocate_ring: the next generation, every slot free.
NextGen == gen + 1
FreshRing == [s \in Slots |-> FALSE]

\* A frame is wanted, or is being captured into the old ring.
StillWanted == want \/ inFlight # None

\* allocate_ring fails after Done has dropped the capture in flight: the
\* error is reported and the thread will end.
AllocationFails ==
  /\ ring' = None /\ quit' = TRUE
  /\ events' = Append(events, [type |-> "error"])
  /\ inFlight' = None /\ owed' = FALSE

\* Done: with a new size the capture in flight is abandoned and the ring
\* reallocated.
HandleDone ==
  /\ TakeEvent("done")
  /\ UNCHANGED stopped
  /\ IF Head(wl).size = ring
       THEN /\ UNCHANGED <<ring, gen, busy, quit, events>>
            /\ MaybeCapture(want, inFlight)
       ELSE /\ gen' = NextGen /\ busy' = FreshRing
            /\ \/ /\ ring' = Head(wl).size
                  /\ UNCHANGED <<quit, events>>
                  /\ MaybeCapture(StillWanted, None)
               \/ AllocationFails /\ want' = StillWanted

\* The event is for the frame in flight, not for one that was abandoned.
ForCurrent(e) == inFlight # None /\ inFlight.obj = e.obj

\* Any event of an abandoned frame.
HandleStale ==
  /\ \E type \in FrameEvents : TakeEvent(type)
  /\ ~ForCurrent(Head(wl))
  /\ UNCHANGED <<ring, gen, busy, inFlight, want, stopped, quit, events, owed>>

\* Ready: the slot is busy until the consumer drops the frame.
HandleReady ==
  /\ TakeEvent("ready") /\ ForCurrent(Head(wl))
  /\ busy' = [busy EXCEPT ![inFlight.slot] = TRUE]
  /\ events' = Append(events, [type |-> "frame",
                               frame |-> [slot |-> inFlight.slot, gen |-> gen, size |-> ring]])
  /\ UNCHANGED <<ring, gen, stopped, quit>>
  /\ MaybeCapture(want, None)

\* Failed for a transient reason: try again at once.
HandleFailed ==
  /\ TakeEvent("failed") /\ ForCurrent(Head(wl))
  /\ UNCHANGED <<ring, gen, busy, stopped, quit, events>>
  /\ MaybeCapture(TRUE, None)

\* Failed because the session stopped, or the session's Stopped.
HandleStopped ==
  /\ \/ TakeEvent("failedStopped") /\ ForCurrent(Head(wl)) /\ inFlight' = None
     \/ TakeEvent("stopped") /\ UNCHANGED inFlight
  /\ stopped' = TRUE
  /\ events' = Append(events, [type |-> "stopped"])
  /\ owed' = FALSE
  /\ UNCHANGED <<ring, gen, busy, want, quit>>

\* State::teardown, and the thread ends.
Teardown ==
  /\ ~over /\ over' = TRUE
  /\ ring' = None /\ inFlight' = None /\ owed' = FALSE
  /\ UNCHANGED <<gen, busy, want, stopped, quit, cmds, wl, mode, held>>

\* The loop sees stop_requested.
Quit == quit /\ Teardown /\ UNCHANGED events

\* The loop loses the compositor and reports it.
Disconnected == Teardown /\ events' = Append(events, [type |-> "error"])

Handlers == \/ HandleRequest \/ HandleRecapture \/ HandleRelease \/ HandleStop
            \/ HandleDone \/ HandleStale \/ HandleReady \/ HandleFailed
            \/ HandleStopped

Thread == Handlers \/ Quit \/ Disconnected

(***************************************************************************)
(* The consumer.                                                           *)
(***************************************************************************)

\* A send to a thread that has ended is lost.
SendCmds(s) == cmds' = IF over THEN cmds ELSE cmds \o s

\* Capturer::request_frame, recapture and stop.
Ask(type) ==
  /\ Len(cmds) < MaxCmds
  /\ SendCmds(<<[type |-> type]>>)
  /\ UNCHANGED <<threadVars, events, wl, owed, mode, held>>

\* The consumer takes the next event; a frame is its to hold.
Receive ==
  /\ events # <<>>
  /\ events' = Tail(events)
  /\ held' = IF Head(events).type = "frame" THEN held \cup {Head(events).frame} ELSE held
  /\ UNCHANGED <<threadVars, cmds, wl, owed, mode>>

\* CapturedFrame::drop.
Drop(f) ==
  /\ f \in held /\ Len(cmds) < MaxCmds
  /\ held' = held \ {f}
  /\ SendCmds(<<Release(f)>>)
  /\ UNCHANGED <<threadVars, events, wl, owed, mode>>

Consumer == \/ \E type \in {"request", "recapture", "stop"} : Ask(type)
            \/ Receive
            \/ \E f \in held : Drop(f)

CaptureNext == Compositor \/ Thread \/ Consumer

CaptureSpec == CaptureInit /\ [][CaptureNext]_captureVars

(***************************************************************************)
(* Properties.                                                             *)
(***************************************************************************)

CaptureTypeOK ==
  /\ ring \in Sizes \cup {None} /\ mode \in Sizes \cup {None}
  /\ gen \in Nat /\ busy \in [Slots -> BOOLEAN]
  /\ inFlight \in [obj : Objs, slot : Slots] \cup {None}
  /\ want \in BOOLEAN /\ stopped \in BOOLEAN /\ quit \in BOOLEAN
  /\ over \in BOOLEAN /\ owed \in BOOLEAN
  /\ cmds \in Seq(Cmd) /\ events \in Seq(Event) /\ wl \in Seq(WlEvent)
  /\ held \in SUBSET Frame

\* The frames alive anywhere between the thread and the consumer.
Delivered == {e.frame : e \in {x \in Range(events) : x.type = "frame"}}
Alive == held \cup Delivered

\* The compositor never writes into a buffer whose picture is still to be
\* read: the capture in flight has a slot no live frame of this ring is in,
\* however late the releases of this and of earlier rings arrive.
NoOverwrite ==
  inFlight # None =>
    \A f \in Alive : ~(f.gen = gen /\ f.slot = inFlight.slot)

\* A slot of the ring is taken exactly while a frame in it is alive or its
\* release is on the way: no slot leaks, none is freed twice.
SlotsAccounted ==
  ring # None =>
    {s \in Slots : busy[s]} =
      {f.slot : f \in {x \in Alive : x.gen = gen}}
        \cup {c.slot : c \in {x \in Range(cmds) : x.type = "release" /\ x.gen = gen}}

\* No lost wake-up: a wanted frame is not being captured only while every
\* slot is taken.
WantedIsCaptured ==
  want /\ inFlight = None /\ ring # None /\ ~stopped =>
    \A s \in Slots : busy[s]

\* The consumer sees the frames of a new ring only after the last frame of
\* the old one.
GenerationsInOrder ==
  \A i, j \in 1..Len(events) :
    i < j /\ events[i].type = "frame" /\ events[j].type = "frame" =>
      events[i].frame.gen <= events[j].frame.gen
=============================================================================
