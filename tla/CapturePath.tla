---------------------------- MODULE CapturePath ----------------------------
(***************************************************************************)
(* The capture thread with the session that feeds the encoder from it:     *)
(* CaptureThread with the consumer of crates/gliff-server/src/session.rs,  *)
(* which holds at most two frames (`pending` and `last_frame`), keeps one  *)
(* request outstanding and may resize the output under the thread.         *)
(*                                                                         *)
(* The link, the pace timer and the encoder are reduced to whether a pump  *)
(* finds room; VideoSession has them in detail.                            *)
(***************************************************************************)
EXTENDS CaptureThread

CONSTANTS
  Outputs,     \* the kinds of output: headless, which only the session resizes,
               \* or mirrored
  MaxResizes   \* bound: resizes of a headless output, or changes of a
               \* mirrored one

ASSUME PathAssumption ==
  Outputs \subseteq {"headless", "mirrored"} /\ MaxResizes \in Nat

VARIABLES
  output,      \* the kind of output of this session
  pending,     \* Session.pending
  last,        \* Session.last_frame
  out,         \* Session.output's size
  target,      \* the mode the session last asked of the compositor
  resizing,    \* the size a resize is waiting for (wait_for_mode), or None
  resizes,     \* resizes begun
  sentAny,     \* a frame has been encoded (frame_id # 0)
  recaptured,  \* the one-shot first-frame recapture has fired
  ended        \* the session loop has ended

sessionVars == <<output, pending, last, out, target, resizing, resizes, sentAny,
                 recaptured, ended>>
pathVars == <<captureVars, sessionVars>>

Headless == output = "headless"

\* run: the loop starts with a request outstanding; capture_asked stays true
\* at every await, because every turn of the loop ends in pump_encoder.
PathInit ==
  /\ InitWith(<<[type |-> "request"]>>)
  /\ output \in Outputs
  /\ pending = None /\ last = None
  /\ out = mode /\ target = mode /\ resizing = None /\ resizes = 0
  /\ sentAny = FALSE /\ recaptured = FALSE /\ ended = FALSE

Releases(frames) == [i \in 1..Len(frames) |-> Release(frames[i])]

Dropped(f) == IF f = None THEN <<>> ELSE <<f>>

\* matches_output: a frame captured before a resize took effect is stale.
Matches(f) == f.size = out'

\* One capture request is kept outstanding, even while blocked.
Requests(asked) == IF asked THEN <<>> ELSE <<[type |-> "request"]>>

\* pump_encoder: p and asked are pending and capture_asked as the handler
\* leaves them, dropped what it dropped.  With room the pending frame is
\* encoded and becomes last_frame; with nothing pending a refinement may
\* encode last_frame again.  A stale frame is dropped by either.
Pump(p, asked, dropped, room) ==
  LET frames ==
        IF room /\ p # None
          THEN IF Matches(p)
                 THEN [pending |-> None, last |-> p, drop |-> dropped \o Dropped(last)]
                 ELSE [pending |-> None, last |-> last, drop |-> dropped \o <<p>>]
          ELSE IF room /\ last # None /\ ~Matches(last)
                 THEN [pending |-> p, last |-> None, drop |-> dropped \o <<last>>]
                 ELSE [pending |-> p, last |-> last, drop |-> dropped]
  IN /\ pending' = frames.pending /\ last' = frames.last
     /\ held' = {frames.pending, frames.last} \ {None}
     /\ SendCmds(Releases(frames.drop) \o Requests(asked))
     /\ sentAny' = (sentAny \/ (room /\ p # None /\ Matches(p)))

\* The session ends, and drop(capturer) stops the thread.
End ==
  /\ ended' = TRUE
  /\ SendCmds(<<[type |-> "stop"]>>)
  /\ UNCHANGED <<pending, last, held, sentAny>>

Running == ~ended /\ resizing = None

\* on_capture, a frame: it replaces the pending one.  A mirrored output's
\* size follows its frames.
OnFrame(room) ==
  /\ Running /\ events # <<>> /\ Head(events).type = "frame"
  /\ events' = Tail(events)
  /\ out' = IF Headless THEN out ELSE Head(events).frame.size
  /\ Pump(Head(events).frame, FALSE, Dropped(pending), room)
  /\ UNCHANGED <<threadVars, wl, owed, mode, target, resizing, resizes,
                 recaptured, ended>>

\* on_capture, Stopped or Error: the session ends.
OnCaptureLost ==
  /\ Running /\ events # <<>> /\ Head(events).type # "frame"
  /\ events' = Tail(events)
  /\ End
  /\ UNCHANGED <<threadVars, wl, owed, mode, out, target, resizing, resizes,
                 recaptured>>

\* Any other turn of the loop: an ack, a write report, a timer.
Turn(room) ==
  /\ Running /\ UNCHANGED out
  /\ Pump(pending, TRUE, <<>>, room)
  /\ UNCHANGED <<threadVars, events, wl, owed, mode, target, resizing,
                 resizes, recaptured, ended>>

\* The first-frame rescue: no frame was encoded by the deadline.
Rescue ==
  /\ Running /\ ~sentAny /\ ~recaptured
  /\ recaptured' = TRUE
  /\ SendCmds(<<[type |-> "recapture"]>>)
  /\ UNCHANGED <<threadVars, events, wl, owed, mode, held, pending, last, out,
                 target, resizing, resizes, sentAny, ended>>

\* resize of a headless output: ask for the mode, then wait for it.
BeginResize(size) ==
  /\ Headless /\ Running /\ size # out /\ resizes < MaxResizes
  /\ target' = size /\ resizing' = size /\ resizes' = resizes + 1
  /\ UNCHANGED <<captureVars, pending, last, out, sentAny, recaptured, ended>>

\* Mutant: a size the encoder rejects is not taken back from the compositor.
FinishResizeOnly(rejected, room) ==
  /\ resizing # None
  /\ out' = IF rejected THEN out ELSE resizing
  /\ resizing' = None
  /\ Pump(pending, TRUE, <<>>, room)
  /\ UNCHANGED <<threadVars, events, wl, owed, mode, target, resizes,
                 recaptured, ended>>

\* wait_for_mode returns, the mode applied or not yet: the new size holds, or
\* the encoder rejects it and the old mode is asked for again.
FinishResize(rejected, room) ==
  /\ resizing # None
  /\ IF rejected THEN (target' = out /\ out' = out)
                 ELSE (out' = resizing /\ UNCHANGED target)
  /\ resizing' = None
  /\ Pump(pending, TRUE, <<>>, room)
  /\ UNCHANGED <<threadVars, events, wl, owed, mode, resizes, recaptured, ended>>

\* Bye, a lost connection, a failed encode.
Leave ==
  /\ Running /\ End
  /\ UNCHANGED <<threadVars, events, wl, owed, mode, out, target, resizing,
                 resizes, recaptured>>

\* The thread is joined; then the frames the session still holds are dropped.
DropFrames ==
  /\ ended /\ over /\ held # {}
  /\ pending' = None /\ last' = None /\ held' = {}
  /\ UNCHANGED <<threadVars, cmds, events, wl, owed, mode, out, target,
                 resizing, resizes, sentAny, recaptured, ended>>

\* The compositor (external): a headless output takes the modes the session
\* asks for; a mirrored one is the user's to change.
PathCompositor ==
  /\ \/ \E size \in Sizes :
          /\ Announce(size)
          /\ IF Headless THEN size = target /\ size # mode ELSE gen + Len(wl) <= MaxResizes
     \/ \E type \in {"ready", "failed"} : Answer(type)
     \/ EndCapture
  /\ UNCHANGED sessionVars

Session ==
  \/ \E room \in BOOLEAN : (OnFrame(room) \/ Turn(room))
  \/ OnCaptureLost \/ Rescue \/ Leave \/ DropFrames
  \/ \E size \in Sizes : BeginResize(size)
  \/ \E rejected, room \in BOOLEAN : FinishResize(rejected, room)

PathNext ==
  \/ PathCompositor
  \/ Session /\ UNCHANGED output
  \/ Thread /\ UNCHANGED sessionVars

\* The thread and the session keep running, and the thread looks at
\* stop_requested after every event; its loop serves the commands and the
\* compositor's events alike; the connection need not fail.  The compositor
\* applies the mode it was asked for and does not fail captures for ever; the screen keeps
\* changing (a still one completes no capture).  Its fairness is strong because
\* MaxWl, a bound of the model, may disable it for a while.  Room on the link
\* comes back.
PathFairness ==
  /\ WF_pathVars(Handlers /\ UNCHANGED sessionVars)
  /\ WF_pathVars((HandleRequest \/ HandleRecapture \/ HandleRelease \/ HandleStop)
                   /\ UNCHANGED sessionVars)
  /\ WF_pathVars(Quit /\ UNCHANGED sessionVars)
  /\ SF_pathVars(\E size \in Sizes : Announce(size) /\ size = target /\ size # mode
                                       /\ UNCHANGED sessionVars)
  /\ SF_pathVars(Answer("ready") /\ UNCHANGED sessionVars)
  /\ WF_pathVars((OnCaptureLost \/ \E room \in BOOLEAN : OnFrame(room)) /\ UNCHANGED output)
  /\ WF_pathVars(Turn(TRUE) /\ UNCHANGED output)
  /\ WF_pathVars(\E rejected, room \in BOOLEAN : FinishResize(rejected, room)
                                                  /\ UNCHANGED output)
  /\ WF_pathVars(DropFrames /\ UNCHANGED output)

PathSpec == PathInit /\ [][PathNext]_pathVars /\ PathFairness

(***************************************************************************)
(* Properties.                                                             *)
(***************************************************************************)

\* Whatever resizes the session makes of a headless output (nothing bounds how
\* often a user changes a mirrored one), it goes on sending pictures of the size
\* the output has: the session and the compositor never disagree on it for
\* ever, which would make every frame stale.
PicturesFitAgain ==
  Headless => []<>(ended \/ over \/ (last # None /\ last.size = out /\ last.size = mode))

=============================================================================
