---------------------------- MODULE VideoSession ----------------------------
(***************************************************************************)
(* A picture's way from the remote screen to the client's: the server's    *)
(* session loop (crates/gliff-server/src/session.rs) with its pacing,      *)
(* refinement, ladder steps and keyframes, the writer in front of the      *)
(* socket, the wire, and the client's decode loop (crates/gliff/src/net.rs)*)
(* with the channel to its UI.  It implements ScreenMirror.                *)
(*                                                                         *)
(* Time is abstract: a deadline has passed or not, as a step chooses, and  *)
(* a timer may fire once the loop has armed it.  The guards of the loop's  *)
(* select! are evaluated only when a turn ends, so they are state here; a  *)
(* timer that should have been armed and was not is a lost wake-up.        *)
(* The capture is reduced to one outstanding request (CapturePath has the  *)
(* thread); resizes are there too.                                         *)
(***************************************************************************)
EXTENDS PacketQueue, Sequences, FiniteSetsExt

CONSTANTS
  Geoms,        \* coded geometries (size and chroma) the ladder selects
  None,
  Tiers,        \* video tiers the client may have: gpu, cpu
  MaxRefines,   \* MAX_REFINES
  MaxScreen,    \* bound: contents of the screen
  MaxEvents,    \* bound: ladder steps, access units the decoder fails on by
                \* itself and zoom changes at the client, together
  MaxWire,      \* bound: packets in the socket
  MaxInflight   \* bound: unacked frames the byte cap may admit

ASSUME VideoAssumption ==
  /\ None \notin Geoms /\ None \notin Nat /\ Tiers \subseteq {"gpu", "cpu"}
  /\ MaxRefines \in Nat \ {0} /\ MaxScreen \in Nat \ {0} /\ MaxEvents \in Nat
  /\ MaxWire \in Nat \ {0} /\ MaxInflight \in Nat \ {0}

VARIABLES
  screen,    \* the content of the screen
  capture,   \* [asked, full, seen, frames]: a capture is outstanding, with
             \* full damage; the newest content captured; frames to take
  ses,       \* Session: pending, last (last_frame), refines, key
             \* (want_keyframe), geom (stream and chroma), fresh (the encoder
             \* has coded nothing), inflight, sent (frame_id # 0),
             \* recaptured, queue (the writer's)
  armed,     \* the timers armed by the last turn: subset of {pace, refine}
  writing,   \* the packet the writer task is writing, at most one
  reports,   \* write reports: one in the channel, one the task waits with
  wire,      \* packets on the way to the client
  up,        \* client messages on the way back
  dec,       \* the client: tier, geom, primed (a reference picture is decoded),
             \* held and lag (the CPU decoder's delay), complete (the
             \* picture a redraw shows), waiting (`undelivered`)
  ui,        \* sync_channel(2) of decoded pictures
  shown,     \* the content painted last
  events,    \* ladder steps, decode errors and zoom changes so far
  failed     \* a decode error is among them

serverVars == <<capture, ses, armed>>
linkVars == <<writing, reports, wire>>
clientVars == <<dec, ui, shown>>
budget == <<events, failed>>
vars == <<screen, serverVars, linkVars, up, clientVars, budget>>

\* The CPU tier's decoder of a High-profile stream holds back a picture.
NewDecoder(tier, g) ==
  [tier |-> tier, geom |-> g, primed |-> FALSE, held |-> <<>>,
   lag |-> IF tier = "cpu" THEN 1 ELSE 0, complete |-> None, waiting |-> None]

Init ==
  /\ screen = 1
  \* the first capture of a still screen waits for damage
  /\ capture = [asked |-> TRUE, full |-> FALSE, seen |-> 1, frames |-> <<>>]
  /\ armed = {}
  /\ \E g \in Geoms :
       /\ ses = [pending |-> None, last |-> None, refines |-> MaxRefines,
                 key |-> TRUE, geom |-> g, fresh |-> TRUE, inflight |-> 0,
                 sent |-> FALSE, recaptured |-> FALSE, queue |-> {}]
       /\ \E tier \in Tiers : dec = NewDecoder(tier, g)
  /\ writing = {} /\ reports = 0 /\ wire = <<>> /\ up = <<>>
  /\ ui = <<>> /\ shown = 0 /\ events = 0 /\ failed = FALSE

(***************************************************************************)
(* The screen and its capture (external).                                  *)
(***************************************************************************)

Event == events < MaxEvents /\ events' = events + 1

Change ==
  /\ screen < MaxScreen /\ screen' = screen + 1
  /\ UNCHANGED <<serverVars, linkVars, up, clientVars, budget>>

\* A capture completes on damage, or at once with full damage.
Capture ==
  /\ capture.asked /\ (capture.full \/ screen # capture.seen)
  /\ capture' = [asked |-> FALSE, full |-> FALSE, seen |-> screen,
                 frames |-> Append(capture.frames, screen)]
  /\ UNCHANGED <<screen, ses, armed, linkVars, up, clientVars, budget>>

(***************************************************************************)
(* The session loop.                                                       *)
(***************************************************************************)

\* Writer::send.
Send(s, fields) ==
  LET rest == s.queue \ Superseded(s.queue, fields.kind)
      n == 1 + Max({0} \cup {m.n : m \in rest})
  IN [s EXCEPT !.queue = Push(s.queue, [fields EXCEPT !.n = n])]

SendConfig(s) ==
  Send(s, [n |-> 0, kind |-> "StreamConfig", geom |-> s.geom])

\* What link_has_room may answer: with frames in flight it is up to the byte
\* cap's estimate.
RoomAnswers(s) ==
  IF ~VideoReady(s.queue) \/ s.inflight >= MaxInflight THEN {FALSE}
  ELSE IF s.inflight = 0 THEN {TRUE} ELSE BOOLEAN

\* encode_and_send.  fallback: the first GPU encode failed, so the CPU
\* pipeline takes over and codes a keyframe.
Encode(s, version, fallback) ==
  LET t == IF fallback THEN SendConfig(s) ELSE s
  IN [Send(t, [n |-> 0, kind |-> "VideoFrame", geom |-> s.geom,
               key |-> s.key \/ s.fresh \/ fallback, version |-> version])
        EXCEPT !.key = FALSE, !.fresh = FALSE, !.sent = TRUE,
               !.inflight = @ + 1]

CanRefine(s) == s.pending = None /\ s.last # None /\ s.refines < MaxRefines

\* A frame's first encode, or one more of a still frame, which may converge.
Encodes(s) ==
  IF s.pending # None
    THEN {[Encode(s, s.pending, fallback)
             EXCEPT !.pending = None, !.last = s.pending, !.refines = 0] :
            fallback \in IF s.sent THEN {FALSE} ELSE BOOLEAN}
  ELSE IF CanRefine(s)
    THEN {[Encode(s, s.last, FALSE) EXCEPT !.refines = n] :
            n \in {s.refines + 1, MaxRefines}}
  ELSE {}

\* pump_encoder: the sessions it may leave, given the deadlines that have
\* passed for certain.
Pumped(s, past) ==
  LET room == RoomAnswers(s)
      must == /\ room = {TRUE} /\ "pace" \in past
              /\ s.pending # None \/ "refine" \in past
  IN (IF TRUE \in room THEN Encodes(s) ELSE {})
       \cup (IF must /\ Encodes(s) # {} THEN {} ELSE {s})

\* Mutant: the pace timer is never armed.
ArmsRefineOnly(s) ==
  {IF room /\ CanRefine(s) THEN {"refine"} ELSE {} : room \in RoomAnswers(s)}

\* The guards of the next select!: which timers run.
Arms(s) ==
  {IF room THEN {a \in {"pace", "refine"} :
                   IF a = "pace" THEN s.pending # None ELSE CanRefine(s)}
           ELSE {} : room \in RoomAnswers(s)}

\* The end of every turn: s is the session as the arm's handler left it.
TurnAfter(s, past) ==
  /\ ses' \in Pumped(s, past)
  /\ armed' \in Arms(ses')

Turn(s) == TurnAfter(s, {})

\* on_capture, a frame: it replaces the pending one, and pump_encoder asks
\* for the next.
OnFrame ==
  /\ capture.frames # <<>>
  /\ capture' = [capture EXCEPT !.frames = Tail(@), !.asked = TRUE]
  /\ Turn([ses EXCEPT !.pending = Head(capture.frames)])
  /\ UNCHANGED <<screen, linkVars, up, clientVars, budget>>

\* apply_stream_params, the encoder accepts another geometry.
Reconfigured(s, g) ==
  [s EXCEPT !.geom = g, !.fresh = TRUE, !.key = TRUE, !.refines = 0]

\* The level's geometry is taken or rejected by the encoder; the config goes
\* out unless it was rejected.  A step of the pace alone keeps the encoder.
LadderStep(s, g, accepted) ==
  IF g = s.geom THEN SendConfig(s)
  ELSE IF accepted THEN SendConfig(Reconfigured(s, g))
  ELSE s

FromClient(kind) ==
  /\ up # <<>> /\ Head(up) = kind /\ up' = Tail(up)
  /\ UNCHANGED <<screen, capture, linkVars, clientVars>>

\* on_client_msg, FrameAck, with or without a ladder step.
OnAck ==
  /\ FromClient("ack")
  /\ LET s == [ses EXCEPT !.inflight = @ - 1] IN
       \/ Turn(s) /\ UNCHANGED budget
       \/ /\ Event /\ UNCHANGED failed
          /\ \E g \in Geoms, accepted \in BOOLEAN : Turn(LadderStep(s, g, accepted))

\* Mutant: the keyframe waits for the screen to change.
KeyRequestedOnly(s) == [s EXCEPT !.key = TRUE]

\* A still screen has no capture pending, so the kept frame is the answer.
KeyRequested(s) ==
  [s EXCEPT !.key = TRUE,
            !.refines = IF s.pending = None /\ s.last # None THEN 0 ELSE @]

\* on_client_msg, RequestKeyframe.
OnRequestKeyframe ==
  /\ FromClient("key")
  /\ Turn(KeyRequested(ses))
  /\ UNCHANGED budget

\* The write-report arm.
OnReport ==
  /\ reports > 0 /\ reports' = reports - 1
  /\ Turn(ses)
  /\ UNCHANGED <<screen, capture, writing, wire, up, clientVars, budget>>

\* The pace timer and the refinement timer, the latter bounded by the pace.
OnTimer(timer, past) ==
  /\ timer \in armed
  /\ TurnAfter(ses, past)
  /\ UNCHANGED <<screen, capture, linkVars, up, clientVars, budget>>

\* The first-frame rescue.
Rescue ==
  /\ ~ses.sent /\ ~ses.recaptured
  /\ capture' = [capture EXCEPT !.asked = TRUE, !.full = TRUE]
  /\ Turn([ses EXCEPT !.recaptured = TRUE])
  /\ UNCHANGED <<screen, linkVars, up, clientVars, budget>>

(***************************************************************************)
(* The writer task (WriterTask has it with failures) and the socket.       *)
(***************************************************************************)

Pop ==
  /\ writing = {} /\ reports < 2
  /\ \E m \in ses.queue : /\ IsFront(m, ses.queue)
                          /\ writing' = {m}
                          /\ ses' = [ses EXCEPT !.queue = @ \ {m}]
  /\ UNCHANGED <<screen, capture, armed, reports, wire, up, clientVars, budget>>

WriteDone ==
  /\ Len(wire) < MaxWire /\ reports < 2
  /\ \E m \in writing : wire' = Append(wire, m)
  /\ writing' = {} /\ reports' = reports + 1
  /\ UNCHANGED <<screen, serverVars, up, clientVars, budget>>

(***************************************************************************)
(* The client.                                                             *)
(***************************************************************************)

\* try_send of a picture; one the full channel rejects waits in place of any
\* that waited before.
Deliver(d, picture) ==
  IF Len(ui) < 2
    THEN ui' = Append(ui, picture) /\ dec' = [d EXCEPT !.waiting = None]
    ELSE UNCHANGED ui /\ dec' = [d EXCEPT !.waiting = picture]

FromServer(kind) ==
  /\ wire # <<>> /\ Head(wire).kind = kind /\ wire' = Tail(wire)
  /\ UNCHANGED <<screen, serverVars, writing, reports, shown>>

\* Mutant: every config resets the decoder.
ConfiguredAlways(d, g) == NewDecoder(d.tier, g)

\* A coded-stream change makes a new decoder and drops the waiting picture.
Configured(d, g) == IF g = d.geom THEN d ELSE NewDecoder(d.tier, g)

ReceiveConfig ==
  /\ FromServer("StreamConfig")
  /\ dec' = Configured(dec, Head(wire).geom)
  /\ UNCHANGED <<up, ui, budget>>

\* A frame is decoded, acked, and its picture (or the one it pushes out of
\* the decoder) delivered.
DecodeFrame ==
  /\ FromServer("VideoFrame")
  /\ Head(wire).key \/ dec.primed
  /\ up' = Append(up, "ack")
  /\ LET held == Append(dec.held, Head(wire).version)
         d == [dec EXCEPT !.primed = TRUE, !.complete = Head(wire).version]
     IN IF Len(held) > dec.lag
          THEN Deliver([d EXCEPT !.held = Tail(held)], Head(held))
          ELSE dec' = [d EXCEPT !.held = held] /\ UNCHANGED ui
  /\ UNCHANGED budget

\* What the client answers to an access unit it could not decode.
AfterError == <<"ack", "key">>

\* The decoder fails, by itself or for want of a reference: it can go on
\* from the next keyframe (external).
FailFrame ==
  /\ FromServer("VideoFrame")
  /\ IF Head(wire).key \/ dec.primed
       THEN Event /\ failed' = TRUE
       ELSE UNCHANGED budget
  /\ up' = up \o AfterError
  /\ dec' = [dec EXCEPT !.primed = FALSE, !.complete = None]
  /\ UNCHANGED ui

\* The idle drain: the waiting picture is offered again, or the picture the
\* CPU decoder holds is flushed out.
Drain ==
  /\ \/ dec.waiting # None /\ Deliver(dec, dec.waiting)
     \/ /\ dec.waiting = None /\ dec.held # <<>>
        /\ Deliver([dec EXCEPT !.held = Tail(@), !.lag = 0], Head(dec.held))
  /\ UNCHANGED <<screen, serverVars, linkVars, up, shown, budget>>

\* A new zoom redraws the last picture (GPU) or asks for a keyframe (CPU).
Zoom ==
  /\ Event /\ UNCHANGED failed
  /\ IF dec.tier = "gpu"
       THEN /\ UNCHANGED up
            /\ IF dec.complete = None THEN UNCHANGED <<dec, ui>>
                                      ELSE Deliver(dec, dec.complete)
       ELSE up' = Append(up, "key") /\ UNCHANGED <<dec, ui>>
  /\ UNCHANGED <<screen, serverVars, linkVars, shown>>

\* poll_frames: the UI empties the channel and paints the newest picture.
Paint ==
  /\ ui # <<>>
  /\ shown' = ui[Len(ui)] /\ ui' = <<>>
  /\ UNCHANGED <<screen, serverVars, linkVars, up, dec, budget>>

-----------------------------------------------------------------------------

Session == \/ OnFrame \/ OnAck \/ OnRequestKeyframe \/ OnReport \/ Rescue
           \/ OnTimer("pace", {"pace"}) \/ OnTimer("refine", {"pace", "refine"})
Client == ReceiveConfig \/ DecodeFrame \/ FailFrame \/ Drain \/ Zoom \/ Paint

Next == Change \/ Capture \/ Session \/ Pop \/ WriteDone \/ Client

\* Every ready arm of the loop is eventually chosen (tokio::select! is
\* random), the writer and the client keep running.  The screen need not
\* change and the user need not zoom.
Fairness ==
  /\ WF_vars(Capture) /\ WF_vars(Pop) /\ WF_vars(WriteDone)
  /\ WF_vars(OnFrame) /\ WF_vars(OnAck \/ OnRequestKeyframe) /\ WF_vars(OnReport)
  /\ WF_vars(OnTimer("pace", {"pace"})) /\ WF_vars(OnTimer("refine", {"pace", "refine"}))
  /\ WF_vars(Rescue)
  /\ WF_vars(ReceiveConfig \/ DecodeFrame \/ FailFrame)
  /\ WF_vars(Drain) /\ WF_vars(Paint)

Spec == Init /\ [][Next]_vars /\ Fairness

(***************************************************************************)
(* Properties.                                                             *)
(***************************************************************************)

IsVideo(m) == m.kind = "VideoFrame"

\* Short of a decoder that fails by itself, no frame lacks its reference:
\* the first frame a new decoder sees is a keyframe.
ReferenceAvailable ==
  ~failed /\ wire # <<>> /\ IsVideo(Head(wire)) => Head(wire).key \/ dec.primed

\* The video session implements remote display.
Mirror == INSTANCE ScreenMirror
MirrorSpec == Mirror!Spec

\* A lost keyframe is made good: a client whose decoder has no reference
\* picture gets one, even when nothing changes on the screen.
DecoderRecovers == ~dec.primed ~> dec.primed
=============================================================================
