--------------------------- MODULE RateController ---------------------------
(***************************************************************************)
(* The rate controller of crates/gliff-server/src/rate.rs under the session*)
(* loop that feeds it acks and programs the encoder with its target.       *)
(*                                                                         *)
(* A rate is a number of units (the code's bits per second); conversions to*)
(* u32 truncate, as \div does.  Instants are replaced by ages (see Ladder).*)
(* The base round trip is fixed, so the evaluation interval and the hold   *)
(* are constants.  What the estimator reports with an ack is any input.    *)
(***************************************************************************)
EXTENDS RateTerms

CONSTANTS
  MaxRate,         \* 80 Mbit/s
  MinRate,         \* 100 kbit/s
  Initial,         \* INITIAL_BPS
  MaxPerPixel,     \* MAX_FPS * MAX_BPP
  PixelsPerMin,    \* pixels that raise the floor by a unit (1 / (5 * MIN_BPP))
  FixedCap,        \* --bitrate, or None
  Growth,          \* growth of an evaluation, in percent
  EvalEvery,       \* eval_every, grow_after and STARTUP_TIMEOUT, in ticks
  GrowAfter,
  StartupTimeout,
  Geometries,      \* streams: pixels and their number
  Rates,           \* rates the estimator may report
  MayReject        \* the encoder may reject a geometry

ASSUME RateAssumption ==
  /\ MaxRate \in Nat \ {0} /\ MinRate \in Nat /\ Initial \in Nat
  /\ MaxPerPixel \in Nat /\ PixelsPerMin \in Nat \ {0}
  /\ FixedCap \in Nat \cup {None} /\ Growth \in Nat
  /\ EvalEvery \in Nat \ {0} /\ GrowAfter \in Nat /\ StartupTimeout \in Nat
  /\ Geometries \subseteq [pixels : Nat \ {0}, streams : {1, 2}]
  /\ Rates \subseteq Nat \ {0}
  /\ MayReject \in BOOLEAN

VARIABLES
  ctl,      \* RateController: geometry (pixels and streams), target, slow,
            \* started and idle (active age and age of the idle spell), eval,
            \* changed, overuse, blocked (by the cap or the writer), and the
            \* reason its last on_ack returned
  encoder,  \* the encoder: its geometry (the session's stream and chroma) and
            \* the rate of each stream
  tier,     \* VideoTier
  pending,  \* the session has a captured frame to send
  flight,   \* frames in flight: none, a fresh one, or one a round trip old
  calm      \* the link has room for the target, from now on

vars == <<ctl, encoder, tier, pending, flight, calm>>

Clamp(x, lo, hi) == Least(Greatest(x, lo), hi)

\* Ages stop here: beyond every hold.
Old == Greatest(StartupTimeout, GrowAfter) + 1
Older(age) == IF age = None THEN None ELSE Least(age + 1, Old)

-----------------------------------------------------------------------------
\* The bounds: set_bounds, effective_max.

MaxOf(g) == Least(g.pixels * g.streams * MaxPerPixel, MaxRate)

EffectiveMaxRaw(g) ==
  Greatest(IF FixedCap = None THEN MaxOf(g) ELSE Least(FixedCap, MaxOf(g)), 1)

\* Mutant: the floor may exceed the ceiling.
MinOfPlain(g) == Greatest(g.pixels \div PixelsPerMin, MinRate)

MinOf(g) ==
  Greatest(Least(Greatest(g.pixels \div PixelsPerMin, MinRate), EffectiveMaxRaw(g)), 1)

EffectiveMax(g) == Greatest(EffectiveMaxRaw(g), MinOf(g))

StreamBitrate(c) == Greatest(c.target \div c.geometry.streams, 1)

Reconfigure(c, g) ==
  [c EXCEPT !.geometry = g, !.target = Clamp(@, MinOf(g), EffectiveMax(g))]

-----------------------------------------------------------------------------
\* on_ack, in the order of its early returns.

Apply(c, next, why) ==
  [c EXCEPT !.target = next, !.reason = why,
            !.changed = IF why # "grow" THEN 0 ELSE @]

\* now - started.
Elapsed(c) == c.started + Greatest(c.idle, 0)

SlowStart(c, ack) ==
  LET next == Clamp(2 * ack.rate, c.target, EffectiveMax(c.geometry)) IN
  IF ~c.slow THEN c
  ELSE IF Elapsed(c) > StartupTimeout THEN [c EXCEPT !.slow = FALSE]
  ELSE IF ack.rate = 0 \/ ~ack.flight THEN c
  ELSE IF next > c.target THEN Apply(c, next, "slow_start")
  ELSE [c EXCEPT !.slow = next < EffectiveMax(c.geometry)]

Overuse(c, ack) ==
  \/ ack.queueing
  \/ ~c.slow /\ ack.recent # 0 /\ 10 * ack.recent < 7 * ack.rate

\* Two evaluations of overuse: 0.85 of what was delivered.
Cut(c, ack) ==
  LET basis == IF ack.recent # 0 THEN ack.recent
               ELSE IF ack.rate # 0 THEN ack.rate ELSE c.target
      floor == MinOf(c.geometry)
      next == Clamp((85 * basis) \div 100, floor,
                    Greatest((95 * c.target) \div 100, floor))
      d == [c EXCEPT !.overuse = 0, !.slow = FALSE]
  IN IF next < c.target THEN Apply(d, next, IF ack.queueing THEN "rtt" ELSE "rate") ELSE d

SinceChange(c) == IF c.changed = None THEN Elapsed(c) ELSE c.changed

\* Mutant: the target grows only when a frame had to wait.
MayRaiseBlocked(c, blocked) == SinceChange(c) >= GrowAfter /\ blocked

MayRaise(c, blocked) == SinceChange(c) >= GrowAfter

Raise(c, blocked, ack) ==
  LET most == EffectiveMax(c.geometry)
      track == (85 * ack.rate) \div 100
      grown == Least((c.target * (100 + Growth)) \div 100, most)
  IN IF ~MayRaise(c, blocked) THEN c
     ELSE IF track > c.target THEN Apply(c, Least(track, most), "track")
     ELSE IF grown > c.target THEN Apply(c, grown, "grow")
     ELSE c

Judge(c, blocked, ack) ==
  IF blocked /\ Overuse(c, ack)
  THEN IF c.overuse = 1 THEN Cut(c, ack) ELSE [c EXCEPT !.overuse = 1]
  ELSE IF c.slow THEN [c EXCEPT !.overuse = 0]
  ELSE Raise([c EXCEPT !.overuse = 0], blocked, ack)

Evaluate(c, ack) ==
  IF c.eval = None THEN [c EXCEPT !.eval = 0]
  ELSE IF c.eval < EvalEvery THEN c
  ELSE Judge([c EXCEPT !.eval = 0, !.blocked = FALSE], c.blocked, ack)

OnAck(c, ack) ==
  LET b == [c EXCEPT !.started = IF @ = None THEN 0 ELSE @, !.reason = "none"]
      s == SlowStart(b, ack)
  IN IF s.reason # "none" THEN s ELSE Evaluate(s, ack)

-----------------------------------------------------------------------------
\* The session's side.

Fresh(g) == [geometry |-> g, target |-> Clamp(Initial, MinOf(g), EffectiveMax(g)),
             slow |-> TRUE, started |-> None, idle |-> None, eval |-> None,
             changed |-> None, overuse |-> 0, blocked |-> FALSE, reason |-> "none"]

\* VideoEncoder::new with the settings of the controller.
NewEncoder(c) == [geometry |-> c.geometry, rate |-> StreamBitrate(c)]

Distance(a, b) == IF a > b THEN a - b ELSE b - a

\* Mutant: moves below half of the rate are skipped.
WorthIt(rate) == tier = "gpu" \/ 2 * Distance(rate, encoder.rate) >= encoder.rate

\* VideoEncoder::set_rate: the CPU encoder skips moves below 10%.
TakesRate(rate) == tier = "gpu" \/ 10 * Distance(rate, encoder.rate) >= encoder.rate

\* apply_rate with controller c.
Programmed(c) ==
  [encoder EXCEPT !.rate = IF TakesRate(StreamBitrate(c)) THEN StreamBitrate(c) ELSE @]

Init ==
  /\ \E g \in Geometries : ctl = Fresh(g) /\ encoder = NewEncoder(Fresh(g))
  /\ tier \in {"gpu", "cpu"}
  /\ pending = FALSE /\ flight = "none" /\ calm = FALSE

\* apply_stream_params after controller c: geometry g is wanted.
Stream(c, g) ==
  IF g = encoder.geometry
  THEN /\ ctl' = c
       /\ encoder' = Programmed(c)
  ELSE /\ ctl' = Reconfigure(c, g)
       /\ \/ encoder' = NewEncoder(ctl')
          \/ MayReject /\ UNCHANGED encoder

Acks == {a \in [rate : Rates \cup {0}, recent : Rates \cup {0},
                flight : BOOLEAN, queueing : BOOLEAN] : a.recent <= a.rate}

CalmAcks == {a \in Acks : ~a.queueing /\ (a.recent # 0 => 10 * a.recent >= 7 * a.rate)}

\* note_idle.
Idle(c) == [c EXCEPT !.idle = IF c.slow /\ @ = None THEN 0 ELSE @]

\* The ack of a frame a round trip old.
Acked == flight = "old" /\ flight' \in {"none", "fresh"}

\* FrameAck: the controller, the rate, the idle note, then the ladder.
Ack ==
  /\ Acked
  /\ \E c \in {OnAck(ctl, a) : a \in IF calm THEN CalmAcks ELSE Acks} :
       LET d == IF ~pending /\ flight' = "none" THEN Idle(c) ELSE c
       IN \/ /\ ctl' = d
             /\ encoder' = IF c.reason = "none" THEN encoder ELSE Programmed(c)
          \/ /\ ~calm
             /\ \E g \in Geometries : Stream(d, g)
  /\ UNCHANGED <<tier, pending, calm>>

Resize ==
  /\ ~calm
  /\ \E g \in Geometries : Stream([ctl EXCEPT !.reason = "none"], g)
  /\ UNCHANGED <<tier, pending, flight, calm>>

Capture ==
  /\ ~pending
  /\ pending' = TRUE
  /\ UNCHANGED <<ctl, encoder, tier, flight, calm>>

\* The pump finds no room, or a write takes long.
Block ==
  /\ pending \/ flight # "none"
  /\ ctl' = [ctl EXCEPT !.blocked = TRUE]
  /\ UNCHANGED <<encoder, tier, pending, flight, calm>>

\* note_frame_sent: started moves on by the idle spell.
Busy(c) == [c EXCEPT !.idle = None]

\* encode_and_send, of a new frame or a refinement; the commanded cadence may
\* move, which programs the encoder again.
Send ==
  /\ flight' = IF flight = "none" THEN "fresh" ELSE flight
  /\ pending' = FALSE
  /\ ctl' = Busy(ctl)
  /\ encoder' \in {encoder, Programmed(ctl)}
  /\ UNCHANGED <<tier, calm>>

Tick ==
  /\ ctl' = [ctl EXCEPT !.started = IF ctl.idle = None THEN Older(@) ELSE @,
                        !.idle = Older(@), !.eval = Older(@), !.changed = Older(@)]
  /\ flight' = IF flight = "fresh" THEN "old" ELSE flight
  /\ UNCHANGED <<encoder, tier, pending, calm>>

CalmDown ==
  /\ ~calm /\ calm' = TRUE
  /\ UNCHANGED <<ctl, encoder, tier, pending, flight>>

Next == Ack \/ Resize \/ Capture \/ Block \/ Send \/ Tick \/ CalmDown

Safety == Init /\ [][Next]_vars

\* Time passes, the screen changes, frames are sent and acked: an Ack, the only
\* step that is Acked, can take place whenever its frame is old.
Spec == Safety /\ WF_vars(Tick) /\ WF_vars(Send) /\ WF_flight(Acked)

(***************************************************************************)
(* Properties.                                                             *)
(***************************************************************************)

Reasons == {"none", "slow_start", "grow", "track", "rtt", "rate"}
Ages == 0..Old

Controllers ==
  [geometry : Geometries, target : 1..MaxRate, slow : BOOLEAN,
   started : Ages \cup {None}, idle : Ages \cup {None},
   eval : Ages \cup {None}, changed : Ages \cup {None},
   overuse : {0, 1}, blocked : BOOLEAN, reason : Reasons]

TypeOK ==
  /\ ctl \in Controllers
  /\ encoder \in [geometry : Geometries, rate : Nat \ {0}]
  /\ flight \in {"none", "fresh", "old"}
  /\ tier \in {"gpu", "cpu"} /\ pending \in BOOLEAN /\ calm \in BOOLEAN

\* The target stays between the floor and the ceiling, and the floor never
\* exceeds the ceiling: every clamp is of an ordered pair (a clamp panics
\* otherwise), with any --bitrate and any geometry.
TargetInBounds ==
  LET g == ctl.geometry IN
  /\ MinOf(g) <= EffectiveMaxRaw(g)
  /\ MinOf(g) <= ctl.target /\ ctl.target <= EffectiveMax(g)

\* The encoder has the target, all streams together, and the CPU encoder has
\* it within the 10% it is not reprogrammed for; also when a geometry was
\* rejected before the one that both have now.
EncoderFollows ==
  LET want == StreamBitrate(ctl) IN
  encoder.geometry = ctl.geometry =>
    IF tier = "gpu" THEN encoder.rate = want
    ELSE 10 * Distance(want, encoder.rate) < encoder.rate

\* A target once cut recovers: with a link that stays calm and frames that are
\* acked, it reaches the ceiling.
Recovers == calm ~> ctl.target = EffectiveMax(ctl.geometry)

\* "The CBR target (bits per second, all streams together)": what the encoder
\* is programmed to produce in all.
TargetIsForAllStreams ==
  LET streams == encoder.geometry.streams IN
  tier = "gpu" => streams * encoder.rate <= Greatest(ctl.target, streams)
=============================================================================
