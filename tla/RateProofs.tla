----------------------------- MODULE RateProofs ----------------------------
(***************************************************************************)
(* The three parts of the rate control, each with variables of its own:    *)
(*  - the target of the controller stays in its bounds, for any bounds,    *)
(*    geometries, --bitrate, rates and timing: no clamp is of a pair that  *)
(*    is not ordered;                                                      *)
(*  - the ladder settles with one move;                                    *)
(*  - a sample of the estimator is not above what the link carries.        *)
(***************************************************************************)
EXTENDS RateController, Ladder, LinkEstimator, TLAPS

-----------------------------------------------------------------------------
\* The controller.

\* A controller whose target is in the bounds of its geometry.
InBounds(c) ==
  MinOf(c.geometry) <= c.target /\ c.target <= EffectiveMax(c.geometry)

Sound(c) == c \in Controllers /\ InBounds(c)

\* The bounds are ordered numbers of at least one unit.
LEMMA Bounds ==
  ASSUME NEW g \in Geometries
  PROVE  /\ MinOf(g) \in 1..MaxRate
         /\ EffectiveMaxRaw(g) \in 1..MaxRate
         /\ EffectiveMax(g) \in 1..MaxRate
         /\ MinOf(g) <= EffectiveMaxRaw(g)
         /\ MinOf(g) <= EffectiveMax(g)
<1>1. g.pixels \in Nat /\ g.streams \in Nat
  BY RateAssumption
<1>2. g.pixels * g.streams \in Nat
  BY <1>1
<1>3. g.pixels * g.streams * MaxPerPixel \in Nat
  BY <1>2, RateAssumption
<1>4. MaxOf(g) \in Nat /\ MaxOf(g) <= MaxRate
  BY <1>3, RateAssumption DEF MaxOf, Least
<1>5. EffectiveMaxRaw(g) \in 1..MaxRate
  BY <1>4, RateAssumption DEF EffectiveMaxRaw, Least, Greatest, None
<1>6. g.pixels \div PixelsPerMin \in Nat
  BY <1>1, RateAssumption
<1>7. MinOf(g) \in 1..MaxRate /\ MinOf(g) <= EffectiveMaxRaw(g)
  BY <1>5, <1>6, RateAssumption DEF MinOf, Least, Greatest
<1> QED
  BY <1>5, <1>7 DEF EffectiveMax, Greatest

\* A clamp into ordered bounds stays in them.
LEMMA ClampIn ==
  ASSUME NEW x \in Int, NEW lo \in Int, NEW hi \in Int, lo <= hi
  PROVE  Clamp(x, lo, hi) \in lo..hi
BY DEF Clamp, Least, Greatest

\* The ages that a controller compares are numbers.
LEMMA AgesAreInt == Old \in Nat /\ Ages \cup {None} \subseteq Int
BY RateAssumption DEF Ages, Old, None, Greatest

\* A sound controller's target and bounds are ordered numbers.
LEMMA SoundBounds ==
  ASSUME NEW c, Sound(c)
  PROVE  /\ c.geometry \in Geometries /\ c.target \in Nat
         /\ MinOf(c.geometry) \in Nat /\ EffectiveMax(c.geometry) \in Nat
         /\ MinOf(c.geometry) <= c.target /\ c.target <= EffectiveMax(c.geometry)
<1>1. c.geometry \in Geometries /\ c.target \in 1..MaxRate
  BY DEF Sound, Controllers
<1>2. MinOf(c.geometry) \in 1..MaxRate /\ EffectiveMax(c.geometry) \in 1..MaxRate
  BY <1>1, Bounds
<1>3. MaxRate \in Nat
  BY RateAssumption
<1> QED
  BY <1>1, <1>2, <1>3 DEF Sound, InBounds

\* What the estimator reports are numbers.
LEMMA AckRates ==
  ASSUME NEW ack \in Acks
  PROVE  ack.rate \in Nat /\ ack.recent \in Nat
<1>1. ack.rate \in Rates \cup {0} /\ ack.recent \in Rates \cup {0}
  <2>1. ack \in [rate : Rates \cup {0}, recent : Rates \cup {0},
                 flight : BOOLEAN, queueing : BOOLEAN]
    BY DEF Acks
  <2> QED
    BY <2>1
<1>2. Rates \cup {0} \subseteq Nat
  BY RateAssumption
<1> QED
  BY <1>1, <1>2, Zenon

\* A new target in bounds leaves a sound controller.
LEMMA ApplySound ==
  ASSUME NEW c, Sound(c), NEW next \in Int, NEW why \in Reasons,
         MinOf(c.geometry) <= next, next <= EffectiveMax(c.geometry)
  PROVE  Sound(Apply(c, next, why)) /\ Apply(c, next, why).geometry = c.geometry
<1>1. next \in 1..MaxRate
  <2>1. c.geometry \in Geometries
    BY DEF Sound, Controllers
  <2>2. MinOf(c.geometry) \in 1..MaxRate /\ EffectiveMax(c.geometry) \in 1..MaxRate
    BY <2>1, Bounds
  <2>3. MaxRate \in Nat
    BY RateAssumption
  <2> QED
    BY <2>2, <2>3
<1>2. 0 \in Ages \cup {None}
  BY AgesAreInt DEF Ages
<1> QED
  BY <1>1, <1>2 DEF Sound, Controllers, InBounds, Apply

\* The steps of on_ack.
LEMMA SlowStartSound ==
  ASSUME NEW c, Sound(c), NEW ack \in Acks
  PROVE  Sound(SlowStart(c, ack)) /\ SlowStart(c, ack).geometry = c.geometry
<1> DEFINE most == EffectiveMax(c.geometry)
           next == Clamp(2 * ack.rate, c.target, most)
<1>1. c.target \in Int /\ most \in Int /\ c.target <= most /\ c.geometry \in Geometries
  BY SoundBounds
<1>2. 2 * ack.rate \in Int
  BY AckRates
<1>3. next \in c.target..most
  <2> HIDE DEF most
  <2> QED
    BY <1>1, <1>2, ClampIn
<1>4. next \in Int /\ MinOf(c.geometry) <= next /\ next <= most
  <2> HIDE DEF most, next
  <2> QED
    BY <1>1, <1>3, SoundBounds
<1>5. Sound(Apply(c, next, "slow_start"))
      /\ Apply(c, next, "slow_start").geometry = c.geometry
  <2> HIDE DEF next
  <2>1. "slow_start" \in Reasons
    BY DEF Reasons
  <2> QED
    BY <1>4, <2>1, ApplySound
<1>6. \A b \in BOOLEAN : Sound([c EXCEPT !.slow = b]) /\ [c EXCEPT !.slow = b].geometry = c.geometry
  BY DEF Sound, Controllers, InBounds
<1>7. (next < most) \in BOOLEAN
  OBVIOUS
<1> QED
  BY <1>5, <1>6, <1>7 DEF SlowStart

LEMMA CutSound ==
  ASSUME NEW c, Sound(c), NEW ack \in Acks
  PROVE  Sound(Cut(c, ack)) /\ Cut(c, ack).geometry = c.geometry
<1> DEFINE basis == IF ack.recent # 0 THEN ack.recent
                    ELSE IF ack.rate # 0 THEN ack.rate ELSE c.target
           floor == MinOf(c.geometry)
           ceiling == Greatest((95 * c.target) \div 100, floor)
           next == Clamp((85 * basis) \div 100, floor, ceiling)
           d == [c EXCEPT !.overuse = 0, !.slow = FALSE]
<1>1. c.target \in Nat /\ c.geometry \in Geometries /\ floor \in Nat
  BY SoundBounds
<1>2. ack.rate \in Nat /\ ack.recent \in Nat
  BY AckRates
<1>3. basis \in Nat
  BY <1>1, <1>2
<1>4. (85 * basis) \div 100 \in Int /\ (95 * c.target) \div 100 \in Int
  BY <1>1, <1>3
<1>5. ceiling \in Int /\ floor <= ceiling
  BY <1>1, <1>4 DEF Greatest
<1>6. next \in floor..ceiling
  <2>1. PICK x, lo, hi : x = (85 * basis) \div 100 /\ lo = floor /\ hi = ceiling
    OBVIOUS
  <2>2. x \in Int /\ lo \in Int /\ hi \in Int /\ lo <= hi
    BY <1>1, <1>4, <1>5, <2>1
  <2>3. Clamp(x, lo, hi) \in lo..hi
    BY ONLY <2>2, ClampIn
  <2> QED
    BY <2>1, <2>3
<1>7. Sound(d) /\ d.geometry = c.geometry /\ d.target = c.target
  BY DEF Sound, Controllers, InBounds
<1>8. ASSUME next < c.target
      PROVE  floor <= next /\ next <= EffectiveMax(c.geometry) /\ next \in Int
  <2>1. next \in Int /\ floor <= next
    BY <1>1, <1>5, <1>6
  <2>2. c.target <= EffectiveMax(c.geometry) /\ EffectiveMax(c.geometry) \in Int
    BY SoundBounds
  <2> QED
    BY <2>1, <2>2, <1>1, <1>8
<1>9. ASSUME next < c.target, NEW why \in Reasons
      PROVE  Sound(Apply(d, next, why)) /\ Apply(d, next, why).geometry = c.geometry
  <2> HIDE DEF next, d
  <2> QED
    BY <1>7, <1>8, <1>9, ApplySound
<1>10. (IF ack.queueing THEN "rtt" ELSE "rate") \in Reasons
  BY DEF Reasons
<1> QED
  BY <1>7, <1>9, <1>10 DEF Cut

LEMMA RaiseSound ==
  ASSUME NEW c, Sound(c), NEW blocked \in BOOLEAN, NEW ack \in Acks
  PROVE  Sound(Raise(c, blocked, ack)) /\ Raise(c, blocked, ack).geometry = c.geometry
<1> DEFINE most == EffectiveMax(c.geometry)
           track == (85 * ack.rate) \div 100
           grown == Least((c.target * (100 + Growth)) \div 100, most)
<1>1. /\ c.target \in Nat /\ most \in Nat /\ c.geometry \in Geometries
      /\ MinOf(c.geometry) \in Nat
      /\ MinOf(c.geometry) <= c.target /\ c.target <= most
  BY SoundBounds
<1>2. ack.rate \in Nat /\ Growth \in Nat
  BY AckRates, RateAssumption
<1>3. track \in Int
  BY <1>2
<1>4. c.target * (100 + Growth) \in Int
  BY <1>1, <1>2
<1>5. grown \in Int /\ grown <= most
  BY <1>1, <1>4 DEF Least
<1>6. ASSUME track > c.target
      PROVE  /\ Least(track, most) \in Int
             /\ MinOf(c.geometry) <= Least(track, most) /\ Least(track, most) <= most
  BY <1>1, <1>3, <1>6 DEF Least
<1>7. ASSUME track > c.target
      PROVE  /\ Sound(Apply(c, Least(track, most), "track"))
             /\ Apply(c, Least(track, most), "track").geometry = c.geometry
  BY <1>6, <1>7, ApplySound DEF Reasons
<1>8. ASSUME grown > c.target
      PROVE  Sound(Apply(c, grown, "grow")) /\ Apply(c, grown, "grow").geometry = c.geometry
  <2>1. MinOf(c.geometry) <= grown
    BY <1>1, <1>5, <1>8
  <2> QED
    BY <1>5, <2>1, ApplySound DEF Reasons
<1> QED
  BY <1>7, <1>8 DEF Raise

LEMMA OnAckSound ==
  ASSUME NEW c, Sound(c), NEW ack \in Acks
  PROVE  Sound(OnAck(c, ack)) /\ OnAck(c, ack).geometry = c.geometry
<1> DEFINE b == [c EXCEPT !.started = IF @ = None THEN 0 ELSE @, !.reason = "none"]
           s == SlowStart(b, ack)
<1>1. 0 \in Ages \cup {None} /\ "none" \in Reasons
  BY AgesAreInt DEF Ages, Reasons
<1>2. Sound(b) /\ b.geometry = c.geometry
  BY <1>1 DEF Sound, Controllers, InBounds
<1>3. Sound(s) /\ s.geometry = c.geometry
  <2> HIDE DEF b
  <2> QED
    BY <1>2, SlowStartSound
<1>4. ASSUME NEW d, Sound(d), NEW blocked \in BOOLEAN
      PROVE  Sound(Judge(d, blocked, ack)) /\ Judge(d, blocked, ack).geometry = d.geometry
  <2>1. \A n \in {0, 1} : Sound([d EXCEPT !.overuse = n])
                          /\ [d EXCEPT !.overuse = n].geometry = d.geometry
    BY <1>4 DEF Sound, Controllers, InBounds
  <2>2. Sound(Cut(d, ack)) /\ Cut(d, ack).geometry = d.geometry
    BY <1>4, CutSound
  <2>3. LET e == [d EXCEPT !.overuse = 0]
        IN Sound(Raise(e, blocked, ack)) /\ Raise(e, blocked, ack).geometry = d.geometry
    BY <1>4, <2>1, RaiseSound
  <2> QED
    BY <2>1, <2>2, <2>3 DEF Judge
<1>5. Sound(Evaluate(s, ack)) /\ Evaluate(s, ack).geometry = c.geometry
  <2> HIDE DEF s
  <2>1. Sound([s EXCEPT !.eval = 0]) /\ [s EXCEPT !.eval = 0].geometry = c.geometry
    BY <1>1, <1>3 DEF Sound, Controllers, InBounds
  <2>2. LET d == [s EXCEPT !.eval = 0, !.blocked = FALSE]
        IN Sound(d) /\ d.geometry = c.geometry
    BY <1>1, <1>3 DEF Sound, Controllers, InBounds
  <2>3. s.blocked \in BOOLEAN
    BY <1>3 DEF Sound, Controllers
  <2>4. LET d == [s EXCEPT !.eval = 0, !.blocked = FALSE]
        IN Sound(Judge(d, s.blocked, ack)) /\ Judge(d, s.blocked, ack).geometry = c.geometry
    BY <1>4, <2>2, <2>3
  <2> QED
    BY <1>3, <2>1, <2>4 DEF Evaluate
<1> QED
  BY <1>3, <1>5 DEF OnAck

-----------------------------------------------------------------------------
(* The session's operations on the controller and the encoder. *)

Encoders == [geometry : Geometries, rate : Nat \ {0}]

LEMMA FreshSound ==
  ASSUME NEW g \in Geometries
  PROVE  Sound(Fresh(g))
<1> DEFINE target == Clamp(Initial, MinOf(g), EffectiveMax(g))
<1>1. MaxRate \in Nat /\ Initial \in Nat
  BY RateAssumption
<1>2. /\ MinOf(g) \in 1..MaxRate /\ EffectiveMax(g) \in 1..MaxRate
      /\ MinOf(g) <= EffectiveMax(g)
  BY Bounds
<1>3. target \in MinOf(g)..EffectiveMax(g)
  <2>1. Initial \in Int /\ MinOf(g) \in Int /\ EffectiveMax(g) \in Int
    BY <1>1, <1>2
  <2>2. MinOf(g) <= EffectiveMax(g)
    BY <1>2
  <2> QED
    BY <2>1, <2>2, ClampIn, Zenon
<1>4. target \in 1..MaxRate /\ MinOf(g) <= target /\ target <= EffectiveMax(g)
  <2> HIDE DEF target
  <2>1. target \in Int /\ MinOf(g) <= target /\ target <= EffectiveMax(g)
    BY <1>2, <1>3
  <2> QED
    BY <1>1, <1>2, <2>1
<1> HIDE DEF target
<1>5. Fresh(g).geometry = g /\ Fresh(g).target = target
  BY DEF Fresh, target
<1>6. Fresh(g) \in Controllers
  BY <1>4 DEF Fresh, target, Controllers, Ages, Reasons, None
<1> QED
  BY <1>4, <1>5, <1>6 DEF Sound, InBounds

LEMMA ReconfigureSound ==
  ASSUME NEW c, Sound(c), NEW g \in Geometries
  PROVE  Sound(Reconfigure(c, g))
<1> DEFINE target == Clamp(c.target, MinOf(g), EffectiveMax(g))
<1>1. MaxRate \in Nat /\ c.target \in Nat
  BY RateAssumption, SoundBounds
<1>2. /\ MinOf(g) \in 1..MaxRate /\ EffectiveMax(g) \in 1..MaxRate
      /\ MinOf(g) <= EffectiveMax(g)
  BY Bounds
<1>3. target \in MinOf(g)..EffectiveMax(g)
  <2>1. c.target \in Int /\ MinOf(g) \in Int /\ EffectiveMax(g) \in Int
    BY <1>1, <1>2
  <2>2. MinOf(g) <= EffectiveMax(g)
    BY <1>2
  <2> QED
    BY <2>1, <2>2, ClampIn, Zenon
<1>4. target \in 1..MaxRate /\ MinOf(g) <= target /\ target <= EffectiveMax(g)
  <2> HIDE DEF target
  <2>1. target \in Int /\ MinOf(g) <= target /\ target <= EffectiveMax(g)
    BY <1>2, <1>3
  <2> QED
    BY <1>1, <1>2, <2>1
<1>5. Reconfigure(c, g) = [c EXCEPT !.geometry = g, !.target = target]
  BY DEF Reconfigure
<1> HIDE DEF target
<1> QED
  BY <1>4, <1>5 DEF Sound, Controllers, InBounds

LEMMA StreamBitrateType ==
  ASSUME NEW c, Sound(c)
  PROVE  StreamBitrate(c) \in Nat \ {0}
<1>1. c.target \in Nat /\ c.geometry.streams \in {1, 2}
  BY SoundBounds, RateAssumption
<1>2. c.target \div c.geometry.streams \in Int
  BY <1>1
<1> QED
  BY <1>2 DEF StreamBitrate, Greatest

LEMMA NewEncoderType ==
  ASSUME NEW c, Sound(c)
  PROVE  NewEncoder(c) \in Encoders
BY SoundBounds, StreamBitrateType DEF NewEncoder, Encoders

LEMMA ProgrammedType ==
  ASSUME NEW c, Sound(c), encoder \in Encoders
  PROVE  Programmed(c) \in Encoders
BY StreamBitrateType DEF Programmed, Encoders

LEMMA StreamSound ==
  ASSUME NEW c, Sound(c), NEW g \in Geometries, encoder \in Encoders, Stream(c, g)
  PROVE  Sound(ctl') /\ encoder' \in Encoders
<1>1. CASE g = encoder.geometry
  BY <1>1, ProgrammedType DEF Stream
<1>2. CASE g # encoder.geometry
  <2>1. ctl' = Reconfigure(c, g)
    BY <1>2 DEF Stream
  <2>2. Sound(ctl')
    BY <2>1, ReconfigureSound
  <2>3. encoder' = NewEncoder(ctl') \/ encoder' = encoder
    BY <1>2 DEF Stream
  <2>4. NewEncoder(ctl') \in Encoders
    BY <2>1, ReconfigureSound, NewEncoderType
  <2> QED
    BY <2>2, <2>3, <2>4
<1> QED
  BY <1>1, <1>2

\* Time, idleness and the other notes leave the target alone.
LEMMA OlderType ==
  ASSUME NEW age \in Ages \cup {None}
  PROVE  Older(age) \in Ages \cup {None}
BY AgesAreInt DEF Older, Ages, None, Least

LEMMA NotesSound ==
  ASSUME NEW c, Sound(c)
  PROVE  /\ Sound(Idle(c)) /\ Sound(Busy(c))
         /\ Sound([c EXCEPT !.blocked = TRUE])
         /\ Sound([c EXCEPT !.reason = "none"])
<1>1. 0 \in Ages \cup {None} /\ None \in Ages \cup {None} /\ "none" \in Reasons
  BY AgesAreInt DEF Ages, Reasons
<1> QED
  BY <1>1 DEF Sound, Controllers, InBounds, Idle, Busy

-----------------------------------------------------------------------------
(* The inductive invariant: the target of a controller is in the bounds of   *)
(* its own geometry, whichever geometry the encoder has.                     *)

IInv == TypeOK /\ InBounds(ctl)

LEMMA InitInv == Init => IInv
<1> SUFFICES ASSUME Init PROVE IInv
  OBVIOUS
<1>1. PICK g \in Geometries : ctl = Fresh(g) /\ encoder = NewEncoder(Fresh(g))
  BY DEF Init
<1>2. Sound(ctl) /\ encoder \in Encoders
  BY <1>1, FreshSound, NewEncoderType
<1>3. 0 \in Ages /\ Old \in Ages
  BY AgesAreInt DEF Ages
<1> QED
  BY <1>2, <1>3 DEF IInv, TypeOK, Init, Sound, Encoders

LEMMA NextInv == IInv /\ [Next]_vars => IInv'
<1> SUFFICES ASSUME IInv, [Next]_vars PROVE IInv'
  OBVIOUS
<1> USE DEF IInv
<1>0. Sound(ctl) /\ encoder \in Encoders
  BY DEF TypeOK, Sound, Encoders
<1>2. ASSUME Sound(ctl'), encoder' \in Encoders,
             flight' \in {"none", "fresh", "old"}, tier' = tier,
             pending' \in BOOLEAN, calm' \in BOOLEAN
      PROVE  IInv'
  BY <1>2 DEF TypeOK, Sound, Encoders, InBounds, Controllers
<1>3. CASE Ack
  <2>1. PICK c \in {OnAck(ctl, a) : a \in IF calm THEN CalmAcks ELSE Acks} :
          LET d == IF ~pending /\ flight' = "none" THEN Idle(c) ELSE c
          IN \/ /\ ctl' = d
                /\ encoder' = IF c.reason = "none" THEN encoder ELSE Programmed(c)
             \/ /\ ~calm
                /\ \E g \in Geometries : Stream(d, g)
    BY <1>3 DEF Ack
  <2>2. PICK a \in Acks : c = OnAck(ctl, a)
    BY DEF CalmAcks
  <2> DEFINE d == IF ~pending /\ flight' = "none" THEN Idle(c) ELSE c
  <2>3. Sound(c) /\ Sound(d)
    BY <1>0, <2>2, OnAckSound, NotesSound
  <2>4. Sound(ctl') /\ encoder' \in Encoders
    <3> HIDE DEF d
    <3>1. CASE ctl' = d /\ encoder' = IF c.reason = "none" THEN encoder ELSE Programmed(c)
      BY <3>1, <1>0, <2>3, ProgrammedType
    <3>2. ASSUME NEW g \in Geometries, Stream(d, g)
          PROVE  Sound(ctl') /\ encoder' \in Encoders
      BY <3>2, <1>0, <2>3, StreamSound
    <3> QED
      BY <2>1, <3>1, <3>2 DEF d
  <2> QED
    BY <1>2, <1>3, <2>4 DEF Ack, Acked, TypeOK
<1>4. CASE Resize
  <2>1. PICK g \in Geometries : Stream([ctl EXCEPT !.reason = "none"], g)
    BY <1>4 DEF Resize
  <2>2. Sound(ctl') /\ encoder' \in Encoders
    BY <1>0, <2>1, NotesSound, StreamSound
  <2> QED
    BY <1>2, <1>4, <2>2 DEF Resize, TypeOK
<1>5. CASE Capture
  BY <1>0, <1>2, <1>5 DEF Capture, TypeOK
<1>6. CASE Block
  <2>1. Sound(ctl')
    BY <1>0, <1>6, NotesSound DEF Block
  <2> QED
    BY <1>0, <1>2, <1>6, <2>1 DEF Block, TypeOK
<1>7. CASE Send
  <2>1. Sound(ctl') /\ encoder' \in Encoders
    BY <1>0, <1>7, NotesSound, ProgrammedType DEF Send
  <2>2. flight' \in {"none", "fresh", "old"} /\ pending' \in BOOLEAN
    BY <1>7 DEF Send, TypeOK
  <2> QED
    BY <1>2, <1>7, <2>1, <2>2 DEF Send, TypeOK
<1>8. CASE Tick
  <2>1. Sound(ctl')
    <3>1. /\ ctl.started \in Ages \cup {None} /\ ctl.idle \in Ages \cup {None}
          /\ ctl.eval \in Ages \cup {None} /\ ctl.changed \in Ages \cup {None}
      BY DEF TypeOK, Controllers
    <3>2. /\ Older(ctl.started) \in Ages \cup {None} /\ Older(ctl.idle) \in Ages \cup {None}
          /\ Older(ctl.eval) \in Ages \cup {None} /\ Older(ctl.changed) \in Ages \cup {None}
      BY <3>1, OlderType
    <3> QED
      BY <1>0, <1>8, <3>1, <3>2 DEF Tick, Sound, Controllers, InBounds
  <2>2. flight' \in {"none", "fresh", "old"}
    BY <1>8 DEF Tick, TypeOK
  <2> QED
    BY <1>0, <1>2, <1>8, <2>1, <2>2 DEF Tick, TypeOK
<1>9. CASE CalmDown
  BY <1>0, <1>2, <1>9 DEF CalmDown, TypeOK
<1>10. CASE UNCHANGED vars
  BY <1>0, <1>2, <1>10 DEF vars, TypeOK
<1> QED
  BY <1>3, <1>4, <1>5, <1>6, <1>7, <1>8, <1>9, <1>10 DEF Next

LEMMA InvImplies == IInv => TargetInBounds
<1> SUFFICES ASSUME IInv PROVE TargetInBounds
  OBVIOUS
<1>1. ctl.geometry \in Geometries
  BY DEF IInv, TypeOK, Controllers
<1> QED
  BY <1>1, Bounds DEF IInv, InBounds, TargetInBounds

-----------------------------------------------------------------------------
(* The encoder has the target: what changes the target gives a reason, and a *)
(* reason programs the encoder.                                              *)

Quiet(c, d) == d.reason = "none" => d.target = c.target

LEMMA ApplyNames ==
  ASSUME NEW c \in Controllers, NEW next, NEW why
  PROVE  Apply(c, next, why).reason = why
BY DEF Apply, Controllers

LEMMA SlowStartQuiet ==
  ASSUME NEW c \in Controllers, NEW ack
  PROVE  Quiet(c, SlowStart(c, ack))
<1> DEFINE next == Clamp(2 * ack.rate, c.target, EffectiveMax(c.geometry))
<1>1. Apply(c, next, "slow_start").reason = "slow_start"
  BY ApplyNames
<1>2. \A v : [c EXCEPT !.slow = v].target = c.target
  BY DEF Controllers
<1>3. \/ SlowStart(c, ack) = c
      \/ SlowStart(c, ack) = [c EXCEPT !.slow = FALSE]
      \/ SlowStart(c, ack) = Apply(c, next, "slow_start")
      \/ SlowStart(c, ack) = [c EXCEPT !.slow = next < EffectiveMax(c.geometry)]
  BY DEF SlowStart
<1> HIDE DEF next
<1> QED
  BY <1>1, <1>2, <1>3 DEF Quiet

LEMMA CutQuiet ==
  ASSUME NEW c \in Controllers, NEW ack
  PROVE  Quiet(c, Cut(c, ack))
<1> DEFINE basis == IF ack.recent # 0 THEN ack.recent
                    ELSE IF ack.rate # 0 THEN ack.rate ELSE c.target
           floor == MinOf(c.geometry)
           next == Clamp((85 * basis) \div 100, floor,
                         Greatest((95 * c.target) \div 100, floor))
           d == [c EXCEPT !.overuse = 0, !.slow = FALSE]
<1>1. d \in Controllers /\ d.target = c.target
  BY DEF Controllers
<1>2. \/ Cut(c, ack) = d
      \/ \E why \in {"rtt", "rate"} : Cut(c, ack) = Apply(d, next, why)
  BY DEF Cut
<1> HIDE DEF d, next
<1> QED
  BY <1>1, <1>2, ApplyNames DEF Quiet

LEMMA RaiseQuiet ==
  ASSUME NEW c \in Controllers, NEW blocked, NEW ack
  PROVE  Quiet(c, Raise(c, blocked, ack))
<1>1. \/ Raise(c, blocked, ack) = c
      \/ \E next : \E why \in {"track", "grow"} :
           Raise(c, blocked, ack) = Apply(c, next, why)
  BY DEF Raise
<1> QED
  BY <1>1, ApplyNames DEF Quiet

LEMMA OnAckQuiet ==
  ASSUME NEW c, Sound(c), NEW ack \in Acks
  PROVE  Quiet(c, OnAck(c, ack))
<1> DEFINE b == [c EXCEPT !.started = IF @ = None THEN 0 ELSE @, !.reason = "none"]
           s == SlowStart(b, ack)
<1>1. 0 \in Ages \cup {None} /\ "none" \in Reasons
  BY AgesAreInt DEF Ages, Reasons
<1>2. Sound(b) /\ b.target = c.target /\ b \in Controllers
  BY <1>1 DEF Sound, Controllers, InBounds
<1>3. Sound(s) /\ Quiet(b, s) /\ s \in Controllers
  <2> HIDE DEF b
  <2>1. Sound(s)
    BY <1>2, SlowStartSound
  <2> QED
    BY <1>2, <2>1, SlowStartQuiet DEF Sound
<1>4. \A d \in Controllers : \A blocked : Quiet(d, Judge(d, blocked, ack))
  <2> SUFFICES ASSUME NEW d \in Controllers, NEW blocked
               PROVE  Quiet(d, Judge(d, blocked, ack))
    OBVIOUS
  <2> DEFINE e(n) == [d EXCEPT !.overuse = n]
  <2>1. \A n \in {0, 1} : e(n) \in Controllers /\ e(n).target = d.target
    BY DEF Controllers
  <2>2. \/ Judge(d, blocked, ack) = Cut(d, ack)
        \/ Judge(d, blocked, ack) = e(1)
        \/ Judge(d, blocked, ack) = e(0)
        \/ Judge(d, blocked, ack) = Raise(e(0), blocked, ack)
    BY DEF Judge
  <2> HIDE DEF e
  <2>3. Quiet(d, Cut(d, ack)) /\ Quiet(e(0), Raise(e(0), blocked, ack))
    BY <2>1, CutQuiet, RaiseQuiet
  <2> QED
    BY <2>1, <2>2, <2>3 DEF Quiet
<1>5. Quiet(s, Evaluate(s, ack))
  <2> HIDE DEF s
  <2> DEFINE e == [s EXCEPT !.eval = 0]
             d == [s EXCEPT !.eval = 0, !.blocked = FALSE]
  <2>1. /\ e.target = s.target
        /\ d \in Controllers /\ d.target = s.target
    BY <1>1, <1>3 DEF Controllers
  <2>2. Evaluate(s, ack) \in {e, s, Judge(d, s.blocked, ack)}
    BY DEF Evaluate
  <2> HIDE DEF d, e
  <2>3. Quiet(d, Judge(d, s.blocked, ack))
    BY <1>4, <2>1
  <2> QED
    BY <2>1, <2>2, <2>3 DEF Quiet
<1>6. OnAck(c, ack) = IF s.reason # "none" THEN s ELSE Evaluate(s, ack)
  BY DEF OnAck
<1> HIDE DEF b, s
<1> QED
  BY <1>2, <1>3, <1>5, <1>6 DEF Quiet

\* An encoder e has the target of controller c, as far as it is programmed.
Follows(e, c) ==
  IF tier = "gpu" THEN e.rate = StreamBitrate(c)
  ELSE 10 * Distance(StreamBitrate(c), e.rate) < e.rate

LEMMA NewFollows ==
  ASSUME NEW c, Sound(c), NEW e, e.rate = StreamBitrate(c)
  PROVE  Follows(e, c)
<1>1. StreamBitrate(c) \in Nat \ {0}
  BY StreamBitrateType
<1>2. 10 * Distance(StreamBitrate(c), e.rate) = 0
  BY <1>1 DEF Distance
<1> QED
  BY <1>1, <1>2 DEF Follows

LEMMA ProgrammedFollows ==
  ASSUME NEW c, Sound(c), encoder \in Encoders
  PROVE  /\ Follows(Programmed(c), c)
         /\ Programmed(c).geometry = encoder.geometry
<1> DEFINE want == StreamBitrate(c)
           e == Programmed(c)
<1>1. want \in Nat \ {0} /\ encoder.rate \in Nat
  BY StreamBitrateType DEF Encoders
<1>2. e.geometry = encoder.geometry /\ e.rate = IF TakesRate(want) THEN want ELSE encoder.rate
  BY DEF Programmed, Encoders
<1> HIDE DEF e
<1>3. CASE TakesRate(want)
  BY <1>2, <1>3, NewFollows DEF e
<1>4. CASE ~TakesRate(want)
  <2>1. tier # "gpu" /\ ~(10 * Distance(want, encoder.rate) >= encoder.rate)
    BY <1>4 DEF TakesRate
  <2>2. Distance(want, encoder.rate) \in Int
    BY <1>1 DEF Distance
  <2> QED
    BY <1>1, <1>2, <1>4, <2>1, <2>2 DEF Follows, e
<1> QED
  BY <1>2, <1>3, <1>4 DEF e

LEMMA StreamFollows ==
  ASSUME NEW c, Sound(c), NEW g \in Geometries, encoder \in Encoders, Stream(c, g)
  PROVE  encoder'.geometry = ctl'.geometry => Follows(encoder', ctl')
<1>1. CASE g = encoder.geometry
  BY <1>1, ProgrammedFollows DEF Stream
<1>2. CASE g # encoder.geometry
  <2>1. Sound(ctl') /\ ctl'.geometry = g
    <3>1. ctl' = Reconfigure(c, g)
      BY <1>2 DEF Stream
    <3>2. Reconfigure(c, g).geometry = g
      BY DEF Reconfigure, Sound, Controllers
    <3> QED
      BY <3>1, <3>2, ReconfigureSound
  <2>2. CASE encoder' = NewEncoder(ctl')
    <3>1. encoder'.rate = StreamBitrate(ctl')
      BY <2>2 DEF NewEncoder
    <3> QED
      BY <2>1, <3>1, NewFollows
  <2>3. CASE encoder' = encoder
    BY <1>2, <2>1, <2>3
  <2> QED
    BY <1>2, <2>2, <2>3 DEF Stream
<1> QED
  BY <1>1, <1>2

LEMMA SameTarget ==
  ASSUME NEW e, NEW c, NEW d, d.target = c.target, d.geometry = c.geometry,
         Follows(e, c)
  PROVE  Follows(e, d)
BY DEF Follows, StreamBitrate

LEMMA EncoderFollowsStep ==
  IInv /\ EncoderFollows /\ [Next]_vars => EncoderFollows'
<1> SUFFICES ASSUME IInv, EncoderFollows, [Next]_vars
             PROVE  EncoderFollows'
  OBVIOUS
<1>1. Sound(ctl) /\ encoder \in Encoders /\ ctl \in Controllers
  BY DEF IInv, TypeOK, Sound, Encoders
<1>2. encoder.geometry = ctl.geometry => Follows(encoder, ctl)
  BY DEF EncoderFollows, Follows
<1>3. tier' = tier
  BY DEF Next, Ack, Resize, Capture, Block, Send, Tick, CalmDown, vars
<1>4. ASSUME encoder'.geometry = ctl'.geometry => Follows(encoder', ctl')
      PROVE  EncoderFollows'
  BY <1>3, <1>4 DEF EncoderFollows, Follows
<1>5. ASSUME encoder' = encoder, ctl'.target = ctl.target, ctl'.geometry = ctl.geometry
      PROVE  EncoderFollows'
  BY <1>2, <1>4, <1>5, SameTarget
<1>6. CASE Ack
  <2>1. PICK c \in {OnAck(ctl, a) : a \in IF calm THEN CalmAcks ELSE Acks} :
          LET d == IF ~pending /\ flight' = "none" THEN Idle(c) ELSE c
          IN \/ /\ ctl' = d
                /\ encoder' = IF c.reason = "none" THEN encoder ELSE Programmed(c)
             \/ /\ ~calm
                /\ \E g \in Geometries : Stream(d, g)
    BY <1>6 DEF Ack
  <2>2. PICK a \in Acks : c = OnAck(ctl, a)
    BY DEF CalmAcks
  <2> DEFINE d == IF ~pending /\ flight' = "none" THEN Idle(c) ELSE c
  <2>3. Sound(c) /\ Sound(d) /\ c.geometry = ctl.geometry /\ Quiet(ctl, c)
    BY <1>1, <2>2, OnAckSound, OnAckQuiet, NotesSound
  <2>4. d.target = c.target /\ d.geometry = c.geometry
    BY <2>3 DEF Sound, Controllers, Idle
  <2> HIDE DEF d
  <2>5. CASE ctl' = d /\ encoder' = IF c.reason = "none" THEN encoder ELSE Programmed(c)
    <3>1. CASE c.reason = "none"
      BY <1>5, <2>3, <2>4, <2>5, <3>1 DEF Quiet
    <3>2. CASE c.reason # "none"
      BY <1>1, <1>4, <2>3, <2>4, <2>5, <3>2, ProgrammedFollows, SameTarget
    <3> QED
      BY <3>1, <3>2
  <2>6. ASSUME NEW g \in Geometries, Stream(d, g)
        PROVE  EncoderFollows'
    BY <1>1, <1>4, <2>3, <2>6, StreamFollows
  <2> QED
    BY <2>1, <2>5, <2>6 DEF d
<1>7. CASE Resize
  <2>1. PICK g \in Geometries : Stream([ctl EXCEPT !.reason = "none"], g)
    BY <1>7 DEF Resize
  <2> QED
    BY <1>1, <1>4, <2>1, NotesSound, StreamFollows
<1>8. CASE Send
  <2>1. /\ ctl' = Busy(ctl) /\ encoder' \in {encoder, Programmed(ctl)}
    BY <1>8 DEF Send
  <2>2. ctl'.target = ctl.target /\ ctl'.geometry = ctl.geometry
    BY <1>1, <2>1 DEF Busy, Controllers
  <2> QED
    BY <1>1, <1>4, <1>5, <2>1, <2>2, ProgrammedFollows, SameTarget
<1>9. CASE Capture \/ Block \/ Tick \/ CalmDown \/ UNCHANGED vars
  <2>1. encoder' = encoder /\ ctl'.target = ctl.target /\ ctl'.geometry = ctl.geometry
    BY <1>1, <1>9 DEF Capture, Block, Tick, CalmDown, vars, Controllers
  <2> QED
    BY <1>5, <2>1
<1> QED
  BY <1>6, <1>7, <1>8, <1>9 DEF Next

LEMMA InitFollows == Init => EncoderFollows
<1> SUFFICES ASSUME Init
             PROVE  EncoderFollows
  OBVIOUS
<1>1. PICK g \in Geometries : ctl = Fresh(g) /\ encoder = NewEncoder(Fresh(g))
  BY DEF Init
<1>2. Sound(ctl) /\ encoder.rate = StreamBitrate(ctl)
  BY <1>1, FreshSound DEF NewEncoder
<1>3. Follows(encoder, ctl)
  BY <1>2, NewFollows
<1> QED
  BY <1>3 DEF Follows, EncoderFollows

-----------------------------------------------------------------------------
\* The state of the controller and of the encoder is always well formed: ages
\* and rates are numbers, and a stream is never programmed with a rate of 0.
THEOREM TypeCorrect == Safety => []TypeOK
BY InitInv, NextInv, PTL DEF Safety, IInv

\* The target is always within the bounds of the controller's geometry, and no
\* clamp of rate.rs is of a floor above its ceiling, for any --bitrate, any
\* resolution and any behaviour of the link.
THEOREM TargetStaysInBounds == Safety => []TargetInBounds
BY InitInv, NextInv, InvImplies, PTL DEF Safety

\* Whenever the encoder has the controller's geometry it has its target, all
\* streams together, within the 10% the CPU encoder is not reprogrammed for:
\* no change of the target is lost between rate.rs and session.rs, and a
\* rejected geometry leaves none behind.
THEOREM EncoderHasTheTarget == Safety => []EncoderFollows
BY InitInv, NextInv, InitFollows, EncoderFollowsStep, PTL DEF Safety

-----------------------------------------------------------------------------
\* The ladder.

\* What a level costs at a percentage of the floor is proportional to it.
LEMMA Product ==
  ASSUME NEW a \in Nat, NEW b \in Nat, NEW c \in Nat
  PROVE  \E k \in Nat : \A x \in Nat : 3 * x * a * b * c = x * k
<1> DEFINE k == 3 * (a * b * c)
<1>1. a * b * c \in Nat
  OBVIOUS
<1>2. k \in Nat
  BY <1>1
<1>3. \A x \in Nat : 3 * x * a * b * c = x * k
  OBVIOUS
<1> QED
  BY <1>2, <1>3

\* A level that is affordable at a multiple is affordable at a smaller one.
LEMMA AffordsLess ==
  ASSUME stream \in Streams, estimate.rate \in Nat,
         NEW i \in 0..6, NEW less \in Nat, NEW more \in Nat, less <= more, Affords(i, more)
  PROVE  Affords(i, less)
<1> DEFINE streams == IF stream.dual /\ (Aux(i) \/ ~stream.drop) THEN 2 ELSE 1
           quarter == IF Half(i) THEN 4 ELSE 1
           cap == Least(FpsCap(i), MaxFps)
<1>1. streams \in Nat /\ quarter \in Nat
  OBVIOUS
<1>2. cap \in Nat
  <2>1. MaxFps \in Nat
    BY LadderAssumption
  <2>2. FpsCap(i) \in Nat
    BY <2>1 DEF FpsCap
  <2> QED
    BY <2>1, <2>2 DEF Least
<1>3. stream.pixels \in Nat
  BY LadderAssumption
<1>4. PICK k \in Nat : \A x \in Nat : 3 * x * streams * cap * stream.pixels = x * k
  <2> HIDE DEF streams, cap
  <2>1. PICK a \in Nat, b \in Nat, c \in Nat : a = streams /\ b = cap /\ c = stream.pixels
    BY <1>1, <1>2, <1>3
  <2>2. PICK k \in Nat : \A x \in Nat : 3 * x * a * b * c = x * k
    BY Product
  <2> QED
    BY <2>1, <2>2
<1>5. 8500 * estimate.rate * quarter >= more * k
  BY <1>4 DEF Affords
<1>6. less * k <= more * k /\ less * k \in Nat /\ more * k \in Nat
  <2>1. PICK d \in Nat : more = less + d
    <3>1. more - less \in Nat /\ more = less + (more - less)
      OBVIOUS
    <3> QED
      BY <3>1
  <2>2. (less + d) * k = less * k + d * k
    OBVIOUS
  <2>3. less * k \in Nat /\ d * k \in Nat
    OBVIOUS
  <2> QED
    BY <2>1, <2>2, <2>3
<1>7. 8500 * estimate.rate * quarter \in Nat
  <2> HIDE DEF quarter
  <2> QED
    BY <1>1
<1>8. 8500 * estimate.rate * quarter >= less * k
  BY <1>5, <1>6, <1>7
<1> QED
  BY <1>4, <1>8 DEF Affords

\* A nonempty set of levels has a best one.
LEMMA BestOf ==
  ASSUME NEW S \in SUBSET (0..6), S # {}
  PROVE  \E i \in S : \A j \in 0..(i - 1) : j \notin S
<1>1. \A i \in S : i = 0 \/ i = 1 \/ i = 2 \/ i = 3 \/ i = 4 \/ i = 5 \/ i = 6
  OBVIOUS
<1>2. CASE 0 \in S
  BY <1>2
<1>3. CASE 0 \notin S /\ 1 \in S
  BY <1>3
<1>4. CASE 0 \notin S /\ 1 \notin S /\ 2 \in S
  BY <1>4
<1>5. CASE 0 \notin S /\ 1 \notin S /\ 2 \notin S /\ 3 \in S
  BY <1>5
<1>6. CASE 0 \notin S /\ 1 \notin S /\ 2 \notin S /\ 3 \notin S /\ 4 \in S
  BY <1>6
<1>7. CASE 0 \notin S /\ 1 \notin S /\ 2 \notin S /\ 3 \notin S /\ 4 \notin S /\ 5 \in S
  BY <1>7
<1>8. CASE S = {6}
  BY <1>8
<1> QED
  BY <1>1, <1>2, <1>3, <1>4, <1>5, <1>6, <1>7, <1>8

\* What Ladder::select returns: a level that is affordable, or the last; and no
\* better one is.
LEMMA SelectIs ==
  ASSUME NEW mult
  PROVE  /\ Select(mult) \in 0..6
         /\ Affords(Select(mult), mult) \/ Select(mult) = 6
         /\ \A j \in 0..(Select(mult) - 1) : ~Affords(j, mult)
<1> DEFINE S == {i \in 0..6 : Affords(i, mult)}
<1>1. CASE S = {}
  <2>1. Select(mult) = 6
    BY <1>1 DEF Select, Last
  <2> QED
    BY <1>1, <2>1
<1>2. CASE S # {}
  <2> DEFINE Best(i) == Affords(i, mult) /\ \A j \in 0..(i - 1) : ~Affords(j, mult)
  <2>1. \E i \in 0..6 : Best(i)
    <3>1. PICK i \in S : \A j \in 0..(i - 1) : j \notin S
      <4> HIDE DEF S
      <4>1. S \in SUBSET (0..6)
        BY DEF S
      <4> QED
        BY <1>2, <4>1, BestOf
    <3> QED
      BY <3>1
  <2>2. Select(mult) = CHOOSE i \in 0..6 : Best(i)
    BY <1>2 DEF Select, Last
  <2>3. Select(mult) \in 0..6 /\ Best(Select(mult))
    <3> HIDE DEF Best
    <3> QED
      BY <2>1, <2>2
  <2> QED
    BY <2>3
<1> QED
  BY <1>1, <1>2

\* A greater multiple never selects a better level.
LEMMA SelectMonotone ==
  ASSUME stream \in Streams, estimate.rate \in Nat,
         NEW less \in Nat, NEW more \in Nat, less <= more
  PROVE  Select(less) <= Select(more)
<1> SUFFICES ASSUME Select(more) < Select(less)
             PROVE  FALSE
  BY SelectIs
<1>1. Select(more) \in 0..6 /\ Select(less) \in 0..6
  BY SelectIs
<1>2. ~Affords(Select(more), less)
  BY <1>1, SelectIs
<1>3. Affords(Select(more), more)
  BY <1>1, SelectIs
<1> QED
  BY <1>1, <1>2, <1>3, AffordsLess

\* Since the rate or the stream changed the ladder has not moved, or it has
\* moved once and is where no threshold moves it from.
Settled ==
  \/ moves = 0
  \/ /\ moves = 1
     /\ \/ index = Select(100)
        \/ ~estimate.slow /\ index = Select(UpMult)

LadderInv ==
  /\ stream \in Streams /\ estimate.rate \in Nat /\ estimate.slow \in BOOLEAN
  /\ index \in 0..6
  /\ Settled

LEMMA InitLadder == LadderInit => LadderInv
<1> SUFFICES ASSUME LadderInit
             PROVE  LadderInv
  OBVIOUS
<1> QED
  BY LadderAssumption DEF LadderInit, LadderInv, Settled

\* Where a threshold moves the ladder to, it stays.
LEMMA ConsiderSettles ==
  ASSUME LadderInv, Consider
  PROVE  Settled' /\ index' \in 0..6
<1>1. /\ Select(100) \in 0..6 /\ Select(UpMult) \in 0..6 /\ Select(DownMult) \in 0..6
      /\ Select(DownMult) <= Select(100) /\ Select(100) <= Select(UpMult)
  BY SelectIs, SelectMonotone DEF LadderInv, UpMult, DownMult
<1>2. stream' = stream /\ estimate' = estimate
  BY DEF Consider
<1>3. \A m \in Nat : Select(m)' = Select(m)
  BY <1>2 DEF Select, Affords
<1>4. Select(100)' = Select(100) /\ Select(UpMult)' = Select(UpMult)
  BY <1>3 DEF UpMult
<1>5. CASE \E i \in 0..6 : MoveTo(i)
  <2>1. PICK i \in 0..6 : MoveTo(i)
    BY <1>5
  <2>2. index' = i /\ moves' = moves + 1
    BY <2>1 DEF MoveTo
  <2>3. /\ moves = 0
        /\ index' = Select(100) \/ (~estimate.slow /\ index' = Select(UpMult))
    <3>1. CASE estimate.slow
      <4>1. ConsiderStart
        BY <3>1 DEF Consider
      <4> QED
        BY <1>1, <2>2, <3>1, <4>1
        DEF ConsiderStart, LadderInv, Settled, MoveTo, Stay
    <3>2. CASE ~estimate.slow /\ Select(100) < index
      <4>1. StepUp
        BY <3>2 DEF Consider
      <4> QED
        BY <1>1, <2>2, <3>2, <4>1 DEF StepUp, LadderInv, Settled, MoveTo, Stay
    <3>3. CASE ~estimate.slow /\ ~(Select(100) < index)
      <4>1. StepDown \/ Stay(None)
        BY <3>3 DEF Consider
      <4>2. Select(DownMult) > index \/ Stay(None)
        BY <3>3 DEF Consider
      <4> QED
        BY <1>1, <2>2, <3>3, <4>1, <4>2
        DEF StepDown, LadderInv, Settled, MoveTo, Stay
    <3> QED
      BY <3>1, <3>2, <3>3
  <2> QED
    BY <1>2, <1>4, <2>2, <2>3 DEF Settled
<1>6. CASE moves' = moves /\ index' = index
  BY <1>2, <1>4, <1>6 DEF LadderInv, Settled
<1>7. (\E i \in 0..6 : MoveTo(i)) \/ (moves' = moves /\ index' = index)
  BY <1>1 DEF Consider, ConsiderStart, StepUp, StepDown, Stay
<1> QED
  BY <1>5, <1>6, <1>7, <1>1 DEF MoveTo

LEMMA NextLadder == LadderInv /\ [LadderNext]_ladderVars => LadderInv'
<1> SUFFICES ASSUME LadderInv, [LadderNext]_ladderVars
             PROVE  LadderInv'
  OBVIOUS
<1> USE DEF LadderInv
<1>1. CASE LadderTick \/ UNCHANGED ladderVars
  <2>1. /\ stream' = stream /\ estimate' = estimate
        /\ index' = index /\ moves' = moves
    BY <1>1 DEF LadderTick, ladderVars
  <2>2. \A m \in Nat : Select(m)' = Select(m)
    BY <2>1 DEF Select, Affords
  <2> QED
    BY <2>1, <2>2 DEF Settled, UpMult
<1>2. CASE Measure
  <2>1. PICK r \in Estimates, real \in BOOLEAN, slow \in BOOLEAN, cong \in BOOLEAN :
          /\ slow => estimate.slow /\ ~cong
          /\ estimate' = [rate |-> r, real |-> real, slow |-> slow, congested |-> cong]
          /\ moves' = IF r = estimate.rate THEN moves ELSE 0
    BY <1>2 DEF Measure
  <2>2. stream' = stream /\ index' = index
    BY <1>2 DEF Measure
  <2>3. r \in Nat
    BY LadderAssumption
  <2>4. CASE r = estimate.rate
    <3>1. estimate'.rate = estimate.rate /\ moves' = moves
      BY <2>1, <2>4
    <3>2. \A m \in Nat : Select(m)' = Select(m)
      BY <2>2, <3>1 DEF Select, Affords
    <3> QED
      BY <2>1, <2>2, <2>3, <3>1, <3>2 DEF Settled, UpMult
  <2>5. CASE r # estimate.rate
    BY <2>1, <2>2, <2>3, <2>5 DEF Settled
  <2> QED
    BY <2>4, <2>5
<1>3. CASE ResizeStream
  BY <1>3 DEF ResizeStream, Settled
<1>4. CASE Consider
  BY <1>4, ConsiderSettles DEF Consider
<1> QED
  BY <1>1, <1>2, <1>3, <1>4 DEF LadderNext

\* At a steady rate and size the ladder moves at most once, whatever the rate,
\* the stream, the holds and the order of acks and ticks: the level it moves to
\* is not one that a threshold moves it from.
THEOREM LadderSettles == LadderSafety => []SettlesAtOnce
<1>1. LadderInv => SettlesAtOnce
  BY DEF LadderInv, Settled, SettlesAtOnce
<1> QED
  BY <1>1, InitLadder, NextLadder, PTL DEF LadderSafety

-----------------------------------------------------------------------------
\* The link estimator.

\* A sum over one frame.
LEMMA SumOne ==
  ASSUME NEW f, f.bytes \in Nat
  PROVE  Sum({f}) = f.bytes
<1> DEFINE Any(s) == CHOOSE x \in s : TRUE
           IsSum(g) == g = [s \in SUBSET {f} |->
                              IF s = {} THEN 0 ELSE Any(s).bytes + g[s \ {Any(s)}]]
           flat == [s \in SUBSET {f} |-> IF s = {} THEN 0 ELSE f.bytes]
           iter == CHOOSE g : IsSum(g)
<1>1. Sum({f}) = iter[{f}]
  BY DEF Sum, MapThenSumSet, MapThenFoldSet
<1>2. IsSum(flat)
  <2>1. ASSUME NEW s \in SUBSET {f}
        PROVE  (IF s = {} THEN 0 ELSE f.bytes)
                 = IF s = {} THEN 0 ELSE Any(s).bytes + flat[s \ {Any(s)}]
    <3>1. CASE s = {}
      BY <3>1
    <3>2. CASE s = {f}
      <4>1. Any(s) = f /\ s \ {f} = {}
        BY <3>2
      <4>2. flat[{}] = 0
        OBVIOUS
      <4> HIDE DEF flat, Any
      <4>3. Any(s).bytes + flat[s \ {Any(s)}] = f.bytes + 0
        BY <4>1, <4>2, Zenon
      <4>4. f.bytes + 0 = f.bytes /\ s # {}
        BY <3>2
      <4> QED
        BY <4>3, <4>4
    <3> QED
      BY <3>1, <3>2
  <2> HIDE DEF Any
  <2>2. flat = [s \in SUBSET {f} |->
                  IF s = {} THEN 0 ELSE Any(s).bytes + flat[s \ {Any(s)}]]
    BY <2>1
  <2> QED
    BY <2>2
<1>3. IsSum(iter)
  <2> HIDE DEF IsSum, flat
  <2> QED
    BY <1>2
<1>4. iter[{f}] = Any({f}).bytes + iter[{f} \ {Any({f})}] /\ iter[{}] = 0
  <2> HIDE DEF iter, Any
  <2> QED
    BY <1>3
<1>5. Any({f}) = f
  OBVIOUS
<1> QED
  <2> HIDE DEF iter, Any
  <2>1. {f} \ {f} = {}
    OBVIOUS
  <2> QED
    BY <1>1, <1>4, <1>5, <2>1

\* No later than the link is done with it, the ack of a frame is taken: as long
\* as nothing stalls.  Then acks come in the order of the link, one at a time.
Frame ==
  [id : Nat, bytes : Nat \ {0}, at : Nat, app : BOOLEAN, delivered : Nat,
   time : Nat \cup {None}, due : Nat, busy : Nat]

LinkTypes ==
  /\ now \in Nat /\ delivered \in Nat /\ deliveredTime \in Nat \cup {None}
  /\ nextId \in Nat /\ link \in [free : Nat, busy : Nat]
  /\ sent \in SUBSET Frame
  /\ \A f \in sent : f.id < nextId
  /\ \A f, g \in sent : f.id = g.id => f = g

\* Nothing is late; what a frame remembers of the last ack is not ahead of it.
OnTime ==
  /\ deliveredTime <= now /\ link.busy <= now
  /\ \A f \in sent :
       /\ now <= f.due /\ f.at <= now /\ f.busy <= link.busy
       /\ f.time <= f.at /\ f.time <= deliveredTime

\* One frame after another: each takes its bytes in time behind the last ack and
\* behind every earlier frame, and the next one will.
OneByOne ==
  /\ deliveredTime # None => deliveredTime <= link.free + Delay
  /\ \A f \in sent :
       /\ f.due <= link.free + Delay
       /\ deliveredTime # None => deliveredTime + f.bytes <= f.due
  /\ \A f, g \in sent : g.id < f.id => g.due + f.bytes <= f.due

\* While the link is not idle it is no more than that.
Before(g, f) == g.id < f.id /\ \A h \in sent : h.id <= g.id \/ f.id <= h.id
Oldest(f) == \A h \in sent : f.id <= h.id
Newest(f) == \A h \in sent : h.id <= f.id
BackToBack ==
  /\ sent = {} /\ deliveredTime # None => link.free + Delay = deliveredTime
  /\ \A f \in sent : Newest(f) => link.free + Delay = f.due
  /\ \A f, g \in sent : g.id < f.id => g.busy <= f.busy
  /\ \A f, g \in sent :
       Before(g, f) /\ f.busy + Delay <= g.due => f.due = g.due + f.bytes
  /\ \A f \in sent :
       Oldest(f) /\ deliveredTime # None /\ f.busy + Delay <= deliveredTime =>
         f.due = deliveredTime + f.bytes

\* What was delivered since a frame was sent fits into the time since the ack
\* before it, and fills it if the link was busy.
Carried ==
  \A f \in sent : f.time # None =>
    /\ f.delivered <= delivered
    /\ delivered - f.delivered <= deliveredTime - f.time
    /\ f.busy <= f.time - Delay => delivered - f.delivered = deliveredTime - f.time

LinkInv ==
  LinkTypes /\ OnTime /\ OneByOne /\ BackToBack /\ Carried /\ RateMeasured

LEMMA InitLink == LinkInit => LinkInv
<1> SUFFICES ASSUME LinkInit
             PROVE  LinkInv
  OBVIOUS
<1>1. LinkTypes /\ OnTime /\ OneByOne
  BY LinkAssumption DEF LinkInit, LinkTypes, OnTime, OneByOne, None
<1>2. BackToBack /\ Carried
  BY DEF LinkInit, BackToBack, Carried
<1>3. RateMeasured
  BY DEF LinkInit, RateMeasured, RateNotOverstated, NoSample
<1> QED
  BY <1>1, <1>2, <1>3 DEF LinkInv

\* What the invariant says of frames, with their types.
LEMMA FrameTypes ==
  ASSUME LinkTypes
  PROVE  /\ \A f \in sent : /\ f.id \in Nat /\ f.bytes \in Nat /\ f.bytes > 0 /\ f.at \in Nat
                            /\ f.delivered \in Nat /\ f.time \in Int /\ f.due \in Nat
                            /\ f.busy \in Nat /\ (f.time # None => f.time \in Nat)
         /\ deliveredTime \in Int /\ (deliveredTime # None => deliveredTime \in Nat)
         /\ link.free \in Nat /\ link.busy \in Nat /\ Delay \in Nat
<1>1. \A f \in sent : f \in Frame
  BY DEF LinkTypes
<1>2. \A f \in sent : /\ f.id \in Nat /\ f.bytes \in Nat \ {0} /\ f.at \in Nat
                      /\ f.delivered \in Nat /\ f.time \in Nat \cup {None} /\ f.due \in Nat
                      /\ f.busy \in Nat
  BY <1>1 DEF Frame
<1>3. None \in Int
  BY DEF None
<1> QED
  BY <1>2, <1>3, LinkAssumption DEF LinkTypes

LEMMA OnSentKeeps ==
  ASSUME LinkInv, NEW bytes \in Sizes, NEW app \in BOOLEAN, OnSent(bytes, app)
  PROVE  LinkInv'
<1> DEFINE start == Greatest(link.free, now)
           busy == IF link.free < now THEN now ELSE link.busy
           x == [id |-> nextId, bytes |-> bytes, at |-> now, app |-> app,
                 delivered |-> delivered, time |-> Snapshot,
                 due |-> start + bytes + Delay, busy |-> busy]
<1>1. /\ link' = [free |-> start + bytes, busy |-> busy] /\ sent' = sent \cup {x}
      /\ nextId' = nextId + 1 /\ now' = now /\ delivered' = delivered
      /\ deliveredTime' = deliveredTime /\ last' = last
  BY DEF OnSent
<1>2. LinkTypes /\ OnTime /\ OneByOne /\ BackToBack /\ Carried /\ RateMeasured
  BY DEF LinkInv
<1>3. /\ bytes \in Nat /\ bytes > 0 /\ now \in Nat /\ nextId \in Nat /\ delivered \in Nat
      /\ link.free \in Nat /\ link.busy \in Nat /\ Delay \in Nat
      /\ start \in Nat /\ link.free <= start /\ now <= start
      /\ start = link.free \/ (start = now /\ link.free < now)
      /\ busy \in Nat /\ link.busy <= busy /\ busy <= now
      /\ busy = IF link.free < now THEN now ELSE link.busy
      /\ start = IF link.free < now THEN now ELSE link.free
  BY <1>2, LinkAssumption DEF LinkTypes, OnTime, Greatest
<1>4. /\ Snapshot \in Nat \cup {None} /\ Snapshot \in Int /\ Snapshot <= now
      /\ Snapshot <= deliveredTime /\ (Snapshot # None => Snapshot = deliveredTime)
      /\ deliveredTime \in Nat \cup {None} /\ deliveredTime \in Int
  BY <1>2 DEF Snapshot, LinkTypes, OnTime, None
<1> DEFINE due == start + bytes + Delay
           free == start + bytes
           snap == Snapshot
<1>5. /\ due \in Nat /\ free \in Nat /\ due = free + Delay /\ free = start + bytes
      /\ link.free + Delay + bytes <= due /\ now <= due
  BY <1>3
<1>6. /\ x.id = nextId /\ x.bytes = bytes /\ x.at = now /\ x.delivered = delivered
      /\ x.time = snap /\ x.due = due /\ x.busy = busy /\ x \in Frame
      /\ link'.free = free /\ link'.busy = busy /\ link' \in [free : Nat, busy : Nat]
  BY <1>1, <1>3, <1>4, <1>5 DEF Frame
<1> HIDE DEF x, start, busy, due, free, snap
<1>7. /\ \A f \in sent : /\ f.id \in Nat /\ f.bytes \in Nat /\ f.bytes > 0 /\ f.at \in Nat
                         /\ f.delivered \in Nat /\ f.time \in Int /\ f.due \in Nat
                         /\ f.busy \in Nat /\ (f.time # None => f.time \in Nat)
                         /\ f.id < nextId
  BY <1>2, FrameTypes DEF LinkTypes
<1>8. LinkTypes'
  BY <1>1, <1>2, <1>3, <1>6, <1>7 DEF LinkTypes
<1>9. OnTime'
  BY <1>1, <1>2, <1>3, <1>4, <1>5, <1>6, <1>7 DEF OnTime, snap
<1>10. OneByOne'
  <2>1. deliveredTime' # None => deliveredTime' <= link'.free + Delay
    BY <1>1, <1>2, <1>3, <1>4, <1>5, <1>6 DEF OneByOne
  <2>2. \A f \in sent' : f.due <= link'.free + Delay
    BY <1>1, <1>2, <1>3, <1>5, <1>6, <1>7 DEF OneByOne
  <2>3. \A f \in sent' : deliveredTime' # None => deliveredTime' + f.bytes <= f.due
    BY <1>1, <1>2, <1>3, <1>4, <1>5, <1>6, <1>7 DEF OneByOne
  <2>4. \A f, g \in sent' : g.id < f.id => g.due + f.bytes <= f.due
    BY <1>1, <1>2, <1>3, <1>5, <1>6, <1>7 DEF OneByOne
  <2> QED
    BY <2>1, <2>2, <2>3, <2>4 DEF OneByOne
<1>11. BackToBack'
  <2>1. sent' # {}
    BY <1>1
  <2>2. \A f \in sent' : Newest(f)' => f = x
    BY <1>1, <1>3, <1>6, <1>7 DEF Newest
  <2>3. \A f \in sent' : Newest(f)' => link'.free + Delay = f.due
    BY <2>2, <1>5, <1>6
  <2>4. \A f, g \in sent' : g.id < f.id => g.busy <= f.busy
    BY <1>1, <1>2, <1>3, <1>6, <1>7 DEF BackToBack, OnTime
  <2>5. ASSUME NEW f \in sent', NEW g \in sent', Before(g, f)', f.busy + Delay <= g.due
        PROVE  f.due = g.due + f.bytes
    <3>1. g \in sent
      BY <1>1, <1>3, <1>6, <1>7, <2>5 DEF Before
    <3>2. CASE f \in sent
      <4>1. Before(g, f)
        BY <1>1, <2>5 DEF Before
      <4> QED
        BY <1>2, <2>5, <3>1, <3>2, <4>1 DEF BackToBack
    <3>3. CASE f = x
      <4>1. Newest(g)
        BY <1>1, <1>3, <1>6, <1>7, <2>5, <3>1, <3>3 DEF Before, Newest
      <4>2. link.free + Delay = g.due
        BY <1>2, <3>1, <4>1 DEF BackToBack
      <4>3. ~(link.free < now)
        BY <1>3, <1>6, <2>5, <3>3, <4>2
      <4> QED
        BY <1>3, <1>5, <1>6, <3>3, <4>2, <4>3
    <3> QED
      BY <1>1, <3>2, <3>3
  <2>6. ASSUME NEW f \in sent', Oldest(f)', deliveredTime # None,
               f.busy + Delay <= deliveredTime
        PROVE  f.due = deliveredTime + f.bytes
    <3>1. CASE f \in sent
      <4>1. Oldest(f)
        BY <1>1, <2>6 DEF Oldest
      <4> QED
        BY <1>2, <2>6, <3>1, <4>1 DEF BackToBack
    <3>2. CASE f \notin sent
      <4>1. f = x /\ sent = {}
        BY <1>1, <1>3, <1>6, <1>7, <2>6, <3>2 DEF Oldest
      <4>2. link.free + Delay = deliveredTime
        BY <1>2, <2>6, <4>1 DEF BackToBack
      <4>3. ~(link.free < now)
        BY <1>3, <1>6, <2>6, <4>1, <4>2
      <4> QED
        BY <1>3, <1>5, <1>6, <4>1, <4>2, <4>3
    <3> QED
      BY <3>1, <3>2
  <2> QED
    BY <1>1, <2>1, <2>3, <2>4, <2>5, <2>6 DEF BackToBack
<1>12. Carried'
  <2>1. ASSUME NEW f \in sent, f.time # None
        PROVE  /\ f.delivered <= delivered
               /\ delivered - f.delivered <= deliveredTime - f.time
               /\ f.busy <= f.time - Delay => delivered - f.delivered = deliveredTime - f.time
    BY <1>2, <2>1 DEF Carried
  <2>2. x.time # None => /\ x.delivered <= delivered
                         /\ delivered - x.delivered = deliveredTime - x.time
                         /\ delivered - x.delivered <= deliveredTime - x.time
    BY <1>3, <1>4, <1>6 DEF snap
  <2> QED
    BY <1>1, <2>1, <2>2 DEF Carried
<1>13. RateMeasured'
  BY <1>1, <1>2 DEF RateMeasured, RateNotOverstated
<1> QED
  BY <1>8, <1>9, <1>10, <1>11, <1>12, <1>13 DEF LinkInv

\* The ack of the oldest frame, at its time.
LEMMA AckKeeps ==
  ASSUME LinkInv, AckArrives
  PROVE  LinkInv'
<1>1. LinkTypes /\ OnTime /\ OneByOne /\ BackToBack /\ Carried /\ RateMeasured
  BY DEF LinkInv
<1>2. PICK f \in sent : /\ f.due <= now /\ Oldest(f) /\ OnAckOf(f.id)
  BY DEF AckArrives, Oldest
<1>3. (CHOOSE g \in sent : g.id = f.id) = f
  BY <1>1 DEF LinkTypes
<1>4. Credited(f.id) = {f}
  <2>1. \A g \in sent : g.id <= f.id => g = f
    BY <1>1, <1>2, FrameTypes DEF Oldest, LinkTypes
  <2>2. f.id <= f.id
    BY <1>1, FrameTypes
  <2> QED
    BY <2>1, <2>2 DEF Credited
<1> DEFINE total == delivered + Sum(Credited(f.id))
           window == {r \in rtts \cup {[at |-> now, ms |-> now - f.at]} :
                        now - r.at <= BaseWindow}
           s == [bytes |-> total - f.delivered, time |-> Interval(f), app |-> f.app,
                 busy |-> f.busy <= f.time - Delay]
<1>5. /\ sent' = sent \ {f} /\ delivered' = total /\ deliveredTime' = now
      /\ now' = now /\ nextId' = nextId /\ link' = link
      /\ \/ f.time # None /\ s.time > 0 /\ last' = s
         \/ last' = last
  BY <1>2, <1>3, <1>4 DEF OnAckOf
<1>6. /\ f.id \in Nat /\ f.bytes \in Nat /\ f.bytes > 0 /\ f.at \in Nat
      /\ f.delivered \in Nat /\ f.time \in Int /\ f.due \in Nat /\ f.busy \in Nat
      /\ (f.time # None => f.time \in Nat)
      /\ deliveredTime \in Int /\ (deliveredTime # None => deliveredTime \in Nat)
      /\ link.free \in Nat /\ link.busy \in Nat /\ Delay \in Nat
      /\ now \in Nat /\ delivered \in Nat
  BY <1>1, FrameTypes DEF LinkTypes
<1>7. total = delivered + f.bytes
  BY <1>4, <1>6, SumOne
<1>8. f.due = now
  BY <1>1, <1>2, <1>6 DEF OnTime
<1>9. f.time # None => deliveredTime # None
  BY <1>1, <1>6 DEF OnTime, None
<1>10. \A g \in sent : /\ g.id \in Nat /\ g.bytes \in Nat /\ g.bytes > 0 /\ g.at \in Nat
                       /\ g.delivered \in Nat /\ g.time \in Int /\ g.due \in Nat
                       /\ g.busy \in Nat /\ (g.time # None => g.time \in Nat)
  BY <1>1, FrameTypes
<1>11. \A g \in sent : g # f => f.id < g.id
  BY <1>1, <1>2, <1>6, <1>10 DEF Oldest, LinkTypes
<1>12. now # None
  BY <1>6 DEF None
<1>13. RateMeasured'
  <2>1. CASE last' = last
    BY <1>1, <2>1 DEF RateMeasured, RateNotOverstated
  <2>2. CASE f.time # None /\ s.time > 0 /\ last' = s
    <3>1. s.time = now - f.time
      BY <1>1, <1>6, <2>2 DEF Interval, Greatest, OnTime
    <3>2. /\ f.delivered <= delivered
          /\ delivered - f.delivered <= deliveredTime - f.time
          /\ f.busy <= f.time - Delay => delivered - f.delivered = deliveredTime - f.time
      BY <1>1, <2>2 DEF Carried
    <3>3. deliveredTime + f.bytes <= now
      BY <1>1, <1>8, <1>9, <2>2 DEF OneByOne
    <3>4. f.busy <= f.time - Delay => now = deliveredTime + f.bytes
      <4>1. f.time <= deliveredTime
        BY <1>1 DEF OnTime
      <4>2. f.busy <= f.time - Delay => f.busy + Delay <= deliveredTime
        BY <1>6, <4>1
      <4> QED
        BY <1>1, <1>2, <1>8, <1>9, <2>2, <4>2 DEF BackToBack
    <3>5. s.bytes = total - f.delivered /\ s.busy = (f.busy <= f.time - Delay)
      OBVIOUS
    <3> HIDE DEF s, total
    <3>6. s.bytes <= s.time
      BY <1>6, <1>7, <1>9, <2>2, <3>1, <3>2, <3>3, <3>5
    <3>7. f.busy <= f.time - Delay => s.bytes = s.time
      BY <1>6, <1>7, <1>9, <2>2, <3>1, <3>2, <3>4, <3>5
    <3> QED
      BY <2>2, <3>5, <3>6, <3>7 DEF RateMeasured, RateNotOverstated
  <2> QED
    BY <1>5, <2>1, <2>2
<1> HIDE DEF total, s
<1>14. LinkTypes'
  <2>1. total \in Nat
    BY <1>6, <1>7
  <2> QED
    BY <1>1, <1>5, <1>6, <2>1 DEF LinkTypes
<1>15. OnTime'
  BY <1>1, <1>5, <1>6, <1>10 DEF OnTime
<1>16. OneByOne'
  <2>1. now <= link.free + Delay
    BY <1>1, <1>8 DEF OneByOne
  <2>2. \A g \in sent : g # f => now + g.bytes <= g.due
    BY <1>1, <1>8, <1>11 DEF OneByOne
  <2> QED
    BY <1>1, <1>5, <2>1, <2>2 DEF OneByOne
<1>17. BackToBack'
  <2>1. sent' = {} => link.free + Delay = now
    <3>1. sent' = {} => Newest(f)
      BY <1>5, <1>6 DEF Newest
    <3> QED
      BY <1>1, <1>8, <3>1 DEF BackToBack
  <2>2. \A g \in sent' : Newest(g)' => Newest(g)
    BY <1>5, <1>6, <1>10, <1>11 DEF Newest
  <2>3. ASSUME NEW g \in sent', NEW h \in sent', Before(g, h)'
        PROVE  Before(g, h)
    BY <1>5, <1>6, <1>10, <1>11, <2>3 DEF Before
  <2>4. ASSUME NEW g \in sent', Oldest(g)'
        PROVE  Before(f, g)
    BY <1>5, <1>6, <1>10, <1>11, <2>4 DEF Before, Oldest
  <2>5. \A g \in sent' : Oldest(g)' /\ g.busy + Delay <= now => g.due = now + g.bytes
    BY <1>1, <1>5, <1>8, <2>4 DEF BackToBack
  <2> QED
    BY <1>1, <1>5, <2>1, <2>2, <2>3, <2>5 DEF BackToBack
<1>18. Carried'
  <2> SUFFICES ASSUME NEW g \in sent', g.time # None
               PROVE  /\ g.delivered <= total
                      /\ total - g.delivered <= now - g.time
                      /\ g.busy <= g.time - Delay => total - g.delivered = now - g.time
    BY <1>5 DEF Carried
  <2>1. g \in sent /\ f.id < g.id
    BY <1>5, <1>11
  <2>2. /\ g.delivered <= delivered
        /\ delivered - g.delivered <= deliveredTime - g.time
        /\ g.busy <= g.time - Delay => delivered - g.delivered = deliveredTime - g.time
    BY <1>1, <2>1 DEF Carried
  <2>3. g.time <= deliveredTime /\ deliveredTime # None
    BY <1>1, <1>6, <1>10, <2>1 DEF OnTime, None
  <2>4. deliveredTime + f.bytes <= now
    BY <1>1, <1>8, <2>3 DEF OneByOne
  <2>5. g.busy <= g.time - Delay => now = deliveredTime + f.bytes
    <3>1. f.busy <= g.busy
      BY <1>1, <2>1 DEF BackToBack
    <3>2. g.busy <= g.time - Delay => f.busy + Delay <= deliveredTime
      BY <1>6, <1>10, <2>1, <2>3, <3>1
    <3> QED
      BY <1>1, <1>2, <1>8, <2>3, <3>2 DEF BackToBack
  <2> QED
    BY <1>6, <1>7, <1>10, <2>1, <2>2, <2>3, <2>4, <2>5
<1> QED
  BY <1>13, <1>14, <1>15, <1>16, <1>17, <1>18 DEF LinkInv

LEMMA NextLink ==
  ASSUME ~Stalls, LinkInv, [LinkNext]_linkVars
  PROVE  LinkInv'
<1>1. CASE \E b \in Sizes, app \in BOOLEAN : OnSent(b, app)
  BY <1>1, OnSentKeeps
<1>2. CASE AckArrives
  BY <1>2, AckKeeps
<1>3. CASE Seed \/ LinkTick \/ UNCHANGED linkVars
  <2>1. /\ sent' = sent /\ delivered' = delivered /\ deliveredTime' = deliveredTime
        /\ nextId' = nextId /\ link' = link /\ last' = last
        /\ now' = now \/ (now' = now + 1 /\ \A f \in sent : f.due > now)
    BY <1>3 DEF Seed, LinkTick, linkVars
  <2>2. LinkTypes /\ OnTime /\ OneByOne /\ BackToBack /\ Carried /\ RateMeasured
    BY DEF LinkInv
  <2>3. LinkTypes'
    BY <2>1, <2>2 DEF LinkTypes
  <2>4. OnTime'
    <3>1. now' \in Nat /\ now <= now' /\ now \in Nat
      BY <2>1, <2>2 DEF LinkTypes
    <3>2. \A f \in sent : now' <= f.due
      BY <2>1, <2>2, FrameTypes DEF OnTime, LinkTypes
    <3> QED
      BY <2>1, <2>2, <3>1, <3>2, FrameTypes DEF OnTime
  <2>5. OneByOne' /\ Carried' /\ RateMeasured'
    BY <2>1, <2>2 DEF OneByOne, Carried, RateMeasured, RateNotOverstated
  <2>6. BackToBack'
    BY <2>1, <2>2 DEF BackToBack, Newest, Before, Oldest
  <2> QED
    BY <2>3, <2>4, <2>5, <2>6 DEF LinkInv
<1> QED
  BY <1>1, <1>2, <1>3 DEF LinkNext

\* Over a link on which nothing stalls, whatever its delay, the windows, the
\* sizes of the frames and when they are sent, no sample of the delivery rate is
\* above what the link carries, and it is just that while the link is busy.
THEOREM RateIsMeasured ==
  ASSUME ~Stalls
  PROVE  LinkSpec => []RateMeasured
<1>1. LinkInv /\ [LinkNext]_linkVars => LinkInv'
  BY NextLink
<1>2. LinkInv => RateMeasured
  BY DEF LinkInv
<1> QED
  BY <1>1, <1>2, InitLink, PTL DEF LinkSpec

=============================================================================
