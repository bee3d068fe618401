------------------------------- MODULE Ladder -------------------------------
(***************************************************************************)
(* The quality ladder of crates/gliff-server/src/rate.rs: which level the  *)
(* measured rate can pay for, with hysteresis in level and in time.        *)
(*                                                                         *)
(* Instants are replaced by ages: what the code compares is how long ago   *)
(* something happened, and an age beyond every hold behaves like "never".  *)
(* Floating point is replaced by a comparison of integer products; rates   *)
(* are in kbit/s and picture sizes in thousands of pixels.                 *)
(***************************************************************************)
EXTENDS RateTerms

CONSTANTS
  MaxFps,      \* MAX_FPS
  HoldDown,    \* HOLD_DOWN, HOLD_UP and MAX_HOLD_UP, in ticks
  HoldUp,
  MaxHoldUp,
  StartLevel,  \* START_LEVEL
  Estimates,   \* the rates the estimator may find
  Streams      \* full-quality streams: pixels, dual, can_drop_aux

ASSUME LadderAssumption ==
  /\ MaxFps \in Nat \ {0}
  /\ HoldDown \in Nat \ {0} /\ HoldUp \in Nat \ {0} /\ MaxHoldUp \in Nat
  /\ HoldUp <= MaxHoldUp
  /\ StartLevel \in 0..6
  /\ Estimates \subseteq Nat \ {0}
  /\ Streams \subseteq [pixels : Nat \ {0}, dual : BOOLEAN, drop : BOOLEAN]

VARIABLES
  index,    \* Ladder.index
  hold,     \* hold_up
  below,    \* age of below_since, or None
  changed,  \* age of last_change
  raised,   \* age of last_step_up
  estimate, \* the estimator's rate_max_bps (0: none yet) and whether
            \* rate_recent_bps is some; the controller's slow start and its
            \* recent congestion
  stream,   \* the session's base_stream, base_chroma and can_drop_aux
  moves     \* history: moves since the rate or the stream changed

ladderVars == <<index, hold, below, changed, raised, estimate, stream, moves>>

LongAgo == 2 * MaxHoldUp + 1

-----------------------------------------------------------------------------
\* LEVELS.

Last == 6
FpsCap(i) == <<MaxFps, 30, 15, 15, 10, 10, 5>>[i + 1]
Aux(i) == i <= 2
Half(i) == i >= 5

\* affordable_bpp(..) >= mult/100 * FLOOR_BPP.
Affords(i, mult) ==
  LET streams == IF stream.dual /\ (Aux(i) \/ ~stream.drop) THEN 2 ELSE 1
      quarter == IF Half(i) THEN 4 ELSE 1
  IN 8500 * estimate.rate * quarter
       >= 3 * mult * streams * Least(FpsCap(i), MaxFps) * stream.pixels

\* Ladder::select: the best level that is affordable, or the last.
Select(mult) ==
  IF \E i \in 0..Last : Affords(i, mult)
  THEN CHOOSE i \in 0..Last : /\ Affords(i, mult)
                              /\ \A j \in 0..(i - 1) : ~Affords(j, mult)
  ELSE Last

\* Mutant: a level is left below a rate above the one that enters it.
DownMultTight == 140

\* DOWN_FLOOR_MULT and the headroom of a step up, in percent.
DownMult == 90
UpMult == 125

-----------------------------------------------------------------------------

LadderInit ==
  /\ index = StartLevel /\ hold = HoldUp
  /\ below = None /\ changed = LongAgo /\ raised = LongAgo
  /\ estimate = [rate |-> 0, real |-> FALSE, slow |-> TRUE, congested |-> FALSE]
  /\ stream \in Streams
  /\ moves = 0

LadderTick ==
  /\ below' = IF below = None THEN None ELSE Least(below + 1, HoldDown)
  /\ changed' = Least(changed + 1, LongAgo)
  /\ raised' = Least(raised + 1, LongAgo)
  /\ UNCHANGED <<index, hold, estimate, stream, moves>>

\* An ack changes the estimate; slow start ends once, and congestion is only
\* ever noted as it ends or after it.
Measure ==
  /\ \E r \in Estimates, real \in BOOLEAN, slow \in BOOLEAN, cong \in BOOLEAN :
       /\ slow => estimate.slow /\ ~cong
       /\ estimate' = [rate |-> r, real |-> real, slow |-> slow, congested |-> cong]
       /\ moves' = IF r = estimate.rate THEN moves ELSE 0
  /\ UNCHANGED <<index, hold, below, changed, raised, stream>>

\* A resize changes the base stream under the ladder.
ResizeStream ==
  /\ stream' \in Streams
  /\ stream'.dual = stream.dual /\ stream'.drop = stream.drop
  /\ stream' # stream
  /\ moves' = 0
  /\ UNCHANGED <<index, hold, below, changed, raised, estimate>>

MoveTo(i) ==
  /\ index' = i
  /\ changed' = 0
  /\ below' = None
  /\ moves' = moves + 1

\* Mutant: looking counts as a change.
StayAnew(since) ==
  /\ below' = since /\ changed' = 0
  /\ UNCHANGED <<index, hold, raised, moves>>

Stay(since) ==
  /\ below' = since
  /\ UNCHANGED <<index, hold, changed, raised, moves>>

Confirmed == estimate.real /\ estimate.congested

\* The slow-start branch of consider.
ConsiderStart ==
  IF Select(100) < index \/ (Select(DownMult) > index /\ Confirmed)
  THEN MoveTo(Select(100)) /\ UNCHANGED <<hold, raised>>
  ELSE Stay(below)

\* hold_up after a step down: doubled if the last step up was recent.
AfterFlap == IF raised <= 2 * hold THEN Least(2 * hold, MaxHoldUp) ELSE hold

StepUp ==
  IF Select(UpMult) < index /\ changed >= hold
  THEN /\ MoveTo(Select(UpMult))
       /\ raised' = 0
       /\ UNCHANGED hold
  ELSE Stay(None)

Since == IF below = None THEN 0 ELSE below

StepDown ==
  IF estimate.congested \/ Since >= HoldDown
  THEN /\ hold' = AfterFlap
       /\ MoveTo(Select(100))
       /\ UNCHANGED raised
  ELSE Stay(Since)

\* Ladder::consider, after an ack.
Consider ==
  /\ estimate.rate # 0
  /\ IF estimate.slow THEN ConsiderStart
     ELSE IF Select(100) < index THEN StepUp
     ELSE IF Select(DownMult) > index /\ estimate.real THEN StepDown
     ELSE Stay(None)
  /\ UNCHANGED <<estimate, stream>>

LadderNext == LadderTick \/ Measure \/ ResizeStream \/ Consider

LadderSafety == LadderInit /\ [][LadderNext]_ladderVars

\* Time passes, and frames are acked again and again.
LadderSpec == LadderSafety /\ WF_ladderVars(LadderTick) /\ WF_ladderVars(Consider)

(***************************************************************************)
(* Properties.                                                             *)
(***************************************************************************)

\* The thresholds leave a gap: at a steady rate the ladder moves at most once,
\* whatever else changes, so it cannot oscillate by itself.
SettlesAtOnce == moves <= 1

\* A level the link can pay for with headroom is not withheld for ever.
ClimbsBack == <>[](~estimate.slow) => []<>(index <= Select(UpMult))
=============================================================================
