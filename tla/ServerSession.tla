--------------------------- MODULE ServerSession ----------------------------
(* One run of gliff-server, from the client's Hello to its exit, as values:  *)
(* each operator is the set of servers that a stage of run() or an event of  *)
(* its loop may leave (gliff-server/src/session.rs).  RemoteSession holds a  *)
(* server per session and gives them their compositor and their client.      *)
EXTENDS Integers, Sequences, FiniteSets

CONSTANTS CapsMax,      \* the size the client declares in Hello
          Tiers,        \* of the video pipeline: "gpu", "cpu"
          EncoderMax,   \* [tier -> largest size of its encoder]
          MinSize,      \* the smallest size the server resizes to (320x240)
          HeadlessMin, HeadlessMax,   \* the clamps of a new headless output
          ScreenSize    \* the screen that is mirrored

Min2(a, b) == IF a <= b THEN a ELSE b
Max2(a, b) == IF a >= b THEN a ELSE b
Even(v) == 2 * (v \div 2)
EvenSize(s) == <<Even(s[1]), Even(s[2])>>

\* EncoderSettings::fit_extent.  The scale is the smaller ratio num/den of the
\* two axes; the maximum is given as the aligned one.
Fits(s, max) == s[1] <= max[1] /\ s[2] <= max[2]
Ratio(s, max) == IF max[1] * s[2] <= max[2] * s[1] THEN <<max[1], s[1]>> ELSE <<max[2], s[2]>>
Scaled(v, r) == Max2(Even((v * r[1]) \div r[2]), 2)
FitExtent(s, max) == IF Fits(s, max) THEN s
                     ELSE <<Scaled(s[1], Ratio(s, max)), Scaled(s[2], Ratio(s, max))>>

\* fit_mirror: the screen is scaled down to the window (never up, rounded to
\* the nearest pixel), then to the encoder.
Rounded(v, r) == Max2(Even((2 * v * r[1] + r[2]) \div (2 * r[2])), 2)
FitMirror(screen, win, max) ==
  FitExtent(IF Fits(screen, win) THEN EvenSize(screen)
            ELSE <<Rounded(screen[1], Ratio(screen, win)),
                   Rounded(screen[2], Ratio(screen, win))>>, max)

NoOutput == "none"

\* The server: where it is, whether it makes an output of its own, the output
\* it serves and whether it was created, the live threads, the tier, the size
\* of the output and of the stream at full quality, the tier it was fitted for,
\* the client's last window, whether the last fit was refused, and what is left
\* to drop.
NoServer == [stage |-> "none", headless |-> FALSE, before |-> {}, output |-> NoOutput,
             created |-> FALSE, capture |-> FALSE, tier |-> "cpu",
             size |-> <<0, 0>>, base |-> <<0, 0>>, fitted |-> "cpu", extent |-> <<0, 0>>,
             refused |-> FALSE, drops |-> <<>>]

Started(headless) == [NoServer EXCEPT !.stage = "hello", !.headless = headless, !.extent = CapsMax]

\* Before the session exists the locals are dropped in reverse order.
Abandoned(s) == [s EXCEPT !.stage = "dropping", !.drops = <<"capture", "output">>]

\* The loop ended by itself: capture and input (one part here) end before the
\* output goes.
LoopEnded(s) == [s EXCEPT !.stage = "dropping", !.drops = <<"capture", "output">>]

\* An error left the loop: the fields of Session drop in declaration order.
LoopFailed(s) == [s EXCEPT !.stage = "dropping", !.drops = <<"output", "capture">>]

\* setup_output for an existing screen: found, or not.
Mirrored(s, name) == [s EXCEPT !.stage = "video", !.output = name, !.size = EvenSize(ScreenSize)]

\* setup_output for a new one: the screens are listed, one is created under the
\* requested name, and the one that appeared is taken.
Listed(s, monitors) == [s EXCEPT !.stage = "create", !.before = monitors]
Created(s, requested) ==
  [s EXCEPT !.stage = "appear", !.output = requested, !.created = TRUE]
Appeared(s, name) == [s EXCEPT !.stage = "mode", !.output = name, !.before = {}]
Clamp(v, lo, hi) == Max2(lo, Min2(v, hi))
FirstMode == EvenSize(<<Clamp(CapsMax[1], HeadlessMin[1], HeadlessMax[1]),
                        Clamp(CapsMax[2], HeadlessMin[2], HeadlessMax[2])>>)
ModeSet(s, size) == [s EXCEPT !.stage = "video", !.size = EvenSize(size)]

\* VideoTier::open and VideoStart::open: the GPU tier falls back to the CPU
\* when the machine has none or its encoder cannot be created.
VideoOpened(s, tier) ==
  [s EXCEPT !.stage = "capture", !.tier = tier, !.fitted = tier,
            !.base = FitExtent(s.size, EncoderMax[tier])]

\* start_capture, start_input, the clipboard, reader and writer: the loop runs.
Running(s) == [s EXCEPT !.stage = "loop", !.capture = TRUE]

\* Session::resize: the size within the client's limits; too small is ignored,
\* a size the output has changes nothing.
Asked(size) == EvenSize(<<Min2(size[1], CapsMax[1]), Min2(size[2], CapsMax[2])>>)
TooSmall(size) == size[1] < MinSize[1] \/ size[2] < MinSize[2]

\* The stream for a window of that size: a headless output takes it, a mirrored
\* screen is fitted to it.
FitFor(s, size, tier) == IF s.headless THEN FitExtent(size, EncoderMax[tier])
                         ELSE FitMirror(s.size, size, EncoderMax[tier])
Wanted(s, size) == FitFor(s, size, s.tier)
Unchanged(s, size) == IF s.headless THEN size = s.size ELSE Wanted(s, size) = s.base
Resized(s, size) == [s EXCEPT !.base = Wanted(s, size), !.fitted = s.tier, !.extent = size,
                              !.refused = FALSE, !.size = IF s.headless THEN size ELSE @]

\* The compositor turned the mode down, or the encoder the new size: the old
\* stream stays.
Refused(s, size) == [s EXCEPT !.extent = size, !.refused = TRUE]

\* on_capture: the mirrored screen changed its mode and is fitted to the last
\* known window again, which its encoder may reject: the old stream stays, of
\* the new screen.  Either way a config follows.
ScreenChanged(s, size) ==
  LET t == [s EXCEPT !.size = EvenSize(size)]
  IN  {Resized(t, s.extent)} \cup (IF Unchanged(t, s.extent) THEN {} ELSE {Refused(t, s.extent)})

\* encode_and_send: the first GPU encode failed, and the CPU encoder takes over
\* at the size the stream has, if it can.
FallsBack(s) == s.tier = "gpu" /\ Fits(s.base, EncoderMax["cpu"])
FallenBack(s) == [s EXCEPT !.tier = "cpu"]

\* The process has ended, and the connection with it.
Exited == [NoServer EXCEPT !.stage = "ended"]

\* What is dropped next.  A created output is removed by name.
Dropped(s) ==
  LET d == Head(s.drops)
      t == [s EXCEPT !.drops = Tail(@)]
  IN  CASE Len(s.drops) = 1 -> Exited
        [] d = "capture" -> [t EXCEPT !.capture = FALSE]
        [] OTHER -> [t EXCEPT !.created = FALSE]
RemovedBy(s) == IF Head(s.drops) = "output" /\ s.created THEN {s.output} ELSE {}
=============================================================================
