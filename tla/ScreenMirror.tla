---------------------------- MODULE ScreenMirror ----------------------------
(***************************************************************************)
(* What remote display promises: the picture the client shows only moves   *)
(* forward through the contents the screen has had, and once the screen is *)
(* still it ends on the current one.  Contents are numbered in the order   *)
(* the screen has them; frames may be skipped ("latest wins").             *)
(***************************************************************************)
EXTENDS Naturals

VARIABLES
  screen,  \* the content of the remote screen
  shown    \* the content the client shows; 0 before the first picture

Init == screen = 1 /\ shown = 0

Change == screen' = screen + 1 /\ UNCHANGED shown

Show == /\ \E v \in (shown + 1)..screen : shown' = v
        /\ UNCHANGED screen

Next == Change \/ Show

Spec == Init /\ [][Next]_<<screen, shown>> /\ WF_<<screen, shown>>(Show)
=============================================================================
