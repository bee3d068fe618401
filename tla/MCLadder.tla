------------------------------ MODULE MCLadder ------------------------------
EXTENDS Ladder

TwoStreams == {[pixels |-> 2000, dual |-> TRUE, drop |-> TRUE],
               [pixels |-> 500, dual |-> TRUE, drop |-> TRUE]}

\* Rates on both sides of the thresholds of a level, and far from them.
ManyRates == {100, 800, 4000, 4500, 9000}
=============================================================================
