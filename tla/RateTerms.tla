----------------------------- MODULE RateTerms ------------------------------
(***************************************************************************)
(* The terms the modules of crates/gliff-server/src/rate.rs share:         *)
(* LinkEstimator, RateController and Ladder.                               *)
(***************************************************************************)
EXTENDS Integers

\* The None of an Option that holds a number.
None == -1

Least(a, b) == IF a < b THEN a ELSE b
Greatest(a, b) == IF a > b THEN a ELSE b
=============================================================================
