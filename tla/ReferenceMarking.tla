--------------------------- MODULE ReferenceMarking ---------------------------
(* What an H.264 decoder must remember, as its standard says it (8.2.5) but    *)
(* for operation 5: the reference pictures, by their numbers in decoding       *)
(* order, which do not wrap.  The decoder keeps them in numbered surfaces      *)
(* under frame numbers that wrap (H264Decoder); DecodePipeline implements this. *)
EXTENDS Naturals, FiniteSets, FiniteSetsExt

VARIABLES marked,   \* how the last access unit marked its picture
          held      \* the reference pictures

\* Sliding window: when there are too many with the new one, the oldest goes.
Slid(pictures, n) ==
  IF Cardinality(pictures) > n THEN pictures \ {Min(pictures)} ELSE pictures

Commands == [op : {"idr", "sliding", "adaptive", "reset", "none", "broken"},
             id : Nat, refs : Nat, unmarked : SUBSET Nat]

\* "broken": a unit failed to decode since the last IDR, and nothing is promised.
\* "reset" is operation 5, and the one command that differs: by the standard the
\* picture that carries it is a reference, held' = {c.id}; the decoder forgets it.
After(c) ==
  CASE c.op = "idr"      -> held' = {c.id}
    [] c.op = "sliding"  -> held' = Slid(held \cup {c.id}, c.refs)
    [] c.op = "adaptive" -> held' = (held \ c.unmarked) \cup {c.id}
    [] c.op = "reset"    -> held' = {}
    [] c.op = "none"     -> held' = held
    [] c.op = "broken"   -> held' \in SUBSET Nat

Init == marked = [op |-> "none", id |-> 0, refs |-> 0, unmarked |-> {}] /\ held = {}
Next == marked' \in Commands /\ After(marked')
Spec == Init /\ [][Next]_<<marked, held>>
===============================================================================
