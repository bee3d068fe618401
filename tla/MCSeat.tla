-------------------------------- MODULE MCSeat ------------------------------
\* Seat for TLC: two lock keys under one keymap, which the other one makes a
\* modifier (ctrl:nocaps) and a character.
EXTENDS Seat, TLC

Roles == [m \in {"us", "bad", "other"} |->
            IF m = "other" THEN 58 :> "mod" @@ 45 :> "char"
                           ELSE 58 :> "lock" @@ 45 :> "lock"]
=============================================================================
