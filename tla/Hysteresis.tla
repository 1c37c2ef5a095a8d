----------------------------- MODULE Hysteresis -----------------------------
(***************************************************************************)
(* What the pressure evaluator promises: a level other than the current    *)
(* one takes over only when it has been the outcome of HysteresisSamples   *)
(* evaluations in a row, and it does take over then; a lost sample starts  *)
(* the count again and never leaves the level at "LOW".                    *)
(***************************************************************************)
EXTENDS Integers

CONSTANT HysteresisSamples

Levels == {"LOW", "MODERATE", "HIGH", "CRITICAL"}

VARIABLES
    level,   \* the level admission sees
    run      \* the last outcome and how often in a row it came, up to the bound

NoRun == [of |-> "LOW", length |-> 0]

Init == level = "LOW" /\ run = NoRun

Longer(c) ==
    IF run.of = c /\ run.length > 0
      THEN [of |-> c, length |-> IF run.length < HysteresisSamples
                                   THEN run.length + 1 ELSE run.length]
      ELSE [of |-> c, length |-> 1]

Evaluate(c) ==
    /\ run' = Longer(c)
    /\ level' = IF run'.length >= HysteresisSamples THEN c ELSE level

Lose ==
    /\ run' = NoRun
    /\ level' = IF level = "LOW" THEN "MODERATE" ELSE level

Next == Lose \/ \E c \in Levels : Evaluate(c)

Spec == Init /\ [][Next]_<<level, run>>
==============================================================================
