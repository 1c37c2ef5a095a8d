------------------------------ MODULE Pressure ------------------------------
(***************************************************************************)
(* PressureEvaluator of gateway/app/modes/pressure.py: a rolling window of *)
(* samples, the level of its median, and a candidate level that has to     *)
(* come up several times in a row before it becomes the current one.  The  *)
(* sampling loop of main.py calls ingest() with a sample or, when          *)
(* nvidia-smi fails, with None.                                            *)
(*                                                                         *)
(* Quantities are integers.  The size of the card's memory does not change,*)
(* so the vram thresholds are given in units of used memory.               *)
(***************************************************************************)
EXTENDS Integers, FiniteSets, SequencesExt

CONSTANTS
    Samples,            \* [util, vram, temp] readings that may come
    WindowSamples,
    HysteresisSamples,
    Thresholds          \* the fields of PressureThresholds

ASSUME PressureAssumption ==
    /\ Samples \subseteq [util : Nat, vram : Nat, temp : Nat]
    /\ WindowSamples \in Nat \ {0}
    /\ HysteresisSamples \in Nat \ {0}
    /\ Thresholds \in [vram_moderate : Nat, vram_high : Nat, vram_critical : Nat,
                       util_moderate : Nat, util_high : Nat, util_critical : Nat,
                       temp_critical : Nat]

VARIABLES
    window,             \* _window
    current_level,      \* _current_level
    candidate_level,    \* _candidate_level, "none" for None
    candidate_streak,   \* _candidate_streak
    telemetry_healthy,
    run,                \* history: the run of equal evaluations, for Hysteresis
    spikes              \* history: samples not at "LOW" so far, up to 2, where
                        \* a lost sample counts as two

vars == <<window, current_level, candidate_level, candidate_streak,
          telemetry_healthy, run, spikes>>

H == INSTANCE Hysteresis WITH level <- current_level

TypeOK ==
    /\ window \in Seq(Samples) /\ Len(window) <= WindowSamples
    /\ current_level \in H!Levels
    /\ candidate_level \in H!Levels \cup {"none"}
    /\ candidate_streak \in 0..(HysteresisSamples - 1)
    /\ telemetry_healthy \in BOOLEAN
    /\ run \in [of : H!Levels, length : 0..HysteresisSamples]
    /\ spikes \in 0..2

Init ==
    /\ window = <<>>
    /\ current_level = "LOW"
    /\ candidate_level = "none"
    /\ candidate_streak = 0
    /\ telemetry_healthy = FALSE
    /\ run = H!NoRun
    /\ spikes = 0

-----------------------------------------------------------------------------
(* The k-th of the sorted values.                                          *)
Kth(values, k) ==
    CHOOSE v \in Range(values) :
        /\ Cardinality({i \in DOMAIN values : values[i] < v}) < k
        /\ Cardinality({i \in DOMAIN values : values[i] <= v}) >= k

(* A faulty Median2, for SpikeHarmless: the maximum.                       *)
Median2_Maximum(values) == 2 * Kth(values, Len(values))

(* Twice the median, the mean of the two middle values for an even number. *)
Median2(values) ==
    LET n == Len(values)
    IN  Kth(values, (n + 1) \div 2) + Kth(values, (n + 2) \div 2)

(* _level_from_sample of the median of w.                                  *)
LevelOf(w) ==
    LET util == Median2([i \in DOMAIN w |-> w[i].util])
        vram == Median2([i \in DOMAIN w |-> w[i].vram])
        temp == Median2([i \in DOMAIN w |-> w[i].temp])
        AtLeast(v, u) == vram >= 2 * v \/ util >= 2 * u
    IN  IF \/ temp >= 2 * Thresholds.temp_critical
           \/ AtLeast(Thresholds.vram_critical, Thresholds.util_critical)
          THEN "CRITICAL"
        ELSE IF AtLeast(Thresholds.vram_high, Thresholds.util_high) THEN "HIGH"
        ELSE IF AtLeast(Thresholds.vram_moderate, Thresholds.util_moderate)
          THEN "MODERATE" ELSE "LOW"

(* Two faulty forms of Slide: the window has no maxlen (for TypeOK), or a  *)
(* full one takes no more samples (for FollowsLoad).                       *)
Slide_Unbounded(w, s) == Append(w, s)

Slide_KeepsFirst(w, s) == IF Len(w) < WindowSamples THEN Append(w, s) ELSE w

(* deque(maxlen=window_samples).append                                     *)
Slide(w, s) == IF Len(w) < WindowSamples THEN Append(w, s) ELSE Append(Tail(w), s)

(* The end of ingest() for the outcome c of the evaluation.  The faulty    *)
(* form, for ImplementsHysteresis, forgets to reset the candidate when the *)
(* outcome is the current level.                                           *)
Judge_KeepsStreak(c) ==
    LET streak == IF c = candidate_level THEN candidate_streak + 1 ELSE 1
    IN  IF c = current_level
          THEN UNCHANGED <<current_level, candidate_level, candidate_streak>>
          ELSE IF streak >= HysteresisSamples
            THEN /\ current_level' = c
                 /\ candidate_level' = "none" /\ candidate_streak' = 0
            ELSE /\ candidate_level' = c /\ candidate_streak' = streak
                 /\ UNCHANGED current_level

Judge(c) ==
    LET streak == IF c = candidate_level THEN candidate_streak + 1 ELSE 1
    IN  IF c # current_level /\ streak < HysteresisSamples
          THEN /\ candidate_level' = c /\ candidate_streak' = streak
               /\ UNCHANGED current_level
          ELSE /\ current_level' = c
               /\ candidate_level' = "none" /\ candidate_streak' = 0

(* ingest(sample)                                                          *)
Ingest(s) ==
    /\ telemetry_healthy' = TRUE
    /\ window' = Slide(window, s)
    /\ Judge(LevelOf(window'))
    /\ run' = H!Longer(LevelOf(window'))
    /\ spikes' = IF spikes < 2 /\ LevelOf(<<s>>) # "LOW" THEN spikes + 1 ELSE spikes

(* ingest(None)                                                            *)
IngestNone ==
    /\ telemetry_healthy' = FALSE
    /\ current_level' = IF current_level = "LOW" THEN "MODERATE" ELSE current_level
    /\ candidate_level' = "none" /\ candidate_streak' = 0
    /\ run' = H!NoRun
    /\ spikes' = 2
    /\ UNCHANGED window

Next == IngestNone \/ \E s \in Samples : Ingest(s)

Spec == Init /\ [][Next]_vars

-----------------------------------------------------------------------------
(* The evaluator keeps the promise of Hysteresis, though it counts only    *)
(* outcomes other than the current level and forgets the count whenever    *)
(* the current level comes up.                                             *)
ImplementsHysteresis == H!Spec

(* "A one-frame spike cannot pause the service": with a single sample that *)
(* is not at "LOW" among all so far, and none lost, the level is "LOW",    *)
(* also while the window fills up and the spike is one of two members.     *)
SpikeHarmless == spikes <= 1 => current_level = "LOW"

(* The level follows the load: when only samples s come from some time on, *)
(* the level ends up at the level of s, whatever was in the window, which  *)
(* candidate was under way and which samples were lost before.             *)
FollowsLoad ==
    \A s \in Samples :
        <>[][Ingest(s)]_vars /\ WF_vars(Ingest(s))
            => <>[](current_level = LevelOf(<<s>>))
==============================================================================
