--------------------------- MODULE PressureProofs ---------------------------
(***************************************************************************)
(* Proofs about the pressure evaluator, for every window, number of        *)
(* samples and thresholds.                                                 *)
(*   - It implements Hysteresis.  Hysteresis counts every outcome; the     *)
(*     code counts the outcomes that differ from the current level only.   *)
(*     StreakInv says what the code's two fields know of the full count.   *)
(*   - One sample that is not low never moves the level, with a hysteresis *)
(*     of three or more: the median of three or more samples ignores it,   *)
(*     and SpikeInv counts the evaluations before there are three.         *)
(***************************************************************************)
EXTENDS Pressure, OrderingLemmas

StreakInv ==
    /\ current_level \in H!Levels
    /\ run \in [of : H!Levels, length : Nat]
    /\ \/ /\ candidate_level = "none"
          /\ candidate_streak = 0
          /\ run.length = 0 \/ run.of = current_level
       \/ /\ candidate_level \in H!Levels \ {current_level}
          /\ candidate_streak \in 1..(HysteresisSamples - 1)
          /\ run = [of |-> candidate_level, length |-> candidate_streak]

LEMMA LevelsOfWindows == \A w : LevelOf(w) \in H!Levels
  BY DEF LevelOf, H!Levels

(* A judged outcome counts in the code as it does in Hysteresis.           *)
LEMMA JudgeStep ==
  ASSUME StreakInv, NEW c \in H!Levels, Judge(c), run' = H!Longer(c)
  PROVE  StreakInv' /\ H!Evaluate(c)
<1>h. HysteresisSamples \in Nat \ {0}
  BY PressureAssumption
<1>n. "none" \notin H!Levels
  BY DEF H!Levels
<1>1. CASE c = current_level
  <2>1. /\ current_level' = current_level
        /\ candidate_level' = "none" /\ candidate_streak' = 0
    BY <1>1 DEF Judge
  <2>2. run' \in [of : H!Levels, length : Nat] /\ run'.of = c
    BY <1>h DEF StreakInv, H!Longer
  <2>3. H!Evaluate(c)
    BY <1>1, <2>1 DEF H!Evaluate
  <2> QED
    BY <1>1, <2>1, <2>2, <2>3 DEF StreakInv
<1>2. CASE c # current_level /\ c = candidate_level
  <2>1. /\ candidate_streak \in 1..(HysteresisSamples - 1)
        /\ run = [of |-> c, length |-> candidate_streak]
    BY <1>2, <1>n DEF StreakInv
  <2>2. run' = [of |-> c, length |-> candidate_streak + 1]
    BY <2>1, <1>h DEF H!Longer
  <2>3. CASE candidate_streak + 1 < HysteresisSamples
    <3>1. /\ candidate_level' = c /\ candidate_streak' = candidate_streak + 1
          /\ current_level' = current_level
      BY <1>2, <2>3 DEF Judge
    <3>2. H!Evaluate(c)
      BY <2>1, <2>2, <2>3, <3>1, <1>h DEF H!Evaluate
    <3> QED
      BY <1>2, <2>1, <2>2, <2>3, <3>1, <3>2, <1>h DEF StreakInv
  <2>4. CASE candidate_streak + 1 >= HysteresisSamples
    <3>1. /\ candidate_level' = "none" /\ candidate_streak' = 0
          /\ current_level' = c
      BY <1>2, <2>1, <2>4, <1>h DEF Judge
    <3> QED
      BY <2>1, <2>2, <2>4, <3>1, <1>h DEF StreakInv, H!Evaluate
  <2> QED
    BY <2>1, <2>3, <2>4, <1>h
<1>3. CASE c # current_level /\ c # candidate_level
  <2>1. run' = [of |-> c, length |-> 1]
    BY <1>3 DEF StreakInv, H!Longer
  <2>2. CASE 1 < HysteresisSamples
    <3>1. /\ candidate_level' = c /\ candidate_streak' = 1
          /\ current_level' = current_level
      BY <1>3, <2>2 DEF Judge
    <3> QED
      BY <1>3, <2>1, <2>2, <3>1, <1>h DEF StreakInv, H!Evaluate
  <2>3. CASE ~(1 < HysteresisSamples)
    <3>1. /\ candidate_level' = "none" /\ candidate_streak' = 0
          /\ current_level' = c
      BY <1>3, <2>3 DEF Judge
    <3> QED
      BY <2>1, <2>3, <3>1, <1>h DEF StreakInv, H!Evaluate
  <2> QED
    BY <2>2, <2>3
<1> QED
  BY <1>1, <1>2, <1>3

LEMMA InitStep == Init => StreakInv /\ H!Init
  BY DEF Init, StreakInv, H!Init, H!NoRun, H!Levels

LEMMA NextStep ==
  ASSUME StreakInv, [Next]_vars
  PROVE  StreakInv' /\ [H!Next]_<<current_level, run>>
<1>1. ASSUME NEW s \in Samples, Ingest(s)
      PROVE  StreakInv' /\ H!Next
  <2> DEFINE c == LevelOf(window')
  <2>1. c \in H!Levels
    BY LevelsOfWindows
  <2>2. Judge(c) /\ run' = H!Longer(c)
    BY <1>1 DEF Ingest
  <2> HIDE DEF c
  <2>3. StreakInv' /\ H!Evaluate(c)
    BY <2>1, <2>2, JudgeStep
  <2> QED
    BY <2>1, <2>3 DEF H!Next
<1>2. CASE IngestNone
  BY <1>2 DEF IngestNone, StreakInv, H!Next, H!Lose, H!NoRun, H!Levels
<1>3. CASE UNCHANGED vars
  BY <1>3 DEF vars, StreakInv
<1> QED
  BY <1>1, <1>2, <1>3 DEF Next

(* The current level changes only after HysteresisSamples equal outcomes   *)
(* in a row, and then does change; a lost sample starts the count again.   *)
THEOREM PressureImplementsHysteresis == Spec => ImplementsHysteresis
<1>1. Init => StreakInv /\ H!Init
  BY InitStep
<1>2. StreakInv /\ [Next]_vars => StreakInv' /\ [H!Next]_<<current_level, run>>
  BY NextStep
<1> QED
  BY <1>1, <1>2, PTL DEF Spec, ImplementsHysteresis, H!Spec

LEMMA RunStep ==
  ASSUME TypeOK, [Next]_vars, StreakInv'
  PROVE  TypeOK'
<1>h. HysteresisSamples \in Nat \ {0} /\ WindowSamples \in Nat \ {0}
  BY PressureAssumption
<1>1. /\ current_level' \in H!Levels
      /\ candidate_level' \in H!Levels \cup {"none"}
      /\ candidate_streak' \in 0..(HysteresisSamples - 1)
  BY <1>h DEF StreakInv
<1>2. ASSUME NEW s \in Samples, Ingest(s) PROVE TypeOK'
  <2>1. window' \in Seq(Samples) /\ Len(window') <= WindowSamples
    <3>1. window \in Seq(Samples) /\ Len(window) <= WindowSamples
      BY DEF TypeOK
    <3>2. CASE Len(window) < WindowSamples
      BY <1>2, <1>h, <3>1, <3>2 DEF Ingest, Slide
    <3>3. CASE Len(window) >= WindowSamples
      <4>1. window # <<>> /\ Tail(window) \in Seq(Samples) /\ Len(Tail(window)) = Len(window) - 1
        BY <1>h, <3>1, <3>3
      <4>. QED  BY <1>2, <1>h, <3>1, <3>3, <4>1 DEF Ingest, Slide
    <3>. QED  BY <1>h, <3>1, <3>2, <3>3
  <2>2. run' \in [of : H!Levels, length : 0..HysteresisSamples]
    <3>1. PICK c \in H!Levels : run' = H!Longer(c)
      BY <1>2, LevelsOfWindows DEF Ingest
    <3>2. run \in [of : H!Levels, length : 0..HysteresisSamples]
      BY DEF TypeOK
    <3>. QED  BY <1>h, <3>1, <3>2 DEF H!Longer
  <2>3. telemetry_healthy' \in BOOLEAN /\ spikes' \in 0..2
    BY <1>2 DEF Ingest, TypeOK
  <2>. QED  BY <1>1, <2>1, <2>2, <2>3 DEF TypeOK
<1>3. CASE IngestNone
  <2>1. run' \in [of : H!Levels, length : 0..HysteresisSamples]
    BY <1>h, <1>3 DEF IngestNone, H!NoRun, H!Levels
  <2>2. telemetry_healthy' \in BOOLEAN /\ spikes' \in 0..2
    <3>1. telemetry_healthy' = FALSE /\ spikes' = 2
      BY <1>3, Zenon DEF IngestNone
    <3>2. telemetry_healthy' \in BOOLEAN
      BY <3>1, Zenon
    <3>. QED  BY <3>1, <3>2
  <2>3. window' \in Seq(Samples) /\ Len(window') <= WindowSamples
    BY <1>3 DEF IngestNone, TypeOK
  <2>. QED  BY <1>1, <2>1, <2>2, <2>3 DEF TypeOK
<1>4. CASE UNCHANGED vars
  BY <1>4 DEF vars, TypeOK
<1>. QED  BY <1>2, <1>3, <1>4 DEF Next

LEMMA InitTyped == Init => TypeOK
<1>. SUFFICES ASSUME Init PROVE TypeOK
  OBVIOUS
<1>1. HysteresisSamples \in Nat \ {0} /\ WindowSamples \in Nat \ {0}
  BY PressureAssumption
<1>2. run \in [of : H!Levels, length : 0..HysteresisSamples]
  BY <1>1 DEF Init, H!NoRun, H!Levels
<1>3. window \in Seq(Samples) /\ Len(window) <= WindowSamples
  BY <1>1 DEF Init
<1>4. candidate_streak \in 0..(HysteresisSamples - 1) /\ current_level \in H!Levels
  BY <1>1 DEF Init, H!Levels
<1>5. candidate_level \in H!Levels \cup {"none"} /\ telemetry_healthy \in BOOLEAN
  BY Zenon DEF Init
<1>6. spikes \in 0..2
  BY DEF Init
<1>. QED  BY <1>2, <1>3, <1>4, <1>5, <1>6 DEF TypeOK

(* The type invariant: the window keeps its bound (deque's maxlen) and a   *)
(* candidate never has as many outcomes as the hysteresis asks for.        *)
THEOREM PressureTypeCorrect == Spec => []TypeOK
<1>1. Init => TypeOK /\ StreakInv
  BY InitTyped, InitStep
<1>2. TypeOK /\ StreakInv /\ [Next]_vars => TypeOK' /\ StreakInv'
  BY NextStep, RunStep
<1>. QED  BY <1>1, <1>2, PTL DEF Spec

-----------------------------------------------------------------------------
(* The median.                                                             *)

LEMMA CountType ==
  ASSUME NEW n \in Nat, NEW D \in SUBSET (1..n)
  PROVE  IsFiniteSet(D) /\ Cardinality(D) \in Nat /\ Cardinality(D) <= n
<1>1. IsFiniteSet(1..n) /\ Cardinality(1..n) = n
  BY FS_Interval
<1>. QED  BY <1>1, SubsetCard

(* There is a k-th value.                                                  *)
LEMMA KthExists ==
  ASSUME NEW n \in Nat, NEW f \in [1..n -> Nat], NEW k \in 1..n
  PROVE  /\ Kth(f, k) \in Range(f)
         /\ Cardinality({i \in 1..n : f[i] < Kth(f, k)}) < k
         /\ Cardinality({i \in 1..n : f[i] <= Kth(f, k)}) >= k
<1>. DEFINE Below(v) == {i \in 1..n : f[i] < v}
            UpTo(v) == {i \in 1..n : f[i] <= v}
            R == Range(f)
            T == {v \in R : Cardinality(UpTo(v)) >= k}
<1>1. /\ R \subseteq Nat
      /\ \A i \in 1..n : f[i] \in R
      /\ \A v \in R : \E i \in 1..n : f[i] = v
  BY DEF Range
<1>2. IsFiniteSet(R)
  <2>1. f \in Surjection(1..n, R)
    BY <1>1 DEF Surjection
  <2>. HIDE DEF R
  <2>. QED  BY <2>1, FS_Interval, FS_Surjection
<1>. HIDE DEF R
<1>3. T # {}
  <2>1. R # {}
    BY <1>1
  <2>2. PICK m \in R : \A v \in R : v <= m
    <3>1. R \subseteq Int
      BY <1>1
    <3>. QED  BY <1>2, <2>1, <3>1, LargestExists
  <2>3. UpTo(m) = 1..n
    BY <1>1, <2>2
  <2>4. Cardinality(1..n) = n
    BY FS_Interval
  <2>. QED  BY <2>2, <2>3, <2>4
<1>4. PICK t \in T : \A v \in T : t <= v
  BY <1>1, <1>3, LeastNat
<1>5. Cardinality(Below(t)) < k
  <2>. SUFFICES ASSUME Cardinality(Below(t)) >= k PROVE FALSE
    BY CountType
  <2>. DEFINE B == {v \in R : v < t}
  <2>1. B # {}
    <3>1. ASSUME Below(t) = {} PROVE FALSE
      <4>1. Cardinality({}) = 0
        BY FS_EmptySet
      <4>. HIDE DEF Below
      <4>2. Cardinality(Below(t)) = 0
        BY <3>1, <4>1
      <4>. QED  BY <4>2
    <3>. QED  BY <1>1, <3>1
  <2>2. PICK m \in B : \A v \in B : v <= m
    <3>1. B \subseteq R
      OBVIOUS
    <3>2. R \subseteq Int
      BY <1>1
    <3>. HIDE DEF B
    <3>3. IsFiniteSet(B)
      BY <1>2, <3>1, FS_Subset
    <3>4. B \subseteq Int
      BY <3>1, <3>2
    <3>. QED  BY <2>1, <3>3, <3>4, LargestExists
  <2>3. Below(t) = UpTo(m)
    BY <1>1, <2>2
  <2>4. m \in T /\ m < t
    BY <2>2, <2>3
  <2>. QED  BY <1>1, <1>4, <2>4
<1>6. /\ t \in R
      /\ Cardinality({i \in DOMAIN f : f[i] < t}) < k
      /\ Cardinality({i \in DOMAIN f : f[i] <= t}) >= k
  BY <1>4, <1>5
<1>7. /\ Kth(f, k) \in R
      /\ Cardinality({i \in DOMAIN f : f[i] < Kth(f, k)}) < k
      /\ Cardinality({i \in DOMAIN f : f[i] <= Kth(f, k)}) >= k
  <2>. HIDE DEF T
  <2>. QED  BY <1>6 DEF Kth, R
<1>. QED  BY <1>7 DEF R

(* With k values below t the k-th one is.                                  *)
LEMMA KthBelow ==
  ASSUME NEW n \in Nat, NEW f \in [1..n -> Nat], NEW k \in 1..n, NEW t \in Nat,
         Cardinality({i \in 1..n : f[i] < t}) >= k
  PROVE  Kth(f, k) \in Nat /\ Kth(f, k) < t
<1>. DEFINE v == Kth(f, k)
            Lower == {i \in 1..n : f[i] < t}
            Below == {i \in 1..n : f[i] < v}
<1>1. v \in Nat /\ Cardinality(Below) < k
  BY KthExists DEF Range
<1>. HIDE DEF v
<1>2. ASSUME ~(v < t) PROVE FALSE
  <2>1. Lower \subseteq Below
    BY <1>1, <1>2
  <2>2. Below \subseteq 1..n
    OBVIOUS
  <2>. HIDE DEF Lower, Below
  <2>3. Cardinality(Lower) <= Cardinality(Below)
    BY <2>1, <2>2, CountType, SubsetCard
  <2>4. Cardinality(Lower) >= k
    BY DEF Lower
  <2>5. Cardinality(Lower) \in Nat /\ Cardinality(Below) \in Nat
    BY <2>1, <2>2, CountType
  <2>. QED  BY <1>1, <2>3, <2>4, <2>5
<1>. QED  BY <1>1, <1>2 DEF v

(* A median of values below t is below t, and one of three or more values  *)
(* is even when one of them is not.                                        *)
LEMMA MedianBelow ==
  ASSUME NEW n \in Nat \ {0}, NEW f \in [1..n -> Nat], Len(f) = n, NEW t \in Nat,
         NEW odd \in 0..n, odd = 0 \/ n >= 3,
         \A i \in 1..n : i # odd => f[i] < t
  PROVE  Median2(f) < 2 * t
<1>. DEFINE Lower == {i \in 1..n : f[i] < t}
<1>1. IsFiniteSet(1..n) /\ Cardinality(1..n) = n
  BY FS_Interval
<1>2. (1..n) \ {odd} \subseteq Lower
  OBVIOUS
<1>3. Lower \subseteq 1..n
  OBVIOUS
<1>. HIDE DEF Lower
<1>4. /\ odd = 0 => Cardinality((1..n) \ {odd}) = n
      /\ odd # 0 => Cardinality((1..n) \ {odd}) = n - 1
  <2>1. odd = 0 => (1..n) \ {odd} = 1..n
    OBVIOUS
  <2>2. odd # 0 => Cardinality((1..n) \ {odd}) = Cardinality(1..n) - 1
    <3>1. odd # 0 => odd \in 1..n
      OBVIOUS
    <3>. QED  BY <1>1, <3>1, FS_RemoveElement
  <2>. QED  BY <1>1, <2>1, <2>2
<1>5. /\ Cardinality(Lower) \in Nat
      /\ Cardinality((1..n) \ {odd}) \in Nat
      /\ Cardinality((1..n) \ {odd}) <= Cardinality(Lower)
  BY <1>1, <1>2, <1>3, SubsetCard, CountType
<1>6. ASSUME NEW k \in {(n + 1) \div 2, (n + 2) \div 2}
      PROVE  k \in 1..n /\ Cardinality(Lower) >= k
  BY <1>4, <1>5
<1>7. ASSUME NEW k \in {(n + 1) \div 2, (n + 2) \div 2}
      PROVE  Kth(f, k) \in Nat /\ Kth(f, k) < t
  BY <1>6, <1>7, KthBelow DEF Lower
<1>. QED  BY <1>7 DEF Median2

(* A single value is its own median.                                       *)
LEMMA MedianOfOne ==
  ASSUME NEW f \in [1..1 -> Nat], Len(f) = 1
  PROVE  Median2(f) = 2 * f[1]
<1>1. Kth(f, 1) \in Range(f)
  <2>1. 1 \in Nat /\ 1 \in 1..1
    OBVIOUS
  <2>. QED  BY <2>1, KthExists
<1>2. Kth(f, 1) = f[1]
  BY <1>1 DEF Range
<1>3. (Len(f) + 1) \div 2 = 1 /\ (Len(f) + 2) \div 2 = 1
  OBVIOUS
<1>. QED  BY <1>2, <1>3 DEF Median2

-----------------------------------------------------------------------------
(* The level of a window.                                                  *)

IsLow(s) == LevelOf(<<s>>) = "LOW"

(* A sample is low when each of its quantities is below its thresholds.    *)
LowBounds(util, vram, temp, m) ==
    /\ temp < m * Thresholds.temp_critical
    /\ vram < m * Thresholds.vram_critical /\ util < m * Thresholds.util_critical
    /\ vram < m * Thresholds.vram_high /\ util < m * Thresholds.util_high
    /\ vram < m * Thresholds.vram_moderate /\ util < m * Thresholds.util_moderate

Utils(w) == [i \in DOMAIN w |-> w[i].util]

Vrams(w) == [i \in DOMAIN w |-> w[i].vram]

Temps(w) == [i \in DOMAIN w |-> w[i].temp]

LEMMA Columns ==
  ASSUME NEW w \in Seq(Samples)
  PROVE  /\ Utils(w) \in [1..Len(w) -> Nat] /\ Len(Utils(w)) = Len(w)
         /\ Vrams(w) \in [1..Len(w) -> Nat] /\ Len(Vrams(w)) = Len(w)
         /\ Temps(w) \in [1..Len(w) -> Nat] /\ Len(Temps(w)) = Len(w)
<1>1. \A i \in 1..Len(w) : w[i] \in [util : Nat, vram : Nat, temp : Nat]
  BY PressureAssumption
<1>2. DOMAIN w = 1..Len(w) /\ Len(w) \in Nat
  OBVIOUS
<1>. QED  BY <1>1, <1>2 DEF Utils, Vrams, Temps

LEMMA LevelIsLow ==
  ASSUME NEW w, Median2(Utils(w)) \in Nat, Median2(Vrams(w)) \in Nat, Median2(Temps(w)) \in Nat
  PROVE  LevelOf(w) = "LOW"
            <=> LowBounds(Median2(Utils(w)), Median2(Vrams(w)), Median2(Temps(w)), 2)
<1>. DEFINE u == Median2(Utils(w))
            v == Median2(Vrams(w))
            t == Median2(Temps(w))
<1>1. /\ Thresholds.vram_moderate \in Nat /\ Thresholds.vram_high \in Nat
      /\ Thresholds.vram_critical \in Nat /\ Thresholds.util_moderate \in Nat
      /\ Thresholds.util_high \in Nat /\ Thresholds.util_critical \in Nat
      /\ Thresholds.temp_critical \in Nat
  BY PressureAssumption
<1>2. /\ u = Median2([i \in DOMAIN w |-> w[i].util])
      /\ v = Median2([i \in DOMAIN w |-> w[i].vram])
      /\ t = Median2([i \in DOMAIN w |-> w[i].temp])
  BY DEF Utils, Vrams, Temps
<1>. HIDE DEF u, v, t
<1>3. LevelOf(w) = "LOW" <=> LowBounds(u, v, t, 2)
  <2>1. u \in Nat /\ v \in Nat /\ t \in Nat
    BY DEF u, v, t
  <2>. QED  BY <1>1, <1>2, <2>1 DEF LevelOf, LowBounds
<1>. QED  BY <1>3 DEF u, v, t

LEMMA MedianType ==
  ASSUME NEW n \in Nat \ {0}, NEW f \in [1..n -> Nat], Len(f) = n
  PROVE  Median2(f) \in Nat
<1>1. ASSUME NEW k \in 1..n PROVE Kth(f, k) \in Nat
  <2>1. n \in Nat
    OBVIOUS
  <2>2. Kth(f, k) \in Range(f)
    BY <2>1, KthExists
  <2>. QED  BY <2>2 DEF Range
<1>2. (n + 1) \div 2 \in 1..n /\ (n + 2) \div 2 \in 1..n
  OBVIOUS
<1>. QED  BY <1>1, <1>2 DEF Median2

LEMMA LowSample ==
  ASSUME NEW s \in Samples
  PROVE  IsLow(s) <=> LowBounds(s.util, s.vram, s.temp, 1)
<1>. DEFINE w == <<s>>
<1>1. w \in Seq(Samples) /\ Len(w) = 1
  OBVIOUS
<1>2. /\ Utils(w) \in [1..1 -> Nat] /\ Len(Utils(w)) = 1 /\ Utils(w)[1] = s.util
      /\ Vrams(w) \in [1..1 -> Nat] /\ Len(Vrams(w)) = 1 /\ Vrams(w)[1] = s.vram
      /\ Temps(w) \in [1..1 -> Nat] /\ Len(Temps(w)) = 1 /\ Temps(w)[1] = s.temp
  <2>1. 1 \in DOMAIN w /\ w[1] = s
    OBVIOUS
  <2>2. Utils(w)[1] = s.util /\ Vrams(w)[1] = s.vram /\ Temps(w)[1] = s.temp
    BY <2>1 DEF Utils, Vrams, Temps
  <2>3. /\ Utils(w) \in [1..Len(w) -> Nat] /\ Len(Utils(w)) = Len(w)
        /\ Vrams(w) \in [1..Len(w) -> Nat] /\ Len(Vrams(w)) = Len(w)
        /\ Temps(w) \in [1..Len(w) -> Nat] /\ Len(Temps(w)) = Len(w)
    BY <1>1, Columns
  <2>. QED  BY <1>1, <2>2, <2>3
<1>. HIDE DEF w
<1>3. /\ Median2(Utils(w)) = 2 * s.util
      /\ Median2(Vrams(w)) = 2 * s.vram
      /\ Median2(Temps(w)) = 2 * s.temp
  BY <1>2, MedianOfOne
<1>4. s.util \in Nat /\ s.vram \in Nat /\ s.temp \in Nat
  BY PressureAssumption
<1>5. LevelOf(w) = "LOW" <=> LowBounds(2 * s.util, 2 * s.vram, 2 * s.temp, 2)
  BY <1>3, <1>4, LevelIsLow
<1>6. LowBounds(2 * s.util, 2 * s.vram, 2 * s.temp, 2) <=> LowBounds(s.util, s.vram, s.temp, 1)
  BY <1>4, PressureAssumption DEF LowBounds
<1>. QED  BY <1>5, <1>6 DEF IsLow, w

(* A window of low samples is low, and one of three or more samples is     *)
(* even when one of them is not: "a one-frame spike".                      *)
LEMMA LevelLow ==
  ASSUME NEW w \in Seq(Samples), Len(w) # 0,
         NEW odd \in 0..Len(w), odd = 0 \/ Len(w) >= 3,
         \A i \in 1..Len(w) : i # odd => IsLow(w[i])
  PROVE  LevelOf(w) = "LOW"
<1>. DEFINE n == Len(w)
<1>1. n \in Nat \ {0} /\ \A i \in 1..n : w[i] \in Samples
  OBVIOUS
<1>2. /\ Utils(w) \in [1..n -> Nat] /\ Len(Utils(w)) = n
      /\ Vrams(w) \in [1..n -> Nat] /\ Len(Vrams(w)) = n
      /\ Temps(w) \in [1..n -> Nat] /\ Len(Temps(w)) = n
  BY Columns
<1>3. \A i \in 1..n : i # odd => LowBounds(Utils(w)[i], Vrams(w)[i], Temps(w)[i], 1)
  <2>. TAKE i \in 1..n
  <2>. HAVE i # odd
  <2>1. LowBounds(w[i].util, w[i].vram, w[i].temp, 1)
    BY <1>1, LowSample
  <2>2. Utils(w)[i] = w[i].util /\ Vrams(w)[i] = w[i].vram /\ Temps(w)[i] = w[i].temp
    BY DEF Utils, Vrams, Temps
  <2>. QED  BY <2>1, <2>2
<1>4. /\ Median2(Utils(w)) \in Nat /\ Median2(Vrams(w)) \in Nat /\ Median2(Temps(w)) \in Nat
  BY <1>1, <1>2, MedianType
<1>. HIDE DEF n
<1>5. /\ Thresholds.vram_moderate \in Nat /\ Thresholds.vram_high \in Nat
      /\ Thresholds.vram_critical \in Nat /\ Thresholds.util_moderate \in Nat
      /\ Thresholds.util_high \in Nat /\ Thresholds.util_critical \in Nat
      /\ Thresholds.temp_critical \in Nat
  BY PressureAssumption
<1>6. odd \in 0..n /\ (odd = 0 \/ n >= 3)
  BY DEF n
<1>7. ASSUME NEW t \in {Thresholds.util_critical, Thresholds.util_high, Thresholds.util_moderate}
      PROVE  Median2(Utils(w)) < 2 * t
  <2>1. \A i \in 1..n : i # odd => Utils(w)[i] < t
    BY <1>2, <1>3, <1>5 DEF LowBounds
  <2>. QED  BY <1>1, <1>2, <1>5, <1>6, <2>1, MedianBelow
<1>8. ASSUME NEW t \in {Thresholds.vram_critical, Thresholds.vram_high, Thresholds.vram_moderate}
      PROVE  Median2(Vrams(w)) < 2 * t
  <2>1. \A i \in 1..n : i # odd => Vrams(w)[i] < t
    BY <1>2, <1>3, <1>5 DEF LowBounds
  <2>. QED  BY <1>1, <1>2, <1>5, <1>6, <2>1, MedianBelow
<1>9. Median2(Temps(w)) < 2 * Thresholds.temp_critical
  <2>1. \A i \in 1..n : i # odd => Temps(w)[i] < Thresholds.temp_critical
    BY <1>2, <1>3, <1>5 DEF LowBounds
  <2>. QED  BY <1>1, <1>2, <1>5, <1>6, <2>1, MedianBelow
<1>10. LowBounds(Median2(Utils(w)), Median2(Vrams(w)), Median2(Temps(w)), 2)
  BY <1>7, <1>8, <1>9 DEF LowBounds
<1>. QED  BY <1>4, <1>10, LevelIsLow

-----------------------------------------------------------------------------
(* The spike.                                                              *)

(* Where the one sample that is not low is: outside of the window (k = 0), *)
(* or its k-th member, and then the candidate's streak began with it and   *)
(* grew only while there were no three samples.                            *)
Spiked(w, k) ==
    /\ \A i \in 1..Len(w) : i # k => IsLow(w[i])
    /\ \/ candidate_streak = 0
       \/ k # 0 /\ Len(w) <= 2 /\ candidate_streak <= Len(w) - k + 1

SpikeInv ==
    /\ spikes <= 1 => current_level = "LOW"
    /\ spikes = 0 => candidate_streak = 0 /\ \A i \in 1..Len(window) : IsLow(window[i])
    /\ spikes = 1 => \E k \in 0..Len(window) : Spiked(window, k)

LEMMA SpikeStep ==
  ASSUME HysteresisSamples >= 3, TypeOK, SpikeInv, [Next]_vars, TypeOK'
  PROVE  SpikeInv'
<1>h. HysteresisSamples \in Nat \ {0} /\ WindowSamples \in Nat \ {0}
  BY PressureAssumption
<1>1. ASSUME NEW s \in Samples, Ingest(s) PROVE SpikeInv'
  <2>. DEFINE w == window'
              n == Len(w)
              c == LevelOf(w)
              streak == IF c = candidate_level THEN candidate_streak + 1 ELSE 1
  <2>1. /\ window \in Seq(Samples) /\ Len(window) \in Nat
        /\ w \in Seq(Samples) /\ n \in Nat
        /\ spikes \in 0..2 /\ candidate_streak \in Nat
    BY <1>h DEF TypeOK
  (* Place by place: the new sample is last, the others moved by d.        *)
  <2>2. \E d \in {0, 1} :
          /\ n = Len(window) + 1 - d
          /\ w[n] = s
          /\ \A i \in 1..(n - 1) : i + d \in 1..Len(window) /\ w[i] = window[i + d]
    <3>1. CASE Len(window) < WindowSamples
      <4>1. w = Append(window, s)
        BY <1>1, <3>1 DEF Ingest, Slide
      <4>2. n = Len(window) + 1 - 0
        BY <2>1, <4>1
      <4>3. w[n] = s
        BY <2>1, <4>1, <4>2
      <4>4. \A i \in 1..(n - 1) : i + 0 \in 1..Len(window) /\ w[i] = window[i + 0]
        BY <2>1, <4>1, <4>2
      <4>. QED  BY <4>2, <4>3, <4>4
    <3>2. CASE ~(Len(window) < WindowSamples)
      <4>1. w = Append(Tail(window), s)
        BY <1>1, <3>2 DEF Ingest, Slide
      <4>2. window # <<>> /\ Len(window) >= 1
        BY <1>h, <2>1, <3>2
      <4>3. /\ Tail(window) \in Seq(Samples) /\ Len(Tail(window)) = Len(window) - 1
            /\ \A i \in 1..(Len(window) - 1) : Tail(window)[i] = window[i + 1]
        BY <2>1, <4>2
      <4>4. n = Len(window) + 1 - 1
        BY <2>1, <4>1, <4>3
      <4>5. w[n] = s
        BY <2>1, <4>1, <4>3, <4>4
      <4>6. \A i \in 1..(n - 1) : i + 1 \in 1..Len(window) /\ w[i] = window[i + 1]
        BY <2>1, <4>1, <4>3, <4>4
      <4>. QED  BY <4>4, <4>5, <4>6
    <3>. QED  BY <3>1, <3>2
  <2>3. PICK d \in {0, 1} :
          /\ n = Len(window) + 1 - d
          /\ w[n] = s
          /\ \A i \in 1..(n - 1) : i + d \in 1..Len(window) /\ w[i] = window[i + d]
    BY <2>2
  <2>4. n >= 1
    <3>1. Len(window) = 0 => d = 0
      <4>1. Len(window) = 0 => w = Append(window, s)
        BY <1>1, <1>h DEF Ingest, Slide
      <4>2. Len(window) = 0 => n = Len(window) + 1
        BY <2>1, <4>1
      <4>. QED  BY <2>1, <2>3, <4>2
    <3>. QED  BY <2>1, <2>3, <3>1
  <2>5. /\ (c = current_level => current_level' = current_level /\ candidate_streak' = 0)
        /\ (c # current_level /\ streak < HysteresisSamples =>
              current_level' = current_level /\ candidate_streak' = streak)
    BY <1>1 DEF Ingest, Judge
  <2>6. spikes' = IF spikes < 2 /\ ~IsLow(s) THEN spikes + 1 ELSE spikes
    BY <1>1 DEF Ingest, IsLow
  <2>7. streak \in Nat /\ streak <= candidate_streak + 1
    BY <2>1
  <2>. HIDE DEF streak, c
  (* It is enough to place the spike in the new window.                    *)
  <2>8. ASSUME current_level = "LOW", NEW k \in 0..n,
               \A i \in 1..n : i # k => IsLow(w[i]),
               k # 0 /\ n <= 2 => streak <= n - k + 1
        PROVE  /\ current_level' = "LOW"
               /\ Spiked(window, k)'
               /\ k = 0 => candidate_streak' = 0
    <3>1. CASE k = 0 \/ n >= 3
      <4>1. c = "LOW"
        BY <2>1, <2>4, <2>8, <3>1, LevelLow DEF c
      <4>. QED  BY <2>5, <2>8, <4>1 DEF Spiked
    <3>2. CASE k # 0 /\ n <= 2
      <4>1. streak < HysteresisSamples /\ streak <= n - k + 1
        BY <1>h, <2>1, <2>7, <2>8, <3>2
      <4>2. current_level' = "LOW" /\ (candidate_streak' = 0 \/ candidate_streak' = streak)
        BY <2>5, <2>8, <4>1
      <4>. QED  BY <2>8, <3>2, <4>1, <4>2 DEF Spiked
    <3>. QED  BY <2>1, <3>1, <3>2
  <2>9. CASE spikes = 0
    <3>1. current_level = "LOW" /\ candidate_streak = 0
      BY <2>9 DEF SpikeInv
    <3>2. \A i \in 1..n : i # n => IsLow(w[i])
      <4>. TAKE i \in 1..n
      <4>. HAVE i # n
      <4>1. i \in 1..(n - 1)
        BY <2>1
      <4>. QED  BY <2>3, <2>9, <4>1 DEF SpikeInv
    <3>3. CASE IsLow(s)
      <4>1. \A i \in 1..n : i # 0 => IsLow(w[i])
        BY <2>1, <2>3, <3>2, <3>3
      <4>2. current_level' = "LOW" /\ candidate_streak' = 0
        BY <2>1, <2>8, <3>1, <4>1
      <4>3. spikes' = 0
        BY <2>6, <2>9, <3>3
      <4>. QED  BY <4>1, <4>2, <4>3 DEF SpikeInv
    <3>4. CASE ~IsLow(s)
      <4>1. PICK k \in 0..n : k = n
        BY <2>1
      <4>2. streak <= n - k + 1
        BY <2>1, <2>7, <3>1, <4>1
      <4>3. current_level' = "LOW" /\ Spiked(window, k)'
        BY <2>8, <3>1, <3>2, <4>1, <4>2
      <4>4. spikes' = 1
        BY <2>6, <2>9, <3>4
      <4>. QED  BY <4>2, <4>3, <4>4 DEF SpikeInv
    <3>. QED  BY <3>3, <3>4
  <2>10. CASE spikes = 1 /\ IsLow(s)
    <3>1. PICK j \in 0..Len(window) : Spiked(window, j)
      BY <2>10 DEF SpikeInv
    <3>2. PICK k \in 0..n : k = IF j < d THEN 0 ELSE j - d
      <4>1. (IF j < d THEN 0 ELSE j - d) \in 0..n
        BY <2>1, <2>3
      <4>. QED  BY <4>1
    <3>3. \A i \in 1..n : i # k => IsLow(w[i])
      <4>. TAKE i \in 1..n
      <4>. HAVE i # k
      <4>1. CASE i = n
        BY <2>3, <2>10, <4>1
      <4>2. CASE i # n
        <5>1. i \in 1..(n - 1) /\ i + d # j
          BY <2>1, <2>3, <3>1, <3>2, <4>2
        <5>. QED  BY <2>3, <3>1, <5>1 DEF Spiked
      <4>. QED  BY <4>1, <4>2
    <3>4. k # 0 /\ n <= 2 => streak <= n - k + 1
      <4>. SUFFICES ASSUME k # 0, n <= 2 PROVE streak <= n - k + 1
        OBVIOUS
      <4>1. j = k + d /\ j # 0
        BY <2>1, <2>3, <3>1, <3>2
      <4>2. CASE candidate_streak = 0
        BY <2>1, <2>7, <4>2
      <4>3. CASE candidate_streak <= Len(window) - j + 1
        BY <2>1, <2>3, <2>7, <4>1, <4>3
      <4>. QED  BY <3>1, <4>2, <4>3 DEF Spiked
    <3>5. current_level = "LOW"
      BY <2>10 DEF SpikeInv
    <3>6. current_level' = "LOW" /\ Spiked(window, k)'
      BY <2>8, <3>3, <3>4, <3>5
    <3>7. spikes' = 1
      BY <2>6, <2>10
    <3>. QED  BY <3>6, <3>7 DEF SpikeInv
  <2>11. CASE spikes = 2 \/ (spikes = 1 /\ ~IsLow(s))
    <3>1. spikes' = 2
      BY <2>6, <2>11
    <3>. QED  BY <3>1 DEF SpikeInv
  <2>. QED  BY <2>1, <2>9, <2>10, <2>11
<1>2. CASE IngestNone
  BY <1>2 DEF IngestNone, SpikeInv
<1>3. CASE UNCHANGED vars
  BY <1>3 DEF vars, SpikeInv, Spiked
<1>. QED  BY <1>1, <1>2, <1>3 DEF Next

(* "A one-frame spike cannot pause the service": with the deployed         *)
(* hysteresis of three samples or a longer one, a single sample that is    *)
(* not at "LOW" leaves the level at "LOW", whatever its reading, the size  *)
(* of the window and the moment it comes at.  With two it would not: the   *)
(* spike and the mean of the spike and one more sample are two outcomes.   *)
THEOREM SpikeIsHarmless ==
  ASSUME HysteresisSamples >= 3
  PROVE  Spec => []SpikeHarmless
<1>1. Init => TypeOK /\ SpikeInv
  BY InitTyped DEF Init, SpikeInv
<1>2. TypeOK /\ TypeOK' /\ SpikeInv /\ [Next]_vars => SpikeInv'
  BY SpikeStep
<1>3. SpikeInv => SpikeHarmless
  BY DEF SpikeInv, SpikeHarmless
<1>. QED  BY <1>1, <1>2, <1>3, PressureTypeCorrect, PTL DEF Spec
==============================================================================
