----------------------------- MODULE MCPressure -----------------------------
(***************************************************************************)
(* Pressure with a window of four (an even and, while it fills, an odd     *)
(* number of samples), the deployed hysteresis of three, and samples of    *)
(* every level, two of them high in different quantities.                  *)
(***************************************************************************)
EXTENDS Pressure

Sample(u, v, t) == [util |-> u, vram |-> v, temp |-> t]

FiveSamples ==
    {Sample(0, 1, 1), Sample(2, 1, 1), Sample(3, 1, 1), Sample(0, 4, 1), Sample(0, 1, 9)}

SmallThresholds ==
    [vram_moderate |-> 2, vram_high |-> 3, vram_critical |-> 5,
     util_moderate |-> 2, util_high |-> 3, util_critical |-> 4,
     temp_critical |-> 8]
==============================================================================
