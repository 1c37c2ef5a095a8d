----------------------------- MODULE MCAnalytics -----------------------------
(***************************************************************************)
(* Analytics on a small instance: three jobs in two groups, two sessions   *)
(* that run any number of rollups of the first day.                        *)
(***************************************************************************)
EXTENDS Analytics

CONSTANTS j1, j2, j3, g1, g2, c1, c2

ThreeJobs == {j1, j2, j3}
TwoGroups == [j \in ThreeJobs |-> IF j = j3 THEN g2 ELSE g1]
Symmetric == Permutations({c1, c2}) \cup Permutations({j1, j2})
==============================================================================
