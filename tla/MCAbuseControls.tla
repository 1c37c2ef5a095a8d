--------------------------- MODULE MCAbuseControls ---------------------------
(***************************************************************************)
(* AbuseControls with three requests of one source in flight, one request  *)
(* of another, and one key that both may use.                              *)
(***************************************************************************)
EXTENDS AbuseControls

CONSTANTS q1, q2, q3, q4, s1, s2

FourRequests == {q1, q2, q3, q4}
TwoSources == {s1, s2}
SourcesOfFour == [r \in FourRequests |-> IF r = q4 THEN s2 ELSE s1]
==============================================================================
