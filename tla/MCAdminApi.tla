----------------------------- MODULE MCAdminApi ------------------------------
(***************************************************************************)
(* AdminApi with two overlapping requests, the owner of the installation   *)
(* and one more user, a key for each, a seeded model and one more.         *)
(***************************************************************************)
EXTENDS AdminApi, TLC

CONSTANTS q1, q2, ann, bob, ka, kb, m1, m2

TwoRequests == {q1, q2}
TwoUsers == {ann, bob}
TwoKeys == {ka, kb}
OwnersOfTwo == [k \in TwoKeys |-> IF k = ka THEN ann ELSE bob]
TwoAliases == {m1, m2}

Body(d, e) == [is_default |-> d, enabled |-> e]
FourBodies ==
    {Body(TRUE, "keep"), Body(TRUE, "on"), Body(FALSE, "on"), Body(FALSE, "off")}

(* The requests are interchangeable.                                       *)
EitherRequest == Permutations(TwoRequests)
==============================================================================
