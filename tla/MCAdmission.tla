----------------------------- MODULE MCAdmission -----------------------------
(***************************************************************************)
(* Admission on small instances: two requests of the owner and one of a    *)
(* member with the same role priority, two slots, any mode to start with   *)
(* and calls that change it.                                               *)
(***************************************************************************)
EXTENDS Admission, TLC

CONSTANTS o1, o2, m1, owner, member, c1, c2

ThreeRequests == {o1, o2, m1}
TwoUsers == {owner, member}
OwnersOfThree == [r \in ThreeRequests |-> IF r = m1 THEN member ELSE owner]
NoRoles == [u \in TwoUsers |-> 0]

(* The calls are interchangeable.                                          *)
EitherCall == Permutations({c1, c2})
==============================================================================
