----------------------------- MODULE MCScheduler -----------------------------
(***************************************************************************)
(* Scheduler on a small instance: three requests of two users, two         *)
(* priorities, a queue that can fill up, and limits that change at any     *)
(* time to any pair up to two, "admit nothing" included.                   *)
(***************************************************************************)
EXTENDS Scheduler

CONSTANTS r1, r2, r3, u1, u2

ThreeRequests == {r1, r2, r3}
TwoUsers == {u1, u2}
OwnersOfThree == [r \in ThreeRequests |-> IF r = r3 THEN u2 ELSE u1]

Limits(c, p) == [ceiling |-> c, per_user |-> p]

Serving == Limits(2, 1)
AllPolicies == {Limits(c, p) : c \in 0..2, p \in 1..2}
==============================================================================
