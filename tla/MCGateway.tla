------------------------------ MODULE MCGateway ------------------------------
(***************************************************************************)
(* Gateway on a small instance: a streaming and a non-streaming request of *)
(* two users for one slot, which a mode without slots may take away.       *)
(***************************************************************************)
EXTENDS Gateway

CONSTANTS r1, r2, u1, u2, c1

TwoRequests == {r1, r2}
TwoUsers == {u1, u2}
OwnersOfTwo == [r \in TwoRequests |-> IF r = r1 THEN u1 ELSE u2]

OneSlot == [ceiling |-> 1, per_user |-> 1]
OnlyOneSlot == {OneSlot}
SlotOrNone == {OneSlot, [ceiling |-> 0, per_user |-> 1]}   \* a mode without slots
==============================================================================
