------------------------------ MODULE Promotion ------------------------------
(***************************************************************************)
(* Which waiting requests one pass of Scheduler._try_promote_locked()      *)
(* grants a slot to (gateway/app/scheduler/queue.py).  The code walks the  *)
(* waiting list in the order (-priority, seq), stops when every slot is    *)
(* taken and skips a request whose user is at the cap.  IsPromoted says of *)
(* a set P, without a loop, that it is what that walk picks; module        *)
(* PromotionLoop holds the walk itself and is checked to agree with it.    *)
(***************************************************************************)
EXTENDS Integers, FiniteSets

CONSTANTS
    Requests,   \* the chat requests that ever reach the scheduler
    Users,      \* the users they belong to
    UserOf      \* user_id of each request

ASSUME UserOfAssumption == UserOf \in [Requests -> Users]

(* The sort key of _Waiter: higher priority first, then arrival order.     *)
Precedes(key, v, w) ==
    \/ key[v].priority > key[w].priority
    \/ /\ key[v].priority = key[w].priority
       /\ key[v].seq < key[w].seq

Ahead(key, S, w) == {v \in S : Precedes(key, v, w)}

OfUser(S, u) == {v \in S : UserOf[v] = u}

(* Three faulty forms of IsPromoted, to show that the properties of the    *)
(* grants can fail: the walk ends at the first capped user, the limits are *)
(* compared with <=, the sort forgets the priority.                        *)
IsPromoted_StopsAtCap(key, W, ac, byUser, max, cap, P) ==
    LET Open(w) == byUser[UserOf[w]]
                     + Cardinality(OfUser(Ahead(key, P, w), UserOf[w])) < cap
    IN  \A w \in W :
            w \in P <=>
                /\ ac + Cardinality(Ahead(key, P, w)) < max
                /\ \A v \in Ahead(key, W, w) \cup {w} : Open(v)

IsPromoted_OneTooMany(key, W, ac, byUser, max, cap, P) ==
    \A w \in W :
        w \in P <=>
            /\ ac + Cardinality(Ahead(key, P, w)) <= max
            /\ byUser[UserOf[w]]
                 + Cardinality(OfUser(Ahead(key, P, w), UserOf[w])) < cap

IsPromoted_ArrivalOrder(key, W, ac, byUser, max, cap, P) ==
    LET Before(w) == {v \in P : key[v].seq < key[w].seq}
    IN  \A w \in W :
            w \in P <=>
                /\ ac + Cardinality(Before(w)) < max
                /\ byUser[UserOf[w]]
                     + Cardinality(OfUser(Before(w), UserOf[w])) < cap

(* P is the part of W the pass promotes, started with ac slots taken and   *)
(* byUser[u] of them by user u, under the ceiling max and the per-user cap *)
(* cap: exactly the requests that find a free slot and their user under    *)
(* the cap once those ahead of them have been served.                      *)
IsPromoted(key, W, ac, byUser, max, cap, P) ==
    \A w \in W :
        w \in P <=>
            /\ ac + Cardinality(Ahead(key, P, w)) < max
            /\ byUser[UserOf[w]]
                 + Cardinality(OfUser(Ahead(key, P, w), UserOf[w])) < cap
==============================================================================
