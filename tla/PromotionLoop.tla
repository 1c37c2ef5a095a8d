---------------------------- MODULE PromotionLoop ----------------------------
(***************************************************************************)
(* The loop of Scheduler._try_promote_locked() (gateway/app/scheduler/     *)
(* queue.py) as the code runs it, one waiter at a time over the sorted     *)
(* list, to be compared with IsPromoted, the declarative form that the     *)
(* actions of Scheduler use.                                               *)
(***************************************************************************)
EXTENDS Promotion

(* A faulty LoopBody: break, not continue, at the user's cap.              *)
LoopBody_BreaksAtCap(max, cap, st, w) ==
    IF st.stopped \/ st.active >= max \/ st.byUser[UserOf[w]] >= cap
      THEN [st EXCEPT !.stopped = TRUE]
      ELSE [st EXCEPT !.picked = @ \cup {w},
                      !.active = @ + 1,
                      !.byUser[UserOf[w]] = @ + 1]

(* One iteration: break at the ceiling, continue at the user's cap.        *)
LoopBody(max, cap, st, w) ==
    IF st.stopped \/ st.active >= max
      THEN [st EXCEPT !.stopped = TRUE]
    ELSE IF st.byUser[UserOf[w]] >= cap
      THEN st
    ELSE [st EXCEPT !.picked = @ \cup {w},
                    !.active = @ + 1,
                    !.byUser[UserOf[w]] = @ + 1]

(* self._waiting.sort(key=lambda w: (-w.priority, w.seq))                  *)
SortedWaiting(key, W) ==
    CHOOSE q \in [1..Cardinality(W) -> W] :
        \A i, j \in 1..Cardinality(W) : i < j => Precedes(key, q[i], q[j])

PromoteLoop(key, W, ac, byUser, max, cap) ==
    LET sorted == SortedWaiting(key, W)
        start == [stopped |-> FALSE, active |-> ac, byUser |-> byUser, picked |-> {}]
        after[n \in 0..Cardinality(W)] ==
            IF n = 0 THEN start ELSE LoopBody(max, cap, after[n - 1], sorted[n])
    IN  after[Cardinality(W)]

(* Started on W with these counters and limits, the loop promotes exactly  *)
(* the set that IsPromoted describes, that set exists and is the only one, *)
(* and the counters end where TryPromote puts them.                        *)
Agrees(key, W, ac, byUser, max, cap) ==
    LET end == PromoteLoop(key, W, ac, byUser, max, cap)
    IN  /\ {P \in SUBSET W : IsPromoted(key, W, ac, byUser, max, cap, P)}
               = {end.picked}
        /\ end.active = ac + Cardinality(end.picked)
        /\ \A u \in Users :
              end.byUser[u] = byUser[u] + Cardinality(OfUser(end.picked, u))
==============================================================================
