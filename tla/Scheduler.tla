------------------------------ MODULE Scheduler ------------------------------
(***************************************************************************)
(* The in-process admission controller of the gateway, class Scheduler of  *)
(* gateway/app/scheduler/queue.py.  Every request is one asyncio task that *)
(* runs `async with scheduler.admit(...)` once.  The lock of the condition *)
(* is never held across a suspension, so each stretch of admit() between   *)
(* two suspensions is one action:                                          *)
(*   Admit        entry, up to the grant or the first cond.wait()          *)
(*   WakeUp       a notified task finds out whether it was promoted        *)
(*   QueueTimeout the deadline of the wait passes                          *)
(*   Cancel       another task calls task.cancel() on a queued one         *)
(*   CancelQueued the CancelledError is delivered at cond.wait()           *)
(*   Release      the finally clause, however the body of the block ended  *)
(*   ApplyPolicy  apply_to_scheduler() overwrites the two limits           *)
(***************************************************************************)
EXTENDS PromotionLoop

CONSTANTS
    Priorities,        \* effective priorities a request may carry
    Policies,          \* [ceiling, per_user] pairs the mode policy may apply
    InitialPolicy,     \* the limits given to the constructor
    QueueMaxDepth      \* queue_max_depth, never changed after construction

ASSUME PrioritiesAssumption == Priorities \subseteq Int
ASSUME PoliciesAssumption ==
    /\ Policies \subseteq [ceiling : Int, per_user : Int]
    /\ InitialPolicy \in [ceiling : Int, per_user : Int]
ASSUME QueueMaxDepthAssumption == QueueMaxDepth \in Int

VARIABLES
    policy,            \* max_active_jobs and per_user_max_active
    active_count,      \* _active_count
    active_by_user,    \* _active_by_user, absent keys being 0
    waiting,           \* _waiting: its order is recomputed before every use
    waiter,            \* priority and seq of the _Waiter of each request
    promoted,          \* the requests whose _Waiter.promoted is set
    seq_counter,       \* _seq_counter
    notified,          \* sleeping tasks whose wake-up is already scheduled
    cancel_requested,  \* queued tasks with a cancellation under way
    pc,                \* where each task stands in admit()
    pass_policy        \* history: the limits the last promotion pass used

vars == <<policy, active_count, active_by_user, waiting, waiter, promoted,
          seq_counter, notified, cancel_requested, pc, pass_policy>>

Pc == {"idle", "queued", "holding",
       "rejected", "timed_out", "cancelled", "released"}
Final == {"rejected", "timed_out", "cancelled", "released"}

TypeOK ==
    /\ policy \in [ceiling : Int, per_user : Int]
    /\ active_count \in Nat
    /\ active_by_user \in [Users -> Nat]
    /\ waiting \subseteq Requests
    /\ waiter \in [Requests -> [priority : Int, seq : Nat]]
    /\ promoted \subseteq Requests
    /\ seq_counter \in Nat
    /\ notified \subseteq Requests
    /\ cancel_requested \subseteq Requests
    /\ pc \in [Requests -> Pc]
    /\ pass_policy \in [ceiling : Int, per_user : Int]

Init ==
    /\ policy = InitialPolicy
    /\ active_count = 0
    /\ active_by_user = [u \in Users |-> 0]
    /\ waiting = {}
    /\ waiter = [r \in Requests |-> [priority |-> 0, seq |-> 0]]
    /\ promoted = {}
    /\ seq_counter = 0
    /\ notified = {}
    /\ cancel_requested = {}
    /\ pc = [r \in Requests |-> "idle"]
    /\ pass_policy = InitialPolicy

-----------------------------------------------------------------------------
(* A faulty NotifyAll, for NoLostWakeup: notify() wakes one task only.     *)
NotifyAll_One(r) ==
    \/ \E s \in Requests \ {r} : pc[s] = "queued" /\ notified' = notified \cup {s}
    \/ notified' = notified

(* notify_all() schedules the wake-up of every task asleep in cond.wait(). *)
NotifyAll(r) == notified' = {s \in Requests \ {r} : pc[s] = "queued"}

(* _try_promote_locked() over the waiting set W with ac slots taken: it    *)
(* promotes P.                                                             *)
TryPromote(W, ac, byUser, P) ==
    /\ IsPromoted(waiter', W, ac, byUser, policy.ceiling, policy.per_user, P)
    /\ waiting' = W \ P
    /\ active_count' = ac + Cardinality(P)
    /\ active_by_user' =
         [u \in Users |-> byUser[u] + Cardinality(OfUser(P, u))]
    /\ promoted' = promoted \cup P
    /\ pass_policy' = policy

(* Entry of admit() on a full queue: QueueFullError, no promotion pass.    *)
RejectFull(r) ==
    /\ pc[r] = "idle"
    /\ Cardinality(waiting) >= QueueMaxDepth
    /\ seq_counter' = seq_counter + 1
    /\ pc' = [pc EXCEPT ![r] = "rejected"]
    /\ UNCHANGED <<policy, active_count, active_by_user, waiting, waiter,
                   promoted, notified, cancel_requested, pass_policy>>

(* Entry of admit() otherwise: append, promote, notify.  A request that    *)
(* is promoted at once goes on without a suspension, the others sleep.     *)
Admit(r, p) ==
    /\ pc[r] = "idle"
    /\ Cardinality(waiting) < QueueMaxDepth
    /\ seq_counter' = seq_counter + 1
    /\ waiter' = [waiter EXCEPT ![r] = [priority |-> p, seq |-> seq_counter]]
    /\ \E P \in SUBSET (waiting \cup {r}) :
          /\ TryPromote(waiting \cup {r}, active_count, active_by_user, P)
          /\ pc' = [pc EXCEPT ![r] = IF r \in P THEN "holding" ELSE "queued"]
    /\ NotifyAll(r)
    /\ UNCHANGED <<policy, cancel_requested>>

(* A notified task rechecks waiter.promoted: it goes on or sleeps again.   *)
WakeUp(r) ==
    /\ r \in notified
    /\ r \notin cancel_requested
    /\ notified' = notified \ {r}
    /\ pc' = IF r \in promoted THEN [pc EXCEPT ![r] = "holding"] ELSE pc
    /\ UNCHANGED <<policy, active_count, active_by_user, waiting, waiter,
                   promoted, seq_counter, cancel_requested, pass_policy>>

(* The deadline passes.  wait_for() swallows the timeout of a task that    *)
(* was promoted meanwhile; the others leave the queue with                 *)
(* QueueTimeoutError.                                                      *)
QueueTimeout(r) ==
    /\ pc[r] = "queued"
    /\ r \notin cancel_requested
    /\ IF r \in promoted
         THEN pc' = [pc EXCEPT ![r] = "holding"] /\ UNCHANGED waiting
         ELSE /\ pc' = [pc EXCEPT ![r] = "timed_out"]
              /\ waiting' = waiting \ {r}
    /\ notified' = notified \ {r}
    /\ UNCHANGED <<policy, active_count, active_by_user, waiter, promoted,
                   seq_counter, cancel_requested, pass_policy>>

(* The disconnect watcher or a cancel endpoint calls task.cancel().        *)
Cancel(r) ==
    /\ pc[r] = "queued"
    /\ cancel_requested' = cancel_requested \cup {r}
    /\ UNCHANGED <<policy, active_count, active_by_user, waiting, waiter,
                   promoted, seq_counter, notified, pc, pass_policy>>

(* A faulty CancelQueued, for TypeOK: it also frees a slot of a task that  *)
(* never had one.                                                          *)
CancelQueued_FreesSlot(r) ==
    /\ pc[r] = "queued"
    /\ r \in cancel_requested
    /\ cancel_requested' = cancel_requested \ {r}
    /\ pc' = [pc EXCEPT ![r] = "cancelled"]
    /\ waiting' = waiting \ {r}
    /\ active_count' = active_count - 1
    /\ NotifyAll(r)
    /\ UNCHANGED <<policy, active_by_user, waiter, promoted, seq_counter, pass_policy>>

(* CancelledError at cond.wait(): the handler gives up the place in the    *)
(* queue, and does nothing for a task that was promoted meanwhile.         *)
CancelQueued(r) ==
    /\ pc[r] = "queued"
    /\ r \in cancel_requested
    /\ cancel_requested' = cancel_requested \ {r}
    /\ pc' = [pc EXCEPT ![r] = "cancelled"]
    /\ UNCHANGED <<policy, waiter, seq_counter>>
    /\ \/ /\ r \in waiting
          /\ \E P \in SUBSET (waiting \ {r}) :
                TryPromote(waiting \ {r}, active_count, active_by_user, P)
          /\ NotifyAll(r)
       \/ /\ r \notin waiting
          /\ notified' = notified \ {r}
          /\ UNCHANGED <<waiting, active_count, active_by_user, promoted,
                         pass_policy>>

(* Two faulty forms of Release: the user's counter is forgotten (for       *)
(* SlotAccounting), and the slot is freed without a promotion pass (for    *)
(* QueueDrains).                                                           *)
Release_KeepsUserCount(r) ==
    /\ pc[r] = "holding"
    /\ pc' = [pc EXCEPT ![r] = "released"]
    /\ UNCHANGED <<policy, waiter, seq_counter, cancel_requested>>
    /\ \E P \in SUBSET waiting :
          TryPromote(waiting, active_count - 1, active_by_user, P)
    /\ NotifyAll(r)

Release_NoPass(r) ==
    /\ pc[r] = "holding"
    /\ pc' = [pc EXCEPT ![r] = "released"]
    /\ active_count' = active_count - 1
    /\ active_by_user' = [active_by_user EXCEPT ![UserOf[r]] = @ - 1]
    /\ NotifyAll(r)
    /\ UNCHANGED <<policy, waiting, waiter, promoted, seq_counter,
                   cancel_requested, pass_policy>>

(* The finally clause of admit(), on success, exception or cancellation.   *)
Release(r) ==
    /\ pc[r] = "holding"
    /\ pc' = [pc EXCEPT ![r] = "released"]
    /\ UNCHANGED <<policy, waiter, seq_counter, cancel_requested>>
    /\ \E P \in SUBSET waiting :
          TryPromote(waiting, active_count - 1,
                     [active_by_user EXCEPT ![UserOf[r]] = @ - 1], P)
    /\ NotifyAll(r)

(* apply_to_scheduler(): plain attribute writes, no promotion pass.        *)
ApplyPolicy(p) ==
    /\ policy' = p
    /\ UNCHANGED <<active_count, active_by_user, waiting, waiter, promoted,
                   seq_counter, notified, cancel_requested, pc, pass_policy>>

Next ==
    \/ \E r \in Requests :
          \/ RejectFull(r)
          \/ \E p \in Priorities : Admit(r, p)
          \/ WakeUp(r)
          \/ QueueTimeout(r)
          \/ Cancel(r)
          \/ CancelQueued(r)
          \/ Release(r)
    \/ \E p \in Policies : ApplyPolicy(p)

Spec == Init /\ [][Next]_vars

(* The event loop runs every ready task, and the proxied call of a holder  *)
(* ends by the backend's answer or a timeout.                              *)
Fairness ==
    \A r \in Requests :
        /\ WF_vars(WakeUp(r))
        /\ WF_vars(CancelQueued(r))
        /\ WF_vars(Release(r))

FairSpec == Spec /\ Fairness

-----------------------------------------------------------------------------
Holders == {r \in Requests : pc[r] = "holding"}
Granted == {r \in promoted : pc[r] = "queued"}   \* promoted, still asleep
Leaked == {r \in promoted : pc[r] = "cancelled"} \* promoted, never released

SlotOwners == Holders \cup Granted \cup Leaked

(* The counters are exact: every slot counted by _active_count and by      *)
(* _active_by_user has one owner, a task inside the block, one granted and *)
(* not yet resumed, or one whose cancellation overtook its wake-up, and    *)
(* nothing else ever takes a slot or gives one back.                       *)
SlotAccounting ==
    /\ active_count = Cardinality(SlotOwners)
    /\ \A u \in Users : active_by_user[u] = Cardinality(OfUser(SlotOwners, u))

(* notify_all() reaches everyone it must: a promoted task that still       *)
(* sleeps in cond.wait() has its wake-up scheduled.                        *)
NoLostWakeup == Granted \subseteq notified

(* Work conservation: under the limits of the last promotion pass nobody   *)
(* waits beside a slot he may take, whatever admissions, time-outs,        *)
(* cancellations and releases happened since.                              *)
NoEligibleLeftBehind ==
    \A r \in waiting :
        \/ active_count >= pass_policy.ceiling
        \/ active_by_user[UserOf[r]] >= pass_policy.per_user

(* The slots taken never exceed the highest ceiling that was ever applied, *)
(* whatever is lowered and raised again under running requests.            *)
NeverAboveCeilings ==
    \/ active_count = 0
    \/ \E p \in Policies \cup {InitialPolicy} : active_count <= p.ceiling

(* A slot is granted only within the limits in force at that moment, also  *)
(* when those limits were lowered under the number of running requests.    *)
GrantWithinLimits ==
    [][\A r \in promoted' \ promoted :
          /\ active_count' <= policy.ceiling
          /\ active_by_user'[UserOf[r]] <= policy.per_user]_vars

(* Priority, then arrival order: a request is granted a slot over one that *)
(* precedes it, waiting or just arriving, only if that one's user is at    *)
(* the cap.                                                                *)
NoOvertaking ==
    [][\A w \in promoted' \ promoted : \A v \in waiting' :
          Precedes(waiter', v, w) =>
              active_by_user'[UserOf[v]] >= policy.per_user]_vars

(* The loop as written and IsPromoted agree on every pass the scheduler    *)
(* could make in a reachable state: with everyone who waits, without one   *)
(* of them, and after the release of a slot.                               *)
LoopAgrees ==
    LET AgreesOn(W, ac, byUser) ==
            Agrees(waiter, W, ac, byUser, policy.ceiling, policy.per_user)
    IN  /\ AgreesOn(waiting, active_count, active_by_user)
        /\ \A r \in waiting : AgreesOn(waiting \ {r}, active_count, active_by_user)
        /\ \A r \in Holders :
              AgreesOn(waiting, active_count - 1,
                       [active_by_user EXCEPT ![UserOf[r]] = @ - 1])

(* As long as no slot is lost and the limits, however they are changed     *)
(* under the requests, let one in, a queued request leaves the queue by    *)
(* itself though its deadline may never come: the passes of the holders'   *)
(* releases reach it.  (With a ceiling 0 and no holder nothing would.)     *)
QueueDrains ==
    [](Leaked = {} /\ policy.ceiling > 0 /\ policy.per_user > 0) =>
        \A r \in Requests : (r \in waiting) ~> (r \notin waiting)

(* "Releases the slot on exit (success, exception, or cancellation)": when *)
(* every request is over, no slot is taken.                                *)
SlotsFreeAtIdle ==
    (\A r \in Requests : pc[r] \in Final) => active_count = 0
==============================================================================
