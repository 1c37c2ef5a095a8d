---------------------------- MODULE AbuseControls ----------------------------
(***************************************************************************)
(* RateLimiter and AuthFailThrottle of gateway/app/api/security.py as the  *)
(* middlewares (gateway/app/middleware.py) and the authentication          *)
(* dependency (gateway/app/auth/dependencies.py) call them.  A request is  *)
(* checked against the block of its source on its way in; its failure is   *)
(* recorded on its way out, when other requests of that source may have    *)
(* been checked, failed or blocked meanwhile.                              *)
(*                                                                         *)
(* The code keeps time stamps.  Here a time stamp is its age, in ticks of  *)
(* the clock, and ages beyond the longer window are not told apart.        *)
(***************************************************************************)
EXTENDS Integers, FiniteSets, Sequences

CONSTANTS
    Requests,                       \* the requests in flight at one time
    Sources, SourceOf,              \* client addresses
    Keys,                           \* key_ids that pass the verification
    MaxRequests, RateWindow,        \* of RateLimiter
    Threshold, FailWindow, BlockTime    \* of AuthFailThrottle

ASSUME AbuseAssumption ==
    /\ IsFiniteSet(Requests)
    /\ SourceOf \in [Requests -> Sources]
    /\ MaxRequests \in Nat \ {0} /\ RateWindow \in Nat
    /\ Threshold \in Nat \ {0} /\ FailWindow \in Nat /\ BlockTime \in Nat \ {0}

VARIABLES
    hits,       \* _hits: the ages of the arrivals of each key, oldest first
    failures,   \* _failures: the same for the failures of each source
    blocked,    \* time left until _blocked_until, 0 if it is absent or over
    pc,         \* each request: not there, let in, or on its way out with 401
    admitted,   \* history: the ages of the arrivals let in, per key, up to
                \* RateWindow
    failed      \* history: the ages of the failures recorded, per source, as
                \* long as both FailWindow and a block beginning then last

vars == <<hits, failures, blocked, pc, admitted, failed>>

GuessWindow == IF FailWindow < BlockTime THEN FailWindow ELSE BlockTime - 1

TypeOK ==
    /\ hits \in [Keys -> Seq(0..(RateWindow + 1))]
    /\ failures \in [Sources -> Seq(0..(FailWindow + 1))]
    /\ \A s \in Sources : Len(failures[s]) < Threshold
    /\ blocked \in [Sources -> 0..BlockTime]
    /\ pc \in [Requests -> {"idle", "inside", "unauthenticated"}]
    /\ admitted \in [Keys -> Seq(0..RateWindow)]
    /\ failed \in [Sources -> Seq(0..GuessWindow)]

Init ==
    /\ hits = [k \in Keys |-> <<>>]
    /\ failures = [s \in Sources |-> <<>>]
    /\ blocked = [s \in Sources |-> 0]
    /\ pc = [r \in Requests |-> "idle"]
    /\ admitted = [k \in Keys |-> <<>>]
    /\ failed = [s \in Sources |-> <<>>]

-----------------------------------------------------------------------------
(* The popleft loops: how many entries at the front are older than the     *)
(* window, and what is left.  Ages fall along a sequence.                  *)
Expired(ages, window) ==
    CHOOSE n \in 0..Len(ages) :
        /\ \A i \in 1..n : ages[i] > window
        /\ n < Len(ages) => ages[n + 1] <= window

Recent(ages, window) == SubSeq(ages, Expired(ages, window) + 1, Len(ages))

Moved(r, to) == pc' = [pc EXCEPT ![r] = to]

(* A faulty Enter, for BlocksEnd: a blocked request is metered too.        *)
Enter_MetersBlocked(r) ==
    /\ pc[r] = "idle"
    /\ Moved(r, IF blocked[SourceOf[r]] = 0 THEN "inside" ELSE "unauthenticated")
    /\ UNCHANGED <<hits, failures, blocked, admitted, failed>>

(* AuthFailThrottleMiddleware: is_blocked().  A blocked request gets its   *)
(* 429 here and changes nothing.                                           *)
Enter(r) ==
    /\ pc[r] = "idle"
    /\ blocked[SourceOf[r]] = 0
    /\ Moved(r, "inside")
    /\ UNCHANGED <<hits, failures, blocked, admitted, failed>>

(* The answer is neither 401 nor the limiter's: the body is too large, the *)
(* account is disabled, the database is away.                              *)
Leave(r) ==
    /\ pc[r] = "inside"
    /\ Moved(r, "idle")
    /\ UNCHANGED <<hits, failures, blocked, admitted, failed>>

(* A faulty Arrive, for LimiterIsExact: refused arrivals are counted too.  *)
Arrive_CountsRefused(r, k) ==
    /\ pc[r] = "inside"
    /\ Moved(r, "idle")
    /\ hits' = [hits EXCEPT ![k] = Append(Recent(@, RateWindow), 0)]
    /\ admitted' = [admitted EXCEPT ![k] =
                        IF Len(Recent(hits[k], RateWindow)) < MaxRequests
                          THEN Append(@, 0) ELSE @]
    /\ UNCHANGED <<failures, blocked, failed>>

(* Authenticated with key k: RateLimiter.allow(k) lets it in or refuses it *)
(* with 429.  What the handler does then is none of these controls' matter.*)
Arrive(r, k) ==
    LET kept == Recent(hits[k], RateWindow)
        allowed == Len(kept) < MaxRequests
    IN  /\ pc[r] = "inside"
        /\ Moved(r, "idle")
        /\ hits' = [hits EXCEPT ![k] = IF allowed THEN Append(kept, 0) ELSE kept]
        /\ admitted' = [admitted EXCEPT ![k] = IF allowed THEN Append(@, 0) ELSE @]
        /\ UNCHANGED <<failures, blocked, failed>>

(* get_auth_context raises 401; the response starts its way back through   *)
(* the middlewares.                                                        *)
Deny(r) ==
    /\ pc[r] = "inside"
    /\ Moved(r, "unauthenticated")
    /\ UNCHANGED <<hits, failures, blocked, admitted, failed>>

(* Two faulty forms of RecordFailure: one failure more is needed (for      *)
(* GuessesLimited), the failures are not cleared (for TypeOK).             *)
RecordFailure_OneMore(r) ==
    LET s == SourceOf[r]
        kept == Recent(Append(failures[s], 0), FailWindow)
    IN  /\ pc[r] = "unauthenticated"
        /\ Moved(r, "idle")
        /\ IF Len(kept) > Threshold
             THEN /\ blocked' = [blocked EXCEPT ![s] = BlockTime]
                  /\ failures' = [failures EXCEPT ![s] = <<>>]
             ELSE /\ failures' = [failures EXCEPT ![s] = kept]
                  /\ UNCHANGED blocked
        /\ failed' = [failed EXCEPT ![s] = Append(@, 0)]
        /\ UNCHANGED <<hits, admitted>>

RecordFailure_NoClear(r) ==
    LET s == SourceOf[r]
        kept == Recent(Append(failures[s], 0), FailWindow)
    IN  /\ pc[r] = "unauthenticated"
        /\ Moved(r, "idle")
        /\ failures' = [failures EXCEPT ![s] = kept]
        /\ blocked' = [blocked EXCEPT ![s] =
                           IF Len(kept) >= Threshold THEN BlockTime ELSE @]
        /\ failed' = [failed EXCEPT ![s] = Append(@, 0)]
        /\ UNCHANGED <<hits, admitted>>

(* record_failure(): also while the source is already blocked.             *)
RecordFailure(r) ==
    LET s == SourceOf[r]
        kept == Recent(Append(failures[s], 0), FailWindow)
        full == Len(kept) >= Threshold
    IN  /\ pc[r] = "unauthenticated"
        /\ Moved(r, "idle")
        /\ failures' = [failures EXCEPT ![s] = IF full THEN <<>> ELSE kept]
        /\ blocked' = [blocked EXCEPT ![s] = IF full THEN BlockTime ELSE @]
        /\ failed' = [failed EXCEPT ![s] = Append(@, 0)]
        /\ UNCHANGED <<hits, admitted>>

(* The clock: everything is one tick older.                                *)
Older(ages, most) ==
    [i \in DOMAIN ages |-> IF ages[i] < most THEN ages[i] + 1 ELSE most]

Tick ==
    /\ hits' = [k \in Keys |-> Older(hits[k], RateWindow + 1)]
    /\ failures' = [s \in Sources |-> Older(failures[s], FailWindow + 1)]
    /\ blocked' = [s \in Sources |-> IF blocked[s] > 0 THEN blocked[s] - 1 ELSE 0]
    /\ admitted' =
         [k \in Keys |-> Recent(Older(admitted[k], RateWindow + 1), RateWindow)]
    /\ failed' =
         [s \in Sources |-> Recent(Older(failed[s], GuessWindow + 1), GuessWindow)]
    /\ UNCHANGED pc

Next ==
    \/ \E r \in Requests :
          \/ Enter(r)
          \/ Leave(r)
          \/ \E k \in Keys : Arrive(r, k)
          \/ Deny(r)
          \/ RecordFailure(r)
    \/ Tick

(* Time passes; nothing is assumed of the clients.                         *)
Spec == Init /\ [][Next]_vars /\ WF_vars(Tick)

-----------------------------------------------------------------------------
(* "this limits request ARRIVALS": in no window of RateWindow does a key   *)
(* get more than MaxRequests arrivals in, and the arrivals refused do not  *)
(* count against it: the limiter holds exactly those it has let in.        *)
LimiterIsExact ==
    \A k \in Keys :
        /\ Len(admitted[k]) <= MaxRequests
        /\ Recent(hits[k], RateWindow) = admitted[k]

(* "Blocks a source after too many authentication failures in a window":   *)
(* in any window that is shorter than a block, a source fails at most      *)
(* Threshold times before the block, and after it only with the requests   *)
(* it already had inside.                                                  *)
GuessesLimited ==
    \A s \in Sources :
        Len(failed[s]) <=
            Threshold - 1 + Cardinality({r \in Requests : SourceOf[r] = s})

(* A block ends however often the blocked source tries again: only the     *)
(* requests inside at its beginning can prolong it.                        *)
BlocksEnd == \A s \in Sources : blocked[s] > 0 ~> blocked[s] = 0
==============================================================================
