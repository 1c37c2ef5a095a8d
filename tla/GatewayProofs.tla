---------------------------- MODULE GatewayProofs -----------------------------
(***************************************************************************)
(* Theorems about Gateway, for any requests, users, cancel calls, limits   *)
(* and number of crashes.                                                  *)
(***************************************************************************)
EXTENDS Gateway, TLAPS

G == INSTANCE SchedulerProofs

(* Where the handler of q stands in the scheduler, and what the recorder   *)
(* was called with.                                                        *)
Place(q) ==
    /\ at[q] \in {"new", "creating", "marking_queued", "lost"} => pc[q] = "idle"
    /\ at[q] = "waiting" => pc[q] = "queued"
    /\ at[q] \in {"marking_running", "calling"} => pc[q] = "holding"
    /\ at[q] \in {"recording", "rec_writing"} =>
          /\ \/ outcome[q].by = "proxy" /\ pc[q] = "holding"
             \/ outcome[q].by = "relay" /\ pc[q] = "released"
             \/ /\ outcome[q].by = "handler" /\ outcome[q].status = "CANCELLED"
                /\ pc[q] \in {"cancelled", "released"}
          /\ outcome[q].status \in {"COMPLETED", "CANCELLED", "FAILED"}
    /\ at[q] = "relaying" => pc[q] = "released"
    /\ at[q] = "marking_rejected" => pc[q] = "rejected"
    /\ at[q] = "marking_timeout" => pc[q] = "timed_out"
    /\ at[q] = "done" => pc[q] \notin {"queued", "holding"}

(* The registry and the watchers hold tasks that have begun and that a     *)
(* crash has not taken; a cancellation is under way only for live ones, of *)
(* which a dead process has none.                                          *)
Tasks(q) ==
    /\ ~up => at[q] \in {"new", "done", "lost"}
    /\ at[q] \in {"marking_queued", "waiting", "marking_running", "calling"} =>
          q \in registry
    /\ q \in registry \cup watching => at[q] \notin {"new", "creating", "lost"}
    /\ q \in interrupted => at[q] \notin {"new", "creating", "lost", "done"}
    /\ at[q] \in {"new", "creating"} => row[q] = NoRow

(* The row of a request that is over.                                      *)
EndRow(q) ==
    /\ at[q] = "done" /\ q \notin unrecorded => row[q].status \in Terminal
    /\ up /\ at[q] = "lost" => row[q].status \notin {"QUEUED", "RUNNING"}

Untargeted(q) == \A c \in CancelCalls : call[c].target # q

(* The row of a live request that no cancel call is about follows its      *)
(* handler; after a CancelledError inside the block anything from QUEUED   *)
(* on may stand there.                                                     *)
LiveRow(q) ==
    LET s == row[q].status
    IN  /\ at[q] = "marking_queued" => s = "RECEIVED"
        /\ at[q] \in {"waiting", "marking_running", "marking_rejected",
                      "marking_timeout"} => s = "QUEUED"
        /\ at[q] \in {"calling", "relaying"} => s = "RUNNING"
        /\ at[q] \in {"recording", "rec_writing"} =>
              IF outcome[q].by = "handler"
                THEN /\ s \notin {"none", "RECEIVED"}
                     /\ at[q] = "rec_writing" => s \in {"QUEUED", "RUNNING"}
                ELSE s = "RUNNING"

(* A task that was signalled by a cancel call cannot reach the backend: a  *)
(* CancelledError is on its way, or it has passed the call for good.       *)
Doomed(q) ==
    \/ q \in interrupted
    \/ at[q] = "waiting" /\ q \in cancel_requested
    \/ at[q] \in {"recording", "rec_writing", "relaying", "marking_rejected",
                  "marking_timeout", "done", "lost"}

Calls(q) ==
    \A c \in CancelCalls : call[c].target = q =>
        /\ call[c].at \in {"committing", "signalling", "ok"} =>
              at[q] \notin {"new", "creating"}
        /\ call[c].at = "ok" => Doomed(q)

Local(q) ==
    /\ Place(q)
    /\ Tasks(q)
    /\ EndRow(q)
    /\ Untargeted(q) => LiveRow(q)
    /\ Calls(q)

GatewayInv == G!Inv /\ JobTypeOK /\ \A q \in Requests : Local(q)

-----------------------------------------------------------------------------
(* What the scheduler's own steps do, from the proofs about Scheduler.     *)
LEMMA Constants ==
  /\ UserOf \in [Requests -> Users]
  /\ Priorities \subseteq Int
  /\ Policies \subseteq [ceiling : Int, per_user : Int]
  /\ InitialPolicy \in [ceiling : Int, per_user : Int]
  /\ QueueMaxDepth \in Int
BY GatewayAssumption

LEMMA SchedulerTyped == G!Inv => S!TypeOK
BY DEF G!Inv, G!TypeOK, S!TypeOK, G!Pc, S!Pc

LEMMA RejectStep ==
  ASSUME G!Inv, NEW r \in Requests, S!RejectFull(r)
  PROVE  /\ G!Inv' /\ UNCHANGED cancel_requested
         /\ pc[r] = "idle" /\ pc' = [pc EXCEPT ![r] = "rejected"]
<1>1. G!RejectFull(r)
  BY DEF S!RejectFull, G!RejectFull, S!Cardinality, G!Cardinality
<1>2. G!Inv'
  BY <1>1, Constants, G!RejectFullInv
<1>. QED  BY <1>2 DEF S!RejectFull

LEMMA AdmitStep ==
  ASSUME G!Inv, NEW r \in Requests, NEW p \in Priorities, S!Admit(r, p)
  PROVE  /\ G!Inv' /\ UNCHANGED cancel_requested
         /\ pc[r] = "idle"
         /\ \E place \in {"holding", "queued"} : pc' = [pc EXCEPT ![r] = place]
<1>1. G!Admit(r, p)
  BY DEF S!Admit, G!Admit, S!NotifyAll, G!NotifyAll, S!TryPromote, G!TryPromote,
         S!IsPromoted, G!IsPromoted, S!Ahead, G!Ahead, S!OfUser, G!OfUser,
         S!Precedes, G!Precedes, S!Cardinality, G!Cardinality
<1>2. G!Inv'
  BY <1>1, Constants, G!AdmitInv
<1>. QED  BY <1>2 DEF S!Admit

LEMMA WakeUpStep ==
  ASSUME G!Inv, NEW r \in Requests, S!WakeUp(r)
  PROVE  /\ G!Inv' /\ UNCHANGED cancel_requested
         /\ pc[r] = "queued" /\ r \notin cancel_requested
         /\ \E place \in {"holding", "queued"} : pc' = [pc EXCEPT ![r] = place]
<1>1. G!WakeUp(r)
  BY DEF S!WakeUp, G!WakeUp
<1>2. G!Inv'
  BY <1>1, Constants, G!WakeUpInv
<1>3. pc[r] = "queued" /\ pc \in [Requests -> G!Pc]
  BY DEF S!WakeUp, G!Inv, G!Structure, G!TypeOK
<1>4. pc = [pc EXCEPT ![r] = "queued"]
  BY <1>3
<1>. QED  BY <1>2, <1>3, <1>4 DEF S!WakeUp

LEMMA TimeoutStep ==
  ASSUME G!Inv, NEW r \in Requests, S!QueueTimeout(r)
  PROVE  /\ G!Inv' /\ UNCHANGED cancel_requested
         /\ pc[r] = "queued" /\ r \notin cancel_requested
         /\ \E place \in {"holding", "timed_out"} : pc' = [pc EXCEPT ![r] = place]
<1>1. G!QueueTimeout(r)
  BY DEF S!QueueTimeout, G!QueueTimeout
<1>2. G!Inv'
  BY <1>1, Constants, G!QueueTimeoutInv
<1>. QED  BY <1>2 DEF S!QueueTimeout

LEMMA CancelStep ==
  ASSUME G!Inv, NEW r \in Requests, S!Cancel(r)
  PROVE  /\ G!Inv' /\ UNCHANGED pc
         /\ cancel_requested' = cancel_requested \cup {r}
<1>1. G!Cancel(r)
  BY DEF S!Cancel, G!Cancel
<1>2. G!Inv'
  BY <1>1, Constants, G!CancelInv
<1>. QED  BY <1>2 DEF S!Cancel

LEMMA CancelQueuedStep ==
  ASSUME G!Inv, NEW r \in Requests, S!CancelQueued(r)
  PROVE  /\ G!Inv'
         /\ cancel_requested' = cancel_requested \ {r}
         /\ pc[r] = "queued" /\ pc' = [pc EXCEPT ![r] = "cancelled"]
<1>1. G!CancelQueued(r)
  BY DEF S!CancelQueued, G!CancelQueued, S!NotifyAll, G!NotifyAll, S!TryPromote,
         G!TryPromote, S!IsPromoted, G!IsPromoted, S!Ahead, G!Ahead, S!OfUser,
         G!OfUser, S!Precedes, G!Precedes, S!Cardinality, G!Cardinality
<1>2. G!Inv'
  BY <1>1, Constants, G!CancelWaitingInv, G!CancelGrantedInv
<1>. QED  BY <1>2 DEF S!CancelQueued

LEMMA ReleaseStep ==
  ASSUME G!Inv, NEW r \in Requests, S!Release(r)
  PROVE  /\ G!Inv' /\ UNCHANGED cancel_requested
         /\ pc[r] = "holding" /\ pc' = [pc EXCEPT ![r] = "released"]
<1>1. G!Release(r)
  BY DEF S!Release, G!Release, S!NotifyAll, G!NotifyAll, S!TryPromote,
         G!TryPromote, S!IsPromoted, G!IsPromoted, S!Ahead, G!Ahead, S!OfUser,
         G!OfUser, S!Precedes, G!Precedes, S!Cardinality, G!Cardinality
<1>2. G!Inv'
  BY <1>1, Constants, G!ReleaseInv
<1>. QED  BY <1>2 DEF S!Release

LEMMA PolicyStep ==
  ASSUME G!Inv, NEW p \in Policies, S!ApplyPolicy(p)
  PROVE  G!Inv' /\ UNCHANGED <<pc, cancel_requested>>
<1>1. G!ApplyPolicy(p)
  BY DEF S!ApplyPolicy, G!ApplyPolicy
<1>2. G!Inv'
  BY <1>1, Constants, G!ApplyPolicyInv
<1>. QED  BY <1>2 DEF S!ApplyPolicy

LEMMA QuietStep ==
  ASSUME G!Inv, UNCHANGED schedVars
  PROVE  G!Inv' /\ UNCHANGED <<pc, cancel_requested>>
<1>1. G!vars' = G!vars
  BY DEF schedVars, G!vars
<1>2. G!Inv'
  BY <1>1, Constants, G!NextInv
<1>. QED  BY <1>2 DEF schedVars

(* A process that boots begins with a scheduler in its initial state.      *)
LEMMA FreshScheduler == G!Init => G!Inv
BY Constants, G!InitInv

LEMMA BootStep ==
  ASSUME NewScheduler
  PROVE  G!Inv'
<1>1. G!Init' => G!Inv'
  BY FreshScheduler, PTL
<1>2. G!Init'
  BY DEF NewScheduler, G!Init
<1>. QED  BY <1>1, <1>2

-----------------------------------------------------------------------------
(* A step of one request leaves the others alone.                          *)
Untouched(q) ==
    /\ at'[q] = at[q] /\ pc'[q] = pc[q]
    /\ row'[q] = row[q] /\ outcome'[q] = outcome[q]
    /\ q \in registry' <=> q \in registry
    /\ q \in watching' <=> q \in watching
    /\ q \in interrupted' <=> q \in interrupted
    /\ q \in unrecorded' <=> q \in unrecorded
    /\ q \in cancel_requested' <=> q \in cancel_requested

StepOf(r) ==
    /\ G!Inv' /\ JobTypeOK' /\ Local(r)'
    /\ \A q \in Requests \ {r} : Untouched(q)
    /\ UNCHANGED <<call, up>>

LEMMA Frame ==
  ASSUME NEW q \in Requests, Local(q), Untouched(q), UNCHANGED <<call, up>>
  PROVE  Local(q)'
BY DEF Local, Untouched, Place, Tasks, EndRow, Untargeted, LiveRow, Calls, Doomed

LEMMA StepPreserves ==
  ASSUME GatewayInv, NEW r \in Requests, StepOf(r)
  PROVE  GatewayInv'
<1>1. ASSUME NEW q \in Requests PROVE Local(q)'
  <2>1. CASE q = r
    BY <2>1 DEF StepOf
  <2>2. CASE q # r
    BY <2>2, Frame DEF StepOf, GatewayInv
  <2>. QED  BY <2>1, <2>2
<1>. QED  BY <1>1 DEF StepOf, GatewayInv

Rows == [status : Terminal \cup Cancellable \cup {"none"}, error : Errors]

LEMMA WrittenRow ==
  ASSUME JobTypeOK, NEW r \in Requests
  PROVE  /\ Written(r) \in Rows
         /\ at[r] = "creating" => Written(r).status = "RECEIVED"
         /\ at[r] = "marking_queued" => Written(r).status = "QUEUED"
         /\ at[r] = "marking_running" => Written(r).status = "RUNNING"
         /\ at[r] = "marking_rejected" => Written(r).status = "REJECTED"
         /\ at[r] = "marking_timeout" => Written(r).status = "FAILED"
         /\ at[r] = "rec_writing" => Written(r).status = outcome[r].status
         /\ at[r] \notin {"creating", "marking_queued", "marking_running",
                          "marking_rejected", "marking_timeout", "rec_writing"} =>
               Written(r) = row[r]
<1>1. /\ row[r] \in Rows
      /\ outcome[r].status \in Terminal \cup {"none"} /\ outcome[r].error \in Errors
  BY DEF JobTypeOK, Rows
<1>. QED
  BY <1>1 DEF Written, Rows, Row, Terminal, Cancellable, Errors, Failures

LEMMA CommitRow ==
  ASSUME JobTypeOK, NEW r \in Requests, MayCommit(r)
  PROVE  /\ row' \in [Requests -> Rows]
         /\ \A q \in Requests \ {r} : row'[q] = row[q]
         /\ row'[r] \in {row[r], Written(r)}
<1>1. row \in [Requests -> Rows] /\ Written(r) \in Rows
  BY WrittenRow DEF JobTypeOK, Rows
<1>. QED  BY <1>1 DEF MayCommit, Commit

-----------------------------------------------------------------------------
(* The steps of one request, one by one.                                   *)
LEMMA ArriveStep ==
  ASSUME GatewayInv, NEW r \in Requests, Arrive(r)
  PROVE  StepOf(r)
<1>. USE DEF Arrive
<1>1. G!Inv' /\ UNCHANGED <<pc, cancel_requested>>
  BY PolicyStep DEF GatewayInv
<1>2. JobTypeOK' /\ at'[r] = "creating" /\ \A q \in Requests \ {r} : Untouched(q)
  BY <1>1 DEF GatewayInv, JobTypeOK, Goto, Untouched, At
<1>3. Local(r)'
  BY <1>1, <1>2 DEF GatewayInv, Local, Place, Tasks, EndRow, Untargeted, LiveRow,
                    Calls, Doomed
<1>. QED  BY <1>1, <1>2, <1>3 DEF StepOf

LEMMA CreatedStep ==
  ASSUME GatewayInv, NEW r \in Requests, Created(r)
  PROVE  StepOf(r)
<1>. USE DEF Created
<1>1. G!Inv' /\ UNCHANGED <<pc, cancel_requested>>
  BY QuietStep DEF GatewayInv
<1>2. /\ row' \in [Requests -> Rows] /\ row'[r].status = "RECEIVED"
      /\ \A q \in Requests \ {r} : row'[q] = row[q]
  BY WrittenRow, CommitRow DEF GatewayInv, MayCommit, Commit, JobTypeOK
<1>3. /\ JobTypeOK' /\ at'[r] = "marking_queued"
      /\ \A q \in Requests \ {r} : Untouched(q)
  BY <1>1, <1>2 DEF GatewayInv, JobTypeOK, Rows, Goto, Untouched, At
<1>4. Local(r)'
  BY <1>1, <1>2, <1>3 DEF GatewayInv, Local, Place, Tasks, EndRow, Untargeted,
                          LiveRow, Calls, Doomed
<1>. QED  BY <1>1, <1>3, <1>4 DEF StepOf

LEMMA DispatchStep ==
  ASSUME GatewayInv, NEW r \in Requests, Dispatch(r)
  PROVE  StepOf(r)
<1>. USE DEF Dispatch
<1>1. G!Inv' /\ UNCHANGED <<pc, cancel_requested>>
  BY QuietStep DEF GatewayInv
<1>2. /\ row' \in [Requests -> Rows] /\ row'[r].status = "RUNNING"
      /\ \A q \in Requests \ {r} : row'[q] = row[q]
  BY WrittenRow, CommitRow DEF GatewayInv, MayCommit, Commit, JobTypeOK
<1>3. /\ JobTypeOK' /\ at'[r] = "calling"
      /\ \A q \in Requests \ {r} : Untouched(q)
  BY <1>1, <1>2 DEF GatewayInv, JobTypeOK, Rows, Goto, Untouched, At
<1>4. Local(r)'
  BY <1>1, <1>2, <1>3 DEF GatewayInv, Local, Place, Tasks, EndRow, Untargeted,
                          LiveRow, Calls, Doomed
<1>. QED  BY <1>1, <1>3, <1>4 DEF StepOf

Outcomes == [status : Terminal \cup {"none"}, error : Errors,
             by : {"none", "proxy", "handler", "relay"}]

LEMMA RecordStep ==
  ASSUME JobTypeOK, NEW r \in Requests, NEW s \in Terminal, NEW e \in Errors,
         NEW by \in {"proxy", "handler", "relay"}, Record(r, s, e, by)
  PROVE  /\ at' \in [Requests -> At] /\ outcome' \in [Requests -> Outcomes]
         /\ at'[r] = "recording" /\ outcome'[r].by = by /\ outcome'[r].status = s
         /\ \A q \in Requests \ {r} : at'[q] = at[q] /\ outcome'[q] = outcome[q]
<1>1. [status |-> s, error |-> e, by |-> by] \in Outcomes
  BY DEF Outcomes
<1>2. /\ outcome \in [Requests -> Outcomes]
      /\ at \in [Requests -> At] /\ "recording" \in At
  BY DEF JobTypeOK, Outcomes, At
<1>. QED  BY <1>1, <1>2 DEF Record, Goto

LEMMA CallEndsStep ==
  ASSUME GatewayInv, NEW r \in Requests, CallEnds(r)
  PROVE  StepOf(r)
<1>1. G!Inv' /\ UNCHANGED <<pc, cancel_requested>>
  BY QuietStep DEF CallEnds, GatewayInv
<1>2. PICK s \in {"COMPLETED", "FAILED"}, e \in Failures \cup {"none"} :
         Record(r, s, e, "proxy")
  BY DEF CallEnds
<1>3. /\ at' \in [Requests -> At] /\ outcome' \in [Requests -> Outcomes]
      /\ at'[r] = "recording" /\ outcome'[r].by = "proxy" /\ outcome'[r].status = s
      /\ \A q \in Requests \ {r} : at'[q] = at[q] /\ outcome'[q] = outcome[q]
  BY <1>2, RecordStep, s \in Terminal, e \in Errors DEF GatewayInv, Terminal, Errors
<1>4. JobTypeOK' /\ \A q \in Requests \ {r} : Untouched(q)
  BY <1>1, <1>3 DEF CallEnds, GatewayInv, JobTypeOK, Outcomes, Untouched
<1>5. Local(r)'
  BY <1>1, <1>2, <1>3 DEF CallEnds, GatewayInv, Local, Place, Tasks, EndRow,
                          Untargeted, LiveRow, Calls, Doomed
<1>. QED  BY <1>1, <1>4, <1>5 DEF CallEnds, StepOf

LEMMA StreamStartsStep ==
  ASSUME GatewayInv, NEW r \in Requests, StreamStarts(r)
  PROVE  StepOf(r)
<1>. USE DEF StreamStarts
<1>1. G!Inv' /\ UNCHANGED cancel_requested
      /\ pc' = [pc EXCEPT ![r] = "released"] /\ pc \in [Requests -> G!Pc]
  BY ReleaseStep DEF GatewayInv, G!Inv, G!TypeOK
<1>2. row' = row
  OBVIOUS
<1>3. /\ JobTypeOK' /\ at'[r] = "relaying"
      /\ \A q \in Requests \ {r} : Untouched(q)
  BY <1>1, <1>2 DEF GatewayInv, JobTypeOK, Rows, Goto, Untouched, At
<1>4. Local(r)'
  BY <1>1, <1>2, <1>3 DEF GatewayInv, Local, Place, Tasks, EndRow, Untargeted,
                          LiveRow, Calls, Doomed
<1>. QED  BY <1>1, <1>3, <1>4 DEF StepOf

LEMMA RelayEndsStep ==
  ASSUME GatewayInv, NEW r \in Requests, RelayEnds(r)
  PROVE  StepOf(r)
<1>1. G!Inv' /\ UNCHANGED <<pc, cancel_requested>>
  BY QuietStep DEF RelayEnds, GatewayInv
<1>2. PICK s \in {"COMPLETED", "FAILED", "CANCELLED"},
            e \in {"none", "generation_timeout", "client_disconnect"} :
         Record(r, s, e, "relay")
  BY DEF RelayEnds
<1>3. /\ at' \in [Requests -> At] /\ outcome' \in [Requests -> Outcomes]
      /\ at'[r] = "recording" /\ outcome'[r].by = "relay" /\ outcome'[r].status = s
      /\ \A q \in Requests \ {r} : at'[q] = at[q] /\ outcome'[q] = outcome[q]
  BY <1>2, RecordStep, s \in Terminal, e \in Errors DEF GatewayInv, Terminal, Errors
<1>4. JobTypeOK' /\ \A q \in Requests \ {r} : Untouched(q)
  BY <1>1, <1>3 DEF RelayEnds, GatewayInv, JobTypeOK, Outcomes, Untouched
<1>5. Local(r)'
  BY <1>1, <1>2, <1>3 DEF RelayEnds, GatewayInv, Local, Place, Tasks, EndRow,
                          Untargeted, LiveRow, Calls, Doomed
<1>. QED  BY <1>1, <1>4, <1>5 DEF RelayEnds, StepOf

LEMMA DisconnectStep ==
  ASSUME GatewayInv, NEW r \in Requests, Disconnect(r)
  PROVE  StepOf(r)
<1>. USE DEF Disconnect
<1>1. G!Inv' /\ UNCHANGED <<pc, cancel_requested>>
  BY QuietStep DEF GatewayInv
<1>2. row' = row
  OBVIOUS
<1>3. /\ JobTypeOK' /\ UNCHANGED <<at, outcome>>
      /\ \A q \in Requests \ {r} : Untouched(q)
  BY <1>1, <1>2 DEF GatewayInv, JobTypeOK, Rows, Goto, Untouched, At
<1>4. Local(r)'
  BY <1>1, <1>2, <1>3 DEF GatewayInv, Local, Place, Tasks, EndRow, Untargeted,
                          LiveRow, Calls, Doomed
<1>. QED  BY <1>1, <1>3, <1>4 DEF StepOf

LEMMA EnterQueueStep ==
  ASSUME GatewayInv, NEW r \in Requests, EnterQueue(r)
  PROVE  StepOf(r)
<1>. USE DEF EnterQueue
<1>1. /\ G!Inv' /\ UNCHANGED cancel_requested /\ pc \in [Requests -> G!Pc]
      /\ \/ /\ at' = [at EXCEPT ![r] = "marking_rejected"]
            /\ pc' = [pc EXCEPT ![r] = "rejected"]
         \/ /\ at' = [at EXCEPT ![r] = "marking_running"]
            /\ pc' = [pc EXCEPT ![r] = "holding"]
         \/ /\ at' = [at EXCEPT ![r] = "waiting"]
            /\ pc' = [pc EXCEPT ![r] = "queued"]
  <2>1. G!Inv /\ pc \in [Requests -> G!Pc]
    BY DEF GatewayInv, G!Inv, G!TypeOK
  <2>2. CASE S!RejectFull(r) /\ Goto(r, "marking_rejected")
    BY <2>1, <2>2, RejectStep DEF Goto
  <2>3. CASE /\ \E p \in Priorities : S!Admit(r, p)
             /\ Goto(r, IF pc'[r] = "holding" THEN "marking_running" ELSE "waiting")
    <3>1. PICK place \in {"holding", "queued"} :
             G!Inv' /\ UNCHANGED cancel_requested /\ pc' = [pc EXCEPT ![r] = place]
      BY <2>1, <2>3, AdmitStep
    <3>. QED  BY <2>1, <2>3, <3>1 DEF Goto
  <2>. QED  BY <2>2, <2>3
<1>2. /\ row' \in [Requests -> Rows] /\ row'[r].status = "QUEUED"
      /\ \A q \in Requests \ {r} : row'[q] = row[q]
  BY WrittenRow, CommitRow DEF GatewayInv, MayCommit, Commit, JobTypeOK
<1>3. JobTypeOK' /\ \A q \in Requests \ {r} : Untouched(q)
  BY <1>1, <1>2 DEF GatewayInv, JobTypeOK, Rows, Untouched, At
<1>4. Local(r)'
  BY <1>1, <1>2, <1>3 DEF GatewayInv, JobTypeOK, Local, Place, Tasks, EndRow,
                          Untargeted, LiveRow, Calls, Doomed
<1>. QED  BY <1>1, <1>3, <1>4 DEF StepOf

LEMMA WakeStep ==
  ASSUME GatewayInv, NEW r \in Requests, Wake(r)
  PROVE  StepOf(r)
<1>. USE DEF Wake
<1>1. PICK place \in {"holding", "queued"} :
         /\ G!Inv' /\ UNCHANGED cancel_requested /\ r \notin cancel_requested
         /\ pc' = [pc EXCEPT ![r] = place] /\ pc \in [Requests -> G!Pc]
  BY WakeUpStep DEF GatewayInv, G!Inv, G!TypeOK
<1>2. at' = [at EXCEPT ![r] = IF place = "holding" THEN "marking_running" ELSE "waiting"]
  BY <1>1 DEF Goto
<1>3. JobTypeOK' /\ \A q \in Requests \ {r} : Untouched(q)
  BY <1>1, <1>2 DEF GatewayInv, JobTypeOK, Untouched, At
<1>4. Local(r)'
  BY <1>1, <1>2, <1>3 DEF GatewayInv, JobTypeOK, Local, Place, Tasks, EndRow,
                          Untargeted, LiveRow, Calls, Doomed
<1>. QED  BY <1>1, <1>3, <1>4 DEF StepOf

LEMMA TimeoutOfStep ==
  ASSUME GatewayInv, NEW r \in Requests, Timeout(r)
  PROVE  StepOf(r)
<1>. USE DEF Timeout
<1>1. PICK place \in {"holding", "timed_out"} :
         /\ G!Inv' /\ UNCHANGED cancel_requested /\ r \notin cancel_requested
         /\ pc' = [pc EXCEPT ![r] = place] /\ pc \in [Requests -> G!Pc]
  BY TimeoutStep DEF GatewayInv, G!Inv, G!TypeOK
<1>2. at' = [at EXCEPT ![r] = IF place = "holding" THEN "marking_running"
                                                   ELSE "marking_timeout"]
  BY <1>1 DEF Goto
<1>3. JobTypeOK' /\ \A q \in Requests \ {r} : Untouched(q)
  BY <1>1, <1>2 DEF GatewayInv, JobTypeOK, Untouched, At
<1>4. Local(r)'
  BY <1>1, <1>2, <1>3 DEF GatewayInv, JobTypeOK, Local, Place, Tasks, EndRow,
                          Untargeted, LiveRow, Calls, Doomed
<1>. QED  BY <1>1, <1>3, <1>4 DEF StepOf

(* A task cancelled in the queue or in the block: the except clause records*)
(* CANCELLED, at the latest when the handler's own write is done.          *)
LEMMA CancelledWaitingStep ==
  ASSUME GatewayInv, NEW r \in Requests, CancelledWaiting(r)
  PROVE  StepOf(r)
<1>1. /\ G!Inv' /\ cancel_requested' = cancel_requested \ {r}
      /\ pc' = [pc EXCEPT ![r] = "cancelled"] /\ pc \in [Requests -> G!Pc]
  BY CancelQueuedStep DEF CancelledWaiting, GatewayInv, G!Inv, G!TypeOK
<1>2. /\ at' \in [Requests -> At] /\ outcome' \in [Requests -> Outcomes]
      /\ at'[r] = "recording" /\ outcome'[r].by = "handler"
      /\ outcome'[r].status = "CANCELLED"
      /\ \A q \in Requests \ {r} : at'[q] = at[q] /\ outcome'[q] = outcome[q]
  BY RecordStep DEF CancelledWaiting, GatewayInv, Terminal, Errors
<1>3. JobTypeOK' /\ \A q \in Requests \ {r} : Untouched(q)
  BY <1>1, <1>2 DEF CancelledWaiting, GatewayInv, JobTypeOK, Outcomes, Untouched
<1>4. Local(r)'
  BY <1>1, <1>2 DEF CancelledWaiting, GatewayInv, Local, Place, Tasks, EndRow,
                    Untargeted, LiveRow, Calls, Doomed
<1>. QED  BY <1>1, <1>3, <1>4 DEF CancelledWaiting, StepOf

LEMMA CancelledHoldingStep ==
  ASSUME GatewayInv, NEW r \in Requests, CancelledHolding(r)
  PROVE  StepOf(r)
<1>1. /\ G!Inv' /\ UNCHANGED cancel_requested
      /\ pc' = [pc EXCEPT ![r] = "released"] /\ pc \in [Requests -> G!Pc]
  BY ReleaseStep DEF CancelledHolding, GatewayInv, G!Inv, G!TypeOK
<1>2. /\ at' \in [Requests -> At] /\ outcome' \in [Requests -> Outcomes]
      /\ at'[r] = "recording" /\ outcome'[r].by = "handler"
      /\ outcome'[r].status = "CANCELLED"
      /\ \A q \in Requests \ {r} : at'[q] = at[q] /\ outcome'[q] = outcome[q]
  BY RecordStep DEF CancelledHolding, GatewayInv, Terminal, Errors
<1>3. /\ row' \in [Requests -> Rows]
      /\ \A q \in Requests \ {r} : row'[q] = row[q]
      /\ row'[r] \in {row[r], Written(r)}
  BY CommitRow DEF CancelledHolding, GatewayInv
<1>4. JobTypeOK' /\ \A q \in Requests \ {r} : Untouched(q)
  BY <1>1, <1>2, <1>3 DEF CancelledHolding, GatewayInv, JobTypeOK, Outcomes, Rows,
                          Untouched
<1>5. at[r] \in {"marking_running", "calling", "recording", "rec_writing"}
  BY DEF CancelledHolding, GatewayInv, JobTypeOK, At, Local, Place
<1>6. Untargeted(r) => row'[r].status \notin {"none", "RECEIVED"}
  BY <1>3, <1>5, WrittenRow DEF GatewayInv, Local, LiveRow, Place
<1>7. Local(r)'
  BY <1>1, <1>2, <1>5, <1>6
     DEF CancelledHolding, GatewayInv, Local, Place, Tasks, EndRow, Untargeted,
         LiveRow, Calls, Doomed
<1>. QED  BY <1>1, <1>4, <1>7 DEF CancelledHolding, StepOf

-----------------------------------------------------------------------------
(* The ends of a handler.                                                  *)
LEMMA LeaveBlockStep ==
  ASSUME GatewayInv, NEW r \in Requests, LeaveBlock(r),
         at[r] # "waiting"
  PROVE  /\ G!Inv' /\ UNCHANGED cancel_requested
         /\ pc'[r] \notin {"queued", "holding"}
         /\ \A q \in Requests \ {r} : pc'[q] = pc[q]
<1>1. G!Inv /\ pc \in [Requests -> G!Pc]
  BY DEF GatewayInv, G!Inv, G!TypeOK
<1>2. CASE pc[r] = "holding"
  BY <1>1, <1>2, ReleaseStep DEF LeaveBlock
<1>3. CASE pc[r] # "holding"
  <2>1. G!Inv' /\ UNCHANGED <<pc, cancel_requested>>
    BY <1>1, <1>3, QuietStep DEF LeaveBlock
  <2>2. pc[r] # "queued"
    BY DEF GatewayInv, JobTypeOK, At, Local, Place
  <2>. QED  BY <1>3, <2>1, <2>2
<1>. QED  BY <1>2, <1>3

LEMMA EndStep ==
  ASSUME GatewayInv, NEW r \in Requests, LeaveBlock(r),
         at[r] \notin {"waiting", "new"},
         Goto(r, "done"),
         outcome' = [outcome EXCEPT ![r] = NoOutcome],
         registry' \in {registry, registry \ {r}},
         watching' = watching \ {r},
         interrupted' = interrupted \ {r},
         unrecorded' \in {unrecorded, unrecorded \cup {r}},
         row' \in [Requests -> Rows],
         \A q \in Requests \ {r} : row'[q] = row[q],
         r \notin unrecorded' => row'[r].status \in Terminal,
         UNCHANGED <<gone, call, up, crashes>>
  PROVE  StepOf(r)
<1>1. /\ G!Inv' /\ UNCHANGED cancel_requested
      /\ pc'[r] \notin {"queued", "holding"}
      /\ \A q \in Requests \ {r} : pc'[q] = pc[q]
  BY LeaveBlockStep
<1>2. NoOutcome \in Outcomes
  BY DEF NoOutcome, Outcomes, Errors
<1>3. JobTypeOK' /\ at'[r] = "done" /\ \A q \in Requests \ {r} : Untouched(q)
  BY <1>1, <1>2 DEF GatewayInv, JobTypeOK, Outcomes, Rows, Goto, At, Untouched
<1>4. Local(r)'
  BY <1>1, <1>3 DEF GatewayInv, Local, Place, Tasks, EndRow, Untargeted, LiveRow,
                    Calls, Doomed
<1>. QED  BY <1>1, <1>3, <1>4 DEF StepOf

LEMMA RefusedStep ==
  ASSUME GatewayInv, NEW r \in Requests, Refused(r)
  PROVE  StepOf(r)
<1>1. /\ row' \in [Requests -> Rows]
      /\ row'[r].status \in Terminal
      /\ \A q \in Requests \ {r} : row'[q] = row[q]
  BY WrittenRow, CommitRow
     DEF Refused, GatewayInv, MayCommit, Commit, JobTypeOK, Terminal
<1>2. interrupted' = interrupted \ {r}
  BY DEF Refused
<1>. QED  BY <1>1, <1>2, EndStep DEF Refused, Finish

LEMMA RecorderReadsStep ==
  ASSUME GatewayInv, NEW r \in Requests, RecorderReads(r)
  PROVE  StepOf(r)
<1>. USE DEF RecorderReads
<1>1. CASE row[r].status \in Terminal
  <2>1. row' = row /\ row \in [Requests -> Rows] /\ interrupted' = interrupted \ {r}
    BY DEF GatewayInv, JobTypeOK, Rows
  <2>. QED  BY <1>1, <2>1, EndStep DEF Finish
<1>2. CASE row[r].status \notin Terminal
  <2>1. G!Inv' /\ UNCHANGED <<pc, cancel_requested>>
    BY <1>2, QuietStep DEF GatewayInv
  <2>2. /\ JobTypeOK' /\ at'[r] = "rec_writing" /\ row' = row
        /\ \A q \in Requests \ {r} : Untouched(q)
    BY <1>2, <2>1 DEF GatewayInv, JobTypeOK, Goto, At, Untouched
  <2>3. Untargeted(r) => row[r].status \in {"QUEUED", "RUNNING"}
    BY <1>2 DEF GatewayInv, JobTypeOK, Local, LiveRow, Cancellable
  <2>4. Local(r)'
    BY <1>2, <2>1, <2>2, <2>3 DEF GatewayInv, Local, Place, Tasks, EndRow,
                                  Untargeted, LiveRow, Calls, Doomed
  <2>. QED  BY <1>2, <2>1, <2>2, <2>4 DEF StepOf
<1>. QED  BY <1>1, <1>2

LEMMA RecorderWritesStep ==
  ASSUME GatewayInv, NEW r \in Requests, RecorderWrites(r)
  PROVE  StepOf(r)
<1>1. outcome[r].status \in Terminal
  BY DEF RecorderWrites, GatewayInv, Local, Place, Terminal
<1>2. /\ row' \in [Requests -> Rows]
      /\ row'[r].status \in Terminal
      /\ \A q \in Requests \ {r} : row'[q] = row[q]
  BY <1>1, WrittenRow, CommitRow
     DEF RecorderWrites, GatewayInv, MayCommit, Commit, JobTypeOK
<1>3. interrupted' = interrupted \ {r}
  BY DEF RecorderWrites
<1>. QED  BY <1>2, <1>3, EndStep DEF RecorderWrites, Finish

(* An exception that nobody records.                                       *)
LEMMA AbandonStep ==
  ASSUME GatewayInv, NEW r \in Requests, Abandon(r), at[r] \notin {"new", "waiting"}
  PROVE  StepOf(r)
<1>1. /\ row' \in [Requests -> Rows]
      /\ \A q \in Requests \ {r} : row'[q] = row[q]
  BY CommitRow DEF Abandon, GatewayInv
<1>. QED  BY <1>1, EndStep DEF Abandon

LEMMA ExceptionStep ==
  ASSUME GatewayInv, NEW r \in Requests,
         CancelledUnrecorded(r) \/ DatabaseError(r) \/ Dropped(r)
  PROVE  StepOf(r)
<1>1. Abandon(r) /\ at[r] \notin {"new", "waiting"}
  BY DEF CancelledUnrecorded, DatabaseError, Dropped, GatewayInv, Local, Tasks
<1>. QED  BY <1>1, AbandonStep

(* task.cancel(): a live task is doomed from then on.                      *)
LEMMA TaskCancelStep ==
  ASSUME GatewayInv, NEW r \in Requests, TaskCancel(r)
  PROVE  /\ G!Inv' /\ UNCHANGED pc
         /\ \A q \in Requests \ {r} :
              /\ q \in interrupted' <=> q \in interrupted
              /\ q \in cancel_requested' <=> q \in cancel_requested
         /\ interrupted \subseteq interrupted' /\ interrupted' \subseteq Requests
         /\ cancel_requested \subseteq cancel_requested'
         /\ at[r] = "waiting" => r \in cancel_requested'
         /\ at[r] \notin {"waiting", "done"} => r \in interrupted'
         /\ r \in interrupted' => r \in interrupted \/ at[r] \notin {"waiting", "done"}
<1>0. G!Inv /\ interrupted \subseteq Requests
  BY DEF GatewayInv, JobTypeOK
<1>1. CASE at[r] = "waiting"
  BY <1>0, <1>1, CancelStep DEF TaskCancel
<1>2. CASE at[r] # "waiting"
  BY <1>0, <1>2, QuietStep DEF TaskCancel
<1>. QED  BY <1>1, <1>2

LEMMA WatcherFiresStep ==
  ASSUME GatewayInv, NEW r \in Requests, WatcherFires(r)
  PROVE  StepOf(r)
<1>1. /\ G!Inv' /\ UNCHANGED pc
      /\ \A q \in Requests \ {r} :
           /\ q \in interrupted' <=> q \in interrupted
           /\ q \in cancel_requested' <=> q \in cancel_requested
      /\ interrupted \subseteq interrupted' /\ interrupted' \subseteq Requests
      /\ cancel_requested \subseteq cancel_requested'
      /\ r \in interrupted' => r \in interrupted \/ at[r] \notin {"waiting", "done"}
  BY TaskCancelStep DEF WatcherFires
<1>2. JobTypeOK' /\ \A q \in Requests \ {r} : Untouched(q)
  BY <1>1 DEF WatcherFires, GatewayInv, JobTypeOK, Untouched
<1>3. Local(r)'
  BY <1>1 DEF WatcherFires, GatewayInv, Local, Place, Tasks, EndRow, Untargeted,
              LiveRow, Calls, Doomed
<1>. QED  BY <1>1, <1>2, <1>3 DEF WatcherFires, StepOf

LEMMA RequestStep ==
  ASSUME GatewayInv, NEW r \in Requests,
         \/ Progress(r) \/ Disconnect(r) \/ WatcherFires(r)
         \/ DatabaseError(r) \/ Dropped(r)
  PROVE  StepOf(r)
BY ArriveStep, CreatedStep, EnterQueueStep, WakeStep, TimeoutOfStep, RefusedStep,
   DispatchStep, CallEndsStep, StreamStartsStep, RelayEndsStep, RecorderReadsStep,
   RecorderWritesStep, CancelledWaitingStep, CancelledHoldingStep, ExceptionStep,
   DisconnectStep, WatcherFiresStep
   DEF Progress

-----------------------------------------------------------------------------
(* The cancel endpoints.                                                   *)
LEMMA CancelReadsStep ==
  ASSUME GatewayInv, NEW c \in CancelCalls, CancelReads(c)
  PROVE  GatewayInv'
<1>. USE DEF CancelReads, CallGoto
<1>1. G!Inv' /\ UNCHANGED <<pc, cancel_requested>>
  BY QuietStep DEF GatewayInv
<1>2. PICK place \in {"committing", "refused"} : call' = [call EXCEPT ![c].at = place]
  OBVIOUS
<1>3. JobTypeOK' /\ \A d \in CancelCalls : call'[d].target = call[d].target
  BY <1>2 DEF GatewayInv, JobTypeOK
<1>4. \A d \in CancelCalls \ {c} : call'[d] = call[d]
  BY <1>2 DEF GatewayInv, JobTypeOK
<1>5. call'[c].at \in {"committing", "refused"} /\ call[c].target \in Requests
  BY <1>2 DEF GatewayInv, JobTypeOK
<1>6. at[call[c].target] \notin {"new", "creating"}
  BY <1>5 DEF GatewayInv, Local, Tasks
<1>7. ASSUME NEW q \in Requests PROVE Local(q)'
  <2>1. Local(q) /\ (Untargeted(q)' <=> Untargeted(q))
    BY <1>3 DEF GatewayInv, Untargeted
  <2>2. Place(q)' /\ Tasks(q)' /\ EndRow(q)' /\ (Untargeted(q) => LiveRow(q)')
    BY <1>1, <2>1 DEF Local, Place, Tasks, EndRow, LiveRow
  <2>3. Calls(q)'
    BY <1>1, <1>3, <1>4, <1>5, <1>6, <2>1 DEF Local, Calls, Doomed
  <2>. QED  BY <2>1, <2>2, <2>3 DEF Local
<1>. QED  BY <1>1, <1>3, <1>7 DEF GatewayInv

LEMMA CancelWritesStep ==
  ASSUME GatewayInv, NEW c \in CancelCalls, CancelWrites(c)
  PROVE  GatewayInv'
<1>. USE DEF CancelWrites, CallGoto
<1>. DEFINE t == call[c].target
<1>1. G!Inv' /\ UNCHANGED <<pc, cancel_requested>>
  BY QuietStep DEF GatewayInv
<1>2. t \in Requests /\ at[t] \notin {"new", "creating"}
  BY DEF GatewayInv, JobTypeOK, Local, Calls
<1>3. /\ \A d \in CancelCalls : call'[d].target = call[d].target
      /\ \A d \in CancelCalls \ {c} : call'[d] = call[d]
      /\ call'[c].at = "signalling"
  BY DEF GatewayInv, JobTypeOK
<1>4. row'[t].status = "CANCELLED" /\ \A q \in Requests \ {t} : row'[q] = row[q]
  BY <1>2 DEF GatewayInv, JobTypeOK, Row
<1>5. JobTypeOK'
  <2>1. row' \in [Requests -> Rows]
    BY DEF GatewayInv, JobTypeOK, Rows, Row, Terminal, Errors
  <2>. QED  BY <2>1 DEF GatewayInv, JobTypeOK, Rows
<1>6. ASSUME NEW q \in Requests PROVE Local(q)'
  <2>1. Local(q) /\ (Untargeted(q)' <=> Untargeted(q))
    BY <1>3 DEF GatewayInv, Untargeted
  <2>2. Untargeted(q) => q # t
    BY DEF Untargeted
  <2>3. Place(q)' /\ Tasks(q)' /\ EndRow(q)' /\ (Untargeted(q) => LiveRow(q)')
    BY <1>1, <1>2, <1>4, <2>1, <2>2
       DEF Local, Place, Tasks, EndRow, LiveRow, Terminal
  <2>4. Calls(q)'
    BY <1>1, <1>3, <2>1 DEF Local, Calls, Doomed
  <2>. QED  BY <2>1, <2>3, <2>4 DEF Local
<1>. QED  BY <1>1, <1>5, <1>6 DEF GatewayInv

(* A target that is not in the registry has left the block for good.       *)
LEMMA CancelSignalsStep ==
  ASSUME GatewayInv, NEW c \in CancelCalls, CancelSignals(c)
  PROVE  GatewayInv'
<1>0. PICK t \in Requests : t = call[c].target
  BY DEF GatewayInv, JobTypeOK
<1>1. at[t] \in At \ {"new", "creating"}
  BY <1>0 DEF CancelSignals, GatewayInv, JobTypeOK, Local, Calls
<1>2. /\ G!Inv' /\ UNCHANGED pc
      /\ \A q \in Requests \ {t} :
           /\ q \in interrupted' <=> q \in interrupted
           /\ q \in cancel_requested' <=> q \in cancel_requested
      /\ interrupted \subseteq interrupted' /\ interrupted' \subseteq Requests
      /\ cancel_requested \subseteq cancel_requested'
      /\ t \in registry /\ at[t] = "waiting" => t \in cancel_requested'
      /\ t \in registry /\ at[t] \notin {"waiting", "done"} => t \in interrupted'
      /\ t \in interrupted' => t \in interrupted \/ (t \in registry /\ at[t] # "done")
  <2>1. CASE t \in registry
    <3>1. TaskCancel(t)
      BY <1>0, <2>1 DEF CancelSignals
    <3>. QED  BY <2>1, <3>1, TaskCancelStep
  <2>2. CASE t \notin registry
    BY <1>0, <2>2, QuietStep DEF CancelSignals, GatewayInv, JobTypeOK
  <2>. QED  BY <2>1, <2>2
<1>3. /\ \A d \in CancelCalls : call'[d].target = call[d].target
      /\ \A d \in CancelCalls \ {c} : call'[d] = call[d]
  BY DEF CancelSignals, CallGoto, GatewayInv, JobTypeOK
<1>4. /\ JobTypeOK'
      /\ UNCHANGED <<at, row, outcome, registry, watching, gone, up, unrecorded>>
  BY <1>2 DEF CancelSignals, CallGoto, GatewayInv, JobTypeOK
<1>5. Local(t)
  BY DEF GatewayInv
<1>6. Doomed(t)'
  BY <1>1, <1>2, <1>4, <1>5 DEF Local, Tasks, Doomed, At
<1>7. ASSUME NEW q \in Requests PROVE Local(q)'
  <2>1. Local(q) /\ (Untargeted(q)' <=> Untargeted(q))
    BY <1>3 DEF GatewayInv, Untargeted
  <2>2. Place(q)' /\ EndRow(q)' /\ (Untargeted(q) => LiveRow(q)')
    BY <1>2, <1>4, <2>1 DEF Local, Place, EndRow, LiveRow
  <2>3. Tasks(q)'
    BY <1>2, <1>4, <2>1 DEF Local, Tasks
  <2>4. Calls(q)'
    <3>1. CASE q = t
      BY <1>1, <1>4, <1>6, <3>1 DEF Calls, Doomed
    <3>2. CASE q # t
      BY <1>0, <1>2, <1>3, <1>4, <2>1, <3>2 DEF Local, Calls, Doomed
    <3>. QED  BY <3>1, <3>2
  <2>. QED  BY <2>1, <2>2, <2>3, <2>4 DEF Local
<1>. QED  BY <1>2, <1>4, <1>7 DEF GatewayInv

-----------------------------------------------------------------------------
(* A crash and the next boot.                                              *)
LEMMA CrashStep ==
  ASSUME GatewayInv, Crash
  PROVE  GatewayInv'
<1>. USE DEF Crash
<1>1. G!Inv' /\ \A q \in Requests : pc'[q] = "idle"
  BY BootStep DEF NewScheduler
<1>2. JobTypeOK'
  <2>1. outcome' \in [Requests -> Outcomes]
    BY DEF NoOutcome, Outcomes, Errors
  <2>2. crashes' \in 0..MaxCrashes
    BY GatewayAssumption DEF GatewayInv, JobTypeOK
  <2>3. at' \in [Requests -> At]
    BY DEF GatewayInv, JobTypeOK, At
  <2>4. call' \in [CancelCalls ->
                     [at : {"idle", "committing", "signalling", "ok", "refused", "lost"},
                      target : Requests]]
    BY DEF GatewayInv, JobTypeOK
  <2>. QED  BY <2>1, <2>2, <2>3, <2>4 DEF GatewayInv, JobTypeOK, Outcomes
<1>3. ASSUME NEW c \in CancelCalls
      PROVE  /\ call'[c].target = call[c].target
             /\ call'[c].at \in {"committing", "signalling", "ok"} =>
                   call[c].at = "ok" /\ call'[c].at = "ok"
  BY DEF GatewayInv, JobTypeOK
<1>4. ASSUME NEW q \in Requests PROVE Local(q)'
  <2>1. Local(q) /\ at[q] \in At
    BY DEF GatewayInv, JobTypeOK
  <2>2. at'[q] = IF at[q] \in {"new", "done"} THEN at[q] ELSE "lost"
    OBVIOUS
  <2>3. Place(q)' /\ Tasks(q)' /\ EndRow(q)'
    BY <1>1, <2>1, <2>2 DEF Local, Place, Tasks, EndRow
  <2>4. LiveRow(q)'
    BY <2>2 DEF LiveRow
  <2>5. Calls(q)'
    BY <1>3, <2>1, <2>2 DEF Local, Calls, Doomed
  <2>. QED  BY <2>3, <2>4, <2>5 DEF Local
<1>. QED  BY <1>1, <1>2, <1>4 DEF GatewayInv

LEMMA RestartStep ==
  ASSUME GatewayInv, Restart
  PROVE  GatewayInv'
<1>. USE DEF Restart
<1>1. G!Inv' /\ UNCHANGED <<pc, cancel_requested>>
  BY QuietStep DEF GatewayInv
<1>2. /\ row' \in [Requests -> Rows]
      /\ \A q \in Requests :
           row'[q] = IF row[q].status \in {"QUEUED", "RUNNING"}
                       THEN Row("FAILED", "gateway_restart") ELSE row[q]
  BY DEF GatewayInv, JobTypeOK, Rows, Row, Terminal, Errors
<1>3. JobTypeOK'
  BY <1>2 DEF GatewayInv, JobTypeOK, Rows
<1>4. ASSUME NEW q \in Requests PROVE Local(q)'
  <2>1. Local(q) /\ at[q] \in At
    BY DEF GatewayInv, JobTypeOK
  <2>2. at[q] \in {"new", "done", "lost"}
    BY <2>1 DEF Local, Tasks
  <2>. QED
    BY <1>1, <1>2, <2>1, <2>2
       DEF Local, Place, Tasks, EndRow, Untargeted, LiveRow, Calls, Doomed, Row,
           NoRow, Terminal
<1>. QED  BY <1>1, <1>3, <1>4 DEF GatewayInv

LEMMA InitStep == Init => GatewayInv
<1>. SUFFICES ASSUME Init PROVE GatewayInv
  OBVIOUS
<1>. USE DEF Init
<1>1. G!Inv
  BY FreshScheduler DEF S!Init, G!Init
<1>2. pc = [q \in Requests |-> "idle"]
  BY DEF S!Init
<1>3. JobTypeOK
  BY GatewayAssumption DEF JobTypeOK, At, NoRow, Row, NoOutcome, Errors
<1>4. \A q \in Requests : Local(q)
  BY <1>2 DEF Local, Place, Tasks, EndRow, Untargeted, LiveRow, Calls, Doomed
<1>. QED  BY <1>1, <1>3, <1>4 DEF GatewayInv

LEMMA NextStep == GatewayInv /\ [Next]_vars => GatewayInv'
<1>. SUFFICES ASSUME GatewayInv, [Next]_vars PROVE GatewayInv'
  OBVIOUS
<1>1. ASSUME NEW r \in Requests,
             \/ Progress(r) \/ Disconnect(r) \/ WatcherFires(r)
             \/ DatabaseError(r) \/ Dropped(r)
      PROVE  GatewayInv'
  BY <1>1, RequestStep, StepPreserves
<1>2. ASSUME NEW c \in CancelCalls, CancelCall(c) PROVE GatewayInv'
  BY <1>2, CancelReadsStep, CancelWritesStep, CancelSignalsStep DEF CancelCall
<1>3. CASE Crash
  BY <1>3, CrashStep
<1>4. CASE Restart
  BY <1>4, RestartStep
<1>5. CASE UNCHANGED vars
  <2>1. G!Inv' /\ UNCHANGED <<pc, cancel_requested>>
    BY <1>5, QuietStep DEF vars, GatewayInv
  <2>2. JobTypeOK'
    BY <1>5 DEF vars, jobVars, GatewayInv, JobTypeOK
  <2>3. \A q \in Requests : Untouched(q) /\ UNCHANGED <<call, up>>
    BY <1>5, <2>1 DEF vars, jobVars, Untouched
  <2>. QED  BY <2>1, <2>2, <2>3, Frame DEF GatewayInv
<1>. QED  BY <1>1, <1>2, <1>3, <1>4, <1>5 DEF Next

-----------------------------------------------------------------------------
(* Handler, row, registry, cancel calls and scheduler stay together as     *)
(* GatewayInv says, through every fault, crash and restart.                *)
THEOREM GatewayInvariance == Spec => []GatewayInv
BY InitStep, NextStep, PTL DEF Spec

(* The state of the gateway, the scheduler's included, is well typed.      *)
THEOREM GatewayTypeCorrect == Spec => []TypeOK
<1>1. GatewayInv => TypeOK
  BY SchedulerTyped DEF GatewayInv, TypeOK
<1>. QED  BY GatewayInvariance, <1>1, PTL

(* Every handler that ends by one of the code's own paths leaves a terminal*)
(* row, however many cancel calls, disconnects and crashes interfere.      *)
THEOREM EndsRecorded == Spec => []EveryEndRecorded
<1>1. GatewayInv => EveryEndRecorded
  BY DEF GatewayInv, Local, EndRow, EveryEndRecorded
<1>. QED  BY GatewayInvariance, <1>1, PTL

(* Whoever has a slot, waits for one or calls the backend is registered.   *)
THEOREM TasksRegistered == Spec => []LiveTasksRegistered
<1>1. GatewayInv => LiveTasksRegistered
  BY DEF GatewayInv, Local, Tasks, LiveTasksRegistered
<1>. QED  BY GatewayInvariance, <1>1, PTL

(* The handler and the scheduler agree on who is inside the block.         *)
THEOREM SlotsMatchHandlers == Spec => []SlotMatchesHandler
<1>1. GatewayInv => SlotMatchesHandler
  BY DEF GatewayInv, JobTypeOK, At, Local, Place, SlotMatchesHandler
<1>. QED  BY GatewayInvariance, <1>1, PTL

(* No end of a handler keeps a slot: with nobody in the queue or the block,*)
(* the slots counted are those lost to a cancellation.                     *)
THEOREM NoSlotKept == Spec => []SlotsReturned
<1>1. GatewayInv => SlotsReturned
  <2>. SUFFICES ASSUME GatewayInv,
                       \A r \in Requests :
                          at[r] \notin {"waiting", "marking_running", "calling",
                                       "recording", "rec_writing"}
                PROVE  active_count = Cardinality(S!Leaked)
    BY DEF SlotsReturned
  <2>1. \A r \in Requests : pc[r] \notin {"queued", "holding"}
    BY DEF GatewayInv, JobTypeOK, At, Local, Place
  <2>2. promoted \subseteq Requests
    BY DEF GatewayInv, G!Inv, G!TypeOK
  <2>3. G!Holders = {} /\ G!Granted = {}
    BY <2>1, <2>2 DEF G!Holders, G!Granted
  <2>4. G!SlotOwners = S!Leaked
    BY <2>3 DEF G!SlotOwners, G!Leaked, S!Leaked
  <2>5. active_count = G!Cardinality(G!SlotOwners)
    BY DEF GatewayInv, G!Inv, G!SlotAccounting
  <2>. QED  BY <2>4, <2>5 DEF Cardinality, G!Cardinality
<1>. QED  BY GatewayInvariance, <1>1, PTL

(* After the boot that follows a crash no lost request's row is left       *)
(* QUEUED or RUNNING.                                                      *)
THEOREM NoOrphans == Spec => []NoOrphanQueuedOrRunning
<1>1. GatewayInv => NoOrphanQueuedOrRunning
  BY DEF GatewayInv, Local, EndRow, NoOrphanQueuedOrRunning
<1>. QED  BY GatewayInvariance, <1>1, PTL

-----------------------------------------------------------------------------
(* What one step does to the rows and to the calls of the backend.         *)
LEMMA RowChange ==
  ASSUME GatewayInv, NEW r \in Requests,
         \/ Progress(r) \/ Disconnect(r) \/ WatcherFires(r)
         \/ DatabaseError(r) \/ Dropped(r)
  PROVE  row'[r] \in {row[r], Written(r)}
<1>1. MayCommit(r) \/ UNCHANGED row
  BY DEF Progress, Arrive, Created, EnterQueue, Wake, Timeout, Refused, Dispatch,
         CallEnds, StreamStarts, RelayEnds, RecorderReads, RecorderWrites,
         CancelledWaiting, CancelledHolding, CancelledUnrecorded, Disconnect,
         WatcherFires, DatabaseError, Dropped, Abandon, MayCommit
<1>. QED  BY <1>1, CommitRow DEF GatewayInv

(* The documented moves of a row.                                          *)
Moves ==
    ({"none"} \X {"RECEIVED"})
    \cup ({"RECEIVED"} \X {"QUEUED"})
    \cup ({"QUEUED"} \X {"RUNNING", "REJECTED", "CANCELLED", "FAILED"})
    \cup ({"RUNNING"} \X {"COMPLETED", "CANCELLED", "FAILED"})

LEMMA WrittenMoves ==
  ASSUME GatewayInv, NEW r \in Requests, Untargeted(r), Written(r) # row[r]
  PROVE  <<row[r].status, Written(r).status>> \in Moves
<1>1. JobTypeOK /\ Place(r) /\ LiveRow(r) /\ (at[r] \in {"new", "creating"} => row[r] = NoRow)
  BY DEF GatewayInv, Local, Tasks
<1>2. CASE at[r] = "creating"
  BY <1>1, <1>2, WrittenRow DEF NoRow, Row, Moves
<1>3. CASE at[r] \in {"marking_queued", "marking_running", "marking_rejected",
                     "marking_timeout"}
  BY <1>1, <1>3, WrittenRow DEF LiveRow, Moves
<1>4. CASE at[r] = "rec_writing"
  BY <1>1, <1>4, WrittenRow DEF Place, LiveRow, Moves
<1>5. CASE at[r] \notin {"creating", "marking_queued", "marking_running",
                        "marking_rejected", "marking_timeout", "rec_writing"}
  BY <1>1, <1>5, WrittenRow
<1>. QED  BY <1>2, <1>3, <1>4, <1>5

(* The row of a request that no cancel call is about moves only along the  *)
(* documented state machine, and never out of a terminal state, for any    *)
(* number of requests, faults and crashes.                                 *)
THEOREM RowsFollowStateMachine == Spec => RowStateMachine
<1>1. ASSUME GatewayInv, Next, NEW r \in Requests, row'[r] # row[r], Untargeted(r)
      PROVE  <<row[r].status, row'[r].status>> \in Moves
  <2>1. ASSUME NEW q \in Requests,
               \/ Progress(q) \/ Disconnect(q) \/ WatcherFires(q)
               \/ DatabaseError(q) \/ Dropped(q)
        PROVE  <<row[r].status, row'[r].status>> \in Moves
    <3>1. q = r
      BY <1>1, <2>1, RequestStep DEF StepOf, Untouched
    <3>2. row'[r] = Written(r)
      BY <1>1, <2>1, <3>1, RowChange
    <3>. QED  BY <1>1, <3>2, WrittenMoves
  <2>2. ASSUME NEW c \in CancelCalls, CancelCall(c) PROVE FALSE
    BY <1>1, <2>2
       DEF CancelCall, CancelReads, CancelWrites, CancelSignals, Untargeted,
           GatewayInv, JobTypeOK
  <2>3. CASE Crash
    BY <1>1, <2>3 DEF Crash
  <2>4. CASE Restart
    BY <1>1, <2>4 DEF Restart, Row, Moves
  <2>. QED  BY <1>1, <2>1, <2>2, <2>3, <2>4 DEF Next
<1>2. GatewayInv /\ [Next]_vars =>
        [\A r \in Requests :
            row'[r] # row[r] /\ (\A c \in CancelCalls : call[c].target # r) =>
               <<row[r].status, row'[r].status>> \in
                  ({"none"} \X {"RECEIVED"})
                  \cup ({"RECEIVED"} \X {"QUEUED"})
                  \cup ({"QUEUED"} \X {"RUNNING", "REJECTED", "CANCELLED", "FAILED"})
                  \cup ({"RUNNING"} \X {"COMPLETED", "CANCELLED", "FAILED"})]_vars
  BY <1>1 DEF Untargeted, Moves
<1>. QED  BY GatewayInvariance, <1>2, PTL DEF Spec, RowStateMachine

(* The backend is called only by a task that no CancelledError awaits.     *)
LEMMA OnlyDispatchCalls ==
  ASSUME GatewayInv, Next, NEW r \in Requests, at[r] # "calling", at'[r] = "calling"
  PROVE  at[r] = "marking_running" /\ r \notin interrupted
<1>1. at \in [Requests -> At]
  BY DEF GatewayInv, JobTypeOK
<1>2. ASSUME NEW q \in Requests,
             \/ Progress(q) \/ Disconnect(q) \/ WatcherFires(q)
             \/ DatabaseError(q) \/ Dropped(q)
      PROVE  at[r] = "marking_running" /\ r \notin interrupted
  <2>1. q = r
    BY <1>2, RequestStep DEF StepOf, Untouched
  <2>2. UNCHANGED at \/ Dispatch(r)
           \/ \E place \in At \ {"calling"} : Goto(r, place)
    BY <1>2, <2>1
       DEF Progress, Arrive, Created, EnterQueue, Wake, Timeout, Refused, CallEnds,
           StreamStarts, RelayEnds, RecorderReads, RecorderWrites, CancelledWaiting,
           CancelledHolding, CancelledUnrecorded, Disconnect, WatcherFires,
           DatabaseError, Dropped, Abandon, Finish, Record, At
  <2>. QED  BY <1>1, <2>2 DEF Dispatch, Goto
<1>3. ASSUME NEW c \in CancelCalls, CancelCall(c) PROVE FALSE
  BY <1>3 DEF CancelCall, CancelReads, CancelWrites, CancelSignals
<1>4. CASE Crash
  BY <1>1, <1>4 DEF Crash
<1>5. CASE Restart
  BY <1>5 DEF Restart
<1>. QED  BY <1>2, <1>3, <1>4, <1>5 DEF Next

(* A job whose cancellation was answered is never sent to the backend      *)
(* afterwards, wherever its task was at that moment.                       *)
THEOREM CancelledNeverDispatched == Spec => NoDispatchAfterCancel
<1>1. ASSUME GatewayInv, Next, NEW r \in Requests, NEW c \in CancelCalls,
             call[c].at = "ok", call[c].target = r, at[r] # "calling",
             at'[r] = "calling"
      PROVE  FALSE
  <2>1. at[r] = "marking_running" /\ r \notin interrupted
    BY <1>1, OnlyDispatchCalls
  <2>2. Doomed(r)
    BY <1>1 DEF GatewayInv, Local, Calls
  <2>. QED  BY <2>1, <2>2 DEF Doomed
<1>2. GatewayInv /\ [Next]_vars =>
        [\A r \in Requests :
            /\ \E c \in CancelCalls : call[c].at = "ok" /\ call[c].target = r
            /\ at[r] # "calling"
            => at'[r] # "calling"]_vars
  BY <1>1
<1>. QED  BY GatewayInvariance, <1>2, PTL DEF Spec, NoDispatchAfterCancel
==============================================================================
