------------------------------- MODULE Gateway -------------------------------
(***************************************************************************)
(* The life of a chat request in the gateway: the handler of api/v1/chat.py*)
(* with the proxy (models/proxy.py), the job row in PostgreSQL             *)
(* (scheduler/lifecycle.py, scheduler/recorder.py), the task registry, the *)
(* disconnect watcher, the cancel endpoints (api/lara/jobs.py,             *)
(* api/admin/jobs.py), a crash of the process and the reconciliation of    *)
(* the next boot (scheduler/reconcile.py), composed with the Scheduler.    *)
(*                                                                         *)
(* A step is what one task does between two suspensions.  A commit and the *)
(* resumption of the task that awaited it are one step; when an exception  *)
(* is raised at a commit, the write may or may not have taken effect.      *)
(***************************************************************************)
EXTENDS Integers, FiniteSets

CONSTANTS
    Requests, Users, UserOf, Priorities, Policies, InitialPolicy,
    QueueMaxDepth,   \* as in Scheduler
    Streaming,       \* the requests sent with stream=true
    CancelCalls,     \* calls of the cancel endpoints
    Faults,          \* which of "db" and "drop" may happen
    MaxCrashes       \* bound on the crashes of the process

ASSUME GatewayAssumption ==
    /\ Streaming \subseteq Requests
    /\ Faults \subseteq {"db", "drop"}
    /\ MaxCrashes \in Nat
    /\ UserOf \in [Requests -> Users]
    /\ Priorities \subseteq Int
    /\ Policies \subseteq [ceiling : Int, per_user : Int]
    /\ InitialPolicy \in [ceiling : Int, per_user : Int]
    /\ QueueMaxDepth \in Int

VARIABLES
    policy, active_count, active_by_user, waiting, waiter, promoted,
    seq_counter, notified, cancel_requested, pc, pass_policy

S == INSTANCE Scheduler

schedVars == <<policy, active_count, active_by_user, waiting, waiter, promoted,
              seq_counter, notified, cancel_requested, pc, pass_policy>>

VARIABLES
    at,           \* where the handler of each request is suspended
    row,          \* the committed jobs row: status and error_class
    outcome,      \* what a recorder is about to write, and who runs it
    registry,     \* JobTaskRegistry
    watching,     \* requests whose disconnect watcher still polls
    gone,         \* requests whose client has disconnected
    interrupted,  \* tasks with a CancelledError to be thrown, not in the queue
    call,         \* the cancel endpoints' calls
    up,           \* the process runs and accepts traffic
    crashes,      \* bounded by MaxCrashes
    unrecorded    \* history: handlers left by an exception nobody records

jobVars == <<at, row, outcome, registry, watching, gone, interrupted, call,
             up, crashes, unrecorded>>
vars == <<schedVars, jobVars>>

Terminal == {"COMPLETED", "CANCELLED", "FAILED", "REJECTED"}
Cancellable == {"RECEIVED", "QUEUED", "RUNNING"}

Row(s, e) == [status |-> s, error |-> e]
NoRow == Row("none", "none")

Failures == {"backend_unreachable", "ttft_timeout", "upstream_5xx", "upstream_4xx"}
Errors == Failures \cup {"none", "queue_full", "queue_timeout", "user_cancel",
             "client_disconnect", "generation_timeout", "gateway_restart"}

At == {"new", "creating", "marking_queued", "waiting", "marking_running",
       "calling", "recording", "rec_writing", "relaying",
       "marking_rejected", "marking_timeout", "done", "lost"}

JobTypeOK ==
    /\ at \in [Requests -> At]
    /\ row \in [Requests -> [status : Terminal \cup Cancellable \cup {"none"},
                             error : Errors]]
    /\ outcome \in [Requests -> [status : Terminal \cup {"none"},
                                 error : Errors,
                                 by : {"none", "proxy", "handler", "relay"}]]
    /\ registry \subseteq Requests
    /\ watching \subseteq Requests
    /\ gone \subseteq Requests
    /\ interrupted \subseteq Requests
    /\ call \in [CancelCalls ->
                   [at : {"idle", "committing", "signalling", "ok", "refused", "lost"},
                    target : Requests]]
    /\ up \in BOOLEAN
    /\ crashes \in 0..MaxCrashes
    /\ unrecorded \subseteq Requests

TypeOK == S!TypeOK /\ JobTypeOK

NoOutcome == [status |-> "none", error |-> "none", by |-> "none"]

Init ==
    /\ S!Init
    /\ at = [r \in Requests |-> "new"]
    /\ row = [r \in Requests |-> NoRow]
    /\ outcome = [r \in Requests |-> NoOutcome]
    /\ registry = {}
    /\ watching = {}
    /\ gone = {}
    /\ interrupted = {}
    /\ call \in [CancelCalls -> [at : {"idle"}, target : Requests]]
    /\ up = TRUE
    /\ crashes = 0
    /\ unrecorded = {}

-----------------------------------------------------------------------------
(* The row after the write the task of r awaits.  The request session      *)
(* writes unconditionally; mark_running and mark_completed do not touch    *)
(* error_class.                                                            *)
Written(r) ==
    CASE at[r] = "creating"         -> Row("RECEIVED", "none")
      [] at[r] = "marking_queued"   -> Row("QUEUED", row[r].error)
      [] at[r] = "marking_running"  -> Row("RUNNING", row[r].error)
      [] at[r] = "marking_rejected" -> Row("REJECTED", "queue_full")
      [] at[r] = "marking_timeout"  -> Row("FAILED", "queue_timeout")
      [] at[r] = "rec_writing"      ->
            Row(outcome[r].status,
                IF outcome[r].status = "COMPLETED" THEN row[r].error
                                                   ELSE outcome[r].error)
      [] OTHER -> row[r]

Commit(r) == row' = [row EXCEPT ![r] = Written(r)]
MayCommit(r) == Commit(r) \/ UNCHANGED row

Goto(r, place) == at' = [at EXCEPT ![r] = place]

(* A JobRecorder method called with an outcome.                            *)
Record(r, s, e, by) ==
    /\ Goto(r, "recording")
    /\ outcome' = [outcome EXCEPT ![r] = [status |-> s, error |-> e, by |-> by]]

(* The inner finally of admit(), for a task inside its block.              *)
LeaveBlock(r) == IF pc[r] = "holding" THEN S!Release(r) ELSE UNCHANGED schedVars

(* The handler returns or raises: the slot, if held, is released, the      *)
(* outer finally unregisters the task and stops the watcher.               *)
Finish(r) ==
    /\ Goto(r, "done")
    /\ LeaveBlock(r)
    /\ registry' = registry \ {r}
    /\ watching' = watching \ {r}
    /\ outcome' = [outcome EXCEPT ![r] = NoOutcome]
    /\ UNCHANGED <<gone, call, up, crashes>>

-----------------------------------------------------------------------------
(* The policy is computed and applied, then the row is inserted.           *)
Arrive(r) ==
    /\ at[r] = "new" /\ up
    /\ Goto(r, "creating")
    /\ \E p \in Policies : S!ApplyPolicy(p)
    /\ UNCHANGED <<row, outcome, registry, watching, gone, interrupted, call,
                   up, crashes, unrecorded>>

(* A faulty Created, for LiveTasksRegistered: register() is forgotten.     *)
Created_Unregistered(r) ==
    /\ at[r] = "creating"
    /\ Commit(r)
    /\ Goto(r, "marking_queued")
    /\ watching' = watching \cup {r}
    /\ UNCHANGED <<schedVars, outcome, registry, gone, interrupted, call, up,
                   crashes, unrecorded>>

(* create_received done: register the task, start the watcher, mark_queued *)
Created(r) ==
    /\ at[r] = "creating"
    /\ Commit(r)
    /\ Goto(r, "marking_queued")
    /\ registry' = registry \cup {r}
    /\ watching' = watching \cup {r}
    /\ UNCHANGED <<schedVars, outcome, gone, interrupted, call, up, crashes, unrecorded>>

(* mark_queued done: the entry of admit().                                 *)
EnterQueue(r) ==
    /\ at[r] = "marking_queued" /\ r \notin interrupted
    /\ Commit(r)
    /\ \/ S!RejectFull(r) /\ Goto(r, "marking_rejected")
       \/ /\ \E p \in Priorities : S!Admit(r, p)
          /\ Goto(r, IF pc'[r] = "holding" THEN "marking_running" ELSE "waiting")
    /\ UNCHANGED <<outcome, registry, watching, gone, interrupted, call, up,
                   crashes, unrecorded>>

(* A sleeper is notified, or its deadline passes.                          *)
Wake(r) ==
    /\ at[r] = "waiting"
    /\ S!WakeUp(r)
    /\ Goto(r, IF pc'[r] = "holding" THEN "marking_running" ELSE "waiting")
    /\ UNCHANGED <<row, outcome, registry, watching, gone, interrupted, call,
                   up, crashes, unrecorded>>

(* A faulty Timeout, for EveryRequestEnds: an expired wait goes on.        *)
Timeout_Ignored(r) ==
    /\ at[r] = "waiting" /\ r \in promoted
    /\ S!QueueTimeout(r)
    /\ Goto(r, "marking_running")
    /\ UNCHANGED <<row, outcome, registry, watching, gone, interrupted, call,
                   up, crashes, unrecorded>>

Timeout(r) ==
    /\ at[r] = "waiting"
    /\ S!QueueTimeout(r)
    /\ Goto(r, IF pc'[r] = "holding" THEN "marking_running" ELSE "marking_timeout")
    /\ UNCHANGED <<row, outcome, registry, watching, gone, interrupted, call,
                   up, crashes, unrecorded>>

(* A faulty Refused, for EveryEndRecorded: the error response without the  *)
(* write.                                                                  *)
Refused_Unwritten(r) ==
    /\ at[r] \in {"marking_rejected", "marking_timeout"} /\ r \notin interrupted
    /\ Finish(r)
    /\ UNCHANGED <<row, interrupted, unrecorded>>

(* mark_rejected or mark_failed("queue_timeout") done: the error response. *)
Refused(r) ==
    /\ at[r] \in {"marking_rejected", "marking_timeout"} /\ r \notin interrupted
    /\ Commit(r)
    /\ Finish(r)
    /\ UNCHANGED <<interrupted, unrecorded>>

(* mark_running done: the request is dispatched to the backend.            *)
Dispatch(r) ==
    /\ at[r] = "marking_running" /\ r \notin interrupted
    /\ Commit(r)
    /\ Goto(r, "calling")
    /\ UNCHANGED <<schedVars, outcome, registry, watching, gone, interrupted, call,
                   up, crashes, unrecorded>>

(* A faulty CallEnds, for TypeOK: an error class unknown to the schema.    *)
CallEnds_OtherClass(r) ==
    /\ at[r] = "calling" /\ r \notin interrupted
    /\ Record(r, "FAILED", "exception", "proxy")
    /\ UNCHANGED <<schedVars, row, registry, watching, gone, interrupted, call, up,
                   crashes, unrecorded>>

(* The backend answers or times out; a streaming call that succeeds is     *)
(* StreamStarts.                                                           *)
CallEnds(r) ==
    /\ at[r] = "calling" /\ r \notin interrupted
    /\ \/ \E e \in Failures : Record(r, "FAILED", e, "proxy")
       \/ r \notin Streaming /\ Record(r, "COMPLETED", "none", "proxy")
    /\ UNCHANGED <<schedVars, row, registry, watching, gone, interrupted, call, up,
                   crashes, unrecorded>>

(* A faulty StreamStarts, for SlotMatchesHandler: the slot is kept.        *)
StreamStarts_KeepsSlot(r) ==
    /\ at[r] = "calling" /\ r \notin interrupted /\ r \in Streaming
    /\ Goto(r, "relaying")
    /\ registry' = registry \ {r}
    /\ watching' = watching \ {r}
    /\ UNCHANGED <<schedVars, row, outcome, gone, interrupted, call, up, crashes,
                   unrecorded>>

(* Response headers of a stream: proxy_streaming returns the response, so  *)
(* the handler leaves the block and unregisters; relay() runs afterwards.  *)
StreamStarts(r) ==
    /\ at[r] = "calling" /\ r \notin interrupted /\ r \in Streaming
    /\ Goto(r, "relaying")
    /\ S!Release(r)
    /\ registry' = registry \ {r}
    /\ watching' = watching \ {r}
    /\ UNCHANGED <<row, outcome, gone, interrupted, call, up, crashes, unrecorded>>

(* relay(): last chunk, total timeout, or a disconnect seen at a chunk.    *)
RelayEnds(r) ==
    /\ at[r] = "relaying"
    /\ \/ Record(r, "COMPLETED", "none", "relay")
       \/ Record(r, "FAILED", "generation_timeout", "relay")
       \/ r \in gone /\ Record(r, "CANCELLED", "client_disconnect", "relay")
    /\ UNCHANGED <<schedVars, row, registry, watching, gone, interrupted, call, up,
                   crashes, unrecorded>>

(* A faulty RecorderReads, for RowStateMachine: no check for a terminal    *)
(* row.                                                                    *)
RecorderReads_Unchecked(r) ==
    /\ at[r] = "recording" /\ r \notin interrupted
    /\ Goto(r, "rec_writing")
    /\ UNCHANGED <<schedVars, row, outcome, registry, watching, gone, interrupted,
                   call, up, crashes, unrecorded>>

(* The recorder reads the row in a session of its own and returns if it is *)
(* terminal; otherwise it writes, in a later step.                         *)
RecorderReads(r) ==
    /\ at[r] = "recording" /\ r \notin interrupted
    /\ IF row[r].status \in Terminal
         THEN Finish(r)
         ELSE /\ Goto(r, "rec_writing")
              /\ UNCHANGED <<schedVars, outcome, registry, watching, gone, call, up,
                             crashes>>
    /\ UNCHANGED <<row, interrupted, unrecorded>>

RecorderWrites(r) ==
    /\ at[r] = "rec_writing" /\ r \notin interrupted
    /\ Commit(r)
    /\ Finish(r)
    /\ UNCHANGED <<interrupted, unrecorded>>

-----------------------------------------------------------------------------
(* A faulty TaskCancel, for NoDispatchAfterCancel: only a task asleep in   *)
(* the queue is cancelled.                                                 *)
TaskCancel_QueuedOnly(r) ==
    IF at[r] = "waiting"
      THEN S!Cancel(r) /\ UNCHANGED interrupted
      ELSE UNCHANGED <<schedVars, interrupted>>

(* task.cancel().  A task asleep in the queue is the scheduler's business; *)
(* for a finished task it does nothing.                                    *)
TaskCancel(r) ==
    IF at[r] = "waiting"
      THEN S!Cancel(r) /\ UNCHANGED interrupted
      ELSE /\ interrupted' = interrupted \cup ({r} \ {t \in Requests : at[t] = "done"})
           /\ UNCHANGED schedVars

Disconnect(r) ==
    /\ at[r] \notin {"new", "done", "lost"} /\ r \notin gone
    /\ gone' = gone \cup {r}
    /\ UNCHANGED <<schedVars, at, row, outcome, registry, watching, interrupted,
                   call, up, crashes, unrecorded>>

(* _watch_disconnect sees the client gone, cancels the task and returns.   *)
WatcherFires(r) ==
    /\ r \in watching /\ r \in gone
    /\ TaskCancel(r)
    /\ watching' = watching \ {r}
    /\ UNCHANGED <<at, row, outcome, registry, gone, call, up, crashes, unrecorded>>

(* CancelledError while asleep in the queue: except clause of the handler. *)
CancelledWaiting(r) ==
    /\ at[r] = "waiting"
    /\ S!CancelQueued(r)
    /\ Record(r, "CANCELLED", "client_disconnect", "handler")
    /\ UNCHANGED <<row, registry, watching, gone, interrupted, call, up, crashes,
                   unrecorded>>

(* CancelledError inside the block: the slot is released, then the same    *)
(* except clause runs.                                                     *)
CancelledHolding(r) ==
    /\ pc[r] = "holding" /\ r \in interrupted
    /\ interrupted' = interrupted \ {r}
    /\ MayCommit(r)
    /\ S!Release(r)
    /\ Record(r, "CANCELLED", "client_disconnect", "handler")
    /\ UNCHANGED <<registry, watching, gone, call, up, crashes, unrecorded>>

(* A faulty Abandon, for SlotsReturned: an exception leaves the block      *)
(* without its finally clause.                                             *)
Abandon_KeepsSlot(r) ==
    /\ MayCommit(r)
    /\ Goto(r, "done")
    /\ registry' = IF at[r] = "marking_queued" THEN registry ELSE registry \ {r}
    /\ watching' = watching \ {r}
    /\ interrupted' = interrupted \ {r}
    /\ unrecorded' = unrecorded \cup {r}
    /\ outcome' = [outcome EXCEPT ![r] = NoOutcome]
    /\ UNCHANGED <<schedVars, gone, call, up, crashes>>

(* CancelledError or a database error at a commit or read outside the      *)
(* reach of that clause: during mark_queued, which stands before the try   *)
(* statement, so that nothing is unregistered; in an except clause; or,    *)
(* the database error only, anywhere.                                      *)
Abandon(r) ==
    /\ MayCommit(r)
    /\ Goto(r, "done")
    /\ LeaveBlock(r)
    /\ registry' = IF at[r] = "marking_queued" THEN registry ELSE registry \ {r}
    /\ watching' = watching \ {r}
    /\ interrupted' = interrupted \ {r}
    /\ unrecorded' = unrecorded \cup {r}
    /\ outcome' = [outcome EXCEPT ![r] = NoOutcome]
    /\ UNCHANGED <<gone, call, up, crashes>>

CancelledUnrecorded(r) ==
    /\ at[r] # "waiting" /\ pc[r] # "holding" /\ r \in interrupted
    /\ Abandon(r)

DatabaseError(r) ==
    /\ "db" \in Faults
    /\ at[r] \in {"creating", "marking_queued", "marking_running", "recording",
                  "rec_writing", "marking_rejected", "marking_timeout"}
    /\ r \notin interrupted
    /\ Abandon(r)

(* The backend drops the connection: ReadError and RemoteProtocolError are *)
(* caught neither by the proxy nor by the handler.  A stream also dies     *)
(* when the server notices the disconnect before relay() does.             *)
Dropped(r) ==
    /\ \/ at[r] \in {"calling", "relaying"} /\ "drop" \in Faults
       \/ at[r] = "relaying" /\ r \in gone
       \/ at[r] \in {"recording", "rec_writing"} /\ outcome[r].by = "relay" /\ r \in gone
    /\ r \notin interrupted
    /\ Abandon(r)

-----------------------------------------------------------------------------
(* A cancel endpoint: read the row and refuse a terminal one, overwrite    *)
(* the row, then look the task up and cancel it.                           *)
CallGoto(c, place) == call' = [call EXCEPT ![c].at = place]

CancelReads(c) ==
    /\ call[c].at = "idle" /\ up
    /\ row[call[c].target] # NoRow
    /\ CallGoto(c, IF row[call[c].target].status \in Cancellable
                     THEN "committing" ELSE "refused")
    /\ UNCHANGED <<schedVars, at, row, outcome, registry, watching, gone,
                   interrupted, up, crashes, unrecorded>>

CancelWrites(c) ==
    /\ call[c].at = "committing"
    /\ row' = [row EXCEPT ![call[c].target] = Row("CANCELLED", "user_cancel")]
    /\ CallGoto(c, "signalling")
    /\ UNCHANGED <<schedVars, at, outcome, registry, watching, gone, interrupted,
                   up, crashes, unrecorded>>

CancelSignals(c) ==
    /\ call[c].at = "signalling"
    /\ IF call[c].target \in registry
         THEN TaskCancel(call[c].target)
         ELSE UNCHANGED <<schedVars, interrupted>>
    /\ CallGoto(c, "ok")
    /\ UNCHANGED <<at, row, outcome, registry, watching, gone, up, crashes,
                   unrecorded>>

-----------------------------------------------------------------------------
(* A new Scheduler object.                                                 *)
NewScheduler ==
    /\ policy' = InitialPolicy /\ pass_policy' = InitialPolicy
    /\ active_count' = 0 /\ active_by_user' = [u \in Users |-> 0]
    /\ waiting' = {} /\ promoted' = {} /\ notified' = {}
    /\ waiter' = [r \in Requests |-> [priority |-> 0, seq |-> 0]]
    /\ seq_counter' = 0
    /\ cancel_requested' = {}
    /\ pc' = [r \in Requests |-> "idle"]

(* Everything in the memory of the process is gone; the rows are not.      *)
Crash ==
    /\ up /\ crashes < MaxCrashes
    /\ up' = FALSE
    /\ crashes' = crashes + 1
    /\ NewScheduler
    /\ at' = [r \in Requests |->
                 IF at[r] \in {"new", "done"} THEN at[r] ELSE "lost"]
    /\ registry' = {} /\ watching' = {} /\ interrupted' = {}
    /\ outcome' = [r \in Requests |-> NoOutcome]
    /\ call' = [c \in CancelCalls |->
                   IF call[c].at \in {"committing", "signalling"}
                     THEN [call[c] EXCEPT !.at = "lost"] ELSE call[c]]
    /\ UNCHANGED <<row, gone, unrecorded>>

(* A faulty Restart, for NoOrphanQueuedOrRunning: it forgets QUEUED rows.  *)
Restart_RunningOnly ==
    /\ ~up
    /\ up' = TRUE
    /\ row' = [r \in Requests |->
                  IF row[r].status = "RUNNING"
                    THEN Row("FAILED", "gateway_restart") ELSE row[r]]
    /\ UNCHANGED <<schedVars, at, outcome, registry, watching, gone, interrupted,
                   call, crashes, unrecorded>>

(* lifespan(): reconcile_orphaned_jobs, before any traffic.                *)
Restart ==
    /\ ~up
    /\ up' = TRUE
    /\ row' = [r \in Requests |->
                  IF row[r].status \in {"QUEUED", "RUNNING"}
                    THEN Row("FAILED", "gateway_restart") ELSE row[r]]
    /\ UNCHANGED <<schedVars, at, outcome, registry, watching, gone, interrupted,
                   call, crashes, unrecorded>>

Progress(r) ==
    \/ Arrive(r) \/ Created(r) \/ EnterQueue(r) \/ Wake(r) \/ Timeout(r)
    \/ Refused(r) \/ Dispatch(r) \/ CallEnds(r) \/ StreamStarts(r)
    \/ RelayEnds(r) \/ RecorderReads(r) \/ RecorderWrites(r)
    \/ CancelledWaiting(r) \/ CancelledHolding(r) \/ CancelledUnrecorded(r)

CancelCall(c) == CancelReads(c) \/ CancelWrites(c) \/ CancelSignals(c)

Next ==
    \/ \E r \in Requests :
          \/ Progress(r)
          \/ Disconnect(r) \/ WatcherFires(r)
          \/ DatabaseError(r) \/ Dropped(r)
    \/ \E c \in CancelCalls : CancelCall(c)
    \/ Crash \/ Restart

Spec == Init /\ [][Next]_vars

(* The event loop runs ready tasks, the database answers, a call ends by   *)
(* an answer or a timeout, and a crashed process is started again.         *)
FairSpec == Spec /\ WF_vars(Restart) /\ \A r \in Requests : WF_vars(Progress(r))

-----------------------------------------------------------------------------
Ended(r) == at[r] \in {"done", "lost"}

(* A handler that ends by one of the code's own paths leaves a terminal    *)
(* row, whoever else wrote to the row meanwhile.                           *)
EveryEndRecorded ==
    \A r \in Requests :
        at[r] = "done" /\ r \notin unrecorded => row[r].status \in Terminal

(* A request that has a slot, waits for one or calls the backend can be    *)
(* found by the cancel endpoints.                                          *)
LiveTasksRegistered ==
    \A r \in Requests :
        at[r] \in {"waiting", "marking_running", "calling"} => r \in registry

(* The handler's place and the scheduler's view of it agree: a backend     *)
(* call answered in one piece runs under a slot, and nobody else has one,  *)
(* but for the tasks cancelled between grant and wake-up.                  *)
SlotMatchesHandler ==
    \A r \in Requests :
        /\ at[r] \in {"marking_running", "calling"} => pc[r] = "holding"
        /\ pc[r] = "holding" <=>
              \/ at[r] \in {"marking_running", "calling"}
              \/ /\ at[r] \in {"recording", "rec_writing"}
                 /\ outcome[r].by = "proxy"
        /\ pc[r] = "queued" <=> at[r] = "waiting"

(* No end of a handler keeps a slot, be it an answer, an exception, a      *)
(* cancellation or a crash: with no handler in the queue or in the block,  *)
(* _active_count counts only the slots lost to a cancellation that         *)
(* overtook a wake-up.                                                     *)
SlotsReturned ==
    (\A r \in Requests : at[r] \notin {"waiting", "marking_running", "calling",
                                       "recording", "rec_writing"})
        => active_count = Cardinality(S!Leaked)

(* Once a process is up again, no row of a request it has lost is still    *)
(* QUEUED or RUNNING.                                                      *)
NoOrphanQueuedOrRunning ==
    up => \A r \in Requests :
        at[r] = "lost" => row[r].status \notin {"QUEUED", "RUNNING"}

(* Every request that arrives is over at some time, whatever combination   *)
(* of disconnects, cancellations, lost slots and crashes it meets.         *)
EveryRequestEnds == \A r \in Requests : (at[r] # "new") ~> Ended(r)

(* The row of a request that no cancel call is about only moves along the  *)
(* documented state machine, QUEUED -> REJECTED standing for RECEIVED ->   *)
(* REJECTED, and a terminal row is never written again, whatever exception *)
(* or crash.                                                               *)
RowStateMachine ==
    [][\A r \in Requests : row'[r] # row[r] /\ (\A c \in CancelCalls : call[c].target # r) =>
          <<row[r].status, row'[r].status>> \in
             ({"none"} \X {"RECEIVED"})
             \cup ({"RECEIVED"} \X {"QUEUED"})
             \cup ({"QUEUED"} \X {"RUNNING", "REJECTED", "CANCELLED", "FAILED"})
             \cup ({"RUNNING"} \X {"COMPLETED", "CANCELLED", "FAILED"})]_vars

(* Once a cancel call has been answered "cancelled", its request is never  *)
(* sent to the backend again, wherever the task was when it was signalled: *)
(* before the queue, asleep, granted and not yet awake, or about to run.   *)
NoDispatchAfterCancel ==
    [][\A r \in Requests :
          /\ \E c \in CancelCalls : call[c].at = "ok" /\ call[c].target = r
          /\ at[r] # "calling"
          => at'[r] # "calling"]_vars

(* "CANCELLED, never dispatched": a job whose row says CANCELLED is not    *)
(* sent to the backend afterwards.                                         *)
CancelledNotDispatched ==
    [][\A r \in Requests :
          at[r] = "marking_running" /\ at'[r] = "calling" =>
              row[r].status # "CANCELLED"]_vars

(* "The slot is held for the whole upstream call": the calls in progress,  *)
(* streams included, are within the ceiling.                               *)
UpstreamWithinCeiling ==
    Cardinality({r \in Requests : at[r] \in {"calling", "relaying"}})
        <= policy.ceiling
==============================================================================
