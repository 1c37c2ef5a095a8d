------------------------------ MODULE Admission ------------------------------
(***************************************************************************)
(* The operating mode and the GPU pressure as admission sees them: the row *)
(* of operating_mode, POST /admin/mode (modes/state.py), the effective     *)
(* policy each request computes (modes/policy.py, modes/effective.py) and  *)
(* writes into the Scheduler on its way to admit() (api/v1/chat.py), for   *)
(* any sequence of pressure levels.                                        *)
(*                                                                         *)
(* The mode is read in one round trip to the database; its use and the     *)
(* write of the limits follow when the task resumes; the entry of admit()  *)
(* comes after two more commits.                                           *)
(***************************************************************************)
EXTENDS Integers, Sequences, FiniteSets

CONSTANTS
    Requests, Users, UserOf, QueueMaxDepth,     \* as in Scheduler
    Owners,             \* the users whose role is "owner"
    RolePriority,       \* roles.priority of each user
    MaxActiveJobs, PerUserMaxActive,            \* settings
    OwnerBonus,         \* owner_priority_bonus of PERSONAL
    ModeCalls,          \* calls of POST /admin/mode
    InitialModes,       \* the row at the start, "absent" in a new database
    Levels              \* the pressure levels that come up

ASSUME AdmissionAssumption ==
    /\ Owners \subseteq Users
    /\ RolePriority \in [Users -> Int]
    /\ MaxActiveJobs \in Nat \ {0} /\ PerUserMaxActive \in Nat \ {0}
    /\ OwnerBonus \in Nat
    /\ InitialModes \subseteq {"absent", "SERVING", "PERSONAL", "GAMEDEV"}
    /\ Levels \subseteq {"LOW", "MODERATE", "HIGH", "CRITICAL"}
    /\ UserOf \in [Requests -> Users]
    /\ QueueMaxDepth \in Int

(* The seeded roles rank the owner first, and no endpoint changes a role.  *)
ASSUME OwnerRankAssumption ==
    \A o \in Owners, u \in Users : RolePriority[u] <= RolePriority[o]

Modes == {"SERVING", "PERSONAL", "GAMEDEV"}

(* A faulty PerUserCap, for OwnerFirst: "owner unlimited" is forgotten.    *)
PerUserCap_Fixed(m) == PerUserMaxActive

(* per_user_max_active of a mode's policy.                                 *)
PerUserCap(m) ==
    IF m = "PERSONAL" /\ MaxActiveJobs > PerUserMaxActive
      THEN MaxActiveJobs ELSE PerUserMaxActive

(* pressure_adjusted_ceiling, of the one ceiling all modes have.           *)
Ceiling(m, l) ==
    CASE m # "GAMEDEV" \/ l = "LOW" -> MaxActiveJobs
      [] m = "GAMEDEV" /\ l = "MODERATE" ->
            IF MaxActiveJobs > 1 THEN MaxActiveJobs - 1 ELSE 1
      [] OTHER -> 0

PolicyOf(m, l) == [ceiling |-> Ceiling(m, l), per_user |-> PerUserCap(m)]

VARIABLES
    policy, active_count, active_by_user, waiting, waiter, promoted,
    seq_counter, notified, cancel_requested, pc, pass_policy

Priorities == {RolePriority[u] : u \in Users}
                  \cup {RolePriority[u] + OwnerBonus : u \in Owners}
Policies == {PolicyOf(m, l) : m \in Modes, l \in Levels \cup {"LOW"}}
InitialPolicy == [ceiling |-> MaxActiveJobs, per_user |-> PerUserMaxActive]

S == INSTANCE Scheduler

VARIABLES
    level,      \* current_level of the pressure evaluator
    mode,       \* the row of operating_mode, "absent" before its creation
    audit,      \* the audit events of the mode changes, in commit order
    at,         \* where each request is on its way to admit()
    seen,       \* the mode a request has read, "none" before and after its use
    set,        \* the calls of POST /admin/mode
    in_force    \* history: the mode of the last policy applied

schedVars == <<policy, active_count, active_by_user, waiting, waiter, promoted,
              seq_counter, notified, cancel_requested, pc, pass_policy>>
modeVars == <<mode, audit, at, seen, set, in_force>>
vars == <<schedVars, level, modeVars>>

TypeOK ==
    /\ S!TypeOK
    /\ level \in Levels \cup {"LOW"}
    /\ mode \in Modes \cup {"absent"}
    /\ audit \in Seq([previous : Modes, new : Modes])
    /\ at \in [Requests -> {"new", "creating", "read", "applied", "entered", "failed"}]
    /\ seen \in [Requests -> Modes \cup {"none"}]
    /\ set \in [ModeCalls -> [at : {"idle", "creating", "committing", "ok", "failed"},
                              previous : Modes, new : Modes]]
    /\ in_force \in Modes

Init ==
    /\ S!Init
    /\ level = "LOW"
    /\ mode \in InitialModes
    /\ audit = <<>>
    /\ at = [r \in Requests |-> "new"]
    /\ seen = [r \in Requests |-> "none"]
    /\ set \in [ModeCalls -> [at : {"idle"}, previous : {"SERVING"}, new : Modes]]
    /\ in_force = "SERVING"

-----------------------------------------------------------------------------
(* effective_priority, by the mode the request has read.                   *)
Priority(r) ==
    RolePriority[UserOf[r]]
        + IF seen[r] = "PERSONAL" /\ UserOf[r] \in Owners THEN OwnerBonus ELSE 0

(* A faulty Saved, for AuditExplainsMode: the column is always written.    *)
Saved_Always(previous, new) == new

(* The row after the commit of set_mode(): the session writes the column   *)
(* only if the value differs from the one it has loaded.                   *)
Saved(previous, new) == IF new # previous THEN new ELSE mode

-----------------------------------------------------------------------------
(* get_or_create_mode_row: the query.                                      *)
ReadMode(r) ==
    /\ at[r] = "new"
    /\ IF mode = "absent"
         THEN at' = [at EXCEPT ![r] = "creating"] /\ UNCHANGED seen
         ELSE at' = [at EXCEPT ![r] = "read"] /\ seen' = [seen EXCEPT ![r] = mode]
    /\ UNCHANGED <<schedVars, level, mode, audit, set, in_force>>

(* A faulty CreateMode, for TypeOK: the created row is not returned.       *)
CreateMode_NoRow(r) ==
    /\ at[r] = "creating"
    /\ mode' = IF mode = "absent" THEN "SERVING" ELSE mode
    /\ at' = [at EXCEPT ![r] = "read"]
    /\ UNCHANGED <<schedVars, level, audit, seen, set, in_force>>

(* The insert of the row: the second one violates the primary key.         *)
CreateMode(r) ==
    /\ at[r] = "creating"
    /\ IF mode = "absent"
         THEN /\ mode' = "SERVING"
              /\ at' = [at EXCEPT ![r] = "read"]
              /\ seen' = [seen EXCEPT ![r] = "SERVING"]
         ELSE /\ at' = [at EXCEPT ![r] = "failed"]
              /\ UNCHANGED <<mode, seen>>
    /\ UNCHANGED <<schedVars, level, audit, set, in_force>>

(* A faulty Apply, for ImplementsScheduler: the mode is read twice.        *)
Apply_TwoReads(r) ==
    /\ at[r] = "read"
    /\ at' = [at EXCEPT ![r] = "applied"]
    /\ S!ApplyPolicy([ceiling |-> Ceiling(mode, level), per_user |-> PerUserCap(seen[r])])
    /\ in_force' = seen[r]
    /\ UNCHANGED <<level, mode, audit, seen, set>>

(* The rest of compute_effective_policy with the level of this moment, and *)
(* apply_to_scheduler.                                                     *)
Apply(r) ==
    /\ at[r] = "read"
    /\ at' = [at EXCEPT ![r] = "applied"]
    /\ S!ApplyPolicy(PolicyOf(seen[r], level))
    /\ in_force' = seen[r]
    /\ UNCHANGED <<level, mode, audit, seen, set>>

(* The entry of admit(), after create_received and mark_queued.            *)
Enter(r) ==
    /\ at[r] = "applied"
    /\ at' = [at EXCEPT ![r] = "entered"]
    /\ S!RejectFull(r) \/ S!Admit(r, Priority(r))
    /\ seen' = [seen EXCEPT ![r] = "none"]
    /\ UNCHANGED <<level, mode, audit, set, in_force>>

(* A disconnect or a database error at one of these two commits: the       *)
(* limits stay written, no promotion pass follows.                         *)
Fail(r) ==
    /\ at[r] = "applied"
    /\ at' = [at EXCEPT ![r] = "failed"]
    /\ seen' = [seen EXCEPT ![r] = "none"]
    /\ UNCHANGED <<schedVars, level, mode, audit, set, in_force>>

(* In the queue and in the block.                                          *)
WakeUp(r) == S!WakeUp(r) /\ UNCHANGED <<level, modeVars>>
QueueTimeout(r) == S!QueueTimeout(r) /\ UNCHANGED <<level, modeVars>>
Cancel(r) == S!Cancel(r) /\ UNCHANGED <<level, modeVars>>
CancelQueued(r) == S!CancelQueued(r) /\ UNCHANGED <<level, modeVars>>
Release(r) == S!Release(r) /\ UNCHANGED <<level, modeVars>>

-----------------------------------------------------------------------------
(* set_mode(): the query, the insert if the row is absent, the update with *)
(* the audit event.                                                        *)
SetReads(c) ==
    /\ set[c].at = "idle"
    /\ set' = [set EXCEPT ![c].at = IF mode = "absent" THEN "creating" ELSE "committing",
                          ![c].previous = IF mode = "absent" THEN @ ELSE mode]
    /\ UNCHANGED <<schedVars, level, mode, audit, at, seen, in_force>>

SetCreates(c) ==
    /\ set[c].at = "creating"
    /\ IF mode = "absent"
         THEN set' = [set EXCEPT ![c].at = "committing"] /\ mode' = "SERVING"
         ELSE set' = [set EXCEPT ![c].at = "failed"] /\ UNCHANGED mode
    /\ UNCHANGED <<schedVars, level, audit, at, seen, in_force>>

SetCommits(c) ==
    /\ set[c].at = "committing"
    /\ set' = [set EXCEPT ![c].at = "ok"]
    /\ mode' = Saved(set[c].previous, set[c].new)
    /\ audit' = Append(audit, [previous |-> set[c].previous, new |-> set[c].new])
    /\ UNCHANGED <<schedVars, level, at, seen, in_force>>

(* GET /status, /admin/mode and /admin/metrics create the row, too, when   *)
(* they are the first to look for it.                                      *)
ReadByOthers ==
    /\ mode = "absent"
    /\ mode' = "SERVING"
    /\ UNCHANGED <<schedVars, level, audit, at, seen, set, in_force>>

(* The sampling loop has fed the evaluator.                                *)
Sample == level' \in Levels /\ UNCHANGED <<schedVars, modeVars>>

Next ==
    \/ \E r \in Requests :
          \/ ReadMode(r) \/ CreateMode(r) \/ Apply(r) \/ Enter(r) \/ Fail(r)
          \/ WakeUp(r) \/ QueueTimeout(r) \/ Cancel(r) \/ CancelQueued(r) \/ Release(r)
    \/ \E c \in ModeCalls : SetReads(c) \/ SetCreates(c) \/ SetCommits(c)
    \/ ReadByOthers
    \/ Sample

Spec == Init /\ [][Next]_vars

-----------------------------------------------------------------------------
(* Whatever happens to the mode and the pressure, the scheduler goes       *)
(* through a behaviour of its own: the two limits in force are always those*)
(* of one mode under one level, and everything Scheduler promises holds.   *)
ImplementsScheduler == S!Spec

(* Whatever modes and levels follow each other, and however the requests   *)
(* that apply them interleave, the slots taken never exceed                *)
(* LARA_MAX_ACTIVE_JOBS.                                                   *)
NeverAboveConfigured == active_count <= MaxActiveJobs

(* Admitted with the bonus.                                                *)
IsBoosted(r) == waiter[r].priority > RolePriority[UserOf[r]]

(* "Owner request takes the next free slot ahead of queued campus jobs":   *)
(* while PERSONAL is in force, no request without the bonus is granted a   *)
(* slot beside a waiting request that has it, also when the owner already  *)
(* holds slots.                                                            *)
OwnerFirst ==
    [][in_force = "PERSONAL" =>
          \A w \in promoted' \ promoted : \A v \in waiting' :
              IsBoosted(v)' => IsBoosted(w)']_vars

(* The audit trail explains the mode: the row holds the new mode of the    *)
(* last audited change, if any, also when calls of POST /admin/mode        *)
(* overlap.                                                                *)
AuditExplainsMode ==
    \A i \in DOMAIN audit :
        /\ audit[i].previous # audit[i].new
        /\ \A j \in (i + 1)..Len(audit) : audit[j].previous = audit[j].new
        => mode = audit[i].new

(* "Queued jobs execute as slots free": nobody is timed out of the queue   *)
(* while the mode and the pressure of the moment leave a slot free for him.*)
QueuedRunAsSlotsFree ==
    [][\A r \in Requests :
          pc[r] = "queued" /\ pc'[r] = "timed_out" /\ mode \in Modes =>
              \/ active_count >= PolicyOf(mode, level).ceiling
              \/ active_by_user[UserOf[r]] >= PolicyOf(mode, level).per_user]_vars
==============================================================================
