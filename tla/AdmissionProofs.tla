--------------------------- MODULE AdmissionProofs ---------------------------
(***************************************************************************)
(* Admission implements Scheduler, for any requests, users, settings and   *)
(* pressure, so that the theorems about Scheduler hold under every         *)
(* interleaving of mode changes, samples and requests; and what the modes  *)
(* promise beside: the audit explains the mode, owners come first.         *)
(***************************************************************************)
EXTENDS Admission, TLAPS

G == INSTANCE SchedulerProofs

CallAt == {"idle", "creating", "committing", "ok", "failed"}

(* What is applied to the scheduler was read from the mode row before.     *)
ModeInv ==
    /\ level \in Levels \cup {"LOW"}
    /\ mode \in Modes \cup {"absent"}
    /\ DOMAIN at = Requests
    /\ seen \in [Requests -> Modes \cup {"none"}]
    /\ \A r \in Requests : at[r] = "read" => seen[r] \in Modes
    /\ set \in [ModeCalls -> [at : CallAt, previous : Modes, new : Modes]]

LEMMA PolicyInPolicies ==
  ASSUME NEW m \in Modes, NEW l \in Levels \cup {"LOW"}
  PROVE  PolicyOf(m, l) \in Policies
BY DEF Policies

LEMMA PriorityInPriorities ==
  ASSUME NEW r \in Requests
  PROVE  Priority(r) \in Priorities
<1>1. UserOf[r] \in Users /\ RolePriority[UserOf[r]] \in Int
  BY AdmissionAssumption
<1>. QED  BY <1>1 DEF Priority, Priorities

LEMMA ModeInvInit == Init => ModeInv
BY AdmissionAssumption DEF Init, ModeInv, Modes, CallAt

(* The steps of the scheduler leave the rest alone.                        *)
LEMMA QueueStep ==
  ASSUME ModeInv, UNCHANGED <<level, modeVars>>
  PROVE  ModeInv'
BY DEF ModeInv, modeVars

LEMMA Step ==
  ASSUME ModeInv, [Next]_vars
  PROVE  ModeInv' /\ [S!Next]_schedVars
<1>1. ASSUME NEW r \in Requests, ReadMode(r) \/ CreateMode(r)
      PROVE  ModeInv' /\ UNCHANGED schedVars
  <2>1. CASE ReadMode(r)
    BY <2>1 DEF ReadMode, ModeInv
  <2>2. CASE CreateMode(r)
    BY <2>2 DEF CreateMode, ModeInv, Modes
  <2>. QED  BY <1>1, <2>1, <2>2
<1>2. ASSUME NEW r \in Requests, Apply(r)
      PROVE  ModeInv' /\ S!Next
  <2>1. ModeInv'
    BY <1>2 DEF Apply, ModeInv
  <2>2. PolicyOf(seen[r], level) \in Policies
    BY <1>2, PolicyInPolicies DEF Apply, ModeInv
  <2>. QED  BY <1>2, <2>1, <2>2 DEF Apply, S!Next
<1>3. ASSUME NEW r \in Requests, Enter(r)
      PROVE  ModeInv' /\ S!Next
  <2>1. ModeInv'
    BY <1>3 DEF Enter, ModeInv
  <2>2. Priority(r) \in Priorities
    BY PriorityInPriorities
  <2>. QED  BY <1>3, <2>1, <2>2 DEF Enter, S!Next
<1>4. ASSUME NEW r \in Requests, Fail(r)
      PROVE  ModeInv' /\ UNCHANGED schedVars
  BY <1>4 DEF Fail, ModeInv
<1>5. ASSUME NEW r \in Requests,
             WakeUp(r) \/ QueueTimeout(r) \/ Cancel(r) \/ CancelQueued(r) \/ Release(r)
      PROVE  ModeInv' /\ S!Next
  <2>1. ModeInv'
    BY <1>5, QueueStep DEF WakeUp, QueueTimeout, Cancel, CancelQueued, Release
  <2>2. S!Next
    BY <1>5 DEF WakeUp, QueueTimeout, Cancel, CancelQueued, Release, S!Next
  <2>. QED  BY <2>1, <2>2
<1>6. ASSUME NEW c \in ModeCalls, SetReads(c) \/ SetCreates(c) \/ SetCommits(c)
      PROVE  ModeInv' /\ UNCHANGED schedVars
  <2>1. CASE SetReads(c)
    <3>1. mode # "absent" => mode \in Modes
      BY DEF ModeInv
    <3>2. CASE mode = "absent"
      <4>1. set' = [set EXCEPT ![c].at = "creating", ![c].previous = set[c].previous]
        BY <2>1, <3>2 DEF SetReads
      <4>2. set' \in [ModeCalls -> [at : CallAt, previous : Modes, new : Modes]]
        BY <4>1 DEF ModeInv, CallAt
      <4>. QED  BY <2>1, <4>2 DEF SetReads, ModeInv
    <3>3. CASE mode # "absent"
      <4>1. set' = [set EXCEPT ![c].at = "committing", ![c].previous = mode]
        BY <2>1, <3>3 DEF SetReads
      <4>2. set' \in [ModeCalls -> [at : CallAt, previous : Modes, new : Modes]]
        BY <3>1, <3>3, <4>1 DEF ModeInv, CallAt
      <4>. QED  BY <2>1, <4>2 DEF SetReads, ModeInv
    <3>. QED  BY <3>2, <3>3
  <2>2. CASE SetCreates(c)
    <3>1. mode' \in Modes \cup {"absent"}
      BY <2>2 DEF SetCreates, ModeInv, Modes
    <3>2. set' \in [ModeCalls -> [at : CallAt, previous : Modes, new : Modes]]
      BY <2>2 DEF SetCreates, ModeInv, CallAt
    <3>. QED
      BY <2>2, <3>1, <3>2 DEF SetCreates, ModeInv
  <2>3. CASE SetCommits(c)
    BY <2>3 DEF SetCommits, Saved, ModeInv, CallAt
  <2>. QED  BY <1>6, <2>1, <2>2, <2>3
<1>7. CASE Sample
  BY <1>7 DEF Sample, modeVars, ModeInv
<1>8. CASE ReadByOthers
  BY <1>8 DEF ReadByOthers, ModeInv, Modes
<1>9. CASE UNCHANGED vars
  BY <1>9, QueueStep DEF vars
<1>. QED
  BY <1>1, <1>2, <1>3, <1>4, <1>5, <1>6, <1>7, <1>8, <1>9 DEF Next

(* Under any mode changes, pressure and interleaving of the requests that  *)
(* apply policies, the scheduler goes through a behaviour of its own: the  *)
(* limits are always those of one mode under one level.                    *)
THEOREM AdmissionImplementsScheduler == Spec => ImplementsScheduler
<1>1. Init => ModeInv /\ S!Init
  BY ModeInvInit DEF Init
<1>2. ModeInv /\ [Next]_vars => ModeInv' /\ [S!Next]_S!vars
  BY Step DEF schedVars, S!vars
<1>. QED
  BY <1>1, <1>2, PTL DEF Spec, ImplementsScheduler, S!Spec

-----------------------------------------------------------------------------
LEMMA ConstantsOfScheduler ==
  /\ UserOf \in [Requests -> Users]
  /\ Priorities \subseteq Int
  /\ Policies \subseteq [ceiling : Int, per_user : Int]
  /\ InitialPolicy \in [ceiling : Int, per_user : Int]
  /\ QueueMaxDepth \in Int
<1>1. UserOf \in [Requests -> Users] /\ QueueMaxDepth \in Int
  BY AdmissionAssumption
<1>2. Priorities \subseteq Int
  BY AdmissionAssumption DEF Priorities
<1>3. \A m \in Modes, l \in Levels \cup {"LOW"} :
         PolicyOf(m, l) \in [ceiling : Int, per_user : Int]
  BY AdmissionAssumption DEF PolicyOf, Ceiling, PerUserCap
<1>4. InitialPolicy \in [ceiling : Int, per_user : Int]
  BY AdmissionAssumption DEF InitialPolicy
<1>. QED  BY <1>1, <1>2, <1>3, <1>4 DEF Policies

LEMMA CeilingBound ==
  \A p \in Policies \cup {InitialPolicy} :
      p.ceiling \in Int /\ p.ceiling <= MaxActiveJobs
<1>1. \A m \in Modes, l \in Levels \cup {"LOW"} :
         /\ Ceiling(m, l) \in Int
         /\ Ceiling(m, l) <= MaxActiveJobs
  BY AdmissionAssumption DEF Ceiling
<1>. QED
  BY <1>1, AdmissionAssumption DEF Policies, PolicyOf, InitialPolicy

(* The steps of the two instances of Scheduler are the same.               *)
LEMMA SameSteps == [S!Next]_schedVars => [G!Next]_G!vars
BY DEF schedVars, G!vars, S!Next, G!Next,
       S!RejectFull, S!Admit, S!WakeUp, S!QueueTimeout, S!Cancel, S!CancelQueued,
       S!Release, S!ApplyPolicy, S!NotifyAll, S!TryPromote, S!IsPromoted,
       S!Ahead, S!OfUser, S!Precedes, S!Cardinality,
       G!RejectFull, G!Admit, G!WakeUp, G!QueueTimeout, G!Cancel, G!CancelQueued,
       G!Release, G!ApplyPolicy, G!NotifyAll, G!TryPromote, G!IsPromoted,
       G!Ahead, G!OfUser, G!Precedes, G!Cardinality

LEMMA CeilingKept ==
  ASSUME G!CeilingInv, [G!Next]_G!vars
  PROVE  G!CeilingInv'
BY ConstantsOfScheduler, G!CeilingStep

(* The slots taken never exceed LARA_MAX_ACTIVE_JOBS.                      *)
THEOREM ConfiguredCeilingHolds == Spec => []NeverAboveConfigured
<1>1. Init => G!CeilingInv
  BY ConstantsOfScheduler, G!CeilingInit DEF Init, S!Init, G!Init
<1>2. ModeInv /\ G!CeilingInv /\ [Next]_vars => ModeInv' /\ G!CeilingInv'
  BY Step, SameSteps, CeilingKept
<1>3. G!CeilingInv => NeverAboveConfigured
  <2>. SUFFICES ASSUME G!CeilingInv PROVE NeverAboveConfigured
    OBVIOUS
  <2>1. active_count \in Nat /\ G!NeverAboveCeilings
    BY DEF G!CeilingInv, G!GrantInv, G!Inv, G!TypeOK
  <2>. QED
    BY <2>1, CeilingBound, AdmissionAssumption
       DEF G!NeverAboveCeilings, NeverAboveConfigured
<1>. QED
  BY <1>1, <1>2, <1>3, ModeInvInit, PTL DEF Spec

-----------------------------------------------------------------------------
(* While the row is absent nobody has changed the mode, or is about to.    *)
AuditInv ==
    /\ mode = "absent" =>
          audit = <<>> /\ \A c \in ModeCalls : set[c].at # "committing"
    /\ audit \in Seq([previous : Modes, new : Modes])
    /\ AuditExplainsMode

RestTyped ==
    /\ at \in [Requests -> {"new", "creating", "read", "applied", "entered", "failed"}]
    /\ in_force \in Modes

(* Under PERSONAL the cap does not bind, and only owners have the bonus.   *)
OwnerInv ==
    /\ in_force = "PERSONAL" => policy.ceiling <= policy.per_user
    /\ \A v \in waiting : IsBoosted(v) => UserOf[v] \in Owners

AdmissionInv == ModeInv /\ G!CeilingInv /\ AuditInv /\ RestTyped /\ OwnerInv

(* What any step does to the mode row, the audit and the applied policy.   *)
LEMMA AuditStep ==
  ASSUME ModeInv, AuditInv, [Next]_vars
  PROVE  AuditInv'
<1>1. ASSUME UNCHANGED <<mode, audit, set>> PROVE AuditInv'
  BY <1>1 DEF AuditInv, AuditExplainsMode
<1>2. ASSUME mode = "absent", mode' \in Modes, audit' = audit PROVE AuditInv'
  BY <1>2 DEF AuditInv, AuditExplainsMode, Modes
<1>3. ASSUME NEW r \in Requests, CreateMode(r) PROVE AuditInv'
  BY <1>1, <1>2, <1>3 DEF CreateMode, Modes
<1>4. CASE ReadByOthers
  BY <1>2, <1>4 DEF ReadByOthers, Modes
<1>5. ASSUME NEW c \in ModeCalls, SetReads(c) PROVE AuditInv'
  <2>1. mode' = mode /\ audit' = audit
    BY <1>5 DEF SetReads
  <2>2. mode = "absent" => \A d \in ModeCalls : set'[d].at # "committing"
    BY <1>5 DEF SetReads, AuditInv, ModeInv
  <2>. QED  BY <2>1, <2>2 DEF AuditInv, AuditExplainsMode
<1>6. ASSUME NEW c \in ModeCalls, SetCreates(c) PROVE AuditInv'
  <2>1. CASE mode = "absent"
    BY <1>2, <1>6, <2>1 DEF SetCreates, Modes
  <2>2. CASE mode # "absent"
    BY <1>6, <2>2 DEF SetCreates, AuditInv, AuditExplainsMode
  <2>. QED  BY <2>1, <2>2
<1>7. ASSUME NEW c \in ModeCalls, SetCommits(c) PROVE AuditInv'
  <2>. DEFINE e == [previous |-> set[c].previous, new |-> set[c].new]
              n == Len(audit)
  <2>1. /\ e \in [previous : Modes, new : Modes]
        /\ audit \in Seq([previous : Modes, new : Modes])
        /\ audit' = Append(audit, e)
        /\ mode' = IF e.new # e.previous THEN e.new ELSE mode
    BY <1>7 DEF SetCommits, Saved, ModeInv, AuditInv
  <2>2. mode # "absent" /\ mode' # "absent"
    BY <1>7, <2>1 DEF SetCommits, AuditInv, Modes
  <2>3. /\ audit' \in Seq([previous : Modes, new : Modes])
        /\ n \in Nat /\ Len(audit') = n + 1
        /\ \A i \in 1..n : audit'[i] = audit[i]
        /\ audit'[n + 1] = e
    BY <2>1
  <2>. HIDE DEF e, n
  <2>4. ASSUME NEW i \in DOMAIN audit', audit'[i].previous # audit'[i].new,
               \A j \in (i + 1)..Len(audit') : audit'[j].previous = audit'[j].new
        PROVE  mode' = audit'[i].new
    <3>1. i \in 1..(n + 1)
      BY <2>3
    <3>2. CASE i = n + 1
      BY <2>1, <2>3, <2>4, <3>2
    <3>3. CASE i \in 1..n
      <4>1. e.new = e.previous
        BY <2>3, <2>4, <3>3
      <4>2. \A j \in (i + 1)..n : audit[j].previous = audit[j].new
        BY <2>3, <2>4, <3>3
      <4>3. mode = audit[i].new
        BY <2>1, <2>3, <2>4, <3>3, <4>2 DEF AuditInv, AuditExplainsMode, n
      <4>. QED  BY <2>1, <2>3, <3>3, <4>1, <4>3
    <3>. QED  BY <2>3, <3>1, <3>2, <3>3
  <2>. QED  BY <2>2, <2>3, <2>4 DEF AuditInv, AuditExplainsMode
<1>8. ASSUME NEW r \in Requests,
             \/ ReadMode(r) \/ Apply(r) \/ Enter(r) \/ Fail(r)
             \/ WakeUp(r) \/ QueueTimeout(r) \/ Cancel(r) \/ CancelQueued(r)
             \/ Release(r)
      PROVE  UNCHANGED <<mode, audit, set>>
  BY <1>8 DEF ReadMode, Apply, Enter, Fail, WakeUp, QueueTimeout, Cancel,
              CancelQueued, Release, modeVars
<1>9. CASE Sample \/ UNCHANGED vars
  BY <1>1, <1>9 DEF Sample, vars, modeVars
<1>. QED
  BY <1>1, <1>3, <1>4, <1>5, <1>6, <1>7, <1>8, <1>9 DEF Next

LEMMA RestStep ==
  ASSUME ModeInv, RestTyped, [Next]_vars
  PROVE  RestTyped'
<1>1. ASSUME NEW r \in Requests, ReadMode(r) \/ CreateMode(r) PROVE RestTyped'
  <2>1. CASE ReadMode(r)
    BY <2>1 DEF ReadMode, RestTyped
  <2>2. CASE CreateMode(r)
    BY <2>2 DEF CreateMode, RestTyped
  <2>. QED  BY <1>1, <2>1, <2>2
<1>2. ASSUME NEW r \in Requests, Apply(r) PROVE RestTyped'
  BY <1>2 DEF Apply, RestTyped, ModeInv
<1>3. ASSUME NEW r \in Requests, Enter(r) \/ Fail(r) PROVE RestTyped'
  BY <1>3 DEF Enter, Fail, RestTyped
<1>4. CASE UNCHANGED <<at, in_force>>
  BY <1>4 DEF RestTyped
<1>5. ASSUME NEW r \in Requests,
             WakeUp(r) \/ QueueTimeout(r) \/ Cancel(r) \/ CancelQueued(r) \/ Release(r)
      PROVE  UNCHANGED <<at, in_force>>
  BY <1>5 DEF WakeUp, QueueTimeout, Cancel, CancelQueued, Release, modeVars
<1>6. ASSUME NEW c \in ModeCalls, SetReads(c) \/ SetCreates(c) \/ SetCommits(c)
      PROVE  UNCHANGED <<at, in_force>>
  BY <1>6 DEF SetReads, SetCreates, SetCommits
<1>7. ASSUME ReadByOthers \/ Sample \/ UNCHANGED vars
      PROVE  UNCHANGED <<at, in_force>>
  BY <1>7 DEF ReadByOthers, Sample, vars, modeVars
<1>. QED
  BY <1>1, <1>2, <1>3, <1>4, <1>5, <1>6, <1>7 DEF Next

(* Who enters the queue does so with the priority of his role and mode.    *)
Queued == \E r \in Requests :
    /\ waiter' = [waiter EXCEPT ![r] = [priority |-> Priority(r), seq |-> seq_counter]]
    /\ waiting' \subseteq waiting \cup {r}

LEMMA QueueOrApply ==
  ASSUME [Next]_vars
  PROVE  /\ Queued \/ (waiter' = waiter /\ waiting' \subseteq waiting)
         /\ \/ \E r \in Requests : Apply(r)
            \/ UNCHANGED <<in_force, policy>>
<1>1. ASSUME NEW r \in Requests, Enter(r)
      PROVE  /\ Queued \/ UNCHANGED <<waiter, waiting>>
             /\ UNCHANGED <<in_force, policy>>
  <2>1. CASE S!RejectFull(r)
    BY <1>1, <2>1 DEF Enter, S!RejectFull
  <2>2. CASE S!Admit(r, Priority(r))
    <3>1. PICK P \in SUBSET (waiting \cup {r}) : waiting' = (waiting \cup {r}) \ P
      BY <2>2 DEF S!Admit, S!TryPromote
    <3>2. /\ waiter' = [waiter EXCEPT ![r] =
                           [priority |-> Priority(r), seq |-> seq_counter]]
          /\ policy' = policy
      BY <2>2 DEF S!Admit
    <3>3. waiting' \subseteq waiting \cup {r}
      BY <3>1
    <3>4. Queued
      BY <3>2, <3>3 DEF Queued
    <3>. QED  BY <1>1, <3>2, <3>4 DEF Enter
  <2>. QED  BY <1>1, <2>1, <2>2 DEF Enter
<1>2. ASSUME NEW r \in Requests, Apply(r) PROVE UNCHANGED <<waiter, waiting>>
  BY <1>2 DEF Apply, S!ApplyPolicy
<1>3. ASSUME NEW r \in Requests,
             WakeUp(r) \/ QueueTimeout(r) \/ Cancel(r) \/ CancelQueued(r) \/ Release(r)
      PROVE  waiter' = waiter /\ waiting' \subseteq waiting
             /\ UNCHANGED <<in_force, policy>>
  <2>1. CASE CancelQueued(r) \/ Release(r)
    BY <2>1 DEF CancelQueued, Release, S!CancelQueued, S!Release, S!TryPromote, modeVars
  <2>2. CASE WakeUp(r) \/ QueueTimeout(r) \/ Cancel(r)
    BY <2>2 DEF WakeUp, QueueTimeout, Cancel, S!WakeUp, S!QueueTimeout, S!Cancel,
                modeVars
  <2>. QED  BY <1>3, <2>1, <2>2
<1>4. ASSUME NEW r \in Requests, ReadMode(r) \/ CreateMode(r) \/ Fail(r)
      PROVE  UNCHANGED <<schedVars, in_force>>
  BY <1>4 DEF ReadMode, CreateMode, Fail
<1>5. ASSUME NEW c \in ModeCalls, SetReads(c) \/ SetCreates(c) \/ SetCommits(c)
      PROVE  UNCHANGED <<schedVars, in_force>>
  BY <1>5 DEF SetReads, SetCreates, SetCommits
<1>6. ASSUME ReadByOthers \/ Sample \/ UNCHANGED vars
      PROVE  UNCHANGED <<schedVars, in_force>>
  BY <1>6 DEF ReadByOthers, Sample, vars, modeVars
<1>7. ASSUME UNCHANGED <<schedVars, in_force>>
      PROVE  UNCHANGED <<waiter, waiting, in_force, policy>>
  BY <1>7 DEF schedVars
<1>. QED
  BY <1>1, <1>2, <1>3, <1>4, <1>5, <1>6, <1>7 DEF Next

LEMMA OwnerStep ==
  ASSUME ModeInv, G!CeilingInv, OwnerInv, [Next]_vars
  PROVE  OwnerInv'
<1>1. in_force' = "PERSONAL" => policy'.ceiling <= policy'.per_user
  <2>1. ASSUME NEW r \in Requests, Apply(r), in_force' = "PERSONAL"
        PROVE  policy'.ceiling <= policy'.per_user
    <3>1. policy' = PolicyOf("PERSONAL", level)
      BY <2>1 DEF Apply, S!ApplyPolicy
    <3>. QED  BY <3>1, AdmissionAssumption DEF PolicyOf, Ceiling, PerUserCap
  <2>. QED  BY <2>1, QueueOrApply DEF OwnerInv
<1>2. ASSUME NEW v \in waiting', IsBoosted(v)'
      PROVE  UserOf[v] \in Owners
  <2>1. CASE waiter' = waiter /\ waiting' \subseteq waiting
    BY <1>2, <2>1 DEF OwnerInv, IsBoosted
  <2>2. ASSUME NEW r \in Requests,
               waiter' = [waiter EXCEPT ![r] =
                            [priority |-> Priority(r), seq |-> seq_counter]],
               waiting' \subseteq waiting \cup {r}
        PROVE  UserOf[v] \in Owners
    <3>1. waiter \in [Requests -> [priority : Int, seq : Nat]]
      BY DEF G!CeilingInv, G!GrantInv, G!Inv, G!TypeOK
    <3>2. CASE v = r
      <4>1. Priority(r) > RolePriority[UserOf[r]]
        BY <1>2, <2>2, <3>1, <3>2 DEF IsBoosted
      <4>2. RolePriority[UserOf[r]] \in Int
        BY AdmissionAssumption
      <4>. QED  BY <3>2, <4>1, <4>2 DEF Priority
    <3>3. CASE v # r
      BY <1>2, <2>2, <3>1, <3>3 DEF OwnerInv, IsBoosted
    <3>. QED  BY <3>2, <3>3
  <2>. QED  BY <2>1, <2>2, QueueOrApply DEF Queued
<1>. QED  BY <1>1, <1>2 DEF OwnerInv

(* Whoever is granted a slot under PERSONAL precedes all who go on waiting,*)
(* and a request without the bonus precedes none that has it.              *)
LEMMA OwnerGranted ==
  ASSUME ModeInv, G!CeilingInv, OwnerInv, [Next]_vars, in_force = "PERSONAL",
         NEW w \in promoted' \ promoted, NEW v \in waiting', IsBoosted(v)'
  PROVE  IsBoosted(w)'
<1>1. [G!Next]_G!vars
  BY Step, SameSteps
<1>2. G!GrantRules /\ G!CeilingInv'
  BY <1>1, ConstantsOfScheduler, G!GrantStep, CeilingKept DEF G!CeilingInv
<1>3. ~ G!Precedes(waiter', v, w)
  BY <1>2 DEF G!GrantRules, G!StrictOrder, OwnerInv
<1>4. /\ v \in Requests /\ w \in Requests
      /\ waiter' \in [Requests -> [priority : Int, seq : Nat]]
  BY <1>2 DEF G!CeilingInv, G!GrantInv, G!Inv, G!TypeOK
<1>5. UserOf[v] \in Owners
  BY OwnerStep DEF OwnerInv
<1>6. /\ RolePriority[UserOf[v]] \in Int /\ RolePriority[UserOf[w]] \in Int
      /\ RolePriority[UserOf[w]] <= RolePriority[UserOf[v]]
  BY <1>4, <1>5, AdmissionAssumption, OwnerRankAssumption
<1>7. waiter'[v].priority <= waiter'[w].priority
  BY <1>3, <1>4 DEF G!Precedes
<1>. QED  BY <1>4, <1>6, <1>7 DEF IsBoosted

-----------------------------------------------------------------------------
(* The scheduler, the mode row, its audit and the limits in force stay     *)
(* together under overlapping mode changes, requests and samples.          *)
THEOREM AdmissionInvariance == Spec => []AdmissionInv
<1>1. Init => AdmissionInv
  <2>. SUFFICES ASSUME Init PROVE AdmissionInv
    OBVIOUS
  <2>1. ModeInv /\ G!CeilingInv
    BY ModeInvInit, ConstantsOfScheduler, G!CeilingInit DEF Init, S!Init, G!Init
  <2>2. AuditInv
    BY DEF Init, AuditInv, AuditExplainsMode
  <2>3. RestTyped
    BY DEF Init, RestTyped, Modes
  <2>4. OwnerInv
    BY DEF Init, S!Init, OwnerInv
  <2>. QED  BY <2>1, <2>2, <2>3, <2>4 DEF AdmissionInv
<1>2. AdmissionInv /\ [Next]_vars => AdmissionInv'
  <2>. SUFFICES ASSUME AdmissionInv, [Next]_vars PROVE AdmissionInv'
    OBVIOUS
  <2>1. ModeInv' /\ G!CeilingInv'
    BY Step, SameSteps, CeilingKept DEF AdmissionInv
  <2>. QED
    BY <2>1, AuditStep, RestStep, OwnerStep DEF AdmissionInv
<1>. QED  BY <1>1, <1>2, PTL DEF Spec

(* The scheduler's state, the mode row, its audit and every request on the *)
(* way are well typed; a request only ever applies a mode that exists.     *)
THEOREM AdmissionTypeCorrect == Spec => []TypeOK
<1>1. AdmissionInv => TypeOK
  <2>. SUFFICES ASSUME AdmissionInv PROVE TypeOK
    OBVIOUS
  <2>1. S!TypeOK
    BY DEF AdmissionInv, G!CeilingInv, G!GrantInv, G!Inv, G!TypeOK, S!TypeOK, G!Pc, S!Pc
  <2>. QED  BY <2>1 DEF AdmissionInv, ModeInv, AuditInv, RestTyped, TypeOK, CallAt
<1>. QED  BY AdmissionInvariance, <1>1, PTL

(* However calls of POST /admin/mode overlap, the row holds the mode of the*)
(* last audited change.                                                    *)
THEOREM AuditAlwaysExplains == Spec => []AuditExplainsMode
<1>1. AdmissionInv => AuditExplainsMode
  BY DEF AdmissionInv, AuditInv
<1>. QED  BY AdmissionInvariance, <1>1, PTL

(* Under PERSONAL no request without the bonus is granted a slot beside an *)
(* owner's that has it and waits, for any number of slots and requests.    *)
THEOREM OwnersFirst == Spec => OwnerFirst
<1>1. AdmissionInv /\ [Next]_vars =>
        [in_force = "PERSONAL" =>
            \A w \in promoted' \ promoted : \A v \in waiting' :
                IsBoosted(v)' => IsBoosted(w)']_vars
  BY OwnerGranted DEF AdmissionInv
<1>. QED  BY AdmissionInvariance, <1>1, PTL DEF Spec, OwnerFirst
==============================================================================
