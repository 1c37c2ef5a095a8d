------------------------------- MODULE Analytics -------------------------------
(***************************************************************************)
(* Usage analytics: the job rows that requests leave behind, the daily     *)
(* rollup (analytics/rollup.py, POST /admin/analytics/rollup) that turns   *)
(* the jobs of a day into rows of usage_daily, and the retention pass      *)
(* (analytics/retention.py) that deletes old jobs.  Rollups may overlap    *)
(* with each other, with retention and with running requests: a rollup is  *)
(* one PostgreSQL transaction under READ COMMITTED, so that each of its    *)
(* statements sees what is committed at that moment.                       *)
(*                                                                         *)
(* Of a usage row the model keeps the number of requests, of completed     *)
(* ones and of agent sessions; the other counts, sums and means are        *)
(* computed from the same jobs in the same way.                            *)
(***************************************************************************)
EXTENDS Integers, FiniteSets, Sequences, SequencesExt

CONSTANTS
    Jobs,
    GroupOf,        \* the (user, model) pair of each job
    Outcomes,       \* terminal states a job may end in
    Rollups,        \* sessions that run rollups, one after the other
    Days,           \* the days that are rolled up
    TicksPerDay,
    SessionIdleGap, \* SESSION_IDLE_GAP_S, in ticks
    JobsDays,       \* LARA_RETENTION_JOBS_DAYS
    MaxNow          \* bound on the clock

ASSUME AnalyticsAssumption ==
    /\ Days \subseteq Nat
    /\ TicksPerDay \in Nat \ {0}
    /\ SessionIdleGap \in Nat
    /\ JobsDays \in Nat
    /\ MaxNow \in Nat
    /\ "open" \notin Outcomes

VARIABLES
    now,        \* the clock
    received,   \* received_at of the jobs received so far
    status,     \* their status after the last write, "open" before it
    deleted,    \* the jobs whose row retention has deleted
    usage,      \* usage_daily: for each day the rows of some groups
    rollup,     \* where each rollup stands, what it has read and found
    complete,   \* history: rollups that have read all of a day that is over
    exact       \* history: days whose last change is by such a rollup

vars == <<now, received, status, deleted, usage, rollup, complete, exact>>

Groups == {GroupOf[j] : j \in Jobs}
UsageRow == [requests : Nat, completed : Nat, sessions : Nat]
AreRows(rows) == DOMAIN rows \subseteq Groups /\ \A g \in DOMAIN rows : rows[g] \in UsageRow
NoRows == [g \in {} |-> 0]

Received == DOMAIN received
Stored == Received \ deleted

Start(d) == d * TicksPerDay
End(d) == (d + 1) * TicksPerDay

(* The jobs ever received on day d.                                        *)
JobsOf(d) == {j \in Received : Start(d) <= received[j] /\ received[j] < End(d)}

(* A faulty DayJobs, for Reconciles: the last tick of the day is left out. *)
DayJobs_OffByOne(d) == {j \in Stored : Start(d) <= received[j] /\ received[j] < End(d) - 1}

(* The select over received_at, from time.min to time.max.                 *)
DayJobs(d) == {j \in Stored : Start(d) <= received[j] /\ received[j] < End(d)}

(* The columns of the jobs J that a rollup uses.                           *)
Fetched(J) == [j \in J |-> [at |-> received[j], status |-> status[j]]]

TypeOK ==
    /\ now \in 0..MaxNow
    /\ received \in UNION {[J -> 0..MaxNow] : J \in SUBSET Jobs}
    /\ status \in [Received -> Outcomes \cup {"open"}]
    /\ deleted \subseteq Received
    /\ DOMAIN usage = Days /\ \A d \in Days : AreRows(usage[d])
    /\ DOMAIN rollup = Rollups
    /\ \A c \in Rollups :
          /\ DOMAIN rollup[c] = {"at", "day", "rows", "found"}
          /\ rollup[c].at \in {"idle", "read", "listed", "deleted"}
          /\ rollup[c].day \in Days
          /\ AreRows(rollup[c].rows)
          /\ rollup[c].found \subseteq DOMAIN usage[rollup[c].day]
    /\ complete \subseteq Rollups
    /\ exact \subseteq Days
    /\ \A d \in Days : \A g \in DOMAIN usage[d] :
          usage[d][g].sessions \in 1..usage[d][g].requests

Idle(d) == [at |-> "idle", day |-> d, rows |-> NoRows, found |-> {}]

Init ==
    /\ now = 0
    /\ received = [j \in {} |-> 0]
    /\ status = [j \in {} |-> "open"]
    /\ deleted = {}
    /\ usage = [d \in Days |-> NoRows]
    /\ rollup \in [Rollups -> {Idle(d) : d \in Days}]
    /\ complete = {}
    /\ exact = {}

-----------------------------------------------------------------------------
(* A faulty Ordered, for SessionsAreRuns: the order of the query is kept.  *)
Ordered_AsRead(jobs) == SetToSeq(DOMAIN jobs)

(* sorted(received_ats), here of the jobs themselves.                      *)
Ordered(jobs) ==
    LET n == Cardinality(DOMAIN jobs)
    IN  CHOOSE q \in [1..n -> DOMAIN jobs] :
            \A i, j \in 1..n : i < j => q[i] # q[j] /\ jobs[q[i]].at <= jobs[q[j]].at

(* The jobs, by place in that order, that follow a gap.                    *)
AfterGap(jobs) ==
    LET s == Ordered(jobs)
    IN  {i \in 2..Len(s) : jobs[s[i]].at - jobs[s[i - 1]].at > SessionIdleGap}

(* A faulty CountSessions, for TypeOK: the first session is not counted.   *)
CountSessions_GapsOnly(jobs) == Cardinality(AfterGap(jobs))

(* _count_sessions of a group, which is never empty.                       *)
CountSessions(jobs) == 1 + Cardinality(AfterGap(jobs))

(* The usage row of the jobs of one group, and those of all the groups     *)
(* that have any.                                                          *)
Row(jobs) == [requests |-> Cardinality(DOMAIN jobs),
              completed |-> Cardinality({j \in DOMAIN jobs : jobs[j].status = "COMPLETED"}),
              sessions |-> CountSessions(jobs)]

RowsOf(jobs) ==
    [g \in {GroupOf[j] : j \in DOMAIN jobs} |->
        Row([j \in {i \in DOMAIN jobs : GroupOf[i] = g} |-> jobs[j]])]

-----------------------------------------------------------------------------
(* The gateway inserts a job and, after whatever else it and the cancel    *)
(* endpoints write to the row (see Gateway), writes it for the last time.  *)
Receive(j) ==
    /\ j \in Jobs \ Received
    /\ received' = [i \in Received \cup {j} |-> IF i = j THEN now ELSE received[i]]
    /\ status' = [i \in Received \cup {j} |-> IF i = j THEN "open" ELSE status[i]]
    /\ UNCHANGED <<now, deleted, usage, rollup, complete, exact>>

Finish(j) ==
    /\ j \in Stored /\ status[j] = "open"
    /\ \E o \in Outcomes : status' = [status EXCEPT ![j] = o]
    /\ UNCHANGED <<now, received, deleted, usage, rollup, complete, exact>>

Tick ==
    /\ now < MaxNow
    /\ now' = now + 1
    /\ UNCHANGED <<received, status, deleted, usage, rollup, complete, exact>>

(* apply_retention: the jobs received before the cutoff, in one statement. *)
Retain ==
    /\ deleted' = deleted \cup {j \in Stored : received[j] < now - JobsDays * TicksPerDay}
    /\ UNCHANGED <<now, received, status, usage, rollup, complete, exact>>

-----------------------------------------------------------------------------
(* The day is over, all its jobs have ended and none is deleted.           *)
IsComplete(d) ==
    /\ End(d) <= now
    /\ \A j \in JobsOf(d) : status[j] # "open" /\ j \notin deleted

(* rollup_day, the first query: the jobs of the day as they are now.       *)
Reads(c, d) ==
    /\ rollup[c].at = "idle"
    /\ rollup' = [rollup EXCEPT ![c] =
                     [at |-> "read", day |-> d, rows |-> RowsOf(Fetched(DayJobs(d))),
                      found |-> {}]]
    /\ complete' = IF IsComplete(d) THEN complete \cup {c} ELSE complete
    /\ UNCHANGED <<now, received, status, deleted, usage, exact>>

(* The second query: the usage rows of the day.                            *)
Lists(c) ==
    /\ rollup[c].at = "read"
    /\ rollup' = [rollup EXCEPT ![c].at = "listed",
                                ![c].found = DOMAIN usage[rollup[c].day]]
    /\ UNCHANGED <<now, received, status, deleted, usage, complete, exact>>

(* Another rollup of the day has deleted a row of G and has not committed. *)
Locked(c, G) ==
    \E o \in Rollups \ {c} :
        /\ rollup[o].at = "deleted" /\ rollup[o].day = rollup[c].day
        /\ rollup[o].found \cap G # {}

(* The flush: it deletes the rows found, once nobody else is doing so.     *)
Deletes(c) ==
    /\ rollup[c].at = "listed"
    /\ ~Locked(c, rollup[c].found)
    /\ rollup' = [rollup EXCEPT ![c].at = "deleted"]
    /\ UNCHANGED <<now, received, status, deleted, usage, complete, exact>>

(* A faulty Conflict, for Overwrites: INSERT ... ON CONFLICT DO UPDATE.     *)
Conflict_Upserts(old, kept, rows) == FALSE

(* An insert for a key that is still there, or there again, violates the   *)
(* primary key (day, user_id, model_alias).                                *)
Conflict(old, kept, rows) == kept \cap DOMAIN rows # {}

(* The rows of a day with the rows inserted beside those that are kept.    *)
Inserted(old, kept, rows) ==
    [g \in kept \cup DOMAIN rows |-> IF g \in DOMAIN rows THEN rows[g] ELSE old[g]]

(* The inserts and the commit.  The delete another rollup has still to     *)
(* make of a row that this one has deleted will find nothing.              *)
Commits(c) ==
    LET d == rollup[c].day
        rows == rollup[c].rows
        found == rollup[c].found
        kept == DOMAIN usage[d] \ found
    IN  /\ rollup[c].at = "deleted"
        /\ ~Locked(c, DOMAIN rows)
        /\ ~Conflict(usage[d], kept, rows)
        /\ usage' = [usage EXCEPT ![d] = Inserted(usage[d], kept, rows)]
        /\ rollup' = [o \in Rollups |->
                         IF o = c THEN Idle(d)
                         ELSE IF rollup[o].day = d
                                THEN [rollup[o] EXCEPT !.found = @ \ found]
                                ELSE rollup[o]]
        /\ complete' = complete \ {c}
        /\ exact' = IF DOMAIN rows \cup found = {} THEN exact
                    ELSE IF c \in complete THEN exact \cup {d}
                    ELSE exact \ {d}
        /\ UNCHANGED <<now, received, status, deleted>>

(* IntegrityError, a deadlock, a lost connection: the transaction is       *)
(* rolled back and the call answers 503.                                   *)
Fails(c) ==
    /\ rollup[c].at # "idle"
    /\ rollup' = [rollup EXCEPT ![c] = Idle(rollup[c].day)]
    /\ complete' = complete \ {c}
    /\ UNCHANGED <<now, received, status, deleted, usage, exact>>

Next ==
    \/ \E j \in Jobs : Receive(j) \/ Finish(j)
    \/ Tick \/ Retain
    \/ \E c \in Rollups :
          \/ \E d \in Days : Reads(c, d)
          \/ Lists(c) \/ Deletes(c) \/ Commits(c) \/ Fails(c)

Spec == Init /\ [][Next]_vars

-----------------------------------------------------------------------------
(* "Rollups reconcile against raw `jobs`", and their rows are "kept after  *)
(* `jobs` rows are deleted": when the last rollup that changed a day had   *)
(* read all of it after its end, the usage of the day is that of all its   *)
(* jobs, also after retention, and whichever rollups it overlapped.        *)
Reconciles == \A d \in exact : usage[d] = RowsOf(Fetched(JobsOf(d)))

(* "Recomputes and overwrites that day's rows": a rollup that commits any  *)
(* row leaves the day with exactly the rows it has computed, never mixed   *)
(* with those of an overlapping rollup, as long as retention has deleted   *)
(* none of the day's jobs.                                                 *)
Overwrites ==
    [][\A c \in Rollups :
          LET d == rollup[c].day IN
          /\ rollup[c].at = "deleted" /\ rollup'[c].at = "idle"
          /\ usage'[d] # usage[d]
          /\ rollup[c].rows # NoRows
          /\ JobsOf(d) \cap deleted = {}
          => usage'[d] = rollup[c].rows]_vars

(* "A run of requests with a gap below this threshold": the sessions of    *)
(* any jobs are as many as the moments of a request that no request        *)
(* precedes within the gap, in whatever order the query returns the jobs.  *)
SessionsAreRuns ==
    \A J \in (SUBSET Stored) \ {{}} :
        LET times == {received[j] : j \in J} IN
        CountSessions(Fetched(J)) =
            Cardinality({t \in times :
                \A s \in times : s < t => t - s > SessionIdleGap})
==============================================================================
