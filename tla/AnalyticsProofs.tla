--------------------------- MODULE AnalyticsProofs ---------------------------
(***************************************************************************)
(* Rollups reconcile and overwrite, for any jobs, days, windows and number *)
(* of overlapping rollups.                                                 *)
(*                                                                         *)
(* Ledger is the inductive invariant of Reconciles: what a complete rollup *)
(* carries, and what an exact day holds, are the rows of all the jobs of a *)
(* day that is over, so that no later step can change them.  Chain is what *)
(* Overwrites adds: as long as no job of a day is deleted, the groups that *)
(* its rollups have read, and those that have rows, can be ordered by      *)
(* inclusion, so that two nonempty ones share a key.                       *)
(*                                                                         *)
(* The sessions of a row are counted over a sorted list; GapPlaces and     *)
(* OneForEachStart map its gaps one to one to the starts of sessions.      *)
(***************************************************************************)
EXTENDS Analytics, OrderingLemmas

IsFunction(f) == f = [x \in DOMAIN f |-> f[x]]

Shape ==
    /\ now \in Nat
    /\ DOMAIN received \subseteq Jobs
    /\ \A j \in Received : received[j] \in Nat /\ received[j] <= now
    /\ DOMAIN status = Received
    /\ deleted \subseteq Received
    /\ DOMAIN usage = Days
    /\ DOMAIN rollup = Rollups
    /\ \A c \in Rollups :
          rollup[c] = [at |-> rollup[c].at, day |-> rollup[c].day,
                       rows |-> rollup[c].rows, found |-> rollup[c].found]
    /\ \A c \in Rollups : rollup[c].day \in Days
    /\ \A c \in Rollups : IsFunction(rollup[c].rows)

GroupsOf(J) == {GroupOf[j] : j \in J}

(* The day is over and its jobs have ended: they stay as they are.         *)
Closed(d) == End(d) <= now /\ \A j \in JobsOf(d) : status[j] # "open"

Total(d) == RowsOf(Fetched(JobsOf(d)))

Ledger ==
    /\ Shape
    /\ \A d \in Days : DOMAIN usage[d] \subseteq GroupsOf(JobsOf(d))
    /\ \A c \in Rollups :
          DOMAIN rollup[c].rows \subseteq GroupsOf(JobsOf(rollup[c].day))
    /\ complete \subseteq Rollups
    /\ \A c \in complete :
          /\ rollup[c].at # "idle"
          /\ Closed(rollup[c].day)
          /\ rollup[c].rows = Total(rollup[c].day)
    /\ exact \subseteq Days
    /\ \A d \in exact : Closed(d) /\ usage[d] = Total(d)

-----------------------------------------------------------------------------
LEMMA DayBounds == \A d \in Days : Start(d) \in Nat /\ End(d) \in Nat
BY AnalyticsAssumption DEF Start, End

(* The groups of RowsOf are those of the jobs.                             *)
LEMMA DomainOfRows == \A J : DOMAIN RowsOf(Fetched(J)) = GroupsOf(J)
BY DEF RowsOf, Fetched, GroupsOf

LEMMA RowsOfNothing ==
  /\ DOMAIN NoRows = {}
  /\ IsFunction(NoRows)
  /\ \A f : IsFunction(f) /\ DOMAIN f = {} => f = NoRows
BY DEF NoRows, IsFunction

LEMMA RowsAreFunctions == \A jobs : IsFunction(RowsOf(jobs))
BY DEF RowsOf, IsFunction

LEMMA LedgerInit == Init => Ledger
<1> SUFFICES ASSUME Init PROVE Ledger
  OBVIOUS
<1>1. \A c \in Rollups : \E d \in Days : rollup[c] = Idle(d)
  BY DEF Init
<1>2. Shape
  BY <1>1, RowsOfNothing DEF Init, Shape, Idle, Received
<1>3. /\ \A d \in Days : DOMAIN usage[d] = {}
      /\ \A c \in Rollups : DOMAIN rollup[c].rows = {}
  BY <1>1, RowsOfNothing DEF Init, Idle
<1>. QED  BY <1>2, <1>3 DEF Init, Ledger

-----------------------------------------------------------------------------
(* What a commit makes of the rollups, field by field.                     *)
LEMMA AfterCommit ==
  ASSUME Shape, NEW c \in Rollups, Commits(c)
  PROVE  /\ rollup'[c].at = "idle" /\ DOMAIN rollup'[c].rows = {} /\ rollup'[c].found = {}
         /\ IsFunction(rollup'[c].rows)
         /\ \A o \in Rollups : rollup'[o].day = rollup[o].day
         /\ \A o \in Rollups :
               rollup'[o] = [at |-> rollup'[o].at, day |-> rollup'[o].day,
                             rows |-> rollup'[o].rows, found |-> rollup'[o].found]
         /\ \A o \in Rollups \ {c} :
               /\ rollup'[o].at = rollup[o].at
               /\ rollup'[o].rows = rollup[o].rows
               /\ rollup'[o].found = IF rollup[o].day = rollup[c].day
                                       THEN rollup[o].found \ rollup[c].found
                                       ELSE rollup[o].found
<1>1. rollup'[c] = [at |-> "idle", day |-> rollup[c].day, rows |-> NoRows, found |-> {}]
  BY DEF Commits, Idle
<1>2. /\ rollup'[c].at = "idle" /\ DOMAIN rollup'[c].rows = {} /\ rollup'[c].found = {}
      /\ IsFunction(rollup'[c].rows)
      /\ rollup'[c].day = rollup[c].day
      /\ rollup'[c] = [at |-> rollup'[c].at, day |-> rollup'[c].day,
                       rows |-> rollup'[c].rows, found |-> rollup'[c].found]
  BY <1>1, RowsOfNothing
<1>3. ASSUME NEW o \in Rollups \ {c}
      PROVE  /\ rollup'[o].at = rollup[o].at
             /\ rollup'[o].day = rollup[o].day
             /\ rollup'[o].rows = rollup[o].rows
             /\ rollup'[o].found = IF rollup[o].day = rollup[c].day
                                     THEN rollup[o].found \ rollup[c].found
                                     ELSE rollup[o].found
             /\ rollup'[o] = [at |-> rollup'[o].at, day |-> rollup'[o].day,
                              rows |-> rollup'[o].rows, found |-> rollup'[o].found]
  <2>1. rollup[o] = [at |-> rollup[o].at, day |-> rollup[o].day,
                     rows |-> rollup[o].rows, found |-> rollup[o].found]
    BY DEF Shape
  <2>2. CASE rollup[o].day = rollup[c].day
    <3>1. rollup'[o] = [rollup[o] EXCEPT !.found = rollup[o].found \ rollup[c].found]
      BY <2>2 DEF Commits
    <3>2. rollup'[o] = [at |-> rollup[o].at, day |-> rollup[o].day,
                        rows |-> rollup[o].rows,
                        found |-> rollup[o].found \ rollup[c].found]
      BY <2>1, <3>1
    <3>. QED  BY <2>2, <3>2
  <2>3. CASE rollup[o].day # rollup[c].day
    <3>1. rollup'[o] = rollup[o]
      BY <2>3 DEF Commits
    <3>. QED  BY <2>1, <2>3, <3>1
  <2>. QED  BY <2>2, <2>3
<1>. QED  BY <1>2, <1>3

(* A closed day keeps its jobs, their columns and thus its total, and no   *)
(* day loses a group of its jobs.                                          *)
LEMMA ClosedStays ==
  ASSUME Shape, [Next]_vars
  PROVE  /\ Shape'
         /\ \A d \in Days : GroupsOf(JobsOf(d)) \subseteq GroupsOf(JobsOf(d))'
         /\ \A d \in Days : Closed(d) => Closed(d)' /\ Total(d)' = Total(d)
<1>. USE DayBounds
<1>1. ASSUME NEW j \in Jobs, Receive(j)
      PROVE  /\ Shape'
             /\ \A d \in Days : GroupsOf(JobsOf(d)) \subseteq GroupsOf(JobsOf(d))'
             /\ \A d \in Days : Closed(d) => Closed(d)' /\ Total(d)' = Total(d)
  <2>1. /\ Received' = Received \cup {j}
        /\ \A i \in Received : received'[i] = received[i] /\ status'[i] = status[i]
        /\ received'[j] = now
        /\ j \notin Received
    BY <1>1 DEF Receive, Received
  <2>2. Shape'
    <3>1. DOMAIN status' = Received' /\ DOMAIN received' \subseteq Jobs
      BY <1>1, <2>1 DEF Receive, Shape, Received
    <3>2. \A i \in Received' : received'[i] \in Nat /\ received'[i] <= now'
      BY <1>1, <2>1 DEF Receive, Shape
    <3>. QED  BY <1>1, <2>1, <3>1, <3>2 DEF Receive, Shape
  <2>3. \A d \in Days : JobsOf(d) \subseteq JobsOf(d)'
    BY <2>1 DEF JobsOf
  <2>4. \A d \in Days : GroupsOf(JobsOf(d)) \subseteq GroupsOf(JobsOf(d))'
    BY <2>3 DEF GroupsOf
  <2>5. \A d \in Days : Closed(d) => JobsOf(d)' = JobsOf(d)
    BY <1>1, <2>1 DEF JobsOf, Closed, Shape, Receive
  <2>6. \A d \in Days : Closed(d) => Fetched(JobsOf(d))' = Fetched(JobsOf(d))
    BY <2>1, <2>5 DEF Fetched, JobsOf
  <2>7. \A d \in Days : Closed(d) => Closed(d)'
    BY <1>1, <2>1, <2>5 DEF Closed, JobsOf, Receive, End
  <2>. QED  BY <2>2, <2>4, <2>6, <2>7 DEF Total
<1>2. ASSUME NEW j \in Jobs, Finish(j)
      PROVE  /\ Shape'
             /\ \A d \in Days : GroupsOf(JobsOf(d)) \subseteq GroupsOf(JobsOf(d))'
             /\ \A d \in Days : Closed(d) => Closed(d)' /\ Total(d)' = Total(d)
  <2>1. /\ Received' = Received
        /\ \A i \in Received \ {j} : status'[i] = status[i]
        /\ DOMAIN status' = DOMAIN status
        /\ status[j] = "open"
        /\ UNCHANGED <<now, received, deleted, usage, rollup>>
    BY <1>2 DEF Finish, Received
  <2>2. Shape'
    BY <2>1 DEF Shape
  <2>3. \A d : JobsOf(d)' = JobsOf(d)
    BY <2>1 DEF JobsOf, Start, End
  <2>4. \A d \in Days : Closed(d) => j \notin JobsOf(d)
    BY <2>1 DEF Closed
  <2>5. \A d \in Days : Closed(d) => Fetched(JobsOf(d))' = Fetched(JobsOf(d))
    BY <2>1, <2>3, <2>4 DEF Fetched, JobsOf
  <2>6. \A d \in Days : Closed(d) => Closed(d)'
    BY <2>1, <2>3, <2>4 DEF Closed, JobsOf, End
  <2>. QED  BY <2>2, <2>3, <2>5, <2>6 DEF Total, GroupsOf
<1>3. CASE Tick
  <2>1. now' \in Nat /\ now <= now'
    BY <1>3 DEF Tick, Shape
  <2>2. UNCHANGED <<received, status, deleted, usage, rollup>>
    BY <1>3 DEF Tick
  <2>3. Shape'
    BY <2>1, <2>2 DEF Shape, Received
  <2>4. \A d : JobsOf(d)' = JobsOf(d) /\ Fetched(JobsOf(d))' = Fetched(JobsOf(d))
    BY <2>2 DEF JobsOf, Fetched, Received, Start, End
  <2>5. \A d \in Days : Closed(d) => Closed(d)'
    BY <2>1, <2>2, <2>4 DEF Closed, Shape, End
  <2>. QED  BY <2>3, <2>4, <2>5 DEF Total, GroupsOf
<1>4. ASSUME UNCHANGED <<now, received, status>>, Shape'
      PROVE  /\ Shape'
             /\ \A d \in Days : GroupsOf(JobsOf(d)) \subseteq GroupsOf(JobsOf(d))'
             /\ \A d \in Days : Closed(d) => Closed(d)' /\ Total(d)' = Total(d)
  <2>1. \A d : JobsOf(d)' = JobsOf(d) /\ Fetched(JobsOf(d))' = Fetched(JobsOf(d))
    BY <1>4 DEF JobsOf, Fetched, Received, Start, End
  <2>. QED  BY <1>4, <2>1 DEF Total, GroupsOf, Closed, End
<1>5. CASE Retain \/ UNCHANGED vars
  <2>1. UNCHANGED <<now, received, status, usage, rollup>> /\ deleted' \subseteq Received
    BY <1>5 DEF Retain, vars, Stored, Shape
  <2>2. Shape'
    BY <2>1 DEF Shape, Received
  <2>. QED  BY <1>4, <2>1, <2>2
<1>6. ASSUME NEW c \in Rollups, NEW d \in Days, Reads(c, d)
      PROVE  UNCHANGED <<now, received, status>> /\ Shape'
  BY <1>6, RowsAreFunctions DEF Reads, Shape, Received
<1>7. ASSUME NEW c \in Rollups, Lists(c) \/ Deletes(c) \/ Fails(c)
      PROVE  UNCHANGED <<now, received, status>> /\ Shape'
  <2>1. UNCHANGED <<now, received, status, deleted, usage>>
    BY <1>7 DEF Lists, Deletes, Fails
  <2>2. DOMAIN rollup' = Rollups /\ \A o \in Rollups \ {c} : rollup'[o] = rollup[o]
    BY <1>7 DEF Lists, Deletes, Fails, Shape
  <2>3. /\ rollup'[c] = [at |-> rollup'[c].at, day |-> rollup'[c].day,
                         rows |-> rollup'[c].rows, found |-> rollup'[c].found]
        /\ rollup'[c].day = rollup[c].day
        /\ IsFunction(rollup'[c].rows)
    BY <1>7, RowsOfNothing DEF Lists, Deletes, Fails, Shape, Idle
  <2>. QED  BY <2>1, <2>2, <2>3 DEF Shape, Received
<1>8. ASSUME NEW c \in Rollups, Commits(c)
      PROVE  UNCHANGED <<now, received, status>> /\ Shape'
  <2>1. UNCHANGED <<now, received, status, deleted>>
    BY <1>8 DEF Commits
  <2>2. DOMAIN rollup' = Rollups /\ DOMAIN usage' = Days
    BY <1>8 DEF Commits, Shape
  <2>3. \A o \in Rollups :
            /\ rollup'[o] = [at |-> rollup'[o].at, day |-> rollup'[o].day,
                             rows |-> rollup'[o].rows, found |-> rollup'[o].found]
            /\ rollup'[o].day = rollup[o].day
            /\ IsFunction(rollup'[o].rows)
    BY <1>8, AfterCommit DEF Shape
  <2>. QED  BY <2>1, <2>2, <2>3 DEF Shape, Received
<1>. QED
  BY <1>1, <1>2, <1>3, <1>4, <1>5, <1>6, <1>7, <1>8 DEF Next

-----------------------------------------------------------------------------
(* A rollup's rows are those of jobs of the day: after the step they still *)
(* are.                                                                    *)
LEMMA LedgerStep ==
  ASSUME Ledger, [Next]_vars
  PROVE  Ledger'
<1>. USE DayBounds
<1>1. /\ Shape'
      /\ \A d \in Days : GroupsOf(JobsOf(d)) \subseteq GroupsOf(JobsOf(d))'
      /\ \A d \in Days : Closed(d) => Closed(d)' /\ Total(d)' = Total(d)
  BY ClosedStays DEF Ledger
<1>2. ASSUME UNCHANGED <<usage, rollup, complete, exact>>
      PROVE  Ledger'
  BY <1>1, <1>2 DEF Ledger, Shape
<1>3. ASSUME NEW c \in Rollups, NEW d \in Days, Reads(c, d)
      PROVE  Ledger'
  <2>1. /\ rollup'[c] = [at |-> "read", day |-> d,
                         rows |-> RowsOf(Fetched(DayJobs(d))), found |-> {}]
        /\ \A o \in Rollups \ {c} : rollup'[o] = rollup[o]
    BY <1>3 DEF Reads, Ledger, Shape
  <2>2. UNCHANGED <<now, received, status, deleted, usage, exact>>
    BY <1>3 DEF Reads
  <2>3. DayJobs(d) \subseteq JobsOf(d)
    BY DEF DayJobs, JobsOf, Stored
  <2>4. DOMAIN rollup'[c].rows \subseteq GroupsOf(JobsOf(d))'
    <3>1. DOMAIN rollup'[c].rows = GroupsOf(DayJobs(d))
      BY <2>1, DomainOfRows
    <3>2. GroupsOf(DayJobs(d)) \subseteq GroupsOf(JobsOf(d))
      BY <2>3 DEF GroupsOf
    <3>. QED  BY <1>1, <3>1, <3>2
  <2>5. ASSUME c \in complete'
        PROVE  Closed(d) /\ rollup'[c].rows = Total(d)
    <3>1. c \notin complete
      BY <1>3 DEF Reads, Ledger
    <3>2. IsComplete(d)
      BY <1>3, <2>5, <3>1 DEF Reads
    <3>3. DayJobs(d) = JobsOf(d)
      BY <3>2 DEF IsComplete, DayJobs, JobsOf, Stored
    <3>. QED  BY <2>1, <3>2, <3>3 DEF IsComplete, Closed, Total
  <2>6. complete' \subseteq complete \cup {c}
    BY <1>3 DEF Reads
  <2>. QED  BY <1>1, <2>1, <2>2, <2>4, <2>5, <2>6 DEF Ledger, Shape
<1>4. ASSUME NEW c \in Rollups, Lists(c) \/ Deletes(c)
      PROVE  Ledger'
  <2>1. UNCHANGED <<usage, complete, exact>>
    BY <1>4 DEF Lists, Deletes
  <2>2. \A o \in Rollups : rollup'[o].day = rollup[o].day /\ rollup'[o].rows = rollup[o].rows
    BY <1>4 DEF Lists, Deletes, Ledger, Shape
  <2>3. \A o \in complete : rollup[o].at # "idle" /\ rollup'[o].at # "idle"
    BY <1>4 DEF Lists, Deletes, Ledger, Shape
  <2>. QED  BY <1>1, <2>1, <2>2, <2>3 DEF Ledger, Shape
<1>5. ASSUME NEW c \in Rollups, Fails(c)
      PROVE  Ledger'
  <2>1. /\ rollup'[c] = Idle(rollup[c].day)
        /\ \A o \in Rollups \ {c} : rollup'[o] = rollup[o]
    BY <1>5 DEF Fails, Ledger, Shape
  <2>2. UNCHANGED <<usage, exact>> /\ complete' = complete \ {c}
    BY <1>5 DEF Fails
  <2>3. DOMAIN rollup'[c].rows = {} /\ rollup'[c].day = rollup[c].day
    BY <2>1, RowsOfNothing DEF Idle
  <2>. QED  BY <1>1, <2>1, <2>2, <2>3 DEF Ledger, Shape
<1>6. ASSUME NEW c \in Rollups, Commits(c)
      PROVE  Ledger'
  <2>. DEFINE d == rollup[c].day
              rows == rollup[c].rows
              found == rollup[c].found
              kept == DOMAIN usage[d] \ found
  <2>1. d \in Days
    BY DEF Ledger, Shape
  <2>2. /\ usage'[d] = [g \in kept \cup DOMAIN rows |->
                           IF g \in DOMAIN rows THEN rows[g] ELSE usage[d][g]]
        /\ \A e \in Days \ {d} : usage'[e] = usage[e]
        /\ kept \cap DOMAIN rows = {}
    BY <1>6, <2>1 DEF Commits, Inserted, Conflict, Ledger, Shape
  <2>3. \A o \in Rollups : rollup'[o].day = rollup[o].day
    BY <1>6, AfterCommit DEF Ledger
  <2>4. \A o \in Rollups \ {c} :
            rollup'[o].rows = rollup[o].rows /\ rollup'[o].at = rollup[o].at
    BY <1>6, AfterCommit DEF Ledger
  <2>5. DOMAIN rollup'[c].rows = {}
    BY <1>6, AfterCommit DEF Ledger
  <2>6. complete' = complete \ {c}
    BY <1>6 DEF Commits
  <2>7. \A e \in Days : DOMAIN usage'[e] \subseteq GroupsOf(JobsOf(e))
    <3>1. DOMAIN usage'[d] = kept \cup DOMAIN rows
      BY <2>2
    <3>. QED  BY <2>1, <2>2, <3>1 DEF Ledger
  <2>8. \A e \in exact' : e \in Days /\ Closed(e) /\ usage'[e] = Total(e)
    <3>1. \A e \in exact' \ {d} : e \in exact
      BY <1>6 DEF Commits
    <3>2. \A e \in exact' \ {d} : e \in Days /\ Closed(e) /\ usage'[e] = Total(e)
      BY <2>2, <3>1 DEF Ledger
    <3>3. ASSUME d \in exact', DOMAIN rows \cup found = {}
          PROVE  Closed(d) /\ usage'[d] = Total(d)
      <4>1. d \in exact
        BY <1>6, <3>3 DEF Commits
      <4>2. usage[d] = Total(d)
        BY <4>1 DEF Ledger
      <4>3. usage'[d] = [g \in DOMAIN usage[d] |-> usage[d][g]]
        BY <2>2, <3>3
      <4>4. usage[d] = [g \in DOMAIN usage[d] |-> usage[d][g]]
        BY <4>2 DEF Total, RowsOf
      <4>. QED  BY <4>1, <4>2, <4>3, <4>4 DEF Ledger
    <3>4. ASSUME d \in exact', DOMAIN rows \cup found # {}
          PROVE  Closed(d) /\ usage'[d] = Total(d)
      <4>1. c \in complete
        BY <1>6, <3>4 DEF Commits
      <4>2. Closed(d) /\ rows = Total(d)
        BY <4>1 DEF Ledger
      <4>3. DOMAIN rows = GroupsOf(JobsOf(d))
        BY <4>2, DomainOfRows DEF Total
      <4>4. kept = {}
        BY <2>1, <2>2, <4>3 DEF Ledger
      <4>5. usage'[d] = [g \in DOMAIN rows |-> rows[g]]
        BY <2>2, <4>4
      <4>6. rows = [g \in DOMAIN rows |-> rows[g]]
        BY <4>2 DEF Total, RowsOf
      <4>. QED  BY <4>2, <4>5, <4>6
    <3>. QED  BY <2>1, <3>2, <3>3, <3>4
  <2>9. \A e \in exact' : Closed(e)' /\ usage'[e] = Total(e)'
    BY <1>1, <2>8
  <2>10. \A e \in Days : DOMAIN usage'[e] \subseteq GroupsOf(JobsOf(e))'
    BY <1>1, <2>7
  <2>11. \A o \in Rollups :
            DOMAIN rollup'[o].rows \subseteq GroupsOf(JobsOf(rollup[o].day))'
    <3>1. \A o \in Rollups : rollup[o].day \in Days
      BY DEF Ledger, Shape
    <3>2. \A o \in Rollups \ {c} :
             DOMAIN rollup[o].rows \subseteq GroupsOf(JobsOf(rollup[o].day))
      BY DEF Ledger
    <3>3. \A o \in Rollups :
             GroupsOf(JobsOf(rollup[o].day)) \subseteq GroupsOf(JobsOf(rollup[o].day))'
      BY <1>1, <2>3, <3>1
    <3>. QED  BY <2>4, <2>5, <3>2, <3>3
  <2>12. \A o \in complete' :
            /\ Closed(rollup[o].day)' /\ rollup'[o].rows = Total(rollup[o].day)'
            /\ rollup'[o].at # "idle"
    BY <1>1, <2>3, <2>4, <2>6 DEF Ledger, Shape
  <2>. QED
    BY <1>1, <2>6, <2>8, <2>9, <2>10, <2>11, <2>12 DEF Ledger
<1>. QED
  BY <1>2, <1>3, <1>4, <1>5, <1>6
  DEF Next, Receive, Finish, Tick, Retain, vars

(* The usage of a day whose last change is by a rollup that had read all   *)
(* of it is, for ever after, that of all the day's jobs.                   *)
THEOREM RollupsReconcile == Spec => []Reconciles
<1>1. Ledger => Reconciles
  BY DEF Ledger, Reconciles, Total
<1>. QED
  BY LedgerInit, LedgerStep, <1>1, PTL DEF Spec

-----------------------------------------------------------------------------
Untouched(d) == JobsOf(d) \cap deleted = {}

Comparable(G, H) == G \subseteq H \/ H \subseteq G

Chain ==
    \A d \in Days : Untouched(d) =>
        \A a \in Rollups : rollup[a].day = d =>
            /\ \A b \in Rollups : rollup[b].day = d =>
                  Comparable(DOMAIN rollup[a].rows, DOMAIN rollup[b].rows)
            /\ Comparable(DOMAIN rollup[a].rows, DOMAIN usage[d])
            /\ rollup[a].at \in {"listed", "deleted"} =>
                  rollup[a].found \in {{}, DOMAIN usage[d]}

LEMMA ChainInit == Init => Chain
<1> SUFFICES ASSUME Init PROVE Chain
  OBVIOUS
<1>1. \A c \in Rollups : rollup[c].at = "idle" /\ DOMAIN rollup[c].rows = {}
  BY RowsOfNothing DEF Init, Idle
<1>. QED  BY <1>1 DEF Chain, Comparable

(* A job that is deleted was and stays one of its day.                     *)
LEMMA TouchedStays ==
  ASSUME Shape, [Next]_vars, NEW d \in Days, Untouched(d)'
  PROVE  Untouched(d)
<1>1. CASE UNCHANGED <<received, deleted>>
  BY <1>1 DEF Untouched, JobsOf, Received, Start, End
<1>2. ASSUME NEW j \in Jobs, Receive(j)
      PROVE  Untouched(d)
  <2>1. /\ Received \subseteq Received'
        /\ \A i \in Received : received'[i] = received[i]
        /\ deleted' = deleted
    BY <1>2 DEF Receive, Received
  <2>2. JobsOf(d) \subseteq JobsOf(d)'
    BY <2>1 DEF JobsOf, Start, End
  <2>. QED  BY <2>1, <2>2 DEF Untouched
<1>3. CASE Retain
  <2>1. received' = received /\ deleted \subseteq deleted'
    BY <1>3 DEF Retain
  <2>. QED  BY <2>1 DEF Untouched, JobsOf, Received, Start, End
<1>. QED
  BY <1>1, <1>2, <1>3
  DEF Next, Finish, Tick, Reads, Lists, Deletes, Commits, Fails, vars

(* What a commit to an untouched day makes of its rows: if it inserts any, *)
(* the day has these and no other ones.                                    *)
LEMMA CommitOverwrites ==
  ASSUME Ledger, Chain, NEW c \in Rollups, Commits(c), Untouched(rollup[c].day)
  PROVE  LET d == rollup[c].day IN
         /\ DOMAIN rollup[c].rows # {} =>
              /\ DOMAIN usage[d] \subseteq rollup[c].found
              /\ usage'[d] = [g \in DOMAIN rollup[c].rows |-> rollup[c].rows[g]]
         /\ DOMAIN usage'[d] = (DOMAIN usage[d] \ rollup[c].found) \cup DOMAIN rollup[c].rows
         /\ \A e \in Days \ {d} : usage'[e] = usage[e]
<1>. DEFINE d == rollup[c].day
            rows == rollup[c].rows
            kept == DOMAIN usage[d] \ rollup[c].found
<1>1. d \in Days
  BY DEF Ledger, Shape
<1>2. /\ usage'[d] = [g \in kept \cup DOMAIN rows |->
                         IF g \in DOMAIN rows THEN rows[g] ELSE usage[d][g]]
      /\ \A e \in Days \ {d} : usage'[e] = usage[e]
      /\ kept \cap DOMAIN rows = {}
      /\ rollup[c].at = "deleted"
  BY <1>1 DEF Commits, Inserted, Conflict, Ledger, Shape
<1>3. DOMAIN usage'[d] = kept \cup DOMAIN rows
  BY <1>2
<1>4. ASSUME DOMAIN rows # {}
      PROVE  kept = {}
  <2>1. rollup[c].found \in {{}, DOMAIN usage[d]}
    BY <1>1, <1>2 DEF Chain
  <2>2. Comparable(DOMAIN rows, DOMAIN usage[d])
    BY <1>1 DEF Chain
  <2>. QED  BY <1>2, <1>4, <2>1, <2>2 DEF Comparable
<1>5. ASSUME DOMAIN rows # {}
      PROVE  usage'[d] = [g \in DOMAIN rows |-> rows[g]]
  BY <1>2, <1>4, <1>5
<1>. QED  BY <1>2, <1>3, <1>4, <1>5

LEMMA ChainStep ==
  ASSUME Ledger, Chain, [Next]_vars
  PROVE  Chain'
<1>. SUFFICES ASSUME NEW d \in Days, Untouched(d)'
              PROVE  \A a \in Rollups : rollup'[a].day = d =>
                        /\ \A b \in Rollups : rollup'[b].day = d =>
                              Comparable(DOMAIN rollup'[a].rows, DOMAIN rollup'[b].rows)
                        /\ Comparable(DOMAIN rollup'[a].rows, DOMAIN usage'[d])
                        /\ rollup'[a].at \in {"listed", "deleted"} =>
                              rollup'[a].found \in {{}, DOMAIN usage'[d]}
  BY DEF Chain, Comparable
<1>. DEFINE Good ==
              \A a \in Rollups : rollup'[a].day = d =>
                 /\ \A b \in Rollups : rollup'[b].day = d =>
                       Comparable(DOMAIN rollup'[a].rows, DOMAIN rollup'[b].rows)
                 /\ Comparable(DOMAIN rollup'[a].rows, DOMAIN usage'[d])
                 /\ rollup'[a].at \in {"listed", "deleted"} =>
                       rollup'[a].found \in {{}, DOMAIN usage'[d]}
<1>1. Untouched(d)
  BY TouchedStays DEF Ledger
<1>2. \A a \in Rollups : rollup[a].day = d =>
         /\ \A b \in Rollups : rollup[b].day = d =>
               Comparable(DOMAIN rollup[a].rows, DOMAIN rollup[b].rows)
         /\ Comparable(DOMAIN rollup[a].rows, DOMAIN usage[d])
         /\ rollup[a].at \in {"listed", "deleted"} =>
               rollup[a].found \in {{}, DOMAIN usage[d]}
  BY <1>1 DEF Chain
<1>3. CASE UNCHANGED <<usage, rollup>>
  BY <1>2, <1>3
<1>4. ASSUME NEW c \in Rollups, NEW e \in Days, Reads(c, e)
      PROVE  Good
  <2>1. /\ rollup'[c] = [at |-> "read", day |-> e,
                         rows |-> RowsOf(Fetched(DayJobs(e))), found |-> {}]
        /\ \A o \in Rollups \ {c} : rollup'[o] = rollup[o]
        /\ UNCHANGED <<received, deleted, usage>>
    BY <1>4 DEF Reads, Ledger, Shape
  <2>2. DOMAIN rollup'[c].rows = GroupsOf(DayJobs(e))
    BY <2>1, DomainOfRows
  <2>3. DayJobs(d) = JobsOf(d)
    BY <1>1 DEF Untouched, DayJobs, JobsOf, Stored
  <2>4. DOMAIN usage[d] \subseteq GroupsOf(JobsOf(d))
    BY DEF Ledger
  <2>5. \A o \in Rollups : rollup[o].day = d => DOMAIN rollup[o].rows \subseteq GroupsOf(JobsOf(d))
    BY DEF Ledger
  <2>6. e = d => /\ \A o \in Rollups \ {c} : rollup[o].day = d =>
                       DOMAIN rollup[o].rows \subseteq DOMAIN rollup'[c].rows
                 /\ DOMAIN usage[d] \subseteq DOMAIN rollup'[c].rows
    BY <2>2, <2>3, <2>4, <2>5
  <2>7. rollup'[c].day = e /\ rollup'[c].at = "read"
    BY <2>1
  <2>. QED  BY <1>2, <2>1, <2>6, <2>7 DEF Comparable
<1>5. ASSUME NEW c \in Rollups, Lists(c)
      PROVE  Good
  <2>1. /\ \A o \in Rollups : rollup'[o].day = rollup[o].day /\ rollup'[o].rows = rollup[o].rows
        /\ \A o \in Rollups \ {c} : rollup'[o] = rollup[o]
        /\ rollup'[c].found = DOMAIN usage[rollup[c].day]
        /\ usage' = usage
    BY <1>5 DEF Lists, Ledger, Shape
  <2>. QED  BY <1>2, <2>1
<1>6. ASSUME NEW c \in Rollups, Deletes(c)
      PROVE  Good
  <2>1. /\ \A o \in Rollups : /\ rollup'[o].day = rollup[o].day
                              /\ rollup'[o].rows = rollup[o].rows
                              /\ rollup'[o].found = rollup[o].found
        /\ \A o \in Rollups \ {c} : rollup'[o] = rollup[o]
        /\ rollup[c].at = "listed"
        /\ usage' = usage
    BY <1>6 DEF Deletes, Ledger, Shape
  <2>. QED  BY <1>2, <2>1
<1>7. ASSUME NEW c \in Rollups, Fails(c)
      PROVE  Good
  <2>1. /\ rollup'[c].at = "idle" /\ DOMAIN rollup'[c].rows = {}
        /\ \A o \in Rollups \ {c} : rollup'[o] = rollup[o]
        /\ usage' = usage
    BY <1>7, RowsOfNothing DEF Fails, Ledger, Shape, Idle
  <2>. QED  BY <1>2, <2>1 DEF Comparable
<1>8. ASSUME NEW c \in Rollups, Commits(c)
      PROVE  Good
  <2>1. /\ rollup'[c].at = "idle" /\ DOMAIN rollup'[c].rows = {}
        /\ \A o \in Rollups : rollup'[o].day = rollup[o].day
        /\ \A o \in Rollups \ {c} :
              /\ rollup'[o].at = rollup[o].at
              /\ rollup'[o].rows = rollup[o].rows
              /\ rollup'[o].found = IF rollup[o].day = rollup[c].day
                                      THEN rollup[o].found \ rollup[c].found
                                      ELSE rollup[o].found
    BY <1>8, AfterCommit DEF Ledger
  <2>2. CASE rollup[c].day # d
    <3>1. usage'[d] = usage[d]
      BY <1>8, <2>2 DEF Commits, Ledger, Shape
    <3>. QED  BY <1>2, <2>1, <2>2, <3>1 DEF Comparable
  <2>3. CASE rollup[c].day = d
    <3>1. /\ DOMAIN rollup[c].rows # {} => DOMAIN usage[d] \subseteq rollup[c].found
          /\ DOMAIN usage'[d] =
                (DOMAIN usage[d] \ rollup[c].found) \cup DOMAIN rollup[c].rows
      BY <1>1, <1>8, <2>3, CommitOverwrites
    <3>2. rollup[c].at = "deleted"
      BY <1>8 DEF Commits
    <3>3. rollup[c].found \in {{}, DOMAIN usage[d]}
      BY <1>2, <2>3, <3>2
    <3>4. \/ DOMAIN usage'[d] = DOMAIN rollup[c].rows /\ DOMAIN usage[d] \subseteq rollup[c].found
          \/ DOMAIN usage'[d] = DOMAIN usage[d] /\ rollup[c].found = {}
      BY <3>1, <3>3
    <3>5. CASE DOMAIN usage'[d] = DOMAIN rollup[c].rows /\ DOMAIN usage[d] \subseteq rollup[c].found
      <4>1. \A o \in Rollups \ {c} :
                rollup[o].day = d /\ rollup[o].at \in {"listed", "deleted"} =>
                    rollup'[o].found = {}
        BY <1>2, <2>1, <2>3, <3>5
      <4>. QED  BY <1>2, <2>1, <2>3, <3>5, <4>1 DEF Comparable
    <3>6. CASE DOMAIN usage'[d] = DOMAIN usage[d] /\ rollup[c].found = {}
      <4>1. \A o \in Rollups \ {c} : rollup'[o].found = rollup[o].found
        BY <2>1, <3>6
      <4>. QED  BY <1>2, <2>1, <2>3, <3>6, <4>1 DEF Comparable
    <3>. QED  BY <3>4, <3>5, <3>6
  <2>. QED  BY <2>2, <2>3
<1>. QED
  BY <1>3, <1>4, <1>5, <1>6, <1>7, <1>8
  DEF Next, Receive, Finish, Tick, Retain, vars

(* A rollup that commits any row leaves an untouched day with its own rows *)
(* only, whatever rollups of the day it overlapped.                        *)
THEOREM RollupsOverwrite == Spec => Overwrites
<1>1. ASSUME Ledger, Chain, [Next]_vars, NEW c \in Rollups,
             rollup[c].at = "deleted", rollup'[c].at = "idle",
             usage'[rollup[c].day] # usage[rollup[c].day],
             rollup[c].rows # NoRows,
             JobsOf(rollup[c].day) \cap deleted = {}
      PROVE  usage'[rollup[c].day] = rollup[c].rows
  <2>1. PICK o \in Rollups : Commits(o)
    BY <1>1 DEF Next, Receive, Finish, Tick, Retain, Reads, Lists, Deletes, Fails, vars
  <2>2. o = c
    BY <1>1, <2>1, AfterCommit DEF Ledger
  <2>3. IsFunction(rollup[c].rows) /\ DOMAIN rollup[c].rows # {}
    BY <1>1, RowsOfNothing DEF Ledger, Shape
  <2>4. usage'[rollup[c].day] = [g \in DOMAIN rollup[c].rows |-> rollup[c].rows[g]]
    BY <1>1, <2>1, <2>2, <2>3, CommitOverwrites DEF Untouched
  <2>. QED  BY <2>3, <2>4 DEF IsFunction
<1>2. Ledger /\ Chain /\ [Next]_vars =>
        [\A c \in Rollups :
            LET d == rollup[c].day IN
            /\ rollup[c].at = "deleted" /\ rollup'[c].at = "idle"
            /\ usage'[d] # usage[d]
            /\ rollup[c].rows # NoRows
            /\ JobsOf(d) \cap deleted = {}
            => usage'[d] = rollup[c].rows]_vars
  BY <1>1
<1>. QED
  BY LedgerInit, LedgerStep, ChainInit, ChainStep, <1>2, PTL DEF Spec, Overwrites
-----------------------------------------------------------------------------
(* The sessions of some jobs.                                              *)

(* J is sorted by the time its jobs were received, ties in some order.     *)
LEMMA SortedJobs ==
  ASSUME NEW J \in SUBSET Received, IsFiniteSet(J),
         \A j \in J : received[j] \in Nat
  PROVE  LET n == Cardinality(J)
             q == Ordered(Fetched(J))
         IN  /\ n \in Nat
             /\ q \in [1..n -> J]
             /\ \A i, j \in 1..n : i < j => q[i] # q[j] /\ received[q[i]] <= received[q[j]]
             /\ \A x \in J : \E i \in 1..n : q[i] = x
<1>. DEFINE n == Cardinality(J)
            jobs == Fetched(J)
            q == Ordered(jobs)
<1>1. n \in Nat /\ ExistsBijection(1..n, J)
  BY FS_CardinalityType
<1>2. DOMAIN jobs = J /\ \A j \in J : jobs[j].at = received[j]
  BY DEF Fetched
<1>. HIDE DEF jobs
<1>3. PICK tie \in [J -> 1..n] : \A x, y \in J : tie[x] = tie[y] => x = y
  <2>1. PICK f : f \in Bijection(1..n, J)
    BY <1>1 DEF ExistsBijection
  <2>2. /\ f \in [1..n -> J]
        /\ \A x \in J : \E i \in 1..n : f[i] = x
    BY <2>1 DEF Bijection, Surjection
  <2>. DEFINE inv == [x \in J |-> CHOOSE i \in 1..n : f[i] = x]
  <2>3. \A x \in J : inv[x] \in 1..n /\ f[inv[x]] = x
    BY <2>2
  <2>4. inv \in [J -> 1..n]
    BY <2>3
  <2>5. \A x, y \in J : inv[x] = inv[y] => x = y
    <3>. HIDE DEF inv
    <3>. QED  BY <2>3
  <2>. QED  BY <2>4, <2>5
<1>. DEFINE R == {p \in J \X J : \/ received[p[1]] < received[p[2]]
                                 \/ /\ received[p[1]] = received[p[2]]
                                    /\ tie[p[1]] < tie[p[2]]}
<1>4. \A x, y \in J : <<x, y>> \in R
                        <=> \/ received[x] < received[y]
                            \/ received[x] = received[y] /\ tie[x] < tie[y]
  OBVIOUS
<1>. HIDE DEF R, n
<1>5. IsStrictOrder(R, J)
  <2>1. \A x \in J : received[x] \in Nat /\ tie[x] \in Nat
    BY <1>1, <1>3
  <2>2. \A x \in J : <<x, x>> \notin R
    BY <1>4, <2>1
  <2>3. \A x, y, z \in J : <<x, y>> \in R /\ <<y, z>> \in R => <<x, z>> \in R
    BY <1>4, <2>1
  <2>4. ASSUME NEW x \in J, NEW y \in J, x # y
        PROVE  <<x, y>> \in R \/ <<y, x>> \in R
    <3>1. tie[x] # tie[y]
      BY <1>3, <2>4
    <3>. QED  BY <1>4, <2>1, <3>1
  <2>. QED  BY <2>2, <2>3, <2>4 DEF IsStrictOrder
<1>6. PICK l : IsListing(l, J, R)
  BY <1>5, ListExists
<1>7. /\ l \in [1..n -> J]
      /\ \A i, j \in 1..n : i < j => <<l[i], l[j]>> \in R
  BY <1>6 DEF IsListing, n
<1>8. \A i, j \in 1..n : i < j => l[i] # l[j] /\ received[l[i]] <= received[l[j]]
  <2>. TAKE i, j \in 1..n
  <2>. HAVE i < j
  <2>1. l[i] \in J /\ l[j] \in J /\ <<l[i], l[j]>> \in R
    BY <1>7
  <2>2. l[i] # l[j]
    BY <1>5, <2>1 DEF IsStrictOrder
  <2>. QED  BY <1>4, <2>1, <2>2
<1>9. /\ l \in [1..Cardinality(DOMAIN jobs) -> DOMAIN jobs]
      /\ \A i, j \in 1..Cardinality(DOMAIN jobs) :
            i < j => l[i] # l[j] /\ jobs[l[i]].at <= jobs[l[j]].at
  BY <1>2, <1>7, <1>8 DEF n
<1>10. /\ q \in [1..Cardinality(DOMAIN jobs) -> DOMAIN jobs]
       /\ \A i, j \in 1..Cardinality(DOMAIN jobs) :
             i < j => q[i] # q[j] /\ jobs[q[i]].at <= jobs[q[j]].at
  BY <1>9 DEF Ordered
<1>. HIDE DEF q
<1>11. /\ q \in [1..n -> J]
       /\ \A i, j \in 1..n : i < j => q[i] # q[j] /\ received[q[i]] <= received[q[j]]
  BY <1>2, <1>10 DEF n
<1>12. q \in Injection(1..n, J)
  <2>1. ASSUME NEW i \in 1..n, NEW j \in 1..n, q[i] = q[j] PROVE i = j
    <3>1. ~(i < j) /\ ~(j < i)
      BY <1>11, <2>1
    <3>. QED  BY <1>1, <3>1
  <2>. QED  BY <1>11, <2>1 DEF Injection, IsInjective
<1>13. q \in Surjection(1..n, J)
  <2>1. IsFiniteSet(1..n) /\ Cardinality(1..n) = Cardinality(J)
    BY <1>1, FS_Interval DEF n
  <2>. QED  BY <1>12, <2>1, FS_Injection
<1>14. \A x \in J : \E i \in 1..n : q[i] = x
  BY <1>13 DEF Surjection
<1>. QED  BY <1>1, <1>11, <1>14 DEF q, n, jobs

(* The jobs that follow a gap, by place.                                   *)
LEMMA GapPlaces ==
  ASSUME NEW J \in SUBSET Received, IsFiniteSet(J),
         \A j \in J : received[j] \in Nat
  PROVE  LET q == Ordered(Fetched(J)) IN
         AfterGap(Fetched(J)) =
            {i \in 2..Cardinality(J) : received[q[i]] - received[q[i - 1]] > SessionIdleGap}
<1>. DEFINE jobs == Fetched(J)
            q == Ordered(jobs)
            n == Cardinality(J)
<1>1. n \in Nat /\ q \in [1..n -> J]
  BY SortedJobs
<1>2. \A j \in J : jobs[j].at = received[j]
  BY DEF Fetched
<1>3. AfterGap(jobs) = {i \in 2..Len(q) : jobs[q[i]].at - jobs[q[i - 1]].at > SessionIdleGap}
  BY DEF AfterGap
<1>. HIDE DEF q, jobs, n
<1>4. Len(q) = n
  BY <1>1
<1>5. \A i \in 2..n : q[i] \in J /\ q[i - 1] \in J
  <2>. TAKE i \in 2..n
  <2>1. i \in 1..n /\ i - 1 \in 1..n
    BY <1>1
  <2>. QED  BY <1>1, <2>1
<1>. QED  BY <1>2, <1>3, <1>4, <1>5 DEF q, jobs, n

(* There is one session for each moment with a request that no request     *)
(* precedes within the gap: the first place and those after a gap stand    *)
(* for one such moment each.                                               *)
LEMMA OneForEachStart ==
  ASSUME NEW J \in SUBSET Received, IsFiniteSet(J), J # {},
         \A j \in J : received[j] \in Nat
  PROVE  LET times == {received[j] : j \in J} IN
         CountSessions(Fetched(J)) =
            Cardinality({t \in times :
                \A s \in times : s < t => t - s > SessionIdleGap})
<1>. DEFINE n == Cardinality(J)
            q == Ordered(Fetched(J))
            times == {received[j] : j \in J}
            Starts == {t \in times : \A s \in times : s < t => t - s > SessionIdleGap}
            time == [i \in 1..n |-> received[q[i]]]
            Gaps == AfterGap(Fetched(J))
            Places == Gaps \cup {1}
            start == [i \in Places |-> time[i]]
<1>1. n \in Nat \ {0}
  BY FS_CardinalityType, FS_EmptySet
<1>2. /\ q \in [1..n -> J]
      /\ \A i, j \in 1..n : i < j => q[i] # q[j] /\ received[q[i]] <= received[q[j]]
      /\ \A x \in J : \E i \in 1..n : q[i] = x
  BY SortedJobs
<1>3. Gaps = {i \in 2..n : received[q[i]] - received[q[i - 1]] > SessionIdleGap}
  BY GapPlaces
<1>. HIDE DEF n, q, Gaps
<1>4. /\ \A i \in 1..n : time[i] \in Nat /\ time[i] \in times
      /\ \A t \in times : \E i \in 1..n : time[i] = t
      /\ \A i, j \in 1..n : i <= j => time[i] <= time[j]
  <2>1. \A i \in 1..n : q[i] \in J /\ time[i] = received[q[i]]
    BY <1>2
  <2>2. \A i \in 1..n : time[i] \in Nat /\ time[i] \in times
    BY <2>1
  <2>3. \A t \in times : \E i \in 1..n : time[i] = t
    <3>. TAKE t \in times
    <3>1. PICK x \in J : t = received[x]
      OBVIOUS
    <3>2. PICK i \in 1..n : q[i] = x
      BY <1>2
    <3>. QED  BY <2>1, <3>1, <3>2
  <2>4. ASSUME NEW i \in 1..n, NEW j \in 1..n, i <= j PROVE time[i] <= time[j]
    <3>1. CASE i = j
      BY <2>2, <3>1
    <3>2. CASE i < j
      BY <1>2, <2>1, <3>2
    <3>. QED  BY <1>1, <2>4, <3>1, <3>2
  <2>. QED  BY <2>2, <2>3, <2>4
<1>5. Gaps = {i \in 2..n : time[i] - time[i - 1] > SessionIdleGap}
  <2>1. \A i \in 2..n : time[i] = received[q[i]] /\ time[i - 1] = received[q[i - 1]]
    BY <1>1
  <2>. QED  BY <1>3, <2>1
<1>g. SessionIdleGap \in Nat
  BY AnalyticsAssumption
<1>. HIDE DEF time, times
<1>6. 1 \notin Gaps /\ Places \subseteq 1..n
  BY <1>1, <1>5
<1>7. /\ IsFiniteSet(Gaps) /\ IsFiniteSet(Places)
      /\ Cardinality(Gaps) \in Nat
      /\ Cardinality(Places) = Cardinality(Gaps) + 1
  <2>1. IsFiniteSet(1..n)
    BY <1>1, FS_Interval
  <2>2. IsFiniteSet(Gaps)
    BY <1>6, <2>1, FS_Subset
  <2>3. Cardinality(Gaps \cup {1}) = Cardinality(Gaps) + 1 /\ IsFiniteSet(Gaps \cup {1})
    BY <1>6, <2>2, FS_AddElement
  <2>4. Cardinality(Gaps) \in Nat
    BY <2>2, FS_CardinalityType
  <2>. QED  BY <2>2, <2>3, <2>4
(* A place stands for a start: whatever came earlier came before the gap.  *)
<1>8. ASSUME NEW i \in Places PROVE start[i] \in Starts
  <2>1. i \in 1..n /\ start[i] = time[i] /\ time[i] \in times
    BY <1>4, <1>6
  <2>2. ASSUME NEW s \in times, s < time[i] PROVE time[i] - s > SessionIdleGap
    <3>1. PICK k \in 1..n : time[k] = s
      BY <1>4
    <3>2. k < i
      <4>1. ~(i <= k)
        BY <1>4, <2>1, <2>2, <3>1
      <4>. QED  BY <1>1, <2>1, <4>1
    <3>3. i \in Gaps /\ i - 1 \in 1..n /\ k <= i - 1
      BY <1>1, <2>1, <3>2
    <3>4. time[i] - time[i - 1] > SessionIdleGap
      BY <1>5, <3>3
    <3>5. s <= time[i - 1]
      BY <1>4, <3>1, <3>3
    <3>6. time[i] \in Nat /\ time[i - 1] \in Nat /\ s \in Nat
      BY <1>4, <2>1, <3>1, <3>3
    <3>. QED  BY <1>g, <3>4, <3>5, <3>6
  <2>. QED  BY <2>1, <2>2
(* No two stand for the same one: the later has a gap before it.           *)
<1>9. ASSUME NEW i \in Places, NEW j \in Places, start[i] = start[j] PROVE i = j
  <2>1. ASSUME NEW a \in Places, NEW b \in Places, a < b PROVE time[a] < time[b]
    <3>1. a \in 1..n /\ b \in Gaps /\ b - 1 \in 1..n /\ b \in 1..n /\ a <= b - 1
      BY <1>1, <1>6, <2>1
    <3>2. time[b] - time[b - 1] > SessionIdleGap /\ time[a] <= time[b - 1]
      BY <1>4, <1>5, <3>1
    <3>3. time[a] \in Nat /\ time[b] \in Nat /\ time[b - 1] \in Nat
      BY <1>4, <3>1
    <3>. QED  BY <1>g, <3>2, <3>3
  <2>2. i \in 1..n /\ j \in 1..n /\ time[i] = time[j]
    BY <1>6, <1>9
  <2>3. ~(i < j) /\ ~(j < i)
    BY <1>4, <2>1, <2>2
  <2>. QED  BY <1>1, <2>2, <2>3
(* Every start is that of its first place.                                 *)
<1>10. ASSUME NEW t \in Starts PROVE \E i \in Places : start[i] = t
  <2>. DEFINE At == {i \in 1..n : time[i] = t}
  <2>1. At # {} /\ At \subseteq Nat
    BY <1>4
  <2>2. PICK i \in At : \A k \in At : i <= k
    <3>. HIDE DEF At
    <3>. QED  BY <2>1, LeastNat
  <2>3. i \in 1..n /\ time[i] = t
    OBVIOUS
  <2>4. i # 1 => i \in Gaps
    <3>. HAVE i # 1
    <3>1. i \in 2..n /\ i - 1 \in 1..n
      BY <1>1, <2>3
    <3>2. i - 1 \notin At
      BY <2>2, <2>3
    <3>3. time[i - 1] # t /\ time[i - 1] <= time[i]
      BY <1>4, <2>3, <3>1, <3>2
    <3>4. time[i - 1] \in times /\ time[i - 1] \in Nat /\ time[i] \in Nat
      BY <1>4, <2>3, <3>1
    <3>5. time[i - 1] < t
      BY <2>3, <3>3, <3>4
    <3>6. t - time[i - 1] > SessionIdleGap
      BY <3>4, <3>5
    <3>. QED  BY <1>5, <2>3, <3>1, <3>6
  <2>5. i \in Places
    BY <2>4
  <2>. QED  BY <2>3, <2>5
<1>. HIDE DEF start, Starts, Places
<1>11. start \in Bijection(Places, Starts)
  <2>1. start \in [Places -> Starts]
    BY <1>8 DEF start
  <2>2. start \in Injection(Places, Starts)
    BY <1>9, <2>1 DEF Injection, IsInjective
  <2>3. start \in Surjection(Places, Starts)
    BY <1>10, <2>1 DEF Surjection
  <2>. QED  BY <2>2, <2>3 DEF Bijection
<1>12. Cardinality(Starts) = Cardinality(Places)
  BY <1>7, <1>11, FS_Bijection DEF ExistsBijection
<1>13. CountSessions(Fetched(J)) = 1 + Cardinality(Gaps)
  BY DEF CountSessions, Gaps
<1>. QED  BY <1>7, <1>12, <1>13 DEF Starts, times

(* Finitely many jobs have been received.                                  *)
Countable == IsFiniteSet(Received)

LEMMA CountableStep == Countable /\ [Next]_vars => Countable'
<1>. SUFFICES ASSUME Countable, [Next]_vars PROVE Countable'
  OBVIOUS
<1>1. ASSUME NEW j \in Jobs, Receive(j) PROVE Countable'
  <2>1. Received' = Received \cup {j}
    BY <1>1 DEF Receive, Received
  <2>2. IsFiniteSet(Received \cup {j})
    BY FS_AddElement DEF Countable
  <2>. QED  BY <2>1, <2>2 DEF Countable
<1>2. CASE Received' = Received
  BY <1>2 DEF Countable
<1>3. (\E j \in Jobs : Receive(j)) \/ Received' = Received
  BY DEF Next, Finish, Tick, Retain, Reads, Lists, Deletes, Commits, Fails, vars, Received
<1>. QED  BY <1>1, <1>2, <1>3

LEMMA CountableInit == Init => Countable
BY FS_EmptySet DEF Init, Countable, Received

(* The agent sessions of any jobs whose rows are there are as many as the  *)
(* moments of a request that no request precedes within the gap, also when *)
(* several requests came at one moment.                                    *)
THEOREM SessionsCounted == Spec => []SessionsAreRuns
<1>1. Ledger /\ Countable => SessionsAreRuns
  <2>. SUFFICES ASSUME Ledger, Countable, NEW J \in (SUBSET Stored) \ {{}}
                PROVE  LET times == {received[j] : j \in J} IN
                       CountSessions(Fetched(J)) =
                         Cardinality({t \in times :
                            \A s \in times : s < t => t - s > SessionIdleGap})
    BY DEF SessionsAreRuns
  <2>1. J \subseteq Received /\ J # {}
    BY DEF Stored
  <2>2. IsFiniteSet(J)
    BY <2>1, FS_Subset DEF Countable
  <2>3. \A j \in J : received[j] \in Nat
    BY <2>1 DEF Ledger, Shape
  <2>. QED  BY <2>1, <2>2, <2>3, OneForEachStart
<1>. QED  BY LedgerInit, LedgerStep, CountableInit, CountableStep, <1>1, PTL DEF Spec

-----------------------------------------------------------------------------
(* Types: what a rollup has computed is as well-formed as what is stored.  *)

TypedRows(rows) ==
    AreRows(rows) /\ \A g \in DOMAIN rows : rows[g].sessions \in 1..rows[g].requests

TypeInv ==
    /\ Shape
    /\ Countable
    /\ TypeOK
    /\ \A c \in Rollups : TypedRows(rollup[c].rows)

LEMMA TypedRow ==
  ASSUME NEW J \in SUBSET Received, IsFiniteSet(J), J # {},
         \A j \in J : received[j] \in Nat
  PROVE  Row(Fetched(J)) \in UsageRow /\ Row(Fetched(J)).sessions \in 1..Row(Fetched(J)).requests
<1>. DEFINE jobs == Fetched(J)
            n == Cardinality(J)
            done == {j \in DOMAIN jobs : jobs[j].status = "COMPLETED"}
<1>1. DOMAIN jobs = J
  BY DEF Fetched
<1>2. n \in Nat \ {0}
  BY FS_CardinalityType, FS_EmptySet
<1>3. Cardinality(done) \in Nat
  BY <1>1, SubsetCard
<1>4. AfterGap(jobs) \subseteq 2..n
  BY GapPlaces
<1>. HIDE DEF jobs, n, done
<1>5. IsFiniteSet(2..n) /\ Cardinality(2..n) = n - 1
  <2>1. Cardinality(2..n) = IF 2 > n THEN 0 ELSE n - 2 + 1
    BY <1>2, FS_Interval
  <2>2. IsFiniteSet(2..n)
    BY <1>2, FS_Interval
  <2>. QED  BY <1>2, <2>1, <2>2
<1>6. Cardinality(AfterGap(jobs)) \in Nat /\ Cardinality(AfterGap(jobs)) <= n - 1
  BY <1>4, <1>5, SubsetCard
<1>7. CountSessions(jobs) \in 1..n
  BY <1>2, <1>6 DEF CountSessions
<1>8. Row(jobs) = [requests |-> n, completed |-> Cardinality(done), sessions |-> CountSessions(jobs)]
  BY <1>1 DEF Row, n, done
<1>. QED  BY <1>2, <1>3, <1>7, <1>8 DEF UsageRow, jobs

LEMMA TypedRollup ==
  ASSUME NEW J \in SUBSET Received, IsFiniteSet(J), J \subseteq Jobs,
         \A j \in J : received[j] \in Nat
  PROVE  TypedRows(RowsOf(Fetched(J)))
<1>. DEFINE rows == RowsOf(Fetched(J))
            Of(g) == {i \in J : GroupOf[i] = g}
<1>1. DOMAIN rows = GroupsOf(J)
  BY DomainOfRows
<1>2. ASSUME NEW g \in GroupsOf(J)
      PROVE  rows[g] = Row(Fetched(Of(g)))
  <2>1. DOMAIN Fetched(J) = J
    BY DEF Fetched
  <2>2. rows[g] = Row([j \in Of(g) |-> Fetched(J)[j]])
    BY <2>1 DEF RowsOf, GroupsOf
  <2>3. [j \in Of(g) |-> Fetched(J)[j]] = Fetched(Of(g))
    BY DEF Fetched
  <2>. QED  BY <2>2, <2>3
<1>3. ASSUME NEW g \in GroupsOf(J)
      PROVE  Of(g) \subseteq J /\ Of(g) # {}
  BY DEF GroupsOf
<1>. HIDE DEF rows, Of
<1>4. ASSUME NEW g \in GroupsOf(J)
      PROVE  g \in Groups /\ rows[g] \in UsageRow /\ rows[g].sessions \in 1..rows[g].requests
  <2>1. Of(g) \subseteq J /\ Of(g) # {}
    BY <1>3
  <2>2. IsFiniteSet(Of(g))
    BY <2>1, FS_Subset
  <2>3. \A j \in Of(g) : received[j] \in Nat
    BY <2>1
  <2>4. Of(g) \subseteq Received
    BY <2>1
  <2>5. /\ Row(Fetched(Of(g))) \in UsageRow
        /\ Row(Fetched(Of(g))).sessions \in 1..Row(Fetched(Of(g))).requests
    BY <2>1, <2>2, <2>3, <2>4, TypedRow
  <2>6. g \in Groups
    BY DEF Groups, GroupsOf
  <2>. QED  BY <1>2, <2>5, <2>6
<1>5. DOMAIN rows \subseteq Groups /\ \A g \in DOMAIN rows : rows[g] \in UsageRow
  BY <1>1, <1>4
<1>6. \A g \in DOMAIN rows : rows[g].sessions \in 1..rows[g].requests
  BY <1>1, <1>4
<1>. QED  BY <1>5, <1>6 DEF TypedRows, AreRows, rows

LEMMA TypedNothing == TypedRows(NoRows)
BY RowsOfNothing DEF TypedRows, AreRows

LEMMA TypeInit == Init => TypeInv
<1>. SUFFICES ASSUME Init PROVE TypeInv
  OBVIOUS
<1>1. Shape /\ Countable
  BY LedgerInit, CountableInit DEF Ledger
<1>2. \A c \in Rollups : \E d \in Days : rollup[c] = Idle(d)
  BY DEF Init
<1>d. \A d : /\ Idle(d).at = "idle" /\ Idle(d).day = d
              /\ Idle(d).rows = NoRows /\ Idle(d).found = {}
              /\ DOMAIN Idle(d) = {"at", "day", "rows", "found"}
  BY DEF Idle
<1>3. \A c \in Rollups : TypedRows(rollup[c].rows)
  BY <1>2, <1>d, TypedNothing
<1>4. \A d \in Days : TypedRows(usage[d]) /\ DOMAIN usage[d] = {}
  BY TypedNothing, RowsOfNothing DEF Init
<1>5. /\ DOMAIN usage = Days /\ \A d \in Days : AreRows(usage[d])
      /\ \A d \in Days : \A g \in DOMAIN usage[d] :
            usage[d][g].sessions \in 1..usage[d][g].requests
  BY <1>4 DEF Init, TypedRows
<1>6. Received = {} /\ received \in [{} -> 0..MaxNow] /\ status \in [{} -> Outcomes \cup {"open"}]
  BY DEF Init, Received
<1>7. received \in UNION {[J -> 0..MaxNow] : J \in SUBSET Jobs}
  BY <1>6
<1>8. now \in 0..MaxNow
  BY AnalyticsAssumption DEF Init
<1>9. DOMAIN rollup = Rollups
  BY DEF Init
<1>10. \A c \in Rollups :
          /\ DOMAIN rollup[c] = {"at", "day", "rows", "found"}
          /\ rollup[c].at \in {"idle", "read", "listed", "deleted"}
          /\ rollup[c].day \in Days
          /\ AreRows(rollup[c].rows)
          /\ rollup[c].found \subseteq DOMAIN usage[rollup[c].day]
  BY <1>2, <1>3, <1>d DEF TypedRows
<1>11. deleted \subseteq Received /\ complete \subseteq Rollups /\ exact \subseteq Days
  BY DEF Init
<1>12. status \in [Received -> Outcomes \cup {"open"}]
  BY <1>6
<1>13. TypeOK
  BY <1>5, <1>7, <1>8, <1>9, <1>10, <1>11, <1>12 DEF TypeOK
<1>. QED  BY <1>1, <1>3, <1>13 DEF TypeInv

LEMMA TypeStep ==
  ASSUME TypeInv, [Next]_vars, Shape', Countable'
  PROVE  TypeInv'
<1>1. /\ now' \in 0..MaxNow
      /\ received' \in UNION {[J -> 0..MaxNow] : J \in SUBSET Jobs}
      /\ status' \in [Received' -> Outcomes \cup {"open"}]
      /\ deleted' \subseteq Received'
  <2>0. PICK K \in SUBSET Jobs : received \in [K -> 0..MaxNow]
    BY DEF TypeInv, TypeOK
  <2>1. /\ now \in 0..MaxNow /\ Received = K
        /\ status \in [K -> Outcomes \cup {"open"}]
        /\ deleted \subseteq K
    BY <2>0 DEF TypeInv, TypeOK, Received
  <2>2. ASSUME NEW j \in Jobs, Receive(j)
        PROVE  /\ now' \in 0..MaxNow
               /\ received' \in UNION {[J -> 0..MaxNow] : J \in SUBSET Jobs}
               /\ status' \in [Received' -> Outcomes \cup {"open"}]
               /\ deleted' \subseteq Received'
    <3>1. received' = [i \in K \cup {j} |-> IF i = j THEN now ELSE received[i]]
      BY <2>1, <2>2 DEF Receive
    <3>2. status' = [i \in K \cup {j} |-> IF i = j THEN "open" ELSE status[i]]
      BY <2>1, <2>2 DEF Receive
    <3>3. now' = now /\ deleted' = deleted
      BY <2>2 DEF Receive
    <3>4. received' \in [K \cup {j} -> 0..MaxNow] /\ Received' = K \cup {j}
      BY <2>0, <2>1, <3>1 DEF Received
    <3>5. status' \in [K \cup {j} -> Outcomes \cup {"open"}]
      BY <2>1, <3>2
    <3>6. K \cup {j} \in SUBSET Jobs
      OBVIOUS
    <3>. QED  BY <2>1, <3>3, <3>4, <3>5, <3>6
  <2>3. ASSUME UNCHANGED received, now' \in 0..MaxNow,
               status' \in [K -> Outcomes \cup {"open"}], deleted' \subseteq K
        PROVE  /\ now' \in 0..MaxNow
               /\ received' \in UNION {[J -> 0..MaxNow] : J \in SUBSET Jobs}
               /\ status' \in [Received' -> Outcomes \cup {"open"}]
               /\ deleted' \subseteq Received'
    <3>1. Received' = K /\ received' \in [K -> 0..MaxNow]
      BY <2>0, <2>1, <2>3 DEF Received
    <3>. QED  BY <2>3, <3>1
  <2>4. ASSUME NEW j \in Jobs, Finish(j)
        PROVE  /\ UNCHANGED <<received, now, deleted>>
               /\ status' \in [K -> Outcomes \cup {"open"}]
    BY <2>1, <2>4 DEF Finish
  <2>5. CASE Tick
    BY <2>1, <2>3, <2>5, AnalyticsAssumption DEF Tick
  <2>6. CASE Retain
    BY <2>1, <2>3, <2>6 DEF Retain, Stored
  <2>7. CASE UNCHANGED <<now, received, status, deleted>>
    BY <2>1, <2>3, <2>7
  <2>8. CASE \E j \in Jobs : Finish(j)
    <3>1. PICK j \in Jobs : Finish(j)
      BY <2>8
    <3>2. UNCHANGED <<received, now, deleted>> /\ status' \in [K -> Outcomes \cup {"open"}]
      BY <2>4, <3>1
    <3>. QED  BY <2>1, <2>3, <3>2
  <2>9. \/ \E j \in Jobs : Receive(j)
        \/ \E j \in Jobs : Finish(j)
        \/ Tick \/ Retain
        \/ UNCHANGED <<now, received, status, deleted>>
    BY DEF Next, Reads, Lists, Deletes, Commits, Fails, vars
  <2>. QED  BY <2>2, <2>5, <2>6, <2>7, <2>8, <2>9
<1>2. \A d \in Days : TypedRows(usage[d])
  BY DEF TypeInv, TypeOK, TypedRows
<1>3. \A c \in Rollups :
         /\ TypedRows(rollup[c].rows)
         /\ rollup[c] = [at |-> rollup[c].at, day |-> rollup[c].day,
                         rows |-> rollup[c].rows, found |-> rollup[c].found]
         /\ rollup[c].at \in {"idle", "read", "listed", "deleted"}
         /\ rollup[c].day \in Days
         /\ rollup[c].found \subseteq DOMAIN usage[rollup[c].day]
  BY DEF TypeInv, TypeOK, Shape
<1>4. /\ \A d \in Days : TypedRows(usage'[d])
      /\ complete' \subseteq Rollups /\ exact' \subseteq Days
      /\ \A c \in Rollups :
            /\ TypedRows(rollup'[c].rows)
            /\ rollup'[c].at \in {"idle", "read", "listed", "deleted"}
            /\ rollup'[c].day \in Days
            /\ rollup'[c].found \subseteq DOMAIN usage'[rollup'[c].day]
  <2>. DEFINE Good == /\ \A d \in Days : TypedRows(usage'[d])
                      /\ complete' \subseteq Rollups /\ exact' \subseteq Days
                      /\ \A c \in Rollups :
                            /\ TypedRows(rollup'[c].rows)
                            /\ rollup'[c].at \in {"idle", "read", "listed", "deleted"}
                            /\ rollup'[c].day \in Days
                            /\ rollup'[c].found \subseteq DOMAIN usage'[rollup'[c].day]
  <2>1. complete \subseteq Rollups /\ exact \subseteq Days
    BY DEF TypeInv, TypeOK
  <2>2. CASE UNCHANGED <<usage, rollup, complete, exact>>
    BY <1>2, <1>3, <2>1, <2>2
  <2>3. ASSUME NEW c \in Rollups, NEW d \in Days, Reads(c, d) PROVE Good
    <3>1. DayJobs(d) \subseteq Received /\ DayJobs(d) \subseteq Jobs
      BY DEF DayJobs, Stored, TypeInv, Shape, Received
    <3>2. IsFiniteSet(DayJobs(d))
      BY <3>1, FS_Subset DEF TypeInv, Countable
    <3>3. \A j \in DayJobs(d) : received[j] \in Nat
      BY <3>1 DEF TypeInv, Shape
    <3>4. TypedRows(RowsOf(Fetched(DayJobs(d))))
      BY <3>1, <3>2, <3>3, TypedRollup
    <3>5. /\ rollup'[c] = [at |-> "read", day |-> d,
                           rows |-> RowsOf(Fetched(DayJobs(d))), found |-> {}]
          /\ \A o \in Rollups \ {c} : rollup'[o] = rollup[o]
          /\ UNCHANGED <<usage, exact>>
          /\ complete' \subseteq complete \cup {c}
      BY <2>3 DEF Reads, TypeInv, Shape
    <3>6. /\ rollup'[c].at = "read" /\ rollup'[c].day = d /\ rollup'[c].found = {}
          /\ TypedRows(rollup'[c].rows)
      BY <3>4, <3>5
    <3>. QED  BY <1>2, <1>3, <2>1, <3>5, <3>6
  <2>4. ASSUME NEW c \in Rollups, Lists(c) PROVE Good
    <3>1. /\ rollup'[c].at = "listed" /\ rollup'[c].day = rollup[c].day
          /\ rollup'[c].rows = rollup[c].rows
          /\ rollup'[c].found = DOMAIN usage[rollup[c].day]
          /\ \A o \in Rollups \ {c} : rollup'[o] = rollup[o]
          /\ UNCHANGED <<usage, complete, exact>>
      BY <1>3, <2>4 DEF Lists, TypeInv, Shape
    <3>. QED  BY <1>2, <1>3, <2>1, <3>1
  <2>5. ASSUME NEW c \in Rollups, Deletes(c) PROVE Good
    <3>1. /\ rollup'[c].at = "deleted" /\ rollup'[c].day = rollup[c].day
          /\ rollup'[c].rows = rollup[c].rows
          /\ rollup'[c].found = rollup[c].found
          /\ \A o \in Rollups \ {c} : rollup'[o] = rollup[o]
          /\ UNCHANGED <<usage, complete, exact>>
      BY <1>3, <2>5 DEF Deletes, TypeInv, Shape
    <3>. QED  BY <1>2, <1>3, <2>1, <3>1
  <2>6. ASSUME NEW c \in Rollups, Fails(c) PROVE Good
    <3>1. /\ rollup'[c] = Idle(rollup[c].day)
          /\ \A o \in Rollups \ {c} : rollup'[o] = rollup[o]
          /\ UNCHANGED <<usage, exact>>
          /\ complete' \subseteq complete
      BY <1>3, <2>6 DEF Fails, TypeInv, Shape
    <3>2. /\ rollup'[c].at = "idle" /\ rollup'[c].day = rollup[c].day
          /\ rollup'[c].found = {} /\ rollup'[c].rows = NoRows
      BY <3>1 DEF Idle
    <3>. QED  BY <1>2, <1>3, <2>1, <3>1, <3>2, TypedNothing
  <2>7. ASSUME NEW c \in Rollups, Commits(c) PROVE Good
    <3>. DEFINE d == rollup[c].day
                rows == rollup[c].rows
                found == rollup[c].found
                kept == DOMAIN usage[d] \ found
    <3>1. d \in Days /\ TypedRows(rows) /\ TypedRows(usage[d])
      BY <1>2, <1>3
    <3>2. /\ usage'[d] = [g \in kept \cup DOMAIN rows |->
                             IF g \in DOMAIN rows THEN rows[g] ELSE usage[d][g]]
          /\ \A e \in Days \ {d} : usage'[e] = usage[e]
          /\ complete' \subseteq complete
          /\ exact' \subseteq exact \cup {d}
      BY <2>7, <3>1 DEF Commits, Inserted, TypeInv, Shape
    <3>3. /\ rollup'[c].at = "idle" /\ DOMAIN rollup'[c].rows = {} /\ rollup'[c].found = {}
          /\ \A o \in Rollups : rollup'[o].day = rollup[o].day
          /\ \A o \in Rollups \ {c} :
                /\ rollup'[o].at = rollup[o].at
                /\ rollup'[o].rows = rollup[o].rows
                /\ rollup'[o].found = IF rollup[o].day = rollup[c].day
                                        THEN rollup[o].found \ rollup[c].found
                                        ELSE rollup[o].found
      BY <2>7, AfterCommit DEF TypeInv
    <3>. HIDE DEF rows, found, kept
    <3>4. DOMAIN usage'[d] = kept \cup DOMAIN rows
      BY <3>2
    <3>5. TypedRows(usage'[d])
      <4>1. DOMAIN usage'[d] \subseteq Groups
        BY <3>1, <3>4 DEF TypedRows, AreRows, kept
      <4>2. \A g \in DOMAIN usage'[d] :
              \/ g \in DOMAIN rows /\ usage'[d][g] = rows[g]
              \/ g \in DOMAIN usage[d] /\ usage'[d][g] = usage[d][g]
        BY <3>2, <3>4 DEF kept
      <4>3. \A g \in DOMAIN usage'[d] :
              /\ usage'[d][g] \in UsageRow
              /\ usage'[d][g].sessions \in 1..usage'[d][g].requests
        BY <3>1, <4>2 DEF TypedRows, AreRows
      <4>. QED  BY <4>1, <4>3 DEF TypedRows, AreRows
    <3>6. TypedRows(rollup'[c].rows)
      BY <3>3 DEF TypedRows, AreRows
    <3>7. ASSUME NEW o \in Rollups
          PROVE  rollup'[o].found \subseteq DOMAIN usage'[rollup'[o].day]
      <4>1. rollup[o].found \subseteq DOMAIN usage[rollup[o].day] /\ rollup[o].day \in Days
        BY <1>3
      <4>2. CASE o = c
        BY <3>3, <4>2
      <4>3. CASE o # c /\ rollup[o].day = d
        BY <3>3, <3>4, <4>1, <4>3 DEF kept, found
      <4>4. CASE o # c /\ rollup[o].day # d
        BY <3>2, <3>3, <4>1, <4>4
      <4>. QED  BY <4>2, <4>3, <4>4
    <3>8. \A o \in Rollups : /\ TypedRows(rollup'[o].rows)
                             /\ rollup'[o].at \in {"idle", "read", "listed", "deleted"}
                             /\ rollup'[o].day \in Days
      BY <1>3, <3>3, <3>6
    <3>9. \A e \in Days : TypedRows(usage'[e])
      BY <1>2, <3>2, <3>5
    <3>. QED  BY <2>1, <3>1, <3>2, <3>7, <3>8, <3>9
  <2>8. \/ UNCHANGED <<usage, rollup, complete, exact>>
        \/ \E c \in Rollups : \/ \E d \in Days : Reads(c, d)
                              \/ Lists(c) \/ Deletes(c) \/ Commits(c) \/ Fails(c)
    BY DEF Next, Receive, Finish, Tick, Retain, vars
  <2>. QED  BY <2>2, <2>3, <2>4, <2>5, <2>6, <2>7, <2>8
<1>5. \A c \in Rollups : DOMAIN rollup'[c] = {"at", "day", "rows", "found"}
  <2>. TAKE c \in Rollups
  <2>1. rollup'[c] = [at |-> rollup'[c].at, day |-> rollup'[c].day,
                      rows |-> rollup'[c].rows, found |-> rollup'[c].found]
    BY DEF Shape
  <2>2. \A a, d, r, f : DOMAIN [at |-> a, day |-> d, rows |-> r, found |-> f]
                           = {"at", "day", "rows", "found"}
    OBVIOUS
  <2>. QED  BY <2>1, <2>2
<1>6. DOMAIN usage' = Days /\ DOMAIN rollup' = Rollups
  BY DEF Shape
<1>7. TypeOK'
  BY <1>1, <1>4, <1>5, <1>6 DEF TypeOK, TypedRows
<1>. QED  BY <1>4, <1>7 DEF TypeInv

(* The type invariant, with what a row says of itself: every group has at  *)
(* least one session and no more sessions than requests.                   *)
THEOREM AnalyticsTypeCorrect == Spec => []TypeOK
<1>1. Ledger /\ TypeInv /\ [Next]_vars /\ Ledger' => TypeInv'
  <2>. SUFFICES ASSUME Ledger, TypeInv, [Next]_vars, Ledger' PROVE TypeInv'
    OBVIOUS
  <2>1. Shape' /\ Countable'
    BY CountableStep DEF Ledger, TypeInv
  <2>. QED  BY <2>1, TypeStep
<1>2. TypeInv => TypeOK
  BY DEF TypeInv
<1>. QED  BY LedgerInit, LedgerStep, TypeInit, <1>1, <1>2, PTL DEF Spec
==============================================================================
