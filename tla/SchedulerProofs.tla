--------------------------- MODULE SchedulerProofs ---------------------------
(***************************************************************************)
(* Theorems about Scheduler for any requests, users, priorities, limits    *)
(* and queue depth; neither the number of requests nor that of users has   *)
(* to be finite.  The first half is about one promotion pass, for any      *)
(* waiting set and any limits: it grants within the limits, leaves nobody  *)
(* behind who could have been served, passes over a request only at its    *)
(* user's cap, and is what the loop of the code does.                      *)
(***************************************************************************)
EXTENDS Scheduler, OrderingLemmas

Keys == [Requests -> [priority : Int, seq : Nat]]

(* seq numbers tell the members of S apart.                                *)
DistinctSeq(key, S) == \A v, w \in S : key[v].seq = key[w].seq => v = w

LEMMA PrecedesTransitive ==
  ASSUME NEW key \in Keys, NEW u \in Requests, NEW v \in Requests, NEW w \in Requests,
         Precedes(key, u, v), Precedes(key, v, w)
  PROVE  Precedes(key, u, w)
BY DEF Precedes, Keys

LEMMA PrecedesTotal ==
  ASSUME NEW key \in Keys, NEW v \in Requests, NEW w \in Requests,
         key[v].seq # key[w].seq
  PROVE  Precedes(key, v, w) \/ Precedes(key, w, v)
BY DEF Precedes, Keys

LEMMA PrecedesIrreflexive ==
  ASSUME NEW key \in Keys, NEW v \in Requests
  PROVE  ~Precedes(key, v, v)
BY DEF Precedes, Keys

(* The order of the queue, as a relation on the requests of W.             *)
QueueOrder(key, W) == {p \in W \X W : Precedes(key, p[1], p[2])}

LEMMA QueueOrdered ==
  ASSUME NEW key \in Keys, NEW W, W \subseteq Requests, DistinctSeq(key, W)
  PROVE  /\ \A v, w \in W : <<v, w>> \in QueueOrder(key, W) <=> Precedes(key, v, w)
         /\ IsStrictOrder(QueueOrder(key, W), W)
<1>1. \A v, w \in W : <<v, w>> \in QueueOrder(key, W) <=> Precedes(key, v, w)
  BY DEF QueueOrder
<1>2. \A v, w \in W : v # w => Precedes(key, v, w) \/ Precedes(key, w, v)
  BY PrecedesTotal DEF DistinctSeq
<1>3. \A v \in W : ~ Precedes(key, v, v)
  BY PrecedesIrreflexive
<1>4. \A u, v, w \in W :
         Precedes(key, u, v) /\ Precedes(key, v, w) => Precedes(key, u, w)
  BY PrecedesTransitive
<1>. QED  BY <1>1, <1>2, <1>3, <1>4 DEF IsStrictOrder

(* A non-empty finite set of requests has a last one in the queue's order. *)
LEMMA LastInQueue ==
  ASSUME NEW key \in Keys, NEW P, P \subseteq Requests, IsFiniteSet(P), P # {},
         DistinctSeq(key, P)
  PROVE  \E q \in P : \A s \in P \ {q} : Precedes(key, s, q)
<1>1. PICK q \in P : \A s \in P \ {q} : <<s, q>> \in QueueOrder(key, P)
  BY QueueOrdered, LastExists
<1>. QED  BY <1>1, QueueOrdered

(* A request left waiting found every slot taken or its user at the cap.   *)
LEMMA NobodyLeftBehind ==
  ASSUME NEW key \in Keys, NEW W, W \subseteq Requests, IsFiniteSet(W),
         NEW ac \in Int, NEW byUser \in [Users -> Int],
         NEW max \in Int, NEW cap \in Int, NEW P \in SUBSET W,
         IsPromoted(key, W, ac, byUser, max, cap, P), NEW w \in W \ P
  PROVE  \/ ac + Cardinality(P) >= max
         \/ byUser[UserOf[w]] + Cardinality(OfUser(P, UserOf[w])) >= cap
<1>. DEFINE A == Ahead(key, P, w)
            u == UserOf[w]
<1>1. u \in Users
  BY UserOfAssumption
<1>2. IsFiniteSet(P) /\ A \subseteq P /\ OfUser(A, u) \subseteq OfUser(P, u)
  BY SubsetCard DEF Ahead, OfUser
<1>3. IsFiniteSet(OfUser(P, u))
  BY <1>2, SubsetCard DEF OfUser
<1>4. /\ Cardinality(A) \in Nat /\ Cardinality(P) \in Nat
      /\ Cardinality(A) <= Cardinality(P)
  BY <1>2, SubsetCard
<1>5. /\ Cardinality(OfUser(A, u)) \in Nat /\ Cardinality(OfUser(P, u)) \in Nat
      /\ Cardinality(OfUser(A, u)) <= Cardinality(OfUser(P, u))
  BY <1>2, <1>3, SubsetCard
<1>6. ~(ac + Cardinality(A) < max /\ byUser[u] + Cardinality(OfUser(A, u)) < cap)
  BY DEF IsPromoted
<1>. HIDE DEF A, u
<1>7. \/ ac + Cardinality(P) >= max
      \/ byUser[u] + Cardinality(OfUser(P, u)) >= cap
  BY <1>1, <1>4, <1>5, <1>6
<1>. QED  BY <1>7 DEF u

(* A request is passed over only because its user is at the cap once those *)
(* ahead of it have been served.                                           *)
LEMMA PassedOver ==
  ASSUME NEW key \in Keys, NEW W, W \subseteq Requests, IsFiniteSet(W),
         NEW ac \in Int, NEW byUser \in [Users -> Int],
         NEW max \in Int, NEW cap \in Int, NEW P \in SUBSET W,
         IsPromoted(key, W, ac, byUser, max, cap, P),
         NEW w \in P, NEW v \in W \ P, Precedes(key, v, w)
  PROVE  /\ ac + Cardinality(Ahead(key, P, v)) < max
         /\ byUser[UserOf[v]]
              + Cardinality(OfUser(Ahead(key, P, v), UserOf[v])) >= cap
<1>. DEFINE A == Ahead(key, P, v)
            B == Ahead(key, P, w)
            u == UserOf[v]
<1>1. u \in Users
  BY UserOfAssumption
<1>2. IsFiniteSet(P) /\ A \subseteq P /\ B \subseteq P
  BY SubsetCard DEF Ahead
<1>3. A \subseteq B
  BY PrecedesTransitive DEF Ahead
<1>4. IsFiniteSet(A) /\ IsFiniteSet(B)
  BY <1>2, SubsetCard
<1>5. /\ Cardinality(A) \in Nat /\ Cardinality(B) \in Nat
      /\ Cardinality(A) <= Cardinality(B)
  BY <1>3, <1>4, SubsetCard
<1>6. Cardinality(OfUser(A, u)) \in Nat
  BY <1>4, SubsetCard DEF OfUser
<1>7. ~(ac + Cardinality(A) < max /\ byUser[u] + Cardinality(OfUser(A, u)) < cap)
  BY DEF IsPromoted
<1>8. ac + Cardinality(B) < max
  BY DEF IsPromoted
<1>. HIDE DEF A, B, u
<1>9. /\ ac + Cardinality(A) < max
      /\ byUser[u] + Cardinality(OfUser(A, u)) >= cap
  BY <1>1, <1>5, <1>6, <1>7, <1>8
<1>. QED  BY <1>9 DEF u, A

(* ... hence also once the pass is over.                                   *)
LEMMA ServedInOrder ==
  ASSUME NEW key \in Keys, NEW W, W \subseteq Requests, IsFiniteSet(W),
         NEW ac \in Int, NEW byUser \in [Users -> Int],
         NEW max \in Int, NEW cap \in Int, NEW P \in SUBSET W,
         IsPromoted(key, W, ac, byUser, max, cap, P),
         NEW w \in P, NEW v \in W \ P, Precedes(key, v, w)
  PROVE  byUser[UserOf[v]] + Cardinality(OfUser(P, UserOf[v])) >= cap
<1>. DEFINE u == UserOf[v]
            A == OfUser(Ahead(key, P, v), u)
<1>1. u \in Users /\ byUser[u] + Cardinality(A) >= cap
  BY PassedOver, UserOfAssumption
<1>2. A \subseteq OfUser(P, u) /\ IsFiniteSet(OfUser(P, u))
  BY SubsetCard DEF Ahead, OfUser
<1>3. /\ Cardinality(A) \in Nat /\ Cardinality(OfUser(P, u)) \in Nat
      /\ Cardinality(A) <= Cardinality(OfUser(P, u))
  BY <1>2, SubsetCard
<1>. HIDE DEF A, u
<1>4. byUser[u] + Cardinality(OfUser(P, u)) >= cap
  BY <1>1, <1>3
<1>. QED  BY <1>4 DEF u

(* Under a cap that is not below the ceiling, nobody is passed over: with  *)
(* all of those ahead being the user's own, the ceiling is reached first.  *)
LEMMA NobodyPassedOver ==
  ASSUME NEW key \in Keys, NEW W, W \subseteq Requests, IsFiniteSet(W),
         NEW ac \in Int, NEW byUser \in [Users -> Int],
         NEW max \in Int, NEW cap \in Int, NEW P \in SUBSET W,
         IsPromoted(key, W, ac, byUser, max, cap, P),
         \A u \in Users : byUser[u] <= ac, max <= cap,
         NEW w \in P, NEW v \in W \ P
  PROVE  ~ Precedes(key, v, w)
<1>. SUFFICES ASSUME Precedes(key, v, w) PROVE FALSE
  OBVIOUS
<1>. DEFINE u == UserOf[v]
            A == Ahead(key, P, v)
<1>1. u \in Users /\ byUser[u] <= ac /\ byUser[u] \in Int
  BY UserOfAssumption
<1>2. /\ ac + Cardinality(A) < max
      /\ byUser[u] + Cardinality(OfUser(A, u)) >= cap
  BY PassedOver
<1>3. /\ Cardinality(A) \in Nat /\ Cardinality(OfUser(A, u)) \in Nat
      /\ Cardinality(OfUser(A, u)) <= Cardinality(A)
  <2>1. IsFiniteSet(A)
    BY SubsetCard DEF Ahead
  <2>. QED  BY <2>1, SubsetCard DEF OfUser
<1>. HIDE DEF A, u
<1>. QED  BY <1>1, <1>2, <1>3

(* A pass grants within the limits: the last request it promotes, and the  *)
(* last one of each user, still found a slot and the user under the cap.   *)
LEMMA GrantsWithinLimits ==
  ASSUME NEW key \in Keys, NEW W, W \subseteq Requests, IsFiniteSet(W),
         DistinctSeq(key, W),
         NEW ac \in Int, NEW byUser \in [Users -> Int],
         NEW max \in Int, NEW cap \in Int, NEW P \in SUBSET W,
         IsPromoted(key, W, ac, byUser, max, cap, P), NEW w \in P
  PROVE  /\ ac + Cardinality(P) <= max
         /\ byUser[UserOf[w]] + Cardinality(OfUser(P, UserOf[w])) <= cap
<1>1. IsFiniteSet(P) /\ P # {} /\ P \subseteq Requests /\ DistinctSeq(key, P)
  BY SubsetCard DEF DistinctSeq
<1>2. ac + Cardinality(P) <= max
  <2>1. PICK q \in P : \A s \in P \ {q} : Precedes(key, s, q)
    BY <1>1, LastInQueue
  <2>. DEFINE A == Ahead(key, P, q)
  <2>2. P \ {q} \subseteq A /\ A \subseteq P
    BY <2>1 DEF Ahead
  <2>3. IsFiniteSet(A) /\ Cardinality(A) \in Nat
    BY <1>1, <2>2, SubsetCard
  <2>4. /\ Cardinality(P \ {q}) = Cardinality(P) - 1
        /\ Cardinality(P \ {q}) <= Cardinality(A)
        /\ Cardinality(P) \in Nat
    BY <1>1, <2>2, <2>3, FS_RemoveElement, SubsetCard
  <2>5. ac + Cardinality(A) < max
    BY DEF IsPromoted
  <2>. HIDE DEF A
  <2>. QED  BY <2>3, <2>4, <2>5
<1>3. byUser[UserOf[w]] + Cardinality(OfUser(P, UserOf[w])) <= cap
  <2>. DEFINE u == UserOf[w]
              Q == OfUser(P, u)
  <2>1. /\ Q \subseteq P /\ w \in Q /\ IsFiniteSet(Q) /\ Q \subseteq Requests
        /\ DistinctSeq(key, Q) /\ u \in Users
    BY <1>1, SubsetCard, UserOfAssumption DEF OfUser, DistinctSeq
  <2>2. PICK q \in Q : \A s \in Q \ {q} : Precedes(key, s, q)
    <3>. HIDE DEF Q
    <3>. QED  BY <2>1, LastInQueue
  <2>3. UserOf[q] = u /\ q \in P
    BY DEF OfUser
  <2>. DEFINE A == OfUser(Ahead(key, P, q), u)
  <2>4. Q \ {q} \subseteq A /\ A \subseteq Q
    BY <2>2 DEF Ahead, OfUser
  <2>5. byUser[u] + Cardinality(A) < cap
    BY <2>3 DEF IsPromoted
  <2>. HIDE DEF A, Q
  <2>6. IsFiniteSet(A) /\ Cardinality(A) \in Nat
    BY <2>1, <2>4, SubsetCard
  <2>7. /\ Cardinality(Q \ {q}) = Cardinality(Q) - 1
        /\ Cardinality(Q \ {q}) <= Cardinality(A)
        /\ Cardinality(Q) \in Nat
    BY <2>1, <2>4, <2>6, FS_RemoveElement, SubsetCard
  <2>. HIDE DEF u
  <2>8. byUser[u] + Cardinality(Q) <= cap
    BY <2>1, <2>5, <2>6, <2>7
  <2>. QED  BY <2>8 DEF u, Q
<1>. QED  BY <1>2, <1>3

-----------------------------------------------------------------------------
(* The walk itself.  Its list is sorted, and the list of everyone: whoever *)
(* has i waiters ahead is at place i + 1.                                  *)
LEMMA AheadGrows ==
  ASSUME NEW key \in Keys, NEW W, W \subseteq Requests, IsFiniteSet(W),
         NEW v \in W, NEW w \in W, Precedes(key, v, w)
  PROVE  /\ Cardinality(Ahead(key, W, v)) \in Nat
         /\ Cardinality(Ahead(key, W, w)) \in Nat
         /\ Cardinality(Ahead(key, W, v)) < Cardinality(Ahead(key, W, w))
<1>1. Ahead(key, W, v) \subseteq Ahead(key, W, w)
  BY PrecedesTransitive DEF Ahead
<1>2. v \in Ahead(key, W, w) /\ v \notin Ahead(key, W, v)
  BY PrecedesIrreflexive DEF Ahead
<1>3. IsFiniteSet(Ahead(key, W, w))
  BY SubsetCard DEF Ahead
<1>. QED  BY <1>1, <1>2, <1>3, SubsetCard

LEMMA SortedIsSorted ==
  ASSUME NEW key \in Keys, NEW W, W \subseteq Requests, IsFiniteSet(W),
         DistinctSeq(key, W)
  PROVE  /\ SortedWaiting(key, W) \in [1..Cardinality(W) -> W]
         /\ \A i, j \in 1..Cardinality(W) :
               i < j => Precedes(key, SortedWaiting(key, W)[i],
                                      SortedWaiting(key, W)[j])
         /\ \A w \in W : \E i \in 1..Cardinality(W) : SortedWaiting(key, W)[i] = w
<1>. DEFINE n == Cardinality(W)
            R == QueueOrder(key, W)
            q == SortedWaiting(key, W)
<1>1. PICK p : IsListing(p, W, R)
  BY QueueOrdered, ListExists
<1>2. /\ p \in [1..n -> W]
      /\ \A i, j \in 1..n : i < j => Precedes(key, p[i], p[j])
  BY <1>1, QueueOrdered DEF IsListing
<1>3. /\ q \in [1..n -> W]
      /\ \A i, j \in 1..n : i < j => Precedes(key, q[i], q[j])
  BY <1>2 DEF SortedWaiting
<1>. HIDE DEF q
<1>4. IsListing(q, W, R)
  BY <1>3, QueueOrdered DEF IsListing
<1>5. \A w \in W : \E i \in 1..n : q[i] = w
  BY <1>4, QueueOrdered, ListIsBijective
<1>. QED  BY <1>3, <1>5 DEF q

(* g lists the states of the loop's walk over the first m places of q.     *)
IsWalk(g, q, start, max, cap, m) ==
    g = [n \in 0..m |->
           IF n = 0 THEN start ELSE LoopBody(max, cap, g[n - 1], q[n])]

(* The recursion that defines the walk has a solution.                     *)
LEMMA WalkExists ==
  ASSUME NEW q, NEW start, NEW max, NEW cap, NEW m \in Nat
  PROVE  \E g : IsWalk(g, q, start, max, cap, m)
<1>. USE DEF IsWalk
<1>. DEFINE Solves(g, k) ==
               g = [n \in 0..k |->
                      IF n = 0 THEN start ELSE LoopBody(max, cap, g[n - 1], q[n])]
            S == {k \in Nat : \E g : Solves(g, k)}
<1>1. 0 \in S
  <2>1. Solves([n \in 0..0 |-> start], 0)
    OBVIOUS
  <2>. QED  BY <2>1
<1>2. ASSUME NEW k \in Nat, k \in S PROVE k + 1 \in S
  <2>1. PICK g : Solves(g, k)
    BY <1>2
  <2>. DEFINE next == LoopBody(max, cap, g[k], q[k + 1])
              h == [n \in 0..(k + 1) |-> IF n = k + 1 THEN next ELSE g[n]]
  <2>2. \A n \in 0..k : g[n] = IF n = 0 THEN start
                               ELSE LoopBody(max, cap, g[n - 1], q[n])
    BY <2>1
  <2>3. ASSUME NEW n \in 0..(k + 1)
        PROVE  h[n] = IF n = 0 THEN start ELSE LoopBody(max, cap, h[n - 1], q[n])
    <3>1. CASE n = k + 1
      <4>1. h[n] = next /\ h[n - 1] = g[k] /\ n # 0
        BY <3>1
      <4>. QED  BY <3>1, <4>1
    <3>2. CASE n \in 0..k
      <4>1. h[n] = g[n] /\ (n # 0 => h[n - 1] = g[n - 1])
        BY <3>2
      <4>. QED  BY <2>2, <3>2, <4>1
    <3>. QED  BY <3>1, <3>2
  <2>4. Solves(h, k + 1)
    <3>. HIDE DEF next
    <3>1. DOMAIN h = 0..(k + 1) /\ h = [n \in 0..(k + 1) |-> h[n]]
      OBVIOUS
    <3>. HIDE DEF h
    <3>. QED  BY <2>3, <3>1
  <2>. HIDE DEF h
  <2>. QED  BY <2>4
<1>. HIDE DEF S
<1>3. m \in S
  BY <1>1, <1>2, SetInduction
<1>. QED  BY <1>3 DEF S

(* The states of the walk over the sorted list: after n iterations, those  *)
(* among the first n that IsPromoted allows have been picked, the counters *)
(* count them, and a walk that has stopped has found every slot taken.     *)
WalkInv(key, q, W, ac, byUser, max, cap, st, n) ==
    LET seen == {q[i] : i \in 1..n}
    IN  /\ st.stopped \in BOOLEAN
        /\ st.picked \subseteq seen
        /\ IsPromoted(key, seen, ac, byUser, max, cap, st.picked)
        /\ st.active = ac + Cardinality(st.picked)
        /\ st.byUser \in [Users -> Int]
        /\ \A u \in Users :
              st.byUser[u] = byUser[u] + Cardinality(OfUser(st.picked, u))
        /\ st.stopped => st.active >= max

LEMMA WalkStep ==
  ASSUME NEW key \in Keys, NEW W, W \subseteq Requests, IsFiniteSet(W),
         NEW ac \in Int, NEW byUser \in [Users -> Int],
         NEW max \in Int, NEW cap \in Int, NEW N \in Nat,
         NEW q \in [1..N -> W],
         \A i, j \in 1..N : i < j => Precedes(key, q[i], q[j]),
         NEW n \in 0..(N - 1), NEW st,
         st \in [stopped : BOOLEAN, active : Int, byUser : [Users -> Int],
                 picked : SUBSET W],
         WalkInv(key, q, W, ac, byUser, max, cap, st, n)
  PROVE  LET next == LoopBody(max, cap, st, q[n + 1])
         IN  /\ next \in [stopped : BOOLEAN, active : Int,
                          byUser : [Users -> Int], picked : SUBSET W]
             /\ WalkInv(key, q, W, ac, byUser, max, cap, next, n + 1)
<1>. DEFINE w == q[n + 1]
            u == UserOf[w]
            P == st.picked
            seen == {q[i] : i \in 1..n}
            next == LoopBody(max, cap, st, w)
            Q == next.picked
<1>1. /\ w \in W /\ w \in Requests /\ u \in Users
      /\ {q[i] : i \in 1..(n + 1)} = seen \cup {w}
  BY UserOfAssumption
<1>2. /\ seen \subseteq W
      /\ \A v \in seen : Precedes(key, v, w)
  OBVIOUS
<1>3. w \notin seen /\ \A v \in seen : ~ Precedes(key, w, v)
  BY <1>1, <1>2, PrecedesIrreflexive, PrecedesTransitive
<1>4. /\ P \subseteq seen /\ IsFiniteSet(P) /\ Cardinality(P) \in Nat
      /\ \A x \in Users : IsFiniteSet(OfUser(P, x))
                            /\ Cardinality(OfUser(P, x)) \in Nat
  <2>1. P \subseteq seen
    BY DEF WalkInv
  <2>2. IsFiniteSet(P) /\ Cardinality(P) \in Nat
    BY <1>2, <2>1, SubsetCard
  <2>. QED  BY <2>1, <2>2, SubsetCard DEF OfUser
<1>5. Ahead(key, P, w) = P
  BY <1>2, <1>4 DEF Ahead
<1>6. /\ st.active = ac + Cardinality(P)
      /\ st.byUser \in [Users -> Int]
      /\ \A x \in Users : st.byUser[x] = byUser[x] + Cardinality(OfUser(P, x))
      /\ st.stopped => st.active >= max
      /\ IsPromoted(key, seen, ac, byUser, max, cap, P)
  BY DEF WalkInv
<1>. HIDE DEF w, seen, u
(* What w finds: nothing, because a slot or its user's share is missing... *)
<1>7. CASE st.stopped \/ st.active >= max \/ st.byUser[u] >= cap
  <2>1. /\ next.picked = P /\ next.active = st.active /\ next.byUser = st.byUser
        /\ next.stopped \in BOOLEAN /\ (next.stopped => st.active >= max)
        /\ next \in [stopped : BOOLEAN, active : Int,
                     byUser : [Users -> Int], picked : SUBSET W]
    BY <1>6, <1>7 DEF LoopBody, u
  <2>2. IsPromoted(key, seen \cup {w}, ac, byUser, max, cap, P)
    <3>1. w \notin P
      BY <1>3, <1>4
    <3>2. \/ ~ (ac + Cardinality(P) < max)
          \/ ~ (byUser[u] + Cardinality(OfUser(P, u)) < cap)
      BY <1>1, <1>4, <1>6, <1>7
    <3>. QED  BY <1>5, <1>6, <3>1, <3>2 DEF IsPromoted, u
  <2>. HIDE DEF next
  <2>3. WalkInv(key, q, W, ac, byUser, max, cap, next, n + 1)
    BY <1>1, <1>4, <1>6, <2>1, <2>2 DEF WalkInv
  <2>. QED  BY <2>1, <2>3 DEF next, w
(* ... or the slot.                                                        *)
<1>8. CASE ~ (st.stopped \/ st.active >= max \/ st.byUser[u] >= cap)
  <2>1. /\ next.picked = P \cup {w} /\ next.active = st.active + 1
        /\ next.byUser = [st.byUser EXCEPT ![u] = st.byUser[u] + 1]
        /\ ~ next.stopped /\ next.stopped \in BOOLEAN
        /\ next \in [stopped : BOOLEAN, active : Int,
                     byUser : [Users -> Int], picked : SUBSET W]
    <3>1. next = [st EXCEPT !.picked = P \cup {w}, !.active = st.active + 1,
                            !.byUser = [st.byUser EXCEPT ![u] = st.byUser[u] + 1]]
      BY <1>8 DEF LoopBody, u
    <3>2. /\ [st.byUser EXCEPT ![u] = st.byUser[u] + 1] \in [Users -> Int]
          /\ P \cup {w} \in SUBSET W /\ st.active + 1 \in Int
      BY <1>1, <1>6
    <3>. HIDE DEF next
    <3>. QED  BY <1>8, <3>1, <3>2
  <2>2. Cardinality(P \cup {w}) = Cardinality(P) + 1
    BY <1>3, <1>4, FS_AddElement
  <2>3. \A x \in Users : OfUser(P \cup {w}, x) =
                          IF x = u THEN OfUser(P, x) \cup {w} ELSE OfUser(P, x)
    BY DEF OfUser, u
  <2>4. /\ Ahead(key, P \cup {w}, w) = P
        /\ \A v \in seen : Ahead(key, P \cup {w}, v) = Ahead(key, P, v)
    <3>1. ~ Precedes(key, w, w)
      BY <1>1, PrecedesIrreflexive
    <3>. QED  BY <1>3, <1>5, <3>1 DEF Ahead
  <2>5. IsPromoted(key, seen \cup {w}, ac, byUser, max, cap, P \cup {w})
    <3>1. ac + Cardinality(P) < max /\ byUser[u] + Cardinality(OfUser(P, u)) < cap
      BY <1>1, <1>4, <1>6, <1>8
    <3>. QED  BY <1>3, <1>6, <2>4, <3>1 DEF IsPromoted, u
  <2>6. \A x \in Users :
           next.byUser[x] = byUser[x] + Cardinality(OfUser(P \cup {w}, x))
    <3>. HIDE DEF next
    <3>. TAKE x \in Users
    <3>1. PICK k \in Nat : k = Cardinality(OfUser(P, x))
      BY <1>4
    <3>2. PICK b \in Int : b = byUser[x]
      OBVIOUS
    <3>. HIDE DEF P
    <3>3. st.byUser[x] = b + k
      BY <1>6, <3>1, <3>2
    <3>4. CASE x = u
      <4>1. Cardinality(OfUser(P \cup {w}, x)) = k + 1
        <5>1. w \notin OfUser(P, x)
          BY <1>3, <1>4 DEF OfUser
        <5>2. OfUser(P \cup {w}, x) = OfUser(P, x) \cup {w}
          BY <2>3, <3>4
        <5>. QED  BY <1>4, <3>1, <5>1, <5>2, FS_AddElement
      <4>2. next.byUser[x] = st.byUser[x] + 1
        BY <1>1, <1>6, <2>1, <3>4
      <4>3. next.byUser[x] = b + (k + 1)
        BY <3>3, <4>2
      <4>. QED  BY <3>2, <4>1, <4>3
    <3>5. CASE x # u
      <4>1. Cardinality(OfUser(P \cup {w}, x)) = k
        BY <2>3, <3>1, <3>5
      <4>2. next.byUser[x] = st.byUser[x]
        BY <1>1, <1>6, <2>1, <3>5
      <4>. QED  BY <3>2, <3>3, <4>1, <4>2
    <3>. QED  BY <3>4, <3>5
  <2>. HIDE DEF next
  <2>7. next.active = ac + Cardinality(P \cup {w})
    BY <1>4, <1>6, <2>1, <2>2
  <2>8. P \cup {w} \subseteq seen \cup {w} /\ next.byUser \in [Users -> Int]
    BY <1>4, <2>1
  <2>9. WalkInv(key, q, W, ac, byUser, max, cap, next, n + 1)
    BY <1>1, <2>1, <2>5, <2>6, <2>7, <2>8 DEF WalkInv
  <2>. QED  BY <2>1, <2>9 DEF next, w
<1>. QED  BY <1>7, <1>8

(* At most one set is what a pass promotes: two would differ in a first    *)
(* request, with the same ones served ahead of it.                         *)
LEMMA PromotedUnique ==
  ASSUME NEW key \in Keys, NEW W, W \subseteq Requests, IsFiniteSet(W),
         DistinctSeq(key, W), NEW ac, NEW byUser, NEW max, NEW cap,
         NEW P \in SUBSET W, NEW Q \in SUBSET W,
         IsPromoted(key, W, ac, byUser, max, cap, P),
         IsPromoted(key, W, ac, byUser, max, cap, Q)
  PROVE  P = Q
<1>. DEFINE D == (P \ Q) \cup (Q \ P)
            Place(w) == Cardinality(Ahead(key, W, w))
<1>. SUFFICES ASSUME D # {} PROVE FALSE
  OBVIOUS
<1>1. \A w \in D : Place(w) \in Nat
  <2>1. \A w \in D : Ahead(key, W, w) \subseteq W
    BY DEF Ahead
  <2>. QED  BY <2>1, SubsetCard
<1>2. PICK w \in D : \A v \in D : Place(w) <= Place(v)
  <2>. DEFINE T == {Place(v) : v \in D}
  <2>1. T \subseteq Nat /\ T # {}
    BY <1>1
  <2>2. PICK m \in T : \A k \in T : m <= k
    <3>. HIDE DEF T
    <3>. QED  BY <2>1, LeastNat
  <2>. QED  BY <2>2
<1>3. \A v \in D : ~ Precedes(key, v, w)
  <2>. SUFFICES ASSUME NEW v \in D, Precedes(key, v, w) PROVE FALSE
    OBVIOUS
  <2>1. Place(v) < Place(w)
    BY AheadGrows
  <2>. QED  BY <1>1, <1>2, <2>1
<1>4. Ahead(key, P, w) = Ahead(key, Q, w)
  BY <1>3 DEF Ahead
<1>5. w \in P <=> w \in Q
  BY <1>4 DEF IsPromoted
<1>. QED  BY <1>5

(* The loop as the code has it promotes what IsPromoted says.              *)
THEOREM LoopPromotes ==
  ASSUME NEW key \in Keys, NEW W, W \subseteq Requests, IsFiniteSet(W),
         DistinctSeq(key, W),
         NEW ac \in Int, NEW byUser \in [Users -> Int],
         NEW max \in Int, NEW cap \in Int
  PROVE  Agrees(key, W, ac, byUser, max, cap)
<1>. DEFINE N == Cardinality(W)
            q == SortedWaiting(key, W)
            start == [stopped |-> FALSE, active |-> ac, byUser |-> byUser,
                      picked |-> {}]
            State == [stopped : BOOLEAN, active : Int, byUser : [Users -> Int],
                      picked : SUBSET W]
            end == PromoteLoop(key, W, ac, byUser, max, cap)
<1>1. N \in Nat
  BY FS_CardinalityType
<1>2. /\ q \in [1..N -> W]
      /\ \A i, j \in 1..N : i < j => Precedes(key, q[i], q[j])
      /\ \A w \in W : \E i \in 1..N : q[i] = w
  BY SortedIsSorted
<1>. HIDE DEF q, N
<1>3. PICK after :
         /\ after = [n \in 0..N |->
              IF n = 0 THEN start ELSE LoopBody(max, cap, after[n - 1], q[n])]
         /\ end = after[N]
  <2>. DEFINE F == CHOOSE g : g = [n \in 0..N |->
                     IF n = 0 THEN start ELSE LoopBody(max, cap, g[n - 1], q[n])]
  <2>1. F = [n \in 0..N |-> IF n = 0 THEN start ELSE LoopBody(max, cap, F[n - 1], q[n])]
    <3>. HIDE DEF start
    <3>1. \E g : IsWalk(g, q, start, max, cap, N)
      BY <1>1, WalkExists
    <3>. HIDE DEF State, end
    <3>. QED  BY <3>1 DEF IsWalk
  <2>2. end = F[N]
    BY DEF PromoteLoop, q, N
  <2>. QED  BY <2>1, <2>2
<1>4. /\ after[0] = start
      /\ \A n \in 0..(N - 1) : after[n + 1] = LoopBody(max, cap, after[n], q[n + 1])
  <2>1. \A n \in 0..N :
           after[n] = IF n = 0 THEN start ELSE LoopBody(max, cap, after[n - 1], q[n])
    <3>. HIDE DEF start
    <3>. QED  BY <1>3, Zenon
  <2>. HIDE DEF start
  <2>2. after[0] = start
    BY <1>1, <2>1
  <2>3. ASSUME NEW n \in 0..(N - 1)
        PROVE  after[n + 1] = LoopBody(max, cap, after[n], q[n + 1])
    <3>1. n + 1 \in 0..N /\ n + 1 # 0 /\ (n + 1) - 1 = n
      BY <1>1
    <3>. QED  BY <2>1, <3>1
  <2>. QED  BY <2>2, <2>3
<1>. HIDE DEF end
<1>. DEFINE Good(n) == /\ after[n] \in State
                       /\ WalkInv(key, q, W, ac, byUser, max, cap, after[n], n)
            S == {n \in Nat : n <= N => Good(n)}
<1>5. Good(0)
  <2>1. start \in State /\ start.picked = {} /\ start.active = ac
        /\ start.byUser = byUser /\ start.stopped = FALSE
    OBVIOUS
  <2>. HIDE DEF start
  <2>2. Cardinality({}) = 0 /\ \A u \in Users : OfUser({}, u) = {}
    BY FS_EmptySet DEF OfUser
  <2>3. {q[i] : i \in 1..0} = {}
    OBVIOUS
  <2>. QED  BY <1>4, <2>1, <2>2, <2>3 DEF WalkInv, IsPromoted
<1>6. ASSUME NEW n \in Nat, n \in S PROVE n + 1 \in S
  <2>. SUFFICES ASSUME n + 1 <= N PROVE Good(n + 1)
    OBVIOUS
  <2>1. n \in 0..(N - 1) /\ Good(n)
    BY <1>1, <1>6
  <2>2. after[n + 1] = LoopBody(max, cap, after[n], q[n + 1])
    BY <1>4, <2>1
  <2>3. /\ after[n] \in State
        /\ WalkInv(key, q, W, ac, byUser, max, cap, after[n], n)
    BY <2>1
  <2>. HIDE DEF Good, start, S
  <2>4. /\ LoopBody(max, cap, after[n], q[n + 1]) \in State
        /\ WalkInv(key, q, W, ac, byUser, max, cap,
                   LoopBody(max, cap, after[n], q[n + 1]), n + 1)
    BY <1>1, <1>2, <2>1, <2>3, WalkStep
  <2>. QED  BY <2>2, <2>4 DEF Good
<1>7. Good(N)
  <2>1. 0 \in S
    BY <1>5
  <2>. HIDE DEF S
  <2>2. N \in S
    BY <1>1, <1>6, <2>1, SetInduction
  <2>. QED  BY <1>1, <2>2 DEF S
<1>8. {q[i] : i \in 1..N} = W
  BY <1>2
<1>9. /\ end.picked \in SUBSET W
      /\ IsPromoted(key, W, ac, byUser, max, cap, end.picked)
      /\ end.active = ac + Cardinality(end.picked)
      /\ \A u \in Users :
            end.byUser[u] = byUser[u] + Cardinality(OfUser(end.picked, u))
  BY <1>3, <1>7, <1>8 DEF WalkInv
<1>10. {P \in SUBSET W : IsPromoted(key, W, ac, byUser, max, cap, P)} = {end.picked}
  BY <1>9, PromotedUnique
<1>. QED  BY <1>9, <1>10 DEF Agrees, end

-----------------------------------------------------------------------------
(* SlotAccounting is not inductive alone.  A slot is taken by the promoted *)
(* flag and given back by the program counter, so the invariant has to say *)
(* how the two and the waiting list go together.                           *)
Structure ==
    /\ waiting = {r \in Requests : pc[r] = "queued" /\ r \notin promoted}
    /\ \A r \in Requests : pc[r] = "holding" => r \in promoted
    /\ \A r \in promoted : pc[r] \in {"queued", "holding", "cancelled", "released"}
    /\ \A r \in notified : pc[r] = "queued"

FiniteSets_ == IsFiniteSet(waiting) /\ IsFiniteSet(SlotOwners)

Inv == TypeOK /\ Structure /\ FiniteSets_ /\ SlotAccounting /\ NoLostWakeup

-----------------------------------------------------------------------------
LEMMA DisjointUnion ==
  ASSUME NEW A, NEW B, IsFiniteSet(A), IsFiniteSet(B), A \cap B = {}
  PROVE  /\ IsFiniteSet(A \cup B)
         /\ Cardinality(A \cup B) = Cardinality(A) + Cardinality(B)
         /\ Cardinality(A) \in Nat /\ Cardinality(B) \in Nat
<1>1. Cardinality(A) \in Nat /\ Cardinality(B) \in Nat
  BY FS_CardinalityType
<1>2. Cardinality(A \cap B) = 0
  BY FS_EmptySet
<1>3. /\ IsFiniteSet(A \cup B)
      /\ Cardinality(A \cup B) =
           Cardinality(A) + Cardinality(B) - Cardinality(A \cap B)
  BY FS_Union
<1>. QED  BY <1>1, <1>2, <1>3

LEMMA OfUserFinite ==
  ASSUME NEW A, IsFiniteSet(A), NEW u
  PROVE  IsFiniteSet(OfUser(A, u)) /\ Cardinality(OfUser(A, u)) \in Nat
<1>1. OfUser(A, u) \in SUBSET A
  BY DEF OfUser
<1>. QED  BY <1>1, FS_Subset, FS_CardinalityType

(* A pass that promotes P adds up: counters that were right for the tasks  *)
(* in O before it are right for O and P after it.                          *)
LEMMA PassCounts ==
  ASSUME NEW O, IsFiniteSet(O), NEW W, IsFiniteSet(W), O \cap W = {},
         NEW P \in SUBSET W
  PROVE  /\ IsFiniteSet(O \cup P)
         /\ IsFiniteSet(W \ P)
         /\ Cardinality(O \cup P) = Cardinality(O) + Cardinality(P)
         /\ Cardinality(O \cup P) \in Nat
         /\ \A u \in Users :
              /\ Cardinality(OfUser(O \cup P, u)) =
                   Cardinality(OfUser(O, u)) + Cardinality(OfUser(P, u))
              /\ Cardinality(OfUser(O \cup P, u)) \in Nat
<1>1. IsFiniteSet(P) /\ IsFiniteSet(W \ P)
  BY FS_Subset, W \ P \in SUBSET W
<1>2. /\ IsFiniteSet(O \cup P)
      /\ Cardinality(O \cup P) = Cardinality(O) + Cardinality(P)
  BY <1>1, O \cap P = {}, DisjointUnion
<1>3. Cardinality(O \cup P) \in Nat
  BY <1>2, FS_CardinalityType
<1>4. ASSUME NEW u \in Users
      PROVE  /\ Cardinality(OfUser(O \cup P, u)) =
                  Cardinality(OfUser(O, u)) + Cardinality(OfUser(P, u))
             /\ Cardinality(OfUser(O \cup P, u)) \in Nat
  <2>1. IsFiniteSet(OfUser(O, u)) /\ IsFiniteSet(OfUser(P, u))
    BY <1>1, OfUserFinite
  <2>2. OfUser(O, u) \cap OfUser(P, u) = {}
    BY DEF OfUser
  <2>3. OfUser(O \cup P, u) = OfUser(O, u) \cup OfUser(P, u)
    BY DEF OfUser
  <2>4. Cardinality(OfUser(O \cup P, u)) =
          Cardinality(OfUser(O, u)) + Cardinality(OfUser(P, u))
    BY <2>1, <2>2, <2>3, DisjointUnion
  <2>5. Cardinality(OfUser(O \cup P, u)) \in Nat
    BY <1>2, OfUserFinite
  <2>. QED  BY <2>4, <2>5
<1>. QED  BY <1>1, <1>2, <1>3, <1>4

-----------------------------------------------------------------------------
LEMMA InitInv == Init => Inv
<1>. SUFFICES ASSUME Init PROVE Inv
  OBVIOUS
<1>. USE DEF Init
<1>1. TypeOK
  BY PoliciesAssumption DEF TypeOK, Pc
<1>2. Structure
  BY DEF Structure
<1>3. SlotOwners = {}
  BY DEF SlotOwners, Holders, Granted, Leaked
<1>4. \A u \in Users : OfUser(SlotOwners, u) = {}
  BY <1>3 DEF OfUser
<1>5. FiniteSets_ /\ SlotAccounting
  BY <1>3, <1>4, FS_EmptySet DEF FiniteSets_, SlotAccounting
<1>6. NoLostWakeup
  BY DEF NoLostWakeup, Granted
<1>. QED  BY <1>1, <1>2, <1>5, <1>6 DEF Inv

(* The slot owners are the promoted tasks that have not released.          *)
LEMMA OwnersOf ==
  ASSUME TypeOK, Structure
  PROVE  SlotOwners = {r \in promoted : pc[r] # "released"}
BY DEF TypeOK, Structure, SlotOwners, Holders, Granted, Leaked, Pc

LEMMA NextOwners ==
  ASSUME TypeOK', Structure'
  PROVE  SlotOwners' = {r \in promoted' : pc'[r] # "released"}
BY DEF TypeOK, Structure, SlotOwners, Holders, Granted, Leaked, Pc

(* A step that leaves the owners and the counters alone.                   *)
LEMMA SameOwners ==
  ASSUME Inv, TypeOK', Structure', IsFiniteSet(waiting'), SlotOwners' = SlotOwners,
         UNCHANGED <<active_count, active_by_user>>
  PROVE  FiniteSets_' /\ SlotAccounting'
BY DEF Inv, FiniteSets_, SlotAccounting

(* A step with a promotion pass over W, started with the slots of O taken. *)
LEMMA PassOwners ==
  ASSUME NEW O, IsFiniteSet(O), NEW W, IsFiniteSet(W), O \cap W = {},
         NEW P \in SUBSET W,
         waiting' = W \ P,
         active_count' = Cardinality(O) + Cardinality(P),
         active_by_user' =
           [u \in Users |-> Cardinality(OfUser(O, u)) + Cardinality(OfUser(P, u))]
  PROVE  /\ active_count' \in Nat
         /\ active_by_user' \in [Users -> Nat]
         /\ SlotOwners' = O \cup P => FiniteSets_' /\ SlotAccounting'
<1>. DEFINE A == O \cup P
<1>1. /\ IsFiniteSet(A)
      /\ IsFiniteSet(W \ P)
      /\ Cardinality(A) = Cardinality(O) + Cardinality(P)
      /\ Cardinality(A) \in Nat
      /\ \A u \in Users :
           /\ Cardinality(OfUser(A, u)) =
                Cardinality(OfUser(O, u)) + Cardinality(OfUser(P, u))
           /\ Cardinality(OfUser(A, u)) \in Nat
  BY PassCounts
<1>. HIDE DEF A
<1>2. active_count' \in Nat /\ active_by_user' \in [Users -> Nat]
  BY <1>1
<1>3. ASSUME SlotOwners' = A PROVE FiniteSets_' /\ SlotAccounting'
  BY <1>1, <1>3 DEF FiniteSets_, SlotAccounting, OfUser
<1>. QED  BY <1>2, <1>3 DEF A

LEMMA RejectFullInv ==
  ASSUME Inv, NEW r \in Requests, RejectFull(r) PROVE Inv'
<1>. USE DEF RejectFull
<1>1. TypeOK'
  BY DEF Inv, TypeOK, Pc
<1>2. Structure'
  <2>1. r \notin promoted /\ r \notin waiting /\ r \notin notified
    BY DEF Inv, Structure
  <2>2. /\ \A t \in Requests : pc'[t] = IF t = r THEN "rejected" ELSE pc[t]
        /\ UNCHANGED <<waiting, promoted, notified>>
    BY DEF Inv, TypeOK
  <2>3. /\ waiting \subseteq Requests /\ promoted \subseteq Requests
        /\ notified \subseteq Requests
    BY DEF Inv, TypeOK
  <2>. HIDE DEF RejectFull
  <2>. QED  BY <2>1, <2>2, <2>3 DEF Inv, Structure
<1>3. SlotOwners' = SlotOwners
  <2>1. SlotOwners = {s \in promoted : pc[s] # "released"}
    BY OwnersOf DEF Inv
  <2>2. SlotOwners' = {s \in promoted' : pc'[s] # "released"}
    BY <1>1, <1>2, NextOwners
  <2>3. /\ \A s \in promoted : pc'[s] = "released" <=> pc[s] = "released"
        /\ promoted' = promoted
    <3>1. r \notin promoted
      BY DEF Inv, Structure
    <3>. QED  BY <3>1 DEF Inv, TypeOK
  <2>. HIDE DEF RejectFull
  <2>. QED  BY <2>1, <2>2, <2>3
<1>4. FiniteSets_' /\ SlotAccounting'
  BY <1>1, <1>2, <1>3, SameOwners DEF Inv, FiniteSets_
<1>5. NoLostWakeup'
  BY DEF Inv, TypeOK, NoLostWakeup, Granted
<1>. QED  BY <1>1, <1>2, <1>4, <1>5 DEF Inv

LEMMA AdmitInv ==
  ASSUME Inv, NEW r \in Requests, NEW p \in Priorities, Admit(r, p) PROVE Inv'
<1>. DEFINE W == waiting \cup {r}
<1>1. PICK P \in SUBSET W :
         /\ TryPromote(W, active_count, active_by_user, P)
         /\ pc' = [pc EXCEPT ![r] = IF r \in P THEN "holding" ELSE "queued"]
  BY DEF Admit
<1>2. pc[r] = "idle" /\ r \notin promoted /\ r \notin waiting
  BY DEF Admit, Inv, Structure
<1>3. /\ IsFiniteSet(W) /\ W \subseteq Requests
      /\ IsFiniteSet(SlotOwners) /\ SlotOwners \subseteq Requests
      /\ SlotOwners \cap W = {}
  <2>1. SlotOwners = {s \in promoted : pc[s] # "released"}
    BY OwnersOf DEF Inv
  <2>. QED  BY <1>2, <2>1, FS_AddElement DEF Inv, TypeOK, Structure, FiniteSets_
<1>4. /\ waiting' = W \ P
      /\ active_count' = Cardinality(SlotOwners) + Cardinality(P)
      /\ active_by_user' =
           [u \in Users |-> Cardinality(OfUser(SlotOwners, u))
                             + Cardinality(OfUser(P, u))]
  BY <1>1 DEF TryPromote, Inv, SlotAccounting
<1>5. /\ active_count' \in Nat
      /\ active_by_user' \in [Users -> Nat]
      /\ SlotOwners' = SlotOwners \cup P => FiniteSets_' /\ SlotAccounting'
  <2>. HIDE DEF W
  <2>. QED  BY <1>3, <1>4, PassOwners
<1>6. TypeOK'
  BY <1>1, <1>2, <1>5, PrioritiesAssumption
     DEF Admit, TryPromote, NotifyAll, Inv, TypeOK, Pc
<1>7. Structure'
  BY <1>1, <1>2 DEF Admit, TryPromote, NotifyAll, Inv, TypeOK, Structure
<1>8. SlotOwners' = SlotOwners \cup P
  BY <1>1, <1>2, <1>6, <1>7, OwnersOf, NextOwners
     DEF TryPromote, Inv, TypeOK, Structure
<1>9. FiniteSets_' /\ SlotAccounting'
  BY <1>5, <1>8
<1>10. NoLostWakeup'
  BY <1>1, <1>2 DEF Admit, TryPromote, NotifyAll, Inv, TypeOK, NoLostWakeup, Granted
<1>. QED  BY <1>6, <1>7, <1>9, <1>10 DEF Inv

LEMMA WakeUpInv ==
  ASSUME Inv, NEW r \in Requests, WakeUp(r) PROVE Inv'
<1>. USE DEF WakeUp
<1>1. TypeOK'
  BY DEF Inv, TypeOK, Pc
<1>2. Structure'
  <2>1. CASE r \in promoted
    <3>1. /\ \A t \in Requests : pc'[t] = IF t = r THEN "holding" ELSE pc[t]
          /\ UNCHANGED <<waiting, promoted>> /\ notified' = notified \ {r}
      BY <2>1 DEF Inv, TypeOK
    <3>2. /\ waiting \subseteq Requests /\ promoted \subseteq Requests
          /\ notified \subseteq Requests
      BY DEF Inv, TypeOK
    <3>. HIDE DEF WakeUp
    <3>. QED  BY <2>1, <3>1, <3>2 DEF Inv, Structure
  <2>2. CASE r \notin promoted
    <3>1. pc' = pc
      BY <2>2
    <3>. QED  BY <3>1 DEF Inv, Structure
  <2>. QED  BY <2>1, <2>2
<1>3. SlotOwners' = SlotOwners
  <2>1. SlotOwners = {s \in promoted : pc[s] # "released"}
    BY OwnersOf DEF Inv
  <2>2. SlotOwners' = {s \in promoted' : pc'[s] # "released"}
    BY <1>1, <1>2, NextOwners
  <2>3. /\ \A s \in promoted : pc'[s] = "released" <=> pc[s] = "released"
        /\ promoted' = promoted
    <3>1. pc[r] = "queued"
      BY DEF Inv, Structure
    <3>2. CASE r \in promoted
      BY <3>1, <3>2 DEF Inv, TypeOK
    <3>3. CASE r \notin promoted
      BY <3>3
    <3>. QED  BY <3>2, <3>3
  <2>. HIDE DEF WakeUp
  <2>. QED  BY <2>1, <2>2, <2>3
<1>4. FiniteSets_' /\ SlotAccounting'
  BY <1>1, <1>2, <1>3, SameOwners DEF Inv, FiniteSets_
<1>5. NoLostWakeup'
  BY DEF Inv, TypeOK, NoLostWakeup, Granted
<1>. QED  BY <1>1, <1>2, <1>4, <1>5 DEF Inv

LEMMA QueueTimeoutInv ==
  ASSUME Inv, NEW r \in Requests, QueueTimeout(r) PROVE Inv'
<1>. USE DEF QueueTimeout
<1>1. TypeOK'
  BY DEF Inv, TypeOK, Pc
<1>2. Structure'
  BY DEF Inv, TypeOK, Structure
<1>3. SlotOwners' = SlotOwners
  <2>1. SlotOwners = {s \in promoted : pc[s] # "released"}
    BY OwnersOf DEF Inv
  <2>2. SlotOwners' = {s \in promoted' : pc'[s] # "released"}
    BY <1>1, <1>2, NextOwners
  <2>3. \A s \in Requests : pc'[s] = "released" <=> pc[s] = "released"
    BY DEF Inv, TypeOK
  <2>. QED  BY <2>1, <2>2, <2>3 DEF Inv, TypeOK
<1>4. IsFiniteSet(waiting')
  <2>1. waiting' \in SUBSET waiting
    OBVIOUS
  <2>. QED  BY <2>1, FS_Subset DEF Inv, FiniteSets_
<1>5. FiniteSets_' /\ SlotAccounting'
  BY <1>1, <1>2, <1>3, <1>4, SameOwners
<1>6. NoLostWakeup'
  BY DEF Inv, TypeOK, NoLostWakeup, Granted
<1>. QED  BY <1>1, <1>2, <1>5, <1>6 DEF Inv

LEMMA CancelInv ==
  ASSUME Inv, NEW r \in Requests, Cancel(r) PROVE Inv'
<1>. USE DEF Cancel
<1>1. TypeOK'
  BY DEF Inv, TypeOK
<1>2. Structure' /\ FiniteSets_' /\ SlotAccounting' /\ NoLostWakeup'
  BY DEF Inv, Structure, FiniteSets_, SlotAccounting, NoLostWakeup,
         SlotOwners, Holders, Granted, Leaked, OfUser
<1>. QED  BY <1>1, <1>2 DEF Inv

LEMMA ApplyPolicyInv ==
  ASSUME Inv, NEW p \in Policies, ApplyPolicy(p) PROVE Inv'
<1>. USE DEF ApplyPolicy
<1>1. TypeOK'
  BY PoliciesAssumption DEF Inv, TypeOK
<1>2. Structure' /\ FiniteSets_' /\ SlotAccounting' /\ NoLostWakeup'
  BY DEF Inv, Structure, FiniteSets_, SlotAccounting, NoLostWakeup,
         SlotOwners, Holders, Granted, Leaked, OfUser
<1>. QED  BY <1>1, <1>2 DEF Inv

(* CancelledError for a task that still waits: a pass without it.          *)
LEMMA CancelWaitingInv ==
  ASSUME Inv, NEW r \in Requests, CancelQueued(r), r \in waiting PROVE Inv'
<1>. DEFINE W == waiting \ {r}
<1>1. PICK P \in SUBSET W : TryPromote(W, active_count, active_by_user, P)
  BY DEF CancelQueued
<1>2. pc[r] = "queued" /\ r \notin promoted
  BY DEF Inv, Structure
<1>3. /\ IsFiniteSet(W) /\ W \subseteq Requests
      /\ IsFiniteSet(SlotOwners) /\ SlotOwners \subseteq Requests
      /\ SlotOwners \cap W = {}
  <2>1. SlotOwners = {s \in promoted : pc[s] # "released"}
    BY OwnersOf DEF Inv
  <2>. QED  BY <2>1, FS_RemoveElement DEF Inv, TypeOK, Structure, FiniteSets_
<1>4. /\ waiting' = W \ P
      /\ active_count' = Cardinality(SlotOwners) + Cardinality(P)
      /\ active_by_user' =
           [u \in Users |-> Cardinality(OfUser(SlotOwners, u))
                             + Cardinality(OfUser(P, u))]
  BY <1>1 DEF TryPromote, Inv, SlotAccounting
<1>5. /\ active_count' \in Nat
      /\ active_by_user' \in [Users -> Nat]
      /\ SlotOwners' = SlotOwners \cup P => FiniteSets_' /\ SlotAccounting'
  <2>. HIDE DEF W
  <2>. QED  BY <1>3, <1>4, PassOwners
<1>6. TypeOK'
  BY <1>1, <1>5 DEF CancelQueued, TryPromote, NotifyAll, Inv, TypeOK, Pc
<1>7. Structure'
  BY <1>1, <1>2 DEF CancelQueued, TryPromote, NotifyAll, Inv, TypeOK, Structure
<1>8. SlotOwners' = SlotOwners \cup P
  BY <1>1, <1>2, <1>6, <1>7, OwnersOf, NextOwners
     DEF CancelQueued, TryPromote, NotifyAll, Inv, TypeOK, Structure
<1>9. FiniteSets_' /\ SlotAccounting'
  BY <1>5, <1>8
<1>10. NoLostWakeup'
  BY <1>1, <1>2
     DEF CancelQueued, TryPromote, NotifyAll, Inv, TypeOK, Structure,
         NoLostWakeup, Granted
<1>. QED  BY <1>6, <1>7, <1>9, <1>10 DEF Inv

(* CancelledError for a task promoted meanwhile: its slot changes hands,   *)
(* from a granted task to a leaked one.                                    *)
LEMMA CancelGrantedInv ==
  ASSUME Inv, NEW r \in Requests, CancelQueued(r), r \notin waiting PROVE Inv'
<1>1. /\ pc' = [pc EXCEPT ![r] = "cancelled"]
      /\ notified' = notified \ {r}
      /\ cancel_requested' = cancel_requested \ {r}
      /\ UNCHANGED <<policy, waiter, seq_counter, waiting, active_count,
                     active_by_user, promoted, pass_policy>>
  BY DEF CancelQueued
<1>2. pc[r] = "queued" /\ r \in promoted
  BY DEF CancelQueued, Inv, Structure
<1>3. TypeOK'
  BY <1>1 DEF Inv, TypeOK, Pc
<1>4. Structure'
  BY <1>1, <1>2 DEF Inv, TypeOK, Structure
<1>5. SlotOwners' = SlotOwners
  <2>1. SlotOwners = {s \in promoted : pc[s] # "released"}
    BY OwnersOf DEF Inv
  <2>2. SlotOwners' = {s \in promoted' : pc'[s] # "released"}
    BY <1>3, <1>4, NextOwners
  <2>. QED  BY <1>1, <1>2, <2>1, <2>2 DEF Inv, TypeOK
<1>6. FiniteSets_' /\ SlotAccounting'
  BY <1>1, <1>3, <1>4, <1>5, SameOwners DEF Inv, FiniteSets_
<1>7. NoLostWakeup'
  BY <1>1 DEF Inv, TypeOK, NoLostWakeup, Granted
<1>. QED  BY <1>3, <1>4, <1>6, <1>7 DEF Inv

LEMMA ReleaseInv ==
  ASSUME Inv, NEW r \in Requests, Release(r) PROVE Inv'
<1>. DEFINE O == SlotOwners \ {r}
            byUser == [active_by_user EXCEPT ![UserOf[r]] = @ - 1]
<1>1. PICK P \in SUBSET waiting : TryPromote(waiting, active_count - 1, byUser, P)
  BY DEF Release
<1>2. pc[r] = "holding" /\ r \in promoted /\ r \notin waiting /\ r \in SlotOwners
  BY DEF Release, Inv, Structure, SlotOwners, Holders
<1>3. /\ IsFiniteSet(waiting) /\ waiting \subseteq Requests
      /\ IsFiniteSet(O) /\ O \subseteq Requests
      /\ O \cap waiting = {}
      /\ Cardinality(O) = active_count - 1
  <2>1. SlotOwners = {s \in promoted : pc[s] # "released"}
    BY OwnersOf DEF Inv
  <2>2. IsFiniteSet(O) /\ Cardinality(O) = Cardinality(SlotOwners) - 1
    BY <1>2, FS_RemoveElement DEF Inv, FiniteSets_
  <2>. QED  BY <2>1, <2>2 DEF Inv, TypeOK, Structure, FiniteSets_, SlotAccounting
<1>4. ASSUME NEW u \in Users PROVE byUser[u] = Cardinality(OfUser(O, u))
  <2>1. active_by_user[u] = Cardinality(OfUser(SlotOwners, u))
    BY DEF Inv, SlotAccounting
  <2>2. IsFiniteSet(OfUser(SlotOwners, u))
    BY OfUserFinite DEF Inv, FiniteSets_
  <2>3. CASE u = UserOf[r]
    <3>1. OfUser(O, u) = OfUser(SlotOwners, u) \ {r} /\ r \in OfUser(SlotOwners, u)
      BY <1>2, <2>3 DEF OfUser
    <3>2. Cardinality(OfUser(SlotOwners, u) \ {r}) =
            Cardinality(OfUser(SlotOwners, u)) - 1
      BY <2>2, <3>1, FS_RemoveElement
    <3>. QED  BY <2>1, <2>3, <3>1, <3>2 DEF Inv, TypeOK
  <2>4. CASE u # UserOf[r]
    <3>1. OfUser(O, u) = OfUser(SlotOwners, u)
      BY <2>4 DEF OfUser
    <3>. QED  BY <2>1, <2>4, <3>1 DEF Inv, TypeOK
  <2>. QED  BY <2>3, <2>4
<1>5. /\ waiting' = waiting \ P
      /\ active_count' = Cardinality(O) + Cardinality(P)
      /\ active_by_user' =
           [u \in Users |-> Cardinality(OfUser(O, u)) + Cardinality(OfUser(P, u))]
  <2>. HIDE DEF O, byUser
  <2>. QED  BY <1>1, <1>3, <1>4 DEF TryPromote
<1>6. /\ active_count' \in Nat
      /\ active_by_user' \in [Users -> Nat]
      /\ SlotOwners' = O \cup P => FiniteSets_' /\ SlotAccounting'
  <2>. HIDE DEF O
  <2>. QED  BY <1>3, <1>5, PassOwners
<1>7. TypeOK'
  <2>. HIDE DEF O, byUser
  <2>. QED  BY <1>1, <1>6 DEF Release, TryPromote, NotifyAll, Inv, TypeOK, Pc
<1>8. Structure'
  BY <1>1, <1>2 DEF Release, TryPromote, NotifyAll, Inv, TypeOK, Structure
<1>9. SlotOwners' = O \cup P
  <2>1. SlotOwners = {s \in promoted : pc[s] # "released"}
    BY OwnersOf DEF Inv
  <2>2. SlotOwners' = {s \in promoted' : pc'[s] # "released"}
    BY <1>7, <1>8, NextOwners
  <2>3. promoted' = promoted \cup P /\ pc' = [pc EXCEPT ![r] = "released"]
    BY <1>1 DEF Release, TryPromote
  <2>4. \A s \in P : s # r /\ pc[s] = "queued"
    BY <1>2 DEF Inv, Structure
  <2>. QED  BY <1>2, <2>1, <2>2, <2>3, <2>4 DEF Inv, TypeOK
<1>10. FiniteSets_' /\ SlotAccounting'
  BY <1>6, <1>9
<1>11. NoLostWakeup'
  BY <1>1, <1>2
     DEF Release, TryPromote, NotifyAll, Inv, TypeOK, Structure, NoLostWakeup, Granted
<1>. QED  BY <1>7, <1>8, <1>10, <1>11 DEF Inv


LEMMA NextInv == Inv /\ [Next]_vars => Inv'
<1>. SUFFICES ASSUME Inv, [Next]_vars PROVE Inv'
  OBVIOUS
<1>1. ASSUME NEW r \in Requests, RejectFull(r) PROVE Inv'
  BY <1>1, RejectFullInv
<1>2. ASSUME NEW r \in Requests, NEW p \in Priorities, Admit(r, p) PROVE Inv'
  BY <1>2, AdmitInv
<1>3. ASSUME NEW r \in Requests, WakeUp(r) PROVE Inv'
  BY <1>3, WakeUpInv
<1>4. ASSUME NEW r \in Requests, QueueTimeout(r) PROVE Inv'
  BY <1>4, QueueTimeoutInv
<1>5. ASSUME NEW r \in Requests, Cancel(r) PROVE Inv'
  BY <1>5, CancelInv
<1>6. ASSUME NEW r \in Requests, CancelQueued(r) PROVE Inv'
  BY <1>6, CancelWaitingInv, CancelGrantedInv
<1>7. ASSUME NEW r \in Requests, Release(r) PROVE Inv'
  BY <1>7, ReleaseInv
<1>8. ASSUME NEW p \in Policies, ApplyPolicy(p) PROVE Inv'
  BY <1>8, ApplyPolicyInv
<1>9. CASE UNCHANGED vars
  BY <1>9 DEF vars, Inv, TypeOK, Structure, FiniteSets_, SlotAccounting,
              NoLostWakeup, SlotOwners, Holders, Granted, Leaked, OfUser
<1>. QED
  BY <1>1, <1>2, <1>3, <1>4, <1>5, <1>6, <1>7, <1>8, <1>9 DEF Next

(* Counters, waiting list, promotions and notifications fit each other     *)
(* after every step of admit().                                            *)
THEOREM Invariance == Spec => []Inv
BY InitInv, NextInv, PTL DEF Spec

(* The state of the scheduler is well typed; in particular the counters    *)
(* are never negative.                                                     *)
THEOREM TypeCorrect == Spec => []TypeOK
<1>1. Inv => TypeOK
  BY DEF Inv
<1>. QED  BY Invariance, <1>1, PTL

(* Every slot counted by _active_count and _active_by_user has one owner,  *)
(* for any number of requests and users and any changes of the limits.     *)
THEOREM SlotsAccounted == Spec => []SlotAccounting
<1>1. Inv => SlotAccounting
  BY DEF Inv
<1>. QED  BY Invariance, <1>1, PTL

(* A promoted task that still sleeps has been notified.                    *)
THEOREM WakeupsKept == Spec => []NoLostWakeup
<1>1. Inv => NoLostWakeup
  BY DEF Inv
<1>. QED  BY Invariance, <1>1, PTL

-----------------------------------------------------------------------------
(* Who is granted a slot: the guarantees of one promotion pass carried     *)
(* over to every step.                                                     *)
(* The order of the queue is total because seq numbers are never reused    *)
(* among the waiting: a new arrival gets one above all of theirs.          *)
SeqInv ==
    /\ \A r \in waiting : waiter[r].seq < seq_counter
    /\ DistinctSeq(waiter, waiting)

GrantInv == Inv /\ SeqInv /\ NoEligibleLeftBehind

(* A step either makes one promotion pass or leaves slots and grants alone *)
(* and lets nobody into the queue.                                         *)
PassStep ==
    \E W \in SUBSET Requests, ac \in Int, byUser \in [Users -> Int] :
       \E P \in SUBSET W :
          /\ IsFiniteSet(W)
          /\ W \cap promoted = {}
          /\ ac <= active_count
          /\ \A u \in Users : byUser[u] <= ac
          /\ DistinctSeq(waiter', W)
          /\ TryPromote(W, ac, byUser, P)

QuietStep ==
    /\ waiting' \subseteq waiting
    /\ UNCHANGED <<active_count, active_by_user, promoted, pass_policy>>

(* What a step may grant: the bodies of GrantWithinLimits and NoOvertaking,*)
(* and that under a cap that never binds nobody at all is overtaken.       *)
WithinLimits ==
    \A r \in promoted' \ promoted :
       /\ active_count' <= policy.ceiling
       /\ active_by_user'[UserOf[r]] <= policy.per_user

InOrder ==
    \A w \in promoted' \ promoted : \A v \in waiting' :
       Precedes(waiter', v, w) => active_by_user'[UserOf[v]] >= policy.per_user

StrictOrder ==
    policy.ceiling <= policy.per_user =>
       \A w \in promoted' \ promoted : \A v \in waiting' : ~ Precedes(waiter', v, w)

GrantRules == WithinLimits /\ InOrder /\ StrictOrder

-----------------------------------------------------------------------------
LEMMA PassStepGrants ==
  ASSUME TypeOK, TypeOK', PassStep
  PROVE  NoEligibleLeftBehind' /\ GrantRules
<1>1. PICK W \in SUBSET Requests, ac \in Int, byUser \in [Users -> Int] :
         \E P \in SUBSET W :
            /\ IsFiniteSet(W)
            /\ \A u \in Users : byUser[u] <= ac
            /\ DistinctSeq(waiter', W)
            /\ TryPromote(W, ac, byUser, P)
  BY DEF PassStep
<1>2. PICK P \in SUBSET W :
         /\ IsFiniteSet(W)
         /\ \A u \in Users : byUser[u] <= ac
         /\ DistinctSeq(waiter', W)
         /\ TryPromote(W, ac, byUser, P)
  BY <1>1
<1>. DEFINE key == waiter'
            max == policy.ceiling
            cap == policy.per_user
<1>3. key \in Keys /\ max \in Int /\ cap \in Int
  BY DEF TypeOK, Keys
<1>4. IsPromoted(key, W, ac, byUser, max, cap, P)
  BY <1>2 DEF TryPromote
<1>5. /\ waiting' = W \ P
      /\ active_count' = ac + Cardinality(P)
      /\ \A u \in Users :
           active_by_user'[u] = byUser[u] + Cardinality(OfUser(P, u))
      /\ promoted' \ promoted \subseteq P
      /\ pass_policy' = policy
      /\ \A r \in Requests : UserOf[r] \in Users
  BY <1>2, UserOfAssumption DEF TryPromote
<1>6. DistinctSeq(key, W)
  BY <1>2
<1>. HIDE DEF key, max, cap
<1>7. \A w \in W \ P :
         \/ ac + Cardinality(P) >= max
         \/ byUser[UserOf[w]] + Cardinality(OfUser(P, UserOf[w])) >= cap
  BY <1>2, <1>3, <1>4, NobodyLeftBehind
<1>8. \A w \in P : \A v \in W \ P :
         Precedes(key, v, w) =>
            byUser[UserOf[v]] + Cardinality(OfUser(P, UserOf[v])) >= cap
  BY <1>2, <1>3, <1>4, ServedInOrder
<1>9. \A w \in P :
         /\ ac + Cardinality(P) <= max
         /\ byUser[UserOf[w]] + Cardinality(OfUser(P, UserOf[w])) <= cap
  BY <1>2, <1>3, <1>4, <1>6, GrantsWithinLimits
<1>10. NoEligibleLeftBehind'
  BY <1>5, <1>7 DEF NoEligibleLeftBehind, max, cap
<1>11. WithinLimits
  BY <1>5, <1>9 DEF WithinLimits, max, cap
<1>12. InOrder
  BY <1>5, <1>8 DEF InOrder, key, cap
<1>13. ASSUME max <= cap, NEW w \in P, NEW v \in W \ P
       PROVE  ~ Precedes(key, v, w)
  BY <1>2, <1>3, <1>4, <1>13, NobodyPassedOver
<1>14. StrictOrder
  BY <1>5, <1>13 DEF StrictOrder, key, max, cap
<1>. QED  BY <1>10, <1>11, <1>12, <1>14 DEF GrantRules

LEMMA QuietStepGrants ==
  ASSUME NoEligibleLeftBehind, QuietStep
  PROVE  NoEligibleLeftBehind' /\ GrantRules
BY DEF QuietStep, NoEligibleLeftBehind, GrantRules, WithinLimits, InOrder, StrictOrder

(* Of the slots taken a user has a part, also after one is given back.     *)
LEMMA UserShare ==
  ASSUME Inv
  PROVE  /\ \A u \in Users : active_by_user[u] <= active_count
         /\ \A r \in Holders, u \in Users :
               [active_by_user EXCEPT ![UserOf[r]] = @ - 1][u] <= active_count - 1
<1>1. /\ active_by_user \in [Users -> Int] /\ active_count \in Int
      /\ IsFiniteSet(SlotOwners)
      /\ active_count = Cardinality(SlotOwners)
      /\ \A u \in Users : active_by_user[u] = Cardinality(OfUser(SlotOwners, u))
  BY DEF Inv, TypeOK, FiniteSets_, SlotAccounting
<1>2. \A u \in Users : active_by_user[u] <= active_count
  BY <1>1, SubsetCard DEF OfUser
<1>3. ASSUME NEW r \in Holders, NEW u \in Users, u # UserOf[r]
      PROVE  active_by_user[u] < active_count
  <2>1. /\ OfUser(SlotOwners, u) \subseteq SlotOwners
        /\ OfUser(SlotOwners, u) # SlotOwners
    BY <1>3 DEF OfUser, SlotOwners
  <2>. QED  BY <1>1, <2>1, SubsetCard
<1>4. ASSUME NEW r \in Holders, NEW u \in Users
      PROVE  [active_by_user EXCEPT ![UserOf[r]] = @ - 1][u] <= active_count - 1
  <2>1. active_by_user[u] \in Int /\ active_by_user[u] <= active_count
    BY <1>1, <1>2
  <2>2. CASE u = UserOf[r]
    BY <1>1, <2>1, <2>2
  <2>3. CASE u # UserOf[r]
    BY <1>1, <1>3, <2>1, <2>3
  <2>. QED  BY <2>2, <2>3
<1>. QED  BY <1>2, <1>4

LEMMA PassOrQuiet ==
  ASSUME Inv, SeqInv, [Next]_vars
  PROVE  PassStep \/ QuietStep
<1>1. /\ waiting \subseteq Requests /\ IsFiniteSet(waiting)
      /\ active_count \in Int /\ active_by_user \in [Users -> Int]
      /\ waiter \in [Requests -> [priority : Int, seq : Nat]]
      /\ \A r \in waiting : waiter[r].seq < seq_counter
      /\ \A v, w \in waiting : waiter[v].seq = waiter[w].seq => v = w
      /\ seq_counter \in Nat
      /\ waiting \cap promoted = {}
      /\ \A u \in Users : active_by_user[u] <= active_count
  BY UserShare DEF Inv, TypeOK, FiniteSets_, SeqInv, DistinctSeq, Structure
<1>2. ASSUME NEW r \in Requests, NEW p \in Priorities, Admit(r, p) PROVE PassStep
  <2>. DEFINE W == waiting \cup {r}
  <2>1. W \in SUBSET Requests /\ IsFiniteSet(W)
    BY <1>1, FS_AddElement
  <2>2. r \notin waiting /\ W \cap promoted = {}
    BY <1>1, <1>2 DEF Admit, Inv, Structure
  <2>3. waiter' = [waiter EXCEPT ![r] = [priority |-> p, seq |-> seq_counter]]
    BY <1>2 DEF Admit
  <2>4. DistinctSeq(waiter', W)
    BY <1>1, <2>2, <2>3 DEF DistinctSeq
  <2>5. PICK P \in SUBSET W : TryPromote(W, active_count, active_by_user, P)
    BY <1>2 DEF Admit
  <2>. QED  BY <1>1, <2>1, <2>2, <2>4, <2>5 DEF PassStep
<1>3. ASSUME NEW r \in Requests, CancelQueued(r) PROVE PassStep \/ QuietStep
  <2>. DEFINE W == waiting \ {r}
  <2>1. CASE r \notin waiting
    BY <1>3, <2>1 DEF CancelQueued, QuietStep
  <2>2. CASE r \in waiting
    <3>1. W \in SUBSET Requests /\ IsFiniteSet(W)
      BY <1>1, FS_RemoveElement
    <3>2. waiter' = waiter
      BY <1>3 DEF CancelQueued
    <3>3. DistinctSeq(waiter', W)
      BY <1>1, <3>2 DEF DistinctSeq
    <3>4. PICK P \in SUBSET W : TryPromote(W, active_count, active_by_user, P)
      BY <1>3, <2>2 DEF CancelQueued
    <3>. QED  BY <1>1, <3>1, <3>3, <3>4 DEF PassStep
  <2>. QED  BY <2>1, <2>2
<1>4. ASSUME NEW r \in Requests, Release(r) PROVE PassStep
  <2>. DEFINE byUser == [active_by_user EXCEPT ![UserOf[r]] = @ - 1]
  <2>1. /\ byUser \in [Users -> Int]
        /\ active_count - 1 \in Int /\ active_count - 1 <= active_count
        /\ \A u \in Users : byUser[u] <= active_count - 1
    <3>1. r \in Holders
      BY <1>4 DEF Release, Holders
    <3>. QED  BY <1>1, <3>1, UserShare, UserOfAssumption
  <2>2. waiter' = waiter
    BY <1>4 DEF Release
  <2>3. DistinctSeq(waiter', waiting)
    BY <1>1, <2>2 DEF DistinctSeq
  <2>4. PICK P \in SUBSET waiting : TryPromote(waiting, active_count - 1, byUser, P)
    BY <1>4 DEF Release
  <2>. QED  BY <1>1, <2>1, <2>3, <2>4 DEF PassStep
<1>5. ASSUME NEW r \in Requests, RejectFull(r) \/ WakeUp(r) \/ Cancel(r)
      PROVE  QuietStep
  BY <1>5 DEF RejectFull, WakeUp, Cancel, QuietStep
<1>6. ASSUME NEW r \in Requests, QueueTimeout(r) PROVE QuietStep
  BY <1>6 DEF QueueTimeout, QuietStep
<1>7. ASSUME NEW p \in Policies, ApplyPolicy(p) PROVE QuietStep
  BY <1>7 DEF ApplyPolicy, QuietStep
<1>8. CASE UNCHANGED vars
  BY <1>8 DEF vars, QuietStep
<1>. QED  BY <1>2, <1>3, <1>4, <1>5, <1>6, <1>7, <1>8 DEF Next

(* Only an arrival enters the queue, with a fresh seq number.              *)
LEMMA SeqNext ==
  ASSUME Inv, SeqInv, [Next]_vars
  PROVE  SeqInv'
<1>1. /\ waiting \subseteq Requests
      /\ waiter \in [Requests -> [priority : Int, seq : Nat]]
      /\ \A r \in waiting : waiter[r].seq < seq_counter
      /\ \A v, w \in waiting : waiter[v].seq = waiter[w].seq => v = w
      /\ seq_counter \in Nat
  BY DEF Inv, TypeOK, SeqInv, DistinctSeq
<1>2. ASSUME waiting' \subseteq waiting, waiter' = waiter,
             seq_counter' \in {seq_counter, seq_counter + 1}
      PROVE  SeqInv'
  BY <1>1, <1>2 DEF SeqInv, DistinctSeq
<1>3. ASSUME NEW r \in Requests, NEW p \in Priorities, Admit(r, p) PROVE SeqInv'
  <2>1. /\ waiter' = [waiter EXCEPT ![r] = [priority |-> p, seq |-> seq_counter]]
        /\ seq_counter' = seq_counter + 1
        /\ waiting' \subseteq waiting \cup {r}
    BY <1>3 DEF Admit, TryPromote
  <2>2. r \notin waiting
    BY <1>3 DEF Admit, Inv, Structure
  <2>3. \A v \in waiting' : waiter'[v].seq < seq_counter'
    BY <1>1, <2>1, <2>2
  <2>4. \A v, w \in waiting' : waiter'[v].seq = waiter'[w].seq => v = w
    BY <1>1, <2>1, <2>2
  <2>. QED  BY <2>3, <2>4 DEF SeqInv, DistinctSeq
<1>4. ASSUME NEW r \in Requests, RejectFull(r) \/ WakeUp(r) \/ Cancel(r)
      PROVE  SeqInv'
  BY <1>2, <1>4 DEF RejectFull, WakeUp, Cancel
<1>5. ASSUME NEW r \in Requests, QueueTimeout(r) PROVE SeqInv'
  BY <1>2, <1>5 DEF QueueTimeout
<1>6. ASSUME NEW r \in Requests, CancelQueued(r) PROVE SeqInv'
  BY <1>2, <1>6 DEF CancelQueued, TryPromote
<1>7. ASSUME NEW r \in Requests, Release(r) PROVE SeqInv'
  BY <1>2, <1>7 DEF Release, TryPromote
<1>8. ASSUME NEW p \in Policies, ApplyPolicy(p) PROVE SeqInv'
  BY <1>2, <1>8 DEF ApplyPolicy
<1>9. CASE UNCHANGED vars
  BY <1>2, <1>9 DEF vars
<1>. QED  BY <1>3, <1>4, <1>5, <1>6, <1>7, <1>8, <1>9 DEF Next

-----------------------------------------------------------------------------
LEMMA GrantInit == Init => GrantInv
<1>. SUFFICES ASSUME Init PROVE GrantInv
  OBVIOUS
<1>1. SeqInv /\ NoEligibleLeftBehind
  BY DEF Init, SeqInv, DistinctSeq, NoEligibleLeftBehind
<1>. QED  BY <1>1, InitInv DEF GrantInv

LEMMA GrantStep ==
  ASSUME GrantInv, [Next]_vars
  PROVE  GrantInv' /\ GrantRules
<1>1. Inv'
  BY NextInv DEF GrantInv
<1>2. SeqInv'
  BY SeqNext DEF GrantInv
<1>3. NoEligibleLeftBehind' /\ GrantRules
  <2>1. PassStep \/ QuietStep
    BY PassOrQuiet DEF GrantInv
  <2>2. TypeOK /\ TypeOK' /\ NoEligibleLeftBehind
    BY <1>1 DEF GrantInv, Inv
  <2>. QED  BY <2>1, <2>2, PassStepGrants, QuietStepGrants
<1>. QED  BY <1>1, <1>2, <1>3 DEF GrantInv

(* Besides, the waiting are told apart by their sequence numbers and the   *)
(* last pass has left nobody behind.                                       *)
THEOREM GrantInvariance == Spec => []GrantInv
<1>1. GrantInv /\ [Next]_vars => GrantInv'
  BY GrantStep
<1>. QED  BY GrantInit, <1>1, PTL DEF Spec

(* Under the limits of the last pass nobody waits beside a slot he may     *)
(* take, however many requests come and go and whatever the limits.        *)
THEOREM NobodyEligibleWaits == Spec => []NoEligibleLeftBehind
<1>1. GrantInv => NoEligibleLeftBehind
  BY DEF GrantInv
<1>. QED  BY GrantInvariance, <1>1, PTL

(* Every grant respects the ceiling and the per-user cap of its moment,    *)
(* although either may be lowered under the number of running requests.    *)
THEOREM GrantsLimited == Spec => GrantWithinLimits
<1>1. GrantInv /\ [Next]_vars =>
        [\A r \in promoted' \ promoted :
            /\ active_count' <= policy.ceiling
            /\ active_by_user'[UserOf[r]] <= policy.per_user]_vars
  BY GrantStep DEF GrantRules, WithinLimits
<1>. QED  BY GrantInvariance, <1>1, PTL DEF Spec, GrantWithinLimits

(* Nobody is passed over but at the user's own cap: priority and arrival   *)
(* order decide among all the others.                                      *)
THEOREM GrantsInOrder == Spec => NoOvertaking
<1>1. GrantInv /\ [Next]_vars =>
        [\A w \in promoted' \ promoted : \A v \in waiting' :
            Precedes(waiter', v, w) =>
                active_by_user'[UserOf[v]] >= policy.per_user]_vars
  BY GrantStep DEF GrantRules, InOrder
<1>. QED  BY GrantInvariance, <1>1, PTL DEF Spec, NoOvertaking

-----------------------------------------------------------------------------
(* What a pass finds in a reachable state meets the conditions of          *)
(* LoopPromotes.                                                           *)
LEMMA GrantAgrees == GrantInv => LoopAgrees
<1>. SUFFICES ASSUME GrantInv PROVE LoopAgrees
  OBVIOUS
<1>1. /\ waiting \subseteq Requests /\ IsFiniteSet(waiting)
      /\ waiter \in Keys /\ DistinctSeq(waiter, waiting)
      /\ active_count \in Int /\ active_by_user \in [Users -> Int]
      /\ policy.ceiling \in Int /\ policy.per_user \in Int
  BY PoliciesAssumption DEF GrantInv, Inv, TypeOK, FiniteSets_, SeqInv, Keys
<1>2. \A W \in SUBSET waiting, ac \in Int, byUser \in [Users -> Int] :
         Agrees(waiter, W, ac, byUser, policy.ceiling, policy.per_user)
  <2>. TAKE W \in SUBSET waiting, ac \in Int, byUser \in [Users -> Int]
  <2>1. IsFiniteSet(W)
    BY <1>1, FS_Subset
  <2>2. DistinctSeq(waiter, W)
    BY <1>1 DEF DistinctSeq
  <2>3. W \subseteq Requests
    BY <1>1
  <2>. QED  BY <1>1, <2>1, <2>2, <2>3, LoopPromotes
<1>3. \A r \in Holders :
         [active_by_user EXCEPT ![UserOf[r]] = @ - 1] \in [Users -> Int]
  BY <1>1, UserOfAssumption DEF Holders
<1>. QED  BY <1>1, <1>2, <1>3 DEF LoopAgrees

(* The loop of _try_promote_locked(), run on any queue the scheduler can   *)
(* reach, ends with the grants and the counters that the actions of        *)
(* Scheduler take from IsPromoted.                                         *)
THEOREM LoopIsPromotion == Spec => []LoopAgrees
BY GrantInvariance, GrantAgrees, PTL

-----------------------------------------------------------------------------
(* More slots are taken only by a grant.                                   *)
LEMMA GrowthIsGrant ==
  ASSUME Inv, Inv', PassStep \/ QuietStep
  PROVE  active_count' <= active_count \/ promoted' \ promoted # {}
<1>1. active_count \in Nat
  BY DEF Inv, TypeOK
<1>2. CASE QuietStep
  BY <1>1, <1>2 DEF QuietStep
<1>3. CASE PassStep
  <2>1. PICK W \in SUBSET Requests, ac \in Int, byUser \in [Users -> Int] :
           \E P \in SUBSET W :
              /\ W \cap promoted = {}
              /\ ac <= active_count
              /\ TryPromote(W, ac, byUser, P)
    BY <1>3 DEF PassStep
  <2>2. PICK P \in SUBSET W :
           /\ W \cap promoted = {}
           /\ ac <= active_count
           /\ active_count' = ac + Cardinality(P)
           /\ promoted' = promoted \cup P
    BY <2>1 DEF TryPromote
  <2>3. CASE P = {}
    BY <1>1, <2>2, <2>3, FS_EmptySet
  <2>4. CASE P # {}
    BY <2>2, <2>4
  <2>. QED  BY <2>3, <2>4
<1>. QED  BY <1>2, <1>3

(* The limits in force are always some that were applied.                  *)
CeilingInv ==
    /\ GrantInv
    /\ policy \in Policies \cup {InitialPolicy}
    /\ NeverAboveCeilings

LEMMA CeilingInit == Init => CeilingInv
BY GrantInit DEF Init, CeilingInv, NeverAboveCeilings

LEMMA CeilingStep ==
  ASSUME CeilingInv, [Next]_vars
  PROVE  CeilingInv'
<1>1. GrantInv' /\ WithinLimits /\ Inv /\ Inv'
  BY GrantStep DEF CeilingInv, GrantInv, GrantRules
<1>2. policy' \in Policies \cup {InitialPolicy}
  BY DEF CeilingInv, Next, vars, RejectFull, Admit, WakeUp, QueueTimeout, Cancel,
         CancelQueued, Release, ApplyPolicy
<1>3. active_count' <= active_count \/ promoted' \ promoted # {}
  BY <1>1, PassOrQuiet, GrowthIsGrant DEF CeilingInv, GrantInv
<1>4. /\ active_count \in Nat /\ active_count' \in Nat
      /\ \A p \in Policies \cup {InitialPolicy} : p.ceiling \in Int
  BY <1>1, PoliciesAssumption DEF Inv, TypeOK
<1>5. NeverAboveCeilings'
  BY <1>1, <1>3, <1>4 DEF CeilingInv, NeverAboveCeilings, WithinLimits
<1>. QED  BY <1>1, <1>2, <1>5 DEF CeilingInv

(* Never are more slots taken than the highest ceiling that was ever       *)
(* applied has, though a ceiling may be lowered under the requests running.*)
THEOREM CeilingsHold == Spec => []NeverAboveCeilings
<1>1. Init => CeilingInv
  BY CeilingInit
<1>2. CeilingInv /\ [Next]_vars => CeilingInv'
  BY CeilingStep
<1>3. CeilingInv => NeverAboveCeilings
  BY DEF CeilingInv
<1>. QED  BY <1>1, <1>2, <1>3, PTL DEF Spec
==============================================================================
