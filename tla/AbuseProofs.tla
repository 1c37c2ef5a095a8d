----------------------------- MODULE AbuseProofs -----------------------------
(***************************************************************************)
(* Proofs about the abuse controls, for any requests, sources and keys and *)
(* any limits, windows and block times.                                    *)
(*   - LimiterInv: the arrivals the limiter keeps of a key, less those at  *)
(*     the front that have left the window since its last call, are those  *)
(*     it has let in.                                                      *)
(*   - ThrottleInv: a recorded failure of a source that is not yet as old  *)
(*     as its last block is still counted, so that a source that is not    *)
(*     blocked has fewer than Threshold of them; and a failure takes its   *)
(*     place from a request inside, of which none comes in during a block. *)
(***************************************************************************)
EXTENDS AbuseControls, OrderingLemmas, SequenceTheorems

Falling(a) == \A i, j \in 1..Len(a) : i < j => a[j] <= a[i]

-----------------------------------------------------------------------------
(* The popleft loops and the clock.                                        *)

IsExpired(a, w, n) ==
    /\ n \in 0..Len(a)
    /\ \A i \in 1..n : a[i] > w
    /\ n < Len(a) => a[n + 1] <= w

LEMMA ExpiredUnique ==
  ASSUME NEW a \in Seq(Nat), NEW w \in Nat, NEW n, NEW m,
         IsExpired(a, w, n), IsExpired(a, w, m)
  PROVE  n = m
<1>1. ASSUME NEW x, NEW y, IsExpired(a, w, x), IsExpired(a, w, y), x < y
      PROVE  FALSE
  <2>1. x \in Nat /\ y \in Nat /\ x + 1 \in 1..y /\ x < Len(a) /\ x + 1 \in 1..Len(a)
    BY <1>1 DEF IsExpired
  <2>2. a[x + 1] > w /\ a[x + 1] <= w /\ a[x + 1] \in Nat
    BY <1>1, <2>1 DEF IsExpired
  <2>. QED  BY <2>2
<1>2. n \in Nat /\ m \in Nat
  BY DEF IsExpired
<1>3. ~(n < m) /\ ~(m < n)
  BY <1>1
<1>. QED  BY <1>2, <1>3

LEMMA ExpiredIs ==
  ASSUME NEW a \in Seq(Nat), NEW w \in Nat
  PROVE  IsExpired(a, w, Expired(a, w))
<1>1. Len(a) \in Nat /\ \A i \in 1..Len(a) : a[i] \in Nat
  OBVIOUS
<1>. DEFINE Young == {i \in 1..Len(a) : a[i] <= w}
<1>2. \E n \in 0..Len(a) : (\A i \in 1..n : a[i] > w) /\ (n < Len(a) => a[n + 1] <= w)
  <2>1. CASE Young = {}
    <3>1. \A i \in 1..Len(a) : a[i] > w
      BY <1>1, <2>1
    <3>. QED  BY <1>1, <3>1
  <2>2. CASE Young # {}
    <3>1. Young \subseteq Nat
      OBVIOUS
    <3>2. PICK m \in Young : \A i \in Young : m <= i
      <4>. HIDE DEF Young
      <4>. QED  BY <2>2, <3>1, LeastNat
    <3>3. m - 1 \in 0..Len(a) /\ (m - 1) + 1 = m /\ a[m] <= w
      BY <1>1
    <3>4. ASSUME NEW i \in 1..(m - 1) PROVE a[i] > w
      <4>1. i \in 1..Len(a) /\ ~(m <= i)
        BY <1>1, <3>3
      <4>2. i \notin Young
        BY <3>2, <4>1
      <4>. QED  BY <1>1, <4>1, <4>2
    <3>. QED  BY <3>3, <3>4
  <2>. QED  BY <2>1, <2>2
<1>. QED  BY <1>2 DEF Expired, IsExpired

LEMMA TypedSeq ==
  ASSUME NEW S, NEW T, NEW s \in Seq(T), \A i \in 1..Len(s) : s[i] \in S
  PROVE  s \in Seq(S)
<1>1. Len(s) \in Nat /\ s \in [1..Len(s) -> T]
  BY LenProperties
<1>2. s \in [1..Len(s) -> S]
  BY <1>1
<1>. QED  BY <1>1, <1>2

LEMMA RecentIs ==
  ASSUME NEW a \in Seq(Nat), NEW w \in Nat, NEW n, IsExpired(a, w, n)
  PROVE  /\ Recent(a, w) \in Seq(Nat)
         /\ n \in Nat /\ n <= Len(a)
         /\ Len(Recent(a, w)) = Len(a) - n
         /\ \A i \in 1..(Len(a) - n) : Recent(a, w)[i] = a[i + n]
<1>1. n = Expired(a, w)
  BY ExpiredIs, ExpiredUnique
<1>2. n \in Nat /\ n <= Len(a) /\ Len(a) \in Nat /\ \A i \in 1..Len(a) : a[i] \in Nat
  BY DEF IsExpired
<1>3. Recent(a, w) = SubSeq(a, n + 1, Len(a))
  BY <1>1 DEF Recent
<1>. DEFINE m == n + 1
            l == Len(a)
<1>4. m \in Int /\ l \in Int /\ (\A i \in m..l : a[i] \in Nat)
  BY <1>2
<1>5. /\ SubSeq(a, m, l) \in Seq(Nat)
      /\ Len(SubSeq(a, m, l)) = IF m <= l THEN l - m + 1 ELSE 0
      /\ \A i \in 1..(l - m + 1) : SubSeq(a, m, l)[i] = a[m + i - 1]
  <2>. HIDE DEF m, l
  <2>. QED  BY <1>4, SubSeqProperties
<1>6. Len(SubSeq(a, m, l)) = l - n
  BY <1>2, <1>5
<1>7. \A i \in 1..(l - n) : SubSeq(a, m, l)[i] = a[i + n]
  <2>. TAKE i \in 1..(l - n)
  <2>1. i \in 1..(l - m + 1) /\ m + i - 1 = i + n
    BY <1>2
  <2>. QED  BY <1>5, <2>1
<1>. QED  BY <1>2, <1>3, <1>5, <1>6, <1>7

(* What is not older than the window stays.                                *)
LEMMA NoneExpired ==
  ASSUME NEW a \in Seq(Nat), NEW w \in Nat, \A i \in 1..Len(a) : a[i] <= w
  PROVE  Recent(a, w) = a
<1>1. IsExpired(a, w, 0)
  BY DEF IsExpired
<1>2. /\ Recent(a, w) \in Seq(Nat) /\ Len(Recent(a, w)) = Len(a) - 0
      /\ \A i \in 1..(Len(a) - 0) : Recent(a, w)[i] = a[i + 0]
  BY <1>1, RecentIs
<1>3. Len(Recent(a, w)) = Len(a) /\ \A i \in 1..Len(a) : Recent(a, w)[i] = a[i]
  BY <1>2
<1>. QED  BY <1>2, <1>3, SeqEqual

(* What is left of falling ages is falling and not older than the window.  *)
LEMMA RecentFalls ==
  ASSUME NEW a \in Seq(Nat), NEW w \in Nat, Falling(a)
  PROVE  /\ Recent(a, w) \in Seq(0..w)
         /\ Falling(Recent(a, w))
         /\ Len(Recent(a, w)) <= Len(a)
<1>. DEFINE b == Recent(a, w)
<1>1. PICK n : IsExpired(a, w, n)
  BY ExpiredIs
<1>2. /\ b \in Seq(Nat) /\ n \in Nat /\ n <= Len(a) /\ Len(a) \in Nat
      /\ Len(b) = Len(a) - n
      /\ \A i \in 1..(Len(a) - n) : b[i] = a[i + n]
  BY <1>1, RecentIs
<1>. HIDE DEF b
<1>3. \A i \in 1..Len(b) : i + n \in 1..Len(a) /\ b[i] = a[i + n] /\ a[i + n] \in Nat
  BY <1>2
<1>4. Falling(b)
  <2>. SUFFICES ASSUME NEW i \in 1..Len(b), NEW j \in 1..Len(b), i < j PROVE b[j] <= b[i]
    BY DEF Falling
  <2>1. i + n < j + n
    BY <1>2
  <2>. QED  BY <1>3, <2>1 DEF Falling
<1>5. ASSUME NEW i \in 1..Len(b) PROVE b[i] \in 0..w
  <2>1. n < Len(a) /\ n + 1 \in 1..Len(a)
    BY <1>2
  <2>2. a[n + 1] <= w /\ a[n + 1] \in Nat
    BY <1>1, <2>1 DEF IsExpired
  <2>3. a[i + n] <= a[n + 1]
    <3>1. CASE i = 1
      BY <1>2, <2>2, <3>1
    <3>2. CASE i # 1
      BY <1>2, <1>3, <2>1, <3>2 DEF Falling
    <3>. QED  BY <3>1, <3>2
  <2>. QED  BY <1>3, <2>2, <2>3
<1>6. b \in Seq(0..w)
  BY <1>2, <1>5, TypedSeq
<1>. QED  BY <1>2, <1>4, <1>6 DEF b

LEMMA OlderIs ==
  ASSUME NEW a \in Seq(Nat), NEW most \in Nat
  PROVE  /\ Older(a, most) \in Seq(0..most)
         /\ Len(Older(a, most)) = Len(a)
         /\ \A i \in 1..Len(a) :
               Older(a, most)[i] = IF a[i] < most THEN a[i] + 1 ELSE most
         /\ Falling(a) => Falling(Older(a, most))
<1>. DEFINE b == Older(a, most)
<1>1. DOMAIN a = 1..Len(a) /\ Len(a) \in Nat /\ \A i \in 1..Len(a) : a[i] \in Nat
  OBVIOUS
<1>2. \A i \in 1..Len(a) : b[i] = IF a[i] < most THEN a[i] + 1 ELSE most
  BY <1>1 DEF Older
<1>3. \A i \in 1..Len(a) : b[i] \in 0..most
  BY <1>1, <1>2
<1>4. b = [i \in 1..Len(a) |-> b[i]]
  BY <1>1 DEF Older
<1>. HIDE DEF b
<1>5. b \in Seq(0..most) /\ Len(b) = Len(a)
  BY <1>1, <1>3, <1>4
<1>6. Falling(a) => Falling(b)
  <2>. SUFFICES ASSUME Falling(a), NEW i \in 1..Len(a), NEW j \in 1..Len(a), i < j
                PROVE  b[j] <= b[i]
    BY <1>5 DEF Falling
  <2>1. a[j] <= a[i]
    BY DEF Falling
  <2>. QED  BY <1>1, <1>2, <2>1
<1>. QED  BY <1>2, <1>5, <1>6 DEF b

(* It does not matter whether the loop runs before a tick or after it.     *)
LEMMA OlderRecent ==
  ASSUME NEW a \in Seq(Nat), NEW w \in Nat
  PROVE  Recent(Older(a, w + 1), w) = Recent(Older(Recent(a, w), w + 1), w)
<1>. DEFINE b == Recent(a, w)
            c == Older(a, w + 1)
            d == Older(b, w + 1)
<1>1. PICK n : IsExpired(a, w, n)
  BY ExpiredIs
<1>2. /\ b \in Seq(Nat) /\ n \in Nat /\ n <= Len(a) /\ Len(a) \in Nat
      /\ Len(b) = Len(a) - n
      /\ \A i \in 1..(Len(a) - n) : b[i] = a[i + n]
  BY <1>1, RecentIs
<1>. HIDE DEF b
<1>w. w + 1 \in Nat
  OBVIOUS
<1>3. /\ c \in Seq(0..(w + 1)) /\ Len(c) = Len(a)
      /\ \A i \in 1..Len(a) : c[i] = IF a[i] < w + 1 THEN a[i] + 1 ELSE w + 1
  BY <1>w, OlderIs
<1>4. /\ d \in Seq(0..(w + 1)) /\ Len(d) = Len(b)
      /\ \A i \in 1..Len(b) : d[i] = IF b[i] < w + 1 THEN b[i] + 1 ELSE w + 1
  BY <1>w, <1>2, OlderIs
<1>. HIDE DEF c, d
<1>5. c \in Seq(Nat) /\ d \in Seq(Nat)
  <2>1. 0..(w + 1) \subseteq Nat
    OBVIOUS
  <2>. QED  BY <1>3, <1>4, <2>1, SeqMonotonic
<1>6. \A i \in 1..Len(d) : i + n \in 1..Len(c) /\ d[i] = c[i + n]
  <2>. TAKE i \in 1..Len(d)
  <2>1. i \in 1..(Len(a) - n) /\ i + n \in 1..Len(a)
    BY <1>2, <1>4
  <2>2. b[i] = a[i + n]
    BY <1>2, <2>1
  <2>. QED  BY <1>2, <1>3, <1>4, <2>1, <2>2
<1>7. \A i \in 1..n : c[i] > w
  <2>. TAKE i \in 1..n
  <2>1. a[i] > w /\ i \in 1..Len(a) /\ a[i] \in Nat
    BY <1>1, <1>2 DEF IsExpired
  <2>. QED  BY <1>3, <2>1
<1>8. PICK m : IsExpired(d, w, m)
  BY <1>5, ExpiredIs
<1>9. m \in Nat /\ m <= Len(d) /\ Len(d) = Len(c) - n /\ Len(c) \in Nat
  BY <1>2, <1>3, <1>4, <1>8 DEF IsExpired
<1>10. IsExpired(c, w, n + m)
  <2>1. n + m \in 0..Len(c)
    BY <1>2, <1>9
  <2>2. ASSUME NEW i \in 1..(n + m) PROVE c[i] > w
    <3>1. CASE i <= n
      BY <1>7, <3>1
    <3>2. CASE i > n
      <4>1. i - n \in 1..m /\ i - n \in 1..Len(d) /\ (i - n) + n = i
        BY <1>2, <1>9, <3>2
      <4>2. d[i - n] > w /\ d[i - n] = c[(i - n) + n]
        BY <1>6, <1>8, <4>1 DEF IsExpired
      <4>. QED  BY <4>1, <4>2
    <3>. QED  BY <1>2, <3>1, <3>2
  <2>3. n + m < Len(c) => c[(n + m) + 1] <= w
    <3>. HAVE n + m < Len(c)
    <3>1. m < Len(d) /\ m + 1 \in 1..Len(d) /\ (m + 1) + n = (n + m) + 1
      BY <1>2, <1>9
    <3>2. d[m + 1] <= w /\ d[m + 1] = c[(m + 1) + n]
      BY <1>6, <1>8, <3>1 DEF IsExpired
    <3>. QED  BY <3>1, <3>2
  <2>. QED  BY <2>1, <2>2, <2>3 DEF IsExpired
<1>11. /\ Recent(c, w) \in Seq(Nat)
       /\ Len(Recent(c, w)) = Len(c) - (n + m)
       /\ \A i \in 1..(Len(c) - (n + m)) : Recent(c, w)[i] = c[i + (n + m)]
  BY <1>5, <1>10, RecentIs
<1>12. /\ Recent(d, w) \in Seq(Nat)
       /\ Len(Recent(d, w)) = Len(d) - m
       /\ \A i \in 1..(Len(d) - m) : Recent(d, w)[i] = d[i + m]
  BY <1>5, <1>8, RecentIs
<1>13. Len(Recent(c, w)) = Len(Recent(d, w))
  BY <1>2, <1>9, <1>11, <1>12
<1>14. \A i \in 1..Len(Recent(c, w)) : Recent(c, w)[i] = Recent(d, w)[i]
  <2>. TAKE i \in 1..Len(Recent(c, w))
  <2>1. /\ i \in 1..(Len(c) - (n + m)) /\ i \in 1..(Len(d) - m)
        /\ i + m \in 1..Len(d) /\ (i + m) + n = i + (n + m)
    BY <1>2, <1>9, <1>11
  <2>2. d[i + m] = c[(i + m) + n]
    BY <1>6, <2>1
  <2>. QED  BY <1>11, <1>12, <2>1, <2>2
<1>15. Recent(c, w) = Recent(d, w)
  BY <1>11, <1>12, <1>13, <1>14, SeqEqual
<1>. QED  BY <1>15 DEF b, c, d

(* An arrival at the end.                                                  *)
LEMMA AppendZero ==
  ASSUME NEW a \in Seq(Nat)
  PROVE  /\ Append(a, 0) \in Seq(Nat)
         /\ Len(Append(a, 0)) = Len(a) + 1
         /\ \A i \in 1..Len(a) : Append(a, 0)[i] = a[i]
         /\ Append(a, 0)[Len(a) + 1] = 0
         /\ Falling(a) => Falling(Append(a, 0))
<1>1. /\ Append(a, 0) \in Seq(Nat)
      /\ Len(Append(a, 0)) = Len(a) + 1
      /\ \A i \in 1..Len(a) : Append(a, 0)[i] = a[i]
      /\ Append(a, 0)[Len(a) + 1] = 0
  BY AppendProperties
<1>. DEFINE b == Append(a, 0)
<1>2. Len(a) \in Nat /\ \A i \in 1..Len(a) : a[i] \in Nat
  OBVIOUS
<1>. HIDE DEF b
<1>3. Falling(a) => Falling(b)
  <2>. SUFFICES ASSUME Falling(a), NEW i \in 1..Len(b), NEW j \in 1..Len(b), i < j
                PROVE  b[j] <= b[i]
    BY DEF Falling
  <2>1. i \in 1..Len(a) /\ b[i] = a[i]
    BY <1>1, <1>2 DEF b
  <2>2. CASE j = Len(a) + 1
    BY <1>1, <1>2, <2>1, <2>2 DEF b
  <2>3. CASE j # Len(a) + 1
    <3>1. j \in 1..Len(a) /\ b[j] = a[j]
      BY <1>1, <1>2, <2>3 DEF b
    <3>. QED  BY <2>1, <3>1 DEF Falling
  <2>. QED  BY <2>2, <2>3
<1>. QED  BY <1>1, <1>3 DEF b

-----------------------------------------------------------------------------
(* The rate limiter.                                                       *)

LimiterInv ==
    /\ hits \in [Keys -> Seq(0..(RateWindow + 1))]
    /\ admitted \in [Keys -> Seq(0..RateWindow)]
    /\ \A k \in Keys :
          /\ Falling(hits[k])
          /\ Recent(hits[k], RateWindow) = admitted[k]
          /\ Len(admitted[k]) <= MaxRequests

LEMMA AgesAreNats ==
  ASSUME NEW n \in Nat, NEW a \in Seq(0..n)
  PROVE  a \in Seq(Nat) /\ \A i \in 1..Len(a) : a[i] \in 0..n /\ a[i] <= n
<1>1. 0..n \subseteq Nat
  OBVIOUS
<1>. QED  BY <1>1, SeqMonotonic

LEMMA Nothing == <<>> \in Seq(Nat) /\ Len(<<>>) = 0 /\ Falling(<<>>)
BY DEF Falling

LEMMA LimiterInit == Init => LimiterInv
<1>. SUFFICES ASSUME Init PROVE LimiterInv
  OBVIOUS
<1>1. /\ \A S : <<>> \in Seq(S)
      /\ MaxRequests \in Nat /\ RateWindow \in Nat
  BY AbuseAssumption
<1>2. Recent(<<>>, RateWindow) = <<>>
  <2>1. \A i \in 1..Len(<<>>) : <<>>[i] <= RateWindow
    BY Nothing
  <2>. QED  BY <1>1, <2>1, Nothing, NoneExpired
<1>. QED  BY <1>1, <1>2, Nothing DEF Init, LimiterInv

LEMMA LimiterStep == LimiterInv /\ [Next]_vars => LimiterInv'
<1>. SUFFICES ASSUME LimiterInv, [Next]_vars PROVE LimiterInv'
  OBVIOUS
<1>c. MaxRequests \in Nat \ {0} /\ RateWindow \in Nat /\ RateWindow + 1 \in Nat
  BY AbuseAssumption
<1>1. ASSUME NEW k \in Keys
      PROVE  /\ hits[k] \in Seq(Nat) /\ admitted[k] \in Seq(Nat)
             /\ hits[k] \in Seq(0..(RateWindow + 1)) /\ admitted[k] \in Seq(0..RateWindow)
             /\ Falling(hits[k]) /\ Falling(admitted[k])
             /\ Recent(hits[k], RateWindow) = admitted[k]
             /\ Len(admitted[k]) <= MaxRequests
  <2>1. hits[k] \in Seq(0..(RateWindow + 1)) /\ admitted[k] \in Seq(0..RateWindow)
    BY DEF LimiterInv
  <2>2. hits[k] \in Seq(Nat) /\ admitted[k] \in Seq(Nat)
    BY <1>c, <2>1, AgesAreNats
  <2>3. Falling(hits[k]) /\ Recent(hits[k], RateWindow) = admitted[k]
    BY DEF LimiterInv
  <2>4. Falling(Recent(hits[k], RateWindow))
    BY <1>c, <2>2, <2>3, RecentFalls
  <2>. QED  BY <2>1, <2>2, <2>3, <2>4 DEF LimiterInv
<1>2. CASE UNCHANGED <<hits, admitted>>
  BY <1>2 DEF LimiterInv
(* Either form of an arrival leaves the key with exactly what it let in.   *)
<1>3. ASSUME NEW r \in Requests, NEW k \in Keys, Arrive(r, k)
      PROVE  LimiterInv'
  <2>. DEFINE kept == admitted[k]
              new == IF Len(kept) < MaxRequests THEN Append(kept, 0) ELSE kept
  <2>1. hits' = [hits EXCEPT ![k] = new] /\ admitted' = [admitted EXCEPT ![k] = new]
    <3>1. Recent(hits[k], RateWindow) = kept
      BY <1>1
    <3>. QED  BY <1>3, <3>1 DEF Arrive, LimiterInv
  <2>2. kept \in Seq(Nat) /\ kept \in Seq(0..RateWindow) /\ Falling(kept) /\ Len(kept) <= MaxRequests
    BY <1>1
  <2>3. /\ new \in Seq(0..RateWindow) /\ new \in Seq(0..(RateWindow + 1))
        /\ Falling(new) /\ Len(new) <= MaxRequests
    <3>1. Append(kept, 0) \in Seq(0..RateWindow) /\ Append(kept, 0) \in Seq(0..(RateWindow + 1))
      <4>1. 0 \in 0..RateWindow /\ 0..RateWindow \subseteq 0..(RateWindow + 1)
        BY <1>c
      <4>2. Append(kept, 0) \in Seq(0..RateWindow)
        BY <2>2, <4>1
      <4>. QED  BY <4>1, <4>2, SeqMonotonic
    <3>2. kept \in Seq(0..(RateWindow + 1))
      <4>1. 0..RateWindow \subseteq 0..(RateWindow + 1)
        BY <1>c
      <4>. QED  BY <2>2, <4>1, SeqMonotonic
    <3>3. Falling(Append(kept, 0)) /\ Len(Append(kept, 0)) = Len(kept) + 1
      BY <2>2, AppendZero
    <3>4. Len(kept) \in Nat
      BY <2>2
    <3>5. CASE Len(kept) < MaxRequests
      BY <1>c, <3>1, <3>3, <3>4, <3>5
    <3>6. CASE ~(Len(kept) < MaxRequests)
      BY <2>2, <3>2, <3>6
    <3>. QED  BY <3>5, <3>6
  <2>. HIDE DEF new, kept
  <2>4. Recent(new, RateWindow) = new
    <3>1. new \in Seq(Nat) /\ \A i \in 1..Len(new) : new[i] <= RateWindow
      BY <1>c, <2>3, AgesAreNats
    <3>. QED  BY <1>c, <3>1, NoneExpired
  <2>5. /\ hits' \in [Keys -> Seq(0..(RateWindow + 1))]
        /\ admitted' \in [Keys -> Seq(0..RateWindow)]
    BY <2>1, <2>3 DEF LimiterInv
  <2>6. /\ hits'[k] = new /\ admitted'[k] = new
        /\ \A l \in Keys \ {k} : hits'[l] = hits[l] /\ admitted'[l] = admitted[l]
    BY <2>1 DEF LimiterInv
  <2>7. ASSUME NEW l \in Keys
        PROVE  /\ Falling(hits'[l])
               /\ Recent(hits'[l], RateWindow) = admitted'[l]
               /\ Len(admitted'[l]) <= MaxRequests
    <3>1. CASE l = k
      BY <2>3, <2>4, <2>6, <3>1
    <3>2. CASE l # k
      BY <1>1, <2>6, <3>2
    <3>. QED  BY <3>1, <3>2
  <2>. QED  BY <2>5, <2>7 DEF LimiterInv
<1>4. CASE Tick
  <2>1. ASSUME NEW k \in Keys
        PROVE  /\ hits'[k] = Older(hits[k], RateWindow + 1)
               /\ admitted'[k] = Recent(Older(admitted[k], RateWindow + 1), RateWindow)
               /\ hits'[k] \in Seq(0..(RateWindow + 1))
               /\ admitted'[k] \in Seq(0..RateWindow)
               /\ Falling(hits'[k])
               /\ Recent(hits'[k], RateWindow) = admitted'[k]
               /\ Len(admitted'[k]) <= MaxRequests
    <3>1. /\ hits'[k] = Older(hits[k], RateWindow + 1)
          /\ admitted'[k] = Recent(Older(admitted[k], RateWindow + 1), RateWindow)
      BY <1>4 DEF Tick
    <3>2. hits'[k] \in Seq(0..(RateWindow + 1)) /\ Falling(hits'[k])
      BY <1>c, <1>1, <3>1, OlderIs
    <3>. DEFINE a == Older(admitted[k], RateWindow + 1)
    <3>3. a \in Seq(0..(RateWindow + 1)) /\ Falling(a) /\ Len(a) = Len(admitted[k])
      BY <1>c, <1>1, OlderIs
    <3>4. a \in Seq(Nat)
      BY <1>c, <3>3, AgesAreNats
    <3>. HIDE DEF a
    <3>5. Recent(a, RateWindow) \in Seq(0..RateWindow) /\ Len(Recent(a, RateWindow)) <= Len(a)
      BY <1>c, <3>3, <3>4, RecentFalls
    <3>6. Recent(hits'[k], RateWindow) = admitted'[k]
      BY <1>c, <1>1, <3>1, OlderRecent
    <3>7. Len(admitted'[k]) <= MaxRequests
      <4>1. Len(Recent(a, RateWindow)) \in Nat /\ Len(admitted[k]) \in Nat /\ Len(admitted[k]) <= MaxRequests
        BY <1>1, <3>5
      <4>2. admitted'[k] = Recent(a, RateWindow)
        BY <3>1 DEF a
      <4>. QED  BY <1>c, <3>3, <3>5, <4>1, <4>2
    <3>8. admitted'[k] \in Seq(0..RateWindow)
      BY <3>1, <3>5 DEF a
    <3>. QED  BY <3>1, <3>2, <3>6, <3>7, <3>8
  <2>2. /\ hits' = [k \in Keys |-> hits'[k]]
        /\ admitted' = [k \in Keys |-> admitted'[k]]
    BY <1>4 DEF Tick
  <2>3. /\ hits' \in [Keys -> Seq(0..(RateWindow + 1))]
        /\ admitted' \in [Keys -> Seq(0..RateWindow)]
    BY <2>1, <2>2
  <2>. QED  BY <2>1, <2>3 DEF LimiterInv
<1>. QED
  BY <1>2, <1>3, <1>4 DEF Next, Enter, Leave, Deny, RecordFailure, vars

(* No key gets more than MaxRequests arrivals in within a window, and the  *)
(* limiter counts exactly those: one it refused never counts.              *)
THEOREM LimiterCountsWhatItLetIn == Spec => []LimiterIsExact
<1>1. LimiterInv => LimiterIsExact
  BY DEF LimiterInv, LimiterIsExact
<1>. QED  BY LimiterInit, LimiterStep, <1>1, PTL DEF Spec

-----------------------------------------------------------------------------
(* The throttle.  From the end, an entry of the failures recorded is an    *)
(* entry of the deque, unless it is as old as the last block.              *)
Matched(deque, all, left) ==
    \A d \in 0..(Len(all) - 1) :
        \/ all[Len(all) - d] >= BlockTime - left
        \/ d < Len(deque) /\ deque[Len(deque) - d] = all[Len(all) - d]

LEMMA Windows ==
  /\ FailWindow \in Nat /\ BlockTime \in Nat \ {0} /\ Threshold \in Nat \ {0}
  /\ GuessWindow \in Nat /\ GuessWindow <= FailWindow /\ GuessWindow < BlockTime
  /\ GuessWindow + 1 \in Nat /\ FailWindow + 1 \in Nat
BY AbuseAssumption DEF GuessWindow

LEMMA MatchedRecord ==
  ASSUME NEW F \in Seq(Nat), NEW f \in Seq(0..GuessWindow), NEW left \in 0..BlockTime,
         Matched(F, f, left)
  PROVE  Matched(Recent(Append(F, 0), FailWindow), Append(f, 0), left)
<1>. DEFINE A == Append(F, 0)
            K == Recent(A, FailWindow)
            g == Append(f, 0)
<1>1. f \in Seq(Nat) /\ \A i \in 1..Len(f) : f[i] \in 0..GuessWindow /\ f[i] <= GuessWindow
  BY Windows, AgesAreNats
<1>2. /\ A \in Seq(Nat) /\ Len(A) = Len(F) + 1 /\ A[Len(F) + 1] = 0
      /\ \A i \in 1..Len(F) : A[i] = F[i]
  BY AppendZero
<1>3. /\ Len(g) = Len(f) + 1 /\ g[Len(f) + 1] = 0
      /\ \A i \in 1..Len(f) : g[i] = f[i]
  BY <1>1, AppendZero
<1>. HIDE DEF A
<1>4. PICK n : IsExpired(A, FailWindow, n)
  BY <1>2, Windows, ExpiredIs
<1>5. /\ n \in Nat /\ n <= Len(A) /\ Len(K) = Len(A) - n
      /\ \A i \in 1..(Len(A) - n) : K[i] = A[i + n]
  BY <1>2, <1>4, Windows, RecentIs
<1>6. Len(F) \in Nat /\ Len(f) \in Nat
  OBVIOUS
<1>. HIDE DEF A, K, g
(* An entry that is not older than the window is not popped.               *)
<1>7. ASSUME NEW d \in 0..(Len(A) - 1), A[Len(A) - d] <= FailWindow, A[Len(A) - d] \in Nat
      PROVE  d < Len(K) /\ K[Len(K) - d] = A[Len(A) - d]
  <2>1. Len(A) - d \in 1..Len(A)
    BY <1>2, <1>6
  <2>2. ~(Len(A) - d <= n)
    <3>1. ASSUME Len(A) - d <= n PROVE FALSE
      <4>1. Len(A) - d \in 1..n
        BY <1>5, <2>1, <3>1
      <4>2. A[Len(A) - d] > FailWindow
        BY <1>4, <4>1 DEF IsExpired
      <4>. QED  BY <1>7, <4>2, Windows
    <3>. QED  BY <3>1
  <2>3. d < Len(K)
    BY <1>2, <1>5, <1>6, <2>2
  <2>4. Len(K) - d \in 1..(Len(A) - n) /\ (Len(K) - d) + n = Len(A) - d
    BY <1>2, <1>5, <1>6, <2>2
  <2>5. K[Len(K) - d] = A[(Len(K) - d) + n]
    BY <1>5, <2>4
  <2>. QED  BY <2>3, <2>4, <2>5
<1>8. ASSUME NEW d \in 0..(Len(g) - 1)
      PROVE  \/ g[Len(g) - d] >= BlockTime - left
             \/ d < Len(K) /\ K[Len(K) - d] = g[Len(g) - d]
  <2>1. CASE d = 0
    <3>1. d \in 0..(Len(A) - 1) /\ Len(A) - d = Len(F) + 1 /\ Len(g) - d = Len(f) + 1
      BY <1>2, <1>3, <1>6, <2>1
    <3>2. A[Len(A) - d] = 0 /\ g[Len(g) - d] = 0
      BY <1>2, <1>3, <3>1
    <3>3. d < Len(K) /\ K[Len(K) - d] = A[Len(A) - d]
      <4>1. A[Len(A) - d] <= FailWindow /\ A[Len(A) - d] \in Nat
        BY <3>2, Windows
      <4>. QED  BY <1>7, <3>1, <4>1
    <3>. QED  BY <3>2, <3>3
  <2>2. CASE d # 0
    <3>. DEFINE e == d - 1
    <3>1. e \in 0..(Len(f) - 1) /\ Len(g) - d = Len(f) - e /\ Len(f) - e \in 1..Len(f)
      BY <1>3, <1>6, <2>2
    <3>2. g[Len(g) - d] = f[Len(f) - e]
      BY <1>3, <3>1
    <3>3. \/ f[Len(f) - e] >= BlockTime - left
          \/ e < Len(F) /\ F[Len(F) - e] = f[Len(f) - e]
      BY <3>1 DEF Matched
    <3>4. CASE e < Len(F) /\ F[Len(F) - e] = f[Len(f) - e]
      <4>1. /\ d \in 0..(Len(A) - 1) /\ Len(A) - d = Len(F) - e
            /\ Len(F) - e \in 1..Len(F)
        BY <1>2, <1>6, <2>2, <3>1, <3>4
      <4>2. A[Len(A) - d] = f[Len(f) - e]
        BY <1>2, <3>4, <4>1
      <4>3. A[Len(A) - d] <= FailWindow /\ A[Len(A) - d] \in Nat
        BY <1>1, <3>1, <4>2, Windows
      <4>. QED  BY <1>7, <3>2, <4>1, <4>2, <4>3
    <3>. QED  BY <3>2, <3>3, <3>4
  <2>. QED  BY <2>1, <2>2
<1>9. Matched(K, g, left)
  BY <1>8 DEF Matched
<1>. QED  BY <1>9 DEF A, K, g

LEMMA MatchedTick ==
  ASSUME NEW F \in Seq(0..(FailWindow + 1)), NEW f \in Seq(0..GuessWindow), Falling(f),
         NEW left \in 0..BlockTime, Matched(F, f, left),
         NEW next \in 0..BlockTime, next = IF left > 0 THEN left - 1 ELSE 0
  PROVE  /\ Matched(Older(F, FailWindow + 1),
                    Recent(Older(f, GuessWindow + 1), GuessWindow), next)
         /\ Recent(Older(f, GuessWindow + 1), GuessWindow) \in Seq(0..GuessWindow)
         /\ Falling(Recent(Older(f, GuessWindow + 1), GuessWindow))
         /\ Len(Recent(Older(f, GuessWindow + 1), GuessWindow)) <= Len(f)
<1>. DEFINE G == Older(F, FailWindow + 1)
            h == Older(f, GuessWindow + 1)
            g == Recent(h, GuessWindow)
<1>1. f \in Seq(Nat) /\ \A i \in 1..Len(f) : f[i] \in 0..GuessWindow /\ f[i] <= GuessWindow
  BY Windows, AgesAreNats
<1>2. F \in Seq(Nat) /\ \A i \in 1..Len(F) : F[i] \in 0..(FailWindow + 1)
  BY Windows, AgesAreNats
<1>3. /\ Len(G) = Len(F)
      /\ \A i \in 1..Len(F) : G[i] = IF F[i] < FailWindow + 1 THEN F[i] + 1 ELSE FailWindow + 1
  BY <1>2, Windows, OlderIs
<1>4. /\ h \in Seq(0..(GuessWindow + 1)) /\ Len(h) = Len(f) /\ Falling(h)
      /\ \A i \in 1..Len(f) : h[i] = IF f[i] < GuessWindow + 1 THEN f[i] + 1 ELSE GuessWindow + 1
  BY <1>1, Windows, OlderIs
<1>5. h \in Seq(Nat)
  BY <1>4, Windows, AgesAreNats
<1>. HIDE DEF G, h
<1>6. \A i \in 1..Len(f) : h[i] = f[i] + 1
  BY <1>1, <1>4, Windows
<1>7. PICK n : IsExpired(h, GuessWindow, n)
  BY <1>5, Windows, ExpiredIs
<1>8. /\ n \in Nat /\ n <= Len(h) /\ Len(g) = Len(h) - n
      /\ \A i \in 1..(Len(h) - n) : g[i] = h[i + n]
  BY <1>5, <1>7, Windows, RecentIs
<1>9. g \in Seq(0..GuessWindow) /\ Falling(g) /\ Len(g) <= Len(h)
  BY <1>4, <1>5, Windows, RecentFalls
<1>. HIDE DEF g
<1>10. Len(F) \in Nat /\ Len(f) \in Nat
  OBVIOUS
<1>11. ASSUME NEW d \in 0..(Len(g) - 1)
       PROVE  \/ g[Len(g) - d] >= BlockTime - next
              \/ d < Len(G) /\ G[Len(G) - d] = g[Len(g) - d]
  <2>1. /\ d \in 0..(Len(f) - 1) /\ Len(f) - d \in 1..Len(f)
        /\ Len(g) - d \in 1..(Len(h) - n) /\ (Len(g) - d) + n = Len(f) - d
    BY <1>4, <1>8, <1>10
  <2>2. g[Len(g) - d] = h[(Len(g) - d) + n]
    BY <1>8, <2>1
  <2>3. g[Len(g) - d] = f[Len(f) - d] + 1 /\ f[Len(f) - d] \in 0..GuessWindow
    BY <1>1, <1>6, <2>1, <2>2
  <2>4. \/ f[Len(f) - d] >= BlockTime - left
        \/ d < Len(F) /\ F[Len(F) - d] = f[Len(f) - d]
    BY <2>1 DEF Matched
  <2>5. CASE f[Len(f) - d] >= BlockTime - left
    <3>1. f[Len(f) - d] + 1 >= BlockTime - next
      BY <2>3, <2>5, Windows
    <3>. QED  BY <2>3, <3>1
  <2>6. CASE d < Len(F) /\ F[Len(F) - d] = f[Len(f) - d]
    <3>1. Len(F) - d \in 1..Len(F)
      BY <1>10, <2>6
    <3>2. F[Len(F) - d] < FailWindow + 1 /\ F[Len(F) - d] \in Nat
      BY <2>3, <2>6, Windows
    <3>3. G[Len(F) - d] = F[Len(F) - d] + 1
      BY <1>3, <3>1, <3>2
    <3>. QED  BY <1>3, <2>3, <2>6, <3>3
  <2>. QED  BY <2>4, <2>5, <2>6
<1>12. Matched(G, g, next)
  BY <1>11 DEF Matched
<1>. QED  BY <1>4, <1>9, <1>12 DEF G, h, g

(* Without a block all the failures recorded are in the deque.             *)
LEMMA MatchedOpen ==
  ASSUME NEW F \in Seq(Nat), NEW f \in Seq(0..GuessWindow), Matched(F, f, 0)
  PROVE  Len(f) <= Len(F)
<1>1. Len(F) \in Nat /\ Len(f) \in Nat
  OBVIOUS
<1>2. CASE Len(f) = 0
  BY <1>1, <1>2
<1>3. CASE Len(f) # 0
  <2>. DEFINE d == Len(f) - 1
  <2>1. d \in 0..(Len(f) - 1) /\ Len(f) - d \in 1..Len(f)
    BY <1>1, <1>3
  <2>2. f[Len(f) - d] \in 0..GuessWindow
    BY <2>1, Windows, AgesAreNats
  <2>3. ~(f[Len(f) - d] >= BlockTime - 0)
    BY <2>2, Windows
  <2>4. d < Len(F)
    BY <2>1, <2>3 DEF Matched
  <2>. QED  BY <1>1, <2>4
<1>. QED  BY <1>2, <1>3

-----------------------------------------------------------------------------
Of(s) == {r \in Requests : SourceOf[r] = s}

Inside(s) == {r \in Requests : SourceOf[r] = s /\ pc[r] # "idle"}

(* The failures of a source, their place in the deque, and the requests    *)
(* that can still add to them.                                             *)
ThrottleInv ==
    /\ failures \in [Sources -> Seq(0..(FailWindow + 1))]
    /\ blocked \in [Sources -> 0..BlockTime]
    /\ failed \in [Sources -> Seq(0..GuessWindow)]
    /\ pc \in [Requests -> {"idle", "inside", "unauthenticated"}]
    /\ \A s \in Sources :
          /\ Len(failures[s]) < Threshold
          /\ Falling(failed[s])
          /\ Matched(failures[s], failed[s], blocked[s])
          /\ Len(failed[s]) + Cardinality(Inside(s)) <= Threshold - 1 + Cardinality(Of(s))

LEMMA Counts ==
  ASSUME NEW s
  PROVE  /\ IsFiniteSet(Of(s)) /\ IsFiniteSet(Inside(s)) /\ IsFiniteSet(Inside(s)')
         /\ Cardinality(Of(s)) \in Nat /\ Cardinality(Inside(s)) \in Nat
         /\ Cardinality(Inside(s)') \in Nat
         /\ Cardinality(Inside(s)) <= Cardinality(Of(s))
         /\ Cardinality(Inside(s)') <= Cardinality(Of(s))
         /\ Inside(s)' \subseteq Inside(s) => Cardinality(Inside(s)') <= Cardinality(Inside(s))
<1>1. IsFiniteSet(Requests)
  BY AbuseAssumption
<1>2. Of(s) \subseteq Requests /\ Inside(s) \subseteq Of(s) /\ Inside(s)' \subseteq Of(s)
  BY DEF Of, Inside
<1>3. IsFiniteSet(Of(s))
  BY <1>1, <1>2, FS_Subset
<1>4. IsFiniteSet(Inside(s)) /\ IsFiniteSet(Inside(s)')
  BY <1>2, <1>3, FS_Subset
<1>. QED  BY <1>2, <1>3, <1>4, FS_Subset, FS_CardinalityType

LEMMA ThrottleInit == Init => ThrottleInv
<1>. SUFFICES ASSUME Init PROVE ThrottleInv
  OBVIOUS
<1>1. /\ failures \in [Sources -> Seq(0..(FailWindow + 1))]
      /\ failed \in [Sources -> Seq(0..GuessWindow)]
      /\ blocked \in [Sources -> 0..BlockTime]
      /\ pc \in [Requests -> {"idle", "inside", "unauthenticated"}]
  BY Windows DEF Init
<1>2. ASSUME NEW s \in Sources
      PROVE  /\ Len(failures[s]) < Threshold
             /\ Falling(failed[s])
             /\ Matched(failures[s], failed[s], blocked[s])
             /\ Len(failed[s]) + Cardinality(Inside(s)) <= Threshold - 1 + Cardinality(Of(s))
  <2>1. failures[s] = <<>> /\ failed[s] = <<>>
    BY DEF Init
  <2>2. Inside(s) = {}
    BY DEF Init, Inside
  <2>3. Cardinality(Inside(s)) = 0
    BY <2>2, FS_EmptySet
  <2>4. Matched(failures[s], failed[s], blocked[s])
    BY <2>1, Nothing DEF Matched
  <2>5. Cardinality(Of(s)) \in Nat
    BY Counts
  <2>. QED  BY <2>1, <2>3, <2>4, <2>5, Nothing, Windows
<1>. QED  BY <1>1, <1>2 DEF ThrottleInv

(* A step that only moves requests: those inside stay or leave, or one     *)
(* comes in whose source is not blocked.                                   *)
LEMMA MoveStep ==
  ASSUME ThrottleInv, UNCHANGED <<failures, blocked, failed>>,
         pc' \in [Requests -> {"idle", "inside", "unauthenticated"}],
         \A s \in Sources : blocked[s] = 0 \/ Inside(s)' \subseteq Inside(s)
  PROVE  ThrottleInv'
<1>1. ASSUME NEW s \in Sources
      PROVE  Len(failed[s]) + Cardinality(Inside(s)') <= Threshold - 1 + Cardinality(Of(s))
  <2>1. /\ failures[s] \in Seq(Nat) /\ failed[s] \in Seq(0..GuessWindow)
        /\ Len(failures[s]) < Threshold /\ Matched(failures[s], failed[s], blocked[s])
        /\ Len(failed[s]) + Cardinality(Inside(s)) <= Threshold - 1 + Cardinality(Of(s))
    <3>1. failures[s] \in Seq(0..(FailWindow + 1))
      BY DEF ThrottleInv
    <3>. QED  BY <3>1, Windows, AgesAreNats DEF ThrottleInv
  <2>2. Len(failures[s]) \in Nat /\ Len(failed[s]) \in Nat
    BY <2>1
  <2>3. CASE blocked[s] = 0
    <3>1. Len(failed[s]) <= Len(failures[s])
      BY <2>1, <2>3, MatchedOpen
    <3>2. Cardinality(Inside(s)') <= Cardinality(Of(s)) /\ Cardinality(Inside(s)') \in Nat
          /\ Cardinality(Of(s)) \in Nat
      BY Counts
    <3>. QED  BY <2>1, <2>2, <3>1, <3>2, Windows
  <2>4. CASE Inside(s)' \subseteq Inside(s)
    <3>1. Cardinality(Inside(s)') <= Cardinality(Inside(s)) /\ Cardinality(Inside(s)') \in Nat
          /\ Cardinality(Inside(s)) \in Nat /\ Cardinality(Of(s)) \in Nat
      BY <2>4, Counts
    <3>. QED  BY <2>1, <2>2, <3>1, Windows
  <2>. QED  BY <2>3, <2>4
<1>2. \A s : Of(s)' = Of(s)
  BY DEF Of
<1>. QED  BY <1>1, <1>2 DEF ThrottleInv

(* A failure: one request less inside, one failure more.                   *)
LEMMA RecordStep ==
  ASSUME ThrottleInv, NEW r \in Requests, RecordFailure(r)
  PROVE  ThrottleInv'
<1>. DEFINE s == SourceOf[r]
            kept == Recent(Append(failures[s], 0), FailWindow)
            all == Append(failed[s], 0)
<1>1. s \in Sources /\ pc[r] = "unauthenticated"
  BY AbuseAssumption DEF RecordFailure
<1>2. /\ failures[s] \in Seq(0..(FailWindow + 1)) /\ failed[s] \in Seq(0..GuessWindow)
      /\ blocked[s] \in 0..BlockTime
      /\ Falling(failed[s]) /\ Matched(failures[s], failed[s], blocked[s])
      /\ Len(failed[s]) + Cardinality(Inside(s)) <= Threshold - 1 + Cardinality(Of(s))
  BY <1>1 DEF ThrottleInv
<1>3. failures[s] \in Seq(Nat) /\ failed[s] \in Seq(Nat)
  BY <1>2, Windows, AgesAreNats
<1>4. kept \in Seq(0..(FailWindow + 1)) /\ kept \in Seq(Nat)
  <2>. DEFINE A == Append(failures[s], 0)
  <2>1. 0 \in 0..(FailWindow + 1)
    BY Windows
  <2>2. A \in Seq(0..(FailWindow + 1)) /\ A \in Seq(Nat)
    BY <1>2, <1>3, <2>1
  <2>. HIDE DEF A
  <2>3. PICK n : IsExpired(A, FailWindow, n)
    BY <2>2, Windows, ExpiredIs
  <2>. DEFINE b == Recent(A, FailWindow)
  <2>4. /\ b \in Seq(Nat) /\ n \in Nat /\ n <= Len(A)
        /\ Len(b) = Len(A) - n
        /\ \A i \in 1..(Len(A) - n) : b[i] = A[i + n]
    BY <2>2, <2>3, Windows, RecentIs
  <2>. HIDE DEF b
  <2>5. \A i \in 1..Len(b) : b[i] \in 0..(FailWindow + 1)
    <3>. TAKE i \in 1..Len(b)
    <3>1. i \in 1..(Len(A) - n) /\ i + n \in 1..Len(A)
      BY <2>2, <2>4
    <3>2. A[i + n] \in 0..(FailWindow + 1)
      BY <2>2, <3>1, ElementOfSeq
    <3>. QED  BY <2>4, <3>1, <3>2
  <2>6. b \in Seq(0..(FailWindow + 1))
    BY <2>4, <2>5, TypedSeq
  <2>. QED  BY <2>4, <2>6 DEF A, b
<1>5. /\ all \in Seq(0..GuessWindow) /\ Falling(all) /\ Len(all) = Len(failed[s]) + 1
      /\ all \in Seq(Nat)
  <2>1. 0 \in 0..GuessWindow
    BY Windows
  <2>2. all \in Seq(0..GuessWindow)
    BY <1>2, <2>1
  <2>. QED  BY <1>2, <1>3, <2>2, AppendZero
<1>6. Matched(kept, all, blocked[s])
  BY <1>2, <1>3, MatchedRecord
<1>. HIDE DEF kept, all
<1>7. /\ failures' = [failures EXCEPT ![s] = IF Len(kept) >= Threshold THEN <<>> ELSE kept]
      /\ blocked' = [blocked EXCEPT ![s] = IF Len(kept) >= Threshold THEN BlockTime ELSE @]
      /\ failed' = [failed EXCEPT ![s] = all]
      /\ pc' = [pc EXCEPT ![r] = "idle"]
  BY DEF RecordFailure, Moved, kept, all
<1>8. /\ failures'[s] \in Seq(0..(FailWindow + 1)) /\ blocked'[s] \in 0..BlockTime
      /\ Len(failures'[s]) < Threshold
      /\ Matched(failures'[s], all, blocked'[s])
  <2>1. /\ failures'[s] = IF Len(kept) >= Threshold THEN <<>> ELSE kept
        /\ blocked'[s] = IF Len(kept) >= Threshold THEN BlockTime ELSE blocked[s]
    BY <1>1, <1>7 DEF ThrottleInv
  <2>2. CASE Len(kept) >= Threshold
    <3>1. failures'[s] = <<>> /\ blocked'[s] = BlockTime
      BY <2>1, <2>2
    <3>2. \A i \in 1..Len(all) : all[i] \in Nat
      BY <1>5
    <3>3. \A d \in 0..(Len(all) - 1) : all[Len(all) - d] >= BlockTime - BlockTime
      <4>. TAKE d \in 0..(Len(all) - 1)
      <4>1. Len(all) - d \in 1..Len(all)
        BY <1>5
      <4>. QED  BY <3>2, <4>1, Windows
    <3>. QED  BY <3>1, <3>3, Windows, Nothing DEF Matched
  <2>3. CASE ~(Len(kept) >= Threshold)
    <3>1. failures'[s] = kept /\ blocked'[s] = blocked[s] /\ Len(kept) \in Nat
      BY <1>4, <2>1, <2>3
    <3>. QED  BY <1>2, <1>4, <1>6, <2>3, <3>1, Windows
  <2>. QED  BY <2>2, <2>3
<1>9. /\ failures' \in [Sources -> Seq(0..(FailWindow + 1))]
      /\ blocked' \in [Sources -> 0..BlockTime]
      /\ failed' \in [Sources -> Seq(0..GuessWindow)]
      /\ pc' \in [Requests -> {"idle", "inside", "unauthenticated"}]
  <2>1. failures' = [failures EXCEPT ![s] = failures'[s]] /\ blocked' = [blocked EXCEPT ![s] = blocked'[s]]
    BY <1>1, <1>7 DEF ThrottleInv
  <2>. QED  BY <1>1, <1>5, <1>7, <1>8, <2>1 DEF ThrottleInv
<1>10. Len(all) + Cardinality(Inside(s)') <= Threshold - 1 + Cardinality(Of(s))
  <2>1. Inside(s)' = Inside(s) \ {r} /\ r \in Inside(s)
    BY <1>1, <1>7 DEF Inside, ThrottleInv
  <2>2. IsFiniteSet(Inside(s)) /\ Cardinality(Inside(s)) \in Nat /\ Cardinality(Of(s)) \in Nat
    BY Counts
  <2>3. Cardinality(Inside(s) \ {r}) = Cardinality(Inside(s)) - 1
    BY <2>1, <2>2, FS_RemoveElement
  <2>4. Len(failed[s]) \in Nat
    BY <1>2
  <2>. QED  BY <1>2, <1>5, <2>1, <2>2, <2>3, <2>4, Windows
<1>11. ASSUME NEW t \in Sources
       PROVE  /\ Len(failures'[t]) < Threshold
              /\ Falling(failed'[t])
              /\ Matched(failures'[t], failed'[t], blocked'[t])
              /\ Len(failed'[t]) + Cardinality(Inside(t)') <= Threshold - 1 + Cardinality(Of(t))
  <2>1. CASE t = s
    <3>1. failed'[t] = all
      BY <1>1, <1>7, <2>1 DEF ThrottleInv
    <3>. QED  BY <1>5, <1>8, <1>10, <2>1, <3>1
  <2>2. CASE t # s
    <3>1. failures'[t] = failures[t] /\ blocked'[t] = blocked[t] /\ failed'[t] = failed[t]
      BY <1>1, <1>7, <2>2 DEF ThrottleInv
    <3>2. Inside(t)' = Inside(t)
      BY <1>7, <2>2 DEF Inside, ThrottleInv
    <3>. QED  BY <3>1, <3>2 DEF ThrottleInv
  <2>. QED  BY <2>1, <2>2
<1>12. \A t : Of(t)' = Of(t)
  BY DEF Of
<1>. QED  BY <1>9, <1>11, <1>12 DEF ThrottleInv

LEMMA ThrottleTick ==
  ASSUME ThrottleInv, Tick
  PROVE  ThrottleInv'
<1>1. ASSUME NEW s \in Sources
      PROVE  /\ failures'[s] \in Seq(0..(FailWindow + 1)) /\ Len(failures'[s]) < Threshold
             /\ blocked'[s] \in 0..BlockTime
             /\ failed'[s] \in Seq(0..GuessWindow) /\ Falling(failed'[s])
             /\ Matched(failures'[s], failed'[s], blocked'[s])
             /\ Len(failed'[s]) <= Len(failed[s])
  <2>1. /\ failures'[s] = Older(failures[s], FailWindow + 1)
        /\ blocked'[s] = IF blocked[s] > 0 THEN blocked[s] - 1 ELSE 0
        /\ failed'[s] = Recent(Older(failed[s], GuessWindow + 1), GuessWindow)
    BY DEF Tick
  <2>2. /\ failures[s] \in Seq(0..(FailWindow + 1)) /\ failed[s] \in Seq(0..GuessWindow)
        /\ blocked[s] \in 0..BlockTime /\ Len(failures[s]) < Threshold
        /\ Falling(failed[s]) /\ Matched(failures[s], failed[s], blocked[s])
    BY DEF ThrottleInv
  <2>3. failures[s] \in Seq(Nat)
    BY <2>2, Windows, AgesAreNats
  <2>4. failures'[s] \in Seq(0..(FailWindow + 1)) /\ Len(failures'[s]) = Len(failures[s])
    BY <2>1, <2>3, Windows, OlderIs
  <2>5. PICK next \in 0..BlockTime : next = IF blocked[s] > 0 THEN blocked[s] - 1 ELSE 0
    BY <2>2, Windows
  <2>6. blocked'[s] = next
    BY <2>1, <2>5
  <2>7. /\ Matched(Older(failures[s], FailWindow + 1),
                   Recent(Older(failed[s], GuessWindow + 1), GuessWindow), next)
        /\ Recent(Older(failed[s], GuessWindow + 1), GuessWindow) \in Seq(0..GuessWindow)
        /\ Falling(Recent(Older(failed[s], GuessWindow + 1), GuessWindow))
        /\ Len(Recent(Older(failed[s], GuessWindow + 1), GuessWindow)) <= Len(failed[s])
    BY <2>2, <2>5, MatchedTick
  <2>. QED  BY <2>1, <2>2, <2>4, <2>6, <2>7
<1>2. /\ DOMAIN failures' = Sources /\ failures' = [s \in Sources |-> failures'[s]]
      /\ DOMAIN blocked' = Sources /\ blocked' = [s \in Sources |-> blocked'[s]]
      /\ DOMAIN failed' = Sources /\ failed' = [s \in Sources |-> failed'[s]]
      /\ pc' = pc
  BY DEF Tick
<1>3. /\ failures' \in [Sources -> Seq(0..(FailWindow + 1))]
      /\ blocked' \in [Sources -> 0..BlockTime]
      /\ failed' \in [Sources -> Seq(0..GuessWindow)]
      /\ pc' \in [Requests -> {"idle", "inside", "unauthenticated"}]
  BY <1>1, <1>2 DEF ThrottleInv
<1>4. \A s : Of(s)' = Of(s) /\ Inside(s)' = Inside(s)
  BY <1>2 DEF Of, Inside
<1>5. ASSUME NEW s \in Sources
      PROVE  Len(failed'[s]) + Cardinality(Inside(s)) <= Threshold - 1 + Cardinality(Of(s))
  <2>1. /\ Len(failed[s]) + Cardinality(Inside(s)) <= Threshold - 1 + Cardinality(Of(s))
        /\ failed[s] \in Seq(0..GuessWindow)
    BY DEF ThrottleInv
  <2>2. Cardinality(Inside(s)) \in Nat /\ Cardinality(Of(s)) \in Nat
    BY Counts
  <2>3. Len(failed[s]) \in Nat /\ Len(failed'[s]) \in Nat
    BY <1>1, <2>1
  <2>. QED  BY <1>1, <2>1, <2>2, <2>3, Windows
<1>. QED  BY <1>1, <1>3, <1>4, <1>5 DEF ThrottleInv

LEMMA ThrottleStep == ThrottleInv /\ [Next]_vars => ThrottleInv'
<1>. SUFFICES ASSUME ThrottleInv, [Next]_vars PROVE ThrottleInv'
  OBVIOUS
<1>1. ASSUME NEW r \in Requests, Enter(r) PROVE ThrottleInv'
  <2>1. /\ UNCHANGED <<failures, blocked, failed>>
        /\ pc' = [pc EXCEPT ![r] = "inside"] /\ blocked[SourceOf[r]] = 0
    BY <1>1 DEF Enter, Moved
  <2>2. pc' \in [Requests -> {"idle", "inside", "unauthenticated"}]
    BY <2>1 DEF ThrottleInv
  <2>3. \A s \in Sources : s # SourceOf[r] => Inside(s)' \subseteq Inside(s)
    BY <2>1 DEF Inside, ThrottleInv
  <2>. QED  BY <2>1, <2>2, <2>3, MoveStep
<1>2. ASSUME UNCHANGED <<failures, blocked, failed>>, NEW r \in Requests,
             NEW to \in {"idle", "inside", "unauthenticated"}, Moved(r, to), pc[r] # "idle"
      PROVE  ThrottleInv'
  <2>1. pc' = [pc EXCEPT ![r] = to]
    BY <1>2 DEF Moved
  <2>2. pc' \in [Requests -> {"idle", "inside", "unauthenticated"}]
    BY <2>1 DEF ThrottleInv
  <2>3. \A s \in Sources : Inside(s)' \subseteq Inside(s)
    BY <1>2, <2>1 DEF Inside, ThrottleInv
  <2>. QED  BY <1>2, <2>2, <2>3, MoveStep
<1>3. ASSUME NEW r \in Requests, Leave(r) \/ Deny(r) \/ \E k \in Keys : Arrive(r, k)
      PROVE  ThrottleInv'
  <2>1. /\ UNCHANGED <<failures, blocked, failed>>
        /\ pc[r] = "inside"
        /\ Moved(r, "idle") \/ Moved(r, "unauthenticated")
    BY <1>3 DEF Leave, Deny, Arrive
  <2>. QED  BY <1>2, <2>1
<1>4. CASE UNCHANGED vars
  BY <1>4 DEF vars, ThrottleInv, Inside, Of
<1>. QED  BY <1>1, <1>3, <1>4, RecordStep, ThrottleTick DEF Next

(* In any window shorter than a block a source fails at most Threshold     *)
(* times before the block and then only with the requests it had inside.   *)
THEOREM GuessesAreLimited == Spec => []GuessesLimited
<1>1. ThrottleInv => GuessesLimited
  <2>. SUFFICES ASSUME ThrottleInv, NEW s \in Sources
                PROVE  Len(failed[s]) <= Threshold - 1 + Cardinality(Of(s))
    BY DEF GuessesLimited, Of
  <2>1. /\ Len(failed[s]) + Cardinality(Inside(s)) <= Threshold - 1 + Cardinality(Of(s))
        /\ failed[s] \in Seq(0..GuessWindow)
    BY DEF ThrottleInv
  <2>2. Len(failed[s]) \in Nat /\ Cardinality(Inside(s)) \in Nat /\ Cardinality(Of(s)) \in Nat
    BY <2>1, Counts
  <2>. QED  BY <2>1, <2>2, Windows
<1>. QED  BY ThrottleInit, ThrottleStep, <1>1, PTL DEF Spec

(* The type invariant: no deque grows to its threshold, nor a window       *)
(* beyond its end.                                                         *)
THEOREM AbuseTypeCorrect == Spec => []TypeOK
<1>1. LimiterInv /\ ThrottleInv => TypeOK
  BY DEF LimiterInv, ThrottleInv, TypeOK
<1>. QED
  BY LimiterInit, LimiterStep, ThrottleInit, ThrottleStep, <1>1, PTL DEF Spec
==============================================================================
