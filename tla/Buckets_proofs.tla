--------------------------- MODULE Buckets_proofs ---------------------------
(***************************************************************************)
(* Split deals every element out to exactly one worker, for every slice    *)
(* and every number of workers a pool may start.                           *)
(***************************************************************************)
EXTENDS Buckets, TLAPS

LEMMA DivMod ==
  ASSUME NEW n \in Nat \ {0}, NEW x \in Nat
  PROVE  /\ x % n \in 0..(n - 1) /\ x \div n \in Nat
         /\ x = n * (x \div n) + (x % n)
OBVIOUS

(* A quotient is determined by what it is the quotient of. *)
LEMMA DivUnique ==
  ASSUME NEW n \in Nat \ {0}, NEW q \in Nat, NEW r \in 0..(n - 1)
  PROVE  (n * q + r) \div n = q /\ (n * q + r) % n = r
OBVIOUS

LEMMA Squeeze ==
  ASSUME NEW a \in Int, NEW b \in Int, NEW r \in Int, NEW n \in Int, NEW c,
         a <= b + r, r < n, c = b + n, a >= c
  PROVE  FALSE
OBVIOUS

(* A pool never starts more workers than there are elements. *)
LEMMA RoutinesBound ==
  ASSUME NEW S, NEW s \in Seq(S), NEW cpus \in Nat
  PROVE  Routines(cpus, s) \in 0..Len(s)
BY DEF Routines

(* Of at most as many buckets as elements, each gets one at least. *)
LEMMA BucketsFilled ==
  ASSUME NEW len \in Nat, NEW n \in 1..len, NEW b \in 1..n
  PROVE  BucketLen(n, b, len) \in Nat \ {0}
<1>1. len - b \in Nat /\ n \in Nat \ {0}
  OBVIOUS
<1> QED
  BY <1>1, DivMod DEF BucketLen

(* Every place of every bucket is a position of the slice. *)
LEMMA PlaceInRange ==
  ASSUME NEW len \in Nat, NEW n \in 1..len, NEW b \in 1..n,
         NEW i \in 1..BucketLen(n, b, len)
  PROVE  b + n * (i - 1) \in 1..len
<1> DEFINE q == (len - b) \div n
           r == (len - b) % n
<1>1. len - b \in Nat /\ n \in Nat \ {0}
  OBVIOUS
<1>2. q \in Nat /\ r \in 0..(n - 1) /\ len - b = n * q + r
  BY <1>1, DivMod
<1>3. i \in Nat \ {0} /\ i - 1 <= q
  BY <1>2 DEF BucketLen
<1> HIDE DEF q, r
<1>4. n * (i - 1) <= n * q /\ n * (i - 1) >= 0 /\ n * (i - 1) \in Int /\ n * q \in Int
  BY <1>1, <1>2, <1>3
<1> QED
  BY <1>1, <1>2, <1>4

(* Every position has a place, and only that one. *)
LEMMA PlaceOfPosition ==
  ASSUME NEW len \in Nat, NEW n \in 1..len, NEW k \in 1..len
  PROVE  /\ BucketOf(n, k) \in 1..n
         /\ PlaceOf(n, k) \in 1..BucketLen(n, BucketOf(n, k), len)
         /\ BucketOf(n, k) + n * (PlaceOf(n, k) - 1) = k
<1> DEFINE q == (k - 1) \div n
           r == (k - 1) % n
<1>1. k - 1 \in Nat /\ n \in Nat \ {0}
  OBVIOUS
<1>2. q \in Nat /\ r \in 0..(n - 1) /\ k - 1 = n * q + r
  BY <1>1, DivMod
<1>3. BucketOf(n, k) = r + 1 /\ PlaceOf(n, k) = q + 1
  BY DEF BucketOf, PlaceOf
<1> HIDE DEF q, r
<1>4. (r + 1) + n * q = k
  BY <1>2
<1>5. r + 1 \in 1..n
  BY <1>1, <1>2
<1>6. q + 1 \in 1..BucketLen(n, r + 1, len)
  <2> DEFINE Q == (len - (r + 1)) \div n
             R == (len - (r + 1)) % n
  <2>1. len - (r + 1) \in Nat
    BY <1>5
  <2>2. Q \in Nat /\ R \in 0..(n - 1) /\ len - (r + 1) = n * Q + R
    BY <1>1, <2>1, DivMod
  <2>3. BucketLen(n, r + 1, len) = Q + 1
    BY DEF BucketLen
  <2> HIDE DEF Q, R
  <2>4. n * q <= n * Q + R
    BY <1>1, <1>2, <1>4, <2>2
  <2>5. ~(q >= Q + 1)
    <3> SUFFICES ASSUME q >= Q + 1 PROVE FALSE
      OBVIOUS
    <3>1. n * q >= n * (Q + 1)
      BY <1>1, <1>2, <2>2
    <3>2. n * (Q + 1) = n * Q + n
      BY <1>1, <2>2
    <3>3. n * q \in Int /\ n * Q \in Int /\ R < n
      BY <1>1, <1>2, <2>2
    <3> QED
      BY <2>2, <2>4, <3>1, <3>2, <3>3, Squeeze
  <2> QED
    BY <1>2, <2>2, <2>3, <2>5
<1>7. (r + 1) + n * ((q + 1) - 1) = k
  BY <1>2, <1>4
<1> QED
  BY <1>3, <1>5, <1>6, <1>7

LEMMA PlaceUnique ==
  ASSUME NEW n \in Nat \ {0}, NEW b \in 1..n, NEW i \in Nat \ {0}
  PROVE  /\ BucketOf(n, b + n * (i - 1)) = b
         /\ PlaceOf(n, b + n * (i - 1)) = i
<1>1. b + n * (i - 1) - 1 = n * (i - 1) + (b - 1)
  OBVIOUS
<1>2. i - 1 \in Nat /\ b - 1 \in 0..(n - 1)
  OBVIOUS
<1>3. /\ (n * (i - 1) + (b - 1)) \div n = i - 1
      /\ (n * (i - 1) + (b - 1)) % n = b - 1
  BY <1>2, DivUnique
<1> QED
  BY <1>1, <1>2, <1>3 DEF BucketOf, PlaceOf

(* Split neither loses nor doubles an element: what its buckets hold at all *)
(* their places is the slice, each position at one place.                   *)
THEOREM SplitPartitions ==
  ASSUME NEW S, NEW s \in Seq(S), NEW n \in 1..Len(s)
  PROVE  /\ \A b \in 1..n : Split(n, s)[b] \in Seq(S) /\ Len(Split(n, s)[b]) >= 1
         /\ \A k \in 1..Len(s) :
              \E b \in 1..n : \E i \in DOMAIN Split(n, s)[b] :
                 /\ Split(n, s)[b][i] = s[k]
                 /\ \A c \in 1..n : \A j \in DOMAIN Split(n, s)[c] :
                      c + n * (j - 1) = k <=> c = b /\ j = i
<1>1. Len(s) \in Nat /\ n \in Nat \ {0}
  OBVIOUS
<1>2. ASSUME NEW b \in 1..n
      PROVE  BucketLen(n, b, Len(s)) \in Nat \ {0}
  BY <1>1, BucketsFilled
<1>3. ASSUME NEW b \in 1..n
      PROVE  DOMAIN Split(n, s)[b] = 1..BucketLen(n, b, Len(s))
  BY DEF Split
<1>4. ASSUME NEW b \in 1..n, NEW i \in 1..BucketLen(n, b, Len(s))
      PROVE  Split(n, s)[b][i] = s[b + n * (i - 1)]
  BY DEF Split
<1>5. ASSUME NEW b \in 1..n
      PROVE  Split(n, s)[b] \in Seq(S) /\ Len(Split(n, s)[b]) >= 1
  <2> DEFINE f == Split(n, s)[b]
             m == BucketLen(n, b, Len(s))
  <2>1. \A i \in 1..m : s[b + n * (i - 1)] \in S
    BY <1>1, PlaceInRange
  <2>2. f = [i \in 1..m |-> s[b + n * (i - 1)]]
    BY DEF Split
  <2>3. f \in [1..m -> S]
    BY <2>1, <2>2
  <2>4. m \in Nat /\ m >= 1
    BY <1>2
  <2> HIDE DEF f, m
  <2>5. f \in Seq(S) /\ Len(f) = m
    BY <2>3, <2>4
  <2> QED
    BY <2>4, <2>5 DEF f
<1>6. ASSUME NEW k \in 1..Len(s)
      PROVE  \E b \in 1..n : \E i \in DOMAIN Split(n, s)[b] :
                 /\ Split(n, s)[b][i] = s[k]
                 /\ \A c \in 1..n : \A j \in DOMAIN Split(n, s)[c] :
                      c + n * (j - 1) = k <=> c = b /\ j = i
  <2> DEFINE B == BucketOf(n, k)
             I == PlaceOf(n, k)
  <2>1. B \in 1..n /\ I \in 1..BucketLen(n, B, Len(s)) /\ B + n * (I - 1) = k
    BY <1>1, PlaceOfPosition
  <2> HIDE DEF B, I
  <2>2. I \in DOMAIN Split(n, s)[B]
    BY <1>3, <2>1
  <2>3. Split(n, s)[B][I] = s[k]
    BY <1>4, <2>1
  <2>4. ASSUME NEW c \in 1..n, NEW j \in DOMAIN Split(n, s)[c]
        PROVE  c + n * (j - 1) = k <=> c = B /\ j = I
    <3>1. j \in 1..BucketLen(n, c, Len(s))
      BY <1>3
    <3>2. j \in Nat \ {0}
      BY <1>2, <3>1
    <3>3. ASSUME c + n * (j - 1) = k PROVE c = B /\ j = I
      <4>1. BucketOf(n, c + n * (j - 1)) = c /\ PlaceOf(n, c + n * (j - 1)) = j
        BY <1>1, <3>2, PlaceUnique
      <4> QED
        BY <3>3, <4>1 DEF B, I
    <3> QED
      BY <2>1, <3>3
  <2> QED
    BY <2>1, <2>2, <2>3, <2>4
<1> QED
  BY <1>5, <1>6

(* Of a slice without repetitions, no element is in two places.             *)
LEMMA SplitInjective ==
  ASSUME NEW S, NEW s \in Seq(S), NEW n \in 1..Len(s),
         \A k, l \in 1..Len(s) : s[k] = s[l] => k = l,
         NEW b \in 1..n, NEW i \in DOMAIN Split(n, s)[b],
         NEW c \in 1..n, NEW j \in DOMAIN Split(n, s)[c],
         Split(n, s)[b][i] = Split(n, s)[c][j]
  PROVE  b = c /\ i = j
<1>1. Len(s) \in Nat /\ n \in Nat \ {0}
  OBVIOUS
<1>2. i \in 1..BucketLen(n, b, Len(s)) /\ j \in 1..BucketLen(n, c, Len(s))
  BY DEF Split
<1>3. i \in Nat \ {0} /\ j \in Nat \ {0}
  <2>1. BucketLen(n, b, Len(s)) \in Nat /\ BucketLen(n, c, Len(s)) \in Nat
    BY <1>1, BucketsFilled
  <2> QED
    BY <1>2, <2>1
<1>4. b + n * (i - 1) \in 1..Len(s) /\ c + n * (j - 1) \in 1..Len(s)
  BY <1>1, <1>2, PlaceInRange
<1>5. s[b + n * (i - 1)] = s[c + n * (j - 1)]
  BY <1>2 DEF Split
<1>6. b + n * (i - 1) = c + n * (j - 1)
  BY <1>4, <1>5
<1>7. BucketOf(n, b + n * (i - 1)) = b /\ PlaceOf(n, b + n * (i - 1)) = i
  BY <1>1, <1>3, PlaceUnique
<1>8. BucketOf(n, c + n * (j - 1)) = c /\ PlaceOf(n, c + n * (j - 1)) = j
  BY <1>1, <1>3, PlaceUnique
<1> QED
  BY <1>6, <1>7, <1>8

NoRepeats(s) == \A k, l \in DOMAIN s : s[k] = s[l] => k = l

(* The buckets B of the workers W hold every element of s at one place and  *)
(* nothing else.                                                            *)
Exact(W, B, s, S) ==
  /\ \A w \in W : B[w] \in Seq(S)
  /\ \A w, v \in W : \A i \in 1..Len(B[w]), j \in 1..Len(B[v]) :
       B[w][i] = B[v][j] => w = v /\ i = j
  /\ \A k \in DOMAIN s : \E w \in W : \E i \in 1..Len(B[w]) : B[w][i] = s[k]

(* For a pool that starts as many workers as the slice needs. *)
LEMMA DealtExactly ==
  ASSUME NEW S, NEW s \in Seq(S), NEW cpus \in Nat \ {0}, NoRepeats(s)
  PROVE  Exact(1..Routines(cpus, s), Split(Routines(cpus, s), s), s, S)
<1> DEFINE W == 1..Routines(cpus, s)
           B == Split(Routines(cpus, s), s)
<1> SUFFICES Exact(W, B, s, S)
  OBVIOUS
<1> USE DEF NoRepeats
<1> DEFINE n == Routines(cpus, s)
<1>1. n \in 0..Len(s) /\ (Len(s) # 0 => n # 0) /\ W = 1..n /\ B = Split(n, s)
  BY DEF Routines
<1> HIDE DEF n, W, B
<1>2. CASE n = 0
  <2>1. W = {} /\ DOMAIN s = {}
    BY <1>1, <1>2
  <2> QED
    BY <2>1 DEF Exact
<1>3. CASE n # 0
  <2>1. n \in 1..Len(s)
    BY <1>1, <1>3
  <2>2. \A w \in W : B[w] \in Seq(S)
    BY <1>1, <2>1, SplitPartitions
  <2>3. \A w \in W : DOMAIN B[w] = 1..Len(B[w])
    BY <2>2
  <2>4. ASSUME NEW w \in W, NEW v \in W, NEW i \in 1..Len(B[w]), NEW j \in 1..Len(B[v]),
               B[w][i] = B[v][j]
        PROVE  w = v /\ i = j
    <3>1. \A k, l \in 1..Len(s) : s[k] = s[l] => k = l
      OBVIOUS
    <3>2. /\ i \in DOMAIN Split(n, s)[w] /\ j \in DOMAIN Split(n, s)[v]
          /\ Split(n, s)[w][i] = Split(n, s)[v][j] /\ w \in 1..n /\ v \in 1..n
      BY <1>1, <2>3, <2>4
    <3> QED
      BY <2>1, <3>1, <3>2, SplitInjective
  <2>5. ASSUME NEW k \in DOMAIN s
        PROVE  \E w \in W : \E i \in 1..Len(B[w]) : B[w][i] = s[k]
    <3> DEFINE b == BucketOf(n, k)
               i == PlaceOf(n, k)
    <3>1. b \in 1..n /\ i \in 1..BucketLen(n, b, Len(s)) /\ b + n * (i - 1) = k
      <4>1. Len(s) \in Nat /\ k \in 1..Len(s)
        OBVIOUS
      <4> QED
        BY <2>1, <4>1, PlaceOfPosition
    <3> HIDE DEF b, i
    <3>2. i \in DOMAIN B[b] /\ B[b][i] = s[k]
      <4>1. B[b] = [j \in 1..BucketLen(n, b, Len(s)) |-> s[b + n * (j - 1)]]
        BY <1>1, <3>1 DEF Split
      <4> QED
        BY <3>1, <4>1
    <3> QED
      BY <1>1, <2>3, <3>1, <3>2
  <2> QED
    BY <2>2, <2>4, <2>5 DEF Exact
<1> QED
  BY <1>2, <1>3
=============================================================================
