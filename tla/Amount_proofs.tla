---------------------------- MODULE Amount_proofs ----------------------------
(***************************************************************************)
(* Proofs about Amount: getValueFromText reads every amount that the bank  *)
(* can write, of any length, with any mix of commas and dots.              *)
(*                                                                         *)
(* Both sides are recursive functions over the natural numbers.  What they *)
(* compute is proved by induction in the form of a set: a set of naturals  *)
(* with 0 and the successor of each of its members is Nat.                 *)
(***************************************************************************)
EXTENDS Amount, SequenceTheorems, WellFoundedInduction, TLAPS

LEMMA SetInduction ==
  ASSUME NEW S, 0 \in S, \A n \in Nat : n \in S => n + 1 \in S
  PROVE  Nat \subseteq S
<1> DEFINE rest == Nat \ S
           R == OpToRel(<, Nat)
<1> SUFFICES ASSUME rest # {} PROVE FALSE
  OBVIOUS
<1>1. rest \subseteq Nat
  OBVIOUS
<1>2. IsWellFoundedOn(R, Nat)
  BY NatLessThanWellFounded
<1> HIDE DEF rest, R
<1>3. PICK x \in rest : \A y \in rest : ~(<<y, x>> \in R)
  BY <1>1, <1>2, WFMin
<1>4. x \in Nat /\ x \notin S /\ x # 0
  BY DEF rest
<1>5. x - 1 \in Nat /\ (x - 1) + 1 = x
  BY <1>4
<1>6. <<x - 1, x>> \in R
  BY <1>4, <1>5 DEF R, OpToRel
<1>7. x - 1 \in S
  BY <1>3, <1>5, <1>6 DEF rest
<1> QED
  BY <1>4, <1>5, <1>7

-----------------------------------------------------------------------------
(* The number that the first characters of a text make. *)

(* The function that Number defines for itself. *)
Reads(f, s, k) ==
  f = [i \in 0..k |-> IF i = 0 THEN 0
                      ELSE IF s[i] \in Digit THEN 10 * f[i - 1] + s[i] ELSE f[i - 1]]

LEMMA ReadsExists == ASSUME NEW s, NEW k \in Nat PROVE \E f : Reads(f, s, k)
<1> DEFINE S == {n \in Nat : \E f : Reads(f, s, n)}
<1>1. 0 \in S
  <2>1. Reads([i \in 0..0 |-> 0], s, 0)
    BY DEF Reads
  <2> QED
    BY <2>1
<1>2. ASSUME NEW n \in Nat, n \in S PROVE n + 1 \in S
  <2>1. PICK f : Reads(f, s, n)
    BY <1>2
  <2> DEFINE last == IF s[n + 1] \in Digit THEN 10 * f[n] + s[n + 1] ELSE f[n]
             g == [i \in 0..(n + 1) |-> IF i <= n THEN f[i] ELSE last]
  <2>2. ASSUME NEW i \in 0..(n + 1)
        PROVE  g[i] = IF i = 0 THEN 0
                      ELSE IF s[i] \in Digit THEN 10 * g[i - 1] + s[i] ELSE g[i - 1]
    <3>1. CASE i = n + 1
      BY <3>1
    <3>2. CASE i <= n
      <4>1. f[i] = IF i = 0 THEN 0
                   ELSE IF s[i] \in Digit THEN 10 * f[i - 1] + s[i] ELSE f[i - 1]
        BY <2>1, <3>2 DEF Reads
      <4>2. g[i] = f[i] /\ (i # 0 => g[i - 1] = f[i - 1])
        BY <3>2
      <4> HIDE DEF g
      <4> QED
        BY <4>1, <4>2
    <3> QED
      BY <3>1, <3>2
  <2>3. g = [i \in 0..(n + 1) |-> g[i]]
    OBVIOUS
  <2> HIDE DEF g
  <2>4. Reads(g, s, n + 1)
    BY <2>2, <2>3 DEF Reads
  <2> QED
    BY <2>4
<1> HIDE DEF S
<1>3. k \in S
  BY <1>1, <1>2, SetInduction
<1> QED
  BY <1>3 DEF S

(* Texts that begin alike are read alike so far. *)
LEMMA ReadsAgree ==
  ASSUME NEW s, NEW t, NEW f, NEW g, NEW j \in Nat, NEW k \in Nat, j <= k,
         Reads(f, s, j), Reads(g, t, k), \A i \in 1..j : s[i] = t[i]
  PROVE  f[j] = g[j]
<1> DEFINE S == {i \in Nat : i <= j => f[i] = g[i]}
<1>1. 0 \in S
  BY DEF Reads
<1>2. ASSUME NEW i \in Nat, i \in S PROVE i + 1 \in S
  <2> SUFFICES ASSUME i + 1 <= j PROVE f[i + 1] = g[i + 1]
    OBVIOUS
  <2>1. f[i] = g[i] /\ s[i + 1] = t[i + 1] /\ (i + 1) - 1 = i /\ i + 1 # 0
    BY <1>2
  <2>2. f[i + 1] = IF s[i + 1] \in Digit THEN 10 * f[i] + s[i + 1] ELSE f[i]
    BY <2>1 DEF Reads
  <2>3. g[i + 1] = IF t[i + 1] \in Digit THEN 10 * g[i] + t[i + 1] ELSE g[i]
    BY <2>1 DEF Reads
  <2> QED
    BY <2>1, <2>2, <2>3
<1> HIDE DEF S
<1>3. j \in S
  BY <1>1, <1>2, SetInduction
<1> QED
  BY <1>3 DEF S

LEMMA NumberIsRead ==
  ASSUME NEW s, NEW k \in Nat
  PROVE  \E f : Reads(f, s, k) /\ Number(s, k) = f[k]
<1> DEFINE f == CHOOSE h : Reads(h, s, k)
<1>1. Reads(f, s, k)
  BY ReadsExists
<1>2. Number(s, k) = f[k]
  BY DEF Number, Reads
<1> QED
  BY <1>1, <1>2

LEMMA NumberOfPrefix ==
  ASSUME NEW s, NEW t, NEW k \in Nat, \A i \in 1..k : s[i] = t[i]
  PROVE  Number(s, k) = Number(t, k)
<1>1. PICK f : Reads(f, s, k) /\ Number(s, k) = f[k]
  BY NumberIsRead
<1>2. PICK g : Reads(g, t, k) /\ Number(t, k) = g[k]
  BY NumberIsRead
<1> QED
  BY <1>1, <1>2, ReadsAgree

LEMMA NumberOfNone == ASSUME NEW s PROVE Number(s, 0) = 0
<1>1. PICK f : Reads(f, s, 0) /\ Number(s, 0) = f[0]
  BY NumberIsRead
<1> QED
  BY <1>1 DEF Reads

LEMMA NumberOfNext ==
  ASSUME NEW s, NEW k \in Nat
  PROVE  Number(s, k + 1) = IF s[k + 1] \in Digit THEN 10 * Number(s, k) + s[k + 1]
                            ELSE Number(s, k)
<1>1. PICK f : Reads(f, s, k) /\ Number(s, k) = f[k]
  BY NumberIsRead
<1>2. PICK g : Reads(g, s, k + 1) /\ Number(s, k + 1) = g[k + 1]
  BY NumberIsRead
<1>3. f[k] = g[k]
  BY <1>1, <1>2, ReadsAgree
<1>4. g[k + 1] = IF s[k + 1] \in Digit THEN 10 * g[k] + s[k + 1] ELSE g[k]
  BY <1>2 DEF Reads
<1> QED
  BY <1>1, <1>2, <1>3, <1>4

(* Three digits more. *)
LEMMA NumberOfGroup ==
  ASSUME NEW s, NEW k \in Nat,
         s[k + 1] \in Digit, s[k + 2] \in Digit, s[k + 3] \in Digit, Number(s, k) \in Nat
  PROVE  Number(s, k + 3) = 1000 * Number(s, k) + 100 * s[k + 1] + 10 * s[k + 2] + s[k + 3]
<1>1. Number(s, k + 1) = 10 * Number(s, k) + s[k + 1]
  BY NumberOfNext
<1>2. Number(s, k + 2) = 10 * Number(s, k + 1) + s[k + 2]
  <2>1. k + 1 \in Nat /\ (k + 1) + 1 = k + 2
    OBVIOUS
  <2> QED
    BY <2>1, NumberOfNext
<1>3. Number(s, k + 3) = 10 * Number(s, k + 2) + s[k + 3]
  <2>1. k + 2 \in Nat /\ (k + 2) + 1 = k + 3
    OBVIOUS
  <2> QED
    BY <2>1, NumberOfNext
<1> QED
  BY <1>1, <1>2, <1>3 DEF Digit

-----------------------------------------------------------------------------
(* The text of a whole number of pesos. *)

(* The function that Whole defines for itself. *)
Printed(f, m, group) ==
  IF m < 1000 THEN First(m) ELSE f[m \div 1000] \o Between(group) \o Three(m % 1000)
Prints(f, n, group) ==
  f = [m \in 0..n |-> Printed(f, m, group)]

LEMMA PrintsAt ==
  ASSUME NEW f, NEW group, NEW n, Prints(f, n, group), NEW m \in 0..n
  PROVE  f[m] = Printed(f, m, group)
BY Zenon DEF Prints

LEMMA PrintsExists == ASSUME NEW group, NEW n \in Nat PROVE \E f : Prints(f, n, group)
<1> DEFINE S == {k \in Nat : \E f : Prints(f, k, group)}
<1>1. 0 \in S
  <2>1. Prints([m \in 0..0 |-> First(0)], 0, group)
    BY DEF Prints, Printed
  <2> QED
    BY <2>1
<1>2. ASSUME NEW k \in Nat, k \in S PROVE k + 1 \in S
  <2>1. PICK f : Prints(f, k, group)
    BY <1>2
  <2> DEFINE last == IF k + 1 < 1000 THEN First(k + 1)
                     ELSE f[(k + 1) \div 1000] \o Between(group) \o Three((k + 1) % 1000)
             g == [m \in 0..(k + 1) |-> IF m <= k THEN f[m] ELSE last]
  <2>2. ASSUME NEW m \in 0..(k + 1)
        PROVE  g[m] = IF m < 1000 THEN First(m)
                      ELSE g[m \div 1000] \o Between(group) \o Three(m % 1000)
    <3>1. m >= 1000 => m \div 1000 \in 0..k
      OBVIOUS
    <3>2. m >= 1000 => g[m \div 1000] = f[m \div 1000]
      BY <3>1
    <3>3. CASE m = k + 1
      <4>1. g[m] = last
        BY <3>3
      <4> HIDE DEF g
      <4> QED
        BY <3>2, <3>3, <4>1
    <3>4. CASE m <= k
      <4>1. g[m] = f[m]
        BY <3>4
      <4>2. f[m] = IF m < 1000 THEN First(m)
                   ELSE f[m \div 1000] \o Between(group) \o Three(m % 1000)
        BY <2>1, <3>4 DEF Prints, Printed
      <4> HIDE DEF g
      <4> QED
        BY <3>2, <4>1, <4>2
    <3> QED
      BY <3>3, <3>4
  <2>3. g = [m \in 0..(k + 1) |-> g[m]]
    OBVIOUS
  <2> HIDE DEF g
  <2>4. Prints(g, k + 1, group)
    BY <2>2, <2>3 DEF Prints, Printed
  <2> QED
    BY <2>4
<1> HIDE DEF S
<1>3. n \in S
  BY <1>1, <1>2, SetInduction
<1> QED
  BY <1>3 DEF S

(* A shorter range makes no difference to what is printed. *)
LEMMA PrintsAgree ==
  ASSUME NEW group, NEW f, NEW g, NEW j \in Nat, NEW n \in Nat, j <= n,
         Prints(f, j, group), Prints(g, n, group)
  PROVE  f[j] = g[j]
<1> DEFINE S == {i \in Nat : \A m \in 0..i : m <= j => f[m] = g[m]}
<1>1. 0 \in S
  <2>1. f[0] = First(0) /\ g[0] = First(0)
    BY DEF Prints, Printed
  <2> QED
    BY <2>1
<1>2. ASSUME NEW i \in Nat, i \in S PROVE i + 1 \in S
  <2> SUFFICES ASSUME i + 1 <= j PROVE f[i + 1] = g[i + 1]
    BY <1>2
  <2>0. i + 1 \in 0..j /\ i + 1 \in 0..n
    OBVIOUS
  <2> DEFINE q == (i + 1) \div 1000
  <2>1. i + 1 >= 1000 => q \in 0..i
    OBVIOUS
  <2>2. i + 1 >= 1000 => f[q] = g[q]
    BY <1>2, <2>1
  <2> HIDE DEF q
  <2>3. f[i + 1] = IF i + 1 < 1000 THEN First(i + 1)
                   ELSE f[q] \o Between(group) \o Three((i + 1) % 1000)
    BY <2>0 DEF Prints, Printed, q
  <2>4. g[i + 1] = IF i + 1 < 1000 THEN First(i + 1)
                   ELSE g[q] \o Between(group) \o Three((i + 1) % 1000)
    BY <2>0 DEF Prints, Printed, q
  <2> QED
    BY <2>2, <2>3, <2>4
<1> HIDE DEF S
<1>3. j \in S
  BY <1>1, <1>2, SetInduction
<1> QED
  BY <1>3 DEF S

LEMMA WholeIsPrinted ==
  ASSUME NEW n \in Nat, NEW group
  PROVE  \E f : Prints(f, n, group) /\ Whole(n, group) = f[n]
<1> DEFINE f == CHOOSE h : Prints(h, n, group)
<1>1. Prints(f, n, group)
  BY PrintsExists
<1>2. Whole(n, group) = f[n]
  BY DEF Whole, Prints, Printed
<1> QED
  BY <1>1, <1>2

Below1000 == 0..999

LEMMA WholeOfFew == ASSUME NEW n \in Below1000, NEW group PROVE Whole(n, group) = First(n)
<1>1. n \in Nat /\ n \in 0..n /\ n < 1000
  BY DEF Below1000
<1>2. PICK f : Prints(f, n, group) /\ Whole(n, group) = f[n]
  BY <1>1, WholeIsPrinted
<1>3. f[n] = First(n)
  <2>0. n \in 0..n
    BY <1>1
  <2>1. f[n] = Printed(f, n, group)
    BY <1>2, <2>0, PrintsAt, Zenon
  <2> QED
    BY <1>1, <2>1 DEF Printed
<1> QED
  BY <1>2, <1>3

(* A number of more than three digits is one of thousands and a rest. *)
Many(n) == n \in Nat /\ n >= 1000
Thousands(n) == n \div 1000
Rest(n) == n % 1000
Join(q, r) == 1000 * q + r

LEMMA Parts ==
  ASSUME NEW n, Many(n)
  PROVE  /\ Thousands(n) \in Nat /\ Rest(n) \in Below1000
         /\ Thousands(n) < n /\ Join(Thousands(n), Rest(n)) = n
<1>1. n \in Nat /\ n >= 1000
  BY DEF Many
<1>2. n \div 1000 \in Nat /\ n % 1000 \in 0..999 /\ n \div 1000 < n
  BY <1>1
<1>3. 1000 * (n \div 1000) + (n % 1000) = n
  BY <1>1
<1> QED
  BY <1>2, <1>3 DEF Thousands, Rest, Join, Below1000

LEMMA WholeOfMany ==
  ASSUME NEW n, Many(n), NEW group
  PROVE  Whole(n, group) = Whole(Thousands(n), group) \o Between(group) \o Three(Rest(n))
<1> DEFINE q == n \div 1000
           end == Three(n % 1000)
<1>0. n \in Nat /\ n >= 1000
  BY DEF Many
<1>1. q \in Nat /\ q <= n
  BY <1>0
<1>2. PICK f : Prints(f, n, group) /\ Whole(n, group) = f[n]
  BY <1>0, WholeIsPrinted
<1>3. PICK g : Prints(g, q, group) /\ Whole(q, group) = g[q]
  BY <1>1, WholeIsPrinted
<1>4. f[q] = g[q]
  BY <1>0, <1>1, <1>2, <1>3, PrintsAgree
<1>5. f[n] = f[q] \o Between(group) \o end
  <2>1. n \in 0..n
    BY <1>0
  <2>2. f[n] = Printed(f, n, group)
    BY <1>2, <2>1, PrintsAt, Zenon
  <2>3. f[n] = IF n < 1000 THEN First(n) ELSE f[q] \o Between(group) \o end
    BY <2>2 DEF Printed
  <2> HIDE DEF q, end
  <2>4. ~(n < 1000)
    BY <1>0
  <2> QED
    BY <2>3, <2>4
<1> HIDE DEF q, end
<1>6. Whole(n, group) = f[n] /\ Whole(q, group) = f[q]
  BY <1>2, <1>3, <1>4
<1>7. Whole(n, group) = Whole(q, group) \o Between(group) \o end
  BY <1>5, <1>6
<1> QED
  BY <1>7 DEF q, end, Thousands, Rest

-----------------------------------------------------------------------------
(* What the bank writes is what the code reads. *)

Char == Digit \cup Separator

LEMMA BetweenType ==
  ASSUME NEW group \in Group
  PROVE  /\ Between(group) \in Seq(Char) /\ Len(Between(group)) \in 0..1
         /\ \A i \in 1..Len(Between(group)) : Between(group)[i] \notin Digit
<1>1. group # NoGroup => group \in Char /\ group \notin Digit
  BY DEF Separator, Comma, Dot, Digit, Group, NoGroup, Char
<1>2. CASE group = NoGroup
  BY <1>2 DEF Between
<1>3. CASE group # NoGroup
  BY <1>1, <1>3 DEF Between
<1> QED
  BY <1>2, <1>3

ThreeDigits(s, m) ==
  /\ s \in Seq(Char) /\ Len(s) = 3 /\ \A i \in 1..3 : s[i] \in Digit
  /\ 100 * s[1] + 10 * s[2] + s[3] = m

LEMMA ThreeType == ASSUME NEW m \in Below1000 PROVE ThreeDigits(Three(m), m)
<1> DEFINE tens == m \div 10
           hundreds == m \div 100
<1>0. m \in 0..999
  BY DEF Below1000
<1>1. tens \in Int /\ hundreds \in 0..9 /\ tens % 10 \in 0..9 /\ m % 10 \in 0..9
  BY <1>0
<1>2. tens % 10 = tens - 10 * hundreds /\ m % 10 = m - 10 * tens
  BY <1>0
<1>3. hundreds % 10 = hundreds
  BY <1>1
<1>4. Three(m) = <<hundreds, tens % 10, m % 10>>
  BY <1>3 DEF Three
<1> HIDE DEF tens, hundreds
<1>5. hundreds \in Char /\ tens % 10 \in Char /\ m % 10 \in Char
  BY <1>1 DEF Char, Digit
<1>6. 100 * hundreds + 10 * (tens % 10) + (m % 10) = m
  BY <1>0, <1>1, <1>2
<1>7. /\ Three(m) \in Seq(Char) /\ Len(Three(m)) = 3 /\ Three(m)[1] = hundreds
      /\ Three(m)[2] = tens % 10 /\ Three(m)[3] = m % 10
  BY <1>4, <1>5
<1> DEFINE s == Three(m)
<1>8. /\ s \in Seq(Char) /\ Len(s) = 3 /\ s[1] \in Digit /\ s[2] \in Digit /\ s[3] \in Digit
      /\ 100 * s[1] + 10 * s[2] + s[3] = m
  BY <1>1, <1>6, <1>7 DEF Digit
<1> HIDE DEF s
<1>9. \A i \in 1..3 : s[i] \in Digit
  BY <1>8
<1>10. ThreeDigits(s, m)
  BY <1>8, <1>9, Zenon DEF ThreeDigits
<1> QED
  BY <1>10 DEF s

(* A text of at least one character that reads as n; its third character   *)
(* from the end, if there are more than three, is a digit.                 *)
Spells(s, n) ==
  /\ s \in Seq(Char) /\ Len(s) \in Nat \ {0} /\ Number(s, Len(s)) = n
  /\ Len(s) <= 3 \/ s[Len(s) - 2] \in Digit

LEMMA FirstSpells == ASSUME NEW n \in Below1000 PROVE Spells(First(n), n)
<1> DEFINE s == First(n)
<1>0. n \in 0..999
  BY DEF Below1000
<1>1. CASE n < 10
  <2>1. s = <<n>> /\ n \in Digit /\ n \in Char
    BY <1>0, <1>1 DEF First, Digit, Char
  <2>2. s \in Seq(Char) /\ Len(s) = 1 /\ s[1] = n
    BY <2>1
  <2>3. Number(s, 0) = 0
    BY NumberOfNone
  <2>4. Number(s, 0 + 1) = IF s[0 + 1] \in Digit THEN 10 * Number(s, 0) + s[0 + 1]
                           ELSE Number(s, 0)
    BY NumberOfNext
  <2> HIDE DEF s
  <2>5. Number(s, 1) = n
    <3>1. n \in Int /\ s[1] = n /\ s[1] \in Digit
      BY <1>0, <2>1, <2>2
    <3>2. Number(s, 1) = IF s[1] \in Digit THEN 10 * Number(s, 0) + s[1] ELSE Number(s, 0)
      BY <2>4
    <3> QED
      BY <2>3, <3>1, <3>2
  <2> QED
    BY <2>2, <2>5 DEF Spells, s
<1>2. CASE n >= 10 /\ n < 100
  <2>1. s = <<n \div 10, n % 10>> /\ n \div 10 \in 0..9 /\ n % 10 \in 0..9
    BY <1>0, <1>2 DEF First
  <2>2. n \div 10 \in Char /\ n % 10 \in Char
    BY <2>1 DEF Char, Digit
  <2>3. s \in Seq(Char) /\ Len(s) = 2 /\ s[1] = n \div 10 /\ s[2] = n % 10
    BY <2>1, <2>2
  <2> HIDE DEF s
  <2>4. Number(s, 0) = 0
    BY NumberOfNone
  <2>5. Number(s, 0 + 1) = IF s[0 + 1] \in Digit THEN 10 * Number(s, 0) + s[0 + 1]
                           ELSE Number(s, 0)
    BY NumberOfNext
  <2>6. Number(s, 1) = n \div 10
    BY <2>1, <2>3, <2>4, <2>5 DEF Digit
  <2>7. Number(s, 1 + 1) = IF s[1 + 1] \in Digit THEN 10 * Number(s, 1) + s[1 + 1]
                           ELSE Number(s, 1)
    BY NumberOfNext
  <2>8. Number(s, 2) = 10 * (n \div 10) + (n % 10)
    BY <2>1, <2>3, <2>6, <2>7 DEF Digit
  <2>9. 10 * (n \div 10) + (n % 10) = n
    BY <1>0
  <2> QED
    BY <2>3, <2>8, <2>9 DEF Spells, s
<1>3. CASE n >= 100
  <2>1. s = Three(n)
    BY <1>0, <1>3 DEF First
  <2> HIDE DEF s
  <2>2. ThreeDigits(s, n)
    BY <2>1, ThreeType, Zenon
  <2>3. Number(s, 0) = 0
    BY NumberOfNone
  <2>4. PICK k \in Nat : k = 0
    OBVIOUS
  <2>5. s[k + 1] \in Digit /\ s[k + 2] \in Digit /\ s[k + 3] \in Digit /\ Number(s, k) \in Nat
    BY <2>2, <2>3, <2>4 DEF ThreeDigits
  <2>6. Number(s, k + 3) = 1000 * Number(s, k) + 100 * s[k + 1] + 10 * s[k + 2] + s[k + 3]
    BY <2>5, NumberOfGroup
  <2>7. Number(s, 3) = 0 + 100 * s[1] + 10 * s[2] + s[3]
    BY <2>3, <2>4, <2>6
  <2>8. Number(s, 3) = n
    BY <2>2, <2>7 DEF ThreeDigits, Digit
  <2> QED
    BY <2>2, <2>8 DEF ThreeDigits, Spells, s
<1> QED
  BY <1>0, <1>1, <1>2, <1>3

(* One group more. *)
LEMMA GroupSpells ==
  ASSUME NEW t, NEW q \in Nat, Spells(t, q), NEW m \in Below1000,
         NEW group \in Group
  PROVE  \A s : s = t \o Between(group) \o Three(m) => Spells(s, Join(q, m))
<1> DEFINE b == Between(group)
           u == t \o b
           v == Three(m)
           s == u \o v
<1>1. b \in Seq(Char) /\ Len(b) \in 0..1 /\ \A i \in 1..Len(b) : b[i] \notin Digit
  BY BetweenType
<1>2. t \in Seq(Char) /\ Len(t) \in Nat \ {0} /\ Number(t, Len(t)) = q
  BY DEF Spells
<1> HIDE DEF b
<1>3. /\ u \in Seq(Char) /\ Len(u) = Len(t) + Len(b)
      /\ \A i \in 1..(Len(t) + Len(b)) : u[i] = IF i <= Len(t) THEN t[i] ELSE b[i - Len(t)]
  BY <1>1, <1>2, ConcatProperties
<1> HIDE DEF u
<1>4. Number(u, Len(t)) = q
  <2>1. \A i \in 1..Len(t) : u[i] = t[i]
    BY <1>1, <1>2, <1>3
  <2> QED
    BY <1>2, <2>1, NumberOfPrefix
<1>5. Number(u, Len(u)) = q
  <2>1. CASE Len(b) = 0
    BY <1>2, <1>3, <1>4, <2>1
  <2>2. CASE Len(b) = 1
    <3>1. Len(u) = Len(t) + 1 /\ u[Len(t) + 1] = b[1] /\ b[1] \notin Digit
      BY <1>1, <1>2, <1>3, <2>2
    <3> QED
      BY <1>2, <1>4, <3>1, NumberOfNext
  <2> QED
    BY <1>1, <2>1, <2>2
<1>0. ThreeDigits(v, m)
  BY ThreeType, Zenon
<1> HIDE DEF v
<1>6. /\ v \in Seq(Char) /\ Len(v) = 3 /\ \A i \in 1..3 : v[i] \in Digit
      /\ 100 * v[1] + 10 * v[2] + v[3] = m
  BY <1>0 DEF ThreeDigits
<1>7. Len(u) \in Nat \ {0}
  BY <1>1, <1>2, <1>3
<1>8. /\ s \in Seq(Char) /\ Len(s) = Len(u) + Len(v)
      /\ \A i \in 1..(Len(u) + Len(v)) : s[i] = IF i <= Len(u) THEN u[i] ELSE v[i - Len(u)]
  <2>1. u \in Seq(Char) /\ v \in Seq(Char)
    BY <1>3, <1>6
  <2> QED
    BY <2>1, ConcatProperties
<1> HIDE DEF s
<1>9. Number(s, Len(u)) = q
  <2>1. \A i \in 1..Len(u) : s[i] = u[i]
    BY <1>6, <1>7, <1>8
  <2> QED
    BY <1>5, <1>7, <2>1, NumberOfPrefix
<1>10. s[Len(u) + 1] = v[1] /\ s[Len(u) + 2] = v[2] /\ s[Len(u) + 3] = v[3]
  <2>1. ASSUME NEW i \in 1..3 PROVE s[Len(u) + i] = v[i]
    <3>1. Len(u) + i \in 1..(Len(u) + Len(v)) /\ ~(Len(u) + i <= Len(u))
      BY <1>6, <1>7
    <3>2. (Len(u) + i) - Len(u) = i
      BY <1>7
    <3>3. \A j \in 1..(Len(u) + Len(v)) : s[j] = IF j <= Len(u) THEN u[j] ELSE v[j - Len(u)]
      BY <1>8
    <3>4. s[Len(u) + i] = v[(Len(u) + i) - Len(u)]
      BY <3>1, <3>3, Zenon
    <3> QED
      BY <3>2, <3>4
  <2> QED
    BY <2>1
<1>11. Number(s, Len(u) + 3) = 1000 * q + m
  <2>1. PICK k \in Nat : k = Len(u)
    BY <1>7
  <2>2. s[k + 1] = v[1] /\ s[k + 2] = v[2] /\ s[k + 3] = v[3] /\ Number(s, k) = q
    BY <1>9, <1>10, <2>1
  <2>3. s[k + 1] \in Digit /\ s[k + 2] \in Digit /\ s[k + 3] \in Digit /\ Number(s, k) \in Nat
    BY <1>6, <2>2
  <2>4. Number(s, k + 3) = 1000 * Number(s, k) + 100 * s[k + 1] + 10 * s[k + 2] + s[k + 3]
    BY <2>3, NumberOfGroup
  <2>5. Number(s, k + 3) = 1000 * q + 100 * v[1] + 10 * v[2] + v[3]
    BY <2>2, <2>4
  <2>6. v[1] \in Int /\ v[2] \in Int /\ v[3] \in Int
    BY <1>6 DEF Digit
  <2>7. 100 * v[1] + 10 * v[2] + v[3] = m
    BY <1>6
  <2>8. 1000 * q + 100 * v[1] + 10 * v[2] + v[3] = 1000 * q + m
    BY <2>6, <2>7
  <2> QED
    BY <2>1, <2>5, <2>8
<1>12. Len(s) = Len(u) + 3 /\ s[Len(s) - 2] \in Digit
  BY <1>6, <1>7, <1>8, <1>10
<1>13. Spells(s, 1000 * q + m)
  BY <1>7, <1>8, <1>11, <1>12 DEF Spells
<1> QED
  BY <1>13 DEF s, u, v, b, Join

LEMMA WholeSpells ==
  ASSUME NEW n \in Nat, NEW group \in Group
  PROVE  Spells(Whole(n, group), n)
<1> DEFINE S == {i \in Nat : \A m \in 0..i : Spells(Whole(m, group), m)}
<1>0. ASSUME NEW m \in Below1000 PROVE Spells(Whole(m, group), m)
  <2>1. Whole(m, group) = First(m)
    BY WholeOfFew, Zenon
  <2>2. Spells(First(m), m)
    BY FirstSpells, Zenon
  <2> QED
    BY <2>1, <2>2
<1>1. 0 \in S
  <2>1. 0 \in Below1000 /\ 0..0 = {0}
    BY DEF Below1000
  <2>2. Spells(Whole(0, group), 0)
    BY <1>0, <2>1, Zenon
  <2> QED
    BY <2>1, <2>2
<1>2. ASSUME NEW i \in Nat, i \in S PROVE i + 1 \in S
  <2>1. PICK m \in Nat : m = i + 1
    OBVIOUS
  <2>2. CASE m < 1000
    <3>1. m \in Below1000
      BY <2>2 DEF Below1000
    <3>2. Spells(Whole(m, group), m)
      BY <1>0, <3>1, Zenon
    <3> QED
      BY <1>2, <2>1, <3>2
  <2>3. CASE m >= 1000
    <3> DEFINE q == Thousands(m)
               r == Rest(m)
    <3>1. Many(m)
      BY <2>3 DEF Many
    <3>2. q \in Nat /\ r \in Below1000 /\ q < m /\ Join(q, r) = m
      BY <3>1, Parts
    <3>3. Spells(Whole(q, group), q)
      BY <1>2, <2>1, <3>2
    <3>4. Whole(m, group) = Whole(q, group) \o Between(group) \o Three(r)
      BY <3>1, WholeOfMany
    <3> HIDE DEF q, r
    <3>5. Spells(Whole(m, group), Join(q, r))
      BY <3>2, <3>3, <3>4, GroupSpells, Zenon
    <3> QED
      BY <1>2, <2>1, <3>2, <3>5
  <2> QED
    BY <2>1, <2>2, <2>3
<1> HIDE DEF S
<1>3. n \in S
  BY <1>1, <1>2, SetInduction
<1> QED
  BY <1>3 DEF S

(* Whatever the amount, its separators and its cents, getValueFromText     *)
(* reads what the bank has written: the cents as cents, a last group of    *)
(* thousands as thousands.                                                 *)
THEOREM ValueIsWritten ==
  ASSUME NEW n \in Nat, NEW c \in Cents,
         NEW group \in Group, NEW mark \in Separator
  PROVE  Value(AmountText(n, c, group, mark)) = Hundredths(n, c)
<1> DEFINE w == Whole(n, group)
           s == AmountText(n, c, group, mark)
<1>1. /\ w \in Seq(Char) /\ Len(w) \in Nat \ {0} /\ Number(w, Len(w)) = n
      /\ Len(w) <= 3 \/ w[Len(w) - 2] \in Digit
  BY WholeSpells DEF Spells
<1>2. CASE c = NoCents
  <2>1. s = w
    <3>1. s = w \o <<>>
      BY <1>2 DEF AmountText
    <3> HIDE DEF s, w
    <3> QED
      BY <1>1, <3>1, ConcatEmptySeq
  <2> HIDE DEF s, w
  <2>2. ~HasDecimals(w)
    BY <1>1 DEF HasDecimals, Digit, Separator, Comma, Dot
  <2>3. Value(s) = 100 * n
    BY <1>1, <2>1, <2>2 DEF Value, WithoutDecimal
  <2> QED
    BY <1>2, <2>3 DEF s, Hundredths
<1>3. CASE c \in 0..99
  <2> DEFINE d == <<mark, c \div 10, c % 10>>
  <2>1. c \div 10 \in 0..9 /\ c % 10 \in 0..9 /\ 10 * (c \div 10) + (c % 10) = c
    BY <1>3
  <2>2. c \div 10 \in Char /\ c % 10 \in Char /\ mark \in Char
    BY <2>1 DEF Char, Digit
  <2>3. d \in Seq(Char) /\ Len(d) = 3
    BY <2>2
  <2>4. d[1] = mark /\ d[2] = c \div 10 /\ d[3] = c % 10
    OBVIOUS
  <2>5. s = w \o d
    BY <1>3 DEF AmountText, NoCents
  <2> HIDE DEF d, w, s
  <2>6. /\ Len(s) = Len(w) + Len(d)
        /\ \A i \in 1..(Len(w) + Len(d)) : s[i] = IF i <= Len(w) THEN w[i] ELSE d[i - Len(w)]
    <3>1. w \in Seq(Char) /\ d \in Seq(Char)
      BY <1>1, <2>3
    <3> QED
      BY <2>5, <3>1, ConcatProperties
  <2>7. s[Len(w) + 1] = mark /\ s[Len(w) + 2] = c \div 10 /\ s[Len(w) + 3] = c % 10
    <3>1. ASSUME NEW i \in 1..3 PROVE s[Len(w) + i] = d[i]
      <4>1. Len(w) + i \in 1..(Len(w) + Len(d)) /\ ~(Len(w) + i <= Len(w))
        BY <1>1, <2>3
      <4>2. (Len(w) + i) - Len(w) = i
        BY <1>1
      <4>3. s[Len(w) + i] = d[(Len(w) + i) - Len(w)]
        BY <2>6, <4>1, Zenon
      <4> QED
        BY <4>2, <4>3
    <3> QED
      BY <2>4, <3>1
  <2>8. s[Len(s) - 2] = mark /\ s[Len(s) - 1] = c \div 10 /\ s[Len(s)] = c % 10
    BY <1>1, <2>3, <2>6, <2>7
  <2>9. HasDecimals(s)
    BY <1>1, <2>1, <2>3, <2>6, <2>8 DEF HasDecimals, Digit
  <2>10. Number(s, Len(s) - 3) = n
    <3>1. Len(s) - 3 = Len(w) /\ \A i \in 1..Len(w) : s[i] = w[i]
      BY <1>1, <2>3, <2>6
    <3> QED
      BY <1>1, <3>1, NumberOfPrefix
  <2>11. Value(s) = 100 * n + 10 * (c \div 10) + (c % 10)
    BY <2>8, <2>9, <2>10 DEF Value, WithDecimal
  <2>12. Value(s) = 100 * n + c
    BY <1>3, <2>1, <2>11
  <2> QED
    BY <1>3, <2>12 DEF s, NoCents, Hundredths
<1> QED
  BY <1>2, <1>3 DEF Cents
=============================================================================
