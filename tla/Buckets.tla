------------------------------- MODULE Buckets -------------------------------
(***************************************************************************)
(* utilslices.Split, which deals a slice out to the workers of a pool, and *)
(* the number of workers a pool starts.  Split collects its buckets from a *)
(* map, in no order; the workers are alike, so any order will do.          *)
(***************************************************************************)
EXTENDS Integers, Sequences

(* min(runtime.NumCPU(), len(s)) *)
Routines(cpus, s) == IF cpus <= Len(s) THEN cpus ELSE Len(s)

(* How many of the positions 1..len go to bucket b of n. *)
BucketLen(n, b, len) == ((len - b) \div n) + 1

(* Mutant: an element goes to its bucket and, at the turn, to the next one. *)
SplitTwice(n, s) ==
  [b \in 1..n |-> [i \in 1..BucketLen(n, b, Len(s)) |->
                     s[IF i = 1 THEN 1 ELSE b + n * (i - 1)]]]

(* Position k goes to bucket (k - 1) % n, behind what is there; for as many *)
(* buckets as elements or fewer none is empty.                              *)
Split(n, s) ==
  [b \in 1..n |-> [i \in 1..BucketLen(n, b, Len(s)) |-> s[b + n * (i - 1)]]]

(* Where Split puts position k. *)
BucketOf(n, k) == ((k - 1) % n) + 1
PlaceOf(n, k)  == ((k - 1) \div n) + 1
=============================================================================
