---------------------------- MODULE NumberLemmas ----------------------------
(***************************************************************************)
(* Least and greatest elements of sets of numbers, for the proofs.         *)
(***************************************************************************)
EXTENDS Integers, WellFoundedInduction, TLAPS

\* A set of numbers that is not empty has a least one.
LEMMA LeastNumber ==
  ASSUME NEW S \in SUBSET Nat, S # {}
  PROVE  \E x \in S : \A y \in S : ~ (y < x)
<1> DEFINE R == OpToRel(<, Nat)
<1>1. IsWellFoundedOn(R, Nat)
  BY NatLessThanWellFounded
<1> HIDE DEF R
<1>2. \E x \in S : \A y \in S : ~ (<<y, x>> \in R)
  BY <1>1, WFMin
<1>3. \A x, y \in Nat : x < y => <<x, y>> \in R
  BY DEF R, OpToRel
<1> QED  BY <1>2, <1>3, Zenon

\* A set of positions up to n that is not empty has a last one.
LEMMA LastPosition ==
  ASSUME NEW n \in Nat, NEW S \in SUBSET (1..n), S # {}
  PROVE  \E i \in S : \A j \in S : j <= i
<1> DEFINE D == {n - i : i \in S}
<1>1. D \in SUBSET Nat /\ D # {}
  <2>1. \A i \in S : i \in Int /\ 1 <= i /\ i <= n
    OBVIOUS
  <2>2. \A i \in S : n - i \in Nat
    BY <2>1
  <2>3. PICK i \in S : TRUE
    OBVIOUS
  <2>4. n - i \in D
    BY <2>3
  <2> QED  BY <2>2, <2>4
<1>2. PICK d \in D : \A y \in D : ~ (y < d)
  BY <1>1, LeastNumber
<1>3. PICK i \in S : d = n - i
  BY <1>2
<1>4. \A j \in S : ~ (n - j < n - i)
  BY <1>2, <1>3
<1> QED  BY <1>3, <1>4
\* Induction up to n, with the property as a set.
LEMMA InductionTo ==
  ASSUME NEW n \in Nat, NEW S, 0 \in S, \A m \in 0..(n - 1) : m \in S => m + 1 \in S
  PROVE  \A m \in 0..n : m \in S
<1> SUFFICES ASSUME \E m \in 0..n : m \notin S PROVE FALSE
  OBVIOUS
<1> DEFINE Bad == {m \in 0..n : m \notin S}
<1>1. Bad \in SUBSET Nat /\ Bad # {}
  OBVIOUS
<1>2. PICK x \in Bad : \A y \in Bad : ~ (y < x)
  BY <1>1, LeastNumber
<1>3. x # 0 /\ x - 1 \in 0..(n - 1) /\ x - 1 \notin Bad /\ (x - 1) + 1 = x
  BY <1>2
<1> QED  BY <1>2, <1>3

\* f starts with base, and each later value is a step from the one before.
Follows(f, n, base, step) == f[0] = base /\ \A m \in 1..n : f[m] = step[m][f[m - 1]]

\* A function on 0..n can be defined by its first value and by what each value
\* makes of the one before it.
LEMMA RecursionTo ==
  ASSUME NEW n \in Nat, NEW S, NEW base \in S, NEW step \in [1..n -> [S -> S]]
  PROVE  \E f \in [0..n -> S] : Follows(f, n, base, step)
<1> DEFINE Upto(k, f) == f[0] = base /\ \A m \in 1..k : f[m] = step[m][f[m - 1]]
           D == {k \in 0..n : \E f \in [0..n -> S] : Upto(k, f)}
<1>1. 0 \in D
  <2> DEFINE f == [m \in 0..n |-> base]
  <2>1. f \in [0..n -> S] /\ 0 \in 0..n /\ f[0] = base
    OBVIOUS
  <2> HIDE DEF f
  <2>2. Upto(0, f)
    BY <2>1
  <2> QED  BY <2>1, <2>2
<1>2. ASSUME NEW k \in 0..(n - 1), k \in D PROVE k + 1 \in D
  <2>1. PICK f \in [0..n -> S] : Upto(k, f)
    BY <1>2
  <2> DEFINE v == step[k + 1][f[k]]
             g == [f EXCEPT ![k + 1] = v]
  <2>2. v \in S /\ k + 1 \in 0..n
    OBVIOUS
  <2>3. g \in [0..n -> S] /\ g[k + 1] = v /\ \A m \in 0..k : g[m] = f[m]
    BY <2>2
  <2> HIDE DEF g
  <2>4. ASSUME NEW m \in 1..(k + 1) PROVE g[m] = step[m][g[m - 1]]
    <3>1. CASE m = k + 1
      <4>1. m - 1 = k /\ k \in 0..k /\ g[m - 1] = f[k]
        BY <2>3, <3>1
      <4> QED  BY <2>3, <3>1, <4>1
    <3>2. CASE m # k + 1
      BY <2>1, <2>3, <3>2
    <3> QED  BY <3>1, <3>2
  <2>5. Upto(k + 1, g)
    BY <2>1, <2>3, <2>4
  <2> QED  BY <2>2, <2>3, <2>5
<1> HIDE DEF D
<1>3. \A k \in 0..(n - 1) : k \in D => k + 1 \in D
  BY <1>2
<1>4. \A k \in 0..n : k \in D
  BY <1>1, <1>3, InductionTo
<1>5. n \in D
  BY <1>4
<1> QED  BY <1>5 DEF D, Follows
============================================================================
