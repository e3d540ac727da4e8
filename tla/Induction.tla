----------------------------- MODULE Induction -----------------------------
(***************************************************************************)
(* Induction over natural numbers in a form that needs no operator as a    *)
(* parameter: the property is a set of numbers.  From it, that a function  *)
(* given by a value at 0 and a step from k - 1 to k exists, which is what  *)
(* the loops over paths, chunks and listings are made of;                  *)
(* and induction over sequences.  DifferInOne is for counting.             *)
(***************************************************************************)
EXTENDS Integers, Sequences, FiniteSetTheorems, WellFoundedInduction, TLAPS

\* A set of numbers that is not empty has a least member.
LEMMA LeastNat ==
    ASSUME NEW T \in SUBSET Nat, T # {}
    PROVE  \E x \in T : \A y \in T : x <= y
<1> DEFINE R == OpToRel(<, Nat)
<1>1. IsWellFoundedOn(R, Nat)
  BY NatLessThanWellFounded
<1>2. \A x, y \in Nat : x < y => <<x, y>> \in R
  BY DEF OpToRel
<1> HIDE DEF R
<1>3. PICK x \in T : \A y \in T : ~(<<y, x>> \in R)
  BY <1>1, WFMin
<1>4. \A y \in T : ~(y < x)
  BY <1>2, <1>3
<1>5. \A y \in T : x <= y
  BY <1>4
<1>. QED  BY <1>5

\* Induction: a set that holds 0, and k + 1 with k, holds every number.
LEMMA NatSetInduction ==
    ASSUME NEW S, 0 \in S, \A k \in Nat : k \in S => k + 1 \in S
    PROVE  Nat \subseteq S
<1> SUFFICES ASSUME Nat \ S # {} PROVE FALSE
  OBVIOUS
<1>1. PICK x \in Nat \ S : \A y \in Nat \ S : x <= y
  BY LeastNat
<1>2. x # 0 /\ x - 1 \in Nat /\ ~(x <= x - 1) /\ x = (x - 1) + 1
  BY <1>1
<1>3. x - 1 \in S
  BY <1>1, <1>2
<1>. QED  BY <1>1, <1>2, <1>3

\* The same up to a bound n.
LEMMA UpToInduction ==
    ASSUME NEW n \in Nat, NEW S, 0 \in S, \A k \in 1..n : k - 1 \in S => k \in S
    PROVE  0..n \subseteq S
<1> DEFINE T == {k \in Nat : k <= n => k \in S}
<1>1. 0 \in T
  OBVIOUS
<1>2. \A k \in Nat : k \in T => k + 1 \in T
  <2> SUFFICES ASSUME NEW k \in Nat, k \in T, k + 1 <= n PROVE k + 1 \in S
    OBVIOUS
  <2>1. k \in S /\ k + 1 \in 1..n /\ (k + 1) - 1 = k
    OBVIOUS
  <2>. QED  BY <2>1
<1> HIDE DEF T
<1>3. Nat \subseteq T
  BY <1>1, <1>2, NatSetInduction
<1>. QED  BY <1>3 DEF T

\* D gives a step of a recursion over V, at 1 to n.
StepsIn(D, V, n) == D \in [V \X (1..n) -> V]

\* f begins with c and goes on by D up to n.
Recursion(f, c, D, V, n) ==
    /\ f \in [0..n -> V]
    /\ f[0] = c
    /\ \A k \in 1..n : f[k] = D[<<f[k - 1], k>>]

\* A function with a given value at 0 and a given step exists.
LEMMA RecursionExists ==
    ASSUME NEW n \in Nat, NEW V, NEW c \in V, NEW D, StepsIn(D, V, n)
    PROVE  \E f : Recursion(f, c, D, V, n)
<1> USE DEF StepsIn
<1> DEFINE S == {m \in 0..n : \E f \in [0..m -> V] :
                    f[0] = c /\ \A k \in 1..m : f[k] = D[<<f[k - 1], k>>]}
<1>1. 0 \in S
  <2> DEFINE f == [k \in 0..0 |-> c]
  <2>1. f \in [0..0 -> V] /\ f[0] = c /\ \A k \in 1..0 : f[k] = D[<<f[k - 1], k>>]
    OBVIOUS
  <2>2. 0 \in 0..n
    OBVIOUS
  <2>. QED  BY <2>1, <2>2
<1>2. ASSUME NEW m \in 1..n, m - 1 \in S
      PROVE  m \in S
  <2>1. PICK f \in [0..(m - 1) -> V] :
            f[0] = c /\ \A k \in 1..(m - 1) : f[k] = D[<<f[k - 1], k>>]
    BY <1>2
  <2> DEFINE g == [k \in 0..m |-> IF k = m THEN D[<<f[m - 1], m>>] ELSE f[k]]
  <2>2. f[m - 1] \in V
    OBVIOUS
  <2>3. D[<<f[m - 1], m>>] \in V
    BY <2>2
  <2>4. \A k \in 0..m : k # m => k \in 0..(m - 1)
    OBVIOUS
  <2>5. g \in [0..m -> V]
    BY <2>3, <2>4
  <2>6. \A k \in 0..(m - 1) : g[k] = f[k]
    OBVIOUS
  <2>7. g[0] = c
    BY <2>1, <2>6
  <2>8. ASSUME NEW k \in 1..m PROVE g[k] = D[<<g[k - 1], k>>]
    <3>1. g[k - 1] = f[k - 1]
      BY <2>6
    <3>2. CASE k = m
      <4>1. m \in 0..m
        OBVIOUS
      <4>2. g[m] = D[<<f[m - 1], m>>]
        BY <4>1
      <4> HIDE DEF g
      <4>. QED  BY <4>2, <3>1, <3>2
    <3>3. CASE k # m
      <4>1. k \in 1..(m - 1) /\ k \in 0..(m - 1)
        BY <3>3
      <4>. QED  BY <4>1, <3>1, <2>1, <2>6
    <3>. QED  BY <3>2, <3>3
  <2>9. m \in 0..n
    OBVIOUS
  <2> HIDE DEF g
  <2>. QED  BY <2>5, <2>7, <2>8, <2>9
<1> HIDE DEF S
<1>3. 0..n \subseteq S
  BY <1>1, <1>2, UpToInduction
<1>4. n \in S
  BY <1>3
<1>. QED  BY <1>4 DEF S, Recursion

\* Two finite sets that differ in e only.
LEMMA DifferInOne ==
    ASSUME NEW S, NEW T, NEW e, IsFiniteSet(S), IsFiniteSet(T), S \ {e} = T \ {e}
    PROVE  Cardinality(T) = Cardinality(S) + (IF e \in T THEN 1 ELSE 0)
                                           - (IF e \in S THEN 1 ELSE 0)
<1>1. Cardinality(S) \in Nat /\ Cardinality(T) \in Nat
  BY FS_CardinalityType
<1>2. Cardinality(S \ {e}) = IF e \in S THEN Cardinality(S) - 1 ELSE Cardinality(S)
  BY FS_RemoveElement
<1>3. Cardinality(T \ {e}) = IF e \in T THEN Cardinality(T) - 1 ELSE Cardinality(T)
  BY FS_RemoveElement
<1> DEFINE s == Cardinality(S)
           t == Cardinality(T)
           u == Cardinality(S \ {e})
<1>4. u = IF e \in S THEN s - 1 ELSE s
  BY <1>2
<1>5. u = IF e \in T THEN t - 1 ELSE t
  BY <1>3
<1>6. s \in Nat /\ t \in Nat
  BY <1>1
<1> HIDE DEF s, t, u
<1>7. t = s + (IF e \in T THEN 1 ELSE 0) - (IF e \in S THEN 1 ELSE 0)
  BY <1>4, <1>5, <1>6
<1>. QED  BY <1>7 DEF s, t

\* A sequence is empty or a shorter one with an element behind it.
LEMMA EmptyOrAppend ==
    ASSUME NEW T, NEW q \in Seq(T), q # <<>>
    PROVE  \E r \in Seq(T), x \in T : q = Append(r, x) /\ Len(q) = Len(r) + 1
<1> DEFINE r == [k \in 1..(Len(q) - 1) |-> q[k]]
           x == q[Len(q)]
<1>1. Len(q) \in Nat /\ Len(q) # 0 /\ Len(q) - 1 \in Nat
  OBVIOUS
<1>2. r \in Seq(T) /\ Len(r) = Len(q) - 1 /\ x \in T
  <2>1. \A k \in 1..(Len(q) - 1) : k \in 1..Len(q) /\ q[k] \in T
    BY <1>1
  <2>2. r \in Seq(T)
    BY <1>1, <2>1
  <2>3. Len(r) = Len(q) - 1
    BY <1>1
  <2>4. x \in T
    BY <1>1
  <2>. QED  BY <2>2, <2>3, <2>4
<1>3. \A k \in 1..Len(r) : r[k] = q[k]
  BY <1>1
<1>4. Append(r, x) \in Seq(T) /\ Len(Append(r, x)) = Len(q)
  BY <1>1, <1>2
<1> HIDE DEF r
<1>5. ASSUME NEW k \in 1..Len(q) PROVE Append(r, x)[k] = q[k]
  <2>1. CASE k = Len(q)
    <3>1. k = Len(r) + 1
      BY <1>1, <1>2, <2>1
    <3>. QED  BY <1>2, <2>1, <3>1
  <2>2. CASE k # Len(q)
    <3>1. k \in 1..Len(r)
      BY <1>1, <1>2, <2>2
    <3>. QED  BY <1>2, <1>3, <3>1
  <2>. QED  BY <2>1, <2>2
<1> HIDE DEF x
<1>6. Append(r, x) = q
  BY <1>4, <1>5
<1>. QED  BY <1>1, <1>2, <1>6

\* Induction over sequences: a set that holds the empty one, and with each its
\* extensions by one element, holds them all.
LEMMA SeqInduction ==
    ASSUME NEW T, NEW S, <<>> \in S, \A q \in Seq(T), x \in T : q \in S => Append(q, x) \in S
    PROVE  Seq(T) \subseteq S
<1> DEFINE N == {n \in Nat : \A q \in Seq(T) : Len(q) = n => q \in S}
<1>1. 0 \in N
  <2>1. \A q \in Seq(T) : Len(q) = 0 => q = <<>>
    OBVIOUS
  <2>. QED  BY <2>1
<1>2. ASSUME NEW n \in Nat, n \in N PROVE n + 1 \in N
  <2> SUFFICES ASSUME NEW q \in Seq(T), Len(q) = n + 1 PROVE q \in S
    OBVIOUS
  <2>1. q # <<>>
    OBVIOUS
  <2>2. PICK r \in Seq(T), x \in T : q = Append(r, x) /\ Len(q) = Len(r) + 1
    BY <2>1, EmptyOrAppend
  <2>3. Len(r) = n
    BY <2>2
  <2>4. r \in S
    BY <1>2, <2>3
  <2>. QED  BY <2>2, <2>4
<1> HIDE DEF N
<1>3. Nat \subseteq N
  BY <1>1, <1>2, NatSetInduction
<1>4. \A q \in Seq(T) : Len(q) \in N
  BY <1>3
<1>. QED  BY <1>4 DEF N
=============================================================================
