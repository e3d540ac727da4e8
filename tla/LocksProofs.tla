---------------------------- MODULE LocksProofs ----------------------------
(***************************************************************************)
(* Proofs about Locks, for any files, processes and kinds of lock and any  *)
(* bounds: what compacting a Vec leaves, what a grant, an unlock and a     *)
(* close do to the records of a file, the invariants, and that the records *)
(* implement ByteLocks.                                                    *)
(***************************************************************************)
EXTENDS Locks, FiniteSetTheorems, TLAPS

-----------------------------------------------------------------------------
(* Compact.                                                                *)

Below(S, x) == {y \in S : y < x}

\* Of two elements the larger one has more elements below it.
LEMMA RankGrows ==
    ASSUME NEW S \in SUBSET Nat, IsFiniteSet(S), NEW x \in S, NEW z \in S, x < z
    PROVE  Cardinality(Below(S, x)) < Cardinality(Below(S, z))
<1>1. /\ IsFiniteSet(Below(S, x)) /\ IsFiniteSet(Below(S, z))
      /\ Cardinality(Below(S, x)) \in Nat /\ Cardinality(Below(S, z)) \in Nat
  <2>1. Below(S, x) \in SUBSET S /\ Below(S, z) \in SUBSET S
    BY DEF Below
  <2>. QED  BY <2>1, FS_Subset, FS_CardinalityType
<1>2. x \notin Below(S, x)
  BY DEF Below
<1>3. Below(S, x) \cup {x} \in SUBSET Below(S, z)
  <2>1. \A y \in S : y \in Int
    OBVIOUS
  <2>2. \A y \in S : y < x => y < z
    BY <2>1
  <2>. QED  BY <2>2 DEF Below
<1>4. Cardinality(Below(S, x) \cup {x}) = Cardinality(Below(S, x)) + 1
  BY <1>1, <1>2, FS_AddElement
<1>5. Cardinality(Below(S, x) \cup {x}) <= Cardinality(Below(S, z))
  BY <1>1, <1>3, FS_Subset
<1>. QED  BY <1>1, <1>4, <1>5

\* The elements of a finite set of numbers have the ranks 0 to its size - 1.
LEMMA RankBijective ==
    ASSUME NEW S \in SUBSET Nat, IsFiniteSet(S)
    PROVE  LET rank == [x \in S |-> Cardinality(Below(S, x))]
           IN  /\ rank \in Injection(S, 0..(Cardinality(S) - 1))
               /\ rank \in Surjection(S, 0..(Cardinality(S) - 1))
<1> DEFINE rank == [x \in S |-> Cardinality(Below(S, x))]
           T == 0..(Cardinality(S) - 1)
<1>1. Cardinality(S) \in Nat
  BY FS_CardinalityType
<1>2. ASSUME NEW x \in S PROVE Cardinality(Below(S, x)) \in T
  <2>1. /\ Below(S, x) \in SUBSET S /\ Below(S, x) # S
    BY DEF Below
  <2>2. IsFiniteSet(Below(S, x)) /\ Cardinality(Below(S, x)) <= Cardinality(S)
           /\ Cardinality(Below(S, x)) # Cardinality(S)
    BY <2>1, FS_Subset
  <2>3. Cardinality(Below(S, x)) \in Nat
    BY <2>2, FS_CardinalityType
  <2>. QED  BY <1>1, <2>2, <2>3
<1>3. rank \in [S -> T]
  BY <1>2
<1>4. ASSUME NEW x \in S, NEW z \in S, rank[x] = rank[z] PROVE x = z
  <2>1. Cardinality(Below(S, x)) \in Int /\ Cardinality(Below(S, z)) \in Int
    BY <1>2
  <2>2. Cardinality(Below(S, x)) = Cardinality(Below(S, z))
    BY <1>4
  <2>3. ~(x < z) /\ ~(z < x)
    BY <2>1, <2>2, RankGrows
  <2>4. x \in Int /\ z \in Int
    OBVIOUS
  <2>. QED  BY <2>3, <2>4
<1>5. rank \in Injection(S, T)
  BY <1>3, <1>4 DEF Injection, IsInjective
<1>6. IsFiniteSet(T) /\ Cardinality(T) = Cardinality(S)
  <2>1. 0 \in Int /\ Cardinality(S) - 1 \in Int
    BY <1>1
  <2>2. IsFiniteSet(T) /\ Cardinality(T) = IF 0 > Cardinality(S) - 1 THEN 0
                                           ELSE Cardinality(S) - 1 - 0 + 1
    BY <2>1, FS_Interval
  <2>. QED  BY <1>1, <2>2
<1>7. rank \in Surjection(S, T)
  <2> HIDE DEF rank, T
  <2>. QED  BY <1>5, <1>6, FS_Injection
<1>. QED  BY <1>5, <1>7

\* The k-th element is an element, of rank k - 1, for every k there is.
LEMMA NthElement ==
    ASSUME NEW S \in SUBSET Nat, IsFiniteSet(S), NEW k \in 1..Cardinality(S)
    PROVE  Nth(S, k) \in S
<1> DEFINE rank == [x \in S |-> Cardinality(Below(S, x))]
<1>1. Cardinality(S) \in Nat
  BY FS_CardinalityType
<1>2. rank \in Surjection(S, 0..(Cardinality(S) - 1))
  BY RankBijective
<1>3. k - 1 \in 0..(Cardinality(S) - 1)
  BY <1>1
<1>4. PICK x \in S : rank[x] = k - 1
  <2> HIDE DEF rank
  <2>. QED  BY <1>2, <1>3 DEF Surjection
<1>5. Cardinality({y \in S : y < x}) = k - 1
  BY <1>4 DEF Below
<1>. QED  BY <1>5 DEF Nth

\* Every element is the k-th for some k.
LEMMA NthAll ==
    ASSUME NEW S \in SUBSET Nat, IsFiniteSet(S), NEW x \in S
    PROVE  \E k \in 1..Cardinality(S) : Nth(S, k) = x
<1> DEFINE rank == [y \in S |-> Cardinality(Below(S, y))]
           T == 0..(Cardinality(S) - 1)
           k == rank[x] + 1
<1>1. Cardinality(S) \in Nat
  BY FS_CardinalityType
<1>2. rank \in Injection(S, T)
  BY RankBijective
<1>3. rank[x] \in T /\ \A y \in S : rank[y] = rank[x] => y = x
  <2> HIDE DEF rank, T
  <2>. QED  BY <1>2 DEF Injection, IsInjective
<1>4. k \in 1..Cardinality(S) /\ k - 1 = rank[x]
  <2> HIDE DEF rank
  <2>. QED  BY <1>1, <1>3
<1>5. \A y \in S : Cardinality({z \in S : z < y}) = rank[y]
  BY DEF Below
<1>6. Cardinality({z \in S : z < x}) = k - 1
  BY <1>4, <1>5
<1>7. Nth(S, k) \in S /\ Cardinality({z \in S : z < Nth(S, k)}) = k - 1
  <2> HIDE DEF k
  <2>. QED  BY <1>6 DEF Nth
<1>8. Nth(S, k) = x
  <2> HIDE DEF k, rank
  <2>. QED  BY <1>3, <1>4, <1>5, <1>7
<1>. QED  BY <1>4, <1>8

\* Compacting leaves exactly the elements at the positions kept.
LEMMA CompactElements ==
    ASSUME NEW S \in SUBSET Nat, IsFiniteSet(S), NEW f
    PROVE  /\ Cardinality(S) \in Nat
           /\ DOMAIN Compact(f, S) = 1..Cardinality(S)
           /\ \A k \in DOMAIN Compact(f, S) : \E x \in S : Compact(f, S)[k] = f[x]
           /\ \A x \in S : \E k \in DOMAIN Compact(f, S) : Compact(f, S)[k] = f[x]
<1>1. Cardinality(S) \in Nat
  BY FS_CardinalityType
<1>2. DOMAIN Compact(f, S) = 1..Cardinality(S)
  BY DEF Compact
<1>3. \A k \in 1..Cardinality(S) : Compact(f, S)[k] = f[Nth(S, k)]
  BY DEF Compact
<1>4. \A k \in 1..Cardinality(S) : Nth(S, k) \in S
  BY NthElement
<1>5. \A x \in S : \E k \in 1..Cardinality(S) : Nth(S, k) = x
  BY NthAll
<1>. QED  BY <1>1, <1>2, <1>3, <1>4, <1>5

\* ... as a sequence, where the elements kept are of one set.
LEMMA CompactType ==
    ASSUME NEW S \in SUBSET Nat, IsFiniteSet(S), NEW f, NEW R, \A x \in S : f[x] \in R
    PROVE  Compact(f, S) \in Seq(R)
<1>1. Cardinality(S) \in Nat /\ \A k \in 1..Cardinality(S) : f[Nth(S, k)] \in R
  BY FS_CardinalityType, NthElement
<1>. QED  BY <1>1 DEF Compact

-----------------------------------------------------------------------------
(* Ranges, byte by byte.                                                   *)

\* Records as calls within the bounds make them.
Bounded == [namespace : Namespaces, type : Types, owner : Owners,
            start : Bytes, length : Nat]

\* Byte b is in the range of a call.
InRange(s, l, b) == b >= s /\ (l = 0 \/ b < s + l)

LEMMA Bounds == /\ MaxStart \in Nat /\ MaxLength \in Nat /\ MaxFd \in Nat
                /\ Bytes \subseteq Nat /\ MaxStart + MaxLength \in Bytes
BY LockAssumption DEF Bytes

LEMMA BoundedFields ==
    ASSUME NEW r \in Bounded
    PROVE  /\ r \in Record /\ r.start \in Nat /\ r.start <= MaxStart + MaxLength
           /\ r.length \in Nat
           /\ r.namespace \in Namespaces /\ r.type \in Types /\ r.owner \in Owners
BY Bounds DEF Bounded, Record, Bytes

\* A range that overlaps a record has a byte in common with it, and already
\* among those that TLC looks at: the larger start is one.
LEMMA OverlapByte ==
    ASSUME NEW r \in Bounded, NEW s \in 0..MaxStart, NEW l \in Nat
    PROVE  /\ RecOverlaps(r, s, l) <=> \E b \in Bytes : Covers(r, b) /\ InRange(s, l, b)
           /\ \A b \in Nat : Covers(r, b) /\ InRange(s, l, b) => RecOverlaps(r, s, l)
<1>1. /\ r.start \in Nat /\ r.length \in Nat /\ s \in Nat /\ r.start \in Bytes /\ s \in Bytes
  BY Bounds, BoundedFields DEF Bytes, Bounded
<1>2. ASSUME NEW b \in Nat, Covers(r, b), InRange(s, l, b) PROVE RecOverlaps(r, s, l)
  BY <1>1, <1>2 DEF Covers, InRange, RecOverlaps, Overlaps
<1>3. ASSUME RecOverlaps(r, s, l) PROVE \E b \in Bytes : Covers(r, b) /\ InRange(s, l, b)
  <2>1. CASE r.start <= s
    <3>1. Covers(r, s) /\ InRange(s, l, s)
      BY <1>1, <1>3, <2>1 DEF Covers, InRange, RecOverlaps, Overlaps
    <3>. QED  BY <1>1, <3>1
  <2>2. CASE s < r.start
    <3>1. Covers(r, r.start) /\ InRange(s, l, r.start)
      BY <1>1, <1>3, <2>2 DEF Covers, InRange, RecOverlaps, Overlaps
    <3>. QED  BY <1>1, <3>1
  <2>. QED  BY <1>1, <2>1, <2>2
<1>. QED  BY <1>2, <1>3, Bounds

\* What is left of a record in front of a range that hits it, and behind.
LEMMA Pieces ==
    ASSUME NEW r \in Bounded, NEW s \in 0..MaxStart, NEW l \in 0..MaxLength,
           RecOverlaps(r, s, l)
    PROVE  /\ HasLeft(r, s) =>
                 /\ LeftOf(r, s) \in Bounded
                 /\ LeftOf(r, s).namespace = r.namespace
                 /\ LeftOf(r, s).owner = r.owner /\ LeftOf(r, s).type = r.type
                 /\ \A b \in Nat : Covers(LeftOf(r, s), b) <=> Covers(r, b) /\ b < s
           /\ HasRight(r, s, l) =>
                 /\ RightOf(r, s + l) \in Bounded
                 /\ RightOf(r, s + l).namespace = r.namespace
                 /\ RightOf(r, s + l).owner = r.owner /\ RightOf(r, s + l).type = r.type
                 /\ \A b \in Nat : Covers(RightOf(r, s + l), b) <=> Covers(r, b) /\ b >= s + l
           /\ \A b \in Nat : Covers(r, b) /\ ~InRange(s, l, b)
                 <=> \/ HasLeft(r, s) /\ Covers(r, b) /\ b < s
                     \/ HasRight(r, s, l) /\ Covers(r, b) /\ b >= s + l
<1>1. /\ r.start \in Nat /\ r.start <= MaxStart + MaxLength /\ r.length \in Nat
      /\ r.namespace \in Namespaces /\ r.type \in Types /\ r.owner \in Owners
      /\ s \in Nat /\ l \in Nat /\ s + l \in Bytes /\ MaxStart \in Nat /\ MaxLength \in Nat
      /\ r.start \in Bytes
  BY Bounds, BoundedFields DEF Bytes, Bounded
<1>2. r = [namespace |-> r.namespace, type |-> r.type, owner |-> r.owner,
           start |-> r.start, length |-> r.length]
  BY DEF Bounded
<1>3. ASSUME HasLeft(r, s)
      PROVE  /\ LeftOf(r, s) \in Bounded
             /\ LeftOf(r, s).namespace = r.namespace
             /\ LeftOf(r, s).owner = r.owner /\ LeftOf(r, s).type = r.type
             /\ \A b \in Nat : Covers(LeftOf(r, s), b) <=> Covers(r, b) /\ b < s
  <2>1. LeftOf(r, s) = [namespace |-> r.namespace, type |-> r.type, owner |-> r.owner,
                        start |-> r.start, length |-> s - r.start]
    BY <1>2 DEF LeftOf
  <2>2. s - r.start \in Nat /\ s - r.start # 0
    BY <1>1, <1>3 DEF HasLeft
  <2>3. LeftOf(r, s) \in Bounded
    BY <1>1, <2>1, <2>2 DEF Bounded
  <2>4. ASSUME NEW b \in Nat PROVE Covers(LeftOf(r, s), b) <=> Covers(r, b) /\ b < s
    BY <1>1, <1>3, <2>1, <2>2, RecOverlaps(r, s, l) DEF Covers, RecOverlaps, Overlaps
  <2>. QED  BY <2>1, <2>3, <2>4
<1>4. ASSUME HasRight(r, s, l)
      PROVE  /\ RightOf(r, s + l) \in Bounded
             /\ RightOf(r, s + l).namespace = r.namespace
             /\ RightOf(r, s + l).owner = r.owner /\ RightOf(r, s + l).type = r.type
             /\ \A b \in Nat : Covers(RightOf(r, s + l), b) <=> Covers(r, b) /\ b >= s + l
  <2> DEFINE n == IF r.length = 0 THEN 0 ELSE r.start + r.length - (s + l)
  <2>1. /\ RightOf(r, s + l).start = s + l /\ RightOf(r, s + l).length = n
        /\ RightOf(r, s + l).namespace = r.namespace
        /\ RightOf(r, s + l).owner = r.owner /\ RightOf(r, s + l).type = r.type
    BY <1>1, <1>2 DEF RightOf, Bounded
  <2>2. n \in Nat /\ (n = 0 <=> r.length = 0)
    BY <1>1, <1>4 DEF HasRight
  <2>3. RightOf(r, s + l) \in Bounded
    BY <1>1, <2>2 DEF RightOf, Bounded
  <2>4. ASSUME NEW b \in Nat PROVE Covers(RightOf(r, s + l), b) <=> Covers(r, b) /\ b >= s + l
    BY <1>1, <1>4, <2>1, <2>2, RecOverlaps(r, s, l) DEF Covers, RecOverlaps, Overlaps, HasRight
  <2>. QED  BY <2>1, <2>3, <2>4
<1>5. ASSUME NEW b \in Nat
      PROVE  Covers(r, b) /\ ~InRange(s, l, b)
                 <=> \/ HasLeft(r, s) /\ Covers(r, b) /\ b < s
                     \/ HasRight(r, s, l) /\ Covers(r, b) /\ b >= s + l
  BY <1>1, RecOverlaps(r, s, l) DEF Covers, InRange, HasLeft, HasRight, RecOverlaps, Overlaps
<1>. QED  BY <1>3, <1>4, <1>5

-----------------------------------------------------------------------------
(* The records of one file before and after a call.                        *)

\* What an unlock makes of record r: itself, or one of two pieces.
PieceOf(p, r, ns, o, s, l) ==
    IF Hit(r, ns, o, s, l)
    THEN \/ HasLeft(r, s) /\ p = LeftOf(r, s)
         \/ HasRight(r, s, l) /\ p = RightOf(r, s + l)
    ELSE p = r

\* The records R are the pieces of the records rs, all of them.
Pieced(R, rs, ns, o, s, l) ==
    /\ R \in Seq(Bounded)
    /\ \A k \in DOMAIN R : \E j \in DOMAIN rs : PieceOf(R[k], rs[j], ns, o, s, l)
    /\ \A j \in DOMAIN rs, p \in Bounded :
          PieceOf(p, rs[j], ns, o, s, l) => \E k \in DOMAIN R : R[k] = p

\* An unlock leaves exactly the pieces of the records.
LEMMA ReleasedElements ==
    ASSUME NEW rs \in Seq(Bounded), NEW ns, NEW o,
           NEW s \in 0..MaxStart, NEW l \in 0..MaxLength
    PROVE  Pieced(Released(rs, ns, o, s, l), rs, ns, o, s, l)
<1> DEFINE rec(slot) == rs[(slot + 1) \div 2]
           first(slot) == slot % 2 = 1
           kept == {slot \in 1..(2 * Len(rs)) :
                      IF Hit(rec(slot), ns, o, s, l)
                      THEN IF first(slot) THEN HasLeft(rec(slot), s)
                                          ELSE HasRight(rec(slot), s, l)
                      ELSE first(slot)}
           piece == [slot \in 1..(2 * Len(rs)) |->
                      IF Hit(rec(slot), ns, o, s, l)
                      THEN IF first(slot) THEN LeftOf(rec(slot), s)
                                          ELSE RightOf(rec(slot), s + l)
                      ELSE rec(slot)]
           R == Compact(piece, kept)
<1>1. Released(rs, ns, o, s, l) = R
  BY DEF Released
<1>2. /\ Len(rs) \in Nat /\ DOMAIN rs = 1..Len(rs)
      /\ \A j \in 1..Len(rs) : rs[j] \in Bounded
  OBVIOUS
<1>3. kept \in SUBSET Nat /\ IsFiniteSet(kept)
  <2>1. IsFiniteSet(1..(2 * Len(rs)))
    BY <1>2, FS_Interval
  <2>2. kept \in SUBSET (1..(2 * Len(rs)))
    OBVIOUS
  <2>3. 1..(2 * Len(rs)) \subseteq Nat
    BY <1>2
  <2>. QED  BY <2>1, <2>2, <2>3, FS_Subset
<1>4. ASSUME NEW slot \in kept
      PROVE  \E j \in DOMAIN rs : PieceOf(piece[slot], rs[j], ns, o, s, l)
  <2>1. slot \in 1..(2 * Len(rs)) /\ (slot + 1) \div 2 \in 1..Len(rs)
    BY <1>2
  <2>2. PieceOf(piece[slot], rs[(slot + 1) \div 2], ns, o, s, l)
    BY <2>1 DEF PieceOf
  <2>. QED  BY <1>2, <2>1, <2>2
<1>5. ASSUME NEW j \in DOMAIN rs, NEW p, PieceOf(p, rs[j], ns, o, s, l)
      PROVE  p \in Bounded
  <2>1. CASE Hit(rs[j], ns, o, s, l)
    <3>1. RecOverlaps(rs[j], s, l)
      BY <2>1 DEF Hit
    <3>. QED  BY <1>2, <1>5, <2>1, <3>1, Pieces DEF PieceOf
  <2>2. CASE ~Hit(rs[j], ns, o, s, l)
    BY <1>2, <1>5, <2>2 DEF PieceOf
  <2>. QED  BY <2>1, <2>2
<1>6. ASSUME NEW j \in DOMAIN rs, NEW p, PieceOf(p, rs[j], ns, o, s, l)
      PROVE  \E slot \in kept : piece[slot] = p
  <2>1. /\ 2 * j - 1 \in 1..(2 * Len(rs)) /\ 2 * j \in 1..(2 * Len(rs))
        /\ ((2 * j - 1) + 1) \div 2 = j /\ (2 * j + 1) \div 2 = j
        /\ (2 * j - 1) % 2 = 1 /\ (2 * j) % 2 # 1
    <3>1. j \in Int /\ 1 <= j /\ j <= Len(rs) /\ Len(rs) \in Int
      BY <1>2
    <3>2. ((2 * j - 1) + 1) \div 2 = j
      BY <3>1
    <3>3. (2 * j + 1) \div 2 = j
      BY <3>1
    <3>4. (2 * j - 1) % 2 = 1
      BY <3>1
    <3>5. (2 * j) % 2 # 1
      BY <3>1
    <3>6. 2 * j - 1 \in 1..(2 * Len(rs)) /\ 2 * j \in 1..(2 * Len(rs))
      BY <3>1
    <3>. QED  BY <3>2, <3>3, <3>4, <3>5, <3>6
  <2>2. CASE Hit(rs[j], ns, o, s, l) /\ HasLeft(rs[j], s) /\ p = LeftOf(rs[j], s)
    <3>1. 2 * j - 1 \in kept /\ piece[2 * j - 1] = p
      BY <2>1, <2>2
    <3>. QED  BY <3>1
  <2>3. CASE Hit(rs[j], ns, o, s, l) /\ HasRight(rs[j], s, l) /\ p = RightOf(rs[j], s + l)
    <3>1. 2 * j \in kept /\ piece[2 * j] = p
      BY <2>1, <2>3
    <3>. QED  BY <3>1
  <2>4. CASE ~Hit(rs[j], ns, o, s, l) /\ p = rs[j]
    <3>1. 2 * j - 1 \in kept /\ piece[2 * j - 1] = p
      BY <2>1, <2>4
    <3>. QED  BY <3>1
  <2>. QED  BY <1>6, <2>2, <2>3, <2>4 DEF PieceOf
<1> HIDE DEF kept, piece
<1>7. \A slot \in kept : piece[slot] \in Bounded
  BY <1>4, <1>5
<1>8. R \in Seq(Bounded)
  BY <1>3, <1>7, CompactType
<1>9. /\ \A k \in DOMAIN R : \E slot \in kept : R[k] = piece[slot]
      /\ \A slot \in kept : \E k \in DOMAIN R : R[k] = piece[slot]
  BY <1>3, CompactElements
<1> HIDE DEF R
<1>10. \A k \in DOMAIN R : \E j \in DOMAIN rs : PieceOf(R[k], rs[j], ns, o, s, l)
  BY <1>4, <1>9
<1>11. \A j \in DOMAIN rs, p \in Bounded :
          PieceOf(p, rs[j], ns, o, s, l) => \E k \in DOMAIN R : R[k] = p
  <2> TAKE j \in DOMAIN rs, p \in Bounded
  <2> HAVE PieceOf(p, rs[j], ns, o, s, l)
  <2>1. PICK slot \in kept : piece[slot] = p
    BY <1>6
  <2>. QED  BY <1>9, <2>1
<1>. QED  BY <1>1, <1>8, <1>10, <1>11 DEF Pieced

\* Some record says that owner o has a lock of type t on byte b.
Holds(rs, ns, o, t, b) ==
    \E k \in DOMAIN rs : /\ rs[k].namespace = ns /\ rs[k].owner = o /\ rs[k].type = t
                         /\ Covers(rs[k], b)

\* An unlock takes its range from its owner and nothing else from anybody.
LEMMA HoldsAfterRelease ==
    ASSUME NEW rs \in Seq(Bounded), NEW ns, NEW o,
           NEW s \in 0..MaxStart, NEW l \in 0..MaxLength,
           NEW m, NEW p, NEW t, NEW b \in Nat
    PROVE  Holds(Released(rs, ns, o, s, l), m, p, t, b)
              <=> Holds(rs, m, p, t, b) /\ ~(m = ns /\ p = o /\ InRange(s, l, b))
<1> DEFINE R == Released(rs, ns, o, s, l)
           Is(r) == /\ r.namespace = m /\ r.owner = p /\ r.type = t /\ Covers(r, b)
           Lost == m = ns /\ p = o /\ InRange(s, l, b)
<1>1. /\ R \in Seq(Bounded)
      /\ \A k \in DOMAIN R : \E j \in DOMAIN rs : PieceOf(R[k], rs[j], ns, o, s, l)
      /\ \A j \in DOMAIN rs, q \in Bounded :
            PieceOf(q, rs[j], ns, o, s, l) => \E k \in DOMAIN R : R[k] = q
  <2>1. Pieced(R, rs, ns, o, s, l)
    BY ReleasedElements
  <2> HIDE DEF R
  <2>. QED  BY <2>1 DEF Pieced
<1>2. \A j \in DOMAIN rs : rs[j] \in Bounded
  OBVIOUS
<1>3. ASSUME NEW j \in DOMAIN rs, NEW q, PieceOf(q, rs[j], ns, o, s, l), Is(q)
      PROVE  Is(rs[j]) /\ ~Lost
  <2>1. CASE Hit(rs[j], ns, o, s, l)
    <3>1. RecOverlaps(rs[j], s, l) /\ rs[j].namespace = ns /\ rs[j].owner = o
      BY <2>1 DEF Hit
    <3>2. CASE HasLeft(rs[j], s) /\ q = LeftOf(rs[j], s)
      <4>1. Is(rs[j]) /\ b < s
        BY <1>2, <1>3, <3>1, <3>2, Pieces
      <4>. QED  BY <4>1 DEF InRange
    <3>3. CASE HasRight(rs[j], s, l) /\ q = RightOf(rs[j], s + l)
      <4>1. Is(rs[j]) /\ b >= s + l /\ l # 0
        BY <1>2, <1>3, <3>1, <3>3, Pieces DEF HasRight
      <4>2. s \in Nat /\ l \in Nat
        BY Bounds
      <4>. QED  BY <4>1, <4>2 DEF InRange
    <3>. QED  BY <1>3, <2>1, <3>2, <3>3 DEF PieceOf
  <2>2. CASE ~Hit(rs[j], ns, o, s, l)
    <3>1. q = rs[j]
      BY <1>3, <2>2 DEF PieceOf
    <3>2. Lost => RecOverlaps(rs[j], s, l)
      <4>1. l \in Nat
        BY Bounds
      <4>. QED  BY <1>2, <1>3, <3>1, <4>1, OverlapByte
    <3>. QED  BY <1>3, <2>2, <3>1, <3>2 DEF Hit
  <2>. QED  BY <2>1, <2>2
<1>4. ASSUME NEW j \in DOMAIN rs, Is(rs[j]), ~Lost
      PROVE  \E q \in Bounded : PieceOf(q, rs[j], ns, o, s, l) /\ Is(q)
  <2>1. CASE Hit(rs[j], ns, o, s, l)
    <3>1. RecOverlaps(rs[j], s, l) /\ rs[j].namespace = ns /\ rs[j].owner = o
      BY <2>1 DEF Hit
    <3>2. ~InRange(s, l, b)
      BY <1>4, <3>1
    <3>3. \/ HasLeft(rs[j], s) /\ b < s
          \/ HasRight(rs[j], s, l) /\ b >= s + l
      BY <1>2, <1>4, <3>1, <3>2, Pieces
    <3>4. CASE HasLeft(rs[j], s) /\ b < s
      <4>1. LeftOf(rs[j], s) \in Bounded /\ Is(LeftOf(rs[j], s))
        BY <1>2, <1>4, <3>1, <3>4, Pieces
      <4>. QED  BY <2>1, <3>4, <4>1 DEF PieceOf
    <3>5. CASE HasRight(rs[j], s, l) /\ b >= s + l
      <4>1. RightOf(rs[j], s + l) \in Bounded /\ Is(RightOf(rs[j], s + l))
        BY <1>2, <1>4, <3>1, <3>5, Pieces
      <4>. QED  BY <2>1, <3>5, <4>1 DEF PieceOf
    <3>. QED  BY <3>3, <3>4, <3>5
  <2>2. CASE ~Hit(rs[j], ns, o, s, l)
    BY <1>2, <1>4, <2>2 DEF PieceOf
  <2>. QED  BY <2>1, <2>2
<1>5. Holds(R, m, p, t, b) <=> \E k \in DOMAIN R : Is(R[k])
  BY DEF Holds
<1>6. Holds(rs, m, p, t, b) <=> \E j \in DOMAIN rs : Is(rs[j])
  BY DEF Holds
<1> HIDE DEF R, Is, Lost
<1>7. ASSUME NEW k \in DOMAIN R, Is(R[k]) PROVE ~Lost /\ \E j \in DOMAIN rs : Is(rs[j])
  BY <1>1, <1>3, <1>7
<1>8. ASSUME NEW j \in DOMAIN rs, Is(rs[j]), ~Lost PROVE \E k \in DOMAIN R : Is(R[k])
  BY <1>1, <1>4, <1>8
<1>9. Holds(R, m, p, t, b) <=> Holds(rs, m, p, t, b) /\ ~Lost
  BY <1>5, <1>6, <1>7, <1>8
<1>. QED  BY <1>9 DEF R, Lost

\* A close takes whole owners out, and leaves the records of the others.
LEMMA HoldsAfterClose ==
    ASSUME NEW rs \in Seq(Bounded), NEW f, NEW pid
    PROVE  /\ on_fd_close(rs, f, pid) \in Seq(Bounded)
           /\ \A m, p, t, b :
                 Holds(on_fd_close(rs, f, pid), m, p, t, b)
                    <=> Holds(rs, m, p, t, b) /\ p # IF m = "Posix" THEN pid ELSE f
<1> DEFINE kept == {k \in DOMAIN rs : ~GoneOnClose(rs[k], f, pid)}
           R == Compact(rs, kept)
<1>1. on_fd_close(rs, f, pid) = R
  BY DEF on_fd_close
<1>2. Len(rs) \in Nat /\ DOMAIN rs = 1..Len(rs)
  OBVIOUS
<1>3. kept \in SUBSET Nat /\ IsFiniteSet(kept)
  <2>1. IsFiniteSet(1..Len(rs))
    BY <1>2, FS_Interval
  <2>. QED  BY <1>2, <2>1, FS_Subset
<1>4. \A k \in kept : rs[k] \in Bounded /\ k \in DOMAIN rs
  OBVIOUS
<1>5. \A k \in DOMAIN rs : k \in kept <=> ~GoneOnClose(rs[k], f, pid)
  OBVIOUS
<1> HIDE DEF kept
<1>6. R \in Seq(Bounded)
  BY <1>3, <1>4, CompactType
<1>7. /\ \A k \in DOMAIN R : \E x \in kept : R[k] = rs[x]
      /\ \A x \in kept : \E k \in DOMAIN R : R[k] = rs[x]
  BY <1>3, CompactElements, SMTT(60)
<1> HIDE DEF R
<1>8. ASSUME NEW m, NEW p, NEW t, NEW b
      PROVE  Holds(R, m, p, t, b)
                <=> Holds(rs, m, p, t, b) /\ p # IF m = "Posix" THEN pid ELSE f
  <2>1. ASSUME Holds(R, m, p, t, b)
        PROVE  Holds(rs, m, p, t, b) /\ p # IF m = "Posix" THEN pid ELSE f
    <3>1. PICK k \in DOMAIN R : /\ R[k].namespace = m /\ R[k].owner = p /\ R[k].type = t
                                /\ Covers(R[k], b)
      BY <2>1 DEF Holds
    <3>2. PICK x \in kept : R[k] = rs[x]
      BY <1>7
    <3>3. x \in DOMAIN rs /\ ~GoneOnClose(rs[x], f, pid)
      BY <1>4, <1>5, <3>2
    <3>. QED  BY <3>1, <3>2, <3>3 DEF Holds, GoneOnClose
  <2>2. ASSUME Holds(rs, m, p, t, b), p # IF m = "Posix" THEN pid ELSE f
        PROVE  Holds(R, m, p, t, b)
    <3>1. PICK x \in DOMAIN rs : /\ rs[x].namespace = m /\ rs[x].owner = p /\ rs[x].type = t
                                 /\ Covers(rs[x], b)
      BY <2>2 DEF Holds
    <3>2. x \in kept
      BY <1>5, <2>2, <3>1 DEF GoneOnClose
    <3>3. PICK k \in DOMAIN R : R[k] = rs[x]
      BY <1>7, <3>2
    <3>. QED  BY <3>1, <3>3 DEF Holds
  <2>. QED  BY <2>1, <2>2
<1>. QED  BY <1>1, <1>6, <1>8

\* A grant gives its type on its range, may take another type there, and
\* changes nothing else.
LEMMA HoldsAfterGrant ==
    ASSUME NEW rs \in Seq(Bounded), NEW ns \in Namespaces, NEW o \in Owners,
           NEW t \in Types, NEW s \in 0..MaxStart, NEW l \in 0..MaxLength
    PROVE  /\ Granted(rs, ns, o, t, s, l) \in Seq(Bounded)
           /\ \A m, p, u, b :
                 /\ ~(m = ns /\ p = o /\ InRange(s, l, b)) =>
                       (Holds(Granted(rs, ns, o, t, s, l), m, p, u, b)
                          <=> Holds(rs, m, p, u, b))
                 /\ u # t /\ Holds(Granted(rs, ns, o, t, s, l), m, p, u, b)
                       => Holds(rs, m, p, u, b)
                 /\ InRange(s, l, b) => Holds(Granted(rs, ns, o, t, s, l), ns, o, t, b)
<1> DEFINE same == SameRange(rs, ns, o, s, l)
           G == Granted(rs, ns, o, t, s, l)
           new == [namespace |-> ns, type |-> t, owner |-> o, start |-> s, length |-> l]
<1>1. /\ Len(rs) \in Nat /\ DOMAIN rs = 1..Len(rs)
      /\ \A j \in 1..Len(rs) : rs[j] \in Bounded
  OBVIOUS
<1>2. \A b : Covers(new, b) <=> InRange(s, l, b)
  BY DEF Covers, InRange
<1>3. new \in Bounded
  BY Bounds DEF Bounded, Bytes
<1>4. CASE same = {}
  <2>1. G = Append(rs, new)
    BY <1>4 DEF Granted
  <2>2. /\ G \in Seq(Bounded) /\ DOMAIN G = 1..(Len(rs) + 1)
        /\ G[Len(rs) + 1] = new /\ \A k \in 1..Len(rs) : G[k] = rs[k]
    <3> HIDE DEF new
    <3>. QED  BY <1>1, <1>3, <2>1
  <2>3. new.namespace = ns /\ new.owner = o /\ new.type = t
    OBVIOUS
  <2> HIDE DEF G, new
  <2>4. ASSUME NEW m, NEW p, NEW u, NEW b
        PROVE  Holds(G, m, p, u, b)
                  <=> Holds(rs, m, p, u, b) \/ (m = ns /\ p = o /\ u = t /\ InRange(s, l, b))
    <3>1. DOMAIN G = 1..Len(rs) \cup {Len(rs) + 1}
      BY <1>1, <2>2
    <3>. QED  BY <1>1, <1>2, <2>2, <2>3, <3>1 DEF Holds
  <2>. QED  BY <2>2, <2>4 DEF G
<1>5. CASE same # {}
  <2> DEFINE x == Nth(same, 1)
  <2>1. same \in SUBSET Nat /\ IsFiniteSet(same)
    <3>1. IsFiniteSet(1..Len(rs)) /\ same \in SUBSET (1..Len(rs)) /\ 1..Len(rs) \subseteq Nat
      <4>1. same \in SUBSET (1..Len(rs))
        BY <1>1 DEF SameRange
      <4>2. IsFiniteSet(1..Len(rs))
        BY <1>1, FS_Interval
      <4>. QED  BY <1>1, <4>1, <4>2
    <3> HIDE DEF same
    <3>. QED  BY <3>1, FS_Subset
  <2>2. Cardinality(same) \in Nat /\ Cardinality(same) # 0
    BY <1>5, <2>1, FS_CardinalityType, FS_EmptySet
  <2>3. x \in same
    <3>1. 1 \in 1..Cardinality(same)
      BY <2>2
    <3> HIDE DEF same
    <3>. QED  BY <2>1, <3>1, NthElement
  <2>4. /\ x \in 1..Len(rs) /\ rs[x].namespace = ns /\ rs[x].owner = o
        /\ rs[x].start = s /\ rs[x].length = l
    BY <1>1, <2>3 DEF SameRange
  <2>5. G = [rs EXCEPT ![x].type = t]
    BY <1>5 DEF Granted
  <2> HIDE DEF same, x
  <2>6. DOMAIN G = 1..Len(rs) /\ \A k \in 1..Len(rs) : k # x => G[k] = rs[k]
    BY <1>1, <2>4, <2>5
  <2>7. G[x] = [rs[x] EXCEPT !.type = t]
    BY <1>1, <2>4, <2>5
  <2>8. G[x] = new
    <3>1. rs[x] \in Bounded
      BY <1>1, <2>4
    <3>. QED  BY <2>4, <2>7, <3>1 DEF Bounded
  <2>9. G \in Seq(Bounded)
    <3>1. \A k \in 1..Len(rs) : G[k] \in Bounded
      BY <1>1, <1>3, <2>6, <2>8
    <3>2. G = [k \in 1..Len(rs) |-> G[k]]
      BY <1>1, <2>4, <2>5, <2>6
    <3> HIDE DEF G
    <3>. QED  BY <1>1, <3>1, <3>2
  <2>10. new.namespace = ns /\ new.owner = o /\ new.type = t
    OBVIOUS
  <2>11. \A b : Covers(rs[x], b) <=> InRange(s, l, b)
    BY <2>4 DEF Covers, InRange
  <2> HIDE DEF G, new
  <2>12. ASSUME NEW m, NEW p, NEW u, NEW b, ~(m = ns /\ p = o /\ InRange(s, l, b))
         PROVE  Holds(G, m, p, u, b) <=> Holds(rs, m, p, u, b)
    <3>1. ASSUME NEW k \in 1..Len(rs)
          PROVE  (/\ G[k].namespace = m /\ G[k].owner = p /\ G[k].type = u /\ Covers(G[k], b))
                 <=> (/\ rs[k].namespace = m /\ rs[k].owner = p /\ rs[k].type = u
                      /\ Covers(rs[k], b))
      BY <1>2, <2>4, <2>6, <2>8, <2>10, <2>11, <2>12
    <3>. QED  BY <1>1, <2>6, <3>1 DEF Holds
  <2>13. ASSUME NEW m, NEW p, NEW u, NEW b, u # t, Holds(G, m, p, u, b)
         PROVE  Holds(rs, m, p, u, b)
    BY <1>1, <2>6, <2>8, <2>10, <2>13 DEF Holds
  <2>14. ASSUME NEW b, InRange(s, l, b) PROVE Holds(G, ns, o, t, b)
    BY <1>2, <2>4, <2>6, <2>8, <2>10, <2>14 DEF Holds
  <2>. QED  BY <2>9, <2>12, <2>13, <2>14 DEF G
<1>. QED  BY <1>4, <1>5

-----------------------------------------------------------------------------
(* The inductive invariant.                                                *)

\* No two owners conflict, on any byte.
Exclusive(rs) ==
    \A ns, o, p, t, u : \A b \in Nat :
        o # p /\ Holds(rs, ns, o, t, b) /\ Holds(rs, ns, p, u, b)
            => t = "shared" /\ u = "shared"

\* Locks that are not of processes are of fds that F has open on i.
OfOpenFds(rs, i, F) ==
    \A ns, o, t : \A b \in Nat :
        ns # "Posix" /\ Holds(rs, ns, o, t, b) => o \in Fds /\ F[o] = i

\* Numbers still to be handed out are not open.
FdsAhead == \A f \in Fds : f >= nextFd => fds[f] = None

IInv ==
    /\ records \in [Inodes -> Seq(Bounded)]
    /\ fds \in [Fds -> Inodes \cup {None}]
    /\ nextFd \in 1..(MaxFd + 1)
    /\ FdsAhead
    /\ \A i \in Inodes : Exclusive(records[i])
    /\ \A i \in Inodes : OfOpenFds(records[i], i, fds)

\* A grant is compatible with every other owner's locks on its bytes.
LEMMA GrantableFree ==
    ASSUME NEW rs \in Seq(Bounded), NEW ns, NEW o, NEW t \in Types,
           NEW s \in 0..MaxStart, NEW l \in 0..MaxLength,
           Grantable(rs, ns, o, t, s, l),
           NEW p, NEW u, NEW b \in Nat, p # o, Holds(rs, ns, p, u, b), InRange(s, l, b)
    PROVE  u = "shared" /\ t = "shared"
<1>1. PICK k \in DOMAIN rs : /\ rs[k].namespace = ns /\ rs[k].owner = p /\ rs[k].type = u
                             /\ Covers(rs[k], b)
  BY DEF Holds
<1>2. rs[k] \in Bounded /\ l \in Nat
  BY Bounds
<1>3. RecOverlaps(rs[k], s, l)
  BY <1>1, <1>2, OverlapByte
<1>4. "exclusive" \notin {u, t}
  BY <1>1, <1>3 DEF Grantable, Blocks
<1>5. u \in Types
  BY <1>1, <1>2, BoundedFields
<1>. QED  BY <1>4, <1>5 DEF Types

LEMMA ExclusiveAfterGrant ==
    ASSUME NEW rs \in Seq(Bounded), NEW ns \in Namespaces, NEW o \in Owners,
           NEW t \in Types, NEW s \in 0..MaxStart, NEW l \in 0..MaxLength,
           Grantable(rs, ns, o, t, s, l), Exclusive(rs)
    PROVE  Exclusive(Granted(rs, ns, o, t, s, l))
<1> DEFINE G == Granted(rs, ns, o, t, s, l)
<1> SUFFICES ASSUME NEW m, NEW p, NEW q, NEW u, NEW v, NEW b \in Nat,
                    p # q, Holds(G, m, p, u, b), Holds(G, m, q, v, b)
             PROVE  u = "shared" /\ v = "shared"
  BY DEF Exclusive
<1>1. \A a, w : ~(m = ns /\ a = o /\ InRange(s, l, b)) =>
                    (Holds(G, m, a, w, b) <=> Holds(rs, m, a, w, b))
  BY HoldsAfterGrant
<1>2. \A w : w # t /\ Holds(G, m, o, w, b) => Holds(rs, m, o, w, b)
  BY HoldsAfterGrant
<1> HIDE DEF G
<1>3. CASE ~(m = ns /\ p = o /\ InRange(s, l, b)) /\ ~(m = ns /\ q = o /\ InRange(s, l, b))
  <2>1. Holds(rs, m, p, u, b) /\ Holds(rs, m, q, v, b)
    BY <1>1, <1>3
  <2>. QED  BY <2>1 DEF Exclusive
<1>4. CASE m = ns /\ p = o /\ InRange(s, l, b)
  <2>1. Holds(rs, ns, q, v, b)
    BY <1>1, <1>4
  <2>2. v = "shared" /\ t = "shared"
    BY <1>4, <2>1, GrantableFree
  <2>3. CASE u = t
    BY <2>2, <2>3
  <2>4. CASE u # t
    <3>1. Holds(rs, ns, o, u, b)
      BY <1>2, <1>4, <2>4
    <3>. QED  BY <1>4, <2>1, <3>1 DEF Exclusive
  <2>. QED  BY <2>3, <2>4
<1>5. CASE m = ns /\ q = o /\ InRange(s, l, b)
  <2>1. Holds(rs, ns, p, u, b)
    BY <1>1, <1>5
  <2>2. u = "shared" /\ t = "shared"
    BY <1>5, <2>1, GrantableFree
  <2>3. CASE v = t
    BY <2>2, <2>3
  <2>4. CASE v # t
    <3>1. Holds(rs, ns, o, v, b)
      BY <1>2, <1>5, <2>4
    <3>. QED  BY <1>5, <2>1, <3>1 DEF Exclusive
  <2>. QED  BY <2>3, <2>4
<1>. QED  BY <1>3, <1>4, <1>5

LEMMA InitInv == Init => IInv
<1> SUFFICES ASSUME Init PROVE IInv
  OBVIOUS
<1>1. MaxFd \in Nat
  BY Bounds
<1>2. <<>> \in Seq(Bounded) /\ \A ns, o, t, b : ~Holds(<<>>, ns, o, t, b)
  BY DEF Holds
<1>3. \A i \in Inodes : Exclusive(records[i]) /\ OfOpenFds(records[i], i, fds)
  BY <1>2 DEF Init, Exclusive, OfOpenFds
<1>. QED  BY <1>1, <1>2, <1>3 DEF Init, IInv, FdsAhead

\* Who asks for what: the parameters of a lock call.
Asks(f, ns, o, s, l) ==
    /\ f \in Fds /\ ns \in Namespaces /\ o \in OwnersOf(ns, f)
    /\ s \in StartsOf(ns) /\ l \in LengthsOf(ns)

LEMMA AsksTypes ==
    ASSUME NEW f, NEW ns, NEW o, NEW s, NEW l, Asks(f, ns, o, s, l)
    PROVE  /\ f \in Fds /\ ns \in Namespaces /\ o \in Owners
           /\ s \in 0..MaxStart /\ l \in 0..MaxLength
           /\ ns # "Posix" => o = f
BY Bounds DEF Asks, OwnersOf, StartsOf, LengthsOf, Owners

LEMMA OpenInv ==
    ASSUME IInv, NEW i \in Inodes, Open(i)
    PROVE  IInv'
<1>1. MaxFd \in Nat /\ None \notin Inodes
  BY Bounds, LockAssumption DEF None
<1>2. fds[nextFd] = None /\ nextFd \in Fds
  BY <1>1 DEF IInv, FdsAhead, Open, Fds
<1>3. /\ fds' \in [Fds -> Inodes \cup {None}] /\ nextFd' \in 1..(MaxFd + 1)
      /\ records' = records
  BY <1>1, <1>2 DEF IInv, Open, Fds
<1>4. FdsAhead'
  BY <1>1, <1>2 DEF IInv, FdsAhead, Open, Fds
<1>5. \A j \in Inodes : OfOpenFds(records'[j], j, fds')
  <2>1. \A f \in Fds : f # nextFd => fds'[f] = fds[f]
    BY DEF Open, IInv
  <2>. QED  BY <1>1, <1>2, <1>3, <2>1, ZenonT(60) DEF IInv, OfOpenFds
<1>. QED  BY <1>3, <1>4, <1>5 DEF IInv

LEMMA CloseInv ==
    ASSUME IInv, NEW f \in Fds, CloseFd(f)
    PROVE  IInv'
<1> DEFINE i == fds[f]
           R == on_fd_close(records[i], f, 0)
<1>1. /\ MaxFd \in Nat /\ i \in Inodes /\ records[i] \in Seq(Bounded)
      /\ records' = [records EXCEPT ![i] = R] /\ fds' = [fds EXCEPT ![f] = None]
      /\ nextFd' = nextFd
  BY Bounds DEF IInv, CloseFd
<1>2. /\ R \in Seq(Bounded)
      /\ \A m, p, t, b : Holds(R, m, p, t, b)
            <=> Holds(records[i], m, p, t, b) /\ p # IF m = "Posix" THEN 0 ELSE f
  BY <1>1, HoldsAfterClose
<1> HIDE DEF R
<1>3. records' \in [Inodes -> Seq(Bounded)] /\ fds' \in [Fds -> Inodes \cup {None}]
  BY <1>1, <1>2 DEF IInv
<1>4. FdsAhead'
  BY <1>1 DEF IInv, FdsAhead
<1>5. Exclusive(R) /\ OfOpenFds(R, i, fds')
  <2>1. Exclusive(records[i]) /\ OfOpenFds(records[i], i, fds)
    BY <1>1 DEF IInv
  <2>2. Exclusive(R)
    BY <1>2, <2>1 DEF Exclusive
  <2>3. \A g \in Fds : g # f => fds'[g] = fds[g]
    BY <1>1 DEF IInv
  <2> HIDE DEF i
  <2>4. OfOpenFds(R, i, fds')
    BY <1>2, <2>1, <2>3 DEF OfOpenFds
  <2>. QED  BY <2>2, <2>4
<1>6. ASSUME NEW j \in Inodes PROVE Exclusive(records'[j]) /\ OfOpenFds(records'[j], j, fds')
  <2>1. CASE j = i
    <3>1. records'[j] = R
      BY <1>1, <2>1 DEF IInv
    <3>. QED  BY <1>5, <2>1, <3>1
  <2>2. CASE j # i
    <3>1. records'[j] = records[j] /\ Exclusive(records[j]) /\ OfOpenFds(records[j], j, fds)
      BY <1>1, <2>2 DEF IInv
    <3>2. \A g \in Fds : g # f => fds'[g] = fds[g]
      BY <1>1 DEF IInv
    <3>3. fds[f] # j
      BY <2>2
    <3>. QED  BY <3>1, <3>2, <3>3 DEF OfOpenFds
  <2>. QED  BY <2>1, <2>2
<1>. QED  BY <1>1, <1>3, <1>4, <1>6 DEF IInv

LEMMA LockInv ==
    ASSUME IInv, NEW f, NEW ns, NEW o, NEW s, NEW l, Asks(f, ns, o, s, l),
           NEW t \in Types, Lock(f, ns, o, t, s, l)
    PROVE  IInv'
<1> DEFINE i == fds[f]
           G == Granted(records[i], ns, o, t, s, l)
<1>1. /\ f \in Fds /\ ns \in Namespaces /\ o \in Owners
      /\ s \in 0..MaxStart /\ l \in 0..MaxLength /\ (ns # "Posix" => o = f)
  BY AsksTypes
<1>2. /\ i \in Inodes /\ records[i] \in Seq(Bounded)
      /\ records' = [records EXCEPT ![i] = G] /\ fds' = fds /\ nextFd' = nextFd
      /\ Grantable(records[i], ns, o, t, s, l)
  BY <1>1 DEF IInv, Lock
<1>3. Exclusive(records[i]) /\ OfOpenFds(records[i], i, fds)
  BY <1>2 DEF IInv
<1>4. G \in Seq(Bounded) /\ Exclusive(G)
  BY <1>1, <1>2, <1>3, HoldsAfterGrant, ExclusiveAfterGrant
<1>5. OfOpenFds(G, i, fds)
  <2>1. \A m, p, u, b : Holds(G, m, p, u, b) => Holds(records[i], m, p, u, b) \/ (m = ns /\ p = o)
    BY <1>1, <1>2, HoldsAfterGrant
  <2>2. ns # "Posix" => o \in Fds /\ fds[o] = i
    BY <1>1
  <2> HIDE DEF G, i
  <2>. QED  BY <1>3, <2>1, <2>2 DEF OfOpenFds
<1> HIDE DEF G
<1>6. \A j \in Inodes : records'[j] = IF j = i THEN G ELSE records[j]
  BY <1>2 DEF IInv
<1>7. records' \in [Inodes -> Seq(Bounded)]
  BY <1>2, <1>4 DEF IInv
<1>8. \A j \in Inodes : Exclusive(records'[j]) /\ OfOpenFds(records'[j], j, fds')
  BY <1>2, <1>4, <1>5, <1>6 DEF IInv
<1>. QED  BY <1>2, <1>7, <1>8 DEF IInv, FdsAhead

LEMMA UnlockInv ==
    ASSUME IInv, NEW f, NEW ns, NEW o, NEW s, NEW l, Asks(f, ns, o, s, l),
           Unlock(f, ns, o, s, l)
    PROVE  IInv'
<1> DEFINE i == fds[f]
           R == Released(records[i], ns, o, s, l)
<1>1. /\ f \in Fds /\ s \in 0..MaxStart /\ l \in 0..MaxLength
  BY AsksTypes
<1>2. /\ i \in Inodes /\ records[i] \in Seq(Bounded)
      /\ records' = [records EXCEPT ![i] = R] /\ fds' = fds /\ nextFd' = nextFd
  BY <1>1 DEF IInv, Unlock
<1>3. Exclusive(records[i]) /\ OfOpenFds(records[i], i, fds)
  BY <1>2 DEF IInv
<1>4. R \in Seq(Bounded)
  BY <1>1, <1>2, ReleasedElements DEF Pieced
<1>5. \A m, p, u : \A b \in Nat : Holds(R, m, p, u, b) => Holds(records[i], m, p, u, b)
  BY <1>1, <1>2, HoldsAfterRelease
<1> HIDE DEF R
<1>6. Exclusive(R) /\ OfOpenFds(R, i, fds)
  BY <1>3, <1>5 DEF Exclusive, OfOpenFds
<1>7. \A j \in Inodes : records'[j] = IF j = i THEN R ELSE records[j]
  BY <1>2 DEF IInv
<1>8. records' \in [Inodes -> Seq(Bounded)]
  BY <1>2, <1>4 DEF IInv
<1>9. \A j \in Inodes : Exclusive(records'[j]) /\ OfOpenFds(records'[j], j, fds')
  BY <1>2, <1>6, <1>7 DEF IInv
<1>. QED  BY <1>2, <1>8, <1>9 DEF IInv, FdsAhead

LEMMA NextInv == IInv /\ [Next]_vars => IInv'
<1> SUFFICES ASSUME IInv, [Next]_vars PROVE IInv'
  OBVIOUS
<1>1. CASE \E i \in Inodes : Open(i)
  BY <1>1, OpenInv
<1>2. CASE \E f \in Fds : CloseFd(f)
  BY <1>2, CloseInv
<1>3. ASSUME NEW f \in Fds, NEW ns \in Namespaces, NEW o \in OwnersOf(ns, f),
             NEW s \in StartsOf(ns), NEW l \in LengthsOf(ns),
             \/ \E t \in Types : Lock(f, ns, o, t, s, l)
             \/ Unlock(f, ns, o, s, l)
      PROVE  IInv'
  <2>1. Asks(f, ns, o, s, l)
    BY DEF Asks
  <2>. QED  BY <1>3, <2>1, LockInv, UnlockInv
<1>4. CASE UNCHANGED vars
  BY <1>4 DEF vars, IInv, FdsAhead
<1>. QED  BY <1>1, <1>2, <1>3, <1>4 DEF Next

THEOREM Invariant == Spec => []IInv
BY InitInv, NextInv, PTL DEF Spec

-----------------------------------------------------------------------------
(* The theorems.                                                           *)

\* A record covers the byte it starts at.
LEMMA CoversStart ==
    ASSUME NEW rs \in Seq(Bounded), NEW k \in DOMAIN rs
    PROVE  /\ rs[k] \in Bounded
           /\ rs[k].start \in Nat
           /\ Holds(rs, rs[k].namespace, rs[k].owner, rs[k].type, rs[k].start)
<1>1. rs[k] \in Bounded
  OBVIOUS
<1>2. rs[k].start \in Nat /\ rs[k].length \in Nat
  BY <1>1, BoundedFields
<1>3. Covers(rs[k], rs[k].start)
  BY <1>2 DEF Covers
<1>. QED  BY <1>1, <1>2, <1>3 DEF Holds

\* Splits and conversions leave well-formed records.
THEOREM TypeCorrect == Spec => []TypeOK
<1>1. IInv => TypeOK
  <2>1. Seq(Bounded) \subseteq Seq(Record)
    <3>1. Bounded \subseteq Record
      BY BoundedFields
    <3>. QED  BY <3>1
  <2>. QED  BY <2>1 DEF IInv, TypeOK
<1>. QED  BY <1>1, Invariant, PTL

\* No byte is ever locked by two owners in conflict.
THEOREM LocksExclude == Spec => []MutualExclusion
<1>1. IInv => MutualExclusion
  <2> SUFFICES ASSUME IInv, NEW i \in Inodes,
                      NEW j \in DOMAIN records[i], NEW k \in DOMAIN records[i],
                      records[i][j].namespace = records[i][k].namespace,
                      records[i][j].owner # records[i][k].owner,
                      NEW b \in Bytes, Covers(records[i][j], b), Covers(records[i][k], b)
               PROVE  records[i][j].type = "shared" /\ records[i][k].type = "shared"
    BY DEF MutualExclusion
  <2>1. b \in Nat
    BY Bounds
  <2>2. Exclusive(records[i])
    BY DEF IInv
  <2>3. /\ Holds(records[i], records[i][j].namespace, records[i][j].owner,
                 records[i][j].type, b)
        /\ Holds(records[i], records[i][j].namespace, records[i][k].owner,
                 records[i][k].type, b)
    BY DEF Holds
  <2>. QED  BY <2>1, <2>2, <2>3 DEF Exclusive
<1>. QED  BY <1>1, Invariant, PTL

\* OFD and flock locks belong to an fd that is open on their file.
THEOREM FdLocksReleased == Spec => []FdLocksDieWithFd
<1>1. IInv => FdLocksDieWithFd
  <2> SUFFICES ASSUME IInv, NEW i \in Inodes, NEW k \in DOMAIN records[i],
                      records[i][k].namespace # "Posix"
               PROVE  records[i][k].owner \in Fds /\ fds[records[i][k].owner] = i
    BY DEF FdLocksDieWithFd
  <2>1. records[i] \in Seq(Bounded) /\ OfOpenFds(records[i], i, fds)
    BY DEF IInv
  <2>2. /\ records[i][k].start \in Nat
        /\ Holds(records[i], records[i][k].namespace, records[i][k].owner,
                 records[i][k].type, records[i][k].start)
    BY <2>1, CoversStart
  <2>. QED  BY <2>1, <2>2 DEF OfOpenFds
<1>. QED  BY <1>1, Invariant, PTL

\* getlk reports a lock exactly when another owner holds a byte of the range.
THEOREM GetlkExact == Spec => []GetlkSeesHolders
<1>1. IInv => GetlkSeesHolders
  <2> SUFFICES ASSUME IInv, NEW i \in Inodes, NEW ns \in Namespaces, NEW o \in Owners,
                      NEW s \in 0..MaxStart, NEW l \in 0..MaxLength
               PROVE  getlk(records[i], ns, o, s, l) # {}
                        <=> \E b \in Bytes, k \in DOMAIN records[i] :
                               /\ records[i][k].namespace = ns /\ records[i][k].owner # o
                               /\ Covers(records[i][k], b)
                               /\ b >= s /\ (l = 0 \/ b < s + l)
    BY DEF GetlkSeesHolders
  <2>1. \A k \in DOMAIN records[i] : records[i][k] \in Bounded
    BY DEF IInv
  <2>2. l \in Nat
    BY Bounds
  <2>3. \A k \in DOMAIN records[i] :
           RecOverlaps(records[i][k], s, l)
              <=> \E b \in Bytes : Covers(records[i][k], b) /\ InRange(s, l, b)
    BY <2>1, <2>2, OverlapByte
  <2>4. getlk(records[i], ns, o, s, l) # {}
           <=> \E k \in DOMAIN records[i] :
                  /\ records[i][k].namespace = ns /\ records[i][k].owner # o
                  /\ RecOverlaps(records[i][k], s, l)
    BY DEF getlk
  <2>. QED  BY <2>3, <2>4 DEF InRange
<1>. QED  BY <1>1, Invariant, PTL

-----------------------------------------------------------------------------
(* The records implement ByteLocks.                                        *)

\* How strongly the records rs let owner o hold byte b.
Strength(rs, ns, o, b) ==
    IF Holds(rs, ns, o, "exclusive", b) THEN "exclusive"
    ELSE IF Holds(rs, ns, o, "shared", b) THEN "shared" ELSE "none"

\* The variable of ByteLocks under the refinement mapping.
HeldMap == [i \in Inodes |-> [ns \in Namespaces |-> [o \in Owners |->
               [b \in Bytes |-> Held(i, ns, o, b)]]]]

LEMMA HeldIsStrength ==
    ASSUME NEW i \in Inodes, NEW ns \in Namespaces, NEW o \in Owners, NEW b \in Bytes
    PROVE  /\ HeldMap[i][ns][o][b] = Strength(records[i], ns, o, b)
           /\ HeldMap'[i][ns][o][b] = Strength(records'[i], ns, o, b)
<1>1. Held(i, ns, o, b) = Strength(records[i], ns, o, b)
  BY DEF Held, Strength, Holds
<1>2. Held(i, ns, o, b)' = Strength(records'[i], ns, o, b)
  BY DEF Held, Strength, Holds
<1>3. HeldMap[i][ns][o][b] = Held(i, ns, o, b)
  BY DEF HeldMap
<1>4. HeldMap'[i][ns][o][b] = Held(i, ns, o, b)'
  BY DEF HeldMap
<1>. QED  BY <1>1, <1>2, <1>3, <1>4

\* The holds of one owner, compared as a whole.
LEMMA HeldExtensional ==
    ASSUME NEW i \in Inodes, NEW ns \in Namespaces, NEW o \in Owners
    PROVE  /\ (\A b \in Bytes : HeldMap[i][ns][o][b] = "none")
                 => HeldMap[i][ns][o] = [b \in Bytes |-> "none"]
           /\ (\A b \in Bytes : HeldMap'[i][ns][o][b] = "none")
                 => HeldMap'[i][ns][o] = [b \in Bytes |-> "none"]
           /\ (\A b \in Bytes : HeldMap'[i][ns][o][b] = HeldMap[i][ns][o][b])
                 => HeldMap'[i][ns][o] = HeldMap[i][ns][o]
<1>1. /\ HeldMap[i][ns][o] = [b \in Bytes |-> Held(i, ns, o, b)]
      /\ HeldMap'[i][ns][o] = [b \in Bytes |-> Held(i, ns, o, b)']
  BY DEF HeldMap
<1>. QED  BY <1>1

\* The bytes of a call's range, among those of ByteLocks.
RangeOf(s, l) == {b \in Bytes : InRange(s, l, b)}

LEMMA RangeOfCall ==
    ASSUME NEW s \in 0..MaxStart, NEW l \in 0..MaxLength
    PROVE  RangeOf(s, l) \in Abstract!Ranges
<1>1. s \in Bytes /\ s + l \in Bytes
  BY Bounds DEF Bytes
<1>2. CASE l = 0
  <2>1. RangeOf(s, l) = {b \in Bytes : s <= b}
    BY <1>2, Bounds DEF RangeOf, InRange, Bytes
  <2>. QED  BY <1>1, <2>1 DEF Abstract!Ranges
<1>3. CASE l # 0
  <2>1. RangeOf(s, l) = {b \in Bytes : s <= b /\ b < s + l}
    BY <1>3, Bounds DEF RangeOf, InRange, Bytes
  <2>. QED  BY <1>1, <2>1 DEF Abstract!Ranges
<1>. QED  BY <1>2, <1>3

LEMMA InitAbstract == Init => Abstract!Init
<1> SUFFICES ASSUME Init PROVE Abstract!Init
  OBVIOUS
<1>1. ASSUME NEW i \in Inodes, NEW ns \in Namespaces, NEW o \in Owners
      PROVE  HeldMap[i][ns][o] = [b \in Bytes |-> "none"]
  <2>1. records[i] = <<>>
    BY DEF Init
  <2>2. \A b \in Bytes : Strength(records[i], ns, o, b) = "none"
    BY <2>1 DEF Strength, Holds
  <2>. QED  BY <2>2, HeldIsStrength, HeldExtensional
<1>2. HeldMap = [i \in Inodes |-> [ns \in Namespaces |-> [o \in Owners |->
                   [b \in Bytes |-> "none"]]]]
  BY <1>1 DEF HeldMap
<1>. QED  BY <1>2 DEF Abstract!Init, Abstract!Unheld, HeldMap

LEMMA CloseAbstract ==
    ASSUME IInv, NEW f \in Fds, CloseFd(f)
    PROVE  Abstract!Next
<1> DEFINE i == fds[f]
           R == on_fd_close(records[i], f, 0)
<1>1. /\ i \in Inodes /\ records[i] \in Seq(Bounded)
      /\ \A j \in Inodes : records'[j] = IF j = i THEN R ELSE records[j]
  BY DEF IInv, CloseFd
<1>2. \A m, p, t, b : Holds(R, m, p, t, b)
         <=> Holds(records[i], m, p, t, b) /\ p # IF m = "Posix" THEN 0 ELSE f
  BY <1>1, HoldsAfterClose
<1> HIDE DEF R
<1>3. 0 \notin Owners
  BY LockAssumption DEF Owners, Fds
<1>4. ASSUME NEW j \in Inodes, NEW ns \in Namespaces, NEW o \in Owners
      PROVE  \/ HeldMap'[j][ns][o] = HeldMap[j][ns][o]
             \/ j = i /\ HeldMap'[j][ns][o] = [b \in Bytes |-> "none"]
  <2>1. CASE j = i /\ ns # "Posix" /\ o = f
    <3>1. \A b \in Bytes : Strength(records'[j], ns, o, b) = "none"
      BY <1>1, <1>2, <2>1 DEF Strength
    <3>. QED  BY <2>1, <3>1, HeldIsStrength, HeldExtensional
  <2>2. CASE ~(j = i /\ ns # "Posix" /\ o = f)
    <3>1. \A b \in Bytes : Strength(records'[j], ns, o, b) = Strength(records[j], ns, o, b)
      BY <1>1, <1>2, <1>3, <2>2 DEF Strength
    <3>. QED  BY <3>1, HeldIsStrength, HeldExtensional
  <2>. QED  BY <2>1, <2>2
<1>5. \A j \in Inodes, ns \in Namespaces, o \in Owners :
         HeldMap'[j][ns][o] \in {HeldMap[j][ns][o]}
            \cup (IF j = i THEN {[b \in Bytes |-> "none"]} ELSE {})
  BY <1>4
<1>6. Abstract!Close(i)
  BY <1>5 DEF Abstract!Close, Abstract!Unheld, HeldMap
<1>. QED  BY <1>1, <1>6 DEF Abstract!Next

LEMMA UnlockAbstract ==
    ASSUME IInv, NEW f, NEW ns, NEW o, NEW s, NEW l, Asks(f, ns, o, s, l),
           Unlock(f, ns, o, s, l)
    PROVE  Abstract!Next
<1> DEFINE i == fds[f]
           R == Released(records[i], ns, o, s, l)
<1>1. /\ f \in Fds /\ ns \in Namespaces /\ o \in Owners
      /\ s \in 0..MaxStart /\ l \in 0..MaxLength
  BY AsksTypes
<1>2. /\ i \in Inodes /\ records[i] \in Seq(Bounded)
      /\ \A j \in Inodes : records'[j] = IF j = i THEN R ELSE records[j]
  BY <1>1 DEF IInv, Unlock
<1>3. \A m, p, t : \A b \in Nat : Holds(R, m, p, t, b)
         <=> Holds(records[i], m, p, t, b) /\ ~(m = ns /\ p = o /\ InRange(s, l, b))
  BY <1>1, <1>2, HoldsAfterRelease
<1>4. Bytes \subseteq Nat
  BY Bounds
<1> HIDE DEF R
<1>5. \A b \in Bytes : HeldMap'[i][ns][o][b]
                          = IF b \in RangeOf(s, l) THEN "none" ELSE HeldMap[i][ns][o][b]
  <2>1. \A b \in Bytes : Strength(records'[i], ns, o, b)
                          = IF b \in RangeOf(s, l) THEN "none" ELSE Strength(records[i], ns, o, b)
    BY <1>2, <1>3, <1>4 DEF Strength, RangeOf
  <2>. QED  BY <1>1, <1>2, <2>1, HeldIsStrength
<1>6. \A j \in Inodes, m \in Namespaces, p \in Owners :
         <<j, m, p>> # <<i, ns, o>> => HeldMap'[j][m][p] = HeldMap[j][m][p]
  <2> TAKE j \in Inodes, m \in Namespaces, p \in Owners
  <2> HAVE <<j, m, p>> # <<i, ns, o>>
  <2>1. \A b \in Bytes : Strength(records'[j], m, p, b) = Strength(records[j], m, p, b)
    BY <1>2, <1>3, <1>4 DEF Strength
  <2>. QED  BY <2>1, HeldIsStrength, HeldExtensional
<1>7. Abstract!Release(i, ns, o, RangeOf(s, l))
  BY <1>5, <1>6 DEF Abstract!Release, Abstract!OnlyOwner, HeldMap
<1>. QED  BY <1>1, <1>2, <1>7, RangeOfCall DEF Abstract!Next

LEMMA LockAbstract ==
    ASSUME IInv, NEW f, NEW ns, NEW o, NEW s, NEW l, Asks(f, ns, o, s, l),
           NEW t \in Types, Lock(f, ns, o, t, s, l)
    PROVE  Abstract!Next
<1> DEFINE i == fds[f]
           G == Granted(records[i], ns, o, t, s, l)
<1>1. /\ f \in Fds /\ ns \in Namespaces /\ o \in Owners
      /\ s \in 0..MaxStart /\ l \in 0..MaxLength
  BY AsksTypes
<1>2. /\ i \in Inodes /\ records[i] \in Seq(Bounded)
      /\ \A j \in Inodes : records'[j] = IF j = i THEN G ELSE records[j]
      /\ Grantable(records[i], ns, o, t, s, l)
  BY <1>1 DEF IInv, Lock
<1>3. \A m, p, u, b :
         /\ ~(m = ns /\ p = o /\ InRange(s, l, b)) =>
               (Holds(G, m, p, u, b) <=> Holds(records[i], m, p, u, b))
         /\ u # t /\ Holds(G, m, p, u, b) => Holds(records[i], m, p, u, b)
         /\ InRange(s, l, b) => Holds(G, ns, o, t, b)
  BY <1>1, <1>2, HoldsAfterGrant
<1>4. Bytes \subseteq Nat
  BY Bounds
<1> HIDE DEF G
<1>5. \A p \in Owners \ {o}, b \in RangeOf(s, l) :
         ~Abstract!Conflicting(HeldMap[i][ns][p][b], t)
  <2> TAKE p \in Owners \ {o}, b \in RangeOf(s, l)
  <2>1. b \in Bytes /\ b \in Nat /\ InRange(s, l, b)
    BY <1>4 DEF RangeOf
  <2>2. HeldMap[i][ns][p][b] = Strength(records[i], ns, p, b)
    BY <1>1, <1>2, <2>1, HeldIsStrength
  <2>3. \A u : Holds(records[i], ns, p, u, b) => u = "shared" /\ t = "shared"
    BY <1>1, <1>2, <2>1, GrantableFree
  <2>. QED  BY <2>2, <2>3 DEF Strength, Abstract!Conflicting
<1>6. \A b \in Bytes :
         IF b \in RangeOf(s, l)
         THEN HeldMap'[i][ns][o][b] \in {t, Abstract!Stronger(HeldMap[i][ns][o][b], t)}
         ELSE HeldMap'[i][ns][o][b] = HeldMap[i][ns][o][b]
  <2> TAKE b \in Bytes
  <2>1. /\ HeldMap[i][ns][o][b] = Strength(records[i], ns, o, b)
        /\ HeldMap'[i][ns][o][b] = Strength(records'[i], ns, o, b)
    BY <1>1, <1>2, HeldIsStrength
  <2>2. CASE b \in RangeOf(s, l)
    <3>1. Holds(G, ns, o, t, b) /\ records'[i] = G
      BY <1>2, <1>3, <2>2 DEF RangeOf
    <3>2. CASE t = "exclusive"
      <4>1. Strength(G, ns, o, b) = t
        BY <3>1, <3>2 DEF Strength
      <4>. QED  BY <2>1, <2>2, <3>1, <4>1
    <3>3. CASE t = "shared"
      <4>1. Holds(G, ns, o, "exclusive", b) => Holds(records[i], ns, o, "exclusive", b)
        BY <1>3, <3>3
      <4>2. Strength(G, ns, o, b) \in {t, Abstract!Stronger(Strength(records[i], ns, o, b), t)}
        BY <3>1, <3>3, <4>1 DEF Strength, Abstract!Stronger
      <4>. QED  BY <2>1, <2>2, <3>1, <4>2
    <3>. QED  BY <3>2, <3>3 DEF Types
  <2>3. CASE b \notin RangeOf(s, l)
    <3>1. ~InRange(s, l, b)
      BY <2>3 DEF RangeOf
    <3>2. Strength(records'[i], ns, o, b) = Strength(records[i], ns, o, b)
      BY <1>2, <1>3, <3>1 DEF Strength
    <3>. QED  BY <2>1, <2>3, <3>2
  <2>. QED  BY <2>2, <2>3
<1>7. \A j \in Inodes, m \in Namespaces, p \in Owners :
         <<j, m, p>> # <<i, ns, o>> => HeldMap'[j][m][p] = HeldMap[j][m][p]
  <2> TAKE j \in Inodes, m \in Namespaces, p \in Owners
  <2> HAVE <<j, m, p>> # <<i, ns, o>>
  <2>1. \A b \in Bytes : Strength(records'[j], m, p, b) = Strength(records[j], m, p, b)
    BY <1>2, <1>3 DEF Strength
  <2>. QED  BY <2>1, HeldIsStrength, HeldExtensional
<1>8. Abstract!Grant(i, ns, o, t, RangeOf(s, l))
  BY <1>5, <1>6, <1>7 DEF Abstract!Grant, Abstract!OnlyOwner, HeldMap
<1>9. t \in {"shared", "exclusive"}
  BY DEF Types
<1>. QED  BY <1>1, <1>2, <1>8, <1>9, RangeOfCall DEF Abstract!Next

LEMMA StepAbstract == IInv /\ [Next]_vars => [Abstract!Next]_(Abstract!vars)
<1> SUFFICES ASSUME IInv, [Next]_vars PROVE Abstract!Next \/ UNCHANGED Abstract!vars
  OBVIOUS
<1>1. ASSUME records' = records PROVE UNCHANGED Abstract!vars
  BY <1>1 DEF Abstract!vars, Held
<1>2. CASE \E i \in Inodes : Open(i)
  BY <1>1, <1>2 DEF Open
<1>3. CASE \E f \in Fds : CloseFd(f)
  BY <1>3, CloseAbstract
<1>4. ASSUME NEW f \in Fds, NEW ns \in Namespaces, NEW o \in OwnersOf(ns, f),
             NEW s \in StartsOf(ns), NEW l \in LengthsOf(ns),
             \/ \E t \in Types : Lock(f, ns, o, t, s, l)
             \/ Unlock(f, ns, o, s, l)
      PROVE  Abstract!Next
  <2>1. Asks(f, ns, o, s, l)
    BY DEF Asks
  <2>. QED  BY <1>4, <2>1, LockAbstract, UnlockAbstract
<1>5. CASE UNCHANGED vars
  BY <1>1, <1>5 DEF vars
<1>. QED  BY <1>2, <1>3, <1>4, <1>5 DEF Next

\* Records that are granted, converted, split and closed implement locking byte
\* by byte.
THEOREM Refinement == Spec => ImplementsByteLocks
<1>1. Spec => Abstract!Init /\ [][Abstract!Next]_(Abstract!vars)
  BY InitAbstract, StepAbstract, Invariant, PTL DEF Spec
<1>. QED  BY <1>1 DEF ImplementsByteLocks, Abstract!Spec
=============================================================================
