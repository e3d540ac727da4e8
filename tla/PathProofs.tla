----------------------------- MODULE PathProofs -----------------------------
(***************************************************************************)
(* Proofs about paths, and about what goes over them: the FUSE adapter and *)
(* the watchers, for every set of names and every bound.  Going down from  *)
(* the root and going up from an inode fit together in a good tree, so a   *)
(* callback acts where the kernel asked; and a path that does not pass     *)
(* what an operation moves goes on to lead where it led, so the events     *)
(* that match a watcher are all it needs.                                  *)
(***************************************************************************)
EXTENDS Adapter, Watch, NamespaceProofs, SequenceTheorems

-----------------------------------------------------------------------------
(* Sequences.                                                              *)

\* An element between two sequences belongs to either.
LEMMA ConsMoves ==
    ASSUME NEW T, NEW q \in Seq(T), NEW x \in T, NEW b \in Seq(T)
    PROVE  q \o (<<x>> \o b) = Append(q, x) \o b
<1>1. <<x>> \in Seq(T)
  OBVIOUS
<1>2. Append(q, x) = q \o <<x>>
  BY AppendIsConcat
<1>. QED  BY <1>1, <1>2, ConcatAssociative, SMTT(60)

LEMMA ConsAppend ==
    ASSUME NEW T, NEW x \in T, NEW b \in Seq(T), NEW y \in T
    PROVE  /\ <<x>> \o Append(b, y) = Append(<<x>> \o b, y)
           /\ <<x>> \o b \in Seq(T)
           /\ Len(<<x>> \o b) = Len(b) + 1
<1>1. <<x>> \in Seq(T) /\ <<y>> \in Seq(T) /\ Len(<<x>>) = 1
  OBVIOUS
<1>2. <<x>> \o b \in Seq(T) /\ Len(<<x>> \o b) = Len(<<x>>) + Len(b)
  BY <1>1, ConcatProperties
<1>3. Append(b, y) = b \o <<y>> /\ Append(<<x>> \o b, y) = (<<x>> \o b) \o <<y>>
  BY <1>2, AppendIsConcat
<1>4. <<x>> \o (b \o <<y>>) = (<<x>> \o b) \o <<y>>
  BY <1>1, ConcatAssociative
<1>5. Len(b) \in Nat
  OBVIOUS
<1>. QED  BY <1>1, <1>2, <1>3, <1>4, <1>5

\* The last element of a sequence and what is in front of it.
LEMMA FrontLast ==
    ASSUME NEW T, NEW q \in Seq(T), NEW x \in T
    PROVE  /\ Last(Append(q, x)) = x /\ Front(Append(q, x)) = q
           /\ Append(q, x) # <<>> /\ Append(q, x) \in Seq(T)
           /\ Len(Append(q, x)) = Len(q) + 1
<1> DEFINE a == Append(q, x)
<1>1. a \in Seq(T) /\ Len(a) = Len(q) + 1 /\ Len(q) \in Nat
      /\ \A k \in 1..Len(q) : a[k] = q[k]
  BY AppendProperties
<1>2. a[Len(q) + 1] = x
  BY AppendProperties
<1>3. SubSeq(a, 1, Len(q)) = q
  <2>1. /\ SubSeq(a, 1, Len(q)) \in Seq(T) /\ Len(SubSeq(a, 1, Len(q))) = Len(q)
        /\ \A k \in 1..Len(q) : SubSeq(a, 1, Len(q))[k] = a[k]
    BY <1>1, SubSeqProperties
  <2>. QED  BY <1>1, <2>1, SeqEqual
<1>4. a # <<>>
  BY <1>1
<1> HIDE DEF a
<1>5. Len(a) - 1 = Len(q)
  BY <1>1
<1>. QED  BY <1>1, <1>2, <1>3, <1>4, <1>5 DEF Last, Front, a

-----------------------------------------------------------------------------
(* Going down.  WalkIn is resolve_to_inode in a given table, for the state  *)
(* before a step and the one after it alike.                               *)

\* One step: what name n is bound to in i.
Down(E, i, n) == IF i = None THEN None ELSE E[i][n]

WalkIn(E, cs) ==
    LET at[k \in 0..Len(cs)] ==
            IF k = 0 THEN ROOT_INODE
            ELSE LET i == at[k - 1] IN IF i = None THEN None ELSE E[i][cs[k]]
    IN  at[Len(cs)]

\* at holds the inodes that the way along cs visits.
Visits(E, cs, at) ==
    /\ at \in [0..Len(cs) -> Inodes \cup {None}]
    /\ at[0] = ROOT_INODE
    /\ \A k \in 1..Len(cs) : at[k] = Down(E, at[k - 1], cs[k])

LEMMA ResolveIsWalk == \A q : resolve_to_inode(q) = WalkIn(entries, parse_path(q))
BY DEF resolve_to_inode, WalkIn

LEMMA ResolveIsWalkNext == \A q : resolve_to_inode(q)' = WalkIn(entries', parse_path(q))
BY DEF resolve_to_inode, WalkIn

\* Every path has its way.
LEMMA VisitsExist ==
    ASSUME NEW E \in Tables, NEW cs \in Seq(Names)
    PROVE  \E at : Visits(E, cs, at)
<1> DEFINE V == Inodes \cup {None}
           n == Len(cs)
           D == [x \in V \X (1..n) |-> Down(E, x[1], cs[x[2]])]
<1>1. n \in Nat /\ ROOT_INODE \in V
  BY RootInode
<1>2. \A v \in V, k \in 1..n : Down(E, v, cs[k]) \in V
  BY DEF Down, Tables
<1>3. StepsIn(D, V, n)
  BY <1>2 DEF StepsIn
<1>4. \A v \in V, k \in 1..n : D[<<v, k>>] = Down(E, v, cs[k])
  OBVIOUS
<1> HIDE DEF D, V, n
<1>5. PICK f : Recursion(f, ROOT_INODE, D, V, n)
  BY <1>1, <1>3, RecursionExists
<1>6. ASSUME NEW k \in 1..n PROVE f[k] = Down(E, f[k - 1], cs[k])
  <2>1. f[k - 1] \in V
    BY <1>1, <1>5 DEF Recursion
  <2>. QED  BY <1>4, <1>5, <2>1 DEF Recursion
<1>7. Visits(E, cs, f)
  BY <1>5, <1>6 DEF Recursion, Visits, V, n
<1>. QED  BY <1>7

\* What resolve_to_inode computes is where the way ends.
LEMMA WalkEnds ==
    ASSUME NEW E \in Tables, NEW cs \in Seq(Names), NEW at, Visits(E, cs, at)
    PROVE  WalkIn(E, cs) = at[Len(cs)]
<1> DEFINE n == Len(cs)
           Is(f) == f = [k \in 0..n |->
                            IF k = 0 THEN ROOT_INODE
                            ELSE IF f[k - 1] = None THEN None ELSE E[f[k - 1]][cs[k]]]
           w == CHOOSE f : Is(f)
<1>0. n \in Nat
  OBVIOUS
<1>1. Is(at)
  BY <1>0, SMTT(60) DEF Visits, Down
<1>2. Is(w)
  BY <1>1, ZenonT(60)
<1>3. WalkIn(E, cs) = w[n]
  BY DEF WalkIn
<1> HIDE DEF w
<1>4. w[0] = ROOT_INODE /\ at[0] = ROOT_INODE
  BY <1>0, <1>2 DEF Visits
<1>5. ASSUME NEW k \in 1..n, w[k - 1] = at[k - 1]
      PROVE  w[k] = at[k]
  <2>1. k \in 0..n /\ k # 0
    BY <1>0
  <2>2. w[k] = IF k = 0 THEN ROOT_INODE
               ELSE IF w[k - 1] = None THEN None ELSE E[w[k - 1]][cs[k]]
    BY <1>2, <2>1, ZenonT(60)
  <2>3. at[k] = Down(E, at[k - 1], cs[k])
    BY DEF Visits
  <2>. QED  BY <1>5, <2>1, <2>2, <2>3, ZenonT(60) DEF Down
<1> HIDE DEF n, Is
<1>6. \A k \in 0..n : w[k] = at[k]
  <2> DEFINE S == {k \in 0..n : w[k] = at[k]}
  <2>1. 0 \in S
    BY <1>0, <1>4
  <2>2. ASSUME NEW k \in 1..n, k - 1 \in S PROVE k \in S
    <3>1. w[k - 1] = at[k - 1]
      BY <2>2
    <3>2. w[k] = at[k]
      BY <1>5, <3>1
    <3>3. k \in 0..n
      BY <1>0
    <3>. QED  BY <3>2, <3>3
  <2> HIDE DEF S
  <2>3. 0..n \subseteq S
    BY <1>0, <2>1, <2>2, UpToInduction
  <2>. QED  BY <2>3 DEF S
<1>7. n \in 0..n
  BY <1>0
<1>. QED  BY <1>3, <1>6, <1>7 DEF n

\* The empty path is the root.
LEMMA WalkEmpty ==
    ASSUME NEW E \in Tables
    PROVE  WalkIn(E, <<>>) = ROOT_INODE
<1>1. <<>> \in Seq(Names) /\ Len(<<>>) = 0
  OBVIOUS
<1>2. PICK at : Visits(E, <<>>, at)
  BY <1>1, VisitsExist
<1>. QED  BY <1>1, <1>2, WalkEnds DEF Visits

\* A path leads to an inode or to nothing.
LEMMA WalkType ==
    ASSUME NEW E \in Tables, NEW cs \in Seq(Names)
    PROVE  WalkIn(E, cs) \in Inodes \cup {None}
<1>1. PICK at : Visits(E, cs, at)
  BY VisitsExist
<1>2. Len(cs) \in 0..Len(cs)
  OBVIOUS
<1>. QED  BY <1>1, <1>2, WalkEnds DEF Visits

\* One component more is one step more.
LEMMA WalkAppend ==
    ASSUME NEW E \in Tables, NEW q \in Seq(Names), NEW n \in Names
    PROVE  WalkIn(E, Append(q, n)) = Down(E, WalkIn(E, q), n)
<1> DEFINE a == Append(q, n)
           m == Len(q)
<1>1. PICK at : Visits(E, q, at)
  BY VisitsExist
<1>2. WalkIn(E, q) = at[m] /\ at[m] \in Inodes \cup {None}
  BY <1>1, WalkEnds, WalkType
<1>3. m \in Nat /\ a \in Seq(Names) /\ Len(a) = m + 1
      /\ (\A k \in 1..m : a[k] = q[k]) /\ a[m + 1] = n
  BY AppendProperties
<1> DEFINE x == Down(E, at[m], n)
           g == [k \in 0..(m + 1) |-> IF k = m + 1 THEN x ELSE at[k]]
<1>4. x \in Inodes \cup {None}
  BY <1>2 DEF Down, Tables
<1> HIDE DEF a, m, x
<1>5. \A k \in 0..m : g[k] = at[k] /\ k \in 0..(m + 1)
  BY <1>3
<1>6. g[m + 1] = x /\ g[0] = at[0]
  BY <1>3
<1>7. g \in [0..(m + 1) -> Inodes \cup {None}]
  <2>1. \A k \in 0..(m + 1) : k # m + 1 => k \in 0..Len(q)
    BY <1>3 DEF m
  <2>. QED  BY <1>1, <1>4, <2>1 DEF Visits
<1> HIDE DEF g
<1>8. ASSUME NEW k \in 1..(m + 1) PROVE g[k] = Down(E, g[k - 1], a[k])
  <2>1. CASE k = m + 1
    <3>1. k - 1 = m /\ m \in 0..m
      BY <1>3, <2>1
    <3>2. g[k - 1] = at[m]
      BY <1>5, <3>1
    <3>. QED  BY <1>3, <1>6, <2>1, <3>2 DEF x
  <2>2. CASE k # m + 1
    <3>1. k \in 1..m /\ k - 1 \in 0..m /\ k \in 0..m
      BY <1>3, <2>2
    <3>2. g[k] = at[k] /\ g[k - 1] = at[k - 1] /\ a[k] = q[k]
      BY <1>3, <1>5, <3>1
    <3>3. at[k] = Down(E, at[k - 1], q[k])
      BY <1>1, <3>1 DEF Visits, m
    <3>. QED  BY <3>2, <3>3
  <2>. QED  BY <2>1, <2>2
<1>9. Visits(E, a, g)
  BY <1>1, <1>3, <1>6, <1>7, <1>8 DEF Visits
<1>10. WalkIn(E, a) = g[m + 1]
  BY <1>3, <1>9, WalkEnds
<1>. QED  BY <1>2, <1>6, <1>10 DEF a, m, x

\* parse_path leaves a path of names alone, and takes the slash off its end.
LEMMA ParsePath ==
    ASSUME NEW q \in Seq(Names)
    PROVE  /\ parse_path(q) = q
           /\ parse_path(q \o <<"">>) = q
           /\ q \o <<"">> # q
<1>1. q # <<>> => Last(q) \in Names
  BY DEF Last
<1>2. parse_path(q) = q
  BY <1>1, NameAssumption DEF parse_path
<1> DEFINE T == Names \cup {""}
<1>3. q \in Seq(T) /\ "" \in T
  BY SeqMonotonic
<1> HIDE DEF T
<1> DEFINE x == ""
<1>8. x \in T
  BY <1>3
<1> HIDE DEF x
<1>4. q \o <<x>> = Append(q, x)
  BY <1>3, <1>8, AppendIsConcat
<1>5. Last(Append(q, x)) = x /\ Front(Append(q, x)) = q /\ Append(q, x) # <<>>
      /\ Len(Append(q, x)) = Len(q) + 1
  BY <1>3, <1>8, FrontLast
<1>6. Append(q, x) # q
  <2>1. Len(q) \in Nat
    OBVIOUS
  <2>. QED  BY <1>5, <2>1
<1>7. parse_path(q \o <<x>>) = q
  BY <1>4, <1>5 DEF parse_path, x
<1>. QED  BY <1>2, <1>4, <1>6, <1>7 DEF x

\* Where a path of names leads, with or without a slash at its end.
LEMMA Resolves ==
    ASSUME NEW q \in Seq(Names)
    PROVE  /\ resolve_to_inode(q) = WalkIn(entries, q)
           /\ resolve_to_inode(q \o <<"">>) = WalkIn(entries, q)
           /\ resolve_to_inode(q)' = WalkIn(entries', q)
           /\ resolve_to_inode(q \o <<"">>)' = WalkIn(entries', q)
BY ParsePath, ResolveIsWalk, ResolveIsWalkNext

-----------------------------------------------------------------------------
(* Going up.                                                               *)

\* One turn of the loop of path_for_inode.
Up(E, s) ==
    LET f == CHOOSE f \in LinksIn(E, s.at) : TRUE
    IN  IF s.at = ROOT_INODE THEN s
        ELSE [at |-> f[1], parts |-> <<f[2]>> \o s.parts]

ClimbIn(E, e) ==
    LET up[k \in 0..MaxInode] ==
            IF k = 0 THEN [at |-> e[1], parts |-> <<e[2]>>]
            ELSE LET s == up[k - 1]
                     f == CHOOSE f \in LinksIn(E, s.at) : TRUE
                 IN  IF s.at = ROOT_INODE THEN s
                     ELSE [at |-> f[1], parts |-> <<f[2]>> \o s.parts]
    IN  up[MaxInode].parts

LEMMA ClimbIsClimbIn == \A e : Climb(e) = ClimbIn(entries, e)
BY DEF Climb, ClimbIn, Links, LinksIn

\* The places where the loop can be.
Places(E) == {s \in [at : Inodes, parts : Seq(Names)] : s.at = ROOT_INODE \/ LinksIn(E, s.at) # {}}

\* up holds what the loop has after each turn.
Climbs(E, e, up) ==
    /\ up \in [0..MaxInode -> Places(E)]
    /\ up[0] = [at |-> e[1], parts |-> <<e[2]>>]
    /\ \A k \in 1..MaxInode : up[k] = Up(E, up[k - 1])

\* What the loop computes.
LEMMA ClimbEnds ==
    ASSUME NEW E, NEW e, NEW up, Climbs(E, e, up)
    PROVE  ClimbIn(E, e) = up[MaxInode].parts
<1> DEFINE n == MaxInode
           first == [at |-> e[1], parts |-> <<e[2]>>]
           Is(f) == f = [k \in 0..n |-> IF k = 0 THEN first ELSE Up(E, f[k - 1])]
           w == CHOOSE f : Is(f)
<1>0. n \in Nat
  BY BoundsAssumption
<1>1. Is(up)
  BY <1>0 DEF Climbs
<1>2. Is(w)
  BY <1>1, ZenonT(60)
<1>3. ClimbIn(E, e) = w[n].parts
  BY DEF ClimbIn, Up
<1> HIDE DEF w
<1>4. w[0] = first /\ up[0] = first
  BY <1>0, <1>2 DEF Climbs
<1>5. ASSUME NEW k \in 1..n, w[k - 1] = up[k - 1]
      PROVE  w[k] = up[k]
  <2>1. w[k] = Up(E, w[k - 1])
    BY <1>0, <1>2
  <2>. QED  BY <1>5, <2>1 DEF Climbs
<1> HIDE DEF n, Is, first
<1>6. \A k \in 0..n : w[k] = up[k]
  <2> DEFINE S == {k \in 0..n : w[k] = up[k]}
  <2>1. 0 \in S
    BY <1>0, <1>4
  <2>2. ASSUME NEW k \in 1..n, k - 1 \in S PROVE k \in S
    <3>1. w[k - 1] = up[k - 1]
      BY <2>2
    <3>2. w[k] = up[k]
      BY <1>5, <3>1
    <3>3. k \in 0..n
      BY <1>0
    <3>. QED  BY <3>2, <3>3
  <2> HIDE DEF S
  <2>3. 0..n \subseteq S
    BY <1>0, <2>1, <2>2, UpToInduction
  <2>. QED  BY <2>3 DEF S
<1>7. n \in 0..n
  BY <1>0
<1>. QED  BY <1>3, <1>6, <1>7 DEF n

\* Above an inode there are all inodes but itself, at most.
LEMMA AncestryBound ==
    ASSUME Acyclic, NEW i \in Inodes
    PROVE  Cardinality(Ancestry(i)) \in Nat /\ Cardinality(Ancestry(i)) <= MaxInode - 1
<1>1. IsFiniteSet(Inodes) /\ Cardinality(Inodes) = MaxInode
  BY InodesCount
<1>2. Ancestry(i) \subseteq Inodes /\ i \notin Ancestry(i)
  BY NobodyAboveItself DEF Ancestry
<1>3. Cardinality(Ancestry(i)) \in Nat /\ Cardinality(Ancestry(i)) + 1 <= MaxInode
  BY <1>1, <1>2, Fewer
<1> DEFINE a == Cardinality(Ancestry(i))
<1>4. a \in Nat /\ a + 1 <= MaxInode
  BY <1>3
<1> HIDE DEF a
<1>5. a <= MaxInode - 1
  BY <1>4, BoundsAssumption
<1>. QED  BY <1>4, <1>5 DEF a

\* One turn up from a place is a place again: a directory that holds an entry
\* is the root or has a name itself.
LEMMA UpStays ==
    ASSUME DbInv, NEW s \in Places(entries)
    PROVE  /\ Up(entries, s) \in Places(entries)
           /\ s.at # ROOT_INODE =>
                 \E f \in LinksIn(entries, s.at) :
                    Up(entries, s) = [at |-> f[1], parts |-> <<f[2]>> \o s.parts]
<1> DEFINE f == CHOOSE f \in LinksIn(entries, s.at) : TRUE
<1>1. CASE s.at = ROOT_INODE
  BY <1>1 DEF Up
<1>2. CASE s.at # ROOT_INODE
  <2>1. f \in LinksIn(entries, s.at) /\ s.at \in Inodes /\ s.parts \in Seq(Names)
    BY <1>2 DEF Places
  <2>2. Up(entries, s) = [at |-> f[1], parts |-> <<f[2]>> \o s.parts]
    BY <1>2 DEF Up
  <2> HIDE DEF f
  <2>3. f[1] \in Inodes /\ f[2] \in Names /\ entries[f[1]][f[2]] = s.at /\ s.at # None
    BY <2>1 DEF LinksIn, Inodes, None
  <2>4. f[1] = ROOT_INODE \/ Named(f[1])
    BY <2>3 DEF DbInv, Occupied
  <2>5. Named(f[1]) => LinksIn(entries, f[1]) # {}
    <3> SUFFICES ASSUME Named(f[1]) PROVE LinksIn(entries, f[1]) # {}
      OBVIOUS
    <3>1. PICK p \in Inodes, n \in Names : entries[p][n] = f[1]
      BY DEF Named
    <3>2. <<p, n>> \in LinksIn(entries, f[1])
      BY <3>1 DEF LinksIn
    <3>. QED  BY <3>2
  <2>6. <<f[2]>> \o s.parts \in Seq(Names)
    BY <2>1, <2>3, ConsAppend
  <2>7. [at |-> f[1], parts |-> <<f[2]>> \o s.parts] \in Places(entries)
    BY <2>3, <2>4, <2>5, <2>6 DEF Places
  <2>. QED  BY <2>1, <2>2, <2>7
<1>. QED  BY <1>1, <1>2

\* An entry where the loop can begin.
IsEntry(e) == e \in Inodes \X Names /\ entries[e[1]][e[2]] # None

LEMMA EntryPlace ==
    ASSUME DbInv, NEW e, IsEntry(e)
    PROVE  [at |-> e[1], parts |-> <<e[2]>>] \in Places(entries)
<1>1. e[1] \in Inodes /\ e[2] \in Names /\ entries[e[1]][e[2]] # None
  BY DEF IsEntry
<1>2. e[1] = ROOT_INODE \/ Named(e[1])
  BY <1>1 DEF DbInv, Occupied
<1>3. Named(e[1]) => LinksIn(entries, e[1]) # {}
  <2> SUFFICES ASSUME Named(e[1]) PROVE LinksIn(entries, e[1]) # {}
    OBVIOUS
  <2>1. PICK p \in Inodes, n \in Names : entries[p][n] = e[1]
    BY DEF Named
  <2>2. <<p, n>> \in LinksIn(entries, e[1])
    BY <2>1 DEF LinksIn
  <2>. QED  BY <2>2
<1>4. <<e[2]>> \in Seq(Names)
  BY <1>1
<1>. QED  BY <1>1, <1>2, <1>3, <1>4 DEF Places

LEMMA ClimbsExist ==
    ASSUME DbInv, NEW e, IsEntry(e)
    PROVE  \E up : Climbs(entries, e, up)
<1> DEFINE V == Places(entries)
           n == MaxInode
           first == [at |-> e[1], parts |-> <<e[2]>>]
           D == [x \in V \X (1..n) |-> Up(entries, x[1])]
<1>1. n \in Nat /\ first \in V
  BY BoundsAssumption, EntryPlace
<1>2. \A v \in V : Up(entries, v) \in V
  BY UpStays
<1>3. StepsIn(D, V, n)
  BY <1>2 DEF StepsIn
<1>4. \A v \in V, k \in 1..n : D[<<v, k>>] = Up(entries, v)
  OBVIOUS
<1> HIDE DEF D, V, n, first
<1>5. PICK f : Recursion(f, first, D, V, n)
  BY <1>1, <1>3, RecursionExists
<1>6. ASSUME NEW k \in 1..n PROVE f[k] = Up(entries, f[k - 1])
  <2>1. f[k - 1] \in V
    BY <1>1, <1>5 DEF Recursion
  <2>. QED  BY <1>4, <1>5, <2>1 DEF Recursion
<1>7. Climbs(entries, e, f)
  BY <1>5, <1>6 DEF Recursion, Climbs, V, n, first
<1>. QED  BY <1>7

\* What the loop from e knows when it has come to s after k turns: whatever
\* path leads to where it is, with the parts it has goes on to the directory
\* of e; and it has passed k inodes that are not above s.at.
Knows(e, s, k) ==
    \E b \in Seq(Names) :
        /\ s.parts = Append(b, e[2])
        /\ \A q \in Seq(Names) :
              WalkIn(entries, q) = s.at => WalkIn(entries, q \o b) = e[1]
        /\ s.at # ROOT_INODE => Len(b) = k
        /\ Len(b) + Cardinality(Ancestry(s.at)) <= MaxInode - 1

LEMMA UpKnows ==
    ASSUME DbInv, NEW e, IsEntry(e), NEW s \in Places(entries), NEW k \in Nat,
           Knows(e, s, k)
    PROVE  Knows(e, Up(entries, s), k + 1)
<1>1. CASE s.at = ROOT_INODE
  BY <1>1 DEF Up, Knows
<1>2. CASE s.at # ROOT_INODE
  <2>1. PICK f \in LinksIn(entries, s.at) :
            Up(entries, s) = [at |-> f[1], parts |-> <<f[2]>> \o s.parts]
    BY <1>2, UpStays
  <2>2. f[1] \in Inodes /\ f[2] \in Names /\ entries[f[1]][f[2]] = s.at
        /\ s.at \in Inodes
    BY <2>1 DEF LinksIn, Places
  <2>3. PICK b \in Seq(Names) :
            /\ s.parts = Append(b, e[2])
            /\ \A q \in Seq(Names) :
                  WalkIn(entries, q) = s.at => WalkIn(entries, q \o b) = e[1]
            /\ Len(b) = k
            /\ Len(b) + Cardinality(Ancestry(s.at)) <= MaxInode - 1
    BY <1>2 DEF Knows
  <2> DEFINE c == <<f[2]>> \o b
  <2>4. c \in Seq(Names) /\ Len(c) = k + 1 /\ Append(c, e[2]) = <<f[2]>> \o s.parts
    BY <2>2, <2>3, ConsAppend DEF IsEntry
  <2>5. ASSUME NEW q \in Seq(Names), WalkIn(entries, q) = f[1]
        PROVE  WalkIn(entries, q \o c) = e[1]
    <3>1. q \o c = Append(q, f[2]) \o b
      BY <2>2, ConsMoves, SMTT(60)
    <3>2. Append(q, f[2]) \in Seq(Names)
      BY <2>2, FrontLast
    <3>3. entries \in Tables
      BY DEF DbInv, DbTypes, Tables
    <3>4. WalkIn(entries, Append(q, f[2])) = Down(entries, f[1], f[2])
      BY <2>2, <2>5, <3>3, WalkAppend
    <3>5. WalkIn(entries, Append(q, f[2])) = s.at
      BY <2>2, <3>4 DEF Down, Inodes, None
    <3> HIDE DEF c
    <3>. QED  BY <2>3, <3>1, <3>2, <3>5
  <2>6. Len(c) + Cardinality(Ancestry(f[1])) <= MaxInode - 1
    <3> DEFINE x == Cardinality(Ancestry(f[1]))
               y == Cardinality(Ancestry(s.at))
    <3>1. x \in Nat /\ y \in Nat /\ x + 1 <= y
      <4>1. f[1] \notin Ancestry(f[1])
        BY <2>2, NobodyAboveItself DEF DbInv
      <4>. QED  BY <2>2, <4>1, AncestryShrinks
    <3>2. k + y <= MaxInode - 1 /\ Len(c) = k + 1
      BY <2>3, <2>4
    <3> HIDE DEF x, y, c
    <3>3. Len(c) + x <= MaxInode - 1
      BY <3>1, <3>2, BoundsAssumption
    <3>. QED  BY <3>3 DEF x
  <2> HIDE DEF c
  <2>7. Up(entries, s).parts = Append(c, e[2]) /\ Up(entries, s).at = f[1]
    BY <2>1, <2>4
  <2>. QED  BY <2>4, <2>5, <2>6, <2>7 DEF Knows
<1>. QED  BY <1>1, <1>2

\* The path that the loop makes of an entry leads to the entry's directory and
\* from there to its name; and it is short enough for the loop to end.
LEMMA ClimbLeads ==
    ASSUME DbInv, NEW e, IsEntry(e)
    PROVE  \E b \in Seq(Names) :
              Climb(e) = Append(b, e[2]) /\ WalkIn(entries, b) = e[1] /\ Len(b) <= MaxInode - 1
<1>1. PICK up : Climbs(entries, e, up)
  BY ClimbsExist
<1>2. Climb(e) = up[MaxInode].parts
  BY <1>1, ClimbEnds, ClimbIsClimbIn
<1> DEFINE S == {k \in 0..MaxInode : Knows(e, up[k], k)}
<1>3. MaxInode \in Nat
  BY BoundsAssumption
<1>4. 0 \in S
  <2>1. <<>> \in Seq(Names) /\ Len(<<>>) = 0 /\ <<e[2]>> = Append(<<>>, e[2])
    OBVIOUS
  <2>2. up[0].parts = Append(<<>>, e[2]) /\ up[0].at = e[1]
    BY <1>1, <2>1 DEF Climbs
  <2>3. \A q \in Seq(Names) : q \o <<>> = q
    BY ConcatEmptySeq
  <2>4. Cardinality(Ancestry(e[1])) \in Nat /\ Cardinality(Ancestry(e[1])) <= MaxInode - 1
    BY AncestryBound DEF DbInv, IsEntry
  <2>5. Len(<<>>) + Cardinality(Ancestry(e[1])) <= MaxInode - 1
    BY <2>1, <2>4
  <2>6. Knows(e, up[0], 0)
    BY <2>1, <2>2, <2>3, <2>5 DEF Knows
  <2>. QED  BY <1>3, <2>6
<1>5. ASSUME NEW k \in 1..MaxInode, k - 1 \in S
      PROVE  k \in S
  <2>1. up[k - 1] \in Places(entries) /\ up[k] = Up(entries, up[k - 1])
    BY <1>1, <1>3 DEF Climbs
  <2>2. k - 1 \in Nat /\ (k - 1) + 1 = k /\ Knows(e, up[k - 1], k - 1)
    BY <1>5
  <2>3. Knows(e, up[k], (k - 1) + 1)
    BY <2>1, <2>2, UpKnows
  <2>. QED  BY <1>3, <2>2, <2>3
<1> HIDE DEF S
<1>6. MaxInode \in S
  BY <1>3, <1>4, <1>5, UpToInduction
<1>7. Knows(e, up[MaxInode], MaxInode) /\ up[MaxInode] \in Places(entries)
  BY <1>1, <1>3, <1>6 DEF S, Climbs
<1> DEFINE s == up[MaxInode]
<1> HIDE DEF s
<1>8. PICK b \in Seq(Names) :
          /\ s.parts = Append(b, e[2])
          /\ \A q \in Seq(Names) :
                WalkIn(entries, q) = s.at => WalkIn(entries, q \o b) = e[1]
          /\ s.at # ROOT_INODE => Len(b) = MaxInode
          /\ Len(b) + Cardinality(Ancestry(s.at)) <= MaxInode - 1
  BY <1>7 DEF Knows, s
<1>9. Cardinality(Ancestry(s.at)) \in Nat
  <2>1. s.at \in Inodes
    BY <1>7 DEF Places, s
  <2>. QED  BY <2>1, AncestryBound DEF DbInv
<1>10. Len(b) <= MaxInode - 1 /\ s.at = ROOT_INODE
  <2> DEFINE x == Cardinality(Ancestry(s.at))
  <2>1. x \in Nat /\ Len(b) \in Nat /\ Len(b) + x <= MaxInode - 1
        /\ (s.at # ROOT_INODE => Len(b) = MaxInode)
    BY <1>8, <1>9
  <2> HIDE DEF x
  <2>. QED  BY <1>3, <2>1
<1>11. WalkIn(entries, <<>>) = ROOT_INODE /\ <<>> \in Seq(Names) /\ <<>> \o b = b
  <2>1. entries \in Tables
    BY DEF DbInv, DbTypes, Tables
  <2>. QED  BY <2>1, WalkEmpty, ConcatEmptySeq
<1>12. WalkIn(entries, b) = e[1]
  BY <1>8, <1>10, <1>11
<1>. QED  BY <1>2, <1>8, <1>10, <1>12 DEF s

-----------------------------------------------------------------------------
(* Down and up fit together.                                               *)

LEMMA EntriesTable == DbInv => entries \in Tables
BY DEF DbInv, DbTypes, Tables

LEMMA EntriesTableNext == DbInv' => entries' \in Tables
BY DEF DbInv, DbTypes, Tables

\* A path of names that leads to something other than the root goes through
\* the entry of that.
LEMMA LastStep ==
    ASSUME NEW E \in Tables, NEW q \in Seq(Names), NEW n \in Names,
           WalkIn(E, Append(q, n)) # None
    PROVE  WalkIn(E, q) \in Inodes /\ E[WalkIn(E, q)][n] = WalkIn(E, Append(q, n))
<1>1. WalkIn(E, Append(q, n)) = Down(E, WalkIn(E, q), n)
  BY WalkAppend
<1>2. WalkIn(E, q) \in Inodes \cup {None}
  BY WalkType
<1>. QED  BY <1>1, <1>2 DEF Down

\* What path_for_inode and path_of_inode return leads back to the inode.
LEMMA PathLeads ==
    ASSUME DbInv, NEW i \in Inodes, NEW q \in path_for_inode(i)
    PROVE  /\ q \in Seq(Names) /\ WalkIn(entries, q) = i
           /\ \E b \in Seq(Names), e \in Links(i) :
                 q = Append(b, e[2]) /\ WalkIn(entries, b) = e[1] /\ Len(b) <= MaxInode - 1
<1>1. PICK e \in Links(i) : q = Climb(e)
  BY DEF path_for_inode
<1>2. e[1] \in Inodes /\ e[2] \in Names /\ entries[e[1]][e[2]] = i /\ i # None /\ IsEntry(e)
  BY <1>1 DEF Links, IsEntry, Inodes, None
<1>3. PICK b \in Seq(Names) :
          q = Append(b, e[2]) /\ WalkIn(entries, b) = e[1] /\ Len(b) <= MaxInode - 1
  BY <1>1, <1>2, ClimbLeads
<1>4. WalkIn(entries, q) = Down(entries, e[1], e[2])
  BY <1>2, <1>3, EntriesTable, WalkAppend
<1>5. WalkIn(entries, q) = i
  BY <1>2, <1>4 DEF Down, Inodes, None
<1>6. q \in Seq(Names)
  BY <1>2, <1>3, FrontLast
<1>. QED  BY <1>1, <1>3, <1>5, <1>6

LEMMA PathOfLeads ==
    ASSUME DbInv, NEW i \in Inodes, NEW q \in path_of_inode(i)
    PROVE  q \in Seq(Names) /\ WalkIn(entries, q) = i
<1>1. CASE i = ROOT_INODE
  BY <1>1, EntriesTable, WalkEmpty DEF path_of_inode
<1>2. CASE i # ROOT_INODE
  BY <1>2, PathLeads DEF path_of_inode
<1>. QED  BY <1>1, <1>2

\* The path of a directory that has one leads to it.
LEMMA DirPath ==
    ASSUME DbInv, NEW d \in Inodes, d = ROOT_INODE \/ Named(d)
    PROVE  PathOfDir(d) \in Seq(Names) /\ WalkIn(entries, PathOfDir(d)) = d
<1>1. Paths \subseteq Seq(Names)
  BY DEF Paths
<1>2. \E q \in Paths : WalkIn(entries, q) = d
  <2>1. CASE d = ROOT_INODE
    <3>1. <<>> \in [1..0 -> Names] /\ 0 \in 0..MaxInode
      BY BoundsAssumption
    <3>. QED  BY <2>1, <3>1, EntriesTable, WalkEmpty DEF Paths
  <2>2. CASE Named(d)
    <3>1. PICK p \in Inodes, n \in Names : entries[p][n] = d
      BY <2>2 DEF Named
    <3>2. <<p, n>> \in Links(d)
      BY <3>1 DEF Links
    <3> DEFINE q == Climb(<<p, n>>)
    <3>3. q \in path_for_inode(d)
      BY <3>2 DEF path_for_inode
    <3> HIDE DEF q
    <3>4. q \in Seq(Names) /\ WalkIn(entries, q) = d
      BY <3>3, PathLeads
    <3>5. PICK b \in Seq(Names), e \in Links(d) : q = Append(b, e[2]) /\ Len(b) <= MaxInode - 1
      BY <3>3, PathLeads
    <3>6. Len(q) = Len(b) + 1 /\ Len(b) \in Nat
      BY <3>5, FrontLast DEF Links
    <3>7. Len(q) \in 0..MaxInode
      BY <3>5, <3>6, BoundsAssumption
    <3>8. q \in [1..Len(q) -> Names]
      BY <3>4, LenProperties
    <3>9. q \in Paths
      BY <3>7, <3>8 DEF Paths
    <3>. QED  BY <3>4, <3>9
  <2>. QED  BY <2>1, <2>2
<1>3. \E q \in Paths : resolve_to_inode(q) = d
  BY <1>1, <1>2, Resolves
<1>4. PathOfDir(d) \in Paths /\ resolve_to_inode(PathOfDir(d)) = d
  BY <1>3 DEF PathOfDir
<1>. QED  BY <1>1, <1>4, Resolves

\* A directory has one path.
LEMMA OnePathPerDir ==
    ASSUME DbInv, NEW q \in Seq(Names), NEW r \in Seq(Names),
           WalkIn(entries, q) \in Inodes, kind[WalkIn(entries, q)] = "dir",
           WalkIn(entries, r) = WalkIn(entries, q)
    PROVE  r = q
<1>0. entries \in Tables /\ EntriesLive /\ OneNamePerDir
  BY EntriesTable DEF DbInv
<1> DEFINE W(s) == WalkIn(entries, s)
           S == {s \in Seq(Names) :
                    W(s) \in Inodes /\ kind[W(s)] = "dir"
                    => \A t \in Seq(Names) : W(t) = W(s) => t = s}
<1>1. \A s \in Seq(Names), n \in Names : W(Append(s, n)) # ROOT_INODE
  <2> SUFFICES ASSUME NEW s \in Seq(Names), NEW n \in Names, W(Append(s, n)) = ROOT_INODE
               PROVE  FALSE
    OBVIOUS
  <2>1. W(s) \in Inodes /\ entries[W(s)][n] = ROOT_INODE
    BY <1>0, LastStep DEF ROOT_INODE, None
  <2>. QED  BY <1>0, <2>1 DEF EntriesLive, ROOT_INODE, None
<1>2. W(<<>>) = ROOT_INODE
  BY <1>0, WalkEmpty
<1>3. <<>> \in S
  <2> SUFFICES ASSUME NEW t \in Seq(Names), W(t) = W(<<>>) PROVE t = <<>>
    OBVIOUS
  <2> HIDE DEF W
  <2> SUFFICES ASSUME t # <<>> PROVE FALSE
    OBVIOUS
  <2>1. PICK u \in Seq(Names), n \in Names : t = Append(u, n)
    BY EmptyOrAppend
  <2>. QED  BY <1>1, <1>2, <2>1
<1>4. ASSUME NEW s \in Seq(Names), NEW n \in Names, s \in S
      PROVE  Append(s, n) \in S
  <2> DEFINE a == Append(s, n)
  <2>0. a \in Seq(Names)
    BY FrontLast
  <2> SUFFICES ASSUME W(a) \in Inodes, kind[W(a)] = "dir",
                      NEW t \in Seq(Names), W(t) = W(a)
               PROVE  t = a
    BY <2>0
  <2>1. W(s) \in Inodes /\ entries[W(s)][n] = W(a)
    BY <1>0, LastStep DEF Inodes, None
  <2>2. kind[W(s)] = "dir"
    BY <1>0, <2>1 DEF EntriesLive, Inodes, None
  <2>3. t # <<>>
    BY <1>1, <1>2
  <2>4. PICK u \in Seq(Names), m \in Names : t = Append(u, m)
    BY <2>3, EmptyOrAppend
  <2>5. W(u) \in Inodes /\ entries[W(u)][m] = W(t)
    BY <1>0, <2>4, LastStep DEF Inodes, None
  <2>6. W(u) = W(s) /\ m = n
    BY <1>0, <2>1, <2>5 DEF OneNamePerDir
  <2>7. u = s
    BY <1>4, <2>1, <2>2, <2>6
  <2>. QED  BY <2>4, <2>6, <2>7
<1>5. q \in S
  <2> HIDE DEF S
  <2>1. Seq(Names) \subseteq S
    BY <1>3, <1>4, SeqInduction
  <2>. QED  BY <2>1
<1>. QED  BY <1>5

\* The paths path_of_inode may return, and the inodes they lead back to.
PathsMatchInodes ==
    \A i \in Inodes :
        /\ \A q \in path_of_inode(i) : resolve_to_inode(q) = i
        /\ kind[i] = "dir" /\ (i = ROOT_INODE \/ Named(i))
              => path_of_inode(i) = {PathOfDir(i)}

\* Whichever of its entries path_for_inode takes on the way up, resolve_to_inode
\* comes down to the same inode; a directory that has a name has exactly one
\* path.
THEOREM PathsLeadBack == Spec => []PathsMatchInodes
<1>1. IInv => PathsMatchInodes
  <2> SUFFICES ASSUME DbInv, NEW i \in Inodes
               PROVE  /\ \A q \in path_of_inode(i) : resolve_to_inode(q) = i
                      /\ kind[i] = "dir" /\ (i = ROOT_INODE \/ Named(i))
                            => path_of_inode(i) = {PathOfDir(i)}
    BY DEF PathsMatchInodes, IInv
  <2>1. \A q \in path_of_inode(i) : q \in Seq(Names) /\ WalkIn(entries, q) = i
    BY PathOfLeads
  <2>2. ASSUME kind[i] = "dir", i = ROOT_INODE \/ Named(i)
        PROVE  path_of_inode(i) = {PathOfDir(i)}
    <3>1. PathOfDir(i) \in Seq(Names) /\ WalkIn(entries, PathOfDir(i)) = i
      BY <2>2, DirPath
    <3>2. \A q \in path_of_inode(i) : q = PathOfDir(i)
      BY <2>1, <2>2, <3>1, OnePathPerDir
    <3>3. ASSUME Named(i) PROVE path_for_inode(i) # {}
      <4>1. PICK p \in Inodes, n \in Names : entries[p][n] = i
        BY <3>3 DEF Named
      <4>2. <<p, n>> \in Links(i)
        BY <4>1 DEF Links
      <4>. QED  BY <4>2 DEF path_for_inode
    <3>4. path_of_inode(i) # {}
      BY <2>2, <3>3 DEF path_of_inode
    <3>. QED  BY <3>2, <3>4
  <2>3. \A q \in path_of_inode(i) : resolve_to_inode(q) = i
    BY <2>1, Resolves
  <2>. QED  BY <2>2, <2>3
<1>. QED  BY <1>1, Invariant, PTL

\* F has every entry of E for a member of D, and D has the parents of its
\* members.
Keeps(E, F, D) ==
    /\ D \subseteq Inodes
    /\ \A c \in D, p \in Inodes, n \in Names : E[p][n] = c => p \in D /\ F[p][n] = c

\* A path into such a D leads where it led.
LEMMA StillLeads ==
    ASSUME NEW E \in Tables, NEW F \in Tables, NEW D, Keeps(E, F, D),
           NEW q \in Seq(Names), WalkIn(E, q) \in D
    PROVE  WalkIn(F, q) = WalkIn(E, q)
<1> DEFINE S == {s \in Seq(Names) : WalkIn(E, s) \in D => WalkIn(F, s) = WalkIn(E, s)}
<1>1. <<>> \in S
  BY WalkEmpty
<1>2. ASSUME NEW s \in Seq(Names), NEW n \in Names, s \in S
      PROVE  Append(s, n) \in S
  <2> DEFINE a == Append(s, n)
  <2>0. a \in Seq(Names)
    BY FrontLast
  <2> SUFFICES ASSUME WalkIn(E, a) \in D PROVE WalkIn(F, a) = WalkIn(E, a)
    BY <2>0
  <2>1. WalkIn(E, a) # None
    BY DEF Keeps, Inodes, None
  <2>2. WalkIn(E, s) \in Inodes /\ E[WalkIn(E, s)][n] = WalkIn(E, a)
    BY <2>1, LastStep
  <2>3. WalkIn(E, s) \in D /\ F[WalkIn(E, s)][n] = WalkIn(E, a)
    BY <2>2 DEF Keeps
  <2>4. WalkIn(F, s) = WalkIn(E, s)
    BY <1>2, <2>3
  <2>5. WalkIn(F, a) = Down(F, WalkIn(F, s), n)
    BY WalkAppend
  <2>. QED  BY <2>2, <2>3, <2>4, <2>5 DEF Down, Inodes, None
<1>3. q \in S
  <2> HIDE DEF S
  <2>1. Seq(Names) \subseteq S
    BY <1>1, <1>2, SeqInduction
  <2>. QED  BY <2>1
<1>. QED  BY <1>3

-----------------------------------------------------------------------------
(* The FUSE adapter.                                                       *)

\* The name at the end of a path and the directory in front of it.
LEMMA EntryAtAppend ==
    ASSUME NEW q \in Seq(Names), NEW n \in Names
    PROVE  EntryAt(Append(q, n)) = <<WalkIn(entries, q), n>>
BY FrontLast, Resolves DEF EntryAt

\* A callback for a name in an inode acts on that entry, or on nothing.
LEMMA TargetsAre ==
    ASSUME DbInv, NEW p \in Inodes, NEW n \in Names
    PROVE  Targets(p, n) \subseteq {<<p, n>>} /\ lookup(p, n) \subseteq {entries[p][n]}
<1> SUFFICES ASSUME NEW q \in path_of_inode(p)
             PROVE  /\ EntryAt(Append(q, n)) = <<p, n>>
                    /\ resolve_to_inode(Append(q, n)) = entries[p][n]
  BY DEF Targets, lookup, child_path
<1>1. q \in Seq(Names) /\ WalkIn(entries, q) = p
  BY PathOfLeads
<1>2. EntryAt(Append(q, n)) = <<p, n>>
  BY <1>1, EntryAtAppend
<1>3. Append(q, n) \in Seq(Names)
  BY <1>1, FrontLast
<1>4. resolve_to_inode(Append(q, n)) = WalkIn(entries, Append(q, n))
  BY <1>3, Resolves
<1>5. WalkIn(entries, Append(q, n)) = Down(entries, p, n)
  BY <1>1, EntriesTable, WalkAppend
<1>. QED  BY <1>2, <1>4, <1>5 DEF Down, Inodes, None

\* A callback for a node acts on one of its entries.
LEMMA HomesAre ==
    ASSUME DbInv, NEW i \in Inodes
    PROVE  Homes(i) \subseteq Links(i)
<1> SUFFICES ASSUME NEW q \in path_of_inode(i), q # <<>> PROVE EntryAt(q) \in Links(i)
  BY DEF Homes
<1>1. q \in path_for_inode(i)
  BY DEF path_of_inode
<1>2. PICK b \in Seq(Names), e \in Links(i) : q = Append(b, e[2]) /\ WalkIn(entries, b) = e[1]
  BY <1>1, PathLeads
<1>3. e[2] \in Names /\ e = <<e[1], e[2]>>
  BY DEF Links
<1>4. EntryAt(q) = <<WalkIn(entries, b), e[2]>>
  BY <1>2, <1>3, EntryAtAppend
<1>. QED  BY <1>2, <1>3, <1>4

\* What has a name has a path.
LEMMA NamedHasPath ==
    ASSUME DbInv, NEW i \in Inodes, Links(i) # {}
    PROVE  path_of_inode(i) \ {<<>>} # {}
<1>1. PICK e \in Links(i) : TRUE
  OBVIOUS
<1>2. e[1] \in Inodes /\ e[2] \in Names /\ entries[e[1]][e[2]] = i
  BY <1>1 DEF Links
<1>3. i # ROOT_INODE
  BY <1>2 DEF DbInv, EntriesLive, ROOT_INODE, None
<1> DEFINE q == Climb(e)
<1>4. q \in path_for_inode(i)
  BY DEF path_for_inode
<1> HIDE DEF q
<1>5. PICK b \in Seq(Names), f \in Links(i) : q = Append(b, f[2])
  BY <1>4, PathLeads
<1>6. q # <<>>
  BY <1>5, FrontLast DEF Links
<1>. QED  BY <1>3, <1>4, <1>6 DEF path_of_inode

\* The numbers that were given out are inodes.
LEMMA KnownInodes == DbInv => Known \subseteq Inodes
BY BoundsAssumption DEF DbInv, DbTypes, Known, Inodes

\* A callback is the library's operation on the entry the kernel meant.
LEMMA CallbackIsNext ==
    ASSUME DbInv, Callback
    PROVE  Next
<1>1. Known \subseteq Inodes
  BY KnownInodes
<1>2. ASSUME NEW p \in Known, NEW n \in Names, NEW e \in Targets(p, n)
      PROVE  e[1] \in Inodes /\ e[2] \in Names
  BY <1>1, TargetsAre
<1>3. ASSUME NEW i \in Known, NEW e \in Homes(i)
      PROVE  e[1] \in Inodes /\ e[2] \in Names
  BY <1>1, HomesAre DEF Links
<1>4. CASE Reclaim \/ ReclaimFails \/ \E f \in Fds : release(f)
  BY <1>4 DEF Next, release
<1>5. CASE \E i \in Known : open(i)
  BY <1>3, <1>5 DEF Next, open
<1>6. ASSUME NEW p \in Known, NEW n \in Names, mkdir(p, n) \/ rmdir(p, n) \/ create(p, n)
      PROVE  Next
  BY <1>2, <1>6 DEF Next, mkdir, rmdir, create
<1>7. ASSUME NEW p \in Known, NEW n \in Names, symlink(p, n) \/ unlink(p, n)
      PROVE  Next
  BY <1>2, <1>7 DEF Next, symlink, unlink
<1>8. ASSUME NEW p \in Known, NEW n \in Names, NEW i \in Known, link(i, p, n)
      PROVE  Next
  <2>1. PICK t \in Homes(i), e \in Targets(p, n) : Link(t[1], t[2], e[1], e[2])
    BY <1>8 DEF link
  <2>2. t[1] \in Inodes /\ t[2] \in Names
    BY <1>3
  <2>3. e[1] \in Inodes /\ e[2] \in Names
    BY <1>2
  <2>. QED  BY <2>1, <2>2, <2>3 DEF Next
<1>9. ASSUME NEW p \in Known, NEW m \in Names, NEW q \in Known, NEW n \in Names,
             rename(p, m, q, n)
      PROVE  Next
  <2>1. PICK s \in Targets(p, m), d \in Targets(q, n) :
            RenameMove(s[1], s[2], d[1], d[2]) \/ RenameReplace(s[1], s[2], d[1], d[2])
    BY <1>9 DEF rename
  <2>2. s[1] \in Inodes /\ s[2] \in Names
    BY <1>2
  <2>3. d[1] \in Inodes /\ d[2] \in Names
    BY <1>2
  <2>. QED  BY <2>1, <2>2, <2>3 DEF Next
<1>. QED  BY <1>4, <1>5, <1>6, <1>7, <1>8, <1>9 DEF Callback

\* Every step of the adapter is one of the library, or none.
LEMMA AStepIsNext ==
    ASSUME IInv, [ANext]_avars
    PROVE  [Next]_vars
<1>1. CASE Callback
  BY <1>1, CallbackIsNext DEF IInv
<1>2. CASE Remount
  BY <1>2 DEF Remount, Next
<1>3. CASE \/ \E d \in Inodes : Opendir(d)
           \/ \E k \in 1..Cardinality(Names) : Readdir(k)
           \/ Releasedir
  BY <1>3 DEF Opendir, Readdir, Releasedir, vars
<1>4. CASE UNCHANGED avars
  BY <1>4 DEF avars
<1>. QED  BY <1>1, <1>2, <1>3, <1>4 DEF ANext

\* The adapter keeps the invariant of the tree.
LEMMA AInvariant == ASpec => []IInv
<1>1. AInit => IInv
  BY InitInv DEF AInit
<1>2. IInv /\ [ANext]_avars => IInv'
  <2> SUFFICES ASSUME IInv, [ANext]_avars PROVE IInv'
    OBVIOUS
  <2>1. [Next]_vars
    BY AStepIsNext
  <2>. QED  BY <2>1, DbStep, SessionStep DEF IInv
<1>. QED  BY <1>1, <1>2, PTL DEF ASpec

\* The kernel's callbacks, by number and over paths, are operations of the
\* library on the entries the kernel meant: the adapter implements Namespace.
THEOREM AdapterImplements == ASpec => Spec
<1>1. AInit => Init
  BY DEF AInit
<1>2. IInv /\ [ANext]_avars => [Next]_vars
  BY AStepIsNext
<1>. QED  BY <1>1, <1>2, AInvariant, PTL DEF ASpec, Spec

\* Whatever number and name the kernel gives, and whichever hard link the way
\* over a path takes, the callback acts on the entry of that directory and
\* answers with that node; what has a name can be reached.
THEOREM CallbacksActWhereAsked == ASpec => []ActsWhereAsked
<1>1. IInv => ActsWhereAsked
  <2> SUFFICES ASSUME DbInv, NEW p \in Known
               PROVE  /\ \A n \in Names : /\ Targets(p, n) \subseteq {<<p, n>>}
                                          /\ lookup(p, n) \subseteq {entries[p][n]}
                      /\ getattr(p) \subseteq {p}
                      /\ \A e \in Homes(p) : entries[e[1]][e[2]] = p
                      /\ Links(p) # {} => Homes(p) # {} /\ \A n \in Names : Targets(p, n) # {}
    BY DEF ActsWhereAsked, IInv
  <2>1. p \in Inodes
    BY KnownInodes
  <2>2. \A n \in Names : Targets(p, n) \subseteq {<<p, n>>} /\ lookup(p, n) \subseteq {entries[p][n]}
    BY <2>1, TargetsAre
  <2>3. getattr(p) \subseteq {p}
    BY <2>1, PathOfLeads, Resolves DEF getattr
  <2>4. \A e \in Homes(p) : entries[e[1]][e[2]] = p
    BY <2>1, HomesAre DEF Links
  <2>5. ASSUME Links(p) # {} PROVE Homes(p) # {} /\ \A n \in Names : Targets(p, n) # {}
    BY <2>1, <2>5, NamedHasPath DEF Homes, Targets
  <2>. QED  BY <2>2, <2>3, <2>4, <2>5
<1>. QED  BY <1>1, AInvariant, PTL

-----------------------------------------------------------------------------
(* readdir.  The names are counted through: Order[k] is the k-th name.     *)

Indices == 1..Cardinality(Names)

\* The places up to k whose names are in d.
Upto(E, d, k) == {j \in 1..k : E[d][Order[j]] # None}
Rank(E, d, k) == Cardinality(Upto(E, d, k))

LEMMA RankNat ==
    ASSUME NEW E, NEW d, NEW k \in Nat
    PROVE  IsFiniteSet(Upto(E, d, k)) /\ Rank(E, d, k) \in Nat
<1>1. IsFiniteSet(1..k)
  <2>1. 1 \in Int /\ k \in Int
    OBVIOUS
  <2>. QED  BY <2>1, FS_Interval
<1>2. IsFiniteSet(Upto(E, d, k))
  BY <1>1, FS_Subset DEF Upto
<1>. QED  BY <1>2, FS_CardinalityType DEF Rank

\* The rank grows by one where a name is there.
LEMMA RankStep ==
    ASSUME NEW E, NEW d, NEW k \in Nat, k # 0
    PROVE  Rank(E, d, k) = IF E[d][Order[k]] = None THEN Rank(E, d, k - 1)
                                                    ELSE Rank(E, d, k - 1) + 1
<1>0. k - 1 \in Nat
  OBVIOUS
<1>1. CASE E[d][Order[k]] = None
  <2>1. Upto(E, d, k) = Upto(E, d, k - 1)
    BY <1>1 DEF Upto
  <2>. QED  BY <1>1, <2>1 DEF Rank
<1>2. CASE E[d][Order[k]] # None
  <2>1. Upto(E, d, k) = Upto(E, d, k - 1) \cup {k} /\ k \notin Upto(E, d, k - 1)
    BY <1>2 DEF Upto
  <2>2. IsFiniteSet(Upto(E, d, k - 1))
    BY <1>0, RankNat
  <2>3. Cardinality(Upto(E, d, k - 1) \cup {k}) = Cardinality(Upto(E, d, k - 1)) + 1
    BY <2>1, <2>2, FS_AddElement
  <2>. QED  BY <1>2, <2>1, <2>3 DEF Rank
<1>. QED  BY <1>1, <1>2

\* Where d2 lacks no name up to k that d has, the rank is no smaller.
LEMMA RankGrows ==
    ASSUME NEW E, NEW F, NEW d, NEW k \in Nat,
           \A j \in 1..k : E[d][Order[j]] # None => F[d][Order[j]] # None
    PROVE  Rank(E, d, k) <= Rank(F, d, k)
<1>1. Upto(E, d, k) \subseteq Upto(F, d, k)
  BY DEF Upto
<1>2. IsFiniteSet(Upto(F, d, k))
  BY RankNat
<1>. QED  BY <1>1, <1>2, FS_Subset DEF Rank

\* No name comes twice in the order.
LEMMA OrderInjective ==
    ASSUME NEW j \in Indices, NEW k \in Indices, Order[j] = Order[k]
    PROVE  j = k
<1> DEFINE N == Cardinality(Names)
<1>1. N \in Nat /\ IsFiniteSet(1..N) /\ Cardinality(1..N) = N
  <2>1. N \in Nat
    BY NamesAssumption, FS_CardinalityType
  <2> HIDE DEF N
  <2>. QED  BY <2>1, FS_Interval
<1>2. Order \in Surjection(1..N, Names)
  BY OrderAssumption DEF Surjection
<1>3. Order \in Injection(1..N, Names)
  BY <1>1, <1>2, NamesAssumption, FS_Surjection
<1>. QED  BY <1>3 DEF Injection, IsInjective, Indices

\* `list` of a given table.
ListIn(E, d) ==
    LET upto[k \in 0..Cardinality(Names)] ==
            IF k = 0 THEN <<>>
            ELSE IF E[d][Order[k]] = None THEN upto[k - 1]
            ELSE Append(upto[k - 1], Order[k])
    IN  upto[Cardinality(Names)]

LEMMA ListIsListIn == \A d : list(d) = ListIn(entries, d)
BY DEF list, ListIn

\* What the k-th turn does to the listing so far.
Entered(E, d, L, k) == IF E[d][Order[k]] = None THEN L ELSE Append(L, Order[k])

\* L lists the names up to k: each at its rank, and no others.
Lists(E, d, k, L) ==
    /\ L \in Seq(Names)
    /\ Len(L) = Rank(E, d, k)
    /\ \A i \in 1..k : E[d][Order[i]] # None =>
          Rank(E, d, i) \in 1..Len(L) /\ L[Rank(E, d, i)] = Order[i]
    /\ \A x \in 1..Len(L) : \E i \in 1..k : E[d][Order[i]] # None /\ Rank(E, d, i) = x

LEMMA ListsStep ==
    ASSUME NEW E, NEW d, NEW k \in Indices, NEW L, Lists(E, d, k - 1, L)
    PROVE  Lists(E, d, k, Entered(E, d, L, k))
<1>0. k \in Nat /\ k # 0 /\ k - 1 \in Nat /\ Order[k] \in Names
  <2>1. Order \in [1..Cardinality(Names) -> Names]
    BY OrderAssumption
  <2>. QED  BY <2>1 DEF Indices
<1>1. Rank(E, d, k) = IF E[d][Order[k]] = None THEN Rank(E, d, k - 1)
                                               ELSE Rank(E, d, k - 1) + 1
  BY <1>0, RankStep
<1>2. \A i \in 1..k : i # k => i \in 1..(k - 1)
  BY <1>0
<1>3. \A i \in 1..(k - 1) : i \in 1..k
  BY <1>0
<1>4. CASE E[d][Order[k]] = None
  BY <1>1, <1>2, <1>3, <1>4 DEF Lists, Entered
<1>5. CASE E[d][Order[k]] # None
  <2> DEFINE M == Append(L, Order[k])
             r == Rank(E, d, k - 1)
  <2>1. L \in Seq(Names) /\ Len(L) = r /\ r \in Nat
    BY <1>0, RankNat DEF Lists
  <2>2. /\ M \in Seq(Names) /\ Len(M) = r + 1 /\ M[r + 1] = Order[k]
        /\ \A i \in 1..r : M[i] = L[i]
    BY <1>0, <2>1, AppendProperties
  <2>3. Rank(E, d, k) = r + 1
    BY <1>1, <1>5
  <2>4. ASSUME NEW i \in 1..k, E[d][Order[i]] # None
        PROVE  Rank(E, d, i) \in 1..Len(M) /\ M[Rank(E, d, i)] = Order[i]
    <3>1. CASE i = k
      <4>1. r + 1 \in 1..(r + 1)
        BY <2>1
      <4>. QED  BY <2>2, <2>3, <3>1, <4>1
    <3>2. CASE i # k
      <4>1. i \in 1..(k - 1)
        BY <1>2, <3>2
      <4>2. Rank(E, d, i) \in 1..r /\ L[Rank(E, d, i)] = Order[i]
        BY <2>1, <2>4, <4>1 DEF Lists
      <4>3. Rank(E, d, i) \in 1..(r + 1)
        BY <2>1, <4>2
      <4>. QED  BY <2>2, <4>2, <4>3
    <3>. QED  BY <3>1, <3>2
  <2>5. ASSUME NEW x \in 1..Len(M)
        PROVE  \E i \in 1..k : E[d][Order[i]] # None /\ Rank(E, d, i) = x
    <3>1. CASE x = r + 1
      <4>1. k \in 1..k
        BY <1>0
      <4>. QED  BY <1>5, <2>3, <3>1, <4>1
    <3>2. CASE x # r + 1
      <4>1. x \in 1..Len(L)
        BY <2>1, <2>2, <3>2
      <4>2. PICK i \in 1..(k - 1) : E[d][Order[i]] # None /\ Rank(E, d, i) = x
        BY <4>1 DEF Lists
      <4>. QED  BY <1>3, <4>2
    <3>. QED  BY <3>1, <3>2
  <2>6. Entered(E, d, L, k) = M
    BY <1>5 DEF Entered
  <2> HIDE DEF M, r
  <2>7. Lists(E, d, k, M)
    BY <2>2, <2>3, <2>4, <2>5 DEF Lists
  <2>. QED  BY <2>6, <2>7
<1>. QED  BY <1>4, <1>5

\* list enters each name that is there, in order.
LEMMA ListLists ==
    ASSUME NEW E, NEW d
    PROVE  Lists(E, d, Cardinality(Names), ListIn(E, d))
<1> DEFINE n == Cardinality(Names)
           V == Seq(Names)
           D == [x \in V \X (1..n) |-> Entered(E, d, x[1], x[2])]
           Is(f) == f = [k \in 0..n |->
                            IF k = 0 THEN <<>> ELSE Entered(E, d, f[k - 1], k)]
           w == CHOOSE f : Is(f)
<1>0. n \in Nat /\ <<>> \in V
  BY NamesAssumption, FS_CardinalityType
<1>1. \A v \in V, k \in 1..n : Entered(E, d, v, k) \in V
  <2>1. \A k \in 1..n : Order[k] \in Names
    BY OrderAssumption
  <2>. QED  BY <2>1 DEF Entered
<1>2. StepsIn(D, V, n)
  BY <1>1 DEF StepsIn
<1>3. \A v \in V, k \in 1..n : D[<<v, k>>] = Entered(E, d, v, k)
  OBVIOUS
<1> HIDE DEF D
<1>4. ListIn(E, d) = w[n]
  BY DEF ListIn, Entered
<1> HIDE DEF V
<1>5. \E f : Recursion(f, <<>>, D, V, n)
  <2> HIDE DEF n
  <2>. QED  BY <1>0, <1>2, RecursionExists
<1>6. PICK f : Recursion(f, <<>>, D, V, n)
  BY <1>5
<1>7. \A k \in 1..n : f[k] = Entered(E, d, f[k - 1], k)
  <2> SUFFICES ASSUME NEW k \in 1..n PROVE f[k] = Entered(E, d, f[k - 1], k)
    OBVIOUS
  <2>1. f[k - 1] \in V
    BY <1>0, <1>6 DEF Recursion
  <2>. QED  BY <1>3, <1>6, <2>1 DEF Recursion
<1>8. Is(f)
  <2>1. f \in [0..n -> V] /\ f[0] = <<>>
    BY <1>6 DEF Recursion
  <2>. QED  BY <1>0, <1>7, <2>1
<1>9. Is(w)
  BY <1>8, ZenonT(60)
<1> HIDE DEF w
<1>10. w[0] = <<>>
  BY <1>0, <1>9
<1>11. \A k \in 1..n : w[k] = Entered(E, d, w[k - 1], k)
  BY <1>0, <1>9
<1> DEFINE S == {k \in 0..n : Lists(E, d, k, w[k])}
<1>12. 0 \in S
  <2>1. Rank(E, d, 0) = 0
    <3>1. Upto(E, d, 0) = {}
      BY DEF Upto
    <3>. QED  BY <3>1, FS_EmptySet DEF Rank
  <2>2. <<>> \in Seq(Names) /\ Len(<<>>) = 0 /\ 1..0 = {} /\ 0 \in 0..n
    BY <1>0
  <2>3. Lists(E, d, 0, <<>>)
    BY <2>1, <2>2 DEF Lists
  <2>. QED  BY <1>10, <2>2, <2>3
<1>13. \A k \in 1..n : k - 1 \in S => k \in S
  BY <1>0, <1>11, ListsStep DEF Indices
<1>14. n \in S
  <2> HIDE DEF S, n
  <2>1. 0..n \subseteq S
    BY <1>0, <1>12, <1>13, UpToInduction
  <2>. QED  BY <1>0, <2>1
<1>. QED  BY <1>4, <1>14

\* Where readdir has the k-th name: behind the two entries in front.
Place(E, d, k) == Rank(E, d, k) + 2

\* Each name that is there is listed at its place and nowhere else.
LEMMA Listed ==
    ASSUME NEW d, NEW k \in Indices, entries[d][Order[k]] # None
    PROVE  /\ Len(listing(d)) \in Nat
           /\ Place(entries, d, k) \in 1..Len(listing(d))
           /\ \A j \in 1..Len(listing(d)) :
                 listing(d)[j] = Order[k] <=> j = Place(entries, d, k)
<1> DEFINE L == ListIn(entries, d)
           n == Cardinality(Names)
           r == Rank(entries, d, k)
           T == Names \cup {".", ".."}
<1>1. Lists(entries, d, n, L)
  BY ListLists
<1>2. k \in 1..n /\ Order[k] \in Names
  BY OrderAssumption DEF Indices
<1>3. L \in Seq(Names) /\ r \in 1..Len(L) /\ L[r] = Order[k] /\ Len(L) \in Nat
  BY <1>1, <1>2 DEF Lists
<1>4. ASSUME NEW x \in 1..Len(L), L[x] = Order[k]
      PROVE  x = r
  <2>1. PICK i \in 1..n : entries[d][Order[i]] # None /\ Rank(entries, d, i) = x
    BY <1>1 DEF Lists
  <2>2. L[x] = Order[i]
    BY <1>1, <2>1 DEF Lists
  <2>3. i = k
    BY <1>2, <1>4, <2>2, OrderInjective DEF Indices
  <2>. QED  BY <2>1, <2>3
<1>5. listing(d) = <<".", "..">> \o L
  BY ListIsListIn DEF listing
<1>6. <<".", "..">> \in Seq(T) /\ L \in Seq(T) /\ Len(<<".", "..">>) = 2
  BY <1>3, SeqMonotonic
<1>7. Order[k] # "." /\ Order[k] # ".."
  BY <1>2, NameAssumption
<1>8. <<".", "..">>[1] = "." /\ <<".", "..">>[2] = ".."
  OBVIOUS
<1> DEFINE A == <<".", "..">>
<1> HIDE DEF L, n, r, T, A
<1>9. Len(A \o L) = Len(A) + Len(L)
      /\ \A j \in 1..(Len(A) + Len(L)) : (A \o L)[j] = IF j <= Len(A) THEN A[j] ELSE L[j - Len(A)]
  BY <1>6, ConcatProperties DEF A
<1>10. Len(A) = 2 /\ A[1] # Order[k] /\ A[2] # Order[k] /\ listing(d) = A \o L
  BY <1>5, <1>6, <1>7, <1>8 DEF A
<1>11. Len(listing(d)) = 2 + Len(L)
  BY <1>9, <1>10
<1>12. ASSUME NEW j \in 1..(2 + Len(L))
       PROVE  listing(d)[j] = Order[k] <=> j = r + 2
  <2>1. listing(d)[j] = IF j <= 2 THEN A[j] ELSE L[j - 2]
    BY <1>9, <1>10
  <2>2. CASE j <= 2
    <3>1. j = 1 \/ j = 2
      BY <1>3, <2>2
    <3>2. listing(d)[j] # Order[k]
      BY <1>10, <2>1, <2>2, <3>1
    <3>. QED  BY <1>3, <2>2, <3>2
  <2>3. CASE ~(j <= 2)
    <3>1. j - 2 \in 1..Len(L) /\ listing(d)[j] = L[j - 2]
      BY <1>3, <2>1, <2>3
    <3>2. L[j - 2] = Order[k] <=> j - 2 = r
      BY <1>3, <1>4, <3>1
    <3>. QED  BY <1>3, <3>1, <3>2
  <2>. QED  BY <2>2, <2>3
<1>13. Place(entries, d, k) = r + 2
  BY DEF Place, r
<1>14. r + 2 \in 1..(2 + Len(L)) /\ 2 + Len(L) \in Nat
  BY <1>3
<1>. QED  BY <1>11, <1>12, <1>13, <1>14

\* No name in front of the k-th is in S.
Spared(k, S) == \A j \in 1..(k - 1) : Order[j] \notin S

\* The k-th name, if it stayed: while no name in front came it was returned at
\* most once, and then the reader is past it; while none in front went, it was
\* returned unless the reader is yet to come to it.
NameFair(k) ==
    Order[k] \in stayed =>
        /\ entries[reading][Order[k]] # None
        /\ Spared(k, came) => /\ got[Order[k]] \in {0, 1}
                              /\ got[Order[k]] = 1 => Place(entries, reading, k) <= offset
        /\ Spared(k, went) /\ got[Order[k]] = 0 => offset < Place(entries, reading, k)

ReaderInv ==
    /\ reading \in Inodes \cup {None}
    /\ offset \in Nat
    /\ got \in [Names -> Nat]
    /\ stayed \subseteq Names
    /\ reading = None => stayed = {}
    /\ \A k \in Indices : NameFair(k)

\* How often a name is returned by a call: once if it is among the entries.
LEMMA Returned ==
    ASSUME NEW d, NEW k \in Indices, entries[d][Order[k]] # None,
           NEW o \in Nat, NEW c \in Nat, o + c <= Len(listing(d))
    PROVE  Cardinality({j \in (o + 1)..(o + c) : listing(d)[j] = Order[k]})
              = IF Place(entries, d, k) \in (o + 1)..(o + c) THEN 1 ELSE 0
<1> DEFINE J == {j \in (o + 1)..(o + c) : listing(d)[j] = Order[k]}
           p == Place(entries, d, k)
           m == Len(listing(d))
<1>1. m \in Nat /\ p \in 1..m /\ \A j \in 1..m : listing(d)[j] = Order[k] <=> j = p
  BY Listed
<1>2. o + c <= m
  OBVIOUS
<1>3. \A j \in (o + 1)..(o + c) : j \in 1..m
  BY <1>1, <1>2
<1>4. \A j \in (o + 1)..(o + c) : listing(d)[j] = Order[k] <=> j = p
  BY <1>1, <1>3
<1> HIDE DEF p, m
<1>5. CASE p \in (o + 1)..(o + c)
  <2>1. J = {p}
    BY <1>4, <1>5
  <2> HIDE DEF J
  <2>. QED  BY <1>5, <2>1, FS_Singleton DEF J, p
<1>6. CASE p \notin (o + 1)..(o + c)
  <2>1. J = {}
    BY <1>4, <1>6
  <2> HIDE DEF J
  <2>. QED  BY <1>6, <2>1, FS_EmptySet DEF J, p
<1>. QED  BY <1>5, <1>6

LEMMA IndicesNat == \A k \in Indices : k \in Nat /\ k # 0 /\ k - 1 \in Nat /\ Order[k] \in Names
<1>1. Order \in [1..Cardinality(Names) -> Names]
  BY OrderAssumption
<1>. QED  BY <1>1 DEF Indices

\* A call of readdir moves the reader on by what it returns.
LEMMA ReaddirFair ==
    ASSUME ReaderInv, NEW c \in Nat, Readdir(c)
    PROVE  ReaderInv'
<1>0. /\ reading' = reading /\ entries' = entries /\ stayed' = stayed
      /\ came' = came /\ went' = went /\ offset' = offset + c
      /\ reading # None /\ offset + c <= Len(listing(reading))
  BY DEF Readdir, vars
<1>1. offset \in Nat /\ offset' \in Nat /\ got \in [Names -> Nat]
  BY <1>0 DEF ReaderInv
<1> DEFINE J(n) == {j \in (offset + 1)..(offset + c) : listing(reading)[j] = n}
<1>2. got' = [n \in Names |-> got[n] + Cardinality(J(n))]
  BY DEF Readdir
<1>3. \A n \in Names : Cardinality(J(n)) \in Nat
  <2> TAKE n \in Names
  <2>1. IsFiniteSet((offset + 1)..(offset + c))
    BY <1>1, FS_Interval
  <2>2. J(n) \subseteq (offset + 1)..(offset + c)
    OBVIOUS
  <2> HIDE DEF J
  <2>. QED  BY <2>1, <2>2, FS_Subset, FS_CardinalityType
<1>4. got' \in [Names -> Nat]
  <2> HIDE DEF J
  <2>. QED  BY <1>1, <1>2, <1>3
<1>5. ASSUME NEW k \in Indices PROVE NameFair(k)'
  <2> DEFINE n == Order[k]
             p == Place(entries, reading, k)
  <2> SUFFICES ASSUME n \in stayed
               PROVE  /\ entries[reading][n] # None
                      /\ Spared(k, came) => got'[n] \in {0, 1} /\ (got'[n] = 1 => p <= offset')
                      /\ Spared(k, went) /\ got'[n] = 0 => offset' < p
    BY <1>0 DEF NameFair, Place, Rank, Upto, Spared
  <2>1. n \in Names
    BY IndicesNat
  <2>2. /\ entries[reading][n] # None
        /\ Spared(k, came) => got[n] \in {0, 1} /\ (got[n] = 1 => p <= offset)
        /\ Spared(k, went) /\ got[n] = 0 => offset < p
    BY DEF ReaderInv, NameFair
  <2>3. Cardinality(J(n)) = IF p \in (offset + 1)..(offset + c) THEN 1 ELSE 0
    <3>1. offset + c <= Len(listing(reading)) /\ entries[reading][Order[k]] # None
      BY <1>0, <2>2
    <3>2. Cardinality({j \in (offset + 1)..(offset + c) : listing(reading)[j] = Order[k]})
             = IF Place(entries, reading, k) \in (offset + 1)..(offset + c) THEN 1 ELSE 0
      BY <1>1, <3>1, Returned
    <3>. QED  BY <3>2
  <2>4. got'[n] = got[n] + (IF p \in (offset + 1)..(offset + c) THEN 1 ELSE 0)
    BY <1>2, <2>1, <2>3
  <2>5. p \in Nat /\ got[n] \in Nat
    <3>1. Rank(entries, reading, k) \in Nat
      BY RankNat, IndicesNat
    <3>. QED  BY <1>1, <2>1, <3>1 DEF Place
  <2> HIDE DEF n, p, J
  <2>. QED  BY <1>0, <1>1, <2>2, <2>4, <2>5
<1>. QED  BY <1>0, <1>1, <1>4, <1>5 DEF ReaderInv

\* What others do meanwhile: a name that goes in front of the k-th brings it
\* nearer, one that comes puts it further on.
LEMMA FollowedFair ==
    ASSUME ReaderInv, Followed
    PROVE  ReaderInv'
<1>0. reading' = reading /\ offset' = offset /\ got' = got
  BY DEF Followed
<1>1. CASE reading = None
  <2>1. stayed' = {} /\ stayed = {}
    BY <1>1 DEF Followed, ReaderInv
  <2>. QED  BY <1>0, <1>1, <2>1 DEF ReaderInv, NameFair
<1>2. CASE reading # None
  <2> DEFINE old == {n \in Names : entries[reading][n] # None}
             new == {n \in Names : entries'[reading][n] # None}
  <2>1. stayed' = stayed \cap new /\ came' = came \cup (new \ old) /\ went' = went \cup (old \ new)
    BY <1>2 DEF Followed
  <2>2. ASSUME NEW k \in Indices PROVE NameFair(k)'
    <3> DEFINE n == Order[k]
               p == Place(entries, reading, k)
               q == Place(entries', reading, k)
    <3> SUFFICES ASSUME n \in stayed'
                 PROVE  /\ entries'[reading][n] # None
                        /\ Spared(k, came') => got[n] \in {0, 1} /\ (got[n] = 1 => q <= offset)
                        /\ Spared(k, went') /\ got[n] = 0 => offset < q
      BY <1>0 DEF NameFair, Place, Rank, Upto, Spared
    <3>1. n \in stayed /\ entries'[reading][n] # None
      BY <2>1
    <3>2. /\ entries[reading][n] # None
          /\ Spared(k, came) => got[n] \in {0, 1} /\ (got[n] = 1 => p <= offset)
          /\ Spared(k, went) /\ got[n] = 0 => offset < p
      BY <3>1 DEF ReaderInv, NameFair
    <3>3. p \in Nat /\ q \in Nat /\ k \in Nat /\ offset \in Nat
          /\ \A j \in 1..k : Order[j] \in Names /\ (j = k \/ j \in 1..(k - 1))
      <4>1. Rank(entries, reading, k) \in Nat /\ Rank(entries', reading, k) \in Nat
        BY RankNat, IndicesNat
      <4>2. \A j \in 1..k : j \in Indices
        BY NamesAssumption, FS_CardinalityType DEF Indices
      <4>. QED  BY <4>1, <4>2, IndicesNat DEF Place, ReaderInv
    <3>4. ASSUME Spared(k, came') PROVE Spared(k, came) /\ q <= p
      <4>1. Spared(k, came)
        BY <2>1, <3>4 DEF Spared
      <4>2. \A j \in 1..k : entries'[reading][Order[j]] # None => entries[reading][Order[j]] # None
        BY <2>1, <3>2, <3>3, <3>4 DEF Spared
      <4>3. Rank(entries', reading, k) <= Rank(entries, reading, k)
        BY <3>3, <4>2, RankGrows
      <4>4. Rank(entries, reading, k) \in Nat /\ Rank(entries', reading, k) \in Nat
        BY RankNat, IndicesNat
      <4>. QED  BY <4>1, <4>3, <4>4 DEF Place
    <3>5. ASSUME Spared(k, went') PROVE Spared(k, went) /\ p <= q
      <4>1. Spared(k, went)
        BY <2>1, <3>5 DEF Spared
      <4>2. \A j \in 1..k : entries[reading][Order[j]] # None => entries'[reading][Order[j]] # None
        BY <2>1, <3>1, <3>3, <3>5 DEF Spared
      <4>3. Rank(entries, reading, k) <= Rank(entries', reading, k)
        BY <3>3, <4>2, RankGrows
      <4>4. Rank(entries, reading, k) \in Nat /\ Rank(entries', reading, k) \in Nat
        BY RankNat, IndicesNat
      <4>. QED  BY <4>1, <4>3, <4>4 DEF Place
    <3> HIDE DEF n, p, q
    <3>. QED  BY <3>1, <3>2, <3>3, <3>4, <3>5
  <2>3. stayed' \subseteq Names
    BY <2>1 DEF ReaderInv
  <2>. QED  BY <1>0, <1>2, <2>2, <2>3 DEF ReaderInv
<1>. QED  BY <1>1, <1>2

\* opendir begins in front of the first entry.
LEMMA OpendirFair ==
    ASSUME ReaderInv, NEW d \in Inodes, Opendir(d)
    PROVE  ReaderInv'
<1>0. /\ reading' = d /\ offset' = 0 /\ got' = [n \in Names |-> 0]
      /\ stayed' = {n \in Names : entries[d][n] # None} /\ entries' = entries
  BY DEF Opendir, vars
<1>1. ASSUME NEW k \in Indices PROVE NameFair(k)'
  <2>1. Order[k] \in Names /\ Rank(entries, d, k) \in Nat
    BY IndicesNat, RankNat
  <2>2. got'[Order[k]] = 0 /\ 0 < Place(entries, d, k)
    BY <1>0, <2>1 DEF Place
  <2>3. Place(entries', reading', k) = Place(entries, d, k)
    BY <1>0
  <2> HIDE DEF Place
  <2>. QED  BY <1>0, <2>2, <2>3 DEF NameFair, Place
<1>2. d # None
  BY DEF Inodes, None
<1>. QED  BY <1>0, <1>1, <1>2 DEF ReaderInv

\* Without a reader there is nothing to say.
LEMMA NoReaderFair ==
    ASSUME reading' = None, offset' = 0, got' = [n \in Names |-> 0], stayed' = {}
    PROVE  ReaderInv'
BY DEF ReaderInv, NameFair

LEMMA ReaderStep == ReaderInv /\ [ANext]_avars => ReaderInv'
<1> SUFFICES ASSUME ReaderInv, [ANext]_avars PROVE ReaderInv'
  OBVIOUS
<1>1. CASE Callback /\ Followed
  BY <1>1, FollowedFair
<1>2. CASE Remount
  BY <1>2, NoReaderFair DEF Remount
<1>3. ASSUME NEW d \in Inodes, Opendir(d) PROVE ReaderInv'
  BY <1>3, OpendirFair
<1>4. ASSUME NEW k \in 1..Cardinality(Names), Readdir(k) PROVE ReaderInv'
  <2>1. k \in Nat
    BY NamesAssumption, FS_CardinalityType
  <2>. QED  BY <1>4, <2>1, ReaddirFair
<1>5. CASE Releasedir
  BY <1>5, NoReaderFair DEF Releasedir
<1>6. CASE UNCHANGED avars
  BY <1>6 DEF avars, vars, reader, ReaderInv, NameFair, Place, Rank, Upto, Spared
<1>. QED  BY <1>1, <1>2, <1>3, <1>4, <1>5, <1>6 DEF ANext

\* However the replies are cut and whatever happens to the directory between
\* them: a reader gets twice only what another name has come in front of, and
\* misses only what another has gone in front of; and ".." is one directory.
THEOREM ReadersMissOnlyShifted == ASpec => []ReaddirMissesOnlyShifted
<1>1. AInit => ReaderInv
  BY DEF AInit, ReaderInv, NameFair
<1>2. ASpec => []ReaderInv
  BY <1>1, ReaderStep, PTL DEF ASpec
<1>3. IInv /\ ReaderInv => ReaddirMissesOnlyShifted
  <2> SUFFICES ASSUME IInv, ReaderInv, NEW n \in stayed
               PROVE  /\ got[n] > 1 => \E m \in came : Precedes(m, n)
                      /\ got[n] = 0 /\ offset >= Len(listing(reading))
                            => \E m \in went : Precedes(m, n)
                      /\ Cardinality(dotdot(reading)) = 1
    BY DEF ReaddirMissesOnlyShifted
  <2>1. PICK k \in Indices : Order[k] = n
    BY OrderAssumption DEF ReaderInv, Indices
  <2>2. NameFair(k) /\ n \in Names /\ reading \in Inodes /\ offset \in Nat /\ got[n] \in Nat
    BY <2>1 DEF ReaderInv
  <2>3. \A j \in 1..(k - 1) : Precedes(Order[j], n)
    <3>1. \A j \in 1..(k - 1) : j \in 1..Cardinality(Names) /\ k \in 1..Cardinality(Names) /\ j < k
      BY <2>1, NamesAssumption, FS_CardinalityType DEF Indices
    <3>2. DOMAIN Order = 1..Cardinality(Names)
      BY OrderAssumption
    <3>. QED  BY <2>1, <3>1, <3>2 DEF Precedes
  <2>4. ASSUME \A m \in came : ~Precedes(m, n) PROVE got[n] \in {0, 1}
    BY <2>1, <2>2, <2>3, <2>4 DEF NameFair, Spared
  <2>5. ASSUME \A m \in went : ~Precedes(m, n), got[n] = 0
        PROVE  offset < Len(listing(reading))
    <3>1. offset < Place(entries, reading, k) /\ entries[reading][Order[k]] # None
      BY <2>1, <2>2, <2>3, <2>5 DEF NameFair, Spared
    <3>2. Place(entries, reading, k) \in 1..Len(listing(reading)) /\ Len(listing(reading)) \in Nat
      BY <3>1, Listed
    <3> DEFINE p == Place(entries, reading, k)
               m == Len(listing(reading))
    <3>3. p \in 1..m /\ m \in Nat /\ offset < p
      BY <3>1, <3>2
    <3> HIDE DEF p, m
    <3>4. offset < m
      BY <2>2, <3>3
    <3>. QED  BY <3>4 DEF m
  <2>6. Cardinality(dotdot(reading)) = 1
    <3>0. DbInv /\ EntriesLive /\ OneNamePerDir
      BY DEF IInv, DbInv
    <3>1. entries[reading][n] # None
      BY <2>1, <2>2 DEF NameFair
    <3>2. kind[reading] = "dir" /\ (reading = ROOT_INODE \/ Named(reading))
      BY <2>2, <3>0, <3>1 DEF DbInv, EntriesLive, Occupied
    <3>3. CASE reading = ROOT_INODE
      BY <3>3, FS_Singleton DEF dotdot
    <3>4. CASE reading # ROOT_INODE
      <4>1. Links(reading) # {}
        <5>1. PICK p \in Inodes, m \in Names : entries[p][m] = reading
          BY <3>2, <3>4 DEF Named
        <5>2. <<p, m>> \in Links(reading)
          BY <5>1 DEF Links
        <5>. QED  BY <5>2
      <4>2. Homes(reading) # {}
        BY <2>2, <3>0, <4>1, NamedHasPath DEF Homes
      <4>3. PICK e \in Homes(reading) : TRUE
        BY <4>2
      <4>4. \A f \in Homes(reading) : f[1] = e[1]
        <5>1. \A f \in Homes(reading) :
                  f[1] \in Inodes /\ f[2] \in Names /\ entries[f[1]][f[2]] = reading
          BY <2>2, <3>0, HomesAre DEF Links
        <5>. QED  BY <2>2, <3>0, <3>2, <4>3, <5>1 DEF OneNamePerDir
      <4>5. dotdot(reading) = {e[1]}
        BY <3>4, <4>3, <4>4 DEF dotdot
      <4>. QED  BY <4>5, FS_Singleton
    <3>. QED  BY <3>3, <3>4
  <2>. QED  BY <2>2, <2>4, <2>5, <2>6
<1>. QED  BY <1>2, <1>3, AInvariant, PTL

-----------------------------------------------------------------------------
(* Watchers: replaying a queue.                                            *)

Listings == [Names -> Inodes \cup {None}]

\* What is put into a queue.  A path may have a slash at its end.
Events ==
    {e \in [kind : Kinds, paths : Seq(Seq(Names \cup {""})), inode : Inodes \cup {None}] :
        Len(e.paths) = IF e.kind = "Move" THEN 2 ELSE 1}

\* The listing m after the events of q.
ReplayIn(m, p, q) ==
    LET after[k \in 0..Len(q)] == IF k = 0 THEN m ELSE Applied(after[k - 1], p, q[k])
    IN  after[Len(q)]

LEMMA ReplayedIsReplayIn ==
    \A w : Replayed(w) = ReplayIn(mirror[w], slots[w].path, queue[w])
BY DEF Replayed, ReplayIn

LEMMA ReplayedIsReplayInNext ==
    \A w : Replayed(w)' = ReplayIn(mirror'[w], slots'[w].path, queue'[w])
BY DEF Replayed, ReplayIn

\* r holds the listings on the way.
Replays(m, p, q, r) ==
    /\ r \in [0..Len(q) -> Listings]
    /\ r[0] = m
    /\ \A k \in 1..Len(q) : r[k] = Applied(r[k - 1], p, q[k])

LEMMA AppliedType ==
    ASSUME NEW m \in Listings, NEW p, NEW e, e.inode \in Inodes \cup {None}
    PROVE  Applied(m, p, e) \in Listings
<1> SUFFICES ASSUME NEW n \in Names PROVE Applied(m, p, e)[n] \in Inodes \cup {None}
  BY DEF Applied, Listings
<1>1. m[n] \in Inodes \cup {None}
  BY DEF Listings
<1>. QED  BY <1>1 DEF Applied

LEMMA ReplaysExist ==
    ASSUME NEW m \in Listings, NEW p, NEW q \in Seq(Events)
    PROVE  \E r : Replays(m, p, q, r)
<1> DEFINE V == Listings
           n == Len(q)
           D == [x \in V \X (1..n) |-> Applied(x[1], p, q[x[2]])]
<1>1. n \in Nat
  OBVIOUS
<1>2. \A v \in V, k \in 1..n : Applied(v, p, q[k]) \in V
  <2> SUFFICES ASSUME NEW v \in V, NEW k \in 1..n PROVE Applied(v, p, q[k]) \in V
    OBVIOUS
  <2>1. q[k] \in Events
    OBVIOUS
  <2>2. q[k].inode \in Inodes \cup {None}
    BY <2>1 DEF Events
  <2>. QED  BY <2>2, AppliedType
<1>3. StepsIn(D, V, n)
  BY <1>2 DEF StepsIn
<1>4. \A v \in V, k \in 1..n : D[<<v, k>>] = Applied(v, p, q[k])
  OBVIOUS
<1> HIDE DEF D, V, n
<1>5. PICK f : Recursion(f, m, D, V, n)
  BY <1>1, <1>3, RecursionExists DEF V
<1>6. ASSUME NEW k \in 1..n PROVE f[k] = Applied(f[k - 1], p, q[k])
  <2>1. f[k - 1] \in V
    BY <1>1, <1>5 DEF Recursion
  <2>. QED  BY <1>4, <1>5, <2>1 DEF Recursion
<1>7. Replays(m, p, q, f)
  BY <1>5, <1>6 DEF Recursion, Replays, V, n
<1>. QED  BY <1>7

LEMMA ReplayEnds ==
    ASSUME NEW m, NEW p, NEW q \in Seq(Events), NEW r, Replays(m, p, q, r)
    PROVE  ReplayIn(m, p, q) = r[Len(q)]
<1> DEFINE n == Len(q)
           Is(f) == f = [k \in 0..n |-> IF k = 0 THEN m ELSE Applied(f[k - 1], p, q[k])]
           w == CHOOSE f : Is(f)
<1>0. n \in Nat
  OBVIOUS
<1>1. Is(r)
  BY <1>0 DEF Replays
<1>2. Is(w)
  BY <1>1, ZenonT(60)
<1>3. ReplayIn(m, p, q) = w[n]
  BY DEF ReplayIn
<1> HIDE DEF w
<1>4. w[0] = m /\ r[0] = m
  BY <1>0, <1>2 DEF Replays
<1>5. ASSUME NEW k \in 1..n, w[k - 1] = r[k - 1]
      PROVE  w[k] = r[k]
  <2>1. w[k] = Applied(w[k - 1], p, q[k])
    BY <1>0, <1>2
  <2>. QED  BY <1>5, <2>1 DEF Replays
<1> HIDE DEF n, Is
<1>6. \A k \in 0..n : w[k] = r[k]
  <2> DEFINE S == {k \in 0..n : w[k] = r[k]}
  <2>1. 0 \in S
    BY <1>0, <1>4
  <2>2. ASSUME NEW k \in 1..n, k - 1 \in S PROVE k \in S
    <3>1. w[k - 1] = r[k - 1]
      BY <2>2
    <3>2. w[k] = r[k]
      BY <1>5, <3>1
    <3>3. k \in 0..n
      BY <1>0
    <3>. QED  BY <3>2, <3>3
  <2> HIDE DEF S
  <2>3. 0..n \subseteq S
    BY <1>0, <2>1, <2>2, UpToInduction
  <2>. QED  BY <2>3 DEF S
<1>7. n \in 0..n
  BY <1>0
<1>. QED  BY <1>3, <1>6, <1>7 DEF n

\* Nothing waits: nothing changes.
LEMMA ReplayEmpty ==
    ASSUME NEW m \in Listings, NEW p
    PROVE  ReplayIn(m, p, <<>>) = m
<1>1. <<>> \in Seq(Events) /\ Len(<<>>) = 0
  OBVIOUS
<1>2. PICK r : Replays(m, p, <<>>, r)
  BY <1>1, ReplaysExist
<1>. QED  BY <1>1, <1>2, ReplayEnds DEF Replays

LEMMA ReplayType ==
    ASSUME NEW m \in Listings, NEW p, NEW q \in Seq(Events)
    PROVE  ReplayIn(m, p, q) \in Listings
<1>1. PICK r : Replays(m, p, q, r)
  BY ReplaysExist
<1>2. Len(q) \in 0..Len(q)
  OBVIOUS
<1>. QED  BY <1>1, <1>2, ReplayEnds DEF Replays

\* An event more at the end is applied last.
LEMMA ReplayAppend ==
    ASSUME NEW m \in Listings, NEW p, NEW q \in Seq(Events), NEW e \in Events
    PROVE  ReplayIn(m, p, Append(q, e)) = Applied(ReplayIn(m, p, q), p, e)
<1> DEFINE a == Append(q, e)
           n == Len(q)
<1>1. PICK r : Replays(m, p, a, r)
  <2>1. a \in Seq(Events)
    BY AppendProperties
  <2> HIDE DEF a
  <2>. QED  BY <2>1, ReplaysExist
<1>2. n \in Nat /\ a \in Seq(Events) /\ Len(a) = n + 1
      /\ (\A k \in 1..n : a[k] = q[k]) /\ a[n + 1] = e
  BY AppendProperties
<1> HIDE DEF a, n
<1>3. ReplayIn(m, p, a) = r[n + 1]
  BY <1>1, <1>2, ReplayEnds
<1>4. r[n + 1] = Applied(r[n], p, e)
  <2>1. n + 1 \in 1..Len(a) /\ (n + 1) - 1 = n
    BY <1>2
  <2>. QED  BY <1>1, <1>2, <2>1 DEF Replays
<1> DEFINE s == [k \in 0..n |-> r[k]]
<1>5. Replays(m, p, q, s)
  <2>1. \A k \in 0..n : k \in 0..Len(a)
    BY <1>2
  <2>2. s \in [0..n -> Listings] /\ s[0] = m
    BY <1>1, <1>2, <2>1 DEF Replays
  <2>3. ASSUME NEW k \in 1..n PROVE s[k] = Applied(s[k - 1], p, q[k])
    <3>1. k \in 1..Len(a) /\ k \in 0..n /\ k - 1 \in 0..n
      BY <1>2
    <3>2. r[k] = Applied(r[k - 1], p, a[k])
      BY <1>1, <3>1 DEF Replays
    <3>. QED  BY <1>2, <3>1, <3>2
  <2> HIDE DEF s
  <2>. QED  BY <2>2, <2>3 DEF Replays, n
<1>6. ReplayIn(m, p, q) = s[n]
  <2> HIDE DEF s
  <2>. QED  BY <1>5, ReplayEnds DEF n
<1>7. s[n] = r[n]
  BY <1>2
<1>. QED  BY <1>3, <1>4, <1>6, <1>7 DEF a

\* The first event can be applied ahead.
LEMMA ReplayTail ==
    ASSUME NEW m \in Listings, NEW p, NEW q \in Seq(Events), q # <<>>
    PROVE  /\ Head(q) \in Events /\ Tail(q) \in Seq(Events) /\ Len(Tail(q)) = Len(q) - 1
           /\ Applied(m, p, Head(q)) \in Listings
           /\ ReplayIn(Applied(m, p, Head(q)), p, Tail(q)) = ReplayIn(m, p, q)
<1> DEFINE t == Tail(q)
           n == Len(t)
           h == Applied(m, p, Head(q))
<1>1. /\ t \in Seq(Events) /\ Len(q) = n + 1 /\ n \in Nat /\ Head(q) = q[1] /\ Head(q) \in Events
      /\ \A k \in 1..n : t[k] = q[k + 1]
  BY HeadTailProperties
<1>2. h \in Listings
  <2>1. Head(q).inode \in Inodes \cup {None}
    BY <1>1 DEF Events
  <2>. QED  BY <2>1, AppliedType
<1>3. PICK r : Replays(m, p, q, r)
  BY ReplaysExist
<1>4. ReplayIn(m, p, q) = r[n + 1]
  BY <1>1, <1>3, ReplayEnds
<1> HIDE DEF t, n
<1> DEFINE s == [k \in 0..n |-> r[k + 1]]
<1>5. \A k \in 0..n : k + 1 \in 0..Len(q) /\ k + 1 \in 1..Len(q)
  BY <1>1
<1>6. s \in [0..n -> Listings]
  BY <1>3, <1>5 DEF Replays
<1>7. s[0] = h
  <2>1. r[1] = Applied(r[0], p, q[1]) /\ r[0] = m
    <3>1. 1 \in 1..Len(q) /\ 1 - 1 = 0
      BY <1>1
    <3>. QED  BY <1>3, <3>1 DEF Replays
  <2>. QED  BY <1>1, <2>1
<1>8. ASSUME NEW k \in 1..n PROVE s[k] = Applied(s[k - 1], p, t[k])
  <2>1. k \in 0..n /\ k - 1 \in 0..n /\ k + 1 \in 1..Len(q) /\ (k + 1) - 1 = k /\ (k - 1) + 1 = k
    BY <1>1
  <2>2. r[k + 1] = Applied(r[k], p, q[k + 1])
    BY <1>3, <2>1 DEF Replays
  <2>. QED  BY <1>1, <2>1, <2>2
<1>9. s[n] = r[n + 1]
  BY <1>1
<1> HIDE DEF s, h
<1>10. Replays(h, p, t, s)
  BY <1>6, <1>7, <1>8 DEF Replays, n
<1>11. ReplayIn(h, p, t) = s[n]
  BY <1>1, <1>10, ReplayEnds DEF n
<1>12. n = Len(q) - 1
  BY <1>1
<1>. QED  BY <1>1, <1>2, <1>4, <1>9, <1>11, <1>12 DEF h, t, n

-----------------------------------------------------------------------------
(* Watchers: what a name is spelled like.                                  *)

\* The directory of a path and of one that begins there.
LEMMA ParentOfAppend ==
    ASSUME NEW b \in Seq(Names), NEW n \in Names
    PROVE  parent_of_path(Append(b, n)) = b
<1>1. Len(Append(b, n)) = Len(b) + 1 /\ Len(b) \in Nat /\ Front(Append(b, n)) = b
  BY FrontLast
<1>2. CASE b = <<>>
  BY <1>1, <1>2 DEF parent_of_path
<1>3. CASE b # <<>>
  BY <1>1, <1>3 DEF parent_of_path
<1>. QED  BY <1>2, <1>3

LEMMA PrefixOfAppend ==
    ASSUME NEW b \in Seq(Names), NEW n \in Names
    PROVE  IsStrictPrefix(b, Append(b, n))
<1> DEFINE a == Append(b, n)
           m == Len(b)
<1>1. a \in Seq(Names) /\ Len(a) = m + 1 /\ m \in Nat /\ \A k \in 1..m : a[k] = b[k]
  BY AppendProperties
<1>2. \A k \in 1..m : b[k] \in Names /\ a[k] \in Names
  BY <1>1
<1> HIDE DEF a
<1>3. /\ SubSeq(a, 1, m) \in Seq(Names)
      /\ Len(SubSeq(a, 1, m)) = IF 1 <= m THEN m - 1 + 1 ELSE 0
      /\ \A k \in 1..(m - 1 + 1) : SubSeq(a, 1, m)[k] = a[1 + k - 1]
  BY <1>1, <1>2, SubSeqProperties
<1>4. /\ SubSeq(b, 1, m) \in Seq(Names)
      /\ Len(SubSeq(b, 1, m)) = IF 1 <= m THEN m - 1 + 1 ELSE 0
      /\ \A k \in 1..(m - 1 + 1) : SubSeq(b, 1, m)[k] = b[1 + k - 1]
  BY <1>1, <1>2, SubSeqProperties
<1>5. \A k \in 1..m : a[1 + k - 1] = b[1 + k - 1] /\ k \in 1..(m - 1 + 1)
  BY <1>1
<1>6. Len(SubSeq(a, 1, m)) = m /\ Len(SubSeq(b, 1, m)) = m
  BY <1>1, <1>3, <1>4
<1>7. SubSeq(a, 1, m) = SubSeq(b, 1, m)
  BY <1>3, <1>4, <1>5, <1>6, SeqEqual
<1>8. a # b /\ m <= Len(a)
  BY <1>1
<1>. QED  BY <1>7, <1>8 DEF IsStrictPrefix, IsPrefix, a

\* A directory an operation works in: its path, and where that leads.
LEMMA ParentPath ==
    ASSUME DbInv, NEW p \in Inodes, ResolvesParent(p)
    PROVE  PathOfDir(p) \in Seq(Names) /\ WalkIn(entries, PathOfDir(p)) = p
BY ResolvableNamed, DirPath DEF ResolvesParent

\* q is a path for name n in p: b and n, with or without a slash.
Spells(q, p, n, b) ==
    /\ b \in Seq(Names)
    /\ WalkIn(entries, b) = p
    /\ q = Append(b, n) \/ q = Append(b, n) \o <<"">>

LEMMA SpellingsSpell ==
    ASSUME DbInv, NEW p \in Inodes, ResolvesParent(p), NEW n \in Names,
           NEW q \in Spellings(p, n)
    PROVE  Spells(q, p, n, PathOfDir(p))
BY ParentPath DEF Spells, Spellings

\* What a spelling is: a path of names and perhaps an empty one.
LEMMA SpelledPath ==
    ASSUME NEW p, NEW n \in Names, NEW q, NEW b, Spells(q, p, n, b)
    PROVE  /\ q \in Seq(Names \cup {""})
           /\ Append(b, n) \in Seq(Names)
           /\ q # parse_path(q) => \A P \in Seq(Names), m \in Names : Append(P, m) # q
<1> DEFINE a == Append(b, n)
           T == Names \cup {""}
           z == ""
<1>1. b \in Seq(Names) /\ (q = a \/ q = a \o <<z>>)
  BY DEF Spells
<1>2. a \in Seq(Names)
  BY <1>1, FrontLast
<1> HIDE DEF a
<1>4. parse_path(a) = a /\ parse_path(a \o <<z>>) = a
  BY <1>2, ParsePath
<1>5. a \in Seq(T) /\ z \in T
  BY <1>2, SeqMonotonic
<1>6. z \notin Names
  BY NameAssumption
<1> HIDE DEF T, z
<1>7. a \o <<z>> = Append(a, z)
  BY <1>5, AppendIsConcat
<1>8. Append(a, z) \in Seq(T) /\ Last(Append(a, z)) = z
  BY <1>5, FrontLast
<1>9. \A P \in Seq(Names), m \in Names : Last(Append(P, m)) = m
  BY FrontLast
<1>10. \A P \in Seq(Names), m \in Names : Append(P, m) # Append(a, z)
  BY <1>6, <1>8, <1>9
<1>. QED  BY <1>1, <1>2, <1>4, <1>5, <1>7, <1>8, <1>10 DEF a, T

LEMMA SpelledParse ==
    ASSUME NEW p, NEW n \in Names, NEW q, NEW b, Spells(q, p, n, b)
    PROVE  parse_path(q) = Append(b, n) /\ parent_of_path(parse_path(q)) = b
<1>1. b \in Seq(Names) /\ (q = Append(b, n) \/ q = Append(b, n) \o <<"">>)
  BY DEF Spells
<1>2. Append(b, n) \in Seq(Names) /\ parent_of_path(Append(b, n)) = b
  BY <1>1, FrontLast, ParentOfAppend
<1>. QED  BY <1>1, <1>2, ParsePath

\* Event e says a name in the directory that s watches with a slash.
Slashed(s, e) ==
    \E k \in DOMAIN e.paths : /\ e.paths[k] # parse_path(e.paths[k])
                              /\ s.path = parent_of_path(parse_path(e.paths[k]))

\* s is a slot whose path leads to its directory.
Attached(s) ==
    /\ s.path \in Seq(Names)
    /\ s.dir \in Inodes
    /\ kind[s.dir] = "dir"
    /\ WalkIn(entries, s.path) = s.dir

\* The path string of an event is one of the directory's own names just when
\* the event is about that name there; and then the slot matches.
LEMMA SpelledInDir ==
    ASSUME DbInv, NEW s, Attached(s), s.recursive \in BOOLEAN, NEW p \in Inodes,
           NEW n \in Names, NEW q, NEW b, Spells(q, p, n, b)
    PROVE  /\ \A m \in Names : Append(s.path, m) = q => m = n /\ s.dir = p
           /\ s.dir = p =>
                 \/ q = Append(s.path, n) /\ path_matches(q, s)
                 \/ q # parse_path(q) /\ s.path = parent_of_path(parse_path(q))
<1>0. b \in Seq(Names) /\ WalkIn(entries, b) = p /\ (q = Append(b, n) \/ q = Append(b, n) \o <<"">>)
      /\ s.path \in Seq(Names) /\ s.dir \in Inodes /\ kind[s.dir] = "dir"
      /\ WalkIn(entries, s.path) = s.dir
  BY DEF Spells, Attached
<1>1. /\ parse_path(q) = Append(b, n)
      /\ parent_of_path(parse_path(q)) = b
      /\ q # parse_path(q) => \A P \in Seq(Names), m \in Names : Append(P, m) # q
  <2>1. Spells(q, p, n, b)
    OBVIOUS
  <2>2. parse_path(q) = Append(b, n)
    BY SpelledParse
  <2>3. parent_of_path(parse_path(q)) = b
    BY SpelledParse
  <2>4. q # parse_path(q) => \A P \in Seq(Names), m \in Names : Append(P, m) # q
    BY <2>1, SpelledPath, Zenon
  <2>. QED  BY <2>2, <2>3, <2>4
<1>2. ASSUME NEW m \in Names, Append(s.path, m) = q
      PROVE  m = n /\ s.dir = p
  <2>1. q = parse_path(q)
    BY <1>0, <1>2, <1>1
  <2>2. q = Append(b, n)
    BY <1>1, <2>1
  <2>3. s.path = b /\ m = n
    <3>1. Append(s.path, m) = Append(b, n)
      BY <1>2, <2>2
    <3>2. Front(Append(s.path, m)) = s.path /\ Last(Append(s.path, m)) = m
      BY <1>0, FrontLast, ZenonT(60)
    <3>3. Front(Append(b, n)) = b /\ Last(Append(b, n)) = n
      BY <1>0, FrontLast
    <3>. QED  BY <3>1, <3>2, <3>3
  <2>. QED  BY <1>0, <2>3
<1>3. ASSUME s.dir = p
      PROVE  \/ q = Append(s.path, n) /\ path_matches(q, s)
             \/ q # parse_path(q) /\ s.path = parent_of_path(parse_path(q))
  <2>1. s.path = b
    BY <1>0, <1>3, OnePathPerDir
  <2>2. CASE q # parse_path(q)
    BY <2>1, <1>1, <2>2
  <2>3. CASE q = parse_path(q)
    <3>1. q = Append(b, n)
      BY <1>1, <2>3
    <3>2. parent_of_path(q) = b /\ IsStrictPrefix(b, q)
      BY <1>0, <3>1, ParentOfAppend, PrefixOfAppend
    <3>. QED  BY <2>1, <3>1, <3>2 DEF path_matches
  <2>. QED  BY <2>2, <2>3
<1>. QED  BY <1>2, <1>3

-----------------------------------------------------------------------------
(* Watchers: what an event does to a listing.                              *)

\* An event is what the watcher in slot s needs: with it the listing of the
\* old directory becomes that of the new one, and if s does not match it the
\* directory is as it was.
Heard(s, e) ==
    IF matches_slot(s, e)
    THEN Applied(entries[s.dir], s.path, e) = entries'[s.dir]
    ELSE entries'[s.dir] = entries[s.dir]

\* A listing is given by its names.
LEMMA ListingsEqual ==
    ASSUME NEW m, NEW p, NEW e, NEW f \in Listings,
           \A n \in Names : Applied(m, p, e)[n] = f[n]
    PROVE  Applied(m, p, e) = f
BY DEF Applied, Listings

\* An event about the name n in p, which is set to x.
LEMMA OneNameHeard ==
    ASSUME DbInv, DbInv', NEW s, Attached(s), s.recursive \in BOOLEAN,
           NEW p \in Inodes, NEW n \in Names, NEW q, NEW b, Spells(q, p, n, b),
           NEW x, Sets(entries, entries', p, n, x), NEW e,
           e = Event("Create", <<q>>, x) \/ (x = None /\ \E i : e = Event("Remove", <<q>>, i)),
           ~Slashed(s, e)
    PROVE  Heard(s, e)
<1> DEFINE d == s.dir
           P == s.path
<1>0. e.paths = <<q>> /\ e.paths[1] = q /\ DOMAIN e.paths = {1} /\ d \in Inodes
  BY DEF Event, Attached
<1>1. entries'[d] \in Listings /\ entries[d] \in Listings
  BY <1>0 DEF DbInv, DbTypes, Listings
<1>2. \A m \in Names : Append(P, m) = q => m = n /\ d = p
  BY SpelledInDir
<1>3. d = p => q = Append(P, n) /\ path_matches(q, s)
  <2>1. ~(q # parse_path(q) /\ P = parent_of_path(parse_path(q)))
    BY <1>0 DEF Slashed
  <2>2. d = p => \/ q = Append(s.path, n) /\ path_matches(q, s)
                 \/ q # parse_path(q) /\ s.path = parent_of_path(parse_path(q))
    BY SpelledInDir
  <2>. QED  BY <2>1, <2>2
<1>4. \A m \in Names : Applied(entries[d], P, e)[m] = IF Append(P, m) = q THEN x ELSE entries[d][m]
  <2>1. CASE e = Event("Create", <<q>>, x)
    BY <2>1 DEF Applied, Event
  <2>2. CASE x = None /\ \E i : e = Event("Remove", <<q>>, i)
    BY <2>2 DEF Applied, Event
  <2>. QED  BY <2>1, <2>2
<1>5. \A m \in Names : entries'[d][m] = IF d = p /\ m = n THEN x ELSE entries[d][m]
  BY <1>0 DEF Sets
<1>6. \A m \in Names : Applied(entries[d], P, e)[m] = entries'[d][m]
  BY <1>2, <1>3, <1>4, <1>5
<1>7. Applied(entries[d], P, e) = entries'[d]
  <2> HIDE DEF d, P
  <2>. QED  BY <1>1, <1>6, ListingsEqual
<1>8. CASE d = p
  <2>1. matches_slot(s, e)
    BY <1>0, <1>3, <1>8 DEF matches_slot
  <2>. QED  BY <1>7, <2>1 DEF Heard
<1>9. CASE d # p
  <2>1. \A m \in Names : entries'[d][m] = entries[d][m]
    BY <1>5, <1>9
  <2>2. entries'[d] = entries[d]
    BY <1>1, <2>1 DEF Listings
  <2>. QED  BY <1>7, <2>2 DEF Heard
<1>. QED  BY <1>8, <1>9

\* A Move, from (sp, sn) to (dp, dn).
LEMMA MoveHeard ==
    ASSUME DbInv, DbInv', NEW s, Attached(s), s.recursive \in BOOLEAN,
           NEW sp \in Inodes, NEW sn \in Names, NEW dp \in Inodes, NEW dn \in Names,
           Renamed(sp, sn, dp, dn),
           NEW q, NEW a, Spells(q, sp, sn, a), NEW r, NEW b, Spells(r, dp, dn, b),
           NEW e, e = Event("Move", <<q, r>>, entries[sp][sn]),
           ~Slashed(s, e)
    PROVE  Heard(s, e)
<1> DEFINE d == s.dir
           P == s.path
           x == entries[sp][sn]
<1>0. e.paths = <<q, r>> /\ e.paths[1] = q /\ e.paths[2] = r /\ DOMAIN e.paths = {1, 2} /\ d \in Inodes
  BY DEF Event, Attached
<1>1. entries'[d] \in Listings /\ entries[d] \in Listings
  BY <1>0 DEF DbInv, DbTypes, Listings
<1>2. /\ \A m \in Names : Append(P, m) = q => m = sn /\ d = sp
      /\ d = sp => \/ q = Append(P, sn) /\ path_matches(q, s)
                   \/ q # parse_path(q) /\ P = parent_of_path(parse_path(q))
  BY SpelledInDir
<1>3. /\ \A m \in Names : Append(P, m) = r => m = dn /\ d = dp
      /\ d = dp => \/ r = Append(P, dn) /\ path_matches(r, s)
                   \/ r # parse_path(r) /\ P = parent_of_path(parse_path(r))
  BY SpelledInDir
<1>4. /\ d = sp => q = Append(P, sn) /\ path_matches(q, s)
      /\ d = dp => r = Append(P, dn) /\ path_matches(r, s)
  <2>1. /\ ~(q # parse_path(q) /\ P = parent_of_path(parse_path(q)))
        /\ ~(r # parse_path(r) /\ P = parent_of_path(parse_path(r)))
    BY <1>0 DEF Slashed
  <2>. QED  BY <1>2, <1>3, <2>1
<1>5. ~(sp = dp /\ sn = dn)
  BY DEF Renamed
<1>6. \A m \in Names : ~(Append(P, m) = q /\ Append(P, m) = r)
  BY <1>2, <1>3, <1>5, SMTT(60)
<1>7. \A m \in Names : Applied(entries[d], P, e)[m] =
          IF Append(P, m) = r THEN x ELSE IF Append(P, m) = q THEN None ELSE entries[d][m]
  <2>1. e.kind = "Move" /\ e.inode = x
    BY DEF Event
  <2>. QED  BY <1>0, <1>6, <2>1, ZenonT(60) DEF Applied
<1>8. \A m \in Names : entries'[d][m] = IF d = dp /\ m = dn THEN x
                                        ELSE IF d = sp /\ m = sn THEN None ELSE entries[d][m]
  BY <1>0 DEF Renamed
<1>9. \A m \in Names : Applied(entries[d], P, e)[m] = entries'[d][m]
  BY <1>2, <1>3, <1>4, <1>7, <1>8
<1>10. Applied(entries[d], P, e) = entries'[d]
  <2> HIDE DEF d, P
  <2>. QED  BY <1>1, <1>9, ListingsEqual
<1>11. CASE d = sp \/ d = dp
  <2>1. matches_slot(s, e)
    BY <1>0, <1>4, <1>11 DEF matches_slot
  <2>. QED  BY <1>10, <2>1 DEF Heard
<1>12. CASE d # sp /\ d # dp
  <2>1. \A m \in Names : entries'[d][m] = entries[d][m]
    BY <1>8, <1>12
  <2>2. entries'[d] = entries[d]
    BY <1>1, <2>1 DEF Listings
  <2>. QED  BY <1>10, <2>2 DEF Heard
<1>. QED  BY <1>11, <1>12

\* What changes no entry.
LEMMA QuietHeard ==
    ASSUME DbInv, NEW s, s.dir \in Inodes, entries' = entries, NEW e,
           e.kind = "Modify" \/ e.kind = "Metadata"
    PROVE  Heard(s, e)
<1>1. entries[s.dir] \in Listings
  BY DEF DbInv, DbTypes, Listings
<1>2. \A m \in Names : Applied(entries[s.dir], s.path, e)[m] = entries[s.dir][m]
  BY DEF Applied
<1>3. Applied(entries[s.dir], s.path, e) = entries[s.dir]
  BY <1>1, <1>2, ListingsEqual
<1>. QED  BY <1>3 DEF Heard

-----------------------------------------------------------------------------
(* Watchers: where paths lead after a call.                                *)

\* A spelled name leads to its entry, if its directory's path still leads there.
LEMMA SpelledLeads ==
    ASSUME DbInv', NEW p \in Inodes, NEW n \in Names, NEW q, NEW b, Spells(q, p, n, b),
           WalkIn(entries', b) = p
    PROVE  resolve_to_inode(q)' = entries'[p][n]
<1>1. b \in Seq(Names) /\ (q = Append(b, n) \/ q = Append(b, n) \o <<"">>)
  BY DEF Spells
<1>2. Append(b, n) \in Seq(Names)
  BY <1>1, FrontLast
<1>3. resolve_to_inode(q)' = WalkIn(entries', Append(b, n))
  BY <1>1, <1>2, Resolves
<1>4. entries' \in Tables
  BY EntriesTableNext
<1>5. WalkIn(entries', Append(b, n)) = Down(entries', p, n)
  BY <1>1, <1>4, WalkAppend
<1>. QED  BY <1>3, <1>5 DEF Down, Inodes, None

\* The same before the call.
LEMMA SpelledLeadsNow ==
    ASSUME DbInv, NEW p \in Inodes, NEW n \in Names, NEW q, NEW b, Spells(q, p, n, b)
    PROVE  resolve_to_inode(q) = entries[p][n]
<1>1. b \in Seq(Names) /\ (q = Append(b, n) \/ q = Append(b, n) \o <<"">>) /\ WalkIn(entries, b) = p
  BY DEF Spells
<1>2. Append(b, n) \in Seq(Names)
  BY <1>1, FrontLast
<1>3. resolve_to_inode(q) = WalkIn(entries, Append(b, n))
  BY <1>1, <1>2, Resolves
<1>4. WalkIn(entries, Append(b, n)) = Down(entries, p, n)
  BY <1>1, EntriesTable, WalkAppend
<1>. QED  BY <1>3, <1>4 DEF Down, Inodes, None

\* A name that was free is taken: every path leads where it led.
LEMMA InsertLeads ==
    ASSUME DbInv, DbInv', NEW p \in Inodes, NEW n \in Names, NEW x,
           Sets(entries, entries', p, n, x), entries[p][n] = None,
           NEW q, NEW b, Spells(q, p, n, b)
    PROVE  resolve_to_inode(q)' = x
<1>1. entries \in Tables /\ entries' \in Tables
  BY EntriesTable, EntriesTableNext
<1>2. Keeps(entries, entries', Inodes)
  BY DEF Keeps, Sets, Inodes, None
<1>3. b \in Seq(Names) /\ WalkIn(entries, b) = p
  BY DEF Spells
<1>4. WalkIn(entries', b) = p
  BY <1>1, <1>2, <1>3, StillLeads
<1>5. entries'[p][n] = x
  BY DEF Sets
<1>. QED  BY <1>4, <1>5, SpelledLeads

\* The name of something that holds no entries is taken away.
LEMMA RemoveLeads ==
    ASSUME DbInv, DbInv', NEW p \in Inodes, NEW n \in Names, NEW i \in Inodes,
           entries[p][n] = i, \A m \in Names : entries[i][m] = None,
           Sets(entries, entries', p, n, None),
           NEW q, NEW b, Spells(q, p, n, b)
    PROVE  resolve_to_inode(q)' = None
<1>1. entries \in Tables /\ entries' \in Tables
  BY EntriesTable, EntriesTableNext
<1>2. i # p
  BY DEF Inodes, None
<1>3. Keeps(entries, entries', Inodes \ {i})
  BY DEF Keeps, Sets, Inodes, None
<1>4. b \in Seq(Names) /\ WalkIn(entries, b) = p
  BY DEF Spells
<1>5. WalkIn(entries', b) = p
  BY <1>1, <1>2, <1>3, <1>4, StillLeads
<1>6. entries'[p][n] = None
  BY DEF Sets
<1>. QED  BY <1>5, <1>6, SpelledLeads

\* What is above something holds an entry.
LEMMA AboveHoldsEntry ==
    ASSUME NEW i \in Inodes, NEW a \in Ancestry(i)
    PROVE  \E n \in Names : entries[a][n] # None
<1> DEFINE S == {c \in Inodes : \E n \in Names : entries[c][n] # None}
<1>1. \A c \in S \cup {i} : ParentsOf(c) \subseteq S
  BY DEF ParentsOf, Inodes, None
<1> HIDE DEF S
<1>2. S \in SUBSET Inodes
  BY DEF S
<1>3. a \in S
  BY <1>1, <1>2 DEF Ancestry
<1>. QED  BY <1>3 DEF S

\* The directories from x up, on the way to x.
Above(x) == {c \in Ancestry(x) \cup {x} : kind[c] = "dir"}

LEMMA AboveClosed ==
    ASSUME DbInv, NEW x \in Inodes, NEW c \in Above(x), NEW p \in Inodes, NEW n \in Names,
           entries[p][n] = c
    PROVE  p \in Above(x)
<1>1. c \in Ancestry(x) \cup {x} /\ c \in Inodes
  BY DEF Above, Ancestry
<1>2. p \in Ancestry(x)
  BY <1>1, AncestryClosed
<1>3. kind[p] = "dir"
  BY <1>1 DEF DbInv, EntriesLive, Inodes, None
<1>. QED  BY <1>2, <1>3 DEF Above

\* What a directory holds is not above it.
LEMMA ChildNotAbove ==
    ASSUME DbInv, NEW x \in Inodes, NEW n \in Names
    PROVE  entries[x][n] \notin Above(x)
<1> SUFFICES ASSUME entries[x][n] \in Above(x) PROVE FALSE
  OBVIOUS
<1>1. x \in Ancestry(x)
  BY AncestryClosed DEF Above
<1>. QED  BY <1>1, NobodyAboveItself DEF DbInv

\* The path of a directory leads where it led, when neither what is moved nor
\* what it replaces is on the way.
LEMMA RenamedLeads ==
    ASSUME DbInv, DbInv', NEW sp \in Inodes, NEW sn \in Names,
           NEW dp \in Inodes, NEW dn \in Names, Renamed(sp, sn, dp, dn),
           NEW x \in Inodes, kind[x] = "dir",
           entries[sp][sn] \notin Above(x), entries[dp][dn] \notin Above(x),
           NEW b \in Seq(Names), WalkIn(entries, b) = x
    PROVE  WalkIn(entries', b) = x
<1>1. entries \in Tables /\ entries' \in Tables
  BY EntriesTable, EntriesTableNext
<1>2. Above(x) \subseteq Inodes /\ x \in Above(x)
  BY DEF Above, Ancestry
<1>3. Keeps(entries, entries', Above(x))
  <2> SUFFICES ASSUME NEW c \in Above(x), NEW p \in Inodes, NEW n \in Names,
                      entries[p][n] = c
               PROVE  p \in Above(x) /\ entries'[p][n] = c
    BY <1>2 DEF Keeps
  <2>1. p \in Above(x)
    BY AboveClosed
  <2>2. ~(p = sp /\ n = sn) /\ ~(p = dp /\ n = dn)
    OBVIOUS
  <2>. QED  BY <2>1, <2>2 DEF Renamed
<1>. QED  BY <1>1, <1>2, <1>3, StillLeads

\* What rename refuses keeps both paths of a Move true: the new one leads to
\* what was moved, the old one to nothing.
LEMMA MoveLeads ==
    ASSUME DbInv, DbInv', NEW sp \in Inodes, NEW sn \in Names,
           NEW dp \in Inodes, NEW dn \in Names, Renamed(sp, sn, dp, dn),
           kind[sp] = "dir", kind[dp] = "dir",
           entries[sp][sn] # None, RenameAllowed(entries[sp][sn], dp),
           entries[dp][dn] = None \/ Replaceable(entries[sp][sn], entries[dp][dn]),
           NEW q, NEW a, Spells(q, sp, sn, a), NEW r, NEW b, Spells(r, dp, dn, b)
    PROVE  resolve_to_inode(q)' = None /\ resolve_to_inode(r)' = entries[sp][sn]
<1> DEFINE s == entries[sp][sn]
           d == entries[dp][dn]
<1>0. s \in Inodes /\ d \in Inodes \cup {None}
  BY DEF DbInv, DbTypes
<1>1. s \notin Above(sp) /\ d \notin Above(dp)
  BY ChildNotAbove
<1>2. s \notin Above(dp)
  BY DEF Above, RenameAllowed
<1>3. d \notin Above(sp)
  <2> SUFFICES ASSUME d \in Above(sp) PROVE FALSE
    OBVIOUS
  <2>1. d # None /\ kind[d] = "dir"
    BY DEF Above, Ancestry, Inodes, None
  <2>2. IsEmpty(d)
    BY <2>1 DEF Replaceable
  <2>3. \A m \in Names : entries[d][m] = None
    BY <2>2 DEF IsEmpty, NoListing
  <2>4. d # sp
    BY <2>3
  <2>5. d \in Ancestry(sp)
    BY <2>4 DEF Above
  <2> HIDE DEF d
  <2>. QED  BY <2>3, <2>5, AboveHoldsEntry
<1>4. /\ a \in Seq(Names) /\ WalkIn(entries, a) = sp
      /\ b \in Seq(Names) /\ WalkIn(entries, b) = dp
  BY DEF Spells
<1>5. WalkIn(entries', a) = sp
  BY <1>1, <1>3, <1>4, RenamedLeads
<1>6. WalkIn(entries', b) = dp
  BY <1>1, <1>2, <1>4, RenamedLeads
<1>7. entries'[sp][sn] = None /\ entries'[dp][dn] = s
  BY DEF Renamed
<1>8. resolve_to_inode(q)' = entries'[sp][sn]
  BY <1>5, SpelledLeads
<1>9. resolve_to_inode(r)' = entries'[dp][dn]
  BY <1>6, SpelledLeads
<1>. QED  BY <1>7, <1>8, <1>9

\* A directory that a path leads to after the call has been there all the time.
LEMMA DirStays ==
    ASSUME IInv, [Next]_vars, DbInv', NEW d \in Inodes, kind[d] = "dir",
           NEW P \in Seq(Names), WalkIn(entries', P) = d
    PROVE  kind'[d] = "dir"
<1>1. CASE P = <<>>
  <2>1. d = ROOT_INODE
    BY <1>1, EntriesTableNext, WalkEmpty
  <2>. QED  BY <2>1 DEF DbInv, Rows
<1>2. CASE P # <<>>
  <2>1. PICK s \in Seq(Names), n \in Names : P = Append(s, n)
    BY <1>2, EmptyOrAppend
  <2>2. entries' \in Tables /\ WalkIn(entries', Append(s, n)) # None
    BY <2>1, EntriesTableNext DEF Inodes, None
  <2>3. WalkIn(entries', s) \in Inodes /\ entries'[WalkIn(entries', s)][n] = d
    BY <2>1, <2>2, LastStep
  <2>4. kind'[d] # "none"
    BY <2>3 DEF DbInv, EntriesLive, Inodes, None
  <2>5. d < nextInode
    BY DEF IInv, DbInv, DbTypes, Rows, Inodes
  <2>6. kind'[d] \in {kind[d], "none"}
    BY <2>5, NumberStep
  <2>. QED  BY <2>4, <2>6
<1>. QED  BY <1>1, <1>2

-----------------------------------------------------------------------------
(* Watchers: the invariant.                                                *)

WTypes ==
    /\ slots \in [Watchers -> [path : Seq(Names), recursive : BOOLEAN, dir : Inodes \cup {None}]]
    /\ queue \in [Watchers -> Seq(Events)]
    /\ mirror \in [Watchers -> Listings]
    /\ deaf \in [Watchers -> BOOLEAN]
    /\ \A w \in Watchers : slots[w].dir = None => queue[w] = <<>>

\* An event says what is so.
Truth(e) ==
    /\ resolve_to_inode(Last(e.paths)) = IF e.kind = "Remove" THEN None ELSE e.inode
    /\ e.kind = "Move" => resolve_to_inode(e.paths[1]) = None

\* What unlink has yet to announce is so while the node waits to be deleted.
OwedInv ==
    owed # NoEvent => /\ pending # None
                      /\ owed \in Events /\ owed.kind = "Remove" /\ Truth(owed)

\* The listing of w's consumer once it has applied what waits and, if w is to
\* hear of it, what is owed.
Caught(w) ==
    LET r == ReplayIn(mirror[w], slots[w].path, queue[w])
    IN  IF matches_slot(slots[w], owed) THEN Applied(r, slots[w].path, owed) ELSE r

\* The path of a watcher that is not deaf leads to its directory, and that is
\* what its consumer comes to list, unless the path owed has a slash.
Mirrors(w) ==
    slots[w].dir # None /\ ~deaf[w] =>
        /\ Attached(slots[w])
        /\ ~Slashed(slots[w], owed) => Caught(w) = entries[slots[w].dir]

AllMirror == \A w \in Watchers : Mirrors(w)

WInv == WTypes /\ OwedInv /\ AllMirror

\* What all watchers whose path leads to their directory need.
HeardByAll(e) ==
    \A w \in Watchers :
        Attached(slots[w]) /\ ~Slashed(slots[w], e) => Heard(slots[w], e)

\* No event is no event.
LEMMA NoEventQuiet == \A s : ~matches_slot(s, NoEvent) /\ ~Slashed(s, NoEvent)
BY DEF matches_slot, Slashed, NoEvent

\* A delete is waiting, or nothing is owed.
LEMMA NothingOwed == OwedInv /\ pending = None => owed = NoEvent
BY DEF OwedInv

\* Telling the watchers keeps the types.
LEMMA InformedTypes ==
    ASSUME WTypes, UNCHANGED slots, NEW D, NEW e, Informed(D, e), e \in Events \/ e = NoEvent
    PROVE  WTypes'
<1>1. deaf' \in [Watchers -> BOOLEAN]
  BY DEF Informed, WTypes
<1>2. mirror' \in [Watchers -> Listings]
  <2>1. NoListing \in Listings
    BY DEF NoListing, Listings
  <2>. QED  BY <2>1 DEF Informed, WTypes
<1>3. queue' \in [Watchers -> Seq(Events)]
  <2> SUFFICES ASSUME NEW w \in Watchers PROVE queue'[w] \in Seq(Events)
    BY DEF Informed
  <2>1. queue[w] \in Seq(Events)
    BY DEF WTypes
  <2>2. CASE e \in Events
    <3>1. Append(queue[w], e) \in Seq(Events)
      BY <2>1, <2>2
    <3>. QED  BY <2>1, <3>1 DEF Informed
  <2>3. CASE e = NoEvent
    <3>1. queue'[w] = <<>> \/ queue'[w] = queue[w]
      BY <2>3, NoEventQuiet DEF Informed
    <3>2. <<>> \in Seq(Events)
      BY EmptySeq
    <3>. QED  BY <2>1, <3>1, <3>2, Zenon
  <2>. QED  BY <2>2, <2>3
<1>4. \A w \in Watchers : slots[w].dir = None => queue'[w] = <<>>
  BY DEF Informed, WTypes
<1>. QED  BY <1>1, <1>2, <1>3, <1>4 DEF WTypes

\* What w comes to list, after the step.
LEMMA CaughtNext ==
    \A w : owed' = NoEvent => Caught(w)' = ReplayIn(mirror'[w], slots'[w].path, queue'[w])
BY NoEventQuiet DEF Caught

LEMMA CaughtNow ==
    \A w : owed = NoEvent => Caught(w) = ReplayIn(mirror[w], slots[w].path, queue[w])
BY NoEventQuiet DEF Caught

\* A watcher that an event does not leave deaf is still attached.
LEMMA StillAttached ==
    ASSUME IInv, [Next]_vars, DbInv', UNCHANGED slots, NEW w \in Watchers, NEW e,
           Attached(slots[w]), ~Deafened(w, e)
    PROVE  Attached(slots[w])' /\ ~Slashed(slots[w], e)
<1>1. PICK P, d : P = slots[w].path /\ d = slots[w].dir /\ P = slots'[w].path /\ d = slots'[w].dir
  OBVIOUS
<1>2. P \in Seq(Names) /\ d \in Inodes /\ kind[d] = "dir"
  BY <1>1 DEF Attached
<1>3. resolve_to_inode(slots[w].path)' = resolve_to_inode(P)'
  BY <1>1, ResolveIsWalkNext
<1>4. WalkIn(entries', P) = d
  BY <1>1, <1>2, <1>3, Resolves DEF Deafened
<1>5. kind'[d] = "dir"
  BY <1>2, <1>4, DirStays
<1>6. Attached(slots[w])'
  BY <1>1, <1>2, <1>4, <1>5 DEF Attached
<1>. QED  BY <1>6 DEF Deafened, Slashed

\* An event that says what the watchers need keeps what they mirror.
LEMMA EmitMirrors ==
    ASSUME IInv, [Next]_vars, DbInv', WTypes, AllMirror, owed = NoEvent, owed' = NoEvent,
           NEW e \in Events, Emit(e), HeardByAll(e)
    PROVE  AllMirror'
<1> SUFFICES ASSUME NEW w \in Watchers, slots'[w].dir # None, ~deaf'[w] PROVE
                 Attached(slots[w])' /\ Caught(w)' = entries'[slots'[w].dir]
  BY DEF AllMirror, Mirrors
<1>1. slots' = slots /\ ~deaf[w] /\ ~Deafened(w, e) /\ slots[w].dir # None
  BY DEF Emit, Informed, WTypes
<1>2. Mirrors(w)
  BY DEF AllMirror
<1>3. Attached(slots[w]) /\ Caught(w) = entries[slots[w].dir]
  BY <1>1, <1>2, NoEventQuiet DEF Mirrors
<1>4. Attached(slots[w])' /\ ~Slashed(slots[w], e)
  BY <1>1, <1>3, StillAttached
<1>5. Heard(slots[w], e)
  BY <1>3, <1>4 DEF HeardByAll
<1> DEFINE r == ReplayIn(mirror[w], slots[w].path, queue[w])
<1>6. r = entries[slots[w].dir]
  BY <1>3, CaughtNow
<1>7. mirror'[w] = mirror[w] /\ queue'[w] = IF matches_slot(slots[w], e) THEN Append(queue[w], e) ELSE queue[w]
  BY <1>1 DEF Emit, Informed
<1>8. Caught(w)' = ReplayIn(mirror[w], slots[w].path, queue'[w])
  BY <1>1, <1>7, CaughtNext
<1>9. queue[w] \in Seq(Events) /\ mirror[w] \in Listings
  BY DEF WTypes
<1>10. CASE matches_slot(slots[w], e)
  <2>1. ReplayIn(mirror[w], slots[w].path, Append(queue[w], e)) = Applied(r, slots[w].path, e)
    BY <1>9, ReplayAppend
  <2>2. Applied(r, slots[w].path, e) = entries'[slots[w].dir]
    BY <1>5, <1>6, <1>10 DEF Heard
  <2>. QED  BY <1>1, <1>4, <1>7, <1>8, <1>10, <2>1, <2>2
<1>11. CASE ~matches_slot(slots[w], e)
  BY <1>1, <1>4, <1>5, <1>6, <1>7, <1>8, <1>11 DEF Heard
<1>. QED  BY <1>10, <1>11

\* A new event that waits is e.
LEMMA EmitAppends ==
    ASSUME NEW D, NEW e, Informed(D, e), NEW w \in Watchers, Len(queue'[w]) > Len(queue[w]),
           queue[w] \in Seq(Events)
    PROVE  queue'[w] = Append(queue[w], e) /\ matches_slot(slots[w], e)
<1>1. Len(queue[w]) \in Nat
  OBVIOUS
<1>2. Len(queue[w]) >= 0 /\ Len(<<>>) = 0
  BY <1>1
<1>3. queue'[w] # <<>> /\ queue'[w] # queue[w]
  BY <1>1, <1>2
<1>. QED  BY <1>3 DEF Informed

LEMMA EmitTruthful ==
    ASSUME WTypes, NEW e \in Events, Truth(e)', NEW D, Informed(D, e), NEW w \in Watchers,
           Len(queue'[w]) > Len(queue[w])
    PROVE  LastEventTrue(w)'
<1>1. queue[w] \in Seq(Events)
  BY DEF WTypes
<1>2. queue'[w] = Append(queue[w], e)
  BY <1>1, EmitAppends
<1>3. Last(queue'[w]) = e
  BY <1>1, <1>2, FrontLast
<1>. QED  BY <1>3 DEF Truth, LastEventTrue

-----------------------------------------------------------------------------
(* Watchers: the events of the calls.  Each is what the watchers need and   *)
(* says what is so after the call.                                          *)

LEMMA OneLong ==
    ASSUME NEW S, NEW x \in S
    PROVE  <<x>> \in Seq(S) /\ Len(<<x>>) = 1
OBVIOUS

LEMMA EventTyped ==
    ASSUME NEW k \in Kinds \ {"Move"}, NEW p, NEW n \in Names, NEW q, NEW b,
           Spells(q, p, n, b), NEW i \in Inodes \cup {None}
    PROVE  Event(k, <<q>>, i) \in Events
<1> DEFINE T == Names \cup {""}
<1>1. q \in Seq(T)
  BY SpelledPath, Zenon
<1> HIDE DEF T
<1>2. <<q>> \in Seq(Seq(T)) /\ Len(<<q>>) = 1
  BY <1>1
<1>. QED  BY <1>2 DEF Events, Event, T

LEMMA MoveTyped ==
    ASSUME NEW p, NEW n \in Names, NEW q, NEW a, Spells(q, p, n, a),
           NEW o, NEW m \in Names, NEW r, NEW b, Spells(r, o, m, b),
           NEW i \in Inodes \cup {None}
    PROVE  Event("Move", <<q, r>>, i) \in Events
<1> DEFINE T == Names \cup {""}
<1>1. q \in Seq(T) /\ r \in Seq(T)
  BY SpelledPath, Zenon
<1> HIDE DEF T
<1>2. <<q, r>> \in Seq(Seq(T)) /\ Len(<<q, r>>) = 2
  BY <1>1
<1>. QED  BY <1>2 DEF Events, Event, Kinds, T

\* Create, of a name that was free.
LEMMA TakenSound ==
    ASSUME DbInv, DbInv', WTypes, NEW p \in Inodes, NEW n \in Names, ResolvesParent(p),
           entries[p][n] = None, NEW x \in Inodes, Sets(entries, entries', p, n, x),
           NEW q \in Spellings(p, n), NEW e, e = Event("Create", <<q>>, x)
    PROVE  e \in Events /\ HeardByAll(e) /\ Truth(e)'
<1>1. PICK b : Spells(q, p, n, b)
  BY SpellingsSpell
<1>2. e \in Events
  BY <1>1, EventTyped DEF Kinds
<1>3. HeardByAll(e)
  <2> SUFFICES ASSUME NEW w \in Watchers, Attached(slots[w]), ~Slashed(slots[w], e)
               PROVE  Heard(slots[w], e)
    BY DEF HeardByAll
  <2> PICK s : s = slots[w]
    OBVIOUS
  <2>1. s.recursive \in BOOLEAN /\ Attached(s) /\ ~Slashed(s, e)
    BY DEF WTypes
  <2>2. Heard(s, e)
    BY <1>1, <2>1, OneNameHeard
  <2>. QED  BY <2>2
<1>4. resolve_to_inode(q)' = x
  BY <1>1, InsertLeads
<1>5. Last(e.paths) = q /\ e.kind = "Create" /\ e.inode = x
  BY DEF Event, Last
<1>. QED  BY <1>2, <1>3, <1>4, <1>5 DEF Truth

\* Remove, of what holds no entries.
LEMMA FreedSound ==
    ASSUME DbInv, DbInv', WTypes, NEW p \in Inodes, NEW n \in Names, ResolvesParent(p),
           NEW i \in Inodes, entries[p][n] = i, \A m \in Names : entries[i][m] = None,
           Sets(entries, entries', p, n, None),
           NEW q \in Spellings(p, n), NEW e, e = Event("Remove", <<q>>, i)
    PROVE  e \in Events /\ HeardByAll(e) /\ Truth(e)'
<1>1. PICK b : Spells(q, p, n, b)
  BY SpellingsSpell
<1>2. e \in Events
  BY <1>1, EventTyped DEF Kinds
<1>3. HeardByAll(e)
  <2> SUFFICES ASSUME NEW w \in Watchers, Attached(slots[w]), ~Slashed(slots[w], e)
               PROVE  Heard(slots[w], e)
    BY DEF HeardByAll
  <2> PICK s : s = slots[w]
    OBVIOUS
  <2>1. s.recursive \in BOOLEAN /\ Attached(s) /\ ~Slashed(s, e)
    BY DEF WTypes
  <2>2. Heard(s, e)
    BY <1>1, <2>1, OneNameHeard
  <2>. QED  BY <2>2
<1>4. resolve_to_inode(q)' = None
  BY <1>1, RemoveLeads
<1>5. Last(e.paths) = q /\ e.kind = "Remove"
  BY DEF Event, Last
<1>. QED  BY <1>2, <1>3, <1>4, <1>5 DEF Truth

\* Move.
LEMMA MovedSound ==
    ASSUME DbInv, DbInv', WTypes, NEW sp \in Inodes, NEW sn \in Names,
           NEW dp \in Inodes, NEW dn \in Names,
           RenameMove(sp, sn, dp, dn) \/ RenameReplace(sp, sn, dp, dn),
           NEW q \in Spellings(sp, sn), NEW r \in Spellings(dp, dn),
           NEW e, e = Event("Move", <<q, r>>, entries[sp][sn])
    PROVE  e \in Events /\ HeardByAll(e) /\ Truth(e)'
<1>0. DbTypes
  BY DEF DbInv
<1>1. Renamed(sp, sn, dp, dn)
  BY <1>0 DEF RenameMove, RenameReplace, Renamed, DbTypes
<1>2. /\ ResolvesParent(sp) /\ ResolvesParent(dp)
      /\ entries[sp][sn] # None /\ RenameAllowed(entries[sp][sn], dp)
      /\ entries[dp][dn] = None \/ Replaceable(entries[sp][sn], entries[dp][dn])
  BY DEF RenameMove, RenameReplace
<1>3. PICK a : Spells(q, sp, sn, a)
  BY <1>2, SpellingsSpell
<1>4. PICK b : Spells(r, dp, dn, b)
  BY <1>2, SpellingsSpell
<1>5. e \in Events
  BY <1>0, <1>3, <1>4, MoveTyped DEF DbTypes
<1>6. HeardByAll(e)
  <2> SUFFICES ASSUME NEW w \in Watchers, Attached(slots[w]), ~Slashed(slots[w], e)
               PROVE  Heard(slots[w], e)
    BY DEF HeardByAll
  <2> PICK s : s = slots[w]
    OBVIOUS
  <2>1. s.recursive \in BOOLEAN /\ Attached(s) /\ ~Slashed(s, e)
    BY DEF WTypes
  <2>2. Heard(s, e)
    BY <1>1, <1>3, <1>4, <2>1, MoveHeard
  <2>. QED  BY <2>2
<1>7. resolve_to_inode(q)' = None /\ resolve_to_inode(r)' = entries[sp][sn]
  <2>1. kind[sp] = "dir" /\ kind[dp] = "dir"
    BY <1>2 DEF ResolvesParent
  <2>. QED  BY <1>1, <1>2, <1>3, <1>4, <2>1, MoveLeads
<1>8. Last(e.paths) = r /\ e.paths[1] = q /\ e.kind = "Move" /\ e.inode = entries[sp][sn]
  BY DEF Event, Last
<1>. QED  BY <1>5, <1>7, <1>6, <1>8 DEF Truth

\* Modify and Metadata, of what q leads to.
LEMMA QuietSound ==
    ASSUME DbInv, UNCHANGED vars, NEW k \in {"Modify", "Metadata"}, NEW i \in Inodes,
           NEW q \in Seq(Names \cup {""}), resolve_to_inode(q) = i,
           NEW e, e = Event(k, <<q>>, i)
    PROVE  e \in Events /\ HeardByAll(e) /\ Truth(e)'
<1>1. e \in Events
  <2> DEFINE T == Names \cup {""}
  <2>1. q \in Seq(T)
    OBVIOUS
  <2> HIDE DEF T
  <2>2. <<q>> \in Seq(Seq(T)) /\ Len(<<q>>) = 1
    BY <2>1, OneLong
  <2>. QED  BY <2>2 DEF Events, Event, Kinds, T
<1>2. entries' = entries
  BY DEF vars
<1>3. HeardByAll(e)
  <2> SUFFICES ASSUME NEW w \in Watchers, Attached(slots[w]) PROVE Heard(slots[w], e)
    BY DEF HeardByAll
  <2> PICK s : s = slots[w]
    OBVIOUS
  <2>1. s.dir \in Inodes
    BY DEF Attached
  <2>2. e.kind \in {"Modify", "Metadata"}
    BY DEF Event
  <2>3. e.kind = "Modify" \/ e.kind = "Metadata"
    BY <2>2
  <2>4. Heard(s, e)
    BY <1>2, <2>1, <2>3, QuietHeard
  <2>. QED  BY <2>4
<1>4. resolve_to_inode(q)' = i
  BY <1>2, ResolveIsWalk, ResolveIsWalkNext
<1>5. Last(e.paths) = q /\ e.kind = k /\ e.inode = i
  BY DEF Event, Last
<1>. QED  BY <1>1, <1>3, <1>4, <1>5 DEF Truth

-----------------------------------------------------------------------------
(* Watchers: every step.                                                   *)

\* A call that tells the watchers, or a step of a watcher's own, is one of
\* the tree or leaves it alone.
LEMMA WStepIsNext ==
    ASSUME [WNext]_wvars
    PROVE  [Next]_vars
<1>1. CASE UNCHANGED wvars
  BY <1>1 DEF wvars
<1>2. CASE WReopen \/ WReclaim \/ WReclaimFails
  BY <1>2 DEF WReopen, WReclaim, WReclaimFails, Next
<1>3. CASE Silent
  BY <1>3 DEF Silent, Next
<1>4. ASSUME NEW w \in Watchers,
             Unsubscribe(w) \/ Recv(w) \/ \E d \in Inodes, rec \in BOOLEAN : Subscribe(w, d, rec)
      PROVE  UNCHANGED vars
  BY <1>4 DEF Unsubscribe, Recv, Subscribe
<1>5. CASE (\E f \in Fds : Write(f)) \/ \E i \in Inodes : Metadata(i)
  BY <1>5 DEF Write, Metadata
<1>6. CASE \E p \in Inodes, n \in Names : WCreate(p, n) \/ WRmdir(p, n) \/ WUnlink(p, n)
  BY <1>6 DEF WCreate, WRmdir, WUnlink, Next
<1>7. CASE \E p, q \in Inodes, m, n \in Names : WLink(p, m, q, n) \/ WRename(p, m, q, n)
  BY <1>7 DEF WLink, WRename, Next
<1>. QED  BY <1>1, <1>2, <1>3, <1>4, <1>5, <1>6, <1>7 DEF WNext

\* What EventsTruthful says of a step.
NewEventsTrue ==
    \A w \in Watchers : Len(queue'[w]) > Len(queue[w]) => LastEventTrue(w)'

\* A call emits an event that is what the watchers need.
LEMMA EmitStep ==
    ASSUME IInv, [Next]_vars, DbInv', WInv, pending = None, owed' = owed,
           NEW e \in Events, Emit(e), HeardByAll(e), Truth(e)'
    PROVE  WInv' /\ NewEventsTrue
<1>1. WTypes /\ OwedInv /\ AllMirror /\ owed = NoEvent /\ owed' = NoEvent
  BY NothingOwed DEF WInv
<1>2. AllMirror'
  BY <1>1, EmitMirrors
<1>3. OwedInv'
  BY <1>1 DEF OwedInv
<1>4. PICK D : UNCHANGED slots /\ Informed(D, e)
  BY DEF Emit
<1>5. WTypes'
  BY <1>1, <1>4, InformedTypes
<1>6. NewEventsTrue
  BY <1>1, <1>4, EmitTruthful DEF NewEventsTrue
<1>. QED  BY <1>2, <1>3, <1>5, <1>6 DEF WInv

\* A watcher for which nothing happens.
LEMMA SameMirror ==
    ASSUME NEW w \in Watchers, Mirrors(w), entries' = entries, kind' = kind, owed' = owed,
           slots'[w] = slots[w], queue'[w] = queue[w], mirror'[w] = mirror[w],
           deaf'[w] = deaf[w]
    PROVE  Mirrors(w)'
<1>1. Attached(slots[w]) => Attached(slots[w])'
  BY DEF Attached
<1>2. Slashed(slots[w], owed)' <=> Slashed(slots[w], owed)
  BY DEF Slashed
<1>3. Caught(w)' = Caught(w)
  BY DEF Caught
<1>. QED  BY <1>1, <1>2, <1>3 DEF Mirrors

\* What is owed stays so while the tree is left alone.
LEMMA SameOwed ==
    ASSUME OwedInv, entries' = entries, owed' = owed, owed = NoEvent \/ pending' = pending
    PROVE  OwedInv'
<1> SUFFICES ASSUME owed # NoEvent PROVE OwedInv'
  BY DEF OwedInv
<1>1. owed' \in Events /\ owed'.kind = "Remove" /\ pending' # None /\ Truth(owed)
  BY DEF OwedInv
<1>2. PICK e : e = owed /\ e = owed'
  OBVIOUS
<1>3. PICK q : q = Last(e.paths)
  OBVIOUS
<1>4. resolve_to_inode(q) = None
  BY <1>1, <1>2, <1>3 DEF Truth, OwedInv
<1>5. resolve_to_inode(q)' = None
  BY <1>4, ResolveIsWalk, ResolveIsWalkNext
<1>6. Truth(owed)'
  BY <1>1, <1>2, <1>3, <1>5 DEF Truth
<1>. QED  BY <1>1, <1>6 DEF OwedInv

\* Nothing is said, and the tree stays.
LEMMA QuietStep ==
    ASSUME WInv, UNCHANGED watching, entries' = entries, kind' = kind,
           owed = NoEvent \/ pending' = pending
    PROVE  WInv' /\ NewEventsTrue
<1>1. slots' = slots /\ queue' = queue /\ owed' = owed /\ mirror' = mirror /\ deaf' = deaf
  BY DEF watching
<1>2. WTypes'
  BY <1>1 DEF WInv, WTypes
<1>3. OwedInv'
  BY <1>1, SameOwed DEF WInv
<1>4. AllMirror'
  BY <1>1, SameMirror DEF WInv, AllMirror
<1>5. NewEventsTrue
  <2> SUFFICES ASSUME NEW w \in Watchers, Len(queue'[w]) > Len(queue[w]) PROVE FALSE
    BY DEF NewEventsTrue
  <2>1. Len(queue[w]) \in Nat
    BY DEF WInv, WTypes
  <2>. QED  BY <1>1, <2>1
<1>. QED  BY <1>2, <1>3, <1>4, <1>5 DEF WInv

\* The consumer takes the first event that waits.
LEMMA RecvStep ==
    ASSUME WInv, NEW w \in Watchers, Recv(w)
    PROVE  WInv' /\ NewEventsTrue
<1>1. /\ WTypes /\ OwedInv /\ AllMirror
      /\ queue[w] \in Seq(Events) /\ mirror[w] \in Listings /\ queue[w] # <<>>
  BY DEF WInv, WTypes, Recv
<1>2. /\ entries' = entries /\ kind' = kind /\ pending' = pending
      /\ slots' = slots /\ owed' = owed /\ deaf' = deaf
  BY DEF Recv, vars
<1> DEFINE m == Applied(mirror[w], slots[w].path, Head(queue[w]))
<1>3. /\ queue' = [queue EXCEPT ![w] = Tail(queue[w])]
      /\ mirror' = [mirror EXCEPT ![w] = m]
  BY DEF Recv
<1>4. /\ Tail(queue[w]) \in Seq(Events) /\ Len(Tail(queue[w])) = Len(queue[w]) - 1
      /\ m \in Listings
      /\ ReplayIn(m, slots[w].path, Tail(queue[w])) = ReplayIn(mirror[w], slots[w].path, queue[w])
  BY <1>1, ReplayTail
<1> HIDE DEF m
<1>5. /\ queue'[w] = Tail(queue[w]) /\ mirror'[w] = m
      /\ \A v \in Watchers : v # w => queue'[v] = queue[v] /\ mirror'[v] = mirror[v]
  BY <1>1, <1>3 DEF WTypes
<1>6. WTypes'
  <2>1. queue' \in [Watchers -> Seq(Events)] /\ mirror' \in [Watchers -> Listings]
    BY <1>1, <1>3, <1>4 DEF WTypes
  <2>2. slots[w].dir # None
    BY <1>1 DEF WTypes
  <2>3. \A v \in Watchers : slots'[v].dir = None => queue'[v] = <<>>
    BY <1>1, <1>2, <1>5, <2>2 DEF WTypes
  <2>. QED  BY <1>1, <1>2, <2>1, <2>3 DEF WTypes
<1>7. OwedInv'
  BY <1>1, <1>2, SameOwed
<1>8. Mirrors(w)'
  <2>1. Caught(w)' = Caught(w)
    BY <1>2, <1>4, <1>5 DEF Caught
  <2>2. Attached(slots[w]) => Attached(slots[w])'
    BY <1>2 DEF Attached
  <2>3. Slashed(slots[w], owed)' <=> Slashed(slots[w], owed)
    BY <1>2 DEF Slashed
  <2>. QED  BY <1>1, <1>2, <2>1, <2>2, <2>3 DEF Mirrors, AllMirror
<1>9. \A v \in Watchers : v # w => Mirrors(v)'
  BY <1>1, <1>2, <1>5, SameMirror DEF AllMirror
<1>10. NewEventsTrue
  <2> SUFFICES ASSUME NEW v \in Watchers, Len(queue'[v]) > Len(queue[v]) PROVE FALSE
    BY DEF NewEventsTrue
  <2>1. Len(queue[v]) \in Nat
    BY <1>1 DEF WTypes
  <2>2. CASE v = w
    <3>1. Len(queue'[v]) = Len(queue[v]) - 1
      BY <1>4, <1>5, <2>2
    <3>2. Len(queue[v]) - 1 > Len(queue[v])
      BY <3>1
    <3>. QED  BY <2>1, <3>2
  <2>3. CASE v # w
    BY <1>5, <2>1, <2>3
  <2>. QED  BY <2>2, <2>3
<1>. QED  BY <1>6, <1>7, <1>8, <1>9, <1>10 DEF WInv, AllMirror

\* A watcher begins with the listing of its directory.
LEMMA SubscribeStep ==
    ASSUME IInv, WInv, NEW w \in Watchers, NEW d \in Inodes, NEW rec \in BOOLEAN,
           Subscribe(w, d, rec)
    PROVE  WInv' /\ NewEventsTrue
<1>1. WTypes /\ OwedInv /\ AllMirror /\ owed = NoEvent /\ DbInv
  BY NothingOwed DEF WInv, Subscribe, IInv
<1>2. /\ entries' = entries /\ kind' = kind /\ pending' = pending
      /\ queue' = queue /\ owed' = owed /\ deaf' = deaf
  BY DEF Subscribe, vars
<1> DEFINE P == PathOfDir(d)
           s == [path |-> P, recursive |-> rec, dir |-> d]
<1>3. P \in Seq(Names) /\ WalkIn(entries, P) = d /\ kind[d] = "dir"
  BY <1>1, ResolvableNamed, DirPath DEF Subscribe
<1>4. slots' = [slots EXCEPT ![w] = s] /\ mirror' = [mirror EXCEPT ![w] = entries[d]]
  BY DEF Subscribe
<1>5. entries[d] \in Listings
  BY <1>1 DEF DbInv, DbTypes, Listings
<1>6. queue[w] = <<>>
  BY <1>1 DEF WTypes, Subscribe
<1> HIDE DEF P
<1>7. /\ slots'[w] = s /\ mirror'[w] = entries[d]
      /\ \A v \in Watchers : v # w => slots'[v] = slots[v] /\ mirror'[v] = mirror[v]
  BY <1>1, <1>4 DEF WTypes
<1>8. WTypes'
  <2>1. s \in [path : Seq(Names), recursive : BOOLEAN, dir : Inodes \cup {None}]
    BY <1>3
  <2> HIDE DEF s
  <2>2. slots' \in [Watchers -> [path : Seq(Names), recursive : BOOLEAN, dir : Inodes \cup {None}]]
    BY <1>1, <1>4, <2>1 DEF WTypes
  <2>3. mirror' \in [Watchers -> Listings]
    BY <1>1, <1>4, <1>5 DEF WTypes
  <2>4. \A v \in Watchers : slots'[v].dir = None => queue'[v] = <<>>
    BY <1>1, <1>2, <1>6, <1>7 DEF WTypes
  <2>. QED  BY <1>1, <1>2, <2>2, <2>3, <2>4 DEF WTypes
<1>9. OwedInv'
  BY <1>1, <1>2, SameOwed
<1>10. Mirrors(w)'
  <2>1. Caught(w)' = ReplayIn(entries[d], P, <<>>)
    BY <1>1, <1>2, <1>6, <1>7, CaughtNext
  <2>2. ReplayIn(entries[d], P, <<>>) = entries[d]
    BY <1>5, ReplayEmpty
  <2>3. Attached(slots[w])'
    BY <1>2, <1>3, <1>7 DEF Attached
  <2>. QED  BY <1>2, <1>7, <2>1, <2>2, <2>3 DEF Mirrors
<1>11. \A v \in Watchers : v # w => Mirrors(v)'
  BY <1>1, <1>2, <1>7, SameMirror DEF AllMirror
<1>12. NewEventsTrue
  <2> SUFFICES ASSUME NEW v \in Watchers, Len(queue'[v]) > Len(queue[v]) PROVE FALSE
    BY DEF NewEventsTrue
  <2>1. Len(queue[v]) \in Nat
    BY <1>1 DEF WTypes
  <2>. QED  BY <1>2, <2>1
<1>. QED  BY <1>8, <1>9, <1>10, <1>11, <1>12 DEF WInv, AllMirror

\* A watcher that is dropped has nothing to mirror.
LEMMA UnsubscribeStep ==
    ASSUME WInv, NEW w \in Watchers, Unsubscribe(w)
    PROVE  WInv' /\ NewEventsTrue
<1>1. WTypes /\ OwedInv /\ AllMirror
  BY DEF WInv
<1>2. entries' = entries /\ kind' = kind /\ pending' = pending /\ owed' = owed
  BY DEF Unsubscribe, vars
<1>3. /\ slots'[w] = NoSlot /\ queue'[w] = <<>>
      /\ \A v \in Watchers : v # w => /\ slots'[v] = slots[v] /\ queue'[v] = queue[v]
                                      /\ mirror'[v] = mirror[v] /\ deaf'[v] = deaf[v]
  BY <1>1 DEF WTypes, Unsubscribe
<1>4. WTypes'
  <2>1. <<>> \in Seq(Events) /\ <<>> \in Seq(Names)
    BY EmptySeq
  <2>2. NoListing \in Listings
    BY DEF NoListing, Listings
  <2>3. NoSlot \in [path : Seq(Names), recursive : BOOLEAN, dir : Inodes \cup {None}]
    BY <2>1 DEF NoSlot
  <2>4. slots' \in [Watchers -> [path : Seq(Names), recursive : BOOLEAN, dir : Inodes \cup {None}]]
    BY <1>1, <2>3 DEF WTypes, Unsubscribe
  <2>5. queue' \in [Watchers -> Seq(Events)]
    <3> DEFINE x == <<>>
    <3>1. x \in Seq(Events) /\ queue' = [queue EXCEPT ![w] = x]
      BY <2>1 DEF Unsubscribe
    <3> HIDE DEF x
    <3>. QED  BY <1>1, <3>1 DEF WTypes
  <2>6. mirror' \in [Watchers -> Listings] /\ deaf' \in [Watchers -> BOOLEAN]
    BY <1>1, <2>2 DEF WTypes, Unsubscribe
  <2>7. \A v \in Watchers : slots'[v].dir = None => queue'[v] = <<>>
    BY <1>1, <1>3 DEF WTypes
  <2>. QED  BY <2>4, <2>5, <2>6, <2>7 DEF WTypes
<1>5. OwedInv'
  BY <1>1, <1>2, SameOwed
<1>6. Mirrors(w)'
  BY <1>3 DEF Mirrors, NoSlot
<1>7. \A v \in Watchers : v # w => Mirrors(v)'
  BY <1>1, <1>2, <1>3, SameMirror DEF AllMirror
<1>8. NewEventsTrue
  <2> SUFFICES ASSUME NEW v \in Watchers, Len(queue'[v]) > Len(queue[v]) PROVE FALSE
    BY DEF NewEventsTrue
  <2>1. Len(queue[v]) \in Nat /\ Len(<<>>) = 0
    BY <1>1 DEF WTypes
  <2>. QED  BY <1>3, <2>1
<1>. QED  BY <1>4, <1>5, <1>6, <1>7, <1>8 DEF WInv, AllMirror

\* No watchers: the state in which a session begins.
NoWatchers ==
    /\ slots = [w \in Watchers |-> NoSlot]
    /\ queue = [w \in Watchers |-> <<>>]
    /\ owed = NoEvent
    /\ mirror = [w \in Watchers |-> NoListing]
    /\ deaf = [w \in Watchers |-> FALSE]

LEMMA NoWatchersInv == NoWatchers => WInv
<1> SUFFICES ASSUME NoWatchers PROVE WInv
  OBVIOUS
<1>1. <<>> \in Seq(Events) /\ <<>> \in Seq(Names)
  BY EmptySeq
<1>2. NoListing \in Listings
  BY DEF NoListing, Listings
<1>3. NoSlot \in [path : Seq(Names), recursive : BOOLEAN, dir : Inodes \cup {None}]
  BY <1>1 DEF NoSlot
<1>4. WTypes
  <2>1. queue \in [Watchers -> Seq(Events)]
    <3> DEFINE x == <<>>
    <3>1. x \in Seq(Events) /\ queue = [w \in Watchers |-> x]
      BY <1>1 DEF NoWatchers
    <3> HIDE DEF x
    <3>. QED  BY <3>1
  <2>. QED  BY <1>2, <1>3, <2>1 DEF WTypes, NoWatchers
<1>5. OwedInv
  BY DEF OwedInv, NoWatchers
<1>6. AllMirror
  BY DEF AllMirror, Mirrors, NoWatchers, NoSlot
<1>. QED  BY <1>4, <1>5, <1>6 DEF WInv

LEMMA ReopenStep ==
    ASSUME WInv, WReopen
    PROVE  WInv' /\ NewEventsTrue
<1>1. NoWatchers'
  BY DEF WReopen, NoWatchers
<1>2. WInv'
  <2>1. NoWatchers' => WInv'
    BY NoWatchersInv, PTL
  <2>. QED  BY <1>1, <2>1
<1>3. NewEventsTrue
  <2> SUFFICES ASSUME NEW v \in Watchers, Len(queue'[v]) > Len(queue[v]) PROVE FALSE
    BY DEF NewEventsTrue
  <2>1. Len(queue[v]) \in Nat /\ Len(<<>>) = 0
    BY DEF WInv, WTypes
  <2>2. queue'[v] = <<>>
    BY DEF WReopen
  <2>. QED  BY <2>1, <2>2
<1>. QED  BY <1>2, <1>3

\* The trailing delete, and the event that unlink had yet to send.
LEMMA ReclaimStep ==
    ASSUME IInv, [Next]_vars, DbInv', WInv, WReclaim
    PROVE  WInv' /\ NewEventsTrue
<1>1. WTypes /\ OwedInv /\ AllMirror
  BY DEF WInv
<1>2. entries' = entries /\ Emit(owed) /\ slots' = slots /\ owed' = NoEvent
  BY DEF WReclaim, Reclaim, Emit
<1>3. PICK e : e = owed
  OBVIOUS
<1>4. e \in Events \/ e = NoEvent
  BY <1>1, <1>3 DEF OwedInv
<1>5. PICK D : Informed(D, e) /\ D = {w \in Watchers : Deafened(w, e)}
  BY <1>2, <1>3 DEF Emit
<1>6. WTypes'
  BY <1>1, <1>2, <1>4, <1>5, InformedTypes
<1>7. OwedInv'
  BY <1>2 DEF OwedInv
<1>8. AllMirror'
  <2> SUFFICES ASSUME NEW w \in Watchers, slots'[w].dir # None, ~deaf'[w] PROVE
                   Attached(slots[w])' /\ Caught(w)' = entries'[slots'[w].dir]
    BY DEF AllMirror, Mirrors
  <2>1. ~deaf[w] /\ ~Deafened(w, e) /\ slots[w].dir # None
    BY <1>1, <1>2, <1>5 DEF Informed, WTypes
  <2>2. Attached(slots[w])
    BY <1>1, <2>1 DEF AllMirror, Mirrors
  <2>3. Attached(slots[w])' /\ ~Slashed(slots[w], e)
    BY <1>2, <2>1, <2>2, StillAttached
  <2>4. Caught(w) = entries[slots[w].dir]
    BY <1>1, <1>3, <2>1, <2>3 DEF AllMirror, Mirrors
  <2>5. queue[w] \in Seq(Events) /\ mirror[w] \in Listings
    BY <1>1 DEF WTypes
  <2>6. mirror'[w] = mirror[w] /\ queue'[w] = IF matches_slot(slots[w], e) THEN Append(queue[w], e) ELSE queue[w]
    BY <1>5, <2>1 DEF Informed
  <2>7. Caught(w)' = ReplayIn(mirror[w], slots[w].path, queue'[w])
    BY <1>2, <2>6, CaughtNext
  <2>8. CASE matches_slot(slots[w], e)
    <3>1. e \in Events
      BY <1>4, <2>8, NoEventQuiet
    <3>2. ReplayIn(mirror[w], slots[w].path, Append(queue[w], e))
            = Applied(ReplayIn(mirror[w], slots[w].path, queue[w]), slots[w].path, e)
      BY <2>5, <3>1, ReplayAppend
    <3>. QED  BY <1>2, <1>3, <2>3, <2>4, <2>6, <2>7, <2>8, <3>2 DEF Caught
  <2>9. CASE ~matches_slot(slots[w], e)
    BY <1>2, <1>3, <2>3, <2>4, <2>6, <2>7, <2>9 DEF Caught
  <2>. QED  BY <2>8, <2>9
<1>9. NewEventsTrue
  <2> SUFFICES ASSUME NEW w \in Watchers, Len(queue'[w]) > Len(queue[w])
               PROVE  LastEventTrue(w)'
    BY DEF NewEventsTrue
  <2>1. queue[w] \in Seq(Events)
    BY <1>1 DEF WTypes
  <2>2. matches_slot(slots[w], e)
    BY <1>5, <2>1, EmitAppends
  <2>3. e # NoEvent
    BY <2>2, NoEventQuiet
  <2>4. e \in Events /\ e.kind = "Remove" /\ Truth(owed)
    BY <1>1, <1>3, <2>3 DEF OwedInv
  <2>5. Truth(e)'
    <3>1. PICK q : q = Last(e.paths)
      OBVIOUS
    <3>2. resolve_to_inode(q) = None
      BY <1>3, <2>4, <3>1 DEF Truth
    <3>3. resolve_to_inode(q)' = None
      BY <1>2, <3>2, ResolveIsWalk, ResolveIsWalkNext
    <3>. QED  BY <2>4, <3>1, <3>3 DEF Truth
  <2>. QED  BY <1>1, <1>5, <2>4, <2>5, EmitTruthful
<1>. QED  BY <1>6, <1>7, <1>8, <1>9 DEF WInv

\* The delete fails: who was to hear of the removal is deaf from here on.
LEMMA ReclaimFailsStep ==
    ASSUME IInv, [Next]_vars, DbInv', WInv, WReclaimFails
    PROVE  WInv' /\ NewEventsTrue
<1>1. WTypes /\ OwedInv /\ AllMirror
  BY DEF WInv
<1>2. entries' = entries /\ slots' = slots /\ owed' = NoEvent
  BY DEF WReclaimFails, ReclaimFails
<1>3. PICK D : /\ Informed(D, NoEvent)
               /\ D = {w \in Watchers : matches_slot(slots[w], owed) \/ Deafened(w, owed)}
  BY DEF WReclaimFails
<1>4. WTypes'
  BY <1>1, <1>2, <1>3, InformedTypes
<1>5. OwedInv'
  BY <1>2 DEF OwedInv
<1>6. AllMirror'
  <2> SUFFICES ASSUME NEW w \in Watchers, slots'[w].dir # None, ~deaf'[w] PROVE
                   Attached(slots[w])' /\ Caught(w)' = entries'[slots'[w].dir]
    BY DEF AllMirror, Mirrors
  <2>1. /\ ~deaf[w] /\ ~matches_slot(slots[w], owed) /\ ~Deafened(w, owed)
        /\ slots[w].dir # None
    BY <1>1, <1>2, <1>3 DEF Informed, WTypes
  <2>2. Attached(slots[w])
    BY <1>1, <2>1 DEF AllMirror, Mirrors
  <2>3. PICK e : e = owed
    OBVIOUS
  <2>4. Attached(slots[w])' /\ ~Slashed(slots[w], e)
    BY <1>2, <2>1, <2>2, <2>3, StillAttached
  <2>5. Caught(w) = entries[slots[w].dir]
    BY <1>1, <2>1, <2>3, <2>4 DEF AllMirror, Mirrors
  <2>6. mirror'[w] = mirror[w] /\ queue'[w] = queue[w]
    BY <1>3, <2>1, NoEventQuiet DEF Informed
  <2>7. Caught(w)' = ReplayIn(mirror[w], slots[w].path, queue[w])
    BY <1>2, <2>6, CaughtNext
  <2>. QED  BY <1>2, <2>1, <2>4, <2>5, <2>7 DEF Caught
<1>7. NewEventsTrue
  <2> SUFFICES ASSUME NEW w \in Watchers, Len(queue'[w]) > Len(queue[w]) PROVE FALSE
    BY DEF NewEventsTrue
  <2>1. queue[w] \in Seq(Events)
    BY <1>1 DEF WTypes
  <2>2. matches_slot(slots[w], NoEvent)
    BY <1>3, <2>1, EmitAppends
  <2>. QED  BY <2>2, NoEventQuiet
<1>. QED  BY <1>4, <1>5, <1>6, <1>7 DEF WInv

\* The paths of directories lead where they led when what goes is none.
LEMMA UnlinkLeads ==
    ASSUME DbInv, DbInv', NEW p \in Inodes, NEW n \in Names,
           kind[entries[p][n]] # "dir", Sets(entries, entries', p, n, None),
           NEW d \in Inodes, kind[d] = "dir", NEW P \in Seq(Names), WalkIn(entries, P) = d
    PROVE  WalkIn(entries', P) = d
<1> DEFINE D == {c \in Inodes : kind[c] = "dir"}
<1>1. entries \in Tables /\ entries' \in Tables /\ d \in D
  BY EntriesTable, EntriesTableNext
<1>2. Keeps(entries, entries', D)
  <2> SUFFICES ASSUME NEW c \in D, NEW q \in Inodes, NEW m \in Names, entries[q][m] = c
               PROVE  q \in D /\ entries'[q][m] = c
    BY DEF Keeps
  <2>1. kind[q] = "dir"
    BY DEF DbInv, EntriesLive, Inodes, None
  <2>. QED  BY <2>1 DEF Sets
<1> HIDE DEF D
<1>. QED  BY <1>1, <1>2, StillLeads

\* unlink: the event goes out, or is owed.
LEMMA UnlinkStep ==
    ASSUME IInv, [Next]_vars, DbInv', WInv, NEW p \in Inodes, NEW n \in Names, WUnlink(p, n)
    PROVE  WInv' /\ NewEventsTrue
<1>1. WTypes /\ OwedInv /\ AllMirror /\ DbInv /\ DbTypes
  BY DEF WInv, IInv, DbInv
<1>2. /\ pending = None /\ ResolvesParent(p) /\ entries[p][n] # None
      /\ kind[entries[p][n]] # "dir" /\ kind' = kind
      /\ entries' = [entries EXCEPT ![p][n] = None]
  BY DEF WUnlink, Unlink, RequireWritable
<1>3. Sets(entries, entries', p, n, None)
  BY <1>1, <1>2 DEF Sets, DbTypes
<1>4. owed = NoEvent
  BY <1>1, <1>2, NothingOwed
<1>5. PICK q, i, e :
          /\ q \in Spellings(p, n) /\ i = entries[p][n] /\ e = Event("Remove", <<q>>, i)
          /\ IF pending' = None THEN Emit(e) /\ UNCHANGED owed
             ELSE owed' = e /\ UNCHANGED <<slots, queue, mirror, deaf>>
  BY DEF WUnlink
<1>6. i \in Inodes /\ \A m \in Names : entries[i][m] = None
  <2>1. i \in Inodes
    BY <1>1, <1>2, <1>5 DEF DbTypes
  <2>. QED  BY <1>1, <1>2, <1>5, <2>1 DEF DbInv, EntriesLive
<1>7. e \in Events /\ HeardByAll(e) /\ Truth(e)'
  BY <1>1, <1>2, <1>3, <1>5, <1>6, FreedSound
<1>8. CASE pending' = None
  <2>1. Emit(e) /\ owed' = owed
    BY <1>5, <1>8
  <2>. QED  BY <1>2, <1>7, <2>1, EmitStep
<1>9. CASE pending' # None
  <2>1. owed' = e /\ slots' = slots /\ queue' = queue /\ mirror' = mirror /\ deaf' = deaf
    BY <1>5, <1>9
  <2>2. WTypes'
    BY <1>1, <2>1 DEF WTypes
  <2>3. OwedInv'
    <3>1. Truth(owed)'
      BY <1>7, <2>1 DEF Truth
    <3>2. e.kind = "Remove"
      BY <1>5 DEF Event
    <3>. QED  BY <1>7, <1>9, <2>1, <3>1, <3>2 DEF OwedInv
  <2>4. AllMirror'
    <3> SUFFICES ASSUME NEW w \in Watchers, slots[w].dir # None, ~deaf[w]
                 PROVE  /\ Attached(slots[w])'
                        /\ ~Slashed(slots[w], e) => Caught(w)' = entries'[slots[w].dir]
      <4>1. \A w \in Watchers : Slashed(slots[w], owed)' <=> Slashed(slots[w], e)
        BY <2>1 DEF Slashed
      <4>. QED  BY <2>1, <4>1 DEF AllMirror, Mirrors
    <3>1. Attached(slots[w]) /\ Caught(w) = entries[slots[w].dir]
      BY <1>1, <1>4, NoEventQuiet DEF AllMirror, Mirrors
    <3>2. PICK P, d : P = slots[w].path /\ d = slots[w].dir /\ P = slots'[w].path /\ d = slots'[w].dir
      BY <2>1
    <3>3. P \in Seq(Names) /\ d \in Inodes /\ kind[d] = "dir" /\ WalkIn(entries, P) = d
      BY <3>1, <3>2 DEF Attached
    <3>4. WalkIn(entries', P) = d
      BY <1>1, <1>2, <1>3, <3>3, UnlinkLeads
    <3>5. Attached(slots[w])'
      BY <1>2, <3>2, <3>3, <3>4 DEF Attached
    <3>6. ReplayIn(mirror[w], slots[w].path, queue[w]) = entries[slots[w].dir]
      BY <1>4, <3>1, CaughtNow
    <3>7. Caught(w)' = IF matches_slot(slots[w], e)
                       THEN Applied(entries[slots[w].dir], slots[w].path, e)
                       ELSE entries[slots[w].dir]
      BY <2>1, <3>6 DEF Caught
    <3>8. ~Slashed(slots[w], e) => Heard(slots[w], e)
      BY <1>7, <3>1 DEF HeardByAll
    <3>. QED  BY <3>5, <3>7, <3>8 DEF Heard
  <2>5. NewEventsTrue
    <3> SUFFICES ASSUME NEW v \in Watchers, Len(queue'[v]) > Len(queue[v]) PROVE FALSE
      BY DEF NewEventsTrue
    <3>1. Len(queue[v]) \in Nat
      BY <1>1 DEF WTypes
    <3>. QED  BY <2>1, <3>1
  <2>. QED  BY <2>2, <2>3, <2>4, <2>5 DEF WInv
<1>. QED  BY <1>8, <1>9

\* The calls that put a name in a directory.
LEMMA CreateLinkStep ==
    ASSUME IInv, [Next]_vars, DbInv', WInv, NEW p \in Inodes, NEW n \in Names,
           WCreate(p, n) \/ \E tp \in Inodes, tn \in Names : WLink(tp, tn, p, n)
    PROVE  WInv' /\ NewEventsTrue
<1>1. WTypes /\ DbInv /\ DbTypes
  BY DEF WInv, IInv, DbInv
<1>2. PICK q, x, e :
          /\ q \in Spellings(p, n) /\ x \in Inodes
          /\ e = Event("Create", <<q>>, x) /\ Emit(e) /\ owed' = owed /\ pending = None
          /\ ResolvesParent(p) /\ entries[p][n] = None /\ Sets(entries, entries', p, n, x)
  <2>1. CASE WCreate(p, n)
    <3>1. PICK k \in {"file", "dir", "symlink"} : Inserts(k, p, n)
      BY <1>1, <2>1, InsertsRow DEF WCreate
    <3>2. /\ ResolvesParent(p) /\ entries[p][n] = None /\ NewInode \in Inodes
          /\ entries' = [entries EXCEPT ![p][n] = NewInode]
      BY <3>1 DEF Inserts, InsertNode
    <3>3. Sets(entries, entries', p, n, NewInode) /\ entries'[p][n] = NewInode
      BY <1>1, <3>2 DEF Sets, DbTypes
    <3>4. PICK q, e : /\ q \in Spellings(p, n)
                      /\ e = Event("Create", <<q>>, entries'[p][n]) /\ Emit(e)
      BY <2>1 DEF WCreate
    <3>5. owed' = owed /\ pending = None
      BY <2>1 DEF WCreate, Mkdir, CreateNew, Symlink, RequireWritable
    <3>. QED  BY <3>2, <3>3, <3>4, <3>5
  <2>2. CASE \E tp \in Inodes, tn \in Names : WLink(tp, tn, p, n)
    <3>1. PICK tp \in Inodes, tn \in Names : WLink(tp, tn, p, n)
      BY <2>2
    <3> DEFINE x == entries[tp][tn]
    <3>2. /\ ResolvesParent(p) /\ entries[p][n] = None /\ pending = None /\ x \in Inodes
          /\ entries' = [entries EXCEPT ![p][n] = x] /\ owed' = owed
      BY <1>1, <3>1 DEF WLink, Link, RequireWritable, DbTypes
    <3>3. Sets(entries, entries', p, n, x)
      BY <1>1, <3>2 DEF Sets, DbTypes
    <3>4. PICK q, e : q \in Spellings(p, n) /\ e = Event("Create", <<q>>, x) /\ Emit(e)
      BY <3>1 DEF WLink
    <3>. QED  BY <3>2, <3>3, <3>4
  <2>. QED  BY <2>1, <2>2
<1>3. e \in Events /\ HeardByAll(e) /\ Truth(e)'
  BY <1>1, <1>2, TakenSound
<1>. QED  BY <1>2, <1>3, EmitStep

LEMMA RmdirStep ==
    ASSUME IInv, [Next]_vars, DbInv', WInv, NEW p \in Inodes, NEW n \in Names, WRmdir(p, n)
    PROVE  WInv' /\ NewEventsTrue
<1>1. WTypes /\ DbInv /\ DbTypes
  BY DEF WInv, IInv, DbInv
<1>2. PICK q, i, e :
          /\ q \in Spellings(p, n)
          /\ i = entries[p][n] /\ e = Event("Remove", <<q>>, i) /\ Emit(e) /\ owed' = owed
  BY DEF WRmdir
<1>3. /\ pending = None /\ ResolvesParent(p) /\ i # None /\ IsEmpty(i)
      /\ entries' = [entries EXCEPT ![p][n] = None]
  BY <1>2 DEF WRmdir, Rmdir, RequireWritable
<1>4. Sets(entries, entries', p, n, None) /\ i \in Inodes
  BY <1>1, <1>2, <1>3 DEF Sets, DbTypes
<1>5. \A m \in Names : entries[i][m] = None
  BY <1>3 DEF IsEmpty, NoListing
<1>6. e \in Events /\ HeardByAll(e) /\ Truth(e)'
  BY <1>1, <1>2, <1>3, <1>4, <1>5, FreedSound
<1>. QED  BY <1>2, <1>3, <1>6, EmitStep

LEMMA RenameStep ==
    ASSUME IInv, [Next]_vars, DbInv', WInv, NEW sp \in Inodes, NEW sn \in Names,
           NEW dp \in Inodes, NEW dn \in Names, WRename(sp, sn, dp, dn)
    PROVE  WInv' /\ NewEventsTrue
<1>1. WTypes /\ DbInv
  BY DEF WInv, IInv
<1>2. PICK q, r, e :
          /\ q \in Spellings(sp, sn) /\ r \in Spellings(dp, dn)
          /\ e = Event("Move", <<q, r>>, entries[sp][sn]) /\ Emit(e) /\ owed' = owed
  BY DEF WRename
<1>3. RenameMove(sp, sn, dp, dn) \/ RenameReplace(sp, sn, dp, dn)
  BY DEF WRename
<1>4. pending = None
  BY <1>3 DEF RenameMove, RenameReplace, RequireWritable
<1>5. e \in Events /\ HeardByAll(e) /\ Truth(e)'
  BY <1>1, <1>2, <1>3, MovedSound
<1>. QED  BY <1>2, <1>4, <1>5, EmitStep

\* A call that changes no entry emits what q leads to.
LEMMA QuietEmits ==
    ASSUME IInv, [Next]_vars, DbInv', WInv, UNCHANGED <<vars, owed>>, pending = None,
           NEW k \in {"Modify", "Metadata"}, NEW i \in Inodes,
           NEW q \in Seq(Names \cup {""}), resolve_to_inode(q) = i,
           Emit(Event(k, <<q>>, i))
    PROVE  WInv' /\ NewEventsTrue
<1>1. PICK e : e = Event(k, <<q>>, i)
  OBVIOUS
<1>2. e \in Events /\ HeardByAll(e) /\ Truth(e)'
  BY <1>1, QuietSound DEF IInv
<1>. QED  BY <1>1, <1>2, EmitStep

\* Names, of the paths that may have a slash at their end.
LEMMA NamesAreComponents == Seq(Names) \subseteq Seq(Names \cup {""})
BY SeqMonotonic

LEMMA WriteStep ==
    ASSUME IInv, [Next]_vars, DbInv', WInv, NEW f \in Fds, Write(f)
    PROVE  WInv' /\ NewEventsTrue
<1>1. /\ UNCHANGED vars /\ pending = None /\ fds[f] # None
      /\ entries' = entries /\ kind' = kind /\ pending' = pending
  BY DEF Write, RequireWritable, vars
<1>2. PICK i : i = fds[f]
  OBVIOUS
<1>3. i \in Inodes
  BY <1>1, <1>2 DEF IInv, SessionInv, SessionTypes
<1>4. CASE path_for_inode(i) = {}
  <2>1. UNCHANGED watching
    BY <1>2, <1>4 DEF Write
  <2>. QED  BY <1>1, <2>1, QuietStep
<1>5. CASE path_for_inode(i) # {}
  <2>1. PICK q \in path_for_inode(i) : Emit(Event("Modify", <<q>>, i)) /\ UNCHANGED owed
    BY <1>2, <1>5 DEF Write
  <2>2. q \in Seq(Names) /\ WalkIn(entries, q) = i
    BY <1>3, PathLeads DEF IInv
  <2>3. q \in Seq(Names \cup {""})
    BY <2>2, NamesAreComponents, Zenon
  <2>4. resolve_to_inode(q) = i
    BY <2>2, Resolves
  <2>. QED  BY <1>1, <1>3, <2>1, <2>3, <2>4, QuietEmits
<1>. QED  BY <1>4, <1>5

LEMMA MetadataStep ==
    ASSUME IInv, [Next]_vars, DbInv', WInv, NEW i \in Inodes, Metadata(i)
    PROVE  WInv' /\ NewEventsTrue
<1>1. UNCHANGED <<vars, owed>> /\ pending = None /\ DbInv
  BY DEF Metadata, RequireWritable, IInv
<1>2. PICK q : /\ q \in IF i = ROOT_INODE THEN {<<>>}
                        ELSE UNION {Spellings(e[1], e[2]) : e \in Links(i)}
               /\ Emit(Event("Metadata", <<q>>, i))
  BY DEF Metadata
<1>3. q \in Seq(Names \cup {""}) /\ resolve_to_inode(q) = i
  <2>1. CASE i = ROOT_INODE
    <3>1. q = <<>> /\ q \in Seq(Names)
      BY <1>2, <2>1, EmptySeq
    <3>2. q \in Seq(Names \cup {""})
      BY <3>1, NamesAreComponents, Zenon
    <3>3. WalkIn(entries, <<>>) = ROOT_INODE
      BY <1>1, EntriesTable, WalkEmpty
    <3>4. resolve_to_inode(q) = WalkIn(entries, q)
      BY <3>1, Resolves
    <3>. QED  BY <2>1, <3>1, <3>2, <3>3, <3>4
  <2>2. CASE i # ROOT_INODE
    <3>1. PICK e \in Links(i) : q \in Spellings(e[1], e[2])
      BY <1>2, <2>2
    <3>2. PICK p \in Inodes, n \in Names : p = e[1] /\ n = e[2] /\ entries[p][n] = i
      BY <3>1 DEF Links
    <3>3. p = ROOT_INODE \/ Named(p)
      BY <1>1, <3>2 DEF DbInv, Occupied, Inodes, None
    <3>4. PathOfDir(p) \in Seq(Names) /\ WalkIn(entries, PathOfDir(p)) = p
      BY <1>1, <3>3, DirPath
    <3>5. Spells(q, p, n, PathOfDir(p))
      BY <3>1, <3>2, <3>4 DEF Spells, Spellings
    <3>6. q \in Seq(Names \cup {""})
      BY <3>5, SpelledPath, Zenon
    <3>7. resolve_to_inode(q) = i
      BY <1>1, <3>2, <3>5, SpelledLeadsNow
    <3>. QED  BY <3>6, <3>7
  <2>. QED  BY <2>1, <2>2
<1>. QED  BY <1>1, <1>2, <1>3, QuietEmits

LEMMA SilentStep ==
    ASSUME WInv, Silent
    PROVE  WInv' /\ NewEventsTrue
<1>1. /\ UNCHANGED watching /\ pending = None
      /\ entries' = entries /\ kind' = kind
  BY DEF Silent, CreateExisting, Open, CloseFd, RequireWritable
<1>2. owed = NoEvent
  BY <1>1, NothingOwed DEF WInv
<1>. QED  BY <1>1, <1>2, QuietStep

\* Every step keeps the invariant of the watchers and says what is so.
LEMMA WStep ==
    ASSUME IInv, WInv, [WNext]_wvars
    PROVE  WInv' /\ NewEventsTrue
<1>1. [Next]_vars
  BY WStepIsNext
<1>2. DbInv'
  BY <1>1, DbStep DEF IInv
<1>3. CASE UNCHANGED wvars
  <2>1. UNCHANGED watching /\ entries' = entries /\ kind' = kind /\ pending' = pending
    BY <1>3 DEF wvars, vars
  <2>. QED  BY <2>1, QuietStep
<1>4. CASE WReopen
  BY <1>4, ReopenStep
<1>5. CASE WReclaim
  BY <1>1, <1>2, <1>5, ReclaimStep
<1>6. CASE WReclaimFails
  BY <1>1, <1>2, <1>6, ReclaimFailsStep
<1>7. CASE Silent
  BY <1>7, SilentStep
<1>8. ASSUME NEW w \in Watchers,
             Unsubscribe(w) \/ Recv(w) \/ \E d \in Inodes, rec \in BOOLEAN : Subscribe(w, d, rec)
      PROVE  WInv' /\ NewEventsTrue
  BY <1>8, UnsubscribeStep, RecvStep, SubscribeStep
<1>9. ASSUME NEW f \in Fds, Write(f)
      PROVE  WInv' /\ NewEventsTrue
  BY <1>1, <1>2, <1>9, WriteStep
<1>10. ASSUME NEW i \in Inodes, Metadata(i)
       PROVE  WInv' /\ NewEventsTrue
  BY <1>1, <1>2, <1>10, MetadataStep
<1>11. ASSUME NEW p \in Inodes, NEW n \in Names, WCreate(p, n) \/ WRmdir(p, n) \/ WUnlink(p, n)
       PROVE  WInv' /\ NewEventsTrue
  BY <1>1, <1>2, <1>11, CreateLinkStep, RmdirStep, UnlinkStep
<1>12. ASSUME NEW p \in Inodes, NEW q \in Inodes, NEW m \in Names, NEW n \in Names,
              WLink(p, m, q, n) \/ WRename(p, m, q, n)
       PROVE  WInv' /\ NewEventsTrue
  <2>1. CASE WLink(p, m, q, n)
    BY <1>1, <1>2, <2>1, CreateLinkStep
  <2>2. CASE WRename(p, m, q, n)
    BY <1>1, <1>2, <2>2, RenameStep
  <2>. QED  BY <1>12, <2>1, <2>2
<1>. QED  BY <1>3, <1>4, <1>5, <1>6, <1>7, <1>8, <1>9, <1>10, <1>11, <1>12 DEF WNext

-----------------------------------------------------------------------------
(* Watchers: the theorems.                                                 *)

\* The calls that tell the watchers do to the tables what Namespace says they
\* do: fs.rs with its emit calls implements the tree without them.
THEOREM WatchImplements == WSpec => Spec
<1>1. WInit => Init
  BY DEF WInit
<1>2. [WNext]_wvars => [Next]_vars
  BY WStepIsNext
<1>. QED  BY <1>1, <1>2, PTL DEF WSpec, Spec

LEMMA WInvariant == WSpec => []WInv
<1>1. WInit => WInv
  BY NoWatchersInv DEF WInit, NoWatchers
<1>2. IInv /\ WInv /\ [WNext]_wvars => WInv'
  BY WStep
<1>. QED  BY <1>1, <1>2, WatchImplements, Invariant, PTL DEF WSpec

\* The types of the registry, and that only a running unlink owes an event.
THEOREM WatchTypes == WSpec => []WatchTypeOK
<1>1. WInv => WatchTypeOK
  <2> SUFFICES ASSUME WInv PROVE WatchTypeOK
    OBVIOUS
  <2>1. WTypes /\ OwedInv
    BY DEF WInv
  <2>2. ASSUME NEW w \in Watchers
        PROVE  /\ slots[w].recursive \in BOOLEAN /\ slots[w].dir \in Inodes \cup {None}
               /\ mirror[w] \in Listings
               /\ slots[w].dir = None => queue[w] = <<>>
    BY <2>1 DEF WTypes
  <2>3. ASSUME NEW w \in Watchers, NEW k \in DOMAIN queue[w]
        PROVE  /\ queue[w][k].kind \in Kinds
               /\ Len(queue[w][k].paths) = IF queue[w][k].kind = "Move" THEN 2 ELSE 1
    <3>1. queue[w] \in Seq(Events)
      BY <2>1 DEF WTypes
    <3>2. queue[w][k] \in Events
      BY <3>1
    <3>. QED  BY <3>2 DEF Events
  <2>. QED  BY <2>1, <2>2, <2>3 DEF WatchTypeOK, WTypes, OwedInv, Listings
<1>. QED  BY <1>1, WInvariant, PTL

\* Whatever happens in between, and whatever waits in its channel: a consumer
\* that is not deaf comes to list exactly the directory it watches.
THEOREM WatchersMirror == WSpec => []MirrorsDirectory
<1>1. WInv => MirrorsDirectory
  <2> SUFFICES ASSUME WInv, NEW w \in Watchers, slots[w].dir # None, ~deaf[w], owed = NoEvent
               PROVE  Replayed(w) = entries[slots[w].dir]
    BY DEF MirrorsDirectory
  <2>1. Mirrors(w)
    BY DEF WInv, AllMirror
  <2>2. Caught(w) = entries[slots[w].dir]
    BY <2>1, NoEventQuiet DEF Mirrors
  <2>. QED  BY <2>2, CaughtNow, ReplayedIsReplayIn
<1>. QED  BY <1>1, WInvariant, PTL

\* A write to a file all of whose names are in the watched directory is heard,
\* whichever of them path_for_inode takes.
THEOREM WritesAreHeard == WSpec => []WritesHeard
<1>1. IInv /\ WInv => WritesHeard
  <2> SUFFICES ASSUME IInv, WInv, NEW f \in Fds, NEW w \in Watchers, fds[f] # None, ~deaf[w],
                      ParentsOf(fds[f]) = {slots[w].dir}, NEW q \in path_for_inode(fds[f])
               PROVE  matches_slot(slots[w], Event("Modify", <<q>>, fds[f]))
    BY DEF WritesHeard
  <2>1. fds[f] \in Inodes /\ DbInv
    BY DEF IInv, SessionInv, SessionTypes
  <2>2. PICK b \in Seq(Names), e \in Links(fds[f]) :
            q = Append(b, e[2]) /\ WalkIn(entries, b) = e[1]
    BY <2>1, PathLeads
  <2>3. e[1] \in Inodes /\ e[2] \in Names /\ entries[e[1]][e[2]] = fds[f]
    BY <2>2 DEF Links
  <2>4. e[1] \in ParentsOf(fds[f])
    BY <2>3 DEF ParentsOf
  <2>5. e[1] = slots[w].dir /\ slots[w].dir # None
    BY <2>3, <2>4 DEF Inodes, None
  <2>6. Attached(slots[w])
    BY <2>5 DEF WInv, AllMirror, Mirrors
  <2>7. slots[w].path = b
    BY <2>1, <2>2, <2>5, <2>6, OnePathPerDir DEF Attached
  <2>8. parent_of_path(q) = b /\ IsStrictPrefix(b, q)
    BY <2>2, <2>3, ParentOfAppend, PrefixOfAppend
  <2>9. path_matches(q, slots[w])
    BY <2>7, <2>8 DEF path_matches
  <2>. QED  BY <2>9 DEF matches_slot, Event
<1>. QED  BY <1>1, WatchImplements, Invariant, WInvariant, PTL

\* No event says what is not so when it is sent, over whichever path it is
\* said and however long unlink has owed it.
THEOREM EventsAreTrue == WSpec => EventsTruthful
<1>1. IInv /\ WInv /\ [WNext]_wvars
         => [\A w \in Watchers : Len(queue'[w]) > Len(queue[w]) => LastEventTrue(w)']_wvars
  BY WStep DEF NewEventsTrue
<1>. QED  BY <1>1, WatchImplements, Invariant, WInvariant, PTL DEF WSpec, EventsTruthful
=============================================================================
