---------------------------- MODULE PyTreeProofs ----------------------------
(***************************************************************************)
(* Theorems about PyTree: link counts, open files, cycles and cached paths *)
(* of the Python library, for every set of names and every bound.          *)
(***************************************************************************)
EXTENDS PyTree, Induction

-----------------------------------------------------------------------------
(* Tables and ways through them.  An operator on given tables serves both  *)
(* the state before a step and the one after it.                           *)

Tables == [Inodes -> [Names -> Inodes \cup {None}]]
Kinds == [Inodes -> {"none", "file", "dir", "symlink"}]

\* One step of a walk: what name n is bound to in i.
Down(E, K, i, n) ==
    IF i = None THEN None ELSE IF K[i] # "dir" THEN None ELSE E[i][n]

WalkIn(E, K, path) ==
    LET at[k \in 0..Len(path)] ==
            IF k = 0 THEN ROOT_INODE
            ELSE LET d == at[k - 1]
                 IN  IF d = None THEN None
                     ELSE IF K[d] # "dir" THEN None
                     ELSE E[d][path[k]]
    IN  at[Len(path)]

\* at holds the inodes that a walk along path visits.
Visits(E, K, path, at) ==
    /\ at \in [0..Len(path) -> Inodes \cup {None}]
    /\ at[0] = ROOT_INODE
    /\ \A k \in 1..Len(path) : at[k] = Down(E, K, at[k - 1], path[k])

LEMMA RootInode == ROOT_INODE \in Inodes
BY PyTreeAssumption DEF ROOT_INODE, Inodes

LEMMA WalkIsWalkIn == \A q : Walk(q) = WalkIn(entries, kind, q)
BY DEF Walk, WalkIn

LEMMA WalkIsWalkInNext == \A q : Walk(q)' = WalkIn(entries', kind', q)
BY DEF Walk, WalkIn

\* Every path has its walk.
LEMMA VisitsExist ==
    ASSUME NEW E \in Tables, NEW K \in Kinds, NEW path \in Seq(Names)
    PROVE  \E at : Visits(E, K, path, at)
<1> DEFINE V == Inodes \cup {None}
           n == Len(path)
           D == [x \in V \X (1..n) |-> Down(E, K, x[1], path[x[2]])]
<1>1. n \in Nat /\ ROOT_INODE \in V
  BY RootInode
<1>2. \A v \in V, k \in 1..n : Down(E, K, v, path[k]) \in V
  BY DEF Down, Tables, Kinds
<1>3. StepsIn(D, V, n)
  BY <1>2 DEF StepsIn
<1>4. \A v \in V, k \in 1..n : D[<<v, k>>] = Down(E, K, v, path[k])
  OBVIOUS
<1> HIDE DEF D, V, n
<1>5. PICK f : Recursion(f, ROOT_INODE, D, V, n)
  BY <1>1, <1>3, RecursionExists
<1>6. ASSUME NEW k \in 1..n PROVE f[k] = Down(E, K, f[k - 1], path[k])
  <2>1. f[k - 1] \in V
    BY <1>1, <1>5 DEF Recursion
  <2>. QED  BY <1>4, <1>5, <2>1 DEF Recursion
<1>7. Visits(E, K, path, f)
  BY <1>5, <1>6 DEF Recursion, Visits, V, n
<1>. QED  BY <1>7

\* A path has one walk only.
LEMMA VisitsUnique ==
    ASSUME NEW E, NEW K, NEW path \in Seq(Names), NEW f, NEW g,
           Visits(E, K, path, f), Visits(E, K, path, g)
    PROVE  f = g
<1>1. f[0] = g[0] /\ Len(path) \in Nat
  BY DEF Visits
<1>2. \A k \in 1..Len(path) : f[k - 1] = g[k - 1] => f[k] = g[k]
  BY DEF Visits
<1> DEFINE S == {k \in 0..Len(path) : f[k] = g[k]}
<1>3. 0 \in S /\ \A k \in 1..Len(path) : k - 1 \in S => k \in S
  BY <1>1, <1>2
<1> HIDE DEF S
<1>4. 0..Len(path) \subseteq S
  BY <1>1, <1>3, UpToInduction
<1>. QED  BY <1>4 DEF S, Visits

\* What Walk computes is where the walk ends.
LEMMA WalkEnds ==
    ASSUME NEW E \in Tables, NEW K \in Kinds, NEW path \in Seq(Names), NEW at,
           Visits(E, K, path, at)
    PROVE  WalkIn(E, K, path) = at[Len(path)]
<1> DEFINE n == Len(path)
           Is(f) == f = [k \in 0..n |->
                            IF k = 0 THEN ROOT_INODE
                            ELSE IF f[k - 1] = None THEN None
                            ELSE IF K[f[k - 1]] # "dir" THEN None
                            ELSE E[f[k - 1]][path[k]]]
           w == CHOOSE f : Is(f)
<1>0. n \in Nat
  OBVIOUS
<1>1. Is(at)
  BY <1>0 DEF Visits, Down
<1>2. Is(w)
  BY <1>1, ZenonT(60)
<1>3. WalkIn(E, K, path) = w[n]
  BY DEF WalkIn
<1> HIDE DEF w
<1>4. w[0] = ROOT_INODE /\ at[0] = ROOT_INODE
  BY <1>0, <1>2 DEF Visits
<1>5. ASSUME NEW k \in 1..n, w[k - 1] = at[k - 1]
      PROVE  w[k] = at[k]
  <2>1. k \in 0..n /\ k # 0
    BY <1>0
  <2>2. w[k] = IF k = 0 THEN ROOT_INODE
               ELSE IF w[k - 1] = None THEN None
               ELSE IF K[w[k - 1]] # "dir" THEN None
               ELSE E[w[k - 1]][path[k]]
    BY <1>2, <2>1, ZenonT(60)
  <2>3. at[k] = Down(E, K, at[k - 1], path[k])
    BY DEF Visits
  <2>. QED  BY <1>5, <2>1, <2>2, <2>3, ZenonT(60) DEF Down
<1> HIDE DEF n, Is
<1>6. \A k \in 0..n : w[k] = at[k]
  <2> DEFINE S == {k \in 0..n : w[k] = at[k]}
  <2>1. 0 \in S
    BY <1>0, <1>4
  <2>2. ASSUME NEW k \in 1..n, k - 1 \in S PROVE k \in S
    <3>1. w[k - 1] = at[k - 1]
      BY <2>2
    <3>2. w[k] = at[k]
      BY <1>5, <3>1
    <3>3. k \in 0..n
      BY <1>0
    <3>. QED  BY <3>2, <3>3
  <2> HIDE DEF S
  <2>3. 0..n \subseteq S
    BY <1>0, <2>1, <2>2, UpToInduction
  <2>. QED  BY <2>3 DEF S
<1>7. n \in 0..n
  BY <1>0
<1>. QED  BY <1>3, <1>6, <1>7 DEF n

\* Behind the first missing entry of a walk there is nothing.
LEMMA NoneStays ==
    ASSUME NEW E, NEW K, NEW path \in Seq(Names), NEW at, Visits(E, K, path, at),
           NEW j \in 0..Len(path), at[j] = None
    PROVE  at[Len(path)] = None
<1> DEFINE n == Len(path)
           S == {k \in 0..n : k >= j => at[k] = None}
<1>0. n \in Nat
  OBVIOUS
<1>1. 0 \in S
  BY <1>0
<1>2. ASSUME NEW k \in 1..n, k - 1 \in S
      PROVE  k \in S
  <2>1. CASE k - 1 >= j
    <3>1. at[k - 1] = None
      BY <1>2, <2>1
    <3>2. at[k] = None
      BY <3>1 DEF Visits, Down
    <3>. QED  BY <3>2
  <2>2. CASE ~(k - 1 >= j)
    BY <2>2
  <2>. QED  BY <2>1, <2>2
<1> HIDE DEF S, n
<1>3. 0..n \subseteq S
  BY <1>0, <1>1, <1>2, UpToInduction
<1>4. n \in S
  BY <1>0, <1>3
<1>. QED  BY <1>4 DEF S, n

\* On the way to something there are directories, with an entry each.
LEMMA WayThrough ==
    ASSUME NEW E, NEW K, NEW path \in Seq(Names), NEW at, Visits(E, K, path, at),
           at[Len(path)] # None
    PROVE  \A k \in 1..Len(path) :
               /\ at[k - 1] \in Inodes
               /\ K[at[k - 1]] = "dir"
               /\ at[k] = E[at[k - 1]][path[k]]
               /\ at[k] \in Inodes
<1> TAKE k \in 1..Len(path)
<1>1. at[k] \in Inodes \cup {None} /\ at[k - 1] \in Inodes \cup {None}
  BY DEF Visits
<1>2. k \in 0..Len(path) /\ k - 1 \in 0..Len(path)
  OBVIOUS
<1>3. at[k] # None
  BY <1>2, NoneStays
<1>4. at[k - 1] # None
  BY <1>2, NoneStays
<1>5. at[k] = Down(E, K, at[k - 1], path[k])
  BY DEF Visits
<1>. QED  BY <1>1, <1>3, <1>4, <1>5 DEF Down

\* A walk along the beginning of a path is the beginning of the walk.
LEMMA WalkSub ==
    ASSUME NEW E \in Tables, NEW K \in Kinds, NEW path \in Seq(Names), NEW at,
           Visits(E, K, path, at), NEW j \in 0..Len(path)
    PROVE  WalkIn(E, K, SubSeq(path, 1, j)) = at[j]
<1> DEFINE q == SubSeq(path, 1, j)
           g == [k \in 0..j |-> at[k]]
<1>1. q \in Seq(Names) /\ Len(q) = j /\ \A k \in 1..j : q[k] = path[k]
  OBVIOUS
<1>2. \A k \in 0..j : k \in 0..Len(path)
  OBVIOUS
<1>3. g \in [0..j -> Inodes \cup {None}] /\ g[0] = ROOT_INODE
  BY <1>2 DEF Visits
<1>4. ASSUME NEW k \in 1..j PROVE g[k] = Down(E, K, g[k - 1], q[k])
  <2>1. g[k] = at[k] /\ g[k - 1] = at[k - 1] /\ k \in 1..Len(path)
    OBVIOUS
  <2>. QED  BY <1>1, <2>1 DEF Visits
<1> HIDE DEF q, g
<1>5. Visits(E, K, q, g)
  BY <1>1, <1>3, <1>4 DEF Visits
<1>6. WalkIn(E, K, q) = g[j]
  BY <1>1, <1>5, WalkEnds
<1>. QED  BY <1>6 DEF q, g

\* A walk ends where it did if what it passes through is as it was.
LEMMA WalkStays ==
    ASSUME NEW E \in Tables, NEW F \in Tables, NEW K \in Kinds, NEW L \in Kinds,
           NEW path \in Seq(Names), NEW at, Visits(E, K, path, at),
           at[Len(path)] # None,
           \A k \in 1..Len(path) :
               /\ L[at[k - 1]] = "dir"
               /\ F[at[k - 1]][path[k]] = E[at[k - 1]][path[k]]
    PROVE  WalkIn(F, L, path) = at[Len(path)]
<1>0. \A k \in 1..Len(path) :
          /\ at[k - 1] \in Inodes
          /\ K[at[k - 1]] = "dir"
          /\ at[k] = E[at[k - 1]][path[k]]
          /\ at[k] \in Inodes
  BY WayThrough, Zenon
<1>1. ASSUME NEW k \in 1..Len(path) PROVE at[k] = Down(F, L, at[k - 1], path[k])
  <2>1. at[k - 1] \in Inodes /\ at[k] = E[at[k - 1]][path[k]]
    BY <1>0
  <2>2. at[k - 1] # None
    BY <2>1 DEF None, Inodes
  <2>. QED  BY <2>1, <2>2 DEF Down
<1>2. Visits(F, L, path, at)
  BY <1>1 DEF Visits
<1>. QED  BY <1>2, WalkEnds

\* Paths are sequences of names.
LEMMA PathsAreSeqs == Paths \subseteq Seq(Names)
<1> SUFFICES ASSUME NEW k \in 0..(MaxInode - 1), NEW q \in [1..k -> Names]
             PROVE  q \in Seq(Names)
  BY DEF Paths
<1>1. k \in Nat
  BY PyTreeAssumption
<1>. QED  BY <1>1

-----------------------------------------------------------------------------
(* Links and cycles.                                                       *)

LinksIn(E, i) == {e \in Inodes \X Names : E[e[1]][e[2]] = i}

\* F is E with entry (p, n) set to x.
Sets(E, F, p, n, x) ==
    \A q \in Inodes, m \in Names : F[q][m] = IF q = p /\ m = n THEN x ELSE E[q][m]

\* F is E with (sp, sn) set to x and (dp, dn), which is another name, to y.
Sets2(E, F, sp, sn, x, dp, dn, y) ==
    /\ ~(sp = dp /\ sn = dn)
    /\ \A q \in Inodes, m \in Names :
          F[q][m] = IF q = dp /\ m = dn THEN y
                    ELSE IF q = sp /\ m = sn THEN x ELSE E[q][m]

\* The links of an inode are finitely many.
LEMMA LinksFinite ==
    ASSUME NEW E, NEW i
    PROVE  IsFiniteSet(LinksIn(E, i)) /\ Cardinality(LinksIn(E, i)) \in Nat
<1>1. IsFiniteSet(Inodes)
  BY FS_Interval, PyTreeAssumption DEF Inodes
<1>2. IsFiniteSet(Inodes \X Names)
  BY <1>1, FS_Product, PyTreeAssumption
<1>3. LinksIn(E, i) \in SUBSET (Inodes \X Names)
  BY DEF LinksIn
<1>. QED  BY <1>2, <1>3, FS_Subset, FS_CardinalityType

\* Setting one entry moves one link.
LEMMA LinkCount ==
    ASSUME NEW E, NEW F, NEW p \in Inodes, NEW n \in Names, NEW x, NEW i,
           Sets(E, F, p, n, x)
    PROVE  Cardinality(LinksIn(F, i))
              = Cardinality(LinksIn(E, i)) + (IF x = i THEN 1 ELSE 0)
                                           - (IF E[p][n] = i THEN 1 ELSE 0)
<1> DEFINE e0 == <<p, n>>
<1>1. \A e \in Inodes \X Names : e # e0 => F[e[1]][e[2]] = E[e[1]][e[2]]
  BY DEF Sets
<1>2. F[p][n] = x
  BY DEF Sets
<1>3. LinksIn(E, i) \ {e0} = LinksIn(F, i) \ {e0}
  BY <1>1 DEF LinksIn
<1>4. e0 \in LinksIn(F, i) <=> x = i
  BY <1>2 DEF LinksIn
<1>5. e0 \in LinksIn(E, i) <=> E[p][n] = i
  BY DEF LinksIn
<1> HIDE DEF e0
<1>6. Cardinality(LinksIn(F, i)) = Cardinality(LinksIn(E, i))
          + (IF e0 \in LinksIn(F, i) THEN 1 ELSE 0) - (IF e0 \in LinksIn(E, i) THEN 1 ELSE 0)
  BY <1>3, LinksFinite, DifferInOne
<1>. QED  BY <1>4, <1>5, <1>6

\* Setting two entries moves two.
LEMMA LinkCount2 ==
    ASSUME NEW E \in Tables, NEW F, NEW sp \in Inodes, NEW sn \in Names, NEW x,
           NEW dp \in Inodes, NEW dn \in Names, NEW y, NEW i,
           Sets2(E, F, sp, sn, x, dp, dn, y)
    PROVE  Cardinality(LinksIn(F, i))
              = Cardinality(LinksIn(E, i))
                + (IF x = i THEN 1 ELSE 0) - (IF E[sp][sn] = i THEN 1 ELSE 0)
                + (IF y = i THEN 1 ELSE 0) - (IF E[dp][dn] = i THEN 1 ELSE 0)
<1> DEFINE M == [q \in Inodes |-> [m \in Names |-> IF q = sp /\ m = sn THEN x ELSE E[q][m]]]
<1>1. Sets(E, M, sp, sn, x) /\ Sets(M, F, dp, dn, y) /\ M[dp][dn] = E[dp][dn]
  BY DEF Sets, Sets2
<1> HIDE DEF M
<1>2. Cardinality(LinksIn(E, i)) \in Nat
  BY LinksFinite
<1>3. Cardinality(LinksIn(M, i)) = Cardinality(LinksIn(E, i))
            + (IF x = i THEN 1 ELSE 0) - (IF E[sp][sn] = i THEN 1 ELSE 0)
  BY <1>1, LinkCount
<1>4. Cardinality(LinksIn(F, i)) = Cardinality(LinksIn(M, i))
            + (IF y = i THEN 1 ELSE 0) - (IF M[dp][dn] = i THEN 1 ELSE 0)
  BY <1>1, LinkCount
<1>. QED  BY <1>1, <1>2, <1>3, <1>4

AcyclicIn(E) ==
    \A S \in SUBSET Inodes :
        (\A c \in S : \E p \in S, n \in Names : E[p][n] = c) => S = {}

\* F has no entries that E has not but for x, which has none of its own.
AddsLeaf(E, F, x) ==
    /\ \A c \in Inodes \ {x}, p \in Inodes, n \in Names : F[p][n] = c => E[p][n] = c
    /\ \A n \in Names, c \in Inodes : F[x][n] # c

LEMMA AcyclicLeaf ==
    ASSUME NEW E \in Tables, NEW F \in Tables, NEW x, AcyclicIn(E), AddsLeaf(E, F, x)
    PROVE  AcyclicIn(F)
<1> USE DEF AddsLeaf
<1> SUFFICES ASSUME NEW S \in SUBSET Inodes,
                    \A c \in S : \E p \in S, n \in Names : F[p][n] = c
             PROVE  S = {}
  BY DEF AcyclicIn
<1> DEFINE T == S \ {x}
<1>1. \A c \in S : \E p \in T, n \in Names : F[p][n] = c
  OBVIOUS
<1>2. \A c \in T : \E p \in T, n \in Names : E[p][n] = c
  BY <1>1
<1>3. T \in SUBSET Inodes
  OBVIOUS
<1> HIDE DEF T
<1>4. T = {}
  BY <1>2, <1>3 DEF AcyclicIn
<1>. QED  BY <1>1, <1>4

\* s gets the only parent q, and s is not met going up from q: A holds q and
\* whatever is met on the way.
LEMMA AcyclicMove ==
    ASSUME NEW E \in Tables, NEW F \in Tables, NEW s, NEW q \in Inodes, NEW A,
           AcyclicIn(E), q \in A, s \notin A,
           \A c \in A, p \in Inodes, n \in Names : E[p][n] = c => p \in A,
           \A c \in Inodes \ {s}, p \in Inodes, n \in Names : F[p][n] = c => E[p][n] = c,
           \A p \in Inodes, n \in Names : F[p][n] = s => p = q
    PROVE  AcyclicIn(F)
<1> SUFFICES ASSUME NEW S \in SUBSET Inodes,
                    \A c \in S : \E p \in S, n \in Names : F[p][n] = c
             PROVE  S = {}
  BY DEF AcyclicIn
<1>1. CASE s \notin S
  <2>1. \A c \in S : \E p \in S, n \in Names : E[p][n] = c
    BY <1>1
  <2>. QED  BY <2>1 DEF AcyclicIn
<1>2. CASE s \in S
  <2> DEFINE T == S \cap A
  <2>1. q \in T
    BY <1>2
  <2>2. ASSUME NEW c \in T
        PROVE  \E p \in T, n \in Names : E[p][n] = c
    <3>1. PICK p \in S, n \in Names : F[p][n] = c
      OBVIOUS
    <3>2. E[p][n] = c
      BY <3>1
    <3>. QED  BY <3>2
  <2>3. T \in SUBSET Inodes
    OBVIOUS
  <2>4. T = {}
    BY <2>2, <2>3 DEF AcyclicIn
  <2>. QED  BY <2>1, <2>4
<1>. QED  BY <1>1, <1>2

\* Ancestry(i) holds i and the parents of its members.
LEMMA AncestryClosed ==
    ASSUME NEW i \in Inodes
    PROVE  /\ i \in Ancestry(i)
           /\ \A c \in Ancestry(i), p \in Inodes, n \in Names :
                  entries[p][n] = c => p \in Ancestry(i)
<1> DEFINE Closed == {S \in SUBSET Inodes :
                         /\ i \in S
                         /\ \A p \in Inodes \ S, n \in Names : entries[p][n] \notin S}
<1>1. Ancestry(i) = {a \in Inodes : \A S \in Closed : a \in S}
  BY DEF Ancestry
<1>2. ASSUME NEW c \in Ancestry(i), NEW p \in Inodes, NEW n \in Names, entries[p][n] = c,
             NEW S \in Closed
      PROVE  p \in S
  <2>1. c \in S
    BY <1>1
  <2>. QED  BY <1>2, <2>1
<1> HIDE DEF Closed
<1>3. \A S \in Closed : i \in S
  BY DEF Closed
<1>. QED  BY <1>1, <1>2, <1>3

-----------------------------------------------------------------------------
(* The inductive invariant, in named parts.                                *)

DbTypes ==
    /\ kind \in Kinds
    /\ nlink \in [Inodes -> Int]
    /\ entries \in Tables
    /\ nextInode \in 1..(MaxInode + 1)

SessionTypes ==
    /\ fds \in [Fds -> Inodes \cup {None}]
    /\ nextFd \in 1..(MaxFd + 1)
    /\ readonly \in BOOLEAN
    /\ cache \in [Inodes -> Paths]

\* The root is a directory as long as it is there; a row that is gone counts
\* no links, and inode numbers from nextInode on are unused.
Rows ==
    /\ kind[ROOT_INODE] \in {"dir", "none"}
    /\ \A i \in Inodes : kind[i] = "none" => nlink[i] = 0
    /\ \A i \in Inodes : i >= nextInode => kind[i] = "none"
    /\ \A i \in Inodes : nlink[i] < 0 => kind[i] = "dir"

\* Entries sit in directories and bind rows other than the root's.
EntriesLive ==
    \A p \in Inodes, n \in Names :
        entries[p][n] # None =>
            /\ kind[p] = "dir"
            /\ entries[p][n] # ROOT_INODE
            /\ kind[entries[p][n]] # "none"

OneNamePerDir ==
    \A d, p, q \in Inodes, m, n \in Names :
        kind[d] = "dir" /\ entries[p][m] = d /\ entries[q][n] = d
            => p = q /\ m = n

\* Files and symlinks count all their names, though maybe more.
NamesCounted ==
    \A i \in Inodes :
        kind[i] \in {"file", "symlink"} => nlink[i] >= Cardinality(LinksIn(entries, i))

DbInv ==
    /\ DbTypes /\ Rows /\ EntriesLive /\ OneNamePerDir /\ NamesCounted

IInv == DbInv /\ SessionTypes

\* The step leaves the link counts of files and symlinks as right or wrong as
\* they were, and right for a new one.
CountsKept ==
    \A i \in Inodes :
        kind'[i] \in {"file", "symlink"} =>
            IF kind[i] \in {"file", "symlink"}
            THEN nlink'[i] - Cardinality(LinksIn(entries', i))
                    = nlink[i] - Cardinality(LinksIn(entries, i))
            ELSE nlink'[i] = Cardinality(LinksIn(entries', i))

LEMMA KeptIsCounted ==
    ASSUME DbTypes, DbTypes', NamesCounted, CountsKept
    PROVE  NamesCounted'
<1>1. \A i \in Inodes : /\ Cardinality(LinksIn(entries, i)) \in Nat
                         /\ Cardinality(LinksIn(entries', i)) \in Nat
                         /\ nlink[i] \in Int /\ nlink'[i] \in Int
  BY LinksFinite DEF DbTypes
<1>2. \A i \in Inodes : kind'[i] \in {"file", "symlink"}
          => nlink'[i] >= Cardinality(LinksIn(entries', i))
  BY <1>1 DEF CountsKept, NamesCounted
<1>. QED  BY <1>2 DEF NamesCounted, LinksIn

\* An inode without links has no name.
LEMMA NoLinks ==
    ASSUME NEW E, NEW i, Cardinality(LinksIn(E, i)) = 0
    PROVE  \A p \in Inodes, n \in Names : E[p][n] # i
<1>1. LinksIn(E, i) = {}
  BY LinksFinite, FS_EmptySet
<1>2. ASSUME NEW p \in Inodes, NEW n \in Names, E[p][n] = i
      PROVE  FALSE
  <2>1. <<p, n>> \in LinksIn(E, i)
    BY <1>2 DEF LinksIn
  <2>. QED  BY <1>1, <2>1
<1>. QED  BY <1>2

\* Where an entry leads.
LEMMA BoundInode ==
    ASSUME DbInv, NEW p \in Inodes, NEW n \in Names, entries[p][n] # None
    PROVE  /\ entries[p][n] \in Inodes
           /\ entries[p][n] < nextInode
           /\ entries[p][n] # ROOT_INODE
           /\ kind[entries[p][n]] # "none"
           /\ kind[p] = "dir"
<1>1. entries[p][n] \in Inodes
  BY DEF DbInv, DbTypes, Tables
<1>2. kind[entries[p][n]] # "none" /\ entries[p][n] # ROOT_INODE /\ kind[p] = "dir"
  BY DEF DbInv, EntriesLive
<1>3. ~(entries[p][n] >= nextInode)
  BY <1>1, <1>2 DEF DbInv, Rows
<1>4. entries[p][n] \in Int /\ nextInode \in Int
  BY <1>1 DEF DbInv, DbTypes, Inodes
<1>. QED  BY <1>1, <1>2, <1>3, <1>4

\* What the entries of S bind.
Below(S) == {entries[e[1]][e[2]] : e \in {x \in S \X Names : entries[x[1]][x[2]] # None}}

\* The levels that Resolvable is built of.
LEMMA ResolvableLevels ==
    ASSUME DbTypes
    PROVE  \E up : /\ up[0] = {i \in {ROOT_INODE} : kind[i] # "none"}
                   /\ \A k \in 1..MaxInode : up[k] = up[k - 1] \cup Below(up[k - 1])
                   /\ Resolvable = up[MaxInode]
<1> DEFINE R == {i \in {ROOT_INODE} : kind[i] # "none"}
           V == SUBSET Inodes
           D == [x \in V \X (1..MaxInode) |-> x[1] \cup Below(x[1])]
           Is(f) == f = [k \in 0..MaxInode |->
                           IF k = 0 THEN R ELSE f[k - 1] \cup Below(f[k - 1])]
           w == CHOOSE f : Is(f)
<1>0. MaxInode \in Nat
  BY PyTreeAssumption
<1>1. R \in V
  BY RootInode
<1>2. \A S \in V : S \cup Below(S) \in V
  BY DEF Below, DbTypes, Tables
<1>3. StepsIn(D, V, MaxInode)
  BY <1>2 DEF StepsIn
<1>4. \A S \in V, k \in 1..MaxInode : D[<<S, k>>] = S \cup Below(S)
  OBVIOUS
<1> HIDE DEF D, V, R
<1>5. PICK g : Recursion(g, R, D, V, MaxInode)
  BY <1>0, <1>1, <1>3, RecursionExists
<1>6. ASSUME NEW k \in 1..MaxInode PROVE g[k] = g[k - 1] \cup Below(g[k - 1])
  <2>1. g[k - 1] \in V
    BY <1>0, <1>5 DEF Recursion
  <2>. QED  BY <1>4, <1>5, <2>1 DEF Recursion
<1>7. Is(g)
  <2>1. g \in [0..MaxInode -> V] /\ g[0] = R
    BY <1>5 DEF Recursion
  <2>2. \A k \in 0..MaxInode : k # 0 => k \in 1..MaxInode
    BY <1>0
  <2>3. \A k \in 0..MaxInode :
            g[k] = IF k = 0 THEN R ELSE g[k - 1] \cup Below(g[k - 1])
    BY <1>6, <2>1, <2>2
  <2>4. g = [k \in 0..MaxInode |-> g[k]]
    BY <2>1
  <2>. QED  BY <2>3, <2>4, Zenon
<1>8. Is(w)
  BY <1>7, ZenonT(60)
<1>9. Resolvable = w[MaxInode]
  BY DEF Resolvable, Below, R
<1> HIDE DEF w
<1>10. \A k \in 0..MaxInode : w[k] = IF k = 0 THEN R ELSE w[k - 1] \cup Below(w[k - 1])
  BY <1>8, ZenonT(60)
<1>11. 0 \in 0..MaxInode /\ \A k \in 1..MaxInode : k \in 0..MaxInode /\ k # 0
  BY <1>0
<1>12. w[0] = R /\ \A k \in 1..MaxInode : w[k] = w[k - 1] \cup Below(w[k - 1])
  BY <1>10, <1>11, Zenon
<1>. QED  BY <1>9, <1>12 DEF R

\* What holds of the first level, and of each that follows one of which it
\* holds, holds of Resolvable.
LEMMA ResolvableIn ==
    ASSUME DbTypes, NEW G, {i \in {ROOT_INODE} : kind[i] # "none"} \in G,
           \A S \in G : S \cup Below(S) \in G
    PROVE  Resolvable \in G
<1>1. PICK up : /\ up[0] = {i \in {ROOT_INODE} : kind[i] # "none"}
                /\ \A k \in 1..MaxInode : up[k] = up[k - 1] \cup Below(up[k - 1])
                /\ Resolvable = up[MaxInode]
  BY ResolvableLevels
<1> DEFINE T == {k \in 0..MaxInode : up[k] \in G}
<1>0. MaxInode \in Nat
  BY PyTreeAssumption
<1>2. 0 \in T
  <2>1. up[0] \in G
    BY <1>1, Zenon
  <2>. QED  BY <1>0, <2>1
<1>3. ASSUME NEW k \in 1..MaxInode, k - 1 \in T PROVE k \in T
  <2>1. up[k - 1] \in G /\ up[k] = up[k - 1] \cup Below(up[k - 1]) /\ k \in 0..MaxInode
    BY <1>0, <1>1, <1>3
  <2>. QED  BY <2>1
<1> HIDE DEF T
<1>4. 0..MaxInode \subseteq T
  BY <1>0, <1>2, <1>3, UpToInduction
<1>5. MaxInode \in T
  BY <1>0, <1>4
<1>. QED  BY <1>1, <1>5 DEF T

\* Without the root no path leads anywhere.
LEMMA RootFirst ==
    ASSUME DbTypes, kind[ROOT_INODE] = "none"
    PROVE  Resolvable = {}
<1>1. {i \in {ROOT_INODE} : kind[i] # "none"} \in {{}}
  OBVIOUS
<1>2. \A S \in {{}} : S \cup Below(S) \in {{}}
  BY DEF Below
<1>3. Resolvable \in {{}}
  BY <1>1, <1>2, ResolvableIn
<1>. QED  BY <1>3

\* No path leads to what only lies in itself, but for the root.
LEMMA OwnNameOnly ==
    ASSUME DbTypes, NEW d \in Inodes, d # ROOT_INODE,
           \A p \in Inodes, n \in Names : entries[p][n] = d => p = d
    PROVE  d \notin Resolvable
<1> DEFINE G == {S \in SUBSET Inodes : d \notin S}
<1>1. {i \in {ROOT_INODE} : kind[i] # "none"} \in G
  BY RootInode
<1>2. ASSUME NEW S \in G PROVE S \cup Below(S) \in G
  <2>1. \A p \in S, n \in Names : entries[p][n] # d
    OBVIOUS
  <2>2. \A p \in S, n \in Names : entries[p][n] # None => entries[p][n] \in Inodes
    BY DEF DbTypes, Tables
  <2>3. d \notin Below(S) /\ Below(S) \subseteq Inodes
    BY <2>1, <2>2 DEF Below
  <2>. QED  BY <2>3
<1> HIDE DEF G
<1>3. Resolvable \in G
  BY <1>1, <1>2, ResolvableIn
<1>. QED  BY <1>3 DEF G

\* A directory that a path leads to is there, and so is the root.
LEMMA InDirectories ==
    ASSUME DbInv, NEW p \in Directories
    PROVE  p \in Inodes /\ kind[p] = "dir" /\ kind[ROOT_INODE] = "dir"
<1>1. p \in Inodes /\ kind[p] = "dir" /\ Resolvable # {}
  BY DEF Directories
<1>2. kind[ROOT_INODE] # "none"
  BY <1>1, RootFirst DEF DbInv
<1>. QED  BY <1>1, <1>2 DEF DbInv, Rows

-----------------------------------------------------------------------------
(* The tables under every operation.                                       *)

\* mkdir, open with O_CREAT and symlink: a new row, and an entry for it.
LEMMA InsertKeepsDb ==
    ASSUME DbInv, DbTypes', NEW k \in {"file", "dir", "symlink"},
           NEW p \in Inodes, NEW n \in Names, kind[p] = "dir", kind[ROOT_INODE] = "dir",
           entries[p][n] = None, nextInode \in Inodes, nextInode' = nextInode + 1,
           kind' = [kind EXCEPT ![nextInode] = k],
           Sets(entries, entries', p, n, nextInode),
           nlink'[nextInode] = IF k = "dir" THEN 2 ELSE 1,
           \A i \in Inodes : i # nextInode /\ i # p => nlink'[i] = nlink[i]
    PROVE  DbInv' /\ CountsKept
<1> DEFINE x == nextInode
<1>0. DbTypes /\ Rows /\ EntriesLive /\ OneNamePerDir /\ NamesCounted
  BY DEF DbInv
<1>1. x \in Inodes /\ x \in Int /\ kind[x] = "none" /\ x # ROOT_INODE /\ x # p /\ x # None
  BY <1>0 DEF Rows, Inodes, None, DbTypes
<1>2. \A q \in Inodes, m \in Names : entries[q][m] # x
  BY <1>0, <1>1 DEF EntriesLive
<1>3. \A i \in Inodes : i # x => kind'[i] = kind[i]
  BY <1>0 DEF DbTypes, Kinds
<1>4. kind'[x] = k
  BY <1>0, <1>1 DEF DbTypes, Kinds
<1>5. EntriesLive'
  <2> SUFFICES ASSUME NEW q \in Inodes, NEW m \in Names, entries'[q][m] # None
               PROVE  /\ kind'[q] = "dir"
                      /\ entries'[q][m] # ROOT_INODE
                      /\ kind'[entries'[q][m]] # "none"
    BY DEF EntriesLive
  <2>1. CASE q = p /\ m = n
    <3>1. entries'[q][m] = x
      BY <2>1 DEF Sets
    <3>. QED  BY <1>1, <1>3, <1>4, <2>1, <3>1
  <2>2. CASE ~(q = p /\ m = n)
    <3>1. entries'[q][m] = entries[q][m]
      BY <2>2 DEF Sets
    <3>2. entries[q][m] \in Inodes /\ entries[q][m] # x /\ q # x
      BY <1>0, <1>1, <1>2, <3>1 DEF DbTypes, Tables, EntriesLive
    <3>. QED  BY <1>0, <1>3, <3>1, <3>2 DEF EntriesLive
  <2>. QED  BY <2>1, <2>2
<1>6. OneNamePerDir'
  <2>1. \A d, q \in Inodes, m \in Names : entries'[q][m] = d =>
            IF d = x THEN q = p /\ m = n ELSE entries[q][m] = d
    BY <1>2 DEF Sets
  <2>. QED  BY <1>0, <1>3, <2>1 DEF OneNamePerDir
<1>8. CountsKept
  <2> SUFFICES ASSUME NEW i \in Inodes, kind'[i] \in {"file", "symlink"}
               PROVE  IF kind[i] \in {"file", "symlink"}
                      THEN nlink'[i] - Cardinality(LinksIn(entries', i))
                              = nlink[i] - Cardinality(LinksIn(entries, i))
                      ELSE nlink'[i] = Cardinality(LinksIn(entries', i))
    BY DEF CountsKept
  <2>1. Cardinality(LinksIn(entries', i)) = Cardinality(LinksIn(entries, i))
            + (IF x = i THEN 1 ELSE 0) - (IF entries[p][n] = i THEN 1 ELSE 0)
    BY LinkCount
  <2>2. None # i
    BY DEF None, Inodes
  <2>3. Cardinality(LinksIn(entries, i)) \in Nat
    BY LinksFinite
  <2>4. CASE i = x
    <3>1. LinksIn(entries, i) = {}
      BY <1>2, <2>4 DEF LinksIn
    <3>2. Cardinality(LinksIn(entries, i)) = 0
      BY <3>1, FS_EmptySet
    <3>3. k # "dir"
      BY <1>4, <2>4
    <3>. QED  BY <1>1, <2>1, <2>2, <2>4, <3>2, <3>3
  <2>5. CASE i # x
    <3>1. nlink'[i] = nlink[i] /\ kind[i] \in {"file", "symlink"}
      BY <1>3, <2>5
    <3>. QED  BY <2>1, <2>2, <2>3, <2>5, <3>1
  <2>. QED  BY <2>4, <2>5
<1>9. Rows'
  <2>1. kind'[ROOT_INODE] \in {"dir", "none"}
    BY <1>1, <1>3, RootInode
  <2>2. \A i \in Inodes : kind'[i] = "none" => nlink'[i] = 0
    BY <1>0, <1>3, <1>4 DEF Rows
  <2>3. \A i \in Inodes : i >= nextInode' => kind'[i] = "none"
    <3>1. \A i \in Inodes : i >= nextInode + 1 => i # x /\ i >= x
      BY <1>1 DEF Inodes
    <3>. QED  BY <1>0, <1>3, <3>1 DEF Rows
  <2>4. \A i \in Inodes : nlink'[i] < 0 => kind'[i] = "dir"
    BY <1>0, <1>1, <1>3, <1>4 DEF Rows
  <2>. QED  BY <2>1, <2>2, <2>3, <2>4 DEF Rows
<1>. QED  BY <1>0, <1>5, <1>6, <1>8, <1>9, KeptIsCounted DEF DbInv

\* link: an entry for a file.
LEMMA LinkKeepsDb ==
    ASSUME DbInv, DbTypes', NEW p \in Inodes, NEW n \in Names, NEW t \in Inodes,
           kind[p] = "dir", kind[t] = "file", entries[p][n] = None,
           Sets(entries, entries', p, n, t), kind' = kind, nextInode' = nextInode,
           nlink'[t] = nlink[t] + 1,
           \A i \in Inodes : i # t => nlink'[i] = nlink[i]
    PROVE  DbInv' /\ CountsKept
<1>0. DbTypes /\ Rows /\ EntriesLive /\ OneNamePerDir /\ NamesCounted
  BY DEF DbInv
<1>1. EntriesLive'
  BY <1>0 DEF EntriesLive, Sets, Rows
<1>2. OneNamePerDir'
  <2>1. \A d, q \in Inodes, m \in Names :
            kind[d] = "dir" /\ entries'[q][m] = d => entries[q][m] = d
    BY DEF Sets
  <2>. QED  BY <1>0, <2>1 DEF OneNamePerDir
<1>4. CountsKept
  <2> SUFFICES ASSUME NEW i \in Inodes, kind[i] \in {"file", "symlink"}
               PROVE  nlink'[i] - Cardinality(LinksIn(entries', i))
                         = nlink[i] - Cardinality(LinksIn(entries, i))
    BY DEF CountsKept
  <2>1. Cardinality(LinksIn(entries', i)) = Cardinality(LinksIn(entries, i))
            + (IF t = i THEN 1 ELSE 0) - (IF entries[p][n] = i THEN 1 ELSE 0)
    BY LinkCount
  <2>2. None # i
    BY DEF None, Inodes
  <2>3. nlink[i] \in Int /\ Cardinality(LinksIn(entries, i)) \in Nat
    BY <1>0, LinksFinite DEF DbTypes
  <2>. QED  BY <2>1, <2>2, <2>3
<1>5. Rows'
  BY <1>0 DEF Rows, DbTypes
<1>. QED  BY <1>0, <1>1, <1>2, <1>4, <1>5, KeptIsCounted DEF DbInv

\* The row of d after it has lost a name: a directory, which was empty, is
\* gone; anything else counts one link less, and may be gone with the last.
Loses(d) ==
    IF kind[d] = "dir"
    THEN IsEmpty(d) /\ kind'[d] = "none" /\ nlink'[d] = 0
    ELSE /\ nlink'[d] = nlink[d] - 1
         /\ kind'[d] = kind[d] \/ (kind'[d] = "none" /\ nlink'[d] = 0)

\* unlink and rmdir: the entry (p, n) goes.
LEMMA RemoveKeepsDb ==
    ASSUME DbInv, DbTypes', NEW p \in Inodes, NEW n \in Names, NEW d \in Inodes,
           kind[ROOT_INODE] = "dir", entries[p][n] = d, nextInode' = nextInode,
           Sets(entries, entries', p, n, None), Loses(d),
           \A i \in Inodes : i # d => kind'[i] = kind[i],
           \A i \in Inodes : i # d /\ kind[i] # "dir" => nlink'[i] = nlink[i]
    PROVE  DbInv' /\ CountsKept
<1>0. DbTypes /\ Rows /\ EntriesLive /\ OneNamePerDir /\ NamesCounted
  BY DEF DbInv
<1>1. d # None /\ kind[p] = "dir" /\ d # ROOT_INODE /\ kind[d] # "none"
  BY <1>0 DEF EntriesLive, None, Inodes
<1>2. \A i, q \in Inodes, m \in Names : entries'[q][m] = i => entries[q][m] = i
  BY DEF Sets, None, Inodes
<1>3. \A i \in Inodes : kind'[i] \in {kind[i], "none"}
  BY DEF Loses
<1>4. ASSUME NEW i \in Inodes, kind[i] \in {"file", "symlink"}
      PROVE  /\ nlink'[i] - Cardinality(LinksIn(entries', i))
                    = nlink[i] - Cardinality(LinksIn(entries, i))
             /\ nlink'[i] >= Cardinality(LinksIn(entries', i))
             /\ Cardinality(LinksIn(entries', i)) \in Nat
  <2>1. Cardinality(LinksIn(entries', i)) = Cardinality(LinksIn(entries, i))
            + (IF None = i THEN 1 ELSE 0) - (IF entries[p][n] = i THEN 1 ELSE 0)
    BY LinkCount
  <2>2. None # i
    BY DEF None, Inodes
  <2>3. /\ nlink[i] >= Cardinality(LinksIn(entries, i)) /\ nlink[i] \in Int
        /\ Cardinality(LinksIn(entries, i)) \in Nat
    BY <1>0, <1>4, LinksFinite DEF NamesCounted, DbTypes
  <2>4. nlink'[i] = nlink[i] - (IF i = d THEN 1 ELSE 0)
    BY <1>4, <2>3 DEF Loses
  <2>. QED  BY <2>1, <2>2, <2>3, <2>4, LinksFinite
<1>5. CountsKept
  BY <1>3, <1>4 DEF CountsKept
<1>6. ASSUME kind'[d] = "none"
      PROVE  \A q \in Inodes, m \in Names : entries'[q][m] # d
  <2>1. CASE kind[d] = "dir"
    BY <1>0, <1>1, <1>2, <2>1 DEF OneNamePerDir, Sets
  <2>2. CASE kind[d] # "dir"
    <3>1. kind[d] \in {"file", "symlink"}
      BY <1>0, <1>1, <2>2 DEF DbTypes, Kinds
    <3>2. nlink'[d] = 0
      BY <1>1, <1>6, <2>2 DEF Loses
    <3>3. Cardinality(LinksIn(entries', d)) = 0
      BY <1>4, <3>1, <3>2
    <3>. QED  BY <3>3, NoLinks
  <2>. QED  BY <2>1, <2>2
<1>7. ASSUME kind'[d] = "none", NEW m \in Names
      PROVE  entries[d][m] = None
  <2>1. CASE kind[d] = "dir"
    BY <2>1 DEF Loses, IsEmpty, NoListing
  <2>2. CASE kind[d] # "dir"
    BY <1>0, <2>2 DEF EntriesLive
  <2>. QED  BY <2>1, <2>2
<1>8. EntriesLive'
  <2> SUFFICES ASSUME NEW q \in Inodes, NEW m \in Names, entries'[q][m] # None
               PROVE  /\ kind'[q] = "dir"
                      /\ entries'[q][m] # ROOT_INODE
                      /\ kind'[entries'[q][m]] # "none"
    BY DEF EntriesLive
  <2>1. entries'[q][m] = entries[q][m]
    BY DEF Sets
  <2>2. entries[q][m] \in Inodes /\ entries[q][m] # ROOT_INODE /\ kind[q] = "dir"
        /\ kind[entries[q][m]] # "none"
    BY <1>0, <2>1 DEF EntriesLive, DbTypes, Tables
  <2>3. q # d
    BY <1>7, <2>1, <2>2 DEF Loses
  <2>4. CASE entries[q][m] = d
    BY <1>6, <2>1, <2>2, <2>3, <2>4
  <2>5. CASE entries[q][m] # d
    BY <2>1, <2>2, <2>3, <2>5
  <2>. QED  BY <2>4, <2>5
<1>9. OneNamePerDir'
  BY <1>0, <1>2, <1>3 DEF OneNamePerDir
<1>11. Rows'
  <2>1. kind'[ROOT_INODE] \in {"dir", "none"}
    BY <1>3, RootInode
  <2>2. \A i \in Inodes : kind'[i] = "none" => nlink'[i] = 0
    <3>1. kind[d] # "dir" /\ kind'[d] = "none" => nlink'[d] = 0
      BY <1>1 DEF Loses
    <3>. QED  BY <1>0, <1>3, <3>1 DEF Rows, Loses
  <2>3. \A i \in Inodes : i >= nextInode' => kind'[i] = "none"
    BY <1>0, <1>3 DEF Rows
  <2>4. \A i \in Inodes : nlink'[i] < 0 => kind'[i] = "dir"
    <3> SUFFICES ASSUME NEW i \in Inodes, kind'[i] # "dir" PROVE ~(nlink'[i] < 0)
      OBVIOUS
    <3>1. CASE kind'[i] = "none"
      BY <2>2, <3>1
    <3>2. CASE kind'[i] # "none"
      <4>1. kind[i] \in {"file", "symlink"}
        BY <1>0, <1>3, <3>2 DEF DbTypes, Kinds
      <4>. QED  BY <1>4, <4>1 DEF DbTypes
    <3>. QED  BY <3>1, <3>2
  <2>. QED  BY <2>1, <2>2, <2>3, <2>4 DEF Rows
<1>. QED  BY <1>0, <1>5, <1>8, <1>9, <1>11, KeptIsCounted DEF DbInv

\* rename: (dp, dn) gets s, which (sp, sn) binds; (sp, sn) gets x, which is
\* nothing or, in an exchange, d, which (dp, dn) binds.
Rebound(sp, sn, dp, dn, s, d, x) ==
    /\ s \in Inodes /\ d \in Inodes \cup {None} /\ x \in {None, d}
    /\ entries[sp][sn] = s /\ entries[dp][dn] = d
    /\ kind[ROOT_INODE] = "dir" /\ kind[dp] = "dir" /\ nextInode' = nextInode
    /\ Sets2(entries, entries', sp, sn, x, dp, dn, s)
    /\ x # d => Loses(d)
    /\ \A i \in Inodes : i # d \/ x = d => kind'[i] = kind[i] /\ nlink'[i] = nlink[i]

LEMMA RenameKeepsDb ==
    ASSUME DbInv, DbTypes', NEW sp \in Inodes, NEW sn \in Names,
           NEW dp \in Inodes, NEW dn \in Names, NEW s, NEW d, NEW x,
           Rebound(sp, sn, dp, dn, s, d, x)
    PROVE  DbInv' /\ CountsKept
<1> USE DEF Rebound
<1>0. DbTypes /\ Rows /\ EntriesLive /\ OneNamePerDir /\ NamesCounted
  BY DEF DbInv
<1>1. /\ s # None /\ kind[sp] = "dir" /\ s # ROOT_INODE /\ kind[s] # "none"
      /\ d # None => d # ROOT_INODE /\ kind[d] # "none"
      /\ \A i \in Inodes : i # None
  BY <1>0 DEF EntriesLive, None, Inodes
<1>2. \A i, q \in Inodes, m \in Names : entries'[q][m] = i =>
          \/ q = dp /\ m = dn /\ i = s
          \/ q = sp /\ m = sn /\ i = d /\ x = d
          \/ entries[q][m] = i /\ ~(q = dp /\ m = dn) /\ ~(q = sp /\ m = sn)
  BY <1>1 DEF Sets2
<1>3. \A i \in Inodes : kind'[i] \in {kind[i], "none"} /\ (x = d => kind'[i] = kind[i])
  BY DEF Loses
<1>4. ASSUME NEW i \in Inodes, kind[i] \in {"file", "symlink"}
      PROVE  /\ nlink'[i] - Cardinality(LinksIn(entries', i))
                    = nlink[i] - Cardinality(LinksIn(entries, i))
             /\ nlink'[i] >= Cardinality(LinksIn(entries', i))
             /\ Cardinality(LinksIn(entries', i)) \in Nat
  <2>1. Cardinality(LinksIn(entries', i)) = Cardinality(LinksIn(entries, i))
            + (IF x = i THEN 1 ELSE 0) - (IF entries[sp][sn] = i THEN 1 ELSE 0)
            + (IF s = i THEN 1 ELSE 0) - (IF entries[dp][dn] = i THEN 1 ELSE 0)
    BY <1>0, LinkCount2 DEF DbTypes
  <2>2. None # i
    BY <1>1
  <2>3. /\ nlink[i] >= Cardinality(LinksIn(entries, i)) /\ nlink[i] \in Int
        /\ Cardinality(LinksIn(entries, i)) \in Nat
    BY <1>0, <1>4, LinksFinite DEF NamesCounted, DbTypes
  <2>4. nlink'[i] = nlink[i] - (IF i = d /\ x # d THEN 1 ELSE 0)
    BY <1>4, <2>3 DEF Loses
  <2>. QED  BY <2>1, <2>2, <2>3, <2>4, LinksFinite
<1>5. CountsKept
  BY <1>3, <1>4 DEF CountsKept
<1>6. ASSUME d # None, kind'[d] = "none"
      PROVE  \A q \in Inodes, m \in Names : entries'[q][m] # d
  <2>0. x # d /\ d \in Inodes
    BY <1>1, <1>3, <1>6
  <2>1. CASE kind[d] = "dir"
    BY <1>0, <1>2, <2>0, <2>1 DEF OneNamePerDir, Sets2
  <2>2. CASE kind[d] # "dir"
    <3>1. kind[d] \in {"file", "symlink"}
      BY <1>0, <1>1, <1>6, <2>0, <2>2 DEF DbTypes, Kinds
    <3>2. nlink'[d] = 0
      BY <1>1, <1>6, <2>0, <2>2 DEF Loses
    <3>3. Cardinality(LinksIn(entries', d)) = 0
      BY <1>4, <2>0, <3>1, <3>2
    <3>. QED  BY <3>3, NoLinks
  <2>. QED  BY <2>1, <2>2
<1>7. ASSUME d # None, kind'[d] = "none", NEW m \in Names
      PROVE  entries[d][m] = None
  <2>0. x # d /\ d \in Inodes
    BY <1>1, <1>3, <1>7
  <2>1. CASE kind[d] = "dir"
    BY <2>0, <2>1 DEF Loses, IsEmpty, NoListing
  <2>2. CASE kind[d] # "dir"
    BY <1>0, <2>0, <2>2 DEF EntriesLive
  <2>. QED  BY <2>1, <2>2
<1>8. EntriesLive'
  <2> SUFFICES ASSUME NEW q \in Inodes, NEW m \in Names, entries'[q][m] # None
               PROVE  /\ kind'[q] = "dir"
                      /\ entries'[q][m] # ROOT_INODE
                      /\ kind'[entries'[q][m]] # "none"
    BY DEF EntriesLive
  <2> DEFINE v == entries'[q][m]
  <2>0. v \in Inodes
    BY DEF DbTypes, Tables
  <2>1. v # ROOT_INODE /\ kind[v] # "none" /\ kind[q] = "dir"
        /\ (entries[q][m] # None \/ (q = dp /\ m = dn /\ d = None))
    <3> HIDE DEF v
    <3>1. \/ q = dp /\ m = dn /\ v = s
          \/ q = sp /\ m = sn /\ v = d /\ x = d
          \/ entries[q][m] = v
      BY <1>2, <2>0 DEF v
    <3>. QED  BY <1>0, <1>1, <2>0, <3>1 DEF EntriesLive
  <2>2. kind'[v] # "none"
    BY <1>1, <1>6, <2>0, <2>1
  <2>3. kind'[q] = "dir"
    <3>1. CASE q # d \/ d = None
      BY <2>1, <3>1, <1>1
    <3>2. CASE q = d /\ d # None
      BY <1>3, <1>7, <2>1, <3>2
    <3>. QED  BY <3>1, <3>2
  <2>. QED  BY <2>1, <2>2, <2>3
<1>9. OneNamePerDir'
  <2> SUFFICES ASSUME NEW c \in Inodes, NEW p \in Inodes, NEW q \in Inodes,
                      NEW m \in Names, NEW n \in Names,
                      kind'[c] = "dir", entries'[p][m] = c, entries'[q][n] = c
               PROVE  p = q /\ m = n
    BY DEF OneNamePerDir
  <2>1. kind[c] = "dir"
    BY <1>3
  <2>2. \A a, b \in Inodes, j, l \in Names :
            entries[a][j] = c /\ entries[b][l] = c => a = b /\ j = l
    BY <1>0, <2>1 DEF OneNamePerDir
  <2>. QED  BY <1>2, <2>2 DEF Sets2
<1>11. Rows'
  <2>1. kind'[ROOT_INODE] \in {"dir", "none"}
    BY <1>3, RootInode
  <2>2. \A i \in Inodes : kind'[i] = "none" => nlink'[i] = 0
    <3>1. d # None /\ kind[d] # "dir" /\ kind'[d] = "none" => nlink'[d] = 0
      BY <1>1, <1>3 DEF Loses
    <3>. QED  BY <1>0, <1>1, <1>3, <3>1 DEF Rows, Loses
  <2>3. \A i \in Inodes : i >= nextInode' => kind'[i] = "none"
    BY <1>0, <1>3 DEF Rows
  <2>4. \A i \in Inodes : nlink'[i] < 0 => kind'[i] = "dir"
    <3> SUFFICES ASSUME NEW i \in Inodes, kind'[i] # "dir" PROVE ~(nlink'[i] < 0)
      OBVIOUS
    <3>1. CASE kind'[i] = "none"
      BY <2>2, <3>1
    <3>2. CASE kind'[i] # "none"
      <4>1. kind[i] \in {"file", "symlink"}
        BY <1>0, <1>3, <3>2 DEF DbTypes, Kinds
      <4>. QED  BY <1>4, <4>1 DEF DbTypes
    <3>. QED  BY <3>1, <3>2
  <2>. QED  BY <2>1, <2>2, <2>3, <2>4 DEF Rows
<1>. QED  BY <1>0, <1>5, <1>8, <1>9, <1>11, KeptIsCounted DEF DbInv

\* No fd refers to an inode that open_count finds closed.
LEMMA OpenCountZero ==
    ASSUME NEW t, NEW i, OpenCount(t, i) = 0
    PROVE  \A f \in Fds : t[f] # i
<1> DEFINE S == {f \in Fds : t[f] = i}
<1>1. IsFiniteSet(Fds)
  BY FS_Interval, PyTreeAssumption DEF Fds
<1>2. IsFiniteSet(S)
  BY <1>1, FS_Subset
<1>3. Cardinality(S) = 0
  BY DEF OpenCount
<1>4. S = {}
  <2> HIDE DEF S
  <2>. QED  BY <1>2, <1>3, FS_EmptySet
<1>. QED  BY <1>4

LEMMA DbUnchanged ==
    ASSUME DbInv, UNCHANGED <<kind, nlink, entries, nextInode>>
    PROVE  DbInv' /\ CountsKept
<1>1. DbInv'
  BY DEF DbInv, DbTypes, Rows, EntriesLive, OneNamePerDir, NamesCounted, LinksIn
<1>2. \A i \in Inodes : kind'[i] \in {"file", "symlink"} =>
          /\ kind[i] \in {"file", "symlink"}
          /\ nlink'[i] = nlink[i] /\ LinksIn(entries', i) = LinksIn(entries, i)
  BY DEF LinksIn
<1>3. CountsKept
  BY <1>2 DEF CountsKept
<1>. QED  BY <1>1, <1>3

\* What close_fd does when it takes the row of i away.
Collects(i) ==
    /\ nlink[i] = 0
    /\ \A p \in Inodes, n \in Names : entries[p][n] = i => p = i
    /\ kind[i] # "none"
    /\ nextInode' = nextInode
    /\ kind' = [kind EXCEPT ![i] = "none"]
    /\ nlink' = [nlink EXCEPT ![i] = 0]
    /\ entries' = [entries EXCEPT ![i] = NoListing]

LEMMA CloseFdCollects ==
    ASSUME SessionTypes, NEW f \in Fds, CloseFd(f)
    PROVE  \/ UNCHANGED <<kind, nlink, entries, nextInode>>
           \/ fds[f] \in Inodes /\ Collects(fds[f])
<1> DEFINE i == fds[f]
<1>1. i \in Inodes
  BY DEF SessionTypes, CloseFd
<1>2. CASE ~UNCHANGED <<kind, nlink, entries>>
  <2>1. /\ nlink[i] = 0 /\ (\A e \in Links(i) : e[1] = i) /\ kind[i] # "none"
        /\ kind' = [kind EXCEPT ![i] = "none"] /\ nlink' = [nlink EXCEPT ![i] = 0]
        /\ entries' = [entries EXCEPT ![i] = NoListing]
        /\ nextInode' = nextInode
    BY <1>2 DEF CloseFd, Reclaimable
  <2> HIDE DEF i
  <2>2. ASSUME NEW p \in Inodes, NEW n \in Names, entries[p][n] = i PROVE p = i
    <3>1. <<p, n>> \in Links(i)
      BY <2>2 DEF Links
    <3>. QED  BY <2>1, <3>1
  <2>3. Collects(i)
    BY <2>1, <2>2 DEF Collects
  <2>. QED  BY <1>1, <2>3 DEF i
<1>. QED  BY <1>2 DEF CloseFd

\* The entries of i go with it.
LEMMA CollectsEntries ==
    ASSUME DbTypes, NEW i \in Inodes, Collects(i)
    PROVE  /\ DbTypes'
           /\ \A q \in Inodes, m \in Names :
                  entries'[q][m] = IF q = i THEN None ELSE entries[q][m]
           /\ \A j \in Inodes : kind'[j] = IF j = i THEN "none" ELSE kind[j]
           /\ \A j \in Inodes : nlink'[j] = nlink[j]
<1> USE DEF Collects
<1>1. DbTypes'
  BY DEF DbTypes, Kinds, Tables, NoListing
<1>2. \A q \in Inodes, m \in Names :
          entries'[q][m] = IF q = i THEN None ELSE entries[q][m]
  BY DEF DbTypes, Tables, NoListing
<1>3. \A j \in Inodes : kind'[j] = IF j = i THEN "none" ELSE kind[j]
  BY DEF DbTypes, Kinds
<1>4. \A j \in Inodes : nlink'[j] = nlink[j]
  BY DEF DbTypes
<1>. QED  BY <1>1, <1>2, <1>3, <1>4

\* close_fd that takes a row away: one that nothing else binds.
LEMMA GcKeepsDb ==
    ASSUME DbInv, NEW i \in Inodes, Collects(i)
    PROVE  DbInv'
<1>0. DbTypes /\ Rows /\ EntriesLive /\ OneNamePerDir /\ NamesCounted
  BY DEF DbInv
<1>1. \A q \in Inodes, m \in Names : entries[q][m] = i => q = i
  BY DEF Collects
<1>2. DbTypes'
  BY <1>0, CollectsEntries
<1>3. \A q \in Inodes, m \in Names :
          entries'[q][m] = IF q = i THEN None ELSE entries[q][m]
  BY <1>0, CollectsEntries
<1>4. \A j \in Inodes : kind'[j] = IF j = i THEN "none" ELSE kind[j]
  BY <1>0, CollectsEntries
<1>5. \A j \in Inodes : nlink'[j] = nlink[j]
  BY <1>0, CollectsEntries
<1>6. EntriesLive'
  <2>1. \A q \in Inodes, m \in Names : entries[q][m] # None => entries[q][m] \in Inodes
    BY <1>0 DEF DbTypes, Tables
  <2>. QED  BY <1>0, <1>1, <1>3, <1>4, <2>1 DEF EntriesLive
<1>7. OneNamePerDir'
  <2>1. \A c, q \in Inodes, m \in Names : entries'[q][m] = c => entries[q][m] = c
    BY <1>3 DEF None, Inodes
  <2>. QED  BY <1>0, <1>4, <2>1 DEF OneNamePerDir
<1>8. Rows'
  <2>1. nextInode' = nextInode /\ nlink[i] = 0
    BY DEF Collects
  <2>. QED  BY <1>0, <1>4, <1>5, <2>1, RootInode DEF Rows
<1>9. NamesCounted'
  <2> SUFFICES ASSUME NEW j \in Inodes, kind'[j] \in {"file", "symlink"}
               PROVE  nlink'[j] >= Cardinality(LinksIn(entries', j))
    BY DEF NamesCounted, LinksIn
  <2>1. LinksIn(entries', j) \subseteq LinksIn(entries, j)
    BY <1>3 DEF LinksIn, None, Inodes
  <2>2. Cardinality(LinksIn(entries', j)) <= Cardinality(LinksIn(entries, j))
    BY <2>1, LinksFinite, FS_Subset
  <2>3. nlink[j] >= Cardinality(LinksIn(entries, j)) /\ nlink[j] \in Int
    BY <1>0, <1>4 DEF NamesCounted, DbTypes
  <2>. QED  BY <1>5, <2>2, <2>3, LinksFinite
<1>. QED  BY <1>2, <1>6, <1>7, <1>8, <1>9 DEF DbInv

LEMMA CloseFdDb ==
    ASSUME IInv, NEW f \in Fds, CloseFd(f)
    PROVE  DbInv'
BY CloseFdCollects, DbUnchanged, GcKeepsDb DEF IInv

\* An update of one entry.
LEMMA SetsOne ==
    ASSUME entries \in Tables, NEW p \in Inodes, NEW n \in Names,
           NEW x \in Inodes \cup {None}, entries' = [entries EXCEPT ![p][n] = x]
    PROVE  Sets(entries, entries', p, n, x) /\ entries' \in Tables
BY DEF Sets, Tables

\* An update of two.
LEMMA SetsTwo ==
    ASSUME entries \in Tables, NEW sp \in Inodes, NEW sn \in Names,
           NEW dp \in Inodes, NEW dn \in Names, <<sp, sn>> # <<dp, dn>>,
           NEW x \in Inodes \cup {None}, NEW y \in Inodes \cup {None},
           entries' = [entries EXCEPT ![sp][sn] = x, ![dp][dn] = y]
    PROVE  Sets2(entries, entries', sp, sn, x, dp, dn, y) /\ entries' \in Tables
<1>1. ~(sp = dp /\ sn = dn)
  OBVIOUS
<1>. QED  BY <1>1 DEF Sets2, Tables

LEMMA InsertDb ==
    ASSUME DbInv, NEW p \in Directories, NEW n \in Names,
           Mkdir(p, n) \/ OpenNew(p, n) \/ Symlink(p, n)
    PROVE  DbInv' /\ CountsKept
<1>0. DbTypes /\ p \in Inodes /\ kind[p] = "dir" /\ kind[ROOT_INODE] = "dir"
  BY InDirectories DEF DbInv
<1>1. /\ nextInode \in Inodes /\ nextInode' = nextInode + 1 /\ entries[p][n] = None
      /\ entries' = [entries EXCEPT ![p][n] = nextInode]
  BY DEF Mkdir, OpenNew, Symlink, InsertNode
<1>2. Sets(entries, entries', p, n, nextInode) /\ entries' \in Tables
  BY <1>0, <1>1, SetsOne DEF DbTypes
<1>3. nextInode' \in 1..(MaxInode + 1)
  BY <1>1, PyTreeAssumption DEF Inodes
<1>4. nextInode # p
  BY <1>0, <1>1 DEF DbInv, Rows, DbTypes
<1>5. CASE Mkdir(p, n)
  <2>1. kind' = [kind EXCEPT ![nextInode] = "dir"]
        /\ nlink' = [nlink EXCEPT ![nextInode] = 2, ![p] = @ + 1]
    BY <1>5 DEF Mkdir, InsertNode, InitialNlink
  <2>2. DbTypes'
    BY <1>0, <1>1, <1>2, <1>3, <2>1 DEF DbTypes, Kinds
  <2>3. nlink'[nextInode] = 2 /\ \A i \in Inodes : i # nextInode /\ i # p => nlink'[i] = nlink[i]
    BY <1>0, <1>1, <1>4, <2>1 DEF DbTypes
  <2>. QED  BY <1>0, <1>1, <1>2, <2>1, <2>2, <2>3, InsertKeepsDb
<1>6. ASSUME NEW k \in {"file", "symlink"},
             kind' = [kind EXCEPT ![nextInode] = k], nlink' = [nlink EXCEPT ![nextInode] = 1]
      PROVE  DbInv' /\ CountsKept
  <2>2. DbTypes'
    BY <1>0, <1>1, <1>2, <1>3, <1>6 DEF DbTypes, Kinds
  <2>3. nlink'[nextInode] = 1 /\ \A i \in Inodes : i # nextInode /\ i # p => nlink'[i] = nlink[i]
    BY <1>0, <1>1, <1>6 DEF DbTypes
  <2>. QED  BY <1>0, <1>1, <1>2, <1>6, <2>2, <2>3, InsertKeepsDb
<1>7. CASE OpenNew(p, n)
  <2>1. kind' = [kind EXCEPT ![nextInode] = "file"] /\ nlink' = [nlink EXCEPT ![nextInode] = 1]
    BY <1>7 DEF OpenNew, InsertNode, InitialNlink
  <2>. QED  BY <1>6, <2>1
<1>8. CASE Symlink(p, n)
  <2>1. kind' = [kind EXCEPT ![nextInode] = "symlink"] /\ nlink' = [nlink EXCEPT ![nextInode] = 1]
    BY <1>8 DEF Symlink, InsertNode, InitialNlink
  <2>. QED  BY <1>6, <2>1
<1>. QED  BY <1>5, <1>7, <1>8

LEMMA LinkDb ==
    ASSUME DbInv, NEW t \in Inodes, NEW p \in Directories, NEW n \in Names, Link(t, p, n)
    PROVE  DbInv' /\ CountsKept
<1>0. DbTypes /\ p \in Inodes /\ kind[p] = "dir"
  BY InDirectories DEF DbInv
<1>1. Sets(entries, entries', p, n, t) /\ entries' \in Tables
  BY <1>0, SetsOne DEF DbTypes, Link
<1>2. kind[t] = "file" /\ kind' = kind /\ nextInode' = nextInode /\ entries[p][n] = None
      /\ nlink' = [nlink EXCEPT ![t] = @ + 1]
  BY DEF Link
<1>3. DbTypes'
  BY <1>0, <1>1, <1>2 DEF DbTypes
<1>4. nlink'[t] = nlink[t] + 1 /\ \A i \in Inodes : i # t => nlink'[i] = nlink[i]
  BY <1>0, <1>2 DEF DbTypes
<1>. QED  BY <1>0, <1>1, <1>2, <1>3, <1>4, LinkKeepsDb

LEMMA UnlinkDb ==
    ASSUME DbInv, NEW p \in Directories, NEW n \in Names, Unlink(p, n)
    PROVE  DbInv' /\ CountsKept
<1> DEFINE i == entries[p][n]
<1>0. DbTypes /\ p \in Inodes /\ kind[ROOT_INODE] = "dir"
  BY InDirectories DEF DbInv
<1>1. i \in Inodes /\ kind[i] # "dir" /\ kind[i] # "none"
  BY <1>0, BoundInode DEF Unlink
<1>2. /\ entries' = [entries EXCEPT ![p][n] = None]
      /\ nlink' = [nlink EXCEPT ![i] = @ - 1] /\ nextInode' = nextInode
      /\ kind' = kind \/ (nlink[i] - 1 = 0 /\ kind' = [kind EXCEPT ![i] = "none"])
  BY DEF Unlink, Reclaimable
<1>3. Sets(entries, entries', p, n, None) /\ entries' \in Tables
  BY <1>0, <1>2, SetsOne DEF DbTypes
<1> HIDE DEF i
<1>4. DbTypes'
  BY <1>0, <1>1, <1>2, <1>3 DEF DbTypes, Kinds
<1>5. Loses(i)
  BY <1>0, <1>1, <1>2 DEF Loses, DbTypes, Kinds
<1>6. \A j \in Inodes : j # i => kind'[j] = kind[j] /\ nlink'[j] = nlink[j]
  BY <1>0, <1>2 DEF DbTypes, Kinds
<1>7. entries[p][n] = i
  BY DEF i
<1>. QED  BY <1>0, <1>1, <1>2, <1>3, <1>4, <1>5, <1>6, <1>7, RemoveKeepsDb

LEMMA RmdirDb ==
    ASSUME DbInv, NEW p \in Directories, NEW n \in Names, Rmdir(p, n)
    PROVE  DbInv' /\ CountsKept /\ Sets(entries, entries', p, n, None)
<1> DEFINE d == entries[p][n]
<1>0. DbTypes /\ p \in Inodes /\ kind[ROOT_INODE] = "dir"
  BY InDirectories DEF DbInv
<1>1. d \in Inodes /\ kind[d] = "dir" /\ IsEmpty(d) /\ kind[p] = "dir" /\ d # None
  BY <1>0, BoundInode DEF Rmdir
<1>2. /\ entries' = [entries EXCEPT ![p][n] = None, ![d] = NoListing]
      /\ nlink' = [nlink EXCEPT ![p] = @ - 1, ![d] = 0] /\ nextInode' = nextInode
      /\ kind' = [kind EXCEPT ![d] = "none"]
  BY DEF Rmdir
<1>3. entries[d] = NoListing /\ entries[p][n] = d
  BY <1>1 DEF IsEmpty
<1>4. d # p
  BY <1>1, <1>3 DEF NoListing
<1> HIDE DEF d
<1>5. Sets(entries, entries', p, n, None) /\ entries' \in Tables
  <2>1. entries' = [entries EXCEPT ![p][n] = None]
    BY <1>0, <1>1, <1>2, <1>3, <1>4 DEF DbTypes, Tables
  <2>. QED  BY <1>0, <2>1, SetsOne DEF DbTypes
<1>6. DbTypes'
  BY <1>0, <1>1, <1>2, <1>5 DEF DbTypes, Kinds
<1>7. Loses(d)
  BY <1>0, <1>1, <1>2, <1>4 DEF Loses, DbTypes, Kinds
<1>8. \A j \in Inodes : j # d => kind'[j] = kind[j] /\ (kind[j] # "dir" => nlink'[j] = nlink[j])
  BY <1>0, <1>1, <1>2 DEF DbTypes, Kinds
<1>. QED  BY <1>0, <1>1, <1>2, <1>3, <1>5, <1>6, <1>7, <1>8, RemoveKeepsDb

\* What every rename has at hand.
LEMMA RenameFacts ==
    ASSUME DbInv, NEW sp \in Directories, NEW sn \in Names, NEW dp \in Directories, NEW dn \in Names,
           RenameStarts(sp, sn, dp, dn)
    PROVE  /\ DbTypes /\ kind[ROOT_INODE] = "dir"
           /\ sp \in Inodes /\ dp \in Inodes
           /\ kind[sp] = "dir" /\ kind[dp] = "dir"
           /\ entries[sp][sn] \in Inodes /\ entries[dp][dn] \in Inodes \cup {None}
           /\ <<sp, sn>> # <<dp, dn>>
<1>1. sp \in Inodes /\ dp \in Inodes /\ entries[sp][sn] # None
      /\ <<sp, sn>> # <<dp, dn>>
  BY InDirectories DEF RenameStarts
<1>2. kind[sp] = "dir" /\ kind[ROOT_INODE] = "dir"
  BY <1>1, InDirectories
<1>3. kind[dp] = "dir"
  BY <1>1, InDirectories
<1>4. entries[sp][sn] \in Inodes /\ entries[dp][dn] \in Inodes \cup {None} /\ DbTypes
  BY <1>1 DEF DbInv, DbTypes, Tables
<1>. QED  BY <1>1, <1>2, <1>3, <1>4

LEMMA MoveDb ==
    ASSUME DbInv, NEW sp \in Directories, NEW sn \in Names, NEW dp \in Directories, NEW dn \in Names,
           RenameMove(sp, sn, dp, dn)
    PROVE  DbInv' /\ CountsKept /\ Sets2(entries, entries', sp, sn, None, dp, dn, entries[sp][sn])
<1> DEFINE s == entries[sp][sn]
<1>1. /\ DbTypes /\ kind[ROOT_INODE] = "dir" /\ kind[dp] = "dir"
      /\ sp \in Inodes /\ dp \in Inodes
      /\ s \in Inodes /\ <<sp, sn>> # <<dp, dn>>
  BY RenameFacts DEF RenameMove
<1>2. /\ entries' = [entries EXCEPT ![sp][sn] = None, ![dp][dn] = s]
      /\ kind' = kind /\ nlink' = nlink /\ nextInode' = nextInode /\ entries[dp][dn] = None
  BY DEF RenameMove
<1>3. entries[sp][sn] = s
  OBVIOUS
<1> HIDE DEF s
<1>4. Sets2(entries, entries', sp, sn, None, dp, dn, s) /\ entries' \in Tables
  BY <1>1, <1>2, SetsTwo DEF DbTypes
<1>5. DbTypes'
  BY <1>1, <1>2, <1>4 DEF DbTypes
<1>6. DbInv' /\ CountsKept
  <2>1. Rebound(sp, sn, dp, dn, s, None, None)
    BY <1>1, <1>2, <1>3, <1>4 DEF Rebound
  <2>. QED  BY <1>1, <1>5, <2>1, RenameKeepsDb
<1>. QED  BY <1>4, <1>6 DEF s

LEMMA ExchangeDb ==
    ASSUME DbInv, NEW sp \in Directories, NEW sn \in Names, NEW dp \in Directories, NEW dn \in Names,
           RenameExchange(sp, sn, dp, dn)
    PROVE  DbInv' /\ CountsKept /\ Sets2(entries, entries', sp, sn, entries[dp][dn], dp, dn, entries[sp][sn])
<1> DEFINE s == entries[sp][sn]
           d == entries[dp][dn]
<1>1. /\ DbTypes /\ kind[ROOT_INODE] = "dir" /\ kind[dp] = "dir"
      /\ sp \in Inodes /\ dp \in Inodes
      /\ s \in Inodes /\ d \in Inodes \cup {None} /\ <<sp, sn>> # <<dp, dn>>
  BY RenameFacts DEF RenameExchange
<1>2. /\ entries' = [entries EXCEPT ![sp][sn] = d, ![dp][dn] = s]
      /\ kind' = kind /\ nlink' = nlink /\ nextInode' = nextInode
  BY DEF RenameExchange
<1>3. entries[sp][sn] = s /\ entries[dp][dn] = d
  OBVIOUS
<1> HIDE DEF s, d
<1>4. Sets2(entries, entries', sp, sn, d, dp, dn, s) /\ entries' \in Tables
  BY <1>1, <1>2, SetsTwo DEF DbTypes
<1>5. DbTypes'
  BY <1>1, <1>2, <1>4 DEF DbTypes
<1>6. DbInv' /\ CountsKept
  <2>1. Rebound(sp, sn, dp, dn, s, d, d)
    BY <1>1, <1>2, <1>3, <1>4 DEF Rebound
  <2>. QED  BY <1>1, <1>5, <2>1, RenameKeepsDb
<1>. QED  BY <1>4, <1>6 DEF s, d

LEMMA ReplaceDb ==
    ASSUME DbInv, NEW sp \in Directories, NEW sn \in Names, NEW dp \in Directories, NEW dn \in Names,
           RenameReplace(sp, sn, dp, dn)
    PROVE  /\ DbInv' /\ CountsKept /\ Sets2(entries, entries', sp, sn, None, dp, dn, entries[sp][sn])
           /\ Loses(entries[dp][dn])
<1> DEFINE s == entries[sp][sn]
           d == entries[dp][dn]
<1>1. /\ DbTypes /\ kind[ROOT_INODE] = "dir" /\ kind[dp] = "dir"
      /\ sp \in Inodes /\ dp \in Inodes
      /\ s \in Inodes /\ d \in Inodes /\ <<sp, sn>> # <<dp, dn>> /\ d # None
  BY RenameFacts DEF RenameReplace
<1>2. /\ entries' = [entries EXCEPT ![sp][sn] = None, ![dp][dn] = s]
      /\ nextInode' = nextInode /\ (kind[d] = "dir" => IsEmpty(d))
  BY DEF RenameReplace
<1>3. \/ /\ kind[d] = "dir" \/ nlink[d] - 1 = 0
         /\ nlink' = [nlink EXCEPT ![d] = 0] /\ kind' = [kind EXCEPT ![d] = "none"]
      \/ kind[d] # "dir" /\ nlink' = [nlink EXCEPT ![d] = @ - 1] /\ kind' = kind
  BY DEF RenameReplace, Reclaimable
<1>4. entries[sp][sn] = s /\ entries[dp][dn] = d /\ kind[d] # "none"
  BY <1>1 DEF DbInv, EntriesLive
<1> HIDE DEF s, d
<1>5. Sets2(entries, entries', sp, sn, None, dp, dn, s) /\ entries' \in Tables
  BY <1>1, <1>2, SetsTwo DEF DbTypes
<1>6. DbTypes'
  BY <1>1, <1>2, <1>3, <1>5 DEF DbTypes, Kinds
<1>7. Loses(d)
  BY <1>1, <1>2, <1>3, <1>4 DEF Loses, DbTypes, Kinds
<1>8. \A i \in Inodes : i # d => kind'[i] = kind[i] /\ nlink'[i] = nlink[i]
  BY <1>1, <1>3 DEF DbTypes, Kinds
<1>9. DbInv' /\ CountsKept
  <2>1. Rebound(sp, sn, dp, dn, s, d, None)
    BY <1>1, <1>2, <1>4, <1>5, <1>7, <1>8 DEF Rebound
  <2>. QED  BY <1>1, <1>6, <2>1, RenameKeepsDb
<1>. QED  BY <1>5, <1>7, <1>9 DEF s, d

\* Every operation preserves the part about the tables, and the counts if it
\* is not a close_fd that takes a row away.
LEMMA DbStep ==
    ASSUME IInv, [Next]_vars
    PROVE  /\ DbInv'
           /\ CountsKept \/ \E i \in Inodes : Collects(i)
<1>0. DbInv /\ SessionTypes
  BY DEF IInv
<1> DEFINE Preserved == DbInv' /\ CountsKept
<1>1. CASE UNCHANGED <<kind, nlink, entries, nextInode>>
  BY <1>0, <1>1, DbUnchanged
<1>2. CASE Reopen
  BY <1>1, <1>2 DEF Reopen
<1>3. ASSUME NEW f \in Fds, CloseFd(f)
      PROVE  DbInv' /\ (CountsKept \/ \E i \in Inodes : Collects(i))
  BY <1>0, <1>1, <1>3, CloseFdDb, CloseFdCollects
<1>4. ASSUME NEW f \in Fds, WriteFd(f) PROVE Preserved
  BY <1>0, <1>4, DbUnchanged DEF WriteFd
<1>5. ASSUME NEW i \in Inodes, OpenExisting(i) PROVE Preserved
  BY <1>0, <1>5, DbUnchanged DEF OpenExisting
<1>6. ASSUME NEW p \in Directories, NEW n \in Names,
             \/ Mkdir(p, n) \/ Rmdir(p, n) \/ OpenNew(p, n) \/ Symlink(p, n) \/ Unlink(p, n)
             \/ \E i \in Inodes : Link(i, p, n)
      PROVE  Preserved
  <2>1. CASE Mkdir(p, n) \/ OpenNew(p, n) \/ Symlink(p, n)
    BY <1>0, <2>1, InsertDb
  <2>2. CASE Rmdir(p, n)
    BY <1>0, <2>2, RmdirDb
  <2>3. CASE Unlink(p, n)
    BY <1>0, <2>3, UnlinkDb
  <2>4. ASSUME NEW i \in Inodes, Link(i, p, n) PROVE Preserved
    BY <1>0, <2>4, LinkDb
  <2>. QED  BY <1>6, <2>1, <2>2, <2>3, <2>4
<1>7. ASSUME NEW p \in Directories, NEW q \in Directories, NEW m \in Names, NEW n \in Names,
             RenameMove(p, m, q, n) \/ RenameReplace(p, m, q, n) \/ RenameExchange(p, m, q, n)
      PROVE  Preserved
  BY <1>0, <1>7, MoveDb, ReplaceDb, ExchangeDb
<1>. QED  BY <1>1, <1>2, <1>3, <1>4, <1>5, <1>6, <1>7 DEF Next, vars

\* The session: fds and cached paths keep their types.
LEMMA SessionStep == IInv /\ [Next]_vars => SessionTypes'
<1> SUFFICES ASSUME IInv, [Next]_vars PROVE SessionTypes'
  OBVIOUS
<1>0. SessionTypes /\ DbTypes
  BY DEF IInv, DbInv
<1>1. NoPath \in Paths
  <2>1. 0 \in 0..(MaxInode - 1)
    BY PyTreeAssumption
  <2>2. NoPath \in [1..0 -> Names]
    BY DEF NoPath
  <2>. QED  BY <2>1, <2>2 DEF Paths
<1>2. \A i : Forgotten(i) \in [Inodes -> Paths]
  BY <1>0, <1>1 DEF Forgotten, SessionTypes
<1>3. [i \in Inodes |-> NoPath] \in [Inodes -> Paths]
  BY <1>1
<1>4. \A i : CacheAfterRename(i) \in [Inodes -> Paths]
  BY <1>2, <1>3 DEF CacheAfterRename
<1>5. CASE UNCHANGED vars
  BY <1>0, <1>5 DEF vars, SessionTypes
<1>6. CASE Reopen
  BY <1>3, <1>6, PyTreeAssumption DEF Reopen, SessionTypes
<1>7. \A i \in Inodes : OpenFd(i) =>
          fds' \in [Fds -> Inodes \cup {None}] /\ nextFd' \in 1..(MaxFd + 1)
  BY <1>0, PyTreeAssumption DEF OpenFd, SessionTypes, Fds
<1>8. ASSUME NEW f \in Fds, CloseFd(f) \/ WriteFd(f) PROVE SessionTypes'
  <2>1. CASE CloseFd(f)
    BY <1>0, <2>1 DEF CloseFd, SessionTypes
  <2>2. CASE WriteFd(f)
    BY <1>0, <2>2 DEF WriteFd, SessionTypes
  <2>. QED  BY <1>8, <2>1, <2>2
<1>9. ASSUME NEW i \in Inodes, OpenExisting(i) PROVE SessionTypes'
  BY <1>0, <1>7, <1>9 DEF OpenExisting, SessionTypes
<1>10. ASSUME NEW p \in Directories, NEW n \in Names,
             \/ Mkdir(p, n) \/ Rmdir(p, n) \/ OpenNew(p, n) \/ Symlink(p, n) \/ Unlink(p, n)
             \/ \E i \in Inodes : Link(i, p, n)
      PROVE  SessionTypes'
  <2>1. CASE OpenNew(p, n)
    BY <1>0, <1>7, <2>1 DEF OpenNew, InsertNode, SessionTypes
  <2>2. CASE ~OpenNew(p, n)
    <3>1. UNCHANGED <<fds, nextFd, readonly>> /\ cache' \in [Inodes -> Paths]
      BY <1>0, <1>2, <1>10, <2>2 DEF Mkdir, Rmdir, Symlink, Unlink, Link, SessionTypes
    <3>. QED  BY <1>0, <3>1 DEF SessionTypes
  <2>. QED  BY <2>1, <2>2
<1>11. ASSUME NEW p \in Directories, NEW q \in Directories, NEW m \in Names, NEW n \in Names,
             RenameMove(p, m, q, n) \/ RenameReplace(p, m, q, n) \/ RenameExchange(p, m, q, n)
      PROVE  SessionTypes'
  <2>1. \A s, d : [CacheAfterRename(s) EXCEPT ![d] = NoPath] \in [Inodes -> Paths]
    BY <1>1, <1>4
  <2>2. UNCHANGED <<fds, nextFd, readonly>> /\ cache' \in [Inodes -> Paths]
    BY <1>0, <1>4, <1>11, <2>1 DEF RenameMove, RenameReplace, RenameExchange
  <2>. QED  BY <1>0, <2>2 DEF SessionTypes
<1>. QED  BY <1>5, <1>6, <1>8, <1>9, <1>10, <1>11 DEF Next

LEMMA InitInv == Init => IInv
<1> SUFFICES ASSUME Init PROVE IInv
  OBVIOUS
<1>1. DbTypes
  BY PyTreeAssumption, RootInode DEF Init, DbTypes, Kinds, Tables, NoListing, ROOT_INODE
<1>2. \A p \in Inodes, n \in Names : entries[p][n] = None
  BY DEF Init, NoListing
<1>3. EntriesLive /\ OneNamePerDir
  BY <1>2 DEF EntriesLive, OneNamePerDir, None, Inodes
<1>4. Rows /\ NamesCounted
  <2>1. Rows
    BY RootInode DEF Init, Rows, ROOT_INODE, Inodes
  <2>2. NamesCounted
    BY DEF Init, NamesCounted
  <2>. QED  BY <2>1, <2>2
<1>5. SessionTypes
  <2>1. 0 \in 0..(MaxInode - 1)
    BY PyTreeAssumption
  <2>2. NoPath \in [1..0 -> Names]
    BY DEF NoPath
  <2>3. NoPath \in Paths
    BY <2>1, <2>2 DEF Paths
  <2>. QED  BY <2>3, PyTreeAssumption DEF Init, SessionTypes
<1>. QED  BY <1>1, <1>3, <1>4, <1>5 DEF IInv, DbInv

-----------------------------------------------------------------------------
(* Theorems.                                                               *)

\* The invariant holds in every state.
THEOREM Invariant == Spec => []IInv
<1>1. IInv /\ [Next]_vars => IInv'
  BY DbStep, SessionStep DEF IInv
<1>. QED  BY InitInv, <1>1, PTL DEF Spec

\* Types are kept; only a directory's link count can fall below 0.
THEOREM TypeCorrect == Spec => []TypeOK
<1>1. IInv => TypeOK
  BY DEF IInv, DbInv, DbTypes, SessionTypes, Rows, TypeOK, Kinds, Tables
<1>. QED  BY Invariant, <1>1, PTL

\* A link count goes wrong only with a directory that no path led to, or with
\* the root: nothing done by path makes one wrong.
THEOREM FileLinkCounts == Spec => CountsLostByCascade
<1>1. ASSUME IInv, [Next]_vars, NEW i \in Inodes, Counted(i), ~Counted(i)'
      PROVE  \E d \in Inodes :
                LosesDirectory(d, i) /\ (d = ROOT_INODE \/ d \notin Resolvable)
  <2>0. DbTypes /\ EntriesLive
    BY <1>1 DEF IInv, DbInv
  <2>1. /\ kind[i] \in {"file", "symlink"} => nlink[i] = Cardinality(LinksIn(entries, i))
        /\ kind'[i] \in {"file", "symlink"} /\ nlink'[i] # Cardinality(LinksIn(entries', i))
    BY <1>1 DEF Counted, Links, LinksIn
  <2>2. ~CountsKept
    <3>1. Cardinality(LinksIn(entries', i)) \in Nat /\ nlink'[i] \in Int
      BY <1>1, DbStep, LinksFinite DEF DbInv, DbTypes
    <3>2. Cardinality(LinksIn(entries, i)) \in Nat /\ nlink[i] \in Int
      BY <2>0, LinksFinite DEF DbTypes
    <3>. QED  BY <2>1, <3>1, <3>2 DEF CountsKept
  <2>3. PICK d \in Inodes : Collects(d)
    BY <1>1, <2>2, DbStep
  <2>4. /\ \A q \in Inodes, m \in Names :
               entries'[q][m] = IF q = d THEN None ELSE entries[q][m]
        /\ \A j \in Inodes : kind'[j] = IF j = d THEN "none" ELSE kind[j]
        /\ \A j \in Inodes : nlink'[j] = nlink[j]
    BY <2>0, <2>3, CollectsEntries
  <2>5. kind[i] = kind'[i] /\ nlink'[i] = nlink[i]
    BY <2>1, <2>4
  <2>6. LinksIn(entries', i) # LinksIn(entries, i)
    BY <2>1, <2>5
  <2>7. PICK q \in Inodes, m \in Names : (entries[q][m] = i) # (entries'[q][m] = i)
    BY <2>6 DEF LinksIn
  <2>8. q = d /\ entries[d][m] = i
    BY <2>4, <2>7 DEF None, Inodes
  <2>9. kind[d] = "dir"
    BY <2>0, <2>8 DEF EntriesLive, None, Inodes
  <2>10. LosesDirectory(d, i)
    BY <2>4, <2>8, <2>9 DEF LosesDirectory
  <2>11. d = ROOT_INODE \/ d \notin Resolvable
    BY <2>0, <2>3, OwnNameOnly DEF Collects
  <2>. QED  BY <2>10, <2>11
<1>2. IInv /\ [Next]_vars =>
        \A i \in Inodes :
          Counted(i) /\ ~Counted(i)'
          => \E d \in Inodes :
                LosesDirectory(d, i) /\ (d = ROOT_INODE \/ d \notin Resolvable)
  BY <1>1
<1>. QED  BY Invariant, <1>2, PTL DEF Spec, CountsLostByCascade

\* No file or symlink goes while an fd is open on it, by whichever of unlink,
\* rename and close_fd its last link or fd went.
THEOREM OpenFilesKeptOpen == Spec => OpenFilesSurvive
<1>1. ASSUME IInv, [Next]_vars, NEW i \in Inodes,
             kind[i] \in {"file", "symlink"}, kind'[i] = "none"
      PROVE  \A f \in Fds : fds'[f] # i
  <2>0. DbTypes
    BY <1>1 DEF IInv, DbInv
  <2>1. kind' # kind
    BY <1>1
  <2>2. ASSUME NEW f \in Fds, CloseFd(f) PROVE OpenCount(fds', i) = 0
    BY <1>1, <2>0, <2>1, <2>2 DEF CloseFd, Reclaimable, DbTypes, Kinds
  <2>3. ASSUME NEW p \in Directories, NEW n \in Names, Unlink(p, n)
        PROVE  OpenCount(fds, i) = 0 /\ fds' = fds
    BY <1>1, <2>0, <2>1, <2>3 DEF Unlink, Reclaimable, DbTypes, Kinds
  <2>4. ASSUME NEW p \in Directories, NEW n \in Names, Rmdir(p, n) PROVE FALSE
    BY <1>1, <2>0, <2>4 DEF Rmdir, DbTypes, Kinds
  <2>5. ASSUME NEW p \in Directories, NEW n \in Names,
               Mkdir(p, n) \/ OpenNew(p, n) \/ Symlink(p, n)
        PROVE  FALSE
    BY <1>1, <2>0, <2>5 DEF Mkdir, OpenNew, Symlink, InsertNode, DbTypes, Kinds
  <2>6. ASSUME NEW sp \in Directories, NEW dp \in Directories, NEW sn \in Names, NEW dn \in Names,
               RenameReplace(sp, sn, dp, dn)
        PROVE  OpenCount(fds, i) = 0 /\ fds' = fds
    <3> DEFINE d == entries[dp][dn]
    <3>1. /\ fds' = fds
          /\ kind' = [kind EXCEPT ![d] = "none"]
          /\ kind[d] # "dir" => OpenCount(fds, d) = 0
      BY <2>1, <2>6 DEF RenameReplace, Reclaimable
    <3>2. d = i
      BY <1>1, <2>0, <3>1 DEF DbTypes, Kinds
    <3>. QED  BY <1>1, <3>1, <3>2
  <2>7. OpenCount(fds', i) = 0
    <3>1. ASSUME NEW f \in Fds, CloseFd(f) \/ WriteFd(f) PROVE OpenCount(fds', i) = 0
      BY <2>1, <2>2, <3>1 DEF WriteFd
    <3>2. ASSUME NEW p \in Directories, NEW n \in Names,
                 \/ Mkdir(p, n) \/ Rmdir(p, n) \/ OpenNew(p, n) \/ Symlink(p, n)
                 \/ Unlink(p, n) \/ \E t \in Inodes : Link(t, p, n)
          PROVE  OpenCount(fds', i) = 0
      <4>1. \A t \in Inodes : ~Link(t, p, n)
        BY <2>1 DEF Link
      <4>. QED  BY <2>3, <2>4, <2>5, <3>2, <4>1
    <3>3. ASSUME NEW p \in Directories, NEW q \in Directories, NEW m \in Names, NEW n \in Names,
                 RenameMove(p, m, q, n) \/ RenameReplace(p, m, q, n) \/ RenameExchange(p, m, q, n)
          PROVE  OpenCount(fds', i) = 0
      BY <2>1, <2>6, <3>3 DEF RenameMove, RenameExchange
    <3>. QED  BY <1>1, <2>1, <3>1, <3>2, <3>3 DEF Next, vars, Reopen, OpenExisting
  <2>. QED  BY <2>7, OpenCountZero
<1>2. IInv /\ [Next]_vars =>
        \A i \in Inodes : kind[i] \in {"file", "symlink"} /\ kind'[i] = "none"
                          => \A f \in Fds : fds'[f] # i
  BY <1>1
<1>. QED  BY Invariant, <1>2, PTL DEF Spec, OpenFilesSurvive

-----------------------------------------------------------------------------
(* Cycles.                                                                 *)

\* Entries that only go close no cycle.
LEMMA AcyclicLess ==
    ASSUME NEW E, NEW F, AcyclicIn(E),
           \A c, p \in Inodes, n \in Names : F[p][n] = c => E[p][n] = c
    PROVE  AcyclicIn(F)
<1> SUFFICES ASSUME NEW S \in SUBSET Inodes,
                    \A c \in S : \E p \in S, n \in Names : F[p][n] = c
             PROVE  S = {}
  BY DEF AcyclicIn
<1>1. \A c \in S : \E p \in S, n \in Names : E[p][n] = c
  OBVIOUS
<1>. QED  BY <1>1 DEF AcyclicIn

\* What lies on a cycle has entries, so it is in D.
LEMMA CyclesAmong ==
    ASSUME NEW E, NEW D \in SUBSET Inodes,
           \A p, c \in Inodes, n \in Names : E[p][n] = c => p \in D
    PROVE  AcyclicIn(E) <=>
               \A S \in SUBSET D :
                   (\A c \in S : \E p \in S, n \in Names : E[p][n] = c) => S = {}
<1>1. ASSUME NEW S \in SUBSET Inodes, \A c \in S : \E p \in S, n \in Names : E[p][n] = c,
             \A T \in SUBSET D :
                 (\A c \in T : \E p \in T, n \in Names : E[p][n] = c) => T = {}
      PROVE  S = {}
  <2> DEFINE T == S \cap D
  <2>1. T \in SUBSET D
    OBVIOUS
  <2>2. \A c \in S : \E p \in T, n \in Names : E[p][n] = c
    BY <1>1
  <2>3. \A c \in T : c \in S
    OBVIOUS
  <2> HIDE DEF T
  <2>4. T = {}
    BY <1>1, <2>1, <2>2, <2>3
  <2>. QED  BY <2>2, <2>4
<1>2. SUBSET D \subseteq SUBSET Inodes
  OBVIOUS
<1>. QED  BY <1>1, <1>2 DEF AcyclicIn

LEMMA AcyclicTables ==
    ASSUME DbInv
    PROVE  Acyclic <=> AcyclicIn(entries)
<1> DEFINE D == {d \in Inodes : kind[d] = "dir"}
<1>1. D \in SUBSET Inodes /\ \A p, c \in Inodes, n \in Names : entries[p][n] = c => p \in D
  BY DEF DbInv, EntriesLive, None, Inodes
<1>2. Acyclic <=> \A S \in SUBSET D :
          (\A c \in S : \E p \in S, n \in Names : entries[p][n] = c) => S = {}
  BY DEF Acyclic
<1> HIDE DEF D
<1>. QED  BY <1>1, <1>2, CyclesAmong

LEMMA AcyclicTablesNext ==
    ASSUME DbInv'
    PROVE  Acyclic' <=> AcyclicIn(entries')
<1> DEFINE D == {d \in Inodes : kind'[d] = "dir"}
<1>1. D \in SUBSET Inodes /\ \A p, c \in Inodes, n \in Names : entries'[p][n] = c => p \in D
  BY DEF DbInv, EntriesLive, None, Inodes
<1>2. Acyclic' <=> \A S \in SUBSET D :
          (\A c \in S : \E p \in S, n \in Names : entries'[p][n] = c) => S = {}
  BY DEF Acyclic
<1> HIDE DEF D
<1>. QED  BY <1>1, <1>2, CyclesAmong

\* A rename that ends with (dp, dn) bound to s and s nowhere else that it was
\* not before, closes no cycle.
LEMMA MoveAcyclic ==
    ASSUME DbInv, DbInv', AcyclicIn(entries),
           NEW sp \in Directories, NEW sn \in Names, NEW dp \in Directories, NEW dn \in Names,
           RenameStarts(sp, sn, dp, dn),
           Sets2(entries, entries', sp, sn, None, dp, dn, entries[sp][sn])
    PROVE  AcyclicIn(entries')
<1> DEFINE s == entries[sp][sn]
<1>0. entries \in Tables /\ entries' \in Tables /\ EntriesLive /\ OneNamePerDir
  BY DEF DbInv, DbTypes
<1>1. /\ s \in Inodes /\ sp \in Inodes /\ dp \in Inodes
      /\ kind[dp] = "dir" /\ RenameAllowed(s, dp)
  BY RenameFacts DEF RenameStarts
<1>2. \A c \in Inodes \ {s}, q \in Inodes, m \in Names :
          entries'[q][m] = c => entries[q][m] = c
  BY DEF Sets2, None, Inodes
<1>3. CASE kind[s] = "dir"
  <2> DEFINE A == Ancestry(dp)
  <2>1. s \notin A /\ dp \in A
    BY <1>1, <1>3, AncestryClosed DEF RenameAllowed
  <2>2. \A c \in A, q \in Inodes, m \in Names : entries[q][m] = c => q \in A
    BY <1>1, AncestryClosed
  <2>3. \A q \in Inodes, m \in Names : entries'[q][m] = s => q = dp
    BY <1>0, <1>1, <1>3 DEF Sets2, OneNamePerDir, None, Inodes
  <2> HIDE DEF A, s
  <2>. QED  BY <1>0, <1>1, <1>2, <2>1, <2>2, <2>3, AcyclicMove
<1>4. CASE kind[s] # "dir"
  <2>1. \A m \in Names, c \in Inodes : entries'[s][m] # c
    BY <1>0, <1>1, <1>4 DEF Sets2, EntriesLive, None, Inodes
  <2>2. AddsLeaf(entries, entries', s)
    BY <1>2, <2>1 DEF AddsLeaf
  <2> HIDE DEF s
  <2>. QED  BY <1>0, <2>2, AcyclicLeaf
<1>. QED  BY <1>3, <1>4

\* An entry for an inode without entries closes no cycle.
LEMMA LeafAcyclic ==
    ASSUME DbTypes, AcyclicIn(entries), NEW p \in Inodes, NEW n \in Names,
           NEW x \in Inodes, \A m \in Names : entries[x][m] = None, x # p,
           entries' = [entries EXCEPT ![p][n] = x]
    PROVE  AcyclicIn(entries')
<1>1. Sets(entries, entries', p, n, x) /\ entries' \in Tables /\ entries \in Tables
  BY SetsOne DEF DbTypes
<1>2. \A c \in Inodes \ {x}, q \in Inodes, m \in Names :
          entries'[q][m] = c => entries[q][m] = c
  BY <1>1 DEF Sets
<1>3. \A m \in Names, c \in Inodes : entries'[x][m] # c
  BY <1>1 DEF Sets, None, Inodes
<1>4. entries \in Tables /\ entries' \in Tables
  BY <1>1
<1>5. AddsLeaf(entries, entries', x)
  BY <1>2, <1>3 DEF AddsLeaf
<1>. QED  BY <1>4, <1>5, AcyclicLeaf

\* Of all operations only an exchange of two names that bind different inodes
\* can close a cycle.
THEOREM OnlyExchangeCloses == Spec => CyclesByExchange
<1> DEFINE Witness == \E p, q \in Inodes, m, n \in Names :
                         /\ <<p, m>> # <<q, n>>
                         /\ Overwrites(p, m) /\ Overwrites(q, n)
<1>1. ASSUME IInv, [Next]_vars, Acyclic, ~Acyclic'
      PROVE  Witness
  <2>0. DbInv /\ DbInv' /\ DbTypes /\ EntriesLive /\ Rows
    BY <1>1, DbStep DEF IInv, DbInv
  <2>1. AcyclicIn(entries) /\ ~AcyclicIn(entries')
    BY <1>1, <2>0, AcyclicTables, AcyclicTablesNext
  <2>2. entries' # entries
    BY <2>1
  <2>3. ~\A c, p \in Inodes, n \in Names : entries'[p][n] = c => entries[p][n] = c
    BY <2>1, AcyclicLess
  <2>4. ASSUME NEW f \in Fds, CloseFd(f) PROVE FALSE
    <3>1. entries' = [entries EXCEPT ![fds[f]] = NoListing]
      BY <2>2, <2>4 DEF CloseFd
    <3>. QED  BY <2>0, <2>3, <3>1 DEF DbTypes, Tables, NoListing, None, Inodes
  <2>5. ASSUME NEW p \in Directories, NEW n \in Names, Rmdir(p, n) PROVE FALSE
    <3>1. Sets(entries, entries', p, n, None)
      BY <2>0, <2>5, RmdirDb
    <3>. QED  BY <2>3, <3>1 DEF Sets, None, Inodes
  <2>6. ASSUME NEW p \in Directories, NEW n \in Names, Unlink(p, n) PROVE FALSE
    <3>1. Sets(entries, entries', p, n, None)
      BY <2>0, <2>6, InDirectories, SetsOne DEF Unlink, DbTypes
    <3>. QED  BY <2>3, <3>1 DEF Sets, None, Inodes
  <2>7. ASSUME NEW p \in Directories, NEW n \in Names,
               Mkdir(p, n) \/ OpenNew(p, n) \/ Symlink(p, n)
        PROVE  FALSE
    <3>1. kind[p] = "dir" /\ p \in Inodes
      BY <2>0, InDirectories
    <3>2. nextInode \in Inodes /\ entries' = [entries EXCEPT ![p][n] = nextInode]
      BY <2>7 DEF Mkdir, OpenNew, Symlink, InsertNode
    <3>3. kind[nextInode] = "none"
      BY <2>0, <3>2 DEF Rows, DbTypes
    <3>4. \A m \in Names : entries[nextInode][m] = None
      BY <2>0, <3>2, <3>3 DEF EntriesLive
    <3>. QED  BY <2>0, <2>1, <3>1, <3>2, <3>3, <3>4, LeafAcyclic
  <2>8. ASSUME NEW p \in Directories, NEW n \in Names, NEW t \in Inodes, Link(t, p, n)
        PROVE  FALSE
    <3>1. kind[p] = "dir" /\ p \in Inodes /\ kind[t] = "file"
      BY <2>0, <2>8, InDirectories DEF Link
    <3>2. \A m \in Names : entries[t][m] = None
      BY <2>0, <3>1 DEF EntriesLive
    <3>. QED  BY <2>0, <2>1, <2>8, <3>1, <3>2, LeafAcyclic DEF Link
  <2>9. ASSUME NEW p \in Directories, NEW q \in Directories, NEW m \in Names, NEW n \in Names,
               RenameMove(p, m, q, n)
        PROVE  FALSE
    BY <2>0, <2>1, <2>9, MoveDb, MoveAcyclic DEF RenameMove
  <2>10. ASSUME NEW p \in Directories, NEW q \in Directories, NEW m \in Names, NEW n \in Names,
                RenameReplace(p, m, q, n)
         PROVE  FALSE
    BY <2>0, <2>1, <2>10, ReplaceDb, MoveAcyclic DEF RenameReplace
  <2>11. ASSUME NEW p \in Directories, NEW q \in Directories, NEW m \in Names, NEW n \in Names,
                RenameExchange(p, m, q, n)
         PROVE  Witness
    <3> DEFINE s == entries[p][m]
               d == entries[q][n]
    <3>1. Sets2(entries, entries', p, m, d, q, n, s)
      BY <2>0, <2>11, ExchangeDb
    <3>2. s # None /\ d # None /\ <<p, m>> # <<q, n>>
      BY <2>11 DEF RenameExchange, RenameStarts
    <3>0. p \in Inodes /\ q \in Inodes
      BY <2>0, InDirectories
    <3>3. entries'[p][m] = d /\ entries'[q][n] = s
      BY <3>0, <3>1 DEF Sets2
    <3>4. s # d
      <4> SUFFICES ASSUME s = d PROVE FALSE
        OBVIOUS
      <4>1. \A a \in Inodes, b \in Names : entries'[a][b] = entries[a][b]
        BY <3>1 DEF Sets2
      <4>. QED  BY <2>3, <4>1
    <3>5. Overwrites(p, m) /\ Overwrites(q, n)
      BY <3>2, <3>3, <3>4 DEF Overwrites
    <3>. QED  BY <3>0, <3>2, <3>5
  <2>. QED  BY <1>1, <2>2, <2>4, <2>5, <2>6, <2>7, <2>8, <2>9, <2>10, <2>11
            DEF Next, vars, Reopen, WriteFd, OpenExisting
<1>2. IInv /\ [Next]_vars => (Acyclic /\ ~Acyclic' => Witness)
  BY <1>1
<1>. QED  BY Invariant, <1>2, PTL DEF Spec, CyclesByExchange

-----------------------------------------------------------------------------
(* The path cache.                                                         *)

\* What a step does to the cached path of i: keeps it, drops it, or stores one
\* that leads to i.
LEMMA CacheStep ==
    ASSUME IInv, [Next]_vars, NEW i \in Inodes
    PROVE  \/ cache'[i] \in {cache[i], NoPath}
           \/ UNCHANGED <<kind, entries>> /\ Walk(cache'[i]) = i
<1>0. SessionTypes
  BY DEF IInv
<1>1. \A j : Forgotten(j)[i] \in {cache[i], NoPath}
  BY <1>0 DEF Forgotten, SessionTypes
<1>2. \A j : CacheAfterRename(j)[i] \in {cache[i], NoPath}
  BY <1>1 DEF CacheAfterRename
<1>3. \A j : CacheAfterRename(j) \in [Inodes -> Paths \cup {NoPath}]
  BY <1>0 DEF CacheAfterRename, Forgotten, SessionTypes
<1>4. \A j, d : [CacheAfterRename(j) EXCEPT ![d] = NoPath][i] \in {cache[i], NoPath}
  BY <1>2, <1>3
<1>5. ASSUME NEW f \in Fds, WriteFd(f)
      PROVE  \/ cache'[i] = cache[i]
             \/ UNCHANGED <<kind, entries>> /\ Walk(cache'[i]) = i
  <2>1. PICK path \in Paths : Walk(path) = fds[f] /\ cache' = [cache EXCEPT ![fds[f]] = path]
    BY <1>5 DEF WriteFd
  <2>2. UNCHANGED <<kind, entries>>
    BY <1>5 DEF WriteFd
  <2>3. CASE fds[f] = i
    <3>1. cache'[i] = path
      BY <1>0, <2>1, <2>3 DEF SessionTypes
    <3>. QED  BY <2>1, <2>2, <2>3, <3>1
  <2>4. CASE fds[f] # i
    BY <1>0, <2>1, <2>4 DEF SessionTypes
  <2>. QED  BY <2>3, <2>4
<1>6. ASSUME NEW p \in Directories, NEW n \in Names,
             \/ Mkdir(p, n) \/ Rmdir(p, n) \/ OpenNew(p, n) \/ Symlink(p, n) \/ Unlink(p, n)
             \/ \E t \in Inodes : Link(t, p, n)
      PROVE  cache'[i] \in {cache[i], NoPath}
  BY <1>1, <1>6 DEF Mkdir, Rmdir, OpenNew, Symlink, Unlink, Link
<1>7. ASSUME NEW p \in Directories, NEW q \in Directories, NEW m \in Names, NEW n \in Names,
             RenameMove(p, m, q, n) \/ RenameReplace(p, m, q, n) \/ RenameExchange(p, m, q, n)
      PROVE  cache'[i] \in {cache[i], NoPath}
  BY <1>2, <1>4, <1>7 DEF RenameMove, RenameReplace, RenameExchange
<1>8. CASE Reopen
  BY <1>8 DEF Reopen
<1>9. ASSUME NEW f \in Fds, CloseFd(f) PROVE cache' = cache
  BY <1>9 DEF CloseFd
<1>10. ASSUME NEW j \in Inodes, OpenExisting(j) PROVE cache' = cache
  BY <1>10 DEF OpenExisting
<1>11. CASE UNCHANGED vars
  BY <1>11 DEF vars
<1>. QED  BY <1>5, <1>6, <1>7, <1>8, <1>9, <1>10, <1>11 DEF Next

\* The step drops what the cache says of v, to which nothing is bound, or all.
Uncached(v) ==
    \/ \A j \in Inodes : cache'[j] = NoPath
    \/ cache'[v] = NoPath /\ \A m \in Names : entries[v][m] = None

\* Renaming drops the path of what is renamed, and all if that is a directory.
LEMMA RenameUncaches ==
    ASSUME IInv, NEW s \in Inodes, cache' = CacheAfterRename(s)
    PROVE  Uncached(s)
<1>1. CASE kind[s] = "dir"
  BY <1>1 DEF CacheAfterRename, Uncached
<1>2. CASE kind[s] # "dir"
  <2>1. \A m \in Names : entries[s][m] = None
    BY <1>2 DEF IInv, DbInv, EntriesLive
  <2>2. cache'[s] = NoPath
    BY <1>2 DEF CacheAfterRename, Forgotten, IInv, SessionTypes
  <2>. QED  BY <2>1, <2>2 DEF Uncached
<1>. QED  BY <1>1, <1>2

\* a is not the root and lies in itself, if it lies anywhere.
Adrift(a) ==
    /\ a # ROOT_INODE
    /\ \A q \in Inodes, m \in Names : entries[q][m] = a => q = a

\* An entry that goes takes what is cached of its inode with it, unless the
\* root goes or the directory it was in is one that no path leads to.
LEMMA RemovalUncaches ==
    ASSUME IInv, [Next]_vars, NEW a \in Inodes, NEW b \in Names,
           entries[a][b] # None, entries'[a][b] = None
    PROVE  kind'[ROOT_INODE] = "none" \/ Adrift(a) \/ Uncached(entries[a][b])
<1> DEFINE v == entries[a][b]
<1>0. DbInv /\ DbTypes /\ SessionTypes /\ EntriesLive /\ Rows
  BY DEF IInv, DbInv
<1>1. entries' # entries /\ v \in Inodes /\ kind[a] = "dir"
  BY <1>0 DEF DbTypes, Tables, EntriesLive
<1>2. ASSUME NEW f \in Fds, CloseFd(f) PROVE kind'[ROOT_INODE] = "none" \/ Adrift(a)
  <2> DEFINE i == fds[f]
  <2>1. i \in Inodes /\ Collects(i)
    BY <1>0, <1>1, <1>2, CloseFdCollects
  <2> HIDE DEF i
  <2>2. a = i
    BY <1>0, <2>1, CollectsEntries
  <2>3. kind'[i] = "none"
    BY <1>0, <2>1, CollectsEntries
  <2>. QED  BY <2>1, <2>2, <2>3 DEF Adrift, Collects
<1>3. ASSUME NEW p \in Directories, NEW n \in Names, Rmdir(p, n) PROVE Uncached(v)
  <2>1. Sets(entries, entries', p, n, None)
    BY <1>0, <1>3, RmdirDb
  <2>2. a = p /\ b = n
    BY <2>1 DEF Sets
  <2>3. IsEmpty(v) /\ cache' = Forgotten(v)
    BY <1>3, <2>2 DEF Rmdir
  <2> HIDE DEF v
  <2>. QED  BY <1>0, <1>1, <2>3 DEF Uncached, Forgotten, IsEmpty, NoListing, SessionTypes
<1>4. ASSUME NEW p \in Directories, NEW n \in Names, Unlink(p, n) PROVE Uncached(v)
  <2>1. Sets(entries, entries', p, n, None)
    BY <1>0, <1>4, InDirectories, SetsOne DEF Unlink, DbTypes
  <2>2. a = p /\ b = n
    BY <2>1 DEF Sets
  <2>3. kind[v] # "dir" /\ cache' = Forgotten(v)
    BY <1>4, <2>2 DEF Unlink
  <2>4. \A m \in Names : entries[v][m] = None
    BY <1>0, <1>1, <2>3 DEF EntriesLive
  <2> HIDE DEF v
  <2>. QED  BY <1>0, <1>1, <2>3, <2>4 DEF Uncached, Forgotten, SessionTypes
<1>5. ASSUME NEW p \in Inodes, NEW n \in Names, NEW x \in Inodes,
             entries' = [entries EXCEPT ![p][n] = x]
      PROVE  FALSE
  <2>1. Sets(entries, entries', p, n, x)
    BY <1>0, <1>5, SetsOne DEF DbTypes
  <2>. QED  BY <2>1 DEF Sets, None, Inodes
<1>6. ASSUME NEW p \in Directories, NEW n \in Names,
             \/ Mkdir(p, n) \/ OpenNew(p, n) \/ Symlink(p, n) \/ \E t \in Inodes : Link(t, p, n)
      PROVE  FALSE
  BY <1>0, <1>5, <1>6, InDirectories DEF Mkdir, OpenNew, Symlink, InsertNode, Link
<1>7. ASSUME NEW p \in Directories, NEW q \in Directories, NEW m \in Names, NEW n \in Names,
             RenameMove(p, m, q, n) \/ RenameReplace(p, m, q, n)
      PROVE  Uncached(v)
  <2>1. Sets2(entries, entries', p, m, None, q, n, entries[p][m])
    BY <1>0, <1>7, MoveDb, ReplaceDb
  <2>2. entries[p][m] # None /\ cache' = CacheAfterRename(entries[p][m])
    BY <1>7 DEF RenameMove, RenameReplace, RenameStarts
  <2>3. a = p /\ b = m
    BY <2>1, <2>2 DEF Sets2
  <2> HIDE DEF v
  <2>. QED  BY <1>1, <2>2, <2>3, RenameUncaches DEF v
<1>8. ASSUME NEW p \in Directories, NEW q \in Directories, NEW m \in Names, NEW n \in Names,
             RenameExchange(p, m, q, n)
      PROVE  FALSE
  <2>1. Sets2(entries, entries', p, m, entries[q][n], q, n, entries[p][m])
    BY <1>0, <1>8, ExchangeDb
  <2>2. entries[p][m] # None /\ entries[q][n] # None
    BY <1>8 DEF RenameExchange, RenameStarts
  <2>. QED  BY <2>1, <2>2 DEF Sets2
<1>9. ~Reopen /\ ~UNCHANGED vars /\ \A f \in Fds : ~WriteFd(f)
  BY <1>1 DEF Reopen, vars, WriteFd
<1>10. \A i \in Inodes : ~OpenExisting(i)
  BY <1>1 DEF OpenExisting
<1> HIDE DEF v
<1>11. kind'[ROOT_INODE] = "none" \/ Adrift(a) \/ Uncached(v)
  BY <1>2, <1>3, <1>4, <1>6, <1>7, <1>8, <1>9, <1>10 DEF Next
<1>. QED  BY <1>11 DEF v

\* No walk that ends somewhere passes a directory that no other entry names.
LEMMA WalksMissAdrift ==
    ASSUME NEW q \in Seq(Names), NEW at, Visits(entries, kind, q, at),
           at[Len(q)] # None, NEW d, Adrift(d)
    PROVE  \A j \in 0..Len(q) : at[j] # d
<1> DEFINE S == {j \in 0..Len(q) : at[j] # d}
<1>0. Len(q) \in Nat
  OBVIOUS
<1>1. 0 \in S
  BY <1>0 DEF Visits, Adrift
<1>2. \A j \in 1..Len(q) :
          /\ at[j - 1] \in Inodes
          /\ kind[at[j - 1]] = "dir"
          /\ at[j] = entries[at[j - 1]][q[j]]
          /\ at[j] \in Inodes
  BY WayThrough, Zenon
<1>3. ASSUME NEW j \in 1..Len(q), j - 1 \in S
      PROVE  j \in S
  <2>1. at[j - 1] \in Inodes /\ at[j] = entries[at[j - 1]][q[j]]
    BY <1>2
  <2>2. q[j] \in Names /\ j \in 0..Len(q)
    BY <1>0
  <2>. QED  BY <1>3, <2>1, <2>2 DEF Adrift
<1> HIDE DEF S
<1>4. 0..Len(q) \subseteq S
  BY <1>0, <1>1, <1>3, UpToInduction
<1>. QED  BY <1>4 DEF S

\* A cached path that leads where it should goes on doing so, unless the root
\* goes or a rename binds something else to a name on it.
LEMMA CachedPathStays ==
    ASSUME IInv, IInv', [Next]_vars, NEW i \in Inodes,
           cache[i] # NoPath, Walk(cache[i]) = i, cache'[i] = cache[i],
           kind'[ROOT_INODE] # "none",
           \A k \in 1..Len(cache[i]) :
               ~Overwrites(Walk(SubSeq(cache[i], 1, k - 1)), cache[i][k])
    PROVE  WalkIn(entries', kind', cache[i]) = i
<1> DEFINE q == cache[i]
<1>0. /\ entries \in Tables /\ kind \in Kinds /\ entries' \in Tables /\ kind' \in Kinds
      /\ EntriesLive' /\ i # None
  BY DEF IInv, DbInv, DbTypes, None, Inodes
<1>1. q \in Seq(Names)
  BY PathsAreSeqs DEF IInv, SessionTypes
<1>2. /\ WalkIn(entries, kind, q) = i
      /\ \A k \in 1..Len(q) : ~Overwrites(WalkIn(entries, kind, SubSeq(q, 1, k - 1)), q[k])
  BY WalkIsWalkIn
<1>3. cache'[i] # NoPath
  OBVIOUS
<1> HIDE DEF q
<1>4. PICK at : Visits(entries, kind, q, at)
  BY <1>0, <1>1, VisitsExist
<1>5. at[Len(q)] = i
  BY <1>0, <1>1, <1>2, <1>4, WalkEnds
<1>6. \A k \in 1..Len(q) :
          /\ at[k - 1] \in Inodes
          /\ kind[at[k - 1]] = "dir"
          /\ at[k] = entries[at[k - 1]][q[k]]
          /\ at[k] \in Inodes
  <2>1. at[Len(q)] # None
    BY <1>0, <1>5
  <2>. QED  BY <1>1, <1>4, <2>1, WayThrough, Zenon
<1>7. ASSUME NEW k \in 1..Len(q)
      PROVE  /\ kind'[at[k - 1]] = "dir"
             /\ entries'[at[k - 1]][q[k]] = entries[at[k - 1]][q[k]]
  <2> DEFINE a == at[k - 1]
             b == q[k]
  <2>1. a \in Inodes /\ b \in Names /\ entries[a][b] = at[k] /\ at[k] \in Inodes
    BY <1>1, <1>6
  <2>2. WalkIn(entries, kind, SubSeq(q, 1, k - 1)) = a
    <3>1. k - 1 \in 0..Len(q)
      BY <1>1
    <3>. QED  BY <1>0, <1>1, <1>4, <3>1, WalkSub
  <2>3. ~Overwrites(a, b)
    BY <1>2, <2>2
  <2> HIDE DEF a, b
  <2>4. entries[a][b] # None
    BY <2>1 DEF None, Inodes
  <2>5. entries'[a][b] # None
    <3> SUFFICES ASSUME entries'[a][b] = None PROVE FALSE
      OBVIOUS
    <3>1. ~Adrift(a)
      <4>1. at[Len(q)] # None /\ k - 1 \in 0..Len(q)
        BY <1>0, <1>1, <1>5
      <4>2. Adrift(a) => \A j \in 0..Len(q) : at[j] # a
        BY <1>1, <1>4, <4>1, WalksMissAdrift
      <4>. QED  BY <4>1, <4>2 DEF a
    <3>0. Uncached(at[k])
      BY <2>1, <2>4, <3>1, RemovalUncaches
    <3>2. cache'[at[k]] = NoPath /\ \A m \in Names : entries[at[k]][m] = None
      BY <1>3, <3>0 DEF Uncached
    <3>3. CASE k = Len(q)
      BY <1>3, <1>5, <3>2, <3>3
    <3>4. CASE k # Len(q)
      <4>1. k + 1 \in 1..Len(q) /\ (k + 1) - 1 = k
        BY <1>1, <3>4
      <4>2. at[k + 1] = entries[at[k]][q[k + 1]] /\ at[k + 1] \in Inodes
        BY <1>6, <4>1
      <4>3. q[k + 1] \in Names
        BY <1>1, <4>1
      <4>4. at[k + 1] = None
        BY <3>2, <4>2, <4>3
      <4>. QED  BY <4>2, <4>4 DEF None, Inodes
    <3>. QED  BY <3>3, <3>4
  <2>6. entries'[a][b] = entries[a][b]
    BY <2>3, <2>4, <2>5 DEF Overwrites
  <2>7. kind'[a] = "dir"
    BY <1>0, <2>1, <2>5 DEF EntriesLive
  <2>. QED  BY <2>6, <2>7 DEF a, b
<1>8. WalkIn(entries', kind', q) = at[Len(q)]
  <2>1. at[Len(q)] # None
    BY <1>0, <1>5
  <2>. QED  BY <1>0, <1>1, <1>4, <1>7, <2>1, WalkStays
<1>. QED  BY <1>5, <1>8 DEF q

\* Unlink, rmdir, links, moves and closes leave no cached path stale; only a
\* rename over a name on the path does, and the loss of the root.
THEOREM OnlyOverwriteStales == Spec => StaleByOverwrite
<1>1. ASSUME IInv, IInv', [Next]_vars, NEW i \in Inodes, Sound(i), ~Sound(i)',
             kind'[ROOT_INODE] # "none"
      PROVE  \E k \in 1..Len(cache[i]) :
                Overwrites(Walk(SubSeq(cache[i], 1, k - 1)), cache[i][k])
  <2>1. cache'[i] # NoPath /\ WalkIn(entries', kind', cache'[i]) # i
    BY <1>1 DEF Sound, Walk, WalkIn
  <2>2. cache'[i] = cache[i]
    <3>1. CASE UNCHANGED <<kind, entries>> /\ Walk(cache'[i]) = i
      <4>1. WalkIn(entries', kind', cache'[i]) = i
        BY <3>1, WalkIsWalkIn
      <4>. QED  BY <2>1, <4>1
    <3>. QED  BY <1>1, <2>1, <3>1, CacheStep
  <2>3. Walk(cache[i]) = i
    BY <1>1, <2>1, <2>2 DEF Sound
  <2>. QED  BY <1>1, <2>1, <2>2, <2>3, CachedPathStays, SMTT(60)
<1>2. IInv /\ IInv' /\ [Next]_vars =>
        \A i \in Inodes :
          Sound(i) /\ ~Sound(i)'
          => \/ kind'[ROOT_INODE] = "none"
             \/ \E k \in 1..Len(cache[i]) :
                   Overwrites(Walk(SubSeq(cache[i], 1, k - 1)), cache[i][k])
  BY <1>1
<1>. QED  BY Invariant, <1>2, PTL DEF Spec, StaleByOverwrite
=============================================================================
