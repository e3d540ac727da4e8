-------------------------- MODULE NamespaceProofs --------------------------
(***************************************************************************)
(* Proofs about Namespace and Fsck, for every set of names and every       *)
(* bound: the inductive invariant, how each operation moves link counts,   *)
(* subdirectories and ancestors, that every action preserves the           *)
(* invariant, and the theorems - state by state, step by step, and about   *)
(* what run_fsck finds.                                                    *)
(***************************************************************************)
EXTENDS Fsck, Induction

\* i has a name.
Named(i) == \E p \in Inodes, n \in Names : entries[p][n] = i

-----------------------------------------------------------------------------
(* The inductive invariant, in named parts.                                *)

\* The types of the tables, with link counts that could still be negative.
DbTypes ==
    /\ kind \in [Inodes -> {"none", "file", "dir", "symlink"}]
    /\ nlink \in [Inodes -> Int]
    /\ entries \in [Inodes -> [Names -> Inodes \cup {None}]]
    /\ nextInode \in 1..(MaxInode + 1)

\* The root is a directory; inode numbers from nextInode on are unused.
Rows ==
    /\ kind[ROOT_INODE] = "dir"
    /\ \A i \in Inodes : kind[i] = "none" => nlink[i] = 0
    /\ \A i \in Inodes : i >= nextInode => kind[i] = "none"

\* A directory with entries is the root or has a name: the directories that
\* renames leave behind stay empty.
Occupied ==
    \A p \in Inodes, n \in Names :
        entries[p][n] # None => p = ROOT_INODE \/ Named(p)

\* Directories: a link count that covers the subdirectories, and is not 0.
DirNlink ==
    \A d \in Inodes : kind[d] = "dir" =>
        /\ nlink[d] >= 1
        /\ d = ROOT_INODE \/ Named(d) => nlink[d] >= 2 + Cardinality(Subdirs(d))

\* The tables.
DbInv ==
    /\ DbTypes /\ Rows
    /\ EntriesLive /\ OneNamePerDir /\ Occupied /\ Acyclic
    /\ FileNlinkExact /\ DirNlink

SessionTypes ==
    /\ fds \in [Fds -> Inodes \cup {None}]
    /\ nextFd \in 1..(MaxFd + 1)
    /\ readonly \in BOOLEAN
    /\ pending \in Inodes \cup {None}

\* An fd refers to an inode number that was handed out.
FdsOld == \A f \in Fds : fds[f] < nextInode

\* The node about to be deleted has no name and no fd.
PendingUnused ==
    pending # None =>
        /\ ~readonly
        /\ kind[pending] \in {"file", "symlink"}
        /\ nlink[pending] = 0
        /\ \A f \in Fds : fds[f] # pending

\* What a read-only session has open has a name.
ReadonlyFds ==
    readonly => \A f \in Fds : fds[f] # None => nlink[fds[f]] > 0

\* The session.
SessionInv == SessionTypes /\ FdsOld /\ PendingUnused /\ ReadonlyFds

IInv == DbInv /\ SessionInv

-----------------------------------------------------------------------------
(* Counting.  LinksIn and SubdirsIn are Links and Subdirs of a given table, *)
(* to follow a rename through its two changes one at a time.                *)

Tables == [Inodes -> [Names -> Inodes \cup {None}]]
KindTables == [Inodes -> {"none", "file", "dir", "symlink"}]

LinksIn(E, i) == {e \in Inodes \X Names : E[e[1]][e[2]] = i}
SubdirsIn(E, K, d) == {n \in Names : E[d][n] # None /\ K[E[d][n]] = "dir"}

\* F is E with entry (p, n) set to x.
Sets(E, F, p, n, x) ==
    \A q \in Inodes, m \in Names : F[q][m] = IF q = p /\ m = n THEN x ELSE E[q][m]

\* There are MaxInode inodes.
LEMMA InodesCount == IsFiniteSet(Inodes) /\ Cardinality(Inodes) = MaxInode
<1>1. 1 \in Int /\ MaxInode \in Int /\ MaxInode \in Nat /\ 1 <= MaxInode
  BY BoundsAssumption
<1>2. IsFiniteSet(1..MaxInode)
  BY <1>1, FS_Interval
<1>3. Cardinality(1..MaxInode) = IF 1 > MaxInode THEN 0 ELSE MaxInode - 1 + 1
  BY <1>1, FS_Interval
<1>. QED  BY <1>1, <1>2, <1>3 DEF Inodes

\* A part of a finite set that is not all of it is smaller.
LEMMA Fewer ==
    ASSUME NEW S, IsFiniteSet(S), NEW T \in SUBSET S, T # S
    PROVE  /\ IsFiniteSet(T) /\ Cardinality(T) \in Nat /\ Cardinality(S) \in Nat
           /\ Cardinality(T) + 1 <= Cardinality(S)
<1>1. IsFiniteSet(T) /\ Cardinality(T) <= Cardinality(S) /\ Cardinality(S) # Cardinality(T)
  BY FS_Subset
<1>2. Cardinality(T) \in Nat /\ Cardinality(S) \in Nat
  BY <1>1, FS_CardinalityType
<1> DEFINE a == Cardinality(T)
           b == Cardinality(S)
<1>3. a \in Nat /\ b \in Nat /\ a <= b /\ a # b
  BY <1>1, <1>2
<1> HIDE DEF a, b
<1>4. a + 1 <= b
  BY <1>3
<1>. QED  BY <1>1, <1>2, <1>4 DEF a, b

\* The links of an inode are finitely many.
LEMMA LinksFinite ==
    ASSUME NEW E, NEW i
    PROVE  IsFiniteSet(LinksIn(E, i)) /\ Cardinality(LinksIn(E, i)) \in Nat
<1>1. IsFiniteSet(Inodes)
  BY InodesCount
<1>2. IsFiniteSet(Inodes \X Names)
  BY <1>1, FS_Product, NamesAssumption
<1>3. LinksIn(E, i) \in SUBSET (Inodes \X Names)
  BY DEF LinksIn
<1>. QED  BY <1>2, <1>3, FS_Subset, FS_CardinalityType

\* Setting one entry moves one link.
LEMMA LinkCount ==
    ASSUME NEW E, NEW F, NEW p \in Inodes, NEW n \in Names, NEW x, NEW i,
           Sets(E, F, p, n, x)
    PROVE  Cardinality(LinksIn(F, i))
              = Cardinality(LinksIn(E, i)) + (IF x = i THEN 1 ELSE 0)
                                           - (IF E[p][n] = i THEN 1 ELSE 0)
<1> DEFINE e0 == <<p, n>>
<1>1. \A e \in Inodes \X Names : e # e0 => F[e[1]][e[2]] = E[e[1]][e[2]]
  BY DEF Sets
<1>2. F[p][n] = x
  BY DEF Sets
<1>3. LinksIn(E, i) \ {e0} = LinksIn(F, i) \ {e0}
  BY <1>1 DEF LinksIn
<1>4. e0 \in LinksIn(F, i) <=> x = i
  BY <1>2 DEF LinksIn
<1>5. e0 \in LinksIn(E, i) <=> E[p][n] = i
  BY DEF LinksIn
<1> HIDE DEF e0
<1>6. Cardinality(LinksIn(F, i)) = Cardinality(LinksIn(E, i))
          + (IF e0 \in LinksIn(F, i) THEN 1 ELSE 0) - (IF e0 \in LinksIn(E, i) THEN 1 ELSE 0)
  BY <1>3, LinksFinite, DifferInOne
<1>. QED  BY <1>4, <1>5, <1>6

\* The subdirectories of a directory are finitely many.
LEMMA SubdirsFinite ==
    ASSUME NEW E, NEW K, NEW d
    PROVE  IsFiniteSet(SubdirsIn(E, K, d)) /\ Cardinality(SubdirsIn(E, K, d)) \in Nat
BY NamesAssumption, FS_Subset, FS_CardinalityType DEF SubdirsIn

\* Setting one entry moves one subdirectory.
LEMMA SubdirCount ==
    ASSUME NEW E, NEW F, NEW K, NEW p \in Inodes, NEW n \in Names, NEW x,
           Sets(E, F, p, n, x)
    PROVE  Cardinality(SubdirsIn(F, K, p))
              = Cardinality(SubdirsIn(E, K, p))
                + (IF x # None /\ K[x] = "dir" THEN 1 ELSE 0)
                - (IF E[p][n] # None /\ K[E[p][n]] = "dir" THEN 1 ELSE 0)
<1>3. SubdirsIn(E, K, p) \ {n} = SubdirsIn(F, K, p) \ {n}
  BY DEF SubdirsIn, Sets
<1>4. n \in SubdirsIn(F, K, p) <=> x # None /\ K[x] = "dir"
  BY DEF SubdirsIn, Sets
<1>5. n \in SubdirsIn(E, K, p) <=> E[p][n] # None /\ K[E[p][n]] = "dir"
  BY DEF SubdirsIn
<1>7. Cardinality(SubdirsIn(F, K, p)) = Cardinality(SubdirsIn(E, K, p))
          + (IF n \in SubdirsIn(F, K, p) THEN 1 ELSE 0)
          - (IF n \in SubdirsIn(E, K, p) THEN 1 ELSE 0)
  BY <1>3, SubdirsFinite, DifferInOne
<1>. QED  BY <1>4, <1>5, <1>7

\* Setting an entry of p leaves the subdirectories of the others.
LEMMA SubdirsElsewhere ==
    ASSUME NEW E, NEW F, NEW K, NEW p, NEW n, NEW x,
           Sets(E, F, p, n, x), NEW d \in Inodes, d # p
    PROVE  SubdirsIn(F, K, d) = SubdirsIn(E, K, d)
BY DEF SubdirsIn, Sets

\* The kind of an inode without a name in d does not matter to d.
LEMMA SubdirKind ==
    ASSUME NEW E, NEW K, NEW L, NEW d, NEW x,
           \A n \in Names : E[d][n] # None => E[d][n] \in Inodes,
           \A n \in Names : E[d][n] # x,
           \A i \in Inodes : i # x => L[i] = K[i]
    PROVE  SubdirsIn(E, L, d) = SubdirsIn(E, K, d)
BY DEF SubdirsIn

\* The same for a step.
LEMMA SubdirKindStep ==
    ASSUME DbTypes, NEW x, NEW d \in Inodes,
           \A n \in Names : entries[d][n] # x,
           \A i \in Inodes : i # x => kind'[i] = kind[i]
    PROVE  SubdirsIn(entries, kind', d) = SubdirsIn(entries, kind, d)
<1>1. \A n \in Names : entries[d][n] # None => entries[d][n] \in Inodes
  BY DEF DbTypes
<1>2. \A n \in Names : entries[d][n] # None => kind'[entries[d][n]] = kind[entries[d][n]]
  BY <1>1
<1>. QED  BY <1>2 DEF SubdirsIn

-----------------------------------------------------------------------------
(* Acyclicity of a given table, and what keeps it.                          *)

AcyclicIn(E) ==
    \A S \in SUBSET Inodes :
        (\A c \in S : \E p \in S, n \in Names : E[p][n] = c) => S = {}

\* Acyclic is a matter of the table alone, before and after a step.
LEMMA AcyclicIsAcyclicIn == Acyclic <=> AcyclicIn(entries)
<1>1. \A S \in SUBSET Inodes : \A c \in S :
          ParentsOf(c) \cap S # {} <=> \E p \in S, n \in Names : entries[p][n] = c
  BY DEF ParentsOf
<1>. QED  BY <1>1, ZenonT(60) DEF Acyclic, AcyclicIn

LEMMA AcyclicIsAcyclicInNext == Acyclic' <=> AcyclicIn(entries')
<1>1. \A S \in SUBSET Inodes : \A c \in S :
          ParentsOf(c)' \cap S # {} <=> \E p \in S, n \in Names : entries'[p][n] = c
  BY DEF ParentsOf
<1>. QED  BY <1>1, ZenonT(60) DEF Acyclic, AcyclicIn

\* Entries for x alone are added, and x has no entries of its own.
LEMMA AcyclicLeaf ==
    ASSUME NEW E \in Tables, NEW F \in Tables, NEW x, AcyclicIn(E),
           \A c \in Inodes \ {x}, p \in Inodes, n \in Names : F[p][n] = c => E[p][n] = c,
           \A n \in Names, c \in Inodes : F[x][n] # c
    PROVE  AcyclicIn(F)
<1> SUFFICES ASSUME NEW S \in SUBSET Inodes,
                    \A c \in S : \E p \in S, n \in Names : F[p][n] = c
             PROVE  S = {}
  BY DEF AcyclicIn
<1> DEFINE T == S \ {x}
<1>1. \A c \in S : \E p \in T, n \in Names : F[p][n] = c
  OBVIOUS
<1>2. \A c \in T : \E p \in T, n \in Names : E[p][n] = c
  BY <1>1
<1>3. T \in SUBSET Inodes
  OBVIOUS
<1> HIDE DEF T
<1>4. T = {}
  BY <1>2, <1>3 DEF AcyclicIn
<1>. QED  BY <1>1, <1>4

\* The same for a step.
LEMMA AcyclicLeafStep ==
    ASSUME DbTypes, DbTypes', NEW x, Acyclic,
           \A c \in Inodes \ {x}, p \in Inodes, n \in Names :
               entries'[p][n] = c => entries[p][n] = c,
           \A n \in Names, c \in Inodes : entries'[x][n] # c
    PROVE  Acyclic'
<1>1. entries \in Tables /\ entries' \in Tables
  BY DEF DbTypes, Tables
<1>2. AcyclicIn(entries)
  BY AcyclicIsAcyclicIn
<1>3. AcyclicIn(entries')
  BY <1>1, <1>2, AcyclicLeaf
<1>. QED  BY <1>3, AcyclicIsAcyclicInNext

\* s gets the only parent q, and s is not met going up from q: A holds q and
\* whatever is met on the way.
LEMMA AcyclicMove ==
    ASSUME NEW E \in Tables, NEW F \in Tables, NEW s, NEW q \in Inodes, NEW A,
           AcyclicIn(E), q \in A, s \notin A,
           \A c \in A, p \in Inodes, n \in Names : E[p][n] = c => p \in A,
           \A c \in Inodes \ {s}, p \in Inodes, n \in Names : F[p][n] = c => E[p][n] = c,
           \A p \in Inodes, n \in Names : F[p][n] = s => p = q
    PROVE  AcyclicIn(F)
<1> SUFFICES ASSUME NEW S \in SUBSET Inodes,
                    \A c \in S : \E p \in S, n \in Names : F[p][n] = c
             PROVE  S = {}
  BY DEF AcyclicIn
<1>1. CASE s \notin S
  <2>1. \A c \in S : \E p \in S, n \in Names : E[p][n] = c
    BY <1>1
  <2>. QED  BY <2>1 DEF AcyclicIn
<1>2. CASE s \in S
  <2> DEFINE T == S \cap A
  <2>1. q \in T
    BY <1>2
  <2>2. ASSUME NEW c \in T
        PROVE  \E p \in T, n \in Names : E[p][n] = c
    <3>1. PICK p \in S, n \in Names : F[p][n] = c
      OBVIOUS
    <3>2. E[p][n] = c
      BY <3>1
    <3>. QED  BY <3>2
  <2>3. T \in SUBSET Inodes
    OBVIOUS
  <2>4. T = {}
    BY <2>2, <2>3 DEF AcyclicIn
  <2>. QED  BY <2>1, <2>4
<1>. QED  BY <1>1, <1>2

\* The root's number is in range.
LEMMA RootInode == ROOT_INODE \in Inodes
BY BoundsAssumption DEF ROOT_INODE, Inodes

\* What a path leads to is the root or has a name.
LEMMA ResolvableNamed ==
    ASSUME DbInv, NEW i \in Inodes, Resolvable(i)
    PROVE  i = ROOT_INODE \/ Named(i)
<1> DEFINE S == {j \in Inodes : j = ROOT_INODE \/ Named(j)}
<1>1. S \in SUBSET Inodes /\ ROOT_INODE \in S
  BY BoundsAssumption DEF Inodes, ROOT_INODE
<1>2. \A p \in S, n \in Names : entries[p][n] # None => entries[p][n] \in S
  BY DEF Named, DbInv, DbTypes
<1>3. i \in S
  BY <1>1, <1>2 DEF Resolvable
<1>. QED  BY <1>3

-----------------------------------------------------------------------------
(* The tables under each operation.                                        *)

\* mkdir, create and symlink: a fresh inode x of kind k under a free name.
LEMMA InsertKeepsDb ==
    ASSUME DbInv, DbTypes', NEW k \in {"file", "dir", "symlink"},
           NEW p \in Inodes, NEW n \in Names, NEW x \in Inodes,
           ResolvesParent(p), entries[p][n] = None,
           x = nextInode, nextInode' = x + 1,
           Sets(entries, entries', p, n, x),
           \A i \in Inodes : kind'[i] = IF i = x THEN k ELSE kind[i],
           \A i \in Inodes : nlink'[i] = IF i = x THEN InitialNlink(k)
                                         ELSE IF i = p /\ k = "dir" THEN nlink[i] + 1
                                         ELSE nlink[i]
    PROVE  DbInv'
<1>0. /\ DbTypes /\ Rows /\ EntriesLive /\ OneNamePerDir /\ Occupied /\ Acyclic
      /\ FileNlinkExact /\ DirNlink
  BY DEF DbInv
<1>1. kind[x] = "none" /\ kind[p] = "dir" /\ x # p /\ x # ROOT_INODE
  <2>1. kind[x] = "none"
    BY <1>0 DEF Rows, Inodes
  <2>. QED  BY <1>0, <2>1 DEF Rows, ResolvesParent
<1>2. /\ \A q \in Inodes, m \in Names : entries[q][m] # x
      /\ \A m \in Names : entries[x][m] = None
  BY <1>0, <1>1 DEF EntriesLive, None, Inodes
<1>3. \A q \in Inodes, m \in Names :
          entries'[q][m] = IF q = p /\ m = n THEN x ELSE entries[q][m]
  BY DEF Sets
<1>5. Rows'
  BY <1>0, <1>1, RootInode DEF Rows, DbTypes, Inodes
<1>6. EntriesLive'
  <2> SUFFICES ASSUME NEW q \in Inodes, NEW m \in Names, entries'[q][m] # None
               PROVE  kind'[q] = "dir" /\ entries'[q][m] # ROOT_INODE
                      /\ kind'[entries'[q][m]] # "none"
    BY DEF EntriesLive
  <2>1. entries'[q][m] \in Inodes /\ entries[q][m] \in Inodes \cup {None}
    BY <1>0 DEF DbTypes
  <2>. QED  BY <1>0, <1>1, <1>3, <2>1 DEF EntriesLive
<1>7. OneNamePerDir'
  BY <1>0, <1>1, <1>2, <1>3 DEF OneNamePerDir
<1>8. Occupied'
  <2>1. p = ROOT_INODE \/ Named(p)
    BY ResolvableNamed DEF ResolvesParent
  <2>2. \A i \in Inodes : Named(i) => Named(i)'
    BY <1>2, <1>3 DEF Named, Inodes, None
  <2>. QED  BY <1>0, <2>1, <2>2, <1>3 DEF Occupied
<1>9. Acyclic'
  <2>1. \A c \in Inodes \ {x}, q \in Inodes, m \in Names :
            entries'[q][m] = c => entries[q][m] = c
    BY <1>3
  <2>2. \A m \in Names, c \in Inodes : entries'[x][m] # c
    BY <1>1, <1>2, <1>3 DEF Inodes, None
  <2>. QED  BY <1>0, <2>1, <2>2, AcyclicLeafStep
<1>10. FileNlinkExact'
  <2> SUFFICES ASSUME NEW i \in Inodes, kind'[i] \in {"file", "symlink"}
               PROVE  nlink'[i] = Cardinality(LinksIn(entries', i))
    BY DEF FileNlinkExact, Links, LinksIn
  <2>1. Cardinality(LinksIn(entries', i))
           = Cardinality(LinksIn(entries, i)) + (IF x = i THEN 1 ELSE 0)
                                              - (IF entries[p][n] = i THEN 1 ELSE 0)
    BY LinkCount
  <2>2. entries[p][n] # i
    BY DEF None, Inodes
  <2>3. CASE i = x
    <3>1. LinksIn(entries, i) = {}
      BY <1>2, <2>3 DEF LinksIn
    <3>2. Cardinality(LinksIn(entries, i)) = 0
      BY <3>1, FS_EmptySet
    <3>3. nlink'[i] = 1
      BY <1>3, <2>3 DEF InitialNlink
    <3>. QED  BY <2>1, <2>2, <2>3, <3>2, <3>3
  <2>4. CASE i # x
    <3>1. nlink'[i] = nlink[i]
      BY <1>1, <1>3, <2>4
    <3>2. nlink[i] = Cardinality(LinksIn(entries, i))
      BY <1>0, <1>3, <2>4 DEF FileNlinkExact, Links, LinksIn
    <3>3. nlink[i] \in Int
      BY <1>0 DEF DbTypes
    <3>. QED  BY <2>1, <2>2, <2>4, <3>1, <3>2, <3>3
  <2>. QED  BY <2>3, <2>4
<1>11. DirNlink'
  <2> SUFFICES ASSUME NEW d \in Inodes, kind'[d] = "dir"
               PROVE  /\ nlink'[d] >= 1
                      /\ d = ROOT_INODE \/ Named(d)' =>
                            nlink'[d] >= 2 + Cardinality(SubdirsIn(entries', kind', d))
    BY DEF DirNlink, Subdirs, SubdirsIn
  <2>1. SubdirsIn(entries, kind', d) = SubdirsIn(entries, kind, d)
    <3>1. \A i \in Inodes : i # x => kind'[i] = kind[i]
      BY <1>3
    <3>. QED  BY <1>0, <1>2, <3>1, SubdirKindStep
  <2>2. /\ Cardinality(SubdirsIn(entries', kind', p))
             = Cardinality(SubdirsIn(entries, kind', p))
               + (IF x # None /\ kind'[x] = "dir" THEN 1 ELSE 0)
               - (IF entries[p][n] # None /\ kind'[entries[p][n]] = "dir" THEN 1 ELSE 0)
        /\ d # p => SubdirsIn(entries', kind', d) = SubdirsIn(entries, kind', d)
    BY SubdirCount, SubdirsElsewhere
  <2>3. Cardinality(SubdirsIn(entries, kind, d)) \in Nat
    BY SubdirsFinite
  <2>4. CASE d = x
    <3>1. SubdirsIn(entries, kind', d) = {}
      BY <1>2, <2>4 DEF SubdirsIn
    <3>2. Cardinality(SubdirsIn(entries', kind', d)) = 0
      BY <1>1, <2>2, <2>4, <3>1, FS_EmptySet
    <3>3. nlink'[d] = 2
      BY <1>1, <1>3, <2>4 DEF InitialNlink
    <3>. QED  BY <3>2, <3>3
  <2>5. CASE d = p
    <3>1. nlink[p] >= 2 + Cardinality(SubdirsIn(entries, kind, p))
      BY <1>0, <1>1, ResolvableNamed DEF ResolvesParent, DirNlink, Subdirs, SubdirsIn
    <3>2. Cardinality(SubdirsIn(entries', kind', p))
             = Cardinality(SubdirsIn(entries, kind, p)) + (IF k = "dir" THEN 1 ELSE 0)
      BY <1>1, <1>3, <2>1, <2>2, <2>3, <2>5 DEF None, Inodes
    <3>3. nlink'[p] = nlink[p] + (IF k = "dir" THEN 1 ELSE 0) /\ nlink[p] \in Int
      BY <1>0, <1>1, <1>3 DEF DbTypes
    <3>. QED  BY <2>3, <2>5, <3>1, <3>2, <3>3
  <2>6. CASE d # x /\ d # p
    <3>1. nlink'[d] = nlink[d] /\ kind[d] = "dir"
      BY <1>3, <2>6
    <3>2. Named(d)' => Named(d)
      BY <1>3, <2>6 DEF Named
    <3>. QED  BY <1>0, <2>1, <2>2, <2>6, <3>1, <3>2 DEF DirNlink, Subdirs, SubdirsIn
  <2>. QED  BY <2>4, <2>5, <2>6
<1>. QED  BY <1>5, <1>6, <1>7, <1>8, <1>9, <1>10, <1>11 DEF DbInv

\* An entry for i is an element of Links(i).
LEMMA LinksNamed ==
    ASSUME NEW i \in Inodes, Cardinality(LinksIn(entries, i)) = 0
    PROVE  ~ Named(i)
<1>1. LinksIn(entries, i) = {}
  BY LinksFinite, FS_EmptySet
<1>2. ASSUME NEW p \in Inodes, NEW n \in Names, entries[p][n] = i
      PROVE  FALSE
  <2>1. <<p, n>> \in LinksIn(entries, i)
    BY <1>2 DEF LinksIn
  <2>. QED  BY <1>1, <2>1
<1>. QED  BY <1>2 DEF Named

\* link: one more name for t, which is not a directory.
LEMMA LinkKeepsDb ==
    ASSUME DbInv, DbTypes', NEW p \in Inodes, NEW n \in Names, NEW t \in Inodes,
           ResolvesParent(p), entries[p][n] = None, Named(t), kind[t] # "dir",
           Sets(entries, entries', p, n, t),
           \A i \in Inodes : nlink'[i] = IF i = t THEN nlink[i] + 1 ELSE nlink[i],
           kind' = kind, nextInode' = nextInode
    PROVE  DbInv'
<1>0. /\ DbTypes /\ Rows /\ EntriesLive /\ OneNamePerDir /\ Occupied /\ Acyclic
      /\ FileNlinkExact /\ DirNlink
  BY DEF DbInv
<1>1. /\ kind[p] = "dir" /\ t # p /\ t # ROOT_INODE /\ kind[t] # "none"
      /\ \A m \in Names : entries[t][m] = None
  BY <1>0 DEF EntriesLive, Named, ResolvesParent, None, Inodes
<1>2. \A q \in Inodes, m \in Names :
          entries'[q][m] = IF q = p /\ m = n THEN t ELSE entries[q][m]
  BY DEF Sets
<1>3. Rows'
  BY <1>0, <1>1 DEF Rows
<1>4. EntriesLive'
  BY <1>0, <1>1, <1>2 DEF EntriesLive
<1>5. OneNamePerDir'
  BY <1>0, <1>2 DEF OneNamePerDir
<1>6. \A i \in Inodes : Named(i)' <=> Named(i)
  <2>1. \A i \in Inodes : Named(i)' => Named(i)
    BY <1>2 DEF Named
  <2>2. \A i \in Inodes : Named(i) => Named(i)'
    BY <1>2 DEF Named, None, Inodes
  <2>. QED  BY <2>1, <2>2
<1>7. Occupied'
  <2>1. p = ROOT_INODE \/ Named(p)
    BY ResolvableNamed DEF ResolvesParent
  <2>. QED  BY <1>0, <1>2, <1>6, <2>1 DEF Occupied
<1>8. Acyclic'
  <2>1. \A c \in Inodes \ {t}, q \in Inodes, m \in Names :
            entries'[q][m] = c => entries[q][m] = c
    BY <1>2
  <2>2. \A m \in Names, c \in Inodes : entries'[t][m] # c
    BY <1>1, <1>2 DEF Inodes, None
  <2>. QED  BY <1>0, <2>1, <2>2, AcyclicLeafStep
<1>9. FileNlinkExact'
  <2> SUFFICES ASSUME NEW i \in Inodes, kind'[i] \in {"file", "symlink"}
               PROVE  nlink'[i] = Cardinality(LinksIn(entries', i))
    BY DEF FileNlinkExact, Links, LinksIn
  <2>1. Cardinality(LinksIn(entries', i))
           = Cardinality(LinksIn(entries, i)) + (IF t = i THEN 1 ELSE 0)
                                              - (IF entries[p][n] = i THEN 1 ELSE 0)
    BY LinkCount
  <2>2. entries[p][n] # i
    BY DEF None, Inodes
  <2>3. nlink[i] = Cardinality(LinksIn(entries, i)) /\ nlink[i] \in Int
    BY <1>0 DEF FileNlinkExact, Links, LinksIn, DbTypes
  <2>. QED  BY <2>1, <2>2, <2>3
<1>10. DirNlink'
  <2> SUFFICES ASSUME NEW d \in Inodes, kind[d] = "dir"
               PROVE  /\ nlink'[d] >= 1
                      /\ d = ROOT_INODE \/ Named(d)' =>
                            nlink'[d] >= 2 + Cardinality(SubdirsIn(entries', kind, d))
    BY DEF DirNlink, Subdirs, SubdirsIn
  <2>1. SubdirsIn(entries', kind, d) = SubdirsIn(entries, kind, d)
    BY <1>2 DEF SubdirsIn
  <2>2. nlink'[d] = nlink[d]
    OBVIOUS
  <2>. QED  BY <1>0, <1>6, <2>1, <2>2 DEF DirNlink, Subdirs, SubdirsIn
<1>. QED  BY <1>3, <1>4, <1>5, <1>7, <1>8, <1>9, <1>10 DEF DbInv

\* unlink: one name less for i, which is not a directory.
LEMMA UnlinkKeepsDb ==
    ASSUME DbInv, DbTypes', NEW p \in Inodes, NEW n \in Names, NEW i \in Inodes,
           entries[p][n] = i, kind[i] # "dir",
           Sets(entries, entries', p, n, None),
           \A j \in Inodes : nlink'[j] = IF j = i THEN nlink[j] - 1 ELSE nlink[j],
           kind' = kind, nextInode' = nextInode
    PROVE  DbInv'
<1>0. /\ DbTypes /\ Rows /\ EntriesLive /\ OneNamePerDir /\ Occupied /\ Acyclic
      /\ FileNlinkExact /\ DirNlink
  BY DEF DbInv
<1>1. /\ kind[p] = "dir" /\ i # p /\ i # ROOT_INODE /\ kind[i] # "none" /\ i # None
      /\ \A m \in Names : entries[i][m] = None
  BY <1>0 DEF EntriesLive, None, Inodes
<1>2. \A q \in Inodes, m \in Names :
          entries'[q][m] = IF q = p /\ m = n THEN None ELSE entries[q][m]
  BY DEF Sets
<1>3. Rows'
  BY <1>0, <1>1 DEF Rows
<1>4. EntriesLive'
  BY <1>0, <1>1, <1>2 DEF EntriesLive
<1>5. OneNamePerDir'
  BY <1>0, <1>2 DEF OneNamePerDir, None, Inodes
<1>6. \A j \in Inodes : j # i => (Named(j)' <=> Named(j))
  <2>1. \A j \in Inodes : j # i => (Named(j)' => Named(j))
    BY <1>2 DEF Named, None, Inodes
  <2>2. \A j \in Inodes : j # i => (Named(j) => Named(j)')
    BY <1>2 DEF Named
  <2>. QED  BY <2>1, <2>2
<1>7. Occupied'
  BY <1>0, <1>1, <1>2, <1>6 DEF Occupied
<1>8. Acyclic'
  <2>1. \A c \in Inodes \ {i}, q \in Inodes, m \in Names :
            entries'[q][m] = c => entries[q][m] = c
    BY <1>2 DEF None, Inodes
  <2>2. \A m \in Names, c \in Inodes : entries'[i][m] # c
    BY <1>1, <1>2 DEF Inodes, None
  <2>. QED  BY <1>0, <2>1, <2>2, AcyclicLeafStep
<1>9. FileNlinkExact'
  <2> SUFFICES ASSUME NEW j \in Inodes, kind'[j] \in {"file", "symlink"}
               PROVE  nlink'[j] = Cardinality(LinksIn(entries', j))
    BY DEF FileNlinkExact, Links, LinksIn
  <2>1. Cardinality(LinksIn(entries', j))
           = Cardinality(LinksIn(entries, j)) + (IF None = j THEN 1 ELSE 0)
                                              - (IF entries[p][n] = j THEN 1 ELSE 0)
    BY LinkCount
  <2>2. None # j
    BY DEF None, Inodes
  <2>3. nlink[j] = Cardinality(LinksIn(entries, j)) /\ nlink[j] \in Int
    BY <1>0 DEF FileNlinkExact, Links, LinksIn, DbTypes
  <2>. QED  BY <2>1, <2>2, <2>3
<1>10. DirNlink'
  <2> SUFFICES ASSUME NEW d \in Inodes, kind[d] = "dir"
               PROVE  /\ nlink'[d] >= 1
                      /\ d = ROOT_INODE \/ Named(d)' =>
                            nlink'[d] >= 2 + Cardinality(SubdirsIn(entries', kind, d))
    BY DEF DirNlink, Subdirs, SubdirsIn
  <2>1. SubdirsIn(entries', kind, d) = SubdirsIn(entries, kind, d)
    BY <1>1, <1>2 DEF SubdirsIn
  <2>2. nlink'[d] = nlink[d] /\ d # i
    OBVIOUS
  <2>. QED  BY <1>0, <1>6, <2>1, <2>2 DEF DirNlink, Subdirs, SubdirsIn
<1>. QED  BY <1>3, <1>4, <1>5, <1>7, <1>8, <1>9, <1>10 DEF DbInv

\* rmdir: the empty directory d loses its name and its row.
LEMMA RmdirKeepsDb ==
    ASSUME DbInv, DbTypes', NEW p \in Inodes, NEW n \in Names, NEW d \in Inodes,
           ResolvesParent(p), entries[p][n] = d, kind[d] = "dir", IsEmpty(d),
           Sets(entries, entries', p, n, None),
           \A j \in Inodes : nlink'[j] = IF j = d THEN 0
                                         ELSE IF j = p THEN nlink[j] - 1 ELSE nlink[j],
           \A j \in Inodes : kind'[j] = IF j = d THEN "none" ELSE kind[j],
           nextInode' = nextInode
    PROVE  DbInv'
<1>0. /\ DbTypes /\ Rows /\ EntriesLive /\ OneNamePerDir /\ Occupied /\ Acyclic
      /\ FileNlinkExact /\ DirNlink
  BY DEF DbInv
<1>1. /\ kind[p] = "dir" /\ d # ROOT_INODE /\ d # None
      /\ \A m \in Names : entries[d][m] = None
  BY <1>0 DEF EntriesLive, ResolvesParent, IsEmpty, NoListing, None, Inodes
<1>2. d # p
  BY <1>1
<1>3. \A q \in Inodes, m \in Names :
          entries'[q][m] = IF q = p /\ m = n THEN None ELSE entries[q][m]
  BY DEF Sets
<1>4. \A q \in Inodes, m \in Names : entries'[q][m] # d
  BY <1>0, <1>1, <1>3 DEF OneNamePerDir
<1>5. Rows'
  BY <1>0, <1>1, <1>2, RootInode DEF Rows
<1>6. EntriesLive'
  <2> SUFFICES ASSUME NEW q \in Inodes, NEW m \in Names, entries'[q][m] # None
               PROVE  kind'[q] = "dir" /\ entries'[q][m] # ROOT_INODE
                      /\ kind'[entries'[q][m]] # "none"
    BY DEF EntriesLive
  <2>1. entries'[q][m] = entries[q][m] /\ entries[q][m] \in Inodes /\ q # d
    BY <1>0, <1>1, <1>3 DEF DbTypes
  <2>. QED  BY <1>0, <1>4, <2>1 DEF EntriesLive
<1>7. OneNamePerDir'
  <2>1. \A q \in Inodes, m \in Names, c \in Inodes :
            entries'[q][m] = c => entries[q][m] = c
    BY <1>3 DEF None, Inodes
  <2>2. \A c \in Inodes : kind'[c] = "dir" => kind[c] = "dir"
    OBVIOUS
  <2>. QED  BY <1>0, <2>1, <2>2 DEF OneNamePerDir
<1>8. \A j \in Inodes : j # d => (Named(j)' <=> Named(j))
  <2>1. \A j \in Inodes : j # d => (Named(j)' => Named(j))
    BY <1>3 DEF Named, None, Inodes
  <2>2. \A j \in Inodes : j # d => (Named(j) => Named(j)')
    BY <1>3 DEF Named
  <2>. QED  BY <2>1, <2>2
<1>9. Occupied'
  BY <1>0, <1>1, <1>3, <1>8 DEF Occupied
<1>10. Acyclic'
  <2>1. \A c \in Inodes \ {d}, q \in Inodes, m \in Names :
            entries'[q][m] = c => entries[q][m] = c
    BY <1>3 DEF None, Inodes
  <2>2. \A m \in Names, c \in Inodes : entries'[d][m] # c
    BY <1>1, <1>3 DEF Inodes, None
  <2>. QED  BY <1>0, <2>1, <2>2, AcyclicLeafStep
<1>11. FileNlinkExact'
  <2> SUFFICES ASSUME NEW j \in Inodes, kind'[j] \in {"file", "symlink"}
               PROVE  nlink'[j] = Cardinality(LinksIn(entries', j))
    BY DEF FileNlinkExact, Links, LinksIn
  <2>0. j # d /\ j # p
    BY <1>1
  <2>1. LinksIn(entries', j) = LinksIn(entries, j)
    <3>1. \A q \in Inodes, m \in Names : entries'[q][m] = j <=> entries[q][m] = j
      BY <1>3, <2>0 DEF None, Inodes
    <3>. QED  BY <3>1 DEF LinksIn
  <2>2. nlink[j] = Cardinality(LinksIn(entries, j))
    BY <1>0, <2>0 DEF FileNlinkExact, Links, LinksIn
  <2>. QED  BY <2>0, <2>1, <2>2
<1>12. DirNlink'
  <2> SUFFICES ASSUME NEW c \in Inodes, kind'[c] = "dir"
               PROVE  /\ nlink'[c] >= 1
                      /\ c = ROOT_INODE \/ Named(c)' =>
                            nlink'[c] >= 2 + Cardinality(SubdirsIn(entries', kind', c))
    BY DEF DirNlink, Subdirs, SubdirsIn
  <2>0. c # d /\ kind[c] = "dir"
    OBVIOUS
  <2>1. SubdirsIn(entries', kind', c) = SubdirsIn(entries', kind, c)
    <3>1. \A m \in Names : entries'[c][m] # None => entries'[c][m] \in Inodes
      BY DEF DbTypes
    <3>2. \A m \in Names : entries'[c][m] # None
                             => kind'[entries'[c][m]] = kind[entries'[c][m]]
      BY <1>4, <3>1
    <3>. QED  BY <3>2 DEF SubdirsIn
  <2>2. CASE c = p
    <3>1. Cardinality(SubdirsIn(entries', kind, p))
              = Cardinality(SubdirsIn(entries, kind, p))
                + (IF None # None /\ kind[None] = "dir" THEN 1 ELSE 0)
                - (IF entries[p][n] # None /\ kind[entries[p][n]] = "dir" THEN 1 ELSE 0)
      BY SubdirCount
    <3>2. Cardinality(SubdirsIn(entries, kind, p)) \in Nat
      BY SubdirsFinite
    <3>3. Cardinality(SubdirsIn(entries', kind, p))
              = Cardinality(SubdirsIn(entries, kind, p)) - 1
      BY <1>1, <3>1, <3>2
    <3>4. nlink[p] >= 2 + Cardinality(SubdirsIn(entries, kind, p))
      BY <1>0, <1>1, ResolvableNamed DEF ResolvesParent, DirNlink, Subdirs, SubdirsIn
    <3>5. nlink'[p] = nlink[p] - 1 /\ nlink[p] \in Int
      BY <1>0, <1>2 DEF DbTypes
    <3>. QED  BY <2>1, <2>2, <3>2, <3>3, <3>4, <3>5
  <2>3. CASE c # p
    <3>1. SubdirsIn(entries', kind, c) = SubdirsIn(entries, kind, c)
      BY <2>3, SubdirsElsewhere
    <3>2. nlink'[c] = nlink[c]
      BY <2>0, <2>3
    <3>. QED  BY <1>0, <1>8, <2>0, <2>1, <3>1, <3>2 DEF DirNlink, Subdirs, SubdirsIn
  <2>. QED  BY <2>2, <2>3
<1>. QED  BY <1>5, <1>6, <1>7, <1>9, <1>10, <1>11, <1>12 DEF DbInv

\* The delete that ends unlink and close_fd: x has no name left.
LEMMA ReclaimKeepsDb ==
    ASSUME DbInv, DbTypes', NEW x \in Inodes,
           kind[x] \in {"file", "symlink"}, nlink[x] = 0,
           \A j \in Inodes : nlink'[j] = nlink[j],
           \A j \in Inodes : kind'[j] = IF j = x THEN "none" ELSE kind[j],
           entries' = entries, nextInode' = nextInode
    PROVE  DbInv'
<1>0. /\ DbTypes /\ Rows /\ EntriesLive /\ OneNamePerDir /\ Occupied /\ Acyclic
      /\ FileNlinkExact /\ DirNlink
  BY DEF DbInv
<1>1. ~ Named(x)
  <2>1. Cardinality(LinksIn(entries, x)) = 0
    BY <1>0 DEF FileNlinkExact, Links, LinksIn
  <2>. QED  BY <2>1, LinksNamed
<1>2. \A q \in Inodes, m \in Names : entries[q][m] # x
  BY <1>1 DEF Named
<1>3. Rows'
  BY <1>0, RootInode DEF Rows
<1>4. EntriesLive'
  <2> SUFFICES ASSUME NEW q \in Inodes, NEW m \in Names, entries[q][m] # None
               PROVE  kind'[q] = "dir" /\ entries[q][m] # ROOT_INODE
                      /\ kind'[entries[q][m]] # "none"
    BY DEF EntriesLive
  <2>1. entries[q][m] \in Inodes
    BY <1>0 DEF DbTypes
  <2>. QED  BY <1>0, <1>2, <2>1 DEF EntriesLive
<1>5. OneNamePerDir'
  <2>1. \A c \in Inodes : kind'[c] = "dir" => kind[c] = "dir"
    OBVIOUS
  <2>. QED  BY <1>0, <2>1 DEF OneNamePerDir
<1>6. Occupied' /\ Acyclic'
  <2>1. \A i \in Inodes : Named(i)' <=> Named(i)
    BY DEF Named
  <2>2. Occupied'
    BY <1>0, <2>1 DEF Occupied
  <2>3. Acyclic'
    BY <1>0, AcyclicIsAcyclicIn, AcyclicIsAcyclicInNext
  <2>. QED  BY <2>2, <2>3
<1>7. FileNlinkExact'
  BY <1>0 DEF FileNlinkExact, Links
<1>8. DirNlink'
  <2> SUFFICES ASSUME NEW c \in Inodes, kind'[c] = "dir"
               PROVE  /\ nlink'[c] >= 1
                      /\ c = ROOT_INODE \/ Named(c)' =>
                            nlink'[c] >= 2 + Cardinality(SubdirsIn(entries, kind', c))
    BY DEF DirNlink, Subdirs, SubdirsIn
  <2>1. SubdirsIn(entries, kind', c) = SubdirsIn(entries, kind, c)
    BY <1>0, <1>2, SubdirKindStep
  <2>2. kind[c] = "dir" /\ nlink'[c] = nlink[c] /\ (Named(c)' <=> Named(c))
    BY DEF Named
  <2>. QED  BY <1>0, <2>1, <2>2 DEF DirNlink, Subdirs, SubdirsIn
<1>. QED  BY <1>3, <1>4, <1>5, <1>6, <1>7, <1>8 DEF DbInv

-----------------------------------------------------------------------------
(* rename, which moves the entry (sp, sn) to (dp, dn).                     *)

Renamed(sp, sn, dp, dn) ==
    /\ ~ (sp = dp /\ sn = dn)
    /\ \A q \in Inodes, m \in Names :
          entries'[q][m] = IF q = dp /\ m = dn THEN entries[sp][sn]
                           ELSE IF q = sp /\ m = sn THEN None
                           ELSE entries[q][m]

\* The table with (sp, sn) cleared, between the two changes.
Cleared(sp, sn) ==
    [q \in Inodes |-> [m \in Names |-> IF q = sp /\ m = sn THEN None ELSE entries[q][m]]]

\* A rename is two changes of one entry each.
LEMMA RenamedSets ==
    ASSUME NEW sp \in Inodes, NEW sn \in Names, NEW dp \in Inodes, NEW dn \in Names,
           Renamed(sp, sn, dp, dn)
    PROVE  /\ Sets(entries, Cleared(sp, sn), sp, sn, None)
           /\ Sets(Cleared(sp, sn), entries', dp, dn, entries[sp][sn])
           /\ Cleared(sp, sn)[dp][dn] = entries[dp][dn]
BY DEF Renamed, Cleared, Sets

\* The entry overwritten is the only link that a rename takes away.
LEMMA RenameLinks ==
    ASSUME NEW sp \in Inodes, NEW sn \in Names, NEW dp \in Inodes, NEW dn \in Names,
           Renamed(sp, sn, dp, dn), NEW i \in Inodes
    PROVE  Cardinality(LinksIn(entries', i))
              = Cardinality(LinksIn(entries, i)) - (IF entries[dp][dn] = i THEN 1 ELSE 0)
<1> DEFINE s == entries[sp][sn]
           M == Cleared(sp, sn)
<1>1. /\ Sets(entries, M, sp, sn, None) /\ Sets(M, entries', dp, dn, s)
      /\ M[dp][dn] = entries[dp][dn]
  BY RenamedSets
<1>2. None # i
  BY DEF None, Inodes
<1>3. Cardinality(LinksIn(entries, i)) \in Nat
  BY LinksFinite
<1> HIDE DEF M
<1>4. Cardinality(LinksIn(M, i)) = Cardinality(LinksIn(entries, i))
            + (IF None = i THEN 1 ELSE 0) - (IF entries[sp][sn] = i THEN 1 ELSE 0)
  BY <1>1, LinkCount
<1>5. Cardinality(LinksIn(entries', i)) = Cardinality(LinksIn(M, i))
            + (IF s = i THEN 1 ELSE 0) - (IF M[dp][dn] = i THEN 1 ELSE 0)
  <2> HIDE DEF s
  <2>. QED  BY <1>1, LinkCount
<1>. QED  BY <1>1, <1>2, <1>3, <1>4, <1>5

\* The subdirectories that a rename takes from sp and gives to dp.
LEMMA RenameSubdirs ==
    ASSUME NEW sp \in Inodes, NEW sn \in Names, NEW dp \in Inodes, NEW dn \in Names,
           Renamed(sp, sn, dp, dn), NEW c \in Inodes, entries[sp][sn] # None
    PROVE  Cardinality(SubdirsIn(entries', kind, c))
              = Cardinality(SubdirsIn(entries, kind, c))
                - (IF c = sp /\ kind[entries[sp][sn]] = "dir" THEN 1 ELSE 0)
                + (IF c = dp /\ kind[entries[sp][sn]] = "dir" THEN 1 ELSE 0)
                - (IF c = dp /\ entries[dp][dn] # None /\ kind[entries[dp][dn]] = "dir"
                   THEN 1 ELSE 0)
<1> DEFINE s == entries[sp][sn]
           M == Cleared(sp, sn)
<1>1. /\ Sets(entries, M, sp, sn, None) /\ Sets(M, entries', dp, dn, s)
      /\ M[dp][dn] = entries[dp][dn]
  BY RenamedSets
<1>3. Cardinality(SubdirsIn(entries, kind, c)) \in Nat
  BY SubdirsFinite
<1> HIDE DEF M
<1>4. Cardinality(SubdirsIn(M, kind, c)) = Cardinality(SubdirsIn(entries, kind, c))
            - (IF c = sp /\ kind[s] = "dir" THEN 1 ELSE 0)
  <2>1. CASE c = sp
    <3>1. Cardinality(SubdirsIn(M, kind, sp)) = Cardinality(SubdirsIn(entries, kind, sp))
             + (IF None # None /\ kind[None] = "dir" THEN 1 ELSE 0)
             - (IF entries[sp][sn] # None /\ kind[entries[sp][sn]] = "dir" THEN 1 ELSE 0)
      BY <1>1, SubdirCount
    <3>. QED  BY <1>3, <2>1, <3>1
  <2>2. CASE c # sp
    <3>1. SubdirsIn(M, kind, c) = SubdirsIn(entries, kind, c)
      BY <1>1, <2>2, SubdirsElsewhere
    <3>. QED  BY <1>3, <2>2, <3>1
  <2>. QED  BY <2>1, <2>2
<1>5. Cardinality(SubdirsIn(M, kind, c)) \in Nat
  BY SubdirsFinite
<1>6. Cardinality(SubdirsIn(entries', kind, c)) = Cardinality(SubdirsIn(M, kind, c))
            + (IF c = dp /\ kind[s] = "dir" THEN 1 ELSE 0)
            - (IF c = dp /\ M[dp][dn] # None /\ kind[M[dp][dn]] = "dir" THEN 1 ELSE 0)
  <2>0. s # None
    OBVIOUS
  <2> HIDE DEF s
  <2>1. CASE c = dp
    <3>1. Cardinality(SubdirsIn(entries', kind, dp)) = Cardinality(SubdirsIn(M, kind, dp))
             + (IF s # None /\ kind[s] = "dir" THEN 1 ELSE 0)
             - (IF M[dp][dn] # None /\ kind[M[dp][dn]] = "dir" THEN 1 ELSE 0)
      BY <1>1, SubdirCount
    <3>. QED  BY <1>5, <2>0, <2>1, <3>1
  <2>2. CASE c # dp
    <3>1. SubdirsIn(entries', kind, c) = SubdirsIn(M, kind, c)
      BY <1>1, <2>2, SubdirsElsewhere
    <3>. QED  BY <1>5, <2>2, <3>1
  <2>. QED  BY <2>1, <2>2
<1>. QED  BY <1>1, <1>3, <1>4, <1>6

\* Ancestry(i) and i together hold the parents of their members.
LEMMA AncestryClosed ==
    ASSUME NEW i \in Inodes, NEW c \in Ancestry(i) \cup {i},
           NEW p \in Inodes, NEW n \in Names, entries[p][n] = c
    PROVE  p \in Ancestry(i)
<1> SUFFICES ASSUME NEW S \in SUBSET Inodes,
                    \A b \in S \cup {i} : ParentsOf(b) \subseteq S
             PROVE  p \in S
  BY DEF Ancestry
<1>1. c \in S \cup {i}
  BY DEF Ancestry
<1>2. p \in ParentsOf(c)
  BY DEF ParentsOf
<1>. QED  BY <1>1, <1>2

\* rename refuses what would close a cycle.
LEMMA RenameAcyclic ==
    ASSUME DbInv, DbTypes',
           NEW sp \in Inodes, NEW sn \in Names, NEW dp \in Inodes, NEW dn \in Names,
           Renamed(sp, sn, dp, dn), entries[sp][sn] # None, kind[dp] = "dir",
           RenameAllowed(entries[sp][sn], dp)
    PROVE  Acyclic'
<1> DEFINE s == entries[sp][sn]
<1>0. DbTypes /\ EntriesLive /\ OneNamePerDir /\ Acyclic /\ s \in Inodes
  BY DEF DbInv, DbTypes
<1>1. \A c \in Inodes \ {s}, q \in Inodes, m \in Names :
          entries'[q][m] = c => entries[q][m] = c
  BY DEF Renamed, None, Inodes
<1>2. CASE kind[s] = "dir"
  <2> DEFINE A == Ancestry(dp) \cup {dp}
  <2>1. s \notin A
    BY <1>2 DEF RenameAllowed
  <2>2. \A c \in A, q \in Inodes, m \in Names : entries[q][m] = c => q \in A
    BY AncestryClosed
  <2>3. \A q \in Inodes, m \in Names : entries'[q][m] = s => q = dp
    BY <1>0, <1>2 DEF Renamed, OneNamePerDir, None, Inodes
  <2>4. entries \in Tables /\ entries' \in Tables /\ dp \in A
    BY <1>0 DEF DbTypes, Tables
  <2>5. AcyclicIn(entries)
    BY <1>0, AcyclicIsAcyclicIn
  <2> HIDE DEF A, s
  <2>6. AcyclicIn(entries')
    BY <1>1, <2>1, <2>2, <2>3, <2>4, <2>5, AcyclicMove
  <2>. QED  BY <2>6, AcyclicIsAcyclicInNext
<1>3. CASE kind[s] # "dir"
  <2>1. \A m \in Names, c \in Inodes : entries'[s][m] # c
    BY <1>0, <1>3 DEF Renamed, EntriesLive, None, Inodes
  <2> HIDE DEF s
  <2>. QED  BY <1>0, <1>1, <2>1, AcyclicLeafStep
<1>. QED  BY <1>2, <1>3

\* A rename takes the last name of the overwritten inode only, and gives a
\* first name to none.
LEMMA RenameNamed ==
    ASSUME DbInv,
           NEW sp \in Inodes, NEW sn \in Names, NEW dp \in Inodes, NEW dn \in Names,
           Renamed(sp, sn, dp, dn)
    PROVE  /\ \A i \in Inodes : Named(i)' => Named(i)
           /\ \A i \in Inodes : i # entries[dp][dn] /\ Named(i) => Named(i)'
<1>1. \A q \in Inodes, m \in Names, i \in Inodes :
          entries'[q][m] = i => entries[q][m] = i \/ entries[sp][sn] = i
  BY DEF Renamed, None, Inodes
<1>2. ASSUME NEW i \in Inodes, Named(i)'
      PROVE  Named(i)
  <2>1. PICK q \in Inodes, m \in Names : entries'[q][m] = i
    BY <1>2 DEF Named
  <2>. QED  BY <1>1, <2>1 DEF Named
<1>3. ASSUME NEW i \in Inodes, i # entries[dp][dn], Named(i)
      PROVE  Named(i)'
  <2>1. PICK q \in Inodes, m \in Names : entries[q][m] = i
    BY <1>3 DEF Named
  <2>2. CASE q = sp /\ m = sn
    <3>1. entries'[dp][dn] = i
      BY <2>1, <2>2 DEF Renamed
    <3>. QED  BY <3>1 DEF Named
  <2>3. CASE ~ (q = sp /\ m = sn)
    <3>1. entries'[q][m] = i
      BY <1>3, <2>1, <2>3 DEF Renamed
    <3>. QED  BY <3>1 DEF Named
  <2>. QED  BY <2>2, <2>3
<1>. QED  BY <1>2, <1>3

\* rename to a free name.
LEMMA MoveKeepsDb ==
    ASSUME DbInv, DbTypes',
           NEW sp \in Inodes, NEW sn \in Names, NEW dp \in Inodes, NEW dn \in Names,
           ResolvesParent(sp), ResolvesParent(dp), Renamed(sp, sn, dp, dn),
           entries[sp][sn] # None, entries[dp][dn] = None,
           RenameAllowed(entries[sp][sn], dp),
           \A i \in Inodes :
               nlink'[i] = IF ChangesParent(entries[sp][sn], sp, dp)
                           THEN IF i = sp THEN nlink[i] - 1
                                ELSE IF i = dp THEN nlink[i] + 1 ELSE nlink[i]
                           ELSE nlink[i],
           kind' = kind, nextInode' = nextInode
    PROVE  DbInv'
<1> DEFINE s == entries[sp][sn]
<1>0. /\ DbTypes /\ Rows /\ EntriesLive /\ OneNamePerDir /\ Occupied /\ Acyclic
      /\ FileNlinkExact /\ DirNlink
  BY DEF DbInv
<1>1. /\ kind[sp] = "dir" /\ kind[dp] = "dir" /\ s \in Inodes
      /\ s # ROOT_INODE /\ kind[s] # "none"
  BY <1>0 DEF EntriesLive, ResolvesParent, DbTypes
<1>2. \A q \in Inodes, m \in Names :
          entries'[q][m] = IF q = dp /\ m = dn THEN s
                           ELSE IF q = sp /\ m = sn THEN None ELSE entries[q][m]
  BY DEF Renamed
<1>3. Rows'
  BY <1>0, <1>1 DEF Rows, ChangesParent
<1>4. EntriesLive'
  BY <1>0, <1>1, <1>2 DEF EntriesLive
<1>5. OneNamePerDir'
  BY <1>0, <1>2 DEF OneNamePerDir, None, Inodes
<1>6. \A i \in Inodes : Named(i)' <=> Named(i)
  <2>1. \A i \in Inodes : i # entries[dp][dn]
    BY DEF None, Inodes
  <2>. QED  BY <2>1, RenameNamed
<1>7. dp = ROOT_INODE \/ Named(dp)
  BY ResolvableNamed DEF ResolvesParent
<1>8. sp = ROOT_INODE \/ Named(sp)
  BY ResolvableNamed DEF ResolvesParent
<1>9. Occupied'
  BY <1>0, <1>2, <1>6, <1>7 DEF Occupied
<1>10. Acyclic'
  BY <1>1, RenameAcyclic
<1>11. FileNlinkExact'
  <2> SUFFICES ASSUME NEW i \in Inodes, kind[i] \in {"file", "symlink"}
               PROVE  nlink'[i] = Cardinality(LinksIn(entries', i))
    BY DEF FileNlinkExact, Links, LinksIn
  <2>1. Cardinality(LinksIn(entries', i))
            = Cardinality(LinksIn(entries, i)) - (IF entries[dp][dn] = i THEN 1 ELSE 0)
    BY RenameLinks
  <2>2. entries[dp][dn] # i
    BY DEF None, Inodes
  <2>3. nlink[i] = Cardinality(LinksIn(entries, i)) /\ nlink[i] \in Int
    BY <1>0 DEF FileNlinkExact, Links, LinksIn, DbTypes
  <2>4. nlink'[i] = nlink[i]
    BY <1>1
  <2>. QED  BY <2>1, <2>2, <2>3, <2>4
<1>12. DirNlink'
  <2> SUFFICES ASSUME NEW c \in Inodes, kind[c] = "dir"
               PROVE  /\ nlink'[c] >= 1
                      /\ c = ROOT_INODE \/ Named(c)' =>
                            nlink'[c] >= 2 + Cardinality(SubdirsIn(entries', kind, c))
    BY DEF DirNlink, Subdirs, SubdirsIn
  <2> DEFINE old == Cardinality(SubdirsIn(entries, kind, c))
             new == Cardinality(SubdirsIn(entries', kind, c))
  <2>1. new = old - (IF c = sp /\ kind[s] = "dir" THEN 1 ELSE 0)
                  + (IF c = dp /\ kind[s] = "dir" THEN 1 ELSE 0)
                  - (IF c = dp /\ entries[dp][dn] # None /\ kind[entries[dp][dn]] = "dir"
                     THEN 1 ELSE 0)
    BY RenameSubdirs
  <2>2. old \in Nat /\ nlink[c] \in Int
    BY <1>0, SubdirsFinite DEF DbTypes
  <2>3. /\ nlink[c] >= 1
        /\ c = ROOT_INODE \/ Named(c) => nlink[c] >= 2 + old
    BY <1>0 DEF DirNlink, Subdirs, SubdirsIn
  <2>4. nlink'[c] = IF kind[s] = "dir" /\ sp # dp
                    THEN IF c = sp THEN nlink[c] - 1
                         ELSE IF c = dp THEN nlink[c] + 1 ELSE nlink[c]
                    ELSE nlink[c]
    BY DEF ChangesParent
  <2> HIDE DEF old, new, s
  <2>5. c = sp \/ c = dp => nlink[c] >= 2 + old
    BY <1>7, <1>8, <2>3
  <2>6. nlink'[c] >= 1
    BY <2>2, <2>3, <2>4, <2>5
  <2>7. c = ROOT_INODE \/ Named(c)' => nlink'[c] >= 2 + new
    <3>1. c = ROOT_INODE \/ Named(c)' => nlink[c] >= 2 + old
      BY <1>6, <2>3
    <3>. QED  BY <2>1, <2>2, <2>4, <3>1
  <2>. QED  BY <2>6, <2>7 DEF new
<1>. QED  BY <1>3, <1>4, <1>5, <1>9, <1>10, <1>11, <1>12 DEF DbInv

\* rename of a file or symlink over a file or symlink d.
LEMMA ReplaceFileKeepsDb ==
    ASSUME DbInv, DbTypes',
           NEW sp \in Inodes, NEW sn \in Names, NEW dp \in Inodes, NEW dn \in Names,
           NEW s \in Inodes, NEW d \in Inodes,
           s = entries[sp][sn], d = entries[dp][dn], d # s,
           ResolvesParent(dp), Renamed(sp, sn, dp, dn), RenameAllowed(s, dp),
           kind[s] # "dir", kind[d] # "dir",
           \A i \in Inodes : nlink'[i] = IF i = d THEN nlink[i] - 1 ELSE nlink[i],
           \A i \in Inodes :
               kind'[i] = IF i = d /\ nlink[d] - 1 = 0 THEN "none" ELSE kind[i],
           nextInode' = nextInode
    PROVE  DbInv'
<1>0. /\ DbTypes /\ Rows /\ EntriesLive /\ OneNamePerDir /\ Occupied /\ Acyclic
      /\ FileNlinkExact /\ DirNlink
  BY DEF DbInv
<1>1. /\ s # None /\ d # None /\ s # ROOT_INODE /\ d # ROOT_INODE
      /\ kind[s] # "none" /\ kind[d] # "none" /\ kind[dp] = "dir"
      /\ \A m \in Names : entries[d][m] = None
  BY <1>0 DEF EntriesLive, ResolvesParent, None, Inodes
<1>2. \A q \in Inodes, m \in Names :
          entries'[q][m] = IF q = dp /\ m = dn THEN s
                           ELSE IF q = sp /\ m = sn THEN None ELSE entries[q][m]
  BY DEF Renamed
<1>3. ASSUME NEW i \in Inodes, kind[i] \in {"file", "symlink"}
      PROVE  nlink'[i] = Cardinality(LinksIn(entries', i))
  <2>1. Cardinality(LinksIn(entries', i))
            = Cardinality(LinksIn(entries, i)) - (IF entries[dp][dn] = i THEN 1 ELSE 0)
    BY RenameLinks
  <2>2. nlink[i] = Cardinality(LinksIn(entries, i)) /\ nlink[i] \in Int
    BY <1>0, <1>3 DEF FileNlinkExact, Links, LinksIn, DbTypes
  <2>. QED  BY <2>1, <2>2
<1>4. ASSUME NEW i \in Inodes, kind'[i] = "none"
      PROVE  \A q \in Inodes, m \in Names : entries'[q][m] # i
  <2>1. CASE i = d
    <3>1. nlink'[d] = 0 /\ kind[d] \in {"file", "symlink"}
      BY <1>0, <1>1, <1>4, <2>1 DEF DbTypes
    <3>2. LinksIn(entries', d) = {}
      BY <1>3, <3>1, LinksFinite, FS_EmptySet
    <3>3. ASSUME NEW q \in Inodes, NEW m \in Names, entries'[q][m] = d
          PROVE  <<q, m>> \in LinksIn(entries', d)
      BY <3>3 DEF LinksIn
    <3>. QED  BY <2>1, <3>2, <3>3
  <2>2. CASE i # d
    BY <1>0, <1>1, <1>2, <1>4, <2>2 DEF EntriesLive, None, Inodes
  <2>. QED  BY <2>1, <2>2
<1>5. Rows'
  BY <1>0, <1>1, RootInode DEF Rows, DbTypes
<1>6. EntriesLive'
  <2> SUFFICES ASSUME NEW q \in Inodes, NEW m \in Names, entries'[q][m] # None
               PROVE  kind'[q] = "dir" /\ entries'[q][m] # ROOT_INODE
                      /\ kind'[entries'[q][m]] # "none"
    BY DEF EntriesLive
  <2>1. entries'[q][m] \in Inodes
    BY DEF DbTypes
  <2>2. kind'[q] = "dir" /\ entries'[q][m] # ROOT_INODE
    BY <1>0, <1>1, <1>2 DEF EntriesLive
  <2>. QED  BY <1>4, <2>1, <2>2
<1>7. OneNamePerDir'
  <2>1. \A c \in Inodes : kind'[c] = "dir" => kind[c] = "dir" /\ c # s
    BY <1>1
  <2>2. \A c \in Inodes, q \in Inodes, m \in Names :
            c # s /\ entries'[q][m] = c => entries[q][m] = c
    BY <1>2 DEF None, Inodes
  <2>. QED  BY <1>0, <2>1, <2>2 DEF OneNamePerDir
<1>8. /\ \A i \in Inodes : Named(i)' => Named(i)
      /\ \A i \in Inodes : i # d /\ Named(i) => Named(i)'
  BY RenameNamed
<1>9. Occupied'
  <2>1. dp = ROOT_INODE \/ Named(dp)
    BY ResolvableNamed DEF ResolvesParent
  <2>2. dp # d
    BY <1>1
  <2>. QED  BY <1>0, <1>1, <1>2, <1>8, <2>1, <2>2 DEF Occupied
<1>10. Acyclic'
  BY <1>1, RenameAcyclic
<1>11. FileNlinkExact'
  <2>1. \A i \in Inodes : kind'[i] \in {"file", "symlink"} => kind[i] \in {"file", "symlink"}
    OBVIOUS
  <2>. QED  BY <1>3, <2>1 DEF FileNlinkExact, Links, LinksIn
<1>12. DirNlink'
  <2> SUFFICES ASSUME NEW c \in Inodes, kind'[c] = "dir"
               PROVE  /\ nlink'[c] >= 1
                      /\ c = ROOT_INODE \/ Named(c)' =>
                            nlink'[c] >= 2 + Cardinality(SubdirsIn(entries', kind', c))
    BY DEF DirNlink, Subdirs, SubdirsIn
  <2>0. c # d /\ kind[c] = "dir" /\ nlink'[c] = nlink[c]
    OBVIOUS
  <2>1. \A m \in Names : entries[c][m] \in Inodes \cup {None}
    BY <1>0 DEF DbTypes
  <2>2. \A i \in Inodes : kind'[i] = "dir" <=> kind[i] = "dir"
    OBVIOUS
  <2>3. SubdirsIn(entries', kind', c) = SubdirsIn(entries, kind, c)
    BY <1>1, <1>2, <2>1, <2>2 DEF SubdirsIn
  <2>. QED  BY <1>0, <1>8, <2>0, <2>3 DEF DirNlink, Subdirs, SubdirsIn
<1>. QED  BY <1>5, <1>6, <1>7, <1>9, <1>10, <1>11, <1>12 DEF DbInv

\* rename of a directory over an empty directory d.  The count of d was at
\* least 2, so its row stays, without a name.
LEMMA ReplaceDirKeepsDb ==
    ASSUME DbInv, DbTypes',
           NEW sp \in Inodes, NEW sn \in Names, NEW dp \in Inodes, NEW dn \in Names,
           NEW s \in Inodes, NEW d \in Inodes,
           s = entries[sp][sn], d = entries[dp][dn], d # s,
           ResolvesParent(sp), ResolvesParent(dp), Renamed(sp, sn, dp, dn),
           RenameAllowed(s, dp), kind[s] = "dir", kind[d] = "dir", IsEmpty(d),
           \A i \in Inodes : nlink'[i] = IF i = d \/ (sp # dp /\ i = sp)
                                         THEN nlink[i] - 1 ELSE nlink[i],
           kind' = kind, nextInode' = nextInode
    PROVE  DbInv'
<1>0. /\ DbTypes /\ Rows /\ EntriesLive /\ OneNamePerDir /\ Occupied /\ Acyclic
      /\ FileNlinkExact /\ DirNlink
  BY DEF DbInv
<1>1. /\ s # None /\ d # None /\ s # ROOT_INODE /\ d # ROOT_INODE
      /\ kind[sp] = "dir" /\ kind[dp] = "dir"
      /\ \A m \in Names : entries[d][m] = None
  BY <1>0 DEF EntriesLive, ResolvesParent, IsEmpty, NoListing, None, Inodes
<1>2. d # sp /\ d # dp
  BY <1>1
<1>3. \A q \in Inodes, m \in Names :
          entries'[q][m] = IF q = dp /\ m = dn THEN s
                           ELSE IF q = sp /\ m = sn THEN None ELSE entries[q][m]
  BY DEF Renamed
<1>4. Rows'
  BY <1>0, <1>1 DEF Rows
<1>5. EntriesLive'
  BY <1>0, <1>1, <1>3 DEF EntriesLive
<1>6. OneNamePerDir'
  BY <1>0, <1>3, SMTT(60) DEF OneNamePerDir, None, Inodes
<1>7. /\ \A i \in Inodes : Named(i)' => Named(i)
      /\ \A i \in Inodes : i # d /\ Named(i) => Named(i)'
  BY RenameNamed
<1>8. dp = ROOT_INODE \/ Named(dp)
  BY ResolvableNamed DEF ResolvesParent
<1>9. sp = ROOT_INODE \/ Named(sp)
  BY ResolvableNamed DEF ResolvesParent
<1>10. Occupied'
  BY <1>0, <1>1, <1>2, <1>3, <1>7, <1>8 DEF Occupied
<1>11. Acyclic'
  BY <1>1, RenameAcyclic
<1>12. FileNlinkExact'
  <2> SUFFICES ASSUME NEW i \in Inodes, kind[i] \in {"file", "symlink"}
               PROVE  nlink'[i] = Cardinality(LinksIn(entries', i))
    BY DEF FileNlinkExact, Links, LinksIn
  <2>0. i # d /\ i # sp
    BY <1>1
  <2>1. Cardinality(LinksIn(entries', i))
            = Cardinality(LinksIn(entries, i)) - (IF entries[dp][dn] = i THEN 1 ELSE 0)
    BY RenameLinks
  <2>2. nlink[i] = Cardinality(LinksIn(entries, i)) /\ nlink[i] \in Int
    BY <1>0 DEF FileNlinkExact, Links, LinksIn, DbTypes
  <2>. QED  BY <2>0, <2>1, <2>2
<1>13. DirNlink'
  <2> SUFFICES ASSUME NEW c \in Inodes, kind[c] = "dir"
               PROVE  /\ nlink'[c] >= 1
                      /\ c = ROOT_INODE \/ Named(c)' =>
                            nlink'[c] >= 2 + Cardinality(SubdirsIn(entries', kind, c))
    BY DEF DirNlink, Subdirs, SubdirsIn
  <2> DEFINE old == Cardinality(SubdirsIn(entries, kind, c))
             new == Cardinality(SubdirsIn(entries', kind, c))
  <2>1. new = old - (IF c = sp /\ kind[s] = "dir" THEN 1 ELSE 0)
                  + (IF c = dp /\ kind[s] = "dir" THEN 1 ELSE 0)
                  - (IF c = dp /\ entries[dp][dn] # None /\ kind[entries[dp][dn]] = "dir"
                     THEN 1 ELSE 0)
    BY <1>1, RenameSubdirs
  <2>2. new = old - (IF c = sp THEN 1 ELSE 0) + (IF c = dp THEN 1 ELSE 0)
                  - (IF c = dp THEN 1 ELSE 0)
    BY <1>1, <2>1
  <2>3. old \in Nat /\ nlink[c] \in Int
    BY <1>0, SubdirsFinite DEF DbTypes
  <2>4. /\ nlink[c] >= 1
        /\ c = ROOT_INODE \/ Named(c) => nlink[c] >= 2 + old
    BY <1>0 DEF DirNlink, Subdirs, SubdirsIn
  <2>5. Named(d) /\ ~ Named(d)'
    <3>1. Named(d)
      BY DEF Named
    <3>2. \A q \in Inodes, m \in Names : entries'[q][m] # d
      BY <1>0, <1>1, <1>3 DEF OneNamePerDir
    <3>. QED  BY <3>1, <3>2 DEF Named
  <2>6. c = sp \/ c = dp \/ c = d => nlink[c] >= 2 + old
    BY <1>8, <1>9, <2>4, <2>5
  <2>7. nlink'[c] = IF c = d \/ (sp # dp /\ c = sp) THEN nlink[c] - 1 ELSE nlink[c]
    OBVIOUS
  <2>8. c = ROOT_INODE \/ Named(c)' => c # d /\ nlink[c] >= 2 + old
    BY <1>1, <1>7, <2>4, <2>5
  <2> HIDE DEF old, new
  <2>9. nlink'[c] >= 1
    BY <2>3, <2>4, <2>6, <2>7
  <2>10. c = ROOT_INODE \/ Named(c)' => nlink'[c] >= 2 + new
    BY <2>2, <2>3, <2>7, <2>8
  <2>. QED  BY <2>9, <2>10 DEF new
<1>. QED  BY <1>4, <1>5, <1>6, <1>10, <1>11, <1>12, <1>13 DEF DbInv

-----------------------------------------------------------------------------
(* The tables under every action.                                          *)

\* mkfs creates good tables, and open_fs a good session.
LEMMA InitInv == Init => IInv
<1> SUFFICES ASSUME Init PROVE IInv
  OBVIOUS
<1>1. DbTypes /\ Rows
  BY BoundsAssumption DEF Init, DbTypes, Rows, Inodes, NoListing, None, ROOT_INODE
<1>2. \A p \in Inodes, n \in Names : entries[p][n] = None
  BY DEF Init, NoListing
<1>3. \A i \in Inodes : ~ Named(i)
  BY <1>2 DEF Named, None, Inodes
<1>4. EntriesLive /\ OneNamePerDir /\ Occupied
  BY <1>2 DEF EntriesLive, OneNamePerDir, Occupied, None, Inodes
<1>5. Acyclic
  <2>1. \A c \in Inodes : ParentsOf(c) = {}
    BY <1>2 DEF ParentsOf, None, Inodes
  <2>. QED  BY <2>1 DEF Acyclic
<1>6. FileNlinkExact
  BY DEF Init, FileNlinkExact
<1>7. DirNlink
  <2>1. Subdirs(ROOT_INODE) = {}
    BY <1>2, RootInode DEF Subdirs
  <2>2. Cardinality(Subdirs(ROOT_INODE)) = 0
    BY <2>1, FS_EmptySet
  <2>3. \A d \in Inodes : kind[d] = "dir" => d = ROOT_INODE /\ nlink[d] = 2
    BY DEF Init
  <2>. QED  BY <2>2, <2>3 DEF DirNlink
<1>8. SessionInv
  BY BoundsAssumption DEF Init, SessionInv, SessionTypes, FdsOld, PendingUnused,
     ReadonlyFds, None, ROOT_INODE, Fds
<1>. QED  BY <1>1, <1>4, <1>5, <1>6, <1>7, <1>8 DEF IInv, DbInv

\* The tables are good when they do not change.
LEMMA DbUnchanged ==
    ASSUME DbInv, UNCHANGED db
    PROVE  DbInv'
<1>0. kind' = kind /\ nlink' = nlink /\ entries' = entries /\ nextInode' = nextInode
  BY DEF db
<1>1. /\ DbTypes /\ Rows /\ EntriesLive /\ OneNamePerDir /\ Occupied /\ Acyclic
      /\ FileNlinkExact /\ DirNlink
  BY DEF DbInv
<1>2. DbTypes' /\ Rows' /\ EntriesLive' /\ OneNamePerDir'
  BY <1>0, <1>1 DEF DbTypes, Rows, EntriesLive, OneNamePerDir
<1>3. \A i \in Inodes : Named(i)' <=> Named(i)
  BY <1>0 DEF Named
<1>4. Occupied'
  BY <1>0, <1>1, <1>3 DEF Occupied
<1>5. Acyclic'
  BY <1>0, <1>1, AcyclicIsAcyclicIn, AcyclicIsAcyclicInNext
<1>6. FileNlinkExact'
  BY <1>0, <1>1 DEF FileNlinkExact, Links
<1>7. DirNlink'
  <2>1. \A d \in Inodes : Subdirs(d)' = Subdirs(d)
    BY <1>0 DEF Subdirs
  <2>. QED  BY <1>0, <1>1, <1>3, <2>1 DEF DirNlink
<1>. QED  BY <1>2, <1>4, <1>5, <1>6, <1>7 DEF DbInv

\* What mkdir, create and symlink have in common.
Inserts(k, p, n) ==
    /\ ResolvesParent(p)
    /\ entries[p][n] = None
    /\ InsertNode(k)
    /\ entries' = [entries EXCEPT ![p][n] = NewInode]
    /\ nlink' = [nlink EXCEPT ![NewInode] = InitialNlink(k),
                             ![p] = IF k = "dir" THEN @ + 1 ELSE @]

\* A step that inserts a row, in the form of the lemma about it.
LEMMA InsertStep ==
    ASSUME DbInv, NEW k \in {"file", "dir", "symlink"},
           NEW p \in Inodes, NEW n \in Names, Inserts(k, p, n)
    PROVE  DbInv'
<1>0. DbTypes /\ Rows
  BY DEF DbInv
<1> DEFINE x == nextInode
<1>1. x \in Inodes /\ kind' = [kind EXCEPT ![x] = k] /\ nextInode' = x + 1
  BY DEF Inserts, InsertNode, NewInode
<1>2. x # p
  <2>1. kind[x] = "none"
    BY <1>0, <1>1 DEF Rows, Inodes
  <2>. QED  BY <2>1 DEF Inserts, ResolvesParent
<1>3. Sets(entries, entries', p, n, x)
  BY <1>0, <1>1 DEF Inserts, Sets, NewInode, DbTypes
<1>4. \A i \in Inodes : kind'[i] = IF i = x THEN k ELSE kind[i]
  BY <1>0, <1>1 DEF DbTypes
<1>5. \A i \in Inodes : nlink'[i] = IF i = x THEN InitialNlink(k)
                                    ELSE IF i = p /\ k = "dir" THEN nlink[i] + 1
                                    ELSE nlink[i]
  BY <1>0, <1>1, <1>2 DEF Inserts, DbTypes, NewInode
<1>6. DbTypes'
  <2>1. kind' \in KindTables
    BY <1>0, <1>1 DEF DbTypes, KindTables
  <2>2. nlink' \in [Inodes -> Int]
    BY <1>0, <1>1 DEF Inserts, DbTypes, InitialNlink, NewInode
  <2>3. entries' \in Tables
    BY <1>0, <1>1 DEF Inserts, DbTypes, Tables, NewInode
  <2>4. nextInode' \in 1..(MaxInode + 1)
    BY <1>1, BoundsAssumption DEF Inodes
  <2>. QED  BY <2>1, <2>2, <2>3, <2>4 DEF DbTypes, KindTables, Tables
<1> HIDE DEF x
<1>7. x = nextInode /\ ResolvesParent(p) /\ entries[p][n] = None
  BY DEF x, Inserts
<1>. QED  BY <1>1, <1>3, <1>4, <1>5, <1>6, <1>7, InsertKeepsDb

\* mkdir, create of a free name and symlink insert a row.
LEMMA InsertsRow ==
    ASSUME DbInv, NEW p \in Inodes, NEW n \in Names,
           Mkdir(p, n) \/ CreateNew(p, n) \/ Symlink(p, n)
    PROVE  \E k \in {"file", "dir", "symlink"} : Inserts(k, p, n)
<1>1. DbTypes /\ Rows
  BY DEF DbInv
<1>2. ASSUME NEW k \in {"file", "symlink"}, ResolvesParent(p), entries[p][n] = None,
             InsertNode(k), entries' = [entries EXCEPT ![p][n] = NewInode],
             nlink' = [nlink EXCEPT ![NewInode] = InitialNlink(k)]
      PROVE  Inserts(k, p, n)
  <2>1. NewInode \in Inodes /\ kind[NewInode] = "none"
    BY <1>1, <1>2 DEF InsertNode, Rows, NewInode, Inodes
  <2>2. NewInode # p
    BY <1>2, <2>1 DEF ResolvesParent
  <2>3. nlink' = [nlink EXCEPT ![NewInode] = InitialNlink(k), ![p] = nlink[p]]
    BY <1>1, <1>2, <2>1, <2>2 DEF DbTypes
  <2>4. nlink' = [nlink EXCEPT ![NewInode] = InitialNlink(k),
                              ![p] = IF k = "dir" THEN @ + 1 ELSE @]
    BY <1>1, <1>2, <2>2, <2>3 DEF DbTypes
  <2>. QED  BY <1>2, <2>4 DEF Inserts
<1>3. CASE Mkdir(p, n)
  <2>1. Inserts("dir", p, n)
    BY <1>3 DEF Mkdir, Inserts
  <2>. QED  BY <2>1
<1>4. CASE CreateNew(p, n)
  <2>1. Inserts("file", p, n)
    BY <1>2, <1>4 DEF CreateNew
  <2>. QED  BY <2>1
<1>5. CASE Symlink(p, n)
  <2>1. Inserts("symlink", p, n)
    BY <1>2, <1>5 DEF Symlink
  <2>. QED  BY <2>1
<1>. QED  BY <1>3, <1>4, <1>5

\* mkdir, create of a free name and symlink keep the tables good.
LEMMA InsertDb ==
    ASSUME DbInv, NEW p \in Inodes, NEW n \in Names,
           Mkdir(p, n) \/ CreateNew(p, n) \/ Symlink(p, n)
    PROVE  DbInv'
BY InsertsRow, InsertStep

\* rmdir keeps the tables good.
LEMMA RmdirDb ==
    ASSUME DbInv, NEW p \in Inodes, NEW n \in Names, Rmdir(p, n)
    PROVE  DbInv'
<1> DEFINE d == entries[p][n]
<1>0. DbTypes
  BY DEF DbInv
<1>1. d \in Inodes /\ ResolvesParent(p) /\ kind[d] = "dir" /\ IsEmpty(d)
  BY <1>0 DEF Rmdir, DbTypes
<1>2. Sets(entries, entries', p, n, None)
  BY <1>0 DEF Rmdir, Sets, DbTypes
<1>3. d # p
  BY <1>1 DEF IsEmpty, NoListing, Rmdir
<1>4. /\ \A j \in Inodes : nlink'[j] = IF j = d THEN 0
                                       ELSE IF j = p THEN nlink[j] - 1 ELSE nlink[j]
      /\ \A j \in Inodes : kind'[j] = IF j = d THEN "none" ELSE kind[j]
      /\ nextInode' = nextInode
  BY <1>0, <1>1, <1>3 DEF Rmdir, DbTypes
<1>5. DbTypes'
  BY <1>0, <1>1 DEF Rmdir, DbTypes
<1>6. d = entries[p][n]
  OBVIOUS
<1> HIDE DEF d
<1>. QED  BY <1>1, <1>2, <1>4, <1>5, <1>6, RmdirKeepsDb

\* link keeps the tables good.
LEMMA LinkDb ==
    ASSUME DbInv, NEW tp \in Inodes, NEW tn \in Names,
           NEW p \in Inodes, NEW n \in Names, Link(tp, tn, p, n)
    PROVE  DbInv'
<1> DEFINE t == entries[tp][tn]
<1>0. DbTypes
  BY DEF DbInv
<1>1. /\ t \in Inodes /\ Named(t) /\ kind[t] # "dir" /\ ResolvesParent(p)
      /\ entries[p][n] = None /\ kind' = kind /\ nextInode' = nextInode
  BY <1>0 DEF Link, Linkable, DbTypes, Named
<1>2. Sets(entries, entries', p, n, t)
  BY <1>0, <1>1 DEF Link, Sets, DbTypes
<1>3. \A i \in Inodes : nlink'[i] = IF i = t THEN nlink[i] + 1 ELSE nlink[i]
  BY <1>0, <1>1 DEF Link, DbTypes
<1>4. DbTypes'
  BY <1>0, <1>1 DEF Link, DbTypes
<1> HIDE DEF t
<1>. QED  BY <1>1, <1>2, <1>3, <1>4, LinkKeepsDb

\* unlink keeps the tables good, up to its commit.
LEMMA UnlinkDb ==
    ASSUME DbInv, NEW p \in Inodes, NEW n \in Names, Unlink(p, n)
    PROVE  DbInv'
<1> DEFINE i == entries[p][n]
<1>0. DbTypes
  BY DEF DbInv
<1>1. i \in Inodes /\ kind[i] # "dir" /\ kind' = kind /\ nextInode' = nextInode
  BY <1>0 DEF Unlink, DbTypes
<1>2. Sets(entries, entries', p, n, None)
  BY <1>0 DEF Unlink, Sets, DbTypes
<1>3. \A j \in Inodes : nlink'[j] = IF j = i THEN nlink[j] - 1 ELSE nlink[j]
  BY <1>0, <1>1 DEF Unlink, DbTypes
<1>4. DbTypes'
  BY <1>0, <1>1 DEF Unlink, DbTypes
<1>5. entries[p][n] = i
  OBVIOUS
<1> HIDE DEF i
<1>. QED  BY <1>1, <1>2, <1>3, <1>4, <1>5, UnlinkKeepsDb

\* The delete that follows the commit of unlink, or ends close_fd, keeps
\* the tables good.
LEMMA ReclaimDb ==
    ASSUME DbInv, SessionInv, Reclaim
    PROVE  DbInv'
<1>0. DbTypes /\ SessionTypes /\ PendingUnused
  BY DEF DbInv, SessionInv
<1>1. /\ pending \in Inodes /\ kind[pending] \in {"file", "symlink"} /\ nlink[pending] = 0
      /\ entries' = entries /\ nextInode' = nextInode
  BY <1>0 DEF Reclaim, SessionTypes, PendingUnused
<1>2. /\ \A j \in Inodes : nlink'[j] = nlink[j]
      /\ \A j \in Inodes : kind'[j] = IF j = pending THEN "none" ELSE kind[j]
  BY <1>0, <1>1 DEF Reclaim, DbTypes
<1>3. DbTypes'
  BY <1>0, <1>1 DEF Reclaim, DbTypes
<1>. QED  BY <1>1, <1>2, <1>3, ReclaimKeepsDb

\* rename to a free name keeps the tables good.
LEMMA MoveDb ==
    ASSUME DbInv, NEW sp \in Inodes, NEW sn \in Names, NEW dp \in Inodes, NEW dn \in Names,
           RenameMove(sp, sn, dp, dn)
    PROVE  DbInv'
<1>0. DbTypes
  BY DEF DbInv
<1>1. /\ ResolvesParent(sp) /\ ResolvesParent(dp)
      /\ entries[sp][sn] # None /\ entries[dp][dn] = None
      /\ RenameAllowed(entries[sp][sn], dp) /\ kind' = kind /\ nextInode' = nextInode
  BY DEF RenameMove
<1>2. entries[sp][sn] \in Inodes
  BY <1>0, <1>1 DEF DbTypes
<1>3. Renamed(sp, sn, dp, dn)
  BY <1>0, <1>1 DEF RenameMove, Renamed, DbTypes
<1>4. \A i \in Inodes :
          nlink'[i] = IF ChangesParent(entries[sp][sn], sp, dp)
                      THEN IF i = sp THEN nlink[i] - 1
                           ELSE IF i = dp THEN nlink[i] + 1 ELSE nlink[i]
                      ELSE nlink[i]
  BY <1>0 DEF RenameMove, DbTypes, ChangesParent
<1>5. DbTypes'
  <2>1. entries' \in Tables
    BY <1>0, <1>2 DEF RenameMove, DbTypes, Tables
  <2>2. nlink' \in [Inodes -> Int]
    BY <1>0 DEF RenameMove, DbTypes
  <2>. QED  BY <1>0, <1>1, <2>1, <2>2 DEF DbTypes, Tables
<1>. QED  BY <1>1, <1>3, <1>4, <1>5, MoveKeepsDb

\* rename over another inode keeps the tables good.
LEMMA ReplaceDb ==
    ASSUME DbInv, NEW sp \in Inodes, NEW sn \in Names, NEW dp \in Inodes, NEW dn \in Names,
           RenameReplace(sp, sn, dp, dn)
    PROVE  DbInv'
<1> DEFINE s == entries[sp][sn]
           d == entries[dp][dn]
<1>0. DbTypes /\ EntriesLive /\ DirNlink
  BY DEF DbInv
<1>1. /\ ResolvesParent(sp) /\ ResolvesParent(dp)
      /\ s # None /\ d # None /\ d # s
      /\ RenameAllowed(s, dp) /\ Replaceable(s, d) /\ nextInode' = nextInode
  BY DEF RenameReplace
<1>2. s \in Inodes /\ d \in Inodes
  BY <1>0, <1>1 DEF DbTypes
<1>3. Renamed(sp, sn, dp, dn)
  BY <1>0, <1>1 DEF RenameReplace, Renamed, DbTypes
<1>4. d # sp /\ d # dp
  BY <1>0, <1>1, <1>2 DEF Replaceable, IsEmpty, NoListing, ResolvesParent
<1>5. DbTypes'
  <2>1. entries' \in Tables
    BY <1>0, <1>2 DEF RenameReplace, DbTypes, Tables
  <2>2. nlink' \in [Inodes -> Int]
    BY <1>0, <1>2 DEF RenameReplace, DbTypes
  <2>3. kind' \in KindTables
    BY <1>0, <1>2 DEF RenameReplace, DbTypes, KindTables
  <2>. QED  BY <1>0, <1>1, <2>1, <2>2, <2>3 DEF DbTypes, Tables, KindTables
<1>6. CASE kind[s] = "dir"
  <2>1. kind[d] = "dir" /\ IsEmpty(d)
    BY <1>1, <1>6 DEF Replaceable
  <2>2. \A i \in Inodes : nlink'[i] = IF i = d \/ (sp # dp /\ i = sp)
                                     THEN nlink[i] - 1 ELSE nlink[i]
    BY <1>0, <1>2, <1>4, <1>6 DEF RenameReplace, ChangesParent, DbTypes
  <2>3. nlink[d] >= 2
    <3>1. Named(d)
      BY DEF Named
    <3>2. Cardinality(Subdirs(d)) \in Nat
      BY NamesAssumption, FS_Subset, FS_CardinalityType DEF Subdirs
    <3>3. nlink[d] >= 2 + Cardinality(Subdirs(d)) /\ nlink[d] \in Int
      BY <1>0, <1>2, <2>1, <3>1 DEF DirNlink, DbTypes
    <3> HIDE DEF d
    <3>. QED  BY <3>2, <3>3
  <2>4. kind' = kind
    <3>1. nlink[d] - 1 # 0
      BY <1>0, <1>2, <2>3 DEF DbTypes
    <3>. QED  BY <3>1 DEF RenameReplace
  <2>5. s = entries[sp][sn] /\ d = entries[dp][dn]
    OBVIOUS
  <2> HIDE DEF s, d
  <2>. QED  BY <1>1, <1>2, <1>3, <1>5, <1>6, <2>1, <2>2, <2>4, <2>5, ReplaceDirKeepsDb
<1>7. CASE kind[s] # "dir"
  <2>1. kind[d] # "dir"
    BY <1>1, <1>7 DEF Replaceable
  <2>2. \A i \in Inodes : nlink'[i] = IF i = d THEN nlink[i] - 1 ELSE nlink[i]
    BY <1>0, <1>2, <1>7 DEF RenameReplace, ChangesParent, DbTypes
  <2>3. \A i \in Inodes : kind'[i] = IF i = d /\ nlink[d] - 1 = 0 THEN "none" ELSE kind[i]
    BY <1>0, <1>2 DEF RenameReplace, DbTypes
  <2>4. s = entries[sp][sn] /\ d = entries[dp][dn]
    OBVIOUS
  <2> HIDE DEF s, d
  <2>. QED  BY <1>1, <1>2, <1>3, <1>5, <1>7, <2>1, <2>2, <2>3, <2>4, ReplaceFileKeepsDb
<1>. QED  BY <1>6, <1>7

\* Every step keeps the tables good.
LEMMA DbStep ==
    ASSUME DbInv, SessionInv, [Next]_vars
    PROVE  DbInv'
<1>1. ASSUME UNCHANGED db
      PROVE  DbInv'
  BY <1>1, DbUnchanged
<1>2. CASE UNCHANGED vars
  BY <1>1, <1>2 DEF vars, db
<1>3. CASE Reopen
  BY <1>1, <1>3 DEF Reopen
<1>4. CASE Reclaim
  BY <1>4, ReclaimDb
<1>5. CASE ReclaimFails
  BY <1>1, <1>5 DEF ReclaimFails, db
<1>6. CASE \E f \in Fds : CloseFd(f)
  BY <1>1, <1>6 DEF CloseFd, db
<1>7. ASSUME NEW p \in Inodes, NEW n \in Names,
             \/ Mkdir(p, n) \/ Rmdir(p, n) \/ CreateNew(p, n) \/ CreateExisting(p, n)
             \/ Open(p, n) \/ Symlink(p, n) \/ Unlink(p, n)
      PROVE  DbInv'
  <2>1. CASE CreateExisting(p, n)
    BY <1>1, <2>1 DEF CreateExisting, db
  <2>2. CASE Open(p, n)
    BY <1>1, <2>2 DEF Open, db
  <2>. QED  BY <1>7, <2>1, <2>2, InsertDb, RmdirDb, UnlinkDb
<1>8. ASSUME NEW p \in Inodes, NEW q \in Inodes, NEW m \in Names, NEW n \in Names,
             Link(p, m, q, n) \/ RenameMove(p, m, q, n) \/ RenameReplace(p, m, q, n)
      PROVE  DbInv'
  BY <1>8, LinkDb, MoveDb, ReplaceDb
<1>. QED  BY <1>2, <1>3, <1>4, <1>5, <1>6, <1>7, <1>8 DEF Next

-----------------------------------------------------------------------------
(* The session under every action.                                         *)

\* No fd refers to an inode that open_count finds closed.
LEMMA OpenCountZero ==
    ASSUME NEW t, NEW i, OpenCount(t, i) = 0
    PROVE  \A f \in Fds : t[f] # i
<1> DEFINE S == {f \in Fds : t[f] = i}
<1>1. IsFiniteSet(Fds)
  <2>1. 1 \in Int /\ MaxFd \in Int
    BY BoundsAssumption
  <2>2. IsFiniteSet(1..MaxFd)
    BY <2>1, FS_Interval
  <2>. QED  BY <2>2 DEF Fds
<1>2. IsFiniteSet(S)
  BY <1>1, FS_Subset
<1>3. Cardinality(S) = 0
  BY DEF OpenCount
<1>4. S = {}
  <2> HIDE DEF S
  <2>. QED  BY <1>2, <1>3, FS_EmptySet
<1>. QED  BY <1>4

\* What an entry binds was handed out, and counts at least one link.
LEMMA BoundInode ==
    ASSUME DbInv, NEW p \in Inodes, NEW n \in Names, entries[p][n] # None
    PROVE  /\ entries[p][n] \in Inodes /\ entries[p][n] < nextInode
           /\ kind[entries[p][n]] # "none" /\ nlink[entries[p][n]] > 0
<1> DEFINE i == entries[p][n]
<1>0. DbTypes /\ Rows /\ EntriesLive /\ FileNlinkExact /\ DirNlink
  BY DEF DbInv
<1>1. i \in Inodes /\ kind[i] \in {"file", "dir", "symlink"} /\ Named(i) /\ nlink[i] \in Int
  BY <1>0 DEF DbTypes, EntriesLive, Named
<1>2. i < nextInode
  BY <1>0, <1>1 DEF Rows, DbTypes, Inodes
<1>3. nlink[i] > 0
  <2>1. CASE kind[i] = "dir"
    BY <1>0, <1>1, <2>1 DEF DirNlink
  <2>2. CASE kind[i] # "dir"
    <3>1. nlink[i] = Cardinality(LinksIn(entries, i))
      BY <1>0, <1>1, <2>2 DEF FileNlinkExact, Links, LinksIn
    <3>2. Cardinality(LinksIn(entries, i)) # 0
      BY <1>1, LinksNamed
    <3>3. Cardinality(LinksIn(entries, i)) \in Nat
      BY LinksFinite
    <3>. QED  BY <3>1, <3>2, <3>3
  <2>. QED  BY <2>1, <2>2
<1>. QED  BY <1>1, <1>2, <1>3

\* A step of a writing session that leaves the session alone keeps it good.
LEMMA SessionUnchanged ==
    ASSUME SessionInv, DbTypes, UNCHANGED session, RequireWritable,
           nextInode' \in Int, nextInode' >= nextInode
    PROVE  SessionInv'
<1>0. SessionTypes /\ FdsOld /\ PendingUnused /\ ReadonlyFds
  BY DEF SessionInv
<1>1. fds' = fds /\ nextFd' = nextFd /\ readonly' = readonly /\ pending' = pending
  BY DEF session
<1>2. SessionTypes'
  BY <1>0, <1>1 DEF SessionTypes
<1>3. FdsOld'
  BY <1>0, <1>1 DEF FdsOld, SessionTypes, Inodes, None, DbTypes
<1>4. PendingUnused' /\ ReadonlyFds'
  BY <1>1 DEF PendingUnused, ReadonlyFds, RequireWritable
<1>. QED  BY <1>2, <1>3, <1>4 DEF SessionInv

\* The same when it opens an fd on an inode that was handed out; a read-only
\* session may do so too, on an inode with a name.
LEMMA SessionOpens ==
    ASSUME SessionInv, DbTypes, pending = None, UNCHANGED <<readonly, pending>>,
           NEW i \in Inodes, OpenFd(i), i < nextInode',
           nextInode' \in Int, nextInode' >= nextInode,
           readonly => nlink' = nlink /\ nlink[i] > 0
    PROVE  SessionInv'
<1>0. SessionTypes /\ FdsOld /\ PendingUnused /\ ReadonlyFds
  BY DEF SessionInv
<1>1. nextFd \in Fds /\ nextFd' = nextFd + 1 /\ fds' = [fds EXCEPT ![nextFd] = i]
  BY DEF OpenFd
<1>2. SessionTypes'
  BY <1>0, <1>1, BoundsAssumption DEF SessionTypes, Fds
<1>3. FdsOld'
  BY <1>0, <1>1 DEF FdsOld, SessionTypes, Inodes, None, DbTypes
<1>4. PendingUnused'
  BY DEF PendingUnused
<1>5. ReadonlyFds'
  BY <1>0, <1>1 DEF ReadonlyFds, SessionTypes
<1>. QED  BY <1>2, <1>3, <1>4, <1>5 DEF SessionInv

\* close_fd keeps the session good.
LEMMA CloseFdSession ==
    ASSUME DbInv, SessionInv, NEW f \in Fds, CloseFd(f)
    PROVE  SessionInv'
<1> DEFINE i == fds[f]
<1>0. /\ SessionTypes /\ FdsOld /\ PendingUnused /\ ReadonlyFds
      /\ DbTypes /\ DirNlink
  BY DEF SessionInv, DbInv
<1>1. /\ i \in Inodes /\ fds' = [fds EXCEPT ![f] = None]
      /\ pending' = IF kind[i] = "none" THEN None
                    ELSE ReclaimNext(i, nlink[i], OpenCount(fds', i))
      /\ kind' = kind /\ nlink' = nlink /\ nextInode' = nextInode
      /\ nextFd' = nextFd /\ readonly' = readonly
  BY <1>0 DEF CloseFd, SessionTypes
<1>2. /\ pending' \in {None, i}
      /\ pending' # None => kind[i] # "none" /\ nlink[i] = 0 /\ OpenCount(fds', i) = 0
  BY <1>1 DEF ReclaimNext
<1>3. SessionTypes'
  BY <1>0, <1>1, <1>2 DEF SessionTypes
<1>4. FdsOld'
  BY <1>0, <1>1 DEF FdsOld, SessionTypes, None, DbTypes
<1>5. PendingUnused'
  <2> SUFFICES ASSUME pending' # None
               PROVE  /\ ~readonly /\ kind[i] \in {"file", "symlink"}
                      /\ nlink[i] = 0 /\ \A g \in Fds : fds'[g] # i
    BY <1>1, <1>2 DEF PendingUnused
  <2>1. nlink[i] = 0 /\ \A g \in Fds : fds'[g] # i
    BY <1>2, OpenCountZero
  <2>2. kind[i] \in {"file", "symlink"}
    BY <1>0, <1>1, <1>2, <2>1 DEF DirNlink, DbTypes
  <2>3. ~readonly
    BY <1>0, <1>1, <2>1 DEF ReadonlyFds, None, Inodes
  <2>. QED  BY <2>1, <2>2, <2>3
<1>6. ReadonlyFds'
  BY <1>0, <1>1 DEF ReadonlyFds, SessionTypes
<1>. QED  BY <1>3, <1>4, <1>5, <1>6 DEF SessionInv

\* unlink keeps the session good.
LEMMA UnlinkSession ==
    ASSUME DbInv, SessionInv, NEW p \in Inodes, NEW n \in Names, Unlink(p, n)
    PROVE  SessionInv'
<1> DEFINE i == entries[p][n]
<1>0. /\ SessionTypes /\ FdsOld /\ PendingUnused /\ ReadonlyFds /\ DbTypes
  BY DEF SessionInv, DbInv
<1>1. /\ i # None /\ kind[i] # "dir" /\ ~readonly
      /\ nlink' = [nlink EXCEPT ![i] = @ - 1]
      /\ pending' = ReclaimNext(i, nlink[i] - 1, OpenCount(fds, i))
      /\ kind' = kind /\ nextInode' = nextInode /\ fds' = fds
      /\ nextFd' = nextFd /\ readonly' = readonly
  BY DEF Unlink, RequireWritable
<1>2. i \in Inodes /\ kind[i] # "none"
  BY <1>1, BoundInode
<1>3. /\ pending' \in {None, i}
      /\ pending' # None => nlink[i] - 1 = 0 /\ OpenCount(fds, i) = 0
  BY <1>1 DEF ReclaimNext
<1>4. SessionTypes' /\ FdsOld' /\ ReadonlyFds'
  BY <1>0, <1>1, <1>2, <1>3 DEF SessionTypes, FdsOld, ReadonlyFds
<1>5. PendingUnused'
  <2> SUFFICES ASSUME pending' # None
               PROVE  /\ kind[i] \in {"file", "symlink"} /\ nlink'[i] = 0
                      /\ \A g \in Fds : fds[g] # i
    BY <1>1, <1>3 DEF PendingUnused
  <2>1. nlink'[i] = 0
    BY <1>0, <1>1, <1>2, <1>3 DEF DbTypes
  <2>2. \A g \in Fds : fds[g] # i
    BY <1>3, OpenCountZero
  <2>3. kind[i] \in {"file", "symlink"}
    BY <1>0, <1>1, <1>2 DEF DbTypes
  <2>. QED  BY <2>1, <2>2, <2>3
<1>. QED  BY <1>4, <1>5 DEF SessionInv

\* Every step keeps the session good.
LEMMA SessionStep ==
    ASSUME DbInv, SessionInv, [Next]_vars
    PROVE  SessionInv'
<1>0. /\ SessionTypes /\ FdsOld /\ PendingUnused /\ ReadonlyFds /\ DbTypes
      /\ nextInode \in Int
  BY DEF SessionInv, DbInv, DbTypes
<1>1. CASE UNCHANGED vars
  BY <1>0, <1>1 DEF vars, SessionInv, SessionTypes, FdsOld, PendingUnused, ReadonlyFds
<1>2. CASE Reopen
  <2>1. nextInode' = nextInode /\ nextInode >= 1
    BY <1>0, <1>2 DEF Reopen, db, DbTypes
  <2>. QED  BY <1>0, <1>2, <2>1, BoundsAssumption
            DEF Reopen, SessionInv, SessionTypes, FdsOld, PendingUnused, ReadonlyFds, None, Fds
<1>3. CASE Reclaim
  BY <1>0, <1>3 DEF Reclaim, SessionInv, SessionTypes, FdsOld, PendingUnused, ReadonlyFds
<1>4. CASE ReclaimFails
  BY <1>0, <1>4 DEF ReclaimFails, SessionInv, SessionTypes, FdsOld, PendingUnused, ReadonlyFds
<1>5. CASE \E f \in Fds : CloseFd(f)
  BY <1>5, CloseFdSession
<1>6. ASSUME NEW p \in Inodes, NEW n \in Names,
             \/ Mkdir(p, n) \/ Rmdir(p, n) \/ CreateNew(p, n) \/ CreateExisting(p, n)
             \/ Open(p, n) \/ Symlink(p, n) \/ Unlink(p, n)
      PROVE  SessionInv'
  <2>1. CASE Mkdir(p, n) \/ Symlink(p, n)
    <3>1. UNCHANGED session /\ RequireWritable /\ nextInode' = nextInode + 1
      BY <2>1 DEF Mkdir, Symlink, InsertNode, NewInode
    <3>. QED  BY <1>0, <3>1, SessionUnchanged
  <2>2. CASE Rmdir(p, n)
    <3>1. UNCHANGED session /\ RequireWritable /\ nextInode' = nextInode
      BY <2>2 DEF Rmdir, session
    <3>. QED  BY <1>0, <3>1, SessionUnchanged
  <2>3. CASE CreateNew(p, n)
    <3>1. /\ pending = None /\ ~readonly /\ UNCHANGED <<readonly, pending>>
          /\ nextInode \in Inodes /\ nextInode' = nextInode + 1 /\ OpenFd(nextInode)
      BY <2>3 DEF CreateNew, RequireWritable, InsertNode, NewInode
    <3>. QED  BY <1>0, <3>1, SessionOpens
  <2>4. CASE CreateExisting(p, n) \/ Open(p, n)
    <3>1. /\ pending = None /\ UNCHANGED <<readonly, pending>> /\ entries[p][n] # None
          /\ nextInode' = nextInode /\ nlink' = nlink /\ OpenFd(entries[p][n])
      BY <2>4 DEF CreateExisting, Open, RequireWritable
    <3>2. entries[p][n] \in Inodes /\ entries[p][n] < nextInode /\ nlink[entries[p][n]] > 0
      BY <3>1, BoundInode
    <3>. QED  BY <1>0, <3>1, <3>2, SessionOpens
  <2>5. CASE Unlink(p, n)
    BY <2>5, UnlinkSession
  <2>. QED  BY <1>6, <2>1, <2>2, <2>3, <2>4, <2>5
<1>7. ASSUME NEW p \in Inodes, NEW q \in Inodes, NEW m \in Names, NEW n \in Names,
             Link(p, m, q, n) \/ RenameMove(p, m, q, n) \/ RenameReplace(p, m, q, n)
      PROVE  SessionInv'
  <2>1. UNCHANGED session /\ RequireWritable /\ nextInode' = nextInode
    BY <1>7 DEF Link, RenameMove, RenameReplace, session
  <2>. QED  BY <1>0, <2>1, SessionUnchanged
<1>. QED  BY <1>1, <1>2, <1>3, <1>4, <1>5, <1>6, <1>7 DEF Next

-----------------------------------------------------------------------------
(* The theorems.                                                           *)

\* The inductive invariant holds throughout.
THEOREM Invariant == Spec => []IInv
<1>1. IInv /\ [Next]_vars => IInv'
  BY DbStep, SessionStep DEF IInv
<1>. QED  BY InitInv, <1>1, PTL DEF Spec

\* Link counts never go negative, whatever is created, linked, renamed,
\* unlinked and reclaimed, in whatever order.
THEOREM TypeCorrect == Spec => []TypeOK
<1>1. IInv => TypeOK
  <2> SUFFICES ASSUME IInv PROVE TypeOK
    OBVIOUS
  <2>0. DbTypes /\ Rows /\ FileNlinkExact /\ DirNlink /\ SessionTypes
    BY DEF IInv, DbInv, SessionInv
  <2>1. ASSUME NEW i \in Inodes PROVE nlink[i] \in Nat
    <3>1. nlink[i] \in Int /\ kind[i] \in {"none", "file", "dir", "symlink"}
      BY <2>0 DEF DbTypes
    <3>2. CASE kind[i] = "none"
      BY <2>0, <3>2 DEF Rows
    <3>3. CASE kind[i] \in {"file", "symlink"}
      <4>1. nlink[i] = Cardinality(LinksIn(entries, i))
        BY <2>0, <3>3 DEF FileNlinkExact, Links, LinksIn
      <4>. QED  BY <4>1, LinksFinite
    <3>4. CASE kind[i] = "dir"
      BY <2>0, <3>1, <3>4 DEF DirNlink
    <3>. QED  BY <3>1, <3>2, <3>3, <3>4
  <2>2. nlink \in [Inodes -> Nat]
    BY <2>0, <2>1 DEF DbTypes
  <2>. QED  BY <2>0, <2>2 DEF TypeOK, DbTypes, SessionTypes
<1>. QED  BY Invariant, <1>1, PTL

\* No operation leaves an entry for a deleted node, one in something that is
\* not a directory, or one for the root.
THEOREM EntriesStayLive == Spec => []EntriesLive
<1>1. IInv => EntriesLive
  BY DEF IInv, DbInv
<1>. QED  BY Invariant, <1>1, PTL

\* The guards of link, and the way rename moves entries, keep every directory
\* at one name.
THEOREM DirsKeepOneName == Spec => []OneNamePerDir
<1>1. IInv => OneNamePerDir
  BY DEF IInv, DbInv
<1>. QED  BY Invariant, <1>1, PTL

\* What rename refuses is enough: the tree never closes a cycle, and
\* `ancestry` always ends.
THEOREM NoCycles == Spec => []Acyclic
<1>1. IInv => Acyclic
  BY DEF IInv, DbInv
<1>. QED  BY Invariant, <1>1, PTL

\* The link count of a file or symlink is the number of its names.
THEOREM FileLinkCounts == Spec => []FileNlinkExact
<1>1. IInv => FileNlinkExact
  BY DEF IInv, DbInv
<1>. QED  BY Invariant, <1>1, PTL

\* The link count of a directory that can be reached covers itself, its name
\* and its subdirectories.
THEOREM DirLinkCounts == Spec => []DirNlinkCovers
<1>1. IInv => DirNlinkCovers
  <2> SUFFICES ASSUME IInv, NEW d \in Inodes, kind[d] = "dir",
                      d = ROOT_INODE \/ Links(d) # {}
               PROVE  nlink[d] >= 2 + Cardinality(Subdirs(d))
    BY DEF DirNlinkCovers
  <2>1. Links(d) # {} => Named(d)
    BY DEF Links, Named
  <2>. QED  BY <2>1 DEF IInv, DbInv, DirNlink
<1>. QED  BY Invariant, <1>1, PTL

\* A read-only session never has a row to delete, although close_fd does not
\* ask whether it may write: what it has open has a name, and stays so.
THEOREM ReadonlyKeepsRows == Spec => []ReadonlyNeverReclaims
<1>1. IInv => ReadonlyNeverReclaims
  BY DEF IInv, SessionInv, PendingUnused, ReadonlyNeverReclaims
<1>. QED  BY Invariant, <1>1, PTL

\* No sequence of renames cuts a subtree off: every name can be reached.
THEOREM NothingGetsDetached == Spec => []NothingDetached
<1>1. IInv => NothingDetached
  <2> SUFFICES ASSUME IInv, NEW p \in Inodes, NEW n \in Names, entries[p][n] # None,
                      NEW S \in SUBSET Inodes, ROOT_INODE \in S,
                      \A q \in S, m \in Names : entries[q][m] # None => entries[q][m] \in S
               PROVE  entries[p][n] \in S
    BY DEF NothingDetached, Resolvable
  <2>0. DbTypes /\ Occupied /\ Acyclic
    BY DEF IInv, DbInv
  <2> DEFINE T == {c \in Inodes : c \notin S /\ Named(c)}
  <2>1. ASSUME NEW c \in T
        PROVE  \E q \in T, m \in Names : entries[q][m] = c
    <3>1. PICK q \in Inodes, m \in Names : entries[q][m] = c
      BY DEF Named
    <3>2. c # None
      BY DEF None, Inodes
    <3>3. q \notin S
      BY <3>1, <3>2
    <3>4. Named(q)
      BY <2>0, <3>1, <3>2, <3>3 DEF Occupied
    <3>. QED  BY <3>1, <3>3, <3>4
  <2>2. T \in SUBSET Inodes
    OBVIOUS
  <2>3. AcyclicIn(entries)
    BY <2>0, AcyclicIsAcyclicIn
  <2>4. T = {}
    <3> HIDE DEF T
    <3>. QED  BY <2>1, <2>2, <2>3 DEF AcyclicIn
  <2>5. entries[p][n] \in Inodes /\ Named(entries[p][n])
    BY <2>0 DEF DbTypes, Named
  <2>. QED  BY <2>4, <2>5
<1>. QED  BY Invariant, <1>1, PTL

\* The four parts of a tree together.
THEOREM TreeKept == Spec => []TreeShape
<1>1. EntriesLive /\ OneNamePerDir /\ Acyclic /\ NothingDetached => TreeShape
  BY DEF TreeShape
<1>. QED  BY EntriesStayLive, DirsKeepOneName, NoCycles, NothingGetsDetached, <1>1, PTL

\* A row that was given out keeps its kind or goes.
LEMMA NumberStep ==
    ASSUME IInv, [Next]_vars, NEW i \in Inodes, i < nextInode
    PROVE  kind'[i] \in {kind[i], "none"}
<1>0. DbTypes /\ SessionTypes
  BY DEF IInv, DbInv, SessionInv
<1>1. ASSUME NEW k, InsertNode(k)
      PROVE  kind'[i] = kind[i]
  BY <1>0, <1>1 DEF InsertNode, NewInode, DbTypes, Inodes
<1>2. CASE kind' = kind
  BY <1>2
<1>3. CASE Reclaim
  BY <1>0, <1>3 DEF Reclaim, DbTypes, SessionTypes
<1>4. ASSUME NEW p \in Inodes, NEW n \in Names,
             \/ Mkdir(p, n) \/ Rmdir(p, n) \/ CreateNew(p, n) \/ CreateExisting(p, n)
             \/ Open(p, n) \/ Symlink(p, n) \/ Unlink(p, n)
      PROVE  kind'[i] \in {kind[i], "none"}
  <2>1. CASE Rmdir(p, n)
    BY <1>0, <2>1 DEF Rmdir, DbTypes
  <2>. QED  BY <1>1, <1>2, <1>4, <2>1 DEF Mkdir, CreateNew, CreateExisting, Open, Symlink, Unlink
<1>5. ASSUME NEW p \in Inodes, NEW q \in Inodes, NEW m \in Names, NEW n \in Names,
             Link(p, m, q, n) \/ RenameMove(p, m, q, n) \/ RenameReplace(p, m, q, n)
      PROVE  kind'[i] \in {kind[i], "none"}
  <2>1. CASE RenameReplace(p, m, q, n)
    BY <1>0, <2>1 DEF RenameReplace, DbTypes
  <2>. QED  BY <1>2, <1>5, <2>1 DEF Link, RenameMove
<1>. QED  BY <1>2, <1>3, <1>4, <1>5 DEF Next, vars, Reopen, db, ReclaimFails, CloseFd

\* AUTOINCREMENT never hands a number out twice, so an fd or a number of the
\* kernel that outlives its row never comes to stand for another file.
THEOREM NumbersRetire == Spec => NumbersNotReused
<1>1. ASSUME IInv, [Next]_vars, NEW i \in Inodes, i < nextInode
      PROVE  kind'[i] \in {kind[i], "none"}
  BY <1>1, NumberStep
<1>2. IInv /\ [Next]_vars =>
         [\A i \in Inodes : i < nextInode => kind'[i] \in {kind[i], "none"}]_vars
  BY <1>1
<1>. QED  BY Invariant, <1>2, PTL DEF Spec, NumbersNotReused

\* Whatever fds are open, unlink and close_fd never delete the row of a file or
\* symlink that one of them refers to: only a rename over its name does.
THEOREM OpenNodesSurvive == Spec => OpenNodeSurvives
<1>1. ASSUME IInv, [Next]_vars, NEW i \in Inodes, kind[i] \in {"file", "symlink"},
             kind'[i] = "none", \E f \in Fds : fds[f] = i
      PROVE  \E p \in Inodes, n \in Names : entries[p][n] = i /\ Overwrites(p, n)
  <2>0. DbTypes /\ SessionTypes /\ PendingUnused
    BY <1>1 DEF IInv, DbInv, SessionInv
  <2>1. kind' # kind
    BY <1>1
  <2>2. CASE Reclaim
    BY <1>1, <2>0, <2>2 DEF Reclaim, DbTypes, SessionTypes, PendingUnused
  <2>3. ASSUME NEW k \in {"file", "dir", "symlink"}, InsertNode(k)
        PROVE  FALSE
    BY <1>1, <2>0, <2>3 DEF InsertNode, NewInode, DbTypes
  <2>4. ASSUME NEW p \in Inodes, NEW n \in Names,
               \/ Mkdir(p, n) \/ Rmdir(p, n) \/ CreateNew(p, n) \/ CreateExisting(p, n)
               \/ Open(p, n) \/ Symlink(p, n) \/ Unlink(p, n)
        PROVE  FALSE
    <3>1. CASE Rmdir(p, n)
      BY <1>1, <2>0, <3>1 DEF Rmdir, DbTypes
    <3>. QED  BY <2>1, <2>3, <2>4, <3>1 DEF Mkdir, CreateNew, CreateExisting, Open, Symlink, Unlink
  <2>5. ASSUME NEW p \in Inodes, NEW q \in Inodes, NEW m \in Names, NEW n \in Names,
               Link(p, m, q, n) \/ RenameMove(p, m, q, n) \/ RenameReplace(p, m, q, n)
        PROVE  entries[q][n] = i /\ Overwrites(q, n)
    <3>1. RenameReplace(p, m, q, n)
      BY <2>1, <2>5 DEF Link, RenameMove
    <3>2. entries[q][n] = i
      BY <1>1, <2>0, <3>1 DEF RenameReplace, DbTypes
    <3>3. entries'[q][n] = entries[p][m] /\ entries[p][m] # None /\ entries[p][m] # entries[q][n]
      BY <2>0, <3>1 DEF RenameReplace, DbTypes
    <3>4. entries[q][n] # None
      BY <3>1 DEF RenameReplace
    <3>. QED  BY <3>2, <3>3, <3>4 DEF Overwrites
  <2>. QED  BY <1>1, <2>1, <2>2, <2>4, <2>5 DEF Next, vars, Reopen, db, ReclaimFails, CloseFd
<1>2. IInv /\ [Next]_vars =>
         [\A i \in Inodes :
             /\ kind[i] \in {"file", "symlink"} /\ kind'[i] = "none"
             /\ \E f \in Fds : fds[f] = i
             => \E p \in Inodes, n \in Names : entries[p][n] = i /\ Overwrites(p, n)]_vars
  BY <1>1
<1>. QED  BY Invariant, <1>2, PTL DEF Spec, OpenNodeSurvives

-----------------------------------------------------------------------------
(* Link counts and subdirectories move together.                           *)

\* The link count of d beyond its subdirectories stays as it is.
NoDrift(d) ==
    nlink'[d] - Cardinality(SubdirsIn(entries', kind', d))
        = nlink[d] - Cardinality(SubdirsIn(entries, kind, d))

LEMMA NoDriftKeepsExcess ==
    ASSUME NEW d \in Inodes, nlink[d] \in Int, nlink'[d] \in Int, NoDrift(d)
    PROVE  Excess(d)' = Excess(d)
<1>1. /\ Cardinality(SubdirsIn(entries', kind', d)) \in Nat
      /\ Cardinality(SubdirsIn(entries, kind, d)) \in Nat
  BY SubdirsFinite
<1>2. /\ Excess(d) = nlink[d] - (2 + Cardinality(SubdirsIn(entries, kind, d)))
      /\ Excess(d)' = nlink'[d] - (2 + Cardinality(SubdirsIn(entries', kind', d)))
  BY DEF Excess, Subdirs, SubdirsIn
<1>. QED  BY <1>1, <1>2 DEF NoDrift

\* Rows that appear or go matter to nobody's subdirectories unless they are
\* directories.
LEMMA SameDirs ==
    ASSUME NEW E, NEW d, \A n \in Names : E[d][n] # None => E[d][n] \in Inodes,
           \A j \in Inodes : kind'[j] = "dir" <=> kind[j] = "dir"
    PROVE  SubdirsIn(E, kind', d) = SubdirsIn(E, kind, d)
BY DEF SubdirsIn

\* Setting one entry, of what is no directory for what is none either.
LEMMA SetsFile ==
    ASSUME DbTypes, NEW p \in Inodes, NEW n \in Names, NEW x,
           Sets(entries, entries', p, n, x), kind' = kind,
           x # None => kind[x] # "dir",
           entries[p][n] # None => kind[entries[p][n]] # "dir",
           NEW d \in Inodes, nlink'[d] = nlink[d]
    PROVE  NoDrift(d)
<1>1. Cardinality(SubdirsIn(entries, kind, d)) \in Nat
  BY SubdirsFinite
<1>2. Cardinality(SubdirsIn(entries', kind, d)) = Cardinality(SubdirsIn(entries, kind, d))
  <2>1. CASE d = p
    <3>1. Cardinality(SubdirsIn(entries', kind, p)) = Cardinality(SubdirsIn(entries, kind, p))
             + (IF x # None /\ kind[x] = "dir" THEN 1 ELSE 0)
             - (IF entries[p][n] # None /\ kind[entries[p][n]] = "dir" THEN 1 ELSE 0)
      BY SubdirCount
    <3>. QED  BY <1>1, <2>1, <3>1
  <2>2. CASE d # p
    BY <2>2, SubdirsElsewhere
  <2>. QED  BY <2>1, <2>2
<1>. QED  BY <1>2 DEF NoDrift

\* mkdir, create and symlink.
LEMMA InsertDrift ==
    ASSUME DbInv, NEW k \in {"file", "dir", "symlink"}, NEW p \in Inodes, NEW n \in Names,
           Inserts(k, p, n), NEW d \in Inodes, kind[d] = "dir"
    PROVE  NoDrift(d)
<1> DEFINE x == nextInode
<1>0. DbTypes /\ Rows /\ EntriesLive
  BY DEF DbInv
<1>1. /\ x \in Inodes /\ kind' = [kind EXCEPT ![x] = k]
      /\ ResolvesParent(p) /\ entries[p][n] = None
      /\ entries' = [entries EXCEPT ![p][n] = x]
      /\ nlink' = [nlink EXCEPT ![x] = InitialNlink(k), ![p] = IF k = "dir" THEN @ + 1 ELSE @]
  BY DEF Inserts, InsertNode, NewInode
<1>2. kind[x] = "none" /\ x # d /\ x # None
  BY <1>0, <1>1 DEF Rows, Inodes, None
<1> HIDE DEF x
<1>3. x # p
  BY <1>1, <1>2 DEF ResolvesParent
<1>4. Sets(entries, entries', p, n, x)
  BY <1>0, <1>1 DEF Sets, DbTypes
<1>5. nlink'[d] = IF d = p /\ k = "dir" THEN nlink[d] + 1 ELSE nlink[d]
  BY <1>0, <1>1, <1>2, <1>3 DEF DbTypes
<1>6. SubdirsIn(entries, kind', d) = SubdirsIn(entries, kind, d)
  <2>1. \A m \in Names : entries[d][m] # x
    BY <1>0, <1>2 DEF EntriesLive
  <2>2. \A i \in Inodes : i # x => kind'[i] = kind[i]
    BY <1>0, <1>1 DEF DbTypes
  <2>. QED  BY <1>0, <2>1, <2>2, SubdirKindStep
<1>7. Cardinality(SubdirsIn(entries, kind, d)) \in Nat /\ nlink[d] \in Int
  BY <1>0, SubdirsFinite DEF DbTypes
<1>8. CASE d = p
  <2>1. Cardinality(SubdirsIn(entries', kind', p)) = Cardinality(SubdirsIn(entries, kind', p))
           + (IF x # None /\ kind'[x] = "dir" THEN 1 ELSE 0)
           - (IF entries[p][n] # None /\ kind'[entries[p][n]] = "dir" THEN 1 ELSE 0)
    BY <1>4, SubdirCount
  <2>2. kind'[x] = k
    BY <1>0, <1>1 DEF DbTypes
  <2>. QED  BY <1>1, <1>2, <1>5, <1>6, <1>7, <1>8, <2>1, <2>2 DEF NoDrift
<1>9. CASE d # p
  <2>1. SubdirsIn(entries', kind', d) = SubdirsIn(entries, kind', d)
    BY <1>4, <1>9, SubdirsElsewhere
  <2>. QED  BY <1>5, <1>6, <1>9, <2>1 DEF NoDrift
<1>. QED  BY <1>8, <1>9

LEMMA RmdirDrift ==
    ASSUME DbInv, NEW p \in Inodes, NEW n \in Names, Rmdir(p, n),
           NEW d \in Inodes, kind'[d] = "dir"
    PROVE  NoDrift(d)
<1> DEFINE x == entries[p][n]
<1>0. DbTypes /\ OneNamePerDir
  BY DEF DbInv
<1>1. x \in Inodes /\ x # None /\ kind[x] = "dir" /\ IsEmpty(x)
  BY <1>0 DEF Rmdir, DbTypes
<1>2. x # p
  BY <1>1 DEF IsEmpty, NoListing
<1>3. Sets(entries, entries', p, n, None)
  BY <1>0 DEF Rmdir, Sets, DbTypes
<1>4. \A j \in Inodes : kind'[j] = IF j = x THEN "none" ELSE kind[j]
  BY <1>0, <1>1 DEF Rmdir, DbTypes
<1>5. d # x
  BY <1>4
<1>6. nlink'[d] = IF d = p THEN nlink[d] - 1 ELSE nlink[d]
  BY <1>0, <1>1, <1>2, <1>5 DEF Rmdir, DbTypes
<1>7. SubdirsIn(entries', kind', d) = SubdirsIn(entries', kind, d)
  <2>1. \A m \in Names : entries'[d][m] # None => entries'[d][m] \in Inodes
    BY <1>0, <1>3 DEF Sets, DbTypes
  <2>2. \A m \in Names : entries'[d][m] # x
    BY <1>0, <1>1, <1>3 DEF Sets, OneNamePerDir
  <2>3. \A j \in Inodes : j # x => kind'[j] = kind[j]
    BY <1>4
  <2> HIDE DEF x
  <2>. QED  BY <2>1, <2>2, <2>3, SubdirKind
<1>8. Cardinality(SubdirsIn(entries, kind, d)) \in Nat /\ nlink[d] \in Int
  BY <1>0, SubdirsFinite DEF DbTypes
<1>9. CASE d = p
  <2>1. Cardinality(SubdirsIn(entries', kind, p)) = Cardinality(SubdirsIn(entries, kind, p))
           + (IF None # None /\ kind[None] = "dir" THEN 1 ELSE 0)
           - (IF entries[p][n] # None /\ kind[entries[p][n]] = "dir" THEN 1 ELSE 0)
    BY <1>3, SubdirCount
  <2>. QED  BY <1>1, <1>6, <1>7, <1>8, <1>9, <2>1 DEF NoDrift
<1>10. CASE d # p
  <2>1. SubdirsIn(entries', kind, d) = SubdirsIn(entries, kind, d)
    BY <1>3, <1>10, SubdirsElsewhere
  <2>. QED  BY <1>6, <1>7, <1>10, <2>1 DEF NoDrift
<1>. QED  BY <1>9, <1>10

LEMMA MoveDrift ==
    ASSUME DbInv, NEW sp \in Inodes, NEW sn \in Names, NEW dp \in Inodes, NEW dn \in Names,
           RenameMove(sp, sn, dp, dn), NEW d \in Inodes
    PROVE  NoDrift(d)
<1>0. DbTypes
  BY DEF DbInv
<1>1. entries[sp][sn] # None /\ entries[dp][dn] = None /\ kind' = kind
  BY DEF RenameMove
<1>2. Renamed(sp, sn, dp, dn)
  BY <1>0, <1>1 DEF RenameMove, Renamed, DbTypes
<1>3. nlink'[d] = IF kind[entries[sp][sn]] = "dir" /\ sp # dp
                  THEN IF d = sp THEN nlink[d] - 1
                       ELSE IF d = dp THEN nlink[d] + 1 ELSE nlink[d]
                  ELSE nlink[d]
  BY <1>0 DEF RenameMove, DbTypes, ChangesParent
<1>4. Cardinality(SubdirsIn(entries, kind, d)) \in Nat /\ nlink[d] \in Int
  BY <1>0, SubdirsFinite DEF DbTypes
<1>5. Cardinality(SubdirsIn(entries', kind, d))
         = Cardinality(SubdirsIn(entries, kind, d))
           - (IF d = sp /\ kind[entries[sp][sn]] = "dir" THEN 1 ELSE 0)
           + (IF d = dp /\ kind[entries[sp][sn]] = "dir" THEN 1 ELSE 0)
           - (IF d = dp /\ entries[dp][dn] # None /\ kind[entries[dp][dn]] = "dir"
              THEN 1 ELSE 0)
  BY <1>1, <1>2, RenameSubdirs
<1>. QED  BY <1>1, <1>3, <1>4, <1>5 DEF NoDrift

\* A rename over a directory keeps the counts of all but that directory and the
\* one it happens in, a rename over a file those of all directories.
LEMMA ReplaceDrift ==
    ASSUME DbInv, NEW sp \in Inodes, NEW sn \in Names, NEW dp \in Inodes, NEW dn \in Names,
           RenameReplace(sp, sn, dp, dn), NEW d \in Inodes, kind[d] = "dir",
           kind[entries[dp][dn]] = "dir" => d # dp /\ d # entries[dp][dn]
    PROVE  NoDrift(d)
<1> DEFINE s == entries[sp][sn]
           x == entries[dp][dn]
<1>0. DbTypes /\ EntriesLive /\ DirNlink
  BY DEF DbInv
<1>1. s # None /\ x # None /\ s # x /\ Replaceable(s, x)
  BY DEF RenameReplace
<1>2. s \in Inodes /\ x \in Inodes /\ nlink[x] \in Int
  BY <1>0, <1>1 DEF DbTypes
<1>3. Renamed(sp, sn, dp, dn)
  BY <1>0, <1>1 DEF RenameReplace, Renamed, DbTypes
<1>4. Cardinality(SubdirsIn(entries, kind, d)) \in Nat /\ nlink[d] \in Int
  BY <1>0, SubdirsFinite DEF DbTypes
<1>5. Cardinality(SubdirsIn(entries', kind, d))
         = Cardinality(SubdirsIn(entries, kind, d))
           - (IF d = sp /\ kind[entries[sp][sn]] = "dir" THEN 1 ELSE 0)
           + (IF d = dp /\ kind[entries[sp][sn]] = "dir" THEN 1 ELSE 0)
           - (IF d = dp /\ entries[dp][dn] # None /\ kind[entries[dp][dn]] = "dir"
              THEN 1 ELSE 0)
  BY <1>1, <1>3, RenameSubdirs
<1>6. \A j \in Inodes : kind'[j] = IF j = x /\ nlink[x] - 1 = 0 THEN "none" ELSE kind[j]
  BY <1>0, <1>2 DEF RenameReplace, DbTypes
<1>7. \A m \in Names : entries'[d][m] # None => entries'[d][m] \in Inodes
  BY <1>0, <1>2, <1>3 DEF Renamed, DbTypes
<1>8. d # x
  BY <1>0
<1>9. CASE kind[s] = "dir"
  <2>1. kind[x] = "dir" /\ d # dp
    BY <1>1, <1>9 DEF Replaceable
  <2>2. nlink[x] - 1 # 0
    <3>1. Named(x) /\ Cardinality(SubdirsIn(entries, kind, x)) \in Nat
      BY SubdirsFinite DEF Named
    <3>2. nlink[x] >= 2 + Cardinality(SubdirsIn(entries, kind, x))
      BY <1>0, <1>2, <2>1, <3>1 DEF DirNlink, Subdirs, SubdirsIn
    <3> HIDE DEF x
    <3>. QED  BY <1>2, <3>1, <3>2
  <2>3. SubdirsIn(entries', kind', d) = SubdirsIn(entries', kind, d)
    <3>1. \A j \in Inodes : kind'[j] = "dir" <=> kind[j] = "dir"
      BY <1>6, <2>2
    <3>. QED  BY <1>7, <3>1, SameDirs
  <2>4. nlink'[d] = IF d = sp THEN nlink[d] - 1 ELSE nlink[d]
    BY <1>0, <1>2, <1>8, <1>9, <2>1 DEF RenameReplace, ChangesParent, DbTypes
  <2>. QED  BY <1>4, <1>5, <1>9, <2>1, <2>3, <2>4 DEF NoDrift
<1>10. CASE kind[s] # "dir"
  <2>1. kind[x] # "dir"
    BY <1>1, <1>10 DEF Replaceable
  <2>2. SubdirsIn(entries', kind', d) = SubdirsIn(entries', kind, d)
    <3>1. \A j \in Inodes : kind'[j] = "dir" <=> kind[j] = "dir"
      BY <1>6, <2>1
    <3>. QED  BY <1>7, <3>1, SameDirs
  <2>3. nlink'[d] = nlink[d]
    BY <1>0, <1>2, <1>8, <1>10 DEF RenameReplace, ChangesParent, DbTypes
  <2>. QED  BY <1>4, <1>5, <1>10, <2>1, <2>2, <2>3 DEF NoDrift
<1>. QED  BY <1>9, <1>10

\* A step that changes no table.
LEMMA UnchangedDrift ==
    ASSUME UNCHANGED <<kind, nlink, entries>>, NEW d
    PROVE  NoDrift(d)
BY DEF NoDrift

\* Every step but a rename over a directory moves the link count of a live
\* directory and its subdirectories together; that rename concerns the
\* directory it replaces and the one it happens in, and no other.  So what fsck
\* reports of link counts always goes back to such a rename.
THEOREM OnlyRenameDrifts == Spec => DirNlinkDrift
<1>1. ASSUME IInv, [Next]_vars, NEW d \in Inodes, kind[d] = "dir", kind'[d] = "dir",
             Excess(d)' # Excess(d)
      PROVE  \E p \in Inodes, n \in Names :
                /\ Overwrites(p, n)
                /\ kind[entries[p][n]] = "dir"
                /\ d \in {p, entries[p][n]}
  <2>0. /\ DbInv /\ SessionInv /\ DbTypes /\ Rows /\ SessionTypes /\ PendingUnused /\ DbTypes'
    <3>1. DbInv'
      BY <1>1, DbStep DEF IInv
    <3>. QED  BY <1>1, <3>1 DEF IInv, DbInv, SessionInv
  <2>1. ~ NoDrift(d)
    <3>1. nlink[d] \in Int /\ nlink'[d] \in Int
      BY <2>0 DEF DbTypes
    <3>. QED  BY <1>1, <3>1, NoDriftKeepsExcess
  <2>2. ~ UNCHANGED <<kind, nlink, entries>>
    BY <2>1, UnchangedDrift
  <2>3. ASSUME Reclaim PROVE FALSE
    <3>1. /\ pending \in Inodes /\ kind[pending] \in {"file", "symlink"}
          /\ entries' = entries /\ kind' = [kind EXCEPT ![pending] = "none"]
          /\ nlink' = [nlink EXCEPT ![pending] = 0]
      BY <2>0, <2>3 DEF Reclaim, SessionTypes, PendingUnused
    <3>2. nlink'[d] = nlink[d]
      BY <1>1, <2>0, <3>1 DEF DbTypes
    <3>3. SubdirsIn(entries, kind', d) = SubdirsIn(entries, kind, d)
      <4>1. \A j \in Inodes : kind'[j] = "dir" <=> kind[j] = "dir"
        BY <2>0, <3>1 DEF DbTypes
      <4>2. \A n \in Names : entries[d][n] # None => entries[d][n] \in Inodes
        BY <2>0 DEF DbTypes
      <4>. QED  BY <4>1, <4>2, SameDirs
    <3>. QED  BY <2>1, <3>1, <3>2, <3>3 DEF NoDrift
  <2>4. ASSUME NEW p \in Inodes, NEW n \in Names,
               \/ Mkdir(p, n) \/ Rmdir(p, n) \/ CreateNew(p, n) \/ CreateExisting(p, n)
               \/ Open(p, n) \/ Symlink(p, n) \/ Unlink(p, n)
        PROVE  FALSE
    <3>1. CASE Mkdir(p, n) \/ CreateNew(p, n) \/ Symlink(p, n)
      <4>1. \E k \in {"file", "dir", "symlink"} : Inserts(k, p, n)
        BY <2>0, <3>1, InsertsRow
      <4>. QED  BY <1>1, <2>0, <2>1, <4>1, InsertDrift
    <3>2. CASE Rmdir(p, n)
      BY <1>1, <2>0, <2>1, <3>2, RmdirDrift
    <3>3. CASE Unlink(p, n)
      <4>1. /\ entries[p][n] \in Inodes /\ kind[entries[p][n]] # "dir" /\ kind' = kind
            /\ nlink' = [nlink EXCEPT ![entries[p][n]] = @ - 1]
        BY <2>0, <3>3 DEF Unlink, DbTypes
      <4>2. Sets(entries, entries', p, n, None)
        BY <2>0, <3>3 DEF Unlink, Sets, DbTypes
      <4>3. nlink'[d] = nlink[d]
        BY <1>1, <2>0, <4>1 DEF DbTypes
      <4>. QED  BY <2>0, <2>1, <4>1, <4>2, <4>3, SetsFile
    <3>. QED  BY <2>2, <2>4, <3>1, <3>2, <3>3 DEF CreateExisting, Open
  <2>5. ASSUME NEW p \in Inodes, NEW q \in Inodes, NEW m \in Names, NEW n \in Names,
               Link(p, m, q, n) \/ RenameMove(p, m, q, n) \/ RenameReplace(p, m, q, n)
        PROVE  /\ Overwrites(q, n)
               /\ kind[entries[q][n]] = "dir"
               /\ d \in {q, entries[q][n]}
    <3>1. CASE Link(p, m, q, n)
      <4>1. /\ entries[p][m] \in Inodes /\ kind[entries[p][m]] # "dir" /\ kind' = kind
            /\ entries[q][n] = None
            /\ nlink' = [nlink EXCEPT ![entries[p][m]] = @ + 1]
        BY <2>0, <3>1 DEF Link, Linkable, DbTypes
      <4>2. Sets(entries, entries', q, n, entries[p][m])
        BY <2>0, <3>1 DEF Link, Sets, DbTypes
      <4>3. nlink'[d] = nlink[d]
        BY <1>1, <2>0, <4>1 DEF DbTypes
      <4>. QED  BY <2>0, <2>1, <4>1, <4>2, <4>3, SetsFile
    <3>2. CASE RenameMove(p, m, q, n)
      BY <2>0, <2>1, <3>2, MoveDrift
    <3>3. CASE RenameReplace(p, m, q, n)
      <4>1. kind[entries[q][n]] = "dir" /\ d \in {q, entries[q][n]}
        BY <1>1, <2>0, <2>1, <3>3, ReplaceDrift
      <4>2. /\ entries'[q][n] = entries[p][m] /\ entries[p][m] # None
            /\ entries[p][m] # entries[q][n] /\ entries[q][n] # None
        BY <2>0, <3>3 DEF RenameReplace, DbTypes
      <4>. QED  BY <4>1, <4>2 DEF Overwrites
    <3>. QED  BY <2>5, <3>1, <3>2, <3>3
  <2>. QED  BY <1>1, <2>2, <2>3, <2>4, <2>5 DEF Next, vars, Reopen, db, ReclaimFails, CloseFd
<1>2. IInv /\ [Next]_vars =>
         [\A d \in Inodes :
             kind[d] = "dir" /\ kind'[d] = "dir" /\ Excess(d)' # Excess(d)
             => \E p \in Inodes, n \in Names :
                   /\ Overwrites(p, n)
                   /\ kind[entries[p][n]] = "dir"
                   /\ d \in {p, entries[p][n]}]_vars
  BY <1>1
<1>. QED  BY Invariant, <1>2, PTL DEF Spec, DirNlinkDrift

-----------------------------------------------------------------------------
(* Nodes that lose their last name or fd.                                  *)

\* What makes i a straggler, and what does after the step.
Unused(i) ==
    /\ kind[i] # "none" /\ i # pending
    /\ \A p \in Inodes, n \in Names : entries[p][n] # i
    /\ \A f \in Fds : fds[f] # i

UnusedNext(i) ==
    /\ kind'[i] # "none" /\ i # pending'
    /\ \A p \in Inodes, n \in Names : entries'[p][n] # i
    /\ \A f \in Fds : fds'[f] # i

LEMMA StragglerUnused ==
    ASSUME NEW i \in Inodes
    PROVE  /\ i \in Stragglers <=> i # ROOT_INODE /\ Unused(i)
           /\ i \in Stragglers' <=> i # ROOT_INODE /\ UnusedNext(i)
<1>1. /\ Links(i) = {} <=> \A p \in Inodes, n \in Names : entries[p][n] # i
      /\ Links(i)' = {} <=> \A p \in Inodes, n \in Names : entries'[p][n] # i
  <2>1. ASSUME NEW E PROVE LinksIn(E, i) = {} <=> \A p \in Inodes, n \in Names : E[p][n] # i
    <3>1. \A p \in Inodes, n \in Names : E[p][n] = i => <<p, n>> \in LinksIn(E, i)
      BY DEF LinksIn
    <3>2. \A e \in LinksIn(E, i) : e[1] \in Inodes /\ e[2] \in Names /\ E[e[1]][e[2]] = i
      BY DEF LinksIn
    <3>. QED  BY <3>1, <3>2
  <2>2. Links(i) = LinksIn(entries, i) /\ Links(i)' = LinksIn(entries', i)
    BY DEF Links, LinksIn
  <2>. QED  BY <2>1, <2>2
<1>. QED  BY <1>1 DEF Stragglers, Unused, UnusedNext

LEMMA NoLinks ==
    ASSUME NEW E, NEW i, \A p \in Inodes, n \in Names : E[p][n] # i
    PROVE  Cardinality(LinksIn(E, i)) = 0
<1>1. LinksIn(E, i) = {}
  BY DEF LinksIn
<1>. QED  BY <1>1, FS_EmptySet

LEMMA NoFds ==
    ASSUME NEW t, NEW i, \A f \in Fds : t[f] # i
    PROVE  OpenCount(t, i) = 0
<1>1. {f \in Fds : t[f] = i} = {}
  OBVIOUS
<1>. QED  BY <1>1, FS_EmptySet DEF OpenCount

\* The last fd of an unlinked file: close_fd goes on to delete the row.
LEMMA CloseStraggler ==
    ASSUME DbInv, SessionInv, NEW f \in Fds, CloseFd(f), NEW i \in Inodes,
           kind[i] # "dir", UnusedNext(i)
    PROVE  Unused(i)
<1>0. DbTypes /\ SessionTypes /\ FileNlinkExact
  BY DEF DbInv, SessionInv
<1>1. /\ pending = None /\ fds' = [fds EXCEPT ![f] = None] /\ kind' = kind /\ entries' = entries
      /\ pending' = IF kind[fds[f]] = "none" THEN None
                    ELSE ReclaimNext(fds[f], nlink[fds[f]], OpenCount(fds', fds[f]))
  BY DEF CloseFd
<1>2. i # None
  BY DEF Inodes, None
<1>3. fds[f] # i
  <2> SUFFICES ASSUME fds[f] = i PROVE FALSE
    OBVIOUS
  <2>1. kind[i] \in {"file", "symlink"}
    BY <1>0, <1>1 DEF DbTypes, UnusedNext
  <2>2. nlink[i] = Cardinality(LinksIn(entries, i))
    BY <1>0, <2>1 DEF FileNlinkExact, Links, LinksIn
  <2>3. Cardinality(LinksIn(entries, i)) = 0
    BY <1>1, NoLinks DEF UnusedNext
  <2>4. OpenCount(fds', i) = 0
    <3>1. \A g \in Fds : fds'[g] # i
      BY DEF UnusedNext
    <3>. QED  BY <3>1, NoFds
  <2>5. pending' = i
    BY <1>1, <2>1, <2>2, <2>3, <2>4 DEF ReclaimNext
  <2>. QED  BY <2>5 DEF UnusedNext
<1>. QED  BY <1>0, <1>1, <1>2, <1>3 DEF Unused, UnusedNext, SessionTypes

\* The last name of a closed file: unlink goes on to delete the row.
LEMMA UnlinkStraggler ==
    ASSUME DbInv, SessionInv, NEW p \in Inodes, NEW n \in Names, Unlink(p, n),
           NEW i \in Inodes, UnusedNext(i)
    PROVE  Unused(i)
<1>0. DbTypes /\ FileNlinkExact
  BY DEF DbInv
<1>1. /\ pending = None /\ fds' = fds /\ kind' = kind /\ kind[entries[p][n]] # "dir"
      /\ pending' = ReclaimNext(entries[p][n], nlink[entries[p][n]] - 1,
                                OpenCount(fds, entries[p][n]))
  BY DEF Unlink, RequireWritable
<1>2. i # None
  BY DEF Inodes, None
<1>3. Sets(entries, entries', p, n, None)
  BY <1>0 DEF Unlink, Sets, DbTypes
<1>4. entries[p][n] # i
  <2> SUFFICES ASSUME entries[p][n] = i PROVE FALSE
    OBVIOUS
  <2>1. kind[i] \in {"file", "symlink"}
    BY <1>0, <1>1 DEF DbTypes, UnusedNext
  <2>2. nlink[i] = Cardinality(LinksIn(entries, i))
    BY <1>0, <2>1 DEF FileNlinkExact, Links, LinksIn
  <2>3. Cardinality(LinksIn(entries', i)) = 0
    BY NoLinks DEF UnusedNext
  <2>4. Cardinality(LinksIn(entries', i))
           = Cardinality(LinksIn(entries, i)) + (IF None = i THEN 1 ELSE 0)
                                              - (IF entries[p][n] = i THEN 1 ELSE 0)
    BY <1>3, LinkCount
  <2>5. Cardinality(LinksIn(entries, i)) \in Nat
    BY LinksFinite
  <2>6. nlink[i] - 1 = 0
    BY <1>2, <2>2, <2>3, <2>4, <2>5
  <2>7. OpenCount(fds, i) = 0
    BY <1>1, NoFds DEF UnusedNext
  <2>8. pending' = i
    BY <1>1, <2>6, <2>7 DEF ReclaimNext
  <2>. QED  BY <2>8 DEF UnusedNext
<1>5. \A q \in Inodes, m \in Names : entries[q][m] # i
  BY <1>3, <1>4 DEF Sets, UnusedNext
<1>. QED  BY <1>1, <1>2, <1>5 DEF Unused, UnusedNext

\* The last name of a file that a rename overwrites: its row goes with it.
LEMMA ReplaceStraggler ==
    ASSUME DbInv, NEW sp \in Inodes, NEW sn \in Names, NEW dp \in Inodes, NEW dn \in Names,
           RenameReplace(sp, sn, dp, dn), NEW i \in Inodes, kind[i] # "dir", UnusedNext(i)
    PROVE  Unused(i)
<1>0. DbTypes /\ FileNlinkExact
  BY DEF DbInv
<1>1. /\ entries[sp][sn] # None /\ entries[dp][dn] # None /\ entries[sp][sn] # entries[dp][dn]
      /\ UNCHANGED <<fds, pending>>
      /\ kind' = IF nlink[entries[dp][dn]] - 1 = 0
                 THEN [kind EXCEPT ![entries[dp][dn]] = "none"] ELSE kind
  BY DEF RenameReplace
<1>2. Renamed(sp, sn, dp, dn)
  BY <1>0, <1>1 DEF RenameReplace, Renamed, DbTypes
<1>3. kind[i] # "none"
  BY <1>0, <1>1 DEF UnusedNext, DbTypes
<1>4. entries[dp][dn] # i
  <2> SUFFICES ASSUME entries[dp][dn] = i PROVE FALSE
    OBVIOUS
  <2>1. kind[i] \in {"file", "symlink"}
    BY <1>0, <1>3 DEF DbTypes
  <2>2. nlink[i] = Cardinality(LinksIn(entries, i))
    BY <1>0, <2>1 DEF FileNlinkExact, Links, LinksIn
  <2>3. Cardinality(LinksIn(entries', i)) = 0
    BY NoLinks DEF UnusedNext
  <2>4. Cardinality(LinksIn(entries', i))
           = Cardinality(LinksIn(entries, i)) - (IF entries[dp][dn] = i THEN 1 ELSE 0)
    BY <1>2, RenameLinks
  <2>5. Cardinality(LinksIn(entries, i)) \in Nat
    BY LinksFinite
  <2>6. nlink[i] - 1 = 0
    BY <2>2, <2>3, <2>4, <2>5
  <2>7. kind'[i] = "none"
    BY <1>0, <1>1, <2>6 DEF DbTypes
  <2>. QED  BY <2>7 DEF UnusedNext
<1>5. \A q \in Inodes, m \in Names : entries[q][m] # i
  BY <1>2, <1>4 DEF Renamed, UnusedNext
<1>. QED  BY <1>1, <1>3, <1>5 DEF Unused, UnusedNext

\* Fd numbers from nextFd on are not in use.
FreshFds == \A f \in Fds : f >= nextFd => fds[f] = None

\* Opening takes a number that is not in use, so it drops nobody's fd.
LEMMA FdsComeInOrder == Spec => []FreshFds
<1>1. Init => FreshFds
  BY DEF Init, FreshFds
<1>2. IInv /\ FreshFds /\ [Next]_vars => FreshFds'
  <2> SUFFICES ASSUME IInv, FreshFds, [Next]_vars PROVE FreshFds'
    OBVIOUS
  <2>0. SessionTypes
    BY DEF IInv, SessionInv
  <2>1. ASSUME UNCHANGED <<fds, nextFd>> PROVE FreshFds'
    BY <2>1 DEF FreshFds
  <2>2. ASSUME NEW x, OpenFd(x) PROVE FreshFds'
    BY <2>0, <2>2 DEF OpenFd, FreshFds, SessionTypes, Fds
  <2>3. CASE Reopen
    BY <2>3 DEF Reopen, FreshFds
  <2>4. ASSUME NEW f \in Fds, CloseFd(f) PROVE FreshFds'
    BY <2>0, <2>4 DEF CloseFd, FreshFds, SessionTypes
  <2>5. ASSUME NEW p \in Inodes, NEW n \in Names,
               \/ Mkdir(p, n) \/ Rmdir(p, n) \/ CreateNew(p, n) \/ CreateExisting(p, n)
               \/ Open(p, n) \/ Symlink(p, n) \/ Unlink(p, n)
        PROVE  FreshFds'
    BY <2>1, <2>2, <2>5
       DEF Mkdir, Rmdir, CreateNew, CreateExisting, Open, Symlink, Unlink, session
  <2>6. ASSUME NEW p \in Inodes, NEW q \in Inodes, NEW m \in Names, NEW n \in Names,
               Link(p, m, q, n) \/ RenameMove(p, m, q, n) \/ RenameReplace(p, m, q, n)
        PROVE  FreshFds'
    BY <2>1, <2>6 DEF Link, RenameMove, RenameReplace
  <2>. QED  BY <2>1, <2>3, <2>4, <2>5, <2>6 DEF Next, vars, Reclaim, ReclaimFails
<1>. QED  BY Invariant, <1>1, <1>2, PTL DEF Spec

\* In a running session no file or symlink is ever left behind without a name
\* and an fd, whichever of unlink, rename and close_fd comes last: that takes
\* the end of the session in between, or a delete that fails.
THEOREM NothingLeftBehind == Spec => StragglersFromLostReclaims
<1>1. ASSUME IInv, FreshFds, [Next]_vars, NEW i \in Inodes, kind[i] # "dir",
             UnusedNext(i), ~Unused(i)
      PROVE  Reopen \/ ReclaimFails
  <2>0. /\ DbInv /\ SessionInv /\ DbTypes /\ Rows /\ EntriesLive /\ SessionTypes /\ i # None
    BY <1>1 DEF IInv, DbInv, SessionInv, Inodes, None
  <2>1. ASSUME UNCHANGED vars PROVE FALSE
    BY <1>1, <2>1 DEF vars, Unused, UnusedNext
  <2>2. ASSUME Reclaim PROVE FALSE
    BY <1>1, <2>0, <2>2 DEF Reclaim, Unused, UnusedNext, DbTypes, SessionTypes
  <2>3. ASSUME NEW f \in Fds, CloseFd(f) PROVE FALSE
    BY <1>1, <2>0, <2>3, CloseStraggler
  <2>4. ASSUME NEW x, OpenFd(x), \A f \in Fds : fds'[f] # i PROVE \A f \in Fds : fds[f] # i
    <3>1. nextFd \in Fds /\ fds[nextFd] = None
      BY <1>1, <2>4 DEF OpenFd, FreshFds, Fds
    <3>. QED  BY <2>0, <2>4, <3>1 DEF OpenFd, SessionTypes
  <2>5. ASSUME NEW p \in Inodes, NEW n \in Names,
               \/ Mkdir(p, n) \/ Rmdir(p, n) \/ CreateNew(p, n) \/ CreateExisting(p, n)
               \/ Open(p, n) \/ Symlink(p, n) \/ Unlink(p, n)
        PROVE  FALSE
    <3>1. CASE Mkdir(p, n) \/ CreateNew(p, n) \/ Symlink(p, n)
      <4>1. /\ entries[p][n] = None /\ nextInode \in Inodes /\ pending' = pending
            /\ entries' = [entries EXCEPT ![p][n] = nextInode]
            /\ \E k \in {"file", "dir", "symlink"} : kind' = [kind EXCEPT ![nextInode] = k]
        BY <3>1 DEF Mkdir, CreateNew, Symlink, InsertNode, NewInode, session
      <4>2. i # nextInode
        BY <1>1, <2>0, <4>1 DEF UnusedNext, DbTypes
      <4>3. kind'[i] = kind[i]
        BY <2>0, <4>1, <4>2 DEF DbTypes
      <4>4. \A q \in Inodes, m \in Names : entries[q][m] # i
        BY <1>1, <2>0, <4>1 DEF UnusedNext, DbTypes
      <4>5. \A f \in Fds : fds[f] # i
        BY <1>1, <2>4, <3>1 DEF Mkdir, CreateNew, Symlink, session, UnusedNext
      <4>. QED  BY <1>1, <4>1, <4>3, <4>4, <4>5 DEF Unused, UnusedNext
    <3>2. CASE Rmdir(p, n)
      <4>1. \A q \in Inodes, m \in Names : entries[q][m] # i
        BY <1>1, <2>0, <3>2 DEF Rmdir, UnusedNext, DbTypes
      <4>2. kind[i] # "none"
        BY <1>1, <2>0, <3>2 DEF Rmdir, UnusedNext, DbTypes
      <4>. QED  BY <1>1, <3>2, <4>1, <4>2 DEF Rmdir, Unused, UnusedNext
    <3>3. CASE CreateExisting(p, n) \/ Open(p, n)
      <4>1. \A f \in Fds : fds[f] # i
        BY <1>1, <2>4, <3>3 DEF CreateExisting, Open, UnusedNext
      <4>. QED  BY <1>1, <3>3, <4>1 DEF CreateExisting, Open, Unused, UnusedNext
    <3>4. CASE Unlink(p, n)
      BY <1>1, <2>0, <3>4, UnlinkStraggler
    <3>. QED  BY <2>5, <3>1, <3>2, <3>3, <3>4
  <2>6. ASSUME NEW p \in Inodes, NEW q \in Inodes, NEW m \in Names, NEW n \in Names,
               Link(p, m, q, n) \/ RenameMove(p, m, q, n) \/ RenameReplace(p, m, q, n)
        PROVE  FALSE
    <3>1. CASE Link(p, m, q, n)
      BY <1>1, <2>0, <3>1 DEF Link, Unused, UnusedNext, DbTypes
    <3>2. CASE RenameMove(p, m, q, n)
      <4>1. entries[p][m] # None /\ entries[q][n] = None
        BY <3>2 DEF RenameMove
      <4>2. Renamed(p, m, q, n)
        BY <2>0, <3>2, <4>1 DEF RenameMove, Renamed, DbTypes
      <4>3. \A r \in Inodes, k \in Names : entries[r][k] # i
        BY <1>1, <2>0, <4>1, <4>2 DEF Renamed, UnusedNext
      <4>. QED  BY <1>1, <3>2, <4>3 DEF RenameMove, Unused, UnusedNext
    <3>3. CASE RenameReplace(p, m, q, n)
      BY <1>1, <2>0, <3>3, ReplaceStraggler
    <3>. QED  BY <2>6, <3>1, <3>2, <3>3
  <2>. QED  BY <1>1, <2>1, <2>2, <2>3, <2>5, <2>6 DEF Next
<1>2. IInv /\ FreshFds /\ [Next]_vars =>
         [\A i \in Stragglers' \ Stragglers :
             kind[i] # "dir" => Reopen \/ ReclaimFails]_vars
  <2> SUFFICES ASSUME IInv, FreshFds, [Next]_vars, NEW i \in Stragglers' \ Stragglers,
                      kind[i] # "dir"
               PROVE  Reopen \/ ReclaimFails
    OBVIOUS
  <2>1. i \in Inodes
    BY DEF Stragglers
  <2>2. UnusedNext(i) /\ ~Unused(i)
    BY <2>1, StragglerUnused
  <2>. QED  BY <1>1, <2>1, <2>2
<1>. QED  BY Invariant, FdsComeInOrder, <1>2, PTL DEF Spec, StragglersFromLostReclaims

-----------------------------------------------------------------------------
(* fsck on tables that only this code has written.                         *)

\* The way up from c begins with a parent of c.
LEMMA AncestryStep ==
    ASSUME NEW c \in Inodes, NEW j \in Ancestry(c)
    PROVE  \E p \in ParentsOf(c) : j = p \/ j \in Ancestry(p)
<1> DEFINE U == {a \in Inodes : \E p \in ParentsOf(c) : a = p \/ a \in Ancestry(p)}
<1>1. U \in SUBSET Inodes
  OBVIOUS
<1>2. ASSUME NEW b \in U \cup {c}, NEW q \in ParentsOf(b)
      PROVE  q \in U
  <2>0. q \in Inodes /\ \E n \in Names : entries[q][n] = b
    BY <1>2 DEF ParentsOf
  <2>1. CASE b = c
    BY <2>0, <2>1, <1>2
  <2>2. CASE b \in U
    <3>1. PICK p \in ParentsOf(c) : b = p \/ b \in Ancestry(p)
      BY <2>2
    <3>2. p \in Inodes
      BY DEF ParentsOf
    <3>3. q \in Ancestry(p)
      BY <2>0, <3>1, <3>2, AncestryClosed
    <3>. QED  BY <2>0, <3>3
  <2>. QED  BY <1>2, <2>1, <2>2
<1>3. \A b \in U \cup {c} : ParentsOf(b) \subseteq U
  BY <1>2
<1>4. j \in U
  <2> HIDE DEF U
  <2>. QED  BY <1>1, <1>3 DEF Ancestry
<1>. QED  BY <1>4

\* The inodes above a parent are fewer, unless it is one of them.
LEMMA AncestryShrinks ==
    ASSUME NEW i \in Inodes, NEW p \in Inodes, NEW n \in Names, entries[p][n] = i,
           p \notin Ancestry(p)
    PROVE  /\ Cardinality(Ancestry(p)) \in Nat /\ Cardinality(Ancestry(i)) \in Nat
           /\ Cardinality(Ancestry(p)) + 1 <= Cardinality(Ancestry(i))
<1>1. IsFiniteSet(Inodes)
  BY InodesCount
<1>2. \A c : Ancestry(c) \subseteq Inodes
  BY DEF Ancestry
<1>3. IsFiniteSet(Ancestry(p)) /\ IsFiniteSet(Ancestry(i))
  BY <1>1, <1>2, FS_Subset
<1>4. Ancestry(p) \subseteq Ancestry(i)
  <2> SUFFICES ASSUME NEW a \in Ancestry(p), NEW S \in SUBSET Inodes,
                      \A c \in S \cup {i} : ParentsOf(c) \subseteq S
               PROVE  a \in S
    BY DEF Ancestry
  <2>1. p \in S
    BY DEF ParentsOf
  <2>2. \A c \in S \cup {p} : ParentsOf(c) \subseteq S
    BY <2>1
  <2>. QED  BY <2>2 DEF Ancestry
<1>5. p \in Ancestry(i) /\ p \notin Ancestry(p)
  BY AncestryClosed
<1>6. Ancestry(p) # Ancestry(i)
  BY <1>5
<1>. QED  BY <1>3, <1>4, <1>6, Fewer

\* Where no set of inodes goes round in a circle, nobody is above itself.
LEMMA NobodyAboveItself ==
    ASSUME Acyclic, NEW j \in Inodes
    PROVE  j \notin Ancestry(j)
<1> SUFFICES ASSUME j \in Ancestry(j) PROVE FALSE
  OBVIOUS
<1> DEFINE T == {c \in Inodes : j \in Ancestry(c)}
<1>1. ASSUME NEW c \in T
      PROVE  ParentsOf(c) \cap T # {}
  <2>1. PICK p \in ParentsOf(c) : j = p \/ j \in Ancestry(p)
    BY AncestryStep
  <2>2. p \in Inodes
    BY DEF ParentsOf
  <2>. QED  BY <2>1, <2>2
<1>2. T \in SUBSET Inodes /\ j \in T
  OBVIOUS
<1>. QED
  <2> HIDE DEF T
  <2>. QED  BY <1>1, <1>2 DEF Acyclic

\* And where nobody is above itself, no set of inodes goes round in a circle:
\* its member with the fewest inodes above would have a parent with fewer.
LEMMA CirclesAreMet ==
    ASSUME \A j \in Inodes : j \notin Ancestry(j)
    PROVE  Acyclic
<1> SUFFICES ASSUME NEW S \in SUBSET Inodes, \A c \in S : ParentsOf(c) \cap S # {}, S # {}
             PROVE  FALSE
  BY DEF Acyclic
<1> DEFINE above(c) == Cardinality(Ancestry(c))
           T == {above(c) : c \in S}
<1>1. \A c \in S : \E p \in S : above(p) \in Nat /\ above(c) \in Nat /\ above(p) + 1 <= above(c)
  <2> TAKE c \in S
  <2>1. PICK p \in S : p \in ParentsOf(c)
    OBVIOUS
  <2>2. p \in Inodes /\ c \in Inodes /\ p \notin Ancestry(p)
    OBVIOUS
  <2>3. PICK n \in Names : entries[p][n] = c
    BY <2>1 DEF ParentsOf
  <2>. QED  BY <2>1, <2>2, <2>3, AncestryShrinks
<1> HIDE DEF above
<1>2. T \in SUBSET Nat /\ T # {}
  BY <1>1
<1>3. PICK x \in T : \A y \in T : x <= y
  BY <1>2, LeastNat
<1>4. PICK c \in S : x = above(c)
  BY <1>3
<1>5. PICK p \in S : above(p) \in Nat /\ above(c) \in Nat /\ above(p) + 1 <= above(c)
  BY <1>1
<1>6. above(c) <= above(p)
  BY <1>3, <1>4
<1>. QED  BY <1>5, <1>6

\* What the walk of check_cycles goes through: one step up from the inodes of S
\* and from j, and the sets it has met step by step.
StepUp(S, j) == UNION {ParentsOf(c) : c \in S \cup {j}}

GoesUp(j, f) ==
    /\ f \in [0..MaxDepth -> SUBSET Inodes]
    /\ f[0] = {}
    /\ \A k \in 1..MaxDepth : f[k] = StepUp(f[k - 1], j)

LEMMA StepUpInodes == \A S, j : StepUp(S, j) \in SUBSET Inodes
BY DEF StepUp, ParentsOf

LEMMA StepUpGrows ==
    ASSUME NEW S, NEW T, NEW j, S \subseteq T
    PROVE  StepUp(S, j) \subseteq StepUp(T, j)
BY DEF StepUp

\* The walk of the definition is one.
LEMMA MetGoesUp ==
    ASSUME NEW j \in Inodes
    PROVE  \E f : GoesUp(j, f) /\ MetGoingUp(j) = f[MaxDepth]
<1> DEFINE V == SUBSET Inodes
           D == [x \in V \X (1..MaxDepth) |-> StepUp(x[1], j)]
           IsWalk(m) == m = [k \in 0..MaxDepth |-> IF k = 0 THEN {} ELSE StepUp(m[k - 1], j)]
           w == CHOOSE m : IsWalk(m)
<1>1. MaxDepth \in Nat /\ {} \in V
  BY DepthAssumption
<1>2. StepsIn(D, V, MaxDepth)
  BY StepUpInodes DEF StepsIn
<1>3. \A v \in V, k \in 1..MaxDepth : D[<<v, k>>] = StepUp(v, j)
  OBVIOUS
<1> HIDE DEF D, V
<1>4. PICK f : Recursion(f, {}, D, V, MaxDepth)
  BY <1>1, <1>2, RecursionExists
<1>5. f \in [0..MaxDepth -> V] /\ f[0] = {}
  BY <1>4 DEF Recursion
<1>6. ASSUME NEW k \in 1..MaxDepth PROVE f[k] = StepUp(f[k - 1], j)
  <2>1. f[k - 1] \in V
    BY <1>1, <1>5
  <2>. QED  BY <1>3, <1>4, <2>1 DEF Recursion
<1>7. IsWalk(f)
  <2> DEFINE g == [k \in 0..MaxDepth |-> IF k = 0 THEN {} ELSE StepUp(f[k - 1], j)]
  <2>1. ASSUME NEW k \in 0..MaxDepth PROVE f[k] = IF k = 0 THEN {} ELSE StepUp(f[k - 1], j)
    <3>1. k = 0 \/ k \in 1..MaxDepth
      BY <1>1
    <3>. QED  BY <1>5, <1>6, <3>1
  <2>2. \A k \in 0..MaxDepth : f[k] = g[k]
    BY <2>1
  <2>. QED  BY <1>5, <2>2
<1>8. IsWalk(w)
  <2> HIDE DEF IsWalk
  <2>. QED  BY <1>7
<1>9. MetGoingUp(j) = w[MaxDepth]
  BY DEF MetGoingUp, StepUp
<1> HIDE DEF w
<1>10. GoesUp(j, w)
  <2>1. \A k \in 0..MaxDepth : w[k] = IF k = 0 THEN {} ELSE StepUp(w[k - 1], j)
    BY <1>8
  <2>2. w[0] = {} /\ \A k \in 1..MaxDepth : w[k] = StepUp(w[k - 1], j)
    BY <1>1, <2>1
  <2>3. \A k \in 0..MaxDepth : w[k] \in SUBSET Inodes
    BY <2>1, StepUpInodes
  <2>4. w \in [0..MaxDepth -> SUBSET Inodes]
    BY <1>8, <2>3
  <2>. QED  BY <2>2, <2>4 DEF GoesUp
<1>. QED  BY <1>9, <1>10

\* It meets none but inodes above.
LEMMA MetAreAbove ==
    ASSUME NEW j \in Inodes
    PROVE  MetGoingUp(j) \subseteq Ancestry(j)
<1>1. PICK f : GoesUp(j, f) /\ MetGoingUp(j) = f[MaxDepth]
  BY MetGoesUp
<1> DEFINE S == {k \in 0..MaxDepth : f[k] \subseteq Ancestry(j)}
<1>2. 0 \in S
  BY <1>1, DepthAssumption DEF GoesUp
<1>3. ASSUME NEW k \in 1..MaxDepth, k - 1 \in S
      PROVE  k \in S
  <2>1. f[k] = StepUp(f[k - 1], j) /\ f[k - 1] \subseteq Ancestry(j)
    BY <1>1, <1>3 DEF GoesUp
  <2>2. ASSUME NEW c \in f[k - 1] \cup {j}, NEW p \in ParentsOf(c)
        PROVE  p \in Ancestry(j)
    <3>1. p \in Inodes /\ \E n \in Names : entries[p][n] = c
      BY DEF ParentsOf
    <3>. QED  BY <2>1, <3>1, AncestryClosed
  <2>. QED  BY <2>1, <2>2 DEF StepUp
<1> HIDE DEF S
<1>4. MaxDepth \in S
  BY <1>2, <1>3, UpToInduction, DepthAssumption
<1>. QED  BY <1>1, <1>4 DEF S

\* If it goes as many steps as there are inodes it meets all that are above:
\* each step adds one, or the last has not.
LEMMA MetAll ==
    ASSUME NEW j \in Inodes, MaxInode <= MaxDepth
    PROVE  MetGoingUp(j) = Ancestry(j)
<1>1. PICK f : GoesUp(j, f) /\ MetGoingUp(j) = f[MaxDepth]
  BY MetGoesUp
<1>2. MaxDepth \in Nat /\ MaxInode \in Nat
  BY DepthAssumption, BoundsAssumption
<1>3. IsFiniteSet(Inodes) /\ Cardinality(Inodes) = MaxInode
  BY InodesCount
<1>4. \A k \in 0..MaxDepth : f[k] \in SUBSET Inodes
  BY <1>1 DEF GoesUp
<1>5. \A k \in 0..MaxDepth : IsFiniteSet(f[k]) /\ Cardinality(f[k]) \in Nat
  BY <1>3, <1>4, FS_Subset, FS_CardinalityType
<1>6. \A k \in 1..MaxDepth : f[k - 1] \subseteq f[k]
  <2> DEFINE S == {k \in 0..MaxDepth : k # 0 => f[k - 1] \subseteq f[k]}
  <2>1. 0 \in S
    BY <1>2
  <2>2. ASSUME NEW k \in 1..MaxDepth, k - 1 \in S
        PROVE  k \in S
    <3>1. f[k] = StepUp(f[k - 1], j)
      BY <1>1 DEF GoesUp
    <3>2. CASE k = 1
      BY <1>1, <3>2 DEF GoesUp
    <3>3. CASE k # 1
      <4>1. k - 1 \in 1..MaxDepth /\ k - 1 # 0
        BY <1>2, <3>3
      <4>2. f[k - 1] = StepUp(f[k - 1 - 1], j) /\ f[k - 1 - 1] \subseteq f[k - 1]
        BY <1>1, <2>2, <4>1 DEF GoesUp
      <4>3. f[k - 1] \subseteq f[k]
        BY <3>1, <4>2, StepUpGrows
      <4>. QED  BY <4>3
    <3>. QED  BY <3>2, <3>3
  <2> HIDE DEF S
  <2>3. 0..MaxDepth \subseteq S
    BY <1>2, <2>1, <2>2, UpToInduction
  <2>4. \A k \in 1..MaxDepth : k \in 0..MaxDepth /\ k # 0
    BY <1>2
  <2>. QED  BY <2>3, <2>4 DEF S
<1> DEFINE Closed(k) == StepUp(f[k], j) \subseteq f[k]
           T == {k \in 0..MaxDepth : k <= Cardinality(f[k]) \/ Closed(k)}
<1>7. 0 \in T
  BY <1>2, <1>5
<1>8. ASSUME NEW k \in 1..MaxDepth, k - 1 \in T
      PROVE  k \in T
  <2>1. f[k] = StepUp(f[k - 1], j) /\ f[k - 1] \subseteq f[k]
    BY <1>1, <1>6 DEF GoesUp
  <2>2. k \in 0..MaxDepth /\ k - 1 \in 0..MaxDepth
    BY <1>2
  <2>3. CASE f[k] = f[k - 1]
    BY <2>1, <2>2, <2>3
  <2>4. CASE f[k] # f[k - 1]
    <3>1. ~Closed(k - 1)
      BY <2>1, <2>4
    <3>2. k - 1 <= Cardinality(f[k - 1])
      BY <1>8, <3>1
    <3>3. Cardinality(f[k - 1]) + 1 <= Cardinality(f[k])
      BY <1>5, <2>1, <2>2, <2>4, Fewer
    <3> DEFINE a == Cardinality(f[k - 1])
               b == Cardinality(f[k])
    <3>4. a \in Nat /\ b \in Nat /\ k - 1 <= a /\ a + 1 <= b
      BY <1>5, <2>2, <3>2, <3>3
    <3> HIDE DEF a, b
    <3>5. k <= b
      BY <3>4
    <3>. QED  BY <2>2, <3>5 DEF b
  <2>. QED  BY <2>3, <2>4
<1> HIDE DEF T
<1>9. MaxDepth \in T
  BY <1>2, <1>7, <1>8, UpToInduction
<1>10. Closed(MaxDepth)
  <2>1. CASE MaxDepth <= Cardinality(f[MaxDepth])
    <3>0. MaxDepth \in 0..MaxDepth
      BY <1>2
    <3>1. f[MaxDepth] = Inodes
      <4> SUFFICES ASSUME f[MaxDepth] # Inodes PROVE FALSE
        OBVIOUS
      <4>1. Cardinality(f[MaxDepth]) + 1 <= Cardinality(Inodes)
        BY <1>3, <1>4, <1>5, <3>0, Fewer
      <4> DEFINE a == Cardinality(f[MaxDepth])
      <4>2. a \in Nat /\ a + 1 <= MaxInode /\ MaxDepth <= a
        BY <1>3, <1>5, <2>1, <3>0, <4>1
      <4> HIDE DEF a
      <4>. QED  BY <1>2, <4>2
    <3>. QED  BY <3>1, StepUpInodes
  <2>. QED  BY <1>9, <2>1 DEF T
<1>11. Ancestry(j) \subseteq f[MaxDepth]
  <2>1. f[MaxDepth] \in SUBSET Inodes
    BY <1>2, <1>4
  <2>2. \A c \in f[MaxDepth] \cup {j} : ParentsOf(c) \subseteq f[MaxDepth]
    BY <1>10 DEF StepUp
  <2>. QED  BY <2>1, <2>2 DEF Ancestry
<1>. QED  BY <1>1, <1>11, MetAreAbove

\* A row that an entry needs is there.
LEMMA NothingDangles ==
    ASSUME DbTypes, EntriesLive
    PROVE  DanglingEntries = {}
<1> SUFFICES ASSUME NEW j \in Inodes, kind[j] = "none", ~IsEmpty(j) \/ Links(j) # {}
             PROVE  FALSE
  BY DEF DanglingEntries
<1>1. CASE ~IsEmpty(j)
  <2>1. \E n \in Names : entries[j][n] # None
    BY <1>1 DEF IsEmpty, NoListing, DbTypes
  <2>. QED  BY <2>1 DEF EntriesLive
<1>2. CASE Links(j) # {}
  <2>1. PICK e \in Inodes \X Names : entries[e[1]][e[2]] = j
    BY <1>2 DEF Links
  <2>2. e[1] \in Inodes /\ e[2] \in Names /\ j # None
    BY DEF Inodes, None
  <2>. QED  BY <2>1, <2>2 DEF EntriesLive
<1>. QED  BY <1>1, <1>2

\* On tables that only these operations have written, whatever renames,
\* crashes and failed deletes they went through, fsck reports neither a
\* dangling entry nor a cycle.
THEOREM FsckQuiet == Spec => []FsckFindsOnlyNlink
<1>1. IInv => FsckFindsOnlyNlink
  <2> SUFFICES ASSUME IInv, NEW x \in run_fsck
               PROVE  x.kind = "NlinkMismatch"
    BY DEF FsckFindsOnlyNlink
  <2>0. DbTypes /\ EntriesLive /\ Acyclic
    BY DEF IInv, DbInv
  <2>1. DanglingEntries = {}
    BY <2>0, NothingDangles
  <2>2. Cycles = {}
    BY <2>0, NobodyAboveItself, MetAreAbove DEF Cycles
  <2>3. x \in NlinkMismatches
    BY <2>1, <2>2 DEF run_fsck
  <2>. QED  BY <2>3 DEF NlinkMismatches, Issue
<1>. QED  BY Invariant, <1>1, PTL

\* A node has the rows its entries need, and a directory the link count that
\* its subdirectories give it.
RowsPresent ==
    \A p \in Inodes, n \in Names :
        entries[p][n] # None => kind[p] # "none" /\ kind[entries[p][n]] # "none"
CountsExact ==
    \A d \in Inodes : kind[d] = "dir" => nlink[d] = 2 + Cardinality(Subdirs(d))

\* A row that is missing is reported.
LEMMA DanglingFound ==
    ASSUME DbTypes
    PROVE  DanglingEntries = {} <=> RowsPresent
<1>1. ASSUME DanglingEntries = {}, NEW p \in Inodes, NEW n \in Names, entries[p][n] # None
      PROVE  kind[p] # "none" /\ kind[entries[p][n]] # "none"
  <2>1. \A j \in Inodes : kind[j] = "none" => IsEmpty(j) /\ Links(j) = {}
    BY <1>1 DEF DanglingEntries
  <2>2. ~IsEmpty(p)
    BY <1>1 DEF IsEmpty, NoListing
  <2>3. entries[p][n] \in Inodes
    BY <1>1 DEF DbTypes
  <2>4. <<p, n>> \in Links(entries[p][n])
    BY DEF Links
  <2>. QED  BY <2>1, <2>2, <2>3, <2>4
<1>2. ASSUME RowsPresent, NEW j \in Inodes, kind[j] = "none"
      PROVE  IsEmpty(j) /\ Links(j) = {}
  <2>1. \A n \in Names : entries[j][n] = None
    BY <1>2 DEF RowsPresent
  <2>2. entries[j] = NoListing
    BY <2>1 DEF DbTypes, NoListing
  <2>3. ASSUME NEW e \in Links(j) PROVE FALSE
    <3>1. e[1] \in Inodes /\ e[2] \in Names /\ entries[e[1]][e[2]] = j /\ j # None
      BY DEF Links, Inodes, None
    <3>. QED  BY <3>1, <1>2 DEF RowsPresent
  <2>. QED  BY <2>2, <2>3 DEF IsEmpty
<1>. QED  BY <1>1, <1>2 DEF RowsPresent, DanglingEntries

\* What fsck says of any tables, damaged ones too: it reports nothing exactly if
\* every entry has its two rows, nobody is met on the way up from itself within
\* the steps that check_cycles goes, and the count of every directory is exact.
\* With no fewer steps than inodes, that is: if no set of inodes goes round in a
\* circle; a longer circle than MaxDepth may be missed.
THEOREM FsckComplete ==
    ASSUME DbTypes
    PROVE  /\ run_fsck = {} <=> /\ RowsPresent /\ CountsExact
                               /\ \A j \in Inodes : j \notin MetGoingUp(j)
           /\ MaxInode <= MaxDepth =>
                 (run_fsck = {} <=> RowsPresent /\ Acyclic /\ CountsExact)
<1>1. Cycles = {} <=> \A j \in Inodes : j \notin MetGoingUp(j)
  BY DEF Cycles
<1>2. NlinkMismatches = {} <=> CountsExact
  <2>1. NlinkMismatches = {} <=> \A d \in Inodes : kind[d] = "dir" => Excess(d) = 0
    BY DEF NlinkMismatches
  <2>2. ASSUME NEW d \in Inodes
        PROVE  Excess(d) = 0 <=> nlink[d] = 2 + Cardinality(Subdirs(d))
    <3>1. nlink[d] \in Int /\ Cardinality(Subdirs(d)) \in Nat
      <4>1. Subdirs(d) = SubdirsIn(entries, kind, d)
        BY DEF Subdirs, SubdirsIn
      <4>. QED  BY <4>1, SubdirsFinite DEF DbTypes
    <3> DEFINE c == Cardinality(Subdirs(d))
    <3> HIDE DEF c
    <3>. QED  BY <3>1 DEF Excess, c
  <2>. QED  BY <2>1, <2>2 DEF CountsExact
<1>3. run_fsck = {} <=> /\ RowsPresent /\ CountsExact
                      /\ \A j \in Inodes : j \notin MetGoingUp(j)
  BY <1>1, <1>2, DanglingFound DEF run_fsck
<1>4. ASSUME MaxInode <= MaxDepth
      PROVE  Acyclic <=> \A j \in Inodes : j \notin MetGoingUp(j)
  BY <1>4, MetAll, CirclesAreMet, NobodyAboveItself
<1>. QED  BY <1>3, <1>4
=============================================================================
