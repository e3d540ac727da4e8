------------------------------- MODULE PyTree -------------------------------
(***************************************************************************)
(* The directory tree as the Python library keeps it                       *)
(* (src/sqlite_fs/fs.py).  The schema is that of the Rust port, the        *)
(* operations differ: rename has an exchange and leaves the link counts of *)
(* directories alone, nodes are reclaimed within the transaction that      *)
(* drops the last name, and a cache holds one path for each inode that was *)
(* written to, for the events that writes emit.                            *)
(*                                                                         *)
(* An operation is one transaction followed by its work on the cache, one  *)
(* step; a call that raises changes nothing.  Symbolic links are nodes     *)
(* here; following them only leads to nodes that other paths lead to.      *)
(***************************************************************************)
EXTENDS Integers, Sequences, FiniteSets

CONSTANTS
    Names,      \* entry names
    MaxInode,   \* bound: the largest inode number ever allocated
    MaxFd       \* bound: the largest fd number a session hands out

ASSUME PyTreeAssumption ==
    /\ IsFiniteSet(Names)
    /\ MaxInode \in Nat \ {0} /\ MaxFd \in Nat

ROOT_INODE == 1
None == 0
Inodes == 1..MaxInode
Fds == 1..MaxFd
NoListing == [n \in Names |-> None]

\* A path is the sequence of its components.  None is longer than a way
\* through all inodes; the empty one is the root's and never cached.
Paths == UNION {[1..k -> Names] : k \in 0..(MaxInode - 1)}
NoPath == <<>>

VARIABLES
    kind,       \* nodes.kind, "none" where the table has no row
    nlink,      \* nodes.nlink, 0 where the table has no row
    entries,    \* entries[p][n]: the inode of row (p, n), None without one
    nextInode,  \* sqlite_sequence
    fds,        \* _fd_table: the inode each open fd refers to
    nextFd,     \* _fd_table._next_fd
    readonly,   \* _readonly
    cache       \* _path_cache: a path for each inode, NoPath without one

vars == <<kind, nlink, entries, nextInode, fds, nextFd, readonly, cache>>

\* A directory's nlink can be negative, see Rmdir and RenameMove.
TypeOK ==
    /\ kind \in [Inodes -> {"none", "file", "dir", "symlink"}]
    /\ nlink \in [Inodes -> Int]
    /\ \A i \in Inodes : nlink[i] < 0 => kind[i] = "dir"
    /\ entries \in [Inodes -> [Names -> Inodes \cup {None}]]
    /\ nextInode \in 1..(MaxInode + 1)
    /\ fds \in [Fds -> Inodes \cup {None}]
    /\ nextFd \in 1..(MaxFd + 1)
    /\ readonly \in BOOLEAN
    /\ cache \in [Inodes -> Paths]

-----------------------------------------------------------------------------
(* Queries.                                                                *)

Links(i) == {e \in Inodes \X Names : entries[e[1]][e[2]] = i}
OpenCount(t, i) == Cardinality({f \in Fds : t[f] = i})

\* Mutant of IsEmpty: the entries of the directory are not counted.
IsEmptyUnchecked(d) == TRUE

IsEmpty(d) == entries[d] = NoListing

\* The inode at the end of a path, None if a component is missing or no
\* directory.
Walk(path) ==
    LET at[k \in 0..Len(path)] ==
            IF k = 0 THEN ROOT_INODE
            ELSE LET d == at[k - 1]
                 IN  IF d = None THEN None
                     ELSE IF kind[d] # "dir" THEN None
                     ELSE entries[d][path[k]]
    IN  at[Len(path)]

\* The inodes that _resolve_path can end at: the root, and what the entries
\* of directories among them bind, MaxInode levels down at most.
Resolvable ==
    LET upTo[k \in 0..MaxInode] ==
            IF k = 0 THEN {i \in {ROOT_INODE} : kind[i] # "none"}
            ELSE LET S == upTo[k - 1]
                 IN  S \cup {entries[e[1]][e[2]] : e \in
                                {x \in S \X Names : entries[x[1]][x[2]] # None}}
    IN  upTo[MaxInode]

\* What _resolve_parent can return.
Directories == {i \in Inodes \cap Resolvable : kind[i] = "dir"}

\* i and the inodes going up from it: the least set with i that holds, with
\* every inode, the directories that bind it.
Ancestry(i) ==
    LET closed == {S \in SUBSET Inodes :
                      /\ i \in S
                      /\ \A p \in Inodes \ S, n \in Names : entries[p][n] \notin S}
    IN  {a \in Inodes : \A S \in closed : a \in S}

-----------------------------------------------------------------------------
(* Updates shared by the operations.                                       *)

\* Mutant of InitialNlink: no link counted.
InitialNlinkZero(k) == 0

InitialNlink(k) == IF k = "dir" THEN 2 ELSE 1

\* nodes.insert of a row of kind k.
InsertNode(k) ==
    /\ nextInode \in Inodes
    /\ nextInode' = nextInode + 1
    /\ kind' = [kind EXCEPT ![nextInode] = k]

OpenFd(i) ==
    /\ nextFd \in Fds
    /\ nextFd' = nextFd + 1
    /\ fds' = [fds EXCEPT ![nextFd] = i]

\* Mutant of Reclaimable: fds are not looked at.
ReclaimableWhenUnlinked(links, opens) == links = 0

\* _maybe_gc: the row goes without links and fds.
Reclaimable(links, opens) == links = 0 /\ opens = 0

\* Mutant of Forgotten: the path is kept.
Kept(i) == cache

\* _path_cache.pop(i).
Forgotten(i) == [cache EXCEPT ![i] = NoPath]

-----------------------------------------------------------------------------
Init ==
    /\ kind = [i \in Inodes |-> IF i = ROOT_INODE THEN "dir" ELSE "none"]
    /\ nlink = [i \in Inodes |-> IF i = ROOT_INODE THEN 2 ELSE 0]
    /\ entries = [i \in Inodes |-> NoListing]
    /\ nextInode = ROOT_INODE + 1
    /\ fds = [f \in Fds |-> None]
    /\ nextFd = 1
    /\ readonly \in BOOLEAN
    /\ cache = [i \in Inodes |-> NoPath]

\* The session ends, by close or by a crash, and another starts.
Reopen ==
    /\ fds' = [f \in Fds |-> None]
    /\ nextFd' = 1
    /\ readonly' \in BOOLEAN
    /\ cache' = [i \in Inodes |-> NoPath]
    /\ UNCHANGED <<kind, nlink, entries, nextInode>>

-----------------------------------------------------------------------------
(* Operations.  The directories they are given (p, sp, dp) are those that  *)
(* _resolve_parent can return, see Next.                                   *)

Mkdir(p, n) ==
    /\ ~readonly
    /\ entries[p][n] = None
    /\ InsertNode("dir")
    /\ entries' = [entries EXCEPT ![p][n] = nextInode]
    /\ nlink' = [nlink EXCEPT ![nextInode] = InitialNlink("dir"), ![p] = @ + 1]
    /\ UNCHANGED <<fds, nextFd, readonly, cache>>

\* The rows that hang on d, were there any, go with it (ON DELETE CASCADE).
Rmdir(p, n) ==
    LET d == entries[p][n]
    IN  /\ ~readonly
        /\ d # None
        /\ kind[d] = "dir"
        /\ IsEmpty(d)
        /\ entries' = [entries EXCEPT ![p][n] = None, ![d] = NoListing]
        /\ nlink' = [nlink EXCEPT ![p] = @ - 1, ![d] = 0]
        /\ kind' = [kind EXCEPT ![d] = "none"]
        /\ cache' = Forgotten(d)
        /\ UNCHANGED <<nextInode, fds, nextFd, readonly>>

\* open with O_CREAT of a name that is free.
OpenNew(p, n) ==
    /\ ~readonly
    /\ entries[p][n] = None
    /\ InsertNode("file")
    /\ entries' = [entries EXCEPT ![p][n] = nextInode]
    /\ nlink' = [nlink EXCEPT ![nextInode] = InitialNlink("file")]
    /\ OpenFd(nextInode)
    /\ UNCHANGED <<readonly, cache>>

\* open of what a path leads to once its symbolic links are followed: a file
\* or a directory, the root too.
OpenExisting(i) ==
    /\ kind[i] # "symlink"
    /\ i \in Resolvable
    /\ OpenFd(i)
    /\ UNCHANGED <<kind, nlink, entries, nextInode, readonly, cache>>

\* close_fd: the row goes with the last fd if no link counts, and what hangs
\* on a directory with it (ON DELETE CASCADE).  An entry elsewhere that still
\* binds it makes the statement fail (REFERENCES nodes); one in the directory
\* itself is among those that go.
CloseFd(f) ==
    LET i == fds[f]
        gc == /\ ~readonly
              /\ kind[i] # "none"
              /\ Reclaimable(nlink[i], OpenCount(fds', i))
              /\ \A e \in Links(i) : e[1] = i
    IN  /\ i # None
        /\ fds' = [fds EXCEPT ![f] = None]
        /\ IF gc
           THEN /\ kind' = [kind EXCEPT ![i] = "none"]
                /\ nlink' = [nlink EXCEPT ![i] = 0]
                /\ entries' = [entries EXCEPT ![i] = NoListing]
           ELSE UNCHANGED <<kind, nlink, entries>>
        /\ UNCHANGED <<nextInode, nextFd, readonly, cache>>

\* write and truncate_fd name the node in their event by a path: the one in
\* the cache or else one found by going up, by any of its links (LIMIT 1).
\* Below a cycle the way up does not end, nor does the call; without a name
\* there is no event.  Either way the cache stays.
WriteFd(f) ==
    /\ ~readonly
    /\ fds[f] \notin {None, ROOT_INODE}
    /\ cache[fds[f]] = NoPath
    /\ \E path \in {q \in Paths : Walk(q) = fds[f]} :
          cache' = [cache EXCEPT ![fds[f]] = path]
    /\ UNCHANGED <<kind, nlink, entries, nextInode, fds, nextFd, readonly>>

Symlink(p, n) ==
    /\ ~readonly
    /\ entries[p][n] = None
    /\ InsertNode("symlink")
    /\ entries' = [entries EXCEPT ![p][n] = nextInode]
    /\ nlink' = [nlink EXCEPT ![nextInode] = InitialNlink("symlink")]
    /\ UNCHANGED <<fds, nextFd, readonly, cache>>

\* link of what a path leads to, links followed, under the name (p, n).
Link(i, p, n) ==
    /\ ~readonly
    /\ kind[i] = "file"
    /\ entries[p][n] = None
    /\ i \in Resolvable
    /\ entries' = [entries EXCEPT ![p][n] = i]
    /\ nlink' = [nlink EXCEPT ![i] = @ + 1]
    /\ UNCHANGED <<kind, nextInode, fds, nextFd, readonly, cache>>

\* unlink, with _maybe_gc in its transaction.
Unlink(p, n) ==
    LET i == entries[p][n]
    IN  /\ ~readonly
        /\ i # None
        /\ kind[i] # "dir"
        /\ entries' = [entries EXCEPT ![p][n] = None]
        /\ nlink' = [nlink EXCEPT ![i] = @ - 1]
        /\ kind' = IF Reclaimable(nlink[i] - 1, OpenCount(fds, i))
                   THEN [kind EXCEPT ![i] = "none"] ELSE kind
        /\ cache' = Forgotten(i)
        /\ UNCHANGED <<nextInode, fds, nextFd, readonly>>

-----------------------------------------------------------------------------
(* rename.                                                                 *)

\* Mutant of RenameAllowed: only the directory itself is excluded.
RenameAllowedUnlessInto(s, dp) == kind[s] = "dir" => s # dp

\* A directory may not move into itself or below itself.
RenameAllowed(s, dp) == kind[s] = "dir" => s \notin Ancestry(dp)

\* What a rename of s leaves of the cache.
CacheAfterRename(s) ==
    IF kind[s] = "dir" THEN [i \in Inodes |-> NoPath] ELSE Forgotten(s)

\* The start of every rename: two different names.
RenameStarts(sp, sn, dp, dn) ==
    /\ ~readonly
    /\ entries[sp][sn] # None
    /\ <<sp, sn>> # <<dp, dn>>
    /\ RenameAllowed(entries[sp][sn], dp)

\* rename to a name that is free.  The link counts of the parents stay.
RenameMove(sp, sn, dp, dn) ==
    LET s == entries[sp][sn]
    IN  /\ entries[dp][dn] = None
        /\ RenameStarts(sp, sn, dp, dn)
        /\ entries' = [entries EXCEPT ![sp][sn] = None, ![dp][dn] = s]
        /\ cache' = CacheAfterRename(s)
        /\ UNCHANGED <<kind, nlink, nextInode, fds, nextFd, readonly>>

\* rename over an empty directory or anything else but a directory: d, which
\* may be s by another name.  A directory's row goes at once.
RenameReplace(sp, sn, dp, dn) ==
    LET s == entries[sp][sn]
        d == entries[dp][dn]
        gone == IF kind[d] = "dir" THEN TRUE
                ELSE Reclaimable(nlink[d] - 1, OpenCount(fds, d))
    IN  /\ d # None
        /\ RenameStarts(sp, sn, dp, dn)
        /\ kind[d] = "dir" => IsEmpty(d)
        /\ entries' = [entries EXCEPT ![sp][sn] = None, ![dp][dn] = s]
        /\ nlink' = [nlink EXCEPT ![d] = IF gone THEN 0 ELSE @ - 1]
        /\ kind' = IF gone THEN [kind EXCEPT ![d] = "none"] ELSE kind
        /\ cache' = CacheAfterRename(s)
        /\ UNCHANGED <<nextInode, fds, nextFd, readonly>>

\* rename with exchange: the two names swap what they bind.
RenameExchange(sp, sn, dp, dn) ==
    LET s == entries[sp][sn]
        d == entries[dp][dn]
    IN  /\ d # None
        /\ RenameStarts(sp, sn, dp, dn)
        /\ entries' = [entries EXCEPT ![sp][sn] = d, ![dp][dn] = s]
        /\ cache' = [CacheAfterRename(s) EXCEPT ![d] = NoPath]
        /\ UNCHANGED <<kind, nlink, nextInode, fds, nextFd, readonly>>

-----------------------------------------------------------------------------
Next ==
    \/ Reopen
    \/ \E f \in Fds : CloseFd(f) \/ WriteFd(f)
    \/ \E i \in Inodes : OpenExisting(i)
    \/ \E p \in Directories, n \in Names :
          \/ Mkdir(p, n)
          \/ Rmdir(p, n)
          \/ OpenNew(p, n)
          \/ Symlink(p, n)
          \/ Unlink(p, n)
          \/ \E i \in Inodes : Link(i, p, n)
    \/ \E p, q \in Directories, m, n \in Names :
          \/ RenameMove(p, m, q, n)
          \/ RenameReplace(p, m, q, n)
          \/ RenameExchange(p, m, q, n)

Spec == Init /\ [][Next]_vars

-----------------------------------------------------------------------------
(* Properties.                                                             *)

\* The link count of i, a file or symlink, is the number of its names.
Counted(i) ==
    kind[i] \in {"file", "symlink"} => nlink[i] = Cardinality(Links(i))

\* The row of a directory that binds i goes.
LosesDirectory(d, i) ==
    /\ kind[d] = "dir" /\ kind'[d] = "none"
    /\ \E n \in Names : entries[d][n] = i

\* The link count of a file or symlink stays the number of its names through
\* links, unlinks, overwrites and exchanges.  It goes wrong only when one of
\* its names goes by ON DELETE CASCADE, with a directory that no path led to,
\* as an exchange of a directory with what lies in it leaves one, or with the
\* root, whose count a rename may have left to an rmdir elsewhere.
CountsLostByCascade ==
    [][\A i \in Inodes :
          Counted(i) /\ ~Counted(i)'
          => \E d \in Inodes :
                LosesDirectory(d, i) /\ (d = ROOT_INODE \/ d \notin Resolvable)]_vars

\* The row of a file or symlink goes only when no fd is open on it, renames
\* over it included: idea.md, observable invariant 9, which the Rust port's
\* rename does not keep.
OpenFilesSurvive ==
    [][\A i \in Inodes :
          kind[i] \in {"file", "symlink"} /\ kind'[i] = "none"
          => \A f \in Fds : fds'[f] # i]_vars

\* No directories lie on a cycle of entries.
Acyclic ==
    \A S \in SUBSET {d \in Inodes : kind[d] = "dir"} :
        (\A c \in S : \E p \in S, n \in Names : entries[p][n] = c) => S = {}

\* The step binds the taken name (p, n) to another inode.
Overwrites(p, n) ==
    entries[p][n] # None /\ entries'[p][n] \notin {None, entries[p][n]}

\* Only an exchange, which gives both names something else, can close a
\* cycle: the walk from the target's parent protects every other rename.
CyclesByExchange ==
    [][Acyclic /\ ~Acyclic'
       => \E p, q \in Inodes, m, n \in Names :
             /\ <<p, m>> # <<q, n>>
             /\ Overwrites(p, m) /\ Overwrites(q, n)]_vars

\* What the cache says of i is true: its path leads to i.
Sound(i) == cache[i] # NoPath => Walk(cache[i]) = i

\* A cached path goes stale only by a rename that binds something else to a
\* name on it, or with the root; unlink, rmdir, links and moves do no harm.
StaleByOverwrite ==
    [][\A i \in Inodes :
          Sound(i) /\ ~Sound(i)'
          => \/ kind'[ROOT_INODE] = "none"
             \/ \E k \in 1..Len(cache[i]) :
                   Overwrites(Walk(SubSeq(cache[i], 1, k - 1)), cache[i][k])]_vars
=============================================================================
