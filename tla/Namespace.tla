----------------------------- MODULE Namespace -----------------------------
(***************************************************************************)
(* The directory tree of sqlite-fs: the tables `nodes` and `entries`, the  *)
(* fd table of the running session, and every operation of `Filesystem`    *)
(* (rust/src/fs.rs) that changes them.                                     *)
(*                                                                         *)
(* A `Filesystem` is used through &mut self, so operations do not          *)
(* interleave.  An operation writes through one SQLite transaction, which  *)
(* is one step here; an error rolls it back and is no step.  The exception *)
(* is the removal of an unreferenced node by `unlink` and `close_fd`: it   *)
(* is a statement of its own, after the rest of the operation has taken    *)
(* effect, so the session can end, or the statement fail, in between.      *)
(*                                                                         *)
(* Paths are resolved: an operation names a directory that some path leads *)
(* to, and a name in it.  Permission checks, times and file contents are   *)
(* left out; a refused call is no step, so the behaviours here include     *)
(* those of every caller.                                                  *)
(***************************************************************************)
EXTENDS Integers, FiniteSets

CONSTANTS
    Names,      \* entry names, a finite set
    MaxInode,   \* bound: the largest inode number ever allocated
    MaxFd       \* bound: the largest fd number a session hands out

ASSUME NamesAssumption == IsFiniteSet(Names)
ASSUME BoundsAssumption == MaxInode \in Nat \ {0} /\ MaxFd \in Nat

ROOT_INODE == 1
None == 0                      \* no entry, closed fd, nothing to reclaim
Inodes == 1..MaxInode
Fds == 1..MaxFd
NoListing == [n \in Names |-> None]

VARIABLES
    kind,       \* nodes.kind, "none" where the table has no row
    nlink,      \* nodes.nlink, 0 where the table has no row
    entries,    \* entries[p][n]: the inode of row (p, n), None without one
    nextInode,  \* sqlite_sequence: the next AUTOINCREMENT value
    fds,        \* FdTable.entries: the inode each open fd refers to
    nextFd,     \* FdTable.next_fd
    readonly,   \* Filesystem.readonly
    pending     \* the node the running call deletes next, None between calls

db == <<kind, nlink, entries, nextInode>>
session == <<fds, nextFd, readonly, pending>>
vars == <<kind, nlink, entries, nextInode, fds, nextFd, readonly, pending>>

TypeOK ==
    /\ kind \in [Inodes -> {"none", "file", "dir", "symlink"}]
    /\ nlink \in [Inodes -> Nat]
    /\ entries \in [Inodes -> [Names -> Inodes \cup {None}]]
    /\ nextInode \in 1..(MaxInode + 1)
    /\ fds \in [Fds -> Inodes \cup {None}]
    /\ nextFd \in 1..(MaxFd + 1)
    /\ readonly \in BOOLEAN
    /\ pending \in Inodes \cup {None}

-----------------------------------------------------------------------------
(* Queries.                                                                *)

\* The entries that bind inode i: its hard links.
Links(i) == {e \in Inodes \X Names : entries[e[1]][e[2]] = i}

\* The directories with an entry for i.  A directory has at most one.
ParentsOf(i) == {p \in Inodes : \E n \in Names : entries[p][n] = i}

\* The names in d that bind a directory.
Subdirs(d) == {n \in Names : entries[d][n] # None /\ kind[entries[d][n]] = "dir"}

\* entries::count is 0.
IsEmpty(d) == entries[d] = NoListing

\* FdTable::open_count, of a table t.
OpenCount(t, i) == Cardinality({f \in Fds : t[f] = i})

\* Some path leads to i: every set of inodes that holds the root and the
\* children of its members holds i.
Resolvable(i) ==
    \A S \in SUBSET Inodes :
        (/\ ROOT_INODE \in S
         /\ \A p \in S, n \in Names : entries[p][n] # None => entries[p][n] \in S)
        => i \in S

\* A path whose last component may be bound or not: a directory to put it in.
ResolvesParent(p) == kind[p] = "dir" /\ Resolvable(p)

\* The inodes met going up from i, i itself left out: the least set with the
\* parents of i and of its own members.
Ancestry(i) ==
    {a \in Inodes :
        \A S \in SUBSET Inodes :
            (\A c \in S \cup {i} : ParentsOf(c) \subseteq S) => a \in S}

-----------------------------------------------------------------------------
(* Updates shared by the operations.                                       *)

\* Mutant of RequireWritable: require_writable is not called.
RequireIdle == pending = None

\* The start of every operation that writes.
RequireWritable == ~readonly /\ pending = None

\* Mutant of NewInode: a plain INTEGER PRIMARY KEY, the largest rowid plus 1.
LargestRowidPlusOne ==
    CHOOSE i \in 1..(MaxInode + 1) :
        /\ i = 1 \/ kind[i - 1] # "none"
        /\ \A j \in Inodes : j >= i => kind[j] = "none"

\* The inode number nodes::insert gets from AUTOINCREMENT.
NewInode == nextInode

\* nodes::insert of a row of kind k.
InsertNode(k) ==
    /\ NewInode \in Inodes
    /\ nextInode' = NewInode + 1
    /\ kind' = [kind EXCEPT ![NewInode] = k]

\* Mutants of InitialNlink: no link counted, and every kind counted alike.
InitialNlinkZero(k) == 0
InitialNlinkOne(k) == 1
InitialNlinkTwo(k) == 2

\* nlink of a row that nodes::insert creates.
InitialNlink(k) == IF k = "dir" THEN 2 ELSE 1

\* Mutants of ReclaimNext: fds not looked at, and nodes never deleted.
ReclaimIfUnlinked(i, links, opens) == IF links = 0 THEN i ELSE None
ReclaimNever(i, links, opens) == None

\* What unlink and close_fd delete next: i, once without links and fds.
ReclaimNext(i, links, opens) == IF links = 0 /\ opens = 0 THEN i ELSE None

\* FdTable::open.
OpenFd(i) ==
    /\ nextFd \in Fds
    /\ nextFd' = nextFd + 1
    /\ fds' = [fds EXCEPT ![nextFd] = i]

-----------------------------------------------------------------------------
(* mkfs, and open_fs of a fresh file system.                               *)

Init ==
    /\ kind = [i \in Inodes |-> IF i = ROOT_INODE THEN "dir" ELSE "none"]
    /\ nlink = [i \in Inodes |-> IF i = ROOT_INODE THEN 2 ELSE 0]
    /\ entries = [i \in Inodes |-> NoListing]
    /\ nextInode = ROOT_INODE + 1
    /\ fds = [f \in Fds |-> None]
    /\ nextFd = 1
    /\ readonly \in BOOLEAN
    /\ pending = None

\* The session ends - close(), which closes no fd, or a crash - and open_fs
\* starts another on the committed tables.
Reopen ==
    /\ fds' = [f \in Fds |-> None]
    /\ nextFd' = 1
    /\ readonly' \in BOOLEAN
    /\ pending' = None
    /\ UNCHANGED db

-----------------------------------------------------------------------------
(* Operations.                                                             *)

Mkdir(p, n) ==
    /\ RequireWritable
    /\ ResolvesParent(p)
    /\ entries[p][n] = None                 \* PRIMARY KEY (parent, name)
    /\ InsertNode("dir")
    /\ entries' = [entries EXCEPT ![p][n] = NewInode]
    /\ nlink' = [nlink EXCEPT ![NewInode] = InitialNlink("dir"), ![p] = @ + 1]
    /\ UNCHANGED session

Rmdir(p, n) ==
    LET d == entries[p][n]
    IN  /\ RequireWritable
        /\ ResolvesParent(p)
        /\ d # None
        /\ kind[d] = "dir"
        /\ IsEmpty(d)
        /\ entries' = [entries EXCEPT ![p][n] = None]
        /\ nlink' = [nlink EXCEPT ![p] = @ - 1, ![d] = 0]
        /\ kind' = [kind EXCEPT ![d] = "none"]
        /\ UNCHANGED <<nextInode, fds, nextFd, readonly, pending>>

\* create of a name that is free: a file, and an fd on it.
CreateNew(p, n) ==
    /\ RequireWritable
    /\ ResolvesParent(p)
    /\ entries[p][n] = None
    /\ InsertNode("file")
    /\ entries' = [entries EXCEPT ![p][n] = NewInode]
    /\ nlink' = [nlink EXCEPT ![NewInode] = InitialNlink("file")]
    /\ OpenFd(NewInode)
    /\ UNCHANGED <<readonly, pending>>

\* create without O_EXCL of a name that is taken: an fd on whatever it binds,
\* a directory too.
CreateExisting(p, n) ==
    /\ RequireWritable
    /\ ResolvesParent(p)
    /\ entries[p][n] # None
    /\ OpenFd(entries[p][n])
    /\ UNCHANGED <<kind, nlink, entries, nextInode, readonly, pending>>

Open(p, n) ==
    /\ pending = None
    /\ ResolvesParent(p)
    /\ entries[p][n] # None
    /\ kind[entries[p][n]] # "dir"
    /\ OpenFd(entries[p][n])
    /\ UNCHANGED <<kind, nlink, entries, nextInode, readonly, pending>>

Symlink(p, n) ==
    /\ RequireWritable
    /\ ResolvesParent(p)
    /\ entries[p][n] = None
    /\ InsertNode("symlink")
    /\ entries' = [entries EXCEPT ![p][n] = NewInode]
    /\ nlink' = [nlink EXCEPT ![NewInode] = InitialNlink("symlink")]
    /\ UNCHANGED session

\* A hard link may be made to anything but a directory.
Linkable(t) == kind[t] # "dir"

\* link: target is the name (tp, tn), the new one is (p, n).
Link(tp, tn, p, n) ==
    LET t == entries[tp][tn]
    IN  /\ RequireWritable
        /\ ResolvesParent(tp)
        /\ t # None
        /\ Linkable(t)
        /\ ResolvesParent(p)
        /\ entries[p][n] = None
        /\ entries' = [entries EXCEPT ![p][n] = t]
        /\ nlink' = [nlink EXCEPT ![t] = @ + 1]
        /\ UNCHANGED <<kind, nextInode, fds, nextFd, readonly, pending>>

\* unlink up to its commit, and the test that decides about the node.
Unlink(p, n) ==
    LET i == entries[p][n]
    IN  /\ RequireWritable
        /\ ResolvesParent(p)
        /\ i # None
        /\ kind[i] # "dir"
        /\ entries' = [entries EXCEPT ![p][n] = None]
        /\ nlink' = [nlink EXCEPT ![i] = @ - 1]
        /\ pending' = ReclaimNext(i, nlink[i] - 1, OpenCount(fds, i))
        /\ UNCHANGED <<kind, nextInode, fds, nextFd, readonly>>

\* close_fd up to the test that decides about the node.  An fd whose row is
\* gone is closed all the same; the call then reports NotFound.
CloseFd(f) ==
    LET i == fds[f]
    IN  /\ pending = None
        /\ i # None
        /\ fds' = [fds EXCEPT ![f] = None]
        /\ pending' = IF kind[i] = "none"
                      THEN None
                      ELSE ReclaimNext(i, nlink[i], OpenCount(fds', i))
        /\ UNCHANGED <<kind, nlink, entries, nextInode, nextFd, readonly>>

\* nodes::delete as the last statement of unlink or close_fd.
Reclaim ==
    /\ pending # None
    /\ ~readonly
    /\ kind' = [kind EXCEPT ![pending] = "none"]
    /\ nlink' = [nlink EXCEPT ![pending] = 0]
    /\ pending' = None
    /\ UNCHANGED <<entries, nextInode, fds, nextFd, readonly>>

\* The same statement failing: the call returns the error and leaves the row.
ReclaimFails ==
    /\ pending # None
    /\ pending' = None
    /\ UNCHANGED <<kind, nlink, entries, nextInode, fds, nextFd, readonly>>

\* Mutants of RenameAllowed: the ancestry of the target is not looked at, and
\* the two sides of the question swapped.
RenameAllowedUnlessInto(s, dp) == kind[s] = "dir" => s # dp
RenameAllowedSwapped(s, dp) == kind[s] = "dir" => s # dp /\ dp \notin Ancestry(s)

\* What rename refuses before its transaction: a directory may not move
\* into itself or below itself.
RenameAllowed(s, dp) == kind[s] = "dir" => s # dp /\ s \notin Ancestry(dp)

\* The entry that rename may overwrite: of the same sort, and empty.
Replaceable(s, d) == IF kind[s] = "dir" THEN kind[d] = "dir" /\ IsEmpty(d)
                                        ELSE kind[d] # "dir"

\* Mutant of ChangesParent: the link counts of the parents are left alone.
ChangesParentNever(s, sp, dp) == FALSE

\* The move takes a ".." away from sp and gives one to dp.
ChangesParent(s, sp, dp) == kind[s] = "dir" /\ sp # dp

\* rename to a name that is free.
RenameMove(sp, sn, dp, dn) ==
    LET s == entries[sp][sn]
    IN  /\ RequireWritable
        /\ ResolvesParent(sp) /\ ResolvesParent(dp)
        /\ s # None
        /\ RenameAllowed(s, dp)
        /\ entries[dp][dn] = None
        /\ entries' = [entries EXCEPT ![sp][sn] = None, ![dp][dn] = s]
        /\ nlink' = IF ChangesParent(s, sp, dp)
                    THEN [nlink EXCEPT ![sp] = @ - 1, ![dp] = @ + 1]
                    ELSE nlink
        /\ UNCHANGED <<kind, nextInode, fds, nextFd, readonly, pending>>

\* rename over an entry for another inode d.  d loses one link, and its row
\* when that was the last, whatever fds are open on it.  The directory case
\* takes the entry of d off dp's count only when the parents differ, and
\* leaves the row of d, whose count was 2, in place.
RenameReplace(sp, sn, dp, dn) ==
    LET s == entries[sp][sn]
        d == entries[dp][dn]
    IN  /\ RequireWritable
        /\ ResolvesParent(sp) /\ ResolvesParent(dp)
        /\ s # None /\ d # None /\ d # s
        /\ RenameAllowed(s, dp)
        /\ Replaceable(s, d)
        /\ entries' = [entries EXCEPT ![sp][sn] = None, ![dp][dn] = s]
        /\ nlink' = IF ChangesParent(s, sp, dp)
                    THEN [nlink EXCEPT ![d] = @ - 1, ![sp] = @ - 1,
                                       ![dp] = (@ - 1) + 1]
                    ELSE [nlink EXCEPT ![d] = @ - 1]
        /\ kind' = IF nlink[d] - 1 = 0 THEN [kind EXCEPT ![d] = "none"] ELSE kind
        /\ UNCHANGED <<nextInode, fds, nextFd, readonly, pending>>

-----------------------------------------------------------------------------
Next ==
    \/ Reopen
    \/ Reclaim
    \/ ReclaimFails
    \/ \E f \in Fds : CloseFd(f)
    \/ \E p \in Inodes, n \in Names :
          \/ Mkdir(p, n)
          \/ Rmdir(p, n)
          \/ CreateNew(p, n)
          \/ CreateExisting(p, n)
          \/ Open(p, n)
          \/ Symlink(p, n)
          \/ Unlink(p, n)
    \/ \E p, q \in Inodes, m, n \in Names :
          \/ Link(p, m, q, n)
          \/ RenameMove(p, m, q, n)
          \/ RenameReplace(p, m, q, n)

Spec == Init /\ [][Next]_vars

-----------------------------------------------------------------------------
(* Properties.                                                             *)

\* Every row of `entries` sits in a live directory and binds a live node
\* other than the root: what the foreign keys guard, and what every
\* operation must keep for the next path walk to succeed.
EntriesLive ==
    \A p \in Inodes, n \in Names :
        entries[p][n] # None =>
            /\ kind[p] = "dir"
            /\ entries[p][n] # ROOT_INODE
            /\ kind[entries[p][n]] # "none"

\* A directory has at most one name, so `ancestry` and `path_for_inode`,
\* which look at one entry (LIMIT 1), see all of them.
OneNamePerDir ==
    \A d, p, q \in Inodes, m, n \in Names :
        kind[d] = "dir" /\ entries[p][m] = d /\ entries[q][n] = d
            => p = q /\ m = n

\* No set of inodes in which everybody has a parent inside the set: going up
\* from an inode ends, so the loop of `ancestry` terminates.
Acyclic ==
    \A S \in SUBSET Inodes :
        (\A c \in S : ParentsOf(c) \cap S # {}) => S = {}

\* Whatever has a name can be reached from the root by some path: no
\* operation, rename above all, cuts a subtree off.
NothingDetached ==
    \A p \in Inodes, n \in Names :
        entries[p][n] # None => Resolvable(entries[p][n])

\* The tables are a tree: no operation leaves an entry without its nodes, gives
\* a directory two names, closes a cycle or cuts a subtree off.
TreeShape == EntriesLive /\ OneNamePerDir /\ Acyclic /\ NothingDetached

\* nlink of a file or symlink is the number of its names, through links,
\* unlinks and renames, sessions that end half way included.
FileNlinkExact ==
    \A i \in Inodes :
        kind[i] \in {"file", "symlink"} => nlink[i] = Cardinality(Links(i))

\* A directory that can be reached counts at least itself, its name and its
\* subdirectories, so no sequence of operations drives nlink of a live
\* directory to the 0 at which close_fd deletes rows.
DirNlinkCovers ==
    \A d \in Inodes :
        kind[d] = "dir" /\ (d = ROOT_INODE \/ Links(d) # {})
            => nlink[d] >= 2 + Cardinality(Subdirs(d))

\* The nlink of a directory beyond 2 + subdirectories, which fsck compares.
Excess(d) == nlink[d] - (2 + Cardinality(Subdirs(d)))

\* The step binds a name that was taken to another inode: a rename over it.
Overwrites(p, n) ==
    entries[p][n] # None /\ entries'[p][n] \notin {None, entries[p][n]}

\* Only a rename over a directory changes the excess of a live directory, of
\* the one it replaces or of the one it happens in; every other operation
\* moves nlink and the subdirectories together.
DirNlinkDrift ==
    [][\A d \in Inodes :
          kind[d] = "dir" /\ kind'[d] = "dir" /\ Excess(d)' # Excess(d)
          => \E p \in Inodes, n \in Names :
                /\ Overwrites(p, n)
                /\ kind[entries[p][n]] = "dir"
                /\ d \in {p, entries[p][n]}]_vars

\* The row of a file or symlink that is open goes away only when a rename
\* overwrites one of its names; unlink and close_fd wait for the last fd.
OpenNodeSurvives ==
    [][\A i \in Inodes :
          /\ kind[i] \in {"file", "symlink"} /\ kind'[i] = "none"
          /\ \E f \in Fds : fds[f] = i
          => \E p \in Inodes, n \in Names : entries[p][n] = i /\ Overwrites(p, n)]_vars

\* A number that was ever given to a node is never given to another: once the
\* row is gone it stays gone, and while it is there its kind does not change.
\* An fd or a number the kernel holds (the adapter replies generation 0) that
\* outlives its node never comes to mean another file.
NumbersNotReused ==
    [][\A i \in Inodes : i < nextInode => kind'[i] \in {kind[i], "none"}]_vars

\* Rows that nothing can reach any more: no name, no fd, not about to go.
Stragglers ==
    {i \in Inodes : /\ kind[i] # "none" /\ i # ROOT_INODE /\ i # pending
                    /\ Links(i) = {} /\ \A f \in Fds : fds[f] # i}

\* Files and symlinks are left behind only by a session that ends with the
\* node unlinked, or by a delete that fails; within a session the last of
\* unlink and close_fd removes the row.  Stragglers that are directories come
\* from rename as well.
StragglersFromLostReclaims ==
    [][\A i \in Stragglers' \ Stragglers :
          kind[i] # "dir" => Reopen \/ ReclaimFails]_vars

\* rust/idea.md, observable invariant 9: "GC runs only when `nlink == 0 AND
\* open_fds == 0`".  A rename over an open file breaks it.
GcOnlyWhenClosed ==
    [][\A i \in Inodes :
          kind[i] \in {"file", "symlink"} /\ kind'[i] = "none"
          => OpenCount(fds, i) = 0]_vars

\* A read-only session never gets to delete a row, although close_fd, unlike
\* the other operations, does not ask whether the session may write.
ReadonlyNeverReclaims == readonly => pending = None
=============================================================================
