# A TLA+ verification of sqlite-fs

sqlite-fs keeps a POSIX file system in one SQLite file. The repository has it
twice: a Python library (`src/sqlite_fs`) and its port to Rust (`rust/src`),
function by function. The models are translated from the Rust code, except for
`PyTree`, which is the tree of the Python library: its rename, its reclaiming and
its cache of paths are not those of the port.

## 1. The system

| Part | Source | State it keeps | Operations |
|---|---|---|---|
| Directory tree | `rust/src/fs.rs`, `nodes.rs`, `entries.rs` | tables `nodes` (kind, nlink, size, mode, owner, times) and `entries` (parent, name, inode) | mkdir, rmdir, create, open, link, symlink, unlink, rename, stat, readdir, chmod, chown, utimes |
| Fd table | `fdtable.rs` | fd -> (inode, flags), next fd | open, close, get, open_count |
| Sessions | `mkfs.rs`, `schema.rs` | the SQLite file, `readonly` | mkfs, open_fs, close |
| fsck | `fsck.rs` | none, reads the tables | run_fsck |
| Locks | `locks.rs` | per inode a Vec of records (namespace, type, owner, range) | posix_lock, ofd_lock, flock, getlk, on_fd_close |
| File contents | `blobs.rs` | table `blobs` (inode, chunk_id, data), `nodes.size` | read_range, write_range, truncate_to |
| Watchers | `watch.rs` | subscriptions, one channel each | subscribe, emit, drop |
| Extended attributes, symlink targets | `xattrs.rs`, `symlinks.rs` | one table each | set, get, list, remove; insert, readlink |
| Permissions | `perms.rs` | `caller_uid`, `caller_gid` | require_access, as_user |
| Durability | `fs.rs`, `schema.rs` | WAL, checkpoint thread | fsync, fsyncdir, start_checkpoint |
| FUSE adapter | `fuse/adapter.rs` | none of its own; kernel inode numbers | one callback per kernel request |
| Python library | `src/sqlite_fs` | as above, and a cache of paths by inode | as above, and truncate, rename with exchange |

How they interact. `Filesystem` owns one connection, the fd table, the lock
manager and the watchers; every mutating operation takes `&mut self`, so calls
do not interleave. An operation resolves its path, checks permissions, writes in
one transaction, and emits an event after the commit. `close_fd` is where three
parts meet: it closes the fd, tells the lock manager, and deletes the node when
neither a name nor an fd is left. The FUSE adapter turns an inode number into a
path (`path_of_inode`) and calls the library as the user of the request, for some
requests several times. The checkpoint thread is the only concurrency inside the
process, on a connection of its own; from outside come the end of the process,
the loss of power, and other users of the mount between two calls of a sequence
such as a directory read in pieces.

What is hard here. Link counts are maintained by hand in seven operations and
decide when a row is deleted; unlink and close_fd delete in a statement after the
commit, so a session can end in between; nodes outlive their names while open, and
rename overwrites names of nodes that may be open; rename has to keep a tree;
unlocking splits records; chunk borders, holes and truncation have to hide behind
one flat file; a checkpoint that another connection blocks looks like one that
was done; an event carries a path, and paths change; a number becomes a path
and has to become the same number again; a request of several commits can be
refused, or end, between two of them, and its later calls are checked against
what the earlier ones made of the node. `PROJECT.json`, `hazards`, lists each at
its line.

What makes each part correct:

- tree: it stays a tree under the root, every entry is live, link counts count,
  a row goes away when and only when nothing refers to it;
- fds: an fd stays with its node, its number never comes to name another one;
- fsck: a healthy file system has no issues, a damaged one does;
- locks: no two owners in conflict on a byte, an unlock frees its range and no
  more, a close frees what it should;
- contents: reads return what was written, zeros elsewhere;
- watchers: every committed change is heard, in order, by those who asked, and
  what an event says is so;
- attributes: a change is made for those who may make it, a request that
  succeeds has done all of it, one that fails a prefix;
- durability: after fsync returns the data survives a power loss; a power loss
  leaves whole transactions; close ends;
- adapter: a callback acts on the node and the entry the kernel named.

## 2. Modules

| Module | Models | State | Actions |
|---|---|---|---|
| `Namespace` | the tree, the fd table, sessions | `kind`, `nlink`, `entries`, `nextInode` (tables); `fds`, `nextFd`, `readonly`, `pending` (session) | `Mkdir`, `Rmdir`, `CreateNew`, `CreateExisting`, `Open`, `Symlink`, `Link`, `Unlink`, `CloseFd`, `RenameMove`, `RenameReplace`, `Reclaim`, `ReclaimFails`, `Reopen` |
| `Fsck` | `run_fsck`, as a function of the tables | that of `Namespace` | - |
| `Paths` | parsing, resolution, the way up from an inode | that of `Namespace` | - |
| `Watch` | the registry of watchers and every call that emits; extends `Paths` | `slots`, `queue`, `owed`, `mirror`, `deaf` | `Subscribe`, `Unsubscribe`, `Recv`, `WCreate`, `WLink`, `WRmdir`, `WRename`, `WUnlink`, `WReclaim`, `WReclaimFails`, `Write`, `Metadata`, `Silent`, `WReopen` |
| `Adapter` | the FUSE callbacks on the tree; extends `Paths` | `reading`, `offset`, `got`, `stayed`, `came`, `went` | one per callback; `Opendir`, `Readdir`, `Releasedir` |
| `Attrs` | attributes of one node, permissions, xattrs, requests of several commits | `kind`, `node`, `writer`, `readonly`, `self`, `caller`, `req`, `before` | `LibRequest`, `FuseRequest`, `Call`, `Done`, `Denied`, `StatementFails`, `Write`, `CloseFd`, `Reopen` |
| `Durability` | commits, checkpoints, fsync, the checkpoint thread, close | `last`, `walBase`, `walSynced`, `backfilled`, `copied`, `dbSynced`, `torn` (files); `ckptBy`, `upto`, `copying` (checkpoint); `mode`, `pc`, `thread`, `stop`, `acked`, `risky` | `Commit`, `Fsync`, `FsyncSkipped`, `AutoCheckpoint`, `CkptSyncWal`, `MainCkptEnd`, `ThreadCkptEnd`, `FinalCkptEnd`, `ThreadOpenFails`, `ThreadTimeout`, `ThreadStop`, `Stop`, `Close`, `Drop`, `Kill`, `PowerLoss`, `Reopen` |
| `DurableLog` | what the database promises about commits | `log`, `durable`, `intact` | `Commit`, `Persist`, `Crash` |
| `Locks` | `LockManager` and the calls that reach it | `records`, `fds`, `nextFd` | `Open`, `CloseFd`, `Lock`, `Unlock` |
| `ByteLocks` | what locking promises, byte by byte | `held` | `Acquire`, `Release`, `Close` |
| `Blobs` | chunks of one file | `blobs`, `size` | `Write`, `Truncate` |
| `FlatFile` | what a file's content promises | `content` | `Write`, `Resize` |
| `PyTree` | the tree of the Python library and its cache of paths | as `Namespace` without `pending`; `cache` | `Mkdir`, `Rmdir`, `OpenNew`, `OpenExisting`, `CloseFd`, `WriteFd`, `Symlink`, `Link`, `Unlink`, `RenameMove`, `RenameReplace`, `RenameExchange`, `Reopen` |
| `Induction`, `NamespaceProofs`, `PathProofs`, `PyTreeProofs`, `LocksProofs`, `BlobsProofs`, `AttrsProofs`, `DurabilityProofs` | the proofs, see section 4; `NamespaceProofs` is about `Namespace` and `Fsck`, `PathProofs` about `Paths`, `Adapter` and `Watch` | | |
| `MCNamespace`, `MCWatch`, `MCAdapter`, `MCAttrs`, `MCDurability`, `MCLocks`, `MCBlobs`, `MCPyTree` | the instances that TLC checks | | |

`PROJECT.json`, `map`, gives the source lines of every definition. Definitions
called "Mutant of ..." are used by no specification; section 3 says what for.

**Namespace.** An operation is one step when it writes in one transaction; a
refused call rolls back and is no step. The statement that deletes a node after
unlink has committed, or after close_fd has closed the fd, is a step of its own:
`Unlink` and `CloseFd` leave the node in `pending`, and `Reclaim` (it works),
`ReclaimFails` (it returns an error) or `Reopen` (the session ends) follows; no
other operation can run in between, because the call has not returned. `Reopen` is
`close`, which closes no fd, or a crash, and the next `open_fs`, read-only or not.
A path is what it resolves to: a directory that can be reached, and a name. The
operations are guarded by the code's conditions only; permission checks are left
out, so the behaviours include those of every caller, root too.

**Paths.** A path is the sequence of its components. `parse_path` tolerates a
slash at the end, so one entry has two spellings, and the empty last component
stands for it. `path_for_inode` climbs by any one entry of a node, as the query
without an order does: it is the set of the paths it may return.

**Fsck.** `run_fsck` is a function of the tables. Its walk for cycles stops after
`MaxDepth` steps, 4096 in the code, so a longer circle goes unreported.

**Watch.** The actions of `Namespace`, each with the event its function emits. A
slot and an event are matched as strings. `mirror` is a consumer that lists the
directory as it subscribes and applies what it receives; `deaf` marks the three
ways the code itself lets a consumer fall behind: its path comes to lead
elsewhere, a name is spelled with a slash at the end, a delete fails in unlink.
`owed` is the event an unlink sends after its trailing delete. `deaf` and
`mirror` are history; no guard reads them.

**Adapter.** The kernel may come with any number it was ever given, and a name.
A callback turns the number into a path and the library resolves it again; the
actions of `Namespace` are taken where that leads, so a way up and a way down
that disagree would change another entry. readdir is stateless: each call lists the
directory anew and skips `offset` entries, while other callbacks change it.

**Attrs.** A request is the sequence of the calls, or of the statements of one
call, that commit by themselves: the adapter's setattr is chmod, chown, utimes and
a truncating open in the order of the code, setxattr and removexattr are the write
of the attribute and the update of ctime. `Call` makes the next one, checked by
perms.rs against the node as it then is; `Denied`, `StatementFails` and `Reopen`
leave the rest. Whatever goes through `update_size`, a truncating open or a write, sets
mtime to what the clock shows (`Now`). `caller` is the identity `as_user` sets and
its guard puts back. `before` is the node as the request found it.

**Durability.** SQLite and the disk are external: transactions are numbers, a
position in a file is the last transaction it holds, and a checkpoint is lock, sync
of the WAL, copy, sync of the database file if it has reached the end of the WAL.
What is the program's own is when it calls them: the pragmas of the four modes on
the session's connection only, the fsync that does not look at the busy flag, the
thread's loop around `recv_timeout`, the order of close (message, join, connection)
and of drop (connection first, nobody joins), and so which connection is the last
one and runs the final checkpoint. `Kill` ends the process, `PowerLoss` also takes
what was not synced.

**Locks.** The records of a file are a sequence, because the code takes the first
that matches and equal records can exist. A refused request is no step (`wait`
is ignored by the code). `CloseFd` calls `on_fd_close` with process 0 as
`Filesystem::close_fd` does.

**Blobs.** A chunk is the data of its row, which may be shorter than the chunk
size, or missing. Truncation to any size is the Python library's (`truncate`,
`truncate_fd`); the Rust code calls the same `truncate_to` with size 0 only.

**PyTree.** The Python library reclaims within the transaction that drops the last
name, so there is no `pending`; `close_fd` reclaims in a transaction that takes the
node's own entries along (ON DELETE CASCADE), one that binds the node itself
included, and fails if an entry elsewhere still binds it (foreign keys are on). A cached path is a sequence of names; `WriteFd` is a
write or a truncation that puts one into the cache, found by any of the node's
links. What a write does to the content is not here. The Rust port has no cache and
no exchange, and maintains the link counts of directories in rename.

## 3. Runs

| Run | Bounds | Shows |
|---|---|---|
| `namespace` | 2 names, 4 inodes, 2 fds, fsck going 4 steps up | the tree, link counts, reclaiming, numbers and fsck: 10 properties |
| `namespace_open_rename` | same | **violated:** idea.md, invariant 9, on GC of open files |
| `watch` | 2 names, 3 inodes, 1 fd, 1 watcher, 2 events in its channel | events are enough to follow a directory, and true |
| `adapter` | 2 ordered names, 3 inodes, 1 fd | callbacks act where they were asked to; what a directory read in pieces may miss |
| `attrs` | root, two users, 2 modes, 2 xattrs | requests of several commits: order, rights, what a refusal leaves |
| `durability` | the 4 modes, 3 transactions | refinement of `DurableLog`, what survives, close ends, the window of loss closes |
| `durability_fsync` | mode normal, 3 transactions | **violated:** fs.rs.engspec on fsync |
| `locks_posix` | 2 processes, starts 0..1, lengths 0..2, 3 records | records implement `ByteLocks`; exclusion and getlk over the fragments of splits |
| `locks_kinds` | 1 process, 2 fds, 3 kinds of lock, lengths 0..1, 3 records | `ByteLocks` across the kinds; OFD and flock locks die with their fd |
| `locks_close` | 2 processes, 2 fds, 2 records | **violated:** plan.md, edge case 17, POSIX locks on close |
| `blobs` | chunks of 3 bytes, 7 bytes, writes up to 5 | chunks implement `FlatFile`, reads return it |
| `py_tree` | 2 names, 1 fd, 4 inodes of any kind or 5 of given kinds | link counts, reclaiming, origin of cycles and of stale paths |

`namespace`: `TreeShape` (every entry is live, a directory has one name, no cycle,
no operation cuts a subtree off), `FileNlinkExact`, `DirNlinkCovers` (the count of a
live directory never falls to where rows are deleted), `DirNlinkDrift` (only a
rename over a directory moves a count away from 2 + subdirectories),
`OpenNodeSurvives` (an open node goes only by a rename over one of its names),
`NumbersNotReused` (AUTOINCREMENT protects fds and the kernel's numbers whose row
is gone), `StragglersFromLostReclaims` (files are left behind only by the end of a
session or a failing delete), `ReadonlyNeverReclaims` (close_fd does not ask whether
it may write, and does not need to) and `FsckFindsOnlyNlink` (fsck reports nothing on a
file system only this code has touched, but the counts a rename over a directory
leaves).

`watch`: `MirrorsDirectory` (a consumer that is not deaf ends up with exactly the
entries of its directory, inode numbers included), `WritesHeard` (a write to a file all
of whose names are in the directory is heard there, by whichever name),
`EventsTruthful` (when an event is sent, what it says is so).

`adapter`: `ActsWhereAsked`; `ReaddirMissesOnlyShifted` (an entry that stays in
place is skipped or repeated only if a name in front of it went or came).

`attrs`: `AppliedInOrder` (success means all of it, but for an mtime that the
request's own truncation overwrites; failure means a prefix),
`RefusedMidwayByOwnMode` (a request made of allowed calls is refused half way only
by the mode its own chmod set), `OnlyOwnerChanges` (who may have changed what; mtime
also by a truncation, trusted attributes set by root and removed by any writer),
`CtimeKeepsUp` (ctime stays behind an attribute only where something fell between
the two commits).

`durability`: `ImplementsDurableLog` (a durable prefix that only grows, crashes cut
behind it and between transactions), `FsyncDurableAlone` (with no thread an fsync
is durable), `ClosedDurable`, and under fairness `CloseReturns` and `DurableSoon`.

`py_tree`: `CountsLostByCascade` (the link count of a file goes wrong only when ON
DELETE CASCADE takes a name of it, with the root or with a directory that no path
led to), `OpenFilesSurvive` (Python keeps idea.md's rule on GC
where the port does not), `CyclesByExchange` (no other operation closes a cycle) and
`StaleByOverwrite` (a cached path goes stale only when a rename binds something else
to a name on it).

**Fairness.** Only `durability` assumes any: weak fairness of `CkptSyncWal`,
`MainCkptEnd`, `ThreadCkptEnd`, `FinalCkptEnd` and `Close` (a call that has begun goes
on while the process lives) and of `ThreadTimeout` and `ThreadStop` (`recv_timeout`
has a timeout and returns). Nobody has to commit, sync or close; kills and power
losses need not happen and may always. All other operations are synchronous calls
about which the code promises what is true when they return, and their runs are
of safety properties.

**Why the bounds are enough.** Four inodes are the root and three more: a rename of a
directory over a directory below another one, hard links in two directories, and
a directory two levels down all fit. Two fds allow one node open twice, or an fd
whose row is gone beside a live one. `watch` and `adapter` have one inode less: a
directory in the root and something in it are what a path of two components and
a rename above a watch need, and a file with two names needs no more; two names
are enough for a shift, one that goes in front of one that stays. An event of
`watch` concerns one slot at a time, so one watcher shows what each sees; two
waiting events are what order needs. In `attrs` the session is alice's, chown is to
bob, and the modes are 0660 and 0046, of which the second gives others more than
the owner: every class decides somewhere, and a chmod in a setattr takes access
away from the owner; the time lies before the epoch, which the adapter's conversion
changes. Three transactions allow one in the database, one synced in the WAL and one
in neither, and a WAL that starts over. For locks, starts and lengths have a first
byte, a middle and an end, and the byte behind all bounds stands for everything up
to infinity; three records are what one split of a pair leaves. For blobs, 7 bytes
are two full chunks and one of a single byte, and a write of 5 bytes touches up to three
chunks. The depth of fsck's walk is the number of inodes, so it
finds every circle of the instance. For `PyTree`, losing a directory takes three of them
below the root, one that is kept while the others are made in it, moved out and
removed until its count is 0, and a lost count takes a file in it: five inodes. All
kinds in all orders are too many with five; `MCPyTree` therefore has two sets of
bounds in one run (`focus`), four inodes of any kind with the cache of paths, and five
whose kinds are given, the file with two names at most and nothing cached. The second
reaches both cases of `CountsLostByCascade`: the root, and a directory exchanged
with its own entry so that it lies in itself. Each property is about a node that is
open at all, so one fd is enough. Symmetry is over names where no operation tells them apart (not
in `adapter`, which sorts them), and over processes, which are only compared; it is
not used with liveness. `CHECK_DEADLOCK FALSE` in the runs of `Locks`: fd numbers are
never used again within a session, so once the bound is reached and all are closed
nothing more can happen; and in `durability_fsync`, which looks for one state.

Each property of a passing run has a mutant in `PROJECT.json`: a plausible slip in
one definition (a dropped guard, swapped arguments, a plain rowid in place of
AUTOINCREMENT, an identity that is not put back, ...) that makes TLC find the property
violated.

## 4. What is proved

Every safety invariant and every action property of the passing runs, for every
value of the constants; the named assumptions are the ones declared with the
constants, and TLC evaluates each of them. Each module has one inductive
invariant, stated as a conjunction of named parts, and one lemma per action; a part
is there because some step would break a property without it.

**`NamespaceProofs`** (any finite set of names, any bound on inodes and fds:
`NamesAssumption`, `BoundsAssumption`): `Spec => []IInv` and from it `TypeCorrect`,
`TreeKept` with its parts `EntriesStayLive`, `DirsKeepOneName`, `NoCycles` and
`NothingGetsDetached`, `FileLinkCounts`, `DirLinkCounts`, `ReadonlyKeepsRows`, and the
action properties `NumbersRetire` and `OpenNodesSurvive`. `IInv` is a conjunction of a
part about the tables, `DbInv`, and one about the session, `SessionInv`:

- `DbTypes` lets link counts be any integer; that they are natural numbers follows
  from `FileNlinkExact` and `DirNlink`, and not the other way round.
- `Rows`: the root is a directory, numbers from `nextInode` on have no row. With
  `FdsOld` (fds hold numbers handed out) this is `NumbersRetire`.
- `Occupied`: a directory with entries is the root or has a name. A rename over a
  directory leaves its row behind; it was empty and nothing resolves to it, so
  it stays empty. Without this part `NothingDetached` is not inductive.
- `OneNamePerDir` and `Acyclic` need each other and `Ancestry` in rename: the
  target's parent is not below the source, so the new edge closes no cycle.
- `DirNlink`: at least 1 for any directory row, at least 2 + subdirectories for
  those with a name. It is an inequality, because rename makes the equality false.
- `PendingUnused` and `ReadonlyFds`: what is about to be deleted has no
  name and no fd; what a read-only session opened has a name, and nobody can take
  it away, hence `ReadonlyKeepsRows`.

Acyclicity and reachability are defined by quantifying over sets of inodes ("no
non-empty set in which everybody has a parent inside"), which makes them usable
without induction: a step exhibits a set. `NothingDetached` follows from
`Acyclic`, `EntriesLive` and `Occupied`: the named inodes outside a closed set
would be a cycle. Counting rests on one lemma, `DifferInOne`; a rename is
followed through its two changes of the table one at a time.

Step by step: `OnlyRenameDrifts` follows the link count minus the number of
subdirectories through each action; only a rename over a directory changes it, and
only for the directory written to and the one replaced. `NothingLeftBehind` looks at
each action that can take the last name or the last fd of a file and shows that it
leaves the file pending; besides `IInv` it needs that fds at or above `nextFd` are
free (`FdsComeInOrder`).

fsck: `FsckComplete` holds of any tables, also those no operation made: an empty
report means that every entry has both its rows, that nobody is met on the way up from
itself in `MaxDepth` steps and that the counts of directories are exact, and the other
way round. If there are no more inodes than `MaxDepth` (`DepthAssumption` bounds it
only from below), the middle part is `Acyclic`; beyond, fsck can miss a circle. A circle is found because the member
with the fewest inodes above it would otherwise have a parent with fewer. `FsckQuiet` is the
case of the tables this code makes. What fsck does not look at is as plain from
it: rows without a name, and the link counts of files.

**`Induction`** has no theorem about the code. The induction theorems of the library
take an operator, which cannot be instantiated here; stated over sets (a set of
numbers that holds 0 and the successor of each member holds all) they can be used.
From that: a function given by a first value and a step exists (`RecursionExists`),
which is what a recursive function of the models needs, being a CHOOSE of one that
satisfies the equation; that two such agree is `UpToInduction` at each place; and
induction over sequences (`SeqInduction`).

**`PathProofs`** (also `NameAssumption`: no name is empty, "." or ".."; `OrderAssumption`:
`Order` lists the names; `WatchAssumption`). It has four parts.

- *Down.* `resolve_to_inode` is a walk, `WalkIn`, over a given table, so that the
  tables before and after a step can be compared. A walk over a longer path is a walk
  and one step more (`WalkAppend`), and an empty last component changes nothing.
- *Up.* The loop of `path_for_inode` reaches the root in fewer than `MaxInode` turns:
  each turn has fewer inodes above it (`AncestryShrinks`), and a directory with
  entries is the root or has a name (`Occupied`). At each turn the path collected
  leads from where the loop is to the inode. Hence `PathsLeadBack`: every path made
  resolves to its inode, and a directory has one path only.
- *Adapter.* Each callback is the action of `Namespace` it calls or none
  (`AdapterImplements`), so `IInv` holds there too, and with it `CallbacksActWhereAsked`.
  For `ReadersMissOnlyShifted`, `ReaderInv` compares the place of each name that stayed
  with the offset: while no name in front of it came, one that was returned is behind
  the reader; while none went, one that was not is still to come. The property
  speaks of the end of a read only, and of how often a name was returned.
- *Watchers.* `WatchImplements` as for the adapter. `WInv` has the types, what an
  unlink owes while its delete is pending (`OwedInv`: a Remove, still true), and,
  per watcher that is not deaf, that its path leads to its directory and that the
  mirror, after all waiting events and the one owed, lists that directory.
  `MirrorsDirectory` alone is not inductive: it says nothing of the path, nor of the
  time between commit and event. The work is in
  when a path goes on to lead where it led: `StillLeads`, for a set of inodes that
  contains the parents of its members and whose entries a step keeps. A rename that
  does not move the watched directory keeps those above it, which is why the code
  may match strings at all. Then, for each kind of change, that its event takes the old
  listing of a directory to the new one if a slot on it matches, and that the listing
  is the same if it does not (`OneNameHeard`, `MoveHeard`). From it `WatchersMirror`, `WritesAreHeard` and
  `EventsAreTrue`.

**`PyTreeProofs`** (`PyTreeAssumption`). The Python tree can get cycles and can lose its
root, so neither may be used: `IInv` has one name per directory and live entries
whatever the shape is, and `NamesCounted`: a file counts at least the names it has.
Equality would not be inductive, because close_fd can delete the root, or a directory
that lies in itself, and the cascade takes names that stay counted; the inequality is enough for
reclaiming, since a row whose count is 0 has no name left to dangle. `CountsKept`
says that every other step keeps the difference of count and names, for each file, and
`FileLinkCounts` puts both together: the directory that went was the root or is
bound by nothing but itself (`OwnNameOnly`), and then no path led to it
(`ResolvableIn`). `OpenFilesKeptOpen` is the rule the
port breaks. `OnlyExchangeCloses`: a circle that a move closes goes through the entry it
writes, so the source would be above the target, which the walk of rename rules out. `OnlyOverwriteStales`: a
way breaks only where one of its entries changes (`WayThrough`), and each operation that
changes one drops what it unbinds from the cache, with the two named exceptions; a
directory that close_fd deletes is on no way that leads somewhere (`WalksMissAdrift`).

**`LocksProofs`** (any processes, fds, kinds of lock, ranges: `LockAssumption`):
`TypeCorrect`, `LocksExclude`, `FdLocksReleased`, `GetlkExact` and `Refinement`, that
`Locks` implements `ByteLocks`. The lemma on which all rest is that `Compact`, which
closes the gaps between the pieces of records that an unlock or a close keeps, has
exactly those pieces; it is proved by ranking positions, without induction. From it come three
lemmas on who holds which byte after a release, a grant and a close. `IInv` adds to
the types that fds not handed out yet own nothing (`FdsAhead`), exclusion stated per
record, and that the owner of an OFD or flock record is an open fd.

**`BlobsProofs`** (any chunk size, any bounds: `BlobAssumption`): `TypeCorrect`, with no
chunk reaching past the end of the file as its inductive part (a truncated byte that
stayed would come back), and `Refinement`, that `Blobs` implements `FlatFile`. The
argument goes chunk by chunk, then byte by byte; `Base(c)` names the first byte of a
chunk so that the arithmetic below it is linear. `ReadsAreRight`: each chunk gives the
part of the file it covers, zeros included; a part begins where the one before ends
(`PartsMeet`), and joining parts that meet gives the slice from the first to the last, by
induction on their number.

**`AttrsProofs`** (any users, modes, times, xattrs: `UsersAssumption`,
`XattrAssumption`, `TimesAssumption`): `ChangesAuthorised`, `CtimeFollows`,
`CallsInOrder` and `RefusedMidway`. First, what a request is: no call occurs twice
in one, and a change of an xattr is followed by that of ctime and by nothing else.
`IInv` says of a running request that the calls to come are the last of those asked
for (`Progress`), that those made are in force, with the clock's mtime if one of them
truncated, and that the owner changed for root
only, group and mode for the owner or root only, the mode by a chmod of the request
itself (`Effect`). Who is the owner half way was so at the beginning, or is root.

**`DurabilityProofs`** (any set of the four modes, any number of transactions:
`ModesAssumption`, `MaxTxAssumption`): `TypeCorrect`, `NotTorn`, `FsyncAlone`,
`CloseDurable` and `Refinement`, that `Durability` implements `DurableLog`. The
invariant is an order of positions, walBase <= dbSynced <= walSynced, and
copied <= walSynced unless some session ran with sync_mode off. It is kept because
the checkpoint lock ties the connection that holds it to the state of its thread
(`LockHeld`), because no commit falls into the final checkpoint (`Ending`), and
because a checkpoint never copies what it has not seen (`Seen`).

Model-checked only: the liveness properties `CloseReturns` and `DurableSoon`, which
need ENABLED and are out of this prover's reach. The three disagreements of section 5
are counterexamples and stay with TLC as well.

## 5. Where the documents and the code disagree

Three statements are false of the Rust code; each is a run that TLC refutes, and an
entry of `findings`. Rename over an open file deletes its row (idea.md, invariant 9).
POSIX locks survive every close, as `close_fd` names process 0 (plan.md, edge case
17). An fsync that meets the checkpoint thread at work returns Ok and has made nothing
durable (fs.rs.engspec, "WAL + main DB file fsynced").

Others are stated by the condition of a property that holds. Rename over an empty
directory in the same parent leaves the parent's link count one too high, and the row
of the replaced directory behind, against idea.md, invariant 4: `DirNlinkDrift`. In
the Python library an exchange of a node with a directory above it makes a cycle
(idea.md, invariant 1): `CyclesByExchange`. Its rename changes no link count of a
directory, so counts drift both ways, and at 0 closing an fd on the root deletes
the root; the same befalls a directory that an exchange with its own entry has put into
itself, and the files in it keep a count of names that are gone: `CountsLostByCascade`.
In the Rust port removexattr does not look at the name, so whoever may write a file
removes a trusted attribute from it, against plan.md, edge case 27 ("`trusted.*`
requires root"): `OnlyOwnerChanges`. A setattr with a time and size 0 answers Ok and
leaves the clock's time: `AppliedInOrder`. setxattr and removexattr take two commits where
README.md has "Every mutation is its own SQLite transaction": `CtimeKeepsUp`. Rename over an
open file, or an exchange of a file with a directory, leaves paths in the cache that
name something else, against the doc string of `_path_of_inode`: `StaleByOverwrite`.

Seen while modelling, plain from the code and without a property of their own: fsck
neither reports nor removes rows without a name (plan.md, question 5), nor a circle of
more than 4096 inodes; overlapping
locks of one process are neither merged nor split by type (plan.md, edge case 16); a
file with holes stores fewer bytes than its size (idea.md, invariant 2); an unlink
whose trailing delete fails returns an error although the name is gone, and sends no
event; a path with a slash at the end is announced as it was spelled, so that
watchers of the directory miss it; an unlinked open file has no path, so fstat,
fchmod and ftruncate on it fail under FUSE while read and write go on; the flags of
the kernel's rename and setxattr are dropped by the adapter; a setattr that ends in
an error may have changed mode, owner and times.

## 6. Not modelled, and why

- SQLite and the disk: external, modelled from their documented behaviour where
  `Durability` needs it; elsewhere a committed transaction is atomic and stays.
- Permission checks of the operations on the tree: they refuse calls without a trace,
  and `Namespace` allows what any caller could do. `create` of an existing directory,
  which gives a writable fd, is in `Namespace` and `Watch` but not in `Attrs`.
- Checks of name syntax, PATH_MAX and lengths of xattr names and values: they refuse
  without a trace. A watch registered with a slash at the end matches nothing.
- Calls that only read: stat, access, readlink, getxattr (and its size calls),
  listxattr, statfs; what a reply is converted to for the kernel.
- Orphan rows in `blobs`, `xattrs`, `symlinks` and the passes of fsck over them: the
  schema deletes them with their node (ON DELETE CASCADE).
- Reopening the database in the same process while the thread of a dropped session
  has not ended yet: `Reopen` in `Durability` waits for it or for the end of the process.
- 64-bit wrap of lock ranges: the ranges that reach the code are at most 2^63 - 1.
- The Python lock manager (whose unlock drops whole records), watchers, fsck and FUSE
  adapter: the port has replaced them. Command line, errors, types: no behaviour
  of their own.

## 7. Plan

Done, in this order: 1. `Namespace` with `Fsck`; 2. `Locks` against `ByteLocks`;
3. `Blobs` against `FlatFile`; 4. the inductive invariant of `Namespace`; 5. `PyTree`;
6. `Durability` against `DurableLog`, with liveness; 7. `Paths` and `Watch`;
8. `Adapter`; 9. `Attrs`, with permissions and xattrs; 10. proofs of the step properties
of `Namespace`, of `Fsck`, `Locks`, `Blobs`, `Attrs` and `Durability`, with the three
refinements; 11. induction over data, and with it the proofs of `PyTree`, `Paths`,
`Adapter`, `Watch` and the reads of `Blobs`.

Left: the Python lock manager against `ByteLocks`, which it does not implement;
reopening beside a lingering thread.
