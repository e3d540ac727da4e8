-------------------------------- MODULE Locks --------------------------------
(***************************************************************************)
(* Advisory locks: the LockManager of rust/src/locks.rs and the calls of   *)
(* fs.rs that reach it, `posix_lock`, `ofd_lock`, `flock`, the getlk pair  *)
(* and `close_fd`.  A request that conflicts is refused at once (`wait` is *)
(* ignored) and changes nothing, so it is no step.  The records of a file  *)
(* are a Vec, hence a sequence: an owner can have several records for one  *)
(* byte, even equal ones, and the first that matches is the one updated.   *)
(***************************************************************************)
EXTENDS Integers, Sequences, FiniteSets

CONSTANTS
    Inodes,       \* files
    Pids,         \* the processes that take POSIX locks
    Namespaces,   \* the kinds of lock in use, of "Posix", "Ofd" and "Flock"
    MaxFd,        \* bound: the largest fd number handed out
    MaxStart,     \* bound: the largest start of a request
    MaxLength,    \* bound: the largest length of a request
    MaxRecords    \* bound: records per file

ASSUME LockAssumption ==
    /\ 0 \notin Inodes
    /\ 0 \notin Pids
    /\ Namespaces \subseteq {"Posix", "Ofd", "Flock"}
    /\ {MaxFd, MaxStart, MaxLength, MaxRecords} \subseteq Nat

None == 0
Fds == 1..MaxFd
Types == {"shared", "exclusive"}
Owners == Pids \cup Fds

Record == [namespace : Namespaces, type : Types, owner : Owners,
           start : Nat, length : Nat]

VARIABLES
    records,   \* LockManager.by_inode, an empty sequence for a missing key
    fds,       \* FdTable.entries: the inode of each open fd
    nextFd     \* FdTable.next_fd

vars == <<records, fds, nextFd>>

TypeOK ==
    /\ records \in [Inodes -> Seq(Record)]
    /\ fds \in [Fds -> Inodes \cup {None}]
    /\ nextFd \in 1..(MaxFd + 1)

-----------------------------------------------------------------------------
(* Ranges.  Length 0 reaches to the end of the file and beyond.  Starts    *)
(* and lengths are file offsets (off_t), so start + length fits a u64.     *)

\* Mutant of Overlaps: ranges that touch count as overlapping.
OverlapsOrTouches(start, length, s, l) ==
    ~ \/ length # 0 /\ start + length < s
      \/ l # 0 /\ s + l < start

\* The byte ranges (start, length) and (s, l) have a byte in common.
Overlaps(start, length, s, l) ==
    ~ \/ length # 0 /\ start + length <= s
      \/ l # 0 /\ s + l <= start

RecOverlaps(r, s, l) == Overlaps(r.start, r.length, s, l)

\* The k-th element, in ascending order, of a set of numbers.
Nth(S, k) == CHOOSE x \in S : Cardinality({y \in S : y < x}) = k - 1

\* The sequence of the elements f[i], i \in S, in order of i.
Compact(f, S) == [k \in 1..Cardinality(S) |-> f[Nth(S, k)]]

\* What is left of r in front of a range that starts at s, after r.start.
LeftOf(r, s) == [r EXCEPT !.length = s - r.start]

\* What is left of r behind a range that ends at e, before the end of r.
RightOf(r, e) == [r EXCEPT !.start = e,
                           !.length = IF r.length = 0 THEN 0 ELSE r.start + r.length - e]

\* Something of r is left in front of the range.
HasLeft(r, s) == r.start < s

\* Mutant of HasRight: a record up to infinity is cut off at the range.
HasRightFinite(r, s, l) == l # 0 /\ r.length # 0 /\ s + l < r.start + r.length

\* Mutant of HasRight: a range given up past the end of r is not noticed.
HasRightAlways(r, s, l) == l # 0

\* Something of r is left behind the range.
HasRight(r, s, l) == l # 0 /\ (r.length = 0 \/ s + l < r.start + r.length)

-----------------------------------------------------------------------------
(* LockManager.                                                            *)

\* Mutant of Hit: an fd's locks of the other kinds are hit as well.
HitAnyKind(r, ns, o, s, l) == r.owner = o /\ RecOverlaps(r, s, l)

\* The record hit is the owner's and shares bytes with the range given up.
Hit(r, ns, o, s, l) == r.namespace = ns /\ r.owner = o /\ RecOverlaps(r, s, l)

\* namespace_lock with Unlock, over the records rs of one file.  Record k
\* goes to slots 2k-1 and 2k: itself, or what is left in front and behind.
Released(rs, ns, o, s, l) ==
    LET rec(slot) == rs[(slot + 1) \div 2]
        first(slot) == slot % 2 = 1
        kept == {slot \in 1..(2 * Len(rs)) :
                    IF Hit(rec(slot), ns, o, s, l)
                    THEN IF first(slot) THEN HasLeft(rec(slot), s)
                                        ELSE HasRight(rec(slot), s, l)
                    ELSE first(slot)}
        piece == [slot \in 1..(2 * Len(rs)) |->
                    IF Hit(rec(slot), ns, o, s, l)
                    THEN IF first(slot) THEN LeftOf(rec(slot), s)
                                        ELSE RightOf(rec(slot), s + l)
                    ELSE rec(slot)]
    IN  Compact(piece, kept)

\* Mutant of Blocks: the type asked for is not looked at.
BlocksExclusiveOnly(r, ns, o, t, s, l) ==
    r.namespace = ns /\ r.owner # o /\ RecOverlaps(r, s, l) /\ r.type = "exclusive"

\* Record r of another owner stands in the way of a lock of type t.
Blocks(r, ns, o, t, s, l) ==
    /\ r.namespace = ns /\ r.owner # o
    /\ RecOverlaps(r, s, l)
    /\ "exclusive" \in {r.type, t}

Grantable(rs, ns, o, t, s, l) ==
    \A k \in DOMAIN rs : ~Blocks(rs[k], ns, o, t, s, l)

\* Records of the owner for exactly this range.
SameRange(rs, ns, o, s, l) ==
    {k \in DOMAIN rs : /\ rs[k].namespace = ns /\ rs[k].owner = o
                       /\ rs[k].start = s /\ rs[k].length = l}

\* namespace_lock with Shared or Exclusive, once it is grantable: the first
\* record for the range takes the type, or a record is pushed.
Granted(rs, ns, o, t, s, l) ==
    LET same == SameRange(rs, ns, o, s, l)
    IN  IF same # {}
        THEN [rs EXCEPT ![Nth(same, 1)].type = t]
        ELSE Append(rs, [namespace |-> ns, type |-> t, owner |-> o,
                         start |-> s, length |-> l])

\* getlk: the positions of the records that are reported, of which the code
\* takes the first.  What the query asks for, shared or exclusive, is not
\* part of it.
getlk(rs, ns, o, s, l) ==
    {k \in DOMAIN rs : /\ rs[k].namespace = ns /\ rs[k].owner # o
                       /\ RecOverlaps(rs[k], s, l)}

\* Mutant of GoneOnClose: flock locks are forgotten.
GoneOnCloseNoFlock(r, f, pid) ==
    r.owner = CASE r.namespace = "Posix" -> pid
                [] r.namespace = "Ofd" -> f
                [] r.namespace = "Flock" -> None

\* What on_fd_close removes.
GoneOnClose(r, f, pid) == r.owner = IF r.namespace = "Posix" THEN pid ELSE f

on_fd_close(rs, f, pid) ==
    Compact(rs, {k \in DOMAIN rs : ~GoneOnClose(rs[k], f, pid)})

-----------------------------------------------------------------------------
(* Filesystem.                                                             *)

Init ==
    /\ records = [i \in Inodes |-> <<>>]
    /\ fds = [f \in Fds |-> None]
    /\ nextFd = 1

\* open or create.
Open(i) ==
    /\ nextFd \in Fds
    /\ fds' = [fds EXCEPT ![nextFd] = i]
    /\ nextFd' = nextFd + 1
    /\ UNCHANGED records

\* close_fd, which names process 0 to on_fd_close.
CloseFd(f) ==
    /\ fds[f] # None
    /\ fds' = [fds EXCEPT ![f] = None]
    /\ records' = [records EXCEPT ![fds[f]] = on_fd_close(@, f, 0)]
    /\ UNCHANGED nextFd

\* A lock call on fd f that is granted.
Lock(f, ns, o, t, s, l) ==
    /\ fds[f] # None
    /\ Grantable(records[fds[f]], ns, o, t, s, l)
    /\ records' = [records EXCEPT ![fds[f]] = Granted(@, ns, o, t, s, l)]
    /\ Len(records'[fds[f]]) <= MaxRecords
    /\ UNCHANGED <<fds, nextFd>>

\* A lock call with Unlock.
Unlock(f, ns, o, s, l) ==
    /\ fds[f] # None
    /\ records' = [records EXCEPT ![fds[f]] = Released(@, ns, o, s, l)]
    /\ Len(records'[fds[f]]) <= MaxRecords
    /\ UNCHANGED <<fds, nextFd>>

\* Who asks, by kind of lock: the calling process, or the fd.
OwnersOf(ns, f) == IF ns = "Posix" THEN Pids ELSE {f}

\* What is asked for: flock has no range.
StartsOf(ns) == IF ns = "Flock" THEN {0} ELSE 0..MaxStart
LengthsOf(ns) == IF ns = "Flock" THEN {0} ELSE 0..MaxLength

Next ==
    \/ \E i \in Inodes : Open(i)
    \/ \E f \in Fds : CloseFd(f)
    \/ \E f \in Fds, ns \in Namespaces :
         \E o \in OwnersOf(ns, f), s \in StartsOf(ns), l \in LengthsOf(ns) :
            \/ \E t \in Types : Lock(f, ns, o, t, s, l)
            \/ Unlock(f, ns, o, s, l)

Spec == Init /\ [][Next]_vars

-----------------------------------------------------------------------------
(* Properties.                                                             *)

\* Enough bytes to tell all ranges apart; the last stands for the rest.
Bytes == 0..(MaxStart + MaxLength)

\* Byte b is locked by record r.
Covers(r, b) == b >= r.start /\ (r.length = 0 \/ b < r.start + r.length)

\* Whatever was granted, split and closed before, no byte is locked by two
\* owners of one kind unless both locks are shared.
MutualExclusion ==
    \A i \in Inodes : \A j, k \in DOMAIN records[i] :
        LET r == records[i][j]
            q == records[i][k]
        IN  r.namespace = q.namespace /\ r.owner # q.owner
            /\ (\E b \in Bytes : Covers(r, b) /\ Covers(q, b))
            => r.type = "shared" /\ q.type = "shared"

\* An OFD or flock lock belongs to an fd that is open on the file: closing an
\* fd leaves none of its locks, and no other fd inherits them.
FdLocksDieWithFd ==
    \A i \in Inodes : \A k \in DOMAIN records[i] :
        records[i][k].namespace # "Posix" =>
            records[i][k].owner \in Fds /\ fds[records[i][k].owner] = i

\* posix_getlk and ofd_getlk report a lock exactly when another owner holds a
\* byte of the range, whatever fragments earlier unlocks left.
GetlkSeesHolders ==
    \A i \in Inodes, ns \in Namespaces, o \in Owners,
       s \in 0..MaxStart, l \in 0..MaxLength :
        getlk(records[i], ns, o, s, l) # {}
            <=> \E b \in Bytes, k \in DOMAIN records[i] :
                    /\ records[i][k].namespace = ns /\ records[i][k].owner # o
                    /\ Covers(records[i][k], b)
                    /\ b >= s /\ (l = 0 \/ b < s + l)

\* How strongly owner o holds byte b of file i.
Held(i, ns, o, b) ==
    LET types == {records[i][k].type : k \in {j \in DOMAIN records[i] :
                    /\ records[i][j].namespace = ns /\ records[i][j].owner = o
                    /\ Covers(records[i][j], b)}}
    IN  IF "exclusive" \in types THEN "exclusive"
        ELSE IF "shared" \in types THEN "shared" ELSE "none"

Abstract == INSTANCE ByteLocks WITH
    held <- [i \in Inodes |-> [ns \in Namespaces |-> [o \in Owners |->
                [b \in Bytes |-> Held(i, ns, o, b)]]]]

\* The records implement byte-by-byte locking: a granted lock holds its range,
\* an unlock frees its range and nothing else, a close frees whole owners, and
\* no call touches the bytes of another owner, kind or file.
ImplementsByteLocks == Abstract!Spec

\* plan.md, edge case 17: "POSIX releases all that process's locks on any close
\* for that file": with no fd left on a file there is no POSIX lock left.
PosixLocksReleasedOnClose ==
    \A i \in Inodes : \A k \in DOMAIN records[i] :
        records[i][k].namespace = "Posix" => \E f \in Fds : fds[f] = i
=============================================================================
