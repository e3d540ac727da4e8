------------------------------ MODULE Adapter ------------------------------
(***************************************************************************)
(* The FUSE adapter (rust/src/fuse/adapter.rs).  The kernel names a node   *)
(* by its inode number, and an entry by the number of its directory and a  *)
(* name.  A callback turns the number into a path, the path goes to the    *)
(* library, and the library resolves it again; by then it has to lead to   *)
(* the node the kernel meant.  Numbers the kernel holds may have lost      *)
(* their node: any number that was ever given out can come.  mount2 runs   *)
(* the callbacks one after another.                                        *)
(*                                                                         *)
(* readdir has no state of its own: each call lists the directory anew and *)
(* leaves out as many entries as the reader has had.  The variables follow *)
(* one reader of one directory while others change it.                     *)
(***************************************************************************)
EXTENDS Paths

CONSTANT Order      \* the names as ORDER BY name puts them

ASSUME OrderAssumption ==
    /\ Order \in [1..Cardinality(Names) -> Names]
    /\ \A n \in Names : \E k \in DOMAIN Order : Order[k] = n

VARIABLES
    reading,    \* the directory that is read, None without a reader
    offset,     \* the offset of the reader's next call
    got,        \* how often each name has been returned
    stayed,     \* the names that were there all along
    came,       \* names that were added since the reader began
    went        \* names that were removed since

reader == <<reading, offset, got, stayed, came, went>>
avars == <<vars, reader>>

-----------------------------------------------------------------------------
(* Inodes to paths to inodes.                                              *)

\* The numbers the kernel can hold.
Known == 1..(nextInode - 1)

child_path(parent, n) == Append(parent, n)

\* resolve_parent_and_name: the entry the library acts on at path q.
EntryAt(q) == <<resolve_to_inode(Front(q)), Last(q)>>

\* The entries that a callback for name n in inode p may come to act on: one
\* for each path of p, none where p has lost its name.
Targets(p, n) == {EntryAt(child_path(q, n)) : q \in path_of_inode(p)}

\* The same for a node named by its own number: the entries of its paths.
Homes(i) == {EntryAt(q) : q \in path_of_inode(i) \ {<<>>}}

-----------------------------------------------------------------------------
(* Callbacks.                                                              *)

\* lookup: the inode of the reply, None for ENOENT.
lookup(p, n) == {resolve_to_inode(child_path(q, n)) : q \in path_of_inode(p)}

\* getattr: the inode whose attributes are returned.  setattr, readlink, access
\* and the xattr callbacks reach their node in the same way.
getattr(i) == {resolve_to_inode(q) : q \in path_of_inode(i)}

mkdir(p, n) == \E e \in Targets(p, n) : Mkdir(e[1], e[2])
rmdir(p, n) == \E e \in Targets(p, n) : Rmdir(e[1], e[2])
unlink(p, n) == \E e \in Targets(p, n) : Unlink(e[1], e[2])
create(p, n) == \E e \in Targets(p, n) : CreateNew(e[1], e[2]) \/ CreateExisting(e[1], e[2])
symlink(p, n) == \E e \in Targets(p, n) : Symlink(e[1], e[2])
open(i) == \E e \in Homes(i) : Open(e[1], e[2])
link(i, p, n) == \E t \in Homes(i), e \in Targets(p, n) : Link(t[1], t[2], e[1], e[2])

\* The flags of the kernel's rename are not looked at.
rename(p, m, q, n) ==
    \E s \in Targets(p, m), d \in Targets(q, n) :
        RenameMove(s[1], s[2], d[1], d[2]) \/ RenameReplace(s[1], s[2], d[1], d[2])

release(f) == CloseFd(f)

-----------------------------------------------------------------------------
(* readdir.                                                                *)

\* entries::list: the names in d, sorted.
list(d) ==
    LET upto[k \in 0..Cardinality(Names)] ==
            IF k = 0 THEN <<>>
            ELSE IF entries[d][Order[k]] = None THEN upto[k - 1]
            ELSE Append(upto[k - 1], Order[k])
    IN  upto[Cardinality(Names)]

\* "..": the directory at the path one component up.  The root is its own.
dotdot(d) == IF d = ROOT_INODE THEN {d} ELSE {e[1] : e \in Homes(d)}

\* Mutant of listing: the two entries in front come with the first call only.
listing_bare(d) == IF offset = 0 THEN <<".", "..">> \o list(d) ELSE list(d)

\* What readdir lists.
listing(d) == <<".", "..">> \o list(d)

\* opendir.
Opendir(d) ==
    /\ reading = None
    /\ d \in Known /\ kind[d] = "dir" /\ path_of_inode(d) # {}
    /\ reading' = d
    /\ offset' = 0
    /\ got' = [n \in Names |-> 0]
    /\ stayed' = {n \in Names : entries[d][n] # None}
    /\ came' = {} /\ went' = {}
    /\ UNCHANGED vars

\* One call of readdir, the buffer of which takes k entries.
Readdir(k) ==
    /\ pending = None
    /\ reading # None
    /\ path_of_inode(reading) # {}
    /\ offset + k <= Len(listing(reading))
    /\ got' = [n \in Names |->
          got[n] + Cardinality({j \in (offset + 1)..(offset + k) : listing(reading)[j] = n})]
    /\ offset' = offset + k
    /\ UNCHANGED <<vars, reading, stayed, came, went>>

\* releasedir.
Releasedir ==
    /\ reading # None
    /\ reading' = None
    /\ offset' = 0
    /\ got' = [n \in Names |-> 0]
    /\ stayed' = {} /\ came' = {} /\ went' = {}
    /\ UNCHANGED vars

\* What a callback does to the names the reader is concerned with.
Followed ==
    /\ UNCHANGED <<reading, offset, got>>
    /\ IF reading = None
       THEN UNCHANGED <<stayed, came, went>>
       ELSE LET old == {n \in Names : entries[reading][n] # None}
                new == {n \in Names : entries'[reading][n] # None}
            IN  /\ stayed' = stayed \cap new
                /\ came' = came \cup (new \ old)
                /\ went' = went \cup (old \ new)

-----------------------------------------------------------------------------
AInit ==
    /\ Init
    /\ reading = None /\ offset = 0 /\ got = [n \in Names |-> 0]
    /\ stayed = {} /\ came = {} /\ went = {}

\* The file system is mounted again; no reader outlives a mount.
Remount ==
    /\ Reopen
    /\ reading' = None /\ offset' = 0 /\ got' = [n \in Names |-> 0]
    /\ stayed' = {} /\ came' = {} /\ went' = {}

Callback ==
    \/ Reclaim \/ ReclaimFails
    \/ \E f \in Fds : release(f)
    \/ \E i \in Known : open(i)
    \/ \E p \in Known, n \in Names :
       /\ RequireWritable
       /\ \/ mkdir(p, n) \/ rmdir(p, n) \/ create(p, n) \/ symlink(p, n) \/ unlink(p, n)
          \/ \E i \in Known : link(i, p, n)
    \/ \E p, q \in Known, m, n \in Names : RequireWritable /\ rename(p, m, q, n)

ANext ==
    \/ Callback /\ Followed
    \/ Remount
    \/ \E d \in Inodes : Opendir(d)
    \/ \E k \in 1..Cardinality(Names) : Readdir(k)
    \/ Releasedir

ASpec == AInit /\ [][ANext]_avars

-----------------------------------------------------------------------------
(* Properties.                                                             *)

\* Whatever number and name the kernel gives, the entry the library acts on
\* is the one of that directory, whichever hard link the way over paths took;
\* a number for a node leads to that node.  Only a node without a name cannot
\* be reached, and then nothing is.
ActsWhereAsked ==
    \A p \in Known :
        /\ \A n \in Names : /\ Targets(p, n) \subseteq {<<p, n>>}
                             /\ lookup(p, n) \subseteq {entries[p][n]}
        /\ getattr(p) \subseteq {p}
        /\ \A e \in Homes(p) : entries[e[1]][e[2]] = p
        /\ Links(p) # {} => Homes(p) # {} /\ \A n \in Names : Targets(p, n) # {}

Precedes(m, n) ==
    \E j, k \in DOMAIN Order : j < k /\ Order[j] = m /\ Order[k] = n

\* A reader misses an entry that stays in place only if a name in front of it
\* went, and gets it twice only if a name in front of it came, in between the
\* calls; without such a change every entry is returned exactly once, however
\* the replies are cut.  ".." is the parent, so two entries are always in front.
ReaddirMissesOnlyShifted ==
    \A n \in stayed :
        /\ got[n] > 1 => \E m \in came : Precedes(m, n)
        /\ got[n] = 0 /\ offset >= Len(listing(reading)) => \E m \in went : Precedes(m, n)
        /\ Cardinality(dotdot(reading)) = 1
=============================================================================
