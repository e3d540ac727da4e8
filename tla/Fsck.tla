-------------------------------- MODULE Fsck --------------------------------
(***************************************************************************)
(* The consistency check of rust/src/fsck.rs over the tables of Namespace. *)
(* `run_fsck` reads the tables and returns a report; it writes nothing.    *)
(* Rows of `blobs`, `xattrs` and `symlinks` live and die with their node   *)
(* (ON DELETE CASCADE), so the checks for orphans among them are left out. *)
(***************************************************************************)
EXTENDS Namespace

CONSTANT MaxDepth   \* how many steps up check_cycles goes, 4096 in the code

ASSUME DepthAssumption == MaxDepth \in Nat \ {0}

\* An issue of the report: its kind and the inode it names.
Issue(k, i) == [kind |-> k, inode |-> i]

\* check_dangling_entries: a row of `nodes` that an entry needs, as parent or
\* as inode, and that is not there.
DanglingEntries ==
    {Issue("DanglingParent", i) :
        i \in {j \in Inodes : kind[j] = "none" /\ (~IsEmpty(j) \/ Links(j) # {})}}

\* The inodes met on the way up from j, over all its links, in so many steps.
MetGoingUp(j) ==
    LET met[k \in 0..MaxDepth] ==
            IF k = 0 THEN {} ELSE UNION {ParentsOf(c) : c \in met[k - 1] \cup {j}}
    IN  met[MaxDepth]

\* check_cycles: an inode met on the way up from itself.
Cycles == {Issue("Cycle", i) : i \in {j \in Inodes : j \in MetGoingUp(j)}}

\* check_nlink: a directory with nlink other than 2 + subdirectories.  Files
\* and symlinks are not looked at.
NlinkMismatches ==
    {Issue("NlinkMismatch", d) : d \in {e \in Inodes : kind[e] = "dir" /\ Excess(e) # 0}}

run_fsck == DanglingEntries \cup Cycles \cup NlinkMismatches

-----------------------------------------------------------------------------
(* Properties.                                                             *)

\* Whatever the operations do and wherever a session ends, fsck never finds
\* a dangling entry or a cycle; all it can find is a directory's link count.
FsckFindsOnlyNlink == \A x \in run_fsck : x.kind = "NlinkMismatch"
=============================================================================
