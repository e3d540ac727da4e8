------------------------------- MODULE Paths -------------------------------
(***************************************************************************)
(* Paths over the directory tree.  A path string is the sequence of its    *)
(* components: "/" is <<>>, "/a/b" is <<a, b>>, and the slash that         *)
(* parse_path tolerates at the end is an empty last component, so "/a/" is *)
(* <<a, "">>.  The library goes down from a path to an inode; watchers and *)
(* the FUSE adapter go up from an inode to a path and hand the path back   *)
(* to the library.                                                         *)
(***************************************************************************)
EXTENDS Namespace, SequencesExt

\* A name is neither empty nor a dot or two: parse_path refuses a path with
\* such a component.
ASSUME NameAssumption == {"", ".", ".."} \cap Names = {}

\* The paths that name something, or a free name in a directory.
Paths == UNION {[1..k -> Names] : k \in 0..MaxInode}

\* parse_path: the components; the slash at the end goes.
parse_path(q) == IF q # <<>> /\ Last(q) = "" THEN Front(q) ELSE q

\* resolve_to_inode: the inode at q, None where an entry is missing.
resolve_to_inode(q) ==
    LET cs == parse_path(q)
        at[k \in 0..Len(cs)] ==
            IF k = 0 THEN ROOT_INODE
            ELSE LET i == at[k - 1] IN IF i = None THEN None ELSE entries[i][cs[k]]
    IN  at[Len(cs)]

\* The path of directory d from the root, and the ways to spell a name in it.
PathOfDir(d) == CHOOSE q \in Paths : resolve_to_inode(q) = d
Spellings(d, n) == {Append(PathOfDir(d), n), Append(PathOfDir(d), n) \o <<"">>}

\* Mutant of Climb: the parts are not turned round.
ClimbUnreversed(e) ==
    LET up[k \in 0..MaxInode] ==
            IF k = 0 THEN [at |-> e[1], parts |-> <<e[2]>>]
            ELSE LET s == up[k - 1]
                     f == CHOOSE f \in Links(s.at) : TRUE
                 IN  IF s.at = ROOT_INODE THEN s
                     ELSE [at |-> f[1], parts |-> Append(s.parts, f[2])]
    IN  up[MaxInode].parts

\* The loop of path_for_inode from entry e to the root.  A directory that is
\* met has one entry.
Climb(e) ==
    LET up[k \in 0..MaxInode] ==
            IF k = 0 THEN [at |-> e[1], parts |-> <<e[2]>>]
            ELSE LET s == up[k - 1]
                     f == CHOOSE f \in Links(s.at) : TRUE
                 IN  IF s.at = ROOT_INODE THEN s
                     ELSE [at |-> f[1], parts |-> <<f[2]>> \o s.parts]
    IN  up[MaxInode].parts

\* path_for_inode: LIMIT 1 takes any one entry of i; none gives None.
path_for_inode(i) == {Climb(e) : e \in Links(i)}

\* path_of_inode.
path_of_inode(i) == IF i = ROOT_INODE THEN {<<>>} ELSE path_for_inode(i)
=============================================================================
