------------------------------ MODULE MCPyTree ------------------------------
(* Model-checking instance of PyTree: two sets of bounds in one run.       *)
EXTENDS PyTree, TLC

VARIABLE focus  \* the bounds of this behaviour

\* No operation tells two names apart.
NameSymmetry == Permutations(Names)

\* The kinds of nodes made when the focus is on counts: three directories, so
\* that the count of one can fall to 0, and a file to count.
Made == <<"dir", "dir", "dir", "dir", "file">>

\* With the focus on paths there are four inodes, of any kind; on counts five,
\* of given kinds, the file with two names at most, and no path is cached.
WithinBounds ==
    CASE focus = "paths" ->
            nextInode <= 5
      [] focus = "counts" ->
            \A i \in Inodes :
                /\ kind[i] \in {Made[i], "none"}
                /\ kind[i] = "file" => nlink[i] <= 2
                /\ cache[i] = NoPath

MCInit == Init /\ focus \in {"paths", "counts"}

MCNext == Next /\ UNCHANGED focus /\ WithinBounds'

MCSpec == MCInit /\ [][MCNext]_<<vars, focus>>
=============================================================================
