------------------------------ MODULE MCAttrs ------------------------------
(* Model-checking instance of Attrs.                                       *)
EXTENDS Attrs

rw == {"r", "w"}
Mode(o, g, t) == [owner |-> o, group |-> g, other |-> t]

root == [uid |-> 0, gid |-> 0]
alice == [uid |-> 1, gid |-> 1]
bob == [uid |-> 2, gid |-> 2]

\* Root and two users; a file of one may come to be in the group of the other.
MCUsers == {root, alice, bob}
MCSessions == {alice}
MCOwners == {bob}

\* 0660, and 0046, where others may do more than the owner.
MCModes == {Mode(rw, rw, {}), Mode({}, {"r"}, rw)}

\* Before the epoch, where the initial time is the epoch.
MCTimes == {-2}
=============================================================================
