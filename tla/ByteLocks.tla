----------------------------- MODULE ByteLocks -----------------------------
(***************************************************************************)
(* What advisory locking promises, without records and ranges: for each    *)
(* file, kind of lock and owner, how strongly each byte is held.  Granting *)
(* a range, giving up a range and closing are the only things that happen. *)
(***************************************************************************)
EXTENDS Integers

CONSTANTS Inodes, Namespaces, Owners, Bytes

VARIABLE held   \* held[i][ns][o][b] \in {"none", "shared", "exclusive"}

vars == <<held>>

Strengths == {"none", "shared", "exclusive"}

\* The stronger of two holds.
Stronger(a, b) == IF "exclusive" \in {a, b} THEN "exclusive"
                  ELSE IF "shared" \in {a, b} THEN "shared" ELSE "none"

Unheld == [b \in Bytes |-> "none"]

Init == held = [i \in Inodes |-> [ns \in Namespaces |-> [o \in Owners |-> Unheld]]]

\* Two holds of different owners that may not coexist.
Conflicting(a, b) == "none" \notin {a, b} /\ "exclusive" \in {a, b}

\* Nothing of i, ns but the holds of o changes.
OnlyOwner(i, ns, o) ==
    \A j \in Inodes, ms \in Namespaces, p \in Owners :
        <<j, ms, p>> # <<i, ns, o>> => held'[j][ms][p] = held[j][ms][p]

\* o is granted t on the bytes of range, which nobody else holds in conflict.
\* A byte that o held exclusively may stay so under a shared grant.
Grant(i, ns, o, t, range) ==
    /\ \A p \in Owners \ {o}, b \in range : ~Conflicting(held[i][ns][p][b], t)
    /\ \A b \in Bytes :
          IF b \in range
          THEN held'[i][ns][o][b] \in {t, Stronger(held[i][ns][o][b], t)}
          ELSE held'[i][ns][o][b] = held[i][ns][o][b]
    /\ OnlyOwner(i, ns, o)

\* o gives up the bytes of range, and no others.
Release(i, ns, o, range) ==
    /\ \A b \in Bytes :
          held'[i][ns][o][b] = IF b \in range THEN "none" ELSE held[i][ns][o][b]
    /\ OnlyOwner(i, ns, o)

\* A close on i takes everything from some owners, and nothing from the rest.
Close(i) ==
    \A j \in Inodes, ns \in Namespaces, o \in Owners :
        held'[j][ns][o] \in {held[j][ns][o]} \cup (IF j = i THEN {Unheld} ELSE {})

\* The byte ranges a call can name: from a byte to another, or onwards.
Ranges == {{b \in Bytes : lo <= b} : lo \in Bytes}
          \cup {{b \in Bytes : lo <= b /\ b < hi} : lo, hi \in Bytes}

Next ==
    \E i \in Inodes :
        \/ \E ns \in Namespaces, o \in Owners, range \in Ranges :
              \/ \E t \in {"shared", "exclusive"} : Grant(i, ns, o, t, range)
              \/ Release(i, ns, o, range)
        \/ Close(i)

Spec == Init /\ [][Next]_vars
=============================================================================
