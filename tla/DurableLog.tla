---------------------------- MODULE DurableLog ----------------------------
(***************************************************************************)
(* What the database promises about committed transactions: they form a    *)
(* log with a durable prefix.  The prefix only grows, and a crash cuts the *)
(* log somewhere behind it, between two transactions and never inside one. *)
(***************************************************************************)
EXTENDS Naturals

VARIABLES
    log,        \* how many transactions are committed
    durable,    \* how many of them no crash can take away
    intact      \* the database holds whole transactions only

vars == <<log, durable, intact>>

Init == log = 0 /\ durable = 0 /\ intact = TRUE

\* A transaction commits; it and others may become durable at once.
Commit ==
    /\ log' = log + 1
    /\ durable' \in durable..log'
    /\ UNCHANGED intact

Persist ==
    /\ durable' \in durable..log
    /\ UNCHANGED <<log, intact>>

Crash ==
    /\ log' \in durable..log
    /\ durable' = log'
    /\ UNCHANGED intact

Next == Commit \/ Persist \/ Crash

Spec == Init /\ [][Next]_vars
=============================================================================
