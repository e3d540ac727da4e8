------------------------------ MODULE FlatFile ------------------------------
(***************************************************************************)
(* What a file's content is to its users: one sequence of bytes.           *)
(***************************************************************************)
EXTENDS Integers, Sequences

CONSTANTS Values, MaxSize, MaxWrite

VARIABLE content

vars == <<content>>

Init == content = <<>>

\* Byte k of the content, and zeros after its end.
At(k) == IF k <= Len(content) THEN content[k] ELSE 0

\* A write puts its data at an offset; a gap before it reads as zeros.
Write(offset, data) ==
    LET end == offset + Len(data)
        size == IF Len(content) >= end THEN Len(content) ELSE end
    IN  content' = [k \in 1..size |->
                      IF offset < k /\ k <= end THEN data[k - offset] ELSE At(k)]

\* A change of size drops bytes or adds zeros.
Resize(size) == content' = [k \in 1..size |-> At(k)]

Next ==
    \/ \E n \in 1..MaxWrite : \E offset \in 0..(MaxSize - n), data \in [1..n -> Values] :
          Write(offset, data)
    \/ \E size \in 0..MaxSize : Resize(size)

Spec == Init /\ [][Next]_vars
=============================================================================
