------------------------------ MODULE BytePipe ------------------------------
(***************************************************************************)
(* What a tunnel stream promises in one direction, with no frames, queues  *)
(* or acknowledgements: bytes are taken at one end and given, in order, at *)
(* the other; the pipe never holds more than Capacity of them; each end    *)
(* may go away for good, and nothing is taken or given at an end that has. *)
(* Bytes still inside when an end goes away are lost.                      *)
(***************************************************************************)
EXTENDS Integers, Sequences

CONSTANT Capacity

VARIABLES
    open,     \* which ends are still there
    taken,    \* how many bytes went in; byte i is the i-th of them
    given     \* the bytes that came out

vars == <<open, taken, given>>

Init ==
    /\ open = [e \in {"src", "dst"} |-> TRUE]
    /\ taken = 0
    /\ given = <<>>

Take ==
    /\ open["src"]
    /\ taken' \in 1..(Len(given) + Capacity)
    /\ taken' > taken
    /\ UNCHANGED <<open, given>>

\* The receiving end may find its socket dead right after handing bytes over.
Give ==
    /\ open["dst"]
    /\ \E n \in 1..(taken - Len(given)) :
          given' = given \o [i \in 1..n |-> Len(given) + i]
    /\ open' \in {open, [open EXCEPT !["dst"] = FALSE]}
    /\ UNCHANGED taken

Close ==
    /\ \E e \in {"src", "dst"} : open[e] /\ open' = [open EXCEPT ![e] = FALSE]
    /\ UNCHANGED <<taken, given>>

Next == Take \/ Give \/ Close

Spec == Init /\ [][Next]_vars

=============================================================================
