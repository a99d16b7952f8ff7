----------------------------- MODULE TotalOrder -----------------------------
(***************************************************************************)
(* What a totally ordered multicast promises: one order of all messages,   *)
(* and every process writes a prefix of it.                                *)
(***************************************************************************)
EXTENDS Integers, SequencesExt

CONSTANTS Machines, Messages

VARIABLES
    order,   \* the messages in their one order
    file     \* file[p]: what p has written

vars == <<order, file>>

Init ==
    /\ order = <<>>
    /\ file = [p \in Machines |-> <<>>]

(* A holder of the right to send appends messages; a machine writes more.  *)
Step(p) ==
    /\ order' \in Seq(Messages) /\ IsPrefix(order, order')
    /\ \E n \in Len(file[p]) .. Len(order) :
         file' = [file EXCEPT ![p] = SubSeq(order, 1, n)]

Next == \E p \in Machines : Step(p)

Spec == Init /\ [][Next]_vars
=============================================================================
