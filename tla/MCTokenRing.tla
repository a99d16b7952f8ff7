---------------------------- MODULE MCTokenRing ----------------------------
EXTENDS TokenRing

(* Machine 1 has more packets than fit in its send window, together the    *)
(* machines have more than fit in a window.                                *)
packetsOfEach == [p \in Machines |-> IF p = 1 THEN 3 ELSE 1]
=============================================================================
