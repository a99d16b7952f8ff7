---------------------------- MODULE MulticastJob ----------------------------
(***************************************************************************)
(* What a multicast job promises its processes, whatever the transport:    *)
(* every process sends its messages to all, receives the messages of every *)
(* process in order and without gaps, and leaves only when it has all the  *)
(* messages of everyone.                                                   *)
(***************************************************************************)
EXTENDS Integers

CONSTANTS
    Procs,        \* the processes
    NumMessages   \* NumMessages[p]: how many messages p sends

VARIABLES
    sent,   \* sent[p]: how many messages p has sent
    got,    \* got[q][p]: how many messages of p process q has received
    left    \* the processes that have left

vars == <<sent, got, left>>

Init ==
    /\ sent = [p \in Procs |-> 0]
    /\ got = [q \in Procs |-> [p \in Procs |-> 0]]
    /\ left = {}

(* The next message of p arrives at q.                                     *)
Get(q, p) ==
    /\ got[q][p] < sent[p]
    /\ got' = [got EXCEPT ![q][p] = got[q][p] + 1]

(* q takes at most one message in and sends any number of its own.         *)
Turn(q) ==
    /\ q \notin left
    /\ (\E p \in Procs : Get(q, p)) \/ UNCHANGED got
    /\ \E n \in sent[q] .. NumMessages[q] : sent' = [sent EXCEPT ![q] = n]
    /\ UNCHANGED left

Leave(q) ==
    /\ q \notin left
    /\ got[q] = NumMessages
    /\ left' = left \cup {q}
    /\ UNCHANGED <<sent, got>>

Next == \E q \in Procs : Turn(q) \/ Leave(q)

Spec == Init /\ [][Next]_vars
=============================================================================
