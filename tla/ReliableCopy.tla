---------------------------- MODULE ReliableCopy ----------------------------
(***************************************************************************)
(* What the file transfer promises: hosts copy a file each to one          *)
(* receiver, which serves one host at a time; a copy grows by the next     *)
(* packets of the file, may be given up and begun again, and a host is     *)
(* done only when its copy is complete, after which the copy stays.        *)
(***************************************************************************)
EXTENDS Integers, Sequences

CONSTANTS
    Hosts,
    FileLen,   \* FileLen[h]: packets of the file of h
    NoHost

VARIABLES
    copy,      \* copy[h]: the numbers of the packets written
    served,    \* the host that is served, or NoHost
    done       \* the hosts that have been told their copy is complete

vars == <<copy, served, done>>

FirstOf(n) == [k \in 1 .. n |-> k - 1]

Init ==
    /\ copy = [h \in Hosts |-> <<>>]
    /\ served = NoHost
    /\ done = {}

Begin(h) ==
    /\ served = NoHost /\ h \notin done
    /\ served' = h
    /\ copy' = [copy EXCEPT ![h] = <<>>]
    /\ UNCHANGED done

(* The copy grows; the receiver goes on serving h or turns to the next.    *)
Write(h) ==
    /\ served = h /\ h \notin done
    /\ served' \in {h, NoHost}
    /\ \E n \in Len(copy[h]) .. FileLen[h] : copy' = [copy EXCEPT ![h] = FirstOf(n)]
    /\ UNCHANGED done

Finish(h) ==
    /\ served # h
    /\ copy[h] = FirstOf(FileLen[h])
    /\ done' = done \cup {h}
    /\ UNCHANGED <<copy, served>>

Next == \E h \in Hosts : Begin(h) \/ Write(h) \/ Finish(h)

Spec == Init /\ [][Next]_vars
=============================================================================
