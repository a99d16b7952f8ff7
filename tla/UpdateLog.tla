------------------------------ MODULE UpdateLog ------------------------------
(***************************************************************************)
(* What the replication of the mail servers promises, whatever the network *)
(* does: every server has a log of updates that only grows.  A server adds *)
(* an update of its own, stamped later than everything in its log, or      *)
(* learns one that is already in the log of some server.  Nothing else     *)
(* ever enters a log: no update is invented, altered or stamped twice.     *)
(***************************************************************************)
CONSTANT Servers

VARIABLE log

LOCAL INSTANCE Integers

(* The servers may start with a history: every update is in the log of the *)
(* server that made it, the only one there with its stamp.                 *)
Init ==
    /\ DOMAIN log = Servers
    /\ \A s \in Servers : \A u \in log[s] :
         /\ u.procID \in Servers
         /\ u \in log[u.procID]
         /\ \A v \in log[u.procID] :
              v.procID = u.procID /\ v.index = u.index => v = u

(* u is a new update of server s.                                          *)
Own(s, u) == u.procID = s /\ \A v \in log[s] : v.index < u.index

Learnt(u) == \E t \in Servers : u \in log[t]

(* The added update is found in log'[s], which keeps the set of all        *)
(* possible updates out of the definition.                                 *)
Add(s) ==
    \E u \in log'[s] :
        /\ log' = [log EXCEPT ![s] = @ \cup {u}]
        /\ Own(s, u) \/ Learnt(u)

Next == \E s \in Servers : Add(s)

Spec == Init /\ [][Next]_log

=============================================================================
