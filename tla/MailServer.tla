----------------------------- MODULE MailServer -----------------------------
(***************************************************************************)
(* The replicated mail servers of Distributed_Mail_System/server.c.        *)
(*                                                                         *)
(* Every server keeps the whole mail state.  A client command becomes an   *)
(* update stamped <procID, index> that the server applies and multicasts   *)
(* through Spread to the servers it is connected to.  When Spread reports  *)
(* a membership of more than one server, the members exchange their update *)
(* matrices and the member that knows most of a server's updates resends   *)
(* those that another member lacks, under flow control.                    *)
(*                                                                         *)
(* local_state[s] is the struct local_state of server s, with its fields.  *)
(* Spread is external: net[s] is what it will deliver to server s, in      *)
(* order; a multicast reaches every server of the sender's component.      *)
(***************************************************************************)
EXTENDS MailState

CONSTANTS
    HeaderJunk,       \* what the unset proc_num of a new update may hold
    Commands,         \* the update types that clients ask for
    MaxUpdates,       \* bound: commands that create an update
    MaxChanges        \* bound: splits and merges of the network

ASSUME HeaderJunkAssumption == HeaderJunk \subseteq Int
ASSUME CommandsAssumption ==
    Commands \subseteq {"NEWUSERMSG", "NEWMAILMSG", "DELETEMAILMSG", "READMAILMSG"}
ASSUME BoundsAssumption == MaxUpdates \in Nat /\ MaxChanges \in Nat

VARIABLES
    local_state,  \* the state of each server
    net,          \* Spread: messages on their way to each server, in order
    conn,         \* Spread: the servers each server is connected to
    changes,      \* number of splits and merges so far
    received      \* history: every update a server ever stored

vars == <<local_state, net, conn, changes, received>>

(* resent is history: whether sendMissingUpdates sent the update.          *)
UpdateMessages ==
    [type : {"UPDATE"}, from : Servers, proc_num : Int, update : Updates,
     resent : BOOLEAN]

MatrixMessages == [type : {"MATRIX"}, from : Servers, matrix : Matrices]

ViewMessages == [type : {"VIEW"}, members : SUBSET Servers]

Messages == UpdateMessages \cup MatrixMessages \cup ViewMessages

-----------------------------------------------------------------------------
(* Spread.                                                                 *)

(* MUTANT: a message may overtake those sent before it.                    *)
multicastUnordered(n, s, msgs) ==
    [t \in Servers |-> IF t \in conn[s] THEN msgs \o n[t] ELSE n[t]]

multicast(n, s, msgs) ==
    [t \in Servers |-> IF t \in conn[s] THEN n[t] \o msgs ELSE n[t]]

consume(s) == [net EXCEPT ![s] = Tail(@)]

(* The one way to list a finite set in the order before: a set with one    *)
(* sequence in it.                                                         *)
listings(S, before(_, _)) ==
    {f \in [1 .. Cardinality(S) -> S] :
        \A i, j \in DOMAIN f : i < j => before(f[i], f[j])}

(* MUTANT: a forwarded update is stamped with the server that forwards it. *)
resendAsOwn(s, u) ==
    [type |-> "UPDATE", from |-> s, proc_num |-> s,
     update |-> [u EXCEPT !.procID = s], resent |-> TRUE]

resend(s, u) == [type |-> "UPDATE", from |-> s, proc_num |-> s, update |-> u,
                 resent |-> TRUE]

(* The messages of a batch of resent updates.                              *)
batches(s, us) ==
    {[k \in DOMAIN q |-> resend(s, q[k])] : q \in listings(us, Before)}

IsView(m) == m.type = "VIEW"

(* The messages that wait for t since the last view sent to t.             *)
sinceView(t) ==
    Cardinality({i \in DOMAIN net[t] :
                    \A j \in i .. Len(net[t]) : ~ IsView(net[t][j])})

(* When a group leaves its component, the last k messages of the component *)
(* that no server of the group has read reach the group only if one of its *)
(* servers sent them.  Those messages are the same for the whole group: t  *)
(* is any server of it.                                                    *)
mayLose(group, k) == \A t \in group : k <= sinceView(t)

survivors(group, t, k) ==
    LET kept == {i \in Len(net[t]) - k + 1 .. Len(net[t]) :
                    net[t][i].from \in group}
    IN  {[i \in DOMAIN f |-> net[t][f[i]]] :
            f \in listings(kept, LAMBDA i, j : i < j)}

view(group) == <<[type |-> "VIEW", members |-> group]>>

cut(t, k) == SubSeq(net[t], 1, Len(net[t]) - k)

Split(A, B) ==
    /\ changes < MaxChanges
    /\ A \cap B = {}
    /\ \E s \in A, t \in B :
        /\ conn[s] = A \cup B
        /\ \E j \in 0 .. sinceView(s), k \in 0 .. sinceView(t) :
            /\ mayLose(A, j)
            /\ mayLose(B, k)
            /\ \E a \in survivors(A, s, j), b \in survivors(B, t, k) :
                 net' = [x \in Servers |->
                           IF x \in A THEN cut(x, j) \o a \o view(A)
                           ELSE IF x \in B THEN cut(x, k) \o b \o view(B)
                           ELSE net[x]]
    /\ conn' = [x \in Servers |-> IF x \in A THEN A
                                  ELSE IF x \in B THEN B
                                  ELSE conn[x]]
    /\ changes' = changes + 1
    /\ UNCHANGED <<local_state, received>>

Merge(s, t) ==
    /\ changes < MaxChanges
    /\ conn[s] # conn[t]
    /\ LET group == conn[s] \cup conn[t]
       IN  /\ net' = [x \in Servers |->
                        IF x \in group THEN net[x] \o view(group) ELSE net[x]]
           /\ conn' = [x \in Servers |-> IF x \in group THEN group ELSE conn[x]]
    /\ changes' = changes + 1
    /\ UNCHANGED <<local_state, received>>

-----------------------------------------------------------------------------
(* The handlers of a server.  A quantifier over a set of one value names   *)
(* that value once: TLC would evaluate a LET again at every use.           *)

Init ==
    /\ local_state = [s \in Servers |-> initialState(s)]
    /\ net = [s \in Servers |-> <<>>]
    /\ conn = [s \in Servers |-> {s}]
    /\ changes = 0
    /\ received = [s \in Servers |-> {}]

(* The history of what server s stored: applyUpdate stores what it does    *)
(* not find in the buffer.                                                 *)
remember(s, st, u) ==
    received' = [received EXCEPT ![s] =
                    IF findUpdate(st, u.procID, u.index) THEN @ ELSE @ \cup {u}]

issued == UNION {received[s] : s \in Servers}

(* The mails of a user that a client can have in its list, which it keeps  *)
(* when it connects to another server than the one that sent it.           *)
listed(user) ==
    UNION {{[procID |-> local_state[t].emails[user][i].procID,
             index |-> local_state[t].emails[user][i].index] :
                i \in DOMAIN local_state[t].emails[user]} : t \in Servers}

(* The command of a client becomes an update: apply it, then send it.      *)
issueUpdate(s, u) ==
    /\ Cardinality(issued) < MaxUpdates
    /\ u.type \in Commands
    /\ local_state' = [local_state EXCEPT ![s] = applyUpdate(@, s, u)]
    /\ remember(s, local_state[s], u)
    /\ \E junk \in HeaderJunk :
         net' = multicast(net, s, <<[type |-> "UPDATE", from |-> s,
                                     proc_num |-> junk, update |-> u,
                                     resent |-> FALSE]>>)
    /\ UNCHANGED <<conn, changes>>

NewUser(s, user) ==
    issueUpdate(s, generateUpdate(local_state[s], s, "NEWUSERMSG", user,
                                  [procID |-> s, index |-> 0]))

NewMail(s, user) ==
    issueUpdate(s, generateUpdate(local_state[s], s, "NEWMAILMSG", user,
                                  [procID |-> s, index |-> 0]))

DeleteMail(s, user, mail) ==
    issueUpdate(s, generateUpdate(local_state[s], s, "DELETEMAILMSG", user, mail))

ReadMail(s, user, mail) ==
    issueUpdate(s, generateUpdate(local_state[s], s, "READMAILMSG", user, mail))

delivers(s, type) == net[s] # <<>> /\ Head(net[s]).type = type

(* An update that comes back to its (re)sender while it is sending makes   *)
(* room for one more; then the update is applied as any other.             *)
ReceiveUpdate(s) ==
    /\ delivers(s, "UPDATE")
    /\ \E m \in {Head(net[s])}, st \in {local_state[s]} :
       \E echo \in {m.proc_num = s /\ st.status = "SENDINGUPDATES"} :
       \E st1 \in {IF echo THEN sendMissingUpdates(st, 1) ELSE st} :
           /\ local_state' = [local_state EXCEPT ![s] = applyUpdate(st1, s, m.update)]
           /\ \E msgs \in batches(s, IF echo THEN toSend(st, 1) ELSE {}) :
                net' = multicast(consume(s), s, msgs)
           /\ remember(s, st, m.update)
    /\ UNCHANGED <<conn, changes>>

IgnoreMatrix(s) ==
    /\ delivers(s, "MATRIX")
    /\ local_state[s].status # "RECONCILE"
    /\ net' = consume(s)
    /\ UNCHANGED <<local_state, conn, changes, received>>

ReceiveMatrix(s) ==
    /\ delivers(s, "MATRIX")
    /\ local_state[s].status = "RECONCILE"
    /\ LET st == countMatrix(local_state[s], s, Head(net[s]))
       IN  /\ st.num_matrix_recvd # Cardinality(st.current_membership)
           /\ local_state' = [local_state EXCEPT ![s] = st]
    /\ net' = consume(s)
    /\ UNCHANGED <<conn, changes, received>>

ReceiveLastMatrix(s) ==
    /\ delivers(s, "MATRIX")
    /\ local_state[s].status = "RECONCILE"
    /\ \E st \in {[countMatrix(local_state[s], s, Head(net[s]))
                     EXCEPT !.status = "SENDINGUPDATES"]} :
       \E planned \in {continueReconcile(st, s)} :
           /\ st.num_matrix_recvd = Cardinality(st.current_membership)
           /\ local_state' = [local_state EXCEPT ![s] = sendMissingUpdates(planned, MaxSend)]
           /\ \E msgs \in batches(s, toSend(planned, MaxSend)) :
                net' = multicast(consume(s), s, msgs)
    /\ UNCHANGED <<conn, changes, received>>

(* MUTANT: the matrices of an earlier reconciliation are counted.          *)
ReceiveViewNoReset(s) ==
    /\ delivers(s, "VIEW")
    /\ LET members == Head(net[s]).members
           st == [local_state[s] EXCEPT !.current_membership = members]
       IN  IF Cardinality(members) = 1
           THEN /\ local_state' = [local_state EXCEPT
                                     ![s] = [st EXCEPT !.status = "NORMAL"]]
                /\ net' = consume(s)
           ELSE /\ local_state' = [local_state EXCEPT
                                     ![s] = [st EXCEPT !.status = "RECONCILE"]]
                /\ net' = multicast(consume(s), s,
                            <<[type |-> "MATRIX", from |-> s,
                               matrix |-> st.latest_update]>>)
    /\ UNCHANGED <<conn, changes, received>>

(* A membership of more than one server starts a reconciliation: the       *)
(* matrix goes out to whomever Spread connects the server to by now.       *)
ReceiveView(s) ==
    /\ delivers(s, "VIEW")
    /\ LET members == Head(net[s]).members
           st == [local_state[s] EXCEPT !.current_membership = members,
                                        !.num_matrix_recvd = 0]
       IN  IF Cardinality(members) = 1
           THEN /\ local_state' = [local_state EXCEPT
                                     ![s] = [st EXCEPT !.status = "NORMAL"]]
                /\ net' = consume(s)
           ELSE /\ local_state' = [local_state EXCEPT
                                     ![s] = [st EXCEPT !.status = "RECONCILE"]]
                /\ net' = multicast(consume(s), s,
                            <<[type |-> "MATRIX", from |-> s,
                               matrix |-> st.latest_update]>>)
    /\ UNCHANGED <<conn, changes, received>>

Receive(s) ==
    \/ ReceiveUpdate(s)
    \/ IgnoreMatrix(s)
    \/ ReceiveMatrix(s)
    \/ ReceiveLastMatrix(s)
    \/ ReceiveView(s)

Command(s) ==
    \E user \in Users :
        \/ NewUser(s, user)
        \/ NewMail(s, user)
        \/ \E mail \in listed(user) :
             \/ DeleteMail(s, user, mail)
             \/ ReadMail(s, user, mail)

Next ==
    \/ \E s \in Servers : Receive(s) \/ Command(s)
    \/ \E A, B \in SUBSET Servers : Split(A, B)
    \/ \E s, t \in Servers : Merge(s, t)

Spec == Init /\ [][Next]_vars

(* The event loop of every server keeps reading what Spread delivers.      *)
FairSpec == Spec /\ \A s \in Servers : WF_vars(Receive(s))

-----------------------------------------------------------------------------
TypeOK ==
    /\ local_state \in [Servers -> LocalStates]
    /\ net \in [Servers -> Seq(Messages)]
    /\ conn \in [Servers -> SUBSET Servers]
    /\ changes \in Nat
    /\ received \in [Servers -> SUBSET Updates]

(* What server s itself reports to have of each server's updates.          *)
ownVector(s) == local_state[s].latest_update[s]

(* No server credits another with an update that the other's own vector    *)
(* does not reach: the matrices that updateMatrix merges, in the state and *)
(* on their way, never run ahead of the servers they speak about.  Purging *)
(* and the choice of what to resend rest on it.                            *)
KnowledgeSound ==
    \A s, q, p \in Servers :
        /\ local_state[s].latest_update[q][p] <= ownVector(q)[p]
        /\ \A k \in DOMAIN net[s] :
             net[s][k].type = "MATRIX" =>
                net[s][k].matrix[q][p] <= ownVector(q)[p]

(* A server's own vector is exactly the highest index it stored of every   *)
(* server, and the update it names is still in the buffer: whatever was    *)
(* purged or received out of order, the newest update of every server can  *)
(* be resent (updateVector, purgeUpdateBuffer).                            *)
VectorIsNewest ==
    \A s, p \in Servers :
        /\ \A u \in received[s] : u.procID = p => u.index <= ownVector(s)[p]
        /\ ownVector(s)[p] >= 0 => findUpdate(local_state[s], p, ownVector(s)[p])

(* An update leaves a buffer only when every server's own vector, also     *)
(* that of a server in another partition, has passed it                    *)
(* (purgeUpdateBuffer against the real vectors, not the reported ones).    *)
PurgeSafe ==
    \A s, q \in Servers :
        \A u \in received[s] \ local_state[s].buffer :
            u.index < ownVector(q)[u.procID]

(* Two updates of one server never carry the same stamp, wherever they are *)
(* (generateUpdate after applyUpdate's updateIndex rule).                  *)
StampsUnique ==
    \A u, v \in issued : SameId(u, v) => u = v

(* A stamp dominates everything its server had received when it made it:   *)
(* the Lamport rule that "sort by LTS" relies on.                          *)
StampDominates ==
    [][\A s \in Servers :
         \A u \in received'[s] \ received[s] :
             u \notin issued => \A v \in received[s] : v.index < u.index]_vars

(* When Spread has nothing left to deliver in a component, its servers     *)
(* report the same vectors: the exchange of matrices and the resending     *)
(* lost no one, whatever splits and merges interrupted them.               *)
QuietComponentAgrees ==
    \A s \in Servers :
        (\A t \in conn[s] : net[t] = <<>>) =>
            \A t \in conn[s] : ownVector(t) = ownVector(s)

(* ... and none of them still waits for a matrix or an echo.               *)
QuietComponentIsNormal ==
    \A s \in Servers :
        (\A t \in conn[s] : net[t] = <<>>) =>
            /\ local_state[s].status = "NORMAL"
            /\ local_state[s].current_membership = conn[s]

(* The servers run out of messages: resending does not go on for ever, so  *)
(* connected servers do come to agree.                                     *)
EventuallyQuiet ==
    <>[](\A s \in Servers : net[s] = <<>>)

(* When Spread has nothing left to deliver in a component, its servers     *)
(* have received the same updates.                                         *)
QuietComponentSame ==
    \A s \in Servers :
        (\A t \in conn[s] : net[t] = <<>>) =>
            \A t \in conn[s] : received[t] = received[s]

(* "The read email and delete email operations are always applied in every *)
(* server after the update to create the email" (design document, page 1), *)
(* every server but the one whose client asked for it, with a list that    *)
(* another server may have sent: Spread's order carries what applyUpdate   *)
(* does not check.  It is true of servers that are connected, quiet and of *)
(* the same history when the network comes to rest (ConnectedInit of       *)
(* MCMailServer).  It is false in a reconciliation, where a client's       *)
(* update goes out before the older ones are resent.                       *)
MailBeforeItsChanges ==
    [][\A s \in Servers :
         \A u \in received'[s] \ received[s] :
             u.type \in {"DELETEMAILMSG", "READMAILMSG"} /\ u.procID # s =>
                \E v \in received[s] : v.type = "NEWMAILMSG" /\ SameId(v, u.mail)]_vars

(* The updates of clients that server s may have taken for its own.        *)
strays(s) == IF s \in HeaderJunk THEN Cardinality(issued) ELSE 0

(* A server starts at most one window of MAX_SEND resent updates for each  *)
(* change of the network, and sends on only for those that come back: no   *)
(* more are ever on their way to it.  One window alone is no bound: the    *)
(* matrices of earlier reconciliations can end a later one while the       *)
(* window before it is still on its way (sendMissingUpdates).  A client's  *)
(* update whose unset proc_num is by chance the server's own number is     *)
(* taken for one that comes back, and adds at most one more.               *)
FlowWindow ==
    \A s \in Servers :
        Cardinality({k \in DOMAIN net[s] :
            /\ net[s][k].type = "UPDATE"
            /\ net[s][k].from = s
            /\ net[s][k].resent}) <= MaxSend * changes + strays(s)

(* The replication implements the promise of module UpdateLog: the history *)
(* of what each server stored is such a log.                               *)
Log == INSTANCE UpdateLog WITH log <- received

ImplementsUpdateLog == Log!Spec

=============================================================================
