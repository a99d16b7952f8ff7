----------------------------- MODULE MailState -----------------------------
(***************************************************************************)
(* The state of one mail server (struct state_type of mail.h) and the      *)
(* functions of server.c on it, as operators from a state st of server me  *)
(* to the state they leave.                                                *)
(*                                                                         *)
(* The update buffer is the set of the updates in its five lists: vector.c *)
(* keeps each list sorted and free of duplicates (module MailLists).       *)
(***************************************************************************)
EXTENDS MailVectors, FiniteSets

CONSTANTS
    NumServers,       \* NUM_SERVERS of mail.h
    Users,            \* names of mail users
    MaxSend           \* MAX_SEND of mail.h

ASSUME NumServersAssumption == NumServers \in Nat \ {0}
ASSUME MaxSendAssumption == MaxSend \in Nat \ {0}

Servers == 1 .. NumServers

Status == {"NORMAL", "RECONCILE", "SENDINGUPDATES"}

MailIds == [procID : Servers, index : Nat]

UpdateTypes == {"NEWUSERMSG", "NEWMAILMSG", "DELETEMAILMSG", "READMAILMSG"}

(* user is the user whose state the update changes and mail the mail it is *)
(* about; a new mail has the stamp of its update.                          *)
Updates == [procID : Servers, index : Nat, type : UpdateTypes,
            user : Users, mail : MailIds]

Mails == [procID : Servers, index : Nat, read : BOOLEAN]

Indices == Nat \cup {-1}

NoRange == [min |-> -1, max |-> -1]

(* A range of indices to resend, or none.                                  *)
Ranges ==
    {r \in [min : Indices, max : Indices] :
        r = NoRange \/ (0 <= r.min /\ r.min <= r.max)}

Matrices == [Servers -> [Servers -> Indices]]

LocalStates ==
    [updateIndex : Indices,
     status : Status,
     latest_update : Matrices,
     num_matrix_recvd : Nat,
     buffer : SUBSET Updates,
     users : SUBSET Users,
     emails : [Users -> Seq(Mails)],
     current_membership : SUBSET Servers,
     min_max : [Servers -> Ranges]]

initialState(s) ==
    [updateIndex |-> -1,
     status |-> "NORMAL",
     latest_update |-> [i \in Servers |-> [j \in Servers |-> -1]],
     num_matrix_recvd |-> 0,
     buffer |-> {},
     users |-> {},
     emails |-> [u \in Users |-> <<>>],
     current_membership |-> {s},
     min_max |-> [i \in Servers |-> NoRange]]

-----------------------------------------------------------------------------
(* Applying an update.                                                     *)

larger(a, b) == IF a > b THEN a ELSE b

findUpdate(st, procID, index) ==
    \E u \in st.buffer : u.procID = procID /\ u.index = index

storeUpdate(st, u) == [st EXCEPT !.buffer = @ \cup {u}]

updateVector(st, me, u) ==
    [st EXCEPT !.latest_update[me][u.procID] = larger(@, u.index)]

addMail(st, u) ==
    IF u.user \in st.users
    THEN [st EXCEPT !.emails[u.user] =
            EmailInsert(@, [procID |-> u.mail.procID, index |-> u.mail.index,
                            read |-> FALSE])]
    ELSE st

addUser(st, u) == [st EXCEPT !.users = @ \cup {u.user}]

deleteMail(st, u) == [st EXCEPT !.emails[u.user] = EmailDelete(@, u.mail)]

markAsRead(st, u) == [st EXCEPT !.emails[u.user] = EmailMarkRead(@, u.mail)]

changeMail(st, u) ==
    CASE u.type = "NEWMAILMSG"    -> addMail(st, u)
      [] u.type = "NEWUSERMSG"    -> addUser(st, u)
      [] u.type = "DELETEMAILMSG" -> deleteMail(st, u)
      [] u.type = "READMAILMSG"   -> markAsRead(st, u)

(* MUTANT: only a server's own updates move its counter.                   *)
applyUpdateOwnCounter(st, me, u) ==
    IF findUpdate(st, u.procID, u.index)
    THEN st
    ELSE [changeMail(updateVector(storeUpdate(st, u), me, u), u)
            EXCEPT !.updateIndex = IF u.procID = me THEN @ + 1 ELSE @]

applyUpdate(st, me, u) ==
    IF findUpdate(st, u.procID, u.index)
    THEN st
    ELSE [changeMail(updateVector(storeUpdate(st, u), me, u), u)
            EXCEPT !.updateIndex = larger(@ + 1, u.index)]

-----------------------------------------------------------------------------
(* Reconciliation.                                                         *)

(* MUTANT: the sender of a matrix is credited with what this server has.   *)
updateMatrixCredit(st, me, m) ==
    IF m.from = me THEN st
    ELSE [st EXCEPT !.latest_update =
            [i \in Servers |->
                IF i = me THEN st.latest_update[i]
                ELSE [j \in Servers |->
                        larger(IF i = m.from THEN st.latest_update[me][j]
                               ELSE m.matrix[i][j],
                               st.latest_update[i][j])]]]

(* What the other server sent replaces what is older, but never this       *)
(* server's own row.                                                       *)
updateMatrix(st, me, m) ==
    IF m.from = me THEN st
    ELSE [st EXCEPT !.latest_update =
            [i \in Servers |->
                IF i = me THEN st.latest_update[i]
                ELSE [j \in Servers |-> larger(m.matrix[i][j],
                                               st.latest_update[i][j])]]]

(* MUTANT: an update that every server has goes at once.                   *)
purgeReached(st) ==
    [st EXCEPT !.buffer =
        {u \in @ : \E i \in Servers :
                       st.latest_update[i][u.procID] < u.index}]

(* MUTANT: only the connected servers are asked.                           *)
purgeConnected(st) ==
    [st EXCEPT !.buffer =
        {u \in @ : \E i \in st.current_membership :
                       st.latest_update[i][u.procID] <= u.index}]

(* An update goes when every server, connected or not, is known to have a  *)
(* later one.                                                              *)
purgeUpdateBuffer(st) ==
    [st EXCEPT !.buffer =
        {u \in @ : \E i \in Servers :
                       st.latest_update[i][u.procID] <= u.index}]

Others(st, me) == st.current_membership \ {me}

(* MUTANT: among equals none is highest.                                   *)
checkHighestUpdateStrictly(st, me, p) ==
    \A i \in Others(st, me) :
        st.latest_update[i][p] < st.latest_update[me][p]

checkHighestUpdate(st, me, p) ==
    \A i \in Others(st, me) :
        \/ st.latest_update[i][p] < st.latest_update[me][p]
        \/ st.latest_update[i][p] = st.latest_update[me][p] /\ i < me

getLowestUpdate(st, me, p) ==
    CHOOSE low \in {st.latest_update[i][p] : i \in Others(st, me)} :
        \A i \in Others(st, me) : low <= st.latest_update[i][p]

(* MUTANT: the last missing update is left out.                            *)
planRangeShort(st, me, p) ==
    IF ~ checkHighestUpdate(st, me, p) THEN NoRange
    ELSE IF \E i \in Others(st, me) :
                st.latest_update[i][p] < st.latest_update[me][p]
         THEN [min |-> getLowestUpdate(st, me, p) + 1,
               max |-> st.latest_update[me][p] - 1]
         ELSE st.min_max[p]

(* The range of p's updates to resend.  The range of an earlier            *)
(* reconciliation stays when this server is highest and no other member is *)
(* behind.                                                                 *)
planRange(st, me, p) ==
    IF ~ checkHighestUpdate(st, me, p) THEN NoRange
    ELSE IF \E i \in Others(st, me) :
                st.latest_update[i][p] < st.latest_update[me][p]
         THEN [min |-> getLowestUpdate(st, me, p) + 1,
               max |-> st.latest_update[me][p]]
         ELSE st.min_max[p]

planUpdates(st, me) ==
    [st EXCEPT !.min_max = [p \in Servers |-> planRange(st, me, p)]]

(* What comes before the sending of the first MAX_SEND updates.            *)
continueReconcile(st, me) == planUpdates(purgeUpdateBuffer(st), me)

(* The loop of sendMissingUpdates visits the indices of the ranges in      *)
(* stamp order, sends those that are in the buffer, and stops after n      *)
(* sends.  toSend is what it sends; it runs dry when that is less than n.  *)
(* (Module FlowControl has the loop itself.)                               *)
inRange(r, index) == 0 <= r.min /\ r.min <= index /\ index <= r.max

missing(st) == {u \in st.buffer : inRange(st.min_max[u.procID], u.index)}

(* MUTANT: one send too many.                                              *)
toSendOneMore(st, n) ==
    {u \in missing(st) : Cardinality({v \in missing(st) : Before(v, u)}) <= n}

toSend(st, n) ==
    {u \in missing(st) : Cardinality({v \in missing(st) : Before(v, u)}) < n}

ranDry(st, n) == Cardinality(toSend(st, n)) < n

(* MUTANT: the ranges do not advance.                                      *)
restOfRangeStuck(st, n, p) == st.min_max[p]

(* What the loop leaves of the range of p when it stops at its n-th send.  *)
restOfRange(st, n, p) ==
    LET r == st.min_max[p]
        visited == {i \in 0 .. r.max :
                      \E u \in toSend(st, n) :
                          ~ Before(u, [procID |-> p, index |-> i])}
    IN  IF r.min < 0 \/ r.max \in visited THEN NoRange
        ELSE [min |-> CHOOSE i \in r.min .. r.max :
                         /\ i \notin visited
                         /\ \A j \in r.min .. i - 1 : j \in visited,
              max |-> r.max]

sendMissingUpdates(st, n) ==
    IF ranDry(st, n)
    THEN [st EXCEPT !.min_max = [p \in Servers |-> NoRange],
                    !.status = "NORMAL"]
    ELSE [st EXCEPT !.min_max = [p \in Servers |-> restOfRange(st, n, p)]]

(* MUTANT: the count goes down.                                            *)
countMatrixDown(st, me, m) ==
    [updateMatrix(st, me, m) EXCEPT !.num_matrix_recvd = @ - 1]

(* The matrix that completes the count starts the sending of updates.      *)
countMatrix(st, me, m) ==
    [updateMatrix(st, me, m) EXCEPT !.num_matrix_recvd = @ + 1]

(* MUTANT: the counter is used before it is incremented.                   *)
generateUpdateSame(st, me, type, user, mail) ==
    LET id == [procID |-> me, index |-> st.updateIndex]
    IN  [procID |-> me, index |-> st.updateIndex, type |-> type,
         user |-> user,
         mail |-> IF type \in {"DELETEMAILMSG", "READMAILMSG"} THEN mail ELSE id]

generateUpdate(st, me, type, user, mail) ==
    LET id == [procID |-> me, index |-> st.updateIndex + 1]
    IN  [procID |-> me, index |-> st.updateIndex + 1, type |-> type,
         user |-> user,
         mail |-> IF type \in {"DELETEMAILMSG", "READMAILMSG"} THEN mail ELSE id]

=============================================================================
