----------------------------- MODULE MailLists -----------------------------
(***************************************************************************)
(* The three kinds of list of vector.c under the calls that the server     *)
(* makes of them, beside the sets they stand for: the updates of one       *)
(* server (update_vector), the mails of one user (email_vector) and the    *)
(* users (user_vector).                                                    *)
(***************************************************************************)
EXTENDS MailVectors, FiniteSets

CONSTANTS
    Names,       \* names of users
    Procs,       \* servers that stamp mails
    MaxIndex,    \* bound: indices go from 0 to MaxIndex
    MaxMails     \* bound: mails ever added

ASSUME BoundsAssumption == MaxIndex \in Nat /\ MaxMails \in Nat

VARIABLES
    updates, emails, users,  \* the lists
    stored,                  \* the indices that belong in updates
    added,                   \* the mails ever added
    deleted,                 \* the mails deleted and not inserted again since
    dropped,                 \* the mails that every insertion turned away
    replayed                 \* the mails that were applied a second time

vars == <<updates, emails, users, stored, added, deleted, dropped, replayed>>

mailVars == <<emails, added, deleted, dropped, replayed>>

IndexRange == 0 .. MaxIndex

Ids == [procID : Procs, index : IndexRange]

ids(s) == {[procID |-> s[i].procID, index |-> s[i].index] : i \in DOMAIN s}

names(s) == {s[i] : i \in DOMAIN s}

Init ==
    /\ updates = <<>> /\ stored = {}
    /\ emails = <<>> /\ added = {} /\ deleted = {} /\ dropped = {}
    /\ replayed = {}
    /\ users = <<>>

(* applyUpdate stores an update that findUpdate does not find.             *)
StoreUpdate(i) ==
    /\ ~ UpdateHas(updates, i)
    /\ updates' = UpdateInsert(updates, [index |-> i])
    /\ stored' = stored \cup {i}
    /\ UNCHANGED <<users, mailVars>>

(* purgeUpdateBuffer deletes below the lowest index of a matrix column.    *)
PurgeUpdates(i) ==
    /\ updates' = UpdateDelete(updates, i)
    /\ stored' = {j \in stored : j >= i}
    /\ UNCHANGED <<users, mailVars>>

newMail(id) == [procID |-> id.procID, index |-> id.index, read |-> FALSE]

(* addMail inserts the mail of an update that is applied for the first     *)
(* time: each has its own stamp.                                           *)
AddMail(id) ==
    /\ id \notin added
    /\ Cardinality(added) < MaxMails
    /\ emails' = EmailInsert(emails, newMail(id))
    /\ added' = added \cup {id}
    /\ dropped' = IF EmailRejected(emails, newMail(id))
                  THEN dropped \cup {id} ELSE dropped
    /\ UNCHANGED <<updates, users, stored, deleted, replayed>>

(* A server that starts applies the last update of every server again      *)
(* (server.c:73-80), with ignoreDup = 0: findUpdate is not asked, and a    *)
(* mail that was deleted in the meantime is inserted again.                *)
ReplayMail(id) ==
    /\ id \in added
    /\ \A other \in added : other.procID = id.procID => other.index <= id.index
    /\ emails' = EmailInsert(emails, newMail(id))
    /\ replayed' = replayed \cup {id}
    /\ IF EmailRejected(emails, newMail(id))
       THEN UNCHANGED <<deleted, dropped>>
       ELSE deleted' = deleted \ {id} /\ dropped' = dropped \ {id}
    /\ UNCHANGED <<updates, users, stored, added>>

(* deleteMail and markAsRead look the mail up first.                       *)
DeleteMail(id) ==
    /\ EmailHas(emails, id)
    /\ emails' = EmailDelete(emails, id)
    /\ deleted' = deleted \cup {id}
    /\ UNCHANGED <<updates, users, stored, added, dropped, replayed>>

MarkAsRead(id) ==
    /\ EmailHas(emails, id)
    /\ emails' = EmailMarkRead(emails, id)
    /\ UNCHANGED <<updates, users, stored, added, deleted, dropped, replayed>>

AddUser(name) ==
    /\ users' = UserInsert(users, name)
    /\ UNCHANGED <<updates, stored, mailVars>>

Next ==
    \/ \E i \in IndexRange : StoreUpdate(i) \/ PurgeUpdates(i)
    \/ \E id \in Ids :
         AddMail(id) \/ ReplayMail(id) \/ DeleteMail(id) \/ MarkAsRead(id)
    \/ \E name \in Names : AddUser(name)

Spec == Init /\ [][Next]_vars

-----------------------------------------------------------------------------
(* The list of updates is the sorted list of the set of the indices that   *)
(* were stored and not purged, each once: update_vector_delete, which cuts *)
(* at the head only, removes exactly what is below its bound, and findUpdate *)
(* finds exactly what is stored.  It lets module MailServer keep a set.    *)
UpdatesAreTheStoredSet ==
    /\ {updates[k].index : k \in DOMAIN updates} = stored
    /\ \A k, l \in DOMAIN updates : k < l => updates[k].index < updates[l].index

(* The list holds every mail that was inserted and not deleted since; a    *)
(* mail that was never replayed is in it at most once, and not at all if   *)
(* it was deleted or turned away: the surgery on the links loses and       *)
(* repeats no neighbour, even when the list is out of order.  Of a mail    *)
(* that is replayed the list may hold two copies, so that one is left when *)
(* it is deleted; and a replay may bring a deleted mail back.              *)
MailsAreTheMailbox ==
    LET kept == added \ (deleted \cup dropped)
    IN  /\ kept \subseteq ids(emails)
        /\ ids(emails) \subseteq kept \cup replayed
        /\ \A j, k \in DOMAIN emails :
             j # k /\ SameId(emails[j], emails[k]) =>
                 [procID |-> emails[j].procID, index |-> emails[j].index]
                     \in replayed

(* The users are those added, each once, in an order that only grows: what *)
(* writeUserList saves can be read back as the same users.                 *)
UsersOnce ==
    [][/\ \E k \in 0 .. 1 : Len(users') = Len(users) + k
       /\ SubSeq(users', 1, Len(users)) = users
       /\ Cardinality(names(users')) = Len(users')]_vars

(* "inserts into user email vector, maintaining sorting by lamport time    *)
(* stamp" and "returns -1 if cannot find user or insertion fails because   *)
(* of capacity" (server.c:676-678): no other mail is turned away.          *)
NewMailIsKept == dropped = {}

=============================================================================
