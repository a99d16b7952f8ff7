---------------------------- MODULE MailVectors ----------------------------
(***************************************************************************)
(* The linked lists of Distributed_Mail_System/vector.c.  A list is the    *)
(* sequence of its nodes from the head on.  An update node and a mail node *)
(* are records with at least the fields procID and index of mail_id; a     *)
(* mail node also has read.  Allocation failure is left out.               *)
(***************************************************************************)
EXTENDS Integers, Sequences

(* Where a walk along the list that starts at position k stops: at the     *)
(* first node that satisfies P, or one past the end.                       *)
Stop(s, k, P(_)) ==
    CHOOSE i \in k .. Len(s) + 1 :
        /\ i <= Len(s) => P(s[i])
        /\ \A j \in k .. i - 1 : ~ P(s[j])

PutAt(s, i, e) == SubSeq(s, 1, i - 1) \o <<e>> \o SubSeq(s, i, Len(s))

(* MUTANT: the node before the dropped one goes with it.                   *)
DropAtBefore(s, i) == SubSeq(s, 1, i - 2) \o SubSeq(s, i + 1, Len(s))

DropAt(s, i) == SubSeq(s, 1, i - 1) \o SubSeq(s, i + 1, Len(s))

SameId(a, b) == a.procID = b.procID /\ a.index = b.index

(* The Lamport time stamp order of the mails and of the updates: by index, *)
(* ties by server.                                                         *)
Before(a, b) ==
    \/ a.index < b.index
    \/ a.index = b.index /\ a.procID < b.procID

-----------------------------------------------------------------------------
(* update_vector: the updates of one server, by index.                     *)

UpdateGet(s, index) == Stop(s, 1, LAMBDA n : n.index = index)

UpdateHas(s, index) == UpdateGet(s, index) <= Len(s)

(* MUTANT: the update is put at the end of the list.                       *)
UpdateInsertLast(s, u) == Append(s, u)

UpdateInsert(s, u) == PutAt(s, Stop(s, 1, LAMBDA n : n.index >= u.index), u)

UpdateDelete(s, index) ==
    SubSeq(s, Stop(s, 1, LAMBDA n : n.index >= index), Len(s))

-----------------------------------------------------------------------------
(* email_vector: the mails of one user.                                    *)

EmailGet(s, id) == Stop(s, 1, LAMBDA n : SameId(n, id))

EmailHas(s, id) == EmailGet(s, id) <= Len(s)

(* Where email_vector_insert puts a mail.  The first walk looks at the     *)
(* index alone.  Only when it stops on an equal index does a second walk   *)
(* go on, by procID alone: it does not stop where the index changes.       *)
EmailSlot(s, e) ==
    LET i == Stop(s, 1, LAMBDA n : n.index >= e.index)
    IN  IF i <= Len(s) /\ s[i].index = e.index
        THEN Stop(s, i, LAMBDA n : n.procID >= e.procID)
        ELSE i

(* The insertion returns 1 and drops the mail when its second walk stops   *)
(* on a node with the procID of the mail, whatever the index of that node. *)
EmailRejected(s, e) ==
    LET i == Stop(s, 1, LAMBDA n : n.index >= e.index)
        j == EmailSlot(s, e)
    IN  /\ i <= Len(s) /\ s[i].index = e.index
        /\ j <= Len(s) /\ s[j].procID = e.procID

EmailInsert(s, e) ==
    IF EmailRejected(s, e) THEN s ELSE PutAt(s, EmailSlot(s, e), e)

EmailDelete(s, id) ==
    IF EmailHas(s, id) THEN DropAt(s, EmailGet(s, id)) ELSE s

EmailMarkRead(s, id) ==
    IF EmailHas(s, id) THEN [s EXCEPT ![EmailGet(s, id)].read = TRUE] ELSE s

-----------------------------------------------------------------------------
(* user_vector: names in the order in which they were added.               *)

(* MUTANT: a name is added even if it is there.                            *)
UserInsertAlways(s, name) == Append(s, name)

UserInsert(s, name) ==
    IF Stop(s, 1, LAMBDA n : n = name) <= Len(s) THEN s ELSE Append(s, name)

=============================================================================
