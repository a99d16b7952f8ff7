---------------------------- MODULE MCMailLists ----------------------------
(***************************************************************************)
(* Three servers stamp mails.                                              *)
(***************************************************************************)
EXTENDS MailLists

MCNames == {"ann", "bob", "cat"}

(* Bound: one list in use at a time, as no call touches two of them.       *)
OneListInUse ==
    \/ stored = {} /\ added = {}
    \/ stored = {} /\ users = <<>>
    \/ added = {} /\ users = <<>>

(* The mails of one server come in the order of their stamps, as they do   *)
(* when nothing is resent.                                                 *)
InSendingOrder ==
    \A id \in added' \ added, other \in added :
        other.procID = id.procID => other.index < id.index

InOrderSpec == Init /\ [][Next /\ InSendingOrder]_vars

=============================================================================
