---------------------------- MODULE MCMailClient ----------------------------
(* A client that has connected to a server and logged in, and what it      *)
(* types from then on.                                                     *)
EXTENDS MailClient

LoggedInInit ==
    /\ userName = (CHOOSE u \in Users : TRUE)
    /\ serverNum = (CHOOSE s \in Servers : TRUE) /\ group = serverNum
    /\ wait = FALSE /\ maxMailNum = 0 /\ curr_count = 0 /\ emails = <<>>
    /\ alive = TRUE /\ typed = 0
    /\ shown = <<>> /\ listed = [from |-> None, mails |-> <<>>] /\ mixed = FALSE
    /\ box = [s \in Servers |-> [u \in Users |-> <<>>]]
    /\ mails = 0
    /\ reach = [s \in Servers |-> TRUE] /\ splits = 0
    /\ cmds = [s \in Servers |-> <<>>] /\ inbox = [s \in Servers |-> <<>>]

LoggedInSpec ==
    /\ LoggedInInit /\ [][Next]_vars
    /\ \A s \in Servers : WF_vars(Receive(s)) /\ WF_vars(Serve(s))
=============================================================================
