----------------------------- MODULE MailClient -----------------------------
(***************************************************************************)
(* The mail client, client.c, with the servers as it sees them: one        *)
(* command at a time, a list of mails that arrives mail by mail, numbers   *)
(* that stand for the mails of that list, and a connection that is only    *)
(* the membership of the server's group.                                   *)
(*                                                                         *)
(* The servers are their mailboxes: MailServer and MailRecovery have the   *)
(* rest.  connected is group # None.                                       *)
(***************************************************************************)
EXTENDS Integers, Sequences

CONSTANTS
    Servers,
    None,            \* no server, no user
    Unknown,         \* a server number above 5
    Users,           \* the users, who all have their accounts
    MaxMails,        \* bound: mails that are made
    MaxCommands,     \* bound: lines the user types
    MaxSplits        \* bound: times a server is cut off from the client

ASSUME NoneAssumption ==
    None \notin Servers \cup Users /\ Unknown \notin Servers \cup {None}
ASSUME ClientBounds == MaxMails \in Nat /\ MaxCommands \in Nat /\ MaxSplits \in Nat

VARIABLES
    userName, serverNum, group, wait, maxMailNum, curr_count,
    emails,          \* the list from emailHead on
    alive,           \* the client runs
    typed,           \* lines typed so far
    shown,           \* the list that was displayed since its header came
    listed,          \* the mails the server of the last header listed, and
                     \* that server
    mixed,           \* a mail of another server has come since
    box,             \* box[s][u]: the mailbox of user u at server s
    mails,           \* mails made so far
    reach, splits,   \* reach[s]: client and server s are connected
    cmds, inbox      \* per server: commands and messages on their way

client == <<userName, serverNum, group, wait, maxMailNum, curr_count, emails,
            alive, typed, shown, listed, mixed>>
servers == <<box, mails>>
network == <<reach, splits>>
vars == <<client, servers, network, cmds, inbox>>

Mail(u, n) == [to |-> u, id |-> n]

Header(ms) == [type |-> "HEADER", mails |-> ms]
OneMail(m) == [type |-> "MAIL", mail |-> m]
Reply == [type |-> "REPLY"]
Membership(there) == [type |-> "MEMBERSHIP", there |-> there]

-----------------------------------------------------------------------------
(* userCommand and parseCommand: a line is read only when nothing is       *)
(* awaited; "Incorrect use" changes nothing.                               *)
Types ==
    /\ alive /\ ~ wait /\ typed < MaxCommands
    /\ typed' = typed + 1
    /\ UNCHANGED <<maxMailNum, curr_count, emails, shown, listed, mixed,
                   servers, network>>

(* SP_multicast to server_group, the group of the server of the last       *)
(* connect: whoever cannot be reached gets nothing.                        *)
sendCommand(c) ==
    /\ cmds' = IF reach[group] THEN [cmds EXCEPT ![group] = Append(@, c)] ELSE cmds
    /\ wait' = TRUE

Connect(s) ==
    /\ Types
    /\ serverNum' = s /\ group' = s
    /\ inbox' = [inbox EXCEPT ![s] = Append(@, Membership(reach[s]))]
    /\ UNCHANGED <<userName, wait, alive, cmds>>

(* A number that is no server's is kept all the same.                      *)
ConnectNowhere ==
    /\ Types
    /\ serverNum' \in {None, Unknown}
    /\ UNCHANGED <<userName, group, wait, alive, cmds, inbox>>

Login(u) ==
    /\ Types /\ group # None /\ serverNum # None
    /\ userName' = u
    /\ sendCommand([type |-> "OTHER"])
    /\ UNCHANGED <<serverNum, group, alive, inbox>>

Commands ==
    /\ Types
    /\ userName # None /\ group # None /\ serverNum \in Servers
    /\ UNCHANGED <<userName, serverNum, group, inbox>>

listHeaders ==
    /\ Commands
    /\ sendCommand([type |-> "LIST", user |-> userName])
    /\ UNCHANGED alive

mailSetup(u) ==
    /\ Commands
    /\ sendCommand([type |-> "NEWMAIL", to |-> u])
    /\ UNCHANGED alive

(* deleteMail and readMail, when the number is not above maxMailNum: the   *)
(* walk to it ends the client if the list is shorter than that.            *)
byNumber(type, n) ==
    /\ Commands
    /\ emails # <<>> /\ emails[1].to = userName
    /\ n \in 1 .. maxMailNum
    /\ \/ /\ n <= Len(emails)
          /\ sendCommand([type |-> type, user |-> userName, mail |-> emails[n]])
          /\ UNCHANGED alive
       \/ /\ n > Len(emails)
          /\ alive' = FALSE
          /\ UNCHANGED <<wait, cmds>>

printMembership ==
    /\ Types /\ group # None /\ serverNum \in Servers
    /\ sendCommand([type |-> "OTHER"])
    /\ UNCHANGED <<userName, serverNum, group, alive, inbox>>

-----------------------------------------------------------------------------
(* processRegularMessage and processRegMembershipMessage.                  *)
Arrives(s, type) ==
    /\ alive /\ inbox[s] # <<>> /\ Head(inbox[s]).type = type
    /\ inbox' = [inbox EXCEPT ![s] = Tail(@)]
    /\ UNCHANGED <<userName, serverNum, alive, typed, servers, network, cmds>>

(* MUTANT: the old list is not freed.                                      *)
ReceiveHeaderKeeping(s) ==
    /\ Arrives(s, "HEADER")
    /\ maxMailNum' = Len(Head(inbox[s]).mails)
    /\ curr_count' = 0 /\ wait' = FALSE
    /\ shown' = <<>> /\ listed' = [from |-> s, mails |-> Head(inbox[s]).mails] /\ mixed' = FALSE
    /\ UNCHANGED <<group, emails>>

(* MUTANT: the number of mails does not end the wait.                      *)
ReceiveHeaderWaiting(s) ==
    /\ Arrives(s, "HEADER")
    /\ maxMailNum' = Len(Head(inbox[s]).mails)
    /\ curr_count' = 0 /\ emails' = <<>>
    /\ shown' = <<>> /\ listed' = [from |-> s, mails |-> Head(inbox[s]).mails] /\ mixed' = FALSE
    /\ UNCHANGED <<group, wait>>

ReceiveHeader(s) ==
    /\ Arrives(s, "HEADER")
    /\ maxMailNum' = Len(Head(inbox[s]).mails)
    /\ curr_count' = 0 /\ emails' = <<>> /\ wait' = FALSE
    /\ shown' = <<>> /\ listed' = [from |-> s, mails |-> Head(inbox[s]).mails] /\ mixed' = FALSE
    /\ UNCHANGED group

(* MUTANT: the list is displayed one mail too early.                       *)
ReceiveMailEarly(s) ==
    /\ Arrives(s, "MAIL")
    /\ emails' = Append(emails, Head(inbox[s]).mail)
    /\ LET complete == curr_count + 2 >= maxMailNum
       IN  /\ curr_count' = IF complete THEN 0 ELSE curr_count + 1
           /\ shown' = IF complete THEN emails' ELSE shown
    /\ mixed' = (mixed \/ s # listed.from)
    /\ wait' = FALSE
    /\ UNCHANGED <<group, maxMailNum, listed>>

(* The mail that completes the list displays it.                           *)
ReceiveMail(s) ==
    /\ Arrives(s, "MAIL")
    /\ emails' = Append(emails, Head(inbox[s]).mail)
    /\ LET complete == curr_count + 1 = maxMailNum
       IN  /\ curr_count' = IF complete THEN 0 ELSE curr_count + 1
           /\ shown' = IF complete THEN emails' ELSE shown
    /\ mixed' = (mixed \/ s # listed.from)
    /\ wait' = FALSE
    /\ UNCHANGED <<group, maxMailNum, listed>>

ReceiveReply(s) ==
    /\ Arrives(s, "REPLY")
    /\ wait' = FALSE
    /\ UNCHANGED <<group, maxMailNum, curr_count, emails, shown, listed, mixed>>

(* The client leaves a group without its server; wait stays as it is.      *)
ReceiveMembership(s) ==
    /\ Arrives(s, "MEMBERSHIP")
    /\ group' = IF group = s /\ ~ Head(inbox[s]).there THEN None ELSE group
    /\ UNCHANGED <<wait, maxMailNum, curr_count, emails, shown, listed, mixed>>

Receive(s) == ReceiveHeader(s) \/ ReceiveMail(s) \/ ReceiveReply(s) \/ ReceiveMembership(s)

-----------------------------------------------------------------------------
(* The servers: the update of a command, then generateResponse.  No mail   *)
(* is in a mailbox twice.                                                  *)
without(q, m) ==
    IF \E j \in DOMAIN q : q[j] = m
    THEN LET k == CHOOSE j \in DOMAIN q : q[j] = m
         IN  SubSeq(q, 1, k - 1) \o SubSeq(q, k + 1, Len(q))
    ELSE q

Serves(s, type) ==
    /\ cmds[s] # <<>> /\ Head(cmds[s]).type = type
    /\ cmds' = [cmds EXCEPT ![s] = Tail(@)]
    /\ UNCHANGED <<client, network>>

responds(s, ms) == inbox' = [inbox EXCEPT ![s] = @ \o ms]

(* The number of mails first, then every mail as a message of its own.     *)
ServeList(s) ==
    /\ Serves(s, "LIST")
    /\ LET b == box[s][Head(cmds[s]).user]
       IN  responds(s, <<Header(b)>> \o [k \in DOMAIN b |-> OneMail(b[k])])
    /\ UNCHANGED servers

ServeNewMail(s) ==
    /\ Serves(s, "NEWMAIL")
    /\ LET u == Head(cmds[s]).to
       IN  box' = [box EXCEPT ![s][u] = Append(@, Mail(u, mails + 1))]
    /\ mails' = mails + 1
    /\ responds(s, <<Reply>>)

ServeDelete(s) ==
    /\ Serves(s, "DELETE")
    /\ box' = [box EXCEPT ![s][Head(cmds[s]).user] = without(@, Head(cmds[s]).mail)]
    /\ responds(s, <<Reply>>)
    /\ UNCHANGED mails

ServeOther(s) ==
    /\ Serves(s, "READ") \/ Serves(s, "OTHER")
    /\ responds(s, <<Reply>>)
    /\ UNCHANGED servers

Serve(s) == ServeList(s) \/ ServeNewMail(s) \/ ServeDelete(s) \/ ServeOther(s)

(* Updates of other clients and servers add mails and delete them.         *)
ChangeElsewhere(s) ==
    /\ \E u \in Users :
          \/ /\ mails < MaxMails
             /\ box' = [box EXCEPT ![s][u] = Append(@, Mail(u, mails + 1))]
             /\ mails' = mails + 1
          \/ /\ \E k \in DOMAIN box[s][u] :
                   box' = [box EXCEPT ![s][u] = without(@, box[s][u][k])]
             /\ UNCHANGED mails
    /\ UNCHANGED <<client, network, cmds, inbox>>

(* A server is cut off: what was on its way is lost from some point on,    *)
(* and whoever is in its group hears of it.                                *)
CutOff(s) ==
    /\ reach[s] /\ splits < MaxSplits
    /\ reach' = [reach EXCEPT ![s] = FALSE] /\ splits' = splits + 1
    /\ cmds' = [cmds EXCEPT ![s] = <<>>]
    /\ \E n \in 0 .. Len(inbox[s]) :
          inbox' = [inbox EXCEPT ![s] =
                      SubSeq(@, 1, n) \o (IF group = s THEN <<Membership(FALSE)>> ELSE <<>>)]
    /\ UNCHANGED <<client, servers>>

Return(s) ==
    /\ ~ reach[s]
    /\ reach' = [reach EXCEPT ![s] = TRUE]
    /\ UNCHANGED <<client, servers, splits, cmds, inbox>>

Init ==
    /\ userName = None /\ serverNum = None /\ group = None
    /\ wait = FALSE /\ maxMailNum = 0 /\ curr_count = 0 /\ emails = <<>>
    /\ alive = TRUE /\ typed = 0
    /\ shown = <<>> /\ listed = [from |-> None, mails |-> <<>>] /\ mixed = FALSE
    /\ box = [s \in Servers |-> [u \in Users |-> <<>>]]
    /\ mails = 0
    /\ reach = [s \in Servers |-> TRUE] /\ splits = 0
    /\ cmds = [s \in Servers |-> <<>>] /\ inbox = [s \in Servers |-> <<>>]

Next ==
    \/ \E s \in Servers : Connect(s) \/ Receive(s) \/ Serve(s) \/ ChangeElsewhere(s)
                             \/ CutOff(s) \/ Return(s)
    \/ \E u \in Users : Login(u) \/ mailSetup(u)
    \/ ConnectNowhere \/ listHeaders \/ printMembership
    \/ \E n \in 1 .. maxMailNum : byNumber("DELETE", n) \/ byNumber("READ", n)

Spec == Init /\ [][Next]_vars

(* Both programs read what has come.                                       *)
FairSpec == Spec /\ \A s \in Servers : WF_vars(Receive(s)) /\ WF_vars(Serve(s))

-----------------------------------------------------------------------------
(* What is displayed as the list of mails is the mailbox that the server   *)
(* listed, whatever was typed and arrived meanwhile, unless a mail of the  *)
(* list of another server came in between (client.c, processRegularMessage *)
(* and displayList).                                                       *)
DisplayedIsMailbox == shown # <<>> /\ ~ mixed => shown = listed.mails

(* From the display of a list to the next header every number that passes  *)
(* the check of parseCommand has its mail, and unless lists are mixed it   *)
(* stands for the mail that was displayed with it (parseCommand,           *)
(* deleteMail, readMail).                                                  *)
NumbersAreShown ==
    shown # <<>> =>
        /\ maxMailNum <= Len(emails)
        /\ ~ mixed => emails = shown

(* A command that is awaited is answered and the user may type again, when *)
(* no server is cut off (userCommand reads nothing while wait is set).     *)
AnsweredIfThere == [](splits = 0) => (wait ~> ~ wait \/ ~ alive)
=============================================================================
