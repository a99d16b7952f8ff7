---------------------------- MODULE SpreadMcast ----------------------------
(***************************************************************************)
(* src/Spread_Mcast_Application/mcast.c: a fixed number of processes       *)
(* multicast their messages over Spread with agreed delivery.  A process   *)
(* may be at most Window messages ahead of the slowest process that has    *)
(* not finished, as far as it has received; a FIN follows the last message *)
(* and a process exits when it has the FIN of every process.               *)
(*                                                                         *)
(* Spread is external: it puts the messages of all processes and the       *)
(* membership messages of the group in one order, keeps the order of every *)
(* sender, and hands a member what comes after the member's own join.      *)
(***************************************************************************)
EXTENDS Integers, Sequences, FiniteSets

CONSTANTS
    Procs,         \* the processes of the job
    NumMessages,   \* num_messages of each process (its first argument)
    Window,        \* NUM_SEND_MESSAGE
    MaxFails       \* bound: processes that lose their daemon or are killed

ASSUME ProcsAssumption == IsFiniteSet(Procs)
ASSUME NumMessagesAssumption == NumMessages \in [Procs -> Nat]
ASSUME WindowAssumption == Window \in Nat \ {0}
ASSUME MaxFailsAssumption == MaxFails \in Nat

VARIABLES
    message_index,   \* message_index[p]: number of the last message p sent
    global_window,   \* global_window[p][q]: what p has received from q
    status,          \* "out" before SP_join, "in", "exited" by Bye, "failed"
    outbox,          \* outbox[p]: handed to Spread by p, not ordered yet
    log,             \* the one order in which Spread delivers
    pos              \* pos[p]: how much of log p has received

vars == <<message_index, global_window, status, outbox, log, pos>>

num_procs == Cardinality(Procs)

Regular == [type : {"regular"}, proc_num : Procs, seq_num : Nat, FIN : BOOLEAN]
Memberships == [type : {"membership"}, num_groups : Nat]
Windows == [Procs -> [FIN : BOOLEAN, seq_num : Nat \cup {-1}]]

members == {p \in Procs : status[p] = "in"}

Membership(n) == [type |-> "membership", num_groups |-> n]

-----------------------------------------------------------------------------
(* sendMessages and sendNewMessage on the state of one process: its window *)
(* w and the number idx of its last message.                               *)

(* MUTANT: a process that has finished exits without the other FINs.       *)
AllFinishedButOne(w) == Cardinality({q \in Procs : w[q].FIN}) >= num_procs - 1

AllFinished(w) == \A q \in Procs : w[q].FIN

sendNewMessage(p, n, fin) ==
    [type |-> "regular", proc_num |-> p, seq_num |-> n, FIN |-> fin]

(* MUTANT: a process that has finished still holds back the others.        *)
inWindowOfAll(w, n) == \A q \in Procs : n <= w[q].seq_num + Window

(* MUTANT: only the process's own messages are counted.                    *)
inWindowOfSome(w, n) == \E q \in Procs : ~w[q].FIN /\ n <= w[q].seq_num + Window

(* Message n is at most Window ahead of every process that has not         *)
(* finished.                                                               *)
inWindow(w, n) == \A q \in Procs : w[q].FIN \/ n <= w[q].seq_num + Window

(* How many messages the loop of sendMessages sends: the minimum there     *)
(* starts from message_index, so no more than Window.                      *)
numToSend(p, w, idx) ==
    Cardinality({k \in 1 .. Window : /\ idx + k <= NumMessages[p] - 1
                                     /\ inWindow(w, idx + k)})

(* MUTANT: the FIN is sent again on every call until it comes back.        *)
sendMessagesAgain(p, w, idx) ==
    IF w[p].FIN THEN <<>>
    ELSE IF idx >= NumMessages[p] - 1 THEN <<sendNewMessage(p, idx + 1, TRUE)>>
    ELSE [k \in 1 .. numToSend(p, w, idx) |-> sendNewMessage(p, idx + k, FALSE)]

(* What sendMessages hands to Spread.                                      *)
sendMessages(p, w, idx) ==
    IF w[p].FIN THEN <<>>
    ELSE IF idx = NumMessages[p] - 1 THEN <<sendNewMessage(p, idx + 1, TRUE)>>
    ELSE [k \in 1 .. numToSend(p, w, idx) |-> sendNewMessage(p, idx + k, FALSE)]

(* deliverMessage on the window of the receiver.                           *)
deliverMessage(w, m) ==
    IF m.FIN THEN [w EXCEPT ![m.proc_num].FIN = TRUE]
    ELSE [w EXCEPT ![m.proc_num].seq_num = m.seq_num]

-----------------------------------------------------------------------------
Init ==
    /\ message_index = [p \in Procs |-> -1]
    /\ global_window =
         [p \in Procs |-> [q \in Procs |-> [FIN |-> FALSE, seq_num |-> -1]]]
    /\ status = [p \in Procs |-> "out"]
    /\ outbox = [p \in Procs |-> <<>>]
    /\ log = <<>>
    /\ pos = [p \in Procs |-> 0]

(* SP_join: the process is in the group from its own membership message    *)
(* on.                                                                     *)
Join(p) ==
    /\ status[p] = "out"
    /\ status' = [status EXCEPT ![p] = "in"]
    /\ log' = Append(log, Membership(Cardinality(members) + 1))
    /\ pos' = [pos EXCEPT ![p] = Len(log)]
    /\ UNCHANGED <<message_index, global_window, outbox>>

(* Spread orders the next message of p.                                    *)
Order(p) ==
    /\ outbox[p] # <<>>
    /\ log' = Append(log, Head(outbox[p]))
    /\ outbox' = [outbox EXCEPT ![p] = Tail(outbox[p])]
    /\ UNCHANGED <<message_index, global_window, status, pos>>

(* The rest of the group is told that p is gone.                           *)
leaveGroup == log' = Append(log, Membership(Cardinality(members) - 1))

(* sendMessages with the window as it is now, and exit by Bye when this    *)
(* process and all others have finished.                                   *)
callSendMessages(p, w) ==
    LET batch == sendMessages(p, w, message_index[p]) IN
    /\ message_index' = [message_index EXCEPT ![p] = @ + Len(batch)]
    /\ outbox' = [outbox EXCEPT ![p] = @ \o batch]
    /\ IF w[p].FIN /\ AllFinished(w)
       THEN status' = [status EXCEPT ![p] = "exited"] /\ leaveGroup
       ELSE UNCHANGED <<status, log>>

arrives(p, type) ==
    /\ status[p] = "in"
    /\ pos[p] < Len(log)
    /\ log[pos[p] + 1].type = type
    /\ pos' = [pos EXCEPT ![p] = @ + 1]

(* Read_message with a message of a process of the job.                    *)
ReceiveRegular(p) ==
    /\ arrives(p, "regular")
    /\ LET w == deliverMessage(global_window[p], log[pos[p] + 1]) IN
       /\ global_window' = [global_window EXCEPT ![p] = w]
       /\ callSendMessages(p, w)

(* Read_message with a membership message of the full group: the transfer  *)
(* starts.                                                                 *)
ReceiveFullMembership(p) ==
    /\ arrives(p, "membership")
    /\ log[pos[p] + 1].num_groups = num_procs
    /\ callSendMessages(p, global_window[p])
    /\ UNCHANGED global_window

(* Read_message with any other membership message: it is only printed.     *)
ReceiveMembership(p) ==
    /\ arrives(p, "membership")
    /\ log[pos[p] + 1].num_groups # num_procs
    /\ UNCHANGED <<message_index, global_window, status, outbox, log>>

(* SP_receive or SP_multicast fails, or the process is killed: it exits,   *)
(* what Spread has not ordered is lost, and the group shrinks.             *)
Fail(p) ==
    /\ status[p] = "in"
    /\ Cardinality({q \in Procs : status[q] = "failed"}) < MaxFails
    /\ status' = [status EXCEPT ![p] = "failed"]
    /\ outbox' = [outbox EXCEPT ![p] = <<>>]
    /\ leaveGroup
    /\ UNCHANGED <<message_index, global_window, pos>>

Receive(p) == ReceiveRegular(p) \/ ReceiveFullMembership(p) \/ ReceiveMembership(p)

Next == \E p \in Procs : Join(p) \/ Order(p) \/ Receive(p) \/ Fail(p)

(* Every process is started, Spread orders what it is given, and the event *)
(* loop of every process reads what has arrived.                           *)
Fairness == \A p \in Procs : /\ WF_vars(Join(p))
                             /\ WF_vars(Order(p))
                             /\ WF_vars(Receive(p))

Spec == Init /\ [][Next]_vars

FairSpec == Spec /\ Fairness

-----------------------------------------------------------------------------
(* The state of the job: messages sent without the FIN, and received.      *)
numSent == [p \in Procs |-> IF message_index[p] < NumMessages[p]
                            THEN message_index[p] + 1 ELSE NumMessages[p]]
numReceived == [q \in Procs |-> [p \in Procs |-> global_window[q][p].seq_num + 1]]
exited == {p \in Procs : status[p] = "exited"}

Job == INSTANCE MulticastJob
         WITH sent <- numSent, got <- numReceived, left <- exited

-----------------------------------------------------------------------------
(* Types of the variables; nobody sends more than its messages and one     *)
(* FIN.                                                                    *)
TypeOK ==
    /\ message_index \in [Procs -> Nat \cup {-1}]
    /\ \A p \in Procs : message_index[p] <= NumMessages[p]
    /\ global_window \in [Procs -> Windows]
    /\ status \in [Procs -> {"out", "in", "exited", "failed"}]
    /\ outbox \in [Procs -> Seq(Regular)]
    /\ log \in Seq(Regular \cup Memberships)
    /\ pos \in [Procs -> Nat]

(* No process is far behind: while two processes have not seen each other  *)
(* finish, neither has sent more than two windows beyond what the other    *)
(* has received, although a process only knows what it has received        *)
(* itself.  This bounds what Spread must hold for a slow process.          *)
SlowReaderBounded ==
    \A p, q \in Procs :
        (~global_window[p][q].FIN /\ ~global_window[q][p].FIN)
            => numSent[p] <= numReceived[q][p] + 2 * Window

(* A job in which nobody fails: every process receives all messages of     *)
(* everyone in order, and leaves only then.                                *)
ImplementsMulticastJob == Job!Spec

(* If no process fails, all exit: nobody waits for ever for a window to    *)
(* open or for a FIN.                                                      *)
AllExit == ([](\A p \in Procs : status[p] # "failed"))
             => <>(\A p \in Procs : status[p] = "exited")
=============================================================================
