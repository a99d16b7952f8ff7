--------------------------- MODULE MCMailServer ---------------------------
(***************************************************************************)
(* Small instances of the mail servers for TLC.                            *)
(***************************************************************************)
EXTENDS MailServer

(* A state every deployment passes through: all servers are up and         *)
(* connected, have exchanged their empty matrices, and a client of server  *)
(* 1 has created the users' accounts with updates that all have applied.   *)
MCUsers == {"ann"}

seedUpdate == [procID |-> 1, index |-> 0, type |-> "NEWUSERMSG", user |-> "ann",
               mail |-> [procID |-> 1, index |-> 0]]

ConnectedInit ==
    /\ local_state =
         [s \in Servers |->
            [initialState(s) EXCEPT
               !.updateIndex = 0,
               !.latest_update[s][1] = 0,
               !.num_matrix_recvd = NumServers,
               !.buffer = {seedUpdate},
               !.users = {"ann"},
               !.current_membership = Servers]]
    /\ net = [s \in Servers |-> <<>>]
    /\ conn = [s \in Servers |-> Servers]
    /\ changes = MaxChanges
    /\ received = [s \in Servers |-> {seedUpdate}]

(* All servers apart, with a history behind them: after the account of     *)
(* ann, all servers but the last were together and have 1's update <1, 1>, *)
(* while the last one made NumServers - 1 of its own alone; then the       *)
(* others separated.  So server 2 of 3 can meet server 3 first and has to  *)
(* pass on the updates of server 1.                                        *)
again(p, i) == [seedUpdate EXCEPT !.procID = p, !.index = i,
                                  !.mail = [procID |-> p, index |-> i]]

apartHas(s) ==
    {seedUpdate} \cup (IF s = NumServers THEN {again(s, i) : i \in 1 .. NumServers - 1}
                       ELSE {again(1, 1)})

apartVector(s) ==
    [p \in Servers |-> IF p = s /\ s = NumServers THEN NumServers - 1
                       ELSE IF p = 1 THEN IF s = NumServers THEN 0 ELSE 1
                       ELSE -1]

ApartInit ==
    /\ local_state =
         [s \in Servers |->
            [initialState(s) EXCEPT
               !.updateIndex = IF s = NumServers THEN NumServers - 1 ELSE 1,
               !.latest_update =
                  [i \in Servers |->
                     IF i = s THEN apartVector(s)
                     ELSE IF NumServers \notin {i, s} THEN [@[i] EXCEPT ![1] = 0]
                     ELSE @[i]],
               !.buffer = apartHas(s),
               !.users = {"ann"}]]
    /\ net = [s \in Servers |-> <<>>]
    /\ conn = [s \in Servers |-> {s}]
    /\ changes = 0
    /\ received = [s \in Servers |-> apartHas(s)]

ApartSpec == ApartInit /\ [][Next]_vars

FairApartSpec == ApartSpec /\ \A s \in Servers : WF_vars(Receive(s))

(* Servers that merge and split after they were apart, where MaxUpdates    *)
(* leaves no update to make; or one component that stays as it is, whose   *)
(* clients make all of theirs.                                             *)
ApartOrTogetherSpec == (ApartInit \/ ConnectedInit) /\ [][Next]_vars
=============================================================================
