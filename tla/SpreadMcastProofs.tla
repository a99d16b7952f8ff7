------------------------- MODULE SpreadMcastProofs -------------------------
(***************************************************************************)
(* Proofs about SpreadMcast, for any processes, numbers of messages,       *)
(* window and number of failures: its types, the bound on slow readers,    *)
(* and that it implements MulticastJob.                                    *)
(*                                                                         *)
(* The invariant says what the order of Spread holds of every sender (all  *)
(* its numbers from 0 on, each once, rising), what is still to be ordered, *)
(* and that a window describes exactly the prefix that its process has     *)
(* read.                                                                   *)
(***************************************************************************)
EXTENDS SpreadMcast, FiniteSetTheorems, TLAPS

USE ProcsAssumption, NumMessagesAssumption, WindowAssumption, MaxFailsAssumption

(* The messages of p in the order of Spread.                               *)
From(p) == {i \in 1 .. Len(log) : log[i].type = "regular" /\ log[i].proc_num = p}

(* The number of the last message of p that Spread has ordered, as long as *)
(* p has not failed.                                                       *)
ordered(p) == message_index[p] - Len(outbox[p])

(* The number of the message of p that q receives next.                    *)
expected(q, p) == IF global_window[q][p].FIN THEN NumMessages[p] + 1
                  ELSE global_window[q][p].seq_num + 1

(* Nothing is sent before everybody has joined.                            *)
StartedTogether ==
    /\ \A i \in 1 .. Len(log) :
         (log[i].type = "regular" \/ log[i].num_groups = num_procs)
           => \A p \in Procs : status[p] # "out"
    /\ \A p \in Procs : outbox[p] # <<>> => \A q \in Procs : status[q] # "out"

(* What waits in an outbox continues what is ordered.                      *)
OutboxOf(p) ==
    /\ ordered(p) >= -1
    /\ status[p] = "failed" => outbox[p] = <<>>
    /\ \A k \in 1 .. Len(outbox[p]) :
         outbox[p][k] = sendNewMessage(p, ordered(p) + k,
                                       ordered(p) + k = NumMessages[p])

(* The order of Spread holds the messages of a sender without gaps and     *)
(* repetitions, and the FIN is the one after the last message.             *)
LogOf(p) ==
    \A i \in From(p) :
        /\ log[i].seq_num <= message_index[p]
        /\ log[i].FIN <=> log[i].seq_num = NumMessages[p]
        /\ \A t \in 0 .. log[i].seq_num - 1 :
             \E j \in From(p) : j < i /\ log[j].seq_num = t
        /\ \A j \in From(p) : i < j => log[i].seq_num < log[j].seq_num

OrderedOf(p) ==
    status[p] # "failed" =>
        /\ \A i \in From(p) : log[i].seq_num <= ordered(p)
        /\ \A t \in 0 .. ordered(p) : \E i \in From(p) : log[i].seq_num = t

(* The window of q about p is what q has read of p.                        *)
ReceptionOf(q, p) ==
    /\ global_window[q][p].seq_num <= NumMessages[p] - 1
    /\ global_window[q][p].FIN => global_window[q][p].seq_num = NumMessages[p] - 1
    /\ global_window[q][p].seq_num <= message_index[p]
    /\ status[p] # "failed" => expected(q, p) <= ordered(p) + 1
    /\ \A i \in From(p) : i <= pos[q] <=> log[i].seq_num < expected(q, p)

(* p is at most a window ahead of what it has received of q.               *)
WindowOf(p, q) ==
    ~global_window[p][q].FIN => numSent[p] <= numReceived[p][q] + Window

Inv ==
    /\ TypeOK
    /\ \A q \in Procs : pos[q] <= Len(log)
    /\ StartedTogether
    /\ \A p \in Procs : OutboxOf(p) /\ LogOf(p) /\ OrderedOf(p)
    /\ \A q, p \in Procs : ReceptionOf(q, p) /\ WindowOf(q, p)

-----------------------------------------------------------------------------
(* What one call of sendMessages sends: numbers that go on from idx, not   *)
(* beyond the FIN, and except for the FIN inside the window.               *)
IsBatch(p, w, idx, b) ==
    /\ b \in Seq(Regular)
    /\ idx + Len(b) <= NumMessages[p]
    /\ \A k \in 1 .. Len(b) :
         b[k] = sendNewMessage(p, idx + k, idx + k = NumMessages[p])
    /\ w[p].FIN => b = <<>>
    /\ \/ Len(b) = 0
       \/ idx + Len(b) = NumMessages[p] /\ Len(b) = 1
       \/ /\ idx + Len(b) < NumMessages[p]
          /\ \A q \in Procs : w[q].FIN \/ idx + Len(b) <= w[q].seq_num + Window

LEMMA BatchFacts ==
  ASSUME NEW p \in Procs, NEW w \in Windows, NEW idx \in Nat \cup {-1},
         idx <= NumMessages[p]
  PROVE  IsBatch(p, w, idx, sendMessages(p, w, idx))
<1> DEFINE n == numToSend(p, w, idx)
<1>0. NumMessages[p] \in Nat /\ Window \in Nat
  OBVIOUS
<1>1. \A b \in Int : (\A k \in 1 .. Window :
                        (idx + k <= NumMessages[p] - 1 /\ inWindow(w, idx + k)) => idx + k <= b)
        => n \in Nat /\ (n > 0 => idx + n <= b)
  <2> SUFFICES ASSUME NEW b \in Int,
                      \A k \in 1 .. Window :
                        (idx + k <= NumMessages[p] - 1 /\ inWindow(w, idx + k)) => idx + k <= b
               PROVE  n \in Nat /\ (n > 0 => idx + n <= b)
    OBVIOUS
  <2> DEFINE S == {k \in 1 .. Window : /\ idx + k <= NumMessages[p] - 1
                                       /\ inWindow(w, idx + k)}
  <2>1. S \in SUBSET (1 .. b - idx)
    <3> SUFFICES ASSUME NEW k \in S PROVE k \in 1 .. b - idx
      OBVIOUS
    <3>1. k \in 1 .. Window /\ idx + k <= b
      OBVIOUS
    <3> QED BY <3>1, <1>0
  <2>2. IsFiniteSet(1 .. b - idx) /\ Cardinality(1 .. b - idx) = IF 1 > b - idx THEN 0 ELSE b - idx
    <3>1. b - idx \in Int /\ 1 \in Int
      OBVIOUS
    <3>2. IsFiniteSet(1 .. b - idx) /\ Cardinality(1 .. b - idx) = IF 1 > b - idx THEN 0 ELSE (b - idx) - 1 + 1
      BY <3>1, FS_Interval
    <3> QED BY <3>1, <3>2
  <2>3. IsFiniteSet(S) /\ Cardinality(S) <= Cardinality(1 .. b - idx)
    BY <2>1, <2>2, FS_Subset
  <2>4. Cardinality(S) \in Nat
    BY <2>3, FS_CardinalityType
  <2>5. n = Cardinality(S)
    BY DEF numToSend
  <2> HIDE DEF S, n
  <2> QED BY <2>2, <2>3, <2>4, <2>5
<1>2. n \in Nat /\ (n > 0 => idx + n <= NumMessages[p] - 1)
  <2>1. NumMessages[p] - 1 \in Int
    OBVIOUS
  <2> QED BY <1>1, <2>1
<1>3. ASSUME NEW q \in Procs, ~w[q].FIN
      PROVE  n > 0 => idx + n <= w[q].seq_num + Window
  <2>1. w[q].seq_num + Window \in Int
    BY DEF Windows
  <2>2. \A k \in 1 .. Window : inWindow(w, idx + k) => idx + k <= w[q].seq_num + Window
    BY <1>3 DEF inWindow
  <2> QED BY <1>1, <2>1, <2>2
<1> DEFINE b == sendMessages(p, w, idx)
<1> HIDE DEF n
<1>4. CASE w[p].FIN
  <2>1. b = <<>>
    BY <1>4 DEF sendMessages
  <2> QED BY <2>1 DEF IsBatch
<1>5. CASE ~w[p].FIN /\ idx = NumMessages[p] - 1
  <2> DEFINE m == sendNewMessage(p, idx + 1, TRUE)
  <2>1. b = <<m>>
    BY <1>5 DEF sendMessages
  <2>2. m \in Regular
    BY <1>5 DEF sendNewMessage, Regular
  <2>3. idx + 1 = NumMessages[p]
    BY <1>5
  <2>4. m = sendNewMessage(p, idx + 1, idx + 1 = NumMessages[p])
    BY <2>3
  <2> HIDE DEF b, m
  <2>5. b \in Seq(Regular) /\ Len(b) = 1 /\ b[1] = m
    BY <2>1, <2>2
  <2>6. \A k \in 1 .. Len(b) : b[k] = sendNewMessage(p, idx + k, idx + k = NumMessages[p])
    BY <2>4, <2>5
  <2>7. IsBatch(p, w, idx, b)
    BY <2>3, <2>5, <2>6, <1>5 DEF IsBatch
  <2> QED BY <2>7 DEF b
<1>6. CASE ~w[p].FIN /\ idx # NumMessages[p] - 1
  <2>1. b = [k \in 1 .. n |-> sendNewMessage(p, idx + k, FALSE)]
    BY <1>6 DEF sendMessages, n
  <2>2. \A k \in 1 .. n : /\ sendNewMessage(p, idx + k, FALSE) \in Regular
                          /\ (idx + k = NumMessages[p]) = FALSE
    <3> TAKE k \in 1 .. n
    <3>1. idx + k \in Nat /\ idx + k <= NumMessages[p] - 1
      BY <1>2
    <3> QED BY <3>1 DEF sendNewMessage, Regular
  <2> HIDE DEF b
  <2>3. b \in [1 .. n -> Regular]
    BY <2>1, <2>2
  <2>4. b \in Seq(Regular) /\ Len(b) = n
    BY <2>3, <1>2
  <2>5. \A k \in 1 .. Len(b) : b[k] = sendNewMessage(p, idx + k, idx + k = NumMessages[p])
    BY <2>1, <2>2, <2>4
  <2>6. idx + n <= NumMessages[p] /\ (n = 0 \/ idx + n < NumMessages[p])
    BY <1>2
  <2>7. n = 0 \/ \A q \in Procs : w[q].FIN \/ idx + n <= w[q].seq_num + Window
    BY <1>2, <1>3
  <2>8. IsBatch(p, w, idx, b)
    BY <2>4, <2>5, <2>6, <2>7, <1>6 DEF IsBatch
  <2> QED BY <2>8 DEF b
<1> QED BY <1>4, <1>5, <1>6

-----------------------------------------------------------------------------
(* The group and what Spread says of its size.                             *)
LEMMA GroupSize ==
  ASSUME TypeOK
  PROVE  /\ num_procs \in Nat
         /\ IsFiniteSet(members)
         /\ Cardinality(members) \in Nat
         /\ Cardinality(members) <= num_procs
         /\ members # {} => Cardinality(members) - 1 \in Nat
         /\ \A p \in Procs : status[p] = "out" =>
              (Cardinality(members) + 1 = num_procs => members = Procs \ {p})
<1>1. members \in SUBSET Procs
  BY DEF members
<1>2. /\ num_procs \in Nat /\ IsFiniteSet(members)
      /\ Cardinality(members) \in Nat /\ Cardinality(members) <= num_procs
  BY <1>1, FS_Subset, FS_CardinalityType DEF num_procs
<1>3. members # {} => Cardinality(members) # 0
  BY <1>2, FS_EmptySet
<1>4. ASSUME NEW p \in Procs, status[p] = "out", Cardinality(members) + 1 = num_procs
      PROVE  members = Procs \ {p}
  <2>1. members \in SUBSET (Procs \ {p})
    BY <1>4 DEF members
  <2>2. IsFiniteSet(Procs \ {p}) /\ Cardinality(Procs \ {p}) = num_procs - 1
    BY FS_RemoveElement DEF num_procs
  <2>3. Cardinality(members) = Cardinality(Procs \ {p})
    BY <1>2, <1>4, <2>2
  <2> QED BY <2>1, <2>2, <2>3, FS_Subset
<1> QED BY <1>2, <1>3, <1>4

(* A process of the group that stops reading leaves a type-correct log,    *)
(* and a smaller group.                                                    *)
LEMMA LeaveTypes ==
  ASSUME TypeOK, NEW p \in Procs, status[p] = "in", leaveGroup
  PROVE  \E n \in Nat : n < num_procs /\ log' = Append(log, Membership(n))
<1>1. members # {}
  BY DEF members
<1> QED BY <1>1, GroupSize DEF leaveGroup

LEMMA CallTypes ==
  ASSUME TypeOK, NEW p \in Procs, status[p] = "in", NEW w \in Windows,
         callSendMessages(p, w)
  PROVE  /\ message_index' \in [Procs -> Nat \cup {-1}]
         /\ \A q \in Procs : message_index'[q] <= NumMessages[q]
         /\ outbox' \in [Procs -> Seq(Regular)]
         /\ status' \in [Procs -> {"out", "in", "exited", "failed"}]
         /\ log' \in Seq(Regular \cup Memberships)
<1> DEFINE b == sendMessages(p, w, message_index[p])
<1>1. message_index[p] \in Nat \cup {-1} /\ message_index[p] <= NumMessages[p]
  BY DEF TypeOK
<1>2. IsBatch(p, w, message_index[p], b)
  BY <1>1, BatchFacts
<1>3. /\ message_index' = [message_index EXCEPT ![p] = message_index[p] + Len(b)]
      /\ outbox' = [outbox EXCEPT ![p] = outbox[p] \o b]
      /\ \/ status' = [status EXCEPT ![p] = "exited"] /\ leaveGroup
         \/ UNCHANGED <<status, log>>
  BY DEF callSendMessages
<1> HIDE DEF b
<1>4. b \in Seq(Regular) /\ Len(b) \in Nat /\ message_index[p] + Len(b) <= NumMessages[p]
  BY <1>2 DEF IsBatch
<1>5. message_index[p] + Len(b) \in Nat \cup {-1}
  BY <1>1, <1>4
<1>6. outbox[p] \o b \in Seq(Regular)
  BY <1>4 DEF TypeOK
<1>7. log' \in Seq(Regular \cup Memberships)
  <2>1. CASE leaveGroup
    <3>1. PICK n \in Nat : log' = Append(log, Membership(n))
      BY <2>1, LeaveTypes
    <3>2. Membership(n) \in Memberships
      BY DEF Membership, Memberships
    <3> QED BY <3>1, <3>2 DEF TypeOK
  <2>2. CASE UNCHANGED log
    BY <2>2 DEF TypeOK
  <2> QED BY <1>3, <2>1, <2>2
<1> QED BY <1>3, <1>4, <1>5, <1>6, <1>7 DEF TypeOK

(* A message that arrives, and the window after it.                        *)
LEMMA ArrivalTypes ==
  ASSUME TypeOK, NEW p \in Procs, arrives(p, "regular")
  PROVE  /\ log[pos[p] + 1] \in Regular
         /\ deliverMessage(global_window[p], log[pos[p] + 1]) \in Windows
<1> DEFINE m == log[pos[p] + 1]
           w == global_window[p]
<1>1. pos[p] + 1 \in 1 .. Len(log) /\ m.type = "regular"
  BY DEF TypeOK, arrives
<1>2. m \in Regular \cup Memberships
  BY <1>1 DEF TypeOK
<1>3. m \in Regular
  BY <1>1, <1>2 DEF Memberships
<1>4. w \in Windows
  BY DEF TypeOK
<1> HIDE DEF m, w
<1>5. m.proc_num \in Procs /\ m.seq_num \in Nat
  BY <1>3 DEF Regular
<1>6. deliverMessage(w, m) \in Windows
  BY <1>4, <1>5 DEF deliverMessage, Windows
<1> QED BY <1>3, <1>6 DEF m, w

(* The types hold, and nobody sends more than its messages and one FIN.    *)
THEOREM TypeCorrect == Spec => []TypeOK
<1>1. Init => TypeOK
  BY DEF Init, TypeOK, Windows
<1>2. TypeOK /\ [Next]_vars => TypeOK'
  <2> SUFFICES ASSUME TypeOK, [Next]_vars PROVE TypeOK'
    OBVIOUS
  <2>1. ASSUME NEW p \in Procs, Join(p) PROVE TypeOK'
    <3>1. Membership(Cardinality(members) + 1) \in Memberships
      BY GroupSize DEF Membership, Memberships
    <3> QED BY <2>1, <3>1 DEF Join, TypeOK
  <2>2. ASSUME NEW p \in Procs, Order(p) PROVE TypeOK'
    <3>1. Head(outbox[p]) \in Regular /\ Tail(outbox[p]) \in Seq(Regular)
      BY <2>2 DEF Order, TypeOK
    <3> QED BY <2>2, <3>1 DEF Order, TypeOK
  <2>3. ASSUME NEW p \in Procs, ReceiveRegular(p) PROVE TypeOK'
    <3> DEFINE w == deliverMessage(global_window[p], log[pos[p] + 1])
    <3>1. w \in Windows
      BY <2>3, ArrivalTypes DEF ReceiveRegular
    <3>2. status[p] = "in" /\ pos' = [pos EXCEPT ![p] = pos[p] + 1]
      BY <2>3 DEF ReceiveRegular, arrives
    <3>3. global_window' = [global_window EXCEPT ![p] = w] /\ callSendMessages(p, w)
      BY <2>3 DEF ReceiveRegular
    <3> HIDE DEF w
    <3>4. global_window' \in [Procs -> Windows] /\ pos' \in [Procs -> Nat]
      BY <3>1, <3>2, <3>3 DEF TypeOK
    <3> QED BY <3>1, <3>2, <3>3, <3>4, CallTypes DEF TypeOK
  <2>4. ASSUME NEW p \in Procs, ReceiveFullMembership(p) PROVE TypeOK'
    <3>1. /\ status[p] = "in" /\ pos' = [pos EXCEPT ![p] = pos[p] + 1]
          /\ global_window' = global_window
          /\ callSendMessages(p, global_window[p])
      BY <2>4 DEF ReceiveFullMembership, arrives
    <3>2. global_window[p] \in Windows
      BY DEF TypeOK
    <3> QED BY <3>1, <3>2, CallTypes DEF TypeOK
  <2>5. ASSUME NEW p \in Procs, ReceiveMembership(p) PROVE TypeOK'
    BY <2>5 DEF ReceiveMembership, arrives, TypeOK
  <2>6. ASSUME NEW p \in Procs, Fail(p) PROVE TypeOK'
    <3>1. status[p] = "in" /\ leaveGroup
      BY <2>6 DEF Fail
    <3>2. PICK n \in Nat : log' = Append(log, Membership(n))
      BY <3>1, LeaveTypes
    <3>3. Membership(n) \in Memberships
      BY DEF Membership, Memberships
    <3> QED BY <2>6, <3>2, <3>3 DEF Fail, TypeOK
  <2>7. CASE UNCHANGED vars
    BY <2>7 DEF vars, TypeOK
  <2> QED BY <2>1, <2>2, <2>3, <2>4, <2>5, <2>6, <2>7 DEF Next, Receive
<1> QED BY <1>1, <1>2, PTL DEF Spec

-----------------------------------------------------------------------------
(* A step that adds nothing but membership messages to the log.            *)
LogQuiet ==
    /\ Len(log') \in Nat /\ Len(log) <= Len(log')
    /\ \A i \in 1 .. Len(log) : log'[i] = log[i]
    /\ \A i \in 1 .. Len(log') : i > Len(log) => log'[i].type = "membership"
    /\ \A p \in Procs : From(p)' = From(p)

LEMMA QuietSteps ==
  ASSUME TypeOK, log' = log \/ \E n \in Nat : log' = Append(log, Membership(n))
  PROVE  LogQuiet
<1>1. Len(log) \in Nat
  BY DEF TypeOK
<1>2. CASE log' = log
  BY <1>1, <1>2 DEF LogQuiet, From
<1>3. ASSUME NEW n \in Nat, log' = Append(log, Membership(n)) PROVE LogQuiet
  <2>1. /\ Len(log') = Len(log) + 1
        /\ \A i \in 1 .. Len(log) : log'[i] = log[i]
        /\ log'[Len(log) + 1] = Membership(n)
    BY <1>3 DEF TypeOK
  <2>2. Membership(n).type = "membership"
    BY DEF Membership
  <2>3. \A i \in 1 .. Len(log') : i > Len(log) => log'[i].type = "membership"
    BY <1>1, <2>1, <2>2
  <2>4. ASSUME NEW p \in Procs PROVE From(p)' = From(p)
    BY <1>1, <2>1, <2>3 DEF From
  <2> QED BY <1>1, <2>1, <2>3, <2>4 DEF LogQuiet
<1> QED BY <1>2, <1>3

(* Numbers of the messages in the log are numbers.                         *)
LEMMA FromTypes ==
  ASSUME TypeOK, NEW p \in Procs, NEW i \in From(p)
  PROVE  /\ i \in 1 .. Len(log)
         /\ log[i] \in Regular
         /\ log[i].seq_num \in Nat
<1>1. i \in 1 .. Len(log) /\ log[i].type = "regular"
  BY DEF From
<1>2. log[i] \in Regular \cup Memberships
  BY <1>1 DEF TypeOK
<1> QED BY <1>1, <1>2 DEF Regular, Memberships

LEMMA QuietKeepsLog ==
  ASSUME TypeOK, TypeOK', LogQuiet, NEW p \in Procs,
         LogOf(p), message_index[p] <= message_index'[p]
  PROVE  LogOf(p)'
<1>1. message_index[p] \in Int /\ message_index'[p] \in Int
  BY DEF TypeOK
<1>2. From(p)' = From(p) /\ \A i \in From(p) : log'[i] = log[i] /\ log[i].seq_num \in Nat
  BY FromTypes DEF LogQuiet
<1>3. SUFFICES ASSUME NEW i \in From(p)
               PROVE  /\ log[i].seq_num <= message_index'[p]
                      /\ log[i].FIN <=> log[i].seq_num = NumMessages[p]
                      /\ \A t \in 0 .. log[i].seq_num - 1 :
                           \E j \in From(p) : j < i /\ log[j].seq_num = t
                      /\ \A j \in From(p) : i < j => log[i].seq_num < log[j].seq_num
  BY <1>2 DEF LogOf
<1> QED BY <1>1, <1>2 DEF LogOf

LEMMA QuietKeepsOrdered ==
  ASSUME TypeOK, LogQuiet, NEW p \in Procs, OrderedOf(p),
         status'[p] # "failed" => status[p] # "failed" /\ ordered(p)' = ordered(p)
  PROVE  OrderedOf(p)'
<1>1. From(p)' = From(p) /\ \A i \in From(p) : log'[i] = log[i]
  BY FromTypes DEF LogQuiet
<1> QED BY <1>1 DEF OrderedOf

(* Reception is kept as long as window and position are.                   *)
LEMMA QuietKeepsReception ==
  ASSUME TypeOK, TypeOK', LogQuiet, NEW q \in Procs, NEW p \in Procs,
         ReceptionOf(q, p), message_index[p] <= message_index'[p],
         status'[p] # "failed" => status[p] # "failed" /\ ordered(p)' = ordered(p),
         global_window'[q][p] = global_window[q][p],
         \A i \in From(p) : i <= pos'[q] <=> i <= pos[q]
  PROVE  ReceptionOf(q, p)'
<1>1. From(p)' = From(p) /\ \A i \in From(p) : log'[i] = log[i]
  BY FromTypes DEF LogQuiet
<1>2. expected(q, p)' = expected(q, p)
  BY DEF expected
<1>3. /\ message_index[p] \in Int /\ message_index'[p] \in Int
      /\ global_window[q][p].seq_num \in Int
  BY DEF TypeOK, Windows
<1> QED BY <1>1, <1>2, <1>3 DEF ReceptionOf

-----------------------------------------------------------------------------
(* What every call of sendMessages keeps.                                  *)
LEMMA CallKeeps ==
  ASSUME Inv, TypeOK', NEW p \in Procs, status[p] = "in", NEW w \in Windows,
         callSendMessages(p, w), \A q \in Procs : status[q] # "out"
  PROVE  /\ LogQuiet /\ StartedTogether'
         /\ \A r \in Procs : /\ message_index[r] <= message_index'[r]
                             /\ ordered(r)' = ordered(r)
                             /\ status'[r] = "failed" <=> status[r] = "failed"
                             /\ OutboxOf(r)' /\ LogOf(r)' /\ OrderedOf(r)'
<1> DEFINE b == sendMessages(p, w, message_index[p])
<1>0. TypeOK
  BY DEF Inv
<1>1. IsBatch(p, w, message_index[p], b)
  BY <1>0, BatchFacts DEF TypeOK
<1>2. /\ message_index' = [message_index EXCEPT ![p] = message_index[p] + Len(b)]
      /\ outbox' = [outbox EXCEPT ![p] = outbox[p] \o b]
      /\ \/ status' = [status EXCEPT ![p] = "exited"] /\ leaveGroup
         \/ UNCHANGED <<status, log>>
  BY DEF callSendMessages
<1> HIDE DEF b
<1>3. b \in Seq(Regular) /\ Len(b) \in Nat
  BY <1>1 DEF IsBatch
<1>4. \A r \in Procs : status'[r] # "out" /\ (status'[r] = "failed" <=> status[r] = "failed")
  BY <1>0, <1>2 DEF TypeOK
<1>5. LogQuiet
  BY <1>0, <1>2, LeaveTypes, QuietSteps
<1>6. ASSUME NEW r \in Procs
      PROVE  /\ message_index[r] <= message_index'[r]
             /\ ordered(r)' = ordered(r)
             /\ OutboxOf(r)'
  <2>1. /\ message_index[r] \in Int
        /\ outbox[r] \in Seq(Regular) /\ Len(outbox[r]) \in Nat
    BY <1>0 DEF TypeOK
  <2>2. OutboxOf(r)
    BY DEF Inv
  <2>3. CASE r # p
    <3>1. message_index'[r] = message_index[r] /\ outbox'[r] = outbox[r]
      BY <1>0, <1>2, <2>3 DEF TypeOK
    <3>2. ordered(r)' = ordered(r)
      BY <3>1 DEF ordered
    <3> QED BY <2>1, <2>2, <3>1, <3>2, <1>4 DEF OutboxOf
  <2>4. CASE r = p
    <3>1. message_index'[p] = message_index[p] + Len(b) /\ outbox'[p] = outbox[p] \o b
      BY <1>0, <1>2 DEF TypeOK
    <3>2. /\ Len(outbox[p] \o b) = Len(outbox[p]) + Len(b)
          /\ \A k \in 1 .. Len(outbox[p]) : (outbox[p] \o b)[k] = outbox[p][k]
          /\ \A k \in 1 .. Len(outbox[p]) + Len(b) : k > Len(outbox[p])
               => (outbox[p] \o b)[k] = b[k - Len(outbox[p])]
      BY <1>3, <2>1, <2>4
    <3>3. ordered(p)' = ordered(p) /\ ordered(p) \in Int
      BY <1>3, <2>1, <2>4, <3>1, <3>2 DEF ordered
    <3>4. ASSUME NEW k \in 1 .. Len(outbox[p]) + Len(b)
          PROVE  (outbox[p] \o b)[k] = sendNewMessage(p, ordered(p) + k,
                                                      ordered(p) + k = NumMessages[p])
      <4>1. CASE k <= Len(outbox[p])
        BY <2>1, <2>2, <2>4, <3>2, <4>1 DEF OutboxOf
      <4>2. CASE k > Len(outbox[p])
        <5>1. k - Len(outbox[p]) \in 1 .. Len(b)
          BY <1>3, <2>1, <2>4, <4>2
        <5>2. message_index[p] + (k - Len(outbox[p])) = ordered(p) + k
          BY <2>1, <2>4 DEF ordered
        <5> QED BY <1>1, <3>2, <4>2, <5>1, <5>2 DEF IsBatch
      <4> QED BY <2>1, <2>4, <4>1, <4>2
    <3>5. status'[p] # "failed"
      BY <1>4
    <3>6. OutboxOf(p)'
      BY <2>2, <2>4, <3>1, <3>2, <3>3, <3>4, <3>5 DEF OutboxOf
    <3> QED BY <1>3, <2>1, <2>4, <3>1, <3>3, <3>6
  <2> QED BY <2>3, <2>4
<1>7. \A r \in Procs : LogOf(r)' /\ OrderedOf(r)'
  BY <1>0, <1>4, <1>5, <1>6, QuietKeepsLog, QuietKeepsOrdered DEF Inv
<1>8. StartedTogether'
  BY <1>4 DEF StartedTogether
<1> QED BY <1>4, <1>5, <1>6, <1>7, <1>8

-----------------------------------------------------------------------------
(* The message that arrives is the one expected of its sender.             *)
LEMMA ArrivesInOrder ==
  ASSUME Inv, NEW p \in Procs, arrives(p, "regular")
  PROVE  LET i == pos[p] + 1 r == log[i].proc_num IN
         /\ r \in Procs /\ i \in From(r)
         /\ ~global_window[p][r].FIN
         /\ log[i].seq_num = expected(p, r)
<1> DEFINE i == pos[p] + 1
           m == log[i]
           r == m.proc_num
<1>0. TypeOK
  BY DEF Inv
<1>1. m \in Regular /\ i \in 1 .. Len(log) /\ m.type = "regular" /\ pos[p] \in Nat
  <2>1. pos[p] \in Nat /\ Len(log) \in Nat
    BY <1>0 DEF TypeOK
  <2>2. pos[p] < Len(log) /\ m.type = "regular"
    BY DEF arrives
  <2>3. m \in Regular
    BY <1>0, ArrivalTypes
  <2> HIDE DEF m
  <2> QED BY <2>1, <2>2, <2>3
<1>2. r \in Procs /\ m.seq_num \in Nat
  BY <1>1 DEF Regular
<1>3. i \in From(r)
  BY <1>1, <1>2 DEF From
<1>4. LogOf(r) /\ ReceptionOf(p, r)
  BY <1>2 DEF Inv
<1>5. expected(p, r) \in Nat
  BY <1>0, <1>2 DEF expected, TypeOK, Windows
<1>6. ~(i <= pos[p])
  BY <1>1
<1> HIDE DEF i, m, r
<1>7. log[i] = m
  BY DEF m
<1>8. expected(p, r) <= m.seq_num
  BY <1>2, <1>3, <1>4, <1>5, <1>6, <1>7 DEF ReceptionOf
<1>9. ~(expected(p, r) < m.seq_num)
  <2> SUFFICES ASSUME expected(p, r) < m.seq_num PROVE FALSE
    OBVIOUS
  <2>1. PICK j \in From(r) : j < i /\ log[j].seq_num = expected(p, r)
    BY <1>2, <1>3, <1>4, <1>5, <1>7 DEF LogOf
  <2>2. j \in 1 .. Len(log)
    BY <2>1 DEF From
  <2>3. j <= pos[p]
    BY <1>1, <2>1, <2>2 DEF i
  <2> QED BY <1>4, <1>5, <2>1, <2>3 DEF ReceptionOf
<1>10. m.seq_num = expected(p, r)
  BY <1>2, <1>5, <1>8, <1>9
<1>11. ~global_window[p][r].FIN
  <2> SUFFICES ASSUME global_window[p][r].FIN PROVE FALSE
    OBVIOUS
  <2>1. m.seq_num = NumMessages[r] + 1
    BY <1>10 DEF expected
  <2>2. m.seq_num <= message_index[r]
    BY <1>3, <1>4, <1>7 DEF LogOf
  <2>3. message_index[r] \in Int /\ message_index[r] <= NumMessages[r] /\ NumMessages[r] \in Nat
    BY <1>0, <1>2 DEF TypeOK
  <2> QED BY <2>1, <2>2, <2>3
<1> QED BY <1>2, <1>3, <1>10, <1>11 DEF m, r, i

(* How a message moves the window: one number on, or the FIN.              *)
LEMMA DeliveryMoves ==
  ASSUME Inv, NEW p \in Procs, arrives(p, "regular")
  PROVE  LET i == pos[p] + 1
             r == log[i].proc_num
             w == deliverMessage(global_window[p], log[i])
         IN
         /\ \A q \in Procs : q # r => w[q] = global_window[p][q]
         /\ \/ /\ log[i].FIN /\ log[i].seq_num = NumMessages[r]
               /\ w[r].FIN
               /\ w[r].seq_num = global_window[p][r].seq_num
               /\ w[r].seq_num = NumMessages[r] - 1
            \/ /\ ~log[i].FIN /\ log[i].seq_num # NumMessages[r]
               /\ ~w[r].FIN
               /\ w[r].seq_num = global_window[p][r].seq_num + 1
               /\ w[r].seq_num = log[i].seq_num
               /\ w[r].seq_num <= NumMessages[r] - 1
<1> DEFINE i == pos[p] + 1
           m == log[i]
           r == m.proc_num
           g == global_window[p]
           w == deliverMessage(g, m)
<1>0. TypeOK
  BY DEF Inv
<1>1. r \in Procs /\ i \in From(r) /\ ~g[r].FIN /\ m.seq_num = expected(p, r)
  BY ArrivesInOrder
<1>2. LogOf(r)
  BY <1>1 DEF Inv
<1>3. /\ m.FIN <=> m.seq_num = NumMessages[r]
      /\ m.seq_num <= message_index[r]
      /\ m.seq_num \in Nat /\ m \in Regular
  BY <1>0, <1>1, <1>2, FromTypes DEF LogOf
<1>4. message_index[r] \in Int /\ message_index[r] <= NumMessages[r] /\ NumMessages[r] \in Nat
  BY <1>0, <1>1 DEF TypeOK
<1>5. g \in Windows /\ g[r].seq_num \in Int
  BY <1>0, <1>1 DEF TypeOK, Windows
<1>6. m.seq_num = g[r].seq_num + 1
  BY <1>1 DEF expected
<1>7. /\ m.FIN => w = [g EXCEPT ![r].FIN = TRUE]
      /\ ~m.FIN => w = [g EXCEPT ![r].seq_num = m.seq_num]
  BY DEF deliverMessage
<1> HIDE DEF m, r, g, w
<1>8. \A q \in Procs : q # r => w[q] = g[q]
  BY <1>1, <1>5, <1>7 DEF Windows
<1>9. CASE m.FIN
  <2>1. w[r].FIN /\ w[r].seq_num = g[r].seq_num
    BY <1>1, <1>5, <1>7, <1>9 DEF Windows
  <2> QED BY <1>3, <1>5, <1>6, <1>8, <1>9, <2>1 DEF m, r, g, w
<1>10. CASE ~m.FIN
  <2>1. w[r].seq_num = m.seq_num /\ w[r].FIN = g[r].FIN
    BY <1>1, <1>5, <1>7, <1>10 DEF Windows
  <2>2. m.seq_num # NumMessages[r] /\ m.seq_num <= NumMessages[r] - 1
    BY <1>3, <1>4, <1>10
  <2> QED BY <1>1, <1>6, <1>8, <1>10, <2>1, <2>2 DEF m, r, g, w
<1> QED BY <1>9, <1>10

(* A process that sends stays inside the window it sends by.               *)
LEMMA CallKeepsWindow ==
  ASSUME Inv, NEW p \in Procs, status[p] = "in", NEW w \in Windows,
         callSendMessages(p, w),
         global_window'[p] = w,
         \A q \in Procs : /\ w[q].seq_num >= global_window[p][q].seq_num
                          /\ global_window[p][q].FIN => w[q].FIN
  PROVE  \A q \in Procs : WindowOf(p, q)'
<1> DEFINE b == sendMessages(p, w, message_index[p])
<1>0. TypeOK
  BY DEF Inv
<1>1. IsBatch(p, w, message_index[p], b)
  BY <1>0, BatchFacts DEF TypeOK
<1>2. message_index' = [message_index EXCEPT ![p] = message_index[p] + Len(b)]
  BY DEF callSendMessages
<1> HIDE DEF b
<1>3. /\ message_index'[p] = message_index[p] + Len(b)
      /\ message_index[p] \in Int /\ Len(b) \in Nat
      /\ NumMessages[p] \in Nat /\ Window \in Nat
  BY <1>0, <1>1, <1>2 DEF TypeOK, IsBatch
<1> SUFFICES ASSUME NEW q \in Procs, ~w[q].FIN
             PROVE  numSent'[p] <= numReceived'[p][q] + Window
  BY DEF WindowOf
<1>4. numReceived'[p][q] = w[q].seq_num + 1 /\ numReceived[p][q] = global_window[p][q].seq_num + 1
  BY DEF numReceived
<1>5. w[q].seq_num \in Int /\ global_window[p][q].seq_num \in Int
  BY <1>0 DEF TypeOK, Windows
<1>6. /\ numSent[p] = IF message_index[p] < NumMessages[p]
                      THEN message_index[p] + 1 ELSE NumMessages[p]
      /\ numSent'[p] = IF message_index[p] + Len(b) < NumMessages[p]
                       THEN message_index[p] + Len(b) + 1 ELSE NumMessages[p]
  BY <1>3 DEF numSent
<1>7. numSent[p] <= numReceived[p][q] + Window
  BY DEF Inv, WindowOf
<1>8. CASE \/ Len(b) = 0
           \/ message_index[p] + Len(b) = NumMessages[p] /\ Len(b) = 1
  <2>1. w[q].seq_num >= global_window[p][q].seq_num
    OBVIOUS
  <2>2. numSent'[p] = numSent[p]
    <3> DEFINE x == message_index[p]
               l == Len(b)
    <3>1. x \in Int /\ l \in Nat /\ NumMessages[p] \in Nat
      BY <1>3
    <3>2. l = 0 \/ (x + l = NumMessages[p] /\ l = 1)
      BY <1>8
    <3> HIDE DEF x, l
    <3>3. (IF x < NumMessages[p] THEN x + 1 ELSE NumMessages[p])
            = (IF x + l < NumMessages[p] THEN x + l + 1 ELSE NumMessages[p])
      BY <3>1, <3>2
    <3> QED BY <1>6, <3>3 DEF x, l
  <2>3. numSent[p] \in Int
    BY <1>3, <1>6
  <2> HIDE DEF numSent, numReceived
  <2> QED BY <1>3, <1>4, <1>5, <1>7, <2>1, <2>2, <2>3
<1>9. CASE /\ message_index[p] + Len(b) < NumMessages[p]
           /\ message_index[p] + Len(b) <= w[q].seq_num + Window
  BY <1>3, <1>4, <1>5, <1>6, <1>9
<1> QED BY <1>1, <1>8, <1>9 DEF IsBatch

-----------------------------------------------------------------------------
(* Every action keeps the invariant.                                       *)

(* Actions that send nothing and move no window.                           *)
LEMMA NothingSent ==
  ASSUME Inv, TypeOK', LogQuiet, UNCHANGED <<message_index, global_window>>,
         \A r \in Procs : status'[r] = "failed" \/
           (status[r] # "failed" /\ outbox'[r] = outbox[r]),
         \A r \in Procs : status'[r] = "failed" => outbox'[r] = <<>>,
         \A q \in Procs : pos'[q] <= Len(log') /\
           \A r \in Procs : \A i \in From(r) : i <= pos'[q] <=> i <= pos[q],
         StartedTogether'
  PROVE  Inv'
<1>0. TypeOK /\ \A r \in Procs : /\ message_index[r] \in Int /\ message_index[r] >= -1
                                  /\ Len(outbox[r]) \in Nat
  BY DEF Inv, TypeOK
<1>1. \A r \in Procs : message_index[r] <= message_index'[r] /\ message_index'[r] = message_index[r]
  BY <1>0
<1>2. \A r \in Procs : status'[r] # "failed" => status[r] # "failed" /\ ordered(r)' = ordered(r)
  BY DEF ordered
<1>3. \A r \in Procs : LogOf(r)' /\ OrderedOf(r)'
  BY <1>0, <1>1, <1>2, QuietKeepsLog, QuietKeepsOrdered DEF Inv
<1>4. \A q, r \in Procs : ReceptionOf(q, r)'
  BY <1>0, <1>1, <1>2, QuietKeepsReception DEF Inv
<1>5. \A q, r \in Procs : WindowOf(q, r)'
  BY DEF Inv, WindowOf, numSent, numReceived
<1>6. ASSUME NEW r \in Procs PROVE OutboxOf(r)'
  <2>1. CASE status'[r] = "failed"
    <3>1. outbox'[r] = <<>> /\ Len(outbox'[r]) = 0
      BY <2>1
    <3>2. message_index'[r] >= -1
      BY <1>0, <1>1
    <3> QED BY <1>0, <1>1, <3>1, <3>2 DEF OutboxOf, ordered
  <2>2. CASE status'[r] # "failed"
    <3>1. ordered(r)' = ordered(r) /\ outbox'[r] = outbox[r]
      BY <1>2, <2>2
    <3> QED BY <2>2, <3>1 DEF Inv, OutboxOf
  <2> QED BY <2>1, <2>2
<1> QED BY <1>3, <1>4, <1>5, <1>6 DEF Inv

LEMMA JoinKeeps ==
  ASSUME Inv, TypeOK', NEW p \in Procs, Join(p)
  PROVE  Inv'
<1>0. TypeOK /\ Len(log) \in Nat /\ StartedTogether
  BY DEF Inv, TypeOK
<1>1. /\ status[p] = "out" /\ status' = [status EXCEPT ![p] = "in"]
      /\ log' = Append(log, Membership(Cardinality(members) + 1))
      /\ pos' = [pos EXCEPT ![p] = Len(log)]
      /\ UNCHANGED <<message_index, global_window, outbox>>
  BY DEF Join
<1>2. Cardinality(members) + 1 \in Nat
  BY <1>0, GroupSize
<1>3. LogQuiet
  BY <1>0, <1>1, <1>2, QuietSteps
<1>4. \A i \in 1 .. Len(log) : log[i].type # "regular" /\ log[i].num_groups # num_procs
  BY <1>0, <1>1 DEF StartedTogether
<1>5. \A r \in Procs : From(r) = {} /\ outbox[r] = <<>>
  BY <1>0, <1>1, <1>4 DEF From, StartedTogether
<1>6. /\ Len(log') = Len(log) + 1
      /\ log'[Len(log) + 1] = Membership(Cardinality(members) + 1)
      /\ \A i \in 1 .. Len(log) : log'[i] = log[i]
  BY <1>0, <1>1 DEF TypeOK
<1>7. StartedTogether'
  <2>1. Cardinality(members) + 1 = num_procs => \A q \in Procs : status'[q] # "out"
    <3>1. Cardinality(members) + 1 = num_procs => members = Procs \ {p}
      BY <1>0, <1>1, GroupSize
    <3> QED BY <1>0, <1>1, <3>1 DEF members, TypeOK
  <2>2. ASSUME NEW i \in 1 .. Len(log'),
               log'[i].type = "regular" \/ log'[i].num_groups = num_procs
        PROVE  \A q \in Procs : status'[q] # "out"
    <3>1. i = Len(log) + 1
      BY <1>0, <1>4, <1>6, <2>2
    <3>2. log'[i].num_groups = Cardinality(members) + 1 /\ log'[i].type # "regular"
      BY <1>6, <3>1 DEF Membership
    <3> QED BY <2>1, <2>2, <3>2
  <2>3. num_procs' = num_procs
    BY DEF num_procs
  <2> QED BY <1>1, <1>5, <2>2, <2>3 DEF StartedTogether
<1>8. \A q \in Procs : pos'[q] <= Len(log')
  BY <1>0, <1>1, <1>6 DEF Inv, TypeOK
<1>9. \A r \in Procs : (status'[r] = "failed" <=> status[r] = "failed") /\ outbox'[r] = outbox[r]
  BY <1>0, <1>1 DEF TypeOK
<1> QED BY <1>0, <1>1, <1>3, <1>5, <1>7, <1>8, <1>9, NothingSent

LEMMA FailKeeps ==
  ASSUME Inv, TypeOK', NEW p \in Procs, Fail(p)
  PROVE  Inv'
<1>0. TypeOK /\ Len(log) \in Nat /\ StartedTogether
  BY DEF Inv, TypeOK
<1>1. /\ status[p] = "in" /\ status' = [status EXCEPT ![p] = "failed"]
      /\ outbox' = [outbox EXCEPT ![p] = <<>>]
      /\ UNCHANGED <<message_index, global_window, pos>>
  BY DEF Fail
<1>2. PICK n \in Nat : n < num_procs /\ log' = Append(log, Membership(n))
  BY <1>0, <1>1, LeaveTypes DEF Fail
<1>3. LogQuiet
  BY <1>0, <1>2, QuietSteps
<1>4. \A r \in Procs : /\ status'[r] = "out" <=> status[r] = "out"
                       /\ outbox'[r] # <<>> => outbox[r] # <<>>
                       /\ r # p => status'[r] = status[r] /\ outbox'[r] = outbox[r]
  BY <1>0, <1>1 DEF TypeOK
<1>5. /\ Len(log') = Len(log) + 1
      /\ log'[Len(log) + 1] = Membership(n)
      /\ \A i \in 1 .. Len(log) : log'[i] = log[i]
  BY <1>0, <1>2 DEF TypeOK
<1>6. num_procs' = num_procs /\ num_procs \in Nat
  BY <1>0, GroupSize DEF num_procs
<1>7. StartedTogether'
  <2>1. Membership(n).num_groups # num_procs /\ Membership(n).type # "regular"
    BY <1>2, <1>6 DEF Membership
  <2>2. ASSUME NEW i \in 1 .. Len(log'),
               log'[i].type = "regular" \/ log'[i].num_groups = num_procs
        PROVE  \A q \in Procs : status'[q] # "out"
    <3>1. i \in 1 .. Len(log) /\ log'[i] = log[i]
      BY <1>0, <1>5, <2>1, <2>2
    <3> QED BY <1>0, <1>4, <2>2, <3>1 DEF StartedTogether
  <2>3. \A r \in Procs : outbox'[r] # <<>> => \A q \in Procs : status'[q] # "out"
    BY <1>0, <1>4 DEF StartedTogether
  <2> QED BY <1>6, <2>2, <2>3 DEF StartedTogether
<1>8. \A q \in Procs : pos'[q] <= Len(log') /\ pos'[q] = pos[q]
  BY <1>0, <1>1, <1>5 DEF Inv, TypeOK
<1>9. \A r \in Procs : status'[r] = "failed" \/
           (status[r] # "failed" /\ outbox'[r] = outbox[r])
  BY <1>0, <1>1, <1>4 DEF TypeOK
<1>10. \A r \in Procs : status'[r] = "failed" => outbox'[r] = <<>>
  <2>1. \A r \in Procs : OutboxOf(r)
    BY DEF Inv
  <2> QED BY <1>0, <1>1, <1>4, <2>1 DEF TypeOK, OutboxOf
<1> QED BY <1>1, <1>3, <1>7, <1>8, <1>9, <1>10, NothingSent

LEMMA ReceiveMembershipKeeps ==
  ASSUME Inv, TypeOK', NEW p \in Procs, ReceiveMembership(p)
  PROVE  Inv'
<1>0. TypeOK /\ Len(log) \in Nat /\ pos[p] \in Nat
  BY DEF Inv, TypeOK
<1>1. /\ log[pos[p] + 1].type = "membership" /\ pos[p] < Len(log)
      /\ pos' = [pos EXCEPT ![p] = pos[p] + 1]
      /\ UNCHANGED <<message_index, global_window, status, outbox, log>>
  BY DEF ReceiveMembership, arrives
<1>2. LogQuiet
  BY <1>0, <1>1, QuietSteps
<1>3. StartedTogether'
  BY <1>1 DEF Inv, StartedTogether, num_procs
<1>4. \A q \in Procs : pos'[q] <= Len(log') /\
           \A r \in Procs : \A i \in From(r) : i <= pos'[q] <=> i <= pos[q]
  <2>1. \A q \in Procs : q # p => pos'[q] = pos[q]
    BY <1>0, <1>1 DEF TypeOK
  <2>2. pos'[p] = pos[p] + 1
    BY <1>0, <1>1 DEF TypeOK
  <2>3. \A r \in Procs : \A i \in From(r) : i # pos[p] + 1 /\ i \in Nat
    BY <1>0, <1>1 DEF From
  <2> QED BY <1>0, <1>1, <2>1, <2>2, <2>3 DEF Inv
<1>5. \A r \in Procs : status[r] = "failed" => outbox[r] = <<>>
  BY DEF Inv, OutboxOf
<1> QED BY <1>1, <1>2, <1>3, <1>4, <1>5, NothingSent

(* Spread orders the next message of p.                                    *)
LEMMA OrderKeeps ==
  ASSUME Inv, TypeOK', NEW p \in Procs, Order(p)
  PROVE  Inv'
<1> DEFINE m == Head(outbox[p])
           s == ordered(p) + 1
           L == Len(log)
<1>0. TypeOK /\ StartedTogether /\ L \in Nat /\ OutboxOf(p)
  BY DEF Inv, TypeOK
<1>1. /\ outbox[p] # <<>> /\ log' = Append(log, m)
      /\ outbox' = [outbox EXCEPT ![p] = Tail(outbox[p])]
      /\ UNCHANGED <<message_index, global_window, status, pos>>
  BY DEF Order
<1>2. /\ outbox[p] \in Seq(Regular) /\ Len(outbox[p]) \in Nat \ {0}
      /\ m = outbox[p][1] /\ Len(Tail(outbox[p])) = Len(outbox[p]) - 1
      /\ \A k \in 1 .. Len(outbox[p]) - 1 : Tail(outbox[p])[k] = outbox[p][k + 1]
  BY <1>0, <1>1 DEF TypeOK
<1>3. /\ message_index[p] \in Int /\ message_index[p] <= NumMessages[p]
      /\ NumMessages[p] \in Nat
  BY <1>0 DEF TypeOK
<1>4. s \in Nat /\ s <= message_index[p]
  BY <1>0, <1>2, <1>3 DEF OutboxOf, ordered
<1>5. m = sendNewMessage(p, s, s = NumMessages[p])
  BY <1>0, <1>2 DEF OutboxOf
<1>6. /\ m.type = "regular" /\ m.proc_num = p /\ m.seq_num = s
      /\ m.FIN <=> s = NumMessages[p]
  <2> DEFINE fin == s = NumMessages[p]
  <2>1. m = sendNewMessage(p, s, fin)
    BY <1>5
  <2> HIDE DEF m, s, fin
  <2>2. m.type = "regular" /\ m.proc_num = p /\ m.seq_num = s /\ m.FIN = fin
    BY <2>1 DEF sendNewMessage
  <2> QED BY <2>2 DEF fin
<1>7. status[p] # "failed"
  BY <1>0, <1>1 DEF OutboxOf
<1>8. /\ outbox'[p] = Tail(outbox[p])
      /\ \A r \in Procs : r # p => outbox'[r] = outbox[r]
  BY <1>0, <1>1 DEF TypeOK
<1> HIDE DEF m
<1>9. /\ Len(log') = L + 1 /\ log'[L + 1] = m
      /\ \A i \in 1 .. L : log'[i] = log[i]
  BY <1>0, <1>1 DEF TypeOK
<1>10. /\ ordered(p)' = s
       /\ \A r \in Procs : r # p => ordered(r)' = ordered(r)
  <2>1. message_index' = message_index /\ Len(outbox'[p]) = Len(outbox[p]) - 1
    BY <1>1, <1>2, <1>8
  <2>2. ordered(p)' = message_index[p] - (Len(outbox[p]) - 1)
    BY <2>1 DEF ordered
  <2>3. ordered(p)' = s
    BY <1>2, <1>3, <2>2 DEF ordered
  <2>4. \A r \in Procs : r # p => ordered(r)' = ordered(r)
    BY <1>8, <2>1 DEF ordered
  <2> QED BY <2>3, <2>4
<1> DEFINE o == ordered(p)
<1>11. o \in Int /\ s = o + 1
  BY <1>2, <1>3 DEF ordered
<1> HIDE DEF s, L, o
<1>12. From(p)' = From(p) \cup {L + 1}
  BY <1>0, <1>6, <1>9 DEF From, L
<1>13. \A r \in Procs : r # p => From(r)' = From(r)
  BY <1>0, <1>6, <1>9 DEF From, L
<1>14. \A r \in Procs : \A i \in From(r) :
         log'[i] = log[i] /\ i \in Nat /\ i <= L /\ log[i].seq_num \in Nat
  BY <1>0, <1>9, FromTypes DEF L
<1>15. LogOf(p) /\ OrderedOf(p)
  BY DEF Inv
<1>16. /\ \A i \in From(p) : log[i].seq_num < s
       /\ \A t \in 0 .. s - 1 : \E i \in From(p) : log[i].seq_num = t
  BY <1>7, <1>11, <1>14, <1>15 DEF OrderedOf, o
<1>17. LogOf(p)'
  <2> SUFFICES ASSUME NEW i \in From(p)'
               PROVE  /\ log'[i].seq_num <= message_index[p]
                      /\ log'[i].FIN <=> log'[i].seq_num = NumMessages[p]
                      /\ \A t \in 0 .. log'[i].seq_num - 1 :
                           \E j \in From(p)' : j < i /\ log'[j].seq_num = t
                      /\ \A j \in From(p)' : i < j => log'[i].seq_num < log'[j].seq_num
    BY <1>1 DEF LogOf
  <2>1. CASE i \in From(p)
    <3>1. /\ log[i].seq_num <= message_index[p]
          /\ log[i].FIN <=> log[i].seq_num = NumMessages[p]
          /\ \A t \in 0 .. log[i].seq_num - 1 :
               \E j \in From(p) : j < i /\ log[j].seq_num = t
          /\ \A j \in From(p) : i < j => log[i].seq_num < log[j].seq_num
      BY <1>15, <2>1 DEF LogOf
    <3>2. log'[i] = log[i]
      BY <1>14, <2>1
    <3>3. \A j \in From(p)' : i < j => log'[i].seq_num < log'[j].seq_num
      BY <1>6, <1>9, <1>12, <1>14, <1>16, <2>1, <3>1, <3>2
    <3>4. \A t \in 0 .. log'[i].seq_num - 1 :
            \E j \in From(p)' : j < i /\ log'[j].seq_num = t
      BY <1>12, <1>14, <3>1, <3>2
    <3> QED BY <3>1, <3>2, <3>3, <3>4
  <2>2. CASE i = L + 1
    <3>1. log'[i] = m
      BY <1>9, <2>2
    <3>2. \A t \in 0 .. s - 1 : \E j \in From(p)' : j < i /\ log'[j].seq_num = t
      BY <1>0, <1>12, <1>14, <1>16, <2>2
    <3>3. \A j \in From(p)' : ~(i < j)
      BY <1>0, <1>12, <1>14, <2>2
    <3> QED BY <1>4, <1>6, <3>1, <3>2, <3>3
  <2> QED BY <1>12, <2>1, <2>2
<1>18. \A r \in Procs : LogOf(r)'
  <2> SUFFICES ASSUME NEW r \in Procs, r # p PROVE LogOf(r)'
    BY <1>17
  <2>1. LogOf(r) /\ From(r)' = From(r)
    BY <1>13 DEF Inv
  <2>2. message_index' = message_index /\ \A i \in From(r) : log'[i] = log[i]
    BY <1>1, <1>14
  <2>3. SUFFICES ASSUME NEW i \in From(r)
                 PROVE  /\ log[i].seq_num <= message_index[r]
                        /\ log[i].FIN <=> log[i].seq_num = NumMessages[r]
                        /\ \A t \in 0 .. log[i].seq_num - 1 :
                             \E j \in From(r) : j < i /\ log[j].seq_num = t
                        /\ \A j \in From(r) : i < j => log[i].seq_num < log[j].seq_num
    BY <2>1, <2>2 DEF LogOf
  <2> QED BY <2>1 DEF LogOf
<1>19. \A r \in Procs : OrderedOf(r)'
  <2>1. OrderedOf(p)'
    <3>1. \A i \in From(p)' : log'[i].seq_num <= s
      BY <1>4, <1>6, <1>9, <1>12, <1>14, <1>16
    <3>2. \A t \in 0 .. s : \E i \in From(p)' : log'[i].seq_num = t
      <4> TAKE t \in 0 .. s
      <4>1. CASE t = s
        BY <1>6, <1>9, <1>12, <4>1
      <4>2. CASE t # s
        BY <1>4, <1>12, <1>14, <1>16, <4>2
      <4> QED BY <4>1, <4>2
    <3> QED BY <1>10, <3>1, <3>2 DEF OrderedOf
  <2>2. ASSUME NEW r \in Procs, r # p PROVE OrderedOf(r)'
    <3>1. OrderedOf(r) /\ From(r)' = From(r) /\ ordered(r)' = ordered(r)
      BY <1>10, <1>13, <2>2 DEF Inv
    <3> QED BY <1>1, <1>14, <3>1 DEF OrderedOf
  <2> QED BY <2>1, <2>2
<1>20. \A r \in Procs : OutboxOf(r)'
  <2>1. OutboxOf(p)'
    <3>1. \A k \in 1 .. Len(outbox[p]) - 1 :
            Tail(outbox[p])[k] = sendNewMessage(p, s + k, s + k = NumMessages[p])
      <4> TAKE k \in 1 .. Len(outbox[p]) - 1
      <4>1. k + 1 \in 1 .. Len(outbox[p])
        BY <1>2
      <4>2. o + (k + 1) = s + k
        BY <1>2, <1>11
      <4>3. outbox[p][k + 1] = sendNewMessage(p, o + (k + 1), o + (k + 1) = NumMessages[p])
        BY <1>0, <4>1 DEF OutboxOf, o
      <4> QED BY <1>2, <4>2, <4>3
    <3>2. s >= -1 /\ status'[p] # "failed"
      BY <1>1, <1>4, <1>7
    <3> QED BY <1>2, <1>8, <1>10, <3>1, <3>2 DEF OutboxOf
  <2>2. ASSUME NEW r \in Procs, r # p PROVE OutboxOf(r)'
    BY <1>1, <1>8, <1>10, <2>2 DEF Inv, OutboxOf
  <2> QED BY <2>1, <2>2
<1>21. \A q, r \in Procs : ReceptionOf(q, r)' /\ WindowOf(q, r)'
  <2> TAKE q, r \in Procs
  <2>1. WindowOf(q, r)'
    BY <1>1 DEF Inv, WindowOf, numSent, numReceived
  <2>2. expected(q, r)' = expected(q, r) /\ expected(q, r) \in Int
    <3>1. global_window[q][r].seq_num \in Int /\ NumMessages[r] \in Int
      BY <1>0 DEF TypeOK, Windows
    <3> QED BY <1>1, <3>1 DEF expected
  <2>3. ReceptionOf(q, r)
    BY DEF Inv
  <2>4. CASE r # p
    <3>1. From(r)' = From(r) /\ ordered(r)' = ordered(r)
      BY <1>10, <1>13, <2>4
    <3> QED BY <1>1, <1>14, <2>1, <2>2, <2>3, <3>1 DEF ReceptionOf
  <2>5. CASE r = p
    <3>1. expected(q, p) <= s
      BY <1>7, <1>11, <2>3, <2>5 DEF ReceptionOf, o
    <3>2. pos[q] \in Nat /\ pos[q] <= L
      BY <1>0 DEF Inv, TypeOK, L
    <3>3. \A i \in From(p)' : i <= pos[q] <=> log'[i].seq_num < expected(q, p)
      <4>1. \A i \in From(p) : i <= pos[q] <=> log'[i].seq_num < expected(q, p)
        BY <1>14, <2>3, <2>5 DEF ReceptionOf
      <4>2. L + 1 <= pos[q] <=> log'[L + 1].seq_num < expected(q, p)
        BY <1>0, <1>4, <1>6, <1>9, <2>2, <2>5, <3>1, <3>2
      <4> QED BY <1>12, <4>1, <4>2
    <3>4. expected(q, p) <= s + 1
      BY <1>4, <2>2, <2>5, <3>1
    <3> QED BY <1>1, <1>10, <2>1, <2>2, <2>3, <2>5, <3>3, <3>4 DEF ReceptionOf
  <2> QED BY <2>4, <2>5
<1>22. StartedTogether'
  <2>1. \A q \in Procs : status'[q] # "out"
    BY <1>0, <1>1 DEF StartedTogether
  <2> QED BY <2>1 DEF StartedTogether
<1>23. \A q \in Procs : pos'[q] <= Len(log')
  BY <1>0, <1>1, <1>9 DEF Inv, TypeOK, L
<1> QED BY <1>18, <1>19, <1>20, <1>21, <1>22, <1>23 DEF Inv

(* A message of the job is read, and more are sent.                        *)
LEMMA ReceiveRegularKeeps ==
  ASSUME Inv, TypeOK', NEW p \in Procs, ReceiveRegular(p)
  PROVE  Inv'
<1> DEFINE i0 == pos[p] + 1
           r0 == log[i0].proc_num
           w == deliverMessage(global_window[p], log[i0])
<1>0. TypeOK /\ StartedTogether /\ Len(log) \in Nat /\ pos[p] \in Nat
  BY DEF Inv, TypeOK
<1>1. /\ arrives(p, "regular") /\ callSendMessages(p, w)
      /\ status[p] = "in" /\ pos[p] < Len(log) /\ log[i0].type = "regular"
      /\ global_window' = [global_window EXCEPT ![p] = w]
      /\ pos' = [pos EXCEPT ![p] = pos[p] + 1]
  BY DEF ReceiveRegular, arrives
<1>2. w \in Windows
  BY <1>0, <1>1, ArrivalTypes
<1>3. \A q \in Procs : status[q] # "out"
  <2>1. i0 \in 1 .. Len(log)
    BY <1>0, <1>1
  <2> QED BY <1>0, <1>1, <2>1 DEF StartedTogether
<1>4. /\ r0 \in Procs /\ i0 \in From(r0)
      /\ ~global_window[p][r0].FIN /\ log[i0].seq_num = expected(p, r0)
  BY <1>1, ArrivesInOrder
<1>5. /\ \A q \in Procs : q # r0 => w[q] = global_window[p][q]
      /\ \/ /\ log[i0].FIN /\ log[i0].seq_num = NumMessages[r0]
            /\ w[r0].FIN
            /\ w[r0].seq_num = global_window[p][r0].seq_num
            /\ w[r0].seq_num = NumMessages[r0] - 1
         \/ /\ ~log[i0].FIN /\ log[i0].seq_num # NumMessages[r0]
            /\ ~w[r0].FIN
            /\ w[r0].seq_num = global_window[p][r0].seq_num + 1
            /\ w[r0].seq_num = log[i0].seq_num
            /\ w[r0].seq_num <= NumMessages[r0] - 1
  BY <1>1, DeliveryMoves
<1> HIDE DEF w
<1>6. /\ global_window'[p] = w
      /\ \A q \in Procs : q # p => global_window'[q] = global_window[q]
      /\ pos'[p] = i0
      /\ \A q \in Procs : q # p => pos'[q] = pos[q]
  BY <1>0, <1>1 DEF TypeOK
<1>7. /\ LogQuiet /\ StartedTogether'
      /\ \A r \in Procs : /\ message_index[r] <= message_index'[r]
                          /\ ordered(r)' = ordered(r)
                          /\ status'[r] = "failed" <=> status[r] = "failed"
                          /\ OutboxOf(r)' /\ LogOf(r)' /\ OrderedOf(r)'
  BY <1>1, <1>2, <1>3, CallKeeps
<1>8. \A q \in Procs : global_window[p][q].seq_num \in Int
  BY <1>0 DEF TypeOK, Windows
<1>9. \A q \in Procs : WindowOf(p, q)'
  <2>1. \A q \in Procs : /\ w[q].seq_num >= global_window[p][q].seq_num
                         /\ global_window[p][q].FIN => w[q].FIN
    <3> TAKE q \in Procs
    <3>1. CASE q = r0
      BY <1>4, <1>5, <1>8, <3>1
    <3>2. CASE q # r0
      BY <1>5, <1>8, <3>2
    <3> QED BY <3>1, <3>2
  <2> QED BY <1>1, <1>2, <1>6, <2>1, CallKeepsWindow
<1>10. ASSUME NEW q \in Procs, q # p, NEW r \in Procs PROVE WindowOf(q, r)'
  <2>1. message_index'[q] = message_index[q]
    BY <1>0, <1>10 DEF callSendMessages, TypeOK, ReceiveRegular
  <2>2. WindowOf(q, r)
    BY DEF Inv
  <2> QED BY <1>6, <1>10, <2>1, <2>2 DEF WindowOf, numSent, numReceived
<1>11. ASSUME NEW q \in Procs, NEW r \in Procs, q # p \/ r # r0
       PROVE  ReceptionOf(q, r)'
  <2>1. ReceptionOf(q, r)
    BY DEF Inv
  <2>2. global_window'[q][r] = global_window[q][r]
    BY <1>5, <1>6, <1>11
  <2>3. \A i \in From(r) : i <= pos'[q] <=> i <= pos[q]
    <3> TAKE i \in From(r)
    <3>1. i \in Nat
      BY <1>0 DEF From
    <3>2. q = p => i # i0
      BY <1>11 DEF From
    <3> QED BY <1>0, <1>6, <3>1, <3>2
  <2> QED BY <1>0, <1>7, <2>1, <2>2, <2>3, QuietKeepsReception
<1>12. ASSUME NEW r \in Procs, r = r0 PROVE ReceptionOf(p, r)'
  <2>0. PICK i1 \in Nat, s \in Nat : i1 = i0 /\ s = log[i1].seq_num
    BY <1>0, <1>4, FromTypes
  <2>1. ReceptionOf(p, r) /\ LogOf(r) /\ OrderedOf(r) /\ i1 \in From(r)
    BY <1>4, <1>12, <2>0 DEF Inv
  <2>2. \A i \in From(r) : i \in Nat /\ log[i].seq_num \in Nat /\ log'[i] = log[i]
    BY <1>0, <1>7, FromTypes DEF LogQuiet
  <2>3. From(r)' = From(r)
    BY <1>7 DEF LogQuiet
  <2>4. NumMessages[r] \in Nat /\ message_index[r] \in Int /\ message_index'[r] \in Int
    BY <1>0 DEF TypeOK
  <2>5. s = global_window[p][r].seq_num + 1 /\ s = expected(p, r)
    BY <1>4, <1>12, <2>0 DEF expected
  <2>6. expected(p, r)' = s + 1
    <3>1. expected(p, r)' = IF w[r].FIN THEN NumMessages[r] + 1 ELSE w[r].seq_num + 1
      BY <1>6 DEF expected
    <3> QED BY <1>5, <1>12, <2>0, <3>1
  <2>7. s <= message_index[r] /\ (status[r] # "failed" => s <= ordered(r))
    BY <2>0, <2>1 DEF LogOf, OrderedOf
  <2>8. \A i \in From(r) : i <= i1 <=> log[i].seq_num < s + 1
    <3> TAKE i \in From(r)
    <3>1. i <= pos[p] <=> log[i].seq_num < s
      BY <2>1, <2>5 DEF ReceptionOf
    <3>2. i1 < i => s < log[i].seq_num
      BY <2>0, <2>1 DEF LogOf
    <3>3. i = i1 => log[i].seq_num = s
      BY <2>0
    <3>4. i \in Nat /\ log[i].seq_num \in Nat
      BY <2>2
    <3> QED BY <1>0, <2>0, <3>1, <3>2, <3>3, <3>4
  <2>9. w[r].seq_num <= NumMessages[r] - 1 /\ w[r].seq_num <= message_index'[r]
    <3>1. message_index[r] <= message_index'[r]
      BY <1>7
    <3>2. w[r].seq_num <= s /\ w[r].seq_num \in Int /\ w[r].seq_num <= NumMessages[r] - 1
      BY <1>5, <1>8, <1>12, <2>0, <2>4, <2>5
    <3> QED BY <2>0, <2>4, <2>7, <3>1, <3>2
  <2>10. w[r].FIN => w[r].seq_num = NumMessages[r] - 1
    BY <1>5, <1>12
  <2>11. status'[r] # "failed" => s + 1 <= ordered(r)' + 1
    <3>1. status'[r] # "failed" => s <= ordered(r) /\ ordered(r)' = ordered(r)
      BY <1>7, <2>7
    <3>2. ordered(r) \in Int
      <4>1. message_index[r] \in Int /\ outbox[r] \in Seq(Regular)
        BY <1>0 DEF TypeOK
      <4>2. Len(outbox[r]) \in Nat
        BY <4>1
      <4> QED BY <4>1, <4>2 DEF ordered
    <3> QED BY <2>0, <3>1, <3>2
  <2>12. \A i \in From(r)' : i <= pos'[p] <=> log'[i].seq_num < s + 1
    BY <1>6, <2>0, <2>2, <2>3, <2>8
  <2>13. global_window'[p][r] = w[r]
    BY <1>6
  <2> QED BY <2>6, <2>9, <2>10, <2>11, <2>12, <2>13 DEF ReceptionOf
<1>13. \A q \in Procs : pos'[q] <= Len(log')
  <2>1. Len(log) <= Len(log') /\ Len(log') \in Nat
    BY <1>7 DEF LogQuiet
  <2>2. \A q \in Procs : pos[q] \in Nat /\ pos[q] <= Len(log)
    BY <1>0 DEF Inv, TypeOK
  <2> QED BY <1>0, <1>1, <1>6, <2>1, <2>2
<1>14. \A q, r \in Procs : ReceptionOf(q, r)'
  BY <1>4, <1>11, <1>12
<1>15. \A q, r \in Procs : WindowOf(q, r)'
  BY <1>9, <1>10
<1> QED BY <1>7, <1>13, <1>14, <1>15 DEF Inv

LEMMA ReceiveFullMembershipKeeps ==
  ASSUME Inv, TypeOK', NEW p \in Procs, ReceiveFullMembership(p)
  PROVE  Inv'
<1> DEFINE i0 == pos[p] + 1
           w == global_window[p]
<1>0. TypeOK /\ StartedTogether /\ Len(log) \in Nat /\ pos[p] \in Nat
  BY DEF Inv, TypeOK
<1>1. /\ callSendMessages(p, w)
      /\ status[p] = "in" /\ pos[p] < Len(log)
      /\ log[i0].type = "membership" /\ log[i0].num_groups = num_procs
      /\ global_window' = global_window
      /\ pos' = [pos EXCEPT ![p] = pos[p] + 1]
  BY DEF ReceiveFullMembership, arrives
<1>2. w \in Windows
  BY <1>0 DEF TypeOK
<1>3. \A q \in Procs : status[q] # "out"
  <2>1. i0 \in 1 .. Len(log)
    BY <1>0, <1>1
  <2> QED BY <1>0, <1>1, <2>1 DEF StartedTogether
<1>4. pos'[p] = i0 /\ \A q \in Procs : q # p => pos'[q] = pos[q]
  BY <1>0, <1>1 DEF TypeOK
<1>5. /\ LogQuiet /\ StartedTogether'
      /\ \A r \in Procs : /\ message_index[r] <= message_index'[r]
                          /\ ordered(r)' = ordered(r)
                          /\ status'[r] = "failed" <=> status[r] = "failed"
                          /\ OutboxOf(r)' /\ LogOf(r)' /\ OrderedOf(r)'
  BY <1>1, <1>2, <1>3, CallKeeps
<1>6. \A q \in Procs : WindowOf(p, q)'
  <2>1. \A q \in Procs : w[q].seq_num >= w[q].seq_num
    BY <1>2 DEF Windows
  <2> QED BY <1>1, <1>2, <2>1, CallKeepsWindow
<1>7. ASSUME NEW q \in Procs, q # p, NEW r \in Procs PROVE WindowOf(q, r)'
  <2>1. message_index'[q] = message_index[q]
    BY <1>0, <1>7 DEF callSendMessages, TypeOK, ReceiveFullMembership
  <2>2. WindowOf(q, r)
    BY DEF Inv
  <2> QED BY <1>1, <2>1, <2>2 DEF WindowOf, numSent, numReceived
<1>8. ASSUME NEW q \in Procs, NEW r \in Procs PROVE ReceptionOf(q, r)'
  <2>1. ReceptionOf(q, r)
    BY DEF Inv
  <2>2. \A i \in From(r) : i <= pos'[q] <=> i <= pos[q]
    <3> TAKE i \in From(r)
    <3>1. i \in Nat /\ i # i0
      BY <1>0, <1>1 DEF From
    <3> QED BY <1>0, <1>4, <3>1
  <2> QED BY <1>0, <1>1, <1>5, <2>1, <2>2, QuietKeepsReception
<1>9. \A q \in Procs : pos'[q] <= Len(log')
  <2>1. Len(log) <= Len(log') /\ Len(log') \in Nat
    BY <1>5 DEF LogQuiet
  <2>2. \A q \in Procs : pos[q] \in Nat /\ pos[q] <= Len(log)
    BY <1>0 DEF Inv, TypeOK
  <2> QED BY <1>0, <1>1, <1>4, <2>1, <2>2
<1> QED BY <1>5, <1>6, <1>7, <1>8, <1>9 DEF Inv

-----------------------------------------------------------------------------
LEMMA InvInit == Init => Inv
<1> SUFFICES ASSUME Init PROVE Inv
  OBVIOUS
<1>1. TypeOK
  BY DEF Init, TypeOK, Windows
<1>2. \A p \in Procs : /\ From(p) = {} /\ outbox[p] = <<>> /\ pos[p] = 0
                       /\ message_index[p] = -1 /\ NumMessages[p] \in Nat
                       /\ status[p] # "failed" /\ ordered(p) = -1
  BY DEF Init, From, ordered
<1>3. \A q, p \in Procs : /\ global_window[q][p].seq_num = -1
                          /\ global_window[q][p].FIN = FALSE
                          /\ expected(q, p) = 0
  BY DEF Init, expected
<1>4. \A p \in Procs : OutboxOf(p) /\ LogOf(p) /\ OrderedOf(p)
  BY <1>2 DEF OutboxOf, LogOf, OrderedOf
<1>5. \A q, p \in Procs : ReceptionOf(q, p)
  BY <1>2, <1>3 DEF ReceptionOf
<1>6. \A q, p \in Procs : WindowOf(q, p)
  <2> TAKE q, p \in Procs
  <2>1. numSent[q] = 0 /\ numReceived[q][p] = 0
    BY <1>2, <1>3 DEF numSent, numReceived
  <2> QED BY <2>1 DEF WindowOf
<1>7. StartedTogether /\ \A q \in Procs : pos[q] <= Len(log)
  BY <1>2 DEF Init, StartedTogether
<1> QED BY <1>1, <1>4, <1>5, <1>6, <1>7 DEF Inv

LEMMA InvStutter ==
  ASSUME Inv, UNCHANGED vars
  PROVE  Inv'
<1>1. TypeOK' /\ StartedTogether' /\ \A q \in Procs : pos'[q] <= Len(log')
  BY DEF Inv, vars, TypeOK, StartedTogether, num_procs
<1>2. \A p \in Procs : From(p)' = From(p) /\ ordered(p)' = ordered(p)
  BY DEF vars, From, ordered
<1>3. \A q, p \in Procs : expected(q, p)' = expected(q, p)
  BY DEF vars, expected
<1>4. \A p \in Procs : OutboxOf(p)' /\ LogOf(p)' /\ OrderedOf(p)'
  BY <1>2 DEF Inv, vars, OutboxOf, LogOf, OrderedOf
<1>5. \A q, p \in Procs : ReceptionOf(q, p)'
  BY <1>2, <1>3 DEF Inv, vars, ReceptionOf
<1>6. \A q, p \in Procs : WindowOf(q, p)'
  BY DEF Inv, vars, WindowOf, numSent, numReceived
<1> QED BY <1>1, <1>4, <1>5, <1>6 DEF Inv

LEMMA InvStep == Inv /\ TypeOK' /\ [Next]_vars => Inv'
  BY JoinKeeps, OrderKeeps, ReceiveRegularKeeps, ReceiveFullMembershipKeeps,
     ReceiveMembershipKeeps, FailKeeps, InvStutter DEF Next, Receive

LEMMA InvAlways == Spec => []Inv
<1>1. Inv /\ TypeOK' /\ [Next]_vars => Inv'
  BY InvStep
<1> QED BY InvInit, <1>1, TypeCorrect, PTL DEF Spec

(* While two processes have not seen each other finish, neither has sent   *)
(* more than two windows beyond what the other has received.               *)
THEOREM SlowReadersAlwaysBounded == Spec => []SlowReaderBounded
<1>1. Inv => SlowReaderBounded
  <2> SUFFICES ASSUME Inv, NEW p \in Procs, NEW q \in Procs,
                      ~global_window[p][q].FIN, ~global_window[q][p].FIN
               PROVE  numSent[p] <= numReceived[q][p] + 2 * Window
    BY DEF SlowReaderBounded
  <2>1. /\ numSent[p] <= numReceived[p][q] + Window
        /\ numSent[q] <= numReceived[q][p] + Window
    BY DEF Inv, WindowOf
  <2>2. /\ message_index[p] \in Int /\ message_index[q] \in Int
        /\ NumMessages[p] \in Nat /\ NumMessages[q] \in Nat
        /\ global_window[p][q].seq_num \in Int /\ global_window[q][p].seq_num \in Int
    BY DEF Inv, TypeOK, Windows
  <2>3. /\ global_window[p][q].seq_num <= NumMessages[q] - 1
        /\ global_window[p][q].seq_num <= message_index[q]
    BY DEF Inv, ReceptionOf
  <2>4. /\ numSent[p] \in Int /\ numSent[q] \in Int
        /\ numReceived[p][q] = global_window[p][q].seq_num + 1
        /\ numReceived[q][p] = global_window[q][p].seq_num + 1
        /\ numReceived[p][q] <= numSent[q]
    BY <2>2, <2>3 DEF numSent, numReceived
  <2> QED BY <2>1, <2>2, <2>4
<1> QED BY <1>1, InvAlways, PTL

-----------------------------------------------------------------------------
(* The job of a step that sends: the numbers rise within the limit.        *)
LEMMA CallSends ==
  ASSUME Inv, NEW p \in Procs, status[p] = "in", NEW w \in Windows,
         callSendMessages(p, w)
  PROVE  /\ \E n \in numSent[p] .. NumMessages[p] : numSent' = [numSent EXCEPT ![p] = n]
         /\ w[p].FIN => numSent' = numSent
         /\ \/ UNCHANGED exited
            \/ AllFinished(w) /\ w[p].FIN /\ p \notin exited /\ exited' = exited \cup {p}
<1> DEFINE b == sendMessages(p, w, message_index[p])
<1>0. TypeOK
  BY DEF Inv
<1>1. IsBatch(p, w, message_index[p], b)
  BY <1>0, BatchFacts DEF TypeOK
<1>2. /\ message_index' = [message_index EXCEPT ![p] = message_index[p] + Len(b)]
      /\ \/ w[p].FIN /\ AllFinished(w) /\ status' = [status EXCEPT ![p] = "exited"]
         \/ UNCHANGED status
  BY DEF callSendMessages
<1> HIDE DEF b
<1>3. /\ Len(b) \in Nat /\ message_index[p] + Len(b) <= NumMessages[p]
      /\ w[p].FIN => Len(b) = 0
      /\ message_index[p] \in Int /\ message_index[p] >= -1 /\ NumMessages[p] \in Nat
  BY <1>0, <1>1 DEF IsBatch, TypeOK
<1> DEFINE n == IF message_index[p] + Len(b) < NumMessages[p]
                THEN message_index[p] + Len(b) + 1 ELSE NumMessages[p]
<1>4. n \in numSent[p] .. NumMessages[p] /\ (w[p].FIN => n = numSent[p])
  <2>1. numSent[p] = IF message_index[p] < NumMessages[p]
                     THEN message_index[p] + 1 ELSE NumMessages[p]
    BY DEF numSent
  <2>2. w[p].FIN => message_index[p] + Len(b) = message_index[p]
    BY <1>3
  <2> QED BY <1>3, <2>1, <2>2
<1>5. numSent' = [numSent EXCEPT ![p] = n]
  <2>1. \A q \in Procs : numSent'[q] = IF q = p THEN n ELSE numSent[q]
    BY <1>0, <1>2 DEF numSent, TypeOK
  <2>2. /\ numSent' = [q \in Procs |-> numSent'[q]]
        /\ numSent = [q \in Procs |-> numSent[q]]
    BY DEF numSent
  <2> HIDE DEF n, numSent
  <2> QED BY <2>1, <2>2
<1>6. w[p].FIN => numSent' = numSent
  <2>1. numSent = [q \in Procs |-> numSent[q]]
    BY DEF numSent
  <2> HIDE DEF n, numSent
  <2> QED BY <1>4, <1>5, <2>1
<1>7. \/ UNCHANGED exited
      \/ AllFinished(w) /\ w[p].FIN /\ p \notin exited /\ exited' = exited \cup {p}
  BY <1>0, <1>2 DEF exited, TypeOK
<1> HIDE DEF n
<1> QED BY <1>4, <1>5, <1>6, <1>7

(* A window with all FINs has all messages.                                *)
LEMMA FinishedHasAll ==
  ASSUME TypeOK, NEW p \in Procs, NEW w,
         AllFinished(w), \A q \in Procs : w[q].FIN => w[q].seq_num = NumMessages[q] - 1
  PROVE  [q \in Procs |-> w[q].seq_num + 1] = NumMessages
<1>1. \A q \in Procs : w[q].seq_num + 1 = NumMessages[q]
  <2> TAKE q \in Procs
  <2>1. NumMessages[q] \in Nat /\ w[q].seq_num = NumMessages[q] - 1
    BY DEF AllFinished
  <2> QED BY <2>1
<1> QED BY <1>1

LEMMA ReceiveRegularIsTurnOrLeave ==
  ASSUME Inv, NEW p \in Procs, ReceiveRegular(p)
  PROVE  Job!Turn(p) \/ Job!Leave(p)
<1> DEFINE i0 == pos[p] + 1
           w == deliverMessage(global_window[p], log[i0])
<1>0. TypeOK
  BY DEF Inv
<1>1. /\ arrives(p, "regular") /\ callSendMessages(p, w) /\ status[p] = "in"
      /\ global_window' = [global_window EXCEPT ![p] = w]
  BY DEF ReceiveRegular, arrives
<1>2. w \in Windows
  BY <1>0, <1>1, ArrivalTypes
<1>3. PICK r \in Procs : r = log[i0].proc_num
  BY <1>1, ArrivesInOrder
<1>4. /\ i0 \in From(r) /\ ~global_window[p][r].FIN /\ log[i0].seq_num = expected(p, r)
      /\ \A q \in Procs : q # r => w[q] = global_window[p][q]
      /\ \/ /\ w[r].FIN
            /\ w[r].seq_num = global_window[p][r].seq_num
            /\ w[r].seq_num = NumMessages[r] - 1
         \/ /\ ~w[r].FIN
            /\ w[r].seq_num = global_window[p][r].seq_num + 1
            /\ w[r].seq_num = log[i0].seq_num
            /\ w[r].seq_num <= NumMessages[r] - 1
  BY <1>1, <1>3, ArrivesInOrder, DeliveryMoves
<1>5. log[i0].seq_num <= message_index[r]
  BY <1>4 DEF Inv, LogOf
<1> HIDE DEF w, i0
<1>6. /\ \E n \in numSent[p] .. NumMessages[p] : numSent' = [numSent EXCEPT ![p] = n]
      /\ w[p].FIN => numSent' = numSent
      /\ \/ UNCHANGED exited
         \/ AllFinished(w) /\ w[p].FIN /\ p \notin exited /\ exited' = exited \cup {p}
  BY <1>1, <1>2, CallSends
<1>7. /\ global_window'[p] = w
      /\ \A q \in Procs : q # p => global_window'[q] = global_window[q]
  BY <1>0, <1>1 DEF TypeOK
<1>8. /\ numReceived' = [q \in Procs |-> [s \in Procs |-> numReceived'[q][s]]]
      /\ numReceived = [q \in Procs |-> [s \in Procs |-> numReceived[q][s]]]
      /\ numReceived'[p] = [s \in Procs |-> w[s].seq_num + 1]
      /\ \A s \in Procs : numReceived'[p][s] = w[s].seq_num + 1
      /\ \A q, s \in Procs : q # p => numReceived'[q][s] = numReceived[q][s]
      /\ \A q, s \in Procs : numReceived[q][s] = global_window[q][s].seq_num + 1
  BY <1>7 DEF numReceived
<1>9. global_window[p][r].seq_num \in Int /\ NumMessages[r] \in Nat /\ message_index[r] \in Int
  BY <1>0 DEF TypeOK, Windows
<1>10. p \notin exited
  BY <1>1 DEF exited
<1>11. CASE w[r].FIN
  <2>1. \A q, s \in Procs : numReceived'[q][s] = numReceived[q][s]
    BY <1>4, <1>8, <1>9, <1>11
  <2>2. UNCHANGED numReceived
    BY <1>8, <2>1
  <2>3. CASE UNCHANGED exited
    BY <1>6, <1>10, <2>2, <2>3 DEF Job!Turn
  <2>4. CASE AllFinished(w) /\ w[p].FIN /\ exited' = exited \cup {p}
    <3>1. \A q \in Procs : w[q].FIN => w[q].seq_num = NumMessages[q] - 1
      <4> TAKE q \in Procs
      <4>1. CASE q = r
        BY <1>4, <1>9, <1>11, <4>1
      <4>2. CASE q # r
        BY <1>4, <4>2 DEF Inv, ReceptionOf
      <4> QED BY <4>1, <4>2
    <3>2. numReceived[p] = NumMessages
      BY <1>0, <1>8, <2>2, <2>4, <3>1, FinishedHasAll
    <3> QED BY <1>6, <1>10, <2>2, <2>4, <3>2 DEF Job!Leave
  <2> QED BY <1>6, <2>3, <2>4
<1>12. CASE ~w[r].FIN
  <2>1. UNCHANGED exited
    BY <1>6, <1>12 DEF AllFinished
  <2>2. numReceived[p][r] < numSent[r]
    <3>1. numReceived[p][r] = w[r].seq_num
      BY <1>4, <1>8, <1>12
    <3>2. w[r].seq_num \in Int /\ w[r].seq_num <= message_index[r] /\ w[r].seq_num < NumMessages[r]
      BY <1>4, <1>5, <1>9, <1>12
    <3>3. numSent[r] = IF message_index[r] < NumMessages[r]
                       THEN message_index[r] + 1 ELSE NumMessages[r]
      BY DEF numSent
    <3> QED BY <1>9, <3>1, <3>2, <3>3
  <2>3. numReceived' = [numReceived EXCEPT ![p][r] = numReceived[p][r] + 1]
    <3>1. \A s \in Procs : numReceived'[p][s] =
            IF s = r THEN numReceived[p][r] + 1 ELSE numReceived[p][s]
      BY <1>4, <1>8, <1>9, <1>12
    <3> DEFINE old == numReceived
               new == numReceived'
    <3>2. /\ new = [q \in Procs |-> [s \in Procs |-> new[q][s]]]
          /\ old = [q \in Procs |-> [s \in Procs |-> old[q][s]]]
          /\ \A q, s \in Procs : new[q][s] =
               IF q = p /\ s = r THEN old[p][r] + 1 ELSE old[q][s]
      BY <1>8, <3>1
    <3> HIDE DEF old, new
    <3>3. new[p] = [old[p] EXCEPT ![r] = old[p][r] + 1]
      <4>1. /\ new[p] = [s \in Procs |-> new[p][s]]
            /\ old[p] = [s \in Procs |-> old[p][s]]
        BY <3>2
      <4> QED BY <3>2, <4>1
    <3>4. \A q \in Procs : q # p => new[q] = old[q]
      <4> TAKE q \in Procs
      <4>1. /\ new[q] = [s \in Procs |-> new[q][s]]
            /\ old[q] = [s \in Procs |-> old[q][s]]
        BY <3>2
      <4> QED BY <3>2, <4>1
    <3>5. DOMAIN new = Procs /\ DOMAIN old = Procs
          /\ new = [q \in Procs |-> new[q]] /\ old = [q \in Procs |-> old[q]]
      BY <3>2
    <3>6. new = [old EXCEPT ![p][r] = old[p][r] + 1]
      BY <3>3, <3>4, <3>5
    <3> QED BY <3>6 DEF old, new
  <2>4. Job!Get(p, r)
    BY <2>2, <2>3 DEF Job!Get
  <2> QED BY <1>6, <1>10, <2>1, <2>4 DEF Job!Turn
<1> QED BY <1>11, <1>12

LEMMA ReceiveFullMembershipIsTurnOrLeave ==
  ASSUME Inv, NEW p \in Procs, ReceiveFullMembership(p)
  PROVE  Job!Turn(p) \/ Job!Leave(p)
<1> DEFINE w == global_window[p]
<1>0. TypeOK
  BY DEF Inv
<1>1. callSendMessages(p, w) /\ status[p] = "in" /\ global_window' = global_window
  BY DEF ReceiveFullMembership, arrives
<1>2. w \in Windows
  BY <1>0 DEF TypeOK
<1>3. /\ \E n \in numSent[p] .. NumMessages[p] : numSent' = [numSent EXCEPT ![p] = n]
      /\ w[p].FIN => numSent' = numSent
      /\ \/ UNCHANGED exited
         \/ AllFinished(w) /\ w[p].FIN /\ p \notin exited /\ exited' = exited \cup {p}
  BY <1>1, <1>2, CallSends
<1>4. UNCHANGED numReceived
  BY <1>1 DEF numReceived
<1>5. p \notin exited
  BY <1>1 DEF exited
<1>6. CASE UNCHANGED exited
  BY <1>3, <1>4, <1>5, <1>6 DEF Job!Turn
<1>7. CASE AllFinished(w) /\ w[p].FIN /\ exited' = exited \cup {p}
  <2>1. \A q \in Procs : w[q].FIN => w[q].seq_num = NumMessages[q] - 1
    BY DEF Inv, ReceptionOf
  <2>2. [q \in Procs |-> w[q].seq_num + 1] = NumMessages
    BY <1>0, <1>7, <2>1, FinishedHasAll
  <2>3. numReceived[p] = NumMessages
    BY <2>2 DEF numReceived
  <2> QED BY <1>3, <1>4, <1>5, <1>7, <2>3 DEF Job!Leave
<1> QED BY <1>3, <1>6, <1>7

(* Every behaviour of the program is a job in which each process receives  *)
(* every message of everyone once and in order, and leaves only when it    *)
(* has them all.                                                           *)
THEOREM SpreadMcastImplementsJob == Spec => ImplementsMulticastJob
<1>1. Init => Job!Init
  <2> SUFFICES ASSUME Init PROVE Job!Init
    OBVIOUS
  <2>1. \A p \in Procs : NumMessages[p] \in Nat /\ message_index[p] = -1
    BY DEF Init
  <2>2. numSent = [p \in Procs |-> 0]
    BY <2>1 DEF numSent
  <2>3. numReceived = [q \in Procs |-> [p \in Procs |-> 0]]
    BY DEF Init, numReceived
  <2>4. exited = {}
    BY DEF Init, exited
  <2> QED BY <2>2, <2>3, <2>4 DEF Job!Init
<1>2. Inv /\ [Next]_vars => [Job!Next]_(Job!vars)
  <2> SUFFICES ASSUME Inv, [Next]_vars PROVE [Job!Next]_(Job!vars)
    OBVIOUS
  <2>0. TypeOK
    BY DEF Inv
  <2>1. ASSUME UNCHANGED <<message_index, global_window>>, exited' = exited
        PROVE  UNCHANGED Job!vars
    BY <2>1 DEF Job!vars, numSent, numReceived
  <2>2. ASSUME NEW p \in Procs, Join(p) PROVE UNCHANGED Job!vars
    BY <2>0, <2>1, <2>2 DEF Join, exited, TypeOK
  <2>3. ASSUME NEW p \in Procs, Order(p) PROVE UNCHANGED Job!vars
    BY <2>1, <2>3 DEF Order, exited
  <2>4. ASSUME NEW p \in Procs, ReceiveMembership(p) PROVE UNCHANGED Job!vars
    BY <2>1, <2>4 DEF ReceiveMembership, exited
  <2>5. ASSUME NEW p \in Procs, Fail(p) PROVE UNCHANGED Job!vars
    BY <2>0, <2>1, <2>5 DEF Fail, exited, TypeOK
  <2>6. CASE UNCHANGED vars
    BY <2>1, <2>6 DEF vars, exited
  <2>7. ASSUME NEW p \in Procs, ReceiveRegular(p) \/ ReceiveFullMembership(p)
        PROVE  Job!Next
    BY <2>7, ReceiveRegularIsTurnOrLeave, ReceiveFullMembershipIsTurnOrLeave
       DEF Job!Next
  <2> QED BY <2>2, <2>3, <2>4, <2>5, <2>6, <2>7 DEF Next, Receive
<1>3. Spec => Job!Init /\ [][Job!Next]_(Job!vars)
  BY <1>1, <1>2, InvAlways, PTL DEF Spec
<1> QED BY <1>3 DEF ImplementsMulticastJob, Job!Spec
=============================================================================
