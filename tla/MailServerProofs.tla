-------------------------- MODULE MailServerProofs --------------------------
(***************************************************************************)
(* Theorems about the mail servers, for any number of servers, users,      *)
(* commands, network changes and messages on their way: the types, then    *)
(* the kinds of step, then what is safe in every state; then that, when    *)
(* Spread has nothing left to deliver in a component, its servers have     *)
(* ended their reconciliation and report the same vectors; that a network  *)
(* which stays whole keeps a mail before its changes; and that the resent  *)
(* updates on their way to a server are bounded.                           *)
(***************************************************************************)
EXTENDS MailServer, MailStateProofs

-----------------------------------------------------------------------------
(* Types.                                                                  *)

(* TypeOK with the finiteness of the buffers, which the sizes of the       *)
(* batches need.                                                           *)
TypeInv ==
    /\ TypeOK
    /\ local_state \in [Servers -> FiniteStates]

(* Functions on 1 .. n are sequences.                                      *)
LEMMA FunctionIsSeq ==
    ASSUME NEW S, NEW n \in Nat, NEW f \in [1 .. n -> S]
    PROVE  f \in Seq(S) /\ Len(f) = n
<1>1. f \in Seq(S)
  BY SeqDef
<1>2. DOMAIN f = 1 .. Len(f) /\ Len(f) \in Nat
  BY <1>1, LenProperties
<1> QED
  BY <1>1, <1>2

(* The ways to list a finite set are sequences of its elements.            *)
LEMMA BatchType ==
    ASSUME NEW s \in Servers, NEW us \in SUBSET Updates, IsFiniteSet(us),
           NEW msgs \in batches(s, us)
    PROVE  /\ msgs \in Seq(Messages)
           /\ \A k \in 1 .. Len(msgs) : \E u \in us : msgs[k] = resend(s, u)
<1> DEFINE n == Cardinality(us)
<1>1. n \in Nat
  BY FS_CardinalityType
<1>2. PICK q \in [1 .. n -> us] : msgs = [k \in 1 .. n |-> resend(s, q[k])]
  BY DEF batches, listings
<1> HIDE DEF n
<1>3. \A u \in us : resend(s, u) \in Messages
  <2>1. s \in Int
    BY DEF Servers
  <2> QED
    BY <2>1 DEF resend, Messages, UpdateMessages
<1>4. msgs \in [1 .. n -> Messages]
  BY <1>2, <1>3
<1>5. msgs \in Seq(Messages) /\ Len(msgs) = n
  BY <1>1, <1>4, FunctionIsSeq
<1>6. \A k \in 1 .. n : q[k] \in us /\ msgs[k] = resend(s, q[k])
  BY <1>2
<1> QED
  BY <1>5, <1>6

(* A multicast appends messages to what is on its way to the receivers.    *)
LEMMA MulticastType ==
    ASSUME NEW n \in [Servers -> Seq(Messages)], NEW s \in Servers,
           NEW msgs \in Seq(Messages)
    PROVE  multicast(n, s, msgs) \in [Servers -> Seq(Messages)]
BY ConcatProperties DEF multicast

(* The message at the head of the queue of s, and what it leaves.          *)
LEMMA DeliveryType ==
    ASSUME TypeInv, NEW s \in Servers, net[s] # <<>>
    PROVE  /\ Head(net[s]) \in Messages
           /\ Tail(net[s]) \in Seq(Messages)
           /\ consume(s) \in [Servers -> Seq(Messages)]
<1>1. net[s] \in Seq(Messages)
  BY DEF TypeInv, TypeOK
<1>2. Head(net[s]) \in Messages /\ Tail(net[s]) \in Seq(Messages)
  BY <1>1, HeadTailProperties
<1> QED
  BY <1>2 DEF consume, TypeInv, TypeOK

(* The initial state has the types.                                        *)
LEMMA TypeInit == Init => TypeInv
<1> SUFFICES ASSUME Init PROVE TypeInv
  OBVIOUS
<1>1. ASSUME NEW s \in Servers
      PROVE  initialState(s) \in FiniteStates
  BY InitialStateType
<1>2. local_state \in [Servers -> FiniteStates]
  BY <1>1 DEF Init
<1>3. local_state \in [Servers -> LocalStates]
  BY <1>2 DEF FiniteStates
<1>4. /\ net \in [Servers -> Seq(Messages)]
      /\ conn \in [Servers -> SUBSET Servers]
      /\ changes \in Nat
      /\ received \in [Servers -> SUBSET Updates]
  BY DEF Init
<1> QED
  BY <1>2, <1>3, <1>4 DEF TypeInv, TypeOK

(* What a step changes keeps its type.                                     *)
LEMMA TypeStep ==
    ASSUME TypeInv,
           local_state' \in [Servers -> FiniteStates],
           net' \in [Servers -> Seq(Messages)],
           conn' \in [Servers -> SUBSET Servers],
           changes' \in Nat,
           received' \in [Servers -> SUBSET Updates]
    PROVE  TypeInv'
BY DEF TypeInv, TypeOK, FiniteStates

(* The history keeps its type.                                             *)
LEMMA RememberType ==
    ASSUME TypeInv, NEW s \in Servers, NEW st, NEW u \in Updates, remember(s, st, u)
    PROVE  received' \in [Servers -> SUBSET Updates]
BY DEF TypeInv, TypeOK, remember

(* The command of a client keeps the types.                                *)
LEMMA IssueUpdateType ==
    ASSUME TypeInv, NEW s \in Servers, NEW u \in Updates, issueUpdate(s, u)
    PROVE  TypeInv'
<1>1. local_state' \in [Servers -> FiniteStates]
  <2>1. applyUpdate(local_state[s], s, u) \in FiniteStates
    BY ApplyUpdateType DEF TypeInv
  <2> QED
    BY <2>1 DEF issueUpdate, TypeInv
<1>2. net' \in [Servers -> Seq(Messages)]
  <2> DEFINE msgs(junk) == <<[type |-> "UPDATE", from |-> s, proc_num |-> junk,
                              update |-> u, resent |-> FALSE]>>
  <2>1. PICK junk \in HeaderJunk : net' = multicast(net, s, msgs(junk))
    BY DEF issueUpdate
  <2>2. [type |-> "UPDATE", from |-> s, proc_num |-> junk, update |-> u,
         resent |-> FALSE] \in Messages
    BY HeaderJunkAssumption DEF Messages, UpdateMessages
  <2>3. msgs(junk) \in Seq(Messages)
    BY <2>2
  <2> HIDE DEF msgs
  <2> QED
    BY <2>1, <2>3, MulticastType DEF TypeInv, TypeOK
<1>3. received' \in [Servers -> SUBSET Updates]
  BY RememberType DEF issueUpdate
<1> QED
  BY <1>1, <1>2, <1>3, TypeStep DEF issueUpdate, TypeInv, TypeOK

(* A client can only name mails that are in some server's lists.           *)
LEMMA ListedType ==
    ASSUME TypeInv, NEW user \in Users
    PROVE  listed(user) \subseteq MailIds
<1>1. ASSUME NEW t \in Servers, NEW i \in DOMAIN local_state[t].emails[user]
      PROVE  [procID |-> local_state[t].emails[user][i].procID,
              index |-> local_state[t].emails[user][i].index] \in MailIds
  <2>1. local_state[t].emails[user] \in Seq(Mails)
    BY DEF TypeInv, TypeOK, LocalStates
  <2>2. local_state[t].emails[user][i] \in Mails
    BY <1>1, <2>1, LenProperties, ElementOfSeq
  <2> QED
    BY <2>2 DEF Mails, MailIds
<1> QED
  BY <1>1 DEF listed

(* Every command of a client is an issueUpdate of an update.               *)
LEMMA CommandIsUpdate ==
    ASSUME TypeInv, NEW s \in Servers, Command(s)
    PROVE  \E type \in UpdateTypes, user \in Users, mail \in MailIds :
              issueUpdate(s, generateUpdate(local_state[s], s, type, user, mail))
<1>1. PICK user \in Users :
         \/ NewUser(s, user)
         \/ NewMail(s, user)
         \/ \E mail \in listed(user) :
              DeleteMail(s, user, mail) \/ ReadMail(s, user, mail)
  BY DEF Command
<1>2. [procID |-> s, index |-> 0] \in MailIds
  BY DEF MailIds
<1>3. CASE NewUser(s, user)
  BY <1>2, <1>3 DEF NewUser, UpdateTypes
<1>4. CASE NewMail(s, user)
  BY <1>2, <1>4 DEF NewMail, UpdateTypes
<1>5. CASE \E mail \in listed(user) :
             DeleteMail(s, user, mail) \/ ReadMail(s, user, mail)
  BY <1>5, ListedType DEF DeleteMail, ReadMail, UpdateTypes
<1> QED
  BY <1>1, <1>3, <1>4, <1>5

(* A command keeps the types.                                              *)
LEMMA CommandType ==
    ASSUME TypeInv, NEW s \in Servers, Command(s)
    PROVE  TypeInv'
<1>1. PICK type \in UpdateTypes, user \in Users, mail \in MailIds :
         issueUpdate(s, generateUpdate(local_state[s], s, type, user, mail))
  BY CommandIsUpdate
<1>2. generateUpdate(local_state[s], s, type, user, mail) \in Updates
  BY GenerateUpdateType DEF TypeInv, TypeOK
<1> QED
  BY <1>1, <1>2, IssueUpdateType

(* The handlers keep the types.                                            *)
LEMMA ReceiveUpdateType ==
    ASSUME TypeInv, NEW s \in Servers, ReceiveUpdate(s)
    PROVE  TypeInv'
<1> DEFINE m == Head(net[s])
           st == local_state[s]
           echo == m.proc_num = s /\ st.status = "SENDINGUPDATES"
           st1 == IF echo THEN sendMissingUpdates(st, 1) ELSE st
           us == IF echo THEN toSend(st, 1) ELSE {}
<1>1. /\ local_state' = [local_state EXCEPT ![s] = applyUpdate(st1, s, m.update)]
      /\ \E msgs \in batches(s, us) : net' = multicast(consume(s), s, msgs)
      /\ remember(s, st, m.update)
      /\ net[s] # <<>> /\ m.type = "UPDATE"
      /\ UNCHANGED <<conn, changes>>
  BY DEF ReceiveUpdate, delivers
<1>2. m.update \in Updates
  BY <1>1, DeliveryType DEF Messages, UpdateMessages, MatrixMessages, ViewMessages
<1>3. st \in FiniteStates
  BY DEF TypeInv
<1>4. st1 \in FiniteStates
  BY <1>3, SendMissingUpdatesType
<1>5. us \in SUBSET Updates /\ IsFiniteSet(us)
  BY <1>3, ToSendType, FS_EmptySet
<1> HIDE DEF m, st, echo, st1, us
<1>6. local_state' \in [Servers -> FiniteStates]
  BY <1>1, <1>2, <1>4, ApplyUpdateType DEF TypeInv
<1>7. net' \in [Servers -> Seq(Messages)]
  BY <1>1, <1>5, BatchType, DeliveryType, MulticastType
<1>8. received' \in [Servers -> SUBSET Updates]
  BY <1>1, <1>2, RememberType
<1> QED
  BY <1>1, <1>6, <1>7, <1>8, TypeStep DEF TypeInv, TypeOK

(* The matrix at the head of the queue.                                    *)
LEMMA MatrixType ==
    ASSUME TypeInv, NEW s \in Servers, delivers(s, "MATRIX")
    PROVE  /\ net[s] # <<>>
           /\ Head(net[s]).from \in Servers
           /\ Head(net[s]).matrix \in Matrices
           /\ countMatrix(local_state[s], s, Head(net[s])) \in FiniteStates
<1>1. /\ net[s] # <<>>
      /\ Head(net[s]).from \in Servers
      /\ Head(net[s]).matrix \in Matrices
  BY DeliveryType DEF delivers, Messages, UpdateMessages, MatrixMessages, ViewMessages
<1> QED
  BY <1>1, CountMatrixType DEF TypeInv

(* The three outcomes of a matrix keep the types.                          *)
LEMMA ReceiveMatricesType ==
    ASSUME TypeInv, NEW s \in Servers,
           IgnoreMatrix(s) \/ ReceiveMatrix(s) \/ ReceiveLastMatrix(s)
    PROVE  TypeInv'
<1> DEFINE counted == countMatrix(local_state[s], s, Head(net[s]))
<1>0. delivers(s, "MATRIX")
  BY DEF IgnoreMatrix, ReceiveMatrix, ReceiveLastMatrix
<1>1. consume(s) \in [Servers -> Seq(Messages)] /\ counted \in FiniteStates
  BY <1>0, MatrixType, DeliveryType
<1>2. CASE IgnoreMatrix(s)
  BY <1>1, <1>2, TypeStep DEF IgnoreMatrix, TypeInv, TypeOK
<1>3. CASE ReceiveMatrix(s)
  <2>1. local_state' \in [Servers -> FiniteStates]
    BY <1>1, <1>3 DEF ReceiveMatrix, TypeInv
  <2> QED
    BY <1>1, <1>3, <2>1, TypeStep DEF ReceiveMatrix, TypeInv, TypeOK
<1>4. CASE ReceiveLastMatrix(s)
  <2> DEFINE st == [counted EXCEPT !.status = "SENDINGUPDATES"]
             planned == continueReconcile(st, s)
  <2>1. /\ local_state' = [local_state EXCEPT ![s] = sendMissingUpdates(planned, MaxSend)]
        /\ \E msgs \in batches(s, toSend(planned, MaxSend)) :
              net' = multicast(consume(s), s, msgs)
        /\ UNCHANGED <<conn, changes, received>>
    BY <1>4 DEF ReceiveLastMatrix
  <2>2. st \in FiniteStates
    <3> HIDE DEF counted
    <3> QED  BY <1>1 DEF FiniteStates, LocalStates, Status
  <2>3. planned \in FiniteStates
    <3> HIDE DEF st
    <3> QED  BY <2>2, ContinueReconcileType
  <2> HIDE DEF planned
  <2>4. /\ sendMissingUpdates(planned, MaxSend) \in FiniteStates
        /\ toSend(planned, MaxSend) \in SUBSET Updates
        /\ IsFiniteSet(toSend(planned, MaxSend))
    BY <2>3, MaxSendAssumption, SendMissingUpdatesType, ToSendType
  <2>5. local_state' \in [Servers -> FiniteStates]
    BY <2>1, <2>4 DEF TypeInv
  <2>6. net' \in [Servers -> Seq(Messages)]
    BY <1>1, <2>1, <2>4, BatchType, MulticastType
  <2> QED
    BY <2>1, <2>5, <2>6, TypeStep DEF TypeInv, TypeOK
<1> QED
  BY <1>2, <1>3, <1>4

(* A membership change keeps the types.                                    *)
LEMMA ReceiveViewType ==
    ASSUME TypeInv, NEW s \in Servers, ReceiveView(s)
    PROVE  TypeInv'
<1> DEFINE members == Head(net[s]).members
           st == [local_state[s] EXCEPT !.current_membership = members,
                                        !.num_matrix_recvd = 0]
           msg == [type |-> "MATRIX", from |-> s, matrix |-> st.latest_update]
           msgs == <<msg>>
<1>1. members \in SUBSET Servers /\ net[s] # <<>>
  BY DeliveryType
  DEF ReceiveView, delivers, Messages, UpdateMessages, MatrixMessages, ViewMessages
<1>2. st \in FiniteStates
  <2>1. local_state[s] \in FiniteStates
    BY DEF TypeInv
  <2> HIDE DEF members
  <2> QED
    BY <1>1, <2>1 DEF FiniteStates, LocalStates
<1>3. \/ /\ local_state' = [local_state EXCEPT ![s] = [st EXCEPT !.status = "NORMAL"]]
         /\ net' = consume(s)
      \/ /\ local_state' = [local_state EXCEPT ![s] = [st EXCEPT !.status = "RECONCILE"]]
         /\ net' = multicast(consume(s), s, msgs)
  BY DEF ReceiveView
<1> HIDE DEF st
<1>4. /\ [st EXCEPT !.status = "NORMAL"] \in FiniteStates
      /\ [st EXCEPT !.status = "RECONCILE"] \in FiniteStates
  BY <1>2 DEF FiniteStates, LocalStates, Status
<1>5. msgs \in Seq(Messages)
  <2>1. msg \in Messages
    BY <1>2 DEF Messages, MatrixMessages, FiniteStates, LocalStates
  <2> QED
    BY <2>1
<1>6. consume(s) \in [Servers -> Seq(Messages)]
  BY <1>1, DeliveryType
<1>7. local_state' \in [Servers -> FiniteStates]
  BY <1>3, <1>4 DEF TypeInv
<1> HIDE DEF msgs
<1>8. net' \in [Servers -> Seq(Messages)]
  BY <1>3, <1>5, <1>6, MulticastType
<1> QED
  BY <1>7, <1>8, TypeStep DEF ReceiveView, TypeInv, TypeOK

(* The messages that reach a group that leaves its component.              *)
LEMMA SurvivorsType ==
    ASSUME TypeInv, NEW group, NEW t \in Servers, NEW k \in Nat, k <= Len(net[t]),
           NEW a \in survivors(group, t, k)
    PROVE  /\ a \in Seq(Messages)
           /\ \A i \in 1 .. Len(a) : a[i] \in {net[t][j] : j \in 1 .. Len(net[t])}
<1> DEFINE n == Len(net[t])
           kept == {i \in n - k + 1 .. n : net[t][i].from \in group}
           c == Cardinality(kept)
<1>1. net[t] \in Seq(Messages) /\ n \in Nat
  BY LenProperties DEF TypeInv, TypeOK
<1>2. kept \subseteq 1 .. n
  BY <1>1
<1>3. c \in Nat
  <2>1. IsFiniteSet(1 .. n)
    BY <1>1, FS_Interval
  <2> QED
    BY <1>2, <2>1, FS_Subset, FS_CardinalityType
<1>4. PICK f \in [1 .. c -> kept] : a = [i \in 1 .. c |-> net[t][f[i]]]
  BY DEF survivors, listings
<1> HIDE DEF c, kept
<1>5. \A j \in 1 .. n : net[t][j] \in Messages
  BY <1>1, ElementOfSeq
<1>6. \A i \in 1 .. c : f[i] \in 1 .. n /\ a[i] = net[t][f[i]]
  BY <1>2, <1>4
<1>7. a \in [1 .. c -> Messages]
  BY <1>4, <1>5, <1>6
<1>8. a \in Seq(Messages) /\ Len(a) = c
  BY <1>3, <1>7, FunctionIsSeq
<1> QED
  BY <1>6, <1>8

(* The messages that are not cut off.                                      *)
LEMMA CutType ==
    ASSUME TypeInv, NEW t \in Servers, NEW k \in Nat, k <= Len(net[t])
    PROVE  /\ cut(t, k) \in Seq(Messages)
           /\ \A i \in 1 .. Len(cut(t, k)) :
                 i \in 1 .. Len(net[t]) /\ cut(t, k)[i] = net[t][i]
<1>1. net[t] \in Seq(Messages) /\ Len(net[t]) \in Nat
  BY LenProperties DEF TypeInv, TypeOK
<1>2. \A i \in 1 .. Len(net[t]) - k : net[t][i] \in Messages
  BY <1>1, ElementOfSeq
<1>3. /\ cut(t, k) \in Seq(Messages)
      /\ Len(cut(t, k)) = IF 1 <= Len(net[t]) - k THEN Len(net[t]) - k - 1 + 1 ELSE 0
      /\ \A i \in 1 .. Len(net[t]) - k - 1 + 1 : cut(t, k)[i] = net[t][1 + i - 1]
  BY <1>1, <1>2, SubSeqProperties DEF cut
<1> QED
  BY <1>1, <1>3

(* No more messages can be lost than are on their way.                     *)
LEMMA SinceViewBound ==
    ASSUME TypeInv, NEW t \in Servers
    PROVE  sinceView(t) \in Nat /\ sinceView(t) <= Len(net[t])
<1> DEFINE K == {i \in DOMAIN net[t] :
                    \A j \in i .. Len(net[t]) : ~ IsView(net[t][j])}
<1>1. Len(net[t]) \in Nat /\ DOMAIN net[t] = 1 .. Len(net[t])
  BY LenProperties DEF TypeInv, TypeOK
<1>2. /\ IsFiniteSet(1 .. Len(net[t]))
      /\ Cardinality(1 .. Len(net[t])) = Len(net[t])
  BY <1>1, FS_Interval
<1>3. K \subseteq 1 .. Len(net[t])
  BY <1>1
<1> HIDE DEF K
<1>4. Cardinality(K) \in Nat /\ Cardinality(K) <= Len(net[t])
  BY <1>2, <1>3, FS_Subset, FS_CardinalityType
<1> QED
  BY <1>4 DEF sinceView, K

(* What Split does to the queues of one of its groups G: of the messages   *)
(* that were on their way to x, those of before the cut stay, followed by  *)
(* survivors and a view.                                                   *)
LEMMA SplitQueues ==
    ASSUME TypeInv, NEW A \in SUBSET Servers, NEW B \in SUBSET Servers, Split(A, B)
    PROVE  \A x \in Servers :
              \/ net'[x] = net[x]
              \/ \E G \in {A, B}, t \in Servers, k \in Nat :
                    /\ k <= Len(net[t]) /\ k <= Len(net[x])
                    /\ \E a \in survivors(G, t, k) :
                          net'[x] = cut(x, k) \o a \o view(G)
<1>1. PICK s \in A, t \in B :
         \E j \in 0 .. sinceView(s), k \in 0 .. sinceView(t) :
            /\ mayLose(A, j)
            /\ mayLose(B, k)
            /\ \E a \in survivors(A, s, j), b \in survivors(B, t, k) :
                 net' = [x \in Servers |->
                           IF x \in A THEN cut(x, j) \o a \o view(A)
                           ELSE IF x \in B THEN cut(x, k) \o b \o view(B)
                           ELSE net[x]]
  BY DEF Split
<1>2. PICK j \in 0 .. sinceView(s), k \in 0 .. sinceView(t) :
            /\ mayLose(A, j)
            /\ mayLose(B, k)
            /\ \E a \in survivors(A, s, j), b \in survivors(B, t, k) :
                 net' = [x \in Servers |->
                           IF x \in A THEN cut(x, j) \o a \o view(A)
                           ELSE IF x \in B THEN cut(x, k) \o b \o view(B)
                           ELSE net[x]]
  BY <1>1
<1>3. PICK a \in survivors(A, s, j), b \in survivors(B, t, k) :
         net' = [x \in Servers |->
                   IF x \in A THEN cut(x, j) \o a \o view(A)
                   ELSE IF x \in B THEN cut(x, k) \o b \o view(B)
                   ELSE net[x]]
  BY <1>2
<1>4. /\ j \in Nat /\ \A x \in A : j <= Len(net[x])
      /\ k \in Nat /\ \A x \in B : k <= Len(net[x])
  <2>1. \A x \in Servers : /\ sinceView(x) \in Nat /\ Len(net[x]) \in Nat
                           /\ sinceView(x) <= Len(net[x])
    BY SinceViewBound, LenProperties DEF TypeInv, TypeOK
  <2>2. j \in Nat /\ k \in Nat
    BY <2>1
  <2>3. (\A x \in A : j <= sinceView(x)) /\ (\A x \in B : k <= sinceView(x))
    BY <1>2 DEF mayLose
  <2> QED
    BY <2>1, <2>2, <2>3
<1>5. ASSUME NEW x \in Servers
      PROVE  \/ net'[x] = net[x]
             \/ \E G \in {A, B}, v \in Servers, l \in Nat :
                   /\ l <= Len(net[v]) /\ l <= Len(net[x])
                   /\ \E e \in survivors(G, v, l) :
                         net'[x] = cut(x, l) \o e \o view(G)
  <2>1. CASE x \in A
    BY <1>3, <1>4, <2>1
  <2>2. CASE x \notin A /\ x \in B
    BY <1>3, <1>4, <2>2
  <2>3. CASE x \notin A /\ x \notin B
    BY <1>3, <2>3
  <2> QED
    BY <2>1, <2>2, <2>3
<1> QED
  BY <1>5

(* A split keeps the types.                                                *)
LEMMA SplitType ==
    ASSUME TypeInv, NEW A \in SUBSET Servers, NEW B \in SUBSET Servers, Split(A, B)
    PROVE  TypeInv'
<1>1. ASSUME NEW x \in Servers
      PROVE  net'[x] \in Seq(Messages)
  <2>1. CASE net'[x] = net[x]
    BY <2>1 DEF TypeInv, TypeOK
  <2>2. ASSUME NEW G \in {A, B}, NEW t \in Servers, NEW k \in Nat,
               k <= Len(net[t]), k <= Len(net[x]),
               NEW a \in survivors(G, t, k),
               net'[x] = cut(x, k) \o a \o view(G)
        PROVE  net'[x] \in Seq(Messages)
    <3>1. view(G) \in Seq(Messages)
      <4>1. [type |-> "VIEW", members |-> G] \in Messages
        BY DEF Messages, ViewMessages
      <4> QED
        BY <4>1 DEF view
    <3>2. a \in Seq(Messages)
      BY <2>2, SurvivorsType
    <3>3. cut(x, k) \in Seq(Messages)
      BY <2>2, CutType
    <3> QED
      BY <2>2, <3>1, <3>2, <3>3, ConcatProperties
  <2>3. \/ net'[x] = net[x]
        \/ \E G \in {A, B}, t \in Servers, k \in Nat :
              /\ k <= Len(net[t]) /\ k <= Len(net[x])
              /\ \E a \in survivors(G, t, k) :
                    net'[x] = cut(x, k) \o a \o view(G)
    BY SplitQueues
  <2> QED
    BY <2>1, <2>2, <2>3
<1>2. net' \in [Servers -> Seq(Messages)]
  <2>1. DOMAIN net' = Servers /\ net' = [x \in Servers |-> net'[x]]
    BY DEF Split
  <2> QED
    BY <1>1, <2>1
<1> QED
  BY <1>2, TypeStep DEF Split, TypeInv, TypeOK

(* A merge keeps the types.                                                *)
LEMMA MergeType ==
    ASSUME TypeInv, NEW s \in Servers, NEW t \in Servers, Merge(s, t)
    PROVE  TypeInv'
<1> DEFINE group == conn[s] \cup conn[t]
<1>1. group \in SUBSET Servers
  BY DEF TypeInv, TypeOK
<1> HIDE DEF group
<1>2. view(group) \in Seq(Messages)
  <2>1. [type |-> "VIEW", members |-> group] \in Messages
    BY <1>1 DEF Messages, ViewMessages
  <2> QED
    BY <2>1 DEF view
<1>3. net' = [x \in Servers |->
                IF x \in group THEN net[x] \o view(group) ELSE net[x]]
  BY DEF Merge, group
<1>4. net' \in [Servers -> Seq(Messages)]
  BY <1>2, <1>3, ConcatProperties DEF TypeInv, TypeOK
<1>5. conn' \in [Servers -> SUBSET Servers]
  BY <1>1 DEF Merge, group, TypeInv, TypeOK
<1>6. changes' \in Nat
  BY DEF Merge, TypeInv, TypeOK
<1>7. UNCHANGED <<local_state, received>>
  BY DEF Merge
<1> QED
  BY <1>4, <1>5, <1>6, <1>7, TypeStep DEF TypeInv, TypeOK

(* Every step keeps the types.                                             *)
LEMMA TypeNext == TypeInv /\ [Next]_vars => TypeInv'
<1> SUFFICES ASSUME TypeInv, [Next]_vars PROVE TypeInv'
  OBVIOUS
<1>1. CASE \E s \in Servers : Receive(s) \/ Command(s)
  BY <1>1, ReceiveUpdateType, ReceiveMatricesType, ReceiveViewType, CommandType
  DEF Receive
<1>2. CASE \E A, B \in SUBSET Servers : Split(A, B)
  BY <1>2, SplitType
<1>3. CASE \E s, t \in Servers : Merge(s, t)
  BY <1>3, MergeType
<1>4. CASE UNCHANGED vars
  BY <1>4 DEF vars, TypeInv, TypeOK
<1> QED
  BY <1>1, <1>2, <1>3, <1>4 DEF Next

(* The types are an invariant of the mail servers: whatever the handlers   *)
(* do with ranges, matrices and lists, no index, list or count leaves its  *)
(* type, and every CHOOSE of the reconciliation has something to choose.   *)
THEOREM TypeCorrect == Spec => []TypeOK
<1>1. Spec => []TypeInv
  BY TypeInit, TypeNext, PTL DEF Spec
<1>2. TypeInv => TypeOK
  BY DEF TypeInv
<1> QED
  BY <1>1, <1>2, PTL

-----------------------------------------------------------------------------
(* The steps, seen from the counters, the buffers, the vectors and the     *)
(* history: a server issues an update, hears one, hears a matrix, or       *)
(* nothing of these changes.                                               *)

onTheWay == UNION {{net[x][k] : k \in DOMAIN net[x]} : x \in Servers}

Keeps(t) ==
    /\ local_state'[t].updateIndex = local_state[t].updateIndex
    /\ local_state'[t].buffer = local_state[t].buffer
    /\ local_state'[t].latest_update = local_state[t].latest_update
    /\ received'[t] = received[t]

OthersKeep(s) == \A t \in Servers \ {s} : Keeps(t)

Known(s, u) == findUpdate(local_state[s], u.procID, u.index)

Stores(s, u) ==
    /\ local_state'[s].updateIndex = larger(local_state[s].updateIndex + 1, u.index)
    /\ local_state'[s].buffer = local_state[s].buffer \cup {u}
    /\ local_state'[s].latest_update =
         [local_state[s].latest_update EXCEPT ![s][u.procID] = larger(@, u.index)]
    /\ received'[s] = received[s] \cup {u}

Applies(s, u) ==
    /\ Known(s, u) => Keeps(s)
    /\ ~ Known(s, u) => Stores(s, u)

OnlyResends(s) ==
    \A m \in onTheWay' :
        m \in onTheWay \/ (m.type = "UPDATE" /\ m.update \in local_state[s].buffer)

Issues(s, u) ==
    /\ u.procID = s
    /\ u.index = local_state[s].updateIndex + 1
    /\ Applies(s, u)
    /\ OthersKeep(s)
    /\ \A m \in onTheWay' : m \in onTheWay \/ (m.type = "UPDATE" /\ m.update = u)

HearsUpdate(s, m) ==
    /\ m.type = "UPDATE"
    /\ m.update \in Updates
    /\ Applies(s, m.update)
    /\ OthersKeep(s)
    /\ OnlyResends(s)

HearsMatrix(s, m) ==
    /\ m.type = "MATRIX"
    /\ m.matrix \in Matrices
    /\ local_state'[s].updateIndex = local_state[s].updateIndex
    /\ local_state'[s].latest_update =
         updateMatrix(local_state[s], s, m).latest_update
    /\ local_state'[s].buffer \subseteq local_state[s].buffer
    /\ \A u \in local_state[s].buffer \ local_state'[s].buffer : \A i \in Servers :
         ~ (local_state'[s].latest_update[i][u.procID] <= u.index)
    /\ received'[s] = received[s]
    /\ OthersKeep(s)
    /\ OnlyResends(s)

Quiet ==
    /\ \A s \in Servers : Keeps(s)
    /\ \A m \in onTheWay' :
         \/ m \in onTheWay
         \/ m.type = "VIEW"
         \/ m.type = "MATRIX" /\ \E s \in Servers :
                                   m.matrix = local_state[s].latest_update

(* What a multicast of s puts on the way, with or without a message that s *)
(* consumed before.                                                        *)
LEMMA MulticastAdds ==
    ASSUME TypeInv, NEW s \in Servers, NEW n \in [Servers -> Seq(Messages)],
           \A x \in Servers : \A k \in 1 .. Len(n[x]) : n[x][k] \in onTheWay,
           NEW msgs \in Seq(Messages), net' = multicast(n, s, msgs)
    PROVE  \A m \in onTheWay' : m \in onTheWay \/ \E j \in 1 .. Len(msgs) : m = msgs[j]
<1>1. SUFFICES ASSUME NEW x \in Servers, NEW k \in DOMAIN net'[x]
               PROVE  \/ net'[x][k] \in onTheWay
                      \/ \E j \in 1 .. Len(msgs) : net'[x][k] = msgs[j]
  BY DEF onTheWay
<1>2. Len(n[x]) \in Nat /\ Len(msgs) \in Nat
  BY LenProperties
<1>3. CASE x \in conn[s]
  <2>1. net'[x] = n[x] \o msgs
    BY <1>3 DEF multicast
  <2>2. /\ n[x] \o msgs \in Seq(Messages)
        /\ Len(n[x] \o msgs) = Len(n[x]) + Len(msgs)
        /\ \A i \in 1 .. Len(n[x]) + Len(msgs) :
              (n[x] \o msgs)[i] = IF i <= Len(n[x]) THEN n[x][i]
                                  ELSE msgs[i - Len(n[x])]
    BY ConcatProperties
  <2>3. k \in 1 .. Len(n[x]) + Len(msgs)
    BY <2>1, <2>2, LenProperties
  <2>4. CASE k <= Len(n[x])
    BY <1>2, <2>1, <2>2, <2>3, <2>4
  <2>5. CASE ~ (k <= Len(n[x]))
    <3>1. k - Len(n[x]) \in 1 .. Len(msgs)
      BY <1>2, <2>3, <2>5
    <3>2. net'[x][k] = msgs[k - Len(n[x])]
      BY <2>1, <2>2, <2>3, <2>5
    <3> QED
      BY <3>1, <3>2
  <2> QED
    BY <2>4, <2>5
<1>4. CASE x \notin conn[s]
  <2>1. net'[x] = n[x]
    BY <1>4 DEF multicast
  <2> QED
    BY <2>1, LenProperties
<1> QED
  BY <1>3, <1>4

(* What is on the way after a message was consumed was there before.       *)
LEMMA ConsumeKeeps ==
    ASSUME TypeInv, NEW s \in Servers, net[s] # <<>>
    PROVE  /\ Head(net[s]) \in onTheWay
           /\ \A x \in Servers : \A k \in 1 .. Len(consume(s)[x]) :
                 consume(s)[x][k] \in onTheWay
<1>1. \A x \in Servers : /\ net[x] \in Seq(Messages)
                         /\ DOMAIN net[x] = 1 .. Len(net[x])
                         /\ Len(net[x]) \in Nat
  BY LenProperties DEF TypeInv, TypeOK
<1>2. /\ Len(Tail(net[s])) = Len(net[s]) - 1
      /\ \A k \in 1 .. Len(Tail(net[s])) : Tail(net[s])[k] = net[s][k + 1]
  BY <1>1, HeadTailProperties
<1>3. Len(net[s]) > 0
  BY <1>1, EmptySeq
<1>4. Head(net[s]) = net[s][1] /\ 1 \in DOMAIN net[s]
  BY <1>1, <1>3
<1>5. Head(net[s]) \in onTheWay
  BY <1>4 DEF onTheWay
<1>6. ASSUME NEW x \in Servers, NEW k \in 1 .. Len(consume(s)[x])
      PROVE  consume(s)[x][k] \in onTheWay
  <2>1. CASE x = s
    <3>1. consume(s)[x] = Tail(net[s])
      BY <2>1 DEF consume, TypeInv, TypeOK
    <3>2. k + 1 \in 1 .. Len(net[s]) /\ consume(s)[x][k] = net[s][k + 1]
      BY <1>1, <1>2, <1>6, <3>1
    <3> QED
      BY <1>1, <3>2 DEF onTheWay
  <2>2. CASE x # s
    <3>1. consume(s)[x] = net[x]
      BY <2>2 DEF consume, TypeInv, TypeOK
    <3> QED
      BY <1>1, <1>6, <3>1 DEF onTheWay
  <2> QED
    BY <2>1, <2>2
<1> QED
  BY <1>5, <1>6

(* applyUpdate and its history, from a state with the same counter, buffer *)
(* and vectors.                                                            *)
LEMMA AppliesFacts ==
    ASSUME TypeInv, NEW s \in Servers, NEW u \in Updates, NEW st \in FiniteStates,
           st.updateIndex = local_state[s].updateIndex,
           st.buffer = local_state[s].buffer,
           st.latest_update = local_state[s].latest_update,
           local_state' = [local_state EXCEPT ![s] = applyUpdate(st, s, u)],
           remember(s, local_state[s], u)
    PROVE  Applies(s, u) /\ OthersKeep(s)
<1>1. /\ local_state'[s] = applyUpdate(st, s, u)
      /\ \A t \in Servers \ {s} : local_state'[t] = local_state[t]
  BY DEF TypeInv
<1>2. /\ received'[s] = IF Known(s, u) THEN received[s] ELSE received[s] \cup {u}
      /\ \A t \in Servers \ {s} : received'[t] = received[t]
  BY DEF remember, Known, TypeInv, TypeOK
<1>3. findUpdate(st, u.procID, u.index) <=> Known(s, u)
  BY DEF findUpdate, Known
<1>4. ASSUME Known(s, u) PROVE Applies(s, u)
  <2>1. local_state'[s] = st
    BY <1>1, <1>3, <1>4 DEF applyUpdate
  <2> QED
    BY <1>2, <1>4, <2>1 DEF Applies, Keeps
<1>5. ASSUME ~ Known(s, u) PROVE Applies(s, u)
  <2>1. /\ local_state'[s].updateIndex = larger(st.updateIndex + 1, u.index)
        /\ local_state'[s].buffer = st.buffer \cup {u}
        /\ local_state'[s].latest_update =
             [st.latest_update EXCEPT ![s][u.procID] = larger(@, u.index)]
    BY <1>1, <1>3, <1>5, ApplyUpdateEffect
  <2> QED
    BY <1>2, <1>5, <2>1 DEF Applies, Stores
<1> QED
  BY <1>1, <1>2, <1>4, <1>5 DEF OthersKeep, Keeps

(* A command issues an update.                                             *)
LEMMA CommandKind ==
    ASSUME TypeInv, NEW s \in Servers, Command(s)
    PROVE  \E u \in Updates : Issues(s, u)
<1>1. PICK type \in UpdateTypes, user \in Users, mail \in MailIds :
         issueUpdate(s, generateUpdate(local_state[s], s, type, user, mail))
  BY CommandIsUpdate
<1> DEFINE u == generateUpdate(local_state[s], s, type, user, mail)
<1>2. u \in Updates
  BY GenerateUpdateType DEF TypeInv, TypeOK
<1>3. u.procID = s /\ u.index = local_state[s].updateIndex + 1
  BY DEF generateUpdate
<1> HIDE DEF u
<1>4. issueUpdate(s, u)
  BY <1>1 DEF u
<1>5. Applies(s, u) /\ OthersKeep(s)
  BY <1>2, <1>4, AppliesFacts DEF issueUpdate, TypeInv
<1>6. \A m \in onTheWay' : m \in onTheWay \/ (m.type = "UPDATE" /\ m.update = u)
  <2> DEFINE msg(junk) == [type |-> "UPDATE", from |-> s, proc_num |-> junk,
                           update |-> u, resent |-> FALSE]
             msgs(junk) == <<msg(junk)>>
  <2>1. PICK junk \in HeaderJunk : net' = multicast(net, s, msgs(junk))
    BY <1>4 DEF issueUpdate
  <2>2. msg(junk) \in Messages
    BY <1>2, HeaderJunkAssumption DEF Messages, UpdateMessages
  <2>3. /\ msgs(junk) \in Seq(Messages)
        /\ \A j \in 1 .. Len(msgs(junk)) : msgs(junk)[j] = msg(junk)
    <3> HIDE DEF msg
    <3> QED  BY <2>2
  <2>4. msg(junk).type = "UPDATE" /\ msg(junk).update = u
    OBVIOUS
  <2> HIDE DEF msg, msgs
  <2>5. /\ net \in [Servers -> Seq(Messages)]
        /\ \A x \in Servers : \A k \in 1 .. Len(net[x]) : net[x][k] \in onTheWay
    BY LenProperties DEF TypeInv, TypeOK, onTheWay
  <2>6. \A m \in onTheWay' : m \in onTheWay \/ \E j \in 1 .. Len(msgs(junk)) :
                                                  m = msgs(junk)[j]
    BY <2>1, <2>3, <2>5, MulticastAdds
  <2> QED
    BY <2>3, <2>4, <2>6
<1> QED
  BY <1>2, <1>3, <1>5, <1>6 DEF Issues

(* A batch of resent updates puts updates of the buffer on the way.        *)
LEMMA BatchOnlyResends ==
    ASSUME TypeInv, NEW s \in Servers, net[s] # <<>>, NEW us \in SUBSET Updates,
           IsFiniteSet(us), us \subseteq local_state[s].buffer,
           NEW msgs \in batches(s, us), net' = multicast(consume(s), s, msgs)
    PROVE  OnlyResends(s)
<1>1. /\ msgs \in Seq(Messages)
      /\ \A k \in 1 .. Len(msgs) : \E u \in us : msgs[k] = resend(s, u)
  BY BatchType
<1>2. /\ consume(s) \in [Servers -> Seq(Messages)]
      /\ \A x \in Servers : \A k \in 1 .. Len(consume(s)[x]) :
            consume(s)[x][k] \in onTheWay
  BY DeliveryType, ConsumeKeeps
<1>3. \A m \in onTheWay' : m \in onTheWay \/ \E j \in 1 .. Len(msgs) : m = msgs[j]
  BY <1>1, <1>2, MulticastAdds
<1>4. \A u : resend(s, u).type = "UPDATE" /\ resend(s, u).update = u
  BY DEF resend
<1> QED
  BY <1>1, <1>3, <1>4 DEF OnlyResends

(* Receiving an update is hearing it.                                      *)
LEMMA ReceiveUpdateKind ==
    ASSUME TypeInv, NEW s \in Servers, ReceiveUpdate(s)
    PROVE  \E m \in onTheWay : HearsUpdate(s, m)
<1> DEFINE m == Head(net[s])
           st == local_state[s]
           echo == m.proc_num = s /\ st.status = "SENDINGUPDATES"
           st1 == IF echo THEN sendMissingUpdates(st, 1) ELSE st
           us == IF echo THEN toSend(st, 1) ELSE {}
<1>1. /\ local_state' = [local_state EXCEPT ![s] = applyUpdate(st1, s, m.update)]
      /\ \E msgs \in batches(s, us) : net' = multicast(consume(s), s, msgs)
      /\ remember(s, st, m.update)
      /\ net[s] # <<>> /\ m.type = "UPDATE"
  BY DEF ReceiveUpdate, delivers
<1>2. m \in onTheWay /\ m.update \in Updates
  BY <1>1, DeliveryType, ConsumeKeeps
  DEF Messages, UpdateMessages, MatrixMessages, ViewMessages
<1>3. st \in FiniteStates
  BY DEF TypeInv
<1>4. /\ st1 \in FiniteStates
      /\ st1.updateIndex = st.updateIndex
      /\ st1.buffer = st.buffer
      /\ st1.latest_update = st.latest_update
  BY <1>3, SendMissingUpdatesType, SendMissingUpdatesEffect
<1>5. us \in SUBSET Updates /\ IsFiniteSet(us) /\ us \subseteq local_state[s].buffer
  BY <1>3, ToSendType, FS_EmptySet
<1> HIDE DEF m, st1, us
<1>6. Applies(s, m.update) /\ OthersKeep(s)
  BY <1>1, <1>2, <1>4, AppliesFacts
<1>7. OnlyResends(s)
  BY <1>1, <1>5, BatchOnlyResends
<1> QED
  BY <1>1, <1>2, <1>6, <1>7 DEF HearsUpdate

(* A matrix is heard or changes nothing.                                   *)
LEMMA ReceiveMatricesKind ==
    ASSUME TypeInv, NEW s \in Servers,
           IgnoreMatrix(s) \/ ReceiveMatrix(s) \/ ReceiveLastMatrix(s)
    PROVE  Quiet \/ \E m \in onTheWay : HearsMatrix(s, m)
<1> DEFINE m == Head(net[s])
           counted == countMatrix(local_state[s], s, m)
<1>0. delivers(s, "MATRIX")
  BY DEF IgnoreMatrix, ReceiveMatrix, ReceiveLastMatrix
<1>1. /\ net[s] # <<>> /\ m \in onTheWay /\ m.type = "MATRIX"
      /\ m.matrix \in Matrices
      /\ counted \in FiniteStates
  BY <1>0, MatrixType, ConsumeKeeps DEF delivers
<1>2. /\ local_state[s] \in FiniteStates
      /\ counted.updateIndex = local_state[s].updateIndex
      /\ counted.buffer = local_state[s].buffer
      /\ counted.latest_update = updateMatrix(local_state[s], s, m).latest_update
  BY CountMatrixEffect DEF TypeInv
<1> HIDE DEF m, counted
<1>3. received' = received
  BY DEF IgnoreMatrix, ReceiveMatrix, ReceiveLastMatrix
<1>4. ASSUME net' = consume(s) PROVE onTheWay' \subseteq onTheWay
  <2>1. /\ consume(s) \in [Servers -> Seq(Messages)]
        /\ \A x \in Servers : \A k \in 1 .. Len(consume(s)[x]) :
              consume(s)[x][k] \in onTheWay
    BY <1>1, DeliveryType, ConsumeKeeps
  <2> QED
    BY <1>4, <2>1, LenProperties DEF onTheWay
<1>5. CASE IgnoreMatrix(s)
  <2>1. \A t \in Servers : Keeps(t)
    BY <1>5 DEF IgnoreMatrix, Keeps
  <2> QED
    BY <1>4, <1>5, <2>1 DEF IgnoreMatrix, Quiet
<1>6. CASE ReceiveMatrix(s)
  <2>1. local_state' = [local_state EXCEPT ![s] = counted] /\ net' = consume(s)
    BY <1>6 DEF ReceiveMatrix, counted, m
  <2>2. /\ local_state'[s] = counted
        /\ \A t \in Servers \ {s} : local_state'[t] = local_state[t]
    BY <2>1 DEF TypeInv
  <2>3. OthersKeep(s)
    BY <1>3, <2>2 DEF OthersKeep, Keeps
  <2> QED
    BY <1>1, <1>2, <1>3, <1>4, <2>1, <2>2, <2>3 DEF HearsMatrix, OnlyResends
<1>7. CASE ReceiveLastMatrix(s)
  <2> DEFINE st == [counted EXCEPT !.status = "SENDINGUPDATES"]
             planned == continueReconcile(st, s)
             us == toSend(planned, MaxSend)
             next == sendMissingUpdates(planned, MaxSend)
  <2>1. /\ local_state' = [local_state EXCEPT ![s] = next]
        /\ \E msgs \in batches(s, us) : net' = multicast(consume(s), s, msgs)
    BY <1>7 DEF ReceiveLastMatrix, counted, m
  <2>2. /\ st \in FiniteStates
        /\ st.updateIndex = counted.updateIndex
        /\ st.buffer = counted.buffer
        /\ st.latest_update = counted.latest_update
    BY <1>1 DEF FiniteStates, LocalStates, Status
  <2> HIDE DEF st
  <2>3. /\ planned \in FiniteStates
        /\ planned.updateIndex = st.updateIndex
        /\ planned.latest_update = st.latest_update
        /\ planned.buffer \subseteq st.buffer
        /\ \A u \in st.buffer \ planned.buffer : \A i \in Servers :
              ~ (st.latest_update[i][u.procID] <= u.index)
    BY <2>2, ContinueReconcileType, ContinueReconcileEffect
  <2> HIDE DEF planned
  <2>4. /\ next.updateIndex = planned.updateIndex
        /\ next.buffer = planned.buffer
        /\ next.latest_update = planned.latest_update
    BY <2>3, MaxSendAssumption, SendMissingUpdatesEffect
  <2>5. us \in SUBSET Updates /\ IsFiniteSet(us) /\ us \subseteq local_state[s].buffer
    BY <1>2, <2>2, <2>3, MaxSendAssumption, ToSendType
  <2> HIDE DEF next, us
  <2>6. OnlyResends(s)
    BY <1>1, <2>1, <2>5, BatchOnlyResends DEF m
  <2>7. /\ local_state'[s] = next
        /\ \A t \in Servers \ {s} : local_state'[t] = local_state[t]
    BY <2>1 DEF TypeInv
  <2>8. OthersKeep(s)
    BY <1>3, <2>7 DEF OthersKeep, Keeps
  <2>9. /\ local_state'[s].updateIndex = local_state[s].updateIndex
        /\ local_state'[s].latest_update =
             updateMatrix(local_state[s], s, m).latest_update
        /\ local_state'[s].buffer \subseteq local_state[s].buffer
        /\ \A u \in local_state[s].buffer \ local_state'[s].buffer :
             \A i \in Servers :
                ~ (local_state'[s].latest_update[i][u.procID] <= u.index)
    BY <1>2, <2>2, <2>3, <2>4, <2>7
  <2> QED
    BY <1>1, <1>3, <2>6, <2>8, <2>9 DEF HearsMatrix
<1> QED
  BY <1>5, <1>6, <1>7

(* A membership puts at most the matrix of its receiver on the way.        *)
LEMMA ReceiveViewKind ==
    ASSUME TypeInv, NEW s \in Servers, ReceiveView(s)
    PROVE  Quiet
<1> DEFINE members == Head(net[s]).members
           st == [local_state[s] EXCEPT !.current_membership = members,
                                        !.num_matrix_recvd = 0]
           msg == [type |-> "MATRIX", from |-> s, matrix |-> st.latest_update]
           msgs == <<msg>>
<1>1. /\ \/ /\ local_state' = [local_state EXCEPT ![s] = [st EXCEPT !.status = "NORMAL"]]
            /\ net' = consume(s)
         \/ /\ local_state' = [local_state EXCEPT ![s] = [st EXCEPT !.status = "RECONCILE"]]
            /\ net' = multicast(consume(s), s, msgs)
      /\ received' = received
      /\ net[s] # <<>>
  BY DEF ReceiveView, delivers
<1>2. local_state[s] \in FiniteStates /\ local_state \in [Servers -> FiniteStates]
  BY DEF TypeInv
<1>3. /\ st.updateIndex = local_state[s].updateIndex
      /\ st.buffer = local_state[s].buffer
      /\ st.latest_update = local_state[s].latest_update
      /\ \A c : /\ [st EXCEPT !.status = c].updateIndex = local_state[s].updateIndex
               /\ [st EXCEPT !.status = c].buffer = local_state[s].buffer
               /\ [st EXCEPT !.status = c].latest_update = local_state[s].latest_update
  BY <1>2 DEF FiniteStates, LocalStates
<1> HIDE DEF st
<1>4. \A t \in Servers : Keeps(t)
  <2>1. ASSUME NEW c, local_state' = [local_state EXCEPT ![s] = [st EXCEPT !.status = c]]
        PROVE  \A t \in Servers : Keeps(t)
    BY <1>1, <1>2, <1>3, <2>1 DEF Keeps
  <2> QED
    BY <1>1, <2>1
<1>5. /\ msg.type = "MATRIX" /\ msg.matrix = local_state[s].latest_update
      /\ msgs \in Seq(Messages)
      /\ \A j \in 1 .. Len(msgs) : msgs[j] = msg
  <2>1. msg.type = "MATRIX" /\ msg.matrix = local_state[s].latest_update
    BY <1>3
  <2>2. msg \in Messages
    BY <1>2, <1>3 DEF Messages, MatrixMessages, FiniteStates, LocalStates
  <2>3. msgs \in Seq(Messages) /\ \A j \in 1 .. Len(msgs) : msgs[j] = msg
    <3> HIDE DEF msg
    <3> QED  BY <2>2
  <2> QED
    BY <2>1, <2>2, <2>3
<1> HIDE DEF msg, msgs
<1>6. /\ consume(s) \in [Servers -> Seq(Messages)]
      /\ \A x \in Servers : \A k \in 1 .. Len(consume(s)[x]) :
            consume(s)[x][k] \in onTheWay
  BY <1>1, DeliveryType, ConsumeKeeps
<1>7. CASE net' = consume(s)
  <2>1. onTheWay' \subseteq onTheWay
    BY <1>6, <1>7, LenProperties DEF onTheWay
  <2> QED
    BY <1>4, <2>1 DEF Quiet
<1>8. CASE net' = multicast(consume(s), s, msgs)
  <2>1. \A m \in onTheWay' : m \in onTheWay \/ m = msg
    BY <1>5, <1>6, <1>8, MulticastAdds
  <2> QED
    BY <1>4, <1>5, <2>1 DEF Quiet
<1> QED
  BY <1>1, <1>7, <1>8

(* The network puts views on the way and nothing else.                     *)
LEMMA SplitKind ==
    ASSUME TypeInv, NEW A \in SUBSET Servers, NEW B \in SUBSET Servers, Split(A, B)
    PROVE  Quiet
<1>1. \A t \in Servers : Keeps(t)
  BY DEF Split, Keeps
<1>2. ASSUME NEW x \in Servers, NEW i \in DOMAIN net'[x]
      PROVE  net'[x][i] \in onTheWay \/ net'[x][i].type = "VIEW"
  <2>0. \A y \in Servers : \A j \in 1 .. Len(net[y]) : net[y][j] \in onTheWay
    BY LenProperties DEF TypeInv, TypeOK, onTheWay
  <2>1. CASE net'[x] = net[x]
    BY <2>1 DEF onTheWay
  <2>2. ASSUME NEW G \in {A, B}, NEW t \in Servers, NEW k \in Nat,
               k <= Len(net[t]), k <= Len(net[x]),
               NEW a \in survivors(G, t, k),
               net'[x] = cut(x, k) \o a \o view(G)
        PROVE  net'[x][i] \in onTheWay \/ net'[x][i].type = "VIEW"
    <3> DEFINE c == cut(x, k)
               v == view(G)
    <3>1. /\ c \in Seq(Messages)
          /\ \A j \in 1 .. Len(c) : c[j] \in onTheWay
      <4>1. /\ c \in Seq(Messages)
            /\ \A j \in 1 .. Len(c) : j \in 1 .. Len(net[x]) /\ c[j] = net[x][j]
        BY <2>2, CutType
      <4> QED
        BY <2>0, <4>1
    <3>2. /\ a \in Seq(Messages)
          /\ \A j \in 1 .. Len(a) : a[j] \in onTheWay
      <4>1. /\ a \in Seq(Messages)
            /\ \A j \in 1 .. Len(a) : a[j] \in {net[t][l] : l \in 1 .. Len(net[t])}
        BY <2>2, SurvivorsType
      <4> QED
        BY <2>0, <4>1
    <3>3. /\ v \in Seq(Messages)
          /\ \A j \in 1 .. Len(v) : v[j].type = "VIEW"
      <4>1. [type |-> "VIEW", members |-> G] \in Messages
        BY DEF Messages, ViewMessages
      <4> QED
        BY <4>1 DEF view
    <3> HIDE DEF c, v
    <3>4. /\ c \o a \in Seq(Messages)
          /\ \A j \in 1 .. Len(c \o a) : (c \o a)[j] \in onTheWay
      <4>1. /\ c \o a \in Seq(Messages)
            /\ Len(c \o a) = Len(c) + Len(a)
            /\ \A j \in 1 .. Len(c) + Len(a) :
                  (c \o a)[j] = IF j <= Len(c) THEN c[j] ELSE a[j - Len(c)]
            /\ Len(c) \in Nat /\ Len(a) \in Nat
        BY <3>1, <3>2, ConcatProperties, LenProperties
      <4> QED
        BY <3>1, <3>2, <4>1
    <3> DEFINE d == c \o a
    <3> HIDE DEF d
    <3>5. /\ d \o v \in Seq(Messages)
          /\ Len(d \o v) = Len(d) + Len(v)
          /\ \A j \in 1 .. Len(d) + Len(v) :
                (d \o v)[j] = IF j <= Len(d) THEN d[j] ELSE v[j - Len(d)]
          /\ Len(d) \in Nat /\ Len(v) \in Nat
      BY <3>3, <3>4, ConcatProperties, LenProperties DEF d
    <3>6. net'[x] = d \o v
      BY <2>2 DEF d, c, v
    <3>7. i \in 1 .. Len(d) + Len(v)
      BY <3>5, <3>6, LenProperties
    <3>8. CASE i <= Len(d)
      BY <3>4, <3>5, <3>6, <3>7, <3>8 DEF d
    <3>9. CASE ~ (i <= Len(d))
      <4>1. i - Len(d) \in 1 .. Len(v)
        BY <3>5, <3>7, <3>9
      <4> QED
        BY <3>3, <3>5, <3>6, <3>7, <3>9, <4>1
    <3> QED
      BY <3>8, <3>9
  <2>3. \/ net'[x] = net[x]
        \/ \E G \in {A, B}, t \in Servers, k \in Nat :
              /\ k <= Len(net[t]) /\ k <= Len(net[x])
              /\ \E a \in survivors(G, t, k) :
                    net'[x] = cut(x, k) \o a \o view(G)
    BY SplitQueues
  <2> QED
    BY <2>1, <2>2, <2>3
<1> QED
  BY <1>1, <1>2 DEF Quiet, onTheWay

(* A merge puts views on the way as well.                                  *)
LEMMA MergeKind ==
    ASSUME TypeInv, NEW s \in Servers, NEW t \in Servers, Merge(s, t)
    PROVE  Quiet
<1> DEFINE group == conn[s] \cup conn[t]
           v == view(group)
<1>1. \A x \in Servers : Keeps(x)
  BY DEF Merge, Keeps
<1>2. /\ v \in Seq(Messages)
      /\ \A j \in 1 .. Len(v) : v[j].type = "VIEW"
  <2>1. [type |-> "VIEW", members |-> group] \in Messages
    BY DEF Messages, ViewMessages, TypeInv, TypeOK
  <2> HIDE DEF group
  <2> QED
    BY <2>1 DEF view
<1>3. net' = [x \in Servers |-> IF x \in group THEN net[x] \o v ELSE net[x]]
  BY DEF Merge
<1> HIDE DEF v, group
<1>4. ASSUME NEW x \in Servers, NEW i \in DOMAIN net'[x]
      PROVE  net'[x][i] \in onTheWay \/ net'[x][i].type = "VIEW"
  <2>1. net[x] \in Seq(Messages) /\ DOMAIN net[x] = 1 .. Len(net[x])
    BY LenProperties DEF TypeInv, TypeOK
  <2>2. CASE net'[x] = net[x]
    BY <2>2 DEF onTheWay
  <2>3. CASE net'[x] = net[x] \o v
    <3>1. /\ net[x] \o v \in Seq(Messages)
          /\ Len(net[x] \o v) = Len(net[x]) + Len(v)
          /\ \A j \in 1 .. Len(net[x]) + Len(v) :
                (net[x] \o v)[j] = IF j <= Len(net[x]) THEN net[x][j]
                                   ELSE v[j - Len(net[x])]
          /\ Len(net[x]) \in Nat /\ Len(v) \in Nat
      BY <1>2, <2>1, ConcatProperties, LenProperties
    <3>2. i \in 1 .. Len(net[x]) + Len(v)
      BY <2>3, <3>1, LenProperties
    <3>3. CASE i <= Len(net[x])
      BY <2>1, <2>3, <3>1, <3>2, <3>3 DEF onTheWay
    <3>4. CASE ~ (i <= Len(net[x]))
      <4>1. i - Len(net[x]) \in 1 .. Len(v)
        BY <3>1, <3>2, <3>4
      <4> QED
        BY <1>2, <2>3, <3>1, <3>2, <3>4, <4>1
    <3> QED
      BY <3>3, <3>4
  <2> QED
    BY <1>3, <2>2, <2>3
<1> QED
  BY <1>1, <1>4 DEF Quiet, onTheWay

(* There is no other kind of step.                                         *)
LEMMA StepKinds ==
    ASSUME TypeInv, [Next]_vars
    PROVE  \/ \E s \in Servers, u \in Updates : Issues(s, u)
           \/ \E s \in Servers, m \in onTheWay : HearsUpdate(s, m)
           \/ \E s \in Servers, m \in onTheWay : HearsMatrix(s, m)
           \/ Quiet
<1>1. CASE \E s \in Servers : Command(s)
  BY <1>1, CommandKind
<1>2. CASE \E s \in Servers : ReceiveUpdate(s)
  BY <1>2, ReceiveUpdateKind
<1>3. CASE \E s \in Servers : IgnoreMatrix(s) \/ ReceiveMatrix(s) \/ ReceiveLastMatrix(s)
  BY <1>3, ReceiveMatricesKind
<1>4. CASE \E s \in Servers : ReceiveView(s)
  BY <1>4, ReceiveViewKind
<1>5. CASE \E A, B \in SUBSET Servers : Split(A, B)
  BY <1>5, SplitKind
<1>6. CASE \E s, t \in Servers : Merge(s, t)
  BY <1>6, MergeKind
<1>7. CASE UNCHANGED vars
  BY <1>7 DEF vars, Quiet, Keeps, onTheWay
<1> QED
  BY <1>1, <1>2, <1>3, <1>4, <1>5, <1>6, <1>7 DEF Next, Receive

-----------------------------------------------------------------------------
(* The history of updates.                                                 *)

(* What a server ever stored its counter has reached.                      *)
ReceivedBelowCounter ==
    \A s \in Servers : \A u \in received[s] : u.index <= local_state[s].updateIndex

(* The buffer holds nothing else.                                          *)
BufferReceived ==
    \A s \in Servers : local_state[s].buffer \subseteq received[s]

(* What is on the way was issued.                                          *)
OnTheWayIssued ==
    \A m \in onTheWay : m.type = "UPDATE" => m.update \in issued

(* Whoever has an update, the server that made it has it.                  *)
MakerHasIt ==
    \A s \in Servers : \A u \in received[s] : u \in received[u.procID]

LogInv ==
    /\ ReceivedBelowCounter
    /\ BufferReceived
    /\ OnTheWayIssued
    /\ MakerHasIt
    /\ StampsUnique

(* Initially nothing is stored or on the way.                              *)
LEMMA LogInit == Init => LogInv
<1> SUFFICES ASSUME Init PROVE LogInv
  OBVIOUS
<1>1. \A s \in Servers : received[s] = {} /\ local_state[s].buffer = {}
  BY DEF Init, initialState
<1>2. onTheWay = {}
  BY DEF Init, onTheWay
<1> QED
  BY <1>1, <1>2 DEF LogInv, ReceivedBelowCounter, BufferReceived, OnTheWayIssued,
     MakerHasIt, StampsUnique, issued

(* A new update of server s is not in its buffer and later than all that   *)
(* the server has.                                                         *)
LEMMA NewUpdateIsLast ==
    ASSUME TypeInv, LogInv, NEW s \in Servers, NEW u \in Updates, Issues(s, u)
    PROVE  Stores(s, u) /\ \A v \in received[s] : v.index < u.index
<1>1. local_state[s].updateIndex \in Int
  BY DEF TypeInv, TypeOK, LocalStates, Indices
<1>2. \A v \in received[s] : v.index \in Int
  BY DEF TypeInv, TypeOK, Updates
<1>3. \A v \in received[s] : v.index < u.index
  BY <1>1, <1>2 DEF Issues, LogInv, ReceivedBelowCounter
<1>4. ~ Known(s, u)
  BY <1>2, <1>3 DEF Known, findUpdate, LogInv, BufferReceived, Updates
<1> QED
  BY <1>3, <1>4 DEF Issues, Applies

(* Storing an update that its own server just made, or that someone has,   *)
(* keeps the history invariant.                                            *)
LEMMA StoresKeepsLog ==
    ASSUME TypeInv, LogInv, NEW s \in Servers, NEW u \in Updates,
           Stores(s, u), OthersKeep(s),
           \/ u.procID = s /\ \A v \in received[s] : v.index < u.index
           \/ u \in issued
    PROVE  /\ ReceivedBelowCounter'
           /\ BufferReceived'
           /\ MakerHasIt'
           /\ StampsUnique'
           /\ issued' = issued \cup {u}
<1>1. /\ received'[s] = received[s] \cup {u}
      /\ \A t \in Servers \ {s} : received'[t] = received[t]
  BY DEF Stores, OthersKeep, Keeps
<1>2. issued' = issued \cup {u}
  BY <1>1 DEF issued
<1>3. ReceivedBelowCounter'
  <2>1. ASSUME NEW v \in received'[s]
        PROVE  v.index <= local_state'[s].updateIndex
    <3>1. local_state[s].updateIndex \in Int
      BY DEF TypeInv, TypeOK, LocalStates, Indices
    <3>2. v.index \in Int /\ u.index \in Int
      BY <1>1, <2>1 DEF TypeInv, TypeOK, Updates
    <3>3. v.index <= local_state[s].updateIndex \/ v = u
      BY <1>1, <2>1 DEF LogInv, ReceivedBelowCounter
    <3>4. local_state'[s].updateIndex = larger(local_state[s].updateIndex + 1, u.index)
      BY DEF Stores
    <3> QED
      BY <3>1, <3>2, <3>3, <3>4 DEF larger
  <2> QED
    BY <2>1 DEF ReceivedBelowCounter, LogInv, OthersKeep, Keeps
<1>4. BufferReceived'
  BY DEF BufferReceived, LogInv, Stores, OthersKeep, Keeps
<1>5. u \in received'[u.procID]
  <2>1. CASE u.procID = s
    BY <1>1, <2>1
  <2>2. CASE u \in issued
    <3>1. u \in received[u.procID] /\ u.procID \in Servers
      BY <2>2 DEF issued, LogInv, MakerHasIt, Updates
    <3> QED
      BY <1>1, <3>1
  <2> QED
    BY <2>1, <2>2
<1>6. MakerHasIt'
  <2>1. \A t \in Servers : received[t] \subseteq received'[t]
    BY <1>1
  <2>2. ASSUME NEW t \in Servers, NEW v \in received'[t]
        PROVE  v \in received'[v.procID]
    <3>1. CASE v = u
      BY <1>5, <3>1
    <3>2. CASE v # u
      <4>1. v \in received[t]
        BY <1>1, <2>2, <3>2
      <4>2. v \in received[v.procID] /\ v.procID \in Servers
        BY <4>1 DEF LogInv, MakerHasIt, TypeInv, TypeOK, Updates
      <4> QED
        BY <2>1, <4>2
    <3> QED
      BY <3>1, <3>2
  <2> QED
    BY <2>2 DEF MakerHasIt
<1>7. ASSUME NEW v \in issued, SameId(u, v)
      PROVE  u = v
  <2>1. CASE u \in issued
    BY <1>7, <2>1 DEF LogInv, StampsUnique
  <2>2. CASE u.procID = s /\ \A w \in received[s] : w.index < u.index
    <3>1. v \in received[s]
      BY <1>7, <2>2 DEF issued, LogInv, MakerHasIt, SameId
    <3>2. v.index < u.index /\ v.index = u.index /\ u.index \in Int
      BY <1>7, <2>2, <3>1 DEF SameId, Updates
    <3> QED
      BY <3>2
  <2> QED
    BY <2>1, <2>2
<1>8. StampsUnique'
  BY <1>2, <1>7 DEF StampsUnique, LogInv, SameId
<1> QED
  BY <1>2, <1>3, <1>4, <1>6, <1>8

(* When every server keeps its history, or only drops updates from its     *)
(* buffer, so does the history invariant.                                  *)
LEMMA KeepsLog ==
    ASSUME TypeInv, LogInv,
           \A t \in Servers :
              /\ local_state'[t].updateIndex = local_state[t].updateIndex
              /\ local_state'[t].buffer \subseteq local_state[t].buffer
              /\ received'[t] = received[t]
    PROVE  /\ ReceivedBelowCounter'
           /\ BufferReceived'
           /\ MakerHasIt'
           /\ StampsUnique'
           /\ issued' = issued
<1>1. issued' = issued
  BY DEF issued
<1>2. ReceivedBelowCounter' /\ BufferReceived'
  BY DEF LogInv, ReceivedBelowCounter, BufferReceived
<1>3. MakerHasIt'
  <2>1. ASSUME NEW t \in Servers, NEW u \in received'[t]
        PROVE  u \in received'[u.procID]
    <3>1. u \in received[t] /\ u.procID \in Servers
      BY <2>1 DEF TypeInv, TypeOK, Updates
    <3> QED
      BY <3>1 DEF LogInv, MakerHasIt
  <2> QED
    BY <2>1 DEF MakerHasIt
<1>4. StampsUnique'
  BY <1>1 DEF LogInv, StampsUnique
<1> QED
  BY <1>1, <1>2, <1>3, <1>4

(* Every step keeps the history invariant.                                 *)
LEMMA LogNext == TypeInv /\ LogInv /\ [Next]_vars => LogInv'
<1> SUFFICES ASSUME TypeInv, LogInv, [Next]_vars PROVE LogInv'
  OBVIOUS
<1>1. \A s \in Servers : \A u \in local_state[s].buffer : u \in issued
  BY DEF LogInv, BufferReceived, issued
<1>2. \A m \in onTheWay : m.type = "UPDATE" => m.update \in issued
  BY DEF LogInv, OnTheWayIssued
<1>3. ASSUME NEW s \in Servers, NEW u \in Updates, Issues(s, u)
      PROVE  LogInv'
  <2>1. Stores(s, u) /\ \A v \in received[s] : v.index < u.index
    BY <1>3, NewUpdateIsLast
  <2>2. /\ ReceivedBelowCounter' /\ BufferReceived' /\ MakerHasIt' /\ StampsUnique'
        /\ issued' = issued \cup {u}
    BY <1>3, <2>1, StoresKeepsLog DEF Issues
  <2>3. OnTheWayIssued'
    BY <1>2, <1>3, <2>2 DEF Issues, OnTheWayIssued
  <2> QED
    BY <2>2, <2>3 DEF LogInv
<1>4. ASSUME NEW s \in Servers, NEW m \in onTheWay, HearsUpdate(s, m)
      PROVE  LogInv'
  <2>1. m.update \in issued /\ m.update \in Updates
    BY <1>2, <1>4 DEF HearsUpdate
  <2>2. /\ ReceivedBelowCounter' /\ BufferReceived' /\ MakerHasIt' /\ StampsUnique'
        /\ issued \subseteq issued'
    <3>1. CASE Known(s, m.update)
      <4>1. \A t \in Servers : Keeps(t)
        BY <1>4, <3>1 DEF HearsUpdate, Applies, OthersKeep
      <4> QED
        BY <4>1, KeepsLog DEF Keeps
    <3>2. CASE ~ Known(s, m.update)
      <4>1. Stores(s, m.update) /\ OthersKeep(s)
        BY <1>4, <3>2 DEF HearsUpdate, Applies
      <4> QED
        BY <2>1, <4>1, StoresKeepsLog
    <3> QED
      BY <3>1, <3>2
  <2>3. OnTheWayIssued'
    BY <1>1, <1>2, <1>4, <2>2 DEF HearsUpdate, OnlyResends, OnTheWayIssued
  <2> QED
    BY <2>2, <2>3 DEF LogInv
<1>5. ASSUME NEW s \in Servers, NEW m \in onTheWay, HearsMatrix(s, m)
      PROVE  LogInv'
  <2>1. /\ ReceivedBelowCounter' /\ BufferReceived' /\ MakerHasIt' /\ StampsUnique'
        /\ issued' = issued
    BY <1>5, KeepsLog DEF HearsMatrix, OthersKeep, Keeps
  <2>2. OnTheWayIssued'
    BY <1>1, <1>2, <1>5, <2>1 DEF HearsMatrix, OnlyResends, OnTheWayIssued
  <2> QED
    BY <2>1, <2>2 DEF LogInv
<1>6. ASSUME Quiet
      PROVE  LogInv'
  <2>1. /\ ReceivedBelowCounter' /\ BufferReceived' /\ MakerHasIt' /\ StampsUnique'
        /\ issued' = issued
    BY <1>6, KeepsLog DEF Quiet, Keeps
  <2>2. OnTheWayIssued'
    BY <1>2, <1>6, <2>1 DEF Quiet, OnTheWayIssued
  <2> QED
    BY <2>1, <2>2 DEF LogInv
<1> QED
  BY <1>3, <1>4, <1>5, <1>6, StepKinds

(* Both invariants hold throughout.                                        *)
LEMMA LogAlways == Spec => [](TypeInv /\ LogInv)
BY TypeInit, TypeNext, LogInit, LogNext, PTL DEF Spec

(* No two updates ever carry the same stamp, wherever they are and however *)
(* the network splits: generateUpdate takes the counter that applyUpdate   *)
(* pushed past everything the server stored, and only its maker can give   *)
(* an update to the others.                                                *)
THEOREM StampsAlwaysUnique == Spec => []StampsUnique
<1>1. TypeInv /\ LogInv => StampsUnique
  BY DEF LogInv
<1> QED
  BY <1>1, LogAlways, PTL

(* What a step adds to a server's history: a new update of its own, later  *)
(* than everything in it, or an update that some server has.               *)
LEMMA HistoryGrows ==
    ASSUME TypeInv, LogInv, [Next]_vars
    PROVE  \/ \A t \in Servers : received'[t] = received[t]
           \/ \E s \in Servers, u \in Updates :
                 /\ received'[s] = received[s] \cup {u}
                 /\ \A t \in Servers \ {s} : received'[t] = received[t]
                 /\ \/ u.procID = s /\ \A v \in received[s] : v.index < u.index
                    \/ u \in issued
<1>1. ASSUME NEW s \in Servers, NEW u \in Updates, Issues(s, u)
      PROVE  /\ received'[s] = received[s] \cup {u}
             /\ \A t \in Servers \ {s} : received'[t] = received[t]
             /\ u.procID = s /\ \A v \in received[s] : v.index < u.index
  BY <1>1, NewUpdateIsLast DEF Issues, Stores, OthersKeep, Keeps
<1>2. ASSUME NEW s \in Servers, NEW m \in onTheWay, HearsUpdate(s, m)
      PROVE  \/ \A t \in Servers : received'[t] = received[t]
             \/ /\ received'[s] = received[s] \cup {m.update}
                /\ \A t \in Servers \ {s} : received'[t] = received[t]
                /\ m.update \in issued /\ m.update \in Updates
  BY <1>2 DEF HearsUpdate, Applies, Stores, OthersKeep, Keeps, LogInv, OnTheWayIssued
<1>3. ASSUME (\E s \in Servers, m \in onTheWay : HearsMatrix(s, m)) \/ Quiet
      PROVE  \A t \in Servers : received'[t] = received[t]
  BY <1>3 DEF HearsMatrix, OthersKeep, Quiet, Keeps
<1> QED
  BY <1>1, <1>2, <1>3, StepKinds

(* A new stamp dominates everything its server had received when it made   *)
(* it, so the stamp order of the mails respects what their senders had     *)
(* seen, through every split and merge.                                    *)
THEOREM StampsAlwaysDominate == Spec => StampDominates
<1>1. ASSUME TypeInv, LogInv, [Next]_vars
      PROVE  \A s \in Servers : \A u \in received'[s] \ received[s] :
                u \notin issued => \A v \in received[s] : v.index < u.index
  BY <1>1, HistoryGrows
<1>2. TypeInv /\ LogInv /\ [Next]_vars
        => [\A s \in Servers : \A u \in received'[s] \ received[s] :
               u \notin issued => \A v \in received[s] : v.index < u.index]_vars
  BY <1>1
<1> QED
  BY <1>2, LogAlways, PTL DEF Spec, StampDominates

(* The replication implements the grow-only log of module UpdateLog: the   *)
(* history of what the servers stored starts as such a log, and every step *)
(* of the servers or of the network adds to it as the log allows, or       *)
(* leaves it alone.                                                        *)
THEOREM ServersImplementLog == Spec => ImplementsUpdateLog
<1>1. Init => Log!Init
  BY DEF Init, Log!Init
<1>2. ASSUME TypeInv, LogInv, [Next]_vars
      PROVE  [Log!Next]_received
  <2>1. received' \in [Servers -> SUBSET Updates] /\ received \in [Servers -> SUBSET Updates]
    BY <1>2, TypeNext DEF TypeInv, TypeOK
  <2>2. CASE \A t \in Servers : received'[t] = received[t]
    BY <2>1, <2>2
  <2>3. ASSUME NEW s \in Servers, NEW u \in Updates,
               received'[s] = received[s] \cup {u},
               \A t \in Servers \ {s} : received'[t] = received[t],
               \/ u.procID = s /\ \A v \in received[s] : v.index < u.index
               \/ u \in issued
        PROVE  Log!Add(s)
    <3>1. u \in received'[s]
      BY <2>3
    <3>2. received' = [received EXCEPT ![s] = @ \cup {u}]
      BY <2>1, <2>3
    <3>3. Log!Own(s, u) \/ Log!Learnt(u)
      BY <2>3 DEF Log!Own, Log!Learnt, issued
    <3> QED
      BY <3>1, <3>2, <3>3 DEF Log!Add
  <2>4. (\A t \in Servers : received'[t] = received[t]) \/ \E s \in Servers : Log!Add(s)
    BY <1>2, <2>3, HistoryGrows
  <2> QED
    BY <2>2, <2>4 DEF Log!Next
<1> QED
  BY <1>1, <1>2, LogAlways, PTL DEF Spec, ImplementsUpdateLog, Log!Spec

-----------------------------------------------------------------------------
(* What servers know of each other.                                        *)

(* KnowledgeSound over the set of messages on the way.                     *)
KnowledgeInv ==
    \A q, p \in Servers :
        /\ \A s \in Servers : local_state[s].latest_update[q][p] <= ownVector(q)[p]
        /\ \A m \in onTheWay : m.type = "MATRIX" => m.matrix[q][p] <= ownVector(q)[p]

(* The vectors are integers.                                               *)
LEMMA VectorType ==
    ASSUME TypeInv, NEW s \in Servers, NEW q \in Servers, NEW p \in Servers
    PROVE  /\ local_state[s].latest_update[q][p] \in Int
           /\ ownVector(q)[p] \in Int
BY DEF TypeInv, TypeOK, LocalStates, Matrices, Indices, ownVector

(* What a step does to the vectors that a server holds.                    *)
LEMMA VectorSteps ==
    ASSUME TypeInv, NEW s \in Servers, NEW q \in Servers, NEW p \in Servers
    PROVE  /\ Keeps(s) => local_state'[s].latest_update[q][p]
                           = local_state[s].latest_update[q][p]
           /\ \A u \in Updates : Stores(s, u) =>
                local_state'[s].latest_update[q][p] =
                   IF q = s /\ p = u.procID
                   THEN larger(local_state[s].latest_update[q][p], u.index)
                   ELSE local_state[s].latest_update[q][p]
           /\ \A m : HearsMatrix(s, m) =>
                local_state'[s].latest_update[q][p] =
                   IF q = s \/ m.from = s
                   THEN local_state[s].latest_update[q][p]
                   ELSE larger(m.matrix[q][p], local_state[s].latest_update[q][p])
<1>1. local_state[s] \in LocalStates /\ local_state[s].latest_update \in Matrices
  BY DEF TypeInv, TypeOK, LocalStates
<1>2. ASSUME Keeps(s)
      PROVE  local_state'[s].latest_update[q][p] = local_state[s].latest_update[q][p]
  BY <1>2 DEF Keeps
<1>3. ASSUME NEW u \in Updates, Stores(s, u)
      PROVE  local_state'[s].latest_update[q][p] =
                IF q = s /\ p = u.procID
                THEN larger(local_state[s].latest_update[q][p], u.index)
                ELSE local_state[s].latest_update[q][p]
  BY <1>1, <1>3 DEF Stores, Matrices
<1>4. ASSUME NEW m, HearsMatrix(s, m)
      PROVE  local_state'[s].latest_update[q][p] =
                IF q = s \/ m.from = s
                THEN local_state[s].latest_update[q][p]
                ELSE larger(m.matrix[q][p], local_state[s].latest_update[q][p])
  <2>1. local_state'[s].latest_update = updateMatrix(local_state[s], s, m).latest_update
    BY <1>4 DEF HearsMatrix
  <2>2. updateMatrix(local_state[s], s, m).latest_update =
          IF m.from = s THEN local_state[s].latest_update
          ELSE [i \in Servers |->
                  IF i = s THEN local_state[s].latest_update[i]
                  ELSE [j \in Servers |-> larger(m.matrix[i][j],
                                          local_state[s].latest_update[i][j])]]
    BY <1>1 DEF updateMatrix, LocalStates
  <2> QED
    BY <2>1, <2>2
<1> QED
  BY <1>2, <1>3, <1>4

(* No server's own vector ever goes down: only its own updates and those   *)
(* it hears raise it, and a matrix leaves it alone.                        *)
LEMMA OwnVectorGrows ==
    ASSUME TypeInv, [Next]_vars, NEW q \in Servers, NEW p \in Servers
    PROVE  ownVector(q)[p] <= (ownVector(q)')[p]
<1>1. ownVector(q)[p] \in Int /\ ownVector(q)[p] = local_state[q].latest_update[q][p]
  BY VectorType DEF ownVector
<1>2. (ownVector(q)')[p] = local_state'[q].latest_update[q][p]
  BY DEF ownVector
<1>3. CASE Keeps(q)
  BY <1>1, <1>2, <1>3, VectorSteps
<1>4. ASSUME NEW u \in Updates, Stores(q, u)
      PROVE  ownVector(q)[p] <= (ownVector(q)')[p]
  <2>1. u.index \in Int
    BY DEF Updates
  <2> QED
    BY <1>1, <1>2, <1>4, <2>1, VectorSteps DEF larger
<1>5. ASSUME NEW m, HearsMatrix(q, m)
      PROVE  ownVector(q)[p] <= (ownVector(q)')[p]
  BY <1>1, <1>2, <1>5, VectorSteps
<1>6. \/ Keeps(q)
      \/ \E u \in Updates : Stores(q, u)
      \/ \E m : HearsMatrix(q, m)
  BY StepKinds DEF Issues, HearsUpdate, HearsMatrix, Applies, OthersKeep, Quiet
<1> QED
  BY <1>3, <1>4, <1>5, <1>6

(* Initially no server knows of any update.                                *)
LEMMA KnowledgeInit == Init => KnowledgeInv
<1> SUFFICES ASSUME Init PROVE KnowledgeInv
  OBVIOUS
<1>1. onTheWay = {}
  BY DEF Init, onTheWay
<1>2. \A s, q, p \in Servers : local_state[s].latest_update[q][p] = -1
  BY DEF Init, initialState
<1> QED
  BY <1>1, <1>2 DEF KnowledgeInv, ownVector

(* A matrix on the way after a step was there before or is what a server   *)
(* holds.                                                                  *)
LEMMA MatricesOnTheWay ==
    ASSUME TypeInv, [Next]_vars, NEW m \in onTheWay', m.type = "MATRIX"
    PROVE  m \in onTheWay \/ \E s \in Servers : m.matrix = local_state[s].latest_update
BY StepKinds DEF Issues, HearsUpdate, HearsMatrix, OnlyResends, Quiet

(* Every step keeps what servers know of each other sound.                 *)
LEMMA KnowledgeNext == TypeInv /\ KnowledgeInv /\ [Next]_vars => KnowledgeInv'
<1> SUFFICES ASSUME TypeInv, KnowledgeInv, [Next]_vars, NEW q \in Servers, NEW p \in Servers
             PROVE  /\ \A s \in Servers :
                          local_state'[s].latest_update[q][p] <= (ownVector(q)')[p]
                    /\ \A m \in onTheWay' :
                          m.type = "MATRIX" => m.matrix[q][p] <= (ownVector(q)')[p]
  BY DEF KnowledgeInv
<1> DEFINE old == ownVector(q)[p]
           new == (ownVector(q)')[p]
<1>1. TypeInv'
  BY TypeNext
<1>2. old \in Int /\ new \in Int /\ old <= new
  <2>1. old \in Int
    BY VectorType
  <2>2. new \in Int
    BY <1>1 DEF TypeInv, TypeOK, LocalStates, Matrices, Indices, ownVector
  <2> QED
    BY <2>1, <2>2, OwnVectorGrows
<1>3. ASSUME NEW s \in Servers
      PROVE  /\ local_state[s].latest_update[q][p] \in Int
             /\ local_state[s].latest_update[q][p] <= old
  BY VectorType DEF KnowledgeInv
<1>4. ASSUME NEW m \in onTheWay, m.type = "MATRIX"
      PROVE  m.matrix[q][p] <= old
  BY <1>4 DEF KnowledgeInv
<1>5. new = local_state'[q].latest_update[q][p]
  BY DEF ownVector
<1> HIDE DEF old, new
<1>6. ASSUME NEW s \in Servers
      PROVE  local_state'[s].latest_update[q][p] <= new
  <2>1. CASE s = q
    BY <1>2, <1>5, <2>1
  <2>2. CASE s # q /\ Keeps(s)
    BY <1>2, <1>3, <2>2, VectorSteps
  <2>3. ASSUME s # q, NEW u \in Updates, Stores(s, u)
        PROVE  local_state'[s].latest_update[q][p] <= new
    BY <1>2, <1>3, <2>3, VectorSteps
  <2>4. ASSUME s # q, NEW m \in onTheWay, HearsMatrix(s, m)
        PROVE  local_state'[s].latest_update[q][p] <= new
    <3>1. m.matrix[q][p] \in Int /\ m.matrix[q][p] <= old
      BY <1>4, <2>4 DEF HearsMatrix, Matrices, Indices
    <3> QED
      BY <1>2, <1>3, <2>4, <3>1, VectorSteps DEF larger
  <2>5. \/ Keeps(s)
        \/ \E u \in Updates : Stores(s, u)
        \/ \E m \in onTheWay : HearsMatrix(s, m)
    BY StepKinds DEF Issues, HearsUpdate, HearsMatrix, Applies, OthersKeep, Quiet
  <2> QED
    BY <2>1, <2>2, <2>3, <2>4, <2>5
<1>7. ASSUME NEW m \in onTheWay', m.type = "MATRIX"
      PROVE  m.matrix[q][p] <= new
  <2>1. CASE m \in onTheWay
    <3>1. m.matrix[q][p] \in Int
      BY <1>7, <2>1
      DEF onTheWay, TypeInv, TypeOK, Messages, UpdateMessages, MatrixMessages,
          ViewMessages, Matrices, Indices
    <3> QED
      BY <1>2, <1>4, <1>7, <2>1, <3>1
  <2>2. CASE \E s \in Servers : m.matrix = local_state[s].latest_update
    BY <1>2, <1>3, <2>2
  <2> QED
    BY <1>7, <2>1, <2>2, MatricesOnTheWay
<1> QED
  BY <1>6, <1>7 DEF new

(* No server ever credits another with more than that server has, in its   *)
(* own matrix or in one on the way: the merge by maximum never runs ahead  *)
(* of the servers it speaks about, however old the matrices are.           *)
THEOREM KnowledgeAlwaysSound == Spec => []KnowledgeSound
<1>1. Spec => [](TypeInv /\ KnowledgeInv)
  BY TypeInit, TypeNext, KnowledgeInit, KnowledgeNext, PTL DEF Spec
<1>2. TypeInv /\ KnowledgeInv => KnowledgeSound
  BY DEF KnowledgeInv, KnowledgeSound, onTheWay
<1> QED
  BY <1>1, <1>2, PTL

-----------------------------------------------------------------------------
(* What a server's own vector says about its history and its buffer.       *)

(* Initially the vectors name no update.                                   *)
LEMMA NewestInit == Init => VectorIsNewest
BY DEF Init, initialState, VectorIsNewest, ownVector

(* Every step keeps the vectors exact: a stored update raises the vector   *)
(* to its index, and a purge spares the update that the purging server's   *)
(* own row names.                                                          *)
LEMMA NewestNext == TypeInv /\ VectorIsNewest /\ [Next]_vars => VectorIsNewest'
<1> SUFFICES ASSUME TypeInv, VectorIsNewest, [Next]_vars,
                    NEW s \in Servers, NEW p \in Servers
             PROVE  /\ \A u \in received'[s] :
                          u.procID = p => u.index <= (ownVector(s)')[p]
                    /\ (ownVector(s)')[p] >= 0 =>
                          \E u \in local_state'[s].buffer :
                             u.procID = p /\ u.index = (ownVector(s)')[p]
  BY DEF VectorIsNewest, findUpdate
<1> DEFINE old == ownVector(s)[p]
           new == (ownVector(s)')[p]
<1>1. old \in Int /\ old = local_state[s].latest_update[s][p]
  BY VectorType DEF ownVector
<1>2. new = local_state'[s].latest_update[s][p]
  BY DEF ownVector
<1>3. /\ \A u \in received[s] : u.procID = p => u.index <= old
      /\ old >= 0 => \E u \in local_state[s].buffer : u.procID = p /\ u.index = old
  BY DEF VectorIsNewest, findUpdate
<1>4. \A u \in received[s] \cup local_state[s].buffer : u \in Updates /\ u.index \in Int
  BY DEF TypeInv, TypeOK, LocalStates, Updates
<1> HIDE DEF old, new
<1>5. ASSUME new = old, received'[s] = received[s],
             \A u \in local_state[s].buffer :
                u \in local_state'[s].buffer \/ u.procID # p \/ u.index # old
      PROVE  /\ \A u \in received'[s] : u.procID = p => u.index <= new
             /\ new >= 0 => \E u \in local_state'[s].buffer :
                                u.procID = p /\ u.index = new
  BY <1>3, <1>5
<1>6. CASE Keeps(s)
  <2>1. new = old
    BY <1>1, <1>2, <1>6, VectorSteps
  <2> QED
    BY <1>5, <1>6, <2>1 DEF Keeps, new
<1>7. ASSUME NEW v \in Updates, Stores(s, v)
      PROVE  /\ \A u \in received'[s] : u.procID = p => u.index <= new
             /\ new >= 0 => \E u \in local_state'[s].buffer :
                                u.procID = p /\ u.index = new
  <2>1. /\ received'[s] = received[s] \cup {v}
        /\ local_state'[s].buffer = local_state[s].buffer \cup {v}
    BY <1>7 DEF Stores
  <2>2. new = IF p = v.procID THEN larger(old, v.index) ELSE old
    BY <1>1, <1>2, <1>7, VectorSteps
  <2>3. v.index \in Int
    BY DEF Updates
  <2> QED
    BY <1>1, <1>3, <1>4, <2>1, <2>2, <2>3 DEF larger
<1>8. ASSUME NEW m, HearsMatrix(s, m)
      PROVE  /\ \A u \in received'[s] : u.procID = p => u.index <= new
             /\ new >= 0 => \E u \in local_state'[s].buffer :
                                u.procID = p /\ u.index = new
  <2>1. new = old
    BY <1>1, <1>2, <1>8, VectorSteps
  <2>2. ASSUME NEW u \in local_state[s].buffer, u.procID = p, u.index = old
        PROVE  u \in local_state'[s].buffer
    <3>1. SUFFICES ASSUME u \notin local_state'[s].buffer PROVE FALSE
      OBVIOUS
    <3>2. ~ (local_state'[s].latest_update[s][u.procID] <= u.index)
      BY <1>8, <3>1 DEF HearsMatrix
    <3>3. local_state'[s].latest_update[s][u.procID] = old
      BY <1>2, <2>1, <2>2
    <3>4. old <= old
      BY <1>1
    <3> QED
      BY <2>2, <3>2, <3>3, <3>4
  <2> QED
    BY <1>5, <1>8, <2>1, <2>2 DEF HearsMatrix
<1>9. \/ Keeps(s)
      \/ \E v \in Updates : Stores(s, v)
      \/ \E m : HearsMatrix(s, m)
  BY StepKinds DEF Issues, HearsUpdate, HearsMatrix, Applies, OthersKeep, Quiet
<1> QED
  BY <1>6, <1>7, <1>8, <1>9 DEF new

(* A server's own vector is the highest index that it stored of every      *)
(* server, and the update it names is still in its buffer, so the newest   *)
(* update of every server can always be resent.                            *)
THEOREM VectorAlwaysNewest == Spec => []VectorIsNewest
<1>1. Spec => [](TypeInv /\ VectorIsNewest)
  BY TypeInit, TypeNext, NewestInit, NewestNext, PTL DEF Spec
<1> QED
  BY <1>1, PTL

(* Initially nothing was purged.                                           *)
LEMMA PurgeInit == Init => PurgeSafe
BY DEF Init, PurgeSafe

(* Every step keeps purging safe: what goes is passed in every row of the  *)
(* merged matrix, and no row runs ahead of its server.                     *)
LEMMA PurgeNext ==
    TypeInv /\ KnowledgeInv /\ PurgeSafe /\ [Next]_vars => PurgeSafe'
<1> SUFFICES ASSUME TypeInv, KnowledgeInv, PurgeSafe, [Next]_vars,
                    NEW s \in Servers, NEW q \in Servers,
                    NEW u \in received'[s] \ local_state'[s].buffer
             PROVE  u.index < (ownVector(q)')[u.procID]
  BY DEF PurgeSafe
<1>1. TypeInv' /\ KnowledgeInv'
  BY TypeNext, KnowledgeNext
<1>2. u \in Updates /\ u.index \in Int /\ u.procID \in Servers
  BY <1>1 DEF TypeInv, TypeOK, Updates
<1> DEFINE old == ownVector(q)[u.procID]
           new == (ownVector(q)')[u.procID]
<1>3. old \in Int /\ new \in Int /\ old <= new
  <2>1. old \in Int
    BY <1>2, VectorType
  <2>2. new \in Int
    BY <1>1, <1>2 DEF TypeInv, TypeOK, LocalStates, Matrices, Indices, ownVector
  <2> QED
    BY <1>2, <2>1, <2>2, OwnVectorGrows
<1>4. ASSUME u \in received[s], u \notin local_state[s].buffer
      PROVE  u.index < new
  <2>1. u.index < old
    BY <1>4 DEF PurgeSafe
  <2> QED
    BY <1>2, <1>3, <2>1
<1>5. CASE Keeps(s)
  BY <1>4, <1>5 DEF Keeps
<1>6. ASSUME NEW v \in Updates, Stores(s, v)
      PROVE  u.index < new
  BY <1>4, <1>6 DEF Stores
<1>7. ASSUME NEW m, HearsMatrix(s, m)
      PROVE  u.index < new
  <2>1. CASE u \notin local_state[s].buffer
    BY <1>4, <1>7, <2>1 DEF HearsMatrix
  <2>2. CASE u \in local_state[s].buffer
    <3> DEFINE row == local_state'[s].latest_update[q][u.procID]
    <3>1. ~ (row <= u.index)
      BY <1>7, <2>2 DEF HearsMatrix
    <3>2. row \in Int
      BY <1>1, <1>2 DEF TypeInv, TypeOK, LocalStates, Matrices, Indices
    <3>3. row <= new
      BY <1>1, <1>2 DEF KnowledgeInv
    <3> HIDE DEF row, new
    <3> QED
      BY <1>2, <1>3, <3>1, <3>2, <3>3
  <2> QED
    BY <2>1, <2>2
<1>8. \/ Keeps(s)
      \/ \E v \in Updates : Stores(s, v)
      \/ \E m : HearsMatrix(s, m)
  BY StepKinds DEF Issues, HearsUpdate, HearsMatrix, Applies, OthersKeep, Quiet
<1> QED
  BY <1>5, <1>6, <1>7, <1>8

(* An update leaves a buffer only when every server, connected or not,     *)
(* really has a later one of the same server.                              *)
THEOREM PurgeAlwaysSafe == Spec => []PurgeSafe
<1>1. Spec => [](TypeInv /\ KnowledgeInv /\ PurgeSafe)
  BY TypeInit, TypeNext, KnowledgeInit, KnowledgeNext, PurgeInit, PurgeNext, PTL DEF Spec
<1> QED
  BY <1>1, PTL

-----------------------------------------------------------------------------
(* A queue and its last view: what follows it was multicast in the         *)
(* component that the server is in now.                                    *)

since(q) == {k \in DOMAIN q : \A j \in k .. Len(q) : ~ IsView(q[j])}

news(q) == {q[k] : k \in since(q)}

matricesIn(q) == {k \in since(q) : q[k].type = "MATRIX"}

matrixCount(q) == Cardinality(matricesIn(q))

noView(q) == \A k \in DOMAIN q : ~ IsView(q[k])

lastView(q, group) ==
    \E k \in DOMAIN q :
        /\ IsView(q[k]) /\ q[k].members = group
        /\ \A j \in k + 1 .. Len(q) : ~ IsView(q[j])

(* The queue r is q with the messages M, which are no views and no         *)
(* matrices, behind it.                                                    *)
grows(r, q, M) ==
    /\ noView(r) <=> noView(q)
    /\ news(r) = news(q) \cup M
    /\ matrixCount(r) = matrixCount(q)
    /\ \A group : lastView(q, group) => lastView(r, group)

(* The queue r is q with a matrix behind it.                               *)
growsByMatrix(r, q) ==
    /\ noView(r) <=> noView(q)
    /\ \E m \in MatrixMessages : news(r) = news(q) \cup {m}
    /\ matrixCount(r) = matrixCount(q) + 1
    /\ \A group : lastView(q, group) => lastView(r, group)

(* The messages since the last view are finitely many.                     *)
LEMMA SinceFinite ==
    ASSUME NEW q \in Seq(Messages)
    PROVE  /\ since(q) \subseteq 1 .. Len(q)
           /\ IsFiniteSet(matricesIn(q))
           /\ matrixCount(q) \in Nat
<1>1. Len(q) \in Nat /\ DOMAIN q = 1 .. Len(q)
  BY LenProperties
<1>2. since(q) \subseteq 1 .. Len(q) /\ matricesIn(q) \subseteq 1 .. Len(q)
  BY <1>1 DEF since, matricesIn
<1>3. IsFiniteSet(matricesIn(q))
  <2>1. IsFiniteSet(1 .. Len(q))
    BY <1>1, FS_Interval
  <2> QED
    BY <1>2, <2>1, FS_Subset
<1> QED
  BY <1>2, <1>3, FS_CardinalityType DEF matrixCount

(* Messages behind a queue that are no views are news.                     *)
LEMMA SinceAppend ==
    ASSUME NEW q \in Seq(Messages), NEW e \in Seq(Messages), noView(e)
    PROVE  /\ since(q \o e) = since(q) \cup (Len(q) + 1 .. Len(q) + Len(e))
           /\ noView(q \o e) <=> noView(q)
           /\ news(q \o e) = news(q) \cup {e[k] : k \in 1 .. Len(e)}
           /\ \A group : lastView(q, group) => lastView(q \o e, group)
<1> DEFINE r == q \o e
<1>1. /\ Len(q) \in Nat /\ DOMAIN q = 1 .. Len(q)
      /\ Len(e) \in Nat /\ DOMAIN e = 1 .. Len(e)
      /\ Len(r) = Len(q) + Len(e) /\ DOMAIN r = 1 .. Len(q) + Len(e)
      /\ \A i \in 1 .. Len(q) + Len(e) :
            r[i] = IF i <= Len(q) THEN q[i] ELSE e[i - Len(q)]
  BY LenProperties, ConcatProperties
<1> HIDE DEF r
<1>2. \A i \in 1 .. Len(q) : r[i] = q[i]
  BY <1>1
<1>3. ASSUME NEW i \in Len(q) + 1 .. Len(q) + Len(e)
      PROVE  i - Len(q) \in 1 .. Len(e) /\ r[i] = e[i - Len(q)] /\ ~ IsView(r[i])
  <2>1. i - Len(q) \in 1 .. Len(e) /\ i \in 1 .. Len(q) + Len(e) /\ ~ (i <= Len(q))
    BY <1>1
  <2> QED
    BY <1>1, <2>1 DEF noView
<1>4. ASSUME NEW k \in 1 .. Len(q)
      PROVE  (\A j \in k .. Len(r) : ~ IsView(r[j])) <=> (\A j \in k .. Len(q) : ~ IsView(q[j]))
  <2>1. \A j \in k .. Len(r) : j \in k .. Len(q) \/ j \in Len(q) + 1 .. Len(q) + Len(e)
    BY <1>1
  <2>2. \A j \in k .. Len(q) : j \in k .. Len(r) /\ j \in 1 .. Len(q)
    BY <1>1
  <2> QED
    BY <1>2, <1>3, <2>1, <2>2
<1>5. ASSUME NEW k \in Len(q) + 1 .. Len(q) + Len(e)
      PROVE  \A j \in k .. Len(r) : ~ IsView(r[j])
  BY <1>1, <1>3
<1>6. since(r) = since(q) \cup (Len(q) + 1 .. Len(q) + Len(e))
  BY <1>1, <1>4, <1>5 DEF since
<1>7. noView(r) <=> noView(q)
  <2>1. \A k \in 1 .. Len(q) + Len(e) : k \in 1 .. Len(q) \/ k \in Len(q) + 1 .. Len(q) + Len(e)
    BY <1>1
  <2>2. \A k \in 1 .. Len(q) : k \in 1 .. Len(q) + Len(e)
    BY <1>1
  <2> QED
    BY <1>1, <1>2, <1>3, <2>1, <2>2 DEF noView
<1>8. news(r) = news(q) \cup {e[k] : k \in 1 .. Len(e)}
  <2>1. since(q) \subseteq 1 .. Len(q)
    BY SinceFinite
  <2>2. \A k \in since(q) : r[k] = q[k]
    BY <1>2, <2>1
  <2>3. {r[k] : k \in Len(q) + 1 .. Len(q) + Len(e)} = {e[k] : k \in 1 .. Len(e)}
    <3>1. ASSUME NEW k \in 1 .. Len(e)
          PROVE  k + Len(q) \in Len(q) + 1 .. Len(q) + Len(e) /\ r[k + Len(q)] = e[k]
      <4>1. k + Len(q) \in Len(q) + 1 .. Len(q) + Len(e) /\ (k + Len(q)) - Len(q) = k
        BY <1>1
      <4> QED
        BY <1>3, <4>1
    <3>2. \A k \in 1 .. Len(e) : \E i \in Len(q) + 1 .. Len(q) + Len(e) : e[k] = r[i]
      BY <3>1
    <3>3. \A i \in Len(q) + 1 .. Len(q) + Len(e) : \E k \in 1 .. Len(e) : r[i] = e[k]
      BY <1>3
    <3> DEFINE I == Len(q) + 1 .. Len(q) + Len(e)
               K == 1 .. Len(e)
    <3> HIDE DEF I, K
    <3>4. /\ \A k \in K : \E i \in I : e[k] = r[i]
          /\ \A i \in I : \E k \in K : r[i] = e[k]
      BY <3>2, <3>3 DEF I, K
    <3>5. {r[k] : k \in I} = {e[k] : k \in K}
      BY <3>4
    <3> QED
      BY <3>5 DEF I, K
  <2> QED
    BY <1>6, <2>2, <2>3 DEF news
<1>9. ASSUME NEW group, lastView(q, group)
      PROVE  lastView(r, group)
  <2>1. PICK k \in 1 .. Len(q) : /\ IsView(q[k]) /\ q[k].members = group
                                 /\ \A j \in k + 1 .. Len(q) : ~ IsView(q[j])
    BY <1>1, <1>9 DEF lastView
  <2>2. k \in DOMAIN r /\ r[k] = q[k]
    BY <1>1, <1>2
  <2>3. ASSUME NEW j \in k + 1 .. Len(r)
        PROVE  ~ IsView(r[j])
    <3>1. \/ j \in k + 1 .. Len(q) /\ j \in 1 .. Len(q)
          \/ j \in Len(q) + 1 .. Len(q) + Len(e)
      BY <1>1
    <3> QED
      BY <1>2, <1>3, <2>1, <3>1
  <2> QED
    BY <2>1, <2>2, <2>3 DEF lastView
<1> QED
  BY <1>6, <1>7, <1>8, <1>9 DEF r

(* Updates behind a queue.                                                 *)
LEMMA AppendUpdates ==
    ASSUME NEW q \in Seq(Messages), NEW e \in Seq(Messages),
           \A k \in 1 .. Len(e) : e[k].type = "UPDATE"
    PROVE  grows(q \o e, q, {e[k] : k \in 1 .. Len(e)})
<1>1. noView(e)
  BY LenProperties DEF noView, IsView
<1>2. \A i \in 1 .. Len(q) : (q \o e)[i] = q[i]
  BY ConcatProperties, LenProperties
<1>3. ASSUME NEW i \in Len(q) + 1 .. Len(q) + Len(e)
      PROVE  (q \o e)[i].type = "UPDATE"
  <2>1. /\ i - Len(q) \in 1 .. Len(e) /\ i \in 1 .. Len(q) + Len(e) /\ ~ (i <= Len(q))
    BY LenProperties
  <2> QED
    BY <2>1, ConcatProperties
<1>4. matricesIn(q \o e) = matricesIn(q)
  BY <1>1, <1>2, <1>3, SinceAppend, SinceFinite DEF matricesIn
<1> QED
  BY <1>1, <1>4, SinceAppend DEF grows, matrixCount

(* A matrix behind a queue.                                                *)
LEMMA AppendMatrix ==
    ASSUME NEW q \in Seq(Messages), NEW m \in MatrixMessages
    PROVE  growsByMatrix(q \o <<m>>, q)
<1> DEFINE e == <<m>>
<1>1. /\ e \in Seq(Messages) /\ Len(e) = 1 /\ e[1] = m /\ m.type = "MATRIX"
  BY DEF Messages, MatrixMessages
<1> HIDE DEF e
<1>2. noView(e)
  BY <1>1, LenProperties DEF noView, IsView
<1>3. Len(q) \in Nat /\ Len(q) + 1 .. Len(q) + Len(e) = {Len(q) + 1}
  BY <1>1, LenProperties
<1>4. \A i \in 1 .. Len(q) : (q \o e)[i] = q[i]
  BY <1>1, ConcatProperties, LenProperties
<1>5. (q \o e)[Len(q) + 1] = m
  <2>1. (Len(q) + 1) - Len(q) = 1 /\ ~ (Len(q) + 1 <= Len(q))
        /\ Len(q) + 1 \in 1 .. Len(q) + Len(e)
    BY <1>1, <1>3
  <2> QED
    BY <1>1, <2>1, ConcatProperties
<1>6. matricesIn(q \o e) = matricesIn(q) \cup {Len(q) + 1}
  <2>1. since(q \o e) = since(q) \cup {Len(q) + 1}
    BY <1>1, <1>2, <1>3, SinceAppend
  <2>2. \A i \in since(q) : (q \o e)[i] = q[i]
    BY <1>4, SinceFinite
  <2>3. (q \o e)[Len(q) + 1].type = "MATRIX"
    BY <1>1, <1>5
  <2> QED
    BY <2>1, <2>2, <2>3 DEF matricesIn
<1>7. Len(q) + 1 \notin matricesIn(q) /\ IsFiniteSet(matricesIn(q))
  BY <1>3, SinceFinite DEF matricesIn
<1>8. matrixCount(q \o e) = matrixCount(q) + 1
  BY <1>6, <1>7, FS_AddElement DEF matrixCount
<1>9. {e[k] : k \in 1 .. Len(e)} = {m}
  BY <1>1
<1>10. growsByMatrix(q \o e, q)
  BY <1>1, <1>2, <1>8, <1>9, SinceAppend DEF growsByMatrix
<1> QED
  BY <1>10 DEF e

(* A view behind a queue makes its messages old.                           *)
LEMMA AppendView ==
    ASSUME NEW q \in Seq(Messages), NEW group \in SUBSET Servers
    PROVE  /\ q \o view(group) \in Seq(Messages)
           /\ ~ noView(q \o view(group))
           /\ news(q \o view(group)) = {}
           /\ matrixCount(q \o view(group)) = 0
           /\ lastView(q \o view(group), group)
<1> DEFINE v == [type |-> "VIEW", members |-> group]
           r == q \o view(group)
<1>1. /\ view(group) = <<v>> /\ view(group) \in Seq(Messages) /\ Len(view(group)) = 1
      /\ view(group)[1] = v
  BY DEF view, Messages, ViewMessages
<1>2. v.type = "VIEW" /\ v.members = group
  OBVIOUS
<1> HIDE DEF v
<1>3. /\ r \in Seq(Messages) /\ Len(q) \in Nat
      /\ Len(r) = Len(q) + 1 /\ DOMAIN r = 1 .. Len(q) + 1
      /\ r[Len(q) + 1] = v
  <2>1. (Len(q) + 1) - Len(q) = 1 /\ ~ (Len(q) + 1 <= Len(q)) /\ Len(q) \in Nat
        /\ Len(q) + 1 \in 1 .. Len(q) + 1
    BY LenProperties
  <2> QED
    BY <1>1, <2>1, ConcatProperties, LenProperties
<1> HIDE DEF r
<1>4. IsView(r[Len(r)])
  BY <1>2, <1>3 DEF IsView
<1>5. since(r) = {}
  BY <1>3, <1>4 DEF since
<1>6. matrixCount(r) = 0
  BY <1>5, FS_EmptySet DEF matrixCount, matricesIn
<1>7. lastView(r, group)
  <2>1. Len(r) \in DOMAIN r /\ Len(r) + 1 .. Len(r) = {}
    BY <1>3
  <2> QED
    BY <1>2, <1>3, <1>4, <2>1 DEF lastView
<1> QED
  BY <1>3, <1>4, <1>5, <1>6, <1>7 DEF noView, news, r

(* Taking the head of a queue: it is news when no view follows.            *)
LEMMA TakeHead ==
    ASSUME NEW q \in Seq(Messages), q # <<>>
    PROVE  /\ Tail(q) \in Seq(Messages)
           /\ noView(q) => ~ IsView(Head(q)) /\ noView(Tail(q))
           /\ ~ noView(q) /\ ~ IsView(Head(q)) => ~ noView(Tail(q))
           /\ noView(q) => news(q) = news(Tail(q)) \cup {Head(q)}
           /\ ~ noView(q) => news(q) = news(Tail(q))
           /\ matrixCount(q) = matrixCount(Tail(q)) +
                IF noView(q) /\ Head(q).type = "MATRIX" THEN 1 ELSE 0
           /\ \A group : lastView(q, group) =>
                IF noView(Tail(q)) THEN IsView(Head(q)) /\ Head(q).members = group
                ELSE lastView(Tail(q), group)
<1> DEFINE r == Tail(q)
           n == Len(r)
<1>1. /\ r \in Seq(Messages) /\ n \in Nat /\ Len(q) = n + 1
      /\ DOMAIN q = 1 .. n + 1 /\ DOMAIN r = 1 .. n
      /\ \A k \in 1 .. n : r[k] = q[k + 1]
      /\ Head(q) = q[1]
  <2>1. /\ r \in Seq(Messages) /\ Len(q) \in Nat /\ n = Len(q) - 1
        /\ \A k \in 1 .. n : r[k] = q[k + 1]
    BY HeadTailProperties, LenProperties
  <2>2. n \in Nat /\ DOMAIN r = 1 .. n
    BY <2>1, LenProperties
  <2> HIDE DEF r, n
  <2> QED
    BY <2>1, <2>2, LenProperties
<1> HIDE DEF r, n
<1>2. \A k \in 1 .. n + 1 : k = 1 \/ (k - 1 \in 1 .. n /\ r[k - 1] = q[k])
  <2>1. \A k \in 1 .. n + 1 : k = 1 \/ (k - 1 \in 1 .. n /\ (k - 1) + 1 = k)
    BY <1>1
  <2> QED
    BY <1>1, <2>1
<1>3. \A k \in 1 .. n : k + 1 \in 1 .. n + 1
  BY <1>1
<1>4. 1 \in 1 .. n + 1
  BY <1>1
<1>5. noView(q) <=> ~ IsView(q[1]) /\ noView(r)
  BY <1>1, <1>2, <1>3, <1>4 DEF noView
<1>6. ASSUME NEW k \in 1 .. n
      PROVE  k \in since(r) <=> k + 1 \in since(q)
  <2>1. \A j \in k .. n : j + 1 \in k + 1 .. n + 1 /\ r[j] = q[j + 1]
    BY <1>1
  <2>2. \A j \in k + 1 .. n + 1 : j - 1 \in k .. n /\ r[j - 1] = q[j]
    BY <1>1, <1>2
  <2>3. k + 1 \in DOMAIN q /\ k \in DOMAIN r /\ Len(r) = n
    BY <1>1, <1>3 DEF n
  <2> QED
    BY <1>1, <2>1, <2>2, <2>3 DEF since
<1>7. 1 \in since(q) <=> noView(q)
  BY <1>1, <1>4 DEF since, noView
<1>8. since(q) \subseteq 1 .. n + 1 /\ since(r) \subseteq 1 .. n
  BY <1>1, SinceFinite DEF n
<1>9. news(q) = news(r) \cup (IF noView(q) THEN {q[1]} ELSE {})
  <2>1. \A k \in since(r) : k + 1 \in since(q) /\ q[k + 1] = r[k]
    BY <1>1, <1>6, <1>8
  <2>2. ASSUME NEW k \in since(q), k # 1
        PROVE  k - 1 \in since(r) /\ r[k - 1] = q[k]
    <3>1. k - 1 \in 1 .. n /\ r[k - 1] = q[k] /\ (k - 1) + 1 = k
      BY <1>1, <1>2, <1>8, <2>2
    <3> QED
      BY <1>6, <3>1
  <2>3. news(r) \subseteq news(q)
    BY <2>1 DEF news
  <2>4. news(q) \subseteq news(r) \cup (IF noView(q) THEN {q[1]} ELSE {})
    <3>1. ASSUME NEW k \in since(q)
          PROVE  q[k] \in news(r) \cup (IF noView(q) THEN {q[1]} ELSE {})
      BY <1>7, <2>2 DEF news
    <3> QED
      BY <3>1 DEF news
  <2>5. noView(q) => q[1] \in news(q)
    BY <1>7 DEF news
  <2> QED
    BY <2>3, <2>4, <2>5
<1>10. matrixCount(q) = matrixCount(r) +
         IF noView(q) /\ q[1].type = "MATRIX" THEN 1 ELSE 0
  <2> DEFINE S == matricesIn(r)
             T == matricesIn(q) \ {1}
             f == [k \in S |-> k + 1]
  <2>1. /\ IsFiniteSet(S) /\ IsFiniteSet(matricesIn(q))
        /\ S \subseteq 1 .. n /\ T \subseteq 1 .. n + 1
    BY <1>1, <1>8, SinceFinite DEF matricesIn
  <2>2. \A k \in S : k + 1 \in T
    <3>1. ASSUME NEW k \in S PROVE k + 1 \in T
      <4>1. k \in 1 .. n /\ k \in since(r) /\ r[k].type = "MATRIX" /\ k + 1 # 1
        BY <1>1, <2>1 DEF matricesIn
      <4> QED
        BY <1>1, <1>6, <4>1 DEF matricesIn
    <3> QED
      BY <3>1
  <2>3. \A k \in T : k - 1 \in S /\ (k - 1) + 1 = k
    <3>1. ASSUME NEW k \in T PROVE k - 1 \in S /\ (k - 1) + 1 = k
      <4>1. k \in 1 .. n + 1 /\ k # 1 /\ k \in since(q) /\ q[k].type = "MATRIX"
        BY <2>1 DEF matricesIn
      <4>2. k - 1 \in 1 .. n /\ r[k - 1] = q[k] /\ (k - 1) + 1 = k
        BY <1>1, <1>2, <4>1
      <4> QED
        BY <1>6, <4>1, <4>2 DEF matricesIn
    <3> QED
      BY <3>1
  <2> HIDE DEF S, T
  <2>4. f \in Bijection(S, T)
    <3>1. f \in [S -> T]
      BY <2>2
    <3>2. \A a, b \in S : f[a] = f[b] => a = b
      BY <2>1
    <3>3. \A b \in T : \E a \in S : f[a] = b
      BY <2>3
    <3> QED
      BY <3>1, <3>2, <3>3 DEF Bijection, Injection, Surjection, IsInjective
  <2>5. Cardinality(T) = Cardinality(S)
    BY <2>1, <2>4, FS_Bijection DEF ExistsBijection
  <2>6. Cardinality(T) = IF 1 \in matricesIn(q) THEN matrixCount(q) - 1 ELSE matrixCount(q)
    BY <2>1, FS_RemoveElement DEF T, matrixCount
  <2>7. 1 \in matricesIn(q) <=> noView(q) /\ q[1].type = "MATRIX"
    BY <1>7 DEF matricesIn
  <2>8. matrixCount(q) \in Nat
    BY SinceFinite
  <2> QED
    BY <2>5, <2>6, <2>7, <2>8 DEF S, matrixCount
<1>11. ASSUME NEW group, lastView(q, group)
       PROVE  IF noView(r) THEN IsView(q[1]) /\ q[1].members = group
              ELSE lastView(r, group)
  <2>1. PICK k \in 1 .. n + 1 : /\ IsView(q[k]) /\ q[k].members = group
                                 /\ \A j \in k + 1 .. n + 1 : ~ IsView(q[j])
    BY <1>1, <1>11 DEF lastView
  <2>2. CASE k = 1
    <3>1. noView(r)
      <4>1. \A i \in 1 .. n : i + 1 \in k + 1 .. n + 1
        BY <1>1, <2>2
      <4> QED
        BY <1>1, <2>1, <4>1 DEF noView
    <3> QED
      BY <2>1, <2>2, <3>1
  <2>3. CASE k # 1
    <3>1. k - 1 \in 1 .. n /\ r[k - 1] = q[k]
      BY <1>2, <2>3
    <3>2. \A j \in (k - 1) + 1 .. n : j + 1 \in k + 1 .. n + 1 /\ r[j] = q[j + 1]
      BY <1>1, <3>1
    <3>3. lastView(r, group)
      BY <1>1, <2>1, <3>1, <3>2 DEF lastView, n
    <3>4. ~ noView(r)
      BY <1>1, <2>1, <3>1 DEF noView
    <3> QED
      BY <3>3, <3>4
  <2> QED
    BY <2>2, <2>3
<1> QED
  BY <1>1, <1>5, <1>9, <1>10, <1>11 DEF r

-----------------------------------------------------------------------------
(* A batch of updates.                                                     *)

earlier(st, u) == {v \in missing(st) : Before(v, u)}

(* The stamp order.                                                        *)
LEMMA BeforeOrders ==
    ASSUME NEW u \in Updates, NEW v \in Updates
    PROVE  /\ ~ Before(u, u)
           /\ \A w \in Updates : Before(u, v) /\ Before(v, w) => Before(u, w)
           /\ \A w \in Updates : Before(u, v) /\ ~ Before(w, v) => Before(u, w)
BY DEF Updates, Before, Servers

(* The missing updates before another are finitely many, and more the      *)
(* later it is.                                                            *)
LEMMA EarlierGrows ==
    ASSUME NEW st \in FiniteStates, NEW u \in missing(st)
    PROVE  /\ missing(st) \subseteq st.buffer /\ missing(st) \subseteq Updates
           /\ IsFiniteSet(missing(st))
           /\ IsFiniteSet(earlier(st, u)) /\ Cardinality(earlier(st, u)) \in Nat
           /\ \A v \in earlier(st, u) :
                Cardinality(earlier(st, v)) < Cardinality(earlier(st, u))
           /\ \A v \in missing(st) : ~ Before(u, v) =>
                Cardinality(earlier(st, v)) <= Cardinality(earlier(st, u))
<1>1. missing(st) \subseteq st.buffer /\ missing(st) \subseteq Updates
  BY DEF missing, FiniteStates, LocalStates
<1>2. IsFiniteSet(missing(st))
  BY <1>1, FS_Subset DEF FiniteStates
<1>3. \A v : earlier(st, v) \in SUBSET missing(st)
  BY DEF earlier
<1>4. \A v : IsFiniteSet(earlier(st, v)) /\ Cardinality(earlier(st, v)) \in Nat
  BY <1>2, <1>3, FS_Subset, FS_CardinalityType
<1>5. ASSUME NEW v \in missing(st), ~ Before(u, v)
      PROVE  /\ earlier(st, v) \in SUBSET earlier(st, u)
             /\ Cardinality(earlier(st, v)) <= Cardinality(earlier(st, u))
  <2>1. earlier(st, v) \in SUBSET earlier(st, u)
    BY <1>1, <1>5, BeforeOrders DEF earlier
  <2> QED
    BY <1>4, <2>1, FS_Subset
<1>6. ASSUME NEW v \in earlier(st, u)
      PROVE  Cardinality(earlier(st, v)) < Cardinality(earlier(st, u))
  <2>1. v \in missing(st) /\ Before(v, u)
    BY DEF earlier
  <2>2. ~ Before(u, v) /\ ~ Before(v, v)
    BY <1>1, <2>1, BeforeOrders
  <2>3. v \notin earlier(st, v)
    BY <2>2 DEF earlier
  <2>4. /\ earlier(st, v) \in SUBSET earlier(st, u)
        /\ Cardinality(earlier(st, v)) <= Cardinality(earlier(st, u))
    BY <1>5, <2>1, <2>2
  <2>5. Cardinality(earlier(st, v)) # Cardinality(earlier(st, u))
    BY <1>4, <1>6, <2>3, <2>4, FS_Subset
  <2> QED
    BY <1>4, <2>4, <2>5
<1> QED
  BY <1>1, <1>2, <1>4, <1>5, <1>6

(* A loop that runs dry has sent all that was missing.                     *)
LEMMA DrySendsAll ==
    ASSUME NEW st \in FiniteStates, NEW n \in Nat, ranDry(st, n)
    PROVE  toSend(st, n) = missing(st)
<1> DEFINE left == missing(st) \ toSend(st, n)
           size == {Cardinality(earlier(st, u)) : u \in left}
<1>1. \A u : u \in toSend(st, n) <=>
               u \in missing(st) /\ Cardinality(earlier(st, u)) < n
  BY DEF toSend, earlier
<1>2. SUFFICES ASSUME left # {} PROVE FALSE
  BY <1>1
<1>3. size \in SUBSET Nat /\ size # {}
  BY <1>2, EarlierGrows
<1>4. PICK x \in size : \A y \in size : x <= y
  BY <1>3, Least
<1>5. PICK u \in left : x = Cardinality(earlier(st, u))
  OBVIOUS
<1>6. ASSUME NEW v \in earlier(st, u)
      PROVE  v \in toSend(st, n)
  <2>1. v \in missing(st)
    BY DEF earlier
  <2>2. /\ Cardinality(earlier(st, v)) < x
        /\ Cardinality(earlier(st, v)) \in Nat /\ x \in Nat
    BY <1>5, <2>1, EarlierGrows
  <2>3. Cardinality(earlier(st, v)) \notin size
    BY <1>4, <2>2
  <2> QED
    BY <2>1, <2>3
<1>7. IsFiniteSet(toSend(st, n)) /\ Cardinality(toSend(st, n)) \in Nat
  BY ToSendType, FS_CardinalityType
<1>8. Cardinality(earlier(st, u)) <= Cardinality(toSend(st, n))
  BY <1>6, <1>7, FS_Subset
<1>9. Cardinality(earlier(st, u)) \in Nat
  BY EarlierGrows
<1> QED
  BY <1>1, <1>7, <1>8, <1>9 DEF ranDry

(* The last update of a range, when it is in the buffer, goes with the     *)
(* batch, or the range is still open and the loop has not ended.           *)
LEMMA LastOfRange ==
    ASSUME NEW st \in FiniteStates, NEW n \in Nat, NEW p \in Servers,
           NEW e \in st.buffer, e.procID = p, e.index = st.min_max[p].max
    PROVE  \/ e \in toSend(st, n)
           \/ /\ sendMissingUpdates(st, n).status = st.status
              /\ sendMissingUpdates(st, n).min_max[p].max = st.min_max[p].max
<1> DEFINE r == st.min_max[p]
           visited == {i \in 0 .. r.max :
                         \E u \in toSend(st, n) :
                             ~ Before(u, [procID |-> p, index |-> i])}
<1>1. r \in Ranges /\ e \in Updates /\ e.index \in Nat /\ e.index = r.max
  BY DEF FiniteStates, LocalStates, Updates
<1>2. 0 <= r.min /\ r.min <= r.max /\ r.min \in Int
  BY <1>1 DEF Ranges, NoRange, Indices
<1>3. e \in missing(st)
  <2> HIDE DEF r
  <2>1. inRange(r, e.index)
    BY <1>1, <1>2 DEF inRange
  <2> QED
    BY <2>1 DEF missing, r
<1>4. CASE ranDry(st, n)
  BY <1>3, <1>4, DrySendsAll
<1>5. CASE ~ ranDry(st, n)
  <2>1. /\ sendMissingUpdates(st, n).status = st.status
        /\ sendMissingUpdates(st, n).min_max[p] = restOfRange(st, n, p)
    BY <1>5 DEF sendMissingUpdates, FiniteStates, LocalStates
  <2>2. CASE r.max \in visited
    <3>1. PICK u \in toSend(st, n) : ~ Before(u, [procID |-> p, index |-> r.max])
      BY <2>2
    <3>2. ~ Before(u, e)
      <4> HIDE DEF r
      <4> QED  BY <1>1, <3>1 DEF Before
    <3>3. u \in missing(st) /\ Cardinality(earlier(st, u)) < n
      BY DEF toSend, earlier
    <3>4. Cardinality(earlier(st, e)) <= Cardinality(earlier(st, u))
      BY <1>3, <3>2, <3>3, EarlierGrows
    <3>5. Cardinality(earlier(st, e)) \in Nat /\ Cardinality(earlier(st, u)) \in Nat
      BY <1>3, <3>3, EarlierGrows
    <3>6. Cardinality(earlier(st, e)) < n
      BY <3>3, <3>4, <3>5
    <3> QED
      BY <1>3, <3>6 DEF toSend, earlier
  <2>3. CASE r.max \notin visited
    <3>1. ~ (r.min < 0)
      BY <1>2
    <3>2. restOfRange(st, n, p).max = r.max
      BY <2>3, <3>1 DEF restOfRange
    <3> QED
      BY <2>1, <3>2
  <2> QED
    BY <2>2, <2>3
<1> QED
  BY <1>4, <1>5

(* The messages of a batch are the updates to send, each of them.          *)
LEMMA BatchSendsAll ==
    ASSUME NEW s \in Servers, NEW us \in SUBSET Updates, IsFiniteSet(us),
           NEW msgs \in batches(s, us)
    PROVE  {msgs[k] : k \in 1 .. Len(msgs)} = {resend(s, u) : u \in us}
<1> DEFINE n == Cardinality(us)
<1>1. n \in Nat
  BY FS_CardinalityType
<1>2. PICK q \in [1 .. n -> us] :
         /\ \A i, j \in 1 .. n : i < j => Before(q[i], q[j])
         /\ msgs = [k \in 1 .. n |-> resend(s, q[k])]
  BY DEF batches, listings
<1> HIDE DEF n
<1>3. msgs \in Seq(Messages) /\ DOMAIN msgs = 1 .. n
  BY <1>2, BatchType
<1>4. 1 .. Len(msgs) = 1 .. n
  BY <1>3, LenProperties
<1>5. q \in Injection(1 .. n, us)
  <2>1. ASSUME NEW i \in 1 .. n, NEW j \in 1 .. n, q[i] = q[j]
        PROVE  i = j
    <3>1. ~ (i < j) /\ ~ (j < i)
      BY <1>2, <2>1, BeforeOrders
    <3> QED
      BY <1>1, <3>1
  <2> QED
    BY <2>1 DEF Injection, IsInjective
<1>6. IsFiniteSet(1 .. n) /\ Cardinality(1 .. n) = n
  BY <1>1, FS_Interval
<1>7. q \in Surjection(1 .. n, us)
  BY <1>5, <1>6, FS_Injection DEF n
<1>8. \A u \in us : \E k \in 1 .. n : q[k] = u
  BY <1>7 DEF Surjection
<1>9. /\ \A u \in us : \E k \in 1 .. n : msgs[k] = resend(s, u)
      /\ \A k \in 1 .. n : \E u \in us : msgs[k] = resend(s, u)
  BY <1>2, <1>8
<1> DEFINE K == 1 .. n
<1> HIDE DEF K
<1>10. {msgs[k] : k \in K} = {resend(s, u) : u \in us}
  BY <1>9 DEF K
<1> QED
  BY <1>4, <1>10 DEF K

-----------------------------------------------------------------------------
(* What the functions of a server do to the course of a reconciliation.    *)

(* Applying an update leaves it alone.                                     *)
LEMMA ApplyUpdateControl ==
    ASSUME NEW st \in FiniteStates, NEW me \in Servers, NEW u \in Updates
    PROVE  /\ applyUpdate(st, me, u).status = st.status
           /\ applyUpdate(st, me, u).min_max = st.min_max
           /\ applyUpdate(st, me, u).num_matrix_recvd = st.num_matrix_recvd
           /\ applyUpdate(st, me, u).current_membership = st.current_membership
<1> DEFINE same(x, y) == /\ x.status = y.status
                         /\ x.min_max = y.min_max
                         /\ x.num_matrix_recvd = y.num_matrix_recvd
                         /\ x.current_membership = y.current_membership
           x == updateVector(storeUpdate(st, u), me, u)
           y == changeMail(x, u)
<1>1. x \in FiniteStates /\ y \in FiniteStates
  BY StoreType, ChangeMailType
<1>2. same(x, st)
  BY DEF updateVector, storeUpdate, FiniteStates, LocalStates
<1> HIDE DEF x
<1>3. same(y, x)
  <2>1. ASSUME NEW b
        PROVE  same([x EXCEPT !.emails = b], x) /\ same([x EXCEPT !.users = b], x)
    BY <1>1 DEF FiniteStates, LocalStates
  <2>2. CASE y = x
    BY <2>2
  <2>3. CASE y = addMail(x, u)
    BY <2>1, <2>3 DEF addMail
  <2>4. CASE y = addUser(x, u)
    BY <2>1, <2>4 DEF addUser
  <2>5. CASE y = deleteMail(x, u)
    BY <2>1, <2>5 DEF deleteMail
  <2>6. CASE y = markAsRead(x, u)
    BY <2>1, <2>6 DEF markAsRead
  <2>7. u.type \in UpdateTypes
    BY DEF Updates
  <2> QED
    BY <2>3, <2>4, <2>5, <2>6, <2>7 DEF changeMail, UpdateTypes
<1>4. CASE findUpdate(st, u.procID, u.index)
  BY <1>4 DEF applyUpdate
<1>5. CASE ~ findUpdate(st, u.procID, u.index)
  <2>1. applyUpdate(st, me, u) =
          [y EXCEPT !.updateIndex = larger(y.updateIndex + 1, u.index)]
    BY <1>5 DEF applyUpdate, x
  <2> HIDE DEF y
  <2>2. \A c : same([y EXCEPT !.updateIndex = c], y)
    BY <1>1 DEF FiniteStates, LocalStates
  <2> QED
    BY <1>2, <1>3, <2>1, <2>2
<1> QED
  BY <1>4, <1>5

(* Sending a batch ends the sending when the loop runs dry.                *)
LEMMA SendMissingUpdatesControl ==
    ASSUME NEW st \in FiniteStates, NEW n \in Nat
    PROVE  /\ sendMissingUpdates(st, n).status = IF ranDry(st, n) THEN "NORMAL" ELSE st.status
           /\ sendMissingUpdates(st, n).num_matrix_recvd = st.num_matrix_recvd
           /\ sendMissingUpdates(st, n).current_membership = st.current_membership
           /\ ~ ranDry(st, n) /\ n # 0 => toSend(st, n) # {}
<1>1. ASSUME ~ ranDry(st, n), n # 0
      PROVE  toSend(st, n) # {}
  <2>1. IsFiniteSet(toSend(st, n)) /\ Cardinality(toSend(st, n)) \in Nat
    BY ToSendType, FS_CardinalityType
  <2> QED
    BY <1>1, <2>1, FS_EmptySet DEF ranDry
<1> QED
  BY <1>1 DEF sendMissingUpdates, FiniteStates, LocalStates

(* Counting a matrix.                                                      *)
LEMMA CountMatrixControl ==
    ASSUME NEW st \in FiniteStates, NEW me \in Servers, NEW m
    PROVE  /\ countMatrix(st, me, m).status = st.status
           /\ countMatrix(st, me, m).min_max = st.min_max
           /\ countMatrix(st, me, m).num_matrix_recvd = st.num_matrix_recvd + 1
           /\ countMatrix(st, me, m).current_membership = st.current_membership
<1> DEFINE x == updateMatrix(st, me, m)
<1>1. /\ x.status = st.status
      /\ x.min_max = st.min_max
      /\ x.num_matrix_recvd = st.num_matrix_recvd
      /\ x.current_membership = st.current_membership
      /\ "num_matrix_recvd" \in DOMAIN x
  BY DEF updateMatrix, FiniteStates, LocalStates
<1>2. countMatrix(st, me, m) = [x EXCEPT !.num_matrix_recvd = x.num_matrix_recvd + 1]
  BY DEF countMatrix
<1>3. ASSUME NEW c
      PROVE  /\ [x EXCEPT !.num_matrix_recvd = c].status = x.status
             /\ [x EXCEPT !.num_matrix_recvd = c].min_max = x.min_max
             /\ [x EXCEPT !.num_matrix_recvd = c].num_matrix_recvd = c
             /\ [x EXCEPT !.num_matrix_recvd = c].current_membership =
                    x.current_membership
  <2> HIDE DEF x
  <2> QED  BY <1>1
<1> HIDE DEF x
<1> QED
  BY <1>1, <1>2, <1>3

(* Planning.                                                               *)
LEMMA ContinueReconcileControl ==
    ASSUME NEW st \in FiniteStates, NEW me \in Servers
    PROVE  /\ continueReconcile(st, me).status = st.status
           /\ continueReconcile(st, me).num_matrix_recvd = st.num_matrix_recvd
           /\ continueReconcile(st, me).current_membership = st.current_membership
           /\ \A p \in Servers : continueReconcile(st, me).min_max[p] = planRange(st, me, p)
<1> DEFINE x == purgeUpdateBuffer(st)
<1>1. /\ x \in FiniteStates
      /\ x.status = st.status
      /\ x.min_max = st.min_max
      /\ x.latest_update = st.latest_update
      /\ x.num_matrix_recvd = st.num_matrix_recvd
      /\ x.current_membership = st.current_membership
  <2>1. x \in FiniteStates
    BY PurgeType
  <2>2. \A b : /\ [st EXCEPT !.buffer = b].status = st.status
               /\ [st EXCEPT !.buffer = b].min_max = st.min_max
               /\ [st EXCEPT !.buffer = b].latest_update = st.latest_update
               /\ [st EXCEPT !.buffer = b].num_matrix_recvd = st.num_matrix_recvd
               /\ [st EXCEPT !.buffer = b].current_membership = st.current_membership
    BY DEF FiniteStates, LocalStates
  <2> QED
    BY <2>1, <2>2 DEF purgeUpdateBuffer
<1> HIDE DEF x
<1>2. \A p \in Servers : planRange(x, me, p) = planRange(st, me, p)
  BY <1>1 DEF planRange, checkHighestUpdate, getLowestUpdate, Others
<1>3. /\ planUpdates(x, me).status = x.status
      /\ planUpdates(x, me).num_matrix_recvd = x.num_matrix_recvd
      /\ planUpdates(x, me).current_membership = x.current_membership
      /\ \A p \in Servers : planUpdates(x, me).min_max[p] = planRange(x, me, p)
  BY <1>1 DEF planUpdates, FiniteStates, LocalStates
<1> QED
  BY <1>1, <1>2, <1>3 DEF continueReconcile, x

-----------------------------------------------------------------------------
(* The steps, seen from the queues and the course of a reconciliation: a   *)
(* server makes an update, hears one, hears a matrix, hears the last one   *)
(* of a reconciliation or reads a view; or the network regroups.           *)

Connected ==
    \A s \in Servers : s \in conn[s] /\ \A t \in conn[s] : conn[t] = conn[s]

Alone(s) ==
    /\ \A t \in Servers \ {s} : local_state'[t] = local_state[t] /\ received'[t] = received[t]
    /\ conn' = conn

SameMembership(s) ==
    local_state'[s].current_membership = local_state[s].current_membership

SameCount(s) == local_state'[s].num_matrix_recvd = local_state[s].num_matrix_recvd

SameRanges(s) ==
    /\ local_state'[s].status = local_state[s].status
    /\ local_state'[s].min_max = local_state[s].min_max

SendsAfter(s, st, n) ==
    /\ local_state'[s].status = sendMissingUpdates(st, n).status
    /\ local_state'[s].min_max = sendMissingUpdates(st, n).min_max

resends(s, us) == {resend(s, u) : u \in us}

(* Server s multicasts the updates M, on queues n.                         *)
Delivers(s, n, M) ==
    \A x \in Servers : IF x \in conn[s] THEN grows(net'[x], n[x], M)
                       ELSE net'[x] = n[x]

DeliversMatrix(s, n) ==
    \A x \in Servers : IF x \in conn[s] THEN growsByMatrix(net'[x], n[x])
                       ELSE net'[x] = n[x]

MakesUpdate(s, u) ==
    /\ u.procID = s
    /\ Alone(s) /\ SameMembership(s) /\ SameCount(s) /\ SameRanges(s)
    /\ Applies(s, u)
    /\ \E m \in UpdateMessages : m.update = u /\ Delivers(s, net, {m})

echoes(s, m) == m.proc_num = s /\ local_state[s].status = "SENDINGUPDATES"

TakesUpdate(s, m) ==
    /\ net[s] # <<>> /\ Head(net[s]) = m
    /\ Alone(s) /\ SameMembership(s) /\ SameCount(s)
    /\ Applies(s, m.update)
    /\ IF echoes(s, m)
       THEN /\ SendsAfter(s, local_state[s], 1)
            /\ Delivers(s, consume(s), resends(s, toSend(local_state[s], 1)))
       ELSE SameRanges(s) /\ Delivers(s, consume(s), {})

(* A server's vector and history stay.                                     *)
SameVector(s) ==
    /\ received'[s] = received[s]
    /\ local_state'[s].latest_update[s] = local_state[s].latest_update[s]

TakesMatrix(s, m) ==
    /\ net[s] # <<>> /\ Head(net[s]) = m
    /\ Alone(s) /\ SameMembership(s) /\ SameRanges(s) /\ SameVector(s)
    /\ net' = consume(s)
    /\ \/ local_state[s].status # "RECONCILE"
       \/ /\ local_state'[s].num_matrix_recvd = local_state[s].num_matrix_recvd + 1
          /\ local_state'[s].num_matrix_recvd #
                Cardinality(local_state[s].current_membership)

(* What planning leaves to resend of p's updates: nothing if another       *)
(* member is higher, or none is behind, and else all up to the highest.    *)
Planned(s, st, p) ==
    LET top == st.latest_update[s][p]
    IN  \/ \E i \in Others(st, s) :
              \/ st.latest_update[i][p] > top
              \/ st.latest_update[i][p] = top /\ i > s
        \/ \A i \in Others(st, s) : st.latest_update[i][p] >= top
        \/ st.min_max[p].max = top

EndsReconcile(s, m) ==
    /\ net[s] # <<>> /\ Head(net[s]) = m
    /\ local_state[s].status = "RECONCILE"
    /\ Alone(s) /\ SameMembership(s) /\ SameVector(s)
    /\ \E st \in FiniteStates :
         /\ st.status = "SENDINGUPDATES"
         /\ st.current_membership = local_state[s].current_membership
         /\ st.buffer = local_state'[s].buffer
         /\ st.latest_update = local_state'[s].latest_update
         /\ \A p \in Servers : Planned(s, st, p)
         /\ SendsAfter(s, st, MaxSend)
         /\ Delivers(s, consume(s), resends(s, toSend(st, MaxSend)))

ReadsView(s, m) ==
    /\ net[s] # <<>> /\ Head(net[s]) = m
    /\ Alone(s) /\ SameVector(s)
    /\ local_state'[s].current_membership = m.members
    /\ local_state'[s].num_matrix_recvd = 0
    /\ IF Cardinality(m.members) = 1
       THEN local_state'[s].status = "NORMAL" /\ net' = consume(s)
       ELSE local_state'[s].status = "RECONCILE" /\ DeliversMatrix(s, consume(s))

Regroups ==
    /\ local_state' = local_state /\ received' = received
    /\ Connected'
    /\ \A x \in Servers :
         \/ \A t \in conn[x] \cup {x} : net'[t] = net[t] /\ conn'[t] = conn[t]
         \/ /\ ~ noView(net'[x]) /\ news(net'[x]) = {}
            /\ matrixCount(net'[x]) = 0 /\ lastView(net'[x], conn'[x])

(* A multicast of updates.                                                 *)
LEMMA MulticastDelivers ==
    ASSUME NEW s \in Servers, NEW n \in [Servers -> Seq(Messages)],
           NEW e \in Seq(Messages), \A k \in 1 .. Len(e) : e[k].type = "UPDATE",
           net' = multicast(n, s, e)
    PROVE  Delivers(s, n, {e[k] : k \in 1 .. Len(e)})
<1>1. ASSUME NEW x \in Servers, x \in conn[s]
      PROVE  grows(net'[x], n[x], {e[k] : k \in 1 .. Len(e)})
  <2>1. net'[x] = n[x] \o e /\ n[x] \in Seq(Messages)
    BY <1>1 DEF multicast
  <2> QED
    BY <2>1, AppendUpdates
<1>2. ASSUME NEW x \in Servers, x \notin conn[s]
      PROVE  net'[x] = n[x]
  BY <1>2 DEF multicast
<1> QED
  BY <1>1, <1>2 DEF Delivers

(* A multicast batch.                                                      *)
LEMMA BatchDelivers ==
    ASSUME NEW s \in Servers, NEW n \in [Servers -> Seq(Messages)],
           NEW us \in SUBSET Updates, IsFiniteSet(us),
           NEW msgs \in batches(s, us), net' = multicast(n, s, msgs)
    PROVE  Delivers(s, n, resends(s, us))
<1>1. /\ msgs \in Seq(Messages)
      /\ \A k \in 1 .. Len(msgs) : msgs[k].type = "UPDATE"
  <2>1. /\ msgs \in Seq(Messages)
        /\ \A k \in 1 .. Len(msgs) : \E u \in us : msgs[k] = resend(s, u)
    BY BatchType
  <2>2. \A u : resend(s, u).type = "UPDATE"
    BY DEF resend
  <2> QED
    BY <2>1, <2>2
<1>2. {msgs[k] : k \in 1 .. Len(msgs)} = resends(s, us)
  BY BatchSendsAll DEF resends
<1> QED
  BY <1>1, <1>2, MulticastDelivers

(* A command makes an update.                                              *)
LEMMA CommandMakes ==
    ASSUME TypeInv, NEW s \in Servers, Command(s)
    PROVE  \E u \in Updates : MakesUpdate(s, u)
<1>1. PICK type \in UpdateTypes, user \in Users, mail \in MailIds :
         issueUpdate(s, generateUpdate(local_state[s], s, type, user, mail))
  BY CommandIsUpdate
<1> DEFINE u == generateUpdate(local_state[s], s, type, user, mail)
<1>2. local_state[s] \in FiniteStates /\ local_state[s] \in LocalStates
  BY DEF TypeInv, TypeOK
<1>3. u \in Updates /\ u.procID = s
  BY <1>2, GenerateUpdateType DEF generateUpdate
<1> HIDE DEF u
<1>4. /\ local_state' = [local_state EXCEPT ![s] = applyUpdate(@, s, u)]
      /\ remember(s, local_state[s], u)
      /\ conn' = conn
  BY <1>1 DEF issueUpdate, u
<1>5. Applies(s, u) /\ OthersKeep(s)
  BY <1>2, <1>3, <1>4, AppliesFacts
<1>6. /\ local_state'[s] = applyUpdate(local_state[s], s, u)
      /\ \A t \in Servers \ {s} : local_state'[t] = local_state[t]
  BY <1>4 DEF TypeInv
<1>7. Alone(s)
  BY <1>4, <1>5, <1>6 DEF Alone, OthersKeep, Keeps
<1>8. SameMembership(s) /\ SameCount(s) /\ SameRanges(s)
  BY <1>2, <1>3, <1>6, ApplyUpdateControl DEF SameMembership, SameCount, SameRanges
<1>9. PICK junk \in HeaderJunk :
         net' = multicast(net, s, <<[type |-> "UPDATE", from |-> s,
                                     proc_num |-> junk, update |-> u,
                                     resent |-> FALSE]>>)
  BY <1>1 DEF issueUpdate, u
<1> DEFINE m == [type |-> "UPDATE", from |-> s, proc_num |-> junk, update |-> u,
                 resent |-> FALSE]
<1>10. m \in UpdateMessages /\ m \in Messages /\ m.type = "UPDATE" /\ m.update = u
  BY <1>3, HeaderJunkAssumption DEF UpdateMessages, Messages
<1> HIDE DEF m
<1>11. /\ <<m>> \in Seq(Messages)
       /\ \A k \in 1 .. Len(<<m>>) : <<m>>[k].type = "UPDATE"
       /\ {<<m>>[k] : k \in 1 .. Len(<<m>>)} = {m}
  BY <1>10
<1>12. Delivers(s, net, {m})
  <2>1. net' = multicast(net, s, <<m>>) /\ net \in [Servers -> Seq(Messages)]
    BY <1>9 DEF m, TypeInv, TypeOK
  <2> HIDE <1>9
  <2> QED
    BY <1>11, <2>1, MulticastDelivers
<1> QED
  BY <1>3, <1>5, <1>7, <1>8, <1>10, <1>12 DEF MakesUpdate

(* Receiving an update.                                                    *)
LEMMA ReceiveUpdateTakes ==
    ASSUME TypeInv, NEW s \in Servers, ReceiveUpdate(s)
    PROVE  \E m \in UpdateMessages : TakesUpdate(s, m)
<1> DEFINE m == Head(net[s])
           st == local_state[s]
           echo == m.proc_num = s /\ st.status = "SENDINGUPDATES"
           st1 == IF echo THEN sendMissingUpdates(st, 1) ELSE st
           us == IF echo THEN toSend(st, 1) ELSE {}
<1>1. /\ local_state' = [local_state EXCEPT ![s] = applyUpdate(st1, s, m.update)]
      /\ \E msgs \in batches(s, us) : net' = multicast(consume(s), s, msgs)
      /\ remember(s, st, m.update)
      /\ net[s] # <<>> /\ m.type = "UPDATE"
      /\ conn' = conn
  BY DEF ReceiveUpdate, delivers
<1>2. m \in UpdateMessages /\ m.update \in Updates
  BY <1>1, DeliveryType DEF Messages, UpdateMessages, MatrixMessages, ViewMessages
<1>3. st \in FiniteStates
  BY DEF TypeInv
<1>4. /\ st1 \in FiniteStates
      /\ st1.updateIndex = st.updateIndex
      /\ st1.buffer = st.buffer
      /\ st1.latest_update = st.latest_update
      /\ st1.num_matrix_recvd = st.num_matrix_recvd
      /\ st1.current_membership = st.current_membership
  BY <1>3, SendMissingUpdatesType, SendMissingUpdatesEffect, SendMissingUpdatesControl
<1>5. us \in SUBSET Updates /\ IsFiniteSet(us)
  BY <1>3, ToSendType, FS_EmptySet
<1>6. /\ echo <=> echoes(s, m)
      /\ echo => st1 = sendMissingUpdates(st, 1) /\ us = toSend(st, 1)
      /\ ~ echo => st1 = st /\ us = {}
  BY DEF echoes
<1> HIDE DEF m, st1, us, echo
<1>7. Applies(s, m.update) /\ OthersKeep(s)
  BY <1>1, <1>2, <1>4, AppliesFacts
<1>8. /\ local_state'[s] = applyUpdate(st1, s, m.update)
      /\ \A t \in Servers \ {s} : local_state'[t] = local_state[t]
  BY <1>1 DEF TypeInv
<1>9. Alone(s)
  BY <1>1, <1>7, <1>8 DEF Alone, OthersKeep, Keeps
<1>10. /\ local_state'[s].status = st1.status
       /\ local_state'[s].min_max = st1.min_max
       /\ SameCount(s) /\ SameMembership(s)
  BY <1>2, <1>4, <1>8, ApplyUpdateControl DEF SameCount, SameMembership
<1>11. Delivers(s, consume(s), resends(s, us))
  BY <1>1, <1>5, DeliveryType, BatchDelivers
<1>12. resends(s, {}) = {}
  BY DEF resends
<1>13. net[s] # <<>> /\ Head(net[s]) = m
  BY <1>1 DEF m
<1> QED
  BY <1>2, <1>6, <1>7, <1>9, <1>10, <1>11, <1>12, <1>13
  DEF TakesUpdate, SendsAfter, SameRanges

(* A matrix at the head of the queue.                                      *)
LEMMA MatrixCounted ==
    ASSUME TypeInv, NEW s \in Servers, delivers(s, "MATRIX")
    PROVE  LET m == Head(net[s])
               st == countMatrix(local_state[s], s, m)
           IN  /\ net[s] # <<>> /\ m \in MatrixMessages
               /\ st \in FiniteStates
               /\ st.latest_update[s] = local_state[s].latest_update[s]
               /\ st.status = local_state[s].status
               /\ st.min_max = local_state[s].min_max
               /\ st.num_matrix_recvd = local_state[s].num_matrix_recvd + 1
               /\ st.current_membership = local_state[s].current_membership
<1> DEFINE m == Head(net[s])
           st == countMatrix(local_state[s], s, m)
<1>1. /\ net[s] # <<>> /\ m.type = "MATRIX"
      /\ m.from \in Servers /\ m.matrix \in Matrices
      /\ st \in FiniteStates
  BY MatrixType DEF delivers
<1>2. m \in MatrixMessages
  BY <1>1, DeliveryType DEF Messages, UpdateMessages, MatrixMessages, ViewMessages
<1> HIDE DEF m
<1>3. local_state[s] \in FiniteStates
  BY DEF TypeInv
<1>4. st.latest_update[s] = local_state[s].latest_update[s]
  BY <1>1, <1>3, CountMatrixEffect, UpdateMatrixEffect
<1>5. /\ st.status = local_state[s].status
      /\ st.min_max = local_state[s].min_max
      /\ st.num_matrix_recvd = local_state[s].num_matrix_recvd + 1
      /\ st.current_membership = local_state[s].current_membership
  BY <1>3, CountMatrixControl
<1> QED
  BY <1>1, <1>2, <1>4, <1>5 DEF m

(* A matrix that does not end a reconciliation.                            *)
LEMMA ReceiveMatrixTakes ==
    ASSUME TypeInv, NEW s \in Servers, IgnoreMatrix(s) \/ ReceiveMatrix(s)
    PROVE  \E m \in MatrixMessages : TakesMatrix(s, m)
<1> DEFINE m == Head(net[s])
           st == countMatrix(local_state[s], s, m)
<1>1. /\ net[s] # <<>> /\ m \in MatrixMessages
      /\ st \in FiniteStates
      /\ st.latest_update[s] = local_state[s].latest_update[s]
      /\ st.status = local_state[s].status
      /\ st.min_max = local_state[s].min_max
      /\ st.num_matrix_recvd = local_state[s].num_matrix_recvd + 1
      /\ st.current_membership = local_state[s].current_membership
  BY MatrixCounted DEF IgnoreMatrix, ReceiveMatrix
<1>2. net' = consume(s) /\ conn' = conn /\ received' = received
  BY DEF IgnoreMatrix, ReceiveMatrix
<1>3. CASE IgnoreMatrix(s)
  <2>1. local_state' = local_state /\ local_state[s].status # "RECONCILE"
    BY <1>3 DEF IgnoreMatrix
  <2> QED
    BY <1>1, <1>2, <2>1
    DEF TakesMatrix, Alone, SameMembership, SameRanges, SameVector
<1>4. CASE ReceiveMatrix(s)
  <2>1. /\ local_state' = [local_state EXCEPT ![s] = st]
        /\ st.num_matrix_recvd # Cardinality(st.current_membership)
    BY <1>4 DEF ReceiveMatrix
  <2> HIDE DEF st
  <2>2. /\ local_state'[s] = st
        /\ \A t \in Servers \ {s} : local_state'[t] = local_state[t]
    BY <2>1 DEF TypeInv
  <2> QED
    BY <1>1, <1>2, <2>1, <2>2
    DEF TakesMatrix, Alone, SameMembership, SameRanges, SameVector
<1> QED
  BY <1>3, <1>4

(* What planRange leaves.                                                  *)
LEMMA PlanRangePlans ==
    ASSUME NEW st \in FiniteStates, NEW s \in Servers, NEW p \in Servers,
           NEW after \in FiniteStates,
           after.latest_update = st.latest_update,
           after.current_membership = st.current_membership,
           after.min_max[p] = planRange(st, s, p)
    PROVE  Planned(s, after, p)
<1> DEFINE top == st.latest_update[s][p]
<1>1. Others(after, s) = Others(st, s) /\ Others(st, s) \subseteq Servers \ {s}
  BY DEF Others, FiniteStates, LocalStates
<1>2. \A i \in Servers : st.latest_update[i][p] \in Int /\ i \in Int
  <2>1. \A i \in Servers : st.latest_update[i][p] \in Int
    BY DEF FiniteStates, LocalStates, Matrices, Indices
  <2> QED
    BY <2>1 DEF Servers
<1>3. CASE ~ checkHighestUpdate(st, s, p)
  <2>1. PICK i \in Others(st, s) :
           /\ ~ (st.latest_update[i][p] < top)
           /\ ~ (st.latest_update[i][p] = top /\ i < s)
    BY <1>3 DEF checkHighestUpdate
  <2>2. st.latest_update[i][p] > top \/ (st.latest_update[i][p] = top /\ i > s)
    BY <1>1, <1>2, <2>1
  <2> QED
    BY <1>1, <2>2 DEF Planned
<1>4. CASE checkHighestUpdate(st, s, p) /\ \E i \in Others(st, s) : st.latest_update[i][p] < top
  <2>1. after.min_max[p].max = top
    BY <1>4 DEF planRange
  <2> QED
    BY <2>1 DEF Planned
<1>5. CASE ~ \E i \in Others(st, s) : st.latest_update[i][p] < top
  <2>1. \A i \in Others(st, s) : st.latest_update[i][p] >= top
    BY <1>1, <1>2, <1>5
  <2> QED
    BY <1>1, <2>1 DEF Planned
<1> QED
  BY <1>3, <1>4, <1>5

(* The last matrix ends a reconciliation.                                  *)
LEMMA ReceiveLastMatrixEnds ==
    ASSUME TypeInv, NEW s \in Servers, ReceiveLastMatrix(s)
    PROVE  \E m \in MatrixMessages : EndsReconcile(s, m)
<1> DEFINE m == Head(net[s])
           counted == countMatrix(local_state[s], s, m)
           st == [counted EXCEPT !.status = "SENDINGUPDATES"]
           planned == continueReconcile(st, s)
           us == toSend(planned, MaxSend)
           next == sendMissingUpdates(planned, MaxSend)
<1>1. /\ net[s] # <<>> /\ m \in MatrixMessages
      /\ counted \in FiniteStates
      /\ counted.latest_update[s] = local_state[s].latest_update[s]
      /\ counted.current_membership = local_state[s].current_membership
  BY MatrixCounted DEF ReceiveLastMatrix
<1>2. /\ local_state' = [local_state EXCEPT ![s] = next]
      /\ \E msgs \in batches(s, us) : net' = multicast(consume(s), s, msgs)
      /\ conn' = conn /\ received' = received
      /\ local_state[s].status = "RECONCILE"
  BY DEF ReceiveLastMatrix
<1> HIDE DEF counted
<1>3. /\ st \in FiniteStates
      /\ st.status = "SENDINGUPDATES"
      /\ st.latest_update = counted.latest_update
      /\ st.current_membership = counted.current_membership
  BY <1>1 DEF FiniteStates, LocalStates, Status
<1> HIDE DEF st
<1>4. /\ planned \in FiniteStates
      /\ planned.latest_update = st.latest_update
      /\ planned.status = st.status
      /\ planned.current_membership = st.current_membership
      /\ \A p \in Servers : planned.min_max[p] = planRange(st, s, p)
  BY <1>3, ContinueReconcileType, ContinueReconcileEffect, ContinueReconcileControl
<1> HIDE DEF planned
<1>5. \A p \in Servers : Planned(s, planned, p)
  BY <1>3, <1>4, PlanRangePlans
<1>6. /\ next.buffer = planned.buffer
      /\ next.latest_update = planned.latest_update
      /\ next.current_membership = planned.current_membership
  BY <1>4, MaxSendAssumption, SendMissingUpdatesEffect, SendMissingUpdatesControl
<1>7. us \in SUBSET Updates /\ IsFiniteSet(us)
  BY <1>4, MaxSendAssumption, ToSendType
<1> HIDE DEF us
<1>8. Delivers(s, consume(s), resends(s, us))
  BY <1>1, <1>2, <1>7, DeliveryType, BatchDelivers
<1>9. /\ local_state'[s] = next
      /\ \A t \in Servers \ {s} : local_state'[t] = local_state[t]
  BY <1>2 DEF TypeInv
<1>10. SendsAfter(s, planned, MaxSend)
  BY <1>9 DEF SendsAfter
<1> HIDE DEF next
<1>11. Alone(s) /\ SameMembership(s) /\ SameVector(s)
  BY <1>1, <1>2, <1>3, <1>4, <1>6, <1>9 DEF Alone, SameMembership, SameVector
<1>12. /\ planned.status = "SENDINGUPDATES"
       /\ planned.current_membership = local_state[s].current_membership
       /\ planned.buffer = local_state'[s].buffer
       /\ planned.latest_update = local_state'[s].latest_update
  BY <1>1, <1>3, <1>4, <1>6, <1>9
<1>13. EndsReconcile(s, m)
  BY <1>1, <1>2, <1>4, <1>5, <1>8, <1>10, <1>11, <1>12 DEF EndsReconcile, us
<1> QED
  BY <1>1, <1>13

(* Reading a view.                                                         *)
LEMMA ReceiveViewReads ==
    ASSUME TypeInv, NEW s \in Servers, ReceiveView(s)
    PROVE  \E m \in ViewMessages : ReadsView(s, m)
<1> DEFINE m == Head(net[s])
           members == Head(net[s]).members
           st == [local_state[s] EXCEPT !.current_membership = members,
                                        !.num_matrix_recvd = 0]
           msg == [type |-> "MATRIX", from |-> s, matrix |-> st.latest_update]
           normal == [st EXCEPT !.status = "NORMAL"]
           reconcile == [st EXCEPT !.status = "RECONCILE"]
<1>1. /\ IF Cardinality(members) = 1
         THEN local_state' = [local_state EXCEPT ![s] = normal] /\ net' = consume(s)
         ELSE /\ local_state' = [local_state EXCEPT ![s] = reconcile]
              /\ net' = multicast(consume(s), s, <<msg>>)
      /\ conn' = conn /\ received' = received
      /\ net[s] # <<>> /\ Head(net[s]).type = "VIEW"
  BY DEF ReceiveView, delivers
<1>2. /\ consume(s) \in [Servers -> Seq(Messages)]
      /\ m \in ViewMessages
  BY <1>1, DeliveryType DEF Messages, UpdateMessages, MatrixMessages
<1>3. /\ st.latest_update = local_state[s].latest_update
      /\ \A c : /\ [st EXCEPT !.status = c].status = c
                /\ [st EXCEPT !.status = c].latest_update = local_state[s].latest_update
                /\ [st EXCEPT !.status = c].num_matrix_recvd = 0
                /\ [st EXCEPT !.status = c].current_membership = members
  BY DEF TypeInv, FiniteStates, LocalStates
<1>4. st.latest_update \in Matrices
  BY <1>3 DEF TypeInv, FiniteStates, LocalStates
<1> HIDE DEF st
<1>5. msg \in MatrixMessages
  BY <1>4 DEF MatrixMessages
<1>6. \A c : local_state' = [local_state EXCEPT ![s] = c] =>
               /\ local_state'[s] = c
               /\ \A x \in Servers \ {s} : local_state'[x] = local_state[x]
  BY DEF TypeInv
<1> HIDE DEF msg
<1>7. ASSUME net' = multicast(consume(s), s, <<msg>>)
      PROVE  DeliversMatrix(s, consume(s))
  <2>1. ASSUME NEW x \in Servers, x \in conn[s]
        PROVE  growsByMatrix(net'[x], consume(s)[x])
    <3>1. net'[x] = consume(s)[x] \o <<msg>> /\ consume(s)[x] \in Seq(Messages)
      BY <1>2, <1>7, <2>1 DEF multicast
    <3> QED
      BY <1>5, <3>1, AppendMatrix
  <2>2. ASSUME NEW x \in Servers, x \notin conn[s]
        PROVE  net'[x] = consume(s)[x]
    BY <1>7, <2>2 DEF multicast
  <2> QED
    BY <2>1, <2>2 DEF DeliversMatrix
<1>8. CASE Cardinality(members) = 1
  <2>1. /\ local_state'[s] = normal /\ net' = consume(s)
        /\ \A x \in Servers \ {s} : local_state'[x] = local_state[x]
    BY <1>1, <1>6, <1>8
  <2> QED
    BY <1>1, <1>2, <1>3, <1>8, <2>1 DEF ReadsView, Alone, SameVector
<1>9. CASE Cardinality(members) # 1
  <2>1. /\ local_state'[s] = reconcile
        /\ \A x \in Servers \ {s} : local_state'[x] = local_state[x]
        /\ DeliversMatrix(s, consume(s))
    BY <1>1, <1>6, <1>7, <1>9
  <2> QED
    BY <1>1, <1>2, <1>3, <1>9, <2>1 DEF ReadsView, Alone, SameVector
<1> QED
  BY <1>8, <1>9

(* The servers that a change of the network leaves alone were and are      *)
(* connected among themselves.                                             *)
LEMMA ConnectedRegions ==
    ASSUME TypeInv, Connected, NEW s \in Servers, NEW x \in Servers, x \notin conn[s]
    PROVE  \A t \in conn[x] : t \in Servers /\ t \notin conn[s]
<1>1. ASSUME NEW t \in conn[x], t \in conn[s]
      PROVE  FALSE
  <2>1. t \in Servers /\ conn[t] = conn[x] /\ conn[t] = conn[s] /\ x \in conn[x]
    BY <1>1 DEF Connected, TypeInv, TypeOK
  <2> QED
    BY <2>1
<1> QED
  BY <1>1 DEF TypeInv, TypeOK

(* A split regroups.                                                       *)
LEMMA SplitRegroups ==
    ASSUME TypeInv, Connected, NEW A \in SUBSET Servers, NEW B \in SUBSET Servers,
           Split(A, B)
    PROVE  Regroups
<1>1. PICK s \in A, t \in B :
         /\ conn[s] = A \cup B
         /\ \E j \in 0 .. sinceView(s), k \in 0 .. sinceView(t) :
            /\ mayLose(A, j)
            /\ mayLose(B, k)
            /\ \E a \in survivors(A, s, j), b \in survivors(B, t, k) :
                 net' = [x \in Servers |->
                           IF x \in A THEN cut(x, j) \o a \o view(A)
                           ELSE IF x \in B THEN cut(x, k) \o b \o view(B)
                           ELSE net[x]]
  BY DEF Split
<1>2. PICK j \in 0 .. sinceView(s), k \in 0 .. sinceView(t) :
            /\ mayLose(A, j)
            /\ mayLose(B, k)
            /\ \E a \in survivors(A, s, j), b \in survivors(B, t, k) :
                 net' = [x \in Servers |->
                           IF x \in A THEN cut(x, j) \o a \o view(A)
                           ELSE IF x \in B THEN cut(x, k) \o b \o view(B)
                           ELSE net[x]]
  BY <1>1
<1>3. PICK a \in survivors(A, s, j), b \in survivors(B, t, k) :
         net' = [x \in Servers |->
                   IF x \in A THEN cut(x, j) \o a \o view(A)
                   ELSE IF x \in B THEN cut(x, k) \o b \o view(B)
                   ELSE net[x]]
  BY <1>2
<1>4. /\ j \in Nat /\ \A x \in A : j <= Len(net[x])
      /\ k \in Nat /\ \A x \in B : k <= Len(net[x])
  <2>1. \A x \in Servers : /\ sinceView(x) \in Nat /\ Len(net[x]) \in Nat
                           /\ sinceView(x) <= Len(net[x])
    BY SinceViewBound, LenProperties DEF TypeInv, TypeOK
  <2>2. j \in Nat /\ k \in Nat
    BY <2>1
  <2>3. (\A x \in A : j <= sinceView(x)) /\ (\A x \in B : k <= sinceView(x))
    BY <1>2 DEF mayLose
  <2> QED
    BY <2>1, <2>2, <2>3
<1>5. ASSUME NEW G \in SUBSET Servers, NEW l \in Nat, NEW y \in Servers, l <= Len(net[y]),
             NEW e \in survivors(G, y, l), NEW x \in Servers, l <= Len(net[x]),
             net'[x] = cut(x, l) \o e \o view(G)
      PROVE  /\ ~ noView(net'[x]) /\ news(net'[x]) = {}
             /\ matrixCount(net'[x]) = 0 /\ lastView(net'[x], G)
  <2>1. cut(x, l) \in Seq(Messages) /\ e \in Seq(Messages)
    BY <1>5, CutType, SurvivorsType
  <2>2. cut(x, l) \o e \in Seq(Messages)
    BY <2>1, ConcatProperties
  <2> QED
    BY <1>5, <2>2, AppendView
<1>6. conn' = [x \in Servers |-> IF x \in A THEN A ELSE IF x \in B THEN B ELSE conn[x]]
      /\ A \cap B = {}
  BY DEF Split
<1>7. \A x \in Servers \ (A \cup B) : \A y \in conn[x] : y \in Servers \ (A \cup B)
  BY <1>1, ConnectedRegions
<1>8. Connected'
  BY <1>6, <1>7 DEF Connected, TypeInv, TypeOK
<1>9. ASSUME NEW x \in Servers
      PROVE  \/ \A y \in conn[x] \cup {x} : net'[y] = net[y] /\ conn'[y] = conn[y]
             \/ /\ ~ noView(net'[x]) /\ news(net'[x]) = {}
                /\ matrixCount(net'[x]) = 0 /\ lastView(net'[x], conn'[x])
  <2>1. CASE x \in A
    <3>1. net'[x] = cut(x, j) \o a \o view(A) /\ conn'[x] = A
      BY <1>3, <1>6, <2>1
    <3>2. j <= Len(net[s]) /\ j <= Len(net[x])
      BY <1>4, <2>1
    <3> QED
      BY <1>4, <1>5, <3>1, <3>2
  <2>2. CASE x \notin A /\ x \in B
    <3>1. net'[x] = cut(x, k) \o b \o view(B) /\ conn'[x] = B
      BY <1>3, <1>6, <2>2
    <3>2. k <= Len(net[t]) /\ k <= Len(net[x])
      BY <1>4, <2>2
    <3> QED
      BY <1>4, <1>5, <3>1, <3>2
  <2>3. CASE x \notin A /\ x \notin B
    BY <1>3, <1>6, <1>7, <2>3
  <2> QED
    BY <2>1, <2>2, <2>3
<1>10. local_state' = local_state /\ received' = received
  BY DEF Split
<1> QED
  BY <1>8, <1>9, <1>10 DEF Regroups

(* A merge regroups.                                                       *)
LEMMA MergeRegroups ==
    ASSUME TypeInv, Connected, NEW s \in Servers, NEW t \in Servers, Merge(s, t)
    PROVE  Regroups
<1> DEFINE group == conn[s] \cup conn[t]
<1>1. group \in SUBSET Servers
  BY DEF TypeInv, TypeOK
<1>2. \A x \in Servers \ group : \A y \in conn[x] : y \in Servers \ group
  BY ConnectedRegions
<1>3. /\ net' = [x \in Servers |->
                   IF x \in group THEN net[x] \o view(group) ELSE net[x]]
      /\ conn' = [x \in Servers |-> IF x \in group THEN group ELSE conn[x]]
      /\ local_state' = local_state /\ received' = received
  BY DEF Merge
<1> HIDE DEF group
<1>4. Connected'
  BY <1>1, <1>2, <1>3 DEF Connected, TypeInv, TypeOK
<1>5. ASSUME NEW x \in Servers
      PROVE  \/ \A y \in conn[x] \cup {x} : net'[y] = net[y] /\ conn'[y] = conn[y]
             \/ /\ ~ noView(net'[x]) /\ news(net'[x]) = {}
                /\ matrixCount(net'[x]) = 0 /\ lastView(net'[x], conn'[x])
  <2>1. CASE x \in group
    <3>1. /\ net'[x] = net[x] \o view(group) /\ conn'[x] = group
          /\ net[x] \in Seq(Messages)
      BY <1>3, <2>1 DEF TypeInv, TypeOK
    <3> QED
      BY <1>1, <3>1, AppendView
  <2>2. CASE x \notin group
    BY <1>2, <1>3, <2>2
  <2> QED
    BY <2>1, <2>2
<1> QED
  BY <1>3, <1>4, <1>5 DEF Regroups

(* There is no other form of step.                                         *)
LEMMA StepForms ==
    ASSUME TypeInv, Connected, [Next]_vars
    PROVE  \/ \E s \in Servers, u \in Updates : MakesUpdate(s, u)
           \/ \E s \in Servers, m \in UpdateMessages : TakesUpdate(s, m)
           \/ \E s \in Servers, m \in MatrixMessages : TakesMatrix(s, m)
           \/ \E s \in Servers, m \in MatrixMessages : EndsReconcile(s, m)
           \/ \E s \in Servers, m \in ViewMessages : ReadsView(s, m)
           \/ Regroups
<1>1. CASE \E s \in Servers : Command(s)
  BY <1>1, CommandMakes
<1>2. CASE \E s \in Servers : ReceiveUpdate(s)
  BY <1>2, ReceiveUpdateTakes
<1>3. CASE \E s \in Servers : IgnoreMatrix(s) \/ ReceiveMatrix(s)
  BY <1>3, ReceiveMatrixTakes
<1>4. CASE \E s \in Servers : ReceiveLastMatrix(s)
  BY <1>4, ReceiveLastMatrixEnds
<1>5. CASE \E s \in Servers : ReceiveView(s)
  BY <1>5, ReceiveViewReads
<1>6. CASE \E A, B \in SUBSET Servers : Split(A, B)
  BY <1>6, SplitRegroups
<1>7. CASE \E s, t \in Servers : Merge(s, t)
  BY <1>7, MergeRegroups
<1>8. CASE UNCHANGED vars
  BY <1>8 DEF vars, Regroups, Connected
<1> QED
  BY <1>1, <1>2, <1>3, <1>4, <1>5, <1>6, <1>7, <1>8 DEF Next, Receive

(* What consuming the message m, which is no view, and multicasting M does *)
(* to the queues.                                                          *)
Heard(s, m, M) ==
    \A x \in Servers :
        /\ noView(net'[x]) <=> noView(net[x])
        /\ \A group : lastView(net[x], group) => lastView(net'[x], group)
        /\ IF x = s /\ noView(net[x]) /\ m.type = "MATRIX"
           THEN matrixCount(net[x]) = matrixCount(net'[x]) + 1
           ELSE matrixCount(net'[x]) = matrixCount(net[x])
        /\ news(net[x]) \subseteq news(net'[x]) \cup (IF x = s THEN {m} ELSE {})
        /\ news(net'[x]) \subseteq news(net[x]) \cup (IF x \in conn[s] THEN M ELSE {})
        /\ x \in conn[s] => M \subseteq news(net'[x])

LEMMA HeardQueues ==
    ASSUME TypeInv, Connected, NEW s \in Servers, net[s] # <<>>,
           NEW m, m = Head(net[s]), ~ IsView(m), NEW M, Delivers(s, consume(s), M)
    PROVE  Heard(s, m, M)
<1> DEFINE q == net[s]
           n == consume(s)
<1>1. /\ q \in Seq(Messages) /\ n[s] = Tail(q)
      /\ \A x \in Servers \ {s} : n[x] = net[x]
      /\ s \in conn[s]
  BY DEF consume, TypeInv, TypeOK, Connected
<1>2. /\ noView(Tail(q)) <=> noView(q)
      /\ noView(q) => news(q) = news(Tail(q)) \cup {m}
      /\ ~ noView(q) => news(q) = news(Tail(q))
      /\ matrixCount(q) = matrixCount(Tail(q)) +
           IF noView(q) /\ m.type = "MATRIX" THEN 1 ELSE 0
      /\ \A group : lastView(q, group) => lastView(Tail(q), group)
  BY <1>1, TakeHead
<1>3. Tail(q) \in Seq(Messages) /\ matrixCount(Tail(q)) \in Nat
  <2>1. Tail(q) \in Seq(Messages)
    BY <1>1, TakeHead
  <2> QED
    BY <2>1, SinceFinite
<1> HIDE DEF n
<1>4. grows(net'[s], Tail(q), M)
  BY <1>1 DEF Delivers, n
<1>5. /\ noView(net'[s]) <=> noView(q)
      /\ \A group : lastView(q, group) => lastView(net'[s], group)
      /\ IF noView(q) /\ m.type = "MATRIX"
         THEN matrixCount(q) = matrixCount(net'[s]) + 1
         ELSE matrixCount(net'[s]) = matrixCount(q)
      /\ news(q) \subseteq news(net'[s]) \cup {m}
      /\ news(net'[s]) \subseteq news(q) \cup M
      /\ M \subseteq news(net'[s])
  BY <1>2, <1>3, <1>4 DEF grows
<1>6. ASSUME NEW x \in Servers, x # s
      PROVE  /\ noView(net'[x]) <=> noView(net[x])
             /\ \A group : lastView(net[x], group) => lastView(net'[x], group)
             /\ matrixCount(net'[x]) = matrixCount(net[x])
             /\ news(net'[x]) = news(net[x]) \cup (IF x \in conn[s] THEN M ELSE {})
  <2>1. IF x \in conn[s] THEN grows(net'[x], net[x], M) ELSE net'[x] = net[x]
    BY <1>1, <1>6 DEF Delivers, n
  <2> QED
    BY <2>1 DEF grows
<1> QED
  BY <1>1, <1>5, <1>6 DEF Heard

(* What a command does to them.                                            *)
LEMMA MadeQueues ==
    ASSUME NEW s \in Servers, NEW M, Delivers(s, net, M)
    PROVE  \A x \in Servers :
              /\ noView(net'[x]) <=> noView(net[x])
              /\ \A group : lastView(net[x], group) => lastView(net'[x], group)
              /\ matrixCount(net'[x]) = matrixCount(net[x])
              /\ news(net'[x]) = news(net[x]) \cup (IF x \in conn[s] THEN M ELSE {})
BY DEF Delivers, grows

(* Delivering nothing.                                                     *)
LEMMA DeliversNothing ==
    ASSUME NEW s \in Servers, NEW n, net' = n
    PROVE  Delivers(s, n, {})
BY DEF Delivers, grows

(* What reading a view does to the queues.                                 *)
LEMMA ReadQueues ==
    ASSUME TypeInv, Connected, NEW s \in Servers, NEW m \in ViewMessages, ReadsView(s, m)
    PROVE  LET alone == Cardinality(m.members) = 1
           IN  /\ ~ noView(net[s])
               /\ \A group : lastView(net[s], group) =>
                    IF noView(net'[s]) THEN m.members = group
                    ELSE lastView(net'[s], group)
               /\ matrixCount(net'[s]) = matrixCount(net[s]) + (IF alone THEN 0 ELSE 1)
               /\ \A k \in news(net'[s]) : k.type = "UPDATE" => k \in news(net[s])
               /\ news(net[s]) \subseteq news(net'[s])
               /\ \A x \in Servers \ {s} :
                    /\ noView(net'[x]) <=> noView(net[x])
                    /\ \A group : lastView(net[x], group) => lastView(net'[x], group)
                    /\ news(net[x]) \subseteq news(net'[x])
                    /\ \A k \in news(net'[x]) : k.type = "UPDATE" => k \in news(net[x])
                    /\ matrixCount(net'[x]) = matrixCount(net[x]) +
                         (IF alone \/ x \notin conn[s] THEN 0 ELSE 1)
<1> DEFINE q == net[s]
           n == consume(s)
           alone == Cardinality(m.members) = 1
<1>1. /\ q \in Seq(Messages) /\ q # <<>> /\ Head(q) = m /\ n[s] = Tail(q)
      /\ \A x \in Servers \ {s} : n[x] = net[x]
      /\ s \in conn[s] /\ IsView(m) /\ m.type # "MATRIX"
  BY DEF consume, TypeInv, TypeOK, Connected, ReadsView, ViewMessages, IsView
<1> HIDE DEF n
<1>2. /\ ~ noView(q)
      /\ news(q) = news(Tail(q))
      /\ matrixCount(q) = matrixCount(Tail(q)) + 0
      /\ \A group : lastView(q, group) =>
           IF noView(Tail(q)) THEN m.members = group ELSE lastView(Tail(q), group)
      /\ matrixCount(Tail(q)) \in Nat
  BY <1>1, TakeHead, SinceFinite
<1>3. \A k \in MatrixMessages : k.type # "UPDATE"
  BY DEF MatrixMessages
<1>4. CASE alone
  <2>1. net' = n
    BY <1>4 DEF ReadsView, n
  <2>2. net'[s] = Tail(q) /\ \A x \in Servers \ {s} : net'[x] = net[x]
    BY <1>1, <2>1
  <2>3. \A x \in Servers : matrixCount(net[x]) \in Nat
    BY SinceFinite DEF TypeInv, TypeOK
  <2>4. \A x \in Servers \ {s} : matrixCount(net'[x]) = matrixCount(net[x]) + 0
    BY <2>2, <2>3
  <2>5. matrixCount(net'[s]) = matrixCount(q) + 0
    BY <1>2, <2>2
  <2> QED
    BY <1>2, <1>4, <2>2, <2>4, <2>5
<1>5. CASE ~ alone
  <2>1. \A x \in Servers : IF x \in conn[s] THEN growsByMatrix(net'[x], n[x])
                           ELSE net'[x] = n[x]
    BY <1>5 DEF ReadsView, DeliversMatrix, n
  <2>2. growsByMatrix(net'[s], Tail(q))
    BY <1>1, <2>1
  <2>3. /\ noView(net'[s]) <=> noView(Tail(q))
        /\ matrixCount(net'[s]) = matrixCount(q) + 1
        /\ news(q) \subseteq news(net'[s])
        /\ \A k \in news(net'[s]) : k.type = "UPDATE" => k \in news(q)
        /\ \A group : lastView(Tail(q), group) => lastView(net'[s], group)
    BY <1>2, <1>3, <2>2 DEF growsByMatrix
  <2>4. ASSUME NEW x \in Servers \ {s}
        PROVE  /\ noView(net'[x]) <=> noView(net[x])
               /\ \A group : lastView(net[x], group) => lastView(net'[x], group)
               /\ news(net[x]) \subseteq news(net'[x])
               /\ \A k \in news(net'[x]) : k.type = "UPDATE" => k \in news(net[x])
               /\ matrixCount(net'[x]) = matrixCount(net[x]) +
                    (IF x \notin conn[s] THEN 0 ELSE 1)
    <3>1. matrixCount(net[x]) \in Nat
      BY SinceFinite DEF TypeInv, TypeOK
    <3>2. IF x \in conn[s] THEN growsByMatrix(net'[x], net[x]) ELSE net'[x] = net[x]
      BY <1>1, <2>1
    <3> QED
      BY <1>3, <3>1, <3>2 DEF growsByMatrix
  <2> QED
    BY <1>2, <1>5, <2>3, <2>4
<1> QED
  BY <1>4, <1>5

-----------------------------------------------------------------------------
(* A reconciliation ends when its messages have arrived.                   *)

(* A server that has read all its views knows its component; another has   *)
(* the present one as the last view on its way.                            *)
LastViewIsConn ==
    \A s \in Servers :
        IF noView(net[s]) THEN local_state[s].current_membership = conn[s]
        ELSE lastView(net[s], conn[s])

(* The servers of the component of s that have read their views.           *)
readers(s) == {t \in conn[s] : noView(net[t])}

(* Each of them has sent its matrix to s, which counts it or will count it *)
(* in the present reconciliation.                                          *)
MatricesSuffice ==
    \A s \in Servers :
        /\ ~ noView(net[s]) => Cardinality(readers(s)) <= matrixCount(net[s])
        /\ noView(net[s]) /\ local_state[s].status = "RECONCILE" =>
             /\ Cardinality(readers(s)) <=
                    local_state[s].num_matrix_recvd + matrixCount(net[s])
             /\ local_state[s].num_matrix_recvd < Cardinality(conn[s])

(* A server that is sending still waits for an update that it resent.      *)
EchoComes ==
    \A s \in Servers :
        noView(net[s]) /\ local_state[s].status = "SENDINGUPDATES" =>
            \E m \in news(net[s]) : m.type = "UPDATE" /\ m.proc_num = s

QueueInv ==
    /\ Connected
    /\ LastViewIsConn
    /\ MatricesSuffice
    /\ EchoComes

(* Components and readers are finite.                                      *)
LEMMA ReadersFinite ==
    ASSUME TypeInv, NEW s \in Servers
    PROVE  /\ IsFiniteSet(conn[s]) /\ Cardinality(conn[s]) \in Nat
           /\ readers(s) \subseteq conn[s]
           /\ IsFiniteSet(readers(s)) /\ Cardinality(readers(s)) \in Nat
           /\ matrixCount(net[s]) \in Nat
           /\ local_state[s].num_matrix_recvd \in Nat
<1>1. conn[s] \subseteq Servers /\ IsFiniteSet(Servers)
  BY FS_Interval, NumServersAssumption DEF Servers, TypeInv, TypeOK
<1>2. readers(s) \subseteq conn[s]
  BY DEF readers
<1>3. IsFiniteSet(conn[s]) /\ IsFiniteSet(readers(s))
  BY <1>1, <1>2, FS_Subset
<1>4. matrixCount(net[s]) \in Nat
  BY SinceFinite DEF TypeInv, TypeOK
<1>5. local_state[s].num_matrix_recvd \in Nat
  BY DEF TypeInv, FiniteStates, LocalStates
<1> QED
  BY <1>2, <1>3, <1>4, <1>5, FS_CardinalityType

(* Initially every server is alone and nothing is on the way.              *)
LEMMA QueueInit == Init => QueueInv
<1> SUFFICES ASSUME Init PROVE QueueInv
  OBVIOUS
<1>1. \A s \in Servers : net[s] = <<>> /\ conn[s] = {s}
                         /\ local_state[s].status = "NORMAL"
                         /\ local_state[s].current_membership = {s}
  BY DEF Init, initialState
<1>2. noView(<<>>)
  BY DEF noView
<1>3. Connected
  BY <1>1 DEF Connected
<1>4. LastViewIsConn
  BY <1>1, <1>2 DEF LastViewIsConn
<1>5. MatricesSuffice
  BY <1>1, <1>2 DEF MatricesSuffice
<1>6. EchoComes
  BY <1>1 DEF EchoComes
<1> QED
  BY <1>3, <1>4, <1>5, <1>6 DEF QueueInv

(* A step at one server that leaves the views alone and counts the         *)
(* matrices that it takes keeps the counts.                                *)
LEMMA CountsKept ==
    ASSUME TypeInv, QueueInv, NEW s \in Servers, Alone(s), SameMembership(s),
           \A x \in Servers :
              /\ noView(net'[x]) <=> noView(net[x])
              /\ \A group : lastView(net[x], group) => lastView(net'[x], group),
           \A x \in Servers \ {s} : matrixCount(net'[x]) = matrixCount(net[x]),
           \/ matrixCount(net'[s]) = matrixCount(net[s])
           \/ noView(net[s]),
           noView(net[s]) /\ local_state'[s].status = "RECONCILE" =>
              /\ local_state[s].status = "RECONCILE"
              /\ \/ /\ matrixCount(net'[s]) = matrixCount(net[s])
                    /\ SameCount(s)
                 \/ /\ matrixCount(net[s]) = matrixCount(net'[s]) + 1
                    /\ local_state'[s].num_matrix_recvd = local_state[s].num_matrix_recvd + 1
                    /\ local_state'[s].num_matrix_recvd #
                          Cardinality(local_state[s].current_membership),
           matrixCount(net'[s]) \in Nat
    PROVE  Connected' /\ LastViewIsConn' /\ MatricesSuffice'
<1>1. conn' = conn /\ \A x \in Servers : conn'[x] = conn[x]
  BY DEF Alone
<1>2. \A x \in Servers \ {s} : local_state'[x] = local_state[x]
  BY DEF Alone
<1>3. Connected'
  BY <1>1 DEF QueueInv, Connected
<1>4. LastViewIsConn'
  BY <1>1, <1>2 DEF QueueInv, LastViewIsConn, SameMembership
<1>5. ASSUME NEW x \in Servers
      PROVE  readers(x)' = readers(x)
  <2>1. conn[x] \subseteq Servers
    BY DEF TypeInv, TypeOK
  <2> QED
    BY <1>1, <2>1 DEF readers
<1>6. ASSUME NEW x \in Servers, ~ noView(net'[x])
      PROVE  Cardinality(readers(x)') <= matrixCount(net'[x])
  <2>1. Cardinality(readers(x)) <= matrixCount(net[x])
    BY <1>6 DEF QueueInv, MatricesSuffice
  <2>2. matrixCount(net'[x]) = matrixCount(net[x])
    BY <1>6
  <2> QED
    BY <1>5, <2>1, <2>2
<1>7. ASSUME NEW x \in Servers, noView(net'[x]), local_state'[x].status = "RECONCILE"
      PROVE  /\ Cardinality(readers(x)') <=
                    local_state'[x].num_matrix_recvd + matrixCount(net'[x])
             /\ local_state'[x].num_matrix_recvd < Cardinality(conn'[x])
  <2>1. noView(net[x]) /\ local_state[x].status = "RECONCILE"
    BY <1>2, <1>7
  <2>2. /\ Cardinality(readers(x)) <= local_state[x].num_matrix_recvd + matrixCount(net[x])
        /\ local_state[x].num_matrix_recvd < Cardinality(conn[x])
    BY <2>1 DEF QueueInv, MatricesSuffice
  <2>3. CASE x # s
    BY <1>1, <1>2, <1>5, <2>2, <2>3
  <2>4. CASE x = s
    <3>1. local_state[s].current_membership = conn[s]
      BY <2>1, <2>4 DEF QueueInv, LastViewIsConn
    <3>2. /\ Cardinality(readers(s)) \in Nat /\ Cardinality(conn[s]) \in Nat
          /\ matrixCount(net[s]) \in Nat /\ local_state[s].num_matrix_recvd \in Nat
      BY ReadersFinite
    <3>3. CASE matrixCount(net'[s]) = matrixCount(net[s]) /\ SameCount(s)
      BY <1>1, <1>5, <2>2, <2>4, <3>3 DEF SameCount
    <3>4. CASE /\ matrixCount(net[s]) = matrixCount(net'[s]) + 1
               /\ local_state'[s].num_matrix_recvd = local_state[s].num_matrix_recvd + 1
               /\ local_state'[s].num_matrix_recvd #
                      Cardinality(local_state[s].current_membership)
      <4>1. local_state'[s].num_matrix_recvd + matrixCount(net'[s])
              = local_state[s].num_matrix_recvd + matrixCount(net[s])
        BY <3>2, <3>4
      <4>2. local_state'[s].num_matrix_recvd < Cardinality(conn[s])
        BY <2>2, <2>4, <3>1, <3>2, <3>4
      <4> QED
        BY <1>1, <1>5, <2>2, <2>4, <4>1, <4>2
    <3> QED
      BY <1>7, <2>4, <3>3, <3>4
  <2> QED
    BY <2>3, <2>4
<1>8. MatricesSuffice'
  BY <1>6, <1>7 DEF MatricesSuffice
<1> QED
  BY <1>3, <1>4, <1>8

(* The number of matrices in a queue after a step.                         *)
LEMMA CountType ==
    ASSUME TypeInv'
    PROVE  \A x \in Servers : matrixCount(net'[x]) \in Nat
<1>1. \A x \in Servers : net'[x] \in Seq(Messages)
  BY DEF TypeInv, TypeOK
<1> QED
  BY <1>1, SinceFinite

(* A command keeps the queue invariant.                                    *)
LEMMA MakesQueue ==
    ASSUME TypeInv, QueueInv, TypeInv', NEW s \in Servers, NEW u, MakesUpdate(s, u)
    PROVE  QueueInv'
<1>1. PICK m \in UpdateMessages : m.update = u /\ Delivers(s, net, {m})
  BY DEF MakesUpdate
<1>2. \A x \in Servers :
         /\ noView(net'[x]) <=> noView(net[x])
         /\ \A group : lastView(net[x], group) => lastView(net'[x], group)
         /\ matrixCount(net'[x]) = matrixCount(net[x])
         /\ news(net[x]) \subseteq news(net'[x])
  BY <1>1, MadeQueues
<1>3. Alone(s) /\ SameMembership(s) /\ SameCount(s) /\ SameRanges(s)
  BY DEF MakesUpdate
<1>4. Connected' /\ LastViewIsConn' /\ MatricesSuffice'
  BY <1>2, <1>3, CountType, CountsKept DEF SameRanges
<1>5. EchoComes'
  <2>1. ASSUME NEW x \in Servers, noView(net'[x]),
               local_state'[x].status = "SENDINGUPDATES"
        PROVE  \E k \in news(net'[x]) : k.type = "UPDATE" /\ k.proc_num = x
    <3>1. noView(net[x]) /\ local_state[x].status = "SENDINGUPDATES"
      BY <1>2, <1>3, <2>1 DEF Alone, SameRanges
    <3> QED
      BY <1>2, <3>1 DEF QueueInv, EchoComes
  <2> QED
    BY <2>1 DEF EchoComes
<1> QED
  BY <1>4, <1>5 DEF QueueInv

(* A batch that does not run dry leaves its sender something to wait for.  *)
LEMMA BatchEchoes ==
    ASSUME NEW s \in Servers, NEW st \in FiniteStates, NEW n \in Nat \ {0},
           st.status = "SENDINGUPDATES", SendsAfter(s, st, n)
    PROVE  /\ local_state'[s].status # "RECONCILE"
           /\ local_state'[s].status = "SENDINGUPDATES" =>
                \E k \in resends(s, toSend(st, n)) : k.type = "UPDATE" /\ k.proc_num = s
<1>1. /\ local_state'[s].status = IF ranDry(st, n) THEN "NORMAL" ELSE "SENDINGUPDATES"
      /\ ~ ranDry(st, n) => toSend(st, n) # {}
  BY SendMissingUpdatesControl DEF SendsAfter
<1>2. ASSUME NEW u \in toSend(st, n)
      PROVE  /\ resend(s, u) \in resends(s, toSend(st, n))
             /\ resend(s, u).type = "UPDATE" /\ resend(s, u).proc_num = s
  BY DEF resends, resend
<1> QED
  BY <1>1, <1>2

(* An update keeps it: its echo makes room for another.                    *)
LEMMA TakesUpdateQueue ==
    ASSUME TypeInv, QueueInv, TypeInv', NEW s \in Servers, NEW m \in UpdateMessages,
           TakesUpdate(s, m)
    PROVE  QueueInv'
<1>1. /\ net[s] # <<>> /\ Head(net[s]) = m
      /\ Alone(s) /\ SameMembership(s) /\ SameCount(s)
  BY DEF TakesUpdate
<1>2. ~ IsView(m) /\ m.type # "MATRIX" /\ m.type = "UPDATE"
  BY DEF UpdateMessages, IsView
<1>3. PICK M :
         /\ Delivers(s, consume(s), M)
         /\ IF echoes(s, m)
            THEN /\ SendsAfter(s, local_state[s], 1)
                 /\ M = resends(s, toSend(local_state[s], 1))
            ELSE SameRanges(s)
  BY DEF TakesUpdate
<1>4. Heard(s, m, M) /\ s \in conn[s]
  BY <1>1, <1>2, <1>3, HeardQueues DEF QueueInv, Connected
<1>5. \A x \in Servers :
         /\ noView(net'[x]) <=> noView(net[x])
         /\ \A group : lastView(net[x], group) => lastView(net'[x], group)
         /\ matrixCount(net'[x]) = matrixCount(net[x])
         /\ x # s => news(net[x]) \subseteq news(net'[x])
         /\ x = s => /\ news(net[x]) \subseteq news(net'[x]) \cup {m}
                     /\ M \subseteq news(net'[x])
  BY <1>2, <1>4 DEF Heard
<1>6. local_state[s] \in FiniteStates
  BY DEF TypeInv
<1>7. echoes(s, m) =>
        /\ local_state'[s].status # "RECONCILE"
        /\ local_state'[s].status = "SENDINGUPDATES" =>
             \E k \in M : k.type = "UPDATE" /\ k.proc_num = s
  BY <1>3, <1>6, BatchEchoes DEF echoes
<1>8. ~ echoes(s, m) => local_state'[s].status = local_state[s].status
  BY <1>3 DEF SameRanges
<1>9. Connected' /\ LastViewIsConn' /\ MatricesSuffice'
  BY <1>1, <1>5, <1>7, <1>8, CountType, CountsKept
<1>10. EchoComes'
  <2>1. ASSUME NEW x \in Servers, noView(net'[x]),
               local_state'[x].status = "SENDINGUPDATES"
        PROVE  \E k \in news(net'[x]) : k.type = "UPDATE" /\ k.proc_num = x
    <3>1. CASE x # s
      <4>1. noView(net[x]) /\ local_state[x].status = "SENDINGUPDATES"
        BY <1>1, <1>5, <2>1, <3>1 DEF Alone
      <4> QED
        BY <1>5, <3>1, <4>1 DEF QueueInv, EchoComes
    <3>2. CASE x = s /\ echoes(s, m)
      BY <1>5, <1>7, <2>1, <3>2
    <3>3. CASE x = s /\ ~ echoes(s, m)
      <4>1. noView(net[s]) /\ local_state[s].status = "SENDINGUPDATES"
        BY <1>5, <1>8, <2>1, <3>3
      <4>2. PICK k \in news(net[s]) : k.type = "UPDATE" /\ k.proc_num = s
        BY <4>1 DEF QueueInv, EchoComes
      <4>3. k # m
        BY <3>3, <4>1, <4>2 DEF echoes
      <4> QED
        BY <1>5, <3>3, <4>2, <4>3
    <3> QED
      BY <3>1, <3>2, <3>3
  <2> QED
    BY <2>1 DEF EchoComes
<1> QED
  BY <1>9, <1>10 DEF QueueInv

(* A matrix keeps it: it is counted when a reconciliation waits for it.    *)
LEMMA TakesMatrixQueue ==
    ASSUME TypeInv, QueueInv, TypeInv', NEW s \in Servers, NEW m \in MatrixMessages,
           TakesMatrix(s, m)
    PROVE  QueueInv'
<1>1. /\ net[s] # <<>> /\ Head(net[s]) = m
      /\ Alone(s) /\ SameMembership(s) /\ SameRanges(s)
      /\ net' = consume(s)
  BY DEF TakesMatrix
<1>2. ~ IsView(m) /\ m.type = "MATRIX" /\ m.type # "UPDATE"
  BY DEF MatrixMessages, IsView
<1>3. Delivers(s, consume(s), {})
  BY <1>1, DeliversNothing
<1>4. Heard(s, m, {})
  BY <1>1, <1>2, <1>3, HeardQueues DEF QueueInv
<1>5. \A x \in Servers :
         /\ noView(net'[x]) <=> noView(net[x])
         /\ \A group : lastView(net[x], group) => lastView(net'[x], group)
         /\ x # s => /\ matrixCount(net'[x]) = matrixCount(net[x])
                     /\ news(net[x]) \subseteq news(net'[x])
         /\ x = s => /\ IF noView(net[x])
                        THEN matrixCount(net[x]) = matrixCount(net'[x]) + 1
                        ELSE matrixCount(net'[x]) = matrixCount(net[x])
                     /\ news(net[x]) \subseteq news(net'[x]) \cup {m}
  BY <1>2, <1>4 DEF Heard
<1>6. matrixCount(net'[s]) \in Nat
  BY CountType
<1>7. matrixCount(net'[s]) = matrixCount(net[s]) \/ noView(net[s])
  BY <1>5, <1>6
<1>8. local_state'[s].status = local_state[s].status
  BY <1>1 DEF SameRanges
<1>9. noView(net[s]) => matrixCount(net[s]) = matrixCount(net'[s]) + 1
  BY <1>5
<1>10. local_state'[s].status = "RECONCILE" =>
         /\ local_state'[s].num_matrix_recvd = local_state[s].num_matrix_recvd + 1
         /\ local_state'[s].num_matrix_recvd #
               Cardinality(local_state[s].current_membership)
  BY <1>8 DEF TakesMatrix
<1>11. Connected' /\ LastViewIsConn' /\ MatricesSuffice'
  BY <1>1, <1>5, <1>6, <1>7, <1>8, <1>9, <1>10, CountsKept
<1>12. EchoComes'
  <2>1. ASSUME NEW x \in Servers, noView(net'[x]),
               local_state'[x].status = "SENDINGUPDATES"
        PROVE  \E k \in news(net'[x]) : k.type = "UPDATE" /\ k.proc_num = x
    <3>1. noView(net[x]) /\ local_state[x].status = "SENDINGUPDATES"
      BY <1>1, <1>5, <1>8, <2>1 DEF Alone
    <3>2. PICK k \in news(net[x]) : k.type = "UPDATE" /\ k.proc_num = x
      BY <3>1 DEF QueueInv, EchoComes
    <3>3. k # m
      BY <1>2, <3>2
    <3> QED
      BY <1>5, <3>2, <3>3
  <2> QED
    BY <2>1 DEF EchoComes
<1> QED
  BY <1>11, <1>12 DEF QueueInv

(* The last matrix keeps it: the batch that follows has its echoes.        *)
LEMMA EndsReconcileQueue ==
    ASSUME TypeInv, QueueInv, TypeInv', NEW s \in Servers, NEW m \in MatrixMessages,
           EndsReconcile(s, m)
    PROVE  QueueInv'
<1>1. /\ net[s] # <<>> /\ Head(net[s]) = m
      /\ Alone(s) /\ SameMembership(s)
  BY DEF EndsReconcile
<1>2. ~ IsView(m) /\ m.type = "MATRIX" /\ m.type # "UPDATE"
  BY DEF MatrixMessages, IsView
<1>3. PICK st \in FiniteStates :
         /\ st.status = "SENDINGUPDATES"
         /\ SendsAfter(s, st, MaxSend)
         /\ Delivers(s, consume(s), resends(s, toSend(st, MaxSend)))
  BY DEF EndsReconcile
<1> DEFINE M == resends(s, toSend(st, MaxSend))
<1>4. /\ local_state'[s].status # "RECONCILE"
      /\ local_state'[s].status = "SENDINGUPDATES" =>
           \E k \in M : k.type = "UPDATE" /\ k.proc_num = s
  BY <1>3, MaxSendAssumption, BatchEchoes
<1>5. Delivers(s, consume(s), M)
  BY <1>3
<1> HIDE DEF M
<1>6. Heard(s, m, M) /\ s \in conn[s]
  BY <1>1, <1>2, <1>5, HeardQueues DEF QueueInv, Connected
<1>7. \A x \in Servers :
         /\ noView(net'[x]) <=> noView(net[x])
         /\ \A group : lastView(net[x], group) => lastView(net'[x], group)
         /\ x # s => /\ matrixCount(net'[x]) = matrixCount(net[x])
                     /\ news(net[x]) \subseteq news(net'[x])
         /\ x = s => /\ IF noView(net[x])
                        THEN matrixCount(net[x]) = matrixCount(net'[x]) + 1
                        ELSE matrixCount(net'[x]) = matrixCount(net[x])
                     /\ M \subseteq news(net'[x])
  BY <1>2, <1>6 DEF Heard
<1>8. matrixCount(net'[s]) \in Nat
  BY CountType
<1>9. matrixCount(net'[s]) = matrixCount(net[s]) \/ noView(net[s])
  BY <1>7, <1>8
<1>10. Connected' /\ LastViewIsConn' /\ MatricesSuffice'
  BY <1>1, <1>4, <1>7, <1>8, <1>9, CountsKept
<1>11. EchoComes'
  <2>1. ASSUME NEW x \in Servers, noView(net'[x]),
               local_state'[x].status = "SENDINGUPDATES"
        PROVE  \E k \in news(net'[x]) : k.type = "UPDATE" /\ k.proc_num = x
    <3>1. CASE x # s
      <4>1. noView(net[x]) /\ local_state[x].status = "SENDINGUPDATES"
        BY <1>1, <1>7, <2>1, <3>1 DEF Alone
      <4> QED
        BY <1>7, <3>1, <4>1 DEF QueueInv, EchoComes
    <3>2. CASE x = s
      BY <1>4, <1>7, <2>1, <3>2
    <3> QED
      BY <3>1, <3>2
  <2> QED
    BY <2>1 DEF EchoComes
<1> QED
  BY <1>10, <1>11 DEF QueueInv

(* A view keeps it: its reader sends its matrix to every member, and for   *)
(* every member that has read its views one is on the way to the reader.   *)
LEMMA ReadsViewQueue ==
    ASSUME TypeInv, QueueInv, TypeInv', NEW s \in Servers, NEW m \in ViewMessages,
           ReadsView(s, m)
    PROVE  QueueInv'
<1> DEFINE alone == Cardinality(m.members) = 1
<1>1. /\ conn' = conn /\ \A x \in Servers : conn'[x] = conn[x]
      /\ \A x \in Servers \ {s} : local_state'[x] = local_state[x]
      /\ local_state'[s].current_membership = m.members
      /\ local_state'[s].num_matrix_recvd = 0
      /\ local_state'[s].status = IF alone THEN "NORMAL" ELSE "RECONCILE"
  BY DEF ReadsView, Alone
<1>2. /\ ~ noView(net[s])
      /\ \A group : lastView(net[s], group) =>
           IF noView(net'[s]) THEN m.members = group
           ELSE lastView(net'[s], group)
      /\ matrixCount(net'[s]) = matrixCount(net[s]) + (IF alone THEN 0 ELSE 1)
      /\ \A x \in Servers \ {s} :
           /\ noView(net'[x]) <=> noView(net[x])
           /\ \A group : lastView(net[x], group) => lastView(net'[x], group)
           /\ news(net[x]) \subseteq news(net'[x])
           /\ matrixCount(net'[x]) = matrixCount(net[x]) +
                (IF alone \/ x \notin conn[s] THEN 0 ELSE 1)
  BY ReadQueues DEF QueueInv
<1> HIDE DEF alone
<1>3. Connected'
  BY <1>1 DEF QueueInv, Connected
<1>4. LastViewIsConn'
  <2>1. lastView(net[s], conn[s])
    BY <1>2 DEF QueueInv, LastViewIsConn
  <2> QED
    BY <1>1, <1>2, <2>1 DEF QueueInv, LastViewIsConn
<1>5. \A x \in Servers : conn[x] \subseteq Servers /\ s \in conn[s]
  BY DEF TypeInv, TypeOK, QueueInv, Connected
<1>6. ASSUME NEW x \in Servers
      PROVE  /\ readers(x)' \subseteq readers(x) \cup {s}
             /\ x \notin conn[s] \/ ~ noView(net'[s]) => readers(x)' = readers(x)
  <2>1. x \notin conn[s] => s \notin conn[x]
    BY <1>5 DEF QueueInv, Connected
  <2>2. \A t \in conn[x] : t = s \/ (noView(net'[t]) <=> noView(net[t]))
    BY <1>2, <1>5
  <2>3. readers(x)' = {t \in conn[x] : noView(net'[t])}
    BY <1>1 DEF readers
  <2> QED
    BY <1>2, <2>1, <2>2, <2>3 DEF readers
<1>7. ASSUME NEW x \in Servers
      PROVE  /\ Cardinality(readers(x)') \in Nat
             /\ Cardinality(readers(x)') <= Cardinality(readers(x)) + 1
             /\ x \notin conn[s] \/ ~ noView(net'[s]) =>
                  Cardinality(readers(x)') = Cardinality(readers(x))
  <2>1. IsFiniteSet(readers(x)) /\ Cardinality(readers(x)) \in Nat
    BY ReadersFinite
  <2>2. /\ IsFiniteSet(readers(x) \cup {s})
        /\ Cardinality(readers(x) \cup {s}) \in Nat
        /\ Cardinality(readers(x) \cup {s}) <= Cardinality(readers(x)) + 1
    <3> DEFINE R == readers(x)
    <3> HIDE DEF R
    <3>1. IsFiniteSet(R) /\ Cardinality(R) \in Nat
      BY <2>1 DEF R
    <3>2. /\ IsFiniteSet(R \cup {s})
          /\ Cardinality(R \cup {s}) = IF s \in R THEN Cardinality(R) ELSE Cardinality(R) + 1
      BY <3>1, FS_AddElement
    <3> QED
      BY <3>1, <3>2 DEF R
  <2>3. /\ IsFiniteSet(readers(x)')
        /\ Cardinality(readers(x)') <= Cardinality(readers(x) \cup {s})
    BY <1>6, <2>2, FS_Subset
  <2>4. Cardinality(readers(x)') \in Nat
    BY <2>3, FS_CardinalityType
  <2> QED
    BY <1>6, <2>1, <2>2, <2>3, <2>4
<1>8. \A x \in Servers : matrixCount(net[x]) \in Nat /\ matrixCount(net'[x]) \in Nat
                         /\ Cardinality(readers(x)) \in Nat
  BY CountType, ReadersFinite
<1>9. noView(net'[s]) => m.members = conn[s]
  <2>1. lastView(net[s], conn[s])
    BY <1>2 DEF QueueInv, LastViewIsConn
  <2> QED
    BY <1>2, <2>1
<1>10. ASSUME noView(net'[s]), alone, NEW x \in conn[s]
       PROVE  x = s
  <2>1. IsFiniteSet(conn[s]) /\ Cardinality(conn[s]) = 1
    BY <1>9, <1>10, ReadersFinite DEF alone
  <2>2. PICK y : conn[s] = {y}
    BY <2>1, FS_Singleton
  <2> QED
    BY <1>5, <1>10, <2>2
<1>11. ASSUME NEW x \in Servers, ~ noView(net'[x])
       PROVE  Cardinality(readers(x)') <= matrixCount(net'[x])
  <2>1. ~ noView(net[x]) /\ Cardinality(readers(x)) <= matrixCount(net[x])
    BY <1>2, <1>11 DEF QueueInv, MatricesSuffice
  <2>2. CASE x \notin conn[s] \/ ~ noView(net'[s])
    <3>1. matrixCount(net[x]) <= matrixCount(net'[x])
      BY <1>2, <1>8
    <3> QED
      BY <1>7, <1>8, <2>1, <2>2, <3>1
  <2>3. CASE x \in conn[s] /\ noView(net'[s])
    <3>1. x # s /\ ~ alone
      BY <1>10, <1>11, <2>3
    <3>2. matrixCount(net'[x]) = matrixCount(net[x]) + 1
      BY <1>2, <2>3, <3>1
    <3> QED
      BY <1>7, <1>8, <2>1, <3>2
  <2> QED
    BY <2>2, <2>3
<1>12. ASSUME NEW x \in Servers, noView(net'[x]), local_state'[x].status = "RECONCILE"
       PROVE  /\ Cardinality(readers(x)') <=
                     local_state'[x].num_matrix_recvd + matrixCount(net'[x])
              /\ local_state'[x].num_matrix_recvd < Cardinality(conn'[x])
  <2>1. CASE x = s
    <3>1. ~ alone
      BY <1>1, <1>12, <2>1
    <3>2. Cardinality(readers(s)) <= matrixCount(net[s])
      BY <1>2 DEF QueueInv, MatricesSuffice
    <3>3. matrixCount(net'[s]) = matrixCount(net[s]) + 1
      BY <1>2, <3>1
    <3>4. Cardinality(readers(s)') <= 0 + matrixCount(net'[s])
      BY <1>7, <1>8, <3>2, <3>3
    <3>5. 0 < Cardinality(conn[s])
      <4>1. IsFiniteSet(conn[s]) /\ Cardinality(conn[s]) \in Nat
        BY ReadersFinite
      <4>2. Cardinality(conn[s]) # 0
        BY <1>5, <4>1, FS_EmptySet
      <4> QED
        BY <4>1, <4>2
    <3> QED
      BY <1>1, <2>1, <3>4, <3>5
  <2>2. CASE x # s
    <3>1. /\ Cardinality(readers(x)) <= local_state[x].num_matrix_recvd + matrixCount(net[x])
          /\ local_state[x].num_matrix_recvd < Cardinality(conn[x])
          /\ local_state'[x] = local_state[x] /\ conn'[x] = conn[x]
          /\ local_state[x].num_matrix_recvd \in Nat
      BY <1>1, <1>2, <1>12, <2>2, ReadersFinite DEF QueueInv, MatricesSuffice
    <3>2. CASE x \notin conn[s] \/ ~ noView(net'[s])
      <4>1. matrixCount(net[x]) <= matrixCount(net'[x])
        BY <1>2, <1>8, <2>2
      <4> QED
        BY <1>7, <1>8, <3>1, <3>2, <4>1
    <3>3. CASE x \in conn[s] /\ noView(net'[s])
      <4>1. ~ alone
        BY <1>10, <2>2, <3>3
      <4>2. matrixCount(net'[x]) = matrixCount(net[x]) + 1
        BY <1>2, <2>2, <3>3, <4>1
      <4> QED
        BY <1>7, <1>8, <3>1, <4>2
    <3> QED
      BY <3>2, <3>3
  <2> QED
    BY <2>1, <2>2
<1>13. MatricesSuffice'
  BY <1>11, <1>12 DEF MatricesSuffice
<1>14. EchoComes'
  <2>1. ASSUME NEW x \in Servers, noView(net'[x]),
               local_state'[x].status = "SENDINGUPDATES"
        PROVE  \E k \in news(net'[x]) : k.type = "UPDATE" /\ k.proc_num = x
    <3>1. x # s
      BY <1>1, <2>1
    <3>2. noView(net[x]) /\ local_state[x].status = "SENDINGUPDATES"
      BY <1>1, <1>2, <2>1, <3>1
    <3> QED
      BY <1>2, <3>1, <3>2 DEF QueueInv, EchoComes
  <2> QED
    BY <2>1 DEF EchoComes
<1> QED
  BY <1>3, <1>4, <1>13, <1>14 DEF QueueInv

(* A change of the network: a component is left alone, or no server of it  *)
(* has read its views.                                                     *)
LEMMA Regrouped ==
    ASSUME TypeInv, Connected, TypeInv', Regroups, NEW x \in Servers
    PROVE  \/ \A t \in conn[x] \cup {x} : net'[t] = net[t] /\ conn'[t] = conn[t]
           \/ \A t \in conn'[x] :
                /\ ~ noView(net'[t]) /\ news(net'[t]) = {}
                /\ matrixCount(net'[t]) = 0 /\ lastView(net'[t], conn'[t])
<1> DEFINE left(y) == \A t \in conn[y] \cup {y} : net'[t] = net[t] /\ conn'[t] = conn[t]
<1>1. /\ \A y \in Servers : \/ left(y)
                            \/ /\ ~ noView(net'[y]) /\ news(net'[y]) = {}
                               /\ matrixCount(net'[y]) = 0 /\ lastView(net'[y], conn'[y])
      /\ Connected' /\ conn'[x] \subseteq Servers
  BY DEF Regroups, TypeInv, TypeOK
<1>2. ASSUME NEW t \in conn'[x], left(t)
      PROVE  left(x)
  <2>1. t \in Servers /\ conn'[t] = conn'[x] /\ x \in conn'[x] /\ conn'[t] = conn[t]
    BY <1>1, <1>2 DEF Connected
  <2>2. x \in conn[t]
    BY <2>1
  <2>3. conn[x] = conn[t] /\ x \in conn[x]
    BY <2>1, <2>2 DEF Connected
  <2> QED
    BY <1>2, <2>3
<1> QED
  BY <1>1, <1>2

LEMMA RegroupsQueue ==
    ASSUME TypeInv, QueueInv, TypeInv', Regroups
    PROVE  QueueInv'
<1>1. Connected'
  BY DEF Regroups
<1>2. /\ \A x \in Servers : x \in conn'[x] /\ x \in conn[x] /\ conn[x] \subseteq Servers
      /\ local_state' = local_state
  BY <1>1 DEF Regroups, QueueInv, Connected, TypeInv, TypeOK
<1>3. ASSUME NEW x \in Servers
      PROVE  \/ /\ net'[x] = net[x] /\ conn'[x] = conn[x]
                /\ readers(x)' = readers(x)
             \/ /\ ~ noView(net'[x]) /\ lastView(net'[x], conn'[x])
                /\ readers(x)' = {} /\ matrixCount(net'[x]) = 0
  <2>1. \/ \A t \in conn[x] \cup {x} : net'[t] = net[t] /\ conn'[t] = conn[t]
        \/ \A t \in conn'[x] :
                /\ ~ noView(net'[t]) /\ news(net'[t]) = {}
                /\ matrixCount(net'[t]) = 0 /\ lastView(net'[t], conn'[t])
    BY Regrouped DEF QueueInv
  <2>2. readers(x)' = {t \in conn'[x] : noView(net'[t])}
    BY DEF readers
  <2> QED
    BY <1>2, <2>1, <2>2 DEF readers
<1>4. LastViewIsConn'
  BY <1>2, <1>3 DEF QueueInv, LastViewIsConn
<1>5. Cardinality({}) = 0
  BY FS_EmptySet
<1>6. MatricesSuffice'
  BY <1>2, <1>3, <1>5 DEF QueueInv, MatricesSuffice
<1>7. EchoComes'
  BY <1>2, <1>3 DEF QueueInv, EchoComes
<1> QED
  BY <1>1, <1>4, <1>6, <1>7 DEF QueueInv

(* Every step keeps the queue invariant.                                   *)
LEMMA QueueNext == TypeInv /\ QueueInv /\ [Next]_vars => QueueInv'
<1> SUFFICES ASSUME TypeInv, QueueInv, [Next]_vars PROVE QueueInv'
  OBVIOUS
<1>1. TypeInv'
  BY TypeNext
<1>2. Connected
  BY DEF QueueInv
<1> QED
  BY <1>1, <1>2, StepForms, MakesQueue, TakesUpdateQueue, TakesMatrixQueue,
     EndsReconcileQueue, ReadsViewQueue, RegroupsQueue

LEMMA QueueAlways == Spec => [](TypeInv /\ QueueInv)
BY TypeInit, TypeNext, QueueInit, QueueNext, PTL DEF Spec

(* When nothing is on its way in a component, its members have ended their *)
(* reconciliation, and know their component.                               *)
LEMMA QuietIsNormal == TypeInv /\ QueueInv => QuietComponentIsNormal
<1> SUFFICES ASSUME TypeInv, QueueInv, NEW s \in Servers,
                    \A t \in conn[s] : net[t] = <<>>
             PROVE  /\ local_state[s].status = "NORMAL"
                    /\ local_state[s].current_membership = conn[s]
  BY DEF QuietComponentIsNormal
<1>1. s \in conn[s] /\ net[s] = <<>>
  BY DEF QueueInv, Connected
<1>2. noView(<<>>) /\ news(<<>>) = {}
  BY DEF noView, news, since
<1>3. matrixCount(<<>>) = 0
  <2>1. matricesIn(<<>>) = {}
    BY DEF matricesIn, since
  <2> QED
    BY <2>1, FS_EmptySet DEF matrixCount
<1>4. readers(s) = conn[s]
  BY <1>2 DEF readers
<1>5. local_state[s].status # "RECONCILE"
  <2>1. /\ Cardinality(conn[s]) \in Nat /\ local_state[s].num_matrix_recvd \in Nat
    BY ReadersFinite
  <2> QED
    BY <1>1, <1>2, <1>3, <1>4, <2>1 DEF QueueInv, MatricesSuffice
<1>6. local_state[s].status # "SENDINGUPDATES"
  BY <1>1, <1>2 DEF QueueInv, EchoComes
<1>7. local_state[s].status \in Status
  BY DEF TypeInv, FiniteStates, LocalStates
<1> QED
  BY <1>1, <1>2, <1>5, <1>6, <1>7 DEF Status, QueueInv, LastViewIsConn

(* When Spread has nothing left to deliver in a component, none of its     *)
(* servers waits for a matrix or an echo, and each knows the component:    *)
(* the count of matrices may include those of an earlier reconciliation    *)
(* (num_matrix_recvd in server.c), but it is always completed.             *)
THEOREM QuietAlwaysNormal == Spec => []QuietComponentIsNormal
BY QueueAlways, QuietIsNormal, PTL

-----------------------------------------------------------------------------
(* A reconciliation loses no one.                                          *)

(* Server t has p's updates up to index i, or one as late is on its way to *)
(* t in the present component.                                             *)
reaches(t, p, i) ==
    \/ ownVector(t)[p] >= i
    \/ \E m \in news(net[t]) :
         m.type = "UPDATE" /\ m.update.procID = p /\ m.update.index >= i

(* What is on its way to a server in the present component reaches all of  *)
(* the component.                                                          *)
SharedNews ==
    \A s \in Servers : \A t \in conn[s] : \A m \in news(net[s]) :
        m.type = "UPDATE" => reaches(t, m.update.procID, m.update.index)

(* Server w still has to resend p's updates up to index i or further.      *)
pending(w, p, i) ==
    /\ noView(net[w])
    /\ local_state[w].status = "SENDINGUPDATES"
    /\ local_state[w].min_max[p].max >= i
    /\ \E u \in received[w] : u.procID = p /\ u.index = local_state[w].min_max[p].max

covered(t, p, i) ==
    \/ reaches(t, p, i)
    \/ \E w \in conn[t] : pending(w, p, i)

(* Server s has planned what to resend in its component.                   *)
finished(s) == noView(net[s]) /\ local_state[s].status # "RECONCILE"

(* Server w comes before x in the choice of who resends p's updates.       *)
above(w, x, p) ==
    \/ ownVector(w)[p] > ownVector(x)[p]
    \/ ownVector(w)[p] = ownVector(x)[p] /\ w > x

(* What s has of p's updates the others of its component will get, or one  *)
(* that comes before s in the choice has yet to plan.                      *)
Agrees(s, p) ==
    \/ \A t \in conn[s] : covered(t, p, ownVector(s)[p])
    \/ \E w \in conn[s] : ~ finished(w) /\ above(w, s, p)

Agreement == \A s, p \in Servers : finished(s) => Agrees(s, p)

AgreementInv == SharedNews /\ Agreement

ReachesGrows ==
    \A t, p \in Servers, i \in Int : reaches(t, p, i) => reaches(t, p, i)'

(* The messages of a queue since its last view are messages.               *)
LEMMA NewsType ==
    ASSUME NEW q \in Seq(Messages), NEW m \in news(q)
    PROVE  /\ m \in Messages
           /\ m.type = "UPDATE" =>
                /\ m.update \in Updates
                /\ m.update.procID \in Servers /\ m.update.index \in Int
<1>1. PICK k \in 1 .. Len(q) : m = q[k]
  BY SinceFinite DEF news
<1>2. m \in Messages
  BY <1>1, ElementOfSeq, LenProperties
<1>3. m.type = "UPDATE" => m.update \in Updates
  BY <1>2 DEF Messages, UpdateMessages, MatrixMessages, ViewMessages
<1> QED
  BY <1>2, <1>3 DEF Updates

(* The head of a queue without views is news.                              *)
LEMMA HeadIsNews ==
    ASSUME NEW q \in Seq(Messages), q # <<>>, noView(q)
    PROVE  Head(q) \in news(q)
BY TakeHead

(* The vectors after a step.                                               *)
LEMMA NextVectorType ==
    ASSUME TypeInv', NEW s \in Servers, NEW p \in Servers
    PROVE  (ownVector(s)')[p] \in Int
BY DEF TypeInv, TypeOK, LocalStates, Matrices, Indices, ownVector

(* To reach further is to reach.                                           *)
LEMMA ReachesLess ==
    ASSUME TypeInv, NEW t \in Servers, NEW p \in Servers, NEW i \in Int, NEW j \in Int,
           j <= i
    PROVE  /\ reaches(t, p, i) => reaches(t, p, j)
           /\ pending(t, p, i) => pending(t, p, j)
<1>1. ownVector(t)[p] \in Int
  BY VectorType
<1>2. \A m \in news(net[t]) : m.type = "UPDATE" => m.update.index \in Int
  BY NewsType DEF TypeInv, TypeOK
<1>3. local_state[t].min_max[p].max \in Int
  BY DEF TypeInv, FiniteStates, LocalStates, Ranges, NoRange, Indices
<1>4. reaches(t, p, i) => reaches(t, p, j)
  BY <1>1, <1>2 DEF reaches
<1>5. pending(t, p, i) => pending(t, p, j)
  BY <1>3 DEF pending
<1> QED
  BY <1>4, <1>5

(* Applying an update raises the vector to it and no further.              *)
LEMMA AppliesRaises ==
    ASSUME TypeInv, TypeInv', BufferReceived, VectorIsNewest,
           NEW s \in Servers, NEW u \in Updates, Applies(s, u)
    PROVE  /\ \A p \in Servers : \/ (ownVector(s)')[p] = ownVector(s)[p]
                                 \/ p = u.procID /\ (ownVector(s)')[p] = u.index
           /\ (ownVector(s)')[u.procID] >= u.index
           /\ received[s] \subseteq received'[s]
<1>1. u.procID \in Servers /\ u.index \in Int
  BY DEF Updates
<1>2. \A p \in Servers : /\ ownVector(s)[p] = local_state[s].latest_update[s][p]
                         /\ (ownVector(s)')[p] = local_state'[s].latest_update[s][p]
                         /\ ownVector(s)[p] \in Int
  BY VectorType DEF ownVector
<1>3. CASE Known(s, u)
  <2>1. Keeps(s)
    BY <1>3 DEF Applies
  <2>2. \A p \in Servers : (ownVector(s)')[p] = ownVector(s)[p]
    BY <1>2, <2>1, VectorSteps
  <2>3. PICK v \in local_state[s].buffer : v.procID = u.procID /\ v.index = u.index
    BY <1>3 DEF Known, findUpdate
  <2>4. v \in received[s]
    BY <2>3 DEF BufferReceived
  <2>5. u.index <= ownVector(s)[u.procID]
    BY <1>1, <2>3, <2>4 DEF VectorIsNewest
  <2> QED
    BY <1>1, <1>2, <2>1, <2>2, <2>5 DEF Keeps
<1>4. CASE ~ Known(s, u)
  <2>1. Stores(s, u)
    BY <1>4 DEF Applies
  <2>2. \A p \in Servers :
           (ownVector(s)')[p] = IF p = u.procID THEN larger(ownVector(s)[p], u.index)
                                ELSE ownVector(s)[p]
    BY <1>2, <2>1, VectorSteps
  <2> QED
    BY <1>1, <1>2, <2>1, <2>2 DEF larger, Stores
<1> QED
  BY <1>3, <1>4

(* What a server consumes it has.                                          *)
LEMMA HeardReaches ==
    ASSUME TypeInv, TypeInv', [Next]_vars, NEW s \in Servers, NEW m, NEW M,
           Heard(s, m, M),
           m.type = "UPDATE" =>
              /\ m.update.procID \in Servers /\ m.update.index \in Int
              /\ (ownVector(s)')[m.update.procID] >= m.update.index
    PROVE  ReachesGrows
<1> SUFFICES ASSUME NEW t \in Servers, NEW p \in Servers, NEW i \in Int, reaches(t, p, i)
             PROVE  reaches(t, p, i)'
  BY DEF ReachesGrows
<1>1. /\ ownVector(t)[p] \in Int /\ (ownVector(t)')[p] \in Int
      /\ ownVector(t)[p] <= (ownVector(t)')[p]
  BY VectorType, NextVectorType, OwnVectorGrows
<1>2. CASE ownVector(t)[p] >= i
  <2>1. (ownVector(t)')[p] >= i
    BY <1>1, <1>2
  <2> QED
    BY <2>1 DEF reaches
<1>3. ASSUME NEW k \in news(net[t]), k.type = "UPDATE",
             k.update.procID = p, k.update.index >= i
      PROVE  reaches(t, p, i)'
  <2>1. k \in news(net'[t]) \/ (t = s /\ k = m)
    BY DEF Heard
  <2>2. CASE k \in news(net'[t])
    BY <1>3, <2>2 DEF reaches
  <2>3. CASE t = s /\ k = m
    <3>1. (ownVector(t)')[p] >= i
      BY <1>1, <1>3, <2>3
    <3> QED
      BY <3>1 DEF reaches
  <2> QED
    BY <2>1, <2>2, <2>3
<1> QED
  BY <1>2, <1>3 DEF reaches

(* Whatever is multicast goes to the whole component.                      *)
LEMMA SharedKept ==
    ASSUME TypeInv, TypeInv', Connected, SharedNews, ReachesGrows, conn' = conn,
           NEW s \in Servers, NEW M,
           \A x \in Servers :
              /\ \A k \in news(net'[x]) : k.type = "UPDATE" =>
                   k \in news(net[x]) \/ (x \in conn[s] /\ k \in M)
              /\ x \in conn[s] => M \subseteq news(net'[x])
    PROVE  SharedNews'
<1> SUFFICES ASSUME NEW x \in Servers, NEW t \in conn[x], NEW k \in news(net'[x]),
                    k.type = "UPDATE"
             PROVE  reaches(t, k.update.procID, k.update.index)'
  BY DEF SharedNews
<1>1. t \in Servers /\ conn[t] = conn[x]
  BY DEF TypeInv, TypeOK, Connected
<1>2. k.update.procID \in Servers /\ k.update.index \in Int
  <2>1. net'[x] \in Seq(Messages)
    BY DEF TypeInv, TypeOK
  <2> QED
    BY <2>1, NewsType
<1>3. CASE k \in news(net[x])
  <2>1. reaches(t, k.update.procID, k.update.index)
    BY <1>3 DEF SharedNews
  <2> QED
    BY <1>1, <1>2, <2>1 DEF ReachesGrows
<1>4. CASE x \in conn[s] /\ k \in M
  <2>1. t \in conn[s]
    BY <1>1, <1>4 DEF Connected, TypeInv, TypeOK
  <2>2. k \in news(net'[t])
    BY <1>1, <1>4, <2>1
  <2>3. k.update.index >= k.update.index
    BY <1>2
  <2> QED
    BY <2>2, <2>3 DEF reaches
<1> QED
  BY <1>3, <1>4

(* Being above is transitive and lasts while the lower one stays.          *)
LEMMA AboveOrders ==
    ASSUME TypeInv, NEW x \in Servers, NEW y \in Servers, NEW p \in Servers, above(x, y, p)
    PROVE  /\ x # y
           /\ ownVector(y)[p] <= ownVector(x)[p]
           /\ \A w \in Servers : above(w, x, p) => above(w, y, p)
<1>1. \A w \in Servers : ownVector(w)[p] \in Int /\ w \in Int
  <2>1. \A w \in Servers : ownVector(w)[p] \in Int
    BY VectorType
  <2> QED
    BY <2>1 DEF Servers
<1> QED
  BY <1>1 DEF above

LEMMA AboveKept ==
    ASSUME TypeInv, TypeInv', [Next]_vars, NEW x \in Servers, NEW y \in Servers,
           NEW p \in Servers, above(x, y, p), (ownVector(y)')[p] = ownVector(y)[p]
    PROVE  above(x, y, p)'
<1>1. /\ ownVector(x)[p] \in Int /\ ownVector(y)[p] \in Int
      /\ (ownVector(x)')[p] \in Int /\ ownVector(x)[p] <= (ownVector(x)')[p]
  BY VectorType, NextVectorType, OwnVectorGrows
<1>2. \/ (ownVector(x)')[p] > (ownVector(y)')[p]
      \/ (ownVector(x)')[p] = (ownVector(y)')[p] /\ x > y
  BY <1>1 DEF above
<1> QED
  BY <1>2 DEF above

(* What is covered stays covered while what is pending stays or is sent.   *)
LEMMA CoveredKept ==
    ASSUME TypeInv, Connected, ReachesGrows, conn' = conn,
           NEW t \in Servers, NEW p \in Servers, NEW i \in Int, covered(t, p, i),
           \A w \in conn[t] : pending(w, p, i) =>
              pending(w, p, i)' \/ \A x \in conn[w] : reaches(x, p, i)'
    PROVE  covered(t, p, i)'
<1>1. CASE reaches(t, p, i)
  BY <1>1 DEF ReachesGrows, covered
<1>2. ASSUME NEW w \in conn[t], pending(w, p, i)
      PROVE  covered(t, p, i)'
  <2>1. t \in conn[w]
    BY DEF Connected, TypeInv, TypeOK
  <2>2. pending(w, p, i)' \/ reaches(t, p, i)'
    BY <1>2, <2>1
  <2> QED
    BY <2>2 DEF covered
<1> QED
  BY <1>1, <1>2 DEF covered

(* An agreement lasts while its server's vector stays, what is pending     *)
(* stays or is sent, and the servers to wait for stay unfinished.          *)
LEMMA AgreesKept ==
    ASSUME TypeInv, TypeInv', Connected, [Next]_vars, ReachesGrows, conn' = conn,
           NEW x \in Servers, NEW p \in Servers, Agrees(x, p),
           (ownVector(x)')[p] = ownVector(x)[p],
           \A w \in conn[x], i \in Int : pending(w, p, i) =>
              pending(w, p, i)' \/ \A t \in conn[w] : reaches(t, p, i)',
           \A w \in conn[x] : ~ finished(w) /\ above(w, x, p) => ~ finished(w)'
    PROVE  Agrees(x, p)'
<1>1. PICK i \in Int : i = ownVector(x)[p]
  BY VectorType
<1>2. conn[x] \subseteq Servers /\ (ownVector(x)[p])' = i
  BY <1>1 DEF TypeInv, TypeOK
<1>3. CASE \A t \in conn[x] : covered(t, p, i)
  <2>1. ASSUME NEW t \in conn[x]
        PROVE  covered(t, p, i)'
    <3>1. t \in Servers /\ conn[t] = conn[x] /\ covered(t, p, i)
      BY <1>2, <1>3 DEF Connected
    <3> QED
      BY <1>2, <3>1, CoveredKept
  <2>2. \A t \in conn'[x] : covered(t, p, (ownVector(x)[p]))'
    BY <1>2, <2>1
  <2> QED
    BY <2>2 DEF Agrees
<1>4. ASSUME NEW w \in conn[x], ~ finished(w), above(w, x, p)
      PROVE  Agrees(x, p)'
  <2>1. ~ finished(w)' /\ above(w, x, p)'
    BY <1>2, <1>4, AboveKept
  <2> QED
    BY <2>1 DEF Agrees
<1> QED
  BY <1>1, <1>3, <1>4 DEF Agrees

(* What the theorems above rest on, and the queues.                        *)
ServerInv ==
    /\ TypeInv
    /\ LogInv
    /\ KnowledgeInv
    /\ VectorIsNewest
    /\ PurgeSafe
    /\ QueueInv

(* Initially everything holds.                                             *)
LEMMA AgreementInit == Init => AgreementInv
<1> SUFFICES ASSUME Init PROVE AgreementInv
  OBVIOUS
<1>1. \A s \in Servers : news(net[s]) = {} /\ conn[s] = {s}
  BY DEF Init, news, since
<1>2. SharedNews
  BY <1>1 DEF SharedNews
<1>3. ASSUME NEW s \in Servers, NEW p \in Servers
      PROVE  Agrees(s, p)
  <2>1. ownVector(s)[p] >= ownVector(s)[p]
    BY DEF Init, initialState, ownVector
  <2> QED
    BY <1>1, <2>1 DEF Agrees, covered, reaches
<1> QED
  BY <1>2, <1>3 DEF AgreementInv, Agreement

(* A command keeps the agreement: its update goes to the whole component.  *)
LEMMA MakesAgreement ==
    ASSUME ServerInv, TypeInv', [Next]_vars, AgreementInv,
           NEW s \in Servers, NEW u \in Updates, MakesUpdate(s, u)
    PROVE  AgreementInv'
<1>1. TypeInv /\ BufferReceived /\ VectorIsNewest /\ Connected /\ SharedNews /\ Agreement
  BY DEF ServerInv, LogInv, QueueInv, AgreementInv
<1>2. PICK m \in UpdateMessages : m.update = u /\ Delivers(s, net, {m})
  BY DEF MakesUpdate
<1>3. /\ u.procID = s /\ m.type = "UPDATE" /\ u.index \in Int
      /\ Alone(s) /\ SameRanges(s) /\ Applies(s, u)
      /\ conn' = conn
  BY DEF MakesUpdate, Alone, UpdateMessages, Updates
<1>4. \A x \in Servers :
         /\ noView(net'[x]) <=> noView(net[x])
         /\ news(net'[x]) = news(net[x]) \cup (IF x \in conn[s] THEN {m} ELSE {})
  BY <1>2, MadeQueues
<1>5. /\ \A p \in Servers : \/ (ownVector(s)')[p] = ownVector(s)[p]
                            \/ p = s /\ (ownVector(s)')[p] = u.index
      /\ received[s] \subseteq received'[s]
  BY <1>1, <1>3, AppliesRaises
<1>6. \A x \in Servers \ {s} : local_state'[x] = local_state[x] /\ received'[x] = received[x]
  BY <1>3 DEF Alone
<1>7. ReachesGrows
  <2> SUFFICES ASSUME NEW t \in Servers, NEW p \in Servers, NEW i \in Int,
                      reaches(t, p, i)
               PROVE  reaches(t, p, i)'
    BY DEF ReachesGrows
  <2>1. /\ ownVector(t)[p] \in Int /\ (ownVector(t)')[p] \in Int
        /\ ownVector(t)[p] <= (ownVector(t)')[p]
    BY <1>1, VectorType, NextVectorType, OwnVectorGrows
  <2>2. ownVector(t)[p] >= i => (ownVector(t)')[p] >= i
    BY <2>1
  <2>3. news(net[t]) \subseteq news(net'[t])
    BY <1>4
  <2> QED
    BY <2>2, <2>3 DEF reaches
<1>8. SharedNews'
  <2>1. PICK M : M = {m}
    OBVIOUS
  <2>2. \A x \in Servers :
           /\ \A k \in news(net'[x]) : k.type = "UPDATE" =>
                k \in news(net[x]) \/ (x \in conn[s] /\ k \in M)
           /\ x \in conn[s] => M \subseteq news(net'[x])
    BY <1>4, <2>1
  <2> QED
    BY <1>1, <1>3, <1>7, <2>2, SharedKept
<1>9. ASSUME NEW x \in Servers
      PROVE  finished(x)' <=> finished(x)
  <2>1. local_state'[x].status = local_state[x].status
    BY <1>3, <1>6 DEF SameRanges
  <2> QED
    BY <1>4, <2>1 DEF finished
<1>10. ASSUME NEW w \in Servers, NEW p, NEW i, pending(w, p, i)
       PROVE  pending(w, p, i)'
  <2>1. /\ local_state'[w].status = local_state[w].status
        /\ local_state'[w].min_max = local_state[w].min_max
        /\ received[w] \subseteq received'[w]
    BY <1>3, <1>5, <1>6 DEF SameRanges
  <2> QED
    BY <1>4, <1>10, <2>1 DEF pending
<1>11. ASSUME NEW x \in Servers, NEW p \in Servers, finished(x)'
       PROVE  Agrees(x, p)'
  <2>1. Agrees(x, p) /\ conn[x] \subseteq Servers
    BY <1>1, <1>9, <1>11 DEF Agreement, TypeInv, TypeOK
  <2>2. CASE (ownVector(x)')[p] = ownVector(x)[p]
    BY <1>1, <1>3, <1>7, <1>9, <1>10, <2>1, <2>2, AgreesKept
  <2>3. CASE (ownVector(x)')[p] # ownVector(x)[p]
    <3>1. x = s /\ p = s /\ (ownVector(x)[p])' = u.index
      BY <1>5, <1>6, <2>3 DEF ownVector
    <3>2. ASSUME NEW t \in conn'[x]
          PROVE  covered(t, p, u.index)'
      <4>1. t \in Servers /\ m \in news(net'[t]) /\ u.index >= u.index
        BY <1>3, <1>4, <2>1, <3>1
      <4> QED
        BY <1>2, <1>3, <3>1, <4>1 DEF covered, reaches
    <3> QED
      BY <3>1, <3>2 DEF Agrees
  <2> QED
    BY <2>2, <2>3
<1> QED
  BY <1>8, <1>11 DEF AgreementInv, Agreement

(* A batch sends what is pending or leaves it pending.                     *)
LEMMA BatchCovers ==
    ASSUME TypeInv, NEW s \in Servers, NEW st \in FiniteStates, NEW n \in Nat,
           NEW p \in Servers, NEW i \in Int, st.status = "SENDINGUPDATES",
           SendsAfter(s, st, n), noView(net'[s]),
           NEW e \in st.buffer, e \in received'[s],
           e.procID = p, e.index = st.min_max[p].max, i <= st.min_max[p].max,
           \A t \in conn[s] : resends(s, toSend(st, n)) \subseteq news(net'[t])
    PROVE  pending(s, p, i)' \/ \A t \in conn[s] : reaches(t, p, i)'
<1>1. e \in Updates /\ e.index \in Int /\ st.min_max[p].max >= i
  BY DEF FiniteStates, LocalStates, Updates
<1>2. CASE e \in toSend(st, n)
  <2>1. /\ resend(s, e) \in resends(s, toSend(st, n))
        /\ resend(s, e).type = "UPDATE" /\ resend(s, e).update = e
    BY <1>2 DEF resends, resend
  <2>2. e.index >= i
    BY <1>1
  <2>3. ASSUME NEW t \in conn[s] PROVE reaches(t, p, i)'
    <3>1. resend(s, e) \in news(net'[t])
      BY <2>1
    <3> QED
      BY <2>1, <2>2, <3>1 DEF reaches
  <2> QED
    BY <2>3
<1>3. CASE /\ sendMissingUpdates(st, n).status = st.status
           /\ sendMissingUpdates(st, n).min_max[p].max = st.min_max[p].max
  <2>1. /\ local_state'[s].status = "SENDINGUPDATES"
        /\ local_state'[s].min_max[p].max = st.min_max[p].max
    BY <1>3 DEF SendsAfter
  <2> QED
    BY <1>1, <2>1 DEF pending
<1> QED
  BY <1>2, <1>3, LastOfRange

(* An update keeps the agreement: what its receiver was to resend it sends *)
(* or keeps for later, unless the update was purged and is not needed.     *)
LEMMA TakesUpdateAgreement ==
    ASSUME ServerInv, TypeInv', [Next]_vars, AgreementInv,
           NEW s \in Servers, NEW m \in UpdateMessages, TakesUpdate(s, m)
    PROVE  AgreementInv'
<1>1. TypeInv /\ BufferReceived /\ VectorIsNewest /\ Connected /\ SharedNews /\ Agreement
  BY DEF ServerInv, LogInv, QueueInv, AgreementInv
<1>2. /\ net[s] # <<>> /\ Head(net[s]) = m
      /\ Alone(s) /\ Applies(s, m.update)
      /\ conn' = conn
      /\ m.type = "UPDATE" /\ ~ IsView(m)
      /\ m.update \in Updates /\ m.update.procID \in Servers /\ m.update.index \in Int
  BY DEF TakesUpdate, Alone, UpdateMessages, Updates, IsView
<1>3. PICK M :
         /\ Delivers(s, consume(s), M)
         /\ IF echoes(s, m)
            THEN /\ SendsAfter(s, local_state[s], 1)
                 /\ M = resends(s, toSend(local_state[s], 1))
            ELSE SameRanges(s)
  BY DEF TakesUpdate
<1>4. Heard(s, m, M) /\ s \in conn[s]
  BY <1>1, <1>2, <1>3, HeardQueues DEF Connected
<1>5. /\ \A p \in Servers : \/ (ownVector(s)')[p] = ownVector(s)[p]
                            \/ p = m.update.procID /\ (ownVector(s)')[p] = m.update.index
      /\ (ownVector(s)')[m.update.procID] >= m.update.index
      /\ received[s] \subseteq received'[s]
  BY <1>1, <1>2, AppliesRaises
<1>6. ReachesGrows
  BY <1>1, <1>2, <1>4, <1>5, HeardReaches
<1>7. SharedNews'
  <2>1. \A x \in Servers :
           /\ \A k \in news(net'[x]) : k.type = "UPDATE" =>
                k \in news(net[x]) \/ (x \in conn[s] /\ k \in M)
           /\ x \in conn[s] => M \subseteq news(net'[x])
    BY <1>4 DEF Heard
  <2> QED
    BY <1>1, <1>2, <1>6, <2>1, SharedKept
<1>8. /\ \A x \in Servers \ {s} : local_state'[x] = local_state[x] /\ received'[x] = received[x]
      /\ \A x \in Servers : noView(net'[x]) <=> noView(net[x])
      /\ \A x \in Servers : conn[x] \subseteq Servers
  BY <1>1, <1>2, <1>4 DEF Alone, Heard, TypeInv, TypeOK
<1>9. local_state[s] \in FiniteStates
  BY <1>1 DEF TypeInv
<1>10. ASSUME NEW x \in Servers
       PROVE  finished(x)' <=> finished(x)
  <2>1. x = s /\ echoes(s, m) =>
          local_state[x].status # "RECONCILE" /\ local_state'[x].status # "RECONCILE"
    BY <1>3, <1>9, BatchEchoes DEF echoes
  <2>2. ~ (x = s /\ echoes(s, m)) => local_state'[x].status = local_state[x].status
    BY <1>3, <1>8 DEF SameRanges
  <2> QED
    BY <1>8, <2>1, <2>2 DEF finished
<1>11. ASSUME NEW w \in Servers, NEW p \in Servers, NEW i \in Int, pending(w, p, i)
       PROVE  pending(w, p, i)' \/ \A t \in conn[w] : reaches(t, p, i)'
  <2>1. CASE ~ (w = s /\ echoes(s, m))
    <3>1. /\ local_state'[w].status = local_state[w].status
          /\ local_state'[w].min_max = local_state[w].min_max
          /\ received[w] \subseteq received'[w]
      BY <1>3, <1>5, <1>8, <2>1 DEF SameRanges
    <3> QED
      BY <1>8, <1>11, <3>1 DEF pending
  <2>2. CASE w = s /\ echoes(s, m)
    <3>1. PICK e \in received[s] : e.procID = p /\ e.index = local_state[s].min_max[p].max
      BY <1>11, <2>2 DEF pending
    <3>2. /\ local_state[s].min_max[p].max \in Int
          /\ i <= local_state[s].min_max[p].max
      <4>1. local_state[s].min_max[p].max \in Int
        BY <1>9 DEF FiniteStates, LocalStates, Ranges, NoRange, Indices
      <4> QED
        BY <1>11, <2>2, <4>1 DEF pending
    <3>3. CASE e \in local_state[s].buffer
      <4>1. \A t \in conn[s] : resends(s, toSend(local_state[s], 1)) \subseteq news(net'[t])
        BY <1>3, <1>4, <1>8, <2>2 DEF Heard
      <4>2. noView(net'[s]) /\ e \in received'[s] /\ local_state[s].status = "SENDINGUPDATES"
        BY <1>5, <1>8, <1>11, <2>2 DEF pending
      <4> QED
        BY <1>1, <1>3, <1>9, <2>2, <3>1, <3>2, <3>3, <4>1, <4>2, BatchCovers
    <3>4. CASE e \notin local_state[s].buffer
      <4>1. ASSUME NEW t \in conn[s]
            PROVE  reaches(t, p, i)'
        <5>1. t \in Servers /\ ownVector(t)[p] \in Int
          BY <1>1, <1>8, VectorType
        <5>2. e.index < ownVector(t)[p]
          BY <3>1, <3>4, <5>1 DEF ServerInv, PurgeSafe
        <5>3. ownVector(t)[p] >= i
          BY <3>1, <3>2, <5>1, <5>2
        <5> QED
          BY <1>6, <5>1, <5>3 DEF ReachesGrows, reaches
      <4> QED
        BY <2>2, <4>1
    <3> QED
      BY <3>3, <3>4
  <2> QED
    BY <2>1, <2>2
<1>12. ASSUME NEW x \in Servers, NEW p \in Servers, finished(x)'
       PROVE  Agrees(x, p)'
  <2>1. Agrees(x, p) /\ conn[x] \subseteq Servers /\ finished(x)
    BY <1>1, <1>8, <1>10, <1>12 DEF Agreement
  <2>2. CASE (ownVector(x)')[p] = ownVector(x)[p]
    BY <1>1, <1>2, <1>6, <1>10, <1>11, <2>1, <2>2, AgreesKept
  <2>3. CASE (ownVector(x)')[p] # ownVector(x)[p]
    <3>1. x = s /\ p = m.update.procID /\ (ownVector(x)[p])' = m.update.index
      BY <1>5, <1>8, <2>3 DEF ownVector
    <3>2. m \in news(net[s])
      BY <1>1, <1>2, <2>1, <3>1, HeadIsNews DEF finished, TypeInv, TypeOK
    <3>3. ASSUME NEW t \in conn'[x]
          PROVE  covered(t, p, m.update.index)'
      <4>1. t \in Servers /\ reaches(t, p, m.update.index)
        BY <1>1, <1>2, <2>1, <3>1, <3>2 DEF SharedNews
      <4> QED
        BY <1>2, <1>6, <3>1, <4>1 DEF ReachesGrows, covered
    <3> QED
      BY <3>1, <3>3 DEF Agrees
  <2> QED
    BY <2>2, <2>3
<1> QED
  BY <1>7, <1>12 DEF AgreementInv, Agreement

(* A matrix that does not end a reconciliation keeps it.                   *)
LEMMA TakesMatrixAgreement ==
    ASSUME ServerInv, TypeInv', [Next]_vars, AgreementInv,
           NEW s \in Servers, NEW m \in MatrixMessages, TakesMatrix(s, m)
    PROVE  AgreementInv'
<1>1. TypeInv /\ Connected /\ SharedNews /\ Agreement
  BY DEF ServerInv, QueueInv, AgreementInv
<1>2. /\ net[s] # <<>> /\ Head(net[s]) = m
      /\ Alone(s) /\ SameRanges(s) /\ SameVector(s)
      /\ conn' = conn /\ net' = consume(s)
      /\ m.type # "UPDATE" /\ ~ IsView(m)
  BY DEF TakesMatrix, Alone, MatrixMessages, IsView
<1>3. PICK M : M = {}
  OBVIOUS
<1>4. Heard(s, m, M)
  BY <1>1, <1>2, <1>3, HeardQueues, DeliversNothing
<1>5. ReachesGrows
  BY <1>1, <1>2, <1>4, HeardReaches
<1>6. SharedNews'
  <2>1. \A x \in Servers :
           /\ \A k \in news(net'[x]) : k.type = "UPDATE" =>
                k \in news(net[x]) \/ (x \in conn[s] /\ k \in M)
           /\ x \in conn[s] => M \subseteq news(net'[x])
    BY <1>4 DEF Heard
  <2> QED
    BY <1>1, <1>2, <1>5, <2>1, SharedKept
<1>7. ASSUME NEW x \in Servers
      PROVE  /\ local_state'[x].status = local_state[x].status
             /\ local_state'[x].min_max = local_state[x].min_max
             /\ received'[x] = received[x]
             /\ noView(net'[x]) <=> noView(net[x])
             /\ \A p \in Servers : (ownVector(x)')[p] = ownVector(x)[p]
             /\ conn[x] \subseteq Servers
  BY <1>1, <1>2, <1>4
  DEF Alone, SameRanges, SameVector, Heard, ownVector, TypeInv, TypeOK
<1>8. \A x \in Servers : finished(x)' <=> finished(x)
  BY <1>7 DEF finished
<1>9. \A w \in Servers : \A p, i : pending(w, p, i) => pending(w, p, i)'
  BY <1>7 DEF pending
<1>10. ASSUME NEW x \in Servers, NEW p \in Servers, finished(x)'
       PROVE  Agrees(x, p)'
  <2>1. Agrees(x, p)
    BY <1>1, <1>8, <1>10 DEF Agreement
  <2> QED
    BY <1>1, <1>2, <1>5, <1>7, <1>8, <1>9, <2>1, AgreesKept
<1> QED
  BY <1>6, <1>10 DEF AgreementInv, Agreement

(* What is covered for an index is for an earlier one.                     *)
LEMMA CoveredLess ==
    ASSUME TypeInv, TypeInv', NEW t \in Servers, NEW p \in Servers,
           NEW i \in Int, NEW j \in Int, j <= i, covered(t, p, i)'
    PROVE  covered(t, p, j)'
<1>1. (ownVector(t)')[p] \in Int
  BY NextVectorType
<1>2. \A m \in news(net'[t]) : m.type = "UPDATE" => m.update.index \in Int
  BY NewsType DEF TypeInv, TypeOK
<1>3. \A w \in Servers : local_state'[w].min_max[p].max \in Int
  BY DEF TypeInv, FiniteStates, LocalStates, Ranges, NoRange, Indices
<1>4. conn'[t] \subseteq Servers
  BY DEF TypeInv, TypeOK
<1>5. reaches(t, p, i)' => reaches(t, p, j)'
  BY <1>1, <1>2 DEF reaches
<1>6. \A w \in Servers : pending(w, p, i)' => pending(w, p, j)'
  BY <1>3 DEF pending
<1> QED
  BY <1>4, <1>5, <1>6 DEF covered

(* The server that ends its reconciliation: what it has that others lack   *)
(* is on its way or pending, or another comes before it.                   *)
LEMMA PlanCovers ==
    ASSUME ServerInv, ServerInv', [Next]_vars, ReachesGrows,
           NEW s \in Servers, NEW m \in MatrixMessages, EndsReconcile(s, m),
           NEW st \in FiniteStates,
           st.status = "SENDINGUPDATES",
           st.current_membership = local_state[s].current_membership,
           st.buffer = local_state'[s].buffer,
           st.latest_update = local_state'[s].latest_update,
           SendsAfter(s, st, MaxSend),
           noView(net[s]), noView(net'[s]),
           \A t \in conn[s] : resends(s, toSend(st, MaxSend)) \subseteq news(net'[t]),
           \A x \in Servers, p \in Servers : (ownVector(x)')[p] = ownVector(x)[p],
           NEW p \in Servers, Planned(s, st, p),
           \A x \in Servers : finished(x) =>
              \/ \A t \in conn[x] : covered(t, p, ownVector(x)[p])'
              \/ \E w \in conn[x] : ~ finished(w) /\ above(w, x, p)
    PROVE  \/ \A t \in conn[s] : covered(t, p, ownVector(s)[p])'
           \/ \E w \in conn[s] \ {s} : ~ finished(w) /\ above(w, s, p)
<1>1. /\ TypeInv /\ TypeInv' /\ Connected /\ KnowledgeInv' /\ VectorIsNewest'
      /\ BufferReceived' /\ LastViewIsConn
      /\ s \in conn[s] /\ conn[s] \subseteq Servers /\ conn' = conn
  BY DEF ServerInv, LogInv, QueueInv, Connected, TypeInv, TypeOK, EndsReconcile, Alone
<1>2. Others(st, s) = conn[s] \ {s}
  BY <1>1 DEF Others, LastViewIsConn
<1>3. PICK top \in Int : top = ownVector(s)[p]
  BY <1>1, VectorType
<1>4. /\ (ownVector(s)')[p] = top /\ (ownVector(s)[p])' = top
      /\ st.latest_update[s][p] = top
      /\ \A i \in conn[s] : st.latest_update[i][p] <= ownVector(i)[p]
      /\ \A i \in conn[s] : st.latest_update[i][p] \in Int /\ ownVector(i)[p] \in Int
  <2>1. (ownVector(s)')[p] = top
    BY <1>3
  <2>2. st.latest_update[s][p] = top
    BY <2>1 DEF ownVector
  <2>3. \A i \in conn[s] : st.latest_update[i][p] \in Int /\ ownVector(i)[p] \in Int
    BY <1>1, VectorType DEF FiniteStates, LocalStates, Matrices, Indices
  <2>4. ASSUME NEW i \in conn[s]
        PROVE  st.latest_update[i][p] <= ownVector(i)[p]
    <3>1. local_state'[s].latest_update[i][p] <= (ownVector(i)')[p]
      BY <1>1 DEF KnowledgeInv
    <3> QED
      BY <1>1, <3>1
  <2> QED
    BY <2>1, <2>2, <2>3, <2>4
<1>5. ASSUME NEW i \in conn[s] \ {s}, above(i, s, p)
      PROVE  \/ \A t \in conn[s] : covered(t, p, ownVector(s)[p])'
             \/ \E w \in conn[s] \ {s} : ~ finished(w) /\ above(w, s, p)
  <2>1. i \in Servers /\ conn[i] = conn[s]
    BY <1>1 DEF Connected
  <2>2. CASE ~ finished(i)
    BY <1>5, <2>2
  <2>3. ASSUME \A t \in conn[i] : covered(t, p, ownVector(i)[p])'
        PROVE  \A t \in conn[s] : covered(t, p, ownVector(s)[p])'
    <3>1. PICK j \in Int : j = ownVector(i)[p] /\ (ownVector(i)[p])' = j /\ top <= j
      BY <1>1, <1>3, <1>4, <1>5, <2>1, AboveOrders
    <3>2. ASSUME NEW t \in conn[s]
          PROVE  covered(t, p, top)'
      <4>1. t \in Servers /\ covered(t, p, j)'
        BY <1>1, <2>1, <2>3, <3>1
      <4> QED
        BY <1>1, <3>1, <4>1, CoveredLess
    <3> QED
      BY <1>4, <3>2
  <2>4. ASSUME NEW w \in conn[i], ~ finished(w), above(w, i, p)
        PROVE  \E v \in conn[s] \ {s} : ~ finished(v) /\ above(v, s, p)
    <3>1. w \in Servers /\ above(w, s, p)
      BY <1>1, <1>5, <2>1, <2>4, AboveOrders
    <3>2. w # s
      BY <1>1, <3>1, AboveOrders
    <3> QED
      BY <2>1, <2>4, <3>1, <3>2
  <2> QED
    BY <2>1, <2>2, <2>3, <2>4
<1>6. CASE \E i \in Others(st, s) : \/ st.latest_update[i][p] > top
                                    \/ st.latest_update[i][p] = top /\ i > s
  <2>1. PICK i \in conn[s] \ {s} : \/ st.latest_update[i][p] > top
                                   \/ st.latest_update[i][p] = top /\ i > s
    BY <1>2, <1>6
  <2>2. ownVector(i)[p] > top \/ (ownVector(i)[p] = top /\ i > s)
    BY <1>4, <2>1
  <2>3. above(i, s, p)
    BY <1>3, <2>2 DEF above
  <2> QED
    BY <1>5, <2>3
<1>7. ASSUME \A t \in conn[s] : ownVector(t)[p] >= top
      PROVE  \A t \in conn[s] : covered(t, p, ownVector(s)[p])'
  <2>1. ASSUME NEW t \in conn[s]
        PROVE  covered(t, p, top)'
    <3>1. t \in Servers /\ reaches(t, p, top)
      BY <1>1, <1>7 DEF reaches
    <3> QED
      BY <3>1 DEF ReachesGrows, covered
  <2> QED
    BY <1>4, <2>1
<1>8. CASE \A i \in Others(st, s) : st.latest_update[i][p] >= top
  <2>1. ASSUME NEW t \in conn[s]
        PROVE  ownVector(t)[p] >= top
    <3>1. CASE t = s
      BY <1>3, <3>1
    <3>2. CASE t # s
      <4>1. /\ st.latest_update[t][p] >= top
            /\ st.latest_update[t][p] <= ownVector(t)[p]
            /\ st.latest_update[t][p] \in Int /\ ownVector(t)[p] \in Int
        BY <1>2, <1>4, <1>8, <3>2
      <4> QED
        BY <4>1
    <3> QED
      BY <3>1, <3>2
  <2> QED
    BY <1>7, <2>1
<1>9. CASE st.min_max[p].max = top
  <2>1. CASE top < 0
    <3>1. ASSUME NEW t \in conn[s] PROVE ownVector(t)[p] >= -1
      <4>1. t \in Servers
        BY <1>1
      <4>2. ownVector(t)[p] \in Indices
        BY <1>1, <4>1 DEF TypeInv, TypeOK, LocalStates, Matrices, ownVector
      <4> QED
        BY <4>2 DEF Indices
    <3>2. \A t \in conn[s] : ownVector(t)[p] >= top
      BY <1>4, <2>1, <3>1
    <3> QED
      BY <1>7, <3>2
  <2>2. CASE top >= 0
    <3>1. PICK e \in local_state'[s].buffer : e.procID = p /\ e.index = top
      <4>1. findUpdate(local_state[s], p, top)'
        BY <1>1, <1>4, <2>2 DEF VectorIsNewest
      <4> QED
        BY <4>1 DEF findUpdate
    <3>2. e \in st.buffer /\ e \in received'[s]
      BY <1>1, <3>1 DEF BufferReceived
    <3>3. MaxSend \in Nat /\ top <= st.min_max[p].max
      BY <1>9, MaxSendAssumption
    <3>4. pending(s, p, top)' \/ \A t \in conn[s] : reaches(t, p, top)'
      BY <1>1, <1>9, <3>1, <3>2, <3>3, BatchCovers
    <3>5. ASSUME NEW t \in conn[s]
          PROVE  covered(t, p, top)'
      <4>1. s \in conn'[t]
        BY <1>1 DEF Connected
      <4> QED
        BY <3>4, <4>1 DEF covered
    <3> QED
      BY <1>4, <3>5
  <2> QED
    BY <2>1, <2>2
<1> QED
  BY <1>4, <1>6, <1>8, <1>9 DEF Planned

(* The last matrix keeps the agreement.                                    *)
LEMMA EndsReconcileAgreement ==
    ASSUME ServerInv, ServerInv', [Next]_vars, AgreementInv,
           NEW s \in Servers, NEW m \in MatrixMessages, EndsReconcile(s, m)
    PROVE  AgreementInv'
<1>1. /\ TypeInv /\ TypeInv' /\ Connected /\ SharedNews /\ Agreement
      /\ s \in conn[s]
  BY DEF ServerInv, QueueInv, AgreementInv, Connected
<1>2. /\ net[s] # <<>> /\ Head(net[s]) = m
      /\ Alone(s) /\ SameVector(s)
      /\ conn' = conn
      /\ local_state[s].status = "RECONCILE"
      /\ m.type # "UPDATE" /\ ~ IsView(m)
  BY DEF EndsReconcile, Alone, MatrixMessages, IsView
<1>3. PICK st \in FiniteStates :
         /\ st.status = "SENDINGUPDATES"
         /\ st.current_membership = local_state[s].current_membership
         /\ st.buffer = local_state'[s].buffer
         /\ st.latest_update = local_state'[s].latest_update
         /\ \A p \in Servers : Planned(s, st, p)
         /\ SendsAfter(s, st, MaxSend)
         /\ Delivers(s, consume(s), resends(s, toSend(st, MaxSend)))
  BY DEF EndsReconcile
<1>4. PICK M : M = resends(s, toSend(st, MaxSend))
  OBVIOUS
<1>5. Heard(s, m, M)
  BY <1>1, <1>2, <1>3, <1>4, HeardQueues
<1>6. ReachesGrows
  BY <1>1, <1>2, <1>5, HeardReaches
<1>7. SharedNews'
  <2>1. \A x \in Servers :
           /\ \A k \in news(net'[x]) : k.type = "UPDATE" =>
                k \in news(net[x]) \/ (x \in conn[s] /\ k \in M)
           /\ x \in conn[s] => M \subseteq news(net'[x])
    BY <1>5 DEF Heard
  <2> QED
    BY <1>1, <1>2, <1>6, <2>1, SharedKept
<1>8. /\ \A x \in Servers : /\ noView(net'[x]) <=> noView(net[x])
                            /\ conn[x] \subseteq Servers
                            /\ received'[x] = received[x]
      /\ \A x \in Servers, p \in Servers : (ownVector(x)')[p] = ownVector(x)[p]
      /\ \A x \in Servers \ {s} : local_state'[x] = local_state[x]
  BY <1>1, <1>2, <1>5 DEF Alone, SameVector, Heard, ownVector, TypeInv, TypeOK
<1>9. /\ ~ finished(s)
      /\ \A x \in Servers \ {s} : finished(x)' <=> finished(x)
      /\ \A x \in Servers : finished(x)' => noView(net[x])
      /\ ~ noView(net[s]) => ~ finished(s)'
  BY <1>2, <1>8 DEF finished
<1>10. ASSUME NEW w \in Servers, NEW p, NEW i, pending(w, p, i)
       PROVE  pending(w, p, i)'
  <2>1. w # s
    BY <1>2, <1>10 DEF pending
  <2> QED
    BY <1>8, <1>10, <2>1 DEF pending
<1>11. ASSUME NEW x \in Servers, NEW p \in Servers, finished(x)
       PROVE  \/ \A t \in conn[x] : covered(t, p, ownVector(x)[p])'
              \/ \E w \in conn[x] : ~ finished(w) /\ above(w, x, p)
  <2>1. Agrees(x, p)
    BY <1>1, <1>11 DEF Agreement
  <2>2. ASSUME \A t \in conn[x] : covered(t, p, ownVector(x)[p])
        PROVE  \A t \in conn[x] : covered(t, p, ownVector(x)[p])'
    <3>1. PICK i \in Int : i = ownVector(x)[p] /\ (ownVector(x)[p])' = i
      BY <1>1, <1>8, VectorType
    <3>2. ASSUME NEW t \in conn[x]
          PROVE  covered(t, p, i)'
      <4>1. t \in Servers /\ covered(t, p, i) /\ conn[t] \subseteq Servers
        BY <1>8, <2>2, <3>1
      <4> QED
        BY <1>1, <1>2, <1>6, <1>10, <4>1, CoveredKept
    <3> QED
      BY <3>1, <3>2
  <2> QED
    BY <2>1, <2>2 DEF Agrees
<1>12. ASSUME NEW p \in Servers, noView(net[s])
       PROVE  \/ \A t \in conn[s] : covered(t, p, ownVector(s)[p])'
              \/ \E w \in conn[s] \ {s} : ~ finished(w) /\ above(w, s, p)
  <2>1. \A t \in conn[s] : resends(s, toSend(st, MaxSend)) \subseteq news(net'[t])
    BY <1>4, <1>5, <1>8 DEF Heard
  <2> QED
    BY <1>3, <1>6, <1>8, <1>11, <1>12, <2>1, PlanCovers
<1>13. ASSUME NEW x \in Servers, NEW p \in Servers, NEW w \in conn[x] \ {s},
              ~ finished(w), above(w, x, p)
       PROVE  Agrees(x, p)'
  <2>1. w \in Servers /\ ~ finished(w)' /\ above(w, x, p)'
    BY <1>1, <1>8, <1>9, <1>13, AboveKept
  <2> QED
    BY <1>2, <2>1 DEF Agrees
<1>14. ASSUME NEW x \in Servers, NEW p \in Servers, finished(x)'
       PROVE  Agrees(x, p)'
  <2>1. CASE x = s
    BY <1>2, <1>9, <1>12, <1>13, <1>14, <2>1 DEF Agrees
  <2>2. CASE x # s
    <3>1. finished(x)
      BY <1>9, <1>14, <2>2
    <3>2. CASE \A t \in conn[x] : covered(t, p, ownVector(x)[p])'
      BY <1>2, <3>2 DEF Agrees
    <3>3. ASSUME NEW w \in conn[x], ~ finished(w), above(w, x, p), w # s
          PROVE  Agrees(x, p)'
      BY <1>13, <3>3
    <3>4. ASSUME s \in conn[x], above(s, x, p)
          PROVE  Agrees(x, p)'
      <4>1. conn[x] = conn[s]
        BY <1>1, <3>4 DEF Connected
      <4>2. CASE ~ noView(net[s])
        <5>1. ~ finished(s)' /\ above(s, x, p)'
          BY <1>1, <1>8, <1>9, <3>4, <4>2, AboveKept
        <5> QED
          BY <1>2, <3>4, <5>1 DEF Agrees
      <4>3. ASSUME \A t \in conn[s] : covered(t, p, ownVector(s)[p])'
            PROVE  Agrees(x, p)'
        <5>1. PICK i \in Int : i = ownVector(x)[p] /\ (ownVector(x)[p])' = i
          BY <1>1, <1>8, VectorType
        <5>2. PICK j \in Int : j = ownVector(s)[p] /\ (ownVector(s)[p])' = j
          BY <1>1, <1>8, VectorType
        <5>3. i <= j
          BY <1>1, <3>4, <5>1, <5>2, AboveOrders
        <5>4. ASSUME NEW t \in conn[x]
              PROVE  covered(t, p, i)'
          <6>1. t \in Servers /\ covered(t, p, j)'
            BY <1>8, <4>1, <4>3, <5>2
          <6> QED
            BY <1>1, <5>3, <6>1, CoveredLess
        <5> QED
          BY <1>2, <5>1, <5>4 DEF Agrees
      <4>4. ASSUME NEW w \in conn[s] \ {s}, ~ finished(w), above(w, s, p)
            PROVE  Agrees(x, p)'
        <5>1. w \in Servers /\ above(w, x, p)
          BY <1>1, <1>8, <3>4, <4>4, AboveOrders
        <5> QED
          BY <1>13, <4>1, <4>4, <5>1
      <4> QED
        BY <1>12, <4>2, <4>3, <4>4
    <3> QED
      BY <1>11, <3>1, <3>2, <3>3, <3>4
  <2> QED
    BY <2>1, <2>2
<1> QED
  BY <1>7, <1>14 DEF AgreementInv, Agreement

(* A view keeps it: a server that is alone has no one to agree with, and   *)
(* another starts a reconciliation.                                        *)
LEMMA ReadsViewAgreement ==
    ASSUME ServerInv, TypeInv', [Next]_vars, AgreementInv,
           NEW s \in Servers, NEW m \in ViewMessages, ReadsView(s, m)
    PROVE  AgreementInv'
<1> DEFINE alone == Cardinality(m.members) = 1
<1>1. TypeInv /\ Connected /\ LastViewIsConn /\ SharedNews /\ Agreement
  BY DEF ServerInv, QueueInv, AgreementInv
<1>2. /\ conn' = conn
      /\ \A x \in Servers \ {s} : local_state'[x] = local_state[x]
      /\ \A x \in Servers : /\ received'[x] = received[x]
                            /\ conn[x] \subseteq Servers /\ x \in conn[x]
                            /\ \A p \in Servers : (ownVector(x)')[p] = ownVector(x)[p]
      /\ local_state'[s].status = IF alone THEN "NORMAL" ELSE "RECONCILE"
  BY <1>1 DEF ReadsView, Alone, SameVector, ownVector, TypeInv, TypeOK, Connected
<1>3. /\ ~ noView(net[s])
      /\ \A group : lastView(net[s], group) => (noView(net'[s]) => m.members = group)
      /\ \A x \in Servers \ {s} : noView(net'[x]) <=> noView(net[x])
      /\ \A x \in Servers : /\ news(net[x]) \subseteq news(net'[x])
                            /\ \A k \in news(net'[x]) : k.type = "UPDATE" => k \in news(net[x])
  BY <1>1, ReadQueues
<1> HIDE DEF alone
<1>4. ReachesGrows
  BY <1>2, <1>3 DEF ReachesGrows, reaches
<1>5. SharedNews'
  <2>1. PICK M : M = {}
    OBVIOUS
  <2>2. \A x \in Servers :
           /\ \A k \in news(net'[x]) : k.type = "UPDATE" =>
                k \in news(net[x]) \/ (x \in conn[s] /\ k \in M)
           /\ x \in conn[s] => M \subseteq news(net'[x])
    BY <1>3, <2>1
  <2> QED
    BY <1>1, <1>2, <1>4, <2>2, SharedKept
<1>6. finished(s)' => conn[s] = {s}
  <2> SUFFICES ASSUME finished(s)' PROVE conn[s] = {s}
    OBVIOUS
  <2>1. noView(net'[s]) /\ alone
    BY <1>2 DEF finished
  <2>2. lastView(net[s], conn[s])
    BY <1>1, <1>3 DEF LastViewIsConn
  <2>3. m.members = conn[s]
    BY <1>3, <2>1, <2>2
  <2>4. IsFiniteSet(conn[s]) /\ Cardinality(conn[s]) = 1
    BY <1>1, <2>1, <2>3, ReadersFinite DEF alone
  <2>5. PICK y : conn[s] = {y}
    BY <2>4, FS_Singleton
  <2> QED
    BY <1>2, <2>5
<1>7. ASSUME NEW w \in Servers, NEW p, NEW i, pending(w, p, i)
      PROVE  pending(w, p, i)'
  <2>1. w # s
    BY <1>3, <1>7 DEF pending
  <2> QED
    BY <1>2, <1>3, <1>7, <2>1 DEF pending
<1>8. ASSUME NEW x \in Servers, NEW p \in Servers, finished(x)'
      PROVE  Agrees(x, p)'
  <2>1. CASE x = s
    <3>1. (ownVector(s)')[p] \in Int
      BY NextVectorType
    <3>2. conn'[s] = {s} /\ (ownVector(s)')[p] >= (ownVector(s)')[p]
      BY <1>2, <1>6, <1>8, <2>1, <3>1
    <3>3. covered(s, p, ownVector(s)[p])'
      BY <3>2 DEF covered, reaches
    <3> QED
      BY <2>1, <3>2, <3>3 DEF Agrees
  <2>2. CASE x # s
    <3>1. finished(x) /\ Agrees(x, p)
      BY <1>1, <1>2, <1>3, <1>8, <2>2 DEF finished, Agreement
    <3>2. ASSUME NEW w \in conn[x], ~ finished(w)
          PROVE  ~ finished(w)'
      <4>1. CASE w = s
        <5>1. conn[s] = conn[x] /\ x \in conn[s]
          BY <1>1, <1>2, <4>1 DEF Connected
        <5> QED
          BY <1>6, <2>2, <4>1, <5>1
      <4>2. CASE w # s
        BY <1>2, <1>3, <3>2, <4>2 DEF finished
      <4> QED
        BY <4>1, <4>2
    <3> QED
      BY <1>1, <1>2, <1>4, <1>7, <3>1, <3>2, AgreesKept
  <2> QED
    BY <2>1, <2>2
<1> QED
  BY <1>5, <1>8 DEF AgreementInv, Agreement

(* A change of the network keeps it: no one in the new components has      *)
(* finished.                                                               *)
LEMMA RegroupsAgreement ==
    ASSUME ServerInv, TypeInv', AgreementInv, Regroups
    PROVE  AgreementInv'
<1>1. TypeInv /\ Connected /\ Connected' /\ SharedNews /\ Agreement
  BY DEF ServerInv, QueueInv, AgreementInv, Regroups
<1>2. /\ local_state' = local_state /\ received' = received
      /\ \A x \in Servers : /\ ownVector(x)' = ownVector(x)
                            /\ x \in conn[x] /\ x \in conn'[x]
                            /\ conn[x] \subseteq Servers /\ conn'[x] \subseteq Servers
  BY <1>1 DEF Regroups, ownVector, Connected, TypeInv, TypeOK
<1>3. ASSUME NEW x \in Servers
      PROVE  \/ /\ conn'[x] = conn[x]
                /\ \A t \in conn[x] : net'[t] = net[t] /\ conn'[t] = conn[x] /\ conn[t] = conn[x]
             \/ ~ noView(net'[x]) /\ news(net'[x]) = {}
  <2>1. \/ \A t \in conn[x] \cup {x} : net'[t] = net[t] /\ conn'[t] = conn[t]
        \/ \A t \in conn'[x] : ~ noView(net'[t]) /\ news(net'[t]) = {}
    BY <1>1, Regrouped
  <2> QED
    BY <1>1, <1>2, <2>1 DEF Connected
<1>4. ASSUME NEW x \in Servers, conn'[x] = conn[x],
             \A t \in conn[x] : net'[t] = net[t] /\ conn'[t] = conn[x] /\ conn[t] = conn[x]
      PROVE  /\ \A t \in conn[x], p \in Servers : \A i :
                   /\ reaches(t, p, i)' <=> reaches(t, p, i)
                   /\ pending(t, p, i)' <=> pending(t, p, i)
                   /\ covered(t, p, i)' <=> covered(t, p, i)
             /\ \A t \in conn[x] : finished(t)' <=> finished(t)
             /\ \A t \in conn[x] : \A p : above(t, x, p)' <=> above(t, x, p)
  <2>1. \A t \in conn[x], p \in Servers : \A i :
           /\ reaches(t, p, i)' <=> reaches(t, p, i)
           /\ pending(t, p, i)' <=> pending(t, p, i)
    BY <1>2, <1>4 DEF reaches, pending
  <2>2. \A t \in conn[x], p \in Servers : \A i : covered(t, p, i)' <=> covered(t, p, i)
    BY <1>4, <2>1 DEF covered
  <2>3. \A t \in conn[x] : finished(t)' <=> finished(t)
    BY <1>2, <1>4 DEF finished
  <2>4. \A t \in conn[x] : \A p : above(t, x, p)' <=> above(t, x, p)
    BY <1>2 DEF above
  <2> QED
    BY <2>1, <2>2, <2>3, <2>4
<1>5. SharedNews'
  <2> SUFFICES ASSUME NEW x \in Servers, NEW t \in conn'[x], NEW k \in news(net'[x]),
                      k.type = "UPDATE"
               PROVE  reaches(t, k.update.procID, k.update.index)'
    BY DEF SharedNews
  <2>1. /\ conn'[x] = conn[x]
        /\ \A y \in conn[x] : net'[y] = net[y] /\ conn'[y] = conn[x] /\ conn[y] = conn[x]
    BY <1>3
  <2>2. k \in news(net[x]) /\ k.update.procID \in Servers
    <3>1. k \in news(net[x]) /\ net[x] \in Seq(Messages)
      BY <1>1, <1>2, <2>1 DEF TypeInv, TypeOK
    <3> QED
      BY <3>1, NewsType
  <2>3. reaches(t, k.update.procID, k.update.index)
    BY <1>1, <2>1, <2>2 DEF SharedNews
  <2> QED
    BY <1>4, <2>1, <2>2, <2>3
<1>6. ASSUME NEW x \in Servers, NEW p \in Servers, finished(x)'
      PROVE  Agrees(x, p)'
  <2>1. /\ conn'[x] = conn[x]
        /\ \A y \in conn[x] : net'[y] = net[y] /\ conn'[y] = conn[x] /\ conn[y] = conn[x]
    BY <1>3, <1>6 DEF finished
  <2>2. PICK i : i = ownVector(x)[p] /\ (ownVector(x)[p])' = i
    BY <1>2
  <2>3. /\ \A t \in conn[x] : covered(t, p, i)' <=> covered(t, p, i)
        /\ \A t \in conn[x] : finished(t)' <=> finished(t)
        /\ \A t \in conn[x] : above(t, x, p)' <=> above(t, x, p)
    BY <1>4, <2>1
  <2>4. Agrees(x, p)
    BY <1>1, <1>2, <1>6, <2>3 DEF Agreement
  <2>5. \/ \A t \in conn[x] : covered(t, p, i)
        \/ \E w \in conn[x] : ~ finished(w) /\ above(w, x, p)
    BY <2>2, <2>4 DEF Agrees
  <2>6. \/ \A t \in conn'[x] : covered(t, p, i)'
        \/ \E w \in conn'[x] : ~ finished(w)' /\ above(w, x, p)'
    BY <2>1, <2>3, <2>5
  <2> QED
    BY <2>2, <2>6 DEF Agrees
<1> QED
  BY <1>5, <1>6 DEF AgreementInv, Agreement

(* Every step keeps what the agreement rests on, and the agreement.        *)
LEMMA ServerInit == Init => ServerInv
BY TypeInit, LogInit, KnowledgeInit, NewestInit, PurgeInit, QueueInit DEF ServerInv

LEMMA ServerNext == ServerInv /\ [Next]_vars => ServerInv'
BY TypeNext, LogNext, KnowledgeNext, NewestNext, PurgeNext, QueueNext DEF ServerInv

LEMMA AgreementNext == ServerInv /\ AgreementInv /\ [Next]_vars => AgreementInv'
<1> SUFFICES ASSUME ServerInv, AgreementInv, [Next]_vars PROVE AgreementInv'
  OBVIOUS
<1>1. ServerInv'
  BY ServerNext
<1>2. TypeInv /\ Connected /\ TypeInv'
  BY <1>1 DEF ServerInv, QueueInv
<1> QED
  BY <1>1, <1>2, StepForms, MakesAgreement, TakesUpdateAgreement, TakesMatrixAgreement,
     EndsReconcileAgreement, ReadsViewAgreement, RegroupsAgreement

(* Quiet servers have finished and nothing is pending, so all of them      *)
(* reach what one of them has.                                             *)
LEMMA QuietAgrees == ServerInv /\ AgreementInv => QuietComponentAgrees
<1> SUFFICES ASSUME ServerInv, AgreementInv, NEW s \in Servers,
                    \A t \in conn[s] : net[t] = <<>>, NEW t \in conn[s]
             PROVE  ownVector(t) = ownVector(s)
  BY DEF QuietComponentAgrees
<1>1. TypeInv /\ QueueInv /\ Connected /\ Agreement
  BY DEF ServerInv, QueueInv, AgreementInv
<1>2. /\ s \in conn[s] /\ conn[s] \subseteq Servers
      /\ \A x \in conn[s] : conn[x] = conn[s]
  BY <1>1 DEF Connected, TypeInv, TypeOK
<1>3. noView(<<>>) /\ news(<<>>) = {}
  BY DEF noView, news, since
<1>4. ASSUME NEW x \in conn[s]
      PROVE  finished(x) /\ local_state[x].status = "NORMAL"
  <2>1. local_state[x].status = "NORMAL"
    BY <1>1, <1>2, QuietIsNormal DEF QuietComponentIsNormal
  <2> QED
    BY <1>3, <2>1 DEF finished
<1>5. ASSUME NEW x \in conn[s], NEW y \in conn[s], NEW p \in Servers
      PROVE  ownVector(y)[p] >= ownVector(x)[p]
  <2>1. Agrees(x, p)
    BY <1>1, <1>2, <1>4 DEF Agreement
  <2>2. covered(y, p, ownVector(x)[p])
    BY <1>2, <1>4, <2>1 DEF Agrees
  <2>3. \A w \in conn[y] : ~ pending(w, p, ownVector(x)[p])
    BY <1>2, <1>4 DEF pending
  <2>4. reaches(y, p, ownVector(x)[p])
    BY <2>2, <2>3 DEF covered
  <2> QED
    BY <1>3, <2>4 DEF reaches
<1>6. \A p \in Servers : ownVector(t)[p] = ownVector(s)[p]
  <2>1. \A p \in Servers : ownVector(t)[p] \in Int /\ ownVector(s)[p] \in Int
    BY <1>1, <1>2, VectorType
  <2>2. \A p \in Servers : /\ ownVector(t)[p] >= ownVector(s)[p]
                           /\ ownVector(s)[p] >= ownVector(t)[p]
    BY <1>2, <1>5
  <2> QED
    BY <2>1, <2>2
<1>7. ownVector(t) \in [Servers -> Indices] /\ ownVector(s) \in [Servers -> Indices]
  BY <1>1, <1>2 DEF TypeInv, TypeOK, LocalStates, Matrices, ownVector
<1> QED
  BY <1>6, <1>7

(* When Spread has nothing left to deliver in a component, its servers     *)
(* report the same vectors: whatever splits and merges interrupted their   *)
(* reconciliations, the member that checkHighestUpdate chooses for each    *)
(* server's updates has resent what the others lacked.                     *)
THEOREM QuietAlwaysAgrees == Spec => []QuietComponentAgrees
<1>1. Spec => [](ServerInv /\ AgreementInv)
  BY ServerInit, ServerNext, AgreementInit, AgreementNext, PTL DEF Spec
<1> QED
  BY <1>1, QuietAgrees, PTL

-----------------------------------------------------------------------------
(* The mails of the servers.                                               *)

(* The mails that a state holds, of all users.                             *)
mailsOf(st) == UNION {idSet(st.emails[user]) : user \in Users}

(* Only a new mail adds to the mails of a state, and only itself.          *)
LEMMA ChangeMailIds ==
    ASSUME NEW st \in FiniteStates, NEW u \in Updates
    PROVE  mailsOf(changeMail(st, u)) \subseteq
              mailsOf(st) \cup IF u.type = "NEWMAILMSG" THEN {u.mail} ELSE {}
<1> DEFINE box == st.emails[u.user]
           new == [procID |-> u.mail.procID, index |-> u.mail.index, read |-> FALSE]
           gain == IF u.type = "NEWMAILMSG" THEN {u.mail} ELSE {}
<1>1. u.user \in Users /\ u.mail \in MailIds /\ u.type \in UpdateTypes
  BY DEF Updates
<1>2. box \in Seq(Mails) /\ st.emails \in [Users -> Seq(Mails)]
  BY <1>1 DEF FiniteStates, LocalStates
<1>3. new \in Mails /\ idOf(new) = u.mail
  BY <1>1 DEF Mails, MailIds, idOf
<1>4. ASSUME NEW after, NEW b, after.emails = [st.emails EXCEPT ![u.user] = b],
             idSet(b) \subseteq idSet(box) \cup gain
      PROVE  mailsOf(after) \subseteq mailsOf(st) \cup gain
  BY <1>1, <1>2, <1>4 DEF mailsOf
<1>5. CASE u.type = "NEWMAILMSG"
  <2>1. CASE u.user \in st.users
    <3>1. changeMail(st, u).emails = [st.emails EXCEPT ![u.user] = EmailInsert(box, new)]
      BY <1>5, <2>1 DEF changeMail, addMail, FiniteStates, LocalStates
    <3>2. idSet(EmailInsert(box, new)) \subseteq idSet(box) \cup gain
      BY <1>2, <1>3, <1>5, MailboxIds
    <3> QED
      BY <1>4, <3>1, <3>2
  <2>2. CASE u.user \notin st.users
    BY <1>5, <2>2 DEF changeMail, addMail
  <2> QED
    BY <2>1, <2>2
<1>6. CASE u.type = "NEWUSERMSG"
  <2>1. changeMail(st, u).emails = st.emails
    BY <1>6 DEF changeMail, addUser, FiniteStates, LocalStates
  <2> QED
    BY <2>1 DEF mailsOf
<1>7. CASE u.type = "DELETEMAILMSG"
  <2>1. changeMail(st, u).emails = [st.emails EXCEPT ![u.user] = EmailDelete(box, u.mail)]
    BY <1>7 DEF changeMail, deleteMail, FiniteStates, LocalStates
  <2> QED
    BY <1>2, <1>4, <2>1, MailboxIds
<1>8. CASE u.type = "READMAILMSG"
  <2>1. changeMail(st, u).emails = [st.emails EXCEPT ![u.user] = EmailMarkRead(box, u.mail)]
    BY <1>8 DEF changeMail, markAsRead, FiniteStates, LocalStates
  <2> QED
    BY <1>2, <1>4, <2>1, MailboxIds
<1> QED
  BY <1>1, <1>5, <1>6, <1>7, <1>8 DEF UpdateTypes

LEMMA ApplyUpdateIds ==
    ASSUME NEW st \in FiniteStates, NEW me \in Servers, NEW u \in Updates
    PROVE  \/ mailsOf(applyUpdate(st, me, u)) \subseteq mailsOf(st)
           \/ /\ ~ findUpdate(st, u.procID, u.index) /\ u.type = "NEWMAILMSG"
              /\ mailsOf(applyUpdate(st, me, u)) \subseteq mailsOf(st) \cup {u.mail}
<1> DEFINE x == updateVector(storeUpdate(st, u), me, u)
           y == changeMail(x, u)
<1>1. x \in FiniteStates /\ y \in FiniteStates
  BY StoreType, ChangeMailType
<1>2. x.emails = st.emails
  BY DEF updateVector, storeUpdate, FiniteStates, LocalStates
<1>3. mailsOf(x) = mailsOf(st)
  BY <1>2 DEF mailsOf
<1> HIDE DEF x
<1>4. mailsOf(y) \subseteq mailsOf(st) \cup IF u.type = "NEWMAILMSG" THEN {u.mail} ELSE {}
  BY <1>1, <1>3, ChangeMailIds
<1>5. CASE findUpdate(st, u.procID, u.index)
  BY <1>5 DEF applyUpdate
<1>6. CASE ~ findUpdate(st, u.procID, u.index)
  <2>1. applyUpdate(st, me, u) = [y EXCEPT !.updateIndex = larger(@ + 1, u.index)]
    BY <1>6 DEF applyUpdate, x
  <2> HIDE DEF y
  <2>2. applyUpdate(st, me, u).emails = y.emails
    BY <1>1, <2>1 DEF FiniteStates, LocalStates
  <2>3. mailsOf(applyUpdate(st, me, u)) = mailsOf(y)
    BY <2>2 DEF mailsOf
  <2> QED
    BY <1>4, <1>6, <2>3
<1> QED
  BY <1>5, <1>6

(* What reconciliation does leaves the mails alone.                        *)
LEMMA ReconcileKeepsIds ==
    ASSUME NEW st \in FiniteStates, NEW n \in Nat, NEW me \in Servers, NEW m
    PROVE  /\ mailsOf(sendMissingUpdates(st, n)) = mailsOf(st)
           /\ mailsOf(countMatrix(st, me, m)) = mailsOf(st)
           /\ mailsOf(continueReconcile(st, me)) = mailsOf(st)
<1>1. sendMissingUpdates(st, n).emails = st.emails
  BY DEF sendMissingUpdates, FiniteStates, LocalStates
<1>2. countMatrix(st, me, m).emails = st.emails
  BY DEF countMatrix, updateMatrix, FiniteStates, LocalStates
<1>3. continueReconcile(st, me).emails = st.emails
  BY DEF continueReconcile, planUpdates, purgeUpdateBuffer, FiniteStates, LocalStates
<1> QED
  BY <1>1, <1>2, <1>3 DEF mailsOf

-----------------------------------------------------------------------------
(* The mails of a server and the updates that created them.                *)

MailChanges == {"DELETEMAILMSG", "READMAILMSG"}

(* A new mail has the stamp of its update.                                 *)
NewMailsNamed ==
    \A u \in issued : u.type = "NEWMAILMSG" => u.mail = idOf(u)

MailsMade ==
    \A s \in Servers : \A id \in mailsOf(local_state[s]) :
        \E v \in received[s] : v.type = "NEWMAILMSG" /\ idOf(v) = id

MailsInv == NewMailsNamed /\ MailsMade

(* A command of a client of server s that becomes the update u.            *)
AsksFor(s, u) ==
    /\ u \in Updates
    /\ issueUpdate(s, u)
    /\ u.procID = s
    /\ u.type = "NEWMAILMSG" => u.mail = idOf(u)
    /\ u.type \in MailChanges => \E user \in Users : u.mail \in listed(user)

(* Every command is of this form.                                          *)
LEMMA CommandAsks ==
    ASSUME TypeInv, NEW s \in Servers, Command(s)
    PROVE  \E u : AsksFor(s, u)
<1> DEFINE G(type, user, mail) == generateUpdate(local_state[s], s, type, user, mail)
           none == [procID |-> s, index |-> 0]
<1>1. PICK user \in Users :
         \/ NewUser(s, user)
         \/ NewMail(s, user)
         \/ \E mail \in listed(user) :
              DeleteMail(s, user, mail) \/ ReadMail(s, user, mail)
  BY DEF Command
<1>2. none \in MailIds /\ local_state[s] \in LocalStates
  BY DEF MailIds, TypeInv, TypeOK
<1>3. ASSUME NEW type \in UpdateTypes, NEW mail \in MailIds
      PROVE  /\ G(type, user, mail) \in Updates
             /\ G(type, user, mail).type = type
             /\ G(type, user, mail).procID = s
             /\ type = "NEWMAILMSG" =>
                   G(type, user, mail).mail = idOf(G(type, user, mail))
             /\ type \in MailChanges => G(type, user, mail).mail = mail
  <2>1. G(type, user, mail) \in Updates
    BY <1>2, GenerateUpdateType
  <2> QED
    BY <2>1 DEF generateUpdate, idOf, MailChanges
<1>4. CASE NewUser(s, user)
  BY <1>2, <1>3, <1>4 DEF NewUser, UpdateTypes, AsksFor, MailChanges
<1>5. CASE NewMail(s, user)
  BY <1>2, <1>3, <1>5 DEF NewMail, UpdateTypes, AsksFor, MailChanges
<1>6. ASSUME NEW mail \in listed(user), DeleteMail(s, user, mail)
      PROVE  \E u : AsksFor(s, u)
  BY <1>3, <1>6, ListedType DEF DeleteMail, UpdateTypes, AsksFor, MailChanges
<1>7. ASSUME NEW mail \in listed(user), ReadMail(s, user, mail)
      PROVE  \E u : AsksFor(s, u)
  BY <1>3, <1>7, ListedType DEF ReadMail, UpdateTypes, AsksFor, MailChanges
<1> QED
  BY <1>1, <1>4, <1>5, <1>6, <1>7

(* What a command or a message does to the history and the mails of its    *)
(* server.                                                                 *)
LEMMA ApplyKeepsMade ==
    ASSUME TypeInv, NEW s \in Servers, NEW u \in Updates, NEW st \in FiniteStates,
           st.buffer = local_state[s].buffer,
           mailsOf(st) = mailsOf(local_state[s]),
           local_state' = [local_state EXCEPT ![s] = applyUpdate(st, s, u)],
           remember(s, local_state[s], u)
    PROVE  /\ received'[s] = received[s] \/ received'[s] = received[s] \cup {u}
           /\ Known(s, u) \/ u \in received'[s]
           /\ \A t \in Servers \ {s} : /\ received'[t] = received[t]
                                       /\ local_state'[t] = local_state[t]
           /\ \A id \in mailsOf(local_state'[s]) :
                 \/ id \in mailsOf(local_state[s])
                 \/ u \in received'[s] /\ u.type = "NEWMAILMSG" /\ id = u.mail
<1>1. /\ local_state'[s] = applyUpdate(st, s, u)
      /\ \A t \in Servers \ {s} : local_state'[t] = local_state[t]
  BY DEF TypeInv
<1>2. /\ received'[s] = IF Known(s, u) THEN received[s] ELSE received[s] \cup {u}
      /\ \A t \in Servers \ {s} : received'[t] = received[t]
  BY DEF remember, Known, TypeInv, TypeOK
<1>3. findUpdate(st, u.procID, u.index) <=> Known(s, u)
  BY DEF findUpdate, Known
<1>4. \/ mailsOf(local_state'[s]) \subseteq mailsOf(local_state[s])
      \/ /\ ~ Known(s, u) /\ u.type = "NEWMAILMSG"
         /\ mailsOf(local_state'[s]) \subseteq mailsOf(local_state[s]) \cup {u.mail}
  BY <1>1, <1>3, ApplyUpdateIds
<1> QED
  BY <1>1, <1>2, <1>4

(* Initially there is no mail.                                             *)
LEMMA MailsInit == Init => MailsInv
<1> SUFFICES ASSUME Init PROVE MailsInv
  OBVIOUS
<1>1. issued = {}
  BY DEF Init, issued
<1>2. ASSUME NEW s \in Servers
      PROVE  mailsOf(local_state[s]) = {}
  <2>1. \A user \in Users : local_state[s].emails[user] = <<>>
    BY DEF Init, initialState
  <2>2. \A user \in Users : idSet(local_state[s].emails[user]) = {}
    BY <2>1 DEF idSet
  <2> QED
    BY <2>2 DEF mailsOf
<1> QED
  BY <1>1, <1>2 DEF MailsInv, NewMailsNamed, MailsMade

(* The message at the head of a queue that is an update.                   *)
LEMMA HeadUpdate ==
    ASSUME TypeInv, LogInv, NEW s \in Servers, delivers(s, "UPDATE")
    PROVE  /\ net[s] # <<>> /\ Head(net[s]).type = "UPDATE"
           /\ Head(net[s]).update \in Updates
           /\ Head(net[s]).update \in issued
<1>1. net[s] # <<>> /\ Head(net[s]).type = "UPDATE"
  BY DEF delivers
<1>2. Head(net[s]) \in Messages /\ Head(net[s]) \in onTheWay
  BY <1>1, DeliveryType, ConsumeKeeps
<1> QED
  BY <1>1, <1>2
  DEF Messages, UpdateMessages, MatrixMessages, ViewMessages, LogInv, OnTheWayIssued

(* An update that arrives.                                                 *)
LEMMA ReceiveKeepsMade ==
    ASSUME TypeInv, LogInv, NEW s \in Servers, ReceiveUpdate(s)
    PROVE  LET u == Head(net[s]).update
           IN  /\ received'[s] = received[s] \/ received'[s] = received[s] \cup {u}
               /\ Known(s, u) \/ u \in received'[s]
               /\ \A t \in Servers \ {s} : /\ received'[t] = received[t]
                                           /\ local_state'[t] = local_state[t]
               /\ \A id \in mailsOf(local_state'[s]) :
                     \/ id \in mailsOf(local_state[s])
                     \/ u \in received'[s] /\ u.type = "NEWMAILMSG" /\ id = u.mail
<1> DEFINE m == Head(net[s])
           st == local_state[s]
           echo == m.proc_num = s /\ st.status = "SENDINGUPDATES"
           st1 == IF echo THEN sendMissingUpdates(st, 1) ELSE st
<1>1. /\ local_state' = [local_state EXCEPT ![s] = applyUpdate(st1, s, m.update)]
      /\ remember(s, st, m.update)
      /\ delivers(s, "UPDATE")
  BY DEF ReceiveUpdate
<1>2. m.update \in Updates
  BY <1>1, HeadUpdate
<1>3. st \in FiniteStates
  BY DEF TypeInv
<1> HIDE DEF st
<1>4. /\ sendMissingUpdates(st, 1).buffer = st.buffer
      /\ sendMissingUpdates(st, 1) \in FiniteStates
      /\ mailsOf(sendMissingUpdates(st, 1)) = mailsOf(st)
  <2>1. sendMissingUpdates(st, 1).buffer = st.buffer
    BY <1>3 DEF sendMissingUpdates, FiniteStates, LocalStates
  <2>2. 1 \in Nat
    OBVIOUS
  <2> QED
    BY <1>3, <2>1, <2>2, SendMissingUpdatesType, ReconcileKeepsIds
<1>5. st1 \in FiniteStates /\ st1.buffer = st.buffer /\ mailsOf(st1) = mailsOf(st)
  BY <1>3, <1>4
<1> HIDE DEF m, st1, echo
<1> QED
  BY <1>1, <1>2, <1>5, ApplyKeepsMade DEF m, st

(* What a step adds to the mails and the history: what a command asks for, *)
(* or an update that was issued before.                                    *)
LEMMA MailSteps ==
    ASSUME TypeInv, LogInv, [Next]_vars
    PROVE  \/ \A t \in Servers : /\ received'[t] = received[t]
                                 /\ mailsOf(local_state'[t]) = mailsOf(local_state[t])
           \/ \E s \in Servers, u \in Updates :
                 /\ u \in issued \/ AsksFor(s, u)
                 /\ received'[s] = received[s] \/ received'[s] = received[s] \cup {u}
                 /\ \A t \in Servers \ {s} : /\ received'[t] = received[t]
                                             /\ local_state'[t] = local_state[t]
                 /\ \A id \in mailsOf(local_state'[s]) :
                       \/ id \in mailsOf(local_state[s])
                       \/ u \in received'[s] /\ u.type = "NEWMAILMSG" /\ id = u.mail
<1> DEFINE Same == \A t \in Servers :
                      /\ received'[t] = received[t]
                      /\ mailsOf(local_state'[t]) = mailsOf(local_state[t])
<1>1. ASSUME NEW s \in Servers, Command(s)
      PROVE  \E u \in Updates :
                 /\ AsksFor(s, u)
                 /\ received'[s] = received[s] \/ received'[s] = received[s] \cup {u}
                 /\ \A t \in Servers \ {s} : /\ received'[t] = received[t]
                                             /\ local_state'[t] = local_state[t]
                 /\ \A id \in mailsOf(local_state'[s]) :
                       \/ id \in mailsOf(local_state[s])
                       \/ u \in received'[s] /\ u.type = "NEWMAILMSG" /\ id = u.mail
  <2>1. PICK u : AsksFor(s, u)
    BY <1>1, CommandAsks
  <2>2. /\ u \in Updates
        /\ local_state' = [local_state EXCEPT ![s] = applyUpdate(local_state[s], s, u)]
        /\ remember(s, local_state[s], u)
    BY <2>1 DEF AsksFor, issueUpdate
  <2>3. local_state[s] \in FiniteStates
    BY DEF TypeInv
  <2> QED
    BY <2>1, <2>2, <2>3, ApplyKeepsMade
<1>2. ASSUME NEW s \in Servers, ReceiveUpdate(s)
      PROVE  LET u == Head(net[s]).update
             IN  /\ u \in Updates /\ u \in issued
                 /\ received'[s] = received[s] \/ received'[s] = received[s] \cup {u}
                 /\ \A t \in Servers \ {s} : /\ received'[t] = received[t]
                                             /\ local_state'[t] = local_state[t]
                 /\ \A id \in mailsOf(local_state'[s]) :
                       \/ id \in mailsOf(local_state[s])
                       \/ u \in received'[s] /\ u.type = "NEWMAILMSG" /\ id = u.mail
  BY <1>2, ReceiveKeepsMade, HeadUpdate DEF ReceiveUpdate
<1>3. ASSUME NEW s \in Servers,
             IgnoreMatrix(s) \/ ReceiveMatrix(s) \/ ReceiveLastMatrix(s)
      PROVE  Same
  <2> DEFINE st == countMatrix(local_state[s], s, Head(net[s]))
             st1 == [st EXCEPT !.status = "SENDINGUPDATES"]
             st2 == continueReconcile(st1, s)
  <2>1. received' = received
    BY <1>3 DEF IgnoreMatrix, ReceiveMatrix, ReceiveLastMatrix
  <2>2. CASE IgnoreMatrix(s)
    BY <2>1, <2>2 DEF IgnoreMatrix
  <2>3. CASE ReceiveMatrix(s) \/ ReceiveLastMatrix(s)
    <3>1. /\ local_state[s] \in FiniteStates /\ local_state \in [Servers -> FiniteStates]
          /\ st \in FiniteStates
      BY <2>3, MatrixType, CountMatrixType
      DEF TypeInv, ReceiveMatrix, ReceiveLastMatrix
    <3>2. mailsOf(st) = mailsOf(local_state[s])
      BY <3>1, ReconcileKeepsIds
    <3>3. CASE ReceiveMatrix(s)
      BY <2>1, <3>1, <3>2, <3>3 DEF ReceiveMatrix
    <3>4. CASE ReceiveLastMatrix(s)
      <4>1. local_state' = [local_state EXCEPT ![s] = sendMissingUpdates(st2, MaxSend)]
        BY <3>4 DEF ReceiveLastMatrix
      <4> HIDE DEF st
      <4>2. st1 \in FiniteStates /\ st1.emails = st.emails
        BY <3>1 DEF FiniteStates, LocalStates, Status
      <4>3. mailsOf(st1) = mailsOf(st)
        BY <4>2 DEF mailsOf
      <4> HIDE DEF st1
      <4>4. st2 \in FiniteStates /\ mailsOf(st2) = mailsOf(st1)
        BY <4>2, ContinueReconcileType, ReconcileKeepsIds
      <4> HIDE DEF st2
      <4>5. mailsOf(sendMissingUpdates(st2, MaxSend)) = mailsOf(local_state[s])
        BY <3>2, <4>3, <4>4, ReconcileKeepsIds, MaxSendAssumption
      <4> QED
        BY <2>1, <3>1, <4>1, <4>5
    <3> QED
      BY <2>3, <3>3, <3>4
  <2> QED
    BY <1>3, <2>2, <2>3
<1>4. ASSUME NEW s \in Servers, ReceiveView(s)
      PROVE  Same
  <2> DEFINE members == Head(net[s]).members
             st == [local_state[s] EXCEPT !.current_membership = members,
                                          !.num_matrix_recvd = 0]
             st1(status) == [st EXCEPT !.status = status]
  <2>1. /\ received' = received
        /\ \E status \in Status : local_state' = [local_state EXCEPT ![s] = st1(status)]
    BY <1>4 DEF ReceiveView, Status
  <2>2. local_state[s] \in LocalStates /\ local_state \in [Servers -> FiniteStates]
    BY DEF TypeInv, TypeOK
  <2>3. \A status \in Status : st1(status).emails = local_state[s].emails
    <3> HIDE DEF members
    <3> QED
      BY <2>2 DEF LocalStates
  <2> HIDE DEF st1
  <2>4. \A t \in Servers : local_state'[t].emails = local_state[t].emails
    BY <2>1, <2>2, <2>3
  <2> QED
    BY <2>1, <2>4 DEF mailsOf
<1>5. CASE \/ \E A, B \in SUBSET Servers : Split(A, B)
           \/ \E s, t \in Servers : Merge(s, t)
           \/ UNCHANGED vars
  BY <1>5 DEF Split, Merge, vars
<1>6. CASE Same
  BY <1>6
<1> HIDE DEF Same
<1> QED
  BY <1>1, <1>2, <1>3, <1>4, <1>5, <1>6 DEF Next, Receive

(* Every step keeps the mails of a server among those it stored the        *)
(* creation of.                                                            *)
LEMMA MailsNext == TypeInv /\ LogInv /\ MailsInv /\ [Next]_vars => MailsInv'
<1> SUFFICES ASSUME TypeInv, LogInv, MailsInv, [Next]_vars PROVE MailsInv'
  OBVIOUS
<1>1. CASE \A t \in Servers : /\ received'[t] = received[t]
                              /\ mailsOf(local_state'[t]) = mailsOf(local_state[t])
  BY <1>1 DEF MailsInv, NewMailsNamed, MailsMade, issued
<1>2. ASSUME NEW s \in Servers, NEW u \in Updates,
             u \in issued \/ AsksFor(s, u),
             received'[s] = received[s] \/ received'[s] = received[s] \cup {u},
             \A t \in Servers \ {s} : /\ received'[t] = received[t]
                                      /\ local_state'[t] = local_state[t],
             \A id \in mailsOf(local_state'[s]) :
                \/ id \in mailsOf(local_state[s])
                \/ u \in received'[s] /\ u.type = "NEWMAILMSG" /\ id = u.mail
      PROVE  MailsInv'
  <2>1. \A v \in issued' : v \in issued \/ v = u
    BY <1>2 DEF issued
  <2>2. u.type = "NEWMAILMSG" => u.mail = idOf(u)
    BY <1>2 DEF AsksFor, MailsInv, NewMailsNamed
  <2>3. NewMailsNamed'
    BY <2>1, <2>2 DEF MailsInv, NewMailsNamed
  <2>4. ASSUME NEW t \in Servers, NEW id \in mailsOf(local_state'[t])
        PROVE  \E v \in received'[t] : v.type = "NEWMAILMSG" /\ idOf(v) = id
    <3>1. CASE t # s
      BY <1>2, <2>4, <3>1 DEF MailsInv, MailsMade
    <3>2. CASE t = s
      BY <1>2, <2>2, <2>4, <3>2 DEF MailsInv, MailsMade
    <3> QED
      BY <3>1, <3>2
  <2> QED
    BY <2>3, <2>4 DEF MailsInv, MailsMade
<1> QED
  BY <1>1, <1>2, MailSteps

-----------------------------------------------------------------------------
(* The network that stays whole.                                           *)

(* All servers are connected, have nothing on its way and the same         *)
(* history, and the network changes no more.                               *)
Together ==
    /\ \A s \in Servers : conn[s] = Servers /\ net[s] = <<>>
    /\ \A s, t \in Servers : received[s] = received[t]
    /\ changes = MaxChanges

(* The update v has reached t or is among the first n messages on their    *)
(* way to t.                                                               *)
reachesBy(t, n, v) ==
    v \in received[t] \/ \E j \in 1 .. n : net[t][j].update = v

(* The same after a step.                                                  *)
reachesThen(t, n, v) ==
    v \in received'[t] \/ \E j \in 1 .. n : net'[t][j].update = v

Creates(v, id) == v.type = "NEWMAILMSG" /\ SameId(v, id)

(* From then on nothing but updates is on its way; what one server has is  *)
(* on its way to all; and a change of a mail is behind its creation.       *)
OnlyUpdates ==
    \A s \in Servers : /\ conn[s] = Servers
                       /\ local_state[s].status = "NORMAL"
                       /\ \A k \in 1 .. Len(net[s]) : net[s][k].type = "UPDATE"

HistoryReachesAll ==
    \A s, t \in Servers : \A v \in received[s] : reachesBy(t, Len(net[t]), v)

ChangesFollow ==
    \A t \in Servers : \A k \in 1 .. Len(net[t]) :
        net[t][k].update.type \in MailChanges =>
            \E v : Creates(v, net[t][k].update.mail) /\ reachesBy(t, k - 1, v)

WholeInv ==
    /\ OnlyUpdates
    /\ HistoryReachesAll
    /\ ChangesFollow
    /\ changes = MaxChanges

LEMMA TogetherIsWhole == Together /\ TypeInv /\ QuietComponentIsNormal => WholeInv
<1> SUFFICES ASSUME Together, TypeInv, QuietComponentIsNormal PROVE WholeInv
  OBVIOUS
<1>1. \A s \in Servers : net[s] = <<>> /\ Len(net[s]) = 0 /\ conn[s] = Servers
  BY DEF Together
<1>2. \A s \in Servers : local_state[s].status = "NORMAL"
  BY <1>1 DEF QuietComponentIsNormal
<1>3. OnlyUpdates
  BY <1>1, <1>2 DEF OnlyUpdates
<1>4. HistoryReachesAll
  BY DEF Together, HistoryReachesAll, reachesBy
<1>5. ChangesFollow
  BY <1>1 DEF ChangesFollow
<1> QED
  BY <1>3, <1>4, <1>5 DEF WholeInv, Together

(* A message appended to every queue, with an update that is in the        *)
(* history of its sender.                                                  *)
LEMMA AppendKeepsWhole ==
    ASSUME TypeInv, WholeInv, NEW s \in Servers, NEW u, NEW m \in Messages,
           m.type = "UPDATE", m.update = u,
           \A t \in Servers : net'[t] = Append(net[t], m),
           \A t \in Servers : local_state'[t].status = "NORMAL",
           received'[s] = received[s] \/ received'[s] = received[s] \cup {u},
           \A t \in Servers \ {s} : received'[t] = received[t],
           u.type \in MailChanges =>
              \E x \in Servers : \E v \in received[x] : Creates(v, u.mail),
           conn' = conn, changes' = changes
    PROVE  WholeInv'
<1>1. \A t \in Servers : /\ Len(net[t]) \in Nat
                         /\ Len(net'[t]) = Len(net[t]) + 1
                         /\ \A k \in 1 .. Len(net[t]) : net'[t][k] = net[t][k]
                         /\ net'[t][Len(net[t]) + 1] = m
  <2> SUFFICES ASSUME NEW t \in Servers
               PROVE  /\ Len(net[t]) \in Nat
                      /\ Len(net'[t]) = Len(net[t]) + 1
                      /\ \A k \in 1 .. Len(net[t]) : net'[t][k] = net[t][k]
                      /\ net'[t][Len(net[t]) + 1] = m
    OBVIOUS
  <2>1. net[t] \in Seq(Messages) /\ net'[t] = Append(net[t], m)
    BY DEF TypeInv, TypeOK
  <2> QED
    BY <2>1, AppendProperties, LenProperties
<1>2. \A t \in Servers : received[t] \subseteq received'[t]
  OBVIOUS
<1>3. ASSUME NEW t \in Servers, NEW n \in 0 .. Len(net[t]), NEW v, reachesBy(t, n, v)
      PROVE  reachesThen(t, n, v)
  BY <1>1, <1>2, <1>3 DEF reachesBy, reachesThen
<1>4. \A t \in Servers : reachesThen(t, Len(net[t]) + 1, u)
  BY <1>1 DEF reachesBy, reachesThen
<1>5. OnlyUpdates'
  <2>1. ASSUME NEW t \in Servers, NEW k \in 1 .. Len(net'[t])
        PROVE  net'[t][k].type = "UPDATE"
    <3>1. k \in 1 .. Len(net[t]) \/ k = Len(net[t]) + 1
      BY <1>1
    <3> QED
      BY <1>1, <3>1 DEF WholeInv, OnlyUpdates
  <2> QED
    BY <2>1 DEF WholeInv, OnlyUpdates
<1>6. HistoryReachesAll'
  <2> SUFFICES ASSUME NEW x \in Servers, NEW t \in Servers, NEW v \in received'[x]
               PROVE  reachesThen(t, Len(net[t]) + 1, v)
    BY <1>1 DEF HistoryReachesAll, reachesBy, reachesThen
  <2>1. CASE v = u
    BY <1>4, <2>1
  <2>2. CASE v \in received[x]
    <3>1. reachesBy(t, Len(net[t]), v)
      BY <2>2 DEF WholeInv, HistoryReachesAll
    <3>2. Len(net[t]) \in 0 .. Len(net[t])
      BY <1>1
    <3>3. reachesThen(t, Len(net[t]), v)
      BY <1>3, <3>1, <3>2
    <3> QED
      BY <1>1, <3>3 DEF reachesBy, reachesThen
  <2> QED
    BY <2>1, <2>2
<1>7. ChangesFollow'
  <2> SUFFICES ASSUME NEW t \in Servers, NEW k \in 1 .. Len(net[t]) + 1,
                      net'[t][k].update.type \in MailChanges
               PROVE  \E v : Creates(v, net'[t][k].update.mail)
                             /\ reachesThen(t, k - 1, v)
    BY <1>1 DEF ChangesFollow, reachesBy, reachesThen
  <2>0. k - 1 \in 0 .. Len(net[t])
    BY <1>1
  <2>1. CASE k = Len(net[t]) + 1
    <3>0. PICK x \in Servers : \E v \in received[x] : Creates(v, u.mail)
      BY <1>1, <2>1
    <3>1. PICK v \in received[x] : Creates(v, u.mail)
      BY <3>0
    <3>2. reachesBy(t, k - 1, v)
      BY <1>1, <2>1, <3>1 DEF WholeInv, HistoryReachesAll
    <3> QED
      BY <1>1, <1>3, <2>0, <2>1, <3>1, <3>2
  <2>2. CASE k \in 1 .. Len(net[t])
    <3>1. net'[t][k] = net[t][k]
      BY <1>1, <2>2
    <3>2. PICK v : Creates(v, net[t][k].update.mail) /\ reachesBy(t, k - 1, v)
      BY <2>2, <3>1 DEF WholeInv, ChangesFollow
    <3> QED
      BY <1>3, <2>0, <3>1, <3>2
  <2> QED
    BY <1>1, <2>1, <2>2
<1> QED
  BY <1>5, <1>6, <1>7 DEF WholeInv

(* A message taken from a queue, with an update that is then in the        *)
(* history of its receiver.                                                *)
LEMMA TakeKeepsWhole ==
    ASSUME TypeInv, WholeInv, NEW s \in Servers, net[s] # <<>>,
           Head(net[s]).update \in issued,
           net' = consume(s),
           \A t \in Servers : local_state'[t].status = "NORMAL",
           received'[s] = received[s] \cup {Head(net[s]).update},
           \A t \in Servers \ {s} : received'[t] = received[t],
           conn' = conn, changes' = changes
    PROVE  WholeInv'
<1> DEFINE u == Head(net[s]).update
<1>1. /\ \A t \in Servers : Len(net[t]) \in Nat
      /\ Head(net[s]) = net[s][1] /\ 1 \in 1 .. Len(net[s])
      /\ Len(net'[s]) = Len(net[s]) - 1
      /\ \A k \in 1 .. Len(net'[s]) : net'[s][k] = net[s][k + 1]
  <2>1. net[s] \in Seq(Messages) /\ net'[s] = Tail(net[s])
    BY DEF TypeInv, TypeOK, consume
  <2>2. \A t \in Servers : Len(net[t]) \in Nat
    BY LenProperties DEF TypeInv, TypeOK
  <2>3. Len(net[s]) > 0
    BY <2>1, <2>2, EmptySeq
  <2> QED
    BY <2>1, <2>2, <2>3, HeadTailProperties
<1>2. \A t \in Servers \ {s} : net'[t] = net[t]
  BY DEF TypeInv, TypeOK, consume
<1>3. \A t \in Servers : received[t] \subseteq received'[t]
  OBVIOUS
<1> HIDE DEF u
<1>4. ASSUME NEW n \in 0 .. Len(net[s]) - 1, NEW v, reachesBy(s, n + 1, v)
      PROVE  reachesThen(s, n, v)
  <2>1. CASE v \in received[s]
    BY <1>3, <2>1 DEF reachesBy, reachesThen
  <2>2. ASSUME NEW j \in 1 .. n + 1, net[s][j].update = v
        PROVE  reachesThen(s, n, v)
    <3>1. CASE j = 1
      BY <1>1, <2>2, <3>1 DEF reachesBy, reachesThen, u
    <3>2. CASE j # 1
      <4>1. j - 1 \in 1 .. n /\ j - 1 \in 1 .. Len(net'[s]) /\ (j - 1) + 1 = j
        BY <1>1, <2>2, <3>2
      <4>2. net'[s][j - 1] = net[s][j]
        BY <1>1, <4>1
      <4> QED
        BY <2>2, <4>1, <4>2 DEF reachesBy, reachesThen
    <3> QED
      BY <3>1, <3>2
  <2> QED
    BY <1>4, <2>1, <2>2 DEF reachesBy, reachesThen
<1>5. ASSUME NEW t \in Servers \ {s}, NEW n, NEW v, reachesBy(t, n, v)
      PROVE  reachesThen(t, n, v)
  BY <1>2, <1>5 DEF reachesBy, reachesThen
<1>6. ASSUME NEW t \in Servers, NEW v, reachesBy(t, Len(net[t]), v)
      PROVE  reachesThen(t, Len(net'[t]), v)
  <2>1. CASE t = s
    <3>1. Len(net[s]) - 1 \in 0 .. Len(net[s]) - 1 /\ (Len(net[s]) - 1) + 1 = Len(net[s])
      BY <1>1
    <3>2. reachesThen(s, Len(net[s]) - 1, v)
      BY <1>4, <1>6, <2>1, <3>1
    <3> QED
      BY <1>1, <2>1, <3>2
  <2>2. CASE t # s
    BY <1>2, <1>5, <1>6, <2>2
  <2> QED
    BY <2>1, <2>2
<1>7. OnlyUpdates'
  <2>1. ASSUME NEW t \in Servers, NEW k \in 1 .. Len(net'[t])
        PROVE  net'[t][k].type = "UPDATE"
    <3>1. CASE t = s
      <4>1. k + 1 \in 1 .. Len(net[s]) /\ net'[t][k] = net[s][k + 1]
        BY <1>1, <2>1, <3>1
      <4> QED
        BY <4>1 DEF WholeInv, OnlyUpdates
    <3>2. CASE t # s
      BY <1>2, <2>1, <3>2 DEF WholeInv, OnlyUpdates
    <3> QED
      BY <3>1, <3>2
  <2> QED
    BY <2>1 DEF WholeInv, OnlyUpdates
<1>8. HistoryReachesAll'
  <2> SUFFICES ASSUME NEW x \in Servers, NEW t \in Servers, NEW v \in received'[x]
               PROVE  reachesThen(t, Len(net'[t]), v)
    BY DEF HistoryReachesAll, reachesBy, reachesThen
  <2>1. v \in issued
    BY DEF issued
  <2>2. reachesBy(t, Len(net[t]), v)
    BY <2>1 DEF issued, WholeInv, HistoryReachesAll
  <2> QED
    BY <1>6, <2>2
<1>9. ChangesFollow'
  <2> SUFFICES ASSUME NEW t \in Servers, NEW k \in 1 .. Len(net'[t]),
                      net'[t][k].update.type \in MailChanges
               PROVE  \E v : Creates(v, net'[t][k].update.mail)
                             /\ reachesThen(t, k - 1, v)
    BY DEF ChangesFollow, reachesBy, reachesThen
  <2>1. CASE t = s
    <3>0. k \in 1 .. Len(net[s]) - 1 /\ net'[t][k] = net[s][k + 1]
      BY <1>1, <2>1
    <3>1. /\ k + 1 \in 1 .. Len(net[s]) /\ net'[t][k] = net[s][k + 1]
          /\ (k + 1) - 1 = (k - 1) + 1 /\ k - 1 \in 0 .. Len(net[s]) - 1
      BY <1>1, <3>0
    <3>2. PICK v : Creates(v, net[s][k + 1].update.mail) /\ reachesBy(s, (k - 1) + 1, v)
      BY <3>1 DEF WholeInv, ChangesFollow
    <3> QED
      BY <1>4, <2>1, <3>1, <3>2
  <2>2. CASE t # s
    <3>1. net'[t] = net[t]
      BY <1>2, <2>2
    <3>2. PICK v : Creates(v, net[t][k].update.mail) /\ reachesBy(t, k - 1, v)
      BY <3>1 DEF WholeInv, ChangesFollow
    <3> QED
      BY <1>5, <2>2, <3>1, <3>2
  <2> QED
    BY <2>1, <2>2
<1> QED
  BY <1>7, <1>8, <1>9 DEF WholeInv

(* A server takes no other server's change of a mail before the update     *)
(* that created the mail.                                                  *)
ChangesWait ==
    \A s \in Servers :
        \A u \in received'[s] \ received[s] :
            u.type \in MailChanges /\ u.procID # s =>
               \E v \in received[s] : Creates(v, u.mail)

(* A command, by a client with the list of any server.                     *)
LEMMA CommandWhole ==
    ASSUME TypeInv, LogInv, MailsInv, WholeInv, NEW s \in Servers, Command(s)
    PROVE  WholeInv' /\ ChangesWait
<1>1. PICK u : AsksFor(s, u)
  BY CommandAsks
<1>2. /\ u \in Updates /\ u.procID = s
      /\ local_state' = [local_state EXCEPT ![s] = applyUpdate(local_state[s], s, u)]
      /\ remember(s, local_state[s], u)
      /\ UNCHANGED <<conn, changes>>
  BY <1>1 DEF AsksFor, issueUpdate
<1>3. local_state[s] \in FiniteStates
  BY DEF TypeInv
<1>4. /\ received'[s] = received[s] \/ received'[s] = received[s] \cup {u}
      /\ \A t \in Servers \ {s} : /\ received'[t] = received[t]
                                  /\ local_state'[t] = local_state[t]
  BY <1>2, <1>3, ApplyKeepsMade
<1>5. \A t \in Servers : local_state'[t].status = "NORMAL"
  <2>1. local_state'[s].status = local_state[s].status
    BY <1>2, <1>3, ApplyUpdateControl DEF TypeInv
  <2> QED
    BY <1>4, <2>1 DEF WholeInv, OnlyUpdates
<1>6. ASSUME u.type \in MailChanges
      PROVE  \E x \in Servers : \E v \in received[x] : Creates(v, u.mail)
  <2>1. PICK user \in Users : u.mail \in listed(user)
    BY <1>1, <1>6 DEF AsksFor
  <2>0. PICK x \in Servers :
           \E i \in DOMAIN local_state[x].emails[user] :
              u.mail = idOf(local_state[x].emails[user][i])
    BY <2>1 DEF listed, idOf
  <2>2. PICK i \in DOMAIN local_state[x].emails[user] :
           u.mail = idOf(local_state[x].emails[user][i])
    BY <2>0
  <2>3. i \in 1 .. Len(local_state[x].emails[user])
    <3>1. local_state[x].emails[user] \in Seq(Mails)
      BY DEF TypeInv, FiniteStates, LocalStates
    <3> QED
      BY <2>2, <3>1, LenProperties
  <2>4. u.mail \in mailsOf(local_state[x])
    BY <2>2, <2>3 DEF mailsOf, idSet
  <2>5. PICK v \in received[x] : v.type = "NEWMAILMSG" /\ idOf(v) = u.mail
    BY <2>4 DEF MailsInv, MailsMade
  <2>6. SameId(v, u.mail)
    BY <2>5 DEF SameId, idOf
  <2> QED
    BY <2>5, <2>6 DEF Creates
<1>7. \E m \in Messages :
         /\ m.type = "UPDATE" /\ m.update = u
         /\ \A t \in Servers : net'[t] = Append(net[t], m)
  <2> DEFINE msg(junk) == [type |-> "UPDATE", from |-> s, proc_num |-> junk,
                           update |-> u, resent |-> FALSE]
  <2>1. PICK junk \in HeaderJunk : net' = multicast(net, s, <<msg(junk)>>)
    BY <1>1 DEF AsksFor, issueUpdate
  <2>2. /\ msg(junk) \in Messages
        /\ msg(junk).type = "UPDATE" /\ msg(junk).update = u
    BY <1>2, HeaderJunkAssumption DEF Messages, UpdateMessages
  <2> HIDE DEF msg
  <2>3. \A t \in Servers : net'[t] = net[t] \o <<msg(junk)>>
    BY <2>1 DEF multicast, WholeInv, OnlyUpdates
  <2>4. \A t \in Servers : net[t] \in Seq(Messages)
    BY DEF TypeInv, TypeOK
  <2>5. \A t \in Servers : net'[t] = Append(net[t], msg(junk))
    BY <2>2, <2>3, <2>4, AppendIsConcat
  <2> QED
    BY <2>2, <2>5
<1>8. WholeInv'
  BY <1>2, <1>4, <1>5, <1>6, <1>7, AppendKeepsWhole
<1>9. ChangesWait
  BY <1>2, <1>4 DEF ChangesWait
<1> QED
  BY <1>8, <1>9

(* An update that arrives.                                                 *)
LEMMA ReceiveWhole ==
    ASSUME TypeInv, LogInv, WholeInv, NEW s \in Servers, ReceiveUpdate(s)
    PROVE  WholeInv' /\ ChangesWait
<1> DEFINE u == Head(net[s]).update
<1>1. /\ net[s] # <<>> /\ u \in Updates /\ u \in issued
      /\ UNCHANGED <<conn, changes>>
  BY HeadUpdate DEF ReceiveUpdate
<1>2. /\ received'[s] = received[s] \/ received'[s] = received[s] \cup {u}
      /\ Known(s, u) \/ u \in received'[s]
      /\ \A t \in Servers \ {s} : /\ received'[t] = received[t]
                                  /\ local_state'[t] = local_state[t]
  BY ReceiveKeepsMade
<1>3. local_state[s].status = "NORMAL"
  BY DEF WholeInv, OnlyUpdates
<1>4. /\ local_state' = [local_state EXCEPT ![s] = applyUpdate(local_state[s], s, u)]
      /\ \E msgs \in batches(s, {}) : net' = multicast(consume(s), s, msgs)
  BY <1>3 DEF ReceiveUpdate
<1> HIDE DEF u
<1>5. received'[s] = received[s] \cup {u}
  <2>1. CASE Known(s, u)
    <3>1. PICK w \in local_state[s].buffer : SameId(w, u)
      BY <2>1 DEF Known, findUpdate, SameId
    <3>2. w \in received[s]
      BY DEF LogInv, BufferReceived
    <3>3. w = u
      BY <1>1, <3>1, <3>2 DEF LogInv, StampsUnique, issued
    <3> QED
      BY <1>2, <3>2, <3>3
  <2>2. CASE u \in received'[s]
    BY <1>2, <2>2
  <2> QED
    BY <1>2, <2>1, <2>2
<1>6. \A t \in Servers : local_state'[t].status = "NORMAL"
  <2>1. local_state[s] \in FiniteStates
    BY DEF TypeInv
  <2>2. local_state'[s].status = local_state[s].status
    BY <1>1, <1>4, <2>1, ApplyUpdateControl DEF TypeInv
  <2> QED
    BY <1>2, <2>2 DEF WholeInv, OnlyUpdates
<1>7. net' = consume(s)
  <2>1. PICK msgs \in batches(s, {}) : net' = multicast(consume(s), s, msgs)
    BY <1>4
  <2>2. msgs = <<>>
    <3>1. msgs \in Seq(Messages) /\ \A k \in 1 .. Len(msgs) : \E x \in {} : TRUE
      BY BatchType, FS_EmptySet
    <3> QED
      BY <3>1, EmptySeq
  <2>3. consume(s) \in [Servers -> Seq(Messages)]
    BY <1>1, DeliveryType
  <2>4. \A t \in Servers : consume(s)[t] \o <<>> = consume(s)[t]
    BY <2>3, ConcatEmptySeq
  <2>5. net' = [t \in Servers |-> consume(s)[t]]
    BY <2>1, <2>2, <2>4 DEF multicast
  <2> QED
    BY <2>3, <2>5
<1>8. WholeInv'
  BY <1>1, <1>2, <1>5, <1>6, <1>7, TakeKeepsWhole DEF u
<1>9. ASSUME u.type \in MailChanges
      PROVE  \E v \in received[s] : Creates(v, u.mail)
  <2>1. 1 \in 1 .. Len(net[s]) /\ Head(net[s]) = net[s][1]
    <3>1. net[s] \in Seq(Messages)
      BY DEF TypeInv, TypeOK
    <3> QED
      BY <1>1, <3>1, EmptySeq
  <2>2. net[s][1].update = u
    BY <2>1 DEF u
  <2>3. PICK v : Creates(v, u.mail) /\ reachesBy(s, 1 - 1, v)
    BY <1>9, <2>1, <2>2 DEF WholeInv, ChangesFollow
  <2> QED
    BY <2>3 DEF reachesBy
<1>10. ChangesWait
  BY <1>2, <1>5, <1>9 DEF ChangesWait
<1> QED
  BY <1>8, <1>10

(* Every step of a network that stays whole.                               *)
LEMMA WholeNext ==
    TypeInv /\ LogInv /\ MailsInv /\ WholeInv /\ [Next]_vars
       => WholeInv' /\ ChangesWait
<1> SUFFICES ASSUME TypeInv, LogInv, MailsInv, WholeInv, [Next]_vars
             PROVE  WholeInv' /\ ChangesWait
  OBVIOUS
<1>1. CASE \E s \in Servers : Command(s)
  BY <1>1, CommandWhole
<1>2. CASE \E s \in Servers : ReceiveUpdate(s)
  BY <1>2, ReceiveWhole
<1>3. ASSUME NEW s \in Servers, NEW type, type # "UPDATE"
      PROVE  ~ delivers(s, type)
  <2>1. SUFFICES ASSUME net[s] # <<>> PROVE Head(net[s]).type = "UPDATE"
    BY <1>3 DEF delivers
  <2>2. net[s] \in Seq(Messages)
    BY DEF TypeInv, TypeOK
  <2>3. 1 \in 1 .. Len(net[s]) /\ Head(net[s]) = net[s][1]
    BY <2>1, <2>2, EmptySeq
  <2> QED
    BY <2>3 DEF WholeInv, OnlyUpdates
<1>4. \A s \in Servers : ~ (\/ IgnoreMatrix(s) \/ ReceiveMatrix(s)
                            \/ ReceiveLastMatrix(s) \/ ReceiveView(s))
  <2>1. \A s \in Servers : ~ delivers(s, "MATRIX") /\ ~ delivers(s, "VIEW")
    BY <1>3
  <2> QED
    BY <2>1 DEF IgnoreMatrix, ReceiveMatrix, ReceiveLastMatrix, ReceiveView
<1>5. /\ \A A, B \in SUBSET Servers : ~ Split(A, B)
      /\ \A s, t \in Servers : ~ Merge(s, t)
  BY BoundsAssumption DEF WholeInv, Split, Merge
<1>6. CASE UNCHANGED vars
  BY <1>6 DEF vars, WholeInv, OnlyUpdates, HistoryReachesAll, ChangesFollow,
     reachesBy, ChangesWait
<1> QED
  BY <1>1, <1>2, <1>4, <1>5, <1>6 DEF Next, Receive

(* In every run, from any moment on at which all servers are connected,    *)
(* quiet and of the same history and after which the network changes no    *)
(* more (MaxChanges is any number, so that any such moment is covered), a  *)
(* server applies another server's read or delete only after the update    *)
(* that created its mail, also when the client reads the list of a server  *)
(* it was connected to before: Spread's order carries what applyUpdate     *)
(* does not check.  The moment matters: before it, while servers that were *)
(* apart exchange updates, the statement is false.                         *)
THEOREM MailAlwaysBeforeItsChanges ==
    Spec => [](Together => MailBeforeItsChanges)
<1>1. Spec => [](TypeInv /\ LogInv /\ MailsInv)
  BY TypeInit, TypeNext, LogInit, LogNext, MailsInit, MailsNext, PTL DEF Spec
<1>2. Together /\ TypeInv /\ QuietComponentIsNormal => WholeInv
  BY TogetherIsWhole
<1>3. TypeInv /\ LogInv /\ MailsInv /\ WholeInv /\ [Next]_vars
        => WholeInv' /\ ChangesWait
  BY WholeNext
<1>4. ChangesWait
        => \A s \in Servers :
             \A u \in received'[s] \ received[s] :
                u.type \in {"DELETEMAILMSG", "READMAILMSG"} /\ u.procID # s =>
                   \E v \in received[s] : v.type = "NEWMAILMSG" /\ SameId(v, u.mail)
  BY DEF ChangesWait, MailChanges, Creates
<1>5. Spec => [][Next]_vars
  BY PTL DEF Spec
<1> QED
  BY <1>1, <1>2, <1>3, <1>4, <1>5, QuietAlwaysNormal, PTL DEF MailBeforeItsChanges

-----------------------------------------------------------------------------
(* The flow of resent updates.  The theorem about it counts the messages   *)
(* of a queue that are of a kind.                                          *)

hitsAt(q, S) == {k \in DOMAIN q : q[k] \in S}

hits(q, S) == Cardinality(hitsAt(q, S))

(* Messages of a kind are finitely many.                                   *)
LEMMA HitsType ==
    ASSUME NEW q \in Seq(Messages), NEW S
    PROVE  /\ hitsAt(q, S) \subseteq 1 .. Len(q)
           /\ IsFiniteSet(hitsAt(q, S))
           /\ hits(q, S) \in Nat /\ hits(q, S) <= Len(q)
           /\ (\A k \in 1 .. Len(q) : q[k] \notin S) => hits(q, S) = 0
<1>1. Len(q) \in Nat /\ DOMAIN q = 1 .. Len(q)
  BY LenProperties
<1>2. hitsAt(q, S) \subseteq 1 .. Len(q)
  BY <1>1 DEF hitsAt
<1>3. IsFiniteSet(1 .. Len(q)) /\ Cardinality(1 .. Len(q)) = Len(q)
  BY <1>1, FS_Interval
<1>4. /\ IsFiniteSet(hitsAt(q, S))
      /\ hits(q, S) \in Nat /\ hits(q, S) <= Len(q)
  BY <1>2, <1>3, FS_Subset, FS_CardinalityType DEF hits
<1>5. ASSUME \A k \in 1 .. Len(q) : q[k] \notin S
      PROVE  hits(q, S) = 0
  <2>1. hitsAt(q, S) = {}
    BY <1>1, <1>5 DEF hitsAt
  <2> QED
    BY <2>1, FS_EmptySet DEF hits
<1> QED
  BY <1>2, <1>4, <1>5

(* The messages of two queues, one behind the other, add up.               *)
LEMMA HitsConcat ==
    ASSUME NEW q \in Seq(Messages), NEW e \in Seq(Messages), NEW S
    PROVE  hits(q \o e, S) = hits(q, S) + hits(e, S)
<1> DEFINE r == q \o e
           n == Len(q)
           F == hitsAt(q, S)
           E == hitsAt(e, S)
           M == {k \in hitsAt(r, S) : k > n}
           f == [k \in E |-> n + k]
<1>1. /\ n \in Nat /\ DOMAIN q = 1 .. n
      /\ Len(e) \in Nat /\ DOMAIN e = 1 .. Len(e)
      /\ r \in Seq(Messages) /\ DOMAIN r = 1 .. n + Len(e)
      /\ \A i \in 1 .. n + Len(e) : r[i] = IF i <= n THEN q[i] ELSE e[i - n]
  BY LenProperties, ConcatProperties
<1> HIDE DEF r, n
<1>2. /\ IsFiniteSet(F) /\ F \subseteq 1 .. n
      /\ IsFiniteSet(E) /\ E \subseteq 1 .. Len(e)
      /\ IsFiniteSet(hitsAt(r, S)) /\ hitsAt(r, S) \subseteq 1 .. n + Len(e)
  <2>1. hitsAt(r, S) \subseteq DOMAIN r
    BY DEF hitsAt
  <2> QED
    BY <1>1, <2>1, HitsType DEF n
<1>3. hitsAt(r, S) = F \cup M
  <2>1. \A k \in F : k \in 1 .. n + Len(e) /\ k <= n /\ q[k] \in S
    BY <1>1, <1>2 DEF hitsAt
  <2>2. \A k \in hitsAt(r, S) : k \in 1 .. n + Len(e) /\ r[k] \in S
    BY <1>2 DEF hitsAt
  <2>3. F \subseteq hitsAt(r, S)
    BY <1>1, <2>1 DEF hitsAt
  <2>4. \A k \in hitsAt(r, S) : ~ (k > n) => k \in F
    <3>1. ASSUME NEW k \in hitsAt(r, S), ~ (k > n) PROVE k \in F
      <4>1. k \in 1 .. n /\ r[k] = q[k]
        BY <1>1, <2>2, <3>1
      <4> QED
        BY <1>1, <2>2, <4>1 DEF hitsAt
    <3> QED
      BY <3>1
  <2> QED
    BY <2>3, <2>4
<1>4. F \cap M = {}
  <2>1. \A k \in F : k \in 1 .. n
    BY <1>2
  <2> QED
    BY <1>1, <2>1
<1>5. IsFiniteSet(M)
  BY <1>2, FS_Subset
<1>6. \A k \in E : n + k \in M
  <2>1. ASSUME NEW k \in E PROVE n + k \in M
    <3>1. k \in 1 .. Len(e) /\ e[k] \in S
      BY <1>2 DEF hitsAt
    <3>2. n + k \in 1 .. n + Len(e) /\ n + k > n /\ ~ (n + k <= n) /\ (n + k) - n = k
      BY <1>1, <3>1
    <3> QED
      BY <1>1, <3>1, <3>2 DEF hitsAt
  <2> QED
    BY <2>1
<1>7. \A k \in M : k - n \in E /\ n + (k - n) = k
  <2>1. ASSUME NEW k \in M PROVE k - n \in E /\ n + (k - n) = k
    <3>1. k \in 1 .. n + Len(e) /\ k > n /\ r[k] \in S
      BY <1>2 DEF hitsAt
    <3>2. k - n \in 1 .. Len(e) /\ ~ (k <= n) /\ n + (k - n) = k
      BY <1>1, <3>1
    <3> QED
      BY <1>1, <3>1, <3>2 DEF hitsAt
  <2> QED
    BY <2>1
<1> HIDE DEF F, E, M
<1>8. f \in Bijection(E, M)
  <2>1. f \in [E -> M]
    BY <1>6
  <2>2. \A a, b \in E : f[a] = f[b] => a = b
    BY <1>1, <1>2
  <2>3. \A b \in M : \E a \in E : f[a] = b
    BY <1>7
  <2> QED
    BY <2>1, <2>2, <2>3 DEF Bijection, Injection, Surjection, IsInjective
<1>9. Cardinality(M) = Cardinality(E)
  BY <1>2, <1>8, FS_Bijection DEF ExistsBijection
<1>10. Cardinality(F \cup M) = Cardinality(F) + Cardinality(M)
  <2>1. /\ Cardinality(F \cup M) = Cardinality(F) + Cardinality(M) - Cardinality(F \cap M)
        /\ Cardinality(F \cap M) = 0
        /\ Cardinality(F) \in Nat /\ Cardinality(M) \in Nat
    BY <1>2, <1>4, <1>5, FS_Union, FS_EmptySet, FS_CardinalityType
  <2> QED
    BY <2>1
<1> QED
  BY <1>3, <1>9, <1>10 DEF hits, r, F, E

(* One message.                                                            *)
LEMMA HitsOne ==
    ASSUME NEW m \in Messages, NEW S
    PROVE  <<m>> \in Seq(Messages) /\ hits(<<m>>, S) = IF m \in S THEN 1 ELSE 0
<1>1. <<m>> \in Seq(Messages) /\ DOMAIN <<m>> = {1} /\ <<m>>[1] = m
  OBVIOUS
<1>2. hitsAt(<<m>>, S) = IF m \in S THEN {1} ELSE {}
  BY <1>1 DEF hitsAt
<1> QED
  BY <1>1, <1>2, FS_EmptySet, FS_Singleton DEF hits

(* The head of a queue and what it leaves.                                 *)
LEMMA HitsTail ==
    ASSUME NEW q \in Seq(Messages), q # <<>>, NEW S
    PROVE  hits(q, S) = hits(Tail(q), S) + IF Head(q) \in S THEN 1 ELSE 0
<1>1. Head(q) \in Messages /\ Tail(q) \in Seq(Messages) /\ q = <<Head(q)>> \o Tail(q)
  BY HeadTailProperties
<1>2. <<Head(q)>> \in Seq(Messages)
  BY <1>1
<1>3. hits(<<Head(q)>> \o Tail(q), S) = hits(<<Head(q)>>, S) + hits(Tail(q), S)
  BY <1>1, <1>2, HitsConcat
<1>4. hits(<<Head(q)>>, S) = IF Head(q) \in S THEN 1 ELSE 0
  BY <1>1, HitsOne
<1>5. hits(Tail(q), S) \in Nat
  BY <1>1, HitsType
<1>6. hits(q, S) = hits(<<Head(q)>> \o Tail(q), S)
  BY <1>1, Zenon
<1> QED
  BY <1>3, <1>4, <1>5, <1>6

-----------------------------------------------------------------------------
(* The queues of a component end alike, up to the last view of each: that  *)
(* is what Split makes use of.                                             *)

sameTail(q, r) ==
    \A d \in Nat : Len(q) - d \in since(q) /\ Len(r) - d \in since(r) =>
                     q[Len(q) - d] = r[Len(r) - d]

SameTails == \A s \in Servers : \A t \in conn[s] : sameTail(net[s], net[t])

(* What is new of a queue without its head.                                *)
LEMMA SinceTail ==
    ASSUME NEW q \in Seq(Messages), q # <<>>, NEW k \in 1 .. Len(Tail(q)),
           k \in since(Tail(q))
    PROVE  k + 1 \in since(q) /\ Tail(q)[k] = q[k + 1]
<1> DEFINE r == Tail(q)
           n == Len(r)
<1>1. /\ r \in Seq(Messages) /\ n \in Nat /\ Len(q) = n + 1
      /\ DOMAIN q = 1 .. n + 1
      /\ \A i \in 1 .. n : r[i] = q[i + 1]
  <2>1. /\ r \in Seq(Messages) /\ Len(q) \in Nat /\ n = Len(q) - 1
        /\ \A i \in 1 .. n : r[i] = q[i + 1]
    BY HeadTailProperties, LenProperties
  <2>2. n \in Nat
    BY <2>1, LenProperties
  <2> HIDE DEF r, n
  <2> QED
    BY <2>1, <2>2, LenProperties
<1>2. k \in 1 .. n /\ \A j \in k .. n : ~ IsView(r[j])
  BY DEF since
<1> HIDE DEF r, n
<1>3. ASSUME NEW j \in k + 1 .. n + 1 PROVE ~ IsView(q[j])
  <2>1. j - 1 \in k .. n /\ j - 1 \in 1 .. n /\ (j - 1) + 1 = j
    BY <1>1, <1>2
  <2> QED
    BY <1>1, <1>2, <2>1
<1>4. k + 1 \in 1 .. n + 1
  BY <1>1, <1>2
<1> QED
  BY <1>1, <1>2, <1>3, <1>4 DEF since, r

(* The head of a queue may go.                                             *)
LEMMA SameTailConsumed ==
    ASSUME NEW q \in Seq(Messages), q # <<>>, NEW r \in Seq(Messages), sameTail(q, r)
    PROVE  sameTail(Tail(q), r) /\ sameTail(r, Tail(q))
<1>1. SUFFICES ASSUME NEW d \in Nat, Len(Tail(q)) - d \in since(Tail(q)), Len(r) - d \in since(r)
               PROVE  Tail(q)[Len(Tail(q)) - d] = r[Len(r) - d]
  BY Zenon DEF sameTail
<1>2. Tail(q) \in Seq(Messages) /\ Len(Tail(q)) = Len(q) - 1 /\ Len(q) \in Nat
  BY HeadTailProperties, LenProperties
<1>3. Len(Tail(q)) - d \in 1 .. Len(Tail(q))
  BY <1>1, <1>2, SinceFinite
<1>4. (Len(Tail(q)) - d) + 1 = Len(q) - d
  BY <1>2
<1>5. Len(q) - d \in since(q) /\ Tail(q)[Len(Tail(q)) - d] = q[Len(q) - d]
  BY <1>1, <1>3, <1>4, SinceTail
<1> QED
  BY <1>1, <1>5 DEF sameTail

(* The same messages may come behind both queues.                          *)
LEMMA SameTailAppended ==
    ASSUME NEW q \in Seq(Messages), NEW r \in Seq(Messages), NEW e \in Seq(Messages),
           noView(e), sameTail(q, r)
    PROVE  sameTail(q \o e, r \o e)
<1>1. ASSUME NEW x \in Seq(Messages), NEW d \in Nat, Len(x \o e) - d \in since(x \o e)
      PROVE  /\ Len(x) \in Nat /\ Len(e) \in Nat /\ Len(x \o e) = Len(x) + Len(e)
             /\ d < Len(e) => (x \o e)[Len(x \o e) - d] = e[Len(e) - d]
             /\ ~ (d < Len(e)) =>
                  /\ Len(x) - (d - Len(e)) \in since(x)
                  /\ (x \o e)[Len(x \o e) - d] = x[Len(x) - (d - Len(e))]
  <2>1. /\ Len(x) \in Nat /\ Len(e) \in Nat /\ Len(x \o e) = Len(x) + Len(e)
        /\ \A i \in 1 .. Len(x) + Len(e) :
              (x \o e)[i] = IF i <= Len(x) THEN x[i] ELSE e[i - Len(x)]
    BY LenProperties, ConcatProperties
  <2>2. /\ since(x \o e) = since(x) \cup (Len(x) + 1 .. Len(x) + Len(e))
        /\ since(x) \subseteq 1 .. Len(x)
    BY SinceAppend, SinceFinite
  <2> DEFINE k == Len(x) + Len(e) - d
  <2>3. k \in since(x) \cup (Len(x) + 1 .. Len(x) + Len(e))
    BY <1>1, <2>1, <2>2
  <2>4. ASSUME d < Len(e)
        PROVE  (x \o e)[k] = e[Len(e) - d]
    <3>1. k \in 1 .. Len(x) + Len(e) /\ ~ (k <= Len(x)) /\ k - Len(x) = Len(e) - d
      BY <2>1, <2>4
    <3> HIDE DEF k
    <3> QED
      BY <2>1, <3>1
  <2>5. ASSUME ~ (d < Len(e))
        PROVE  /\ Len(x) - (d - Len(e)) \in since(x)
               /\ (x \o e)[k] = x[Len(x) - (d - Len(e))]
    <3>1. k <= Len(x) /\ Len(x) - (d - Len(e)) = k
      BY <2>1, <2>5
    <3>2. k \in since(x)
      BY <2>1, <2>3, <3>1
    <3>3. k \in 1 .. Len(x) + Len(e)
      BY <2>1, <2>2, <3>2
    <3> HIDE DEF k
    <3> QED
      BY <2>1, <3>1, <3>2, <3>3
  <2>6. Len(x \o e) - d = k
    BY <2>1
  <2> HIDE DEF k
  <2> QED
    BY <2>1, <2>4, <2>5, <2>6
<1>2. SUFFICES ASSUME NEW d \in Nat, Len(q \o e) - d \in since(q \o e),
                      Len(r \o e) - d \in since(r \o e)
               PROVE  (q \o e)[Len(q \o e) - d] = (r \o e)[Len(r \o e) - d]
  BY DEF sameTail
<1>3. CASE d < Len(e)
  BY <1>1, <1>2, <1>3
<1>4. CASE ~ (d < Len(e))
  <2>1. d - Len(e) \in Nat
    BY <1>1, <1>2, <1>4
  <2>2. q[Len(q) - (d - Len(e))] = r[Len(r) - (d - Len(e))]
    BY <1>1, <1>2, <1>4, <2>1 DEF sameTail
  <2> QED
    BY <1>1, <1>2, <1>4, <2>2
<1> QED
  BY <1>3, <1>4

(* As many messages as are new are the last of the queue.                  *)
LEMMA LastAreNew ==
    ASSUME TypeInv, NEW t \in Servers, NEW k \in Nat, k <= sinceView(t)
    PROVE  /\ k <= Len(net[t])
           /\ \A d \in 0 .. k - 1 : Len(net[t]) - d \in since(net[t])
<1> DEFINE q == net[t]
           n == Len(q)
<1>1. q \in Seq(Messages) /\ n \in Nat /\ DOMAIN q = 1 .. n
  BY LenProperties DEF TypeInv, TypeOK
<1>2. k <= n
  BY <1>1, SinceViewBound
<1>3. sinceView(t) = Cardinality(since(q))
  BY DEF sinceView, since
<1> HIDE DEF q
<1>4. SUFFICES ASSUME NEW d \in 0 .. k - 1, n - d \notin since(q) PROVE FALSE
  BY <1>2 DEF q
<1>5. since(q) \subseteq n - d + 1 .. n
  <2>1. SUFFICES ASSUME NEW i \in since(q), i <= n - d PROVE FALSE
    BY <1>1, SinceFinite
  <2>2. n - d \in 1 .. n /\ \A j \in n - d .. n : ~ IsView(q[j])
    BY <1>1, <2>1, SinceFinite DEF since
  <2> QED
    BY <1>1, <1>4, <2>2 DEF since
<1>6. /\ IsFiniteSet(n - d + 1 .. n)
      /\ Cardinality(n - d + 1 .. n) = d
  <2>1. n - d + 1 \in Int /\ n \in Int
    BY <1>1
  <2> HIDE DEF n
  <2>2. /\ IsFiniteSet(n - d + 1 .. n)
        /\ Cardinality(n - d + 1 .. n) = IF n - d + 1 > n THEN 0 ELSE n - (n - d + 1) + 1
    BY <2>1, FS_Interval
  <2> QED
    BY <2>1, <2>2
<1>7. Cardinality(since(q)) <= d
  BY <1>5, <1>6, FS_Subset
<1>8. sinceView(t) \in Nat
  BY SinceViewBound
<1> QED
  BY <1>3, <1>4, <1>7, <1>8

(* What a split leaves of the queue of x, a server of the group: the       *)
(* survivors are taken from the queue of s, and x has them as well.        *)
LEMMA SurvivorHits ==
    ASSUME TypeInv, SameTails, NEW group \in SUBSET Servers,
           NEW s \in group, NEW x \in group, x \in conn[s],
           NEW k \in Nat, mayLose(group, k), NEW a \in survivors(group, s, k), NEW S
    PROVE  /\ cut(x, k) \o a \in Seq(Messages)
           /\ hits(cut(x, k) \o a, S) <= hits(net[x], S)
<1> DEFINE q == net[x]
           n == Len(net[x])
           m == Len(net[s])
           l == n - k
           kept == {i \in m - k + 1 .. m : net[s][i].from \in group}
           c == Cardinality(kept)
           r == cut(x, k) \o a
<1>1. /\ k <= n /\ k <= m /\ n \in Nat /\ m \in Nat /\ l \in Nat
      /\ q \in Seq(Messages) /\ DOMAIN q = 1 .. n
      /\ net[s] \in Seq(Messages)
  <2>1. k <= sinceView(x) /\ k <= sinceView(s) /\ x \in Servers /\ s \in Servers
    BY DEF mayLose
  <2>2. k <= n /\ k <= m
    BY <2>1, LastAreNew
  <2> QED
    BY <2>2, LenProperties DEF TypeInv, TypeOK
<1>2. ASSUME NEW i \in m - k + 1 .. m
      PROVE  /\ n - (m - i) \in l + 1 .. n
             /\ q[n - (m - i)] = net[s][i]
  <2>1. m - i \in 0 .. k - 1 /\ m - i \in Nat /\ m - (m - i) = i
    BY <1>1
  <2>2. k <= sinceView(x) /\ k <= sinceView(s) /\ x \in Servers /\ s \in Servers
    BY DEF mayLose
  <2>3. n - (m - i) \in since(q) /\ m - (m - i) \in since(net[s])
    BY <2>1, <2>2, LastAreNew
  <2>4. sameTail(net[s], q)
    BY <2>2 DEF SameTails
  <2>5. q[n - (m - i)] = net[s][m - (m - i)]
    BY <2>1, <2>3, <2>4 DEF sameTail
  <2> HIDE DEF n, m, q
  <2>6. n - (m - i) \in l + 1 .. n
    BY <1>1
  <2> QED
    BY <2>1, <2>5, <2>6
<1>3. /\ cut(x, k) \in Seq(Messages) /\ Len(cut(x, k)) = l
      /\ \A i \in 1 .. l : cut(x, k)[i] = q[i]
  <2>1. \A i \in 1 .. l : q[i] \in Messages
    BY <1>1, ElementOfSeq
  <2>2. /\ cut(x, k) \in Seq(Messages)
        /\ Len(cut(x, k)) = IF 1 <= l THEN l - 1 + 1 ELSE 0
        /\ \A i \in 1 .. l - 1 + 1 : cut(x, k)[i] = q[1 + i - 1]
    BY <1>1, <2>1, SubSeqProperties DEF cut
  <2> HIDE DEF q, n
  <2> QED
    BY <1>1, <2>2
<1>4. c \in Nat
  <2> HIDE DEF m
  <2>1. m - k + 1 \in Int /\ m \in Int
    BY <1>1
  <2>2. IsFiniteSet(m - k + 1 .. m)
    BY <2>1, FS_Interval
  <2> QED
    BY <2>2, FS_Subset, FS_CardinalityType
<1>5. PICK f \in [1 .. c -> kept] :
         /\ \A i, j \in 1 .. c : i < j => f[i] < f[j]
         /\ a = [i \in 1 .. c |-> net[s][f[i]]]
  BY DEF survivors, listings
<1>6. a \in Seq(Messages) /\ Len(a) = c
  <2>1. a \in Seq(Messages)
    BY <1>1, SurvivorsType
  <2>2. DOMAIN a = 1 .. c /\ DOMAIN a = 1 .. Len(a) /\ Len(a) \in Nat
    BY <1>5, <2>1, LenProperties
  <2> HIDE DEF c
  <2> QED
    BY <1>4, <2>1, <2>2
<1> HIDE DEF c, q, n, m
<1>7. \A i \in 1 .. c : f[i] \in m - k + 1 .. m /\ a[i] = net[s][f[i]]
  BY <1>5
<1> HIDE DEF kept
<1>8. /\ r \in Seq(Messages) /\ DOMAIN r = 1 .. l + c
      /\ \A i \in 1 .. l + c : r[i] = IF i <= l THEN cut(x, k)[i] ELSE a[i - l]
  <2> DEFINE h == cut(x, k)
  <2>1. h \in Seq(Messages) /\ Len(h) = l
    BY <1>3
  <2>2. r = h \o a
    OBVIOUS
  <2> HIDE DEF h, r, l
  <2>3. /\ r \in Seq(Messages) /\ Len(r) = l + c
        /\ \A i \in 1 .. l + c : r[i] = IF i <= l THEN h[i] ELSE a[i - l]
    BY <1>6, <2>1, <2>2, ConcatProperties
  <2>4. DOMAIN r = 1 .. l + c
    BY <2>3, LenProperties
  <2> QED
    BY <2>3, <2>4 DEF h
<1> HIDE DEF r
<1> DEFINE place(i) == IF i <= l THEN i ELSE n - (m - f[i - l])
<1>9. ASSUME NEW i \in 1 .. l + c
      PROVE  /\ place(i) \in 1 .. n /\ r[i] = q[place(i)]
             /\ i <= l => place(i) <= l
             /\ ~ (i <= l) => ~ (place(i) <= l) /\ i - l \in 1 .. c
  <2>1. CASE i <= l
    BY <1>1, <1>3, <1>8, <2>1
  <2>2. CASE ~ (i <= l)
    <3>1. i - l \in 1 .. c
      BY <1>1, <1>4, <2>2
    <3>2. f[i - l] \in m - k + 1 .. m /\ r[i] = net[s][f[i - l]]
      BY <1>7, <1>8, <2>2, <3>1
    <3>3. place(i) \in l + 1 .. n /\ q[place(i)] = net[s][f[i - l]]
      BY <1>2, <2>2, <3>2
    <3> HIDE DEF place
    <3> QED
      BY <1>1, <2>2, <3>1, <3>2, <3>3
  <2> QED
    BY <2>1, <2>2
<1>10. ASSUME NEW i \in 1 .. l + c, NEW j \in 1 .. l + c, place(i) = place(j)
       PROVE  i = j
  <2>1. CASE i <= l \/ j <= l
    <3>1. i <= l /\ j <= l
      BY <1>9, <1>10, <2>1
    <3> QED
      BY <1>10, <3>1
  <2>2. CASE ~ (i <= l) /\ ~ (j <= l)
    <3>1. i - l \in 1 .. c /\ j - l \in 1 .. c
      BY <1>9, <2>2
    <3>2. f[i - l] \in m - k + 1 .. m /\ f[j - l] \in m - k + 1 .. m
      BY <1>7, <3>1
    <3>3. n - (m - f[i - l]) = n - (m - f[j - l])
      BY <1>10, <2>2
    <3>4. f[i - l] = f[j - l]
      BY <1>1, <3>2, <3>3
    <3>5. ~ (i - l < j - l) /\ ~ (j - l < i - l)
      <4>1. ~ (f[i - l] < f[j - l]) /\ ~ (f[j - l] < f[i - l])
        BY <1>1, <3>2, <3>4
      <4> QED
        BY <1>5, <3>1, <4>1
    <3> QED
      BY <1>1, <1>4, <3>1, <3>5
  <2> QED
    BY <2>1, <2>2
<1> HIDE DEF place
<1> DEFINE R == hitsAt(r, S)
           Q == hitsAt(q, S)
           g == [i \in R |-> place(i)]
<1>11. R \subseteq 1 .. l + c /\ \A i \in R : place(i) \in Q
  BY <1>1, <1>8, <1>9 DEF hitsAt
<1>12. IsFiniteSet(Q)
  BY <1>1, HitsType
<1> HIDE DEF R, Q
<1>13. g \in Injection(R, Q)
  <2>1. g \in [R -> Q]
    BY <1>11
  <2>2. \A i, j \in R : g[i] = g[j] => i = j
    BY <1>10, <1>11
  <2> QED
    BY <2>1, <2>2 DEF Injection, IsInjective
<1>14. Cardinality(R) <= Cardinality(Q)
  BY <1>12, <1>13, FS_Injection
<1> QED
  BY <1>8, <1>14 DEF hits, R, Q, r, q

(* A batch is no longer than it may be: before its last update come all    *)
(* the others.                                                             *)
LEMMA BatchSize ==
    ASSUME NEW st \in FiniteStates, NEW n \in Nat, NEW s \in Servers,
           NEW msgs \in batches(s, toSend(st, n))
    PROVE  /\ msgs \in Seq(Messages) /\ Len(msgs) <= n
           /\ \A k \in 1 .. Len(msgs) : \E u \in Updates : msgs[k] = resend(s, u)
<1> DEFINE us == toSend(st, n)
           c == Cardinality(us)
<1>1. us \in SUBSET Updates /\ IsFiniteSet(us) /\ c \in Nat
  BY ToSendType, FS_CardinalityType
<1>2. PICK q \in [1 .. c -> us] :
         /\ \A i, j \in 1 .. c : i < j => Before(q[i], q[j])
         /\ msgs = [k \in 1 .. c |-> resend(s, q[k])]
  BY DEF batches, listings
<1>3. /\ msgs \in Seq(Messages)
      /\ \A k \in 1 .. Len(msgs) : \E u \in us : msgs[k] = resend(s, u)
  BY <1>1, BatchType
<1>4. Len(msgs) = c
  <2>1. DOMAIN msgs = 1 .. c /\ DOMAIN msgs = 1 .. Len(msgs) /\ Len(msgs) \in Nat
    BY <1>2, <1>3, LenProperties
  <2> HIDE DEF c
  <2> QED
    BY <1>1, <2>1
<1>5. c <= n
  <2>1. SUFFICES ASSUME c # 0 PROVE c <= n
    OBVIOUS
  <2> HIDE DEF c
  <2>2. c \in 1 .. c /\ c - 1 \in Nat
    BY <1>1, <2>1
  <2> DEFINE u == q[c]
             E == earlier(st, u)
             h == [i \in 1 .. c - 1 |-> q[i]]
  <2>3. \A v \in us : v \in missing(st) /\ v \in Updates /\ Cardinality(earlier(st, v)) < n
    BY <1>1 DEF toSend, earlier
  <2>4. u \in missing(st) /\ Cardinality(E) < n
    BY <2>2, <2>3
  <2>5. IsFiniteSet(E) /\ Cardinality(E) \in Nat
    BY <2>4, EarlierGrows
  <2>6. \A i \in 1 .. c - 1 : i \in 1 .. c /\ i < c
    BY <1>1
  <2>7. \A i \in 1 .. c - 1 : q[i] \in E
    BY <1>2, <2>2, <2>3, <2>6 DEF earlier
  <2>8. \A i, j \in 1 .. c - 1 : q[i] = q[j] => i = j
    <3>1. SUFFICES ASSUME NEW i \in 1 .. c - 1, NEW j \in 1 .. c - 1, q[i] = q[j], i < j
                   PROVE  FALSE
      <4>1. \A i, j \in 1 .. c - 1 : i # j => i < j \/ j < i
        BY <2>2
      <4> QED
        BY <4>1
    <3>2. Before(q[i], q[j]) /\ q[i] \in Updates
      BY <1>2, <2>3, <2>6, <3>1
    <3> QED
      BY <3>1, <3>2, BeforeOrders
  <2> HIDE DEF E, u
  <2>9. h \in Injection(1 .. c - 1, E)
    <3>1. h \in [1 .. c - 1 -> E]
      BY <2>7
    <3>2. \A i, j \in 1 .. c - 1 : h[i] = h[j] => i = j
      BY <2>8
    <3> QED
      BY <3>1, <3>2 DEF Injection, IsInjective
  <2>10. Cardinality(1 .. c - 1) <= Cardinality(E)
    BY <2>5, <2>9, FS_Injection
  <2>11. Cardinality(1 .. c - 1) = c - 1
    BY <2>2, FS_Interval
  <2> QED
    BY <1>1, <2>4, <2>5, <2>10, <2>11
<1> QED
  BY <1>1, <1>3, <1>4, <1>5

-----------------------------------------------------------------------------
(* The windows.  A server starts one when a reconciliation ends, and a     *)
(* view starts a reconciliation, so what is on the way of its windows and  *)
(* the windows it may still start are bounded by the changes of the        *)
(* network, and by the updates of clients that it takes for its own.       *)

(* What server s takes for updates that it sent itself.                    *)
headed(s) == {m \in Messages : m.type = "UPDATE" /\ m.proc_num = s}

views == {m \in Messages : IsView(m)}

waits(s) == IF local_state[s].status = "RECONCILE" THEN 1 ELSE 0

WindowsLeft ==
    \A s \in Servers :
        hits(net[s], headed(s)) + MaxSend * (hits(net[s], views) + waits(s))
            <= MaxSend * changes + strays(s)

(* The header of a resent update has the number of its sender.             *)
tells(m) == m.type = "UPDATE" /\ m.resent => m.proc_num = m.from

HeadersTell == \A m \in onTheWay : tells(m)

FlowInv == SameTails /\ HeadersTell /\ WindowsLeft

(* The updates of clients are never taken back.                            *)
StraysGrow ==
    \A t \in Servers : /\ strays(t) \in Nat /\ strays(t)' \in Nat
                       /\ strays(t) <= strays(t)'

(* Server s multicasts e, on the queues n; the others take for their own   *)
(* no more of it than the updates that a client adds.                      *)
Speaks(s, n, e) ==
    /\ e \in Seq(Messages) /\ noView(e)
    /\ \A k \in 1 .. Len(e) : tells(e[k])
    /\ \A t \in Servers \ {s} : hits(e, headed(t)) + strays(t) <= strays(t)'
    /\ net' = multicast(n, s, e)
    /\ conn' = conn /\ changes' = changes
    /\ \A t \in Servers \ {s} : local_state'[t].status = local_state[t].status

(* ... with no more resent updates, and windows to start, than it had left *)
(* or than the message frees that it read.                                 *)
Spends(s, n, e) ==
    LET spent == hits(e, headed(s)) + MaxSend * waits(s)'
    IN  \/ /\ n = net
           /\ spent + strays(s) <= MaxSend * waits(s) + strays(s)'
        \/ /\ net[s] # <<>> /\ n = consume(s)
           /\ spent <= MaxSend * waits(s)
                         + (IF Head(net[s]) \in headed(s) THEN 1 ELSE 0)
                         + MaxSend * (IF IsView(Head(net[s])) THEN 1 ELSE 0)

(* The kinds of the messages of a batch.                                   *)
LEMMA ResendKind ==
    ASSUME NEW s \in Servers, NEW u \in Updates
    PROVE  LET m == resend(s, u)
           IN  /\ ~ IsView(m) /\ tells(m)
               /\ \A t \in Servers \ {s} : m \notin headed(t)
BY DEF resend, IsView, tells, headed

(* The queues behind which a server multicasts.                            *)
LEMMA SpentQueues ==
    ASSUME TypeInv, StraysGrow, NEW s \in Servers, NEW n, NEW e, e \in Seq(Messages),
           Spends(s, n, e)
    PROVE  /\ n \in [Servers -> Seq(Messages)]
           /\ \A x \in Servers \ {s} : n[x] = net[x]
           /\ hits(n[s], headed(s)) + hits(e, headed(s))
                 + MaxSend * (hits(n[s], views) + waits(s)') + strays(s)
                <= hits(net[s], headed(s)) + MaxSend * (hits(net[s], views) + waits(s))
                     + strays(s)'
<1> DEFINE own == hits(net[s], headed(s))
           left == hits(n[s], headed(s))
           sent == hits(e, headed(s))
           v == hits(net[s], views)
           w == hits(n[s], views)
           more == strays(s)'
<1>1. net \in [Servers -> Seq(Messages)]
  BY DEF TypeInv, TypeOK
<1>2. /\ MaxSend \in Nat /\ waits(s) \in Nat /\ waits(s)' \in Nat /\ sent \in Nat
      /\ own \in Nat /\ v \in Nat
      /\ strays(s) \in Nat /\ more \in Nat /\ strays(s) <= more
  BY <1>1, HitsType, MaxSendAssumption DEF waits, StraysGrow
<1> HIDE DEF more
<1>3. ASSUME n = net, sent + MaxSend * waits(s)' + strays(s) <= MaxSend * waits(s) + more
      PROVE  left + sent + MaxSend * (w + waits(s)') + strays(s)
                <= own + MaxSend * (v + waits(s)) + more
  <2>1. left = own /\ w = v
    BY <1>3
  <2> HIDE DEF own, left, sent, v, w
  <2>2. /\ MaxSend * (w + waits(s)') = MaxSend * v + MaxSend * waits(s)'
        /\ MaxSend * (v + waits(s)) = MaxSend * v + MaxSend * waits(s)
    BY <1>2, <2>1
  <2> DEFINE c == MaxSend * v
             d == MaxSend * waits(s)'
             g == MaxSend * waits(s)
             after == MaxSend * (w + waits(s)')
             before == MaxSend * (v + waits(s))
  <2>3. c \in Nat /\ d \in Nat /\ g \in Nat
    BY <1>2
  <2>4. after = c + d /\ before = c + g /\ sent + d + strays(s) <= g + more
    BY <1>3, <2>2
  <2> HIDE DEF c, d, g, after, before
  <2>5. left + sent + after + strays(s) <= own + before + more
    BY <1>2, <2>1, <2>3, <2>4
  <2> QED
    BY <2>5 DEF after, before
<1>4. ASSUME net[s] # <<>>, n = consume(s)
      PROVE  /\ n \in [Servers -> Seq(Messages)]
             /\ n[s] = Tail(net[s]) /\ \A x \in Servers \ {s} : n[x] = net[x]
             /\ own = left + (IF Head(net[s]) \in headed(s) THEN 1 ELSE 0)
             /\ v = w + (IF IsView(Head(net[s])) THEN 1 ELSE 0)
             /\ left \in Nat /\ w \in Nat
  <2>1. /\ n \in [Servers -> Seq(Messages)] /\ Head(net[s]) \in Messages
        /\ n[s] = Tail(net[s]) /\ \A x \in Servers \ {s} : n[x] = net[x]
    BY <1>1, <1>4, DeliveryType DEF consume
  <2>2. Head(net[s]) \in views <=> IsView(Head(net[s]))
    BY <2>1 DEF views
  <2>3. /\ own = left + (IF Head(net[s]) \in headed(s) THEN 1 ELSE 0)
        /\ v = w + (IF Head(net[s]) \in views THEN 1 ELSE 0)
    BY <1>1, <1>4, <2>1, HitsTail
  <2>4. left \in Nat /\ w \in Nat
    BY <2>1, HitsType
  <2> QED
    BY <2>1, <2>2, <2>3, <2>4
<1>5. ASSUME net[s] # <<>>, n = consume(s),
             sent + MaxSend * waits(s)' <= MaxSend * waits(s)
                         + (IF Head(net[s]) \in headed(s) THEN 1 ELSE 0)
                         + MaxSend * (IF IsView(Head(net[s])) THEN 1 ELSE 0)
      PROVE  left + sent + MaxSend * (w + waits(s)') + strays(s)
                <= own + MaxSend * (v + waits(s)) + more
  <2> DEFINE a == IF Head(net[s]) \in headed(s) THEN 1 ELSE 0
             b == IF IsView(Head(net[s])) THEN 1 ELSE 0
  <2>1. a \in Nat /\ b \in Nat /\ own = left + a /\ v = w + b
        /\ left \in Nat /\ w \in Nat
        /\ sent + MaxSend * waits(s)' <= MaxSend * waits(s) + a + MaxSend * b
    BY <1>4, <1>5
  <2> HIDE DEF own, left, sent, v, w, a, b
  <2>2. /\ MaxSend * (w + waits(s)') = MaxSend * w + MaxSend * waits(s)'
        /\ MaxSend * (v + waits(s)) = MaxSend * w + MaxSend * b + MaxSend * waits(s)
    BY <1>2, <2>1
  <2> DEFINE c == MaxSend * w
             d == MaxSend * waits(s)'
             f == MaxSend * b
             g == MaxSend * waits(s)
             after == MaxSend * (w + waits(s)')
             before == MaxSend * (v + waits(s))
  <2>3. c \in Nat /\ d \in Nat /\ f \in Nat /\ g \in Nat
    BY <1>2, <2>1
  <2>4. after = c + d /\ before = c + f + g /\ sent + d <= g + a + f
    BY <2>1, <2>2
  <2> HIDE DEF c, d, f, g, after, before
  <2>5. left + sent + after + strays(s) <= own + before + more
    BY <1>2, <2>1, <2>3, <2>4
  <2> QED
    BY <2>5 DEF after, before
<1> HIDE DEF own, left, sent, v, w
<1>6. \/ n = net /\ sent + MaxSend * waits(s)' + strays(s) <= MaxSend * waits(s) + more
      \/ /\ net[s] # <<>> /\ n = consume(s)
         /\ sent + MaxSend * waits(s)' <= MaxSend * waits(s)
                         + (IF Head(net[s]) \in headed(s) THEN 1 ELSE 0)
                         + MaxSend * (IF IsView(Head(net[s])) THEN 1 ELSE 0)
  BY DEF Spends, sent, more
<1>7. left + sent + MaxSend * (w + waits(s)') + strays(s)
         <= own + MaxSend * (v + waits(s)) + more
  BY <1>3, <1>5, <1>6
<1>8. n \in [Servers -> Seq(Messages)] /\ \A x \in Servers \ {s} : n[x] = net[x]
  BY <1>1, <1>4, <1>6
<1> QED
  BY <1>7, <1>8 DEF own, left, sent, v, w, more

(* A multicast keeps the ends of the queues alike.                         *)
LEMMA SpeaksTails ==
    ASSUME TypeInv, StraysGrow, Connected, SameTails, NEW s \in Servers, NEW n, NEW e,
           Speaks(s, n, e), Spends(s, n, e)
    PROVE  SameTails'
<1>1. /\ net \in [Servers -> Seq(Messages)] /\ conn \in [Servers -> SUBSET Servers]
      /\ e \in Seq(Messages) /\ noView(e) /\ conn' = conn
      /\ n \in [Servers -> Seq(Messages)]
      /\ \A x \in Servers : net'[x] = IF x \in conn[s] THEN n[x] \o e ELSE n[x]
  BY SpentQueues DEF Speaks, multicast, TypeInv, TypeOK
<1>2. \A x \in Servers : n[x] = net[x] \/ (net[x] # <<>> /\ n[x] = Tail(net[x]))
  BY <1>1 DEF Spends, consume
<1>3. ASSUME NEW x \in Servers, NEW t \in conn[x]
      PROVE  sameTail(n[x], n[t])
  <2>1. sameTail(net[x], net[t]) /\ t \in Servers
    BY <1>1 DEF SameTails
  <2>2. sameTail(n[x], net[t])
    <3>1. CASE n[x] = net[x]
      BY <2>1, <3>1
    <3>2. CASE net[x] # <<>> /\ n[x] = Tail(net[x])
      BY <1>1, <2>1, <3>2, SameTailConsumed
    <3> QED
      BY <1>2, <3>1, <3>2
  <2>3. sameTail(net[t], n[x])
    BY <2>2 DEF sameTail
  <2>4. CASE n[t] = net[t]
    BY <2>2, <2>4
  <2>5. CASE net[t] # <<>> /\ n[t] = Tail(net[t])
    <3>1. n[x] \in Seq(Messages) /\ net[t] \in Seq(Messages)
      BY <1>1, <2>1
    <3>2. sameTail(n[x], Tail(net[t]))
      BY <2>3, <2>5, <3>1, SameTailConsumed
    <3> QED
      BY <2>5, <3>2
  <2> QED
    BY <1>2, <2>1, <2>4, <2>5
<1>4. ASSUME NEW x \in Servers, NEW t \in conn[x]
      PROVE  sameTail(net'[x], net'[t])
  <2>1. t \in Servers /\ sameTail(n[x], n[t])
    BY <1>1, <1>3
  <2>2. conn[t] = conn[x] /\ x \in conn[x]
    BY DEF Connected
  <2>3. x \in conn[s] <=> t \in conn[s]
    <3>1. ASSUME NEW y \in Servers, y \in conn[s] PROVE conn[y] = conn[s]
      BY <3>1 DEF Connected
    <3> QED
      BY <1>1, <2>1, <2>2, <3>1
  <2>4. CASE x \in conn[s]
    <3>1. net'[x] = n[x] \o e /\ net'[t] = n[t] \o e
      BY <1>1, <2>1, <2>3, <2>4
    <3>2. n[x] \in Seq(Messages) /\ n[t] \in Seq(Messages)
      BY <1>1, <2>1
    <3>3. sameTail(n[x] \o e, n[t] \o e)
      BY <1>1, <2>1, <3>2, SameTailAppended
    <3> QED
      BY <3>1, <3>3
  <2>5. CASE x \notin conn[s]
    <3>1. net'[x] = n[x] /\ net'[t] = n[t]
      BY <1>1, <2>1, <2>3, <2>5
    <3> QED
      BY <2>1, <3>1
  <2> QED
    BY <2>4, <2>5
<1> QED
  BY <1>1, <1>4 DEF SameTails

(* ... and headers that tell where an update comes from.                   *)
LEMMA SpeaksHeaders ==
    ASSUME TypeInv, StraysGrow, HeadersTell, NEW s \in Servers, NEW n, NEW e,
           Speaks(s, n, e), Spends(s, n, e)
    PROVE  HeadersTell'
<1>1. /\ e \in Seq(Messages) /\ n \in [Servers -> Seq(Messages)]
      /\ net' = multicast(n, s, e) /\ \A k \in 1 .. Len(e) : tells(e[k])
  BY SpentQueues DEF Speaks
<1>2. \A x \in Servers : \A k \in 1 .. Len(n[x]) : n[x][k] \in onTheWay
  <2>1. CASE n = net
    BY <2>1, LenProperties DEF onTheWay, TypeInv, TypeOK
  <2>2. CASE net[s] # <<>> /\ n = consume(s)
    BY <2>2, ConsumeKeeps
  <2> QED
    BY <2>1, <2>2 DEF Spends
<1>3. \A m \in onTheWay' : m \in onTheWay \/ \E j \in 1 .. Len(e) : m = e[j]
  BY <1>1, <1>2, MulticastAdds
<1>4. \A m \in onTheWay' : tells(m)
  BY <1>1, <1>3 DEF HeadersTell
<1> QED
  BY <1>4 DEF HeadersTell, tells

(* ... and the windows bounded.                                            *)
LEMMA SpeaksWindows ==
    ASSUME TypeInv, StraysGrow, Connected, WindowsLeft, NEW s \in Servers, NEW n, NEW e,
           Speaks(s, n, e), Spends(s, n, e)
    PROVE  WindowsLeft'
<1>1. /\ net \in [Servers -> Seq(Messages)] /\ changes \in Nat
      /\ e \in Seq(Messages) /\ noView(e) /\ changes' = changes
      /\ n \in [Servers -> Seq(Messages)]
      /\ \A x \in Servers \ {s} : n[x] = net[x]
      /\ \A x \in Servers : net'[x] = IF x \in conn[s] THEN n[x] \o e ELSE n[x]
      /\ s \in conn[s]
  BY SpentQueues DEF Speaks, multicast, TypeInv, TypeOK, Connected
<1>2. hits(e, views) = 0
  <2>1. \A k \in 1 .. Len(e) : e[k] \notin views
    BY <1>1, LenProperties DEF noView, views
  <2> QED
    BY <1>1, <2>1, HitsType
<1>3. MaxSend \in Nat /\ \A x \in Servers : waits(x) \in Nat /\ waits(x)' \in Nat
  BY MaxSendAssumption DEF waits
<1>4. ASSUME NEW x \in Servers \ {s}
      PROVE  hits(net'[x], headed(x)) + MaxSend * (hits(net'[x], views) + waits(x)')
                <= MaxSend * changes' + strays(x)'
  <2> DEFINE own == hits(net[x], headed(x))
             sent == hits(e, headed(x))
             left == hits(net'[x], headed(x))
             more == strays(x)'
             rest == MaxSend * (hits(net[x], views) + waits(x))
             bound == MaxSend * changes
  <2>1. waits(x)' = waits(x)
    BY DEF waits, Speaks
  <2>2. /\ net[x] \in Seq(Messages)
        /\ own \in Nat /\ hits(net[x], views) \in Nat /\ sent \in Nat
    BY <1>1, HitsType
  <2>3. /\ left \in Nat /\ left <= own + sent
        /\ hits(net'[x], views) = hits(net[x], views)
    <3>1. /\ hits(net[x] \o e, headed(x)) = own + sent
          /\ hits(net[x] \o e, views) = hits(net[x], views) + 0
      BY <1>1, <1>2, <2>2, HitsConcat
    <3>2. CASE net'[x] = net[x] \o e
      <4>1. /\ left = own + sent
            /\ hits(net'[x], views) = hits(net[x], views) + 0
        BY <3>1, <3>2, Zenon
      <4> QED
        BY <2>2, <4>1
    <3>3. CASE net'[x] = net[x]
      <4>1. left = own /\ hits(net'[x], views) = hits(net[x], views)
        BY <3>3
      <4> HIDE DEF own, sent, left
      <4> QED
        BY <2>2, <4>1
    <3> QED
      BY <1>1, <3>2, <3>3
  <2>4. own + rest <= bound + strays(x)
    BY DEF WindowsLeft
  <2>5. sent + strays(x) <= more /\ strays(x) \in Nat /\ more \in Nat
    BY DEF Speaks, StraysGrow
  <2>6. rest \in Nat /\ bound \in Nat
    BY <1>1, <1>3, <2>2
  <2>7. /\ MaxSend * (hits(net'[x], views) + waits(x)') = rest
        /\ MaxSend * changes' = bound
    BY <1>1, <2>1, <2>3
  <2> HIDE DEF own, sent, left, more, rest, bound
  <2>8. left + rest <= bound + more
    BY <2>2, <2>3, <2>4, <2>5, <2>6
  <2> QED
    BY <2>7, <2>8 DEF left, more
<1>5. hits(net'[s], headed(s)) + MaxSend * (hits(net'[s], views) + waits(s)')
                <= MaxSend * changes' + strays(s)'
  <2> DEFINE own == hits(net[s], headed(s))
             left == hits(n[s], headed(s))
             sent == hits(e, headed(s))
             v == hits(net[s], views)
             w == hits(n[s], views)
             after == MaxSend * (w + waits(s)')
             before == MaxSend * (v + waits(s))
             bound == MaxSend * changes
             more == strays(s)'
  <2>1. net'[s] = n[s] \o e /\ n[s] \in Seq(Messages) /\ net[s] \in Seq(Messages)
    BY <1>1
  <2>2. /\ own \in Nat /\ left \in Nat /\ sent \in Nat /\ v \in Nat /\ w \in Nat
    BY <1>1, <2>1, HitsType
  <2>3. hits(n[s] \o e, headed(s)) = left + sent /\ hits(n[s] \o e, views) = w + 0
    BY <1>1, <1>2, <2>1, HitsConcat
  <2>4. left + sent + after + strays(s) <= own + before + more
    BY <1>1, SpentQueues
  <2>5. own + before <= bound + strays(s)
    BY DEF WindowsLeft
  <2>6. before \in Nat /\ bound \in Nat
    <3> HIDE DEF v
    <3> QED  BY <1>1, <1>3, <2>2
  <2>7. after \in Nat
    <3> HIDE DEF w
    <3> QED  BY <1>3, <2>2
  <2>8. hits(net'[s], headed(s)) = left + sent /\ hits(net'[s], views) = w
    BY <2>1, <2>2, <2>3
  <2>9. MaxSend * changes' = bound
    BY <1>1
  <2>10. strays(s) \in Nat /\ more \in Nat
    BY DEF StraysGrow
  <2> HIDE DEF own, left, sent, before, v, bound, more
  <2>11. left + sent + after <= bound + more
    <3> HIDE DEF after
    <3> QED  BY <2>2, <2>4, <2>5, <2>6, <2>7, <2>10
  <2> QED
    BY <2>8, <2>9, <2>11 DEF more
<1>6. ASSUME NEW x \in Servers
      PROVE  hits(net'[x], headed(x)) + MaxSend * (hits(net'[x], views) + waits(x)')
                <= MaxSend * changes' + strays(x)'
  BY <1>4, <1>5
<1> QED
  BY <1>6 DEF WindowsLeft, headed, views

-----------------------------------------------------------------------------
(* The handlers speak.                                                     *)

spoken(s) == \E n, e : Speaks(s, n, e) /\ Spends(s, n, e)

(* A command makes an update that was not there.                           *)
LEMMA CommandIsNew ==
    ASSUME TypeInv, LogInv, IsFiniteSet(issued), NEW s \in Servers, Command(s)
    PROVE  Cardinality(issued') = Cardinality(issued) + 1
<1>1. PICK u \in Updates : Issues(s, u)
  BY CommandKind
<1>2. Stores(s, u) /\ \A v \in received[s] : v.index < u.index
  BY <1>1, NewUpdateIsLast
<1>3. issued' = issued \cup {u}
  BY <1>1, <1>2, StoresKeepsLog DEF Issues
<1>4. u \notin issued
  <2>1. ASSUME u \in issued PROVE FALSE
    <3>1. u \in received[s]
      BY <1>1, <2>1 DEF issued, LogInv, MakerHasIt, Issues
    <3> QED
      BY <1>2, <3>1 DEF Updates
  <2> QED
    BY <2>1
<1> QED
  BY <1>3, <1>4, FS_AddElement

(* The updates of all clients are finitely many, and only a command adds   *)
(* to them.                                                                *)
LEMMA StraysSteps ==
    ASSUME TypeInv, LogInv, IsFiniteSet(issued), [Next]_vars
    PROVE  IsFiniteSet(issued)' /\ StraysGrow
<1>1. issued \subseteq issued' /\ IsFiniteSet(issued')
  <2>1. CASE \A t \in Servers : received'[t] = received[t]
    BY <2>1 DEF issued
  <2>2. ASSUME NEW s \in Servers, NEW u \in Updates,
               received'[s] = received[s] \cup {u},
               \A t \in Servers \ {s} : received'[t] = received[t]
        PROVE  issued \subseteq issued' /\ IsFiniteSet(issued')
    <3>1. issued' = issued \cup {u}
      BY <2>2 DEF issued
    <3> QED
      BY <3>1, FS_AddElement
  <2> QED
    BY <2>1, <2>2, HistoryGrows
<1>2. /\ Cardinality(issued) \in Nat /\ Cardinality(issued') \in Nat
      /\ Cardinality(issued) <= Cardinality(issued')
  BY <1>1, FS_CardinalityType, FS_Subset
<1>3. ASSUME NEW t \in Servers
      PROVE  /\ strays(t) \in Nat /\ strays(t)' \in Nat
             /\ strays(t) <= strays(t)'
  BY <1>2 DEF strays
<1> QED
  BY <1>1, <1>3 DEF StraysGrow

(* A command: its update is none that was resent, and a server that takes  *)
(* it for its own has one more of these.                                   *)
LEMMA CommandSpeaks ==
    ASSUME TypeInv, LogInv, IsFiniteSet(issued), StraysGrow, NEW s \in Servers, Command(s)
    PROVE  spoken(s)
<1>1. PICK type \in UpdateTypes, user \in Users, mail \in MailIds :
         issueUpdate(s, generateUpdate(local_state[s], s, type, user, mail))
  BY CommandIsUpdate
<1> DEFINE u == generateUpdate(local_state[s], s, type, user, mail)
<1>2. local_state[s] \in FiniteStates /\ local_state[s] \in LocalStates
  BY DEF TypeInv, TypeOK
<1>3. u \in Updates
  BY <1>2, GenerateUpdateType
<1>4. PICK junk \in HeaderJunk :
         net' = multicast(net, s, <<[type |-> "UPDATE", from |-> s,
                                     proc_num |-> junk, update |-> u,
                                     resent |-> FALSE]>>)
  BY <1>1 DEF issueUpdate
<1>5. /\ local_state' = [local_state EXCEPT ![s] = applyUpdate(@, s, u)]
      /\ conn' = conn /\ changes' = changes
  BY <1>1 DEF issueUpdate
<1> HIDE DEF u
<1> DEFINE m == [type |-> "UPDATE", from |-> s, proc_num |-> junk, update |-> u,
                 resent |-> FALSE]
           e == <<m>>
<1>6. /\ m \in Messages /\ ~ IsView(m) /\ tells(m)
      /\ \A t \in Servers : t \notin HeaderJunk => m \notin headed(t)
  <2>1. m \in UpdateMessages
    BY <1>3, HeaderJunkAssumption DEF UpdateMessages
  <2> QED
    BY <2>1 DEF Messages, IsView, tells, headed
<1>7. net' = multicast(net, s, e)
  BY <1>4
<1> HIDE DEF m
<1>8. /\ e \in Seq(Messages) /\ Len(e) = 1 /\ DOMAIN e = {1} /\ e[1] = m
  BY <1>6
<1> HIDE DEF e
<1>9. \A k \in 1 .. Len(e) : e[k] = m
  BY <1>8
<1>10. \A t \in Servers : local_state'[t].status = local_state[t].status
  <2>1. /\ local_state'[s] = applyUpdate(local_state[s], s, u)
        /\ \A t \in Servers \ {s} : local_state'[t] = local_state[t]
    BY <1>5 DEF TypeInv
  <2> QED
    BY <1>2, <1>3, <2>1, ApplyUpdateControl
<1>11. ASSUME NEW t \in Servers
       PROVE  hits(e, headed(t)) \in Nat /\ hits(e, headed(t)) + strays(t) <= strays(t)'
  <2>1. hits(e, headed(t)) \in Nat /\ hits(e, headed(t)) <= 1
    BY <1>8, HitsType
  <2>2. /\ strays(t) \in Nat /\ strays(t)' \in Nat /\ strays(t) <= strays(t)'
    BY DEF StraysGrow
  <2>3. CASE t \in HeaderJunk
    <3>1. strays(t)' = strays(t) + 1
      BY <2>3, CommandIsNew DEF strays
    <3> QED
      BY <2>1, <2>2, <3>1
  <2>4. CASE t \notin HeaderJunk
    <3>1. hits(e, headed(t)) = 0
      BY <1>6, <1>8, <1>9, <2>4, HitsType
    <3> QED
      BY <2>2, <3>1
  <2> QED
    BY <2>3, <2>4
<1>12. Speaks(s, net, e)
  BY <1>5, <1>6, <1>7, <1>8, <1>9, <1>10, <1>11 DEF Speaks, noView
<1>13. waits(s)' = waits(s) /\ waits(s) \in Nat /\ MaxSend \in Nat
  BY <1>10, MaxSendAssumption DEF waits
<1>14. Spends(s, net, e)
  <2> DEFINE sent == hits(e, headed(s))
             more == strays(s)'
             w == MaxSend * waits(s)
  <2>1. /\ sent \in Nat /\ strays(s) \in Nat /\ more \in Nat /\ w \in Nat
        /\ sent + strays(s) <= more
    BY <1>11, <1>13 DEF StraysGrow
  <2>2. MaxSend * waits(s)' = w
    BY <1>13
  <2> HIDE DEF sent, more, w
  <2>3. (sent + w) + strays(s) <= w + more
    BY <2>1
  <2> QED
    BY <2>2, <2>3 DEF Spends, sent, more, w
<1> QED
  BY <1>12, <1>14 DEF spoken

(* A batch that a server sends when it has read a message.                 *)
LEMMA BatchSpeaks ==
    ASSUME TypeInv, StraysGrow, NEW s \in Servers, net[s] # <<>>,
           NEW st \in FiniteStates, NEW k \in Nat, NEW msgs \in batches(s, toSend(st, k)),
           net' = multicast(consume(s), s, msgs), conn' = conn, changes' = changes,
           \A t \in Servers \ {s} : local_state'[t].status = local_state[t].status,
           k + MaxSend * waits(s)' <= MaxSend * waits(s)
                         + (IF Head(net[s]) \in headed(s) THEN 1 ELSE 0)
                         + MaxSend * (IF IsView(Head(net[s])) THEN 1 ELSE 0)
    PROVE  spoken(s)
<1>1. /\ msgs \in Seq(Messages) /\ Len(msgs) <= k /\ Len(msgs) \in Nat
      /\ \A i \in 1 .. Len(msgs) : \E u \in Updates : msgs[i] = resend(s, u)
  BY BatchSize, LenProperties
<1>2. \A i \in 1 .. Len(msgs) :
         /\ ~ IsView(msgs[i]) /\ tells(msgs[i])
         /\ \A t \in Servers \ {s} : msgs[i] \notin headed(t)
  BY <1>1, ResendKind
<1>3. noView(msgs)
  BY <1>1, <1>2, LenProperties DEF noView
<1>4. Speaks(s, consume(s), msgs)
  <2>1. ASSUME NEW t \in Servers \ {s}
        PROVE  hits(msgs, headed(t)) + strays(t) <= strays(t)'
    <3>1. hits(msgs, headed(t)) = 0
      BY <1>1, <1>2, HitsType
    <3> QED
      BY <3>1 DEF StraysGrow
  <2> QED
    BY <1>1, <1>2, <1>3, <2>1 DEF Speaks
<1>5. hits(msgs, headed(s)) \in Nat /\ hits(msgs, headed(s)) <= Len(msgs)
  BY <1>1, HitsType
<1>6. MaxSend \in Nat /\ waits(s) \in Nat /\ waits(s)' \in Nat
  BY MaxSendAssumption DEF waits
<1>7. Spends(s, consume(s), msgs)
  <2> DEFINE a == IF Head(net[s]) \in headed(s) THEN 1 ELSE 0
             b == MaxSend * (IF IsView(Head(net[s])) THEN 1 ELSE 0)
             c == MaxSend * waits(s)
             d == MaxSend * waits(s)'
             h == hits(msgs, headed(s))
  <2>1. a \in Nat /\ b \in Nat /\ c \in Nat /\ d \in Nat
    BY <1>6
  <2>2. k + d <= c + a + b
    OBVIOUS
  <2>3. h \in Nat /\ h <= k
    BY <1>1, <1>5
  <2> HIDE DEF a, b, c, d, h
  <2>4. h + d <= c + a + b
    BY <2>1, <2>2, <2>3
  <2> QED
    BY <2>4 DEF Spends, a, b, c, d, h
<1> QED
  BY <1>4, <1>7 DEF spoken

(* An update: the echo that lets a server send one more is one that it     *)
(* takes for its own.                                                      *)
LEMMA ReceiveUpdateSpeaks ==
    ASSUME TypeInv, StraysGrow, NEW s \in Servers, ReceiveUpdate(s)
    PROVE  spoken(s)
<1> DEFINE m == Head(net[s])
           st == local_state[s]
           echo == m.proc_num = s /\ st.status = "SENDINGUPDATES"
           st1 == IF echo THEN sendMissingUpdates(st, 1) ELSE st
<1>1. /\ local_state' = [local_state EXCEPT ![s] = applyUpdate(st1, s, m.update)]
      /\ \E msgs \in batches(s, IF echo THEN toSend(st, 1) ELSE {}) :
            net' = multicast(consume(s), s, msgs)
      /\ net[s] # <<>> /\ m.type = "UPDATE"
      /\ conn' = conn /\ changes' = changes
  BY DEF ReceiveUpdate, delivers
<1>2. m \in Messages /\ m \in UpdateMessages /\ m.update \in Updates
  BY <1>1, DeliveryType DEF Messages, UpdateMessages, MatrixMessages, ViewMessages
<1>3. st \in FiniteStates
  BY DEF TypeInv
<1>4. /\ st1 \in FiniteStates
      /\ st1.status = IF echo /\ ranDry(st, 1) THEN "NORMAL" ELSE st.status
  BY <1>3, SendMissingUpdatesType, SendMissingUpdatesControl
<1>5. echo => m \in headed(s)
  BY <1>1, <1>2 DEF headed
<1>6. /\ local_state'[s] = applyUpdate(st1, s, m.update)
      /\ \A t \in Servers \ {s} : local_state'[t] = local_state[t]
  BY <1>1 DEF TypeInv
<1> HIDE DEF st1
<1>7. local_state'[s].status = st1.status
  BY <1>2, <1>4, <1>6, ApplyUpdateControl
<1>8. /\ waits(s) \in {0, 1} /\ waits(s)' \in {0, 1} /\ waits(s)' <= waits(s)
      /\ MaxSend * waits(s)' <= MaxSend * waits(s)
      /\ MaxSend * waits(s) \in Nat /\ MaxSend * waits(s)' \in Nat
  <2>1. waits(s) \in {0, 1} /\ waits(s)' \in {0, 1} /\ waits(s)' <= waits(s)
    BY <1>4, <1>7 DEF waits
  <2> QED
    BY <2>1, MaxSendAssumption
<1>9. ~ IsView(m)
  BY <1>1 DEF IsView
<1>10. CASE echo
  <2>1. PICK msgs \in batches(s, toSend(st, 1)) : net' = multicast(consume(s), s, msgs)
    BY <1>1, <1>10
  <2>2. 1 + MaxSend * waits(s)' <= MaxSend * waits(s)
                         + (IF m \in headed(s) THEN 1 ELSE 0)
                         + MaxSend * (IF IsView(m) THEN 1 ELSE 0)
    <3>1. MaxSend * 0 = 0
      BY MaxSendAssumption
    <3> QED
      BY <1>5, <1>8, <1>9, <1>10, <3>1
  <2> HIDE DEF echo
  <2> QED
    BY <1>1, <1>3, <1>6, <2>1, <2>2, BatchSpeaks
<1>11. CASE ~ echo
  <2>1. toSend(st, 0) = {}
    <3>1. \A v \in missing(st) : Cardinality(earlier(st, v)) \in Nat
      BY <1>3, EarlierGrows
    <3> QED
      BY <3>1 DEF toSend, earlier
  <2>2. PICK msgs \in batches(s, toSend(st, 0)) : net' = multicast(consume(s), s, msgs)
    BY <1>1, <1>11, <2>1
  <2>3. 0 + MaxSend * waits(s)' <= MaxSend * waits(s)
                         + (IF m \in headed(s) THEN 1 ELSE 0)
                         + MaxSend * (IF IsView(m) THEN 1 ELSE 0)
    <3>1. MaxSend * 0 = 0
      BY MaxSendAssumption
    <3> QED
      BY <1>8, <1>9, <3>1
  <2> HIDE DEF echo
  <2> QED
    BY <1>1, <1>3, <1>6, <2>2, <2>3, BatchSpeaks
<1> QED
  BY <1>10, <1>11

(* A message that is read without an answer, which leaves no more to wait  *)
(* for.                                                                    *)
LEMMA SilenceSpeaks ==
    ASSUME TypeInv, StraysGrow, NEW s \in Servers, net[s] # <<>>,
           net' = consume(s), conn' = conn, changes' = changes,
           \A t \in Servers \ {s} : local_state'[t].status = local_state[t].status,
           waits(s)' <= waits(s)
    PROVE  spoken(s)
<1> DEFINE e == <<>>
<1>1. /\ e \in Seq(Messages) /\ Len(e) = 0 /\ DOMAIN e = {} /\ 1 .. Len(e) = {}
  OBVIOUS
<1>2. \A q \in Seq(Messages) : q \o e = q
  BY ConcatEmptySeq
<1> HIDE DEF e
<1>3. net' = multicast(consume(s), s, e)
  <2>1. consume(s) \in [Servers -> Seq(Messages)]
    BY DeliveryType
  <2>2. \A t \in Servers : consume(s)[t] \o e = consume(s)[t]
    BY <1>2, <2>1
  <2> QED
    BY <2>1, <2>2 DEF multicast
<1>4. \A t \in Servers : hits(e, headed(t)) = 0
  BY <1>1, HitsType
<1>5. Speaks(s, consume(s), e)
  <2>1. \A t \in Servers : hits(e, headed(t)) + strays(t) <= strays(t)'
    BY <1>4 DEF StraysGrow
  <2> QED
    BY <1>1, <1>3, <2>1 DEF Speaks, noView
<1>6. Spends(s, consume(s), e)
  <2> DEFINE a == IF Head(net[s]) \in headed(s) THEN 1 ELSE 0
             b == MaxSend * (IF IsView(Head(net[s])) THEN 1 ELSE 0)
  <2>1. /\ a \in Nat /\ b \in Nat
        /\ MaxSend * waits(s)' <= MaxSend * waits(s)
        /\ MaxSend * waits(s)' \in Nat /\ MaxSend * waits(s) \in Nat
    <3>1. waits(s) \in {0, 1} /\ waits(s)' \in {0, 1}
      BY DEF waits
    <3> QED
      BY <3>1, MaxSendAssumption
  <2> HIDE DEF a, b
  <2>2. hits(e, headed(s)) + MaxSend * waits(s)' <= MaxSend * waits(s) + a + b
    BY <1>4, <2>1
  <2> QED
    BY <2>2 DEF Spends, a, b
<1> QED
  BY <1>5, <1>6 DEF spoken

(* A matrix that does not end a reconciliation.                            *)
LEMMA ReceiveMatrixSpeaks ==
    ASSUME TypeInv, StraysGrow, NEW s \in Servers, IgnoreMatrix(s) \/ ReceiveMatrix(s)
    PROVE  spoken(s)
<1>1. PICK m \in MatrixMessages : TakesMatrix(s, m)
  BY ReceiveMatrixTakes
<1>2. /\ net[s] # <<>> /\ net' = consume(s) /\ conn' = conn
      /\ \A t \in Servers : local_state'[t].status = local_state[t].status
  BY <1>1 DEF TakesMatrix, Alone, SameRanges
<1>3. changes' = changes
  BY DEF IgnoreMatrix, ReceiveMatrix
<1>4. waits(s)' <= waits(s)
  BY <1>2 DEF waits
<1> QED
  BY <1>2, <1>3, <1>4, SilenceSpeaks

(* The matrix that ends one starts a window.                               *)
LEMMA ReceiveLastMatrixSpeaks ==
    ASSUME TypeInv, StraysGrow, NEW s \in Servers, ReceiveLastMatrix(s)
    PROVE  spoken(s)
<1> DEFINE m == Head(net[s])
           counted == countMatrix(local_state[s], s, m)
           st == [counted EXCEPT !.status = "SENDINGUPDATES"]
           planned == continueReconcile(st, s)
           next == sendMissingUpdates(planned, MaxSend)
<1>1. /\ net[s] # <<>> /\ m \in MatrixMessages /\ counted \in FiniteStates
  BY MatrixCounted DEF ReceiveLastMatrix
<1>2. /\ local_state' = [local_state EXCEPT ![s] = next]
      /\ \E msgs \in batches(s, toSend(planned, MaxSend)) :
            net' = multicast(consume(s), s, msgs)
      /\ conn' = conn /\ changes' = changes
      /\ local_state[s].status = "RECONCILE"
  BY DEF ReceiveLastMatrix
<1> HIDE DEF counted
<1>3. st \in FiniteStates /\ st.status = "SENDINGUPDATES"
  BY <1>1 DEF FiniteStates, LocalStates, Status
<1> HIDE DEF st
<1>4. planned \in FiniteStates /\ planned.status = "SENDINGUPDATES"
  BY <1>3, ContinueReconcileType, ContinueReconcileControl
<1> HIDE DEF planned
<1>5. MaxSend \in Nat
  BY MaxSendAssumption
<1>6. next.status # "RECONCILE"
  BY <1>4, <1>5, SendMissingUpdatesControl
<1>7. /\ local_state'[s] = next
      /\ \A t \in Servers \ {s} : local_state'[t] = local_state[t]
  BY <1>2 DEF TypeInv
<1> HIDE DEF next
<1>8. waits(s) = 1 /\ waits(s)' = 0
  BY <1>2, <1>6, <1>7 DEF waits
<1>9. PICK msgs \in batches(s, toSend(planned, MaxSend)) :
         net' = multicast(consume(s), s, msgs)
  BY <1>2
<1>10. MaxSend + MaxSend * waits(s)' <= MaxSend * waits(s)
                         + (IF m \in headed(s) THEN 1 ELSE 0)
                         + MaxSend * (IF IsView(m) THEN 1 ELSE 0)
  BY <1>5, <1>8
<1> QED
  BY <1>1, <1>2, <1>4, <1>5, <1>7, <1>9, <1>10, BatchSpeaks

(* A view starts a reconciliation, or ends what was going on.              *)
LEMMA ReceiveViewSpeaks ==
    ASSUME TypeInv, StraysGrow, NEW s \in Servers, ReceiveView(s)
    PROVE  spoken(s)
<1>1. PICK v \in ViewMessages : ReadsView(s, v)
  BY ReceiveViewReads
<1>2. /\ net[s] # <<>> /\ IsView(Head(net[s])) /\ conn' = conn
      /\ \A t \in Servers \ {s} : local_state'[t].status = local_state[t].status
  BY <1>1 DEF ReadsView, Alone, ViewMessages, IsView
<1>3. changes' = changes
  BY DEF ReceiveView
<1> DEFINE members == Head(net[s]).members
           st == [local_state[s] EXCEPT !.current_membership = members,
                                        !.num_matrix_recvd = 0]
           msg == [type |-> "MATRIX", from |-> s, matrix |-> st.latest_update]
<1>4. \/ local_state'[s].status = "NORMAL" /\ net' = consume(s)
      \/ net' = multicast(consume(s), s, <<msg>>)
  <2>1. CASE Cardinality(v.members) = 1
    BY <1>1, <2>1 DEF ReadsView
  <2>2. CASE Cardinality(v.members) # 1
    <3>1. Head(net[s]) = v
      BY <1>1 DEF ReadsView
    <3> QED
      BY <2>2, <3>1 DEF ReceiveView
  <2> QED
    BY <2>1, <2>2
<1>5. CASE local_state'[s].status = "NORMAL" /\ net' = consume(s)
  <2>1. waits(s)' <= waits(s)
    BY <1>5 DEF waits
  <2> QED
    BY <1>2, <1>3, <1>5, <2>1, SilenceSpeaks
<1>6. CASE net' = multicast(consume(s), s, <<msg>>)
  <2>1. msg \in Messages
    <3>1. st.latest_update \in Matrices
      BY DEF TypeInv, FiniteStates, LocalStates
    <3> HIDE DEF st
    <3> QED
      BY <3>1 DEF Messages, MatrixMessages
  <2>2. /\ ~ IsView(msg) /\ tells(msg)
        /\ \A t \in Servers : msg \notin headed(t)
    BY DEF IsView, tells, headed
  <2> DEFINE e == <<msg>>
  <2> HIDE DEF msg
  <2>3. e \in Seq(Messages) /\ Len(e) = 1 /\ DOMAIN e = {1} /\ e[1] = msg
    BY <2>1
  <2>4. net' = multicast(consume(s), s, e)
    BY <1>6
  <2> HIDE DEF e
  <2>5. \A t \in Servers : hits(e, headed(t)) = 0
    BY <2>2, <2>3, HitsType
  <2>6. Speaks(s, consume(s), e)
    <3>1. \A t \in Servers : hits(e, headed(t)) + strays(t) <= strays(t)'
      BY <2>5 DEF StraysGrow
    <3> QED
      BY <1>2, <1>3, <2>2, <2>3, <2>4, <3>1 DEF Speaks, noView
  <2>7. Spends(s, consume(s), e)
    <3> DEFINE a == IF Head(net[s]) \in headed(s) THEN 1 ELSE 0
               b == MaxSend * (IF IsView(Head(net[s])) THEN 1 ELSE 0)
    <3>1. /\ a \in Nat /\ b = MaxSend
          /\ MaxSend * waits(s)' <= MaxSend
          /\ MaxSend * waits(s)' \in Nat /\ MaxSend * waits(s) \in Nat
      <4>1. waits(s) \in {0, 1} /\ waits(s)' \in {0, 1}
        BY DEF waits
      <4> QED
        BY <1>2, <4>1, MaxSendAssumption
    <3> HIDE DEF a, b
    <3>2. hits(e, headed(s)) + MaxSend * waits(s)' <= MaxSend * waits(s) + a + b
      BY <2>5, <3>1, MaxSendAssumption
    <3> QED
      BY <1>2, <3>2 DEF Spends, a, b
  <2> QED
    BY <2>6, <2>7 DEF spoken
<1> QED
  BY <1>4, <1>5, <1>6

-----------------------------------------------------------------------------
(* The network.                                                            *)

(* A view behind a queue.                                                  *)
LEMMA HitsView ==
    ASSUME NEW q \in Seq(Messages), NEW group \in SUBSET Servers, NEW s \in Servers
    PROVE  /\ hits(q \o view(group), headed(s)) = hits(q, headed(s))
           /\ hits(q \o view(group), views) = hits(q, views) + 1
<1> DEFINE v == [type |-> "VIEW", members |-> group]
<1>1. /\ v \in Messages /\ v \in views /\ v \notin headed(s)
  BY DEF Messages, ViewMessages, views, IsView, headed
<1>2. view(group) = <<v>>
  BY DEF view
<1> HIDE DEF v
<1> DEFINE e == <<v>>
<1>3. /\ e \in Seq(Messages)
      /\ hits(e, headed(s)) = 0 /\ hits(e, views) = 1
  BY <1>1, HitsOne
<1>4. view(group) = e
  BY <1>2
<1> HIDE DEF e
<1>5. /\ hits(q \o e, headed(s)) = hits(q, headed(s)) + 0
      /\ hits(q \o e, views) = hits(q, views) + 1
  <2>1. hits(q \o e, headed(s)) = hits(q, headed(s)) + hits(e, headed(s))
    BY <1>3, HitsConcat
  <2>2. hits(q \o e, views) = hits(q, views) + hits(e, views)
    BY <1>3, HitsConcat
  <2> QED
    BY <1>3, <2>1, <2>2
<1>6. hits(q, headed(s)) \in Nat
  BY HitsType
<1> QED
  BY <1>4, <1>5, <1>6

(* A change of the network leaves no more of the resent updates, and at    *)
(* most one view more.                                                     *)
trims(r, q, s) ==
    /\ r \in Seq(Messages)
    /\ hits(r, headed(s)) <= hits(q, headed(s))
    /\ hits(r, views) <= hits(q, views) + 1

(* A split does: what reaches a group was on its way to all of it.         *)
LEMMA SplitTrims ==
    ASSUME TypeInv, Connected, SameTails,
           NEW A \in SUBSET Servers, NEW B \in SUBSET Servers, Split(A, B)
    PROVE  \A x \in Servers : trims(net'[x], net[x], x)
<1>1. PICK s \in A, t \in B :
         /\ conn[s] = A \cup B
         /\ \E j \in 0 .. sinceView(s), k \in 0 .. sinceView(t) :
            /\ mayLose(A, j)
            /\ mayLose(B, k)
            /\ \E a \in survivors(A, s, j), b \in survivors(B, t, k) :
                 net' = [x \in Servers |->
                           IF x \in A THEN cut(x, j) \o a \o view(A)
                           ELSE IF x \in B THEN cut(x, k) \o b \o view(B)
                           ELSE net[x]]
  BY DEF Split
<1>2. PICK j \in 0 .. sinceView(s), k \in 0 .. sinceView(t) :
            /\ mayLose(A, j)
            /\ mayLose(B, k)
            /\ \E a \in survivors(A, s, j), b \in survivors(B, t, k) :
                 net' = [x \in Servers |->
                           IF x \in A THEN cut(x, j) \o a \o view(A)
                           ELSE IF x \in B THEN cut(x, k) \o b \o view(B)
                           ELSE net[x]]
  BY <1>1
<1>3. PICK a \in survivors(A, s, j), b \in survivors(B, t, k) :
         net' = [x \in Servers |->
                   IF x \in A THEN cut(x, j) \o a \o view(A)
                   ELSE IF x \in B THEN cut(x, k) \o b \o view(B)
                   ELSE net[x]]
  BY <1>2
<1>4. /\ j \in Nat /\ k \in Nat
      /\ \A x \in A : x \in conn[s]
      /\ \A x \in B : x \in conn[t]
  <2>1. sinceView(s) \in Nat /\ sinceView(t) \in Nat
    BY SinceViewBound
  <2>2. conn[t] = conn[s]
    BY <1>1 DEF Connected
  <2> QED
    BY <1>1, <2>1, <2>2
<1>5. ASSUME NEW G \in SUBSET Servers, NEW y \in G, NEW l \in Nat, mayLose(G, l),
             NEW e \in survivors(G, y, l), NEW x \in G, x \in conn[y],
             net'[x] = cut(x, l) \o e \o view(G)
      PROVE  trims(net'[x], net[x], x)
  <2>1. /\ cut(x, l) \o e \in Seq(Messages)
        /\ \A S : hits(cut(x, l) \o e, S) <= hits(net[x], S)
    BY <1>5, SurvivorHits
  <2> DEFINE r == cut(x, l) \o e
  <2>2. net'[x] = r \o view(G)
    BY <1>5
  <2>3. net[x] \in Seq(Messages) /\ x \in Servers
    BY DEF TypeInv, TypeOK
  <2> HIDE DEF r
  <2>4. /\ r \in Seq(Messages)
        /\ hits(r, headed(x)) <= hits(net[x], headed(x))
        /\ hits(r, views) <= hits(net[x], views)
    BY <2>1 DEF r
  <2>5. /\ hits(r, views) \in Nat /\ hits(net[x], views) \in Nat
    BY <2>3, <2>4, HitsType
  <2>6. /\ hits(r \o view(G), headed(x)) = hits(r, headed(x))
        /\ hits(r \o view(G), views) = hits(r, views) + 1
        /\ r \o view(G) \in Seq(Messages)
    BY <2>3, <2>4, HitsView, AppendView
  <2>7. trims(r \o view(G), net[x], x)
    BY <2>4, <2>5, <2>6 DEF trims
  <2> QED
    BY <2>2, <2>7
<1>6. ASSUME NEW x \in Servers
      PROVE  trims(net'[x], net[x], x)
  <2>1. CASE x \in A
    <3>1. net'[x] = cut(x, j) \o a \o view(A)
      BY <1>3, <2>1
    <3> QED
      BY <1>2, <1>4, <1>5, <2>1, <3>1
  <2>2. CASE x \notin A /\ x \in B
    <3>1. net'[x] = cut(x, k) \o b \o view(B)
      BY <1>3, <2>2
    <3> QED
      BY <1>2, <1>4, <1>5, <2>2, <3>1
  <2>3. CASE x \notin A /\ x \notin B
    <3>1. net'[x] = net[x] /\ net[x] \in Seq(Messages)
      BY <1>3, <2>3 DEF TypeInv, TypeOK
    <3>2. hits(net[x], headed(x)) \in Nat /\ hits(net[x], views) \in Nat
      BY <3>1, HitsType
    <3> QED
      BY <3>1, <3>2 DEF trims
  <2> QED
    BY <2>1, <2>2, <2>3
<1> QED
  BY <1>6

(* A merge takes nothing away.                                             *)
LEMMA MergeTrims ==
    ASSUME TypeInv, NEW s \in Servers, NEW t \in Servers, Merge(s, t)
    PROVE  \A x \in Servers : trims(net'[x], net[x], x)
<1> DEFINE group == conn[s] \cup conn[t]
<1>1. group \in SUBSET Servers
  BY DEF TypeInv, TypeOK
<1>2. net' = [x \in Servers |->
                IF x \in group THEN net[x] \o view(group) ELSE net[x]]
  BY DEF Merge
<1> HIDE DEF group
<1>3. ASSUME NEW x \in Servers
      PROVE  trims(net'[x], net[x], x)
  <2>1. net[x] \in Seq(Messages)
    BY DEF TypeInv, TypeOK
  <2>2. hits(net[x], headed(x)) \in Nat /\ hits(net[x], views) \in Nat
    BY <2>1, HitsType
  <2>3. /\ hits(net[x] \o view(group), headed(x)) = hits(net[x], headed(x))
        /\ hits(net[x] \o view(group), views) = hits(net[x], views) + 1
        /\ net[x] \o view(group) \in Seq(Messages)
    BY <1>1, <2>1, HitsView, AppendView
  <2>4. trims(net[x] \o view(group), net[x], x) /\ trims(net[x], net[x], x)
    BY <2>1, <2>2, <2>3 DEF trims
  <2> QED
    BY <1>2, <2>4
<1> QED
  BY <1>3

(* A change of the network keeps the invariant.                            *)
LEMMA NetworkFlow ==
    ASSUME TypeInv, StraysGrow, Connected, FlowInv, Regroups, Quiet,
           changes' = changes + 1,
           \A x \in Servers : trims(net'[x], net[x], x)
    PROVE  FlowInv'
<1>1. SameTails'
  <2>1. ASSUME NEW x \in Servers, NEW t \in conn'[x]
        PROVE  sameTail(net'[x], net'[t])
    <3>1. CASE \A y \in conn[x] \cup {x} : net'[y] = net[y] /\ conn'[y] = conn[y]
      <4>1. t \in conn[x] /\ net'[x] = net[x] /\ net'[t] = net[t]
        BY <2>1, <3>1
      <4>2. sameTail(net[x], net[t])
        BY <4>1 DEF FlowInv, SameTails
      <4> QED
        BY <4>1, <4>2
    <3>2. CASE news(net'[x]) = {}
      <4>1. since(net'[x]) = {}
        BY <3>2 DEF news
      <4> QED
        BY <4>1 DEF sameTail
    <3> QED
      BY <3>1, <3>2 DEF Regroups
  <2> QED
    BY <2>1 DEF SameTails
<1>2. HeadersTell'
  <2>1. \A m \in onTheWay' : tells(m)
    BY DEF Quiet, FlowInv, HeadersTell, tells
  <2> QED
    BY <2>1 DEF HeadersTell, tells
<1>3. WindowsLeft'
  <2>1. ASSUME NEW x \in Servers
        PROVE  hits(net'[x], headed(x)) + MaxSend * (hits(net'[x], views) + waits(x)')
                  <= MaxSend * changes' + strays(x)'
    <3> DEFINE own == hits(net[x], headed(x))
               v == hits(net[x], views)
               r == hits(net'[x], headed(x))
               w == hits(net'[x], views)
               i == waits(x)
               more == strays(x)'
    <3>1. waits(x)' = i /\ i \in Nat
      BY DEF Regroups, waits
    <3>2. net[x] \in Seq(Messages) /\ changes \in Nat /\ MaxSend \in Nat
      BY MaxSendAssumption DEF TypeInv, TypeOK
    <3>3. /\ own \in Nat /\ v \in Nat /\ r \in Nat /\ w \in Nat
          /\ r <= own /\ w <= v + 1
      BY <3>2, HitsType DEF trims
    <3>4. /\ own + MaxSend * (v + i) <= MaxSend * changes + strays(x)
          /\ strays(x) \in Nat /\ more \in Nat /\ strays(x) <= more
      BY DEF FlowInv, WindowsLeft, StraysGrow
    <3> HIDE DEF own, v, r, w, i, more
    <3>5. MaxSend * (w + i) <= MaxSend * ((v + i) + 1)
      <4>1. PICK d \in Nat : w + i + d = (v + i) + 1
        <5>1. ((v + i) + 1) - (w + i) \in Nat
          BY <3>1, <3>3
        <5>2. w + i + (((v + i) + 1) - (w + i)) = (v + i) + 1
          BY <3>1, <3>3
        <5> QED
          BY <5>1, <5>2
      <4>2. MaxSend * (w + i + d) = MaxSend * (w + i) + MaxSend * d
        BY <3>1, <3>2, <3>3
      <4>3. MaxSend * d \in Nat /\ MaxSend * (w + i) \in Nat
        BY <3>1, <3>2, <3>3
      <4> QED
        BY <4>1, <4>2, <4>3
    <3>6. /\ MaxSend * ((v + i) + 1) = MaxSend * (v + i) + MaxSend
          /\ MaxSend * (changes + 1) = MaxSend * changes + MaxSend
      BY <3>1, <3>2, <3>3
    <3>7. r + MaxSend * (w + i) <= MaxSend * (changes + 1) + more
      <4> DEFINE after == MaxSend * (w + i)
                 before == MaxSend * (v + i)
                 bound == MaxSend * changes
                 wide == MaxSend * ((v + i) + 1)
                 next == MaxSend * (changes + 1)
      <4>1. after \in Nat /\ before \in Nat /\ bound \in Nat
        BY <3>1, <3>2, <3>3
      <4>2. /\ after <= wide /\ wide = before + MaxSend
            /\ next = bound + MaxSend /\ own + before <= bound + strays(x)
        BY <3>4, <3>5, <3>6
      <4> HIDE DEF after, before, bound, wide, next
      <4>3. r + after <= next + more
        BY <3>2, <3>3, <3>4, <4>1, <4>2
      <4> QED
        BY <4>3 DEF after, next
    <3> QED
      BY <3>1, <3>7 DEF r, w, i, more
  <2> QED
    BY <2>1 DEF WindowsLeft, headed, views
<1> QED
  BY <1>1, <1>2, <1>3 DEF FlowInv

(* Initially nothing is on the way.                                        *)
LEMMA FlowInit == Init => FlowInv
<1> SUFFICES ASSUME Init PROVE FlowInv
  OBVIOUS
<1>1. /\ \A s \in Servers : net[s] = <<>> /\ waits(s) = 0
      /\ changes = 0 /\ conn = [s \in Servers |-> {s}]
  BY DEF Init, waits, initialState
<1>2. SameTails
  <2>1. ASSUME NEW s \in Servers, NEW t \in conn[s]
        PROVE  sameTail(net[s], net[t])
    <3>1. since(net[s]) = {}
      BY <1>1 DEF since
    <3> QED
      BY <3>1 DEF sameTail
  <2> QED
    BY <2>1 DEF SameTails
<1>3. HeadersTell
  BY <1>1 DEF HeadersTell, onTheWay
<1>4. WindowsLeft
  <2>1. ASSUME NEW s \in Servers
        PROVE  hits(net[s], headed(s)) = 0 /\ hits(net[s], views) = 0 /\ waits(s) = 0
    <3> DEFINE e == <<>>
    <3>1. e \in Seq(Messages) /\ 1 .. Len(e) = {}
      OBVIOUS
    <3>2. net[s] = e
      BY <1>1
    <3> HIDE DEF e
    <3>3. net[s] \in Seq(Messages) /\ \A k \in 1 .. Len(net[s]) : FALSE
      BY <3>1, <3>2
    <3> QED
      BY <1>1, <3>3, HitsType
  <2>2. MaxSend * (0 + 0) = 0 /\ MaxSend * 0 = 0 /\ 0 + 0 = 0
    BY MaxSendAssumption
  <2>3. \A s \in Servers : strays(s) \in Nat
    <3>1. issued = {}
      BY DEF Init, issued
    <3> QED
      BY <3>1, FS_EmptySet DEF strays
  <2> QED
    BY <1>1, <2>1, <2>2, <2>3 DEF WindowsLeft
<1> QED
  BY <1>2, <1>3, <1>4 DEF FlowInv

(* Every step keeps the invariant.                                         *)
LEMMA FlowNext ==
    ASSUME TypeInv, LogInv, IsFiniteSet(issued), StraysGrow, Connected, FlowInv,
           [Next]_vars
    PROVE  FlowInv'
<1>1. ASSUME NEW s \in Servers, spoken(s)
      PROVE  FlowInv'
  <2>1. PICK n, e : Speaks(s, n, e) /\ Spends(s, n, e)
    BY <1>1 DEF spoken
  <2> QED
    BY <2>1, SpeaksTails, SpeaksHeaders, SpeaksWindows DEF FlowInv
<1>2. CASE \E s \in Servers : Command(s)
  BY <1>1, <1>2, CommandSpeaks
<1>3. CASE \E s \in Servers : Receive(s)
  <2>1. \A s \in Servers : Receive(s) => spoken(s)
    BY ReceiveUpdateSpeaks, ReceiveMatrixSpeaks, ReceiveLastMatrixSpeaks, ReceiveViewSpeaks
    DEF Receive, FlowInv
  <2> QED
    BY <1>1, <1>3, <2>1
<1>4. CASE \E A, B \in SUBSET Servers : Split(A, B)
  <2>1. PICK A \in SUBSET Servers, B \in SUBSET Servers : Split(A, B)
    BY <1>4
  <2>2. changes' = changes + 1
    BY <2>1 DEF Split
  <2>3. Regroups /\ Quiet /\ \A x \in Servers : trims(net'[x], net[x], x)
    BY <2>1, SplitRegroups, SplitKind, SplitTrims DEF FlowInv
  <2> QED
    BY <2>2, <2>3, NetworkFlow
<1>5. CASE \E s, t \in Servers : Merge(s, t)
  <2>1. PICK s \in Servers, t \in Servers : Merge(s, t)
    BY <1>5
  <2>2. changes' = changes + 1
    BY <2>1 DEF Merge
  <2>3. Regroups /\ Quiet /\ \A x \in Servers : trims(net'[x], net[x], x)
    BY <2>1, MergeRegroups, MergeKind, MergeTrims
  <2> QED
    BY <2>2, <2>3, NetworkFlow
<1>6. CASE UNCHANGED vars
  BY <1>6 DEF vars, FlowInv, SameTails, HeadersTell, WindowsLeft, onTheWay, waits,
     strays, issued
<1> QED
  BY <1>2, <1>3, <1>4, <1>5, <1>6 DEF Next

(* A server never has more windows of resent updates on their way to it    *)
(* than the network has changed (sendMissingUpdates), whatever is lost in  *)
(* a split, whatever reconciliations old matrices end, and whatever the    *)
(* unset proc_num of a client's update holds (generateUpdate): one that    *)
(* happens to be the server's own number lets it send one more.            *)
THEOREM WindowsAlwaysBounded == Spec => []FlowWindow
<1> DEFINE Inv == FlowInv /\ IsFiniteSet(issued)
<1>1. Init => Inv
  <2>1. Init => issued = {}
    BY DEF Init, issued
  <2> QED
    BY <2>1, FlowInit, FS_EmptySet
<1>2. TypeInv /\ LogInv /\ QueueInv /\ Inv /\ [Next]_vars => Inv'
  <2>1. TypeInv /\ LogInv /\ Inv /\ [Next]_vars => IsFiniteSet(issued)' /\ StraysGrow
    BY StraysSteps
  <2> QED
    BY <2>1, FlowNext DEF QueueInv
<1>3. TypeInv /\ Inv => FlowWindow
  <2>1. SUFFICES ASSUME TypeInv, FlowInv, IsFiniteSet(issued), NEW s \in Servers
                 PROVE  Cardinality({k \in DOMAIN net[s] :
                            /\ net[s][k].type = "UPDATE"
                            /\ net[s][k].from = s
                            /\ net[s][k].resent}) <= MaxSend * changes + strays(s)
    BY DEF FlowWindow
  <2> DEFINE own == {k \in DOMAIN net[s] : /\ net[s][k].type = "UPDATE"
                                            /\ net[s][k].from = s
                                            /\ net[s][k].resent}
             taken == hits(net[s], headed(s))
             rest == MaxSend * (hits(net[s], views) + waits(s))
             bound == MaxSend * changes
  <2>2. net[s] \in Seq(Messages) /\ \A k \in DOMAIN net[s] : net[s][k] \in Messages
    BY <2>1, LenProperties, ElementOfSeq DEF TypeInv, TypeOK
  <2>3. own \subseteq hitsAt(net[s], headed(s))
    <3>1. \A k \in DOMAIN net[s] : tells(net[s][k])
      BY <2>1, <2>2, LenProperties DEF FlowInv, HeadersTell, onTheWay
    <3> QED
      BY <2>2, <3>1 DEF tells, hitsAt, headed
  <2>4. Cardinality(own) \in Nat /\ taken \in Nat /\ Cardinality(own) <= taken
    <3>1. IsFiniteSet(hitsAt(net[s], headed(s)))
      BY <2>2, HitsType
    <3> QED
      BY <2>3, <3>1, FS_Subset, FS_CardinalityType DEF hits
  <2>5. rest \in Nat /\ bound \in Nat /\ strays(s) \in Nat
    <3>1. hits(net[s], views) \in Nat /\ waits(s) \in Nat /\ changes \in Nat
      BY <2>1, <2>2, HitsType DEF waits, TypeInv, TypeOK
    <3> QED
      BY <2>1, <3>1, MaxSendAssumption, FS_CardinalityType DEF strays
  <2>6. taken + rest <= bound + strays(s)
    BY <2>1 DEF FlowInv, WindowsLeft
  <2> HIDE DEF own, taken, rest, bound
  <2>7. Cardinality(own) <= bound + strays(s)
    BY <2>4, <2>5, <2>6
  <2> QED
    BY <2>7 DEF own, bound
<1> HIDE DEF Inv
<1> QED
  BY <1>1, <1>2, <1>3, LogAlways, QueueAlways, PTL DEF Spec
=============================================================================
