-------------------------- MODULE MailClientProofs --------------------------
(***************************************************************************)
(* Proofs about MailClient, for any servers and users, any numbers of      *)
(* mails, commands and cuts, and queues of any length: the list that is    *)
(* displayed is the mailbox that was listed, and numbers stand for the     *)
(* mails that were shown with them.                                        *)
(*                                                                         *)
(* The invariant says that in every queue the mails of a list follow their *)
(* header without gaps, that what is still to come of the current list     *)
(* goes on where the client's list ends, and what the two counters count.  *)
(***************************************************************************)
EXTENDS MailClient, SequenceTheorems, TLAPS

Mails == [to : Users, id : Nat]

Messages ==
    [type : {"HEADER"}, mails : Seq(Mails)] \cup [type : {"MAIL"}, mail : Mails]
    \cup {Reply} \cup [type : {"MEMBERSHIP"}, there : BOOLEAN]

Requests ==
    [type : {"LIST"}, user : Users] \cup [type : {"NEWMAIL"}, to : Users]
    \cup [type : {"READ", "DELETE"}, user : Users, mail : Mails] \cup {[type |-> "OTHER"]}

TypeInv ==
    /\ userName \in Users \cup {None} /\ group \in Servers \cup {None}
    /\ maxMailNum \in Nat /\ curr_count \in Nat /\ mails \in Nat
    /\ emails \in Seq(Mails) /\ shown \in Seq(Mails)
    /\ listed \in [from : Servers \cup {None}, mails : Seq(Mails)]
    /\ mixed \in BOOLEAN /\ reach \in [Servers -> BOOLEAN]
    /\ box \in [Servers -> [Users -> Seq(Mails)]]
    /\ cmds \in [Servers -> Seq(Requests)] /\ inbox \in [Servers -> Seq(Messages)]

(* The mails of q behind position i, up to the first other message, are    *)
(* those of ms from the one after n on.                                    *)
Follows(q, i, ms, n) ==
    \A k \in 1 .. Len(q) - i :
        (\A l \in 1 .. k : q[i + l].type = "MAIL")
            => n + k <= Len(ms) /\ q[i + k].mail = ms[n + k]

(* Lists come whole or cut at their end, one after the other.              *)
InLists(q) ==
    /\ \A i \in 1 .. Len(q) : q[i].type = "HEADER" => Follows(q, i, q[i].mails, 0)
    /\ \A i \in 2 .. Len(q) : q[i].type = "MAIL" => q[i - 1].type \in {"HEADER", "MAIL"}

(* What is on the way of the current list, and what has come of it.        *)
ListInv ==
    /\ \A s \in Servers : InLists(inbox[s])
    /\ curr_count <= Len(emails)
    /\ shown # <<>> => maxMailNum <= Len(emails)
    /\ ~ mixed =>
         /\ \A s \in Servers :
               listed.from = s => Follows(inbox[s], 0, listed.mails, Len(emails))
         /\ Len(emails) <= Len(listed.mails)
         /\ \A k \in 1 .. Len(emails) : emails[k] = listed.mails[k]
         /\ maxMailNum = Len(listed.mails)
         /\ shown = <<>> => curr_count = Len(emails)
         /\ shown # <<>> => emails = listed.mails /\ shown = listed.mails

Inv == TypeInv /\ ListInv

-----------------------------------------------------------------------------
(* Sequences: what is deleted from, appended to and cut from a queue.      *)

LEMMA WithoutType ==
    ASSUME NEW S, NEW q \in Seq(S), NEW m PROVE without(q, m) \in Seq(S)
<1>1. CASE \E k \in DOMAIN q : q[k] = m
  <2> DEFINE k == CHOOSE j \in DOMAIN q : q[j] = m
  <2>1. k \in 1 .. Len(q)
    BY <1>1
  <2>2. without(q, m) = SubSeq(q, 1, k - 1) \o SubSeq(q, k + 1, Len(q))
    BY <1>1 DEF without
  <2> HIDE DEF k
  <2>3. SubSeq(q, 1, k - 1) \in Seq(S)
    BY <2>1
  <2>4. SubSeq(q, k + 1, Len(q)) \in Seq(S)
    BY <2>1
  <2> QED
    BY <2>2, <2>3, <2>4
<1>2. CASE ~ \E k \in DOMAIN q : q[k] = m
  BY <1>2 DEF without
<1> QED
  BY <1>1, <1>2

(* Of a queue whose messages behind j are among those of q behind i.       *)
LEMMA FollowsSame ==
    ASSUME NEW q, NEW i \in Nat, NEW t, NEW j \in Nat, NEW ms, NEW n,
           Len(q) \in Nat, Len(t) \in Nat, Follows(q, i, ms, n), Len(t) - j <= Len(q) - i,
           \A l \in 1 .. Len(t) - j : t[j + l] = q[i + l]
    PROVE  Follows(t, j, ms, n)
<1> SUFFICES ASSUME NEW k \in 1 .. Len(t) - j, \A l \in 1 .. k : t[j + l].type = "MAIL"
             PROVE  n + k <= Len(ms) /\ t[j + k].mail = ms[n + k]
  BY DEF Follows
<1>1. \A l \in 1 .. k : l \in 1 .. Len(t) - j
  OBVIOUS
<1>2. \A l \in 1 .. k : q[i + l].type = "MAIL"
  BY <1>1
<1>3. k \in 1 .. Len(q) - i
  OBVIOUS
<1>4. n + k <= Len(ms) /\ q[i + k].mail = ms[n + k]
  BY <1>2, <1>3 DEF Follows
<1> QED
  BY <1>1, <1>4

LEMMA FollowsConcat ==
    ASSUME NEW S, NEW q \in Seq(S), NEW r \in Seq(S), NEW i \in 0 .. Len(q), NEW ms, NEW n,
           Follows(q, i, ms, n), r # <<>> => r[1].type # "MAIL"
    PROVE  Follows(q \o r, i, ms, n)
<1> SUFFICES ASSUME NEW k \in 1 .. Len(q \o r) - i,
                    \A l \in 1 .. k : (q \o r)[i + l].type = "MAIL"
             PROVE  n + k <= Len(ms) /\ (q \o r)[i + k].mail = ms[n + k]
  BY DEF Follows
<1>1. k \in 1 .. Len(q) - i
  <2> SUFFICES ASSUME i + k > Len(q) PROVE FALSE
    OBVIOUS
  <2>1. Len(r) >= 1 /\ Len(q) + 1 - i \in 1 .. k
    OBVIOUS
  <2>2. r # <<>> /\ i + (Len(q) + 1 - i) = Len(q) + 1
    BY <2>1
  <2>3. (q \o r)[Len(q) + 1] = r[1]
    BY <2>1
  <2>4. (q \o r)[Len(q) + 1].type = "MAIL"
    BY <2>1, <2>2
  <2> QED
    BY <2>2, <2>3, <2>4
<1>2. \A l \in 1 .. k : (q \o r)[i + l] = q[i + l]
  BY <1>1
<1>3. \A l \in 1 .. k : q[i + l].type = "MAIL"
  BY <1>2
<1>4. n + k <= Len(ms) /\ q[i + k].mail = ms[n + k]
  BY <1>1, <1>3 DEF Follows
<1> QED
  BY <1>1, <1>2, <1>4

LEMMA InListsConcat ==
    ASSUME NEW S, NEW q \in Seq(S), NEW r \in Seq(S), InLists(q), InLists(r),
           r # <<>> => r[1].type # "MAIL"
    PROVE  InLists(q \o r)
<1> DEFINE t == q \o r
<1>1. t \in Seq(S) /\ Len(t) = Len(q) + Len(r)
  OBVIOUS
<1>2. \A i \in 1 .. Len(q) : t[i] = q[i]
  OBVIOUS
<1>3. \A i \in 1 .. Len(r) : t[Len(q) + i] = r[i]
  OBVIOUS
<1>4. ASSUME NEW i \in 1 .. Len(t), t[i].type = "HEADER"
      PROVE  Follows(t, i, t[i].mails, 0)
  <2>1. CASE i <= Len(q)
    <3>1. Follows(q, i, q[i].mails, 0)
      BY <1>2, <1>4, <2>1 DEF InLists
    <3> QED
      BY <3>1, <1>2, <2>1, FollowsConcat
  <2>2. CASE i > Len(q)
    <3> DEFINE j == i - Len(q)
    <3>1. j \in 1 .. Len(r) /\ t[i] = r[j]
      BY <1>1, <1>3, <2>2
    <3>2. Follows(r, j, t[i].mails, 0)
      BY <3>1, <1>4 DEF InLists
    <3>3. \A l \in 1 .. Len(t) - i : t[i + l] = r[j + l]
      BY <1>1, <1>3, <2>2
    <3>4. /\ i \in Nat /\ j \in Nat /\ Len(r) \in Nat /\ Len(t) \in Nat
          /\ Len(t) - i <= Len(r) - j
      BY <1>1, <3>1
    <3> HIDE DEF t, j
    <3>5. ASSUME NEW ms, Follows(r, j, ms, 0) PROVE Follows(t, i, ms, 0)
      BY <3>3, <3>4, <3>5, FollowsSame
    <3> QED
      BY <3>2, <3>5
  <2> QED
    BY <2>1, <2>2, <1>1
<1>5. ASSUME NEW i \in 2 .. Len(t), t[i].type = "MAIL"
      PROVE  t[i - 1].type \in {"HEADER", "MAIL"}
  <2>1. CASE i <= Len(q)
    <3>1. t[i] = q[i] /\ t[i - 1] = q[i - 1] /\ i \in 2 .. Len(q)
      BY <1>2, <2>1
    <3> QED
      BY <3>1, <1>5 DEF InLists
  <2>2. CASE i = Len(q) + 1
    <3>1. t[i] = r[1] /\ r # <<>>
      BY <1>1, <1>3, <2>2
    <3> QED
      BY <3>1, <1>5
  <2>3. CASE i > Len(q) + 1
    <3>1. t[i] = r[i - Len(q)] /\ t[i - 1] = r[i - Len(q) - 1]
      BY <1>1, <1>3, <2>3
    <3>2. i - Len(q) \in 2 .. Len(r)
      BY <1>1, <2>3
    <3> QED
      BY <3>1, <3>2, <1>5 DEF InLists
  <2> QED
    BY <2>1, <2>2, <2>3, <1>1
<1> HIDE DEF t
<1>6. InLists(t)
  BY <1>4, <1>5 DEF InLists
<1> QED
  BY <1>6 DEF t

LEMMA Prefix ==
    ASSUME NEW S, NEW q \in Seq(S), NEW n \in 0 .. Len(q), InLists(q)
    PROVE  /\ SubSeq(q, 1, n) \in Seq(S)
           /\ InLists(SubSeq(q, 1, n))
           /\ \A ms, c : Follows(q, 0, ms, c) => Follows(SubSeq(q, 1, n), 0, ms, c)
<1> DEFINE t == SubSeq(q, 1, n)
<1>1. t \in Seq(S) /\ Len(t) = n /\ \A i \in 1 .. n : t[i] = q[i]
  OBVIOUS
<1> HIDE DEF t
<1>2. ASSUME NEW i \in 0 .. n, NEW ms, NEW c, Follows(q, i, ms, c)
      PROVE  Follows(t, i, ms, c)
  <2>1. \A l \in 1 .. Len(t) - i : t[i + l] = q[i + l]
    BY <1>1
  <2>2. i \in Nat /\ Len(q) \in Nat /\ Len(t) \in Nat /\ Len(t) - i <= Len(q) - i
    BY <1>1
  <2> QED
    BY <2>1, <2>2, <1>2, FollowsSame
<1>3. InLists(t)
  <2>1. \A i \in 1 .. n : t[i].type = "HEADER" => Follows(t, i, t[i].mails, 0)
    BY <1>1, <1>2 DEF InLists
  <2>2. \A i \in 2 .. n : t[i].type = "MAIL" => t[i - 1].type \in {"HEADER", "MAIL"}
    BY <1>1 DEF InLists
  <2> QED
    BY <2>1, <2>2, <1>1 DEF InLists
<1> QED
  BY <1>1, <1>2, <1>3 DEF t

LEMMA Rest ==
    ASSUME NEW S, NEW q \in Seq(S), q # <<>>, InLists(q)
    PROVE  /\ Tail(q) \in Seq(S) /\ Head(q) = q[1] /\ q[1] \in S
           /\ InLists(Tail(q))
           /\ q[1].type = "HEADER" => Follows(Tail(q), 0, q[1].mails, 0)
           /\ \A ms : \A n \in Nat :
                 Follows(q, 0, ms, n) /\ q[1].type = "MAIL" =>
                    /\ n + 1 <= Len(ms) /\ q[1].mail = ms[n + 1]
                    /\ Follows(Tail(q), 0, ms, n + 1)
           /\ q[1].type \notin {"HEADER", "MAIL"} => \A ms, n : Follows(Tail(q), 0, ms, n)
<1> DEFINE t == Tail(q)
<1>1. t \in Seq(S) /\ Len(t) = Len(q) - 1 /\ \A i \in 1 .. Len(q) - 1 : t[i] = q[i + 1]
  OBVIOUS
<1>2. Len(q) \in Nat \ {0} /\ Head(q) = q[1] /\ q[1] \in S
  OBVIOUS
<1> HIDE DEF t
<1>3. ASSUME NEW i \in 0 .. Len(t), NEW ms, NEW n, Follows(q, i + 1, ms, n)
      PROVE  Follows(t, i, ms, n)
  <2>1. \A l \in 1 .. Len(t) - i : t[i + l] = q[(i + 1) + l]
    BY <1>1, <1>2
  <2>2. /\ i \in Nat /\ i + 1 \in Nat /\ Len(q) \in Nat /\ Len(t) \in Nat
        /\ Len(t) - i <= Len(q) - (i + 1)
    BY <1>1, <1>2
  <2> QED
    BY <2>1, <2>2, <1>3, FollowsSame
<1>4. InLists(t)
  <2>1. \A i \in 1 .. Len(t) : t[i].type = "HEADER" => Follows(t, i, t[i].mails, 0)
    BY <1>1, <1>2, <1>3 DEF InLists
  <2>2. \A i \in 2 .. Len(t) : t[i].type = "MAIL" => t[i - 1].type \in {"HEADER", "MAIL"}
    BY <1>1, <1>2 DEF InLists
  <2> QED
    BY <2>1, <2>2 DEF InLists
<1>5. q[1].type = "HEADER" => Follows(t, 0, q[1].mails, 0)
  <2>1. 0 \in 0 .. Len(t) /\ 0 + 1 = 1 /\ 1 \in 1 .. Len(q)
    BY <1>1, <1>2
  <2> QED
    BY <2>1, <1>3 DEF InLists
<1>6. ASSUME NEW ms, NEW n \in Nat, Follows(q, 0, ms, n), q[1].type = "MAIL"
      PROVE  n + 1 <= Len(ms) /\ q[1].mail = ms[n + 1] /\ Follows(t, 0, ms, n + 1)
  <2>1. n + 1 <= Len(ms) /\ q[1].mail = ms[n + 1]
    BY <1>2, <1>6 DEF Follows
  <2>2. ASSUME NEW k \in 1 .. Len(t), \A l \in 1 .. k : t[l].type = "MAIL"
        PROVE  n + 1 + k <= Len(ms) /\ t[k].mail = ms[n + 1 + k]
    <3>1. k + 1 \in 1 .. Len(q) /\ t[k] = q[k + 1]
      BY <1>1, <1>2
    <3>2. ASSUME NEW l \in 1 .. k + 1 PROVE q[0 + l].type = "MAIL"
      <4>1. CASE l = 1
        BY <4>1, <1>6
      <4>2. CASE l > 1
        <5>1. l - 1 \in 1 .. k /\ t[l - 1] = q[l]
          BY <1>1, <1>2, <4>2
        <5> QED
          BY <5>1, <2>2
      <4> QED
        BY <4>1, <4>2
    <3>3. n + (k + 1) <= Len(ms) /\ q[k + 1].mail = ms[n + (k + 1)]
      BY <3>1, <3>2, <1>6 DEF Follows
    <3> QED
      BY <3>1, <3>3
  <2> QED
    BY <2>1, <2>2, <1>1 DEF Follows
<1>7. ASSUME q[1].type \notin {"HEADER", "MAIL"}, NEW ms, NEW n
      PROVE  Follows(t, 0, ms, n)
  <2>1. ASSUME Len(t) >= 1 PROVE t[1].type # "MAIL"
    <3>1. 2 \in 2 .. Len(q) /\ t[1] = q[2]
      BY <1>1, <1>2, <2>1
    <3> QED
      BY <3>1, <1>7 DEF InLists
  <2>2. ASSUME NEW k \in 1 .. Len(t) PROVE 1 \in 1 .. k /\ Len(t) >= 1
    BY <1>1, <1>2
  <2> QED
    BY <2>1, <2>2 DEF Follows
<1> QED
  BY <1>1, <1>2, <1>4, <1>5, <1>6, <1>7 DEF t

-----------------------------------------------------------------------------
(* Types.                                                                  *)

LEMMA RequestTypes ==
    /\ [type |-> "OTHER"] \in Requests
    /\ \A u \in Users : [type |-> "LIST", user |-> u] \in Requests
                      /\ [type |-> "NEWMAIL", to |-> u] \in Requests
    /\ \A u \in Users, m \in Mails, t \in {"READ", "DELETE"} :
          [type |-> t, user |-> u, mail |-> m] \in Requests
  BY DEF Requests

LEMMA RequestFields ==
    ASSUME NEW c \in Requests
    PROVE  /\ c.type \in {"LIST", "DELETE"} => c.user \in Users
           /\ c.type = "NEWMAIL" => c.to \in Users
  BY DEF Requests

LEMMA MessageTypes ==
    /\ Reply \in Messages
    /\ \A b \in BOOLEAN : Membership(b) \in Messages
    /\ \A ms \in Seq(Mails) : Header(ms) \in Messages
    /\ \A m \in Mails : OneMail(m) \in Messages
  BY DEF Messages, Reply, Membership, Header, OneMail

LEMMA MessageFields ==
    ASSUME NEW m \in Messages
    PROVE  /\ m.type \in {"HEADER", "MAIL", "REPLY", "MEMBERSHIP"}
           /\ m.type = "HEADER" => m.mails \in Seq(Mails)
           /\ m.type = "MAIL" => m.mail \in Mails
  BY DEF Messages, Reply

(* A list as it is sent.                                                   *)
LEMMA ListMessages ==
    ASSUME NEW b \in Seq(Mails),
           NEW r, r = <<Header(b)>> \o [k \in DOMAIN b |-> OneMail(b[k])]
    PROVE  /\ r \in Seq(Messages) /\ r # <<>> /\ r[1].type = "HEADER" /\ InLists(r)
<1> DEFINE t == [k \in DOMAIN b |-> OneMail(b[k])]
<1>1. t \in Seq(Messages) /\ Len(t) = Len(b) /\ \A k \in 1 .. Len(b) : t[k] = OneMail(b[k])
  <2>1. \A k \in 1 .. Len(b) : OneMail(b[k]) \in Messages
    BY MessageTypes
  <2>2. t = [k \in 1 .. Len(b) |-> OneMail(b[k])]
    OBVIOUS
  <2> QED
    BY <2>1, <2>2
<1>2. <<Header(b)>> \in Seq(Messages)
  BY MessageTypes
<1>3. r = <<Header(b)>> \o t
  OBVIOUS
<1> HIDE DEF t
<1>4. /\ r \in Seq(Messages) /\ Len(r) = Len(b) + 1 /\ r[1] = Header(b)
      /\ \A k \in 1 .. Len(b) : r[k + 1] = OneMail(b[k])
  BY <1>1, <1>2, <1>3
<1>5. ASSUME NEW i \in 2 .. Len(r) PROVE r[i].type = "MAIL"
  <2>1. i - 1 \in 1 .. Len(b) /\ (i - 1) + 1 = i
    BY <1>4
  <2> QED
    BY <2>1, <1>4 DEF OneMail
<1>6. r[1].type = "HEADER" /\ r[1].mails = b
  BY <1>4 DEF Header
<1>7. Follows(r, 1, b, 0)
  <2> SUFFICES ASSUME NEW k \in 1 .. Len(r) - 1
               PROVE  0 + k <= Len(b) /\ r[1 + k].mail = b[0 + k]
    BY DEF Follows
  <2>1. k \in 1 .. Len(b) /\ 1 + k = k + 1 /\ 0 + k = k
    BY <1>4
  <2> QED
    BY <2>1, <1>4 DEF OneMail
<1>8. InLists(r)
  <2>1. \A i \in 1 .. Len(r) : r[i].type = "HEADER" => i = 1
    BY <1>4, <1>5
  <2>2. \A i \in 2 .. Len(r) : r[i - 1].type \in {"HEADER", "MAIL"}
    <3> TAKE i \in 2 .. Len(r)
    <3>1. i - 1 = 1 \/ i - 1 \in 2 .. Len(r)
      BY <1>4
    <3> QED
      BY <3>1, <1>5, <1>6
  <2> QED
    BY <2>1, <2>2, <1>6, <1>7 DEF InLists
<1> QED
  BY <1>4, <1>6, <1>8

(* What a step of the user leaves alone.                                   *)
LEMMA TypesStep ==
    ASSUME Types
    PROVE  UNCHANGED <<maxMailNum, curr_count, emails, shown, listed, mixed, box, mails, reach>>
  BY DEF Types, servers, network

LEMMA SendType ==
    ASSUME TypeInv, group \in Servers, NEW c \in Requests, sendCommand(c)
    PROVE  cmds' \in [Servers -> Seq(Requests)]
<1>1. Append(cmds[group], c) \in Seq(Requests)
  BY DEF TypeInv
<1> QED
  BY <1>1 DEF TypeInv, sendCommand

LEMMA CommandTypes ==
    ASSUME TypeInv,
           \/ \E s \in Servers : Connect(s)
           \/ \E u \in Users : Login(u) \/ mailSetup(u)
           \/ ConnectNowhere \/ listHeaders \/ printMembership
           \/ \E n \in 1 .. maxMailNum : byNumber("DELETE", n) \/ byNumber("READ", n)
    PROVE  TypeInv' /\ UNCHANGED <<maxMailNum, curr_count, emails, shown, listed, mixed>>
<1>1. UNCHANGED <<maxMailNum, curr_count, emails, shown, listed, mixed, box, mails, reach>>
  BY TypesStep DEF Connect, Login, mailSetup, ConnectNowhere, listHeaders,
                   printMembership, byNumber, Commands
<1>2. ASSUME NEW s \in Servers, Connect(s) PROVE TypeInv'
  <2>1. Append(inbox[s], Membership(reach[s])) \in Seq(Messages)
    BY MessageTypes DEF TypeInv
  <2>2. inbox' \in [Servers -> Seq(Messages)]
    BY <1>2, <2>1 DEF Connect, TypeInv
  <2> QED
    BY <1>1, <1>2, <2>2 DEF Connect, TypeInv
<1>3. ASSUME NEW u \in Users, Login(u) PROVE TypeInv'
  <2>1. group \in Servers
    BY <1>3 DEF Login, TypeInv
  <2>2. cmds' \in [Servers -> Seq(Requests)]
    BY <1>3, <2>1, SendType, RequestTypes DEF Login
  <2> QED
    BY <1>1, <1>3, <2>2 DEF Login, TypeInv
<1>4. ASSUME NEW u \in Users, mailSetup(u) PROVE TypeInv'
  <2>1. group \in Servers
    BY <1>4 DEF mailSetup, Commands, TypeInv
  <2>2. cmds' \in [Servers -> Seq(Requests)]
    BY <1>4, <2>1, SendType, RequestTypes DEF mailSetup
  <2> QED
    BY <1>1, <1>4, <2>2 DEF mailSetup, Commands, TypeInv
<1>5. CASE ConnectNowhere
  BY <1>1, <1>5 DEF ConnectNowhere, TypeInv
<1>6. CASE listHeaders
  <2>1. group \in Servers /\ userName \in Users
    BY <1>6 DEF listHeaders, Commands, TypeInv
  <2>2. cmds' \in [Servers -> Seq(Requests)]
    BY <1>6, <2>1, SendType, RequestTypes DEF listHeaders
  <2> QED
    BY <1>1, <1>6, <2>2 DEF listHeaders, Commands, TypeInv
<1>7. CASE printMembership
  <2>1. group \in Servers
    BY <1>7 DEF printMembership, TypeInv
  <2>2. cmds' \in [Servers -> Seq(Requests)]
    BY <1>7, <2>1, SendType, RequestTypes DEF printMembership
  <2> QED
    BY <1>1, <1>7, <2>2 DEF printMembership, TypeInv
<1>8. ASSUME NEW n \in 1 .. maxMailNum, NEW t \in {"READ", "DELETE"}, byNumber(t, n)
      PROVE  TypeInv'
  <2>1. group \in Servers /\ userName \in Users
    BY <1>8 DEF byNumber, Commands, TypeInv
  <2>2. cmds' \in [Servers -> Seq(Requests)]
    <3>1. CASE n <= Len(emails)
      <4>1. emails[n] \in Mails
        BY <3>1 DEF TypeInv
      <4>2. [type |-> t, user |-> userName, mail |-> emails[n]] \in Requests
        BY <2>1, <4>1, RequestTypes
      <4>3. n \in Nat /\ ~ n > Len(emails)
        BY <3>1 DEF TypeInv
      <4>4. sendCommand([type |-> t, user |-> userName, mail |-> emails[n]])
        BY <1>8, <4>3 DEF byNumber
      <4> QED
        BY <2>1, <4>2, <4>4, SendType
    <3>2. CASE n > Len(emails)
      BY <1>8, <3>2 DEF byNumber, TypeInv
    <3> QED
      BY <3>1, <3>2 DEF TypeInv
  <2> QED
    BY <1>1, <1>8, <2>2 DEF byNumber, Commands, TypeInv
<1> QED
  BY <1>1, <1>2, <1>3, <1>4, <1>5, <1>6, <1>7, <1>8

LEMMA ReceiveTypes ==
    ASSUME TypeInv, NEW s \in Servers, Receive(s)
    PROVE  TypeInv'
<1>1. inbox[s] \in Seq(Messages) /\ inbox[s] # <<>>
  BY DEF TypeInv, Receive, ReceiveHeader, ReceiveMail, ReceiveReply, ReceiveMembership, Arrives
<1>2. Tail(inbox[s]) \in Seq(Messages) /\ Head(inbox[s]) \in Messages
  BY <1>1
<1>3. /\ inbox' \in [Servers -> Seq(Messages)]
      /\ UNCHANGED <<userName, box, mails, reach, cmds>>
  BY <1>2 DEF TypeInv, Receive, ReceiveHeader, ReceiveMail, ReceiveReply, ReceiveMembership,
              Arrives, servers, network
<1>4. CASE ReceiveHeader(s)
  <2>1. Head(inbox[s]).mails \in Seq(Mails)
    BY <1>2, <1>4, MessageFields DEF ReceiveHeader, Arrives
  <2>2. Len(Head(inbox[s]).mails) \in Nat
    BY <2>1
  <2>3. listed' \in [from : Servers \cup {None}, mails : Seq(Mails)]
    BY <1>4, <2>1 DEF ReceiveHeader
  <2>4. <<>> \in Seq(Mails)
    OBVIOUS
  <2> QED
    BY <1>3, <1>4, <2>2, <2>3, <2>4 DEF TypeInv, ReceiveHeader
<1>5. CASE ReceiveMail(s)
  <2>1. Head(inbox[s]).mail \in Mails
    BY <1>2, <1>5, MessageFields DEF ReceiveMail, Arrives
  <2>2. emails' \in Seq(Mails) /\ shown' \in Seq(Mails)
    BY <1>5, <2>1 DEF TypeInv, ReceiveMail
  <2>3. curr_count' \in Nat
    BY <1>5 DEF TypeInv, ReceiveMail
  <2>4. mixed' \in BOOLEAN
    BY <1>5 DEF ReceiveMail
  <2> QED
    BY <1>3, <1>5, <2>2, <2>3, <2>4 DEF TypeInv, ReceiveMail
<1>6. CASE ReceiveReply(s)
  BY <1>3, <1>6 DEF TypeInv, ReceiveReply
<1>7. CASE ReceiveMembership(s)
  BY <1>3, <1>7 DEF TypeInv, ReceiveMembership
<1> QED
  BY <1>4, <1>5, <1>6, <1>7 DEF Receive

(* A server's answer is appended, and is a list or a reply.                *)
Answers(s) ==
    \E r \in Seq(Messages) :
        /\ inbox' = [inbox EXCEPT ![s] = @ \o r]
        /\ r # <<>> /\ r[1].type # "MAIL" /\ InLists(r)

LEMMA OneMessage ==
    ASSUME NEW m \in Messages, m.type \notin {"HEADER", "MAIL"}
    PROVE  /\ <<m>> \in Seq(Messages) /\ <<m>> # <<>> /\ <<m>>[1].type # "MAIL"
           /\ InLists(<<m>>)
<1>1. Len(<<m>>) = 1 /\ <<m>>[1] = m
  OBVIOUS
<1> QED
  BY <1>1 DEF InLists

LEMMA ServeAnswers ==
    ASSUME TypeInv, NEW s \in Servers, Serve(s)
    PROVE  /\ Answers(s) /\ UNCHANGED <<client, reach>>
           /\ cmds' \in [Servers -> Seq(Requests)]
           /\ box' \in [Servers -> [Users -> Seq(Mails)]] /\ mails' \in Nat
<1>1. cmds[s] \in Seq(Requests) /\ cmds[s] # <<>>
  BY DEF TypeInv, Serve, ServeList, ServeNewMail, ServeDelete, ServeOther, Serves
<1>2. Tail(cmds[s]) \in Seq(Requests) /\ Head(cmds[s]) \in Requests
  BY <1>1
<1>3. cmds' \in [Servers -> Seq(Requests)] /\ UNCHANGED <<client, reach>>
  BY <1>2 DEF TypeInv, Serve, ServeList, ServeNewMail, ServeDelete, ServeOther, Serves, network
<1>4. /\ <<Reply>> \in Seq(Messages) /\ <<Reply>> # <<>> /\ <<Reply>>[1].type # "MAIL"
      /\ InLists(<<Reply>>)
  BY OneMessage, MessageTypes DEF Reply
<1>5. CASE ServeList(s)
  <2>1. Head(cmds[s]).user \in Users
    BY <1>2, <1>5, RequestFields DEF ServeList, Serves
  <2>2. PICK b \in Seq(Mails) : b = box[s][Head(cmds[s]).user]
    BY <2>1 DEF TypeInv
  <2>3. PICK r : r = <<Header(b)>> \o [k \in DOMAIN b |-> OneMail(b[k])]
    OBVIOUS
  <2>4. inbox' = [inbox EXCEPT ![s] = @ \o r]
    BY <1>5, <2>2, <2>3 DEF ServeList, responds
  <2>5. r \in Seq(Messages) /\ r # <<>> /\ r[1].type = "HEADER" /\ InLists(r)
    BY <2>3, ListMessages
  <2>6. Answers(s)
    BY <2>4, <2>5 DEF Answers
  <2> QED
    BY <1>3, <1>5, <2>6 DEF ServeList, TypeInv, servers
<1>6. CASE ServeNewMail(s)
  <2>1. PICK u \in Users : u = Head(cmds[s]).to
    BY <1>2, <1>6, RequestFields DEF ServeNewMail, Serves
  <2>2. box' = [box EXCEPT ![s][u] = Append(@, Mail(u, mails + 1))] /\ mails' = mails + 1
    BY <1>6, <2>1 DEF ServeNewMail
  <2>3. Append(box[s][u], Mail(u, mails + 1)) \in Seq(Mails)
    <3>1. box[s][u] \in Seq(Mails)
      BY DEF TypeInv
    <3>2. Mail(u, mails + 1) \in Mails
      BY DEF TypeInv, Mail, Mails
    <3> QED
      BY <3>1, <3>2
  <2>4. Answers(s)
    BY <1>4, <1>6 DEF Answers, ServeNewMail, responds
  <2>5. PICK b \in Seq(Mails) : box' = [box EXCEPT ![s][u] = b]
    BY <2>2, <2>3
  <2>6. box' \in [Servers -> [Users -> Seq(Mails)]]
    BY <2>5 DEF TypeInv
  <2>7. mails' \in Nat
    BY <2>2 DEF TypeInv
  <2> QED
    BY <1>3, <2>4, <2>6, <2>7
<1>7. CASE ServeDelete(s)
  <2>1. PICK u \in Users : u = Head(cmds[s]).user
    BY <1>2, <1>7, RequestFields DEF ServeDelete, Serves
  <2>2. box' = [box EXCEPT ![s][u] = without(@, Head(cmds[s]).mail)] /\ mails' = mails
    BY <1>7, <2>1 DEF ServeDelete
  <2>3. box[s][u] \in Seq(Mails)
    BY DEF TypeInv
  <2>4. without(box[s][u], Head(cmds[s]).mail) \in Seq(Mails)
    BY <2>3, WithoutType
  <2>5. Answers(s)
    BY <1>4, <1>7 DEF Answers, ServeDelete, responds
  <2>6. PICK b \in Seq(Mails) : box' = [box EXCEPT ![s][u] = b]
    BY <2>2, <2>4
  <2>7. box' \in [Servers -> [Users -> Seq(Mails)]]
    BY <2>6 DEF TypeInv
  <2>8. mails' \in Nat
    BY <2>2 DEF TypeInv
  <2> QED
    BY <1>3, <2>5, <2>7, <2>8
<1>8. CASE ServeOther(s)
  BY <1>3, <1>4, <1>8 DEF Answers, ServeOther, responds, TypeInv, servers
<1> QED
  BY <1>5, <1>6, <1>7, <1>8 DEF Serve

LEMMA ServeTypes ==
    ASSUME TypeInv, NEW s \in Servers, Serve(s)
    PROVE  TypeInv'
<1>1. PICK r \in Seq(Messages) : inbox' = [inbox EXCEPT ![s] = @ \o r]
  BY ServeAnswers DEF Answers
<1>2. inbox[s] \o r \in Seq(Messages)
  BY DEF TypeInv
<1>3. inbox' \in [Servers -> Seq(Messages)]
  BY <1>1, <1>2 DEF TypeInv
<1> QED
  BY <1>3, ServeAnswers DEF TypeInv, client

LEMMA ElsewhereTypes ==
    ASSUME TypeInv, NEW s \in Servers, ChangeElsewhere(s)
    PROVE  TypeInv'
<1>1. PICK u \in Users :
          \/ /\ box' = [box EXCEPT ![s][u] = Append(@, Mail(u, mails + 1))]
             /\ mails' = mails + 1
          \/ /\ \E k \in DOMAIN box[s][u] :
                   box' = [box EXCEPT ![s][u] = without(@, box[s][u][k])]
             /\ mails' = mails
  BY DEF ChangeElsewhere
<1>2. box[s][u] \in Seq(Mails)
  BY DEF TypeInv
<1>3. Append(box[s][u], Mail(u, mails + 1)) \in Seq(Mails)
  BY <1>2 DEF TypeInv, Mail, Mails
<1>4. \A m : without(box[s][u], m) \in Seq(Mails)
  BY <1>2, WithoutType
<1>5. PICK b \in Seq(Mails) : box' = [box EXCEPT ![s][u] = b]
  BY <1>1, <1>3, <1>4
<1>6. box' \in [Servers -> [Users -> Seq(Mails)]]
  BY <1>5 DEF TypeInv
<1>7. mails' \in Nat
  BY <1>1 DEF TypeInv
<1> QED
  BY <1>6, <1>7 DEF ChangeElsewhere, TypeInv, client, network

(* What a cut leaves on the way.                                           *)
LEMMA CutLeaves ==
    ASSUME TypeInv, NEW s \in Servers, CutOff(s)
    PROVE  /\ \E n \in 0 .. Len(inbox[s]), r \in Seq(Messages) :
                 /\ inbox' = [inbox EXCEPT ![s] = SubSeq(@, 1, n) \o r]
                 /\ InLists(r)
                 /\ r # <<>> => r[1].type # "MAIL"
           /\ UNCHANGED <<client, servers>>
<1>1. PICK n \in 0 .. Len(inbox[s]) :
         inbox' = [inbox EXCEPT ![s] =
                     SubSeq(@, 1, n) \o (IF group = s THEN <<Membership(FALSE)>> ELSE <<>>)]
  BY DEF CutOff
<1>2. Membership(FALSE) \in Messages /\ Membership(FALSE).type = "MEMBERSHIP"
  BY MessageTypes DEF Membership
<1>3. <<Membership(FALSE)>> \in Seq(Messages) /\ InLists(<<Membership(FALSE)>>)
      /\ <<Membership(FALSE)>>[1].type # "MAIL"
  BY <1>2, OneMessage
<1>4. <<>> \in Seq(Messages) /\ InLists(<<>>)
  BY DEF InLists
<1>5. UNCHANGED <<client, servers>>
  BY DEF CutOff
<1> QED
  BY <1>1, <1>3, <1>4, <1>5

LEMMA CutTypes ==
    ASSUME TypeInv, NEW s \in Servers, CutOff(s)
    PROVE  TypeInv'
<1>1. PICK n \in 0 .. Len(inbox[s]), r \in Seq(Messages) :
         inbox' = [inbox EXCEPT ![s] = SubSeq(@, 1, n) \o r]
  BY CutLeaves
<1>2. SubSeq(inbox[s], 1, n) \o r \in Seq(Messages)
  BY DEF TypeInv
<1>3. inbox' \in [Servers -> Seq(Messages)]
  BY <1>1, <1>2 DEF TypeInv
<1>4. cmds' \in [Servers -> Seq(Requests)]
  BY DEF CutOff, TypeInv
<1>5. reach' \in [Servers -> BOOLEAN]
  BY DEF CutOff, TypeInv
<1> QED
  BY <1>3, <1>4, <1>5, CutLeaves DEF TypeInv, client, servers

LEMMA ReturnTypes ==
    ASSUME TypeInv, NEW s \in Servers, Return(s)
    PROVE  TypeInv'
<1>1. reach' \in [Servers -> BOOLEAN]
  BY DEF Return, TypeInv
<1> QED
  BY <1>1 DEF Return, TypeInv, client, servers

LEMMA TypesKept == TypeInv /\ [Next]_vars => TypeInv'
<1> SUFFICES ASSUME TypeInv, [Next]_vars PROVE TypeInv'
  OBVIOUS
<1>1. CASE UNCHANGED vars
  BY <1>1 DEF vars, client, servers, network, TypeInv
<1>2. CASE Next
  BY <1>2, CommandTypes, ReceiveTypes, ServeTypes, ElsewhereTypes, CutTypes, ReturnTypes
     DEF Next
<1> QED
  BY <1>1, <1>2

-----------------------------------------------------------------------------
(* The list.  Every step but the arrival of a header or of a mail leaves   *)
(* the client's list alone, and adds to a queue no mail that would belong  *)
(* to it.                                                                  *)
Continues(q, t) ==
    InLists(t) /\ \A ms, n : Follows(q, 0, ms, n) => Follows(t, 0, ms, n)

LEMMA InListsHere ==
    ASSUME TypeInv, ListInv, NEW s \in Servers
    PROVE  inbox[s] \in Seq(Messages) /\ InLists(inbox[s]) /\ Continues(inbox[s], inbox[s])
  BY DEF TypeInv, ListInv, Continues

LEMMA ConcatContinues ==
    ASSUME NEW q \in Seq(Messages), NEW r \in Seq(Messages), InLists(q), InLists(r),
           r # <<>> => r[1].type # "MAIL"
    PROVE  Continues(q, q \o r)
<1>1. InLists(q \o r)
  BY InListsConcat
<1>2. ASSUME NEW ms, NEW n, Follows(q, 0, ms, n) PROVE Follows(q \o r, 0, ms, n)
  <2>1. 0 \in 0 .. Len(q)
    OBVIOUS
  <2> QED
    BY <1>2, <2>1, FollowsConcat
<1> QED
  BY <1>1, <1>2 DEF Continues

(* One queue goes on as q, the others stay.                                *)
LEMMA OneContinues ==
    ASSUME TypeInv, ListInv, NEW s \in Servers, NEW q, inbox' = [inbox EXCEPT ![s] = q],
           Continues(inbox[s], q)
    PROVE  \A p \in Servers : Continues(inbox[p], inbox'[p])
  BY InListsHere DEF TypeInv

LEMMA ConnectContinues ==
    ASSUME TypeInv, ListInv, NEW s \in Servers, Connect(s)
    PROVE  \A p \in Servers : Continues(inbox[p], inbox'[p])
<1>1. PICK m \in Messages : m = Membership(reach[s])
  BY MessageTypes DEF TypeInv
<1>2. /\ <<m>> \in Seq(Messages) /\ <<m>> # <<>> /\ <<m>>[1].type # "MAIL"
      /\ InLists(<<m>>)
  BY <1>1, OneMessage DEF Membership
<1>3. Continues(inbox[s], inbox[s] \o <<m>>)
  BY <1>2, InListsHere, ConcatContinues
<1>4. inbox' = [inbox EXCEPT ![s] = Append(@, m)]
  BY <1>1 DEF Connect
<1>5. inbox[s] \o <<m>> = Append(inbox[s], m)
  BY InListsHere
<1>6. inbox' = [inbox EXCEPT ![s] = inbox[s] \o <<m>>]
  BY <1>4, <1>5
<1> QED
  BY <1>3, <1>6, OneContinues

LEMMA ServeContinues ==
    ASSUME TypeInv, ListInv, NEW s \in Servers, Serve(s)
    PROVE  \A p \in Servers : Continues(inbox[p], inbox'[p])
<1>1. PICK r \in Seq(Messages) :
         /\ inbox' = [inbox EXCEPT ![s] = @ \o r]
         /\ r # <<>> /\ r[1].type # "MAIL" /\ InLists(r)
  BY ServeAnswers DEF Answers
<1>2. Continues(inbox[s], inbox[s] \o r)
  BY <1>1, InListsHere, ConcatContinues
<1>3. inbox' = [inbox EXCEPT ![s] = inbox[s] \o r]
  BY <1>1
<1> QED
  BY <1>2, <1>3, OneContinues

LEMMA CutContinues ==
    ASSUME TypeInv, ListInv, NEW s \in Servers, CutOff(s)
    PROVE  \A p \in Servers : Continues(inbox[p], inbox'[p])
<1>1. PICK n \in 0 .. Len(inbox[s]), r \in Seq(Messages) :
         /\ inbox' = [inbox EXCEPT ![s] = SubSeq(@, 1, n) \o r]
         /\ InLists(r)
         /\ r # <<>> => r[1].type # "MAIL"
  BY CutLeaves
<1>2. PICK t : t = SubSeq(inbox[s], 1, n)
  OBVIOUS
<1>3. t \in Seq(Messages) /\ Continues(inbox[s], t)
  BY <1>2, InListsHere, Prefix DEF Continues
<1>4. Continues(t, t \o r)
  BY <1>1, <1>3, ConcatContinues DEF Continues
<1>5. Continues(inbox[s], t \o r)
  BY <1>3, <1>4 DEF Continues
<1>6. inbox' = [inbox EXCEPT ![s] = t \o r]
  BY <1>1, <1>2
<1> QED
  BY <1>5, <1>6, OneContinues

LEMMA ReplyContinues ==
    ASSUME TypeInv, ListInv, NEW s \in Servers, ReceiveReply(s) \/ ReceiveMembership(s)
    PROVE  \A p \in Servers : Continues(inbox[p], inbox'[p])
<1>1. /\ inbox[s] # <<>> /\ inbox' = [inbox EXCEPT ![s] = Tail(inbox[s])]
      /\ Head(inbox[s]).type \notin {"HEADER", "MAIL"}
  BY DEF ReceiveReply, ReceiveMembership, Arrives
<1>2. Continues(inbox[s], Tail(inbox[s]))
  BY <1>1, InListsHere, Rest DEF Continues
<1> QED
  BY <1>1, <1>2, OneContinues

(* Such a step keeps the invariant.                                        *)
LEMMA ListKept ==
    ASSUME TypeInv, ListInv,
           UNCHANGED <<maxMailNum, curr_count, emails, shown, listed, mixed>>,
           \A p \in Servers : Continues(inbox[p], inbox'[p])
    PROVE  ListInv'
<1>1. \A p \in Servers : InLists(inbox'[p])
  BY DEF Continues
<1>2. ASSUME ~ mixed, NEW s \in Servers, listed.from = s
      PROVE  Follows(inbox'[s], 0, listed.mails, Len(emails))
  BY <1>2 DEF Continues, ListInv
<1> QED
  BY <1>1, <1>2 DEF ListInv

LEMMA HeaderList ==
    ASSUME TypeInv, ListInv, NEW s \in Servers, ReceiveHeader(s)
    PROVE  ListInv'
<1>1. PICK h : h = inbox[s][1]
  OBVIOUS
<1>2. inbox[s] # <<>> /\ inbox' = [inbox EXCEPT ![s] = Tail(inbox[s])] /\ h.type = "HEADER"
  BY <1>1, InListsHere DEF ReceiveHeader, Arrives
<1>3. /\ Tail(inbox[s]) \in Seq(Messages) /\ Head(inbox[s]) = h /\ h \in Messages
      /\ InLists(Tail(inbox[s])) /\ Follows(Tail(inbox[s]), 0, h.mails, 0)
  BY <1>1, <1>2, InListsHere, Rest
<1>4. /\ maxMailNum' = Len(h.mails) /\ curr_count' = 0 /\ emails' = <<>> /\ shown' = <<>>
      /\ listed' = [from |-> s, mails |-> h.mails] /\ mixed' = FALSE
  BY <1>3 DEF ReceiveHeader
<1>5. h.mails \in Seq(Mails) /\ Len(h.mails) \in Nat
  BY <1>2, <1>3, MessageFields
<1>6. \A p \in Servers : InLists(inbox'[p])
  BY <1>2, <1>3, InListsHere DEF TypeInv
<1>7. Follows(inbox'[s], 0, listed'.mails, Len(emails'))
  BY <1>2, <1>3, <1>4 DEF TypeInv
<1>8. listed'.from = s /\ listed'.mails = h.mails /\ Len(emails') = 0
  BY <1>4
<1> QED
  BY <1>4, <1>5, <1>6, <1>7, <1>8 DEF ListInv

LEMMA MailList ==
    ASSUME TypeInv, ListInv, NEW s \in Servers, ReceiveMail(s)
    PROVE  ListInv'
<1>1. PICK h : h = inbox[s][1]
  OBVIOUS
<1>2. inbox[s] # <<>> /\ inbox' = [inbox EXCEPT ![s] = Tail(inbox[s])] /\ h.type = "MAIL"
  BY <1>1, InListsHere DEF ReceiveMail, Arrives
<1>3. /\ Head(inbox[s]) = h /\ h \in Messages /\ InLists(Tail(inbox[s]))
      /\ \A ms : \A n \in Nat :
            Follows(inbox[s], 0, ms, n) =>
               /\ n + 1 <= Len(ms) /\ h.mail = ms[n + 1]
               /\ Follows(Tail(inbox[s]), 0, ms, n + 1)
  BY <1>1, <1>2, InListsHere, Rest
<1>4. /\ emails' = Append(emails, h.mail) /\ UNCHANGED <<maxMailNum, listed>>
      /\ mixed' = (mixed \/ s # listed.from)
      /\ curr_count' = IF curr_count + 1 = maxMailNum THEN 0 ELSE curr_count + 1
      /\ shown' = IF curr_count + 1 = maxMailNum THEN emails' ELSE shown
  BY <1>3 DEF ReceiveMail
<1>5. /\ emails \in Seq(Mails) /\ Len(emails) \in Nat /\ curr_count \in Nat /\ maxMailNum \in Nat
      /\ listed.mails \in Seq(Mails) /\ Len(listed.mails) \in Nat /\ mixed \in BOOLEAN
      /\ h.mail \in Mails
  BY <1>2, <1>3, MessageFields DEF TypeInv
<1>6. /\ Len(emails') = Len(emails) + 1 /\ emails' # <<>>
      /\ emails'[Len(emails) + 1] = h.mail
      /\ \A k \in 1 .. Len(emails) : emails'[k] = emails[k]
  BY <1>4, <1>5
<1>7. \A p \in Servers : InLists(inbox'[p])
  BY <1>2, <1>3, InListsHere DEF TypeInv
<1>8. curr_count' <= Len(emails') /\ (shown' # <<>> => maxMailNum' <= Len(emails'))
  BY <1>4, <1>5, <1>6 DEF ListInv
<1>9. ASSUME ~ mixed'
      PROVE  /\ \A p \in Servers :
                   listed'.from = p => Follows(inbox'[p], 0, listed'.mails, Len(emails'))
             /\ Len(emails') <= Len(listed'.mails)
             /\ \A k \in 1 .. Len(emails') : emails'[k] = listed'.mails[k]
             /\ maxMailNum' = Len(listed'.mails)
             /\ shown' = <<>> => curr_count' = Len(emails')
             /\ shown' # <<>> => emails' = listed'.mails /\ shown' = listed'.mails
  <2>1. ~ mixed /\ listed.from = s
    BY <1>4, <1>9
  <2>2. /\ Follows(inbox[s], 0, listed.mails, Len(emails))
        /\ \A k \in 1 .. Len(emails) : emails[k] = listed.mails[k]
        /\ maxMailNum = Len(listed.mails)
        /\ shown = <<>> => curr_count = Len(emails)
        /\ shown # <<>> => emails = listed.mails
    BY <2>1 DEF ListInv
  <2>3. /\ Len(emails) + 1 <= Len(listed.mails) /\ h.mail = listed.mails[Len(emails) + 1]
        /\ Follows(Tail(inbox[s]), 0, listed.mails, Len(emails) + 1)
    BY <1>3, <1>5, <2>2
  <2>4. shown = <<>> /\ curr_count = Len(emails)
    <3>1. ASSUME emails = listed.mails PROVE FALSE
      BY <3>1, <1>5, <2>3
    <3> QED
      BY <3>1, <2>2
  <2>5. inbox'[s] = Tail(inbox[s])
    BY <1>2 DEF TypeInv
  <2>6. \A k \in 1 .. Len(emails') : emails'[k] = listed'.mails[k]
    <3> TAKE k \in 1 .. Len(emails')
    <3>1. k \in 1 .. Len(emails) \/ k = Len(emails) + 1
      BY <1>5, <1>6
    <3> QED
      BY <3>1, <1>4, <1>6, <2>2, <2>3
  <2>7. CASE curr_count + 1 = maxMailNum
    <3>1. Len(emails') = Len(listed'.mails)
      BY <1>4, <1>6, <2>2, <2>4, <2>7
    <3>2. emails' \in Seq(Mails) /\ listed'.mails \in Seq(Mails)
      BY <1>4, <1>5
    <3>3. emails' = listed'.mails
      BY <3>1, <3>2, <2>6
    <3>4. shown' = emails'
      BY <1>4, <2>7
    <3> QED
      BY <3>1, <3>3, <3>4, <1>4, <1>6, <2>1, <2>2, <2>3, <2>5, <2>6
  <2>8. CASE curr_count + 1 # maxMailNum
    <3>1. shown' = <<>> /\ curr_count' = Len(emails')
      BY <1>4, <1>6, <2>4, <2>8
    <3> QED
      BY <3>1, <1>4, <1>6, <2>1, <2>2, <2>3, <2>5, <2>6
  <2> QED
    BY <2>7, <2>8
<1> QED
  BY <1>7, <1>8, <1>9 DEF ListInv

LEMMA InvInit == Init => Inv
<1> SUFFICES ASSUME Init PROVE Inv
  OBVIOUS
<1>1. /\ <<>> \in Seq(Mails) /\ <<>> \in Seq(Requests) /\ <<>> \in Seq(Messages)
      /\ Len(<<>>) = 0
  OBVIOUS
<1>2. TypeInv
  BY <1>1 DEF Init, TypeInv
<1>3. ListInv
  <2>1. InLists(<<>>)
    BY DEF InLists
  <2>2. \A s \in Servers : listed.from # s
    BY NoneAssumption DEF Init
  <2> QED
    BY <2>1, <2>2, <1>1 DEF Init, ListInv
<1> QED
  BY <1>2, <1>3 DEF Inv

LEMMA InvNext == Inv /\ [Next]_vars => Inv'
<1> SUFFICES ASSUME TypeInv, ListInv, [Next]_vars PROVE ListInv'
  BY TypesKept DEF Inv
<1>1. ASSUME NEW s \in Servers, Connect(s) PROVE ListInv'
  BY <1>1, CommandTypes, ConnectContinues, ListKept
<1>2. ASSUME \/ \E u \in Users : Login(u) \/ mailSetup(u)
             \/ ConnectNowhere \/ listHeaders \/ printMembership
             \/ \E n \in 1 .. maxMailNum : byNumber("DELETE", n) \/ byNumber("READ", n)
      PROVE  ListInv'
  <2>1. UNCHANGED inbox
    BY <1>2 DEF Login, mailSetup, ConnectNowhere, listHeaders, printMembership, byNumber,
                Commands
  <2>2. \A p \in Servers : Continues(inbox[p], inbox'[p])
    BY <2>1, InListsHere
  <2> QED
    BY <1>2, <2>2, CommandTypes, ListKept
<1>3. ASSUME NEW s \in Servers, ReceiveHeader(s) PROVE ListInv'
  BY <1>3, HeaderList
<1>4. ASSUME NEW s \in Servers, ReceiveMail(s) PROVE ListInv'
  BY <1>4, MailList
<1>5. ASSUME NEW s \in Servers, ReceiveReply(s) \/ ReceiveMembership(s) PROVE ListInv'
  <2>1. UNCHANGED <<maxMailNum, curr_count, emails, shown, listed, mixed>>
    BY <1>5 DEF ReceiveReply, ReceiveMembership
  <2> QED
    BY <1>5, <2>1, ReplyContinues, ListKept
<1>6. ASSUME NEW s \in Servers, Serve(s) PROVE ListInv'
  <2>1. UNCHANGED <<maxMailNum, curr_count, emails, shown, listed, mixed>>
    BY <1>6, ServeAnswers DEF client
  <2> QED
    BY <1>6, <2>1, ServeContinues, ListKept
<1>7. ASSUME NEW s \in Servers, CutOff(s) PROVE ListInv'
  <2>1. UNCHANGED <<maxMailNum, curr_count, emails, shown, listed, mixed>>
    BY <1>7, CutLeaves DEF client
  <2> QED
    BY <1>7, <2>1, CutContinues, ListKept
<1>8. ASSUME \/ UNCHANGED vars \/ \E s \in Servers : ChangeElsewhere(s) \/ Return(s)
      PROVE  ListInv'
  <2>1. UNCHANGED <<maxMailNum, curr_count, emails, shown, listed, mixed, inbox>>
    BY <1>8 DEF vars, client, ChangeElsewhere, Return
  <2>2. \A p \in Servers : Continues(inbox[p], inbox'[p])
    BY <2>1, InListsHere
  <2> QED
    BY <2>1, <2>2, ListKept
<1> QED
  BY <1>1, <1>2, <1>3, <1>4, <1>5, <1>6, <1>7, <1>8 DEF Next, Receive

LEMMA InvAlways == Spec => []Inv
  BY InvInit, InvNext, PTL DEF Spec

-----------------------------------------------------------------------------
(* The list on the screen is the mailbox as the server had it when it      *)
(* answered (DisplayedIsMailbox), whatever is typed, however messages of   *)
(* several servers interleave and wherever a list is cut off.              *)
THEOREM DisplayedIsAlwaysMailbox == Spec => []DisplayedIsMailbox
<1>1. Inv => DisplayedIsMailbox
  BY DEF Inv, ListInv, DisplayedIsMailbox
<1> QED
  BY <1>1, InvAlways, PTL

(* A number that passes the check of parseCommand has its mail, the one    *)
(* that was shown with it (NumbersAreShown): the walk of deleteMail and    *)
(* readMail never leaves a list that has been displayed.                   *)
THEOREM NumbersAlwaysShown == Spec => []NumbersAreShown
<1>1. Inv => NumbersAreShown
  BY DEF Inv, ListInv, NumbersAreShown
<1> QED
  BY <1>1, InvAlways, PTL
=============================================================================
