-------------------------- MODULE MailStateProofs --------------------------
(***************************************************************************)
(* What the lists of module MailVectors and the operators of module        *)
(* MailState return: the lemmas that the theorems about the mail servers,  *)
(* their recovery, their lists and their sending loop rest on (modules     *)
(* MailServerProofs, MailRecoveryProofs, MailSequentialProofs).            *)
(***************************************************************************)
EXTENDS MailState, TLAPS, SequenceTheorems, FiniteSetTheorems, WellFoundedInduction

-----------------------------------------------------------------------------
(* Walks along a list.                                                     *)

(* A non-empty set of natural numbers has a least element.                 *)
LEMMA Least ==
    ASSUME NEW T \in SUBSET Nat, T # {}
    PROVE  \E x \in T : \A y \in T : x <= y
<1>1. \E x \in T : \A y \in T : ~ (<<y, x>> \in OpToRel(<, Nat))
  BY NatLessThanWellFounded, WFMin
<1>2. PICK x \in T : \A y \in T : ~ (<<y, x>> \in OpToRel(<, Nat))
  BY <1>1
<1>3. \A y \in T : ~ (y < x)
  BY <1>2 DEF OpToRel
<1> QED
  BY <1>3

(* A finite set has a member of which a function to the integers is        *)
(* greatest: one that the fewest members exceed.                           *)
LEMMA Greatest ==
    ASSUME NEW S, IsFiniteSet(S), S # {}, NEW f \in [S -> Int]
    PROVE  \E x \in S : \A y \in S : f[y] <= f[x]
<1> DEFINE above(x) == {y \in S : f[y] > f[x]}
           T == {n \in Nat : \E x \in S : n = Cardinality(above(x))}
<1>1. \A x \in S : IsFiniteSet(above(x)) /\ Cardinality(above(x)) \in Nat
  <2> TAKE x \in S
  <2>1. above(x) \subseteq S
    OBVIOUS
  <2> HIDE DEF above
  <2> QED  BY <2>1, FS_Subset, FS_CardinalityType
<1>2. T \in SUBSET Nat /\ T # {}
  <2> HIDE DEF above
  <2> QED  BY <1>1
<1>3. PICK n \in T : \A k \in T : n <= k
  <2> HIDE DEF T
  <2> QED  BY <1>2, Least
<1>4. PICK x \in S : n = Cardinality(above(x))
  OBVIOUS
<1>5. ASSUME NEW y \in S, f[y] > f[x]
      PROVE  FALSE
  <2>1. above(y) \subseteq above(x) /\ y \in above(x) /\ y \notin above(y)
    BY <1>5
  <2>2. IsFiniteSet(above(x)) /\ IsFiniteSet(above(y))
    BY <1>1
  <2>3. Cardinality(above(y)) < Cardinality(above(x))
    <3> HIDE DEF above
    <3>1. /\ Cardinality(above(y)) <= Cardinality(above(x))
          /\ Cardinality(above(y)) = Cardinality(above(x)) => above(y) = above(x)
      BY <2>1, <2>2, FS_Subset
    <3>2. Cardinality(above(y)) \in Nat /\ Cardinality(above(x)) \in Nat
      BY <1>1
    <3> QED  BY <2>1, <3>1, <3>2
  <2>4. Cardinality(above(y)) \in T
    <3> HIDE DEF above
    <3> QED  BY <1>1
  <2> HIDE DEF T, above
  <2> QED
    BY <1>1, <1>2, <1>3, <1>4, <2>3, <2>4
<1> QED
  BY <1>5

(* A walk from position k to the end of a list of length n stops: at the   *)
(* first position in T, or one past the end.                               *)
LEMMA WalkStops ==
    ASSUME NEW k \in Nat, NEW n \in Nat, k <= n + 1, NEW T
    PROVE  \E i \in k .. n + 1 :
              /\ i <= n => i \in T
              /\ \A j \in k .. i - 1 : j \notin T
<1>1. CASE T \cap (k .. n) = {}
  <2>1. /\ n + 1 \in k .. n + 1
        /\ \A j \in k .. (n + 1) - 1 : j \notin T
    BY <1>1
  <2> QED
    BY <2>1
<1>2. CASE T \cap (k .. n) # {}
  <2>1. PICK x \in T \cap (k .. n) : \A y \in T \cap (k .. n) : x <= y
    <3>1. T \cap (k .. n) \in SUBSET Nat
      OBVIOUS
    <3> QED  BY <3>1, <1>2, Least
  <2>2. x \in k .. n + 1 /\ \A j \in k .. x - 1 : j \notin T
    BY <2>1
  <2> QED
    BY <2>1, <2>2
<1> QED
  BY <1>1, <1>2

(* Where the walks of update_vector and email_vector stop.                 *)
LEMMA EmailGetStops ==
    ASSUME NEW S, NEW s \in Seq(S), NEW id
    PROVE  /\ EmailGet(s, id) \in 1 .. Len(s) + 1
           /\ EmailHas(s, id) <=> \E j \in 1 .. Len(s) : SameId(s[j], id)
           /\ EmailHas(s, id) => /\ EmailGet(s, id) \in 1 .. Len(s)
                                 /\ SameId(s[EmailGet(s, id)], id)
<1> DEFINE T == {j \in 1 .. Len(s) : SameId(s[j], id)}
<1>1. Len(s) \in Nat
  BY LenProperties
<1>2. \E i \in 1 .. Len(s) + 1 :
         /\ i <= Len(s) => i \in T
         /\ \A j \in 1 .. i - 1 : j \notin T
  <2>1. 1 \in Nat /\ 1 <= Len(s) + 1
    BY <1>1
  <2> HIDE DEF T
  <2> QED  BY <1>1, <2>1, WalkStops
<1>3. \E i \in 1 .. Len(s) + 1 :
         /\ i <= Len(s) => SameId(s[i], id)
         /\ \A j \in 1 .. i - 1 : ~ SameId(s[j], id)
  BY <1>1, <1>2
<1>4. /\ EmailGet(s, id) \in 1 .. Len(s) + 1
      /\ EmailGet(s, id) <= Len(s) => SameId(s[EmailGet(s, id)], id)
      /\ \A j \in 1 .. EmailGet(s, id) - 1 : ~ SameId(s[j], id)
  BY <1>3 DEF EmailGet, Stop
<1> QED
  BY <1>1, <1>4 DEF EmailHas

(* email_vector_insert puts a mail into the list or right after it.        *)
LEMMA EmailSlotStops ==
    ASSUME NEW S, NEW s \in Seq(S), NEW e
    PROVE  EmailSlot(s, e) \in 1 .. Len(s) + 1
<1> DEFINE T == {j \in 1 .. Len(s) : s[j].index >= e.index}
           first == Stop(s, 1, LAMBDA n : n.index >= e.index)
           U == {j \in 1 .. Len(s) : s[j].procID >= e.procID}
<1>1. Len(s) \in Nat
  BY LenProperties
<1>2. first \in 1 .. Len(s) + 1
  <2>1. 1 \in Nat /\ 1 <= Len(s) + 1
    BY <1>1
  <2>2. \E i \in 1 .. Len(s) + 1 :
           /\ i <= Len(s) => i \in T
           /\ \A j \in 1 .. i - 1 : j \notin T
    <3> HIDE DEF T
    <3> QED  BY <1>1, <2>1, WalkStops
  <2>3. \E i \in 1 .. Len(s) + 1 :
           /\ i <= Len(s) => s[i].index >= e.index
           /\ \A j \in 1 .. i - 1 : ~ (s[j].index >= e.index)
    BY <1>1, <2>2
  <2> QED
    BY <2>3 DEF Stop
<1>3. Stop(s, first, LAMBDA n : n.procID >= e.procID) \in 1 .. Len(s) + 1
  <2>1. first \in Nat /\ first <= Len(s) + 1
    BY <1>1, <1>2
  <2>2. \E i \in first .. Len(s) + 1 :
           /\ i <= Len(s) => i \in U
           /\ \A j \in first .. i - 1 : j \notin U
    <3> HIDE DEF U, first
    <3> QED  BY <1>1, <2>1, WalkStops
  <2> HIDE DEF first
  <2>3. \E i \in first .. Len(s) + 1 :
           /\ i <= Len(s) => s[i].procID >= e.procID
           /\ \A j \in first .. i - 1 : ~ (s[j].procID >= e.procID)
    BY <1>1, <1>2, <2>2
  <2>4. Stop(s, first, LAMBDA n : n.procID >= e.procID) \in first .. Len(s) + 1
    BY <2>3 DEF Stop
  <2> QED
    BY <1>1, <1>2, <2>4
<1> HIDE DEF first
<1>4. EmailSlot(s, e) =
        IF first <= Len(s) /\ s[first].index = e.index
        THEN Stop(s, first, LAMBDA n : n.procID >= e.procID)
        ELSE first
  BY DEF EmailSlot, first
<1> QED
  BY <1>2, <1>3, <1>4

-----------------------------------------------------------------------------
(* The list operations keep a list of mails one.                           *)

(* t is s with e put at the place k.                                       *)
IsPutAt(t, s, k, e) ==
    /\ Len(t) = Len(s) + 1
    /\ \A j \in 1 .. Len(s) + 1 :
         t[j] = IF j < k THEN s[j] ELSE IF j = k THEN e ELSE s[j - 1]

(* Linking a node into a list.                                             *)
LEMMA PutAtNodes ==
    ASSUME NEW S, NEW s \in Seq(S), NEW e \in S, NEW i \in 1 .. Len(s) + 1
    PROVE  PutAt(s, i, e) \in Seq(S) /\ IsPutAt(PutAt(s, i, e), s, i, e)
<1> DEFINE a == SubSeq(s, 1, i - 1)
           b == SubSeq(s, i, Len(s))
<1>1. Len(s) \in Nat /\ \A j \in 1 .. Len(s) : s[j] \in S
  BY LenProperties, ElementOfSeq
<1>2. /\ a \in Seq(S) /\ Len(a) = i - 1
      /\ \A j \in 1 .. i - 1 : a[j] = s[j]
  <2>1. \A j \in 1 .. i - 1 : s[j] \in S
    BY <1>1
  <2>2. /\ a \in Seq(S) /\ Len(a) = IF 1 <= i - 1 THEN (i - 1) - 1 + 1 ELSE 0
        /\ \A j \in 1 .. (i - 1) - 1 + 1 : a[j] = s[1 + j - 1]
    BY <1>1, <2>1, SubSeqProperties
  <2> QED
    BY <1>1, <2>2
<1>3. /\ b \in Seq(S) /\ Len(b) = Len(s) - i + 1
      /\ \A j \in 1 .. Len(s) - i + 1 : b[j] = s[i + j - 1]
  <2>1. \A j \in i .. Len(s) : s[j] \in S
    BY <1>1
  <2>2. /\ b \in Seq(S) /\ Len(b) = IF i <= Len(s) THEN Len(s) - i + 1 ELSE 0
        /\ \A j \in 1 .. Len(s) - i + 1 : b[j] = s[i + j - 1]
    BY <1>1, <2>1, SubSeqProperties
  <2> QED
    BY <1>1, <2>2
<1> HIDE DEF a, b
<1>4. <<e>> \in Seq(S) /\ Len(<<e>>) = 1 /\ <<e>>[1] = e
  OBVIOUS
<1>5. /\ a \o <<e>> \in Seq(S) /\ Len(a \o <<e>>) = i
      /\ \A j \in 1 .. i : (a \o <<e>>)[j] = IF j < i THEN s[j] ELSE e
  BY <1>1, <1>2, <1>4, ConcatProperties
<1> DEFINE c == a \o <<e>>
<1> HIDE DEF c
<1>6. /\ c \in Seq(S) /\ Len(c) = i
      /\ \A j \in 1 .. i : c[j] = IF j < i THEN s[j] ELSE e
  BY <1>5 DEF c
<1>7. PutAt(s, i, e) = c \o b
  BY DEF PutAt, a, b, c
<1>8. /\ c \o b \in Seq(S) /\ Len(c \o b) = Len(s) + 1
      /\ \A j \in 1 .. Len(s) + 1 : (c \o b)[j] = IF j <= i THEN c[j] ELSE b[j - i]
  <2>1. i \in Int /\ Len(c) + Len(b) = Len(s) + 1
    BY <1>1, <1>3, <1>6
  <2>2. /\ c \o b \in Seq(S) /\ Len(c \o b) = Len(c) + Len(b)
        /\ \A j \in 1 .. Len(c) + Len(b) :
             (c \o b)[j] = IF j <= Len(c) THEN c[j] ELSE b[j - Len(c)]
    BY <1>3, <1>6, ConcatProperties
  <2> QED
    BY <1>6, <2>1, <2>2
<1>9. ASSUME NEW j \in 1 .. Len(s) + 1
      PROVE  (c \o b)[j] = IF j < i THEN s[j] ELSE IF j = i THEN e ELSE s[j - 1]
  <2>1. CASE j <= i
    BY <1>1, <1>6, <1>8, <2>1
  <2>2. CASE j > i
    <3>1. j - i \in 1 .. Len(s) - i + 1 /\ i + (j - i) - 1 = j - 1
      BY <1>1, <2>2
    <3> QED
      BY <1>1, <1>3, <1>8, <2>2, <3>1
  <2>3. j <= i \/ j > i
    BY <1>1
  <2> QED
    BY <2>1, <2>2, <2>3
<1>10. IsPutAt(c \o b, s, i, e)
  BY <1>8, <1>9 DEF IsPutAt
<1> QED
  BY <1>7, <1>8, <1>10

(* Unlinking a node from a list.                                           *)
LEMMA DropAtNodes ==
    ASSUME NEW S, NEW s \in Seq(S), NEW i \in 1 .. Len(s)
    PROVE  /\ DropAt(s, i) \in Seq(S)
           /\ Len(DropAt(s, i)) = Len(s) - 1
           /\ \A j \in 1 .. Len(s) - 1 :
                DropAt(s, i)[j] = IF j < i THEN s[j] ELSE s[j + 1]
<1> DEFINE a == SubSeq(s, 1, i - 1)
           b == SubSeq(s, i + 1, Len(s))
<1>1. Len(s) \in Nat /\ \A j \in 1 .. Len(s) : s[j] \in S
  BY LenProperties, ElementOfSeq
<1>2. /\ a \in Seq(S) /\ Len(a) = i - 1
      /\ \A j \in 1 .. i - 1 : a[j] = s[j]
  <2>1. \A j \in 1 .. i - 1 : s[j] \in S
    BY <1>1
  <2>2. /\ a \in Seq(S) /\ Len(a) = IF 1 <= i - 1 THEN (i - 1) - 1 + 1 ELSE 0
        /\ \A j \in 1 .. (i - 1) - 1 + 1 : a[j] = s[1 + j - 1]
    BY <1>1, <2>1, SubSeqProperties
  <2> QED
    BY <1>1, <2>2
<1>3. /\ b \in Seq(S) /\ Len(b) = Len(s) - i
      /\ \A j \in 1 .. Len(s) - i : b[j] = s[i + j]
  <2>1. \A j \in i + 1 .. Len(s) : s[j] \in S
    BY <1>1
  <2>2. /\ b \in Seq(S)
        /\ Len(b) = IF i + 1 <= Len(s) THEN Len(s) - (i + 1) + 1 ELSE 0
        /\ \A j \in 1 .. Len(s) - (i + 1) + 1 : b[j] = s[(i + 1) + j - 1]
    BY <1>1, <2>1, SubSeqProperties
  <2>3. Len(s) - (i + 1) + 1 = Len(s) - i
    BY <1>1
  <2>4. ASSUME NEW j \in 1 .. Len(s) - i
        PROVE  b[j] = s[i + j]
    <3>1. (i + 1) + j - 1 = i + j
      BY <1>1
    <3> QED
      BY <2>2, <2>3, <3>1
  <2>5. Len(b) = Len(s) - i
    <3> HIDE DEF b
    <3> QED
      BY <1>1, <2>2
  <2> QED
    BY <2>2, <2>4, <2>5
<1> HIDE DEF a, b
<1>4. /\ a \o b \in Seq(S) /\ Len(a \o b) = Len(s) - 1
      /\ \A j \in 1 .. Len(s) - 1 :
           (a \o b)[j] = IF j <= i - 1 THEN a[j] ELSE b[j - (i - 1)]
  <2>1. i \in Int /\ Len(a) + Len(b) = Len(s) - 1
    BY <1>1, <1>2, <1>3
  <2>2. /\ a \o b \in Seq(S) /\ Len(a \o b) = Len(a) + Len(b)
        /\ \A j \in 1 .. Len(a) + Len(b) :
             (a \o b)[j] = IF j <= Len(a) THEN a[j] ELSE b[j - Len(a)]
    BY <1>2, <1>3, ConcatProperties
  <2> QED
    BY <1>2, <2>1, <2>2
<1>5. ASSUME NEW j \in 1 .. Len(s) - 1
      PROVE  (a \o b)[j] = IF j < i THEN s[j] ELSE s[j + 1]
  <2>1. CASE j < i
    BY <1>1, <1>2, <1>4, <2>1
  <2>2. CASE j >= i
    <3>1. j - (i - 1) \in 1 .. Len(s) - i /\ i + (j - (i - 1)) = j + 1
      BY <1>1, <2>2
    <3> QED
      BY <1>1, <1>3, <1>4, <2>2, <3>1
  <2>3. j < i \/ j >= i
    BY <1>1
  <2> QED
    BY <2>1, <2>2, <2>3
<1>6. DropAt(s, i) = a \o b
  BY DEF DropAt, a, b
<1> QED
  BY <1>4, <1>5, <1>6

(* The three changes of a mailbox.                                         *)
LEMMA MailboxTypes ==
    ASSUME NEW s \in Seq(Mails)
    PROVE  /\ \A e \in Mails : EmailInsert(s, e) \in Seq(Mails)
           /\ \A id : EmailDelete(s, id) \in Seq(Mails)
           /\ \A id : EmailMarkRead(s, id) \in Seq(Mails)
<1>1. ASSUME NEW e \in Mails
      PROVE  EmailInsert(s, e) \in Seq(Mails)
  BY EmailSlotStops, PutAtNodes DEF EmailInsert
<1>2. ASSUME NEW id
      PROVE  EmailDelete(s, id) \in Seq(Mails)
  BY EmailGetStops, DropAtNodes DEF EmailDelete
<1>3. ASSUME NEW id
      PROVE  EmailMarkRead(s, id) \in Seq(Mails)
  <2>1. CASE EmailHas(s, id)
    <3> DEFINE i == EmailGet(s, id)
    <3>1. i \in 1 .. Len(s)
      BY <2>1, EmailGetStops
    <3> HIDE DEF i
    <3>2. s[i] \in Mails
      BY <3>1, ElementOfSeq
    <3>3. [s[i] EXCEPT !.read = TRUE] \in Mails
      BY <3>2 DEF Mails
    <3>4. [s EXCEPT ![i] = [s[i] EXCEPT !.read = TRUE]] \in Seq(Mails)
      BY <3>1, <3>3, ExceptSeq
    <3>5. EmailMarkRead(s, id) = [s EXCEPT ![i] = [s[i] EXCEPT !.read = TRUE]]
      BY <2>1 DEF EmailMarkRead, i
    <3> QED
      BY <3>4, <3>5
  <2>2. CASE ~ EmailHas(s, id)
    BY <2>2 DEF EmailMarkRead
  <2> QED
    BY <2>1, <2>2
<1> QED
  BY <1>1, <1>2, <1>3

(* The stamps of the mails of a mailbox.                                    *)
idOf(e) == [procID |-> e.procID, index |-> e.index]

idSet(s) == {idOf(s[j]) : j \in 1 .. Len(s)}

(* The mails of a mailbox after each of the three changes.                 *)
LEMMA MailboxIds ==
    ASSUME NEW s \in Seq(Mails)
    PROVE  /\ \A e \in Mails : idSet(EmailInsert(s, e)) \subseteq idSet(s) \cup {idOf(e)}
           /\ \A id : idSet(EmailDelete(s, id)) \subseteq idSet(s)
           /\ \A id : idSet(EmailMarkRead(s, id)) \subseteq idSet(s)
<1>1. Len(s) \in Nat
  BY LenProperties
<1>2. ASSUME NEW e \in Mails
      PROVE  idSet(EmailInsert(s, e)) \subseteq idSet(s) \cup {idOf(e)}
  <2> DEFINE k == EmailSlot(s, e)
             t == PutAt(s, k, e)
  <2>1. k \in 1 .. Len(s) + 1
    BY EmailSlotStops
  <2> HIDE DEF k
  <2>2. IsPutAt(t, s, k, e)
    BY <2>1, PutAtNodes
  <2> HIDE DEF t
  <2>3. ASSUME NEW j \in 1 .. Len(t)
        PROVE  t[j] = e \/ \E l \in 1 .. Len(s) : t[j] = s[l]
    <3>1. CASE j < k
      BY <1>1, <2>1, <2>2, <3>1 DEF IsPutAt
    <3>2. CASE j = k
      BY <1>1, <2>1, <2>2, <3>2 DEF IsPutAt
    <3>3. CASE j > k
      BY <1>1, <2>1, <2>2, <3>3 DEF IsPutAt
    <3> QED
      BY <2>1, <3>1, <3>2, <3>3
  <2>4. idSet(t) \subseteq idSet(s) \cup {idOf(e)}
    BY <2>3 DEF idSet
  <2>5. EmailInsert(s, e) = s \/ EmailInsert(s, e) = t
    BY DEF EmailInsert, t, k
  <2> QED
    BY <2>4, <2>5
<1>3. ASSUME NEW id
      PROVE  idSet(EmailDelete(s, id)) \subseteq idSet(s)
  <2> DEFINE k == EmailGet(s, id)
             t == DropAt(s, k)
  <2>1. CASE EmailHas(s, id)
    <3>1. k \in 1 .. Len(s)
      BY <2>1, EmailGetStops
    <3> HIDE DEF k
    <3>2. /\ Len(t) = Len(s) - 1
          /\ \A j \in 1 .. Len(s) - 1 : t[j] = IF j < k THEN s[j] ELSE s[j + 1]
      BY <3>1, DropAtNodes
    <3> HIDE DEF t
    <3>3. ASSUME NEW j \in 1 .. Len(t)
          PROVE  \E l \in 1 .. Len(s) : t[j] = s[l]
      BY <1>1, <3>1, <3>2
    <3>4. EmailDelete(s, id) = t
      BY <2>1 DEF EmailDelete, t, k
    <3> QED
      BY <3>3, <3>4 DEF idSet
  <2>2. CASE ~ EmailHas(s, id)
    BY <2>2 DEF EmailDelete
  <2> QED
    BY <2>1, <2>2
<1>4. ASSUME NEW id
      PROVE  idSet(EmailMarkRead(s, id)) \subseteq idSet(s)
  <2> DEFINE k == EmailGet(s, id)
             e == [s[k] EXCEPT !.read = TRUE]
             t == [s EXCEPT ![k] = e]
  <2>1. CASE EmailHas(s, id)
    <3>1. k \in 1 .. Len(s)
      BY <2>1, EmailGetStops
    <3>2. EmailMarkRead(s, id) = t
      BY <2>1 DEF EmailMarkRead
    <3> HIDE DEF k
    <3>3. s[k] \in Mails
      BY <3>1, ElementOfSeq
    <3>4. idOf(e) = idOf(s[k]) /\ e \in Mails
      BY <3>3 DEF idOf, Mails
    <3> HIDE DEF e
    <3>5. /\ Len(t) = Len(s)
          /\ \A j \in 1 .. Len(s) : t[j] = IF j = k THEN e ELSE s[j]
      BY <3>1, <3>4, ExceptSeq
    <3> HIDE DEF t
    <3>6. \A j \in 1 .. Len(t) : idOf(t[j]) = idOf(s[j])
      BY <3>4, <3>5
    <3> QED
      BY <3>2, <3>5, <3>6 DEF idSet
  <2>2. CASE ~ EmailHas(s, id)
    BY <2>2 DEF EmailMarkRead
  <2> QED
    BY <2>1, <2>2
<1> QED
  BY <1>2, <1>3, <1>4

-----------------------------------------------------------------------------
(* The operators of module MailState lead from states to states.           *)

(* A state whose buffer is finite, which TypeOK does not say and the sizes *)
(* of the batches need.                                                    *)
FiniteStates == {st \in LocalStates : IsFiniteSet(st.buffer)}

(* A server starts with nothing but its own name.                          *)
LEMMA InitialStateType ==
    ASSUME NEW s \in Servers
    PROVE  initialState(s) \in FiniteStates
<1>1. IsFiniteSet({})
  BY FS_EmptySet
<1>2. NoRange \in Ranges
  BY DEF NoRange, Ranges, Indices
<1>3. [i \in Servers |-> [j \in Servers |-> -1]] \in Matrices
  BY DEF Matrices, Indices
<1>4. [u \in Users |-> <<>>] \in [Users -> Seq(Mails)]
  OBVIOUS
<1> QED
  BY <1>1, <1>2, <1>3, <1>4
  DEF initialState, FiniteStates, LocalStates, Status, Indices

(* storeUpdate and updateVector.                                           *)
LEMMA StoreType ==
    ASSUME NEW st \in FiniteStates, NEW me \in Servers, NEW u \in Updates
    PROVE  updateVector(storeUpdate(st, u), me, u) \in FiniteStates
<1> DEFINE x == storeUpdate(st, u)
           row == [st.latest_update[me] EXCEPT ![u.procID] = larger(@, u.index)]
<1>1. x \in FiniteStates
  <2>1. st.buffer \cup {u} \in SUBSET Updates
    BY DEF FiniteStates, LocalStates
  <2>2. IsFiniteSet(st.buffer \cup {u})
    BY FS_AddElement DEF FiniteStates
  <2> QED
    BY <2>1, <2>2 DEF FiniteStates, LocalStates, storeUpdate
<1>2. x.latest_update = st.latest_update
  BY DEF storeUpdate, FiniteStates, LocalStates
<1>3. row \in [Servers -> Indices]
  BY DEF FiniteStates, LocalStates, Matrices, Updates, Indices, larger
<1>4. [st.latest_update EXCEPT ![me] = row] \in Matrices
  BY <1>3 DEF FiniteStates, LocalStates, Matrices
<1>5. updateVector(x, me, u) =
        [x EXCEPT !.latest_update = [st.latest_update EXCEPT ![me] = row]]
  BY <1>1, <1>2 DEF updateVector
<1>6. updateVector(x, me, u) \in FiniteStates
  <2> HIDE DEF x, row
  <2> QED  BY <1>1, <1>4, <1>5 DEF FiniteStates, LocalStates
<1> QED
  BY <1>6

(* The four changes of the mail state.                                     *)
LEMMA ChangeMailType ==
    ASSUME NEW st \in FiniteStates, NEW u \in Updates
    PROVE  changeMail(st, u) \in FiniteStates
<1> DEFINE box == st.emails[u.user]
           new == [procID |-> u.mail.procID, index |-> u.mail.index, read |-> FALSE]
<1>1. u.user \in Users /\ u.mail \in MailIds /\ u.type \in UpdateTypes
  BY DEF Updates
<1>2. box \in Seq(Mails) /\ new \in Mails
  BY <1>1 DEF FiniteStates, LocalStates, MailIds, Mails
<1>3. ASSUME NEW b \in Seq(Mails)
      PROVE  [st EXCEPT !.emails = [st.emails EXCEPT ![u.user] = b]] \in FiniteStates
  BY <1>1, <1>3 DEF FiniteStates, LocalStates
<1>4. CASE u.type = "NEWMAILMSG"
  <2>1. addMail(st, u) \in FiniteStates
    BY <1>2, <1>3, MailboxTypes DEF addMail
  <2> QED
    BY <1>4, <2>1 DEF changeMail
<1>5. CASE u.type = "NEWUSERMSG"
  <2>1. addUser(st, u) \in FiniteStates
    BY <1>1 DEF addUser, FiniteStates, LocalStates
  <2> QED
    BY <1>5, <2>1 DEF changeMail
<1>6. CASE u.type = "DELETEMAILMSG"
  <2>1. deleteMail(st, u) \in FiniteStates
    BY <1>2, <1>3, MailboxTypes DEF deleteMail
  <2> QED
    BY <1>6, <2>1 DEF changeMail
<1>7. CASE u.type = "READMAILMSG"
  <2>1. markAsRead(st, u) \in FiniteStates
    BY <1>2, <1>3, MailboxTypes DEF markAsRead
  <2> QED
    BY <1>7, <2>1 DEF changeMail
<1> QED
  BY <1>1, <1>4, <1>5, <1>6, <1>7 DEF UpdateTypes

(* Applying an update.                                                     *)
LEMMA ApplyUpdateType ==
    ASSUME NEW st \in FiniteStates, NEW me \in Servers, NEW u \in Updates
    PROVE  applyUpdate(st, me, u) \in FiniteStates
<1> DEFINE x == changeMail(updateVector(storeUpdate(st, u), me, u), u)
<1>1. x \in FiniteStates
  BY StoreType, ChangeMailType
<1>2. larger(x.updateIndex + 1, u.index) \in Indices
  BY <1>1 DEF FiniteStates, LocalStates, Updates, Indices, larger
<1>3. [x EXCEPT !.updateIndex = larger(@ + 1, u.index)] \in FiniteStates
  BY <1>1, <1>2 DEF FiniteStates, LocalStates
<1> QED
  BY <1>3 DEF applyUpdate

(* A new update of a server.                                               *)
LEMMA GenerateUpdateType ==
    ASSUME NEW st \in LocalStates, NEW me \in Servers, NEW type \in UpdateTypes,
           NEW user \in Users, NEW mail \in MailIds
    PROVE  generateUpdate(st, me, type, user, mail) \in Updates
<1>1. st.updateIndex + 1 \in Nat
  BY DEF LocalStates, Indices
<1> QED
  BY <1>1 DEF generateUpdate, Updates, MailIds

(* The merge of a matrix.                                                  *)
LEMMA UpdateMatrixType ==
    ASSUME NEW st \in FiniteStates, NEW me \in Servers,
           NEW m, m.from \in Servers, m.matrix \in Matrices
    PROVE  updateMatrix(st, me, m) \in FiniteStates
<1> DEFINE merged == [i \in Servers |->
                        IF i = me THEN st.latest_update[i]
                        ELSE [j \in Servers |-> larger(m.matrix[i][j],
                                                       st.latest_update[i][j])]]
<1>1. merged \in Matrices
  BY DEF FiniteStates, LocalStates, Matrices, larger
<1>2. [st EXCEPT !.latest_update = merged] \in FiniteStates
  <2> HIDE DEF merged
  <2> QED  BY <1>1 DEF FiniteStates, LocalStates
<1> QED
  BY <1>2 DEF updateMatrix

(* The merge of a matrix with its count.                                   *)
LEMMA CountMatrixType ==
    ASSUME NEW st \in FiniteStates, NEW me \in Servers,
           NEW m, m.from \in Servers, m.matrix \in Matrices
    PROVE  countMatrix(st, me, m) \in FiniteStates
<1>1. updateMatrix(st, me, m) \in FiniteStates
  BY UpdateMatrixType
<1>2. ASSUME NEW x \in FiniteStates
      PROVE  [x EXCEPT !.num_matrix_recvd = @ + 1] \in FiniteStates
  <2>1. ASSUME NEW c \in Nat
        PROVE  [x EXCEPT !.num_matrix_recvd = c] \in FiniteStates
    BY DEF FiniteStates, LocalStates
  <2>2. x.num_matrix_recvd + 1 \in Nat
    BY DEF FiniteStates, LocalStates
  <2> QED
    BY <2>1, <2>2
<1> QED
  BY <1>1, <1>2 DEF countMatrix

(* The lowest vector entry of the other members exists.                    *)
LEMMA LowestUpdateType ==
    ASSUME NEW st \in LocalStates, NEW me \in Servers, NEW p \in Servers,
           Others(st, me) # {}
    PROVE  /\ getLowestUpdate(st, me, p) \in Indices
           /\ \A i \in Others(st, me) :
                 getLowestUpdate(st, me, p) <= st.latest_update[i][p]
<1> DEFINE E == {st.latest_update[i][p] : i \in Others(st, me)}
           T == {n \in Nat : n - 1 \in E}
<1>1. Others(st, me) \subseteq Servers
  BY DEF LocalStates, Others
<1>2. E \subseteq Indices
  BY <1>1 DEF LocalStates, Matrices
<1>3. PICK i \in Others(st, me) : TRUE
  OBVIOUS
<1>4. ASSUME NEW low \in E
      PROVE  low + 1 \in T
  <2>1. low \in Indices
    BY <1>2
  <2>2. low + 1 \in Nat /\ (low + 1) - 1 = low
    BY <2>1 DEF Indices
  <2> QED
    BY <2>2
<1>5. PICK x \in T : \A y \in T : x <= y
  <2>1. T # {} /\ T \in SUBSET Nat
    BY <1>3, <1>4
  <2> HIDE DEF T
  <2> QED  BY <2>1, Least
<1>6. ASSUME NEW low \in E
      PROVE  x - 1 <= low
  <2>1. low + 1 \in T
    BY <1>4
  <2> HIDE DEF T, E
  <2>2. x <= low + 1
    BY <1>5, <2>1
  <2>3. low \in Int /\ x \in Int
    BY <1>2, <1>5, <1>6 DEF Indices, T
  <2> QED
    BY <2>2, <2>3
<1>7. /\ x - 1 \in E
      /\ \A j \in Others(st, me) : x - 1 <= st.latest_update[j][p]
  BY <1>5, <1>6
<1>8. /\ getLowestUpdate(st, me, p) \in E
      /\ \A j \in Others(st, me) :
            getLowestUpdate(st, me, p) <= st.latest_update[j][p]
  BY <1>7 DEF getLowestUpdate
<1> QED
  BY <1>2, <1>8

(* The range of a server's updates that a reconciliation plans.            *)
LEMMA PlanRangeType ==
    ASSUME NEW st \in LocalStates, NEW me \in Servers, NEW p \in Servers
    PROVE  planRange(st, me, p) \in Ranges
<1> DEFINE low == getLowestUpdate(st, me, p)
           top == st.latest_update[me][p]
<1>1. NoRange \in Ranges /\ st.min_max[p] \in Ranges
  BY DEF NoRange, Ranges, Indices, LocalStates
<1>2. top \in Indices /\ Others(st, me) \subseteq Servers
  BY DEF LocalStates, Matrices, Others
<1>3. ASSUME NEW i \in Others(st, me), st.latest_update[i][p] < top
      PROVE  [min |-> low + 1, max |-> top] \in Ranges
  <2>1. low \in Indices /\ low <= st.latest_update[i][p]
    BY <1>3, LowestUpdateType
  <2>2. st.latest_update[i][p] \in Indices
    BY <1>2 DEF LocalStates, Matrices
  <2>3. low + 1 \in Nat /\ low + 1 <= top
    BY <1>2, <1>3, <2>1, <2>2 DEF Indices
  <2> QED
    BY <1>2, <2>3 DEF Ranges, Indices
<1> QED
  BY <1>1, <1>3 DEF planRange

(* Purging the buffer.                                                     *)
LEMMA PurgeType ==
    ASSUME NEW st \in FiniteStates
    PROVE  purgeUpdateBuffer(st) \in FiniteStates
<1> DEFINE kept == {u \in st.buffer : \E i \in Servers :
                       st.latest_update[i][u.procID] <= u.index}
<1>1. kept \subseteq st.buffer
  OBVIOUS
<1>2. IsFiniteSet(kept)
  BY <1>1, FS_Subset DEF FiniteStates
<1>3. [st EXCEPT !.buffer = kept] \in FiniteStates
  <2> HIDE DEF kept
  <2> QED  BY <1>1, <1>2 DEF FiniteStates, LocalStates
<1> QED
  BY <1>3 DEF purgeUpdateBuffer

(* Purging and planning.                                                   *)
LEMMA ContinueReconcileType ==
    ASSUME NEW st \in FiniteStates, NEW me \in Servers
    PROVE  continueReconcile(st, me) \in FiniteStates
<1> DEFINE purged == purgeUpdateBuffer(st)
<1>1. purged \in FiniteStates
  BY PurgeType
<1> HIDE DEF purged
<1>2. [p \in Servers |-> planRange(purged, me, p)] \in [Servers -> Ranges]
  BY <1>1, PlanRangeType DEF FiniteStates
<1>3. planUpdates(purged, me) \in FiniteStates
  BY <1>1, <1>2 DEF planUpdates, FiniteStates, LocalStates
<1> QED
  BY <1>3 DEF continueReconcile, purged

(* The batch of updates to send.                                           *)
LEMMA ToSendType ==
    ASSUME NEW st \in FiniteStates, NEW n \in Nat
    PROVE  /\ toSend(st, n) \subseteq st.buffer
           /\ toSend(st, n) \in SUBSET Updates
           /\ IsFiniteSet(toSend(st, n))
<1>1. toSend(st, n) \subseteq st.buffer
  BY DEF toSend, missing
<1> QED
  BY <1>1, FS_Subset DEF FiniteStates, LocalStates

(* What is left of a range when the sending loop stops.                    *)
LEMMA RestOfRangeType ==
    ASSUME NEW st \in FiniteStates, NEW n \in Nat, NEW p \in Servers
    PROVE  restOfRange(st, n, p) \in Ranges
<1> DEFINE r == st.min_max[p]
           visited == {i \in 0 .. r.max :
                         \E u \in toSend(st, n) :
                             ~ Before(u, [procID |-> p, index |-> i])}
           left == CHOOSE i \in r.min .. r.max :
                      /\ i \notin visited
                      /\ \A j \in r.min .. i - 1 : j \in visited
<1>1. NoRange \in Ranges /\ r \in Ranges
  BY DEF NoRange, Ranges, Indices, FiniteStates, LocalStates
<1>2. restOfRange(st, n, p) = IF r.min < 0 \/ r.max \in visited THEN NoRange
                              ELSE [min |-> left, max |-> r.max]
  BY DEF restOfRange
<1> HIDE DEF visited, r
<1>3. ASSUME ~ (r.min < 0), r.max \notin visited
      PROVE  [min |-> left, max |-> r.max] \in Ranges
  <2>1. r.min \in Nat /\ r.max \in Nat /\ r.min <= r.max
    BY <1>1, <1>3 DEF Ranges, Indices, NoRange
  <2> DEFINE T == Int \ visited
  <2>2. PICK i \in r.min .. r.max + 1 :
           /\ i <= r.max => i \in T
           /\ \A j \in r.min .. i - 1 : j \notin T
    <3>1. r.min <= r.max + 1
      BY <2>1
    <3> HIDE DEF T
    <3> QED  BY <2>1, <3>1, WalkStops
  <2>3. i <= r.max
    <3>1. SUFFICES ASSUME i = r.max + 1 PROVE FALSE
      BY <2>1, <2>2
    <3>2. r.max \in r.min .. i - 1
      BY <2>1, <3>1
    <3>3. r.max \in T
      BY <1>3, <2>1
    <3> QED
      BY <2>2, <3>2, <3>3
  <2>4. \E k \in r.min .. r.max :
           /\ k \notin visited
           /\ \A j \in r.min .. k - 1 : j \in visited
    BY <2>1, <2>2, <2>3
  <2>5. left \in r.min .. r.max
    BY <2>4
  <2>6. [min |-> left, max |-> r.max] \in Ranges
    <3> HIDE DEF left
    <3> QED  BY <2>1, <2>5 DEF Ranges, Indices
  <2> QED
    BY <2>6
<1> QED
  BY <1>1, <1>2, <1>3

(* The state that the sending of a batch leaves.                           *)
LEMMA SendMissingUpdatesType ==
    ASSUME NEW st \in FiniteStates, NEW n \in Nat
    PROVE  sendMissingUpdates(st, n) \in FiniteStates
<1>1. NoRange \in Ranges
  BY DEF NoRange, Ranges, Indices
<1>2. [st EXCEPT !.min_max = [p \in Servers |-> NoRange], !.status = "NORMAL"]
        \in FiniteStates
  BY <1>1 DEF FiniteStates, LocalStates, Status
<1>3. [p \in Servers |-> restOfRange(st, n, p)] \in [Servers -> Ranges]
  BY RestOfRangeType
<1>4. [st EXCEPT !.min_max = [p \in Servers |-> restOfRange(st, n, p)]]
        \in FiniteStates
  BY <1>3 DEF FiniteStates, LocalStates
<1> QED
  BY <1>2, <1>4 DEF sendMissingUpdates

-----------------------------------------------------------------------------
(* What the operators do to the counter, the buffer and the vectors.       *)

(* The mail state has no influence on them.                                *)
LEMMA ChangeMailEffect ==
    ASSUME NEW st \in FiniteStates, NEW u \in Updates
    PROVE  /\ changeMail(st, u).updateIndex = st.updateIndex
           /\ changeMail(st, u).buffer = st.buffer
           /\ changeMail(st, u).latest_update = st.latest_update
<1>1. ASSUME NEW b
      PROVE  /\ [st EXCEPT !.emails = b].updateIndex = st.updateIndex
             /\ [st EXCEPT !.emails = b].buffer = st.buffer
             /\ [st EXCEPT !.emails = b].latest_update = st.latest_update
             /\ [st EXCEPT !.users = b].updateIndex = st.updateIndex
             /\ [st EXCEPT !.users = b].buffer = st.buffer
             /\ [st EXCEPT !.users = b].latest_update = st.latest_update
  BY DEF FiniteStates, LocalStates
<1>2. u.type \in UpdateTypes
  BY DEF Updates
<1>3. CASE u.type = "NEWMAILMSG"
  BY <1>1, <1>3 DEF changeMail, addMail
<1>4. CASE u.type = "NEWUSERMSG"
  BY <1>1, <1>4 DEF changeMail, addUser
<1>5. CASE u.type = "DELETEMAILMSG"
  BY <1>1, <1>5 DEF changeMail, deleteMail
<1>6. CASE u.type = "READMAILMSG"
  BY <1>1, <1>6 DEF changeMail, markAsRead
<1> QED
  BY <1>2, <1>3, <1>4, <1>5, <1>6 DEF UpdateTypes

(* An update that is not in the buffer is stored; the vector and the       *)
(* counter reach its index.                                                *)
LEMMA ApplyUpdateEffect ==
    ASSUME NEW st \in FiniteStates, NEW me \in Servers, NEW u \in Updates,
           ~ findUpdate(st, u.procID, u.index)
    PROVE  /\ applyUpdate(st, me, u).updateIndex = larger(st.updateIndex + 1, u.index)
           /\ applyUpdate(st, me, u).buffer = st.buffer \cup {u}
           /\ applyUpdate(st, me, u).latest_update =
                [st.latest_update EXCEPT ![me][u.procID] = larger(@, u.index)]
<1> DEFINE x == updateVector(storeUpdate(st, u), me, u)
           y == changeMail(x, u)
<1>1. x \in FiniteStates /\ y \in FiniteStates
  BY StoreType, ChangeMailType
<1>2. /\ x.updateIndex = st.updateIndex
      /\ x.buffer = st.buffer \cup {u}
      /\ x.latest_update =
           [st.latest_update EXCEPT ![me][u.procID] = larger(@, u.index)]
  BY DEF updateVector, storeUpdate, FiniteStates, LocalStates
<1> HIDE DEF x
<1>3. /\ y.updateIndex = st.updateIndex
      /\ y.buffer = st.buffer \cup {u}
      /\ y.latest_update = x.latest_update
  BY <1>1, <1>2, ChangeMailEffect
<1>4. applyUpdate(st, me, u) =
        [y EXCEPT !.updateIndex = larger(st.updateIndex + 1, u.index)]
  BY <1>3 DEF applyUpdate, x
<1> HIDE DEF y
<1> QED
  BY <1>1, <1>2, <1>3, <1>4 DEF FiniteStates, LocalStates

(* Sending a batch changes the ranges and the status alone.                *)
LEMMA SendMissingUpdatesEffect ==
    ASSUME NEW st \in FiniteStates, NEW n \in Nat
    PROVE  /\ sendMissingUpdates(st, n).updateIndex = st.updateIndex
           /\ sendMissingUpdates(st, n).buffer = st.buffer
           /\ sendMissingUpdates(st, n).latest_update = st.latest_update
BY DEF sendMissingUpdates, FiniteStates, LocalStates

(* A matrix is merged into the rows of the other servers alone, and never  *)
(* lowers an entry.                                                        *)
LEMMA UpdateMatrixEffect ==
    ASSUME NEW st \in FiniteStates, NEW me \in Servers,
           NEW m, m.from \in Servers, m.matrix \in Matrices
    PROVE  /\ updateMatrix(st, me, m).updateIndex = st.updateIndex
           /\ updateMatrix(st, me, m).buffer = st.buffer
           /\ updateMatrix(st, me, m).latest_update[me] = st.latest_update[me]
           /\ \A i \in Servers, p \in Servers :
                 st.latest_update[i][p] <= updateMatrix(st, me, m).latest_update[i][p]
<1> DEFINE merged == [i \in Servers |->
                        IF i = me THEN st.latest_update[i]
                        ELSE [j \in Servers |-> larger(m.matrix[i][j],
                                                       st.latest_update[i][j])]]
<1>1. \A i \in Servers, p \in Servers :
         st.latest_update[i][p] \in Int /\ m.matrix[i][p] \in Int
  BY DEF FiniteStates, LocalStates, Matrices, Indices
<1>2. /\ merged[me] = st.latest_update[me]
      /\ \A i \in Servers, p \in Servers :
            /\ st.latest_update[i][p] <= merged[i][p]
            /\ st.latest_update[i][p] <= st.latest_update[i][p]
  BY <1>1 DEF larger
<1>3. updateMatrix(st, me, m) = st
        \/ updateMatrix(st, me, m) = [st EXCEPT !.latest_update = merged]
  BY DEF updateMatrix
<1> HIDE DEF merged
<1> QED
  BY <1>2, <1>3 DEF FiniteStates, LocalStates

(* Merging and counting a matrix changes the vectors alone.                *)
LEMMA CountMatrixEffect ==
    ASSUME NEW st \in FiniteStates, NEW me \in Servers, NEW m
    PROVE  /\ countMatrix(st, me, m).updateIndex = st.updateIndex
           /\ countMatrix(st, me, m).buffer = st.buffer
           /\ countMatrix(st, me, m).latest_update =
                updateMatrix(st, me, m).latest_update
           /\ countMatrix(st, me, m).current_membership = st.current_membership
<1> DEFINE x == updateMatrix(st, me, m)
<1>1. /\ x.updateIndex = st.updateIndex
      /\ x.buffer = st.buffer
      /\ x.current_membership = st.current_membership
  BY DEF updateMatrix, FiniteStates, LocalStates
<1>2. countMatrix(st, me, m) = [x EXCEPT !.num_matrix_recvd = x.num_matrix_recvd + 1]
  BY DEF countMatrix
<1>3. ASSUME NEW c
      PROVE  /\ [x EXCEPT !.num_matrix_recvd = c].updateIndex = x.updateIndex
             /\ [x EXCEPT !.num_matrix_recvd = c].buffer = x.buffer
             /\ [x EXCEPT !.num_matrix_recvd = c].latest_update = x.latest_update
             /\ [x EXCEPT !.num_matrix_recvd = c].current_membership =
                    x.current_membership
  OBVIOUS
<1> QED
  BY <1>1, <1>2, <1>3

(* Purging changes the buffer alone; what goes is passed in every row.     *)
LEMMA PurgeEffect ==
    ASSUME NEW st \in FiniteStates
    PROVE  /\ purgeUpdateBuffer(st).updateIndex = st.updateIndex
           /\ purgeUpdateBuffer(st).latest_update = st.latest_update
           /\ purgeUpdateBuffer(st).buffer \subseteq st.buffer
           /\ \A u \in st.buffer \ purgeUpdateBuffer(st).buffer :
                 \A i \in Servers : ~ (st.latest_update[i][u.procID] <= u.index)
<1> DEFINE kept == {u \in st.buffer : \E i \in Servers :
                       st.latest_update[i][u.procID] <= u.index}
           x == purgeUpdateBuffer(st)
<1>1. x = [st EXCEPT !.buffer = kept]
  BY DEF purgeUpdateBuffer
<1> HIDE DEF kept, x
<1>2. /\ x.updateIndex = st.updateIndex
      /\ x.latest_update = st.latest_update
      /\ x.buffer = kept
  BY <1>1 DEF FiniteStates, LocalStates
<1> QED
  BY <1>2 DEF kept, x

(* Purging and planning change the buffer and the ranges alone; what goes  *)
(* from the buffer is passed in every row.                                 *)
LEMMA ContinueReconcileEffect ==
    ASSUME NEW st \in FiniteStates, NEW me \in Servers
    PROVE  /\ continueReconcile(st, me).updateIndex = st.updateIndex
           /\ continueReconcile(st, me).latest_update = st.latest_update
           /\ continueReconcile(st, me).buffer \subseteq st.buffer
           /\ \A u \in st.buffer \ continueReconcile(st, me).buffer :
                 \A i \in Servers : ~ (st.latest_update[i][u.procID] <= u.index)
<1>1. /\ continueReconcile(st, me).updateIndex = purgeUpdateBuffer(st).updateIndex
      /\ continueReconcile(st, me).latest_update = purgeUpdateBuffer(st).latest_update
      /\ continueReconcile(st, me).buffer = purgeUpdateBuffer(st).buffer
  BY DEF continueReconcile, planUpdates
<1> QED
  BY <1>1, PurgeEffect

=============================================================================
