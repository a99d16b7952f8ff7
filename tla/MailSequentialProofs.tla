------------------------ MODULE MailSequentialProofs ------------------------
(***************************************************************************)
(* The sequential parts of the mail server: the loop that sends a batch    *)
(* (module FlowControl) and the lists (module MailLists).                  *)
(***************************************************************************)
EXTENDS FlowControl, MailLists, MailStateProofs

-----------------------------------------------------------------------------
(* The sending loop.                                                       *)

stamp(p, i) == [procID |-> p, index |-> i]

(* The loop has taken index i from the range of p.                         *)
passed(p, i) ==
    /\ inRange(start.min_max[p], i)
    /\ min_max[p].min < 0 \/ i < min_max[p].min

LoopTypes ==
    /\ start \in [buffer : SUBSET Stamps, min_max : [Servers -> StartRanges],
                  status : {"SENDINGUPDATES"}]
    /\ n \in 1 .. MaxSend
    /\ min_max \in [Servers -> StartRanges]
    /\ sent \in Seq(Stamps)
    /\ returned \in {-1, 0, 1}

(* A range loses indices at its lower end only.                            *)
RangesShrink ==
    \A p \in Servers :
        \/ min_max[p] = NoRange
        \/ /\ 0 <= start.min_max[p].min
           /\ start.min_max[p].min <= min_max[p].min
           /\ min_max[p].max = start.min_max[p].max

(* Of what it has passed, the loop has sent what is in the buffer.         *)
SentIsPassed ==
    \A u \in Stamps :
        (\E k \in 1 .. Len(sent) : sent[k] = u) <=>
            u \in start.buffer /\ passed(u.procID, u.index)

(* Across the ranges too: what is passed is before what is left.           *)
PassedComesFirst ==
    \A p, q \in Servers, i \in 0 .. MaxRange :
        passed(p, i) /\ min_max[q].min >= 0 =>
            Before(stamp(p, i), stamp(q, min_max[q].min))

SentSorted ==
    \A k, l \in 1 .. Len(sent) : k < l => Before(sent[k], sent[l])

(* With its n-th send the loop stops: it passes nothing more.              *)
StopsAtASend ==
    /\ Len(sent) <= n
    /\ Len(sent) = n =>
         \A p \in Servers, i \in 0 .. MaxRange :
             passed(p, i) => ~ Before(sent[n], stamp(p, i))

ReturnsRight ==
    /\ returned = 1 => Len(sent) = n
    /\ returned = 0 =>
         /\ Len(sent) < n
         /\ \A p \in Servers : min_max[p].min < 0

LoopInv ==
    /\ LoopTypes
    /\ RangesShrink
    /\ SentIsPassed
    /\ PassedComesFirst
    /\ SentSorted
    /\ StopsAtASend
    /\ ReturnsRight

(* Stamps and ranges are made of integers.                                 *)
LEMMA StampTypes ==
    /\ Servers \subseteq Int
    /\ \A u \in Stamps : /\ u.procID \in Servers /\ u.index \in 0 .. MaxRange
                         /\ u = stamp(u.procID, u.index)
    /\ \A p \in Servers, i \in 0 .. MaxRange :
         /\ stamp(p, i) \in Stamps
         /\ stamp(p, i).procID = p /\ stamp(p, i).index = i
    /\ NoRange \in StartRanges /\ NoRange.min = -1 /\ NoRange.max = -1
    /\ \A r \in StartRanges :
         /\ r.min \in Int /\ r.max \in Int /\ r.min <= r.max /\ r.max <= MaxRange
         /\ r.min < 0 => r = NoRange
         /\ r # NoRange => r.min \in 0 .. MaxRange /\ r.max \in 0 .. MaxRange
<1>1. MaxRange \in Nat /\ NumServers \in Nat
  BY MaxRangeAssumption, NumServersAssumption
<1> QED
  BY <1>1 DEF Servers, Stamps, stamp, StartRanges, NoRange

LEMMA LoopStarts == LoopInit => LoopInv
<1> SUFFICES ASSUME LoopInit PROVE LoopInv
  OBVIOUS
<1>1. LoopTypes
  <2>1. sent \in Seq(Stamps)
    BY EmptySeq DEF LoopInit
  <2> QED
    BY <2>1 DEF LoopInit, LoopTypes
<1>2. MaxSend \in Nat \ {0} /\ Len(sent) = 0 /\ n >= 1
  BY MaxSendAssumption, EmptySeq DEF LoopInit
<1>3. min_max = start.min_max
  BY DEF LoopInit
<1>4. \A p \in Servers, i \in 0 .. MaxRange : ~ passed(p, i)
  BY <1>1, <1>3, StampTypes DEF passed, inRange, LoopTypes
<1>5. RangesShrink
  BY <1>1, <1>3, StampTypes DEF RangesShrink, LoopTypes
<1>6. SentIsPassed /\ PassedComesFirst /\ SentSorted
  <2>1. 1 .. Len(sent) = {}
    BY <1>2
  <2>2. SentIsPassed
    BY <1>4, <2>1, StampTypes DEF SentIsPassed
  <2> QED
    BY <1>4, <2>1, <2>2 DEF PassedComesFirst, SentSorted
<1>7. StopsAtASend /\ ReturnsRight
  BY <1>1, <1>2 DEF LoopInit, StopsAtASend, ReturnsRight, LoopTypes
<1> QED
  BY <1>1, <1>5, <1>6, <1>7 DEF LoopInv

(* An iteration passes the stamp that comes next, and no other.            *)
LEMMA PassesNext ==
    ASSUME LoopInv, NEW p \in Servers, isNext(p),
           min_max' = [min_max EXCEPT ![p] = advance(@)],
           UNCHANGED start
    PROVE  /\ min_max' \in [Servers -> StartRanges]
           /\ RangesShrink'
           /\ min_max[p].min \in 0 .. MaxRange
           /\ ~ passed(p, min_max[p].min)
           /\ \A q \in Servers, i \in 0 .. MaxRange :
                passed(q, i)' <=> passed(q, i) \/ (q = p /\ i = min_max[p].min)
           /\ \A q \in Servers :
                /\ min_max[q].min >= 0 => ~ Before(stamp(q, min_max[q].min),
                                                   stamp(p, min_max[p].min))
                /\ min_max'[q].min >= 0 => Before(stamp(p, min_max[p].min),
                                                  stamp(q, min_max'[q].min))
           /\ \A q \in Servers : min_max'[q].min >= 0 =>
                /\ min_max[q].min >= 0
                /\ min_max[q].min <= min_max'[q].min
<1> DEFINE r == min_max[p]
<1>1. /\ r \in StartRanges /\ r # NoRange /\ r.min \in 0 .. MaxRange
      /\ r.max \in 0 .. MaxRange /\ r.min <= r.max
  BY StampTypes DEF LoopInv, LoopTypes, isNext
<1>2. /\ start.min_max[p] \in StartRanges
      /\ 0 <= start.min_max[p].min
      /\ start.min_max[p].min <= r.min
      /\ r.max = start.min_max[p].max
  BY <1>1 DEF LoopInv, LoopTypes, RangesShrink
<1>3. CASE r.min = r.max
  <2>1. min_max' = [min_max EXCEPT ![p] = NoRange]
    BY <1>3 DEF advance
  <2>2. min_max' \in [Servers -> StartRanges]
    BY <2>1, StampTypes DEF LoopInv, LoopTypes
  <2>3. \A q \in Servers : min_max'[q] = IF q = p THEN NoRange ELSE min_max[q]
    BY <2>1 DEF LoopInv, LoopTypes
  <2>4. RangesShrink'
    BY <2>3 DEF RangesShrink, LoopInv
  <2>5. \A q \in Servers, i \in 0 .. MaxRange :
           passed(q, i)' <=> passed(q, i) \/ (q = p /\ i = r.min)
    BY <1>1, <1>2, <1>3, <2>3, StampTypes, MaxRangeAssumption DEF passed, inRange
  <2>6. \A q \in Servers :
           /\ min_max[q].min >= 0 => ~ Before(stamp(q, min_max[q].min),
                                              stamp(p, min_max[p].min))
           /\ min_max'[q].min >= 0 => Before(stamp(p, min_max[p].min),
                                             stamp(q, min_max'[q].min))
    <3> TAKE q \in Servers
    <3>1. min_max[q] \in StartRanges
      BY DEF LoopInv, LoopTypes
    <3> QED
      BY <1>1, <2>3, <3>1, StampTypes DEF isNext, Before, stamp
  <2>7. ~ passed(p, r.min)
    BY <1>1 DEF passed
  <2>8. \A q \in Servers : min_max'[q].min >= 0 =>
           /\ min_max[q].min >= 0
           /\ min_max[q].min <= min_max'[q].min
    <3> TAKE q \in Servers
    <3>1. min_max[q] \in StartRanges
      BY DEF LoopInv, LoopTypes
    <3> QED
      BY <2>3, <3>1, StampTypes
  <2> QED
    BY <1>1, <2>2, <2>4, <2>5, <2>6, <2>7, <2>8
<1>4. CASE r.min # r.max
  <2> DEFINE s == [r EXCEPT !.min = @ + 1]
  <2>1. min_max' = [min_max EXCEPT ![p] = s]
    BY <1>4 DEF advance
  <2>2. s \in StartRanges /\ s.min = r.min + 1 /\ s.max = r.max
    BY <1>1, <1>4, MaxRangeAssumption DEF StartRanges
  <2> HIDE DEF s
  <2>3. min_max' \in [Servers -> StartRanges]
    BY <2>1, <2>2 DEF LoopInv, LoopTypes
  <2>4. \A q \in Servers : min_max'[q] = IF q = p THEN s ELSE min_max[q]
    BY <2>1 DEF LoopInv, LoopTypes
  <2>5. RangesShrink'
    <3>1. /\ start.min_max[p].min <= s.min
          /\ s.max = start.min_max[p].max
      BY <1>1, <1>2, <2>2, StampTypes
    <3> QED
      BY <1>2, <2>4, <3>1 DEF RangesShrink, LoopInv
  <2>6. \A q \in Servers, i \in 0 .. MaxRange :
           passed(q, i)' <=> passed(q, i) \/ (q = p /\ i = r.min)
    BY <1>1, <1>2, <1>4, <2>2, <2>4, StampTypes, MaxRangeAssumption
       DEF passed, inRange
  <2>7. \A q \in Servers :
           /\ min_max[q].min >= 0 => ~ Before(stamp(q, min_max[q].min),
                                              stamp(p, min_max[p].min))
           /\ min_max'[q].min >= 0 => Before(stamp(p, min_max[p].min),
                                             stamp(q, min_max'[q].min))
    <3> TAKE q \in Servers
    <3>1. min_max[q] \in StartRanges
      BY DEF LoopInv, LoopTypes
    <3> QED
      BY <1>1, <2>2, <2>4, <3>1, StampTypes DEF isNext, Before, stamp
  <2>8. ~ passed(p, r.min)
    BY <1>1 DEF passed
  <2>9. \A q \in Servers : min_max'[q].min >= 0 =>
           /\ min_max[q].min >= 0
           /\ min_max[q].min <= min_max'[q].min
    <3> TAKE q \in Servers
    <3>1. min_max[q] \in StartRanges
      BY DEF LoopInv, LoopTypes
    <3> QED
      BY <1>1, <2>2, <2>4, <3>1, StampTypes
  <2> QED
    BY <1>1, <2>3, <2>5, <2>6, <2>7, <2>8, <2>9
<1> QED
  BY <1>3, <1>4

LEMMA IterateKeeps == LoopInv /\ Iterate => LoopInv'
<1> SUFFICES ASSUME LoopInv, Iterate PROVE LoopInv'
  OBVIOUS
<1>1. PICK p \in Servers :
         /\ isNext(p)
         /\ sendFound(p, min_max[p].min)
         /\ min_max' = [min_max EXCEPT ![p] = advance(@)]
  BY DEF Iterate
<1>2. /\ UNCHANGED <<start, n, returned>>
      /\ returned = -1 /\ Len(sent) < n
  BY DEF Iterate
<1> DEFINE i == min_max[p].min
           e == stamp(p, i)
           took(q, j) == q = p /\ j = i
<1>3. /\ min_max' \in [Servers -> StartRanges]
      /\ RangesShrink'
      /\ i \in 0 .. MaxRange
      /\ ~ passed(p, i)
  BY <1>1, <1>2, PassesNext
<1>4. \A q \in Servers, j \in 0 .. MaxRange :
         passed(q, j)' <=> passed(q, j) \/ took(q, j)
  BY <1>1, <1>2, PassesNext
<1>5. \A q \in Servers :
         /\ min_max[q].min >= 0 => ~ Before(stamp(q, min_max[q].min), e)
         /\ min_max'[q].min >= 0 => Before(e, stamp(q, min_max'[q].min))
         /\ min_max'[q].min >= 0 =>
              /\ min_max[q].min >= 0
              /\ min_max[q].min <= min_max'[q].min
  BY <1>1, <1>2, PassesNext
<1>6. e \in Stamps /\ e.procID = p /\ e.index = i
  BY <1>3, StampTypes
<1>7. Len(sent) \in Nat /\ sent \in Seq(Stamps)
      /\ \A k \in 1 .. Len(sent) : sent[k] \in Stamps
  BY LenProperties, ElementOfSeq DEF LoopInv, LoopTypes
<1>8. sent' = IF e \in start.buffer THEN Append(sent, e) ELSE sent
  <2>1. start.buffer \subseteq Stamps
    BY DEF LoopInv, LoopTypes
  <2>2. findUpdate(start, p, i) <=> e \in start.buffer
    BY <1>6, <2>1, StampTypes DEF findUpdate
  <2> QED
    BY <1>1, <2>2 DEF sendFound, stamp
<1>9. \A q \in Servers, j \in 0 .. MaxRange : passed(q, j) => Before(stamp(q, j), e)
  <2>1. min_max[p].min >= 0
    BY <1>3, MaxRangeAssumption
  <2> QED
    BY <2>1 DEF LoopInv, PassedComesFirst
<1>10. \A k \in 1 .. Len(sent) : Before(sent[k], e)
  <2> TAKE k \in 1 .. Len(sent)
  <2>1. sent[k] \in Stamps
    BY <1>7
  <2>2. passed(sent[k].procID, sent[k].index)
    BY <2>1 DEF LoopInv, SentIsPassed
  <2>3. /\ sent[k].procID \in Servers /\ sent[k].index \in 0 .. MaxRange
        /\ sent[k] = stamp(sent[k].procID, sent[k].index)
    BY <2>1, StampTypes
  <2> HIDE DEF e
  <2>4. Before(stamp(sent[k].procID, sent[k].index), e)
    BY <1>9, <2>2, <2>3
  <2> QED
    BY <2>3, <2>4
<1> HIDE DEF e, i
<1>11. /\ Len(sent') \in Nat /\ sent' \in Seq(Stamps)
       /\ Len(sent') = IF e \in start.buffer THEN Len(sent) + 1 ELSE Len(sent)
       /\ \A k \in 1 .. Len(sent) : sent'[k] = sent[k]
       /\ e \in start.buffer => sent'[Len(sent) + 1] = e
  BY <1>6, <1>7, <1>8, AppendProperties
<1>12. LoopTypes'
  <2>1. start' = start /\ n' = n /\ returned' = returned
    BY <1>2
  <2> QED
    BY <1>3, <1>11, <2>1 DEF LoopInv, LoopTypes
<1>13. SentIsPassed'
  <2> SUFFICES ASSUME NEW u \in Stamps
               PROVE  (\E k \in 1 .. Len(sent') : sent'[k] = u) <=>
                         u \in start.buffer /\ passed(u.procID, u.index)'
    BY <1>2 DEF SentIsPassed
  <2>1. (\E k \in 1 .. Len(sent') : sent'[k] = u) <=>
           (\E k \in 1 .. Len(sent) : sent[k] = u) \/ (e \in start.buffer /\ u = e)
    BY <1>7, <1>11
  <2>2. passed(u.procID, u.index)' <=> passed(u.procID, u.index) \/ u = e
    <3>1. took(u.procID, u.index) <=> u = e
      BY <1>6, StampTypes DEF e
    <3> QED
      BY <1>4, <3>1, StampTypes
  <2> QED
    BY <2>1, <2>2 DEF LoopInv, SentIsPassed
<1>14. PassedComesFirst'
  <2> SUFFICES ASSUME NEW q \in Servers, NEW r \in Servers, NEW j \in 0 .. MaxRange,
                      passed(q, j)', min_max'[r].min >= 0
               PROVE  Before(stamp(q, j), stamp(r, min_max'[r].min))
    BY DEF PassedComesFirst
  <2>1. Before(stamp(q, j), e) \/ stamp(q, j) = e
    BY <1>4, <1>9 DEF e
  <2>2. Before(e, stamp(r, min_max'[r].min))
    BY <1>5
  <2>3. min_max'[r] \in StartRanges
    BY <1>3
  <2> QED
    BY <1>6, <2>1, <2>2, <2>3, StampTypes DEF Before, stamp
<1>15. SentSorted'
  <2> SUFFICES ASSUME NEW k \in 1 .. Len(sent'), NEW l \in 1 .. Len(sent'), k < l
               PROVE  Before(sent'[k], sent'[l])
    BY DEF SentSorted
  <2>1. k \in 1 .. Len(sent)
    BY <1>7, <1>11
  <2>2. CASE l \in 1 .. Len(sent)
    BY <1>11, <2>1, <2>2 DEF LoopInv, SentSorted
  <2>3. CASE l \notin 1 .. Len(sent)
    <3>1. sent'[l] = e
      BY <1>7, <1>11, <2>3
    <3> QED
      BY <1>10, <1>11, <2>1, <3>1
  <2> QED
    BY <2>2, <2>3
<1>16. StopsAtASend'
  <2>1. n' = n /\ n \in Nat
    BY <1>2 DEF LoopInv, LoopTypes
  <2>2. Len(sent') <= n
    BY <1>2, <1>7, <1>11, <2>1
  <2>3. ASSUME Len(sent') = n, NEW q \in Servers, NEW j \in 0 .. MaxRange,
               passed(q, j)'
        PROVE  ~ Before(sent'[n], stamp(q, j))
    <3>1. sent'[n] = e
      BY <1>2, <1>7, <1>11, <2>1, <2>3
    <3>2. Before(stamp(q, j), e) \/ stamp(q, j) = e
      BY <1>4, <1>9, <2>3 DEF e
    <3> QED
      BY <1>6, <3>1, <3>2, StampTypes DEF Before
  <2> QED
    BY <2>1, <2>2, <2>3 DEF StopsAtASend
<1>17. ReturnsRight'
  BY <1>2 DEF ReturnsRight
<1> QED
  BY <1>3, <1>12, <1>13, <1>14, <1>15, <1>16, <1>17 DEF LoopInv

LEMMA ReturnKeeps == LoopInv /\ Return => LoopInv'
<1> SUFFICES ASSUME LoopInv, Return PROVE LoopInv'
  OBVIOUS
<1>1. start' = start /\ n' = n /\ min_max' = min_max /\ sent' = sent
  BY DEF Return
<1>2. ReturnsRight' /\ returned' \in {-1, 0, 1}
  BY <1>1 DEF Return, ReturnsRight
<1>3. \A p, i : passed(p, i)' <=> passed(p, i)
  BY <1>1 DEF passed
<1> QED
  BY <1>1, <1>2, <1>3 DEF LoopInv, LoopTypes, RangesShrink, SentIsPassed,
     PassedComesFirst, SentSorted, StopsAtASend

LEMMA LoopAlways == LoopSpec => []LoopInv
<1>1. LoopInv /\ UNCHANGED loopVars => LoopInv'
  BY DEF loopVars, LoopInv, LoopTypes, RangesShrink, SentIsPassed, passed,
     PassedComesFirst, SentSorted, StopsAtASend, ReturnsRight
<1>2. LoopInv /\ [LoopNext]_loopVars => LoopInv'
  BY <1>1, IterateKeeps, ReturnKeeps DEF LoopNext
<1> QED
  BY <1>2, LoopStarts, PTL DEF LoopSpec

(* A list without repetitions has as many members as positions.            *)
LEMMA CountOnce ==
    ASSUME NEW T, NEW m \in Nat, NEW f \in [1 .. m -> T],
           \A k, l \in 1 .. m : k # l => f[k] # f[l]
    PROVE  /\ IsFiniteSet({f[k] : k \in 1 .. m})
           /\ Cardinality({f[k] : k \in 1 .. m}) = m
<1> DEFINE D == 1 .. m
           R == {f[k] : k \in D}
<1>1. f \in Bijection(D, R)
  <2>1. f \in [D -> R]
    OBVIOUS
  <2> QED
    BY <2>1 DEF Bijection, Injection, Surjection, IsInjective
<1>2. IsFiniteSet(D) /\ Cardinality(D) = m
  BY FS_Interval
<1> HIDE DEF D, R
<1>3. ExistsBijection(D, R)
  BY <1>1 DEF ExistsBijection
<1>4. IsFiniteSet(R) /\ Cardinality(R) = m
  BY <1>2, <1>3, FS_Bijection
<1> QED
  BY <1>4 DEF D, R

LEMMA BeforeIsStrict ==
    \A u, v \in Stamps : Before(u, v) => u # v /\ ~ Before(v, u)
<1> SUFFICES ASSUME NEW u \in Stamps, NEW v \in Stamps, Before(u, v)
             PROVE  u # v /\ ~ Before(v, u)
  OBVIOUS
<1>1. /\ u.index \in Int /\ u.procID \in Int
      /\ v.index \in Int /\ v.procID \in Int
  <2>1. /\ u.index \in 0 .. MaxRange /\ u.procID \in Servers
        /\ v.index \in 0 .. MaxRange /\ v.procID \in Servers
    BY StampTypes
  <2>2. Servers \subseteq Int /\ 0 .. MaxRange \subseteq Int
    BY StampTypes, MaxRangeAssumption
  <2> QED
    BY <2>1, <2>2
<1>2. u.index # v.index \/ u.procID # v.procID
  BY <1>1 DEF Before
<1> QED
  BY <1>1, <1>2 DEF Before

LEMMA StampsFinite == IsFiniteSet(Stamps)
<1> DEFINE P == Servers \X (0 .. MaxRange)
           f == [u \in Stamps |-> <<u.procID, u.index>>]
<1>1. IsFiniteSet(P)
  <2>1. IsFiniteSet(Servers) /\ IsFiniteSet(0 .. MaxRange)
    BY FS_Interval, MaxRangeAssumption, NumServersAssumption DEF Servers
  <2> QED
    BY <2>1, FS_Product
<1>2. f \in Injection(Stamps, P)
  <2>1. f \in [Stamps -> P]
    BY StampTypes
  <2>2. ASSUME NEW u \in Stamps, NEW v \in Stamps, f[u] = f[v]
        PROVE  u = v
    BY <2>2, StampTypes
  <2> QED
    BY <2>1, <2>2 DEF Injection, IsInjective
<1> HIDE DEF P, f
<1> QED
  BY <1>1, <1>2, FS_Injection

(* The sent updates as a set.                                              *)
sentSet == {sent[k] : k \in 1 .. Len(sent)}

(* They come before all that are missing and not sent.                     *)
LEMMA SentIsInitial ==
    ASSUME LoopInv
    PROVE  /\ IsFiniteSet(missing(start)) /\ missing(start) \subseteq Stamps
           /\ sentSet \subseteq missing(start)
           /\ IsFiniteSet(sentSet) /\ Cardinality(sentSet) = Len(sent)
           /\ \A u \in sentSet, v \in missing(start) \ sentSet : Before(u, v)
<1>1. missing(start) \subseteq Stamps
  BY DEF missing, LoopInv, LoopTypes
<1>2. IsFiniteSet(missing(start))
  BY <1>1, StampsFinite, FS_Subset
<1>3. \A u \in Stamps : u \in sentSet <=> u \in start.buffer /\ passed(u.procID, u.index)
  BY DEF LoopInv, SentIsPassed, sentSet
<1>4. sent \in Seq(Stamps) /\ sentSet \subseteq Stamps
  BY ElementOfSeq DEF LoopInv, LoopTypes, sentSet
<1>5. sentSet \subseteq missing(start)
  BY <1>3, <1>4 DEF missing, passed
<1>6. IsFiniteSet(sentSet) /\ Cardinality(sentSet) = Len(sent)
  <2>1. ASSUME NEW k \in 1 .. Len(sent), NEW l \in 1 .. Len(sent), k # l
        PROVE  sent[k] # sent[l]
    <3>1. Before(sent[k], sent[l]) \/ Before(sent[l], sent[k])
      BY <1>4, <2>1, LenProperties DEF LoopInv, SentSorted
    <3>2. sent[k] \in Stamps /\ sent[l] \in Stamps
      BY <1>4, ElementOfSeq
    <3> QED
      BY <3>1, <3>2, BeforeIsStrict
  <2>2. Len(sent) \in Nat /\ sent \in [1 .. Len(sent) -> Stamps]
    BY <1>4, LenProperties
  <2> QED
    BY <2>1, <2>2, CountOnce DEF sentSet
<1>7. ASSUME NEW u \in sentSet, NEW v \in missing(start) \ sentSet
      PROVE  Before(u, v)
  <2> DEFINE q == v.procID
  <2>1. u \in Stamps /\ v \in Stamps /\ passed(u.procID, u.index)
    BY <1>1, <1>3, <1>4, <1>7
  <2>2. /\ inRange(start.min_max[q], v.index) /\ ~ passed(q, v.index)
    BY <1>3, <1>7, <2>1 DEF missing
  <2>3. min_max[q].min >= 0 /\ min_max[q].min <= v.index
    <3>1. min_max[q] \in StartRanges
      BY <2>1, StampTypes DEF LoopInv, LoopTypes
    <3> QED
      BY <2>1, <2>2, <3>1, StampTypes DEF passed
  <2>4. Before(stamp(u.procID, u.index), stamp(q, min_max[q].min))
    BY <2>1, <2>3, StampTypes DEF LoopInv, PassedComesFirst
  <2>5. min_max[q] \in StartRanges
    BY <2>1, StampTypes DEF LoopInv, LoopTypes
  <2> QED
    BY <2>1, <2>3, <2>4, <2>5, StampTypes DEF Before, stamp
<1> QED
  BY <1>1, <1>2, <1>5, <1>6, <1>7

(* When the loop has returned, it has sent what toSend says.               *)
LEMMA SentIsToSend ==
    ASSUME LoopInv, returned # -1
    PROVE  /\ sentSet = toSend(start, n)
           /\ ranDry(start, n) <=> returned = 0
<1> DEFINE M == missing(start)
           earlier(u) == {v \in M : Before(v, u)}
<1>1. /\ IsFiniteSet(M) /\ M \subseteq Stamps
      /\ sentSet \subseteq M
      /\ IsFiniteSet(sentSet) /\ Cardinality(sentSet) = Len(sent)
      /\ \A u \in sentSet, v \in M \ sentSet : Before(u, v)
  BY SentIsInitial
<1>2. n \in Nat /\ Len(sent) \in Nat /\ Len(sent) <= n
  BY LenProperties DEF LoopInv, LoopTypes, StopsAtASend
<1>3. ASSUME NEW u \in sentSet
      PROVE  Cardinality(earlier(u)) < n
  <2>1. earlier(u) \subseteq sentSet \ {u}
    <3> SUFFICES ASSUME NEW v \in M, Before(v, u) PROVE v \in sentSet \ {u}
      OBVIOUS
    <3> HIDE DEF M
    <3>1. u \in Stamps /\ v \in Stamps
      BY <1>1, <1>3
    <3>2. v # u /\ ~ Before(u, v)
      BY <3>1, BeforeIsStrict
    <3> QED
      BY <1>1, <1>3, <3>2
  <2>2. IsFiniteSet(sentSet \ {u}) /\ Cardinality(sentSet \ {u}) = Len(sent) - 1
    BY <1>1, FS_RemoveElement
  <2>3. Cardinality(earlier(u)) <= Len(sent) - 1 /\ Cardinality(earlier(u)) \in Nat
    <3> HIDE DEF earlier
    <3> QED
      BY <2>1, <2>2, FS_Subset, FS_CardinalityType
  <2> HIDE DEF earlier
  <2> QED
    BY <1>2, <2>3
<1>4. toSend(start, n) = {u \in M : Cardinality(earlier(u)) < n}
  BY DEF toSend
<1>5. CASE returned = 1
  <2>1. Len(sent) = n
    BY <1>5 DEF LoopInv, ReturnsRight
  <2>2. ASSUME NEW v \in M \ sentSet
        PROVE  ~ (Cardinality(earlier(v)) < n)
    <3>1. sentSet \subseteq earlier(v) /\ earlier(v) \subseteq M
      BY <1>1
    <3> HIDE DEF earlier
    <3>2. IsFiniteSet(earlier(v)) /\ Cardinality(earlier(v)) \in Nat
      BY <1>1, <3>1, FS_Subset, FS_CardinalityType
    <3>3. Cardinality(sentSet) <= Cardinality(earlier(v))
      BY <3>1, <3>2, FS_Subset
    <3> QED
      BY <1>1, <1>2, <2>1, <3>2, <3>3
  <2>3. sentSet = toSend(start, n)
    <3> HIDE DEF earlier, M
    <3> QED
      BY <1>1, <1>3, <1>4, <2>2
  <2> QED
    BY <1>1, <1>2, <1>5, <2>1, <2>3 DEF ranDry
<1>6. CASE returned = 0
  <2>1. Len(sent) < n /\ \A p \in Servers : min_max[p].min < 0
    BY <1>6 DEF LoopInv, ReturnsRight
  <2>2. M \subseteq sentSet
    <3> SUFFICES ASSUME NEW u \in M PROVE u \in sentSet
      OBVIOUS
    <3>1. u \in Stamps /\ u \in start.buffer /\ inRange(start.min_max[u.procID], u.index)
      BY <1>1 DEF missing
    <3>2. passed(u.procID, u.index)
      BY <2>1, <3>1, StampTypes DEF passed
    <3> QED
      BY <3>1, <3>2 DEF LoopInv, SentIsPassed, sentSet
  <2>3. sentSet = toSend(start, n)
    <3> HIDE DEF earlier, M
    <3> QED
      BY <1>1, <1>3, <1>4, <2>2
  <2> QED
    BY <1>1, <1>2, <1>6, <2>1, <2>3 DEF ranDry
<1> QED
  BY <1>5, <1>6 DEF LoopInv, LoopTypes

(* A range is left as restOfRange says: it begins where the last send is.  *)
LEMMA RestIsLeft ==
    ASSUME LoopInv, returned = 1, NEW p \in Servers
    PROVE  restOfRange(start, n, p) = min_max[p]
<1> DEFINE r == start.min_max[p]
           visited == {i \in 0 .. r.max :
                         \E u \in toSend(start, n) : ~ Before(u, stamp(p, i))}
           left == CHOOSE i \in r.min .. r.max :
                      /\ i \notin visited
                      /\ \A j \in r.min .. i - 1 : j \in visited
           new == min_max[p]
<1>1. restOfRange(start, n, p) = IF r.min < 0 \/ r.max \in visited THEN NoRange
                                 ELSE [min |-> left, max |-> r.max]
  BY DEF restOfRange, stamp
<1>2. r \in StartRanges /\ new \in StartRanges
  BY DEF LoopInv, LoopTypes
<1>3. /\ Len(sent) = n /\ n \in 1 .. Len(sent)
      /\ sent \in Seq(Stamps)
      /\ sentSet = toSend(start, n)
  <2>1. Len(sent) = n /\ n \in 1 .. MaxSend /\ sent \in Seq(Stamps)
    BY DEF LoopInv, LoopTypes, ReturnsRight
  <2> QED
    BY <2>1, SentIsToSend, MaxSendAssumption
<1>4. ASSUME NEW i \in 0 .. MaxRange, inRange(r, i)
      PROVE  i \in visited <=> passed(p, i)
  <2>1. i \in 0 .. r.max
    BY <1>2, <1>4, StampTypes DEF inRange
  <2>2. CASE passed(p, i)
    <3>1. ~ Before(sent[n], stamp(p, i))
      BY <1>3, <2>2 DEF LoopInv, StopsAtASend
    <3>2. sent[n] \in toSend(start, n)
      BY <1>3 DEF sentSet
    <3> QED
      BY <2>1, <2>2, <3>1, <3>2
  <2>3. CASE ~ passed(p, i)
    <3>1. new.min >= 0 /\ new.min <= i
      BY <1>2, <1>4, <2>3, StampTypes DEF passed
    <3>2. ASSUME NEW u \in toSend(start, n)
          PROVE  Before(u, stamp(p, i))
      <4>1. u \in Stamps /\ u \in sentSet
        BY <1>3, <3>2, ElementOfSeq DEF sentSet
      <4>2. passed(u.procID, u.index)
        BY <4>1 DEF LoopInv, SentIsPassed, sentSet
      <4>3. Before(stamp(u.procID, u.index), stamp(p, new.min))
        BY <3>1, <4>1, <4>2, StampTypes DEF LoopInv, PassedComesFirst
      <4> QED
        BY <1>2, <3>1, <4>1, <4>3, StampTypes DEF Before, stamp
    <3> QED
      BY <2>3, <3>2
  <2> QED
    BY <2>2, <2>3
<1> HIDE DEF visited
<1>5. CASE r.min < 0
  <2>1. new = NoRange
    BY <1>2, <1>5, StampTypes DEF LoopInv, RangesShrink
  <2> QED
    BY <1>1, <1>5, <2>1
<1>6. CASE r.min >= 0
  <2>1. /\ r.min \in 0 .. MaxRange /\ r.max \in 0 .. MaxRange /\ r.min <= r.max
        /\ \A i \in r.min .. r.max : i \in 0 .. MaxRange /\ inRange(r, i)
    BY <1>2, <1>6, StampTypes, MaxRangeAssumption DEF inRange
  <2>2. CASE new = NoRange
    <3>1. passed(p, r.max)
      BY <2>1, <2>2, StampTypes, MaxRangeAssumption DEF passed
    <3>2. r.max \in visited
      BY <1>4, <2>1, <3>1, MaxRangeAssumption
    <3> QED
      BY <1>1, <2>2, <3>2
  <2>3. CASE new # NoRange
    <3>1. /\ r.min <= new.min /\ new.max = r.max /\ new.min <= new.max
          /\ new.min \in 0 .. MaxRange
      BY <1>2, <2>3, StampTypes DEF LoopInv, RangesShrink
    <3>2. \A i \in r.min .. r.max : passed(p, i) <=> i < new.min
      BY <1>2, <2>1, <3>1, StampTypes, MaxRangeAssumption DEF passed
    <3>3. \A i \in r.min .. r.max : i \in visited <=> i < new.min
      BY <1>4, <2>1, <3>2
    <3>4. r.max \notin visited
      BY <2>1, <3>1, <3>3, MaxRangeAssumption
    <3>5. /\ new.min \in r.min .. r.max
          /\ new.min \notin visited
          /\ \A j \in r.min .. new.min - 1 : j \in visited
      BY <2>1, <3>1, <3>3, MaxRangeAssumption
    <3>6. ASSUME NEW i \in r.min .. r.max, i \notin visited,
                 \A j \in r.min .. i - 1 : j \in visited
          PROVE  i = new.min
      BY <2>1, <3>1, <3>3, <3>5, <3>6, MaxRangeAssumption
    <3>7. left = new.min
      BY <3>5, <3>6
    <3>8. [min |-> new.min, max |-> new.max] = new
      BY <1>2, <2>3 DEF StartRanges, NoRange
    <3> HIDE DEF left
    <3> QED
      BY <1>1, <1>6, <2>1, <3>1, <3>4, <3>7, <3>8, MaxRangeAssumption
  <2> QED
    BY <2>2, <2>3
<1> QED
  BY <1>2, <1>5, <1>6, StampTypes

LEMMA LoopInvSuffices == LoopInv => LoopIsTheBatch
<1> SUFFICES ASSUME LoopInv, returned # -1
             PROVE  /\ {sent[k] : k \in DOMAIN sent} = toSend(start, n)
                    /\ \A k, l \in DOMAIN sent : k < l => Before(sent[k], sent[l])
                    /\ min_max = sendMissingUpdates(start, n).min_max
                    /\ (returned = 0) <=> ranDry(start, n)
  BY DEF LoopIsTheBatch
<1>1. sentSet = toSend(start, n) /\ (ranDry(start, n) <=> returned = 0)
  BY SentIsToSend
<1>2. DOMAIN sent = 1 .. Len(sent)
  BY LenProperties DEF LoopInv, LoopTypes
<1>3. min_max = sendMissingUpdates(start, n).min_max
  <2>1. min_max \in [Servers -> StartRanges] /\ returned \in {0, 1}
    BY DEF LoopInv, LoopTypes
  <2>2. CASE returned = 0
    <3>1. \A p \in Servers : min_max[p] = NoRange
      BY <2>1, <2>2, StampTypes DEF LoopInv, ReturnsRight
    <3>2. min_max = [p \in Servers |-> NoRange]
      BY <2>1, <3>1
    <3> QED
      BY <1>1, <2>2, <3>2 DEF sendMissingUpdates, LoopInv, LoopTypes
  <2>3. CASE returned = 1
    <3>1. [p \in Servers |-> restOfRange(start, n, p)] = min_max
      BY <2>1, <2>3, RestIsLeft
    <3> QED
      BY <1>1, <2>3, <3>1 DEF sendMissingUpdates, LoopInv, LoopTypes
  <2> QED
    BY <2>1, <2>2, <2>3
<1> QED
  BY <1>1, <1>2, <1>3 DEF LoopInv, SentSorted, sentSet

(* What the loop does, with any buffer, any ranges and any n, is what the  *)
(* one step of module MailServer does that stands for it.                  *)
THEOREM LoopIsAlwaysTheBatch == LoopSpec => []LoopIsTheBatch
BY LoopAlways, LoopInvSuffices, PTL

-----------------------------------------------------------------------------
(* The lists.                                                              *)

UpdateNodes == [index : 0 .. MaxIndex]

UpdatesInv ==
    /\ updates \in Seq(UpdateNodes)
    /\ UpdatesAreTheStoredSet

(* Where the walks of update_vector stop in a sorted list.                 *)
LEMMA UpdateWalkStops ==
    ASSUME NEW s \in Seq(UpdateNodes), NEW i \in 0 .. MaxIndex
    PROVE  LET k == Stop(s, 1, LAMBDA u : u.index >= i)
           IN  /\ k \in 1 .. Len(s) + 1
               /\ k <= Len(s) => s[k].index >= i
               /\ \A j \in 1 .. k - 1 : s[j].index < i
<1> DEFINE T == {j \in 1 .. Len(s) : s[j].index >= i}
           k == Stop(s, 1, LAMBDA u : u.index >= i)
<1>1. Len(s) \in Nat /\ 1 \in Nat /\ 1 <= Len(s) + 1
  BY LenProperties
<1>2. \E j \in 1 .. Len(s) + 1 :
         /\ j <= Len(s) => j \in T
         /\ \A l \in 1 .. j - 1 : l \notin T
  <2> HIDE DEF T
  <2> QED
    BY <1>1, WalkStops
<1>3. \E j \in 1 .. Len(s) + 1 :
         /\ j <= Len(s) => s[j].index >= i
         /\ \A l \in 1 .. j - 1 : ~ (s[l].index >= i)
  BY <1>1, <1>2
<1>4. /\ k \in 1 .. Len(s) + 1
      /\ k <= Len(s) => s[k].index >= i
      /\ \A j \in 1 .. k - 1 : ~ (s[j].index >= i)
  BY <1>3 DEF Stop
<1> HIDE DEF k
<1>5. \A j \in 1 .. k - 1 : s[j].index < i
  <2>1. \A j \in 1 .. Len(s) : s[j] \in UpdateNodes
    BY ElementOfSeq
  <2>2. \A j \in 1 .. Len(s) : s[j].index \in Int
    BY <2>1, BoundsAssumption DEF UpdateNodes
  <2> QED
    BY <1>1, <1>4, <2>2, BoundsAssumption
<1> QED
  BY <1>4, <1>5 DEF k

(* An index is found in the list when it is there.                         *)
LEMMA UpdateFound ==
    ASSUME NEW s \in Seq(UpdateNodes), NEW i \in 0 .. MaxIndex
    PROVE  UpdateHas(s, i) <=> \E j \in 1 .. Len(s) : s[j].index = i
<1> DEFINE T == {j \in 1 .. Len(s) : s[j].index = i}
           k == UpdateGet(s, i)
<1>1. Len(s) \in Nat /\ 1 \in Nat /\ 1 <= Len(s) + 1
  BY LenProperties
<1>2. \E j \in 1 .. Len(s) + 1 :
         /\ j <= Len(s) => j \in T
         /\ \A l \in 1 .. j - 1 : l \notin T
  <2> HIDE DEF T
  <2> QED
    BY <1>1, WalkStops
<1>3. \E j \in 1 .. Len(s) + 1 :
         /\ j <= Len(s) => s[j].index = i
         /\ \A l \in 1 .. j - 1 : ~ (s[l].index = i)
  BY <1>1, <1>2
<1>4. /\ k \in 1 .. Len(s) + 1
      /\ k <= Len(s) => s[k].index = i
      /\ \A j \in 1 .. k - 1 : ~ (s[j].index = i)
  BY <1>3 DEF UpdateGet, Stop
<1> HIDE DEF k
<1>5. UpdateHas(s, i) <=> k <= Len(s)
  BY DEF UpdateHas, k
<1> QED
  BY <1>1, <1>4, <1>5

LEMMA StoreKeepsSorted ==
    ASSUME UpdatesInv, NEW i \in 0 .. MaxIndex, StoreUpdate(i)
    PROVE  UpdatesInv'
<1> DEFINE u == [index |-> i]
           k == Stop(updates, 1, LAMBDA v : v.index >= i)
<1>1. /\ updates \in Seq(UpdateNodes) /\ Len(updates) \in Nat
      /\ \A j \in 1 .. Len(updates) : updates[j].index \in 0 .. MaxIndex
  <2>1. \A j \in 1 .. Len(updates) : updates[j] \in UpdateNodes
    BY ElementOfSeq DEF UpdatesInv
  <2> QED
    BY <2>1, LenProperties DEF UpdatesInv, UpdateNodes
<1>2. /\ k \in 1 .. Len(updates) + 1
      /\ k <= Len(updates) => updates[k].index >= i
      /\ \A j \in 1 .. k - 1 : updates[j].index < i
  BY <1>1, UpdateWalkStops
<1>3. updates' = PutAt(updates, k, u) /\ stored' = stored \cup {i}
  BY DEF StoreUpdate, UpdateInsert
<1>4. \A j \in 1 .. Len(updates) : updates[j].index # i
  BY <1>1, UpdateFound DEF StoreUpdate
<1>5. u \in UpdateNodes /\ u.index = i
  BY DEF UpdateNodes
<1> HIDE DEF k, u
<1>6. /\ updates' \in Seq(UpdateNodes) /\ Len(updates') = Len(updates) + 1
      /\ \A j \in 1 .. Len(updates) + 1 :
           updates'[j] = IF j < k THEN updates[j]
                         ELSE IF j = k THEN u ELSE updates[j - 1]
  BY <1>1, <1>2, <1>3, <1>5, PutAtNodes DEF IsPutAt
<1>7. DOMAIN updates = 1 .. Len(updates) /\ DOMAIN updates' = 1 .. Len(updates) + 1
  BY <1>1, <1>6, LenProperties
<1>8. /\ stored = {updates[j].index : j \in 1 .. Len(updates)}
      /\ \A j, l \in 1 .. Len(updates) : j < l => updates[j].index < updates[l].index
  BY <1>7 DEF UpdatesInv, UpdatesAreTheStoredSet
<1>9. {updates'[j].index : j \in 1 .. Len(updates) + 1} = stored'
  <2>1. ASSUME NEW j \in 1 .. Len(updates) + 1
        PROVE  updates'[j].index \in stored'
    <3>1. CASE j < k
      BY <1>1, <1>2, <1>3, <1>6, <1>8, <3>1
    <3>2. CASE j = k
      BY <1>2, <1>3, <1>5, <1>6, <3>2
    <3>3. CASE j > k
      <4>1. j - 1 \in 1 .. Len(updates) /\ updates'[j] = updates[j - 1]
        BY <1>1, <1>2, <1>6, <3>3
      <4> QED
        BY <1>3, <1>8, <4>1
    <3> QED
      BY <1>1, <1>2, <3>1, <3>2, <3>3
  <2>2. i \in {updates'[j].index : j \in 1 .. Len(updates) + 1}
    <3>1. updates'[k] = u
      BY <1>1, <1>2, <1>6
    <3> QED
      BY <1>2, <1>5, <3>1
  <2>3. ASSUME NEW j \in 1 .. Len(updates)
        PROVE  updates[j].index \in {updates'[l].index : l \in 1 .. Len(updates) + 1}
    <3>1. CASE j < k
      <4>1. j \in 1 .. Len(updates) + 1 /\ updates'[j] = updates[j]
        BY <1>1, <1>2, <1>6, <3>1
      <4> QED
        BY <4>1
    <3>2. CASE j >= k
      <4>1. /\ j + 1 \in 1 .. Len(updates) + 1 /\ ~ (j + 1 < k) /\ j + 1 # k
            /\ (j + 1) - 1 = j
        BY <1>1, <1>2, <3>2
      <4>2. updates'[j + 1] = updates[j]
        BY <1>6, <4>1
      <4> QED
        BY <4>1, <4>2
    <3> QED
      BY <1>1, <1>2, <3>1, <3>2
  <2> QED
    BY <1>3, <1>8, <2>1, <2>2, <2>3
<1>10. ASSUME NEW j \in 1 .. Len(updates) + 1, NEW l \in 1 .. Len(updates) + 1, j < l
       PROVE  updates'[j].index < updates'[l].index
  <2>1. ASSUME NEW a \in k .. Len(updates)
        PROVE  updates[a].index > i
    <3>1. a \in 1 .. Len(updates) /\ k \in 1 .. Len(updates)
      BY <1>1, <1>2
    <3>2. updates[k].index > i
      BY <1>1, <1>2, <1>4, <3>1, BoundsAssumption
    <3>3. k = a \/ updates[k].index < updates[a].index
      BY <1>8, <3>1
    <3> QED
      BY <1>1, <3>1, <3>2, <3>3, BoundsAssumption
  <2>2. CASE l < k
    <3>1. j \in 1 .. Len(updates) /\ l \in 1 .. Len(updates)
      BY <1>1, <1>2, <1>10, <2>2
    <3> QED
      BY <1>2, <1>6, <1>8, <1>10, <2>2, <3>1
  <2>3. CASE l = k
    <3>1. j \in 1 .. k - 1
      BY <1>1, <1>10, <2>3
    <3> QED
      BY <1>2, <1>5, <1>6, <1>10, <2>3, <3>1
  <2>4. CASE l > k
    <3>1. l - 1 \in k .. Len(updates) /\ updates'[l] = updates[l - 1]
      BY <1>1, <1>2, <1>6, <2>4
    <3>2. CASE j < k
      <4>1. j \in 1 .. k - 1 /\ j \in 1 .. Len(updates) /\ updates'[j] = updates[j]
        BY <1>1, <1>2, <1>6, <3>2
      <4> QED
        BY <1>1, <1>2, <2>1, <3>1, <4>1, BoundsAssumption
    <3>3. CASE j = k
      BY <1>5, <1>6, <2>1, <3>1, <3>3, BoundsAssumption
    <3>4. CASE j > k
      <4>1. /\ j - 1 \in 1 .. Len(updates) /\ l - 1 \in 1 .. Len(updates)
            /\ j - 1 < l - 1 /\ updates'[j] = updates[j - 1]
        BY <1>1, <1>2, <1>6, <1>10, <2>4, <3>4
      <4> QED
        BY <1>8, <3>1, <4>1
    <3> QED
      BY <1>1, <1>2, <3>2, <3>3, <3>4
  <2> QED
    BY <1>1, <1>2, <2>2, <2>3, <2>4
<1> QED
  BY <1>6, <1>7, <1>9, <1>10 DEF UpdatesInv, UpdatesAreTheStoredSet

LEMMA PurgeKeepsSorted ==
    ASSUME UpdatesInv, NEW i \in 0 .. MaxIndex, PurgeUpdates(i)
    PROVE  UpdatesInv'
<1> DEFINE k == Stop(updates, 1, LAMBDA v : v.index >= i)
           m == Len(updates) - k + 1
<1>1. /\ updates \in Seq(UpdateNodes) /\ Len(updates) \in Nat
      /\ \A j \in 1 .. Len(updates) : updates[j] \in UpdateNodes
      /\ \A j \in 1 .. Len(updates) : updates[j].index \in 0 .. MaxIndex
  <2>1. \A j \in 1 .. Len(updates) : updates[j] \in UpdateNodes
    BY ElementOfSeq DEF UpdatesInv
  <2> QED
    BY <2>1, LenProperties DEF UpdatesInv, UpdateNodes
<1>2. /\ k \in 1 .. Len(updates) + 1
      /\ k <= Len(updates) => updates[k].index >= i
      /\ \A j \in 1 .. k - 1 : updates[j].index < i
  BY <1>1, UpdateWalkStops
<1>3. /\ updates' = SubSeq(updates, k, Len(updates))
      /\ stored' = {j \in stored : j >= i}
  BY DEF PurgeUpdates, UpdateDelete
<1> HIDE DEF k
<1>4. /\ updates' \in Seq(UpdateNodes) /\ Len(updates') = m /\ m \in Nat
      /\ \A j \in 1 .. m : updates'[j] = updates[k + j - 1]
  <2>1. \A j \in k .. Len(updates) : updates[j] \in UpdateNodes
    BY <1>1, <1>2
  <2>2. /\ SubSeq(updates, k, Len(updates)) \in Seq(UpdateNodes)
        /\ Len(SubSeq(updates, k, Len(updates))) =
             IF k <= Len(updates) THEN Len(updates) - k + 1 ELSE 0
        /\ \A j \in 1 .. Len(updates) - k + 1 :
             SubSeq(updates, k, Len(updates))[j] = updates[k + j - 1]
    BY <1>1, <1>2, <2>1, SubSeqProperties
  <2> QED
    BY <1>1, <1>2, <1>3, <2>2
<1>5. DOMAIN updates = 1 .. Len(updates) /\ DOMAIN updates' = 1 .. m
  BY <1>1, <1>4, LenProperties
<1>6. /\ stored = {updates[j].index : j \in 1 .. Len(updates)}
      /\ \A j, l \in 1 .. Len(updates) : j < l => updates[j].index < updates[l].index
  BY <1>5 DEF UpdatesInv, UpdatesAreTheStoredSet
<1>7. \A j \in k .. Len(updates) : updates[j].index >= i
  <2> TAKE j \in k .. Len(updates)
  <2>1. j \in 1 .. Len(updates) /\ k \in 1 .. Len(updates)
    BY <1>1, <1>2
  <2>2. k = j \/ updates[k].index < updates[j].index
    BY <1>6, <2>1
  <2> QED
    BY <1>1, <1>2, <2>1, <2>2, BoundsAssumption
<1>8. ASSUME NEW j \in 1 .. m
      PROVE  /\ k + j - 1 \in k .. Len(updates)
             /\ k + j - 1 \in 1 .. Len(updates)
  BY <1>1, <1>2
<1>9. {updates'[j].index : j \in 1 .. m} = stored'
  <2>1. ASSUME NEW j \in 1 .. m
        PROVE  updates'[j].index \in stored'
    BY <1>3, <1>4, <1>6, <1>7, <1>8
  <2>2. ASSUME NEW j \in 1 .. Len(updates), updates[j].index >= i
        PROVE  updates[j].index \in {updates'[l].index : l \in 1 .. m}
    <3>1. j >= k
      BY <1>1, <1>2, <2>2, BoundsAssumption
    <3>2. j - k + 1 \in 1 .. m /\ k + (j - k + 1) - 1 = j
      BY <1>1, <1>2, <3>1
    <3>3. updates'[j - k + 1] = updates[j]
      BY <1>4, <3>2
    <3> QED
      BY <3>2, <3>3
  <2> HIDE DEF m
  <2> QED
    BY <1>3, <1>6, <2>1, <2>2
<1>10. ASSUME NEW j \in 1 .. m, NEW l \in 1 .. m, j < l
       PROVE  updates'[j].index < updates'[l].index
  <2>1. k + j - 1 < k + l - 1
    BY <1>1, <1>2, <1>10
  <2> QED
    BY <1>4, <1>6, <1>8, <2>1
<1> HIDE DEF m
<1> QED
  BY <1>4, <1>5, <1>9, <1>10 DEF UpdatesInv, UpdatesAreTheStoredSet

(* The list of updates stays the sorted list of what is stored: a walk     *)
(* from its head finds the place of an update and what is to be purged.    *)
THEOREM UpdatesAlwaysSorted == Spec => []UpdatesAreTheStoredSet
<1>1. Init => UpdatesInv
  <2> SUFFICES ASSUME Init PROVE UpdatesInv
    OBVIOUS
  <2>1. updates = <<>> /\ stored = {}
    BY DEF Init
  <2>2. DOMAIN updates = {} /\ updates \in Seq(UpdateNodes)
    BY <2>1, EmptySeq
  <2> QED
    BY <2>1, <2>2 DEF UpdatesInv, UpdatesAreTheStoredSet
<1>2. UpdatesInv /\ [Next]_vars => UpdatesInv'
  <2> SUFFICES ASSUME UpdatesInv, [Next]_vars PROVE UpdatesInv'
    OBVIOUS
  <2>1. CASE UNCHANGED <<updates, stored>>
    BY <2>1 DEF UpdatesInv, UpdatesAreTheStoredSet
  <2>2. ASSUME NEW i \in 0 .. MaxIndex, StoreUpdate(i) \/ PurgeUpdates(i)
        PROVE  UpdatesInv'
    BY <2>2, StoreKeepsSorted, PurgeKeepsSorted
  <2>3. \/ UNCHANGED <<updates, stored>>
        \/ \E i \in 0 .. MaxIndex : StoreUpdate(i) \/ PurgeUpdates(i)
    BY DEF Next, vars, IndexRange, AddMail, ReplayMail,
       DeleteMail, MarkAsRead, AddUser
  <2> QED
    BY <2>1, <2>2, <2>3
<1>3. UpdatesInv => UpdatesAreTheStoredSet
  BY DEF UpdatesInv
<1> QED
  BY <1>1, <1>2, <1>3, PTL DEF Spec

MailNodes == [procID : Procs, index : 0 .. MaxIndex, read : BOOLEAN]

(* No mail is twice in the list, except those of R.                        *)
EachOnce(s, R) ==
    \A j, l \in 1 .. Len(s) :
        j # l /\ idOf(s[j]) = idOf(s[l]) => idOf(s[j]) \in R

kept == added \ (deleted \cup dropped)

MailsInv ==
    /\ emails \in Seq(MailNodes)
    /\ added \subseteq Ids /\ deleted \subseteq added /\ dropped \subseteq added
    /\ kept \subseteq idSet(emails) /\ idSet(emails) \subseteq added
    /\ idSet(emails) \subseteq kept \cup replayed
    /\ EachOnce(emails, replayed)

LEMMA InsertedIds ==
    ASSUME NEW s \in Seq(MailNodes), NEW e \in MailNodes, NEW R,
           ~ EmailRejected(s, e)
    PROVE  LET t == EmailInsert(s, e)
           IN  /\ t \in Seq(MailNodes)
               /\ idSet(t) = idSet(s) \cup {idOf(e)}
               /\ /\ EachOnce(s, R)
                  /\ idOf(e) \notin idSet(s) \/ idOf(e) \in R
                  => EachOnce(t, R)
<1> DEFINE k == EmailSlot(s, e)
           t == PutAt(s, k, e)
<1>1. EmailInsert(s, e) = t
  BY DEF EmailInsert
<1>2. Len(s) \in Nat /\ k \in 1 .. Len(s) + 1
  BY LenProperties, EmailSlotStops
<1> HIDE DEF k
<1>3. /\ t \in Seq(MailNodes) /\ Len(t) = Len(s) + 1
      /\ \A j \in 1 .. Len(s) + 1 :
           t[j] = IF j < k THEN s[j] ELSE IF j = k THEN e ELSE s[j - 1]
  <2>1. PutAt(s, k, e) \in Seq(MailNodes) /\ IsPutAt(PutAt(s, k, e), s, k, e)
    BY <1>2, PutAtNodes
  <2> QED
    BY <2>1 DEF IsPutAt
<1> HIDE DEF t
<1>4. t[k] = e
  BY <1>2, <1>3
<1>5. ASSUME NEW j \in 1 .. Len(s) + 1, j # k
      PROVE  \E l \in 1 .. Len(s) : t[j] = s[l] /\ l = IF j < k THEN j ELSE j - 1
  <2>1. CASE j < k
    BY <1>2, <1>3, <2>1
  <2>2. CASE j > k
    BY <1>2, <1>3, <2>2
  <2> QED
    BY <1>2, <1>5, <2>1, <2>2
<1>6. ASSUME NEW l \in 1 .. Len(s)
      PROVE  \E j \in 1 .. Len(s) + 1 : t[j] = s[l]
  <2>1. CASE l < k
    <3>1. l \in 1 .. Len(s) + 1 /\ t[l] = s[l]
      BY <1>2, <1>3, <2>1
    <3> QED
      BY <3>1
  <2>2. CASE l >= k
    <3>1. /\ l + 1 \in 1 .. Len(s) + 1 /\ ~ (l + 1 < k) /\ l + 1 # k
          /\ (l + 1) - 1 = l
      BY <1>2, <2>2
    <3>2. t[l + 1] = s[l]
      BY <1>3, <3>1
    <3> QED
      BY <3>1, <3>2
  <2> QED
    BY <1>2, <2>1, <2>2
<1>7. idSet(t) = idSet(s) \cup {idOf(e)}
  <2>1. ASSUME NEW j \in 1 .. Len(t)
        PROVE  idOf(t[j]) \in idSet(s) \cup {idOf(e)}
    BY <1>3, <1>4, <1>5 DEF idSet
  <2>2. ASSUME NEW l \in 1 .. Len(s)
        PROVE  idOf(s[l]) \in idSet(t)
    <3>1. PICK j \in 1 .. Len(t) : t[j] = s[l]
      BY <1>3, <1>6
    <3> QED
      BY <3>1 DEF idSet
  <2>3. idOf(e) \in idSet(t)
    BY <1>2, <1>3, <1>4 DEF idSet
  <2> QED
    BY <2>1, <2>2, <2>3 DEF idSet
<1>8. ASSUME EachOnce(s, R), idOf(e) \notin idSet(s) \/ idOf(e) \in R
      PROVE  EachOnce(t, R)
  <2> SUFFICES ASSUME NEW i \in 1 .. Len(t), NEW j \in 1 .. Len(t), i # j,
                      idOf(t[i]) = idOf(t[j]), idOf(t[i]) \notin R
               PROVE  FALSE
    BY DEF EachOnce
  <2>1. i \in 1 .. Len(s) + 1 /\ j \in 1 .. Len(s) + 1
    BY <1>3
  <2>2. ASSUME NEW x \in 1 .. Len(s) + 1, x # k, idOf(t[x]) = idOf(e)
        PROVE  idOf(e) \in R
    BY <1>5, <1>8, <2>2 DEF idSet
  <2>3. CASE i = k \/ j = k
    BY <1>4, <2>1, <2>2, <2>3
  <2>4. CASE i # k /\ j # k
    <3>1. PICK x \in 1 .. Len(s) : t[i] = s[x] /\ x = IF i < k THEN i ELSE i - 1
      BY <1>5, <2>1, <2>4
    <3>2. PICK y \in 1 .. Len(s) : t[j] = s[y] /\ y = IF j < k THEN j ELSE j - 1
      BY <1>5, <2>1, <2>4
    <3>3. x # y
      BY <1>2, <2>1, <2>4, <3>1, <3>2
    <3> QED
      BY <1>8, <3>1, <3>2, <3>3 DEF EachOnce
  <2> QED
    BY <2>3, <2>4
<1> QED
  BY <1>1, <1>3, <1>7, <1>8

LEMMA DeletedIds ==
    ASSUME NEW s \in Seq(MailNodes), NEW id \in Ids, NEW R, EmailHas(s, id)
    PROVE  LET t == EmailDelete(s, id)
           IN  /\ t \in Seq(MailNodes)
               /\ id \in idSet(s)
               /\ idSet(s) \ {id} \subseteq idSet(t) /\ idSet(t) \subseteq idSet(s)
               /\ EachOnce(s, R) =>
                     /\ EachOnce(t, R)
                     /\ id \notin R => id \notin idSet(t)
<1> DEFINE k == EmailGet(s, id)
           t == DropAt(s, k)
<1>1. EmailDelete(s, id) = t /\ EmailHas(s, id)
  BY DEF EmailDelete, EmailHas, EmailHas
<1>2. Len(s) \in Nat /\ k \in 1 .. Len(s) /\ SameId(s[k], id)
  BY <1>1, LenProperties, EmailGetStops
<1>3. idOf(s[k]) = id
  BY <1>2 DEF SameId, idOf, Ids
<1> HIDE DEF k
<1>4. /\ t \in Seq(MailNodes) /\ Len(t) = Len(s) - 1
      /\ \A j \in 1 .. Len(s) - 1 : t[j] = IF j < k THEN s[j] ELSE s[j + 1]
  BY <1>2, DropAtNodes
<1> HIDE DEF t
<1>5. ASSUME NEW j \in 1 .. Len(s) - 1
      PROVE  \E l \in 1 .. Len(s) : /\ t[j] = s[l] /\ l # k
                                    /\ l = IF j < k THEN j ELSE j + 1
  <2>1. CASE j < k
    BY <1>2, <1>4, <2>1
  <2>2. CASE j >= k
    BY <1>2, <1>4, <2>2
  <2> QED
    BY <1>2, <2>1, <2>2
<1>6. ASSUME NEW l \in 1 .. Len(s), l # k
      PROVE  \E j \in 1 .. Len(s) - 1 : t[j] = s[l]
  <2>1. CASE l < k
    <3>1. l \in 1 .. Len(s) - 1 /\ t[l] = s[l]
      BY <1>2, <1>4, <2>1
    <3> QED
      BY <3>1
  <2>2. CASE l > k
    <3>1. l - 1 \in 1 .. Len(s) - 1 /\ ~ (l - 1 < k) /\ (l - 1) + 1 = l
      BY <1>2, <2>2
    <3>2. t[l - 1] = s[l]
      BY <1>4, <3>1
    <3> QED
      BY <3>1, <3>2
  <2> QED
    BY <1>2, <1>6, <2>1, <2>2
<1>7. id \in idSet(s)
  BY <1>2, <1>3 DEF idSet
<1>8. idSet(t) \subseteq idSet(s)
  BY <1>4, <1>5 DEF idSet
<1>9. idSet(s) \ {id} \subseteq idSet(t)
  <2> SUFFICES ASSUME NEW l \in 1 .. Len(s), idOf(s[l]) # id
               PROVE  idOf(s[l]) \in idSet(t)
    BY DEF idSet
  <2>1. PICK j \in 1 .. Len(t) : t[j] = s[l]
    BY <1>3, <1>4, <1>6
  <2> QED
    BY <2>1 DEF idSet
<1>10. ASSUME EachOnce(s, R)
       PROVE  EachOnce(t, R) /\ (id \notin R => id \notin idSet(t))
  <2>1. ASSUME NEW j \in 1 .. Len(t), id \notin R
        PROVE  idOf(t[j]) # id
    <3>1. PICK l \in 1 .. Len(s) : t[j] = s[l] /\ l # k
      BY <1>4, <1>5
    <3> QED
      BY <1>2, <1>3, <1>10, <2>1, <3>1 DEF EachOnce
  <2>2. ASSUME NEW i \in 1 .. Len(t), NEW j \in 1 .. Len(t), i # j,
               idOf(t[i]) = idOf(t[j])
        PROVE  idOf(t[i]) \in R
    <3>1. PICK x \in 1 .. Len(s) : t[i] = s[x] /\ x = IF i < k THEN i ELSE i + 1
      BY <1>4, <1>5
    <3>2. PICK y \in 1 .. Len(s) : t[j] = s[y] /\ y = IF j < k THEN j ELSE j + 1
      BY <1>4, <1>5
    <3>3. x # y
      BY <1>2, <1>4, <2>2, <3>1, <3>2
    <3> QED
      BY <1>10, <2>2, <3>1, <3>2, <3>3 DEF EachOnce
  <2> QED
    BY <2>1, <2>2 DEF EachOnce, idSet
<1> QED
  BY <1>1, <1>4, <1>7, <1>8, <1>9, <1>10

LEMMA MarkedIds ==
    ASSUME NEW s \in Seq(MailNodes), NEW id, NEW R, EmailHas(s, id)
    PROVE  LET t == EmailMarkRead(s, id)
           IN  /\ t \in Seq(MailNodes)
               /\ idSet(t) = idSet(s)
               /\ EachOnce(s, R) => EachOnce(t, R)
<1> DEFINE k == EmailGet(s, id)
           new == [s[k] EXCEPT !.read = TRUE]
           t == [s EXCEPT ![k] = new]
<1>1. EmailMarkRead(s, id) = t /\ EmailHas(s, id)
  BY DEF EmailMarkRead, EmailHas, EmailHas
<1>2. Len(s) \in Nat /\ k \in 1 .. Len(s)
  BY <1>1, LenProperties, EmailGetStops
<1> HIDE DEF k
<1>3. s[k] \in MailNodes
  BY <1>2, ElementOfSeq
<1>4. new \in MailNodes /\ idOf(new) = idOf(s[k])
  BY <1>3 DEF MailNodes, idOf
<1> HIDE DEF new
<1>5. /\ t \in Seq(MailNodes) /\ Len(t) = Len(s)
      /\ \A j \in 1 .. Len(s) : t[j] = IF j = k THEN new ELSE s[j]
  BY <1>2, <1>4, ExceptSeq
<1>6. \A j \in 1 .. Len(s) : idOf(t[j]) = idOf(s[j])
  BY <1>4, <1>5
<1> HIDE DEF t
<1> QED
  BY <1>1, <1>5, <1>6 DEF idSet, EachOnce

(* What a new mail or one that comes again does to the list.               *)
LEMMA InsertKeepsKept ==
    ASSUME MailsInv, NEW id \in Ids, NEW R,
           emails' = EmailInsert(emails, newMail(id))
    PROVE  /\ emails' \in Seq(MailNodes)
           /\ idSet(emails) \subseteq idSet(emails')
           /\ idSet(emails') \subseteq idSet(emails) \cup {id}
           /\ ~ EmailRejected(emails, newMail(id)) => id \in idSet(emails')
           /\ /\ EachOnce(emails, R)
              /\ id \notin idSet(emails) \/ id \in R
              => EachOnce(emails', R)
           /\ EmailRejected(emails, newMail(id)) => emails' = emails
<1> DEFINE e == newMail(id)
<1>1. e \in MailNodes /\ idOf(e) = id
  BY DEF newMail, Ids, IndexRange, MailNodes, idOf
<1>2. emails \in Seq(MailNodes)
  BY DEF MailsInv
<1> HIDE DEF e
<1>3. CASE EmailRejected(emails, e)
  <2>1. emails' = emails
    BY <1>3 DEF EmailInsert, e
  <2> QED
    BY <1>2, <1>3, <2>1 DEF e
<1>4. CASE ~ EmailRejected(emails, e)
  <2>1. /\ emails' \in Seq(MailNodes)
        /\ idSet(emails') = idSet(emails) \cup {id}
        /\ /\ EachOnce(emails, R)
           /\ id \notin idSet(emails) \/ id \in R
           => EachOnce(emails', R)
    BY <1>1, <1>2, <1>4, InsertedIds DEF e
  <2> QED
    BY <1>4, <2>1 DEF e
<1> QED
  BY <1>3, <1>4

LEMMA AddKeepsMails ==
    ASSUME MailsInv, NEW id \in Ids, AddMail(id)
    PROVE  MailsInv'
<1>1. /\ id \notin added /\ added' = added \cup {id}
      /\ emails' = EmailInsert(emails, newMail(id))
      /\ dropped' = IF EmailRejected(emails, newMail(id))
                    THEN dropped \cup {id} ELSE dropped
      /\ deleted' = deleted /\ replayed' = replayed
  BY DEF AddMail
<1>2. /\ emails' \in Seq(MailNodes)
      /\ idSet(emails) \subseteq idSet(emails')
      /\ idSet(emails') \subseteq idSet(emails) \cup {id}
      /\ ~ EmailRejected(emails, newMail(id)) => id \in idSet(emails')
      /\ /\ EachOnce(emails, replayed)
         /\ id \notin idSet(emails) \/ id \in replayed
         => EachOnce(emails', replayed)
      /\ EmailRejected(emails, newMail(id)) => emails' = emails
  BY <1>1, InsertKeepsKept
<1>3. id \notin idSet(emails) /\ id \notin deleted /\ id \notin dropped
  BY <1>1 DEF MailsInv
<1>4. /\ idSet(emails)' = idSet(emails')
      /\ EachOnce(emails, replayed)' = EachOnce(emails', replayed)
  BY <1>1 DEF idSet, EachOnce
<1>5. CASE EmailRejected(emails, newMail(id))
  <2>1. kept' = kept
    BY <1>1, <1>3, <1>5 DEF kept
  <2>2. emails' = emails
    BY <1>2, <1>5
  <2>3. dropped' \subseteq added'
    BY <1>1 DEF MailsInv
  <2> QED
    BY <1>1, <1>4, <2>1, <2>2, <2>3 DEF MailsInv
<1>6. CASE ~ EmailRejected(emails, newMail(id))
  <2>1. kept' = kept \cup {id}
    BY <1>1, <1>3, <1>6 DEF kept
  <2> QED
    BY <1>1, <1>2, <1>3, <1>4, <1>6, <2>1 DEF MailsInv
<1> QED
  BY <1>5, <1>6

LEMMA ReplayKeepsMails ==
    ASSUME MailsInv, NEW id \in Ids, ReplayMail(id)
    PROVE  MailsInv'
<1>1. /\ id \in added /\ added' = added
      /\ emails' = EmailInsert(emails, newMail(id))
      /\ replayed' = replayed \cup {id}
  BY DEF ReplayMail
<1>2. IF EmailRejected(emails, newMail(id))
      THEN deleted' = deleted /\ dropped' = dropped
      ELSE deleted' = deleted \ {id} /\ dropped' = dropped \ {id}
  BY DEF ReplayMail
<1>3. EachOnce(emails, replayed')
  BY <1>1 DEF MailsInv, EachOnce
<1>4. /\ emails' \in Seq(MailNodes)
      /\ idSet(emails) \subseteq idSet(emails')
      /\ idSet(emails') \subseteq idSet(emails) \cup {id}
      /\ ~ EmailRejected(emails, newMail(id)) => id \in idSet(emails')
      /\ EachOnce(emails', replayed')
  BY <1>1, <1>3, InsertKeepsKept
<1>5. kept \subseteq kept' /\ kept' \subseteq kept \cup {id}
  BY <1>1, <1>2 DEF kept
<1>6. EmailRejected(emails, newMail(id)) => kept' = kept
  BY <1>1, <1>2 DEF kept
<1>7. /\ idSet(emails)' = idSet(emails')
      /\ EachOnce(emails, replayed)' = EachOnce(emails', replayed')
  BY DEF idSet, EachOnce
<1>8. kept' \subseteq idSet(emails')
  BY <1>4, <1>5, <1>6 DEF MailsInv
<1>9. deleted' \subseteq added' /\ dropped' \subseteq added'
  BY <1>1, <1>2 DEF MailsInv
<1>10. /\ idSet(emails') \subseteq added'
       /\ idSet(emails') \subseteq kept' \cup replayed'
  BY <1>1, <1>4, <1>5 DEF MailsInv
<1> QED
  BY <1>1, <1>4, <1>7, <1>8, <1>9, <1>10 DEF MailsInv

LEMMA DeleteKeepsMails ==
    ASSUME MailsInv, NEW id \in Ids, DeleteMail(id)
    PROVE  MailsInv'
<1>1. /\ EmailHas(emails, id)
      /\ emails' = EmailDelete(emails, id)
      /\ deleted' = deleted \cup {id}
      /\ added' = added /\ dropped' = dropped /\ replayed' = replayed
  BY DEF DeleteMail
<1>2. /\ emails' \in Seq(MailNodes)
      /\ id \in idSet(emails)
      /\ idSet(emails) \ {id} \subseteq idSet(emails')
      /\ idSet(emails') \subseteq idSet(emails)
      /\ EachOnce(emails', replayed)
      /\ id \notin replayed => id \notin idSet(emails')
  BY <1>1, DeletedIds DEF MailsInv
<1>3. kept' = kept \ {id}
  BY <1>1 DEF kept
<1>4. /\ idSet(emails)' = idSet(emails')
      /\ EachOnce(emails, replayed)' = EachOnce(emails', replayed)
  BY <1>1 DEF idSet, EachOnce
<1>5. deleted' \subseteq added'
  BY <1>1, <1>2 DEF MailsInv
<1> QED
  BY <1>1, <1>2, <1>3, <1>4, <1>5 DEF MailsInv

LEMMA MarkKeepsMails ==
    ASSUME MailsInv, NEW id \in Ids, MarkAsRead(id)
    PROVE  MailsInv'
<1>1. /\ EmailHas(emails, id)
      /\ emails' = EmailMarkRead(emails, id)
      /\ UNCHANGED <<added, deleted, dropped, replayed>>
  BY DEF MarkAsRead
<1>2. /\ emails' \in Seq(MailNodes)
      /\ idSet(emails') = idSet(emails)
      /\ EachOnce(emails', replayed)
  BY <1>1, MarkedIds DEF MailsInv
<1>3. kept' = kept
  BY <1>1 DEF kept
<1>4. /\ idSet(emails)' = idSet(emails')
      /\ EachOnce(emails, replayed)' = EachOnce(emails', replayed)
  BY <1>1 DEF idSet, EachOnce
<1> QED
  BY <1>1, <1>2, <1>3, <1>4 DEF MailsInv

LEMMA MailsInvSuffices == MailsInv => MailsAreTheMailbox
<1> SUFFICES ASSUME MailsInv PROVE MailsAreTheMailbox
  OBVIOUS
<1>1. DOMAIN emails = 1 .. Len(emails)
  BY LenProperties DEF MailsInv
<1>2. ids(emails) = idSet(emails)
  BY <1>1 DEF ids, idSet, idOf
<1>3. ASSUME NEW j \in DOMAIN emails, NEW k \in DOMAIN emails,
             j # k, SameId(emails[j], emails[k])
      PROVE  idOf(emails[j]) \in replayed
  <2>1. idOf(emails[j]) = idOf(emails[k])
    BY <1>3 DEF SameId, idOf
  <2> QED
    BY <1>1, <1>3, <2>1 DEF MailsInv, EachOnce
<1>4. \A j, k \in DOMAIN emails :
         j # k /\ SameId(emails[j], emails[k]) =>
             [procID |-> emails[j].procID, index |-> emails[j].index]
                 \in replayed
  BY <1>3 DEF idOf
<1> QED
  BY <1>2, <1>4 DEF MailsAreTheMailbox, MailsInv, kept

(* The surgery on the list of mails loses no mail and, but for the mails   *)
(* that a restart applied again, repeats none and leaves none of the       *)
(* deleted ones, in whatever order the mails came and wherever             *)
(* email_vector_insert puts them.                                          *)
THEOREM MailsAlwaysTheMailbox == Spec => []MailsAreTheMailbox
<1>1. Init => MailsInv
  <2> SUFFICES ASSUME Init PROVE MailsInv
    OBVIOUS
  <2>1. /\ emails = <<>> /\ added = {} /\ deleted = {} /\ dropped = {}
    BY DEF Init
  <2>2. Len(emails) = 0 /\ emails \in Seq(MailNodes)
    BY <2>1, EmptySeq
  <2>3. 1 .. Len(emails) = {}
    BY <2>2
  <2> QED
    BY <2>1, <2>2, <2>3 DEF MailsInv, kept, idSet, EachOnce
<1>2. MailsInv /\ [Next]_vars => MailsInv'
  <2> SUFFICES ASSUME MailsInv, [Next]_vars PROVE MailsInv'
    OBVIOUS
  <2>1. CASE UNCHANGED mailVars
    BY <2>1 DEF mailVars, MailsInv, kept, idSet, EachOnce
  <2>2. ASSUME NEW id \in Ids,
               \/ AddMail(id) \/ ReplayMail(id)
               \/ DeleteMail(id) \/ MarkAsRead(id)
        PROVE  MailsInv'
    BY <2>2, AddKeepsMails, ReplayKeepsMails, DeleteKeepsMails, MarkKeepsMails
  <2>3. \/ UNCHANGED mailVars
        \/ \E id \in Ids :
             \/ AddMail(id) \/ ReplayMail(id)
             \/ DeleteMail(id) \/ MarkAsRead(id)
    BY DEF Next, vars, mailVars, StoreUpdate,
       PurgeUpdates, AddUser
  <2> QED
    BY <2>1, <2>2, <2>3
<1> QED
  BY <1>1, <1>2, MailsInvSuffices, PTL DEF Spec

UsersInv ==
    /\ users \in Seq(Names)
    /\ \A j, l \in 1 .. Len(users) : j # l => users[j] # users[l]

LEMMA AddUserAppends ==
    ASSUME UsersInv, NEW name \in Names, AddUser(name)
    PROVE  UsersInv' /\ (users' = users \/ users' = Append(users, name))
<1> DEFINE T == {j \in 1 .. Len(users) : users[j] = name}
           k == Stop(users, 1, LAMBDA x : x = name)
<1>1. users \in Seq(Names) /\ Len(users) \in Nat /\ 1 \in Nat /\ 1 <= Len(users) + 1
  BY LenProperties DEF UsersInv
<1>2. \E j \in 1 .. Len(users) + 1 :
         /\ j <= Len(users) => j \in T
         /\ \A l \in 1 .. j - 1 : l \notin T
  <2> HIDE DEF T
  <2> QED
    BY <1>1, WalkStops
<1>3. \E j \in 1 .. Len(users) + 1 :
         /\ j <= Len(users) => users[j] = name
         /\ \A l \in 1 .. j - 1 : ~ (users[l] = name)
  BY <1>1, <1>2
<1>4. /\ k \in 1 .. Len(users) + 1
      /\ \A j \in 1 .. k - 1 : users[j] # name
  BY <1>3 DEF Stop
<1>5. users' = IF k <= Len(users) THEN users ELSE Append(users, name)
  BY DEF AddUser, UserInsert
<1> HIDE DEF k
<1>6. CASE k <= Len(users)
  BY <1>5, <1>6 DEF UsersInv
<1>7. CASE ~ (k <= Len(users))
  <2>1. \A j \in 1 .. Len(users) : users[j] # name
    BY <1>1, <1>4, <1>7
  <2>2. users' = Append(users, name)
    BY <1>5, <1>7
  <2>3. /\ users' \in Seq(Names) /\ Len(users') = Len(users) + 1
        /\ \A j \in 1 .. Len(users) : users'[j] = users[j]
        /\ users'[Len(users) + 1] = name
    BY <1>1, <2>2, AppendProperties
  <2>4. ASSUME NEW j \in 1 .. Len(users'), NEW l \in 1 .. Len(users'), j # l
        PROVE  users'[j] # users'[l]
    <3>1. j \in 1 .. Len(users) \/ j = Len(users) + 1
      BY <1>1, <2>3
    <3>2. l \in 1 .. Len(users) \/ l = Len(users) + 1
      BY <1>1, <2>3
    <3> QED
      BY <2>1, <2>3, <2>4, <3>1, <3>2 DEF UsersInv
  <2> QED
    BY <2>2, <2>3, <2>4 DEF UsersInv
<1> QED
  BY <1>6, <1>7

(* Users are added once each, at the end of the list.                      *)
THEOREM UsersAlwaysOnce == Spec => UsersOnce
<1> DEFINE grows == /\ \E k \in 0 .. 1 : Len(users') = Len(users) + k
                    /\ SubSeq(users', 1, Len(users)) = users
                    /\ Cardinality(names(users')) = Len(users')
<1>1. Init => UsersInv
  <2> SUFFICES ASSUME Init PROVE UsersInv
    OBVIOUS
  <2>1. users = <<>> /\ users \in Seq(Names) /\ Len(users) = 0
    BY EmptySeq DEF Init
  <2> QED
    BY <2>1 DEF UsersInv
<1>2. UsersInv /\ [Next]_vars => UsersInv' /\ [grows]_vars
  <2> SUFFICES ASSUME UsersInv, [Next]_vars
               PROVE  UsersInv' /\ [grows]_vars
    OBVIOUS
  <2>1. \/ users' = users /\ UsersInv'
        \/ \E name \in Names : UsersInv' /\ users' = Append(users, name)
    <3>1. CASE users' = users
      BY <3>1 DEF UsersInv
    <3>2. CASE \E name \in Names : AddUser(name)
      BY <3>2, AddUserAppends DEF UsersInv
    <3>3. users' = users \/ \E name \in Names : AddUser(name)
      BY DEF Next, vars, mailVars, StoreUpdate,
         PurgeUpdates, AddMail, ReplayMail, DeleteMail,
         MarkAsRead
    <3> QED
      BY <3>1, <3>2, <3>3
  <2>2. UsersInv' /\ users \in Seq(Names) /\ Len(users) \in Nat
    BY <2>1, LenProperties DEF UsersInv
  <2>3. \E k \in 0 .. 1 : Len(users') = Len(users) + k
    <3>1. Len(users') = Len(users) + 0 \/ Len(users') = Len(users) + 1
      BY <2>1, <2>2, AppendProperties
    <3> QED
      BY <3>1
  <2>4. SubSeq(users', 1, Len(users)) = users
    <3> DEFINE t == SubSeq(users', 1, Len(users))
    <3>1. \A j \in 1 .. Len(users) : users'[j] = users[j] /\ users[j] \in Names
      BY <2>1, <2>2, AppendProperties, ElementOfSeq
    <3>2. /\ t \in Seq(Names)
          /\ Len(t) = IF 1 <= Len(users) THEN Len(users) - 1 + 1 ELSE 0
          /\ \A j \in 1 .. Len(users) - 1 + 1 : t[j] = users'[1 + j - 1]
      BY <2>2, <3>1, SubSeqProperties
    <3> HIDE DEF t
    <3>3. Len(t) = Len(users) /\ \A j \in 1 .. Len(users) : t[j] = users[j]
      BY <2>2, <3>1, <3>2
    <3>4. t = users
      BY <2>2, <3>2, <3>3, SeqEqual
    <3> QED
      BY <3>4 DEF t
  <2>5. Cardinality(names(users')) = Len(users')
    <3>1. /\ Len(users') \in Nat /\ users' \in [1 .. Len(users') -> Names]
          /\ DOMAIN users' = 1 .. Len(users')
      BY <2>2, LenProperties DEF UsersInv
    <3>2. \A j, l \in 1 .. Len(users') : j # l => users'[j] # users'[l]
      BY <2>2 DEF UsersInv
    <3>3. names(users') = {users'[j] : j \in 1 .. Len(users')}
      BY <3>1 DEF names
    <3> QED
      BY <3>1, <3>2, <3>3, CountOnce
  <2> QED
    BY <2>2, <2>3, <2>4, <2>5
<1> QED
  BY <1>1, <1>2, PTL DEF Spec, UsersOnce

=============================================================================
