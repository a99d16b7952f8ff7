------------------------- MODULE FileTransferProofs -------------------------
(***************************************************************************)
(* Proofs about FileTransfer, for any hosts, files, windows and limits:    *)
(* its types and, in two cases, that every file is a prefix of the host's, *)
(* that a sender knows what it gives up, and that the two programs         *)
(* implement ReliableCopy.  In the one case no timer fires before an       *)
(* answer that is on its way (TransferInv), in the other no ncp is killed  *)
(* (NoneKilledInv).                                                        *)
(***************************************************************************)
EXTENDS FileTransfer, FiniteSetTheorems, SequenceTheorems, WellFoundedInduction, TLAPS

USE WindowAssumption, FilesAssumption, BoundsAssumption, HostsAssumption

-----------------------------------------------------------------------------
(* Arithmetic.                                                             *)

LEMMA DivMod ==
    ASSUME NEW a \in Int, NEW n \in Nat \ {0}
    PROVE  /\ a % n \in 0 .. n - 1
           /\ a \div n \in Int
           /\ a = n * (a \div n) + (a % n)
OBVIOUS

LEMMA ModOfSum ==
    ASSUME NEW n \in Nat \ {0}, NEW q \in Int, NEW r \in 0 .. n - 1
    PROVE  (n * q + r) % n = r
OBVIOUS

LEMMA SmallMultiple ==
    ASSUME NEW n \in Nat \ {0}, NEW q \in Int, n * q < n
    PROVE  q <= 0
OBVIOUS

(* Adding a multiple of n changes no remainder.                            *)
LEMMA ModShift ==
    ASSUME NEW n \in Nat \ {0}, NEW a \in Int, NEW q \in Int
    PROVE  (a + n * q) % n = a % n
<1>1. PICK p \in Int, r \in 0 .. n - 1 : a = n * p + r /\ r = a % n
  BY DivMod
<1>2. a + n * q = n * (p + q) + r
  BY <1>1
<1>3. p + q \in Int
  OBVIOUS
<1>4. (n * (p + q) + r) % n = r
  BY <1>3, ModOfSum
<1> QED
  BY <1>1, <1>2, <1>4

(* Two numbers less than a window apart lie in different slots.            *)
LEMMA ModInjective ==
    ASSUME NEW n \in Nat \ {0}, NEW a \in Int, NEW b \in Int,
           a <= b, b < a + n, a % n = b % n
    PROVE  a = b
<1>1. PICK q \in Int : a = n * q + (a % n)
  BY DivMod
<1>2. PICK k \in Int : b = n * k + (b % n)
  BY DivMod
<1>3. a % n \in Int /\ b % n \in Int
  BY DivMod
<1>4. PICK d \in Int : d = k - q
  OBVIOUS
<1>5. b - a = n * d
  BY <1>1, <1>2, <1>3, <1>4
<1>6. d <= 0
  BY <1>5, SmallMultiple
<1>7. n * d <= 0
  BY <1>6
<1> QED
  BY <1>5, <1>7

(* The last number up to c that lies in the slot of k is k, when k is one  *)
(* of the last n, and not before k in any case.                            *)
LEMMA LastInSlot ==
    ASSUME NEW n \in Nat \ {0}, NEW c \in Int, NEW k \in Int, k <= c
    PROVE  /\ c - ((c - (k % n)) % n) \in Int
           /\ c - ((c - (k % n)) % n) \in k .. c
           /\ c < k + n => c - ((c - (k % n)) % n) = k
<1>1. PICK q \in Int : k = n * q + (k % n)
  BY DivMod
<1>2. k % n \in Int
  BY DivMod
<1>4. PICK d \in Nat : d = c - k
  OBVIOUS
<1>3. c - (k % n) = d + n * q
  BY <1>1, <1>2, <1>4
<1>5. (c - (k % n)) % n = d % n
  <2>1. d \in Int
    OBVIOUS
  <2>2. (d + n * q) % n = d % n
    BY <2>1, ModShift, Zenon
  <2> QED
    BY <2>2, <1>3
<1>6. d % n \in 0 .. d /\ (d < n => d % n = d)
  OBVIOUS
<1> QED
  BY <1>4, <1>5, <1>6

LEMMA SlotOf ==
    ASSUME NEW i \in Int
    PROVE  i % WINDOW_SIZE \in Slots
BY DEF Slots

LEMMA Least ==
    ASSUME NEW T \in SUBSET Nat, T # {}
    PROVE  \E x \in T : \A y \in T : x <= y
<1>1. PICK x \in T : \A y \in T : ~ (<<y, x>> \in OpToRel(<, Nat))
  BY NatLessThanWellFounded, WFMin
<1>2. \A y \in T : ~ (y < x)
  BY <1>1 DEF OpToRel
<1> QED
  BY <1>2

LEMMA Greatest ==
    ASSUME NEW T \in SUBSET Nat, T # {}, NEW c \in Nat, \A x \in T : x <= c
    PROVE  \E x \in T : \A y \in T : y <= x
<1> DEFINE U == {c - x : x \in T}
<1>1. U \in SUBSET Nat /\ U # {}
  <2>1. \A x \in T : c - x \in Nat
    <3> TAKE x \in T
    <3>1. x \in Nat /\ x <= c
      OBVIOUS
    <3> QED
      BY <3>1
  <2> QED
    BY <2>1
<1>2. PICK u \in U : \A v \in U : u <= v
  <2> HIDE DEF U
  <2> QED
    BY <1>1, Least
<1>3. PICK x \in T : u = c - x
  OBVIOUS
<1>4. ASSUME NEW y \in T
      PROVE  y <= x
  <2>1. c - y \in U
    OBVIOUS
  <2>2. u <= c - y
    BY <2>1, <1>2, Zenon
  <2>3. x \in Nat /\ y \in Nat
    OBVIOUS
  <2> QED
    BY <2>2, <2>3, <1>3
<1> QED
  BY <1>4

(* A finite set of numbers has a j-th one.                                 *)
LEMMA NthExists ==
    ASSUME NEW M \in SUBSET Nat, NEW c \in Nat, \A x \in M : x <= c,
           NEW j \in 1 .. Cardinality(M)
    PROVE  nth(M, j) \in M
<1> DEFINE below(x) == {l \in M : l <= x}
           T == {x \in Nat : Cardinality(below(x)) >= j}
<1>0. \A x \in M : x \in Int /\ 0 <= x /\ x <= c
  OBVIOUS
<1>1. \A x \in Int : IsFiniteSet(below(x)) /\ Cardinality(below(x)) \in Nat
  <2> TAKE x \in Int
  <2>1. IsFiniteSet(0 .. c)
    BY FS_Interval
  <2>2. below(x) \subseteq 0 .. c
    <3>1. ASSUME NEW l \in M
          PROVE  l \in 0 .. c
      BY <1>0
    <3> QED
      BY <3>1, Zenon
  <2> HIDE DEF below
  <2> QED
    BY <2>1, <2>2, FS_Subset, FS_CardinalityType
<1>2. below(c) = M /\ below(-1) = {}
  <2>1. ASSUME NEW l \in M
        PROVE  l <= c /\ ~ (l <= -1)
    BY <1>0
  <2> QED
    BY <2>1, Zenon
<1>3. c \in T
  BY <1>2
<1>4. PICK x \in T : \A y \in T : x <= y
  <2>1. T \in SUBSET Nat /\ T # {}
    BY <1>3
  <2> HIDE DEF T
  <2> QED
    BY <2>1, Least
<1>a. x \in Nat /\ Cardinality(below(x)) >= j
  <2> HIDE DEF below
  <2> QED
    OBVIOUS
<1>b. \A y \in Nat : Cardinality(below(y)) >= j => x <= y
  <2> HIDE DEF below
  <2> QED
    BY <1>4
<1>c. Cardinality(below(x - 1)) \in Nat /\ Cardinality(below(x)) \in Nat
  <2> HIDE DEF below
  <2> QED
    BY <1>1, <1>a
<1> HIDE DEF T
<1>5. Cardinality(below(x - 1)) < j
  <2>1. CASE x = 0
    BY <2>1, <1>2, FS_EmptySet
  <2>2. CASE x # 0
    <3> HIDE DEF below
    <3> QED
      BY <2>2, <1>a, <1>b, <1>c
  <2> QED
    BY <2>1, <2>2
<1>6. x \in M
  <2>1. SUFFICES ASSUME x \notin M
                 PROVE  FALSE
    OBVIOUS
  <2>2. ASSUME NEW l \in M
        PROVE  l <= x <=> l <= x - 1
    <3>1. l # x
      BY <2>1, Zenon
    <3>2. l \in Int /\ x \in Int
      BY <1>0, <1>a
    <3> QED
      BY <3>1, <3>2
  <2>3. below(x) = below(x - 1)
    BY <2>2, Zenon
  <2> HIDE DEF below
  <2> QED
    BY <2>3, <1>5, <1>a, <1>c
<1>7. below(x) = below(x - 1) \cup {x} /\ x \notin below(x - 1)
  <2>1. ASSUME NEW l \in M
        PROVE  l <= x <=> (l <= x - 1 \/ l = x)
    <3>1. l \in Int /\ x \in Int
      BY <1>0, <1>a
    <3> QED
      BY <3>1
  <2>2. x <= x /\ ~ (x <= x - 1)
    BY <1>a
  <2> QED
    BY <2>1, <2>2, <1>6, Zenon
<1>8. Cardinality(below(x)) = Cardinality(below(x - 1)) + 1
  <2>1. IsFiniteSet(below(x - 1))
    <3>1. x - 1 \in Int
      BY <1>a
    <3> HIDE DEF below
    <3> QED
      BY <3>1, <1>1
  <2> HIDE DEF below
  <2> QED
    BY <2>1, <1>7, FS_AddElement
<1>9. Cardinality(below(x)) = j
  <2> HIDE DEF below
  <2> QED
    BY <1>a, <1>c, <1>5, <1>8
<1>10. \E k \in M : Cardinality({l \in M : l <= k}) = j
  BY <1>6, <1>9
<1> QED
  BY <1>10 DEF nth

-----------------------------------------------------------------------------
(* The queues.                                                             *)

(* p is q with the first packets of ms after it.                           *)
Extends(p, q, ms) ==
    /\ Len(p) \in Len(q) .. Len(q) + Len(ms)
    /\ \A i \in 1 .. Len(q) : p[i] = q[i]
    /\ \A i \in Len(q) + 1 .. Len(p) :
         i - Len(q) \in 1 .. Len(ms) /\ p[i] = ms[i - Len(q)]

LEMMA Queued ==
    ASSUME NEW S, NEW q \in Seq(S), NEW ms \in Seq(S), NEW p, p = Put(q, ms)
    PROVE  p \in Seq(S) /\ Extends(p, q, ms)
<1> USE DEF Extends
<1> DEFINE both == q \o ms
<1>1. /\ both \in Seq(S) /\ Len(both) = Len(q) + Len(ms)
      /\ \A i \in 1 .. Len(q) + Len(ms) : both[i] = IF i <= Len(q) THEN q[i] ELSE ms[i - Len(q)]
  BY ConcatProperties
<1>2. Len(q) \in Nat /\ Len(ms) \in Nat
  BY LenProperties
<1>3. CASE Len(both) <= MaxWire
  <2>1. p = both
    BY <1>3 DEF Put
  <2> HIDE DEF both
  <2> QED
    BY <2>1, <1>1, <1>2
<1>4. CASE ~ (Len(both) <= MaxWire) /\ Len(q) >= MaxWire
  <2>1. p = q
    BY <1>4 DEF Put
  <2> QED
    BY <2>1, <1>2
<1>5. CASE ~ (Len(both) <= MaxWire) /\ ~ (Len(q) >= MaxWire)
  <2>1. p = SubSeq(both, 1, MaxWire)
    BY <1>5 DEF Put
  <2> HIDE DEF both
  <2>2. \A i \in 1 .. MaxWire : both[i] \in S
    BY <1>1, <1>2, <1>5, ElementOfSeq
  <2>3. /\ p \in Seq(S)
        /\ Len(p) = IF 1 <= MaxWire THEN MaxWire ELSE 0
        /\ \A i \in 1 .. MaxWire : p[i] = both[i]
    <3>1. /\ SubSeq(both, 1, MaxWire) \in Seq(S)
          /\ Len(SubSeq(both, 1, MaxWire)) = IF 1 <= MaxWire THEN MaxWire - 1 + 1 ELSE 0
          /\ \A i \in 1 .. MaxWire - 1 + 1 : SubSeq(both, 1, MaxWire)[i] = both[1 + i - 1]
      <4>1. 1 \in Int /\ MaxWire \in Int
        OBVIOUS
      <4> QED
        BY <2>2, <4>1, SubSeqProperties
    <3> QED
      BY <3>1, <2>1
  <2>4. Len(p) = MaxWire
    BY <2>3, <1>2, <1>5
  <2> QED
    BY <2>3, <2>4, <1>1, <1>2, <1>5
<1> QED
  BY <1>3, <1>4, <1>5

(* p is q, with m after it unless the socket was full.                     *)
Appended(p, q, m) ==
    /\ Len(p) \in Len(q) .. Len(q) + 1
    /\ \A i \in 1 .. Len(q) : p[i] = q[i]
    /\ \A i \in Len(q) + 1 .. Len(p) : p[i] = m

LEMMA OneMore ==
    ASSUME NEW S, NEW q \in Seq(S), NEW m \in S, NEW p, p = Put(q, <<m>>)
    PROVE  p \in Seq(S) /\ Appended(p, q, m)
<1>1. PICK ms \in Seq(S) : ms = <<m>> /\ Len(ms) = 1 /\ ms[1] = m
  <2>1. <<m>> \in Seq(S) /\ Len(<<m>>) = 1 /\ <<m>>[1] = m
    OBVIOUS
  <2> QED
    BY <2>1, Zenon
<1>a. p = Put(q, ms)
  BY <1>1
<1>2. /\ p \in Seq(S)
      /\ Len(p) \in Len(q) .. Len(q) + Len(ms)
      /\ \A i \in 1 .. Len(q) : p[i] = q[i]
      /\ \A i \in Len(q) + 1 .. Len(p) :
                i - Len(q) \in 1 .. Len(ms) /\ p[i] = ms[i - Len(q)]
  <2>1. p \in Seq(S) /\ Extends(p, q, ms)
    BY <1>a, Queued, Zenon
  <2> QED
    BY <2>1 DEF Extends
<1>3. Len(q) \in Nat
  BY LenProperties
<1> QED
  BY <1>1, <1>2, <1>3 DEF Appended

LEMMA Dropped ==
    ASSUME NEW S, NEW q \in Seq(S), NEW n \in DOMAIN q, NEW p, p = without(q, n)
    PROVE  /\ p \in Seq(S)
           /\ Len(p) = Len(q) - 1
           /\ n \in 1 .. Len(q)
           /\ \A i \in 1 .. Len(p) : p[i] = IF i < n THEN q[i] ELSE q[i + 1]
<1>1. Len(q) \in Nat /\ n \in 1 .. Len(q) /\ \A i \in 1 .. Len(q) : q[i] \in S
  BY LenProperties, ElementOfSeq
<1> DEFINE a == SubSeq(q, 1, n - 1)
           b == SubSeq(q, n + 1, Len(q))
<1>2. /\ a \in Seq(S) /\ Len(a) = n - 1
      /\ \A i \in 1 .. n - 1 : a[i] = q[i]
  <2>1. \A i \in 1 .. n - 1 : q[i] \in S
    BY <1>1
  <2>2. 1 \in Int /\ n - 1 \in Int
    BY <1>1
  <2>3. /\ SubSeq(q, 1, n - 1) \in Seq(S)
        /\ Len(SubSeq(q, 1, n - 1)) = IF 1 <= n - 1 THEN n - 1 - 1 + 1 ELSE 0
        /\ \A i \in 1 .. n - 1 - 1 + 1 : SubSeq(q, 1, n - 1)[i] = q[1 + i - 1]
    BY <2>1, <2>2, SubSeqProperties
  <2> QED
    BY <2>3, <1>1
<1>3. /\ b \in Seq(S) /\ Len(b) = Len(q) - n
      /\ \A i \in 1 .. Len(q) - n : b[i] = q[n + i]
  <2>1. \A i \in n + 1 .. Len(q) : q[i] \in S
    BY <1>1
  <2>2. n + 1 \in Int /\ Len(q) \in Int
    BY <1>1
  <2>3. /\ SubSeq(q, n + 1, Len(q)) \in Seq(S)
        /\ Len(SubSeq(q, n + 1, Len(q))) = IF n + 1 <= Len(q) THEN Len(q) - (n + 1) + 1 ELSE 0
        /\ \A i \in 1 .. Len(q) - (n + 1) + 1 : SubSeq(q, n + 1, Len(q))[i] = q[n + 1 + i - 1]
    BY <2>1, <2>2, SubSeqProperties
  <2> QED
    BY <2>3, <1>1
<1>4. p = a \o b
  BY DEF without
<1> HIDE DEF a, b
<1>5. /\ p \in Seq(S) /\ Len(p) = Len(a) + Len(b)
      /\ \A i \in 1 .. Len(a) + Len(b) : p[i] = IF i <= Len(a) THEN a[i] ELSE b[i - Len(a)]
  BY <1>2, <1>3, <1>4, ConcatProperties
<1>6. Len(p) = Len(q) - 1
  BY <1>1, <1>2, <1>3, <1>5
<1>7. ASSUME NEW i \in 1 .. Len(p)
      PROVE  p[i] = IF i < n THEN q[i] ELSE q[i + 1]
  <2>1. p[i] = IF i <= Len(a) THEN a[i] ELSE b[i - Len(a)]
    BY <1>1, <1>2, <1>3, <1>5
  <2>2. CASE i < n
    BY <2>1, <2>2, <1>1, <1>2, <1>6
  <2>3. CASE ~ (i < n)
    <3>1. PICK k \in 1 .. Len(q) - n : k = i - Len(a)
      BY <2>3, <1>1, <1>2, <1>6
    <3>2. p[i] = q[n + k] /\ n + k = i + 1
      BY <3>1, <2>1, <2>3, <1>1, <1>2, <1>3, <1>6
    <3> QED
      BY <3>2, <2>3
  <2> QED
    BY <2>2, <2>3
<1> QED
  BY <1>1, <1>5, <1>6, <1>7

LEMMA FirstTaken ==
    ASSUME NEW S, NEW q \in Seq(S), q # <<>>, NEW p, p = Tail(q)
    PROVE  /\ p \in Seq(S) /\ Len(q) \in Nat /\ Len(q) >= 1
           /\ Len(p) = Len(q) - 1
           /\ q[1] = Head(q) /\ q[1] \in S
           /\ \A i \in 1 .. Len(p) : p[i] = q[i + 1]
<1>1. Len(q) \in Nat /\ Len(q) # 0
  BY EmptySeq, LenProperties
<1> QED
  BY <1>1, HeadTailProperties, ElementOfSeq

-----------------------------------------------------------------------------
(* The receiver's window.                                                  *)

(* The slots hold the numbers of the window, each the one that belongs     *)
(* there, and the numbers received are below b.                            *)
WindowOK(r, b) ==
    /\ r \in Receivers
    /\ r.window_min_seq <= b
    /\ \A i \in Slots :
         /\ r.window_buffer[i].seq_num \in r.window_min_seq .. window_max_seq(r)
         /\ r.window_buffer[i].seq_num % WINDOW_SIZE = i
         /\ r.window_buffer[i].received => r.window_buffer[i].seq_num < b

has(r, k) == r.window_buffer[k % WINDOW_SIZE].received

LEMMA WindowTypes ==
    ASSUME NEW r \in Receivers
    PROVE  /\ r.window_min_seq \in Nat
           /\ window_max_seq(r) = r.window_min_seq + WINDOW_SIZE - 1
           /\ window_max_seq(r) \in Nat
           /\ r.window_buffer \in [Slots -> [received : BOOLEAN, seq_num : Nat, data : Data]]
           /\ \A i \in Slots : /\ r.window_buffer[i].received \in BOOLEAN
                               /\ r.window_buffer[i].seq_num \in Nat
                               /\ r.window_buffer[i].data \in Data
<1>1. r.window_min_seq \in Nat
  BY DEF Receivers
<1>2. r.window_buffer \in [Slots -> [received : BOOLEAN, seq_num : Nat, data : Data]]
  BY DEF Receivers
<1>3. \A i \in Slots : r.window_buffer[i] \in [received : BOOLEAN, seq_num : Nat, data : Data]
  BY <1>2
<1> QED
  BY <1>1, <1>2, <1>3 DEF window_max_seq

LEMMA SlotHolds ==
    ASSUME NEW r, NEW b \in Nat, WindowOK(r, b),
           NEW k \in r.window_min_seq .. window_max_seq(r)
    PROVE  /\ k % WINDOW_SIZE \in Slots
           /\ r.window_buffer[k % WINDOW_SIZE].seq_num = k
           /\ has(r, k) => k < b
<1>0. r \in Receivers
  BY DEF WindowOK
<1>1. k \in Int /\ k % WINDOW_SIZE \in Slots
  BY <1>0, WindowTypes, SlotOf
<1>2. PICK n \in Nat : n = r.window_buffer[k % WINDOW_SIZE].seq_num
  BY <1>0, <1>1, WindowTypes
<1>3. /\ n \in r.window_min_seq .. window_max_seq(r)
      /\ n % WINDOW_SIZE = k % WINDOW_SIZE
      /\ has(r, k) => n < b
  BY <1>1, <1>2 DEF WindowOK, has
<1>4. n \in Int /\ ((k <= n /\ n < k + WINDOW_SIZE) \/ (n <= k /\ k < n + WINDOW_SIZE))
  BY <1>0, <1>1, <1>3, WindowTypes
<1>5. n = k
  BY <1>1, <1>3, <1>4, ModInjective
<1> QED
  BY <1>1, <1>2, <1>3, <1>5

(* consecutive counts the numbers received from the start of the window.   *)
LEMMA Consecutive ==
    ASSUME NEW r, NEW b \in Nat, WindowOK(r, b), NEW c, c = consecutive(r)
    PROVE  /\ c \in 0 .. WINDOW_SIZE
           /\ \A k \in r.window_min_seq .. r.window_min_seq + c - 1 : has(r, k)
           /\ c < WINDOW_SIZE => ~ has(r, r.window_min_seq + c)
           /\ r.window_min_seq + c <= b
<1> DEFINE w == r.window_min_seq
           T == {l \in Slots : ~ has(r, w + l)}
           C == {k \in Slots : \A l \in 0 .. k : has(r, w + l)}
<1>0. r \in Receivers /\ w \in Nat /\ w <= b
  BY WindowTypes DEF WindowOK
<1>1. C = {k \in Slots : \A l \in 0 .. k : r.window_buffer[(w + l) % WINDOW_SIZE].received}
  BY DEF has
<1>2. c = Cardinality(C)
  BY <1>1 DEF consecutive
<1>3. PICK n \in 0 .. WINDOW_SIZE :
        /\ \A l \in 0 .. n - 1 : has(r, w + l)
        /\ n < WINDOW_SIZE => ~ has(r, w + n)
  <2>1. CASE T = {}
    <3>1. \A l \in 0 .. WINDOW_SIZE - 1 : has(r, w + l)
      BY <2>1 DEF Slots
    <3> HIDE DEF w
    <3> QED
      BY <3>1
  <2>2. CASE T # {}
    <3>1. T \in SUBSET Nat
      BY DEF Slots
    <3>2. PICK n \in T : \A y \in T : n <= y
      <4> HIDE DEF T
      <4> QED
        BY <3>1, <2>2, Least
    <3>3. n \in 0 .. WINDOW_SIZE - 1 /\ ~ has(r, w + n)
      BY DEF Slots
    <3>4. ASSUME NEW l \in 0 .. n - 1
          PROVE  has(r, w + l)
      <4>1. l \in Slots /\ ~ (n <= l)
        BY <3>3 DEF Slots
      <4> QED
        BY <4>1, <3>2
    <3> HIDE DEF w
    <3> QED
      BY <3>3, <3>4
  <2> QED
    BY <2>1, <2>2
<1>4. C = 0 .. n - 1
  <2>1. ASSUME NEW k \in 0 .. n - 1
        PROVE  k \in C
    <3>1. k \in Slots /\ \A l \in 0 .. k : l \in 0 .. n - 1
      BY DEF Slots
    <3> HIDE DEF w
    <3> QED
      BY <3>1, <1>3
  <2>2. ASSUME NEW k \in C
        PROVE  k \in 0 .. n - 1
    <3>1. k \in 0 .. WINDOW_SIZE - 1 /\ \A l \in 0 .. k : has(r, w + l)
      BY DEF Slots
    <3> HIDE DEF w, C
    <3> QED
      BY <3>1, <1>3
  <2> HIDE DEF C
  <2> QED
    BY <2>1, <2>2
<1>5. c = n
  <2>1. Cardinality(0 .. n - 1) = IF 0 > n - 1 THEN 0 ELSE n - 1 - 0 + 1
    BY FS_Interval
  <2> HIDE DEF C
  <2> QED
    BY <2>1, <1>2, <1>4
<1> HIDE DEF C, T
<1>6. \A k \in w .. w + n - 1 : has(r, k)
  <2> SUFFICES ASSUME NEW k \in w .. w + n - 1
               PROVE  has(r, k)
    OBVIOUS
  <2> HIDE DEF w
  <2>1. PICK l \in 0 .. n - 1 : k = w + l
    BY <1>0
  <2> QED
    BY <2>1, <1>3
<1>7. w + n <= b
  <2>1. CASE n = 0
    <3> HIDE DEF w
    <3> QED
      BY <2>1, <1>0
  <2>2. CASE n # 0
    <3>1. w + n - 1 \in w .. window_max_seq(r) /\ w + n - 1 \in w .. w + n - 1
      BY <2>2, <1>0, WindowTypes
    <3>2. has(r, w + n - 1)
      <4> HIDE DEF w
      <4> QED
        BY <3>1, <1>6
    <3>3. w + n - 1 < b
      BY <3>1, <3>2, SlotHolds
    <3> HIDE DEF w
    <3> QED
      BY <3>3, <1>0
  <2> QED
    BY <2>1, <2>2
<1> QED
  BY <1>3, <1>5, <1>6, <1>7

LEMMA Written ==
    ASSUME NEW r, NEW b \in Nat, WindowOK(r, b), NEW c, c = consecutive(r)
    PROVE  /\ written(r) \in Seq(Data)
           /\ Len(written(r)) = c
           /\ \A k \in 1 .. c : written(r)[k] =
                r.window_buffer[(r.window_min_seq + k - 1) % WINDOW_SIZE].data
<1>1. c \in Nat /\ r \in Receivers
  BY Consecutive DEF WindowOK
<1>2. \A k \in 1 .. c : r.window_buffer[(r.window_min_seq + k - 1) % WINDOW_SIZE].data \in Data
  <2> TAKE k \in 1 .. c
  <2>1. r.window_min_seq + k - 1 \in Int
    BY <1>1, WindowTypes
  <2> QED
    BY <2>1, <1>1, SlotOf, WindowTypes
<1>3. written(r) =
        [k \in 1 .. c |-> r.window_buffer[(r.window_min_seq + k - 1) % WINDOW_SIZE].data]
  BY DEF written
<1> QED
  BY <1>1, <1>2, <1>3

(* What clearWindow leaves: the window moved past what was written.        *)
Moved(r, u) ==
    /\ u \in Receivers
    /\ u.state = r.state /\ u.conn = r.conn /\ u.retryCounter = r.retryCounter
    /\ u.window_min_seq = r.window_min_seq + consecutive(r)
    /\ ~ has(u, u.window_min_seq)
    /\ \A i \in Slots : u.window_buffer[i].received => u.window_buffer[i] = r.window_buffer[i]

LEMMA Cleared ==
    ASSUME NEW r, NEW b \in Nat, WindowOK(r, b), NEW u, u = clearWindow(r)
    PROVE  WindowOK(u, b) /\ Moved(r, u)
<1> DEFINE w == r.window_min_seq
           gone == {(w + k - 1) % WINDOW_SIZE : k \in 1 .. consecutive(r)}
           wb == [i \in Slots |->
                    IF i \in gone
                    THEN [received |-> FALSE,
                          seq_num |-> r.window_buffer[i].seq_num + WINDOW_SIZE,
                          data |-> Empty]
                    ELSE r.window_buffer[i]]
<1>0. r \in Receivers /\ w \in Nat /\ w <= b /\ window_max_seq(r) = w + WINDOW_SIZE - 1
  BY WindowTypes DEF WindowOK
<1>1. PICK c : c = consecutive(r)
  OBVIOUS
<1>2. /\ c \in 0 .. WINDOW_SIZE /\ w + c <= b
      /\ \A k \in w .. w + c - 1 : has(r, k)
      /\ c < WINDOW_SIZE => ~ has(r, w + c)
  BY <1>1, Consecutive
<1>3. /\ r.window_buffer \in [Slots -> [received : BOOLEAN, seq_num : Nat, data : Data]]
      /\ \A i \in Slots : r.window_buffer[i] \in [received : BOOLEAN, seq_num : Nat, data : Data]
  BY <1>0, WindowTypes
<1>4. u = [r EXCEPT !.window_buffer = wb, !.window_min_seq = w + c]
  BY <1>1 DEF clearWindow
<1>5. \A i \in Slots : /\ i \in gone => wb[i] = [received |-> FALSE,
                                  seq_num |-> r.window_buffer[i].seq_num + WINDOW_SIZE,
                                  data |-> Empty]
                       /\ i \notin gone => wb[i] = r.window_buffer[i]
  <2> HIDE DEF gone
  <2> QED
    OBVIOUS
<1>6. wb \in [Slots -> [received : BOOLEAN, seq_num : Nat, data : Data]]
  <2>1. \A i \in Slots : r.window_buffer[i].seq_num + WINDOW_SIZE \in Nat
    BY <1>0, WindowTypes
  <2>2. ASSUME NEW i \in Slots
        PROVE  wb[i] \in [received : BOOLEAN, seq_num : Nat, data : Data]
    <3>1. [received |-> FALSE, seq_num |-> r.window_buffer[i].seq_num + WINDOW_SIZE,
           data |-> Empty] \in [received : BOOLEAN, seq_num : Nat, data : Data]
      BY <2>1 DEF Data
    <3>2. /\ i \in gone => wb[i] = [received |-> FALSE,
                                  seq_num |-> r.window_buffer[i].seq_num + WINDOW_SIZE,
                                  data |-> Empty]
          /\ i \notin gone => wb[i] = r.window_buffer[i]
      <4> HIDE DEF wb, gone
      <4> QED
        BY <1>5
    <3>3. r.window_buffer[i] \in [received : BOOLEAN, seq_num : Nat, data : Data]
      BY <1>3
    <3> HIDE DEF wb, gone
    <3> QED
      BY <3>1, <3>2, <3>3
  <2> HIDE DEF gone
  <2> QED
    BY <2>2
<1>a. gone = {(w + k - 1) % WINDOW_SIZE : k \in 1 .. c}
  BY <1>1
<1>7. \A k \in w .. w + c - 1 : k % WINDOW_SIZE \in gone
  <2> TAKE k \in w .. w + c - 1
  <2>1. k - w + 1 \in 1 .. c /\ w + (k - w + 1) - 1 = k
    BY <1>0, <1>2
  <2> HIDE DEF w
  <2> QED
    BY <2>1, <1>a
<1>8. \A i \in gone : \E k \in w .. w + c - 1 : i = k % WINDOW_SIZE
  <2> TAKE i \in gone
  <2>1. PICK k \in 1 .. c : i = (w + k - 1) % WINDOW_SIZE
    BY <1>a
  <2>2. w + k - 1 \in w .. w + c - 1
    BY <1>0, <1>2
  <2> QED
    BY <2>1, <2>2
<1>b. PICK m \in Nat : m = w + c
  BY <1>0, <1>2
<1>c. PICK g, v : g = gone /\ v = wb
  OBVIOUS
<1>9. g = gone /\ v = wb /\ m = w + c
  BY <1>b, <1>c
<1>10. u = [r EXCEPT !.window_buffer = v, !.window_min_seq = m]
  BY <1>4, <1>9
<1>11. v \in [Slots -> [received : BOOLEAN, seq_num : Nat, data : Data]]
  BY <1>6, <1>9
<1>12. u \in Receivers
  BY <1>0, <1>10, <1>11 DEF Receivers
<1>13. /\ u.state = r.state /\ u.conn = r.conn /\ u.retryCounter = r.retryCounter
       /\ u.window_buffer = v /\ u.window_min_seq = m /\ m = w + c
       /\ window_max_seq(u) = m + WINDOW_SIZE - 1
  BY <1>0, <1>9, <1>10 DEF Receivers, window_max_seq
<1>14. \A i \in Slots : /\ i \in g => /\ ~ v[i].received
                                      /\ v[i].seq_num = r.window_buffer[i].seq_num + WINDOW_SIZE
                        /\ i \notin g => v[i] = r.window_buffer[i]
  <2> TAKE i \in Slots
  <2>1. /\ i \in gone => wb[i] = [received |-> FALSE,
                                  seq_num |-> r.window_buffer[i].seq_num + WINDOW_SIZE,
                                  data |-> Empty]
        /\ i \notin gone => wb[i] = r.window_buffer[i]
    <3> HIDE DEF wb, gone
    <3> QED
      BY <1>5
  <2> HIDE DEF wb, gone
  <2> QED
    BY <2>1, <1>9
<1>15. /\ \A k \in w .. w + c - 1 : k % WINDOW_SIZE \in g
       /\ \A i \in g : \E k \in w .. w + c - 1 : i = k % WINDOW_SIZE
  BY <1>7, <1>8, <1>9
<1> HIDE DEF gone, wb
<1>16. ASSUME NEW i \in Slots
       PROVE  /\ v[i].seq_num \in m .. m + WINDOW_SIZE - 1
              /\ v[i].seq_num % WINDOW_SIZE = i
              /\ v[i].received => v[i].seq_num < b
  <2>1. PICK n \in Nat : n = r.window_buffer[i].seq_num
    BY <1>0, WindowTypes
  <2>2. /\ n \in w .. w + WINDOW_SIZE - 1 /\ n % WINDOW_SIZE = i
        /\ r.window_buffer[i].received => n < b
    BY <2>1, <1>0 DEF WindowOK
  <2>3. CASE i \in g
    <3>1. PICK k \in w .. w + c - 1 : i = k % WINDOW_SIZE
      BY <2>3, <1>15
    <3>2. k \in w .. window_max_seq(r)
      BY <1>0, <1>2
    <3>3. n = k
      BY <3>1, <3>2, <2>1, SlotHolds
    <3>4. (n + WINDOW_SIZE * 1) % WINDOW_SIZE = n % WINDOW_SIZE
      <4>1. n \in Int /\ 1 \in Int
        OBVIOUS
      <4> QED
        BY <4>1, ModShift, Zenon
    <3> QED
      BY <3>3, <3>4, <2>1, <2>2, <2>3, <1>0, <1>2, <1>13, <1>14
  <2>4. CASE i \notin g
    <3>1. n \notin w .. w + c - 1
      BY <2>2, <2>4, <1>15
    <3>2. n \in m .. m + WINDOW_SIZE - 1
      BY <3>1, <2>2, <1>0, <1>2, <1>13
    <3> QED
      BY <3>2, <2>1, <2>2, <2>4, <1>14
  <2> QED
    BY <2>3, <2>4
<1>17. WindowOK(u, b)
  BY <1>2, <1>12, <1>13, <1>16 DEF WindowOK
<1>18. ~ has(u, u.window_min_seq)
  <2>1. m % WINDOW_SIZE \in Slots
    BY SlotOf
  <2>2. CASE c < WINDOW_SIZE
    <3>1. v[m % WINDOW_SIZE].received => r.window_buffer[m % WINDOW_SIZE].received
      BY <2>1, <1>14
    <3> QED
      BY <3>1, <2>2, <1>2, <1>13 DEF has
  <2>3. CASE c = WINDOW_SIZE
    <3>1. m = w + WINDOW_SIZE * 1
      BY <2>3, <1>13
    <3>2. (w + WINDOW_SIZE * 1) % WINDOW_SIZE = w % WINDOW_SIZE
      <4>1. w \in Int /\ 1 \in Int
        BY <1>0
      <4> HIDE DEF w
      <4> QED
        BY <4>1, ModShift, Zenon
    <3>3. w \in w .. w + c - 1
      BY <2>3, <1>0
    <3> QED
      BY <3>1, <3>2, <3>3, <2>1, <1>13, <1>14, <1>15 DEF has
  <2> QED
    BY <2>2, <2>3, <1>2
<1>19. \A i \in Slots : u.window_buffer[i].received => u.window_buffer[i] = r.window_buffer[i]
  BY <1>13, <1>14
<1> QED
  BY <1>1, <1>12, <1>13, <1>17, <1>18, <1>19 DEF Moved

LEMMA NumbersOf ==
    ASSUME NEW r, NEW b \in Nat, WindowOK(r, b)
    PROVE  /\ \A n \in numbers(r, TRUE) :
                n \in r.window_min_seq .. window_max_seq(r) /\ has(r, n) /\ n < b
           /\ \A n \in numbers(r, FALSE) :
                n \in r.window_min_seq .. window_max_seq(r) /\ ~ has(r, n)
           /\ \A n \in r.window_min_seq .. window_max_seq(r) :
                /\ has(r, n) => n \in numbers(r, TRUE)
                /\ ~ has(r, n) => n \in numbers(r, FALSE)
<1>0. r \in Receivers
  BY DEF WindowOK
<1>1. ASSUME NEW n \in numbers(r, TRUE)
      PROVE  n \in r.window_min_seq .. window_max_seq(r) /\ has(r, n) /\ n < b
  <2>1. PICK i \in Slots : r.window_buffer[i].received = TRUE /\ n = r.window_buffer[i].seq_num
    BY DEF numbers
  <2> QED
    BY <2>1 DEF WindowOK, has
<1>2. ASSUME NEW n \in numbers(r, FALSE)
      PROVE  n \in r.window_min_seq .. window_max_seq(r) /\ ~ has(r, n)
  <2>1. PICK i \in Slots : r.window_buffer[i].received = FALSE /\ n = r.window_buffer[i].seq_num
    BY DEF numbers
  <2> QED
    BY <2>1 DEF WindowOK, has
<1>3. ASSUME NEW n \in r.window_min_seq .. window_max_seq(r)
      PROVE  /\ has(r, n) => n \in numbers(r, TRUE)
             /\ ~ has(r, n) => n \in numbers(r, FALSE)
  <2>1. PICK i \in Slots : i = n % WINDOW_SIZE /\ r.window_buffer[i].seq_num = n
    BY SlotHolds
  <2>2. r.window_buffer[i].received \in BOOLEAN
    BY <1>0, WindowTypes
  <2> QED
    BY <2>1, <2>2 DEF numbers, has
<1> QED
  BY <1>1, <1>2, <1>3

(* The first number that an acknowledgement says is missing.               *)
firstMissing(m) ==
    IF m.naks = {} THEN m.ack + 1
    ELSE CHOOSE n \in m.naks : \A k \in m.naks : n <= k

(* An acknowledgement says no more than the packets the receiver has.      *)
LEMMA AckOf ==
    ASSUME NEW r, NEW b \in Nat, WindowOK(r, b), NEW m, m = buildAckNak(r)
    PROVE  /\ m \in [type : {"ACK"}, ack : -1 .. b - 1, naks : SUBSET (0 .. b - 1)]
           /\ firstMissing(m) \in Nat
           /\ firstMissing(m) <= r.window_min_seq + consecutive(r)
<1>0. /\ r \in Receivers /\ r.window_min_seq \in Nat /\ r.window_min_seq <= b
      /\ window_max_seq(r) = r.window_min_seq + WINDOW_SIZE - 1
  BY WindowTypes DEF WindowOK
<1>1. PICK w \in Nat : w = r.window_min_seq
  BY <1>0
<1>2. PICK c : c = consecutive(r)
  OBVIOUS
<1>3. /\ c \in 0 .. WINDOW_SIZE /\ w + c <= b
      /\ \A k \in w .. w + c - 1 : has(r, k)
      /\ c < WINDOW_SIZE => ~ has(r, w + c)
  BY <1>1, <1>2, Consecutive
<1>4. PICK got, not : got = numbers(r, TRUE) /\ not = numbers(r, FALSE)
  OBVIOUS
<1>5. /\ \A n \in got : n \in w .. w + WINDOW_SIZE - 1 /\ has(r, n) /\ n < b
      /\ \A n \in not : n \in w .. w + WINDOW_SIZE - 1 /\ ~ has(r, n)
      /\ \A n \in w .. w + WINDOW_SIZE - 1 :
            (has(r, n) => n \in got) /\ (~ has(r, n) => n \in not)
  BY <1>0, <1>1, <1>4, NumbersOf
<1>6. CASE got = {}
  <2>1. m = [type |-> "ACK", ack |-> w - 1, naks |-> {}]
    BY <1>1, <1>4, <1>6 DEF buildAckNak
  <2> QED
    BY <2>1, <1>0, <1>1, <1>2, <1>3 DEF firstMissing
<1>7. CASE got # {}
  <2>1. \E n \in got : \A k \in got : k <= n
    <3>1. got \in SUBSET Nat
      BY <1>5
    <3>2. \A n \in got : n <= b
      BY <1>5
    <3> QED
      BY <3>1, <3>2, <1>7, Greatest
  <2>2. PICK a : a = CHOOSE n \in got : \A k \in got : k <= n
    OBVIOUS
  <2>3. a \in got /\ \A k \in got : k <= a
    BY <2>1, <2>2
  <2>4. PICK ns : ns = {n \in not : n < a}
    OBVIOUS
  <2>5. m = [type |-> "ACK", ack |-> a, naks |-> ns]
    BY <1>4, <1>7, <2>2, <2>4 DEF buildAckNak
  <2>6. a \in w .. w + WINDOW_SIZE - 1 /\ has(r, a) /\ a < b
    BY <2>3, <1>5
  <2>7. \A n \in ns : n \in w .. a - 1 /\ ~ has(r, n) /\ n \in 0 .. b - 1
    BY <2>4, <2>6, <1>5
  <2>8. m \in [type : {"ACK"}, ack : -1 .. b - 1, naks : SUBSET (0 .. b - 1)]
    BY <2>5, <2>6, <2>7
  <2>9. CASE ns = {}
    <3>1. firstMissing(m) = a + 1
      BY <2>5, <2>9 DEF firstMissing
    <3>2. ~ (w + c < a)
      <4>1. SUFFICES ASSUME w + c < a
                     PROVE  FALSE
        OBVIOUS
      <4>2. w + c \in w .. w + WINDOW_SIZE - 1 /\ ~ has(r, w + c)
        BY <4>1, <1>3, <2>6
      <4>3. w + c \in not
        BY <4>2, <1>5
      <4> QED
        BY <4>1, <4>3, <2>4, <2>9
    <3>3. w + c # a
      BY <1>3, <2>6
    <3> QED
      BY <3>1, <3>2, <3>3, <2>6, <2>8, <1>1, <1>2, <1>3
  <2>10. CASE ns # {}
    <3>1. \E n \in ns : \A k \in ns : n <= k
      <4>1. ns \in SUBSET Nat
        BY <2>7
      <4> QED
        BY <4>1, <2>10, Least
    <3>2. PICK f : f = CHOOSE n \in ns : \A k \in ns : n <= k
      OBVIOUS
    <3>3. f \in ns /\ \A k \in ns : f <= k
      BY <3>1, <3>2
    <3>4. firstMissing(m) = f
      BY <2>5, <2>10, <3>2 DEF firstMissing
    <3>5. ~ (w + c < f)
      <4>1. SUFFICES ASSUME w + c < f
                     PROVE  FALSE
        OBVIOUS
      <4>2. f \in w .. a - 1
        BY <3>3, <2>7
      <4>3. w + c \in w .. w + WINDOW_SIZE - 1 /\ ~ has(r, w + c) /\ w + c < a
        BY <4>1, <4>2, <1>3, <2>6
      <4>4. w + c \in ns
        BY <4>3, <1>5, <2>4
      <4> QED
        BY <4>1, <4>2, <4>4, <3>3, <2>6, <1>3
    <3>6. f \in Nat
      BY <3>3, <2>7
    <3> QED
      BY <3>4, <3>5, <3>6, <2>8, <1>1, <1>2, <1>3
  <2> QED
    BY <2>9, <2>10
<1> QED
  BY <1>6, <1>7

LEMMA IdleOK ==
    /\ idle \in Receivers
    /\ WindowOK(idle, 0)
    /\ \A i \in Slots : ~ idle.window_buffer[i].received
<1>1. freshWindow \in [Slots -> [received : BOOLEAN, seq_num : Nat, data : Data]]
  BY DEF freshWindow, Slots, Data
<1>2. idle \in Receivers
  BY <1>1 DEF idle, Receivers
<1>3. /\ idle.window_min_seq = 0 /\ idle.window_buffer = freshWindow
      /\ window_max_seq(idle) = WINDOW_SIZE - 1
  BY DEF idle, window_max_seq
<1>4. \A i \in Slots : freshWindow[i].seq_num = i /\ ~ freshWindow[i].received
  BY DEF freshWindow
<1>5. \A i \in Slots : i \in 0 .. WINDOW_SIZE - 1 /\ i % WINDOW_SIZE = i
  BY DEF Slots
<1> QED
  BY <1>2, <1>3, <1>4, <1>5 DEF WindowOK

LEMMA Stored ==
    ASSUME NEW b \in Nat, WindowOK(rcv, b),
           NEW k \in rcv.window_min_seq .. window_max_seq(rcv), k < b, NEW d \in Data,
           NEW r, r = stored(k, d)
    PROVE  /\ WindowOK(r, b)
           /\ r.state = "RECV_DATA" /\ r.conn = rcv.conn
           /\ r.window_min_seq = rcv.window_min_seq
           /\ \A i \in Slots :
                \/ r.window_buffer[i] = rcv.window_buffer[i]
                \/ /\ r.window_buffer[i].seq_num = k /\ r.window_buffer[i].data = d
                   /\ i = k % WINDOW_SIZE
<1>0. rcv \in Receivers
  BY DEF WindowOK
<1>1. PICK s \in Slots : s = k % WINDOW_SIZE /\ rcv.window_buffer[s].seq_num = k
  BY SlotHolds
<1>2. PICK wb : wb = [rcv.window_buffer EXCEPT ![s] =
                        [received |-> TRUE, seq_num |-> k, data |-> d]]
  OBVIOUS
<1>3. rcv.window_buffer \in [Slots -> [received : BOOLEAN, seq_num : Nat, data : Data]]
  BY <1>0, WindowTypes
<1>4. PICK n \in 0 .. RECV_NUM_RETRY_ACK + 1 :
         n = IF rcv.state = "RECV_DATA" THEN rcv.retryCounter ELSE 0
  BY <1>0 DEF Receivers
<1>6. r = [rcv EXCEPT !.state = "RECV_DATA", !.retryCounter = n, !.window_buffer = wb]
  <2>1. r = [rcv EXCEPT !.state = "RECV_DATA", !.retryCounter = n,
                        !.window_buffer[s] = [received |-> TRUE,
                                              seq_num |-> rcv.window_buffer[s].seq_num,
                                              data |-> d]]
    BY <1>1, <1>4 DEF stored
  <2> QED
    BY <2>1, <1>0, <1>1, <1>2 DEF Receivers
<1>7. k \in Nat
  BY <1>0, WindowTypes
<1>8. wb \in [Slots -> [received : BOOLEAN, seq_num : Nat, data : Data]]
  BY <1>2, <1>3, <1>7
<1>9. r \in Receivers
  BY <1>0, <1>6, <1>8 DEF Receivers
<1>10. /\ r.window_buffer = wb /\ r.window_min_seq = rcv.window_min_seq
       /\ r.state = "RECV_DATA" /\ r.conn = rcv.conn
       /\ window_max_seq(r) = window_max_seq(rcv)
  BY <1>0, <1>6 DEF Receivers, window_max_seq
<1>11. \A i \in Slots :
         /\ i # s => wb[i] = rcv.window_buffer[i]
         /\ i = s => wb[i] = [received |-> TRUE, seq_num |-> k, data |-> d]
  BY <1>2, <1>3
<1>12. WindowOK(r, b)
  BY <1>1, <1>9, <1>10, <1>11 DEF WindowOK
<1> QED
  BY <1>1, <1>10, <1>11, <1>12

-----------------------------------------------------------------------------
(* The sender.                                                             *)

PacketsOf(h) == {SYN, FIN} \cup [type : {"DATA"}, seq_num : 0 .. FileLen[h] - 1, data : Data]

AnswersTo(h) ==
    {GO, FINACK} \cup
    [type : {"ACK"}, ack : -1 .. FileLen[h] - 1, naks : SUBSET (0 .. FileLen[h] - 1)]

(* What a sender has read is a part of the file, and what it waits for is  *)
(* at most a window.                                                       *)
Reads(h, s) ==
    /\ s \in Senders
    /\ s.max_value <= FileLen[h] /\ s.start_seq <= s.max_value
    /\ s.max_value - s.start_seq <= WINDOW_SIZE
    /\ ~ s.begun => s.start_seq = 0 /\ s.max_value = 0

(* Before the loop, which reads at once when nothing was read.             *)
BeforeLoop(h, s) ==
    /\ Reads(h, s)
    /\ s.phase = "DATA"
    /\ \/ s.new_start <= FileLen[h] \/ s.max_value = FileLen[h]
       \/ ~ s.begun
    /\ ~ s.begun => (s.new_start = WINDOW_SIZE /\ ~ s.sent_fin) \/ FileLen[h] = 0

(* A sender that is not in its loop is as it was begun.                    *)
AtRest(s) == s = [sender EXCEPT !.phase = s.phase, !.misled = s.misled]

SenderOK(h, s) ==
    /\ Reads(h, s)
    /\ s.phase = "DATA" =>
         /\ s.new_start <= FileLen[h] \/ s.max_value = FileLen[h]
         /\ ~ s.begun => FileLen[h] = 0
    /\ s.phase # "DATA" => AtRest(s)

LEMMA SenderTypes ==
    ASSUME NEW s \in Senders
    PROVE  /\ s.start_seq \in Nat /\ s.new_start \in Nat /\ s.max_value \in Nat
           /\ s.hasnacks \in BOOLEAN /\ s.sent_fin \in BOOLEAN /\ s.begun \in BOOLEAN
           /\ s.recvd \in [Slots -> BOOLEAN] /\ s.empty \subseteq Slots
           /\ s.phase \in {"SYN", "DATA", "EXIT", "GONE"} /\ s.misled \in BOOLEAN
BY DEF Senders

LEMMA LengthOfFile ==
    ASSUME NEW h \in Hosts
    PROVE  FileLen[h] \in Nat
OBVIOUS

LEMMA FreshSender ==
    /\ sender \in Senders
    /\ sender.phase = "SYN" /\ sender.start_seq = 0 /\ sender.new_start = WINDOW_SIZE
    /\ sender.max_value = 0 /\ ~ sender.begun /\ ~ sender.sent_fin /\ ~ sender.hasnacks
    /\ sender.empty = {} /\ ~ sender.misled
    /\ \A p \in {"SYN", "EXIT", "GONE"}, b \in BOOLEAN, h \in Hosts :
         SenderOK(h, [sender EXCEPT !.phase = p, !.misled = b])
    /\ \A h \in Hosts : SenderOK(h, sender) /\ SenderOK(h, [sender EXCEPT !.phase = "GONE"])
<1>1. [i \in Slots |-> FALSE] \in [Slots -> BOOLEAN]
  OBVIOUS
<1>2. PICK rs \in [Slots -> BOOLEAN] : rs = [i \in Slots |-> FALSE]
  BY <1>1
<1>3. sender = [phase |-> "SYN", start_seq |-> 0, new_start |-> WINDOW_SIZE, hasnacks |-> FALSE,
                sent_fin |-> FALSE, begun |-> FALSE, max_value |-> 0, recvd |-> rs, empty |-> {},
                misled |-> FALSE]
  BY <1>2 DEF sender
<1>4. sender \in Senders
  BY <1>3 DEF Senders
<1>5. ASSUME NEW p \in {"SYN", "EXIT", "GONE"}, NEW b \in BOOLEAN, NEW h \in Hosts
      PROVE  SenderOK(h, [sender EXCEPT !.phase = p, !.misled = b])
  <2>1. PICK s : s = [sender EXCEPT !.phase = p, !.misled = b]
    OBVIOUS
  <2>2. s = [phase |-> p, start_seq |-> 0, new_start |-> WINDOW_SIZE, hasnacks |-> FALSE,
                sent_fin |-> FALSE, begun |-> FALSE, max_value |-> 0, recvd |-> rs, empty |-> {},
                misled |-> b]
    BY <2>1, <1>3
  <2>3. s \in Senders /\ s.phase = p /\ s.misled = b /\ s.max_value = 0 /\ s.start_seq = 0
    BY <2>2 DEF Senders
  <2>4. SenderOK(h, s)
    BY <2>1, <2>3, LengthOfFile DEF SenderOK, Reads, AtRest
  <2> QED
    BY <2>1, <2>4
<1>6. ASSUME NEW h \in Hosts
      PROVE  SenderOK(h, sender) /\ SenderOK(h, [sender EXCEPT !.phase = "GONE"])
  <2>1. sender = [sender EXCEPT !.phase = "SYN", !.misled = FALSE]
    BY <1>3, <1>4 DEF Senders
  <2>2. [sender EXCEPT !.phase = "GONE"] = [sender EXCEPT !.phase = "GONE", !.misled = FALSE]
    BY <1>3, <1>4 DEF Senders
  <2>3. FALSE \in BOOLEAN /\ "SYN" \in {"SYN", "EXIT", "GONE"} /\ "GONE" \in {"SYN", "EXIT", "GONE"}
    OBVIOUS
  <2>4. /\ SenderOK(h, [sender EXCEPT !.phase = "SYN", !.misled = FALSE])
        /\ SenderOK(h, [sender EXCEPT !.phase = "GONE", !.misled = FALSE])
    BY <1>5, <2>3, Zenon
  <2> QED
    BY <2>1, <2>2, <2>4, Zenon
<1> QED
  BY <1>3, <1>4, <1>5, <1>6

(* What the loop reads.                                                    *)
LEMMA ReadIn ==
    ASSUME NEW h \in Hosts, NEW s, BeforeLoop(h, s), mayRead(s),
           NEW j, j = toRead(h, s), NEW u, u = readIn(h, s)
    PROVE  /\ j \in Nat /\ j <= s.new_start - s.start_seq
           /\ s.max_value + j <= FileLen[h]
           /\ j < s.new_start - s.start_seq => s.max_value + j = FileLen[h]
           /\ u \in Senders
           /\ u.phase = s.phase /\ u.new_start = s.new_start /\ u.hasnacks = s.hasnacks
           /\ u.misled = s.misled
           /\ u.max_value = s.max_value + j
           /\ u.start_seq = IF s.begun /\ j > 0 THEN s.new_start ELSE s.start_seq
           /\ u.begun = (s.begun \/ j > 0)
           /\ u.sent_fin = (j = 0 /\ ~ s.hasnacks)
           /\ \A i \in u.empty :
                \/ i \in s.empty
                \/ j < s.new_start - s.start_seq /\ i = FileLen[h] % WINDOW_SIZE
<1>1. /\ s \in Senders /\ s.max_value <= FileLen[h] /\ s.start_seq <= s.max_value
      /\ s.start_seq < s.new_start /\ ~ s.sent_fin
  BY DEF BeforeLoop, Reads, mayRead
<1>2. PICK st, ns, mx, L \in Nat :
        st = s.start_seq /\ ns = s.new_start /\ mx = s.max_value /\ L = FileLen[h]
  BY <1>1, SenderTypes, LengthOfFile
<1>3. j = IF mx + ns - st <= L THEN ns - st ELSE L - mx
  BY <1>2 DEF toRead
<1>4. j \in Nat /\ j <= ns - st /\ mx + j <= L /\ (j < ns - st => mx + j = L)
  BY <1>1, <1>2, <1>3
<1>5. PICK ended \in BOOLEAN : ended = (j < ns - st)
  <2>1. (j < ns - st) \in BOOLEAN
    OBVIOUS
  <2> QED
    BY <2>1, Zenon
<1>6. PICK e \in Int : e = IF ended THEN mx + j ELSE mx + j - 1
  BY <1>4
<1>7. PICK touched : touched = {k % WINDOW_SIZE : k \in mx .. e}
  OBVIOUS
<1>8. PICK rs \in [Slots -> BOOLEAN] : rs = [i \in Slots |-> s.recvd[i] \/ i \in touched]
  <2>1. \A i \in Slots : (s.recvd[i] \/ i \in touched) \in BOOLEAN
    OBVIOUS
  <2> QED
    BY <2>1
<1>9. PICK em \in SUBSET Slots :
         em = IF ended THEN (s.empty \ touched) \cup {e % WINDOW_SIZE} ELSE s.empty \ touched
  BY <1>1, <1>6, SenderTypes, SlotOf
<1>10. PICK st2 \in Nat : st2 = IF s.begun /\ j > 0 THEN ns ELSE st
  BY <1>2
<1>11. PICK bg, sf \in BOOLEAN : bg = (s.begun \/ j > 0) /\ sf = (j = 0 /\ ~ s.hasnacks)
  OBVIOUS
<1>12. u = [s EXCEPT !.recvd = rs, !.empty = em, !.max_value = mx + j, !.start_seq = st2,
                     !.begun = bg, !.sent_fin = sf]
  BY <1>2, <1>5, <1>6, <1>7, <1>8, <1>9, <1>10, <1>11, <1>1 DEF readIn, Senders
<1>13. PICK m2 \in Nat : m2 = mx + j
  BY <1>4
<1>14. u = [s EXCEPT !.recvd = rs, !.empty = em, !.max_value = m2, !.start_seq = st2,
                     !.begun = bg, !.sent_fin = sf]
  BY <1>12, <1>13
<1>15. u \in Senders
  BY <1>1, <1>14 DEF Senders
<1>16. /\ u.phase = s.phase /\ u.new_start = s.new_start /\ u.hasnacks = s.hasnacks
       /\ u.misled = s.misled
       /\ u.max_value = m2 /\ u.start_seq = st2 /\ u.begun = bg /\ u.sent_fin = sf
       /\ u.empty = em
  BY <1>1, <1>14 DEF Senders
<1>17. \A i \in em : i \in s.empty \/ (ended /\ i = L % WINDOW_SIZE)
  BY <1>4, <1>5, <1>6, <1>9
<1> QED
  BY <1>2, <1>4, <1>5, <1>10, <1>11, <1>13, <1>15, <1>16, <1>17

(* The loop leaves a sender whose window is a part of the file.            *)
LEMMA LoopKeepsSender ==
    ASSUME NEW h \in Hosts, NEW s, BeforeLoop(h, s), NEW u, u = looped(h, s)
    PROVE  SenderOK(h, u) /\ u.phase = "DATA"
<1>1. s \in Senders /\ s.phase = "DATA"
  BY DEF BeforeLoop, Reads
<1>2. PICK L \in Nat : L = FileLen[h]
  BY LengthOfFile
<1>3. CASE ~ mayRead(s)
  <2>1. u = s
    BY <1>3 DEF looped
  <2>2. ~ s.begun => FileLen[h] = 0
    BY <1>1, <1>3, SenderTypes DEF BeforeLoop, Reads, mayRead
  <2> QED
    BY <1>1, <2>1, <2>2 DEF BeforeLoop, SenderOK, Reads
<1>4. CASE mayRead(s)
  <2>1. u = readIn(h, s)
    BY <1>4 DEF looped
  <2>2. PICK j : j = toRead(h, s)
    OBVIOUS
  <2>3. /\ j \in Nat /\ j <= s.new_start - s.start_seq
        /\ s.max_value + j <= FileLen[h]
        /\ j < s.new_start - s.start_seq => s.max_value + j = FileLen[h]
        /\ u \in Senders
        /\ u.phase = s.phase /\ u.new_start = s.new_start
        /\ u.max_value = s.max_value + j
        /\ u.start_seq = IF s.begun /\ j > 0 THEN s.new_start ELSE s.start_seq
        /\ u.begun = (s.begun \/ j > 0)
    BY <1>4, <2>1, <2>2, ReadIn
  <2> QED
    BY <1>1, <1>2, <1>4, <2>3, SenderTypes DEF BeforeLoop, SenderOK, Reads, mayRead
<1> QED
  BY <1>3, <1>4

(* A packet that is sent again; slot 0 sends the FIN when there is one.     *)
Again(s, k, m) ==
    \/ m = DATA(k, k)
    \/ /\ m = DATA(k, Empty) /\ k % WINDOW_SIZE \in s.empty
       /\ s.sent_fin => k % WINDOW_SIZE # 0

(* A packet that the loop sends: a FIN, when it is the last, a packet that *)
(* is sent again, or one that was just read.                               *)
Sends(h, s, u, m) ==
    \/ m = FIN /\ u.sent_fin
    \/ \E k \in outstanding(s) : Again(s, k, m)
    \/ \E k \in s.max_value .. u.max_value - 1, d \in Data :
         /\ m = DATA(k, d)
         /\ u.max_value <= s.max_value + WINDOW_SIZE =>
              d = k \/ (d = Empty /\ k % WINDOW_SIZE \in u.empty)

LEMMA InSlot ==
    ASSUME NEW s \in Senders, NEW k \in Nat, k < s.max_value
    PROVE  /\ inSlot(s, k % WINDOW_SIZE) \in Nat
           /\ s.max_value <= k + WINDOW_SIZE => inSlot(s, k % WINDOW_SIZE) = k
<1>1. PICK c \in Int : c = s.max_value - 1
  BY SenderTypes
<1>2. s.max_value \in Nat
  BY SenderTypes
<1>3. /\ c - ((c - (k % WINDOW_SIZE)) % WINDOW_SIZE) \in k .. c
      /\ c < k + WINDOW_SIZE => c - ((c - (k % WINDOW_SIZE)) % WINDOW_SIZE) = k
  <2>1. k \in Int /\ k <= c
    BY <1>1, <1>2
  <2> QED
    BY <2>1, LastInSlot
<1> QED
  BY <1>1, <1>2, <1>3 DEF inSlot

LEMMA Resends ==
    ASSUME NEW h \in Hosts, NEW s, Reads(h, s), NEW q, q = resends(s)
    PROVE  /\ Len(q) \in Nat /\ q = [i \in 1 .. Len(q) |-> q[i]]
           /\ \A i \in 1 .. Len(q) :
                \/ q[i] = FIN /\ s.sent_fin
                \/ \E k \in outstanding(s) : Again(s, k, q[i])
<1>0. /\ s \in Senders /\ s.start_seq \in Nat /\ s.max_value \in Nat
      /\ s.max_value - s.start_seq <= WINDOW_SIZE
  BY SenderTypes DEF Reads
<1>1. CASE ~ s.hasnacks
  <2>1. q = <<>>
    BY <1>1 DEF resends
  <2> QED
    BY <2>1
<1>2. CASE s.hasnacks
  <2>1. PICK M : M = missing(s)
    OBVIOUS
  <2>2. \A k \in M : k \in s.start_seq .. s.max_value - 1
    BY <2>1 DEF missing, outstanding
  <2>3. IsFiniteSet(M) /\ Cardinality(M) \in Nat
    <3>1. IsFiniteSet(s.start_seq .. s.max_value - 1)
      <4>1. \A a, c \in Int : IsFiniteSet(a .. c)
        BY FS_Interval
      <4>2. s.start_seq \in Int /\ s.max_value - 1 \in Int
        BY <1>0
      <4> QED
        BY <4>1, <4>2, Zenon
    <3>2. M \subseteq s.start_seq .. s.max_value - 1
      BY <2>2
    <3> QED
      BY <3>1, <3>2, FS_Subset, FS_CardinalityType
  <2>4. q = [i \in 1 .. Cardinality(M) |-> resent(s, nth(M, i) % WINDOW_SIZE)]
    BY <1>2, <2>1 DEF resends
  <2>5. Len(q) = Cardinality(M)
    BY <2>3, <2>4
  <2>6. ASSUME NEW i \in 1 .. Len(q)
        PROVE  \/ q[i] = FIN /\ s.sent_fin
               \/ \E k \in outstanding(s) : Again(s, k, q[i])
    <3>1. nth(M, i) \in M
      <4>1. M \in SUBSET Nat
        BY <2>2, <1>0
      <4>2. \A x \in M : x <= s.max_value
        BY <2>2, <1>0
      <4>3. i \in 1 .. Cardinality(M)
        BY <2>5
      <4> QED
        BY <4>1, <4>2, <4>3, <1>0, NthExists, Zenon
    <3>2. PICK k \in outstanding(s) : k = nth(M, i)
      BY <3>1, <2>2 DEF outstanding
    <3>3. k \in Nat /\ k < s.max_value /\ s.max_value <= k + WINDOW_SIZE
      BY <1>0 DEF outstanding
    <3>4. inSlot(s, k % WINDOW_SIZE) = k
      BY <3>3, <1>0, InSlot
    <3>5. q[i] = resent(s, k % WINDOW_SIZE)
      BY <2>4, <2>5, <3>2
    <3>6. \/ q[i] = FIN /\ s.sent_fin
          \/ /\ q[i] = DATA(k, IF k % WINDOW_SIZE \in s.empty THEN Empty ELSE k)
             /\ s.sent_fin => k % WINDOW_SIZE # 0
      BY <3>4, <3>5 DEF resent, dataOf
    <3> QED
      BY <3>6 DEF Again
  <2> QED
    BY <2>3, <2>4, <2>5, <2>6
<1> QED
  BY <1>1, <1>2

LEMMA NewPackets ==
    ASSUME NEW h \in Hosts, NEW s, BeforeLoop(h, s), NEW u, u = looped(h, s),
           NEW q, q = newPackets(h, s)
    PROVE  /\ Len(q) \in Nat /\ q = [i \in 1 .. Len(q) |-> q[i]]
           /\ \A i \in 1 .. Len(q) : Sends(h, s, u, q[i])
<1>0. /\ s \in Senders /\ s.start_seq \in Nat /\ s.max_value \in Nat
  BY SenderTypes DEF BeforeLoop, Reads
<1>1. CASE ~ mayRead(s)
  <2>1. q = <<>>
    BY <1>1 DEF newPackets
  <2> QED
    BY <2>1
<1>2. CASE mayRead(s) /\ u.sent_fin
  <2>1. u = readIn(h, s)
    BY <1>2 DEF looped
  <2>2. q = <<FIN>>
    BY <1>2, <2>1 DEF newPackets
  <2> QED
    BY <1>2, <2>2 DEF Sends
<1>3. CASE mayRead(s) /\ ~ u.sent_fin
  <2>1. u = readIn(h, s)
    BY <1>3 DEF looped
  <2>2. PICK j : j = toRead(h, s)
    OBVIOUS
  <2>3. j \in Nat /\ u \in Senders /\ u.max_value = s.max_value + j
    BY <1>3, <2>1, <2>2, ReadIn
  <2>4. q = [i \in 1 .. j |->
               DATA(s.max_value + i - 1, dataOf(u, (s.max_value + i - 1) % WINDOW_SIZE))]
    BY <1>3, <2>1, <2>2 DEF newPackets
  <2>5. Len(q) = j
    BY <2>3, <2>4
  <2>6. ASSUME NEW i \in 1 .. Len(q)
        PROVE  Sends(h, s, u, q[i])
    <3>1. PICK k \in s.max_value .. u.max_value - 1 : k = s.max_value + i - 1
      BY <1>0, <2>3, <2>5
    <3>2. PICK d : d = dataOf(u, k % WINDOW_SIZE)
      OBVIOUS
    <3>3. q[i] = DATA(k, d)
      BY <2>4, <2>5, <3>1, <3>2
    <3>4. k \in Nat /\ k < u.max_value
      BY <1>0, <2>3
    <3>5. PICK n \in Nat : /\ n = inSlot(u, k % WINDOW_SIZE)
                           /\ u.max_value <= k + WINDOW_SIZE => n = k
      BY <2>3, <3>4, InSlot
    <3>6. d = IF k % WINDOW_SIZE \in u.empty THEN Empty ELSE n
      BY <3>2, <3>5 DEF dataOf
    <3>7. d \in Data
      BY <3>6 DEF Data
    <3>8. u.max_value <= s.max_value + WINDOW_SIZE =>
              d = k \/ (d = Empty /\ k % WINDOW_SIZE \in u.empty)
      BY <1>0, <2>3, <3>5, <3>6
    <3> QED
      BY <3>3, <3>7, <3>8 DEF Sends
  <2> QED
    BY <2>3, <2>4, <2>5, <2>6
<1> QED
  BY <1>1, <1>2, <1>3

LEMMA LoopSends ==
    ASSUME NEW h \in Hosts, NEW s, BeforeLoop(h, s), NEW u, u = looped(h, s),
           NEW ms, ms = loopSends(h, s)
    PROVE  /\ ms \in Seq(PacketsOf(h))
           /\ \A i \in 1 .. Len(ms) : Sends(h, s, u, ms[i])
<1>0. /\ Reads(h, s) /\ s \in Senders /\ s.start_seq \in Nat /\ s.max_value \in Nat
      /\ s.max_value <= FileLen[h]
  BY SenderTypes DEF BeforeLoop, Reads
<1>a. u \in Senders /\ u.max_value \in Nat /\ u.max_value <= FileLen[h]
  BY LoopKeepsSender, SenderTypes DEF SenderOK, Reads
<1>b. u.max_value >= s.max_value /\ (s.sent_fin => u.sent_fin)
  <2>1. CASE ~ mayRead(s)
    BY <2>1, <1>0 DEF looped
  <2>2. CASE mayRead(s)
    <3>1. ~ s.sent_fin /\ u = readIn(h, s)
      BY <2>2 DEF mayRead, looped
    <3>2. PICK j : j = toRead(h, s)
      OBVIOUS
    <3>3. j \in Nat /\ u.max_value = s.max_value + j
      BY <2>2, <3>1, <3>2, ReadIn
    <3> QED
      BY <3>1, <3>3, <1>0
  <2> QED
    BY <2>1, <2>2
<1>1. \A m : Sends(h, s, u, m) => m \in PacketsOf(h)
  <2> SUFFICES ASSUME NEW m, Sends(h, s, u, m)
               PROVE  m \in PacketsOf(h)
    OBVIOUS
  <2>1. PICK L \in Nat : L = FileLen[h]
    BY LengthOfFile
  <2>2. \A k \in 0 .. L - 1, d \in Data : DATA(k, d) \in PacketsOf(h)
    BY <2>1 DEF DATA, PacketsOf
  <2>3. FIN \in PacketsOf(h)
    BY DEF PacketsOf
  <2>4. \A k \in outstanding(s) : k \in 0 .. L - 1 /\ k \in Data /\ Empty \in Data
    BY <1>0, <2>1 DEF outstanding, Data
  <2>5. \A k \in s.max_value .. u.max_value - 1 : k \in 0 .. L - 1
    BY <1>0, <1>a, <2>1
  <2> QED
    BY <2>2, <2>3, <2>4, <2>5 DEF Sends, Again
<1>2. PICK q1, q2 : q1 = resends(s) /\ q2 = newPackets(h, s)
  OBVIOUS
<1>3. /\ Len(q1) \in Nat /\ q1 = [i \in 1 .. Len(q1) |-> q1[i]]
      /\ \A i \in 1 .. Len(q1) : Sends(h, s, u, q1[i])
  BY <1>0, <1>2, <1>b, Resends DEF Sends
<1>4. /\ Len(q2) \in Nat /\ q2 = [i \in 1 .. Len(q2) |-> q2[i]]
      /\ \A i \in 1 .. Len(q2) : Sends(h, s, u, q2[i])
  BY <1>2, NewPackets
<1>5. q1 \in Seq(PacketsOf(h)) /\ q2 \in Seq(PacketsOf(h))
  BY <1>1, <1>3, <1>4
<1>6. ms = q1 \o q2
  BY <1>2 DEF loopSends
<1>7. /\ ms \in Seq(PacketsOf(h)) /\ Len(ms) = Len(q1) + Len(q2)
      /\ \A i \in 1 .. Len(q1) + Len(q2) : ms[i] = IF i <= Len(q1) THEN q1[i] ELSE q2[i - Len(q1)]
  BY <1>5, <1>6, ConcatProperties
<1>8. ASSUME NEW i \in 1 .. Len(ms)
      PROVE  Sends(h, s, u, ms[i])
  <2>1. CASE i <= Len(q1)
    BY <2>1, <1>3, <1>4, <1>7
  <2>2. CASE ~ (i <= Len(q1))
    <3>1. i - Len(q1) \in 1 .. Len(q2) /\ ms[i] = q2[i - Len(q1)]
      BY <2>2, <1>3, <1>4, <1>7
    <3> QED
      BY <3>1, <1>4
  <2> QED
    BY <2>1, <2>2
<1> QED
  BY <1>7, <1>8

-----------------------------------------------------------------------------
(* The types.                                                              *)

Fresh(r) == r.window_min_seq = 0 /\ \A i \in Slots : ~ r.window_buffer[i].received

Functions ==
    /\ files = [h \in Hosts |-> files[h]] /\ snd = [h \in Hosts |-> snd[h]]
    /\ toRcv = [h \in Hosts |-> toRcv[h]] /\ toSnd = [h \in Hosts |-> toSnd[h]]

HostTypes(h) ==
    /\ files[h] \in Seq(Data) /\ Len(files[h]) <= FileLen[h]
    /\ toRcv[h] \in Seq(PacketsOf(h))
    /\ toSnd[h] \in Seq(AnswersTo(h))
    /\ SenderOK(h, snd[h])

Limit(r) == IF r.conn = NoHost THEN 0 ELSE FileLen[r.conn]

(* The receiver's window is where the file of the connection ends.         *)
ConnectionTypes ==
    /\ WindowOK(rcv, Limit(rcv))
    /\ rcv.state = "IDLE" <=> rcv.conn = NoHost
    /\ rcv.state \in {"IDLE", "WAITING_DATA"} => Fresh(rcv)
    /\ rcv.conn # NoHost => Len(files[rcv.conn]) = rcv.window_min_seq

Counters ==
    losses \in 0 .. MaxLoss /\ early \in 0 .. MaxEarly /\ kills \in 0 .. MaxKill

TypeInv ==
    Functions /\ (\A h \in Hosts : HostTypes(h)) /\ ConnectionTypes /\ Counters

LEMMA TypeInvImplies == TypeInv => TypeOK
<1> SUFFICES ASSUME TypeInv
             PROVE  TypeOK
  OBVIOUS
<1>1. \A h \in Hosts : /\ files[h] \in Seq(Data) /\ snd[h] \in Senders
                       /\ toRcv[h] \in Seq(PacketsOf(h)) /\ toSnd[h] \in Seq(AnswersTo(h))
  BY DEF TypeInv, HostTypes, SenderOK, Reads
<1>2. \A h \in Hosts : PacketsOf(h) \subseteq ToReceiver /\ AnswersTo(h) \subseteq ToSender
  <2> TAKE h \in Hosts
  <2>1. PICK L \in Nat : L = FileLen[h]
    BY LengthOfFile
  <2>2. PacketsOf(h) = {SYN, FIN} \cup [type : {"DATA"}, seq_num : 0 .. L - 1, data : Data]
    BY <2>1 DEF PacketsOf
  <2>3. AnswersTo(h) =
          {GO, FINACK} \cup [type : {"ACK"}, ack : -1 .. L - 1, naks : SUBSET (0 .. L - 1)]
    BY <2>1 DEF AnswersTo
  <2>4. PacketsOf(h) \subseteq ToReceiver
    BY <2>2 DEF ToReceiver
  <2>5. AnswersTo(h) \subseteq ToSender
    <3>1. SUBSET (0 .. L - 1) \subseteq SUBSET Nat /\ (-1 .. L - 1) \subseteq Int
      OBVIOUS
    <3> QED
      BY <2>3, <3>1 DEF ToSender
  <2> QED
    BY <2>4, <2>5
<1>3. \A h \in Hosts : toRcv[h] \in Seq(ToReceiver) /\ toSnd[h] \in Seq(ToSender)
  <2> QED
    BY <1>1, <1>2, SeqMonotonic, Zenon
<1>4. /\ files \in [Hosts -> Seq(Data)] /\ snd \in [Hosts -> Senders]
      /\ toRcv \in [Hosts -> Seq(ToReceiver)] /\ toSnd \in [Hosts -> Seq(ToSender)]
  BY <1>1, <1>3, Zenon DEF TypeInv, Functions
<1> QED
  BY <1>4 DEF TypeInv, ConnectionTypes, WindowOK, TypeOK, Counters

(* A step touches the variables of one host, and the receiver only when it *)
(* serves no other.                                                        *)
Only(h, old, new) == \E x : new = [old EXCEPT ![h] = x]

Changed(h) ==
    /\ Only(h, files, files') /\ Only(h, snd, snd')
    /\ Only(h, toRcv, toRcv') /\ Only(h, toSnd, toSnd')
    /\ rcv' = rcv \/ (rcv.conn \in {h, NoHost} /\ rcv'.conn \in {h, NoHost})

LEMMA OnlyAt ==
    ASSUME NEW h, NEW old, NEW x, NEW new, new = [old EXCEPT ![h] = x]
    PROVE  Only(h, old, new)
BY DEF Only

LEMMA Frame ==
    ASSUME Functions, NEW h \in Hosts, Changed(h)
    PROVE  /\ Functions'
           /\ \A g \in Hosts : g # h => /\ files'[g] = files[g] /\ snd'[g] = snd[g]
                                        /\ toRcv'[g] = toRcv[g] /\ toSnd'[g] = toSnd[g]
<1>1. PICK f : files' = [files EXCEPT ![h] = f]
  BY DEF Changed, Only
<1>2. PICK s : snd' = [snd EXCEPT ![h] = s]
  BY DEF Changed, Only
<1>3. PICK q : toRcv' = [toRcv EXCEPT ![h] = q]
  BY DEF Changed, Only
<1>4. PICK a : toSnd' = [toSnd EXCEPT ![h] = a]
  BY DEF Changed, Only
<1> QED
  BY <1>1, <1>2, <1>3, <1>4 DEF Functions

LEMMA Unchanged ==
    ASSUME Functions, NEW h \in Hosts
    PROVE  Only(h, files, files) /\ Only(h, snd, snd) /\ Only(h, toRcv, toRcv) /\ Only(h, toSnd, toSnd)
BY DEF Functions, Only

LEMMA TypesKept ==
    ASSUME TypeInv, NEW h \in Hosts, Changed(h), HostTypes(h)', ConnectionTypes', Counters'
    PROVE  TypeInv'
<1>1. /\ Functions'
      /\ \A g \in Hosts : g # h => /\ files'[g] = files[g] /\ snd'[g] = snd[g]
                                   /\ toRcv'[g] = toRcv[g] /\ toSnd'[g] = toSnd[g]
  BY Frame DEF TypeInv
<1>2. \A g \in Hosts : HostTypes(g)'
  BY <1>1 DEF TypeInv, HostTypes
<1> QED
  BY <1>1, <1>2 DEF TypeInv

(* A packet of h that is taken.                                            *)
LEMMA Taken ==
    ASSUME TypeInv, NEW h \in Hosts, NEW type, Arrives(h, type)
    PROVE  /\ Only(h, toRcv, toRcv')
           /\ toRcv'[h] = Tail(toRcv[h])
           /\ toRcv[h] \in Seq(PacketsOf(h)) /\ toRcv'[h] \in Seq(PacketsOf(h))
           /\ Len(toRcv[h]) \in Nat /\ Len(toRcv[h]) >= 1
           /\ Len(toRcv'[h]) = Len(toRcv[h]) - 1
           /\ toRcv[h][1] = Head(toRcv[h]) /\ toRcv[h][1] \in PacketsOf(h)
           /\ toRcv[h][1].type = type
           /\ \A i \in 1 .. Len(toRcv'[h]) : toRcv'[h][i] = toRcv[h][i + 1]
           /\ snd'[h] = snd[h] /\ Only(h, snd, snd')
           /\ Counters' /\ early' = early
<1>1. /\ toRcv[h] \in Seq(PacketsOf(h)) /\ toRcv[h] # <<>> /\ Head(toRcv[h]).type = type
      /\ toRcv' = [toRcv EXCEPT ![h] = Tail(toRcv[h])]
      /\ UNCHANGED <<snd, losses, early, kills>>
  BY DEF TypeInv, HostTypes, Arrives
<1>2. toRcv'[h] = Tail(toRcv[h])
  BY <1>1 DEF TypeInv, Functions
<1>3. Only(h, snd, snd')
  BY <1>1, Unchanged DEF TypeInv
<1>4. /\ toRcv'[h] \in Seq(PacketsOf(h)) /\ Len(toRcv[h]) \in Nat /\ Len(toRcv[h]) >= 1
      /\ Len(toRcv'[h]) = Len(toRcv[h]) - 1
      /\ toRcv[h][1] = Head(toRcv[h]) /\ toRcv[h][1] \in PacketsOf(h)
      /\ \A i \in 1 .. Len(toRcv'[h]) : toRcv'[h][i] = toRcv[h][i + 1]
  <2>1. PICK S, q, p : S = PacketsOf(h) /\ q = toRcv[h] /\ p = toRcv'[h]
    OBVIOUS
  <2>2. q \in Seq(S) /\ q # <<>> /\ p = Tail(q)
    BY <1>1, <1>2, <2>1
  <2>3. /\ p \in Seq(S) /\ Len(q) \in Nat /\ Len(q) >= 1
        /\ Len(p) = Len(q) - 1
        /\ q[1] = Head(q) /\ q[1] \in S
        /\ \A i \in 1 .. Len(p) : p[i] = q[i + 1]
    BY <2>2, FirstTaken
  <2> QED
    BY <2>1, <2>3
<1>5. Counters'
  BY <1>1 DEF TypeInv, Counters
<1> QED
  BY <1>1, <1>2, <1>3, <1>4, <1>5 DEF Only

LEMMA Received ==
    ASSUME TypeInv, NEW h \in Hosts, NEW phase, NEW types, SndReceives(h, phase, types)
    PROVE  /\ Only(h, toSnd, toSnd')
           /\ toSnd'[h] = Tail(toSnd[h])
           /\ toSnd[h] \in Seq(AnswersTo(h)) /\ toSnd'[h] \in Seq(AnswersTo(h))
           /\ Len(toSnd[h]) \in Nat /\ Len(toSnd[h]) >= 1
           /\ Len(toSnd'[h]) = Len(toSnd[h]) - 1
           /\ toSnd[h][1] = Head(toSnd[h]) /\ toSnd[h][1] \in AnswersTo(h)
           /\ toSnd[h][1].type \in types
           /\ \A i \in 1 .. Len(toSnd'[h]) : toSnd'[h][i] = toSnd[h][i + 1]
           /\ snd[h].phase = phase
           /\ rcv' = rcv /\ files' = files /\ Only(h, files, files')
           /\ Counters' /\ early' = early /\ ConnectionTypes'
<1>1. /\ toSnd[h] \in Seq(AnswersTo(h)) /\ toSnd[h] # <<>> /\ Head(toSnd[h]).type \in types
      /\ toSnd' = [toSnd EXCEPT ![h] = Tail(toSnd[h])] /\ snd[h].phase = phase
      /\ UNCHANGED <<rcv, files, losses, early, kills>>
  BY DEF TypeInv, HostTypes, SndReceives
<1>2. toSnd'[h] = Tail(toSnd[h])
  BY <1>1 DEF TypeInv, Functions
<1>3. Only(h, files, files')
  BY <1>1, Unchanged DEF TypeInv
<1>4. /\ toSnd'[h] \in Seq(AnswersTo(h)) /\ Len(toSnd[h]) \in Nat /\ Len(toSnd[h]) >= 1
      /\ Len(toSnd'[h]) = Len(toSnd[h]) - 1
      /\ toSnd[h][1] = Head(toSnd[h]) /\ toSnd[h][1] \in AnswersTo(h)
      /\ \A i \in 1 .. Len(toSnd'[h]) : toSnd'[h][i] = toSnd[h][i + 1]
  <2>1. PICK S, q, p : S = AnswersTo(h) /\ q = toSnd[h] /\ p = toSnd'[h]
    OBVIOUS
  <2>2. q \in Seq(S) /\ q # <<>> /\ p = Tail(q)
    BY <1>1, <1>2, <2>1
  <2>3. /\ p \in Seq(S) /\ Len(q) \in Nat /\ Len(q) >= 1
        /\ Len(p) = Len(q) - 1
        /\ q[1] = Head(q) /\ q[1] \in S
        /\ \A i \in 1 .. Len(p) : p[i] = q[i + 1]
    BY <2>2, FirstTaken
  <2> QED
    BY <2>1, <2>3
<1>6. Only(h, toSnd, toSnd')
  BY <1>1, OnlyAt
<1>5. Counters' /\ ConnectionTypes'
  BY <1>1 DEF TypeInv, Counters, ConnectionTypes, Fresh, Limit
<1> QED
  BY <1>1, <1>2, <1>3, <1>4, <1>5, <1>6

LEMMA Answered ==
    ASSUME TypeInv, NEW h \in Hosts, NEW m \in AnswersTo(h), Answer(h, m)
    PROVE  /\ Only(h, toSnd, toSnd')
           /\ toSnd[h] \in Seq(AnswersTo(h)) /\ toSnd'[h] \in Seq(AnswersTo(h))
           /\ Len(toSnd[h]) \in Nat
           /\ Len(toSnd'[h]) \in Len(toSnd[h]) .. Len(toSnd[h]) + 1
           /\ \A i \in 1 .. Len(toSnd[h]) : toSnd'[h][i] = toSnd[h][i]
           /\ \A i \in Len(toSnd[h]) + 1 .. Len(toSnd'[h]) : toSnd'[h][i] = m
<1>1. toSnd[h] \in Seq(AnswersTo(h)) /\ toSnd' = [toSnd EXCEPT ![h] = Put(toSnd[h], <<m>>)]
  BY DEF TypeInv, HostTypes, Answer
<1>2. toSnd'[h] = Put(toSnd[h], <<m>>)
  BY <1>1 DEF TypeInv, Functions
<1>3. Len(toSnd[h]) \in Nat
  BY <1>1, LenProperties
<1>4. /\ toSnd'[h] \in Seq(AnswersTo(h))
      /\ Len(toSnd'[h]) \in Len(toSnd[h]) .. Len(toSnd[h]) + 1
      /\ \A i \in 1 .. Len(toSnd[h]) : toSnd'[h][i] = toSnd[h][i]
      /\ \A i \in Len(toSnd[h]) + 1 .. Len(toSnd'[h]) : toSnd'[h][i] = m
  <2>1. PICK S, q, p : S = AnswersTo(h) /\ q = toSnd[h] /\ p = toSnd'[h]
    OBVIOUS
  <2>2. q \in Seq(S) /\ m \in S /\ p = Put(q, <<m>>)
    BY <1>1, <1>2, <2>1
  <2>3. p \in Seq(S) /\ Appended(p, q, m)
    BY <2>2, OneMore, Zenon
  <2> QED
    BY <2>1, <2>3 DEF Appended
<1>5. Only(h, toSnd, toSnd')
  BY <1>1, OnlyAt
<1> QED
  BY <1>1, <1>3, <1>4, <1>5

-----------------------------------------------------------------------------
(* The receiver's steps.                                                   *)

(* The file of the connection after the packets at the start of the window *)
(* of r were written to it.                                                *)
Grown(h, r) ==
    /\ files'[h] \in Seq(Data)
    /\ Len(files[h]) = rcv.window_min_seq
    /\ Len(files'[h]) = rcv.window_min_seq + consecutive(r)
    /\ Len(files'[h]) <= FileLen[h]
    /\ \A k \in 1 .. Len(files[h]) : files'[h][k] = files[h][k]
    /\ \A k \in Len(files[h]) + 1 .. Len(files'[h]) :
         files'[h][k] = r.window_buffer[(k - 1) % WINDOW_SIZE].data

LEMMA Connected ==
    ASSUME TypeInv, NEW h \in Hosts, rcv.conn = h
    PROVE  /\ WindowOK(rcv, FileLen[h]) /\ rcv \in Receivers /\ rcv.conn # NoHost
           /\ rcv.state # "IDLE" /\ Len(files[h]) = rcv.window_min_seq
           /\ rcv.window_min_seq \in Nat /\ h # NoHost
<1>1. h # NoHost
  OBVIOUS
<1> QED
  BY <1>1, WindowTypes DEF TypeInv, ConnectionTypes, Limit, WindowOK

LEMMA WrittenOut ==
    ASSUME TypeInv, NEW h \in Hosts, rcv.conn = h, NEW r, WindowOK(r, FileLen[h]),
           r.window_min_seq = rcv.window_min_seq, WriteOut(h, r)
    PROVE  Grown(h, r) /\ Only(h, files, files')
<1>1. PICK b \in Nat : b = FileLen[h]
  BY LengthOfFile
<1>2. PICK c, w : c = consecutive(r) /\ w = r.window_min_seq
  OBVIOUS
<1>3. c \in Nat /\ w \in Nat /\ w + c <= b
  <2>1. r \in Receivers /\ WindowOK(r, b)
    BY <1>1 DEF WindowOK
  <2> QED
    BY <2>1, <1>1, <1>2, Consecutive, WindowTypes
<1>4. PICK m : m = written(r)
  OBVIOUS
<1>5. /\ m \in Seq(Data) /\ Len(m) = c
      /\ \A k \in 1 .. c : m[k] = r.window_buffer[(w + k - 1) % WINDOW_SIZE].data
  BY <1>1, <1>2, <1>4, Written
<1>6. PICK f \in Seq(Data) : f = files[h] /\ Len(f) = w
  BY <1>2, Connected DEF TypeInv, HostTypes
<1>7. files' = [files EXCEPT ![h] = f \o m]
  BY <1>4, <1>6 DEF WriteOut
<1>8. files'[h] = f \o m
  BY <1>7 DEF TypeInv, Functions
<1>9. PICK g \in Seq(Data) :
        /\ g = f \o m /\ Len(g) = w + c
        /\ \A k \in 1 .. w + c : g[k] = IF k <= w THEN f[k] ELSE m[k - w]
  <2>1. /\ f \o m \in Seq(Data) /\ Len(f \o m) = w + c
        /\ \A k \in 1 .. w + c : (f \o m)[k] = IF k <= w THEN f[k] ELSE m[k - w]
    <3>1. f \in Seq(Data) /\ m \in Seq(Data) /\ Len(f) = w /\ Len(m) = c
      BY <1>5, <1>6
    <3>2. /\ f \o m \in Seq(Data) /\ Len(f \o m) = Len(f) + Len(m)
          /\ \A k \in 1 .. Len(f) + Len(m) :
               (f \o m)[k] = IF k <= Len(f) THEN f[k] ELSE m[k - Len(f)]
      BY <3>1, ConcatProperties
    <3> QED
      BY <3>1, <3>2
  <2> QED
    BY <2>1, Zenon
<1>10. \A k \in w + 1 .. w + c : g[k] = r.window_buffer[(k - 1) % WINDOW_SIZE].data
  <2> TAKE k \in w + 1 .. w + c
  <2>1. k - w \in 1 .. c /\ k \in 1 .. w + c /\ ~ (k <= w) /\ w + (k - w) - 1 = k - 1
    BY <1>3
  <2> QED
    BY <2>1, <1>5, <1>9
<1>11. \A k \in 1 .. w : g[k] = f[k]
  BY <1>3, <1>9
<1>12. Only(h, files, files')
  BY <1>7, OnlyAt
<1> QED
  BY <1>1, <1>2, <1>3, <1>6, <1>7, <1>8, <1>9, <1>10, <1>11, <1>12 DEF Grown

LEMMA AckTypes ==
    ASSUME NEW h \in Hosts, NEW r, WindowOK(r, FileLen[h])
    PROVE  buildAckNak(r) \in AnswersTo(h)
<1>1. PICK b \in Nat : b = FileLen[h]
  BY LengthOfFile
<1>2. PICK m : m = buildAckNak(r)
  OBVIOUS
<1>3. m \in [type : {"ACK"}, ack : -1 .. b - 1, naks : SUBSET (0 .. b - 1)]
  BY <1>1, <1>2, AckOf
<1> QED
  BY <1>1, <1>2, <1>3 DEF AnswersTo

(* The receiver after its connection was closed, or with a new one.        *)
LEMMA IdleAgain ==
    ASSUME TypeInv, NEW r, NEW st \in {"IDLE", "WAITING_DATA"}, NEW c \in Hosts \cup {NoHost},
           st = "IDLE" <=> c = NoHost,
           r = [state |-> st, conn |-> c, window_buffer |-> freshWindow,
                window_min_seq |-> 0, retryCounter |-> rcv.retryCounter]
    PROVE  /\ r.state = st /\ r.conn = c /\ r.window_min_seq = 0 /\ Fresh(r)
           /\ WindowOK(r, Limit(r))
<1>1. PICK n \in 0 .. RECV_NUM_RETRY_ACK + 1 : n = rcv.retryCounter
  BY DEF TypeInv, ConnectionTypes, WindowOK, Receivers
<1>2. /\ idle \in Receivers /\ WindowOK(idle, 0) /\ idle.window_min_seq = 0
      /\ \A i \in Slots : ~ idle.window_buffer[i].received
  BY IdleOK DEF idle
<1>3. PICK d \in Receivers : d = idle
  BY <1>2
<1>4. r = [state |-> st, conn |-> c, window_buffer |-> d.window_buffer, window_min_seq |-> 0,
           retryCounter |-> n]
  BY <1>1, <1>3 DEF idle
<1>5. /\ r \in Receivers /\ r.state = st /\ r.conn = c
      /\ r.window_min_seq = d.window_min_seq /\ r.window_buffer = d.window_buffer
  BY <1>2, <1>3, <1>4 DEF Receivers
<1>6. PICK b \in Nat : b = Limit(r)
  BY <1>5, LengthOfFile DEF Limit
<1>7. WindowOK(r, b)
  BY <1>2, <1>3, <1>5 DEF WindowOK, window_max_seq
<1> QED
  BY <1>2, <1>3, <1>5, <1>6, <1>7 DEF Fresh

LEMMA Closed ==
    ASSUME TypeInv, NEW h \in Hosts, rcv.conn = h, closeConnection
    PROVE  /\ Grown(h, rcv) /\ Only(h, files, files')
           /\ rcv'.conn = NoHost /\ rcv'.state = "IDLE"
           /\ ConnectionTypes'
<1>1. WindowOK(rcv, FileLen[h])
  BY Connected
<1>2. WriteOut(h, rcv) /\ rcv' = [idle EXCEPT !.retryCounter = rcv.retryCounter]
  BY DEF closeConnection
<1>3. Grown(h, rcv) /\ Only(h, files, files')
  BY <1>1, <1>2, WrittenOut
<1>4. rcv' = [state |-> "IDLE", conn |-> NoHost, window_buffer |-> freshWindow,
              window_min_seq |-> 0, retryCounter |-> rcv.retryCounter]
  BY <1>2 DEF idle
<1>5. /\ rcv'.state = "IDLE" /\ rcv'.conn = NoHost /\ rcv'.window_min_seq = 0 /\ Fresh(rcv')
      /\ WindowOK(rcv', Limit(rcv'))
  BY <1>4, IdleAgain
<1>6. ConnectionTypes'
  BY <1>5 DEF ConnectionTypes, Fresh, WindowOK, Limit, window_max_seq
<1> QED
  BY <1>3, <1>5, <1>6

TypesAfter(h) == Changed(h) /\ HostTypes(h)' /\ ConnectionTypes' /\ Counters'

LEMMA ReceiveFINTypes ==
    ASSUME TypeInv, NEW h \in Hosts, ReceiveFIN(h)
    PROVE  TypesAfter(h)
<1>1. Arrives(h, "FIN") /\ Answer(h, FINACK) /\ FINACK \in AnswersTo(h)
  BY DEF ReceiveFIN, AnswersTo
<1>2. /\ Only(h, toRcv, toRcv')
      /\ toRcv'[h] \in Seq(PacketsOf(h))
      /\ snd'[h] = snd[h] /\ Only(h, snd, snd') /\ Counters'
  BY <1>1, Taken
<1>3. Only(h, toSnd, toSnd') /\ toSnd'[h] \in Seq(AnswersTo(h))
  BY <1>1, Answered
<1>4. CASE rcv.conn = h /\ closeConnection
  <2>1. /\ Grown(h, rcv) /\ Only(h, files, files')
        /\ rcv'.conn = NoHost /\ ConnectionTypes'
    BY <1>4, Closed
  <2>2. Changed(h)
    BY <1>2, <1>3, <1>4, <2>1 DEF Changed
  <2> QED
    BY <1>2, <1>3, <2>1, <2>2 DEF TypesAfter, HostTypes, TypeInv, Grown
<1>5. CASE rcv.conn # h /\ UNCHANGED <<rcv, files>>
  <2>1. Only(h, files, files')
    BY <1>5, Unchanged DEF TypeInv
  <2>2. Changed(h)
    BY <1>2, <1>3, <1>5, <2>1 DEF Changed
  <2>3. ConnectionTypes'
    BY <1>5 DEF TypeInv, ConnectionTypes, Limit, Fresh
  <2> QED
    BY <1>2, <1>3, <1>5, <2>2, <2>3 DEF TypesAfter, HostTypes, TypeInv
<1> QED
  BY <1>4, <1>5 DEF ReceiveFIN

LEMMA ReceiveSYNTypes ==
    ASSUME TypeInv, NEW h \in Hosts, ReceiveSYN(h)
    PROVE  /\ TypesAfter(h)
           /\ rcv.conn = NoHost
           /\ files'[h] = <<>> /\ rcv'.conn = h /\ rcv'.state = "WAITING_DATA" /\ Fresh(rcv')
<1>1. Arrives(h, "SYN") /\ Answer(h, GO) /\ GO \in AnswersTo(h) /\ rcv.conn = NoHost
  BY DEF ReceiveSYN, AnswersTo, TypeInv, ConnectionTypes
<1>2. /\ Only(h, toRcv, toRcv')
      /\ toRcv'[h] \in Seq(PacketsOf(h))
      /\ snd'[h] = snd[h] /\ Only(h, snd, snd') /\ Counters'
  BY <1>1, Taken
<1>3. Only(h, toSnd, toSnd') /\ toSnd'[h] \in Seq(AnswersTo(h))
  BY <1>1, Answered
<1>4. rcv' = [state |-> "WAITING_DATA", conn |-> h, window_buffer |-> freshWindow,
              window_min_seq |-> 0, retryCounter |-> rcv.retryCounter]
  BY DEF ReceiveSYN, idle
<1>5. h # NoHost
  OBVIOUS
<1>6. /\ rcv'.state = "WAITING_DATA" /\ rcv'.conn = h /\ rcv'.window_min_seq = 0 /\ Fresh(rcv')
      /\ WindowOK(rcv', Limit(rcv'))
  BY <1>4, <1>5, IdleAgain
<1>7. files' = [files EXCEPT ![h] = <<>>] /\ Only(h, files, files')
  BY DEF ReceiveSYN, Only
<1>8. files'[h] = <<>> /\ <<>> \in Seq(Data) /\ Len(<<>>) = 0
  BY <1>7, EmptySeq DEF TypeInv, Functions
<1>9. ConnectionTypes'
  BY <1>5, <1>6, <1>8 DEF ConnectionTypes, Fresh, WindowOK, Limit, window_max_seq
<1>10. Changed(h)
  BY <1>1, <1>2, <1>3, <1>6, <1>7 DEF Changed
<1>11. HostTypes(h)'
  BY <1>2, <1>3, <1>8, LengthOfFile DEF HostTypes, TypeInv
<1> QED
  BY <1>1, <1>2, <1>6, <1>8, <1>9, <1>10, <1>11 DEF TypesAfter

LEMMA AnyDATATypes ==
    ASSUME TypeInv, NEW h \in Hosts, UNCHANGED <<rcv, files, toSnd>>,
           NEW type, Arrives(h, type)
    PROVE  TypesAfter(h)
<1>2. /\ Only(h, toRcv, toRcv')
      /\ toRcv'[h] \in Seq(PacketsOf(h))
      /\ snd'[h] = snd[h] /\ Only(h, snd, snd') /\ Counters'
  BY Taken
<1>3. Only(h, files, files') /\ Only(h, toSnd, toSnd')
  BY Unchanged DEF TypeInv
<1>4. Changed(h)
  BY <1>2, <1>3 DEF Changed
<1>5. ConnectionTypes'
  BY DEF TypeInv, ConnectionTypes, Limit, Fresh
<1> QED
  BY <1>2, <1>4, <1>5 DEF TypesAfter, HostTypes, TypeInv

LEMMA IgnorePacketTypes ==
    ASSUME TypeInv, NEW h \in Hosts, IgnorePacket(h)
    PROVE  TypesAfter(h)
BY AnyDATATypes DEF IgnorePacket

LEMMA ReceiveStrayDATATypes ==
    ASSUME TypeInv, NEW h \in Hosts, ReceiveStrayDATA(h)
    PROVE  TypesAfter(h)
<1>1. Arrives(h, "DATA") /\ Answer(h, FINACK) /\ FINACK \in AnswersTo(h)
      /\ UNCHANGED <<rcv, files>>
  BY DEF ReceiveStrayDATA, AnswersTo
<1>2. /\ Only(h, toRcv, toRcv')
      /\ toRcv'[h] \in Seq(PacketsOf(h))
      /\ snd'[h] = snd[h] /\ Only(h, snd, snd') /\ Counters'
  BY <1>1, Taken
<1>3. Only(h, toSnd, toSnd') /\ toSnd'[h] \in Seq(AnswersTo(h))
  BY <1>1, Answered
<1>4. Only(h, files, files')
  BY <1>1, Unchanged DEF TypeInv
<1>5. Changed(h)
  BY <1>1, <1>2, <1>3, <1>4 DEF Changed
<1>6. ConnectionTypes'
  BY <1>1 DEF TypeInv, ConnectionTypes, Limit, Fresh
<1> QED
  BY <1>1, <1>2, <1>3, <1>5, <1>6 DEF TypesAfter, HostTypes, TypeInv

LEMMA DataPacket ==
    ASSUME NEW h \in Hosts, NEW m \in PacketsOf(h), m.type = "DATA"
    PROVE  /\ m.seq_num \in Nat /\ m.seq_num < FileLen[h] /\ m.data \in Data
           /\ m = DATA(m.seq_num, m.data)
<1>1. PICK L \in Nat : L = FileLen[h]
  BY LengthOfFile
<1>2. m \in [type : {"DATA"}, seq_num : 0 .. L - 1, data : Data]
  BY <1>1 DEF PacketsOf, SYN, FIN
<1> QED
  BY <1>1, <1>2 DEF DATA

(* The window goes on after r, at the end of the file.                     *)
LEMMA ConnectionGoesOn ==
    ASSUME NEW h \in Hosts, rcv.conn = h, NEW r, Grown(h, r),
           r.window_min_seq = rcv.window_min_seq, r.conn = h, Moved(r, rcv'),
           WindowOK(rcv', FileLen[h]), rcv'.state \in {"RECV_DATA", "WAIT_RESPONSE"}
    PROVE  ConnectionTypes' /\ rcv'.conn = h
<1>1. h # NoHost /\ rcv'.conn = h
  BY DEF Moved
<1>2. Len(files'[h]) = rcv'.window_min_seq
  BY DEF Moved, Grown
<1>3. WindowOK(rcv', Limit(rcv'))
  BY <1>1 DEF Limit
<1> QED
  BY <1>1, <1>2, <1>3 DEF ConnectionTypes, WindowOK, Limit, window_max_seq

LEMMA ReceiveDATATypes ==
    ASSUME TypeInv, NEW h \in Hosts, ReceiveDATA(h)
    PROVE  TypesAfter(h)
<1>1. Arrives(h, "DATA") /\ rcv.conn = h
  BY DEF ReceiveDATA
<1>2. /\ WindowOK(rcv, FileLen[h]) /\ rcv \in Receivers /\ rcv.conn # NoHost
      /\ rcv.state # "IDLE" /\ Len(files[h]) = rcv.window_min_seq /\ rcv.window_min_seq \in Nat
  BY <1>1, Connected
<1>3. /\ Only(h, toRcv, toRcv')
      /\ toRcv'[h] \in Seq(PacketsOf(h))
      /\ toRcv[h][1] = Head(toRcv[h]) /\ toRcv[h][1] \in PacketsOf(h)
      /\ toRcv[h][1].type = "DATA"
      /\ snd'[h] = snd[h] /\ Only(h, snd, snd') /\ Counters'
  BY <1>1, Taken DEF Only
<1>4. PICK m : m = Head(toRcv[h])
  OBVIOUS
<1>5. m.seq_num \in Nat /\ m.seq_num < FileLen[h] /\ m.data \in Data
  BY <1>3, <1>4, DataPacket
<1>6. PICK r : r = stored(m.seq_num, m.data)
  OBVIOUS
<1>7. PICK b \in Nat : b = FileLen[h]
  BY LengthOfFile
<1>8. CASE ~ inWindow(m.seq_num) /\ UNCHANGED <<rcv, files, toSnd>>
  BY <1>8, <1>1, AnyDATATypes
<1>9. inWindow(m.seq_num) =>
        /\ WindowOK(r, b) /\ r.state = "RECV_DATA" /\ r.conn = rcv.conn
        /\ r.window_min_seq = rcv.window_min_seq
  BY <1>2, <1>5, <1>6, <1>7, Stored DEF inWindow
<1>10. CASE inWindow(m.seq_num) /\ rcv' = r /\ UNCHANGED <<files, toSnd>>
  <2>1. Only(h, files, files') /\ Only(h, toSnd, toSnd')
    BY <1>10, Unchanged DEF TypeInv
  <2>2. Changed(h)
    BY <1>1, <1>3, <1>9, <1>10, <2>1 DEF Changed
  <2>3. WindowOK(rcv', Limit(rcv'))
    BY <1>1, <1>2, <1>7, <1>9, <1>10 DEF Limit
  <2>4. ConnectionTypes'
    BY <1>1, <1>2, <1>9, <1>10, <2>3 DEF ConnectionTypes, WindowOK, Limit, window_max_seq
  <2> QED
    BY <1>3, <1>10, <2>2, <2>4 DEF TypesAfter, HostTypes, TypeInv
<1>11. CASE /\ m.seq_num = window_max_seq(rcv) /\ Answer(h, buildAckNak(r))
            /\ WriteOut(h, r) /\ rcv' = clearWindow(r)
  <2>0. inWindow(m.seq_num)
    BY <1>2, <1>11, WindowTypes DEF inWindow
  <2>1. Grown(h, r) /\ Only(h, files, files')
    BY <1>1, <1>7, <1>9, <1>11, <2>0, WrittenOut
  <2>2. buildAckNak(r) \in AnswersTo(h)
    BY <1>7, <1>9, <2>0, AckTypes
  <2>3. Only(h, toSnd, toSnd') /\ toSnd'[h] \in Seq(AnswersTo(h))
    BY <1>11, <2>2, Answered
  <2>4. WindowOK(rcv', b) /\ Moved(r, rcv')
    BY <1>9, <1>11, <2>0, Cleared
  <2>5. ConnectionTypes' /\ rcv'.conn = h
    BY <1>1, <1>7, <1>9, <2>0, <2>1, <2>4, ConnectionGoesOn DEF Moved
  <2>6. Changed(h)
    BY <1>1, <1>3, <2>1, <2>3, <2>5 DEF Changed
  <2> QED
    BY <1>3, <2>1, <2>3, <2>5, <2>6 DEF TypesAfter, HostTypes, TypeInv, Grown
<1> QED
  BY <1>4, <1>6, <1>8, <1>10, <1>11 DEF ReceiveDATA

LEMMA ReceiverTimeoutTypes ==
    ASSUME TypeInv, NEW h \in Hosts, rcv.conn = h, ReceiverTimeout
    PROVE  TypesAfter(h)
<1>1. /\ WindowOK(rcv, FileLen[h]) /\ rcv \in Receivers /\ rcv.conn # NoHost
      /\ rcv.state # "IDLE" /\ Len(files[h]) = rcv.window_min_seq /\ rcv.window_min_seq \in Nat
  BY Connected
<1>2. /\ Only(h, snd, snd') /\ Only(h, toRcv, toRcv')
      /\ snd'[h] = snd[h] /\ toRcv'[h] = toRcv[h] /\ Counters'
  BY Unchanged DEF TypeInv, Counters, ReceiverTimeout, TimerFires
<1>3. PICK b \in Nat : b = FileLen[h]
  BY LengthOfFile
<1>4. CASE closeConnection /\ UNCHANGED toSnd
  <2>1. Grown(h, rcv) /\ Only(h, files, files') /\ rcv'.conn = NoHost /\ ConnectionTypes'
    BY <1>4, Closed
  <2>2. Only(h, toSnd, toSnd')
    BY <1>4, Unchanged DEF TypeInv
  <2>3. Changed(h)
    BY <1>2, <2>1, <2>2 DEF Changed
  <2> QED
    BY <1>2, <1>4, <2>1, <2>3 DEF TypesAfter, HostTypes, TypeInv, Grown
<1>a. ASSUME Answer(h, buildAckNak(rcv))
      PROVE  Only(h, toSnd, toSnd') /\ toSnd'[h] \in Seq(AnswersTo(h))
  BY <1>1, <1>a, AckTypes, Answered
<1>5. CASE /\ Answer(h, buildAckNak(rcv)) /\ WriteOut(h, rcv)
           /\ rcv' = [clearWindow(rcv) EXCEPT !.state = "WAIT_RESPONSE"]
  <2>1. Grown(h, rcv) /\ Only(h, files, files')
    BY <1>1, <1>5, WrittenOut
  <2>2. PICK u : u = clearWindow(rcv)
    OBVIOUS
  <2>3. WindowOK(u, b) /\ Moved(rcv, u)
    BY <1>1, <1>3, <2>2, Cleared
  <2>4. /\ rcv' \in Receivers /\ rcv'.state = "WAIT_RESPONSE" /\ rcv'.conn = h
        /\ rcv'.window_min_seq = u.window_min_seq /\ rcv'.window_buffer = u.window_buffer
    BY <1>5, <2>2, <2>3 DEF Moved, Receivers
  <2>5. WindowOK(rcv', b)
    BY <2>3, <2>4 DEF WindowOK, window_max_seq
  <2>6. Len(files'[h]) = rcv'.window_min_seq
    BY <2>1, <2>3, <2>4 DEF Grown, Moved
  <2>7. ConnectionTypes'
    BY <1>1, <1>3, <2>4, <2>5, <2>6 DEF ConnectionTypes, WindowOK, Limit, window_max_seq
  <2>8. Changed(h)
    BY <1>2, <1>5, <1>a, <2>1, <2>4 DEF Changed
  <2> QED
    BY <1>2, <1>5, <1>a, <2>1, <2>7, <2>8 DEF TypesAfter, HostTypes, TypeInv, Grown
<1>6. CASE /\ rcv.state = "WAIT_RESPONSE" /\ Answer(h, buildAckNak(rcv))
           /\ rcv' = [rcv EXCEPT !.retryCounter = retried] /\ UNCHANGED files
  <2>1. retried \in 0 .. RECV_NUM_RETRY_ACK + 1
    <3>1. rcv.retryCounter \in 0 .. RECV_NUM_RETRY_ACK + 1
      BY <1>1 DEF Receivers
    <3> QED
      BY <3>1 DEF retried
  <2>2. /\ rcv' \in Receivers /\ rcv'.state = "WAIT_RESPONSE" /\ rcv'.conn = h
        /\ rcv'.window_min_seq = rcv.window_min_seq /\ rcv'.window_buffer = rcv.window_buffer
    BY <1>1, <1>6, <2>1 DEF Receivers
  <2>3. WindowOK(rcv', b)
    BY <1>1, <1>3, <2>2 DEF WindowOK, window_max_seq
  <2>4. ConnectionTypes'
    BY <1>1, <1>3, <1>6, <2>2, <2>3 DEF ConnectionTypes, WindowOK, Limit, window_max_seq
  <2>5. Only(h, files, files')
    BY <1>6, Unchanged DEF TypeInv
  <2>6. Changed(h)
    BY <1>2, <1>6, <1>a, <2>2, <2>5 DEF Changed
  <2> QED
    BY <1>2, <1>6, <1>a, <2>4, <2>6 DEF TypesAfter, HostTypes, TypeInv
<1> QED
  BY <1>4, <1>5, <1>6 DEF ReceiverTimeout

-----------------------------------------------------------------------------
(* The sender's steps.                                                     *)

LEMMA AckPacket ==
    ASSUME NEW h \in Hosts, NEW m \in AnswersTo(h), m.type = "ACK"
    PROVE  /\ m.ack \in Int /\ m.ack < FileLen[h] /\ m.ack >= -1
           /\ m.naks \in SUBSET Nat /\ (\A n \in m.naks : n < FileLen[h])
           /\ firstMissing(m) \in Nat /\ firstMissing(m) <= FileLen[h]
<1>1. PICK L \in Nat : L = FileLen[h]
  BY LengthOfFile
<1>2. m \in [type : {"ACK"}, ack : -1 .. L - 1, naks : SUBSET (0 .. L - 1)]
  BY <1>1 DEF AnswersTo, GO, FINACK
<1>3. PICK a \in -1 .. L - 1, ns \in SUBSET (0 .. L - 1) : m.ack = a /\ m.naks = ns
  BY <1>2
<1>4. ns \in SUBSET Nat /\ \A n \in ns : n < L
  OBVIOUS
<1>a. a \in Int /\ a < L /\ a >= -1
  OBVIOUS
<1>b. /\ m.ack \in Int /\ m.ack < FileLen[h] /\ m.ack >= -1
      /\ m.naks \in SUBSET Nat /\ (\A n \in m.naks : n < FileLen[h])
  BY <1>1, <1>3, <1>4, <1>a, Zenon
<1>5. CASE ns = {}
  <2>1. firstMissing(m) = a + 1
    BY <1>3, <1>5 DEF firstMissing
  <2> QED
    BY <1>1, <1>a, <1>b, <2>1
<1>6. CASE ns # {}
  <2>1. \E n \in ns : \A k \in ns : n <= k
    BY <1>4, <1>6, Least
  <2>2. PICK f : f = CHOOSE n \in ns : \A k \in ns : n <= k
    OBVIOUS
  <2>3. f \in ns
    BY <2>1, <2>2
  <2>4. firstMissing(m) = f
    BY <1>3, <1>6, <2>2 DEF firstMissing
  <2>5. f \in Nat /\ f < L
    BY <1>4, <2>3
  <2> QED
    <3>1. firstMissing(m) \in Nat /\ firstMissing(m) <= FileLen[h]
      BY <1>1, <2>4, <2>5
    <3> QED
      BY <3>1, <1>b
<1> QED
  BY <1>5, <1>6

(* What the sender makes of an acknowledgement.                            *)
LEMMA AfterAck ==
    ASSUME NEW h \in Hosts, NEW s \in Senders, NEW m \in AnswersTo(h), m.type = "ACK",
           NEW u, u = afterAck(s, m)
    PROVE  /\ u \in Senders
           /\ u.phase = s.phase /\ u.start_seq = s.start_seq /\ u.sent_fin = s.sent_fin
           /\ u.begun = s.begun /\ u.max_value = s.max_value /\ u.empty = s.empty
           /\ u.misled = s.misled
           /\ \/ u.new_start = firstMissing(m)
              \/ u.new_start = s.new_start /\ m.ack >= s.max_value
           /\ m.ack < s.max_value /\ ~ u.hasnacks => firstMissing(m) = s.max_value
<1>1. PICK a \in Int, ns \in SUBSET Nat, mx \in Nat, f \in Nat :
        a = m.ack /\ ns = m.naks /\ mx = s.max_value /\ f = firstMissing(m)
  BY AckPacket, SenderTypes
<1>2. PICK lo : lo = CHOOSE n \in ns : \A k \in ns : n <= k
  OBVIOUS
<1>a. f = IF ns = {} THEN a + 1 ELSE lo
  BY <1>1, <1>2 DEF firstMissing
<1>3. PICK above : above = a + 1 .. mx - 1
  OBVIOUS
<1> DEFINE all == ns = {} /\ a = mx - 1
<1>5. PICK rs \in [Slots -> BOOLEAN] :
        rs = [i \in Slots |-> s.recvd[i] /\ i \notin {k % WINDOW_SIZE : k \in ns \cup above}]
  <2>1. \A i \in Slots :
          (s.recvd[i] /\ i \notin {k % WINDOW_SIZE : k \in ns \cup above}) \in BOOLEAN
    OBVIOUS
  <2> QED
    BY <2>1
<1>6. PICK hn \in BOOLEAN : hn = ((s.hasnacks \/ ns \cup above # {}) /\ ~ all)
  <2>1. ((s.hasnacks \/ ns \cup above # {}) /\ ~ all) \in BOOLEAN
    OBVIOUS
  <2> QED
    BY <2>1, Zenon
<1>7. PICK st \in Nat : st = IF ns # {} \/ above # {} THEN f
                             ELSE IF all THEN mx ELSE s.new_start
  BY SenderTypes
<1>8. u = [s EXCEPT !.recvd = rs, !.hasnacks = hn, !.new_start = st]
  <2>1. f = IF ns # {} THEN lo ELSE a + 1
    BY <1>a
  <2>2. u = [s EXCEPT !.recvd = [i \in Slots |->
                         @[i] /\ i \notin {k % WINDOW_SIZE : k \in ns \cup above}],
                      !.hasnacks = (@ \/ ns \cup above # {}) /\ ~ all,
                      !.new_start = IF ns # {} \/ above # {}
                                    THEN IF ns # {} THEN lo ELSE a + 1
                                    ELSE IF all THEN mx ELSE @]
    BY <1>1, <1>2, <1>3 DEF afterAck
  <2> QED
    BY <2>1, <2>2, <1>5, <1>6, <1>7 DEF Senders
<1>9. /\ u \in Senders /\ u.phase = s.phase /\ u.start_seq = s.start_seq
      /\ u.sent_fin = s.sent_fin /\ u.begun = s.begun /\ u.max_value = mx /\ u.empty = s.empty
      /\ u.new_start = st /\ u.hasnacks = hn /\ u.misled = s.misled
  BY <1>1, <1>8 DEF Senders
<1>10. above = {} => a >= mx - 1
  <2>1. a < mx - 1 => a + 1 \in a + 1 .. mx - 1
    OBVIOUS
  <2> QED
    BY <2>1, <1>3
<1>11. all => f = mx
  BY <1>a
<1>12. st = f \/ (st = s.new_start /\ a >= mx)
  <2>1. CASE ns # {} \/ above # {}
    BY <2>1, <1>7
  <2>2. CASE ns = {} /\ above = {} /\ all
    BY <2>2, <1>7, <1>11
  <2>3. CASE ns = {} /\ above = {} /\ ~ all
    BY <2>3, <1>7, <1>10
  <2> QED
    BY <2>1, <2>2, <2>3
<1>13. a < mx /\ ~ hn => f = mx
  <2>1. ~ hn => all \/ (ns = {} /\ above = {})
    BY <1>6, Zenon
  <2>2. a < mx /\ ns = {} /\ above = {} => all
    BY <1>10
  <2> QED
    BY <2>1, <2>2, <1>11
<1> QED
  BY <1>1, <1>9, <1>12, <1>13

LEMMA Doubted ==
    ASSUME NEW s \in Senders, NEW u, u = doubted(s)
    PROVE  /\ u \in Senders
           /\ u.phase = s.phase /\ u.start_seq = s.start_seq /\ u.sent_fin = s.sent_fin
           /\ u.begun = s.begun /\ u.max_value = s.max_value /\ u.empty = s.empty
           /\ u.misled = s.misled
           /\ u.new_start = s.start_seq
<1>1. PICK rs \in [Slots -> BOOLEAN] :
        rs = [i \in Slots |-> s.recvd[i] /\ i \notin {k % WINDOW_SIZE : k \in outstanding(s)}]
  <2>1. \A i \in Slots :
          (s.recvd[i] /\ i \notin {k % WINDOW_SIZE : k \in outstanding(s)}) \in BOOLEAN
    OBVIOUS
  <2> QED
    BY <2>1
<1>2. PICK hn \in BOOLEAN : hn = (s.hasnacks \/ outstanding(s) # {})
  <2>1. (s.hasnacks \/ outstanding(s) # {}) \in BOOLEAN
    OBVIOUS
  <2> QED
    BY <2>1, Zenon
<1>3. u = [s EXCEPT !.recvd = rs, !.hasnacks = hn, !.new_start = s.start_seq]
  BY <1>1, <1>2 DEF doubted, Senders
<1> QED
  BY <1>3 DEF Senders

LEMMA BeforeLoopCases ==
    ASSUME NEW h \in Hosts, NEW s, SenderOK(h, s)
    PROVE  /\ s.phase = "SYN" => BeforeLoop(h, [s EXCEPT !.phase = "DATA"])
           /\ s.phase = "DATA" => /\ BeforeLoop(h, s) /\ BeforeLoop(h, doubted(s))
                                 /\ BeforeLoop(h, [s EXCEPT !.misled = TRUE])
           /\ \A m \in AnswersTo(h) :
                s.phase = "DATA" /\ m.type = "ACK" => BeforeLoop(h, afterAck(s, m))
<1>0. PICK L \in Nat : L = FileLen[h]
  BY LengthOfFile
<1>1. s \in Senders /\ Reads(h, s)
  BY DEF SenderOK, Reads
<1>2. ASSUME s.phase = "SYN"
      PROVE  BeforeLoop(h, [s EXCEPT !.phase = "DATA"])
  <2>1. PICK u : u = [s EXCEPT !.phase = "DATA"]
    OBVIOUS
  <2>2. PICK d \in Senders : d = sender
    BY FreshSender
  <2>3. PICK b \in BOOLEAN : s = [d EXCEPT !.phase = "SYN", !.misled = b]
    BY <1>1, <1>2, <2>2, SenderTypes DEF SenderOK, AtRest
  <2>4. /\ d.start_seq = 0 /\ d.new_start = WINDOW_SIZE /\ d.max_value = 0
        /\ ~ d.begun /\ ~ d.sent_fin
    BY <2>2, FreshSender
  <2>5. /\ u \in Senders /\ u.phase = "DATA" /\ u.start_seq = 0 /\ u.new_start = WINDOW_SIZE
        /\ u.max_value = 0 /\ ~ u.begun /\ ~ u.sent_fin
    BY <2>1, <2>3, <2>4 DEF Senders
  <2>6. BeforeLoop(h, u)
    BY <2>5, <1>0 DEF BeforeLoop, Reads
  <2> QED
    BY <2>1, <2>6
<1>3. ASSUME s.phase = "DATA"
      PROVE  /\ BeforeLoop(h, s) /\ BeforeLoop(h, doubted(s))
             /\ BeforeLoop(h, [s EXCEPT !.misled = TRUE])
  <2>1. BeforeLoop(h, s)
    BY <1>1, <1>3 DEF BeforeLoop, SenderOK
  <2>2. PICK u : u = doubted(s)
    OBVIOUS
  <2>3. BeforeLoop(h, u)
    BY <1>0, <1>1, <1>3, <2>2, Doubted, SenderTypes DEF BeforeLoop, Reads, SenderOK
  <2>4. PICK m : m = [s EXCEPT !.misled = TRUE]
    OBVIOUS
  <2>5. /\ m \in Senders /\ m.phase = s.phase /\ m.max_value = s.max_value
        /\ m.start_seq = s.start_seq /\ m.new_start = s.new_start /\ m.begun = s.begun
        /\ m.sent_fin = s.sent_fin
    BY <1>1, <2>4 DEF Senders
  <2>6. BeforeLoop(h, m)
    BY <2>1, <2>5 DEF BeforeLoop, Reads
  <2> QED
    BY <2>1, <2>2, <2>3, <2>4, <2>6
<1>4. ASSUME NEW m \in AnswersTo(h), s.phase = "DATA", m.type = "ACK"
      PROVE  BeforeLoop(h, afterAck(s, m))
  <2>1. PICK u : u = afterAck(s, m)
    OBVIOUS
  <2>2. /\ u \in Senders
        /\ u.phase = s.phase /\ u.start_seq = s.start_seq /\ u.sent_fin = s.sent_fin
        /\ u.begun = s.begun /\ u.max_value = s.max_value
        /\ u.new_start = firstMissing(m) \/ u.new_start = s.new_start
    BY <1>1, <1>4, <2>1, AfterAck
  <2>3. firstMissing(m) \in Nat /\ firstMissing(m) <= L
    BY <1>0, <1>4, AckPacket
  <2>4. BeforeLoop(h, u)
    BY <1>0, <1>1, <1>4, <2>2, <2>3, SenderTypes DEF BeforeLoop, Reads, SenderOK
  <2> QED
    BY <2>1, <2>4
<1> QED
  BY <1>2, <1>3, <1>4

(* What follows the loop: the packets that it sends are last.              *)
LEMMA Continued ==
    ASSUME TypeInv, NEW h \in Hosts, NEW s, BeforeLoop(h, s), Continue(h, s)
    PROVE  /\ Only(h, snd, snd') /\ Only(h, toRcv, toRcv')
           /\ snd'[h] = looped(h, s) /\ SenderOK(h, snd'[h]) /\ snd'[h].phase = "DATA"
           /\ toRcv'[h] \in Seq(PacketsOf(h))
           /\ Len(toRcv[h]) \in Nat /\ Len(toRcv'[h]) \in Nat /\ Len(toRcv[h]) <= Len(toRcv'[h])
           /\ \A i \in 1 .. Len(toRcv[h]) : toRcv'[h][i] = toRcv[h][i]
           /\ \A i \in Len(toRcv[h]) + 1 .. Len(toRcv'[h]) :
                Sends(h, s, snd'[h], toRcv'[h][i])
<1>1. PICK u, ms : u = looped(h, s) /\ ms = loopSends(h, s)
  OBVIOUS
<1>2. SenderOK(h, u) /\ u.phase = "DATA"
  BY <1>1, LoopKeepsSender
<1>3. ms \in Seq(PacketsOf(h)) /\ \A i \in 1 .. Len(ms) : Sends(h, s, u, ms[i])
  BY <1>1, LoopSends
<1>4. snd' = [snd EXCEPT ![h] = u] /\ toRcv' = [toRcv EXCEPT ![h] = Put(toRcv[h], ms)]
  BY <1>1 DEF Continue
<1>5. Only(h, snd, snd') /\ Only(h, toRcv, toRcv')
  BY <1>4, OnlyAt
<1>6. snd'[h] = u /\ toRcv'[h] = Put(toRcv[h], ms)
  BY <1>4 DEF TypeInv, Functions
<1>7. PICK S, q, p : S = PacketsOf(h) /\ q = toRcv[h] /\ p = toRcv'[h]
  OBVIOUS
<1>8. q \in Seq(S) /\ ms \in Seq(S) /\ p = Put(q, ms)
  BY <1>3, <1>6, <1>7 DEF TypeInv, HostTypes
<1>9. p \in Seq(S) /\ Extends(p, q, ms)
  BY <1>8, Queued, Zenon
<1>10. Len(q) \in Nat /\ Len(p) \in Nat /\ Len(ms) \in Nat
  BY <1>8, <1>9, LenProperties
<1>11. /\ Len(q) <= Len(p)
       /\ \A i \in 1 .. Len(q) : p[i] = q[i]
       /\ \A i \in Len(q) + 1 .. Len(p) : Sends(h, s, u, p[i])
  BY <1>3, <1>9, <1>10 DEF Extends
<1> QED
  BY <1>1, <1>2, <1>5, <1>6, <1>7, <1>9, <1>10, <1>11

LEMMA OnePacket ==
    ASSUME TypeInv, NEW h \in Hosts, NEW m \in PacketsOf(h),
           toRcv' = [toRcv EXCEPT ![h] = Put(@, <<m>>)]
    PROVE  /\ Only(h, toRcv, toRcv')
           /\ toRcv[h] \in Seq(PacketsOf(h)) /\ toRcv'[h] \in Seq(PacketsOf(h))
           /\ Len(toRcv[h]) \in Nat /\ Appended(toRcv'[h], toRcv[h], m)
<1>1. toRcv[h] \in Seq(PacketsOf(h)) /\ toRcv'[h] = Put(toRcv[h], <<m>>)
  BY DEF TypeInv, HostTypes, Functions
<1>2. Only(h, toRcv, toRcv')
  BY OnlyAt
<1>3. PICK S, q, p : S = PacketsOf(h) /\ q = toRcv[h] /\ p = toRcv'[h]
  OBVIOUS
<1>4. q \in Seq(S) /\ m \in S /\ p = Put(q, <<m>>)
  BY <1>1, <1>3
<1>5. p \in Seq(S) /\ Appended(p, q, m)
  BY <1>4, OneMore, Zenon
<1>6. Len(q) \in Nat
  BY <1>4, LenProperties
<1> QED
  BY <1>1, <1>2, <1>3, <1>5, <1>6

LEMMA Pinged ==
    ASSUME TypeInv, NEW h \in Hosts, Pings(h)
    PROVE  /\ Only(h, snd, snd') /\ Only(h, toRcv, toRcv')
           /\ snd'[h] = sender /\ SenderOK(h, snd'[h]) /\ snd'[h].phase = "SYN"
           /\ toRcv'[h] \in Seq(PacketsOf(h))
           /\ Len(toRcv[h]) \in Nat /\ Appended(toRcv'[h], toRcv[h], SYN)
<1>1. /\ snd' = [snd EXCEPT ![h] = sender]
      /\ toRcv' = [toRcv EXCEPT ![h] = Put(toRcv[h], <<SYN>>)]
      /\ SYN \in PacketsOf(h)
  BY DEF Pings, PacketsOf
<1>2. Only(h, snd, snd') /\ snd'[h] = sender
  BY <1>1, OnlyAt DEF TypeInv, Functions
<1>3. sender.phase = "SYN" /\ SenderOK(h, sender)
  BY FreshSender
<1> QED
  BY <1>1, <1>2, <1>3, OnePacket

LEMMA ContinueTypes ==
    ASSUME TypeInv, NEW h \in Hosts, NEW s, BeforeLoop(h, s), Continue(h, s),
           rcv' = rcv, files' = files, ConnectionTypes', Counters',
           Only(h, toSnd, toSnd'), toSnd'[h] \in Seq(AnswersTo(h))
    PROVE  TypesAfter(h)
<1>1. /\ Only(h, snd, snd') /\ Only(h, toRcv, toRcv')
      /\ SenderOK(h, snd'[h]) /\ toRcv'[h] \in Seq(PacketsOf(h))
  BY Continued
<1>2. Changed(h)
  BY <1>1, Unchanged DEF Changed, TypeInv
<1> QED
  BY <1>1, <1>2 DEF TypesAfter, HostTypes, TypeInv

LEMMA PingTypes ==
    ASSUME TypeInv, NEW h \in Hosts, Pings(h),
           rcv' = rcv, files' = files, ConnectionTypes', Counters',
           Only(h, toSnd, toSnd'), toSnd'[h] \in Seq(AnswersTo(h))
    PROVE  TypesAfter(h)
<1>1. /\ Only(h, snd, snd') /\ Only(h, toRcv, toRcv')
      /\ SenderOK(h, snd'[h]) /\ toRcv'[h] \in Seq(PacketsOf(h))
  BY Pinged
<1>2. Changed(h)
  BY <1>1, Unchanged DEF Changed, TypeInv
<1> QED
  BY <1>1, <1>2 DEF TypesAfter, HostTypes, TypeInv

(* A step at the sender changes nothing of the receiver.                   *)
LEMMA ReceiverKept ==
    ASSUME TypeInv, NEW h \in Hosts, UNCHANGED <<rcv, files>>
    PROVE  ConnectionTypes' /\ Only(h, files, files')
<1>1. ConnectionTypes'
  BY DEF TypeInv, ConnectionTypes, Fresh, Limit
<1> QED
  BY <1>1, Unchanged DEF TypeInv

LEMMA SenderStepTypes ==
    ASSUME TypeInv, NEW h \in Hosts, SenderStep(h)
    PROVE  TypesAfter(h)
<1>0. SenderOK(h, snd[h]) /\ snd[h] \in Senders
  BY DEF TypeInv, HostTypes, SenderOK, Reads
<1>1. CASE ReceiveGO(h)
  <2>1. /\ SndReceives(h, "SYN", {"GO"}) /\ snd[h].phase = "SYN"
        /\ Continue(h, [snd[h] EXCEPT !.phase = "DATA"])
    BY <1>1 DEF ReceiveGO, SndReceives
  <2>2. BeforeLoop(h, [snd[h] EXCEPT !.phase = "DATA"])
    BY <1>0, <2>1, BeforeLoopCases
  <2>3. /\ Only(h, toSnd, toSnd') /\ toSnd'[h] \in Seq(AnswersTo(h))
        /\ rcv' = rcv /\ files' = files /\ Counters' /\ ConnectionTypes'
    BY <2>1, Received
  <2> QED
    BY <2>1, <2>2, <2>3, ContinueTypes
<1>2. CASE PingAgain(h)
  <2>1. SndReceives(h, "SYN", {"ACK", "FINACK"}) /\ Pings(h)
    BY <1>2 DEF PingAgain
  <2>2. /\ Only(h, toSnd, toSnd') /\ toSnd'[h] \in Seq(AnswersTo(h))
        /\ rcv' = rcv /\ files' = files /\ Counters' /\ ConnectionTypes'
    BY <2>1, Received
  <2> QED
    BY <2>1, <2>2, PingTypes
<1>3. CASE ReceiveACK(h)
  <2>1. /\ SndReceives(h, "DATA", {"ACK"}) /\ snd[h].phase = "DATA"
        /\ Continue(h, afterAck(snd[h], Head(toSnd[h])))
    BY <1>3 DEF ReceiveACK, SndReceives
  <2>2. /\ Only(h, toSnd, toSnd') /\ toSnd'[h] \in Seq(AnswersTo(h))
        /\ rcv' = rcv /\ files' = files /\ Counters' /\ ConnectionTypes'
        /\ Head(toSnd[h]) \in AnswersTo(h) /\ Head(toSnd[h]).type = "ACK"
    <3>1. toSnd[h][1] = Head(toSnd[h]) /\ toSnd[h][1] \in AnswersTo(h) /\ toSnd[h][1].type \in {"ACK"}
      BY <2>1, Received
    <3> QED
      BY <2>1, <3>1, Received
  <2>3. BeforeLoop(h, afterAck(snd[h], Head(toSnd[h])))
    BY <1>0, <2>1, <2>2, BeforeLoopCases
  <2> QED
    BY <2>1, <2>2, <2>3, ContinueTypes
<1>4. CASE ReceiveLateGO(h)
  <2>1. /\ SndReceives(h, "DATA", {"GO"}) /\ snd[h].phase = "DATA"
        /\ Continue(h, [snd[h] EXCEPT !.misled = TRUE])
    BY <1>4 DEF ReceiveLateGO, SndReceives
  <2>2. BeforeLoop(h, [snd[h] EXCEPT !.misled = TRUE])
    BY <1>0, <2>1, BeforeLoopCases
  <2>3. /\ Only(h, toSnd, toSnd') /\ toSnd'[h] \in Seq(AnswersTo(h))
        /\ rcv' = rcv /\ files' = files /\ Counters' /\ ConnectionTypes'
    BY <2>1, Received
  <2> QED
    BY <2>1, <2>2, <2>3, ContinueTypes
<1>5. CASE ReceiveFINACK(h)
  <2>1. SndReceives(h, "DATA", {"FINACK"})
    BY <1>5 DEF ReceiveFINACK
  <2>2. /\ Only(h, toSnd, toSnd') /\ toSnd'[h] \in Seq(AnswersTo(h))
        /\ rcv' = rcv /\ files' = files /\ Counters' /\ ConnectionTypes' /\ Only(h, files, files')
    BY <2>1, Received
  <2>3. CASE /\ snd' = [snd EXCEPT ![h] = [sender EXCEPT !.phase = "EXIT",
                                                        !.misled = snd[h].misled]]
             /\ UNCHANGED toRcv
    <3>1. Only(h, snd, snd') /\ snd'[h] = [sender EXCEPT !.phase = "EXIT", !.misled = snd[h].misled]
      BY <2>3, OnlyAt DEF TypeInv, Functions
    <3>2. SenderOK(h, snd'[h])
      <4>1. snd[h].misled \in BOOLEAN
        BY <1>0, SenderTypes
      <4> QED
        BY <3>1, <4>1, FreshSender
    <3>3. Only(h, toRcv, toRcv')
      BY <2>3, Unchanged DEF TypeInv
    <3>4. Changed(h)
      BY <2>2, <3>1, <3>3 DEF Changed
    <3> QED
      BY <2>2, <2>3, <3>2, <3>4 DEF TypesAfter, HostTypes, TypeInv
  <2>4. CASE Pings(h)
    BY <2>2, <2>4, PingTypes
  <2> QED
    BY <1>5, <2>3, <2>4 DEF ReceiveFINACK
<1>6. CASE DropAtGone(h)
  <2>1. PICK phase : SndReceives(h, phase, {"GO", "FINACK", "ACK"})
    BY <1>6 DEF DropAtGone
  <2>2. /\ Only(h, toSnd, toSnd') /\ toSnd'[h] \in Seq(AnswersTo(h))
        /\ rcv' = rcv /\ files' = files /\ Counters' /\ ConnectionTypes' /\ Only(h, files, files')
    BY <2>1, Received
  <2>3. UNCHANGED <<snd, toRcv>> /\ Only(h, snd, snd') /\ Only(h, toRcv, toRcv')
    BY <1>6, Unchanged DEF DropAtGone, TypeInv
  <2>4. Changed(h)
    BY <2>2, <2>3 DEF Changed
  <2> QED
    BY <2>2, <2>3, <2>4 DEF TypesAfter, HostTypes, TypeInv
<1> QED
  BY <1>1, <1>2, <1>3, <1>4, <1>5, <1>6 DEF SenderStep

LEMMA SenderTimeoutTypes ==
    ASSUME TypeInv, NEW h \in Hosts, SenderTimeout(h)
    PROVE  TypesAfter(h)
<1>0. SenderOK(h, snd[h]) /\ snd[h] \in Senders
  BY DEF TypeInv, HostTypes, SenderOK, Reads
<1>1. TimerFires(h) /\ UNCHANGED <<rcv, files, toSnd, losses, kills>>
  BY DEF SenderTimeout, SynTimeout, FinTimeout, DataTimeout
<1>2. Counters'
  BY <1>1 DEF TypeInv, Counters, TimerFires
<1>3. ConnectionTypes' /\ Only(h, files, files') /\ rcv' = rcv /\ files' = files
  BY <1>1, ReceiverKept
<1>4. Only(h, toSnd, toSnd') /\ toSnd'[h] \in Seq(AnswersTo(h))
  BY <1>1, Unchanged DEF TypeInv, HostTypes
<1>5. CASE SynTimeout(h)
  BY <1>2, <1>3, <1>4, <1>5, PingTypes DEF SynTimeout
<1>6. CASE FinTimeout(h)
  <2>1. /\ snd' = [snd EXCEPT ![h] = [snd[h] EXCEPT !.hasnacks = FALSE]]
        /\ toRcv' = [toRcv EXCEPT ![h] = Put(@, <<FIN>>)] /\ snd[h].phase = "DATA"
    BY <1>6 DEF FinTimeout
  <2>2. Only(h, snd, snd') /\ snd'[h] = [snd[h] EXCEPT !.hasnacks = FALSE]
    BY <2>1, OnlyAt DEF TypeInv, Functions
  <2>3. SenderOK(h, snd'[h])
    <3>1. PICK u : u = snd'[h]
      OBVIOUS
    <3>2. /\ u \in Senders /\ u.phase = "DATA" /\ u.max_value = snd[h].max_value
          /\ u.start_seq = snd[h].start_seq /\ u.new_start = snd[h].new_start
          /\ u.begun = snd[h].begun
      <4>1. PICK s \in Senders : s = snd[h]
        BY <1>0
      <4>2. u = [s EXCEPT !.hasnacks = FALSE] /\ s.phase = "DATA"
        BY <2>1, <2>2, <3>1, <4>1
      <4> QED
        BY <4>1, <4>2 DEF Senders
    <3>3. SenderOK(h, u)
      BY <1>0, <2>1, <3>2 DEF SenderOK, Reads
    <3> QED
      BY <3>1, <3>3
  <2>4. FIN \in PacketsOf(h)
    BY DEF PacketsOf
  <2>5. Only(h, toRcv, toRcv') /\ toRcv'[h] \in Seq(PacketsOf(h))
    BY <2>1, <2>4, OnePacket
  <2>6. Changed(h)
    BY <1>3, <1>4, <2>2, <2>5 DEF Changed
  <2> QED
    BY <1>2, <1>3, <1>4, <2>3, <2>5, <2>6 DEF TypesAfter, HostTypes, TypeInv
<1>7. CASE DataTimeout(h)
  <2>1. snd[h].phase = "DATA" /\ Continue(h, doubted(snd[h]))
    BY <1>7 DEF DataTimeout
  <2>2. BeforeLoop(h, doubted(snd[h]))
    BY <1>0, <2>1, BeforeLoopCases
  <2> QED
    BY <1>2, <1>3, <1>4, <2>1, <2>2, ContinueTypes
<1> QED
  BY <1>5, <1>6, <1>7 DEF SenderTimeout

(* What Lose takes from a queue.                                           *)
DroppedFrom(p, q) ==
    \E n \in 1 .. Len(q) :
      /\ Len(p) = Len(q) - 1
      /\ \A i \in 1 .. Len(p) : p[i] = IF i < n THEN q[i] ELSE q[i + 1]

LEMMA Lost ==
    ASSUME TypeInv, NEW h \in Hosts, Lose(h)
    PROVE  /\ TypesAfter(h)
           /\ UNCHANGED <<rcv, files, snd, early, kills>>
           /\ \/ toSnd' = toSnd /\ DroppedFrom(toRcv'[h], toRcv[h])
              \/ toRcv' = toRcv /\ DroppedFrom(toSnd'[h], toSnd[h])
<1>1. UNCHANGED <<rcv, files, snd, early, kills>> /\ Counters'
  BY DEF Lose, TypeInv, Counters
<1>2. ConnectionTypes' /\ Only(h, files, files') /\ Only(h, snd, snd')
  BY <1>1, ReceiverKept, Unchanged DEF TypeInv
<1>3. CASE (\E i \in DOMAIN toRcv[h] : toRcv' = [toRcv EXCEPT ![h] = without(@, i)])
           /\ UNCHANGED toSnd
  <2>1. PICK i \in DOMAIN toRcv[h] : toRcv' = [toRcv EXCEPT ![h] = without(toRcv[h], i)]
    BY <1>3
  <2>2. PICK S, q, p : S = PacketsOf(h) /\ q = toRcv[h] /\ p = toRcv'[h]
    OBVIOUS
  <2>3. q \in Seq(S) /\ i \in DOMAIN q /\ p = without(q, i)
    BY <2>1, <2>2 DEF TypeInv, HostTypes, Functions
  <2>4. p \in Seq(S) /\ DroppedFrom(p, q)
    <3>1. /\ p \in Seq(S) /\ Len(p) = Len(q) - 1 /\ i \in 1 .. Len(q)
          /\ \A j \in 1 .. Len(p) : p[j] = IF j < i THEN q[j] ELSE q[j + 1]
      BY <2>3, Dropped
    <3> QED
      BY <3>1, Zenon DEF DroppedFrom
  <2>5. Only(h, toRcv, toRcv') /\ Only(h, toSnd, toSnd')
    BY <1>3, <2>1, OnlyAt, Unchanged DEF TypeInv
  <2>6. Changed(h)
    BY <1>1, <1>2, <2>5 DEF Changed
  <2> QED
    BY <1>1, <1>2, <1>3, <2>2, <2>4, <2>6 DEF TypesAfter, HostTypes, TypeInv
<1>4. CASE (\E i \in DOMAIN toSnd[h] : toSnd' = [toSnd EXCEPT ![h] = without(@, i)])
           /\ UNCHANGED toRcv
  <2>1. PICK i \in DOMAIN toSnd[h] : toSnd' = [toSnd EXCEPT ![h] = without(toSnd[h], i)]
    BY <1>4
  <2>2. PICK S, q, p : S = AnswersTo(h) /\ q = toSnd[h] /\ p = toSnd'[h]
    OBVIOUS
  <2>3. q \in Seq(S) /\ i \in DOMAIN q /\ p = without(q, i)
    BY <2>1, <2>2 DEF TypeInv, HostTypes, Functions
  <2>4. p \in Seq(S) /\ DroppedFrom(p, q)
    <3>1. /\ p \in Seq(S) /\ Len(p) = Len(q) - 1 /\ i \in 1 .. Len(q)
          /\ \A j \in 1 .. Len(p) : p[j] = IF j < i THEN q[j] ELSE q[j + 1]
      BY <2>3, Dropped
    <3> QED
      BY <3>1, Zenon DEF DroppedFrom
  <2>5. Only(h, toRcv, toRcv') /\ Only(h, toSnd, toSnd')
    BY <1>4, <2>1, OnlyAt, Unchanged DEF TypeInv
  <2>6. Changed(h)
    BY <1>1, <1>2, <2>5 DEF Changed
  <2> QED
    BY <1>1, <1>2, <1>4, <2>2, <2>4, <2>6 DEF TypesAfter, HostTypes, TypeInv
<1> QED
  BY <1>1, <1>3, <1>4 DEF Lose

LEMMA KillTypes ==
    ASSUME TypeInv, NEW h \in Hosts, Kill(h)
    PROVE  /\ TypesAfter(h)
           /\ toSnd'[h] = <<>> /\ snd'[h].phase = "GONE" /\ ~ snd'[h].misled
           /\ UNCHANGED <<rcv, files, toRcv, early>>
<1>1. /\ snd' = [snd EXCEPT ![h] = [sender EXCEPT !.phase = "GONE"]]
      /\ toSnd' = [toSnd EXCEPT ![h] = <<>>]
      /\ UNCHANGED <<rcv, files, toRcv, losses, early>> /\ Counters'
  BY DEF Kill, TypeInv, Counters
<1>2. ConnectionTypes' /\ Only(h, files, files') /\ Only(h, toRcv, toRcv')
  BY <1>1, ReceiverKept, Unchanged DEF TypeInv
<1>3. /\ Only(h, snd, snd') /\ Only(h, toSnd, toSnd')
      /\ snd'[h] = [sender EXCEPT !.phase = "GONE"] /\ toSnd'[h] = <<>>
  BY <1>1, OnlyAt DEF TypeInv, Functions
<1>4. SenderOK(h, snd'[h]) /\ snd'[h].phase = "GONE" /\ ~ snd'[h].misled
  <2>1. SenderOK(h, [sender EXCEPT !.phase = "GONE"])
    BY FreshSender
  <2>2. sender \in Senders /\ ~ sender.misled
    BY FreshSender
  <2>3. snd'[h].phase = "GONE" /\ ~ snd'[h].misled
    BY <1>3, <2>2 DEF Senders
  <2> QED
    BY <1>3, <2>1, <2>3
<1>5. Changed(h)
  BY <1>1, <1>2, <1>3 DEF Changed
<1>6. toSnd'[h] \in Seq(AnswersTo(h))
  BY <1>3, EmptySeq
<1> QED
  BY <1>1, <1>2, <1>3, <1>4, <1>5, <1>6 DEF TypesAfter, HostTypes, TypeInv

LEMMA RunAgainTypes ==
    ASSUME TypeInv, NEW h \in Hosts, RunAgain(h)
    PROVE  TypesAfter(h)
<1>1. Pings(h) /\ UNCHANGED <<rcv, files, toSnd, losses, early, kills>> /\ Counters'
  BY DEF RunAgain, TypeInv, Counters
<1>2. ConnectionTypes' /\ Only(h, files, files') /\ Only(h, toSnd, toSnd')
  BY <1>1, ReceiverKept, Unchanged DEF TypeInv
<1> QED
  BY <1>1, <1>2, PingTypes DEF TypeInv, HostTypes

(* Each step is one of a host.                                             *)
StepOf(h) ==
    \/ ReceiverStep(h) \/ SenderStep(h) \/ SenderTimeout(h) \/ Lose(h) \/ Kill(h) \/ RunAgain(h)
    \/ rcv.conn = h /\ ReceiverTimeout

LEMMA EveryStep ==
    ASSUME TypeInv, Next
    PROVE  \E h \in Hosts : StepOf(h)
<1>1. CASE ReceiverTimeout
  <2>1. rcv.conn \in Hosts
    BY <1>1 DEF ReceiverTimeout, TypeInv, ConnectionTypes, WindowOK, Receivers
  <2> QED
    BY <1>1, <2>1 DEF StepOf
<1>2. CASE \E h \in Hosts : ReceiverStep(h) \/ SenderStep(h) \/ SenderTimeout(h) \/ Lose(h)
                              \/ Kill(h) \/ RunAgain(h)
  BY <1>2 DEF StepOf
<1> QED
  BY <1>1, <1>2 DEF Next

LEMMA StepTypes ==
    ASSUME TypeInv, NEW h \in Hosts, StepOf(h)
    PROVE  TypesAfter(h)
<1>1. CASE ReceiverStep(h)
  BY <1>1, ReceiveFINTypes, ReceiveSYNTypes, ReceiveDATATypes, ReceiveStrayDATATypes,
     IgnorePacketTypes DEF ReceiverStep
<1>2. CASE SenderStep(h)
  BY <1>2, SenderStepTypes
<1>3. CASE SenderTimeout(h)
  BY <1>3, SenderTimeoutTypes
<1>4. CASE Lose(h)
  BY <1>4, Lost
<1>5. CASE Kill(h)
  BY <1>5, KillTypes
<1>6. CASE RunAgain(h)
  BY <1>6, RunAgainTypes
<1>7. CASE rcv.conn = h /\ ReceiverTimeout
  BY <1>7, ReceiverTimeoutTypes
<1> QED
  BY <1>1, <1>2, <1>3, <1>4, <1>5, <1>6, <1>7 DEF StepOf

LEMMA TypesInit == Init => TypeInv
<1> SUFFICES ASSUME Init
             PROVE  TypeInv
  OBVIOUS
<1>1. Functions /\ Counters
  BY DEF Init, Functions, Counters
<1>2. ASSUME NEW h \in Hosts
      PROVE  HostTypes(h)
  <2>1. /\ files[h] = <<>> /\ snd[h] = sender /\ toRcv[h] = <<SYN>> /\ toSnd[h] = <<>>
    BY DEF Init
  <2>2. SYN \in PacketsOf(h)
    BY DEF PacketsOf
  <2>3. SenderOK(h, sender)
    BY FreshSender
  <2>5. <<SYN>> \in Seq(PacketsOf(h))
    BY <2>2
  <2> QED
    BY <2>1, <2>3, <2>5, EmptySeq, LengthOfFile DEF HostTypes
<1>3. ConnectionTypes
  <2>1. rcv = idle /\ rcv.conn = NoHost /\ rcv.state = "IDLE" /\ rcv.window_min_seq = 0
    BY DEF Init, idle
  <2> QED
    BY <2>1, IdleOK DEF ConnectionTypes, Limit, Fresh
<1> QED
  BY <1>1, <1>2, <1>3 DEF TypeInv

LEMMA TypesNext == TypeInv /\ [Next]_vars => TypeInv'
<1> SUFFICES ASSUME TypeInv, [Next]_vars
             PROVE  TypeInv'
  OBVIOUS
<1>1. CASE Next
  <2>1. PICK h \in Hosts : StepOf(h)
    BY <1>1, EveryStep
  <2> QED
    BY <2>1, StepTypes, TypesKept DEF TypesAfter
<1>2. CASE UNCHANGED vars
  BY <1>2 DEF vars, TypeInv, Functions, HostTypes, ConnectionTypes, Counters, Fresh, Limit
<1> QED
  BY <1>1, <1>2

(* The types hold in every behaviour, with early timers and kills too.     *)
THEOREM TypesAlways == Spec => []TypeInv
BY TypesInit, TypesNext, PTL DEF Spec

(* The packets, files, windows and senders are what their declarations     *)
(* say, and there is a connection exactly when rcv.c is not IDLE.          *)
THEOREM TypeCorrect == Spec => []TypeOK
BY TypesAlways, TypeInvImplies, PTL

-----------------------------------------------------------------------------
(* A transfer, as long as no timer fires before an answer on its way.      *)

Served(h) == rcv.conn = h

(* A SYN that is left over from before a GO, or from before other packets, *)
(* finds the connection it asked for: no FIN comes before it.              *)
SynsAreLate(h) ==
    \A i \in 1 .. Len(toRcv[h]) :
      /\ toRcv[h][i].type = "SYN"
      /\ \/ snd[h].phase \in {"DATA", "EXIT"}
         \/ \E j \in i + 1 .. Len(toRcv[h]) : toRcv[h][j].type # "SYN"
      => Served(h) /\ \A j \in 1 .. i - 1 : toRcv[h][j].type # "FIN"

(* A GO is the last answer, to a sender that still asks for it, and the    *)
(* receiver waits for the first packet.                                    *)
GoIsLast(h) ==
    \A i \in 1 .. Len(toSnd[h]) :
      toSnd[h][i].type = "GO" =>
        /\ snd[h].phase \notin {"DATA", "EXIT"}
        /\ Served(h) /\ rcv.state = "WAITING_DATA" /\ i = Len(toSnd[h])
        /\ \A j \in 1 .. Len(toRcv[h]) : toRcv[h][j].type = "SYN"

(* A packet that lost its bytes was written before.                        *)
DataIsGood(h) ==
    \A i \in 1 .. Len(toRcv[h]) :
      toRcv[h][i].type = "DATA" =>
        toRcv[h][i].data = toRcv[h][i].seq_num \/ toRcv[h][i].seq_num < Len(files[h])

(* An answer tells no more than the file holds and the sender has sent.    *)
AnswersAreTrue(h) ==
    \A i \in 1 .. Len(toSnd[h]) :
      /\ toSnd[h][i].type = "ACK" =>
           firstMissing(toSnd[h][i]) <= Len(files[h]) /\ toSnd[h][i].ack < snd[h].max_value
      /\ toSnd[h][i].type = "FINACK" => ~ Served(h)

PacketsAreSent(h) ==
    /\ \A i \in 1 .. Len(toRcv[h]) :
         /\ toRcv[h][i].type = "FIN" => snd[h].sent_fin
         /\ toRcv[h][i].type = "DATA" => toRcv[h][i].seq_num < snd[h].max_value
    /\ Served(h) => \A i \in Slots :
         rcv.window_buffer[i].received => rcv.window_buffer[i].seq_num < snd[h].max_value

(* What the sender s knows of the file of length n: the packets before its *)
(* window are written, and a slot without bytes is only kept by the last.  *)
Knows(h, s, n) ==
    /\ s.start_seq <= n /\ n <= s.max_value
    /\ s.sent_fin => n = FileLen[h] /\ s.max_value = FileLen[h]
    /\ \A i \in s.empty : /\ s.max_value = FileLen[h] /\ i = FileLen[h] % WINDOW_SIZE
                          /\ FileLen[h] < n + WINDOW_SIZE

FileIsGood(h) == \A k \in 1 .. Len(files[h]) : files[h][k] = k - 1

Session(h) ==
    /\ SynsAreLate(h) /\ GoIsLast(h) /\ DataIsGood(h) /\ FileIsGood(h)
    /\ snd[h].phase = "DATA" =>
         AnswersAreTrue(h) /\ PacketsAreSent(h) /\ Knows(h, snd[h], Len(files[h]))
    /\ snd[h].phase = "EXIT" => Len(files[h]) = FileLen[h] /\ ~ Served(h)
    /\ ~ snd[h].misled

WindowIsGood ==
    /\ \A i \in Slots : rcv.window_buffer[i].received =>
                          rcv.window_buffer[i].data = rcv.window_buffer[i].seq_num
    /\ rcv.state = "WAIT_RESPONSE" => ~ has(rcv, rcv.window_min_seq)

TransferInv == early = 0 => WindowIsGood /\ \A h \in Hosts : Session(h)

LEMMA Implied ==
    ASSUME TypeInv, \A h \in Hosts : FileIsGood(h),
           \A h \in Hosts : snd[h].phase = "DATA" /\ ~ snd[h].misled =>
             /\ snd[h].start_seq <= Len(files[h])
             /\ snd[h].sent_fin => Len(files[h]) = snd[h].max_value
    PROVE  FileIsPrefix /\ GivenUpIsHeld
<1>1. \A h \in Hosts : FileIsGood(h) /\ HostTypes(h)
  BY DEF TypeInv
<1>2. FileIsPrefix
  <2>1. ASSUME NEW h \in Hosts, NEW k \in DOMAIN files[h]
        PROVE  files[h][k] = k - 1
    <3>1. files[h] \in Seq(Data) /\ \A i \in 1 .. Len(files[h]) : files[h][i] = i - 1
      BY <1>1 DEF HostTypes, FileIsGood
    <3> QED
      BY <3>1, LenProperties
  <2> QED
    BY <2>1 DEF FileIsPrefix, TypeInv, ConnectionTypes
<1>3. ASSUME NEW h \in Hosts, snd[h].phase = "DATA", ~ snd[h].misled, NEW k \in GivenUp(snd[h])
      PROVE  k \in held(h)
  <2>1. PICK n, mx, st \in Nat : n = Len(files[h]) /\ mx = snd[h].max_value /\ st = snd[h].start_seq
    BY <1>1, LenProperties, SenderTypes DEF HostTypes, SenderOK, Reads
  <2>2. /\ st <= n /\ mx - st <= WINDOW_SIZE
        /\ snd[h].sent_fin => n = mx
    BY <1>1, <1>3, <2>1 DEF HostTypes, SenderOK, Reads
  <2>3. k \in 0 .. n - 1
    BY <2>1, <2>2 DEF GivenUp
  <2>4. DOMAIN files[h] = 1 .. n
    BY <1>1, <2>1, LenProperties DEF HostTypes
  <2>5. k + 1 \in DOMAIN files[h] /\ k = (k + 1) - 1
    BY <2>3, <2>4
  <2> QED
    BY <2>5 DEF held
<1>4. GivenUpIsHeld
  BY <1>3 DEF GivenUpIsHeld
<1> QED
  BY <1>2, <1>4

(* A part of a queue, in its order.                                        *)
PartOf(p, q) ==
    \E at \in [1 .. Len(p) -> 1 .. Len(q)] :
      /\ \A i \in 1 .. Len(p) : p[i] = q[at[i]]
      /\ \A i, j \in 1 .. Len(p) : i < j => at[i] < at[j]

LEMMA WholeQueue ==
    ASSUME NEW q, Len(q) \in Nat
    PROVE  PartOf(q, q)
<1>1. PICK at : at = [i \in 1 .. Len(q) |-> i]
  OBVIOUS
<1>2. at \in [1 .. Len(q) -> 1 .. Len(q)] /\ \A i \in 1 .. Len(q) : at[i] = i
  BY <1>1
<1> QED
  BY <1>2 DEF PartOf

LEMMA DroppedIsPart ==
    ASSUME NEW p, NEW q, Len(q) \in Nat, DroppedFrom(p, q)
    PROVE  PartOf(p, q)
<1>1. PICK n \in 1 .. Len(q) :
        /\ Len(p) = Len(q) - 1
        /\ \A i \in 1 .. Len(p) : p[i] = IF i < n THEN q[i] ELSE q[i + 1]
  BY DEF DroppedFrom
<1>2. PICK at : at = [i \in 1 .. Len(p) |-> IF i < n THEN i ELSE i + 1]
  OBVIOUS
<1>3. \A i \in 1 .. Len(p) : at[i] \in 1 .. Len(q) /\ at[i] = IF i < n THEN i ELSE i + 1
  BY <1>1, <1>2
<1>4. at \in [1 .. Len(p) -> 1 .. Len(q)]
  BY <1>2, <1>3
<1>5. \A i \in 1 .. Len(p) : p[i] = q[at[i]]
  BY <1>1, <1>3
<1>6. \A i, j \in 1 .. Len(p) : i < j => at[i] < at[j]
  BY <1>3
<1> QED
  BY <1>4, <1>5, <1>6 DEF PartOf

LEMMA TailIsPart ==
    ASSUME NEW p, NEW q, Len(q) \in Nat, Len(q) >= 1, Len(p) = Len(q) - 1,
           \A i \in 1 .. Len(p) : p[i] = q[i + 1]
    PROVE  PartOf(p, q)
<1>1. 1 \in 1 .. Len(q) /\ \A i \in 1 .. Len(p) : p[i] = IF i < 1 THEN q[i] ELSE q[i + 1]
  OBVIOUS
<1>2. DroppedFrom(p, q)
  BY <1>1 DEF DroppedFrom
<1> QED
  BY <1>2, DroppedIsPart

LEMMA OthersKept ==
    ASSUME TypeInv, NEW h \in Hosts, Changed(h), NEW g \in Hosts, g # h, Session(g)
    PROVE  Session(g)'
<1>1. /\ files'[g] = files[g] /\ snd'[g] = snd[g]
      /\ toRcv'[g] = toRcv[g] /\ toSnd'[g] = toSnd[g]
  BY Frame DEF TypeInv
<1>2. CASE rcv' = rcv
  BY <1>1, <1>2 DEF Session, SynsAreLate, GoIsLast, DataIsGood, FileIsGood, AnswersAreTrue,
     PacketsAreSent, Knows, Served
<1>3. CASE rcv.conn \in {h, NoHost} /\ rcv'.conn \in {h, NoHost}
  <2>1. ~ Served(g) /\ ~ Served(g)'
    BY <1>3 DEF Served
  <2> QED
    BY <1>1, <2>1 DEF Session, SynsAreLate, GoIsLast, DataIsGood, FileIsGood, AnswersAreTrue,
       PacketsAreSent, Knows
<1> QED
  BY <1>2, <1>3 DEF Changed

LEMMA SessionTypes ==
    ASSUME TypeInv, NEW h \in Hosts
    PROVE  /\ Len(files[h]) \in Nat /\ Len(toRcv[h]) \in Nat /\ Len(toSnd[h]) \in Nat
           /\ Len(files[h]) <= FileLen[h] /\ FileLen[h] \in Nat
           /\ snd[h] \in Senders /\ snd[h].max_value \in Nat /\ snd[h].start_seq \in Nat
           /\ snd[h].new_start \in Nat
           /\ snd[h].max_value <= FileLen[h] /\ snd[h].start_seq <= snd[h].max_value
           /\ snd[h].max_value - snd[h].start_seq <= WINDOW_SIZE
           /\ \A i \in 1 .. Len(toRcv[h]) : toRcv[h][i] \in PacketsOf(h)
           /\ \A i \in 1 .. Len(toSnd[h]) : toSnd[h][i] \in AnswersTo(h)
<1>1. HostTypes(h)
  BY DEF TypeInv
<1>2. snd[h] \in Senders
  BY <1>1 DEF HostTypes, SenderOK, Reads
<1>3. /\ \A i \in 1 .. Len(toRcv[h]) : toRcv[h][i] \in PacketsOf(h)
      /\ \A i \in 1 .. Len(toSnd[h]) : toSnd[h][i] \in AnswersTo(h)
  BY <1>1, ElementOfSeq DEF HostTypes
<1> QED
  BY <1>1, <1>2, <1>3, LenProperties, SenderTypes, LengthOfFile DEF HostTypes, SenderOK, Reads

(* Packets and answers may be lost, or taken without an effect.            *)
LEMMA FewerPackets ==
    ASSUME TypeInv, NEW h \in Hosts, Session(h), rcv' = rcv, files' = files, snd'[h] = snd[h],
           PartOf(toRcv'[h], toRcv[h]), PartOf(toSnd'[h], toSnd[h]),
           Len(toRcv'[h]) \in Nat, Len(toSnd'[h]) \in Nat
    PROVE  Session(h)'
<1>0. /\ Len(files[h]) \in Nat /\ Len(toRcv[h]) \in Nat /\ Len(toSnd[h]) \in Nat
  BY SessionTypes
<1>c. PICK p, q : p = toRcv'[h] /\ q = toRcv[h]
  OBVIOUS
<1>cc. PartOf(p, q)
  BY <1>c
<1>1. PICK at \in [1 .. Len(p) -> 1 .. Len(q)] :
        /\ p = toRcv'[h] /\ q = toRcv[h]
        /\ \A i \in 1 .. Len(p) : p[i] = q[at[i]]
        /\ \A i, j \in 1 .. Len(p) : i < j => at[i] < at[j]
  BY <1>c, <1>cc DEF PartOf
<1>d. PICK b, a : b = toSnd'[h] /\ a = toSnd[h]
  OBVIOUS
<1>dd. PartOf(b, a)
  BY <1>d
<1>2. PICK of \in [1 .. Len(b) -> 1 .. Len(a)] :
        /\ b = toSnd'[h] /\ a = toSnd[h]
        /\ \A i \in 1 .. Len(b) : b[i] = a[of[i]]
        /\ \A i, j \in 1 .. Len(b) : i < j => of[i] < of[j]
  BY <1>d, <1>dd DEF PartOf
<1>e. \A i \in 1 .. Len(p) : \E k \in 1 .. Len(q) : p[i] = q[k]
  BY <1>1
<1>f. \A i \in 1 .. Len(b) : \E k \in 1 .. Len(a) : b[i] = a[k]
  BY <1>2
<1>3. SynsAreLate(h)'
  <2> SUFFICES ASSUME NEW i \in 1 .. Len(p), p[i].type = "SYN",
                      snd[h].phase \in {"DATA", "EXIT"}
                        \/ \E j \in i + 1 .. Len(p) : p[j].type # "SYN"
               PROVE  Served(h) /\ \A j \in 1 .. i - 1 : p[j].type # "FIN"
    BY <1>1 DEF SynsAreLate, Served
  <2>1. at[i] \in 1 .. Len(q) /\ q[at[i]].type = "SYN"
    BY <1>1
  <2>2. ASSUME NEW j \in i + 1 .. Len(p), p[j].type # "SYN"
        PROVE  \E k \in at[i] + 1 .. Len(q) : q[k].type # "SYN"
    <3>1. j \in 1 .. Len(p) /\ i < j
      BY <1>1
    <3>2. at[j] \in 1 .. Len(q) /\ at[i] < at[j] /\ q[at[j]].type # "SYN"
      BY <1>1, <2>2, <3>1
    <3>3. at[j] \in at[i] + 1 .. Len(q)
      BY <1>0, <1>1, <2>1, <3>2
    <3> QED
      BY <3>2, <3>3
  <2>3. Served(h) /\ \A j \in 1 .. at[i] - 1 : q[j].type # "FIN"
    BY <1>1, <2>1, <2>2 DEF Session, SynsAreLate
  <2>4. ASSUME NEW j \in 1 .. i - 1
        PROVE  p[j].type # "FIN"
    <3>1. j \in 1 .. Len(p) /\ j < i
      BY <1>1
    <3>2. at[j] \in 1 .. Len(q) /\ at[j] < at[i] /\ p[j] = q[at[j]]
      BY <1>1, <3>1
    <3>3. at[j] \in 1 .. at[i] - 1
      BY <1>0, <1>1, <2>1, <3>2
    <3> QED
      BY <2>3, <3>2, <3>3
  <2> QED
    BY <2>3, <2>4
<1>4. GoIsLast(h)'
  <2> SUFFICES ASSUME NEW i \in 1 .. Len(b), b[i].type = "GO"
               PROVE  /\ snd[h].phase \notin {"DATA", "EXIT"}
                      /\ Served(h) /\ rcv.state = "WAITING_DATA" /\ i = Len(b)
                      /\ \A j \in 1 .. Len(p) : p[j].type = "SYN"
    BY <1>1, <1>2 DEF GoIsLast, Served
  <2>1. of[i] \in 1 .. Len(a) /\ a[of[i]].type = "GO"
    BY <1>2
  <2>2. /\ snd[h].phase \notin {"DATA", "EXIT"}
        /\ Served(h) /\ rcv.state = "WAITING_DATA" /\ of[i] = Len(a)
        /\ \A j \in 1 .. Len(q) : q[j].type = "SYN"
    BY <1>1, <1>2, <2>1 DEF Session, GoIsLast
  <2>3. i = Len(b)
    <3>1. SUFFICES ASSUME i # Len(b)
                   PROVE  FALSE
      OBVIOUS
    <3>2. Len(b) \in 1 .. Len(b) /\ i < Len(b)
      BY <1>2, <3>1
    <3>3. of[i] < of[Len(b)] /\ of[Len(b)] \in 1 .. Len(a)
      BY <1>2, <3>2
    <3> QED
      BY <1>0, <1>2, <2>2, <3>3
  <2>4. \A j \in 1 .. Len(p) : p[j].type = "SYN"
    BY <1>e, <2>2, Zenon
  <2> QED
    BY <2>2, <2>3, <2>4
<1>5. DataIsGood(h)' /\ FileIsGood(h)'
  <2>1. \A i \in 1 .. Len(p) : p[i].type = "DATA" =>
          p[i].data = p[i].seq_num \/ p[i].seq_num < Len(files[h])
    <3>1. \A k \in 1 .. Len(q) : q[k].type = "DATA" =>
            q[k].data = q[k].seq_num \/ q[k].seq_num < Len(files[h])
      BY <1>1 DEF Session, DataIsGood
    <3> QED
      BY <1>e, <3>1, Zenon
  <2> QED
    BY <1>1, <2>1 DEF Session, DataIsGood, FileIsGood
<1>6. AnswersAreTrue(h) => AnswersAreTrue(h)'
  <2> SUFFICES ASSUME AnswersAreTrue(h)
               PROVE  AnswersAreTrue(h)'
    OBVIOUS
  <2>1. \A i \in 1 .. Len(b) :
          /\ b[i].type = "ACK" =>
               firstMissing(b[i]) <= Len(files[h]) /\ b[i].ack < snd[h].max_value
          /\ b[i].type = "FINACK" => ~ Served(h)
    <3>1. \A k \in 1 .. Len(a) :
            /\ a[k].type = "ACK" =>
                 firstMissing(a[k]) <= Len(files[h]) /\ a[k].ack < snd[h].max_value
            /\ a[k].type = "FINACK" => ~ Served(h)
      BY <1>2 DEF AnswersAreTrue
    <3> QED
      BY <1>f, <3>1, Zenon
  <2> QED
    BY <1>2, <2>1 DEF AnswersAreTrue, Served
<1>7. PacketsAreSent(h) => PacketsAreSent(h)'
  <2> SUFFICES ASSUME PacketsAreSent(h)
               PROVE  PacketsAreSent(h)'
    OBVIOUS
  <2>1. \A i \in 1 .. Len(p) :
          /\ p[i].type = "FIN" => snd[h].sent_fin
          /\ p[i].type = "DATA" => p[i].seq_num < snd[h].max_value
    <3>1. \A k \in 1 .. Len(q) :
            /\ q[k].type = "FIN" => snd[h].sent_fin
            /\ q[k].type = "DATA" => q[k].seq_num < snd[h].max_value
      BY <1>1 DEF PacketsAreSent
    <3> QED
      BY <1>e, <3>1, Zenon
  <2> QED
    BY <1>1, <2>1 DEF PacketsAreSent, Served
<1> QED
  BY <1>3, <1>4, <1>5, <1>6, <1>7 DEF Session, Served

(* Every answer of b is one of a.                                          *)
LEMMA PartElement ==
    ASSUME NEW p, NEW q, PartOf(p, q)
    PROVE  \A i \in 1 .. Len(p) : \E k \in 1 .. Len(q) : p[i] = q[k]
<1>1. PICK at \in [1 .. Len(p) -> 1 .. Len(q)] : \A i \in 1 .. Len(p) : p[i] = q[at[i]]
  BY DEF PartOf
<1> QED
  BY <1>1

LEMMA PartLast ==
    ASSUME NEW p, NEW q, PartOf(p, q), Len(p) \in Nat, Len(q) \in Nat
    PROVE  \A i \in 1 .. Len(p) : (\A k \in 1 .. Len(q) : p[i] = q[k] => k = Len(q)) => i = Len(p)
<1>1. PICK at \in [1 .. Len(p) -> 1 .. Len(q)] :
        /\ \A i \in 1 .. Len(p) : p[i] = q[at[i]]
        /\ \A i, j \in 1 .. Len(p) : i < j => at[i] < at[j]
  BY DEF PartOf
<1> SUFFICES ASSUME NEW i \in 1 .. Len(p), \A k \in 1 .. Len(q) : p[i] = q[k] => k = Len(q),
                    i # Len(p)
             PROVE  FALSE
  OBVIOUS
<1>2. at[i] = Len(q)
  BY <1>1
<1>3. Len(p) \in 1 .. Len(p) /\ i < Len(p)
  OBVIOUS
<1>4. at[i] < at[Len(p)] /\ at[Len(p)] \in 1 .. Len(q)
  BY <1>1, <1>3
<1> QED
  BY <1>2, <1>4

(* A sender that begins, or begins again.                                  *)
LEMMA PingSession ==
    ASSUME TypeInv, NEW h \in Hosts, Session(h), Pings(h), rcv' = rcv, files' = files,
           PartOf(toSnd'[h], toSnd[h]), Len(toSnd'[h]) \in Nat
    PROVE  Session(h)'
<1>0. /\ Len(files[h]) \in Nat /\ Len(toRcv[h]) \in Nat /\ Len(toSnd[h]) \in Nat
  BY SessionTypes
<1>1. snd'[h].phase = "SYN" /\ ~ snd'[h].misled /\ Appended(toRcv'[h], toRcv[h], SYN)
  BY Pinged, FreshSender
<1>2. PICK p, q, a, b : p = toRcv'[h] /\ q = toRcv[h] /\ b = toSnd'[h] /\ a = toSnd[h]
  OBVIOUS
<1>3. /\ Len(q) \in Nat /\ Len(p) \in Len(q) .. Len(q) + 1
      /\ \A i \in 1 .. Len(q) : p[i] = q[i]
      /\ \A i \in Len(q) + 1 .. Len(p) : p[i] = SYN
  BY <1>0, <1>1, <1>2 DEF Appended
<1>4. SYN.type = "SYN"
  BY DEF SYN
<1>5. \A i \in 1 .. Len(p) : i \in 1 .. Len(q) \/ (i = Len(q) + 1 /\ p[i].type = "SYN")
  BY <1>3, <1>4
<1>6. SynsAreLate(h)'
  <2> SUFFICES ASSUME NEW i \in 1 .. Len(p), p[i].type = "SYN",
                      \E j \in i + 1 .. Len(p) : p[j].type # "SYN"
               PROVE  Served(h) /\ \A j \in 1 .. i - 1 : p[j].type # "FIN"
    BY <1>1, <1>2 DEF SynsAreLate, Served
  <2>1. PICK j \in i + 1 .. Len(p) : p[j].type # "SYN"
    OBVIOUS
  <2>2. j \in 1 .. Len(q) /\ i \in 1 .. Len(q) /\ j \in i + 1 .. Len(q)
    BY <1>3, <1>5, <2>1
  <2>3. q[i].type = "SYN" /\ q[j].type # "SYN"
    BY <1>3, <2>1, <2>2
  <2>4. Served(h) /\ \A k \in 1 .. i - 1 : q[k].type # "FIN"
    BY <1>2, <2>2, <2>3 DEF Session, SynsAreLate
  <2>5. \A k \in 1 .. i - 1 : p[k] = q[k]
    BY <1>3, <2>2
  <2> QED
    BY <2>4, <2>5
<1>7. GoIsLast(h)'
  <2> SUFFICES ASSUME NEW i \in 1 .. Len(b), b[i].type = "GO"
               PROVE  /\ Served(h) /\ rcv.state = "WAITING_DATA" /\ i = Len(b)
                      /\ \A j \in 1 .. Len(p) : p[j].type = "SYN"
    BY <1>1, <1>2 DEF GoIsLast, Served
  <2>1. PICK k \in 1 .. Len(a) : b[i] = a[k]
    BY <1>2, PartElement
  <2>2. /\ Served(h) /\ rcv.state = "WAITING_DATA"
        /\ \A j \in 1 .. Len(q) : q[j].type = "SYN"
        /\ \A l \in 1 .. Len(a) : a[l].type = "GO" => l = Len(a)
    BY <1>2, <2>1 DEF Session, GoIsLast
  <2>3. \A l \in 1 .. Len(a) : b[i] = a[l] => l = Len(a)
    BY <2>2
  <2>4. i = Len(b)
    <3>1. PartOf(b, a) /\ Len(b) \in Nat /\ Len(a) \in Nat
      BY <1>0, <1>2
    <3> QED
      BY <3>1, <2>3, PartLast
  <2>5. \A j \in 1 .. Len(p) : p[j].type = "SYN"
    BY <1>3, <1>5, <2>2
  <2> QED
    BY <2>2, <2>4, <2>5
<1>8. DataIsGood(h)'
  <2> SUFFICES ASSUME NEW i \in 1 .. Len(p), p[i].type = "DATA"
               PROVE  p[i].data = p[i].seq_num \/ p[i].seq_num < Len(files[h])
    BY <1>2 DEF DataIsGood
  <2>1. i \in 1 .. Len(q) /\ p[i] = q[i]
    BY <1>3, <1>5
  <2> QED
    BY <1>2, <2>1 DEF Session, DataIsGood
<1>9. FileIsGood(h)'
  BY DEF Session, FileIsGood
<1> QED
  BY <1>1, <1>6, <1>7, <1>8, <1>9 DEF Session

(* The sender before the loop: it reads only what makes room, when all was *)
(* acknowledged or resent, or for the first time.                          *)
Ready(h, s, n) ==
    /\ BeforeLoop(h, s) /\ Knows(h, s, n)
    /\ mayRead(s) =>
         \/ s.new_start <= n /\ (~ s.hasnacks => s.new_start = s.max_value)
         \/ ~ s.begun /\ s.new_start = WINDOW_SIZE

LEMMA KnowsAfterLoop ==
    ASSUME NEW h \in Hosts, NEW n \in Nat, n <= FileLen[h], NEW s, Ready(h, s, n),
           NEW u, u = looped(h, s)
    PROVE  /\ Knows(h, u, n) /\ u \in Senders
           /\ s.max_value \in Nat /\ u.max_value \in Nat
           /\ s.max_value <= u.max_value /\ u.max_value <= s.max_value + WINDOW_SIZE
           /\ s.sent_fin => u.sent_fin
           /\ u.misled = s.misled
<1>0. BeforeLoop(h, s) /\ Knows(h, s, n) /\ s \in Senders
  BY DEF Ready, BeforeLoop, Reads
<1>1. PICK st, ns, mx, L \in Nat :
        st = s.start_seq /\ ns = s.new_start /\ mx = s.max_value /\ L = FileLen[h]
  BY <1>0, SenderTypes, LengthOfFile
<1>2. CASE ~ mayRead(s)
  <2>1. u = s
    BY <1>2 DEF looped
  <2> QED
    BY <2>1, <1>0, <1>1
<1>3. CASE mayRead(s)
  <2>1. u = readIn(h, s)
    BY <1>3 DEF looped
  <2>2. PICK j : j = toRead(h, s)
    OBVIOUS
  <2>3. /\ j \in Nat /\ j <= ns - st /\ mx + j <= L
        /\ j < ns - st => mx + j = L
        /\ u \in Senders /\ u.max_value = mx + j
        /\ u.start_seq = IF s.begun /\ j > 0 THEN ns ELSE st
        /\ u.sent_fin => j = 0 /\ ~ s.hasnacks
        /\ u.misled = s.misled
        /\ \A i \in u.empty : i \in s.empty \/ (j < ns - st /\ i = L % WINDOW_SIZE)
    <3>1. /\ j \in Nat /\ j <= s.new_start - s.start_seq
          /\ s.max_value + j <= FileLen[h]
          /\ j < s.new_start - s.start_seq => s.max_value + j = FileLen[h]
          /\ u \in Senders /\ u.max_value = s.max_value + j
          /\ u.start_seq = IF s.begun /\ j > 0 THEN s.new_start ELSE s.start_seq
          /\ u.misled = s.misled
          /\ \A i \in u.empty :
               \/ i \in s.empty
               \/ j < s.new_start - s.start_seq /\ i = FileLen[h] % WINDOW_SIZE
      BY <1>0, <1>3, <2>1, <2>2, ReadIn
    <3>2. u.sent_fin = (j = 0 /\ ~ s.hasnacks)
      BY <1>0, <1>3, <2>1, <2>2, ReadIn
    <3>3. u.sent_fin => j = 0 /\ ~ s.hasnacks
      BY <3>2
    <3> QED
      BY <1>1, <3>1, <3>3
  <2>4. /\ st < ns /\ ~ s.sent_fin /\ mx - st <= WINDOW_SIZE /\ st <= n /\ n <= mx
        /\ \A i \in s.empty : mx = L /\ i = L % WINDOW_SIZE /\ L < n + WINDOW_SIZE
        /\ ~ s.begun => st = 0 /\ mx = 0
        /\ \/ ns <= n /\ (~ s.hasnacks => ns = mx)
           \/ ~ s.begun /\ ns = WINDOW_SIZE
    BY <1>0, <1>1, <1>3 DEF Ready, mayRead, BeforeLoop, Reads, Knows
  <2>5. /\ u.start_seq <= n /\ j <= WINDOW_SIZE
        /\ j < ns - st => L < n + WINDOW_SIZE
        /\ j = 0 /\ ~ s.hasnacks => n = L /\ mx = L
    <3>1. CASE ns <= n /\ (~ s.hasnacks => ns = mx)
      <4>1. u.start_seq \in {ns, st}
        BY <2>3
      <4> QED
        BY <3>1, <4>1, <2>3, <2>4
    <3>2. CASE ~ s.begun /\ ns = WINDOW_SIZE
      <4>1. st = 0 /\ mx = 0 /\ u.start_seq = st
        BY <3>2, <2>3, <2>4
      <4> QED
        BY <3>2, <4>1, <2>3, <2>4
    <3> QED
      BY <3>1, <3>2, <2>4
  <2>6. \A i \in u.empty : u.max_value = L /\ i = L % WINDOW_SIZE /\ L < n + WINDOW_SIZE
    <3> TAKE i \in u.empty
    <3>1. CASE i \in s.empty
      BY <3>1, <2>3, <2>4
    <3>2. CASE j < ns - st /\ i = L % WINDOW_SIZE
      BY <3>2, <2>3, <2>5
    <3> QED
      BY <3>1, <3>2, <2>3
  <2>7. u.sent_fin => n = L /\ u.max_value = L
    BY <2>3, <2>5
  <2>8. n <= u.max_value /\ mx <= u.max_value /\ u.max_value <= mx + WINDOW_SIZE
        /\ u.max_value \in Nat
    BY <2>3, <2>4, <2>5
  <2> QED
    BY <1>1, <2>3, <2>4, <2>5, <2>6, <2>7, <2>8 DEF Knows
<1> QED
  BY <1>2, <1>3

LEMMA EmptyIsWritten ==
    ASSUME NEW k \in Nat, NEW L \in Nat, k < L, k % WINDOW_SIZE = L % WINDOW_SIZE
    PROVE  k + WINDOW_SIZE <= L
<1> SUFFICES ASSUME L < k + WINDOW_SIZE
             PROVE  FALSE
  OBVIOUS
<1>1. k \in Int /\ L \in Int /\ k <= L
  OBVIOUS
<1>2. k = L
  BY <1>1, ModInjective
<1> QED
  BY <1>2

LEMMA SentIsGood ==
    ASSUME NEW h \in Hosts, NEW n \in Nat, n <= FileLen[h], NEW s, Ready(h, s, n),
           NEW u, u = looped(h, s), NEW m, Sends(h, s, u, m)
    PROVE  /\ m.type \in {"FIN", "DATA"}
           /\ m.type = "FIN" => u.sent_fin
           /\ m.type = "DATA" => /\ m.seq_num < u.max_value
                                 /\ m.data = m.seq_num \/ m.seq_num < n
<1>1. /\ Knows(h, u, n) /\ Knows(h, s, n) /\ s.max_value \in Nat /\ u.max_value \in Nat
      /\ s.max_value <= u.max_value /\ u.max_value <= s.max_value + WINDOW_SIZE
  BY KnowsAfterLoop DEF Ready
<1>2. PICK L \in Nat : L = FileLen[h]
  BY LengthOfFile
<1>3. s \in Senders /\ s.start_seq \in Nat /\ s.max_value <= L /\ u.max_value <= L
  <2>1. s \in Senders /\ s.max_value <= L /\ BeforeLoop(h, s)
    BY <1>2 DEF Ready, BeforeLoop, Reads
  <2> QED
    BY <2>1, <1>2, SenderTypes, LoopKeepsSender DEF SenderOK, Reads
<1>4. ASSUME NEW k \in Nat, k < L, \/ k % WINDOW_SIZE \in s.empty
                                   \/ k % WINDOW_SIZE \in u.empty
      PROVE  k < n
  <2>1. L < n + WINDOW_SIZE /\ k % WINDOW_SIZE = L % WINDOW_SIZE
    BY <1>1, <1>2, <1>4 DEF Knows
  <2>2. k + WINDOW_SIZE <= L
    BY <1>4, <2>1, EmptyIsWritten
  <2> QED
    BY <2>1, <2>2
<1>5. CASE m = FIN /\ u.sent_fin
  BY <1>5 DEF FIN
<1>6. CASE \E k \in outstanding(s) : Again(s, k, m)
  <2>1. PICK k \in outstanding(s) :
           m = DATA(k, k) \/ (m = DATA(k, Empty) /\ k % WINDOW_SIZE \in s.empty)
    BY <1>6 DEF Again
  <2>2. k \in Nat /\ k < s.max_value
    BY <1>1, <1>3 DEF outstanding
  <2>3. k < L
    BY <2>2, <1>1, <1>3
  <2>4. CASE m = DATA(k, k)
    BY <2>2, <2>4, <1>1 DEF DATA
  <2>5. CASE m = DATA(k, Empty) /\ k % WINDOW_SIZE \in s.empty
    <3>1. k < n
      BY <2>2, <2>3, <2>5, <1>4
    <3> QED
      BY <2>2, <2>5, <3>1, <1>1 DEF DATA
  <2> QED
    BY <2>1, <2>4, <2>5
<1>7. CASE \E k \in s.max_value .. u.max_value - 1, d \in Data :
             /\ m = DATA(k, d)
             /\ u.max_value <= s.max_value + WINDOW_SIZE =>
                  d = k \/ (d = Empty /\ k % WINDOW_SIZE \in u.empty)
  <2>1. PICK k \in s.max_value .. u.max_value - 1, d \in Data :
             /\ m = DATA(k, d)
             /\ d = k \/ (d = Empty /\ k % WINDOW_SIZE \in u.empty)
    BY <1>1, <1>7
  <2>2. k \in Nat /\ k < u.max_value /\ k < L
    BY <1>1, <1>3
  <2>3. m.type = "DATA" /\ m.seq_num = k /\ m.data = d
    BY <2>1 DEF DATA
  <2>4. CASE d = k
    BY <2>2, <2>3, <2>4
  <2>5. CASE d = Empty /\ k % WINDOW_SIZE \in u.empty
    <3>1. k < n
      BY <2>2, <2>5, <1>4
    <3> QED
      BY <2>2, <2>3, <3>1
  <2> QED
    BY <2>1, <2>4, <2>5
<1> QED
  BY <1>5, <1>6, <1>7 DEF Sends

(* What is on the way to and from a sender that is at its loop.            *)
Before(h, s) ==
    /\ \A i \in 1 .. Len(toRcv[h]) :
         /\ toRcv[h][i].type = "SYN" =>
              Served(h) /\ \A j \in 1 .. i - 1 : toRcv[h][j].type # "FIN"
         /\ toRcv[h][i].type = "FIN" => s.sent_fin
         /\ toRcv[h][i].type = "DATA" => toRcv[h][i].seq_num < s.max_value
    /\ Served(h) => \A i \in Slots :
         rcv.window_buffer[i].received => rcv.window_buffer[i].seq_num < s.max_value

AnswersBefore(h, s) ==
    \A i \in 1 .. Len(toSnd'[h]) :
      /\ toSnd'[h][i].type # "GO"
      /\ toSnd'[h][i].type = "ACK" =>
           firstMissing(toSnd'[h][i]) <= Len(files[h]) /\ toSnd'[h][i].ack < s.max_value
      /\ toSnd'[h][i].type = "FINACK" => ~ Served(h)

LEMMA LoopSession ==
    ASSUME TypeInv, NEW h \in Hosts, Session(h), NEW s, Ready(h, s, Len(files[h])),
           Continue(h, s), rcv' = rcv, files' = files, toSnd'[h] \in Seq(AnswersTo(h)),
           Before(h, s), AnswersBefore(h, s), ~ s.misled
    PROVE  Session(h)'
<1>0. Len(files[h]) \in Nat /\ Len(files[h]) <= FileLen[h] /\ Len(toRcv[h]) \in Nat
  BY SessionTypes
<1>1. PICK n \in Nat : n = Len(files[h]) /\ n <= FileLen[h] /\ Ready(h, s, n)
  BY <1>0
<1>2. PICK p, q, u : p = toRcv'[h] /\ q = toRcv[h] /\ u = snd'[h]
  OBVIOUS
<1>a. BeforeLoop(h, s)
  BY DEF Ready
<1>3. /\ u = looped(h, s) /\ u.phase = "DATA" /\ p \in Seq(PacketsOf(h))
      /\ Len(q) \in Nat /\ Len(p) \in Nat /\ Len(q) <= Len(p)
      /\ \A i \in 1 .. Len(q) : p[i] = q[i]
      /\ \A i \in Len(q) + 1 .. Len(p) : Sends(h, s, u, p[i])
  BY <1>2, <1>a, Continued
<1>4. /\ Knows(h, u, n) /\ u \in Senders
      /\ s.max_value \in Nat /\ u.max_value \in Nat
      /\ s.max_value <= u.max_value /\ (s.sent_fin => u.sent_fin) /\ ~ u.misled
  BY <1>1, <1>3, KnowsAfterLoop
<1>5. \A i \in Len(q) + 1 .. Len(p) :
         /\ p[i].type \in {"FIN", "DATA"}
         /\ p[i].type = "FIN" => u.sent_fin
         /\ p[i].type = "DATA" => /\ p[i].seq_num < u.max_value
                                  /\ p[i].data = p[i].seq_num \/ p[i].seq_num < n
  <2> TAKE i \in Len(q) + 1 .. Len(p)
  <2>1. PICK m : m = p[i]
    OBVIOUS
  <2>2. Sends(h, s, u, m)
    BY <1>3, <2>1
  <2>3. /\ m.type \in {"FIN", "DATA"}
        /\ m.type = "FIN" => u.sent_fin
        /\ m.type = "DATA" => /\ m.seq_num < u.max_value
                              /\ m.data = m.seq_num \/ m.seq_num < n
    BY <1>1, <1>3, <2>2, SentIsGood
  <2> QED
    BY <2>1, <2>3
<1>6. \A i \in 1 .. Len(p) : i \in 1 .. Len(q) \/ i \in Len(q) + 1 .. Len(p)
  BY <1>3
<1>7. \A i \in 1 .. Len(q) :
         /\ q[i] \in PacketsOf(h)
         /\ q[i].type = "SYN" => Served(h) /\ \A j \in 1 .. i - 1 : q[j].type # "FIN"
         /\ q[i].type = "FIN" => s.sent_fin
         /\ q[i].type = "DATA" => /\ q[i].seq_num < s.max_value
                                  /\ q[i].data = q[i].seq_num \/ q[i].seq_num < n
  <2> TAKE i \in 1 .. Len(q)
  <2>1. q[i] \in PacketsOf(h)
    BY <1>2, SessionTypes
  <2>2. /\ q[i].type = "SYN" => Served(h) /\ \A j \in 1 .. i - 1 : q[j].type # "FIN"
        /\ q[i].type = "FIN" => s.sent_fin
        /\ q[i].type = "DATA" => q[i].seq_num < s.max_value
    BY <1>2 DEF Before
  <2>3. q[i].type = "DATA" => q[i].data = q[i].seq_num \/ q[i].seq_num < n
    BY <1>1, <1>2 DEF Session, DataIsGood
  <2> QED
    BY <2>1, <2>2, <2>3
<1>8. SynsAreLate(h)'
  <2> SUFFICES ASSUME NEW i \in 1 .. Len(p), p[i].type = "SYN"
               PROVE  Served(h) /\ \A j \in 1 .. i - 1 : p[j].type # "FIN"
    BY <1>2 DEF SynsAreLate, Served
  <2>1. i \in 1 .. Len(q)
    BY <1>5, <1>6
  <2>2. p[i] = q[i] /\ \A j \in 1 .. i - 1 : p[j] = q[j]
    BY <1>3, <2>1
  <2> QED
    BY <1>7, <2>1, <2>2
<1>9. GoIsLast(h)'
  BY DEF GoIsLast, AnswersBefore
<1>10. DataIsGood(h)'
  <2> SUFFICES ASSUME NEW i \in 1 .. Len(p), p[i].type = "DATA"
               PROVE  p[i].data = p[i].seq_num \/ p[i].seq_num < n
    BY <1>1, <1>2 DEF DataIsGood
  <2>1. CASE i \in 1 .. Len(q)
    BY <1>3, <1>7, <2>1
  <2>2. CASE i \in Len(q) + 1 .. Len(p)
    BY <1>5, <2>2
  <2> QED
    BY <1>6, <2>1, <2>2
<1>11. AnswersAreTrue(h)'
  <2> SUFFICES ASSUME NEW i \in 1 .. Len(toSnd'[h])
               PROVE  /\ toSnd'[h][i].type = "ACK" =>
                           firstMissing(toSnd'[h][i]) <= n /\ toSnd'[h][i].ack < u.max_value
                      /\ toSnd'[h][i].type = "FINACK" => ~ Served(h)
    BY <1>1, <1>2 DEF AnswersAreTrue, Served
  <2>1. toSnd'[h][i] \in AnswersTo(h)
    BY ElementOfSeq
  <2>2. toSnd'[h][i].type = "ACK" => toSnd'[h][i].ack \in Int
    BY <2>1, AckPacket
  <2> QED
    BY <1>1, <1>4, <2>2 DEF AnswersBefore
<1>12. PacketsAreSent(h)'
  <2>1. ASSUME NEW i \in 1 .. Len(p)
        PROVE  /\ p[i].type = "FIN" => u.sent_fin
               /\ p[i].type = "DATA" => p[i].seq_num < u.max_value
    <3>1. CASE i \in 1 .. Len(q)
      <4>1. p[i] = q[i] /\ (q[i].type = "DATA" => q[i].seq_num \in Nat)
        BY <1>3, <1>7, <3>1, DataPacket
      <4> QED
        BY <1>4, <1>7, <3>1, <4>1
    <3>2. CASE i \in Len(q) + 1 .. Len(p)
      BY <1>5, <3>2
    <3> QED
      BY <1>6, <3>1, <3>2
  <2>2. Served(h) => \A i \in Slots :
          rcv.window_buffer[i].received => rcv.window_buffer[i].seq_num < u.max_value
    <3>1. \A i \in Slots : rcv.window_buffer[i].seq_num \in Nat
      BY WindowTypes DEF TypeInv, ConnectionTypes, WindowOK
    <3> QED
      BY <1>4, <3>1 DEF Before
  <2> QED
    BY <1>2, <2>1, <2>2 DEF PacketsAreSent, Served
<1>13. FileIsGood(h)' /\ Knows(h, snd'[h], Len(files'[h]))
  BY <1>1, <1>2, <1>4 DEF Session, FileIsGood
<1> QED
  BY <1>2, <1>3, <1>4, <1>8, <1>9, <1>10, <1>11, <1>12, <1>13 DEF Session, Knows

LEMMA ReceiveGOSession ==
    ASSUME TypeInv, NEW h \in Hosts, Session(h), ConnectionTypes, ReceiveGO(h)
    PROVE  Session(h)'
<1>1. /\ SndReceives(h, "SYN", {"GO"}) /\ snd[h].phase = "SYN"
      /\ Continue(h, [snd[h] EXCEPT !.phase = "DATA"])
  BY DEF ReceiveGO, SndReceives
<1>2. /\ toSnd'[h] \in Seq(AnswersTo(h)) /\ Len(toSnd[h]) \in Nat /\ Len(toSnd[h]) >= 1
      /\ Len(toSnd'[h]) = Len(toSnd[h]) - 1 /\ toSnd[h][1].type = "GO"
      /\ rcv' = rcv /\ files' = files
  <2>1. toSnd[h][1].type \in {"GO"}
    BY <1>1, Received
  <2> QED
    BY <1>1, <2>1, Received
<1>3. 1 \in 1 .. Len(toSnd[h])
  BY <1>2
<1>4. /\ Served(h) /\ rcv.state = "WAITING_DATA" /\ Len(toSnd[h]) = 1
      /\ \A j \in 1 .. Len(toRcv[h]) : toRcv[h][j].type = "SYN"
  BY <1>2, <1>3 DEF Session, GoIsLast
<1>5. Len(files[h]) = 0 /\ \A i \in Slots : ~ rcv.window_buffer[i].received
  BY <1>4, Connected DEF ConnectionTypes, Fresh, Served
<1>6. PICK s : s = [snd[h] EXCEPT !.phase = "DATA"]
  OBVIOUS
<1>7. SenderOK(h, snd[h]) /\ BeforeLoop(h, s)
  BY <1>1, <1>6, BeforeLoopCases DEF TypeInv, HostTypes
<1>8. /\ s.start_seq = 0 /\ s.max_value = 0 /\ ~ s.begun /\ ~ s.sent_fin /\ s.empty = {}
      /\ s.new_start = WINDOW_SIZE /\ ~ s.misled
  <2>1. PICK d \in Senders : d = sender
    BY FreshSender
  <2>2. PICK b \in BOOLEAN : snd[h] = [d EXCEPT !.phase = "SYN", !.misled = b]
    BY <1>1, <1>7, <2>1, SenderTypes DEF SenderOK, Reads, AtRest
  <2>3. /\ d.start_seq = 0 /\ d.new_start = WINDOW_SIZE /\ d.max_value = 0
        /\ ~ d.begun /\ ~ d.sent_fin /\ d.empty = {}
    BY <2>1, FreshSender
  <2>4. ~ snd[h].misled
    BY DEF Session
  <2> QED
    BY <1>6, <2>1, <2>2, <2>3, <2>4 DEF Senders
<1>9. Ready(h, s, Len(files[h]))
  BY <1>5, <1>7, <1>8 DEF Ready, Knows
<1>10. Before(h, s)
  BY <1>4, <1>5 DEF Before
<1>11. AnswersBefore(h, s)
  BY <1>2, <1>4 DEF AnswersBefore
<1> QED
  BY <1>1, <1>2, <1>6, <1>8, <1>9, <1>10, <1>11, LoopSession

LEMMA InDATA ==
    ASSUME TypeInv, NEW h \in Hosts, Session(h), snd[h].phase = "DATA"
    PROVE  /\ Before(h, snd[h]) /\ Knows(h, snd[h], Len(files[h]))
           /\ \A i \in 1 .. Len(toSnd[h]) :
                /\ toSnd[h][i].type # "GO"
                /\ toSnd[h][i].type = "ACK" =>
                     /\ firstMissing(toSnd[h][i]) <= Len(files[h])
                     /\ toSnd[h][i].ack < snd[h].max_value
                /\ toSnd[h][i].type = "FINACK" => ~ Served(h)
<1>1. Before(h, snd[h])
  BY DEF Session, SynsAreLate, PacketsAreSent, Before
<1> QED
  BY <1>1 DEF Session, AnswersAreTrue, GoIsLast

LEMMA SameSender ==
    ASSUME NEW h \in Hosts, NEW s, NEW u, u.sent_fin = s.sent_fin, u.max_value = s.max_value
    PROVE  /\ Before(h, s) => Before(h, u)
           /\ AnswersBefore(h, s) => AnswersBefore(h, u)
           /\ \A n : u.start_seq = s.start_seq /\ u.empty = s.empty /\ Knows(h, s, n) => Knows(h, u, n)
BY DEF Before, AnswersBefore, Knows

LEMMA ReceiveACKSession ==
    ASSUME TypeInv, NEW h \in Hosts, Session(h), ReceiveACK(h)
    PROVE  Session(h)'
<1>1. /\ SndReceives(h, "DATA", {"ACK"}) /\ snd[h].phase = "DATA"
      /\ Continue(h, afterAck(snd[h], Head(toSnd[h])))
  BY DEF ReceiveACK, SndReceives
<1>2. PICK m : m = toSnd[h][1]
  OBVIOUS
<1>3. /\ toSnd'[h] \in Seq(AnswersTo(h)) /\ Len(toSnd[h]) \in Nat /\ Len(toSnd[h]) >= 1
      /\ Len(toSnd'[h]) = Len(toSnd[h]) - 1 /\ m = Head(toSnd[h]) /\ m \in AnswersTo(h)
      /\ \A i \in 1 .. Len(toSnd'[h]) : toSnd'[h][i] = toSnd[h][i + 1]
      /\ rcv' = rcv /\ files' = files
  BY <1>1, <1>2, Received
<1>4. m.type = "ACK"
  <2>1. toSnd[h][1].type \in {"ACK"}
    BY <1>1, Received
  <2> QED
    BY <1>2, <2>1
<1>5. /\ Before(h, snd[h]) /\ Knows(h, snd[h], Len(files[h]))
      /\ firstMissing(m) <= Len(files[h]) /\ m.ack < snd[h].max_value
  BY <1>1, <1>2, <1>3, <1>4, InDATA
<1>6. AnswersBefore(h, snd[h])
  <2>1. ASSUME NEW i \in 1 .. Len(toSnd'[h])
        PROVE  i + 1 \in 1 .. Len(toSnd[h]) /\ toSnd'[h][i] = toSnd[h][i + 1]
    BY <1>3
  <2> QED
    BY <1>1, <2>1, InDATA DEF AnswersBefore
<1>7. PICK s : s = afterAck(snd[h], m)
  OBVIOUS
<1>8. snd[h] \in Senders /\ snd[h].max_value \in Nat
  BY SessionTypes
<1>9. /\ s.start_seq = snd[h].start_seq /\ s.sent_fin = snd[h].sent_fin
      /\ s.max_value = snd[h].max_value /\ s.empty = snd[h].empty
      /\ \/ s.new_start = firstMissing(m)
         \/ s.new_start = snd[h].new_start /\ m.ack >= snd[h].max_value
      /\ m.ack < snd[h].max_value /\ ~ s.hasnacks => firstMissing(m) = snd[h].max_value
      /\ s.misled = snd[h].misled
  BY <1>3, <1>4, <1>7, <1>8, AfterAck
<1>10. s.new_start = firstMissing(m) /\ (~ s.hasnacks => s.new_start = s.max_value)
  <2>1. m.ack \in Int
    BY <1>3, <1>4, AckPacket
  <2> QED
    BY <1>5, <1>8, <1>9, <2>1
<1>11. BeforeLoop(h, s)
  BY <1>1, <1>3, <1>4, <1>7, BeforeLoopCases DEF TypeInv, HostTypes
<1>12. Before(h, s) /\ AnswersBefore(h, s) /\ Knows(h, s, Len(files[h]))
  BY <1>5, <1>6, <1>9, SameSender
<1>13. Ready(h, s, Len(files[h]))
  BY <1>5, <1>10, <1>11, <1>12 DEF Ready
<1> QED
  BY <1>1, <1>3, <1>7, <1>9, <1>12, <1>13, LoopSession DEF Session

LEMMA DataTimeoutSession ==
    ASSUME TypeInv, NEW h \in Hosts, Session(h), DataTimeout(h)
    PROVE  Session(h)'
<1>1. /\ snd[h].phase = "DATA" /\ Continue(h, doubted(snd[h]))
      /\ rcv' = rcv /\ files' = files /\ toSnd' = toSnd
  BY DEF DataTimeout
<1>2. PICK s : s = doubted(snd[h])
  OBVIOUS
<1>3. snd[h] \in Senders /\ snd[h].start_seq \in Nat
  BY SessionTypes
<1>4. /\ s.start_seq = snd[h].start_seq /\ s.sent_fin = snd[h].sent_fin
      /\ s.max_value = snd[h].max_value /\ s.empty = snd[h].empty
      /\ s.new_start = snd[h].start_seq /\ s.misled = snd[h].misled
  BY <1>2, <1>3, Doubted
<1>5. BeforeLoop(h, s)
  BY <1>1, <1>2, BeforeLoopCases DEF TypeInv, HostTypes
<1>6. AnswersBefore(h, snd[h])
  BY <1>1, InDATA DEF AnswersBefore
<1>7. Before(h, s) /\ AnswersBefore(h, s) /\ Knows(h, s, Len(files[h]))
  BY <1>1, <1>4, <1>6, InDATA, SameSender
<1>8. Ready(h, s, Len(files[h]))
  BY <1>3, <1>4, <1>5, <1>7 DEF Ready, mayRead
<1>9. toSnd'[h] \in Seq(AnswersTo(h))
  BY <1>1 DEF TypeInv, HostTypes
<1> QED
  BY <1>1, <1>2, <1>4, <1>7, <1>8, <1>9, LoopSession DEF Session

(* The queue to the sender when a packet is taken from it.                 *)
LEMMA TakenIsPart ==
    ASSUME TypeInv, NEW h \in Hosts, NEW phase, NEW types, SndReceives(h, phase, types)
    PROVE  PartOf(toSnd'[h], toSnd[h]) /\ Len(toSnd'[h]) \in Nat
<1>1. PICK p, q : p = toSnd'[h] /\ q = toSnd[h]
  OBVIOUS
<1>2. /\ Len(q) \in Nat /\ Len(q) >= 1 /\ Len(p) = Len(q) - 1
      /\ \A i \in 1 .. Len(p) : p[i] = q[i + 1]
  BY <1>1, Received
<1>3. PartOf(p, q)
  BY <1>2, TailIsPart
<1> QED
  BY <1>1, <1>2, <1>3

LEMMA WholeAnswers ==
    ASSUME TypeInv, NEW h \in Hosts, toSnd' = toSnd
    PROVE  PartOf(toSnd'[h], toSnd[h]) /\ Len(toSnd'[h]) \in Nat
BY SessionTypes, WholeQueue

LEMMA WholePackets ==
    ASSUME TypeInv, NEW h \in Hosts, toRcv' = toRcv
    PROVE  PartOf(toRcv'[h], toRcv[h]) /\ Len(toRcv'[h]) \in Nat
BY SessionTypes, WholeQueue

LEMMA PingAgainSession ==
    ASSUME TypeInv, NEW h \in Hosts, Session(h), PingAgain(h)
    PROVE  Session(h)'
<1>1. Pings(h) /\ SndReceives(h, "SYN", {"ACK", "FINACK"}) /\ rcv' = rcv /\ files' = files
  BY DEF PingAgain, SndReceives
<1> QED
  BY <1>1, TakenIsPart, PingSession

LEMMA RunAgainSession ==
    ASSUME TypeInv, NEW h \in Hosts, Session(h), RunAgain(h) \/ SynTimeout(h)
    PROVE  Session(h)'
<1>1. Pings(h) /\ toSnd' = toSnd /\ rcv' = rcv /\ files' = files
  BY DEF RunAgain, SynTimeout
<1> QED
  BY <1>1, WholeAnswers, PingSession

(* The sender has had its GO: no other is on its way.                      *)
LEMMA NoLateGO ==
    ASSUME TypeInv, NEW h \in Hosts, Session(h), ReceiveLateGO(h)
    PROVE  FALSE
<1>1. SndReceives(h, "DATA", {"GO"}) /\ snd[h].phase = "DATA"
  BY DEF ReceiveLateGO, SndReceives
<1>2. Len(toSnd[h]) \in Nat /\ Len(toSnd[h]) >= 1 /\ toSnd[h][1].type \in {"GO"}
  BY <1>1, Received
<1>3. 1 \in 1 .. Len(toSnd[h]) /\ toSnd[h][1].type = "GO"
  BY <1>2
<1> QED
  BY <1>1, <1>3, InDATA

LEMMA DropAtGoneSession ==
    ASSUME TypeInv, NEW h \in Hosts, Session(h), DropAtGone(h)
    PROVE  Session(h)'
<1>1. PICK phase : SndReceives(h, phase, {"GO", "FINACK", "ACK"})
  BY DEF DropAtGone
<1>2. UNCHANGED <<snd, toRcv, rcv, files>>
  BY <1>1 DEF DropAtGone, SndReceives
<1>3. PartOf(toSnd'[h], toSnd[h]) /\ Len(toSnd'[h]) \in Nat
  BY <1>1, TakenIsPart
<1>4. PartOf(toRcv'[h], toRcv[h]) /\ Len(toRcv'[h]) \in Nat
  BY <1>2, WholePackets
<1> QED
  BY <1>2, <1>3, <1>4, FewerPackets

LEMMA LoseSession ==
    ASSUME TypeInv, NEW h \in Hosts, Session(h), Lose(h)
    PROVE  Session(h)'
<1>1. rcv' = rcv /\ files' = files /\ snd' = snd /\ HostTypes(h)'
  BY Lost DEF TypesAfter
<1>2. PICK p, q, b, a : p = toRcv'[h] /\ q = toRcv[h] /\ b = toSnd'[h] /\ a = toSnd[h]
  OBVIOUS
<1>3. Len(p) \in Nat /\ Len(q) \in Nat /\ Len(b) \in Nat /\ Len(a) \in Nat
  BY <1>1, <1>2, LenProperties, SessionTypes DEF HostTypes
<1>4. \/ b = a /\ DroppedFrom(p, q)
      \/ p = q /\ DroppedFrom(b, a)
  BY <1>2, Lost
<1>5. PartOf(p, q) /\ PartOf(b, a)
  BY <1>3, <1>4, WholeQueue, DroppedIsPart
<1> QED
  BY <1>1, <1>2, <1>3, <1>5, FewerPackets

(* After its FIN the sender knows that the file is complete, and a FINACK  *)
(* that the receiver has closed it.                                        *)
LEMMA ReceiveFINACKSession ==
    ASSUME TypeInv, NEW h \in Hosts, Session(h), ReceiveFINACK(h)
    PROVE  Session(h)'
<1>1. /\ SndReceives(h, "DATA", {"FINACK"}) /\ snd[h].phase = "DATA"
      /\ rcv' = rcv /\ files' = files
  BY DEF ReceiveFINACK, SndReceives
<1>2. PICK b, a : b = toSnd'[h] /\ a = toSnd[h]
  OBVIOUS
<1>3. /\ Len(a) \in Nat /\ Len(a) >= 1 /\ Len(b) = Len(a) - 1 /\ a[1].type \in {"FINACK"}
      /\ \A i \in 1 .. Len(b) : b[i] = a[i + 1]
  BY <1>1, <1>2, Received
<1>4. PartOf(b, a) /\ Len(b) \in Nat
  BY <1>1, <1>2, TakenIsPart
<1>5. CASE Pings(h)
  BY <1>1, <1>2, <1>4, <1>5, PingSession
<1>6. CASE /\ snd[h].sent_fin /\ UNCHANGED toRcv
           /\ snd' = [snd EXCEPT ![h] = [sender EXCEPT !.phase = "EXIT",
                                                      !.misled = snd[h].misled]]
  <2>1. snd'[h].phase = "EXIT" /\ ~ snd'[h].misled
    <3>1. PICK d \in Senders : d = sender
      BY FreshSender
    <3>2. snd'[h] = [d EXCEPT !.phase = "EXIT", !.misled = snd[h].misled] /\ ~ snd[h].misled
      BY <1>6, <3>1 DEF TypeInv, Functions, Session
    <3> QED
      BY <3>1, <3>2 DEF Senders
  <2>2. Len(files[h]) = FileLen[h]
    BY <1>1, <1>6 DEF Session, Knows
  <2>3. ~ Served(h)
    BY <1>1, <1>2, <1>3, InDATA
  <2>4. \A i \in 1 .. Len(b) : b[i].type # "GO"
    <3>1. \A i \in 1 .. Len(b) : i + 1 \in 1 .. Len(a)
      BY <1>3
    <3> QED
      BY <1>1, <1>2, <1>3, <3>1, InDATA
  <2>5. GoIsLast(h)'
    BY <1>2, <2>4 DEF GoIsLast
  <2>6. SynsAreLate(h)' /\ DataIsGood(h)' /\ FileIsGood(h)'
    BY <1>1, <1>6 DEF Session, SynsAreLate, DataIsGood, FileIsGood, Served
  <2> QED
    BY <1>1, <2>1, <2>2, <2>3, <2>5, <2>6 DEF Session, Served
<1> QED
  BY <1>5, <1>6 DEF ReceiveFINACK

LEMMA NothingOnTheWay ==
    ASSUME NEW h \in Hosts, TimerFires(h), early \in Nat, early' = early
    PROVE  toRcv[h] = <<>> /\ toSnd[h] = <<>>
BY DEF TimerFires

LEMMA FinTimeoutSession ==
    ASSUME TypeInv, NEW h \in Hosts, Session(h), FinTimeout(h), early' = early
    PROVE  Session(h)'
<1>1. /\ snd[h].phase = "DATA" /\ snd[h].sent_fin /\ TimerFires(h)
      /\ snd' = [snd EXCEPT ![h].hasnacks = FALSE]
      /\ toRcv' = [toRcv EXCEPT ![h] = Put(@, <<FIN>>)]
      /\ rcv' = rcv /\ files' = files /\ toSnd' = toSnd
  BY DEF FinTimeout
<1>2. toRcv[h] = <<>> /\ toSnd[h] = <<>>
  BY <1>1, NothingOnTheWay DEF TypeInv, Counters
<1>3. Len(toRcv[h]) = 0 /\ Len(toSnd'[h]) = 0
  BY <1>1, <1>2
<1>4. FIN \in PacketsOf(h) /\ FIN.type = "FIN"
  BY DEF PacketsOf, FIN
<1>5. Appended(toRcv'[h], toRcv[h], FIN)
  BY <1>1, <1>4, OnePacket
<1>6. \A i \in 1 .. Len(toRcv'[h]) : toRcv'[h][i].type = "FIN"
  <2> TAKE i \in 1 .. Len(toRcv'[h])
  <2>1. i \in Len(toRcv[h]) + 1 .. Len(toRcv'[h])
    BY <1>3
  <2> QED
    BY <1>4, <1>5, <2>1 DEF Appended
<1>7. /\ snd'[h].phase = "DATA" /\ snd'[h].sent_fin /\ snd'[h].max_value = snd[h].max_value
      /\ snd'[h].start_seq = snd[h].start_seq /\ snd'[h].empty = snd[h].empty
      /\ snd'[h].misled = snd[h].misled
  <2>1. PICK s \in Senders : s = snd[h]
    BY SessionTypes
  <2>2. snd'[h] = [s EXCEPT !.hasnacks = FALSE]
    BY <1>1, <2>1 DEF TypeInv, Functions
  <2> QED
    BY <1>1, <2>1, <2>2 DEF Senders
<1>8. SynsAreLate(h)' /\ GoIsLast(h)' /\ DataIsGood(h)' /\ FileIsGood(h)'
  BY <1>1, <1>3, <1>6 DEF Session, SynsAreLate, GoIsLast, DataIsGood, FileIsGood
<1>9. AnswersAreTrue(h)'
  BY <1>3 DEF AnswersAreTrue
<1>10. PacketsAreSent(h)'
  BY <1>1, <1>6, <1>7 DEF Session, PacketsAreSent, Served
<1>11. Knows(h, snd'[h], Len(files[h]))
  BY <1>1, <1>7 DEF Session, Knows
<1> QED
  BY <1>1, <1>7, <1>8, <1>9, <1>10, <1>11 DEF Session, Knows

LEMMA KillSession ==
    ASSUME TypeInv, NEW h \in Hosts, Session(h), Kill(h)
    PROVE  Session(h)'
<1>1. /\ toSnd'[h] = <<>> /\ snd'[h].phase = "GONE" /\ ~ snd'[h].misled
      /\ UNCHANGED <<rcv, files, toRcv>>
  BY KillTypes
<1>2. GoIsLast(h)'
  BY <1>1 DEF GoIsLast
<1> QED
  BY <1>1, <1>2 DEF Session, SynsAreLate, DataIsGood, FileIsGood, Served

(* What holds of the packets that stay behind when one is taken.           *)
Left(h, type) ==
    /\ \A i \in 1 .. Len(toRcv'[h]) :
         toRcv'[h][i].type = "DATA" =>
           /\ toRcv'[h][i].seq_num \in Nat
           /\ toRcv'[h][i].data = toRcv'[h][i].seq_num \/ toRcv'[h][i].seq_num < Len(files[h])
    /\ snd[h].phase = "DATA" =>
         \A i \in 1 .. Len(toRcv'[h]) :
           /\ toRcv'[h][i].type = "FIN" => snd[h].sent_fin
           /\ toRcv'[h][i].type = "DATA" => toRcv'[h][i].seq_num < snd[h].max_value
    /\ \A i \in 1 .. Len(toRcv'[h]) :
         /\ toRcv'[h][i].type = "SYN"
         /\ \/ snd[h].phase \in {"DATA", "EXIT"}
            \/ \E j \in i + 1 .. Len(toRcv'[h]) : toRcv'[h][j].type # "SYN"
         => /\ Served(h) /\ type # "FIN"
            /\ \A j \in 1 .. i - 1 : toRcv'[h][j].type # "FIN"

LEMMA PacketsLeft ==
    ASSUME TypeInv, NEW h \in Hosts, Session(h), NEW type, Arrives(h, type)
    PROVE  Left(h, type)
<1>1. PICK p, q : p = toRcv'[h] /\ q = toRcv[h]
  OBVIOUS
<1>2. /\ Len(q) \in Nat /\ Len(q) >= 1 /\ Len(p) = Len(q) - 1 /\ q[1].type = type
      /\ \A i \in 1 .. Len(p) : p[i] = q[i + 1]
  BY <1>1, Taken
<1>3. \A i \in 1 .. Len(p) : i + 1 \in 1 .. Len(q) /\ p[i] = q[i + 1]
  BY <1>2
<1>4. \A i \in 1 .. Len(p) : p[i].type = "DATA" => p[i].seq_num \in Nat
  <2>1. \A i \in 1 .. Len(q) : q[i] \in PacketsOf(h)
    BY <1>1, SessionTypes
  <2>2. \A i \in 1 .. Len(q) : q[i].type = "DATA" => q[i].seq_num \in Nat
    BY <2>1, DataPacket
  <2> QED
    BY <1>3, <2>2
<1>5. \A i \in 1 .. Len(p) : p[i].type = "DATA" =>
        p[i].data = p[i].seq_num \/ p[i].seq_num < Len(files[h])
  <2>1. \A i \in 1 .. Len(q) : q[i].type = "DATA" =>
          q[i].data = q[i].seq_num \/ q[i].seq_num < Len(files[h])
    BY <1>1 DEF Session, DataIsGood
  <2> QED
    BY <1>3, <2>1
<1>6. snd[h].phase = "DATA" =>
        \A i \in 1 .. Len(p) :
          /\ p[i].type = "FIN" => snd[h].sent_fin
          /\ p[i].type = "DATA" => p[i].seq_num < snd[h].max_value
  <2>1. snd[h].phase = "DATA" =>
          \A i \in 1 .. Len(q) :
            /\ q[i].type = "FIN" => snd[h].sent_fin
            /\ q[i].type = "DATA" => q[i].seq_num < snd[h].max_value
    BY <1>1 DEF Session, PacketsAreSent
  <2> QED
    BY <1>3, <2>1
<1>7. ASSUME NEW i \in 1 .. Len(p), p[i].type = "SYN",
             \/ snd[h].phase \in {"DATA", "EXIT"}
             \/ \E j \in i + 1 .. Len(p) : p[j].type # "SYN"
      PROVE  Served(h) /\ type # "FIN" /\ \A j \in 1 .. i - 1 : p[j].type # "FIN"
  <2>1. i + 1 \in 1 .. Len(q) /\ q[i + 1].type = "SYN"
    BY <1>3, <1>7
  <2>2. (\E j \in i + 1 .. Len(p) : p[j].type # "SYN") =>
          \E j \in (i + 1) + 1 .. Len(q) : q[j].type # "SYN"
    <3>1. ASSUME NEW j \in i + 1 .. Len(p), p[j].type # "SYN"
          PROVE  j + 1 \in (i + 1) + 1 .. Len(q) /\ q[j + 1].type # "SYN"
      <4>1. j \in 1 .. Len(p) /\ j + 1 \in (i + 1) + 1 .. Len(q)
        BY <1>2
      <4> QED
        BY <1>3, <3>1, <4>1
    <3> QED
      BY <3>1
  <2>3. Served(h) /\ \A j \in 1 .. (i + 1) - 1 : q[j].type # "FIN"
    BY <1>1, <1>7, <2>1, <2>2 DEF Session, SynsAreLate
  <2>4. 1 \in 1 .. (i + 1) - 1
    OBVIOUS
  <2>5. ASSUME NEW j \in 1 .. i - 1
        PROVE  p[j].type # "FIN"
    <3>1. j \in 1 .. Len(p) /\ j + 1 \in 1 .. (i + 1) - 1
      BY <1>2
    <3> QED
      BY <1>3, <2>3, <3>1
  <2> QED
    BY <1>2, <2>3, <2>4, <2>5
<1>8. /\ \A i \in 1 .. Len(p) : p[i].type = "DATA" =>
           /\ p[i].seq_num \in Nat
           /\ p[i].data = p[i].seq_num \/ p[i].seq_num < Len(files[h])
      /\ \A i \in 1 .. Len(p) :
           /\ p[i].type = "SYN"
           /\ \/ snd[h].phase \in {"DATA", "EXIT"}
              \/ \E j \in i + 1 .. Len(p) : p[j].type # "SYN"
           => Served(h) /\ type # "FIN" /\ \A j \in 1 .. i - 1 : p[j].type # "FIN"
  BY <1>4, <1>5, <1>7
<1> QED
  BY <1>1, <1>6, <1>8 DEF Left

LEMMA IgnoredSession ==
    ASSUME TypeInv, NEW h \in Hosts, Session(h), NEW type, Arrives(h, type),
           UNCHANGED <<rcv, files, toSnd>>
    PROVE  Session(h)'
<1>1. PICK p, q : p = toRcv'[h] /\ q = toRcv[h]
  OBVIOUS
<1>2. /\ Len(q) \in Nat /\ Len(q) >= 1 /\ Len(p) = Len(q) - 1 /\ snd'[h] = snd[h]
      /\ \A i \in 1 .. Len(p) : p[i] = q[i + 1]
  BY <1>1, Taken
<1>3. PartOf(p, q) /\ Len(p) \in Nat
  BY <1>2, TailIsPart
<1> QED
  BY <1>1, <1>2, <1>3, WholeAnswers, FewerPackets

(* When the first packet is no SYN, no GO is on its way back.              *)
LEMMA NoGO ==
    ASSUME TypeInv, NEW h \in Hosts, Session(h), NEW type, Arrives(h, type), type # "SYN"
    PROVE  \A i \in 1 .. Len(toSnd[h]) : toSnd[h][i].type # "GO"
<1>1. 1 \in 1 .. Len(toRcv[h]) /\ toRcv[h][1].type = type
  BY Taken
<1> QED
  BY <1>1 DEF Session, GoIsLast

(* A host that is not served is told that its connection is closed.        *)
LEMMA RefusedSession ==
    ASSUME TypeInv, NEW h \in Hosts, Session(h), NEW type, Arrives(h, type), type # "SYN",
           ~ Served(h), Answer(h, FINACK), UNCHANGED <<rcv, files>>
    PROVE  Session(h)'
<1>1. snd'[h] = snd[h] /\ Left(h, type)
  BY Taken, PacketsLeft
<1>2. \A i \in 1 .. Len(toSnd[h]) : toSnd[h][i].type # "GO"
  BY NoGO
<1>3. FINACK \in AnswersTo(h) /\ FINACK.type = "FINACK"
  BY DEF AnswersTo, FINACK
<1>4. /\ Len(toSnd[h]) \in Nat
      /\ Len(toSnd'[h]) \in Len(toSnd[h]) .. Len(toSnd[h]) + 1
      /\ \A i \in 1 .. Len(toSnd[h]) : toSnd'[h][i] = toSnd[h][i]
      /\ \A i \in Len(toSnd[h]) + 1 .. Len(toSnd'[h]) : toSnd'[h][i] = FINACK
  BY <1>3, Answered
<1>5. \A i \in 1 .. Len(toSnd'[h]) :
        \/ i \in 1 .. Len(toSnd[h]) /\ toSnd'[h][i] = toSnd[h][i]
        \/ toSnd'[h][i].type = "FINACK"
  BY <1>3, <1>4
<1>6. SynsAreLate(h)'
  BY <1>1 DEF SynsAreLate, Left, Served
<1>7. GoIsLast(h)'
  BY <1>2, <1>5 DEF GoIsLast
<1>8. DataIsGood(h)' /\ FileIsGood(h)'
  BY <1>1 DEF Session, DataIsGood, FileIsGood, Left
<1>9. AnswersAreTrue(h) => AnswersAreTrue(h)'
  BY <1>1, <1>5 DEF AnswersAreTrue, Served
<1>10. snd[h].phase = "DATA" => PacketsAreSent(h)'
  BY <1>1 DEF Session, PacketsAreSent, Left, Served
<1> QED
  BY <1>1, <1>6, <1>7, <1>8, <1>9, <1>10 DEF Session, Knows, Served

(* What is written to a file is what the file has there.                   *)
Good(r) ==
    \A i \in Slots : r.window_buffer[i].received =>
                       r.window_buffer[i].data = r.window_buffer[i].seq_num

LEMMA GrowsGood ==
    ASSUME TypeInv, NEW h \in Hosts, NEW r, WindowOK(r, FileLen[h]), Grown(h, r), Good(r),
           r.window_min_seq = rcv.window_min_seq, FileIsGood(h)
    PROVE  /\ FileIsGood(h)'
           /\ Len(files[h]) \in Nat /\ Len(files'[h]) \in Nat /\ Len(files[h]) <= Len(files'[h])
           /\ Len(files'[h]) <= FileLen[h]
<1>0. PICK c : c = consecutive(r)
  OBVIOUS
<1>1. PICK n, mn, m, b \in Nat :
        /\ n = Len(files[h]) /\ m = Len(files'[h]) /\ b = FileLen[h] /\ c = consecutive(r)
        /\ mn = r.window_min_seq
  BY <1>0, LenProperties, LengthOfFile, WindowTypes DEF Grown, WindowOK
<1>2. /\ c \in 0 .. WINDOW_SIZE
      /\ \A k \in r.window_min_seq .. r.window_min_seq + c - 1 : has(r, k)
  BY <1>1, Consecutive
<1>3. n = mn /\ m = mn + c /\ m <= b
  BY <1>1 DEF Grown
<1>4. ASSUME NEW k \in n + 1 .. m
      PROVE  files'[h][k] = k - 1
  <2>1. k - 1 \in mn .. mn + c - 1 /\ k - 1 \in mn .. mn + WINDOW_SIZE - 1
    BY <1>1, <1>2, <1>3, WindowAssumption
  <2>2. has(r, k - 1)
    BY <1>1, <1>2, <2>1
  <2>3. k - 1 \in r.window_min_seq .. window_max_seq(r)
    BY <1>1, <2>1 DEF window_max_seq
  <2>4. /\ (k - 1) % WINDOW_SIZE \in Slots
        /\ r.window_buffer[(k - 1) % WINDOW_SIZE].seq_num = k - 1
    BY <1>1, <2>3, SlotHolds
  <2>5. r.window_buffer[(k - 1) % WINDOW_SIZE].data = k - 1
    BY <2>2, <2>4 DEF Good, has
  <2> QED
    BY <1>1, <2>5 DEF Grown
<1>5. ASSUME NEW k \in 1 .. n
      PROVE  files'[h][k] = k - 1
  BY <1>1 DEF Grown, FileIsGood
<1>6. \A k \in 1 .. m : k \in 1 .. n \/ k \in n + 1 .. m
  BY <1>1, <1>2, <1>3
<1>7. FileIsGood(h)'
  BY <1>1, <1>4, <1>5, <1>6 DEF FileIsGood
<1> QED
  BY <1>1, <1>2, <1>3, <1>7

LEMMA ReceiveSYNSession ==
    ASSUME TypeInv, NEW h \in Hosts, Session(h), ReceiveSYN(h)
    PROVE  Session(h)' /\ WindowIsGood'
<1>1. /\ rcv.conn = NoHost /\ files'[h] = <<>> /\ rcv'.conn = h
      /\ rcv'.state = "WAITING_DATA" /\ Fresh(rcv')
  BY ReceiveSYNTypes
<1>2. Arrives(h, "SYN") /\ Answer(h, GO)
  BY DEF ReceiveSYN
<1>3. PICK p, q, b, a : p = toRcv'[h] /\ q = toRcv[h] /\ b = toSnd'[h] /\ a = toSnd[h]
  OBVIOUS
<1>4. /\ Len(q) \in Nat /\ Len(q) >= 1 /\ Len(p) = Len(q) - 1 /\ q[1].type = "SYN"
      /\ \A i \in 1 .. Len(p) : p[i] = q[i + 1]
      /\ snd'[h] = snd[h]
  BY <1>2, <1>3, Taken
<1>5. ~ Served(h) /\ 1 \in 1 .. Len(q)
  BY <1>1, <1>4, HostsAssumption DEF Served
<1>6. /\ snd[h].phase \notin {"DATA", "EXIT"}
      /\ ~ \E j \in 1 + 1 .. Len(q) : q[j].type # "SYN"
  BY <1>3, <1>4, <1>5 DEF Session, SynsAreLate
<1>7. \A i \in 1 .. Len(p) : p[i].type = "SYN"
  <2> TAKE i \in 1 .. Len(p)
  <2>1. i + 1 \in 1 + 1 .. Len(q)
    BY <1>4
  <2> QED
    BY <1>4, <1>6, <2>1
<1>8. GO \in AnswersTo(h) /\ GO.type = "GO"
  BY DEF AnswersTo, GO
<1>9. /\ Len(a) \in Nat /\ Len(b) \in Len(a) .. Len(a) + 1
      /\ \A i \in 1 .. Len(a) : b[i] = a[i]
  BY <1>2, <1>3, <1>8, Answered
<1>10. \A i \in 1 .. Len(a) : a[i].type # "GO"
  BY <1>3, <1>5 DEF Session, GoIsLast
<1>11. SynsAreLate(h)'
  <2>1. ASSUME NEW i \in 1 .. Len(p)
        PROVE  ~ \E j \in i + 1 .. Len(p) : p[j].type # "SYN"
    <3>1. \A j \in i + 1 .. Len(p) : j \in 1 .. Len(p)
      BY <1>4
    <3> QED
      BY <1>7, <3>1
  <2> QED
    BY <1>3, <1>4, <1>6, <2>1 DEF SynsAreLate
<1>12. GoIsLast(h)'
  <2> SUFFICES ASSUME NEW i \in 1 .. Len(b), b[i].type = "GO"
               PROVE  i = Len(b)
    BY <1>1, <1>3, <1>4, <1>6, <1>7 DEF GoIsLast, Served
  <2>1. i \notin 1 .. Len(a)
    BY <1>9, <1>10
  <2> QED
    BY <1>9, <2>1
<1>13. DataIsGood(h)' /\ FileIsGood(h)'
  BY <1>1, <1>3, <1>7 DEF DataIsGood, FileIsGood
<1>14. WindowIsGood'
  BY <1>1 DEF WindowIsGood, Fresh
<1> QED
  BY <1>4, <1>6, <1>11, <1>12, <1>13, <1>14 DEF Session

(* The window of a connection holds only packets that its host has sent.   *)
LEMMA SentWindow ==
    ASSUME TypeInv, NEW h \in Hosts, Session(h), Served(h), snd[h].phase = "DATA"
    PROVE  snd[h].max_value \in Nat /\ WindowOK(rcv, snd[h].max_value)
<1>1. WindowOK(rcv, FileLen[h]) /\ Len(files[h]) = rcv.window_min_seq
  BY Connected DEF Served
<1> QED
  BY <1>1, SessionTypes DEF Session, PacketsAreSent, Knows, WindowOK

(* A FIN closes the connection of a host whose file is complete.           *)
LEMMA ReceiveFINSession ==
    ASSUME TypeInv, NEW h \in Hosts, Session(h), WindowIsGood, ReceiveFIN(h)
    PROVE  Session(h)' /\ WindowIsGood'
<1>1. Arrives(h, "FIN") /\ Answer(h, FINACK)
  BY DEF ReceiveFIN
<1>2. CASE rcv.conn # h /\ UNCHANGED <<rcv, files>>
  BY <1>1, <1>2, RefusedSession DEF Served, WindowIsGood
<1>3. CASE rcv.conn = h /\ closeConnection
  <2>1. /\ Grown(h, rcv) /\ rcv'.conn = NoHost /\ rcv'.state = "IDLE"
        /\ ConnectionTypes'
    BY <1>3, Closed
  <2>2. WindowOK(rcv, FileLen[h]) /\ Good(rcv) /\ FileIsGood(h)
    BY <1>3, Connected DEF WindowIsGood, Good, Session
  <2>3. /\ FileIsGood(h)'
        /\ Len(files[h]) \in Nat /\ Len(files'[h]) \in Nat /\ Len(files[h]) <= Len(files'[h])
        /\ Len(files'[h]) <= FileLen[h]
    BY <2>1, <2>2, GrowsGood
  <2>4. ~ Served(h)' /\ Served(h)
    BY <1>3, <2>1, HostsAssumption DEF Served
  <2>5. snd'[h] = snd[h] /\ Left(h, "FIN")
    BY <1>1, Taken, PacketsLeft
  <2>6. \A i \in 1 .. Len(toSnd[h]) : toSnd[h][i].type # "GO"
    BY <1>1, NoGO
  <2>7. FINACK \in AnswersTo(h) /\ FINACK.type = "FINACK"
    BY DEF AnswersTo, FINACK
  <2>8. /\ Len(toSnd[h]) \in Nat
        /\ Len(toSnd'[h]) \in Len(toSnd[h]) .. Len(toSnd[h]) + 1
        /\ \A i \in 1 .. Len(toSnd[h]) : toSnd'[h][i] = toSnd[h][i]
        /\ \A i \in Len(toSnd[h]) + 1 .. Len(toSnd'[h]) : toSnd'[h][i] = FINACK
    BY <1>1, <2>7, Answered
  <2>9. \A i \in 1 .. Len(toSnd'[h]) :
          \/ i \in 1 .. Len(toSnd[h]) /\ toSnd'[h][i] = toSnd[h][i]
          \/ toSnd'[h][i].type = "FINACK"
    BY <2>7, <2>8
  <2>10. SynsAreLate(h)'
    BY <2>5 DEF SynsAreLate, Left
  <2>11. GoIsLast(h)'
    BY <2>6, <2>9 DEF GoIsLast
  <2>12. DataIsGood(h)'
    BY <2>3, <2>5 DEF DataIsGood, Left
  <2>13. AnswersAreTrue(h) => AnswersAreTrue(h)'
    <3> SUFFICES ASSUME AnswersAreTrue(h), NEW i \in 1 .. Len(toSnd'[h]), toSnd'[h][i].type = "ACK"
                 PROVE  /\ firstMissing(toSnd'[h][i]) <= Len(files'[h])
                        /\ toSnd'[h][i].ack < snd[h].max_value
      BY <2>4, <2>5 DEF AnswersAreTrue
    <3>1. PICK m : m = toSnd'[h][i] /\ m = toSnd[h][i] /\ i \in 1 .. Len(toSnd[h])
      BY <2>9
    <3>2. firstMissing(m) <= Len(files[h]) /\ m.ack < snd[h].max_value
      BY <3>1 DEF AnswersAreTrue
    <3>3. m \in AnswersTo(h)
      BY <3>1, SessionTypes
    <3>4. firstMissing(m) \in Nat
      BY <3>1, <3>3, AckPacket
    <3> QED
      BY <2>3, <3>1, <3>2, <3>4
  <2>14. snd[h].phase = "DATA" => PacketsAreSent(h)'
    BY <2>4, <2>5 DEF PacketsAreSent, Left
  <2>15. snd[h].phase = "DATA" => Knows(h, snd[h], Len(files'[h]))
    <3> SUFFICES ASSUME snd[h].phase = "DATA"
                 PROVE  Knows(h, snd[h], Len(files'[h]))
      OBVIOUS
    <3>1. 1 \in 1 .. Len(toRcv[h]) /\ toRcv[h][1].type = "FIN"
      BY <1>1, Taken
    <3>2. snd[h].sent_fin
      BY <3>1 DEF Session, PacketsAreSent
    <3>3. Knows(h, snd[h], Len(files[h])) /\ Len(files'[h]) = Len(files[h])
      BY <2>3, <3>2 DEF Session, Knows
    <3> QED
      BY <3>3
  <2>16. snd[h].phase # "EXIT"
    BY <2>4 DEF Session
  <2>17. WindowIsGood'
    BY <2>1 DEF WindowIsGood, ConnectionTypes, Fresh
  <2> QED
    BY <2>3, <2>5, <2>10, <2>11, <2>12, <2>13, <2>14, <2>15, <2>16, <2>17 DEF Session, Knows
<1> QED
  BY <1>2, <1>3 DEF ReceiveFIN

(* The answer that goes with a window tells what the file holds when the   *)
(* window has been written to it.                                          *)
LEMMA AnswerSession ==
    ASSUME TypeInv, NEW h \in Hosts, Session(h), Served(h), Served(h)',
           NEW r, WindowOK(r, FileLen[h]), Good(r), r.window_min_seq = rcv.window_min_seq,
           snd[h].phase = "DATA" => WindowOK(r, snd[h].max_value),
           Answer(h, buildAckNak(r)), Grown(h, r), snd'[h] = snd[h], NEW type, Left(h, type),
           \A i \in 1 .. Len(toSnd[h]) : toSnd[h][i].type # "GO",
           \A i \in Slots : rcv'.window_buffer[i].received =>
                              rcv'.window_buffer[i] = r.window_buffer[i]
    PROVE  Session(h)'
<1>1. PICK m : m = buildAckNak(r)
  OBVIOUS
<1>2. m \in AnswersTo(h) /\ m.type = "ACK"
  BY <1>1, AckTypes DEF buildAckNak
<1>3. /\ Len(toSnd[h]) \in Nat
      /\ Len(toSnd'[h]) \in Len(toSnd[h]) .. Len(toSnd[h]) + 1
      /\ \A i \in 1 .. Len(toSnd[h]) : toSnd'[h][i] = toSnd[h][i]
      /\ \A i \in Len(toSnd[h]) + 1 .. Len(toSnd'[h]) : toSnd'[h][i] = m
  BY <1>1, <1>2, Answered
<1>4. \A i \in 1 .. Len(toSnd'[h]) :
        \/ i \in 1 .. Len(toSnd[h]) /\ toSnd'[h][i] = toSnd[h][i]
        \/ toSnd'[h][i] = m
  BY <1>3
<1>5. /\ FileIsGood(h)'
      /\ Len(files[h]) \in Nat /\ Len(files'[h]) \in Nat /\ Len(files[h]) <= Len(files'[h])
      /\ Len(files'[h]) <= FileLen[h]
  <2>1. FileIsGood(h)
    BY DEF Session
  <2> QED
    BY <2>1, GrowsGood
<1>c. PICK c : c = consecutive(r)
  OBVIOUS
<1>6. PICK mn \in Nat : mn = rcv.window_min_seq /\ c = consecutive(r)
  BY <1>c, Connected DEF Served
<1>7. Len(files'[h]) = mn + c /\ mn = r.window_min_seq
  BY <1>6 DEF Grown
<1>8. firstMissing(m) \in Nat /\ firstMissing(m) <= Len(files'[h])
  BY <1>1, <1>6, <1>7, LengthOfFile, AckOf
<1>9. snd[h].phase = "DATA" => m.ack < snd[h].max_value /\ Len(files'[h]) <= snd[h].max_value
  <2> SUFFICES ASSUME snd[h].phase = "DATA"
               PROVE  m.ack < snd[h].max_value /\ Len(files'[h]) <= snd[h].max_value
    OBVIOUS
  <2>1. PICK b \in Nat : b = snd[h].max_value
    BY SessionTypes
  <2>2. WindowOK(r, b)
    BY <2>1
  <2>3. m \in [type : {"ACK"}, ack : -1 .. b - 1, naks : SUBSET (0 .. b - 1)]
    BY <1>1, <2>2, AckOf
  <2>4. mn + c <= b
    BY <1>6, <1>7, <2>2, Consecutive
  <2> QED
    BY <1>7, <2>1, <2>3, <2>4
<1>10. SynsAreLate(h)'
  <2>1. snd'[h] = snd[h] /\ Left(h, type) /\ Served(h)'
    OBVIOUS
  <2> QED
    BY <2>1 DEF SynsAreLate, Left
<1>11. GoIsLast(h)'
  BY <1>2, <1>4 DEF GoIsLast
<1>12. DataIsGood(h)'
  BY <1>5 DEF DataIsGood, Left
<1>13. snd[h].phase = "DATA" => AnswersAreTrue(h)'
  <2> SUFFICES ASSUME snd[h].phase = "DATA", NEW i \in 1 .. Len(toSnd'[h])
               PROVE  /\ toSnd'[h][i].type = "ACK" =>
                           /\ firstMissing(toSnd'[h][i]) <= Len(files'[h])
                           /\ toSnd'[h][i].ack < snd[h].max_value
                      /\ toSnd'[h][i].type # "FINACK"
    BY DEF AnswersAreTrue
  <2>1. CASE i \in 1 .. Len(toSnd[h]) /\ toSnd'[h][i] = toSnd[h][i]
    <3>1. PICK x : x = toSnd'[h][i] /\ x = toSnd[h][i]
      BY <2>1
    <3>2. /\ x.type = "ACK" => firstMissing(x) <= Len(files[h]) /\ x.ack < snd[h].max_value
          /\ x.type # "FINACK"
      BY <2>1, <3>1 DEF Session, AnswersAreTrue
    <3>3. x \in AnswersTo(h)
      BY <2>1, <3>1, SessionTypes
    <3>4. x.type = "ACK" => firstMissing(x) \in Nat
      BY <3>3, AckPacket
    <3> QED
      BY <1>5, <3>1, <3>2, <3>4
  <2>2. CASE toSnd'[h][i] = m
    BY <1>2, <1>8, <1>9, <2>2
  <2> QED
    BY <1>4, <2>1, <2>2
<1>14. snd[h].phase = "DATA" => PacketsAreSent(h)'
  <2> SUFFICES ASSUME snd[h].phase = "DATA"
               PROVE  PacketsAreSent(h)'
    OBVIOUS
  <2>1. \A i \in Slots : rcv'.window_buffer[i].received =>
                           rcv'.window_buffer[i].seq_num < snd[h].max_value
    BY DEF WindowOK
  <2> QED
    BY <2>1 DEF PacketsAreSent, Left
<1>15. snd[h].phase = "DATA" => Knows(h, snd[h], Len(files'[h]))
  <2> SUFFICES ASSUME snd[h].phase = "DATA"
               PROVE  Knows(h, snd[h], Len(files'[h]))
    OBVIOUS
  <2>1. Knows(h, snd[h], Len(files[h]))
    BY DEF Session
  <2>2. /\ snd[h].start_seq \in Nat /\ FileLen[h] \in Nat /\ snd[h].max_value \in Nat
        /\ WINDOW_SIZE \in Nat
    BY SessionTypes, WindowAssumption
  <2> QED
    BY <1>5, <1>9, <2>1, <2>2 DEF Knows
<1>16. snd[h].phase # "EXIT"
  BY DEF Session
<1> QED
  BY <1>5, <1>10, <1>11, <1>12, <1>13, <1>14, <1>15, <1>16 DEF Session, Knows

LEMMA ReceiveDATASession ==
    ASSUME TypeInv, NEW h \in Hosts, Session(h), WindowIsGood, ReceiveDATA(h)
    PROVE  Session(h)' /\ WindowIsGood'
<1>1. Arrives(h, "DATA") /\ rcv.conn = h /\ Served(h)
  BY DEF ReceiveDATA, Served
<1>2. PICK m, k, d : m = Head(toRcv[h]) /\ k = m.seq_num /\ d = m.data
  OBVIOUS
<1>3. /\ m = toRcv[h][1] /\ m \in PacketsOf(h) /\ m.type = "DATA" /\ 1 \in 1 .. Len(toRcv[h])
      /\ snd'[h] = snd[h]
  BY <1>1, <1>2, Taken
<1>4. k \in Nat /\ k < FileLen[h] /\ d \in Data /\ FileLen[h] \in Nat
  BY <1>2, <1>3, DataPacket, LengthOfFile
<1>5. PICK r : r = stored(k, d)
  OBVIOUS
<1>6. /\ WindowOK(rcv, FileLen[h]) /\ Len(files[h]) = rcv.window_min_seq
      /\ rcv.window_min_seq \in Nat
  BY <1>1, Connected
<1>7. Left(h, "DATA") /\ \A i \in 1 .. Len(toSnd[h]) : toSnd[h][i].type # "GO"
  BY <1>1, PacketsLeft, NoGO
<1>8. d = k \/ k < Len(files[h])
  BY <1>2, <1>3 DEF Session, DataIsGood
<1>9. ASSUME k \in rcv.window_min_seq .. window_max_seq(rcv)
      PROVE  /\ WindowOK(r, FileLen[h]) /\ Good(r)
             /\ snd[h].phase = "DATA" => WindowOK(r, snd[h].max_value)
             /\ r.state = "RECV_DATA" /\ r.conn = h /\ r.window_min_seq = rcv.window_min_seq
  <2>1. /\ WindowOK(r, FileLen[h])
        /\ r.state = "RECV_DATA" /\ r.conn = h /\ r.window_min_seq = rcv.window_min_seq
        /\ \A i \in Slots :
             \/ r.window_buffer[i] = rcv.window_buffer[i]
             \/ r.window_buffer[i].seq_num = k /\ r.window_buffer[i].data = d
    <3>1. /\ WindowOK(r, FileLen[h])
          /\ r.state = "RECV_DATA" /\ r.conn = rcv.conn
          /\ r.window_min_seq = rcv.window_min_seq
          /\ \A i \in Slots :
               \/ r.window_buffer[i] = rcv.window_buffer[i]
               \/ /\ r.window_buffer[i].seq_num = k /\ r.window_buffer[i].data = d
                  /\ i = k % WINDOW_SIZE
      BY <1>4, <1>5, <1>6, <1>9, Stored
    <3> QED
      BY <1>1, <3>1
  <2>2. d = k
    BY <1>4, <1>6, <1>8, <1>9
  <2>3. Good(r)
    BY <2>1, <2>2 DEF Good, WindowIsGood
  <2>4. snd[h].phase = "DATA" => WindowOK(r, snd[h].max_value)
    <3> SUFFICES ASSUME snd[h].phase = "DATA"
                 PROVE  WindowOK(r, snd[h].max_value)
      OBVIOUS
    <3>1. k < snd[h].max_value
      BY <1>2, <1>3 DEF Session, PacketsAreSent
    <3>2. snd[h].max_value \in Nat /\ WindowOK(rcv, snd[h].max_value)
      BY <1>1, SentWindow
    <3> QED
      BY <1>4, <1>5, <1>9, <3>1, <3>2, Stored
  <2> QED
    BY <2>1, <2>3, <2>4
<1>10. CASE UNCHANGED <<rcv, files, toSnd>>
  BY <1>1, <1>10, IgnoredSession DEF WindowIsGood
<1>11. CASE inWindow(k) /\ rcv' = r /\ UNCHANGED <<files, toSnd>>
  <2>1. /\ WindowOK(r, FileLen[h]) /\ Good(r)
        /\ snd[h].phase = "DATA" => WindowOK(r, snd[h].max_value)
        /\ r.state = "RECV_DATA" /\ r.conn = h /\ r.window_min_seq = rcv.window_min_seq
    BY <1>9, <1>11 DEF inWindow
  <2>2. Served(h)'
    BY <1>11, <2>1 DEF Served
  <2>3. SynsAreLate(h)'
    BY <1>3, <1>7, <2>2 DEF SynsAreLate, Left
  <2>4. GoIsLast(h)'
    BY <1>7, <1>11 DEF GoIsLast
  <2>5. DataIsGood(h)' /\ FileIsGood(h)'
    BY <1>7, <1>11 DEF Session, DataIsGood, FileIsGood, Left
  <2>6. snd[h].phase = "DATA" => AnswersAreTrue(h)'
    BY <1>1, <1>3, <1>11 DEF Session, AnswersAreTrue
  <2>7. snd[h].phase = "DATA" => PacketsAreSent(h)'
    BY <1>3, <1>7, <1>11, <2>1 DEF PacketsAreSent, Left, WindowOK
  <2>8. snd[h].phase # "EXIT"
    BY <1>1 DEF Session
  <2>9. WindowIsGood'
    BY <1>11, <2>1 DEF WindowIsGood, Good
  <2> QED
    BY <1>3, <1>11, <2>3, <2>4, <2>5, <2>6, <2>7, <2>8, <2>9 DEF Session, Knows
<1>12. CASE /\ k = window_max_seq(rcv) /\ Answer(h, buildAckNak(r)) /\ WriteOut(h, r)
            /\ rcv' = clearWindow(r)
  <2>1. /\ WindowOK(r, FileLen[h]) /\ Good(r)
        /\ snd[h].phase = "DATA" => WindowOK(r, snd[h].max_value)
        /\ r.state = "RECV_DATA" /\ r.conn = h /\ r.window_min_seq = rcv.window_min_seq
    <3>1. k \in rcv.window_min_seq .. window_max_seq(rcv)
      BY <1>4, <1>6, <1>12, WindowAssumption DEF window_max_seq
    <3> QED
      BY <1>9, <3>1
  <2>2. Moved(r, rcv')
    BY <1>4, <1>12, <2>1, Cleared
  <2>3. /\ rcv'.conn = h /\ rcv'.state = "RECV_DATA"
        /\ \A i \in Slots : rcv'.window_buffer[i].received =>
                              rcv'.window_buffer[i] = r.window_buffer[i]
    BY <2>1, <2>2 DEF Moved
  <2>4. Grown(h, r)
    BY <1>1, <1>12, <2>1, WrittenOut
  <2>5. Served(h)' /\ WindowIsGood'
    BY <2>1, <2>3 DEF Served, WindowIsGood, Good
  <2> QED
    BY <1>1, <1>3, <1>7, <1>12, <2>1, <2>3, <2>4, <2>5, AnswerSession
<1> QED
  BY <1>2, <1>5, <1>10, <1>11, <1>12 DEF ReceiveDATA

(* A timer of the receiver that fires when nothing is on the way.          *)
LEMMA ReceiverTimeoutSession ==
    ASSUME TypeInv, NEW h \in Hosts, rcv.conn = h, Session(h), WindowIsGood,
           ReceiverTimeout, early' = early
    PROVE  Session(h)' /\ WindowIsGood'
<1>1. TimerFires(h) /\ snd' = snd /\ toRcv' = toRcv /\ Served(h)
  BY DEF ReceiverTimeout, Served
<1>2. toRcv[h] = <<>> /\ toSnd[h] = <<>>
  BY <1>1, NothingOnTheWay DEF TypeInv, Counters
<1>3. /\ Len(toRcv'[h]) = 0 /\ Len(toSnd[h]) = 0
      /\ \A i \in 1 .. Len(toSnd[h]) : toSnd[h][i].type # "GO"
  BY <1>1, <1>2
<1>4. ~ \E i \in 1 .. Len(toRcv'[h]) : TRUE
  BY <1>3
<1>5. Left(h, "DATA")
  BY <1>4 DEF Left
<1>6. WindowOK(rcv, FileLen[h]) /\ Good(rcv) /\ FileIsGood(h) /\ FileLen[h] \in Nat
  BY Connected, LengthOfFile DEF WindowIsGood, Good, Session
<1>7. snd[h].phase = "DATA" => WindowOK(rcv, snd[h].max_value)
  BY <1>1, SentWindow
<1>8. CASE closeConnection /\ UNCHANGED toSnd
  <2>1. /\ Grown(h, rcv) /\ rcv'.conn = NoHost /\ rcv'.state = "IDLE"
        /\ ConnectionTypes'
    BY <1>8, Closed
  <2>2. /\ FileIsGood(h)'
        /\ Len(files[h]) \in Nat /\ Len(files'[h]) \in Nat /\ Len(files[h]) <= Len(files'[h])
        /\ Len(files'[h]) <= FileLen[h]
    BY <1>6, <2>1, GrowsGood
  <2>3. ~ Served(h)' /\ WindowIsGood'
    BY <2>1, HostsAssumption DEF Served, WindowIsGood, ConnectionTypes, Fresh
  <2>4. ~ \E i \in 1 .. Len(toSnd'[h]) : TRUE
    BY <1>3, <1>8
  <2>5. /\ SynsAreLate(h)' /\ GoIsLast(h)' /\ DataIsGood(h)' /\ AnswersAreTrue(h)'
        /\ PacketsAreSent(h)'
    BY <1>4, <2>3, <2>4 DEF SynsAreLate, GoIsLast, DataIsGood, AnswersAreTrue, PacketsAreSent
  <2>6. snd[h].phase = "DATA" => Knows(h, snd[h], Len(files'[h]))
    <3> SUFFICES ASSUME snd[h].phase = "DATA"
                 PROVE  Knows(h, snd[h], Len(files'[h]))
      OBVIOUS
    <3>1. Knows(h, snd[h], Len(files[h]))
      BY DEF Session
    <3>2. PICK b, c : b = snd[h].max_value /\ c = consecutive(rcv)
      OBVIOUS
    <3>3. b \in Nat /\ rcv.window_min_seq + c <= b
      BY <1>1, <1>7, <3>2, SentWindow, Consecutive
    <3>4. Len(files'[h]) <= b
      BY <2>1, <3>2, <3>3 DEF Grown
    <3>5. /\ snd[h].start_seq \in Nat /\ FileLen[h] \in Nat /\ snd[h].max_value \in Nat
          /\ WINDOW_SIZE \in Nat
      BY SessionTypes, WindowAssumption
    <3> QED
      BY <2>2, <3>1, <3>2, <3>4, <3>5 DEF Knows
  <2>7. snd[h].phase # "EXIT"
    BY <1>1 DEF Session
  <2> QED
    BY <1>1, <2>2, <2>3, <2>5, <2>6, <2>7 DEF Session, Knows
<1>9. CASE /\ Answer(h, buildAckNak(rcv)) /\ WriteOut(h, rcv)
           /\ rcv' = [clearWindow(rcv) EXCEPT !.state = "WAIT_RESPONSE"]
  <2>1. PICK u \in Receivers : u = clearWindow(rcv) /\ Moved(rcv, u)
    BY <1>6, Cleared DEF Moved
  <2>2. rcv' = [u EXCEPT !.state = "WAIT_RESPONSE"]
    BY <1>9, <2>1
  <2>3. /\ rcv'.conn = u.conn /\ rcv'.window_buffer = u.window_buffer
        /\ rcv'.window_min_seq = u.window_min_seq
    BY <2>1, <2>2 DEF Receivers
  <2>4. /\ \A i \in Slots : rcv'.window_buffer[i].received =>
                              rcv'.window_buffer[i] = rcv.window_buffer[i]
        /\ rcv'.conn = h /\ ~ has(rcv', rcv'.window_min_seq)
    BY <2>1, <2>3 DEF Moved, has
  <2>5. Grown(h, rcv)
    BY <1>6, <1>9, WrittenOut
  <2>6. Served(h)' /\ WindowIsGood'
    BY <1>6, <2>4 DEF Served, WindowIsGood, Good
  <2> QED
    BY <1>1, <1>3, <1>5, <1>6, <1>7, <1>9, <2>4, <2>5, <2>6, AnswerSession
<1>10. CASE /\ rcv.state = "WAIT_RESPONSE" /\ Answer(h, buildAckNak(rcv))
            /\ rcv' = [rcv EXCEPT !.retryCounter = retried] /\ UNCHANGED files
  <2>1. ~ has(rcv, rcv.window_min_seq)
    BY <1>10 DEF WindowIsGood
  <2>c. PICK c : c = consecutive(rcv)
    OBVIOUS
  <2>2. PICK mn \in Nat : mn = rcv.window_min_seq /\ c = consecutive(rcv)
    BY <2>c, Connected
  <2>3. c = 0
    <3>1. c \in 0 .. WINDOW_SIZE /\ \A k \in mn .. mn + c - 1 : has(rcv, k)
      BY <1>6, <2>2, Consecutive
    <3>2. c # 0 => mn \in mn .. mn + c - 1
      BY <2>2, <3>1, WindowAssumption
    <3> QED
      BY <2>1, <2>2, <3>1, <3>2
  <2>4. Grown(h, rcv)
    <3>1. /\ files[h] \in Seq(Data) /\ Len(files[h]) <= FileLen[h] /\ files'[h] = files[h]
          /\ Len(files[h]) = rcv.window_min_seq
      BY <1>10, Connected DEF TypeInv, HostTypes
    <3>2. ~ \E k \in Len(files[h]) + 1 .. Len(files'[h]) : TRUE
      BY <2>2, <3>1
    <3>3. Len(files'[h]) = rcv.window_min_seq + consecutive(rcv)
      BY <2>2, <2>3, <3>1
    <3> QED
      BY <3>1, <3>2, <3>3 DEF Grown
  <2>5. PICK u \in Receivers : u = rcv
    BY Connected
  <2>6. rcv'.conn = u.conn /\ rcv'.window_buffer = u.window_buffer
        /\ rcv'.window_min_seq = u.window_min_seq
    BY <1>10, <2>5 DEF Receivers
  <2>7. Served(h)' /\ WindowIsGood'
    BY <1>6, <2>1, <2>5, <2>6 DEF Served, WindowIsGood, Good, has
  <2> QED
    BY <1>1, <1>3, <1>5, <1>6, <1>7, <1>10, <2>4, <2>5, <2>6, <2>7, AnswerSession
<1> QED
  BY <1>8, <1>9, <1>10 DEF ReceiverTimeout

LEMMA TransferInit == Init => TransferInv
<1> SUFFICES ASSUME Init
             PROVE  TransferInv
  OBVIOUS
<1>1. /\ rcv = idle /\ files = [h \in Hosts |-> <<>>] /\ snd = [h \in Hosts |-> sender]
      /\ toRcv = [h \in Hosts |-> <<SYN>>] /\ toSnd = [h \in Hosts |-> <<>>]
  BY DEF Init
<1>2. WindowIsGood
  BY <1>1, IdleOK DEF WindowIsGood, idle
<1>3. ASSUME NEW h \in Hosts
      PROVE  Session(h)
  <2>1. /\ files[h] = <<>> /\ snd[h].phase = "SYN" /\ toSnd[h] = <<>> /\ toRcv[h] = <<SYN>>
        /\ ~ snd[h].misled
    BY <1>1, FreshSender
  <2>2. Len(files[h]) = 0 /\ Len(toSnd[h]) = 0 /\ Len(toRcv[h]) = 1 /\ toRcv[h][1].type = "SYN"
    BY <2>1 DEF SYN
  <2>3. ~ \E i \in 1 .. Len(toSnd[h]) : TRUE
    BY <2>2
  <2>4. ~ \E i \in 1 .. Len(files[h]) : TRUE
    BY <2>2
  <2>5. \A i \in 1 .. Len(toRcv[h]) : toRcv[h][i].type = "SYN" /\ ~ \E j \in i + 1 .. Len(toRcv[h]) : TRUE
    BY <2>2
  <2>6. SynsAreLate(h) /\ GoIsLast(h) /\ DataIsGood(h) /\ FileIsGood(h)
    BY <2>1, <2>3, <2>4, <2>5 DEF SynsAreLate, GoIsLast, DataIsGood, FileIsGood
  <2> QED
    BY <2>1, <2>6 DEF Session
<1> QED
  BY <1>2, <1>3 DEF TransferInv

(* early counts: it does not change while it is 0.                         *)
LEMMA EarlyCounts ==
    ASSUME TypeInv, NEW h \in Hosts, StepOf(h), early' = 0
    PROVE  early = 0 /\ early' = early
<1>1. early \in Nat
  BY DEF TypeInv, Counters
<1>2. early' = early \/ early' = early + 1
  BY DEF StepOf, ReceiverStep, SenderStep, SenderTimeout, Lose, Kill, RunAgain, ReceiverTimeout,
     ReceiveFIN, ReceiveSYN, ReceiveDATA, ReceiveStrayDATA, IgnorePacket, Arrives,
     ReceiveGO, PingAgain, ReceiveACK, ReceiveLateGO, ReceiveFINACK, DropAtGone, SndReceives,
     SynTimeout, FinTimeout, DataTimeout, TimerFires
<1> QED
  BY <1>1, <1>2

LEMMA StepSession ==
    ASSUME TypeInv, NEW h \in Hosts, StepOf(h), Session(h), WindowIsGood, early' = early
    PROVE  Session(h)' /\ WindowIsGood'
<1>0. ConnectionTypes
  BY DEF TypeInv
<1>1. CASE ReceiverStep(h)
  <2>1. CASE ReceiveFIN(h)
    BY <2>1, ReceiveFINSession
  <2>2. CASE ReceiveSYN(h)
    BY <2>2, ReceiveSYNSession
  <2>3. CASE ReceiveDATA(h)
    BY <2>3, ReceiveDATASession
  <2>4. CASE ReceiveStrayDATA(h)
    <3>1. /\ Arrives(h, "DATA") /\ ~ Served(h) /\ Answer(h, FINACK) /\ UNCHANGED <<rcv, files>>
      BY <2>4, HostsAssumption DEF ReceiveStrayDATA, Served
    <3> QED
      BY <3>1, RefusedSession DEF WindowIsGood
  <2>5. CASE IgnorePacket(h)
    <3>1. PICK type : Arrives(h, type) /\ UNCHANGED <<rcv, files, toSnd>>
      BY <2>5 DEF IgnorePacket
    <3> QED
      BY <3>1, IgnoredSession DEF WindowIsGood
  <2> QED
    BY <1>1, <2>1, <2>2, <2>3, <2>4, <2>5 DEF ReceiverStep
<1>2. ASSUME SenderStep(h) \/ SenderTimeout(h) \/ Lose(h) \/ Kill(h) \/ RunAgain(h)
      PROVE  Session(h)'
  BY <1>0, <1>2, ReceiveGOSession, PingAgainSession, ReceiveACKSession, NoLateGO,
     ReceiveFINACKSession, DropAtGoneSession, RunAgainSession, FinTimeoutSession,
     DataTimeoutSession, LoseSession, KillSession DEF SenderStep, SenderTimeout
<1>3. ASSUME SenderStep(h) \/ SenderTimeout(h) \/ Lose(h) \/ Kill(h) \/ RunAgain(h)
      PROVE  rcv' = rcv
  BY <1>3 DEF SenderStep, SenderTimeout, Lose, Kill, RunAgain, ReceiveGO, PingAgain, ReceiveACK,
     ReceiveLateGO, ReceiveFINACK, DropAtGone, SndReceives, SynTimeout, FinTimeout, DataTimeout
<1>4. CASE rcv.conn = h /\ ReceiverTimeout
  BY <1>4, ReceiverTimeoutSession
<1>5. rcv' = rcv => WindowIsGood'
  BY DEF WindowIsGood
<1> QED
  BY <1>1, <1>2, <1>3, <1>4, <1>5 DEF StepOf

LEMMA TransferNext == TypeInv /\ TransferInv /\ [Next]_vars => TransferInv'
<1> SUFFICES ASSUME TypeInv, TransferInv, [Next]_vars, early' = 0
             PROVE  WindowIsGood' /\ \A g \in Hosts : Session(g)'
  BY DEF TransferInv
<1>1. CASE UNCHANGED vars
  BY <1>1 DEF vars, TransferInv, WindowIsGood, Session, SynsAreLate, GoIsLast, DataIsGood,
     FileIsGood, AnswersAreTrue, PacketsAreSent, Knows, Served
<1>2. CASE Next
  <2>1. PICK h \in Hosts : StepOf(h)
    BY <1>2, EveryStep
  <2>2. early = 0 /\ early' = early
    BY <2>1, EarlyCounts
  <2>3. WindowIsGood /\ \A g \in Hosts : Session(g)
    BY <2>2 DEF TransferInv
  <2>4. Session(h)' /\ WindowIsGood'
    BY <2>1, <2>2, <2>3, StepSession
  <2>5. Changed(h)
    BY <2>1, StepTypes DEF TypesAfter
  <2>6. \A g \in Hosts : g # h => Session(g)'
    BY <2>3, <2>5, OthersKept
  <2> QED
    BY <2>4, <2>6
<1> QED
  BY <1>1, <1>2

(* Every timer that fires finds nothing on the way.                        *)
THEOREM TransferAlways == Spec => []TransferInv
<1> QED
  BY TypesAlways, TransferInit, TransferNext, PTL DEF Spec

-----------------------------------------------------------------------------
(* A transfer, as long as no ncp is killed, with timers that fire early.   *)
(* First the order of what is on the way.                                  *)

(* A packet of type t is in the queue q.                                   *)
Holds(q, t) == \E i \in 1 .. Len(q) : q[i].type = t

(* The packets behind one of type t are of the types T.                    *)
Behind(q, t, T) ==
    \A j \in 1 .. Len(q) : \A i \in 1 .. j - 1 : q[i].type = t => q[j].type \in T

LEMMA PartHolds ==
    ASSUME NEW p, NEW q, PartOf(p, q), Len(p) \in Nat, Len(q) \in Nat
    PROVE  /\ \A t : Holds(p, t) => Holds(q, t)
           /\ \A t, T : Behind(q, t, T) => Behind(p, t, T)
<1>1. PICK at \in [1 .. Len(p) -> 1 .. Len(q)] :
         /\ \A i \in 1 .. Len(p) : p[i] = q[at[i]]
         /\ \A i, j \in 1 .. Len(p) : i < j => at[i] < at[j]
  BY DEF PartOf
<1>2. \A i \in 1 .. Len(p) : at[i] \in 1 .. Len(q)
  OBVIOUS
<1>3. ASSUME NEW t, Holds(p, t)
      PROVE  Holds(q, t)
  BY <1>1, <1>2, <1>3 DEF Holds
<1>4. ASSUME NEW t, NEW T, Behind(q, t, T), NEW j \in 1 .. Len(p), NEW i \in 1 .. j - 1,
             p[i].type = t
      PROVE  p[j].type \in T
  <2>1. i \in 1 .. Len(p) /\ i < j
    OBVIOUS
  <2>2. at[i] \in 1 .. Len(q) /\ at[j] \in 1 .. Len(q) /\ at[i] < at[j]
    BY <1>1, <1>2, <2>1
  <2>3. at[i] \in 1 .. at[j] - 1
    BY <2>2
  <2>4. p[i] = q[at[i]] /\ p[j] = q[at[j]]
    BY <1>1, <2>1
  <2> QED
    BY <1>4, <2>2, <2>3, <2>4 DEF Behind
<1> QED
  BY <1>3, <1>4 DEF Behind

LEMMA NothingBehind ==
    ASSUME NEW q, Len(q) \in Nat, NEW t, ~ Holds(q, t), NEW T
    PROVE  Behind(q, t, T)
<1>1. \A j \in 1 .. Len(q) : \A i \in 1 .. j - 1 : i \in 1 .. Len(q)
  OBVIOUS
<1> QED
  BY <1>1 DEF Behind, Holds

LEMMA TailHolds ==
    ASSUME NEW p, NEW q, Len(q) \in Nat, Len(q) >= 1, Len(p) = Len(q) - 1,
           \A i \in 1 .. Len(p) : p[i] = q[i + 1]
    PROVE  /\ Holds(q, q[1].type)
           /\ \A t : Holds(p, t) => Holds(q, t)
           /\ \A t, T : Behind(q, t, T) => Behind(p, t, T)
           /\ \A t, T : Behind(q, q[1].type, T) /\ Holds(p, t) => t \in T
<1>1. PartOf(p, q)
  BY TailIsPart
<1>2. Holds(q, q[1].type)
  BY DEF Holds
<1>3. ASSUME NEW t, NEW T, Behind(q, q[1].type, T), Holds(p, t)
      PROVE  t \in T
  <2>1. PICK i \in 1 .. Len(p) : p[i].type = t
    BY <1>3 DEF Holds
  <2>2. i + 1 \in 1 .. Len(q) /\ 1 \in 1 .. (i + 1) - 1 /\ q[i + 1].type = t
    BY <2>1
  <2> QED
    BY <1>3, <2>2 DEF Behind
<1> QED
  BY <1>1, <1>2, <1>3, PartHolds

LEMMA MoreHolds ==
    ASSUME NEW p, NEW q, NEW S, Len(q) \in Nat, Len(p) \in Nat, Len(q) <= Len(p),
           \A i \in 1 .. Len(q) : p[i] = q[i],
           \A i \in Len(q) + 1 .. Len(p) : p[i].type \in S
    PROVE  /\ \A t : Holds(p, t) => Holds(q, t) \/ t \in S
           /\ \A t, T : Behind(q, t, T) /\ (Holds(q, t) \/ t \in S => S \subseteq T)
                          => Behind(p, t, T)
<1>1. ASSUME NEW t, Holds(p, t)
      PROVE  Holds(q, t) \/ t \in S
  <2>1. PICK i \in 1 .. Len(p) : p[i].type = t
    BY <1>1 DEF Holds
  <2>2. CASE i <= Len(q)
    <3>1. i \in 1 .. Len(q)
      BY <2>2
    <3> QED
      BY <3>1, <2>1 DEF Holds
  <2>3. CASE ~ (i <= Len(q))
    <3>1. i \in Len(q) + 1 .. Len(p)
      BY <2>3
    <3> QED
      BY <3>1, <2>1
  <2> QED
    BY <2>2, <2>3
<1>2. ASSUME NEW t, NEW T, Behind(q, t, T), Holds(q, t) \/ t \in S => S \subseteq T,
             NEW j \in 1 .. Len(p), NEW i \in 1 .. j - 1, p[i].type = t
      PROVE  p[j].type \in T
  <2>1. CASE j <= Len(q)
    <3>1. j \in 1 .. Len(q) /\ i \in 1 .. Len(q)
      BY <2>1
    <3> QED
      BY <3>1, <1>2 DEF Behind
  <2>2. CASE ~ (j <= Len(q))
    <3>1. j \in Len(q) + 1 .. Len(p) /\ i \in 1 .. Len(p)
      BY <2>2
    <3>2. Holds(p, t)
      BY <3>1, <1>2 DEF Holds
    <3> QED
      BY <3>1, <3>2, <1>1, <1>2
  <2> QED
    BY <2>1, <2>2
<1> QED
  BY <1>1, <1>2 DEF Behind

-----------------------------------------------------------------------------
(* A host that asks for a connection: a GO, or the connection, is the      *)
(* answer to a SYN of this transfer, and nothing of an earlier one is left *)
(* to be taken for it.                                                     *)
Asks(h, q, a) ==
    /\ Len(files[h]) = 0
    /\ ~ Holds(q, "FIN") /\ ~ Holds(a, "ACK")
    /\ Behind(q, "SYN", {"SYN"}) /\ Behind(a, "GO", {"GO"})
    /\ Holds(a, "GO") \/ Served(h) => ~ Holds(q, "DATA")
    /\ Served(h) => rcv.state = "WAITING_DATA"

(* The receiver has taken a packet of the transfer.                        *)
Begun(h, a) ==
    \/ Served(h) /\ rcv.state \in {"RECV_DATA", "WAIT_RESPONSE"}
    \/ Len(files[h]) > 0
    \/ Holds(a, "ACK")

(* A host that sends its file: SYNs come before all other packets, and     *)
(* once the transfer has begun no SYN is left and only a FIN ends it.      *)
Talks(h, fin, q, a) ==
    /\ Behind(q, "FIN", {"FIN", "DATA"}) /\ Behind(q, "DATA", {"FIN", "DATA"})
    /\ Holds(q, "FIN") => fin
    /\ Holds(a, "FINACK") => ~ Holds(q, "SYN") /\ ~ Served(h)
    /\ Behind(a, "FINACK", {"FINACK", "ACK"})
    /\ Begun(h, a) => ~ Holds(q, "SYN") /\ (Served(h) \/ fin)
    /\ Served(h) /\ rcv.state = "WAITING_DATA" => ~ Holds(a, "ACK")

Order(h) ==
    /\ snd[h].phase \in {"SYN", "DATA", "EXIT"}
    /\ snd[h].phase = "SYN" => Asks(h, toRcv[h], toSnd[h])
    /\ snd[h].phase = "DATA" => Talks(h, snd[h].sent_fin, toRcv[h], toSnd[h])
    /\ snd[h].phase = "EXIT" => ~ Holds(toRcv[h], "SYN") /\ ~ Served(h)

(* The receiver never counts to RECV_NUM_RETRY_ACK where it compares.      *)
NeverGivesUp == rcv.state = "RECV_DATA" => rcv.retryCounter = 0

(* Packets and answers may be lost, or taken without an effect.            *)
LEMMA FewerOrder ==
    ASSUME TypeInv, NEW h \in Hosts, Order(h), rcv' = rcv, files' = files, snd'[h] = snd[h],
           PartOf(toRcv'[h], toRcv[h]), PartOf(toSnd'[h], toSnd[h]),
           Len(toRcv'[h]) \in Nat, Len(toSnd'[h]) \in Nat
    PROVE  Order(h)'
<1>1. /\ \A t : Holds(toRcv'[h], t) => Holds(toRcv[h], t)
      /\ \A t, T : Behind(toRcv[h], t, T) => Behind(toRcv'[h], t, T)
  BY PartHolds, SessionTypes
<1>2. /\ \A t : Holds(toSnd'[h], t) => Holds(toSnd[h], t)
      /\ \A t, T : Behind(toSnd[h], t, T) => Behind(toSnd'[h], t, T)
  BY PartHolds, SessionTypes
<1>3. Asks(h, toRcv[h], toSnd[h]) => Asks(h, toRcv[h], toSnd[h])'
  BY <1>1, <1>2 DEF Asks, Served
<1>4. Talks(h, snd[h].sent_fin, toRcv[h], toSnd[h])
        => Talks(h, snd[h].sent_fin, toRcv[h], toSnd[h])'
  BY <1>1, <1>2 DEF Talks, Begun, Served
<1> QED
  BY <1>1, <1>3, <1>4 DEF Order, Served

(* A sender that begins, or begins again.                                  *)
LEMMA PingOrder ==
    ASSUME TypeInv, NEW h \in Hosts, Pings(h), rcv' = rcv, files' = files,
           Asks(h, toRcv[h], toSnd'[h])
    PROVE  Order(h)'
<1>1. /\ snd'[h].phase = "SYN" /\ Len(toRcv[h]) \in Nat
      /\ Appended(toRcv'[h], toRcv[h], SYN)
  BY Pinged
<1>2. /\ \A t : Holds(toRcv'[h], t) => Holds(toRcv[h], t) \/ t \in {"SYN"}
      /\ \A t, T : /\ Behind(toRcv[h], t, T)
                   /\ Holds(toRcv[h], t) \/ t \in {"SYN"} => {"SYN"} \subseteq T
                   => Behind(toRcv'[h], t, T)
  <2>1. /\ Len(toRcv'[h]) \in Nat /\ Len(toRcv[h]) <= Len(toRcv'[h])
        /\ \A i \in 1 .. Len(toRcv[h]) : toRcv'[h][i] = toRcv[h][i]
        /\ \A i \in Len(toRcv[h]) + 1 .. Len(toRcv'[h]) : toRcv'[h][i].type \in {"SYN"}
    BY <1>1 DEF Appended, SYN
  <2> QED
    BY <1>1, <2>1, MoreHolds
<1>3. Asks(h, toRcv[h], toSnd[h])'
  BY <1>2 DEF Asks, Served
<1> QED
  BY <1>1, <1>3 DEF Order

(* The loop sends data, and a FIN at the end.                              *)
LEMMA LoopOrder ==
    ASSUME TypeInv, NEW h \in Hosts, NEW s, BeforeLoop(h, s), Continue(h, s),
           rcv' = rcv, files' = files, Talks(h, s.sent_fin, toRcv[h], toSnd'[h])
    PROVE  Order(h)'
<1>1. /\ snd'[h].phase = "DATA" /\ snd'[h] = looped(h, s)
      /\ Len(toRcv[h]) \in Nat /\ Len(toRcv'[h]) \in Nat /\ Len(toRcv[h]) <= Len(toRcv'[h])
      /\ \A i \in 1 .. Len(toRcv[h]) : toRcv'[h][i] = toRcv[h][i]
      /\ \A i \in Len(toRcv[h]) + 1 .. Len(toRcv'[h]) : Sends(h, s, snd'[h], toRcv'[h][i])
  BY Continued
<1>2. s.sent_fin => snd'[h].sent_fin
  BY <1>1 DEF looped, mayRead
<1>3. PICK S : S = IF snd'[h].sent_fin THEN {"FIN", "DATA"} ELSE {"DATA"}
  OBVIOUS
<1>4. S \subseteq {"FIN", "DATA"} /\ ("FIN" \in S => snd'[h].sent_fin) /\ "SYN" \notin S
  BY <1>3
<1>5. \A m : Sends(h, s, snd'[h], m) => m.type \in S
  BY <1>3 DEF Sends, Again, DATA, FIN
<1>6. /\ \A t : Holds(toRcv'[h], t) => Holds(toRcv[h], t) \/ t \in S
      /\ \A t, T : /\ Behind(toRcv[h], t, T)
                   /\ Holds(toRcv[h], t) \/ t \in S => S \subseteq T
                   => Behind(toRcv'[h], t, T)
  BY <1>1, <1>5, MoreHolds
<1>7. Talks(h, snd[h].sent_fin, toRcv[h], toSnd[h])'
  BY <1>2, <1>4, <1>6 DEF Talks, Begun, Served
<1> QED
  BY <1>1, <1>7 DEF Order

(* The sender's steps.                                                     *)
LEMMA ReceiveGOOrder ==
    ASSUME TypeInv, NEW h \in Hosts, Order(h), ReceiveGO(h)
    PROVE  Order(h)'
<1>1. PICK s : s = [snd[h] EXCEPT !.phase = "DATA"]
  OBVIOUS
<1>2. /\ snd[h].phase = "SYN" /\ SenderOK(h, snd[h]) /\ snd[h] \in Senders
      /\ s.sent_fin = snd[h].sent_fin
  BY <1>1 DEF ReceiveGO, SndReceives, TypeInv, HostTypes, SenderOK, Reads, Senders
<1>3. BeforeLoop(h, s) /\ Continue(h, s) /\ rcv' = rcv /\ files' = files
  BY <1>1, <1>2, BeforeLoopCases DEF ReceiveGO, SndReceives
<1>4. /\ toSnd[h][1].type \in {"GO"} /\ SndReceives(h, "SYN", {"GO"})
      /\ Len(toSnd[h]) \in Nat /\ Len(toSnd[h]) >= 1 /\ Len(toSnd'[h]) = Len(toSnd[h]) - 1
      /\ \A i \in 1 .. Len(toSnd'[h]) : toSnd'[h][i] = toSnd[h][i + 1]
  BY Received DEF ReceiveGO
<1>5. /\ Holds(toSnd[h], "GO") /\ \A t : Holds(toSnd'[h], t) => t \in {"GO"}
      /\ \A t, T : Behind(toSnd[h], t, T) => Behind(toSnd'[h], t, T)
  <2>1. Asks(h, toRcv[h], toSnd[h])
    BY <1>2 DEF Order
  <2>2. toSnd[h][1].type = "GO"
    BY <1>4
  <2>3. /\ Holds(toSnd[h], toSnd[h][1].type)
        /\ \A t, T : Behind(toSnd[h], t, T) => Behind(toSnd'[h], t, T)
        /\ \A t, T : Behind(toSnd[h], toSnd[h][1].type, T) /\ Holds(toSnd'[h], t) => t \in T
    BY <1>4, TailHolds
  <2> QED
    BY <2>1, <2>2, <2>3 DEF Asks
<1>6. \A t : Holds(toRcv[h], t) => t = "SYN"
  <2>1. \A i \in 1 .. Len(toRcv[h]) : toRcv[h][i].type \in {"SYN", "FIN", "DATA"}
    BY SessionTypes DEF PacketsOf, SYN, FIN
  <2> QED
    BY <2>1, <1>2, <1>5 DEF Order, Asks, Holds
<1>7. ASSUME NEW T
      PROVE  Behind(toRcv[h], "FIN", T) /\ Behind(toRcv[h], "DATA", T) /\ Behind(toSnd'[h], "FINACK", T)
  <2>1. ~ Holds(toRcv[h], "FIN") /\ ~ Holds(toRcv[h], "DATA") /\ ~ Holds(toSnd'[h], "FINACK")
    BY <1>5, <1>6
  <2>2. Len(toRcv[h]) \in Nat /\ Len(toSnd'[h]) \in Nat
    BY <1>4, SessionTypes
  <2> QED
    BY <2>1, <2>2, NothingBehind
<1>8. Talks(h, s.sent_fin, toRcv[h], toSnd'[h])
  BY <1>2, <1>5, <1>6, <1>7 DEF Order, Asks, Talks, Begun
<1> QED
  BY <1>3, <1>8, LoopOrder

(* A packet is taken from the queue to the sender.                         *)
LEMMA AnswerTaken ==
    ASSUME TypeInv, NEW h \in Hosts, NEW phase, NEW types, SndReceives(h, phase, types)
    PROVE  /\ snd[h].phase = phase /\ toSnd[h][1].type \in types
           /\ toSnd[h][1] = Head(toSnd[h]) /\ toSnd[h][1] \in AnswersTo(h)
           /\ rcv' = rcv /\ files' = files
           /\ Len(toSnd'[h]) \in Nat
           /\ Holds(toSnd[h], toSnd[h][1].type)
           /\ \A t : Holds(toSnd'[h], t) => Holds(toSnd[h], t)
           /\ \A t, T : Behind(toSnd[h], t, T) => Behind(toSnd'[h], t, T)
           /\ \A t, T : Behind(toSnd[h], toSnd[h][1].type, T) /\ Holds(toSnd'[h], t) => t \in T
<1>1. /\ toSnd[h][1].type \in types /\ snd[h].phase = phase /\ rcv' = rcv /\ files' = files
      /\ toSnd[h][1] = Head(toSnd[h]) /\ toSnd[h][1] \in AnswersTo(h)
      /\ Len(toSnd[h]) \in Nat /\ Len(toSnd[h]) >= 1 /\ Len(toSnd'[h]) = Len(toSnd[h]) - 1
      /\ \A i \in 1 .. Len(toSnd'[h]) : toSnd'[h][i] = toSnd[h][i + 1]
  BY Received
<1>2. /\ Holds(toSnd[h], toSnd[h][1].type)
      /\ \A t : Holds(toSnd'[h], t) => Holds(toSnd[h], t)
      /\ \A t, T : Behind(toSnd[h], t, T) => Behind(toSnd'[h], t, T)
      /\ \A t, T : Behind(toSnd[h], toSnd[h][1].type, T) /\ Holds(toSnd'[h], t) => t \in T
  BY <1>1, TailHolds
<1> QED
  BY <1>1, <1>2

LEMMA PingAgainOrder ==
    ASSUME TypeInv, NEW h \in Hosts, Order(h), PingAgain(h)
    PROVE  Order(h)'
<1>1. /\ snd[h].phase = "SYN" /\ rcv' = rcv /\ files' = files
      /\ \A t : Holds(toSnd'[h], t) => Holds(toSnd[h], t)
      /\ \A t, T : Behind(toSnd[h], t, T) => Behind(toSnd'[h], t, T)
  BY AnswerTaken DEF PingAgain
<1>2. Asks(h, toRcv[h], toSnd'[h])
  BY <1>1 DEF Order, Asks
<1> QED
  BY <1>1, <1>2, PingOrder DEF PingAgain

LEMMA SynTimeoutOrder ==
    ASSUME TypeInv, NEW h \in Hosts, Order(h), SynTimeout(h)
    PROVE  Order(h)'
<1>1. Pings(h) /\ rcv' = rcv /\ files' = files /\ toSnd' = toSnd
  BY DEF SynTimeout
<1>2. Asks(h, toRcv[h], toSnd'[h])
  BY <1>1 DEF Order, SynTimeout
<1> QED
  BY <1>1, <1>2, PingOrder

LEMMA ReceiveACKOrder ==
    ASSUME TypeInv, NEW h \in Hosts, Order(h), ReceiveACK(h) \/ ReceiveLateGO(h)
    PROVE  Order(h)'
<1>1. PICK types : SndReceives(h, "DATA", types)
  BY DEF ReceiveACK, ReceiveLateGO
<1>2. /\ snd[h].phase = "DATA" /\ rcv' = rcv /\ files' = files
      /\ \A t : Holds(toSnd'[h], t) => Holds(toSnd[h], t)
      /\ \A t, T : Behind(toSnd[h], t, T) => Behind(toSnd'[h], t, T)
  BY <1>1, AnswerTaken
<1>3. Talks(h, snd[h].sent_fin, toRcv[h], toSnd'[h])
  BY <1>2 DEF Order, Talks, Begun
<1>4. SenderOK(h, snd[h]) /\ snd[h] \in Senders
  BY SessionTypes DEF TypeInv, HostTypes
<1>5. ASSUME NEW s, BeforeLoop(h, s), s.sent_fin = snd[h].sent_fin, Continue(h, s)
      PROVE  Order(h)'
  BY <1>2, <1>3, <1>5, LoopOrder
<1>6. CASE ReceiveLateGO(h)
  <2>1. PICK s : s = [snd[h] EXCEPT !.misled = TRUE]
    OBVIOUS
  <2>2. BeforeLoop(h, s) /\ s.sent_fin = snd[h].sent_fin /\ Continue(h, s)
    BY <1>2, <1>4, <1>6, <2>1, BeforeLoopCases DEF ReceiveLateGO, Senders
  <2> QED
    BY <2>2, <1>5
<1>7. CASE ReceiveACK(h)
  <2>1. toSnd[h][1].type = "ACK" /\ toSnd[h][1] = Head(toSnd[h]) /\ toSnd[h][1] \in AnswersTo(h)
    <3>1. SndReceives(h, "DATA", {"ACK"})
      BY <1>7 DEF ReceiveACK
    <3>2. toSnd[h][1].type \in {"ACK"} /\ toSnd[h][1] = Head(toSnd[h]) /\ toSnd[h][1] \in AnswersTo(h)
      BY <3>1, AnswerTaken
    <3> QED
      BY <3>2
  <2>2. PICK s : s = afterAck(snd[h], toSnd[h][1])
    OBVIOUS
  <2>3. s.sent_fin = snd[h].sent_fin
    BY <1>4, <2>1, <2>2, AfterAck
  <2>4. BeforeLoop(h, s)
    BY <1>2, <1>4, <2>1, <2>2, BeforeLoopCases
  <2>5. Continue(h, s)
    BY <1>7, <2>1, <2>2 DEF ReceiveACK
  <2> QED
    BY <2>3, <2>4, <2>5, <1>5
<1> QED
  BY <1>6, <1>7

LEMMA DataTimeoutOrder ==
    ASSUME TypeInv, NEW h \in Hosts, Order(h), DataTimeout(h)
    PROVE  Order(h)'
<1>1. PICK s : s = doubted(snd[h])
  OBVIOUS
<1>2. /\ snd[h].phase = "DATA" /\ SenderOK(h, snd[h]) /\ snd[h] \in Senders
  BY SessionTypes DEF DataTimeout, TypeInv, HostTypes
<1>3. s.sent_fin = snd[h].sent_fin /\ BeforeLoop(h, s)
  BY <1>1, <1>2, Doubted, BeforeLoopCases
<1>4. Continue(h, s) /\ rcv' = rcv /\ files' = files /\ toSnd' = toSnd
  BY <1>1 DEF DataTimeout
<1>5. Talks(h, s.sent_fin, toRcv[h], toSnd'[h])
  BY <1>2, <1>3, <1>4 DEF Order
<1> QED
  BY <1>3, <1>4, <1>5, LoopOrder

LEMMA FinTimeoutOrder ==
    ASSUME TypeInv, NEW h \in Hosts, Order(h), FinTimeout(h)
    PROVE  Order(h)'
<1>1. /\ snd[h].phase = "DATA" /\ snd[h].sent_fin
      /\ rcv' = rcv /\ files' = files /\ toSnd' = toSnd
      /\ snd' = [snd EXCEPT ![h].hasnacks = FALSE]
      /\ toRcv' = [toRcv EXCEPT ![h] = Put(@, <<FIN>>)]
  BY DEF FinTimeout
<1>2. snd'[h].phase = "DATA" /\ snd'[h].sent_fin
  <2>1. snd'[h] = [snd[h] EXCEPT !.hasnacks = FALSE]
    BY <1>1 DEF TypeInv, Functions
  <2> QED
    BY <2>1, <1>1, SessionTypes DEF Senders
<1>3. Len(toRcv[h]) \in Nat /\ Appended(toRcv'[h], toRcv[h], FIN)
  BY <1>1, OnePacket DEF PacketsOf
<1>4. /\ \A t : Holds(toRcv'[h], t) => Holds(toRcv[h], t) \/ t \in {"FIN"}
      /\ \A t, T : /\ Behind(toRcv[h], t, T)
                   /\ Holds(toRcv[h], t) \/ t \in {"FIN"} => {"FIN"} \subseteq T
                   => Behind(toRcv'[h], t, T)
  <2>1. /\ Len(toRcv'[h]) \in Nat /\ Len(toRcv[h]) <= Len(toRcv'[h])
        /\ \A i \in 1 .. Len(toRcv[h]) : toRcv'[h][i] = toRcv[h][i]
        /\ \A i \in Len(toRcv[h]) + 1 .. Len(toRcv'[h]) : toRcv'[h][i].type \in {"FIN"}
    BY <1>3 DEF Appended, FIN
  <2> QED
    BY <1>3, <2>1, MoreHolds
<1>5. Talks(h, snd[h].sent_fin, toRcv[h], toSnd[h])'
  BY <1>1, <1>2, <1>4 DEF Order, Talks, Begun, Served
<1> QED
  BY <1>2, <1>5 DEF Order

(* A FINACK comes behind all that told of the connection: a sender that    *)
(* begins again for it leaves nothing of the transfer behind.              *)
LEMMA ReceiveFINACKOrder ==
    ASSUME TypeInv, NEW h \in Hosts, Order(h), ReceiveFINACK(h)
    PROVE  Order(h)'
<1>1. SndReceives(h, "DATA", {"FINACK"})
  BY DEF ReceiveFINACK
<1>2. /\ snd[h].phase = "DATA" /\ rcv' = rcv /\ files' = files
      /\ toSnd[h][1].type \in {"FINACK"} /\ Len(toSnd'[h]) \in Nat
  BY <1>1, AnswerTaken
<1>3. Talks(h, snd[h].sent_fin, toRcv[h], toSnd[h])
  BY <1>2 DEF Order
<1>4. /\ Holds(toSnd[h], "FINACK")
      /\ \A t : Holds(toSnd'[h], t) => Holds(toSnd[h], t) /\ t \in {"FINACK", "ACK"}
  <2>1. /\ Holds(toSnd[h], toSnd[h][1].type)
        /\ \A t : Holds(toSnd'[h], t) => Holds(toSnd[h], t)
        /\ \A t, T : Behind(toSnd[h], toSnd[h][1].type, T) /\ Holds(toSnd'[h], t) => t \in T
    BY <1>1, AnswerTaken
  <2>2. toSnd[h][1].type = "FINACK"
    BY <1>2
  <2> QED
    BY <2>1, <2>2, <1>3 DEF Talks
<1>5. ~ Holds(toRcv[h], "SYN") /\ ~ Served(h)
  BY <1>3, <1>4 DEF Talks
<1>6. CASE snd[h].sent_fin /\ snd' = [snd EXCEPT ![h] = [sender EXCEPT !.phase = "EXIT",
                                                                      !.misled = snd[h].misled]]
           /\ toRcv' = toRcv
  <2>1. snd'[h] = [sender EXCEPT !.phase = "EXIT", !.misled = snd[h].misled]
    BY <1>6 DEF TypeInv, Functions
  <2>2. snd'[h].phase = "EXIT"
    BY <2>1 DEF sender
  <2> QED
    BY <2>2, <1>2, <1>5, <1>6 DEF Order, Served
<1>7. CASE ~ snd[h].sent_fin /\ Pings(h)
  <2>1. Len(files[h]) = 0 /\ ~ Holds(toSnd[h], "ACK") /\ ~ Holds(toRcv[h], "FIN")
    BY <1>3, <1>5, <1>7, SessionTypes DEF Talks, Begun
  <2>2. Behind(toRcv[h], "SYN", {"SYN"}) /\ Behind(toSnd'[h], "GO", {"GO"})
    <3>1. ~ Holds(toSnd'[h], "GO") /\ Len(toRcv[h]) \in Nat
      BY <1>4, SessionTypes
    <3> QED
      BY <3>1, <1>2, <1>5, NothingBehind
  <2>3. Asks(h, toRcv[h], toSnd'[h])
    BY <1>4, <1>5, <2>1, <2>2 DEF Asks
  <2> QED
    BY <1>2, <1>7, <2>3, PingOrder
<1> QED
  BY <1>6, <1>7 DEF ReceiveFINACK

LEMMA DropAtGoneOrder ==
    ASSUME TypeInv, NEW h \in Hosts, Order(h), DropAtGone(h)
    PROVE  Order(h)'
<1>1. PICK phase \in {"EXIT", "GONE"} : SndReceives(h, phase, {"GO", "FINACK", "ACK"})
  BY DEF DropAtGone
<1>2. rcv' = rcv /\ files' = files /\ snd' = snd /\ toRcv' = toRcv
  BY <1>1 DEF DropAtGone, SndReceives
<1>3. PartOf(toSnd'[h], toSnd[h]) /\ Len(toSnd'[h]) \in Nat
  BY <1>1, TakenIsPart
<1> QED
  BY <1>2, <1>3, WholePackets, FewerOrder

LEMMA LoseOrder ==
    ASSUME TypeInv, NEW h \in Hosts, Order(h), Lose(h)
    PROVE  Order(h)'
<1>1. /\ UNCHANGED <<rcv, files, snd>>
      /\ \/ toSnd' = toSnd /\ DroppedFrom(toRcv'[h], toRcv[h])
         \/ toRcv' = toRcv /\ DroppedFrom(toSnd'[h], toSnd[h])
      /\ Len(toRcv'[h]) \in Nat /\ Len(toSnd'[h]) \in Nat
  BY Lost DEF TypesAfter, HostTypes
<1>2. PartOf(toRcv'[h], toRcv[h]) /\ PartOf(toSnd'[h], toSnd[h])
  BY <1>1, WholeAnswers, WholePackets, DroppedIsPart, SessionTypes
<1> QED
  BY <1>1, <1>2, FewerOrder

-----------------------------------------------------------------------------
(* The receiver's steps.                                                   *)
LEMMA PacketTaken ==
    ASSUME TypeInv, NEW h \in Hosts, NEW type, Arrives(h, type)
    PROVE  /\ snd'[h] = snd[h] /\ Len(toRcv'[h]) \in Nat
           /\ PartOf(toRcv'[h], toRcv[h])
           /\ Holds(toRcv[h], type)
           /\ \A t : Holds(toRcv'[h], t) => Holds(toRcv[h], t)
           /\ \A t, T : Behind(toRcv[h], t, T) => Behind(toRcv'[h], t, T)
           /\ \A t, T : Behind(toRcv[h], type, T) /\ Holds(toRcv'[h], t) => t \in T
<1>1. /\ toRcv[h][1].type = type /\ snd'[h] = snd[h]
      /\ Len(toRcv[h]) \in Nat /\ Len(toRcv[h]) >= 1 /\ Len(toRcv'[h]) = Len(toRcv[h]) - 1
      /\ \A i \in 1 .. Len(toRcv'[h]) : toRcv'[h][i] = toRcv[h][i + 1]
  BY Taken
<1>2. /\ Holds(toRcv[h], toRcv[h][1].type)
      /\ \A t : Holds(toRcv'[h], t) => Holds(toRcv[h], t)
      /\ \A t, T : Behind(toRcv[h], t, T) => Behind(toRcv'[h], t, T)
      /\ \A t, T : Behind(toRcv[h], toRcv[h][1].type, T) /\ Holds(toRcv'[h], t) => t \in T
  BY <1>1, TailHolds
<1>3. PartOf(toRcv'[h], toRcv[h])
  BY <1>1, TailIsPart
<1> QED
  BY <1>1, <1>2, <1>3

LEMMA IgnoredOrder ==
    ASSUME TypeInv, NEW h \in Hosts, Order(h), NEW type, Arrives(h, type),
           UNCHANGED <<rcv, files, toSnd>>
    PROVE  Order(h)'
  BY PacketTaken, WholeAnswers, FewerOrder

(* An answer is put behind the others.                                     *)
LEMMA AnswerPut ==
    ASSUME TypeInv, NEW h \in Hosts, NEW m \in AnswersTo(h), Answer(h, m)
    PROVE  /\ \A t : Holds(toSnd'[h], t) => Holds(toSnd[h], t) \/ t = m.type
           /\ \A t, T : /\ Behind(toSnd[h], t, T)
                        /\ Holds(toSnd[h], t) \/ t = m.type => m.type \in T
                        => Behind(toSnd'[h], t, T)
<1>1. /\ Len(toSnd[h]) \in Nat /\ Len(toSnd'[h]) \in Nat /\ Len(toSnd[h]) <= Len(toSnd'[h])
      /\ \A i \in 1 .. Len(toSnd[h]) : toSnd'[h][i] = toSnd[h][i]
      /\ \A i \in Len(toSnd[h]) + 1 .. Len(toSnd'[h]) : toSnd'[h][i].type \in {m.type}
  BY Answered
<1>2. /\ \A t : Holds(toSnd'[h], t) => Holds(toSnd[h], t) \/ t \in {m.type}
      /\ \A t, T : /\ Behind(toSnd[h], t, T)
                   /\ Holds(toSnd[h], t) \/ t \in {m.type} => {m.type} \subseteq T
                   => Behind(toSnd'[h], t, T)
  BY <1>1, MoreHolds
<1> QED
  BY <1>2

(* A host that is not served is told that its connection is closed.        *)
LEMMA RefusedOrder ==
    ASSUME TypeInv, NEW h \in Hosts, Order(h), NEW type \in {"FIN", "DATA"}, Arrives(h, type),
           ~ Served(h), Answer(h, FINACK), UNCHANGED <<rcv, files>>
    PROVE  Order(h)'
<1>1. /\ \A t : Holds(toSnd'[h], t) => Holds(toSnd[h], t) \/ t = "FINACK"
      /\ \A t, T : /\ Behind(toSnd[h], t, T)
                   /\ Holds(toSnd[h], t) \/ t = "FINACK" => "FINACK" \in T
                   => Behind(toSnd'[h], t, T)
  <2>1. FINACK \in AnswersTo(h) /\ FINACK.type = "FINACK"
    BY DEF AnswersTo, FINACK
  <2> QED
    BY <2>1, AnswerPut
<1>2. /\ snd'[h] = snd[h] /\ Holds(toRcv[h], type)
      /\ \A t : Holds(toRcv'[h], t) => Holds(toRcv[h], t)
      /\ \A t, T : Behind(toRcv[h], t, T) => Behind(toRcv'[h], t, T)
      /\ \A t, T : Behind(toRcv[h], type, T) /\ Holds(toRcv'[h], t) => t \in T
  BY PacketTaken
<1>3. ~ Served(h)' /\ files'[h] = files[h]
  BY DEF Served
<1>4. CASE snd[h].phase = "SYN"
  <2>1. Asks(h, toRcv[h], toSnd[h])
    BY <1>4 DEF Order
  <2>2. type = "DATA" /\ ~ Holds(toSnd[h], "GO")
    BY <1>2, <2>1 DEF Asks
  <2>3. Asks(h, toRcv[h], toSnd[h])'
    BY <1>1, <1>2, <1>3, <2>1, <2>2 DEF Asks
  <2> QED
    BY <1>2, <1>4, <2>3 DEF Order
<1>5. CASE snd[h].phase = "DATA"
  <2>1. Talks(h, snd[h].sent_fin, toRcv[h], toSnd[h])
    BY <1>5 DEF Order
  <2>2. ~ Holds(toRcv'[h], "SYN")
    BY <1>2, <2>1 DEF Talks
  <2>3. Talks(h, snd[h].sent_fin, toRcv[h], toSnd[h])'
    BY <1>1, <1>2, <1>3, <2>1, <2>2 DEF Talks, Begun
  <2> QED
    BY <1>2, <1>5, <2>3 DEF Order
<1>6. CASE snd[h].phase = "EXIT"
  BY <1>2, <1>3, <1>6 DEF Order
<1> QED
  BY <1>4, <1>5, <1>6 DEF Order

(* A SYN opens a connection when the host has not had one, or has none of  *)
(* it left: what it sends now meets an empty file.                         *)
LEMMA ReceiveSYNOrder ==
    ASSUME TypeInv, NEW h \in Hosts, Order(h), ReceiveSYN(h)
    PROVE  Order(h)' /\ NeverGivesUp'
<1>1. /\ rcv.conn = NoHost /\ files'[h] = <<>>
      /\ rcv'.conn = h /\ rcv'.state = "WAITING_DATA"
  BY ReceiveSYNTypes
<1>2. ~ Served(h) /\ Served(h)' /\ Len(files'[h]) = 0
  BY <1>1 DEF Served
<1>3. /\ \A t : Holds(toSnd'[h], t) => Holds(toSnd[h], t) \/ t = "GO"
      /\ \A t, T : /\ Behind(toSnd[h], t, T)
                   /\ Holds(toSnd[h], t) \/ t = "GO" => "GO" \in T
                   => Behind(toSnd'[h], t, T)
  <2>1. GO \in AnswersTo(h) /\ GO.type = "GO" /\ Answer(h, GO)
    BY DEF AnswersTo, GO, ReceiveSYN
  <2> QED
    BY <2>1, AnswerPut
<1>4. /\ snd'[h] = snd[h] /\ Holds(toRcv[h], "SYN")
      /\ \A t : Holds(toRcv'[h], t) => Holds(toRcv[h], t)
      /\ \A t, T : Behind(toRcv[h], t, T) => Behind(toRcv'[h], t, T)
      /\ \A t, T : Behind(toRcv[h], "SYN", T) /\ Holds(toRcv'[h], t) => t \in T
  BY PacketTaken DEF ReceiveSYN
<1>5. CASE snd[h].phase = "SYN"
  <2>1. Asks(h, toRcv[h], toSnd[h])
    BY <1>5 DEF Order
  <2>2. ~ Holds(toRcv'[h], "DATA")
    BY <1>4, <2>1 DEF Asks
  <2>3. Asks(h, toRcv[h], toSnd[h])'
    BY <1>1, <1>2, <1>3, <1>4, <2>1, <2>2 DEF Asks
  <2> QED
    BY <1>1, <1>4, <1>5, <2>3 DEF Order, NeverGivesUp
<1>6. CASE snd[h].phase = "DATA"
  <2>1. Talks(h, snd[h].sent_fin, toRcv[h], toSnd[h])
    BY <1>6 DEF Order
  <2>2. ~ Holds(toSnd[h], "FINACK") /\ ~ Holds(toSnd[h], "ACK")
    BY <1>4, <2>1 DEF Talks, Begun
  <2>3. Talks(h, snd[h].sent_fin, toRcv[h], toSnd[h])'
    BY <1>1, <1>2, <1>3, <1>4, <2>1, <2>2 DEF Talks, Begun
  <2> QED
    BY <1>1, <1>4, <1>6, <2>3 DEF Order, NeverGivesUp
<1> QED
  BY <1>4, <1>5, <1>6 DEF Order

(* A FIN closes the connection of a host that has sent it.                 *)
LEMMA ReceiveFINOrder ==
    ASSUME TypeInv, NEW h \in Hosts, Order(h), NeverGivesUp, ReceiveFIN(h)
    PROVE  Order(h)' /\ NeverGivesUp'
<1>1. Arrives(h, "FIN") /\ Answer(h, FINACK)
  BY DEF ReceiveFIN
<1>2. CASE rcv.conn # h /\ UNCHANGED <<rcv, files>>
  BY <1>1, <1>2, RefusedOrder DEF Served, NeverGivesUp
<1>3. CASE rcv.conn = h /\ closeConnection
  <2>1. rcv'.conn = NoHost /\ rcv'.state = "IDLE" /\ ~ Served(h)' /\ Served(h)
    BY <1>3, Closed DEF Served
  <2>2. /\ snd'[h] = snd[h] /\ Holds(toRcv[h], "FIN")
        /\ \A t : Holds(toRcv'[h], t) => Holds(toRcv[h], t)
        /\ \A t, T : Behind(toRcv[h], t, T) => Behind(toRcv'[h], t, T)
        /\ \A t, T : Behind(toRcv[h], "FIN", T) /\ Holds(toRcv'[h], t) => t \in T
    BY <1>1, PacketTaken
  <2>3. snd[h].phase = "DATA"
    BY <2>1, <2>2 DEF Order, Asks
  <2>4. Talks(h, snd[h].sent_fin, toRcv[h], toSnd[h])
    BY <2>3 DEF Order
  <2>5. /\ \A t : Holds(toSnd'[h], t) => Holds(toSnd[h], t) \/ t = "FINACK"
        /\ \A t, T : /\ Behind(toSnd[h], t, T)
                     /\ Holds(toSnd[h], t) \/ t = "FINACK" => "FINACK" \in T
                     => Behind(toSnd'[h], t, T)
    <3>1. FINACK \in AnswersTo(h) /\ FINACK.type = "FINACK"
      BY DEF AnswersTo, FINACK
    <3> QED
      BY <1>1, <3>1, AnswerPut
  <2>6. ~ Holds(toRcv'[h], "SYN") /\ snd[h].sent_fin
    BY <2>2, <2>4 DEF Talks
  <2>7. Talks(h, snd[h].sent_fin, toRcv[h], toSnd[h])'
    BY <2>1, <2>2, <2>4, <2>5, <2>6 DEF Talks, Begun
  <2> QED
    BY <2>1, <2>2, <2>3, <2>7 DEF Order, NeverGivesUp
<1> QED
  BY <1>2, <1>3 DEF ReceiveFIN

(* The connection goes on, and may be told of with an ACK.                 *)
LEMMA AckOrder ==
    ASSUME TypeInv, NEW h \in Hosts, Order(h), Served(h), Served(h)', snd'[h] = snd[h],
           snd[h].phase = "DATA",
           toSnd' = toSnd \/ \E m \in AnswersTo(h) : m.type = "ACK" /\ Answer(h, m),
           \A t : Holds(toRcv'[h], t) => Holds(toRcv[h], t),
           \A t, T : Behind(toRcv[h], t, T) => Behind(toRcv'[h], t, T),
           ~ Holds(toRcv'[h], "SYN"),
           rcv'.state = "WAITING_DATA" => toSnd' = toSnd /\ rcv.state = "WAITING_DATA"
    PROVE  Order(h)'
<1>1. Talks(h, snd[h].sent_fin, toRcv[h], toSnd[h])
  BY DEF Order
<1>2. /\ \A t : Holds(toSnd'[h], t) => Holds(toSnd[h], t) \/ t = "ACK"
      /\ Behind(toSnd'[h], "FINACK", {"FINACK", "ACK"})
  <2>1. CASE toSnd' = toSnd
    BY <2>1, <1>1 DEF Talks
  <2>2. CASE toSnd' # toSnd
    <3>1. PICK m \in AnswersTo(h) : m.type = "ACK" /\ Answer(h, m)
      BY <2>2
    <3>2. /\ \A t : Holds(toSnd'[h], t) => Holds(toSnd[h], t) \/ t = m.type
          /\ \A t, T : /\ Behind(toSnd[h], t, T)
                       /\ Holds(toSnd[h], t) \/ t = m.type => m.type \in T
                       => Behind(toSnd'[h], t, T)
      BY <3>1, AnswerPut
    <3> QED
      BY <3>1, <3>2, <1>1 DEF Talks
  <2> QED
    BY <2>1, <2>2
<1>3. Talks(h, snd[h].sent_fin, toRcv[h], toSnd[h])'
  BY <1>1, <1>2 DEF Talks, Begun
<1> QED
  BY <1>3 DEF Order

LEMMA ReceiveDATAOrder ==
    ASSUME TypeInv, NEW h \in Hosts, Order(h), NeverGivesUp, ReceiveDATA(h)
    PROVE  Order(h)' /\ NeverGivesUp'
<1>1. Arrives(h, "DATA") /\ rcv.conn = h /\ Served(h)
  BY DEF ReceiveDATA, Served
<1>2. /\ snd'[h] = snd[h] /\ Holds(toRcv[h], "DATA")
      /\ \A t : Holds(toRcv'[h], t) => Holds(toRcv[h], t)
      /\ \A t, T : Behind(toRcv[h], t, T) => Behind(toRcv'[h], t, T)
      /\ \A t, T : Behind(toRcv[h], "DATA", T) /\ Holds(toRcv'[h], t) => t \in T
  BY <1>1, PacketTaken
<1>3. snd[h].phase = "DATA"
  BY <1>1, <1>2 DEF Order, Asks
<1>4. ~ Holds(toRcv'[h], "SYN")
  BY <1>2, <1>3 DEF Order, Talks
<1>5. PICK m : m = toRcv[h][1]
  OBVIOUS
<1>6. m = Head(toRcv[h]) /\ m \in PacketsOf(h) /\ m.type = "DATA"
  BY <1>1, <1>5, Taken
<1>7. m.seq_num \in Nat /\ m.seq_num < FileLen[h] /\ m.data \in Data
  BY <1>6, DataPacket
<1>8. PICK r : r = stored(m.seq_num, m.data)
  OBVIOUS
<1>9. WindowOK(rcv, FileLen[h]) /\ FileLen[h] \in Nat /\ rcv \in Receivers
  BY <1>1, Connected, LengthOfFile
<1>10. CASE UNCHANGED <<rcv, files, toSnd>>
  BY <1>1, <1>2, <1>3, <1>4, <1>10, AckOrder DEF Served, NeverGivesUp
<1>11. ASSUME inWindow(m.seq_num)
       PROVE  /\ WindowOK(r, FileLen[h]) /\ r.state = "RECV_DATA" /\ r.conn = h
              /\ r.retryCounter = 0
  <2>1. m.seq_num \in rcv.window_min_seq .. window_max_seq(rcv)
    BY <1>11 DEF inWindow
  <2>2. WindowOK(r, FileLen[h]) /\ r.state = "RECV_DATA" /\ r.conn = h
    BY <1>1, <1>7, <1>8, <1>9, <2>1, Stored
  <2>3. r.retryCounter = 0
    BY <1>8, <1>9 DEF stored, Receivers, NeverGivesUp
  <2> QED
    BY <2>2, <2>3
<1>12. CASE inWindow(m.seq_num) /\ rcv' = r /\ UNCHANGED <<files, toSnd>>
  BY <1>1, <1>2, <1>3, <1>4, <1>11, <1>12, AckOrder DEF Served, NeverGivesUp
<1>13. CASE /\ m.seq_num = window_max_seq(rcv)
            /\ Answer(h, buildAckNak(r))
            /\ WriteOut(h, r)
            /\ rcv' = clearWindow(r)
  <2>1. inWindow(m.seq_num)
    BY <1>7, <1>9, <1>13, WindowTypes DEF inWindow
  <2>2. Moved(r, rcv')
    BY <1>9, <1>11, <1>13, <2>1, Cleared
  <2>3. rcv'.conn = h /\ rcv'.state = "RECV_DATA" /\ rcv'.retryCounter = 0
    BY <1>11, <2>1, <2>2 DEF Moved
  <2>4. buildAckNak(r) \in AnswersTo(h) /\ buildAckNak(r).type = "ACK"
    BY <1>11, <2>1, AckTypes DEF buildAckNak
  <2> QED
    BY <1>1, <1>2, <1>3, <1>4, <1>13, <2>3, <2>4, AckOrder DEF Served, NeverGivesUp
<1> QED
  BY <1>5, <1>6, <1>8, <1>10, <1>12, <1>13 DEF ReceiveDATA

LEMMA ReceiverTimeoutOrder ==
    ASSUME TypeInv, NEW h \in Hosts, rcv.conn = h, Order(h), NeverGivesUp, ReceiverTimeout
    PROVE  Order(h)' /\ NeverGivesUp'
<1>1. snd' = snd /\ toRcv' = toRcv /\ Served(h)
  BY DEF ReceiverTimeout, Served
<1>2. WindowOK(rcv, FileLen[h]) /\ FileLen[h] \in Nat /\ rcv \in Receivers
  BY Connected, LengthOfFile
<1>3. CASE closeConnection /\ toSnd' = toSnd /\ rcv.state = "WAITING_DATA"
  <2>1. rcv'.conn = NoHost /\ rcv'.state = "IDLE" /\ ~ Served(h)' /\ Grown(h, rcv)
    BY <1>3, Closed DEF Served
  <2>2. Len(files[h]) = 0 /\ Len(files'[h]) = 0
    <3>1. Fresh(rcv) /\ rcv.window_min_seq \in Nat
      BY <1>2, <1>3, WindowTypes DEF TypeInv, ConnectionTypes
    <3>2. PICK c : c = consecutive(rcv)
      OBVIOUS
    <3>3. c \in 0 .. WINDOW_SIZE /\ \A k \in 0 .. 0 + c - 1 : has(rcv, k)
      BY <1>2, <3>1, <3>2, Consecutive DEF Fresh
    <3>4. ~ has(rcv, 0)
      BY <3>1, SlotOf DEF has, Fresh
    <3>5. c = 0
      BY <3>3, <3>4
    <3> QED
      BY <2>1, <3>1, <3>2, <3>5 DEF Grown, Fresh
  <2>3. Asks(h, toRcv[h], toSnd[h]) => Asks(h, toRcv[h], toSnd[h])'
    BY <1>1, <1>3, <2>1, <2>2 DEF Asks
  <2>4. Talks(h, snd[h].sent_fin, toRcv[h], toSnd[h])
          => Talks(h, snd[h].sent_fin, toRcv[h], toSnd[h])'
    BY <1>1, <1>3, <2>1, <2>2 DEF Talks, Begun
  <2> QED
    BY <1>1, <2>1, <2>3, <2>4 DEF Order, NeverGivesUp
<1>4. CASE /\ rcv.state \in {"RECV_DATA", "WAIT_RESPONSE"} /\ Answer(h, buildAckNak(rcv))
           /\ rcv'.conn = h /\ rcv'.state = "WAIT_RESPONSE"
  <2>1. snd[h].phase = "DATA" /\ ~ Holds(toRcv[h], "SYN")
    BY <1>1, <1>4 DEF Order, Asks, Talks, Begun
  <2>2. buildAckNak(rcv) \in AnswersTo(h) /\ buildAckNak(rcv).type = "ACK"
    BY <1>2, AckTypes DEF buildAckNak
  <2> QED
    BY <1>1, <1>4, <2>1, <2>2, AckOrder DEF Served, NeverGivesUp
<1>5. CASE /\ rcv.state = "RECV_DATA" /\ rcv.retryCounter # RECV_NUM_RETRY_ACK
           /\ Answer(rcv.conn, buildAckNak(rcv))
           /\ rcv' = [clearWindow(rcv) EXCEPT !.state = "WAIT_RESPONSE"]
  <2>1. PICK u : u = clearWindow(rcv)
    OBVIOUS
  <2>2. Moved(rcv, u)
    BY <1>2, <2>1, Cleared
  <2>3. rcv'.conn = h /\ rcv'.state = "WAIT_RESPONSE"
    BY <1>5, <2>1, <2>2 DEF Moved, Receivers
  <2> QED
    BY <1>4, <1>5, <2>3
<1>6. CASE /\ rcv.state = "WAIT_RESPONSE" /\ Answer(rcv.conn, buildAckNak(rcv))
           /\ rcv' = [rcv EXCEPT !.retryCounter = retried]
  <2>1. rcv'.conn = h /\ rcv'.state = "WAIT_RESPONSE"
    BY <1>2, <1>6 DEF Receivers
  <2> QED
    BY <1>4, <1>6, <2>1
<1>7. ~ (rcv.state = "RECV_DATA" /\ rcv.retryCounter = RECV_NUM_RETRY_ACK)
  BY DEF NeverGivesUp
<1> QED
  BY <1>3, <1>5, <1>6, <1>7 DEF ReceiverTimeout

(* A step of one host leaves the order of the others alone.                *)
LEMMA OthersOrder ==
    ASSUME TypeInv, NEW h \in Hosts, Changed(h), NEW g \in Hosts, g # h, Order(g)
    PROVE  Order(g)'
<1>1. /\ files'[g] = files[g] /\ snd'[g] = snd[g]
      /\ toRcv'[g] = toRcv[g] /\ toSnd'[g] = toSnd[g]
  BY Frame DEF TypeInv
<1>2. CASE rcv' = rcv
  BY <1>1, <1>2 DEF Order, Asks, Talks, Begun, Served
<1>3. CASE rcv.conn \in {h, NoHost} /\ rcv'.conn \in {h, NoHost}
  <2>1. ~ Served(g) /\ ~ Served(g)'
    BY <1>3 DEF Served
  <2> QED
    BY <1>1, <2>1 DEF Order, Asks, Talks, Begun
<1> QED
  BY <1>2, <1>3 DEF Changed

(* kills counts: while it is 0, none was killed.                           *)
LEMMA KillsCount ==
    ASSUME TypeInv, NEW h \in Hosts, StepOf(h), kills' = 0
    PROVE  kills = 0 /\ ~ Kill(h)
<1>1. kills \in Nat
  BY DEF TypeInv, Counters
<1>2. kills' = kills \/ kills' = kills + 1
  BY DEF StepOf, ReceiverStep, SenderStep, SenderTimeout, Lose, Kill, RunAgain, ReceiverTimeout,
     ReceiveFIN, ReceiveSYN, ReceiveDATA, ReceiveStrayDATA, IgnorePacket, Arrives,
     ReceiveGO, PingAgain, ReceiveACK, ReceiveLateGO, ReceiveFINACK, DropAtGone, SndReceives,
     SynTimeout, FinTimeout, DataTimeout
<1>3. Kill(h) => kills' = kills + 1
  BY DEF Kill
<1> QED
  BY <1>1, <1>2, <1>3

LEMMA OrderInit ==
    ASSUME Init
    PROVE  NeverGivesUp /\ \A h \in Hosts : Order(h)
<1>1. /\ rcv = idle /\ files = [h \in Hosts |-> <<>>] /\ snd = [h \in Hosts |-> sender]
      /\ toRcv = [h \in Hosts |-> <<SYN>>] /\ toSnd = [h \in Hosts |-> <<>>]
  BY DEF Init
<1>2. NeverGivesUp
  BY <1>1 DEF NeverGivesUp, idle
<1>3. ASSUME NEW h \in Hosts
      PROVE  Order(h)
  <2>1. /\ files[h] = <<>> /\ snd[h].phase = "SYN" /\ toSnd[h] = <<>> /\ toRcv[h] = <<SYN>>
    BY <1>1, FreshSender
  <2>2. Len(files[h]) = 0 /\ Len(toSnd[h]) = 0 /\ Len(toRcv[h]) = 1 /\ toRcv[h][1].type = "SYN"
    BY <2>1 DEF SYN
  <2>3. \A t : ~ Holds(toSnd[h], t)
    BY <2>2 DEF Holds
  <2>4. \A i \in 1 .. Len(toRcv[h]) : toRcv[h][i].type = "SYN"
    BY <2>2
  <2>5. ~ Holds(toRcv[h], "FIN") /\ ~ Holds(toRcv[h], "DATA")
    BY <2>4 DEF Holds
  <2>6. Behind(toRcv[h], "SYN", {"SYN"}) /\ Behind(toSnd[h], "GO", {"GO"})
    BY <2>2, <2>3, <2>4, NothingBehind DEF Behind
  <2>7. ~ Served(h)
    BY <1>1 DEF Served, idle
  <2> QED
    BY <2>1, <2>2, <2>3, <2>5, <2>6, <2>7 DEF Order, Asks
<1> QED
  BY <1>2, <1>3

LEMMA StepOrder ==
    ASSUME TypeInv, NEW h \in Hosts, StepOf(h), ~ Kill(h), Order(h), NeverGivesUp
    PROVE  Order(h)' /\ NeverGivesUp'
<1>1. CASE ReceiverStep(h)
  <2>1. CASE ReceiveFIN(h)
    BY <2>1, ReceiveFINOrder
  <2>2. CASE ReceiveSYN(h)
    BY <2>2, ReceiveSYNOrder
  <2>3. CASE ReceiveDATA(h)
    BY <2>3, ReceiveDATAOrder
  <2>4. CASE ReceiveStrayDATA(h)
    <3>1. /\ Arrives(h, "DATA") /\ ~ Served(h) /\ Answer(h, FINACK) /\ UNCHANGED <<rcv, files>>
      BY <2>4, HostsAssumption DEF ReceiveStrayDATA, Served
    <3>2. Order(h)'
      BY <3>1, RefusedOrder
    <3> QED
      BY <3>1, <3>2 DEF NeverGivesUp
  <2>5. CASE IgnorePacket(h)
    <3>1. PICK type : Arrives(h, type) /\ UNCHANGED <<rcv, files, toSnd>>
      BY <2>5 DEF IgnorePacket
    <3> QED
      BY <3>1, IgnoredOrder DEF NeverGivesUp
  <2> QED
    BY <1>1, <2>1, <2>2, <2>3, <2>4, <2>5 DEF ReceiverStep
<1>2. ~ RunAgain(h)
  BY DEF Order, RunAgain
<1>3. ASSUME SenderStep(h) \/ SenderTimeout(h) \/ Lose(h)
      PROVE  Order(h)'
  BY <1>3, ReceiveGOOrder, PingAgainOrder, ReceiveACKOrder, ReceiveFINACKOrder, DropAtGoneOrder,
     SynTimeoutOrder, FinTimeoutOrder, DataTimeoutOrder, LoseOrder DEF SenderStep, SenderTimeout
<1>4. ASSUME SenderStep(h) \/ SenderTimeout(h) \/ Lose(h)
      PROVE  rcv' = rcv
  BY <1>4 DEF SenderStep, SenderTimeout, Lose, ReceiveGO, PingAgain, ReceiveACK,
     ReceiveLateGO, ReceiveFINACK, DropAtGone, SndReceives, SynTimeout, FinTimeout, DataTimeout
<1>5. CASE rcv.conn = h /\ ReceiverTimeout
  BY <1>5, ReceiverTimeoutOrder
<1>6. rcv' = rcv => NeverGivesUp'
  BY DEF NeverGivesUp
<1> QED
  BY <1>1, <1>2, <1>3, <1>4, <1>5, <1>6 DEF StepOf

-----------------------------------------------------------------------------
(* Then what is in the packets, the window and the files.                  *)

(* The first window has been read, and the loop has not been told of it.   *)
First(h, s) ==
    /\ s.start_seq = 0 /\ s.new_start = WINDOW_SIZE /\ ~ s.hasnacks
    /\ s.max_value = IF WINDOW_SIZE <= FileLen[h] THEN WINDOW_SIZE ELSE FileLen[h]

(* What the sender s has of a file of which n packets are written: unless  *)
(* a GO misled it, the packets before its window are.  A slot without      *)
(* bytes is not sent again, or only for a packet that is written.          *)
Tracks(h, s, n) ==
    /\ n <= s.max_value
    /\ s.sent_fin => s.max_value = FileLen[h]
    /\ ~ s.misled => s.start_seq <= n /\ (s.sent_fin => n = FileLen[h])
    /\ \A i \in s.empty :
         /\ s.max_value = FileLen[h] /\ i = FileLen[h] % WINDOW_SIZE
         /\ \/ FileLen[h] < n + WINDOW_SIZE
            \/ FileLen[h] < s.start_seq + WINDOW_SIZE
            \/ FileLen[h] = WINDOW_SIZE /\ s.sent_fin

(* A sender that would read on knows what makes room for it, or has not    *)
(* been told anything since it read for the first time.                    *)
ToldOf(s, n) == s.new_start <= n /\ (~ s.hasnacks => s.new_start = s.max_value)

Reading(h, s, n) == mayRead(s) => ToldOf(s, n) \/ First(h, s)

Ready2(h, s, n) ==
    /\ BeforeLoop(h, s) /\ Tracks(h, s, n)
    /\ mayRead(s) =>
         \/ ToldOf(s, n)
         \/ First(h, s) /\ s.misled
         \/ ~ s.begun /\ s.new_start = WINDOW_SIZE /\ ~ s.hasnacks

LEMMA TracksAfterLoop ==
    ASSUME NEW h \in Hosts, NEW n \in Nat, n <= FileLen[h], NEW s, Ready2(h, s, n),
           NEW u, u = looped(h, s)
    PROVE  /\ Tracks(h, u, n) /\ Reading(h, u, n) /\ u \in Senders
           /\ s.max_value \in Nat /\ u.max_value \in Nat
           /\ s.max_value <= u.max_value /\ u.max_value <= s.max_value + WINDOW_SIZE
           /\ u.start_seq \in Nat /\ u.start_seq <= s.max_value
           /\ u.sent_fin => u.max_value = s.max_value
<1>0. BeforeLoop(h, s) /\ Tracks(h, s, n) /\ s \in Senders
  BY DEF Ready2, BeforeLoop, Reads
<1>1. PICK st, ns, mx, L \in Nat :
        st = s.start_seq /\ ns = s.new_start /\ mx = s.max_value /\ L = FileLen[h]
  BY <1>0, SenderTypes, LengthOfFile
<1>b. /\ st <= mx /\ mx - st <= WINDOW_SIZE /\ mx <= L /\ n <= mx
      /\ ~ s.begun => st = 0 /\ mx = 0
  BY <1>0, <1>1 DEF BeforeLoop, Reads, Tracks
<1>2. CASE ~ mayRead(s)
  <2>1. u = s
    BY <1>2 DEF looped
  <2> QED
    BY <2>1, <1>0, <1>1, <1>2, <1>b, WindowAssumption DEF Reading
<1>3. CASE mayRead(s)
  <2>1. u = readIn(h, s)
    BY <1>3 DEF looped
  <2>2. PICK j : j = toRead(h, s)
    OBVIOUS
  <2>3. /\ j \in Nat /\ j <= ns - st /\ mx + j <= L
        /\ j < ns - st => mx + j = L
        /\ u \in Senders /\ u.max_value = mx + j /\ u.new_start = ns
        /\ u.start_seq = IF s.begun /\ j > 0 THEN ns ELSE st
        /\ u.sent_fin <=> j = 0 /\ ~ s.hasnacks
        /\ u.misled = s.misled /\ u.hasnacks = s.hasnacks
        /\ \A i \in u.empty : i \in s.empty \/ (j < ns - st /\ i = L % WINDOW_SIZE)
    <3>1. /\ j \in Nat /\ j <= s.new_start - s.start_seq
          /\ s.max_value + j <= FileLen[h]
          /\ j < s.new_start - s.start_seq => s.max_value + j = FileLen[h]
          /\ u \in Senders /\ u.max_value = s.max_value + j
          /\ u.new_start = s.new_start /\ u.hasnacks = s.hasnacks
          /\ u.start_seq = IF s.begun /\ j > 0 THEN s.new_start ELSE s.start_seq
          /\ u.misled = s.misled
          /\ \A i \in u.empty :
               \/ i \in s.empty
               \/ j < s.new_start - s.start_seq /\ i = FileLen[h] % WINDOW_SIZE
      BY <1>0, <1>3, <2>1, <2>2, ReadIn
    <3>2. u.sent_fin = (j = 0 /\ ~ s.hasnacks)
      BY <1>0, <1>3, <2>1, <2>2, ReadIn
    <3>3. u.sent_fin <=> j = 0 /\ ~ s.hasnacks
      BY <3>2
    <3> QED
      BY <1>1, <3>1, <3>3
  <2>4. /\ st < ns /\ ~ s.sent_fin
        /\ ~ s.misled => st <= n
        /\ \A i \in s.empty : /\ mx = L /\ i = L % WINDOW_SIZE
                              /\ L < n + WINDOW_SIZE \/ L < st + WINDOW_SIZE
    BY <1>0, <1>1, <1>3 DEF mayRead, Tracks
  <2>5. PICK us, um \in Nat : us = u.start_seq /\ um = u.max_value /\ um = mx + j
    BY <2>3, SenderTypes
  <2>6. /\ us = IF s.begun /\ j > 0 THEN ns ELSE st
        /\ us >= st
    BY <2>3, <2>4, <2>5
  <2>7. ASSUME /\ us <= mx /\ j <= WINDOW_SIZE
               /\ ~ s.misled => us <= n
               /\ u.sent_fin => mx = L /\ (~ s.misled => n = L)
               /\ j < ns - st =>
                    \/ L < n + WINDOW_SIZE \/ L < us + WINDOW_SIZE
                    \/ L = WINDOW_SIZE /\ u.sent_fin
               /\ Reading(h, u, n)
        PROVE  /\ Tracks(h, u, n) /\ Reading(h, u, n) /\ u \in Senders
               /\ s.max_value \in Nat /\ u.max_value \in Nat
               /\ s.max_value <= u.max_value /\ u.max_value <= s.max_value + WINDOW_SIZE
               /\ u.start_seq \in Nat /\ u.start_seq <= s.max_value
               /\ u.sent_fin => u.max_value = s.max_value
    <3>1. ASSUME NEW i \in u.empty
          PROVE  /\ um = L /\ i = L % WINDOW_SIZE
                 /\ \/ L < n + WINDOW_SIZE \/ L < us + WINDOW_SIZE
                    \/ L = WINDOW_SIZE /\ u.sent_fin
      <4>1. CASE i \in s.empty
        BY <4>1, <1>1, <2>3, <2>4, <2>5, <2>6, WindowAssumption
      <4>2. CASE j < ns - st /\ i = L % WINDOW_SIZE
        BY <4>2, <2>3, <2>5, <2>7
      <4> QED
        BY <3>1, <4>1, <4>2, <2>3
    <3>2. u.sent_fin => j = 0 /\ um = mx
      BY <1>1, <2>3, <2>5
    <3>3. n <= um /\ mx <= um /\ um <= mx + WINDOW_SIZE
      BY <1>1, <1>b, <2>3, <2>5, <2>7, WindowAssumption
    <3>4. Tracks(h, u, n)
      BY <1>1, <2>3, <2>5, <2>7, <3>1, <3>2, <3>3 DEF Tracks
    <3> QED
      BY <1>1, <2>3, <2>5, <2>7, <3>2, <3>3, <3>4
  <2>8. CASE ToldOf(s, n)
    <3>1. ns <= n /\ (~ s.hasnacks => ns = mx)
      BY <1>1, <2>8 DEF ToldOf
    <3>2. s.begun
      BY <1>1, <1>b, <2>4, <3>1
    <3>3. us <= mx /\ j <= WINDOW_SIZE /\ us <= n
      BY <1>1, <1>b, <2>3, <2>4, <2>6, <3>1, WindowAssumption
    <3>4. u.sent_fin => mx = L /\ n = L
      BY <1>1, <1>b, <2>3, <2>4, <3>1
    <3>5. j < ns - st => L < n + WINDOW_SIZE
      BY <1>1, <1>b, <2>3, <2>4, <3>1, WindowAssumption
    <3>6. Reading(h, u, n)
      <4>1. CASE j > 0
        <5>1. us = ns
          BY <2>6, <3>2, <4>1
        <5> QED
          BY <2>3, <2>5, <5>1 DEF Reading, mayRead
      <4>2. CASE j = 0
        <5>1. um = mx
          BY <2>5, <4>2
        <5>2. ToldOf(u, n)
          BY <1>1, <2>3, <2>5, <3>1, <5>1 DEF ToldOf
        <5> QED
          BY <5>2 DEF Reading
      <4> QED
        BY <2>3, <4>1, <4>2
    <3> QED
      BY <2>7, <3>3, <3>4, <3>5, <3>6
  <2>9. CASE First(h, s) /\ s.misled
    <3>1. /\ st = 0 /\ ns = WINDOW_SIZE /\ ~ s.hasnacks
          /\ mx = IF WINDOW_SIZE <= L THEN WINDOW_SIZE ELSE L
      BY <1>1, <2>9 DEF First
    <3>2. j > 0 => us = WINDOW_SIZE /\ mx = WINDOW_SIZE
      BY <1>1, <1>b, <2>3, <2>6, <3>1, WindowAssumption
    <3>3. us <= mx /\ j <= WINDOW_SIZE
      BY <1>1, <2>3, <2>6, <3>1, <3>2
    <3>4. u.sent_fin => mx = L
      BY <1>1, <2>3, <3>1, WindowAssumption
    <3>5. j < ns - st => L < us + WINDOW_SIZE \/ (L = WINDOW_SIZE /\ u.sent_fin)
      <4>1. CASE j > 0
        BY <1>1, <2>3, <3>1, <3>2, <4>1, WindowAssumption
      <4>2. CASE j = 0
        BY <1>1, <2>3, <2>6, <3>1, <4>2, WindowAssumption
      <4> QED
        BY <2>3, <4>1, <4>2
    <3>6. Reading(h, u, n)
      <4>1. CASE j > 0
        BY <1>1, <2>3, <2>5, <3>1, <3>2, <4>1 DEF Reading, mayRead
      <4>2. CASE j = 0
        BY <2>3, <3>1, <4>2 DEF Reading, mayRead
      <4> QED
        BY <2>3, <4>1, <4>2
    <3> QED
      BY <2>7, <2>9, <3>3, <3>4, <3>5, <3>6
  <2>10. CASE ~ s.begun /\ s.new_start = WINDOW_SIZE /\ ~ s.hasnacks
    <3>1. /\ st = 0 /\ mx = 0 /\ n = 0 /\ ns = WINDOW_SIZE /\ us = 0
      BY <1>1, <1>b, <2>6, <2>10
    <3>2. us <= mx /\ j <= WINDOW_SIZE /\ us <= n
      BY <2>3, <3>1
    <3>3. u.sent_fin => mx = L /\ n = L
      BY <1>1, <2>3, <3>1, WindowAssumption
    <3>4. j < ns - st => L < us + WINDOW_SIZE
      BY <1>1, <2>3, <3>1, WindowAssumption
    <3>5. Reading(h, u, n)
      <4>1. First(h, u)
        BY <1>1, <2>3, <2>5, <2>10, <3>1, WindowAssumption DEF First
      <4> QED
        BY <4>1 DEF Reading
    <3> QED
      BY <2>7, <3>2, <3>3, <3>4, <3>5
  <2> QED
    BY <1>3, <2>8, <2>9, <2>10 DEF Ready2
<1> QED
  BY <1>2, <1>3

(* A packet without its bytes is one that is written, by the time that it  *)
(* is sent.                                                                *)
LEMMA SentTracks ==
    ASSUME NEW h \in Hosts, NEW n \in Nat, n <= FileLen[h], NEW s, Ready2(h, s, n),
           NEW u, u = looped(h, s), NEW m, Sends(h, s, u, m), m.type = "DATA"
    PROVE  m.seq_num < u.max_value /\ (m.data = m.seq_num \/ m.seq_num < n)
<1>1. /\ Tracks(h, u, n) /\ Tracks(h, s, n) /\ u.start_seq \in Nat
      /\ s.max_value \in Nat /\ u.max_value \in Nat
      /\ s.max_value <= u.max_value /\ u.max_value <= s.max_value + WINDOW_SIZE
      /\ u.start_seq <= s.max_value /\ (u.sent_fin => u.max_value = s.max_value)
  BY TracksAfterLoop DEF Ready2
<1>2. PICK L \in Nat : L = FileLen[h]
  BY LengthOfFile
<1>3. s \in Senders /\ s.start_seq \in Nat /\ s.max_value <= L /\ u.max_value <= L
  <2>1. s \in Senders /\ s.max_value <= L /\ BeforeLoop(h, s)
    BY <1>2 DEF Ready2, BeforeLoop, Reads
  <2> QED
    BY <2>1, <1>2, SenderTypes, LoopKeepsSender DEF SenderOK, Reads
<1>4. ~ (m = FIN)
  BY DEF FIN
<1>5. CASE \E k \in outstanding(s) : Again(s, k, m)
  <2>1. PICK k \in outstanding(s) : Again(s, k, m)
    BY <1>5
  <2>2. k \in Nat /\ s.start_seq <= k /\ k < s.max_value /\ k < L /\ k < u.max_value
    BY <1>1, <1>3, <2>1 DEF outstanding
  <2>3. CASE m = DATA(k, k)
    BY <2>2, <2>3 DEF DATA
  <2>4. CASE /\ m = DATA(k, Empty) /\ k % WINDOW_SIZE \in s.empty
             /\ s.sent_fin => k % WINDOW_SIZE # 0
    <3>1. /\ k % WINDOW_SIZE = L % WINDOW_SIZE
          /\ \/ L < n + WINDOW_SIZE \/ L < s.start_seq + WINDOW_SIZE
             \/ L = WINDOW_SIZE /\ s.sent_fin
      BY <1>1, <1>2, <2>4 DEF Tracks
    <3>2. k + WINDOW_SIZE <= L
      BY <2>2, <3>1, EmptyIsWritten
    <3>3. ~ (L = WINDOW_SIZE /\ s.sent_fin)
      BY <2>4, <3>1, WindowAssumption
    <3>4. k < n
      BY <1>3, <2>2, <3>1, <3>2, <3>3, WindowAssumption
    <3> QED
      BY <2>2, <2>4, <3>4 DEF DATA
  <2> QED
    BY <2>1, <2>3, <2>4 DEF Again
<1>6. CASE \E k \in s.max_value .. u.max_value - 1, d \in Data :
             /\ m = DATA(k, d)
             /\ u.max_value <= s.max_value + WINDOW_SIZE =>
                  d = k \/ (d = Empty /\ k % WINDOW_SIZE \in u.empty)
  <2>1. PICK k \in s.max_value .. u.max_value - 1, d \in Data :
             /\ m = DATA(k, d)
             /\ d = k \/ (d = Empty /\ k % WINDOW_SIZE \in u.empty)
    BY <1>1, <1>6
  <2>2. k \in Nat /\ k < u.max_value /\ k < L /\ s.max_value <= k
    BY <1>1, <1>3
  <2>3. m.seq_num = k /\ m.data = d
    BY <2>1 DEF DATA
  <2>4. CASE d = k
    BY <2>2, <2>3, <2>4
  <2>5. CASE d = Empty /\ k % WINDOW_SIZE \in u.empty
    <3>1. /\ k % WINDOW_SIZE = L % WINDOW_SIZE
          /\ \/ L < n + WINDOW_SIZE \/ L < u.start_seq + WINDOW_SIZE
             \/ L = WINDOW_SIZE /\ u.sent_fin
      BY <1>1, <1>2, <2>5 DEF Tracks
    <3>2. k + WINDOW_SIZE <= L
      BY <2>2, <3>1, EmptyIsWritten
    <3>3. ~ u.sent_fin
      BY <1>1, <2>2
    <3>4. k < n
      BY <1>1, <2>2, <3>1, <3>2, <3>3, WindowAssumption
    <3> QED
      BY <2>2, <2>3, <3>4
  <2> QED
    BY <2>1, <2>4, <2>5
<1> QED
  BY <1>4, <1>5, <1>6 DEF Sends

(* The packets and the window are of what the sender has read, and the     *)
(* acknowledgements tell no more than the file holds.                      *)
OnlyRead(q, max) == \A i \in 1 .. Len(q) : q[i].type = "DATA" => q[i].seq_num < max

WindowRead(h, max) ==
    Served(h) => \A i \in Slots :
      rcv.window_buffer[i].received => rcv.window_buffer[i].seq_num < max

TrueAcks(a, n, max) ==
    \A i \in 1 .. Len(a) :
      a[i].type = "ACK" => firstMissing(a[i]) <= n /\ a[i].ack < max

Contents(h) ==
    /\ DataIsGood(h) /\ FileIsGood(h)
    /\ snd[h].phase = "DATA" =>
         /\ OnlyRead(toRcv[h], snd[h].max_value) /\ WindowRead(h, snd[h].max_value)
         /\ TrueAcks(toSnd[h], Len(files[h]), snd[h].max_value)
         /\ Tracks(h, snd[h], Len(files[h])) /\ Reading(h, snd[h], Len(files[h]))
    /\ snd[h].phase = "EXIT" /\ ~ snd[h].misled => Len(files[h]) = FileLen[h]

LEMMA PartContents ==
    ASSUME NEW p, NEW q, PartOf(p, q)
    PROVE  /\ \A max : OnlyRead(q, max) => OnlyRead(p, max)
           /\ \A n, max : TrueAcks(q, n, max) => TrueAcks(p, n, max)
<1>1. \A i \in 1 .. Len(p) : \E k \in 1 .. Len(q) : p[i] = q[k]
  BY PartElement
<1> QED
  BY <1>1 DEF OnlyRead, TrueAcks

LEMMA PartGood ==
    ASSUME NEW h \in Hosts, PartOf(toRcv'[h], toRcv[h]), Len(files'[h]) \in Nat,
           Len(files[h]) \in Nat, Len(files[h]) <= Len(files'[h]), TypeInv, DataIsGood(h)
    PROVE  DataIsGood(h)'
<1> SUFFICES ASSUME NEW i \in 1 .. Len(toRcv'[h]), toRcv'[h][i].type = "DATA"
             PROVE  \/ toRcv'[h][i].data = toRcv'[h][i].seq_num
                    \/ toRcv'[h][i].seq_num < Len(files'[h])
  BY DEF DataIsGood
<1>1. PICK k \in 1 .. Len(toRcv[h]) : toRcv'[h][i] = toRcv[h][k]
  <2>1. PICK p, q : p = toRcv'[h] /\ q = toRcv[h]
    OBVIOUS
  <2>2. \A j \in 1 .. Len(p) : \E k \in 1 .. Len(q) : p[j] = q[k]
    BY <2>1, PartElement
  <2> QED
    BY <2>1, <2>2
<1>2. PICK m : m = toRcv[h][k]
  OBVIOUS
<1>3. m.type = "DATA" /\ (m.data = m.seq_num \/ m.seq_num < Len(files[h]))
  BY <1>1, <1>2 DEF DataIsGood
<1>4. m.seq_num \in Nat
  BY <1>2, <1>3, SessionTypes, DataPacket
<1> QED
  BY <1>1, <1>2, <1>3, <1>4

(* Packets and answers may be lost, or taken without an effect.            *)
LEMMA FewerContents ==
    ASSUME TypeInv, NEW h \in Hosts, Contents(h), rcv' = rcv, files' = files, snd'[h] = snd[h],
           PartOf(toRcv'[h], toRcv[h]), PartOf(toSnd'[h], toSnd[h])
    PROVE  Contents(h)'
<1>1. DataIsGood(h)' /\ FileIsGood(h)'
  BY PartGood, SessionTypes DEF Contents, FileIsGood
<1>2. /\ \A max : OnlyRead(toRcv[h], max) => OnlyRead(toRcv'[h], max)
      /\ \A n, max : TrueAcks(toSnd[h], n, max) => TrueAcks(toSnd'[h], n, max)
  BY PartContents
<1> QED
  BY <1>1, <1>2 DEF Contents, WindowRead, Served, Tracks, Reading, ToldOf, First

(* A sender that begins, or begins again, and one that ends.               *)
LEMMA PingContents ==
    ASSUME TypeInv, NEW h \in Hosts, Contents(h), Pings(h), files' = files
    PROVE  Contents(h)'
<1>1. /\ snd'[h].phase = "SYN" /\ Len(toRcv[h]) \in Nat
      /\ Appended(toRcv'[h], toRcv[h], SYN)
  BY Pinged
<1>2. DataIsGood(h)'
  <2>1. ASSUME NEW i \in 1 .. Len(toRcv'[h]), toRcv'[h][i].type = "DATA"
        PROVE  i \in 1 .. Len(toRcv[h]) /\ toRcv'[h][i] = toRcv[h][i]
    BY <1>1, <2>1 DEF Appended, SYN
  <2> QED
    BY <2>1 DEF Contents, DataIsGood
<1> QED
  BY <1>1, <1>2 DEF Contents, FileIsGood

(* The loop.                                                               *)
LEMMA LoopContents ==
    ASSUME TypeInv, NEW h \in Hosts, Contents(h), NEW s, Ready2(h, s, Len(files[h])),
           Continue(h, s), rcv' = rcv, files' = files, toSnd'[h] \in Seq(AnswersTo(h)),
           OnlyRead(toRcv[h], s.max_value), WindowRead(h, s.max_value),
           TrueAcks(toSnd'[h], Len(files[h]), s.max_value)
    PROVE  Contents(h)'
<1>1. PICK n \in Nat : n = Len(files[h]) /\ n <= FileLen[h] /\ Ready2(h, s, n)
  BY SessionTypes
<1>2. PICK p, q, u : p = toRcv'[h] /\ q = toRcv[h] /\ u = snd'[h]
  OBVIOUS
<1>3. /\ u = looped(h, s) /\ u.phase = "DATA" /\ p \in Seq(PacketsOf(h))
      /\ Len(q) \in Nat /\ Len(p) \in Nat /\ Len(q) <= Len(p)
      /\ \A i \in 1 .. Len(q) : p[i] = q[i]
      /\ \A i \in Len(q) + 1 .. Len(p) : Sends(h, s, u, p[i])
  BY <1>2, Continued DEF Ready2
<1>4. /\ Tracks(h, u, n) /\ Reading(h, u, n)
      /\ s.max_value \in Nat /\ u.max_value \in Nat /\ s.max_value <= u.max_value
  BY <1>1, <1>3, TracksAfterLoop
<1>5. ASSUME NEW i \in 1 .. Len(p), p[i].type = "DATA"
      PROVE  p[i].seq_num < u.max_value /\ (p[i].data = p[i].seq_num \/ p[i].seq_num < n)
  <2>1. CASE i \in Len(q) + 1 .. Len(p)
    <3>1. PICK m : m = p[i]
      OBVIOUS
    <3>2. Sends(h, s, u, m) /\ m.type = "DATA"
      BY <1>3, <1>5, <2>1, <3>1
    <3>3. m.seq_num < u.max_value /\ (m.data = m.seq_num \/ m.seq_num < n)
      BY <1>1, <1>3, <3>2, SentTracks
    <3> QED
      BY <3>1, <3>3
  <2>2. CASE i \in 1 .. Len(q)
    <3>1. PICK m : m = q[i]
      OBVIOUS
    <3>2. m = p[i] /\ m.type = "DATA" /\ m \in PacketsOf(h)
      BY <1>2, <1>3, <1>5, <2>2, <3>1, SessionTypes
    <3>3. m.seq_num \in Nat
      BY <3>2, DataPacket
    <3>4. m.seq_num < s.max_value
      BY <1>2, <2>2, <3>1, <3>2 DEF OnlyRead
    <3>5. m.data = m.seq_num \/ m.seq_num < n
      BY <1>1, <1>2, <2>2, <3>1, <3>2 DEF Contents, DataIsGood
    <3> QED
      BY <1>4, <3>2, <3>3, <3>4, <3>5
  <2> QED
    BY <1>3, <2>1, <2>2
<1>6. OnlyRead(p, u.max_value)
  BY <1>5 DEF OnlyRead
<1>7. DataIsGood(h)' /\ FileIsGood(h)'
  BY <1>1, <1>2, <1>5 DEF DataIsGood, Contents, FileIsGood
<1>8. TrueAcks(toSnd'[h], n, u.max_value)
  <2> SUFFICES ASSUME NEW i \in 1 .. Len(toSnd'[h]), toSnd'[h][i].type = "ACK"
               PROVE  firstMissing(toSnd'[h][i]) <= n /\ toSnd'[h][i].ack < u.max_value
    BY DEF TrueAcks
  <2>1. PICK a : a = toSnd'[h][i]
    OBVIOUS
  <2>2. a \in AnswersTo(h) /\ a.type = "ACK"
    BY <2>1, ElementOfSeq
  <2>3. a.ack \in Int
    BY <2>2, AckPacket
  <2>4. firstMissing(a) <= n /\ a.ack < s.max_value
    BY <1>1, <2>1, <2>2 DEF TrueAcks
  <2> QED
    BY <1>4, <2>1, <2>3, <2>4
<1>9. WindowRead(h, u.max_value)'
  <2>1. \A i \in Slots : rcv.window_buffer[i].seq_num \in Nat
    BY WindowTypes DEF TypeInv, ConnectionTypes, WindowOK
  <2> QED
    BY <1>2, <1>4, <2>1 DEF WindowRead, Served
<1> QED
  BY <1>1, <1>2, <1>3, <1>4, <1>6, <1>7, <1>8, <1>9 DEF Contents, WindowRead, Served

(* The sender's steps.                                                     *)
LEMMA ReceiveGOContents ==
    ASSUME TypeInv, NEW h \in Hosts, Order(h), Contents(h), ReceiveGO(h)
    PROVE  Contents(h)'
<1>1. /\ SndReceives(h, "SYN", {"GO"}) /\ snd[h].phase = "SYN"
      /\ Continue(h, [snd[h] EXCEPT !.phase = "DATA"])
  BY DEF ReceiveGO, SndReceives
<1>2. /\ rcv' = rcv /\ files' = files /\ toSnd[h][1].type \in {"GO"}
      /\ Holds(toSnd[h], toSnd[h][1].type)
      /\ \A t : Holds(toSnd'[h], t) => Holds(toSnd[h], t)
  BY <1>1, AnswerTaken
<1>3. toSnd'[h] \in Seq(AnswersTo(h))
  BY <1>1, Received
<1>4. Asks(h, toRcv[h], toSnd[h]) /\ Holds(toSnd[h], "GO")
  BY <1>1, <1>2 DEF Order
<1>5. PICK s : s = [snd[h] EXCEPT !.phase = "DATA"]
  OBVIOUS
<1>6. SenderOK(h, snd[h]) /\ BeforeLoop(h, s)
  BY <1>1, <1>5, BeforeLoopCases DEF TypeInv, HostTypes
<1>7. /\ s.start_seq = 0 /\ s.max_value = 0 /\ ~ s.begun /\ ~ s.sent_fin /\ s.empty = {}
      /\ s.new_start = WINDOW_SIZE /\ ~ s.hasnacks
  <2>1. PICK d \in Senders : d = sender
    BY FreshSender
  <2>2. PICK b \in BOOLEAN : snd[h] = [d EXCEPT !.phase = "SYN", !.misled = b]
    BY <1>1, <1>6, <2>1, SenderTypes DEF SenderOK, Reads, AtRest
  <2>3. /\ d.start_seq = 0 /\ d.new_start = WINDOW_SIZE /\ d.max_value = 0
        /\ ~ d.begun /\ ~ d.sent_fin /\ d.empty = {} /\ ~ d.hasnacks
    BY <2>1, FreshSender
  <2> QED
    BY <1>5, <2>1, <2>2, <2>3 DEF Senders
<1>8. Len(files[h]) = 0
  BY <1>4 DEF Asks
<1>9. Ready2(h, s, Len(files[h]))
  BY <1>6, <1>7, <1>8 DEF Ready2, Tracks
<1>10. OnlyRead(toRcv[h], s.max_value)
  BY <1>4 DEF Asks, Holds, OnlyRead
<1>11. WindowRead(h, s.max_value)
  BY <1>4 DEF Asks, WindowRead, TypeInv, ConnectionTypes, Fresh
<1>12. TrueAcks(toSnd'[h], Len(files[h]), s.max_value)
  <2>1. ~ Holds(toSnd'[h], "ACK")
    BY <1>2, <1>4 DEF Asks
  <2> QED
    BY <2>1 DEF Holds, TrueAcks
<1> QED
  BY <1>1, <1>2, <1>3, <1>5, <1>9, <1>10, <1>11, <1>12, LoopContents

LEMMA PingAgainContents ==
    ASSUME TypeInv, NEW h \in Hosts, Contents(h), PingAgain(h) \/ SynTimeout(h)
    PROVE  Contents(h)'
<1>1. Pings(h) /\ files' = files
  BY DEF PingAgain, SynTimeout, SndReceives
<1> QED
  BY <1>1, PingContents

(* A sender at its loop with the same packets read and the same slots.     *)
LEMMA SameTracks ==
    ASSUME NEW h \in Hosts, NEW n, NEW s, NEW u, Tracks(h, s, n),
           u.start_seq = s.start_seq, u.sent_fin = s.sent_fin, u.max_value = s.max_value,
           u.empty = s.empty, u.misled = s.misled \/ u.misled = TRUE
    PROVE  Tracks(h, u, n)
BY DEF Tracks

LEMMA TakenAcks ==
    ASSUME TypeInv, NEW h \in Hosts, NEW types, SndReceives(h, "DATA", types), Contents(h)
    PROVE  /\ snd[h].phase = "DATA" /\ rcv' = rcv /\ files' = files
           /\ toSnd'[h] \in Seq(AnswersTo(h))
           /\ TrueAcks(toSnd[h], Len(files[h]), snd[h].max_value)
           /\ TrueAcks(toSnd'[h], Len(files[h]), snd[h].max_value)
<1>1. snd[h].phase = "DATA" /\ rcv' = rcv /\ files' = files /\ toSnd'[h] \in Seq(AnswersTo(h))
  BY Received
<1>2. PartOf(toSnd'[h], toSnd[h])
  BY TakenIsPart
<1>3. TrueAcks(toSnd[h], Len(files[h]), snd[h].max_value)
  BY <1>1 DEF Contents
<1> QED
  BY <1>1, <1>2, <1>3, PartContents

LEMMA ReceiveACKContents ==
    ASSUME TypeInv, NEW h \in Hosts, Contents(h), ReceiveACK(h)
    PROVE  Contents(h)'
<1>1. /\ SndReceives(h, "DATA", {"ACK"})
      /\ Continue(h, afterAck(snd[h], Head(toSnd[h])))
  BY DEF ReceiveACK
<1>2. PICK m : m = toSnd[h][1]
  OBVIOUS
<1>3. /\ m = Head(toSnd[h]) /\ m \in AnswersTo(h) /\ 1 \in 1 .. Len(toSnd[h])
      /\ m.type = "ACK"
  <2>1. toSnd[h][1].type \in {"ACK"}
    BY <1>1, Received
  <2> QED
    BY <1>1, <1>2, <2>1, Received
<1>4. /\ snd[h].phase = "DATA" /\ rcv' = rcv /\ files' = files
      /\ toSnd'[h] \in Seq(AnswersTo(h))
      /\ TrueAcks(toSnd[h], Len(files[h]), snd[h].max_value)
      /\ TrueAcks(toSnd'[h], Len(files[h]), snd[h].max_value)
  BY <1>1, TakenAcks
<1>5. firstMissing(m) <= Len(files[h]) /\ m.ack < snd[h].max_value
  BY <1>2, <1>3, <1>4 DEF TrueAcks
<1>6. PICK s : s = afterAck(snd[h], m)
  OBVIOUS
<1>7. snd[h] \in Senders /\ snd[h].max_value \in Nat
  BY SessionTypes
<1>8. /\ s.start_seq = snd[h].start_seq /\ s.sent_fin = snd[h].sent_fin
      /\ s.max_value = snd[h].max_value /\ s.empty = snd[h].empty
      /\ \/ s.new_start = firstMissing(m)
         \/ s.new_start = snd[h].new_start /\ m.ack >= snd[h].max_value
      /\ m.ack < snd[h].max_value /\ ~ s.hasnacks => firstMissing(m) = snd[h].max_value
      /\ s.misled = snd[h].misled
  BY <1>3, <1>6, <1>7, AfterAck
<1>9. ToldOf(s, Len(files[h]))
  <2>1. m.ack \in Int
    BY <1>3, AckPacket
  <2> QED
    BY <1>5, <1>7, <1>8, <2>1 DEF ToldOf
<1>10. BeforeLoop(h, s)
  BY <1>3, <1>4, <1>6, BeforeLoopCases DEF TypeInv, HostTypes
<1>11. Tracks(h, s, Len(files[h]))
  BY <1>4, <1>8, SameTracks DEF Contents
<1>12. Ready2(h, s, Len(files[h]))
  BY <1>9, <1>10, <1>11 DEF Ready2
<1>13. OnlyRead(toRcv[h], s.max_value) /\ WindowRead(h, s.max_value)
  BY <1>4, <1>8 DEF Contents
<1> QED
  BY <1>1, <1>3, <1>4, <1>6, <1>8, <1>12, <1>13, LoopContents

LEMMA ReceiveLateGOContents ==
    ASSUME TypeInv, NEW h \in Hosts, Contents(h), ReceiveLateGO(h)
    PROVE  Contents(h)'
<1>1. /\ SndReceives(h, "DATA", {"GO"})
      /\ Continue(h, [snd[h] EXCEPT !.misled = TRUE])
  BY DEF ReceiveLateGO
<1>2. /\ snd[h].phase = "DATA" /\ rcv' = rcv /\ files' = files
      /\ toSnd'[h] \in Seq(AnswersTo(h))
      /\ TrueAcks(toSnd'[h], Len(files[h]), snd[h].max_value)
  BY <1>1, TakenAcks
<1>3. PICK s : s = [snd[h] EXCEPT !.misled = TRUE]
  OBVIOUS
<1>4. /\ s.start_seq = snd[h].start_seq /\ s.sent_fin = snd[h].sent_fin
      /\ s.max_value = snd[h].max_value /\ s.empty = snd[h].empty
      /\ s.new_start = snd[h].new_start /\ s.hasnacks = snd[h].hasnacks /\ s.misled = TRUE
  BY <1>3, SessionTypes DEF Senders
<1>5. BeforeLoop(h, s)
  BY <1>2, <1>3, BeforeLoopCases DEF TypeInv, HostTypes
<1>6. Tracks(h, s, Len(files[h]))
  BY <1>2, <1>4, SameTracks DEF Contents
<1>7. Ready2(h, s, Len(files[h]))
  <2>1. Reading(h, snd[h], Len(files[h]))
    BY <1>2 DEF Contents
  <2>2. mayRead(s) => ToldOf(s, Len(files[h])) \/ (First(h, s) /\ s.misled)
    BY <1>4, <2>1 DEF Reading, mayRead, ToldOf, First
  <2> QED
    BY <1>5, <1>6, <2>2 DEF Ready2
<1>8. OnlyRead(toRcv[h], s.max_value) /\ WindowRead(h, s.max_value)
  BY <1>2, <1>4 DEF Contents
<1> QED
  BY <1>1, <1>2, <1>3, <1>4, <1>7, <1>8, LoopContents

LEMMA DataTimeoutContents ==
    ASSUME TypeInv, NEW h \in Hosts, Contents(h), DataTimeout(h)
    PROVE  Contents(h)'
<1>1. /\ snd[h].phase = "DATA" /\ Continue(h, doubted(snd[h]))
      /\ rcv' = rcv /\ files' = files /\ toSnd' = toSnd
  BY DEF DataTimeout
<1>2. PICK s : s = doubted(snd[h])
  OBVIOUS
<1>3. snd[h] \in Senders /\ snd[h].start_seq \in Nat
  BY SessionTypes
<1>4. /\ s.start_seq = snd[h].start_seq /\ s.sent_fin = snd[h].sent_fin
      /\ s.max_value = snd[h].max_value /\ s.empty = snd[h].empty
      /\ s.new_start = snd[h].start_seq /\ s.misled = snd[h].misled
  BY <1>2, <1>3, Doubted
<1>5. BeforeLoop(h, s)
  BY <1>1, <1>2, BeforeLoopCases DEF TypeInv, HostTypes
<1>6. Tracks(h, s, Len(files[h]))
  BY <1>1, <1>4, SameTracks DEF Contents
<1>7. Ready2(h, s, Len(files[h]))
  BY <1>3, <1>4, <1>5, <1>6 DEF Ready2, mayRead
<1>8. /\ OnlyRead(toRcv[h], s.max_value) /\ WindowRead(h, s.max_value)
      /\ TrueAcks(toSnd'[h], Len(files[h]), s.max_value)
  BY <1>1, <1>4 DEF Contents
<1>9. toSnd'[h] \in Seq(AnswersTo(h))
  BY <1>1 DEF TypeInv, HostTypes
<1> QED
  BY <1>1, <1>2, <1>7, <1>8, <1>9, LoopContents

LEMMA FinTimeoutContents ==
    ASSUME TypeInv, NEW h \in Hosts, Contents(h), FinTimeout(h)
    PROVE  Contents(h)'
<1>1. /\ snd[h].phase = "DATA" /\ snd[h].sent_fin
      /\ snd' = [snd EXCEPT ![h].hasnacks = FALSE]
      /\ toRcv' = [toRcv EXCEPT ![h] = Put(@, <<FIN>>)]
      /\ rcv' = rcv /\ files' = files /\ toSnd' = toSnd
  BY DEF FinTimeout
<1>2. /\ snd'[h].phase = "DATA" /\ snd'[h].sent_fin = snd[h].sent_fin
      /\ snd'[h].max_value = snd[h].max_value
      /\ snd'[h].start_seq = snd[h].start_seq /\ snd'[h].empty = snd[h].empty
      /\ snd'[h].misled = snd[h].misled
  <2>1. PICK s \in Senders : s = snd[h]
    BY SessionTypes
  <2>2. snd'[h] = [s EXCEPT !.hasnacks = FALSE]
    BY <1>1, <2>1 DEF TypeInv, Functions
  <2>3. /\ snd'[h].phase = s.phase /\ snd'[h].sent_fin = s.sent_fin
        /\ snd'[h].max_value = s.max_value
        /\ snd'[h].start_seq = s.start_seq /\ snd'[h].empty = s.empty
        /\ snd'[h].misled = s.misled
    BY <2>1, <2>2 DEF Senders
  <2> QED
    BY <1>1, <2>1, <2>3
<1>3. FIN \in PacketsOf(h) /\ FIN.type = "FIN"
  BY DEF PacketsOf, FIN
<1>4. Len(toRcv[h]) \in Nat /\ Appended(toRcv'[h], toRcv[h], FIN)
  BY <1>1, <1>3, OnePacket
<1>5. ASSUME NEW i \in 1 .. Len(toRcv'[h]), toRcv'[h][i].type = "DATA"
      PROVE  i \in 1 .. Len(toRcv[h]) /\ toRcv'[h][i] = toRcv[h][i]
  BY <1>3, <1>4, <1>5 DEF Appended
<1>6. /\ DataIsGood(h)' /\ FileIsGood(h)'
      /\ OnlyRead(toRcv[h], snd[h].max_value) => OnlyRead(toRcv'[h], snd[h].max_value)
  BY <1>1, <1>5 DEF Contents, DataIsGood, FileIsGood, OnlyRead
<1>7. Tracks(h, snd'[h], Len(files[h]))
  BY <1>1, <1>2, SameTracks DEF Contents
<1>8. Reading(h, snd'[h], Len(files[h]))
  BY <1>1, <1>2 DEF Reading, mayRead
<1> QED
  BY <1>1, <1>2, <1>6, <1>7, <1>8 DEF Contents, WindowRead, Served

LEMMA ReceiveFINACKContents ==
    ASSUME TypeInv, NEW h \in Hosts, Contents(h), ReceiveFINACK(h)
    PROVE  Contents(h)'
<1>1. snd[h].phase = "DATA" /\ files' = files
  BY DEF ReceiveFINACK, SndReceives
<1>2. CASE Pings(h)
  BY <1>1, <1>2, PingContents
<1>3. CASE /\ snd[h].sent_fin /\ UNCHANGED toRcv
           /\ snd' = [snd EXCEPT ![h] = [sender EXCEPT !.phase = "EXIT",
                                                      !.misled = snd[h].misled]]
  <2>1. snd'[h].phase = "EXIT" /\ snd'[h].misled = snd[h].misled
    <3>1. PICK d \in Senders : d = sender
      BY FreshSender
    <3>2. snd'[h] = [d EXCEPT !.phase = "EXIT", !.misled = snd[h].misled]
      BY <1>3, <3>1 DEF TypeInv, Functions
    <3> QED
      BY <3>1, <3>2 DEF Senders
  <2>2. ~ snd[h].misled => Len(files[h]) = FileLen[h]
    BY <1>1, <1>3 DEF Contents, Tracks
  <2> QED
    BY <1>1, <1>3, <2>1, <2>2 DEF Contents, DataIsGood, FileIsGood
<1> QED
  BY <1>2, <1>3 DEF ReceiveFINACK

LEMMA DropAtGoneContents ==
    ASSUME TypeInv, NEW h \in Hosts, Contents(h), DropAtGone(h)
    PROVE  Contents(h)'
<1>1. PICK phase \in {"EXIT", "GONE"} : SndReceives(h, phase, {"GO", "FINACK", "ACK"})
  BY DEF DropAtGone
<1>2. rcv' = rcv /\ files' = files /\ snd' = snd /\ toRcv' = toRcv
  BY <1>1 DEF DropAtGone, SndReceives
<1>3. PartOf(toSnd'[h], toSnd[h])
  BY <1>1, TakenIsPart
<1> QED
  BY <1>2, <1>3, WholePackets, FewerContents

LEMMA LoseContents ==
    ASSUME TypeInv, NEW h \in Hosts, Contents(h), Lose(h)
    PROVE  Contents(h)'
<1>1. /\ UNCHANGED <<rcv, files, snd>>
      /\ \/ toSnd' = toSnd /\ DroppedFrom(toRcv'[h], toRcv[h])
         \/ toRcv' = toRcv /\ DroppedFrom(toSnd'[h], toSnd[h])
  BY Lost
<1>2. PartOf(toRcv'[h], toRcv[h]) /\ PartOf(toSnd'[h], toSnd[h])
  BY <1>1, WholeAnswers, WholePackets, DroppedIsPart, SessionTypes
<1> QED
  BY <1>1, <1>2, FewerContents

-----------------------------------------------------------------------------
(* The receiver's steps.                                                   *)
LEMMA AnswerAdded ==
    ASSUME TypeInv, NEW h \in Hosts, NEW m \in AnswersTo(h), Answer(h, m),
           NEW n \in Nat, NEW k \in Nat, n <= k, NEW max, TrueAcks(toSnd[h], n, max),
           m.type = "ACK" => firstMissing(m) <= k /\ m.ack < max
    PROVE  TrueAcks(toSnd'[h], k, max)
<1> SUFFICES ASSUME NEW i \in 1 .. Len(toSnd'[h]), toSnd'[h][i].type = "ACK"
             PROVE  firstMissing(toSnd'[h][i]) <= k /\ toSnd'[h][i].ack < max
  BY DEF TrueAcks
<1>1. /\ Len(toSnd[h]) \in Nat
      /\ Len(toSnd'[h]) \in Len(toSnd[h]) .. Len(toSnd[h]) + 1
      /\ \A j \in 1 .. Len(toSnd[h]) : toSnd'[h][j] = toSnd[h][j]
      /\ \A j \in Len(toSnd[h]) + 1 .. Len(toSnd'[h]) : toSnd'[h][j] = m
  BY Answered
<1>2. CASE i \in 1 .. Len(toSnd[h])
  <2>1. PICK a : a = toSnd[h][i]
    OBVIOUS
  <2>2. a \in AnswersTo(h) /\ a.type = "ACK" /\ toSnd'[h][i] = a
    BY <1>1, <1>2, <2>1, SessionTypes
  <2>3. firstMissing(a) <= n /\ a.ack < max
    BY <1>2, <2>1, <2>2 DEF TrueAcks
  <2>4. firstMissing(a) \in Nat
    BY <2>2, AckPacket
  <2> QED
    BY <2>2, <2>3, <2>4
<1>3. CASE i \in Len(toSnd[h]) + 1 .. Len(toSnd'[h])
  BY <1>1, <1>3
<1> QED
  BY <1>1, <1>2, <1>3

LEMMA IgnoredContents ==
    ASSUME TypeInv, NEW h \in Hosts, Contents(h), NEW type, Arrives(h, type),
           UNCHANGED <<rcv, files, toSnd>>
    PROVE  Contents(h)'
  BY PacketTaken, WholeAnswers, FewerContents

(* A host that is not served is told that its connection is closed.        *)
LEMMA RefusedContents ==
    ASSUME TypeInv, NEW h \in Hosts, Contents(h), NEW type, Arrives(h, type),
           Answer(h, FINACK), UNCHANGED <<rcv, files>>
    PROVE  Contents(h)'
<1>1. snd'[h] = snd[h] /\ PartOf(toRcv'[h], toRcv[h])
  BY PacketTaken
<1>2. DataIsGood(h)' /\ FileIsGood(h)'
  BY <1>1, PartGood, SessionTypes DEF Contents, FileIsGood
<1>3. \A max : OnlyRead(toRcv[h], max) => OnlyRead(toRcv'[h], max)
  BY <1>1, PartContents
<1>4. FINACK \in AnswersTo(h) /\ FINACK.type # "ACK"
  BY DEF AnswersTo, FINACK
<1>5. ASSUME NEW max, TrueAcks(toSnd[h], Len(files[h]), max)
      PROVE  TrueAcks(toSnd'[h], Len(files[h]), max)
  <2>1. PICK n \in Nat : n = Len(files[h])
    BY SessionTypes
  <2>2. TrueAcks(toSnd[h], n, max) /\ n <= n
    BY <1>5, <2>1
  <2>3. TrueAcks(toSnd'[h], n, max)
    BY <1>4, <2>1, <2>2, AnswerAdded
  <2> QED
    BY <2>1, <2>3
<1> QED
  BY <1>1, <1>2, <1>3, <1>5 DEF Contents, WindowRead, Served, Tracks, Reading, ToldOf, First

(* A SYN that arrives finds an empty file, or a host that has not begun.   *)
LEMMA ReceiveSYNContents ==
    ASSUME TypeInv, NEW h \in Hosts, Order(h), Contents(h), ReceiveSYN(h)
    PROVE  Contents(h)' /\ WindowIsGood'
<1>1. /\ rcv.conn = NoHost /\ files'[h] = <<>> /\ rcv'.conn = h
      /\ rcv'.state = "WAITING_DATA" /\ Fresh(rcv')
  BY ReceiveSYNTypes
<1>2. Arrives(h, "SYN") /\ Answer(h, GO)
  BY DEF ReceiveSYN
<1>3. /\ snd'[h] = snd[h] /\ Holds(toRcv[h], "SYN")
      /\ PartOf(toRcv'[h], toRcv[h])
      /\ \A t, T : Behind(toRcv[h], "SYN", T) /\ Holds(toRcv'[h], t) => t \in T
  BY <1>2, PacketTaken
<1>4. Len(files'[h]) = 0 /\ FileIsGood(h)'
  BY <1>1 DEF FileIsGood
<1>5. WindowIsGood'
  BY <1>1 DEF WindowIsGood, Fresh
<1>6. CASE snd[h].phase = "SYN"
  <2>1. Behind(toRcv[h], "SYN", {"SYN"})
    BY <1>6 DEF Order, Asks
  <2>2. ~ Holds(toRcv'[h], "DATA")
    BY <1>3, <2>1
  <2>3. DataIsGood(h)'
    BY <2>2 DEF Holds, DataIsGood
  <2> QED
    BY <1>3, <1>4, <1>5, <1>6, <2>3 DEF Contents
<1>7. CASE snd[h].phase = "DATA"
  <2>1. Len(files[h]) = 0
    BY <1>3, <1>7, SessionTypes DEF Order, Talks, Begun
  <2>2. DataIsGood(h)'
    BY <1>3, <1>4, <2>1, PartGood DEF Contents
  <2>3. OnlyRead(toRcv'[h], snd[h].max_value)
    BY <1>3, <1>7, PartContents DEF Contents
  <2>4. WindowRead(h, snd[h].max_value)'
    BY <1>1 DEF WindowRead, Fresh
  <2>5. WindowRead(h, snd[h].max_value)'
    BY <1>1 DEF WindowRead, Fresh
  <2>6. TrueAcks(toSnd'[h], 0, snd[h].max_value)
    <3>1. GO \in AnswersTo(h) /\ GO.type = "GO"
      BY DEF AnswersTo, GO
    <3>2. TrueAcks(toSnd[h], 0, snd[h].max_value)
      BY <1>7, <2>1 DEF Contents
    <3>3. 0 \in Nat /\ 0 <= 0
      OBVIOUS
    <3> QED
      BY <1>2, <3>1, <3>2, <3>3, AnswerAdded
  <2> QED
    BY <1>3, <1>4, <1>5, <1>7, <2>1, <2>2, <2>3, <2>5, <2>6 DEF Contents
<1>8. snd[h].phase # "EXIT"
  BY <1>3 DEF Order
<1> QED
  BY <1>6, <1>7, <1>8 DEF Order

LEMMA GrowsTracks ==
    ASSUME NEW h \in Hosts, NEW s \in Senders, NEW n \in Nat, NEW k \in Nat,
           n <= k, k <= s.max_value, k <= FileLen[h]
    PROVE  /\ Tracks(h, s, n) => Tracks(h, s, k)
           /\ Reading(h, s, n) => Reading(h, s, k)
<1>1. /\ s.start_seq \in Nat /\ s.new_start \in Nat /\ s.max_value \in Nat /\ FileLen[h] \in Nat
      /\ WINDOW_SIZE \in Nat
  BY SenderTypes, LengthOfFile, WindowAssumption
<1>2. Tracks(h, s, n) => Tracks(h, s, k)
  BY <1>1 DEF Tracks
<1>3. ToldOf(s, n) => ToldOf(s, k)
  BY <1>1 DEF ToldOf
<1> QED
  BY <1>2, <1>3 DEF Reading

(* The window of a connection holds only packets that its host has sent.   *)
LEMMA WindowOfHost ==
    ASSUME TypeInv, NEW h \in Hosts, Contents(h), Served(h), snd[h].phase = "DATA"
    PROVE  snd[h].max_value \in Nat /\ WindowOK(rcv, snd[h].max_value)
<1>1. WindowOK(rcv, FileLen[h]) /\ Len(files[h]) = rcv.window_min_seq
  BY Connected DEF Served
<1> QED
  BY <1>1, SessionTypes DEF Contents, WindowRead, Tracks, WindowOK

(* What the window begins with is written, and may be told of.             *)
LEMMA GrownContents ==
    ASSUME TypeInv, NEW h \in Hosts, Contents(h), Served(h), snd[h].phase # "EXIT",
           NEW r, WindowOK(r, FileLen[h]), Good(r), r.window_min_seq = rcv.window_min_seq,
           Grown(h, r), snd[h].phase = "DATA" => WindowOK(r, snd[h].max_value),
           snd'[h] = snd[h], PartOf(toRcv'[h], toRcv[h]),
           toSnd' = toSnd \/ \E m \in {FINACK, buildAckNak(r)} : Answer(h, m),
           Served(h)' => \A i \in Slots : rcv'.window_buffer[i].received =>
                                           rcv'.window_buffer[i] = r.window_buffer[i]
    PROVE  Contents(h)'
<1>1. /\ FileIsGood(h)'
      /\ Len(files[h]) \in Nat /\ Len(files'[h]) \in Nat /\ Len(files[h]) <= Len(files'[h])
      /\ Len(files'[h]) <= FileLen[h]
  <2>1. FileIsGood(h)
    BY DEF Contents
  <2> QED
    BY <2>1, GrowsGood
<1>2. DataIsGood(h)'
  BY <1>1, PartGood DEF Contents
<1> SUFFICES ASSUME snd[h].phase = "DATA"
             PROVE  /\ OnlyRead(toRcv'[h], snd[h].max_value)
                    /\ WindowRead(h, snd[h].max_value)'
                    /\ TrueAcks(toSnd'[h], Len(files'[h]), snd[h].max_value)
                    /\ Tracks(h, snd[h], Len(files'[h])) /\ Reading(h, snd[h], Len(files'[h]))
  BY <1>1, <1>2 DEF Contents
<1>3. OnlyRead(toRcv'[h], snd[h].max_value)
  BY PartContents DEF Contents
<1>4. WindowRead(h, snd[h].max_value)'
  BY DEF WindowRead, WindowOK
<1>5. PICK b \in Nat : b = snd[h].max_value /\ WindowOK(r, b)
  BY SessionTypes
<1>c. PICK c : c = consecutive(r)
  OBVIOUS
<1>6. PICK mn \in Nat : mn = rcv.window_min_seq /\ c = consecutive(r)
  BY <1>c, Connected DEF Served
<1>7. Len(files'[h]) = mn + c /\ mn = r.window_min_seq
  BY <1>6 DEF Grown
<1>8. Len(files'[h]) <= b
  <2>1. mn + c <= b
    BY <1>5, <1>6, <1>7, Consecutive
  <2> QED
    BY <1>7, <2>1
<1>9. Tracks(h, snd[h], Len(files'[h])) /\ Reading(h, snd[h], Len(files'[h]))
  <2>1. Tracks(h, snd[h], Len(files[h])) /\ Reading(h, snd[h], Len(files[h]))
    BY DEF Contents
  <2> QED
    BY <1>1, <1>5, <1>8, <2>1, GrowsTracks, SessionTypes
<1>10. TrueAcks(toSnd'[h], Len(files'[h]), snd[h].max_value)
  <2>1. TrueAcks(toSnd[h], Len(files[h]), b)
    BY <1>5 DEF Contents
  <2>2. FINACK \in AnswersTo(h) /\ FINACK.type # "ACK"
    BY DEF AnswersTo, FINACK
  <2>3. PICK a : a = buildAckNak(r)
    OBVIOUS
  <2>4. a \in AnswersTo(h)
    BY <2>3, AckTypes
  <2>5. firstMissing(a) <= Len(files'[h])
    BY <1>6, <1>7, <2>3, LengthOfFile, AckOf
  <2>6. a.ack < b
    <3>1. a \in [type : {"ACK"}, ack : -1 .. b - 1, naks : SUBSET (0 .. b - 1)]
      BY <1>5, <2>3, AckOf
    <3> QED
      BY <3>1
  <2>7. CASE toSnd' = toSnd
    <3> SUFFICES ASSUME NEW i \in 1 .. Len(toSnd[h]), toSnd[h][i].type = "ACK"
                 PROVE  firstMissing(toSnd[h][i]) <= Len(files'[h]) /\ toSnd[h][i].ack < b
      BY <1>5, <2>7 DEF TrueAcks
    <3>1. PICK x : x = toSnd[h][i]
      OBVIOUS
    <3>2. x \in AnswersTo(h) /\ x.type = "ACK"
      BY <3>1, SessionTypes
    <3>3. firstMissing(x) \in Nat
      BY <3>2, AckPacket
    <3>4. firstMissing(x) <= Len(files[h]) /\ x.ack < b
      BY <2>1, <3>1, <3>2 DEF TrueAcks
    <3> QED
      BY <1>1, <3>1, <3>3, <3>4
  <2>8. CASE Answer(h, FINACK)
    BY <1>1, <1>5, <2>1, <2>2, <2>8, AnswerAdded
  <2>9. CASE Answer(h, a)
    BY <1>1, <1>5, <2>1, <2>4, <2>5, <2>6, <2>9, AnswerAdded
  <2> QED
    BY <2>3, <2>7, <2>8, <2>9
<1> QED
  BY <1>3, <1>4, <1>9, <1>10

(* A FIN closes the connection of a host that has sent it.                 *)
LEMMA ReceiveFINContents ==
    ASSUME TypeInv, NEW h \in Hosts, Order(h), Contents(h), WindowIsGood, ReceiveFIN(h)
    PROVE  Contents(h)' /\ WindowIsGood'
<1>1. Arrives(h, "FIN") /\ Answer(h, FINACK)
  BY DEF ReceiveFIN
<1>2. CASE rcv.conn # h /\ UNCHANGED <<rcv, files>>
  <2>1. Contents(h)'
    BY <1>1, <1>2, RefusedContents
  <2> QED
    BY <1>2, <2>1 DEF WindowIsGood
<1>3. CASE rcv.conn = h /\ closeConnection
  <2>1. /\ Grown(h, rcv) /\ rcv'.conn = NoHost /\ rcv'.state = "IDLE"
        /\ ConnectionTypes'
    BY <1>3, Closed
  <2>2. WindowOK(rcv, FileLen[h]) /\ Good(rcv)
    BY <1>3, Connected DEF WindowIsGood, Good
  <2>3. ~ Served(h)' /\ Served(h) /\ WindowIsGood'
    BY <1>3, <2>1, HostsAssumption DEF Served, WindowIsGood, ConnectionTypes, Fresh
  <2>4. snd'[h] = snd[h] /\ PartOf(toRcv'[h], toRcv[h])
    BY <1>1, PacketTaken
  <2>5. snd[h].phase # "EXIT"
    BY <2>3 DEF Order
  <2>6. snd[h].phase = "DATA" => WindowOK(rcv, snd[h].max_value)
    BY <2>3, WindowOfHost
  <2> QED
    BY <1>1, <2>1, <2>2, <2>3, <2>4, <2>5, <2>6, GrownContents
<1> QED
  BY <1>2, <1>3 DEF ReceiveFIN

LEMMA ReceiveDATAContents ==
    ASSUME TypeInv, NEW h \in Hosts, Order(h), Contents(h), WindowIsGood, ReceiveDATA(h)
    PROVE  Contents(h)' /\ WindowIsGood'
<1>1. Arrives(h, "DATA") /\ rcv.conn = h /\ Served(h)
  BY DEF ReceiveDATA, Served
<1>2. PICK m, k, d : m = Head(toRcv[h]) /\ k = m.seq_num /\ d = m.data
  OBVIOUS
<1>3. /\ m = toRcv[h][1] /\ m \in PacketsOf(h) /\ m.type = "DATA" /\ 1 \in 1 .. Len(toRcv[h])
      /\ snd'[h] = snd[h]
  BY <1>1, <1>2, Taken
<1>4. k \in Nat /\ k < FileLen[h] /\ d \in Data /\ FileLen[h] \in Nat
  BY <1>2, <1>3, DataPacket, LengthOfFile
<1>5. PICK r : r = stored(k, d)
  OBVIOUS
<1>6. /\ WindowOK(rcv, FileLen[h]) /\ Len(files[h]) = rcv.window_min_seq
      /\ rcv.window_min_seq \in Nat
  BY <1>1, Connected
<1>7. PartOf(toRcv'[h], toRcv[h]) /\ snd[h].phase # "EXIT"
  BY <1>1, PacketTaken DEF Order
<1>8. d = k \/ k < Len(files[h])
  BY <1>2, <1>3 DEF Contents, DataIsGood
<1>9. ASSUME k \in rcv.window_min_seq .. window_max_seq(rcv)
      PROVE  /\ WindowOK(r, FileLen[h]) /\ Good(r)
             /\ snd[h].phase = "DATA" => WindowOK(r, snd[h].max_value)
             /\ r.state = "RECV_DATA" /\ r.conn = h /\ r.window_min_seq = rcv.window_min_seq
  <2>1. /\ WindowOK(r, FileLen[h])
        /\ r.state = "RECV_DATA" /\ r.conn = h /\ r.window_min_seq = rcv.window_min_seq
        /\ \A i \in Slots :
             \/ r.window_buffer[i] = rcv.window_buffer[i]
             \/ r.window_buffer[i].seq_num = k /\ r.window_buffer[i].data = d
    <3>1. /\ WindowOK(r, FileLen[h])
          /\ r.state = "RECV_DATA" /\ r.conn = rcv.conn
          /\ r.window_min_seq = rcv.window_min_seq
          /\ \A i \in Slots :
               \/ r.window_buffer[i] = rcv.window_buffer[i]
               \/ /\ r.window_buffer[i].seq_num = k /\ r.window_buffer[i].data = d
                  /\ i = k % WINDOW_SIZE
      BY <1>4, <1>5, <1>6, <1>9, Stored
    <3> QED
      BY <1>1, <3>1
  <2>2. d = k
    BY <1>4, <1>6, <1>8, <1>9
  <2>3. Good(r)
    BY <2>1, <2>2 DEF Good, WindowIsGood
  <2>4. snd[h].phase = "DATA" => WindowOK(r, snd[h].max_value)
    <3> SUFFICES ASSUME snd[h].phase = "DATA"
                 PROVE  WindowOK(r, snd[h].max_value)
      OBVIOUS
    <3>1. k < snd[h].max_value
      BY <1>2, <1>3 DEF Contents, OnlyRead
    <3>2. snd[h].max_value \in Nat /\ WindowOK(rcv, snd[h].max_value)
      BY <1>1, WindowOfHost
    <3> QED
      BY <1>4, <1>5, <1>9, <3>1, <3>2, Stored
  <2> QED
    BY <2>1, <2>3, <2>4
<1>10. CASE UNCHANGED <<rcv, files, toSnd>>
  <2>1. Contents(h)'
    BY <1>1, <1>10, IgnoredContents
  <2> QED
    BY <1>10, <2>1 DEF WindowIsGood
<1>11. CASE inWindow(k) /\ rcv' = r /\ UNCHANGED <<files, toSnd>>
  <2>1. /\ WindowOK(r, FileLen[h]) /\ Good(r)
        /\ snd[h].phase = "DATA" => WindowOK(r, snd[h].max_value)
        /\ r.state = "RECV_DATA" /\ r.conn = h
    BY <1>9, <1>11 DEF inWindow
  <2>2. DataIsGood(h)' /\ FileIsGood(h)'
    BY <1>7, <1>11, PartGood, SessionTypes DEF Contents, FileIsGood
  <2>3. \A max : OnlyRead(toRcv[h], max) => OnlyRead(toRcv'[h], max)
    BY <1>7, PartContents
  <2>4. snd[h].phase = "DATA" => WindowRead(h, snd[h].max_value)'
    BY <1>3, <1>11, <2>1 DEF WindowRead, WindowOK
  <2>5. WindowIsGood'
    BY <1>11, <2>1 DEF WindowIsGood, Good
  <2> QED
    BY <1>3, <1>7, <1>11, <2>2, <2>3, <2>4, <2>5 DEF Contents
<1>12. CASE /\ k = window_max_seq(rcv) /\ Answer(h, buildAckNak(r)) /\ WriteOut(h, r)
            /\ rcv' = clearWindow(r)
  <2>1. /\ WindowOK(r, FileLen[h]) /\ Good(r)
        /\ snd[h].phase = "DATA" => WindowOK(r, snd[h].max_value)
        /\ r.state = "RECV_DATA" /\ r.conn = h /\ r.window_min_seq = rcv.window_min_seq
    <3>1. k \in rcv.window_min_seq .. window_max_seq(rcv)
      BY <1>4, <1>6, <1>12, WindowAssumption DEF window_max_seq
    <3> QED
      BY <1>9, <3>1
  <2>2. Moved(r, rcv')
    BY <1>4, <1>12, <2>1, Cleared
  <2>3. /\ rcv'.conn = h /\ rcv'.state = "RECV_DATA"
        /\ \A i \in Slots : rcv'.window_buffer[i].received =>
                              rcv'.window_buffer[i] = r.window_buffer[i]
    BY <2>1, <2>2 DEF Moved
  <2>4. Grown(h, r)
    BY <1>1, <1>12, <2>1, WrittenOut
  <2>5. Served(h)' /\ WindowIsGood'
    BY <2>1, <2>3 DEF Served, WindowIsGood, Good
  <2>6. \E a \in {FINACK, buildAckNak(r)} : Answer(h, a)
    BY <1>12
  <2> QED
    BY <1>1, <1>3, <1>7, <2>1, <2>3, <2>4, <2>5, <2>6, GrownContents
<1> QED
  BY <1>2, <1>5, <1>10, <1>11, <1>12 DEF ReceiveDATA

LEMMA ReceiverTimeoutContents ==
    ASSUME TypeInv, NEW h \in Hosts, rcv.conn = h, Order(h), Contents(h), WindowIsGood,
           ReceiverTimeout
    PROVE  Contents(h)' /\ WindowIsGood'
<1>1. snd' = snd /\ toRcv' = toRcv /\ Served(h)
  BY DEF ReceiverTimeout, Served
<1>2. PartOf(toRcv'[h], toRcv[h]) /\ snd[h].phase # "EXIT"
  BY <1>1, WholePackets DEF Order
<1>6. WindowOK(rcv, FileLen[h]) /\ Good(rcv) /\ FileLen[h] \in Nat
  BY Connected, LengthOfFile DEF WindowIsGood, Good
<1>7. snd[h].phase = "DATA" => WindowOK(rcv, snd[h].max_value)
  BY <1>1, WindowOfHost
<1>8. CASE closeConnection /\ UNCHANGED toSnd
  <2>1. /\ Grown(h, rcv) /\ rcv'.conn = NoHost /\ rcv'.state = "IDLE"
        /\ ConnectionTypes'
    BY <1>8, Closed
  <2>2. ~ Served(h)' /\ WindowIsGood'
    BY <2>1, HostsAssumption DEF Served, WindowIsGood, ConnectionTypes, Fresh
  <2> QED
    BY <1>1, <1>2, <1>6, <1>7, <1>8, <2>1, <2>2, GrownContents
<1>9. CASE /\ Answer(h, buildAckNak(rcv)) /\ WriteOut(h, rcv)
           /\ rcv' = [clearWindow(rcv) EXCEPT !.state = "WAIT_RESPONSE"]
  <2>1. PICK u \in Receivers : u = clearWindow(rcv) /\ Moved(rcv, u)
    BY <1>6, Cleared DEF Moved
  <2>2. rcv' = [u EXCEPT !.state = "WAIT_RESPONSE"]
    BY <1>9, <2>1
  <2>3. /\ rcv'.conn = u.conn /\ rcv'.window_buffer = u.window_buffer
        /\ rcv'.window_min_seq = u.window_min_seq
    BY <2>1, <2>2 DEF Receivers
  <2>4. /\ \A i \in Slots : rcv'.window_buffer[i].received =>
                              rcv'.window_buffer[i] = rcv.window_buffer[i]
        /\ rcv'.conn = h /\ ~ has(rcv', rcv'.window_min_seq)
    BY <2>1, <2>3 DEF Moved, has
  <2>5. Grown(h, rcv)
    BY <1>6, <1>9, WrittenOut
  <2>6. WindowIsGood'
    BY <1>6, <2>4 DEF WindowIsGood, Good
  <2>7. \E a \in {FINACK, buildAckNak(rcv)} : Answer(h, a)
    BY <1>9
  <2> QED
    BY <1>1, <1>2, <1>6, <1>7, <2>4, <2>5, <2>6, <2>7, GrownContents
<1>10. CASE /\ rcv.state = "WAIT_RESPONSE" /\ Answer(h, buildAckNak(rcv))
            /\ rcv' = [rcv EXCEPT !.retryCounter = retried] /\ UNCHANGED files
  <2>1. ~ has(rcv, rcv.window_min_seq)
    BY <1>10 DEF WindowIsGood
  <2>c. PICK c : c = consecutive(rcv)
    OBVIOUS
  <2>2. PICK mn \in Nat : mn = rcv.window_min_seq /\ c = consecutive(rcv)
    BY <2>c, Connected
  <2>3. c = 0
    <3>1. c \in 0 .. WINDOW_SIZE /\ \A k \in mn .. mn + c - 1 : has(rcv, k)
      BY <1>6, <2>2, Consecutive
    <3>2. c # 0 => mn \in mn .. mn + c - 1
      BY <2>2, <3>1, WindowAssumption
    <3> QED
      BY <2>1, <2>2, <3>1, <3>2
  <2>4. Grown(h, rcv)
    <3>1. /\ files[h] \in Seq(Data) /\ Len(files[h]) <= FileLen[h] /\ files'[h] = files[h]
          /\ Len(files[h]) = rcv.window_min_seq
      BY <1>10, Connected DEF TypeInv, HostTypes
    <3>2. ~ \E k \in Len(files[h]) + 1 .. Len(files'[h]) : TRUE
      BY <2>2, <3>1
    <3>3. Len(files'[h]) = rcv.window_min_seq + consecutive(rcv)
      BY <2>2, <2>3, <3>1
    <3> QED
      BY <3>1, <3>2, <3>3 DEF Grown
  <2>5. PICK u \in Receivers : u = rcv
    BY Connected
  <2>6. rcv'.conn = u.conn /\ rcv'.window_buffer = u.window_buffer
        /\ rcv'.window_min_seq = u.window_min_seq
    BY <1>10, <2>5 DEF Receivers
  <2>7. WindowIsGood'
    BY <1>6, <2>1, <2>5, <2>6 DEF WindowIsGood, Good, has
  <2>8. \E a \in {FINACK, buildAckNak(rcv)} : Answer(h, a)
    BY <1>10
  <2> QED
    BY <1>1, <1>2, <1>6, <1>7, <2>4, <2>5, <2>6, <2>7, <2>8, GrownContents
<1> QED
  BY <1>8, <1>9, <1>10 DEF ReceiverTimeout

-----------------------------------------------------------------------------
LEMMA ContentsInit ==
    ASSUME Init
    PROVE  WindowIsGood /\ \A h \in Hosts : Contents(h)
<1>1. /\ rcv = idle /\ files = [h \in Hosts |-> <<>>] /\ snd = [h \in Hosts |-> sender]
      /\ toRcv = [h \in Hosts |-> <<SYN>>]
  BY DEF Init
<1>2. WindowIsGood
  BY <1>1, IdleOK DEF WindowIsGood, idle
<1>3. ASSUME NEW h \in Hosts
      PROVE  Contents(h)
  <2>1. /\ files[h] = <<>> /\ snd[h].phase = "SYN" /\ toRcv[h] = <<SYN>>
    BY <1>1, FreshSender
  <2>2. Len(files[h]) = 0 /\ Len(toRcv[h]) = 1 /\ toRcv[h][1].type = "SYN"
    BY <2>1 DEF SYN
  <2>3. ~ \E i \in 1 .. Len(files[h]) : TRUE
    BY <2>2
  <2>4. \A i \in 1 .. Len(toRcv[h]) : toRcv[h][i].type = "SYN"
    BY <2>2
  <2> QED
    BY <2>1, <2>3, <2>4 DEF Contents, DataIsGood, FileIsGood
<1> QED
  BY <1>2, <1>3

LEMMA OthersContents ==
    ASSUME TypeInv, NEW h \in Hosts, Changed(h), NEW g \in Hosts, g # h, Contents(g)
    PROVE  Contents(g)'
<1>1. /\ files'[g] = files[g] /\ snd'[g] = snd[g]
      /\ toRcv'[g] = toRcv[g] /\ toSnd'[g] = toSnd[g]
  BY Frame DEF TypeInv
<1>2. DataIsGood(g)' /\ FileIsGood(g)'
  BY <1>1 DEF Contents, DataIsGood, FileIsGood
<1>3. ASSUME NEW max, WindowRead(g, max)
      PROVE  WindowRead(g, max)'
  <2>1. CASE rcv' = rcv
    BY <1>3, <2>1 DEF WindowRead, Served
  <2>2. CASE rcv'.conn \in {h, NoHost}
    BY <2>2, HostsAssumption DEF WindowRead, Served
  <2> QED
    BY <2>1, <2>2 DEF Changed
<1>4. snd[g].phase = "DATA" => WindowRead(g, snd[g].max_value)'
  <2>1. PICK max : max = snd[g].max_value
    OBVIOUS
  <2>2. snd[g].phase = "DATA" => WindowRead(g, max)'
    BY <1>3, <2>1 DEF Contents
  <2> QED
    BY <1>1, <2>1, <2>2 DEF WindowRead
<1> QED
  BY <1>1, <1>2, <1>4 DEF Contents, Tracks, Reading, ToldOf, First

LEMMA StepContents ==
    ASSUME TypeInv, NEW h \in Hosts, StepOf(h), ~ Kill(h), Order(h), Contents(h), WindowIsGood
    PROVE  Contents(h)' /\ WindowIsGood'
<1>1. CASE ReceiverStep(h)
  <2>1. CASE ReceiveFIN(h)
    BY <2>1, ReceiveFINContents
  <2>2. CASE ReceiveSYN(h)
    BY <2>2, ReceiveSYNContents
  <2>3. CASE ReceiveDATA(h)
    BY <2>3, ReceiveDATAContents
  <2>4. CASE ReceiveStrayDATA(h)
    <3>1. Arrives(h, "DATA") /\ Answer(h, FINACK) /\ UNCHANGED <<rcv, files>>
      BY <2>4 DEF ReceiveStrayDATA
    <3>2. Contents(h)'
      BY <3>1, RefusedContents
    <3> QED
      BY <3>1, <3>2 DEF WindowIsGood
  <2>5. CASE IgnorePacket(h)
    <3>1. PICK type : Arrives(h, type) /\ UNCHANGED <<rcv, files, toSnd>>
      BY <2>5 DEF IgnorePacket
    <3>2. Contents(h)'
      BY <3>1, IgnoredContents
    <3> QED
      BY <3>1, <3>2 DEF WindowIsGood
  <2> QED
    BY <1>1, <2>1, <2>2, <2>3, <2>4, <2>5 DEF ReceiverStep
<1>2. ~ RunAgain(h)
  BY DEF Order, RunAgain
<1>3. ASSUME SenderStep(h) \/ SenderTimeout(h) \/ Lose(h)
      PROVE  Contents(h)'
  BY <1>3, ReceiveGOContents, PingAgainContents, ReceiveACKContents, ReceiveLateGOContents,
     ReceiveFINACKContents, DropAtGoneContents, FinTimeoutContents,
     DataTimeoutContents, LoseContents DEF SenderStep, SenderTimeout
<1>4. ASSUME SenderStep(h) \/ SenderTimeout(h) \/ Lose(h)
      PROVE  rcv' = rcv
  BY <1>4 DEF SenderStep, SenderTimeout, Lose, ReceiveGO, PingAgain, ReceiveACK,
     ReceiveLateGO, ReceiveFINACK, DropAtGone, SndReceives, SynTimeout, FinTimeout, DataTimeout
<1>5. CASE rcv.conn = h /\ ReceiverTimeout
  BY <1>5, ReceiverTimeoutContents
<1>6. rcv' = rcv => WindowIsGood'
  BY DEF WindowIsGood
<1> QED
  BY <1>1, <1>2, <1>3, <1>4, <1>5, <1>6 DEF StepOf

NoneKilledInv ==
    kills = 0 => NeverGivesUp /\ WindowIsGood /\ \A h \in Hosts : Order(h) /\ Contents(h)

LEMMA NoneKilledNext == TypeInv /\ NoneKilledInv /\ [Next]_vars => NoneKilledInv'
<1> SUFFICES ASSUME TypeInv, NoneKilledInv, [Next]_vars, kills' = 0
             PROVE  /\ NeverGivesUp' /\ WindowIsGood'
                    /\ \A g \in Hosts : Order(g)' /\ Contents(g)'
  BY DEF NoneKilledInv
<1>1. CASE UNCHANGED vars
  <2>1. NeverGivesUp /\ WindowIsGood /\ \A g \in Hosts : Order(g) /\ Contents(g)
    BY <1>1 DEF vars, NoneKilledInv
  <2>2. NeverGivesUp' /\ WindowIsGood'
    BY <1>1, <2>1 DEF vars, NeverGivesUp, WindowIsGood
  <2>3. \A g \in Hosts : Order(g)'
    BY <1>1, <2>1 DEF vars, Order, Asks, Talks, Begun, Served
  <2>4. \A g \in Hosts : Contents(g)'
    BY <1>1, <2>1 DEF vars, Contents, DataIsGood, FileIsGood, WindowRead, Served, Tracks,
       Reading, ToldOf, First
  <2> QED
    BY <2>2, <2>3, <2>4
<1>2. CASE Next
  <2>1. PICK h \in Hosts : StepOf(h)
    BY <1>2, EveryStep
  <2>2. kills = 0 /\ ~ Kill(h)
    BY <2>1, KillsCount
  <2>3. NeverGivesUp /\ WindowIsGood /\ \A g \in Hosts : Order(g) /\ Contents(g)
    BY <2>2 DEF NoneKilledInv
  <2>4. Order(h)' /\ NeverGivesUp'
    BY <2>1, <2>2, <2>3, StepOrder
  <2>5. Contents(h)' /\ WindowIsGood'
    BY <2>1, <2>2, <2>3, StepContents
  <2>6. Changed(h)
    BY <2>1, StepTypes DEF TypesAfter
  <2>7. \A g \in Hosts : g # h => Order(g)'
    BY <2>3, <2>6, OthersOrder
  <2>8. \A g \in Hosts : g # h => Contents(g)'
    BY <2>3, <2>6, OthersContents
  <2> QED
    BY <2>4, <2>5, <2>7, <2>8
<1> QED
  BY <1>1, <1>2

(* As long as no ncp is killed, whatever is lost and however early timers  *)
(* fire.                                                                   *)
THEOREM NoneKilledAlways == Spec => []NoneKilledInv
<1>1. Init => NoneKilledInv
  BY OrderInit, ContentsInit DEF NoneKilledInv
<1> QED
  BY <1>1, TypesAlways, NoneKilledNext, PTL DEF Spec

-----------------------------------------------------------------------------
(* What both cases say of a host: its file is what it sent so far, and one *)
(* that has exited is not served again, and if no GO misled it, its file   *)
(* is complete.                                                            *)
Kept(h) ==
    /\ FileIsGood(h)
    /\ snd[h].phase = "DATA" /\ ~ snd[h].misled =>
         /\ snd[h].start_seq <= Len(files[h])
         /\ snd[h].sent_fin => Len(files[h]) = snd[h].max_value
    /\ snd[h].phase = "EXIT" =>
         /\ ~ Served(h) /\ ~ Holds(toRcv[h], "SYN")
         /\ ~ snd[h].misled => Len(files[h]) = FileLen[h]

LEMMA KeptInTime ==
    ASSUME TransferInv, early = 0, NEW h \in Hosts
    PROVE  Kept(h)
<1>1. Session(h)
  BY DEF TransferInv
<1>2. snd[h].phase = "EXIT" => ~ Holds(toRcv[h], "SYN")
  BY <1>1 DEF Session, SynsAreLate, Holds
<1>3. snd[h].phase = "DATA" =>
        /\ snd[h].start_seq <= Len(files[h])
        /\ snd[h].sent_fin => Len(files[h]) = snd[h].max_value
  BY <1>1 DEF Session, Knows
<1> QED
  BY <1>1, <1>2, <1>3 DEF Session, Kept

LEMMA KeptUnkilled ==
    ASSUME NoneKilledInv, kills = 0, NEW h \in Hosts
    PROVE  Kept(h)
<1>1. Order(h) /\ Contents(h)
  BY DEF NoneKilledInv
<1>2. snd[h].phase = "DATA" => Tracks(h, snd[h], Len(files[h]))
  BY <1>1 DEF Contents
<1>3. snd[h].phase = "DATA" /\ ~ snd[h].misled =>
        /\ snd[h].start_seq <= Len(files[h])
        /\ snd[h].sent_fin => Len(files[h]) = snd[h].max_value
  BY <1>2 DEF Tracks
<1> QED
  BY <1>1, <1>3 DEF Order, Contents, Kept

LEMMA KeptImplies ==
    ASSUME TypeInv, TransferInv, NoneKilledInv, early = 0 \/ kills = 0
    PROVE  FileIsPrefix /\ GivenUpIsHeld
<1>1. \A h \in Hosts : Kept(h)
  BY KeptInTime, KeptUnkilled
<1> QED
  BY <1>1, Implied DEF Kept

(* Every file the receiver has is a prefix of what its host sends: however *)
(* early timers fire, as long as no ncp is killed, and whoever is killed,  *)
(* as long as no timer fires before an answer on its way.                  *)
THEOREM FilesArePrefixes == Spec => [](early = 0 \/ kills = 0 => FileIsPrefix)
<1>1. TypeInv /\ TransferInv /\ NoneKilledInv => (early = 0 \/ kills = 0 => FileIsPrefix)
  BY KeptImplies
<1> QED
  BY <1>1, TypesAlways, TransferAlways, NoneKilledAlways, PTL

(* ncp gives up no packet that the receiver does not hold, unless a GO     *)
(* came late, in the same two cases.                                       *)
THEOREM GivenUpAlwaysHeld == Spec => [](early = 0 \/ kills = 0 => GivenUpIsHeld)
<1>1. TypeInv /\ TransferInv /\ NoneKilledInv => (early = 0 \/ kills = 0 => GivenUpIsHeld)
  BY KeptImplies
<1> QED
  BY <1>1, TypesAlways, TransferAlways, NoneKilledAlways, PTL

-----------------------------------------------------------------------------
(* The two programs implement the promise of a reliable copy.              *)

(* A step leaves the files and the connection alone, begins a connection,  *)
(* or goes on with the one there is.                                       *)
SenderSide(h) ==
    /\ rcv' = rcv /\ files' = files
    /\ snd' = snd \/ snd[h].phase # "EXIT"

Serves(h) ==
    /\ Served(h) /\ snd' = snd
    /\ Len(files[h]) \in Nat /\ Len(files'[h]) \in Nat /\ Len(files[h]) <= Len(files'[h])

LEMMA GrownLonger ==
    ASSUME TypeInv, NEW h \in Hosts, rcv.conn = h, NEW r, WindowOK(r, FileLen[h]), Grown(h, r)
    PROVE  Len(files[h]) \in Nat /\ Len(files'[h]) \in Nat /\ Len(files[h]) <= Len(files'[h])
<1>c. PICK c : c = consecutive(r)
  OBVIOUS
<1>1. PICK mn \in Nat : mn = rcv.window_min_seq /\ c = consecutive(r)
  BY <1>c, Connected
<1>2. c \in Nat
  <2>1. FileLen[h] \in Nat
    BY LengthOfFile
  <2>2. c \in 0 .. WINDOW_SIZE
    BY <1>1, <2>1, Consecutive
  <2> QED
    BY <2>2
<1> QED
  BY <1>1, <1>2 DEF Grown

LEMMA Kinds ==
    ASSUME TypeInv, NEW h \in Hosts, StepOf(h)
    PROVE  SenderSide(h) \/ ReceiveSYN(h) \/ Serves(h)
<1>1. CASE ReceiveFIN(h)
  <2>1. snd' = snd
    BY <1>1 DEF ReceiveFIN, Arrives
  <2>2. CASE rcv.conn = h /\ closeConnection
    <3>1. Grown(h, rcv) /\ WindowOK(rcv, FileLen[h])
      BY <2>2, Closed, Connected
    <3> QED
      BY <2>1, <2>2, <3>1, GrownLonger DEF Serves, Served
  <2> QED
    BY <1>1, <2>1, <2>2 DEF ReceiveFIN, SenderSide
<1>2. CASE ReceiveDATA(h)
  <2>1. Arrives(h, "DATA") /\ rcv.conn = h /\ snd' = snd
    BY <1>2 DEF ReceiveDATA, Arrives
  <2>2. Len(files[h]) \in Nat
    BY SessionTypes
  <2>3. CASE UNCHANGED files
    BY <2>1, <2>2, <2>3 DEF Serves, Served
  <2>4. CASE ~ UNCHANGED files
    <3>1. PICK m, k, d, r : /\ m = Head(toRcv[h]) /\ k = m.seq_num /\ d = m.data
                            /\ r = stored(k, d)
      OBVIOUS
    <3>2. k = window_max_seq(rcv) /\ WriteOut(h, r)
      BY <1>2, <2>4, <3>1 DEF ReceiveDATA
    <3>3. m \in PacketsOf(h) /\ m.type = "DATA"
      BY <2>1, <3>1, Taken
    <3>4. k \in Nat /\ k < FileLen[h] /\ d \in Data /\ FileLen[h] \in Nat
      BY <3>1, <3>3, DataPacket, LengthOfFile
    <3>5. WindowOK(rcv, FileLen[h]) /\ k \in rcv.window_min_seq .. window_max_seq(rcv)
      BY <2>1, <3>2, <3>4, Connected, WindowAssumption DEF window_max_seq
    <3>6. WindowOK(r, FileLen[h]) /\ r.window_min_seq = rcv.window_min_seq
      BY <3>1, <3>4, <3>5, Stored
    <3>7. Grown(h, r)
      BY <2>1, <3>2, <3>6, WrittenOut
    <3> QED
      BY <2>1, <3>6, <3>7, GrownLonger DEF Serves, Served
  <2> QED
    BY <2>3, <2>4
<1>3. CASE ReceiveStrayDATA(h) \/ IgnorePacket(h)
  BY <1>3 DEF ReceiveStrayDATA, IgnorePacket, Arrives, SenderSide
<1>4. CASE SenderStep(h) \/ SenderTimeout(h) \/ Lose(h) \/ Kill(h) \/ RunAgain(h)
  BY <1>4 DEF SenderStep, SenderTimeout, Lose, Kill, RunAgain, ReceiveGO, PingAgain, ReceiveACK,
     ReceiveLateGO, ReceiveFINACK, DropAtGone, SndReceives, SynTimeout, FinTimeout, DataTimeout,
     SenderSide
<1>5. CASE rcv.conn = h /\ ReceiverTimeout
  <2>1. snd' = snd /\ WindowOK(rcv, FileLen[h]) /\ Len(files[h]) \in Nat
    BY <1>5, Connected, SessionTypes DEF ReceiverTimeout
  <2>2. CASE UNCHANGED files
    BY <1>5, <2>1, <2>2 DEF Serves, Served
  <2>3. CASE WriteOut(h, rcv)
    <3>1. Grown(h, rcv)
      BY <1>5, <2>1, <2>3, WrittenOut
    <3> QED
      BY <1>5, <2>1, <3>1, GrownLonger DEF Serves, Served
  <2> QED
    BY <1>5, <2>2, <2>3 DEF ReceiverTimeout, closeConnection
<1> QED
  BY <1>1, <1>2, <1>3, <1>4, <1>5 DEF StepOf, ReceiverStep

LEMMA FirstOfFile ==
    ASSUME TypeInv, NEW h \in Hosts, FileIsGood(h)
    PROVE  files[h] = Promise!FirstOf(Len(files[h]))
<1>1. files[h] \in Seq(Data)
  BY DEF TypeInv, HostTypes
<1>2. files[h] = [k \in 1 .. Len(files[h]) |-> files[h][k]]
  BY <1>1
<1> QED
  BY <1>2 DEF FileIsGood, Promise!FirstOf

Done == {h \in Hosts : snd[h].phase = "EXIT" /\ ~ snd[h].misled}

LEMMA PromiseStep ==
    ASSUME TypeInv, TypeInv', [Next]_vars,
           \A h \in Hosts : Kept(h), \A h \in Hosts : Kept(h)'
    PROVE  [Promise!Next]_(Promise!vars)
<1>1. /\ {h \in Hosts : snd[h].phase = "EXIT" /\ ~ snd[h].misled} = Done
      /\ {h \in Hosts : snd'[h].phase = "EXIT" /\ ~ snd'[h].misled} = Done'
  BY DEF Done
<1>2. CASE UNCHANGED vars
  BY <1>1, <1>2 DEF vars, Promise!vars, Done
<1>3. CASE Next
  <2>1. PICK h \in Hosts : StepOf(h)
    BY <1>3, EveryStep
  <2>2. Kept(h) /\ Kept(h)'
    OBVIOUS
  <2>3. Changed(h) /\ HostTypes(h)'
    BY <2>1, StepTypes DEF TypesAfter
  <2>4. /\ snd = [g \in Hosts |-> snd[g]] /\ files = [g \in Hosts |-> files[g]]
        /\ \A g \in Hosts : g # h => snd'[g] = snd[g] /\ files'[g] = files[g]
    BY <2>3, Frame DEF TypeInv, Functions
  <2>5. files'[h] = Promise!FirstOf(Len(files'[h])) /\ files[h] = Promise!FirstOf(Len(files[h]))
    <3>1. files[h] = Promise!FirstOf(Len(files[h]))
      BY <2>2, FirstOfFile DEF Kept
    <3>2. files'[h] \in Seq(Data) /\ \A k \in 1 .. Len(files'[h]) : files'[h][k] = k - 1
      BY <2>2, <2>3 DEF HostTypes, Kept, FileIsGood
    <3>3. files'[h] = [k \in 1 .. Len(files'[h]) |-> files'[h][k]]
      BY <3>2
    <3> QED
      BY <3>1, <3>2, <3>3 DEF Promise!FirstOf
  <2>6. files' = [files EXCEPT ![h] = files'[h]]
    <3>1. files' = [g \in Hosts |-> files'[g]]
      BY DEF TypeInv, Functions
    <3> QED
      BY <2>4, <3>1
  <2>7. CASE SenderSide(h)
    <3>1. CASE snd' = snd
      BY <1>1, <2>7, <3>1 DEF SenderSide, Done, Promise!vars
    <3>2. CASE snd[h].phase # "EXIT" /\ ~ (snd'[h].phase = "EXIT" /\ ~ snd'[h].misled)
      <4>1. Done' = Done
        BY <2>4, <3>2 DEF Done
      <4> QED
        BY <1>1, <2>7, <4>1 DEF SenderSide, Promise!vars
    <3>3. CASE snd[h].phase # "EXIT" /\ snd'[h].phase = "EXIT" /\ ~ snd'[h].misled
      <4>1. Done' = Done \cup {h}
        BY <2>4, <3>3 DEF Done
      <4>2. /\ rcv' = rcv /\ files' = files
            /\ Len(files[h]) = FileLen[h] /\ rcv.conn # h
        BY <2>2, <2>7, <3>3 DEF SenderSide, Kept, Served
      <4>3. Promise!Finish(h)
        BY <1>1, <2>5, <4>1, <4>2 DEF Promise!Finish
      <4> QED
        BY <4>3 DEF Promise!Next
    <3> QED
      BY <2>7, <3>1, <3>2, <3>3 DEF SenderSide
  <2>8. CASE ReceiveSYN(h)
    <3>1. rcv.conn = NoHost /\ rcv'.conn = h /\ files'[h] = <<>>
      BY <2>8, ReceiveSYNTypes
    <3>2. snd' = snd
      BY <2>8 DEF ReceiveSYN, Arrives
    <3>3. Done' = Done
      BY <3>2 DEF Done
    <3>4. h \notin Done
      <4>1. 1 \in 1 .. Len(toRcv[h]) /\ toRcv[h][1].type = "SYN"
        BY <2>8, Taken DEF ReceiveSYN
      <4>2. Holds(toRcv[h], "SYN")
        BY <4>1 DEF Holds
      <4> QED
        BY <2>2, <4>2 DEF Kept, Done
    <3>5. Promise!Begin(h)
      BY <1>1, <2>6, <3>1, <3>3, <3>4 DEF Promise!Begin
    <3> QED
      BY <3>5 DEF Promise!Next
  <2>9. CASE Serves(h)
    <3>1. Done' = Done
      BY <2>9 DEF Serves, Done
    <3>2. h \notin Done
      BY <2>2, <2>9 DEF Serves, Kept, Done
    <3>3. rcv.conn = h /\ rcv'.conn \in {h, NoHost}
      BY <2>3, <2>9 DEF Serves, Served, Changed
    <3>4. PICK n : n = Len(files'[h])
      OBVIOUS
    <3>5. n \in Len(files[h]) .. FileLen[h]
      BY <2>3, <2>9, <3>4, LengthOfFile DEF Serves, HostTypes
    <3>6. files' = [files EXCEPT ![h] = Promise!FirstOf(n)]
      BY <2>5, <2>6, <3>4
    <3>7. Promise!Write(h)
      BY <1>1, <3>1, <3>2, <3>3, <3>5, <3>6 DEF Promise!Write
    <3> QED
      BY <3>7 DEF Promise!Next
  <2> QED
    BY <2>1, <2>7, <2>8, <2>9, Kinds
<1> QED
  BY <1>2, <1>3

LEMMA PromiseInit == Init => Promise!Init
<1> SUFFICES ASSUME Init
             PROVE  Promise!Init
  OBVIOUS
<1>1. \A h \in Hosts : snd[h].phase # "EXIT"
  BY FreshSender DEF Init
<1> QED
  BY <1>1 DEF Init, Promise!Init, idle

(* In a behaviour where no ncp is killed, and in one where every timer     *)
(* that fires finds nothing on the way, ncp and rcv implement the reliable *)
(* copy, whatever is lost: a host that no GO misled exits only with its    *)
(* file complete, and it stays so.                                         *)
THEOREM CopiesReliably == Spec /\ ([](early = 0) \/ [](kills = 0)) => ImplementsReliableCopy
<1> DEFINE InTime == early = 0
           Unkilled == kills = 0
           AllKept == \A h \in Hosts : Kept(h)
<1>1. TransferInv /\ InTime => AllKept
  BY KeptInTime
<1>2. NoneKilledInv /\ Unkilled => AllKept
  BY KeptUnkilled
<1>3. /\ TypeInv /\ AllKept /\ [Next]_vars /\ TypeInv' /\ AllKept'
      => [Promise!Next]_(Promise!vars)
  BY PromiseStep
<1>4. Spec /\ ([]InTime \/ []Unkilled) => Promise!Init /\ [][Promise!Next]_(Promise!vars)
  <2> HIDE DEF InTime, Unkilled, AllKept
  <2> QED
    BY <1>1, <1>2, <1>3, TypesAlways, TransferAlways, NoneKilledAlways, PromiseInit, PTL DEF Spec
<1> QED
  BY <1>4 DEF ImplementsReliableCopy, Promise!Spec
=============================================================================
