-------------------------- MODULE TokenRingProofs --------------------------
(***************************************************************************)
(* Proofs about TokenRing, for any ring, numbers of packets, windows,      *)
(* limits and losses: its types, that at most one machine can take a       *)
(* token, and that all machines write one order of the packets.            *)
(*                                                                         *)
(* The invariant: a packet lies at its number in the order, wherever it is *)
(* (on the way, in a window, in a file); a slot in use holds a number of   *)
(* the window; what a machine acknowledged it holds or has written; and    *)
(* whoever can take a token takes it from the one last holder, whose token *)
(* has the number of the last packet.                                      *)
(***************************************************************************)
EXTENDS TokenRing, FiniteSetTheorems, SequenceTheorems, WellFoundedInduction, TLAPS

USE RingAssumption, PacketsAssumption, SizesAssumption

(* m lies at its number in the order os.                                   *)
Placed(m, os) ==
    /\ m \in Packets
    /\ m.seq_num < Len(os)
    /\ os[m.seq_num + 1] = m

Numbered(os) == \A k \in 1 .. Len(os) : os[k].seq_num = k - 1

(* The file of s is the start of the order, and what its slots hold are    *)
(* packets of the window, each in the slot of its number.                  *)
WindowOK(s, os) ==
    /\ s.window_start <= Len(os)
    /\ s.file = SubSeq(os, 1, s.window_start)
    /\ \A i \in Slots : s.packets[i] # NoPacket =>
         /\ Placed(s.packets[i], os)
         /\ s.packets[i].seq_num \in s.window_start .. window_end(s)
         /\ s.packets[i].seq_num % WINDOW_SIZE = i

(* What s acknowledged in its last token it has.                           *)
AckOK(s) ==
    /\ s.previous_ack <= window_end(s)
    /\ \A i \in s.window_start .. s.previous_ack : received(s, i)

-----------------------------------------------------------------------------
(* Arithmetic.                                                             *)

LEMMA DivMod ==
    ASSUME NEW a \in Int, NEW n \in Nat \ {0}
    PROVE  /\ a % n \in 0 .. n - 1
           /\ a \div n \in Int
           /\ a = n * (a \div n) + (a % n)
OBVIOUS

LEMMA ModOfSum ==
    ASSUME NEW n \in Nat \ {0}, NEW q \in Int, NEW r \in 0 .. n - 1
    PROVE  (n * q + r) % n = r
OBVIOUS

LEMMA SmallMultiple ==
    ASSUME NEW n \in Nat \ {0}, NEW q \in Int, n * q < n
    PROVE  q <= 0
OBVIOUS

(* Two numbers less than a window apart lie in different slots.            *)
LEMMA ModInjective ==
    ASSUME NEW n \in Nat \ {0}, NEW a \in Int, NEW b \in Int,
           a <= b, b < a + n, a % n = b % n
    PROVE  a = b
<1>1. PICK q \in Int : a = n * q + (a % n)
  BY DivMod
<1>2. PICK k \in Int : b = n * k + (b % n)
  BY DivMod
<1>3. a % n \in Int /\ b % n \in Int
  BY DivMod
<1>4. b - a = n * (k - q)
  BY <1>1, <1>2, <1>3
<1>5. k - q \in Int
  OBVIOUS
<1>6. PICK d \in Int : d = k - q
  BY <1>5
<1>7. b - a = n * d
  BY <1>4, <1>6
<1>8. d <= 0
  BY <1>7, SmallMultiple
<1>9. n * d <= 0
  BY <1>8
<1> QED
  BY <1>7, <1>9

(* craftPackets always finds the next end of its window.                   *)
LEMMA MultipleAhead ==
    ASSUME NEW n \in Nat \ {0}, NEW c \in Int, NEW d \in Int
    PROVE  \E b \in c + 1 .. c + n : (b - d) % n = 0
<1>0. PICK a \in Int : a = c - d
  OBVIOUS
<1>a. /\ a % n \in 0 .. n - 1
      /\ a \div n \in Int
      /\ a = n * (a \div n) + (a % n)
  BY DivMod
<1>1. PICK q \in Int, r \in 0 .. n - 1 : c - d = n * q + r
  BY <1>0, <1>a
<1>2. PICK b \in Int : b = c + n - r
  OBVIOUS
<1>3. b \in c + 1 .. c + n
  BY <1>2
<1>4. b - d = n * (q + 1) + 0
  BY <1>1, <1>2
<1>5. (n * (q + 1) + 0) % n = 0
  BY ModOfSum
<1>6. (b - d) % n = 0
  BY <1>4, <1>5
<1> QED
  BY <1>3, <1>6

LEMMA QuotientNat ==
    ASSUME NEW n \in Nat \ {0}, NEW a \in Nat
    PROVE  n * (a \div n) \in Nat
<1>1. a \div n \in Nat
  OBVIOUS
<1> QED
  BY <1>1

LEMMA Least ==
    ASSUME NEW T \in SUBSET Nat, T # {}
    PROVE  \E x \in T : \A y \in T : x <= y
<1>1. PICK x \in T : \A y \in T : ~ (<<y, x>> \in OpToRel(<, Nat))
  BY NatLessThanWellFounded, WFMin
<1>2. \A y \in T : ~ (y < x)
  BY <1>1 DEF OpToRel
<1> QED
  BY <1>2

LEMMA SlotOf ==
    ASSUME NEW i \in Int
    PROVE  i % WINDOW_SIZE \in Slots
BY DEF Slots



-----------------------------------------------------------------------------
(* The operators on the state of a machine.                                *)

LEMMA CraftPacketsType ==
    ASSUME NEW p \in Machines, NEW s \in LocalStates, NEW u, u = craftPackets(p, s)
    PROVE  /\ u \in LocalStates
           /\ u.state = s.state /\ u.window_start = s.window_start /\ u.packets = s.packets
           /\ u.previous_ack = s.previous_ack /\ u.file = s.file
           /\ u.previous_token = s.previous_token /\ u.num_sent = s.num_sent
           /\ s.num_built <= NumPackets[p] =>
                s.num_built <= u.num_built /\ u.num_built <= NumPackets[p]
<1>0. NumPackets[p] \in Nat /\ s.num_built \in Nat /\ s.num_sent \in Nat
  BY DEF LocalStates
<1>1. CASE s.num_built = NumPackets[p]
  <2>1. u = s
    BY <1>1 DEF craftPackets
  <2>2. \A n \in Nat : n <= n
    OBVIOUS
  <2> QED
    BY <1>0, <1>1, <2>1, <2>2
<1>2. CASE s.num_built # NumPackets[p]
  <2> DEFINE full == CHOOSE b \in s.num_built + 1 .. s.num_built + SEND_WINDOW_SIZE :
                       (b - s.num_sent) % SEND_WINDOW_SIZE = 0
  <2>0. \E b \in s.num_built + 1 .. s.num_built + SEND_WINDOW_SIZE :
           (b - s.num_sent) % SEND_WINDOW_SIZE = 0
    <3>1. PICK c \in Nat, d \in Nat : c = s.num_built /\ d = s.num_sent
      BY <1>0
    <3>2. \E b \in c + 1 .. c + SEND_WINDOW_SIZE : (b - d) % SEND_WINDOW_SIZE = 0
      <4>1. SEND_WINDOW_SIZE \in Nat \ {0} /\ c \in Int /\ d \in Int
        OBVIOUS
      <4> QED
        BY <4>1, MultipleAhead, Zenon
    <3> QED
      BY <3>1, <3>2
  <2>1. full \in s.num_built + 1 .. s.num_built + SEND_WINDOW_SIZE
    BY <2>0
  <2>2. PICK b \in Nat : b = (IF full < NumPackets[p] THEN full ELSE NumPackets[p])
    <3> HIDE DEF full
    <3> QED
      BY <2>1, <1>0
  <2>3. u = [s EXCEPT !.num_built = b]
    BY <1>2, <2>2 DEF craftPackets
  <2>4. s.num_built <= NumPackets[p] => s.num_built <= b /\ b <= NumPackets[p]
    <3> HIDE DEF full
    <3> QED
      BY <2>1, <2>2, <1>0
  <2> HIDE DEF full
  <2> QED
    BY <2>3, <2>4 DEF LocalStates
<1> QED
  BY <1>0, <1>1, <1>2

(* What processDataPacket and resendNaks put or find in a slot.            *)
LEMMA SlotHolds ==
    ASSUME NEW s \in LocalStates, NEW os \in Seq(Packets), WindowOK(s, os),
           NEW i \in s.window_start .. window_end(s), received(s, i)
    PROVE  /\ s.packets[i % WINDOW_SIZE] \in Packets
           /\ s.packets[i % WINDOW_SIZE].seq_num = i
           /\ i < Len(os)
           /\ os[i + 1] = s.packets[i % WINDOW_SIZE]
<1>0. s.window_start \in Nat /\ i \in Int /\ i % WINDOW_SIZE \in Slots
  BY SlotOf DEF LocalStates, window_end
<1>1. PICK m \in Packets : m = s.packets[i % WINDOW_SIZE]
  BY <1>0 DEF WindowOK, received, Placed
<1>2. /\ m.seq_num \in Nat
      /\ m.seq_num \in s.window_start .. window_end(s)
      /\ m.seq_num % WINDOW_SIZE = i % WINDOW_SIZE
      /\ m.seq_num < Len(os) /\ os[m.seq_num + 1] = m
  BY <1>0, <1>1 DEF WindowOK, received, Placed, Packets
<1>3. m.seq_num = i
  <2>0. PICK n \in Nat, j \in Nat : n = m.seq_num /\ j = i
    BY <1>0, <1>2
  <2>1. /\ n % WINDOW_SIZE = j % WINDOW_SIZE
        /\ n < j + WINDOW_SIZE /\ j < n + WINDOW_SIZE
    BY <2>0, <1>0, <1>2 DEF window_end
  <2>2. n \in Int /\ j \in Int /\ (n <= j \/ j <= n)
    OBVIOUS
  <2>3. n = j
    BY <2>1, <2>2, ModInjective, Zenon
  <2> QED
    BY <2>0, <2>3
<1> QED
  BY <1>1, <1>2, <1>3

LEMMA ConsecutiveAck ==
    ASSUME NEW s \in LocalStates
    PROVE  /\ getConsecutiveAck(s) \in s.window_start - 1 .. window_end(s) - 1
           /\ \A i \in s.window_start .. getConsecutiveAck(s) : received(s, i)
           /\ getConsecutiveAck(s) < window_end(s) - 1
                => ~ received(s, getConsecutiveAck(s) + 1)
<1>0. s.window_start \in Nat /\ window_end(s) \in Int /\ s.window_start <= window_end(s)
  BY DEF LocalStates, window_end
<1> DEFINE lacking == {i \in s.window_start .. window_end(s) - 1 : ~ received(s, i)}
           good(a) == /\ \A i \in s.window_start .. a : received(s, i)
                      /\ a = window_end(s) - 1 \/ ~received(s, a + 1)
<1>1. \E a \in s.window_start - 1 .. window_end(s) - 1 : good(a)
  <2>1. CASE lacking = {}
    <3>1. good(window_end(s) - 1)
      BY <2>1
    <3> QED
      BY <3>1, <1>0
  <2>2. CASE lacking # {}
    <3>1. lacking \in SUBSET Nat
      BY <1>0
    <3>2. PICK x \in lacking : \A y \in lacking : x <= y
      BY <2>2, <3>1, Least
    <3>3. x - 1 \in s.window_start - 1 .. window_end(s) - 1
      BY <3>2, <1>0
    <3>4. \A i \in s.window_start .. x - 1 : received(s, i)
      BY <3>2, <1>0
    <3>5. ~ received(s, (x - 1) + 1)
      <4>1. x = (x - 1) + 1
        BY <3>1
      <4> QED
        BY <4>1
    <3> QED
      BY <3>3, <3>4, <3>5
  <2> QED
    BY <2>1, <2>2
<1>2. getConsecutiveAck(s) = CHOOSE a \in s.window_start - 1 .. window_end(s) - 1 : good(a)
  BY DEF getConsecutiveAck
<1> HIDE DEF good
<1>3. /\ getConsecutiveAck(s) \in s.window_start - 1 .. window_end(s) - 1
      /\ good(getConsecutiveAck(s))
  BY <1>1, <1>2
<1> QED
  BY <1>3, <1>0 DEF good

(* The window, the file and the ack do not depend on the rest.             *)
LEMMA SameWindow ==
    ASSUME NEW s, NEW u, NEW os,
           u.window_start = s.window_start, u.packets = s.packets, u.file = s.file
    PROVE  /\ WindowOK(s, os) => WindowOK(u, os)
           /\ AckOK(s) /\ u.previous_ack = s.previous_ack => AckOK(u)
           /\ window_end(u) = window_end(s)
           /\ \A i : received(u, i) = received(s, i)
           /\ getConsecutiveAck(u) = getConsecutiveAck(s)
<1>1. window_end(u) = window_end(s) /\ \A i : received(u, i) = received(s, i)
  BY DEF window_end, received
<1>2. getConsecutiveAck(u) = getConsecutiveAck(s)
  BY <1>1 DEF getConsecutiveAck
<1> QED
  BY <1>1, <1>2 DEF WindowOK, AckOK

(* What is placed stays placed when the order grows.                       *)
LEMMA PlacedStays ==
    ASSUME NEW os \in Seq(Packets), NEW ms \in Seq(Packets)
    PROVE  /\ \A m : Placed(m, os) => Placed(m, os \o ms)
           /\ \A s : s \in LocalStates /\ WindowOK(s, os) => WindowOK(s, os \o ms)
<1>0. /\ os \o ms \in Seq(Packets)
      /\ Len(os \o ms) = Len(os) + Len(ms)
      /\ Len(os) \in Nat /\ Len(ms) \in Nat
      /\ \A i \in 1 .. Len(os) : (os \o ms)[i] = os[i]
  OBVIOUS
<1>1. \A m : Placed(m, os) => Placed(m, os \o ms)
  BY <1>0 DEF Placed, Packets
<1>2. ASSUME NEW s \in LocalStates, WindowOK(s, os)
      PROVE  WindowOK(s, os \o ms)
  <2>1. PICK n \in Nat : n = s.window_start
    BY DEF LocalStates
  <2>2. n <= Len(os)
    BY <1>2, <2>1 DEF WindowOK
  <2>3. SubSeq(os, 1, n) = SubSeq(os \o ms, 1, n)
    BY <2>2, <1>0
  <2>4. \A i \in Slots : s.packets[i] # NoPacket =>
         /\ Placed(s.packets[i], os \o ms)
         /\ s.packets[i].seq_num \in s.window_start .. window_end(s)
         /\ s.packets[i].seq_num % WINDOW_SIZE = i
    BY <1>1, <1>2 DEF WindowOK
  <2> QED
    BY <1>0, <1>2, <2>1, <2>2, <2>3, <2>4 DEF WindowOK
<1> QED
  BY <1>1, <1>2

(* slideGlobalWindow writes the next packets of the order, and only those  *)
(* that s acknowledged, so that none is missing.                           *)
LEMMA DeliverTo ==
    ASSUME NEW s \in LocalStates, NEW os \in Seq(Packets), WindowOK(s, os), AckOK(s),
           NEW last \in Int, last <= s.previous_ack,
           NEW u, u = deliverTo(s, last)
    PROVE  /\ u \in LocalStates /\ WindowOK(u, os) /\ AckOK(u)
           /\ u.window_start = IF last < s.window_start THEN s.window_start ELSE last + 1
           /\ window_end(u) >= window_end(s)
           /\ \A i \in u.window_start .. window_end(s) : received(s, i) => received(u, i)
           /\ u.state = s.state /\ u.num_built = s.num_built /\ u.num_sent = s.num_sent
           /\ u.previous_ack = s.previous_ack /\ u.previous_token = s.previous_token
<1>0. PICK ws \in Nat : ws = s.window_start
  BY DEF LocalStates
<1>1. PICK c \in Nat : /\ c = Cardinality(ws .. last)
                       /\ ws .. last = ws .. ws + c - 1
                       /\ c > 0 => c = last - ws + 1
                       /\ c = 0 => last < ws
  <2>1. Cardinality(ws .. last) = IF ws > last THEN 0 ELSE last - ws + 1
    <3>1. ws \in Int
      OBVIOUS
    <3> QED
      BY <3>1, FS_Interval, Zenon
  <2> QED
    BY <2>1
<1>a. c = IF last < ws THEN 0 ELSE last - ws + 1
  BY <1>1
<1>2. PICK e \in Int : e = window_end(s) /\ e = ws + WINDOW_SIZE - 1
  BY <1>0 DEF window_end
<1>3. \A i \in ws .. ws + c - 1 : i \in ws .. e /\ received(s, i)
  <2>1. PICK a \in Int : a = s.previous_ack
    BY DEF LocalStates
  <2>2. a <= e /\ \A i \in ws .. a : received(s, i)
    BY <1>0, <1>2, <2>1 DEF AckOK
  <2>3. last <= a
    BY <2>1
  <2> QED
    BY <1>1, <2>2, <2>3
<1>4. \A i \in ws .. ws + c - 1 : /\ s.packets[i % WINDOW_SIZE] = os[i + 1]
                                  /\ i < Len(os)
  <2>1. ASSUME NEW i \in ws .. ws + c - 1
        PROVE  /\ s.packets[i % WINDOW_SIZE] = os[i + 1]
               /\ i < Len(os)
    <3>1. i \in s.window_start .. window_end(s) /\ received(s, i)
      BY <1>3, <1>0, <1>2
    <3> QED
      BY <3>1, SlotHolds, Zenon
  <2> QED
    BY <2>1
<1>5. Len(os) \in Nat /\ ws <= Len(os) /\ ws + c <= Len(os)
  <2>1. Len(os) \in Nat /\ ws <= Len(os)
    BY <1>0 DEF WindowOK
  <2>2. CASE c = 0
    BY <2>1, <2>2
  <2>3. CASE c > 0
    <3>1. ws + c - 1 \in ws .. ws + c - 1
      BY <2>3
    <3> QED
      BY <3>1, <1>4, <2>1
  <2> QED
    BY <2>1, <2>2, <2>3
<1> DEFINE written == [k \in 1 .. c |-> s.packets[(ws + k - 1) % WINDOW_SIZE]]
           emptied == [i \in Slots |-> IF \E n \in ws .. last : i = n % WINDOW_SIZE
                                       THEN NoPacket ELSE s.packets[i]]
<1>6. u = [s EXCEPT !.file = s.file \o written, !.packets = emptied, !.window_start = ws + c]
  BY <1>0, <1>1 DEF deliverTo
<1>7. s.file \o written = SubSeq(os, 1, ws + c)
  <2>1. written = [k \in 1 .. c |-> os[ws + k]]
    <3>1. ASSUME NEW k \in 1 .. c
          PROVE  s.packets[(ws + k - 1) % WINDOW_SIZE] = os[ws + k]
      <4>1. PICK i \in ws .. ws + c - 1 : i = ws + k - 1 /\ i + 1 = ws + k
        OBVIOUS
      <4> QED
        BY <4>1, <1>4
    <3> QED
      BY <3>1
  <2>2. s.file = SubSeq(os, 1, ws)
    BY <1>0 DEF WindowOK
  <2> HIDE DEF written
  <2>3. SubSeq(os, 1, ws) \o [k \in 1 .. c |-> os[ws + k]] = SubSeq(os, 1, ws + c)
    BY <1>5
  <2> QED
    BY <2>1, <2>2, <2>3
<1>8. /\ emptied \in [Slots -> Packets \cup {NoPacket}]
      /\ \A i \in Slots : emptied[i] = IF \E n \in ws .. last : i = n % WINDOW_SIZE
                                       THEN NoPacket ELSE s.packets[i]
  BY DEF LocalStates
<1>9. SubSeq(os, 1, ws + c) \in Seq(Packets)
  BY <1>5
<1> HIDE DEF written, emptied
<1>b. PICK n \in Nat, fl \in Seq(Packets), pk \in [Slots -> Packets \cup {NoPacket}] :
        n = ws + c /\ fl = SubSeq(os, 1, ws + c) /\ pk = emptied
  <2>1. ws + c \in Nat
    OBVIOUS
  <2> QED
    BY <2>1, <1>8, <1>9, Zenon
<1>c. u = [s EXCEPT !.file = fl, !.packets = pk, !.window_start = n]
  BY <1>6, <1>7, <1>b
<1>10. u \in LocalStates
  BY <1>c DEF LocalStates
<1>11. /\ u.file = SubSeq(os, 1, ws + c) /\ u.packets = emptied
       /\ u.window_start = ws + c /\ u.previous_ack = s.previous_ack
       /\ window_end(u) = e + c
  <2>1. u.file = fl /\ u.packets = pk /\ u.window_start = n /\ u.previous_ack = s.previous_ack
    BY <1>c DEF LocalStates
  <2>2. window_end(u) = n + WINDOW_SIZE - 1
    BY <2>1 DEF window_end
  <2>3. n + WINDOW_SIZE - 1 = e + c
    BY <1>2, <1>b
  <2> QED
    BY <2>1, <2>2, <2>3, <1>b
<1>12. ASSUME NEW i \in Slots, emptied[i] # NoPacket
       PROVE  /\ Placed(emptied[i], os)
              /\ emptied[i].seq_num \in ws + c .. e + c
              /\ emptied[i].seq_num % WINDOW_SIZE = i
  <2>1. emptied[i] = s.packets[i] /\ ~ \E k \in ws .. last : i = k % WINDOW_SIZE
    BY <1>8, <1>12
  <2>2. PICK m \in Packets : m = s.packets[i] /\ Placed(m, os) /\ m.seq_num % WINDOW_SIZE = i
                             /\ m.seq_num \in ws .. e
    BY <2>1, <1>0, <1>2, <1>12 DEF WindowOK, Placed
  <2>3. m.seq_num \notin ws .. last
    BY <2>1, <2>2
  <2>4. m.seq_num \in ws + c .. e + c
    <3>1. PICK k \in Nat : k = m.seq_num
      BY DEF Packets
    <3>2. k \in ws .. e /\ ~ (ws <= k /\ k <= last)
      BY <3>1, <2>2, <2>3
    <3> QED
      BY <3>1, <3>2, <1>a
  <2> QED
    BY <2>1, <2>2, <2>4
<1>13. WindowOK(u, os)
  BY <1>11, <1>12, <1>5 DEF WindowOK
<1>d. ASSUME NEW i \in ws + c .. e, received(s, i)
      PROVE  received(u, i)
  <2>1. i \in Int /\ s.packets[i % WINDOW_SIZE] # NoPacket
    BY <1>d DEF received
  <2>2. i % WINDOW_SIZE \in Slots
    BY <2>1, SlotOf, Zenon
  <2>3. ASSUME NEW k \in ws .. last, i % WINDOW_SIZE = k % WINDOW_SIZE
        PROVE  FALSE
    <3>1. k \in Int /\ i \in Int /\ k <= i /\ i < k + WINDOW_SIZE /\ k # i
      BY <1>1, <1>2
    <3> QED
      BY <3>1, <2>3, ModInjective, Zenon
  <2>4. emptied[i % WINDOW_SIZE] # NoPacket
    BY <2>1, <2>2, <2>3, <1>8
  <2> QED
    BY <2>4, <1>11 DEF received
<1>14. AckOK(u)
  <2>1. PICK a \in Int : a = s.previous_ack
    BY DEF LocalStates
  <2>2. a <= e /\ \A i \in ws .. a : received(s, i)
    BY <1>0, <1>2, <2>1 DEF AckOK
  <2>3. \A i \in ws + c .. a : received(u, i)
    BY <1>d, <2>2
  <2> QED
    BY <2>1, <2>2, <2>3, <1>11 DEF AckOK
<1>e. /\ window_end(u) >= window_end(s)
      /\ \A i \in u.window_start .. window_end(s) : received(s, i) => received(u, i)
  BY <1>2, <1>11, <1>d
<1>15. /\ u.state = s.state /\ u.num_built = s.num_built /\ u.num_sent = s.num_sent
       /\ u.previous_ack = s.previous_ack /\ u.previous_token = s.previous_token
  BY <1>c DEF LocalStates
<1>16. u.window_start = IF last < s.window_start THEN s.window_start ELSE last + 1
  BY <1>0, <1>a, <1>11
<1> QED
  BY <1>10, <1>13, <1>14, <1>15, <1>16, <1>e

(* What sendPackets sends has the next numbers, inside the window.         *)
LEMMA ToSend ==
    ASSUME NEW p \in Machines, NEW s \in LocalStates, NEW q \in Int, q >= -1,
           NEW ms, ms = toSend(p, s, q)
    PROVE  /\ ms \in Seq(Packets)
           /\ \A k \in 1 .. Len(ms) : /\ ms[k].seq_num = q + k
                                      /\ q + k <= window_end(s)
           /\ s.num_sent <= s.num_built => s.num_sent + Len(ms) <= s.num_built
<1>0. PICK e \in Int, a \in Nat, b \in Nat :
         e = window_end(s) /\ a = s.num_sent /\ b = s.num_built
  BY DEF LocalStates, window_end
<1> DEFINE fits == {i \in 1 .. MAX_MESSAGE : q + i <= e /\ a + i <= b}
<1>1. PICK n \in Nat : n = Cardinality(fits) /\ fits = 1 .. n
  <2> DEFINE l == IF MAX_MESSAGE <= e - q /\ MAX_MESSAGE <= b - a THEN MAX_MESSAGE
                  ELSE IF e - q <= b - a THEN e - q ELSE b - a
  <2>1. /\ l \in Int
        /\ l <= MAX_MESSAGE /\ l <= e - q /\ l <= b - a
        /\ l = MAX_MESSAGE \/ l = e - q \/ l = b - a
    OBVIOUS
  <2> HIDE DEF l
  <2>2. fits = 1 .. l
    BY <2>1
  <2> HIDE DEF fits
  <2>3. Cardinality(1 .. l) = IF 1 > l THEN 0 ELSE l - 1 + 1
    <3>1. 1 \in Int /\ l \in Int
      BY <2>1
    <3> QED
      BY <3>1, FS_Interval, Zenon
  <2>4. CASE 1 > l
    <3>1. fits = 1 .. 0 /\ Cardinality(fits) = 0
      BY <2>1, <2>2, <2>3, <2>4
    <3> QED
      BY <3>1
  <2>5. CASE l >= 1
    <3>1. Cardinality(fits) = l /\ l \in Nat
      BY <2>1, <2>2, <2>3, <2>5
    <3> QED
      BY <3>1, <2>2
  <2> QED
    BY <2>1, <2>4, <2>5
<1>2. \A i \in 1 .. n : q + i <= e /\ a + i <= b
  BY <1>1
<1>3. ms = [i \in 1 .. n |-> [seq_num |-> q + i, proc_num |-> p,
                                number |-> unsent(s, a + i - 1)]]
  BY <1>0, <1>1 DEF toSend
<1>4. ASSUME NEW i \in 1 .. n
      PROVE  unsent(s, a + i - 1) \in Nat
  <2>1. PICK j \in Nat : j = a + i - 1 /\ j <= b - 1
    BY <1>2
  <2>2. PICK k \in Nat : k = b - 1 - j
    BY <2>1
  <2>3. SEND_WINDOW_SIZE * (k \div SEND_WINDOW_SIZE) \in Nat
    BY QuotientNat
  <2>4. unsent(s, j) = j + SEND_WINDOW_SIZE * (k \div SEND_WINDOW_SIZE)
    BY <1>0, <2>2 DEF unsent
  <2> QED
    BY <2>1, <2>3, <2>4
<1> HIDE DEF fits
<1>5. \A i \in 1 .. n : [seq_num |-> q + i, proc_num |-> p,
                         number |-> unsent(s, a + i - 1)] \in Packets
  <2>1. ASSUME NEW i \in 1 .. n
        PROVE  [seq_num |-> q + i, proc_num |-> p, number |-> unsent(s, a + i - 1)] \in Packets
    <3>1. PICK k \in Nat, u \in Nat : k = q + i /\ u = unsent(s, a + i - 1)
      <4>1. q + i \in Nat
        OBVIOUS
      <4> QED
        BY <4>1, <1>4, Zenon
    <3>2. [seq_num |-> k, proc_num |-> p, number |-> u] \in Packets
      BY DEF Packets
    <3> QED
      BY <3>1, <3>2
  <2> QED
    BY <2>1

<1>6. /\ ms \in Seq(Packets) /\ Len(ms) = n
      /\ \A k \in 1 .. n : ms[k].seq_num = q + k
  <2> DEFINE m(i) == [seq_num |-> q + i, proc_num |-> p, number |-> unsent(s, a + i - 1)]
  <2>1. \A i \in 1 .. n : m(i) \in Packets /\ m(i).seq_num = q + i
    BY <1>5
  <2>2. ms = [i \in 1 .. n |-> m(i)]
    BY <1>3
  <2> HIDE DEF m
  <2>3. ms \in [1 .. n -> Packets]
    BY <2>1, <2>2
  <2>4. ms \in Seq(Packets) /\ Len(ms) = n
    BY <2>2, <2>3
  <2> QED
    BY <2>1, <2>2, <2>4
<1>7. a <= b => a + n <= b
  <2>1. n = 0 \/ n \in 1 .. n
    OBVIOUS
  <2> QED
    BY <2>1, <1>2
<1> QED
  BY <1>0, <1>2, <1>6, <1>7

(* The sender keeps what it sends in the slots of the numbers.             *)
LEMMA SendPackets ==
    ASSUME NEW s \in LocalStates, NEW os \in Seq(Packets), NEW ms \in Seq(Packets),
           \A k \in 1 .. Len(ms) : /\ ms[k].seq_num = Len(os) - 1 + k
                                   /\ Len(os) - 1 + k <= window_end(s),
           WindowOK(s, os), AckOK(s),
           NEW u, u = sendPackets(s, ms)
    PROVE  /\ u \in LocalStates /\ WindowOK(u, os \o ms) /\ AckOK(u)
           /\ u.state = s.state /\ u.num_built = s.num_built
           /\ u.num_sent = s.num_sent + Len(ms)
           /\ u.window_start = s.window_start /\ u.file = s.file
           /\ u.previous_ack = s.previous_ack /\ u.previous_token = s.previous_token
           /\ \A i \in Int : received(s, i) => received(u, i)
           /\ \A k \in 1 .. Len(ms) : /\ received(u, Len(os) - 1 + k)
                                      /\ Placed(ms[k], os \o ms)
<1> DEFINE inSlot(i) == {k \in DOMAIN ms : ms[k].seq_num % WINDOW_SIZE = i}
           filled == [i \in Slots |-> IF inSlot(i) # {} THEN ms[CHOOSE k \in inSlot(i) : TRUE]
                                      ELSE s.packets[i]]
<1>0. /\ Len(os) \in Nat /\ Len(ms) \in Nat /\ DOMAIN ms = 1 .. Len(ms)
      /\ s.num_sent \in Nat /\ s.window_start \in Nat
      /\ s.window_start <= Len(os)
  BY DEF LocalStates, WindowOK
<1>1. \A i \in Slots : \/ inSlot(i) = {} /\ filled[i] = s.packets[i]
                       \/ \E k \in 1 .. Len(ms) : /\ ms[k].seq_num % WINDOW_SIZE = i
                                                  /\ filled[i] = ms[k]
  BY <1>0
<1>2. filled \in [Slots -> Packets \cup {NoPacket}]
  <2>1. \A i \in Slots : s.packets[i] \in Packets \cup {NoPacket}
    BY DEF LocalStates
  <2>2. \A k \in 1 .. Len(ms) : ms[k] \in Packets
    OBVIOUS
  <2>3. \A i \in Slots : filled[i] \in Packets \cup {NoPacket}
    BY <1>1, <2>1, <2>2
  <2> QED
    BY <2>3
<1>3. u = [s EXCEPT !.packets = filled, !.num_sent = s.num_sent + Len(ms)]
  BY DEF sendPackets
<1> HIDE DEF filled
<1>4. u \in LocalStates /\ u.packets = filled /\ u.num_sent = s.num_sent + Len(ms)
      /\ u.window_start = s.window_start /\ u.file = s.file /\ u.previous_ack = s.previous_ack
  <2>1. s.num_sent + Len(ms) \in Nat
    BY <1>0
  <2> QED
    BY <1>2, <1>3, <2>1 DEF LocalStates
<1>5. /\ u.state = s.state /\ u.num_built = s.num_built
      /\ u.previous_token = s.previous_token
  BY <1>3 DEF LocalStates
<1>6. WindowOK(s, os \o ms)
  BY PlacedStays
<1>7. window_end(u) = window_end(s)
  BY <1>4 DEF window_end
<1>8. ASSUME NEW k \in 1 .. Len(ms)
      PROVE  /\ Placed(ms[k], os \o ms)
             /\ ms[k].seq_num \in s.window_start .. window_end(s)
             /\ ms[k] # NoPacket
  <2>1. PICK n \in Nat : n = Len(os) - 1 + k /\ n + 1 = Len(os) + k
    <3>1. PICK l \in Nat : l = Len(os)
      BY <1>0
    <3>2. k \in Nat /\ k >= 1
      BY <1>0
    <3>3. PICK n \in Nat : n = l - 1 + k /\ n + 1 = l + k
      BY <3>2
    <3>4. n = Len(os) - 1 + k /\ n + 1 = Len(os) + k
      BY <3>1, <3>3
    <3> QED
      BY <3>4
  <2>2. ms[k] \in Packets /\ ms[k].seq_num = n /\ n <= window_end(s)
    BY <2>1
  <2>3. (os \o ms)[Len(os) + k] = ms[k]
    BY <1>0
  <2>4. Len(os \o ms) = Len(os) + Len(ms)
    BY <1>0
  <2>5. Placed(ms[k], os \o ms)
    BY <2>1, <2>2, <2>3, <2>4, <1>0 DEF Placed
  <2>6. n \in s.window_start .. window_end(s)
    BY <2>1, <2>2, <1>0 DEF window_end
  <2> QED
    BY <2>2, <2>5, <2>6 DEF NoPacket
<1>9. ASSUME NEW i \in Slots, filled[i] # NoPacket
      PROVE  /\ Placed(filled[i], os \o ms)
             /\ filled[i].seq_num \in s.window_start .. window_end(s)
             /\ filled[i].seq_num % WINDOW_SIZE = i
  <2>1. CASE filled[i] = s.packets[i]
    BY <2>1, <1>6, <1>9 DEF WindowOK
  <2>2. CASE \E k \in 1 .. Len(ms) : /\ ms[k].seq_num % WINDOW_SIZE = i
                                     /\ filled[i] = ms[k]
    BY <2>2, <1>8
  <2> QED
    BY <2>1, <2>2, <1>1
<1>10. WindowOK(u, os \o ms)
  BY <1>4, <1>6, <1>7, <1>9 DEF WindowOK
<1>11. \A i \in Slots : s.packets[i] # NoPacket => filled[i] # NoPacket
  BY <1>1, <1>8
<1>12. \A i \in Int : received(s, i) => received(u, i)
  BY <1>4, <1>11, SlotOf DEF received
<1>13. AckOK(u)
  <2>1. \A i \in s.window_start .. s.previous_ack : i \in Int
    BY DEF LocalStates
  <2> QED
    BY <1>4, <1>7, <1>12, <2>1 DEF AckOK
<1>14. ASSUME NEW k \in 1 .. Len(ms)
       PROVE  received(u, Len(os) - 1 + k)
  <2>1. PICK i \in Int : i = ms[k].seq_num /\ i = Len(os) - 1 + k
    BY <1>0
  <2>2. i % WINDOW_SIZE \in Slots
    BY <2>1, SlotOf, Zenon
  <2>3. inSlot(i % WINDOW_SIZE) # {}
    BY <2>1, <1>0
  <2>4. filled[i % WINDOW_SIZE] # NoPacket
    BY <1>1, <1>8, <2>2, <2>3
  <2> QED
    BY <2>1, <2>4, <1>4 DEF received
<1> QED
  BY <1>4, <1>5, <1>8, <1>10, <1>12, <1>13, <1>14

LEMMA NewAck ==
    ASSUME NEW s \in LocalStates, NEW a \in Int, NEW q \in Int
    PROVE  /\ getNewAck(s, a, q) \in Int
           /\ getNewAck(s, a, q) <= getConsecutiveAck(s)
           /\ getNewAck(s, a, q) = getConsecutiveAck(s) \/ getNewAck(s, a, q) = a
<1>1. PICK c \in Int : c = getConsecutiveAck(s)
  BY ConsecutiveAck DEF LocalStates, window_end
<1> QED
  BY <1>1 DEF getNewAck

(* A token made with an ack of what s has.                                 *)
LEMMA BuildToken ==
    ASSUME NEW s \in LocalStates, NEW os \in Seq(Packets), WindowOK(s, os),
           NEW q \in Int, NEW a \in Int, NEW r \in Nat,
           a <= window_end(s), \A i \in s.window_start .. a : received(s, i),
           NEW u, u = buildToken(s, q, a, r)
    PROVE  /\ u \in LocalStates /\ WindowOK(u, os) /\ AckOK(u)
           /\ u.state = s.state /\ u.num_built = s.num_built /\ u.num_sent = s.num_sent
           /\ u.window_start = s.window_start /\ u.packets = s.packets /\ u.file = s.file
           /\ u.previous_ack = a
           /\ u.previous_token.sent /\ u.previous_token.type = "TOKEN"
           /\ u.previous_token.seq_num = q /\ u.previous_token.ack = a
           /\ u.previous_token.rand_num = r
           /\ u.previous_token.num_shutdown = s.previous_token.num_shutdown
<1> DEFINE tok == [s.previous_token EXCEPT !.sent = TRUE, !.type = "TOKEN", !.seq_num = q,
                                           !.ack = a, !.nak = missing(s, q), !.rand_num = r]
<1>1. missing(s, q) \subseteq Nat
  <2>1. PICK c \in Int : c = getConsecutiveAck(s) /\ c >= -1
    BY ConsecutiveAck DEF LocalStates, window_end
  <2>2. missing(s, q) \subseteq c + 1 .. q
    BY <2>1 DEF missing
  <2>3. c + 1 .. q \subseteq Nat
    BY <2>1
  <2> QED
    BY <2>2, <2>3
<1>2. tok \in Tokens
  <2>1. s.previous_token \in Tokens
    BY DEF LocalStates
  <2> QED
    BY <1>1, <2>1 DEF Tokens
<1>a. /\ tok.sent /\ tok.type = "TOKEN" /\ tok.seq_num = q /\ tok.ack = a
      /\ tok.rand_num = r /\ tok.num_shutdown = s.previous_token.num_shutdown
  BY DEF LocalStates, Tokens
<1>3. u = [s EXCEPT !.previous_token = tok, !.previous_ack = a]
  BY DEF buildToken
<1> HIDE DEF tok
<1>4. u \in LocalStates /\ u.previous_token = tok /\ u.previous_ack = a
      /\ u.state = s.state /\ u.num_built = s.num_built /\ u.num_sent = s.num_sent
      /\ u.window_start = s.window_start /\ u.packets = s.packets /\ u.file = s.file
  BY <1>2, <1>3 DEF LocalStates
<1>5. WindowOK(u, os) /\ window_end(u) = window_end(s)
      /\ \A i : received(u, i) = received(s, i)
  BY <1>4, SameWindow
<1>6. AckOK(u)
  BY <1>4, <1>5 DEF AckOK
<1> QED
  BY <1>a, <1>4, <1>5, <1>6

(* What processToken changes last: the phase, and in the token the type or *)
(* the count.                                                              *)
LEMMA Marked ==
    ASSUME NEW p \in Machines, NEW s \in LocalStates, NEW t \in Tokens,
           NEW new \in LocalStates, new.state # "WAITING_START",
           NEW u, u = marked(p, s, t, new)
    PROVE  /\ u \in LocalStates /\ u.state # "WAITING_START"
           /\ u.num_built = new.num_built
           /\ u.num_sent = new.num_sent /\ u.window_start = new.window_start
           /\ u.packets = new.packets /\ u.file = new.file
           /\ u.previous_ack = new.previous_ack
           /\ u.previous_token.sent = new.previous_token.sent
           /\ u.previous_token.seq_num = new.previous_token.seq_num
           /\ u.previous_token.rand_num = new.previous_token.rand_num
           /\ u.previous_token.ack = new.previous_token.ack
           /\ finishes(p, s, t, new) => /\ u.state = "FINISHED"
                                        /\ u.previous_token.num_shutdown = t.num_shutdown + 1
           /\ ~ finishes(p, s, t, new) =>
                /\ u.state = new.state
                /\ u.previous_token.num_shutdown = new.previous_token.num_shutdown
<1>0. new.previous_token \in Tokens /\ t.num_shutdown + 1 \in Nat
  <2>1. PICK k \in Nat : k = t.num_shutdown
    BY DEF Tokens
  <2> QED
    BY <2>1 DEF LocalStates
<1>1. CASE finishes(p, s, t, new)
  <2>1. PICK k \in Tokens : k = [new.previous_token EXCEPT !.num_shutdown = t.num_shutdown + 1]
    BY <1>0 DEF Tokens
  <2>2. u = [new EXCEPT !.state = "FINISHED", !.previous_token = k]
    BY <1>1, <2>1 DEF marked
  <2>3. /\ k.seq_num = new.previous_token.seq_num
        /\ k.rand_num = new.previous_token.rand_num
        /\ k.ack = new.previous_token.ack /\ k.num_shutdown = t.num_shutdown + 1
        /\ k.sent = new.previous_token.sent
    BY <1>0, <2>1 DEF Tokens
  <2> QED
    BY <1>1, <2>2, <2>3 DEF LocalStates, States
<1>2. CASE ~ finishes(p, s, t, new)
  <2>1. PICK ty \in {"FIN", "TOKEN"} : ty = IF ends(p, s, t, new) THEN "FIN" ELSE "TOKEN"
    OBVIOUS
  <2>2. PICK k \in Tokens : k = [new.previous_token EXCEPT !.type = ty]
    BY <1>0 DEF Tokens
  <2>3. u = [new EXCEPT !.previous_token = k]
    BY <1>2, <2>1, <2>2 DEF marked
  <2>4. /\ k.seq_num = new.previous_token.seq_num
        /\ k.rand_num = new.previous_token.rand_num
        /\ k.ack = new.previous_token.ack /\ k.sent = new.previous_token.sent
        /\ k.num_shutdown = new.previous_token.num_shutdown
    BY <1>0, <2>2 DEF Tokens
  <2> QED
    BY <1>2, <2>3, <2>4 DEF LocalStates
<1> QED
  BY <1>1, <1>2

-----------------------------------------------------------------------------
(* The ring.                                                               *)

LEMMA PreviousInjective ==
    /\ 1 \in Machines
    /\ \A p \in Machines : previous(p) \in Machines
    /\ \A p, q \in Machines : previous(p) = previous(q) => p = q
BY DEF Machines, previous

(* All but the number of the token is the same.                            *)
SameButRank(u, s, least) ==
    /\ u.state = s.state /\ u.num_built = s.num_built /\ u.num_sent = s.num_sent
    /\ u.window_start = s.window_start /\ u.packets = s.packets
    /\ u.previous_ack = s.previous_ack /\ u.file = s.file
    /\ u.previous_token.sent = s.previous_token.sent
    /\ u.previous_token.type = s.previous_token.type
    /\ u.previous_token.seq_num = s.previous_token.seq_num
    /\ u.previous_token.ack = s.previous_token.ack
    /\ u.previous_token.num_shutdown = s.previous_token.num_shutdown
    /\ u.previous_token.rand_num = s.previous_token.rand_num - least
    /\ s.previous_token.rand_num \in Nat

(* Keeping the differences of the token numbers changes nothing else.      *)
LEMMA Ranked ==
    ASSUME NEW l \in [Machines -> LocalStates]
    PROVE  /\ ranked(l) \in [Machines -> LocalStates]
           /\ \E least \in Nat :
                 \A p \in Machines : SameButRank(ranked(l)[p], l[p], least)
<1> DEFINE rands == {l[p].previous_token.rand_num : p \in Machines}
           least == CHOOSE r \in rands : \A other \in rands : r <= other
<1>1. \A p \in Machines : /\ l[p] \in LocalStates /\ l[p].previous_token \in Tokens
                          /\ l[p].previous_token.rand_num \in Nat
  BY DEF LocalStates, Tokens
<1>2. rands \in SUBSET Nat /\ rands # {}
  BY <1>1, PreviousInjective
<1>3. least \in rands /\ \A other \in rands : least <= other
  <2> HIDE DEF rands
  <2>1. \E r \in rands : \A other \in rands : r <= other
    BY <1>2, Least
  <2> QED
    BY <2>1
<1>4. PICK n \in Nat : n = least /\ \A p \in Machines : n <= l[p].previous_token.rand_num
  BY <1>2, <1>3
<1>5. ranked(l) = [p \in Machines |-> [l[p] EXCEPT !.previous_token.rand_num = @ - n]]
  BY <1>4 DEF ranked
<1> HIDE DEF rands, least
<1>6. ASSUME NEW p \in Machines
      PROVE  SameButRank(ranked(l)[p], l[p], n) /\ ranked(l)[p] \in LocalStates
  <2>1. PICK d \in Nat : d = l[p].previous_token.rand_num - n
    BY <1>1, <1>4
  <2>2. PICK k \in Tokens : k = [l[p].previous_token EXCEPT !.rand_num = d]
    BY <1>1 DEF Tokens
  <2>3. ranked(l)[p] = [l[p] EXCEPT !.previous_token = k]
    BY <1>5, <2>1, <2>2
  <2>4. ranked(l)[p] \in LocalStates /\ ranked(l)[p].previous_token = k
    BY <1>1, <2>3 DEF LocalStates
  <2>5. /\ ranked(l)[p].state = l[p].state /\ ranked(l)[p].num_built = l[p].num_built
        /\ ranked(l)[p].num_sent = l[p].num_sent
        /\ ranked(l)[p].window_start = l[p].window_start /\ ranked(l)[p].packets = l[p].packets
        /\ ranked(l)[p].previous_ack = l[p].previous_ack /\ ranked(l)[p].file = l[p].file
    BY <1>1, <2>3 DEF LocalStates
  <2>6. /\ k.sent = l[p].previous_token.sent /\ k.type = l[p].previous_token.type
        /\ k.seq_num = l[p].previous_token.seq_num /\ k.ack = l[p].previous_token.ack
        /\ k.num_shutdown = l[p].previous_token.num_shutdown
        /\ k.rand_num = l[p].previous_token.rand_num - n
    BY <1>1, <2>1, <2>2 DEF Tokens
  <2> QED
    BY <1>1, <2>4, <2>5, <2>6 DEF SameButRank
<1>7. ranked(l) \in [Machines -> LocalStates]
  <2>1. PICK g : g = [p \in Machines |-> ranked(l)[p]]
    OBVIOUS
  <2>2. ranked(l) = g
    BY <1>5, <2>1
  <2> QED
    BY <1>6, <2>1, <2>2
<1> QED
  BY <1>6, <1>7

-----------------------------------------------------------------------------
(* The invariant of the ring.                                              *)

PacketsPlaced == \A pm \in net : Placed(pm[2], order)

WindowsOK == \A p \in Machines : WindowOK(local[p], order) /\ AckOK(local[p])

(* Nothing is sent before machine 1 starts.                                *)
BeforeStart ==
    local[1].state = "WAITING_START" =>
        /\ order = <<>>
        /\ \A p \in Machines : ~ local[p].previous_token.sent

(* Who can take a token takes it from the last holder, whose token has the *)
(* number of the last packet.                                              *)
OneHolder ==
    \E h \in Machines : \A p \in Machines :
        fresh(p) => previous(p) = h /\ tokenFor(p).seq_num = Len(order) - 1

RingInv == TypeOK /\ PacketsPlaced /\ WindowsOK /\ BeforeStart /\ OneHolder

LEMMA RingInit == Init => RingInv
<1> SUFFICES ASSUME Init
             PROVE  RingInv
  OBVIOUS
<1> DEFINE tok == [sent |-> FALSE, type |-> "TOKEN", seq_num |-> 0, ack |-> 0,
                   nak |-> {}, num_shutdown |-> 0, rand_num |-> 0]
           s == [state |-> "WAITING_START", num_built |-> 0, num_sent |-> 0,
                 window_start |-> 0, packets |-> [i \in Slots |-> NoPacket],
                 previous_ack |-> -1, file |-> <<>>, previous_token |-> tok]
<1>1. s \in LocalStates
  <2>1. tok \in Tokens
    BY DEF Tokens
  <2> HIDE DEF tok
  <2> QED
    BY <2>1 DEF LocalStates, States
<1>2. s.window_start = 0 /\ s.file = <<>> /\ s.previous_ack = -1 /\ ~ s.previous_token.sent
      /\ \A i \in Slots : s.packets[i] = NoPacket
  OBVIOUS
<1>3. local = [p \in Machines |-> craftPackets(p, s)]
  BY DEF Init
<1> HIDE DEF s, tok
<1>4. ASSUME NEW p \in Machines
      PROVE  /\ local[p] \in LocalStates
             /\ local[p].window_start = 0 /\ local[p].file = <<>>
             /\ local[p].previous_ack = -1 /\ ~ local[p].previous_token.sent
             /\ \A i \in Slots : local[p].packets[i] = NoPacket
  <2>1. local[p] = craftPackets(p, s)
    BY <1>3
  <2> QED
    BY <1>1, <1>2, <2>1, CraftPacketsType
<1>5. TypeOK
  <2>1. local \in [Machines -> LocalStates]
    BY <1>3, <1>4
  <2>2. net = {} /\ losses = 0 /\ FINsent = FALSE /\ order = <<>>
    BY DEF Init
  <2>3. losses \in 0 .. MaxLoss
    BY <2>2
  <2>4. net \subseteq Machines \X Packets /\ FINsent \in BOOLEAN
    BY <2>2, Zenon
  <2>5. order \in Seq(Packets)
    BY <2>2, EmptySeq, Zenon
  <2> QED
    BY <2>1, <2>3, <2>4, <2>5 DEF TypeOK
<1>6. ASSUME NEW p \in Machines
      PROVE  WindowOK(local[p], order) /\ AckOK(local[p])
  <2>1. order = <<>>
    BY DEF Init
  <2>2. /\ local[p].window_start <= Len(order)
        /\ local[p].file = SubSeq(order, 1, local[p].window_start)
    <3>1. order \in Seq(Packets) /\ Len(order) = 0
      BY <1>5, <2>1, EmptySeq DEF TypeOK
    <3>2. SubSeq(order, 1, 0) = <<>>
      BY <3>1, SubSeqEmpty
    <3>3. local[p].window_start <= Len(order)
      BY <1>4, <3>1
    <3> QED
      BY <1>4, <3>2, <3>3, Zenon
  <2>3. WindowOK(local[p], order)
    BY <1>4, <2>2 DEF WindowOK
  <2>4. AckOK(local[p])
    BY <1>4 DEF AckOK, window_end
  <2> QED
    BY <2>3, <2>4
<1>7. OneHolder
  BY <1>4, PreviousInjective DEF OneHolder, fresh, arrives, tokenFor
<1>8. PacketsPlaced /\ BeforeStart
  BY <1>4 DEF Init, PacketsPlaced, BeforeStart
<1> QED
  BY <1>5, <1>6, <1>7, <1>8 DEF RingInv, WindowsOK

(* Who has a token to take is past the start, and its window is right.     *)
LEMMA RingTypes ==
    ASSUME RingInv, NEW p \in Machines
    PROVE  /\ local[p] \in LocalStates /\ local[p].previous_token \in Tokens
           /\ tokenFor(p) \in Tokens /\ previous(p) \in Machines
           /\ order \in Seq(Packets) /\ Len(order) \in Nat
           /\ WindowOK(local[p], order) /\ AckOK(local[p])
           /\ fresh(p) => /\ tokenFor(p).seq_num = Len(order) - 1
                          /\ local[1].state # "WAITING_START"
<1>1. /\ local[p] \in LocalStates /\ previous(p) \in Machines
      /\ local[previous(p)] \in LocalStates
      /\ order \in Seq(Packets) /\ Len(order) \in Nat
  BY PreviousInjective DEF RingInv, TypeOK
<1>2. local[p].previous_token \in Tokens /\ tokenFor(p) \in Tokens
  BY <1>1 DEF LocalStates, tokenFor
<1>3. WindowOK(local[p], order) /\ AckOK(local[p])
  BY DEF RingInv, WindowsOK
<1>4. fresh(p) => /\ tokenFor(p).seq_num = Len(order) - 1
                  /\ local[1].state # "WAITING_START"
  BY <1>1 DEF RingInv, OneHolder, BeforeStart, fresh, arrives, tokenFor
<1> QED
  BY <1>1, <1>2, <1>3, <1>4

(* The stages of processToken on the state of the machine that takes the   *)
(* token, as ReceiveToken makes them.                                      *)
Taken(p, slid, ms, sent, new, done, x) ==
    LET s == local[p]
        t == tokenFor(p)
    IN  /\ running(p) /\ fresh(p)
        /\ slid = slideGlobalWindow(s, t.ack)
        /\ ms = toSend(p, slid, t.seq_num)
        /\ sent = sendPackets(slid, ms)
        /\ new = buildToken(sent, t.seq_num + Len(ms),
                            getNewAck(sent, t.ack, t.seq_num), t.rand_num + 1)
        /\ done = marked(p, s, t, new)
        /\ x = IF done.state = "FINISHED" THEN done ELSE craftPackets(p, done)

LEMMA TakenWindow ==
    ASSUME RingInv, NEW p \in Machines,
           NEW slid, NEW ms, NEW sent, NEW new, NEW done, NEW x,
           Taken(p, slid, ms, sent, new, done, x)
    PROVE  /\ slid \in LocalStates /\ WindowOK(slid, order) /\ AckOK(slid)
           /\ slid.window_start \in local[p].window_start .. Len(order)
           /\ slid.file = SubSeq(order, 1, slid.window_start)
           /\ slid.state = local[p].state /\ slid.num_built = local[p].num_built
           /\ slid.num_sent = local[p].num_sent /\ slid.previous_ack = local[p].previous_ack
           /\ slid.previous_token = local[p].previous_token
           /\ ms \in Seq(Packets) /\ Len(ms) \in Nat
           /\ \A k \in 1 .. Len(ms) : /\ ms[k].seq_num = Len(order) - 1 + k
                                      /\ Len(order) - 1 + k <= window_end(slid)
                                      /\ Placed(ms[k], order \o ms)
           /\ order \o ms \in Seq(Packets) /\ Len(order \o ms) = Len(order) + Len(ms)
           /\ sent \in LocalStates /\ WindowOK(sent, order \o ms) /\ AckOK(sent)
           /\ sent.state = local[p].state /\ sent.file = slid.file
           /\ sent.window_start = slid.window_start
<1>1. /\ local[p] \in LocalStates /\ tokenFor(p) \in Tokens
      /\ order \in Seq(Packets) /\ Len(order) \in Nat
      /\ WindowOK(local[p], order) /\ AckOK(local[p])
      /\ tokenFor(p).seq_num = Len(order) - 1
  BY RingTypes DEF Taken
<1>2. PICK q \in Int, a \in Int :
        q = tokenFor(p).seq_num /\ a = tokenFor(p).ack /\ q = Len(order) - 1 /\ q >= -1
  BY <1>1 DEF Tokens
<1>3. PICK last \in Int : /\ last = IF local[p].previous_ack <= a
                                    THEN local[p].previous_ack ELSE a
                          /\ last <= local[p].previous_ack
  BY <1>1 DEF LocalStates
<1>4. slid = deliverTo(local[p], last)
  BY <1>2, <1>3 DEF slideGlobalWindow, Taken
<1>5. /\ slid \in LocalStates /\ WindowOK(slid, order) /\ AckOK(slid)
      /\ slid.window_start = IF last < local[p].window_start
                             THEN local[p].window_start ELSE last + 1
      /\ slid.state = local[p].state /\ slid.num_built = local[p].num_built
      /\ slid.num_sent = local[p].num_sent /\ slid.previous_ack = local[p].previous_ack
      /\ slid.previous_token = local[p].previous_token
  BY <1>1, <1>3, <1>4, DeliverTo
<1>6. /\ slid.window_start \in local[p].window_start .. Len(order)
      /\ slid.file = SubSeq(order, 1, slid.window_start)
  <2>1. PICK w \in Nat, v \in Nat : w = local[p].window_start /\ v = slid.window_start
    BY <1>1, <1>5 DEF LocalStates
  <2>2. v >= w
    BY <1>5, <2>1
  <2>3. v <= Len(order) /\ slid.file = SubSeq(order, 1, slid.window_start)
    BY <1>5, <2>1 DEF WindowOK
  <2> QED
    BY <1>1, <2>1, <2>2, <2>3
<1>7. /\ ms \in Seq(Packets) /\ Len(ms) \in Nat
      /\ \A k \in 1 .. Len(ms) : /\ ms[k].seq_num = Len(order) - 1 + k
                                 /\ Len(order) - 1 + k <= window_end(slid)
  <2>1. ms = toSend(p, slid, q)
    BY <1>2 DEF Taken
  <2>2. /\ ms \in Seq(Packets)
        /\ \A k \in 1 .. Len(ms) : /\ ms[k].seq_num = q + k
                                   /\ q + k <= window_end(slid)
    BY <1>2, <1>5, <2>1, ToSend
  <2> QED
    BY <1>2, <2>2
<1>8. order \o ms \in Seq(Packets) /\ Len(order \o ms) = Len(order) + Len(ms)
  BY <1>1, <1>7
<1>9. sent = sendPackets(slid, ms)
  BY DEF Taken
<1>10. /\ sent \in LocalStates /\ WindowOK(sent, order \o ms) /\ AckOK(sent)
       /\ sent.state = slid.state /\ sent.file = slid.file
       /\ sent.window_start = slid.window_start
       /\ \A k \in 1 .. Len(ms) : Placed(ms[k], order \o ms)
  BY <1>1, <1>5, <1>7, <1>9, SendPackets
<1> QED
  BY <1>5, <1>6, <1>7, <1>8, <1>10

LEMMA TakenToken ==
    ASSUME RingInv, NEW p \in Machines,
           NEW slid, NEW ms, NEW sent, NEW new, NEW done, NEW x,
           Taken(p, slid, ms, sent, new, done, x)
    PROVE  /\ x \in LocalStates /\ x.state # "WAITING_START"
           /\ WindowOK(x, order \o ms) /\ AckOK(x)
           /\ x.file = slid.file
           /\ x.previous_token.seq_num = Len(order \o ms) - 1
           /\ x.previous_token.rand_num = tokenFor(p).rand_num + 1
           /\ x.window_start = sent.window_start /\ x.packets = sent.packets
           /\ x.num_sent = sent.num_sent
           /\ sent.num_built <= NumPackets[p] =>
                sent.num_built <= x.num_built /\ x.num_built <= NumPackets[p]
           /\ x.previous_token.sent /\ x.previous_token.ack = x.previous_ack
           /\ finishes(p, local[p], tokenFor(p), new) =>
                /\ x.state = "FINISHED" /\ local[p].state # "FINISHED"
                /\ x.num_sent = NumPackets[p]
                /\ x.window_start = tokenFor(p).seq_num + 1
                /\ x.previous_token.num_shutdown = tokenFor(p).num_shutdown + 1
           /\ ~ finishes(p, local[p], tokenFor(p), new) =>
                /\ x.state = local[p].state
                /\ x.previous_token.num_shutdown = sent.previous_token.num_shutdown
<1>1. /\ tokenFor(p) \in Tokens /\ Len(order) \in Nat
      /\ tokenFor(p).seq_num = Len(order) - 1
  BY RingTypes DEF Taken
<1>2. /\ Len(ms) \in Nat
      /\ order \o ms \in Seq(Packets) /\ Len(order \o ms) = Len(order) + Len(ms)
      /\ sent \in LocalStates /\ WindowOK(sent, order \o ms) /\ AckOK(sent)
      /\ sent.state = local[p].state /\ sent.file = slid.file
  BY TakenWindow
<1>3. PICK q \in Int, a \in Int, r \in Nat :
        q = tokenFor(p).seq_num /\ a = tokenFor(p).ack /\ r = tokenFor(p).rand_num
  BY <1>1 DEF Tokens
<1>4. PICK n \in Int : n = getNewAck(sent, a, q) /\ n <= getConsecutiveAck(sent)
  BY <1>2, NewAck
<1>5. n <= window_end(sent) /\ \A i \in sent.window_start .. n : received(sent, i)
  <2>1. /\ getConsecutiveAck(sent) \in sent.window_start - 1 .. window_end(sent) - 1
        /\ \A i \in sent.window_start .. getConsecutiveAck(sent) : received(sent, i)
    BY <1>2, ConsecutiveAck
  <2>2. sent.window_start \in Nat /\ window_end(sent) \in Int
    BY <1>2 DEF LocalStates, window_end
  <2> QED
    BY <1>4, <2>1, <2>2
<1>6. PICK b \in Int, k \in Nat : b = q + Len(ms) /\ k = r + 1
  BY <1>2
<1>7. new = buildToken(sent, b, n, k)
  BY <1>3, <1>4, <1>6 DEF Taken
<1>8. /\ new \in LocalStates /\ WindowOK(new, order \o ms) /\ AckOK(new)
      /\ new.state = sent.state /\ new.file = sent.file
      /\ new.previous_token.seq_num = b /\ new.previous_token.rand_num = k
      /\ new.window_start = sent.window_start /\ new.packets = sent.packets
      /\ new.num_sent = sent.num_sent /\ new.num_built = sent.num_built
      /\ new.previous_token.sent
      /\ new.previous_token.ack = n /\ new.previous_ack = n
      /\ new.previous_token.num_shutdown = sent.previous_token.num_shutdown
  <2>1. PICK os \in Seq(Packets) : os = order \o ms
    BY <1>2
  <2>2. sent \in LocalStates /\ WindowOK(sent, os)
    BY <1>2, <2>1
  <2>3. /\ new \in LocalStates /\ WindowOK(new, os) /\ AckOK(new)
        /\ new.state = sent.state /\ new.file = sent.file
        /\ new.previous_token.seq_num = b /\ new.previous_token.rand_num = k
        /\ new.window_start = sent.window_start /\ new.packets = sent.packets
        /\ new.num_sent = sent.num_sent /\ new.num_built = sent.num_built
        /\ new.previous_token.sent
        /\ new.previous_token.ack = n /\ new.previous_ack = n
        /\ new.previous_token.num_shutdown = sent.previous_token.num_shutdown
    BY <1>5, <1>7, <2>2, BuildToken, SMTT(30)
  <2> QED
    BY <2>1, <2>3
<1>9. new.state # "WAITING_START" /\ done = marked(p, local[p], tokenFor(p), new)
  BY <1>2, <1>8 DEF running, Taken
<1>10. local[p] \in LocalStates
  BY RingTypes
<1>11. /\ done \in LocalStates /\ done.state # "WAITING_START"
       /\ done.window_start = new.window_start /\ done.packets = new.packets
       /\ done.file = new.file /\ done.previous_ack = new.previous_ack
       /\ done.previous_token.seq_num = b /\ done.previous_token.rand_num = k
       /\ done.num_sent = new.num_sent /\ done.num_built = new.num_built
       /\ done.previous_token.ack = n /\ done.previous_token.sent
       /\ finishes(p, local[p], tokenFor(p), new) =>
            /\ done.state = "FINISHED"
            /\ done.previous_token.num_shutdown = tokenFor(p).num_shutdown + 1
       /\ ~ finishes(p, local[p], tokenFor(p), new) =>
            /\ done.state = new.state
            /\ done.previous_token.num_shutdown = new.previous_token.num_shutdown
  BY <1>1, <1>8, <1>9, <1>10, Marked
<1>12. /\ x \in LocalStates /\ x.window_start = done.window_start /\ x.packets = done.packets
       /\ x.file = done.file /\ x.previous_ack = done.previous_ack /\ x.state = done.state
       /\ x.previous_token = done.previous_token /\ x.num_sent = done.num_sent
       /\ done.num_built <= NumPackets[p] =>
            done.num_built <= x.num_built /\ x.num_built <= NumPackets[p]
  <2>1. x = done \/ x = craftPackets(p, done)
    BY DEF Taken
  <2>2. done.num_built <= done.num_built
    BY <1>11 DEF LocalStates
  <2> QED
    BY <1>11, <2>1, <2>2, CraftPacketsType
<1>13. WindowOK(x, order \o ms) /\ AckOK(x)
  BY <1>8, <1>11, <1>12, SameWindow
<1>14. b = Len(order \o ms) - 1
  BY <1>1, <1>2, <1>3, <1>6
<1>15. finishes(p, local[p], tokenFor(p), new) =>
         /\ local[p].state # "FINISHED"
         /\ x.num_sent = NumPackets[p]
         /\ x.window_start = tokenFor(p).seq_num + 1
  BY <1>11, <1>12 DEF finishes
<1> QED
  BY <1>2, <1>3, <1>6, <1>8, <1>11, <1>12, <1>13, <1>14, <1>15

(* What the stages keep: what the machine has, its count of packets, and   *)
(* that it clears only what the token's ack counts.                        *)
LEMMA TakenKeeps ==
    ASSUME RingInv, NEW p \in Machines,
           NEW slid, NEW ms, NEW sent, NEW new, NEW done, NEW x,
           Taken(p, slid, ms, sent, new, done, x)
    PROVE  /\ sent.num_sent = local[p].num_sent + Len(ms)
           /\ sent.num_built = local[p].num_built
           /\ local[p].num_sent <= local[p].num_built => sent.num_sent <= sent.num_built
           /\ sent.previous_token = local[p].previous_token
           /\ \A n \in local[p].window_start .. sent.window_start - 1 : n <= tokenFor(p).ack
           /\ window_end(sent) >= window_end(local[p])
           /\ \A i \in sent.window_start .. window_end(local[p]) :
                received(local[p], i) => received(sent, i)
           /\ \A k \in 1 .. Len(ms) : /\ received(sent, Len(order) - 1 + k)
                                      /\ Len(order) - 1 + k <= window_end(sent)
<1>1. /\ local[p] \in LocalStates /\ tokenFor(p) \in Tokens
      /\ order \in Seq(Packets) /\ Len(order) \in Nat
      /\ WindowOK(local[p], order) /\ AckOK(local[p])
      /\ tokenFor(p).seq_num = Len(order) - 1
  BY RingTypes DEF Taken
<1>2. PICK q \in Int, a \in Int :
        q = tokenFor(p).seq_num /\ a = tokenFor(p).ack /\ q = Len(order) - 1 /\ q >= -1
  BY <1>1 DEF Tokens
<1>3. PICK last \in Int : /\ last = IF local[p].previous_ack <= a
                                    THEN local[p].previous_ack ELSE a
                          /\ last <= local[p].previous_ack /\ last <= a
  BY <1>1 DEF LocalStates
<1>4. slid = deliverTo(local[p], last)
  BY <1>2, <1>3 DEF slideGlobalWindow, Taken
<1>5. /\ slid \in LocalStates /\ WindowOK(slid, order) /\ AckOK(slid)
      /\ slid.window_start = IF last < local[p].window_start
                             THEN local[p].window_start ELSE last + 1
      /\ window_end(slid) >= window_end(local[p])
      /\ \A i \in slid.window_start .. window_end(local[p]) :
           received(local[p], i) => received(slid, i)
      /\ slid.num_built = local[p].num_built
      /\ slid.num_sent = local[p].num_sent
      /\ slid.previous_token = local[p].previous_token
  BY <1>1, <1>3, <1>4, DeliverTo
<1>6. /\ ms \in Seq(Packets)
      /\ \A k \in 1 .. Len(ms) : /\ ms[k].seq_num = Len(order) - 1 + k
                                 /\ Len(order) - 1 + k <= window_end(slid)
      /\ slid.num_sent <= slid.num_built => slid.num_sent + Len(ms) <= slid.num_built
  <2>1. ms = toSend(p, slid, q)
    BY <1>2 DEF Taken
  <2>2. /\ ms \in Seq(Packets)
        /\ \A k \in 1 .. Len(ms) : /\ ms[k].seq_num = q + k
                                   /\ q + k <= window_end(slid)
        /\ slid.num_sent <= slid.num_built => slid.num_sent + Len(ms) <= slid.num_built
    BY <1>2, <1>5, <2>1, ToSend
  <2> QED
    BY <1>2, <2>2
<1>7. sent = sendPackets(slid, ms)
  BY DEF Taken
<1>8. /\ sent.num_built = slid.num_built /\ sent.num_sent = slid.num_sent + Len(ms)
      /\ sent.window_start = slid.window_start
      /\ sent.previous_token = slid.previous_token
      /\ \A i \in Int : received(slid, i) => received(sent, i)
      /\ \A k \in 1 .. Len(ms) : received(sent, Len(order) - 1 + k)
  <2>1. slid \in LocalStates /\ WindowOK(slid, order) /\ AckOK(slid)
    BY <1>5
  <2>2. /\ ms \in Seq(Packets)
        /\ \A k \in 1 .. Len(ms) : /\ ms[k].seq_num = Len(order) - 1 + k
                                   /\ Len(order) - 1 + k <= window_end(slid)
    BY <1>6
  <2> QED
    BY <1>1, <2>1, <2>2, <1>7, SendPackets
<1>9. window_end(sent) = window_end(slid)
  BY <1>8 DEF window_end
<1>10. \A n \in local[p].window_start .. sent.window_start - 1 : n <= tokenFor(p).ack
  <2>1. PICK w \in Nat : w = local[p].window_start
    BY <1>1 DEF LocalStates
  <2>2. \A n \in w .. sent.window_start - 1 : n <= last
    BY <1>5, <1>8, <2>1
  <2> QED
    BY <1>2, <1>3, <2>1, <2>2
<1>11. \A i \in sent.window_start .. window_end(local[p]) :
          received(local[p], i) => received(sent, i)
  BY <1>5, <1>8
<1> QED
  BY <1>5, <1>6, <1>8, <1>9, <1>10, <1>11

(* A step that grows the order by ms, puts only packets of the new order   *)
(* on the way and leaves every machine right keeps what lies where.        *)
LEMMA PlacedStep ==
    ASSUME RingInv, NEW ms \in Seq(Packets), order' = order \o ms,
           NEW sets, net' \subseteq net \cup (Machines \X sets),
           \A m \in sets : Placed(m, order'),
           local' \in [Machines -> LocalStates],
           losses' \in 0 .. MaxLoss, FINsent' \in BOOLEAN,
           \A p \in Machines : WindowOK(local'[p], order') /\ AckOK(local'[p])
    PROVE  (TypeOK /\ PacketsPlaced /\ WindowsOK)'
<1>1. order \in Seq(Packets) /\ net \subseteq Machines \X Packets
  BY DEF RingInv, TypeOK
<1>2. order' \in Seq(Packets)
  BY <1>1
<1>3. \A pm \in net : Placed(pm[2], order')
  BY <1>1, PlacedStays DEF RingInv, PacketsPlaced
<1>4. \A pm \in net' : Placed(pm[2], order')
  BY <1>3
<1>5. net' \subseteq Machines \X Packets
  <2>1. sets \subseteq Packets
    BY DEF Placed
  <2> QED
    BY <1>1, <2>1
<1> QED
  BY <1>2, <1>4, <1>5 DEF TypeOK, PacketsPlaced, WindowsOK

LEMMA StartInv ==
    ASSUME RingInv, NEW p \in Machines, Start(p)
    PROVE  RingInv'
<1>1. /\ local[p] \in LocalStates /\ local \in [Machines -> LocalStates]
      /\ order \in Seq(Packets) /\ Len(order) \in Nat
      /\ losses \in 0 .. MaxLoss /\ FINsent \in BOOLEAN
      /\ WindowOK(local[p], order) /\ AckOK(local[p])
  BY RingTypes DEF RingInv, TypeOK
<1> DEFINE started == [local[p] EXCEPT !.state = "RUNNING"]
<1>2. PICK s \in LocalStates : s = started
  BY <1>1 DEF LocalStates, States
<1>3. /\ s.state = "RUNNING" /\ s.previous_token = local[p].previous_token
      /\ WindowOK(s, order) /\ AckOK(s)
  <2>1. /\ s.window_start = local[p].window_start /\ s.packets = local[p].packets
        /\ s.file = local[p].file /\ s.previous_ack = local[p].previous_ack
        /\ s.state = "RUNNING" /\ s.previous_token = local[p].previous_token
    BY <1>1, <1>2 DEF LocalStates
  <2> QED
    BY <1>1, <2>1, SameWindow
<1>4. CASE p = 1
  <2> DEFINE packets == toSend(p, started, -1)
             number == Len(packets) - 1
             token == buildToken(sendPackets(started, packets), number, number, 1)
  <2>a. /\ local' = [local EXCEPT ![p] = token]
        /\ net' = net \cup (Machines \X {packets[k] : k \in DOMAIN packets})
        /\ order' = order \o packets /\ losses' = losses /\ FINsent' = FINsent
    BY <1>4 DEF Start, multicast
  <2>3. PICK ms : ms = toSend(p, s, -1) /\ ms = packets
    BY <1>2
  <2>5. PICK sent : sent = sendPackets(s, ms)
    OBVIOUS
  <2>9. PICK x : x = token /\ x = buildToken(sent, Len(ms) - 1, Len(ms) - 1, 1)
    BY <1>2, <2>3, <2>5
  <2> HIDE DEF token, number, packets, started
  <2>11. /\ local' = [local EXCEPT ![p] = x]
         /\ net' = net \cup (Machines \X {ms[k] : k \in DOMAIN ms})
         /\ order' = order \o ms /\ losses' = losses /\ FINsent' = FINsent
    BY <2>a, <2>3, <2>9
  <2>1. order = <<>> /\ \A q \in Machines : ~ local[q].previous_token.sent
    BY <1>4 DEF Start, RingInv, BeforeStart
  <2>2. Len(order) = 0 /\ \A os \in Seq(Packets) : order \o os = os
    BY <2>1, ConcatEmptySeq, EmptySeq

  <2>4. /\ ms \in Seq(Packets) /\ Len(ms) \in Nat
        /\ \A k \in 1 .. Len(ms) : /\ ms[k].seq_num = Len(order) - 1 + k
                                   /\ Len(order) - 1 + k <= window_end(s)
    <3>1. PICK q \in Int : q = -1 /\ q >= -1
      OBVIOUS
    <3>2. ms = toSend(p, s, q)
      BY <2>3, <3>1
    <3>3. /\ ms \in Seq(Packets)
          /\ \A k \in 1 .. Len(ms) : ms[k].seq_num = q + k /\ q + k <= window_end(s)
      BY <3>1, <3>2, ToSend
    <3> QED
      BY <2>2, <3>1, <3>3

  <2>6. /\ sent \in LocalStates /\ WindowOK(sent, order \o ms)
        /\ sent.state = "RUNNING" /\ sent.window_start = s.window_start
        /\ \A k \in 1 .. Len(ms) : /\ received(sent, Len(order) - 1 + k)
                                   /\ Placed(ms[k], order \o ms)
    BY <1>1, <1>3, <2>4, <2>5, SendPackets
  <2>7. PICK last \in Int : last = Len(ms) - 1
    BY <2>4
  <2>8. last <= window_end(sent) /\ \A i \in sent.window_start .. last : received(sent, i)
    <3>1. s.window_start = 0
      <4>1. PICK n \in Nat : n = s.window_start
        BY DEF LocalStates
      <4>2. n <= Len(order)
        BY <1>3, <4>1 DEF WindowOK
      <4> QED
        BY <2>2, <4>1, <4>2
    <3>2. window_end(sent) = WINDOW_SIZE - 1 /\ window_end(s) = WINDOW_SIZE - 1
      BY <2>6, <3>1 DEF window_end
    <3>3. last <= window_end(sent)
      <4>1. CASE Len(ms) = 0
        BY <4>1, <2>7, <3>2
      <4>2. CASE Len(ms) # 0
        <5>1. Len(ms) \in 1 .. Len(ms)
          BY <2>4, <4>2
        <5>2. 0 - 1 + Len(ms) <= window_end(s)
          BY <2>2, <2>4, <5>1
        <5> QED
          BY <2>4, <2>7, <3>2, <5>2
      <4> QED
        BY <4>1, <4>2
    <3>4. ASSUME NEW i \in 0 .. last
          PROVE  received(sent, i)
      <4>1. PICK k \in 1 .. Len(ms) : 0 - 1 + k = i
        <5>1. i + 1 \in 1 .. Len(ms) /\ 0 - 1 + (i + 1) = i
          BY <2>4, <2>7
        <5> QED
          BY <5>1
      <4> QED
        BY <2>2, <2>6, <4>1
    <3> QED
      BY <2>6, <3>1, <3>3, <3>4

  <2>10. /\ x \in LocalStates /\ WindowOK(x, order \o ms) /\ AckOK(x)
         /\ x.state = "RUNNING" /\ x.previous_token.seq_num = last
    <3>0. order \o ms \in Seq(Packets) /\ 1 \in Nat
      BY <1>1, <2>4
    <3>1. PICK os \in Seq(Packets), r \in Nat : os = order \o ms /\ r = 1
      BY <3>0, Zenon
    <3>2. WindowOK(sent, os) /\ sent \in LocalStates /\ x = buildToken(sent, last, last, r)
      BY <2>6, <2>7, <2>9, <3>1
    <3>3. /\ x \in LocalStates /\ WindowOK(x, os) /\ AckOK(x)
          /\ x.state = sent.state /\ x.previous_token.seq_num = last
      BY <2>7, <2>8, <3>2, BuildToken, SMTT(30)
    <3> QED
      BY <2>6, <3>1, <3>3
  <2>12. local' \in [Machines -> LocalStates]
    BY <1>1, <2>10, <2>11
  <2>13. \A q \in Machines : WindowOK(local'[q], order') /\ AckOK(local'[q])
    <3>1. \A q \in Machines : WindowOK(local[q], order') /\ AckOK(local[q])
      BY <1>1, <2>4, <2>11, PlacedStays DEF RingInv, WindowsOK
    <3> QED
      BY <1>1, <2>10, <2>11, <3>1
  <2>14. (TypeOK /\ PacketsPlaced /\ WindowsOK)'
    <3>1. \A m \in {ms[k] : k \in DOMAIN ms} : Placed(m, order')
      <4>1. DOMAIN ms = 1 .. Len(ms)
        BY <2>4
      <4> QED
        BY <2>6, <2>11, <4>1
    <3>2. net' \subseteq net \cup (Machines \X {ms[k] : k \in DOMAIN ms})
      BY <2>11
    <3>3. losses' \in 0 .. MaxLoss /\ FINsent' \in BOOLEAN
      BY <1>1, <2>11
    <3> QED
      BY <2>4, <2>11, <2>12, <2>13, <3>1, <3>2, <3>3, PlacedStep, Zenon
  <2>15. BeforeStart'
    BY <1>1, <1>4, <2>10, <2>11 DEF BeforeStart
  <2>16. OneHolder'
    <3>1. ASSUME NEW q \in Machines, fresh(q)'
          PROVE  previous(q) = 1 /\ tokenFor(q)'.seq_num = Len(order') - 1
      <4>1. previous(q) \in Machines /\ local'[previous(q)].previous_token.sent
        BY <3>1, PreviousInjective DEF fresh, arrives, tokenFor
      <4>2. previous(q) = 1
        BY <4>1, <1>1, <1>4, <2>1, <2>11
      <4>3. tokenFor(q)'.seq_num = last
        BY <4>2, <1>1, <1>4, <2>10, <2>11 DEF tokenFor
      <4>4. Len(order') = Len(ms)
        BY <2>2, <2>4, <2>11
      <4> QED
        BY <2>7, <4>2, <4>3, <4>4
    <3> QED
      BY <3>1, PreviousInjective DEF OneHolder
  <2> QED
    BY <2>14, <2>15, <2>16 DEF RingInv
<1>5. CASE p # 1
  <2>1. /\ local' = [local EXCEPT ![p] = s]
        /\ net' = net /\ order' = order /\ losses' = losses /\ FINsent' = FINsent
    BY <1>2, <1>5 DEF Start
  <2>2. local' \in [Machines -> LocalStates] /\ local'[1] = local[1]
        /\ \A q \in Machines : local'[q].previous_token = local[q].previous_token
    BY <1>1, <1>3, <1>5, <2>1, PreviousInjective
  <2>3. \A q \in Machines : WindowOK(local'[q], order) /\ AckOK(local'[q])
    BY <1>1, <1>3, <2>1 DEF RingInv, WindowsOK
  <2>4. TypeOK' /\ PacketsPlaced' /\ WindowsOK'
    BY <2>1, <2>2, <2>3 DEF RingInv, TypeOK, PacketsPlaced, WindowsOK
  <2>5. BeforeStart'
    BY <2>1, <2>2 DEF RingInv, BeforeStart
  <2>6. \A q \in Machines : tokenFor(q)' = tokenFor(q) /\ fresh(q)' = fresh(q)
    BY <2>2, PreviousInjective DEF fresh, arrives, tokenFor
  <2>7. OneHolder'
    BY <2>1, <2>6 DEF RingInv, OneHolder
  <2> QED
    BY <2>4, <2>5, <2>7 DEF RingInv
<1> QED
  BY <1>4, <1>5

(* The parts of the invariant about tokens look only at the order, the     *)
(* tokens and the phase of machine 1.                                      *)
LEMMA SameTokens ==
    ASSUME RingInv, order' = order,
           \A q \in Machines : local'[q].previous_token = local[q].previous_token,
           local'[1].state = "WAITING_START" => local[1].state = "WAITING_START"
    PROVE  BeforeStart' /\ OneHolder'
<1>1. BeforeStart'
  BY DEF RingInv, BeforeStart
<1>2. \A q \in Machines : tokenFor(q)' = tokenFor(q) /\ fresh(q)' = fresh(q)
  BY PreviousInjective DEF fresh, arrives, tokenFor
<1>3. OneHolder'
  BY <1>2 DEF RingInv, OneHolder
<1> QED
  BY <1>1, <1>3

(* ReceiveToken picks the stages.                                          *)
LEMMA ReceiveTokenStages ==
    ASSUME NEW p \in Machines, ReceiveToken(p)
    PROVE  \E slid, ms, sent, new, done, x :
             /\ Taken(p, slid, ms, sent, new, done, x)
             /\ local' = ranked([local EXCEPT ![p] = x])
             /\ net' = net \cup (Machines \X (resendNaks(local[p], tokenFor(p))
                                                \cup {ms[k] : k \in DOMAIN ms}))
             /\ FINsent' = (FINsent \/ ends(p, local[p], tokenFor(p), new))
             /\ order' = order \o ms
             /\ losses' = losses
<1> DEFINE s == local[p]
           t == tokenFor(p)
<1>1. PICK slid, ms, sent, new, done :
        /\ running(p) /\ fresh(p)
        /\ slid = slideGlobalWindow(s, t.ack)
        /\ ms = toSend(p, slid, t.seq_num)
        /\ sent = sendPackets(slid, ms)
        /\ new = buildToken(sent, t.seq_num + Len(ms),
                            getNewAck(sent, t.ack, t.seq_num), t.rand_num + 1)
        /\ done = marked(p, s, t, new)
        /\ local' = ranked([local EXCEPT ![p] = IF done.state = "FINISHED" THEN done
                                                ELSE craftPackets(p, done)])
        /\ multicast(resendNaks(s, t) \cup {ms[k] : k \in DOMAIN ms})
        /\ FINsent' = (FINsent \/ ends(p, s, t, new))
        /\ order' = order \o ms
        /\ UNCHANGED losses
  BY Zenon DEF ReceiveToken
<1>2. PICK x : x = IF done.state = "FINISHED" THEN done ELSE craftPackets(p, done)
  OBVIOUS
<1>3. Taken(p, slid, ms, sent, new, done, x)
  BY <1>1, <1>2 DEF Taken
<1>4. local' = ranked([local EXCEPT ![p] = x])
  BY <1>1, <1>2
<1>5. /\ net' = net \cup (Machines \X (resendNaks(s, t) \cup {ms[k] : k \in DOMAIN ms}))
      /\ FINsent' = (FINsent \/ ends(p, s, t, new))
      /\ order' = order \o ms
      /\ losses' = losses
  BY <1>1 DEF multicast
<1> QED
  BY <1>3, <1>4, <1>5

LEMMA ReceiveTokenInv ==
    ASSUME RingInv, NEW p \in Machines, ReceiveToken(p)
    PROVE  RingInv'
<1>1. PICK slid, ms, sent, new, done, x :
        /\ Taken(p, slid, ms, sent, new, done, x)
        /\ local' = ranked([local EXCEPT ![p] = x])
        /\ net' = net \cup (Machines \X (resendNaks(local[p], tokenFor(p))
                                           \cup {ms[k] : k \in DOMAIN ms}))
        /\ FINsent' = (FINsent \/ ends(p, local[p], tokenFor(p), new))
        /\ order' = order \o ms
        /\ losses' = losses
  BY ReceiveTokenStages
<1>2. /\ ms \in Seq(Packets) /\ DOMAIN ms = 1 .. Len(ms)
      /\ \A k \in 1 .. Len(ms) : Placed(ms[k], order \o ms)
  BY <1>1, TakenWindow
<1>3. /\ x \in LocalStates /\ x.state # "WAITING_START"
      /\ WindowOK(x, order \o ms) /\ AckOK(x)
      /\ x.previous_token.seq_num = Len(order \o ms) - 1
      /\ x.previous_token.rand_num = tokenFor(p).rand_num + 1
  BY <1>1, TakenToken
<1>4. /\ local \in [Machines -> LocalStates] /\ order \in Seq(Packets)
      /\ losses \in 0 .. MaxLoss /\ FINsent \in BOOLEAN
  BY DEF RingInv, TypeOK
<1>5. PICK l : l = [local EXCEPT ![p] = x]
  OBVIOUS
<1>6. l \in [Machines -> LocalStates] /\ l[p] = x
      /\ \A q \in Machines : q # p => l[q] = local[q]
  BY <1>3, <1>4, <1>5
<1>7. local' = ranked(l) /\ local' \in [Machines -> LocalStates]
  BY <1>1, <1>5, <1>6, Ranked
<1>8. PICK least \in Nat : \A q \in Machines : SameButRank(local'[q], l[q], least)
  BY <1>6, <1>7, Ranked
<1>9. (TypeOK /\ PacketsPlaced /\ WindowsOK)'
  <2>1. \A q \in Machines : WindowOK(l[q], order') /\ AckOK(l[q])
    <3>1. \A q \in Machines : WindowOK(local[q], order') /\ AckOK(local[q])
      BY <1>1, <1>2, <1>4, PlacedStays DEF RingInv, WindowsOK
    <3> QED
      BY <1>1, <1>3, <1>6, <3>1
  <2>2. \A q \in Machines : WindowOK(local'[q], order') /\ AckOK(local'[q])
    BY <1>8, <2>1, SameWindow DEF SameButRank
  <2> DEFINE sets == resendNaks(local[p], tokenFor(p)) \cup {ms[k] : k \in DOMAIN ms}
  <2>3. ASSUME NEW m \in sets
        PROVE  Placed(m, order')
    <3>1. CASE m \in {ms[k] : k \in DOMAIN ms}
      BY <1>1, <1>2, <3>1
    <3>2. CASE m \in resendNaks(local[p], tokenFor(p))
      <4>1. PICK n \in tokenFor(p).nak : /\ received(local[p], n)
                                         /\ m = local[p].packets[n % WINDOW_SIZE]
        BY <3>2 DEF resendNaks
      <4>2. n \in Int
        BY <4>1, RingTypes DEF Tokens
      <4>3. n % WINDOW_SIZE \in Slots
        BY <4>2, SlotOf, Zenon
      <4>4. Placed(m, order)
        BY <4>1, <4>3, RingTypes DEF received, WindowOK
      <4> QED
        BY <4>4, <1>1, <1>2, <1>4, PlacedStays
    <3> QED
      BY <3>1, <3>2
  <2>4. net' = net \cup (Machines \X sets)
    BY <1>1
  <2> HIDE DEF sets
  <2>5. net' \subseteq net \cup (Machines \X sets) /\ \A m \in sets : Placed(m, order')
    BY <2>3, <2>4
  <2>6. losses' \in 0 .. MaxLoss /\ FINsent' \in BOOLEAN
    BY <1>1, <1>4 DEF ends, finishes
  <2> QED
    BY <1>1, <1>2, <1>7, <2>2, <2>5, <2>6, PlacedStep, Zenon
<1>10. BeforeStart'
  <2>1. local[1].state # "WAITING_START"
    BY <1>1, RingTypes DEF Taken
  <2> QED
    BY <1>3, <1>6, <1>8, <2>1, PreviousInjective DEF BeforeStart, SameButRank
<1>11. OneHolder'
  <2>1. ASSUME NEW q \in Machines, fresh(q)'
        PROVE  previous(q) = p /\ tokenFor(q)'.seq_num = Len(order') - 1
    <3>0. previous(q) \in Machines /\ previous(p) \in Machines
      BY PreviousInjective
    <3>1. previous(q) = p
      <4>1. SUFFICES ASSUME previous(q) # p
                     PROVE  FALSE
        OBVIOUS
      <4>2. /\ tokenFor(q).sent /\ tokenFor(q).type = "TOKEN"
            /\ tokenFor(q).rand_num > l[q].previous_token.rand_num
        <5>1. l[previous(q)] = local[previous(q)]
          BY <1>6, <3>0, <4>1
        <5>2. PICK a \in Nat, b \in Nat : a = tokenFor(q).rand_num /\ b = l[q].previous_token.rand_num
          BY <1>8, <3>0, <5>1 DEF tokenFor, SameButRank
        <5>3. a - least > b - least
          BY <2>1, <1>8, <3>0, <5>1, <5>2 DEF fresh, arrives, tokenFor, SameButRank
        <5>4. tokenFor(q).sent /\ tokenFor(q).type = "TOKEN"
          BY <2>1, <1>8, <3>0, <5>1 DEF fresh, arrives, tokenFor, SameButRank
        <5> QED
          BY <5>2, <5>3, <5>4
      <4>3. CASE q = p
        <5>1. PICK a \in Nat : a = tokenFor(p).rand_num
          BY RingTypes DEF Tokens
        <5> QED
          BY <1>3, <1>6, <4>2, <4>3, <5>1
      <4>4. CASE q # p
        <5>1. fresh(q) /\ fresh(p)
          BY <1>1, <1>6, <4>2, <4>4 DEF fresh, arrives, Taken
        <5>2. previous(q) = previous(p)
          BY <5>1 DEF RingInv, OneHolder
        <5> QED
          BY <4>4, <5>2, PreviousInjective
      <4> QED
        BY <4>3, <4>4
    <3>2. tokenFor(q)'.seq_num = x.previous_token.seq_num
      BY <1>6, <1>8, <3>0, <3>1 DEF tokenFor, SameButRank
    <3> QED
      BY <1>1, <1>3, <3>1, <3>2
  <2> QED
    BY <2>1 DEF OneHolder
<1> QED
  BY <1>9, <1>10, <1>11 DEF RingInv

LEMMA ReceiveDataInv ==
    ASSUME RingInv, NEW p \in Machines, NEW m \in Packets, ReceiveData(p, m)
    PROVE  RingInv'
<1>1. /\ local \in [Machines -> LocalStates] /\ local[p] \in LocalStates
      /\ net \subseteq Machines \X Packets
      /\ losses \in 0 .. MaxLoss /\ FINsent \in BOOLEAN /\ order \in Seq(Packets)
      /\ WindowOK(local[p], order) /\ AckOK(local[p])
  BY RingTypes DEF RingInv, TypeOK
<1>2. /\ <<p, m>> \in net /\ net' = net \ {<<p, m>>}
      /\ order' = order /\ losses' = losses /\ FINsent' = FINsent
      /\ \/ local' = local
         \/ local' = [local EXCEPT ![p] = processDataPacket(local[p], m)]
  BY DEF ReceiveData
<1>3. Placed(m, order) /\ m.seq_num \in Nat
  BY <1>2 DEF RingInv, PacketsPlaced, Packets
<1>4. PICK u : u = processDataPacket(local[p], m)
  OBVIOUS
<1>5. /\ u \in LocalStates /\ WindowOK(u, order) /\ AckOK(u)
      /\ u.previous_token = local[p].previous_token /\ u.state = local[p].state
  <2>1. CASE u = local[p]
    BY <2>1, <1>1
  <2>2. CASE /\ m.seq_num \in local[p].window_start .. window_end(local[p])
             /\ u = [local[p] EXCEPT !.packets[m.seq_num % WINDOW_SIZE] = m]
    <3>1. PICK pk \in [Slots -> Packets \cup {NoPacket}] :
            pk = [local[p].packets EXCEPT ![m.seq_num % WINDOW_SIZE] = m]
      BY <1>1 DEF LocalStates
    <3>2. u = [local[p] EXCEPT !.packets = pk]
      BY <2>2, <3>1
    <3>3. /\ u \in LocalStates /\ u.packets = pk /\ u.file = local[p].file
          /\ u.window_start = local[p].window_start
          /\ u.previous_ack = local[p].previous_ack
          /\ u.previous_token = local[p].previous_token /\ u.state = local[p].state
      BY <1>1, <3>2 DEF LocalStates
    <3>4. \A i \in Slots : pk[i] = IF i = m.seq_num % WINDOW_SIZE THEN m
                                   ELSE local[p].packets[i]
      BY <1>1, <3>1 DEF LocalStates
    <3>5. window_end(u) = window_end(local[p])
      BY <3>3 DEF window_end
    <3>6. WindowOK(u, order)
      BY <1>1, <1>3, <2>2, <3>3, <3>4, <3>5 DEF WindowOK
    <3>7. m # NoPacket
      BY <1>3 DEF NoPacket
    <3>8. \A i \in Slots : local[p].packets[i] # NoPacket => pk[i] # NoPacket
      BY <3>4, <3>7
    <3>9. AckOK(u)
      <4>1. ASSUME NEW i \in local[p].window_start .. local[p].previous_ack
            PROVE  received(u, i)
        <5>1. i \in Int /\ received(local[p], i)
          BY <1>1 DEF LocalStates, AckOK
        <5>2. i % WINDOW_SIZE \in Slots
          BY <5>1, SlotOf, Zenon
        <5> QED
          BY <3>3, <3>8, <5>1, <5>2 DEF received
      <4> QED
        BY <1>1, <3>3, <3>5, <4>1 DEF AckOK
    <3> QED
      BY <3>3, <3>6, <3>9
  <2> QED
    <3>1. PICK a \in Nat, n \in Nat, e \in Int :
            a = local[p].window_start /\ n = m.seq_num /\ e = window_end(local[p])
      BY <1>1, <1>3 DEF LocalStates, window_end
    <3>2. ~ (n < a \/ n > e) => n \in a .. e
      BY <3>1
    <3> QED
      BY <1>4, <2>1, <2>2, <3>1, <3>2 DEF processDataPacket
<1>6. /\ local' \in [Machines -> LocalStates]
      /\ \A q \in Machines : /\ WindowOK(local'[q], order) /\ AckOK(local'[q])
                             /\ local'[q].previous_token = local[q].previous_token
                             /\ local'[q].state = local[q].state
  BY <1>1, <1>2, <1>4, <1>5 DEF RingInv, WindowsOK
<1>7. TypeOK' /\ PacketsPlaced' /\ WindowsOK'
  BY <1>1, <1>2, <1>6 DEF RingInv, TypeOK, PacketsPlaced, WindowsOK
<1>8. BeforeStart' /\ OneHolder'
  BY <1>2, <1>6, PreviousInjective, SameTokens
<1> QED
  BY <1>7, <1>8 DEF RingInv

LEMMA RingStep ==
    ASSUME RingInv, [Next]_vars
    PROVE  RingInv'
<1>0. /\ local \in [Machines -> LocalStates] /\ net \subseteq Machines \X Packets
      /\ losses \in 0 .. MaxLoss /\ FINsent \in BOOLEAN /\ order \in Seq(Packets)
  BY DEF RingInv, TypeOK
<1>1. ASSUME NEW p \in Machines, Start(p)
      PROVE  RingInv'
  BY <1>1, StartInv
<1>2. ASSUME NEW p \in Machines, ReceiveToken(p)
      PROVE  RingInv'
  BY <1>2, ReceiveTokenInv
<1>3. ASSUME NEW p \in Machines, ReceiveFIN(p)
      PROVE  RingInv'
  <2>1. /\ local' = [local EXCEPT ![p] = [local[p] EXCEPT !.state = "EXITED"]]
        /\ net' = net /\ losses' = losses /\ FINsent' = FINsent /\ order' = order
    BY <1>3 DEF ReceiveFIN
  <2>2. PICK u \in LocalStates : u = [local[p] EXCEPT !.state = "EXITED"]
    BY <1>0 DEF LocalStates, States
  <2>3. /\ u.state = "EXITED" /\ u.previous_token = local[p].previous_token
        /\ u.window_start = local[p].window_start /\ u.packets = local[p].packets
        /\ u.file = local[p].file /\ u.previous_ack = local[p].previous_ack
    BY <1>0, <2>2 DEF LocalStates
  <2>4. WindowOK(u, order) /\ AckOK(u)
    BY <2>3, SameWindow DEF RingInv, WindowsOK
  <2>5. /\ local' \in [Machines -> LocalStates]
        /\ \A q \in Machines : /\ WindowOK(local'[q], order) /\ AckOK(local'[q])
                               /\ local'[q].previous_token = local[q].previous_token
                               /\ local'[q].state = local[q].state \/ local'[q].state = "EXITED"
    BY <1>0, <2>1, <2>2, <2>3, <2>4 DEF RingInv, WindowsOK
  <2>6. TypeOK' /\ PacketsPlaced' /\ WindowsOK'
    BY <1>0, <2>1, <2>5 DEF RingInv, TypeOK, PacketsPlaced, WindowsOK
  <2>7. BeforeStart' /\ OneHolder'
    BY <2>1, <2>5, PreviousInjective, SameTokens
  <2> QED
    BY <2>6, <2>7 DEF RingInv
<1>4. ASSUME NEW pm \in net, ReceiveData(pm[1], pm[2])
      PROVE  RingInv'
  BY <1>0, <1>4, ReceiveDataInv
<1>5. ASSUME NEW pm \in net, Lose(pm[1], pm[2])
      PROVE  RingInv'
  <2>1. /\ net' \subseteq net /\ losses' \in 0 .. MaxLoss
        /\ local' = local /\ FINsent' = FINsent /\ order' = order
    BY <1>0, <1>5 DEF Lose
  <2>2. TypeOK' /\ PacketsPlaced' /\ WindowsOK'
    BY <1>0, <2>1 DEF RingInv, TypeOK, PacketsPlaced, WindowsOK
  <2>3. BeforeStart' /\ OneHolder'
    BY <2>1, SameTokens
  <2> QED
    BY <2>2, <2>3 DEF RingInv
<1>6. CASE UNCHANGED vars
  BY <1>6 DEF vars, RingInv, TypeOK, PacketsPlaced, WindowsOK, BeforeStart, OneHolder,
     fresh, arrives, tokenFor
<1> QED
  BY <1>1, <1>2, <1>3, <1>4, <1>5, <1>6 DEF Next

-----------------------------------------------------------------------------
LEMMA RingInvariant == Spec => []RingInv
<1>1. RingInv /\ [Next]_vars => RingInv'
  BY RingStep
<1> QED
  BY RingInit, <1>1, PTL DEF Spec

(* The types of TokenRing, whatever is lost, delayed or sent again: no     *)
(* empty slot is ever written to a file (slideGlobalWindow), and no CHOOSE *)
(* of craftPackets or getConsecutiveAck is without a value.                *)
THEOREM TypeCorrect == Spec => []TypeOK
<1>1. RingInv => TypeOK
  BY DEF RingInv
<1> QED
  BY RingInvariant, <1>1, PTL

(* At most one machine can take a token (processToken discards what is not *)
(* fresh), on every ring.                                                  *)
THEOREM TokenAlwaysUnique == Spec => []TokenUnique
<1>1. ASSUME RingInv
      PROVE  TokenUnique
  <2>1. PICK h \in Machines : \A p \in Machines : fresh(p) => previous(p) = h
    BY <1>1 DEF RingInv, OneHolder
  <2>2. CASE {p \in Machines : fresh(p)} = {}
    BY <2>2, FS_EmptySet DEF TokenUnique
  <2>3. CASE {p \in Machines : fresh(p)} # {}
    <3>1. PICK p \in Machines : fresh(p)
      BY <2>3
    <3>2. {q \in Machines : fresh(q)} = {p}
      BY <2>1, <3>1, PreviousInjective
    <3>3. Cardinality({p}) = 1
      BY FS_Singleton, Zenon
    <3> QED
      BY <3>2, <3>3 DEF TokenUnique
  <2> QED
    BY <2>2, <2>3
<1> QED
  BY RingInvariant, <1>1, PTL

(* Every step of the ring appends to the one order or lets one machine     *)
(* write the next packets of it, or neither.                               *)
LEMMA OrderStep ==
    ASSUME RingInv, [Next]_vars
    PROVE  [TO!Next]_(TO!vars)
<1> DEFINE file == [q \in Machines |-> local[q].file]
<1>0. /\ local \in [Machines -> LocalStates] /\ order \in Seq(Packets) /\ Len(order) \in Nat
      /\ local' \in [Machines -> LocalStates]
  BY RingStep DEF RingInv, TypeOK
<1>a. ASSUME order' = order, \A q \in Machines : local'[q].file = local[q].file
      PROVE  TO!vars' = TO!vars
  <2>1. file' = file
    BY <1>a
  <2> QED
    BY <1>a, <2>1 DEF TO!vars
<1>b. ASSUME NEW p \in Machines, NEW ms \in Seq(Packets), order' = order \o ms,
             NEW n \in local[p].window_start .. Len(order),
             \A q \in Machines : local'[q].file = IF q = p THEN SubSeq(order, 1, n)
                                                  ELSE local[q].file
      PROVE  TO!Next
  <2>1. order' \in Seq(Packets) /\ TO!IsPrefix(order, order')
    <3>1. /\ order' \in Seq(Packets)
          /\ Len(order') = Len(order) + Len(ms) /\ Len(ms) \in Nat
          /\ \A i \in 1 .. Len(order) : order'[i] = order[i]
      BY <1>0, <1>b
    <3>2. SubSeq(order, 1, Len(order)) = SubSeq(order', 1, Len(order))
      BY <1>0, <3>1
    <3> QED
      BY <1>0, <3>1, <3>2 DEF TO!IsPrefix
  <2>2. file' = [file EXCEPT ![p] = SubSeq(order, 1, n)]
    BY <1>b
  <2>3. n \in Len(file[p]) .. Len(order)
    <3>1. /\ local[p].file = SubSeq(order, 1, local[p].window_start)
          /\ local[p].window_start \in Nat /\ local[p].window_start <= Len(order)
      BY <1>0 DEF RingInv, WindowsOK, WindowOK, LocalStates
    <3>2. Len(local[p].file) = local[p].window_start
      BY <1>0, <3>1
    <3> QED
      BY <3>2
  <2>4. TO!Step(p)
    BY <2>1, <2>2, <2>3 DEF TO!Step
  <2> QED
    BY <2>4 DEF TO!Next
<1>1. ASSUME NEW p \in Machines, Start(p)
      PROVE  [TO!Next]_(TO!vars)
  <2>1. CASE p = 1
    <3>1. order = <<>>
      BY <1>1, <2>1 DEF Start, RingInv, BeforeStart
    <3> DEFINE s == [local[p] EXCEPT !.state = "RUNNING"]
    <3>2. PICK ms : /\ ms = toSend(p, s, -1)
                    /\ order' = order \o ms
                    /\ local' = [local EXCEPT ![p] =
                                  buildToken(sendPackets(s, ms), Len(ms) - 1, Len(ms) - 1, 1)]
      BY <1>1, <2>1 DEF Start
    <3>3. local'[p].file = local[p].file
      BY <1>0, <3>2 DEF LocalStates, buildToken, sendPackets
    <3>4. ms \in Seq(Packets)
      <4>1. s \in LocalStates
        BY <1>0 DEF LocalStates, States
      <4>2. PICK u \in LocalStates, q \in Int : u = s /\ q = -1 /\ q >= -1
        BY <4>1
      <4> QED
        BY <3>2, <4>2, ToSend
    <3>5. /\ local[p].file = SubSeq(order, 1, 0) /\ 0 \in local[p].window_start .. Len(order)
      <4>1. PICK w \in Nat : w = local[p].window_start /\ w <= Len(order)
                             /\ local[p].file = SubSeq(order, 1, w)
        BY <1>0 DEF RingInv, WindowsOK, WindowOK, LocalStates
      <4>2. Len(order) = 0
        BY <3>1, EmptySeq
      <4> QED
        BY <4>1, <4>2
    <3>6. \A q \in Machines : local'[q].file = IF q = p THEN SubSeq(order, 1, 0)
                                               ELSE local[q].file
      BY <1>0, <3>2, <3>3, <3>5
    <3> QED
      BY <1>b, <3>2, <3>4, <3>5, <3>6
  <2>2. CASE p # 1
    <3>1. order' = order /\ local' = [local EXCEPT ![p] = [local[p] EXCEPT !.state = "RUNNING"]]
      BY <1>1, <2>2 DEF Start
    <3>2. \A q \in Machines : local'[q].file = local[q].file
      BY <1>0, <3>1 DEF LocalStates
    <3> QED
      BY <1>a, <3>1, <3>2
  <2> QED
    BY <2>1, <2>2
<1>2. ASSUME NEW p \in Machines, ReceiveToken(p)
      PROVE  [TO!Next]_(TO!vars)
  <2>1. PICK slid, ms, sent, new, done, x :
          /\ Taken(p, slid, ms, sent, new, done, x)
          /\ local' = ranked([local EXCEPT ![p] = x])
          /\ order' = order \o ms
    BY <1>2, ReceiveTokenStages
  <2>2. /\ ms \in Seq(Packets)
        /\ slid.window_start \in local[p].window_start .. Len(order)
        /\ slid.file = SubSeq(order, 1, slid.window_start)
    BY <2>1, TakenWindow
  <2>3. x \in LocalStates /\ x.file = slid.file
    BY <2>1, TakenToken
  <2>4. PICK l \in [Machines -> LocalStates] : l = [local EXCEPT ![p] = x]
    BY <1>0, <2>3
  <2>5. \A q \in Machines : ranked(l)[q].file = l[q].file
    BY Ranked DEF SameButRank
  <2>6. \A q \in Machines : local'[q].file = IF q = p THEN SubSeq(order, 1, slid.window_start)
                                             ELSE local[q].file
    BY <1>0, <2>1, <2>2, <2>3, <2>4, <2>5
  <2> QED
    BY <1>b, <2>1, <2>2, <2>6
<1>3. ASSUME NEW p \in Machines, NEW m, ReceiveData(p, m)
      PROVE  [TO!Next]_(TO!vars)
  <2>1. order' = order
        /\ \/ local' = local
           \/ local' = [local EXCEPT ![p] = processDataPacket(local[p], m)]
    BY <1>3 DEF ReceiveData
  <2>2. processDataPacket(local[p], m).file = local[p].file
    BY <1>0 DEF processDataPacket, LocalStates
  <2> QED
    BY <1>0, <1>a, <2>1, <2>2
<1>4. ASSUME NEW p \in Machines, ReceiveFIN(p)
      PROVE  [TO!Next]_(TO!vars)
  <2>1. order' = order /\ local' = [local EXCEPT ![p] = [local[p] EXCEPT !.state = "EXITED"]]
    BY <1>4 DEF ReceiveFIN
  <2>2. \A q \in Machines : local'[q].file = local[q].file
    BY <1>0, <2>1 DEF LocalStates
  <2> QED
    BY <1>a, <2>1, <2>2
<1>5. ASSUME NEW p, NEW m, Lose(p, m)
      PROVE  [TO!Next]_(TO!vars)
  BY <1>5, <1>a DEF Lose
<1>6. CASE UNCHANGED vars
  BY <1>6, <1>a DEF vars
<1>7. \A pm \in net : pm[1] \in Machines
  BY DEF RingInv, TypeOK
<1> QED
  BY <1>1, <1>2, <1>3, <1>4, <1>5, <1>6, <1>7 DEF Next

(* The ring implements the totally ordered multicast of TotalOrder: what   *)
(* slideGlobalWindow writes at any machine is the next part of one order.  *)
THEOREM RingImplementsTotalOrder == Spec => ImplementsTotalOrder
<1>1. Init => TO!Init
  <2>1. SUFFICES ASSUME Init
                 PROVE  order = <<>> /\ \A p \in Machines : local[p].file = <<>>
    BY DEF TO!Init
  <2>2. order = <<>> /\ RingInv
    BY <2>1, RingInit DEF Init
  <2>3. ASSUME NEW p \in Machines
        PROVE  local[p].file = <<>>
    <3>1. PICK w \in Nat : w <= Len(order) /\ local[p].file = SubSeq(order, 1, w)
      BY <2>2 DEF RingInv, TypeOK, LocalStates, WindowsOK, WindowOK
    <3>2. Len(order) = 0
      BY <2>2, EmptySeq
    <3>3. w = 0
      BY <3>1, <3>2
    <3> QED
      BY <3>1, <3>3, SubSeqEmpty
  <2> QED
    BY <2>2, <2>3
<1>2. RingInv /\ [Next]_vars => [TO!Next]_(TO!vars)
  BY OrderStep
<1> QED
  BY RingInvariant, <1>1, <1>2, PTL DEF Spec, ImplementsTotalOrder, TO!Spec

-----------------------------------------------------------------------------
(* The end of the ring: the shutdown count and what a FIN means.           *)

(* A machine never sends more than it built, counts itself finished only   *)
(* once, after it has sent all, and believes the ack of its own token.     *)
CountsOK(p, s) ==
    /\ s.num_sent <= s.num_built /\ s.num_built <= NumPackets[p]
    /\ s.state \in {"WAITING_START", "RUNNING"} => s.previous_token.num_shutdown = 0
    /\ s.previous_token.num_shutdown > 0 => s.num_sent = NumPackets[p]
    /\ s.previous_token.sent => s.previous_token.ack = s.previous_ack

Counts == \A p \in Machines : CountsOK(p, local[p])

(* The machines count themselves in the order of the ring.                 *)
InTurn ==
    \A p \in Machines :
        local[p].previous_token.num_shutdown >= 2 =>
            local[previous(p)].previous_token.num_shutdown
              = local[p].previous_token.num_shutdown - 1

AllCounted == \E p \in Machines : local[p].previous_token.num_shutdown = numProcesses

FinIsCounted == FINsent => AllCounted

ShutInv == Counts /\ InTurn /\ FinIsCounted

(* When one token has counted all machines, each counted itself: there are *)
(* not enough machines for the counts 1 to numProcesses and for a 0.       *)
LEMMA CountedAllSent ==
    ASSUME RingInv, ShutInv, AllCounted
    PROVE  \A p \in Machines : local[p].num_sent = NumPackets[p]
<1> DEFINE count(q) == local[q].previous_token.num_shutdown
           taken == {count(q) : q \in Machines}
<1>1. \A q \in Machines : count(q) \in Nat
  BY RingTypes DEF Tokens
<1>2. PICK n \in Nat \ {0} : n = numProcesses
  BY RingAssumption
<1>3. n \in taken
  BY <1>2 DEF AllCounted
<1>4. ASSUME NEW k \in 1 .. n, k \notin taken
      PROVE  FALSE
  <2> DEFINE gaps == {d \in 0 .. n : (n - d) \in 1 .. n /\ (n - d) \notin taken}
  <2>1. gaps \in SUBSET Nat /\ n - k \in gaps
    <3>1. n - k \in 0 .. n /\ n - (n - k) = k
      BY <1>4
    <3> QED
      BY <1>4, <3>1
  <2>2. PICK d \in gaps : \A e \in gaps : d <= e
    <3> HIDE DEF gaps
    <3> QED
      BY <2>1, Least
  <2>3. PICK j \in 1 .. n : j = n - d /\ j \notin taken
    BY <2>2
  <2>4. j < n
    BY <1>3, <2>3
  <2>5. j + 1 \in taken
    <3>1. n - (d - 1) = j + 1 /\ d - 1 \in 0 .. n /\ ~ (d <= d - 1)
      BY <2>2, <2>3, <2>4
    <3>2. d - 1 \notin gaps
      BY <2>2, <3>1
    <3> QED
      BY <3>1, <3>2, <2>3, <2>4
  <2>6. PICK q \in Machines : count(q) = j + 1
    BY <2>5
  <2>7. count(previous(q)) = j
    <3>1. count(q) >= 2
      BY <2>6
    <3>2. count(previous(q)) = count(q) - 1
      BY <3>1 DEF ShutInv, InTurn
    <3> QED
      BY <3>2, <2>6
  <2> QED
    BY <2>3, <2>7, PreviousInjective
<1>5. ASSUME NEW p \in Machines
      PROVE  count(p) > 0
  <2>1. SUFFICES ASSUME count(p) = 0
                 PROVE  FALSE
    BY <1>1
  <2>2. \A v \in 0 .. n : \E q \in Machines : count(q) = v
    BY <1>4, <2>1
  <2> HIDE DEF count
  <2>3. PICK g : g = [v \in 0 .. n |-> CHOOSE q \in Machines : count(q) = v]
    OBVIOUS
  <2>4. \A v \in 0 .. n : g[v] \in Machines /\ count(g[v]) = v
    BY <2>2, <2>3
  <2>5. g \in [0 .. n -> 1 .. n]
    BY <1>2, <2>3, <2>4 DEF Machines
  <2>6. \A v, w \in 0 .. n : g[v] = g[w] => v = w
    BY <2>4
  <2>7. /\ IsFiniteSet(0 .. n) /\ Cardinality(0 .. n) = n + 1
        /\ IsFiniteSet(1 .. n) /\ Cardinality(1 .. n) = n
    <3>1. 0 \in Int /\ 1 \in Int /\ n \in Int
      BY <1>2
    <3>2. /\ IsFiniteSet(0 .. n) /\ Cardinality(0 .. n) = IF 0 > n THEN 0 ELSE n - 0 + 1
          /\ IsFiniteSet(1 .. n) /\ Cardinality(1 .. n) = IF 1 > n THEN 0 ELSE n - 1 + 1
      BY <3>1, FS_Interval, Zenon
    <3> QED
      BY <3>2
  <2>8. Cardinality(1 .. n) < Cardinality(0 .. n)
    BY <2>7
  <2> QED
    BY <2>5, <2>6, <2>7, <2>8, FS_PigeonHole, Zenon
<1> QED
  BY <1>5 DEF ShutInv, Counts, CountsOK

LEMMA ShutInit == Init => ShutInv
<1> SUFFICES ASSUME Init
             PROVE  ShutInv
  OBVIOUS
<1> DEFINE tok == [sent |-> FALSE, type |-> "TOKEN", seq_num |-> 0, ack |-> 0,
                   nak |-> {}, num_shutdown |-> 0, rand_num |-> 0]
           s == [state |-> "WAITING_START", num_built |-> 0, num_sent |-> 0,
                 window_start |-> 0, packets |-> [i \in Slots |-> NoPacket],
                 previous_ack |-> -1, file |-> <<>>, previous_token |-> tok]
<1>1. s \in LocalStates
  <2>1. tok \in Tokens
    BY DEF Tokens
  <2> HIDE DEF tok
  <2> QED
    BY <2>1 DEF LocalStates, States
<1>2. /\ s.num_built = 0 /\ s.num_sent = 0 /\ ~ s.previous_token.sent
      /\ s.previous_token.num_shutdown = 0
  OBVIOUS
<1>3. local = [p \in Machines |-> craftPackets(p, s)] /\ ~ FINsent
  BY DEF Init
<1> HIDE DEF s, tok
<1>4. ASSUME NEW p \in Machines
      PROVE  CountsOK(p, local[p]) /\ local[p].previous_token.num_shutdown = 0
  <2>1. NumPackets[p] \in Nat
    BY PacketsAssumption
  <2>2. /\ local[p].num_sent = 0 /\ 0 <= local[p].num_built /\ local[p].num_built <= NumPackets[p]
        /\ local[p].previous_token = s.previous_token
    BY <1>1, <1>2, <1>3, <2>1, CraftPacketsType
  <2> QED
    BY <1>2, <2>2 DEF CountsOK
<1> QED
  BY <1>3, <1>4 DEF ShutInv, Counts, InTurn, FinIsCounted

(* What of a machine the counts look at.                                   *)
LEMMA SameCounts ==
    ASSUME RingInv, ShutInv, FINsent' = FINsent,
           local' \in [Machines -> LocalStates],
           \A q \in Machines :
              /\ CountsOK(q, local'[q])
              /\ local'[q].previous_token.num_shutdown = local[q].previous_token.num_shutdown
    PROVE  ShutInv'
<1>1. Counts'
  BY DEF Counts
<1>2. InTurn'
  BY PreviousInjective DEF ShutInv, InTurn
<1>3. FinIsCounted'
  BY DEF ShutInv, FinIsCounted, AllCounted
<1> QED
  BY <1>1, <1>2, <1>3 DEF ShutInv

LEMMA ShutStart ==
    ASSUME RingInv, ShutInv, NEW p \in Machines, Start(p)
    PROVE  ShutInv'
<1>1. /\ local[p] \in LocalStates /\ local \in [Machines -> LocalStates]
      /\ local' \in [Machines -> LocalStates] /\ CountsOK(p, local[p])
  BY StartInv DEF RingInv, TypeOK, ShutInv, Counts
<1>a. PICK s \in LocalStates : s = [local[p] EXCEPT !.state = "RUNNING"]
  BY <1>1 DEF LocalStates, States
<1>2. /\ s.state = "RUNNING" /\ s.num_sent = local[p].num_sent
      /\ s.num_built = local[p].num_built /\ s.previous_ack = local[p].previous_ack
      /\ s.previous_token = local[p].previous_token /\ local[p].state = "WAITING_START"
  BY <1>1, <1>a DEF LocalStates, Start
<1>3. PICK x : /\ local' = [local EXCEPT ![p] = x]
               /\ CountsOK(p, x)
               /\ x.previous_token.num_shutdown = local[p].previous_token.num_shutdown
  <2>1. CASE p = 1
    <3>1. PICK ms : /\ ms = toSend(p, s, -1)
                    /\ local' = [local EXCEPT ![p] =
                                  buildToken(sendPackets(s, ms), Len(ms) - 1, Len(ms) - 1, 1)]
      BY <1>a, <2>1 DEF Start
    <3>2. PICK x : /\ x = buildToken(sendPackets(s, ms), Len(ms) - 1, Len(ms) - 1, 1)
                   /\ local' = [local EXCEPT ![p] = x]
      BY <3>1
    <3>3. s.num_sent + Len(ms) <= s.num_built
      <4>1. PICK q \in Int : q = -1 /\ q >= -1
        OBVIOUS
      <4> QED
        BY <1>1, <1>2, <3>1, <4>1, ToSend DEF CountsOK
    <3>4. PICK n, k : n = s.num_sent + Len(ms) /\ k = Len(ms) - 1
      OBVIOUS
    <3>5. /\ x.state = "RUNNING" /\ x.num_sent = n /\ x.num_built = s.num_built
          /\ x.previous_ack = k /\ x.previous_token.ack = k
          /\ x.previous_token.num_shutdown = s.previous_token.num_shutdown
      BY <1>2, <3>2, <3>4 DEF buildToken, sendPackets, LocalStates, Tokens
    <3>6. CountsOK(p, x)
      BY <1>1, <1>2, <3>3, <3>4, <3>5 DEF CountsOK
    <3>7. x.previous_token.num_shutdown = local[p].previous_token.num_shutdown
      BY <1>2, <3>5
    <3> QED
      BY <3>2, <3>6, <3>7, Zenon
  <2>2. CASE p # 1
    <3>1. CountsOK(p, s)
      BY <1>1, <1>2 DEF CountsOK
    <3>2. local' = [local EXCEPT ![p] = s]
      BY <1>a, <2>2 DEF Start
    <3>3. s.previous_token.num_shutdown = local[p].previous_token.num_shutdown
      BY <1>2
    <3> QED
      BY <3>1, <3>2, <3>3, Zenon
  <2> QED
    BY <2>1, <2>2
<1>4. FINsent' = FINsent
  BY DEF Start
<1>5. \A q \in Machines :
        /\ CountsOK(q, local'[q])
        /\ local'[q].previous_token.num_shutdown = local[q].previous_token.num_shutdown
  BY <1>1, <1>3 DEF ShutInv, Counts
<1> QED
  BY <1>1, <1>4, <1>5, SameCounts

(* The machine that took the token, before the numbers are ranked.         *)
LEMMA TakenCounts ==
    ASSUME RingInv, ShutInv, NEW p \in Machines,
           NEW slid, NEW ms, NEW sent, NEW new, NEW done, NEW x,
           Taken(p, slid, ms, sent, new, done, x)
    PROVE  /\ CountsOK(p, x)
           /\ \/ x.previous_token.num_shutdown = local[p].previous_token.num_shutdown
              \/ /\ local[p].state = "RUNNING"
                 /\ local[p].previous_token.num_shutdown = 0
                 /\ x.previous_token.num_shutdown = tokenFor(p).num_shutdown + 1
                 /\ finishes(p, local[p], tokenFor(p), new)
           /\ AllCounted => Len(ms) = 0
<1>1. /\ local[p] \in LocalStates /\ tokenFor(p) \in Tokens /\ CountsOK(p, local[p])
      /\ local[p].state \in {"RUNNING", "FINISHED"}
  BY RingTypes DEF ShutInv, Counts, Taken, running
<1>2. /\ sent.num_sent = local[p].num_sent + Len(ms)
      /\ sent.num_built = local[p].num_built
      /\ sent.num_sent <= sent.num_built
      /\ sent.previous_token = local[p].previous_token
  BY <1>1, TakenKeeps DEF CountsOK
<1>3. /\ x \in LocalStates /\ x.num_sent = sent.num_sent
      /\ sent.num_built <= x.num_built /\ x.num_built <= NumPackets[p]
      /\ x.previous_token.ack = x.previous_ack
  BY <1>1, <1>2, TakenToken DEF CountsOK
<1>4. /\ Len(ms) \in Nat /\ sent \in LocalStates
  BY TakenWindow
<1>a. /\ local[p].previous_token.num_shutdown \in Nat /\ tokenFor(p).num_shutdown \in Nat
      /\ NumPackets[p] \in Nat /\ x.num_built \in Nat /\ local[p].num_built \in Nat
      /\ local[p].num_sent \in Nat
  <2>1. local[p].previous_token.num_shutdown \in Nat /\ tokenFor(p).num_shutdown \in Nat
    BY <1>1 DEF LocalStates, Tokens
  <2> QED
    BY <1>1, <1>3, <2>1, PacketsAssumption DEF LocalStates
<1>b. PICK a \in Nat, b \in Nat, c \in Nat, d \in Nat, m \in Nat, k \in Nat, t \in Nat :
        /\ a = local[p].num_sent /\ b = local[p].num_built /\ c = x.num_built
        /\ d = Len(ms) /\ m = NumPackets[p]
        /\ k = local[p].previous_token.num_shutdown
        /\ t = tokenFor(p).num_shutdown
  BY <1>4, <1>a, Zenon
<1>5. /\ a = local[p].num_sent /\ b = local[p].num_built /\ c = x.num_built
      /\ d = Len(ms) /\ m = NumPackets[p] /\ x.num_sent = a + d
      /\ a + d <= b /\ b <= c /\ c <= m
      /\ k = local[p].previous_token.num_shutdown
      /\ t = tokenFor(p).num_shutdown
      /\ k > 0 => a = m
  BY <1>1, <1>2, <1>3, <1>b DEF CountsOK
<1>6. CASE finishes(p, local[p], tokenFor(p), new)
  <2>1. /\ x.state = "FINISHED" /\ local[p].state # "FINISHED" /\ x.num_sent = NumPackets[p]
        /\ x.previous_token.num_shutdown = tokenFor(p).num_shutdown + 1
    BY <1>6, TakenToken
  <2>2. local[p].state = "RUNNING" /\ local[p].previous_token.num_shutdown = 0
    BY <1>1, <2>1 DEF CountsOK
  <2>3. CountsOK(p, x)
    BY <1>3, <1>5, <2>1 DEF CountsOK
  <2>4. AllCounted => Len(ms) = 0
    BY <1>5, CountedAllSent
  <2> QED
    BY <1>6, <2>1, <2>2, <2>3, <2>4
<1>7. CASE ~ finishes(p, local[p], tokenFor(p), new)
  <2>1. /\ x.state = local[p].state
        /\ x.previous_token.num_shutdown = local[p].previous_token.num_shutdown
    BY <1>2, <1>7, TakenToken
  <2>2. CountsOK(p, x)
    BY <1>1, <1>3, <1>5, <2>1 DEF CountsOK
  <2>3. AllCounted => Len(ms) = 0
    BY <1>5, CountedAllSent
  <2> QED
    BY <2>1, <2>2, <2>3
<1> QED
  BY <1>6, <1>7

LEMMA ShutReceiveToken ==
    ASSUME RingInv, ShutInv, NEW p \in Machines, ReceiveToken(p)
    PROVE  ShutInv'
<1>1. PICK slid, ms, sent, new, done, x :
        /\ Taken(p, slid, ms, sent, new, done, x)
        /\ local' = ranked([local EXCEPT ![p] = x])
        /\ FINsent' = (FINsent \/ ends(p, local[p], tokenFor(p), new))
  BY ReceiveTokenStages
<1>2. /\ local \in [Machines -> LocalStates] /\ x \in LocalStates
      /\ previous(p) \in Machines
  BY <1>1, TakenToken, PreviousInjective DEF RingInv, TypeOK
<1>a. PICK l : l = [local EXCEPT ![p] = x]
  OBVIOUS
<1>3. l \in [Machines -> LocalStates] /\ l[p] = x
      /\ \A q \in Machines : q # p => l[q] = local[q]
  BY <1>2, <1>a
<1>4. PICK least \in Nat : \A q \in Machines : SameButRank(local'[q], l[q], least)
  BY <1>1, <1>a, <1>3, Ranked
<1>5. /\ CountsOK(p, x)
      /\ \/ x.previous_token.num_shutdown = local[p].previous_token.num_shutdown
         \/ /\ local[p].previous_token.num_shutdown = 0
            /\ x.previous_token.num_shutdown = tokenFor(p).num_shutdown + 1
            /\ finishes(p, local[p], tokenFor(p), new)
  BY <1>1, TakenCounts
<1>6. \A q \in Machines : CountsOK(q, l[q])
  BY <1>3, <1>5 DEF ShutInv, Counts
<1>7. Counts'
  BY <1>4, <1>6 DEF Counts, CountsOK, SameButRank
<1>8. \A q \in Machines : /\ local'[q].previous_token.num_shutdown
                               = l[q].previous_token.num_shutdown
                          /\ local[q].previous_token.num_shutdown \in Nat
                          /\ previous(q) \in Machines
  BY <1>4, RingTypes DEF SameButRank, Tokens
<1>9. InTurn'
  <2>1. ASSUME NEW q \in Machines, l[q].previous_token.num_shutdown >= 2
        PROVE  l[previous(q)].previous_token.num_shutdown
                 = l[q].previous_token.num_shutdown - 1
    <3>1. CASE x.previous_token.num_shutdown = local[p].previous_token.num_shutdown
      <4>1. \A r \in Machines : l[r].previous_token.num_shutdown
                                  = local[r].previous_token.num_shutdown
        BY <1>3, <3>1
      <4> QED
        BY <1>8, <2>1, <4>1 DEF ShutInv, InTurn
    <3>2. CASE /\ local[p].previous_token.num_shutdown = 0
               /\ x.previous_token.num_shutdown = tokenFor(p).num_shutdown + 1
      <4>1. CASE q = p
        <5>1. PICK k \in Nat : k = tokenFor(p).num_shutdown
          BY <1>2, <1>8 DEF tokenFor
        <5>2. x.previous_token.num_shutdown = k + 1 /\ k >= 1
          BY <1>3, <2>1, <3>2, <4>1, <5>1
        <5>3. previous(p) # p
          BY <3>2, <5>1, <5>2 DEF tokenFor
        <5>4. l[previous(p)].previous_token.num_shutdown = k
          BY <1>2, <1>3, <5>1, <5>3 DEF tokenFor
        <5> QED
          BY <1>3, <4>1, <5>2, <5>4
      <4>2. CASE q # p
        <5>1. l[q] = local[q]
          BY <1>3, <4>2
        <5>2. local[previous(q)].previous_token.num_shutdown
                = local[q].previous_token.num_shutdown - 1
          BY <2>1, <5>1 DEF ShutInv, InTurn
        <5>3. previous(q) # p
          BY <1>8, <2>1, <3>2, <5>1, <5>2
        <5> QED
          BY <1>3, <1>8, <5>1, <5>2, <5>3
      <4> QED
        BY <4>1, <4>2
    <3> QED
      BY <1>5, <3>1, <3>2
  <2> QED
    BY <1>8, <2>1 DEF InTurn
<1>10. FinIsCounted'
  <2>1. AllCounted => AllCounted'
    <3>1. SUFFICES ASSUME NEW q \in Machines,
                          local[q].previous_token.num_shutdown = numProcesses
                   PROVE  AllCounted'
      BY DEF AllCounted
    <3>2. CASE l[q].previous_token.num_shutdown = local[q].previous_token.num_shutdown
      BY <1>8, <3>1, <3>2 DEF AllCounted
    <3>3. CASE q = p /\ local[p].previous_token.num_shutdown = 0
      BY <3>1, <3>3, RingAssumption
    <3> QED
      BY <1>3, <1>5, <3>2, <3>3
  <2>2. ends(p, local[p], tokenFor(p), new) => AllCounted
    BY <1>2 DEF ends, AllCounted, tokenFor
  <2> QED
    BY <1>1, <2>1, <2>2 DEF ShutInv, FinIsCounted
<1> QED
  BY <1>7, <1>9, <1>10 DEF ShutInv

LEMMA ShutStep ==
    ASSUME RingInv, ShutInv, [Next]_vars
    PROVE  ShutInv'
<1>0. /\ local \in [Machines -> LocalStates] /\ local' \in [Machines -> LocalStates]
      /\ net \subseteq Machines \X Packets
  BY RingStep DEF RingInv, TypeOK
<1>1. ASSUME NEW p \in Machines, Start(p)
      PROVE  ShutInv'
  BY <1>1, ShutStart
<1>2. ASSUME NEW p \in Machines, ReceiveToken(p)
      PROVE  ShutInv'
  BY <1>2, ShutReceiveToken
<1>3. ASSUME NEW p \in Machines, ReceiveFIN(p)
      PROVE  ShutInv'
  <2>1. FINsent' = FINsent /\ local' = [local EXCEPT ![p] = [local[p] EXCEPT !.state = "EXITED"]]
    BY <1>3 DEF ReceiveFIN
  <2>2. \A q \in Machines :
          /\ local'[q].state = "EXITED" \/ local'[q].state = local[q].state
          /\ local'[q].num_sent = local[q].num_sent /\ local'[q].num_built = local[q].num_built
          /\ local'[q].previous_ack = local[q].previous_ack
          /\ local'[q].previous_token = local[q].previous_token
    BY <1>0, <2>1 DEF LocalStates
  <2>3. \A q \in Machines : CountsOK(q, local'[q])
    BY <2>2 DEF ShutInv, Counts, CountsOK
  <2> QED
    BY <1>0, <2>1, <2>2, <2>3, SameCounts
<1>4. ASSUME NEW p \in Machines, NEW m \in Packets, ReceiveData(p, m)
      PROVE  ShutInv'
  <2>1. FINsent' = FINsent
        /\ \/ local' = local
           \/ local' = [local EXCEPT ![p] = processDataPacket(local[p], m)]
    BY <1>4 DEF ReceiveData
  <2>a. PICK u : u = processDataPacket(local[p], m)
    OBVIOUS
  <2>b. u = local[p] \/ \E pk : u = [local[p] EXCEPT !.packets = pk]
    <3>1. \A i : \E pk : [local[p] EXCEPT !.packets[i] = m] = [local[p] EXCEPT !.packets = pk]
      OBVIOUS
    <3> QED
      BY <2>a, <3>1 DEF processDataPacket
  <2>c. /\ u.state = local[p].state
        /\ u.num_sent = local[p].num_sent /\ u.num_built = local[p].num_built
        /\ u.previous_ack = local[p].previous_ack
        /\ u.previous_token = local[p].previous_token
    BY <1>0, <2>b DEF LocalStates
  <2>2. \A q \in Machines :
          /\ local'[q].state = local[q].state
          /\ local'[q].num_sent = local[q].num_sent /\ local'[q].num_built = local[q].num_built
          /\ local'[q].previous_ack = local[q].previous_ack
          /\ local'[q].previous_token = local[q].previous_token
    BY <1>0, <2>1, <2>a, <2>c
  <2>3. \A q \in Machines : CountsOK(q, local'[q])
    BY <2>2 DEF ShutInv, Counts, CountsOK
  <2> QED
    BY <1>0, <2>1, <2>2, <2>3, SameCounts
<1>5. ASSUME UNCHANGED <<local, FINsent>>
      PROVE  ShutInv'
  BY <1>5 DEF ShutInv, Counts, InTurn, FinIsCounted, AllCounted
<1> QED
  BY <1>0, <1>1, <1>2, <1>3, <1>4, <1>5 DEF Next, Lose, vars

(* A FIN is only sent when every machine has sent all its packets.         *)
FinMeansSent == FINsent => \A p \in Machines : local[p].num_sent = NumPackets[p]

(* On every ring, whatever is lost: the shutdown count reaches             *)
(* numProcesses, and with it the FIN goes out (processToken), only after   *)
(* each machine counted itself, and a machine that did has sent all.       *)
THEOREM FinAlwaysMeansSent == Spec => []FinMeansSent
<1>1. RingInv /\ ShutInv /\ [Next]_vars => ShutInv'
  BY ShutStep
<1>2. RingInv /\ ShutInv => FinMeansSent
  BY CountedAllSent DEF ShutInv, FinIsCounted, FinMeansSent
<1> QED
  BY RingInvariant, ShutInit, <1>1, <1>2, PTL DEF Spec

-----------------------------------------------------------------------------
(* Two machines: the ack of the one token is what the other machine has.   *)

(* u has all that s has, at the same places or written.                    *)
Keeps(s, u) ==
    /\ s.window_start <= u.window_start /\ window_end(s) <= window_end(u)
    /\ \A i \in u.window_start .. window_end(s) : received(s, i) => received(u, i)

LEMMA KeepsHeld ==
    ASSUME NEW p \in Machines, local[p] \in LocalStates, local'[p] \in LocalStates,
           Keeps(local[p], local'[p]), NEW n \in Nat, held(p, n)
    PROVE  held(p, n)'
<1>1. PICK a \in Nat, b \in Nat, e \in Int, f \in Int :
        /\ a = local[p].window_start /\ b = local'[p].window_start
        /\ e = window_end(local[p]) /\ f = window_end(local'[p])
        /\ a <= b /\ e <= f
        /\ \A i \in b .. e : received(local[p], i) => received(local'[p], i)
  <2>1. /\ local[p].window_start \in Nat /\ local'[p].window_start \in Nat
        /\ window_end(local[p]) \in Int /\ window_end(local'[p]) \in Int
    BY DEF LocalStates, window_end
  <2> QED
    BY <2>1 DEF Keeps
<1>2. n < a \/ (n <= e /\ received(local[p], n))
  BY <1>1 DEF held
<1>3. n < b \/ (n <= f /\ received(local'[p], n))
  BY <1>1, <1>2
<1> QED
  BY <1>1, <1>3 DEF held

(* The last token's ack: all up to it is written or held.                  *)
LEMMA AckIsHeld ==
    ASSUME RingInv, NEW p \in Machines, NEW n \in Nat, n <= local[p].previous_ack
    PROVE  held(p, n)
<1>1. local[p] \in LocalStates /\ AckOK(local[p])
  BY RingTypes
<1>2. PICK a \in Nat, e \in Int, k \in Int :
        a = local[p].window_start /\ e = window_end(local[p]) /\ k = local[p].previous_ack
        /\ k <= e /\ \A i \in a .. k : received(local[p], i)
  <2>1. /\ local[p].window_start \in Nat /\ window_end(local[p]) \in Int
        /\ local[p].previous_ack \in Int
    BY <1>1 DEF LocalStates, window_end
  <2> QED
    BY <1>1, <2>1 DEF AckOK
<1> QED
  BY <1>2 DEF held

(* Before machine 1 starts nobody has anything.                            *)
LEMMA NothingHeld ==
    ASSUME RingInv, order = <<>>, NEW p \in Machines, NEW n \in Nat
    PROVE  ~ held(p, n) /\ local[p].window_start = 0
<1>1. local[p] \in LocalStates /\ WindowOK(local[p], order) /\ Len(order) = 0
  BY RingTypes, EmptySeq
<1>2. local[p].window_start = 0
  <2>1. local[p].window_start \in Nat
    BY <1>1 DEF LocalStates
  <2> QED
    BY <1>1, <2>1 DEF WindowOK
<1>3. n % WINDOW_SIZE \in Slots
  <2>1. n \in Int
    OBVIOUS
  <2> QED
    BY <2>1, SlotOf, Zenon
<1>4. \A m : ~ Placed(m, order)
  BY <1>1 DEF Placed, Packets
<1>5. ~ received(local[p], n)
  BY <1>1, <1>3, <1>4 DEF received, WindowOK
<1> QED
  BY <1>2, <1>5 DEF held

(* After the step q is as s, in what the properties look at.               *)
Becomes(q, s) ==
    /\ local'[q].window_start = s.window_start
    /\ local'[q].packets = s.packets
    /\ local'[q].previous_token.num_shutdown = s.previous_token.num_shutdown

(* What the step of a machine that takes a token leaves of the others and  *)
(* of itself, the numbers of the tokens aside.                             *)
LEMMA TokenTaken ==
    ASSUME RingInv, NEW p \in Machines, ReceiveToken(p)
    PROVE  \E slid, ms, sent, new, done, x :
             /\ Taken(p, slid, ms, sent, new, done, x)
             /\ order' = order \o ms
             /\ FINsent' = (FINsent \/ ends(p, local[p], tokenFor(p), new))
             /\ x \in LocalStates /\ Becomes(p, x)
             /\ \A q \in Machines : q # p => Becomes(q, local[q])
<1>1. PICK slid, ms, sent, new, done, x :
        /\ Taken(p, slid, ms, sent, new, done, x)
        /\ local' = ranked([local EXCEPT ![p] = x])
        /\ order' = order \o ms
        /\ FINsent' = (FINsent \/ ends(p, local[p], tokenFor(p), new))
  BY ReceiveTokenStages
<1>2. local \in [Machines -> LocalStates] /\ x \in LocalStates
  BY <1>1, TakenToken DEF RingInv, TypeOK
<1>3. PICK l : l = [local EXCEPT ![p] = x]
  OBVIOUS
<1>4. l \in [Machines -> LocalStates] /\ \A q \in Machines : l[q] = IF q = p THEN x ELSE local[q]
  BY <1>2, <1>3
<1>5. PICK least \in Nat : \A q \in Machines : SameButRank(local'[q], l[q], least)
  BY <1>1, <1>3, <1>4, Ranked
<1>6. \A q \in Machines : Becomes(q, l[q])
  BY <1>5 DEF SameButRank, Becomes
<1>7. Becomes(p, x) /\ \A q \in Machines : q # p => Becomes(q, local[q])
  BY <1>4, <1>6
<1> QED
  BY <1>1, <1>2, <1>7

(* Whatever happens, a machine never loses what it has.                    *)
LEMMA HeldStays ==
    ASSUME RingInv, [Next]_vars, NEW p \in Machines, NEW n \in Nat, held(p, n)
    PROVE  held(p, n)'
<1>0. /\ local \in [Machines -> LocalStates] /\ local[p] \in LocalStates
      /\ local' \in [Machines -> LocalStates] /\ local'[p] \in LocalStates
      /\ net \subseteq Machines \X Packets
      /\ window_end(local[p]) \in Int /\ local[p].window_start \in Nat
  <2>1. /\ local \in [Machines -> LocalStates] /\ local' \in [Machines -> LocalStates]
        /\ net \subseteq Machines \X Packets
    BY RingStep DEF RingInv, TypeOK
  <2>2. local[p] \in LocalStates /\ local'[p] \in LocalStates
    BY <2>1
  <2>3. local[p].window_start \in Nat
    BY <2>2 DEF LocalStates
  <2>4. window_end(local[p]) \in Int
    BY <2>3 DEF window_end
  <2> QED
    BY <2>1, <2>2, <2>3, <2>4
<1>a. ASSUME local'[p].window_start = local[p].window_start,
             local'[p].packets = local[p].packets
      PROVE  held(p, n)'
  BY <1>a DEF held, received, window_end
<1>1. ASSUME NEW q \in Machines, Start(q)
      PROVE  held(p, n)'
  <2>1. CASE q = 1
    <3>1. order = <<>>
      BY <1>1, <2>1 DEF Start, RingInv, BeforeStart
    <3> QED
      BY <3>1, NothingHeld
  <2>2. CASE q # 1
    <3>1. local' = [local EXCEPT ![q] = [local[q] EXCEPT !.state = "RUNNING"]]
      BY <1>1, <2>2 DEF Start
    <3>2. local'[p].window_start = local[p].window_start /\ local'[p].packets = local[p].packets
      BY <1>0, <3>1 DEF LocalStates
    <3> QED
      BY <1>a, <3>2
  <2> QED
    BY <2>1, <2>2
<1>2. ASSUME NEW q \in Machines, ReceiveToken(q)
      PROVE  held(p, n)'
  <2>1. PICK slid, ms, sent, new, done, x :
          /\ Taken(q, slid, ms, sent, new, done, x)
          /\ x \in LocalStates /\ Becomes(q, x)
          /\ \A r \in Machines : r # q => Becomes(r, local[r])
    BY <1>2, TokenTaken
  <2>2. CASE q = p
    <3>1. /\ x.window_start = sent.window_start /\ x.packets = sent.packets
          /\ sent.window_start = slid.window_start
          /\ slid.window_start \in local[q].window_start .. Len(order)
      BY <2>1, TakenWindow, TakenToken
    <3>2. /\ window_end(sent) >= window_end(local[q])
          /\ \A i \in sent.window_start .. window_end(local[q]) :
               received(local[q], i) => received(sent, i)
      BY <2>1, TakenKeeps
    <3>3. local'[q].window_start = sent.window_start /\ local'[q].packets = sent.packets
      BY <2>1, <3>1 DEF Becomes
    <3>4. window_end(local'[q]) = window_end(sent)
          /\ \A i : received(local'[q], i) = received(sent, i)
      BY <3>3 DEF window_end, received
    <3>5. window_end(sent) \in Int /\ sent.window_start \in Nat
      BY <2>1, TakenWindow DEF LocalStates, window_end
    <3>6. local[q].window_start <= sent.window_start
      BY <1>0, <2>2, <3>1, <3>5
    <3>7. window_end(local[q]) <= window_end(local'[q])
      BY <1>0, <2>2, <3>2, <3>4, <3>5
    <3>8. Keeps(local[p], local'[p])
      BY <2>2, <3>2, <3>3, <3>4, <3>6, <3>7 DEF Keeps
    <3> QED
      BY <1>0, <3>8, KeepsHeld
  <2>3. CASE q # p
    BY <1>a, <2>1, <2>3 DEF Becomes
  <2> QED
    BY <2>2, <2>3
<1>3. ASSUME NEW q \in Machines, ReceiveFIN(q)
      PROVE  held(p, n)'
  <2>1. local' = [local EXCEPT ![q] = [local[q] EXCEPT !.state = "EXITED"]]
    BY <1>3 DEF ReceiveFIN
  <2>2. local'[p].window_start = local[p].window_start /\ local'[p].packets = local[p].packets
    BY <1>0, <2>1 DEF LocalStates
  <2> QED
    BY <1>a, <2>2
<1>4. ASSUME NEW q \in Machines, NEW m \in Packets, ReceiveData(q, m)
      PROVE  held(p, n)'
  <2>1. \/ local' = local
        \/ local' = [local EXCEPT ![q] = processDataPacket(local[q], m)]
    BY <1>4 DEF ReceiveData
  <2>2. CASE local'[p] = local[p]
    BY <1>a, <2>2
  <2>3. CASE local'[p] = [local[p] EXCEPT !.packets[m.seq_num % WINDOW_SIZE] = m]
    <3>1. PICK i : i = m.seq_num % WINDOW_SIZE
      OBVIOUS
    <3>2. PICK pk : pk = [local[p].packets EXCEPT ![i] = m]
      OBVIOUS
    <3>3. local'[p] = [local[p] EXCEPT !.packets = pk]
      BY <2>3, <3>1, <3>2
    <3>4. local'[p].packets = pk /\ local'[p].window_start = local[p].window_start
      BY <1>0, <3>3 DEF LocalStates
    <3>5. \A j \in Slots : local[p].packets[j] # NoPacket => pk[j] # NoPacket
      <4>1. m # NoPacket
        BY DEF Packets, NoPacket
      <4>2. \A j \in Slots : pk[j] = IF j = i THEN m ELSE local[p].packets[j]
        BY <1>0, <3>2 DEF LocalStates
      <4> QED
        BY <4>1, <4>2
    <3>6. \A k \in Int : received(local[p], k) => received(local'[p], k)
      BY <3>4, <3>5, SlotOf DEF received
    <3>7. window_end(local'[p]) = window_end(local[p])
      BY <3>4 DEF window_end
    <3>8. Keeps(local[p], local'[p])
      BY <1>0, <3>4, <3>6, <3>7 DEF Keeps
    <3> QED
      BY <1>0, <3>8, KeepsHeld
  <2> QED
    <3>1. CASE q = p
      BY <1>0, <2>1, <2>2, <2>3, <3>1 DEF processDataPacket
    <3>2. CASE q # p
      BY <1>0, <2>1, <2>2, <3>2
    <3> QED
      BY <3>1, <3>2
<1>5. ASSUME UNCHANGED local
      PROVE  held(p, n)'
  BY <1>5 DEF held
<1> QED
  BY <1>0, <1>1, <1>2, <1>3, <1>4, <1>5 DEF Next, Lose, vars

(* With two machines, the one that counts itself last has all packets.     *)
LastHolds ==
    \A p \in Machines :
        local[p].previous_token.num_shutdown = 2 =>
            \A n \in 0 .. Len(order) - 1 : held(p, n)

FinHolds == FINsent => \A p \in Machines : \A n \in 0 .. Len(order) - 1 : held(p, n)

PairInv == ClearedIsHeld /\ LastHolds /\ FinHolds

LEMMA Pair ==
    ASSUME numProcesses = 2
    PROVE  /\ Machines = {1, 2}
           /\ \A p, q \in Machines : p # q => q = previous(p)
<1>1. Machines = {1, 2}
  BY DEF Machines
<1> QED
  BY <1>1 DEF previous

LEMMA PairInit ==
    ASSUME numProcesses = 2, Init
    PROVE  PairInv
<1>1. order = <<>> /\ ~ FINsent /\ RingInv /\ ShutInv
  BY RingInit, ShutInit DEF Init
<1>2. Len(order) = 0
  BY <1>1, EmptySeq
<1>3. \A p \in Machines : local[p].window_start = 0
  BY <1>1, NothingHeld
<1>4. \A i \in Int : i \notin 0 .. 0 - 1
  OBVIOUS
<1>5. 0 .. 0 - 1 = {}
  BY <1>4
<1> QED
  BY <1>1, <1>2, <1>3, <1>5 DEF PairInv, ClearedIsHeld, LastHolds, FinHolds

(* Once a token has counted all nothing is sent for the first time.        *)
LEMMA NoMoreSent ==
    ASSUME numProcesses = 2, RingInv, ShutInv, AllCounted, [Next]_vars
    PROVE  order' = order
<1>1. ASSUME NEW p \in Machines, Start(p)
      PROVE  order' = order
  <2>1. CASE p = 1
    <3>1. local[1].previous_token.num_shutdown = 0
      BY <1>1, <2>1 DEF Start, ShutInv, Counts, CountsOK
    <3>2. PICK q \in Machines : local[q].previous_token.num_shutdown = 2
      BY DEF AllCounted
    <3>3. q = 2 /\ previous(2) = 1
      BY <3>1, <3>2, Pair DEF previous
    <3>4. local[1].previous_token.num_shutdown = 2 - 1
      BY <3>2, <3>3 DEF ShutInv, InTurn
    <3> QED
      BY <3>1, <3>4
  <2>2. CASE p # 1
    BY <1>1, <2>2 DEF Start
  <2> QED
    BY <2>1, <2>2
<1>2. ASSUME NEW p \in Machines, ReceiveToken(p)
      PROVE  order' = order
  <2>1. PICK slid, ms, sent, new, done, x :
          /\ Taken(p, slid, ms, sent, new, done, x)
          /\ order' = order \o ms
    BY <1>2, TokenTaken
  <2>2. ms \in Seq(Packets) /\ Len(ms) = 0
    BY <2>1, TakenWindow, TakenCounts
  <2>3. order \in Seq(Packets)
    BY DEF RingInv, TypeOK
  <2>4. ms = <<>>
    BY <2>2, EmptySeq
  <2> QED
    BY <2>1, <2>3, <2>4, ConcatEmptySeq
<1>3. ASSUME NEW p, ReceiveFIN(p)
      PROVE  order' = order
  BY <1>3 DEF ReceiveFIN
<1>4. ASSUME NEW p, NEW m, ReceiveData(p, m) \/ Lose(p, m)
      PROVE  order' = order
  BY <1>4 DEF ReceiveData, Lose
<1> QED
  BY <1>1, <1>2, <1>3, <1>4 DEF Next, vars

(* The step of a machine that takes the token of the other one: what it    *)
(* clears the other one has, and it has all when it counts itself last.    *)
LEMMA PairToken ==
    ASSUME numProcesses = 2, RingInv, ShutInv, PairInv,
           NEW p \in Machines, ReceiveToken(p)
    PROVE  /\ \A q \in Machines : \A n \in 0 .. local'[p].window_start - 1 : held(q, n)'
           /\ \A q \in Machines : q # p =>
                /\ local'[q].window_start = local[q].window_start
                /\ local'[q].previous_token.num_shutdown = local[q].previous_token.num_shutdown
           /\ local'[p].previous_token.num_shutdown = 2 =>
                \/ local[p].previous_token.num_shutdown = 2
                \/ \A n \in 0 .. Len(order') - 1 : held(p, n)'
           /\ FINsent' /\ ~ FINsent =>
                /\ AllCounted
                /\ \A q \in Machines : \A n \in 0 .. Len(order) - 1 : held(q, n)
<1>1. PICK slid, ms, sent, new, done, x :
        /\ Taken(p, slid, ms, sent, new, done, x)
        /\ order' = order \o ms
        /\ FINsent' = (FINsent \/ ends(p, local[p], tokenFor(p), new))
        /\ x \in LocalStates /\ Becomes(p, x)
        /\ \A q \in Machines : q # p => Becomes(q, local[q])
  BY TokenTaken
<1>2. [Next]_vars
  BY DEF Next
<1>3. /\ local[p] \in LocalStates /\ Len(order) \in Nat
      /\ tokenFor(p).sent /\ tokenFor(p).seq_num = Len(order) - 1
      /\ previous(p) \in Machines
  BY <1>1, RingTypes DEF Taken, fresh, arrives
<1>4. tokenFor(p).ack = local[previous(p)].previous_ack
  BY <1>3 DEF ShutInv, Counts, CountsOK, tokenFor
<1>5. PICK a \in Nat, b \in Nat :
        /\ a = local[p].window_start /\ b = local'[p].window_start
        /\ b = sent.window_start
        /\ \A n \in a .. b - 1 : n <= tokenFor(p).ack
  <2>1. x.window_start = sent.window_start /\ sent \in LocalStates
    BY <1>1, TakenToken, TakenWindow
  <2>2. \A n \in local[p].window_start .. sent.window_start - 1 : n <= tokenFor(p).ack
    BY <1>1, TakenKeeps
  <2>3. local'[p].window_start = sent.window_start
    BY <1>1, <2>1 DEF Becomes
  <2>4. local[p].window_start \in Nat /\ sent.window_start \in Nat
    BY <1>3, <2>1 DEF LocalStates
  <2> QED
    BY <2>2, <2>3, <2>4
<1>6. ASSUME NEW q \in Machines, NEW n \in 0 .. b - 1
      PROVE  held(q, n)'
  <2>1. CASE n < a
    <3>1. n \in 0 .. a - 1 /\ n \in Nat
      BY <2>1
    <3>2. held(q, n)
      BY <1>5, <3>1 DEF PairInv, ClearedIsHeld
    <3> QED
      BY <1>2, <3>1, <3>2, HeldStays
  <2>2. CASE q = p
    <3>1. n < local'[p].window_start
      BY <1>5
    <3> QED
      BY <2>2, <3>1 DEF held
  <2>3. CASE n >= a /\ q # p
    <3>1. n \in Nat /\ n <= local[q].previous_ack
      BY <1>4, <1>5, <2>3, Pair
    <3>2. held(q, n)
      BY <3>1, AckIsHeld
    <3> QED
      BY <1>2, <3>1, <3>2, HeldStays
  <2> QED
    BY <2>1, <2>2, <2>3
<1>7. \A q \in Machines : q # p =>
        /\ local'[q].window_start = local[q].window_start
        /\ local'[q].previous_token.num_shutdown = local[q].previous_token.num_shutdown
  BY <1>1 DEF Becomes
<1>8. ASSUME local'[p].previous_token.num_shutdown = 2,
             local[p].previous_token.num_shutdown # 2,
             NEW n \in 0 .. Len(order') - 1
      PROVE  held(p, n)'
  <2>1. finishes(p, local[p], tokenFor(p), new)
    <3>1. \/ x.previous_token.num_shutdown = local[p].previous_token.num_shutdown
          \/ finishes(p, local[p], tokenFor(p), new)
      BY <1>1, TakenCounts
    <3>2. x.previous_token.num_shutdown = 2
      BY <1>1, <1>8 DEF Becomes
    <3> QED
      BY <1>8, <3>1, <3>2
  <2>2. x.window_start = Len(order) /\ x.window_start = sent.window_start
        /\ x.packets = sent.packets
    <3>1. /\ x.window_start = tokenFor(p).seq_num + 1
          /\ x.window_start = sent.window_start /\ x.packets = sent.packets
      BY <1>1, <2>1, TakenToken
    <3> QED
      BY <1>3, <3>1
  <2>3. Len(order') = Len(order) + Len(ms) /\ Len(ms) \in Nat
    BY <1>1, TakenWindow
  <2>4. CASE n < Len(order)
    BY <1>5, <2>2, <2>4 DEF held
  <2>5. CASE n >= Len(order)
    <3>1. n - Len(order) + 1 \in 1 .. Len(ms) /\ Len(order) - 1 + (n - Len(order) + 1) = n
      BY <1>3, <2>3, <2>5
    <3>2. received(sent, n) /\ n <= window_end(sent)
      <4>1. \A k \in 1 .. Len(ms) : /\ received(sent, Len(order) - 1 + k)
                                    /\ Len(order) - 1 + k <= window_end(sent)
        BY <1>1, TakenKeeps
      <4>2. /\ received(sent, Len(order) - 1 + (n - Len(order) + 1))
            /\ Len(order) - 1 + (n - Len(order) + 1) <= window_end(sent)
        BY <3>1, <4>1
      <4> QED
        BY <3>1, <4>2
    <3>3. local'[p].packets = sent.packets /\ local'[p].window_start = sent.window_start
      BY <1>1, <2>2 DEF Becomes
    <3> QED
      BY <3>2, <3>3 DEF held, received, window_end
  <2> QED
    BY <1>3, <2>4, <2>5
<1>9. ASSUME FINsent', ~ FINsent
      PROVE  /\ AllCounted
             /\ \A q \in Machines : \A n \in 0 .. Len(order) - 1 : held(q, n)
  <2>1. /\ tokenFor(p).num_shutdown = numProcesses
        /\ local[p].previous_ack = tokenFor(p).seq_num
    BY <1>1, <1>9 DEF ends
  <2>2. AllCounted /\ local[previous(p)].previous_token.num_shutdown = 2
    BY <1>3, <2>1 DEF AllCounted, tokenFor
  <2>3. ASSUME NEW q \in Machines, NEW n \in 0 .. Len(order) - 1
        PROVE  held(q, n)
    <3>1. CASE q = p
      <4>1. n \in Nat /\ n <= local[p].previous_ack
        BY <1>3, <2>1
      <4> QED
        BY <3>1, <4>1, AckIsHeld
    <3>2. CASE q # p
      <4>1. q = previous(p)
        BY <3>2, Pair
      <4> QED
        BY <2>2, <4>1 DEF PairInv, LastHolds
    <3> QED
      BY <3>1, <3>2
  <2> QED
    BY <2>2, <2>3
<1> QED
  BY <1>5, <1>6, <1>7, <1>8, <1>9

LEMMA PairStep ==
    ASSUME numProcesses = 2, RingInv, ShutInv, PairInv, [Next]_vars
    PROVE  PairInv'
<1>0. /\ local \in [Machines -> LocalStates] /\ order \in Seq(Packets)
      /\ net \subseteq Machines \X Packets
      /\ \A p \in Machines : /\ local[p].window_start \in Nat
                             /\ local'[p].window_start \in Nat
  <2>1. /\ local \in [Machines -> LocalStates] /\ local' \in [Machines -> LocalStates]
        /\ order \in Seq(Packets) /\ net \subseteq Machines \X Packets
    BY RingStep DEF RingInv, TypeOK
  <2>2. \A p \in Machines : local[p] \in LocalStates /\ local'[p] \in LocalStates
    BY <2>1
  <2> QED
    BY <2>1, <2>2 DEF LocalStates
<1>1. \A p \in Machines : \A n \in Nat : held(p, n) => held(p, n)'
  BY HeldStays
<1>2. AllCounted => order' = order
  BY NoMoreSent
<1>3. ASSUME \A p \in Machines : /\ local'[p].window_start = local[p].window_start
                                 /\ local'[p].previous_token.num_shutdown
                                      = local[p].previous_token.num_shutdown,
             FINsent' = FINsent
      PROVE  PairInv'
  <2>1. ClearedIsHeld'
    <3>1. SUFFICES ASSUME NEW p \in Machines, NEW q \in Machines,
                          NEW n \in 0 .. local'[p].window_start - 1
                   PROVE  held(q, n)'
      BY DEF ClearedIsHeld
    <3>2. held(q, n) /\ n \in Nat
      BY <1>3, <3>1 DEF PairInv, ClearedIsHeld
    <3> QED
      BY <1>1, <3>2
  <2>2. LastHolds'
    <3>1. SUFFICES ASSUME NEW p \in Machines, local'[p].previous_token.num_shutdown = 2,
                          NEW n \in 0 .. Len(order') - 1
                   PROVE  held(p, n)'
      BY DEF LastHolds
    <3>2. local[p].previous_token.num_shutdown = 2 /\ order' = order
      BY <1>2, <1>3, <3>1 DEF AllCounted
    <3>3. held(p, n) /\ n \in Nat
      BY <3>1, <3>2 DEF PairInv, LastHolds
    <3> QED
      BY <1>1, <3>3
  <2>3. FinHolds'
    <3>1. SUFFICES ASSUME FINsent, NEW p \in Machines, NEW n \in 0 .. Len(order') - 1
                   PROVE  held(p, n)'
      BY <1>3 DEF FinHolds
    <3>2. order' = order
      BY <1>2, <3>1 DEF ShutInv, FinIsCounted
    <3>3. held(p, n) /\ n \in Nat
      BY <3>1, <3>2 DEF PairInv, FinHolds
    <3> QED
      BY <1>1, <3>3
  <2> QED
    BY <2>1, <2>2, <2>3 DEF PairInv
<1>4. ASSUME NEW p \in Machines, Start(p)
      PROVE  PairInv'
  <2>1. local[p] \in LocalStates
    BY <1>0
  <2>2. PICK s : /\ s = [local[p] EXCEPT !.state = "RUNNING"]
                 /\ s.window_start = local[p].window_start
                 /\ s.previous_token = local[p].previous_token
                 /\ s \in LocalStates
    <3>1. PICK s : s = [local[p] EXCEPT !.state = "RUNNING"]
      OBVIOUS
    <3>2. /\ s.window_start = local[p].window_start
          /\ s.previous_token = local[p].previous_token
      BY <2>1, <3>1 DEF LocalStates
    <3>3. s \in LocalStates
      BY <2>1, <3>1 DEF LocalStates, States
    <3> QED
      BY <3>1, <3>2, <3>3, Zenon
  <2>3. PICK x : /\ local' = [local EXCEPT ![p] = x]
                 /\ x.window_start = s.window_start
                 /\ x.previous_token.num_shutdown = s.previous_token.num_shutdown
    <3>1. CASE p = 1
      <4>1. PICK ms : local' = [local EXCEPT ![p] =
                                  buildToken(sendPackets(s, ms), Len(ms) - 1, Len(ms) - 1, 1)]
        BY <1>4, <2>2, <3>1 DEF Start
      <4>2. PICK k, x : x = buildToken(sendPackets(s, ms), k, k, 1)
                        /\ local' = [local EXCEPT ![p] = x]
        BY <4>1
      <4>3. /\ x.window_start = s.window_start
            /\ x.previous_token.num_shutdown = s.previous_token.num_shutdown
        BY <2>2, <4>2 DEF buildToken, sendPackets, LocalStates, Tokens
      <4> QED
        BY <4>2, <4>3, Zenon
    <3>2. CASE p # 1
      <4>1. local' = [local EXCEPT ![p] = s]
        BY <1>4, <2>2, <3>2 DEF Start
      <4> QED
        BY <4>1, Zenon
    <3> QED
      BY <3>1, <3>2
  <2>4. \A q \in Machines : /\ local'[q].window_start = local[q].window_start
                            /\ local'[q].previous_token.num_shutdown
                                 = local[q].previous_token.num_shutdown
    BY <1>0, <2>2, <2>3
  <2>5. FINsent' = FINsent
    BY <1>4 DEF Start
  <2> QED
    BY <1>3, <2>4, <2>5
<1>5. ASSUME NEW p \in Machines, ReceiveToken(p)
      PROVE  PairInv'
  <2>1. ClearedIsHeld'
    <3>1. SUFFICES ASSUME NEW r \in Machines, NEW q \in Machines,
                          NEW n \in 0 .. local'[r].window_start - 1
                   PROVE  held(q, n)'
      BY DEF ClearedIsHeld
    <3>2. CASE r = p
      BY <1>5, <3>1, <3>2, PairToken
    <3>3. CASE r # p
      <4>1. local'[r].window_start = local[r].window_start
        BY <1>5, <3>3, PairToken
      <4>2. held(q, n) /\ n \in Nat
        BY <3>1, <4>1 DEF PairInv, ClearedIsHeld
      <4> QED
        BY <1>1, <4>2
    <3> QED
      BY <3>2, <3>3
  <2>2. LastHolds'
    <3>1. SUFFICES ASSUME NEW r \in Machines, local'[r].previous_token.num_shutdown = 2,
                          NEW n \in 0 .. Len(order') - 1
                   PROVE  held(r, n)'
      BY DEF LastHolds
    <3>2. CASE local[r].previous_token.num_shutdown = 2
      <4>1. order' = order
        BY <1>2, <3>2 DEF AllCounted
      <4>2. held(r, n) /\ n \in Nat
        BY <3>1, <3>2, <4>1 DEF PairInv, LastHolds
      <4> QED
        BY <1>1, <4>2
    <3>3. CASE local[r].previous_token.num_shutdown # 2
      BY <1>5, <3>1, <3>3, PairToken
    <3> QED
      BY <3>2, <3>3
  <2>3. FinHolds'
    <3>1. SUFFICES ASSUME FINsent', NEW q \in Machines, NEW n \in 0 .. Len(order') - 1
                   PROVE  held(q, n)'
      BY DEF FinHolds
    <3>2. /\ AllCounted
          /\ \A m \in 0 .. Len(order) - 1 : held(q, m)
      <4>1. CASE FINsent
        BY <4>1 DEF ShutInv, FinIsCounted, PairInv, FinHolds
      <4>2. CASE ~ FINsent
        BY <1>5, <3>1, <4>2, PairToken
      <4> QED
        BY <4>1, <4>2
    <3>3. held(q, n) /\ n \in Nat
      BY <1>2, <3>1, <3>2
    <3> QED
      BY <1>1, <3>3
  <2> QED
    BY <2>1, <2>2, <2>3 DEF PairInv
<1>6. ASSUME NEW p \in Machines, ReceiveFIN(p)
      PROVE  PairInv'
  <2>1. FINsent' = FINsent /\ local' = [local EXCEPT ![p] = [local[p] EXCEPT !.state = "EXITED"]]
    BY <1>6 DEF ReceiveFIN
  <2>2. \A q \in Machines : /\ local'[q].window_start = local[q].window_start
                            /\ local'[q].previous_token.num_shutdown
                                 = local[q].previous_token.num_shutdown
    BY <1>0, <2>1 DEF LocalStates
  <2> QED
    BY <1>3, <2>1, <2>2
<1>7. ASSUME NEW p \in Machines, NEW m \in Packets, ReceiveData(p, m)
      PROVE  PairInv'
  <2>1. FINsent' = FINsent
        /\ \/ local' = local
           \/ local' = [local EXCEPT ![p] = processDataPacket(local[p], m)]
    BY <1>7 DEF ReceiveData
  <2>2. PICK u : u = processDataPacket(local[p], m)
    OBVIOUS
  <2>3. u = local[p] \/ \E pk : u = [local[p] EXCEPT !.packets = pk]
    <3>1. \A i : \E pk : [local[p] EXCEPT !.packets[i] = m] = [local[p] EXCEPT !.packets = pk]
      OBVIOUS
    <3> QED
      BY <2>2, <3>1 DEF processDataPacket
  <2>4. u.window_start = local[p].window_start /\ u.previous_token = local[p].previous_token
    BY <1>0, <2>3 DEF LocalStates
  <2>5. \A q \in Machines : /\ local'[q].window_start = local[q].window_start
                            /\ local'[q].previous_token.num_shutdown
                                 = local[q].previous_token.num_shutdown
    BY <1>0, <2>1, <2>2, <2>4
  <2> QED
    BY <1>3, <2>1, <2>5
<1>8. ASSUME UNCHANGED <<local, FINsent>>
      PROVE  PairInv'
  BY <1>3, <1>8
<1> QED
  BY <1>0, <1>4, <1>5, <1>6, <1>7, <1>8 DEF Next, Lose, vars

LEMMA PairInvariant ==
    ASSUME numProcesses = 2
    PROVE  Spec => [](RingInv /\ ShutInv /\ PairInv)
<1>1. Init => RingInv /\ ShutInv /\ PairInv
  BY RingInit, ShutInit, PairInit
<1>2. RingInv /\ ShutInv /\ PairInv /\ [Next]_vars => (RingInv /\ ShutInv /\ PairInv)'
  BY RingStep, ShutStep, PairStep
<1> QED
  BY <1>1, <1>2, PTL DEF Spec

(* With two machines, what one has cleared from its window the other one   *)
(* has written or holds (slideGlobalWindow), for any sizes, numbers of     *)
(* packets and losses: the ack in a token is then the other one's own.     *)
(* With three this is false: see the run token_ring_ack.                   *)
THEOREM ClearedAlwaysHeld ==
    ASSUME numProcesses = 2
    PROVE  Spec => []ClearedIsHeld
<1>1. PairInv => ClearedIsHeld
  BY DEF PairInv
<1> QED
  BY PairInvariant, <1>1, PTL

(* With two machines, a FIN is only sent (processToken) when both have     *)
(* sent all their packets and each has written or holds every packet.      *)
THEOREM FinAlwaysMeansReceived ==
    ASSUME numProcesses = 2
    PROVE  Spec => []FinMeansReceived
<1>1. RingInv /\ ShutInv /\ PairInv => FinMeansReceived
  <2>1. SUFFICES ASSUME RingInv, ShutInv, PairInv, FINsent
                 PROVE  \A p \in Machines : /\ local[p].num_sent = NumPackets[p]
                                            /\ \A n \in 0 .. Len(order) - 1 : held(p, n)
    BY DEF FinMeansReceived
  <2> QED
    BY <2>1, CountedAllSent DEF ShutInv, FinIsCounted, PairInv, FinHolds
<1> QED
  BY PairInvariant, <1>1, PTL
=============================================================================
