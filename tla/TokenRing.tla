----------------------------- MODULE TokenRing -----------------------------
(***************************************************************************)
(* src/Multicast_Application/mcast.c: machines on a ring pass a token that *)
(* gives the right to multicast and the next sequence numbers; its ack     *)
(* says what all are believed to have, its NAKs what one of them lacks.    *)
(*                                                                         *)
(* Data packets are lost, delayed and reordered.  A token is sent many     *)
(* times and again on every timeout, with the same content until its       *)
(* sender builds the next one: so previous_token of a machine can reach    *)
(* the next machine at any time, any number of times, and needs no         *)
(* variable for copies on the way.  The addresses in a token only decide   *)
(* whether it goes to one machine or to all, who ignore it, and are left   *)
(* out.                                                                    *)
(***************************************************************************)
EXTENDS Integers, Sequences, FiniteSetsExt

CONSTANTS
    numProcesses,       \* machines on the ring
    NumPackets,         \* numPacketsToSend of each machine
    WINDOW_SIZE,
    SEND_WINDOW_SIZE,
    MAX_MESSAGE,
    MAX_NAK,
    MaxLoss             \* bound: data packets lost on the way

Machines == 1 .. numProcesses

ASSUME RingAssumption == numProcesses \in Nat \ {0}
ASSUME PacketsAssumption == NumPackets \in [Machines -> Nat]
ASSUME SizesAssumption ==
    /\ WINDOW_SIZE \in Nat \ {0} /\ SEND_WINDOW_SIZE \in Nat \ {0}
    /\ MAX_MESSAGE \in Nat \ {0} /\ MAX_NAK \in Nat \ {0}
    /\ MaxLoss \in Nat

VARIABLES
    local,   \* local[p]: senderWindow, globalWindow and processState of p
    net,     \* data packets on the way, each with its receiver
    losses,  \* data packets lost so far
    FINsent, \* a FIN has been multicast
    order    \* history: the packets in the order they were first sent

vars == <<local, net, losses, FINsent, order>>

(* A packet: number is the build it is from, for the random number in it.  *)
Packets == [seq_num : Nat, proc_num : Machines, number : Nat]
NoPacket == [seq_num |-> -1, proc_num |-> 0, number |-> -1]

(* A token; rand_num is only compared, see ranked.  sent is address # -1.  *)
Tokens == [sent : BOOLEAN, type : {"TOKEN", "FIN"}, seq_num : Int, ack : Int,
           nak : SUBSET Nat, num_shutdown : Nat, rand_num : Nat]

Slots == 0 .. WINDOW_SIZE - 1

(* TOKEN_SENT and AWAITING_TOKEN are never told apart: both are RUNNING.   *)
States == {"WAITING_START", "RUNNING", "FINISHED", "EXITED"}

LocalStates ==
    [state : States,
     num_built : Nat, num_sent : Nat,            \* senderWindow
     window_start : Nat,                         \* globalWindow
     packets : [Slots -> Packets \cup {NoPacket}],
     previous_ack : Int,
     file : Seq(Packets),
     previous_token : Tokens]

next(p) == (p % numProcesses) + 1
previous(p) == IF p = 1 THEN numProcesses ELSE p - 1

window_end(s) == s.window_start + WINDOW_SIZE - 1

(* Whether the slot of number i holds a packet, of whatever number.        *)
received(s, i) == s.packets[i % WINDOW_SIZE] # NoPacket

-----------------------------------------------------------------------------
(* The functions of mcast.c on the state of one machine.                   *)

(* craftPackets: build at least one packet and go on until the end of the  *)
(* send window meets its start, or all are built.                          *)
craftPackets(p, s) ==
    IF s.num_built = NumPackets[p] THEN s
    ELSE LET full == CHOOSE b \in s.num_built + 1 .. s.num_built + SEND_WINDOW_SIZE :
                       (b - s.num_sent) % SEND_WINDOW_SIZE = 0
         IN  [s EXCEPT !.num_built = IF full < NumPackets[p] THEN full ELSE NumPackets[p]]

(* MUTANT: a late copy of a packet that was written is taken again.        *)
processDataPacketLate(s, m) ==
    IF m.seq_num > window_end(s) THEN s
    ELSE [s EXCEPT !.packets[m.seq_num % WINDOW_SIZE] = m]

(* processDataPacket                                                       *)
processDataPacket(s, m) ==
    IF m.seq_num < s.window_start \/ m.seq_num > window_end(s) THEN s
    ELSE [s EXCEPT !.packets[m.seq_num % WINDOW_SIZE] = m]

(* The highest number up to which nothing is missing, at most one before   *)
(* the end of the window.                                                  *)
getConsecutiveAck(s) ==
    CHOOSE a \in s.window_start - 1 .. window_end(s) - 1 :
        /\ \A i \in s.window_start .. a : received(s, i)
        /\ a = window_end(s) - 1 \/ ~received(s, a + 1)

(* What slideGlobalWindow does when it writes up to number last.           *)
deliverTo(s, last) ==
    LET done == s.window_start .. last
    IN  [s EXCEPT
           !.file = s.file \o [k \in 1 .. Cardinality(done) |->
                                 s.packets[(s.window_start + k - 1) % WINDOW_SIZE]],
           !.packets = [i \in Slots |-> IF \E n \in done : i = n % WINDOW_SIZE
                                        THEN NoPacket ELSE s.packets[i]],
           !.window_start = s.window_start + Cardinality(done)]

(* MUTANT: only the token's ack counts.                                    *)
slideToTokenAck(s, ack) == deliverTo(s, ack)

(* MUTANT: only the own ack counts.                                        *)
slideToOwnAck(s, ack) == deliverTo(s, s.previous_ack)

(* Write what this machine acknowledged in its last token and the ring     *)
(* still acknowledges, and slide the window.                               *)
slideGlobalWindow(s, ack) ==
    deliverTo(s, IF s.previous_ack <= ack THEN s.previous_ack ELSE ack)

(* What lies in the slot of the j-th packet to send: the last one built    *)
(* into it.                                                                *)
unsent(s, j) == j + SEND_WINDOW_SIZE * ((s.num_built - 1 - j) \div SEND_WINDOW_SIZE)

(* The packets that sendPackets sends after number seq_num.                *)
toSend(p, s, seq_num) ==
    LET n == Cardinality({i \in 1 .. MAX_MESSAGE : /\ seq_num + i <= window_end(s)
                                                   /\ s.num_sent + i <= s.num_built})
    IN  [i \in 1 .. n |-> [seq_num |-> seq_num + i, proc_num |-> p,
                           number |-> unsent(s, s.num_sent + i - 1)]]

(* sendPackets on the sender's own state.                                  *)
sendPackets(s, ms) ==
    LET inSlot(i) == {k \in DOMAIN ms : ms[k].seq_num % WINDOW_SIZE = i}
    IN  [s EXCEPT
           !.packets = [i \in Slots |-> IF inSlot(i) # {} THEN ms[CHOOSE k \in inSlot(i) : TRUE]
                                        ELSE s.packets[i]],
           !.num_sent = s.num_sent + Len(ms)]

getNewAck(s, tokenAck, seq_num) ==
    LET consecutiveAck == getConsecutiveAck(s) IN
    IF \/ consecutiveAck < tokenAck
       \/ tokenAck = seq_num
       \/ tokenAck = s.previous_ack
    THEN consecutiveAck ELSE tokenAck

(* MUTANT: the first missing number is skipped.                            *)
missingAfterFirst(s, seq_num) ==
    LET lacking == {i \in getConsecutiveAck(s) + 2 .. seq_num : ~received(s, i)}
    IN  {i \in lacking : Cardinality({j \in lacking : j < i}) < MAX_NAK}

(* addNacks: the first MAX_NAK numbers whose slot is empty.                *)
missing(s, seq_num) ==
    LET lacking == {i \in getConsecutiveAck(s) + 1 .. seq_num : ~received(s, i)}
    IN  {i \in lacking : Cardinality({j \in lacking : j < i}) < MAX_NAK}

buildToken(s, seq_num, newAck, rand_num) ==
    [s EXCEPT !.previous_token =
                [s.previous_token EXCEPT
                          !.sent = TRUE, !.type = "TOKEN", !.seq_num = seq_num,
                          !.ack = newAck, !.nak = missing(s, seq_num),
                          !.rand_num = rand_num],
              !.previous_ack = newAck]

(* What resendNaks sends: the packet in the slot of each NAK, if any.      *)
resendNaks(s, t) == {s.packets[n % WINDOW_SIZE] : n \in {i \in t.nak : received(s, i)}}

-----------------------------------------------------------------------------
Init ==
    /\ local = [p \in Machines |->
                  craftPackets(p,
                    [state |-> "WAITING_START", num_built |-> 0, num_sent |-> 0,
                     window_start |-> 0, packets |-> [i \in Slots |-> NoPacket],
                     previous_ack |-> -1, file |-> <<>>,
                     previous_token |->
                       [sent |-> FALSE, type |-> "TOKEN", seq_num |-> 0, ack |-> 0,
                        nak |-> {}, num_shutdown |-> 0, rand_num |-> 0]])]
    /\ net = {}
    /\ losses = 0
    /\ FINsent = FALSE
    /\ order = <<>>

(* Everybody's socket gets what is multicast, the sender's own included.   *)
multicast(ms) == net' = net \cup (Machines \X ms)

(* Token numbers are only compared with each other: keeping their          *)
(* differences keeps the model finite.                                     *)
ranked(l) ==
    LET rands == {l[p].previous_token.rand_num : p \in Machines}
        least == CHOOSE r \in rands : \A other \in rands : r <= other
    IN  [p \in Machines |-> [l[p] EXCEPT !.previous_token.rand_num = @ - least]]

(* processStartPacket: everybody starts; machine 1 makes the first token.  *)
Start(p) ==
    LET s    == [local[p] EXCEPT !.state = "RUNNING"]
        ms   == toSend(p, s, -1)
        last == Len(ms) - 1
    IN  /\ local[p].state = "WAITING_START"
        /\ IF p = 1
           THEN /\ local' = [local EXCEPT ![p] = buildToken(sendPackets(s, ms), last, last, 1)]
                /\ multicast({ms[k] : k \in DOMAIN ms})
                /\ order' = order \o ms
           ELSE /\ local' = [local EXCEPT ![p] = s]
                /\ UNCHANGED <<net, order>>
        /\ UNCHANGED <<losses, FINsent>>

running(p) == local[p].state \in {"RUNNING", "FINISHED"}

(* The copies that sendToken sends to p, and handleTimeout again as long   *)
(* as there is a token.                                                    *)
tokenFor(p) == local[previous(p)].previous_token
arrives(p) == tokenFor(p).sent /\ tokenFor(p).type = "TOKEN"

(* MUTANT: tokens that come again are not told apart.                      *)
freshAlways(p) == arrives(p)

(* The token is not one that p has had before.                             *)
fresh(p) == arrives(p) /\ tokenFor(p).rand_num > local[p].previous_token.rand_num

(* processToken with state s of p, token t and the new state: p has sent   *)
(* all and has written what the token it received counts.                  *)
finishes(p, s, t, new) ==
    /\ new.num_sent = NumPackets[p]
    /\ s.state # "FINISHED"
    /\ new.window_start = t.seq_num + 1

(* MUTANT: the count of finished machines is enough.                       *)
endsOnCount(p, s, t, new) ==
    ~finishes(p, s, t, new) /\ t.num_shutdown = numProcesses

(* All are finished and p had acknowledged all before this token.          *)
ends(p, s, t, new) ==
    /\ ~finishes(p, s, t, new)
    /\ t.num_shutdown = numProcesses
    /\ s.previous_ack = t.seq_num

marked(p, s, t, new) ==
    IF finishes(p, s, t, new)
    THEN [new EXCEPT !.state = "FINISHED",
                     !.previous_token.num_shutdown = t.num_shutdown + 1]
    ELSE [new EXCEPT !.previous_token.type =
                       IF ends(p, s, t, new) THEN "FIN" ELSE "TOKEN"]

(* processToken; the sets of one element let TLC evaluate each step once.  *)
ReceiveToken(p) ==
    LET s == local[p]
        t == tokenFor(p)
    IN  /\ running(p)
        /\ fresh(p)
        /\ \E slid \in {slideGlobalWindow(s, t.ack)} :
           \E ms   \in {toSend(p, slid, t.seq_num)} :
           \E sent \in {sendPackets(slid, ms)} :
           \E new  \in {buildToken(sent, t.seq_num + Len(ms),
                                   getNewAck(sent, t.ack, t.seq_num), t.rand_num + 1)} :
           \E done \in {marked(p, s, t, new)} :
             /\ local' = ranked([local EXCEPT ![p] = IF done.state = "FINISHED" THEN done
                                                     ELSE craftPackets(p, done)])
             /\ multicast(resendNaks(s, t) \cup {ms[k] : k \in DOMAIN ms})
             /\ FINsent' = (FINsent \/ ends(p, s, t, new))
             /\ order' = order \o ms
        /\ UNCHANGED losses

(* Data is dropped before the start: processStartPacket wants a START.     *)
ReceiveData(p, m) ==
    /\ <<p, m>> \in net
    /\ local[p].state # "EXITED"
    /\ local' = IF running(p) THEN [local EXCEPT ![p] = processDataPacket(@, m)] ELSE local
    /\ net' = net \ {<<p, m>>}
    /\ UNCHANGED <<losses, FINsent, order>>

Lose(p, m) ==
    /\ losses < MaxLoss
    /\ <<p, m>> \in net
    /\ net' = net \ {<<p, m>>}
    /\ losses' = losses + 1
    /\ UNCHANGED <<local, FINsent, order>>

(* closeConnection                                                         *)
ReceiveFIN(p) ==
    /\ FINsent
    /\ running(p)
    /\ local' = [local EXCEPT ![p].state = "EXITED"]
    /\ UNCHANGED <<net, losses, FINsent, order>>

Next ==
    \/ \E p \in Machines : Start(p) \/ ReceiveToken(p) \/ ReceiveFIN(p)
    \/ \E pm \in net : ReceiveData(pm[1], pm[2]) \/ Lose(pm[1], pm[2])

(* Everybody gets the START, the FIN, and, by resending, each token; a     *)
(* packet on the way to p arrives unless it is one of those lost.          *)
DataTo(p, n) == \E pm \in net : pm[2].seq_num = n /\ ReceiveData(p, pm[2])
AllPackets == MapThenSumSet(LAMBDA p : NumPackets[p], Machines)

Fairness ==
    \A p \in Machines :
        /\ WF_vars(Start(p)) /\ WF_vars(ReceiveToken(p)) /\ WF_vars(ReceiveFIN(p))
        /\ \A n \in 0 .. AllPackets - 1 : WF_vars(DataTo(p, n))

Spec == Init /\ [][Next]_vars /\ Fairness
-----------------------------------------------------------------------------
(* Windows, tokens, files and packets have their types; above all, no      *)
(* empty slot is ever written to a file.                                   *)
TypeOK ==
    /\ local \in [Machines -> LocalStates]
    /\ net \subseteq Machines \X Packets
    /\ losses \in 0 .. MaxLoss
    /\ FINsent \in BOOLEAN
    /\ order \in Seq(Packets)

(* At most one machine can take a token, whatever copies of tokens are on  *)
(* the way: two holders would give the same numbers to different packets   *)
(* (processToken discards by rand_num).                                    *)
TokenUnique == Cardinality({p \in Machines : fresh(p)}) <= 1

(* All machines write the packets in one order, that of their numbers,     *)
(* without a gap or a repetition (slideGlobalWindow, processDataPacket).   *)
TO == INSTANCE TotalOrder
          WITH Messages <- Packets, file <- [p \in Machines |-> local[p].file]
ImplementsTotalOrder == TO!Spec

held(p, n) == \/ n < local[p].window_start
              \/ n <= window_end(local[p]) /\ received(local[p], n)

(* "Clears the window upto the sequence num that is received by all the    *)
(* processes" (mcast.c:193): what one machine has cleared, every other one *)
(* has written or holds, so that a NAK never asks for what is gone.        *)
ClearedIsHeld ==
    \A p, q \in Machines : \A n \in 0 .. local[p].window_start - 1 : held(q, n)

(* A FIN is only sent (processToken) when every machine has sent all its   *)
(* packets, and has written or holds all packets.                          *)
FinMeansReceived ==
    FINsent => \A p \in Machines : /\ local[p].num_sent = NumPackets[p]
                                   /\ \A n \in 0 .. Len(order) - 1 : held(p, n)

(* "if all the processes are done sending and all processes have delivered *)
(* packets till the highest seq num in token then multicast FIN packet"    *)
(* (mcast.c:535-536): every machine exits, whatever data is lost (MaxLoss  *)
(* times).  On a ring of two the NAKs recover what is lost and the         *)
(* shutdown count gets to the end.  On a ring of three it need not, even   *)
(* if nothing is lost: a machine that is not just finishing passes on the  *)
(* count of its own previous token (mcast.c:500), so that a count of two   *)
(* falls back to one.                                                      *)
RingFinishes == <>(\A p \in Machines : local[p].state = "EXITED")
=============================================================================
