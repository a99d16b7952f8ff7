---------------------------- MODULE FileTransfer ----------------------------
(***************************************************************************)
(* src/File_Transfer_Application: ncp.c sends a file over UDP to rcv.c,    *)
(* which serves one host at a time.  Both keep a window of WINDOW_SIZE     *)
(* packets; the receiver acknowledges when its window is full or a timer   *)
(* fires, with the numbers it misses, and writes packets in order.         *)
(*                                                                         *)
(* A file is its packets, numbered from 0; the data of a packet is that    *)
(* number, or Empty when the packet has no bytes.                          *)
(***************************************************************************)
EXTENDS Integers, Sequences, FiniteSets

CONSTANTS
    Hosts,              \* hosts that run ncp
    NoHost,             \* currentConnection == NULL
    FileLen,            \* FileLen[h]: packets of the file of h
    WINDOW_SIZE,
    RECV_NUM_RETRY_ACK,
    MaxWire,            \* packets a socket holds; it drops the others
    MaxLoss,            \* bound: packets lost on the way
    MaxEarly,           \* bound: timers that fire before an answer on its way
    MaxKill             \* bound: times an ncp is killed

ASSUME HostsAssumption == NoHost \notin Hosts
ASSUME FilesAssumption == FileLen \in [Hosts -> Nat]
ASSUME WindowAssumption == WINDOW_SIZE \in Nat \ {0}
ASSUME BoundsAssumption ==
    /\ RECV_NUM_RETRY_ACK \in Nat \ {0} /\ MaxWire \in Nat
    /\ MaxLoss \in Nat /\ MaxEarly \in Nat /\ MaxKill \in Nat

VARIABLES
    rcv,       \* the receiver's state, currentConnection, window, retryCounter
    files,     \* files[h]: what the receiver has written for h
    snd,       \* snd[h]: the variables of sender() at h
    toRcv,     \* toRcv[h]: packets on the way from h
    toSnd,     \* toSnd[h]: packets on the way to h
    losses,    \* packets lost so far
    early,     \* timers that fired too early so far
    kills      \* processes killed so far

vars == <<rcv, files, snd, toRcv, toSnd, losses, early, kills>>

Empty == -1
Data == Nat \cup {Empty}
Slots == 0 .. WINDOW_SIZE - 1

SYN == [type |-> "SYN"]
GO == [type |-> "GO"]
FIN == [type |-> "FIN"]
FINACK == [type |-> "FINACK"]
DATA(k, d) == [type |-> "DATA", seq_num |-> k, data |-> d]

ToReceiver == {SYN, FIN} \cup [type : {"DATA"}, seq_num : Nat, data : Data]
ToSender == {GO, FINACK} \cup [type : {"ACK"}, ack : Int, naks : SUBSET Nat]

(* A socket of limited size takes the first of ms.                         *)
Put(q, ms) ==
    IF Len(q \o ms) <= MaxWire THEN q \o ms
    ELSE IF Len(q) >= MaxWire THEN q ELSE SubSeq(q \o ms, 1, MaxWire)

-----------------------------------------------------------------------------
(* The receiver, rcv.c.                                                    *)

freshWindow == [i \in Slots |-> [received |-> FALSE, seq_num |-> i, data |-> Empty]]

idle == [state |-> "IDLE", conn |-> NoHost, window_buffer |-> freshWindow,
         window_min_seq |-> 0, retryCounter |-> 0]

window_max_seq(r) == r.window_min_seq + WINDOW_SIZE - 1

numbers(r, received) ==
    {r.window_buffer[i].seq_num :
       i \in {j \in Slots : r.window_buffer[j].received = received}}

(* The ack is the highest number in the window, or the last one written;   *)
(* the naks are the numbers missing below it.                              *)
buildAckNak(r) ==
    LET got == numbers(r, TRUE)
        ack == IF got = {} THEN r.window_min_seq - 1
               ELSE CHOOSE n \in got : \A k \in got : k <= n
    IN  [type |-> "ACK", ack |-> ack,
         naks |-> IF got = {} THEN {} ELSE {n \in numbers(r, FALSE) : n < ack}]

(* How many packets are there without a gap from the window's start.       *)
consecutive(r) ==
    Cardinality({k \in Slots :
       \A l \in 0 .. k : r.window_buffer[(r.window_min_seq + l) % WINDOW_SIZE].received})

(* What clearWindow writes to the file, and the window it leaves.          *)
written(r) ==
    [k \in 1 .. consecutive(r) |->
       r.window_buffer[(r.window_min_seq + k - 1) % WINDOW_SIZE].data]

(* MUTANT: the slots that were written stay marked as received.            *)
clearWindowMarked(r) ==
    [r EXCEPT !.window_min_seq = @ + consecutive(r)]

clearWindow(r) ==
    LET cleared == {(r.window_min_seq + k - 1) % WINDOW_SIZE : k \in 1 .. consecutive(r)}
    IN  [r EXCEPT
           !.window_buffer =
              [i \in Slots |->
                 IF i \in cleared
                 THEN [received |-> FALSE, seq_num |-> @[i].seq_num + WINDOW_SIZE,
                       data |-> Empty]
                 ELSE @[i]],
           !.window_min_seq = @ + consecutive(r)]

WriteOut(h, r) == files' = [files EXCEPT ![h] = @ \o written(r)]

(* MUTANT: the state is left as it was.                                    *)
closeConnectionBusy ==
    /\ WriteOut(rcv.conn, rcv)
    /\ rcv' = [idle EXCEPT !.state = rcv.state, !.retryCounter = rcv.retryCounter]

closeConnection ==
    /\ WriteOut(rcv.conn, rcv)
    /\ rcv' = [idle EXCEPT !.retryCounter = rcv.retryCounter]

Answer(h, m) == toSnd' = [toSnd EXCEPT ![h] = Put(@, <<m>>)]

Arrives(h, type) ==
    /\ toRcv[h] # <<>> /\ Head(toRcv[h]).type = type
    /\ toRcv' = [toRcv EXCEPT ![h] = Tail(@)]
    /\ UNCHANGED <<snd, losses, early, kills>>

(* processPacket, one action per kind of packet.  A FIN closes the         *)
(* connection when it is its host's, and is answered in any case.          *)
ReceiveFIN(h) ==
    /\ Arrives(h, "FIN")
    /\ Answer(h, FINACK)
    /\ \/ rcv.conn = h /\ closeConnection
       \/ rcv.conn # h /\ UNCHANGED <<rcv, files>>

(* createNewConnection, and the GO.                                        *)
ReceiveSYN(h) ==
    /\ Arrives(h, "SYN") /\ rcv.state = "IDLE"
    /\ rcv' = [idle EXCEPT !.state = "WAITING_DATA", !.conn = h,
                           !.retryCounter = rcv.retryCounter]
    /\ files' = [files EXCEPT ![h] = <<>>]
    /\ Answer(h, GO)

inWindow(k) == k \in rcv.window_min_seq .. window_max_seq(rcv)

stored(k, d) ==
    [rcv EXCEPT !.state = "RECV_DATA",
                !.retryCounter = IF rcv.state = "RECV_DATA" THEN @ ELSE 0,
                !.window_buffer[k % WINDOW_SIZE] =
                    [received |-> TRUE, seq_num |-> @.seq_num, data |-> d]]

(* processDataPacket: the last packet of the window brings the ack of the  *)
(* whole window, and the window is cleared after it.                       *)
ReceiveDATA(h) ==
    /\ Arrives(h, "DATA") /\ rcv.conn = h
    /\ LET m == Head(toRcv[h])
           r == stored(m.seq_num, m.data)
       IN  \/ /\ ~ inWindow(m.seq_num)
              /\ UNCHANGED <<rcv, files, toSnd>>
           \/ /\ inWindow(m.seq_num) /\ m.seq_num # window_max_seq(rcv)
              /\ rcv' = r
              /\ UNCHANGED <<files, toSnd>>
           \/ /\ m.seq_num = window_max_seq(rcv)
              /\ Answer(h, buildAckNak(r))
              /\ WriteOut(h, r)
              /\ rcv' = clearWindow(r)

(* Data without a connection: the sender is told to begin again.           *)
ReceiveStrayDATA(h) ==
    /\ Arrives(h, "DATA") /\ rcv.conn = NoHost
    /\ Answer(h, FINACK)
    /\ UNCHANGED <<rcv, files>>

(* While a connection exists everything else is ignored, without a WAIT.   *)
IgnorePacket(h) ==
    /\ \/ Arrives(h, "SYN") /\ rcv.state # "IDLE"
       \/ Arrives(h, "DATA") /\ rcv.conn \notin {h, NoHost}
    /\ UNCHANGED <<rcv, files, toSnd>>

(* A timer fires when nothing is on the way between the receiver and the   *)
(* host h, or too early.                                                   *)
TimerFires(h) ==
    \/ toRcv[h] = <<>> /\ toSnd[h] = <<>> /\ UNCHANGED early
    \/ ~ (toRcv[h] = <<>> /\ toSnd[h] = <<>>) /\ early < MaxEarly /\ early' = early + 1

(* handleTimeout.  retryCounter is only compared with RECV_NUM_RETRY_ACK,  *)
(* so it stops one above it.                                               *)
retried == IF rcv.retryCounter > RECV_NUM_RETRY_ACK THEN rcv.retryCounter
           ELSE rcv.retryCounter + 1

ReceiverTimeout ==
    /\ rcv.state # "IDLE"
    /\ TimerFires(rcv.conn)
    /\ \/ /\ \/ rcv.state = "WAITING_DATA"
             \/ rcv.state = "RECV_DATA" /\ rcv.retryCounter = RECV_NUM_RETRY_ACK
          /\ closeConnection
          /\ UNCHANGED toSnd
       \/ /\ rcv.state = "RECV_DATA" /\ rcv.retryCounter # RECV_NUM_RETRY_ACK
          /\ Answer(rcv.conn, buildAckNak(rcv))
          /\ WriteOut(rcv.conn, rcv)
          /\ rcv' = [clearWindow(rcv) EXCEPT !.state = "WAIT_RESPONSE"]
       \/ /\ rcv.state = "WAIT_RESPONSE"
          /\ Answer(rcv.conn, buildAckNak(rcv))
          /\ rcv' = [rcv EXCEPT !.retryCounter = retried]
          /\ UNCHANGED files
    /\ UNCHANGED <<snd, toRcv, losses, kills>>

-----------------------------------------------------------------------------
(* The sender, ncp.c.  Phase SYN is establish_conn, DATA the loop of       *)
(* sender(), EXIT the end of the process.                                  *)

sender ==
    [phase |-> "SYN", start_seq |-> 0, new_start |-> WINDOW_SIZE, hasnacks |-> FALSE,
     sent_fin |-> FALSE, begun |-> FALSE, max_value |-> 0,
     recvd |-> [i \in Slots |-> FALSE],   \* recvd[i] == 1
     empty |-> {},                        \* the slots with size[i] == 0
     misled |-> FALSE]                    \* history: a GO came late

outstanding(s) == s.start_seq .. s.max_value - 1

(* The number of the packet in slot i: the last one read into it.          *)
inSlot(s, i) == s.max_value - 1 - ((s.max_value - 1 - i) % WINDOW_SIZE)

dataOf(s, i) == IF i \in s.empty THEN Empty ELSE inSlot(s, i)

(* The FIN is sent from packets[0], which keeps its type.                  *)
resent(s, i) ==
    IF i = 0 /\ s.sent_fin THEN FIN ELSE DATA(inSlot(s, i), dataOf(s, i))

missing(s) == {k \in outstanding(s) : ~ s.recvd[k % WINDOW_SIZE]}

nth(M, j) == CHOOSE k \in M : Cardinality({l \in M : l <= k}) = j

resends(s) ==
    IF s.hasnacks
    THEN [j \in 1 .. Cardinality(missing(s)) |-> resent(s, nth(missing(s), j) % WINDOW_SIZE)]
    ELSE <<>>

(* The loop reads when the window has moved: as many packets as it moved,  *)
(* or as the file still has; the read that finds its end clears the size   *)
(* of one more slot.                                                       *)
mayRead(s) == ~ s.sent_fin /\ s.start_seq < s.new_start

toRead(h, s) ==
    IF s.max_value + s.new_start - s.start_seq <= FileLen[h] THEN s.new_start - s.start_seq
    ELSE FileLen[h] - s.max_value

readIn(h, s) ==
    LET j == toRead(h, s)
        ended == j < s.new_start - s.start_seq
        end == IF ended THEN s.max_value + j ELSE s.max_value + j - 1
        touched == {k % WINDOW_SIZE : k \in s.max_value .. end}
    IN  [s EXCEPT
           !.recvd = [i \in Slots |-> @[i] \/ i \in touched],
           !.empty = IF ended THEN (@ \ touched) \cup {end % WINDOW_SIZE} ELSE @ \ touched,
           !.max_value = @ + j,
           !.start_seq = IF s.begun /\ j > 0 THEN s.new_start ELSE @,
           !.begun = @ \/ j > 0,
           !.sent_fin = j = 0 /\ ~ s.hasnacks]

(* The loop up to the next check(), from the state s.                      *)
looped(h, s) == IF mayRead(s) THEN readIn(h, s) ELSE s

newPackets(h, s) ==
    LET r == readIn(h, s)
    IN  IF ~ mayRead(s) THEN <<>>
        ELSE IF r.sent_fin THEN <<FIN>>
        ELSE [j \in 1 .. toRead(h, s) |->
                LET k == s.max_value + j - 1 IN DATA(k, dataOf(r, k % WINDOW_SIZE))]

loopSends(h, s) == resends(s) \o newPackets(h, s)

Continue(h, s) ==
    /\ snd' = [snd EXCEPT ![h] = looped(h, s)]
    /\ toRcv' = [toRcv EXCEPT ![h] = Put(@, loopSends(h, s))]

Pings(h) ==
    /\ snd' = [snd EXCEPT ![h] = sender]
    /\ toRcv' = [toRcv EXCEPT ![h] = Put(@, <<SYN>>)]

SndReceives(h, phase, types) ==
    /\ snd[h].phase = phase
    /\ toSnd[h] # <<>> /\ Head(toSnd[h]).type \in types
    /\ toSnd' = [toSnd EXCEPT ![h] = Tail(@)]
    /\ UNCHANGED <<rcv, files, losses, early, kills>>

(* establish_conn returns on a GO; any other packet repeats the SYN.       *)
ReceiveGO(h) ==
    /\ SndReceives(h, "SYN", {"GO"})
    /\ Continue(h, [snd[h] EXCEPT !.phase = "DATA"])

PingAgain(h) == SndReceives(h, "SYN", {"ACK", "FINACK"}) /\ Pings(h)

(* MUTANT: the sender goes on after the ack, whatever the naks say.        *)
afterAckOnly(s, m) ==
    [s EXCEPT !.recvd = [i \in Slots |-> @[i] /\ i \notin {k % WINDOW_SIZE : k \in m.naks}],
              !.hasnacks = m.naks # {},
              !.new_start = m.ack + 1]

(* MUTANT: the packets above the ack are taken for received.               *)
afterAckTrusting(s, m) ==
    [s EXCEPT !.recvd = [i \in Slots |-> @[i] /\ i \notin {k % WINDOW_SIZE : k \in m.naks}],
              !.hasnacks = m.naks # {},
              !.new_start = IF m.naks = {} THEN s.max_value
                            ELSE CHOOSE n \in m.naks : \A k \in m.naks : n <= k]

afterAck(s, m) ==
    LET above == m.ack + 1 .. s.max_value - 1
        first == IF m.naks # {} THEN CHOOSE n \in m.naks : \A k \in m.naks : n <= k
                 ELSE m.ack + 1
        all == m.naks = {} /\ m.ack = s.max_value - 1
    IN  [s EXCEPT
           !.recvd = [i \in Slots |->
                        @[i] /\ i \notin {k % WINDOW_SIZE : k \in m.naks \cup above}],
           !.hasnacks = (@ \/ m.naks \cup above # {}) /\ ~ all,
           !.new_start = IF m.naks # {} \/ above # {} THEN first
                         ELSE IF all THEN s.max_value ELSE @]

ReceiveACK(h) ==
    /\ SndReceives(h, "DATA", {"ACK"})
    /\ Continue(h, afterAck(snd[h], Head(toSnd[h])))

(* The loop only prints an error, and goes on: it has not been told of an  *)
(* ack, and reads on all the same.                                         *)
ReceiveLateGO(h) ==
    /\ SndReceives(h, "DATA", {"GO"})
    /\ Continue(h, [snd[h] EXCEPT !.misled = TRUE])

(* A FINACK ends the process if it has sent a FIN, else sender() begins    *)
(* again.                                                                  *)
ReceiveFINACK(h) ==
    /\ SndReceives(h, "DATA", {"FINACK"})
    /\ \/ /\ snd[h].sent_fin
          /\ snd' = [snd EXCEPT ![h] = [sender EXCEPT !.phase = "EXIT",
                                                       !.misled = snd[h].misled]]
          /\ UNCHANGED toRcv
       \/ ~ snd[h].sent_fin /\ Pings(h)

(* What was sent to a process that is gone is dropped.                     *)
DropAtGone(h) ==
    /\ \E phase \in {"EXIT", "GONE"} : SndReceives(h, phase, {"GO", "FINACK", "ACK"})
    /\ UNCHANGED <<snd, toRcv>>

(* MUTANT: the packets are marked but not resent.                          *)
doubtedSilently(s) ==
    [s EXCEPT !.recvd = [i \in Slots |-> @[i] /\ i \notin {k % WINDOW_SIZE : k \in outstanding(s)}],
              !.new_start = s.start_seq]

doubted(s) ==
    [s EXCEPT !.recvd = [i \in Slots |-> @[i] /\ i \notin {k % WINDOW_SIZE : k \in outstanding(s)}],
              !.hasnacks = @ \/ outstanding(s) # {},
              !.new_start = s.start_seq]

(* check() returns NULL, in establish_conn, after a FIN and before it.     *)
SynTimeout(h) ==
    /\ snd[h].phase = "SYN" /\ TimerFires(h) /\ Pings(h)
    /\ UNCHANGED <<rcv, files, toSnd, losses, kills>>

FinTimeout(h) ==
    /\ snd[h].phase = "DATA" /\ snd[h].sent_fin /\ TimerFires(h)
    /\ snd' = [snd EXCEPT ![h].hasnacks = FALSE]
    /\ toRcv' = [toRcv EXCEPT ![h] = Put(@, <<FIN>>)]
    /\ UNCHANGED <<rcv, files, toSnd, losses, kills>>

DataTimeout(h) ==
    /\ snd[h].phase = "DATA" /\ ~ snd[h].sent_fin /\ TimerFires(h)
    /\ Continue(h, doubted(snd[h]))
    /\ UNCHANGED <<rcv, files, toSnd, losses, kills>>

-----------------------------------------------------------------------------
(* sendto_dbg drops a packet, or the network does.                         *)
without(q, i) == SubSeq(q, 1, i - 1) \o SubSeq(q, i + 1, Len(q))

Lose(h) ==
    /\ losses < MaxLoss
    /\ losses' = losses + 1
    /\ \/ /\ \E i \in DOMAIN toRcv[h] : toRcv' = [toRcv EXCEPT ![h] = without(@, i)]
          /\ UNCHANGED toSnd
       \/ /\ \E i \in DOMAIN toSnd[h] : toSnd' = [toSnd EXCEPT ![h] = without(@, i)]
          /\ UNCHANGED toRcv
    /\ UNCHANGED <<rcv, files, snd, early, kills>>

(* An ncp may be killed, with what its socket held, and be run again.      *)
Kill(h) ==
    /\ kills < MaxKill /\ snd[h].phase \in {"SYN", "DATA"}
    /\ kills' = kills + 1
    /\ snd' = [snd EXCEPT ![h] = [sender EXCEPT !.phase = "GONE"]]
    /\ toSnd' = [toSnd EXCEPT ![h] = <<>>]
    /\ UNCHANGED <<rcv, files, toRcv, losses, early>>

RunAgain(h) ==
    /\ snd[h].phase = "GONE" /\ Pings(h)
    /\ UNCHANGED <<rcv, files, toSnd, losses, early, kills>>

(* Every ncp is started and has sent its first SYN.                        *)
Init ==
    /\ rcv = idle
    /\ files = [h \in Hosts |-> <<>>]
    /\ snd = [h \in Hosts |-> sender]
    /\ toRcv = [h \in Hosts |-> <<SYN>>]
    /\ toSnd = [h \in Hosts |-> <<>>]
    /\ losses = 0 /\ early = 0 /\ kills = 0

ReceiverStep(h) ==
    \/ ReceiveFIN(h) \/ ReceiveSYN(h) \/ ReceiveDATA(h) \/ ReceiveStrayDATA(h)
    \/ IgnorePacket(h)

SenderStep(h) ==
    \/ ReceiveGO(h) \/ PingAgain(h) \/ ReceiveACK(h) \/ ReceiveLateGO(h)
    \/ ReceiveFINACK(h) \/ DropAtGone(h)

SenderTimeout(h) == SynTimeout(h) \/ FinTimeout(h) \/ DataTimeout(h)

Next ==
    \/ \E h \in Hosts : ReceiverStep(h) \/ SenderStep(h) \/ SenderTimeout(h) \/ Lose(h)
                    \/ Kill(h) \/ RunAgain(h)
    \/ ReceiverTimeout

Spec == Init /\ [][Next]_vars

(* Both event loops read what is there and their timers fire; the          *)
(* receiver's also fires between the SYNs of hosts that wait.              *)
FairSpec ==
    /\ Spec
    /\ \A h \in Hosts : WF_vars(ReceiverStep(h)) /\ WF_vars(SenderStep(h))
                          /\ WF_vars(SynTimeout(h)) /\ WF_vars(DataTimeout(h))
                          /\ SF_vars(FinTimeout(h))
    /\ SF_vars(ReceiverTimeout)

-----------------------------------------------------------------------------
Senders ==
    [phase : {"SYN", "DATA", "EXIT", "GONE"}, start_seq : Nat, new_start : Nat,
     hasnacks : BOOLEAN, sent_fin : BOOLEAN, begun : BOOLEAN, max_value : Nat,
     recvd : [Slots -> BOOLEAN], empty : SUBSET Slots,
     misled : BOOLEAN]

Receivers ==
    [state : {"IDLE", "WAITING_DATA", "RECV_DATA", "WAIT_RESPONSE"},
     conn : Hosts \cup {NoHost},
     window_buffer : [Slots -> [received : BOOLEAN, seq_num : Nat, data : Data]],
     window_min_seq : Nat, retryCounter : 0 .. RECV_NUM_RETRY_ACK + 1]

(* The types; a connection exists exactly when the receiver is not IDLE,   *)
(* which is why the branch that sends a WAIT is never taken.               *)
TypeOK ==
    /\ rcv \in Receivers
    /\ rcv.state = "IDLE" <=> rcv.conn = NoHost
    /\ files \in [Hosts -> Seq(Data)]
    /\ snd \in [Hosts -> Senders]
    /\ toRcv \in [Hosts -> Seq(ToReceiver)]
    /\ toSnd \in [Hosts -> Seq(ToSender)]
    /\ losses \in 0 .. MaxLoss /\ early \in 0 .. MaxEarly /\ kills \in 0 .. MaxKill

(* No packet of a file is empty: what is written is the host's file, as    *)
(* far as it goes.  True when timers fire early, and when an ncp is        *)
(* killed; not when both happen.                                           *)
FileIsPrefix ==
    /\ \A h \in Hosts : \A k \in DOMAIN files[h] : files[h][k] = k - 1
    /\ rcv.conn # NoHost => Len(files[rcv.conn]) = rcv.window_min_seq

(* A sender that overwrites a slot or sends a FIN knows that the receiver  *)
(* has the packets it gives up, unless a GO came late in its transfer.     *)
(* True when timers fire early, and when an ncp is killed; not when both   *)
(* happen.                                                                 *)
GivenUp(s) == IF s.sent_fin THEN 0 .. s.max_value - 1
              ELSE 0 .. s.max_value - WINDOW_SIZE - 1

held(h) == {k - 1 : k \in DOMAIN files[h]}
             \cup (IF rcv.conn = h THEN numbers(rcv, TRUE) ELSE {})

GivenUpIsHeld ==
    \A h \in Hosts : snd[h].phase = "DATA" /\ ~ snd[h].misled
                       => GivenUp(snd[h]) \subseteq held(h)

(* An ncp is done when it exits and no GO came late in its transfer.       *)
Promise == INSTANCE ReliableCopy
             WITH copy <- files, served <- rcv.conn,
                  done <- {h \in Hosts : snd[h].phase = "EXIT" /\ ~ snd[h].misled}

(* Every step of the two programs is a step of the promise or none: a file *)
(* grows by the next packets or is begun again, and the file of an ncp     *)
(* that is done is complete and stays as it is.  True when timers fire     *)
(* early, and when an ncp is killed; not when both happen.                 *)
ImplementsReliableCopy == Promise!Spec

(* Every ncp exits, when no timer fires too early and none is killed.      *)
AllExit ==
    [](early = 0 /\ kills = 0) => <>(\A h \in Hosts : snd[h].phase = "EXIT")
=============================================================================
