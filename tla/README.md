# Verification of JHU_Distributed

TLA+ models of the programs of this repository, TLC runs that check them on
small instances, and theorems about them that TLAPS proves for every value of
the constants.

The repository holds the projects of a distributed systems course in C: a
replicated mail system over the Spread toolkit, a token-ring multicast over
UDP, a file transfer over UDP, and a flow-controlled multicast over Spread.
The mail system with its client and its files, both multicast programs and the
file transfer are modelled; section *Not modelled* says what is left out.

## 1. Inventory

Paths are relative to `src/`.

### Mail server (`Distributed_Mail_System/server.c`, `vector.c`, `include/mail.h`)

Five servers, each with the whole mail state. One process with one event loop:
Spread delivers a message, `readSpreadMessage` dispatches it, the handler runs
to its end.

* **State and updates.** State: `updateIndex` (the Lamport counter), five lists
  of stored updates (`local_update_buffer`), the users, their mails, the matrix
  `latest_update`. A client's command (`COMMAND`) becomes an update
  (`generateUpdate`), which the server applies (`applyUpdate`) and multicasts to
  the other servers; an `UPDATE` from the network is applied the same way. An
  update that is in the buffer already is ignored. It must hold that stamps are
  unique and respect what their server had seen, that the vector says what was
  received, and that changes of a mail follow the mail.
* **Reconciliation and flow control.** State: `status`, `current_membership`,
  `num_matrix_recvd`, the ranges `fc.min_max`. A membership of more than one
  server sends the matrix; the matrix that completes the count purges what every
  server has, plans the ranges to resend and sends the first `MAX_SEND` updates;
  every own message that comes back sends one more. It must hold that no server
  is credited with what it lacks, that nothing is purged that someone needs,
  that connected servers come to the same vectors whatever interrupts them, and
  that resending ends.
* **Linked lists.** `vector.c`: sorted lists of updates (by index), mails (by
  stamp, with a second walk among equal indices) and users. It must hold that a
  list is the set it stands for.
* **Recovery files** (`writer.c`, `recover.c`). The update buffer, the matrix,
  the users and every mailbox are files, written to a temporary file, then
  `remove`, `rename`, `fclose`. On start `recover.c` loads them and `main`
  applies the last update of every server again. It must hold that a crash
  between any two writes leaves a state in which the matrix claims nothing that
  is not there, nothing that a client was answered for is lost, and the next
  stamp is new: the counter itself is in no file.

### Mail client (`Distributed_Mail_System/client.c`)

User name, server connection, the list of mails with its two counts, and `wait`:
one command at a time, answered by the server. A list comes as a header with the
number of mails and one message per mail; a mail is read and deleted by its
number in the list. The client keeps its list when it connects to another
server. It must hold that what is displayed is what a server listed, that a
number stands for the mail that was displayed with it, and that a wait ends.

### Spread (`Distributed_Mail_System/include/sp*.h`, `spread.conf`, libraries)

Vendored. Its agreed (totally ordered) delivery within a component and its
membership messages are what the mail servers rest on.

### Token ring multicast (`Multicast_Application/mcast.c`, `mcast.h`, `start_mcast.c`)

State: a window of packets, own token counters, ack, NAK list. The token carries
the sequence number, the ack, NAKs and the number of finished processes; data is
multicast over UDP, the token is sent to the successor and again on a timeout.
It must hold that all processes deliver the same sequence, that nothing is
cleared that someone lacks, and that the ring shuts down.

### File transfer (`File_Transfer_Application/ncp.c`, `rcv.c`, `packet_header.h`)

A sender with a window, a receiver that serves one sender at a time and lets the
others wait: SYN, GO or WAIT, DATA, ACK with NAKs, FIN, FINACK, each side with a
timer. A host that is not served repeats its SYN until its turn comes. It must
hold that the receiver's file is a prefix of the sender's at all times and equal
to it when the sender has finished, and that everyone is served in the end.

### Flow-controlled multicast over Spread (`Spread_Mcast_Application/mcast.c`)

Each process sends its messages in a window measured from the slowest process,
then a FIN, and exits after the FIN of all. It must hold that none exits early
and none waits for ever.

### The rest

`Submission/tsorrel3/` is a byte-identical copy of the mail system with its
design document. `sendto_dbg.c` and `recv_dbg.c` drop packets at random,
`interface/` has test drivers; `t_ncp.c`, `t_rcv.c`, `ucast.c`, `file_copy.c`
and the examples of weeks 1 and 2 are read and write loops. They are not
modelled.

### What is hard in this code

No threads, but processes whose handlers interleave through messages: views that
cut a reconciliation short, matrices of an earlier view, live updates between
resent ones, echoes that drive the resending, purging by what others reported,
crashes between file operations, lost packets and tokens sent twice.
`PROJECT.json` lists each hazard at its line with the properties about it.

## 2. The modules

| Module | Models | Role |
| --- | --- | --- |
| `MailVectors` | `vector.c` | the lists as sequences, the functions as operators |
| `MailState` | `struct state_type` and the functions of `server.c` on it | a state record and operators from states to states |
| `MailServer` | the handlers of `server.c` and Spread | the specification: variables, actions, properties |
| `UpdateLog` | what replication promises | abstract specification that `MailServer` implements |
| `FlowControl` | the loop of `sendMissingUpdates` | detailed specification of an operator of `MailState` |
| `MailLists` | the lists under the calls of the server | the operators of `MailVectors` against sets |
| `SpreadMcast` | `Spread_Mcast_Application/mcast.c` and Spread | the specification of that program |
| `MulticastJob` | what a multicast job promises | abstract specification that `SpreadMcast` implements |
| `TokenRing` | `Multicast_Application/mcast.c` and UDP | the specification of that program |
| `TotalOrder` | what a totally ordered multicast promises | abstract specification that `TokenRing` implements |
| `FileTransfer` | `File_Transfer_Application/ncp.c`, `rcv.c` and UDP | the specification of both programs |
| `ReliableCopy` | what a file transfer promises | abstract specification that `FileTransfer` implements |
| `MailRecovery` | `writer.c`, `recover.c`, the start of `server.c` | one server with its files, over the operators of `MailState` |
| `MailClient` | `client.c` and the replies of `server.c` | the specification of the client |
| `MCMailServer`, `MCMailLists`, `MCSpreadMcast`, `MCTokenRing`, `MCFileTransfer`, `MCMailRecovery`, `MCMailClient` | | instances for TLC |
| `MailStateProofs` | | lemmas about `MailVectors` and `MailState` |
| `MailServerProofs` | | types, stamps, knowledge, purging, quiet components, mails and windows of `MailServer` |
| `MailSequentialProofs` | | `FlowControl`, `MailLists` |
| `SpreadMcastProofs` | | types, window and refinement of `SpreadMcast` |
| `MailClientProofs` | | lists and numbers of `MailClient` |
| `TokenRingProofs` | | types, token, refinement and shutdown of `TokenRing` |
| `MailRecoveryProofs` | | types and what a restart brings back, of `MailRecovery` |
| `FileTransferProofs` | | types of `FileTransfer`; its files and refinement without early timers, and without kills |

**Correspondence.** `local_state[s]` has the fields of `local_state` in
`server.c` under their names; `buffer` is the set of the updates in the five
lists, `min_max` the ranges of `fc`, `emails[u]` the list of mails of user `u`.
An action of `MailServer` is a handler from the delivery of its message to its
return: `ReceiveUpdate`, `IgnoreMatrix`, `ReceiveMatrix`, `ReceiveLastMatrix`
and `ReceiveView` are the branches of `processRegularMessage` and
`processMembershipMessage`; `NewUser`, `NewMail`, `DeleteMail` and `ReadMail`
are the commands that create an update. All that a handler does to the state is
in its action: `ReceiveLastMatrix` merges, counts, purges, plans and sends the
first batch.

**Spread** is external and modelled from how the code uses it. `net[s]` is the
queue that Spread will deliver to `s`; a multicast appends to the queue of every
member of the sender's component in one step (agreed delivery: one order for
all). `Split` separates a component into two: the messages that no server of a
group has read may be lost to it from some point on, except those of its own
members, and the group sees the same ones; then it gets a view. `Merge` joins two components and puts
a view behind what is on the way. Membership messages with more than
one server are the ones that start a reconciliation.

**Data.** Mail texts, subjects and names are left out; a user is a model value
and a mail its stamp. `proc_num` of a new update is never set by
`generateUpdate`: the model takes any value of `HeaderJunk`. Replies to clients
change no server state and are in `MailClient` only; files and restarts are in
`MailRecovery` only. The loop of
`sendMissingUpdates` is one step in `MailState` (`toSend`, `restOfRange`), and
`FlowControl` shows that the loop does exactly that.

**The multicast job.** `SpreadMcast` has one action per kind of message that
`Read_message` handles; the sending that follows (`sendMessages`) and the exit
(`Bye`) are part of it. What a process hands to Spread waits in `outbox[p]` until
Spread takes it into `log`, the one order in which all members read, so the
messages of a batch mix with those of other processes in every way. Payload and
random numbers are left out; every process has its own number of messages, as on
its command line. `Fail` is a process that is killed or loses its daemon: what
Spread has not ordered is lost and the others get a smaller membership. A
partition of the group and a process that starts again under its old index are
not modelled: the program has no code for either.

**The token ring.** `local[p]` joins `senderWindow`, `globalWindow` and
`processState` of machine `p`; the functions of `mcast.c` are operators on that
record, under their names, and `ReceiveToken` applies them in the order of
`processToken`. Data on the way is a set of pairs of a receiver and a packet, so
it is delayed and reordered at will, and `Lose` takes some away; everybody's
socket gets a multicast, also the sender's. Tokens are not in it: the code sends
each one twenty times and again on every timeout, unchanged, until the machine
builds the next one, so `previous_token` of a machine can reach the next machine
at any time and any number of times, and one read of it is one arrival. That a
token is taken once is the work of `rand_num`, a counter that is only compared;
the model subtracts the least one from all, which keeps it finite. A packet is
its number, its sender and the build its random number comes from, so packets
that `craftPackets` overwrites unsent are seen. A slot is `received` whatever
number its packet has, as in the code. Left out: the addresses in the token
(they decide only whether a token goes to one machine or to all, and the others
ignore it), `TOKEN_SENT` and `AWAITING_TOKEN`, which no code tells apart, and a
machine that dies.

**The file transfer.** `rcv` is the receiver with its window, `snd[h]` the
variables of `sender()` at host `h`, whose `phase` is the loop it is in. An
action is one pass of an event loop: the packet it reads or the timer that fires,
what is written and cleared, and all that is sent in that pass (`resends`,
`newPackets`). A file is its packets, numbered from 0. A packet's data is that
number, or `Empty`: `readIn` counts on after the end of the file, as the code
does, and a slot of the sender's window is reused, so a resent packet may carry
other bytes than its first sending; `FileIsPrefix` would show it. The network
drops packets (`Lose`, and sockets that are full) and keeps the order between two
hosts, which the code itself assumes: neither side has a number of a connection
by which it could tell late packets of an earlier one. `Kill` ends an ncp
anywhere, `RunAgain` starts it for the same file. Timers fire when nothing is on
the way that would come before them; `early` counts those that fire anyway.

**Recovery.** `MailRecovery` is one server `Me`. A handler changes the state and
leaves its writes in `todo` in the order of the code; `WriteFile` does them one by
one, and only then is the update sent and the client answered. `Crash` comes
between two writes, or inside one (`remains`: the old file is gone, or there and
the new one empty, short or whole); `torn` records a crash that left a file
behind the others; a file that does not exist is not in the domain of `disk`.
`Restart` loads the files, and `Replay` applies the last update of one server
again, for each server in turn, as `main` does before it joins the group: until
then no message is taken (`started`). The other servers are what they send: their updates,
live or in a reconciliation, so in any order and also again, and their matrices, the last of
a reconciliation (with a purge) or one before it.

**The client.** `MailClient` has one action per command of `userCommand` and per
message of `readSpreadMessage`. Each server is its mailboxes (`box`), which change
by its own commands and by what other servers send (`ChangeElsewhere`), and a
queue of commands; `inbox[s]` are its messages on the way to the client. `CutOff`
separates a server from the client for a time: the client learns it from the
membership of their common group, as in the code. Which mail is where is what
matters of a mail; its text is left out.

**History variables.** In `MailClient`, `shown` and `listed` are the list on the
screen and the mailbox that the server listed, `mixed` says that lists of two
servers were mixed; in `MailRecovery`, `made`, `issued` and `others` are the
updates made here, answered for, and made elsewhere, `doing` is the update whose writes are
going on, `effects` the updates that did change a user or a mailbox here, and `passedOver`
those of them that a crash cut off for good. `misled` of `FileTransfer` marks a sender that
a late GO made go on inside an old transfer. `order` of `TokenRing` is the packets in the order in
which they were first sent. `received[s]` is every update that `s` ever stored, and
`resent` marks the messages of `sendMissingUpdates`. No guard reads them, except
that `issueUpdate` counts `received` against the bound `MaxUpdates`.

## 3. The runs

| Run | Question | Instance | Result |
| --- | --- | --- | --- |
| `two_servers` | do servers that separate and meet agree, become quiet and keep the promise of `UpdateLog`, with any junk in the header? | 2 servers with a history each, 1 new command, 3 network changes, `MaxSend` 1 | pass, about 196,000 states |
| `three_servers` | is purging safe and resending complete with a third server absent or passed through, inside its windows? And while the network is whole, do stamps and changes of mails respect causality? | 3 servers: with histories, no command and 2 network changes, or connected with 3 commands of any kind and no change | pass, about 486,000 states |
| `flow_loop` | is the sending loop the batch of `MailState`, and does it end? | every buffer and all ranges over indices 0 to 2 of 2 servers | pass, about 25,000 states |
| `lists` | are the lists the sets they stand for? | 4 mails of 3 servers in any order, deleted, marked and replayed | pass, about 317,000 states |
| `spread_mcast` | does every process get all messages and exit, inside the window, whoever fails? | 3 processes with 3, 4 and 0 messages, window 1, 1 failure | pass, about 390,000 states |
| `token_ring` | on a ring of two, is there one token, one order, nothing cleared too early, and an end? | 2 machines with 3 packets and 1, `WINDOW_SIZE` 3, `SEND_WINDOW_SIZE` 1, `MAX_MESSAGE` 2, one NAK per token, 2 packets lost | pass, about 119,000 states |
| `file_transfer` | is every file a prefix, complete when its sender has finished, and does everyone exit? | 2 hosts with files of 3 packets and 1, window 2, 1 retry, 4 packets in a socket, 2 packets lost, 2 early timers or 2 killed ncps, not both | pass, about 143,000 states |
| `mail_recovery` | does a server come back with all it claims, all it answered for, and a new stamp? | 2 servers, 1 account and 1 mail, 2 more updates of any kind that come in any order and again, 1 crash anywhere | pass, about 592,000 states |
| `mail_client` | are lists and numbers what the user saw, and is every command answered? | 2 servers, 1 user who is logged in, 4 commands, 2 mails, 1 server cut off | pass, about 1,275,000 states |
| `token_ring_ack` | is nothing cleared too early? | the same with 3 machines | violated |
| `vector_gap` | do connected quiet servers have the same updates? | 2 servers | violated |
| `dropped_mail` | does a new mail always reach the list? | mails of each server in order | violated |

**Bounds.** `MaxUpdates` bounds the updates in the system, those of the initial
state included, `MaxChanges` the splits and merges; all other state is bounded
by them. The runs of the servers start from states that deployments pass
through and that TLC would need many steps to reach: `ConnectedInit` (an
exchange of matrices is behind, an account exists) and `ApartInit` (servers with
different histories, apart). Three changes are enough for the hard sequence:
meet, be cut off in the middle of the exchange or of the resending, meet again
with ranges, counts and matrices of the first meeting left over. With
`MaxSend` at 1 every further update is sent by an echo of the one before. Three servers are the least number where one forwards another's
updates, and where an absent server decides what may be purged.

The processes of the multicast job have different numbers of messages, so that
one is finished before it starts and another has more than two windows to go; the
bound of `SlowReaderBounded` is reached, and fails when it is one less.

The ring's window is smaller than the four packets, so slots are used twice and a
late copy meets a slot of another number; the machine with three packets fills
its send window of one and overwrites a packet it has not sent; one NAK per
token leaves others for the next round, and with two losses a packet and its
repetition can both be lost. `token_ring_ack` needs the third machine: with two,
the ack of a token can only be one's own or the other's.

The file of host 1 is longer than the window, so slots are used again and the
window ends on a short one; host 2 waits meanwhile and is served after it. Two
losses take away a packet and what repeats it, or the FINACK twice. With two early
timers a packet and its repetition are both on the way, and a second repetition meets
the answers to both; with two killed runs the third meets packets of the first and
answers to the second. `EarlyOrKilled` keeps these apart, because what is checked is
false when both happen (section 4).

The server of `mail_recovery` has an account and a mail. Two further updates are a mail
and its mark or its deletion, two mails of another server in the wrong order, or a mail
that shares its index with the first (`tied`), made here or elsewhere; `MaxIndex` bounds
how often they come again, as each coming raises the counter. One crash at any of their
writes, with a restart after it, meets every order of writes; the theorems about
`MailRecovery` allow any number of crashes, also during the replay.

Four commands of the client are a list, a second list at another server, and two uses
of its numbers; two mails are the least with which a number can stand for the
wrong one.

**Fairness.** Only `EventuallyQuiet`, `LoopEnds`, `RingFinishes`, `AnsweredIfThere` and the two `AllExit` need any. `FairApartSpec`
assumes weak fairness of `Receive(s)`: Spread's event loop (`E_handle_events`)
calls `readSpreadMessage` as long as there is a message. Nothing is assumed of
clients or of the network, which stop by their bounds; so `EventuallyQuiet`
says that the servers' own traffic ends. `FlowControl` assumes weak fairness of
the loop's steps. `SpreadMcast` assumes that every process is started, that
Spread orders what it was given, and that every event loop reads; a failure is
never forced, and `AllExit` speaks of the runs without one. `TokenRing` assumes
that each machine gets the START and the FIN (the FIN is sent a thousand times;
the START once, which is an assumption on the network), that a token arrives in
the end, as it is sent again on every timeout (`handleTimeout`), and that a
packet on the way arrives unless it is one of the `MaxLoss` lost ones. That each
number is fair by itself matters: with one NAK per token, other repetitions
could overtake a packet for ever. `FileTransfer` assumes that both event loops
read what is there (weak fairness) and that timers fire: `select` with a timeout
returns. Two of them need strong fairness, because they are disabled again and
again: the receiver's timer, ten microseconds against the milliseconds between
SYNs of waiting hosts, and the sender's FIN timer, a tenth of a second against
ACKs that the receiver repeats every second. `Lose`, `Kill` and the early timers
are bounded and never forced. `MailClient` assumes that the client and the
servers read what has come; commands are never forced.

**Deadlock.** The runs set `CHECK_DEADLOCK FALSE`: with no message on the way
and the bounds used up nothing remains to be done, and the loop of
`FlowControl` returns, the machines of the ring and the senders of files exit,
and a client may type nothing more. That servers do not get stuck is what
`QuietComponentIsNormal` says.

A process of the multicast job waits for ever when another failed: the program
does not watch for that.

**Properties.**

* `KnowledgeSound`: no matrix, held or on its way, credits a server with more
  than its own vector.
* `VectorIsNewest`: a server's vector is the highest index it stored, and that
  update is still in its buffer.
* `PurgeSafe`: what was purged is passed by the own vector of every server.
* `StampsUnique`, `StampDominates`: Lamport stamps do their work.
* `QuietComponentAgrees`, `QuietComponentIsNormal`: a component with nothing on
  the way has equal vectors, and nobody waits for a matrix or an echo.
* `EventuallyQuiet`: resending ends.
* `FlowWindow`: a server has at most `MAX_SEND` resent updates on their way for each
  change of the network, and one more for each client's update whose unset header may
  carry its number (`strays`).
* `MailBeforeItsChanges`: while the network is whole, a read or a delete is applied after
  its mail at every server but the one whose client asked for it, also when the client
  took the mail from another server's list. In a reconciliation it is false (section 4).
* `ImplementsUpdateLog`: refinement, with the history `received` as the log.
* `LoopIsTheBatch`, `LoopEnds`: the sending loop.
* `UpdatesAreTheStoredSet`, `UsersOnce`: the lists of updates and users.
  `MailsAreTheMailbox`: the list holds every mail that was added, not turned away and not
  deleted; what else is in it, and what is in it twice, is what a replay put there.
* `ImplementsMulticastJob`: each process gets every message once and in order and
  leaves only with all of them. `SlowReaderBounded`: a process measures the
  window by what it has received itself, so another reader can be two windows
  behind, but no more; once that reader's own FIN is read nobody waits for it any
  longer, and the bound is gone. `AllExit`: without failures everyone exits. The
  types include that the FIN is sent once.

* `TokenUnique`: at most one machine can take a token, whatever copies arrive.
  `ImplementsTotalOrder`: every file is a prefix of one order without gaps.
  `ClearedIsHeld`: what one machine cleared the others have. `FinMeansReceived`:
  at the FIN everyone has sent all and has received all. `RingFinishes`: on a
  ring of two both exit; with three it is false (section 4). The types include that no empty slot is written to a file.
* `FileIsPrefix`: a file is its packets in order, and the window starts where it
  ends. `GivenUpIsHeld`: a sender overwrites a slot, or sends the FIN, only when
  the receiver has the packets it gives up; one that a late GO has misled is left out.
  `ImplementsReliableCopy`: one file is written at a time, packet by packet, and a sender
  that is done leaves a complete file that nobody changes any more; an exit of a misled
  sender is not `done`. All three are said of timers that fire early, and of senders that
  are killed; not of both together. `AllExit`: without early timers and killed
  senders everyone exits, whatever is lost.
* `EffectsSurvive`: what an update did to users and mailboxes (`effects`) is still there,
  whatever updates come late or again and wherever the server crashes: the user is there,
  the mail is there unless it was deleted, and one copy of a marked mail is read. Left out
  are the updates that a crash cut off for good (`passedOver`, section 4). `AnsweredIsHeld`:
  what a client was answered for is in the buffer, or
  every server has it. `FreshAfterRestart`: the counter is above all own updates
  that were sent. All three are said of a server that has started and whose files
  no crash has torn.
* `DisplayedIsMailbox`: the list on the screen is the mailbox that the server
  listed. `NumbersAreShown`: every number that passes the check has a mail, the one
  that was shown with it. `AnsweredIfThere`: a wait ends when nobody is cut off, and
  need not end otherwise (section 4).

## 4. What the models show of the code

Three statements about the program are runs of their own, in which TLC finds them
violated; `PROJECT.json` has the quotes.

* `vector_gap`: `updateVector` records the highest index, not that everything
  below it came. A new update that arrives ahead of missing ones hides them; if
  the network splits before the resending, they are never sent again. Connected
  servers then have equal vectors and different updates. This is why
  `QuietComponentAgrees` speaks of vectors.
* `dropped_mail`: the second walk of `email_vector_insert` compares `procID`
  alone and takes a later mail of the same server for a duplicate.
* `token_ring_ack`: `getNewAck` raises the ack when it equals the machine's own
  previous one, also when another machine has just lowered it to that value. With
  three machines a packet is then cleared while one of them lacks it, and its NAK
  is not handed on.

Six more do not hold in general. The properties say, in their comments, for which
instances they are stated; each of these is found by TLC when the condition is dropped.

* `RingFinishes` with three machines: with one packet, at machine 2, `WINDOW_SIZE` 2 and
  nothing lost there is a round trip for ever. A machine that does not finish in this
  visit passes on the finished count of its own last token, not the one it received
  (`mcast.c:500`), and the count never gets to three.
* `MailBeforeItsChanges` during a reconciliation: a command is multicast ahead of the
  updates being resent, so a delete can come before its mail, and the mail survives at
  the receiver (two servers that have been apart, 3 updates, 1 change of the network). The
  design document (page 1) says that reads and deletes "are always applied in every
  server after the update to create the email".
* A sender that exits has its file copied (`rcv.c:2` and `ncp.c:2` promise a reliable
  transfer): a GO or FINACK of an earlier round that comes after a timer has fired makes
  the sender begin again from inside the old transfer, and it can exit without a complete
  file (one host, 2 packets, window 2, 1 packet lost, 5 early timers, 8 packets in a
  socket). `misled` marks such a sender.
* `FileIsPrefix` with early timers and a killed sender (one host, 2 packets, window 2, 2
  packets lost, 5 early timers, 1 kill, 7 packets in a socket). Packets carry no number of
  a connection. An ncp is killed with its FIN on the way and run again; the old packets
  open, fill and close the connection of the new run, and an ack of that connection reaches
  the new sender while the receiver has begun another with an empty file. The sender reads
  on, finds the end of its file, and this read clears the size of a slot that now has to be
  sent again (`ncp.c:207`): the packet goes out without its bytes and is written so.
* A deleted mail stays deleted: the replay takes the newest stamp of each server, not the
  last update that was applied, and applies a mail again whose deletion came after it
  (server 2's last update is a mail, server 1 deletes it, crashes and starts again). The
  design document (page 4) says that the replay "has no adverse effect on the state".
  `MailsAreTheMailbox` says what a replay may bring back.
* `EffectsSurvive` for every update: one that is cut off by a crash after a later one of
  its server had come is covered by the vector and never asked for again, and the replay
  takes the later one (DELETE `<2,3>` comes after `<2,4>`, crash before its writes). The
  same happens to a mail that the replay cannot insert again because it is `tied`.

Met while modelling besides:

* *Mail server.* The design document (page 3) says that a server sends up to 25 updates
  and one more for each that comes back, so that 25 would be the most on their way.
  They are not: a server that is behind with its views sends the matrices of
  earlier reconciliations into the present component, and these end a later one
  while the window before it is still on its way (two servers, a window of one,
  five changes of the network). `FlowWindow` therefore counts the changes.
  An update that was purged and is resent by a server that has not purged it is
  applied again. The design document speaks of safe delivery while `sendUpdate`
  uses `AGREED_MESS`.
* *Recovery.* The old file is removed before the new one is
  renamed, and the new one is renamed before `fclose` writes out its end: a crash
  there leaves no file, or a short one, and with the own buffer gone the server
  gives out stamps it has used. A crash between the buffer and the matrix leaves
  the matrix one behind, and the replay applies that update without raising
  it. A user without mails has no file of mails: after a restart the size of that
  mailbox is whatever was in memory, and listing it walks past its end
  (`ListPastTheEnd`).
  A replay may add a mail a second time, unread, when it shares its index with a mail of a
  lower-numbered server: `email_vector_insert` then does not find the copy that is there.
  An update that a crash takes before the buffer is written counts as never
  made, or never received; no client was answered for it (`onDisk`).
* *Client.* A server that is cut off while an answer is awaited leaves `wait` set
  for ever, and with it the connect command that the design document (page 5) asks
  of the user. A number is checked against the announced number of mails, not
  against those that have come; the display comes only when all have. When the
  client connects elsewhere in the middle of a list, the mails of both servers
  come into one list (`mixed`).
* *File transfer.* A sender that is killed in the middle of its file leaves the
  receiver in `WAIT_RESPONSE`, where the retry counter is counted and not compared:
  it serves no one else from then on. The branch that sends WAIT (`rcv.c:610`) is
  never reached, although `rcv.c:7-8` says that the client gets a message that the
  transfer is queued.
* *Token ring.* A machine counts itself finished by the `seq_num` of the token it
  received, in the same visit in which it sends its last packets. The other
  machine then sends the FIN when it has written them itself, and the first one
  exits with them in its window: `FinMeansReceived` holds, but not that all has
  been written. A ring of one machine never takes
  its own token, whose `rand_num` is not above its own.

## 5. The proofs

Thirty-three theorems. The eleven about the mail server hold for every number of servers
and users, every `MaxSend`, any commands, junk and bounds, and queues of any
length. The assumptions are those
on the constants in `MailState` and `MailServer` (`NumServers` and `MaxSend`
positive, `HeaderJunk` integers, known commands); TLC evaluates them in every
run.

1. **`TypeCorrect`** (`TypeOK`). The inductive invariant `TypeInv` adds that
   buffers are finite, without which the size of a batch has no value. The lemmas in
   `MailStateProofs` show that each operator leads from states to states: walks
   along a list stop (`WalkStops`, by the least element of a set of naturals),
   so mails are put inside the list; the lowest entry of the other members
   exists; a planned range is never inverted; what is left of a range starts
   inside it. The type of the ranges (`Ranges`) is part of `TypeOK` because the
   last two need it.
2. **Kinds of step.** Lemma `StepKinds` shows that a step is one of four things
   to the counters, buffers, vectors and histories: a server issues an update,
   hears one, hears a matrix, or none of them changes and only views or a
   server's own matrix are put on the way. The invariants below are proved from
   it, so none of their proofs mentions queues, ranges or `Split` again.
3. **`StampsAlwaysUnique`, `StampsAlwaysDominate`, `ServersImplementLog`.**
   `StampsUnique` is not inductive alone. `LogInv` adds: a server's counter has
   reached all it stored, the buffer holds nothing else, what is on the way was
   issued, and whoever has an update, its maker has it. The last two keep an
   update from entering anywhere but at its maker; the first makes a new stamp
   new. The refinement follows with the mapping `log <- received`: initial
   states map to initial states, each step to `Add` or a stutter.
4. **`KnowledgeAlwaysSound`.** Inductive over the state and the messages on the
   way together, with lemma `OwnVectorGrows`: no server's own row goes down.
   No order of delivery is needed.
5. **`VectorAlwaysNewest`.** Inductive with the types: the purge condition
   includes the purging server's own row, which cannot be below itself.
6. **`PurgeAlwaysSafe`.** From 4 and `OwnVectorGrows`: what goes is passed in
   every row, and no row runs ahead of its server. The next three do look at the
   queues: what follows the last view in a queue (`since`, `news`) was multicast in the present component. Lemma
   `StepForms` gives the steps as a queue sees them.

   **`QuietAlwaysNormal`** (`QuietComponentIsNormal`). The invariant `QueueInv`
   says: connections are an equivalence (`Connected`); the last view a server has
   to read, or has read, is its component (`LastViewIsConn`); the servers of a
   component that have no view left to read are no more than the matrices that a
   member has counted or will still count, and a member that goes on counting has
   fewer than the size of the component (`MatricesSuffice`), so that nobody waits for
   ever; and a server with no view left that is sending updates has one with its own
   `proc_num` on the way (`EchoComes`). Matrices of earlier reconciliations only add
   to the count, which is why it is an inequality.

   **`QuietAlwaysAgrees`** (`QuietComponentAgrees`). A server can end a
   reconciliation with matrices that are not those of all members, so its plan may
   be wrong. `AgreementInv` says what is right all the same. For a member that has
   ended it (`finished`) and any server's updates, one of two things holds: what the
   member has of them reaches all others (`covered`: they have it, it is on the way,
   or a member still has it to send, `pending`); or a member that comes before it in
   the choice of the sender (`above`: higher vector, or equal and higher ID) has not
   ended yet. In a quiet component all have ended, so only the first is left. With it
   goes `SharedNews`: what is on the way to one reaches all. `PlanCovers` is the heart: among the members
   that plan, the one with the highest vector, and of those the one with the highest
   ID, plans the range, because no matrix runs ahead of its server (4) and the newest
   update of each server is in the buffer (5). `LastOfRange` shows that a batch sends
   the end of the range or leaves it in what is still to be sent.

   **`WindowsAlwaysBounded`** (`FlowWindow`), for any junk. The
   invariant `FlowInv` adds to the resent updates on their way one window for each
   view to be read and for a reconciliation that goes on (`WindowsLeft`): a change of
   the network brings a view, the view a reconciliation, its end a window, and after
   that an update goes out only for one that came back (`HeadersTell`: the header of
   an echo cannot lie; that of a client's update can, and `strays` counts those). In a split the survivors are taken from one queue of the
   group; that the others lose as many needs that the queues of a component end
   alike (`SameTails`). `BatchSize` bounds a batch without counting stamps: the last
   update of a batch has all others before it.

   **`MailAlwaysBeforeItsChanges`** (`MailBeforeItsChanges`), for any lists that clients
   read. The theorem says: in every run, from
   any moment on at which all servers are connected, quiet and of the same history and
   after which the network changes no more (`Together`), no server but the one whose client
   asked for it applies a read or a delete before the creation of its mail. `MailsInv` holds in all runs: every mail in
   a server's lists has its creation in that server's history (`MailsMade`), because a
   new mail is named by the stamp of its update. In a network that is whole, what one
   server has is on its way to all (`HistoryReachesAll`), so the creation is ahead of
   the change in every queue (`ChangesFollow`). `applyUpdate` checks nothing of this;
   Spread's order alone carries it, and resending across components does not.

7. **`SpreadMcast`**: `TypeCorrect`, `SlowReadersAlwaysBounded` and
   `SpreadMcastImplementsJob`, for any finite set of processes, any numbers of
   messages, any window and any number of failures. Lemma `BatchFacts` says what
   one call of `sendMessages` sends; its size is a cardinality, bounded by an
   interval. The invariant `Inv` relates four things: what waits in an outbox
   goes on from what is ordered (`OutboxOf`), the log holds the messages of a
   sender from 0 on without gaps and in rising order (`LogOf`, `OrderedOf`), a
   window describes exactly the prefix its process has read (`ReceptionOf`), and
   nothing is sent before all have joined (`StartedTogether`, which makes the
   prefix start at the first message). From these, the message that arrives is
   the one expected (`ArrivesInOrder`), which is what makes the counters of the
   windows the counters of `MulticastJob`. The bound adds `WindowOf`: a sender is
   one window ahead of what it received; applied from both sides it gives two.

8. **`MailClient`**: `DisplayedIsAlwaysMailbox` and `NumbersAlwaysShown`, for any
   servers, users, bounds and queues. The two properties say nothing of what is on
   its way, so the invariant adds it (`ListInv`): in every queue the mails behind a
   header are the mails it announced, in order and without gaps, up to the next
   other message (`Follows`, `InLists`), and what is on the way of the current list
   goes on where the client's list ends. The relation `Continues` is the idea of the
   proof: answers, memberships and cuts may lengthen a queue or cut off its end,
   but never put a mail behind a list that it does not belong to, so only the
   arrivals of a header and of a mail have to be looked at. `curr_count` starts
   again at 0 when a list is complete, which is why the invariant distinguishes
   whether the list has been shown.

9. **`TokenRing`**, for any numbers of packets, any sizes of the windows, any
   losses, and packets and tokens that arrive late, again and in any order.
   `TypeCorrect`, `TokenAlwaysUnique` and `RingImplementsTotalOrder` hold on every
   ring. The invariant `RingInv` says where a packet can be: at its number in the
   order, wherever it lies (`PacketsPlaced`, `WindowsOK`), in the slot of its
   number; what a machine acknowledged it holds or has written (`AckOK`), so what
   slides out of its window is the next part of the order; and all who can take a
   token take it from one last holder, whose token has the number of the last
   packet (`OneHolder`), so that new packets get new numbers. `ModInjective` is
   the arithmetic of the slots. `FinAlwaysMeansSent`, also on every ring: the
   machines count themselves in the order of the ring (`InTurn`), so the count can
   reach `numProcesses` only when each has, which is a pigeonhole argument
   (`CountedAllSent`). `ClearedAlwaysHeld` and `FinAlwaysMeansReceived` have the
   hypothesis `numProcesses = 2`, and need it: with two machines the ack of a token
   is one's own or the other's, with three the run `token_ring_ack` violates
   `ClearedIsHeld`. Their invariant `PairInv` says that the machine that counts
   itself last has every packet.

10. **`MailRecovery`**: `TypeCorrect`, `AnsweredAlwaysHeld` and
    `AlwaysFreshAfterRestart` for any numbers of servers, users, updates and
    crashes, a crash during the replay included. While a write is left no handler
    runs, so what is left to write is what is in memory (`PendingOK`). The
    invariant `RecoveryInv` relates the two copies of the vectors and of the own
    updates, on the disk and in memory: each holds every update that was answered
    for, or all servers are past it, and each has an own update that reaches what
    its matrix credits the server with (`Reached`). The disk is behind the memory
    by the pending writes alone (`DiskBehind`); the last part of it is the order of
    the writes, the buffer before the matrix: while the buffer is pending, what it
    will drop is passed in the matrix that is already on the disk. `Reached` is what
    makes the replay enough: its own last update is as new as its vector, so the
    counter comes past all it has sent (`CounterReached`). Purging keeps `Reached`
    because it looks at the own row too.

11. **`FileTransfer`**, for any hosts, files, windows and sockets, any losses, and
    at least one retry (`RECV_NUM_RETRY_ACK`, 5 in `packet_header.h`). `TypeCorrect` holds of all
    behaviours. Its invariant `TypeInv` places the window: slot `i` expects the one
    number of the window that is `i` modulo its size (`WindowOK`), the window starts
    where the file ends, and nobody has, expects or acknowledges a packet behind the
    end of the file. The lemmas `Consecutive`, `Written`, `Cleared` and `AckOf` say
    what the receiver's loops compute from such a window, `ReadIn`, `Resends` and
    `NewPackets` the same of the sender's.

    `FilesArePrefixes`, `GivenUpAlwaysHeld` and `CopiesReliably` are proved for
    `early = 0 \/ kills = 0`: timers may fire as early and as often as they like if no
    ncp is killed, and any number may be killed if no timer fires before an answer that
    is on its way. With both, `FileIsPrefix` is false (section 4). The two cases have an
    invariant each.

    With `early = 0`, `TransferInv` says of each host
    (`Session`) that what is on the way belongs to the transfer that is going on:
    a GO is the last answer and meets a sender that still waits for it
    (`GoIsLast`); a SYN behind which other packets follow asks for the connection
    that exists, and no FIN is in front of it (`SynsAreLate`); an ACK tells no more
    than the file holds, and a FINACK is on its way only when the host is not
    served (`AnswersAreTrue`); a slot without bytes has the number of a packet that
    is written (`Knows`, `DataIsGood`). The hypothesis enters where a timer fires:
    both queues are empty then, so nothing old can follow.

    With `kills = 0`, `NoneKilledInv` needs no empty queue. `Order` says what an early
    timer can leave on the way and where: while a host asks (`Asks`), SYNs are behind
    SYNs and GOs behind GOs, its file is empty, and a GO or a connection means that no
    data of an earlier attempt is left; while it sends (`Talks`), SYNs come before all
    other packets, and once the receiver has taken one of those no SYN is left and only
    a FIN ends the connection, which is why a connection is never opened twice for one
    transfer. `NeverGivesUp` is the other way a connection could end, and does not
    happen: where `retryCounter` is compared it is 0. `Contents` then says what is in
    the packets, the window, the ACKs and the file, with `Tracks` in the place of
    `Knows`: unless a late GO has misled the sender, its window starts inside the file,
    and in any case a slot without bytes is not sent again, or only for a packet that
    is written. `Reading` is what makes the loop safe in spite of a late GO: a sender that
    would read on has been told of room for it, or has read once and not been told
    anything (`First`).

    `Kept` is what both invariants give, and the three theorems follow from it: the
    window starts inside the file, so what a sender gives up is written; and a host that
    has exited is not served, has no SYN on the way, and has its whole file unless it was
    misled. `CopiesReliably` follows step by step: a step leaves files and
    connection alone, begins a connection, or goes on with the one there is (`Kinds`).

12. **`FlowControl`**: `LoopIsAlwaysTheBatch`, for any buffer, ranges and
    `numToSend`. The invariant `LoopInv` says that the loop has sent what it passed
    of the buffer (`SentIsPassed`), in stamp order; that across the ranges of all
    servers what is passed comes before what is left (`PassedComesFirst`), which is
    what choosing the lowest start gives; and that it passes nothing after its n-th
    send (`StopsAtASend`). So the sent updates are the first of the missing ones,
    and their number (`CountOnce`) makes them `toSend`; the range that is left
    starts behind the last of them (`RestIsLeft`). With this the one step of
    `MailServer` that sends a batch stands for the loop.
13. **`MailLists`**: `UpdatesAlwaysSorted`, `MailsAlwaysTheMailbox` and
    `UsersAlwaysOnce`, for any servers, names and bounds. No induction along a list
    is needed: a walk stops at the first node that it looks for (`WalkStops`), and
    `PutAtNodes` and `DropAtNodes` say where each node of the new list comes from.
    The invariant of the mails says nothing of their order, which is not always that
    of the stamps (section 4), and of a mail that a replay has applied again
    (`replayed`) only that it is there unless it was deleted after that: the replay may
    bring back a deleted mail, or add a second copy, of which a deletion leaves one.

The theorems about the mail server are about `Spec`, from the start of all servers. The runs start
from the later states above and check the same properties; so does `mail_recovery`,
whose account and first mails were made before.

**Only model-checked.** Liveness: `EventuallyQuiet`, `LoopEnds`, `RingFinishes`, `AnsweredIfThere` and both `AllExit` (fairness and
ENABLED are out of the prover's reach), and `EffectsSurvive` of `MailRecovery`.

## 6. Not modelled

* The read and write loops without protocol state: `t_ncp.c`, `t_rcv.c`,
  `ucast.c`, `file_copy.c`, the examples and test drivers of the first weeks.
* The copy of the mail system in `Submission/tsorrel3/`, which is the same text.
* Allocation and system calls that fail: the code prints a message and exits.
  Fixed sizes of names and mail texts, the user interface and the statistics,
  Spread's own protocol, and `user_vector_delete`, which is never called.
* In `FileTransfer`, a network that reorders or repeats packets: packets have no
  number of a connection, and nothing holds of late packets of an earlier one. In
  `MailRecovery`, a second server with a disk of its own; what the other servers
  may send covers it, except that they never ask for what this one has lost.
* In `TokenRing`, a START that is lost and a machine that dies; in `SpreadMcast`,
  a partition: no code is there for either.

## 7. Plan

What is left is what the model leaves out, a second server with a disk in
`MailRecovery` and a lost START in `TokenRing`, where the code has nothing that
answers it; and a proof of `EffectsSurvive`. Every other safety property that a run
checks is stated by a theorem, some of them for two machines or under a hypothesis
that section 5 names.
