---------------------------- MODULE MailRecovery ----------------------------
(***************************************************************************)
(* The recovery files of one mail server, Me: writer.c writes them as an   *)
(* update is applied, recover.c and main() of server.c load them when the  *)
(* server starts.  The server may crash between two writes and inside one; *)
(* the other servers go on meanwhile.                                      *)
(*                                                                         *)
(* A file is what was written to it: the updates of one server, the        *)
(* matrix, the names of the users, the mails of one user.                  *)
(***************************************************************************)
EXTENDS MailState

CONSTANTS
    Me,             \* the server
    MaxUpdates,     \* bound: updates that are made
    MaxIndex,       \* bound: the stamp counter up to which updates are received
    MaxCrash        \* bound: crashes

ASSUME MeAssumption == Me \in Servers
ASSUME RecoveryBounds == MaxUpdates \in Nat /\ MaxIndex \in Nat /\ MaxCrash \in Nat

VARIABLES
    up,          \* the server runs
    st,          \* its memory; of a server that is down, what it was
    todo,        \* the writes that are left of the current handler
    sending,     \* the own update that is multicast after them, if any
    replay,      \* the server whose last update main() applies again next
    disk,        \* disk[f]: the content of file f, of the files there are
    unset,       \* users whose number of mails was not set (recover.c)
    made,        \* updates this server has made and not lost in a crash
    issued,      \* those of them it has multicast and answered for
    others,      \* updates the other servers have made
    torn,        \* a crash has hit a file that was being replaced
    crashes,
    doing,       \* the update whose writes todo holds
    effects,     \* updates that have changed a user or a mailbox and that the
                 \* server has not lost in a crash
    passedOver   \* those of them that a crash cut off and the replay need not
                 \* bring back

history == <<doing, effects, passedOver>>

vars == <<up, st, todo, sending, replay, disk, unset, made, issued, others, torn,
          crashes, history>>

BufferFile(p) == <<"updatebuffer", p>>
MatrixFile == <<"updatematrix">>
UserList == <<"userlist">>
UserFile(u) == <<"user", u>>

Files == {BufferFile(p) : p \in Servers} \cup {MatrixFile, UserList}
           \cup {UserFile(u) : u \in Users}

Write(f, c) == [file |-> f, content |-> c]

own(s, p) == {v \in s.buffer : v.procID = p}

writeUpdateBuffer(s, p) == Write(BufferFile(p), own(s, p))
writeUpdateMatrix(s) == Write(MatrixFile, s.latest_update)
writeUserList(s) == Write(UserList, s.users)
writeUser(s, u) == Write(UserFile(u), s.emails[u])

(* addMail, deleteMail, markAsRead and addUser write what they have        *)
(* changed.                                                                *)
writesOfChange(s, t, u) ==
    IF t.emails # s.emails THEN <<writeUser(t, u.user)>>
    ELSE IF t.users # s.users THEN <<writeUserList(t)>>
    ELSE <<>>

(* MUTANT: the matrix is written before the buffer.                        *)
writesMatrixFirst(s, t, u) ==
    IF findUpdate(s, u.procID, u.index) THEN <<>>
    ELSE <<writeUpdateMatrix(t), writeUpdateBuffer(t, u.procID)>> \o writesOfChange(s, t, u)

(* MUTANT: the matrix is not written.                                      *)
writesNoMatrix(s, t, u) ==
    IF findUpdate(s, u.procID, u.index) THEN <<>>
    ELSE <<writeUpdateBuffer(t, u.procID)>> \o writesOfChange(s, t, u)

(* The writes of applyUpdate, from s to t: the buffer, the matrix, and the *)
(* files the change touches.                                               *)
writes(s, t, u) ==
    IF findUpdate(s, u.procID, u.index) THEN <<>>
    ELSE <<writeUpdateBuffer(t, u.procID), writeUpdateMatrix(t)>> \o writesOfChange(s, t, u)

started == up /\ replay > NumServers

Ready == started /\ todo = <<>> /\ sending = {}

(* There is something for u to change, or, for a mail, it gets its place.  *)
takesHold(s, u) ==
    \/ u.type = "NEWUSERMSG"
    \/ /\ u.type = "NEWMAILMSG"
       /\ EmailHas(changeMail(s, u).emails[u.user], u.mail)
    \/ /\ u.type \in {"DELETEMAILMSG", "READMAILMSG"}
       /\ EmailHas(s.emails[u.user], u.mail)

effectOf(s, u) == {v \in {u} : takesHold(s, v)}

Apply(u) ==
    /\ Ready
    /\ st' = applyUpdate(st, Me, u)
    /\ todo' = writes(st, st', u)
    /\ doing' = {u}
    /\ effects' = effects \cup IF findUpdate(st, u.procID, u.index) THEN {}
                              ELSE effectOf(st, u)
    /\ UNCHANGED <<up, replay, disk, unset, issued, torn, crashes, passedOver>>

known == made \cup others

total == Cardinality(known)

(* A mail is sent to users that exist where it is sent.                    *)
madeUser(user, s) == \E v \in s : v.type = "NEWUSERMSG" /\ v.user = user

(* A command of a client: the update is applied, written, multicast.       *)
Command(type, user, mail) ==
    /\ total < MaxUpdates
    /\ type = "NEWMAILMSG" => user \in st.users
    /\ type \in {"DELETEMAILMSG", "READMAILMSG"} =>
           \E k \in DOMAIN st.emails[user] : SameId(st.emails[user][k], mail)
    /\ LET u == generateUpdate(st, Me, type, user, mail)
       IN  Apply(u) /\ sending' = {u} /\ made' = made \cup {u}
    /\ UNCHANGED others

(* sendUpdate and the reply to the client.                                 *)
Answer ==
    /\ up /\ todo = <<>> /\ sending # {}
    /\ issued' = issued \cup sending /\ sending' = {}
    /\ UNCHANGED <<up, st, todo, replay, disk, unset, made, others, torn, crashes, history>>

(* Another server makes an update, stamped above its own and above the     *)
(* mail that the update is about, and, a bound, at most one above all.     *)
MadeElsewhere(u) ==
    /\ total < MaxUpdates
    /\ u.procID # Me
    /\ \A v \in others : v.procID = u.procID => v.index < u.index
    /\ u.index = 0 \/ \E v \in known : u.index <= v.index + 1
    /\ LET seen == issued \cup others
           id == [procID |-> u.procID, index |-> u.index]
       IN  /\ u.type \in {"NEWUSERMSG", "NEWMAILMSG"} => u.mail = id
           /\ u.type # "NEWUSERMSG" => madeUser(u.user, seen)
           /\ u.type \in {"DELETEMAILMSG", "READMAILMSG"} =>
                  \E v \in seen : /\ v.type = "NEWMAILMSG" /\ v.mail = u.mail
                                  /\ v.user = u.user /\ v.index < u.index
    /\ others' = others \cup {u}
    /\ UNCHANGED <<up, st, todo, sending, replay, disk, unset, made, issued,
                   torn, crashes, history>>

(* It reaches this server, live or in a reconciliation, and perhaps after  *)
(* later ones of its server, or again; a bound, MaxIndex.                  *)
Receive(u) ==
    /\ u \in others /\ st.updateIndex < MaxIndex
    /\ Apply(u)
    /\ UNCHANGED <<sending, made, others>>

newest(s, p) == CHOOSE n \in {-1} \cup {v.index : v \in {w \in s : w.procID = p}} :
                    \A v \in s : v.procID = p => v.index <= n

(* A matrix of a reconciliation: q has its own updates and those of this   *)
(* server up to n.  It is merged and written.  After the last matrix the   *)
(* buffer is purged, which writes nothing.                                 *)
ReceiveMatrix(q, n, last) ==
    /\ Ready /\ q # Me
    /\ n \in {-1} \cup {v.index : v \in issued}
    /\ LET row == [p \in Servers |-> IF p = Me THEN n ELSE newest(others, p)]
           m == [from |-> q, matrix |-> [initialState(q).latest_update EXCEPT ![q] = row]]
           merged == updateMatrix(st, Me, m)
       IN  /\ st' = IF last THEN purgeUpdateBuffer(merged) ELSE merged
           /\ todo' = <<writeUpdateMatrix(merged)>>
    /\ doing' = {}
    /\ UNCHANGED <<up, sending, replay, disk, unset, made, issued, others,
                   torn, crashes, effects, passedOver>>

-----------------------------------------------------------------------------
exists(f) == f \in DOMAIN disk

diskWith(f, c) == [g \in DOMAIN disk \cup {f} |-> IF g = f THEN c ELSE disk[g]]

diskWithout(f) == [g \in DOMAIN disk \ {f} |-> disk[g]]

(* Every file is written under another name, removed, renamed and closed.  *)
WriteFile ==
    /\ up /\ todo # <<>>
    /\ disk' = diskWith(Head(todo).file, Head(todo).content)
    /\ todo' = Tail(todo)
    /\ UNCHANGED <<up, st, sending, replay, unset, made, issued, others,
                   torn, crashes, history>>

(* What a crash after the removal leaves: no file, or, as the records are  *)
(* only on their way until the file is closed, the first of them.  The     *)
(* matrix is written in one piece, and an empty one reads like none.       *)
remains(w) ==
    IF w.file = MatrixFile THEN {}
    ELSE IF w.file = UserList THEN SUBSET w.content
    ELSE IF w.file[1] = "user" THEN {SubSeq(w.content, 1, n) : n \in 0 .. Len(w.content)}
    ELSE {{v \in w.content : v.index <= n} : n \in {x.index : x \in w.content}}

Dies ==
    /\ up /\ up' = FALSE
    /\ UNCHANGED <<st, todo, sending, replay, unset, made, issued, others, history>>

Crash ==
    /\ crashes < MaxCrash /\ crashes' = crashes + 1
    /\ Dies
    /\ \/ UNCHANGED <<disk, torn>>
       \/ /\ todo # <<>>
          /\ \/ disk' = diskWithout(Head(todo).file)
             \/ \E c \in remains(Head(todo)) : disk' = diskWith(Head(todo).file, c)
          /\ torn' = TRUE

(* The number of mails of a user without a file is what the memory held:   *)
(* listing them may walk past the end of the list.                         *)
ListPastTheEnd == Ready /\ unset # {} /\ Dies /\ UNCHANGED <<disk, torn, crashes>>

-----------------------------------------------------------------------------
(* The start of a server.                                                  *)
loadedUsers == IF exists(UserList) THEN disk[UserList] ELSE {}

recoverUser(u) ==
    IF u \in loadedUsers /\ exists(UserFile(u)) THEN disk[UserFile(u)] ELSE <<>>

recoverUpdateMatrix ==
    IF exists(MatrixFile) THEN disk[MatrixFile] ELSE initialState(Me).latest_update

recoverUpdateBuffer ==
    UNION {disk[BufferFile(p)] : p \in {q \in Servers : exists(BufferFile(q))}}

loadState ==
    [initialState(Me) EXCEPT !.users = loadedUsers,
                             !.emails = [u \in Users |-> recoverUser(u)],
                             !.latest_update = recoverUpdateMatrix,
                             !.buffer = recoverUpdateBuffer]

lastUpdate(s, p) == CHOOSE u \in own(s, p) : \A v \in own(s, p) : v.index <= u.index

(* MUTANT: the counter stays.                                              *)
replayUpdateOnly(s, u) == changeMail(s, u)

(* applyUpdate with ignoreDup = 0.                                         *)
replayUpdate(s, u) == [changeMail(s, u) EXCEPT !.updateIndex = larger(@ + 1, u.index)]

(* An update is lost in a crash that comes before it is in the buffer, but *)
(* not if the vector covers it, as of one that was purged since.           *)
onDisk(u) == u \in recoverUpdateBuffer \/ u.index <= recoverUpdateMatrix[Me][u.procID]

(* A mail of a server with a lower number has the same index: then         *)
(* email_vector_insert may turn the mail away (run dropped_mail).          *)
tied(T, u) ==
    /\ u.type = "NEWMAILMSG"
    /\ \E v \in T : /\ v.type = "NEWMAILMSG" /\ v.user = u.user
                    /\ v.mail.index = u.mail.index /\ v.mail.procID < u.mail.procID

(* A later update of its server is there: the replay will not come to it.  *)
overtaken(u) == \E v \in own(st, u.procID) : v.index > u.index

(* What a crash in the middle of the writes cuts off for good.             *)
cutOff ==
    {u \in doing : /\ todo # <<>>
                   /\ overtaken(u) \/ tied(effects \cup st.buffer, u)}

Restart ==
    /\ ~ up /\ up' = TRUE
    /\ st' = loadState
    /\ todo' = <<>> /\ sending' = {}
    /\ replay' = 1
    /\ unset' = {u \in loadedUsers : ~ exists(UserFile(u))}
    /\ made' = {u \in made : u \in issued \/ onDisk(u)}
    /\ doing' = {}
    /\ effects' = {u \in effects : onDisk(u)}
    /\ passedOver' = effects' \cap (passedOver \cup cutOff)
    /\ UNCHANGED <<disk, issued, others, torn, crashes>>

(* One round of the loop of main(): server p's last update is applied.     *)
replayLast(p) ==
    /\ IF own(st, p) = {} THEN todo' = <<>> /\ UNCHANGED <<st, doing, effects>>
       ELSE LET u == lastUpdate(st, p)
            IN  /\ st' = replayUpdate(st, u)
                /\ todo' = writesOfChange(st, st', u)
                /\ doing' = {u}
                /\ effects' = effects \cup effectOf(st, u)
    /\ replay' = p + 1
    /\ UNCHANGED <<up, sending, disk, unset, made, issued, others, torn, crashes,
                   passedOver>>

(* MUTANT: the loop runs once too often.                                   *)
ReplayOneMore ==
    /\ up /\ replay \in 1 .. NumServers + 1 /\ todo = <<>>
    /\ replayLast(replay)

(* main() applies the last update of every server again, in the order of   *)
(* the servers, before it takes any message.                               *)
Replay ==
    /\ up /\ replay \in Servers /\ todo = <<>>
    /\ replayLast(replay)

Init ==
    /\ up = TRUE
    /\ st = initialState(Me)
    /\ todo = <<>> /\ sending = {} /\ replay = NumServers + 1
    /\ disk = [f \in {} |-> {}]
    /\ unset = {}
    /\ made = {} /\ issued = {} /\ others = {}
    /\ torn = FALSE /\ crashes = 0
    /\ doing = {} /\ effects = {} /\ passedOver = {}

Stamps == [procID : Servers, index : 0 .. MaxUpdates]

Next ==
    \/ \E type \in UpdateTypes, user \in Users, mail \in Stamps : Command(type, user, mail)
    \/ Answer
    \/ \E p \in Servers, i \in 0 .. MaxUpdates, type \in UpdateTypes, user \in Users, mail \in Stamps :
          MadeElsewhere([procID |-> p, index |-> i, type |-> type, user |-> user, mail |-> mail])
    \/ \E u \in others : Receive(u)
    \/ \E q \in Servers, n \in -1 .. MaxUpdates, last \in BOOLEAN : ReceiveMatrix(q, n, last)
    \/ WriteFile \/ Crash \/ ListPastTheEnd \/ Restart \/ Replay

Spec == Init /\ [][Next]_vars

-----------------------------------------------------------------------------
(* The types; an update that was multicast or is about to be is one that   *)
(* this server has not lost.                                               *)
TypeOK ==
    /\ up \in BOOLEAN /\ torn \in BOOLEAN
    /\ st \in LocalStates
    /\ replay \in 1 .. NumServers + 1
    /\ DOMAIN disk \subseteq Files
    /\ sending \subseteq made /\ issued \subseteq made
    /\ known \subseteq Updates
    /\ unset \subseteq Users
    /\ doing \cup effects \subseteq Updates /\ passedOver \subseteq effects

intact == started /\ ~ torn

deleted(u) == \E v \in effects : v.type = "DELETEMAILMSG" /\ v.mail = u.mail /\ v.user = u.user

(* What the users and the mailboxes say of u.                              *)
borneOut(u) ==
    LET mails == st.emails[u.user]
        read == \E k \in DOMAIN mails : SameId(mails[k], u.mail) /\ mails[k].read
    IN  /\ u.type = "NEWUSERMSG" => u.user \in st.users
        /\ u.type = "NEWMAILMSG" => EmailHas(mails, u.mail) \/ deleted(u)
        /\ u.type = "READMAILMSG" => read \/ deleted(u)

(* An update that has changed a user or a mailbox, and that the buffer or  *)
(* the vector still claims, is in the users and the mailboxes also after   *)
(* any number of crashes (applyUpdate, main(), writer.c, recover.c): the   *)
(* user is there, the mail is there unless it was deleted, one copy of it  *)
(* is read.  Not so an update that a crash cut off in the middle of its    *)
(* writes after a later one of its server had come, or while another mail  *)
(* had its index; and nothing is said after a crash that tore a file.      *)
EffectsSurvive == intact => \A u \in effects \ passedOver : borneOut(u)

(* An update that a client was answered for can still be given to every    *)
(* server that lacks it.                                                   *)
AnsweredIsHeld ==
    intact => \A u \in issued :
        /\ u.index <= st.latest_update[Me][Me]
        /\ u \in st.buffer \/ \A i \in Servers : st.latest_update[i][Me] > u.index

(* A server that starts stamps above all it has multicast: no two updates  *)
(* share a stamp.                                                          *)
FreshAfterRestart ==
    intact => \A u \in issued : u.index <= st.updateIndex
=============================================================================
