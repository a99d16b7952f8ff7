------------------------- MODULE MailRecoveryProofs -------------------------
(***************************************************************************)
(* Theorems about the recovery files of a mail server (module              *)
(* MailRecovery), for any number of servers, users, updates and crashes: a *)
(* server that starts again after a crash still holds what it answered its *)
(* clients for, and its next stamp is a new one.  Both are about crashes   *)
(* that tear no file; the order of the writes does the rest.               *)
(***************************************************************************)
EXTENDS MailRecovery, MailStateProofs

(* The updates of server p that a file of the buffer can hold.             *)
Records(p) == {b \in SUBSET Updates : IsFiniteSet(b) /\ \A v \in b : v.procID = p}

(* What a file can hold.                                                   *)
ContentOK(f, c) ==
    \/ \E p \in Servers : f = BufferFile(p) /\ c \in Records(p)
    \/ f = MatrixFile /\ c \in Matrices
    \/ f = UserList /\ c \subseteq Users
    \/ \E u \in Users : f = UserFile(u) /\ c \in Seq(Mails)

(* The writes there can be of the state s.                                 *)
WritesOf(s) ==
    {writeUpdateBuffer(s, p) : p \in Servers}
        \cup {writeUpdateMatrix(s), writeUserList(s)}
        \cup {writeUser(s, u) : u \in Users}

DiskOK == \A f \in DOMAIN disk : ContentOK(f, disk[f])

(* In a list of writes the buffer comes before the rest.                   *)
BufferFirst(ws) == \A k \in 2 .. Len(ws), p \in Servers : ws[k].file # BufferFile(p)

(* What is left to write is what is in memory: no handler runs while a     *)
(* write is left.                                                          *)
PendingOK == todo \in Seq(WritesOf(st)) /\ BufferFirst(todo)

(* The updates are those of the servers that made them.                    *)
UpdatesOK ==
    /\ IsFiniteSet(others)
    /\ \A u \in made : u.procID = Me
    /\ \A u \in others : u.procID # Me

TypeInv == TypeOK /\ st \in FiniteStates /\ DiskOK /\ PendingOK /\ UpdatesOK

-----------------------------------------------------------------------------
(* The files and their contents.                                           *)

(* The names of the files differ.                                          *)
LEMMA FilesDistinct ==
    /\ \A p, q : BufferFile(p) = BufferFile(q) => p = q
    /\ \A p : BufferFile(p) # MatrixFile /\ BufferFile(p) # UserList
    /\ \A p, u : BufferFile(p) # UserFile(u)
    /\ \A u, v : UserFile(u) = UserFile(v) => u = v
    /\ \A u : UserFile(u) # MatrixFile /\ UserFile(u) # UserList
    /\ MatrixFile # UserList
<1>1. \A a, b, c, d : <<a, b>> = <<c, d>> => a = c /\ b = d
  OBVIOUS
<1>2. \A a, b, c : <<a, b>> # <<c>>
  <2> TAKE a, b, c
  <2>1. Len(<<a, b>>) = 2 /\ Len(<<c>>) = 1
    OBVIOUS
  <2> QED
    BY <2>1
<1>3. "updatebuffer" # "user" /\ <<"updatematrix">> # <<"userlist">>
  OBVIOUS
<1> QED
  BY <1>1, <1>2, <1>3 DEF BufferFile, MatrixFile, UserList, UserFile

(* What each file holds.                                                   *)
LEMMA Contents ==
    /\ \A p \in Servers : \A c : ContentOK(BufferFile(p), c) => c \in Records(p)
    /\ \A c : ContentOK(MatrixFile, c) => c \in Matrices
    /\ \A c : ContentOK(UserList, c) => c \subseteq Users
    /\ \A u \in Users : \A c : ContentOK(UserFile(u), c) => c \in Seq(Mails)
BY FilesDistinct DEF ContentOK

(* The own updates of a state are finitely many.                           *)
LEMMA OwnRecords ==
    ASSUME NEW s \in FiniteStates, NEW p \in Servers
    PROVE  own(s, p) \in Records(p)
<1>1. own(s, p) \subseteq s.buffer
  BY DEF own
<1>2. IsFiniteSet(own(s, p))
  BY <1>1, FS_Subset DEF FiniteStates
<1> QED
  BY <1>1, <1>2 DEF own, Records, FiniteStates, LocalStates

(* What is written of a state fits its file.                               *)
LEMMA WritesFit ==
    ASSUME NEW s \in FiniteStates, NEW w \in WritesOf(s)
    PROVE  ContentOK(w.file, w.content)
<1>1. ASSUME NEW p \in Servers, w = writeUpdateBuffer(s, p)
      PROVE  ContentOK(w.file, w.content)
  BY <1>1, OwnRecords DEF writeUpdateBuffer, Write, ContentOK
<1>2. ASSUME w = writeUpdateMatrix(s)
      PROVE  ContentOK(w.file, w.content)
  BY <1>2 DEF writeUpdateMatrix, Write, ContentOK, FiniteStates, LocalStates
<1>3. ASSUME w = writeUserList(s)
      PROVE  ContentOK(w.file, w.content)
  BY <1>3 DEF writeUserList, Write, ContentOK, FiniteStates, LocalStates
<1>4. ASSUME NEW u \in Users, w = writeUser(s, u)
      PROVE  ContentOK(w.file, w.content)
  BY <1>4 DEF writeUser, Write, ContentOK, FiniteStates, LocalStates
<1> QED
  BY <1>1, <1>2, <1>3, <1>4 DEF WritesOf

(* The files of a disk on which one is replaced or gone.                   *)
LEMMA DiskChanges ==
    ASSUME DiskOK
    PROVE  /\ \A f, c : ContentOK(f, c) /\ disk' = diskWith(f, c) => DiskOK'
           /\ \A f : disk' = diskWithout(f) => DiskOK'
BY DEF DiskOK, diskWith, diskWithout

(* What a crash leaves of the content of a file fits the file.             *)
LEMMA RemainsFit ==
    ASSUME NEW s \in FiniteStates, NEW w \in WritesOf(s), NEW c \in remains(w)
    PROVE  ContentOK(w.file, c)
<1>1. ASSUME NEW p \in Servers, w = writeUpdateBuffer(s, p)
      PROVE  ContentOK(w.file, c)
  <2>1. w.file = BufferFile(p) /\ w.content = own(s, p)
    BY <1>1 DEF writeUpdateBuffer, Write
  <2>2. w.file[1] # "user"
    BY <2>1 DEF BufferFile
  <2>3. c \subseteq own(s, p)
    BY <2>1, <2>2, FilesDistinct DEF remains
  <2>4. own(s, p) \in Records(p)
    BY OwnRecords
  <2>5. IsFiniteSet(c)
    BY <2>3, <2>4, FS_Subset DEF Records
  <2>6. c \in Records(p)
    BY <2>3, <2>4, <2>5 DEF Records
  <2> QED
    BY <2>1, <2>6 DEF ContentOK
<1>2. ASSUME w = writeUpdateMatrix(s)
      PROVE  ContentOK(w.file, c)
  BY <1>2 DEF writeUpdateMatrix, Write, remains
<1>3. ASSUME w = writeUserList(s)
      PROVE  ContentOK(w.file, c)
  BY <1>3, FilesDistinct
     DEF writeUserList, Write, remains, ContentOK, FiniteStates, LocalStates
<1>4. ASSUME NEW u \in Users, w = writeUser(s, u)
      PROVE  ContentOK(w.file, c)
  <2>1. w.file = UserFile(u) /\ w.content = s.emails[u]
    BY <1>4 DEF writeUser, Write
  <2>2. w.file[1] = "user"
    BY <2>1 DEF UserFile
  <2>3. PICK n \in 0 .. Len(w.content) : c = SubSeq(w.content, 1, n)
    BY <2>1, <2>2, FilesDistinct DEF remains
  <2>4. w.content \in Seq(Mails)
    BY <2>1 DEF FiniteStates, LocalStates
  <2>5. c \in Seq(Mails)
    <3>1. \A k \in 1 .. n : w.content[k] \in Mails
      BY <2>4, ElementOfSeq, LenProperties
    <3>2. n = 0 \/ 1 \in 1 .. n
      BY <2>4, LenProperties
    <3> QED  BY <2>3, <2>4, <3>1, SubSeqProperties, LenProperties
  <2> QED
    BY <2>1, <2>5 DEF ContentOK
<1> QED
  BY <1>1, <1>2, <1>3, <1>4 DEF WritesOf

(* The writes of a change and of an update: of what it leaves in memory,   *)
(* the buffer first.                                                       *)
LEMMA ChangeWrites ==
    ASSUME NEW s, NEW t, NEW u, u.user \in Users
    PROVE  \/ writesOfChange(s, t, u) = <<>>
           \/ \E w \in WritesOf(t) :
                 /\ writesOfChange(s, t, u) = <<w>>
                 /\ \A p : w.file # BufferFile(p)
                 /\ w.file # MatrixFile
<1>1. /\ writeUser(t, u.user) \in WritesOf(t)
      /\ writeUser(t, u.user).file = UserFile(u.user)
  BY DEF WritesOf, writeUser, Write
<1>2. /\ writeUserList(t) \in WritesOf(t)
      /\ writeUserList(t).file = UserList
  BY DEF WritesOf, writeUserList, Write
<1>3. \/ writesOfChange(s, t, u) = <<>>
      \/ writesOfChange(s, t, u) = <<writeUser(t, u.user)>>
      \/ writesOfChange(s, t, u) = <<writeUserList(t)>>
  BY DEF writesOfChange
<1> QED
  BY <1>1, <1>2, <1>3, FilesDistinct

LEMMA UpdateWrites ==
    ASSUME NEW s, NEW t, NEW u, u.procID \in Servers, u.user \in Users
    PROVE  /\ findUpdate(s, u.procID, u.index) => writes(s, t, u) = <<>>
           /\ ~ findUpdate(s, u.procID, u.index) =>
                 /\ Len(writes(s, t, u)) \in 2 .. 3
                 /\ writes(s, t, u)[1] = writeUpdateBuffer(t, u.procID)
                 /\ writes(s, t, u)[2] = writeUpdateMatrix(t)
           /\ writes(s, t, u) \in Seq(WritesOf(t))
           /\ BufferFirst(writes(s, t, u))
<1> DEFINE b == writeUpdateBuffer(t, u.procID)
           m == writeUpdateMatrix(t)
<1>1. b \in WritesOf(t) /\ m \in WritesOf(t) /\ \A p : m.file # BufferFile(p)
  BY FilesDistinct DEF WritesOf, writeUpdateMatrix, Write
<1> HIDE DEF b, m
<1>2. CASE findUpdate(s, u.procID, u.index)
  <2>1. writes(s, t, u) = <<>>
    BY <1>2 DEF writes
  <2> QED
    BY <1>2, <2>1 DEF BufferFirst
<1>3. CASE ~ findUpdate(s, u.procID, u.index)
  <2> DEFINE c == writesOfChange(s, t, u)
             ws == writes(s, t, u)
  <2>1. ws = <<b, m>> \o c
    BY <1>3 DEF writes, b, m
  <2>2. /\ c \in Seq(WritesOf(t)) /\ Len(c) \in 0 .. 1
        /\ \A k \in 1 .. Len(c), p \in Servers : c[k].file # BufferFile(p)
    <3>1. CASE c = <<>>
      BY <3>1
    <3>2. CASE c # <<>>
      <4>1. PICK w \in WritesOf(t) : c = <<w>> /\ \A p : w.file # BufferFile(p)
        BY <3>2, ChangeWrites
      <4> HIDE DEF c
      <4> QED  BY <4>1
    <3> QED
      BY <3>1, <3>2
  <2> HIDE DEF c, ws
  <2>3. /\ <<b, m>> \in Seq(WritesOf(t)) /\ Len(<<b, m>>) = 2
        /\ <<b, m>>[1] = b /\ <<b, m>>[2] = m
    BY <1>1
  <2>4. /\ ws \in Seq(WritesOf(t)) /\ Len(ws) = 2 + Len(c)
        /\ \A k \in 1 .. 2 + Len(c) : ws[k] = IF k <= 2 THEN <<b, m>>[k] ELSE c[k - 2]
    BY <2>1, <2>2, <2>3, ConcatProperties
  <2>5. Len(ws) \in 2 .. 3 /\ ws[1] = b /\ ws[2] = m
    BY <2>2, <2>3, <2>4
  <2>6. ASSUME NEW k \in 2 .. Len(ws), NEW p \in Servers
        PROVE  ws[k].file # BufferFile(p)
    <3>1. CASE k = 2
      BY <1>1, <2>5, <3>1
    <3>2. CASE k = 3
      <4>1. ws[3] = c[1] /\ 1 \in 1 .. Len(c)
        BY <2>2, <2>4, <3>2
      <4> QED
        BY <2>2, <3>2, <4>1
    <3> QED
      BY <2>5, <3>1, <3>2
  <2> QED
    BY <1>3, <2>4, <2>5, <2>6 DEF BufferFirst, ws, b, m
<1> QED
  BY <1>2, <1>3

-----------------------------------------------------------------------------
(* The states that the actions leave.                                      *)

(* Of finitely many updates of a server one has the greatest stamp.        *)
LEMMA NewestType ==
    ASSUME NEW s \in SUBSET Updates, IsFiniteSet(s), NEW p \in Servers
    PROVE  newest(s, p) \in Indices
<1> DEFINE S == {w \in s : w.procID = p}
           E == {-1} \cup {v.index : v \in S}
           f == [v \in S |-> v.index]
<1>1. IsFiniteSet(S) /\ f \in [S -> Int] /\ \A v \in S : v.index \in Nat
  <2>1. S \subseteq s
    OBVIOUS
  <2>2. \A v \in S : v.index \in Nat
    BY DEF Updates
  <2> HIDE DEF S
  <2> QED  BY <2>1, <2>2, FS_Subset
<1>2. E \subseteq Indices
  BY <1>1 DEF Indices
<1>3. \E n \in E : \A v \in s : v.procID = p => v.index <= n
  <2>1. CASE S = {}
    BY <2>1
  <2>2. CASE S # {}
    <3>1. PICK x \in S : \A y \in S : f[y] <= f[x]
      <4> HIDE DEF S, f
      <4> QED  BY <1>1, <2>2, Greatest
    <3> QED
      BY <3>1
  <2> QED
    BY <2>1, <2>2
<1>4. newest(s, p) \in E
  BY <1>3 DEF newest
<1> QED
  BY <1>2, <1>4

LEMMA LastUpdateIs ==
    ASSUME NEW s \in FiniteStates, NEW p \in Servers, own(s, p) # {}
    PROVE  /\ lastUpdate(s, p) \in own(s, p)
           /\ \A v \in own(s, p) : v.index <= lastUpdate(s, p).index
<1> DEFINE S == own(s, p)
           f == [v \in S |-> v.index]
<1>1. S \in Records(p)
  BY OwnRecords
<1>2. IsFiniteSet(S) /\ f \in [S -> Int]
  <2> HIDE DEF S
  <2> QED  BY <1>1 DEF Records, Updates
<1>3. PICK x \in S : \A y \in S : f[y] <= f[x]
  <2> HIDE DEF S, f
  <2>1. S # {}
    BY DEF S
  <2> QED  BY <1>2, <2>1, Greatest
<1>4. \E u \in S : \A v \in S : v.index <= u.index
  BY <1>3
<1> QED
  BY <1>4 DEF lastUpdate

(* Applying an update again changes the mail and the counter.              *)
LEMMA ReplayUpdateIs ==
    ASSUME NEW s \in FiniteStates, NEW u \in Updates
    PROVE  /\ replayUpdate(s, u) \in FiniteStates
           /\ replayUpdate(s, u).buffer = s.buffer
           /\ replayUpdate(s, u).latest_update = s.latest_update
           /\ replayUpdate(s, u).updateIndex = larger(s.updateIndex + 1, u.index)
<1> DEFINE x == changeMail(s, u)
           n == larger(s.updateIndex + 1, u.index)
<1>1. x \in FiniteStates /\ x.updateIndex = s.updateIndex /\ x.buffer = s.buffer
        /\ x.latest_update = s.latest_update
  BY ChangeMailType, ChangeMailEffect
<1> HIDE DEF x
<1>2. replayUpdate(s, u) = [x EXCEPT !.updateIndex = n]
  BY <1>1 DEF replayUpdate, x
<1>3. n \in Indices
  BY DEF FiniteStates, LocalStates, Updates, Indices, larger
<1> HIDE DEF n
<1>4. [x EXCEPT !.updateIndex = n] \in FiniteStates
  BY <1>1, <1>3 DEF FiniteStates, LocalStates
<1>5. /\ [x EXCEPT !.updateIndex = n].buffer = x.buffer
      /\ [x EXCEPT !.updateIndex = n].latest_update = x.latest_update
      /\ [x EXCEPT !.updateIndex = n].updateIndex = n
  BY <1>1 DEF FiniteStates, LocalStates
<1> QED
  BY <1>1, <1>2, <1>4, <1>5 DEF n

(* The buffer that is loaded: for each server what its file holds.         *)
LEMMA RecoveredBuffer ==
    ASSUME DiskOK
    PROVE  /\ recoverUpdateBuffer \in SUBSET Updates
           /\ IsFiniteSet(recoverUpdateBuffer)
           /\ \A u \in recoverUpdateBuffer :
                 exists(BufferFile(u.procID)) /\ u \in disk[BufferFile(u.procID)]
           /\ \A p \in Servers : exists(BufferFile(p)) =>
                 disk[BufferFile(p)] \subseteq recoverUpdateBuffer
<1> DEFINE P == {q \in Servers : exists(BufferFile(q))}
           B == {disk[BufferFile(p)] : p \in P}
<1>1. \A p \in P : disk[BufferFile(p)] \in Records(p)
  BY Contents DEF DiskOK, exists
<1>2. recoverUpdateBuffer = UNION B
  BY DEF recoverUpdateBuffer
<1>3. UNION B \in SUBSET Updates
  <2>1. \A S \in B : S \subseteq Updates
    BY <1>1 DEF Records
  <2> HIDE DEF B
  <2> QED  BY <2>1
<1>4. IsFiniteSet(P)
  <2>1. IsFiniteSet(Servers)
    BY FS_Interval, NumServersAssumption DEF Servers
  <2>2. P \subseteq Servers
    OBVIOUS
  <2> HIDE DEF P
  <2> QED  BY <2>1, <2>2, FS_Subset
<1>5. IsFiniteSet(B)
  <2> DEFINE f == [p \in P |-> disk[BufferFile(p)]]
  <2>1. f \in Surjection(P, B)
    <3> HIDE DEF P
    <3> QED  BY DEF Surjection
  <2> HIDE DEF f, B, P
  <2> QED  BY <1>4, <2>1, FS_Surjection
<1>6. \A S \in B : IsFiniteSet(S)
  BY <1>1 DEF Records
<1>7. IsFiniteSet(UNION B)
  <2> HIDE DEF B
  <2> QED  BY <1>5, <1>6, FS_UNION
<1>8. \A u \in UNION B : exists(BufferFile(u.procID)) /\ u \in disk[BufferFile(u.procID)]
  BY <1>1 DEF Records
<1> QED
  BY <1>2, <1>3, <1>7, <1>8

(* The state that is loaded.                                               *)
LEMMA LoadStateIs ==
    ASSUME DiskOK
    PROVE  /\ loadState \in FiniteStates
           /\ loadState.buffer = recoverUpdateBuffer
           /\ loadState.latest_update = recoverUpdateMatrix
           /\ loadedUsers \subseteq Users
           /\ recoverUpdateMatrix \in Matrices
<1> DEFINE mails == [u \in Users |-> recoverUser(u)]
           x == initialState(Me)
<1>1. x \in FiniteStates
  BY MeAssumption, InitialStateType
<1>2. loadedUsers \subseteq Users
  BY Contents DEF DiskOK, exists, loadedUsers
<1>3. mails \in [Users -> Seq(Mails)]
  BY Contents DEF DiskOK, exists, recoverUser
<1>4. recoverUpdateMatrix \in Matrices
  BY <1>1, Contents
     DEF DiskOK, exists, recoverUpdateMatrix, FiniteStates, LocalStates
<1>5. recoverUpdateBuffer \in SUBSET Updates /\ IsFiniteSet(recoverUpdateBuffer)
  BY RecoveredBuffer
<1>6. loadState = [x EXCEPT !.users = loadedUsers,
                       !.emails = mails, !.latest_update = recoverUpdateMatrix,
                       !.buffer = recoverUpdateBuffer]
  BY DEF loadState
<1> HIDE DEF mails, x
<1> QED
  BY <1>1, <1>2, <1>3, <1>4, <1>5, <1>6 DEF FiniteStates, LocalStates

-----------------------------------------------------------------------------
(* The types.                                                              *)

LEMMA TypeInit == Init => TypeInv
<1> SUFFICES ASSUME Init PROVE TypeInv
  OBVIOUS
<1>1. st \in FiniteStates
  BY MeAssumption, InitialStateType DEF Init
<1>2. NumServers + 1 \in 1 .. NumServers + 1
  BY NumServersAssumption
<1>3. TypeOK
  BY <1>1, <1>2 DEF Init, TypeOK, FiniteStates, known
<1>4. DiskOK
  BY DEF Init, DiskOK
<1>5. todo \in Seq(WritesOf(st)) /\ Len(todo) = 0
  BY DEF Init
<1>6. PendingOK
  BY <1>5 DEF PendingOK, BufferFirst
<1>7. UpdatesOK
  BY FS_EmptySet DEF Init, UpdatesOK
<1> QED
  BY <1>1, <1>3, <1>4, <1>6, <1>7 DEF TypeInv

(* Applying an update: what is written is what it leaves.                  *)
LEMMA TypeApply ==
    ASSUME TypeInv, NEW u \in Updates, Apply(u)
    PROVE  /\ st' \in FiniteStates /\ PendingOK'
           /\ doing' \cup effects' \subseteq Updates /\ passedOver' \subseteq effects'
<1>1. st \in FiniteStates /\ u.procID \in Servers /\ u.user \in Users
  BY DEF TypeInv, Updates
<1>2. st' \in FiniteStates
  BY <1>1, MeAssumption, ApplyUpdateType DEF Apply
<1>3. todo' = writes(st, st', u)
  BY DEF Apply
<1>4. writes(st, st', u) \in Seq(WritesOf(st')) /\ BufferFirst(writes(st, st', u))
  BY <1>1, UpdateWrites
<1>5. todo' \in Seq(WritesOf(st')) /\ BufferFirst(todo')
  BY <1>3, <1>4
<1>6. PendingOK'
  BY <1>5 DEF PendingOK, BufferFirst
<1>7. doing' \cup effects' \subseteq Updates /\ passedOver' \subseteq effects'
  BY DEF Apply, effectOf, TypeInv, TypeOK
<1> QED
  BY <1>2, <1>6, <1>7

LEMMA TypeCommand ==
    ASSUME TypeInv, NEW type \in UpdateTypes, NEW user \in Users,
           NEW mail \in Stamps, Command(type, user, mail)
    PROVE  TypeInv'
<1> DEFINE u == generateUpdate(st, Me, type, user, mail)
<1>1. mail \in MailIds
  BY RecoveryBounds DEF Stamps, MailIds
<1>2. u \in Updates /\ u.procID = Me
  <2>1. u \in Updates
    BY <1>1, MeAssumption, GenerateUpdateType DEF TypeInv, TypeOK
  <2> QED
    BY <2>1 DEF generateUpdate
<1>3. Apply(u) /\ sending' = {u} /\ made' = made \cup {u} /\ others' = others
  BY DEF Command
<1> HIDE DEF u
<1>4. st' \in FiniteStates /\ PendingOK'
        /\ doing' \cup effects' \subseteq Updates /\ passedOver' \subseteq effects'
  BY <1>2, <1>3, TypeApply
<1>5. DiskOK'
  BY <1>3 DEF TypeInv, DiskOK, Apply
<1>6. UpdatesOK'
  BY <1>2, <1>3 DEF TypeInv, UpdatesOK
<1>7. TypeOK'
  BY <1>2, <1>3, <1>4 DEF TypeInv, TypeOK, Apply, Ready, known, FiniteStates
<1> QED
  BY <1>4, <1>5, <1>6, <1>7 DEF TypeInv

LEMMA TypeReceive ==
    ASSUME TypeInv, NEW u \in others, Receive(u)
    PROVE  TypeInv'
<1>1. u \in Updates
  BY DEF TypeInv, TypeOK, known
<1>2. Apply(u) /\ UNCHANGED <<sending, made, others>>
  BY DEF Receive
<1>3. st' \in FiniteStates /\ PendingOK'
        /\ doing' \cup effects' \subseteq Updates /\ passedOver' \subseteq effects'
  BY <1>1, <1>2, TypeApply
<1>4. DiskOK' /\ UpdatesOK'
  BY <1>2 DEF TypeInv, DiskOK, UpdatesOK, Apply
<1>5. TypeOK'
  BY <1>2, <1>3 DEF TypeInv, TypeOK, Apply, known, FiniteStates
<1> QED
  BY <1>3, <1>4, <1>5 DEF TypeInv

(* The matrix that another server sends.                                   *)
LEMMA ReceivedMatrix ==
    ASSUME TypeInv, NEW q \in Servers, NEW n \in -1 .. MaxUpdates,
           NEW last \in BOOLEAN, ReceiveMatrix(q, n, last)
    PROVE  \E x \in FiniteStates :
              /\ x.updateIndex = st.updateIndex
              /\ x.buffer = st.buffer
              /\ x.latest_update[Me] = st.latest_update[Me]
              /\ \A i \in Servers, p \in Servers :
                    st.latest_update[i][p] <= x.latest_update[i][p]
              /\ st' \in FiniteStates
              /\ st'.updateIndex = x.updateIndex
              /\ st'.latest_update = x.latest_update
              /\ st'.buffer \subseteq x.buffer
              /\ \A u \in x.buffer \ st'.buffer :
                    \A i \in Servers : ~ (x.latest_update[i][u.procID] <= u.index)
              /\ todo' = <<writeUpdateMatrix(st')>>
<1> DEFINE row == [p \in Servers |-> IF p = Me THEN n ELSE newest(others, p)]
           m == [from |-> q, matrix |-> [initialState(q).latest_update EXCEPT ![q] = row]]
           x == updateMatrix(st, Me, m)
<1>1. others \in SUBSET Updates /\ IsFiniteSet(others)
  BY DEF TypeInv, TypeOK, UpdatesOK, known
<1>2. row \in [Servers -> Indices]
  BY <1>1, NewestType, RecoveryBounds DEF Indices
<1>3. initialState(q).latest_update \in Matrices
  BY InitialStateType DEF FiniteStates, LocalStates
<1>4. m.from \in Servers /\ m.matrix \in Matrices
  <2> HIDE DEF row
  <2> QED  BY <1>2, <1>3 DEF Matrices
<1>5. /\ st' = IF last THEN purgeUpdateBuffer(x) ELSE x
      /\ todo' = <<writeUpdateMatrix(x)>>
  BY DEF ReceiveMatrix
<1> HIDE DEF m
<1>6. /\ x \in FiniteStates
      /\ x.updateIndex = st.updateIndex
      /\ x.buffer = st.buffer
      /\ x.latest_update[Me] = st.latest_update[Me]
      /\ \A i \in Servers, p \in Servers :
            st.latest_update[i][p] <= x.latest_update[i][p]
  BY <1>4, MeAssumption, UpdateMatrixType, UpdateMatrixEffect DEF TypeInv
<1> HIDE DEF x
<1>7. /\ st' \in FiniteStates
      /\ st'.updateIndex = x.updateIndex
      /\ st'.latest_update = x.latest_update
      /\ st'.buffer \subseteq x.buffer
      /\ \A u \in x.buffer \ st'.buffer :
            \A i \in Servers : ~ (x.latest_update[i][u.procID] <= u.index)
  <2>1. CASE last
    BY <1>5, <1>6, <2>1, PurgeType, PurgeEffect
  <2>2. CASE ~ last
    BY <1>5, <1>6, <2>2
  <2> QED
    BY <2>1, <2>2
<1>8. todo' = <<writeUpdateMatrix(st')>>
  BY <1>5, <1>7 DEF writeUpdateMatrix
<1> QED
  BY <1>6, <1>7, <1>8

LEMMA TypeReceiveMatrix ==
    ASSUME TypeInv, NEW q \in Servers, NEW n \in -1 .. MaxUpdates,
           NEW last \in BOOLEAN, ReceiveMatrix(q, n, last)
    PROVE  TypeInv'
<1>1. st' \in FiniteStates /\ todo' = <<writeUpdateMatrix(st')>>
  BY ReceivedMatrix
<1>2. /\ UNCHANGED <<up, sending, replay, disk, unset, made, issued, others,
                     torn, crashes, effects, passedOver>>
      /\ doing' = {}
  BY DEF ReceiveMatrix
<1>3. todo' \in Seq(WritesOf(st')) /\ Len(todo') = 1
  BY <1>1 DEF WritesOf
<1>4. PendingOK'
  BY <1>3 DEF PendingOK, BufferFirst
<1>5. DiskOK' /\ UpdatesOK'
  BY <1>2 DEF TypeInv, DiskOK, UpdatesOK
<1>6. TypeOK'
  BY <1>1, <1>2 DEF TypeInv, TypeOK, known, FiniteStates
<1> QED
  BY <1>1, <1>4, <1>5, <1>6 DEF TypeInv

(* A write leaves the list and reaches its file.                           *)
LEMMA WriteFileIs ==
    ASSUME TypeInv, WriteFile
    PROVE  /\ Head(todo) \in WritesOf(st)
           /\ Head(todo) = todo[1]
           /\ Len(todo) \in Nat \ {0}
           /\ todo' \in Seq(WritesOf(st))
           /\ Len(todo') = Len(todo) - 1
           /\ \A k \in 1 .. Len(todo) - 1 : todo'[k] = todo[k + 1]
           /\ disk' = diskWith(Head(todo).file, Head(todo).content)
<1>1. todo \in Seq(WritesOf(st)) /\ todo # <<>> /\ todo' = Tail(todo)
        /\ disk' = diskWith(Head(todo).file, Head(todo).content)
  BY DEF TypeInv, PendingOK, WriteFile
<1> QED
  BY <1>1, HeadTailProperties, LenProperties, EmptySeq, ElementOfSeq

LEMMA TypeWriteFile == TypeInv /\ WriteFile => TypeInv'
<1> SUFFICES ASSUME TypeInv, WriteFile PROVE TypeInv'
  OBVIOUS
<1>1. UNCHANGED <<up, st, sending, replay, unset, made, issued, others, torn, crashes,
                  doing, effects, passedOver>>
  BY DEF WriteFile, history
<1>2. st \in FiniteStates /\ DiskOK /\ BufferFirst(todo)
  BY DEF TypeInv, PendingOK
<1>3. DiskOK'
  BY <1>2, WriteFileIs, WritesFit, DiskChanges
<1>4. BufferFirst(todo')
  BY <1>2, WriteFileIs DEF BufferFirst
<1>5. PendingOK'
  BY <1>1, <1>4, WriteFileIs DEF PendingOK, BufferFirst
<1>6. UpdatesOK'
  BY <1>1 DEF TypeInv, UpdatesOK
<1>7. (DOMAIN disk \subseteq Files)'
  BY <1>3 DEF DiskOK, ContentOK, Files
<1>8. TypeOK'
  BY <1>1, <1>7 DEF TypeInv, TypeOK, known
<1> QED
  BY <1>1, <1>2, <1>3, <1>5, <1>6, <1>8 DEF TypeInv

LEMMA TypeCrash == TypeInv /\ (Crash \/ ListPastTheEnd) => TypeInv'
<1> SUFFICES ASSUME TypeInv, Crash \/ ListPastTheEnd PROVE TypeInv'
  OBVIOUS
<1>1. /\ up' = FALSE
      /\ UNCHANGED <<st, todo, sending, replay, unset, made, issued, others,
                     doing, effects, passedOver>>
  BY DEF Crash, ListPastTheEnd, Dies, history
<1>2. torn' \in BOOLEAN
  BY DEF Crash, ListPastTheEnd, TypeInv, TypeOK
<1>3. DiskOK'
  <2>1. CASE disk' = disk
    BY <2>1 DEF TypeInv, DiskOK
  <2>2. CASE disk' # disk
    <3>1. /\ todo # <<>>
          /\ \/ disk' = diskWithout(Head(todo).file)
             \/ \E c \in remains(Head(todo)) : disk' = diskWith(Head(todo).file, c)
      BY <2>2 DEF Crash, ListPastTheEnd
    <3>2. Head(todo) \in WritesOf(st)
      BY <3>1, HeadTailProperties DEF TypeInv, PendingOK
    <3> QED
      BY <3>1, <3>2, RemainsFit, DiskChanges DEF TypeInv
  <2> QED
    BY <2>1, <2>2
<1>4. PendingOK' /\ UpdatesOK'
  BY <1>1 DEF TypeInv, PendingOK, BufferFirst, UpdatesOK
<1>5. (DOMAIN disk \subseteq Files)'
  BY <1>3 DEF DiskOK, ContentOK, Files
<1>6. TypeOK'
  BY <1>1, <1>2, <1>5 DEF TypeInv, TypeOK, known
<1> QED
  BY <1>1, <1>3, <1>4, <1>6 DEF TypeInv

LEMMA TypeRestart == TypeInv /\ Restart => TypeInv'
<1> SUFFICES ASSUME TypeInv, Restart PROVE TypeInv'
  OBVIOUS
<1>1. /\ up' = TRUE /\ st' = loadState /\ todo' = <<>> /\ sending' = {} /\ replay' = 1
      /\ unset' \subseteq loadedUsers
      /\ made' \subseteq made /\ made \cap issued \subseteq made'
      /\ doing' = {} /\ effects' \subseteq effects /\ passedOver' \subseteq effects'
      /\ UNCHANGED <<disk, issued, others, torn, crashes>>
  BY DEF Restart
<1>2. st' \in FiniteStates /\ loadedUsers \subseteq Users
  BY <1>1, LoadStateIs DEF TypeInv
<1>3. todo' \in Seq(WritesOf(st')) /\ Len(todo') = 0
  BY <1>1
<1>4. PendingOK'
  BY <1>3 DEF PendingOK, BufferFirst
<1>5. DiskOK' /\ UpdatesOK'
  BY <1>1 DEF TypeInv, DiskOK, UpdatesOK
<1>6. 1 \in 1 .. NumServers + 1
  BY NumServersAssumption
<1>7. TypeOK'
  BY <1>1, <1>2, <1>6 DEF TypeInv, TypeOK, known, FiniteStates
<1> QED
  BY <1>2, <1>4, <1>5, <1>7 DEF TypeInv

(* The replay of one server's last update, if it has any.                  *)
LEMMA ReplayIs ==
    ASSUME TypeInv, Replay
    PROVE  /\ st' \in FiniteStates
           /\ st'.buffer = st.buffer
           /\ st'.latest_update = st.latest_update
           /\ st'.updateIndex >= st.updateIndex
           /\ \A v \in own(st, replay) : v.index <= st'.updateIndex
           /\ todo' \in Seq(WritesOf(st'))
           /\ Len(todo') \in 0 .. 1
           /\ \A k \in 1 .. Len(todo'), p \in Servers :
                 todo'[k].file # BufferFile(p) /\ todo'[k].file # MatrixFile
<1>1. st \in FiniteStates /\ replay \in Servers /\ todo = <<>> /\ st.updateIndex \in Int
  BY DEF TypeInv, Replay, FiniteStates, LocalStates, Indices
<1>2. CASE own(st, replay) = {}
  <2>1. st' = st /\ todo' = <<>>
    BY <1>1, <1>2 DEF Replay, replayLast
  <2>2. todo' \in Seq(WritesOf(st')) /\ Len(todo') = 0
    BY <2>1
  <2> QED
    BY <1>1, <1>2, <2>1, <2>2
<1>3. CASE own(st, replay) # {}
  <2> DEFINE u == lastUpdate(st, replay)
  <2>1. u \in own(st, replay) /\ \A v \in own(st, replay) : v.index <= u.index
    BY <1>1, <1>3, LastUpdateIs
  <2>2. own(st, replay) \subseteq Updates
    BY <1>1 DEF own, FiniteStates, LocalStates
  <2>3. u \in Updates
    BY <2>1, <2>2
  <2>4. st' = replayUpdate(st, u) /\ todo' = writesOfChange(st, st', u)
    BY <1>3 DEF Replay, replayLast
  <2> HIDE DEF u
  <2>5. /\ st' \in FiniteStates
        /\ st'.buffer = st.buffer
        /\ st'.latest_update = st.latest_update
        /\ st'.updateIndex = larger(st.updateIndex + 1, u.index)
    BY <1>1, <2>3, <2>4, ReplayUpdateIs
  <2>6. u.index \in Nat /\ \A v \in own(st, replay) : v.index \in Nat
    BY <2>2, <2>3 DEF Updates
  <2>7. /\ st'.updateIndex >= st.updateIndex
        /\ \A v \in own(st, replay) : v.index <= st'.updateIndex
    BY <1>1, <2>1, <2>5, <2>6 DEF larger
  <2>8. /\ todo' \in Seq(WritesOf(st'))
        /\ Len(todo') \in 0 .. 1
        /\ \A k \in 1 .. Len(todo'), p \in Servers :
              todo'[k].file # BufferFile(p) /\ todo'[k].file # MatrixFile
    <3> DEFINE c == writesOfChange(st, st', u)
    <3>1. \/ c = <<>>
          \/ \E w \in WritesOf(st') :
                /\ c = <<w>>
                /\ \A p : w.file # BufferFile(p)
                /\ w.file # MatrixFile
      <4>1. u.user \in Users
        BY <2>3 DEF Updates
      <4> QED
        BY <4>1, ChangeWrites
    <3> HIDE DEF c
    <3>2. todo' = c
      BY <2>4 DEF c
    <3>3. CASE c = <<>>
      BY <3>2, <3>3
    <3>4. CASE c # <<>>
      <4>1. PICK w \in WritesOf(st') : c = <<w>> /\ w.file # MatrixFile
                                         /\ \A p : w.file # BufferFile(p)
        BY <3>1, <3>4
      <4> QED
        BY <3>2, <4>1
    <3> QED
      BY <3>3, <3>4
  <2> QED
    BY <2>5, <2>7, <2>8
<1> QED
  BY <1>2, <1>3

LEMMA TypeReplay == TypeInv /\ Replay => TypeInv'
<1> SUFFICES ASSUME TypeInv, Replay PROVE TypeInv'
  OBVIOUS
<1>1. UNCHANGED <<up, sending, disk, unset, made, issued, others, torn, crashes, passedOver>>
        /\ replay \in Servers /\ replay' = replay + 1
  BY DEF Replay, replayLast
<1>2. replay' \in 1 .. NumServers + 1
  BY <1>1, NumServersAssumption DEF Servers
<1>3. st' \in FiniteStates /\ PendingOK'
  BY ReplayIs DEF PendingOK, BufferFirst
<1>4. DiskOK' /\ UpdatesOK'
  BY <1>1 DEF TypeInv, DiskOK, UpdatesOK
<1>5. doing' \cup effects' \subseteq Updates /\ effects \subseteq effects'
  <2>1. own(st, replay) # {} => lastUpdate(st, replay) \in Updates
    BY <1>1, LastUpdateIs DEF own, TypeInv, FiniteStates, LocalStates
  <2> QED
    BY <2>1 DEF Replay, replayLast, effectOf, TypeInv, TypeOK
<1>6. TypeOK'
  BY <1>1, <1>2, <1>3, <1>5 DEF TypeInv, TypeOK, known, FiniteStates
<1> QED
  BY <1>3, <1>4, <1>6 DEF TypeInv

(* What happens outside: the answer, and the updates of other servers.     *)
LEMMA TypeOutside ==
    /\ TypeInv /\ Answer => TypeInv'
    /\ \A u \in Updates : TypeInv /\ MadeElsewhere(u) => TypeInv'
<1>1. ASSUME TypeInv, Answer PROVE TypeInv'
  <2>1. UNCHANGED <<up, st, todo, replay, disk, unset, made, others, torn, crashes,
                    doing, effects, passedOver>>
          /\ issued' = issued \cup sending /\ sending' = {}
    BY <1>1 DEF Answer, history
  <2>2. DiskOK' /\ PendingOK' /\ UpdatesOK'
    BY <1>1, <2>1 DEF TypeInv, DiskOK, PendingOK, BufferFirst, UpdatesOK
  <2>3. TypeOK'
    BY <1>1, <2>1 DEF TypeInv, TypeOK, known
  <2> QED
    BY <1>1, <2>1, <2>2, <2>3 DEF TypeInv
<1>2. ASSUME TypeInv, NEW u \in Updates, MadeElsewhere(u) PROVE TypeInv'
  <2>1. UNCHANGED <<up, st, todo, sending, replay, disk, unset, made, issued, torn, crashes,
                    doing, effects, passedOver>>
          /\ others' = others \cup {u} /\ u.procID # Me
    BY <1>2 DEF MadeElsewhere, history
  <2>2. DiskOK' /\ PendingOK'
    BY <1>2, <2>1 DEF TypeInv, DiskOK, PendingOK, BufferFirst
  <2>3. UpdatesOK'
    BY <1>2, <2>1, FS_AddElement DEF TypeInv, UpdatesOK
  <2>4. TypeOK'
    BY <1>2, <2>1 DEF TypeInv, TypeOK, known
  <2> QED
    BY <1>2, <2>1, <2>2, <2>3, <2>4 DEF TypeInv
<1> QED
  BY <1>1, <1>2

LEMMA TypeNext == TypeInv /\ [Next]_vars => TypeInv'
<1> SUFFICES ASSUME TypeInv, [Next]_vars PROVE TypeInv'
  OBVIOUS
<1>1. CASE UNCHANGED vars
  BY <1>1 DEF vars, history, TypeInv, TypeOK, DiskOK, PendingOK, BufferFirst, UpdatesOK,
              known
<1>2. ASSUME NEW p \in Servers, NEW i \in 0 .. MaxUpdates, NEW type \in UpdateTypes,
             NEW user \in Users, NEW mail \in Stamps,
             MadeElsewhere([procID |-> p, index |-> i, type |-> type,
                            user |-> user, mail |-> mail])
      PROVE  TypeInv'
  <2>1. mail \in MailIds /\ i \in Nat
    BY RecoveryBounds DEF Stamps, MailIds
  <2>2. [procID |-> p, index |-> i, type |-> type, user |-> user, mail |-> mail]
          \in Updates
    BY <2>1 DEF Updates
  <2> QED
    BY <1>2, <2>2, TypeOutside
<1> QED
  BY <1>1, <1>2, TypeCommand, TypeReceive, TypeReceiveMatrix, TypeWriteFile,
     TypeCrash, TypeRestart, TypeReplay, TypeOutside DEF Next

LEMMA TypeAlways == Spec => []TypeInv
BY TypeInit, TypeNext, PTL DEF Spec

(* The memory, the files and the writes that are left of a handler keep    *)
(* their types through every handler, crash and start (writer.c,           *)
(* recover.c): also a torn file loads as a shorter one.                    *)
THEOREM TypeCorrect == Spec => []TypeOK
<1>1. TypeInv => TypeOK
  BY DEF TypeInv
<1> QED
  BY <1>1, TypeAlways, PTL

-----------------------------------------------------------------------------
(* The vectors, the own updates and the counter, on the disk and in        *)
(* memory; past(u, m) says that every server is past u according to the    *)
(* matrix m.                                                               *)
saved == recoverUpdateMatrix

savedUpdates == IF exists(BufferFile(Me)) THEN disk[BufferFile(Me)] ELSE {}

past(u, m) == \A i \in Servers : m[i][Me] > u.index

pending(f) == \E k \in 1 .. Len(todo) : todo[k].file = f

(* Own updates of set s that reach what the matrix m credits Me with.      *)
Reached(s, m) == m[Me][Me] >= 0 => \E v \in s : v.index >= m[Me][Me]

(* What an answered update leaves on the disk.                             *)
AnsweredOnDisk ==
    \A u \in issued :
        /\ u.index <= saved[Me][Me]
        /\ u \in savedUpdates \/ past(u, saved)

AnsweredInMemory ==
    \A u \in issued : u \in st.buffer \/ past(u, st.latest_update)

(* The update that is about to be answered for is in memory.               *)
SendingInMemory ==
    \A u \in sending : u \in st.buffer /\ u.index <= st.latest_update[Me][Me]

(* The disk is behind the memory, by the writes that are left alone.       *)
DiskBehind ==
    /\ \A i \in Servers : saved[i][Me] <= st.latest_update[i][Me]
    /\ pending(MatrixFile) \/ saved = st.latest_update
    /\ pending(BufferFile(Me)) \/ own(st, Me) \subseteq savedUpdates
    /\ pending(BufferFile(Me)) =>
           \A u \in issued : u \in st.buffer \/ past(u, saved)

(* The replay of its own last update brings the counter past the buffer.   *)
CounterReached ==
    replay > Me => \A v \in own(st, Me) : v.index <= st.updateIndex

RecoveryInv ==
    ~ torn =>
        /\ AnsweredOnDisk /\ Reached(savedUpdates, saved)
        /\ up => /\ AnsweredInMemory /\ SendingInMemory
                 /\ Reached(own(st, Me), st.latest_update)
                 /\ DiskBehind /\ CounterReached

(* The numbers that are compared below, and whose updates they are about.  *)
LEMMA Numbers ==
    ASSUME TypeInv
    PROVE  /\ st \in FiniteStates /\ st.updateIndex \in Int
           /\ \A i \in Servers, p \in Servers :
                 st.latest_update[i][p] \in Int /\ saved[i][p] \in Int
           /\ \A u \in st.buffer : u.index \in Nat /\ u.procID \in Servers
           /\ \A u \in issued : u.index \in Nat /\ u.procID = Me
           /\ \A u \in sending : u.index \in Nat /\ u.procID = Me
           /\ saved \in Matrices
<1>1. saved \in Matrices /\ st \in FiniteStates
  BY LoadStateIs DEF TypeInv, saved
<1>2. \A i \in Servers, p \in Servers :
         st.latest_update[i][p] \in Int /\ saved[i][p] \in Int
  BY <1>1 DEF FiniteStates, LocalStates, Matrices, Indices
<1>3. \A u \in st.buffer : u.index \in Nat /\ u.procID \in Servers
  BY <1>1 DEF FiniteStates, LocalStates, Updates
<1>4. issued \subseteq made /\ sending \subseteq made
        /\ \A u \in made : u.index \in Nat /\ u.procID = Me
  BY DEF TypeInv, TypeOK, UpdatesOK, known, Updates
<1>5. st.updateIndex \in Int
  BY <1>1 DEF FiniteStates, LocalStates, Indices
<1> QED
  BY <1>1, <1>2, <1>3, <1>4, <1>5

LEMMA SameDisk ==
    ASSUME disk' = disk
    PROVE  saved' = saved /\ savedUpdates' = savedUpdates
BY DEF saved, savedUpdates, recoverUpdateMatrix, exists

(* No write is left.                                                       *)
LEMMA NothingPending ==
    ASSUME TypeInv, RecoveryInv, ~ torn, up, todo = <<>>
    PROVE  /\ \A f : ~ pending(f)
           /\ saved = st.latest_update
           /\ own(st, Me) \subseteq savedUpdates
<1>1. \A f : ~ pending(f)
  BY DEF pending
<1> QED
  BY <1>1 DEF RecoveryInv, DiskBehind

LEMMA RecoveryInit == Init => RecoveryInv
<1> SUFFICES ASSUME Init PROVE RecoveryInv
  OBVIOUS
<1>1. /\ st = initialState(Me) /\ todo = <<>> /\ DOMAIN disk = {}
      /\ issued = {} /\ sending = {}
  BY DEF Init
<1>2. saved = st.latest_update /\ savedUpdates = {} /\ st.buffer = {}
  BY <1>1 DEF saved, savedUpdates, recoverUpdateMatrix, exists, initialState
<1>3. st.latest_update[Me][Me] = -1
  BY <1>1, MeAssumption DEF initialState
<1>4. own(st, Me) = {} /\ \A f : ~ pending(f)
  BY <1>1, <1>2 DEF own, pending
<1>5. TypeInv
  BY TypeInit
<1>6. \A i \in Servers : saved[i][Me] <= st.latest_update[i][Me]
  BY <1>2, <1>5, MeAssumption, Numbers
<1> QED
  BY <1>1, <1>2, <1>3, <1>4, <1>6
     DEF RecoveryInv, AnsweredOnDisk, AnsweredInMemory, SendingInMemory, Reached,
         DiskBehind, CounterReached

(* What applying an update does, in the terms of the invariant.            *)
LEMMA AppliedUpdate ==
    ASSUME TypeInv, RecoveryInv, ~ torn, NEW u \in Updates, Apply(u),
           ~ findUpdate(st, u.procID, u.index)
    PROVE  /\ up /\ sending = {} /\ saved = st.latest_update
           /\ own(st, Me) \subseteq savedUpdates
           /\ CounterReached /\ replay > Me
           /\ st'.updateIndex = larger(st.updateIndex + 1, u.index)
           /\ st'.buffer = st.buffer \cup {u}
           /\ \A i \in Servers :
                 st'.latest_update[i][Me] =
                     IF i = Me /\ u.procID = Me
                     THEN larger(st.latest_update[Me][Me], u.index)
                     ELSE st.latest_update[i][Me]
           /\ pending(MatrixFile)'
           /\ pending(BufferFile(Me))' <=> u.procID = Me
<1>1. /\ up /\ replay > NumServers /\ todo = <<>> /\ sending = {}
      /\ st' = applyUpdate(st, Me, u) /\ todo' = writes(st, st', u)
  BY DEF Apply, Ready, started
<1>2. replay > Me /\ CounterReached
  BY <1>1, MeAssumption, NumServersAssumption
     DEF Servers, RecoveryInv, TypeInv, TypeOK
<1>3. /\ st'.updateIndex = larger(st.updateIndex + 1, u.index)
      /\ st'.buffer = st.buffer \cup {u}
      /\ st'.latest_update =
           [st.latest_update EXCEPT ![Me][u.procID] = larger(@, u.index)]
  BY <1>1, MeAssumption, ApplyUpdateEffect DEF TypeInv
<1>4. st.latest_update \in [Servers -> [Servers -> Indices]] /\ u.procID \in Servers
  BY DEF TypeInv, FiniteStates, LocalStates, Matrices, Updates
<1>5. \A i \in Servers :
         st'.latest_update[i][Me] =
             IF i = Me /\ u.procID = Me
             THEN larger(st.latest_update[Me][Me], u.index)
             ELSE st.latest_update[i][Me]
  BY <1>3, <1>4, MeAssumption
<1>6. /\ Len(todo') \in 2 .. 3
      /\ todo'[1].file = BufferFile(u.procID) /\ todo'[2].file = MatrixFile
      /\ BufferFirst(todo')
  <2>1. u.user \in Users /\ u.procID \in Servers
    BY DEF Updates
  <2>2. /\ Len(writes(st, st', u)) \in 2 .. 3
        /\ writes(st, st', u)[1] = writeUpdateBuffer(st', u.procID)
        /\ writes(st, st', u)[2] = writeUpdateMatrix(st')
        /\ BufferFirst(writes(st, st', u))
    BY <2>1, UpdateWrites
  <2>3. /\ todo'[1] = writeUpdateBuffer(st', u.procID)
        /\ todo'[2] = writeUpdateMatrix(st')
        /\ Len(todo') \in 2 .. 3
    BY <1>1, <2>2
  <2>4. BufferFirst(todo')
    BY <1>1, <2>2 DEF BufferFirst
  <2> QED
    BY <2>3, <2>4 DEF writeUpdateBuffer, writeUpdateMatrix, Write
<1>7. pending(MatrixFile)'
  <2>1. 2 \in 1 .. Len(todo')
    BY <1>6
  <2> QED
    BY <1>6, <2>1 DEF pending
<1>8. pending(BufferFile(Me))' <=> u.procID = Me
  <2>1. 1 \in 1 .. Len(todo') /\ \A k \in 1 .. Len(todo') : k = 1 \/ k \in 2 .. Len(todo')
    BY <1>6
  <2>2. ASSUME u.procID # Me, NEW k \in 1 .. Len(todo')
        PROVE  todo'[k].file # BufferFile(Me)
    BY <1>6, <2>1, <2>2, MeAssumption, FilesDistinct DEF BufferFirst
  <2> QED
    BY <1>6, <2>1, <2>2 DEF pending
<1> QED
  BY <1>1, <1>2, <1>3, <1>5, <1>7, <1>8, NothingPending

(* A command: its update gets a stamp above the buffer, so it is stored.   *)
LEMMA RecoveryCommand ==
    ASSUME TypeInv, RecoveryInv, ~ torn,
           NEW type \in UpdateTypes, NEW user \in Users, NEW mail \in Stamps,
           Command(type, user, mail)
    PROVE  RecoveryInv'
<1> DEFINE u == generateUpdate(st, Me, type, user, mail)
<1>1. u \in Updates /\ u.procID = Me /\ u.index = st.updateIndex + 1
  <2>1. mail \in MailIds
    BY RecoveryBounds DEF Stamps, MailIds
  <2>2. u \in Updates
    BY <2>1, MeAssumption, GenerateUpdateType DEF TypeInv, TypeOK
  <2> QED
    BY <2>2 DEF generateUpdate
<1>2. Apply(u) /\ sending' = {u} /\ UNCHANGED <<up, disk, issued, torn, replay>>
  BY DEF Command, Apply
<1> HIDE DEF u
<1>3. replay > Me
  BY <1>2, MeAssumption, NumServersAssumption
     DEF Apply, Ready, started, Servers, TypeInv, TypeOK
<1>4. up /\ CounterReached
  BY <1>2 DEF RecoveryInv, Apply, Ready, started
<1>5. \A v \in own(st, Me) : v.index < u.index /\ v.index <= st.updateIndex
  BY <1>1, <1>3, <1>4, Numbers DEF CounterReached, own
<1>6. ~ findUpdate(st, u.procID, u.index)
  <2>1. \A v \in own(st, Me) : v.index # u.index
    BY <1>1, <1>5, Numbers DEF own
  <2> QED
    BY <1>1, <2>1 DEF findUpdate, own
<1>7. /\ saved = st.latest_update /\ own(st, Me) \subseteq savedUpdates
      /\ st'.updateIndex = larger(st.updateIndex + 1, u.index)
      /\ st'.buffer = st.buffer \cup {u}
      /\ \A i \in Servers :
            st'.latest_update[i][Me] =
                IF i = Me THEN larger(st.latest_update[Me][Me], u.index)
                ELSE st.latest_update[i][Me]
      /\ pending(MatrixFile)' /\ pending(BufferFile(Me))'
  BY <1>1, <1>2, <1>6, AppliedUpdate
<1>8. /\ u.index \in Nat
      /\ \A i \in Servers : /\ st.latest_update[i][Me] \in Int
                            /\ st.latest_update[i][Me] <= st'.latest_update[i][Me]
                            /\ st'.latest_update[i][Me] \in Int
      /\ u.index <= st'.latest_update[Me][Me]
      /\ st'.latest_update[Me][Me] \in {u.index, st.latest_update[Me][Me]}
  BY <1>1, <1>7, MeAssumption, Numbers DEF Updates, larger
<1>9. saved' = saved /\ savedUpdates' = savedUpdates
  BY <1>2, SameDisk
<1>10. AnsweredOnDisk' /\ Reached(savedUpdates, saved)'
  BY <1>2, <1>9 DEF RecoveryInv, AnsweredOnDisk, Reached, past
<1>11. \A v \in issued : v \in st.buffer \/ past(v, saved)
  BY <1>4, <1>7 DEF RecoveryInv, AnsweredInMemory
<1>12. AnsweredInMemory'
  <2>1. \A v \in issued : past(v, st.latest_update) => past(v, st'.latest_update)
    BY <1>8, Numbers DEF past
  <2> QED
    BY <1>2, <1>7, <1>11, <2>1 DEF AnsweredInMemory
<1>13. SendingInMemory'
  BY <1>2, <1>7, <1>8 DEF SendingInMemory
<1>14. own(st', Me) = own(st, Me) \cup {u}
  BY <1>1, <1>7 DEF own
<1>15. Reached(own(st', Me), st'.latest_update)
  <2>1. CASE st'.latest_update[Me][Me] = u.index
    BY <1>8, <1>14, <2>1 DEF Reached
  <2>2. CASE st'.latest_update[Me][Me] = st.latest_update[Me][Me]
    BY <1>4, <1>14, <2>2 DEF RecoveryInv, Reached
  <2> QED
    BY <1>8, <2>1, <2>2
<1>16. DiskBehind'
  <2>1. \A i \in Servers : saved'[i][Me] <= st'.latest_update[i][Me]
    BY <1>7, <1>8, <1>9
  <2>2. \A v \in issued' : v \in st'.buffer \/ past(v, saved')
    BY <1>2, <1>7, <1>9, <1>11
  <2> QED
    BY <1>7, <2>1, <2>2 DEF DiskBehind
<1>17. CounterReached'
  <2>1. st'.updateIndex = u.index
    BY <1>1, <1>7, <1>8 DEF larger
  <2>2. \A v \in own(st', Me) : v.index <= st'.updateIndex
    BY <1>5, <1>8, <1>14, <2>1, Numbers DEF own
  <2> QED
    BY <2>2 DEF CounterReached
<1> QED
  BY <1>2, <1>10, <1>12, <1>13, <1>15, <1>16, <1>17 DEF RecoveryInv

(* Nothing of what the invariant speaks of changes.                        *)
LEMMA RecoveryStays ==
    ASSUME TypeInv, RecoveryInv,
           UNCHANGED <<up, st, todo, sending, replay, disk, issued, torn>>
    PROVE  RecoveryInv'
<1>1. saved' = saved /\ savedUpdates' = savedUpdates
  BY SameDisk
<1>2. pending(MatrixFile)' = pending(MatrixFile)
        /\ pending(BufferFile(Me))' = pending(BufferFile(Me))
  BY DEF pending
<1>3. AnsweredOnDisk' = AnsweredOnDisk /\ AnsweredInMemory' = AnsweredInMemory
        /\ SendingInMemory' = SendingInMemory /\ CounterReached' = CounterReached
  BY <1>1 DEF AnsweredOnDisk, AnsweredInMemory, SendingInMemory, CounterReached
<1>4. DiskBehind' = DiskBehind
  BY <1>1, <1>2 DEF DiskBehind
<1> QED
  BY <1>1, <1>3, <1>4 DEF RecoveryInv

(* An update of another server: none of the own ones is concerned.         *)
LEMMA RecoveryReceive ==
    ASSUME TypeInv, RecoveryInv, ~ torn, NEW u \in others, Receive(u)
    PROVE  RecoveryInv'
<1>1. u \in Updates /\ u.procID # Me
  BY DEF TypeInv, TypeOK, UpdatesOK, known
<1>2. Apply(u) /\ UNCHANGED <<up, replay, disk, issued, torn, sending>>
  BY DEF Receive, Apply
<1>3. CASE findUpdate(st, u.procID, u.index)
  <2>1. st' = st
    BY <1>2, <1>3 DEF Apply, applyUpdate
  <2>2. todo' = todo
    BY <1>2, <1>3 DEF Apply, Ready, writes
  <2> QED
    BY <1>2, <2>1, <2>2, RecoveryStays
<1>4. CASE ~ findUpdate(st, u.procID, u.index)
  <2>1. /\ up /\ sending = {} /\ saved = st.latest_update
        /\ own(st, Me) \subseteq savedUpdates
        /\ CounterReached /\ replay > Me
        /\ st'.updateIndex = larger(st.updateIndex + 1, u.index)
        /\ st'.buffer = st.buffer \cup {u}
        /\ \A i \in Servers : st'.latest_update[i][Me] = st.latest_update[i][Me]
        /\ pending(MatrixFile)' /\ ~ pending(BufferFile(Me))'
    BY <1>1, <1>2, <1>4, AppliedUpdate
  <2>2. saved' = saved /\ savedUpdates' = savedUpdates
    BY <1>2, SameDisk
  <2>3. AnsweredOnDisk' /\ Reached(savedUpdates, saved)'
    BY <1>2, <2>2 DEF RecoveryInv, AnsweredOnDisk, Reached, past
  <2>4. own(st', Me) = own(st, Me)
    BY <1>1, <2>1 DEF own
  <2>5. AnsweredInMemory' /\ SendingInMemory'
    BY <1>2, <2>1 DEF RecoveryInv, AnsweredInMemory, SendingInMemory, past
  <2>6. Reached(own(st', Me), st'.latest_update)
    BY <2>1, <2>4, MeAssumption DEF RecoveryInv, Reached
  <2>7. DiskBehind'
    BY <2>1, <2>2, <2>4 DEF RecoveryInv, DiskBehind
  <2>8. CounterReached'
    <3>1. \A v \in own(st, Me) : v.index <= st.updateIndex /\ v.index \in Int
      BY <2>1, Numbers DEF CounterReached, own
    <3>2. st.updateIndex <= st'.updateIndex /\ st'.updateIndex \in Int
            /\ st.updateIndex \in Int
      BY <1>1, <2>1, Numbers DEF larger, Updates
    <3> QED
      BY <2>4, <3>1, <3>2 DEF CounterReached
  <2> QED
    BY <1>2, <2>3, <2>5, <2>6, <2>7, <2>8 DEF RecoveryInv
<1> QED
  BY <1>3, <1>4

(* A matrix raises what the other servers are known to have; what is       *)
(* purged then is passed by all of them, but stays on the disk.            *)
LEMMA RecoveryReceiveMatrix ==
    ASSUME TypeInv, RecoveryInv, ~ torn,
           NEW q \in Servers, NEW n \in -1 .. MaxUpdates, NEW last \in BOOLEAN,
           ReceiveMatrix(q, n, last)
    PROVE  RecoveryInv'
<1>1. PICK x \in FiniteStates :
         /\ x.updateIndex = st.updateIndex
         /\ x.buffer = st.buffer
         /\ x.latest_update[Me] = st.latest_update[Me]
         /\ \A i \in Servers, p \in Servers :
               st.latest_update[i][p] <= x.latest_update[i][p]
         /\ st'.updateIndex = x.updateIndex
         /\ st'.latest_update = x.latest_update
         /\ st'.buffer \subseteq x.buffer
         /\ \A u \in x.buffer \ st'.buffer :
               \A i \in Servers : ~ (x.latest_update[i][u.procID] <= u.index)
         /\ todo' = <<writeUpdateMatrix(st')>>
  BY ReceivedMatrix
<1>2. /\ UNCHANGED <<up, sending, replay, disk, issued, torn>>
      /\ up /\ todo = <<>> /\ sending = {}
  BY DEF ReceiveMatrix, Ready, started
<1>3. /\ x.updateIndex = st.updateIndex
      /\ x.buffer = st.buffer
      /\ x.latest_update[Me] = st.latest_update[Me]
      /\ \A i \in Servers, p \in Servers :
            st.latest_update[i][p] <= x.latest_update[i][p]
  BY <1>1
<1>4. /\ st'.updateIndex = x.updateIndex
      /\ st'.latest_update = x.latest_update
      /\ st'.buffer \subseteq x.buffer
      /\ \A u \in x.buffer \ st'.buffer :
            \A i \in Servers : ~ (x.latest_update[i][u.procID] <= u.index)
  BY <1>1
<1>5. \A i \in Servers : /\ st'.latest_update[i][Me] \in Int
                         /\ st.latest_update[i][Me] <= st'.latest_update[i][Me]
  BY <1>3, <1>4, MeAssumption DEF FiniteStates, LocalStates, Matrices, Indices
<1>6. /\ st'.latest_update[Me][Me] = st.latest_update[Me][Me]
      /\ own(st', Me) \subseteq own(st, Me)
      /\ \A u \in st.buffer \ st'.buffer : u.procID = Me => past(u, st'.latest_update)
  <2>1. \A u \in st.buffer \ st'.buffer : u.procID = Me => past(u, st'.latest_update)
    BY <1>3, <1>4, <1>5, Numbers DEF past
  <2> QED
    BY <1>3, <1>4, <2>1 DEF own
<1>7. saved' = saved /\ savedUpdates' = savedUpdates
        /\ saved = st.latest_update /\ own(st, Me) \subseteq savedUpdates
  BY <1>2, SameDisk, NothingPending
<1>8. AnsweredOnDisk' /\ Reached(savedUpdates, saved)'
  BY <1>2, <1>7 DEF RecoveryInv, AnsweredOnDisk, Reached, past
<1>9. AnsweredInMemory'
  <2>1. \A u \in issued : past(u, st.latest_update) => past(u, st'.latest_update)
    BY <1>5, MeAssumption, Numbers DEF past
  <2>2. \A u \in issued : u \in st.buffer \/ past(u, st.latest_update)
    BY <1>2 DEF RecoveryInv, AnsweredInMemory
  <2>3. \A u \in issued : u \in st'.buffer \/ past(u, st'.latest_update)
    BY <1>6, <2>1, <2>2, Numbers
  <2> QED
    BY <1>2, <2>3 DEF AnsweredInMemory
<1>10. SendingInMemory'
  BY <1>2 DEF SendingInMemory
<1>11. Reached(own(st', Me), st'.latest_update)
  <2>1. SUFFICES ASSUME st'.latest_update[Me][Me] >= 0
                 PROVE  \E v \in own(st', Me) : v.index >= st'.latest_update[Me][Me]
    BY DEF Reached
  <2>2. PICK v \in own(st, Me) : v.index >= st'.latest_update[Me][Me]
    BY <1>2, <1>6, <2>1 DEF RecoveryInv, Reached
  <2>3. ~ past(v, st'.latest_update)
    BY <1>5, <2>2, MeAssumption, Numbers DEF past, own
  <2>4. v \in own(st', Me)
    BY <1>6, <2>2, <2>3 DEF own
  <2> QED
    BY <2>2, <2>4
<1>12. DiskBehind'
  <2>1. Len(todo') = 1 /\ todo'[1].file = MatrixFile
    BY <1>1 DEF writeUpdateMatrix, Write
  <2>2. pending(MatrixFile)' /\ ~ pending(BufferFile(Me))'
    BY <2>1, FilesDistinct DEF pending
  <2>3. \A i \in Servers : saved'[i][Me] <= st'.latest_update[i][Me]
    BY <1>5, <1>7
  <2> QED
    BY <1>6, <1>7, <2>2, <2>3 DEF DiskBehind
<1>13. CounterReached'
  BY <1>2, <1>3, <1>4, <1>6 DEF RecoveryInv, CounterReached
<1> QED
  BY <1>2, <1>8, <1>9, <1>10, <1>11, <1>12, <1>13 DEF RecoveryInv

(* One write: the buffer goes to the disk before the matrix that credits   *)
(* Me with what is in it.                                                  *)
LEMMA RecoveryWriteFile ==
    ASSUME TypeInv, RecoveryInv, ~ torn, WriteFile
    PROVE  RecoveryInv'
<1> DEFINE w == Head(todo)
<1>1. /\ up /\ UNCHANGED <<up, st, sending, replay, issued, torn>>
  BY DEF WriteFile
<1>2. /\ w \in WritesOf(st) /\ w = todo[1] /\ Len(todo) \in Nat \ {0}
      /\ Len(todo') = Len(todo) - 1
      /\ \A k \in 1 .. Len(todo) - 1 : todo'[k] = todo[k + 1]
      /\ disk' = diskWith(w.file, w.content)
  BY WriteFileIs
<1> HIDE DEF w
<1>3. BufferFirst(todo)
  BY DEF TypeInv, PendingOK
<1>4. \A f : pending(f) <=> w.file = f \/ pending(f)'
  <2> TAKE f
  <2>1. ASSUME NEW k \in 1 .. Len(todo), todo[k].file = f, k # 1
        PROVE  pending(f)'
    <3>1. k - 1 \in 1 .. Len(todo') /\ todo'[k - 1] = todo[k]
      BY <1>2, <2>1
    <3> QED  BY <2>1, <3>1 DEF pending
  <2>2. ASSUME NEW k \in 1 .. Len(todo'), todo'[k].file = f
        PROVE  pending(f)
    <3>1. k + 1 \in 1 .. Len(todo) /\ todo'[k] = todo[k + 1]
      BY <1>2
    <3> QED  BY <2>2, <3>1 DEF pending
  <2>3. 1 \in 1 .. Len(todo)
    BY <1>2
  <2> QED
    BY <1>2, <2>1, <2>2, <2>3 DEF pending
<1>5. ~ pending(BufferFile(Me))'
  <2>1. ASSUME NEW k \in 1 .. Len(todo') PROVE todo'[k].file # BufferFile(Me)
    <3>1. k + 1 \in 2 .. Len(todo) /\ todo'[k] = todo[k + 1]
      BY <1>2
    <3> QED  BY <1>3, <3>1, MeAssumption DEF BufferFirst
  <2> QED
    BY <2>1 DEF pending
<1>6. AnsweredInMemory' /\ SendingInMemory' /\ CounterReached'
        /\ Reached(own(st, Me), st.latest_update)'
  BY <1>1 DEF RecoveryInv, AnsweredInMemory, SendingInMemory, CounterReached, Reached, past
<1>7. /\ AnsweredOnDisk /\ AnsweredInMemory /\ Reached(own(st, Me), st.latest_update)
      /\ DiskBehind /\ \A i \in Servers : saved[i][Me] <= st.latest_update[i][Me]
  BY <1>1 DEF RecoveryInv, DiskBehind
<1>8. ASSUME w.file = BufferFile(Me)
      PROVE  AnsweredOnDisk' /\ Reached(savedUpdates, saved)' /\ DiskBehind'
  <2>1. w.content = own(st, Me)
    BY <1>2, <1>8, FilesDistinct
       DEF WritesOf, writeUpdateBuffer, writeUpdateMatrix, writeUserList, writeUser, Write
  <2>2. savedUpdates' = own(st, Me) /\ saved' = saved
    BY <1>2, <1>8, <2>1, FilesDistinct
       DEF savedUpdates, saved, recoverUpdateMatrix, exists, diskWith
  <2>3. pending(BufferFile(Me)) /\ (pending(MatrixFile) => pending(MatrixFile)')
    BY <1>4, <1>8, FilesDistinct
  <2>4. \A u \in issued : u.index <= saved[Me][Me] /\ (u \in own(st, Me) \/ past(u, saved))
    BY <1>7, <2>3, Numbers DEF AnsweredOnDisk, DiskBehind, own
  <2>5. AnsweredOnDisk'
    BY <1>1, <2>2, <2>4 DEF AnsweredOnDisk, past
  <2>6. Reached(own(st, Me), saved)
    <3>1. SUFFICES ASSUME saved[Me][Me] >= 0
                   PROVE  \E v \in own(st, Me) : v.index >= saved[Me][Me]
      BY DEF Reached
    <3>2. /\ st.latest_update[Me][Me] \in Int /\ saved[Me][Me] \in Int
          /\ st.latest_update[Me][Me] >= saved[Me][Me]
      BY <1>7, MeAssumption, Numbers
    <3>3. PICK v \in own(st, Me) : v.index >= st.latest_update[Me][Me]
      BY <1>7, <3>1, <3>2 DEF Reached
    <3>4. v.index \in Int
      BY Numbers DEF own
    <3> QED  BY <3>2, <3>3, <3>4
  <2>7. DiskBehind'
    BY <1>1, <1>5, <1>7, <2>2, <2>3 DEF DiskBehind
  <2> QED
    BY <2>2, <2>5, <2>6, <2>7
<1>9. ASSUME w.file = MatrixFile
      PROVE  AnsweredOnDisk' /\ Reached(savedUpdates, saved)' /\ DiskBehind'
  <2>1. w.content = st.latest_update
    BY <1>2, <1>9, FilesDistinct
       DEF WritesOf, writeUpdateBuffer, writeUpdateMatrix, writeUserList, writeUser, Write
  <2>2. savedUpdates' = savedUpdates /\ saved' = st.latest_update
    BY <1>2, <1>9, <2>1, FilesDistinct
       DEF savedUpdates, saved, recoverUpdateMatrix, exists, diskWith
  <2>3. own(st, Me) \subseteq savedUpdates
    BY <1>4, <1>5, <1>7, <1>9, FilesDistinct DEF DiskBehind
  <2>4. \A u \in issued : u \in savedUpdates \/ past(u, st.latest_update)
    BY <1>7, <2>3, Numbers DEF AnsweredInMemory, own
  <2>5. \A u \in issued : u.index <= st.latest_update[Me][Me]
    BY <1>7, MeAssumption, Numbers DEF AnsweredOnDisk
  <2>6. AnsweredOnDisk'
    BY <1>1, <2>2, <2>4, <2>5 DEF AnsweredOnDisk, past
  <2>7. Reached(savedUpdates, st.latest_update)
    BY <1>7, <2>3 DEF Reached
  <2>8. DiskBehind'
    <3>1. \A i \in Servers : st.latest_update[i][Me] <= st.latest_update[i][Me]
      BY MeAssumption, Numbers
    <3> QED
      BY <1>1, <1>5, <2>2, <2>3, <3>1 DEF DiskBehind
  <2> QED
    BY <2>2, <2>6, <2>7, <2>8
<1>10. ASSUME w.file # BufferFile(Me), w.file # MatrixFile
       PROVE  AnsweredOnDisk' /\ Reached(savedUpdates, saved)' /\ DiskBehind'
  <2>1. savedUpdates' = savedUpdates /\ saved' = saved
    BY <1>2, <1>10
       DEF savedUpdates, saved, recoverUpdateMatrix, exists, diskWith
  <2>2. /\ pending(MatrixFile) <=> pending(MatrixFile)'
        /\ ~ pending(BufferFile(Me))
    BY <1>4, <1>5, <1>10
  <2>3. AnsweredOnDisk' /\ Reached(savedUpdates, saved)'
    BY <1>1, <2>1 DEF RecoveryInv, AnsweredOnDisk, Reached, past
  <2>4. DiskBehind'
    BY <1>1, <1>5, <1>7, <2>1, <2>2 DEF DiskBehind
  <2> QED
    BY <2>3, <2>4
<1> QED
  BY <1>6, <1>8, <1>9, <1>10 DEF RecoveryInv

(* A crash that tears no file leaves the disk alone.                       *)
LEMMA RecoveryCrash ==
    ASSUME TypeInv, RecoveryInv, ~ torn, ~ torn', Crash \/ ListPastTheEnd
    PROVE  RecoveryInv'
<1>1. up' = FALSE /\ issued' = issued /\ disk' = disk
  BY DEF Crash, ListPastTheEnd, Dies
<1>2. saved' = saved /\ savedUpdates' = savedUpdates
  BY <1>1, SameDisk
<1>3. AnsweredOnDisk' /\ Reached(savedUpdates, saved)'
  BY <1>1, <1>2 DEF RecoveryInv, AnsweredOnDisk, Reached, past
<1> QED
  BY <1>1, <1>3 DEF RecoveryInv

(* What is loaded is what is on the disk.                                  *)
LEMMA RecoveryRestart ==
    ASSUME TypeInv, RecoveryInv, ~ torn, Restart
    PROVE  RecoveryInv'
<1>1. /\ st' = loadState /\ todo' = <<>> /\ sending' = {} /\ replay' = 1
      /\ UNCHANGED <<disk, issued, torn>>
  BY DEF Restart
<1>2. st'.latest_update = saved /\ st'.buffer = recoverUpdateBuffer
  BY <1>1, LoadStateIs DEF TypeInv, saved
<1>3. own(st', Me) = savedUpdates
  <2>1. own(st', Me) \subseteq savedUpdates
    BY <1>2, RecoveredBuffer DEF TypeInv, own, savedUpdates
  <2>2. ASSUME NEW u \in savedUpdates
        PROVE  u \in own(st', Me)
    <3>1. exists(BufferFile(Me)) /\ u \in disk[BufferFile(Me)]
      BY DEF savedUpdates
    <3>2. disk[BufferFile(Me)] \in Records(Me)
      BY <3>1, MeAssumption, Contents DEF TypeInv, DiskOK, exists
    <3>3. u \in st'.buffer
      BY <1>2, <3>1, MeAssumption, RecoveredBuffer DEF TypeInv
    <3> QED
      BY <3>1, <3>2, <3>3 DEF Records, own
  <2> QED
    BY <2>1, <2>2
<1>4. saved' = saved /\ savedUpdates' = savedUpdates
  BY <1>1, SameDisk
<1>5. AnsweredOnDisk' /\ Reached(savedUpdates, saved)'
  BY <1>1, <1>4 DEF RecoveryInv, AnsweredOnDisk, Reached, past
<1>6. AnsweredInMemory' /\ SendingInMemory'
  <2>1. \A u \in issued : u \in own(st', Me) \/ past(u, saved)
    BY <1>3 DEF RecoveryInv, AnsweredOnDisk
  <2> QED
    BY <1>1, <1>2, <2>1 DEF AnsweredInMemory, SendingInMemory, past, own
<1>7. Reached(own(st', Me), st'.latest_update)
  BY <1>2, <1>3 DEF RecoveryInv
<1>8. DiskBehind'
  <2>1. Len(todo') = 0
    BY <1>1
  <2>2. \A f : ~ pending(f)'
    BY <2>1 DEF pending
  <2>3. \A i \in Servers : saved[i][Me] <= saved[i][Me]
    BY MeAssumption, Numbers
  <2> QED
    BY <1>2, <1>3, <1>4, <2>2, <2>3 DEF DiskBehind
<1>9. CounterReached'
  <2>1. ~ (replay' > Me)
    BY <1>1, MeAssumption DEF Servers
  <2> QED
    BY <2>1 DEF CounterReached
<1> QED
  BY <1>5, <1>6, <1>7, <1>8, <1>9 DEF RecoveryInv

(* The replay of its own last update brings the counter past the buffer.   *)
LEMMA RecoveryReplay ==
    ASSUME TypeInv, RecoveryInv, ~ torn, Replay
    PROVE  RecoveryInv'
<1>1. /\ up /\ replay \in Servers /\ todo = <<>> /\ replay' = replay + 1
      /\ UNCHANGED <<up, sending, disk, issued, torn>>
  BY DEF Replay, replayLast
<1>2. saved' = saved /\ savedUpdates' = savedUpdates
  BY <1>1, SameDisk
<1>3. own(st', Me) = own(st, Me) /\ st'.latest_update = st.latest_update
        /\ st'.buffer = st.buffer
  BY ReplayIs DEF own
<1>4. AnsweredOnDisk' /\ Reached(savedUpdates, saved)' /\ AnsweredInMemory'
        /\ SendingInMemory' /\ Reached(own(st', Me), st'.latest_update)
  BY <1>1, <1>2, <1>3
     DEF RecoveryInv, AnsweredOnDisk, Reached, AnsweredInMemory, SendingInMemory, past
<1>5. DiskBehind'
  <2>1. ~ pending(BufferFile(Me))'
    BY ReplayIs, MeAssumption DEF pending
  <2> QED
    BY <1>1, <1>2, <1>3, <2>1, NothingPending DEF RecoveryInv, DiskBehind
<1>6. CounterReached'
  <2>1. SUFFICES ASSUME replay' > Me, NEW v \in own(st, Me)
                 PROVE  v.index <= st'.updateIndex
    BY <1>3 DEF CounterReached
  <2>2. replay \in Int /\ Me \in Int
    BY <1>1, MeAssumption DEF Servers
  <2>3. CASE replay = Me
    BY <2>3, ReplayIs
  <2>4. CASE replay # Me
    <3>1. v.index <= st.updateIndex /\ v.index \in Int /\ st.updateIndex \in Int
      BY <1>1, <2>1, <2>2, <2>4, Numbers DEF RecoveryInv, CounterReached, own
    <3>2. st'.updateIndex >= st.updateIndex /\ st'.updateIndex \in Int
      BY ReplayIs DEF FiniteStates, LocalStates, Indices
    <3> QED
      BY <3>1, <3>2
  <2> QED
    BY <2>3, <2>4
<1> QED
  BY <1>1, <1>4, <1>5, <1>6 DEF RecoveryInv

(* When a client is answered for, every write of its update is done.       *)
LEMMA RecoveryAnswer ==
    ASSUME TypeInv, RecoveryInv, ~ torn, Answer
    PROVE  RecoveryInv'
<1>1. /\ up /\ todo = <<>> /\ issued' = issued \cup sending /\ sending' = {}
      /\ UNCHANGED <<up, st, todo, replay, disk, torn>>
  BY DEF Answer
<1>2. /\ saved = st.latest_update /\ own(st, Me) \subseteq savedUpdates
      /\ \A f : ~ pending(f)
  BY <1>1, NothingPending
<1>3. saved' = saved /\ savedUpdates' = savedUpdates
  BY <1>1, SameDisk
<1>4. ASSUME NEW u \in sending
      PROVE  u \in st.buffer /\ u \in savedUpdates /\ u.index <= saved[Me][Me]
  BY <1>1, <1>2, Numbers DEF RecoveryInv, SendingInMemory, own
<1>5. AnsweredOnDisk'
  BY <1>1, <1>3, <1>4 DEF RecoveryInv, AnsweredOnDisk, past
<1>6. AnsweredInMemory' /\ SendingInMemory'
  BY <1>1, <1>4 DEF RecoveryInv, AnsweredInMemory, SendingInMemory, past
<1>7. DiskBehind'
  <2>1. \A f : ~ pending(f)'
    BY <1>1, <1>2 DEF pending
  <2> QED
    BY <1>1, <1>2, <1>3, <2>1 DEF RecoveryInv, DiskBehind
<1>8. CounterReached' /\ Reached(savedUpdates, saved)'
        /\ Reached(own(st, Me), st.latest_update)'
  BY <1>1, <1>3 DEF RecoveryInv, CounterReached, Reached
<1> QED
  BY <1>5, <1>6, <1>7, <1>8 DEF RecoveryInv

(* A torn file is never mended.                                            *)
LEMMA TornStays == torn /\ [Next]_vars => torn'
<1> SUFFICES ASSUME torn, [Next]_vars PROVE torn'
  OBVIOUS
<1>1. ASSUME NEW u, Apply(u) PROVE torn'
  BY <1>1 DEF Apply
<1>2. ASSUME NEW type, NEW user, NEW mail, Command(type, user, mail) PROVE torn'
  BY <1>1, <1>2 DEF Command
<1>3. ASSUME NEW u, MadeElsewhere(u) \/ Receive(u) PROVE torn'
  BY <1>1, <1>3 DEF MadeElsewhere, Receive
<1>4. ASSUME NEW q, NEW n, NEW last, ReceiveMatrix(q, n, last) PROVE torn'
  BY <1>4 DEF ReceiveMatrix
<1>5. ASSUME Answer \/ WriteFile \/ Restart \/ Replay PROVE torn'
  BY <1>5 DEF Answer, WriteFile, Restart, Replay, replayLast
<1>6. ASSUME Crash \/ ListPastTheEnd PROVE torn'
  BY <1>6 DEF Crash, ListPastTheEnd
<1>7. CASE UNCHANGED vars
  BY <1>7 DEF vars
<1> QED
  BY <1>2, <1>3, <1>4, <1>5, <1>6, <1>7 DEF Next

LEMMA RecoveryNext == TypeInv /\ RecoveryInv /\ [Next]_vars => RecoveryInv'
<1> SUFFICES ASSUME TypeInv, RecoveryInv, [Next]_vars PROVE RecoveryInv'
  OBVIOUS
<1>1. CASE torn'
  BY <1>1 DEF RecoveryInv
<1>2. CASE ~ torn'
  <2>1. ~ torn
    BY <1>2, TornStays
  <2>2. CASE UNCHANGED vars
    BY <2>2, RecoveryStays DEF vars
  <2>3. ASSUME NEW u, MadeElsewhere(u)
        PROVE  RecoveryInv'
    BY <2>3, RecoveryStays DEF MadeElsewhere
  <2> QED
    BY <1>2, <2>1, <2>2, <2>3, RecoveryCommand, RecoveryAnswer, RecoveryReceive,
       RecoveryReceiveMatrix, RecoveryWriteFile, RecoveryCrash, RecoveryRestart,
       RecoveryReplay DEF Next
<1> QED
  BY <1>1, <1>2

LEMMA RecoveryAlways == Spec => []RecoveryInv
BY RecoveryInit, TypeAlways, RecoveryNext, PTL DEF Spec

(* A client is answered when its update is in the buffer, on the disk, and *)
(* covered by the matrix (applyUpdate, writer.c); after a crash that tears *)
(* no file and the load of recover.c the server still has the update to    *)
(* give to every server that may lack it, and still claims it.             *)
THEOREM AnsweredAlwaysHeld == Spec => []AnsweredIsHeld
<1>1. TypeInv /\ RecoveryInv => AnsweredIsHeld
  <2> SUFFICES ASSUME TypeInv, RecoveryInv, intact, NEW u \in issued
               PROVE  /\ u.index <= st.latest_update[Me][Me]
                      /\ u \in st.buffer \/ \A i \in Servers : st.latest_update[i][Me] > u.index
    BY DEF AnsweredIsHeld
  <2>1. up /\ ~ torn
    BY DEF intact, started
  <2>2. u \in st.buffer \/ past(u, st.latest_update)
    BY <2>1 DEF RecoveryInv, AnsweredInMemory
  <2>3. u.index <= saved[Me][Me] /\ saved[Me][Me] <= st.latest_update[Me][Me]
    BY <2>1, MeAssumption DEF RecoveryInv, AnsweredOnDisk, DiskBehind
  <2>4. u.index <= st.latest_update[Me][Me] /\ u.procID = Me
    BY <2>3, MeAssumption, Numbers
  <2> QED
    BY <2>2, <2>4 DEF past
<1> QED
  BY <1>1, TypeAlways, RecoveryAlways, PTL

(* A server that has started, also after a crash that tears no file,       *)
(* stamps its next update above all it has multicast: main() applies the   *)
(* last update of its own buffer again, which the matrix never runs ahead  *)
(* of (server.c, recover.c).                                               *)
THEOREM AlwaysFreshAfterRestart == Spec => []FreshAfterRestart
<1>1. TypeInv /\ RecoveryInv => FreshAfterRestart
  <2> SUFFICES ASSUME TypeInv, RecoveryInv, intact, NEW u \in issued
               PROVE  u.index <= st.updateIndex
    BY DEF FreshAfterRestart
  <2>1. up /\ ~ torn /\ replay > Me
    BY MeAssumption, NumServersAssumption
       DEF intact, started, Servers, TypeInv, TypeOK
  <2>2. u.index <= saved[Me][Me] /\ saved[Me][Me] <= st.latest_update[Me][Me]
    BY <2>1, MeAssumption DEF RecoveryInv, AnsweredOnDisk, DiskBehind
  <2>3. /\ u.index \in Nat /\ saved[Me][Me] \in Int /\ st.latest_update[Me][Me] \in Int
        /\ st.updateIndex \in Int
    BY MeAssumption, Numbers
  <2>4. PICK v \in own(st, Me) : v.index >= st.latest_update[Me][Me]
    BY <2>1, <2>2, <2>3 DEF RecoveryInv, Reached
  <2>5. v.index <= st.updateIndex /\ v.index \in Int
    BY <2>1, <2>4, Numbers DEF RecoveryInv, CounterReached, own
  <2> QED
    BY <2>2, <2>3, <2>4, <2>5
<1> QED
  BY <1>1, TypeAlways, RecoveryAlways, PTL

=============================================================================
