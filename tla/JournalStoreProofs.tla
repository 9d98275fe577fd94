------------------------ MODULE JournalStoreProofs --------------------------
(***************************************************************************)
(* Proofs about JournalStore: what its files, its memory and the effects   *)
(* left of an operation have to do with each other, so that a crash or a   *)
(* failed append between any two effects loses nothing.                    *)
(*                                                                         *)
(* Typed, Recoverable and Remembered hold in every state.  Phase says, for *)
(* every list of effects that can be left in todo, what has been done of   *)
(* it: it is a disjunction with one form for each kind of effect that      *)
(* comes next.                                                             *)
(***************************************************************************)
EXTENDS JournalStore, SequenceTheorems, TLAPS

(* A crash leaves of a state line nothing, a part that cannot be parsed, or *)
(* the line with its newline.                                               *)
CleanTears == Tears \subseteq {"none", "part", "whole"}

(* A journal holds more messages than a failed append can leave in one.     *)
RoomForTwo == "fail" \in Faults => MaxMsgCount > 1

-----------------------------------------------------------------------------
(* Types *)

Content == Message \cup {Torn}

States == [rj : JournalId, rpos : Nat, rcount : Nat, wj : JournalId, wcount : Nat,
           canWrite : BOOLEAN, size : Nat]

Queues == [open : {TRUE}, state : States, readHandle : Nat, writeHandle : Nat,
           tip : {<<>>} \cup {<<m>> : m \in Message}]

FilesOK ==
    /\ DOMAIN files \subseteq JournalId
    /\ \A j \in DOMAIN files : files[j] \in Seq(Content)

(* A log ends in a newline and has no bad line, or its last line is bad.    *)
LogOf(lines, newline) == [lines |-> lines, newline |-> newline]

LogOK(f) ==
    \/ f = NoLines
    \/ f = LogOf(<<<<>>>>, FALSE)
    \/ \E s \in States : f = LogOf(<<<<s>>>>, TRUE) \/ f = LogOf(<<<<s>>, <<>>>>, FALSE)
    \/ \E s, t \in States : f = LogOf(<<<<s>>, <<t>>>>, TRUE)

Rec == Recorded(StateFile)

DiskOK ==
    /\ dir \in BOOLEAN
    /\ FilesOK
    /\ LogOK(log)
    /\ LogOK(bak)
    /\ bak # NoLines => Recorded(bak) # <<>>
    /\ ~dir => log = NoLines /\ bak = NoLines /\ DOMAIN files = {}

(* The jobs an operation goes through. *)
WriteStep(m) == [step |-> "write", id |-> m]
CloseEmptyStep == [step |-> "closeEmpty"]
CloseUnstoredStep == [step |-> "closeUnstored"]
AckStep(m) == [step |-> "ack", id |-> m]
ExpireStep(n) == [step |-> "expire", n |-> n]
ExpiredStep(n) == [step |-> "expired", n |-> n]
RmdirStep == [step |-> "rmdir"]

(* Messages have been deleted in memory that the log does not know of. *)
Expiring ==
    /\ "EXPIRE" \in Ops
    /\ \E n \in Nat :
         \/ job = <<ExpireStep(n), CloseStep>>
         \/ job = <<PeekStep, ExpiredStep(n), CloseStep>>
         \/ job = <<ExpiredStep(n), CloseStep>>
         \/ job = <<DeleteStep(FALSE), ExpireStep(n), CloseStep>>

JobOK ==
    \/ job = <<>>
    \/ \E m \in 1..MaxSends :
         \/ job = <<OpenStep(TRUE), WriteStep(m)>>
         \/ job = <<WriteStep(m)>>
         \/ job = <<OpenStep(FALSE), PeekStep, CloseEmptyStep, AckStep(m)>>
         \/ job = <<OpenStep(FALSE), PeekStep, AckStep(m)>>
         \/ job = <<PeekStep, CloseEmptyStep, AckStep(m)>>
         \/ job = <<PeekStep, AckStep(m)>>
         \/ job = <<CloseEmptyStep, AckStep(m)>>
         \/ job = <<AckStep(m)>>
    \/ job = <<OpenStep(FALSE), PeekStep, CloseEmptyStep>>
    \/ job = <<OpenStep(FALSE), PeekStep>>
    \/ job = <<PeekStep, CloseEmptyStep>>
    \/ job = <<PeekStep>>
    \/ job = <<CloseEmptyStep>>
    \/ job = <<DeleteStep(TRUE), PeekStep>>
    \/ "EXPIRE" \in Ops /\ \E n \in Nat :
         \/ job = <<OpenStep(FALSE), CloseUnstoredStep, ExpireStep(n), CloseStep>>
         \/ job = <<OpenStep(FALSE), ExpireStep(n), CloseStep>>
         \/ job = <<CloseUnstoredStep, ExpireStep(n), CloseStep>>
    \/ Expiring
    \/ job = <<CloseStep>>
    \/ job = <<CloseStep, RmdirStep>>
    \/ job = <<RmdirStep>>

Typed ==
    /\ DiskOK
    /\ JobOK
    /\ faults \in Seq(Faults)
    /\ NoStoreError
    /\ lastId \in Nat
-----------------------------------------------------------------------------
(* What the files hold *)

(* If the journal exists, its first n messages are complete. *)
Holds(j, n) ==
    Exists(j) => n <= Len(files[j]) /\ \A i \in 1..n : files[j][i] \in Message

(* Writing is open only if the last message is no quota marker. *)
Marked(st) ==
    "lose" \notin Range(faults) /\ st.canWrite /\ st.wcount > 0 =>
      Exists(st.wj) /\ ~files[st.wj][st.wcount].quota

Stored(st) ==
    /\ st \in States
    /\ validQueueState(st)
    /\ st.rj # st.wj => st.wcount > 0
    /\ Holds(st.rj, st.rcount)
    /\ Holds(st.wj, st.wcount)
    /\ Marked(st)

(* The state that the next start of the server reads can be relied on. *)
Recoverable == Rec # <<>> => Stored(Rec[1])

LogReady == dir /\ bak = NoLines /\ log.newline

(* The read position that the log has for the journal read from. *)
From(st) == IF Rec # <<>> /\ Rec[1].rj = st.rj THEN Rec[1].rpos ELSE 0

Logged(st) == st.rpos = From(st)

(* The state in memory is the recorded one, or what is left of it when one  *)
(* of its journals is missing, with a read position that has advanced over  *)
(* messages, but over no quota marker.                                      *)
Follows(st) ==
    \/ Rec = <<>> /\ st = newMsgQueueState(st.rj)
    \/ /\ Rec # <<>>
       /\ From(st) <= st.rpos
       /\ \A i \in (From(st) + 1)..st.rpos : ~files[st.rj][i].quota
       /\ LET r == Rec[1]
          IN  \/ /\ r.rj = st.rj /\ r.wj = st.wj
                 /\ r.rcount = st.rcount /\ r.wcount = st.wcount
              \/ /\ ~Exists(r.rj) /\ r.rj # r.wj
                 /\ r.wj = st.rj /\ r.wj = st.wj /\ r.wcount = st.rcount
              \/ /\ ~Exists(r.wj) /\ r.rj # r.wj
                 /\ r.rj = st.rj /\ r.rj = st.wj /\ r.rcount = st.rcount
-----------------------------------------------------------------------------
(* The opened queue *)

TipOK(mq) ==
    mq.tip # <<>> =>
      LET st == mq.state
      IN  IF st.rpos < st.rcount
            THEN Exists(st.rj) /\ mq.tip[1] = files[st.rj][st.rpos + 1]
            ELSE st.rj # st.wj /\ Exists(st.wj) /\ mq.tip[1] = files[st.wj][1]

(* An append to a new journal failed: the handle is open, the state is not  *)
(* changed.                                                                 *)
Stranded(mq) == mq.writeHandle # 0 /\ mq.state.rj = mq.state.wj

Settled(mq) == Stranded(mq) => "fail" \in Range(faults)

Handles(mq) ==
    LET st == mq.state
    IN  /\ mq.readHandle = st.rj
        /\ Exists(st.rj)
        /\ Exists(st.wj)
        /\ st.rj # st.wj => mq.writeHandle = st.wj
        /\ Stranded(mq) =>
             /\ mq.writeHandle # st.rj
             /\ Exists(mq.writeHandle)
             /\ Len(files[mq.writeHandle]) <= 1
             /\ st.wcount >= MaxMsgCount

Sound(mq) == mq \in Queues /\ Stored(mq.state) /\ Handles(mq) /\ TipOK(mq)

(* A queue that has no files yet. *)
Unwritten(mq) ==
    LET j == mq.state.rj
    IN  /\ j \in JournalId
        /\ mq = Opened(newMsgQueueState(j), 0, 0)
        /\ log = NoLines
        /\ bak = NoLines
        /\ Exists(j) => files[j] = <<>>

MemOK(mq) == Unwritten(mq) \/ (Sound(mq) /\ LogReady /\ Follows(mq.state))

Quiet(mq) == MemOK(mq) /\ Settled(mq)

Remembered ==
    /\ mem.open =>
         /\ mem \in Queues
         /\ Stored(mem.state)
         /\ TipOK(mem)
         /\ qstate = <<qState(mem.state)>>
    /\ ~mem.open =>
         /\ mem = Closed
         /\ qstate # <<>> => qstate = <<qstate[1]>>
         /\ qstate # <<>> /\ ~qstate[1].hasPending => Durable = <<>>
-----------------------------------------------------------------------------
(* Opening: what is left after the log was backed up *)

FixOf(mq, k) ==
    LET st == mq.state
    IN  /\ mq = Opened(st, st.rj, IF st.rj = st.wj THEN 0 ELSE st.wj)
        /\ Sound(mq)
        /\ Rec # <<>>
        /\ Follows(st)
        /\ Logged(st)
        /\ \/ k = <<FixFileSize(st.rj, st.rcount), Assign(mq)>>
           \/ k = <<FixFileSize(st.rj, st.rcount), FixFileSize(st.wj, st.wcount), Assign(mq)>>
           \/ k = <<FixFileSize(st.wj, st.wcount), Assign(mq)>>

FixForm(k) == \E mq : FixOf(mq, k)

RecreateOf(j, k) ==
    LET new == newMsgQueueState(j)
    IN  /\ k = <<CreateJournal(j), AppendState(new), Assign(Opened(new, j, 0))>>
        /\ j \in JournalId
        /\ ~Exists(j)
        /\ Rec # <<>>
        /\ ~Exists(Rec[1].rj) /\ Rec[1].rj # j
        /\ ~Exists(Rec[1].wj) /\ Rec[1].wj # j

RecreateForm(k) == \E j : RecreateOf(j, k)

ReplaceOf(j, a, k) ==
    LET new == newMsgQueueState(j)
    IN  /\ k = <<AppendState(new), CreateJournal(j), RemoveJournal(a), Assign(Opened(new, j, 0))>>
        /\ j \in JournalId
        /\ ~Exists(j)
        /\ a # j
        /\ Rec # <<>>
        /\ Rec[1].size = 0

ReplaceForm(k) == \E j, a : ReplaceOf(j, a, k)

OpenForm(k) == FixForm(k) \/ RecreateForm(k) \/ ReplaceForm(k)

(* The state logged for the backup is the recorded one, or a new one that   *)
(* replaces an empty one.                                                   *)
BackedBy(k, s) ==
    \/ Rec = <<s>> /\ (FixForm(k) \/ RecreateForm(k))
    \/ \E j, a : ReplaceOf(j, a, k) /\ s = newMsgQueueState(j)

RetireOf(j, a, k) ==
    /\ k = <<RetireLog, RemoveJournal(a), Assign(Opened(newMsgQueueState(j), 0, 0))>>
    /\ j \in JournalId
    /\ ~Exists(j)
    /\ a # j
    /\ Rec # <<>>
    /\ Rec[1].size = 0

RetireForm(k) == \E j, a : RetireOf(j, a, k)

Opening == LogReady /\ OpenForm(todo)

BackingUpOf(k, s) ==
    /\ BackedBy(k, s)
    /\ dir
    /\ \/ /\ todo = <<TempBackup, AppendState(s), TimedBackup>> \o k
          /\ bak = NoLines
       \/ /\ todo = <<AppendState(s), TimedBackup>> \o k
          /\ bak # NoLines /\ log = NoLines
       \/ /\ todo = <<TimedBackup>> \o k
          /\ bak # NoLines /\ log = LogOf(<<<<s>>>>, TRUE)

BackingUp == \E k, s : BackingUpOf(k, s)

Restoring ==
    /\ bak # NoLines
    /\ dir
    /\ \/ \E k :
            /\ todo = <<RestoreBackup>> \o k
            /\ \/ OpenForm(k) /\ bak.newline
               \/ RetireForm(k)
       \/ \E k, s :
            /\ todo = <<RestoreBackup>> \o (<<TempBackup, AppendState(s), TimedBackup>> \o k)
            /\ BackedBy(k, s)

Retiring ==
    /\ bak = NoLines
    /\ dir
    /\ \/ RetireForm(todo)
       \/ \E j \in JournalId :
            /\ todo = <<RetireLog, Assign(Opened(newMsgQueueState(j), 0, 0))>>
            /\ ~Exists(j)
            /\ Rec = <<>>

ReplacingBy(j, a) ==
    LET new == newMsgQueueState(j)
    IN  /\ todo = <<CreateJournal(j), RemoveJournal(a), Assign(Opened(new, j, 0))>>
        /\ j \in JournalId
        /\ ~Exists(j)
        /\ a # j
        /\ Rec = <<new>>
        /\ LogReady

Replacing == \E j, a : ReplacingBy(j, a)

RemovingTo(mq, a) ==
    /\ todo = <<RemoveJournal(a), Assign(mq)>>
    /\ MemOK(mq)
    /\ mq.state = newMsgQueueState(mq.state.rj)
    /\ mq.writeHandle = 0
    /\ mq.tip = <<>>
    /\ a # mq.state.rj
    /\ Rec = <<>> \/ Rec = <<mq.state>>

Removing == \E mq, a : RemovingTo(mq, a)

(* What may follow the opening of a queue. *)
OpenedJob ==
    /\ job # <<>>
    /\ job[1].step \in {"write", "peek", "closeUnstored", "expire"}

OpenPhase ==
    /\ ~mem.open
    /\ OpenedJob
    /\ Opening \/ BackingUp \/ Restoring \/ Retiring \/ Replacing \/ Removing
-----------------------------------------------------------------------------
(* A step of an operation *)

(* The next step finds the message it looks at in the journal read from. *)
Peeked(mq) == mq.tip # <<>> => mq.state.rpos < mq.state.rcount

JobFits(mq) ==
    job # <<>> =>
      /\ job[1].step \in {"write", "peek", "closeUnstored", "expire", "closeEmpty", "ack", "expired"}
      /\ job[1].step \in {"closeEmpty", "ack", "expired"} => Peeked(mq)

ReadForm(mq, rd) ==
    LET st == mq.state
    IN  \/ rd = <<>>
        \/ rd = <<ReadTip(st.rj, st.rpos)>> /\ mq.tip = <<>> /\ st.rpos < st.rcount

(* The steps of the abstract queue. *)
Allowed(q, next) ==
    \/ next = q
    \/ \E m \in Message :
         /\ q = <<>> \/ ~q[Len(q)].quota
         /\ m.quota <=> Len(q) >= Quota
         /\ next = Append(q, m)
    \/ q # <<>> /\ next = Tail(q)
    \/ /\ "EXPIRE" \in Ops
       /\ \E n \in 1..Len(q) :
            /\ \A i \in 1..n : ~q[i].quota
            /\ next = SubSeq(q, n + 1, Len(q))

(* The new state is assigned. *)
LandingOn(mq, rd) ==
    /\ mq.open
    /\ todo = <<Assign(mq)>> \o rd
    /\ Quiet(mq)
    /\ Logged(mq.state) \/ Expiring
    /\ ReadForm(mq, rd)
    /\ JobFits(mq)

Landing == \E mq, rd : LandingOn(mq, rd)

(* The new state is logged, then assigned. *)
CommittingTo(mq, rd) ==
    /\ mq.open
    /\ todo = <<AppendState(mq.state), Assign(mq)>> \o rd
    /\ LogReady
    /\ Sound(mq)
    /\ Settled(mq)
    /\ ReadForm(mq, rd)
    /\ JobFits(mq)
    /\ "lose" \notin Range(faults) => Allowed(Durable, Messages(mq.state))
    /\ mem.open \/ Messages(mq.state) = <<>>

Committing == \E mq, rd : CommittingTo(mq, rd)

(* The state in memory is logged at the end of an expiry. *)
Logging ==
    /\ mem.open
    /\ todo = <<AppendState(mem.state)>>
    /\ "EXPIRE" \in Ops
    /\ Quiet(mem)
    /\ mem.readHandle # 0
    /\ job = <<CloseStep>>

Reading ==
    /\ mem.open
    /\ todo = <<ReadTip(mem.state.rj, mem.state.rpos)>>
    /\ Quiet(mem)
    /\ Logged(mem.state) \/ Expiring
    /\ ReadForm(mem, todo)
    /\ JobFits(mem)

(* The write handle becomes the read handle, the journal read to its end is *)
(* removed.                                                                 *)
Switched(st) == [switchedToWrite(st) EXCEPT !.size = st.size]

Moved == [mem EXCEPT !.readHandle = mem.state.wj, !.writeHandle = 0]

Entered == [Moved EXCEPT !.state = Switched(mem.state)]

SwitchingTo(rd) ==
    LET st == mem.state
    IN  /\ mem.open
        /\ LogReady
        /\ Stored(st)
        /\ Follows(st)
        /\ Logged(st) \/ Expiring
        /\ Exists(st.rj)
        /\ Exists(st.wj)
        /\ st.rj # st.wj
        /\ st.rpos = st.rcount
        /\ ReadForm(Entered, rd)
        /\ \/ /\ todo = <<Assign(Moved), RemoveJournal(st.rj),
                         AppendState(Switched(st)), Assign(Entered)>> \o rd
              /\ Sound(mem)
           \/ /\ todo = <<RemoveJournal(st.rj), AppendState(Switched(st)),
                         Assign(Entered)>> \o rd
              /\ mem = Moved
        /\ JobFits(Entered)

Switching == \E rd : SwitchingTo(rd)

(* Writing: the state after a message is put at a position of a journal. *)
After(st, h, pos, msg) ==
    [st EXCEPT !.wj = h, !.wcount = pos + 1, !.rcount = IF h = st.rj THEN pos + 1 ELSE @,
               !.canWrite = ~msg.quota, !.size = @ + 1]

Written(mq, h, pos, msg) ==
    [mq EXCEPT !.state = After(mq.state, h, pos, msg),
               !.tip = IF mq.state.size = 0 THEN <<msg>> ELSE @]

PutForm(mq, h, pos, msg) ==
    <<PutMsg(h, msg), AppendState(After(mq.state, h, pos, msg)), Assign(Written(mq, h, pos, msg))>>

Writable(msg) ==
    /\ msg \in Message
    /\ msg.quota <=> mem.state.size >= Quota
    /\ mem.state.canWrite \/ mem.state.size = 0
    /\ mem.state.size = 0 => ~msg.quota

(* The journal to write to and the position in it. *)
Target(h, pos) ==
    \/ h = mem.state.wj /\ pos = mem.state.wcount /\ ~Stranded(mem)
    \/ Stranded(mem) /\ h = mem.writeHandle /\ pos = 0 /\ files[h] = <<>>

(* The directory and the first journal are made. *)
StartingWith(msg) ==
    LET st == mem.state
        mq == [mem EXCEPT !.readHandle = st.rj]
        put == <<FixFileSize(st.rj, 0)>> \o PutForm(mq, st.rj, 0, msg)
    IN  /\ Unwritten(mem)
        /\ Writable(msg)
        /\ \/ todo = <<Mkdir, CreateJournal(st.rj), Assign(mq)>> \o put
           \/ dir /\ todo = <<CreateJournal(st.rj), Assign(mq)>> \o put
           \/ dir /\ Exists(st.rj) /\ todo = <<Assign(mq)>> \o put

Starting == \E msg : StartingWith(msg)

(* Another journal is made. *)
ExtendingWith(j, msg) ==
    LET mq == [mem EXCEPT !.writeHandle = j]
        put == <<FixFileSize(j, 0)>> \o PutForm(mq, j, 0, msg)
    IN  /\ Sound(mem)
        /\ mem.writeHandle = 0
        /\ mem.state.wcount >= MaxMsgCount
        /\ j \in JournalId
        /\ Writable(msg)
        /\ \/ /\ todo = <<CreateJournal(j), Assign(mq)>> \o put
              /\ ~Exists(j)
              /\ Rec # <<>> => Rec[1].rj # j /\ Rec[1].wj # j
           \/ /\ todo = <<Assign(mq)>> \o put
              /\ Exists(j)
              /\ j # mem.state.rj
              /\ files[j] = <<>>

Extending == \E j, msg : ExtendingWith(j, msg)

PuttingAt(h, pos, msg) ==
    /\ Sound(mem)
    /\ Writable(msg)
    /\ Target(h, pos)
    /\ \/ todo = <<FixFileSize(h, pos)>> \o PutForm(mem, h, pos, msg)
       \/ todo = PutForm(mem, h, pos, msg) /\ Len(files[h]) = pos

Putting == \E h, pos, msg : PuttingAt(h, pos, msg)

(* The handle of a journal to which an append failed has too few messages   *)
(* for the position of the state: fixFileSize will throw.                   *)
Refusing ==
    /\ Sound(mem)
    /\ Stranded(mem)
    /\ Settled(mem)
    /\ todo # <<>>
    /\ Head(todo) = FixFileSize(mem.writeHandle, mem.state.wcount)

WritePhase ==
    /\ mem.open
    /\ job = <<>>
    /\ MemOK(mem)
    /\ Logged(mem.state)
    /\ Starting \/ Extending \/ Putting \/ Refusing

Closing ==
    /\ todo = <<[do |-> "assign", mem |-> Closed, qstate |-> qstate]>>
    /\ mem.open => Quiet(mem) /\ Logged(mem.state)
    /\ job # <<>> => job[1].step \in {"ack", "rmdir"}
    /\ job = <<RmdirStep>> => deleted

Clearing == todo = <<RemoveDirectory>> /\ ~mem.open /\ job = <<>> /\ deleted

(* Between two steps. *)
Resting ==
    /\ todo = <<>>
    /\ mem.open => Quiet(mem) /\ (Logged(mem.state) \/ Expiring)
    /\ job # <<>> =>
         /\ job[1].step \in {"write", "peek", "closeUnstored", "closeEmpty", "expire",
                             "expired", "delete"} => mem.open
         /\ job[1].step \in {"closeEmpty", "ack", "expired", "delete"} /\ mem.open => Peeked(mem)
         /\ job[1].step = "delete" => mem.tip # <<>> /\ (job[1].log \/ ~mem.tip[1].quota)
         /\ job[1].step = "rmdir" => ~mem.open
    /\ job \in {<<CloseStep, RmdirStep>>, <<RmdirStep>>} => deleted

Phase ==
    \/ Resting \/ OpenPhase \/ Landing \/ Committing \/ Logging \/ Reading \/ Switching
    \/ WritePhase \/ Closing \/ Clearing

IInv == Typed /\ Recoverable /\ Remembered /\ Phase

-----------------------------------------------------------------------------
(* Lists of effects *)

(* The first effect of a list that begins with it, and what is left. *)
LEMMA ConsOne ==
    ASSUME NEW S, NEW k \in Seq(S), NEW a
    PROVE  /\ <<a>> \o k # <<>>
           /\ Head(<<a>> \o k) = a
           /\ Tail(<<a>> \o k) = k
    OBVIOUS

(* The same, of a list that begins with two effects. *)
LEMMA ConsTwo ==
    ASSUME NEW S, NEW k \in Seq(S), NEW a, NEW b
    PROVE  /\ <<a, b>> \o k # <<>>
           /\ Head(<<a, b>> \o k) = a
           /\ Tail(<<a, b>> \o k) = <<b>> \o k
    OBVIOUS

(* The same, of a list that begins with three effects. *)
LEMMA ConsThree ==
    ASSUME NEW S, NEW k \in Seq(S), NEW a, NEW b, NEW c
    PROVE  /\ <<a, b, c>> \o k # <<>>
           /\ Head(<<a, b, c>> \o k) = a
           /\ Tail(<<a, b, c>> \o k) = <<b, c>> \o k
    OBVIOUS

(* The same, of a list that begins with four effects. *)
LEMMA ConsFour ==
    ASSUME NEW S, NEW k \in Seq(S), NEW a, NEW b, NEW c, NEW d
    PROVE  /\ <<a, b, c, d>> \o k # <<>>
           /\ Head(<<a, b, c, d>> \o k) = a
           /\ Tail(<<a, b, c, d>> \o k) = <<b, c, d>> \o k
    OBVIOUS

(* What is left of a list of one to four effects. *)
LEMMA Tuples ==
    ASSUME NEW a, NEW b, NEW c, NEW d
    PROVE  /\ Head(<<a>>) = a /\ Tail(<<a>>) = <<>>
           /\ Head(<<a, b>>) = a /\ Tail(<<a, b>>) = <<b>>
           /\ Head(<<a, b, c>>) = a /\ Tail(<<a, b, c>>) = <<b, c>>
           /\ Head(<<a, b, c, d>>) = a /\ Tail(<<a, b, c, d>>) = <<b, c, d>>
    OBVIOUS

(* Two sequences are equal if they have the same length and elements. *)
LEMMA SameSeq ==
    ASSUME NEW S, NEW T, NEW s \in Seq(S), NEW t \in Seq(T), Len(s) = Len(t),
           \A i \in 1..Len(s) : s[i] = t[i]
    PROVE  s = t
    OBVIOUS

(* Lists of effects are joined: 1 and 1. *)
LEMMA JoinOneOne ==
    ASSUME NEW a, NEW b
    PROVE  <<a>> \o <<b>> = <<a, b>>
<1> DEFINE T == {a, b}
<1>1. <<a>> \in Seq(T) /\ <<b>> \in Seq(T) /\ <<a, b>> \in Seq(T)
  OBVIOUS
<1>2. <<a>> \o <<b>> \in Seq(T)
  OBVIOUS
<1>3. Len(<<a>> \o <<b>>) = 2 /\ Len(<<a, b>>) = 2
  OBVIOUS
<1>4. \A i \in 1..2 : (<<a>> \o <<b>>)[i] = <<a, b>>[i]
  OBVIOUS
<1>. QED  BY ONLY <1>1, <1>2, <1>3, <1>4, SameSeq

(* Lists of effects are joined: 1 and 2. *)
LEMMA JoinOneTwo ==
    ASSUME NEW a, NEW b, NEW c
    PROVE  <<a>> \o <<b, c>> = <<a, b, c>>
<1> DEFINE T == {a, b, c}
<1>1. <<a>> \in Seq(T) /\ <<b, c>> \in Seq(T) /\ <<a, b, c>> \in Seq(T)
  OBVIOUS
<1>2. <<a>> \o <<b, c>> \in Seq(T)
  OBVIOUS
<1>3. Len(<<a>> \o <<b, c>>) = 3 /\ Len(<<a, b, c>>) = 3
  OBVIOUS
<1>4. \A i \in 1..3 : (<<a>> \o <<b, c>>)[i] = <<a, b, c>>[i]
  OBVIOUS
<1>. QED  BY ONLY <1>1, <1>2, <1>3, <1>4, SameSeq

(* Lists of effects are joined: 2 and 1. *)
LEMMA JoinTwoOne ==
    ASSUME NEW a, NEW b, NEW c
    PROVE  <<a, b>> \o <<c>> = <<a, b, c>>
<1> DEFINE T == {a, b, c}
<1>1. <<a, b>> \in Seq(T) /\ <<c>> \in Seq(T) /\ <<a, b, c>> \in Seq(T)
  OBVIOUS
<1>2. <<a, b>> \o <<c>> \in Seq(T)
  OBVIOUS
<1>3. Len(<<a, b>> \o <<c>>) = 3 /\ Len(<<a, b, c>>) = 3
  OBVIOUS
<1>4. \A i \in 1..3 : (<<a, b>> \o <<c>>)[i] = <<a, b, c>>[i]
  OBVIOUS
<1>. QED  BY ONLY <1>1, <1>2, <1>3, <1>4, SameSeq

(* Lists of effects are joined: 3 and 1. *)
LEMMA JoinThreeOne ==
    ASSUME NEW a, NEW b, NEW c, NEW d
    PROVE  <<a, b, c>> \o <<d>> = <<a, b, c, d>>
<1> DEFINE T == {a, b, c, d}
<1>1. <<a, b, c>> \in Seq(T) /\ <<d>> \in Seq(T) /\ <<a, b, c, d>> \in Seq(T)
  OBVIOUS
<1>2. <<a, b, c>> \o <<d>> \in Seq(T)
  OBVIOUS
<1>3. Len(<<a, b, c>> \o <<d>>) = 4 /\ Len(<<a, b, c, d>>) = 4
  OBVIOUS
<1>4. \A i \in 1..4 : (<<a, b, c>> \o <<d>>)[i] = <<a, b, c, d>>[i]
  OBVIOUS
<1>. QED  BY ONLY <1>1, <1>2, <1>3, <1>4, SameSeq

(* Lists of effects are joined: 2 and 2. *)
LEMMA JoinTwoTwo ==
    ASSUME NEW a, NEW b, NEW c, NEW d
    PROVE  <<a, b>> \o <<c, d>> = <<a, b, c, d>>
<1> DEFINE T == {a, b, c, d}
<1>1. <<a, b>> \in Seq(T) /\ <<c, d>> \in Seq(T) /\ <<a, b, c, d>> \in Seq(T)
  OBVIOUS
<1>2. <<a, b>> \o <<c, d>> \in Seq(T)
  OBVIOUS
<1>3. Len(<<a, b>> \o <<c, d>>) = 4 /\ Len(<<a, b, c, d>>) = 4
  OBVIOUS
<1>4. \A i \in 1..4 : (<<a, b>> \o <<c, d>>)[i] = <<a, b, c, d>>[i]
  OBVIOUS
<1>. QED  BY ONLY <1>1, <1>2, <1>3, <1>4, SameSeq

(* Lists of effects are joined: 1 and 3. *)
LEMMA JoinOneThree ==
    ASSUME NEW a, NEW b, NEW c, NEW d
    PROVE  <<a>> \o <<b, c, d>> = <<a, b, c, d>>
<1> DEFINE T == {a, b, c, d}
<1>1. <<a>> \in Seq(T) /\ <<b, c, d>> \in Seq(T) /\ <<a, b, c, d>> \in Seq(T)
  OBVIOUS
<1>2. <<a>> \o <<b, c, d>> \in Seq(T)
  OBVIOUS
<1>3. Len(<<a>> \o <<b, c, d>>) = 4 /\ Len(<<a, b, c, d>>) = 4
  OBVIOUS
<1>4. \A i \in 1..4 : (<<a>> \o <<b, c, d>>)[i] = <<a, b, c, d>>[i]
  OBVIOUS
<1>. QED  BY ONLY <1>1, <1>2, <1>3, <1>4, SameSeq

(* Joining is associative, for any sequences. *)
LEMMA JoinAssociative ==
    ASSUME NEW R, NEW S, NEW T, NEW r \in Seq(R), NEW s \in Seq(S), NEW t \in Seq(T)
    PROVE  (r \o s) \o t = r \o (s \o t)
<1> DEFINE U == R \cup S \cup T
<1>1. r \in Seq(U) /\ s \in Seq(U) /\ t \in Seq(U)
  OBVIOUS
<1> HIDE DEF U
<1>. QED  BY ONLY <1>1, ConcatAssociative

(* The empty list is joined. *)
LEMMA JoinEmpty ==
    ASSUME NEW S, NEW k \in Seq(S)
    PROVE  <<>> \o k = k /\ k \o <<>> = k
    BY ConcatEmptySeq

-----------------------------------------------------------------------------
(* The log of states *)

(* The fields of a log. *)
LEMMA LogFields ==
    ASSUME NEW lines, NEW newline
    PROVE  LogOf(lines, newline).lines = lines /\ LogOf(lines, newline).newline = newline
    BY DEF LogOf

(* What a log of one line records. *)
LEMMA RecordedByOne ==
    ASSUME NEW a, NEW newline
    PROVE  Recorded(LogOf(<<a>>, newline)) = a /\ LogOf(<<a>>, newline) # NoLines
    BY DEF Recorded, LogOf, Last, NoLines

(* What a log of two lines records. *)
LEMMA RecordedByTwo ==
    ASSUME NEW a, NEW b, NEW newline, b # <<>>
    PROVE  Recorded(LogOf(<<a, b>>, newline)) = b /\ LogOf(<<a, b>>, newline) # NoLines
    BY DEF Recorded, LogOf, Last, NoLines

(* What a log records whose second line is bad. *)
LEMMA RecordedByBad ==
    ASSUME NEW a, NEW newline
    PROVE  Recorded(LogOf(<<a, <<>>>>, newline)) = a /\ LogOf(<<a, <<>>>>, newline) # NoLines
    BY DEF Recorded, LogOf, Last, NoLines

(* What is recorded is a state, or nothing; in a log that ends in a newline *)
(* and is not empty, it is a state.                                         *)
LEMMA RecordedIsState ==
    ASSUME NEW f, LogOK(f)
    PROVE  /\ Recorded(f) # <<>> => Recorded(f) = <<Recorded(f)[1]>> /\ Recorded(f)[1] \in States
           /\ f.newline /\ f # NoLines => Recorded(f) # <<>>
           /\ f = NoLines => Recorded(f) = <<>>
<1>1. CASE f = NoLines
  BY <1>1 DEF Recorded, NoLines
<1>2. CASE f = LogOf(<<<<>>>>, FALSE)
  <2>1. Recorded(f) = <<>> /\ ~f.newline /\ f # NoLines
    BY <1>2, LogFields, RecordedByOne
  <2>. QED  BY <2>1
<1>3. CASE \E s \in States : f = LogOf(<<<<s>>>>, TRUE) \/ f = LogOf(<<<<s>>, <<>>>>, FALSE)
  <2>1. PICK s \in States : f = LogOf(<<<<s>>>>, TRUE) \/ f = LogOf(<<<<s>>, <<>>>>, FALSE)
    BY <1>3
  <2>2. f = LogOf(<<<<s>>>>, TRUE) => Recorded(f) = <<s>> /\ f # NoLines
    BY RecordedByOne
  <2>3. f = LogOf(<<<<s>>, <<>>>>, FALSE) => Recorded(f) = <<s>> /\ f # NoLines
    BY RecordedByBad
  <2>4. Recorded(f) = <<s>> /\ f # NoLines
    BY <2>1, <2>2, <2>3
  <2>. QED  BY <2>4
<1>4. CASE \E s, t \in States : f = LogOf(<<<<s>>, <<t>>>>, TRUE)
  <2>1. PICK s \in States, t \in States : f = LogOf(<<<<s>>, <<t>>>>, TRUE)
    BY <1>4
  <2>2. <<t>> # <<>>
    OBVIOUS
  <2>3. Recorded(f) = <<t>> /\ f # NoLines
    BY <2>1, <2>2, RecordedByTwo
  <2>. QED  BY <2>3
<1>. QED  BY <1>1, <1>2, <1>3, <1>4 DEF LogOK

(* A line is appended. *)
LEMMA AppendToNone ==
    ASSUME NEW a
    PROVE  Append(<<>>, a) = <<a>>
<1> DEFINE T == {a}
<1>1. Append(<<>>, a) \in Seq(T) /\ <<a>> \in Seq(T)
  OBVIOUS
<1>2. Len(Append(<<>>, a)) = 1 /\ Len(<<a>>) = 1
  OBVIOUS
<1>3. \A i \in 1..1 : Append(<<>>, a)[i] = <<a>>[i]
  OBVIOUS
<1>. QED  BY ONLY <1>1, <1>2, <1>3, SameSeq

(* A line is appended. *)
LEMMA AppendToOne ==
    ASSUME NEW a, NEW b
    PROVE  Append(<<a>>, b) = <<a, b>>
<1> DEFINE T == {a, b}
<1>1. Append(<<a>>, b) \in Seq(T) /\ <<a, b>> \in Seq(T)
  OBVIOUS
<1>2. Len(Append(<<a>>, b)) = 2 /\ Len(<<a, b>>) = 2
  OBVIOUS
<1>3. \A i \in 1..2 : Append(<<a>>, b)[i] = <<a, b>>[i]
  OBVIOUS
<1>. QED  BY ONLY <1>1, <1>2, <1>3, SameSeq

(* A line is appended. *)
LEMMA AppendToTwo ==
    ASSUME NEW a, NEW b, NEW c
    PROVE  Append(<<a, b>>, c) = <<a, b, c>>
<1> DEFINE T == {a, b, c}
<1>1. Append(<<a, b>>, c) \in Seq(T) /\ <<a, b, c>> \in Seq(T)
  OBVIOUS
<1>2. Len(Append(<<a, b>>, c)) = 3 /\ Len(<<a, b, c>>) = 3
  OBVIOUS
<1>3. \A i \in 1..3 : Append(<<a, b>>, c)[i] = <<a, b, c>>[i]
  OBVIOUS
<1>. QED  BY ONLY <1>1, <1>2, <1>3, SameSeq

(* The last two of the lines. *)
LEMMA LastOfOne ==
    ASSUME NEW a
    PROVE  SubSeq(<<a>>, 1, 1) = <<a>>
<1> DEFINE T == {a}
<1>1. SubSeq(<<a>>, 1, 1) \in Seq(T) /\ <<a>> \in Seq(T)
  OBVIOUS
<1>2. Len(SubSeq(<<a>>, 1, 1)) = 1 /\ Len(<<a>>) = 1
  OBVIOUS
<1>3. \A i \in 1..1 : SubSeq(<<a>>, 1, 1)[i] = <<a>>[i]
  OBVIOUS
<1>. QED  BY ONLY <1>1, <1>2, <1>3, SameSeq

(* The last two of the lines. *)
LEMMA LastOfTwo ==
    ASSUME NEW a, NEW b
    PROVE  SubSeq(<<a, b>>, 1, 2) = <<a, b>>
<1> DEFINE T == {a, b}
<1>1. SubSeq(<<a, b>>, 1, 2) \in Seq(T) /\ <<a, b>> \in Seq(T)
  OBVIOUS
<1>2. Len(SubSeq(<<a, b>>, 1, 2)) = 2 /\ Len(<<a, b>>) = 2
  OBVIOUS
<1>3. \A i \in 1..2 : SubSeq(<<a, b>>, 1, 2)[i] = <<a, b>>[i]
  OBVIOUS
<1>. QED  BY ONLY <1>1, <1>2, <1>3, SameSeq, ZenonT(30)

(* The last two of the lines. *)
LEMMA LastOfThree ==
    ASSUME NEW a, NEW b, NEW c
    PROVE  SubSeq(<<a, b, c>>, 2, 3) = <<b, c>>
<1> DEFINE T == {a, b, c}
<1>1. SubSeq(<<a, b, c>>, 2, 3) \in Seq(T) /\ <<b, c>> \in Seq(T)
  OBVIOUS
<1>2. Len(SubSeq(<<a, b, c>>, 2, 3)) = 2 /\ Len(<<b, c>>) = 2
  OBVIOUS
<1>3. \A i \in 1..2 : SubSeq(<<a, b, c>>, 2, 3)[i] = <<b, c>>[i]
  OBVIOUS
<1>. QED  BY ONLY <1>1, <1>2, <1>3, SameSeq

(* A line is added to a log of no lines. *)
LEMMA AddToNone ==
    ASSUME NEW line
    PROVE  AddLine(LogOf(<<>>, TRUE), line) = LogOf(<<line>>, TRUE)
<1>1. LogOf(<<>>, TRUE).lines = <<>> /\ LogOf(<<>>, TRUE).newline = TRUE
  BY LogFields
<1>2. Append(<<>>, line) = <<line>>
  BY AppendToNone
<1>3. SubSeq(<<line>>, 1, 1) = <<line>>
  BY LastOfOne
<1>4. Len(<<line>>) = 1
  OBVIOUS
<1>5. (IF Len(<<line>>) > 2 THEN 2 ELSE 1) = 1
  BY <1>4
<1>. QED  BY <1>1, <1>2, <1>3, <1>4, <1>5, Zenon DEF AddLine, LogOf

(* A line is added to a log of one line. *)
LEMMA AddToOne ==
    ASSUME NEW a, NEW line
    PROVE  AddLine(LogOf(<<a>>, TRUE), line) = LogOf(<<a, line>>, TRUE)
<1>1. LogOf(<<a>>, TRUE).lines = <<a>> /\ LogOf(<<a>>, TRUE).newline = TRUE
  BY LogFields
<1>2. Append(<<a>>, line) = <<a, line>>
  BY AppendToOne
<1>3. SubSeq(<<a, line>>, 1, 2) = <<a, line>>
  BY LastOfTwo
<1>4. Len(<<a, line>>) = 2
  OBVIOUS
<1>5. (IF Len(<<a, line>>) > 2 THEN 2 ELSE 1) = 1
  BY <1>4
<1>. QED  BY <1>1, <1>2, <1>3, <1>4, <1>5, Zenon DEF AddLine, LogOf

(* A line is added to a log of two lines. *)
LEMMA AddToTwo ==
    ASSUME NEW a, NEW b, NEW line
    PROVE  AddLine(LogOf(<<a, b>>, TRUE), line) = LogOf(<<b, line>>, TRUE)
<1>1. LogOf(<<a, b>>, TRUE).lines = <<a, b>> /\ LogOf(<<a, b>>, TRUE).newline = TRUE
  BY LogFields
<1>2. Append(<<a, b>>, line) = <<a, b, line>>
  BY AppendToTwo
<1>3. SubSeq(<<a, b, line>>, 2, 3) = <<b, line>>
  BY LastOfThree
<1>4. Len(<<a, b, line>>) = 3
  OBVIOUS
<1>5. (IF Len(<<a, b, line>>) > 2 THEN 2 ELSE 1) = 2
  BY <1>4
<1>. QED  BY <1>1, <1>2, <1>3, <1>4, <1>5, Zenon DEF AddLine, LogOf

(* Of a log that has got a line, the last two lines are kept. *)
LEMMA AddedLine ==
    ASSUME NEW f, LogOK(f), f.newline, NEW line
    PROVE  /\ f = NoLines => AddLine(f, line) = LogOf(<<line>>, TRUE)
           /\ f # NoLines => AddLine(f, line) = LogOf(<<Recorded(f), line>>, TRUE)
<1>3. ASSUME NEW s \in States, f = LogOf(<<<<s>>>>, TRUE)
      PROVE  Recorded(f) = <<s>> /\ AddLine(f, line) = LogOf(<<<<s>>, line>>, TRUE)
  <2>1. Recorded(f) = <<s>>
    BY <1>3 DEF LogOf, Recorded, Last
  <2>2. AddLine(LogOf(<<<<s>>>>, TRUE), line) = LogOf(<<<<s>>, line>>, TRUE)
    BY AddToOne
  <2>. QED  BY <1>3, <2>1, <2>2
<1>5. ASSUME NEW s \in States, NEW t \in States, f = LogOf(<<<<s>>, <<t>>>>, TRUE)
      PROVE  Recorded(f) = <<t>> /\ AddLine(f, line) = LogOf(<<<<t>>, line>>, TRUE)
  <2>1. Recorded(f) = <<t>>
    BY <1>5 DEF LogOf, Recorded, Last
  <2>2. AddLine(LogOf(<<<<s>>, <<t>>>>, TRUE), line) = LogOf(<<<<t>>, line>>, TRUE)
    BY AddToTwo
  <2>. QED  BY <1>5, <2>1, <2>2
<1>6. f # LogOf(<<<<>>>>, FALSE) /\ \A s : f # LogOf(<<<<s>>, <<>>>>, FALSE)
  BY LogFields
<1>7. NoLines = LogOf(<<>>, TRUE)
  BY DEF NoLines, LogOf
<1>8. AddLine(NoLines, line) = LogOf(<<line>>, TRUE)
  BY <1>7, AddToNone
<1>. QED  BY <1>3, <1>5, <1>6, <1>8 DEF LogOK

(* A state appended to a log that ends in a newline is recorded by it. *)
LEMMA LineIsRecorded ==
    ASSUME NEW f, LogOK(f), f.newline, NEW s \in States
    PROVE  LET g == AddLine(f, <<s>>)
           IN  LogOK(g) /\ g.newline /\ Recorded(g) = <<s>> /\ g # NoLines
<1>1. CASE f = NoLines
  <2>1. AddLine(f, <<s>>) = LogOf(<<<<s>>>>, TRUE)
    BY <1>1, AddedLine
  <2>2. PICK g : g = LogOf(<<<<s>>>>, TRUE)
    OBVIOUS
  <2>3. LogOK(g)
    BY <2>2 DEF LogOK
  <2>4. <<s>> # <<>>
    OBVIOUS
  <2>5. Recorded(g) = <<s>> /\ g # NoLines
    BY <2>2, <2>4, RecordedByOne
  <2>6. g.newline
    BY <2>2, LogFields
  <2>. QED  BY <2>1, <2>2, <2>3, <2>5, <2>6
<1>2. CASE f # NoLines
  <2>1. PICK r \in States : Recorded(f) = <<r>>
    BY <1>2, RecordedIsState
  <2>2. AddLine(f, <<s>>) = LogOf(<<<<r>>, <<s>>>>, TRUE)
    BY <1>2, <2>1, AddedLine
  <2>3. LogOK(LogOf(<<<<r>>, <<s>>>>, TRUE))
    BY DEF LogOK
  <2>4. <<s>> # <<>>
    OBVIOUS
  <2>5. /\ Recorded(LogOf(<<<<r>>, <<s>>>>, TRUE)) = <<s>>
        /\ LogOf(<<<<r>>, <<s>>>>, TRUE) # NoLines
    BY <2>4, RecordedByTwo
  <2>6. PICK g : g = LogOf(<<<<r>>, <<s>>>>, TRUE)
    OBVIOUS
  <2>7. g.newline
    BY <2>6, LogFields
  <2>. QED  BY <2>2, <2>3, <2>5, <2>6, <2>7
<1>. QED  BY <1>1, <1>2

(* What cutting the newline does. *)
LEMMA UnendedLog ==
    ASSUME NEW lines, NEW newline
    PROVE  Unended(LogOf(lines, newline)) = LogOf(lines, FALSE)
<1>1. \A x : [[lines |-> lines, newline |-> newline] EXCEPT !.newline = x] =
              [lines |-> lines, newline |-> x]
  OBVIOUS
<1>. QED  BY <1>1 DEF Unended, LogOf

(* A part of a line at the end of a log does not change what it records. *)
LEMMA PartIsIgnored ==
    ASSUME NEW f, LogOK(f), f.newline
    PROVE  LET g == Unended(AddLine(f, <<>>))
           IN  LogOK(g) /\ Recorded(g) = Recorded(f)
<1>1. CASE f = NoLines
  <2>1. AddLine(f, <<>>) = LogOf(<<<<>>>>, TRUE)
    BY <1>1, AddedLine
  <2>2. Unended(AddLine(f, <<>>)) = LogOf(<<<<>>>>, FALSE)
    BY <2>1, UnendedLog
  <2>. QED  BY <1>1, <2>2 DEF LogOK, LogOf, NoLines, Recorded, Last
<1>2. CASE f # NoLines
  <2>1. PICK r \in States : Recorded(f) = <<r>>
    BY <1>2, RecordedIsState
  <2>2. AddLine(f, <<>>) = LogOf(<<<<r>>, <<>>>>, TRUE)
    BY <1>2, <2>1, AddedLine
  <2>3. Unended(AddLine(f, <<>>)) = LogOf(<<<<r>>, <<>>>>, FALSE)
    BY <2>2, UnendedLog
  <2>. QED  BY <2>1, <2>3 DEF LogOK, LogOf, NoLines, Recorded, Last
<1>. QED  BY <1>1, <1>2

-----------------------------------------------------------------------------
(* Journals *)

(* The messages of a journal between two positions. *)
Part(j, from, to) == IF Exists(j) THEN SubSeq(files[j], from + 1, to) ELSE <<>>

(* The messages of a state are those of its journals. *)
LEMMA MessagesParts ==
    ASSUME NEW st
    PROVE  Messages(st) = Part(st.rj, st.rpos, st.rcount)
                            \o (IF st.rj # st.wj THEN Part(st.wj, 0, st.wcount) ELSE <<>>)
    BY DEF Messages, Part, Optional

(* The fields of a state. *)
LEMMA StateFields ==
    ASSUME NEW st \in States
    PROVE  /\ st.rj \in JournalId /\ st.wj \in JournalId
           /\ st.rpos \in Nat /\ st.rcount \in Nat /\ st.wcount \in Nat /\ st.size \in Nat
           /\ st.canWrite \in BOOLEAN
    BY DEF States

(* A message that was torn is none that was sent. *)
LEMMA TornIsNone ==
    Torn \notin Message
<1>1. \A m \in Message : m.id \in 1..MaxSends
  BY DEF Message
<1>2. Torn.id = 0
  BY DEF Torn
<1>. QED  BY <1>1, <1>2, JournalAssumption

(* The part of a journal that has the messages. *)
LEMMA PartOf ==
    ASSUME FilesOK, NEW j, NEW from \in Nat, NEW to \in Nat, from <= to, Holds(j, to)
    PROVE  /\ Part(j, from, to) \in Seq(Message)
           /\ Len(Part(j, from, to)) = IF Exists(j) THEN to - from ELSE 0
           /\ Exists(j) => \A i \in 1..(to - from) : Part(j, from, to)[i] = files[j][from + i]
<1>1. CASE ~Exists(j)
  BY <1>1, EmptySeq DEF Part
<1>2. CASE Exists(j)
  <2>1. \A i \in (from + 1)..to : files[j][i] \in Message
    BY <1>2 DEF Holds
  <2>2. /\ SubSeq(files[j], from + 1, to) \in Seq(Message)
        /\ Len(SubSeq(files[j], from + 1, to)) = IF from + 1 <= to THEN to - (from + 1) + 1 ELSE 0
        /\ \A i \in 1..(to - (from + 1) + 1) :
             SubSeq(files[j], from + 1, to)[i] = files[j][from + 1 + i - 1]
    BY <2>1, SubSeqProperties
  <2>3. \A i \in 1..(to - from) : SubSeq(files[j], from + 1, to)[i] = files[j][from + i]
    BY <2>2
  <2>. QED  BY <1>2, <2>2, <2>3 DEF Part
<1>. QED  BY <1>1, <1>2

(* The bounds of the positions of a valid state. *)
LEMMA ValidState ==
    ASSUME NEW st \in States, validQueueState(st)
    PROVE  /\ st.rpos <= st.rcount
           /\ st.rj = st.wj => st.rcount = st.wcount /\ st.size = st.rcount - st.rpos
           /\ st.rj # st.wj => st.size = st.wcount + (st.rcount - st.rpos)
    BY StateFields DEF validQueueState

(* How many messages the journals of a state have, and which they are. *)
InRead(st) == IF Exists(st.rj) THEN st.rcount - st.rpos ELSE 0
InWrite(st) == IF st.rj # st.wj /\ Exists(st.wj) THEN st.wcount ELSE 0

MessagesFit(st) ==
    /\ Messages(st) \in Seq(Message)
    /\ InRead(st) \in Nat /\ InWrite(st) \in Nat
    /\ Len(Messages(st)) = InRead(st) + InWrite(st)
    /\ \A i \in 1..InRead(st) : Messages(st)[i] = files[st.rj][st.rpos + i]
    /\ \A i \in 1..InWrite(st) : Messages(st)[InRead(st) + i] = files[st.wj][i]

(* What Messages reads of a stored state is of the types it should be. *)
LEMMA MessagesOf == \A st : FilesOK /\ Stored(st) => MessagesFit(st)
<1> SUFFICES ASSUME FilesOK, NEW st, Stored(st)
             PROVE  MessagesFit(st)
  OBVIOUS
<1> DEFINE p == Part(st.rj, st.rpos, st.rcount)
           w == IF st.rj # st.wj THEN Part(st.wj, 0, st.wcount) ELSE <<>>
<1>1. /\ st \in States
      /\ st.rpos \in Nat /\ st.rcount \in Nat /\ st.wcount \in Nat
      /\ st.rpos <= st.rcount
      /\ Holds(st.rj, st.rcount)
      /\ Holds(st.wj, st.wcount)
  BY StateFields, ValidState DEF Stored
<1>2. /\ p \in Seq(Message)
      /\ Len(p) = InRead(st)
      /\ Exists(st.rj) => \A i \in 1..(st.rcount - st.rpos) : p[i] = files[st.rj][st.rpos + i]
  BY <1>1, PartOf DEF InRead
<1>3. /\ w \in Seq(Message)
      /\ Len(w) = InWrite(st)
      /\ \A i \in 1..InWrite(st) : w[i] = files[st.wj][i]
  <2>1. CASE st.rj # st.wj
    <3>1. /\ Part(st.wj, 0, st.wcount) \in Seq(Message)
          /\ Len(Part(st.wj, 0, st.wcount)) = IF Exists(st.wj) THEN st.wcount - 0 ELSE 0
          /\ Exists(st.wj) =>
               \A i \in 1..(st.wcount - 0) : Part(st.wj, 0, st.wcount)[i] = files[st.wj][0 + i]
      <4>1. 0 \in Nat /\ 0 <= st.wcount
        BY <1>1
      <4>. QED  BY <1>1, <4>1, PartOf
    <3>2. \A i \in Nat : 0 + i = i
      OBVIOUS
    <3>. QED  BY <1>1, <2>1, <3>1, <3>2 DEF InWrite
  <2>2. CASE st.rj = st.wj
    BY <2>2, EmptySeq DEF InWrite
  <2>. QED  BY <2>1, <2>2
<1>4. Messages(st) = p \o w
  BY MessagesParts
<1>5. InRead(st) \in Nat /\ InWrite(st) \in Nat
  BY <1>1 DEF InRead, InWrite
<1> HIDE DEF p, w
<1>6. /\ p \o w \in Seq(Message)
      /\ Len(p \o w) = Len(p) + Len(w)
      /\ \A i \in 1..(Len(p) + Len(w)) :
           (p \o w)[i] = IF i <= Len(p) THEN p[i] ELSE w[i - Len(p)]
  BY <1>2, <1>3, ConcatProperties
<1>7. \A i \in 1..InRead(st) : (p \o w)[i] = files[st.rj][st.rpos + i]
  BY <1>2, <1>3, <1>5, <1>6 DEF InRead
<1>8. \A i \in 1..InWrite(st) : (p \o w)[InRead(st) + i] = files[st.wj][i]
  <2>1. SUFFICES ASSUME NEW i \in 1..InWrite(st)
                 PROVE  (p \o w)[InRead(st) + i] = w[i]
    BY <1>3
  <2>2. /\ InRead(st) + i \in 1..(InRead(st) + InWrite(st))
        /\ ~(InRead(st) + i <= InRead(st))
        /\ InRead(st) + i - InRead(st) = i
    BY <1>5
  <2>. QED  BY <1>2, <1>3, <1>6, <2>2
<1>. QED  BY <1>2, <1>3, <1>4, <1>5, <1>6, <1>7, <1>8 DEF MessagesFit

(* The same, of the next state. *)
LEMMA MessagesOfNext == \A st : FilesOK' /\ Stored(st)' => MessagesFit(st)'
<1>1. (\A st : FilesOK /\ Stored(st) => MessagesFit(st))'
  BY MessagesOf, PTL
<1>. QED  BY <1>1

(* A journal keeps its first n messages. *)
Kept(j, n) ==
    /\ Exists(j) <=> Exists(j)'
    /\ Exists(j) =>
         /\ Len(files'[j]) >= n
         /\ \A i \in 1..n : files'[j][i] = files[j][i]

KeptFor(st) == Kept(st.rj, st.rcount) /\ Kept(st.wj, st.wcount)

(* Nothing has become lost. *)
NoneLost == "lose" \in Range(faults) => "lose" \in Range(faults')

(* A state whose journals keep its messages stays stored. *)
LEMMA StoredKept ==
    ASSUME NEW st, Stored(st), KeptFor(st), NoneLost
    PROVE  Stored(st)'
<1>1. /\ st \in States
      /\ validQueueState(st)
      /\ st.rj # st.wj => st.wcount > 0
      /\ st.rcount \in Nat /\ st.wcount \in Nat
  BY StateFields DEF Stored
<1>2. Holds(st.rj, st.rcount)'
  BY DEF Stored, Holds, KeptFor, Kept
<1>3. Holds(st.wj, st.wcount)'
  BY DEF Stored, Holds, KeptFor, Kept
<1>4. Marked(st)'
  <2>1. SUFFICES ASSUME "lose" \notin Range(faults'), st.canWrite, st.wcount > 0
                 PROVE  Exists(st.wj)' /\ ~files'[st.wj][st.wcount].quota
    BY DEF Marked
  <2>2. Exists(st.wj) /\ ~files[st.wj][st.wcount].quota
    BY <2>1 DEF Stored, Marked, NoneLost
  <2>3. st.wcount \in 1..st.wcount
    BY <1>1, <2>1
  <2>. QED  BY <2>2, <2>3 DEF KeptFor, Kept
<1>. QED  BY <1>1, <1>2, <1>3, <1>4 DEF Stored, validQueueState

(* The messages of such a state stay the same. *)
LEMMA MessagesKept ==
    ASSUME FilesOK, FilesOK', NEW st, Stored(st), KeptFor(st), NoneLost
    PROVE  Messages(st)' = Messages(st)
<1>1. Stored(st)'
  BY StoredKept
<1>2. /\ st \in States /\ st.rpos \in Nat /\ st.rcount \in Nat /\ st.wcount \in Nat
      /\ st.rpos <= st.rcount
  BY StateFields, ValidState DEF Stored
<1>3. /\ InRead(st)' = InRead(st)
      /\ InWrite(st)' = InWrite(st)
  BY DEF InRead, InWrite, KeptFor, Kept
<1>4. /\ Messages(st) \in Seq(Message)
      /\ InRead(st) \in Nat /\ InWrite(st) \in Nat
      /\ Len(Messages(st)) = InRead(st) + InWrite(st)
      /\ \A i \in 1..InRead(st) : Messages(st)[i] = files[st.rj][st.rpos + i]
      /\ \A i \in 1..InWrite(st) : Messages(st)[InRead(st) + i] = files[st.wj][i]
  BY MessagesOf DEF MessagesFit
<1>5. /\ Messages(st)' \in Seq(Message)
      /\ Len(Messages(st)') = InRead(st) + InWrite(st)
      /\ \A i \in 1..InRead(st) : Messages(st)'[i] = files'[st.rj][st.rpos + i]
      /\ \A i \in 1..InWrite(st) : Messages(st)'[InRead(st) + i] = files'[st.wj][i]
  <2>1. /\ Messages(st)' \in Seq(Message)
        /\ Len(Messages(st)') = InRead(st)' + InWrite(st)'
        /\ \A i \in 1..InRead(st)' : Messages(st)'[i] = files'[st.rj][st.rpos + i]
        /\ \A i \in 1..InWrite(st)' : Messages(st)'[InRead(st)' + i] = files'[st.wj][i]
    BY <1>1, MessagesOfNext DEF MessagesFit
  <2>. QED  BY <1>3, <2>1
<1>6. \A i \in 1..InRead(st) : Messages(st)'[i] = Messages(st)[i]
  <2>1. SUFFICES ASSUME NEW i \in 1..InRead(st) PROVE files'[st.rj][st.rpos + i] = files[st.rj][st.rpos + i]
    BY <1>4, <1>5
  <2>2. Exists(st.rj) /\ st.rpos + i \in 1..st.rcount
    BY <1>2 DEF InRead
  <2>. QED  BY <2>2 DEF KeptFor, Kept
<1>7. \A i \in 1..InWrite(st) : Messages(st)'[InRead(st) + i] = Messages(st)[InRead(st) + i]
  <2>1. SUFFICES ASSUME NEW i \in 1..InWrite(st) PROVE files'[st.wj][i] = files[st.wj][i]
    BY <1>4, <1>5
  <2>2. Exists(st.wj) /\ i \in 1..st.wcount
    BY <1>2 DEF InWrite
  <2>. QED  BY <2>2 DEF KeptFor, Kept
<1>8. \A i \in 1..(InRead(st) + InWrite(st)) : Messages(st)'[i] = Messages(st)[i]
  <2>1. SUFFICES ASSUME NEW i \in 1..(InRead(st) + InWrite(st)) PROVE Messages(st)'[i] = Messages(st)[i]
    OBVIOUS
  <2>2. CASE i <= InRead(st)
    BY <1>4, <1>6, <2>2
  <2>3. CASE i > InRead(st)
    <3>1. PICK k \in 1..InWrite(st) : i = InRead(st) + k
      <4>1. i - InRead(st) \in 1..InWrite(st) /\ i = InRead(st) + (i - InRead(st))
        BY <1>4, <2>3
      <4>. QED  BY <4>1
    <3>. QED  BY <1>7, <3>1
  <2>. QED  BY <1>4, <2>2, <2>3
<1>. QED  BY <1>4, <1>5, <1>8, SeqEqual

-----------------------------------------------------------------------------
(* What the next start of the server finds *)

(* The recorded state, if any, is the one to start from. *)
LEMMA RecOf ==
    DiskOK => /\ Rec # <<>> => Rec = <<Rec[1]>> /\ Rec[1] \in States /\ dir
              /\ Rec = <<>> => Durable = <<>>
              /\ Rec # <<>> => Durable = Messages(Rec[1])
              /\ LogOK(StateFile)
<1> SUFFICES ASSUME DiskOK
             PROVE  /\ Rec # <<>> => Rec = <<Rec[1]>> /\ Rec[1] \in States /\ dir
                    /\ Rec = <<>> => Durable = <<>>
                    /\ Rec # <<>> => Durable = Messages(Rec[1])
                    /\ LogOK(StateFile)
  OBVIOUS
<1>1. LogOK(StateFile)
  BY DEF DiskOK, StateFile
<1>2. Rec # <<>> => Rec = <<Rec[1]>> /\ Rec[1] \in States
  BY <1>1, RecordedIsState DEF Rec
<1>3. ~dir => Rec = <<>>
  <2>1. ~dir => StateFile = NoLines
    BY DEF DiskOK, StateFile
  <2>. QED  BY <1>1, <2>1, RecordedIsState DEF Rec
<1>. QED  BY <1>1, <1>2, <1>3 DEF Durable, Rec

(* The same, of the next state. *)
LEMMA RecOfNext ==
    DiskOK' => /\ Rec' # <<>> => Rec' = <<Rec'[1]>> /\ Rec'[1] \in States /\ dir'
               /\ Rec' = <<>> => Durable' = <<>>
               /\ Rec' # <<>> => Durable' = Messages(Rec[1])'
<1>1. (DiskOK => /\ Rec # <<>> => Rec = <<Rec[1]>> /\ Rec[1] \in States /\ dir
                 /\ Rec = <<>> => Durable = <<>>
                 /\ Rec # <<>> => Durable = Messages(Rec[1])
                 /\ LogOK(StateFile))'
  BY RecOf, PTL
<1>. QED  BY <1>1 DEF States, JournalId

(* The journals of the recorded state keep its messages. *)
LEMMA DurableKept ==
    ASSUME DiskOK, DiskOK', Recoverable, Rec' = Rec, NoneLost, Rec # <<>> => KeptFor(Rec[1])
    PROVE  Recoverable' /\ Durable' = Durable
<1>1. CASE Rec = <<>>
  BY <1>1, RecOf, RecOfNext DEF Recoverable
<1>2. CASE Rec # <<>>
  <2>1. PICK r : r = Rec[1]
    OBVIOUS
  <2>2. Stored(r) /\ KeptFor(r)
    BY <1>2, <2>1 DEF Recoverable
  <2>3. Stored(r)' /\ Messages(r)' = Messages(r)
    BY <2>2, StoredKept, MessagesKept DEF DiskOK
  <2>4. Durable = Messages(r)
    BY <1>2, <2>1, RecOf
  <2>5. Rec[1]' = r
    BY <2>1
  <2>6. Messages(Rec[1])' = Messages(r)' /\ Stored(Rec[1])' = Stored(r)'
    BY <2>5
  <2>7. Durable' = Messages(r)'
    BY <1>2, <2>6, RecOfNext
  <2>. QED  BY <2>3, <2>4, <2>6, <2>7 DEF Recoverable
<1>. QED  BY <1>1, <1>2

(* A sequence of messages without its first k, none of which is a marker. *)
Without(q, k, next) ==
    /\ q \in Seq(Message) /\ next \in Seq(Message)
    /\ k \in Nat
    /\ Len(q) = k + Len(next)
    /\ \A i \in 1..k : ~q[i].quota
    /\ \A i \in 1..Len(next) : next[i] = q[k + i]

(* Two states that differ in their read positions. *)
LEMMA ReadFurther ==
    ASSUME NEW r, NEW st, MessagesFit(r), MessagesFit(st),
           NEW k \in Nat,
           InRead(r) + InWrite(r) = k + (InRead(st) + InWrite(st)),
           \A i \in 1..k : ~Messages(r)[i].quota,
           \A i \in 1..InRead(st) : Messages(st)[i] = Messages(r)[k + i],
           \A i \in 1..InWrite(st) : Messages(st)[InRead(st) + i] = Messages(r)[k + InRead(st) + i]
    PROVE  Without(Messages(r), k, Messages(st))
<1>1. /\ Messages(r) \in Seq(Message) /\ Messages(st) \in Seq(Message)
      /\ Len(Messages(r)) = k + Len(Messages(st))
      /\ InRead(st) \in Nat /\ InWrite(st) \in Nat
      /\ Len(Messages(st)) = InRead(st) + InWrite(st)
  BY DEF MessagesFit
<1>2. \A i \in 1..(InRead(st) + InWrite(st)) : Messages(st)[i] = Messages(r)[k + i]
  <2>1. SUFFICES ASSUME NEW i \in 1..(InRead(st) + InWrite(st))
                 PROVE  Messages(st)[i] = Messages(r)[k + i]
    OBVIOUS
  <2>2. CASE i <= InRead(st)
    BY <1>1, <2>2
  <2>3. CASE i > InRead(st)
    <3>1. PICK n \in 1..InWrite(st) : i = InRead(st) + n
      <4>1. i - InRead(st) \in 1..InWrite(st) /\ i = InRead(st) + (i - InRead(st))
        BY <1>1, <2>3
      <4>. QED  BY <4>1
    <3>2. k + InRead(st) + n = k + i
      BY <1>1, <3>1
    <3>. QED  BY <3>1, <3>2
  <2>. QED  BY <1>1, <2>2, <2>3
<1>. QED  BY <1>1, <1>2 DEF Without

(* The state in memory has what is found on a start, without the messages   *)
(* between the two read positions.                                          *)
LEMMA FollowsSuffix ==
    \A st : /\ DiskOK /\ Recoverable
            /\ Stored(st) /\ Exists(st.rj) /\ Exists(st.wj) /\ Follows(st)
            => Without(Durable, st.rpos - From(st), Messages(st))
<1> SUFFICES ASSUME DiskOK, Recoverable,
                    NEW st, Stored(st), Exists(st.rj), Exists(st.wj), Follows(st)
             PROVE  Without(Durable, st.rpos - From(st), Messages(st))
  OBVIOUS
<1>1. /\ st \in States /\ validQueueState(st)
      /\ st.rpos \in Nat /\ st.rcount \in Nat /\ st.wcount \in Nat
      /\ st.rpos <= st.rcount
      /\ st.rj = st.wj => st.rcount = st.wcount
  BY StateFields, ValidState DEF Stored
<1>2. MessagesFit(st)
  BY MessagesOf DEF DiskOK
<1>3. CASE Rec = <<>>
  <2>1. Durable = <<>>
    BY <1>3, RecOf
  <2>2. st = newMsgQueueState(st.rj)
    BY <1>3 DEF Follows
  <2>3. st.rpos = 0 /\ st.rcount = 0 /\ st.rj = st.wj /\ From(st) = 0
    BY <1>3, <2>2 DEF newMsgQueueState, From
  <2>4. Messages(st) \in Seq(Message) /\ Len(Messages(st)) = 0
    BY <1>2, <2>3 DEF MessagesFit, InRead, InWrite
  <2>5. <<>> \in Seq(Message) /\ Len(<<>>) = 0
    BY EmptySeq
  <2>. QED  BY <2>1, <2>3, <2>4, <2>5 DEF Without
<1>4. CASE Rec # <<>>
  <2>1. PICK r : r = Rec[1]
    OBVIOUS
  <2>2. Stored(r) /\ Durable = Messages(r)
    BY <1>4, <2>1, RecOf DEF Recoverable
  <2>3. /\ r \in States /\ validQueueState(r)
        /\ r.rpos \in Nat /\ r.rcount \in Nat /\ r.wcount \in Nat
        /\ r.rpos <= r.rcount
        /\ r.rj = r.wj => r.rcount = r.wcount
    BY <2>2, StateFields, ValidState DEF Stored
  <2>4. MessagesFit(r)
    BY <2>2, MessagesOf DEF DiskOK
  <2>5. From(st) = (IF r.rj = st.rj THEN r.rpos ELSE 0) /\ From(st) <= st.rpos
    BY <1>4, <2>1 DEF From, Follows
  <2>6. PICK k \in Nat : k = st.rpos - From(st) /\ From(st) + k = st.rpos /\ From(st) \in Nat
    <3>1. st.rpos - From(st) \in Nat /\ From(st) + (st.rpos - From(st)) = st.rpos /\ From(st) \in Nat
      BY <1>1, <2>3, <2>5
    <3>. QED  BY <3>1
  <2>7. \A i \in 1..k : ~files[st.rj][From(st) + i].quota
    <3>1. \A i \in (From(st) + 1)..st.rpos : ~files[st.rj][i].quota
      BY <1>4 DEF Follows
    <3>. QED  BY <2>6, <3>1
  <2>8. CASE r.rj = st.rj /\ r.wj = st.wj /\ r.rcount = st.rcount /\ r.wcount = st.wcount
    <3>1. /\ InRead(st) = st.rcount - st.rpos /\ InRead(r) = k + InRead(st)
          /\ InWrite(r) = InWrite(st)
          /\ InRead(st) \in Nat /\ InWrite(st) \in Nat
          /\ From(st) = r.rpos
      BY <1>1, <2>3, <2>5, <2>6, <2>8 DEF InRead, InWrite
    <3>2. InRead(r) + InWrite(r) = k + (InRead(st) + InWrite(st))
      BY <3>1
    <3>3. \A i \in 1..k : Messages(r)[i] = files[st.rj][From(st) + i]
      BY <2>4, <2>8, <3>1 DEF MessagesFit
    <3>4. \A i \in 1..InRead(st) : Messages(st)[i] = Messages(r)[k + i]
      <4>1. SUFFICES ASSUME NEW i \in 1..InRead(st)
                     PROVE  Messages(st)[i] = Messages(r)[k + i]
        OBVIOUS
      <4>2. k + i \in 1..InRead(r) /\ r.rpos + (k + i) = st.rpos + i
        BY <1>1, <2>3, <2>6, <3>1
      <4>. QED  BY <1>2, <2>4, <2>8, <4>2 DEF MessagesFit
    <3>5. \A i \in 1..InWrite(st) : Messages(st)[InRead(st) + i] = Messages(r)[k + InRead(st) + i]
      BY <1>2, <2>4, <2>8, <3>1 DEF MessagesFit
    <3>. QED  BY <1>2, <2>2, <2>4, <2>6, <2>7, <3>2, <3>3, <3>4, <3>5, ReadFurther
  <2>9. CASE /\ ~Exists(r.rj) /\ r.rj # r.wj
             /\ r.wj = st.rj /\ r.wj = st.wj /\ r.wcount = st.rcount
    <3>1. /\ InRead(r) = 0 /\ InWrite(r) = st.rcount
          /\ InRead(st) = st.rcount - st.rpos /\ InWrite(st) = 0
          /\ From(st) = 0 /\ k = st.rpos
          /\ InRead(st) \in Nat /\ InWrite(st) \in Nat
      BY <1>1, <2>3, <2>5, <2>6, <2>9 DEF InRead, InWrite
    <3>2. InRead(r) + InWrite(r) = k + (InRead(st) + InWrite(st))
      BY <1>1, <3>1
    <3>3. \A i \in 1..st.rcount : Messages(r)[i] = files[st.rj][i]
      <4>1. \A i \in 1..InWrite(r) : Messages(r)[InRead(r) + i] = files[r.wj][i]
        BY <2>4 DEF MessagesFit
      <4>2. \A i \in 1..st.rcount : InRead(r) + i = i
        BY <3>1
      <4>. QED  BY <2>9, <3>1, <4>1, <4>2
    <3>4. \A i \in 1..k : ~Messages(r)[i].quota
      BY <1>1, <2>7, <3>1, <3>3
    <3>5. \A i \in 1..InRead(st) : Messages(st)[i] = Messages(r)[k + i]
      <4>1. SUFFICES ASSUME NEW i \in 1..InRead(st)
                     PROVE  Messages(st)[i] = Messages(r)[k + i]
        OBVIOUS
      <4>2. k + i \in 1..st.rcount /\ k + i = st.rpos + i
        BY <1>1, <3>1
      <4>. QED  BY <1>2, <3>1, <3>3, <4>2 DEF MessagesFit
    <3>6. \A i \in 1..InWrite(st) : Messages(st)[InRead(st) + i] = Messages(r)[k + InRead(st) + i]
      BY <3>1
    <3>. QED  BY <1>2, <2>2, <2>4, <2>6, <3>2, <3>4, <3>5, <3>6, ReadFurther
  <2>10. CASE /\ ~Exists(r.wj) /\ r.rj # r.wj
              /\ r.rj = st.rj /\ r.rj = st.wj /\ r.rcount = st.rcount
    <3>1. /\ InRead(st) = st.rcount - st.rpos /\ InRead(r) = k + InRead(st)
          /\ InWrite(r) = 0 /\ InWrite(st) = 0
          /\ InRead(st) \in Nat /\ InWrite(st) \in Nat
          /\ From(st) = r.rpos
      BY <1>1, <2>3, <2>5, <2>6, <2>10 DEF InRead, InWrite
    <3>2. InRead(r) + InWrite(r) = k + (InRead(st) + InWrite(st))
      BY <3>1
    <3>3. \A i \in 1..k : Messages(r)[i] = files[st.rj][From(st) + i]
      BY <2>4, <2>10, <3>1 DEF MessagesFit
    <3>4. \A i \in 1..InRead(st) : Messages(st)[i] = Messages(r)[k + i]
      <4>1. SUFFICES ASSUME NEW i \in 1..InRead(st)
                     PROVE  Messages(st)[i] = Messages(r)[k + i]
        OBVIOUS
      <4>2. k + i \in 1..InRead(r) /\ r.rpos + (k + i) = st.rpos + i
        BY <1>1, <2>3, <2>6, <3>1
      <4>. QED  BY <1>2, <2>4, <2>10, <4>2 DEF MessagesFit
    <3>5. \A i \in 1..InWrite(st) : Messages(st)[InRead(st) + i] = Messages(r)[k + InRead(st) + i]
      BY <3>1
    <3>. QED  BY <1>2, <2>2, <2>4, <2>6, <2>7, <3>2, <3>3, <3>4, <3>5, ReadFurther
  <2>. QED  BY <1>4, <2>1, <2>8, <2>9, <2>10 DEF Follows
<1>. QED  BY <1>3, <1>4

(* With the read position logged, a start finds what is in memory. *)
LEMMA LoggedIsDurable ==
    ASSUME DiskOK, Recoverable, NEW st,
           Stored(st), Exists(st.rj), Exists(st.wj), Follows(st), Logged(st)
    PROVE  Durable = Messages(st) /\ Durable \in Seq(Message)
<1>1. Without(Durable, st.rpos - From(st), Messages(st))
  BY FollowsSuffix
<1>2. st.rpos - From(st) = 0
  <2>1. st.rpos \in Nat
    BY StateFields DEF Stored
  <2>. QED  BY <2>1 DEF Logged
<1>3. Without(Durable, 0, Messages(st))
  BY <1>1, <1>2
<1>. QED  BY <1>3, SeqEqual DEF Without

(* What is left of a sequence of which the first messages expired. *)
LEMMA WithoutIsAllowed ==
    ASSUME NEW q, NEW k, NEW next, Without(q, k, next), k = 0 \/ "EXPIRE" \in Ops
    PROVE  Allowed(q, next)
<1>1. CASE k = 0
  <2>1. next = q
    BY <1>1, SeqEqual DEF Without
  <2>. QED  BY <2>1 DEF Allowed
<1>2. CASE k # 0
  <2>1. /\ q \in Seq(Message) /\ next \in Seq(Message)
        /\ Len(next) \in Nat /\ Len(q) \in Nat /\ Len(q) = k + Len(next)
        /\ k \in 1..Len(q)
        /\ \A i \in 1..Len(next) : next[i] = q[k + i]
    BY <1>2 DEF Without
  <2>2. next = SubSeq(q, k + 1, Len(q))
    <3>1. \A i \in (k + 1)..Len(q) : q[i] \in Message
      BY <2>1
    <3>2. /\ SubSeq(q, k + 1, Len(q)) \in Seq(Message)
          /\ Len(SubSeq(q, k + 1, Len(q))) =
               IF k + 1 <= Len(q) THEN Len(q) - (k + 1) + 1 ELSE 0
          /\ \A i \in 1..(Len(q) - (k + 1) + 1) : SubSeq(q, k + 1, Len(q))[i] = q[k + 1 + i - 1]
      BY <2>1, <3>1, SubSeqProperties
    <3>3. Len(SubSeq(q, k + 1, Len(q))) = Len(next)
      BY <2>1, <3>2
    <3>4. \A i \in 1..Len(next) : SubSeq(q, k + 1, Len(q))[i] = next[i]
      BY <2>1, <3>2
    <3>. QED  BY <2>1, <3>2, <3>3, <3>4, SeqEqual
  <2>3. \A i \in 1..k : ~q[i].quota
    BY DEF Without
  <2>. QED  BY <1>2, <2>1, <2>2, <2>3 DEF Allowed
<1>. QED  BY <1>1, <1>2

-----------------------------------------------------------------------------
(* What an effect leaves as it was *)

(* The types, after an effect on the disk. *)
LEMMA TypedNext ==
    ASSUME Typed, DiskOK', UNCHANGED <<job, lastId, faults, errors>>
    PROVE  Typed'
<1>1. JobOK'
  BY DEF Typed, JobOK, Expiring
<1>2. NoStoreError'
  BY DEF Typed, NoStoreError
<1>. QED  BY <1>1, <1>2 DEF Typed

(* The fields of an opened queue. *)
LEMMA QueueFields ==
    ASSUME NEW mq \in Queues
    PROVE  /\ mq.open = TRUE
           /\ mq.state \in States
           /\ mq.readHandle \in Nat /\ mq.writeHandle \in Nat
           /\ mq.tip # <<>> => mq.tip = <<mq.tip[1]>> /\ mq.tip[1] \in Message
           /\ mq = [open |-> TRUE, state |-> mq.state, readHandle |-> mq.readHandle,
                    writeHandle |-> mq.writeHandle, tip |-> mq.tip]
<1>1. /\ mq.open = TRUE
      /\ mq.state \in States
      /\ mq.readHandle \in Nat /\ mq.writeHandle \in Nat
      /\ mq.tip \in {<<>>} \cup {<<m>> : m \in Message}
  BY DEF Queues
<1>2. mq = [open |-> mq.open, state |-> mq.state, readHandle |-> mq.readHandle,
            writeHandle |-> mq.writeHandle, tip |-> mq.tip]
  BY DEF Queues
<1>3. mq.tip # <<>> => mq.tip = <<mq.tip[1]>> /\ mq.tip[1] \in Message
  <2>1. SUFFICES ASSUME mq.tip # <<>>
                 PROVE  mq.tip = <<mq.tip[1]>> /\ mq.tip[1] \in Message
    OBVIOUS
  <2>2. PICK m \in Message : mq.tip = <<m>>
    BY <1>1, <2>1
  <2>. QED  BY <2>2
<1>4. mq = [open |-> TRUE, state |-> mq.state, readHandle |-> mq.readHandle,
            writeHandle |-> mq.writeHandle, tip |-> mq.tip]
  BY <1>1, <1>2, Zenon
<1>. QED  BY <1>1, <1>3, <1>4

(* The tip stays the message at the read position. *)
LEMMA TipKept ==
    ASSUME NEW mq, Stored(mq.state), KeptFor(mq.state), TipOK(mq)
    PROVE  TipOK(mq)'
<1> DEFINE st == mq.state
<1>1. /\ st.rpos \in Nat /\ st.rcount \in Nat /\ st.wcount \in Nat
      /\ st.rpos <= st.rcount
      /\ st.rj # st.wj => st.wcount > 0
  BY StateFields, ValidState DEF Stored
<1>2. SUFFICES ASSUME mq.tip # <<>>
               PROVE  IF st.rpos < st.rcount
                        THEN Exists(st.rj)' /\ mq.tip[1] = files'[st.rj][st.rpos + 1]
                        ELSE st.rj # st.wj /\ Exists(st.wj)' /\ mq.tip[1] = files'[st.wj][1]
  BY DEF TipOK
<1>3. CASE st.rpos < st.rcount
  <2>1. Exists(st.rj) /\ mq.tip[1] = files[st.rj][st.rpos + 1]
    BY <1>2, <1>3 DEF TipOK
  <2>2. st.rpos + 1 \in 1..st.rcount
    BY <1>1, <1>3
  <2>. QED  BY <1>3, <2>1, <2>2 DEF KeptFor, Kept
<1>4. CASE ~(st.rpos < st.rcount)
  <2>1. st.rj # st.wj /\ Exists(st.wj) /\ mq.tip[1] = files[st.wj][1]
    BY <1>2, <1>4 DEF TipOK
  <2>2. 1 \in 1..st.wcount
    BY <1>1, <2>1
  <2>. QED  BY <1>4, <2>1, <2>2 DEF KeptFor, Kept
<1>. QED  BY <1>3, <1>4

(* A journal to which an append failed stays as short. *)
StrandedKept(mq) ==
    Stranded(mq) => Exists(mq.writeHandle)' /\ Len(files'[mq.writeHandle]) <= 1

(* The opened queue stays sound. *)
LEMMA SoundKept ==
    ASSUME NEW mq, Sound(mq), KeptFor(mq.state), NoneLost, StrandedKept(mq)
    PROVE  Sound(mq)'
<1>1. Stored(mq.state)'
  BY StoredKept DEF Sound
<1>2. TipOK(mq)'
  BY TipKept DEF Sound
<1>3. Handles(mq)'
  BY DEF Sound, Handles, KeptFor, Kept, StrandedKept, Stranded
<1>. QED  BY <1>1, <1>2, <1>3 DEF Sound, Queues, States, JournalId, Message

(* The state in memory goes on following the recorded one. *)
LEMMA FollowsKept ==
    ASSUME NEW st, Stored(st), Exists(st.rj), Follows(st), KeptFor(st), Rec' = Rec,
           Recoverable, Rec # <<>> => KeptFor(Rec[1])
    PROVE  Follows(st)' /\ From(st)' = From(st)
<1>1. From(st)' = From(st)
  BY DEF From
<1>2. CASE Rec = <<>>
  BY <1>1, <1>2 DEF Follows
<1>3. CASE Rec # <<>>
  <2>1. PICK r : r = Rec[1]
    OBVIOUS
  <2>2. Rec[1]' = r /\ KeptFor(r)
    BY <1>3, <2>1
  <2>3. /\ From(st) <= st.rpos
        /\ \A i \in (From(st) + 1)..st.rpos : ~files[st.rj][i].quota
        /\ \/ /\ r.rj = st.rj /\ r.wj = st.wj
              /\ r.rcount = st.rcount /\ r.wcount = st.wcount
           \/ /\ ~Exists(r.rj) /\ r.rj # r.wj
              /\ r.wj = st.rj /\ r.wj = st.wj /\ r.wcount = st.rcount
           \/ /\ ~Exists(r.wj) /\ r.rj # r.wj
              /\ r.rj = st.rj /\ r.rj = st.wj /\ r.rcount = st.rcount
    BY <1>3, <2>1 DEF Follows
  <2>4. \A i \in (From(st) + 1)..st.rpos : ~files'[st.rj][i].quota
    <3>1. SUFFICES ASSUME NEW i \in (From(st) + 1)..st.rpos
                   PROVE  ~files'[st.rj][i].quota
      OBVIOUS
    <3>2. st.rpos \in Nat /\ st.rcount \in Nat /\ st.rpos <= st.rcount
      BY StateFields, ValidState DEF Stored
    <3>3. From(st) \in Nat
      BY <1>3, <2>1, StateFields DEF From, Recoverable, Stored
    <3>4. i \in 1..st.rcount
      BY <3>2, <3>3
    <3>. QED  BY <2>3, <3>4 DEF KeptFor, Kept
  <2>. QED  BY <1>1, <1>3, <2>2, <2>3, <2>4 DEF Follows, KeptFor, Kept
<1>. QED  BY <1>2, <1>3

(* The opened queue goes on having what the files have. *)
LEMMA MemKept ==
    ASSUME NEW mq, MemOK(mq), UNCHANGED <<dir, log, bak>>, NoneLost,
           Recoverable, Rec # <<>> => KeptFor(Rec[1]),
           Sound(mq) => KeptFor(mq.state) /\ StrandedKept(mq),
           Unwritten(mq) => (Exists(mq.state.rj)' => files'[mq.state.rj] = <<>>)
    PROVE  MemOK(mq)' /\ (Logged(mq.state)' <=> Logged(mq.state))
<1>1. Rec' = Rec
  BY DEF Rec, StateFile
<1>2. CASE Unwritten(mq)
  <2>1. Unwritten(mq)'
    BY <1>2 DEF Unwritten
  <2>2. From(mq.state)' = From(mq.state)
    BY <1>1 DEF From
  <2>. QED  BY <2>1, <2>2 DEF MemOK, Logged
<1>3. CASE Sound(mq) /\ LogReady /\ Follows(mq.state)
  <2>1. Sound(mq)'
    BY <1>3, SoundKept
  <2>2. LogReady'
    BY <1>3 DEF LogReady
  <2>3. Follows(mq.state)' /\ From(mq.state)' = From(mq.state)
    BY <1>1, <1>3, FollowsKept DEF Sound, Handles
  <2>. QED  BY <2>1, <2>2, <2>3 DEF MemOK, Logged
<1>. QED  BY <1>2, <1>3 DEF MemOK

(* What is known of the queue in memory stays true. *)
LEMMA RememberedKept ==
    ASSUME Remembered, UNCHANGED <<mem, qstate>>, NoneLost,
           mem.open => KeptFor(mem.state),
           ~mem.open => Durable' = Durable \/ Durable' = <<>>
    PROVE  Remembered'
<1>1. CASE mem.open
  <2>1. PICK mq : mq = mem
    OBVIOUS
  <2>2. mem' = mq
    BY <2>1
  <2>3. mq.open /\ mq \in Queues /\ Stored(mq.state) /\ TipOK(mq) /\ KeptFor(mq.state)
        /\ qstate = <<qState(mq.state)>>
    BY <1>1, <2>1 DEF Remembered
  <2>4. Stored(mq.state)' /\ TipOK(mq)'
    BY <2>3, StoredKept, TipKept
  <2>5. Stored(mem.state)' = Stored(mq.state)' /\ TipOK(mem)' = TipOK(mq)'
    BY <2>2
  <2>6. mq \in Queues'
    BY <2>3 DEF Queues, States, JournalId, Message
  <2>7. qState(mem.state)' = qState(mq.state)
    BY <2>2 DEF qState
  <2>. QED  BY <2>2, <2>3, <2>4, <2>5, <2>6, <2>7 DEF Remembered
<1>2. CASE ~mem.open
  BY <1>2 DEF Remembered
<1>. QED  BY <1>1, <1>2

-----------------------------------------------------------------------------
(* Which effect is carried out *)

(* A step with effects left carries out the first one. *)
LEMMA FirstEffect ==
    ASSUME Step, todo # <<>>
    PROVE  \/ DoMkdir \/ DoCreate \/ DoRemove \/ DoFixFileSize \/ DoPut
           \/ DoAppendState \/ DoRename \/ DoAssign \/ DoRead \/ DoThrow
           \/ DoRemoveDirectory
    BY DEF Step, Open, WriteMsg, PeekMsg, DeleteMsg, AckMsg, ExpireMsgs, ExpiredMsg, Close,
           RemoveQueueDirectory, NextStep

(* The action is the one of the effect that comes first, or an error thrown *)
(* by it.                                                                   *)
LEMMA EffectOf ==
    ASSUME Step, todo # <<>>, NEW e, e = Head(todo)
    PROVE  /\ e.do = "mkdir" => DoMkdir
           /\ e.do = "create" => DoCreate
           /\ e.do = "remove" => DoRemove
           /\ e.do = "fix" => DoFixFileSize \/ (DoThrow /\ Len(files[e.j]) < e.pos)
           /\ e.do = "put" => DoPut
           /\ e.do = "line" => DoAppendState
           /\ e.do \in {"restore", "temp", "timed", "retire"} => DoRename
           /\ e.do = "assign" => DoAssign
           /\ e.do = "read" => DoRead \/ (DoThrow /\ ~Readable(e.j, e.pos))
           /\ e.do = "rmdir" => DoRemoveDirectory
<1>1. DoThrow => /\ e.do \in {"throw", "fix", "read"}
                 /\ e.do = "fix" => Len(files[e.j]) < e.pos
                 /\ e.do = "read" => ~Readable(e.j, e.pos)
  BY DEF DoThrow, ThrownBy
<1>2. /\ DoMkdir => e.do = "mkdir"
      /\ DoCreate => e.do = "create"
      /\ DoRemove => e.do = "remove"
      /\ DoFixFileSize => e.do = "fix"
      /\ DoPut => e.do = "put"
      /\ DoAppendState => e.do = "line"
      /\ DoRename => e.do \in {"restore", "temp", "timed", "retire"}
      /\ DoAssign => e.do = "assign"
      /\ DoRead => e.do = "read"
      /\ DoRemoveDirectory => e.do = "rmdir"
  BY DEF DoMkdir, DoCreate, DoRemove, DoFixFileSize, DoPut, DoAppendState, DoRename, DoAssign,
         DoRead, DoRemoveDirectory, Doing
<1>. QED  BY <1>1, <1>2, FirstEffect

(* What the effects are. *)
LEMMA EffectFields ==
    /\ Mkdir.do = "mkdir" /\ RestoreBackup.do = "restore" /\ TempBackup.do = "temp"
    /\ TimedBackup.do = "timed" /\ RetireLog.do = "retire" /\ RemoveDirectory.do = "rmdir"
    /\ \A j : CreateJournal(j).do = "create" /\ CreateJournal(j).j = j
    /\ \A j : RemoveJournal(j).do = "remove" /\ RemoveJournal(j).j = j
    /\ \A j, pos : /\ FixFileSize(j, pos).do = "fix"
                   /\ FixFileSize(j, pos).j = j /\ FixFileSize(j, pos).pos = pos
    /\ \A j, msg : PutMsg(j, msg).do = "put" /\ PutMsg(j, msg).j = j /\ PutMsg(j, msg).msg = msg
    /\ \A st : AppendState(st).do = "line" /\ AppendState(st).st = st
    /\ \A mq : /\ Assign(mq).do = "assign" /\ Assign(mq).mem = mq
               /\ Assign(mq).qstate = IF mq.open THEN <<qState(mq.state)>> ELSE qstate
    /\ \A j, pos : /\ ReadTip(j, pos).do = "read"
                   /\ ReadTip(j, pos).j = j /\ ReadTip(j, pos).pos = pos
    BY DEF Mkdir, RestoreBackup, TempBackup, TimedBackup, RetireLog, RemoveDirectory,
           CreateJournal, RemoveJournal, FixFileSize, PutMsg, AppendState, Assign, ReadTip

-----------------------------------------------------------------------------
(* What the effects on the journals keep *)

(* The counts of a stored state. *)
LEMMA StoredHolds ==
    ASSUME NEW st, Stored(st)
    PROVE  /\ st \in States /\ validQueueState(st)
           /\ st.rpos \in Nat /\ st.rcount \in Nat /\ st.wcount \in Nat /\ st.size \in Nat
           /\ st.rj \in JournalId /\ st.wj \in JournalId
           /\ st.rpos <= st.rcount
           /\ st.rj # st.wj => st.wcount > 0
           /\ Exists(st.rj) => st.rcount <= Len(files[st.rj])
           /\ Exists(st.wj) => st.wcount <= Len(files[st.wj])
    BY StateFields, ValidState DEF Stored, Holds

(* Journals that are not touched. *)
LEMMA SameKeeps ==
    ASSUME files' = files
    PROVE  /\ FilesOK => FilesOK'
           /\ \A st : Stored(st) => KeptFor(st)
<1>1. FilesOK => FilesOK'
  BY DEF FilesOK, Content, Message, JournalId
<1>2. ASSUME NEW st, Stored(st)
      PROVE  KeptFor(st)
  BY <1>2, StoredHolds DEF KeptFor, Kept, Exists
<1>. QED  BY <1>1, <1>2

(* A journal created. *)
LEMMA CreateKeeps ==
    ASSUME FilesOK, NEW j \in JournalId,
           files' = [k \in DOMAIN files \cup {j} |-> IF Exists(k) THEN files[k] ELSE <<>>]
    PROVE  /\ FilesOK'
           /\ Exists(j)' /\ (~Exists(j) => files'[j] = <<>>)
           /\ \A k \in DOMAIN files : Exists(k)' /\ files'[k] = files[k]
           /\ \A k : k # j => (Exists(k)' <=> Exists(k))
           /\ \A st : Stored(st) /\ (Exists(j) \/ (st.rj # j /\ st.wj # j)) => KeptFor(st)
<1>1. DOMAIN files' = DOMAIN files \cup {j}
  OBVIOUS
<1>2. \A k \in DOMAIN files : files'[k] = files[k]
  BY DEF Exists
<1>3. ~Exists(j) => files'[j] = <<>>
  OBVIOUS
<1>4. FilesOK'
  <2>1. \A k \in DOMAIN files' : files'[k] \in Seq(Content)
    BY <1>1, <1>2, <1>3, EmptySeq DEF FilesOK, Exists
  <2>. QED  BY <1>1, <2>1 DEF FilesOK, Content, Message, JournalId
<1>5. ASSUME NEW st, Stored(st), Exists(j) \/ (st.rj # j /\ st.wj # j)
      PROVE  KeptFor(st)
  BY <1>1, <1>2, <1>5, StoredHolds DEF KeptFor, Kept, Exists
<1>. QED  BY <1>1, <1>2, <1>3, <1>4, <1>5 DEF Exists

(* A journal removed. *)
LEMMA RemoveKeeps ==
    ASSUME FilesOK, NEW j, files' = [k \in DOMAIN files \ {j} |-> files[k]]
    PROVE  /\ FilesOK'
           /\ ~Exists(j)'
           /\ \A k : k # j => (Exists(k)' <=> Exists(k))
           /\ \A k \in DOMAIN files : k # j => files'[k] = files[k]
           /\ \A st : Stored(st) /\ (~Exists(j) \/ (st.rj # j /\ st.wj # j)) => KeptFor(st)
<1>1. DOMAIN files' = DOMAIN files \ {j}
  OBVIOUS
<1>2. \A k \in DOMAIN files : k # j => files'[k] = files[k]
  OBVIOUS
<1>3. FilesOK'
  BY <1>1, <1>2 DEF FilesOK, Content, Message, JournalId
<1>4. ASSUME NEW st, Stored(st), ~Exists(j) \/ (st.rj # j /\ st.wj # j)
      PROVE  KeptFor(st)
  BY <1>1, <1>2, <1>4, StoredHolds DEF KeptFor, Kept, Exists
<1>. QED  BY <1>1, <1>2, <1>3, <1>4 DEF Exists

(* A journal cut after n messages. *)
LEMMA FixKeeps ==
    ASSUME FilesOK, NEW j, NEW n \in Nat, Exists(j), n <= Len(files[j]),
           files' = [files EXCEPT ![j] = SubSeq(@, 1, n)]
    PROVE  /\ FilesOK'
           /\ DOMAIN files' = DOMAIN files
           /\ Len(files'[j]) = n
           /\ \A k \in DOMAIN files : k # j => files'[k] = files[k]
           /\ \A st : /\ Stored(st)
                      /\ st.rj = j => st.rcount <= n
                      /\ st.wj = j => st.wcount <= n
                      => KeptFor(st)
<1>1. DOMAIN files' = DOMAIN files
  OBVIOUS
<1>2. \A k \in DOMAIN files : k # j => files'[k] = files[k]
  OBVIOUS
<1>3. files[j] \in Seq(Content)
  BY DEF FilesOK, Exists
<1>4. /\ files'[j] \in Seq(Content)
      /\ Len(files'[j]) = n
      /\ \A i \in 1..n : files'[j][i] = files[j][i]
  <2>1. files'[j] = SubSeq(files[j], 1, n)
    BY DEF Exists
  <2>2. \A i \in 1..n : files[j][i] \in Content
    BY <1>3
  <2>3. /\ SubSeq(files[j], 1, n) \in Seq(Content)
        /\ Len(SubSeq(files[j], 1, n)) = IF 1 <= n THEN n - 1 + 1 ELSE 0
        /\ \A i \in 1..(n - 1 + 1) : SubSeq(files[j], 1, n)[i] = files[j][1 + i - 1]
    BY <2>2, SubSeqProperties
  <2>. QED  BY <2>1, <2>3
<1>5. FilesOK'
  BY <1>1, <1>2, <1>4 DEF FilesOK, Content, Message, JournalId
<1>6. ASSUME NEW st, Stored(st), st.rj = j => st.rcount <= n, st.wj = j => st.wcount <= n
      PROVE  KeptFor(st)
  <2>1. st.rcount \in Nat /\ st.wcount \in Nat
    BY <1>6, StoredHolds
  <2>2. Kept(st.rj, st.rcount)
    BY <1>1, <1>2, <1>4, <1>6, <2>1, StoredHolds DEF Kept, Exists
  <2>3. Kept(st.wj, st.wcount)
    BY <1>1, <1>2, <1>4, <1>6, <2>1, StoredHolds DEF Kept, Exists
  <2>. QED  BY <2>2, <2>3 DEF KeptFor
<1>. QED  BY <1>1, <1>2, <1>4, <1>5, <1>6

(* Messages, or what is left of one, appended to a journal. *)
LEMMA PutKeeps ==
    ASSUME FilesOK, NEW j, NEW more \in Seq(Content), Exists(j),
           files' = [files EXCEPT ![j] = @ \o more]
    PROVE  /\ FilesOK'
           /\ DOMAIN files' = DOMAIN files
           /\ Len(files'[j]) = Len(files[j]) + Len(more)
           /\ \A i \in 1..Len(more) : files'[j][Len(files[j]) + i] = more[i]
           /\ \A k \in DOMAIN files : k # j => files'[k] = files[k]
           /\ \A st : Stored(st) => KeptFor(st)
<1>1. DOMAIN files' = DOMAIN files
  OBVIOUS
<1>2. \A k \in DOMAIN files : k # j => files'[k] = files[k]
  OBVIOUS
<1>3. files[j] \in Seq(Content) /\ Len(files[j]) \in Nat /\ Len(more) \in Nat
  BY DEF FilesOK, Exists
<1>4. files'[j] = files[j] \o more
  BY DEF Exists
<1>5. /\ files'[j] \in Seq(Content)
      /\ Len(files'[j]) = Len(files[j]) + Len(more)
      /\ \A i \in 1..(Len(files[j]) + Len(more)) :
           files'[j][i] = IF i <= Len(files[j]) THEN files[j][i] ELSE more[i - Len(files[j])]
  BY <1>3, <1>4, ConcatProperties
<1>6. \A i \in 1..Len(more) : files'[j][Len(files[j]) + i] = more[i]
  <2>1. SUFFICES ASSUME NEW i \in 1..Len(more)
                 PROVE  files'[j][Len(files[j]) + i] = more[i]
    OBVIOUS
  <2>2. PICK a \in Nat, b \in Nat : a = Len(files[j]) /\ b = Len(more)
    BY <1>3
  <2>3. a + i \in 1..(a + b) /\ ~(a + i <= a) /\ (a + i) - a = i
    BY <2>2
  <2>. QED  BY <1>5, <2>2, <2>3
<1>7. FilesOK'
  BY <1>1, <1>2, <1>5 DEF FilesOK, Content, Message, JournalId
<1>8. ASSUME NEW st, Stored(st)
      PROVE  KeptFor(st)
  <2>1. st.rcount \in Nat /\ st.wcount \in Nat
    BY <1>8, StoredHolds
  <2>2. Kept(st.rj, st.rcount)
    BY <1>1, <1>2, <1>3, <1>5, <1>8, <2>1, StoredHolds DEF Kept, Exists
  <2>3. Kept(st.wj, st.wcount)
    BY <1>1, <1>2, <1>3, <1>5, <1>8, <2>1, StoredHolds DEF Kept, Exists
  <2>. QED  BY <2>2, <2>3 DEF KeptFor
<1>. QED  BY <1>1, <1>2, <1>5, <1>6, <1>7, <1>8

-----------------------------------------------------------------------------
(* What one effect does to the disk as a whole *)

(* The sequences that a start finds before and after a step. *)
Allows == "lose" \notin Range(faults) => Allowed(Durable, Durable')

(* An effect on the journals that keeps what is recorded. *)
LEMMA FileEffect ==
    ASSUME DiskOK, Recoverable, dir' \in BOOLEAN, dir => dir', dir' \/ DOMAIN files' = {},
           UNCHANGED <<log, bak, faults>>, FilesOK',
           Rec # <<>> => KeptFor(Rec[1])
    PROVE  DiskOK' /\ Recoverable' /\ Durable' = Durable /\ Rec' = Rec /\ NoneLost /\ Allows
<1>1. LogOK(log)' /\ LogOK(bak)'
  BY DEF DiskOK, LogOK, States, JournalId
<1>2. DiskOK'
  BY <1>1 DEF DiskOK
<1>3. Rec' = Rec
  BY DEF Rec, StateFile
<1>4. NoneLost
  BY DEF NoneLost
<1>5. Recoverable' /\ Durable' = Durable
  BY <1>2, <1>3, <1>4, DurableKept
<1>. QED  BY <1>2, <1>3, <1>4, <1>5 DEF Allows, Allowed

(* An effect on the log and its backup. *)
LEMMA LogEffect ==
    ASSUME DiskOK, dir, UNCHANGED <<dir, files, faults>>, NEW l, NEW b, log' = l, bak' = b,
           LogOK(l), LogOK(b), b # NoLines => Recorded(b) # <<>>
    PROVE  DiskOK' /\ Rec' = Recorded(IF b # NoLines THEN b ELSE l) /\ NoneLost
<1>1. LogOK(log)' /\ LogOK(bak)'
  BY DEF LogOK, States, JournalId
<1>2. FilesOK'
  BY SameKeeps DEF DiskOK
<1>3. DiskOK'
  BY <1>1, <1>2 DEF DiskOK
<1>. QED  BY <1>3 DEF Rec, StateFile, NoneLost

(* Such an effect that does not change what is recorded. *)
LEMMA SameRecord ==
    ASSUME DiskOK, DiskOK', Recoverable, UNCHANGED <<files, faults>>, Rec' = Rec
    PROVE  Recoverable' /\ Durable' = Durable /\ Allows
<1>1. NoneLost
  BY DEF NoneLost
<1>2. Rec # <<>> => KeptFor(Rec[1])
  BY SameKeeps DEF Recoverable
<1>. QED  BY <1>1, <1>2, DurableKept DEF Allows, Allowed

(* Such an effect that records another state. *)
LEMMA NewRecord ==
    ASSUME DiskOK, DiskOK', UNCHANGED <<files, faults>>, NEW s, Stored(s), Rec' = <<s>>
    PROVE  Recoverable' /\ Stored(s)' /\ Durable' = Messages(s)
<1>1. NoneLost
  BY DEF NoneLost
<1>2. KeptFor(s)
  BY SameKeeps
<1>3. Stored(s)' /\ Messages(s)' = Messages(s)
  BY <1>1, <1>2, StoredKept, MessagesKept DEF DiskOK
<1>4. Rec'[1] = s /\ Rec' # <<>>
  OBVIOUS
<1>5. Stored(Rec[1])' = Stored(s)' /\ Messages(Rec[1])' = Messages(s)'
  BY <1>4
<1>. QED  BY <1>3, <1>4, <1>5, RecOfNext DEF Recoverable

(* An effect that records nothing. *)
LEMMA NoRecord ==
    ASSUME DiskOK', Rec' = <<>>
    PROVE  Recoverable' /\ Durable' = <<>>
    BY RecOfNext DEF Recoverable

(* A new state has no messages. *)
LEMMA NewState ==
    ASSUME FilesOK, NEW j \in JournalId
    PROVE  LET new == newMsgQueueState(j)
           IN  /\ new \in States /\ Stored(new) /\ Messages(new) = <<>>
               /\ new.rj = j /\ new.wj = j /\ new.rpos = 0 /\ new.rcount = 0 /\ new.wcount = 0
               /\ new.size = 0 /\ new.canWrite = TRUE
<1> DEFINE new == newMsgQueueState(j)
<1>1. /\ new.rj = j /\ new.wj = j /\ new.rpos = 0 /\ new.rcount = 0 /\ new.wcount = 0
      /\ new.size = 0 /\ new.canWrite = TRUE
  BY DEF newMsgQueueState
<1>2. new \in States
  BY DEF newMsgQueueState, States
<1> HIDE DEF new
<1>3. Holds(j, 0)
  BY DEF Holds, FilesOK, Exists
<1>4. validQueueState(new)
  BY <1>1 DEF validQueueState
<1>5. Stored(new)
  BY <1>1, <1>2, <1>3, <1>4 DEF Stored, Marked
<1>6. Messages(new) \in Seq(Message) /\ Len(Messages(new)) = 0
  <2>1. MessagesFit(new)
    BY <1>5, MessagesOf
  <2>2. InRead(new) = 0 /\ InWrite(new) = 0
    BY <1>1 DEF InRead, InWrite
  <2>. QED  BY <2>1, <2>2 DEF MessagesFit
<1>7. Messages(new) = <<>>
  BY <1>6, EmptySeq
<1>. QED  BY <1>1, <1>2, <1>5, <1>7 DEF new

(* A recorded state without messages. *)
LEMMA EmptyRecord ==
    ASSUME DiskOK, Recoverable, Rec # <<>>, Rec[1].size = 0
    PROVE  Durable = <<>>
<1>1. PICK r : r = Rec[1]
  OBVIOUS
<1>2. Stored(r) /\ r.size = 0 /\ Durable = Messages(r)
  BY <1>1, RecOf DEF Recoverable
<1>3. MessagesFit(r)
  BY <1>2, MessagesOf DEF DiskOK
<1>4. InRead(r) = 0 /\ InWrite(r) = 0
  BY <1>2, StoredHolds, ValidState DEF InRead, InWrite
<1>. QED  BY <1>2, <1>3, <1>4, EmptySeq DEF MessagesFit

-----------------------------------------------------------------------------
(* A step with a closed queue in memory *)

(* The parts of the invariant. *)
LEMMA ClosedNext ==
    ASSUME IInv, ~mem.open, UNCHANGED <<mem, qstate, job, lastId, faults, errors>>,
           DiskOK', Recoverable', Durable' = Durable \/ Durable' = <<>>, Phase'
    PROVE  IInv'
<1>1. Typed'
  BY TypedNext DEF IInv
<1>2. NoneLost
  BY DEF NoneLost
<1>3. Remembered'
  BY <1>2, RememberedKept DEF IInv
<1>. QED  BY <1>1, <1>3 DEF IInv

(* The opening goes on. *)
LEMMA StillOpening ==
    ASSUME ~mem.open, OpenedJob, UNCHANGED <<mem, job>>,
           (Opening \/ BackingUp \/ Restoring \/ Retiring \/ Replacing \/ Removing)'
    PROVE  Phase'
<1>1. OpenedJob'
  BY DEF OpenedJob
<1>. QED  BY <1>1 DEF Phase, OpenPhase

(* The queue is about to be assigned. *)
LEMMA AboutToOpen ==
    ASSUME OpenedJob, UNCHANGED job, NEW mq, mq.open, todo' = <<Assign(mq)>>,
           MemOK(mq)', ~Stranded(mq), Logged(mq.state)'
    PROVE  Phase'
<1>1. Assign(mq)' = Assign(mq)
  BY DEF Assign, qState
<1>2. todo' = <<Assign(mq)'>> \o <<>>
  <2>1. <<Assign(mq)>> \in Seq({Assign(mq)})
    OBVIOUS
  <2>. QED  BY <1>1, <2>1, JoinEmpty
<1>3. Quiet(mq)'
  BY DEF Quiet, Settled, Stranded
<1>4. ReadForm(mq, <<>>)'
  BY DEF ReadForm
<1>5. JobFits(mq)'
  BY DEF JobFits, OpenedJob
<1>6. LandingOn(mq, <<>>)'
  BY <1>2, <1>3, <1>4, <1>5 DEF LandingOn
<1>. QED  BY <1>6 DEF Phase, Landing

(* Opening, the journals fixed: what is recorded has the same counts. *)
LEMMA FixOpening ==
    ASSUME IInv, ~mem.open, OpenedJob, LogReady, NEW mq, FixOf(mq, todo), Step
    PROVE  IInv' /\ Allows
<1> DEFINE st == mq.state
<1>1. /\ mq = Opened(st, st.rj, IF st.rj = st.wj THEN 0 ELSE st.wj)
      /\ Sound(mq) /\ Rec # <<>> /\ Follows(st) /\ Logged(st)
  BY DEF FixOf
<1>2. /\ DiskOK /\ FilesOK /\ Recoverable /\ dir /\ Stored(st)
      /\ Exists(st.rj) /\ Exists(st.wj)
  BY <1>1 DEF IInv, Typed, DiskOK, LogReady, Sound, Handles
<1>3. PICK j, n : /\ todo # <<>>
                  /\ Head(todo) = FixFileSize(j, n)
                  /\ \/ j = st.rj /\ n = st.rcount
                     \/ j = st.wj /\ n = st.wcount
                  /\ \/ Tail(todo) = <<Assign(mq)>>
                     \/ Tail(todo) = <<FixFileSize(st.wj, st.wcount), Assign(mq)>>
  <2>1. CASE todo = <<FixFileSize(st.rj, st.rcount), Assign(mq)>>
    BY <2>1
  <2>2. CASE todo = <<FixFileSize(st.rj, st.rcount), FixFileSize(st.wj, st.wcount), Assign(mq)>>
    BY <2>2
  <2>3. CASE todo = <<FixFileSize(st.wj, st.wcount), Assign(mq)>>
    BY <2>3
  <2>. QED  BY <2>1, <2>2, <2>3 DEF FixOf
<1>4. /\ Exists(j) /\ n \in Nat /\ n <= Len(files[j])
      /\ st.rj = j => st.rcount <= n
      /\ st.wj = j => st.wcount <= n
  BY <1>2, <1>3, StoredHolds, ValidState
<1>5. DoFixFileSize
  <2>1. /\ FixFileSize(j, n).do = "fix" /\ FixFileSize(j, n).j = j /\ FixFileSize(j, n).pos = n
    BY EffectFields
  <2>2. ~(Len(files[j]) < n)
    <3>1. Len(files[j]) \in Nat
      BY <1>2, <1>4 DEF FilesOK, Exists
    <3>. QED  BY <1>4, <3>1
  <2>. QED  BY <1>3, <2>1, <2>2, EffectOf
<1>6. /\ files' = [files EXCEPT ![j] = SubSeq(@, 1, n)]
      /\ todo' = Tail(todo)
      /\ UNCHANGED <<dir, log, bak, mem, qstate, job, lastId, deleted, faults, errors>>
  <2>1. Head(todo).j = j /\ Head(todo).pos = n
    BY <1>3, EffectFields
  <2>. QED  BY <1>5, <2>1 DEF DoFixFileSize, Done
<1>7. /\ FilesOK' /\ DOMAIN files' = DOMAIN files
      /\ \A s : Stored(s) /\ (s.rj = j => s.rcount <= n) /\ (s.wj = j => s.wcount <= n)
                => KeptFor(s)
  BY <1>2, <1>4, <1>6, FixKeeps
<1>8. KeptFor(st)
  BY <1>2, <1>4, <1>7
<1>9. KeptFor(Rec[1])
  <2>1. PICK r : r = Rec[1]
    OBVIOUS
  <2>2. Stored(r)
    BY <1>1, <1>2, <2>1 DEF Recoverable
  <2>3. \/ r.rj = st.rj /\ r.wj = st.wj /\ r.rcount = st.rcount /\ r.wcount = st.wcount
        \/ ~Exists(r.rj) /\ r.wj = st.rj /\ r.wj = st.wj /\ r.wcount = st.rcount
        \/ ~Exists(r.wj) /\ r.rj = st.rj /\ r.rj = st.wj /\ r.rcount = st.rcount
    BY <1>1, <2>1 DEF Follows
  <2>4. (r.rj = j => r.rcount <= n) /\ (r.wj = j => r.wcount <= n)
    BY <1>4, <2>3
  <2>. QED  BY <1>7, <2>1, <2>2, <2>4
<1>10. DiskOK' /\ Recoverable' /\ Durable' = Durable /\ Rec' = Rec /\ NoneLost /\ Allows
  BY <1>2, <1>6, <1>7, <1>9, FileEffect
<1>11. ~Stranded(mq)
  BY <1>1 DEF Stranded, Opened
<1>12. Sound(mq)'
  BY <1>1, <1>8, <1>10, <1>11, SoundKept DEF StrandedKept
<1>13. Follows(st)' /\ Logged(st)'
  <2>1. Follows(st)' /\ From(st)' = From(st)
    BY <1>1, <1>2, <1>8, <1>9, <1>10, FollowsKept
  <2>. QED  BY <1>1, <2>1 DEF Logged
<1>14. LogReady'
  BY <1>6 DEF LogReady
<1>15. CASE Tail(todo) = <<Assign(mq)>>
  <2>1. MemOK(mq)'
    BY <1>12, <1>13, <1>14 DEF MemOK
  <2>2. mq.open
    BY <1>1 DEF Sound, Queues
  <2>3. Phase'
    BY <1>6, <1>11, <1>13, <1>15, <2>1, <2>2, AboutToOpen
  <2>. QED  BY <1>6, <1>10, <2>3, ClosedNext
<1>16. CASE Tail(todo) = <<FixFileSize(st.wj, st.wcount), Assign(mq)>>
  <2>1. Assign(mq)' = Assign(mq)
    BY <1>1 DEF Assign, qState, Sound, Queues
  <2>2. FixOf(mq, todo)'
    BY <1>1, <1>6, <1>10, <1>12, <1>13, <1>16, <2>1 DEF FixOf, Opened, FixFileSize
  <2>3. Opening'
    BY <1>14, <2>2 DEF Opening, OpenForm, FixForm
  <2>4. Phase'
    BY <1>6, <2>3, StillOpening
  <2>. QED  BY <1>6, <1>10, <2>4, ClosedNext
<1>. QED  BY <1>3, <1>10, <1>15, <1>16

(* A queue opened with a new state and its journal. *)
LEMMA OpenedNew ==
    \A j : j \in JournalId /\ FilesOK /\ Exists(j) => Sound(Opened(newMsgQueueState(j), j, 0))
<1> SUFFICES ASSUME NEW j \in JournalId, FilesOK, Exists(j)
             PROVE  Sound(Opened(newMsgQueueState(j), j, 0))
  OBVIOUS
<1> DEFINE new == newMsgQueueState(j)
           mq == Opened(new, j, 0)
<1>1. /\ new \in States /\ Stored(new) /\ new.rj = j /\ new.wj = j
  BY NewState
<1> HIDE DEF new
<1>2. /\ mq.state = new /\ mq.readHandle = j /\ mq.writeHandle = 0 /\ mq.tip = <<>>
  BY DEF Opened
<1>3. mq \in Queues
  BY <1>1 DEF Opened, Queues, JournalId
<1> HIDE DEF mq
<1>4. Handles(mq)
  BY <1>1, <1>2 DEF Handles, Stranded
<1>5. TipOK(mq)
  BY <1>2 DEF TipOK
<1>6. Sound(mq)
  BY <1>1, <1>2, <1>3, <1>4, <1>5 DEF Sound
<1>. QED  BY <1>6 DEF mq, new

(* The same, of the next state. *)
LEMMA OpenedNewNext ==
    ASSUME NEW i \in JournalId, FilesOK', Exists(i)'
    PROVE  Sound(Opened(newMsgQueueState(i), i, 0))'
<1>1. (\A j : j \in JournalId /\ FilesOK /\ Exists(j) => Sound(Opened(newMsgQueueState(j), j, 0)))'
  BY OpenedNew, PTL
<1>. QED  BY <1>1 DEF JournalId

(* A new state, of this state and of the next. *)
LEMMA NewStates ==
    \A j : j \in JournalId /\ FilesOK =>
             Stored(newMsgQueueState(j)) /\ Messages(newMsgQueueState(j)) = <<>>
    BY NewState

(* The same, of the next state. *)
LEMMA NewStateNext ==
    ASSUME NEW i \in JournalId, FilesOK'
    PROVE  Stored(newMsgQueueState(i))' /\ Messages(newMsgQueueState(i))' = <<>>
<1>1. (\A j : j \in JournalId /\ FilesOK =>
               Stored(newMsgQueueState(j)) /\ Messages(newMsgQueueState(j)) = <<>>)'
  BY NewStates, PTL
<1>. QED  BY <1>1 DEF JournalId

(* The parts of a queue opened with a new state. *)
LEMMA OpenedFields ==
    ASSUME NEW j, NEW h
    PROVE  LET mq == Opened(newMsgQueueState(j), h, 0)
           IN  /\ mq.open = TRUE /\ mq.state = newMsgQueueState(j) /\ mq.readHandle = h
               /\ mq.writeHandle = 0 /\ mq.tip = <<>>
               /\ mq.state.rj = j /\ mq.state.wj = j
               /\ ~Stranded(mq)
               /\ Assign(mq)' = Assign(mq)
<1>1. Opened(newMsgQueueState(j), h, 0).open = TRUE
  BY DEF Opened
<1>. QED  BY <1>1 DEF Opened, newMsgQueueState, Stranded, Assign, qState

(* What is in memory of an opened queue is open, and stored. *)
LEMMA OpenOfMem ==
    ASSUME NEW mq, MemOK(mq)
    PROVE  mq.open
<1>1. ASSUME Unwritten(mq)
      PROVE  mq.open = TRUE
  <2>1. PICK j : mq = Opened(newMsgQueueState(j), 0, 0)
    BY <1>1 DEF Unwritten
  <2>. QED  BY <2>1, OpenedFields
<1>2. ASSUME Sound(mq)
      PROVE  mq.open = TRUE
  BY <1>2, QueueFields DEF Sound
<1>. QED  BY <1>1, <1>2 DEF MemOK

(* Opening without journals: a new one is created. *)
LEMMA RecreateOpening ==
    ASSUME IInv, ~mem.open, OpenedJob, LogReady, NEW j, RecreateOf(j, todo), Step
    PROVE  IInv' /\ Allows
<1> DEFINE new == newMsgQueueState(j)
           mq == Opened(new, j, 0)
<1>1. /\ todo = <<CreateJournal(j), AppendState(new), Assign(mq)>>
      /\ j \in JournalId /\ ~Exists(j) /\ Rec # <<>>
      /\ ~Exists(Rec[1].rj) /\ Rec[1].rj # j
      /\ ~Exists(Rec[1].wj) /\ Rec[1].wj # j
  BY DEF RecreateOf
<1>2. DiskOK /\ FilesOK /\ Recoverable /\ dir
  BY DEF IInv, Typed, DiskOK, LogReady
<1>3. /\ todo # <<>> /\ Head(todo) = CreateJournal(j)
      /\ Tail(todo) = <<AppendState(new), Assign(mq)>>
  BY <1>1
<1>4. DoCreate
  BY <1>3, EffectOf, EffectFields
<1>5. /\ files' = [k \in DOMAIN files \cup {j} |-> IF Exists(k) THEN files[k] ELSE <<>>]
      /\ todo' = <<AppendState(new), Assign(mq)>>
      /\ UNCHANGED <<dir, log, bak, mem, qstate, job, lastId, deleted, faults, errors>>
  <2>1. Head(todo).j = j
    BY <1>3, EffectFields
  <2>. QED  BY <1>3, <1>4, <2>1 DEF DoCreate, Done
<1>6. /\ FilesOK' /\ Exists(j)'
      /\ \A st : Stored(st) /\ (Exists(j) \/ (st.rj # j /\ st.wj # j)) => KeptFor(st)
  BY <1>1, <1>2, <1>5, CreateKeeps
<1>7. KeptFor(Rec[1])
  BY <1>1, <1>2, <1>6 DEF Recoverable
<1>8. DiskOK' /\ Recoverable' /\ Durable' = Durable /\ Rec' = Rec /\ NoneLost /\ Allows
  BY <1>2, <1>5, <1>6, <1>7, FileEffect
<1>9. Durable = <<>>
  <2>1. PICK r : r = Rec[1]
    OBVIOUS
  <2>2. Durable = Messages(r) /\ Stored(r) /\ ~Exists(r.rj) /\ ~Exists(r.wj)
    BY <1>1, <1>2, <2>1, RecOf DEF Recoverable
  <2>3. MessagesFit(r)
    BY <1>2, <2>2, MessagesOf
  <2>4. InRead(r) = 0 /\ InWrite(r) = 0
    BY <2>2 DEF InRead, InWrite
  <2>. QED  BY <2>2, <2>3, <2>4, EmptySeq DEF MessagesFit
<1>10. Sound(mq)' /\ Messages(new)' = <<>>
  BY <1>1, <1>6, OpenedNewNext, NewStateNext
<1>11. /\ mq.open = TRUE /\ mq.state = new /\ ~Stranded(mq) /\ Assign(mq)' = Assign(mq)
       /\ mq.tip = <<>>
  BY OpenedFields
<1> HIDE DEF mq, new
<1>12. CommittingTo(mq, <<>>)'
  <2>1. todo' = <<AppendState(mq.state), Assign(mq)'>> \o <<>>
    <3>1. <<AppendState(new), Assign(mq)>> \in Seq({AppendState(new), Assign(mq)})
      OBVIOUS
    <3>. QED  BY <1>5, <1>11, <3>1, JoinEmpty
  <2>2. AppendState(mq.state)' = AppendState(mq.state)
    BY DEF AppendState
  <2>3. LogReady'
    BY <1>5 DEF LogReady
  <2>4. Settled(mq)' /\ ReadForm(mq, <<>>)' /\ JobFits(mq)'
    BY <1>5, <1>11 DEF Settled, Stranded, ReadForm, JobFits, OpenedJob
  <2>5. Allowed(Durable', Messages(mq.state)')
    BY <1>8, <1>9, <1>10, <1>11 DEF Allowed
  <2>6. Allowed(Durable, Messages(mq.state))'
    BY <2>5 DEF Allowed, Message
  <2>7. (Messages(mq.state) = <<>>)'
    BY <1>10, <1>11
  <2>. QED  BY <1>10, <1>11, <2>1, <2>2, <2>3, <2>4, <2>6, <2>7 DEF CommittingTo
<1>13. Phase'
  BY <1>12 DEF Phase, Committing
<1>. QED  BY <1>5, <1>8, <1>13, ClosedNext

(* Opening for a write an empty queue: the new state is logged. *)
LEMMA ReplaceOpening ==
    ASSUME IInv, ~mem.open, OpenedJob, LogReady, NEW j, NEW a, ReplaceOf(j, a, todo), Step
    PROVE  IInv' /\ Allows
<1> DEFINE new == newMsgQueueState(j)
           mq == Opened(new, j, 0)
<1>1. /\ todo = <<AppendState(new), CreateJournal(j), RemoveJournal(a), Assign(mq)>>
      /\ j \in JournalId /\ ~Exists(j) /\ a # j
      /\ Rec # <<>> /\ Rec[1].size = 0
  BY DEF ReplaceOf
<1>2. DiskOK /\ FilesOK /\ Recoverable /\ dir /\ LogOK(log) /\ log.newline /\ bak = NoLines
  BY DEF IInv, Typed, DiskOK, LogReady
<1>3. new \in States /\ Stored(new) /\ Messages(new) = <<>>
  BY <1>1, <1>2, NewState
<1>4. Durable = <<>>
  BY <1>1, <1>2, EmptyRecord
<1>5. Assign(mq)' = Assign(mq)
  BY OpenedFields
<1> HIDE DEF new, mq
<1>6. /\ todo # <<>> /\ Head(todo) = AppendState(new)
      /\ Tail(todo) = <<CreateJournal(j), RemoveJournal(a), Assign(mq)>>
  BY <1>1
<1>7. DoAppendState /\ Head(todo).st = new
  BY <1>6, EffectOf, EffectFields
<1>8. /\ log' = AddLine(log, <<new>>)
      /\ todo' = <<CreateJournal(j), RemoveJournal(a), Assign(mq)>>
      /\ UNCHANGED <<dir, files, bak, mem, qstate, job, lastId, deleted, faults, errors>>
  BY <1>6, <1>7 DEF DoAppendState, Done
<1>9. PICK l : l = AddLine(log, <<new>>)
  OBVIOUS
<1>10. LogOK(l) /\ l.newline /\ Recorded(l) = <<new>>
  BY <1>2, <1>3, <1>9, LineIsRecorded
<1>11. DiskOK' /\ Rec' = <<new>>
  <2>1. LogOK(bak) /\ bak' = NoLines
    BY <1>2, <1>8 DEF DiskOK
  <2>2. LogOK(NoLines)
    BY DEF LogOK
  <2>. QED  BY <1>2, <1>8, <1>9, <1>10, <2>1, <2>2, LogEffect
<1>12. Recoverable' /\ Durable' = <<>>
  BY <1>2, <1>3, <1>8, <1>11, NewRecord
<1>13. LogReady'
  BY <1>2, <1>8, <1>9, <1>10 DEF LogReady
<1>14. ReplacingBy(j, a)'
  <2>1. ~Exists(j)'
    BY <1>1, <1>8 DEF Exists
  <2>2. /\ CreateJournal(j)' = CreateJournal(j) /\ RemoveJournal(a)' = RemoveJournal(a)
        /\ newMsgQueueState(j)' = newMsgQueueState(j)
        /\ Opened(newMsgQueueState(j), j, 0)' = Opened(newMsgQueueState(j), j, 0)
    BY DEF CreateJournal, RemoveJournal, newMsgQueueState, Opened
  <2>. QED  BY <1>1, <1>5, <1>8, <1>11, <1>13, <2>1, <2>2 DEF ReplacingBy, new, mq, JournalId
<1>15. Phase'
  BY <1>8, <1>14, StillOpening DEF Replacing
<1>16. Allows
  BY <1>4, <1>12 DEF Allows, Allowed
<1>. QED  BY <1>8, <1>11, <1>12, <1>15, <1>16, ClosedNext

(* The journal of the new state is created. *)
LEMMA ReplacingStep ==
    ASSUME IInv, ~mem.open, OpenedJob, NEW j, NEW a, ReplacingBy(j, a), Step
    PROVE  IInv' /\ Allows
<1> DEFINE new == newMsgQueueState(j)
           mq == Opened(new, j, 0)
<1>1. /\ todo = <<CreateJournal(j), RemoveJournal(a), Assign(mq)>>
      /\ j \in JournalId /\ ~Exists(j) /\ a # j
      /\ Rec = <<new>> /\ LogReady
  BY DEF ReplacingBy
<1>2. DiskOK /\ FilesOK /\ Recoverable /\ dir
  BY <1>1 DEF IInv, Typed, DiskOK, LogReady
<1>3. /\ todo # <<>> /\ Head(todo) = CreateJournal(j)
      /\ Tail(todo) = <<RemoveJournal(a), Assign(mq)>>
  BY <1>1
<1>4. DoCreate /\ Head(todo).j = j
  BY <1>3, EffectOf, EffectFields
<1>5. /\ files' = [k \in DOMAIN files \cup {j} |-> IF Exists(k) THEN files[k] ELSE <<>>]
      /\ todo' = <<RemoveJournal(a), Assign(mq)>>
      /\ UNCHANGED <<dir, log, bak, mem, qstate, job, lastId, deleted, faults, errors>>
  BY <1>3, <1>4 DEF DoCreate, Done
<1>6. FilesOK' /\ Exists(j)'
  BY <1>1, <1>2, <1>5, CreateKeeps
<1>7. Sound(mq)' /\ Stored(new)' /\ Messages(new)' = <<>>
  BY <1>1, <1>6, OpenedNewNext, NewStateNext
<1>8. /\ mq.open = TRUE /\ mq.state = new /\ ~Stranded(mq) /\ Assign(mq)' = Assign(mq)
      /\ mq.tip = <<>> /\ mq.writeHandle = 0 /\ new.rj = j /\ new.rpos = 0
      /\ new = newMsgQueueState(new.rj)
  <2>1. new.rj = j /\ new.rpos = 0
    BY DEF newMsgQueueState
  <2>2. /\ mq.open = TRUE /\ mq.state = new /\ ~Stranded(mq) /\ Assign(mq)' = Assign(mq)
        /\ mq.tip = <<>> /\ mq.writeHandle = 0
    BY OpenedFields, ZenonT(30)
  <2> HIDE DEF mq
  <2>3. new = newMsgQueueState(new.rj)
    BY <2>1
  <2>. QED  BY <2>1, <2>2, <2>3
<1>9. Durable = <<>>
  <2>1. Rec[1] = new /\ Rec # <<>>
    BY <1>1
  <2>2. Messages(new) = <<>>
    BY <1>1, <1>2, NewState
  <2>. QED  BY <1>2, <2>1, <2>2, RecOf
<1> HIDE DEF mq, new
<1>10. Rec' = Rec /\ DiskOK'
  <2>1. LogOK(log)' /\ LogOK(bak)'
    BY <1>2, <1>5 DEF DiskOK, LogOK, States, JournalId
  <2>2. DiskOK'
    BY <1>2, <1>5, <1>6, <2>1 DEF DiskOK
  <2>. QED  BY <1>5, <2>2 DEF Rec, StateFile
<1>11. Recoverable' /\ Durable' = <<>>
  <2>1. Rec'[1] = new /\ Rec' # <<>>
    BY <1>1, <1>10
  <2>2. Stored(Rec[1])' = Stored(new)' /\ Messages(Rec[1])' = Messages(new)'
    BY <2>1
  <2>. QED  BY <1>7, <1>10, <2>1, <2>2, RecOfNext DEF Recoverable
<1>12. MemOK(mq)'
  <2>1. From(new)' = 0
    BY <1>1, <1>8, <1>10 DEF From
  <2>2. Follows(new)'
    <3>1. Rec' # <<>> /\ Rec'[1] = new /\ Rec[1]' = new
      BY <1>1, <1>10
    <3>2. \A i \in (0 + 1)..0 : FALSE
      OBVIOUS
    <3>. QED  BY <1>8, <2>1, <3>1, <3>2 DEF Follows
  <2>3. LogReady'
    BY <1>1, <1>5 DEF LogReady
  <2>. QED  BY <1>7, <1>8, <2>2, <2>3 DEF MemOK
<1>13. RemovingTo(mq, a)'
  <2>1. RemoveJournal(a)' = RemoveJournal(a) /\ newMsgQueueState(mq.state.rj)' = newMsgQueueState(mq.state.rj)
    BY DEF RemoveJournal, newMsgQueueState
  <2>. QED  BY <1>1, <1>5, <1>8, <1>10, <1>12, <2>1 DEF RemovingTo
<1>14. Phase'
  BY <1>5, <1>13, StillOpening DEF Removing
<1>15. Allows
  BY <1>9, <1>11 DEF Allows, Allowed
<1>. QED  BY <1>5, <1>10, <1>11, <1>14, <1>15, ClosedNext

(* A queue that has no files, or whose new state is recorded. *)
LEMMA RemovingStep ==
    ASSUME IInv, ~mem.open, OpenedJob, NEW mq, NEW a, RemovingTo(mq, a), Step
    PROVE  IInv' /\ Allows
<1> DEFINE new == mq.state
<1>1. /\ todo = <<RemoveJournal(a), Assign(mq)>>
      /\ MemOK(mq)
      /\ new = newMsgQueueState(new.rj)
      /\ mq.writeHandle = 0 /\ mq.tip = <<>> /\ a # new.rj
      /\ Rec = <<>> \/ Rec = <<new>>
  BY DEF RemovingTo
<1>2. /\ DiskOK /\ FilesOK /\ Recoverable /\ dir \in BOOLEAN
  BY DEF IInv, Typed, DiskOK
<1>3. /\ todo # <<>> /\ Head(todo) = RemoveJournal(a)
      /\ Tail(todo) = <<Assign(mq)>>
  BY <1>1
<1>4. DoRemove /\ Head(todo).j = a
  BY <1>3, EffectOf, EffectFields
<1>5. /\ files' = [k \in DOMAIN files \ {a} |-> files[k]]
      /\ todo' = <<Assign(mq)>>
      /\ UNCHANGED <<dir, log, bak, mem, qstate, job, lastId, deleted, faults, errors>>
  BY <1>3, <1>4 DEF DoRemove, Done
<1>6. /\ FilesOK'
      /\ \A k : k # a => (Exists(k)' <=> Exists(k))
      /\ \A k \in DOMAIN files : k # a => files'[k] = files[k]
      /\ \A st : Stored(st) /\ (~Exists(a) \/ (st.rj # a /\ st.wj # a)) => KeptFor(st)
  BY <1>2, <1>5, RemoveKeeps
<1>7. new.rj # a /\ new.wj # a
  BY <1>1 DEF newMsgQueueState
<1>8. Rec # <<>> => KeptFor(Rec[1])
  <2>1. Rec # <<>> => Rec[1] = new
    BY <1>1
  <2>. QED  BY <1>2, <1>6, <1>7, <2>1 DEF Recoverable
<1> HIDE DEF new
<1>9. DiskOK' /\ Recoverable' /\ Durable' = Durable /\ Rec' = Rec /\ NoneLost /\ Allows
  <2>1. dir' \/ DOMAIN files' = {}
    BY <1>2, <1>5 DEF DiskOK
  <2>. QED  BY <1>2, <1>5, <1>6, <1>8, <2>1, FileEffect
<1>10. ~Stranded(mq)
  BY <1>1 DEF Stranded
<1>11. MemOK(mq)' /\ (Logged(mq.state)' <=> Logged(mq.state))
  <2>1. Sound(mq) => KeptFor(mq.state) /\ StrandedKept(mq)
    BY <1>6, <1>7, <1>10 DEF Sound, StrandedKept, new
  <2>2. Unwritten(mq) => (Exists(mq.state.rj)' => files'[mq.state.rj] = <<>>)
    BY <1>6, <1>7 DEF Unwritten, new, Exists
  <2>. QED  BY <1>1, <1>2, <1>5, <1>8, <1>9, <2>1, <2>2, MemKept
<1>12. Logged(mq.state)
  <2>1. new.rpos = 0 /\ (Rec # <<>> => Rec[1] = new)
    BY <1>1 DEF newMsgQueueState
  <2>. QED  BY <2>1 DEF Logged, From, new
<1>13. mq.open
  BY <1>1, OpenOfMem
<1>14. Phase'
  BY <1>5, <1>10, <1>11, <1>12, <1>13, AboutToOpen
<1>. QED  BY <1>5, <1>9, <1>14, ClosedNext

-----------------------------------------------------------------------------
(* The forms of what is left of an opening *)

(* They are lists. *)
LEMMA FormSeq ==
    ASSUME NEW k, OpenForm(k) \/ RetireForm(k)
    PROVE  \E S : k \in Seq(S)
<1>1. ASSUME FixForm(k)
      PROVE  \E S : k \in Seq(S)
  <2>1. PICK mq : FixOf(mq, k)
    BY <1>1 DEF FixForm
  <2>2. PICK a, b, c : k = <<a, b, c>> \/ k = <<a, b>>
    BY <2>1 DEF FixOf
  <2>3. <<a, b, c>> \in Seq({a, b, c}) /\ <<a, b>> \in Seq({a, b, c})
    OBVIOUS
  <2>4. k \in Seq({a, b, c})
    BY <2>2, <2>3
  <2>. QED  BY <2>4
<1>2. ASSUME RecreateForm(k)
      PROVE  \E S : k \in Seq(S)
  <2>1. PICK j : RecreateOf(j, k)
    BY <1>2 DEF RecreateForm
  <2>2. PICK a, b, c : k = <<a, b, c>>
    BY <2>1 DEF RecreateOf
  <2>3. k \in Seq({a, b, c})
    BY <2>2
  <2>. QED  BY <2>3
<1>3. ASSUME ReplaceForm(k)
      PROVE  \E S : k \in Seq(S)
  <2>1. PICK j, i : ReplaceOf(j, i, k)
    BY <1>3 DEF ReplaceForm
  <2>2. PICK a, b, c, d : k = <<a, b, c, d>>
    BY <2>1 DEF ReplaceOf
  <2>3. k \in Seq({a, b, c, d})
    BY <2>2
  <2>. QED  BY <2>3
<1>4. ASSUME RetireForm(k)
      PROVE  \E S : k \in Seq(S)
  <2>1. PICK j, i : RetireOf(j, i, k)
    BY <1>4 DEF RetireForm
  <2>2. PICK a, b, c : k = <<a, b, c>>
    BY <2>1 DEF RetireOf
  <2>3. k \in Seq({a, b, c})
    BY <2>2
  <2>. QED  BY <2>3
<1>. QED  BY <1>1, <1>2, <1>3, <1>4 DEF OpenForm

(* They stay possible as long as what is recorded is the same. *)
LEMMA FormsKept ==
    ASSUME Recoverable, UNCHANGED <<files, faults, qstate>>, Rec' = Rec, NEW k
    PROVE  /\ FixForm(k) => FixForm(k)'
           /\ RecreateForm(k) => RecreateForm(k)'
           /\ RetireForm(k) => RetireForm(k)'
<1>1. ASSUME FixForm(k)
      PROVE  FixForm(k)'
  <2>1. PICK mq : FixOf(mq, k)
    BY <1>1 DEF FixForm
  <2> DEFINE st == mq.state
  <2>2. /\ mq = Opened(st, st.rj, IF st.rj = st.wj THEN 0 ELSE st.wj)
        /\ Sound(mq) /\ Rec # <<>> /\ Follows(st) /\ Logged(st)
    BY <2>1 DEF FixOf
  <2>3. Stored(st) /\ Exists(st.rj) /\ KeptFor(st) /\ NoneLost /\ KeptFor(Rec[1])
    BY <2>2, SameKeeps DEF Sound, Handles, NoneLost, Recoverable
  <2>4. ~Stranded(mq)
    BY <2>2 DEF Stranded, Opened
  <2>5. Sound(mq)'
    BY <2>2, <2>3, <2>4, SoundKept DEF StrandedKept
  <2>6. Follows(st)' /\ Logged(st)'
    <3>1. Follows(st)' /\ From(st)' = From(st)
      BY <2>2, <2>3, FollowsKept
    <3>. QED  BY <2>2, <3>1 DEF Logged
  <2>7. Assign(mq)' = Assign(mq)
    BY DEF Assign, qState
  <2>8. FixOf(mq, k)'
    BY <2>1, <2>2, <2>5, <2>6, <2>7 DEF FixOf, Opened, FixFileSize
  <2>. QED  BY <2>8 DEF FixForm
<1>2. ASSUME RecreateForm(k)
      PROVE  RecreateForm(k)'
  <2>1. PICK j : RecreateOf(j, k)
    BY <1>2 DEF RecreateForm
  <2>2. RecreateOf(j, k)'
    BY <2>1 DEF RecreateOf, JournalId, Exists, CreateJournal, AppendState, Assign, Opened,
                newMsgQueueState, qState
  <2>. QED  BY <2>2 DEF RecreateForm
<1>3. ASSUME RetireForm(k)
      PROVE  RetireForm(k)'
  <2>1. PICK j, a : RetireOf(j, a, k)
    BY <1>3 DEF RetireForm
  <2>2. RetireOf(j, a, k)'
    BY <2>1 DEF RetireOf, JournalId, Exists, RetireLog, RemoveJournal, Assign, Opened,
                newMsgQueueState, qState
  <2>. QED  BY <2>2 DEF RetireForm
<1>. QED  BY <1>1, <1>2, <1>3

(* An empty state may be replaced as long as an empty one is recorded. *)
LEMMA ReplaceKept ==
    ASSUME UNCHANGED <<files, qstate>>, Rec' # <<>>, Rec'[1].size = 0,
           NEW j, NEW a, NEW k, ReplaceOf(j, a, k)
    PROVE  ReplaceOf(j, a, k)'
    BY DEF ReplaceOf, JournalId, Exists, CreateJournal, RemoveJournal, AppendState, Assign, Opened,
           newMsgQueueState, qState

(* The same of the state that is logged for the backup. *)
LEMMA BackedByKept ==
    ASSUME Recoverable, UNCHANGED <<files, faults, qstate>>, Rec' = Rec,
           NEW k, NEW s, BackedBy(k, s)
    PROVE  BackedBy(k, s)'
<1>1. CASE Rec = <<s>> /\ (FixForm(k) \/ RecreateForm(k))
  BY <1>1, FormsKept DEF BackedBy
<1>2. CASE \E j, a : ReplaceOf(j, a, k) /\ s = newMsgQueueState(j)
  <2>1. PICK j, a : ReplaceOf(j, a, k) /\ s = newMsgQueueState(j)
    BY <1>2
  <2>2. ReplaceOf(j, a, k)'
    BY <2>1, ReplaceKept DEF ReplaceOf
  <2>3. s = newMsgQueueState(j)'
    BY <2>1 DEF newMsgQueueState
  <2>. QED  BY <2>2, <2>3 DEF BackedBy
<1>. QED  BY <1>1, <1>2 DEF BackedBy

(* Once that state is recorded, what is left of the opening is possible. *)
LEMMA BackedByOpens ==
    ASSUME Recoverable, UNCHANGED <<files, faults, qstate>>,
           NEW k, NEW s, BackedBy(k, s), Rec' = <<s>>
    PROVE  OpenForm(k)'
<1>1. CASE Rec = <<s>> /\ (FixForm(k) \/ RecreateForm(k))
  BY <1>1, FormsKept DEF OpenForm
<1>2. CASE \E j, a : ReplaceOf(j, a, k) /\ s = newMsgQueueState(j)
  <2>1. PICK j, a : ReplaceOf(j, a, k) /\ s = newMsgQueueState(j)
    BY <1>2
  <2>2. Rec' # <<>> /\ Rec'[1].size = 0
    BY <2>1 DEF newMsgQueueState
  <2>3. ReplaceOf(j, a, k)'
    BY <2>1, <2>2, ReplaceKept
  <2>. QED  BY <2>3 DEF OpenForm, ReplaceForm
<1>. QED  BY <1>1, <1>2 DEF BackedBy

(* That state has what the next start of the server finds. *)
LEMMA BackedByState ==
    ASSUME DiskOK, Recoverable, NEW k, NEW s, BackedBy(k, s)
    PROVE  s \in States /\ Stored(s) /\ Messages(s) = Durable /\ OpenForm(k)
<1>1. CASE Rec = <<s>> /\ (FixForm(k) \/ RecreateForm(k))
  <2>1. Rec # <<>> /\ Rec[1] = s
    BY <1>1
  <2>. QED  BY <1>1, <2>1, RecOf DEF Recoverable, OpenForm
<1>2. CASE \E j, a : ReplaceOf(j, a, k) /\ s = newMsgQueueState(j)
  <2>1. PICK j, a : ReplaceOf(j, a, k) /\ s = newMsgQueueState(j)
    BY <1>2
  <2>2. j \in JournalId /\ Rec # <<>> /\ Rec[1].size = 0
    BY <2>1 DEF ReplaceOf
  <2>3. Durable = <<>>
    BY <2>2, EmptyRecord
  <2>. QED  BY <2>1, <2>2, <2>3, NewState DEF DiskOK, OpenForm, ReplaceForm
<1>. QED  BY <1>1, <1>2 DEF BackedBy

(* Opening, the backup is made: at every step either file has the state. *)
LEMMA BackingUpStep ==
    ASSUME IInv, ~mem.open, OpenedJob, NEW k, NEW s, BackingUpOf(k, s), Step
    PROVE  IInv' /\ Allows
<1>1. /\ DiskOK /\ FilesOK /\ Recoverable /\ dir
      /\ LogOK(log) /\ LogOK(bak) /\ LogOK(NoLines)
      /\ BackedBy(k, s)
  BY DEF IInv, Typed, DiskOK, BackingUpOf, LogOK
<1>2. s \in States /\ Stored(s) /\ Messages(s) = Durable /\ OpenForm(k)
  BY <1>1, BackedByState
<1>3. PICK S : k \in Seq(S)
  BY <1>2, FormSeq
<1>4. /\ AppendState(s)' = AppendState(s) /\ TimedBackup' = TimedBackup
  BY DEF AppendState, TimedBackup
<1>5. CASE todo = <<TempBackup, AppendState(s), TimedBackup>> \o k /\ bak = NoLines
  <2>1. /\ todo # <<>> /\ Head(todo) = TempBackup
        /\ Tail(todo) = <<AppendState(s), TimedBackup>> \o k
    BY <1>3, <1>5, ConsThree
  <2>2. DoRename /\ Head(todo).do = "temp"
    BY <2>1, EffectOf, EffectFields
  <2>3. /\ bak' = log /\ log' = NoLines
        /\ todo' = <<AppendState(s), TimedBackup>> \o k
        /\ UNCHANGED <<dir, files, mem, qstate, job, lastId, deleted, faults, errors>>
    BY <2>1, <2>2 DEF DoRename, Done, Doing
  <2>4. log # NoLines /\ Recorded(log) # <<>>
    <3>1. Rec # <<>>
      BY <1>1 DEF BackedBy, FixForm, FixOf, RecreateForm, RecreateOf, ReplaceOf
    <3>. QED  BY <1>1, <1>5, <3>1, RecordedIsState DEF Rec, StateFile
  <2>5. DiskOK' /\ Rec' = Rec
    <3>1. DiskOK' /\ Rec' = Recorded(IF log # NoLines THEN log ELSE NoLines)
      BY <1>1, <2>3, <2>4, LogEffect
    <3>. QED  BY <1>5, <2>4, <3>1 DEF Rec, StateFile
  <2>6. Recoverable' /\ Durable' = Durable /\ Allows
    BY <1>1, <2>3, <2>5, SameRecord
  <2>7. BackedBy(k, s)'
    BY <1>1, <2>3, <2>5, BackedByKept
  <2>8. BackingUpOf(k, s)'
    BY <1>1, <1>4, <2>3, <2>4, <2>7 DEF BackingUpOf, NoLines
  <2>9. Phase'
    BY <2>3, <2>8, StillOpening DEF BackingUp
  <2>. QED  BY <2>3, <2>5, <2>6, <2>9, ClosedNext
<1>6. CASE todo = <<AppendState(s), TimedBackup>> \o k /\ bak # NoLines /\ log = NoLines
  <2>1. /\ todo # <<>> /\ Head(todo) = AppendState(s)
        /\ Tail(todo) = <<TimedBackup>> \o k
    BY <1>3, <1>6, ConsTwo
  <2>2. DoAppendState /\ Head(todo).st = s
    BY <2>1, EffectOf, EffectFields
  <2>3. /\ log' = AddLine(log, <<s>>)
        /\ todo' = <<TimedBackup>> \o k
        /\ UNCHANGED <<dir, files, bak, mem, qstate, job, lastId, deleted, faults, errors>>
    BY <2>1, <2>2 DEF DoAppendState, Done
  <2>4. log' = LogOf(<<<<s>>>>, TRUE)
    <3>1. NoLines.newline
      BY DEF NoLines
    <3>. QED  BY <1>1, <1>6, <2>3, <3>1, AddedLine
  <2>5. LogOK(LogOf(<<<<s>>>>, TRUE))
    BY <1>2 DEF LogOK
  <2>6. DiskOK' /\ Rec' = Rec
    <3>1. Recorded(bak) # <<>>
      BY <1>1, <1>6 DEF DiskOK
    <3>2. PICK b, l : b = bak /\ l = LogOf(<<<<s>>>>, TRUE)
      OBVIOUS
    <3>3. bak' = b /\ log' = l /\ LogOK(b) /\ LogOK(l) /\ b # NoLines /\ Recorded(b) # <<>>
      BY <1>1, <1>6, <2>3, <2>4, <2>5, <3>1, <3>2
    <3>4. DiskOK' /\ Rec' = Recorded(b)
      BY <1>1, <2>3, <3>3, LogEffect
    <3>. QED  BY <1>6, <3>2, <3>4 DEF Rec, StateFile
  <2>7. Recoverable' /\ Durable' = Durable /\ Allows
    BY <1>1, <2>3, <2>6, SameRecord
  <2>8. BackedBy(k, s)'
    BY <1>1, <2>3, <2>6, BackedByKept
  <2>9. BackingUpOf(k, s)'
    BY <1>1, <1>4, <1>6, <2>3, <2>4, <2>8 DEF BackingUpOf, NoLines, LogOf
  <2>10. Phase'
    BY <2>3, <2>9, StillOpening DEF BackingUp
  <2>. QED  BY <2>3, <2>6, <2>7, <2>10, ClosedNext
<1>7. CASE todo = <<TimedBackup>> \o k /\ bak # NoLines /\ log = LogOf(<<<<s>>>>, TRUE)
  <2>1. todo # <<>> /\ Head(todo) = TimedBackup /\ Tail(todo) = k
    BY <1>3, <1>7, ConsOne
  <2>2. DoRename /\ Head(todo).do = "timed"
    BY <2>1, EffectOf, EffectFields
  <2>3. /\ bak' = NoLines /\ log' = log
        /\ todo' = k
        /\ UNCHANGED <<dir, files, mem, qstate, job, lastId, deleted, faults, errors>>
    BY <2>1, <2>2 DEF DoRename, Done, Doing
  <2>4. Recorded(log) = <<s>> /\ log.newline
    BY <1>7, RecordedByOne, LogFields
  <2>5. DiskOK' /\ Rec' = <<s>>
    <3>1. PICK l : l = log
      OBVIOUS
    <3>2. log' = l /\ LogOK(l) /\ Recorded(l) = <<s>>
      BY <1>1, <2>3, <2>4, <3>1
    <3>. QED  BY <1>1, <2>3, <3>2, LogEffect
  <2>6. Recoverable' /\ Durable' = Durable
    BY <1>1, <1>2, <2>3, <2>5, NewRecord
  <2>7. OpenForm(k)'
    BY <1>1, <2>3, <2>5, BackedByOpens
  <2>8. Opening'
    <3>1. LogReady'
      BY <1>1, <2>3, <2>4 DEF LogReady, NoLines
    <3>2. OpenForm(todo)'
      BY <2>3, <2>7
    <3>. QED  BY <3>1, <3>2 DEF Opening
  <2>9. Phase'
    BY <2>3, <2>8, StillOpening
  <2>10. Allows
    BY <2>6 DEF Allows, Allowed
  <2>. QED  BY <2>3, <2>5, <2>6, <2>9, <2>10, ClosedNext
<1>. QED  BY <1>5, <1>6, <1>7 DEF BackingUpOf

(* Opening, a backup that was left is put in the place of the log. *)
LEMMA RestoringStep ==
    ASSUME IInv, ~mem.open, OpenedJob, Restoring, Step
    PROVE  IInv' /\ Allows
<1>1. /\ DiskOK /\ FilesOK /\ Recoverable /\ dir /\ bak # NoLines
      /\ LogOK(log) /\ LogOK(bak) /\ LogOK(NoLines)
  BY DEF IInv, Typed, DiskOK, Restoring, LogOK
<1>2. ASSUME NEW k, NEW S, k \in Seq(S), todo = <<RestoreBackup>> \o k
      PROVE  /\ log' = bak /\ bak' = NoLines /\ todo' = k
             /\ UNCHANGED <<dir, files, mem, qstate, job, lastId, deleted, faults, errors>>
             /\ DiskOK' /\ Rec' = Rec /\ Recoverable' /\ Durable' = Durable /\ Allows
  <2>1. todo # <<>> /\ Head(todo) = RestoreBackup /\ Tail(todo) = k
    BY <1>2, ConsOne
  <2>2. DoRename /\ Head(todo).do = "restore"
    BY <2>1, EffectOf, EffectFields
  <2>3. /\ log' = bak /\ bak' = NoLines /\ todo' = k
        /\ UNCHANGED <<dir, files, mem, qstate, job, lastId, deleted, faults, errors>>
    BY <2>1, <2>2 DEF DoRename, Done, Doing
  <2>4. DiskOK' /\ Rec' = Rec
    <3>1. PICK l : l = bak
      OBVIOUS
    <3>2. log' = l /\ LogOK(l)
      BY <1>1, <2>3, <3>1
    <3>3. DiskOK' /\ Rec' = Recorded(l)
      BY <1>1, <2>3, <3>2, LogEffect
    <3>. QED  BY <1>1, <3>1, <3>3 DEF Rec, StateFile
  <2>5. Recoverable' /\ Durable' = Durable /\ Allows
    BY <1>1, <2>3, <2>4, SameRecord
  <2>. QED  BY <2>3, <2>4, <2>5
<1>3. ASSUME NEW k, todo = <<RestoreBackup>> \o k, OpenForm(k), bak.newline
      PROVE  IInv' /\ Allows
  <2>1. PICK S : k \in Seq(S)
    BY <1>3, FormSeq
  <2>2. /\ log' = bak /\ bak' = NoLines /\ todo' = k
        /\ UNCHANGED <<dir, files, mem, qstate, job, lastId, deleted, faults, errors>>
        /\ DiskOK' /\ Rec' = Rec /\ Recoverable' /\ Durable' = Durable /\ Allows
    BY <1>2, <1>3, <2>1
  <2>3. LogReady'
    BY <1>1, <1>3, <2>2 DEF LogReady, NoLines
  <2>4. OpenForm(k)'
    <3>1. CASE FixForm(k) \/ RecreateForm(k)
      BY <1>1, <2>2, <3>1, FormsKept DEF OpenForm
    <3>2. CASE ReplaceForm(k)
      <4>1. PICK j, a : ReplaceOf(j, a, k)
        BY <3>2 DEF ReplaceForm
      <4>2. Rec' # <<>> /\ Rec'[1].size = 0
        BY <2>2, <4>1 DEF ReplaceOf
      <4>3. ReplaceOf(j, a, k)'
        BY <2>2, <4>1, <4>2, ReplaceKept
      <4>. QED  BY <4>3 DEF OpenForm, ReplaceForm
    <3>. QED  BY <1>3, <3>1, <3>2 DEF OpenForm
  <2>5. OpenForm(todo)'
    BY <2>2, <2>4
  <2>6. Phase'
    BY <2>2, <2>3, <2>5, StillOpening DEF Opening
  <2>. QED  BY <2>2, <2>6, ClosedNext
<1>4. ASSUME NEW k, todo = <<RestoreBackup>> \o k, RetireForm(k)
      PROVE  IInv' /\ Allows
  <2>1. PICK S : k \in Seq(S)
    BY <1>4, FormSeq
  <2>2. /\ log' = bak /\ bak' = NoLines /\ todo' = k
        /\ UNCHANGED <<dir, files, mem, qstate, job, lastId, deleted, faults, errors>>
        /\ DiskOK' /\ Rec' = Rec /\ Recoverable' /\ Durable' = Durable /\ Allows
    BY <1>2, <1>4, <2>1
  <2>3. RetireForm(k)'
    BY <1>1, <1>4, <2>2, FormsKept
  <2>4. RetireForm(todo)'
    BY <2>2, <2>3
  <2>5. Retiring'
    BY <1>1, <2>2, <2>4 DEF Retiring, NoLines
  <2>6. Phase'
    BY <2>2, <2>5, StillOpening
  <2>. QED  BY <2>2, <2>6, ClosedNext
<1>5. ASSUME NEW k, NEW s, BackedBy(k, s),
             todo = <<RestoreBackup>> \o (<<TempBackup, AppendState(s), TimedBackup>> \o k)
      PROVE  IInv' /\ Allows
  <2>1. PICK S : k \in Seq(S)
    BY <1>1, <1>5, BackedByState, FormSeq
  <2>2. PICK T : <<TempBackup, AppendState(s), TimedBackup>> \o k \in Seq(T)
    <3> DEFINE T == S \cup {TempBackup, AppendState(s), TimedBackup}
    <3>1. k \in Seq(T) /\ <<TempBackup, AppendState(s), TimedBackup>> \in Seq(T)
      BY <2>1
    <3>2. <<TempBackup, AppendState(s), TimedBackup>> \o k \in Seq(T)
      BY <3>1
    <3>. QED  BY <3>2
  <2>3. PICK w : w = <<TempBackup, AppendState(s), TimedBackup>> \o k
    OBVIOUS
  <2>4. /\ log' = bak /\ bak' = NoLines /\ todo' = w
        /\ UNCHANGED <<dir, files, mem, qstate, job, lastId, deleted, faults, errors>>
        /\ DiskOK' /\ Rec' = Rec /\ Recoverable' /\ Durable' = Durable /\ Allows
    BY <1>2, <1>5, <2>2, <2>3
  <2>5. BackedBy(k, s)'
    BY <1>1, <1>5, <2>4, BackedByKept
  <2>6. /\ TempBackup' = TempBackup /\ AppendState(s)' = AppendState(s)
        /\ TimedBackup' = TimedBackup
    BY DEF TempBackup, AppendState, TimedBackup
  <2>7. BackingUpOf(k, s)'
    BY <1>1, <2>3, <2>4, <2>5, <2>6 DEF BackingUpOf, NoLines
  <2>8. Phase'
    BY <2>4, <2>7, StillOpening DEF BackingUp
  <2>. QED  BY <2>4, <2>8, ClosedNext
<1>. QED  BY <1>3, <1>4, <1>5 DEF Restoring

(* A queue that has no files yet can be relied on. *)
LEMMA UnwrittenNext ==
    ASSUME NEW j \in JournalId, log' = NoLines, bak' = NoLines,
           Exists(j)' => files'[j] = <<>>
    PROVE  Unwritten(Opened(newMsgQueueState(j), 0, 0))'
<1> DEFINE mq == Opened(newMsgQueueState(j), 0, 0)
<1>1. mq.state.rj = j
  BY OpenedFields
<1>2. mq' = mq /\ newMsgQueueState(j)' = newMsgQueueState(j)
      /\ Opened(newMsgQueueState(j), 0, 0)' = mq
  BY DEF Opened, newMsgQueueState
<1> HIDE DEF mq
<1>3. /\ mq.state.rj \in JournalId'
      /\ mq = Opened(newMsgQueueState(mq.state.rj), 0, 0)'
  BY <1>1, <1>2 DEF JournalId
<1>4. Unwritten(mq)'
  BY <1>1, <1>3 DEF Unwritten, NoLines
<1>. QED  BY <1>4 DEF mq

(* Opening to read an empty queue: its log is retired. *)
LEMMA RetiringStep ==
    ASSUME IInv, ~mem.open, OpenedJob, Retiring, Step
    PROVE  IInv' /\ Allows
<1>1. /\ DiskOK /\ FilesOK /\ Recoverable /\ dir /\ bak = NoLines /\ LogOK(NoLines)
  BY DEF IInv, Typed, DiskOK, Retiring, LogOK
<1>2. ASSUME NEW j \in JournalId, ~Exists(j), todo # <<>>, Head(todo) = RetireLog,
             Rec = <<>> \/ Rec[1].size = 0
      PROVE  /\ log' = NoLines /\ bak' = NoLines /\ todo' = Tail(todo)
             /\ UNCHANGED <<dir, files, mem, qstate, job, lastId, deleted, faults, errors>>
             /\ DiskOK' /\ Rec' = <<>> /\ Recoverable' /\ Durable' = <<>> /\ Allows
             /\ Unwritten(Opened(newMsgQueueState(j), 0, 0))'
  <2>1. DoRename /\ Head(todo).do = "retire"
    BY <1>2, EffectOf, EffectFields
  <2>2. /\ log' = NoLines /\ bak' = NoLines /\ todo' = Tail(todo)
        /\ UNCHANGED <<dir, files, mem, qstate, job, lastId, deleted, faults, errors>>
    BY <1>1, <2>1 DEF DoRename, Done, Doing
  <2>3. DiskOK' /\ Rec' = <<>>
    <3>1. DiskOK' /\ Rec' = Recorded(IF NoLines # NoLines THEN NoLines ELSE NoLines)
      BY <1>1, <2>2, LogEffect
    <3>. QED  BY <1>1, <3>1, RecordedIsState
  <2>4. Recoverable' /\ Durable' = <<>>
    BY <2>3, NoRecord
  <2>5. Durable = <<>>
    BY <1>1, <1>2, EmptyRecord, RecOf
  <2>6. Allows
    BY <2>4, <2>5 DEF Allows, Allowed
  <2>7. ~Exists(j)'
    BY <1>2, <2>2 DEF Exists
  <2>. QED  BY <2>2, <2>3, <2>4, <2>6, <2>7, UnwrittenNext
<1>3. ASSUME NEW j, NEW a, RetireOf(j, a, todo)
      PROVE  IInv' /\ Allows
  <2> DEFINE mq == Opened(newMsgQueueState(j), 0, 0)
  <2>1. /\ todo # <<>> /\ Head(todo) = RetireLog
        /\ Tail(todo) = <<RemoveJournal(a), Assign(mq)>>
        /\ j \in JournalId /\ ~Exists(j) /\ a # j /\ Rec[1].size = 0
    BY <1>3 DEF RetireOf
  <2>2. /\ log' = NoLines /\ bak' = NoLines /\ todo' = Tail(todo)
        /\ UNCHANGED <<dir, files, mem, qstate, job, lastId, deleted, faults, errors>>
        /\ DiskOK' /\ Rec' = <<>> /\ Recoverable' /\ Durable' = <<>> /\ Allows
        /\ Unwritten(mq)'
    BY <1>2, <2>1
  <2>3. /\ mq.state = newMsgQueueState(j) /\ mq.state.rj = j
        /\ mq.writeHandle = 0 /\ mq.tip = <<>> /\ Assign(mq)' = Assign(mq)
    BY OpenedFields, ZenonT(30)
  <2>4. /\ RemoveJournal(a)' = RemoveJournal(a)
        /\ newMsgQueueState(j)' = newMsgQueueState(j)
    BY DEF RemoveJournal, newMsgQueueState
  <2> HIDE DEF mq
  <2>5. RemovingTo(mq, a)'
    BY <2>1, <2>2, <2>3, <2>4 DEF RemovingTo, MemOK
  <2>6. Phase'
    BY <2>2, <2>5, StillOpening DEF Removing
  <2>. QED  BY <2>2, <2>6, ClosedNext
<1>4. ASSUME NEW j \in JournalId, ~Exists(j), Rec = <<>>,
             todo = <<RetireLog, Assign(Opened(newMsgQueueState(j), 0, 0))>>
      PROVE  IInv' /\ Allows
  <2> DEFINE mq == Opened(newMsgQueueState(j), 0, 0)
  <2>1. todo # <<>> /\ Head(todo) = RetireLog /\ Tail(todo) = <<Assign(mq)>>
    BY <1>4
  <2>2. /\ log' = NoLines /\ bak' = NoLines /\ todo' = Tail(todo)
        /\ UNCHANGED <<dir, files, mem, qstate, job, lastId, deleted, faults, errors>>
        /\ DiskOK' /\ Rec' = <<>> /\ Recoverable' /\ Durable' = <<>> /\ Allows
        /\ Unwritten(mq)'
    BY <1>2, <1>4, <2>1
  <2>3. mq.open /\ ~Stranded(mq) /\ mq.state.rpos = 0
    <3>1. newMsgQueueState(j).rpos = 0
      BY DEF newMsgQueueState
    <3>2. mq.open = TRUE /\ ~Stranded(mq) /\ mq.state = newMsgQueueState(j)
      BY OpenedFields
    <3>. QED  BY <3>1, <3>2
  <2> HIDE DEF mq
  <2>4. MemOK(mq)' /\ Logged(mq.state)'
    BY <2>2, <2>3 DEF MemOK, Logged, From
  <2>5. Phase'
    BY <2>1, <2>2, <2>3, <2>4, AboutToOpen
  <2>. QED  BY <2>2, <2>5, ClosedNext
<1>. QED  BY <1>3, <1>4 DEF Retiring, RetireForm

(* An effect of an opening. *)
LEMMA OpenPhaseStep ==
    ASSUME IInv, OpenPhase, Step
    PROVE  IInv' /\ Allows
<1>1. CASE Opening
  <2>1. CASE FixForm(todo)
    BY <1>1, <2>1, FixOpening DEF OpenPhase, Opening, FixForm
  <2>2. CASE RecreateForm(todo)
    BY <1>1, <2>2, RecreateOpening DEF OpenPhase, Opening, RecreateForm
  <2>3. CASE ReplaceForm(todo)
    BY <1>1, <2>3, ReplaceOpening DEF OpenPhase, Opening, ReplaceForm
  <2>. QED  BY <1>1, <2>1, <2>2, <2>3 DEF Opening, OpenForm
<1>2. CASE BackingUp
  BY <1>2, BackingUpStep DEF OpenPhase, BackingUp
<1>3. CASE Restoring
  BY <1>3, RestoringStep DEF OpenPhase
<1>4. CASE Retiring
  BY <1>4, RetiringStep DEF OpenPhase
<1>5. CASE Replacing
  BY <1>5, ReplacingStep DEF OpenPhase, Replacing
<1>6. CASE Removing
  BY <1>6, RemovingStep DEF OpenPhase, Removing
<1>. QED  BY <1>1, <1>2, <1>3, <1>4, <1>5, <1>6 DEF OpenPhase

-----------------------------------------------------------------------------
(* A step with an opened queue in memory *)

(* The disk as it was. *)
LEMMA DiskSame ==
    ASSUME DiskOK, Recoverable, UNCHANGED <<disk, faults>>
    PROVE  /\ DiskOK' /\ Recoverable' /\ Durable' = Durable /\ Rec' = Rec /\ NoneLost /\ Allows
           /\ \A st : Stored(st) => KeptFor(st)
<1>1. FilesOK' /\ \A st : Stored(st) => KeptFor(st)
  BY SameKeeps DEF DiskOK, disk
<1>2. Rec # <<>> => KeptFor(Rec[1])
  BY <1>1 DEF Recoverable
<1>3. dir' \in BOOLEAN /\ (dir => dir') /\ (dir' \/ DOMAIN files' = {})
  BY DEF DiskOK, disk
<1>. QED  BY <1>1, <1>2, <1>3, FileEffect DEF disk

(* An opened queue that matches the files. *)
LEMMA MemFields ==
    ASSUME FilesOK, NEW mq, MemOK(mq)
    PROVE  mq \in Queues /\ Stored(mq.state) /\ TipOK(mq) /\ mq.open
<1>1. CASE Unwritten(mq)
  <2>1. PICK j \in JournalId : mq = Opened(newMsgQueueState(j), 0, 0)
    BY <1>1 DEF Unwritten
  <2>2. PICK new : new = newMsgQueueState(j) /\ new \in States /\ Stored(new)
    BY <2>1, NewState
  <2>3. mq = [open |-> TRUE, state |-> new, readHandle |-> 0, writeHandle |-> 0, tip |-> <<>>]
    BY <2>1, <2>2 DEF Opened
  <2>. QED  BY <2>2, <2>3 DEF Queues, TipOK
<1>2. CASE Sound(mq)
  BY <1>2, QueueFields DEF Sound
<1>. QED  BY <1>1, <1>2 DEF MemOK

(* It goes on matching them when they stay the same. *)
LEMMA QuietSame ==
    ASSUME DiskOK, Recoverable, UNCHANGED <<disk, faults>>, NEW mq, MemOK(mq)
    PROVE  /\ MemOK(mq)' /\ (Logged(mq.state)' <=> Logged(mq.state))
           /\ Settled(mq) => Quiet(mq)'
<1>1. /\ Rec # <<>> => KeptFor(Rec[1])
      /\ NoneLost
      /\ \A st : Stored(st) => KeptFor(st)
  BY DiskSame DEF Recoverable
<1>2. Sound(mq) => KeptFor(mq.state) /\ StrandedKept(mq)
  BY <1>1 DEF Sound, Handles, StrandedKept, Exists, disk
<1>3. Unwritten(mq) => (Exists(mq.state.rj)' => files'[mq.state.rj] = <<>>)
  BY DEF Unwritten, Exists, disk
<1>4. MemOK(mq)' /\ (Logged(mq.state)' <=> Logged(mq.state))
  BY <1>1, <1>2, <1>3, MemKept DEF disk
<1>. QED  BY <1>4 DEF Quiet, Settled, Stranded

(* The queue in memory is assigned. *)
LEMMA RememberedOpen ==
    ASSUME NEW mq, mem' = mq, qstate' = <<qState(mq.state)>>,
           mq \in Queues, mq.open, Stored(mq.state)', TipOK(mq)'
    PROVE  Remembered'
<1>1. Stored(mem.state)' = Stored(mq.state)' /\ TipOK(mem)' = TipOK(mq)'
  OBVIOUS
<1>2. mq \in Queues'
  BY DEF Queues, States, JournalId, Message
<1>3. qState(mem.state)' = qState(mq.state)
  BY DEF qState
<1>. QED  BY <1>1, <1>2, <1>3 DEF Remembered

(* Nothing is left of the step, the next one finds the queue opened. *)
LEMMA RestsOpen ==
    ASSUME UNCHANGED job, NEW mq, mem' = mq, mq.open, todo' = <<>>,
           Quiet(mq)', Logged(mq.state)' \/ Expiring, JobFits(mq)
    PROVE  Phase'
<1>1. Quiet(mem)' /\ (Logged(mem.state) \/ Expiring)'
  <2>1. Quiet(mem)' = Quiet(mq)' /\ Logged(mem.state)' = Logged(mq.state)'
    OBVIOUS
  <2>2. Expiring' = Expiring
    BY DEF Expiring
  <2>. QED  BY <2>1, <2>2
<1>2. Peeked(mem)' = Peeked(mq)
  BY DEF Peeked
<1>3. Resting'
  BY <1>1, <1>2 DEF Resting, JobFits, CloseStep, RmdirStep
<1>. QED  BY <1>3 DEF Phase

(* Only the file of the log and what is in memory change. *)
LEMMA OpenNext ==
    ASSUME IInv, UNCHANGED <<job, lastId, faults, errors>>,
           DiskOK', Recoverable', Remembered', Phase'
    PROVE  IInv'
    BY TypedNext DEF IInv

(* The new state is assigned. *)
LEMMA LandingStep ==
    ASSUME IInv, Landing, Step
    PROVE  IInv' /\ Allows
<1>1. PICK mq, rd : LandingOn(mq, rd)
  BY DEF Landing
<1>2. /\ mq.open /\ todo = <<Assign(mq)>> \o rd /\ Quiet(mq) /\ MemOK(mq) /\ Settled(mq)
      /\ Logged(mq.state) \/ Expiring
      /\ ReadForm(mq, rd) /\ JobFits(mq)
  BY <1>1 DEF LandingOn, Quiet
<1>3. DiskOK /\ FilesOK /\ Recoverable
  BY DEF IInv, Typed, DiskOK
<1>4. PICK S : rd \in Seq(S)
  <2>1. <<>> \in Seq({0}) /\ <<ReadTip(mq.state.rj, mq.state.rpos)>>
                               \in Seq({ReadTip(mq.state.rj, mq.state.rpos)})
    OBVIOUS
  <2>. QED  BY <1>2, <2>1 DEF ReadForm
<1>5. todo # <<>> /\ Head(todo) = Assign(mq) /\ Tail(todo) = rd
  BY <1>2, <1>4, ConsOne
<1>6. /\ DoAssign /\ Head(todo).mem = mq
      /\ Head(todo).qstate = <<qState(mq.state)>>
  <2>1. /\ Assign(mq).do = "assign" /\ Assign(mq).mem = mq
        /\ Assign(mq).qstate = <<qState(mq.state)>>
    BY <1>2, EffectFields
  <2>. QED  BY <1>5, <2>1, EffectOf
<1>7. /\ mem' = mq /\ qstate' = <<qState(mq.state)>> /\ todo' = rd
      /\ UNCHANGED <<disk, job, lastId, deleted, faults, errors>>
  BY <1>5, <1>6 DEF DoAssign, Done
<1>8. DiskOK' /\ Recoverable' /\ Allows /\ (\A st : Stored(st) => KeptFor(st)) /\ NoneLost
  BY <1>3, <1>7, DiskSame
<1>9. Quiet(mq)' /\ (Logged(mq.state)' <=> Logged(mq.state))
  BY <1>2, <1>3, <1>7, QuietSame
<1>10. Remembered'
  <2>1. mq \in Queues /\ Stored(mq.state) /\ TipOK(mq)
    BY <1>2, <1>3, MemFields
  <2>2. Stored(mq.state)' /\ TipOK(mq)'
    BY <1>8, <2>1, StoredKept, TipKept
  <2>. QED  BY <1>2, <1>7, <2>1, <2>2, RememberedOpen
<1>11. CASE rd = <<>>
  <2>1. Phase'
    BY <1>2, <1>7, <1>9, <1>11, RestsOpen
  <2>. QED  BY <1>7, <1>8, <1>10, <2>1, OpenNext
<1>12. CASE rd # <<>>
  <2>1. /\ rd = <<ReadTip(mq.state.rj, mq.state.rpos)>>
        /\ mq.tip = <<>> /\ mq.state.rpos < mq.state.rcount
    BY <1>2, <1>12 DEF ReadForm
  <2>2. ReadTip(mem.state.rj, mem.state.rpos)' = ReadTip(mq.state.rj, mq.state.rpos)
    BY <1>7 DEF ReadTip
  <2>3. Quiet(mem)' = Quiet(mq)' /\ Logged(mem.state)' = Logged(mq.state)'
    BY <1>7
  <2>4. ReadForm(mem, todo)' /\ JobFits(mem)'
    BY <1>2, <1>7, <2>1, <2>2 DEF ReadForm, JobFits, Peeked
  <2>5. Expiring' = Expiring
    BY <1>7 DEF Expiring
  <2>6. Reading'
    BY <1>2, <1>7, <1>9, <2>1, <2>2, <2>3, <2>4, <2>5 DEF Reading
  <2>7. Phase'
    BY <2>6 DEF Phase
  <2>. QED  BY <1>7, <1>8, <1>10, <2>7, OpenNext
<1>. QED  BY <1>11, <1>12

(* A state is logged. *)
LEMMA LogState ==
    ASSUME DiskOK, LogReady, UNCHANGED <<dir, files, bak, faults>>, NEW s, Stored(s),
           log' = AddLine(log, <<s>>)
    PROVE  /\ DiskOK' /\ Rec' = <<s>> /\ LogReady' /\ Recoverable' /\ Durable' = Messages(s)
           /\ NoneLost
           /\ Follows(s)' /\ Logged(s)'
<1>1. s \in States /\ LogOK(log) /\ log.newline /\ bak = NoLines /\ dir
  BY DEF Stored, DiskOK, LogReady
<1>2. PICK l : l = AddLine(log, <<s>>)
  OBVIOUS
<1>3. LogOK(l) /\ l.newline /\ Recorded(l) = <<s>>
  BY <1>1, <1>2, LineIsRecorded
<1>4. DiskOK' /\ Rec' = <<s>> /\ NoneLost
  <2>1. bak' = NoLines /\ LogOK(NoLines)
    BY <1>1 DEF LogOK
  <2>2. DiskOK' /\ Rec' = Recorded(IF NoLines # NoLines THEN NoLines ELSE l) /\ NoneLost
    BY <1>1, <1>2, <1>3, <2>1, LogEffect
  <2>. QED  BY <1>3, <2>2
<1>5. LogReady'
  BY <1>1, <1>2, <1>3 DEF LogReady, NoLines
<1>6. Recoverable' /\ Durable' = Messages(s)
  BY <1>4, NewRecord
<1>7. Follows(s)' /\ Logged(s)'
  <2>1. Rec' # <<>> /\ Rec'[1] = s /\ Rec[1]' = s
    BY <1>4
  <2>2. From(s)' = s.rpos
    BY <2>1 DEF From
  <2>3. s.rpos \in Nat
    BY <1>1, StateFields
  <2>4. \A i \in (s.rpos + 1)..s.rpos : FALSE
    BY <2>3
  <2>. QED  BY <2>1, <2>2, <2>3, <2>4 DEF Follows, Logged
<1>. QED  BY <1>4, <1>5, <1>6, <1>7

(* The new state is logged, before it is assigned. *)
LEMMA CommittingStep ==
    ASSUME IInv, Committing, Step
    PROVE  IInv' /\ Allows
<1>1. PICK mq, rd : CommittingTo(mq, rd)
  BY DEF Committing
<1>2. /\ mq.open /\ todo = <<AppendState(mq.state), Assign(mq)>> \o rd
      /\ LogReady /\ Sound(mq) /\ Settled(mq)
      /\ ReadForm(mq, rd) /\ JobFits(mq)
      /\ "lose" \notin Range(faults) => Allowed(Durable, Messages(mq.state))
      /\ mem.open \/ Messages(mq.state) = <<>>
  BY <1>1 DEF CommittingTo
<1>3. DiskOK /\ FilesOK /\ Recoverable /\ Remembered /\ Stored(mq.state)
  BY <1>2 DEF IInv, Typed, DiskOK, Sound
<1>4. PICK S : rd \in Seq(S)
  <2>1. <<>> \in Seq({0}) /\ <<ReadTip(mq.state.rj, mq.state.rpos)>>
                               \in Seq({ReadTip(mq.state.rj, mq.state.rpos)})
    OBVIOUS
  <2>. QED  BY <1>2, <2>1 DEF ReadForm
<1>5. todo # <<>> /\ Head(todo) = AppendState(mq.state) /\ Tail(todo) = <<Assign(mq)>> \o rd
  BY <1>2, <1>4, ConsTwo
<1>6. DoAppendState /\ Head(todo).st = mq.state
  BY <1>5, EffectOf, EffectFields
<1>7. /\ log' = AddLine(log, <<mq.state>>)
      /\ todo' = <<Assign(mq)>> \o rd
      /\ UNCHANGED <<dir, files, bak, mem, qstate, job, lastId, deleted, faults, errors>>
  BY <1>5, <1>6 DEF DoAppendState, Done
<1>8. /\ DiskOK' /\ LogReady' /\ Recoverable' /\ Durable' = Messages(mq.state)
      /\ NoneLost /\ Follows(mq.state)' /\ Logged(mq.state)'
  BY <1>2, <1>3, <1>7, LogState
<1>9. \A st : Stored(st) => KeptFor(st)
  BY <1>7, SameKeeps
<1>10. Quiet(mq)'
  <2>1. StrandedKept(mq)
    BY <1>2, <1>7 DEF StrandedKept, Sound, Handles, Exists
  <2>2. Sound(mq)'
    BY <1>2, <1>3, <1>8, <1>9, <2>1, SoundKept
  <2>3. Settled(mq)'
    BY <1>2, <1>7 DEF Settled, Stranded
  <2>. QED  BY <1>8, <2>2, <2>3 DEF Quiet, MemOK
<1>11. Remembered'
  <2>1. mem.open => KeptFor(mem.state)
    BY <1>3, <1>9 DEF Remembered
  <2>2. ~mem.open => Durable' = Durable \/ Durable' = <<>>
    BY <1>2, <1>8
  <2>. QED  BY <1>3, <1>7, <1>8, <2>1, <2>2, RememberedKept
<1>12. LandingOn(mq, rd)'
  <2>1. Assign(mq)' = Assign(mq)
    BY <1>2 DEF Assign, qState
  <2>2. ReadForm(mq, rd)' /\ JobFits(mq)'
    BY <1>2, <1>7 DEF ReadForm, JobFits, Peeked, ReadTip
  <2>. QED  BY <1>2, <1>7, <1>8, <1>10, <2>1, <2>2 DEF LandingOn
<1>13. Phase'
  BY <1>12 DEF Phase, Landing
<1>14. Allows
  BY <1>2, <1>8 DEF Allows
<1>. QED  BY <1>7, <1>8, <1>11, <1>13, <1>14, OpenNext

(* The state in memory is logged at the end of an expiry. *)
LEMMA LoggingStep ==
    ASSUME IInv, Logging, Step
    PROVE  IInv' /\ Allows
<1>1. PICK mq : mq = mem
  OBVIOUS
<1>2. /\ mq.open /\ todo = <<AppendState(mq.state)>> /\ "EXPIRE" \in Ops
      /\ MemOK(mq) /\ Settled(mq) /\ mq.readHandle # 0 /\ job = <<CloseStep>>
  BY <1>1 DEF Logging, Quiet
<1>3. Sound(mq) /\ LogReady /\ Follows(mq.state)
  <2>1. ~Unwritten(mq)
    <3>1. ASSUME Unwritten(mq)
          PROVE  FALSE
      <4>1. PICK j : mq = Opened(newMsgQueueState(j), 0, 0)
        BY <3>1 DEF Unwritten
      <4>2. Opened(newMsgQueueState(j), 0, 0).readHandle = 0
        BY DEF Opened
      <4>. QED  BY <1>2, <4>1, <4>2
    <3>. QED  BY <3>1
  <2>. QED  BY <1>2, <2>1 DEF MemOK
<1>4. DiskOK /\ FilesOK /\ Recoverable /\ Remembered /\ Stored(mq.state)
  BY <1>3 DEF IInv, Typed, DiskOK, Sound
<1>5. todo # <<>> /\ Head(todo) = AppendState(mq.state) /\ Tail(todo) = <<>>
  BY <1>2
<1>6. DoAppendState /\ Head(todo).st = mq.state
  BY <1>5, EffectOf, EffectFields
<1>7. /\ log' = AddLine(log, <<mq.state>>)
      /\ todo' = <<>>
      /\ UNCHANGED <<dir, files, bak, mem, qstate, job, lastId, deleted, faults, errors>>
  BY <1>5, <1>6 DEF DoAppendState, Done
<1>8. /\ DiskOK' /\ LogReady' /\ Recoverable' /\ Durable' = Messages(mq.state)
      /\ NoneLost /\ Follows(mq.state)' /\ Logged(mq.state)'
  BY <1>3, <1>4, <1>7, LogState
<1>9. \A st : Stored(st) => KeptFor(st)
  BY <1>7, SameKeeps
<1>10. Quiet(mq)'
  <2>1. StrandedKept(mq)
    BY <1>3, <1>7 DEF StrandedKept, Sound, Handles, Exists
  <2>2. Sound(mq)'
    BY <1>3, <1>4, <1>8, <1>9, <2>1, SoundKept
  <2>3. Settled(mq)'
    BY <1>2, <1>7 DEF Settled, Stranded
  <2>. QED  BY <1>8, <2>2, <2>3 DEF Quiet, MemOK
<1>11. Remembered'
  BY <1>1, <1>2, <1>4, <1>7, <1>8, <1>9, RememberedKept
<1>12. Phase'
  <2>1. Quiet(mem)' /\ Logged(mem.state)'
    <3>1. Quiet(mem)' = Quiet(mq)' /\ Logged(mem.state)' = Logged(mq.state)'
      BY <1>1, <1>7
    <3>. QED  BY <1>8, <1>10, <3>1
  <2>2. /\ job'[1].step = "close"
        /\ job' \notin {<<CloseStep, RmdirStep>>, <<RmdirStep>>}
    BY <1>2, <1>7 DEF CloseStep, RmdirStep
  <2>. QED  BY <1>7, <2>1, <2>2 DEF Phase, Resting
<1>13. Allows
  <2>1. Without(Durable, mq.state.rpos - From(mq.state), Messages(mq.state))
    BY <1>3, <1>4, FollowsSuffix DEF Sound, Handles
  <2>2. Allowed(Durable, Messages(mq.state))
    BY <1>2, <2>1, WithoutIsAllowed
  <2>. QED  BY <1>8, <2>2 DEF Allows
<1>. QED  BY <1>7, <1>8, <1>11, <1>12, <1>13, OpenNext

(* The message at the read position is read. *)
LEMMA ReadingStep ==
    ASSUME IInv, Reading, Step
    PROVE  IInv' /\ Allows
<1>1. PICK mq : mq = mem
  OBVIOUS
<1> DEFINE st == mq.state
<1>2. /\ mq.open /\ todo = <<ReadTip(st.rj, st.rpos)>>
      /\ MemOK(mq) /\ Settled(mq)
      /\ Logged(st) \/ Expiring
      /\ st.rpos < st.rcount
      /\ JobFits(mq)
      /\ qstate = <<qState(st)>>
  BY <1>1 DEF Reading, Quiet, ReadForm, IInv, Remembered
<1>3. DiskOK /\ FilesOK /\ Recoverable
  BY DEF IInv, Typed, DiskOK
<1>4. mq \in Queues /\ Stored(st) /\ st \in States
  BY <1>2, <1>3, MemFields DEF Stored
<1>5. st.rpos \in Nat /\ st.rcount \in Nat
  BY <1>4, StateFields
<1>6. Sound(mq) /\ LogReady /\ Follows(st)
  <2>1. ASSUME Unwritten(mq)
        PROVE  FALSE
    <3>1. PICK j : mq = Opened(newMsgQueueState(j), 0, 0)
      BY <2>1 DEF Unwritten
    <3>2. Opened(newMsgQueueState(j), 0, 0).state = newMsgQueueState(j)
      BY OpenedFields
    <3>3. newMsgQueueState(j).rpos = 0 /\ newMsgQueueState(j).rcount = 0
      BY DEF newMsgQueueState
    <3>. QED  BY <1>2, <3>1, <3>2, <3>3
  <2>. QED  BY <1>2, <2>1 DEF MemOK
<1>7. /\ Exists(st.rj) /\ files[st.rj][st.rpos + 1] \in Message
      /\ st.rpos < Len(files[st.rj])
  <2>1. Exists(st.rj) /\ Holds(st.rj, st.rcount)
    BY <1>6 DEF Sound, Handles, Stored
  <2>2. st.rpos + 1 \in 1..st.rcount
    BY <1>2, <1>5
  <2>3. Len(files[st.rj]) \in Nat
    BY <1>3, <2>1 DEF FilesOK, Exists
  <2>. QED  BY <1>2, <1>5, <2>1, <2>2, <2>3 DEF Holds
<1>8. PICK m \in Message : m = files[st.rj][st.rpos + 1]
  BY <1>7
<1>9. todo # <<>> /\ Head(todo) = ReadTip(st.rj, st.rpos) /\ Tail(todo) = <<>>
  BY <1>2
<1>10. DoRead /\ Head(todo).j = st.rj /\ Head(todo).pos = st.rpos
  <2>1. /\ ReadTip(st.rj, st.rpos).do = "read"
        /\ ReadTip(st.rj, st.rpos).j = st.rj /\ ReadTip(st.rj, st.rpos).pos = st.rpos
    BY EffectFields
  <2>2. Readable(st.rj, st.rpos)
    BY <1>7, TornIsNone DEF Readable
  <2>. QED  BY <1>9, <2>1, <2>2, EffectOf
<1>11. PICK next : next = [mq EXCEPT !.tip = <<m>>]
  OBVIOUS
<1>12. /\ mem' = next /\ todo' = <<>>
       /\ UNCHANGED <<disk, qstate, job, lastId, deleted, faults, errors>>
  BY <1>1, <1>8, <1>9, <1>10, <1>11 DEF DoRead, Done
<1>13. /\ next \in Queues /\ next.open = TRUE /\ next.state = st /\ next.tip = <<m>>
       /\ next.readHandle = mq.readHandle /\ next.writeHandle = mq.writeHandle
  <2>1. /\ mq.open = TRUE
        /\ mq = [open |-> TRUE, state |-> st, readHandle |-> mq.readHandle,
                 writeHandle |-> mq.writeHandle, tip |-> mq.tip]
        /\ mq.readHandle \in Nat /\ mq.writeHandle \in Nat
    BY <1>4, QueueFields
  <2>2. next = [open |-> mq.open, state |-> st, readHandle |-> mq.readHandle,
                writeHandle |-> mq.writeHandle, tip |-> <<m>>]
    BY <1>4, <1>11 DEF Queues
  <2>. QED  BY <1>4, <2>1, <2>2 DEF Queues
<1> HIDE DEF st
<1>14. Sound(next) /\ MemOK(next) /\ Settled(next)
  <2>1. Stranded(next) <=> Stranded(mq)
    BY <1>13 DEF Stranded, st
  <2>2. Handles(next)
    BY <1>6, <1>13, <2>1 DEF Sound, Handles, st
  <2>3. next.tip[1] = m /\ TipOK(next)
    BY <1>2, <1>7, <1>8, <1>13 DEF TipOK
  <2>4. Sound(next)
    BY <1>4, <1>13, <2>2, <2>3 DEF Sound
  <2>. QED  BY <1>2, <1>6, <1>13, <2>1, <2>4 DEF MemOK, Settled
<1>15. /\ DiskOK' /\ Recoverable' /\ Allows /\ NoneLost
       /\ \A s : Stored(s) => KeptFor(s)
  BY <1>3, <1>12, DiskSame
<1>16. Quiet(next)' /\ (Logged(next.state)' <=> Logged(next.state))
  BY <1>3, <1>12, <1>14, QuietSame
<1>17. Remembered'
  <2>1. Stored(next.state) /\ TipOK(next) /\ KeptFor(next.state)
    BY <1>14, <1>15 DEF Sound
  <2>2. Stored(next.state)' /\ TipOK(next)'
    BY <1>15, <2>1, StoredKept, TipKept
  <2>3. qstate' = <<qState(next.state)>>
    BY <1>2, <1>12, <1>13
  <2>. QED  BY <1>12, <1>13, <2>2, <2>3, RememberedOpen
<1>18. Phase'
  <2>1. JobFits(next)
    BY <1>2, <1>13 DEF JobFits, Peeked
  <2>2. Logged(next.state)' \/ Expiring
    BY <1>2, <1>13, <1>16
  <2>. QED  BY <1>12, <1>13, <1>16, <2>1, <2>2, RestsOpen
<1>. QED  BY <1>12, <1>15, <1>17, <1>18, OpenNext

(* The queue that reads from the journal written to. *)
LEMMA SwitchedFields ==
    ASSUME NEW st \in States
    PROVE  LET s == Switched(st)
           IN  /\ s \in States
               /\ s.rj = st.wj /\ s.wj = st.wj /\ s.rpos = 0
               /\ s.rcount = st.wcount /\ s.wcount = st.wcount
               /\ s.canWrite = st.canWrite /\ s.size = st.size
    BY StateFields DEF Switched, switchedToWrite, States

(* The same of the queue in memory. *)
LEMMA MovedFields ==
    ASSUME mem \in Queues
    PROVE  /\ Moved \in Queues /\ Moved.open = TRUE /\ Moved.state = mem.state
           /\ Moved.readHandle = mem.state.wj /\ Moved.writeHandle = 0 /\ Moved.tip = mem.tip
           /\ Entered \in Queues /\ Entered.open = TRUE /\ Entered.state = Switched(mem.state)
           /\ Entered.readHandle = mem.state.wj /\ Entered.writeHandle = 0
           /\ Entered.tip = mem.tip
           /\ Moved = [open |-> TRUE, state |-> mem.state, readHandle |-> mem.state.wj,
                       writeHandle |-> 0, tip |-> mem.tip]
           /\ Entered = [open |-> TRUE, state |-> Switched(mem.state),
                         readHandle |-> mem.state.wj, writeHandle |-> 0, tip |-> mem.tip]
<1>1. /\ mem.open = TRUE /\ mem.state \in States
      /\ mem = [open |-> TRUE, state |-> mem.state, readHandle |-> mem.readHandle,
                writeHandle |-> mem.writeHandle, tip |-> mem.tip]
  BY QueueFields
<1>2. Switched(mem.state) \in States /\ mem.state.wj \in Nat
  BY <1>1, SwitchedFields, StateFields DEF JournalId
<1>3. /\ Moved \in Queues /\ Moved.state = mem.state
      /\ Moved.readHandle = mem.state.wj /\ Moved.writeHandle = 0 /\ Moved.tip = mem.tip
  BY <1>2 DEF Moved, Queues
<1>4. /\ Entered \in Queues /\ Entered.state = Switched(mem.state)
      /\ Entered.readHandle = mem.state.wj /\ Entered.writeHandle = 0
      /\ Entered.tip = mem.tip
  BY <1>2, <1>3 DEF Entered, Queues
<1>5. /\ Moved.open = TRUE /\ Entered.open = TRUE
      /\ Moved = [open |-> TRUE, state |-> Moved.state, readHandle |-> Moved.readHandle,
                  writeHandle |-> Moved.writeHandle, tip |-> Moved.tip]
      /\ Entered = [open |-> TRUE, state |-> Entered.state, readHandle |-> Entered.readHandle,
                    writeHandle |-> Entered.writeHandle, tip |-> Entered.tip]
  BY <1>3, <1>4, QueueFields
<1>. QED  BY <1>3, <1>4, <1>5

(* The read handle becomes the write handle's. *)
LEMMA MovingStep ==
    ASSUME IInv, NEW rd, SwitchingTo(rd), Sound(mem), Step,
           todo = <<Assign(Moved), RemoveJournal(mem.state.rj), AppendState(Switched(mem.state)),
                    Assign(Entered)>> \o rd
    PROVE  IInv' /\ Allows
<1>1. PICK mq : mq = mem
  OBVIOUS
<1>2. PICK moved : moved = Moved
  OBVIOUS
<1>3. PICK entered : entered = Entered
  OBVIOUS
<1> DEFINE st == mq.state
<1>4. /\ mq.open /\ LogReady /\ Stored(st) /\ Follows(st)
      /\ Logged(st) \/ Expiring
      /\ Exists(st.rj) /\ Exists(st.wj) /\ st.rj # st.wj /\ st.rpos = st.rcount
      /\ ReadForm(entered, rd) /\ JobFits(entered)
      /\ qstate = <<qState(st)>> /\ mq \in Queues /\ TipOK(mq)
  BY <1>1, <1>3 DEF SwitchingTo, IInv, Remembered
<1>5. DiskOK /\ FilesOK /\ Recoverable
  BY DEF IInv, Typed, DiskOK
<1>6. /\ moved \in Queues /\ moved.open = TRUE /\ moved.state = st /\ moved.tip = mq.tip
      /\ entered.open = TRUE
      /\ moved = [open |-> TRUE, state |-> st, readHandle |-> st.wj,
                  writeHandle |-> 0, tip |-> mq.tip]
      /\ entered = [open |-> TRUE, state |-> Switched(st), readHandle |-> st.wj,
                    writeHandle |-> 0, tip |-> mq.tip]
  <2>1. mem \in Queues
    BY <1>1, <1>4
  <2>. QED  BY <1>1, <1>2, <1>3, <2>1, MovedFields
<1>7. PICK S : rd \in Seq(S)
  <2>1. <<>> \in Seq({0}) /\ <<ReadTip(entered.state.rj, entered.state.rpos)>>
                               \in Seq({ReadTip(entered.state.rj, entered.state.rpos)})
    OBVIOUS
  <2>. QED  BY <1>4, <2>1 DEF ReadForm
<1>8. /\ todo # <<>> /\ Head(todo) = Assign(moved)
      /\ Tail(todo) = <<RemoveJournal(st.rj), AppendState(Switched(st)), Assign(entered)>> \o rd
  BY <1>1, <1>2, <1>3, <1>7, ConsFour
<1>9. DoAssign /\ Head(todo).mem = moved /\ Head(todo).qstate = <<qState(st)>>
  <2>1. /\ Assign(moved).do = "assign" /\ Assign(moved).mem = moved
        /\ Assign(moved).qstate = <<qState(moved.state)>>
    <3>1. moved.open
      BY <1>6
    <3>. QED  BY <3>1, EffectFields
  <2>2. moved.state = st
    BY <1>6
  <2> HIDE DEF st
  <2>. QED  BY <1>8, <2>1, <2>2, EffectOf
<1>10. /\ mem' = moved /\ qstate' = <<qState(st)>>
       /\ todo' = <<RemoveJournal(st.rj), AppendState(Switched(st)), Assign(entered)>> \o rd
       /\ UNCHANGED <<disk, job, lastId, deleted, faults, errors>>
  BY <1>8, <1>9 DEF DoAssign, Done
<1>11. /\ DiskOK' /\ Recoverable' /\ Rec' = Rec /\ Allows /\ NoneLost
       /\ \A s : Stored(s) => KeptFor(s)
  BY <1>5, <1>10, DiskSame
<1>12. Stored(st)' /\ TipOK(moved)'
  <2>1. TipOK(moved)
    BY <1>4, <1>6 DEF TipOK
  <2>2. KeptFor(st)
    BY <1>4, <1>11
  <2>. QED  BY <1>4, <1>6, <1>11, <2>1, <2>2, StoredKept, TipKept
<1>13. Remembered'
  <2>1. Stored(moved.state)' /\ qstate' = <<qState(moved.state)>>
    BY <1>6, <1>10, <1>12
  <2>. QED  BY <1>6, <1>10, <1>12, <2>1, RememberedOpen
<1>14. Follows(st)' /\ (Logged(st)' <=> Logged(st))
  <2>1. Rec # <<>> => KeptFor(Rec[1])
    BY <1>5, <1>11 DEF Recoverable
  <2>2. Follows(st)' /\ From(st)' = From(st)
    BY <1>4, <1>5, <1>11, <2>1, FollowsKept
  <2>. QED  BY <2>2 DEF Logged
<1>15. Moved' = moved /\ Entered' = entered
  <2>1. mem' \in Queues' /\ mem'.state = st /\ mem'.tip = mq.tip
    BY <1>6, <1>10 DEF Queues, States, JournalId, Message
  <2>2. (mem \in Queues =>
           /\ Moved = [open |-> TRUE, state |-> mem.state, readHandle |-> mem.state.wj,
                       writeHandle |-> 0, tip |-> mem.tip]
           /\ Entered = [open |-> TRUE, state |-> Switched(mem.state),
                         readHandle |-> mem.state.wj, writeHandle |-> 0, tip |-> mem.tip])'
    BY MovedFields, PTL
  <2>3. Switched(mem.state)' = Switched(st)
    BY <2>1 DEF Switched, switchedToWrite
  <2>. QED  BY <1>6, <2>1, <2>2, <2>3
<1>16. SwitchingTo(rd)'
  <2>1. /\ mem'.open /\ mem'.state = st /\ mem' = moved
    BY <1>6, <1>10
  <2>2. LogReady' /\ Exists(st.rj)' /\ Exists(st.wj)'
    BY <1>4, <1>10 DEF LogReady, Exists, disk
  <2>3. (Logged(st) \/ Expiring)'
    BY <1>4, <1>10, <1>14 DEF Expiring
  <2>4. ReadForm(entered, rd)' /\ JobFits(entered)'
    BY <1>4, <1>10 DEF ReadForm, ReadTip, JobFits, Peeked
  <2>5. /\ RemoveJournal(st.rj)' = RemoveJournal(st.rj)
        /\ AppendState(Switched(st))' = AppendState(Switched(st))
        /\ Assign(entered)' = Assign(entered)
    BY <1>6 DEF RemoveJournal, AppendState, Assign, qState, Switched, switchedToWrite
  <2>6. todo' = <<RemoveJournal(mem.state.rj), AppendState(Switched(mem.state)),
                  Assign(Entered)>>' \o rd
    BY <1>10, <1>15, <2>1, <2>5
  <2>7. /\ ReadForm(Entered, rd)' /\ JobFits(Entered)' /\ mem' = Moved'
        /\ Stored(mem.state)' /\ Follows(mem.state)' /\ (Logged(mem.state) \/ Expiring)'
        /\ Exists(mem.state.rj)' /\ Exists(mem.state.wj)'
    <3>1. /\ ReadForm(Entered, rd)' = ReadForm(entered, rd)'
          /\ JobFits(Entered)' = JobFits(entered)'
      BY <1>15
    <3>2. /\ Stored(mem.state)' = Stored(st)' /\ Follows(mem.state)' = Follows(st)'
          /\ Logged(mem.state)' = Logged(st)'
          /\ Exists(mem.state.rj)' = Exists(st.rj)' /\ Exists(mem.state.wj)' = Exists(st.wj)'
      BY <2>1
    <3>. QED  BY <1>12, <1>14, <1>15, <2>1, <2>2, <2>3, <2>4, <3>1, <3>2
  <2>. QED  BY <1>4, <2>1, <2>2, <2>6, <2>7 DEF SwitchingTo
<1>17. Phase'
  BY <1>16 DEF Phase, Switching
<1>. QED  BY <1>10, <1>11, <1>13, <1>17, OpenNext

(* A state in memory between two journals that exist is the recorded one,   *)
(* but for the read position.                                               *)
LEMMA FollowsTwo ==
    ASSUME NEW st, Follows(st), Exists(st.rj), Exists(st.wj), st.rj # st.wj
    PROVE  /\ Rec # <<>> /\ Rec[1].rj = st.rj /\ Rec[1].wj = st.wj
           /\ Rec[1].rcount = st.rcount /\ Rec[1].wcount = st.wcount
<1>1. Rec # <<>>
  BY DEF Follows, newMsgQueueState
<1>. QED  BY <1>1 DEF Follows

(* The journal read to its end is removed. *)
LEMMA SwitchedStep ==
    ASSUME IInv, NEW rd, SwitchingTo(rd), mem = Moved, Step,
           todo = <<RemoveJournal(mem.state.rj), AppendState(Switched(mem.state)),
                    Assign(Entered)>> \o rd
    PROVE  IInv' /\ Allows
<1>1. PICK mq : mq = mem
  OBVIOUS
<1>2. PICK entered : entered = Entered
  OBVIOUS
<1>3. PICK st : st = mq.state
  OBVIOUS
<1>4. PICK r : r = Rec[1]
  OBVIOUS
<1>5. PICK sw : sw = Switched(st)
  OBVIOUS
<1>6. /\ mq.open /\ LogReady /\ Stored(st) /\ Follows(st)
      /\ Logged(st) \/ Expiring
      /\ Exists(st.rj) /\ Exists(st.wj) /\ st.rj # st.wj /\ st.rpos = st.rcount
      /\ ReadForm(entered, rd) /\ JobFits(entered)
      /\ qstate = <<qState(st)>> /\ mq \in Queues /\ TipOK(mq)
  BY <1>1, <1>2, <1>3 DEF SwitchingTo, IInv, Remembered
<1>7. DiskOK /\ FilesOK /\ Recoverable
  BY DEF IInv, Typed, DiskOK
<1>8. /\ st \in States /\ validQueueState(st)
      /\ st.rpos \in Nat /\ st.rcount \in Nat /\ st.wcount \in Nat /\ st.size \in Nat
      /\ st.rj \in JournalId /\ st.wj \in JournalId
      /\ st.wcount > 0 /\ st.wcount <= Len(files[st.wj])
      /\ st.size = st.wcount
  BY <1>6, StoredHolds, ValidState
<1>9. /\ sw \in States
      /\ sw.rj = st.wj /\ sw.wj = st.wj /\ sw.rpos = 0
      /\ sw.rcount = st.wcount /\ sw.wcount = st.wcount
      /\ sw.canWrite = st.canWrite /\ sw.size = st.wcount
  BY <1>5, <1>8, SwitchedFields
<1>10. /\ entered \in Queues /\ entered.open = TRUE /\ entered.state = sw
       /\ entered.readHandle = st.wj /\ entered.writeHandle = 0 /\ entered.tip = mq.tip
  <2>1. mem \in Queues
    BY <1>1, <1>6
  <2>. QED  BY <1>1, <1>2, <1>3, <1>5, <2>1, MovedFields
<1>11. PICK S : rd \in Seq(S)
  <2>1. <<>> \in Seq({0}) /\ <<ReadTip(entered.state.rj, entered.state.rpos)>>
                               \in Seq({ReadTip(entered.state.rj, entered.state.rpos)})
    OBVIOUS
  <2>. QED  BY <1>6, <2>1 DEF ReadForm
<1>12. /\ todo # <<>> /\ Head(todo) = RemoveJournal(st.rj)
       /\ Tail(todo) = <<AppendState(sw), Assign(entered)>> \o rd
  BY <1>1, <1>2, <1>3, <1>5, <1>11, ConsThree
<1>13. DoRemove /\ Head(todo).j = st.rj
  BY <1>12, EffectOf, EffectFields
<1>14. /\ files' = [k \in DOMAIN files \ {st.rj} |-> files[k]]
       /\ todo' = <<AppendState(sw), Assign(entered)>> \o rd
       /\ UNCHANGED <<dir, log, bak, mem, qstate, job, lastId, deleted, faults, errors>>
  BY <1>12, <1>13 DEF DoRemove, Done
<1>15. /\ FilesOK' /\ ~Exists(st.rj)' /\ Exists(st.wj)' /\ files'[st.wj] = files[st.wj]
  BY <1>6, <1>7, <1>14, RemoveKeeps DEF Exists
<1>16. /\ Rec # <<>> /\ r.rj = st.rj /\ r.wj = st.wj
       /\ r.rcount = st.rcount /\ r.wcount = st.wcount
       /\ Stored(r) /\ Rec = <<r>>
  <2>1. Rec # <<>> /\ r.rj = st.rj /\ r.wj = st.wj /\ r.rcount = st.rcount /\ r.wcount = st.wcount
    BY <1>4, <1>6, FollowsTwo
  <2>. QED  BY <1>4, <1>7, <2>1, RecOf DEF Recoverable
<1>17. DiskOK' /\ Rec' = Rec /\ NoneLost
  <2>1. LogOK(log)' /\ LogOK(bak)'
    BY <1>7, <1>14 DEF DiskOK, LogOK, States, JournalId
  <2>2. dir /\ dir'
    BY <1>6, <1>14 DEF LogReady
  <2>3. DiskOK'
    BY <1>7, <1>14, <1>15, <2>1, <2>2 DEF DiskOK
  <2>. QED  BY <1>14, <2>3 DEF Rec, StateFile, NoneLost
<1>18. Holds(st.wj, st.wcount) /\ Marked(st) /\ Marked(r)
  BY <1>6, <1>16 DEF Stored
<1>19. ASSUME NEW s \in States, validQueueState(s), s.rj # s.wj => s.wcount > 0,
              s.wj = st.wj, s.wcount = st.wcount, s.canWrite = st.canWrite \/ s.canWrite = r.canWrite,
              s.rj = st.rj \/ (s.rj = st.wj /\ s.rcount = st.wcount)
       PROVE  Stored(s)'
  <2>1. Holds(s.wj, s.wcount)'
    <3>1. Holds(st.wj, st.wcount)'
      BY <1>6, <1>15, <1>18 DEF Holds, Message
    <3>2. Holds(s.wj, s.wcount)' = Holds(st.wj, st.wcount)'
      BY <1>19
    <3>. QED  BY <3>1, <3>2
  <2>2. Holds(s.rj, s.rcount)'
    <3>1. CASE s.rj = st.rj
      BY <1>15, <3>1 DEF Holds
    <3>2. CASE s.rj = st.wj /\ s.rcount = st.wcount
      BY <1>19, <2>1, <3>2
    <3>. QED  BY <1>19, <3>1, <3>2
  <2>3. Marked(s)'
    BY <1>14, <1>15, <1>16, <1>18, <1>19 DEF Marked
  <2>. QED  BY <1>19, <2>1, <2>2, <2>3 DEF Stored, States, JournalId, validQueueState
<1>20. Stored(st)' /\ Stored(r)' /\ Stored(sw)'
  <2>1. Stored(st)'
    BY <1>6, <1>8, <1>19 DEF Stored
  <2>2. Stored(r)'
    BY <1>16, <1>19, StoredHolds
  <2>3. validQueueState(sw)
    BY <1>8, <1>9 DEF validQueueState
  <2>4. Stored(sw)'
    BY <1>9, <1>19, <2>3
  <2>. QED  BY <2>1, <2>2, <2>4
<1>21. /\ Durable' = Messages(r)' /\ Recoverable'
       /\ Messages(r)' = Messages(st) /\ Messages(sw)' = Messages(st)
  <2>1. Rec[1]' = r /\ Rec' # <<>>
    BY <1>16, <1>17
  <2>2. Stored(Rec[1])' = Stored(r)' /\ Messages(Rec[1])' = Messages(r)'
    BY <2>1
  <2>3. Durable' = Messages(r)' /\ Recoverable'
    BY <1>17, <1>20, <2>1, <2>2, RecOfNext DEF Recoverable
  <2>4. /\ Messages(st) \in Seq(Message) /\ Len(Messages(st)) = st.wcount
        /\ \A i \in 1..st.wcount : Messages(st)[i] = files[st.wj][i]
    <3>1. InRead(st) = 0 /\ InWrite(st) = st.wcount
      BY <1>6, <1>8 DEF InRead, InWrite
    <3>2. MessagesFit(st)
      BY <1>6, <1>7, MessagesOf
    <3>3. \A i \in 1..st.wcount : 0 + i = i
      OBVIOUS
    <3>. QED  BY <1>8, <3>1, <3>2, <3>3 DEF MessagesFit
  <2>5. /\ Messages(r)' \in Seq(Message) /\ Len(Messages(r)') = st.wcount
        /\ \A i \in 1..st.wcount : Messages(r)'[i] = files[st.wj][i]
    <3>1. InRead(r)' = 0 /\ InWrite(r)' = st.wcount
      BY <1>6, <1>15, <1>16 DEF InRead, InWrite
    <3>2. MessagesFit(r)'
      BY <1>15, <1>20, MessagesOfNext
    <3>3. /\ Messages(r)' \in Seq(Message) /\ Len(Messages(r)') = InRead(r)' + InWrite(r)'
          /\ \A i \in 1..InWrite(r)' : Messages(r)'[InRead(r)' + i] = files'[r.wj][i]
      BY <3>2 DEF MessagesFit, Message
    <3>4. \A i \in 1..st.wcount : 0 + i = i
      OBVIOUS
    <3>. QED  BY <1>8, <1>15, <1>16, <3>1, <3>3, <3>4
  <2>6. /\ Messages(sw)' \in Seq(Message) /\ Len(Messages(sw)') = st.wcount
        /\ \A i \in 1..st.wcount : Messages(sw)'[i] = files[st.wj][i]
    <3>1. InRead(sw)' = st.wcount /\ InWrite(sw)' = 0
      BY <1>8, <1>9, <1>15 DEF InRead, InWrite
    <3>2. MessagesFit(sw)'
      BY <1>15, <1>20, MessagesOfNext
    <3>3. /\ Messages(sw)' \in Seq(Message) /\ Len(Messages(sw)') = InRead(sw)' + InWrite(sw)'
          /\ \A i \in 1..InRead(sw)' : Messages(sw)'[i] = files'[sw.rj][sw.rpos + i]
      BY <3>2 DEF MessagesFit, Message
    <3>4. \A i \in 1..st.wcount : 0 + i = i
      OBVIOUS
    <3>. QED  BY <1>8, <1>9, <1>15, <3>1, <3>3, <3>4
  <2>. QED  BY <2>3, <2>4, <2>5, <2>6, SeqEqual
<1>22. Allows
  <2>1. Without(Durable, st.rpos - From(st), Messages(st))
    BY <1>6, <1>7, FollowsSuffix
  <2>2. st.rpos - From(st) = 0 \/ "EXPIRE" \in Ops
    <3>1. Logged(st) => st.rpos - From(st) = 0
      BY <1>8 DEF Logged
    <3>2. Expiring => "EXPIRE" \in Ops
      BY DEF Expiring
    <3>. QED  BY <1>6, <3>1, <3>2
  <2>3. Allowed(Durable, Messages(st))
    BY <2>1, <2>2, WithoutIsAllowed
  <2>. QED  BY <1>21, <2>3 DEF Allows
<1>23. TipOK(mq)' /\ Sound(entered)'
  <2>1. mq.tip # <<>> => mq.tip[1] = files[st.wj][1]
    BY <1>3, <1>6, <1>8 DEF TipOK
  <2>2. TipOK(mq)'
    BY <1>3, <1>6, <1>8, <1>15, <2>1 DEF TipOK
  <2>3. 0 + 1 = 1 /\ sw.rpos < sw.rcount
    BY <1>8, <1>9
  <2>4. TipOK(entered)'
    BY <1>9, <1>10, <1>15, <2>1, <2>3 DEF TipOK
  <2>5. Handles(entered)'
    BY <1>9, <1>10, <1>15 DEF Handles, Stranded
  <2>6. Stored(entered.state)' /\ (entered \in Queues)'
    BY <1>10, <1>20 DEF Queues, States, JournalId, Message
  <2>. QED  BY <2>2, <2>4, <2>5, <2>6 DEF Sound
<1>24. Remembered'
  <2>1. Stored(mq.state)' /\ mem' = mq /\ qstate' = <<qState(mq.state)>>
    BY <1>1, <1>3, <1>6, <1>14, <1>20
  <2>. QED  BY <1>6, <1>23, <2>1, RememberedOpen
<1>25. CommittingTo(entered, rd)'
  <2>1. LogReady'
    BY <1>6, <1>14 DEF LogReady
  <2>2. Settled(entered)' /\ ReadForm(entered, rd)' /\ JobFits(entered)'
    BY <1>6, <1>10, <1>14 DEF Settled, Stranded, ReadForm, ReadTip, JobFits, Peeked
  <2>3. Allowed(Durable, Messages(entered.state))'
    <3>1. Messages(entered.state)' = Messages(sw)'
      BY <1>10
    <3>. QED  BY <1>21, <3>1 DEF Allowed
  <2>4. mem'.open
    BY <1>1, <1>6, <1>14
  <2>5. /\ AppendState(entered.state)' = AppendState(sw)
        /\ Assign(entered)' = Assign(entered)
    BY <1>10 DEF AppendState, Assign, qState
  <2>. QED  BY <1>10, <1>14, <1>23, <2>1, <2>2, <2>3, <2>4, <2>5 DEF CommittingTo
<1>26. Phase'
  BY <1>25 DEF Phase, Committing
<1>. QED  BY <1>14, <1>17, <1>21, <1>22, <1>24, <1>26, OpenNext

(* Reading moves to the journal written to. *)
LEMMA SwitchingStep ==
    ASSUME IInv, Switching, Step
    PROVE  IInv' /\ Allows
<1>1. PICK rd : SwitchingTo(rd)
  BY DEF Switching
<1>. QED  BY <1>1, MovingStep, SwitchedStep DEF SwitchingTo

-----------------------------------------------------------------------------
(* Writing *)

(* The list of the effects that append a message and log the state. *)
LEMMA PutSeq ==
    ASSUME NEW mq, NEW h, NEW pos, NEW msg
    PROVE  \E S : <<FixFileSize(h, pos)>> \o PutForm(mq, h, pos, msg) \in Seq(S)
<1>1. PICK a, b, c, d : <<FixFileSize(h, pos)>> = <<a>> /\ PutForm(mq, h, pos, msg) = <<b, c, d>>
  BY DEF PutForm
<1>2. <<a>> \in Seq({a, b, c, d}) /\ <<b, c, d>> \in Seq({a, b, c, d})
  OBVIOUS
<1>3. <<a>> \o <<b, c, d>> \in Seq({a, b, c, d})
  BY <1>2
<1>. QED  BY <1>1, <1>3

(* It depends on nothing but its parameters. *)
LEMMA PutSame ==
    ASSUME NEW mq, mq.open, NEW h, NEW pos, NEW msg
    PROVE  /\ (<<FixFileSize(h, pos)>> \o PutForm(mq, h, pos, msg))' =
                <<FixFileSize(h, pos)>> \o PutForm(mq, h, pos, msg)
           /\ PutForm(mq, h, pos, msg)' = PutForm(mq, h, pos, msg)
<1>1. FixFileSize(h, pos)' = FixFileSize(h, pos) /\ PutMsg(h, msg)' = PutMsg(h, msg)
  BY DEF FixFileSize, PutMsg
<1>2. /\ After(mq.state, h, pos, msg)' = After(mq.state, h, pos, msg)
      /\ Written(mq, h, pos, msg)' = Written(mq, h, pos, msg)
  BY DEF After, Written
<1>3. Written(mq, h, pos, msg).open
  BY DEF Written
<1>4. Assign(Written(mq, h, pos, msg))' = Assign(Written(mq, h, pos, msg))
  BY <1>2, <1>3 DEF Assign, qState
<1>5. AppendState(After(mq.state, h, pos, msg))' = AppendState(After(mq.state, h, pos, msg))
  BY <1>2 DEF AppendState
<1>6. PutForm(mq, h, pos, msg)' = PutForm(mq, h, pos, msg)
  BY <1>1, <1>4, <1>5, Zenon DEF PutForm
<1>. QED  BY <1>1, <1>6

(* The message may be written as long as the state in memory is the same. *)
LEMMA WritableNext ==
    ASSUME NEW msg, Writable(msg), mem'.state = mem.state
    PROVE  Writable(msg)'
    BY DEF Writable, Message

(* The directory and the first journal are made. *)
LEMMA StartingStep ==
    ASSUME IInv, mem.open, job = <<>>, NEW msg, StartingWith(msg), Step
    PROVE  IInv' /\ Allows
<1>1. PICK mq : mq = mem
  OBVIOUS
<1>2. PICK j : j = mq.state.rj
  OBVIOUS
<1>w. PICK w : w = [mq EXCEPT !.readHandle = j]
  OBVIOUS
<1> DEFINE new == newMsgQueueState(j)
           put == <<FixFileSize(j, 0)>> \o PutForm(w, j, 0, msg)
<1>3. /\ Unwritten(mq) /\ Writable(msg)
      /\ \/ todo = <<Mkdir, CreateJournal(j), Assign(w)>> \o put
         \/ dir /\ todo = <<CreateJournal(j), Assign(w)>> \o put
         \/ dir /\ Exists(j) /\ todo = <<Assign(w)>> \o put
  BY <1>1, <1>2, <1>w DEF StartingWith
<1>4. /\ j \in JournalId /\ mq = Opened(new, 0, 0) /\ log = NoLines /\ bak = NoLines
      /\ Exists(j) => files[j] = <<>>
  BY <1>2, <1>3 DEF Unwritten
<1>5. /\ DiskOK /\ FilesOK /\ Recoverable /\ Remembered /\ Rec = <<>> /\ qstate = <<qState(new)>>
      /\ dir \in BOOLEAN
  <2>1. mq.state = new
    BY <1>4 DEF Opened
  <2>2. Recorded(NoLines) = <<>>
    BY DEF Recorded, NoLines
  <2>. QED  BY <1>1, <1>4, <2>1, <2>2 DEF IInv, Typed, DiskOK, Remembered, Rec, StateFile
<1>6. /\ new \in States /\ Stored(new) /\ new.rj = j /\ new.wj = j /\ new.rpos = 0
      /\ new.wcount = 0
  BY <1>4, <1>5, NewState
<1>7. w = Opened(new, j, 0) /\ mq.state = new /\ mq.open /\ mq \in Queues /\ TipOK(mq)
  <2>1. mq \in Queues /\ TipOK(mq) /\ mq.open
    BY <1>3, <1>5, MemFields DEF MemOK
  <2>2. mq.state = new
    BY <1>4 DEF Opened
  <2>3. w = Opened(new, j, 0)
    <3>1. mq = [open |-> TRUE, state |-> new, readHandle |-> 0, writeHandle |-> 0, tip |-> <<>>]
      BY <1>4 DEF Opened
    <3>2. w = [open |-> mq.open, state |-> mq.state, readHandle |-> j,
               writeHandle |-> mq.writeHandle, tip |-> mq.tip]
      BY <1>w, <2>1 DEF Queues
    <3> HIDE DEF new
    <3>. QED  BY <3>1, <3>2 DEF Opened
  <2>. QED  BY <2>1, <2>2, <2>3
<1>8. /\ w.open /\ w.state = new /\ w.writeHandle = 0 /\ ~Stranded(w)
      /\ Assign(w).do = "assign" /\ Assign(w).mem = w /\ Assign(w).qstate = <<qState(new)>>
      /\ Assign(w)' = Assign(w)
  <2>1. /\ w.open = TRUE /\ w.state = new /\ w.writeHandle = 0
    BY <1>7 DEF Opened
  <2>2. /\ Assign(w).do = "assign" /\ Assign(w).mem = w
        /\ Assign(w).qstate = IF w.open THEN <<qState(w.state)>> ELSE qstate
    BY EffectFields
  <2>3. ~Stranded(w)
    BY <2>1 DEF Stranded
  <2>4. Assign(w)' = Assign(w)
    BY <2>1 DEF Assign, qState
  <2> HIDE DEF new
  <2>. QED  BY <2>1, <2>2, <2>3, <2>4
<1>9. PICK S : put \in Seq(S)
  BY PutSeq
<1>10. /\ Mkdir' = Mkdir /\ CreateJournal(j)' = CreateJournal(j)
       /\ put' = put
  BY <1>8, PutSame DEF Mkdir, CreateJournal
<1>11. ASSUME mem' = mq, log' = log, bak' = bak,
              Exists(j)' => files'[j] = <<>>
       PROVE  Unwritten(mem)' /\ mem'.state = new /\ Writable(msg)'
              /\ MemOK(mem)' /\ (Rec' = Rec => Logged(mem.state)')
  <2>1. Unwritten(mq)'
    BY <1>4, <1>11, UnwrittenNext
  <2>2. Unwritten(mem)' = Unwritten(mq)'
    BY <1>11
  <2>3. Writable(msg)'
    BY <1>1, <1>3, <1>11, WritableNext
  <2>4. Rec' = Rec => Logged(new)'
    BY <1>5, <1>6 DEF Logged, From
  <2>5. Logged(mem.state)' = Logged(new)'
    BY <1>7, <1>11
  <2>. QED  BY <1>7, <1>11, <2>1, <2>2, <2>3, <2>4, <2>5 DEF MemOK
<1> HIDE DEF new, put
<1>12. CASE todo = <<Mkdir, CreateJournal(j), Assign(w)>> \o put
  <2>1. /\ todo # <<>> /\ Head(todo) = Mkdir
        /\ Tail(todo) = <<CreateJournal(j), Assign(w)>> \o put
    BY <1>9, <1>12, ConsThree
  <2>2. DoMkdir
    BY <2>1, EffectOf, EffectFields
  <2>3. /\ dir' = TRUE /\ todo' = <<CreateJournal(j), Assign(w)>> \o put
        /\ UNCHANGED <<files, log, bak, mem, qstate, job, lastId, deleted, faults, errors>>
    BY <2>1, <2>2 DEF DoMkdir, Done
  <2>4. FilesOK' /\ \A st : Stored(st) => KeptFor(st)
    BY <1>5, <2>3, SameKeeps
  <2>5. DiskOK' /\ Recoverable' /\ Durable' = Durable /\ Rec' = Rec /\ NoneLost /\ Allows
    BY <1>5, <2>3, <2>4, FileEffect
  <2>6. Remembered'
    <3>1. KeptFor(mem.state)
      BY <1>1, <1>6, <1>7, <2>4
    <3>. QED  BY <1>5, <2>3, <2>5, <3>1, RememberedKept
  <2>7. Unwritten(mem)' /\ Writable(msg)' /\ MemOK(mem)' /\ Logged(mem.state)'
    <3>1. Exists(j)' => files'[j] = <<>>
      BY <1>4, <2>3 DEF Exists
    <3>. QED  BY <1>1, <1>11, <2>3, <2>5, <3>1
  <2>8. StartingWith(msg)'
    BY <1>1, <1>2, <1>w, <1>8, <1>10, <2>3, <2>7 DEF StartingWith, put
  <2>9. Phase'
    BY <1>1, <1>7, <2>3, <2>7, <2>8 DEF Phase, WritePhase, Starting
  <2>. QED  BY <2>3, <2>5, <2>6, <2>9, OpenNext
<1>13. CASE dir /\ todo = <<CreateJournal(j), Assign(w)>> \o put
  <2>1. /\ todo # <<>> /\ Head(todo) = CreateJournal(j)
        /\ Tail(todo) = <<Assign(w)>> \o put
    BY <1>9, <1>13, ConsTwo
  <2>2. DoCreate /\ Head(todo).j = j
    BY <2>1, EffectOf, EffectFields
  <2>3. /\ files' = [k \in DOMAIN files \cup {j} |-> IF Exists(k) THEN files[k] ELSE <<>>]
        /\ todo' = <<Assign(w)>> \o put
        /\ UNCHANGED <<dir, log, bak, mem, qstate, job, lastId, deleted, faults, errors>>
    BY <2>1, <2>2 DEF DoCreate, Done
  <2>4. /\ FilesOK' /\ Exists(j)' /\ (~Exists(j) => files'[j] = <<>>)
        /\ \A k \in DOMAIN files : Exists(k)' /\ files'[k] = files[k]
    BY <1>4, <1>5, <2>3, CreateKeeps
  <2>5. DiskOK' /\ Recoverable' /\ Durable' = Durable /\ Rec' = Rec /\ NoneLost /\ Allows
    BY <1>5, <1>13, <2>3, <2>4, FileEffect
  <2>6. files'[j] = <<>>
    BY <1>4, <2>4 DEF Exists
  <2>7. Remembered'
    <3>1. Stored(newMsgQueueState(j))' /\ new' = new
      BY <1>4, <2>4, NewStateNext DEF new, newMsgQueueState
    <3>2. Stored(mq.state)'
      BY <1>7, <3>1 DEF new
    <3>3. TipOK(mq)'
      BY <1>4 DEF TipOK, Opened
    <3>. QED  BY <1>1, <1>5, <1>7, <2>3, <3>2, <3>3, RememberedOpen
  <2>8. Unwritten(mem)' /\ Writable(msg)' /\ MemOK(mem)' /\ Logged(mem.state)'
    BY <1>1, <1>11, <2>3, <2>5, <2>6
  <2>9. StartingWith(msg)'
    BY <1>1, <1>2, <1>w, <1>8, <1>10, <1>13, <2>3, <2>4, <2>8 DEF StartingWith, put
  <2>10. Phase'
    BY <1>1, <1>7, <2>3, <2>8, <2>9 DEF Phase, WritePhase, Starting
  <2>. QED  BY <2>3, <2>5, <2>7, <2>10, OpenNext
<1>14. CASE dir /\ Exists(j) /\ todo = <<Assign(w)>> \o put
  <2>1. todo # <<>> /\ Head(todo) = Assign(w) /\ Tail(todo) = put
    BY <1>9, <1>14, ConsOne
  <2>2. DoAssign /\ Head(todo).mem = w /\ Head(todo).qstate = <<qState(new)>>
    BY <1>8, <2>1, EffectOf
  <2>3. /\ mem' = w /\ qstate' = <<qState(new)>> /\ todo' = put
        /\ UNCHANGED <<disk, job, lastId, deleted, faults, errors>>
    BY <2>1, <2>2 DEF DoAssign, Done
  <2>4. DiskOK' /\ Recoverable' /\ Rec' = Rec /\ Allows
    BY <1>5, <2>3, DiskSame
  <2>5. Sound(w)'
    <3>1. FilesOK' /\ Exists(j)'
      BY <1>14, <2>3, <2>4 DEF DiskOK, Exists, disk
    <3>2. Sound(Opened(newMsgQueueState(j), j, 0))'
      BY <1>4, <3>1, OpenedNewNext
    <3>3. /\ w = Opened(newMsgQueueState(j), j, 0)
          /\ Opened(newMsgQueueState(j), j, 0)' = Opened(newMsgQueueState(j), j, 0)
      BY <1>7 DEF new, Opened, newMsgQueueState
    <3>. QED  BY <3>2, <3>3
  <2>6. Remembered'
    <3>1. w \in Queues /\ Stored(w.state)' /\ TipOK(w)'
      BY <2>5 DEF Sound, Queues, States, JournalId, Message
    <3>. QED  BY <1>8, <2>3, <3>1, RememberedOpen
  <2>7. Follows(w.state)' /\ Logged(w.state)'
    <3>1. Rec' = <<>>
      BY <1>5, <2>4
    <3>2. newMsgQueueState(new.rj)' = new
      BY <1>6 DEF new, newMsgQueueState
    <3>. QED  BY <1>6, <1>8, <3>1, <3>2 DEF Follows, Logged, From
  <2>8. LogReady'
    BY <1>4, <1>14, <2>3 DEF LogReady, NoLines, disk
  <2>9. Writable(msg)'
    BY <1>1, <1>3, <1>7, <1>8, <2>3, WritableNext
  <2>10. Sound(mem)' /\ MemOK(mem)' /\ Logged(mem.state)'
    <3>1. /\ Sound(mem)' = Sound(w)' /\ Follows(mem.state)' = Follows(w.state)'
          /\ Logged(mem.state)' = Logged(w.state)'
      BY <2>3
    <3>. QED  BY <2>5, <2>7, <2>8, <3>1 DEF MemOK
  <2>11. PuttingAt(j, 0, msg)'
    <3>1. Target(j, 0)'
      <4>1. Stranded(mem)' = Stranded(w)'
        BY <2>3
      <4>2. Stranded(w)' = Stranded(w)
        BY DEF Stranded
      <4>. QED  BY <1>6, <1>8, <2>3, <4>1, <4>2 DEF Target
    <3>2. todo' = (<<FixFileSize(j, 0)>> \o PutForm(mem, j, 0, msg))'
      <4>1. put' = put
        BY <1>10
      <4>. QED  BY <2>3, <4>1 DEF put
    <3>. QED  BY <2>9, <2>10, <3>1, <3>2 DEF PuttingAt
  <2>12. Phase'
    BY <1>8, <2>3, <2>10, <2>11 DEF Phase, WritePhase, Putting
  <2>. QED  BY <2>3, <2>4, <2>6, <2>12, OpenNext
<1>. QED  BY <1>3, <1>12, <1>13, <1>14

(* A queue that is written to has its files. *)
LEMMA SoundIsReady ==
    ASSUME NEW mq, MemOK(mq), Sound(mq)
    PROVE  LogReady /\ Follows(mq.state)
<1>1. ASSUME Unwritten(mq)
      PROVE  FALSE
  <2>1. PICK j : mq = Opened(newMsgQueueState(j), 0, 0)
    BY <1>1 DEF Unwritten
  <2>2. Opened(newMsgQueueState(j), 0, 0).readHandle = 0
    BY DEF Opened
  <2>3. mq.readHandle \in JournalId
    BY StoredHolds DEF Sound, Handles
  <2>. QED  BY <2>1, <2>2, <2>3 DEF JournalId
<1>. QED  BY <1>1 DEF MemOK

(* Another journal is made. *)
LEMMA ExtendingStep ==
    ASSUME IInv, mem.open, job = <<>>, MemOK(mem), Logged(mem.state),
           NEW j, NEW msg, ExtendingWith(j, msg), Step
    PROVE  IInv' /\ Allows
<1>1. PICK mq : mq = mem
  OBVIOUS
<1>2. PICK w : w = [mq EXCEPT !.writeHandle = j]
  OBVIOUS
<1>3. PICK st : st = mq.state
  OBVIOUS
<1> DEFINE put == <<FixFileSize(j, 0)>> \o PutForm(w, j, 0, msg)
<1>4. /\ Sound(mq) /\ mq.writeHandle = 0 /\ st.wcount >= MaxMsgCount /\ j \in JournalId
      /\ Writable(msg) /\ MemOK(mq) /\ Logged(st)
      /\ \/ /\ todo = <<CreateJournal(j), Assign(w)>> \o put
            /\ ~Exists(j)
            /\ Rec # <<>> => Rec[1].rj # j /\ Rec[1].wj # j
         \/ /\ todo = <<Assign(w)>> \o put
            /\ Exists(j) /\ j # st.rj /\ files[j] = <<>>
  BY <1>1, <1>2, <1>3 DEF ExtendingWith
<1>5. /\ DiskOK /\ FilesOK /\ Recoverable /\ Remembered /\ dir \in BOOLEAN
      /\ qstate = <<qState(st)>>
  BY <1>1, <1>3 DEF IInv, Typed, DiskOK, Remembered
<1>6. LogReady /\ Follows(st)
  BY <1>3, <1>4, SoundIsReady
<1>7. /\ mq \in Queues /\ mq.open = TRUE /\ Stored(st) /\ TipOK(mq) /\ Handles(mq)
      /\ Exists(st.rj) /\ Exists(st.wj) /\ mq.readHandle = st.rj
      /\ st.rj = st.wj /\ st.rj \in JournalId
  <2>1. /\ mq \in Queues /\ mq.open = TRUE /\ Stored(st) /\ TipOK(mq) /\ Handles(mq)
        /\ Exists(st.rj) /\ Exists(st.wj) /\ mq.readHandle = st.rj
        /\ st.rj # st.wj => mq.writeHandle = st.wj
    BY <1>3, <1>4, QueueFields DEF Sound, Handles
  <2>. QED  BY <1>4, <2>1, StoredHolds DEF JournalId
<1>8. /\ w \in Queues /\ w.open = TRUE /\ w.state = st /\ w.readHandle = st.rj
      /\ w.writeHandle = j /\ w.tip = mq.tip
  <2>1. j \in Nat /\ mq \in Queues
    BY <1>4, <1>7 DEF JournalId
  <2>2. w \in Queues
    BY <1>2, <2>1 DEF Queues
  <2>3. /\ w.state = mq.state /\ w.readHandle = mq.readHandle
        /\ w.writeHandle = j /\ w.tip = mq.tip
    BY <1>2, <2>1 DEF Queues
  <2>4. w.open = TRUE
    BY <2>2 DEF Queues
  <2>. QED  BY <1>3, <1>7, <2>2, <2>3, <2>4
<1>9. /\ Assign(w).do = "assign" /\ Assign(w).mem = w /\ Assign(w).qstate = <<qState(st)>>
      /\ Assign(w)' = Assign(w)
  <2>1. /\ Assign(w).do = "assign" /\ Assign(w).mem = w
        /\ Assign(w).qstate = IF w.open THEN <<qState(w.state)>> ELSE qstate
    BY EffectFields
  <2>2. Assign(w)' = Assign(w)
    BY <1>8 DEF Assign, qState
  <2>. QED  BY <1>8, <2>1, <2>2
<1>10. PICK S : put \in Seq(S)
  BY PutSeq
<1>11. put' = put
  BY <1>8, PutSame
<1> HIDE DEF put
<1>12. CASE /\ todo = <<CreateJournal(j), Assign(w)>> \o put
            /\ ~Exists(j)
            /\ Rec # <<>> => Rec[1].rj # j /\ Rec[1].wj # j
  <2>1. /\ todo # <<>> /\ Head(todo) = CreateJournal(j)
        /\ Tail(todo) = <<Assign(w)>> \o put
    BY <1>10, <1>12, ConsTwo
  <2>2. DoCreate /\ Head(todo).j = j
    BY <2>1, EffectOf, EffectFields
  <2>3. /\ files' = [k \in DOMAIN files \cup {j} |-> IF Exists(k) THEN files[k] ELSE <<>>]
        /\ todo' = <<Assign(w)>> \o put
        /\ UNCHANGED <<dir, log, bak, mem, qstate, job, lastId, deleted, faults, errors>>
    BY <2>1, <2>2 DEF DoCreate, Done
  <2>4. /\ FilesOK' /\ Exists(j)' /\ files'[j] = <<>>
        /\ \A s : Stored(s) /\ (Exists(j) \/ (s.rj # j /\ s.wj # j)) => KeptFor(s)
    BY <1>4, <1>5, <1>12, <2>3, CreateKeeps
  <2>5. /\ KeptFor(st) /\ (Rec # <<>> => KeptFor(Rec[1]))
        /\ j # st.rj
    BY <1>5, <1>7, <1>12, <2>4 DEF Recoverable
  <2>6. DiskOK' /\ Recoverable' /\ Durable' = Durable /\ Rec' = Rec /\ NoneLost /\ Allows
    BY <1>5, <1>6, <2>3, <2>4, <2>5, FileEffect DEF LogReady
  <2>7. Remembered'
    BY <1>1, <1>3, <1>5, <1>7, <2>3, <2>5, <2>6, RememberedKept
  <2>8. ~Stranded(mq)
    BY <1>4 DEF Stranded
  <2>9. Sound(mq)' /\ MemOK(mq)' /\ Logged(st)'
    <3>1. Sound(mq)'
      BY <1>3, <1>4, <2>5, <2>6, <2>8, SoundKept DEF StrandedKept
    <3>2. Follows(st)' /\ From(st)' = From(st)
      BY <1>5, <1>6, <1>7, <2>5, <2>6, FollowsKept
    <3>3. LogReady'
      BY <1>6, <2>3 DEF LogReady
    <3>. QED  BY <1>3, <1>4, <3>1, <3>2, <3>3 DEF MemOK, Logged
  <2>10. /\ Sound(mem)' /\ MemOK(mem)' /\ Logged(mem.state)' /\ Writable(msg)'
    <3>1. /\ Sound(mem)' = Sound(mq)' /\ MemOK(mem)' = MemOK(mq)'
          /\ Logged(mem.state)' = Logged(st)'
      BY <1>1, <1>3, <2>3
    <3>2. Writable(msg)'
      BY <1>4, <2>3, WritableNext
    <3>. QED  BY <2>9, <3>1, <3>2
  <2>11. ExtendingWith(j, msg)'
    BY <1>1, <1>2, <1>3, <1>4, <1>9, <1>11, <2>3, <2>4, <2>5, <2>10
    DEF ExtendingWith, put, JournalId
  <2>12. Phase'
    BY <1>1, <1>7, <2>3, <2>10, <2>11 DEF Phase, WritePhase, Extending
  <2>. QED  BY <2>3, <2>6, <2>7, <2>12, OpenNext
<1>13. CASE /\ todo = <<Assign(w)>> \o put
            /\ Exists(j) /\ j # st.rj /\ files[j] = <<>>
  <2>1. todo # <<>> /\ Head(todo) = Assign(w) /\ Tail(todo) = put
    BY <1>10, <1>13, ConsOne
  <2>2. DoAssign /\ Head(todo).mem = w /\ Head(todo).qstate = <<qState(st)>>
    BY <1>9, <2>1, EffectOf
  <2>3. /\ mem' = w /\ qstate' = <<qState(st)>> /\ todo' = put
        /\ UNCHANGED <<disk, job, lastId, deleted, faults, errors>>
    BY <2>1, <2>2 DEF DoAssign, Done
  <2>4. /\ DiskOK' /\ Recoverable' /\ Rec' = Rec /\ NoneLost /\ Allows
        /\ \A s : Stored(s) => KeptFor(s)
    BY <1>5, <2>3, DiskSame
  <2>5. Stranded(w) /\ Stranded(w)' /\ files'[j] = <<>>
    BY <1>4, <1>7, <1>8, <1>13, <2>3 DEF Stranded, JournalId, disk
  <2>6. Sound(w) /\ MemOK(w)
    <3>1. Handles(w)
      <4>1. Len(files[j]) <= 1
        BY <1>13
      <4>. QED  BY <1>4, <1>7, <1>8, <1>13, <4>1 DEF Handles
    <3>2. TipOK(w)
      BY <1>3, <1>7, <1>8 DEF TipOK
    <3>. QED  BY <1>6, <1>7, <1>8, <3>1, <3>2 DEF Sound, MemOK
  <2>7. MemOK(w)' /\ Logged(w.state)' /\ Sound(w)'
    <3>1. MemOK(w)' /\ (Logged(w.state)' <=> Logged(w.state))
      BY <1>5, <2>3, <2>6, QuietSame
    <3>2. KeptFor(w.state) /\ StrandedKept(w)
      BY <2>3, <2>4, <2>6 DEF Sound, Handles, StrandedKept, Exists, disk
    <3>3. Sound(w)'
      BY <2>4, <2>6, <3>2, SoundKept
    <3>. QED  BY <1>4, <1>8, <3>1, <3>3
  <2>8. Remembered'
    <3>1. w \in Queues /\ Stored(w.state)' /\ TipOK(w)'
      BY <2>7 DEF Sound, Queues, States, JournalId, Message
    <3>. QED  BY <1>8, <2>3, <3>1, RememberedOpen
  <2>9. Writable(msg)'
    BY <1>1, <1>3, <1>4, <1>8, <2>3, WritableNext
  <2>10. Sound(mem)' /\ MemOK(mem)' /\ Logged(mem.state)'
    <3>1. /\ Sound(mem)' = Sound(w)' /\ MemOK(mem)' = MemOK(w)'
          /\ Logged(mem.state)' = Logged(w.state)'
      BY <2>3
    <3>. QED  BY <2>7, <3>1
  <2>11. PuttingAt(j, 0, msg)'
    <3>1. Target(j, 0)'
      <4>1. Stranded(mem)' = Stranded(w)'
        BY <2>3
      <4>. QED  BY <1>8, <2>3, <2>5, <4>1 DEF Target
    <3>2. todo' = (<<FixFileSize(j, 0)>> \o PutForm(mem, j, 0, msg))'
      BY <1>11, <2>3 DEF put
    <3>. QED  BY <2>9, <2>10, <3>1, <3>2 DEF PuttingAt
  <2>12. Phase'
    BY <1>8, <2>3, <2>10, <2>11 DEF Phase, WritePhase, Putting
  <2>. QED  BY <2>3, <2>4, <2>8, <2>12, OpenNext
<1>. QED  BY <1>4, <1>12, <1>13

(* The handle of a journal that is too short is refused. *)
LEMMA RefusingStep ==
    ASSUME IInv, RoomForTwo, mem.open, job = <<>>, MemOK(mem), Logged(mem.state), Refusing, Step
    PROVE  IInv' /\ Allows
<1>1. PICK mq : mq = mem
  OBVIOUS
<1>2. PICK st : st = mq.state
  OBVIOUS
<1>3. PICK e : e = Head(todo)
  OBVIOUS
<1>4. /\ Sound(mq) /\ Stranded(mq) /\ Settled(mq) /\ MemOK(mq) /\ Logged(st)
      /\ todo # <<>> /\ e = FixFileSize(mq.writeHandle, st.wcount)
  BY <1>1, <1>2, <1>3 DEF Refusing
<1>5. DiskOK /\ FilesOK /\ Recoverable /\ Remembered /\ faults \in Seq(Faults)
  BY DEF IInv, Typed, DiskOK
<1>6. "fail" \in Range(faults) /\ MaxMsgCount > 1
  <2>1. "fail" \in Range(faults)
    BY <1>4 DEF Settled
  <2>2. "fail" \in Faults
    BY <1>5, <2>1 DEF Range
  <2>. QED  BY <2>1, <2>2 DEF RoomForTwo
<1>7. /\ e.do = "fix" /\ e.j = mq.writeHandle /\ e.pos = st.wcount
      /\ Len(files[e.j]) < e.pos
  <2>1. e.do = "fix" /\ e.j = mq.writeHandle /\ e.pos = st.wcount
    BY <1>4, EffectFields
  <2>2. /\ Exists(mq.writeHandle) /\ Len(files[mq.writeHandle]) <= 1
        /\ st.wcount >= MaxMsgCount
    BY <1>2, <1>4 DEF Sound, Handles
  <2>3. Len(files[mq.writeHandle]) \in Nat /\ st.wcount \in Nat /\ MaxMsgCount \in Nat
    BY <1>2, <1>4, <1>5, <2>2, StoredHolds, JournalAssumption DEF FilesOK, Exists, Sound
  <2>. QED  BY <1>6, <2>1, <2>2, <2>3
<1>8. DoThrow
  <2>1. DoFixFileSize \/ (DoThrow /\ Len(files[e.j]) < e.pos)
    BY <1>3, <1>4, <1>7, EffectOf
  <2>2. ~DoFixFileSize
    <3>1. SUFFICES ASSUME DoFixFileSize
                   PROVE  FALSE
      OBVIOUS
    <3>2. Len(files[e.j]) >= e.pos
      BY <1>3, <3>1 DEF DoFixFileSize
    <3>3. Len(files[e.j]) \in Nat /\ e.pos \in Nat
      BY <1>2, <1>4, <1>5, <1>7, StoredHolds DEF FilesOK, Exists, Sound, Handles
    <3>. QED  BY <1>7, <3>2, <3>3
  <2>. QED  BY <2>1, <2>2
<1>9. /\ errors' = errors \cup {"fixFileSize"} /\ todo' = <<>> /\ job' = <<>> /\ mem' = mq
      /\ UNCHANGED <<disk, qstate, lastId, deleted, faults>>
  <2>1. ThrownBy(e) = {"fixFileSize"}
    BY <1>7 DEF ThrownBy
  <2>2. CloseStep \notin Range(job)
    BY DEF Range
  <2>. QED  BY <1>1, <1>3, <1>8, <2>1, <2>2 DEF DoThrow, Exception
<1>10. /\ DiskOK' /\ Recoverable' /\ Durable' = Durable /\ NoneLost /\ Allows
       /\ \A s : Stored(s) => KeptFor(s)
  BY <1>5, <1>9, DiskSame
<1>11. Quiet(mq)' /\ (Logged(mq.state)' <=> Logged(mq.state))
  BY <1>4, <1>5, <1>9, QuietSame
<1>12. Typed'
  <2>1. NoStoreError'
    BY <1>6, <1>9 DEF IInv, Typed, NoStoreError
  <2>2. JobOK'
    BY <1>9 DEF JobOK
  <2>. QED  BY <1>9, <1>10, <2>1, <2>2 DEF IInv, Typed
<1>13. Remembered'
  BY <1>1, <1>5, <1>9, <1>10, RememberedKept DEF Remembered
<1>14. Phase'
  <2>1. Quiet(mem)' /\ Logged(mem.state)'
    <3>1. Quiet(mem)' = Quiet(mq)' /\ Logged(mem.state)' = Logged(mq.state)'
      BY <1>9
    <3>. QED  BY <1>2, <1>4, <1>11, <3>1
  <2>2. Resting'
    BY <1>9, <2>1 DEF Resting
  <2>. QED  BY <2>2 DEF Phase
<1>. QED  BY <1>10, <1>12, <1>13, <1>14 DEF IInv

(* The journal is truncated at the position to write to. *)
LEMMA PutFixStep ==
    ASSUME IInv, mem.open, job = <<>>, MemOK(mem), Logged(mem.state), NEW h, NEW pos, NEW msg,
           Sound(mem), Writable(msg), Target(h, pos), Step,
           todo = <<FixFileSize(h, pos)>> \o PutForm(mem, h, pos, msg)
    PROVE  IInv' /\ Allows
<1>1. PICK mq : mq = mem
  OBVIOUS
<1>2. PICK st : st = mq.state
  OBVIOUS
<1>3. /\ Sound(mq) /\ LogReady /\ Follows(st) /\ Logged(st) /\ MemOK(mq) /\ mq.open
      /\ \/ h = st.wj /\ pos = st.wcount /\ ~Stranded(mq)
         \/ Stranded(mq) /\ h = mq.writeHandle /\ pos = 0 /\ files[h] = <<>>
      /\ todo = <<FixFileSize(h, pos)>> \o PutForm(mq, h, pos, msg)
  <2>1. Sound(mem) /\ LogReady /\ Follows(mem.state)
    BY SoundIsReady
  <2>. QED  BY <1>1, <1>2, <2>1 DEF Target
<1>4. DiskOK /\ FilesOK /\ Recoverable /\ Remembered
  BY DEF IInv, Typed, DiskOK
<1>5. /\ Stored(st) /\ Handles(mq) /\ TipOK(mq) /\ Exists(st.rj) /\ Exists(st.wj)
      /\ st.rcount \in Nat /\ st.wcount \in Nat
      /\ st.rj = st.wj => st.rcount = st.wcount
      /\ Stranded(mq) => h # st.rj /\ st.rj = st.wj /\ Exists(h)
  <2>1. Stored(st) /\ Handles(mq) /\ TipOK(mq) /\ Exists(st.rj) /\ Exists(st.wj)
    BY <1>2, <1>3 DEF Sound, Handles
  <2>2. Stranded(mq) => h # st.rj /\ st.rj = st.wj /\ Exists(h)
    BY <1>2, <1>3, <2>1 DEF Handles, Stranded
  <2>. QED  BY <2>1, <2>2, StoredHolds, ValidState
<1>6. Exists(h) /\ pos \in Nat /\ pos <= Len(files[h])
  BY <1>3, <1>5, StoredHolds
<1>7. /\ todo # <<>> /\ Head(todo) = FixFileSize(h, pos)
      /\ Tail(todo) = PutForm(mq, h, pos, msg)
  <2>1. PICK a, b, c : PutForm(mq, h, pos, msg) = <<a, b, c>>
    BY DEF PutForm
  <2>2. PICK e, t : e = FixFileSize(h, pos) /\ t = <<a, b, c>>
    OBVIOUS
  <2>3. t \in Seq({a, b, c})
    BY <2>2
  <2>4. todo = <<e>> \o t
    BY <1>3, <2>1, <2>2
  <2>5. todo # <<>> /\ Head(todo) = e /\ Tail(todo) = t
    BY <2>3, <2>4, ConsOne
  <2>. QED  BY <2>1, <2>2, <2>5
<1>8. DoFixFileSize /\ Head(todo).j = h /\ Head(todo).pos = pos
  <2>1. /\ FixFileSize(h, pos).do = "fix" /\ FixFileSize(h, pos).j = h
        /\ FixFileSize(h, pos).pos = pos
    BY EffectFields
  <2>2. ~(Len(files[h]) < pos)
    <3>1. Len(files[h]) \in Nat
      BY <1>4, <1>6 DEF FilesOK, Exists
    <3>. QED  BY <1>6, <3>1
  <2>. QED  BY <1>7, <2>1, <2>2, EffectOf
<1>9. /\ files' = [files EXCEPT ![h] = SubSeq(@, 1, pos)]
      /\ todo' = PutForm(mq, h, pos, msg)
      /\ UNCHANGED <<dir, log, bak, mem, qstate, job, lastId, deleted, faults, errors>>
  BY <1>7, <1>8 DEF DoFixFileSize, Done
<1>10. /\ FilesOK' /\ DOMAIN files' = DOMAIN files /\ Len(files'[h]) = pos
       /\ \A s : Stored(s) /\ (s.rj = h => s.rcount <= pos) /\ (s.wj = h => s.wcount <= pos)
                 => KeptFor(s)
  BY <1>4, <1>6, <1>9, FixKeeps
<1>11. KeptFor(st)
  BY <1>3, <1>5, <1>10
<1>12. Rec # <<>> => KeptFor(Rec[1])
  <2>1. SUFFICES ASSUME Rec # <<>>
                 PROVE  KeptFor(Rec[1])
    OBVIOUS
  <2>2. PICK r : r = Rec[1]
    OBVIOUS
  <2>3. Stored(r)
    BY <1>4, <2>1, <2>2 DEF Recoverable
  <2>4. \/ r.rj = st.rj /\ r.wj = st.wj /\ r.rcount = st.rcount /\ r.wcount = st.wcount
        \/ ~Exists(r.rj) /\ r.wj = st.rj /\ r.wj = st.wj /\ r.wcount = st.rcount
        \/ ~Exists(r.wj) /\ r.rj = st.rj /\ r.rj = st.wj /\ r.rcount = st.rcount
    BY <1>3, <2>1, <2>2 DEF Follows
  <2>5. (r.rj = h => r.rcount <= pos) /\ (r.wj = h => r.wcount <= pos)
    BY <1>3, <1>5, <1>6, <2>4
  <2>. QED  BY <1>10, <2>2, <2>3, <2>5
<1>13. DiskOK' /\ Recoverable' /\ Durable' = Durable /\ Rec' = Rec /\ NoneLost /\ Allows
  BY <1>3, <1>4, <1>9, <1>10, <1>12, FileEffect DEF LogReady
<1>14. Sound(mq)' /\ MemOK(mq)' /\ Logged(st)'
  <2>1. StrandedKept(mq)
    BY <1>3, <1>6, <1>10 DEF StrandedKept, Exists
  <2>2. Sound(mq)'
    BY <1>2, <1>3, <1>11, <1>13, <2>1, SoundKept
  <2>3. Follows(st)' /\ From(st)' = From(st)
    BY <1>3, <1>4, <1>5, <1>11, <1>12, <1>13, FollowsKept
  <2>4. LogReady'
    BY <1>3, <1>9 DEF LogReady
  <2>. QED  BY <1>2, <1>3, <2>2, <2>3, <2>4 DEF MemOK, Logged
<1>15. Remembered'
  BY <1>1, <1>2, <1>4, <1>9, <1>11, <1>13, <1>3, RememberedKept
<1>16. Sound(mem)' /\ MemOK(mem)' /\ Logged(mem.state)' /\ Writable(msg)'
  <2>1. /\ Sound(mem)' = Sound(mq)' /\ MemOK(mem)' = MemOK(mq)'
        /\ Logged(mem.state)' = Logged(st)'
    BY <1>1, <1>2, <1>9
  <2>2. Writable(msg)'
    BY <1>9, WritableNext
  <2>. QED  BY <1>14, <2>1, <2>2
<1>17. PuttingAt(h, pos, msg)'
  <2>1. Target(h, pos)'
    <3>1. Stranded(mem)' = Stranded(mq)
      BY <1>1, <1>9 DEF Stranded
    <3>2. pos = 0 => files'[h] = <<>>
      BY <1>6, <1>10 DEF FilesOK, Exists
    <3>. QED  BY <1>1, <1>2, <1>3, <1>9, <3>1, <3>2 DEF Target
  <2>2. todo' = PutForm(mem, h, pos, msg)'
    <3>1. PutForm(mem, h, pos, msg)' = PutForm(mq, h, pos, msg)'
      BY <1>1, <1>9
    <3>. QED  BY <1>3, <1>9, <3>1, PutSame
  <2>. QED  BY <1>10, <1>16, <2>1, <2>2 DEF PuttingAt
<1>18. Phase'
  BY <1>1, <1>3, <1>9, <1>16, <1>17 DEF Phase, WritePhase, Putting
<1>. QED  BY <1>9, <1>13, <1>15, <1>18, OpenNext

(* The state after a message is put in a journal. *)
IsAfter(s, st, h, pos, msg) ==
    /\ s \in States
    /\ s.rj = st.rj /\ s.rpos = st.rpos /\ s.wj = h /\ s.wcount = pos + 1
    /\ h = st.rj => s.rcount = pos + 1
    /\ h # st.rj => s.rcount = st.rcount
    /\ s.canWrite = ~msg.quota /\ s.size = st.size + 1

(* Its fields. *)
LEMMA AfterFields ==
    ASSUME NEW st \in States, NEW h \in JournalId, NEW pos \in Nat, NEW msg \in Message,
           NEW s, s = After(st, h, pos, msg)
    PROVE  IsAfter(s, st, h, pos, msg)
<1>1. PICK n : n = IF h = st.rj THEN pos + 1 ELSE st.rcount
  OBVIOUS
<1>2. PICK c : c = ~msg.quota
  OBVIOUS
<1>3. n \in Nat /\ pos + 1 \in Nat /\ st.size + 1 \in Nat /\ c \in BOOLEAN
  BY <1>1, <1>2, StateFields DEF Message
<1>4. After(st, h, pos, msg) =
        [st EXCEPT !.wj = h, !.wcount = pos + 1, !.rcount = n, !.canWrite = c,
                   !.size = st.size + 1]
  BY <1>1, <1>2 DEF After, States
<1>5. /\ s \in States /\ s.rj = st.rj /\ s.rpos = st.rpos
      /\ s.wj = h /\ s.wcount = pos + 1 /\ s.rcount = n
  BY <1>3, <1>4 DEF States
<1>6. s.canWrite = c /\ s.size = st.size + 1
  BY <1>3, <1>4 DEF States
<1>. QED  BY <1>1, <1>2, <1>5, <1>6 DEF IsAfter

(* The queue after a message is put in a journal. *)
IsWritten(w, mq, h, pos, msg) ==
    /\ w \in Queues /\ w.open = TRUE
    /\ w.state = After(mq.state, h, pos, msg)
    /\ w.readHandle = mq.readHandle /\ w.writeHandle = mq.writeHandle
    /\ w.tip = (IF mq.state.size = 0 THEN <<msg>> ELSE mq.tip)

(* Its fields. *)
LEMMA WrittenFields ==
    ASSUME NEW mq \in Queues, NEW h \in JournalId, NEW pos \in Nat, NEW msg \in Message,
           NEW w, w = Written(mq, h, pos, msg)
    PROVE  IsWritten(w, mq, h, pos, msg)
<1>1. PICK s : s = After(mq.state, h, pos, msg)
  OBVIOUS
<1>2. s \in States /\ mq.state \in States
  BY <1>1, AfterFields, QueueFields DEF IsAfter
<1>3. PICK t : t = IF mq.state.size = 0 THEN <<msg>> ELSE mq.tip
  OBVIOUS
<1>4. t \in {<<>>} \cup {<<m>> : m \in Message}
  BY <1>3 DEF Queues
<1>6. w = [mq EXCEPT !.state = s, !.tip = t]
  BY <1>1, <1>3 DEF Written, Queues
<1>7. w \in Queues
  BY <1>2, <1>4, <1>6 DEF Queues
<1>8. /\ w.state = s /\ w.tip = t /\ w.readHandle = mq.readHandle
      /\ w.writeHandle = mq.writeHandle
  BY <1>6 DEF Queues
<1>. QED  BY <1>1, <1>3, <1>7, <1>8, QueueFields DEF IsWritten

(* A message put in a journal is stored by the state after it. *)
LEMMA PutStores ==
    ASSUME FilesOK, FilesOK', DOMAIN files' = DOMAIN files, NoneLost,
           NEW st, Stored(st), KeptFor(st), NEW h \in JournalId, NEW pos, NEW msg \in Message,
           \/ h = st.wj /\ pos = st.wcount
           \/ h # st.rj /\ st.rj = st.wj /\ pos = 0,
           Exists(h), Len(files'[h]) = pos + 1, files'[h][pos + 1] = msg
    PROVE  pos \in Nat /\ Stored(After(st, h, pos, msg))'
<1>1. /\ st \in States /\ st.rpos \in Nat /\ st.rcount \in Nat /\ st.wcount \in Nat
      /\ st.size \in Nat /\ st.rpos <= st.rcount
      /\ st.rj = st.wj => st.rcount = st.wcount /\ st.size = st.rcount - st.rpos
      /\ st.rj # st.wj => st.size = st.wcount + (st.rcount - st.rpos)
  BY StoredHolds, ValidState
<1>2. pos \in Nat
  BY <1>1
<1>3. PICK s : s = After(st, h, pos, msg)
  OBVIOUS
<1>4. /\ s \in States
      /\ s.rj = st.rj /\ s.rpos = st.rpos /\ s.wj = h /\ s.wcount = pos + 1
      /\ h = st.rj => s.rcount = pos + 1
      /\ h # st.rj => s.rcount = st.rcount
      /\ s.canWrite = ~msg.quota /\ s.size = st.size + 1
  <2>1. IsAfter(s, st, h, pos, msg)
    BY <1>1, <1>2, <1>3, AfterFields
  <2>. QED  BY <2>1 DEF IsAfter
<1>5. validQueueState(s)
  <2>1. CASE h = st.rj
    BY <1>1, <1>2, <1>4, <2>1 DEF validQueueState
  <2>2. CASE h # st.rj
    <3>1. st.size = pos + (st.rcount - st.rpos)
      BY <1>1, <2>2
    <3>2. /\ s.size = (pos + (st.rcount - st.rpos)) + 1 /\ s.wcount = pos + 1
          /\ s.rcount = st.rcount /\ s.rpos = st.rpos /\ s.rj # s.wj
      BY <1>4, <2>2, <3>1
    <3>. QED  BY <1>1, <1>2, <3>2, SMTT(20) DEF validQueueState
  <2>. QED  BY <2>1, <2>2
<1>6. Holds(st.rj, st.rcount)' /\ Holds(st.wj, st.wcount)'
  BY StoredKept DEF Stored, Holds, Exists
<1>7. Holds(h, pos + 1)'
  <2>1. Exists(h)'
    BY DEF Exists
  <2>2. \A i \in 1..pos : files'[h][i] \in Message
    <3>1. CASE h = st.wj /\ pos = st.wcount
      BY <1>6, <2>1, <3>1 DEF Holds, Exists, Message
    <3>2. CASE pos = 0
      BY <3>2
    <3>. QED  BY <3>1, <3>2
  <2>3. \A i \in 1..(pos + 1) : i \in 1..pos \/ i = pos + 1
    BY <1>2
  <2>. QED  BY <1>2, <2>1, <2>2, <2>3 DEF Holds, Exists, Message
<1>8. Stored(s)'
  <2>1. Holds(s.rj, s.rcount)'
    <3>1. CASE h = st.rj
      BY <1>4, <1>7, <3>1 DEF Holds, Exists
    <3>2. CASE h # st.rj
      BY <1>4, <1>6, <3>2 DEF Holds, Exists
    <3>. QED  BY <3>1, <3>2
  <2>2. Holds(s.wj, s.wcount)'
    BY <1>4, <1>7 DEF Holds, Exists
  <2>3. Marked(s)'
    BY <1>4 DEF Marked, Exists
  <2>4. s.rj # s.wj => s.wcount > 0
    BY <1>2, <1>4
  <2>5. (s \in States)' /\ validQueueState(s)'
    BY <1>4, <1>5 DEF States, JournalId, validQueueState
  <2>. QED  BY <2>1, <2>2, <2>3, <2>4, <2>5 DEF Stored
<1>9. s = After(st, h, pos, msg)'
  BY <1>3 DEF After
<1>. QED  BY <1>2, <1>8, <1>9

(* The messages of a state are as many as its size; writing is open only if *)
(* the last of them is no quota marker.                                     *)
LEMMA LastMessage ==
    ASSUME FilesOK, NEW st, Stored(st), Exists(st.rj), Exists(st.wj)
    PROVE  LET q == Messages(st)
           IN  /\ q \in Seq(Message) /\ Len(q) = st.size
               /\ "lose" \notin Range(faults) /\ st.canWrite /\ q # <<>> => ~q[Len(q)].quota
<1>1. PICK q : q = Messages(st)
  OBVIOUS
<1>2. MessagesFit(st)
  BY MessagesOf
<1>3. /\ st.rpos \in Nat /\ st.rcount \in Nat /\ st.wcount \in Nat
      /\ st.size \in Nat /\ st.rpos <= st.rcount
      /\ st.rj = st.wj => st.rcount = st.wcount /\ st.size = st.rcount - st.rpos
      /\ st.rj # st.wj => st.size = st.wcount + (st.rcount - st.rpos) /\ st.wcount > 0
  BY StoredHolds, ValidState
<1>4. /\ q \in Seq(Message)
      /\ Len(q) = (st.rcount - st.rpos) + (IF st.rj # st.wj THEN st.wcount ELSE 0)
      /\ \A i \in 1..(st.rcount - st.rpos) : q[i] = files[st.rj][st.rpos + i]
      /\ st.rj # st.wj =>
           \A i \in 1..st.wcount : q[(st.rcount - st.rpos) + i] = files[st.wj][i]
  BY <1>1, <1>2 DEF MessagesFit, InRead, InWrite
<1>5. Len(q) = st.size
  BY <1>3, <1>4
<1>6. ASSUME "lose" \notin Range(faults), st.canWrite, q # <<>>
      PROVE  ~q[Len(q)].quota
  <2>1. st.size > 0
    BY <1>3, <1>4, <1>5, <1>6
  <2>2. st.wcount > 0
    BY <1>3, <2>1
  <2>3. ~files[st.wj][st.wcount].quota
    BY <1>6, <2>2 DEF Stored, Marked
  <2>4. q[Len(q)] = files[st.wj][st.wcount]
    <3>1. CASE st.rj = st.wj
      <4>1. /\ Len(q) \in 1..(st.rcount - st.rpos)
            /\ st.rpos + Len(q) = st.wcount
        BY <1>3, <1>5, <2>1, <3>1
      <4>. QED  BY <1>4, <3>1, <4>1
    <3>2. CASE st.rj # st.wj
      <4>1. st.wcount \in 1..st.wcount /\ Len(q) = (st.rcount - st.rpos) + st.wcount
        BY <1>3, <1>5, <2>2, <3>2
      <4>. QED  BY <1>4, <3>2, <4>1
    <3>. QED  BY <3>1, <3>2
  <2>. QED  BY <2>3, <2>4
<1>. QED  BY <1>1, <1>4, <1>5, <1>6

(* A message put in a journal is added to the messages of the state. *)
LEMMA PutAppends ==
    ASSUME FilesOK, FilesOK', DOMAIN files' = DOMAIN files, NoneLost,
           NEW st, Stored(st), KeptFor(st), NEW h \in JournalId, NEW pos, NEW msg \in Message,
           \/ h = st.wj /\ pos = st.wcount
           \/ h # st.rj /\ st.rj = st.wj /\ pos = 0,
           Exists(st.rj), Exists(st.wj), Exists(h),
           Len(files'[h]) = pos + 1, files'[h][pos + 1] = msg
    PROVE  Messages(After(st, h, pos, msg))' = Append(Messages(st), msg)
<1>1. /\ st \in States /\ st.rpos \in Nat /\ st.rcount \in Nat /\ st.wcount \in Nat
      /\ st.rpos <= st.rcount
      /\ st.rj = st.wj => st.rcount = st.wcount
  BY StoredHolds, ValidState
<1>2. PICK s : s = After(st, h, pos, msg)
  OBVIOUS
<1>3. pos \in Nat /\ Stored(s)'
  <2>1. pos \in Nat /\ Stored(After(st, h, pos, msg))'
    BY PutStores
  <2>2. s = After(st, h, pos, msg)'
    BY <1>2 DEF After
  <2>. QED  BY <2>1, <2>2
<1>4. /\ s.rj = st.rj /\ s.rpos = st.rpos /\ s.wj = h /\ s.wcount = pos + 1
      /\ h = st.rj => s.rcount = pos + 1
      /\ h # st.rj => s.rcount = st.rcount
  <2>1. IsAfter(s, st, h, pos, msg)
    BY <1>1, <1>2, <1>3, AfterFields
  <2>. QED  BY <2>1 DEF IsAfter
<1>5. PICK q : q = Messages(st)
  OBVIOUS
<1>6. PICK t : t = Messages(s)'
  OBVIOUS
<1>7. Messages(st)' = q
  BY <1>5, MessagesKept
<1>8. MessagesFit(st)' /\ MessagesFit(s)'
  BY <1>3, MessagesOfNext, StoredKept
<1> DEFINE n == st.rcount - st.rpos
<1>9. /\ q \in Seq(Message)
      /\ Len(q) = n + (IF st.rj # st.wj THEN st.wcount ELSE 0)
      /\ \A i \in 1..n : q[i] = files'[st.rj][st.rpos + i]
      /\ st.rj # st.wj => \A i \in 1..st.wcount : q[n + i] = files'[st.wj][i]
  BY <1>7, <1>8 DEF MessagesFit, InRead, InWrite, Exists, Message
<1> DEFINE k == IF h = st.rj THEN (pos + 1) - st.rpos ELSE n
<1>10. /\ t \in Seq(Message)
       /\ Len(t) = k + (IF h # st.rj THEN pos + 1 ELSE 0)
       /\ \A i \in 1..k : t[i] = files'[st.rj][st.rpos + i]
       /\ h # st.rj => \A i \in 1..(pos + 1) : t[k + i] = files'[h][i]
  BY <1>4, <1>6, <1>8 DEF MessagesFit, InRead, InWrite, Exists, Message
<1>11. Len(t) = Len(q) + 1
  <2>1. CASE h = st.rj
    BY <1>1, <1>3, <1>9, <1>10, <2>1
  <2>2. CASE h # st.rj
    <3>1. Len(q) = n + pos /\ n \in Nat
      BY <1>1, <1>3, <1>9, <2>2
    <3>2. Len(t) = n + (pos + 1)
      BY <1>10, <2>2
    <3>. QED  BY <1>3, <3>1, <3>2
  <2>. QED  BY <2>1, <2>2
<1>12. \A i \in 1..Len(t) : t[i] = Append(q, msg)[i]
  <2>1. TAKE i \in 1..Len(t)
  <2>2. Len(q) \in Nat /\ Append(q, msg)[i] = IF i = Len(q) + 1 THEN msg ELSE q[i]
    BY <1>9, <1>11
  <2>3. CASE h = st.rj
    <3>1. pos = st.rcount /\ st.rj = st.wj /\ n \in Nat /\ Len(q) = n /\ k = n + 1
      BY <1>1, <1>3, <1>9, <2>3
    <3>2. t[i] = files'[st.rj][st.rpos + i]
      BY <1>10, <1>11, <3>1
    <3>3. CASE i = n + 1
      <4>1. st.rpos + i = pos + 1
        BY <1>1, <1>3, <3>1, <3>3
      <4>. QED  BY <2>2, <2>3, <3>1, <3>2, <3>3, <4>1
    <3>4. CASE i # n + 1
      <4>1. i \in 1..n
        BY <1>11, <3>1, <3>4
      <4>. QED  BY <1>9, <2>2, <3>1, <3>2, <3>4, <4>1
    <3>. QED  BY <3>3, <3>4
  <2>4. CASE h # st.rj
    <3>1. n \in Nat /\ k = n /\ Len(q) = n + pos
      BY <1>1, <1>3, <1>9, <2>4
    <3>2. CASE i <= n
      <4>1. i \in 1..n /\ i # Len(q) + 1
        BY <1>3, <3>1, <3>2
      <4>. QED  BY <1>9, <1>10, <2>2, <3>1, <4>1
    <3>3. CASE ~(i <= n)
      <4>1. PICK d \in Nat : d = i - n
        BY <3>1, <3>3
      <4>2. i = n + d /\ d \in 1..(pos + 1)
        BY <1>3, <1>11, <3>1, <3>3, <4>1
      <4>3. t[i] = files'[h][d]
        BY <1>10, <2>4, <3>1, <4>2
      <4>4. CASE d = pos + 1
        BY <1>3, <2>2, <3>1, <4>2, <4>3, <4>4
      <4>5. CASE d # pos + 1
        <5>1. d \in 1..pos /\ i # Len(q) + 1
          BY <1>3, <3>1, <4>2, <4>5
        <5>2. h = st.wj /\ pos = st.wcount
          BY <5>1
        <5>. QED  BY <1>9, <2>2, <2>4, <4>2, <4>3, <5>1, <5>2
      <4>. QED  BY <4>4, <4>5
    <3>. QED  BY <3>2, <3>3
  <2>. QED  BY <2>3, <2>4
<1>13. t = Append(q, msg)
  <2>1. Append(q, msg) \in Seq(Message) /\ Len(Append(q, msg)) = Len(q) + 1
    BY <1>9
  <2>. QED  BY <1>10, <1>11, <1>12, <2>1, SameSeq
<1>14. Messages(s)' = Messages(After(st, h, pos, msg))'
  BY <1>2 DEF After
<1>. QED  BY <1>5, <1>6, <1>13, <1>14

(* The message is put in the journal. *)
LEMMA PutMsgStep ==
    ASSUME IInv, mem.open, job = <<>>, MemOK(mem), Logged(mem.state), NEW h, NEW pos, NEW msg,
           Sound(mem), Writable(msg), Target(h, pos), Step,
           todo = PutForm(mem, h, pos, msg), Len(files[h]) = pos
    PROVE  IInv' /\ Allows
<1>1. PICK mq : mq = mem
  OBVIOUS
<1>2. PICK st : st = mq.state
  OBVIOUS
<1>3. /\ Sound(mq) /\ LogReady /\ Follows(st) /\ Logged(st) /\ MemOK(mq) /\ mq.open
      /\ \/ h = st.wj /\ pos = st.wcount /\ ~Stranded(mq)
         \/ Stranded(mq) /\ h = mq.writeHandle /\ pos = 0
      /\ todo = PutForm(mq, h, pos, msg)
      /\ msg \in Message
      /\ msg.quota <=> st.size >= Quota
      /\ st.canWrite \/ st.size = 0
  <2>1. Sound(mem) /\ LogReady /\ Follows(mem.state)
    BY SoundIsReady
  <2>. QED  BY <1>1, <1>2, <2>1 DEF Target, Writable
<1>4. DiskOK /\ FilesOK /\ Recoverable /\ Remembered
  BY DEF IInv, Typed, DiskOK
<1>5. /\ mq \in Queues /\ Stored(st) /\ Handles(mq) /\ TipOK(mq)
      /\ Exists(st.rj) /\ Exists(st.wj) /\ mq.readHandle = st.rj
      /\ st \in States /\ st.rpos \in Nat /\ st.rcount \in Nat /\ st.wcount \in Nat
      /\ st.size \in Nat /\ st.rpos <= st.rcount
      /\ st.rj = st.wj => st.rcount = st.wcount /\ st.size = st.rcount - st.rpos
      /\ st.rj # st.wj => st.wcount > 0 /\ st.size = st.wcount + (st.rcount - st.rpos)
      /\ st.rj # st.wj => mq.writeHandle = st.wj
      /\ Stranded(mq) => h # st.rj /\ st.rj = st.wj /\ Exists(h)
  <2>1. /\ mq \in Queues /\ Stored(st) /\ Handles(mq) /\ TipOK(mq)
        /\ Exists(st.rj) /\ Exists(st.wj) /\ mq.readHandle = st.rj
        /\ st.rj # st.wj => mq.writeHandle = st.wj
    BY <1>2, <1>3 DEF Sound, Handles
  <2>2. Stranded(mq) => h # st.rj /\ st.rj = st.wj /\ Exists(h)
    BY <1>2, <1>3, <2>1 DEF Handles, Stranded
  <2>. QED  BY <2>1, <2>2, StoredHolds, ValidState
<1>6. Exists(h) /\ h \in JournalId /\ pos \in Nat
  BY <1>3, <1>4, <1>5 DEF FilesOK, Exists
<1>7. PICK w : w = Written(mq, h, pos, msg)
  OBVIOUS
<1>8. PICK s : s = After(st, h, pos, msg)
  OBVIOUS
<1>9. /\ s \in States
      /\ s.rj = st.rj /\ s.rpos = st.rpos /\ s.wj = h /\ s.wcount = pos + 1
      /\ h = st.rj => s.rcount = pos + 1
      /\ h # st.rj => s.rcount = st.rcount
  <2>1. IsAfter(s, st, h, pos, msg)
    BY <1>3, <1>5, <1>6, <1>8, AfterFields
  <2>. QED  BY <2>1 DEF IsAfter
<1>10. /\ w \in Queues /\ w.open = TRUE /\ w.state = s
       /\ w.readHandle = mq.readHandle /\ w.writeHandle = mq.writeHandle
       /\ w.tip = (IF st.size = 0 THEN <<msg>> ELSE mq.tip)
  <2>1. IsWritten(w, mq, h, pos, msg)
    BY <1>3, <1>5, <1>6, <1>7, WrittenFields
  <2>. QED  BY <1>2, <1>8, <2>1 DEF IsWritten
<1>11. /\ todo # <<>> /\ Head(todo) = PutMsg(h, msg)
       /\ Tail(todo) = <<AppendState(s), Assign(w)>>
  <2>1. todo = <<PutMsg(h, msg), AppendState(s), Assign(w)>>
    BY <1>2, <1>3, <1>7, <1>8 DEF PutForm
  <2>2. PICK a, b, c : a = PutMsg(h, msg) /\ b = AppendState(s) /\ c = Assign(w)
    OBVIOUS
  <2>3. todo = <<a, b, c>>
    BY <2>1, <2>2
  <2>. QED  BY <2>2, <2>3
<1>12. DoPut /\ Head(todo).j = h /\ Head(todo).msg = msg
  <2>1. PutMsg(h, msg).do = "put" /\ PutMsg(h, msg).j = h /\ PutMsg(h, msg).msg = msg
    BY EffectFields
  <2>. QED  BY <1>11, <2>1, EffectOf
<1>13. /\ files' = [files EXCEPT ![h] = @ \o <<msg>>]
       /\ todo' = <<AppendState(s), Assign(w)>>
       /\ UNCHANGED <<dir, log, bak, mem, qstate, job, lastId, deleted, faults, errors>>
  <2>1. Append(files[h], msg) = files[h] \o <<msg>>
    BY <1>4, <1>6, AppendIsConcat DEF FilesOK, Exists
  <2>. QED  BY <1>11, <1>12, <2>1 DEF DoPut, Done
<1>14. /\ FilesOK' /\ DOMAIN files' = DOMAIN files /\ Len(files'[h]) = pos + 1
       /\ files'[h][pos + 1] = msg
       /\ \A r : Stored(r) => KeptFor(r)
  <2>1. <<msg>> \in Seq(Content) /\ Len(<<msg>>) = 1 /\ <<msg>>[1] = msg /\ 1 \in 1..1
    BY <1>3 DEF Content
  <2>2. PICK more : more = <<msg>>
    OBVIOUS
  <2>3. /\ FilesOK' /\ DOMAIN files' = DOMAIN files
        /\ Len(files'[h]) = Len(files[h]) + Len(more)
        /\ \A i \in 1..Len(more) : files'[h][Len(files[h]) + i] = more[i]
        /\ \A r : Stored(r) => KeptFor(r)
    <3>1. more \in Seq(Content) /\ files' = [files EXCEPT ![h] = @ \o more]
      BY <1>13, <2>1, <2>2
    <3>. QED  BY <1>4, <1>6, <3>1, PutKeeps
  <2>. QED  BY <2>1, <2>2, <2>3
<1>15. KeptFor(st) /\ (Rec # <<>> => KeptFor(Rec[1]))
  BY <1>4, <1>5, <1>14 DEF Recoverable
<1>16. DiskOK' /\ Recoverable' /\ Durable' = Durable /\ Rec' = Rec /\ NoneLost /\ Allows
  BY <1>3, <1>4, <1>13, <1>14, <1>15, FileEffect DEF LogReady
<1>17. /\ Stored(s)' /\ Messages(s)' = Append(Messages(st), msg)
  <2>1. \/ h = st.wj /\ pos = st.wcount
        \/ h # st.rj /\ st.rj = st.wj /\ pos = 0
    BY <1>3, <1>5
  <2>2. Stored(After(st, h, pos, msg))'
    BY <1>3, <1>4, <1>5, <1>6, <1>14, <1>15, <1>16, <2>1, PutStores
  <2>3. Messages(After(st, h, pos, msg))' = Append(Messages(st), msg)
    BY <1>3, <1>4, <1>5, <1>6, <1>14, <1>15, <1>16, <2>1, PutAppends
  <2>4. s = After(st, h, pos, msg)'
    BY <1>8 DEF After
  <2>. QED  BY <2>2, <2>3, <2>4
<1>18. Allowed(Messages(st), Append(Messages(st), msg))' \/ "lose" \in Range(faults)
  <2>1. SUFFICES ASSUME "lose" \notin Range(faults)
                 PROVE  Allowed(Messages(st), Append(Messages(st), msg))'
    OBVIOUS
  <2>2. PICK q : q = Messages(st)
    OBVIOUS
  <2>3. /\ q \in Seq(Message) /\ Len(q) = st.size
        /\ st.canWrite /\ q # <<>> => ~q[Len(q)].quota
    BY <1>4, <1>5, <2>1, <2>2, LastMessage
  <2>4. q = <<>> \/ ~q[Len(q)].quota
    BY <1>3, <2>3
  <2>5. Allowed(q, Append(q, msg))
    BY <1>3, <2>3, <2>4 DEF Allowed
  <2>6. Messages(st)' = q
    BY <1>4, <1>5, <1>14, <1>15, <1>16, <2>2, MessagesKept
  <2>7. Allowed(q, Append(q, msg))' = Allowed(q, Append(q, msg))
    BY DEF Allowed, Message
  <2>. QED  BY <2>2, <2>5, <2>6, <2>7
<1>19. /\ "lose" \notin Range(faults)' => Allowed(Durable, Messages(s))'
  <2>1. Durable = Messages(st)
    BY <1>3, <1>4, <1>5, LoggedIsDurable
  <2>2. Messages(st)' = Messages(st)
    BY <1>4, <1>5, <1>14, <1>15, <1>16, MessagesKept
  <2>3. /\ Durable' = Messages(st)'
        /\ Messages(s)' = Append(Messages(st), msg)'
    BY <1>16, <1>17, <2>1, <2>2
  <2>4. Allowed(Durable, Messages(s))' = Allowed(Messages(st), Append(Messages(st), msg))'
    BY <2>3
  <2>. QED  BY <1>13, <1>18, <2>4
<1>20. ~Stranded(w) /\ ~Stranded(w)'
  <2>1. ~Stranded(w)
    <3>1. CASE h = st.wj /\ ~Stranded(mq)
      BY <1>2, <1>9, <1>10, <3>1 DEF Stranded
    <3>2. CASE Stranded(mq)
      BY <1>5, <1>9, <1>10, <3>2 DEF Stranded
    <3>. QED  BY <1>3, <3>1, <3>2
  <2>. QED  BY <2>1 DEF Stranded
<1>21. Sound(w)'
  <2>1. Handles(w)'
    <3>1. w.readHandle = s.rj /\ Exists(s.rj)' /\ Exists(s.wj)'
      BY <1>5, <1>6, <1>9, <1>10, <1>14 DEF Exists
    <3>2. s.rj # s.wj => w.writeHandle = s.wj
      BY <1>3, <1>5, <1>9, <1>10
    <3>. QED  BY <1>10, <1>20, <3>1, <3>2 DEF Handles, Exists
  <2>2. TipOK(w)'
    <3>1. CASE st.size = 0
      <4>1. w.tip # <<>> /\ w.tip[1] = msg /\ st.rj = st.wj /\ st.rpos = st.rcount
        BY <1>5, <1>10, <3>1
      <4>2. CASE h = st.rj
        <5>1. pos = st.rpos /\ s.rpos < s.rcount
          BY <1>3, <1>5, <1>6, <1>9, <4>1, <4>2
        <5>. QED  BY <1>6, <1>9, <1>10, <1>14, <4>1, <4>2, <5>1 DEF TipOK, Exists
      <4>3. CASE h # st.rj
        <5>1. pos = 0 /\ ~(s.rpos < s.rcount) /\ s.rj # s.wj
          BY <1>3, <1>5, <1>9, <4>1, <4>3
        <5>. QED  BY <1>6, <1>9, <1>10, <1>14, <4>1, <5>1 DEF TipOK, Exists
      <4>. QED  BY <4>2, <4>3
    <3>2. CASE st.size # 0
      <4>1. w.tip = mq.tip
        BY <1>10, <3>2
      <4>2. TipOK(mq)'
        BY <1>2, <1>5, <1>15, TipKept
      <4>3. ASSUME mq.tip # <<>>
            PROVE  IF st.rpos < st.rcount
                     THEN Exists(st.rj)' /\ mq.tip[1] = files'[st.rj][st.rpos + 1]
                     ELSE st.rj # st.wj /\ Exists(st.wj)' /\ mq.tip[1] = files'[st.wj][1]
        BY <1>2, <4>2, <4>3 DEF TipOK, Exists
      <4>4. CASE st.rpos < st.rcount
        <5>1. s.rpos < s.rcount
          <6>1. CASE h = st.rj
            BY <1>3, <1>5, <1>6, <1>9, <4>4, <6>1
          <6>2. CASE h # st.rj
            BY <1>9, <4>4, <6>2
          <6>. QED  BY <6>1, <6>2
        <5>. QED  BY <1>9, <1>10, <4>1, <4>3, <4>4, <5>1 DEF TipOK, Exists
      <4>5. CASE ~(st.rpos < st.rcount)
        <5>1. ASSUME mq.tip # <<>>
              PROVE  s.rj # s.wj /\ s.wj = st.wj /\ ~(s.rpos < s.rcount)
          BY <1>3, <1>5, <1>9, <4>3, <4>5, <5>1
        <5>. QED  BY <1>9, <1>10, <4>1, <4>3, <4>5, <5>1 DEF TipOK, Exists
      <4>. QED  BY <4>4, <4>5
    <3>. QED  BY <3>1, <3>2
  <2>3. (w \in Queues)' /\ Stored(w.state)'
    BY <1>10, <1>17 DEF Queues, States, JournalId, Message
  <2>. QED  BY <2>1, <2>2, <2>3 DEF Sound
<1>22. Remembered'
  BY <1>1, <1>2, <1>4, <1>3, <1>13, <1>15, <1>16, RememberedKept
<1>23. CommittingTo(w, <<>>)'
  <2>1. todo' = <<AppendState(w.state)', Assign(w)'>> \o <<>>
    <3>1. AppendState(w.state)' = AppendState(s) /\ Assign(w)' = Assign(w)
      BY <1>10 DEF AppendState, Assign, qState
    <3>2. PICK t : t = <<AppendState(s), Assign(w)>>
      OBVIOUS
    <3>3. t \in Seq({AppendState(s), Assign(w)})
      BY <3>2
    <3>4. t \o <<>> = t
      BY <3>3, JoinEmpty
    <3>. QED  BY <1>13, <3>1, <3>2, <3>4
  <2>2. LogReady'
    BY <1>3, <1>13 DEF LogReady
  <2>3. Settled(w)' /\ ReadForm(w, <<>>)' /\ JobFits(w)'
    BY <1>13, <1>20 DEF Settled, ReadForm, JobFits
  <2>4. mem.open'
    BY <1>13
  <2>5. "lose" \notin Range(faults)' => Allowed(Durable, Messages(w.state))'
    <3>1. Messages(w.state)' = Messages(s)'
      BY <1>10
    <3>. QED  BY <1>10, <1>19
  <2>. QED  BY <1>10, <1>21, <2>1, <2>2, <2>3, <2>4, <2>5 DEF CommittingTo
<1>24. Phase'
  BY <1>23 DEF Phase, Committing
<1>. QED  BY <1>13, <1>16, <1>22, <1>24, OpenNext

(* A step of writing a message. *)
LEMMA WritePhaseStep ==
    ASSUME IInv, RoomForTwo, WritePhase, Step
    PROVE  IInv' /\ Allows
<1>1. mem.open /\ job = <<>> /\ MemOK(mem) /\ Logged(mem.state)
  BY DEF WritePhase
<1>2. CASE Starting
  <2>1. PICK msg : StartingWith(msg)
    BY <1>2 DEF Starting
  <2>. QED  BY <1>1, <2>1, StartingStep
<1>3. CASE Extending
  <2>1. PICK j, msg : ExtendingWith(j, msg)
    BY <1>3 DEF Extending
  <2>. QED  BY <1>1, <2>1, ExtendingStep
<1>4. CASE Putting
  <2>1. PICK h, pos, msg : PuttingAt(h, pos, msg)
    BY <1>4 DEF Putting
  <2>2. Sound(mem) /\ Writable(msg) /\ Target(h, pos)
    BY <2>1 DEF PuttingAt
  <2>3. CASE todo = <<FixFileSize(h, pos)>> \o PutForm(mem, h, pos, msg)
    BY <1>1, <2>2, <2>3, PutFixStep
  <2>4. CASE todo = PutForm(mem, h, pos, msg) /\ Len(files[h]) = pos
    BY <1>1, <2>2, <2>4, PutMsgStep
  <2>. QED  BY <2>1, <2>3, <2>4 DEF PuttingAt
<1>5. CASE Refusing
  BY <1>1, <1>5, RefusingStep
<1>. QED  BY <1>2, <1>3, <1>4, <1>5 DEF WritePhase

(* A queue in memory that is empty, as far as the log knows of its read     *)
(* position, is empty in the files.                                         *)
LEMMA EmptyIsKnown ==
    ASSUME DiskOK, Recoverable, NEW mq, MemOK(mq), Logged(mq.state), mq.state.size = 0
    PROVE  Durable = <<>>
<1>1. CASE Unwritten(mq)
  <2>1. Recorded(NoLines) = <<>>
    BY DEF Recorded, NoLines
  <2>2. Rec = <<>>
    BY <1>1, <2>1 DEF Unwritten, Rec, StateFile
  <2>. QED  BY <2>2, RecOf
<1>2. CASE Sound(mq) /\ Follows(mq.state)
  <2>1. PICK st : st = mq.state
    OBVIOUS
  <2>2. FilesOK /\ Stored(st) /\ Exists(st.rj) /\ Exists(st.wj)
    BY <1>2, <2>1 DEF DiskOK, Sound, Handles
  <2>3. Durable = Messages(st)
    BY <1>2, <2>1, <2>2, LoggedIsDurable
  <2>4. Messages(st) \in Seq(Message) /\ Len(Messages(st)) = 0
    BY <2>1, <2>2, LastMessage
  <2>. QED  BY <2>3, <2>4
<1>. QED  BY <1>1, <1>2 DEF MemOK

(* The queue is closed. *)
LEMMA ClosingStep ==
    ASSUME IInv, Closing, Step
    PROVE  IInv' /\ Allows
<1>1. PICK a : a = [do |-> "assign", mem |-> Closed, qstate |-> qstate]
  OBVIOUS
<1>2. /\ todo = <<a>>
      /\ mem.open => MemOK(mem) /\ Logged(mem.state)
      /\ job # <<>> => job[1].step \in {"ack", "rmdir"}
      /\ job = <<RmdirStep>> => deleted
  BY <1>1 DEF Closing, Quiet
<1>3. todo # <<>> /\ Head(todo) = a /\ Tail(todo) = <<>>
  BY <1>2
<1>4. DoAssign
  BY <1>1, <1>3, EffectOf
<1>5. /\ mem' = Closed /\ qstate' = qstate /\ todo' = <<>>
      /\ UNCHANGED <<disk, job, lastId, deleted, faults, errors>>
  BY <1>1, <1>3, <1>4 DEF DoAssign, Done
<1>6. DiskOK /\ Recoverable /\ Remembered
  BY DEF IInv, Typed
<1>7. DiskOK' /\ Recoverable' /\ Durable' = Durable /\ Allows
  BY <1>5, <1>6, DiskSame
<1>8. Closed.open = FALSE
  BY DEF Closed
<1>9. Remembered'
  <2>1. CASE mem.open
    <3>1. PICK st : st = mem.state
      OBVIOUS
    <3>2. qstate = <<qState(st)>> /\ Stored(st)
      BY <1>6, <2>1, <3>1 DEF Remembered
    <3>3. ~qState(st).hasPending => st.size = 0
      <4>1. qState(st).hasPending = (st.size > 0)
        BY DEF qState
      <4>2. st.size \in Nat
        BY <3>2, StoredHolds
      <4>3. ~(st.size > 0) => st.size = 0
        BY <4>2
      <4>. QED  BY <4>1, <4>3, Zenon
    <3>4. ~qState(st).hasPending => Durable = <<>>
      BY <1>2, <1>6, <2>1, <3>1, <3>3, EmptyIsKnown
    <3>. QED  BY <1>5, <1>7, <1>8, <3>2, <3>4 DEF Remembered
  <2>2. CASE ~mem.open
    BY <1>5, <1>6, <1>7, <1>8, <2>2 DEF Remembered
  <2>. QED  BY <2>1, <2>2
<1>10. Phase'
  <2>1. job # <<CloseStep, RmdirStep>>
    BY <1>2 DEF CloseStep
  <2>2. Resting'
    BY <1>2, <1>5, <1>8, <2>1 DEF Resting, CloseStep, RmdirStep
  <2>. QED  BY <2>2 DEF Phase
<1>. QED  BY <1>5, <1>7, <1>9, <1>10, OpenNext

(* The files of the deleted queue are removed. *)
LEMMA ClearingStep ==
    ASSUME IInv, Clearing, Step
    PROVE  IInv' /\ deleted'
<1>1. /\ todo # <<>> /\ Head(todo) = RemoveDirectory /\ Tail(todo) = <<>>
      /\ ~mem.open /\ job = <<>> /\ deleted
  BY DEF Clearing
<1>2. DoRemoveDirectory
  BY <1>1, EffectOf, EffectFields
<1>3. /\ dir' = FALSE /\ files' = <<>> /\ log' = NoLines /\ bak' = NoLines /\ todo' = <<>>
      /\ UNCHANGED <<mem, qstate, job, lastId, deleted, faults, errors>>
  BY <1>1, <1>2 DEF DoRemoveDirectory, Done
<1>4. DiskOK' /\ Rec' = <<>>
  <2>1. DOMAIN files' = {}
    BY <1>3
  <2>2. FilesOK'
    BY <2>1 DEF FilesOK
  <2>3. Recorded(NoLines) = <<>>
    BY DEF Recorded, NoLines
  <2>. QED  BY <1>3, <2>1, <2>2, <2>3 DEF DiskOK, LogOK, Rec, StateFile
<1>5. Recoverable' /\ Durable' = <<>>
  BY <1>4, NoRecord
<1>6. Remembered'
  BY <1>1, <1>3, <1>5 DEF IInv, Remembered
<1>7. Phase'
  BY <1>1, <1>3 DEF Phase, Resting
<1>. QED  BY <1>1, <1>3, <1>4, <1>5, <1>6, <1>7, OpenNext

(* An effect keeps the invariant; what can be read from the files changes   *)
(* as the abstract queue does, until the queue is deleted.                  *)
LEMMA EffectStep ==
    ASSUME IInv, RoomForTwo, Step, todo # <<>>
    PROVE  IInv' /\ (Allows \/ deleted')
<1>1. Phase /\ ~Resting
  BY DEF IInv, Resting
<1>2. CASE OpenPhase
  BY <1>2, OpenPhaseStep
<1>3. CASE Landing
  BY <1>3, LandingStep
<1>4. CASE Committing
  BY <1>4, CommittingStep
<1>5. CASE Logging
  BY <1>5, LoggingStep
<1>6. CASE Reading
  BY <1>6, ReadingStep
<1>7. CASE Switching
  BY <1>7, SwitchingStep
<1>8. CASE WritePhase
  BY <1>8, WritePhaseStep
<1>9. CASE Closing
  BY <1>9, ClosingStep
<1>10. CASE Clearing
  BY <1>10, ClearingStep
<1>. QED  BY <1>1, <1>2, <1>3, <1>4, <1>5, <1>6, <1>7, <1>8, <1>9, <1>10 DEF Phase
-----------------------------------------------------------------------------
(* The steps of an operation *)

(* The names of the steps. *)
LEMMA StepFields ==
    /\ \A b : OpenStep(b).step = "open" /\ OpenStep(b).forWrite = b
    /\ PeekStep.step = "peek" /\ CloseStep.step = "close" /\ RmdirStep.step = "rmdir"
    /\ CloseEmptyStep.step = "closeEmpty" /\ CloseUnstoredStep.step = "closeUnstored"
    /\ \A b : DeleteStep(b).step = "delete" /\ DeleteStep(b).log = b
    /\ \A m : WriteStep(m).step = "write" /\ WriteStep(m).id = m
    /\ \A m : AckStep(m).step = "ack" /\ AckStep(m).id = m
    /\ \A n : ExpireStep(n).step = "expire" /\ ExpireStep(n).n = n
    /\ \A n : ExpiredStep(n).step = "expired" /\ ExpiredStep(n).n = n
    BY DEF OpenStep, PeekStep, CloseStep, RmdirStep, CloseEmptyStep, CloseUnstoredStep,
           DeleteStep, WriteStep, AckStep, ExpireStep, ExpiredStep

(* The first step of a job, and what is left. *)
JobIs(first, rest) ==
    /\ job # <<>> /\ job[1] = first /\ Head(job) = first
    /\ Tail(job) = rest /\ <<>> \o rest = rest

(* Of a job of one to four steps. *)
LEMMA JobOf ==
    /\ \A a : job = <<a>> => JobIs(a, <<>>)
    /\ \A a, b : job = <<a, b>> => JobIs(a, <<b>>)
    /\ \A a, b, c : job = <<a, b, c>> => JobIs(a, <<b, c>>)
    /\ \A a, b, c, d : job = <<a, b, c, d>> => JobIs(a, <<b, c, d>>)
<1>1. \A S, t, a : t \in Seq(S) /\ job = <<a>> \o t => JobIs(a, t)
  <2>1. TAKE S, t, a
  <2>2. SUFFICES ASSUME t \in Seq(S), job = <<a>> \o t
                 PROVE  JobIs(a, t)
    OBVIOUS
  <2>3. job # <<>> /\ Head(job) = a /\ Tail(job) = t
    BY <2>2, ConsOne
  <2>4. <<>> \o t = t
    BY <2>2, JoinEmpty
  <2>5. job[1] = a
    BY <2>2
  <2>. QED  BY <2>3, <2>4, <2>5 DEF JobIs
<1>2. ASSUME NEW a, job = <<a>>
      PROVE  JobIs(a, <<>>)
  <2>1. <<>> \in Seq({a}) /\ <<a>> \o <<>> = <<a>>
    OBVIOUS
  <2>. QED  BY <1>1, <1>2, <2>1
<1>3. ASSUME NEW a, NEW b, job = <<a, b>>
      PROVE  JobIs(a, <<b>>)
  <2>1. <<b>> \in Seq({b})
    OBVIOUS
  <2>. QED  BY <1>1, <1>3, <2>1, JoinOneOne
<1>4. ASSUME NEW a, NEW b, NEW c, job = <<a, b, c>>
      PROVE  JobIs(a, <<b, c>>)
  <2>1. <<b, c>> \in Seq({b, c})
    OBVIOUS
  <2>. QED  BY <1>1, <1>4, <2>1, JoinOneTwo
<1>5. ASSUME NEW a, NEW b, NEW c, NEW d, job = <<a, b, c, d>>
      PROVE  JobIs(a, <<b, c, d>>)
  <2>1. PICK t : t = <<b, c, d>>
    OBVIOUS
  <2>2. t \in Seq({b, c, d})
    BY <2>1
  <2>3. job = <<a>> \o t
    BY <1>5, <2>1, JoinOneThree
  <2>. QED  BY <1>1, <2>1, <2>2, <2>3
<1>. QED  BY <1>2, <1>3, <1>4, <1>5

(* The jobs, by their first step. *)
LEMMA JobShape ==
    ASSUME JobOK, job # <<>>
    PROVE  \/ \E m \in 1..MaxSends :
                \/ JobIs(OpenStep(TRUE), <<WriteStep(m)>>)
                \/ JobIs(WriteStep(m), <<>>)
                \/ JobIs(OpenStep(FALSE), <<PeekStep, CloseEmptyStep, AckStep(m)>>)
                \/ JobIs(OpenStep(FALSE), <<PeekStep, AckStep(m)>>)
                \/ JobIs(PeekStep, <<CloseEmptyStep, AckStep(m)>>)
                \/ JobIs(PeekStep, <<AckStep(m)>>)
                \/ JobIs(CloseEmptyStep, <<AckStep(m)>>)
                \/ JobIs(AckStep(m), <<>>)
           \/ JobIs(OpenStep(FALSE), <<PeekStep, CloseEmptyStep>>)
           \/ JobIs(OpenStep(FALSE), <<PeekStep>>)
           \/ JobIs(PeekStep, <<CloseEmptyStep>>)
           \/ JobIs(PeekStep, <<>>)
           \/ JobIs(CloseEmptyStep, <<>>)
           \/ JobIs(DeleteStep(TRUE), <<PeekStep>>)
           \/ "EXPIRE" \in Ops /\ \E n \in Nat :
                \/ JobIs(OpenStep(FALSE), <<CloseUnstoredStep, ExpireStep(n), CloseStep>>)
                \/ JobIs(OpenStep(FALSE), <<ExpireStep(n), CloseStep>>)
                \/ JobIs(CloseUnstoredStep, <<ExpireStep(n), CloseStep>>)
                \/ JobIs(ExpireStep(n), <<CloseStep>>)
                \/ JobIs(PeekStep, <<ExpiredStep(n), CloseStep>>) /\ Expiring
                \/ JobIs(ExpiredStep(n), <<CloseStep>>)
                \/ JobIs(DeleteStep(FALSE), <<ExpireStep(n), CloseStep>>)
           \/ JobIs(CloseStep, <<>>)
           \/ JobIs(CloseStep, <<RmdirStep>>) /\ job = <<CloseStep, RmdirStep>>
           \/ JobIs(RmdirStep, <<>>) /\ job = <<RmdirStep>>
    BY JobOf, Zenon DEF JobOK, Expiring

(* Planning the next step keeps the invariant if the plan fits. *)
LEMMA PlanNext ==
    ASSUME IInv, UNCHANGED <<disk, mem, qstate, lastId, faults, errors>>, JobOK', Phase'
    PROVE  IInv' /\ Allows
<1>1. DiskOK /\ Recoverable /\ Remembered
  BY DEF IInv, Typed
<1>2. /\ DiskOK' /\ Recoverable' /\ Durable' = Durable /\ NoneLost /\ Allows
      /\ \A st : Stored(st) => KeptFor(st)
  BY <1>1, DiskSame
<1>3. Remembered'
  <2>1. mem.open => KeptFor(mem.state)
    BY <1>1, <1>2 DEF Remembered
  <2>. QED  BY <1>1, <1>2, <2>1, RememberedKept
<1>4. Typed'
  BY <1>2 DEF IInv, Typed, NoStoreError
<1>. QED  BY <1>2, <1>3, <1>4 DEF IInv

(* What is known of the queue in memory between two steps is still known    *)
(* when the next one is planned.                                            *)
LEMMA MemPlanned ==
    ASSUME IInv, Resting, UNCHANGED <<disk, mem, faults>>, mem.open
    PROVE  /\ Quiet(mem)' /\ (Logged(mem.state)' <=> Logged(mem.state))
           /\ Logged(mem.state) \/ Expiring
<1>1. PICK mq : mq = mem
  OBVIOUS
<1>2. DiskOK /\ Recoverable
  BY DEF IInv, Typed
<1>3. MemOK(mq) /\ Settled(mq) /\ (Logged(mq.state) \/ Expiring)
  BY <1>1 DEF Resting, Quiet
<1>4. Quiet(mq)' /\ (Logged(mq.state)' <=> Logged(mq.state))
  BY <1>2, <1>3, QuietSame
<1>5. Quiet(mem)' = Quiet(mq)' /\ Logged(mem.state)' = Logged(mq.state)'
  BY <1>1
<1>. QED  BY <1>1, <1>3, <1>4, <1>5

(* Nothing is put in place of the first step. *)
LEMMA PlanJob ==
    ASSUME JobOK, job # <<>>
    PROVE  <<>> \o Tail(job) = Tail(job)
<1>1. \A a, t : JobIs(a, t) => <<>> \o Tail(job) = Tail(job)
  BY DEF JobIs
<1>. QED  BY <1>1, JobShape, Zenon

(* An operation that begins with opening the queue, which is open already. *)
LEMMA OpenJob ==
    ASSUME JobOK, job # <<>>, Head(job).step = "open", job' = Tail(job)
    PROVE  /\ JobOK' /\ OpenedJob' /\ ~Expiring
           /\ job' \notin {<<CloseStep, RmdirStep>>, <<RmdirStep>>}
<1>1. \/ \E m \in 1..MaxSends :
           \/ job' = <<WriteStep(m)>>
           \/ job' = <<PeekStep, CloseEmptyStep, AckStep(m)>>
           \/ job' = <<PeekStep, AckStep(m)>>
      \/ job' = <<PeekStep, CloseEmptyStep>>
      \/ job' = <<PeekStep>>
      \/ "EXPIRE" \in Ops /\ \E n \in Nat :
           \/ job' = <<CloseUnstoredStep, ExpireStep(n), CloseStep>>
           \/ job' = <<ExpireStep(n), CloseStep>>
  BY JobShape, StepFields, Zenon DEF JobIs
<1>2. JobOK'
  BY <1>1, Zenon DEF JobOK, Expiring
<1>3. job' # <<>> /\ job'[1].step \in {"write", "peek", "closeUnstored", "expire"}
  <2> DEFINE Names(a) == a.step \in {"write", "peek", "closeUnstored", "expire"}
             Starts(x) == x # <<>> /\ Names(x[1])
  <2>1. /\ \A a : Names(a) => Starts(<<a>>)
        /\ \A a, b : Names(a) => Starts(<<a, b>>)
        /\ \A a, b, c : Names(a) => Starts(<<a, b, c>>)
    OBVIOUS
  <2>2. /\ \A m : Names(WriteStep(m))
        /\ Names(PeekStep)
        /\ Names(CloseUnstoredStep)
        /\ \A n : Names(ExpireStep(n))
    BY StepFields
  <2> HIDE DEF Starts, Names
  <2>3. /\ \A m : Starts(<<WriteStep(m)>>)
        /\ \A m : Starts(<<PeekStep, CloseEmptyStep, AckStep(m)>>)
        /\ \A m : Starts(<<PeekStep, AckStep(m)>>)
        /\ Starts(<<PeekStep, CloseEmptyStep>>)
        /\ Starts(<<PeekStep>>)
        /\ \A n : Starts(<<CloseUnstoredStep, ExpireStep(n), CloseStep>>)
        /\ \A n : Starts(<<ExpireStep(n), CloseStep>>)
    BY <2>1, <2>2
  <2>4. Starts(job')
    BY <1>1, <2>3, Zenon
  <2>. QED  BY <2>4 DEF Starts, Names
<1>4. ~Expiring
  <2>1. SUFFICES ASSUME Expiring
                 PROVE  FALSE
    OBVIOUS
  <2>2. Head(job).step \in {"expire", "peek", "expired", "delete"}
    <3>1. \/ \E n : Head(job) = ExpireStep(n) \/ Head(job) = ExpiredStep(n)
          \/ Head(job) = PeekStep \/ Head(job) = DeleteStep(FALSE)
      <4>1. \A a, t : JobIs(a, t) => Head(job) = a
        BY DEF JobIs
      <4>. QED  BY <2>1, <4>1, JobOf, Zenon DEF Expiring
    <3>. QED  BY <3>1, StepFields
  <2>. QED  BY <2>2
<1>5. job' \notin {<<CloseStep, RmdirStep>>, <<RmdirStep>>}
  <2>1. ASSUME job' = <<CloseStep, RmdirStep>> \/ job' = <<RmdirStep>>
        PROVE  FALSE
    <3>1. job'[1] = CloseStep \/ job'[1] = RmdirStep
      <4>1. \A x, a, b : (x = <<a, b>> \/ x = <<a>>) => x[1] = a
        OBVIOUS
      <4>. QED  BY <2>1, <4>1, Zenon
    <3>2. job'[1].step = "close" \/ job'[1].step = "rmdir"
      BY <3>1, StepFields
    <3>. QED  BY <1>3, <3>2
  <2>. QED  BY <2>1
<1>. QED  BY <1>2, <1>3, <1>4, <1>5 DEF OpenedJob

(* The next step finds the queue open. *)
LEMMA AlreadyOpen ==
    ASSUME IInv, Resting, Open, mem.open
    PROVE  IInv' /\ Allows
<1>1. /\ job # <<>> /\ Head(job).step = "open" /\ todo' = <<>>
      /\ job' = Tail(job)
      /\ UNCHANGED <<disk, mem, qstate, lastId, faults, errors>>
  BY PlanJob DEF Open, NextStep, Plan, IInv, Typed
<1>2. /\ JobOK' /\ OpenedJob' /\ ~Expiring
      /\ job' \notin {<<CloseStep, RmdirStep>>, <<RmdirStep>>}
  BY <1>1, OpenJob DEF IInv, Typed
<1>3. Quiet(mem)' /\ Logged(mem.state)'
  BY <1>1, <1>2, MemPlanned
<1>4. mem'.open
  BY <1>1
<1>5. Resting'
  BY <1>1, <1>2, <1>3, <1>4 DEF Resting, OpenedJob
<1>. QED  BY <1>1, <1>2, <1>5, PlanNext DEF Phase

(* An id that is not used: no journal and no recorded state has it. *)
LEMMA UnusedId ==
    ASSUME DiskOK, unusedIds # {}, NEW j, j = newJournalId
    PROVE  /\ j \in JournalId /\ ~Exists(j)
           /\ Rec # <<>> => Rec[1].rj # j /\ Rec[1].wj # j
           /\ mem.open => mem.state.rj # j /\ mem.state.wj # j
<1>1. j \in unusedIds
  BY DEF newJournalId
<1>2. j \in JournalId /\ ~Exists(j) /\ j \notin Referenced
  BY <1>1 DEF unusedIds, Exists
<1>3. PICK states : states = {l[1] : l \in {k \in Range(log.lines) \cup Range(bak.lines) : k # <<>>}}
                                \cup (IF mem.open THEN {mem.state} ELSE {})
  OBVIOUS
<1>4. \A st \in states : st.rj # j /\ st.wj # j
  BY <1>2, <1>3 DEF Referenced
<1>5. mem.open => mem.state \in states
  BY <1>3
<1>6. Rec # <<>> => Rec[1] \in states
  <2>1. SUFFICES ASSUME Rec # <<>>
                 PROVE  Rec[1] \in states
    OBVIOUS
  <2>2. PICK f : f = StateFile
    OBVIOUS
  <2>3. f = log \/ f = bak
    BY <2>2 DEF StateFile
  <2>4. LogOK(f) /\ Rec = Recorded(f)
    BY <2>2, <2>3 DEF DiskOK, Rec
  <2>5. Recorded(f) \in Range(f.lines)
    <3>1. ASSUME NEW a, NEW newline, f = LogOf(<<a>>, newline)
          PROVE  Recorded(f) \in Range(f.lines)
      <4>1. f.lines = <<a>> /\ Recorded(f) = a
        BY <3>1, LogFields, RecordedByOne
      <4>2. 1 \in DOMAIN f.lines /\ f.lines[1] = a
        BY <4>1
      <4>. QED  BY <4>1, <4>2 DEF Range
    <3>2. ASSUME NEW a, NEW b, NEW newline, f = LogOf(<<a, b>>, newline)
          PROVE  Recorded(f) \in Range(f.lines)
      <4>1. f.lines = <<a, b>> /\ (Recorded(f) = a \/ Recorded(f) = b)
        BY <3>2, LogFields, RecordedByTwo, RecordedByBad
      <4>2. /\ 1 \in DOMAIN f.lines /\ f.lines[1] = a
            /\ 2 \in DOMAIN f.lines /\ f.lines[2] = b
        BY <4>1
      <4>. QED  BY <4>1, <4>2 DEF Range
    <3>3. f # NoLines
      BY <2>1, <2>4, RecordedIsState
    <3>. QED  BY <2>4, <3>1, <3>2, <3>3, Zenon DEF LogOK
  <2>. QED  BY <1>3, <2>1, <2>3, <2>4, <2>5
<1>. QED  BY <1>2, <1>4, <1>5, <1>6

(* A log is compacted only if it can be, and always if its last line is bad. *)
LEMMA BackupOf ==
    ASSUME NEW f, LogOK(f), NEW backup \in shouldBackup(f)
    PROVE  /\ backup \in BOOLEAN
           /\ ~backup => f.newline
           /\ backup => f # NoLines
           /\ Recorded(f) = <<>> => f = NoLines \/ backup
<1>1. \A a, b : /\ Len(<<a>>) = 1 /\ Last(<<a>>) = a /\ <<a>> # <<>>
                /\ Len(<<a, b>>) = 2 /\ Last(<<a, b>>) = b /\ <<a, b>> # <<>>
  BY DEF Last
<1>2. backup \in BOOLEAN
  BY DEF shouldBackup
<1>3. CASE f = NoLines
  <2>1. f.lines = <<>> /\ f.newline = TRUE /\ Len(f.lines) # 2
    BY <1>3 DEF NoLines
  <2>2. backup = FALSE
    BY <2>1 DEF shouldBackup
  <2>. QED  BY <1>2, <1>3, <2>1, <2>2
<1>4. ASSUME NEW lines, f = LogOf(lines, FALSE), lines # <<>>, Last(lines) = <<>>, f # NoLines
      PROVE  backup
  <2>1. f.lines = lines
    BY <1>4, LogFields
  <2>2. backup = TRUE
    BY <1>4, <2>1 DEF shouldBackup
  <2>. QED  BY <2>2
<1>5. CASE f = LogOf(<<<<>>>>, FALSE)
  <2>1. f # NoLines
    BY <1>5, RecordedByOne
  <2>. QED  BY <1>1, <1>2, <1>4, <1>5, <2>1
<1>6. ASSUME NEW s, f = LogOf(<<<<s>>>>, TRUE)
      PROVE  f.newline /\ f # NoLines /\ Recorded(f) # <<>>
  <2>1. Recorded(f) = <<s>> /\ f # NoLines /\ f.newline = TRUE
    BY <1>6, LogFields, RecordedByOne
  <2>2. <<s>> # <<>>
    OBVIOUS
  <2>. QED  BY <2>1, <2>2
<1>7. ASSUME NEW s, f = LogOf(<<<<s>>, <<>>>>, FALSE)
      PROVE  backup /\ f # NoLines /\ Recorded(f) # <<>>
  <2>1. f # NoLines /\ Recorded(f) = <<s>>
    BY <1>7, RecordedByBad
  <2>. QED  BY <1>1, <1>4, <1>7, <2>1
<1>8. ASSUME NEW s, NEW t, f = LogOf(<<<<s>>, <<t>>>>, TRUE)
      PROVE  f.newline /\ f # NoLines /\ Recorded(f) # <<>>
  <2>1. <<t>> # <<>>
    OBVIOUS
  <2>. QED  BY <1>8, <2>1, LogFields, RecordedByTwo
<1>. QED  BY <1>2, <1>3, <1>5, <1>6, <1>7, <1>8 DEF LogOK

(* What is recorded can be read. *)
LEMMA NothingUnreadable ==
    ASSUME DiskOK, Recoverable
    PROVE  ~Unreadable(StateFile)
<1>1. PICK f : f = StateFile
  OBVIOUS
<1>2. LogOK(f) /\ Rec = Recorded(f)
  BY <1>1 DEF DiskOK, StateFile, Rec
<1>3. ~(Len(f.lines) = 2 /\ Recorded(f) = <<>>)
  <2>1. CASE f = NoLines
    <3>1. Len(f.lines) = 0
      BY <2>1 DEF NoLines
    <3>. QED  BY <3>1
  <2>2. ASSUME NEW a, NEW newline, f = LogOf(<<a>>, newline)
        PROVE  Len(f.lines) # 2
    <3>1. f.lines = <<a>>
      BY <2>2, LogFields
    <3>. QED  BY <3>1
  <2>3. ASSUME NEW s, f = LogOf(<<<<s>>, <<>>>>, FALSE)
        PROVE  Recorded(f) # <<>>
    <3>1. Recorded(f) = <<s>>
      BY <2>3, RecordedByBad
    <3>2. <<s>> # <<>>
      OBVIOUS
    <3>. QED  BY <3>1, <3>2
  <2>4. ASSUME NEW s, NEW t, f = LogOf(<<<<s>>, <<t>>>>, TRUE)
        PROVE  Recorded(f) # <<>>
    <3>1. <<t>> # <<>>
      OBVIOUS
    <3>. QED  BY <2>4, <3>1, RecordedByTwo
  <2>. QED  BY <1>2, <2>1, <2>2, <2>3, <2>4 DEF LogOK
<1>4. Recorded(f) # <<>> => validQueueState(Recorded(f)[1])
  BY <1>2 DEF Recoverable, Stored
<1>. QED  BY <1>1, <1>3, <1>4 DEF Unreadable

(* Opening goes on with the journals, before or after the log is compacted. *)
LEMMA PlanOpens ==
    ASSUME DiskOK, Recoverable, ~mem.open, dir, OpenedJob',
           UNCHANGED <<disk, mem, qstate, faults>>,
           NEW k, NEW s, BackedBy(k, s), NEW backup \in shouldBackup(StateFile),
           todo' = Optional(bak # NoLines, <<RestoreBackup>>) \o (openBackupQueueState(s, backup) \o k)
    PROVE  Phase'
<1>1. UNCHANGED <<files, log, bak, dir>> /\ Rec' = Rec
  BY DEF disk, Rec, StateFile, Recorded, NoLines
<1>2. OpenForm(k)
  BY BackedByState
<1>3. BackedBy(k, s)'
  BY <1>1, BackedByKept
<1>4. OpenForm(k)'
  <2>1. CASE FixForm(k) \/ RecreateForm(k)
    BY <1>1, <2>1, FormsKept DEF OpenForm
  <2>2. CASE ReplaceForm(k)
    <3>1. PICK j, a : ReplaceOf(j, a, k)
      BY <2>2 DEF ReplaceForm
    <3>2. Rec' # <<>> /\ Rec'[1].size = 0
      BY <1>1, <3>1 DEF ReplaceOf
    <3>3. ReplaceOf(j, a, k)'
      BY <1>1, <3>1, <3>2, ReplaceKept
    <3>. QED  BY <3>3 DEF OpenForm, ReplaceForm
  <2>. QED  BY <1>2, <2>1, <2>2 DEF OpenForm
<1>5. PICK S : k \in Seq(S)
  BY <1>2, FormSeq
<1>6. ~mem'.open
  OBVIOUS
<1>7. LogOK(StateFile) /\ backup \in BOOLEAN /\ (~backup => StateFile.newline)
  BY BackupOf DEF DiskOK, StateFile
<1>8. PICK t : t = <<TempBackup, AppendState(s), TimedBackup>> \o k
  OBVIOUS
<1>9. /\ ~backup => openBackupQueueState(s, backup) \o k = k
      /\ backup => openBackupQueueState(s, backup) \o k = t
  BY <1>5, <1>8, JoinEmpty DEF openBackupQueueState, Optional
<1>10. PICK T : t \in Seq(T)
  <2> DEFINE T == S \cup {TempBackup, AppendState(s), TimedBackup}
  <2>1. k \in Seq(T) /\ <<TempBackup, AppendState(s), TimedBackup>> \in Seq(T)
    BY <1>5
  <2>2. t \in Seq(T)
    BY <1>8, <2>1
  <2>. QED  BY <2>2
<1>11. /\ TempBackup' = TempBackup /\ AppendState(s)' = AppendState(s)
       /\ TimedBackup' = TimedBackup /\ RestoreBackup' = RestoreBackup
  BY DEF TempBackup, AppendState, TimedBackup, RestoreBackup
<1>12. CASE bak = NoLines /\ ~backup
  <2>1. todo' = k
    BY <1>5, <1>9, <1>12, JoinEmpty DEF Optional
  <2>2. LogReady'
    BY <1>1, <1>7, <1>12 DEF LogReady, StateFile, NoLines
  <2>3. OpenForm(todo)'
    BY <1>4, <2>1
  <2>. QED  BY <1>6, <2>2, <2>3 DEF Phase, OpenPhase, Opening
<1>13. CASE bak = NoLines /\ backup
  <2>1. todo' = t
    BY <1>9, <1>10, <1>13, JoinEmpty DEF Optional
  <2>2. BackingUpOf(k, s)'
    BY <1>1, <1>3, <1>8, <1>11, <1>13, <2>1 DEF BackingUpOf, NoLines
  <2>. QED  BY <1>6, <2>2 DEF Phase, OpenPhase, BackingUp
<1>14. CASE bak # NoLines /\ ~backup
  <2>1. todo' = <<RestoreBackup>> \o k
    BY <1>9, <1>14 DEF Optional
  <2>2. Restoring'
    BY <1>1, <1>4, <1>7, <1>11, <1>14, <2>1 DEF Restoring, NoLines, StateFile
  <2>. QED  BY <1>6, <2>2 DEF Phase, OpenPhase
<1>15. CASE bak # NoLines /\ backup
  <2>1. todo' = <<RestoreBackup>> \o t
    BY <1>9, <1>15 DEF Optional
  <2>2. Restoring'
    BY <1>1, <1>3, <1>8, <1>11, <1>15, <2>1 DEF Restoring, NoLines
  <2>. QED  BY <1>6, <2>2 DEF Phase, OpenPhase
<1>. QED  BY <1>7, <1>12, <1>13, <1>14, <1>15

(* Opening only to read an empty queue. *)
LEMMA PlanRetires ==
    ASSUME DiskOK, Recoverable, ~mem.open, dir, OpenedJob',
           UNCHANGED <<disk, mem, qstate, faults>>, NEW k, RetireForm(k),
           todo' = Optional(bak # NoLines, <<RestoreBackup>>) \o k
    PROVE  Phase'
<1>1. UNCHANGED <<files, log, bak, dir>> /\ Rec' = Rec
  BY DEF disk, Rec, StateFile, Recorded, NoLines
<1>2. RetireForm(k)'
  BY <1>1, FormsKept
<1>3. PICK S : k \in Seq(S)
  BY FormSeq
<1>4. ~mem'.open /\ RestoreBackup' = RestoreBackup
  BY DEF RestoreBackup
<1>5. CASE bak = NoLines
  <2>1. todo' = k
    BY <1>3, <1>5, JoinEmpty DEF Optional
  <2>2. RetireForm(todo)'
    BY <1>2, <2>1
  <2>3. Retiring'
    BY <1>1, <1>5, <2>2 DEF Retiring, NoLines
  <2>. QED  BY <1>4, <2>3 DEF Phase, OpenPhase
<1>6. CASE bak # NoLines
  <2>1. todo' = <<RestoreBackup>> \o k
    BY <1>6 DEF Optional
  <2>2. Restoring'
    BY <1>1, <1>2, <1>4, <1>6, <2>1 DEF Restoring, NoLines
  <2>. QED  BY <1>4, <2>2 DEF Phase, OpenPhase
<1>. QED  BY <1>5, <1>6

(* Opening a queue that has no files, or of which nothing is recorded. *)
LEMMA PlanAssigns ==
    ASSUME OpenedJob', NEW j \in JournalId, log' = NoLines, bak' = NoLines,
           Exists(j)' => files'[j] = <<>>,
           todo' = <<Assign(Opened(newMsgQueueState(j), 0, 0))>>
    PROVE  Phase'
<1>1. PICK mq : mq = Opened(newMsgQueueState(j), 0, 0)
  OBVIOUS
<1>2. mq.open = TRUE /\ ~Stranded(mq) /\ Assign(mq)' = Assign(mq) /\ mq.state.rpos = 0
  <2>1. /\ mq.open = TRUE /\ ~Stranded(mq) /\ Assign(mq)' = Assign(mq)
        /\ mq.state = newMsgQueueState(j)
    BY <1>1, OpenedFields
  <2>. QED  BY <2>1 DEF newMsgQueueState
<1>3. MemOK(mq)'
  <2>1. Unwritten(Opened(newMsgQueueState(j), 0, 0))'
    BY UnwrittenNext
  <2>2. mq = Opened(newMsgQueueState(j), 0, 0)'
    BY <1>1 DEF Opened, newMsgQueueState
  <2>3. Unwritten(mq)'
    BY <2>1, <2>2
  <2>. QED  BY <2>3 DEF MemOK
<1>4. Logged(mq.state)'
  <2>1. Rec' = <<>>
    BY DEF Rec, StateFile, Recorded, NoLines
  <2>. QED  BY <1>2, <2>1 DEF Logged, From
<1>5. todo' = <<Assign(mq)'>> \o <<>>
  <2>1. <<Assign(mq)>> \in Seq({Assign(mq)})
    OBVIOUS
  <2>. QED  BY <1>1, <1>2, <2>1, JoinEmpty
<1>6. Quiet(mq)' /\ ReadForm(mq, <<>>)' /\ JobFits(mq)'
  BY <1>2, <1>3 DEF Quiet, Settled, Stranded, ReadForm, JobFits, OpenedJob
<1>7. LandingOn(mq, <<>>)'
  BY <1>2, <1>4, <1>5, <1>6 DEF LandingOn
<1>. QED  BY <1>7 DEF Phase, Landing

(* An opened queue whose head has not been read. *)
LEMMA QueueOf ==
    ASSUME NEW s \in States, NEW r \in Nat, NEW h \in Nat
    PROVE  [open |-> TRUE, state |-> s, readHandle |-> r, writeHandle |-> h, tip |-> <<>>] \in Queues
<1>1. PICK T : T = {<<>>} \cup {<<m>> : m \in Message}
  OBVIOUS
<1>2. <<>> \in T
  BY <1>1
<1>3. Queues = [open : {TRUE}, state : States, readHandle : Nat, writeHandle : Nat, tip : T]
  BY <1>1 DEF Queues
<1>. QED  BY <1>2, <1>3

(* Opening with journals that are there. *)
LEMMA OpensFixed ==
    ASSUME NEW s, Stored(s), Exists(s.rj), Exists(s.wj), Rec # <<>>, Follows(s), Logged(s),
           NEW mq, mq = Opened(s, s.rj, IF s.rj = s.wj THEN 0 ELSE s.wj), NEW k,
           \/ k = <<FixFileSize(s.rj, s.rcount), Assign(mq)>>
           \/ k = <<FixFileSize(s.rj, s.rcount), FixFileSize(s.wj, s.wcount), Assign(mq)>>
           \/ k = <<FixFileSize(s.wj, s.wcount), Assign(mq)>>
    PROVE  FixForm(k)
<1>1. s \in States /\ s.rj \in JournalId /\ s.wj \in JournalId
  BY StoredHolds
<1>2. PICK h : h = IF s.rj = s.wj THEN 0 ELSE s.wj
  OBVIOUS
<1>3. h \in Nat /\ s.rj \in Nat
  BY <1>1, <1>2 DEF JournalId
<1>4. mq = [open |-> TRUE, state |-> s, readHandle |-> s.rj, writeHandle |-> h, tip |-> <<>>]
  BY <1>2 DEF Opened
<1>5. /\ mq \in Queues
      /\ mq.state = s /\ mq.readHandle = s.rj /\ mq.writeHandle = h /\ mq.tip = <<>>
  <2>1. PICK r : r = s.rj
    OBVIOUS
  <2>3. r \in Nat /\ mq = [open |-> TRUE, state |-> s, readHandle |-> r, writeHandle |-> h, tip |-> <<>>]
    BY <1>3, <1>4, <2>1
  <2>4. mq \in Queues
    BY <1>1, <1>3, <2>3, QueueOf
  <2>5. mq.state = s /\ mq.readHandle = s.rj /\ mq.writeHandle = h /\ mq.tip = <<>>
    BY <1>4
  <2>. QED  BY <2>4, <2>5
<1>6. Handles(mq)
  <2>1. ~Stranded(mq)
    BY <1>2, <1>5 DEF Stranded
  <2>2. s.rj # s.wj => h = s.wj
    BY <1>2
  <2>. QED  BY <1>5, <2>1, <2>2 DEF Handles
<1>7. Sound(mq)
  BY <1>5, <1>6 DEF Sound, TipOK
<1>8. FixOf(mq, k)
  BY <1>5, <1>7 DEF FixOf
<1>. QED  BY <1>8 DEF FixForm

(* What is left of a state without one of its journals. *)
LEMMA LeftFields ==
    ASSUME NEW st \in States, validQueueState(st)
    PROVE  /\ withoutWrite(st) \in States /\ validQueueState(withoutWrite(st))
           /\ withoutWrite(st).rj = st.rj /\ withoutWrite(st).wj = st.rj
           /\ withoutWrite(st).rpos = st.rpos /\ withoutWrite(st).rcount = st.rcount
           /\ withoutWrite(st).wcount = st.rcount /\ withoutWrite(st).canWrite = st.canWrite
           /\ switchedToWrite(st) \in States /\ validQueueState(switchedToWrite(st))
           /\ switchedToWrite(st).rj = st.wj /\ switchedToWrite(st).wj = st.wj
           /\ switchedToWrite(st).rpos = 0 /\ switchedToWrite(st).rcount = st.wcount
           /\ switchedToWrite(st).wcount = st.wcount
           /\ switchedToWrite(st).canWrite = st.canWrite
<1>1. /\ st.rj \in JournalId /\ st.wj \in JournalId /\ st.rpos \in Nat /\ st.rcount \in Nat
      /\ st.wcount \in Nat /\ st.rpos <= st.rcount
  BY StateFields, ValidState
<1>2. st.rcount - st.rpos \in Nat
  BY <1>1
<1>3. PICK n \in Nat : n = st.rcount - st.rpos
  BY <1>2
<1>4. PICK w : w = withoutWrite(st)
  OBVIOUS
<1>5. w = [st EXCEPT !.wj = st.rj, !.wcount = st.rcount, !.size = n]
  BY <1>3, <1>4 DEF withoutWrite
<1>6. w \in States
  BY <1>1, <1>5 DEF States
<1>7. /\ w.rj = st.rj /\ w.wj = st.rj /\ w.rpos = st.rpos /\ w.rcount = st.rcount
      /\ w.wcount = st.rcount /\ w.canWrite = st.canWrite /\ w.size = n
  BY <1>5 DEF States
<1>8. validQueueState(w)
  BY <1>1, <1>3, <1>7 DEF validQueueState
<1>9. PICK v : v = switchedToWrite(st)
  OBVIOUS
<1>10. v \in States
  BY <1>1, <1>9 DEF States, switchedToWrite
<1>11. /\ v.rj = st.wj /\ v.wj = st.wj /\ v.rpos = 0 /\ v.rcount = st.wcount
       /\ v.wcount = st.wcount /\ v.canWrite = st.canWrite /\ v.size = st.wcount
  BY <1>9 DEF States, switchedToWrite
<1>12. validQueueState(v)
  BY <1>1, <1>11 DEF validQueueState
<1>. QED  BY <1>4, <1>6, <1>7, <1>8, <1>9, <1>10, <1>11, <1>12

(* openJournals: the journals that are there are opened with what is left   *)
(* of the recorded state, or a new one is created.                          *)
LEMMA OpenJournalsOf ==
    ASSUME DiskOK, Recoverable, unusedIds # {}, Rec # <<>>, NEW st, st = Rec[1],
           NEW k, k = openJournals(st)
    PROVE  FixForm(k) \/ RecreateForm(k)
<1>1. /\ Stored(st) /\ st \in States /\ validQueueState(st)
      /\ st.rpos \in Nat /\ st.rcount \in Nat /\ st.wcount \in Nat
      /\ st.rj = st.wj => st.rcount = st.wcount
      /\ st.rj # st.wj => st.wcount > 0
  BY StoredHolds, ValidState DEF Recoverable
<1>2. From(st) = st.rpos /\ Logged(st)
  BY DEF From, Logged
<1>3. \A a, b : <<a>> \o <<b>> = <<a, b>>
  BY JoinOneOne
<1>4. \A a, b, c : <<a>> \o <<b, c>> = <<a, b, c>>
  BY JoinOneTwo
<1>5. CASE k = newReadJournal /\ ~Exists(st.rj) /\ ~Exists(st.wj)
  <2>1. PICK j : j = newJournalId
    OBVIOUS
  <2>2. j \in JournalId /\ ~Exists(j) /\ st.rj # j /\ st.wj # j
    BY <2>1, UnusedId
  <2>3. newMsgQueueState(j).rj = j
    BY DEF newMsgQueueState
  <2>4. RecreateOf(j, k)
    BY <1>5, <2>1, <2>2, <2>3 DEF RecreateOf, newReadJournal
  <2>. QED  BY <2>4 DEF RecreateForm
<1>6. ASSUME Exists(st.rj), Exists(st.wj)
      PROVE  Follows(st)
  <2>1. \A i \in (st.rpos + 1)..st.rpos : FALSE
    BY <1>1
  <2>. QED  BY <1>1, <1>2, <2>1 DEF Follows
<1>7. CASE st.rj = st.wj /\ Exists(st.rj)
  <2>1. k = <<FixFileSize(st.rj, st.rcount), Assign(Opened(st, st.rj, 0))>>
    BY <1>1, <1>7 DEF openJournals
  <2>. QED  BY <1>1, <1>2, <1>6, <1>7, <2>1, OpensFixed
<1>8. CASE st.rj # st.wj /\ Exists(st.rj) /\ Exists(st.wj)
  <2>1. k = <<FixFileSize(st.rj, st.rcount), FixFileSize(st.wj, st.wcount),
              Assign(Opened(st, st.rj, st.wj))>>
    BY <1>4, <1>8 DEF openJournals
  <2>. QED  BY <1>1, <1>2, <1>6, <1>8, <2>1, OpensFixed
<1>9. CASE st.rj # st.wj /\ Exists(st.rj) /\ ~Exists(st.wj)
  <2>1. PICK w : w = withoutWrite(st)
    OBVIOUS
  <2>2. k = <<FixFileSize(st.rj, st.rcount), Assign(Opened(w, st.rj, 0))>>
    BY <1>3, <1>9, <2>1 DEF openJournals
  <2>3. /\ w \in States /\ validQueueState(w)
        /\ w.rj = st.rj /\ w.wj = st.rj /\ w.rpos = st.rpos /\ w.rcount = st.rcount
        /\ w.wcount = st.rcount /\ w.canWrite = st.canWrite
    BY <1>1, <2>1, LeftFields
  <2>4. Stored(w)
    <3>1. Marked(w)
      BY <1>1, <1>9, <2>3 DEF Stored, Marked
    <3>. QED  BY <1>1, <2>3, <3>1 DEF Stored
  <2>5. From(w) = st.rpos /\ Logged(w)
    BY <2>3 DEF From, Logged
  <2>6. Follows(w)
    <3>1. \A i \in (st.rpos + 1)..st.rpos : FALSE
      BY <1>1
    <3>. QED  BY <1>1, <1>9, <2>3, <2>5, <3>1 DEF Follows
  <2>. QED  BY <1>9, <2>2, <2>3, <2>4, <2>5, <2>6, OpensFixed
<1>10. CASE st.rj # st.wj /\ ~Exists(st.rj) /\ Exists(st.wj)
  <2>1. PICK v : v = switchedToWrite(st)
    OBVIOUS
  <2>2. k = <<FixFileSize(st.wj, st.wcount), Assign(Opened(v, st.wj, 0))>>
    BY <1>10, <2>1 DEF openJournals
  <2>3. /\ v \in States /\ validQueueState(v)
        /\ v.rj = st.wj /\ v.wj = st.wj /\ v.rpos = 0 /\ v.rcount = st.wcount
        /\ v.wcount = st.wcount /\ v.canWrite = st.canWrite
    BY <1>1, <2>1, LeftFields
  <2>4. Stored(v)
    <3>1. Marked(v)
      BY <1>1, <2>3 DEF Stored, Marked
    <3>. QED  BY <1>1, <2>3, <3>1 DEF Stored
  <2>5. From(v) = 0 /\ Logged(v)
    BY <1>10, <2>3 DEF From, Logged
  <2>6. Follows(v)
    <3>1. \A i \in (0 + 1)..0 : FALSE
      OBVIOUS
    <3>. QED  BY <1>1, <1>10, <2>3, <2>5, <3>1 DEF Follows
  <2>. QED  BY <1>10, <2>2, <2>3, <2>4, <2>5, <2>6, OpensFixed
<1>11. \/ k = newReadJournal /\ ~Exists(st.rj) /\ ~Exists(st.wj)
       \/ Exists(st.rj) \/ Exists(st.wj)
  BY DEF openJournals
<1>. QED  BY <1>5, <1>7, <1>8, <1>9, <1>10, <1>11

(* An empty queue is opened without its journals. *)
RemovesAll(st, backup, j, new) ==
    /\ removeJournals(st, TRUE, backup) =
         openBackupQueueState(new, backup)
           \o <<AppendState(new), CreateJournal(j), RemoveJournal(st.rj),
                Assign(Opened(new, j, 0))>>
    /\ removeJournals(st, FALSE, backup) =
         <<RetireLog, RemoveJournal(st.rj), Assign(Opened(new, 0, 0))>>

(* removeJournals, of a state whose two journals are one. *)
LEMMA RemoveJournalsOf ==
    ASSUME NEW st, st.wj = st.rj, NEW backup \in BOOLEAN, NEW j, j = newJournalId,
           NEW new, new = newMsgQueueState(j)
    PROVE  RemovesAll(st, backup, j, new)
<1>1. PICK b : b = openBackupQueueState(new, backup)
  OBVIOUS
<1>2. PICK B : b \in Seq(B)
  <2>1. <<>> \in Seq({TempBackup}) /\ <<TempBackup, AppendState(new), TimedBackup>>
                                         \in Seq({TempBackup, AppendState(new), TimedBackup})
    OBVIOUS
  <2>. QED  BY <1>1, <2>1 DEF openBackupQueueState, Optional
<1>3. PICK a, c, r, o, e, p : /\ a = AppendState(new) /\ c = CreateJournal(j)
                              /\ r = RemoveJournal(st.rj) /\ o = Assign(Opened(new, j, 0))
                              /\ e = RetireLog /\ p = Assign(Opened(new, 0, 0))
  OBVIOUS
<1>4. removeJournals(st, TRUE, backup) = (((b \o <<a, c>>) \o <<r>>) \o <<>>) \o <<o>>
  BY <1>1, <1>3 DEF removeJournals, Optional
<1>5. removeJournals(st, FALSE, backup) = ((<<e>> \o <<r>>) \o <<>>) \o <<p>>
  BY <1>3 DEF removeJournals, Optional
<1>6. /\ <<a, c>> \in Seq({a, c}) /\ <<r>> \in Seq({r}) /\ <<o>> \in Seq({o})
      /\ <<a, c, r>> \in Seq({a, c, r}) /\ <<e, r>> \in Seq({e, r})
  OBVIOUS
<1>7. (b \o <<a, c>>) \o <<r>> = b \o <<a, c, r>>
  <2>1. (b \o <<a, c>>) \o <<r>> = b \o (<<a, c>> \o <<r>>)
    BY <1>2, <1>6, JoinAssociative
  <2>. QED  BY <2>1, JoinTwoOne
<1>8. (b \o <<a, c, r>>) \o <<>> = b \o <<a, c, r>>
  <2>1. PICK x : x = b \o <<a, c, r>>
    OBVIOUS
  <2>2. x \in Seq(B \cup {a, c, r})
    <3>1. b \in Seq(B \cup {a, c, r}) /\ <<a, c, r>> \in Seq(B \cup {a, c, r})
      BY <1>2
    <3>. QED  BY <2>1, <3>1
  <2>. QED  BY <2>1, <2>2, JoinEmpty
<1>9. (b \o <<a, c, r>>) \o <<o>> = b \o <<a, c, r, o>>
  <2>1. (b \o <<a, c, r>>) \o <<o>> = b \o (<<a, c, r>> \o <<o>>)
    BY <1>2, <1>6, JoinAssociative
  <2>. QED  BY <2>1, JoinThreeOne
<1>10. ((<<e>> \o <<r>>) \o <<>>) \o <<p>> = <<e, r, p>>
  <2>1. <<e>> \o <<r>> = <<e, r>>
    BY JoinOneOne
  <2>2. <<e, r>> \o <<>> = <<e, r>>
    BY <1>6, JoinEmpty
  <2>3. <<e, r>> \o <<p>> = <<e, r, p>>
    BY JoinTwoOne
  <2>. QED  BY <2>1, <2>2, <2>3
<1>. QED  BY <1>1, <1>3, <1>4, <1>5, <1>7, <1>8, <1>9, <1>10, ZenonT(30) DEF RemovesAll

(* openMsgQueue is asked to open for writing or not. *)
LEMMA OpensWhat ==
    ASSUME JobOK, job # <<>>, Head(job).step = "open"
    PROVE  Head(job).forWrite \in BOOLEAN
<1>. QED  BY JobShape, StepFields, ZenonT(30) DEF JobIs

(* Open of a queue that is closed: openMsgQueue. *)
LEMMA OpenPlan ==
    ASSUME IInv, Resting, Open, ~mem.open
    PROVE  IInv' /\ Allows
<1>1. DiskOK /\ Recoverable /\ JobOK
  BY DEF IInv, Typed
<1>2. job # <<>> /\ Head(job).step = "open" /\ unusedIds # {}
  BY DEF Open, NextStep
<1>3. PICK backup \in shouldBackup(StateFile) : Plan(openMsgQueue(Head(job).forWrite, backup), <<>>)
  BY DEF Open
<1>4. PICK w : w = Head(job).forWrite
  OBVIOUS
<1>5. /\ todo' = openMsgQueue(w, backup)
      /\ job' = <<>> \o Tail(job)
      /\ UNCHANGED <<disk, mem, qstate, lastId, deleted, faults, errors>>
  BY <1>3, <1>4 DEF Plan
<1>6. job' = Tail(job)
  BY <1>1, <1>2, <1>5, PlanJob
<1>7. JobOK' /\ OpenedJob'
  BY <1>1, <1>2, <1>6, OpenJob
<1>8. UNCHANGED <<dir, files, log, bak>>
  BY <1>5 DEF disk
<1>9. /\ LogOK(StateFile)
      /\ Rec # <<>> => Rec = <<Rec[1]>> /\ Rec[1] \in States /\ dir
  BY <1>1, RecOf
<1>10. /\ backup \in BOOLEAN
       /\ Recorded(StateFile) = <<>> => StateFile = NoLines \/ backup
  BY <1>9, BackupOf
<1>11. ~Unreadable(StateFile)
  BY <1>1, NothingUnreadable
<1>12. PICK j : j = newJournalId
  OBVIOUS
<1>13. /\ j \in JournalId /\ ~Exists(j)
       /\ Rec # <<>> => Rec[1].rj # j /\ Rec[1].wj # j
  BY <1>1, <1>2, <1>12, UnusedId
<1>14. PICK front : front = Optional(bak # NoLines, <<RestoreBackup>>)
  OBVIOUS
<1>15. PICK a : a = Assign(Opened(newMsgQueueState(j), 0, 0))
  OBVIOUS
<1>16. bak = NoLines => front = <<>> /\ <<>> \o <<a>> = <<a>>
  BY <1>14, JoinEmpty DEF Optional
<1>17. bak # NoLines => Rec # <<>> /\ dir
  BY <1>1 DEF DiskOK, Rec, StateFile
<1>18. Phase'
  <2>1. CASE ~dir
    <3>1. bak = NoLines /\ log = NoLines
      BY <1>1, <2>1 DEF DiskOK
    <3>2. todo' = front \o <<a>>
      BY <1>5, <1>12, <1>14, <1>15, <2>1 DEF openMsgQueue
    <3>. QED  BY <1>7, <1>8, <1>13, <1>15, <1>16, <3>1, <3>2, PlanAssigns DEF Exists
  <2>2. CASE dir /\ Rec = <<>>
    <3>1. bak = NoLines
      BY <1>17, <2>2
    <3>2. todo' = front \o (Optional(backup, <<RetireLog>>) \o <<a>>)
      BY <1>5, <1>11, <1>12, <1>14, <1>15, <2>2 DEF openMsgQueue, Rec
    <3>3. CASE ~backup
      <4>1. log = NoLines
        BY <1>10, <2>2, <3>1, <3>3 DEF Rec, StateFile
      <4>2. Optional(backup, <<RetireLog>>) \o <<a>> = <<a>>
        BY <1>16, <3>1, <3>3 DEF Optional
      <4>3. todo' = <<a>>
        BY <1>16, <3>1, <3>2, <4>2
      <4>. QED  BY <1>7, <1>8, <1>13, <1>15, <3>1, <4>1, <4>3, PlanAssigns DEF Exists
    <3>4. CASE backup
      <4>1. Optional(backup, <<RetireLog>>) \o <<a>> = <<RetireLog, a>>
        BY <3>4, JoinOneOne DEF Optional
      <4>2. <<>> \o <<RetireLog, a>> = <<RetireLog, a>>
        OBVIOUS
      <4>3. todo' = <<RetireLog, Assign(Opened(newMsgQueueState(j), 0, 0))>>
        BY <1>15, <1>16, <3>1, <3>2, <4>1, <4>2
      <4>4. Assign(Opened(newMsgQueueState(j), 0, 0))' = Assign(Opened(newMsgQueueState(j), 0, 0))
        BY OpenedFields
      <4>5. Rec' = <<>> /\ ~Exists(j)' /\ bak' = NoLines /\ dir'
        BY <1>8, <1>13, <2>2, <3>1 DEF Rec, StateFile, Exists
      <4>6. Retiring'
        BY <1>13, <4>3, <4>4, <4>5 DEF Retiring, RetireLog, JournalId
      <4>7. ~mem'.open
        BY <1>5
      <4>. QED  BY <1>7, <4>6, <4>7 DEF Phase, OpenPhase
    <3>. QED  BY <1>10, <3>3, <3>4
  <2>3. CASE dir /\ Rec # <<>>
    <3>1. PICK st : st = Rec[1]
      OBVIOUS
    <3>2. /\ Stored(st) /\ st \in States /\ validQueueState(st) /\ Rec = <<st>>
          /\ st.rpos \in Nat /\ st.rcount \in Nat /\ st.wcount \in Nat
      BY <1>1, <1>9, <2>3, <3>1, StoredHolds DEF Recoverable
    <3>3. CASE st.size = 0
      <4>1. st.wj = st.rj
        BY <3>2, <3>3, ValidState DEF Stored
      <4>2. PICK new : new = newMsgQueueState(j)
        OBVIOUS
      <4>3. todo' = front \o removeJournals(st, w, backup)
        BY <1>5, <1>11, <1>14, <2>3, <3>1, <3>3 DEF openMsgQueue, Rec
      <4>4. /\ removeJournals(st, TRUE, backup) =
                 openBackupQueueState(new, backup)
                   \o <<AppendState(new), CreateJournal(j), RemoveJournal(st.rj),
                        Assign(Opened(new, j, 0))>>
            /\ removeJournals(st, FALSE, backup) =
                 <<RetireLog, RemoveJournal(st.rj), Assign(Opened(new, 0, 0))>>
        <5>1. RemovesAll(st, backup, j, new)
          BY <1>10, <1>12, <4>1, <4>2, RemoveJournalsOf
        <5>. QED  BY <5>1 DEF RemovesAll
      <4>5. st.rj # j
        BY <1>13, <2>3, <3>1
      <4>6. CASE w
        <5>1. PICK k : k = <<AppendState(new), CreateJournal(j), RemoveJournal(st.rj),
                             Assign(Opened(new, j, 0))>>
          OBVIOUS
        <5>2. ReplaceOf(j, st.rj, k)
          BY <1>13, <2>3, <3>1, <3>3, <4>2, <4>5, <5>1 DEF ReplaceOf
        <5>3. BackedBy(k, new)
          BY <4>2, <5>2 DEF BackedBy
        <5>4. todo' = Optional(bak # NoLines, <<RestoreBackup>>) \o (openBackupQueueState(new, backup) \o k)
          BY <1>14, <4>3, <4>4, <4>6, <5>1
        <5>. QED  BY <1>1, <1>3, <1>5, <1>7, <2>3, <5>3, <5>4, PlanOpens
      <4>7. CASE ~w
        <5>1. PICK k : k = <<RetireLog, RemoveJournal(st.rj), Assign(Opened(new, 0, 0))>>
          OBVIOUS
        <5>2. RetireOf(j, st.rj, k)
          BY <1>13, <2>3, <3>1, <3>3, <4>2, <4>5, <5>1 DEF RetireOf
        <5>3. RetireForm(k)
          BY <5>2 DEF RetireForm
        <5>4. removeJournals(st, w, backup) = removeJournals(st, FALSE, backup)
          BY <4>7 DEF removeJournals
        <5>5. todo' = Optional(bak # NoLines, <<RestoreBackup>>) \o k
          BY <1>14, <4>3, <4>4, <5>1, <5>4
        <5>. QED  BY <1>1, <1>5, <1>7, <2>3, <5>3, <5>5, PlanRetires
      <4>8. w \in BOOLEAN
        BY <1>1, <1>2, <1>4, OpensWhat
      <4>. QED  BY <4>6, <4>7, <4>8
    <3>4. CASE st.size # 0
      <4>1. PICK k : k = openJournals(st)
        OBVIOUS
      <4>2. FixForm(k) \/ RecreateForm(k)
        BY <1>1, <1>2, <2>3, <3>1, <4>1, OpenJournalsOf
      <4>3. BackedBy(k, st)
        BY <3>2, <4>2 DEF BackedBy
      <4>4. todo' = Optional(bak # NoLines, <<RestoreBackup>>) \o (openBackupQueueState(st, backup) \o k)
        BY <1>5, <1>11, <2>3, <3>1, <3>4, <4>1 DEF openMsgQueue, Rec
      <4>. QED  BY <1>1, <1>3, <1>5, <1>7, <2>3, <4>3, <4>4, PlanOpens
    <3>. QED  BY <3>3, <3>4
  <2>4. dir \in BOOLEAN
    BY <1>1 DEF DiskOK
  <2>. QED  BY <2>1, <2>2, <2>3
<1>. QED  BY <1>5, <1>7, <1>18, PlanNext

(* Writing is the last step of its operation. *)
LEMMA WriteJob ==
    ASSUME JobOK, job # <<>>, Head(job).step = "write"
    PROVE  Tail(job) = <<>> /\ Head(job).id \in 1..MaxSends /\ job[1].step = "write" /\ ~Expiring
<1>1. PICK m \in 1..MaxSends : JobIs(WriteStep(m), <<>>)
  BY JobShape, StepFields, Zenon DEF JobIs
<1>2. Tail(job) = <<>> /\ Head(job) = WriteStep(m) /\ job[1] = WriteStep(m)
  BY <1>1 DEF JobIs
<1>3. ~Expiring
  <2>1. SUFFICES ASSUME Expiring
                 PROVE  FALSE
    OBVIOUS
  <2>2. \E n : Head(job) = ExpireStep(n) \/ Head(job) = ExpiredStep(n)
               \/ Head(job) = PeekStep \/ Head(job) = DeleteStep(FALSE)
    <3>1. \A a, t : JobIs(a, t) => Head(job) = a
      BY DEF JobIs
    <3>. QED  BY <2>1, <3>1, JobOf, Zenon DEF Expiring
  <2>. QED  BY <1>2, <2>2, StepFields
<1>. QED  BY <1>2, <1>3, StepFields

(* The state after a message is put is consistent. *)
LEMMA AfterIsValid ==
    ASSUME NEW st \in States, validQueueState(st), NEW h \in JournalId, NEW pos \in Nat,
           NEW msg \in Message,
           \/ h = st.wj /\ pos = st.wcount
           \/ h # st.rj /\ st.rj = st.wj /\ pos = 0
    PROVE  validQueueState(After(st, h, pos, msg))
<1>1. /\ st.rpos \in Nat /\ st.rcount \in Nat /\ st.wcount \in Nat
      /\ st.size \in Nat /\ st.rpos <= st.rcount
      /\ st.rj = st.wj => st.rcount = st.wcount /\ st.size = st.rcount - st.rpos
      /\ st.rj # st.wj => st.size = st.wcount + (st.rcount - st.rpos)
  BY StateFields, ValidState
<1>2. PICK s : s = After(st, h, pos, msg)
  OBVIOUS
<1>3. /\ s.rj = st.rj /\ s.rpos = st.rpos /\ s.wj = h /\ s.wcount = pos + 1
      /\ h = st.rj => s.rcount = pos + 1
      /\ h # st.rj => s.rcount = st.rcount
      /\ s.size = st.size + 1
  BY <1>2, AfterFields DEF IsAfter
<1>. QED  BY <1>1, <1>2, <1>3 DEF validQueueState

(* Putting a message, logging and assigning the state after it. *)
IsPutPlan(x, mq, h, pos, msg) ==
    (x \o <<FixFileSize(h, pos), PutMsg(h, msg)>>)
      \o updateQueueState(mq, TRUE, After(mq.state, h, pos, msg),
                          IF mq.state.size = 0 THEN <<msg>> ELSE mq.tip)
      = x \o (<<FixFileSize(h, pos)>> \o PutForm(mq, h, pos, msg))

(* The effects of writeToJournal after the journal is chosen. *)
LEMMA PutPlan ==
    ASSUME NEW mq \in Queues, validQueueState(mq.state), NEW h \in JournalId, NEW pos \in Nat,
           NEW msg \in Message,
           \/ h = mq.state.wj /\ pos = mq.state.wcount
           \/ h # mq.state.rj /\ mq.state.rj = mq.state.wj /\ pos = 0,
           NEW x, \E S : x \in Seq(S)
    PROVE  IsPutPlan(x, mq, h, pos, msg)
<1> DEFINE new == After(mq.state, h, pos, msg)
           t == IF mq.state.size = 0 THEN <<msg>> ELSE mq.tip
<1>0. PICK S : x \in Seq(S)
  OBVIOUS
<1>1. validQueueState(new)
  BY AfterIsValid, QueueFields
<1> HIDE DEF new
<1>2. PICK f, p, a, o : /\ f = FixFileSize(h, pos) /\ p = PutMsg(h, msg)
                        /\ a = AppendState(new) /\ o = Assign(Written(mq, h, pos, msg))
  OBVIOUS
<1>3. Written(mq, h, pos, msg) = [mq EXCEPT !.state = new, !.tip = t]
  BY DEF Written, Queues, new
<1> HIDE DEF t
<1>4. updateQueueState(mq, TRUE, new, t) = <<a, o>>
  <2>1. updateQueueState(mq, TRUE, new, t) = <<a>> \o <<o>>
    BY <1>1, <1>2, <1>3 DEF updateQueueState, Optional
  <2>. QED  BY <2>1, JoinOneOne
<1>5. PutForm(mq, h, pos, msg) = <<p, a, o>>
  BY <1>2 DEF PutForm, new
<1>6. <<f, p>> \in Seq({f, p}) /\ <<a, o>> \in Seq({a, o})
  OBVIOUS
<1>7. (x \o <<f, p>>) \o <<a, o>> = x \o (<<f, p>> \o <<a, o>>)
  BY <1>0, <1>6, JoinAssociative
<1>8. <<f, p>> \o <<a, o>> = <<f>> \o <<p, a, o>>
  BY JoinTwoTwo, JoinOneThree
<1>. QED  BY <1>2, <1>4, <1>5, <1>7, <1>8 DEF IsPutPlan, new, t

(* writeToJournal, to the journal the queue is written to. *)
OnPlan(mq, c, msg) ==
    writeToJournal(mq, c, msg) =
         ((<<>> \o <<>>)
           \o <<FixFileSize(IF mq.writeHandle = 0 THEN mq.readHandle ELSE mq.writeHandle,
                            mq.state.wcount),
                PutMsg(IF mq.writeHandle = 0 THEN mq.readHandle ELSE mq.writeHandle, msg)>>)
           \o updateQueueState(mq, TRUE,
                [mq.state EXCEPT !.wj = mq.state.wj, !.wcount = mq.state.wcount + 1,
                                 !.rcount = IF mq.state.wj = mq.state.rj
                                              THEN mq.state.wcount + 1 ELSE @,
                                 !.canWrite = c, !.size = @ + 1],
                IF mq.state.size = 0 THEN <<[msg EXCEPT !.quota = FALSE]>> ELSE mq.tip)

(* The same, as a fact. *)
LEMMA WriteOn ==
    ASSUME NEW mq, NEW c, NEW msg, mq.readHandle # 0,
           ~(mq.writeHandle = 0 /\ mq.state.wcount >= MaxMsgCount)
    PROVE  OnPlan(mq, c, msg)
    BY ZenonT(30) DEF writeToJournal, Optional, OnPlan

(* writeToJournal, to a new journal. *)
NextPlan(mq, w, j, c, msg) ==
    writeToJournal(mq, c, msg) =
         ((<<>> \o <<CreateJournal(j), Assign(w)>>)
           \o <<FixFileSize(w.writeHandle, 0), PutMsg(w.writeHandle, msg)>>)
           \o updateQueueState(w, TRUE,
                [mq.state EXCEPT !.wj = j, !.wcount = 0 + 1,
                                 !.rcount = IF j = mq.state.rj THEN 0 + 1 ELSE @,
                                 !.canWrite = c, !.size = @ + 1],
                IF mq.state.size = 0 THEN <<[msg EXCEPT !.quota = FALSE]>> ELSE mq.tip)

(* The same, as a fact. *)
LEMMA WriteNext ==
    ASSUME NEW mq, NEW c, NEW msg, mq.readHandle # 0,
           mq.writeHandle = 0, mq.state.wcount >= MaxMsgCount,
           NEW j, j = newJournalId, NEW w, w = [mq EXCEPT !.writeHandle = j],
           w.writeHandle # 0
    PROVE  NextPlan(mq, w, j, c, msg)
    BY ZenonT(30) DEF writeToJournal, Optional, NextPlan

(* writeToJournal, to the first journal. *)
FirstPlan(mq, w, c, msg) ==
    writeToJournal(mq, c, msg) =
         ((<<Mkdir, CreateJournal(mq.state.rj), Assign(w)>> \o <<>>)
           \o <<FixFileSize(w.readHandle, mq.state.wcount), PutMsg(w.readHandle, msg)>>)
           \o updateQueueState(w, TRUE,
                [mq.state EXCEPT !.wj = mq.state.wj, !.wcount = mq.state.wcount + 1,
                                 !.rcount = IF mq.state.wj = mq.state.rj
                                              THEN mq.state.wcount + 1 ELSE @,
                                 !.canWrite = c, !.size = @ + 1],
                IF mq.state.size = 0 THEN <<[msg EXCEPT !.quota = FALSE]>> ELSE mq.tip)

(* The same, as a fact. *)
LEMMA WriteFirst ==
    ASSUME NEW mq, NEW c, NEW msg, mq.readHandle = 0,
           NEW w, w = [mq EXCEPT !.readHandle = mq.state.rj], w.writeHandle = 0,
           ~(mq.state.wcount >= MaxMsgCount)
    PROVE  FirstPlan(mq, w, c, msg)
    BY ZenonT(30) DEF writeToJournal, Optional, FirstPlan

(* A message that is no quota marker. *)
LEMMA NoMarker ==
    ASSUME NEW m \in Message, m.quota = FALSE
    PROVE  [m EXCEPT !.quota = FALSE] = m
    BY DEF Message

(* What writeMsg writes may be written. *)
LEMMA WritesWritable ==
    ASSUME mem \in Queues, NEW m \in 1..MaxSends,
           NEW c \in BOOLEAN, c <=> Quota > mem.state.size,
           NEW msg, msg = [id |-> m, quota |-> ~c],
           mem.state.canWrite \/ mem.state.size = 0
    PROVE  /\ msg \in Message /\ msg.quota = ~c /\ Writable(msg)
           /\ mem.state.size = 0 => [msg EXCEPT !.quota = FALSE] = msg
<1>1. /\ mem.state.size \in Nat /\ Quota \in Nat /\ Quota > 0
  <2>1. Quota \in Nat \ {0}
    BY JournalAssumption
  <2>2. mem.state \in States
    BY QueueFields
  <2>3. mem.state.size \in Nat
    BY <2>2, StateFields
  <2>4. Quota \in Nat /\ Quota > 0
    BY <2>1
  <2>. QED  BY <2>3, <2>4
<1>2. (c <=> ~(mem.state.size >= Quota)) /\ (mem.state.size = 0 => c)
  BY <1>1
<1>3. PICK b : b = ~c
  OBVIOUS
<1>4. b \in BOOLEAN /\ msg = [id |-> m, quota |-> b]
  BY <1>2, <1>3
<1>5. msg \in Message /\ msg.quota = b /\ msg.id = m
  BY <1>4 DEF Message
<1>6. Writable(msg)
  BY <1>2, <1>3, <1>5 DEF Writable
<1>7. mem.state.size = 0 => [msg EXCEPT !.quota = FALSE] = msg
  <2>1. mem.state.size = 0 => msg.quota = FALSE
    BY <1>2, <1>3, <1>5
  <2>. QED  BY <1>5, <2>1, NoMarker
<1>. QED  BY <1>2, <1>3, <1>5, <1>6, <1>7

(* An opened queue with files is sound. *)
LEMMA SoundNext ==
    ASSUME MemOK(mem)', mem'.readHandle # 0
    PROVE  Sound(mem)'
    BY DEF MemOK, Unwritten, Opened

(* What writeToJournal does for the first message. *)
DoesFirst(j, mq, c, msg) ==
    LET w == [mq EXCEPT !.readHandle = j]
    IN  writeToJournal(mq, c, msg) =
          (<<Mkdir, CreateJournal(j), Assign(w)>> \o <<FixFileSize(j, 0), PutMsg(j, msg)>>)
            \o updateQueueState(w, TRUE, After(mq.state, j, 0, msg), <<msg>>)

(* It makes the directory and the journal. *)
LEMMA WrittenFirst ==
    ASSUME NEW j, NEW mq, mq = Opened(newMsgQueueState(j), 0, 0),
           NEW c \in BOOLEAN, NEW msg, msg.quota = ~c, [msg EXCEPT !.quota = FALSE] = msg
    PROVE  DoesFirst(j, mq, c, msg)
<1>1. PICK new : new = newMsgQueueState(j)
  OBVIOUS
<1>2. PICK w : w = [mq EXCEPT !.readHandle = j]
  OBVIOUS
<1>3. mq = [open |-> TRUE, state |-> new, readHandle |-> 0, writeHandle |-> 0, tip |-> <<>>]
  BY <1>1 DEF Opened
<1>4. mq.state = new /\ mq.readHandle = 0 /\ w.readHandle = j /\ w.writeHandle = 0
  BY <1>2, <1>3
<1>5. /\ new.rj = j /\ new.wj = j /\ new.wcount = 0 /\ new.size = 0
      /\ mq.state.rj = j /\ mq.state.wj = j /\ mq.state.wcount = 0
  BY <1>1, <1>4 DEF newMsgQueueState
<1>6. FirstPlan(mq, w, c, msg)
  <2>1. ~(mq.state.wcount >= MaxMsgCount)
    BY <1>5, JournalAssumption
  <2>2. w = [mq EXCEPT !.readHandle = mq.state.rj]
    BY <1>2, <1>5
  <2>. QED  BY ONLY <1>4, <2>1, <2>2, WriteFirst, Zenon
<1>7. [mq.state EXCEPT !.wj = mq.state.wj, !.wcount = mq.state.wcount + 1,
                       !.rcount = IF mq.state.wj = mq.state.rj THEN mq.state.wcount + 1 ELSE @,
                       !.canWrite = c, !.size = @ + 1] = After(mq.state, j, 0, msg)
  <2>1. [new EXCEPT !.wj = j, !.wcount = 0 + 1,
                    !.rcount = IF j = new.rj THEN 0 + 1 ELSE @,
                    !.canWrite = c, !.size = @ + 1] = After(new, j, 0, msg)
    <3>1. c = ~msg.quota
      OBVIOUS
    <3>. QED  BY <3>1 DEF After
  <2>. QED  BY <1>4, <1>5, <2>1
<1>8. (IF mq.state.size = 0 THEN <<[msg EXCEPT !.quota = FALSE]>> ELSE mq.tip) = <<msg>>
  BY <1>4, <1>5
<1>9. PICK x : x = <<Mkdir, CreateJournal(j), Assign(w)>>
  OBVIOUS
<1>10. x \o <<>> = x
  <2>1. x \in Seq({Mkdir, CreateJournal(j), Assign(w)})
    BY <1>9
  <2>. QED  BY <2>1, JoinEmpty
<1>11. writeToJournal(mq, c, msg) =
          (x \o <<FixFileSize(j, 0), PutMsg(j, msg)>>)
            \o updateQueueState(w, TRUE, After(mq.state, j, 0, msg), <<msg>>)
  <2>1. PICK y : y = <<FixFileSize(j, 0), PutMsg(j, msg)>>
    OBVIOUS
  <2>2. y = <<FixFileSize(w.readHandle, mq.state.wcount), PutMsg(w.readHandle, msg)>>
    BY <1>4, <1>5, <2>1
  <2>3. x = <<Mkdir, CreateJournal(mq.state.rj), Assign(w)>>
    BY <1>5, <1>9
  <2>4. writeToJournal(mq, c, msg) =
          ((x \o <<>>) \o y) \o updateQueueState(w, TRUE, After(mq.state, j, 0, msg), <<msg>>)
    BY ONLY <1>6, <1>7, <1>8, <2>2, <2>3 DEF FirstPlan
  <2>. QED  BY <1>10, <2>1, <2>4
<1>. QED  BY <1>2, <1>9, <1>11 DEF DoesFirst

(* Its first message. *)
LEMMA WritesFirst ==
    ASSUME IInv, mem.open, Unwritten(mem), UNCHANGED <<disk, mem, qstate, faults>>,
           NEW c \in BOOLEAN, NEW msg \in Message, msg.quota = ~c, Writable(msg),
           mem.state.size = 0 => [msg EXCEPT !.quota = FALSE] = msg,
           todo' = writeToJournal(mem, c, msg)
    PROVE  Starting'
<1>1. PICK mq : mq = mem
  OBVIOUS
<1>2. PICK j : j = mq.state.rj
  OBVIOUS
<1>3. PICK w : w = [mq EXCEPT !.readHandle = j]
  OBVIOUS
<1>4. PICK new : new = newMsgQueueState(j)
  OBVIOUS
<1>5. /\ j \in JournalId /\ mq = Opened(new, 0, 0) /\ FilesOK
  BY <1>1, <1>2, <1>4 DEF Unwritten, IInv, Typed, DiskOK
<1>6. /\ new \in States /\ new.rj = j /\ new.wj = j /\ new.rcount = 0 /\ new.wcount = 0
      /\ new.size = 0 /\ Stored(new)
  BY <1>4, <1>5, NewState
<1>7. /\ mq = [open |-> TRUE, state |-> new, readHandle |-> 0, writeHandle |-> 0, tip |-> <<>>]
      /\ mq.state = new /\ mq.readHandle = 0 /\ mq.writeHandle = 0 /\ mq.tip = <<>>
      /\ w = [open |-> TRUE, state |-> new, readHandle |-> j, writeHandle |-> 0, tip |-> <<>>]
  <2>1. mq = [open |-> TRUE, state |-> new, readHandle |-> 0, writeHandle |-> 0, tip |-> <<>>]
    BY <1>5 DEF Opened
  <2>. QED  BY <1>3, <2>1
<1>8. w \in Queues /\ w.open = TRUE /\ w.state = new /\ w.readHandle = j /\ w.writeHandle = 0
      /\ w.tip = <<>>
  <2>1. j \in Nat /\ 0 \in Nat
    BY <1>5 DEF JournalId
  <2>2. w \in Queues
    BY <1>6, <1>7, <2>1, QueueOf
  <2>. QED  BY <1>7, <2>2
<1> DEFINE put == <<FixFileSize(j, 0)>> \o PutForm(w, j, 0, msg)
<1>10. PICK x : x = <<Mkdir, CreateJournal(j), Assign(w)>>
  OBVIOUS
<1>11. PICK S : x \in Seq(S)
  <2>1. x \in Seq({Mkdir, CreateJournal(j), Assign(w)})
    BY <1>10
  <2>. QED  BY <2>1
<1>12. PICK a : a = After(new, j, 0, msg)
  OBVIOUS
<1>13. PICK u : u = updateQueueState(w, TRUE, a, <<msg>>)
  OBVIOUS
<1>14. todo' = (x \o <<FixFileSize(j, 0), PutMsg(j, msg)>>) \o u
  <2>1. [msg EXCEPT !.quota = FALSE] = msg
    BY <1>1, <1>6, <1>7
  <2>2. DoesFirst(j, mq, c, msg)
    BY <1>4, <1>5, <2>1, WrittenFirst
  <2>. QED  BY <1>1, <1>3, <1>7, <1>10, <1>12, <1>13, <2>2 DEF DoesFirst
<1>15. (x \o <<FixFileSize(j, 0), PutMsg(j, msg)>>) \o u = x \o put
  <2>1. validQueueState(new)
    BY <1>6 DEF Stored
  <2>2. <<msg>> = IF w.state.size = 0 THEN <<msg>> ELSE w.tip
    BY <1>6, <1>8
  <2>3. /\ w \in Queues /\ validQueueState(w.state) /\ a = After(w.state, j, 0, msg)
        /\ j = w.state.wj /\ 0 = w.state.wcount /\ 0 \in Nat
    BY <1>6, <1>8, <1>12, <2>1
  <2>4. IsPutPlan(x, w, j, 0, msg)
    BY <1>5, <1>11, <2>3, PutPlan
  <2>. QED  BY <1>13, <2>2, <2>3, <2>4 DEF IsPutPlan
<1>16. put' = put
  BY <1>8, PutSame
<1>17. x' = x
  <2>1. Assign(w)' = Assign(w)
    BY <1>8 DEF Assign, qState
  <2>. QED  OBVIOUS
<1>18. /\ (<<Mkdir, CreateJournal(j), Assign(w)>> \o put)' = <<Mkdir, CreateJournal(j), Assign(w)>> \o put
  <2>1. Assign(w)' = Assign(w)
    BY <1>8 DEF Assign, qState
  <2>2. /\ Mkdir' = Mkdir /\ CreateJournal(j)' = CreateJournal(j)
    BY DEF Mkdir, CreateJournal
  <2> HIDE DEF put
  <2>. QED  BY <1>16, <2>1, <2>2
<1>19. Unwritten(mem)' /\ Writable(msg)'
  <2>1. Unwritten(mem)'
    BY DEF Unwritten, disk, Exists, JournalId
  <2>2. Writable(msg)'
    BY WritableNext
  <2>. QED  BY <2>1, <2>2
<1>20. StartingWith(msg)'
  <2>1. todo' = (<<Mkdir, CreateJournal(j), Assign(w)>> \o put)'
    BY <1>10, <1>14, <1>15, <1>18
  <2>2. mem' = mq
    BY <1>1
  <2> HIDE DEF put
  <2>. QED  BY <1>2, <1>3, <1>19, <2>1, <2>2 DEF StartingWith, put
<1>. QED  BY <1>20 DEF Starting

(* What writeToJournal does for a message in another journal. *)
TipAfter(mq, msg) == IF mq.state.size = 0 THEN <<msg>> ELSE mq.tip

DoesNext(j, mq, c, msg) ==
    LET w == [mq EXCEPT !.writeHandle = j]
    IN  writeToJournal(mq, c, msg) =
          (<<CreateJournal(j), Assign(w)>> \o <<FixFileSize(j, 0), PutMsg(j, msg)>>)
            \o updateQueueState(w, TRUE, After(mq.state, j, 0, msg), TipAfter(mq, msg))

(* It makes the journal. *)
LEMMA WrittenNext ==
    ASSUME NEW mq \in Queues, mq.readHandle # 0, mq.writeHandle = 0,
           mq.state.wcount >= MaxMsgCount,
           NEW j, j = newJournalId, j # 0, NEW c \in BOOLEAN, NEW msg, msg.quota = ~c,
           mq.state.size = 0 => [msg EXCEPT !.quota = FALSE] = msg
    PROVE  DoesNext(j, mq, c, msg)
<1>1. PICK w : w = [mq EXCEPT !.writeHandle = j]
  OBVIOUS
<1>2. w.writeHandle = j
  BY <1>1 DEF Queues
<1>3. NextPlan(mq, w, j, c, msg)
  BY <1>1, <1>2, WriteNext
<1>4. [mq.state EXCEPT !.wj = j, !.wcount = 0 + 1,
                       !.rcount = IF j = mq.state.rj THEN 0 + 1 ELSE @,
                       !.canWrite = c, !.size = @ + 1] = After(mq.state, j, 0, msg)
  <2>1. c = ~msg.quota
    OBVIOUS
  <2>. QED  BY <2>1 DEF After
<1>5. (IF mq.state.size = 0 THEN <<[msg EXCEPT !.quota = FALSE]>> ELSE mq.tip) = TipAfter(mq, msg)
  BY DEF TipAfter
<1>6. PICK x : x = <<CreateJournal(j), Assign(w)>>
  OBVIOUS
<1>7. <<>> \o x = x
  <2>1. x \in Seq({CreateJournal(j), Assign(w)})
    BY <1>6
  <2>. QED  BY <2>1, JoinEmpty
<1>8. writeToJournal(mq, c, msg) =
        (x \o <<FixFileSize(j, 0), PutMsg(j, msg)>>)
          \o updateQueueState(w, TRUE, After(mq.state, j, 0, msg), TipAfter(mq, msg))
  BY <1>2, <1>3, <1>4, <1>5, <1>6, <1>7 DEF NextPlan
<1>. QED  BY <1>1, <1>6, <1>8 DEF DoesNext

(* A message written to another journal. *)
LEMMA WritesNext ==
    ASSUME IInv, mem.open, MemOK(mem), Sound(mem), unusedIds # {}, MemOK(mem)',
           UNCHANGED <<disk, mem, qstate, faults>>,
           mem.writeHandle = 0, mem.state.wcount >= MaxMsgCount,
           NEW c \in BOOLEAN, NEW msg \in Message, msg.quota = ~c, Writable(msg),
           mem.state.size = 0 => [msg EXCEPT !.quota = FALSE] = msg,
           todo' = writeToJournal(mem, c, msg)
    PROVE  Extending'
<1>1. PICK mq : mq = mem
  OBVIOUS
<1>2. PICK j : j = newJournalId
  OBVIOUS
<1>3. PICK w : w = [mq EXCEPT !.writeHandle = j]
  OBVIOUS
<1>4. PICK st : st = mq.state
  OBVIOUS
<1>5. DiskOK
  BY DEF IInv, Typed
<1>6. /\ j \in JournalId /\ ~Exists(j)
      /\ Rec # <<>> => Rec[1].rj # j /\ Rec[1].wj # j
      /\ st.rj # j /\ st.wj # j
  BY <1>1, <1>2, <1>4, <1>5, UnusedId
<1>7. /\ mq \in Queues /\ Stored(st) /\ st \in States /\ validQueueState(st)
      /\ mq.readHandle = st.rj /\ mq.writeHandle = 0
      /\ st.rj # st.wj => mq.writeHandle = st.wj
      /\ st.rj \in JournalId /\ st.wj \in JournalId
  <2>1. Sound(mq) /\ mq.writeHandle = 0
    BY <1>1
  <2>2. mq \in Queues /\ Stored(st) /\ Handles(mq)
    BY <1>4, <2>1 DEF Sound
  <2>3. mq.readHandle = st.rj /\ (st.rj # st.wj => mq.writeHandle = st.wj)
    BY <1>4, <2>2 DEF Handles
  <2>. QED  BY <2>1, <2>2, <2>3, StoredHolds
<1>8. st.rj = st.wj /\ mq.readHandle # 0 /\ j # 0
  BY <1>6, <1>7 DEF JournalId
<1>9. /\ w \in Queues /\ w.open = TRUE /\ w.state = st /\ w.writeHandle = j
      /\ w.tip = mq.tip
  <2>1. j \in Nat
    BY <1>6 DEF JournalId
  <2>2. w \in Queues
    BY <1>3, <1>7, <2>1 DEF Queues
  <2>3. w.state = mq.state /\ w.writeHandle = j /\ w.tip = mq.tip
    BY <1>3, <1>7 DEF Queues
  <2>. QED  BY <1>4, <2>2, <2>3, QueueFields
<1> DEFINE put == <<FixFileSize(j, 0)>> \o PutForm(w, j, 0, msg)
<1>10. PICK x : x = <<CreateJournal(j), Assign(w)>>
  OBVIOUS
<1>11. PICK S : x \in Seq(S)
  <2>1. x \in Seq({CreateJournal(j), Assign(w)})
    BY <1>10
  <2>. QED  BY <2>1
<1>12. PICK a : a = After(st, j, 0, msg)
  OBVIOUS
<1>13. PICK t : t = IF st.size = 0 THEN <<msg>> ELSE mq.tip
  OBVIOUS
<1>14. PICK u : u = updateQueueState(w, TRUE, a, t)
  OBVIOUS
<1>15. todo' = (x \o <<FixFileSize(j, 0), PutMsg(j, msg)>>) \o u
  <2>1. /\ mq.writeHandle = 0 /\ mq.state.wcount >= MaxMsgCount
        /\ mq.state.size = 0 => [msg EXCEPT !.quota = FALSE] = msg
    BY <1>1
  <2>2. DoesNext(j, mq, c, msg)
    BY <1>2, <1>7, <1>8, <2>1, WrittenNext
  <2>3. TipAfter(mq, msg) = t
    BY <1>4, <1>13 DEF TipAfter
  <2>. QED  BY <1>1, <1>3, <1>4, <1>10, <1>12, <1>14, <2>2, <2>3 DEF DoesNext
<1>16. (x \o <<FixFileSize(j, 0), PutMsg(j, msg)>>) \o u = x \o put
  <2>1. /\ validQueueState(w.state) /\ a = After(w.state, j, 0, msg)
        /\ j # w.state.rj /\ w.state.rj = w.state.wj /\ 0 \in Nat
    BY <1>6, <1>7, <1>8, <1>9, <1>12
  <2>2. IsPutPlan(x, w, j, 0, msg)
    BY <1>6, <1>9, <1>11, <2>1, PutPlan
  <2>3. t = IF w.state.size = 0 THEN <<msg>> ELSE w.tip
    BY <1>9, <1>13
  <2>. QED  BY <1>14, <2>1, <2>2, <2>3 DEF IsPutPlan
<1>17. (<<CreateJournal(j), Assign(w)>> \o put)' = <<CreateJournal(j), Assign(w)>> \o put
  <2>1. put' = put
    BY <1>9, PutSame
  <2>2. Assign(w)' = Assign(w)
    BY <1>9 DEF Assign, qState
  <2>3. CreateJournal(j)' = CreateJournal(j)
    BY DEF CreateJournal
  <2> HIDE DEF put
  <2>. QED  BY <2>1, <2>2, <2>3
<1>18. Sound(mem)' /\ Writable(msg)'
  <2>1. Sound(mem)'
    <3>1. mem'.readHandle # 0
      BY <1>1, <1>8
    <3>. QED  BY <3>1, SoundNext
  <2>2. Writable(msg)'
    BY WritableNext
  <2>. QED  BY <2>1, <2>2
<1>19. ~Exists(j)' /\ (Rec' # <<>> => Rec'[1].rj # j /\ Rec'[1].wj # j)
  BY <1>6 DEF Exists, Rec, StateFile, disk
<1>20. ExtendingWith(j, msg)'
  <2>1. todo' = (<<CreateJournal(j), Assign(w)>> \o put)'
    BY <1>10, <1>15, <1>16, <1>17
  <2>2. mem' = mq /\ mem'.writeHandle = 0 /\ mem'.state.wcount >= MaxMsgCount
    BY <1>1
  <2>3. j \in JournalId'
    BY <1>6 DEF JournalId
  <2> HIDE DEF put
  <2>. QED  BY <1>3, <1>18, <1>19, <2>1, <2>2, <2>3 DEF ExtendingWith, put
<1>. QED  BY <1>20 DEF Extending

(* What writeToJournal does for a message in the journal it writes to. *)
WrittenTo(mq) == IF mq.writeHandle = 0 THEN mq.readHandle ELSE mq.writeHandle

DoesOn(mq, c, msg) ==
    LET st == mq.state
    IN  writeToJournal(mq, c, msg) =
          <<FixFileSize(WrittenTo(mq), st.wcount), PutMsg(WrittenTo(mq), msg)>>
            \o updateQueueState(mq, TRUE, After(st, st.wj, st.wcount, msg), TipAfter(mq, msg))

(* It makes no journal. *)
LEMMA WrittenOn ==
    ASSUME NEW mq, mq.readHandle # 0, ~(mq.writeHandle = 0 /\ mq.state.wcount >= MaxMsgCount),
           NEW c \in BOOLEAN, NEW msg, msg.quota = ~c,
           mq.state.size = 0 => [msg EXCEPT !.quota = FALSE] = msg
    PROVE  DoesOn(mq, c, msg)
<1>1. OnPlan(mq, c, msg)
  BY ONLY mq.readHandle # 0, ~(mq.writeHandle = 0 /\ mq.state.wcount >= MaxMsgCount),
          WriteOn, Zenon
<1>2. [mq.state EXCEPT !.wj = mq.state.wj, !.wcount = mq.state.wcount + 1,
                       !.rcount = IF mq.state.wj = mq.state.rj
                                    THEN mq.state.wcount + 1 ELSE @,
                       !.canWrite = c, !.size = @ + 1]
        = After(mq.state, mq.state.wj, mq.state.wcount, msg)
  <2>1. c = ~msg.quota
    OBVIOUS
  <2>. QED  BY <2>1 DEF After
<1>3. (IF mq.state.size = 0 THEN <<[msg EXCEPT !.quota = FALSE]>> ELSE mq.tip) = TipAfter(mq, msg)
  BY DEF TipAfter
<1>4. PICK h : h = WrittenTo(mq)
  OBVIOUS
<1>5. PICK y : y = <<FixFileSize(h, mq.state.wcount), PutMsg(h, msg)>>
  OBVIOUS
<1>6. (<<>> \o <<>>) \o y = y
  <2>1. <<>> \o <<>> = <<>> /\ <<>> \o y = y
    BY <1>5
  <2>. QED  BY <2>1
<1>7. writeToJournal(mq, c, msg) =
        y \o updateQueueState(mq, TRUE, After(mq.state, mq.state.wj, mq.state.wcount, msg),
                              TipAfter(mq, msg))
  BY <1>1, <1>2, <1>3, <1>4, <1>5, <1>6 DEF OnPlan, WrittenTo
<1>. QED  BY <1>4, <1>5, <1>7 DEF DoesOn

(* A message written to the journal that is open for writing. *)
LEMMA WritesOn ==
    ASSUME IInv, mem.open, MemOK(mem), Sound(mem), MemOK(mem)', Settled(mem)',
           UNCHANGED <<disk, mem, qstate, faults>>,
           ~(mem.writeHandle = 0 /\ mem.state.wcount >= MaxMsgCount),
           NEW c \in BOOLEAN, NEW msg \in Message, msg.quota = ~c, Writable(msg),
           mem.state.size = 0 => [msg EXCEPT !.quota = FALSE] = msg,
           todo' = writeToJournal(mem, c, msg)
    PROVE  Putting' \/ Refusing'
<1>1. PICK mq : mq = mem
  OBVIOUS
<1>2. PICK st : st = mq.state
  OBVIOUS
<1>3. PICK h : h = IF mq.writeHandle = 0 THEN mq.readHandle ELSE mq.writeHandle
  OBVIOUS
<1>4. PICK pos : pos = st.wcount
  OBVIOUS
<1>5. /\ mq \in Queues /\ Stored(st) /\ st \in States /\ validQueueState(st)
      /\ mq.readHandle = st.rj
      /\ st.rj # st.wj => mq.writeHandle = st.wj
      /\ st.rj \in JournalId /\ st.wj \in JournalId
      /\ pos \in Nat
  <2>1. Sound(mq)
    BY <1>1
  <2>2. mq \in Queues /\ Stored(st) /\ Handles(mq)
    BY <1>2, <2>1 DEF Sound
  <2>3. mq.readHandle = st.rj /\ (st.rj # st.wj => mq.writeHandle = st.wj)
    BY <1>2, <2>2 DEF Handles
  <2>. QED  BY <1>4, <2>1, <2>2, <2>3, StoredHolds
<1>6. mq.readHandle # 0 /\ st.rj # 0 /\ st.wj # 0
  BY <1>5 DEF JournalId
<1>7. PICK a : a = After(st, st.wj, pos, msg)
  OBVIOUS
<1>8. PICK t : t = IF st.size = 0 THEN <<msg>> ELSE mq.tip
  OBVIOUS
<1>9. PICK u : u = updateQueueState(mq, TRUE, a, t)
  OBVIOUS
<1>10. todo' = <<FixFileSize(h, pos), PutMsg(h, msg)>> \o u
  <2>1. /\ ~(mq.writeHandle = 0 /\ mq.state.wcount >= MaxMsgCount)
        /\ mq.state.size = 0 => [msg EXCEPT !.quota = FALSE] = msg
    BY <1>1
  <2>2. DoesOn(mq, c, msg)
    BY <1>6, <2>1, WrittenOn
  <2>3. TipAfter(mq, msg) = t /\ WrittenTo(mq) = h
    BY <1>2, <1>3, <1>8 DEF TipAfter, WrittenTo
  <2>. QED  BY <1>1, <1>2, <1>4, <1>7, <1>9, <2>2, <2>3 DEF DoesOn
<1>11. Sound(mem)' /\ Writable(msg)'
  <2>1. Sound(mem)'
    <3>1. mem'.readHandle # 0
      BY <1>1, <1>6
    <3>. QED  BY <3>1, SoundNext
  <2>2. Writable(msg)'
    BY WritableNext
  <2>. QED  BY <2>1, <2>2
<1>12. CASE ~Stranded(mq)
  <2>1. h = st.wj
    BY <1>2, <1>3, <1>5, <1>6, <1>12 DEF Stranded
  <2>2. PICK x : x = <<>>
    OBVIOUS
  <2>3. \E S : x \in Seq(S)
    <3>1. x \in Seq({})
      BY <2>2
    <3>. QED  BY <3>1
  <2>4. IsPutPlan(x, mq, h, pos, msg)
    <3>1. h = mq.state.wj /\ pos = mq.state.wcount /\ h \in JournalId /\ validQueueState(mq.state)
      BY <1>2, <1>4, <1>5, <2>1
    <3>. QED  BY <1>5, <2>3, <3>1, PutPlan
  <2>5. (x \o <<FixFileSize(h, pos), PutMsg(h, msg)>>) \o u
           = x \o (<<FixFileSize(h, pos)>> \o PutForm(mq, h, pos, msg))
    BY <1>2, <1>7, <1>8, <1>9, <2>1, <2>4 DEF IsPutPlan
  <2>6. x \o <<FixFileSize(h, pos), PutMsg(h, msg)>> = <<FixFileSize(h, pos), PutMsg(h, msg)>>
    BY <2>2
  <2>7. x \o (<<FixFileSize(h, pos)>> \o PutForm(mq, h, pos, msg))
           = <<FixFileSize(h, pos)>> \o PutForm(mq, h, pos, msg)
    BY <2>2, PutSeq, JoinEmpty
  <2>8. todo' = <<FixFileSize(h, pos)>> \o PutForm(mq, h, pos, msg)
    BY <1>10, <2>5, <2>6, <2>7
  <2>9. (<<FixFileSize(h, pos)>> \o PutForm(mq, h, pos, msg))'
           = <<FixFileSize(h, pos)>> \o PutForm(mq, h, pos, msg)
    <3>1. mq.open
      BY <1>1
    <3>. QED  BY <3>1, PutSame
  <2>10. mem' = mq
    BY <1>1
  <2>11. Target(h, pos)'
    <3>1. ~Stranded(mem)'
      BY <1>12, <2>10 DEF Stranded
    <3>. QED  BY <1>2, <1>4, <2>1, <2>10, <3>1 DEF Target
  <2>12. PuttingAt(h, pos, msg)'
    BY <1>11, <2>8, <2>9, <2>10, <2>11 DEF PuttingAt
  <2>. QED  BY <2>12 DEF Putting
<1>13. CASE Stranded(mq)
  <2>1. h = mq.writeHandle
    BY <1>3, <1>13 DEF Stranded
  <2>2. PICK f, p : f = FixFileSize(h, pos) /\ p = PutMsg(h, msg)
    OBVIOUS
  <2>3. \E S : u \in Seq(S)
    <3>1. PICK l, o, e : /\ l = AppendState(a) /\ o = Assign([mq EXCEPT !.state = a, !.tip = t])
                         /\ e = Throw("updateQueueState")
      OBVIOUS
    <3>2. u = <<e>> \/ u = <<l>> \o <<o>>
      BY <1>9, <3>1 DEF updateQueueState, Optional
    <3>3. <<e>> \in Seq({e}) /\ <<l>> \o <<o>> \in Seq({l, o})
      OBVIOUS
    <3>. QED  BY <3>2, <3>3
  <2>4. PICK S : u \in Seq(S)
    BY <2>3
  <2>5. todo' # <<>> /\ Head(todo') = f
    BY <1>10, <2>2, <2>4, ConsTwo
  <2>6. mem' = mq /\ f = FixFileSize(mem'.writeHandle, mem'.state.wcount)
    BY <1>1, <1>2, <1>4, <2>1, <2>2
  <2>7. Stranded(mem)'
    BY <1>13, <2>6 DEF Stranded
  <2>8. FixFileSize(mem.writeHandle, mem.state.wcount)' = FixFileSize(mem'.writeHandle, mem'.state.wcount)
    BY DEF FixFileSize
  <2>. QED  BY <1>11, <2>5, <2>6, <2>7, <2>8 DEF Refusing
<1>. QED  BY <1>12, <1>13
(* WriteMsg: writeMsg, or nothing if the queue is full. *)
LEMMA WritePlan ==
    ASSUME IInv, Resting, WriteMsg
    PROVE  IInv' /\ Allows
<1>1. /\ DiskOK /\ FilesOK /\ Recoverable /\ Remembered /\ JobOK
  BY DEF IInv, Typed, DiskOK
<1>2. job # <<>> /\ Head(job).step = "write" /\ unusedIds # {}
  BY DEF WriteMsg, NextStep
<1>3. PICK m : m = Head(job).id
  OBVIOUS
<1>4. Tail(job) = <<>> /\ m \in 1..MaxSends /\ job[1].step = "write" /\ ~Expiring
  BY <1>1, <1>2, <1>3, WriteJob
<1>5. /\ todo' = writeMsg(m) /\ job' = <<>> \o Tail(job)
      /\ UNCHANGED <<disk, mem, qstate, lastId, deleted, faults, errors>>
  BY <1>3 DEF WriteMsg, Plan
<1>6. job' = <<>>
  BY <1>1, <1>2, <1>4, <1>5, PlanJob
<1>7. mem.open
  BY <1>2, <1>4 DEF Resting
<1>8. Quiet(mem) /\ Logged(mem.state) /\ Quiet(mem)' /\ Logged(mem.state)' /\ mem'.open
  <2>1. UNCHANGED <<disk, mem, faults>>
    BY <1>5
  <2>2. /\ Quiet(mem)' /\ (Logged(mem.state)' <=> Logged(mem.state))
        /\ Logged(mem.state) \/ Expiring
    BY <1>7, <2>1, MemPlanned
  <2>3. Quiet(mem)
    BY <1>7 DEF Resting
  <2>. QED  BY <1>4, <1>5, <1>7, <2>2, <2>3
<1>9. MemOK(mem) /\ MemOK(mem)' /\ Settled(mem)'
  BY <1>8 DEF Quiet
<1>10. mem \in Queues
  BY <1>1, <1>7 DEF Remembered
<1>11. JobOK'
  BY <1>6 DEF JobOK
<1>12. Phase'
  <2>1. CASE ~(mem.state.canWrite \/ mem.state.size = 0)
    <3>1. todo' = <<>>
      BY <1>5, <2>1 DEF writeMsg, Optional
    <3>2. Resting'
      BY <1>6, <1>8, <3>1 DEF Resting
    <3>. QED  BY <3>2 DEF Phase
  <2>2. CASE mem.state.canWrite \/ mem.state.size = 0
    <3>1. PICK c \in BOOLEAN : c = (Quota > mem.state.size)
      <4>1. (Quota > mem.state.size) \in BOOLEAN
        OBVIOUS
      <4>. QED  BY <4>1, Zenon
    <3>2. PICK msg : msg = [id |-> m, quota |-> ~c]
      OBVIOUS
    <3>3. todo' = writeToJournal(mem, c, msg)
      BY <1>5, <2>2, <3>1, <3>2 DEF writeMsg, Optional
    <3>4. /\ msg \in Message /\ msg.quota = ~c /\ Writable(msg)
          /\ mem.state.size = 0 => [msg EXCEPT !.quota = FALSE] = msg
      <4>1. c <=> Quota > mem.state.size
        BY <3>1
      <4>. QED  BY <1>4, <1>10, <2>2, <3>2, <4>1, WritesWritable
    <3>5. UNCHANGED <<disk, mem, qstate, faults>>
      BY <1>5
    <3>6. Starting' \/ Extending' \/ Putting' \/ Refusing'
      <4>1. CASE Unwritten(mem)
        BY <1>7, <3>3, <3>4, <3>5, <4>1, WritesFirst
      <4>2. CASE Sound(mem) /\ mem.writeHandle = 0 /\ mem.state.wcount >= MaxMsgCount
        BY <1>2, <1>7, <1>9, <3>3, <3>4, <3>5, <4>2, WritesNext
      <4>3. CASE Sound(mem) /\ ~(mem.writeHandle = 0 /\ mem.state.wcount >= MaxMsgCount)
        BY <1>7, <1>9, <3>3, <3>4, <3>5, <4>3, WritesOn
      <4>. QED  BY <1>9, <4>1, <4>2, <4>3 DEF MemOK
    <3>7. WritePhase'
      BY <1>6, <1>8, <1>9, <3>6 DEF WritePhase
    <3>. QED  BY <3>7 DEF Phase
  <2>. QED  BY <2>1, <2>2
<1>. QED  BY <1>5, <1>11, <1>12, PlanNext

(* A job that is expiring, by its first step. *)
LEMMA ExpiringJob ==
    ASSUME Expiring
    PROVE  /\ "EXPIRE" \in Ops
           /\ \E n \in Nat : \/ JobIs(ExpireStep(n), <<CloseStep>>)
                             \/ JobIs(PeekStep, <<ExpiredStep(n), CloseStep>>)
                             \/ JobIs(ExpiredStep(n), <<CloseStep>>)
                             \/ JobIs(DeleteStep(FALSE), <<ExpireStep(n), CloseStep>>)
    BY JobOf, Zenon DEF Expiring

(* What follows a peek. *)
LEMMA PeekJob ==
    ASSUME JobOK, job # <<>>, Head(job).step = "peek", job' = Tail(job)
    PROVE  /\ JobOK'
           /\ Expiring => Expiring'
           /\ job' # <<>> => job'[1].step \in {"closeEmpty", "ack", "expired"}
           /\ job' \notin {<<CloseStep, RmdirStep>>, <<RmdirStep>>}
<1>1. \/ \E m \in 1..MaxSends : job' = <<CloseEmptyStep, AckStep(m)>> \/ job' = <<AckStep(m)>>
      \/ job' = <<CloseEmptyStep>>
      \/ job' = <<>>
      \/ "EXPIRE" \in Ops /\ \E n \in Nat : job' = <<ExpiredStep(n), CloseStep>>
  BY JobShape, StepFields, Zenon DEF JobIs
<1>2. JobOK'
  BY <1>1, Zenon DEF JobOK, Expiring
<1>3. Expiring => Expiring'
  <2>1. SUFFICES ASSUME Expiring
                 PROVE  Expiring'
    OBVIOUS
  <2>2. "EXPIRE" \in Ops /\ \E n \in Nat : job' = <<ExpiredStep(n), CloseStep>>
    BY <2>1, ExpiringJob, StepFields, Zenon DEF JobIs
  <2>. QED  BY <2>2, Zenon DEF Expiring
<1>4. job' # <<>> => job'[1].step \in {"closeEmpty", "ack", "expired"}
  <2> DEFINE Names(a) == a.step \in {"closeEmpty", "ack", "expired"}
             Starts(x) == x # <<>> => Names(x[1])
  <2>1. /\ \A a : Names(a) => Starts(<<a>>)
        /\ \A a, b : Names(a) => Starts(<<a, b>>)
        /\ Starts(<<>>)
    OBVIOUS
  <2>2. /\ \A m : Names(AckStep(m))
        /\ Names(CloseEmptyStep)
        /\ \A n : Names(ExpiredStep(n))
    BY StepFields
  <2> HIDE DEF Starts, Names
  <2>3. Starts(job')
    BY <1>1, <2>1, <2>2, Zenon
  <2>. QED  BY <2>3 DEF Starts, Names
<1>5. job' \notin {<<CloseStep, RmdirStep>>, <<RmdirStep>>}
  <2>1. ASSUME job' = <<CloseStep, RmdirStep>> \/ job' = <<RmdirStep>>
        PROVE  FALSE
    <3>1. job' # <<>> /\ (job'[1] = CloseStep \/ job'[1] = RmdirStep)
      <4>1. \A x, a, b : (x = <<a, b>> \/ x = <<a>>) => x # <<>> /\ x[1] = a
        OBVIOUS
      <4>. QED  BY <2>1, <4>1, Zenon
    <3>. QED  BY <1>4, <3>1, StepFields
  <2>. QED  BY <2>1
<1>. QED  BY <1>2, <1>3, <1>4, <1>5

(* The next step of an operation finds what was peeked. *)
LEMMA RestsNext ==
    ASSUME todo' = <<>>, Quiet(mem)', Logged(mem.state)' \/ Expiring', Peeked(mem)', mem'.open,
           job' # <<>> => job'[1].step \in {"closeEmpty", "ack", "expired"},
           job' \notin {<<CloseStep, RmdirStep>>, <<RmdirStep>>}
    PROVE  Phase'
<1>1. Resting'
  BY DEF Resting
<1>. QED  BY <1>1 DEF Phase

(* What tryPeekMsg does to move on to the journal written to. *)
LEMMA PeekMoves ==
    ASSUME Sound(mem), mem.state.rj # mem.state.wj, mem.state.rpos >= mem.state.rcount,
           NEW l, l = tryPeekMsg
    PROVE  l = <<Assign(Moved), RemoveJournal(mem.state.rj),
                 AppendState(Switched(mem.state)), Assign(Entered)>>
                 \o Optional(mem.tip = <<>>, <<ReadTip(mem.state.wj, 0)>>)
<1>1. PICK mq, st : mq = mem /\ st = mq.state
  OBVIOUS
<1>2. PICK sw : sw = Switched(st)
  OBVIOUS
<1>3. /\ mq \in Queues /\ Stored(st) /\ st \in States /\ validQueueState(st)
      /\ mq.readHandle = st.rj /\ mq.writeHandle = st.wj
      /\ st.rj \in JournalId /\ st.wj \in JournalId /\ st.rj # st.wj
      /\ st.rpos >= st.rcount
  <2>1. Sound(mq) /\ st.rj # st.wj /\ st.rpos >= st.rcount
    BY <1>1
  <2>2. mq \in Queues /\ Stored(st) /\ Handles(mq)
    BY <1>1, <2>1 DEF Sound
  <2>3. mq.readHandle = st.rj /\ mq.writeHandle = st.wj
    BY <1>1, <2>1, <2>2 DEF Handles
  <2>. QED  BY <2>1, <2>2, <2>3, StoredHolds
<1>4. mq.readHandle # 0 /\ mq.writeHandle # 0
  BY <1>3 DEF JournalId
<1>5. /\ sw \in States /\ sw.rj = st.wj /\ sw.wj = st.wj /\ sw.rpos = 0
      /\ sw.rcount = st.wcount /\ sw.wcount = st.wcount /\ sw.size = st.size
  BY <1>2, <1>3, SwitchedFields
<1>6. validQueueState(sw)
  BY <1>3, <1>5, ValidState, StateFields DEF validQueueState
<1>7. PICK v, w : v = Moved /\ w = Entered
  OBVIOUS
<1>8. /\ v \in Queues /\ v.readHandle = st.wj /\ v.tip = mq.tip
      /\ v = [open |-> TRUE, state |-> st, readHandle |-> st.wj, writeHandle |-> 0, tip |-> mq.tip]
      /\ w = [open |-> TRUE, state |-> sw, readHandle |-> st.wj, writeHandle |-> 0, tip |-> mq.tip]
      /\ v.open = TRUE
  BY <1>1, <1>2, <1>3, <1>7, MovedFields
<1>9. PICK a, r, k, o : /\ a = Assign(v) /\ r = RemoveJournal(st.rj)
                        /\ k = AppendState(sw) /\ o = Assign(w)
  OBVIOUS
<1>10. [mem EXCEPT !.readHandle = mem.writeHandle, !.writeHandle = 0] = v
  BY <1>1, <1>3, <1>7 DEF Moved
<1>11. [switchedToWrite(mem.state) EXCEPT !.size = mem.state.size] = sw
  BY <1>1, <1>2 DEF Switched
<1>12. [v EXCEPT !.state = sw, !.tip = v.tip] = w
  <2>1. PICK x : x = [v EXCEPT !.state = sw, !.tip = v.tip]
    OBVIOUS
  <2>2. x \in Queues
    BY <1>5, <1>8, <2>1 DEF Queues
  <2>3. /\ x.state = sw /\ x.readHandle = v.readHandle /\ x.writeHandle = v.writeHandle
        /\ x.tip = v.tip
    BY <1>8, <2>1 DEF Queues
  <2>4. x = [open |-> TRUE, state |-> x.state, readHandle |-> x.readHandle,
             writeHandle |-> x.writeHandle, tip |-> x.tip]
    BY <2>2, QueueFields
  <2>5. v.writeHandle = 0
    BY <1>8
  <2>. QED  BY <1>8, <2>1, <2>3, <2>4, <2>5
<1>13. l = (<<Assign(v), RemoveJournal(mem.state.rj)>> \o updateQueueState(v, TRUE, sw, v.tip))
             \o Optional(mem.tip = <<>>, <<ReadTip(v.readHandle, 0)>>)
  <2>1. ~(mem.readHandle = 0 \/ (mem.state.rpos >= mem.state.rcount /\ mem.state.rj = mem.state.wj))
    BY <1>1, <1>4
  <2>2. mem.writeHandle # 0 /\ mem.state.rpos >= mem.state.rcount
    BY <1>1, <1>4
  <2>3. l = tryPeekMsg
    OBVIOUS
  <2>. QED  BY ONLY <1>10, <1>11, <2>1, <2>2, <2>3, ZenonT(30) DEF tryPeekMsg
<1>14. updateQueueState(v, TRUE, sw, v.tip) = <<k, o>>
  <2>1. updateQueueState(v, TRUE, sw, v.tip) = <<k>> \o <<o>>
    BY <1>6, <1>9, <1>12 DEF updateQueueState, Optional
  <2>. QED  BY <2>1, JoinOneOne
<1>15. <<Assign(v), RemoveJournal(mem.state.rj)>> = <<a, r>> /\ <<a, r>> \o <<k, o>> = <<a, r, k, o>>
  BY <1>1, <1>9, JoinTwoTwo
<1>16. l = <<a, r, k, o>> \o Optional(mem.tip = <<>>, <<ReadTip(st.wj, 0)>>)
  BY <1>8, <1>13, <1>14, <1>15
<1>. QED  BY <1>1, <1>2, <1>7, <1>9, <1>16

(* Reading moves on to the journal written to. *)
LEMMA PeekSwitches ==
    ASSUME DiskOK, Recoverable, mem.open, Sound(mem), LogReady, Follows(mem.state),
           Logged(mem.state)' \/ Expiring', MemOK(mem)',
           mem.state.rj # mem.state.wj, mem.state.rpos >= mem.state.rcount,
           UNCHANGED <<disk, mem, qstate, faults>>,
           job' # <<>> => job'[1].step \in {"closeEmpty", "ack", "expired"},
           todo' = tryPeekMsg
    PROVE  Phase'
<1>1. PICK mq : mq = mem
  OBVIOUS
<1>2. PICK st : st = mq.state
  OBVIOUS
<1>3. /\ mq \in Queues /\ Stored(st) /\ st \in States /\ validQueueState(st)
      /\ mq.readHandle = st.rj /\ mq.writeHandle = st.wj /\ Exists(st.rj) /\ Exists(st.wj)
      /\ st.rj \in JournalId /\ st.wj \in JournalId /\ st.rj # st.wj
      /\ st.rpos \in Nat /\ st.rcount \in Nat /\ st.wcount \in Nat /\ st.size \in Nat
      /\ st.wcount > 0 /\ st.rpos = st.rcount
  <2>1. Sound(mq) /\ st.rj # st.wj /\ st.rpos >= st.rcount
    BY <1>1, <1>2
  <2>2. mq \in Queues /\ Stored(st) /\ Handles(mq)
    BY <1>2, <2>1 DEF Sound
  <2>3. mq.readHandle = st.rj /\ mq.writeHandle = st.wj /\ Exists(st.rj) /\ Exists(st.wj)
    BY <1>2, <2>1, <2>2 DEF Handles
  <2>. QED  BY <2>1, <2>2, <2>3, StoredHolds
<1>4. mq.readHandle # 0 /\ mq.writeHandle # 0
  BY <1>3 DEF JournalId
<1>5. PICK sw : sw = Switched(st)
  OBVIOUS
<1>6. /\ sw \in States /\ sw.rj = st.wj /\ sw.wj = st.wj /\ sw.rpos = 0
      /\ sw.rcount = st.wcount /\ sw.wcount = st.wcount /\ sw.size = st.size
  BY <1>3, <1>5, SwitchedFields
<1>7. validQueueState(sw)
  BY <1>3, <1>6, ValidState DEF validQueueState
<1>8. PICK v, w : v = Moved /\ w = Entered
  OBVIOUS
<1>9. /\ v \in Queues /\ v.readHandle = st.wj /\ v.tip = mq.tip
      /\ w \in Queues /\ w.open = TRUE /\ w.state = sw /\ w.tip = mq.tip
      /\ v = [open |-> TRUE, state |-> st, readHandle |-> st.wj, writeHandle |-> 0, tip |-> mq.tip]
      /\ w = [open |-> TRUE, state |-> sw, readHandle |-> st.wj, writeHandle |-> 0, tip |-> mq.tip]
      /\ v.open = TRUE
  BY <1>1, <1>2, <1>3, <1>5, <1>8, MovedFields
<1>10. PICK rd : rd = Optional(mq.tip = <<>>, <<ReadTip(st.wj, 0)>>)
  OBVIOUS
<1>11. PICK a, r, l, o : /\ a = Assign(v) /\ r = RemoveJournal(st.rj)
                         /\ l = AppendState(sw) /\ o = Assign(w)
  OBVIOUS
<1>12. todo' = <<a, r, l, o>> \o rd
  <2>1. PICK x : x = tryPeekMsg
    OBVIOUS
  <2>2. x = <<Assign(Moved), RemoveJournal(mem.state.rj),
              AppendState(Switched(mem.state)), Assign(Entered)>>
              \o Optional(mem.tip = <<>>, <<ReadTip(mem.state.wj, 0)>>)
    BY <2>1, PeekMoves
  <2>3. <<Assign(Moved), RemoveJournal(mem.state.rj),
          AppendState(Switched(mem.state)), Assign(Entered)>> = <<a, r, l, o>>
    BY <1>1, <1>2, <1>5, <1>8, <1>11
  <2>4. Optional(mem.tip = <<>>, <<ReadTip(mem.state.wj, 0)>>) = rd
    BY <1>1, <1>2, <1>10
  <2>. QED  BY <2>1, <2>2, <2>3, <2>4
<1>13. ReadForm(w, rd)
  <2>1. mq.tip # <<>> => rd = <<>>
    BY <1>10 DEF Optional
  <2>2. mq.tip = <<>> => rd = <<ReadTip(st.wj, 0)>>
    BY <1>10 DEF Optional
  <2>. QED  BY <1>3, <1>6, <1>9, <2>1, <2>2 DEF ReadForm
<1>14. /\ Moved' = v /\ Entered' = w /\ mem' = mq /\ mem'.state = st
       /\ Switched(mem.state)' = sw
  <2>1. Moved' = v
    BY <1>8 DEF Moved
  <2>2. Switched(mem.state)' = sw
    BY <1>1, <1>2, <1>5 DEF Switched, switchedToWrite
  <2>3. Entered' = w
    BY <1>8 DEF Entered, Moved, Switched, switchedToWrite
  <2>. QED  BY <1>1, <1>2, <2>1, <2>2, <2>3
<1>15. ReadForm(Entered, rd)'
  <2>1. ReadForm(w, rd)'
    <3>1. ReadTip(st.wj, 0)' = ReadTip(st.wj, 0)
      BY DEF ReadTip
    <3>. QED  BY <1>13 DEF ReadForm, ReadTip
  <2>. QED  BY <1>14, <2>1 DEF ReadForm, ReadTip
<1>16. JobFits(Entered)'
  <2>1. Peeked(Entered)'
    BY <1>3, <1>6, <1>9, <1>14 DEF Peeked
  <2>. QED  BY <2>1 DEF JobFits
<1>17. Sound(mem)' /\ LogReady' /\ Follows(mem.state)' /\ Stored(mem.state)'
  <2>1. mem'.readHandle # 0
    BY <1>1, <1>4
  <2>2. Sound(mem)'
    BY <2>1, SoundNext
  <2>3. LogReady'
    BY DEF LogReady, disk
  <2>4. Follows(st)' = Follows(st)
    BY <1>3 DEF Follows, From, Rec, StateFile, Exists, disk
  <2>5. Follows(mem.state)' = Follows(st)'
    BY <1>1, <1>2
  <2>. QED  BY <1>1, <1>2, <2>2, <2>3, <2>4, <2>5 DEF Sound
<1>18. SwitchingTo(rd)'
  <2>1. /\ mem'.open /\ Exists(mem.state.rj)' /\ Exists(mem.state.wj)'
        /\ mem'.state.rj # mem'.state.wj /\ mem'.state.rpos = mem'.state.rcount
    BY <1>1, <1>2, <1>3 DEF Exists, disk
  <2>2. todo' = (<<Assign(Moved), RemoveJournal(mem.state.rj),
                   AppendState(Switched(mem.state)), Assign(Entered)>> \o rd)'
    <3>1. Assign(Moved)' = a /\ Assign(Entered)' = o
      <4>1. Assign(v)' = a
        BY <1>9, <1>11 DEF Assign, qState
      <4>2. Assign(w)' = o
        BY <1>9, <1>11 DEF Assign, qState
      <4>3. Assign(Moved)' = Assign(v)' /\ Assign(Entered)' = Assign(w)'
        BY <1>14 DEF Assign, qState
      <4>. QED  BY <4>1, <4>2, <4>3
    <3>2. RemoveJournal(mem.state.rj)' = r /\ AppendState(Switched(mem.state))' = l
      BY <1>11, <1>14 DEF RemoveJournal, AppendState
    <3>. QED  BY <1>12, <3>1, <3>2
  <2>. QED  BY <1>15, <1>16, <1>17, <2>1, <2>2 DEF SwitchingTo
<1>. QED  BY <1>18 DEF Switching, Phase

(* PeekMsg: tryPeekMsg. *)
LEMMA PeekPlan ==
    ASSUME IInv, Resting, PeekMsg
    PROVE  IInv' /\ Allows
<1>1. /\ DiskOK /\ FilesOK /\ Recoverable /\ Remembered /\ JobOK
  BY DEF IInv, Typed, DiskOK
<1>2. job # <<>> /\ Head(job).step = "peek"
  BY DEF PeekMsg, NextStep
<1>3. /\ todo' = tryPeekMsg /\ job' = <<>> \o Tail(job)
      /\ UNCHANGED <<disk, mem, qstate, lastId, deleted, faults, errors>>
  BY DEF PeekMsg, Plan
<1>4. job' = Tail(job)
  BY <1>1, <1>2, <1>3, PlanJob
<1>5. /\ JobOK' /\ (Expiring => Expiring')
      /\ job' # <<>> => job'[1].step \in {"closeEmpty", "ack", "expired"}
      /\ job' \notin {<<CloseStep, RmdirStep>>, <<RmdirStep>>}
  BY <1>1, <1>2, <1>4, PeekJob
<1>6. mem.open
  <2>1. job[1].step = "peek"
    BY <1>2
  <2>. QED  BY <1>2, <2>1 DEF Resting
<1>7. Quiet(mem) /\ Quiet(mem)' /\ (Logged(mem.state)' \/ Expiring') /\ mem'.open
  <2>1. UNCHANGED <<disk, mem, faults>>
    BY <1>3
  <2>2. /\ Quiet(mem)' /\ (Logged(mem.state)' <=> Logged(mem.state))
        /\ Logged(mem.state) \/ Expiring
    BY <1>6, <2>1, MemPlanned
  <2>3. Quiet(mem)
    BY <1>6 DEF Resting
  <2>. QED  BY <1>3, <1>5, <1>6, <2>2, <2>3
<1>8. MemOK(mem) /\ MemOK(mem)' /\ Settled(mem)'
  BY <1>7 DEF Quiet
<1>9. PICK mq, st : mq = mem /\ st = mq.state
  OBVIOUS
<1>10. Phase'
  <2>1. CASE Unwritten(mem)
    <3>1. mem.readHandle = 0 /\ mem.tip = <<>>
      BY <2>1 DEF Unwritten, Opened
    <3>2. todo' = <<>>
      BY <1>3, <3>1 DEF tryPeekMsg
    <3>3. Peeked(mem)'
      BY <1>3, <3>1 DEF Peeked
    <3>. QED  BY <1>5, <1>7, <3>2, <3>3, RestsNext
  <2>2. CASE Sound(mem)
    <3>1. /\ mq \in Queues /\ Stored(st) /\ TipOK(mq)
          /\ mq.readHandle = st.rj
          /\ st.rj # st.wj => mq.writeHandle = st.wj
          /\ st.rj \in JournalId /\ st.wj \in JournalId
          /\ st.rpos \in Nat /\ st.rcount \in Nat /\ st.rpos <= st.rcount
      <4>1. Sound(mq)
        BY <1>9, <2>2
      <4>2. mq \in Queues /\ Stored(st) /\ Handles(mq) /\ TipOK(mq)
        BY <1>9, <4>1 DEF Sound
      <4>3. mq.readHandle = st.rj /\ (st.rj # st.wj => mq.writeHandle = st.wj)
        BY <1>9, <4>2 DEF Handles
      <4>. QED  BY <4>1, <4>2, <4>3, StoredHolds
    <3>2. mq.readHandle # 0 /\ st.wj # 0
      BY <3>1 DEF JournalId
    <3>3. CASE st.rpos >= st.rcount /\ st.rj = st.wj
      <4>1. todo' = <<>>
        BY <1>3, <1>9, <3>3 DEF tryPeekMsg
      <4>2. mq.tip = <<>>
        <5>1. ~(st.rpos < st.rcount)
          BY <3>1, <3>3
        <5>. QED  BY <1>9, <3>1, <3>3, <5>1 DEF TipOK
      <4>3. Peeked(mem)'
        BY <1>3, <1>9, <4>2 DEF Peeked
      <4>. QED  BY <1>5, <1>7, <4>1, <4>3, RestsNext
    <3>4. CASE st.rpos >= st.rcount /\ st.rj # st.wj
      <4>1. LogReady /\ Follows(mem.state)
        BY <1>8, <2>2, SoundIsReady
      <4>. QED  BY <1>1, <1>3, <1>5, <1>6, <1>7, <1>8, <1>9, <2>2, <3>4, <4>1, PeekSwitches
    <3>5. CASE ~(st.rpos >= st.rcount)
      <4>1. st.rpos < st.rcount
        BY <3>1, <3>5
      <4>2. Peeked(mem)'
        BY <1>3, <1>9, <4>1 DEF Peeked
      <4>3. tryPeekMsg = Optional(mem.tip = <<>>, <<ReadTip(mem.readHandle, mem.state.rpos)>>)
        <5>1. ~(mem.readHandle = 0 \/ (mem.state.rpos >= mem.state.rcount /\ mem.state.rj = mem.state.wj))
          BY <1>9, <3>2, <3>5
        <5>2. ~(mem.writeHandle # 0 /\ mem.state.rpos >= mem.state.rcount)
          BY <1>9, <3>5
        <5>. QED  BY ONLY <5>1, <5>2, ZenonT(30) DEF tryPeekMsg
      <4>4. CASE mq.tip # <<>>
        <5>1. todo' = <<>>
          BY <1>3, <1>9, <4>3, <4>4 DEF Optional
        <5>. QED  BY <1>5, <1>7, <4>2, <5>1, RestsNext
      <4>5. CASE mq.tip = <<>>
        <5>1. todo' = <<ReadTip(st.rj, st.rpos)>>
          BY <1>3, <1>9, <3>1, <4>3, <4>5 DEF Optional
        <5>2. mem' = mq /\ mem'.state = st
          BY <1>3, <1>9
        <5>3. todo' = <<ReadTip(mem.state.rj, mem.state.rpos)>>'
          BY <5>1, <5>2 DEF ReadTip
        <5>4. ReadForm(mem, todo)'
          BY <4>1, <4>5, <5>2, <5>3 DEF ReadForm
        <5>5. JobFits(mem)'
          BY <1>5, <4>2 DEF JobFits
        <5>6. Reading'
          BY <1>7, <5>3, <5>4, <5>5 DEF Reading
        <5>. QED  BY <5>6 DEF Phase
      <4>. QED  BY <4>4, <4>5
    <3>. QED  BY <3>3, <3>4, <3>5
  <2>. QED  BY <1>8, <2>1, <2>2 DEF MemOK
<1>. QED  BY <1>3, <1>5, <1>10, PlanNext

(* The state after its first message is deleted. *)
Deleted(st) == [st EXCEPT !.rpos = @ + 1, !.size = @ - 1]

IsDeleted(s, st) ==
    /\ s \in States /\ validQueueState(s)
    /\ s.rj = st.rj /\ s.wj = st.wj /\ s.rpos = st.rpos + 1
    /\ s.rcount = st.rcount /\ s.wcount = st.wcount /\ s.canWrite = st.canWrite

(* Its fields. *)
LEMMA DeletedFields ==
    ASSUME NEW st \in States, validQueueState(st), st.rpos < st.rcount,
           NEW s, s = Deleted(st)
    PROVE  IsDeleted(s, st)
<1>1. /\ st.rpos \in Nat /\ st.rcount \in Nat /\ st.wcount \in Nat /\ st.size \in Nat
      /\ st.rj = st.wj => st.rcount = st.wcount /\ st.size = st.rcount - st.rpos
      /\ st.rj # st.wj => st.size = st.wcount + (st.rcount - st.rpos)
  BY StateFields, ValidState
<1>2. PICK n : n = st.size - 1
  OBVIOUS
<1>3. n \in Nat /\ n + 1 = st.size /\ st.rpos + 1 \in Nat
  BY <1>1, <1>2
<1>4. s = [st EXCEPT !.rpos = st.rpos + 1, !.size = n]
  BY <1>2 DEF Deleted, States
<1>5. s \in States
  BY <1>3, <1>4 DEF States
<1>6. /\ s.rj = st.rj /\ s.wj = st.wj /\ s.rpos = st.rpos + 1
      /\ s.rcount = st.rcount /\ s.wcount = st.wcount /\ s.size = n
  BY <1>4 DEF States
<1>7. s.canWrite = st.canWrite
  BY <1>4 DEF States
<1>8. validQueueState(s)
  BY <1>1, <1>3, <1>6 DEF validQueueState
<1>. QED  BY <1>5, <1>6, <1>7, <1>8 DEF IsDeleted

(* It is stored, and has all messages but the first. *)
LEMMA DeletedMessages ==
    ASSUME FilesOK, NEW st, Stored(st), Exists(st.rj), Exists(st.wj), st.rpos < st.rcount,
           NEW s, s = Deleted(st)
    PROVE  Stored(s) /\ Messages(st) # <<>> /\ Messages(s) = Tail(Messages(st))
<1>1. /\ st \in States /\ validQueueState(st)
      /\ st.rpos \in Nat /\ st.rcount \in Nat /\ st.wcount \in Nat
  BY StoredHolds
<1>2. /\ s \in States /\ validQueueState(s)
      /\ s.rj = st.rj /\ s.wj = st.wj /\ s.rpos = st.rpos + 1
      /\ s.rcount = st.rcount /\ s.wcount = st.wcount /\ s.canWrite = st.canWrite
  BY <1>1, DeletedFields DEF IsDeleted
<1>3. Stored(s)
  BY <1>2 DEF Stored, Marked
<1>4. MessagesFit(st) /\ MessagesFit(s)
  BY <1>3, MessagesOf
<1>5. PICK a, b : a = InRead(s) /\ b = InWrite(s)
  OBVIOUS
<1>6. a \in Nat /\ b \in Nat /\ InRead(st) = a + 1 /\ InWrite(st) = b
  <2>1. a \in Nat /\ b \in Nat
    BY <1>4, <1>5 DEF MessagesFit
  <2>2. InRead(st) = st.rcount - st.rpos /\ a = st.rcount - (st.rpos + 1)
    BY <1>2, <1>5 DEF InRead
  <2>3. InWrite(st) = b
    BY <1>2, <1>5 DEF InWrite
  <2>. QED  BY <1>1, <2>1, <2>2, <2>3
<1>7. PICK q, t : q = Messages(st) /\ t = Messages(s)
  OBVIOUS
<1>8. /\ q \in Seq(Message) /\ t \in Seq(Message)
      /\ Len(q) = (a + 1) + b /\ Len(t) = a + b
      /\ \A i \in 1..(a + 1) : q[i] = files[st.rj][st.rpos + i]
      /\ \A i \in 1..b : q[(a + 1) + i] = files[st.wj][i]
      /\ \A i \in 1..a : t[i] = files[st.rj][(st.rpos + 1) + i]
      /\ \A i \in 1..b : t[a + i] = files[st.wj][i]
  BY <1>2, <1>4, <1>5, <1>6, <1>7 DEF MessagesFit
<1>9. \A i \in 1..(a + b) : t[i] = q[i + 1]
  <2>1. SUFFICES ASSUME NEW i \in 1..(a + b)
                 PROVE  t[i] = q[i + 1]
    OBVIOUS
  <2>2. CASE i <= a
    <3>1. i \in 1..a /\ i + 1 \in 1..(a + 1) /\ st.rpos + (i + 1) = (st.rpos + 1) + i
      BY <1>1, <1>6, <2>2
    <3>. QED  BY <1>8, <3>1
  <2>3. CASE ~(i <= a)
    <3>1. PICK n \in 1..b : i = a + n
      <4>1. i - a \in 1..b /\ i = a + (i - a)
        BY <1>6, <2>3
      <4>. QED  BY <4>1
    <3>2. (a + 1) + n = i + 1
      BY <1>6, <3>1
    <3>. QED  BY <1>8, <3>1, <3>2
  <2>. QED  BY <2>2, <2>3
<1>10. q # <<>>
  BY <1>6, <1>8
<1>11. t = Tail(q)
  <2>1. Tail(q) \in Seq(Message) /\ Len(Tail(q)) = a + b
        /\ \A i \in 1..(a + b) : Tail(q)[i] = q[i + 1]
    BY <1>6, <1>8, <1>10
  <2>. QED  BY <1>8, <1>9, <2>1, SameSeq
<1>. QED  BY <1>3, <1>7, <1>10, <1>11

(* What tryDeleteMsg makes of an opened queue with a tip. *)
IsDeletedQueue(w, mq, s) ==
    /\ Sound(w) /\ w.open = TRUE /\ w.state = s /\ w.tip = <<>>
    /\ w.writeHandle = mq.writeHandle
    /\ ~mq.tip[1].quota => Follows(s)
    /\ s.rj = mq.state.rj /\ s.wj = mq.state.wj

(* It is sound, and follows the log if no quota marker is deleted. *)
LEMMA DeletedQueue ==
    ASSUME DiskOK, NEW mq, Sound(mq), Follows(mq.state), mq.tip # <<>>, Peeked(mq),
           NEW s, s = Deleted(mq.state), NEW w, w = [mq EXCEPT !.state = s, !.tip = <<>>]
    PROVE  IsDeletedQueue(w, mq, s)
<1>1. PICK st : st = mq.state
  OBVIOUS
<1>2. /\ mq \in Queues /\ Stored(st) /\ Handles(mq) /\ TipOK(mq) /\ st.rpos < st.rcount
      /\ st \in States /\ validQueueState(st) /\ Exists(st.rj) /\ Exists(st.wj)
  <2>1. mq \in Queues /\ Stored(st) /\ Handles(mq) /\ TipOK(mq) /\ st.rpos < st.rcount
    BY <1>1 DEF Sound, Peeked
  <2>2. Exists(st.rj) /\ Exists(st.wj)
    BY <1>1, <2>1 DEF Handles
  <2>. QED  BY <2>1, <2>2, StoredHolds
<1>3. /\ s \in States /\ s.rj = st.rj /\ s.wj = st.wj /\ s.rpos = st.rpos + 1
      /\ s.rcount = st.rcount /\ s.wcount = st.wcount
  BY <1>1, <1>2, DeletedFields DEF IsDeleted
<1>4. Stored(s)
  BY <1>1, <1>2, DeletedMessages DEF DiskOK
<1>5. /\ w \in Queues /\ w.state = s /\ w.tip = <<>> /\ w.readHandle = mq.readHandle
      /\ w.writeHandle = mq.writeHandle /\ w.open = TRUE
  <2>1. PICK T : T = {<<>>} \cup {<<m>> : m \in Message}
    OBVIOUS
  <2>2. <<>> \in T
    BY <2>1
  <2>3. Queues = [open : {TRUE}, state : States, readHandle : Nat, writeHandle : Nat, tip : T]
    BY <2>1 DEF Queues
  <2>4. w \in Queues
    BY <1>2, <1>3, <2>2, <2>3
  <2>5. /\ w.state = s /\ w.tip = <<>> /\ w.readHandle = mq.readHandle
        /\ w.writeHandle = mq.writeHandle
    BY <1>2, <2>3
  <2>. QED  BY <2>4, <2>5, QueueFields
<1>6. Handles(w)
  BY <1>1, <1>2, <1>3, <1>5 DEF Handles, Stranded
<1>7. Sound(w)
  BY <1>4, <1>5, <1>6 DEF Sound, TipOK
<1>8. ASSUME ~mq.tip[1].quota
      PROVE  Follows(s)
  <2>1. st.rpos \in Nat /\ st.rcount \in Nat
    BY <1>2, StoredHolds
  <2>2. Follows(st)
    BY <1>1
  <2>3. Rec # <<>>
    <3>1. ASSUME Rec = <<>>
          PROVE  FALSE
      <4>1. st = newMsgQueueState(st.rj)
        BY <2>2, <3>1 DEF Follows
      <4>2. st.rcount = 0
        BY <4>1 DEF newMsgQueueState
      <4>. QED  BY <1>2, <2>1, <4>2
    <3>. QED  BY <3>1
  <2>4. From(s) = From(st)
    BY <1>3 DEF From
  <2>5. PICK n : n = From(st)
    OBVIOUS
  <2>6. n <= st.rpos /\ \A i \in (n + 1)..st.rpos : ~files[st.rj][i].quota
    BY <2>2, <2>3, <2>5 DEF Follows
  <2>7. ~files[st.rj][st.rpos + 1].quota
    BY <1>1, <1>2, <1>8 DEF TipOK
  <2>8. \A i \in (n + 1)..(st.rpos + 1) : ~files[st.rj][i].quota
    <3>1. \A i \in (n + 1)..(st.rpos + 1) : i = st.rpos + 1 \/ i \in (n + 1)..st.rpos
      BY <2>1
    <3>. QED  BY <2>6, <2>7, <3>1
  <2>9. n <= st.rpos + 1
    <3>1. n \in Int
      BY <2>3, <2>5, RecOf, StateFields DEF From
    <3>. QED  BY <2>1, <2>6, <3>1
  <2>10. n <= s.rpos /\ \A i \in (n + 1)..s.rpos : ~files[s.rj][i].quota
    BY <1>3, <2>8, <2>9
  <2>. QED  BY <1>3, <2>2, <2>3, <2>4, <2>5, <2>10 DEF Follows
<1>. QED  BY <1>1, <1>3, <1>5, <1>7, <1>8 DEF IsDeletedQueue

(* A deletion is logged, and followed by a peek, or is part of an expiry. *)
LEMMA DeleteJob ==
    ASSUME JobOK, job # <<>>, Head(job).step = "delete"
    PROVE  /\ job[1] = Head(job)
           /\ \/ Head(job).log = TRUE /\ Tail(job) = <<PeekStep>> /\ ~Expiring
              \/ /\ Head(job).log = FALSE
                 /\ "EXPIRE" \in Ops
                 /\ \E n \in Nat : Tail(job) = <<ExpireStep(n), CloseStep>>
<1>1. \/ JobIs(DeleteStep(TRUE), <<PeekStep>>)
      \/ "EXPIRE" \in Ops /\ \E n \in Nat : JobIs(DeleteStep(FALSE), <<ExpireStep(n), CloseStep>>)
  BY JobShape, StepFields, Zenon DEF JobIs
<1>2. CASE JobIs(DeleteStep(TRUE), <<PeekStep>>)
  <2>1. job[1] = Head(job) /\ Head(job) = DeleteStep(TRUE) /\ Tail(job) = <<PeekStep>>
    BY <1>2 DEF JobIs
  <2>2. Head(job).log = TRUE /\ Head(job).step = "delete"
    BY <2>1, StepFields
  <2>3. ~Expiring
    <3>1. SUFFICES ASSUME Expiring
                   PROVE  FALSE
      OBVIOUS
    <3>2. \E n \in Nat : \/ Head(job) = ExpireStep(n) \/ Head(job) = PeekStep
                         \/ Head(job) = ExpiredStep(n) \/ Head(job) = DeleteStep(FALSE)
      BY <3>1, ExpiringJob, Zenon DEF JobIs
    <3>. QED  BY <2>2, <3>2, StepFields
  <2>. QED  BY <2>1, <2>2, <2>3
<1>3. CASE "EXPIRE" \in Ops /\ \E n \in Nat : JobIs(DeleteStep(FALSE), <<ExpireStep(n), CloseStep>>)
  BY <1>3, StepFields, Zenon DEF JobIs
<1>. QED  BY <1>1, <1>2, <1>3

(* DeleteMsg: tryDeleteMsg_ of the message that was peeked. *)
LEMMA DeletePlan ==
    ASSUME IInv, Resting, DeleteMsg
    PROVE  IInv' /\ Allows
<1>1. /\ DiskOK /\ FilesOK /\ Recoverable /\ Remembered /\ JobOK
  BY DEF IInv, Typed, DiskOK
<1>2. job # <<>> /\ Head(job).step = "delete"
  BY DEF DeleteMsg, NextStep
<1>3. PICK logged : logged = Head(job).log
  OBVIOUS
<1>4. /\ todo' = tryDeleteMsg(logged) /\ job' = <<>> \o Tail(job)
      /\ UNCHANGED <<disk, mem, qstate, lastId, deleted, faults, errors>>
  BY <1>3 DEF DeleteMsg, Plan
<1>5. job' = Tail(job)
  BY <1>1, <1>2, <1>4, PlanJob
<1>6. /\ job[1] = Head(job)
      /\ \/ logged = TRUE /\ job' = <<PeekStep>> /\ ~Expiring
         \/ /\ logged = FALSE
            /\ "EXPIRE" \in Ops
            /\ \E n \in Nat : job' = <<ExpireStep(n), CloseStep>>
  BY <1>1, <1>2, <1>3, <1>5, DeleteJob
<1>7. /\ mem.open /\ Quiet(mem) /\ Peeked(mem) /\ mem.tip # <<>>
      /\ logged \/ ~mem.tip[1].quota
  BY <1>2, <1>3, <1>6 DEF Resting
<1>8. /\ Quiet(mem)' /\ (Logged(mem.state)' <=> Logged(mem.state))
      /\ Logged(mem.state) \/ Expiring
  <2>1. UNCHANGED <<disk, mem, faults>>
    BY <1>4
  <2>. QED  BY <1>7, <2>1, MemPlanned
<1>9. MemOK(mem) /\ Settled(mem)
  BY <1>7 DEF Quiet
<1>10. Sound(mem) /\ LogReady /\ Follows(mem.state)
  <2>1. ~Unwritten(mem)
    BY <1>7 DEF Unwritten, Opened
  <2>2. Sound(mem)
    BY <1>9, <2>1 DEF MemOK
  <2>. QED  BY <1>9, <2>2, SoundIsReady
<1>11. PICK mq, st : mq = mem /\ st = mq.state
  OBVIOUS
<1>12. PICK s : s = Deleted(st)
  OBVIOUS
<1>13. PICK w : w = [mq EXCEPT !.state = s, !.tip = <<>>]
  OBVIOUS
<1>14. /\ Sound(w) /\ w.open = TRUE /\ w.state = s /\ w.tip = <<>>
       /\ w.writeHandle = mq.writeHandle
       /\ ~mq.tip[1].quota => Follows(s)
       /\ s.rj = st.rj /\ s.wj = st.wj
  <2>1. Sound(mq) /\ Follows(mq.state) /\ mq.tip # <<>> /\ Peeked(mq)
    BY <1>7, <1>10, <1>11
  <2>2. s = Deleted(mq.state)
    BY <1>11, <1>12
  <2>3. IsDeletedQueue(w, mq, s)
    BY <1>1, <1>13, <2>1, <2>2, DeletedQueue
  <2>. QED  BY <1>11, <2>3 DEF IsDeletedQueue
<1>15. /\ mq \in Queues /\ Stored(st) /\ st \in States /\ validQueueState(st)
       /\ Exists(st.rj) /\ Exists(st.wj) /\ mq.readHandle # 0 /\ st.rpos < st.rcount
  <2>1. Sound(mq) /\ mq.tip # <<>> /\ Peeked(mq)
    BY <1>7, <1>10, <1>11
  <2>2. mq \in Queues /\ Stored(st) /\ Handles(mq) /\ st.rpos < st.rcount
    BY <1>11, <2>1 DEF Sound, Peeked
  <2>3. mq.readHandle = st.rj /\ Exists(st.rj) /\ Exists(st.wj)
    BY <1>11, <2>2 DEF Handles
  <2>4. st.rj # 0
    BY <2>2, StoredHolds DEF JournalId
  <2>. QED  BY <2>2, <2>3, <2>4, StoredHolds
<1>16. Stored(s) /\ Messages(st) # <<>> /\ Messages(s) = Tail(Messages(st)) /\ validQueueState(s)
  <2>1. Stored(s) /\ Messages(st) # <<>> /\ Messages(s) = Tail(Messages(st))
    BY <1>1, <1>12, <1>15, DeletedMessages
  <2>. QED  BY <2>1 DEF Stored
<1>17. PICK a, o : a = AppendState(s) /\ o = Assign(w)
  OBVIOUS
<1>18. todo' = Optional(logged, <<a>>) \o <<o>>
  <2>1. tryDeleteMsg(logged) = updateQueueState(mem, logged, s, <<>>)
    <3>1. mem.tip # <<>> /\ mem.readHandle # 0
      BY <1>7, <1>11, <1>15
    <3>2. [mem.state EXCEPT !.rpos = @ + 1, !.size = @ - 1] = s
      BY <1>11, <1>12 DEF Deleted
    <3>. QED  BY <3>1, <3>2 DEF tryDeleteMsg, Optional
  <2>. QED  BY <1>4, <1>11, <1>13, <1>16, <1>17, <2>1 DEF updateQueueState
<1>19. a' = a /\ Assign(w)' = o /\ AppendState(s)' = a
  BY <1>14, <1>17 DEF Assign, AppendState, qState
<1>20. Sound(w)' /\ Settled(w)' /\ (Follows(s) => Follows(s)') /\ LogReady'
  <2>1. /\ DiskOK' /\ Recoverable' /\ Durable' = Durable /\ Rec' = Rec /\ NoneLost
        /\ \A x : Stored(x) => KeptFor(x)
    BY <1>1, <1>4, DiskSame
  <2>2. Sound(w)'
    <3>1. StrandedKept(w)
      BY <1>4, <1>14 DEF StrandedKept, Sound, Handles, Exists, disk
    <3>2. KeptFor(w.state)
      BY <1>14, <1>16, <2>1
    <3>. QED  BY <1>14, <2>1, <3>1, <3>2, SoundKept
  <2>3. Settled(w)'
    BY <1>4, <1>9, <1>11, <1>14 DEF Settled, Stranded
  <2>4. Follows(s) => Follows(s)'
    BY <1>1, <1>14, <1>15, <1>16, <2>1, FollowsKept DEF Recoverable
  <2>5. LogReady'
    BY <1>4, <1>10 DEF LogReady, disk
  <2>. QED  BY <2>2, <2>3, <2>4, <2>5
<1>21. CASE logged = TRUE /\ job' = <<PeekStep>> /\ ~Expiring
  <2>1. todo' = <<a, o>> \o <<>>
    <3>1. <<a>> \o <<o>> = <<a, o>>
      BY JoinOneOne
    <3>2. <<a, o>> \o <<>> = <<a, o>>
      OBVIOUS
    <3>. QED  BY <1>18, <1>21, <3>1, <3>2 DEF Optional
  <2>2. JobFits(w)'
    <3>1. job'[1] = PeekStep
      BY <1>21
    <3>2. job'[1].step = "peek"
      BY <3>1, StepFields
    <3>. QED  BY <3>2 DEF JobFits
  <2>3. Durable = Messages(st)
    BY <1>1, <1>8, <1>10, <1>11, <1>15, <1>21, LoggedIsDurable
  <2>4. Allowed(Durable, Messages(s))
    BY <1>16, <2>3 DEF Allowed
  <2>5. Durable' = Durable /\ Messages(s)' = Messages(s)
    <3>1. Durable' = Durable
      BY <1>1, <1>4, DiskSame
    <3>2. Messages(s)' = Messages(s)
      BY <1>4 DEF Messages, Exists, disk
    <3>. QED  BY <3>1, <3>2
  <2>6. Allowed(Durable, Messages(s))'
    BY <2>4, <2>5 DEF Allowed, Message
  <2>7. Messages(w.state)' = Messages(s)'
    BY <1>14
  <2>8. CommittingTo(w, <<>>)'
    <3>1. (<<AppendState(w.state), Assign(w)>> \o <<>>)' = todo'
      <4>1. AppendState(w.state)' = a
        BY <1>14, <1>19
      <4>. QED  BY <1>19, <2>1, <4>1
    <3>2. ReadForm(w, <<>>)'
      BY DEF ReadForm
    <3>3. ("lose" \notin Range(faults) => Allowed(Durable, Messages(w.state)))'
      BY <1>14, <2>6
    <3>4. mem'.open
      BY <1>4, <1>7
    <3>. QED  BY <1>14, <1>20, <2>2, <3>1, <3>2, <3>3, <3>4 DEF CommittingTo
  <2>9. Phase'
    BY <2>8 DEF Committing, Phase
  <2>10. JobOK'
    BY <1>21, Zenon DEF JobOK
  <2>. QED  BY <1>4, <2>9, <2>10, PlanNext
<1>22. CASE /\ logged = FALSE
            /\ "EXPIRE" \in Ops
            /\ \E n \in Nat : job' = <<ExpireStep(n), CloseStep>>
  <2>1. todo' = <<o>> \o <<>>
    <3>1. <<>> \o <<o>> = <<o>> /\ <<o>> \o <<>> = <<o>>
      OBVIOUS
    <3>. QED  BY <1>18, <1>22, <3>1 DEF Optional
  <2>2. Expiring'
    BY <1>22, Zenon DEF Expiring
  <2>3. JobFits(w)'
    <3>1. PICK n : job' = <<ExpireStep(n), CloseStep>>
      BY <1>22
    <3>2. job'[1] = ExpireStep(n)
      BY <3>1
    <3>3. job'[1].step = "expire"
      BY <3>2, StepFields
    <3>. QED  BY <3>3 DEF JobFits
  <2>4. Follows(s)
    BY <1>7, <1>11, <1>14, <1>22
  <2>5. Quiet(w)'
    <3>1. Follows(w.state)'
      BY <1>14, <1>20, <2>4
    <3>. QED  BY <1>20, <3>1 DEF Quiet, MemOK
  <2>6. LandingOn(w, <<>>)'
    <3>1. (<<Assign(w)>> \o <<>>)' = todo'
      BY <1>19, <2>1
    <3>2. ReadForm(w, <<>>)'
      BY DEF ReadForm
    <3>. QED  BY <1>14, <2>2, <2>3, <2>5, <3>1, <3>2 DEF LandingOn
  <2>7. Phase'
    BY <2>6 DEF Landing, Phase
  <2>8. JobOK'
    BY <2>2 DEF JobOK
  <2>. QED  BY <1>4, <2>7, <2>8, PlanNext
<1>. QED  BY <1>6, <1>21, <1>22

(* The steps at which the log knows of all deletions. *)
LEMMA NotExpiring ==
    ASSUME job # <<>>, Head(job).step \notin {"expire", "peek", "expired", "delete"}
    PROVE  ~Expiring
<1>1. SUFFICES ASSUME Expiring
               PROVE  FALSE
  OBVIOUS
<1>2. \E n \in Nat : \/ Head(job) = ExpireStep(n) \/ Head(job) = PeekStep
                     \/ Head(job) = ExpiredStep(n) \/ Head(job) = DeleteStep(FALSE)
  BY <1>1, ExpiringJob, Zenon DEF JobIs
<1>3. PICK h : h = Head(job)
  OBVIOUS
<1>4. h.step \in {"expire", "peek", "expired", "delete"}
  <2>1. DeleteStep(FALSE).step = "delete"
    BY DEF DeleteStep
  <2>2. PICK n \in Nat : \/ h = ExpireStep(n) \/ h = PeekStep
                        \/ h = ExpiredStep(n) \/ h = DeleteStep(FALSE)
    BY <1>2, <1>3
  <2>3. /\ ExpireStep(n).step = "expire" /\ ExpiredStep(n).step = "expired"
        /\ PeekStep.step = "peek"
    BY StepFields
  <2>. QED  BY <2>1, <2>2, <2>3
<1>. QED  BY <1>3, <1>4

(* AckMsg: the acknowledged message is deleted if it is the head. *)
LEMMA AckPlan ==
    ASSUME IInv, Resting, AckMsg
    PROVE  IInv' /\ Allows
<1>1. JobOK
  BY DEF IInv, Typed
<1>2. job # <<>> /\ Head(job).step = "ack"
  BY DEF AckMsg, NextStep
<1>3. \E m \in 1..MaxSends : JobIs(AckStep(m), <<>>)
  BY <1>1, <1>2, JobShape, StepFields, Zenon DEF JobIs
<1>4. Tail(job) = <<>> /\ job[1] = Head(job)
  BY <1>3 DEF JobIs
<1>5. PICK next : next = Optional(mem.open /\ mem.tip # <<>> /\ mem.tip[1].id = Head(job).id,
                                  <<DeleteStep(TRUE), PeekStep>>)
  OBVIOUS
<1>6. /\ todo' = <<>> /\ job' = next \o <<>>
      /\ UNCHANGED <<disk, mem, qstate, lastId, deleted, faults, errors>>
  BY <1>4, <1>5 DEF AckMsg, Plan
<1>7. \/ job' = <<>>
      \/ job' = <<DeleteStep(TRUE), PeekStep>> /\ mem.open /\ mem.tip # <<>>
  <2>1. <<>> \o <<>> = <<>> /\ <<DeleteStep(TRUE), PeekStep>> \o <<>> = <<DeleteStep(TRUE), PeekStep>>
    OBVIOUS
  <2>. QED  BY <1>5, <1>6, <2>1 DEF Optional
<1>8. JobOK'
  BY <1>7, Zenon DEF JobOK
<1>9. mem.open => Quiet(mem)' /\ Logged(mem.state)' /\ Peeked(mem)
  <2>1. ASSUME mem.open
        PROVE  Quiet(mem)' /\ Logged(mem.state)' /\ Peeked(mem)
    <3>1. UNCHANGED <<disk, mem, faults>>
      BY <1>6
    <3>2. ~Expiring
      BY <1>2, NotExpiring
    <3>3. Peeked(mem)
      BY <1>2, <1>4, <2>1 DEF Resting
    <3>. QED  BY <2>1, <3>1, <3>2, <3>3, MemPlanned
  <2>. QED  BY <2>1
<1>10. mem' = mem /\ (mem.open => (Peeked(mem)' <=> Peeked(mem)))
  BY <1>6 DEF Peeked
<1>11. CASE job' = <<>>
  <2>1. Resting'
    BY <1>6, <1>9, <1>10, <1>11 DEF Resting
  <2>. QED  BY <1>6, <1>8, <2>1, PlanNext DEF Phase
<1>12. CASE job' = <<DeleteStep(TRUE), PeekStep>> /\ mem.open /\ mem.tip # <<>>
  <2>1. job' # <<>> /\ job'[1] = DeleteStep(TRUE)
    BY <1>12
  <2>2. job'[1].step = "delete" /\ job'[1].log = TRUE
    <3>1. DeleteStep(TRUE).step = "delete" /\ DeleteStep(TRUE).log = TRUE
      BY DEF DeleteStep
    <3>. QED  BY <2>1, <3>1
  <2>3. job' \notin {<<CloseStep, RmdirStep>>, <<RmdirStep>>}
    <3>1. ASSUME job' = <<CloseStep, RmdirStep>> \/ job' = <<RmdirStep>>
          PROVE  FALSE
      <4>1. \A x, a, b : (x = <<a, b>> \/ x = <<a>>) => x[1] = a
        OBVIOUS
      <4>2. job'[1] = CloseStep \/ job'[1] = RmdirStep
        BY <3>1, <4>1, Zenon
      <4>. QED  BY <2>2, <4>2, StepFields
    <3>. QED  BY <3>1
  <2>4. mem'.open /\ mem'.tip # <<>> /\ Peeked(mem)' /\ Quiet(mem)' /\ Logged(mem.state)'
    BY <1>9, <1>10, <1>12
  <2>5. Resting'
    BY <1>6, <2>1, <2>2, <2>3, <2>4 DEF Resting
  <2>. QED  BY <1>6, <1>8, <2>5, PlanNext DEF Phase
<1>. QED  BY <1>7, <1>11, <1>12

(* A planned job that is not the removal of the directory. *)
LEMMA NoRemoval ==
    ASSUME job'[1].step \notin {"close", "rmdir"}
    PROVE  job' \notin {<<CloseStep, RmdirStep>>, <<RmdirStep>>}
<1>1. ASSUME job' = <<CloseStep, RmdirStep>> \/ job' = <<RmdirStep>>
      PROVE  FALSE
  <2>1. \A x, a, b : (x = <<a, b>> \/ x = <<a>>) => x[1] = a
    OBVIOUS
  <2>2. job'[1] = CloseStep \/ job'[1] = RmdirStep
    BY <1>1, <2>1, Zenon
  <2>. QED  BY <2>2, StepFields
<1>. QED  BY <1>1

(* ExpireMsgs: the message that may have expired is peeked. *)
LEMMA ExpirePlan ==
    ASSUME IInv, Resting, ExpireMsgs
    PROVE  IInv' /\ Allows
<1>1. JobOK
  BY DEF IInv, Typed
<1>2. job # <<>> /\ Head(job).step = "expire"
  BY DEF ExpireMsgs, NextStep
<1>3. "EXPIRE" \in Ops /\ \E n \in Nat : JobIs(ExpireStep(n), <<CloseStep>>)
  BY <1>1, <1>2, JobShape, StepFields, Zenon DEF JobIs
<1>4. PICK n \in Nat : JobIs(ExpireStep(n), <<CloseStep>>)
  BY <1>3
<1>5. Tail(job) = <<CloseStep>> /\ job[1] = Head(job) /\ Head(job).n = n
  BY <1>4, StepFields DEF JobIs
<1>6. /\ todo' = <<>> /\ job' = <<PeekStep, ExpiredStep(n)>> \o <<CloseStep>>
      /\ UNCHANGED <<disk, mem, qstate, lastId, deleted, faults, errors>>
  BY <1>5 DEF ExpireMsgs, Plan, ExpiredStep
<1>7. job' = <<PeekStep, ExpiredStep(n), CloseStep>>
  BY <1>6, JoinTwoOne
<1>8. Expiring' /\ JobOK'
  <2>1. Expiring'
    BY <1>3, <1>7, Zenon DEF Expiring
  <2>. QED  BY <2>1 DEF JobOK
<1>9. mem.open
  BY <1>2, <1>5 DEF Resting
<1>10. Quiet(mem)' /\ mem'.open
  <2>1. UNCHANGED <<disk, mem, faults>>
    BY <1>6
  <2>. QED  BY <1>6, <1>9, <2>1, MemPlanned
<1>11. job' # <<>> /\ job'[1].step = "peek"
  <2>1. job' # <<>> /\ job'[1] = PeekStep
    BY <1>7
  <2>. QED  BY <2>1, StepFields
<1>12. job' \notin {<<CloseStep, RmdirStep>>, <<RmdirStep>>}
  BY <1>11, NoRemoval
<1>13. Resting'
  BY <1>6, <1>8, <1>10, <1>11, <1>12 DEF Resting
<1>. QED  BY <1>6, <1>8, <1>13, PlanNext DEF Phase

(* ExpiredMsg: the next message is deleted, or the deletions are logged. *)
LEMMA ExpiredPlan ==
    ASSUME IInv, Resting, ExpiredMsg
    PROVE  IInv' /\ Allows
<1>1. JobOK
  BY DEF IInv, Typed
<1>2. job # <<>> /\ Head(job).step = "expired"
  BY DEF ExpiredMsg, NextStep
<1>3. "EXPIRE" \in Ops /\ \E n \in Nat : JobIs(ExpiredStep(n), <<CloseStep>>)
  BY <1>1, <1>2, JobShape, StepFields, Zenon DEF JobIs
<1>4. PICK n \in Nat : JobIs(ExpiredStep(n), <<CloseStep>>)
  BY <1>3
<1>5. Tail(job) = <<CloseStep>> /\ job[1] = Head(job) /\ Head(job).n = n
  BY <1>4, StepFields DEF JobIs
<1>6. mem.open /\ Peeked(mem)
  <2>1. mem.open
    BY <1>2, <1>5 DEF Resting
  <2>. QED  BY <1>2, <1>5, <2>1 DEF Resting
<1>7. CASE n > 0 /\ mem.tip # <<>> /\ ~mem.tip[1].quota
  <2>1. /\ todo' = <<>> /\ job' = <<DeleteStep(FALSE), ExpireStep(n - 1)>> \o <<CloseStep>>
        /\ UNCHANGED <<disk, mem, qstate, lastId, deleted, faults, errors>>
    BY <1>5, <1>7 DEF ExpiredMsg, Plan, ExpireStep
  <2>2. job' = <<DeleteStep(FALSE), ExpireStep(n - 1), CloseStep>>
    BY <2>1, JoinTwoOne
  <2>3. n - 1 \in Nat
    BY <1>7
  <2>4. Expiring'
    BY <1>3, <2>2, <2>3, Zenon DEF Expiring
  <2>5. JobOK'
    BY <2>4 DEF JobOK
  <2>6. job' # <<>> /\ job'[1].step = "delete"
    <3>1. job' # <<>> /\ job'[1] = DeleteStep(FALSE)
      BY <2>2
    <3>. QED  BY <3>1 DEF DeleteStep
  <2>7. job' \notin {<<CloseStep, RmdirStep>>, <<RmdirStep>>}
    BY <2>6, NoRemoval
  <2>8. Quiet(mem)'
    <3>1. UNCHANGED <<disk, mem, faults>>
      BY <2>1
    <3>. QED  BY <1>6, <3>1, MemPlanned
  <2>9. mem'.open /\ mem'.tip # <<>> /\ ~mem'.tip[1].quota /\ Peeked(mem)'
    BY <1>6, <1>7, <2>1 DEF Peeked
  <2>10. Resting'
    BY <2>1, <2>4, <2>6, <2>7, <2>8, <2>9 DEF Resting
  <2>. QED  BY <2>1, <2>5, <2>10, PlanNext DEF Phase
<1>8. CASE ~(n > 0 /\ mem.tip # <<>> /\ ~mem.tip[1].quota)
  <2>1. /\ todo' = logQueueState /\ job' = <<>> \o <<CloseStep>>
        /\ UNCHANGED <<disk, mem, qstate, lastId, deleted, faults, errors>>
    BY <1>5, <1>8 DEF ExpiredMsg, Plan
  <2>2. job' = <<CloseStep>>
    <3>1. <<>> \o <<CloseStep>> = <<CloseStep>>
      OBVIOUS
    <3>. QED  BY <2>1, <3>1
  <2>3. JobOK'
    BY <2>2, Zenon DEF JobOK
  <2>4. Quiet(mem) /\ Quiet(mem)' /\ (Logged(mem.state)' <=> Logged(mem.state)) /\ mem'.open
    <3>1. UNCHANGED <<disk, mem, faults>>
      BY <2>1
    <3>2. Quiet(mem)
      BY <1>6 DEF Resting
    <3>. QED  BY <1>6, <2>1, <3>1, <3>2, MemPlanned
  <2>5. CASE mem.readHandle # 0
    <3>1. todo' = <<AppendState(mem.state)>>
      BY <2>1, <2>5 DEF logQueueState, Optional
    <3>2. todo' = <<AppendState(mem.state)>>'
      BY <2>1, <3>1 DEF AppendState
    <3>3. Logging'
      BY <1>3, <2>1, <2>2, <2>4, <2>5, <3>2 DEF Logging, CloseStep
    <3>. QED  BY <2>1, <2>3, <3>3, PlanNext DEF Phase
  <2>6. CASE mem.readHandle = 0
    <3>1. todo' = <<>>
      BY <2>1, <2>6 DEF logQueueState, Optional
    <3>2. Unwritten(mem)
      <4>1. ~Sound(mem)
        BY <2>6, StoredHolds DEF Sound, Handles, JournalId
      <4>. QED  BY <2>4, <4>1 DEF Quiet, MemOK
    <3>3. Logged(mem.state)
      <4>1. mem.state = newMsgQueueState(mem.state.rj) /\ log = NoLines /\ bak = NoLines
        BY <3>2 DEF Unwritten, Opened
      <4>2. mem.state.rpos = 0
        BY <4>1 DEF newMsgQueueState
      <4>3. Rec = <<>>
        BY <4>1 DEF Rec, StateFile, Recorded, NoLines
      <4>. QED  BY <4>2, <4>3 DEF Logged, From
    <3>4. job' # <<>> /\ job'[1].step = "close"
      <4>1. job' # <<>> /\ job'[1] = CloseStep
        BY <2>2
      <4>. QED  BY <4>1, StepFields
    <3>5. job' \notin {<<CloseStep, RmdirStep>>, <<RmdirStep>>}
      <4>1. <<CloseStep>> # <<CloseStep, RmdirStep>> /\ CloseStep # RmdirStep
        BY DEF CloseStep, RmdirStep
      <4>. QED  BY <2>2, <4>1
    <3>6. Resting'
      BY <2>4, <3>1, <3>3, <3>4, <3>5 DEF Resting
    <3>. QED  BY <2>1, <2>3, <3>6, PlanNext DEF Phase
  <2>. QED  BY <2>5, <2>6
<1>. QED  BY <1>7, <1>8

(* The queue is closed, as it is when the log knows of all deletions. *)
LEMMA Closes ==
    ASSUME IInv, Resting, UNCHANGED <<disk, mem, qstate, lastId, deleted, faults, errors>>,
           todo' = <<Assign(Closed)>>, ~Expiring, JobOK',
           job' # <<>> => job'[1].step \in {"ack", "rmdir"},
           job' = <<RmdirStep>> => deleted
    PROVE  IInv' /\ Allows
<1>1. Assign(Closed) = [do |-> "assign", mem |-> Closed, qstate |-> qstate]
  BY DEF Assign, Closed
<1>2. ASSUME mem.open
      PROVE  Quiet(mem)' /\ Logged(mem.state)'
  BY <1>2, MemPlanned
<1>3. todo' = <<[do |-> "assign", mem |-> Closed, qstate |-> qstate']>>
  BY <1>1
<1>4. Closing'
  BY <1>2, <1>3 DEF Closing, Closed, RmdirStep
<1>. QED  BY <1>4, PlanNext DEF Phase

(* Close. *)
LEMMA ClosePlan ==
    ASSUME IInv, Resting, Close
    PROVE  IInv' /\ Allows
<1>1. JobOK
  BY DEF IInv, Typed
<1>2. job # <<>> /\ Head(job).step \in {"close", "closeEmpty", "closeUnstored"}
  BY DEF Close
<1>3. ~Expiring
  BY <1>2, NotExpiring
<1>4. \/ JobIs(CloseStep, <<>>)
      \/ JobIs(CloseStep, <<RmdirStep>>) /\ job = <<CloseStep, RmdirStep>>
      \/ \E m \in 1..MaxSends : JobIs(CloseEmptyStep, <<AckStep(m)>>)
      \/ JobIs(CloseEmptyStep, <<>>)
      \/ "EXPIRE" \in Ops /\ \E n \in Nat : JobIs(CloseUnstoredStep, <<ExpireStep(n), CloseStep>>)
  <2>1. CASE Head(job).step = "close"
    <3>1. \/ JobIs(CloseStep, <<>>)
          \/ JobIs(CloseStep, <<RmdirStep>>) /\ job = <<CloseStep, RmdirStep>>
      <4>1. \A first, rest : JobIs(first, rest) => first.step = "close"
        BY <2>1 DEF JobIs
      <4>. HIDE DEF JobIs
      <4>. QED  BY <1>1, <1>2, <4>1, JobShape, StepFields
    <3>. QED  BY <3>1
  <2>2. CASE Head(job).step = "closeEmpty"
    <3>1. (\E m \in 1..MaxSends : JobIs(CloseEmptyStep, <<AckStep(m)>>))
          \/ JobIs(CloseEmptyStep, <<>>)
      <4>1. \A first, rest : JobIs(first, rest) => first.step = "closeEmpty"
        BY <2>2 DEF JobIs
      <4>. HIDE DEF JobIs
      <4>. QED  BY <1>1, <1>2, <4>1, JobShape, StepFields
    <3>. QED  BY <3>1
  <2>3. CASE Head(job).step = "closeUnstored"
    <3>1. "EXPIRE" \in Ops /\ \E n \in Nat : JobIs(CloseUnstoredStep, <<ExpireStep(n), CloseStep>>)
      <4>1. \A first, rest : JobIs(first, rest) => first.step = "closeUnstored"
        BY <2>3 DEF JobIs
      <4>. HIDE DEF JobIs
      <4>. QED  BY <1>1, <1>2, <4>1, JobShape, StepFields
    <3>. QED  BY <3>1
  <2>. QED  BY <1>2, <2>1, <2>2, <2>3
<1>5. ASSUME mem.open, UNCHANGED <<disk, mem, faults>>
      PROVE  Quiet(mem)' /\ Logged(mem.state)' /\ mem'.open
  BY <1>3, <1>5, MemPlanned
<1>6. CASE JobIs(CloseStep, <<>>)
  <2>1. Head(job).step = "close" /\ Tail(job) = <<>>
    BY <1>6, StepFields DEF JobIs
  <2>2. /\ todo' = <<Assign(Closed)>> /\ job' = <<>> \o <<>>
        /\ UNCHANGED <<disk, mem, qstate, lastId, deleted, faults, errors>>
    BY <2>1 DEF Close, Plan
  <2>3. job' = <<>>
    BY <2>2
  <2>4. JobOK' /\ job' # <<RmdirStep>>
    BY <2>3 DEF JobOK
  <2>. QED  BY <1>3, <2>2, <2>3, <2>4, Closes
<1>7. CASE JobIs(CloseStep, <<RmdirStep>>) /\ job = <<CloseStep, RmdirStep>>
  <2>1. Head(job).step = "close" /\ Tail(job) = <<RmdirStep>>
    BY <1>7, StepFields DEF JobIs
  <2>2. /\ todo' = <<Assign(Closed)>> /\ job' = <<>> \o <<RmdirStep>>
        /\ UNCHANGED <<disk, mem, qstate, lastId, deleted, faults, errors>>
    BY <2>1 DEF Close, Plan
  <2>3. job' = <<RmdirStep>>
    <3>1. <<>> \o <<RmdirStep>> = <<RmdirStep>>
      OBVIOUS
    <3>. QED  BY <2>2, <3>1
  <2>4. JobOK'
    BY <2>3, Zenon DEF JobOK
  <2>5. job'[1].step = "rmdir"
    <3>1. job'[1] = RmdirStep
      BY <2>3
    <3>. QED  BY <3>1, StepFields
  <2>6. deleted
    BY <1>7 DEF Resting
  <2>. QED  BY <1>3, <2>2, <2>4, <2>5, <2>6, Closes
<1>8. CASE \/ \E m \in 1..MaxSends : JobIs(CloseEmptyStep, <<AckStep(m)>>)
           \/ JobIs(CloseEmptyStep, <<>>)
  <2>1. Head(job).step = "closeEmpty" /\ job[1] = Head(job)
    BY <1>8, StepFields DEF JobIs
  <2>2. /\ todo' = Optional(mem.tip = <<>>, <<Assign(Closed)>>) /\ job' = <<>> \o Tail(job)
        /\ UNCHANGED <<disk, mem, qstate, lastId, deleted, faults, errors>>
    BY <2>1 DEF Close, Plan
  <2>3. job' = Tail(job)
    BY <1>1, <1>2, <2>2, PlanJob
  <2>4. job' = <<>> \/ \E m \in 1..MaxSends : job' = <<AckStep(m)>>
    BY <1>8, <2>3 DEF JobIs
  <2>5. JobOK'
    BY <2>4, Zenon DEF JobOK
  <2>6. job' # <<>> => job'[1].step = "ack"
    <3>1. \A m : job' = <<AckStep(m)>> => job'[1] = AckStep(m)
      OBVIOUS
    <3>. QED  BY <2>4, <3>1, StepFields
  <2>7. job' \notin {<<CloseStep, RmdirStep>>, <<RmdirStep>>}
    <3>1. job' = <<>> \/ job'[1].step \notin {"close", "rmdir"}
      BY <2>6
    <3>. QED  BY <3>1, NoRemoval
  <2>8. mem.open /\ Peeked(mem)
    <3>1. mem.open
      BY <1>2, <2>1 DEF Resting
    <3>. QED  BY <1>2, <2>1, <3>1 DEF Resting
  <2>9. CASE mem.tip = <<>>
    <3>1. todo' = <<Assign(Closed)>>
      BY <2>2, <2>9 DEF Optional
    <3>. QED  BY <1>3, <2>2, <2>5, <2>6, <2>7, <3>1, Closes
  <2>10. CASE mem.tip # <<>>
    <3>1. todo' = <<>>
      BY <2>2, <2>10 DEF Optional
    <3>2. Peeked(mem)'
      BY <2>2, <2>8 DEF Peeked
    <3>3. Quiet(mem)' /\ Logged(mem.state)' /\ mem'.open
      BY <1>5, <2>2, <2>8
    <3>4. Phase'
      BY <2>6, <2>7, <3>1, <3>2, <3>3, RestsNext
    <3>. QED  BY <2>2, <2>5, <3>4, PlanNext
  <2>. QED  BY <2>9, <2>10
<1>9. CASE "EXPIRE" \in Ops /\ \E n \in Nat : JobIs(CloseUnstoredStep, <<ExpireStep(n), CloseStep>>)
  <2>1. Head(job).step = "closeUnstored" /\ job[1] = Head(job)
    BY <1>9, StepFields DEF JobIs
  <2>2. mem.open
    BY <1>2, <2>1 DEF Resting
  <2>3. CASE qstate[1].hasStored
    <3>1. /\ todo' = <<>> /\ job' = <<>> \o Tail(job)
          /\ UNCHANGED <<disk, mem, qstate, lastId, deleted, faults, errors>>
      BY <2>1, <2>3 DEF Close, Plan
    <3>2. job' = Tail(job)
      BY <1>1, <1>2, <3>1, PlanJob
    <3>3. PICK n \in Nat : job' = <<ExpireStep(n), CloseStep>>
      BY <1>9, <3>2 DEF JobIs
    <3>4. Expiring' /\ JobOK'
      <4>1. Expiring'
        BY <1>9, <3>3, Zenon DEF Expiring
      <4>. QED  BY <4>1 DEF JobOK
    <3>5. job' # <<>> /\ job'[1].step = "expire"
      <4>1. job' # <<>> /\ job'[1] = ExpireStep(n)
        BY <3>3
      <4>. QED  BY <4>1, StepFields
    <3>6. job' \notin {<<CloseStep, RmdirStep>>, <<RmdirStep>>}
      BY <3>5, NoRemoval
    <3>7. Quiet(mem)' /\ Logged(mem.state)' /\ mem'.open
      BY <1>5, <2>2, <3>1
    <3>8. Resting'
      BY <3>1, <3>5, <3>6, <3>7 DEF Resting
    <3>. QED  BY <3>1, <3>4, <3>8, PlanNext DEF Phase
  <2>4. CASE ~qstate[1].hasStored
    <3>1. /\ todo' = <<Assign(Closed)>> /\ job' = <<>>
          /\ UNCHANGED <<disk, mem, qstate, lastId, deleted, faults, errors>>
      BY <2>1, <2>4 DEF Close
    <3>2. JobOK' /\ job' # <<RmdirStep>>
      BY <3>1 DEF JobOK
    <3>. QED  BY <1>3, <3>1, <3>2, Closes
  <2>. QED  BY <2>3, <2>4
<1>. QED  BY <1>4, <1>6, <1>7, <1>8, <1>9

(* RemoveQueueDirectory: of a closed queue. *)
LEMMA RemovePlan ==
    ASSUME IInv, Resting, RemoveQueueDirectory
    PROVE  IInv' /\ Allows
<1>1. JobOK
  BY DEF IInv, Typed
<1>2. job # <<>> /\ Head(job).step = "rmdir"
  BY DEF RemoveQueueDirectory, NextStep
<1>3. JobIs(RmdirStep, <<>>) /\ job = <<RmdirStep>>
  BY <1>1, <1>2, JobShape, StepFields, Zenon DEF JobIs
<1>4. Tail(job) = <<>> /\ job[1].step = "rmdir"
  BY <1>3, StepFields DEF JobIs
<1>5. /\ todo' = <<RemoveDirectory>> /\ job' = <<>> \o <<>>
      /\ UNCHANGED <<disk, mem, qstate, lastId, deleted, faults, errors>>
  BY <1>4 DEF RemoveQueueDirectory, Plan
<1>6. job' = <<>>
  BY <1>5
<1>7. ~mem.open /\ deleted
  BY <1>2, <1>3, <1>4 DEF Resting
<1>8. Clearing'
  BY <1>5, <1>6, <1>7 DEF Clearing, RemoveDirectory
<1>9. JobOK'
  BY <1>6 DEF JobOK
<1>. QED  BY <1>5, <1>8, <1>9, PlanNext DEF Phase

-----------------------------------------------------------------------------
(* Crashes and failed appends *)

(* The next effect appends a message that fits in its journal. *)
PutNext ==
    \E h, pos, msg : /\ PuttingAt(h, pos, msg)
                     /\ todo = PutForm(mem, h, pos, msg)
                     /\ Len(files[h]) = pos

(* The next effect logs a state that the server may find. *)
LineNext(st) ==
    /\ dir
    /\ log.newline
    /\ Stored(st)
    /\ "lose" \notin Range(faults) => Allowed(Durable, Messages(st))

(* A list of effects that begins with this one is left. *)
BeginsWith(e) ==
    /\ todo # <<>>
    /\ Head(todo) = e
    /\ e.do = "put" => WritePhase /\ PutNext
    /\ e.do = "line" => LineNext(e.st)

Busy == \E e : BeginsWith(e)

(* Any list of one to four effects. *)
LEMMA FirstOf ==
    /\ \A a : <<a>> # <<>> /\ Head(<<a>>) = a
    /\ \A a, b : <<a, b>> # <<>> /\ Head(<<a, b>>) = a
    /\ \A a, b, c : <<a, b, c>> # <<>> /\ Head(<<a, b, c>>) = a
    /\ \A a, b, c, d : <<a, b, c, d>> # <<>> /\ Head(<<a, b, c, d>>) = a
    OBVIOUS

(* An effect of which a crash leaves all or nothing. *)
LEMMA BusyWhole ==
    ASSUME NEW e, todo # <<>>, Head(todo) = e, e.do \notin {"put", "line"}
    PROVE  Busy
    BY DEF Busy, BeginsWith

(* A line that is appended to the log. *)
LEMMA BusyLine ==
    ASSUME NEW st, todo # <<>>, Head(todo) = AppendState(st), LineNext(st)
    PROVE  Busy
<1>1. AppendState(st).do = "line" /\ AppendState(st).st = st
  BY EffectFields
<1>2. BeginsWith(AppendState(st))
  BY <1>1 DEF BeginsWith
<1>. QED  BY <1>2 DEF Busy

(* The opening of a queue. *)
LEMMA OpenBusy ==
    ASSUME IInv, OpenPhase
    PROVE  Busy
<1>1. DiskOK /\ FilesOK /\ Recoverable
  BY DEF IInv, Typed, DiskOK
<1>2. CASE Opening
  <2>1. LogReady /\ OpenForm(todo)
    BY <1>2 DEF Opening
  <2>2. CASE FixForm(todo)
    <3>1. PICK j, pos : todo # <<>> /\ Head(todo) = FixFileSize(j, pos)
      BY <2>2, FirstOf DEF FixForm, FixOf
    <3>. QED  BY <3>1, EffectFields, BusyWhole
  <2>3. CASE RecreateForm(todo)
    <3>1. PICK j : todo # <<>> /\ Head(todo) = CreateJournal(j)
      BY <2>3, FirstOf DEF RecreateForm, RecreateOf
    <3>. QED  BY <3>1, EffectFields, BusyWhole
  <2>4. CASE ReplaceForm(todo)
    <3>1. PICK j, a : ReplaceOf(j, a, todo)
      BY <2>4 DEF ReplaceForm
    <3>2. PICK new : new = newMsgQueueState(j)
      OBVIOUS
    <3>3. todo # <<>> /\ Head(todo) = AppendState(new) /\ j \in JournalId
          /\ Rec # <<>> /\ Rec[1].size = 0
      BY <3>1, <3>2, FirstOf DEF ReplaceOf
    <3>4. Stored(new) /\ Messages(new) = <<>> /\ Durable = <<>>
      BY <1>1, <3>2, <3>3, NewState, EmptyRecord
    <3>5. LineNext(new)
      BY <2>1, <3>4 DEF LineNext, LogReady, Allowed
    <3>. QED  BY <3>3, <3>5, BusyLine
  <2>. QED  BY <2>1, <2>2, <2>3, <2>4 DEF OpenForm
<1>3. CASE BackingUp
  <2>1. PICK k, s : BackingUpOf(k, s)
    BY <1>3 DEF BackingUp
  <2>2. s \in States /\ Stored(s) /\ Messages(s) = Durable /\ OpenForm(k) /\ dir
    BY <1>1, <2>1, BackedByState DEF BackingUpOf
  <2>3. PICK S : k \in Seq(S)
    BY <2>2, FormSeq
  <2>4. CASE todo = <<TempBackup, AppendState(s), TimedBackup>> \o k
    <3>1. todo # <<>> /\ Head(todo) = TempBackup
      BY <2>3, <2>4, ConsThree
    <3>. QED  BY <3>1, EffectFields, BusyWhole
  <2>5. CASE todo = <<AppendState(s), TimedBackup>> \o k /\ log = NoLines
    <3>1. todo # <<>> /\ Head(todo) = AppendState(s)
      BY <2>3, <2>5, ConsTwo
    <3>2. LineNext(s)
      BY <2>2, <2>5 DEF LineNext, NoLines, Allowed
    <3>. QED  BY <3>1, <3>2, BusyLine
  <2>6. CASE todo = <<TimedBackup>> \o k
    <3>1. todo # <<>> /\ Head(todo) = TimedBackup
      BY <2>3, <2>6, ConsOne
    <3>. QED  BY <3>1, EffectFields, BusyWhole
  <2>. QED  BY <2>1, <2>4, <2>5, <2>6 DEF BackingUpOf
<1>4. CASE Restoring
  <2>1. CASE \E k : todo = <<RestoreBackup>> \o k /\ (OpenForm(k) \/ RetireForm(k))
    <3>1. PICK k : todo = <<RestoreBackup>> \o k /\ (OpenForm(k) \/ RetireForm(k))
      BY <2>1
    <3>2. PICK S : k \in Seq(S)
      BY <3>1, FormSeq
    <3>3. todo # <<>> /\ Head(todo) = RestoreBackup
      BY <3>1, <3>2, ConsOne
    <3>. QED  BY <3>3, EffectFields, BusyWhole
  <2>2. CASE \E k, s : /\ todo = <<RestoreBackup>> \o (<<TempBackup, AppendState(s), TimedBackup>> \o k)
                       /\ BackedBy(k, s)
    <3>1. PICK k, s : /\ todo = <<RestoreBackup>> \o (<<TempBackup, AppendState(s), TimedBackup>> \o k)
                      /\ BackedBy(k, s)
      BY <2>2
    <3>2. OpenForm(k)
      BY <1>1, <3>1, BackedByState
    <3>3. PICK S : k \in Seq(S)
      BY <3>2, FormSeq
    <3>4. PICK a, b, c : a = TempBackup /\ b = AppendState(s) /\ c = TimedBackup
      OBVIOUS
    <3>5. <<a, b, c>> \o k \in Seq({a, b, c} \cup S)
      BY <3>3
    <3>6. todo # <<>> /\ Head(todo) = RestoreBackup
      BY <3>1, <3>4, <3>5, ConsOne
    <3>. QED  BY <3>6, EffectFields, BusyWhole
  <2>. QED  BY <1>4, <2>1, <2>2 DEF Restoring
<1>5. CASE Retiring
  <2>1. todo # <<>> /\ Head(todo) = RetireLog
    BY <1>5, FirstOf DEF Retiring, RetireForm, RetireOf
  <2>. QED  BY <2>1, EffectFields, BusyWhole
<1>6. CASE Replacing
  <2>1. PICK j : todo # <<>> /\ Head(todo) = CreateJournal(j)
    BY <1>6, FirstOf DEF Replacing, ReplacingBy
  <2>. QED  BY <2>1, EffectFields, BusyWhole
<1>7. CASE Removing
  <2>1. PICK a : todo # <<>> /\ Head(todo) = RemoveJournal(a)
    BY <1>7, FirstOf DEF Removing, RemovingTo
  <2>. QED  BY <2>1, EffectFields, BusyWhole
<1>. QED  BY <1>2, <1>3, <1>4, <1>5, <1>6, <1>7 DEF OpenPhase

(* Assigning a state or logging it first. *)
LEMMA LandBusy ==
    ASSUME IInv, Landing \/ Committing \/ Logging \/ Reading \/ Switching
    PROVE  Busy
<1>1. DiskOK /\ FilesOK /\ Recoverable
  BY DEF IInv, Typed, DiskOK
<1>2. ASSUME NEW mq, NEW rd, ReadForm(mq, rd)
      PROVE  \E S : rd \in Seq(S)
  <2>1. <<>> \in Seq({0}) /\ <<ReadTip(mq.state.rj, mq.state.rpos)>>
                               \in Seq({ReadTip(mq.state.rj, mq.state.rpos)})
    OBVIOUS
  <2>. QED  BY <1>2, <2>1 DEF ReadForm
<1>3. CASE Landing
  <2>1. PICK mq, rd : LandingOn(mq, rd)
    BY <1>3 DEF Landing
  <2>2. todo = <<Assign(mq)>> \o rd /\ ReadForm(mq, rd)
    BY <2>1 DEF LandingOn
  <2>3. PICK S : rd \in Seq(S)
    BY <1>2, <2>2
  <2>4. todo # <<>> /\ Head(todo) = Assign(mq)
    BY <2>2, <2>3, ConsOne
  <2>. QED  BY <2>4, EffectFields, BusyWhole
<1>4. CASE Committing
  <2>1. PICK mq, rd : CommittingTo(mq, rd)
    BY <1>4 DEF Committing
  <2>2. /\ todo = <<AppendState(mq.state), Assign(mq)>> \o rd /\ ReadForm(mq, rd)
        /\ LogReady /\ Sound(mq)
        /\ "lose" \notin Range(faults) => Allowed(Durable, Messages(mq.state))
    BY <2>1 DEF CommittingTo
  <2>3. PICK S : rd \in Seq(S)
    BY <1>2, <2>2
  <2>4. todo # <<>> /\ Head(todo) = AppendState(mq.state)
    BY <2>2, <2>3, ConsTwo
  <2>5. LineNext(mq.state)
    BY <2>2 DEF LineNext, LogReady, Sound
  <2>. QED  BY <2>4, <2>5, BusyLine
<1>5. CASE Logging
  <2>1. PICK mq : mq = mem
    OBVIOUS
  <2>2. /\ mq.open /\ todo = <<AppendState(mq.state)>> /\ "EXPIRE" \in Ops
        /\ MemOK(mq) /\ mq.readHandle # 0
    BY <1>5, <2>1 DEF Logging, Quiet
  <2>3. Sound(mq) /\ LogReady /\ Follows(mq.state)
    <3>1. ASSUME Unwritten(mq)
          PROVE  FALSE
      <4>1. PICK j : mq = Opened(newMsgQueueState(j), 0, 0)
        BY <3>1 DEF Unwritten
      <4>2. Opened(newMsgQueueState(j), 0, 0).readHandle = 0
        BY DEF Opened
      <4>. QED  BY <2>2, <4>1, <4>2
    <3>. QED  BY <2>2, <3>1 DEF MemOK
  <2>4. Allowed(Durable, Messages(mq.state))
    <3>1. Stored(mq.state) /\ Exists(mq.state.rj) /\ Exists(mq.state.wj)
      BY <2>3 DEF Sound, Handles
    <3>2. Without(Durable, mq.state.rpos - From(mq.state), Messages(mq.state))
      BY <1>1, <2>3, <3>1, FollowsSuffix
    <3>. QED  BY <2>2, <3>2, WithoutIsAllowed
  <2>5. LineNext(mq.state)
    BY <2>3, <2>4 DEF LineNext, LogReady, Sound
  <2>6. todo # <<>> /\ Head(todo) = AppendState(mq.state)
    BY <2>2, FirstOf
  <2>. QED  BY <2>5, <2>6, BusyLine
<1>6. CASE Reading
  <2>1. PICK j, pos : todo # <<>> /\ Head(todo) = ReadTip(j, pos)
    BY <1>6, FirstOf DEF Reading
  <2>. QED  BY <2>1, EffectFields, BusyWhole
<1>7. CASE Switching
  <2>1. PICK rd : SwitchingTo(rd)
    BY <1>7 DEF Switching
  <2>2. PICK S : rd \in Seq(S)
    BY <1>2, <2>1 DEF SwitchingTo
  <2>3. PICK a, b, c, d : /\ a = Assign(Moved) /\ b = RemoveJournal(mem.state.rj)
                          /\ c = AppendState(Switched(mem.state)) /\ d = Assign(Entered)
    OBVIOUS
  <2>4. todo = <<a, b, c, d>> \o rd \/ todo = <<b, c, d>> \o rd
    BY <2>1, <2>3 DEF SwitchingTo
  <2>5. todo # <<>> /\ (Head(todo) = a \/ Head(todo) = b)
    BY <2>2, <2>4, ConsFour, ConsThree
  <2>. QED  BY <2>3, <2>5, EffectFields, BusyWhole
<1>. QED  BY <1>3, <1>4, <1>5, <1>6, <1>7

(* Writing a message. *)
LEMMA WriteBusy ==
    ASSUME IInv, WritePhase
    PROVE  Busy
<1>1. CASE Starting
  <2>1. PICK msg : StartingWith(msg)
    BY <1>1 DEF Starting
  <2>2. PICK mq : mq = [mem EXCEPT !.readHandle = mem.state.rj]
    OBVIOUS
  <2>3. PICK j, put : j = mem.state.rj
                      /\ put = <<FixFileSize(j, 0)>> \o PutForm(mq, j, 0, msg)
    OBVIOUS
  <2>4. PICK S : put \in Seq(S)
    BY <2>3, PutSeq
  <2>5. \/ todo = <<Mkdir, CreateJournal(j), Assign(mq)>> \o put
        \/ todo = <<CreateJournal(j), Assign(mq)>> \o put
        \/ todo = <<Assign(mq)>> \o put
    BY <2>1, <2>2, <2>3 DEF StartingWith
  <2>6. todo # <<>> /\ Head(todo) \in {Mkdir, CreateJournal(j), Assign(mq)}
    BY <2>4, <2>5, ConsOne, ConsTwo, ConsThree
  <2>. QED  BY <2>6, EffectFields, BusyWhole
<1>2. CASE Extending
  <2>1. PICK j, msg : ExtendingWith(j, msg)
    BY <1>2 DEF Extending
  <2>2. PICK mq : mq = [mem EXCEPT !.writeHandle = j]
    OBVIOUS
  <2>3. PICK put : put = <<FixFileSize(j, 0)>> \o PutForm(mq, j, 0, msg)
    OBVIOUS
  <2>4. PICK S : put \in Seq(S)
    BY <2>3, PutSeq
  <2>5. \/ todo = <<CreateJournal(j), Assign(mq)>> \o put
        \/ todo = <<Assign(mq)>> \o put
    BY <2>1, <2>2, <2>3 DEF ExtendingWith
  <2>6. todo # <<>> /\ Head(todo) \in {CreateJournal(j), Assign(mq)}
    BY <2>4, <2>5, ConsOne, ConsTwo
  <2>. QED  BY <2>6, EffectFields, BusyWhole
<1>3. CASE Putting
  <2>1. PICK h, pos, msg : PuttingAt(h, pos, msg)
    BY <1>3 DEF Putting
  <2>2. PICK put : put = PutForm(mem, h, pos, msg)
    OBVIOUS
  <2>3. PICK a, b, c : put = <<a, b, c>> /\ a = PutMsg(h, msg)
    BY <2>2 DEF PutForm
  <2>4. CASE todo = <<FixFileSize(h, pos)>> \o put
    <3>1. put \in Seq({a, b, c})
      BY <2>3
    <3>2. todo # <<>> /\ Head(todo) = FixFileSize(h, pos)
      BY <2>4, <3>1, ConsOne
    <3>. QED  BY <3>2, EffectFields, BusyWhole
  <2>5. CASE todo = put /\ Len(files[h]) = pos
    <3>1. todo # <<>> /\ Head(todo) = a
      BY <2>3, <2>5, FirstOf
    <3>2. PutNext
      BY <2>1, <2>2, <2>5 DEF PutNext
    <3>3. a.do = "put"
      BY <2>3, EffectFields
    <3>4. BeginsWith(a)
      BY <3>1, <3>2, <3>3 DEF BeginsWith
    <3>. QED  BY <3>4 DEF Busy
  <2>. QED  BY <2>1, <2>2, <2>4, <2>5 DEF PuttingAt
<1>4. CASE Refusing
  <2>1. PICK j, pos : todo # <<>> /\ Head(todo) = FixFileSize(j, pos)
    BY <1>4 DEF Refusing
  <2>. QED  BY <2>1, EffectFields, BusyWhole
<1>. QED  BY <1>1, <1>2, <1>3, <1>4 DEF WritePhase

(* Whatever the phase, if not between two steps. *)
LEMMA PhaseBusy ==
    ASSUME IInv, ~Resting
    PROVE  Busy
<1>1. CASE OpenPhase
  BY <1>1, OpenBusy
<1>2. CASE Landing \/ Committing \/ Logging \/ Reading \/ Switching
  BY <1>2, LandBusy
<1>3. CASE WritePhase
  BY <1>3, WriteBusy
<1>4. CASE Closing
  <2>1. PICK e : e = [do |-> "assign", mem |-> Closed, qstate |-> qstate]
    OBVIOUS
  <2>2. todo # <<>> /\ Head(todo) = e /\ e.do = "assign"
    BY <1>4, <2>1, FirstOf DEF Closing
  <2>. QED  BY <2>2, BusyWhole
<1>5. CASE Clearing
  <2>1. todo # <<>> /\ Head(todo) = RemoveDirectory
    BY <1>5, FirstOf DEF Clearing
  <2>. QED  BY <2>1, EffectFields, BusyWhole
<1>. QED  BY <1>1, <1>2, <1>3, <1>4, <1>5 DEF IInv, Phase

(* A step of an operation keeps the invariant. *)
LEMMA StepKeeps ==
    ASSUME IInv, RoomForTwo, Step
    PROVE  IInv' /\ (Allows \/ deleted')
<1>1. CASE todo # <<>>
  BY <1>1, EffectStep
<1>2. CASE todo = <<>>
  <2>1. Resting
    BY <1>2, PhaseBusy DEF Busy, BeginsWith
  <2>2. \/ Open \/ WriteMsg \/ PeekMsg \/ DeleteMsg \/ AckMsg
        \/ ExpireMsgs \/ ExpiredMsg \/ Close \/ RemoveQueueDirectory
    BY <1>2 DEF Step, DoMkdir, DoCreate, DoRemove, DoFixFileSize, DoPut, DoAppendState, DoRename,
                DoAssign, DoRead, DoThrow, DoRemoveDirectory, Doing
  <2>. QED  BY <2>1, <2>2, AlreadyOpen, OpenPlan, WritePlan, PeekPlan, DeletePlan, AckPlan,
               ExpirePlan, ExpiredPlan, ClosePlan, RemovePlan
<1>. QED  BY <1>1, <1>2

-----------------------------------------------------------------------------
(* An operation takes the lock *)

(* The job of an operation begins with a step that suits the queue. *)
BeginsJob ==
    /\ job' # <<>>
    /\ job'[1].step \in {"open", "close"} \/ (job'[1].step \in {"expire"} /\ mem.open)
    /\ job' # <<RmdirStep>>
    /\ job' = <<CloseStep, RmdirStep>> => deleted'

(* An operation that can begin keeps the invariant. *)
LEMMA BeginKeeps ==
    ASSUME IInv, Idle, UNCHANGED <<disk, mem, qstate, todo, faults, errors>>,
           lastId' \in Nat, JobOK', BeginsJob
    PROVE  IInv' /\ Allows
<1>1. Resting /\ ~Expiring
  <2>1. Resting
    BY PhaseBusy DEF Idle, Busy, BeginsWith
  <2>2. \A a, b, c : job # <<a, b>> /\ job # <<a, b, c>>
    BY DEF Idle
  <2>. QED  BY <2>1, <2>2 DEF Expiring
<1>2. DiskOK /\ Recoverable /\ Remembered
  BY DEF IInv, Typed
<1>3. /\ DiskOK' /\ Recoverable' /\ Durable' = Durable /\ NoneLost /\ Allows
      /\ \A st : Stored(st) => KeptFor(st)
  BY <1>2, DiskSame
<1>4. Remembered'
  <2>1. mem.open => KeptFor(mem.state)
    BY <1>2, <1>3 DEF Remembered
  <2>. QED  BY <1>2, <1>3, <2>1, RememberedKept
<1>5. Typed'
  BY <1>3 DEF IInv, Typed, NoStoreError
<1>6. mem'.open => Quiet(mem)' /\ Logged(mem.state)'
  <2>1. SUFFICES ASSUME mem.open
                 PROVE  Quiet(mem)' /\ Logged(mem.state)'
    OBVIOUS
  <2>. QED  BY <1>1, <2>1, MemPlanned
<1>7. Resting'
  BY <1>6 DEF BeginsJob, Resting, Idle
<1>. QED  BY <1>3, <1>4, <1>5, <1>7 DEF IInv, Phase

(* The first step of a job that opens the queue. *)
LEMMA OpensFirst ==
    ASSUME NEW f \in BOOLEAN,
           \/ \E a : job' = <<OpenStep(f), a>>
           \/ \E a, b : job' = <<OpenStep(f), a, b>>
           \/ \E a, b, c : job' = <<OpenStep(f), a, b, c>>
    PROVE  /\ job' # <<>> /\ job'[1].step = "open"
           /\ job' \notin {<<CloseStep, RmdirStep>>, <<RmdirStep>>}
<1>1. PICK e : e = OpenStep(f)
  OBVIOUS
<1>2. \A a, b, c : /\ <<e, a>> # <<>> /\ <<e, a, b>> # <<>> /\ <<e, a, b, c>> # <<>>
                  /\ <<e, a>>[1] = e /\ <<e, a, b>>[1] = e /\ <<e, a, b, c>>[1] = e
  OBVIOUS
<1>3. job' # <<>> /\ job'[1] = e
  BY <1>1, <1>2
<1>4. e.step = "open"
  BY <1>1 DEF OpenStep
<1>. QED  BY <1>3, <1>4, NoRemoval

(* Write. *)
LEMMA WriteKeeps ==
    ASSUME IInv, NEW m \in 1..MaxSends, Write(m)
    PROVE  IInv' /\ Allows
<1>1. /\ Idle /\ job' = <<OpenStep(TRUE), WriteStep(m)>> /\ lastId' = m
      /\ UNCHANGED <<disk, mem, qstate, todo, faults, errors, deleted>>
  BY DEF Write, Begin, WriteStep
<1>2. JobOK'
  BY <1>1, Zenon DEF JobOK
<1>3. /\ job' # <<>> /\ job'[1].step = "open"
      /\ job' \notin {<<CloseStep, RmdirStep>>, <<RmdirStep>>}
  BY <1>1, OpensFirst
<1>4. lastId' \in Nat
  BY <1>1, JournalAssumption
<1>. QED  BY <1>1, <1>2, <1>3, <1>4, BeginKeeps DEF BeginsJob

(* What getPeekMsgQueue does, before one more step or not. *)
LEMMA PeeksQueue ==
    ASSUME getPeekMsgQueue # <<>>
    PROVE  getPeekMsgQueue \in {<<OpenStep(FALSE), PeekStep, CloseEmptyStep>>,
                                <<OpenStep(FALSE), PeekStep>>}
<1>1. CASE qstate = <<>>
  BY <1>1 DEF getPeekMsgQueue, CloseEmptyStep
<1>2. CASE qstate # <<>>
  <2>1. getPeekMsgQueue = IF qstate[1].hasPending THEN <<OpenStep(FALSE), PeekStep>> ELSE <<>>
    BY <1>2 DEF getPeekMsgQueue, Optional
  <2>. QED  BY <2>1
<1>. QED  BY <1>1, <1>2

(* Peek. *)
LEMMA PeekKeeps ==
    ASSUME IInv, Peek
    PROVE  IInv' /\ Allows
<1>1. /\ Idle /\ job' = getPeekMsgQueue /\ getPeekMsgQueue # <<>>
      /\ UNCHANGED <<disk, mem, qstate, todo, faults, errors, deleted, lastId>>
  BY DEF Peek, Begin
<1>2. job' = <<OpenStep(FALSE), PeekStep, CloseEmptyStep>> \/ job' = <<OpenStep(FALSE), PeekStep>>
  BY <1>1, PeeksQueue
<1>3. JobOK'
  BY <1>2, Zenon DEF JobOK
<1>4. /\ job' # <<>> /\ job'[1].step = "open"
      /\ job' \notin {<<CloseStep, RmdirStep>>, <<RmdirStep>>}
  BY <1>2, OpensFirst
<1>5. lastId' \in Nat
  BY <1>1 DEF IInv, Typed
<1>. QED  BY <1>1, <1>3, <1>4, <1>5, BeginKeeps DEF BeginsJob

(* Ack. *)
LEMMA AckKeeps ==
    ASSUME IInv, NEW m \in 1..MaxSends, Ack(m)
    PROVE  IInv' /\ Allows
<1>1. /\ Idle /\ job' = getPeekMsgQueue \o <<AckStep(m)>> /\ getPeekMsgQueue # <<>>
      /\ UNCHANGED <<disk, mem, qstate, todo, faults, errors, deleted, lastId>>
  BY DEF Ack, Begin, AckStep
<1>2. \/ job' = <<OpenStep(FALSE), PeekStep, CloseEmptyStep, AckStep(m)>>
      \/ job' = <<OpenStep(FALSE), PeekStep, AckStep(m)>>
  <2>1. /\ <<OpenStep(FALSE), PeekStep, CloseEmptyStep>> \o <<AckStep(m)>> =
             <<OpenStep(FALSE), PeekStep, CloseEmptyStep, AckStep(m)>>
        /\ <<OpenStep(FALSE), PeekStep>> \o <<AckStep(m)>> =
             <<OpenStep(FALSE), PeekStep, AckStep(m)>>
    BY JoinThreeOne, JoinTwoOne
  <2>. QED  BY <1>1, <2>1, PeeksQueue
<1>3. JobOK'
  BY <1>2, Zenon DEF JobOK
<1>4. /\ job' # <<>> /\ job'[1].step = "open"
      /\ job' \notin {<<CloseStep, RmdirStep>>, <<RmdirStep>>}
  BY <1>2, OpensFirst
<1>5. lastId' \in Nat
  BY <1>1 DEF IInv, Typed
<1>. QED  BY <1>1, <1>3, <1>4, <1>5, BeginKeeps DEF BeginsJob

(* Expire. *)
LEMMA ExpireKeeps ==
    ASSUME IInv, NEW n \in 0..Quota, Expire(n)
    PROVE  IInv' /\ Allows
<1>1. /\ Idle /\ "EXPIRE" \in Ops
      /\ job' = Optional(~mem.open, <<OpenStep(FALSE)>>)
                  \o Optional(qstate = <<>>, <<CloseUnstoredStep>>)
                  \o <<ExpireStep(n), CloseStep>>
      /\ UNCHANGED <<disk, mem, qstate, todo, faults, errors, deleted, lastId>>
  BY DEF Expire, Begin, CloseUnstoredStep, ExpireStep
<1>2. mem.open => qstate # <<>>
  <2>1. mem.open => qstate = <<qState(mem.state)>>
    BY DEF IInv, Remembered
  <2>. QED  BY <2>1
<1>3. n \in Nat
  BY JournalAssumption
<1>4. CASE mem.open
  <2>1. job' = <<>> \o <<>> \o <<ExpireStep(n), CloseStep>>
    BY <1>1, <1>2, <1>4 DEF Optional
  <2>2. job' = <<ExpireStep(n), CloseStep>>
    <3>1. PICK a, b : a = ExpireStep(n) /\ b = CloseStep
      OBVIOUS
    <3>2. <<>> \o <<>> \o <<a, b>> = <<a, b>>
      OBVIOUS
    <3>. QED  BY <2>1, <3>1, <3>2
  <2>3. JobOK'
    <3>1. Expiring'
      BY <1>1, <1>3, <2>2, Zenon DEF Expiring
    <3>. QED  BY <3>1 DEF JobOK
  <2>4. job' # <<>> /\ job'[1].step = "expire"
    <3>1. job' # <<>> /\ job'[1] = ExpireStep(n)
      BY <2>2
    <3>. QED  BY <3>1, StepFields
  <2>5. job' \notin {<<CloseStep, RmdirStep>>, <<RmdirStep>>}
    BY <2>4, NoRemoval
  <2>6. lastId' \in Nat
    BY <1>1 DEF IInv, Typed
  <2>. QED  BY <1>1, <1>4, <2>3, <2>4, <2>5, <2>6, BeginKeeps DEF BeginsJob
<1>5. CASE ~mem.open
  <2>1. \/ job' = <<OpenStep(FALSE), CloseUnstoredStep, ExpireStep(n), CloseStep>>
        \/ job' = <<OpenStep(FALSE), ExpireStep(n), CloseStep>>
    <3>1. PICK a, b, c, d : /\ a = OpenStep(FALSE) /\ b = CloseUnstoredStep
                            /\ c = ExpireStep(n) /\ d = CloseStep
      OBVIOUS
    <3>2. job' = <<a>> \o <<b>> \o <<c, d>> \/ job' = <<a>> \o <<>> \o <<c, d>>
      BY <1>1, <1>5, <3>1 DEF Optional
    <3>3. /\ <<a>> \o <<b>> \o <<c, d>> = <<a, b, c, d>>
          /\ <<a>> \o <<>> \o <<c, d>> = <<a, c, d>>
      <4>1. <<a>> \o <<b>> = <<a, b>> /\ <<a>> \o <<>> = <<a>>
        BY JoinOneOne
      <4>. QED  BY <4>1, JoinTwoTwo, JoinOneTwo
    <3>. QED  BY <3>1, <3>2, <3>3
  <2>2. JobOK'
    BY <1>1, <1>3, <2>1, Zenon DEF JobOK
  <2>3. job' # <<>> /\ job'[1].step = "open"
    BY <2>1, OpensFirst
  <2>4. job' \notin {<<CloseStep, RmdirStep>>, <<RmdirStep>>}
    BY <2>1, OpensFirst
  <2>5. lastId' \in Nat
    BY <1>1 DEF IInv, Typed
  <2>. QED  BY <1>1, <2>2, <2>3, <2>4, <2>5, BeginKeeps DEF BeginsJob
<1>. QED  BY <1>4, <1>5

(* Drop. *)
LEMMA DropKeeps ==
    ASSUME IInv, Drop
    PROVE  IInv' /\ Allows
<1>1. /\ Idle /\ job' = <<CloseStep, RmdirStep>> /\ deleted'
      /\ UNCHANGED <<disk, mem, qstate, todo, faults, errors, lastId>>
  BY DEF Drop, Begin, RmdirStep
<1>2. JobOK'
  BY <1>1, Zenon DEF JobOK
<1>3. job' # <<>> /\ job'[1].step = "close" /\ job' # <<RmdirStep>>
  <2>1. job' # <<>> /\ job'[1] = CloseStep
    BY <1>1
  <2>2. job' # <<RmdirStep>>
    BY <1>1
  <2>. QED  BY <2>1, <2>2, StepFields
<1>4. lastId' \in Nat
  BY <1>1 DEF IInv, Typed
<1>. QED  BY <1>1, <1>2, <1>3, <1>4, BeginKeeps DEF BeginsJob

-----------------------------------------------------------------------------
(* The server starts again *)

(* All that was in memory is gone. *)
LEMMA StartsAgain ==
    ASSUME IInv, mem' = Closed, qstate' = <<>>, job' = <<>>, todo' = <<>>,
           UNCHANGED <<lastId, errors>>, faults' \in Seq(Faults),
           "fail" \in Range(faults) => "fail" \in Range(faults'),
           DiskOK', Recoverable'
    PROVE  IInv'
<1>1. NoStoreError'
  BY DEF IInv, Typed, NoStoreError
<1>2. Typed'
  BY <1>1 DEF IInv, Typed, JobOK
<1>3. ~mem'.open /\ mem' = Closed /\ mem' = Closed'
  BY DEF Closed
<1>4. Remembered'
  BY <1>3 DEF Remembered
<1>5. Resting'
  BY <1>3 DEF Resting
<1>. QED  BY <1>2, <1>4, <1>5 DEF IInv, Phase

(* Restart. *)
LEMMA RestartKeeps ==
    ASSUME IInv, Restart
    PROVE  IInv' /\ Allows
<1>1. /\ mem' = Closed /\ qstate' = <<>> /\ job' = <<>> /\ todo' = <<>>
      /\ UNCHANGED <<disk, lastId, deleted, faults, errors>>
  BY DEF Restart, Idle
<1>2. DiskOK' /\ Recoverable' /\ Allows
  BY <1>1, DiskSame DEF IInv, Typed
<1>3. faults' \in Seq(Faults)
  BY <1>1 DEF IInv, Typed
<1>. QED  BY <1>1, <1>2, <1>3, StartsAgain

(* A fault is remembered. *)
LEMMA FaultKept ==
    ASSUME faults \in Seq(Faults), NEW kind \in Faults, faults' = Append(faults, kind)
    PROVE  /\ faults' \in Seq(Faults) /\ NoneLost
           /\ \A x : x \in Range(faults) => x \in Range(faults')
           /\ kind \in Range(faults')
<1>1. faults' \in Seq(Faults) /\ Len(faults') = Len(faults) + 1
      /\ (\A i \in 1..Len(faults) : faults'[i] = faults[i])
      /\ faults'[Len(faults) + 1] = kind
  OBVIOUS
<1>2. \A x : x \in Range(faults) => x \in Range(faults')
  BY <1>1 DEF Range
<1>3. kind \in Range(faults')
  BY <1>1 DEF Range
<1>. QED  BY <1>1, <1>2, <1>3 DEF NoneLost

(* The files as far as they are recorded, after a fault. *)
LEMMA FaultDisk ==
    ASSUME DiskOK, DiskOK', Recoverable, NoneLost, Rec' = Rec, Rec # <<>> => KeptFor(Rec[1])
    PROVE  Recoverable' /\ Durable' = Durable /\ Allows
<1>1. Recoverable' /\ Durable' = Durable
  BY DurableKept
<1>. QED  BY <1>1 DEF Allows, Allowed

(* What a crash or a full disk leaves of a message. *)
LEMMA TornKeeps ==
    ASSUME IInv, PutNext, TornPut
    PROVE  /\ FilesOK'
           /\ DOMAIN files' = DOMAIN files
           /\ \A k \in DOMAIN files : k # Head(todo).j => files'[k] = files[k]
           /\ Exists(Head(todo).j)
           /\ Len(files'[Head(todo).j]) <= Len(files[Head(todo).j]) + 1
           /\ \A st : Stored(st) => KeptFor(st)
<1>1. PICK h, pos, msg : /\ PuttingAt(h, pos, msg)
                         /\ todo = PutForm(mem, h, pos, msg)
  BY DEF PutNext
<1>2. Head(todo).j = h /\ Head(todo).msg = msg
  <2>1. PICK a, b, c : todo = <<a, b, c>> /\ a = PutMsg(h, msg)
    BY <1>1 DEF PutForm
  <2>2. Head(todo) = a
    BY <2>1
  <2>. QED  BY <2>1, <2>2, EffectFields
<1>3. PICK more \in {<<>>, <<Torn>>, <<msg>>} : files' = [files EXCEPT ![h] = @ \o more]
  BY <1>2 DEF TornPut
<1>4. msg \in Message /\ Exists(h) /\ FilesOK
  <2>1. msg \in Message /\ Sound(mem) /\ Target(h, pos)
    BY <1>1 DEF PuttingAt, Writable
  <2>2. Exists(h)
    BY <2>1 DEF Sound, Handles, Target
  <2>. QED  BY <2>1, <2>2 DEF IInv, Typed, DiskOK
<1>5. more \in Seq(Content) /\ Len(more) \in Nat /\ Len(more) <= 1
  <2>1. <<>> \in Seq(Content) /\ Len(<<>>) = 0
    OBVIOUS
  <2>2. <<Torn>> \in Seq(Content) /\ Len(<<Torn>>) = 1
    <3>1. Torn \in Content
      BY DEF Content
    <3>. QED  BY <3>1
  <2>3. <<msg>> \in Seq(Content) /\ Len(<<msg>>) = 1
    <3>1. msg \in Content
      BY <1>4 DEF Content
    <3>. QED  BY <3>1
  <2>4. more = <<>> \/ more = <<Torn>> \/ more = <<msg>>
    OBVIOUS
  <2>5. more \in Seq(Content) /\ (Len(more) = 0 \/ Len(more) = 1)
    BY <2>1, <2>2, <2>3, <2>4, Zenon
  <2>. QED  BY <2>5, SMTT(20)
<1>6. /\ FilesOK' /\ DOMAIN files' = DOMAIN files
      /\ Len(files'[h]) = Len(files[h]) + Len(more)
      /\ \A k \in DOMAIN files : k # h => files'[k] = files[k]
      /\ \A st : Stored(st) => KeptFor(st)
  BY <1>3, <1>4, <1>5, PutKeeps
<1>7. Len(files[h]) \in Nat
  BY <1>4 DEF FilesOK, Exists
<1>. QED  BY <1>2, <1>4, <1>5, <1>6, <1>7

(* Nothing is left of what has been planned, the files as they are recorded. *)
LEMMA CrashUnrecorded ==
    ASSUME IInv, Crash, FilesOK', dir => dir', DOMAIN files' = DOMAIN files,
           LogOK(log)', Recorded(StateFile)' = Recorded(StateFile),
           \A st : Stored(st) => KeptFor(st),
           ~dir => log' = log
    PROVE  IInv' /\ Allows
<1>1. /\ mem' = Closed /\ qstate' = <<>> /\ job' = <<>> /\ todo' = <<>>
      /\ UNCHANGED <<dir, bak, lastId, deleted, errors>>
      /\ "crash" \in Faults /\ faults' = Append(faults, "crash")
  BY DEF Crash, Fault
<1>2. DiskOK /\ Recoverable /\ faults \in Seq(Faults)
  BY DEF IInv, Typed
<1>3. /\ faults' \in Seq(Faults) /\ NoneLost
      /\ "fail" \in Range(faults) => "fail" \in Range(faults')
  BY <1>1, <1>2, FaultKept
<1>4. LogOK(bak)' /\ (bak' # NoLines' => Recorded(bak)' # <<>>)
  BY <1>1, <1>2 DEF DiskOK, LogOK, States, JournalId, NoLines
<1>5. DiskOK'
  BY <1>1, <1>2, <1>4 DEF DiskOK, NoLines
<1>6. Rec # <<>> => KeptFor(Rec[1])
  BY <1>2 DEF Recoverable
<1>7. Recoverable' /\ Allows
  BY <1>2, <1>3, <1>5, <1>6, FaultDisk DEF Rec
<1>. QED  BY <1>1, <1>3, <1>5, <1>7, StartsAgain

(* A crash while a line is appended to the log. *)
LEMMA CrashInLine ==
    ASSUME IInv, Crash, CleanTears, todo # <<>>, Head(todo).do = "line", LineNext(Head(todo).st)
    PROVE  IInv' /\ Allows
<1>1. PICK st : st = Head(todo).st
  OBVIOUS
<1>2. PICK f : f = log
  OBVIOUS
<1>3. DiskOK /\ Recoverable /\ faults \in Seq(Faults) /\ LogOK(f)
  BY <1>2 DEF IInv, Typed, DiskOK
<1>4. /\ dir /\ f.newline /\ Stored(st) /\ st \in States
      /\ "lose" \notin Range(faults) => Allowed(Durable, Messages(st))
  BY <1>1, <1>2 DEF LineNext, Stored
<1>5. /\ mem' = Closed /\ qstate' = <<>> /\ job' = <<>> /\ todo' = <<>>
      /\ UNCHANGED <<dir, files, bak, lastId, deleted, errors>>
      /\ "crash" \in Faults /\ faults' = Append(faults, "crash")
  BY DEF Crash, Fault, Doing
<1>6. PICK tear \in Tears : log' = TornLine(f, st, tear)
  BY <1>1, <1>2 DEF Crash, Doing
<1>7. /\ FilesOK' /\ DOMAIN files' = DOMAIN files
      /\ \A s : Stored(s) => KeptFor(s)
  BY <1>3, <1>5, SameKeeps DEF DiskOK
<1>8. ASSUME NEW l, log' = l, LogOK(l), Recorded(l) = Recorded(f)
      PROVE  IInv' /\ Allows
  <2>1. LogOK(log)'
    BY <1>8 DEF LogOK, States, JournalId
  <2>2. Recorded(StateFile)' = Recorded(StateFile)
    BY <1>2, <1>5, <1>8 DEF StateFile, NoLines
  <2>. QED  BY <1>4, <1>5, <1>7, <2>1, <2>2, CrashUnrecorded
<1>9. CASE tear = "none"
  <2>1. log' = f
    BY <1>6, <1>9 DEF TornLine
  <2>. QED  BY <1>3, <1>8, <2>1
<1>10. CASE tear = "part"
  <2>1. log' = Unended(AddLine(f, <<>>))
    BY <1>6, <1>10 DEF TornLine
  <2>2. /\ LogOK(Unended(AddLine(f, <<>>)))
        /\ Recorded(Unended(AddLine(f, <<>>))) = Recorded(f)
    BY <1>3, <1>4, PartIsIgnored
  <2>. QED  BY <1>8, <2>1, <2>2
<1>11. CASE tear = "whole"
  <2>1. PICK l : l = AddLine(f, <<st>>)
    OBVIOUS
  <2>2. log' = l
    BY <1>6, <1>11, <2>1 DEF TornLine
  <2>3. LogOK(l) /\ Recorded(l) = <<st>>
    BY <1>3, <1>4, <2>1, LineIsRecorded
  <2>4. LogOK(log)'
    BY <2>2, <2>3 DEF LogOK, States, JournalId
  <2>5. CASE bak # NoLines
    <3>1. Recorded(StateFile)' = Recorded(StateFile)
      BY <1>5, <2>5 DEF StateFile, NoLines
    <3>. QED  BY <1>4, <1>5, <1>7, <2>4, <3>1, CrashUnrecorded
  <2>6. CASE bak = NoLines
    <3>1. DiskOK'
      <4>1. LogOK(bak)' /\ bak' = NoLines'
        BY <1>5, <2>6 DEF LogOK, NoLines
      <4>. QED  BY <1>3, <1>4, <1>5, <1>7, <2>4, <4>1 DEF DiskOK
    <3>2. Rec' = <<st>>
      BY <1>5, <2>2, <2>3, <2>6 DEF Rec, StateFile, NoLines
    <3>3. /\ faults' \in Seq(Faults) /\ NoneLost
          /\ "fail" \in Range(faults) => "fail" \in Range(faults')
      BY <1>3, <1>5, FaultKept
    <3>4. Stored(st)' /\ Messages(st)' = Messages(st)
      BY <1>3, <1>4, <1>7, <3>3, StoredKept, MessagesKept DEF DiskOK
    <3>5. Recoverable' /\ Durable' = Messages(st)
      <4>1. Rec' # <<>> /\ Rec[1]' = st
        BY <3>2
      <4>2. Stored(Rec[1])' = Stored(st)' /\ Messages(Rec[1])' = Messages(st)'
        BY <4>1
      <4>. QED  BY <3>1, <3>4, <4>1, <4>2, RecOfNext DEF Recoverable
    <3>6. Allows
      BY <1>4, <3>5 DEF Allows
    <3>. QED  BY <1>5, <3>1, <3>3, <3>5, <3>6, StartsAgain
  <2>. QED  BY <2>5, <2>6
<1>. QED  BY <1>9, <1>10, <1>11 DEF CleanTears

(* Crash. *)
LEMMA CrashKeeps ==
    ASSUME IInv, Crash, CleanTears
    PROVE  IInv' /\ Allows
<1>1. DiskOK /\ FilesOK
  BY DEF IInv, Typed, DiskOK
<1>2. CASE Doing("line")
  <2>1. ~Resting
    BY <1>2 DEF Resting, Doing
  <2>2. LineNext(Head(todo).st)
    BY <1>2, <2>1, PhaseBusy DEF Busy, BeginsWith, Doing
  <2>. QED  BY <1>2, <2>2, CrashInLine DEF Doing
<1>3. ASSUME ~Doing("line"), FilesOK', DOMAIN files' = DOMAIN files,
             \A st : Stored(st) => KeptFor(st)
      PROVE  IInv' /\ Allows
  <2>1. UNCHANGED <<dir, log, bak>>
    BY <1>3 DEF Crash
  <2>2. LogOK(log)' /\ Recorded(StateFile)' = Recorded(StateFile)
    BY <1>1, <2>1 DEF DiskOK, LogOK, States, JournalId, NoLines, StateFile
  <2>. QED  BY <1>3, <2>1, <2>2, CrashUnrecorded
<1>4. CASE Doing("put")
  <2>1. ~Resting
    BY <1>4 DEF Resting, Doing
  <2>2. PutNext /\ ~Doing("line")
    BY <1>4, <2>1, PhaseBusy DEF Busy, BeginsWith, Doing
  <2>3. TornPut
    BY <1>4 DEF Crash
  <2>. QED  BY <1>3, <2>2, <2>3, TornKeeps
<1>5. CASE ~Doing("line") /\ ~Doing("put")
  <2>1. files' = files
    BY <1>5 DEF Crash
  <2>2. FilesOK' /\ \A st : Stored(st) => KeptFor(st)
    BY <1>1, <2>1, SameKeeps
  <2>. QED  BY <1>3, <1>5, <2>1, <2>2
<1>. QED  BY <1>2, <1>4, <1>5

(* Fail: the state in memory is the one before the message. *)
LEMMA FailKeeps ==
    ASSUME IInv, Fail
    PROVE  IInv' /\ Allows
<1>1. todo # <<>> /\ Head(todo).do = "put"
  BY DEF Fail, Doing
<1>2. WritePhase /\ PutNext
  <2>1. ~Resting
    BY <1>1 DEF Resting
  <2>. QED  BY <1>1, <2>1, PhaseBusy DEF Busy, BeginsWith
<1>3. PICK mq : mq = mem
  OBVIOUS
<1>4. PICK h, pos, msg : /\ PuttingAt(h, pos, msg)
                         /\ todo = PutForm(mem, h, pos, msg)
  BY <1>2 DEF PutNext
<1>5. Head(todo).j = h
  <2>1. PICK a, b, c : todo = <<a, b, c>> /\ a = PutMsg(h, msg)
    BY <1>4 DEF PutForm
  <2>2. Head(todo) = a
    BY <2>1
  <2>. QED  BY <2>1, <2>2, EffectFields
<1>6. /\ job = <<>> /\ mq.open /\ MemOK(mq) /\ Logged(mq.state) /\ Sound(mq)
      /\ \/ h = mq.state.wj /\ ~Stranded(mq)
         \/ Stranded(mq) /\ h = mq.writeHandle /\ files[h] = <<>>
  BY <1>2, <1>3, <1>4 DEF WritePhase, PuttingAt, Target
<1>7. /\ DiskOK /\ Recoverable /\ Remembered /\ faults \in Seq(Faults) /\ lastId \in Nat
      /\ NoStoreError
  BY DEF IInv, Typed
<1>8. /\ mem' = mq /\ todo' = <<>> /\ job' = <<>>
      /\ UNCHANGED <<dir, log, bak, qstate, lastId, deleted, errors>>
      /\ "fail" \in Faults /\ faults' = Append(faults, "fail") /\ TornPut
  <2>1. CloseStep \notin Range(job)
    BY <1>6 DEF Range
  <2>. QED  BY <1>3, <2>1 DEF Fail, Fault, Exception
<1>9. /\ faults' \in Seq(Faults) /\ NoneLost /\ "fail" \in Range(faults')
      /\ "fail" \in Range(faults) => "fail" \in Range(faults')
  BY <1>7, <1>8, FaultKept
<1>10. /\ FilesOK'
       /\ DOMAIN files' = DOMAIN files
       /\ Exists(h)
       /\ \A k \in DOMAIN files : k # h => files'[k] = files[k]
       /\ Len(files'[h]) <= Len(files[h]) + 1
       /\ \A st : Stored(st) => KeptFor(st)
  BY <1>2, <1>5, <1>8, TornKeeps
<1>11. DiskOK'
  <2>1. LogOK(log)' /\ LogOK(bak)' /\ (bak' # NoLines' => Recorded(bak)' # <<>>)
    BY <1>7, <1>8 DEF DiskOK, LogOK, States, JournalId, NoLines
  <2>. QED  BY <1>7, <1>8, <1>10, <2>1 DEF DiskOK, NoLines
<1>12. Rec # <<>> => KeptFor(Rec[1])
  BY <1>7, <1>10 DEF Recoverable
<1>13. Recoverable' /\ Durable' = Durable /\ Allows
  <2>1. Rec' = Rec
    BY <1>8 DEF Rec, StateFile, NoLines
  <2>. QED  BY <1>7, <1>9, <1>11, <1>12, <2>1, FaultDisk
<1>14. Quiet(mq)' /\ Logged(mq.state)'
  <2>1. KeptFor(mq.state)
    BY <1>6, <1>10 DEF Sound
  <2>2. StrandedKept(mq)
    <3>1. SUFFICES ASSUME Stranded(mq)
                   PROVE  Exists(mq.writeHandle)' /\ Len(files'[mq.writeHandle]) <= 1
      BY DEF StrandedKept
    <3>2. h = mq.writeHandle /\ Len(files[h]) = 0
      BY <1>6, <3>1
    <3>3. Len(files'[h]) \in Nat
      BY <1>10 DEF FilesOK, Exists
    <3>. QED  BY <1>10, <3>2, <3>3 DEF Exists
  <2>3. Unwritten(mq) => FALSE
    <3>1. SUFFICES ASSUME Unwritten(mq)
                   PROVE  FALSE
      OBVIOUS
    <3>2. PICK j : mq = Opened(newMsgQueueState(j), 0, 0)
      BY <3>1 DEF Unwritten
    <3>3. Opened(newMsgQueueState(j), 0, 0).readHandle = 0
      BY DEF Opened
    <3>4. mq.readHandle \in JournalId
      BY <1>6, StoredHolds DEF Sound, Handles
    <3>. QED  BY <3>2, <3>3, <3>4 DEF JournalId
  <2>4. MemOK(mq)' /\ (Logged(mq.state)' <=> Logged(mq.state))
    BY <1>6, <1>7, <1>8, <1>9, <1>12, <2>1, <2>2, <2>3, MemKept
  <2>5. Settled(mq)'
    BY <1>9 DEF Settled
  <2>. QED  BY <1>6, <2>4, <2>5 DEF Quiet
<1>15. Remembered'
  <2>1. KeptFor(mem.state)
    BY <1>3, <1>6, <1>10 DEF Sound
  <2>. QED  BY <1>3, <1>6, <1>7, <1>8, <1>9, <2>1, RememberedKept
<1>16. Resting'
  <2>1. Quiet(mem)' = Quiet(mq)' /\ Logged(mem.state)' = Logged(mq.state)'
    BY <1>8
  <2>. QED  BY <1>8, <1>14, <2>1 DEF Resting
<1>17. Typed'
  <2>1. NoStoreError'
    BY <1>7, <1>8, <1>9 DEF NoStoreError
  <2>. QED  BY <1>7, <1>8, <1>9, <1>11, <2>1 DEF Typed, JobOK
<1>. QED  BY <1>13, <1>15, <1>16, <1>17 DEF IInv, Phase

(* What a state has when one journal is lost. *)
LEMMA LosesOnly ==
    ASSUME FilesOK, NEW st, Stored(st), NEW j, files' = [k \in DOMAIN files \ {j} |-> files[k]],
           "lose" \in Range(faults')
    PROVE  /\ FilesOK' /\ Stored(st)'
           /\ Messages(st) = <<>> => Messages(st)' = <<>>
<1>1. /\ FilesOK'
      /\ \A k : Exists(k)' => Exists(k) /\ files'[k] = files[k]
  <2>1. DOMAIN files' = DOMAIN files \ {j} /\ FilesOK'
    BY RemoveKeeps
  <2>. QED  BY <2>1 DEF Exists
<1>2. Stored(st)'
  <2>1. Holds(st.rj, st.rcount)' /\ Holds(st.wj, st.wcount)'
    BY <1>1 DEF Stored, Holds, Message
  <2>2. Marked(st)'
    BY DEF Marked
  <2>3. (st \in States)' /\ validQueueState(st)'
    BY DEF Stored, States, JournalId, validQueueState
  <2>. QED  BY <2>1, <2>2, <2>3 DEF Stored
<1>3. ASSUME Messages(st) = <<>>
      PROVE  Messages(st)' = <<>>
  <2>1. MessagesFit(st) /\ MessagesFit(st)'
    BY <1>1, <1>2, MessagesOf, MessagesOfNext
  <2>2. InRead(st) = 0 /\ InWrite(st) = 0
    BY <1>3, <2>1 DEF MessagesFit
  <2>3. InRead(st)' = 0 /\ InWrite(st)' = 0
    BY <1>1, <2>2 DEF InRead, InWrite
  <2>4. Messages(st)' \in Seq(Message) /\ Len(Messages(st)') = 0
    BY <2>1, <2>3 DEF MessagesFit, Message
  <2>. QED  BY <2>4, EmptySeq
<1>. QED  BY <1>1, <1>2, <1>3

(* Lose. *)
LEMMA LoseKeeps ==
    ASSUME IInv, NEW j \in JournalId, Lose(j)
    PROVE  IInv' /\ "lose" \in Range(faults')
<1>1. /\ DiskOK /\ Recoverable /\ Remembered /\ faults \in Seq(Faults) /\ lastId \in Nat
      /\ NoStoreError /\ FilesOK
  BY DEF IInv, Typed, DiskOK
<1>2. /\ files' = [k \in DOMAIN files \ {j} |-> files[k]]
      /\ UNCHANGED <<dir, log, bak, mem, qstate, job, todo, lastId, deleted, errors>>
      /\ "lose" \in Faults /\ faults' = Append(faults, "lose")
      /\ Idle /\ ~mem.open
  BY DEF Lose, Fault
<1>3. /\ faults' \in Seq(Faults) /\ "lose" \in Range(faults')
      /\ "fail" \in Range(faults) => "fail" \in Range(faults')
  BY <1>1, <1>2, FaultKept
<1>4. FilesOK' /\ DOMAIN files' = DOMAIN files \ {j}
  BY <1>1, <1>2, RemoveKeeps
<1>5. DiskOK'
  <2>1. LogOK(log)' /\ LogOK(bak)' /\ (bak' # NoLines' => Recorded(bak)' # <<>>)
    BY <1>1, <1>2 DEF DiskOK, LogOK, States, JournalId, NoLines
  <2>. QED  BY <1>1, <1>2, <1>4, <2>1 DEF DiskOK, NoLines
<1>6. Rec' = Rec
  BY <1>2 DEF Rec, StateFile, NoLines
<1>7. Recoverable' /\ (Durable = <<>> => Durable' = <<>>)
  <2>1. CASE Rec = <<>>
    BY <1>5, <1>6, <2>1, RecOfNext DEF Recoverable
  <2>2. CASE Rec # <<>>
    <3>1. PICK r : r = Rec[1]
      OBVIOUS
    <3>2. Stored(r) /\ Durable = Messages(r)
      BY <1>1, <2>2, <3>1, RecOf DEF Recoverable
    <3>3. Stored(r)' /\ (Messages(r) = <<>> => Messages(r)' = <<>>)
      BY <1>1, <1>2, <1>3, <3>2, LosesOnly
    <3>4. Stored(Rec[1])' = Stored(r)' /\ Messages(Rec[1])' = Messages(r)'
      BY <1>6, <3>1
    <3>. QED  BY <1>5, <1>6, <2>2, <3>2, <3>3, <3>4, RecOfNext DEF Recoverable
  <2>. QED  BY <2>1, <2>2
<1>8. Remembered'
  <2>1. /\ mem = Closed
        /\ qstate # <<>> => qstate = <<qstate[1]>>
        /\ qstate # <<>> /\ ~qstate[1].hasPending => Durable = <<>>
    BY <1>1, <1>2 DEF Remembered
  <2>2. mem' = Closed'
    BY <1>2, <2>1 DEF Closed
  <2>. QED  BY <1>2, <1>7, <2>1, <2>2 DEF Remembered
<1>9. Resting'
  BY <1>2 DEF Resting, Idle
<1>10. Typed'
  <2>1. NoStoreError'
    BY <1>1, <1>2, <1>3 DEF NoStoreError
  <2>. QED  BY <1>1, <1>2, <1>3, <1>5, <2>1 DEF Typed, JobOK, Idle
<1>. QED  BY <1>3, <1>7, <1>8, <1>9, <1>10 DEF IInv, Phase

-----------------------------------------------------------------------------
(* Steps that change nothing *)

(* What is said of a state and of the opened queue. *)
LEMMA SameSaid ==
    ASSUME UNCHANGED vars
    PROVE  /\ Rec' = Rec /\ Durable' = Durable /\ (LogReady' <=> LogReady)
           /\ (Expiring' <=> Expiring)
           /\ \A j : Exists(j)' <=> Exists(j)
           /\ \A st : /\ Stored(st)' <=> Stored(st)
                      /\ Messages(st)' = Messages(st)
                      /\ From(st)' = From(st)
                      /\ Follows(st)' <=> Follows(st)
                      /\ Logged(st)' <=> Logged(st)
           /\ \A mq : /\ TipOK(mq)' <=> TipOK(mq)
                      /\ Sound(mq)' <=> Sound(mq)
                      /\ Settled(mq)' <=> Settled(mq)
                      /\ MemOK(mq)' <=> MemOK(mq)
                      /\ Quiet(mq)' <=> Quiet(mq)
                      /\ JobFits(mq)' <=> JobFits(mq)
                      /\ Assign(mq)' = Assign(mq)
<1>. USE DEF vars, disk
<1>1. Rec' = Rec
  BY DEF Rec, StateFile, NoLines
<1>2. \A j : Exists(j)' <=> Exists(j)
  BY DEF Exists
<1>3. \A st : Messages(st)' = Messages(st)
  BY MessagesParts DEF Messages, Exists, Optional
<1>4. Durable' = Durable
  BY <1>1, <1>3 DEF Durable, Rec
<1>5. (LogReady' <=> LogReady) /\ (Expiring' <=> Expiring)
  BY DEF LogReady, NoLines, Expiring
<1>6. \A st : Stored(st)' <=> Stored(st)
  BY <1>2 DEF Stored, Holds, Marked, States, JournalId, Message
<1>7. \A st : From(st)' = From(st) /\ (Logged(st)' <=> Logged(st))
  BY <1>1 DEF From, Logged
<1>8. \A st : Follows(st)' <=> Follows(st)
  BY <1>1, <1>2, <1>7 DEF Follows
<1>9. \A mq : TipOK(mq)' <=> TipOK(mq)
  BY <1>2 DEF TipOK
<1>10. \A mq : Settled(mq)' <=> Settled(mq)
  BY DEF Settled, Stranded
<1>11. \A mq : Sound(mq)' <=> Sound(mq)
  BY <1>2, <1>6, <1>9 DEF Sound, Handles, Stranded, Queues, States, JournalId, Message
<1>12. \A mq : MemOK(mq)' <=> MemOK(mq)
  BY <1>2, <1>5, <1>8, <1>11 DEF MemOK, Unwritten, JournalId, NoLines
<1>13. \A mq : Quiet(mq)' <=> Quiet(mq)
  BY <1>10, <1>12 DEF Quiet
<1>14. \A mq : JobFits(mq)' <=> JobFits(mq)
  BY DEF JobFits, Peeked
<1>15. \A mq : Assign(mq)' = Assign(mq)
  BY DEF Assign
<1>. QED  BY <1>1, <1>2, <1>3, <1>4, <1>5, <1>6, <1>7, <1>8, <1>9, <1>10, <1>11, <1>12, <1>13,
             <1>14, <1>15

(* The effects and the states planned do not depend on anything else. *)
LEMMA SameEffects ==
    /\ \A j : CreateJournal(j)' = CreateJournal(j) /\ RemoveJournal(j)' = RemoveJournal(j)
    /\ \A j, pos : /\ FixFileSize(j, pos)' = FixFileSize(j, pos)
                   /\ ReadTip(j, pos)' = ReadTip(j, pos)
    /\ \A j, msg : PutMsg(j, msg)' = PutMsg(j, msg)
    /\ \A st : AppendState(st)' = AppendState(st) /\ Switched(st)' = Switched(st)
    /\ \A st, h, pos, msg : After(st, h, pos, msg)' = After(st, h, pos, msg)
    /\ \A mq, h, pos, msg : Written(mq, h, pos, msg)' = Written(mq, h, pos, msg)
    /\ \A j : newMsgQueueState(j)' = newMsgQueueState(j)
    /\ \A st, rh, wh : Opened(st, rh, wh)' = Opened(st, rh, wh)
    /\ Mkdir' = Mkdir /\ RestoreBackup' = RestoreBackup /\ TempBackup' = TempBackup
    /\ TimedBackup' = TimedBackup /\ RetireLog' = RetireLog
    /\ RemoveDirectory' = RemoveDirectory /\ Closed' = Closed /\ NoLines' = NoLines
    BY DEF CreateJournal, RemoveJournal, FixFileSize, ReadTip, PutMsg, AppendState, Switched,
           switchedToWrite, After, Written, newMsgQueueState, Opened, Mkdir, RestoreBackup,
           TempBackup, TimedBackup, RetireLog, RemoveDirectory, Closed, NoLines

(* The opening of a queue. *)
LEMMA OpenSame ==
    ASSUME IInv, UNCHANGED vars, OpenPhase
    PROVE  OpenPhase'
<1>. USE DEF vars, disk
<1>1. Recoverable
  BY DEF IInv
<1>2. \A k : /\ FixForm(k) => FixForm(k)'
             /\ RecreateForm(k) => RecreateForm(k)'
             /\ RetireForm(k) => RetireForm(k)'
  BY <1>1, SameSaid, FormsKept
<1>3. \A k : ReplaceForm(k) => ReplaceForm(k)'
  <2>1. SUFFICES ASSUME NEW k, NEW j, NEW a, ReplaceOf(j, a, k)
                 PROVE  ReplaceOf(j, a, k)'
    BY DEF ReplaceForm
  <2>. QED  BY <2>1, SameSaid, ReplaceKept DEF ReplaceOf
<1>4. \A k, s : BackedBy(k, s) => BackedBy(k, s)'
  BY <1>1, SameSaid, BackedByKept
<1>5. \A k : OpenForm(k) => OpenForm(k)'
  BY <1>2, <1>3 DEF OpenForm
<1>6. OpenedJob => OpenedJob'
  BY DEF OpenedJob
<1>7. Opening => Opening'
  BY <1>5, SameSaid DEF Opening
<1>8. BackingUp => BackingUp'
  <2>1. SUFFICES ASSUME NEW k, NEW s, BackingUpOf(k, s)
                 PROVE  BackingUpOf(k, s)'
    BY DEF BackingUp
  <2>. QED  BY <1>4, <2>1, SameEffects DEF BackingUpOf, LogOf
<1>9. Restoring => Restoring'
  BY <1>2, <1>4, <1>5, SameEffects DEF Restoring
<1>10. Retiring => Retiring'
  BY <1>2, SameSaid, SameEffects DEF Retiring, JournalId
<1>11. Replacing => Replacing'
  BY SameSaid, SameEffects DEF Replacing, ReplacingBy, JournalId
<1>12. Removing => Removing'
  BY SameSaid, SameEffects DEF Removing, RemovingTo
<1>. QED  BY <1>6, <1>7, <1>8, <1>9, <1>10, <1>11, <1>12 DEF OpenPhase

(* The steps of an operation. *)
LEMMA StepSame ==
    ASSUME UNCHANGED vars
    PROVE  /\ Landing => Landing'
           /\ Committing => Committing'
           /\ Logging => Logging'
           /\ Reading => Reading'
           /\ Switching => Switching'
<1>. USE DEF vars, disk
<1>1. \A mq, rd : ReadForm(mq, rd) => ReadForm(mq, rd)'
  BY SameEffects DEF ReadForm
<1>2. Landing => Landing'
  BY <1>1, SameSaid DEF Landing, LandingOn
<1>3. Committing => Committing'
  <2>1. \A q, r : Allowed(q, r) => Allowed(q, r)'
    BY DEF Allowed, Message
  <2>2. SUFFICES ASSUME NEW mq, NEW rd, CommittingTo(mq, rd)
                 PROVE  CommittingTo(mq, rd)'
    BY DEF Committing
  <2>. QED  BY <1>1, <2>1, <2>2, SameSaid, SameEffects DEF CommittingTo
<1>4. Logging => Logging'
  BY SameSaid, SameEffects DEF Logging, CloseStep
<1>5. Reading => Reading'
  BY <1>1, SameSaid, SameEffects DEF Reading
<1>6. Switching => Switching'
  <2>1. Moved' = Moved /\ Entered' = Entered
    BY DEF Moved, Entered, Switched, switchedToWrite
  <2>2. SUFFICES ASSUME NEW rd, SwitchingTo(rd)
                 PROVE  SwitchingTo(rd)'
    BY DEF Switching
  <2>. QED  BY <1>1, <2>1, <2>2, SameSaid, SameEffects DEF SwitchingTo
<1>. QED  BY <1>2, <1>3, <1>4, <1>5, <1>6

(* Writing a message. *)
LEMMA WriteSame ==
    ASSUME UNCHANGED vars, WritePhase
    PROVE  WritePhase'
<1>. USE DEF vars, disk
<1>1. \A mq, h, pos, msg : PutForm(mq, h, pos, msg)' = PutForm(mq, h, pos, msg)
  BY SameSaid, SameEffects DEF PutForm
<1>2. \A msg : Writable(msg) => Writable(msg)'
  BY DEF Writable, Message
<1>3. \A h, pos : Target(h, pos) => Target(h, pos)'
  BY DEF Target, Stranded
<1>4. Starting => Starting'
  BY <1>1, <1>2, SameSaid, SameEffects DEF Starting, StartingWith, Unwritten, JournalId
<1>5. Extending => Extending'
  BY <1>1, <1>2, SameSaid, SameEffects DEF Extending, ExtendingWith, JournalId
<1>6. Putting => Putting'
  BY <1>1, <1>2, <1>3, SameSaid, SameEffects DEF Putting, PuttingAt
<1>7. Refusing => Refusing'
  BY SameSaid, SameEffects DEF Refusing, Stranded
<1>. QED  BY <1>4, <1>5, <1>6, <1>7, SameSaid DEF WritePhase

(* The invariant. *)
LEMMA StutterKeeps ==
    ASSUME IInv, UNCHANGED vars
    PROVE  IInv'
<1>. USE DEF vars, disk
<1>1. DiskOK' /\ Recoverable' /\ (\A st : Stored(st) => KeptFor(st)) /\ NoneLost
  BY DiskSame DEF IInv, Typed
<1>2. Typed'
  BY <1>1, TypedNext DEF IInv
<1>3. Remembered'
  BY <1>1, SameSaid, RememberedKept DEF IInv, Remembered
<1>4. Resting => Resting'
  BY SameSaid DEF Resting, Peeked, CloseStep, RmdirStep
<1>5. Closing => Closing'
  BY SameSaid, SameEffects DEF Closing, RmdirStep
<1>6. Clearing => Clearing'
  BY SameEffects DEF Clearing
<1>7. Phase'
  BY <1>4, <1>5, <1>6, OpenSame, StepSame, WriteSame DEF IInv, Phase
<1>. QED  BY <1>1, <1>2, <1>3, <1>7 DEF IInv

-----------------------------------------------------------------------------
(* What holds at all times *)

(* Initially there are no files. *)
LEMMA InitInvariant == Init => IInv
<1> SUFFICES ASSUME Init
             PROVE  IInv
  OBVIOUS
<1>. USE DEF Init
<1>1. bak = NoLines /\ log = NoLines /\ StateFile = NoLines
  BY DEF StateFile
<1>2. Rec = <<>> /\ Durable = <<>>
  BY <1>1 DEF Rec, Recorded, NoLines, Durable
<1>3. DiskOK
  <2>1. DOMAIN files = {}
    OBVIOUS
  <2>2. LogOK(log) /\ LogOK(bak)
    BY <1>1 DEF LogOK
  <2>. QED  BY <1>1, <2>1, <2>2 DEF DiskOK, FilesOK
<1>4. ~mem.open /\ mem = Closed
  BY DEF Closed
<1>5. NoStoreError /\ JobOK /\ faults \in Seq(Faults)
  BY DEF NoStoreError, JobOK
<1>6. Resting
  BY <1>4 DEF Resting
<1>. QED  BY <1>2, <1>3, <1>4, <1>5, <1>6 DEF IInv, Typed, Recoverable, Remembered, Phase

(* What is found on a start is what the abstract queue allows, until the    *)
(* queue is deleted or a file is lost.                                      *)
Progress == Allowed(Durable, Durable') \/ deleted' \/ "lose" \in Range(faults')

(* That a file was lost is never forgotten. *)
LEMMA LossKept ==
    ASSUME IInv, Next
    PROVE  NoneLost
<1>1. CASE faults' = faults
  BY <1>1 DEF NoneLost
<1>2. CASE \E kind \in Faults : faults' = Append(faults, kind)
  BY <1>2, FaultKept DEF IInv, Typed
<1>3. Crash \/ Fail \/ (\E j \in JournalId : Lose(j))
        => \E kind \in Faults : faults' = Append(faults, kind)
  BY DEF Crash, Fail, Lose, Fault
<1>4. Step => faults' = faults
  BY DEF Step, Open, WriteMsg, PeekMsg, DeleteMsg, AckMsg, ExpireMsgs, ExpiredMsg, Close, Plan,
         RemoveQueueDirectory, DoMkdir, DoCreate, DoRemove, DoFixFileSize, DoPut, DoAppendState,
         DoRename, DoAssign, DoRead, DoThrow, DoRemoveDirectory, Done
<1>5. /\ \A m : Write(m) \/ Ack(m) => faults' = faults
      /\ \A n : Expire(n) => faults' = faults
      /\ Peek \/ Restart \/ Drop => faults' = faults
  BY DEF Write, Ack, Expire, Peek, Restart, Drop, Begin
<1>. QED  BY <1>1, <1>2, <1>3, <1>4, <1>5 DEF Next

(* The invariant is inductive. *)
LEMMA NextKeeps ==
    ASSUME IInv, CleanTears, RoomForTwo, Next
    PROVE  IInv' /\ Progress
<1>1. IInv' /\ (Allows \/ deleted' \/ "lose" \in Range(faults'))
  BY WriteKeeps, AckKeeps, PeekKeeps, ExpireKeeps, RestartKeeps, DropKeeps, StepKeeps, CrashKeeps,
     FailKeeps, LoseKeeps DEF Next
<1>2. NoneLost
  BY LossKept
<1>. QED  BY <1>1, <1>2 DEF Progress, Allows, NoneLost

(* Every message that the journals, the state log and the memory of a queue *)
(* hold can be accounted for, between any two file system calls.            *)
THEOREM JournalInvariant ==
    ASSUME CleanTears, RoomForTwo
    PROVE  Spec => []IInv
<1>1. IInv /\ [Next]_vars => IInv'
  BY NextKeeps, StutterKeeps
<1>. QED  BY <1>1, InitInvariant, PTL DEF Spec

(* When the lock is free, the log has the read position of the opened queue. *)
LEMMA IdleIsQuiet ==
    ASSUME IInv, Idle, mem.open
    PROVE  Quiet(mem) /\ Logged(mem.state)
<1>1. Resting
  BY PhaseBusy DEF Idle, Busy, BeginsWith
<1>2. ~Expiring
  <2>1. \A a, b, c : job # <<a, b>> /\ job # <<a, b, c>>
    BY DEF Idle
  <2>. QED  BY <2>1 DEF Expiring
<1>. QED  BY <1>1, <1>2 DEF Resting

(* The code finds what it reads and logs valid states only (readQueueState, *)
(* updateQueueState, hGetMsgAt), whatever journals were created, switched   *)
(* or removed, and wherever a crash cut them; fixFileSize reports a journal *)
(* that is too short only after an append failed.                           *)
THEOREM NothingInconsistent ==
    ASSUME CleanTears, RoomForTwo
    PROVE  Spec => []NoStoreError
<1>1. IInv => NoStoreError
  BY DEF IInv, Typed
<1>. QED  BY <1>1, JournalInvariant, PTL

(* A SEND, ACK or expiry that was answered is not undone when the server    *)
(* stops, with or without closing its files.                                *)
THEOREM AnsweredIsDurable ==
    ASSUME CleanTears, RoomForTwo
    PROVE  Spec => []MemoryIsDurable
<1>1. ASSUME IInv
      PROVE  MemoryIsDurable
  <2>1. SUFFICES ASSUME Idle, mem.open
                 PROVE  Messages(mem.state) = Durable
    BY DEF MemoryIsDurable
  <2>2. PICK mq : mq = mem
    OBVIOUS
  <2>3. MemOK(mq) /\ Logged(mq.state) /\ DiskOK /\ FilesOK /\ Recoverable
    BY <1>1, <2>1, <2>2, IdleIsQuiet DEF Quiet, IInv, Typed, DiskOK
  <2>4. CASE Unwritten(mq)
    <3>1. PICK j \in JournalId : mq = Opened(newMsgQueueState(j), 0, 0)
      BY <2>4 DEF Unwritten
    <3>2. Opened(newMsgQueueState(j), 0, 0).state = newMsgQueueState(j)
      BY DEF Opened
    <3>3. Messages(mq.state) = <<>>
      BY <2>3, <3>1, <3>2, NewState
    <3>4. Rec = <<>>
      BY <2>4 DEF Unwritten, Rec, StateFile, Recorded, NoLines
    <3>. QED  BY <2>2, <2>3, <3>3, <3>4, RecOf
  <2>5. CASE Sound(mq) /\ Follows(mq.state)
    BY <2>2, <2>3, <2>5, LoggedIsDurable DEF Sound, Handles
  <2>. QED  BY <2>3, <2>4, <2>5 DEF MemOK
<1>. QED  BY <1>1, JournalInvariant, PTL

(* tipMsg is the message at the read position even between the steps of an  *)
(* operation, when journals are switched and while deletions are not logged.*)
THEOREM TipIsNext ==
    ASSUME CleanTears, RoomForTwo
    PROVE  Spec => []TipIsHead
<1>1. ASSUME IInv
      PROVE  TipIsHead
  <2>1. SUFFICES ASSUME mem.open, mem.tip # <<>>
                 PROVE  Messages(mem.state) # <<>> /\ mem.tip[1] = Head(Messages(mem.state))
    BY DEF TipIsHead
  <2>2. PICK st, q : st = mem.state /\ q = Messages(st)
    OBVIOUS
  <2>3. Stored(st) /\ TipOK(mem) /\ FilesOK
    BY <1>1, <2>1, <2>2 DEF IInv, Remembered, Typed, DiskOK
  <2>4. /\ st.rpos \in Nat /\ st.rcount \in Nat /\ st.wcount \in Nat /\ st.rpos <= st.rcount
        /\ st.rj # st.wj => st.wcount > 0
    BY <2>3, StoredHolds
  <2>5. MessagesFit(st)
    BY <2>3, MessagesOf
  <2>6. Len(q) > 0 /\ q[1] = mem.tip[1]
    <3>1. CASE st.rpos < st.rcount
      <4>1. Exists(st.rj) /\ mem.tip[1] = files[st.rj][st.rpos + 1]
        BY <2>1, <2>2, <2>3, <3>1 DEF TipOK
      <4>2. InRead(st) = st.rcount - st.rpos /\ InRead(st) > 0 /\ InRead(st) \in Nat
        BY <2>4, <3>1, <4>1 DEF InRead
      <4>3. 1 \in 1..InRead(st)
        BY <4>2
      <4>. QED  BY <2>2, <2>5, <4>1, <4>2, <4>3 DEF MessagesFit
    <3>2. CASE ~(st.rpos < st.rcount)
      <4>1. st.rj # st.wj /\ Exists(st.wj) /\ mem.tip[1] = files[st.wj][1]
        BY <2>1, <2>2, <2>3, <3>2 DEF TipOK
      <4>2. InRead(st) = 0 /\ InWrite(st) = st.wcount /\ st.wcount > 0
        BY <2>4, <3>2, <4>1 DEF InRead, InWrite
      <4>3. 1 \in 1..InWrite(st) /\ 0 + 1 = 1
        BY <2>4, <4>2
      <4>4. q[0 + 1] = files[st.wj][1]
        BY <2>2, <2>5, <4>2, <4>3 DEF MessagesFit
      <4>. QED  BY <2>2, <2>4, <2>5, <4>1, <4>2, <4>3, <4>4 DEF MessagesFit
    <3>. QED  BY <3>1, <3>2
  <2>7. q \in Seq(Message)
    BY <2>2, <2>5 DEF MessagesFit
  <2>8. q # <<>> /\ Head(q) = q[1]
    BY <2>6, <2>7
  <2>. QED  BY <2>2, <2>6, <2>8
<1>. QED  BY <1>1, JournalInvariant, PTL

(* SUB and GET skip a queue that is known to have nothing pending only when *)
(* its files hold no message (getPeekMsgQueue).                             *)
THEOREM SkippedIsEmpty ==
    ASSUME CleanTears, RoomForTwo
    PROVE  Spec => []PendingIsKnown
<1>1. ASSUME IInv
      PROVE  PendingIsKnown
  <2>1. SUFFICES ASSUME Idle, qstate # <<>>, ~qstate[1].hasPending
                 PROVE  Durable = <<>>
    BY DEF PendingIsKnown
  <2>2. CASE ~mem.open
    BY <1>1, <2>1, <2>2 DEF IInv, Remembered
  <2>3. CASE mem.open
    <3>1. PICK mq : mq = mem
      OBVIOUS
    <3>2. MemOK(mq) /\ Logged(mq.state) /\ DiskOK /\ FilesOK /\ Recoverable
      BY <1>1, <2>1, <2>3, <3>1, IdleIsQuiet DEF Quiet, IInv, Typed, DiskOK
    <3>3. mq.state.size = 0
      <4>1. qstate[1] = qState(mq.state)
        BY <1>1, <2>3, <3>1 DEF IInv, Remembered
      <4>2. mq.state.size \in Nat
        BY <3>2, MemFields, StoredHolds
      <4>3. qState(mq.state).hasPending <=> mq.state.size > 0
        BY DEF qState
      <4>4. ~(mq.state.size > 0)
        BY <2>1, <4>1, <4>3, Zenon
      <4>. QED  BY <4>2, <4>4
    <3>. QED  BY <3>2, <3>3, EmptyIsKnown
  <2>. QED  BY <2>2, <2>3
<1>. QED  BY <1>1, JournalInvariant, PTL

(* A step of the journal store is one of the abstract queue. *)
LEMMA ProgressIsStep ==
    ASSUME Progress
    PROVE  (Abstract!QStep \/ deleted' \/ "lose" \in Range(faults')) \/ Durable' = Durable
<1>1. CASE Allowed(Durable, Durable')
  BY <1>1 DEF Allowed, Abstract!QStep, Abstract!QWrite, Abstract!Open, Abstract!QDelete,
              Abstract!QExpire
<1>. QED  BY <1>1 DEF Progress

(* However writes, acknowledgements and expiry are interrupted by crashes   *)
(* and full disks, between any two file system calls, what a start finds    *)
(* behaves as the abstract queue until the queue is deleted or a file of it *)
(* is lost.                                                                 *)
THEOREM JournalStoreImplements ==
    ASSUME CleanTears, RoomForTwo
    PROVE  Spec => ImplementsQueue
<1>1. Init => Abstract!QInit
  <2>1. Init => Rec = <<>> /\ IInv
    BY InitInvariant DEF Init, Rec, StateFile, Recorded, NoLines
  <2>2. Init => Durable = <<>>
    BY <2>1, RecOf DEF IInv, Typed
  <2>. QED  BY <2>2 DEF Abstract!QInit
<1>2. IInv /\ [Next]_vars => [Abstract!QStep \/ deleted' \/ "lose" \in Range(faults')]_Durable
  BY NextKeeps, SameSaid, ProgressIsStep
<1>. QED  BY <1>1, <1>2, JournalInvariant, PTL DEF Spec, ImplementsQueue
=============================================================================
