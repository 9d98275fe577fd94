---------------------------- MODULE JournalStore ----------------------------
(***************************************************************************)
(* The journal message store of the SMP server (MsgStore/Journal.hs): one  *)
(* queue kept in a directory with                                          *)
(*   - one or two journals of messages: the one read from and, once it has *)
(*     MaxMsgCount messages, another one written to;                       *)
(*   - a log of queue states, whose last line says where to read and to    *)
(*     write; it is compacted through a temporary copy (.bak) when opened. *)
(* All operations on a queue run under its lock, so they do not            *)
(* interleave; what can intervene between any two file system calls is a   *)
(* crash, and any of the calls can fail.  An operation is therefore a job: *)
(* a sequence of steps (open, peek, delete...), each of which turns into   *)
(* the effects (file system calls and assignments) that the code performs  *)
(* for it, in the order of the code; every effect is an action.            *)
(*                                                                         *)
(* Positions are counted in messages, not bytes.  Of the state log the     *)
(* last two lines are kept, as the code reads no other: a line is <<st>>,  *)
(* or <<>> if it cannot be parsed.  That the log is long enough to be      *)
(* compacted is a choice.  Journal ids are random in the code: here an id  *)
(* is new when no file and no state uses it.                               *)
(***************************************************************************)
EXTENDS Integers, Sequences, FiniteSets, SequencesExt

CONSTANTS
    Quota,        \* config.quota
    MaxMsgCount,  \* config.maxMsgCount
    MaxSends,     \* bound: messages written
    MaxJournals,  \* bound: journals in use when a new one may be needed
    MaxFaults,    \* bound: crashes, failed appends and lost files
    Ops,          \* operations performed, a subset of Operations
    Faults,       \* what may go wrong, a subset of {"crash", "fail", "lose"}
    Tears         \* what a crash may leave of a line, a subset of LineTears

Operations == {"WRITE", "PEEK", "ACK", "EXPIRE", "RESTART", "DROP"}

(* A crash while a state line is written leaves nothing, a part that cannot *)
(* be parsed, all but the last digit of the size, all but the newline, or   *)
(* the whole line.                                                          *)
LineTears == {"none", "part", "lastDigit", "newline", "whole"}

ASSUME JournalAssumption ==
    /\ {Quota, MaxMsgCount, MaxSends, MaxJournals} \subseteq Nat \ {0}
    /\ MaxFaults \in Nat
    /\ Ops \subseteq Operations
    /\ Faults \subseteq {"crash", "fail", "lose"}
    /\ Tears \subseteq LineTears

VARIABLES
    dir,      \* the directory of the queue exists
    files,    \* the journals: messages by journal id
    log,      \* the state log
    bak,      \* its temporary backup, no lines if there is none
    mem,      \* msgQueue': the opened queue
    qstate,   \* queueState: <<>> if unknown
    job,      \* steps left of the operation that holds the lock
    todo,     \* effects left of the current step
    lastId,   \* the last message id
    deleted,  \* queueRec: the queue is deleted, the server will not load it again
    faults,   \* faults so far, in order
    errors    \* where the code threw an error of its own

disk == <<dir, files, log, bak>>
vars == <<dir, files, log, bak, mem, qstate, job, todo, lastId, deleted, faults, errors>>

JournalId == 1..MaxJournals
Message == [id : 1..MaxSends, quota : BOOLEAN]
Torn == [id |-> 0, quota |-> FALSE]   \* what a torn append leaves in a journal

(* MsgQueueState, newMsgQueueState: journals, positions and counts of the   *)
(* read and the write state.  Of the write state, msgPos = msgCount.        *)
newMsgQueueState(j) ==
    [rj |-> j, rpos |-> 0, rcount |-> 0, wj |-> j, wcount |-> 0,
     canWrite |-> TRUE, size |-> 0]

(* qState *)
qState(st) ==
    [hasPending |-> st.size > 0,
     hasStored |-> st.size > 0 \/ st.rcount > 0 \/ st.wcount > 0]

(* validQueueState *)
validQueueState(st) ==
    /\ st.rpos <= st.rcount
    /\ IF st.rj = st.wj
         THEN st.rcount = st.wcount /\ st.size = st.rcount - st.rpos
         ELSE st.size = st.wcount + st.rcount - st.rpos

(* The opened queue: state, read and write handles (0 is none), tipMsg. *)
Closed == [open |-> FALSE]
Opened(st, rh, wh) ==
    [open |-> TRUE, state |-> st, readHandle |-> rh, writeHandle |-> wh, tip |-> <<>>]

NoLines == [lines |-> <<>>, newline |-> TRUE]
Exists(j) == j \in DOMAIN files

(* readQueueState: a temporary backup replaces the log; the last line is    *)
(* used, or the one before it when the last cannot be parsed.               *)
StateFile == IF bak # NoLines THEN bak ELSE log
Recorded(f) ==
    IF f.lines = <<>> THEN <<>>
    ELSE IF Last(f.lines) # <<>> THEN Last(f.lines) ELSE Head(f.lines)

(* readQueueState throws: neither line can be parsed, or the state is not   *)
(* consistent.                                                              *)
Unreadable(f) ==
    \/ Len(f.lines) = 2 /\ Recorded(f) = <<>>
    \/ Recorded(f) # <<>> /\ ~validQueueState(Recorded(f)[1])

(* shouldBackup: more lines than maxStateLines, or the last line is bad. *)
shouldBackup(f) ==
    IF f.lines # <<>> /\ Last(f.lines) = <<>> THEN {TRUE}
    ELSE IF Len(f.lines) = 2 THEN BOOLEAN ELSE {FALSE}

(* Journals that a state in memory or in a file of the log refers to. *)
Referenced ==
    LET states == {l[1] : l \in {k \in Range(log.lines) \cup Range(bak.lines) : k # <<>>}}
                    \cup (IF mem.open THEN {mem.state} ELSE {})
    IN  {st.rj : st \in states} \cup {st.wj : st \in states}

unusedIds == JournalId \ (DOMAIN files \cup Referenced)

(* newJournalId *)
newJournalId == CHOOSE j \in unusedIds : TRUE

Init ==
    /\ dir = FALSE
    /\ files = <<>>
    /\ log = NoLines
    /\ bak = NoLines
    /\ mem = Closed
    /\ qstate = <<>>
    /\ job = <<>>
    /\ todo = <<>>
    /\ lastId = 0
    /\ deleted = FALSE
    /\ faults = <<>>
    /\ errors = {}
-----------------------------------------------------------------------------
(* The effects an operation consists of, in the order of the code *)

Mkdir == [do |-> "mkdir"]
CreateJournal(j) == [do |-> "create", j |-> j]
RemoveJournal(j) == [do |-> "remove", j |-> j]
FixFileSize(j, pos) == [do |-> "fix", j |-> j, pos |-> pos]
PutMsg(j, msg) == [do |-> "put", j |-> j, msg |-> msg]
AppendState(st) == [do |-> "line", st |-> st]
RestoreBackup == [do |-> "restore"]
TempBackup == [do |-> "temp"]
TimedBackup == [do |-> "timed"]
RetireLog == [do |-> "retire"]
Assign(mq) == [do |-> "assign", mem |-> mq, qstate |-> IF mq.open THEN <<qState(mq.state)>> ELSE qstate]
ReadTip(j, pos) == [do |-> "read", j |-> j, pos |-> pos]
Throw(site) == [do |-> "throw", site |-> site]
RemoveDirectory == [do |-> "rmdir"]

Optional(cond, effects) == IF cond THEN effects ELSE <<>>

(* updateQueueState: the state is logged before it is assigned. *)
updateQueueState(mq, log_, st, tip) ==
    IF ~validQueueState(st) THEN <<Throw("updateQueueState")>>
    ELSE Optional(log_, <<AppendState(st)>>)
           \o <<Assign([mq EXCEPT !.state = st, !.tip = tip])>>

(* Mutant: the log is retired before the new one has its state. *)
openBackupQueueState_OneStep(st, backup) ==
    Optional(backup, <<RetireLog, AppendState(st)>>)

(* openBackupQueueState: the backup is made in two steps, through .bak. *)
openBackupQueueState(st, backup) ==
    Optional(backup, <<TempBackup, AppendState(st), TimedBackup>>)

(* removeJournals: an empty queue is opened without its journals. *)
removeJournals(st, forWrite, backup) ==
    LET j  == newJournalId
        new == newMsgQueueState(j)
    IN  (IF forWrite
           THEN openBackupQueueState(new, backup) \o <<AppendState(new), CreateJournal(j)>>
           ELSE <<RetireLog>>)
        \o <<RemoveJournal(st.rj)>>
        \o Optional(st.wj # st.rj, <<RemoveJournal(st.wj)>>)
        \o <<Assign(Opened(new, IF forWrite THEN j ELSE 0, 0))>>

(* openJournals: what is left of the queue when a journal is missing. *)
newReadJournal ==
    LET new == newMsgQueueState(newJournalId)
    IN  <<CreateJournal(new.rj), AppendState(new), Assign(Opened(new, new.rj, 0))>>

switchedToWrite(st) ==
    [st EXCEPT !.rj = st.wj, !.rpos = 0, !.rcount = st.wcount, !.size = st.wcount]

withoutWrite(st) ==
    [st EXCEPT !.wj = st.rj, !.wcount = st.rcount, !.size = st.rcount - st.rpos]

openJournals(st) ==
    IF st.rj = st.wj
      THEN IF Exists(st.rj)
             THEN <<FixFileSize(st.rj, st.wcount), Assign(Opened(st, st.rj, 0))>>
             ELSE newReadJournal
      ELSE IF Exists(st.rj)
        THEN <<FixFileSize(st.rj, st.rcount)>>
               \o IF Exists(st.wj)
                    THEN <<FixFileSize(st.wj, st.wcount), Assign(Opened(st, st.rj, st.wj))>>
                    ELSE <<Assign(Opened(withoutWrite(st), st.rj, 0))>>
        ELSE IF Exists(st.wj)
          THEN <<FixFileSize(st.wj, st.wcount), Assign(Opened(switchedToWrite(st), st.wj, 0))>>
          ELSE newReadJournal

(* openMsgQueue, and getMsgQueue where the directory does not exist. *)
openMsgQueue(forWrite, backup) ==
    LET f  == StateFile
        st == Recorded(f)
    IN  Optional(bak # NoLines, <<RestoreBackup>>) \o
        IF ~dir THEN <<Assign(Opened(newMsgQueueState(newJournalId), 0, 0))>>
        ELSE IF Unreadable(f) THEN <<Throw("readQueueState")>>
        ELSE IF st = <<>>
          THEN Optional(backup, <<RetireLog>>)
                 \o <<Assign(Opened(newMsgQueueState(newJournalId), 0, 0))>>
        ELSE IF st[1].size = 0
          THEN removeJournals(st[1], forWrite, backup)
          ELSE openBackupQueueState(st[1], backup) \o openJournals(st[1])

(* writeToJournal: the directory and the first journal are created by the   *)
(* first write, another journal once the one written to is full.            *)
writeToJournal(mq, canWrt, msg) ==
    LET st == mq.state
        created == IF mq.readHandle = 0 THEN [mq EXCEPT !.readHandle = st.rj] ELSE mq
        switch == created.writeHandle = 0 /\ st.wcount >= MaxMsgCount
        j  == IF switch THEN newJournalId ELSE st.wj
        pos == IF switch THEN 0 ELSE st.wcount
        switched == IF switch THEN [created EXCEPT !.writeHandle = j] ELSE created
        h  == IF switched.writeHandle = 0 THEN switched.readHandle ELSE switched.writeHandle
        new == [st EXCEPT !.wj = j, !.wcount = pos + 1,
                          !.rcount = IF j = st.rj THEN pos + 1 ELSE @,
                          !.canWrite = canWrt, !.size = @ + 1]
    IN  Optional(mq.readHandle = 0, <<Mkdir, CreateJournal(st.rj), Assign(created)>>)
        \o Optional(switch, <<CreateJournal(j), Assign(switched)>>)
        \o <<FixFileSize(h, pos), PutMsg(h, msg)>>
        \o updateQueueState(switched, TRUE, new,
                            IF st.size = 0 THEN <<[msg EXCEPT !.quota = FALSE]>> ELSE mq.tip)

(* writeMsg of the message with this id *)
writeMsg(id) ==
    LET st == mem.state
        canWrt == Quota > st.size
    IN  Optional(st.canWrite \/ st.size = 0,
                 writeToJournal(mem, canWrt, [id |-> id, quota |-> ~canWrt]))

(* Mutant: the journal read to its end is not removed. *)
tryPeekMsg_KeepsJournal ==
    LET st == mem.state
        switched == switchedToWrite(st)
        mq == [mem EXCEPT !.readHandle = mem.writeHandle, !.writeHandle = 0]
        read(h, pos) == Optional(mem.tip = <<>>, <<ReadTip(h, pos)>>)
    IN  IF mem.readHandle = 0 \/ (st.rpos >= st.rcount /\ st.rj = st.wj) THEN <<>>
        ELSE IF mem.writeHandle # 0 /\ st.rpos >= st.rcount
          THEN <<Assign(mq)>>
                 \o updateQueueState(mq, TRUE, [switched EXCEPT !.size = st.size], mq.tip)
                 \o read(mq.readHandle, 0)
          ELSE read(mem.readHandle, st.rpos)

(* chooseReadJournal and tryPeekMsg_: a read journal read to its end is     *)
(* removed, then reading moves to the journal written to.                   *)
tryPeekMsg ==
    LET st == mem.state
        switched == switchedToWrite(st)
        mq == [mem EXCEPT !.readHandle = mem.writeHandle, !.writeHandle = 0]
        read(h, pos) == Optional(mem.tip = <<>>, <<ReadTip(h, pos)>>)
    IN  IF mem.readHandle = 0 \/ (st.rpos >= st.rcount /\ st.rj = st.wj) THEN <<>>
        ELSE IF mem.writeHandle # 0 /\ st.rpos >= st.rcount
          THEN <<Assign(mq), RemoveJournal(st.rj)>>
                 \o updateQueueState(mq, TRUE, [switched EXCEPT !.size = st.size], mq.tip)
                 \o read(mq.readHandle, 0)
          ELSE read(mem.readHandle, st.rpos)

(* Mutant: the deleted message stays in tipMsg. *)
tryDeleteMsg_KeepsTip(log_) ==
    LET st == [mem.state EXCEPT !.rpos = @ + 1, !.size = @ - 1]
    IN  Optional(mem.tip # <<>> /\ mem.readHandle # 0,
                 updateQueueState(mem, log_, st, mem.tip))

(* tryDeleteMsg_, updateReadPos: nothing if no message was peeked. *)
tryDeleteMsg(log_) ==
    LET st == [mem.state EXCEPT !.rpos = @ + 1, !.size = @ - 1]
    IN  Optional(mem.tip # <<>> /\ mem.readHandle # 0,
                 updateQueueState(mem, log_, st, <<>>))

(* Mutant: nothing is logged. *)
logQueueState_None == <<>>

(* logQueueState *)
logQueueState == Optional(mem.readHandle # 0, <<AppendState(mem.state)>>)
-----------------------------------------------------------------------------
(* Operations: each takes the lock of the queue and has a job to do *)

Idle == job = <<>> /\ todo = <<>>

OpenStep(forWrite) == [step |-> "open", forWrite |-> forWrite]
PeekStep == [step |-> "peek"]
DeleteStep(log_) == [step |-> "delete", log |-> log_]
CloseStep == [step |-> "close"]

Begin(op, steps) ==
    /\ Idle
    /\ op \in Ops
    /\ job' = steps
    /\ UNCHANGED <<disk, mem, qstate, todo, faults, errors>>

(* writeMsg, on SEND *)
Write(m) ==
    /\ m = lastId + 1
    /\ lastId' = m
    /\ Begin("WRITE", <<OpenStep(TRUE), [step |-> "write", id |-> m]>>)
    /\ UNCHANGED deleted

(* getPeekMsgQueue: the queue known to be empty is not opened, and the one  *)
(* just learnt to be empty is closed.                                       *)
getPeekMsgQueue ==
    IF qstate = <<>> THEN <<OpenStep(FALSE), PeekStep, [step |-> "closeEmpty"]>>
    ELSE Optional(qstate[1].hasPending, <<OpenStep(FALSE), PeekStep>>)

(* tryPeekMsg, on SUB and GET *)
Peek ==
    /\ getPeekMsgQueue # <<>>
    /\ Begin("PEEK", getPeekMsgQueue)
    /\ UNCHANGED <<lastId, deleted>>

(* tryDelPeekMsg, on ACK *)
Ack(m) ==
    /\ getPeekMsgQueue # <<>>
    /\ Begin("ACK", getPeekMsgQueue \o <<[step |-> "ack", id |-> m]>>)
    /\ UNCHANGED <<lastId, deleted>>

(* expireQueueMsgs with withIdleMsgQueue: a queue without stored messages   *)
(* is not opened; n messages are past their ttl.                            *)
Expire(n) ==
    /\ mem.open \/ (qstate # <<>> => qstate[1].hasStored)
    /\ Begin("EXPIRE", Optional(~mem.open, <<OpenStep(FALSE)>>)
                         \o Optional(qstate = <<>>, <<[step |-> "closeUnstored"]>>)
                         \o <<[step |-> "expire", n |-> n], CloseStep>>)
    /\ UNCHANGED <<lastId, deleted>>

(* closeMsgStore, and the start of the server, which loads queue records only. *)
Restart ==
    /\ Idle
    /\ "RESTART" \in Ops
    /\ ~deleted
    /\ mem' = Closed
    /\ qstate' = <<>>
    /\ UNCHANGED <<disk, job, todo, lastId, deleted, faults, errors>>

(* deleteQueue_: queueState is left as it was.  What is done with the queue *)
(* afterwards are operations that found it before.                          *)
Drop ==
    /\ ~deleted
    /\ deleted' = TRUE
    /\ Begin("DROP", <<CloseStep, [step |-> "rmdir"]>>)
    /\ UNCHANGED lastId

(* The effects of the next step of the job, and the steps put in its place. *)
Plan(effects, steps) ==
    /\ todo' = effects
    /\ job' = steps \o Tail(job)
    /\ UNCHANGED <<disk, mem, qstate, lastId, deleted, faults, errors>>

NextStep(name) == todo = <<>> /\ job # <<>> /\ Head(job).step = name

Open ==
    /\ NextStep("open")
    /\ unusedIds # {}
    /\ IF mem.open THEN Plan(<<>>, <<>>)
       ELSE \E backup \in shouldBackup(StateFile) :
              Plan(openMsgQueue(Head(job).forWrite, backup), <<>>)

WriteMsg ==
    /\ NextStep("write")
    /\ unusedIds # {}
    /\ Plan(writeMsg(Head(job).id), <<>>)

PeekMsg == NextStep("peek") /\ Plan(tryPeekMsg, <<>>)

DeleteMsg == NextStep("delete") /\ Plan(tryDeleteMsg(Head(job).log), <<>>)

(* Mutant: the deletion is not logged. *)
AckMsg_NotLogged ==
    /\ NextStep("ack")
    /\ LET matches == mem.open /\ mem.tip # <<>> /\ mem.tip[1].id = Head(job).id
       IN  Plan(<<>>, Optional(matches, <<DeleteStep(FALSE), PeekStep>>))

(* tryDelPeekMsg: the head is deleted if it has the acknowledged id, and    *)
(* the next message is peeked.                                              *)
AckMsg ==
    /\ NextStep("ack")
    /\ LET matches == mem.open /\ mem.tip # <<>> /\ mem.tip[1].id = Head(job).id
       IN  Plan(<<>>, Optional(matches, <<DeleteStep(TRUE), PeekStep>>))

(* deleteExpireMsgs_: peek; delete while expired, without logging; log once. *)
ExpireMsgs ==
    /\ NextStep("expire")
    /\ Plan(<<>>, <<PeekStep, [step |-> "expired", n |-> Head(job).n]>>)

ExpiredMsg ==
    /\ NextStep("expired")
    /\ LET n == Head(job).n
           expired == n > 0 /\ mem.tip # <<>> /\ ~mem.tip[1].quota
       IN  IF expired
             THEN Plan(<<>>, <<DeleteStep(FALSE), [step |-> "expire", n |-> n - 1]>>)
             ELSE Plan(logQueueState, <<>>)

(* closeMsgQueue: always, if a peek found nothing, or if nothing is stored. *)
Close ==
    /\ todo = <<>> /\ job # <<>>
    /\ \/ Head(job).step = "close" /\ Plan(<<Assign(Closed)>>, <<>>)
       \/ /\ Head(job).step = "closeEmpty"
          /\ Plan(Optional(mem.tip = <<>>, <<Assign(Closed)>>), <<>>)
       \/ /\ Head(job).step = "closeUnstored"
          /\ IF qstate[1].hasStored THEN Plan(<<>>, <<>>)
             ELSE /\ todo' = <<Assign(Closed)>>
                  /\ job' = <<>>
                  /\ UNCHANGED <<disk, mem, qstate, lastId, deleted, faults, errors>>

RemoveQueueDirectory == NextStep("rmdir") /\ Plan(<<RemoveDirectory>>, <<>>)
-----------------------------------------------------------------------------
(* Effects *)

(* A line appended to a log that does not end in a newline spoils its last  *)
(* line.  The last two lines are kept.                                      *)
AddLine(f, line) ==
    LET lines == IF f.newline THEN Append(f.lines, line) ELSE Append(Front(f.lines), <<>>)
    IN  [lines |-> SubSeq(lines, IF Len(lines) > 2 THEN 2 ELSE 1, Len(lines)), newline |-> TRUE]

Doing(name) == todo # <<>> /\ Head(todo).do = name

Done == todo' = Tail(todo) /\ UNCHANGED <<job, lastId, deleted, faults, errors>>

(* The operation ends in an exception, tryStore turns it into an error; the *)
(* brackets of withIdleMsgQueue close the queue.                            *)
Exception ==
    /\ todo' = <<>>
    /\ job' = <<>>
    /\ mem' = IF CloseStep \in Range(job) THEN Closed ELSE mem
    /\ UNCHANGED <<qstate, lastId, deleted>>

DoMkdir ==
    /\ Doing("mkdir")
    /\ dir' = TRUE
    /\ Done
    /\ UNCHANGED <<files, log, bak, mem, qstate>>

DoCreate ==
    /\ Doing("create")
    /\ files' = [j \in DOMAIN files \cup {Head(todo).j} |->
                   IF Exists(j) THEN files[j] ELSE <<>>]
    /\ Done
    /\ UNCHANGED <<dir, log, bak, mem, qstate>>

DoRemove ==
    /\ Doing("remove")
    /\ files' = [j \in DOMAIN files \ {Head(todo).j} |-> files[j]]
    /\ Done
    /\ UNCHANGED <<dir, log, bak, mem, qstate>>

(* Mutant: a longer file is left as it is. *)
DoFixFileSize_KeepsTail ==
    /\ Doing("fix")
    /\ Len(files[Head(todo).j]) >= Head(todo).pos
    /\ Done
    /\ UNCHANGED <<disk, mem, qstate>>

(* fixFileSize: a longer file is truncated. *)
DoFixFileSize ==
    /\ Doing("fix")
    /\ LET e == Head(todo)
       IN  /\ Len(files[e.j]) >= e.pos
           /\ files' = [files EXCEPT ![e.j] = SubSeq(@, 1, e.pos)]
    /\ Done
    /\ UNCHANGED <<dir, log, bak, mem, qstate>>

DoPut ==
    /\ Doing("put")
    /\ files' = [files EXCEPT ![Head(todo).j] = Append(@, Head(todo).msg)]
    /\ Done
    /\ UNCHANGED <<dir, log, bak, mem, qstate>>

DoAppendState ==
    /\ Doing("line")
    /\ log' = AddLine(log, <<Head(todo).st>>)
    /\ Done
    /\ UNCHANGED <<dir, files, bak, mem, qstate>>

DoRename ==
    /\ \/ Doing("restore") /\ log' = bak /\ bak' = NoLines
       \/ Doing("temp") /\ bak' = log /\ log' = NoLines
       \/ Doing("timed") /\ bak' = NoLines /\ UNCHANGED log
       \/ Doing("retire") /\ log' = NoLines /\ UNCHANGED bak
    /\ Done
    /\ UNCHANGED <<dir, files, mem, qstate>>

DoAssign ==
    /\ Doing("assign")
    /\ mem' = Head(todo).mem
    /\ qstate' = Head(todo).qstate
    /\ Done
    /\ UNCHANGED disk

Readable(j, pos) == Exists(j) /\ pos < Len(files[j]) /\ files[j][pos + 1] # Torn

(* hGetMsgAt *)
DoRead ==
    /\ Doing("read")
    /\ LET e == Head(todo)
       IN  /\ Readable(e.j, e.pos)
           /\ mem' = [mem EXCEPT !.tip = <<files[e.j][e.pos + 1]>>]
    /\ Done
    /\ UNCHANGED <<disk, qstate>>

(* The errors the code throws itself. *)
ThrownBy(e) ==
    IF e.do = "throw" THEN {e.site}
    ELSE IF e.do = "fix" /\ Len(files[e.j]) < e.pos THEN {"fixFileSize"}
    ELSE IF e.do = "read" /\ ~Readable(e.j, e.pos) THEN {"hGetMsgAt"}
    ELSE {}

DoThrow ==
    /\ todo # <<>>
    /\ ThrownBy(Head(todo)) # {}
    /\ errors' = errors \cup ThrownBy(Head(todo))
    /\ Exception
    /\ UNCHANGED <<disk, faults>>

(* removeQueueDirectory *)
DoRemoveDirectory ==
    /\ Doing("rmdir")
    /\ dir' = FALSE
    /\ files' = <<>>
    /\ log' = NoLines
    /\ bak' = NoLines
    /\ Done
    /\ UNCHANGED <<mem, qstate>>
-----------------------------------------------------------------------------
(* Faults *)

Fault(kind) ==
    /\ kind \in Faults
    /\ Len(faults) < MaxFaults
    /\ faults' = Append(faults, kind)
    /\ ~deleted

(* What a crash can leave of a message appended to a journal, and of a line *)
(* appended to the state log.                                               *)
TornPut ==
    \E torn \in {<<>>, <<Torn>>, <<Head(todo).msg>>} :
      files' = [files EXCEPT ![Head(todo).j] = @ \o torn]

Unended(f) == [f EXCEPT !.newline = FALSE]

TornLine(f, st, tear) ==
    CASE tear = "none" -> f
      [] tear = "part" -> Unended(AddLine(f, <<>>))
      [] tear = "lastDigit" ->
           Unended(AddLine(f, IF st.size < 10 THEN <<>> ELSE <<[st EXCEPT !.size = @ \div 10]>>))
      [] tear = "newline" -> Unended(AddLine(f, <<st>>))
      [] tear = "whole" -> AddLine(f, <<st>>)

(* The server stops between two effects or within an append, and starts. *)
Crash ==
    /\ Fault("crash")
    /\ IF Doing("put") THEN TornPut ELSE UNCHANGED files
    /\ IF Doing("line") THEN \E tear \in Tears : log' = TornLine(log, Head(todo).st, tear)
                       ELSE UNCHANGED log
    /\ mem' = Closed
    /\ qstate' = <<>>
    /\ job' = <<>>
    /\ todo' = <<>>
    /\ UNCHANGED <<dir, bak, lastId, deleted, errors>>

(* The disk is full when a message is appended to a journal. *)
Fail ==
    /\ Fault("fail")
    /\ Doing("put")
    /\ TornPut
    /\ Exception
    /\ UNCHANGED <<dir, log, bak, errors>>

(* A journal file disappears while the queue is closed. *)
Lose(j) ==
    /\ Fault("lose")
    /\ Idle /\ ~mem.open
    /\ Exists(j)
    /\ files' = [k \in DOMAIN files \ {j} |-> files[k]]
    /\ UNCHANGED <<dir, log, bak, mem, qstate, job, todo, lastId, deleted, errors>>

Step ==
    \/ Open \/ WriteMsg \/ PeekMsg \/ DeleteMsg \/ AckMsg
    \/ ExpireMsgs \/ ExpiredMsg \/ Close \/ RemoveQueueDirectory
    \/ DoMkdir \/ DoCreate \/ DoRemove \/ DoFixFileSize \/ DoPut
    \/ DoAppendState \/ DoRename \/ DoAssign \/ DoRead \/ DoThrow
    \/ DoRemoveDirectory

Next ==
    \/ \E m \in 1..MaxSends : Write(m) \/ Ack(m)
    \/ Peek
    \/ \E n \in 0..Quota : Expire(n)
    \/ Restart
    \/ Drop
    \/ Step
    \/ Crash
    \/ Fail
    \/ \E j \in JournalId : Lose(j)

Spec == Init /\ [][Next]_vars
-----------------------------------------------------------------------------
(* Properties *)

(* The messages between the positions of a state, of the journals that exist. *)
Messages(st) ==
    LET part(j, from, to) == IF Exists(j) THEN SubSeq(files[j], from + 1, to) ELSE <<>>
    IN  part(st.rj, st.rpos, st.rcount)
          \o Optional(st.rj # st.wj, part(st.wj, 0, st.wcount))

(* The queue as the server finds it if it is started now. *)
Durable ==
    LET st == Recorded(StateFile)
    IN  IF ~dir \/ st = <<>> THEN <<>> ELSE Messages(st[1])

(* The code meets none of the inconsistencies for which it throws an error  *)
(* of its own: what is stored can be read, its state is valid, and, unless  *)
(* an append has failed, no journal is shorter than its state says.         *)
NoStoreError ==
    errors \subseteq (IF "fail" \in Range(faults) THEN {"fixFileSize"} ELSE {})

(* When an operation has ended, what the next start of the server finds in  *)
(* the files is what the queue in memory holds: an answered SEND, ACK or    *)
(* expiry is not undone by a crash.                                         *)
MemoryIsDurable == Idle /\ mem.open => Messages(mem.state) = Durable

(* tipMsg, kept so that a message is not read twice, is the message at the  *)
(* read position, whatever journals were switched since.                    *)
TipIsHead ==
    mem.open => (mem.tip # <<>> =>
                   Messages(mem.state) # <<>> /\ mem.tip[1] = Head(Messages(mem.state)))

(* A queue known to have nothing pending, for which SUB does not open the   *)
(* files, has no messages in them.                                          *)
PendingIsKnown ==
    Idle => (qstate # <<>> /\ ~qstate[1].hasPending => Durable = <<>>)

(* Without faults no journal stays on disk that no state refers to, and a   *)
(* queue known to store nothing, which expiry skips, has no message on disk.*)
NoOrphanJournals ==
    Idle /\ faults = <<>> =>
      /\ DOMAIN files \subseteq Referenced
      /\ qstate # <<>> /\ ~qstate[1].hasStored =>
           \A j \in DOMAIN files : files[j] = <<>>

(* The messages found on a start, through every effect, every crash and     *)
(* every failed append, behave as the abstract queue: only an               *)
(* acknowledgement or expiry takes a message away, in order from the head,  *)
(* and nothing but a write adds one - until the queue is deleted or one of  *)
(* its files is lost.                                                       *)
Abstract == INSTANCE QueueSpec WITH queue <- Durable, Expires <- "EXPIRE" \in Ops
ImplementsQueue ==
    Abstract!QInit /\ [][Abstract!QStep \/ deleted' \/ "lose" \in Range(faults')]_Durable
=============================================================================
