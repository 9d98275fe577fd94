----------------------------- MODULE QueueStore -----------------------------
(***************************************************************************)
(* The queue store of the SMP server kept in memory (QueueStore/STM.hs)    *)
(* and its store log (StoreLog.hs, StoreLog/ReadWrite.hs).                 *)
(*                                                                         *)
(* An operation is two steps: one STM transaction on the maps in memory,   *)
(* then, in the same thread but outside of the transaction, one line       *)
(* appended to the log; the client is answered after the second.  The log  *)
(* is replayed at start by the operations themselves, and compacted: the   *)
(* old log is kept as the ".start" file until the new one is complete.     *)
(*                                                                         *)
(* A log file is represented by the store that its replay gives: replay is *)
(* a fold of its lines, so appending a line applies the line to that       *)
(* store.  The last line of a log cut by a crash does not parse and is     *)
(* skipped (printError), which is the same as not having been written.     *)
(***************************************************************************)
EXTENDS Naturals, FiniteSets

CONSTANTS
    RecipientId, SenderId, NotifierId, LinkId, ServiceId,
    Cert,         \* fingerprints of service certificates
    Role,         \* roles of services
    Key,          \* sender keys
    RcvKeys,      \* lists of recipient keys
    LinkData,     \* pairs: the fixed and the user data of a link
    Date,
    Thread,       \* client threads of the server
    None,         \* Nothing, and a file that does not exist
    Absent,       \* not in the map of queues
    Deleted,      \* in the map of queues, with queueRec = Nothing
    MaxOps, MaxCrashes, MaxFails   \* bounds

ASSUME StoreAssumption ==
    /\ {MaxOps, MaxCrashes, MaxFails} \subseteq Nat
    /\ {None, Absent, Deleted} \cap (RecipientId \cup SenderId \cup NotifierId
           \cup LinkId \cup ServiceId \cup Key \cup Date) = {}
    /\ Absent # Deleted

(* Each map has ids of its own kind, and nothing compares ids of different  *)
(* kinds: they may as well be different values (see claimed).               *)
ASSUME KindAssumption ==
    /\ RecipientId \cap (SenderId \cup NotifierId \cup LinkId \cup ServiceId) = {}
    /\ SenderId \cap (NotifierId \cup LinkId \cup ServiceId) = {}
    /\ NotifierId \cap (LinkId \cup ServiceId) = {}
    /\ LinkId \cap ServiceId = {}

VARIABLES
    mem,        \* the maps of STMQueueStore
    file,       \* the store log, as the store it replays to
    start,      \* the file with suffix .start, likewise
    phase,      \* of the server process
    inflight,   \* thread -> an operation done in memory and not yet logged
    told,       \* recipient id -> what clients were told about the queue
    secured,    \* recipient id -> the sender key whose KEY or SKEY was answered OK
    unsure,     \* ids of operations that failed, overlapped or were cut by a crash
    ops, crashes, fails

vars == <<mem, file, start, phase, inflight, told, secured, unsure, ops, crashes, fails>>
history == <<told, secured, unsure>>
counters == <<ops, crashes, fails>>

-----------------------------------------------------------------------------
(* Data *)

Maybe(S) == S \cup {None}

NtfCreds == [notifierId : NotifierId, ntfServiceId : Maybe(ServiceId)]

Status == {"active", "blocked", "off"}

QueueRec ==
    [senderId : SenderId, senderKey : Maybe(Key), recipientKeys : RcvKeys,
     queueData : Maybe(LinkId \X LinkData), notifier : Maybe(NtfCreds),
     status : Status, updatedAt : Maybe(Date), rcvServiceId : Maybe(ServiceId)]

(* The ids a service is associated with, and the xor of their hashes: the  *)
(* set of ids that were combined into it an odd number of times.           *)
IdsHash(S) == [ids : SUBSET S, hash : SUBSET S]

Service == [cert : Cert, role : Role, rcv : IdsHash(RecipientId), ntf : IdsHash(NotifierId)]

Store ==
    [queues : [RecipientId -> QueueRec \cup {Absent, Deleted}],
     senders : [SenderId -> Maybe(RecipientId)],
     notifiers : [NotifierId -> Maybe(RecipientId)],
     links : [LinkId -> Maybe(RecipientId)],
     services : [ServiceId -> Maybe(Service)],
     serviceCerts : [Cert -> Maybe(ServiceId)]]

(* A line of the log. *)
Line ==
    [id : RecipientId, op : {"CreateQueue"}, arg : QueueRec]
    \cup [id : RecipientId, op : {"CreateLink"}, arg : LinkId \X LinkData]
    \cup [id : RecipientId, op : {"SecureQueue"}, arg : Key]
    \cup [id : RecipientId, op : {"UpdateKeys"}, arg : RcvKeys]
    \cup [id : RecipientId, op : {"AddNotifier"}, arg : NtfCreds]
    \cup [id : RecipientId, op : {"UpdateTime"}, arg : Date]
    \cup [id : RecipientId, op : {"DeleteLink", "DeleteNotifier", "SuspendQueue", "BlockQueue",
                                  "UnblockQueue", "DeleteQueue"}, arg : {None}]
    \cup [id : RecipientId, op : {"RcvService", "NtfService"}, arg : Maybe(ServiceId)]
    \cup [id : ServiceId, op : {"NewService"}, arg : [cert : Cert, role : Role]]

(* An operation between its transaction and its line, with what it claims  *)
(* and uses (see interferes).                                              *)
Job ==
    [line : Line,
     claims : SUBSET (RecipientId \cup SenderId \cup NotifierId \cup LinkId \cup ServiceId),
     uses : SUBSET ServiceId]

(* Nothing, and the marks of a queue that is not there, are no values.     *)
ASSUME SentinelAssumption ==
    {None, Absent, Deleted}
        \cap (QueueRec \cup NtfCreds \cup (LinkId \X LinkData) \cup Service \cup Store \cup Job) = {}

newQueueStore ==
    [queues |-> [r \in RecipientId |-> Absent],
     senders |-> [s \in SenderId |-> None],
     notifiers |-> [n \in NotifierId |-> None],
     links |-> [l \in LinkId |-> None],
     services |-> [s \in ServiceId |-> None],
     serviceCerts |-> [c \in Cert |-> None]]

Refused == None   \* the operation returns an error and changes nothing

isLive(st, r) == st.queues[r] \notin {Absent, Deleted}

-----------------------------------------------------------------------------
(* The transactions: the store after the operation, or Refused.  They are  *)
(* used by the server and by the replay of the log alike.                  *)

put(st, r, q) == [st EXCEPT !.queues[r] = q]

toggle(v, id) == (v \ {id}) \cup ({id} \ v)

addServiceQueue(st, kind, id, s) ==
    IF s = None \/ st.services[s] = None THEN st
    ELSE LET had == st.services[s][kind]
         IN  [st EXCEPT !.services[s][kind] =
                 [ids |-> had.ids \cup {id}, hash |-> toggle(had.hash, id)]]

removeServiceQueue(st, kind, id, s) ==
    IF s = None \/ st.services[s] = None THEN st
    ELSE LET had == st.services[s][kind]
         IN  [st EXCEPT !.services[s][kind] =
                 [ids |-> had.ids \ {id}, hash |-> toggle(had.hash, id)]]

removeNotifier(st, nc) ==
    IF nc = None THEN st
    ELSE removeServiceQueue([st EXCEPT !.notifiers[nc.notifierId] = None],
                            "ntf", nc.notifierId, nc.ntfServiceId)

hasId(st, r, q) ==
    \/ st.queues[r] # Absent
    \/ st.senders[q.senderId] # None
    \/ q.notifier # None /\ st.notifiers[q.notifier.notifierId] # None
    \/ q.queueData # None /\ st.links[q.queueData[1]] # None

addQueue(st, r, q) ==
    IF hasId(st, r, q) THEN Refused
    ELSE LET base == [put(st, r, q) EXCEPT !.senders[q.senderId] = r]
             ntf == IF q.notifier = None THEN base
                    ELSE addServiceQueue([base EXCEPT !.notifiers[q.notifier.notifierId] = r],
                             "ntf", q.notifier.notifierId, q.notifier.ntfServiceId)
             link == IF q.queueData = None THEN ntf
                     ELSE [ntf EXCEPT !.links[q.queueData[1]] = r]
         IN  addServiceQueue(link, "rcv", r, q.rcvServiceId)

addQueueLinkData(st, r, l, d) ==
    LET q == st.queues[r]
        same == q.queueData[1] = l /\ q.queueData[2][1] = d[1]
    IN  IF (q.queueData = None \/ same) /\ st.links[l] \in {None, r}
        THEN [put(st, r, [q EXCEPT !.queueData = <<l, d>>]) EXCEPT !.links[l] = r]
        ELSE Refused

deleteQueueLinkData(st, r) ==
    LET q == st.queues[r]
    IN  IF q.queueData = None THEN st
        ELSE [put(st, r, [q EXCEPT !.queueData = None]) EXCEPT !.links[q.queueData[1]] = None]

updateKeys(st, r, ks) == put(st, r, [st.queues[r] EXCEPT !.recipientKeys = ks])

(* Mutant: a second key replaces the first. *)
secureQueue_Again(st, r, k) == put(st, r, [st.queues[r] EXCEPT !.senderKey = k])

secureQueue(st, r, k) ==
    IF st.queues[r].senderKey \in {None, k}
    THEN put(st, r, [st.queues[r] EXCEPT !.senderKey = k])
    ELSE Refused

(* Mutant: the previous notifier is not removed. *)
addQueueNotifier_KeepsPrevious(st, r, nc) ==
    IF st.notifiers[nc.notifierId] # None THEN Refused
    ELSE [put(st, r, [st.queues[r] EXCEPT !.notifier = nc]) EXCEPT !.notifiers[nc.notifierId] = r]

addQueueNotifier(st, r, nc) ==
    LET q == st.queues[r]
    IN  IF st.notifiers[nc.notifierId] # None THEN Refused
        ELSE [put(removeNotifier(st, q.notifier), r, [q EXCEPT !.notifier = nc])
                EXCEPT !.notifiers[nc.notifierId] = r]

deleteQueueNotifier(st, r) ==
    LET q == st.queues[r]
    IN  put(removeNotifier(st, q.notifier), r, [q EXCEPT !.notifier = None])

setStatus(st, r, status) == put(st, r, [st.queues[r] EXCEPT !.status = status])

updateQueueTime(st, r, t) == put(st, r, [st.queues[r] EXCEPT !.updatedAt = t])

(* Mutant: the queue stays with its service. *)
deleteStoreQueue_KeepsService(st, r) ==
    LET q == st.queues[r]
    IN  removeNotifier([put(st, r, Deleted) EXCEPT !.senders[q.senderId] = None], q.notifier)

deleteStoreQueue(st, r) ==
    LET q == st.queues[r]
        gone == [put(st, r, Deleted) EXCEPT !.senders[q.senderId] = None]
    IN  removeNotifier(removeServiceQueue(gone, "rcv", r, q.rcvServiceId), q.notifier)

(* A service that is known by its certificate keeps its id. *)
getCreateService(st, s, c, role) ==
    LET empty == [ids |-> {}, hash |-> {}]
        create == [st EXCEPT !.services[s] = [cert |-> c, role |-> role, rcv |-> empty, ntf |-> empty],
                             !.serviceCerts[c] = s]
        known == st.serviceCerts[c]
    IN  IF known # None /\ st.services[known] # None
        THEN IF st.services[known].role = role THEN st ELSE Refused
        ELSE IF known = None /\ st.services[s] # None THEN Refused ELSE create

moveServiceQueue(st, kind, id, prev, s) ==
    addServiceQueue(removeServiceQueue(st, kind, id, prev), kind, id, s)

setRcvService(st, r, s) ==
    LET q == st.queues[r]
    IN  IF q.rcvServiceId = s THEN st
        ELSE put(moveServiceQueue(st, "rcv", r, q.rcvServiceId, s), r, [q EXCEPT !.rcvServiceId = s])

setNtfService(st, r, s) ==
    LET q == st.queues[r]
        nc == q.notifier
    IN  IF nc = None THEN Refused
        ELSE IF nc.ntfServiceId = s THEN st
        ELSE put(moveServiceQueue(st, "ntf", nc.notifierId, nc.ntfServiceId, s),
                 r, [q EXCEPT !.notifier.ntfServiceId = s])

(* One line of the log, and what the server does when it executes the      *)
(* command that writes it: an operation on a queue that is not in the map  *)
(* or was deleted is refused (AUTH), or skipped by the replay.             *)
procLogRecord(st, line) ==
    LET r == line.id
    IN  IF line.op = "CreateQueue" THEN addQueue(st, r, line.arg)
        ELSE IF line.op = "NewService" THEN getCreateService(st, line.id, line.arg.cert, line.arg.role)
        ELSE IF ~isLive(st, r) THEN Refused
        ELSE CASE line.op = "CreateLink" -> addQueueLinkData(st, r, line.arg[1], line.arg[2])
               [] line.op = "DeleteLink" -> deleteQueueLinkData(st, r)
               [] line.op = "SecureQueue" -> secureQueue(st, r, line.arg)
               [] line.op = "UpdateKeys" -> updateKeys(st, r, line.arg)
               [] line.op = "AddNotifier" -> addQueueNotifier(st, r, line.arg)
               [] line.op = "DeleteNotifier" -> deleteQueueNotifier(st, r)
               [] line.op = "SuspendQueue" -> setStatus(st, r, "off")
               [] line.op = "BlockQueue" -> setStatus(st, r, "blocked")
               [] line.op = "UnblockQueue" -> setStatus(st, r, "active")
               [] line.op = "UpdateTime" -> updateQueueTime(st, r, line.arg)
               [] line.op = "DeleteQueue" -> deleteStoreQueue(st, r)
               [] line.op = "RcvService" -> setRcvService(st, r, line.arg)
               [] line.op = "NtfService" -> setNtfService(st, r, line.arg)

(* A file after one more line: a line that is refused is only reported. *)
appended(f, line) ==
    LET st == procLogRecord(f, line) IN IF st = Refused THEN f ELSE st

-----------------------------------------------------------------------------
(* Which operations interfere.  An operation claims the queue it changes   *)
(* and the other ids that the queue holds before or after it; it uses the  *)
(* services that the queue is associated with.                             *)

heldIds(q) ==
    {q.senderId} \cup (IF q.notifier = None THEN {} ELSE {q.notifier.notifierId})
                 \cup (IF q.queueData = None THEN {} ELSE {q.queueData[1]})

usedServices(q) ==
    ({q.rcvServiceId} \cup (IF q.notifier = None THEN {} ELSE {q.notifier.ntfServiceId})) \ {None}

recsOf(line, before, after) ==
    IF line.op = "NewService" THEN {}
    ELSE {before.queues[line.id], after.queues[line.id]} \ {Absent, Deleted}

claimed(line, before, after) ==
    {line.id} \cup UNION {heldIds(q) : q \in recsOf(line, before, after)}

used(line, before, after) == UNION {usedServices(q) : q \in recsOf(line, before, after)}

interferes(a, b) ==
    a.claims \cap (b.claims \cup b.uses) # {} \/ b.claims \cap a.uses # {}

-----------------------------------------------------------------------------
(* Operations of the running server *)

Init ==
    /\ mem = newQueueStore
    /\ file = None
    /\ start = None
    /\ phase = "down"
    /\ inflight = [t \in Thread |-> None]
    /\ told = [r \in RecipientId |-> Absent]
    /\ secured = [r \in RecipientId |-> None]
    /\ unsure = {}
    /\ ops = 0 /\ crashes = 0 /\ fails = 0

(* The transaction of an operation that is accepted.  What is refused      *)
(* changes nothing and is not logged.                                      *)
Transact(t, line) ==
    LET after == procLogRecord(mem, line)
        job == [line |-> line, claims |-> claimed(line, mem, after), uses |-> used(line, mem, after)]
        others == {inflight[u] : u \in {v \in Thread : inflight[v] # None}}
        rivals == {o \in others : interferes(job, o)}
    IN  /\ phase = "running" /\ inflight[t] = None /\ ops < MaxOps
        /\ after # Refused
        /\ mem' = after
        /\ inflight' = [inflight EXCEPT ![t] = job]
        /\ unsure' = IF rivals # {} \/ (job.claims \cup job.uses) \cap unsure # {}
                     THEN unsure \cup job.claims \cup UNION {o.claims : o \in rivals}
                     ELSE unsure
        /\ ops' = ops + 1
        /\ UNCHANGED <<file, start, phase, crashes, fails>>

(* A command names a queue that some client has been told about.  What the *)
(* server checks before on the record that it read when the command was    *)
(* verified (mode, status, link) may have changed and is no guard here.    *)
QueueOp(t, line) ==
    /\ told[line.id] # Absent
    /\ Transact(t, line)
    /\ UNCHANGED <<told, secured>>

AddQueue(t) ==
    \E r \in RecipientId, s \in SenderId, ks \in RcvKeys, qd \in Maybe(LinkId \X LinkData),
       n \in Maybe(NotifierId), d \in Date,
       sv \in {None} \cup {s \in ServiceId : mem.services[s] # None} :
        /\ Transact(t, [id |-> r, op |-> "CreateQueue", arg |->
               [senderId |-> s, senderKey |-> None, recipientKeys |-> ks, queueData |-> qd,
                notifier |-> IF n = None THEN None ELSE [notifierId |-> n, ntfServiceId |-> None],
                status |-> "active", updatedAt |-> d, rcvServiceId |-> sv]])
        /\ told' = [told EXCEPT ![r] = Absent]
        /\ secured' = [secured EXCEPT ![r] = None]

AddQueueLinkData(t) ==
    \E r \in RecipientId, l \in LinkId, d \in LinkData :
        QueueOp(t, [id |-> r, op |-> "CreateLink", arg |-> <<l, d>>])

DeleteQueueLinkData(t) ==
    \E r \in RecipientId : QueueOp(t, [id |-> r, op |-> "DeleteLink", arg |-> None])

UpdateKeys(t) ==
    \E r \in RecipientId, ks \in RcvKeys : QueueOp(t, [id |-> r, op |-> "UpdateKeys", arg |-> ks])

SecureQueue(t) ==
    \E r \in RecipientId, k \in Key : QueueOp(t, [id |-> r, op |-> "SecureQueue", arg |-> k])

AddQueueNotifier(t) ==
    \E r \in RecipientId, n \in NotifierId :
        QueueOp(t, [id |-> r, op |-> "AddNotifier",
                    arg |-> [notifierId |-> n, ntfServiceId |-> None]])

DeleteQueueNotifier(t) ==
    \E r \in RecipientId : QueueOp(t, [id |-> r, op |-> "DeleteNotifier", arg |-> None])

SuspendQueue(t) ==
    \E r \in RecipientId : QueueOp(t, [id |-> r, op |-> "SuspendQueue", arg |-> None])

BlockQueue(t) ==
    \E r \in RecipientId : QueueOp(t, [id |-> r, op |-> "BlockQueue", arg |-> None])

UnblockQueue(t) ==
    \E r \in RecipientId : QueueOp(t, [id |-> r, op |-> "UnblockQueue", arg |-> None])

(* Only a new date is written and logged. *)
UpdateQueueTime(t) ==
    \E r \in RecipientId, d \in Date :
        /\ isLive(mem, r) /\ mem.queues[r].updatedAt # d
        /\ QueueOp(t, [id |-> r, op |-> "UpdateTime", arg |-> d])

DeleteStoreQueue(t) ==
    \E r \in RecipientId : QueueOp(t, [id |-> r, op |-> "DeleteQueue", arg |-> None])

(* Ids of services are random: one that queues still refer to is not drawn *)
(* again.  A service that exists already is not logged.                    *)
GetCreateService(t) ==
    \E s \in ServiceId, c \in Cert, role \in Role :
        /\ mem.serviceCerts[c] = None
        /\ \A r \in RecipientId : isLive(mem, r) => s \notin usedServices(mem.queues[r])
        /\ Transact(t, [id |-> s, op |-> "NewService", arg |-> [cert |-> c, role |-> role]])
        /\ UNCHANGED <<told, secured>>

(* A client of the service subscribes to the queue or to notifications, or *)
(* a client that is not a service does.                                    *)
SetQueueService(t) ==
    \E r \in RecipientId, party \in {"RcvService", "NtfService"},
       s \in {None} \cup {x \in ServiceId : mem.services[x] # None} :
        QueueOp(t, [id |-> r, op |-> party, arg |-> s])

-----------------------------------------------------------------------------
(* The log *)

answered(line) ==
    /\ told' = IF line.op = "NewService" THEN told
               ELSE IF line.op = "DeleteQueue" THEN [told EXCEPT ![line.id] = Deleted]
               ELSE IF isLive(mem, line.id) /\ told[line.id] # Deleted
               THEN [told EXCEPT ![line.id] = mem.queues[line.id]]
               ELSE told
    /\ secured' = IF line.op = "SecureQueue" THEN [secured EXCEPT ![line.id] = line.arg] ELSE secured

(* withLog: the line is appended and flushed, and the client gets its answer. *)
WithLog(t) ==
    /\ inflight[t] # None
    /\ file' = appended(file, inflight[t].line)
    /\ answered(inflight[t].line)
    /\ inflight' = [inflight EXCEPT ![t] = None]
    /\ UNCHANGED <<mem, start, phase, unsure, counters>>

(* Writing fails: the client gets the error STORE, the maps in memory stay *)
(* changed.  The line may still reach the file with the next flush of the  *)
(* handle.                                                                 *)
WithLogFails(t) ==
    /\ inflight[t] # None /\ fails < MaxFails
    /\ file' \in {file, appended(file, inflight[t].line)}
    /\ unsure' = unsure \cup inflight[t].claims
    /\ inflight' = [inflight EXCEPT ![t] = None]
    /\ fails' = fails + 1
    /\ UNCHANGED <<mem, start, phase, told, secured, ops, crashes>>

(* The process stops, at any point: memory is lost and files remain.  The  *)
(* clients that wait for an answer cannot know whether it was done.        *)
Crash ==
    /\ phase # "down" /\ crashes < MaxCrashes
    /\ phase' = "down"
    /\ mem' = newQueueStore
    /\ inflight' = [t \in Thread |-> None]
    /\ unsure' = unsure \cup {inflight[t].line.id : t \in {u \in Thread : inflight[u] # None}}
    /\ crashes' = crashes + 1
    /\ UNCHANGED <<file, start, told, secured, ops, fails>>

(* The server waits for commands. *)
Wait == phase = "running" /\ UNCHANGED vars

-----------------------------------------------------------------------------
(* Start of the server: readWriteStoreLog *)

PreserveIncomplete ==
    /\ phase = "down" /\ start # None /\ file # None
    /\ file' = None
    /\ UNCHANGED <<mem, start, phase, inflight, history, counters>>

UseTempBackup ==
    /\ phase = "down" /\ start # None /\ file = None
    /\ file' = start /\ start' = None
    /\ phase' = "read"
    /\ UNCHANGED <<mem, inflight, history, counters>>

(* Mutant: a log that exists is used even if it is incomplete. *)
ReadStore_Incomplete ==
    /\ phase = "read" \/ (phase = "down" /\ file # None)
    /\ mem' = file
    /\ phase' = "loaded"
    /\ UNCHANGED <<file, start, inflight, history, counters>>

ReadStore ==
    /\ phase = "read" \/ (phase = "down" /\ start = None /\ file # None)
    /\ mem' = file
    /\ phase' = "loaded"
    /\ UNCHANGED <<file, start, inflight, history, counters>>

CreateLog ==
    /\ phase = "down" /\ start = None /\ file = None
    /\ file' = newQueueStore
    /\ phase' = "running"
    /\ UNCHANGED <<mem, start, inflight, history, counters>>

MakeTempBackup ==
    /\ phase = "loaded"
    /\ start' = file /\ file' = None
    /\ phase' = "compact"
    /\ UNCHANGED <<mem, inflight, history, counters>>

OpenLog ==
    /\ phase = "compact" /\ file = None
    /\ file' = newQueueStore
    /\ UNCHANGED <<mem, start, phase, inflight, history, counters>>

(* writeQueueStore: all services, then the queues that are not deleted. *)
servicesLeft == {s \in ServiceId : mem.services[s] # None /\ file.services[s] = None}
queuesLeft == {r \in RecipientId : isLive(mem, r) /\ ~isLive(file, r)}

WriteService ==
    /\ phase = "compact" /\ file # None
    /\ \E s \in servicesLeft :
          file' = appended(file, [id |-> s, op |-> "NewService", arg |->
                      [cert |-> mem.services[s].cert, role |-> mem.services[s].role]])
    /\ UNCHANGED <<mem, start, phase, inflight, history, counters>>

WriteQueue ==
    /\ phase = "compact" /\ file # None /\ servicesLeft = {}
    /\ \E r \in queuesLeft :
          file' = appended(file, [id |-> r, op |-> "CreateQueue", arg |-> mem.queues[r]])
    /\ UNCHANGED <<mem, start, phase, inflight, history, counters>>

(* Mutant: the temporary backup is left behind. *)
RenameBackup_Copy ==
    /\ phase = "compact" /\ file # None /\ servicesLeft = {} /\ queuesLeft = {}
    /\ phase' = "running"
    /\ UNCHANGED <<mem, file, start, inflight, history, counters>>

(* The old log becomes the timed backup.  Clients of a queue whose last    *)
(* operation was in doubt see what the server has now.                     *)
RenameBackup ==
    /\ phase = "compact" /\ file # None /\ servicesLeft = {} /\ queuesLeft = {}
    /\ start' = None
    /\ phase' = "running"
    /\ told' = [r \in RecipientId |->
                   IF r \in unsure /\ told[r] # Deleted
                   THEN IF isLive(mem, r) THEN mem.queues[r] ELSE Absent
                   ELSE told[r]]
    /\ unsure' = unsure \cap ServiceId
    /\ UNCHANGED <<mem, file, inflight, secured, counters>>

-----------------------------------------------------------------------------

Operation(t) ==
    \/ AddQueue(t) \/ AddQueueLinkData(t) \/ DeleteQueueLinkData(t)
    \/ UpdateKeys(t) \/ SecureQueue(t)
    \/ AddQueueNotifier(t) \/ DeleteQueueNotifier(t)
    \/ SuspendQueue(t) \/ BlockQueue(t) \/ UnblockQueue(t)
    \/ UpdateQueueTime(t) \/ DeleteStoreQueue(t)
    \/ GetCreateService(t) \/ SetQueueService(t)

Startup ==
    \/ PreserveIncomplete \/ UseTempBackup \/ ReadStore \/ CreateLog
    \/ MakeTempBackup \/ OpenLog \/ WriteService \/ WriteQueue \/ RenameBackup

Next ==
    \/ \E t \in Thread : Operation(t) \/ WithLog(t) \/ WithLogFails(t)
    \/ Startup \/ Crash \/ Wait

Spec == Init /\ [][Next]_vars

-----------------------------------------------------------------------------
(* Properties *)

stores == {mem} \cup ({file, start} \ {None})

(* getQueue_ finds a queue by the id of its sender, notifier or link       *)
(* exactly when the queue is there and has that id, in memory and in what  *)
(* any of the files replays to, whatever the order of the lines.  Only the *)
(* link of a deleted queue stays in the map, and leads to no queue.        *)
IndexesAgree ==
    \A st \in stores : \A r \in RecipientId :
        /\ \A s \in SenderId : st.senders[s] = r <=> isLive(st, r) /\ st.queues[r].senderId = s
        /\ \A n \in NotifierId : st.notifiers[n] = r <=>
               isLive(st, r) /\ st.queues[r].notifier # None /\ st.queues[r].notifier.notifierId = n
        /\ \A l \in LinkId :
               isLive(st, r) => (st.links[l] = r <=>
                   st.queues[r].queueData # None /\ st.queues[r].queueData[1] = l)

(* The ids that a service subscribes to at once (SUBS, NSUBS) are those of *)
(* the queues that refer to the service, and the xor hash that its client  *)
(* compares is the hash of exactly these ids; unless the line that creates *)
(* the service failed or raced with the lines of its queues.               *)
ServicesAgree ==
    \A st \in stores : \A s \in {x \in ServiceId \ unsure : st.services[x] # None} :
        /\ st.services[s].rcv.ids = {r \in RecipientId : isLive(st, r) /\ st.queues[r].rcvServiceId = s}
        /\ st.services[s].ntf.ids =
               {n \in NotifierId : st.notifiers[n] # None
                                    /\ st.queues[st.notifiers[n]].notifier.ntfServiceId = s}
        /\ st.services[s].rcv.hash = st.services[s].rcv.ids
        /\ st.services[s].ntf.hash = st.services[s].ntf.ids

quiet(r) == \A t \in Thread : inflight[t] # None => inflight[t].line.id # r

(* What the client of a queue was told is how the queue is, also after any *)
(* number of crashes and of crashes during the start, unless an operation  *)
(* on the queue failed or overlapped with one that interferes with it.     *)
RestartKeeps ==
    phase = "running" =>
        \A r \in RecipientId \ unsure :
            quiet(r) /\ told[r] \notin {Absent, Deleted} => mem.queues[r] = told[r]

(* A queue whose deletion was confirmed does not come back, whatever else  *)
(* failed or overlapped: lines written after the deletion are skipped.     *)
DeletedStays ==
    phase = "running" => \A r \in RecipientId : told[r] = Deleted => ~isLive(mem, r)

(* The key that a sender was told secures the queue is its key for good,   *)
(* also when two commands raced to set it, their lines were written in the *)
(* other order, or one of them failed.                                     *)
KeyKept ==
    phase = "running" =>
        \A r \in RecipientId :
            secured[r] # None /\ isLive(mem, r) => mem.queues[r].senderKey = secured[r]

=============================================================================
