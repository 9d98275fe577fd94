------------------------------ MODULE MsgQueue ------------------------------
(***************************************************************************)
(* The message queue of one SMP queue as every message store of the server *)
(* promises it (class MsgStoreClass, MsgStore/Types.hs) and as the memory  *)
(* store implements it (MsgStore/STM.hs): a FIFO of messages with a quota. *)
(*                                                                         *)
(* The write that finds the queue full stores a MessageQuota marker in     *)
(* place of the message, answers QUOTA to the sender and closes the queue  *)
(* for writing; the queue is opened again by the first write that finds it *)
(* empty.  Every operation is one STM transaction, hence one action.       *)
(*                                                                         *)
(* Message ids are random bytes in the code; here the n-th SEND that       *)
(* reaches the store gets id n, so that order of ids is order of writing.  *)
(* Timestamps are left out: the messages past their ttl are a prefix of    *)
(* the queue, and the expiry action chooses how long that prefix is.       *)
(***************************************************************************)
EXTENDS Integers, Sequences

CONSTANTS
    Quota,     \* StoreConfig.quota, the number of messages a queue may hold
    MaxSends   \* bound: SENDs that reach the store

ASSUME QueueAssumption == Quota \in Nat /\ MaxSends \in Nat

VARIABLES
    msgQueue,   \* msgTQueue: the messages, the next to deliver at the head
    canWrite,   \* canWrite: false from the QUOTA answer until a write finds the queue empty
    size,       \* size: the counter kept beside the queue
    lastId      \* the id given to the last SEND

mqVars == <<msgQueue, canWrite, size, lastId>>

MsgId == 1..MaxSends
Message == [id : MsgId, quota : BOOLEAN]

MQInit ==
    /\ msgQueue = <<>>
    /\ canWrite = TRUE
    /\ size = 0
    /\ lastId = 0

isEmpty == msgQueue = <<>>

(* Mutant: a closed queue accepts again as soon as there is room. *)
accepting_WhenRoom == canWrite \/ Quota > size

(* Mutant: canWrite is not consulted. *)
accepting_Always == TRUE

(* canWrt || empty: the write is allowed to change the queue. *)
accepting == canWrite \/ isEmpty

(* The id generated for the message of this SEND. *)
NewId(m) == m = lastId + 1 /\ m \in MsgId
-----------------------------------------------------------------------------
(* Mutant: the message is put back at the head, as on a failed read. *)
WriteMsg_AtHead(m) ==
    /\ NewId(m)
    /\ accepting
    /\ Quota > size
    /\ canWrite' = TRUE
    /\ size' = size + 1
    /\ msgQueue' = <<[id |-> m, quota |-> FALSE]>> \o msgQueue
    /\ lastId' = m

(* writeMsg, the message is stored: SEND answers OK. *)
WriteMsg(m) ==
    /\ NewId(m)
    /\ accepting
    /\ Quota > size
    /\ canWrite' = TRUE
    /\ size' = size + 1
    /\ msgQueue' = Append(msgQueue, [id |-> m, quota |-> FALSE])
    /\ lastId' = m

(* writeMsg, the quota is reached: the marker is stored, SEND answers QUOTA. *)
WriteQuota(m) ==
    /\ NewId(m)
    /\ accepting
    /\ ~(Quota > size)
    /\ canWrite' = FALSE
    /\ size' = size + 1
    /\ msgQueue' = Append(msgQueue, [id |-> m, quota |-> TRUE])
    /\ lastId' = m

(* writeMsg on a closed queue: SEND answers QUOTA and nothing is stored. *)
RejectMsg(m) ==
    /\ NewId(m)
    /\ ~accepting
    /\ lastId' = m
    /\ UNCHANGED <<msgQueue, canWrite, size>>

(* tryDelMsg, and tryDelPeekMsg before it peeks: the head goes only when it *)
(* has the acknowledged id.                                                 *)
DelMsg(m) ==
    /\ ~isEmpty
    /\ Head(msgQueue).id = m
    /\ msgQueue' = Tail(msgQueue)
    /\ size' = size - 1
    /\ UNCHANGED <<canWrite, lastId>>

(* deleteExpireMsgs_: the loop deletes expired messages from the head and *)
(* stops at the first young one, and at a quota marker: it never expires. *)
ExpireMsgs(n) ==
    /\ n \in 1..Len(msgQueue)
    /\ \A i \in 1..n : ~msgQueue[i].quota
    /\ msgQueue' = SubSeq(msgQueue, n + 1, Len(msgQueue))
    /\ size' = size - n
    /\ UNCHANGED <<canWrite, lastId>>

(* The second transaction of deleteQueue_: msgQueue' := Nothing.  The next  *)
(* getMsgQueue, if any, starts a new empty queue.                           *)
DropQueue ==
    /\ msgQueue' = <<>>
    /\ canWrite' = TRUE
    /\ size' = 0
    /\ UNCHANGED lastId

MQNext ==
    \/ \E m \in MsgId :
         \/ WriteMsg(m)
         \/ WriteQuota(m)
         \/ RejectMsg(m)
         \/ DelMsg(m)
    \/ \E n \in 1..Len(msgQueue) : ExpireMsgs(n)
    \/ DropQueue

MQSpec == MQInit /\ [][MQNext]_mqVars
-----------------------------------------------------------------------------
(* Properties *)

(* The variables have the types of the STM variables they stand for. *)
MQTypeOK ==
    /\ msgQueue \in Seq(Message)
    /\ canWrite \in BOOLEAN
    /\ size \in Nat
    /\ lastId \in 0..MaxSends

(* The counter kept beside the TQueue, which decides about QUOTA and which  *)
(* QUE reports, agrees with the queue after every write, deletion, expiry   *)
(* and drop.                                                                *)
SizeIsLength == size = Len(msgQueue)

(* A queue never holds more than its quota and the one marker that says the *)
(* quota was reached.                                                       *)
QuotaBound == Len(msgQueue) <= Quota + 1

(* A quota marker is the last item of its queue, and a queue closed for     *)
(* writing that still holds anything ends in a marker: the recipient always *)
(* learns, after all stored messages, that some were refused.               *)
QuotaMarkerLast ==
    /\ \A i \in 1..Len(msgQueue) : msgQueue[i].quota => i = Len(msgQueue)
    /\ ~isEmpty => (canWrite <=> ~msgQueue[Len(msgQueue)].quota)

(* Messages are kept, and hence delivered, in the order in which their SENDs *)
(* were accepted.                                                            *)
InSendOrder ==
    \A i, j \in 1..Len(msgQueue) : i < j => msgQueue[i].id < msgQueue[j].id

MQInv == SizeIsLength /\ QuotaBound /\ QuotaMarkerLast

(* "When sender reaches queue capacity the router will not accept any       *)
(* further messages until the recipient receives ALL messages from the      *)
(* queue" (protocol/simplex-messaging.md): no message is stored while the   *)
(* queue still holds the marker of an earlier QUOTA answer.                 *)
NoAcceptWhileMarked ==
    [][(\E i \in 1..Len(msgQueue) : msgQueue[i].quota) /\ lastId' # lastId
         => msgQueue' = msgQueue]_mqVars

(* The queue alone, without the counter and the flag kept beside it. *)
Abstract == INSTANCE QueueSpec WITH queue <- msgQueue, Expires <- TRUE

(* The memory store, which decides about QUOTA from size and canWrite,      *)
(* implements the abstract queue, which has neither.                        *)
ImplementsQueue == Abstract!QSpec
=============================================================================
