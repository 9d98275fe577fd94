----------------------------- MODULE QueueSpec ------------------------------
(***************************************************************************)
(* What every message store of the SMP server promises about one queue     *)
(* (class MsgStoreClass, MsgStore/Types.hs), with all bookkeeping left     *)
(* out: a sequence of messages to which senders append, from whose head    *)
(* the recipient deletes, and which a quota marker closes for writing      *)
(* until it has been deleted together with everything before it.           *)
(*                                                                         *)
(* MsgQueue (the memory store) and JournalStore (the journal store, with   *)
(* crashes) implement this specification.                                  *)
(***************************************************************************)
EXTENDS Integers, Sequences

CONSTANTS
    Quota,     \* messages a queue may hold
    Message,   \* records with a field quota: the item is a MessageQuota marker
    Expires    \* messages have a ttl (messageExpiration of the server configuration)

VARIABLE queue   \* the messages, the next to deliver at the head

QInit == queue = <<>>

(* No item of the queue says that the quota was reached. *)
Open == queue = <<>> \/ ~queue[Len(queue)].quota

(* writeMsg: the message while there is room, else the marker. *)
QWrite(m) ==
    /\ Open
    /\ m.quota <=> Len(queue) >= Quota
    /\ queue' = Append(queue, m)

(* tryDeleteMsg_: the recipient acknowledged the message at the head. *)
QDelete == queue # <<>> /\ queue' = Tail(queue)

(* deleteExpireMsgs_: the first n messages are too old; a marker stays. *)
QExpire(n) ==
    /\ Expires
    /\ \A i \in 1..n : ~queue[i].quota
    /\ queue' = SubSeq(queue, n + 1, Len(queue))

(* deleteQueue. *)
QDrop == queue' = <<>>

QStep ==
    \/ \E m \in Message : QWrite(m)
    \/ QDelete
    \/ \E n \in 1..Len(queue) : QExpire(n)

QNext == QStep \/ QDrop

QSpec == QInit /\ [][QNext]_queue

=============================================================================
