--------------------------- MODULE MsgQueueProofs ---------------------------
(***************************************************************************)
(* Proofs about the message queue, for every quota and every number of     *)
(* SENDs: the named invariants of MsgQueue, the promise that a sender over *)
(* quota is refused until the queue was drained, and that the memory store *)
(* implements the abstract queue.                                          *)
(***************************************************************************)
EXTENDS MsgQueue, SequenceTheorems, TLAPS

(* No stored message is newer than the last SEND: what makes InSendOrder   *)
(* inductive.                                                              *)
IdsIssued == \A i \in 1..Len(msgQueue) : msgQueue[i].id <= lastId

(* A queue open for writing is within its quota: QuotaBound alone is not    *)
(* inductive, a queue of Quota + 1 messages could take the marker as well.  *)
OpenWithinQuota == canWrite => Len(msgQueue) <= Quota

IInv == MQTypeOK /\ MQInv /\ InSendOrder /\ IdsIssued /\ OpenWithinQuota

(* What Append returns, position by position (writeTQueue). *)
LEMMA AppendFacts ==
    ASSUME NEW S, NEW s \in Seq(S), NEW e \in S
    PROVE  /\ Append(s, e) \in Seq(S)
           /\ Len(Append(s, e)) = Len(s) + 1
           /\ \A i \in 1..Len(s) : Append(s, e)[i] = s[i]
           /\ Append(s, e)[Len(s) + 1] = e
           /\ Append(s, e) # <<>>
  OBVIOUS

(* A sequence is empty exactly when its length is zero. *)
LEMMA EmptyFacts ==
    ASSUME NEW S, NEW s \in Seq(S)
    PROVE  /\ Len(s) \in Nat
           /\ s = <<>> <=> Len(s) = 0
  BY EmptySeq, LenProperties

(* The fields of the stored messages have their types. *)
LEMMA ElementFacts ==
    ASSUME MQTypeOK
    PROVE  \A i \in 1..Len(msgQueue) :
             /\ msgQueue[i] \in Message
             /\ msgQueue[i].id \in Int
             /\ msgQueue[i].quota \in BOOLEAN
  <1>1. \A i \in 1..Len(msgQueue) : msgQueue[i] \in Message
    BY ElementOfSeq DEF MQTypeOK
  <1> QED BY <1>1, QueueAssumption DEF Message, MsgId

(* The head of the queue leaves (tryReadTQueue), or an expired prefix does *)
(* (the loop of deleteExpireMsgs_): the same step with n = 1 and with any  *)
(* n.  It preserves the invariant.                                         *)
LEMMA DropPreserves ==
    ASSUME IInv,
           NEW n \in 1..Len(msgQueue),
           msgQueue' \in Seq(Message),
           Len(msgQueue') = Len(msgQueue) - n,
           \A i \in 1..Len(msgQueue') : msgQueue'[i] = msgQueue[i + n],
           size' = size - n,
           canWrite' = canWrite,
           lastId' = lastId
    PROVE  IInv'
  <1>1. Len(msgQueue) \in Nat /\ Len(msgQueue') \in Nat
    BY EmptyFacts DEF IInv, MQTypeOK
  <1>2. MQTypeOK'
    BY <1>1 DEF IInv, MQTypeOK, MQInv, SizeIsLength
  <1>3. SizeIsLength' /\ QuotaBound'
    BY <1>1, QueueAssumption DEF IInv, MQTypeOK, MQInv, SizeIsLength, QuotaBound
  <1>4. QuotaMarkerLast'
    <2>1. msgQueue' # <<>> => Len(msgQueue') > 0
      BY <1>1, EmptyFacts
    <2>2. msgQueue # <<>>
      BY <1>1, EmptyFacts DEF IInv, MQTypeOK
    <2>3. ASSUME NEW i \in 1..Len(msgQueue'), msgQueue'[i].quota
          PROVE  i = Len(msgQueue')
      <3>1. i + n \in 1..Len(msgQueue) /\ msgQueue[i + n].quota
        BY <1>1, <2>3
      <3>2. i + n = Len(msgQueue)
        BY <3>1 DEF IInv, MQInv, QuotaMarkerLast
      <3>3. i \in Int /\ n \in Int /\ Len(msgQueue') = Len(msgQueue) - n
        BY <1>1
      <3> HIDE DEF IInv
      <3> QED BY ONLY <1>1, <3>2, <3>3
    <2>4. msgQueue' # <<>> => msgQueue'[Len(msgQueue')] = msgQueue[Len(msgQueue)]
      BY <1>1, <2>1
    <2> QED
      BY <2>2, <2>3, <2>4 DEF IInv, MQInv, QuotaMarkerLast, isEmpty
  <1>5. InSendOrder'
    BY SMTT(30), <1>1 DEF IInv, InSendOrder
  <1>6. IdsIssued'
    BY <1>1 DEF IInv, IdsIssued
  <1>7. OpenWithinQuota'
    BY <1>1, QueueAssumption DEF IInv, OpenWithinQuota
  <1> QED BY <1>2, <1>3, <1>4, <1>5, <1>6, <1>7 DEF IInv, MQInv

(* A message or a marker with a new id joins the end of a queue that accepts *)
(* writes.                                                                   *)
LEMMA AppendPreserves ==
    ASSUME IInv, accepting,
           NEW m \in MsgId, m = lastId + 1,
           NEW qt \in BOOLEAN,
           qt <=> ~(Quota > size),
           msgQueue' = Append(msgQueue, [id |-> m, quota |-> qt]),
           canWrite' = ~qt,
           size' = size + 1,
           lastId' = m
    PROVE  IInv'
  <1> DEFINE e == [id |-> m, quota |-> qt]
  <1>1. e \in Message
    BY DEF Message
  <1>2. /\ msgQueue' \in Seq(Message)
        /\ Len(msgQueue') = Len(msgQueue) + 1
        /\ \A i \in 1..Len(msgQueue) : msgQueue'[i] = msgQueue[i]
        /\ msgQueue'[Len(msgQueue) + 1] = e
        /\ msgQueue' # <<>>
    BY <1>1, AppendFacts DEF IInv, MQTypeOK
  <1>3. Len(msgQueue) \in Nat
    BY EmptyFacts DEF IInv, MQTypeOK
  <1> HIDE DEF e
  <1>4. e.id = m /\ e.quota = qt
    BY DEF e
  <1>5. MQTypeOK'
    BY <1>2, QueueAssumption DEF IInv, MQTypeOK, MsgId
  <1>6. SizeIsLength'
    BY <1>2, <1>3 DEF IInv, MQInv, SizeIsLength
  <1>7. \A i \in 1..Len(msgQueue) : ~msgQueue[i].quota
    <2>1. isEmpty => Len(msgQueue) = 0
      BY EmptyFacts DEF isEmpty, IInv, MQTypeOK
    <2>2. CASE ~isEmpty
      <3>1. canWrite
        BY <2>2 DEF accepting
      <3> QED BY <2>2, <3>1 DEF IInv, MQInv, QuotaMarkerLast
    <2> QED BY <1>3, <2>1, <2>2
  <1>8. isEmpty => Len(msgQueue) = 0
    BY EmptyFacts DEF isEmpty, IInv, MQTypeOK
  <1>9. QuotaBound'
    <2>1. Len(msgQueue) <= Quota
      BY <1>3, <1>8, QueueAssumption DEF accepting, IInv, OpenWithinQuota
    <2> QED BY <1>2, <1>3, <2>1, QueueAssumption DEF QuotaBound
  <1>10. OpenWithinQuota'
    <2>1. CASE qt
      BY <2>1 DEF OpenWithinQuota
    <2>2. CASE ~qt
      <3>1. Quota > Len(msgQueue)
        BY <2>2 DEF IInv, MQInv, SizeIsLength
      <3> QED BY <1>2, <1>3, <3>1, QueueAssumption DEF OpenWithinQuota
    <2> QED BY <2>1, <2>2
  <1>11. QuotaMarkerLast'
    <2>1. \A i \in 1..Len(msgQueue) : ~msgQueue'[i].quota
      BY <1>2, <1>7
    <2>2. msgQueue'[Len(msgQueue')].quota = qt
      BY <1>2, <1>4
    <2>3. \A i \in 1..Len(msgQueue') : i = Len(msgQueue') \/ i \in 1..Len(msgQueue)
      BY <1>2, <1>3
    <2> QED BY <2>1, <2>2, <2>3 DEF QuotaMarkerLast, isEmpty
  <1>12. /\ lastId \in Int /\ m = lastId + 1
         /\ \A i \in 1..Len(msgQueue) : msgQueue[i].id \in Int /\ msgQueue[i].id <= lastId
         /\ \A i \in 1..Len(msgQueue') : i = Len(msgQueue) + 1 \/ i \in 1..Len(msgQueue)
    BY <1>2, <1>3, ElementFacts, QueueAssumption DEF IInv, MQTypeOK, IdsIssued
  <1>13. InSendOrder'
    <2> SUFFICES ASSUME NEW i \in 1..Len(msgQueue'), NEW j \in 1..Len(msgQueue'), i < j
                 PROVE  msgQueue'[i].id < msgQueue'[j].id
      BY DEF InSendOrder
    <2>1. i \in 1..Len(msgQueue)
      BY <1>2, <1>3
    <2>2. CASE j \in 1..Len(msgQueue)
      BY <1>2, <2>1, <2>2 DEF IInv, InSendOrder
    <2>3. CASE j = Len(msgQueue) + 1
      BY <1>2, <1>4, <1>12, <2>1, <2>3
    <2> QED BY <1>12, <2>2, <2>3
  <1>14. IdsIssued'
    BY <1>2, <1>4, <1>12 DEF IdsIssued
  <1> QED
    BY <1>5, <1>6, <1>9, <1>10, <1>11, <1>13, <1>14 DEF IInv, MQInv

(* The empty queue, of Init and after deleteQueue_. *)
LEMMA EmptyPreserves ==
    ASSUME msgQueue = <<>>, canWrite = TRUE, size = 0, lastId \in 0..MaxSends
    PROVE  IInv
  BY QueueAssumption
  DEF IInv, MQTypeOK, MQInv, SizeIsLength, QuotaBound, QuotaMarkerLast, isEmpty,
      InSendOrder, IdsIssued, OpenWithinQuota

(* Every operation of the message store preserves the invariant. *)
LEMMA NextPreserves == IInv /\ [MQNext]_mqVars => IInv'
  <1> SUFFICES ASSUME IInv, [MQNext]_mqVars PROVE IInv'
    OBVIOUS
  <1>1. ASSUME NEW m \in MsgId, WriteMsg(m) PROVE IInv'
    BY <1>1, AppendPreserves, QueueAssumption DEF WriteMsg, NewId
  <1>2. ASSUME NEW m \in MsgId, WriteQuota(m) PROVE IInv'
    BY <1>2, AppendPreserves DEF WriteQuota, NewId
  <1>3. ASSUME NEW m \in MsgId, RejectMsg(m) PROVE IInv'
    <2>1. MQTypeOK' /\ MQInv' /\ InSendOrder' /\ OpenWithinQuota'
      BY <1>3, QueueAssumption
      DEF RejectMsg, NewId, MsgId, IInv, MQTypeOK, MQInv, SizeIsLength, QuotaBound,
          QuotaMarkerLast, isEmpty, InSendOrder, OpenWithinQuota
    <2>2. \A i \in 1..Len(msgQueue) : msgQueue[i].id \in Int
      BY ElementFacts DEF IInv
    <2>3. IdsIssued'
      BY <1>3, <2>2 DEF RejectMsg, NewId, MsgId, IInv, MQTypeOK, IdsIssued
    <2> QED BY <2>1, <2>3 DEF IInv
  <1>4. ASSUME NEW m \in MsgId, DelMsg(m) PROVE IInv'
    <2>1. msgQueue # <<>> /\ msgQueue \in Seq(Message)
      BY <1>4 DEF DelMsg, isEmpty, IInv, MQTypeOK
    <2>2. /\ Len(msgQueue) \in Nat \ {0}
          /\ msgQueue' \in Seq(Message)
          /\ Len(msgQueue') = Len(msgQueue) - 1
          /\ \A i \in 1..Len(msgQueue') : msgQueue'[i] = msgQueue[i + 1]
      BY <1>4, <2>1, HeadTailProperties, EmptySeq DEF DelMsg
    <2>3. 1 \in 1..Len(msgQueue)
      BY <2>2
    <2> QED BY <1>4, <2>2, <2>3, DropPreserves DEF DelMsg
  <1>5. ASSUME NEW n \in 1..Len(msgQueue), ExpireMsgs(n) PROVE IInv'
    <2>1. msgQueue \in Seq(Message) /\ Len(msgQueue) \in Nat
      BY EmptyFacts DEF IInv, MQTypeOK
    <2>2. \A i \in (n + 1)..Len(msgQueue) : msgQueue[i] \in Message
      BY <2>1, ElementOfSeq
    <2>3. /\ msgQueue' \in Seq(Message)
          /\ Len(msgQueue') = Len(msgQueue) - n
          /\ \A i \in 1..Len(msgQueue') : msgQueue'[i] = msgQueue[i + n]
      BY <1>5, <2>1, <2>2, SubSeqProperties DEF ExpireMsgs
    <2> QED BY <1>5, <2>3, DropPreserves DEF ExpireMsgs
  <1>6. ASSUME DropQueue PROVE IInv'
    BY <1>6, QueueAssumption
    DEF DropQueue, IInv, MQTypeOK, MQInv, SizeIsLength, QuotaBound, QuotaMarkerLast,
        isEmpty, InSendOrder, IdsIssued, OpenWithinQuota
  <1>7. ASSUME UNCHANGED mqVars PROVE IInv'
    BY <1>7 DEF mqVars, IInv, MQTypeOK, MQInv, SizeIsLength, QuotaBound,
        QuotaMarkerLast, isEmpty, InSendOrder, IdsIssued, OpenWithinQuota
  <1> QED BY <1>1, <1>2, <1>3, <1>4, <1>5, <1>6, <1>7 DEF MQNext

(* The invariant holds of every reachable state. *)
LEMMA InvariantHolds == MQSpec => []IInv
  <1>1. MQInit => IInv
    BY EmptyPreserves, QueueAssumption DEF MQInit
  <1> QED BY <1>1, NextPreserves, PTL DEF MQSpec

(* The STM variables of a queue keep their types under every operation. *)
THEOREM QueueTyped == MQSpec => []MQTypeOK
  <1>1. IInv => MQTypeOK
    BY DEF IInv
  <1> QED BY <1>1, InvariantHolds, PTL

(* The size that decides about QUOTA is the length of the queue, whatever   *)
(* the quota and however writes, acknowledgements, expiry and deletion      *)
(* follow each other.                                                       *)
THEOREM SizeIsExact == MQSpec => []SizeIsLength
  <1>1. IInv => SizeIsLength
    BY DEF IInv, MQInv
  <1> QED BY <1>1, InvariantHolds, PTL

(* No order of writes and deletions takes a queue over its quota and the    *)
(* one marker, and the marker is always the last item.                      *)
THEOREM QuotaRespected == MQSpec => [](QuotaBound /\ QuotaMarkerLast)
  <1>1. IInv => QuotaBound /\ QuotaMarkerLast
    BY DEF IInv, MQInv
  <1> QED BY <1>1, InvariantHolds, PTL

(* Messages are delivered in the order in which their SENDs were accepted. *)
THEOREM OrderKept == MQSpec => []InSendOrder
  <1>1. IInv => InSendOrder
    BY DEF IInv
  <1> QED BY <1>1, InvariantHolds, PTL

(* A sender that got QUOTA gets OK again only after the recipient has taken *)
(* everything stored before, the marker included (writeMsg).                *)
THEOREM RefusedUntilDrained == MQSpec => NoAcceptWhileMarked
  <1>1. ASSUME IInv, [MQNext]_mqVars,
               NEW k \in 1..Len(msgQueue), msgQueue[k].quota, lastId' # lastId
        PROVE  msgQueue' = msgQueue
    <2>1. msgQueue # <<>>
      BY <1>1, EmptyFacts DEF IInv, MQTypeOK
    <2>2. ~accepting
      <3>1. k = Len(msgQueue)
        BY <1>1 DEF IInv, MQInv, QuotaMarkerLast
      <3> QED BY <1>1, <2>1, <3>1 DEF accepting, isEmpty, IInv, MQInv, QuotaMarkerLast
    <2> QED
      BY <1>1, <2>2
      DEF MQNext, mqVars, WriteMsg, WriteQuota, RejectMsg, DelMsg, ExpireMsgs, DropQueue
  <1>2. IInv /\ [MQNext]_mqVars
          => [(\E i \in 1..Len(msgQueue) : msgQueue[i].quota) /\ lastId' # lastId
                => msgQueue' = msgQueue]_mqVars
    BY <1>1
  <1> QED BY <1>2, InvariantHolds, PTL DEF MQSpec, NoAcceptWhileMarked

(* Every step of the memory store is a step of the abstract queue or leaves *)
(* it alone: that the flag canWrite and the counter size stand for what the *)
(* abstract queue reads off the messages is the invariant.                  *)
LEMMA StepImplements == IInv /\ [MQNext]_mqVars => [Abstract!QNext]_msgQueue
  <1> SUFFICES ASSUME IInv, [MQNext]_mqVars PROVE [Abstract!QNext]_msgQueue
    OBVIOUS
  <1>1. Len(msgQueue) \in Nat /\ (msgQueue = <<>> <=> Len(msgQueue) = 0)
    BY EmptyFacts DEF IInv, MQTypeOK
  <1>2. accepting => Abstract!Open
    BY DEF accepting, isEmpty, Abstract!Open, IInv, MQInv, QuotaMarkerLast
  <1>3. Quota > size <=> ~(Len(msgQueue) >= Quota)
    BY <1>1, QueueAssumption DEF IInv, MQInv, SizeIsLength
  <1>4. ASSUME NEW m \in MsgId, WriteMsg(m) PROVE Abstract!QNext
    <2>1. [id |-> m, quota |-> FALSE] \in Message
      BY DEF Message
    <2>2. Abstract!QWrite([id |-> m, quota |-> FALSE])
      BY <1>2, <1>3, <1>4 DEF WriteMsg, Abstract!QWrite
    <2> QED BY <2>1, <2>2 DEF Abstract!QNext, Abstract!QStep
  <1>5. ASSUME NEW m \in MsgId, WriteQuota(m) PROVE Abstract!QNext
    <2>1. [id |-> m, quota |-> TRUE] \in Message
      BY DEF Message
    <2>2. Abstract!QWrite([id |-> m, quota |-> TRUE])
      BY <1>2, <1>3, <1>5 DEF WriteQuota, Abstract!QWrite
    <2> QED BY <2>1, <2>2 DEF Abstract!QNext, Abstract!QStep
  <1>6. ASSUME NEW m \in MsgId, RejectMsg(m) PROVE UNCHANGED msgQueue
    BY <1>6 DEF RejectMsg
  <1>7. ASSUME NEW m \in MsgId, DelMsg(m) PROVE Abstract!QNext
    BY <1>7 DEF DelMsg, isEmpty, Abstract!QNext, Abstract!QStep, Abstract!QDelete
  <1>8. ASSUME NEW n \in 1..Len(msgQueue), ExpireMsgs(n) PROVE Abstract!QNext
    <2>1. Abstract!QExpire(n)
      BY <1>8 DEF ExpireMsgs, Abstract!QExpire
    <2> QED BY <2>1 DEF Abstract!QNext, Abstract!QStep
  <1>9. ASSUME DropQueue PROVE Abstract!QNext
    BY <1>9 DEF DropQueue, Abstract!QNext, Abstract!QDrop
  <1>10. ASSUME UNCHANGED mqVars PROVE UNCHANGED msgQueue
    BY <1>10 DEF mqVars
  <1> QED
    BY <1>4, <1>5, <1>6, <1>7, <1>8, <1>9, <1>10 DEF MQNext

(* The memory store implements the abstract queue, for every quota. *)
THEOREM MemoryStoreImplements == MQSpec => ImplementsQueue
  <1>1. MQInit => Abstract!QInit
    BY DEF MQInit, Abstract!QInit
  <1> QED
    BY <1>1, StepImplements, InvariantHolds, PTL
    DEF MQSpec, ImplementsQueue, Abstract!QSpec
=============================================================================
