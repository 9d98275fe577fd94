-------------------------- MODULE QueueStoreProofs --------------------------
(***************************************************************************)
(* Proofs about the queue store: its maps agree (IndexesKept), a queue that *)
(* was deleted stays so (DeletedStaysDeleted), and the key of a sender is   *)
(* kept (KeysKept).  The lemmas go from the operations on one store to the  *)
(* lines of the log, then to the steps of the server.                       *)
(*                                                                          *)
(* Then about what a restart of the server reads from its files: the queues *)
(* that clients were told about (RestartIsKept), and for each service the   *)
(* ids that it subscribes to at once, with their hash, which are those of   *)
(* the queues that refer to it (ServicesAreExact).                          *)
(***************************************************************************)
EXTENDS QueueStore, TLAPS

(* What IndexesAgree says of one store. *)
Indexed(st) ==
    \A r \in RecipientId :
        /\ \A s \in SenderId : st.senders[s] = r <=> isLive(st, r) /\ st.queues[r].senderId = s
        /\ \A n \in NotifierId : st.notifiers[n] = r <=>
               isLive(st, r) /\ st.queues[r].notifier # None /\ st.queues[r].notifier.notifierId = n
        /\ \A l \in LinkId :
               isLive(st, r) => (st.links[l] = r <=>
                   st.queues[r].queueData # None /\ st.queues[r].queueData[1] = l)

(* No link leads to an id that is not in the map: a queue that is created  *)
(* with this id would have it.                                             *)
LinksKnown(st) ==
    \A r \in RecipientId : st.queues[r] = Absent => \A l \in LinkId : st.links[l] # r

StoreOK(st) == st \in Store /\ Indexed(st) /\ LinksKnown(st)

(* The fields of a store are functions, and its records are no sentinels. *)
LEMMA StoreTyped ==
    ASSUME NEW st \in Store
    PROVE  /\ st.queues \in [RecipientId -> QueueRec \cup {Absent, Deleted}]
           /\ st.senders \in [SenderId -> Maybe(RecipientId)]
           /\ st.notifiers \in [NotifierId -> Maybe(RecipientId)]
           /\ st.links \in [LinkId -> Maybe(RecipientId)]
           /\ st.services \in [ServiceId -> Maybe(Service)]
           /\ st.serviceCerts \in [Cert -> Maybe(ServiceId)]
           /\ st = [queues |-> st.queues, senders |-> st.senders, notifiers |-> st.notifiers,
                    links |-> st.links, services |-> st.services, serviceCerts |-> st.serviceCerts]
  BY DEF Store

(* A queue that is in the map and not deleted has a record. *)
LEMMA LiveTyped ==
    ASSUME NEW st \in Store, NEW r \in RecipientId, isLive(st, r)
    PROVE  st.queues[r] \in QueueRec
  BY StoreTyped DEF isLive

(* A queue joins or leaves a service: only the map of services changes. *)
LEMMA AddServiceFrame ==
    ASSUME NEW st \in Store, NEW kind \in {"rcv", "ntf"}, NEW s \in Maybe(ServiceId), NEW id,
           id \in IF kind = "rcv" THEN RecipientId ELSE NotifierId
    PROVE  LET st2 == addServiceQueue(st, kind, id, s)
           IN  /\ st2 \in Store
               /\ st2.queues = st.queues /\ st2.senders = st.senders /\ st2.links = st.links
               /\ st2.notifiers = st.notifiers /\ st2.serviceCerts = st.serviceCerts
  <1> USE StoreTyped
  <1>1. CASE s = None \/ st.services[s] = None
    BY <1>1 DEF addServiceQueue
  <1>2. CASE ~(s = None \/ st.services[s] = None)
    <2>1. s \in ServiceId /\ st.services[s] \in Service
      BY <1>2 DEF Maybe
    <2> DEFINE old == st.services[s]
               new == [old EXCEPT ![kind] =
                          [ids |-> old[kind].ids \cup {id}, hash |-> toggle(old[kind].hash, id)]]
    <2>2. new \in Service
      BY <2>1 DEF Service, IdsHash, toggle
    <2>3. addServiceQueue(st, kind, id, s) = [st EXCEPT !.services[s] = new]
      BY <1>2 DEF addServiceQueue
    <2> HIDE DEF new
    <2>4. [st.services EXCEPT ![s] = new] \in [ServiceId -> Maybe(Service)]
      BY <2>1, <2>2 DEF Maybe
    <2> QED BY <2>3, <2>4 DEF Store
  <1> QED BY <1>1, <1>2

(* A queue that leaves a service changes only the map of services. *)
LEMMA RemoveServiceFrame ==
    ASSUME NEW st \in Store, NEW kind \in {"rcv", "ntf"}, NEW s \in Maybe(ServiceId), NEW id,
           id \in IF kind = "rcv" THEN RecipientId ELSE NotifierId
    PROVE  LET st2 == removeServiceQueue(st, kind, id, s)
           IN  /\ st2 \in Store
               /\ st2.queues = st.queues /\ st2.senders = st.senders /\ st2.links = st.links
               /\ st2.notifiers = st.notifiers /\ st2.serviceCerts = st.serviceCerts
  <1> USE StoreTyped
  <1>1. CASE s = None \/ st.services[s] = None
    BY <1>1 DEF removeServiceQueue
  <1>2. CASE ~(s = None \/ st.services[s] = None)
    <2>1. s \in ServiceId /\ st.services[s] \in Service
      BY <1>2 DEF Maybe
    <2> DEFINE old == st.services[s]
               new == [old EXCEPT ![kind] =
                          [ids |-> old[kind].ids \ {id}, hash |-> toggle(old[kind].hash, id)]]
    <2>2. new \in Service
      BY <2>1 DEF Service, IdsHash, toggle
    <2>3. removeServiceQueue(st, kind, id, s) = [st EXCEPT !.services[s] = new]
      BY <1>2 DEF removeServiceQueue
    <2> HIDE DEF new
    <2>4. [st.services EXCEPT ![s] = new] \in [ServiceId -> Maybe(Service)]
      BY <2>1, <2>2 DEF Maybe
    <2> QED BY <2>3, <2>4 DEF Store
  <1> QED BY <1>1, <1>2

(* The fields of a queue record, and that a record is no mark of a missing *)
(* queue.                                                                  *)
LEMMA RecTyped ==
    ASSUME NEW q \in QueueRec
    PROVE  /\ q \notin {Absent, Deleted} /\ q # None
           /\ q.senderId \in SenderId /\ q.senderKey \in Maybe(Key) /\ q.recipientKeys \in RcvKeys
           /\ q.queueData \in Maybe(LinkId \X LinkData) /\ q.notifier \in Maybe(NtfCreds)
           /\ q.status \in Status /\ q.updatedAt \in Maybe(Date) /\ q.rcvServiceId \in Maybe(ServiceId)
           /\ q.notifier # None => /\ q.notifier \in NtfCreds /\ q.notifier.notifierId \in NotifierId
                                   /\ q.notifier.ntfServiceId \in Maybe(ServiceId)
           /\ q.queueData # None => q.queueData \in LinkId \X LinkData /\ q.queueData[1] \in LinkId
  BY SentinelAssumption DEF QueueRec, Maybe, NtfCreds

(* A notifier is removed with its association. *)
LEMMA RemoveNotifierFrame ==
    ASSUME NEW st \in Store, NEW nc \in Maybe(NtfCreds)
    PROVE  LET st2 == removeNotifier(st, nc)
           IN  /\ st2 \in Store
               /\ st2.queues = st.queues /\ st2.senders = st.senders /\ st2.links = st.links
               /\ st2.serviceCerts = st.serviceCerts
               /\ st2.notifiers = IF nc = None THEN st.notifiers
                                  ELSE [st.notifiers EXCEPT ![nc.notifierId] = None]
  <1>1. CASE nc = None
    BY <1>1 DEF removeNotifier
  <1>2. CASE nc # None
    <2> DEFINE st1 == [st EXCEPT !.notifiers[nc.notifierId] = None]
    <2>1. nc.notifierId \in NotifierId /\ nc.ntfServiceId \in Maybe(ServiceId)
      BY <1>2 DEF Maybe, NtfCreds
    <2>2. [st.notifiers EXCEPT ![nc.notifierId] = None] \in [NotifierId -> Maybe(RecipientId)]
      BY <2>1, StoreTyped DEF Maybe
    <2>3. /\ st1 \in Store
          /\ st1.queues = st.queues /\ st1.senders = st.senders /\ st1.links = st.links
          /\ st1.serviceCerts = st.serviceCerts
          /\ st1.notifiers = [st.notifiers EXCEPT ![nc.notifierId] = None]
      BY <2>2, StoreTyped DEF Store
    <2> HIDE DEF st1
    <2>4. removeNotifier(st, nc) = removeServiceQueue(st1, "ntf", nc.notifierId, nc.ntfServiceId)
      BY <1>2 DEF removeNotifier, st1
    <2> QED BY <1>2, <2>1, <2>3, <2>4, RemoveServiceFrame
  <1> QED BY <1>1, <1>2

(* What a transaction does to the maps of queues, senders, notifiers and   *)
(* links.                                                                  *)
Becomes(st, qs, ss, ns, ls) ==
    /\ st \in Store
    /\ st.queues = qs /\ st.senders = ss /\ st.notifiers = ns /\ st.links = ls

(* Writing a record changes only the map of queues. *)
LEMMA PutFields ==
    ASSUME NEW st \in Store, NEW r \in RecipientId, NEW q \in QueueRec \cup {Absent, Deleted}
    PROVE  /\ Becomes(put(st, r, q), [st.queues EXCEPT ![r] = q], st.senders, st.notifiers, st.links)
           /\ put(st, r, q).services = st.services /\ put(st, r, q).serviceCerts = st.serviceCerts
  <1>1. [st.queues EXCEPT ![r] = q] \in [RecipientId -> QueueRec \cup {Absent, Deleted}]
    BY StoreTyped
  <1> QED BY <1>1, StoreTyped DEF put, Store, Becomes

(* A new queue is put in the map with the ids of its record. *)
LEMMA AddQueueFields ==
    ASSUME NEW st \in Store, NEW r \in RecipientId, NEW q \in QueueRec, ~hasId(st, r, q)
    PROVE  Becomes(addQueue(st, r, q),
               [st.queues EXCEPT ![r] = q],
               [st.senders EXCEPT ![q.senderId] = r],
               IF q.notifier = None THEN st.notifiers
               ELSE [st.notifiers EXCEPT ![q.notifier.notifierId] = r],
               IF q.queueData = None THEN st.links ELSE [st.links EXCEPT ![q.queueData[1]] = r])
  <1> DEFINE base == [put(st, r, q) EXCEPT !.senders[q.senderId] = r]
             noted == [base EXCEPT !.notifiers[q.notifier.notifierId] = r]
             ntf == IF q.notifier = None THEN base
                    ELSE addServiceQueue(noted, "ntf", q.notifier.notifierId, q.notifier.ntfServiceId)
             link == IF q.queueData = None THEN ntf
                     ELSE [ntf EXCEPT !.links[q.queueData[1]] = r]
             ns == IF q.notifier = None THEN st.notifiers
                   ELSE [st.notifiers EXCEPT ![q.notifier.notifierId] = r]
             ls == IF q.queueData = None THEN st.links ELSE [st.links EXCEPT ![q.queueData[1]] = r]
             qs == [st.queues EXCEPT ![r] = q]
             ss == [st.senders EXCEPT ![q.senderId] = r]
  <1>1. Becomes(base, qs, ss, st.notifiers, st.links)
    <2>1. ss \in [SenderId -> Maybe(RecipientId)]
      BY StoreTyped, RecTyped DEF Maybe
    <2>2. Becomes(put(st, r, q), qs, st.senders, st.notifiers, st.links)
      BY PutFields
    <2> QED BY <2>1, <2>2, StoreTyped DEF Store, Becomes
  <1>2. Becomes(ntf, qs, ss, ns, st.links)
    <2>1. CASE q.notifier = None
      BY <2>1, <1>1
    <2>2. CASE q.notifier # None
      <3>1. ns \in [NotifierId -> Maybe(RecipientId)]
        BY StoreTyped, RecTyped DEF Maybe
      <3>2. Becomes(noted, qs, ss, ns, st.links)
        <4> HIDE DEF base
        <4> QED BY <1>1, <2>2, <3>1, StoreTyped DEF Store, Becomes
      <3> HIDE DEF noted
      <3>3. ntf = addServiceQueue(noted, "ntf", q.notifier.notifierId, q.notifier.ntfServiceId)
        BY <2>2
      <3> HIDE DEF ntf, ns
      <3>4. q.notifier.notifierId \in NotifierId /\ q.notifier.ntfServiceId \in Maybe(ServiceId)
        BY <2>2, RecTyped
      <3> QED BY <3>2, <3>3, <3>4, AddServiceFrame DEF Becomes
    <2> QED BY <2>1, <2>2
  <1> HIDE DEF ntf
  <1>3. Becomes(link, qs, ss, ns, ls)
    <2>1. CASE q.queueData = None
      BY <2>1, <1>2
    <2>2. CASE q.queueData # None
      <3>1. ls \in [LinkId -> Maybe(RecipientId)]
        BY <2>2, StoreTyped, RecTyped DEF Maybe
      <3> QED BY <1>2, <2>2, <3>1, StoreTyped DEF Store, Becomes
    <2> QED BY <2>1, <2>2
  <1> HIDE DEF link, ns, ls
  <1>4. addQueue(st, r, q) = addServiceQueue(link, "rcv", r, q.rcvServiceId)
    BY DEF addQueue, link, ntf
  <1>5. q.rcvServiceId \in Maybe(ServiceId)
    BY RecTyped
  <1>6. Becomes(addQueue(st, r, q), qs, ss, ns, ls)
    BY <1>3, <1>4, <1>5, AddServiceFrame DEF Becomes
  <1> QED BY <1>6 DEF ns, ls

(* Adding link data (LSET) enters the link of the queue in the map of *)
(* links.                                                             *)
LEMMA AddLinkFields ==
    ASSUME NEW st \in Store, NEW r \in RecipientId, isLive(st, r), NEW l \in LinkId, NEW d \in LinkData,
           \/ st.queues[r].queueData = None
           \/ st.queues[r].queueData[1] = l /\ st.queues[r].queueData[2][1] = d[1],
           st.links[l] \in {None, r}
    PROVE  /\ Becomes(addQueueLinkData(st, r, l, d),
                  [st.queues EXCEPT ![r] = [st.queues[r] EXCEPT !.queueData = <<l, d>>]],
                  st.senders, st.notifiers, [st.links EXCEPT ![l] = r])
           /\ [st.queues[r] EXCEPT !.queueData = <<l, d>>] \in QueueRec
           /\ addQueueLinkData(st, r, l, d).services = st.services
  <1> DEFINE q == [st.queues[r] EXCEPT !.queueData = <<l, d>>]
  <1>1. q \in QueueRec
    BY LiveTyped DEF QueueRec, Maybe
  <1>2. [st.links EXCEPT ![l] = r] \in [LinkId -> Maybe(RecipientId)]
    BY StoreTyped DEF Maybe
  <1>3. addQueueLinkData(st, r, l, d) = [put(st, r, q) EXCEPT !.links[l] = r]
    BY DEF addQueueLinkData
  <1>4. Becomes(put(st, r, q), [st.queues EXCEPT ![r] = q], st.senders, st.notifiers, st.links)
    BY <1>1, PutFields
  <1>5. put(st, r, q).services = st.services
    BY <1>1, PutFields
  <1> HIDE DEF q
  <1>6. /\ Becomes(addQueueLinkData(st, r, l, d),
             [st.queues EXCEPT ![r] = q], st.senders, st.notifiers, [st.links EXCEPT ![l] = r])
        /\ addQueueLinkData(st, r, l, d).services = st.services
    BY <1>2, <1>3, <1>4, <1>5, StoreTyped DEF Store, Becomes
  <1> QED BY <1>1, <1>6 DEF q

(* Deleting link data (LDEL) takes the link out of the map of links. *)
LEMMA DeleteLinkFields ==
    ASSUME NEW st \in Store, NEW r \in RecipientId, isLive(st, r), st.queues[r].queueData # None
    PROVE  LET q == st.queues[r]
           IN  /\ Becomes(deleteQueueLinkData(st, r),
                      [st.queues EXCEPT ![r] = [q EXCEPT !.queueData = None]],
                      st.senders, st.notifiers, [st.links EXCEPT ![q.queueData[1]] = None])
               /\ [q EXCEPT !.queueData = None] \in QueueRec
               /\ deleteQueueLinkData(st, r).services = st.services
  <1> DEFINE l == st.queues[r].queueData[1]
             q == [st.queues[r] EXCEPT !.queueData = None]
  <1>1. q \in QueueRec /\ l \in LinkId
    BY LiveTyped, RecTyped DEF QueueRec, Maybe
  <1>2. [st.links EXCEPT ![l] = None] \in [LinkId -> Maybe(RecipientId)]
    BY StoreTyped DEF Maybe
  <1>3. deleteQueueLinkData(st, r) = [put(st, r, q) EXCEPT !.links[l] = None]
    BY DEF deleteQueueLinkData
  <1>4. /\ Becomes(put(st, r, q), [st.queues EXCEPT ![r] = q], st.senders, st.notifiers, st.links)
        /\ put(st, r, q).services = st.services
    BY <1>1, PutFields
  <1> HIDE DEF q, l
  <1>5. /\ Becomes(deleteQueueLinkData(st, r),
             [st.queues EXCEPT ![r] = q], st.senders, st.notifiers, [st.links EXCEPT ![l] = None])
        /\ deleteQueueLinkData(st, r).services = st.services
    BY <1>2, <1>3, <1>4, StoreTyped DEF Store, Becomes
  <1> QED BY <1>1, <1>5 DEF q, l

(* A new notifier (NKEY) replaces the previous one in the map of *)
(* notifiers.                                                    *)
LEMMA AddNotifierFields ==
    ASSUME NEW st \in Store, NEW r \in RecipientId, isLive(st, r), NEW nc \in NtfCreds,
           st.notifiers[nc.notifierId] = None
    PROVE  LET q == st.queues[r]
               was == IF q.notifier = None THEN st.notifiers
                      ELSE [st.notifiers EXCEPT ![q.notifier.notifierId] = None]
           IN  /\ Becomes(addQueueNotifier(st, r, nc),
                      [st.queues EXCEPT ![r] = [q EXCEPT !.notifier = nc]], st.senders,
                      [was EXCEPT ![nc.notifierId] = r], st.links)
               /\ [q EXCEPT !.notifier = nc] \in QueueRec
               /\ addQueueNotifier(st, r, nc).services = removeNotifier(st, q.notifier).services
  <1> DEFINE q == st.queues[r]
             q2 == [q EXCEPT !.notifier = nc]
             st1 == removeNotifier(st, q.notifier)
             was == IF q.notifier = None THEN st.notifiers
                    ELSE [st.notifiers EXCEPT ![q.notifier.notifierId] = None]
  <1>1. q2 \in QueueRec /\ nc.notifierId \in NotifierId /\ q.notifier \in Maybe(NtfCreds)
    BY LiveTyped, RecTyped DEF QueueRec, Maybe, NtfCreds
  <1>2. Becomes(st1, st.queues, st.senders, was, st.links)
    BY <1>1, RemoveNotifierFrame DEF Becomes
  <1>3. addQueueNotifier(st, r, nc) = [put(st1, r, q2) EXCEPT !.notifiers[nc.notifierId] = r]
    BY DEF addQueueNotifier
  <1> HIDE DEF st1, was, q2
  <1>4. /\ Becomes(put(st1, r, q2), [st.queues EXCEPT ![r] = q2], st.senders, was, st.links)
        /\ put(st1, r, q2).services = st1.services
    BY <1>1, <1>2, PutFields DEF Becomes
  <1>5. [was EXCEPT ![nc.notifierId] = r] \in [NotifierId -> Maybe(RecipientId)]
    BY <1>2, StoreTyped DEF Maybe, Becomes
  <1>6. /\ Becomes(addQueueNotifier(st, r, nc), [st.queues EXCEPT ![r] = q2], st.senders,
                   [was EXCEPT ![nc.notifierId] = r], st.links)
        /\ addQueueNotifier(st, r, nc).services = st1.services
    BY <1>3, <1>4, <1>5, StoreTyped DEF Store, Becomes
  <1> QED BY <1>1, <1>3, <1>6 DEF st1, was, q2

(* Deleting the notifier (NDEL) takes its id out of the map of notifiers. *)
LEMMA DeleteNotifierFields ==
    ASSUME NEW st \in Store, NEW r \in RecipientId, isLive(st, r)
    PROVE  LET q == st.queues[r]
           IN  /\ Becomes(deleteQueueNotifier(st, r),
                      [st.queues EXCEPT ![r] = [q EXCEPT !.notifier = None]], st.senders,
                      IF q.notifier = None THEN st.notifiers
                      ELSE [st.notifiers EXCEPT ![q.notifier.notifierId] = None], st.links)
               /\ [q EXCEPT !.notifier = None] \in QueueRec
               /\ deleteQueueNotifier(st, r).services = removeNotifier(st, q.notifier).services
  <1> DEFINE q == st.queues[r]
             q2 == [q EXCEPT !.notifier = None]
             st1 == removeNotifier(st, q.notifier)
  <1>1. q2 \in QueueRec /\ q.notifier \in Maybe(NtfCreds)
    BY LiveTyped, RecTyped DEF QueueRec, Maybe
  <1>2. Becomes(st1, st.queues, st.senders,
             IF q.notifier = None THEN st.notifiers
             ELSE [st.notifiers EXCEPT ![q.notifier.notifierId] = None], st.links)
    BY <1>1, RemoveNotifierFrame DEF Becomes
  <1>3. deleteQueueNotifier(st, r) = put(st1, r, q2)
    BY DEF deleteQueueNotifier
  <1> HIDE DEF st1, q2
  <1> QED BY <1>1, <1>2, <1>3, PutFields DEF Becomes, st1, q2

(* Deleting a queue takes the ids of its sender and notifier out of their *)
(* maps, and leaves the link.                                             *)
LEMMA DeleteQueueFields ==
    ASSUME NEW st \in Store, NEW r \in RecipientId, isLive(st, r)
    PROVE  LET q == st.queues[r]
           IN  Becomes(deleteStoreQueue(st, r), [st.queues EXCEPT ![r] = Deleted],
                   [st.senders EXCEPT ![q.senderId] = None],
                   IF q.notifier = None THEN st.notifiers
                   ELSE [st.notifiers EXCEPT ![q.notifier.notifierId] = None], st.links)
  <1> DEFINE q == st.queues[r]
             gone == [put(st, r, Deleted) EXCEPT !.senders[q.senderId] = None]
             left == removeServiceQueue(gone, "rcv", r, q.rcvServiceId)
             qs == [st.queues EXCEPT ![r] = Deleted]
             ss == [st.senders EXCEPT ![q.senderId] = None]
  <1>1. /\ q.notifier \in Maybe(NtfCreds) /\ q.senderId \in SenderId
        /\ q.rcvServiceId \in Maybe(ServiceId)
    BY LiveTyped, RecTyped
  <1>2. Becomes(put(st, r, Deleted), qs, st.senders, st.notifiers, st.links)
    BY PutFields
  <1>3. ss \in [SenderId -> Maybe(RecipientId)]
    BY StoreTyped DEF Maybe
  <1>4. Becomes(gone, qs, ss, st.notifiers, st.links)
    BY <1>2, <1>3, StoreTyped DEF Store, Becomes
  <1> HIDE DEF gone
  <1>5. Becomes(left, qs, ss, st.notifiers, st.links)
    BY <1>1, <1>4, RemoveServiceFrame DEF Becomes
  <1> HIDE DEF left
  <1>6. deleteStoreQueue(st, r) = removeNotifier(left, q.notifier)
    BY DEF deleteStoreQueue, left, gone
  <1> QED BY <1>1, <1>5, <1>6, RemoveNotifierFrame DEF Becomes

(* A service that is created changes nothing of the queues. *)
LEMMA CreateServiceFields ==
    ASSUME NEW st \in Store, NEW s \in ServiceId, NEW c \in Cert, NEW role \in Role,
           getCreateService(st, s, c, role) # Refused
    PROVE  Becomes(getCreateService(st, s, c, role), st.queues, st.senders, st.notifiers, st.links)
  <1> DEFINE empty == [ids |-> {}, hash |-> {}]
             service == [cert |-> c, role |-> role, rcv |-> empty, ntf |-> empty]
             create == [st EXCEPT !.services[s] = service, !.serviceCerts[c] = s]
  <1>1. service \in Service
    BY DEF Service, IdsHash
  <1>2. /\ [st.services EXCEPT ![s] = service] \in [ServiceId -> Maybe(Service)]
        /\ [st.serviceCerts EXCEPT ![c] = s] \in [Cert -> Maybe(ServiceId)]
    BY <1>1, StoreTyped DEF Maybe
  <1> HIDE DEF service
  <1>3. Becomes(create, st.queues, st.senders, st.notifiers, st.links)
    BY <1>2, StoreTyped DEF Store, Becomes
  <1>4. getCreateService(st, s, c, role) \in {st, create}
    BY DEF getCreateService, Refused, service
  <1> QED BY <1>3, <1>4, StoreTyped DEF Becomes

(* Moving a queue from one service to another changes only the map of *)
(* services.                                                          *)
LEMMA MoveServiceFrame ==
    ASSUME NEW st \in Store, NEW kind \in {"rcv", "ntf"},
           NEW prev \in Maybe(ServiceId), NEW s \in Maybe(ServiceId), NEW id,
           id \in IF kind = "rcv" THEN RecipientId ELSE NotifierId
    PROVE  Becomes(moveServiceQueue(st, kind, id, prev, s), st.queues, st.senders, st.notifiers, st.links)
  BY AddServiceFrame, RemoveServiceFrame DEF moveServiceQueue, Becomes

(* The service of a queue changes in its record and in the map of services *)
(* only.                                                                   *)
LEMMA RcvServiceFields ==
    ASSUME NEW st \in Store, NEW r \in RecipientId, isLive(st, r), NEW s \in Maybe(ServiceId)
    PROVE  LET q2 == [st.queues[r] EXCEPT !.rcvServiceId = s]
           IN  /\ Becomes(setRcvService(st, r, s), [st.queues EXCEPT ![r] = q2],
                          st.senders, st.notifiers, st.links)
               /\ q2 \in QueueRec
  <1> DEFINE q == st.queues[r]
             q2 == [q EXCEPT !.rcvServiceId = s]
             st1 == moveServiceQueue(st, "rcv", r, q.rcvServiceId, s)
  <1>1. q2 \in QueueRec /\ q.rcvServiceId \in Maybe(ServiceId)
    BY LiveTyped, RecTyped DEF QueueRec, Maybe
  <1>2. CASE q.rcvServiceId = s
    <2>1. q2 = q
      BY <1>2, LiveTyped DEF QueueRec
    <2>2. setRcvService(st, r, s) = st /\ [st.queues EXCEPT ![r] = q2] = st.queues
      BY <1>2, <2>1, StoreTyped DEF setRcvService
    <2> QED BY <1>1, <2>2 DEF Becomes
  <1>3. CASE q.rcvServiceId # s
    <2>1. Becomes(st1, st.queues, st.senders, st.notifiers, st.links)
      BY <1>1, MoveServiceFrame
    <2>2. setRcvService(st, r, s) = put(st1, r, q2)
      BY <1>3 DEF setRcvService
    <2> HIDE DEF st1, q2
    <2> QED BY <1>1, <2>1, <2>2, PutFields DEF Becomes, q2
  <1> QED BY <1>2, <1>3

(* The service of a notifier changes in the record of its queue and in the *)
(* map of services only.                                                   *)
LEMMA NtfServiceFields ==
    ASSUME NEW st \in Store, NEW r \in RecipientId, isLive(st, r), NEW s \in Maybe(ServiceId),
           st.queues[r].notifier # None
    PROVE  LET q == st.queues[r]
               q2 == [q EXCEPT !.notifier = [q.notifier EXCEPT !.ntfServiceId = s]]
           IN  /\ Becomes(setNtfService(st, r, s), [st.queues EXCEPT ![r] = q2],
                          st.senders, st.notifiers, st.links)
               /\ q2 \in QueueRec
  <1> DEFINE q == st.queues[r]
             nc == q.notifier
             nc2 == [nc EXCEPT !.ntfServiceId = s]
             q2 == [q EXCEPT !.notifier = nc2]
             st1 == moveServiceQueue(st, "ntf", nc.notifierId, nc.ntfServiceId, s)
  <1>1. /\ nc # None /\ nc \in NtfCreds
        /\ nc.notifierId \in NotifierId /\ nc.ntfServiceId \in Maybe(ServiceId)
    BY LiveTyped, RecTyped
  <1>2. nc2 \in NtfCreds
    BY <1>1 DEF NtfCreds
  <1>3. q2 \in QueueRec
    BY <1>2, LiveTyped DEF QueueRec, Maybe
  <1>4. CASE nc.ntfServiceId = s
    <2>1. nc2 = nc
      BY <1>1, <1>4 DEF NtfCreds
    <2>2. q2 = q
      BY <2>1, LiveTyped DEF QueueRec
    <2>3. setNtfService(st, r, s) = st /\ [st.queues EXCEPT ![r] = q2] = st.queues
      BY <1>1, <1>4, <2>2, StoreTyped DEF setNtfService
    <2> QED BY <1>1, <1>3, <2>3 DEF Becomes
  <1>5. CASE nc.ntfServiceId # s
    <2>1. Becomes(st1, st.queues, st.senders, st.notifiers, st.links)
      BY <1>1, MoveServiceFrame
    <2>2. setNtfService(st, r, s) = put(st1, r, q2)
      BY <1>1, <1>5 DEF setNtfService
    <2> HIDE DEF st1, q2
    <2> QED BY <1>1, <1>3, <2>1, <2>2, PutFields DEF Becomes, q2
  <1> QED BY <1>4, <1>5

-----------------------------------------------------------------------------
(* Every transaction keeps the indexes of a store. *)

(* A record written over one with the same ids keeps the maps in *)
(* agreement.                                                    *)
LEMMA PutKeepsIndexes ==
    ASSUME NEW st, StoreOK(st), NEW r \in RecipientId, isLive(st, r), NEW q \in QueueRec,
           NEW st2, Becomes(st2, [st.queues EXCEPT ![r] = q], st.senders, st.notifiers, st.links),
           q.senderId = st.queues[r].senderId, q.queueData = st.queues[r].queueData,
           q.notifier = None <=> st.queues[r].notifier = None,
           q.notifier # None => q.notifier.notifierId = st.queues[r].notifier.notifierId
    PROVE  StoreOK(st2)
  <1>1. st \in Store /\ q \notin {Absent, Deleted}
    BY RecTyped DEF StoreOK
  <1>2. Indexed(st2)
    BY <1>1, StoreTyped DEF StoreOK, Indexed, isLive, Becomes
  <1>3. LinksKnown(st2)
    BY <1>1, StoreTyped DEF StoreOK, LinksKnown, Becomes
  <1> QED BY <1>2, <1>3 DEF StoreOK, Becomes

(* A new queue whose ids are all free keeps the maps in agreement. *)
LEMMA AddQueueKeepsIndexes ==
    ASSUME NEW st, StoreOK(st), NEW r \in RecipientId, NEW q \in QueueRec, ~hasId(st, r, q)
    PROVE  StoreOK(addQueue(st, r, q))
  <1> DEFINE st2 == addQueue(st, r, q)
  <1>1. st \in Store /\ q \notin {Absent, Deleted}
    BY RecTyped DEF StoreOK
  <1>2. Becomes(st2,
           [st.queues EXCEPT ![r] = q],
           [st.senders EXCEPT ![q.senderId] = r],
           IF q.notifier = None THEN st.notifiers
           ELSE [st.notifiers EXCEPT ![q.notifier.notifierId] = r],
           IF q.queueData = None THEN st.links ELSE [st.links EXCEPT ![q.queueData[1]] = r])
    BY <1>1, AddQueueFields
  <1> HIDE DEF st2
  <1>3. /\ st.queues[r] = Absent /\ st.senders[q.senderId] = None
        /\ q.notifier # None => st.notifiers[q.notifier.notifierId] = None
        /\ q.queueData # None => st.links[q.queueData[1]] = None
    BY DEF hasId
  <1>4. Indexed(st2)
    BY <1>1, <1>2, <1>3, StoreTyped, RecTyped, StoreAssumption
    DEF StoreOK, Indexed, LinksKnown, isLive, Becomes
  <1>5. LinksKnown(st2)
    BY <1>1, <1>2, <1>3, StoreTyped, RecTyped DEF StoreOK, LinksKnown, Becomes
  <1> QED BY <1>2, <1>4, <1>5 DEF StoreOK, Becomes, st2

(* A link that is free, or the queue's own, keeps the maps in agreement. *)
LEMMA AddLinkKeepsIndexes ==
    ASSUME NEW st, StoreOK(st), NEW r \in RecipientId, isLive(st, r), NEW l \in LinkId, NEW d \in LinkData,
           addQueueLinkData(st, r, l, d) # Refused
    PROVE  StoreOK(addQueueLinkData(st, r, l, d))
  <1> DEFINE st2 == addQueueLinkData(st, r, l, d)
             q == st.queues[r]
             q2 == [q EXCEPT !.queueData = <<l, d>>]
  <1>0. /\ st \in Store
        /\ q.queueData = None \/ (q.queueData[1] = l /\ q.queueData[2][1] = d[1])
        /\ st.links[l] \in {None, r}
    BY DEF addQueueLinkData, Refused, StoreOK
  <1>1. /\ st \in Store
        /\ q.queueData = None \/ q.queueData[1] = l
        /\ st.links[l] \in {None, r}
        /\ Becomes(st2, [st.queues EXCEPT ![r] = q2], st.senders, st.notifiers, [st.links EXCEPT ![l] = r])
        /\ q2 \in QueueRec
    BY <1>0, AddLinkFields
  <1>2. /\ q2.senderId = q.senderId /\ q2.notifier = q.notifier
        /\ q2.queueData[1] = l /\ q2.queueData # None
        /\ q2 \notin {Absent, Deleted}
    BY <1>1, LiveTyped, RecTyped, SentinelAssumption DEF QueueRec
  <1> HIDE DEF st2, q2
  <1>3. Indexed(st2)
    BY <1>1, <1>2, StoreTyped, StoreAssumption DEF StoreOK, Indexed, isLive, Becomes
  <1>4. LinksKnown(st2)
    BY <1>1, <1>2, StoreTyped DEF StoreOK, LinksKnown, Becomes, isLive
  <1> QED BY <1>1, <1>3, <1>4 DEF StoreOK, Becomes, st2

(* Deleting the link of a queue keeps the maps in agreement. *)
LEMMA DeleteLinkKeepsIndexes ==
    ASSUME NEW st, StoreOK(st), NEW r \in RecipientId, isLive(st, r)
    PROVE  StoreOK(deleteQueueLinkData(st, r))
  <1> DEFINE st2 == deleteQueueLinkData(st, r)
             q == st.queues[r]
             q2 == [q EXCEPT !.queueData = None]
  <1>1. CASE q.queueData = None
    BY <1>1 DEF deleteQueueLinkData
  <1>2. CASE q.queueData # None
    <2>1. /\ st \in Store
          /\ Becomes(st2, [st.queues EXCEPT ![r] = q2], st.senders, st.notifiers,
                     [st.links EXCEPT ![q.queueData[1]] = None])
          /\ q2 \in QueueRec
      BY <1>2, DeleteLinkFields DEF StoreOK
    <2>2. /\ q2.senderId = q.senderId /\ q2.notifier = q.notifier /\ q2.queueData = None
          /\ q2 \notin {Absent, Deleted} /\ q.queueData[1] \in LinkId
      BY <1>2, <2>1, LiveTyped, RecTyped DEF QueueRec
    <2> HIDE DEF st2, q2
    <2>3. Indexed(st2)
      BY <1>2, <2>1, <2>2, StoreTyped, StoreAssumption DEF StoreOK, Indexed, isLive, Becomes
    <2>4. LinksKnown(st2)
      BY <2>1, <2>2, StoreTyped, StoreAssumption DEF StoreOK, LinksKnown, Becomes, isLive
    <2> QED BY <2>1, <2>3, <2>4 DEF StoreOK, Becomes, st2
  <1> QED BY <1>1, <1>2

(* A free notifier id, with the previous one removed, keeps the maps in *)
(* agreement.                                                           *)
LEMMA AddNotifierKeepsIndexes ==
    ASSUME NEW st, StoreOK(st), NEW r \in RecipientId, isLive(st, r), NEW nc \in NtfCreds,
           addQueueNotifier(st, r, nc) # Refused
    PROVE  StoreOK(addQueueNotifier(st, r, nc))
  <1> DEFINE st2 == addQueueNotifier(st, r, nc)
             q == st.queues[r]
             q2 == [q EXCEPT !.notifier = nc]
             was == IF q.notifier = None THEN st.notifiers
                    ELSE [st.notifiers EXCEPT ![q.notifier.notifierId] = None]
  <1>0. st \in Store /\ st.notifiers[nc.notifierId] = None
    BY DEF addQueueNotifier, Refused, StoreOK
  <1>1. /\ st \in Store
        /\ st.notifiers[nc.notifierId] = None
        /\ Becomes(st2, [st.queues EXCEPT ![r] = q2], st.senders, [was EXCEPT ![nc.notifierId] = r], st.links)
        /\ q2 \in QueueRec
    BY <1>0, AddNotifierFields
  <1>2. /\ q2.senderId = q.senderId /\ q2.notifier = nc /\ q2.queueData = q.queueData
        /\ q2 \notin {Absent, Deleted} /\ nc # None /\ nc.notifierId \in NotifierId
        /\ q.notifier # None => q.notifier.notifierId \in NotifierId
    BY <1>1, LiveTyped, RecTyped, SentinelAssumption DEF QueueRec, NtfCreds
  <1> HIDE DEF st2, q2
  <1>3. Indexed(st2)
    BY <1>1, <1>2, StoreTyped, StoreAssumption DEF StoreOK, Indexed, isLive, Becomes
  <1>4. LinksKnown(st2)
    BY <1>1, <1>2, StoreTyped DEF StoreOK, LinksKnown, Becomes
  <1> QED BY <1>1, <1>3, <1>4 DEF StoreOK, Becomes, st2

(* Deleting the notifier keeps the maps in agreement. *)
LEMMA DeleteNotifierKeepsIndexes ==
    ASSUME NEW st, StoreOK(st), NEW r \in RecipientId, isLive(st, r)
    PROVE  StoreOK(deleteQueueNotifier(st, r))
  <1> DEFINE st2 == deleteQueueNotifier(st, r)
             q == st.queues[r]
             q2 == [q EXCEPT !.notifier = None]
  <1>1. /\ st \in Store
        /\ Becomes(st2, [st.queues EXCEPT ![r] = q2], st.senders,
                   IF q.notifier = None THEN st.notifiers
                   ELSE [st.notifiers EXCEPT ![q.notifier.notifierId] = None], st.links)
        /\ q2 \in QueueRec
    BY DeleteNotifierFields DEF StoreOK
  <1>2. /\ q2.senderId = q.senderId /\ q2.notifier = None /\ q2.queueData = q.queueData
        /\ q2 \notin {Absent, Deleted}
        /\ q.notifier # None => q.notifier.notifierId \in NotifierId
    BY <1>1, LiveTyped, RecTyped DEF QueueRec
  <1> HIDE DEF st2, q2
  <1>3. Indexed(st2)
    BY <1>1, <1>2, StoreTyped, StoreAssumption DEF StoreOK, Indexed, isLive, Becomes
  <1>4. LinksKnown(st2)
    BY <1>1, <1>2, StoreTyped DEF StoreOK, LinksKnown, Becomes
  <1> QED BY <1>1, <1>3, <1>4 DEF StoreOK, Becomes, st2

(* Deleting a queue keeps the maps in agreement: only its link stays, and *)
(* leads to a deleted queue.                                              *)
LEMMA DeleteQueueKeepsIndexes ==
    ASSUME NEW st, StoreOK(st), NEW r \in RecipientId, isLive(st, r)
    PROVE  StoreOK(deleteStoreQueue(st, r))
  <1> DEFINE st2 == deleteStoreQueue(st, r)
             q == st.queues[r]
  <1>1. /\ st \in Store
        /\ Becomes(st2, [st.queues EXCEPT ![r] = Deleted],
                   [st.senders EXCEPT ![q.senderId] = None],
                   IF q.notifier = None THEN st.notifiers
                   ELSE [st.notifiers EXCEPT ![q.notifier.notifierId] = None], st.links)
    BY DeleteQueueFields DEF StoreOK
  <1>2. /\ q.notifier # None => q.notifier.notifierId \in NotifierId
        /\ q.senderId \in SenderId
    BY <1>1, LiveTyped, RecTyped
  <1> HIDE DEF st2
  <1>3. Indexed(st2)
    BY <1>1, <1>2, StoreTyped, StoreAssumption DEF StoreOK, Indexed, isLive, Becomes
  <1>4. LinksKnown(st2)
    BY <1>1, <1>2, StoreTyped, StoreAssumption DEF StoreOK, LinksKnown, Becomes
  <1> QED BY <1>1, <1>3, <1>4 DEF StoreOK, Becomes, st2

(* A line names a queue or a service, and its argument has the type of the *)
(* operation.                                                              *)
LEMMA LineTyped ==
    ASSUME NEW line \in Line
    PROVE  /\ line.op # "NewService" => line.id \in RecipientId
           /\ \/ line.op = "CreateQueue" /\ line.arg \in QueueRec
              \/ line.op = "CreateLink" /\ line.arg[1] \in LinkId /\ line.arg[2] \in LinkData
              \/ line.op = "SecureQueue" /\ line.arg \in Key
              \/ line.op = "UpdateKeys" /\ line.arg \in RcvKeys
              \/ line.op = "AddNotifier" /\ line.arg \in NtfCreds
              \/ line.op = "UpdateTime" /\ line.arg \in Date
              \/ line.op \in {"DeleteLink", "DeleteNotifier", "SuspendQueue", "BlockQueue",
                              "UnblockQueue", "DeleteQueue"}
              \/ line.op \in {"RcvService", "NtfService"} /\ line.arg \in Maybe(ServiceId)
              \/ /\ line.op = "NewService" /\ line.id \in ServiceId
                 /\ line.arg.cert \in Cert /\ line.arg.role \in Role
  BY DEF Line

(* The record that a line leaves in the map of queues, for a queue that is *)
(* there before and after.                                                 *)
UpdatedRec(line, q, q2) ==
    /\ q2 \in QueueRec
    /\ q2.senderId = q.senderId
    /\ IF line.op = "SecureQueue" THEN q.senderKey \in {None, line.arg} /\ q2.senderKey = line.arg
       ELSE q2.senderKey = q.senderKey

(* What a line does to the map of queues. *)
Effect(st, line, st2) ==
    IF line.op = "NewService" THEN st2.queues = st.queues
    ELSE IF line.op = "CreateQueue"
    THEN st.queues[line.id] = Absent /\ st2.queues = [st.queues EXCEPT ![line.id] = line.arg]
    ELSE IF line.op = "DeleteQueue"
    THEN isLive(st, line.id) /\ st2.queues = [st.queues EXCEPT ![line.id] = Deleted]
    ELSE /\ isLive(st, line.id)
         /\ \E q2 \in QueueRec : /\ UpdatedRec(line, st.queues[line.id], q2)
                                 /\ st2.queues = [st.queues EXCEPT ![line.id] = q2]

(* A line that only writes a record with the same ids. *)
LEMMA PutEffect ==
    ASSUME NEW st, StoreOK(st), NEW line \in Line, line.op \notin {"CreateQueue", "NewService", "DeleteQueue"},
           isLive(st, line.id), NEW q2, UpdatedRec(line, st.queues[line.id], q2),
           q2.queueData = st.queues[line.id].queueData, q2.notifier = st.queues[line.id].notifier,
           procLogRecord(st, line) = put(st, line.id, q2)
    PROVE  StoreOK(procLogRecord(st, line)) /\ Effect(st, line, procLogRecord(st, line))
  <1>1. st \in Store /\ line.id \in RecipientId /\ q2 \in QueueRec
    BY LineTyped DEF StoreOK, UpdatedRec
  <1>2. Becomes(procLogRecord(st, line), [st.queues EXCEPT ![line.id] = q2],
                st.senders, st.notifiers, st.links)
    BY <1>1, PutFields
  <1>3. StoreOK(procLogRecord(st, line))
    BY <1>1, <1>2, PutKeepsIndexes DEF UpdatedRec
  <1>4. Effect(st, line, procLogRecord(st, line))
    BY <1>1, <1>2 DEF Effect, Becomes
  <1> QED BY <1>3, <1>4

(* Every line that a store takes keeps the maps in agreement, and does to *)
(* the map of queues what Effect says.                                    *)
LEMMA LineEffect ==
    ASSUME NEW st, StoreOK(st), NEW line \in Line,
           NEW st2, st2 = procLogRecord(st, line), st2 # Refused
    PROVE  StoreOK(st2) /\ Effect(st, line, st2)
  <1> DEFINE r == line.id
             q == st.queues[r]
  <1>1. st \in Store
    BY DEF StoreOK
  <1>2. CASE line.op = "CreateQueue"
    <2>1. st2 = addQueue(st, r, line.arg) /\ ~hasId(st, r, line.arg)
      BY <1>2 DEF procLogRecord, addQueue
    <2>2. r \in RecipientId /\ line.arg \in QueueRec
      BY <1>2, LineTyped
    <2>3. StoreOK(st2)
      BY <2>1, <2>2, AddQueueKeepsIndexes
    <2>4. st2.queues = [st.queues EXCEPT ![r] = line.arg]
      <3>1. Becomes(st2, [st.queues EXCEPT ![r] = line.arg],
               [st.senders EXCEPT ![line.arg.senderId] = r],
               IF line.arg.notifier = None THEN st.notifiers
               ELSE [st.notifiers EXCEPT ![line.arg.notifier.notifierId] = r],
               IF line.arg.queueData = None THEN st.links
               ELSE [st.links EXCEPT ![line.arg.queueData[1]] = r])
        BY <1>1, <2>1, <2>2, AddQueueFields
      <3> QED BY <3>1 DEF Becomes
    <2>5. st.queues[r] = Absent
      BY <2>1 DEF hasId
    <2> QED BY <1>2, <2>3, <2>4, <2>5 DEF Effect
  <1>3. CASE line.op = "NewService"
    <2>1. st2 = getCreateService(st, r, line.arg.cert, line.arg.role)
      BY <1>3 DEF procLogRecord
    <2>4. r \in ServiceId /\ line.arg.cert \in Cert /\ line.arg.role \in Role
      BY <1>3, LineTyped
    <2>2. Becomes(st2, st.queues, st.senders, st.notifiers, st.links)
      BY <1>1, <2>1, <2>4, CreateServiceFields
    <2>3. StoreOK(st2)
      BY <2>2 DEF StoreOK, Becomes, Indexed, LinksKnown, isLive
    <2> QED BY <1>3, <2>2, <2>3 DEF Effect, Becomes
  <1>4. ASSUME line.op \notin {"CreateQueue", "NewService"}
        PROVE  r \in RecipientId /\ isLive(st, r) /\ q \in QueueRec
    BY <1>1, <1>4, LineTyped, LiveTyped DEF procLogRecord
  <1>5. CASE line.op = "CreateLink"
    <2>9. line.arg[1] \in LinkId /\ line.arg[2] \in LinkData
      BY <1>5, LineTyped
    <2>1. st2 = addQueueLinkData(st, r, line.arg[1], line.arg[2])
      BY <1>4, <1>5 DEF procLogRecord
    <2>8. /\ \/ q.queueData = None
             \/ q.queueData[1] = line.arg[1] /\ q.queueData[2][1] = line.arg[2][1]
          /\ st.links[line.arg[1]] \in {None, r}
      BY <2>1 DEF addQueueLinkData, Refused
    <2>2. StoreOK(st2)
      BY <1>4, <1>5, <2>1, <2>9, AddLinkKeepsIndexes
    <2> DEFINE q2 == [q EXCEPT !.queueData = <<line.arg[1], line.arg[2]>>]
    <2>3. st2.queues = [st.queues EXCEPT ![r] = q2] /\ q2 \in QueueRec
      <3>1. /\ Becomes(st2, [st.queues EXCEPT ![r] = q2], st.senders, st.notifiers,
                       [st.links EXCEPT ![line.arg[1]] = r])
            /\ q2 \in QueueRec
        BY <1>1, <1>4, <1>5, <2>1, <2>8, <2>9, AddLinkFields
      <3> QED BY <3>1 DEF Becomes
    <2>4. UpdatedRec(line, q, q2)
      BY <1>4, <1>5, <2>3 DEF UpdatedRec, QueueRec
    <2> QED BY <1>4, <1>5, <2>2, <2>3, <2>4 DEF Effect
  <1>6. CASE line.op = "DeleteLink"
    <2>1. st2 = deleteQueueLinkData(st, r)
      BY <1>4, <1>6 DEF procLogRecord
    <2>2. StoreOK(st2)
      BY <1>4, <1>6, <2>1, DeleteLinkKeepsIndexes
    <2>3. \E q2 \in QueueRec : UpdatedRec(line, q, q2) /\ st2.queues = [st.queues EXCEPT ![r] = q2]
      <3>1. CASE q.queueData = None
        <4>1. st2 = st
          BY <2>1, <3>1 DEF deleteQueueLinkData
        <4>2. UpdatedRec(line, q, q) /\ st2.queues = [st.queues EXCEPT ![r] = q]
          BY <1>1, <1>4, <1>6, <4>1, StoreTyped DEF UpdatedRec
        <4> QED BY <1>4, <1>6, <4>2
      <3>2. CASE q.queueData # None
        <4> DEFINE q2 == [q EXCEPT !.queueData = None]
        <4>1. st2.queues = [st.queues EXCEPT ![r] = q2] /\ q2 \in QueueRec
          <5>1. /\ Becomes(st2, [st.queues EXCEPT ![r] = q2], st.senders, st.notifiers,
                           [st.links EXCEPT ![q.queueData[1]] = None])
                /\ q2 \in QueueRec
            BY <1>1, <1>4, <1>6, <2>1, <3>2, DeleteLinkFields
          <5> QED BY <5>1 DEF Becomes
        <4>2. UpdatedRec(line, q, q2)
          BY <1>4, <1>6, <4>1 DEF UpdatedRec, QueueRec
        <4> QED BY <4>1, <4>2
      <3> QED BY <3>1, <3>2
    <2> QED BY <1>4, <1>6, <2>2, <2>3 DEF Effect
  <1>7. CASE line.op = "SecureQueue"
    <2> DEFINE q2 == [q EXCEPT !.senderKey = line.arg]
    <2>1. q.senderKey \in {None, line.arg} /\ st2 = put(st, r, q2)
      BY <1>4, <1>7 DEF procLogRecord, secureQueue
    <2>2. UpdatedRec(line, q, q2) /\ q2.queueData = q.queueData /\ q2.notifier = q.notifier
      BY <1>4, <1>7, <2>1, LineTyped DEF UpdatedRec, QueueRec, Maybe
    <2> QED BY <1>4, <1>7, <2>1, <2>2, PutEffect
  <1>8. CASE line.op = "UpdateKeys"
    <2> DEFINE q2 == [q EXCEPT !.recipientKeys = line.arg]
    <2>1. st2 = put(st, r, q2)
      BY <1>4, <1>8 DEF procLogRecord, updateKeys
    <2>2. UpdatedRec(line, q, q2) /\ q2.queueData = q.queueData /\ q2.notifier = q.notifier
      BY <1>4, <1>8, LineTyped DEF UpdatedRec, QueueRec
    <2> QED BY <1>4, <1>8, <2>1, <2>2, PutEffect
  <1>9. CASE line.op = "UpdateTime"
    <2> DEFINE q2 == [q EXCEPT !.updatedAt = line.arg]
    <2>1. st2 = put(st, r, q2)
      BY <1>4, <1>9 DEF procLogRecord, updateQueueTime
    <2>2. UpdatedRec(line, q, q2) /\ q2.queueData = q.queueData /\ q2.notifier = q.notifier
      BY <1>4, <1>9, LineTyped DEF UpdatedRec, QueueRec, Maybe
    <2> QED BY <1>4, <1>9, <2>1, <2>2, PutEffect
  <1>10. CASE line.op \in {"SuspendQueue", "BlockQueue", "UnblockQueue"}
    <2>1. PICK status \in Status : st2 = setStatus(st, r, status)
      BY <1>4, <1>10 DEF procLogRecord, Status
    <2> DEFINE q2 == [q EXCEPT !.status = status]
    <2>2. st2 = put(st, r, q2)
      BY <2>1 DEF setStatus
    <2>3. UpdatedRec(line, q, q2) /\ q2.queueData = q.queueData /\ q2.notifier = q.notifier
      BY <1>4, <1>10 DEF UpdatedRec, QueueRec
    <2> QED BY <1>4, <1>10, <2>2, <2>3, PutEffect
  <1>11. CASE line.op = "AddNotifier"
    <2>9. line.arg \in NtfCreds
      BY <1>11, LineTyped
    <2>1. st2 = addQueueNotifier(st, r, line.arg)
      BY <1>4, <1>11 DEF procLogRecord
    <2>8. st.notifiers[line.arg.notifierId] = None
      BY <2>1 DEF addQueueNotifier, Refused
    <2>2. StoreOK(st2)
      BY <1>4, <1>11, <2>1, <2>9, AddNotifierKeepsIndexes
    <2> DEFINE q2 == [q EXCEPT !.notifier = line.arg]
    <2>3. st2.queues = [st.queues EXCEPT ![r] = q2] /\ q2 \in QueueRec
      <3> DEFINE was == IF q.notifier = None THEN st.notifiers
                        ELSE [st.notifiers EXCEPT ![q.notifier.notifierId] = None]
      <3>1. /\ Becomes(st2, [st.queues EXCEPT ![r] = q2], st.senders,
                       [was EXCEPT ![line.arg.notifierId] = r], st.links)
            /\ q2 \in QueueRec
        BY <1>1, <1>4, <1>11, <2>1, <2>8, <2>9, AddNotifierFields
      <3> QED BY <3>1 DEF Becomes
    <2>4. UpdatedRec(line, q, q2)
      BY <1>4, <1>11, <2>3 DEF UpdatedRec, QueueRec
    <2> QED BY <1>4, <1>11, <2>2, <2>3, <2>4 DEF Effect
  <1>12. CASE line.op = "DeleteNotifier"
    <2>1. st2 = deleteQueueNotifier(st, r)
      BY <1>4, <1>12 DEF procLogRecord
    <2>2. StoreOK(st2)
      BY <1>4, <1>12, <2>1, DeleteNotifierKeepsIndexes
    <2> DEFINE q2 == [q EXCEPT !.notifier = None]
    <2>3. st2.queues = [st.queues EXCEPT ![r] = q2] /\ q2 \in QueueRec
      <3>1. /\ Becomes(st2, [st.queues EXCEPT ![r] = q2], st.senders,
                       IF q.notifier = None THEN st.notifiers
                       ELSE [st.notifiers EXCEPT ![q.notifier.notifierId] = None], st.links)
            /\ q2 \in QueueRec
        BY <1>1, <1>4, <1>12, <2>1, DeleteNotifierFields
      <3> QED BY <3>1 DEF Becomes
    <2>4. UpdatedRec(line, q, q2)
      BY <1>4, <1>12, <2>3 DEF UpdatedRec, QueueRec
    <2> QED BY <1>4, <1>12, <2>2, <2>3, <2>4 DEF Effect
  <1>13. CASE line.op = "DeleteQueue"
    <2>1. st2 = deleteStoreQueue(st, r)
      BY <1>4, <1>13 DEF procLogRecord
    <2>2. StoreOK(st2)
      BY <1>4, <1>13, <2>1, DeleteQueueKeepsIndexes
    <2>3. st2.queues = [st.queues EXCEPT ![r] = Deleted]
      <3>1. \E ss, ns : Becomes(st2, [st.queues EXCEPT ![r] = Deleted], ss, ns, st.links)
        BY <1>1, <1>4, <1>13, <2>1, DeleteQueueFields
      <3> QED BY <3>1 DEF Becomes
    <2> QED BY <1>4, <1>13, <2>2, <2>3 DEF Effect
  <1>14. CASE line.op = "RcvService"
    <2>9. line.arg \in Maybe(ServiceId)
      BY <1>14, LineTyped
    <2>1. st2 = setRcvService(st, r, line.arg)
      BY <1>4, <1>14 DEF procLogRecord
    <2> DEFINE q2 == [q EXCEPT !.rcvServiceId = line.arg]
    <2>2. /\ Becomes(st2, [st.queues EXCEPT ![r] = q2], st.senders, st.notifiers, st.links)
          /\ q2 \in QueueRec
      BY <1>1, <1>4, <1>14, <2>1, <2>9, RcvServiceFields
    <2>3. UpdatedRec(line, q, q2) /\ q2.queueData = q.queueData /\ q2.notifier = q.notifier
      BY <1>4, <1>14, <2>2 DEF UpdatedRec, QueueRec
    <2>4. StoreOK(st2)
      BY <1>4, <1>14, <2>2, <2>3, PutKeepsIndexes DEF UpdatedRec
    <2> QED BY <1>4, <1>14, <2>2, <2>3, <2>4 DEF Effect, Becomes
  <1>15. CASE line.op = "NtfService"
    <2>9. line.arg \in Maybe(ServiceId)
      BY <1>15, LineTyped
    <2>1. st2 = setNtfService(st, r, line.arg)
      BY <1>4, <1>15 DEF procLogRecord
    <2>8. q.notifier # None
      BY <2>1 DEF setNtfService, Refused
    <2> DEFINE nc2 == [q.notifier EXCEPT !.ntfServiceId = line.arg]
               q2 == [q EXCEPT !.notifier = nc2]
    <2>2. /\ Becomes(st2, [st.queues EXCEPT ![r] = q2], st.senders, st.notifiers, st.links)
          /\ q.notifier # None /\ q2 \in QueueRec
      BY <1>1, <1>4, <1>15, <2>1, <2>8, <2>9, NtfServiceFields
    <2>3. /\ UpdatedRec(line, q, q2) /\ q2.queueData = q.queueData
          /\ q2.notifier # None /\ q2.notifier.notifierId = q.notifier.notifierId
      <3>1. q.notifier \in NtfCreds
        BY <1>4, <1>15, <2>2, RecTyped
      <3>2. nc2 \in NtfCreds /\ nc2.notifierId = q.notifier.notifierId
        BY <1>15, <3>1, LineTyped DEF NtfCreds
      <3> HIDE DEF nc2
      <3> QED BY <1>4, <1>15, <2>2, <3>2, SentinelAssumption DEF UpdatedRec, QueueRec
    <2>4. StoreOK(st2)
      BY <1>4, <1>15, <2>2, <2>3, PutKeepsIndexes DEF UpdatedRec
    <2> QED BY <1>4, <1>15, <2>2, <2>3, <2>4 DEF Effect, Becomes
  <1> QED BY LineTyped, <1>2, <1>3, <1>5, <1>6, <1>7, <1>8, <1>9, <1>10, <1>11, <1>12,
             <1>13, <1>14, <1>15

-----------------------------------------------------------------------------
(* The inductive invariant. *)

Phase == {"down", "read", "loaded", "compact", "running"}

TypeOK ==
    /\ mem \in Store
    /\ file \in Maybe(Store) /\ start \in Maybe(Store)
    /\ phase \in Phase
    /\ inflight \in [Thread -> Maybe(Job)]
    /\ told \in [RecipientId -> QueueRec \cup {Absent, Deleted}]
    /\ secured \in [RecipientId -> Maybe(Key)]
    /\ unsure \subseteq RecipientId \cup SenderId \cup NotifierId \cup LinkId \cup ServiceId
    /\ {ops, crashes, fails} \subseteq Nat

AllStoresOK == \A st \in stores : StoreOK(st)

(* Which files exist in which phase; commands run only when it is over. *)
Phases ==
    /\ phase \in {"read", "loaded", "running"} => file # None /\ start = None
    /\ phase = "compact" => start # None
    /\ phase # "running" => inflight = [t \in Thread |-> None]

(* The operation that t has done in memory and not yet logged changes r. *)
pending(t, r) ==
    inflight[t] # None /\ inflight[t].line.op # "NewService" /\ inflight[t].line.id = r

PendingKnown ==
    \A t \in Thread, r \in RecipientId : pending(t, r) => mem.queues[r] # Absent

(* What the file or the compacted file has, memory knows. *)
FileKnown ==
    /\ phase = "running" => \A r \in RecipientId : isLive(file, r) => mem.queues[r] # Absent
    /\ phase = "compact" /\ file # None =>
           \A r \in RecipientId : isLive(file, r) => file.queues[r] = mem.queues[r]

(* Nobody else can name a queue before its creation is answered. *)
CreatedAlone ==
    \A t \in Thread, r \in RecipientId :
        pending(t, r) /\ inflight[t].line.op = "CreateQueue" =>
            /\ told[r] = Absent
            /\ \A u \in Thread \ {t} : ~pending(u, r)

DeletedInMemory ==
    \A t \in Thread, r \in RecipientId :
        pending(t, r) /\ inflight[t].line.op = "DeleteQueue" => mem.queues[r] = Deleted

ToldDeleted ==
    \A r \in RecipientId : told[r] = Deleted => \A st \in stores : ~isLive(st, r)

(* The keys that secure a queue, in memory, in the file, in a pending line *)
(* or as its sender was told, are all the same key.                        *)
secures(t, r) == pending(t, r) /\ inflight[t].line.op = "SecureQueue"

CreatedUnsecured ==
    \A t \in Thread, r \in RecipientId :
        pending(t, r) /\ inflight[t].line.op = "CreateQueue" =>
            secured[r] = None /\ inflight[t].line.arg.senderKey = None

SecuredKept ==
    \A r \in RecipientId : secured[r] # None =>
        \A st \in stores : isLive(st, r) => st.queues[r].senderKey = secured[r]

PendingKeys ==
    \A t \in Thread, r \in RecipientId : secures(t, r) =>
        /\ isLive(mem, r) => mem.queues[r].senderKey = inflight[t].line.arg
        /\ isLive(file, r) => file.queues[r].senderKey \in {None, inflight[t].line.arg}
        /\ secured[r] \in {None, inflight[t].line.arg}
        /\ \A u \in Thread : secures(u, r) => inflight[u].line.arg = inflight[t].line.arg

FileKeys ==
    phase = "running" =>
        \A r \in RecipientId : isLive(mem, r) /\ isLive(file, r) =>
            file.queues[r].senderKey \in {None, mem.queues[r].senderKey}

KeysAgree == CreatedUnsecured /\ SecuredKept /\ PendingKeys /\ FileKeys

DelInv == CreatedAlone /\ DeletedInMemory /\ ToldDeleted

IInv == TypeOK /\ AllStoresOK /\ Phases /\ PendingKnown /\ FileKnown

-----------------------------------------------------------------------------

(* The empty store. *)
LEMMA NewStoreOK ==
    StoreOK(newQueueStore) /\ \A r \in RecipientId : newQueueStore.queues[r] = Absent
  <1>1. newQueueStore \in Store
    BY DEF newQueueStore, Store, Maybe
  <1>2. Indexed(newQueueStore)
    BY StoreAssumption DEF newQueueStore, Indexed, isLive
  <1>3. LinksKnown(newQueueStore)
    BY StoreAssumption DEF newQueueStore, LinksKnown
  <1> QED BY <1>1, <1>2, <1>3 DEF StoreOK, newQueueStore

(* A line that a file does not take leaves it as it is. *)
LEMMA AppendedEffect ==
    ASSUME NEW f, StoreOK(f), NEW line \in Line
    PROVE  /\ StoreOK(appended(f, line))
           /\ \/ procLogRecord(f, line) = Refused /\ appended(f, line) = f
              \/ appended(f, line) = procLogRecord(f, line) /\ Effect(f, line, appended(f, line))
  <1>1. CASE procLogRecord(f, line) = Refused
    BY <1>1 DEF appended
  <1>2. CASE procLogRecord(f, line) # Refused
    BY <1>2, LineEffect DEF appended
  <1> QED BY <1>1, <1>2

(* Queues other than that of the line, and what happens to the one it names. *)
LEMMA EffectFacts ==
    ASSUME NEW st \in Store, NEW line \in Line, NEW st2 \in Store, Effect(st, line, st2)
    PROVE  \A r \in RecipientId :
             /\ line.op = "NewService" \/ line.id # r => st2.queues[r] = st.queues[r]
             /\ st.queues[r] # Absent => st2.queues[r] # Absent
             /\ st.queues[r] = Deleted => st2.queues[r] = Deleted
             /\ isLive(st2, r) => isLive(st, r) \/ (line.op = "CreateQueue" /\ line.id = r)
             /\ line.op = "CreateQueue" /\ line.id = r =>
                   st.queues[r] = Absent /\ st2.queues[r] = line.arg /\ isLive(st2, r)
             /\ line.op = "DeleteQueue" /\ line.id = r => st2.queues[r] = Deleted
             /\ line.op \notin {"CreateQueue", "DeleteQueue", "NewService"} /\ line.id = r =>
                   /\ isLive(st, r) /\ isLive(st2, r)
                   /\ UpdatedRec(line, st.queues[r], st2.queues[r])
  <1> SUFFICES ASSUME NEW r \in RecipientId
               PROVE  /\ line.op = "NewService" \/ line.id # r => st2.queues[r] = st.queues[r]
                      /\ st.queues[r] # Absent => st2.queues[r] # Absent
                      /\ st.queues[r] = Deleted => st2.queues[r] = Deleted
                      /\ isLive(st2, r) => isLive(st, r) \/ (line.op = "CreateQueue" /\ line.id = r)
                      /\ line.op = "CreateQueue" /\ line.id = r =>
                            st.queues[r] = Absent /\ st2.queues[r] = line.arg /\ isLive(st2, r)
                      /\ line.op = "DeleteQueue" /\ line.id = r => st2.queues[r] = Deleted
                      /\ line.op \notin {"CreateQueue", "DeleteQueue", "NewService"} /\ line.id = r =>
                            /\ isLive(st, r) /\ isLive(st2, r)
                            /\ UpdatedRec(line, st.queues[r], st2.queues[r])
    OBVIOUS
  <1>1. CASE line.op = "NewService"
    BY <1>1 DEF Effect, isLive
  <1>2. CASE line.op = "CreateQueue"
    <2>1. line.arg \in QueueRec /\ line.arg \notin {Absent, Deleted} /\ line.id \in RecipientId
      BY <1>2, LineTyped, RecTyped
    <2> QED BY <1>2, <2>1, StoreTyped, StoreAssumption DEF Effect, isLive
  <1>3. CASE line.op = "DeleteQueue"
    BY <1>3, LineTyped, StoreTyped, StoreAssumption DEF Effect, isLive
  <1>4. CASE line.op \notin {"CreateQueue", "DeleteQueue", "NewService"}
    <2>1. PICK q2 \in QueueRec : /\ isLive(st, line.id)
                                 /\ UpdatedRec(line, st.queues[line.id], q2)
                                 /\ st2.queues = [st.queues EXCEPT ![line.id] = q2]
      BY <1>4 DEF Effect
    <2>2. q2 \notin {Absent, Deleted} /\ line.id \in RecipientId
      BY <1>4, LineTyped, RecTyped
    <2> QED BY <1>4, <2>1, <2>2, StoreTyped, StoreAssumption DEF isLive
  <1> QED BY <1>1, <1>2, <1>3, <1>4

(* What the server gives an operation: a new queue has no key, its notifier *)
(* no service; services that queues join exist; a service is created for a  *)
(* certificate that has none, under an id that no queue refers to.          *)
Guarded(line) ==
    /\ line.op = "CreateQueue" =>
          /\ line.arg.senderKey = None
          /\ line.arg.notifier # None => line.arg.notifier.ntfServiceId = None
          /\ line.arg.rcvServiceId # None => mem.services[line.arg.rcvServiceId] # None
    /\ line.op = "AddNotifier" => line.arg.ntfServiceId = None
    /\ line.op \in {"RcvService", "NtfService"} => line.arg = None \/ mem.services[line.arg] # None
    /\ line.op = "NewService" =>
          /\ mem.serviceCerts[line.arg.cert] = None
          /\ \A r \in RecipientId : isLive(mem, r) => line.id \notin usedServices(mem.queues[r])

(* An accepted operation is a transaction with one line of the log. *)
Accepted(t, line) ==
    /\ Transact(t, line) /\ Guarded(line)
    /\ IF line.op = "CreateQueue"
       THEN told' = [told EXCEPT ![line.id] = Absent] /\ secured' = [secured EXCEPT ![line.id] = None]
       ELSE UNCHANGED <<told, secured>> /\ (line.op # "NewService" => told[line.id] # Absent)

(* Every operation of a client thread is a transaction with one line of *)
(* the log, under the guards of the server.                             *)
LEMMA OperationAccepted ==
    ASSUME TypeOK, NEW t \in Thread, Operation(t)
    PROVE  \E line \in Line : Accepted(t, line)
  <1>1. ASSUME NEW line \in Line, line.op \notin {"CreateQueue", "NewService"}, QueueOp(t, line),
               Guarded(line)
        PROVE  Accepted(t, line)
    BY <1>1 DEF QueueOp, Accepted
  <1>2. CASE AddQueue(t)
    <2>1. PICK r \in RecipientId, s \in SenderId, ks \in RcvKeys, qd \in Maybe(LinkId \X LinkData),
               n \in Maybe(NotifierId), d \in Date,
               sv \in {None} \cup {x \in ServiceId : mem.services[x] # None} :
             /\ Transact(t, [id |-> r, op |-> "CreateQueue", arg |->
                  [senderId |-> s, senderKey |-> None, recipientKeys |-> ks, queueData |-> qd,
                   notifier |-> IF n = None THEN None ELSE [notifierId |-> n, ntfServiceId |-> None],
                   status |-> "active", updatedAt |-> d, rcvServiceId |-> sv]])
             /\ told' = [told EXCEPT ![r] = Absent]
             /\ secured' = [secured EXCEPT ![r] = None]
      BY <1>2 DEF AddQueue
    <2> DEFINE q == [senderId |-> s, senderKey |-> None, recipientKeys |-> ks, queueData |-> qd,
                     notifier |-> IF n = None THEN None ELSE [notifierId |-> n, ntfServiceId |-> None],
                     status |-> "active", updatedAt |-> d, rcvServiceId |-> sv]
               line == [id |-> r, op |-> "CreateQueue", arg |-> q]
    <2>2. q \in QueueRec
      BY DEF QueueRec, Maybe, NtfCreds, Status
    <2> HIDE DEF q
    <2>3. line \in Line
      BY <2>2 DEF Line
    <2>4. Guarded(line)
      <3>1. /\ q.senderKey = None /\ q.rcvServiceId = sv
            /\ q.notifier # None => q.notifier.ntfServiceId = None
        BY DEF q
      <3> QED BY <3>1 DEF Guarded
    <2>5. Accepted(t, line)
      BY <2>1, <2>4 DEF Accepted, q
    <2> HIDE DEF line
    <2> QED BY <2>3, <2>5
  <1>3. CASE AddQueueLinkData(t)
    <2>1. PICK r \in RecipientId, l \in LinkId, d \in LinkData :
             QueueOp(t, [id |-> r, op |-> "CreateLink", arg |-> <<l, d>>])
      BY <1>3 DEF AddQueueLinkData
    <2>2. [id |-> r, op |-> "CreateLink", arg |-> <<l, d>>] \in Line
      BY DEF Line
    <2> QED BY <1>1, <2>1, <2>2 DEF Guarded
  <1>4. CASE UpdateKeys(t)
    <2>1. PICK r \in RecipientId, ks \in RcvKeys : QueueOp(t, [id |-> r, op |-> "UpdateKeys", arg |-> ks])
      BY <1>4 DEF UpdateKeys
    <2>2. [id |-> r, op |-> "UpdateKeys", arg |-> ks] \in Line
      BY DEF Line
    <2> QED BY <1>1, <2>1, <2>2 DEF Guarded
  <1>5. CASE SecureQueue(t)
    <2>1. PICK r \in RecipientId, k \in Key : QueueOp(t, [id |-> r, op |-> "SecureQueue", arg |-> k])
      BY <1>5 DEF SecureQueue
    <2>2. [id |-> r, op |-> "SecureQueue", arg |-> k] \in Line
      BY DEF Line
    <2> QED BY <1>1, <2>1, <2>2 DEF Guarded
  <1>6. CASE AddQueueNotifier(t)
    <2>1. PICK r \in RecipientId, n \in NotifierId :
             QueueOp(t, [id |-> r, op |-> "AddNotifier", arg |-> [notifierId |-> n, ntfServiceId |-> None]])
      BY <1>6 DEF AddQueueNotifier
    <2>2. [id |-> r, op |-> "AddNotifier", arg |-> [notifierId |-> n, ntfServiceId |-> None]] \in Line
      BY DEF Line, NtfCreds, Maybe
    <2> QED BY <1>1, <2>1, <2>2 DEF Guarded
  <1>7. CASE UpdateQueueTime(t)
    <2>1. PICK r \in RecipientId, d \in Date : QueueOp(t, [id |-> r, op |-> "UpdateTime", arg |-> d])
      BY <1>7 DEF UpdateQueueTime
    <2>2. [id |-> r, op |-> "UpdateTime", arg |-> d] \in Line
      BY DEF Line
    <2> QED BY <1>1, <2>1, <2>2 DEF Guarded
  <1>8. CASE SetQueueService(t)
    <2>1. PICK r \in RecipientId, party \in {"RcvService", "NtfService"},
               s \in {None} \cup {x \in ServiceId : mem.services[x] # None} :
             QueueOp(t, [id |-> r, op |-> party, arg |-> s])
      BY <1>8 DEF SetQueueService
    <2>2. [id |-> r, op |-> party, arg |-> s] \in Line
      BY DEF Line, Maybe
    <2> QED BY <1>1, <2>1, <2>2 DEF Guarded
  <1>9. CASE GetCreateService(t)
    <2>1. PICK s \in ServiceId, c \in Cert, role \in Role :
             /\ Transact(t, [id |-> s, op |-> "NewService", arg |-> [cert |-> c, role |-> role]])
             /\ UNCHANGED <<told, secured>>
             /\ mem.serviceCerts[c] = None
             /\ \A r \in RecipientId : isLive(mem, r) => s \notin usedServices(mem.queues[r])
      BY <1>9 DEF GetCreateService
    <2>2. [id |-> s, op |-> "NewService", arg |-> [cert |-> c, role |-> role]] \in Line
      BY DEF Line
    <2> QED BY <2>1, <2>2 DEF Accepted, Guarded
  <1>10. ASSUME NEW r \in RecipientId,
                NEW op \in {"DeleteLink", "DeleteNotifier", "SuspendQueue", "BlockQueue", "UnblockQueue",
                            "DeleteQueue"},
                QueueOp(t, [id |-> r, op |-> op, arg |-> None])
         PROVE  \E line \in Line : Accepted(t, line)
    <2>1. [id |-> r, op |-> op, arg |-> None] \in Line
      BY DEF Line
    <2> QED BY <1>1, <1>10, <2>1 DEF Guarded
  <1> QED BY <1>2, <1>3, <1>4, <1>5, <1>6, <1>7, <1>8, <1>9, <1>10
          DEF Operation, DeleteQueueLinkData, DeleteQueueNotifier, SuspendQueue, BlockQueue,
              UnblockQueue, DeleteStoreQueue

-----------------------------------------------------------------------------

(* The stores of a state: memory and the files that exist. *)
LEMMA StoresOK ==
    AllStoresOK <=> /\ StoreOK(mem)
                    /\ file # None => StoreOK(file)
                    /\ start # None => StoreOK(start)
  BY DEF AllStoresOK, stores

(* The ids that an operation claims and the services it uses. *)
LEMMA ClaimsTyped ==
    ASSUME NEW line \in Line, NEW before \in Store, NEW after \in Store
    PROVE  /\ claimed(line, before, after) \in
                  SUBSET (RecipientId \cup SenderId \cup NotifierId \cup LinkId \cup ServiceId)
           /\ used(line, before, after) \in SUBSET ServiceId
  <1> DEFINE Ids == RecipientId \cup SenderId \cup NotifierId \cup LinkId \cup ServiceId
  <1>1. line.id \in RecipientId \cup ServiceId
    BY LineTyped
  <1>2. \A q \in recsOf(line, before, after) : q \in QueueRec
    <2>1. CASE line.op = "NewService"
      BY <2>1 DEF recsOf
    <2>2. CASE line.op # "NewService"
      BY <2>2, LineTyped, StoreTyped DEF recsOf
    <2> QED BY <2>1, <2>2
  <1>3. \A q \in QueueRec : heldIds(q) \subseteq Ids /\ usedServices(q) \subseteq ServiceId
    BY RecTyped DEF heldIds, usedServices, Maybe
  <1> QED BY <1>1, <1>2, <1>3 DEF claimed, used

(* What a transaction does, in terms of its line. *)
LEMMA TransactFacts ==
    ASSUME IInv, NEW t \in Thread, NEW line \in Line, Transact(t, line)
    PROVE  /\ phase = "running" /\ inflight[t] = None
           /\ mem' = procLogRecord(mem, line) /\ mem' # Refused
           /\ mem' \in Store /\ StoreOK(mem') /\ Effect(mem, line, mem')
           /\ \E job \in Job : /\ job.line = line
                               /\ job.claims = claimed(line, mem, mem')
                               /\ job.uses = used(line, mem, mem')
                               /\ inflight' = [inflight EXCEPT ![t] = job]
           /\ unsure' \subseteq RecipientId \cup SenderId \cup NotifierId \cup LinkId \cup ServiceId
           /\ ops' \in Nat
           /\ UNCHANGED <<file, start, phase, crashes, fails>>
  <1> DEFINE after == procLogRecord(mem, line)
             job == [line |-> line, claims |-> claimed(line, mem, after), uses |-> used(line, mem, after)]
             others == {inflight[u] : u \in {v \in Thread : inflight[v] # None}}
             rivals == {o \in others : interferes(job, o)}
             Ids == RecipientId \cup SenderId \cup NotifierId \cup LinkId \cup ServiceId
  <1>1. /\ phase = "running" /\ inflight[t] = None /\ after # Refused /\ mem' = after
        /\ inflight' = [inflight EXCEPT ![t] = job]
        /\ unsure' = IF rivals # {} \/ (job.claims \cup job.uses) \cap unsure # {}
                     THEN unsure \cup job.claims \cup UNION {o.claims : o \in rivals}
                     ELSE unsure
        /\ ops' = ops + 1
        /\ UNCHANGED <<file, start, phase, crashes, fails>>
    BY DEF Transact
  <1>2. StoreOK(mem)
    BY StoresOK DEF IInv
  <1>3. StoreOK(mem') /\ Effect(mem, line, mem')
    BY <1>1, <1>2, LineEffect
  <1>4. mem \in Store /\ after \in Store
    BY <1>1, <1>2, <1>3 DEF StoreOK
  <1>5. job \in Job
    BY <1>4, ClaimsTyped DEF Job
  <1>6. others \subseteq Job
    BY DEF IInv, TypeOK, Maybe
  <1>7. \A o \in Job : o.claims \subseteq Ids
    BY DEF Job
  <1>8. unsure' \subseteq Ids
    <2>1. job.claims \subseteq Ids
      BY <1>5, <1>7
    <2>2. UNION {o.claims : o \in rivals} \subseteq Ids
      BY <1>6, <1>7
    <2>3. unsure \subseteq Ids
      BY DEF IInv, TypeOK
    <2> HIDE DEF job, rivals, others
    <2> QED BY <1>1, <2>1, <2>2, <2>3
  <1>9. job.line = line /\ job.claims = claimed(line, mem, after) /\ job.uses = used(line, mem, after)
    OBVIOUS
  <1>10. ops' \in Nat
    BY <1>1 DEF IInv, TypeOK
  <1> HIDE DEF job, rivals, others
  <1> QED BY <1>1, <1>3, <1>4, <1>5, <1>8, <1>9, <1>10

(* The server starts without files in the invariant. *)
LEMMA InitIInv == Init => IInv
  <1> SUFFICES ASSUME Init PROVE IInv
    OBVIOUS
  <1>1. StoreOK(mem) /\ file = None /\ start = None /\ phase = "down"
    BY NewStoreOK DEF Init
  <1>2. TypeOK
    BY <1>1 DEF Init, TypeOK, StoreOK, Maybe, Phase
  <1>3. AllStoresOK
    BY <1>1, StoresOK
  <1>4. Phases /\ PendingKnown /\ FileKnown
    BY <1>1 DEF Init, Phases, PendingKnown, FileKnown, pending
  <1> QED BY <1>2, <1>3, <1>4 DEF IInv

(* A transaction changes memory and leaves the files alone. *)
LEMMA AcceptedIInv ==
    ASSUME IInv, NEW t \in Thread, NEW line \in Line, Accepted(t, line)
    PROVE  IInv'
  <1>1. PICK job \in Job : job.line = line /\ inflight' = [inflight EXCEPT ![t] = job]
    BY TransactFacts DEF Accepted
  <1>2. /\ phase = "running" /\ mem' \in Store /\ StoreOK(mem') /\ Effect(mem, line, mem')
        /\ unsure' \subseteq RecipientId \cup SenderId \cup NotifierId \cup LinkId \cup ServiceId
        /\ ops' \in Nat
        /\ UNCHANGED <<file, start, phase, crashes, fails>>
    BY TransactFacts DEF Accepted
  <1>3. TypeOK'
    <2>1. inflight' \in [Thread -> Maybe(Job)]
      BY <1>1 DEF IInv, TypeOK, Maybe
    <2>2. told' \in [RecipientId -> QueueRec \cup {Absent, Deleted}] /\ secured' \in [RecipientId -> Maybe(Key)]
      BY DEF Accepted, IInv, TypeOK, Maybe
    <2> QED BY <1>2, <2>1, <2>2 DEF IInv, TypeOK
  <1>4. AllStoresOK'
    BY <1>2 DEF AllStoresOK, stores, IInv
  <1>5. Phases'
    BY <1>2 DEF IInv, Phases
  <1>6. \A r \in RecipientId : mem.queues[r] # Absent => mem'.queues[r] # Absent
    BY <1>2, EffectFacts DEF IInv, TypeOK
  <1>7. PendingKnown'
    <2> SUFFICES ASSUME NEW u \in Thread, NEW r \in RecipientId, pending(u, r)'
                 PROVE  mem'.queues[r] # Absent
      BY DEF PendingKnown
    <2>1. CASE u # t
      <3>1. pending(u, r)
        BY <1>1, <2>1 DEF pending, IInv, TypeOK
      <3> QED BY <1>6, <3>1 DEF IInv, PendingKnown
    <2>2. CASE u = t
      <3>1. line.op # "NewService" /\ line.id = r
        BY <1>1, <2>2 DEF pending, IInv, TypeOK
      <3>2. \/ line.op = "CreateQueue" /\ mem'.queues[r] = line.arg /\ isLive(mem', r)
            \/ line.op = "DeleteQueue" /\ mem'.queues[r] = Deleted
            \/ isLive(mem', r)
        BY <1>2, <3>1, EffectFacts DEF IInv, TypeOK
      <3> QED BY <3>2, StoreAssumption DEF isLive
    <2> QED BY <2>1, <2>2
  <1>8. FileKnown'
    BY <1>2, <1>6 DEF IInv, FileKnown
  <1> QED BY <1>3, <1>4, <1>5, <1>7, <1>8 DEF IInv

(* What the file becomes when a pending line is written, or fails to be. *)
LEMMA LoggedFacts ==
    ASSUME IInv, NEW t \in Thread, WithLog(t) \/ WithLogFails(t)
    PROVE  /\ phase = "running" /\ inflight[t] \in Job /\ inflight[t] # None
           /\ inflight[t].line \in Line
           /\ file # None /\ start = None /\ StoreOK(file) /\ file \in Store
           /\ StoreOK(file') /\ file' \in Store
           /\ file' = file \/ Effect(file, inflight[t].line, file')
           /\ file' \in {file, appended(file, inflight[t].line)}
           /\ inflight' = [inflight EXCEPT ![t] = None]
           /\ UNCHANGED <<mem, start, phase>>
           /\ unsure' \subseteq RecipientId \cup SenderId \cup NotifierId \cup LinkId \cup ServiceId
           /\ {ops, crashes, fails}' \subseteq Nat
  <1>1. /\ inflight[t] # None
        /\ file' \in {file, appended(file, inflight[t].line)}
        /\ inflight' = [inflight EXCEPT ![t] = None]
        /\ UNCHANGED <<mem, start, phase>>
        /\ unsure' \in {unsure, unsure \cup inflight[t].claims}
        /\ ops' = ops /\ crashes' = crashes /\ fails' \in {fails, fails + 1}
    BY DEF WithLog, WithLogFails, counters
  <1>2. inflight[t] \in Job
    BY <1>1 DEF IInv, TypeOK, Maybe
  <1>3. /\ inflight[t].line \in Line
        /\ inflight[t].claims \subseteq RecipientId \cup SenderId \cup NotifierId \cup LinkId \cup ServiceId
    BY <1>2 DEF Job
  <1>4. phase = "running"
    BY <1>1 DEF IInv, Phases
  <1>5. file # None /\ start = None /\ StoreOK(file)
    BY <1>4, StoresOK DEF IInv, Phases
  <1>6. StoreOK(file') /\ (file' = file \/ Effect(file, inflight[t].line, file'))
    BY <1>1, <1>3, <1>5, AppendedEffect
  <1>7. {ops, crashes, fails}' \subseteq Nat
    BY <1>1 DEF IInv, TypeOK
  <1>8. unsure' \subseteq RecipientId \cup SenderId \cup NotifierId \cup LinkId \cup ServiceId
    BY <1>1, <1>3 DEF IInv, TypeOK
  <1> QED BY <1>1, <1>2, <1>3, <1>4, <1>5, <1>6, <1>7, <1>8 DEF StoreOK

(* What clients are told keeps its type. *)
LEMMA AnsweredTyped ==
    ASSUME IInv, NEW line \in Line, answered(line)
    PROVE  /\ told' \in [RecipientId -> QueueRec \cup {Absent, Deleted}]
           /\ secured' \in [RecipientId -> Maybe(Key)]
  <1>1. line.op = "SecureQueue" => line.arg \in Key
    BY LineTyped
  <1>2. line.op # "NewService" => line.id \in RecipientId
    BY LineTyped
  <1>3. secured' \in [RecipientId -> Maybe(Key)]
    BY <1>1 DEF answered, IInv, TypeOK, Maybe
  <1>4. isLive(mem, line.id) /\ line.op # "NewService" => mem.queues[line.id] \in QueueRec
    BY <1>2, LiveTyped DEF IInv, TypeOK
  <1>5. told' \in [RecipientId -> QueueRec \cup {Absent, Deleted}]
    BY <1>4 DEF answered, IInv, TypeOK
  <1> QED BY <1>3, <1>5

(* Writing a pending line, or failing to, keeps the invariant. *)
LEMMA LoggedIInv ==
    ASSUME IInv, NEW t \in Thread, WithLog(t) \/ WithLogFails(t)
    PROVE  IInv'
  <1>1. /\ phase = "running" /\ inflight[t] # None /\ inflight[t].line \in Line
        /\ file # None /\ start = None /\ file \in Store
        /\ StoreOK(file') /\ file' \in Store
        /\ file' = file \/ Effect(file, inflight[t].line, file')
        /\ inflight' = [inflight EXCEPT ![t] = None]
        /\ UNCHANGED <<mem, start, phase>>
        /\ unsure' \subseteq RecipientId \cup SenderId \cup NotifierId \cup LinkId \cup ServiceId
        /\ {ops, crashes, fails}' \subseteq Nat
    BY LoggedFacts
  <1>2. TypeOK'
    <2>1. inflight' \in [Thread -> Maybe(Job)]
      BY <1>1 DEF IInv, TypeOK, Maybe
    <2>2. /\ told' \in [RecipientId -> QueueRec \cup {Absent, Deleted}]
          /\ secured' \in [RecipientId -> Maybe(Key)]
      BY <1>1, AnsweredTyped DEF WithLog, WithLogFails, IInv, TypeOK
    <2> QED BY <1>1, <2>1, <2>2 DEF IInv, TypeOK, Maybe
  <1>3. AllStoresOK'
    BY <1>1 DEF AllStoresOK, stores, IInv
  <1>4. Phases'
    BY <1>1, SentinelAssumption DEF IInv, Phases
  <1>5. \A u \in Thread, r \in RecipientId : pending(u, r)' => pending(u, r)
    BY <1>1 DEF pending, IInv, TypeOK
  <1>6. PendingKnown'
    BY <1>1, <1>5 DEF IInv, PendingKnown
  <1>7. FileKnown'
    <2> SUFFICES ASSUME NEW r \in RecipientId, isLive(file', r)
                 PROVE  mem.queues[r] # Absent
      BY <1>1 DEF FileKnown
    <2>1. isLive(file, r) \/ (inflight[t].line.op = "CreateQueue" /\ inflight[t].line.id = r)
      BY <1>1, EffectFacts
    <2>2. CASE isLive(file, r)
      BY <1>1, <2>2 DEF IInv, FileKnown
    <2>3. CASE inflight[t].line.op = "CreateQueue" /\ inflight[t].line.id = r
      BY <1>1, <2>3 DEF IInv, PendingKnown, pending
    <2> QED BY <2>1, <2>2, <2>3
  <1> QED BY <1>2, <1>3, <1>4, <1>6, <1>7 DEF IInv

(* Compaction writes lines of the log. *)
LEMMA WriteFacts ==
    ASSUME IInv, WriteService \/ WriteQueue
    PROVE  /\ phase = "compact" /\ file # None /\ StoreOK(file) /\ file \in Store
           /\ \E line \in Line :
                /\ file' = appended(file, line)
                /\ StoreOK(file') /\ file' \in Store
                /\ file' = file \/ Effect(file, line, file')
                /\ \/ line.op = "NewService" /\ line.id \in servicesLeft
                   \/ /\ line.op = "CreateQueue" /\ line.id \in queuesLeft
                      /\ line.arg = mem.queues[line.id]
           /\ UNCHANGED <<mem, start, phase, inflight, history, counters>>
  <1>1. /\ phase = "compact" /\ file # None
        /\ UNCHANGED <<mem, start, phase, inflight, history, counters>>
    BY DEF WriteService, WriteQueue
  <1>2. StoreOK(file) /\ file \in Store
    BY <1>1, StoresOK DEF IInv, StoreOK
  <1>3. \E line \in Line :
           /\ file' = appended(file, line)
           /\ \/ line.op = "NewService" /\ line.id \in servicesLeft
              \/ /\ line.op = "CreateQueue" /\ line.id \in queuesLeft
                 /\ line.arg = mem.queues[line.id]
    <2>1. CASE WriteService
      <3>1. PICK s \in servicesLeft :
               file' = appended(file, [id |-> s, op |-> "NewService", arg |->
                           [cert |-> mem.services[s].cert, role |-> mem.services[s].role]])
        BY <2>1 DEF WriteService
      <3>2. s \in ServiceId /\ mem.services[s] \in Service
        BY StoreTyped DEF servicesLeft, IInv, TypeOK, Maybe
      <3>3. [id |-> s, op |-> "NewService", arg |->
                [cert |-> mem.services[s].cert, role |-> mem.services[s].role]] \in Line
        BY <3>2 DEF Line, Service
      <3> QED BY <3>1, <3>3
    <2>2. CASE WriteQueue
      <3>1. PICK r \in queuesLeft :
               file' = appended(file, [id |-> r, op |-> "CreateQueue", arg |-> mem.queues[r]])
        BY <2>2 DEF WriteQueue
      <3>2. r \in RecipientId /\ mem.queues[r] \in QueueRec
        BY LiveTyped DEF queuesLeft, IInv, TypeOK
      <3>3. [id |-> r, op |-> "CreateQueue", arg |-> mem.queues[r]] \in Line
        BY <3>2 DEF Line
      <3> QED BY <3>1, <3>3
    <2> QED BY <2>1, <2>2
  <1>4. PICK line \in Line :
           /\ file' = appended(file, line)
           /\ \/ line.op = "NewService" /\ line.id \in servicesLeft
              \/ /\ line.op = "CreateQueue" /\ line.id \in queuesLeft
                 /\ line.arg = mem.queues[line.id]
    BY <1>3
  <1>5. StoreOK(file') /\ file' \in Store /\ (file' = file \/ Effect(file, line, file'))
    BY <1>2, <1>4, AppendedEffect DEF StoreOK
  <1> QED BY <1>1, <1>2, <1>4, <1>5

(* A step of the compaction keeps the invariant. *)
LEMMA WriteIInv ==
    ASSUME IInv, WriteService \/ WriteQueue
    PROVE  IInv'
  <1>1. PICK line \in Line :
           /\ StoreOK(file') /\ file' \in Store
           /\ file' = file \/ Effect(file, line, file')
           /\ \/ line.op = "NewService" /\ line.id \in servicesLeft
              \/ /\ line.op = "CreateQueue" /\ line.id \in queuesLeft
                 /\ line.arg = mem.queues[line.id]
    BY WriteFacts
  <1>2. /\ phase = "compact" /\ file # None /\ file \in Store
        /\ UNCHANGED <<mem, start, phase, inflight, told, secured, unsure, ops, crashes, fails>>
    BY WriteFacts DEF history, counters
  <1>3. TypeOK'
    BY <1>1, <1>2 DEF IInv, TypeOK, Maybe
  <1>4. AllStoresOK'
    BY <1>1, <1>2 DEF AllStoresOK, stores, IInv
  <1>5. Phases' /\ PendingKnown'
    BY <1>2 DEF IInv, Phases, PendingKnown, pending
  <1>6. FileKnown'
    <2> SUFFICES ASSUME NEW r \in RecipientId, isLive(file', r)
                 PROVE  file'.queues[r] = mem.queues[r]
      BY <1>2 DEF FileKnown
    <2>1. isLive(file, r) => file.queues[r] = mem.queues[r]
      BY <1>2 DEF IInv, FileKnown
    <2>2. CASE file' = file
      BY <2>1, <2>2
    <2>3. CASE Effect(file, line, file') /\ line.op = "NewService"
      BY <1>1, <1>2, <2>1, <2>3 DEF Effect, isLive
    <2>4. CASE Effect(file, line, file') /\ line.op = "CreateQueue"
      BY <1>1, <1>2, <2>1, <2>4, EffectFacts
    <2> QED BY <1>1, <2>2, <2>3, <2>4
  <1> QED BY <1>3, <1>4, <1>5, <1>6 DEF IInv

(* Every step keeps the invariant. *)
LEMMA NextIInv == IInv /\ [Next]_vars => IInv'
  <1> SUFFICES ASSUME IInv, [Next]_vars PROVE IInv'
    OBVIOUS
  <1>1. ASSUME NEW t \in Thread, Operation(t) PROVE IInv'
    BY <1>1, OperationAccepted, AcceptedIInv DEF IInv
  <1>2. ASSUME NEW t \in Thread, WithLog(t) \/ WithLogFails(t) PROVE IInv'
    BY <1>2, LoggedIInv
  <1>3. CASE WriteService \/ WriteQueue
    BY <1>3, WriteIInv
  <1>4. CASE PreserveIncomplete
    <2>1. phase = "down" /\ file' = None
          /\ UNCHANGED <<mem, start, phase, inflight, told, secured, unsure, ops, crashes, fails>>
      BY <1>4 DEF PreserveIncomplete, history, counters
    <2> QED BY <2>1, StoresOK DEF IInv, TypeOK, AllStoresOK, stores, Phases, PendingKnown, FileKnown,
                                  pending, Maybe
  <1>5. CASE UseTempBackup
    <2>1. phase = "down" /\ start # None /\ file' = start /\ start' = None /\ phase' = "read"
          /\ UNCHANGED <<mem, inflight, told, secured, unsure, ops, crashes, fails>>
      BY <1>5 DEF UseTempBackup, history, counters
    <2>2. TypeOK'
      BY <2>1 DEF IInv, TypeOK, Maybe, Phase
    <2>3. AllStoresOK'
      BY <2>1 DEF IInv, AllStoresOK, stores
    <2>4. Phases' /\ PendingKnown' /\ FileKnown'
      BY <2>1 DEF IInv, Phases, PendingKnown, FileKnown, pending
    <2> QED BY <2>2, <2>3, <2>4 DEF IInv
  <1>6. CASE ReadStore
    <2>1. /\ phase \in {"read", "down"} /\ file # None /\ start = None
          /\ mem' = file /\ phase' = "loaded"
          /\ UNCHANGED <<file, start, inflight, told, secured, unsure, ops, crashes, fails>>
      BY <1>6 DEF ReadStore, history, counters, IInv, Phases
    <2>2. TypeOK'
      BY <2>1 DEF IInv, TypeOK, Maybe, Phase
    <2>3. AllStoresOK'
      BY <2>1, StoresOK DEF IInv, AllStoresOK, stores
    <2>4. Phases' /\ FileKnown'
      BY <2>1 DEF IInv, Phases, FileKnown
    <2>5. PendingKnown'
      BY <2>1 DEF IInv, Phases, PendingKnown, pending
    <2> QED BY <2>2, <2>3, <2>4, <2>5 DEF IInv
  <1>7. CASE CreateLog
    <2>1. /\ phase = "down" /\ start = None /\ file' = newQueueStore /\ phase' = "running"
          /\ UNCHANGED <<mem, start, inflight, told, secured, unsure, ops, crashes, fails>>
      BY <1>7 DEF CreateLog, history, counters
    <2>2. newQueueStore \in Store /\ newQueueStore # None
      BY NewStoreOK, SentinelAssumption DEF StoreOK
    <2>3. TypeOK'
      BY <2>1, <2>2 DEF IInv, TypeOK, Maybe, Phase
    <2>4. AllStoresOK'
      BY <2>1, NewStoreOK DEF IInv, AllStoresOK, stores
    <2>5. Phases'
      BY <2>1, <2>2 DEF IInv, Phases
    <2>6. PendingKnown'
      BY <2>1 DEF IInv, Phases, PendingKnown, pending
    <2>7. FileKnown'
      BY <2>1, NewStoreOK DEF FileKnown, isLive
    <2> QED BY <2>3, <2>4, <2>5, <2>6, <2>7 DEF IInv
  <1>8. CASE MakeTempBackup
    <2>1. /\ phase = "loaded" /\ start' = file /\ file' = None /\ phase' = "compact"
          /\ UNCHANGED <<mem, inflight, told, secured, unsure, ops, crashes, fails>>
      BY <1>8 DEF MakeTempBackup, history, counters
    <2>2. TypeOK'
      BY <2>1 DEF IInv, TypeOK, Maybe, Phase
    <2>3. AllStoresOK'
      BY <2>1 DEF IInv, AllStoresOK, stores
    <2>4. Phases' /\ FileKnown' /\ PendingKnown'
      BY <2>1 DEF IInv, Phases, FileKnown, PendingKnown, pending
    <2> QED BY <2>2, <2>3, <2>4 DEF IInv
  <1>9. CASE OpenLog
    <2>1. /\ phase = "compact" /\ file' = newQueueStore
          /\ UNCHANGED <<mem, start, phase, inflight, told, secured, unsure, ops, crashes, fails>>
      BY <1>9 DEF OpenLog, history, counters
    <2>2. newQueueStore \in Store
      BY NewStoreOK DEF StoreOK
    <2>3. TypeOK'
      BY <2>1, <2>2 DEF IInv, TypeOK, Maybe
    <2>4. AllStoresOK'
      BY <2>1, NewStoreOK DEF IInv, AllStoresOK, stores
    <2>5. Phases' /\ PendingKnown'
      BY <2>1 DEF IInv, Phases, PendingKnown, pending
    <2>6. FileKnown'
      BY <2>1, NewStoreOK DEF FileKnown, isLive
    <2> QED BY <2>3, <2>4, <2>5, <2>6 DEF IInv
  <1>10. CASE RenameBackup
    <2>1. /\ phase = "compact" /\ file # None /\ start' = None /\ phase' = "running"
          /\ told' = [r \in RecipientId |->
                   IF r \in unsure /\ told[r] # Deleted
                   THEN IF isLive(mem, r) THEN mem.queues[r] ELSE Absent
                   ELSE told[r]]
          /\ unsure' = unsure \cap ServiceId
          /\ UNCHANGED <<mem, file, inflight, secured, ops, crashes, fails>>
      BY <1>10 DEF RenameBackup, counters
    <2>2. told' \in [RecipientId -> QueueRec \cup {Absent, Deleted}]
      BY <2>1, LiveTyped DEF IInv, TypeOK
    <2>3. TypeOK'
      BY <2>1, <2>2 DEF IInv, TypeOK, Maybe, Phase
    <2>4. AllStoresOK'
      BY <2>1 DEF IInv, AllStoresOK, stores
    <2>5. Phases'
      BY <2>1 DEF IInv, Phases
    <2>6. PendingKnown'
      BY <2>1 DEF IInv, Phases, PendingKnown, pending
    <2>7. FileKnown'
      BY <2>1 DEF IInv, FileKnown, isLive
    <2> QED BY <2>3, <2>4, <2>5, <2>6, <2>7 DEF IInv
  <1>11. CASE Crash
    <2>1. /\ phase' = "down" /\ mem' = newQueueStore /\ inflight' = [t \in Thread |-> None]
          /\ unsure' = unsure \cup {inflight[t].line.id : t \in {u \in Thread : inflight[u] # None}}
          /\ crashes' = crashes + 1
          /\ UNCHANGED <<file, start, told, secured, ops, fails>>
      BY <1>11 DEF Crash
    <2>2. unsure' \subseteq RecipientId \cup SenderId \cup NotifierId \cup LinkId \cup ServiceId
      <3>1. \A t \in Thread : inflight[t] # None => inflight[t].line \in Line
        BY DEF IInv, TypeOK, Maybe, Job
      <3>2. \A t \in Thread : inflight[t] # None => inflight[t].line.id \in RecipientId \cup ServiceId
        BY <3>1, LineTyped
      <3> QED BY <2>1, <3>2 DEF IInv, TypeOK
    <2>3. TypeOK'
      BY <2>1, <2>2, NewStoreOK DEF IInv, TypeOK, Maybe, Phase, StoreOK
    <2>4. AllStoresOK'
      BY <2>1, NewStoreOK DEF IInv, AllStoresOK, stores
    <2>5. Phases' /\ PendingKnown' /\ FileKnown'
      BY <2>1 DEF Phases, PendingKnown, FileKnown, pending
    <2> QED BY <2>3, <2>4, <2>5 DEF IInv
  <1>12. CASE UNCHANGED vars
    BY <1>12 DEF vars, IInv, TypeOK, AllStoresOK, stores, Phases, PendingKnown, FileKnown, pending
  <1> QED BY <1>1, <1>2, <1>3, <1>4, <1>5, <1>6, <1>7, <1>8, <1>9, <1>10, <1>11, <1>12
          DEF Next, Startup, Wait

(* The invariant implies the property of the run. *)
LEMMA IndexesFromIInv == IInv => IndexesAgree
  BY DEF IInv, AllStoresOK, StoreOK, Indexed, IndexesAgree

(* IInv holds in every state: memory and both files are stores with        *)
(* agreeing maps, the files exist when the phase of the start says so, and *)
(* the file has no queue that memory does not know.                        *)
THEOREM StoreInvariant == Spec => []IInv
  <1> QED BY InitIInv, NextIInv, PTL DEF Spec

(* The variables keep their types: after any operations, failures, crashes *)
(* and restarts, memory and what each file replays to is a well formed     *)
(* store.                                                                  *)
THEOREM StoreTypeCorrect == Spec => []TypeOK
  <1>1. IInv => TypeOK
    BY DEF IInv
  <1> QED BY <1>1, StoreInvariant, PTL

(* For all ids and threads: getQueue_ finds a queue by the id of its       *)
(* sender, notifier or link exactly when the queue is there and has that   *)
(* id, in memory and in what any log replays to, whatever the order of the *)
(* lines (IndexesAgree).                                                   *)
THEOREM IndexesKept == Spec => []IndexesAgree
  BY IndexesFromIInv, StoreInvariant, PTL

-----------------------------------------------------------------------------
(* Deleted queues *)

(* A queue that is alive is not deleted. *)
LEMMA LiveNotDeleted ==
    \A st, r : st.queues[r] = Deleted \/ st.queues[r] = Absent <=> ~isLive(st, r)
  BY DEF isLive

(* A transaction keeps DelInv: a deleted queue takes no operation, and one *)
(* that is being created is known to nobody else.                          *)
LEMMA AcceptedDelInv ==
    ASSUME IInv, DelInv, NEW t \in Thread, NEW line \in Line, Accepted(t, line)
    PROVE  DelInv'
  <1>1. PICK job \in Job : job.line = line /\ inflight' = [inflight EXCEPT ![t] = job]
    BY TransactFacts DEF Accepted
  <1>2. /\ inflight[t] = None /\ phase = "running" /\ start = None
        /\ mem \in Store /\ mem' \in Store /\ Effect(mem, line, mem')
        /\ UNCHANGED <<file, start, phase>>
    BY TransactFacts DEF Accepted, IInv, Phases, TypeOK
  <1>3. job # None
    BY SentinelAssumption
  <1>4. \A u \in Thread, r \in RecipientId :
           pending(u, r)' <=> IF u = t THEN line.op # "NewService" /\ line.id = r ELSE pending(u, r)
    BY <1>1, <1>3 DEF pending, IInv, TypeOK
  <1>5. \A r \in RecipientId : mem.queues[r] = Absent => \A u \in Thread : ~pending(u, r)
    BY DEF IInv, PendingKnown
  <1>6. ASSUME line.op = "CreateQueue"
        PROVE  /\ line.id \in RecipientId /\ mem.queues[line.id] = Absent
               /\ told' = [told EXCEPT ![line.id] = Absent]
    BY <1>2, <1>6, LineTyped, EffectFacts DEF Accepted
  <1>7. \A r \in RecipientId : line.op # "CreateQueue" => told'[r] = told[r]
    BY DEF Accepted
  <1>8. \A r \in RecipientId : told'[r] # Absent => told'[r] = told[r]
    BY <1>6, <1>7 DEF IInv, TypeOK
  <1>9. CreatedAlone'
    <2> SUFFICES ASSUME NEW u \in Thread, NEW r \in RecipientId,
                        pending(u, r)', inflight'[u].line.op = "CreateQueue"
                 PROVE  told'[r] = Absent /\ \A v \in Thread \ {u} : ~pending(v, r)'
      BY DEF CreatedAlone
    <2>1. CASE u = t
      <3>1. line.op = "CreateQueue" /\ line.id = r
        BY <1>1, <1>4, <2>1 DEF IInv, TypeOK
      <3>2. told'[r] = Absent /\ mem.queues[r] = Absent
        BY <1>6, <3>1 DEF IInv, TypeOK
      <3> QED BY <1>4, <1>5, <2>1, <3>2
    <2>2. CASE u # t
      <3>1. pending(u, r) /\ inflight[u].line.op = "CreateQueue"
        BY <1>1, <1>4, <2>2 DEF IInv, TypeOK
      <3>2. told[r] = Absent /\ \A v \in Thread \ {u} : ~pending(v, r)
        BY <3>1 DEF DelInv, CreatedAlone
      <3>3. told'[r] = Absent
        BY <1>8, <3>2
      <3>4. ~(line.op # "NewService" /\ line.id = r)
        <4>1. CASE line.op = "CreateQueue"
          BY <1>5, <1>6, <3>1, <4>1
        <4>2. CASE line.op # "CreateQueue"
          BY <3>2, <4>2 DEF Accepted
        <4> QED BY <4>1, <4>2
      <3> QED BY <1>4, <3>2, <3>3, <3>4
    <2> QED BY <2>1, <2>2
  <1>10. DeletedInMemory'
    <2> SUFFICES ASSUME NEW u \in Thread, NEW r \in RecipientId,
                        pending(u, r)', inflight'[u].line.op = "DeleteQueue"
                 PROVE  mem'.queues[r] = Deleted
      BY DEF DeletedInMemory
    <2>1. CASE u = t
      BY <1>1, <1>2, <1>4, <2>1, EffectFacts DEF IInv, TypeOK
    <2>2. CASE u # t
      <3>1. pending(u, r) /\ inflight[u].line.op = "DeleteQueue"
        BY <1>1, <1>4, <2>2 DEF IInv, TypeOK
      <3> QED BY <1>2, <3>1, EffectFacts DEF DelInv, DeletedInMemory
    <2> QED BY <2>1, <2>2
  <1>11. ToldDeleted'
    <2> SUFFICES ASSUME NEW r \in RecipientId, told'[r] = Deleted
                 PROVE  ~isLive(mem', r) /\ (file' # None => ~isLive(file', r))
      BY <1>2 DEF ToldDeleted, stores
    <2>1. told[r] = Deleted
      BY <1>8, StoreAssumption
    <2>2. \A st \in stores : ~isLive(st, r)
      BY <2>1 DEF DelInv, ToldDeleted
    <2>3. ~isLive(mem, r) /\ (file # None => ~isLive(file, r))
      BY <2>2 DEF stores
    <2>4. ~(line.op = "CreateQueue" /\ line.id = r)
      BY <1>6, StoreAssumption DEF IInv, TypeOK
    <2> QED BY <1>2, <2>3, <2>4, EffectFacts
  <1> QED BY <1>9, <1>10, <1>11 DEF DelInv

(* Writing a pending line keeps DelInv: the line of the deletion makes the *)
(* queue deleted in the file, and no later line brings it back.            *)
LEMMA LoggedDelInv ==
    ASSUME IInv, DelInv, NEW t \in Thread, WithLog(t) \/ WithLogFails(t)
    PROVE  DelInv'
  <1> DEFINE line == inflight[t].line
  <1>1. /\ phase = "running" /\ inflight[t] # None /\ line \in Line
        /\ file # None /\ start = None /\ file \in Store /\ StoreOK(file) /\ file' \in Store
        /\ file' = file \/ Effect(file, line, file')
        /\ file' \in {file, appended(file, line)}
        /\ inflight' = [inflight EXCEPT ![t] = None]
        /\ UNCHANGED <<mem, start, phase>>
    BY LoggedFacts
  <1>2. \A u \in Thread, r \in RecipientId :
           pending(u, r)' <=> u # t /\ pending(u, r)
    BY <1>1 DEF pending, IInv, TypeOK
  <1>3. \A u \in Thread \ {t} : inflight'[u] = inflight[u]
    BY <1>1 DEF IInv, TypeOK
  <1>4. line.op # "NewService" => line.id \in RecipientId /\ pending(t, line.id)
    BY <1>1, LineTyped DEF pending
  <1>5. \A r \in RecipientId : told'[r] # told[r] => line.op # "NewService" /\ line.id = r
    BY <1>1, <1>4 DEF WithLog, WithLogFails, answered, IInv, TypeOK
  <1>6. CreatedAlone'
    <2> SUFFICES ASSUME NEW u \in Thread, NEW r \in RecipientId,
                        pending(u, r)', inflight'[u].line.op = "CreateQueue"
                 PROVE  told'[r] = Absent /\ \A v \in Thread \ {u} : ~pending(v, r)'
      BY DEF CreatedAlone
    <2>1. u # t /\ pending(u, r) /\ inflight[u].line.op = "CreateQueue"
      BY <1>2, <1>3
    <2>2. told[r] = Absent /\ \A v \in Thread \ {u} : ~pending(v, r)
      BY <2>1 DEF DelInv, CreatedAlone
    <2>3. told'[r] = told[r]
      BY <1>4, <1>5, <2>1, <2>2
    <2> QED BY <1>2, <2>2, <2>3
  <1>7. DeletedInMemory'
    BY <1>1, <1>2, <1>3 DEF DelInv, DeletedInMemory
  <1>8. ToldDeleted'
    <2> SUFFICES ASSUME NEW r \in RecipientId, told'[r] = Deleted
                 PROVE  ~isLive(mem, r) /\ ~isLive(file', r)
      BY <1>1 DEF ToldDeleted, stores
    <2>1. CASE told[r] = Deleted
      <3>1. ~isLive(mem, r) /\ ~isLive(file, r)
        BY <1>1, <2>1 DEF DelInv, ToldDeleted, stores
      <3>2. ~(line.op = "CreateQueue" /\ line.id = r)
        BY <1>4, <2>1, StoreAssumption DEF DelInv, CreatedAlone
      <3> QED BY <1>1, <3>1, <3>2, EffectFacts
    <2>2. CASE told[r] # Deleted
      <3>1. line.op = "DeleteQueue" /\ line.id = r /\ WithLog(t)
        <4>1. WithLog(t) /\ line.op # "NewService" /\ line.id = r
          BY <1>5, <2>2 DEF WithLogFails
        <4>2. line.op # "DeleteQueue" => told'[r] \in {mem.queues[r], told[r]}
          BY <1>1, <4>1 DEF WithLog, answered, IInv, TypeOK
        <4>3. line.op # "DeleteQueue" /\ told'[r] # told[r] => isLive(mem, r)
          BY <1>1, <4>1 DEF WithLog, answered, IInv, TypeOK
        <4> QED BY <2>2, <4>1, <4>2, <4>3 DEF isLive
      <3>2. mem.queues[r] = Deleted
        BY <1>4, <3>1 DEF DelInv, DeletedInMemory
      <3>3. file' = appended(file, line)
        BY <3>1 DEF WithLog
      <3>4. CASE isLive(file, r)
        <4>1. procLogRecord(file, line) = deleteStoreQueue(file, r)
          BY <3>1, <3>4 DEF procLogRecord
        <4>2. deleteStoreQueue(file, r).queues = [file.queues EXCEPT ![r] = Deleted]
              /\ deleteStoreQueue(file, r) \in Store
          <5>1. Becomes(deleteStoreQueue(file, r), [file.queues EXCEPT ![r] = Deleted],
                   [file.senders EXCEPT ![file.queues[r].senderId] = None],
                   IF file.queues[r].notifier = None THEN file.notifiers
                   ELSE [file.notifiers EXCEPT ![file.queues[r].notifier.notifierId] = None], file.links)
            BY <1>1, <3>4, DeleteQueueFields
          <5> QED BY <5>1 DEF Becomes
        <4>3. file' = deleteStoreQueue(file, r)
          BY <3>3, <4>1, <4>2, SentinelAssumption DEF appended, Refused
        <4>4. file'.queues[r] = Deleted
          BY <1>1, <4>2, <4>3, StoreTyped
        <4> QED BY <3>2, <4>4 DEF isLive
      <3>5. CASE ~isLive(file, r)
        <4>1. ~isLive(file', r)
          BY <1>1, <3>1, <3>5, EffectFacts
        <4> QED BY <3>2, <4>1 DEF isLive
      <3> QED BY <3>4, <3>5
    <2> QED BY <2>1, <2>2
  <1> QED BY <1>6, <1>7, <1>8 DEF DelInv

(* While the server is down or starts, no operation is pending. *)
LEMMA StartupQuiet ==
    ASSUME IInv, Startup \/ Crash
    PROVE  /\ \A t \in Thread : inflight'[t] = None
           /\ \A t \in Thread, r \in RecipientId : ~pending(t, r)'
  <1>1. Startup => phase # "running" /\ inflight' = inflight
    BY DEF Startup, PreserveIncomplete, UseTempBackup, ReadStore, CreateLog, MakeTempBackup, OpenLog,
           WriteService, WriteQueue, RenameBackup
  <1>2. \A t \in Thread : inflight'[t] = None
    BY <1>1 DEF Crash, IInv, Phases
  <1> QED BY <1>2 DEF pending

(* What is alive in a file or in memory after a step of the start was      *)
(* alive, with the same record, in a file or in memory before it.          *)
LEMMA StartupKeeps ==
    ASSUME IInv, Startup \/ Crash
    PROVE  \A st2 \in stores' : \A r \in RecipientId :
              isLive(st2, r) => \E st \in stores : isLive(st, r) /\ st2.queues[r] = st.queues[r]
  <1>1. \A r \in RecipientId : ~isLive(newQueueStore, r)
    BY NewStoreOK DEF isLive
  <1>2. CASE WriteService \/ WriteQueue
    <2>1. PICK line \in Line :
             /\ file' \in Store
             /\ file' = file \/ Effect(file, line, file')
             /\ \/ line.op = "NewService" /\ line.id \in servicesLeft
                \/ /\ line.op = "CreateQueue" /\ line.id \in queuesLeft
                   /\ line.arg = mem.queues[line.id]
      BY <1>2, WriteFacts
    <2>2. file # None /\ file \in Store /\ UNCHANGED <<mem, start>>
      BY <1>2, WriteFacts
    <2>3. ASSUME NEW r \in RecipientId, isLive(file', r)
          PROVE  file'.queues[r] = file.queues[r] \/ file'.queues[r] = mem.queues[r]
      BY <2>1, <2>2, <2>3, EffectFacts DEF Effect
    <2> QED BY <2>2, <2>3 DEF stores, isLive
  <1>3. CASE PreserveIncomplete \/ MakeTempBackup \/ RenameBackup \/ UseTempBackup
    <2>1. stores' \subseteq stores
      BY <1>3 DEF stores, PreserveIncomplete, MakeTempBackup, RenameBackup, UseTempBackup
    <2> QED BY <2>1
  <1>4. CASE ReadStore
    <2>1. mem' = file /\ file # None /\ UNCHANGED <<file, start>>
      BY <1>4 DEF ReadStore, IInv, Phases
    <2>2. stores' \subseteq stores
      BY <2>1 DEF stores
    <2> QED BY <2>2
  <1>5. CASE CreateLog \/ OpenLog \/ Crash
    <2>1. stores' \subseteq stores \cup {newQueueStore}
      BY <1>5 DEF stores, CreateLog, OpenLog, Crash
    <2> QED BY <1>1, <2>1
  <1> QED BY <1>2, <1>3, <1>4, <1>5 DEF Startup

(* DelInv holds when the server starts without files. *)
LEMMA InitDelInv == Init => DelInv
  BY NewStoreOK, StoreAssumption
  DEF Init, DelInv, CreatedAlone, DeletedInMemory, ToldDeleted, pending

(* Every step keeps DelInv. *)
LEMMA NextDelInv == IInv /\ DelInv /\ [Next]_vars => DelInv'
  <1> SUFFICES ASSUME IInv, DelInv, [Next]_vars PROVE DelInv'
    OBVIOUS
  <1>1. ASSUME NEW t \in Thread, Operation(t) PROVE DelInv'
    BY <1>1, OperationAccepted, AcceptedDelInv DEF IInv
  <1>2. ASSUME NEW t \in Thread, WithLog(t) \/ WithLogFails(t) PROVE DelInv'
    BY <1>2, LoggedDelInv
  <1>3. CASE Startup \/ Crash
    <2>1. \A r \in RecipientId : told'[r] = Deleted => told[r] = Deleted
      <3>1. RenameBackup => told' = [r \in RecipientId |->
                   IF r \in unsure /\ told[r] # Deleted
                   THEN IF isLive(mem, r) THEN mem.queues[r] ELSE Absent
                   ELSE told[r]]
        BY DEF RenameBackup
      <3>2. RenameBackup \/ UNCHANGED told
        BY <1>3 DEF Startup, PreserveIncomplete, UseTempBackup, ReadStore, CreateLog, MakeTempBackup,
                    OpenLog, WriteService, WriteQueue, Crash, history
      <3> QED BY <3>1, <3>2, StoreAssumption DEF isLive
    <2>2. ToldDeleted'
      <3> SUFFICES ASSUME NEW r \in RecipientId, told'[r] = Deleted, NEW st2 \in stores', isLive(st2, r)
                   PROVE  FALSE
        BY DEF ToldDeleted
      <3>1. PICK st \in stores : isLive(st, r)
        BY <1>3, StartupKeeps
      <3> QED BY <2>1, <3>1 DEF DelInv, ToldDeleted
    <2>3. CreatedAlone' /\ DeletedInMemory'
      BY <1>3, StartupQuiet DEF CreatedAlone, DeletedInMemory
    <2> QED BY <2>2, <2>3 DEF DelInv
  <1>4. CASE UNCHANGED vars
    BY <1>4 DEF vars, DelInv, CreatedAlone, DeletedInMemory, ToldDeleted, stores, pending
  <1> QED BY <1>1, <1>2, <1>3, <1>4 DEF Next, Wait

(* For all ids and threads: a queue whose deletion was confirmed (DEL   *)
(* answered OK) is not alive in a server that runs, whatever lines were *)
(* written after it, failed, or were cut by a crash (DeletedStays).     *)
THEOREM DeletedStaysDeleted == Spec => []DeletedStays
  <1>1. DelInv => DeletedStays
    BY DEF DelInv, ToldDeleted, DeletedStays, stores
  <1>2. Spec => []DelInv
    BY InitDelInv, NextDelInv, StoreInvariant, PTL DEF Spec
  <1> QED BY <1>1, <1>2, PTL

-----------------------------------------------------------------------------
(* Keys of senders *)

(* A transaction keeps KeysAgree: a key is set once, and a pending KEY for *)
(* the same queue has the same key.                                        *)
LEMMA AcceptedKeys ==
    ASSUME IInv, DelInv, KeysAgree, NEW t \in Thread, NEW line \in Line, Accepted(t, line)
    PROVE  KeysAgree'
  <1>1. PICK job \in Job : job.line = line /\ inflight' = [inflight EXCEPT ![t] = job]
    BY TransactFacts DEF Accepted
  <1>2. /\ inflight[t] = None /\ phase = "running" /\ start = None /\ file # None
        /\ mem \in Store /\ mem' \in Store /\ Effect(mem, line, mem') /\ file \in Store
        /\ UNCHANGED <<file, start, phase>>
    BY TransactFacts DEF Accepted, IInv, Phases, TypeOK, Maybe
  <1>3. \A u \in Thread, r \in RecipientId :
           pending(u, r)' <=> IF u = t THEN line.op # "NewService" /\ line.id = r ELSE pending(u, r)
    BY <1>1, SentinelAssumption DEF pending, IInv, TypeOK
  <1>4. inflight'[t].line = line /\ \A u \in Thread \ {t} : inflight'[u] = inflight[u]
    BY <1>1 DEF IInv, TypeOK
  <1>5. \A r \in RecipientId : mem.queues[r] = Absent => \A u \in Thread : ~pending(u, r)
    BY DEF IInv, PendingKnown
  <1>6. ASSUME line.op = "CreateQueue"
        PROVE  /\ line.id \in RecipientId /\ mem.queues[line.id] = Absent /\ ~isLive(file, line.id)
               /\ secured' = [secured EXCEPT ![line.id] = None]
               /\ line.arg.senderKey = None
    <2>1. line.id \in RecipientId /\ mem.queues[line.id] = Absent
      BY <1>2, <1>6, LineTyped, EffectFacts
    <2> QED BY <1>2, <1>6, <2>1 DEF Accepted, Guarded, IInv, FileKnown
  <1>7. line.op # "CreateQueue" => secured' = secured
    BY DEF Accepted
  <1>8. \A r \in RecipientId : secured'[r] # None =>
           secured[r] = secured'[r] /\ ~(line.op = "CreateQueue" /\ line.id = r)
    BY <1>6, <1>7 DEF IInv, TypeOK
  <1>9. \A k \in Key : k # None
    BY StoreAssumption
  <1>10. ASSUME NEW r \in RecipientId, isLive(mem', r), ~(line.op = "CreateQueue" /\ line.id = r)
         PROVE  /\ isLive(mem, r)
                /\ IF line.op = "SecureQueue" /\ line.id = r
                   THEN mem.queues[r].senderKey \in {None, line.arg} /\ mem'.queues[r].senderKey = line.arg
                   ELSE mem'.queues[r].senderKey = mem.queues[r].senderKey
    BY <1>2, <1>10, EffectFacts DEF UpdatedRec, isLive
  <1>11. CreatedUnsecured'
    <2> SUFFICES ASSUME NEW u \in Thread, NEW r \in RecipientId,
                        pending(u, r)', inflight'[u].line.op = "CreateQueue"
                 PROVE  secured'[r] = None /\ inflight'[u].line.arg.senderKey = None
      BY DEF CreatedUnsecured
    <2>1. CASE u = t
      BY <1>3, <1>4, <1>6, <2>1 DEF IInv, TypeOK
    <2>2. CASE u # t
      BY <1>3, <1>4, <1>8, <2>2 DEF KeysAgree, CreatedUnsecured
    <2> QED BY <2>1, <2>2
  <1>12. SecuredKept'
    <2> SUFFICES ASSUME NEW r \in RecipientId, secured'[r] # None
                 PROVE  /\ isLive(mem', r) => mem'.queues[r].senderKey = secured'[r]
                        /\ isLive(file, r) => file.queues[r].senderKey = secured'[r]
      BY <1>2 DEF SecuredKept, stores
    <2>1. secured[r] = secured'[r] /\ ~(line.op = "CreateQueue" /\ line.id = r)
      BY <1>8
    <2>2. /\ isLive(mem, r) => mem.queues[r].senderKey = secured[r]
          /\ isLive(file, r) => file.queues[r].senderKey = secured[r]
      BY <1>2, <2>1 DEF KeysAgree, SecuredKept, stores
    <2> QED BY <1>10, <2>1, <2>2
  <1>13. FileKeys'
    <2> SUFFICES ASSUME NEW r \in RecipientId, isLive(mem', r), isLive(file, r)
                 PROVE  file.queues[r].senderKey \in {None, mem'.queues[r].senderKey}
      BY <1>2 DEF FileKeys
    <2>1. ~(line.op = "CreateQueue" /\ line.id = r)
      BY <1>6
    <2>2. isLive(mem, r) /\ file.queues[r].senderKey \in {None, mem.queues[r].senderKey}
      BY <1>2, <1>10, <2>1 DEF KeysAgree, FileKeys
    <2> QED BY <1>10, <2>1, <2>2
  <1>14. PendingKeys'
    <2> SUFFICES ASSUME NEW u \in Thread, NEW r \in RecipientId, secures(u, r)'
                 PROVE  LET k == inflight'[u].line.arg
                        IN  /\ isLive(mem', r) => mem'.queues[r].senderKey = k
                            /\ isLive(file, r) => file.queues[r].senderKey \in {None, k}
                            /\ secured'[r] \in {None, k}
                            /\ \A v \in Thread : secures(v, r)' => inflight'[v].line.arg = k
      BY <1>2 DEF PendingKeys
    <2>1. ASSUME line.op = "SecureQueue", line.id = r
          PROVE  /\ isLive(mem, r) /\ isLive(mem', r) /\ line.arg \in Key
                 /\ mem.queues[r].senderKey \in {None, line.arg} /\ mem'.queues[r].senderKey = line.arg
                 /\ \A v \in Thread : secures(v, r) => inflight[v].line.arg = line.arg
      <3>1. /\ isLive(mem, r) /\ isLive(mem', r) /\ line.arg \in Key
            /\ mem.queues[r].senderKey \in {None, line.arg} /\ mem'.queues[r].senderKey = line.arg
        BY <1>2, <2>1, EffectFacts, LineTyped DEF UpdatedRec
      <3>2. \A v \in Thread : secures(v, r) => inflight[v].line.arg \in Key
        BY LineTyped DEF secures, pending, IInv, TypeOK, Maybe, Job
      <3>3. \A v \in Thread : secures(v, r) => inflight[v].line.arg = mem.queues[r].senderKey
        BY <3>1 DEF KeysAgree, PendingKeys
      <3> QED BY <1>9, <3>1, <3>2, <3>3
    <2>2. CASE u = t
      <3>1. line.op = "SecureQueue" /\ line.id = r
        BY <1>3, <1>4, <2>2 DEF secures
      <3>2. isLive(file, r) => file.queues[r].senderKey \in {None, line.arg}
        BY <1>2, <2>1, <3>1 DEF KeysAgree, FileKeys
      <3>3. secured'[r] = secured[r] /\ secured[r] \in {None, line.arg}
        BY <1>7, <2>1, <3>1 DEF KeysAgree, SecuredKept, stores
      <3>4. \A v \in Thread : secures(v, r)' => inflight'[v].line.arg = line.arg
        BY <1>3, <1>4, <2>1, <3>1 DEF secures
      <3> QED BY <1>4, <2>1, <2>2, <3>1, <3>2, <3>3, <3>4
    <2>3. CASE u # t
      <3>1. secures(u, r) /\ inflight'[u] = inflight[u]
        BY <1>3, <1>4, <2>3 DEF secures
      <3> DEFINE k == inflight[u].line.arg
      <3>2. /\ isLive(mem, r) => mem.queues[r].senderKey = k
            /\ isLive(file, r) => file.queues[r].senderKey \in {None, k}
            /\ secured[r] \in {None, k}
            /\ \A v \in Thread : secures(v, r) => inflight[v].line.arg = k
        BY <3>1 DEF KeysAgree, PendingKeys
      <3>3. ~(line.op = "CreateQueue" /\ line.id = r)
        BY <1>5, <1>6, <3>1 DEF secures
      <3>4. line.op = "SecureQueue" /\ line.id = r => line.arg = k
        BY <2>1, <3>1
      <3>5. isLive(mem', r) => mem'.queues[r].senderKey = k
        BY <1>10, <3>2, <3>3, <3>4
      <3>6. secured'[r] \in {None, k}
        BY <1>8, <3>2
      <3>7. \A v \in Thread : secures(v, r)' => inflight'[v].line.arg = k
        BY <1>3, <1>4, <3>2, <3>4 DEF secures
      <3> QED BY <3>1, <3>2, <3>5, <3>6, <3>7
    <2> QED BY <2>2, <2>3
  <1> QED BY <1>11, <1>12, <1>13, <1>14 DEF KeysAgree

(* Writing a pending line keeps KeysAgree, in any order of the lines. *)
LEMMA LoggedKeys ==
    ASSUME IInv, DelInv, KeysAgree, NEW t \in Thread, WithLog(t) \/ WithLogFails(t)
    PROVE  KeysAgree'
  <1> DEFINE line == inflight[t].line
  <1>1. /\ phase = "running" /\ inflight[t] # None /\ line \in Line
        /\ file # None /\ start = None /\ file \in Store /\ StoreOK(file) /\ file' \in Store
        /\ file' = file \/ Effect(file, line, file')
        /\ file' \in {file, appended(file, line)}
        /\ inflight' = [inflight EXCEPT ![t] = None]
        /\ UNCHANGED <<mem, start, phase>>
    BY LoggedFacts
  <1>2. \A u \in Thread, r \in RecipientId : pending(u, r)' <=> u # t /\ pending(u, r)
    BY <1>1 DEF pending, IInv, TypeOK
  <1>3. \A u \in Thread \ {t} : inflight'[u] = inflight[u]
    BY <1>1 DEF IInv, TypeOK
  <1>4. line.op # "NewService" => line.id \in RecipientId /\ pending(t, line.id)
    BY <1>1, LineTyped DEF pending
  <1>5. \/ secured' = secured
        \/ WithLog(t) /\ line.op = "SecureQueue" /\ secured' = [secured EXCEPT ![line.id] = line.arg]
    BY DEF WithLog, WithLogFails, answered
  <1>6. \A r \in RecipientId : secured'[r] # secured[r] =>
           WithLog(t) /\ secures(t, r) /\ secured'[r] = line.arg
    BY <1>4, <1>5 DEF secures, IInv, TypeOK
  <1>7. ASSUME NEW r \in RecipientId, isLive(file', r)
        PROVE  \/ pending(t, r) /\ line.op = "CreateQueue" /\ file'.queues[r].senderKey = None
               \/ /\ isLive(file, r) /\ secures(t, r)
                  /\ file'.queues[r].senderKey \in {file.queues[r].senderKey, line.arg}
               \/ isLive(file, r) /\ file'.queues[r].senderKey = file.queues[r].senderKey
    <2>1. CASE file' = file
      BY <1>7, <2>1
    <2>2. CASE Effect(file, line, file') /\ (line.op = "NewService" \/ line.id # r)
      BY <1>1, <1>7, <2>2, EffectFacts DEF isLive
    <2>3. CASE Effect(file, line, file') /\ line.op = "CreateQueue" /\ line.id = r
      <3>1. pending(t, r) /\ file'.queues[r] = line.arg
        BY <1>1, <1>4, <2>3, EffectFacts
      <3>2. line.arg.senderKey = None
        BY <2>3, <3>1 DEF KeysAgree, CreatedUnsecured
      <3> QED BY <2>3, <3>1, <3>2
    <2>4. CASE Effect(file, line, file') /\ line.op = "DeleteQueue" /\ line.id = r
      BY <1>1, <1>7, <2>4, EffectFacts DEF isLive
    <2>5. CASE Effect(file, line, file') /\ line.op \notin {"CreateQueue", "DeleteQueue", "NewService"}
               /\ line.id = r
      <3>1. isLive(file, r) /\ UpdatedRec(line, file.queues[r], file'.queues[r])
        BY <1>1, <2>5, EffectFacts
      <3> QED BY <1>4, <2>5, <3>1 DEF UpdatedRec, secures
    <2> QED BY <1>1, <2>1, <2>2, <2>3, <2>4, <2>5
  <1>8. CreatedUnsecured'
    <2> SUFFICES ASSUME NEW u \in Thread, NEW r \in RecipientId,
                        pending(u, r)', inflight'[u].line.op = "CreateQueue"
                 PROVE  secured'[r] = None /\ inflight'[u].line.arg.senderKey = None
      BY DEF CreatedUnsecured
    <2>1. u # t /\ pending(u, r) /\ inflight[u].line.op = "CreateQueue"
      BY <1>2, <1>3
    <2>2. secured[r] = None /\ inflight[u].line.arg.senderKey = None /\ ~pending(t, r)
      BY <2>1 DEF KeysAgree, CreatedUnsecured, DelInv, CreatedAlone
    <2> QED BY <1>3, <1>6, <2>1, <2>2 DEF secures
  <1>9. SecuredKept'
    <2> SUFFICES ASSUME NEW r \in RecipientId, secured'[r] # None
                 PROVE  /\ isLive(mem, r) => mem.queues[r].senderKey = secured'[r]
                        /\ isLive(file', r) => file'.queues[r].senderKey = secured'[r]
      BY <1>1 DEF SecuredKept, stores
    <2>1. CASE secured'[r] = secured[r]
      <3>1. /\ isLive(mem, r) => mem.queues[r].senderKey = secured[r]
            /\ isLive(file, r) => file.queues[r].senderKey = secured[r]
        BY <1>1, <2>1 DEF KeysAgree, SecuredKept, stores
      <3>2. secures(t, r) => line.arg = secured[r]
        BY <2>1 DEF KeysAgree, PendingKeys
      <3>3. ~(pending(t, r) /\ line.op = "CreateQueue")
        BY <2>1 DEF KeysAgree, CreatedUnsecured
      <3> QED BY <1>7, <2>1, <3>1, <3>2, <3>3
    <2>2. CASE secured'[r] # secured[r]
      <3>1. WithLog(t) /\ secures(t, r) /\ secured'[r] = line.arg
        BY <1>6, <2>2
      <3>2. /\ isLive(mem, r) => mem.queues[r].senderKey = line.arg
            /\ isLive(file, r) => file.queues[r].senderKey \in {None, line.arg}
        BY <3>1 DEF KeysAgree, PendingKeys
      <3>3. isLive(file', r) => isLive(file, r)
        BY <1>7, <3>1 DEF secures
      <3>4. ASSUME isLive(file, r) PROVE file'.queues[r].senderKey = line.arg
        <4> DEFINE q2 == [file.queues[r] EXCEPT !.senderKey = line.arg]
        <4>1. line.op = "SecureQueue" /\ line.id = r /\ line.arg \in Key
          BY <1>1, <3>1, LineTyped DEF secures, pending
        <4>2. procLogRecord(file, line) = put(file, r, q2)
          BY <3>2, <3>4, <4>1 DEF procLogRecord, secureQueue
        <4>3. q2 \in QueueRec /\ q2.senderKey = line.arg
          BY <1>1, <3>4, <4>1, LiveTyped DEF QueueRec, Maybe
        <4> HIDE DEF q2
        <4>4. Becomes(put(file, r, q2), [file.queues EXCEPT ![r] = q2], file.senders, file.notifiers, file.links)
          BY <1>1, <4>3, PutFields
        <4>5. put(file, r, q2) # None /\ put(file, r, q2).queues = [file.queues EXCEPT ![r] = q2]
          BY <4>4, SentinelAssumption DEF Becomes
        <4>6. file' = put(file, r, q2)
          BY <3>1, <4>2, <4>5 DEF WithLog, appended, Refused
        <4> QED BY <1>1, <4>3, <4>5, <4>6, StoreTyped
      <3> QED BY <3>1, <3>2, <3>3, <3>4
    <2> QED BY <2>1, <2>2
  <1>10. PendingKeys'
    <2> SUFFICES ASSUME NEW u \in Thread, NEW r \in RecipientId, secures(u, r)'
                 PROVE  LET k == inflight'[u].line.arg
                        IN  /\ isLive(mem, r) => mem.queues[r].senderKey = k
                            /\ isLive(file', r) => file'.queues[r].senderKey \in {None, k}
                            /\ secured'[r] \in {None, k}
                            /\ \A v \in Thread : secures(v, r)' => inflight'[v].line.arg = k
      BY <1>1 DEF PendingKeys
    <2>1. u # t /\ secures(u, r) /\ inflight'[u] = inflight[u]
      BY <1>2, <1>3 DEF secures
    <2> DEFINE k == inflight[u].line.arg
    <2>2. /\ isLive(mem, r) => mem.queues[r].senderKey = k
          /\ isLive(file, r) => file.queues[r].senderKey \in {None, k}
          /\ secured[r] \in {None, k}
          /\ \A v \in Thread : secures(v, r) => inflight[v].line.arg = k
      BY <2>1 DEF KeysAgree, PendingKeys
    <2>3. isLive(file', r) => file'.queues[r].senderKey \in {None, k}
      BY <1>7, <2>2
    <2>4. secured'[r] \in {None, k}
      BY <1>6, <2>2
    <2>5. \A v \in Thread : secures(v, r)' => inflight'[v].line.arg = k
      BY <1>2, <1>3, <2>2 DEF secures
    <2> QED BY <2>1, <2>2, <2>3, <2>4, <2>5
  <1>11. FileKeys'
    <2> SUFFICES ASSUME NEW r \in RecipientId, isLive(mem, r), isLive(file', r)
                 PROVE  file'.queues[r].senderKey \in {None, mem.queues[r].senderKey}
      BY <1>1 DEF FileKeys
    <2>1. isLive(file, r) => file.queues[r].senderKey \in {None, mem.queues[r].senderKey}
      BY <1>1 DEF KeysAgree, FileKeys
    <2>2. secures(t, r) => mem.queues[r].senderKey = line.arg
      BY DEF KeysAgree, PendingKeys
    <2> QED BY <1>7, <2>1, <2>2
  <1> QED BY <1>8, <1>9, <1>10, <1>11 DEF KeysAgree

(* KeysAgree holds when the server starts without files. *)
LEMMA InitKeys == Init => KeysAgree
  BY NewStoreOK DEF Init, KeysAgree, CreatedUnsecured, SecuredKept, PendingKeys, FileKeys,
                    pending, secures

(* Every step keeps KeysAgree. *)
LEMMA NextKeys == IInv /\ DelInv /\ KeysAgree /\ [Next]_vars => KeysAgree'
  <1> SUFFICES ASSUME IInv, DelInv, KeysAgree, [Next]_vars PROVE KeysAgree'
    OBVIOUS
  <1>1. ASSUME NEW t \in Thread, Operation(t) PROVE KeysAgree'
    BY <1>1, OperationAccepted, AcceptedKeys DEF IInv
  <1>2. ASSUME NEW t \in Thread, WithLog(t) \/ WithLogFails(t) PROVE KeysAgree'
    BY <1>2, LoggedKeys
  <1>3. CASE Startup \/ Crash
    <2>1. UNCHANGED secured
      BY <1>3 DEF Startup, PreserveIncomplete, UseTempBackup, ReadStore, CreateLog, MakeTempBackup,
                  OpenLog, WriteService, WriteQueue, RenameBackup, Crash, history
    <2>2. SecuredKept'
      <3> SUFFICES ASSUME NEW r \in RecipientId, secured'[r] # None, NEW st2 \in stores', isLive(st2, r)
                   PROVE  st2.queues[r].senderKey = secured'[r]
        BY DEF SecuredKept
      <3>1. PICK st \in stores : isLive(st, r) /\ st2.queues[r] = st.queues[r]
        BY <1>3, StartupKeeps
      <3> QED BY <2>1, <3>1 DEF KeysAgree, SecuredKept
    <2>3. CreatedUnsecured' /\ PendingKeys'
      BY <1>3, StartupQuiet DEF CreatedUnsecured, PendingKeys, secures
    <2>4. FileKeys'
      <3>1. CASE RenameBackup
        <4>1. phase = "compact" /\ file # None /\ UNCHANGED <<mem, file>>
          BY <3>1 DEF RenameBackup
        <4>2. \A r \in RecipientId : isLive(file, r) => file.queues[r] = mem.queues[r]
          BY <4>1 DEF IInv, FileKnown
        <4> QED BY <4>1, <4>2 DEF FileKeys
      <3>2. CASE CreateLog
        BY <3>2, NewStoreOK DEF CreateLog, FileKeys, isLive
      <3>3. CASE ~RenameBackup /\ ~CreateLog
        <4>1. phase' # "running"
          BY <1>3, <3>3 DEF Startup, PreserveIncomplete, UseTempBackup, ReadStore, MakeTempBackup,
                            OpenLog, WriteService, WriteQueue, Crash
        <4> QED BY <4>1 DEF FileKeys
      <3> QED BY <3>1, <3>2, <3>3
    <2> QED BY <2>2, <2>3, <2>4 DEF KeysAgree
  <1>4. CASE UNCHANGED vars
    BY <1>4 DEF vars, KeysAgree, CreatedUnsecured, SecuredKept, PendingKeys, FileKeys, stores,
                secures, pending
  <1> QED BY <1>1, <1>2, <1>3, <1>4 DEF Next, Wait

(* For all ids, keys and threads: the key that a sender was told secures *)
(* the queue (KEY or SKEY answered OK) is the key of the queue for good, *)
(* in a server that runs (KeyKept).                                      *)
THEOREM KeysKept == Spec => []KeyKept
  <1>1. KeysAgree => KeyKept
    BY DEF KeysAgree, SecuredKept, KeyKept, stores
  <1>2. Spec => []KeysAgree
    <2>1. Spec => []DelInv
      BY InitDelInv, NextDelInv, StoreInvariant, PTL DEF Spec
    <2> QED BY <2>1, InitKeys, NextKeys, StoreInvariant, PTL DEF Spec
  <1> QED BY <1>1, <1>2, PTL

-----------------------------------------------------------------------------
(* What a restart reads *)

(* The record that a line leaves of the record q. *)
newRec(line, q) ==
    CASE line.op = "CreateQueue" -> line.arg
      [] line.op = "CreateLink" -> [q EXCEPT !.queueData = <<line.arg[1], line.arg[2]>>]
      [] line.op = "DeleteLink" -> [q EXCEPT !.queueData = None]
      [] line.op = "SecureQueue" -> [q EXCEPT !.senderKey = line.arg]
      [] line.op = "UpdateKeys" -> [q EXCEPT !.recipientKeys = line.arg]
      [] line.op = "AddNotifier" -> [q EXCEPT !.notifier = line.arg]
      [] line.op = "DeleteNotifier" -> [q EXCEPT !.notifier = None]
      [] line.op = "SuspendQueue" -> [q EXCEPT !.status = "off"]
      [] line.op = "BlockQueue" -> [q EXCEPT !.status = "blocked"]
      [] line.op = "UnblockQueue" -> [q EXCEPT !.status = "active"]
      [] line.op = "UpdateTime" -> [q EXCEPT !.updatedAt = line.arg]
      [] line.op = "DeleteQueue" -> Deleted
      [] line.op = "RcvService" -> [q EXCEPT !.rcvServiceId = line.arg]
      [] line.op = "NtfService" -> [q EXCEPT !.notifier = [q.notifier EXCEPT !.ntfServiceId = line.arg]]

(* When a store takes a line: on what of the store it depends. *)
fits(st, line) ==
    LET r == line.id
        q == st.queues[r]
    IN  IF line.op = "CreateQueue" THEN ~hasId(st, r, line.arg)
        ELSE /\ isLive(st, r)
             /\ line.op = "CreateLink" =>
                   /\ \/ q.queueData = None
                      \/ q.queueData[1] = line.arg[1] /\ q.queueData[2][1] = line.arg[2][1]
                   /\ st.links[line.arg[1]] \in {None, r}
             /\ line.op = "SecureQueue" => q.senderKey \in {None, line.arg}
             /\ line.op = "AddNotifier" => st.notifiers[line.arg.notifierId] = None
             /\ line.op = "NtfService" => q.notifier # None

(* The ids that a line gives to its queue. *)
addedIds(line) ==
    IF line.op = "CreateQueue" THEN heldIds(line.arg)
    ELSE IF line.op = "CreateLink" THEN {line.arg[1]}
    ELSE IF line.op = "AddNotifier" THEN {line.arg.notifierId}
    ELSE {}

onQueue(t) == inflight[t] # None /\ inflight[t].line.op # "NewService"

sure(r) == r \notin unsure
waits(r) == \E t \in Thread : pending(t, r)

-----------------------------------------------------------------------------
(* Pending operations that share an id are all in doubt. *)
ClaimsDisjoint ==
    \A t, u \in Thread :
        /\ inflight[t] # None =>
              IF onQueue(t) THEN inflight[t].claims \cap ServiceId = {}
              ELSE inflight[t].claims \subseteq ServiceId
        /\ onQueue(t) => /\ inflight[t].line.id \in inflight[t].claims
                         /\ addedIds(inflight[t].line) \subseteq inflight[t].claims
                         /\ inflight[t].claims \cap unsure # {} => inflight[t].claims \subseteq unsure
        /\ t # u /\ onQueue(t) /\ onQueue(u) /\ inflight[t].claims \cap inflight[u].claims # {} =>
              inflight[t].claims \subseteq unsure

(* A pending line of a queue that is not in doubt fits the file, and makes *)
(* the record of the file that of memory.                                  *)
PendingFits ==
    \A t \in Thread, r \in RecipientId : pending(t, r) /\ sure(r) /\ inflight[t].line.op # "DeleteQueue" =>
        /\ fits(file, inflight[t].line)
        /\ newRec(inflight[t].line, file.queues[r]) = mem.queues[r]

same(a, b, r) == (isLive(a, r) <=> isLive(b, r)) /\ (isLive(a, r) => a.queues[r] = b.queues[r])

(* The file agrees with memory on everything that is neither pending nor   *)
(* in doubt.                                                               *)
FileAgrees ==
    phase = "running" =>
        /\ \A r \in RecipientId : sure(r) /\ ~waits(r) => same(mem, file, r)
        /\ \A r \in RecipientId : file.queues[r] # Absent => mem.queues[r] # Absent

idsAgree(x) ==
    /\ x \in SenderId => file.senders[x] \in {None, mem.senders[x]}
    /\ x \in NotifierId => file.notifiers[x] \in {None, mem.notifiers[x]}
    /\ x \in LinkId => file.links[x] \in {None, mem.links[x]}

idsOwn(x, r) ==
    /\ x \in SenderId => file.senders[x] \in {None, r}
    /\ x \in NotifierId => file.notifiers[x] \in {None, r}
    /\ x \in LinkId => file.links[x] \in {None, r}

Ids == SenderId \cup NotifierId \cup LinkId

FileIds ==
    phase = "running" =>
        \A x \in Ids \ unsure :
            /\ (\A t \in Thread : onQueue(t) => x \notin inflight[t].claims) => idsAgree(x)
            /\ \A t \in Thread : onQueue(t) /\ x \in inflight[t].claims =>
                  /\ idsOwn(x, inflight[t].line.id)
                  /\ inflight[t].line.op = "DeleteQueue" /\ x \in LinkId => file.links[x] \in {None, mem.links[x]}

(* The store from which the server would start again. *)
effective == IF phase = "compact" \/ (phase = "down" /\ start # None) THEN start ELSE file

isTold(r) == told[r] \notin {Absent, Deleted}

ToldKept ==
    \A r \in RecipientId : isTold(r) /\ sure(r) =>
        IF phase = "running" THEN ~waits(r) => mem.queues[r] = told[r]
        ELSE effective # None /\ effective.queues[r] = told[r]

(* Memory in the phases of the start. *)
Loaded ==
    /\ phase = "down" => mem = newQueueStore
    /\ phase = "loaded" => mem = file
    /\ phase = "compact" =>
          /\ mem = start
          /\ file # None => \A r \in RecipientId : file.queues[r] # Deleted

RestartInv ==
    ClaimsDisjoint /\ PendingFits /\ FileAgrees /\ FileIds /\ ToldKept /\ Loaded

-----------------------------------------------------------------------------
(* What an index map has for the id x after a line of the queue r, that    *)
(* held and was given the ids in held and added.                           *)
Moved(was, is, x, r, held, added) ==
    \/ is = was
    \/ is = None /\ x \in held
    \/ is = r /\ x \in added

heldBefore(st, r) == IF isLive(st, r) THEN heldIds(st.queues[r]) ELSE {}

(* What a line does to a store: to its record and to the maps of ids. *)
Taken(st, line, st2) ==
    LET r == line.id
        held == heldBefore(st, r)
        added == addedIds(line)
    IN  /\ st2 \in Store
        /\ newRec(line, st.queues[r]) \in QueueRec \cup {Deleted}
        /\ newRec(line, st.queues[r]) = Deleted <=> line.op = "DeleteQueue"
        /\ st2.queues = [st.queues EXCEPT ![r] = newRec(line, st.queues[r])]
        /\ \A x \in SenderId : Moved(st.senders[x], st2.senders[x], x, r, held, added)
        /\ \A x \in NotifierId : Moved(st.notifiers[x], st2.notifiers[x], x, r, held, added)
        /\ \A x \in LinkId : Moved(st.links[x], st2.links[x], x, r, held, added)
        /\ line.op = "DeleteQueue" => st2.links = st.links

(* A store that takes a line fits it. *)
LEMMA TakenFits ==
    ASSUME NEW st \in Store, NEW line \in Line, line.op # "NewService",
           procLogRecord(st, line) # Refused
    PROVE  fits(st, line)
  <1>1. CASE line.op = "CreateQueue"
    BY <1>1 DEF procLogRecord, addQueue, fits
  <1>2. CASE line.op = "CreateLink"
    BY <1>2 DEF procLogRecord, addQueueLinkData, fits, Refused
  <1>3. CASE line.op = "SecureQueue"
    BY <1>3 DEF procLogRecord, secureQueue, fits
  <1>4. CASE line.op = "AddNotifier"
    BY <1>4 DEF procLogRecord, addQueueNotifier, fits
  <1>5. CASE line.op = "NtfService"
    BY <1>5 DEF procLogRecord, setNtfService, fits
  <1>6. CASE line.op \notin {"CreateQueue", "CreateLink", "SecureQueue", "AddNotifier", "NtfService"}
    BY <1>6 DEF procLogRecord, fits
  <1> QED BY <1>1, <1>2, <1>3, <1>4, <1>5, <1>6

(* A line that only writes a record moves no ids. *)
LEMMA PutTaken ==
    ASSUME NEW st \in Store, NEW line \in Line, NEW q2 \in QueueRec, line.id \in RecipientId,
           line.op # "DeleteQueue", newRec(line, st.queues[line.id]) = q2,
           NEW st2, Becomes(st2, [st.queues EXCEPT ![line.id] = q2], st.senders, st.notifiers, st.links)
    PROVE  Taken(st, line, st2)
  BY RecTyped DEF Taken, Becomes, Moved

(* A line that fits a store is taken, and moves only the ids it names.     *)
LEMMA FitsTaken ==
    ASSUME NEW st \in Store, NEW line \in Line, line.op # "NewService", fits(st, line),
           NEW st2, st2 = procLogRecord(st, line)
    PROVE  Taken(st, line, st2)
  <1> DEFINE r == line.id
             q == st.queues[r]
  <1>1. r \in RecipientId
    BY LineTyped
  <1>2. ASSUME line.op # "CreateQueue" PROVE isLive(st, r) /\ q \in QueueRec
    BY <1>1, <1>2, LiveTyped DEF fits
  <1>3. CASE line.op = "CreateQueue"
    <2>1. line.arg \in QueueRec /\ ~hasId(st, r, line.arg) /\ st2 = addQueue(st, r, line.arg)
      BY <1>3, LineTyped DEF fits, procLogRecord
    <2>2. Becomes(st2, [st.queues EXCEPT ![r] = line.arg],
               [st.senders EXCEPT ![line.arg.senderId] = r],
               IF line.arg.notifier = None THEN st.notifiers
               ELSE [st.notifiers EXCEPT ![line.arg.notifier.notifierId] = r],
               IF line.arg.queueData = None THEN st.links
               ELSE [st.links EXCEPT ![line.arg.queueData[1]] = r])
      BY <1>1, <2>1, AddQueueFields
    <2>3. newRec(line, q) = line.arg /\ addedIds(line) = heldIds(line.arg)
      BY <1>3 DEF newRec, addedIds
    <2>4. /\ line.arg \notin {Absent, Deleted} /\ line.arg.senderId \in SenderId
          /\ line.arg.notifier # None => line.arg.notifier.notifierId \in NotifierId
          /\ line.arg.queueData # None => line.arg.queueData[1] \in LinkId
      BY <2>1, RecTyped
    <2> QED BY <1>1, <1>3, <2>1, <2>2, <2>3, <2>4, StoreTyped DEF Taken, Becomes, Moved, heldIds
  <1>4. CASE line.op = "CreateLink"
    <2>1. line.arg[1] \in LinkId /\ line.arg[2] \in LinkData
      BY <1>4, LineTyped
    <2>2. /\ \/ q.queueData = None
             \/ q.queueData[1] = line.arg[1] /\ q.queueData[2][1] = line.arg[2][1]
          /\ st.links[line.arg[1]] \in {None, r}
          /\ st2 = addQueueLinkData(st, r, line.arg[1], line.arg[2])
      BY <1>2, <1>4 DEF fits, procLogRecord
    <2> DEFINE q2 == [q EXCEPT !.queueData = <<line.arg[1], line.arg[2]>>]
    <2>3. /\ Becomes(st2, [st.queues EXCEPT ![r] = q2], st.senders, st.notifiers,
                     [st.links EXCEPT ![line.arg[1]] = r])
          /\ q2 \in QueueRec
      BY <1>1, <1>2, <1>4, <2>1, <2>2, AddLinkFields
    <2>4. newRec(line, q) = q2 /\ addedIds(line) = {line.arg[1]}
      BY <1>4 DEF newRec, addedIds
    <2>5. q2 # Deleted
      BY <2>3, RecTyped
    <2> HIDE DEF q2
    <2> QED BY <1>1, <1>4, <2>1, <2>3, <2>4, <2>5, StoreTyped DEF Taken, Becomes, Moved
  <1>5. CASE line.op = "DeleteLink"
    <2>1. st2 = deleteQueueLinkData(st, r) /\ newRec(line, q) = [q EXCEPT !.queueData = None]
      BY <1>2, <1>5 DEF procLogRecord, newRec
    <2>2. CASE q.queueData = None
      <3>1. [q EXCEPT !.queueData = None] = q /\ st2 = st
        BY <1>2, <1>5, <2>1, <2>2 DEF deleteQueueLinkData, QueueRec
      <3>2. Becomes(st2, [st.queues EXCEPT ![r] = q], st.senders, st.notifiers, st.links)
        BY <1>1, <3>1, StoreTyped DEF Becomes
      <3> QED BY <1>1, <1>2, <1>5, <2>1, <3>1, <3>2, PutTaken
    <2>3. CASE q.queueData # None
      <3> DEFINE q2 == [q EXCEPT !.queueData = None]
      <3>1. /\ Becomes(st2, [st.queues EXCEPT ![r] = q2], st.senders, st.notifiers,
                       [st.links EXCEPT ![q.queueData[1]] = None])
            /\ q2 \in QueueRec
        BY <1>1, <1>2, <1>5, <2>1, <2>3, DeleteLinkFields
      <3>2. q2 # Deleted /\ q.queueData[1] \in LinkId
        BY <1>2, <1>5, <2>3, <3>1, RecTyped
      <3>3. q.queueData[1] \in heldBefore(st, r)
        BY <1>2, <1>5, <2>3 DEF heldBefore, heldIds
      <3> HIDE DEF q2
      <3>4. newRec(line, q) = q2
        BY <2>1 DEF q2
      <3> QED BY <1>1, <1>5, <3>1, <3>2, <3>3, <3>4, StoreTyped DEF Taken, Becomes, Moved
    <2> QED BY <2>2, <2>3
  <1>6. CASE line.op \in {"SecureQueue", "UpdateKeys", "UpdateTime", "SuspendQueue", "BlockQueue",
                          "UnblockQueue"}
    <2>1. st2 = put(st, r, newRec(line, q))
      BY <1>2, <1>6 DEF procLogRecord, newRec, fits, secureQueue, updateKeys, updateQueueTime, setStatus
    <2>2. newRec(line, q) \in QueueRec
      BY ZenonT(30), <1>2, <1>6, LineTyped DEF newRec, QueueRec, Maybe, Status
    <2>3. Becomes(st2, [st.queues EXCEPT ![r] = newRec(line, q)], st.senders, st.notifiers, st.links)
      BY <1>1, <2>1, <2>2, PutFields
    <2> QED BY <1>1, <1>6, <2>2, <2>3, PutTaken
  <1>7. CASE line.op = "AddNotifier"
    <2>1. line.arg \in NtfCreds
      BY <1>7, LineTyped
    <2>2. st.notifiers[line.arg.notifierId] = None /\ st2 = addQueueNotifier(st, r, line.arg)
      BY <1>2, <1>7 DEF fits, procLogRecord
    <2> DEFINE was == IF q.notifier = None THEN st.notifiers
                      ELSE [st.notifiers EXCEPT ![q.notifier.notifierId] = None]
               q2 == [q EXCEPT !.notifier = line.arg]
    <2>3. /\ Becomes(st2, [st.queues EXCEPT ![r] = q2], st.senders,
                     [was EXCEPT ![line.arg.notifierId] = r], st.links)
          /\ q2 \in QueueRec
      BY <1>1, <1>2, <1>7, <2>1, <2>2, AddNotifierFields
    <2>4. newRec(line, q) = q2 /\ addedIds(line) = {line.arg.notifierId}
      BY <1>7 DEF newRec, addedIds
    <2>5. /\ q2 # Deleted /\ line.arg.notifierId \in NotifierId
          /\ q.notifier # None => /\ q.notifier.notifierId \in NotifierId
                                  /\ q.notifier.notifierId \in heldBefore(st, r)
      BY <1>2, <1>7, <2>1, <2>3, RecTyped DEF NtfCreds, heldBefore, heldIds
    <2> HIDE DEF q2
    <2> QED BY <1>1, <1>7, <2>3, <2>4, <2>5, StoreTyped DEF Taken, Becomes, Moved
  <1>8. CASE line.op = "DeleteNotifier"
    <2> DEFINE q2 == [q EXCEPT !.notifier = None]
    <2>1. st2 = deleteQueueNotifier(st, r) /\ newRec(line, q) = q2
      BY <1>2, <1>8 DEF procLogRecord, newRec
    <2>2. /\ Becomes(st2, [st.queues EXCEPT ![r] = q2], st.senders,
                     IF q.notifier = None THEN st.notifiers
                     ELSE [st.notifiers EXCEPT ![q.notifier.notifierId] = None], st.links)
          /\ q2 \in QueueRec
      BY <1>1, <1>2, <1>8, <2>1, DeleteNotifierFields
    <2>3. /\ q2 # Deleted
          /\ q.notifier # None => /\ q.notifier.notifierId \in NotifierId
                                  /\ q.notifier.notifierId \in heldBefore(st, r)
      BY <1>2, <1>8, <2>2, RecTyped DEF heldBefore, heldIds
    <2> HIDE DEF q2
    <2> QED BY <1>1, <1>8, <2>1, <2>2, <2>3, StoreTyped DEF Taken, Becomes, Moved
  <1>9. CASE line.op = "DeleteQueue"
    <2>1. st2 = deleteStoreQueue(st, r) /\ newRec(line, q) = Deleted
      BY <1>2, <1>9 DEF procLogRecord, newRec
    <2>2. Becomes(st2, [st.queues EXCEPT ![r] = Deleted], [st.senders EXCEPT ![q.senderId] = None],
                  IF q.notifier = None THEN st.notifiers
                  ELSE [st.notifiers EXCEPT ![q.notifier.notifierId] = None], st.links)
      BY <1>1, <1>2, <1>9, <2>1, DeleteQueueFields
    <2>3. /\ q.senderId \in SenderId /\ q.senderId \in heldBefore(st, r)
          /\ q.notifier # None => /\ q.notifier.notifierId \in NotifierId
                                  /\ q.notifier.notifierId \in heldBefore(st, r)
      BY <1>2, <1>9, RecTyped DEF heldBefore, heldIds
    <2> QED BY <1>1, <1>9, <2>1, <2>2, <2>3, StoreTyped DEF Taken, Becomes, Moved
  <1>10. CASE line.op = "RcvService"
    <2> DEFINE q2 == [q EXCEPT !.rcvServiceId = line.arg]
    <2>1. line.arg \in Maybe(ServiceId)
      BY <1>10, LineTyped
    <2>2. st2 = setRcvService(st, r, line.arg) /\ newRec(line, q) = q2
      BY <1>2, <1>10 DEF procLogRecord, newRec
    <2>3. /\ Becomes(st2, [st.queues EXCEPT ![r] = q2], st.senders, st.notifiers, st.links)
          /\ q2 \in QueueRec
      BY <1>1, <1>2, <1>10, <2>1, <2>2, RcvServiceFields
    <2> QED BY <1>1, <1>10, <2>2, <2>3, PutTaken
  <1>11. CASE line.op = "NtfService"
    <2> DEFINE q2 == [q EXCEPT !.notifier = [q.notifier EXCEPT !.ntfServiceId = line.arg]]
    <2>1. line.arg \in Maybe(ServiceId)
      BY <1>11, LineTyped
    <2>2. st2 = setNtfService(st, r, line.arg) /\ newRec(line, q) = q2 /\ q.notifier # None
      BY <1>2, <1>11 DEF procLogRecord, newRec, fits
    <2>3. /\ Becomes(st2, [st.queues EXCEPT ![r] = q2], st.senders, st.notifiers, st.links)
          /\ q2 \in QueueRec
      BY <1>1, <1>2, <1>11, <2>1, <2>2, NtfServiceFields
    <2> QED BY <1>1, <1>11, <2>2, <2>3, PutTaken
  <1> QED BY LineTyped, <1>3, <1>4, <1>5, <1>6, <1>7, <1>8, <1>9, <1>10, <1>11

(* A line that fits the file is taken; one that is taken did fit. *)
LEMMA AppendedTaken ==
    ASSUME NEW f \in Store, NEW line \in Line, line.op # "NewService", NEW f2, f2 = appended(f, line)
    PROVE  /\ fits(f, line) => Taken(f, line, f2)
           /\ f2 = f \/ (fits(f, line) /\ Taken(f, line, f2))
  <1>1. ASSUME fits(f, line) PROVE Taken(f, line, f2)
    <2>1. Taken(f, line, procLogRecord(f, line))
      BY <1>1, FitsTaken
    <2>2. procLogRecord(f, line) # Refused
      BY <2>1, SentinelAssumption DEF Taken, Refused
    <2> QED BY <2>1, <2>2 DEF appended
  <1>2. CASE procLogRecord(f, line) = Refused
    BY <1>1, <1>2 DEF appended
  <1>3. CASE procLogRecord(f, line) # Refused
    BY <1>1, <1>3, TakenFits DEF appended
  <1> QED BY <1>1, <1>2, <1>3

(* A line that creates a service moves no ids. *)
LEMMA ServiceMovesNothing ==
    ASSUME NEW f \in Store, NEW line \in Line, line.op = "NewService"
    PROVE  /\ procLogRecord(f, line) # Refused =>
                  Becomes(procLogRecord(f, line), f.queues, f.senders, f.notifiers, f.links)
           /\ Becomes(appended(f, line), f.queues, f.senders, f.notifiers, f.links)
  <1>1. line.id \in ServiceId /\ line.arg.cert \in Cert /\ line.arg.role \in Role
    BY LineTyped
  <1>2. procLogRecord(f, line) = getCreateService(f, line.id, line.arg.cert, line.arg.role)
    BY DEF procLogRecord
  <1>3. procLogRecord(f, line) # Refused =>
            Becomes(procLogRecord(f, line), f.queues, f.senders, f.notifiers, f.links)
    BY <1>1, <1>2, CreateServiceFields
  <1> QED BY <1>3 DEF appended, Becomes

(* The ids that a line gives are free, or the queue's own link. *)
LEMMA AddedFree ==
    ASSUME NEW st \in Store, NEW line \in Line, line.op # "NewService", fits(st, line)
    PROVE  \A x \in addedIds(line) :
              /\ x \in SenderId => st.senders[x] = None
              /\ x \in NotifierId => st.notifiers[x] = None
              /\ x \in LinkId => st.links[x] \in {None, line.id}
  <1>1. CASE line.op = "CreateQueue"
    <2>1. line.arg \in QueueRec /\ ~hasId(st, line.id, line.arg) /\ addedIds(line) = heldIds(line.arg)
      BY <1>1, LineTyped DEF fits, addedIds
    <2>2. /\ line.arg.senderId \in SenderId
          /\ line.arg.notifier # None => line.arg.notifier.notifierId \in NotifierId
          /\ line.arg.queueData # None => line.arg.queueData[1] \in LinkId
      BY <2>1, RecTyped
    <2> QED BY <2>1, <2>2, KindAssumption DEF hasId, heldIds
  <1>2. CASE line.op = "CreateLink"
    <2>1. line.arg[1] \in LinkId /\ st.links[line.arg[1]] \in {None, line.id}
      BY <1>2, LineTyped DEF fits
    <2> QED BY <1>2, <2>1, KindAssumption DEF addedIds
  <1>3. CASE line.op = "AddNotifier"
    <2>1. line.arg.notifierId \in NotifierId /\ st.notifiers[line.arg.notifierId] = None
      BY <1>3, LineTyped DEF fits, NtfCreds
    <2> QED BY <1>3, <2>1, KindAssumption DEF addedIds
  <1>4. CASE line.op \notin {"CreateQueue", "CreateLink", "AddNotifier"}
    BY <1>4 DEF addedIds
  <1> QED BY <1>1, <1>2, <1>3, <1>4

(* A store whose ids of a line are no more taken, and whose queue is the   *)
(* same, takes the line too.                                               *)
LEMMA FitsAlso ==
    ASSUME NEW a \in Store, NEW b \in Store, NEW line \in Line, line.op # "NewService", fits(a, line),
           b.queues[line.id] = a.queues[line.id],
           \A x \in addedIds(line) : /\ x \in SenderId => b.senders[x] \in {None, a.senders[x]}
                                     /\ x \in NotifierId => b.notifiers[x] \in {None, a.notifiers[x]}
                                     /\ x \in LinkId => b.links[x] \in {None, a.links[x]}
    PROVE  fits(b, line)
  <1>1. CASE line.op = "CreateQueue"
    <2>1. line.arg \in QueueRec /\ ~hasId(a, line.id, line.arg) /\ addedIds(line) = heldIds(line.arg)
      BY <1>1, LineTyped DEF fits, addedIds
    <2>2. /\ line.arg.senderId \in SenderId
          /\ line.arg.notifier # None => line.arg.notifier.notifierId \in NotifierId
          /\ line.arg.queueData # None => line.arg.queueData[1] \in LinkId
      BY <2>1, RecTyped
    <2>3. ~hasId(b, line.id, line.arg)
      BY <2>1, <2>2 DEF hasId, heldIds
    <2> QED BY <1>1, <2>3 DEF fits
  <1>2. CASE line.op = "CreateLink"
    <2>1. line.arg[1] \in LinkId /\ line.arg[1] \in addedIds(line)
      BY <1>2, LineTyped DEF addedIds
    <2> QED BY <1>2, <2>1 DEF fits, isLive
  <1>3. CASE line.op = "AddNotifier"
    <2>1. line.arg.notifierId \in NotifierId /\ line.arg.notifierId \in addedIds(line)
      BY <1>3, LineTyped DEF addedIds, NtfCreds
    <2> QED BY <1>3, <2>1 DEF fits, isLive
  <1>4. CASE line.op \notin {"CreateQueue", "CreateLink", "AddNotifier"}
    BY <1>4 DEF fits, isLive
  <1> QED BY <1>1, <1>2, <1>3, <1>4

(* What an operation claims: its queue, and the ids that the queue holds   *)
(* before and after.                                                       *)
LEMMA ClaimedByQueue ==
    ASSUME NEW st \in Store, NEW line \in Line, line.op # "NewService",
           fits(st, line), NEW st2, Taken(st, line, st2)
    PROVE  LET c == claimed(line, st, st2)
           IN  /\ line.id \in c
               /\ addedIds(line) \subseteq c
               /\ heldBefore(st, line.id) \subseteq c
               /\ \A x \in c \ {line.id} :
                     x \in heldBefore(st, line.id) \/ x \in heldBefore(st2, line.id)
               /\ c \subseteq RecipientId \cup SenderId \cup NotifierId \cup LinkId
  <1> DEFINE r == line.id
             q == st.queues[r]
             q2 == newRec(line, q)
             c == claimed(line, st, st2)
  <1>1. r \in RecipientId
    BY LineTyped
  <1>2. st2 \in Store /\ q2 \in QueueRec \cup {Deleted} /\ st2.queues[r] = q2
    BY <1>1, StoreTyped DEF Taken
  <1>3. c = {r} \cup UNION {heldIds(p) : p \in {q, q2} \ {Absent, Deleted}}
    BY <1>2 DEF claimed, recsOf
  <1>4. heldBefore(st, r) \subseteq c
    BY <1>3 DEF heldBefore, isLive
  <1>5. addedIds(line) \subseteq c
    <2>1. CASE line.op = "CreateQueue"
      <3>1. q2 = line.arg /\ q2 \notin {Absent, Deleted}
        BY <2>1, LineTyped, RecTyped DEF newRec
      <3> QED BY <1>3, <2>1, <3>1 DEF addedIds
    <2>2. CASE line.op \in {"CreateLink", "AddNotifier"}
      <3>1. q2 \in QueueRec /\ q \in QueueRec
        BY <1>1, <1>2, <2>2, LiveTyped DEF Taken, fits
      <3>2. q2 \notin {Absent, Deleted} /\ heldIds(q2) \subseteq c
        BY <1>3, <3>1, RecTyped
      <3>3. CASE line.op = "CreateLink"
        <4>1. q2.queueData = <<line.arg[1], line.arg[2]>>
          BY <3>1, <3>3 DEF newRec, QueueRec
        <4>2. q2.queueData # None /\ q2.queueData[1] = line.arg[1]
          BY <3>3, <4>1, LineTyped, SentinelAssumption
        <4> QED BY <3>2, <3>3, <4>2 DEF addedIds, heldIds
      <3>4. CASE line.op = "AddNotifier"
        <4>1. q2.notifier = line.arg
          BY <3>1, <3>4 DEF newRec, QueueRec
        <4>2. q2.notifier # None
          BY <3>4, <4>1, LineTyped, SentinelAssumption
        <4> QED BY <3>2, <3>4, <4>1, <4>2 DEF addedIds, heldIds
      <3> QED BY <2>2, <3>3, <3>4
    <2>3. CASE line.op \notin {"CreateQueue", "CreateLink", "AddNotifier"}
      BY <2>3 DEF addedIds
    <2> QED BY <2>1, <2>2, <2>3
  <1>6. \A x \in c \ {r} : x \in heldBefore(st, r) \/ x \in heldBefore(st2, r)
    BY <1>2, <1>3 DEF heldBefore, isLive
  <1>7. \A p \in {q, q2} \ {Absent, Deleted} : heldIds(p) \subseteq SenderId \cup NotifierId \cup LinkId
    <2>1. \A p \in {q, q2} \ {Absent, Deleted} : p \in QueueRec
      BY <1>1, <1>2, StoreTyped
    <2> QED BY <2>1, RecTyped DEF heldIds
  <1>8. c \subseteq RecipientId \cup SenderId \cup NotifierId \cup LinkId
    BY <1>1, <1>3, <1>7
  <1>9. r \in c
    BY <1>3
  <1> QED BY <1>4, <1>5, <1>6, <1>8, <1>9

(* The ids that a queue holds are its own in the maps. *)
LEMMA HeldOwn ==
    ASSUME NEW st, StoreOK(st), NEW r \in RecipientId, NEW x, x \in heldBefore(st, r)
    PROVE  /\ x \in SenderId => st.senders[x] = r
           /\ x \in NotifierId => st.notifiers[x] = r
           /\ x \in LinkId => st.links[x] = r
           /\ x \in SenderId \cup NotifierId \cup LinkId
  <1>1. isLive(st, r) /\ x \in heldIds(st.queues[r])
    BY DEF heldBefore
  <1>2. st.queues[r] \in QueueRec
    BY <1>1, LiveTyped DEF StoreOK
  <1> DEFINE q == st.queues[r]
  <1>3. \/ x = q.senderId /\ x \in SenderId
        \/ q.notifier # None /\ x = q.notifier.notifierId /\ x \in NotifierId
        \/ q.queueData # None /\ x = q.queueData[1] /\ x \in LinkId
    BY <1>1, <1>2, RecTyped DEF heldIds
  <1> QED BY <1>1, <1>3, KindAssumption DEF StoreOK, Indexed

(* Stores with the same record for a queue that is there agree on whose    *)
(* the ids are that lead to it.                                            *)
LEMMA SameRecSameIds ==
    ASSUME NEW a, StoreOK(a), NEW b, StoreOK(b), NEW r \in RecipientId,
           isLive(a, r) => isLive(b, r) /\ b.queues[r] = a.queues[r]
    PROVE  /\ \A x \in SenderId : a.senders[x] = r => b.senders[x] = r
           /\ \A x \in NotifierId : a.notifiers[x] = r => b.notifiers[x] = r
           /\ isLive(a, r) => \A x \in LinkId : a.links[x] = r => b.links[x] = r
  BY DEF StoreOK, Indexed

-----------------------------------------------------------------------------
(* What becomes of the ids in doubt when the operation job begins. *)
Doubts(job) ==
    /\ unsure \subseteq unsure'
    /\ job.claims \cap unsure' # {} => job.claims \subseteq unsure'
    /\ \A u \in Thread : inflight[u] # None /\ inflight[u].claims \cap job.claims # {} =>
          job.claims \subseteq unsure' /\ inflight[u].claims \subseteq unsure'
    /\ \A x \in unsure' : \/ x \in unsure \cup job.claims
                          \/ \E u \in Thread : /\ inflight[u] # None /\ x \in inflight[u].claims
                                               /\ inflight[u].claims \subseteq unsure'

(* An operation begins: what it does to memory and what it claims. *)
LEMMA AcceptedFacts ==
    ASSUME IInv, NEW t \in Thread, NEW line \in Line, Accepted(t, line)
    PROVE  /\ phase = "running" /\ inflight[t] = None /\ start = None
           /\ file \in Store /\ StoreOK(file) /\ file # None
           /\ mem \in Store /\ StoreOK(mem) /\ mem' \in Store /\ StoreOK(mem')
           /\ Effect(mem, line, mem')
           /\ line.op # "NewService" => fits(mem, line) /\ Taken(mem, line, mem')
           /\ line.op = "NewService" => Becomes(mem', mem.queues, mem.senders, mem.notifiers, mem.links)
           /\ \E job \in Job : /\ job.line = line /\ job.claims = claimed(line, mem, mem')
                               /\ inflight' = [inflight EXCEPT ![t] = job]
                               /\ Doubts(job)
           /\ UNCHANGED <<file, start, phase>>
  <1>1. /\ phase = "running" /\ inflight[t] = None
        /\ mem' = procLogRecord(mem, line) /\ mem' # Refused
        /\ mem' \in Store /\ StoreOK(mem') /\ Effect(mem, line, mem')
        /\ UNCHANGED <<file, start, phase, crashes, fails>>
    BY TransactFacts DEF Accepted
  <1>2. StoreOK(mem) /\ mem \in Store /\ file # None /\ StoreOK(file) /\ file \in Store /\ start = None
    BY <1>1, StoresOK DEF IInv, Phases, StoreOK
  <1>3. line.op # "NewService" => fits(mem, line) /\ Taken(mem, line, mem')
    BY <1>1, <1>2, TakenFits, FitsTaken
  <1>4. line.op = "NewService" => Becomes(mem', mem.queues, mem.senders, mem.notifiers, mem.links)
    BY <1>1, <1>2, ServiceMovesNothing
  <1> DEFINE job == [line |-> line, claims |-> claimed(line, mem, mem'), uses |-> used(line, mem, mem')]
             others == {inflight[u] : u \in {v \in Thread : inflight[v] # None}}
             rivals == {o \in others : interferes(job, o)}
  <1>5. /\ inflight' = [inflight EXCEPT ![t] = job]
        /\ unsure' = IF rivals # {} \/ (job.claims \cup job.uses) \cap unsure # {}
                     THEN unsure \cup job.claims \cup UNION {o.claims : o \in rivals}
                     ELSE unsure
    BY <1>1 DEF Accepted, Transact
  <1>6. job \in Job /\ job.line = line /\ job.claims = claimed(line, mem, mem')
    BY <1>2, <1>1, ClaimsTyped DEF Job
  <1>7. \A o \in others : o.claims \cap job.claims # {} => o \in rivals
    BY DEF interferes
  <1> HIDE DEF job, rivals
  <1>8. unsure \subseteq unsure'
    BY <1>5
  <1>9. job.claims \cap unsure' # {} => job.claims \subseteq unsure'
    BY <1>5
  <1>10. \A o \in rivals : o.claims \subseteq unsure' /\ job.claims \subseteq unsure'
    BY <1>5
  <1>11. \A u \in Thread : inflight[u] # None /\ inflight[u].claims \cap job.claims # {} =>
            job.claims \subseteq unsure' /\ inflight[u].claims \subseteq unsure'
    BY <1>7, <1>10
  <1>12. \A x \in unsure' : \/ x \in unsure \cup job.claims
                            \/ \E o \in rivals : x \in o.claims /\ o.claims \subseteq unsure'
    BY <1>5, <1>10
  <1>13. \A o \in rivals : \E u \in Thread : inflight[u] # None /\ o = inflight[u]
    BY DEF rivals
  <1>14. Doubts(job)
    BY <1>8, <1>9, <1>11, <1>12, <1>13 DEF Doubts
  <1> QED BY <1>1, <1>2, <1>3, <1>4, <1>5, <1>6, <1>14

(* A new operation keeps ClaimsDisjoint. *)
LEMMA AcceptedClaims ==
    ASSUME IInv, ClaimsDisjoint, NEW t \in Thread, NEW line \in Line, Accepted(t, line)
    PROVE  ClaimsDisjoint'
  <1>1. PICK job \in Job : /\ job.line = line /\ job.claims = claimed(line, mem, mem')
                           /\ inflight' = [inflight EXCEPT ![t] = job]
                           /\ Doubts(job)
    BY AcceptedFacts
  <1>2. /\ inflight[t] = None /\ mem \in Store
        /\ line.op # "NewService" => fits(mem, line) /\ Taken(mem, line, mem')
    BY AcceptedFacts
  <1>3. inflight'[t] = job /\ job # None /\ \A u \in Thread \ {t} : inflight'[u] = inflight[u]
    BY <1>1, SentinelAssumption DEF IInv, TypeOK
  <1>4. \A u \in Thread : onQueue(u)' <=> IF u = t THEN line.op # "NewService" ELSE onQueue(u)
    BY <1>1, <1>3 DEF onQueue
  <1>5. IF line.op # "NewService" THEN job.claims \cap ServiceId = {} ELSE job.claims \subseteq ServiceId
    <2>1. CASE line.op # "NewService"
      BY <1>1, <1>2, <2>1, ClaimedByQueue, KindAssumption
    <2>2. CASE line.op = "NewService"
      BY <1>1, <2>2, LineTyped DEF claimed, recsOf
    <2> QED BY <2>1, <2>2
  <1>6. line.op # "NewService" => line.id \in job.claims /\ addedIds(line) \subseteq job.claims
    BY <1>1, <1>2, ClaimedByQueue
  <1>7. ASSUME NEW u \in Thread, u # t, onQueue(u), NEW x, x \in inflight[u].claims, x \in unsure'
        PROVE  inflight[u].claims \subseteq unsure'
    <2>1. CASE x \in unsure
      BY <1>1, <1>7, <2>1 DEF ClaimsDisjoint, Doubts
    <2>2. CASE x \in job.claims
      BY <1>1, <1>7, <2>2 DEF Doubts, onQueue
    <2>3. CASE \E v \in Thread : /\ inflight[v] # None /\ x \in inflight[v].claims
                                 /\ inflight[v].claims \subseteq unsure'
      <3>1. PICK v \in Thread : /\ inflight[v] # None /\ x \in inflight[v].claims
                                /\ inflight[v].claims \subseteq unsure'
        BY <2>3
      <3>2. CASE v = u
        BY <3>1, <3>2
      <3>3. CASE v # u
        <4>1. inflight[u] # None
          BY <1>7 DEF onQueue
        <4>2. onQueue(v)
          BY <1>7, <3>1, <4>1 DEF ClaimsDisjoint
        <4>3. inflight[u].claims \subseteq unsure
          BY <1>7, <3>1, <3>3, <4>2 DEF ClaimsDisjoint
        <4> QED BY <1>1, <4>3 DEF Doubts
      <3> QED BY <3>2, <3>3
    <2> QED BY <1>1, <1>7, <2>1, <2>2, <2>3 DEF Doubts
  <1>8. ASSUME NEW u \in Thread, NEW v \in Thread, u # v, u # t, onQueue(u), onQueue(v)',
               inflight[u].claims \cap inflight'[v].claims # {}
        PROVE  inflight[u].claims \subseteq unsure' /\ (v = t => job.claims \subseteq unsure')
    <2>1. CASE v = t
      BY <1>1, <1>3, <1>8, <2>1 DEF Doubts, onQueue
    <2>2. CASE v # t
      <3>1. inflight[u].claims \subseteq unsure
        BY <1>3, <1>4, <1>8, <2>2 DEF ClaimsDisjoint
      <3> QED BY <1>1, <2>2, <3>1 DEF Doubts
    <2> QED BY <2>1, <2>2
  <1> SUFFICES ASSUME NEW u \in Thread, NEW v \in Thread
               PROVE  /\ inflight'[u] # None =>
                            IF onQueue(u)' THEN inflight'[u].claims \cap ServiceId = {}
                            ELSE inflight'[u].claims \subseteq ServiceId
                      /\ onQueue(u)' =>
                            /\ inflight'[u].line.id \in inflight'[u].claims
                            /\ addedIds(inflight'[u].line) \subseteq inflight'[u].claims
                            /\ inflight'[u].claims \cap unsure' # {} => inflight'[u].claims \subseteq unsure'
                      /\ u # v /\ onQueue(u)' /\ onQueue(v)'
                               /\ inflight'[u].claims \cap inflight'[v].claims # {} =>
                            inflight'[u].claims \subseteq unsure'
    BY DEF ClaimsDisjoint, addedIds, heldIds
  <1>9. CASE u = t
    <2>1. u # v /\ onQueue(v)' /\ inflight'[u].claims \cap inflight'[v].claims # {} =>
             inflight'[u].claims \subseteq unsure'
      BY <1>1, <1>3, <1>4, <1>8, <1>9 DEF onQueue, Doubts
    <2>2. job.claims \cap unsure' # {} => job.claims \subseteq unsure'
      BY <1>1 DEF Doubts
    <2> QED BY <1>1, <1>3, <1>4, <1>5, <1>6, <1>9, <2>1, <2>2
  <1>10. CASE u # t
    <2>1. inflight'[u] = inflight[u] /\ (onQueue(u)' <=> onQueue(u))
      BY <1>3, <1>4, <1>10
    <2>2. onQueue(u) => (inflight[u].claims \cap unsure' # {} => inflight[u].claims \subseteq unsure')
      BY <1>7, <1>10
    <2>3. u # v /\ onQueue(u) /\ onQueue(v)' /\ inflight[u].claims \cap inflight'[v].claims # {} =>
             inflight[u].claims \subseteq unsure'
      BY <1>8, <1>10
    <2>4. /\ inflight[u] # None =>
                IF onQueue(u) THEN inflight[u].claims \cap ServiceId = {}
                ELSE inflight[u].claims \subseteq ServiceId
          /\ onQueue(u) => /\ inflight[u].line.id \in inflight[u].claims
                           /\ addedIds(inflight[u].line) \subseteq inflight[u].claims
      BY DEF ClaimsDisjoint
    <2> QED BY <2>1, <2>2, <2>3, <2>4
  <1> QED BY <1>9, <1>10

(* A new operation on a queue, and the rest of the invariant. *)
LEMMA AcceptedRestart ==
    ASSUME IInv, DelInv, RestartInv, NEW t \in Thread, NEW line \in Line, Accepted(t, line)
    PROVE  RestartInv'
  <1> DEFINE r == line.id
  <1>1. PICK job \in Job : /\ job.line = line /\ job.claims = claimed(line, mem, mem')
                           /\ inflight' = [inflight EXCEPT ![t] = job]
                           /\ Doubts(job)
    BY AcceptedFacts
  <1>2. /\ phase = "running" /\ inflight[t] = None /\ start = None /\ file # None
        /\ file \in Store /\ StoreOK(file) /\ mem \in Store /\ StoreOK(mem)
        /\ mem' \in Store /\ StoreOK(mem') /\ Effect(mem, line, mem')
        /\ UNCHANGED <<file, start, phase>>
    BY AcceptedFacts
  <1>3. /\ line.op # "NewService" => fits(mem, line) /\ Taken(mem, line, mem') /\ r \in RecipientId
        /\ line.op = "NewService" => Becomes(mem', mem.queues, mem.senders, mem.notifiers, mem.links)
    BY AcceptedFacts, LineTyped
  <1>4. inflight'[t] = job /\ job # None /\ \A u \in Thread \ {t} : inflight'[u] = inflight[u]
    BY <1>1, SentinelAssumption DEF IInv, TypeOK
  <1>5. /\ \A u \in Thread : onQueue(u)' <=> IF u = t THEN line.op # "NewService" ELSE onQueue(u)
        /\ \A u \in Thread, s \in RecipientId :
              pending(u, s)' <=> IF u = t THEN line.op # "NewService" /\ r = s ELSE pending(u, s)
    BY <1>1, <1>4 DEF onQueue, pending
  <1>6. unsure \subseteq unsure'
    BY <1>1 DEF Doubts
  <1>7. \A s \in RecipientId : waits(s)' <=> waits(s) \/ (line.op # "NewService" /\ r = s)
    BY <1>2, <1>5 DEF waits, pending
  <1>8. line.op # "NewService" =>
           /\ r \in job.claims /\ addedIds(line) \subseteq job.claims
           /\ heldBefore(mem, r) \subseteq job.claims
           /\ \A x \in job.claims \ {r} : x \in heldBefore(mem, r) \/ x \in heldBefore(mem', r)
    BY <1>1, <1>2, <1>3, ClaimedByQueue
  <1>9. \A u \in Thread, s \in RecipientId : pending(u, s) =>
           onQueue(u) /\ inflight[u].line.id = s /\ s \in inflight[u].claims
    BY DEF pending, onQueue, RestartInv, ClaimsDisjoint
  (* If an id that is claimed is not in doubt, no other operation claims any. *)
  <1>10. ASSUME NEW x \in job.claims, x \notin unsure'
         PROVE  /\ job.claims \cap unsure' = {}
                /\ \A u \in Thread : onQueue(u) => inflight[u].claims \cap job.claims = {}
    BY <1>1, <1>10 DEF Doubts, onQueue
  <1>11. \A s \in RecipientId : line.op = "NewService" \/ s # r => mem'.queues[s] = mem.queues[s]
    BY <1>2, EffectFacts
  (* An id that the operation does not claim leads where it led. *)
  <1>12. ASSUME NEW x, line.op = "NewService" \/ x \notin job.claims
         PROVE  /\ x \in SenderId => mem'.senders[x] = mem.senders[x]
                /\ x \in NotifierId => mem'.notifiers[x] = mem.notifiers[x]
                /\ x \in LinkId => mem'.links[x] = mem.links[x]
    <2>1. CASE line.op = "NewService"
      BY <1>3, <2>1 DEF Becomes
    <2>2. CASE line.op # "NewService"
      <3>1. x \notin addedIds(line) /\ x \notin heldBefore(mem, r)
        BY <1>8, <1>12, <2>2
      <3> QED BY <1>3, <2>2, <3>1 DEF Taken, Moved
    <2> QED BY <2>1, <2>2
  <1>13. ClaimsDisjoint'
    BY AcceptedClaims DEF RestartInv
  <1>14. PendingFits'
    <2> SUFFICES ASSUME NEW u \in Thread, NEW s \in RecipientId,
                        pending(u, s)', s \notin unsure', inflight'[u].line.op # "DeleteQueue"
                 PROVE  /\ fits(file, inflight'[u].line)
                        /\ newRec(inflight'[u].line, file.queues[s]) = mem'.queues[s]
      BY <1>2 DEF PendingFits, sure
    <2>1. CASE u # t
      <3>1. pending(u, s) /\ inflight'[u] = inflight[u] /\ s \notin unsure
        BY <1>4, <1>5, <1>6, <2>1
      <3>2. /\ fits(file, inflight[u].line)
            /\ newRec(inflight[u].line, file.queues[s]) = mem.queues[s]
        BY <3>1 DEF RestartInv, PendingFits, sure
      <3>3. line.op = "NewService" \/ s # r
        BY <1>8, <1>9, <1>10, <3>1
      <3> QED BY <1>11, <3>1, <3>2, <3>3
    <2>2. CASE u = t
      <3>1. line.op # "NewService" /\ r = s /\ line.op # "DeleteQueue"
        BY <1>1, <1>4, <1>5, <2>2
      <3>2. /\ job.claims \cap unsure = {} /\ r \notin unsure
            /\ \A v \in Thread : onQueue(v) => inflight[v].claims \cap job.claims = {}
        BY <1>6, <1>8, <1>10, <3>1
      <3>3. ~waits(r)
        BY <1>8, <1>9, <3>1, <3>2 DEF waits
      <3>4. same(mem, file, r)
        BY <1>2, <1>3, <3>1, <3>2, <3>3 DEF RestartInv, FileAgrees, sure
      <3>5. file.queues[r] = mem.queues[r]
        <4>1. CASE line.op = "CreateQueue"
          <5>1. mem.queues[r] = Absent
            BY <1>3, <4>1 DEF fits, hasId
          <5> QED BY <1>2, <1>3, <3>1, <5>1 DEF RestartInv, FileAgrees
        <4>2. CASE line.op # "CreateQueue"
          BY <1>3, <3>1, <3>4, <4>2 DEF fits, same
        <4> QED BY <4>1, <4>2
      <3>6. \A x \in addedIds(line) : /\ x \in SenderId => file.senders[x] \in {None, mem.senders[x]}
                                      /\ x \in NotifierId => file.notifiers[x] \in {None, mem.notifiers[x]}
                                      /\ x \in LinkId => file.links[x] \in {None, mem.links[x]}
        <4> SUFFICES ASSUME NEW x \in addedIds(line), x \in Ids
                     PROVE  idsAgree(x)
          BY DEF idsAgree, Ids
        <4>1. x \in job.claims /\ x \notin unsure
          BY <1>8, <3>1, <3>2
        <4>2. \A v \in Thread : onQueue(v) => x \notin inflight[v].claims
          BY <3>2, <4>1
        <4> QED BY <1>2, <4>1, <4>2 DEF RestartInv, FileIds
      <3>7. fits(file, line)
        BY <1>2, <1>3, <3>1, <3>5, <3>6, FitsAlso
      <3>8. mem'.queues[r] = newRec(line, mem.queues[r])
        BY <1>2, <1>3, <3>1, StoreTyped DEF Taken
      <3> QED BY <1>1, <1>4, <2>2, <3>1, <3>5, <3>7, <3>8
    <2> QED BY <2>1, <2>2
  <1>15. FileAgrees'
    <2>1. ASSUME NEW s \in RecipientId, s \notin unsure', ~waits(s)'
          PROVE  same(mem', file, s)
      <3>1. s \notin unsure /\ ~waits(s) /\ mem'.queues[s] = mem.queues[s]
        BY <1>6, <1>7, <1>11, <2>1
      <3> QED BY <1>2, <3>1 DEF RestartInv, FileAgrees, sure, same, isLive
    <2>2. \A s \in RecipientId : file.queues[s] # Absent => mem'.queues[s] # Absent
      BY <1>2, EffectFacts DEF RestartInv, FileAgrees
    <2> QED BY <1>2, <2>1, <2>2 DEF FileAgrees, sure, same, isLive
  <1>16. FileIds'
    <2>1. ASSUME NEW x \in Ids, x \notin unsure', \A u \in Thread : onQueue(u)' => x \notin inflight'[u].claims
          PROVE  idsAgree(x)'
      <3>1. \A u \in Thread : onQueue(u) => x \notin inflight[u].claims
        BY <1>2, <1>4, <1>5, <2>1 DEF onQueue
      <3>2. idsAgree(x)
        BY <1>2, <1>6, <2>1, <3>1 DEF RestartInv, FileIds
      <3>3. line.op = "NewService" \/ x \notin job.claims
        BY <1>4, <1>5, <2>1
      <3> QED BY <1>2, <1>12, <3>2, <3>3 DEF idsAgree
    <2>2. ASSUME NEW x \in Ids, x \notin unsure', NEW u \in Thread, onQueue(u)', x \in inflight'[u].claims
          PROVE  /\ idsOwn(x, inflight[u].line.id)'
                 /\ inflight'[u].line.op = "DeleteQueue" /\ x \in LinkId =>
                       file'.links[x] \in {None, mem'.links[x]}
      <3>1. CASE u # t
        <4>1. inflight'[u] = inflight[u] /\ onQueue(u) /\ x \notin unsure
          BY <1>4, <1>5, <1>6, <2>2, <3>1
        <4>2. line.op = "NewService" \/ x \notin job.claims
          BY <1>10, <2>2, <4>1
        <4>3. /\ idsOwn(x, inflight[u].line.id)
              /\ inflight[u].line.op = "DeleteQueue" /\ x \in LinkId => file.links[x] \in {None, mem.links[x]}
          BY <1>2, <2>2, <4>1 DEF RestartInv, FileIds
        <4> QED BY <1>2, <1>12, <4>1, <4>2, <4>3 DEF idsOwn
      <3>2. CASE u = t
        <4>1. line.op # "NewService" /\ x \in job.claims
          BY <1>4, <1>5, <2>2, <3>2
        <4>2. idsAgree(x)
          BY <1>2, <1>6, <1>10, <2>2, <4>1 DEF RestartInv, FileIds
        <4>3. x # r
          BY <1>3, <4>1, KindAssumption DEF Ids
        <4>4. /\ x \in SenderId => mem.senders[x] \in {None, r}
              /\ x \in NotifierId => mem.notifiers[x] \in {None, r}
              /\ x \in LinkId => mem.links[x] \in {None, r}
          <5>1. CASE x \in heldBefore(mem, r)
            BY <1>2, <1>3, <4>1, <5>1, HeldOwn
          <5>2. CASE x \in addedIds(line)
            BY <1>2, <1>3, <4>1, <5>2, AddedFree
          <5>3. CASE x \in heldBefore(mem', r) /\ x \notin heldBefore(mem, r) /\ x \notin addedIds(line)
            <6>1. /\ x \in SenderId => mem'.senders[x] = r
                  /\ x \in NotifierId => mem'.notifiers[x] = r
                  /\ x \in LinkId => mem'.links[x] = r
              BY <1>2, <1>3, <4>1, <5>3, HeldOwn
            <6> QED BY <1>3, <4>1, <5>3, <6>1 DEF Taken, Moved
          <5> QED BY <1>8, <4>1, <4>3, <5>1, <5>2, <5>3
        <4>5. idsOwn(x, r)'
          BY <1>2, <4>2, <4>4 DEF idsAgree, idsOwn
        <4>6. line.op = "DeleteQueue" => mem'.links = mem.links
          BY <1>3, <4>1 DEF Taken
        <4> QED BY <1>1, <1>2, <1>4, <3>2, <4>2, <4>5, <4>6 DEF idsAgree, idsOwn
      <3> QED BY <3>1, <3>2
    <2> QED BY <2>1, <2>2 DEF FileIds, Ids
  <1>17. ToldKept'
    <2> SUFFICES ASSUME NEW s \in RecipientId, isTold(s)', s \notin unsure', ~waits(s)'
                 PROVE  mem'.queues[s] = told'[s]
      BY <1>2 DEF ToldKept, sure, isTold
    <2>1. told'[s] = told[s]
      BY StoreAssumption DEF Accepted, IInv, TypeOK, isTold
    <2>2. s \notin unsure /\ ~waits(s) /\ mem'.queues[s] = mem.queues[s]
      BY <1>6, <1>7, <1>11
    <2> QED BY <1>2, <2>1, <2>2 DEF RestartInv, ToldKept, sure, isTold
  <1>18. Loaded'
    BY <1>2 DEF Loaded
  <1> QED BY <1>13, <1>14, <1>15, <1>16, <1>17, <1>18 DEF RestartInv

-----------------------------------------------------------------------------
(* What writing a pending line, or failing to, does to the file. *)
LEMMA LoggedTaken ==
    ASSUME IInv, ClaimsDisjoint, NEW t \in Thread, WithLog(t) \/ WithLogFails(t)
    PROVE  /\ phase = "running" /\ inflight[t] # None /\ inflight[t].line \in Line
           /\ file # None /\ start = None /\ file \in Store /\ StoreOK(file)
           /\ file' \in Store /\ StoreOK(file') /\ mem \in Store /\ StoreOK(mem)
           /\ inflight' = [inflight EXCEPT ![t] = None]
           /\ UNCHANGED <<mem, start, phase>>
           /\ ~onQueue(t) => Becomes(file', file.queues, file.senders, file.notifiers, file.links)
           /\ onQueue(t) =>
                 /\ inflight[t].line.id \in RecipientId
                 /\ file' = file \/ (fits(file, inflight[t].line) /\ Taken(file, inflight[t].line, file'))
                 /\ WithLog(t) /\ fits(file, inflight[t].line) => Taken(file, inflight[t].line, file')
           /\ unsure \subseteq unsure'
           /\ WithLog(t) => unsure' = unsure
           /\ WithLogFails(t) => unsure' = unsure \cup inflight[t].claims
  <1> DEFINE line == inflight[t].line
  <1>1. /\ phase = "running" /\ inflight[t] # None /\ line \in Line
        /\ file # None /\ start = None /\ file \in Store /\ StoreOK(file)
        /\ file' \in Store /\ StoreOK(file')
        /\ file' \in {file, appended(file, line)}
        /\ inflight' = [inflight EXCEPT ![t] = None]
        /\ UNCHANGED <<mem, start, phase>>
    BY LoggedFacts
  <1>2. mem \in Store /\ StoreOK(mem)
    BY StoresOK DEF IInv, StoreOK
  <1>3. WithLog(t) => file' = appended(file, line) /\ unsure' = unsure
    BY DEF WithLog
  <1>4. WithLogFails(t) => unsure' = unsure \cup inflight[t].claims
    BY DEF WithLogFails
  <1>5. CASE onQueue(t)
    <2>1. line.op # "NewService" /\ line.id \in RecipientId
      BY <1>1, <1>5, LineTyped DEF onQueue
    <2>2. LET f2 == appended(file, line)
          IN  /\ fits(file, line) => Taken(file, line, f2)
              /\ f2 = file \/ (fits(file, line) /\ Taken(file, line, f2))
      BY <1>1, <2>1, AppendedTaken
    <2> QED BY <1>1, <1>2, <1>3, <1>4, <1>5, <2>1, <2>2
  <1>6. CASE ~onQueue(t)
    <2>1. line.op = "NewService"
      BY <1>1, <1>6 DEF onQueue
    <2>2. Becomes(appended(file, line), file.queues, file.senders, file.notifiers, file.links)
      BY <1>1, <2>1, ServiceMovesNothing
    <2>3. Becomes(file', file.queues, file.senders, file.notifiers, file.links)
      BY <1>1, <2>2 DEF Becomes
    <2> QED BY <1>1, <1>2, <1>3, <1>4, <1>6, <2>3
  <1> QED BY <1>5, <1>6

(* A pending line that is written keeps ClaimsDisjoint, and so does one    *)
(* that fails: what it claims is in doubt.                                 *)
LEMMA LoggedClaims ==
    ASSUME IInv, ClaimsDisjoint, NEW t \in Thread, WithLog(t) \/ WithLogFails(t)
    PROVE  ClaimsDisjoint'
  <1>1. /\ inflight[t] # None /\ inflight' = [inflight EXCEPT ![t] = None]
        /\ unsure \subseteq unsure'
        /\ WithLog(t) => unsure' = unsure
        /\ WithLogFails(t) => unsure' = unsure \cup inflight[t].claims
    BY LoggedTaken
  <1>2. \A u \in Thread : /\ inflight'[u] # None => u # t /\ inflight'[u] = inflight[u]
                          /\ onQueue(u)' => u # t /\ inflight'[u] = inflight[u] /\ onQueue(u)
    BY <1>1 DEF IInv, TypeOK, onQueue
  <1>3. ASSUME NEW u \in Thread, u # t, onQueue(u), NEW x, x \in inflight[u].claims, x \in unsure'
        PROVE  inflight[u].claims \subseteq unsure'
    <2>1. CASE x \in unsure
      BY <1>1, <1>3, <2>1 DEF ClaimsDisjoint
    <2>2. CASE x \notin unsure
      <3>1. x \in inflight[t].claims
        BY <1>1, <1>3, <2>2
      <3>2. x \notin ServiceId
        BY <1>3 DEF ClaimsDisjoint, onQueue
      <3>3. onQueue(t)
        BY <1>1, <3>1, <3>2 DEF ClaimsDisjoint
      <3> QED BY <1>1, <1>3, <3>1, <3>3 DEF ClaimsDisjoint
    <2> QED BY <2>1, <2>2
  <1> SUFFICES ASSUME NEW u \in Thread, NEW v \in Thread
               PROVE  /\ inflight'[u] # None =>
                            IF onQueue(u)' THEN inflight'[u].claims \cap ServiceId = {}
                            ELSE inflight'[u].claims \subseteq ServiceId
                      /\ onQueue(u)' =>
                            /\ inflight'[u].line.id \in inflight'[u].claims
                            /\ addedIds(inflight'[u].line) \subseteq inflight'[u].claims
                            /\ inflight'[u].claims \cap unsure' # {} => inflight'[u].claims \subseteq unsure'
                      /\ u # v /\ onQueue(u)' /\ onQueue(v)'
                               /\ inflight'[u].claims \cap inflight'[v].claims # {} =>
                            inflight'[u].claims \subseteq unsure'
    BY DEF ClaimsDisjoint
  <1>4. inflight'[u] # None => inflight'[u] = inflight[u] /\ (onQueue(u) <=> onQueue(u)')
    BY <1>2 DEF onQueue
  <1>5. /\ inflight[u] # None =>
              IF onQueue(u) THEN inflight[u].claims \cap ServiceId = {}
              ELSE inflight[u].claims \subseteq ServiceId
        /\ onQueue(u) => /\ inflight[u].line.id \in inflight[u].claims
                         /\ addedIds(inflight[u].line) \subseteq inflight[u].claims
        /\ u # v /\ onQueue(u) /\ onQueue(v) /\ inflight[u].claims \cap inflight[v].claims # {} =>
              inflight[u].claims \subseteq unsure
    BY DEF ClaimsDisjoint
  <1>6. onQueue(u)' => (inflight'[u].claims \cap unsure' # {} => inflight'[u].claims \subseteq unsure')
    BY <1>2, <1>3
  <1> QED BY <1>1, <1>2, <1>4, <1>5, <1>6

(* A pending line, and the rest of the invariant. *)
LEMMA LoggedRestart ==
    ASSUME IInv, DelInv, RestartInv, NEW t \in Thread, WithLog(t) \/ WithLogFails(t)
    PROVE  RestartInv'
  <1> DEFINE line == inflight[t].line
             r == line.id
             claims == inflight[t].claims
  <1>1. /\ phase = "running" /\ inflight[t] # None /\ line \in Line
        /\ file # None /\ start = None /\ file \in Store /\ StoreOK(file)
        /\ file' \in Store /\ StoreOK(file') /\ mem \in Store /\ StoreOK(mem)
        /\ inflight' = [inflight EXCEPT ![t] = None]
        /\ UNCHANGED <<mem, start, phase>>
        /\ ~onQueue(t) => Becomes(file', file.queues, file.senders, file.notifiers, file.links)
        /\ onQueue(t) =>
              /\ r \in RecipientId
              /\ file' = file \/ (fits(file, line) /\ Taken(file, line, file'))
              /\ WithLog(t) /\ fits(file, line) => Taken(file, line, file')
        /\ unsure \subseteq unsure'
        /\ WithLog(t) => unsure' = unsure
        /\ WithLogFails(t) => unsure' = unsure \cup claims
    BY LoggedTaken DEF RestartInv
  <1>2. ClaimsDisjoint'
    BY LoggedClaims DEF RestartInv
  <1>3. /\ \A u \in Thread : onQueue(u)' <=> u # t /\ onQueue(u)
        /\ \A u \in Thread, s \in RecipientId : pending(u, s)' <=> u # t /\ pending(u, s)
        /\ \A u \in Thread \ {t} : inflight'[u] = inflight[u]
    BY <1>1 DEF onQueue, pending, IInv, TypeOK
  <1>4. \A u \in Thread, s \in RecipientId : pending(u, s) =>
           onQueue(u) /\ inflight[u].line.id = s /\ s \in inflight[u].claims
    BY DEF pending, onQueue, RestartInv, ClaimsDisjoint
  <1>5. onQueue(t) => /\ r \in claims /\ addedIds(line) \subseteq claims /\ pending(t, r)
                      /\ line.op # "NewService"
                      /\ claims \cap unsure # {} => claims \subseteq unsure
    BY DEF onQueue, pending, RestartInv, ClaimsDisjoint
  (* Who claims something that t claims, is in doubt. *)
  <1>6. ASSUME NEW u \in Thread, u # t, onQueue(u), NEW x \in inflight[u].claims, x \notin unsure, onQueue(t)
        PROVE  inflight[u].claims \cap claims = {}
    BY <1>6 DEF RestartInv, ClaimsDisjoint
  <1>7. \A s \in RecipientId : ~onQueue(t) \/ s # r => file'.queues[s] = file.queues[s]
    BY <1>1, StoreTyped DEF Becomes, Taken
  (* An id that the line does not give leads where it led, or nowhere. *)
  <1>8. ASSUME NEW x, ~onQueue(t) \/ x \notin addedIds(line)
        PROVE  /\ x \in SenderId => file'.senders[x] \in {None, file.senders[x]}
               /\ x \in NotifierId => file'.notifiers[x] \in {None, file.notifiers[x]}
               /\ x \in LinkId => file'.links[x] \in {None, file.links[x]}
    <2>1. CASE ~onQueue(t)
      BY <1>1, <2>1 DEF Becomes
    <2>2. CASE onQueue(t)
      BY <1>1, <1>8, <2>2 DEF Taken, Moved
    <2> QED BY <2>1, <2>2
  (* The record that the line leaves in the file, unless it is in doubt. *)
  <1>9. ASSUME onQueue(t), WithLog(t), r \notin unsure
        PROVE  /\ line.op # "DeleteQueue" =>
                     file'.queues[r] = mem.queues[r] /\ isLive(file', r) /\ isLive(mem, r)
               /\ line.op = "DeleteQueue" =>
                     ~isLive(file', r) /\ ~isLive(mem, r) /\ file'.links = file.links
    <2>1. CASE line.op # "DeleteQueue"
      <3>1. fits(file, line) /\ newRec(line, file.queues[r]) = mem.queues[r]
        BY <1>1, <1>5, <1>9, <2>1 DEF RestartInv, PendingFits, sure
      <3>2. Taken(file, line, file')
        BY <1>1, <1>9, <3>1
      <3>3. file'.queues[r] = mem.queues[r] /\ mem.queues[r] \in QueueRec
        BY <1>1, <1>9, <2>1, <3>1, <3>2, StoreTyped DEF Taken
      <3> QED BY <2>1, <3>3, RecTyped DEF isLive
    <2>2. CASE line.op = "DeleteQueue"
      <3>1. mem.queues[r] = Deleted
        BY <1>1, <1>5, <1>9, <2>2 DEF DelInv, DeletedInMemory
      <3>2. isLive(file, r) => fits(file, line)
        BY <2>2 DEF fits
      <3>3. Taken(file, line, file') => file'.queues[r] = Deleted /\ file'.links = file.links
        BY <1>1, <1>9, <2>2, StoreTyped DEF Taken
      <3> QED BY <1>1, <1>9, <2>2, <3>1, <3>2, <3>3 DEF isLive
    <2> QED BY <2>1, <2>2
  <1>10. PendingFits'
    <2> SUFFICES ASSUME NEW u \in Thread, NEW s \in RecipientId,
                        pending(u, s)', s \notin unsure', inflight'[u].line.op # "DeleteQueue"
                 PROVE  /\ fits(file', inflight'[u].line)
                        /\ newRec(inflight'[u].line, file'.queues[s]) = mem'.queues[s]
      BY DEF PendingFits, sure
    <2>1. /\ u # t /\ inflight'[u] = inflight[u] /\ pending(u, s) /\ s \notin unsure
          /\ onQueue(u) /\ inflight[u].line.id = s /\ s \in inflight[u].claims
          /\ inflight[u].line \in Line /\ inflight[u].line.op # "NewService"
      <3>1. u # t /\ inflight'[u] = inflight[u] /\ pending(u, s) /\ s \notin unsure
        BY <1>1, <1>3
      <3>2. inflight[u].line \in Line /\ inflight[u].line.op # "NewService"
        BY <3>1 DEF pending, IInv, TypeOK, Maybe, Job
      <3> QED BY <1>4, <3>1, <3>2
    <2>2. fits(file, inflight[u].line) /\ newRec(inflight[u].line, file.queues[s]) = mem.queues[s]
      BY <1>3, <2>1 DEF RestartInv, PendingFits, sure
    <2>3. onQueue(t) => inflight[u].claims \cap claims = {}
      BY <1>6, <2>1
    <2>4. file'.queues[s] = file.queues[s]
      BY <1>5, <1>7, <2>1, <2>3
    <2>5. \A x \in addedIds(inflight[u].line) : ~onQueue(t) \/ x \notin addedIds(line)
      BY <1>5, <2>1, <2>3 DEF RestartInv, ClaimsDisjoint
    <2>6. fits(file', inflight[u].line)
      BY <1>1, <1>8, <2>1, <2>2, <2>4, <2>5, FitsAlso
    <2> QED BY <1>1, <2>1, <2>2, <2>4, <2>6
  <1>11. FileAgrees'
    <2>1. ASSUME NEW s \in RecipientId, s \notin unsure', ~waits(s)'
          PROVE  same(mem, file', s)
      <3>1. CASE onQueue(t) /\ s = r
        <4>1. WithLog(t)
          BY <1>1, <1>5, <2>1, <3>1
        <4> QED BY <1>1, <1>9, <2>1, <3>1, <4>1 DEF same
      <3>2. CASE ~(onQueue(t) /\ s = r)
        <4>1. s \notin unsure /\ ~waits(s)
          BY <1>1, <1>3, <1>4, <2>1, <3>2 DEF waits
        <4> QED BY <1>1, <1>7, <3>2, <4>1 DEF RestartInv, FileAgrees, sure, same, isLive
      <3> QED BY <3>1, <3>2
    <2>2. ASSUME NEW s \in RecipientId, file'.queues[s] # Absent
          PROVE  mem.queues[s] # Absent
      <3>1. CASE onQueue(t) /\ s = r
        BY <1>5, <3>1 DEF IInv, PendingKnown
      <3>2. CASE ~(onQueue(t) /\ s = r)
        BY <1>1, <1>7, <2>2, <3>2 DEF RestartInv, FileAgrees
      <3> QED BY <3>1, <3>2
    <2> QED BY <1>1, <2>1, <2>2 DEF FileAgrees, sure, same, isLive
  <1>12. FileIds'
    <2>1. ASSUME NEW x \in Ids, x \notin unsure', \A u \in Thread : onQueue(u)' => x \notin inflight'[u].claims
          PROVE  idsAgree(x)'
      <3>1. x \notin unsure /\ \A u \in Thread \ {t} : onQueue(u) => x \notin inflight[u].claims
        BY <1>1, <1>3, <2>1
      <3>2. CASE ~onQueue(t) \/ x \notin claims
        <4>1. \A u \in Thread : onQueue(u) => x \notin inflight[u].claims
          BY <3>1, <3>2
        <4>2. idsAgree(x)
          BY <1>1, <2>1, <3>1, <4>1 DEF RestartInv, FileIds
        <4> QED BY <1>1, <1>5, <1>8, <3>2, <4>2 DEF idsAgree
      <3>3. CASE onQueue(t) /\ x \in claims
        <4>1. WithLog(t) /\ r \notin unsure
          BY <1>1, <1>5, <2>1, <3>1, <3>3
        <4>2. /\ idsOwn(x, r)
              /\ line.op = "DeleteQueue" /\ x \in LinkId => file.links[x] \in {None, mem.links[x]}
          BY <1>1, <2>1, <3>1, <3>3 DEF RestartInv, FileIds
        <4>3. /\ x \in SenderId => file'.senders[x] \in {None, r}
              /\ x \in NotifierId => file'.notifiers[x] \in {None, r}
              /\ x \in LinkId => file'.links[x] \in {None, r}
          BY <1>1, <3>3, <4>2 DEF idsOwn, Taken, Moved
        <4>4. CASE line.op # "DeleteQueue"
          <5>1. isLive(file', r) /\ isLive(mem, r) /\ mem.queues[r] = file'.queues[r]
            BY <1>9, <3>3, <4>1, <4>4
          <5>2. /\ \A y \in SenderId : file'.senders[y] = r => mem.senders[y] = r
                /\ \A y \in NotifierId : file'.notifiers[y] = r => mem.notifiers[y] = r
                /\ \A y \in LinkId : file'.links[y] = r => mem.links[y] = r
            BY <1>1, <3>3, <5>1, SameRecSameIds
          <5> QED BY <1>1, <4>3, <5>2 DEF idsOwn, idsAgree
        <4>5. CASE line.op = "DeleteQueue"
          <5>1. ~isLive(file', r) /\ file'.links = file.links
            BY <1>9, <3>3, <4>1, <4>5
          <5>2. /\ x \in SenderId => file'.senders[x] # r
                /\ x \in NotifierId => file'.notifiers[x] # r
            BY <1>1, <3>3, <5>1 DEF StoreOK, Indexed
          <5> QED BY <1>1, <4>2, <4>3, <4>5, <5>1, <5>2 DEF idsOwn, idsAgree
        <4> QED BY <4>4, <4>5
      <3> QED BY <3>2, <3>3
    <2>2. ASSUME NEW x \in Ids, x \notin unsure', NEW u \in Thread, onQueue(u)', x \in inflight'[u].claims
          PROVE  /\ idsOwn(x, inflight[u].line.id)'
                 /\ inflight'[u].line.op = "DeleteQueue" /\ x \in LinkId =>
                       file'.links[x] \in {None, mem'.links[x]}
      <3>1. u # t /\ inflight'[u] = inflight[u] /\ onQueue(u) /\ x \notin unsure
        BY <1>1, <1>3, <2>2
      <3>2. ~onQueue(t) \/ x \notin addedIds(line)
        BY <1>5, <1>6, <2>2, <3>1
      <3>3. /\ idsOwn(x, inflight[u].line.id)
            /\ inflight[u].line.op = "DeleteQueue" /\ x \in LinkId => file.links[x] \in {None, mem.links[x]}
        BY <1>1, <2>2, <3>1 DEF RestartInv, FileIds
      <3> QED BY <1>1, <1>8, <3>1, <3>2, <3>3 DEF idsOwn
    <2> QED BY <2>1, <2>2 DEF FileIds, Ids
  <1>13. ToldKept'
    <2> SUFFICES ASSUME NEW s \in RecipientId, isTold(s)', s \notin unsure', ~waits(s)'
                 PROVE  mem.queues[s] = told'[s]
      BY <1>1 DEF ToldKept, sure, isTold
    <2>1. CASE onQueue(t) /\ s = r
      <3>1. WithLog(t) /\ s \notin unsure
        BY <1>1, <1>5, <2>1
      <3>2. told' = IF line.op = "DeleteQueue" THEN [told EXCEPT ![r] = Deleted]
                    ELSE IF isLive(mem, r) /\ told[r] # Deleted THEN [told EXCEPT ![r] = mem.queues[r]]
                    ELSE told
        BY <1>5, <2>1, <3>1 DEF WithLog, answered
      <3>3. line.op # "DeleteQueue"
        BY <2>1, <3>2 DEF isTold, IInv, TypeOK
      <3>4. isLive(mem, r)
        BY <1>9, <2>1, <3>1, <3>3
      <3> QED BY <2>1, <3>2, <3>3, <3>4 DEF isTold, IInv, TypeOK
    <2>2. CASE ~(onQueue(t) /\ s = r)
      <3>1. s \notin unsure /\ ~waits(s)
        BY <1>1, <1>3, <1>4, <2>2 DEF waits
      <3>2. told'[s] = told[s]
        BY <1>1, <2>2 DEF WithLog, WithLogFails, answered, onQueue, IInv, TypeOK
      <3> QED BY <1>1, <3>1, <3>2 DEF RestartInv, ToldKept, sure, isTold
    <2> QED BY <2>1, <2>2
  <1>14. Loaded'
    BY <1>1 DEF Loaded
  <1> QED BY <1>2, <1>10, <1>11, <1>12, <1>13, <1>14 DEF RestartInv

-----------------------------------------------------------------------------
(* Nothing of the invariant is about operations when none is pending. *)
LEMMA QuietRestart ==
    ASSUME IInv, Startup \/ Crash
    PROVE  ClaimsDisjoint' /\ PendingFits' /\ (\A r \in RecipientId : ~waits(r)')
  <1>1. /\ \A t \in Thread : inflight'[t] = None
        /\ \A t \in Thread, r \in RecipientId : ~pending(t, r)'
    BY StartupQuiet
  <1> QED BY <1>1 DEF ClaimsDisjoint, PendingFits, onQueue, waits

(* A store without queues. *)
LEMMA NewStoreEmpty ==
    /\ newQueueStore \in Store
    /\ \A r \in RecipientId : newQueueStore.queues[r] = Absent
    /\ \A x \in SenderId : newQueueStore.senders[x] = None
    /\ \A x \in NotifierId : newQueueStore.notifiers[x] = None
    /\ \A x \in LinkId : newQueueStore.links[x] = None
  BY NewStoreOK DEF newQueueStore, StoreOK

(* A crash keeps the files, and with them what clients were told; the      *)
(* queues of the operations that it cut are in doubt.                      *)
LEMMA CrashRestart ==
    ASSUME IInv, RestartInv, Crash
    PROVE  RestartInv'
  <1>1. /\ phase # "down" /\ phase' = "down" /\ mem' = newQueueStore
        /\ unsure' = unsure \cup {inflight[t].line.id : t \in {u \in Thread : inflight[u] # None}}
        /\ UNCHANGED <<file, start, told>>
    BY DEF Crash
  <1>2. ClaimsDisjoint' /\ PendingFits'
    BY QuietRestart
  <1>3. ToldKept'
    <2> SUFFICES ASSUME NEW r \in RecipientId, isTold(r), r \notin unsure'
                 PROVE  LET kept == IF start # None THEN start ELSE file
                        IN  kept # None /\ kept.queues[r] = told[r]
      BY <1>1 DEF ToldKept, effective, isTold, sure
    <2>1. r \notin unsure /\ ~waits(r)
      BY <1>1 DEF waits, pending
    <2>2. CASE phase = "running"
      <3>1. start = None /\ file # None
        BY <2>2 DEF IInv, Phases
      <3>2. mem.queues[r] = told[r]
        BY <2>1, <2>2 DEF RestartInv, ToldKept, sure
      <3>3. isLive(mem, r)
        BY <3>2 DEF isLive, isTold
      <3>4. file.queues[r] = told[r]
        BY <2>1, <2>2, <3>2, <3>3 DEF RestartInv, FileAgrees, same, sure
      <3> QED BY <3>1, <3>4
    <2>3. CASE phase # "running"
      <3>1. phase = "compact" \/ start = None
        BY <1>1, <2>3 DEF IInv, Phases, TypeOK, Phase
      <3>2. phase = "compact" => start # None
        BY DEF IInv, Phases
      <3> QED BY <1>1, <2>1, <2>3, <3>1, <3>2 DEF RestartInv, ToldKept, effective, sure
    <2> QED BY <2>2, <2>3
  <1>4. FileAgrees' /\ FileIds' /\ Loaded'
    BY <1>1 DEF FileAgrees, FileIds, Loaded
  <1> QED BY <1>2, <1>3, <1>4 DEF RestartInv

(* The log is created when there is none: nobody was told of any queue. *)
LEMMA CreateLogRestart ==
    ASSUME IInv, RestartInv, CreateLog
    PROVE  RestartInv'
  <1>1. /\ phase = "down" /\ start = None /\ file = None
        /\ file' = newQueueStore /\ phase' = "running"
        /\ UNCHANGED <<mem, start, told, unsure>>
    BY DEF CreateLog, history
  <1>2. mem = newQueueStore
    BY <1>1 DEF RestartInv, Loaded
  <1>3. ClaimsDisjoint' /\ PendingFits'
    BY QuietRestart DEF Startup
  <1>4. FileAgrees'
    BY <1>1, <1>2, NewStoreEmpty DEF FileAgrees, same, isLive
  <1>5. FileIds'
    <2>1. \A x : idsAgree(x)' /\ \A r : idsOwn(x, r)'
      BY <1>1, NewStoreEmpty DEF idsAgree, idsOwn
    <2>2. \A t \in Thread : ~onQueue(t)'
      BY StartupQuiet DEF Startup, onQueue
    <2> QED BY <2>1, <2>2 DEF FileIds
  <1>6. ToldKept'
    BY <1>1 DEF RestartInv, ToldKept, effective, isTold, sure
  <1>7. Loaded'
    BY <1>1 DEF Loaded
  <1> QED BY <1>3, <1>4, <1>5, <1>6, <1>7 DEF RestartInv

(* The steps of the start before the compaction ends keep the store from   *)
(* which the server would start again.                                     *)
LEMMA StartRestart ==
    ASSUME IInv, RestartInv,
           PreserveIncomplete \/ UseTempBackup \/ ReadStore \/ MakeTempBackup \/ OpenLog
               \/ WriteService \/ WriteQueue
    PROVE  RestartInv'
  <1>1. ClaimsDisjoint' /\ PendingFits'
    BY QuietRestart DEF Startup
  <1>2. phase # "running" /\ phase' # "running" /\ UNCHANGED <<told, unsure>>
    BY DEF PreserveIncomplete, UseTempBackup, ReadStore, MakeTempBackup, OpenLog, WriteService,
           WriteQueue, history
  <1>3. FileAgrees' /\ FileIds'
    BY <1>2 DEF FileAgrees, FileIds
  <1>4. effective' = effective
    <2>1. phase \in {"read", "loaded"} => start = None
      BY DEF IInv, Phases
    <2> QED BY <2>1 DEF effective, PreserveIncomplete, UseTempBackup, ReadStore, MakeTempBackup, OpenLog,
                        WriteService, WriteQueue
  <1>5. ToldKept'
    BY <1>2, <1>4 DEF RestartInv, ToldKept, isTold, sure
  <1>6. Loaded'
    <2>1. CASE PreserveIncomplete
      BY <2>1 DEF PreserveIncomplete, RestartInv, Loaded
    <2>2. CASE UseTempBackup
      BY <2>2 DEF UseTempBackup, Loaded
    <2>3. CASE ReadStore
      BY <2>3 DEF ReadStore, Loaded
    <2>4. CASE MakeTempBackup
      BY <2>4 DEF MakeTempBackup, RestartInv, Loaded
    <2>5. CASE OpenLog
      BY <2>5, NewStoreEmpty, StoreAssumption DEF OpenLog, RestartInv, Loaded
    <2>6. CASE WriteService \/ WriteQueue
      <3>1. PICK line \in Line :
               /\ file' \in Store
               /\ file' = file \/ Effect(file, line, file')
               /\ line.op \in {"NewService", "CreateQueue"}
        BY <2>6, WriteFacts
      <3>2. /\ phase = "compact" /\ file # None /\ file \in Store
            /\ UNCHANGED <<mem, start, phase>>
        BY <2>6, WriteFacts
      <3>3. \A r \in RecipientId : file'.queues[r] = Deleted => file.queues[r] = Deleted
        BY <3>1, <3>2, EffectFacts DEF isLive
      <3> QED BY <3>2, <3>3 DEF RestartInv, Loaded
    <2> QED BY <2>1, <2>2, <2>3, <2>4, <2>5, <2>6
  <1> QED BY <1>1, <1>3, <1>5, <1>6 DEF RestartInv

(* When the compaction ends, the new file has what memory has. *)
LEMMA RenameRestart ==
    ASSUME IInv, RestartInv, RenameBackup
    PROVE  RestartInv'
  <1>1. /\ phase = "compact" /\ file # None /\ servicesLeft = {} /\ queuesLeft = {}
        /\ phase' = "running" /\ unsure' = unsure \cap ServiceId
        /\ told' = [r \in RecipientId |->
                       IF r \in unsure /\ told[r] # Deleted
                       THEN IF isLive(mem, r) THEN mem.queues[r] ELSE Absent
                       ELSE told[r]]
        /\ UNCHANGED <<mem, file>>
    BY DEF RenameBackup
  <1>2. mem = start /\ \A r \in RecipientId : file.queues[r] # Deleted
    BY <1>1 DEF RestartInv, Loaded
  <1>3. StoreOK(mem) /\ StoreOK(file)
    BY <1>1, StoresOK DEF IInv
  <1>4. ClaimsDisjoint' /\ PendingFits'
    BY QuietRestart DEF Startup
  <1>5. \A r \in RecipientId : /\ isLive(mem, r) <=> isLive(file, r)
                               /\ isLive(file, r) => file.queues[r] = mem.queues[r]
    <2> SUFFICES ASSUME NEW r \in RecipientId
                 PROVE  /\ isLive(mem, r) <=> isLive(file, r)
                        /\ isLive(file, r) => file.queues[r] = mem.queues[r]
      OBVIOUS
    <2>1. isLive(mem, r) => isLive(file, r)
      BY <1>1 DEF queuesLeft
    <2>2. isLive(file, r) => file.queues[r] = mem.queues[r]
      BY <1>1 DEF IInv, FileKnown
    <2> QED BY <2>1, <2>2 DEF isLive
  <1>6. FileAgrees'
    BY <1>1, <1>2, <1>5 DEF FileAgrees, same, isLive
  <1>7. FileIds'
    <2>1. \A r \in RecipientId :
             /\ \A x \in SenderId : file.senders[x] = r => mem.senders[x] = r
             /\ \A x \in NotifierId : file.notifiers[x] = r => mem.notifiers[x] = r
             /\ isLive(file, r) => \A x \in LinkId : file.links[x] = r => mem.links[x] = r
      BY <1>3, <1>5, SameRecSameIds
    <2>2. \A r \in RecipientId, x \in LinkId : file.links[x] = r => isLive(file, r)
      BY <1>2, <1>3 DEF StoreOK, LinksKnown, isLive
    <2>3. \A x : idsAgree(x)'
      BY <1>1, <1>3, <2>1, <2>2, StoreTyped DEF idsAgree, StoreOK, Maybe
    <2>4. \A t \in Thread : ~onQueue(t)'
      BY StartupQuiet DEF Startup, onQueue
    <2> QED BY <2>3, <2>4 DEF FileIds
  <1>8. ToldKept'
    <2> SUFFICES ASSUME NEW r \in RecipientId, isTold(r)'
                 PROVE  mem.queues[r] = told'[r]
      BY <1>1 DEF ToldKept
    <2>1. CASE r \in unsure
      BY <1>1, <2>1 DEF isTold
    <2>2. CASE r \notin unsure
      BY <1>1, <1>2, <2>2 DEF isTold, sure, effective, RestartInv, ToldKept
    <2> QED BY <2>1, <2>2
  <1>9. Loaded'
    BY <1>1 DEF Loaded
  <1> QED BY <1>4, <1>6, <1>7, <1>8, <1>9 DEF RestartInv

(* RestartInv holds when the server starts without files. *)
LEMMA InitRestart == Init => RestartInv
  <1> SUFFICES ASSUME Init PROVE RestartInv
    OBVIOUS
  <1>1. ClaimsDisjoint /\ PendingFits
    BY DEF Init, ClaimsDisjoint, PendingFits, onQueue, pending
  <1>2. FileAgrees /\ FileIds /\ Loaded
    BY DEF Init, FileAgrees, FileIds, Loaded
  <1>3. ToldKept
    BY DEF Init, ToldKept, isTold
  <1> QED BY <1>1, <1>2, <1>3 DEF RestartInv

(* Every step keeps RestartInv. *)
LEMMA NextRestart == IInv /\ DelInv /\ RestartInv /\ [Next]_vars => RestartInv'
  <1> SUFFICES ASSUME IInv, DelInv, RestartInv, [Next]_vars PROVE RestartInv'
    OBVIOUS
  <1>1. ASSUME NEW t \in Thread, Operation(t) PROVE RestartInv'
    BY <1>1, OperationAccepted, AcceptedRestart DEF IInv
  <1>2. ASSUME NEW t \in Thread, WithLog(t) \/ WithLogFails(t) PROVE RestartInv'
    BY <1>2, LoggedRestart
  <1>3. CASE Crash
    BY <1>3, CrashRestart
  <1>4. CASE Startup
    BY <1>4, CreateLogRestart, StartRestart, RenameRestart DEF Startup
  <1>5. CASE UNCHANGED vars
    <2>1. UNCHANGED <<mem, file, start, phase, inflight, told, unsure>>
      BY <1>5 DEF vars
    <2> USE DEF pending, onQueue, waits, sure
    <2>2. ClaimsDisjoint' /\ PendingFits'
      BY <2>1 DEF RestartInv, ClaimsDisjoint, PendingFits
    <2>3. FileAgrees' /\ FileIds' /\ ToldKept' /\ Loaded'
      BY <2>1 DEF RestartInv, FileAgrees, FileIds, ToldKept, Loaded, idsAgree, idsOwn, same, isLive,
                  isTold, effective
    <2> QED BY <2>2, <2>3 DEF RestartInv
  <1> QED BY <1>1, <1>2, <1>3, <1>4, <1>5 DEF Next, Wait

(* For all ids, records and threads: what the client of a queue was told   *)
(* about it (the answer to its last command) is how the queue is, after    *)
(* any number of crashes, of crashes during the start, and of failures of  *)
(* others, unless an operation on the queue failed or overlapped with one  *)
(* that names an id it names (RestartKeeps).                               *)
THEOREM RestartIsKept == Spec => []RestartKeeps
  <1>1. RestartInv => RestartKeeps
    BY DEF RestartInv, ToldKept, RestartKeeps, quiet, waits, pending, isTold, sure
  <1>2. Spec => [](IInv /\ DelInv)
    BY InitDelInv, NextDelInv, StoreInvariant, PTL DEF Spec
  <1>3. Spec => []RestartInv
    BY <1>2, InitRestart, NextRestart, PTL DEF Spec
  <1> QED BY <1>1, <1>3, PTL

-----------------------------------------------------------------------------
(* Services *)

(* The queues and the notifiers that refer to a service. *)
rcvRefs(st, s) == {r \in RecipientId : isLive(st, r) /\ st.queues[r].rcvServiceId = s}

ntfRefs(st, s) ==
    {n \in NotifierId : st.notifiers[n] # None
                        /\ st.queues[st.notifiers[n]].notifier.ntfServiceId = s}

(* What a store has of a service, for its subscribers to messages or to    *)
(* notifications: nothing refers to a service that is not there.           *)
Counts(st, kind, s, refs) ==
    IF st.services[s] = None THEN refs = {}
    ELSE st.services[s][kind].ids = refs /\ st.services[s][kind].hash = refs

Good(st, s) == Counts(st, "rcv", s, rcvRefs(st, s)) /\ Counts(st, "ntf", s, ntfRefs(st, s))

(* Services and certificates are one to one. *)
CertsOK(st) ==
    /\ \A c \in Cert : st.serviceCerts[c] # None =>
          st.services[st.serviceCerts[c]] # None /\ st.services[st.serviceCerts[c]].cert = c
    /\ \A s \in ServiceId : st.services[s] # None => st.serviceCerts[st.services[s].cert] = s

(* The services that the queue of a line joins. *)
joined(line) ==
    IF line.op = "CreateQueue" THEN usedServices(line.arg)
    ELSE IF line.op \in {"RcvService", "NtfService"} THEN {line.arg} \ {None}
    ELSE {}

(* The line of a server never gives a service to a new notifier. *)
Plain(line) == line.op = "AddNotifier" => line.arg.ntfServiceId = None

creates(t) == inflight[t] # None /\ inflight[t].line.op = "NewService"

-----------------------------------------------------------------------------
(* Every store counts every service that is not in doubt. *)
AllGood == \A st \in stores : CertsOK(st) /\ \A s \in ServiceId : s \notin unsure => Good(st, s)

(* The services that a pending line joins are in the file. *)
JoinedKnown ==
    \A t \in Thread : onQueue(t) =>
        /\ Plain(inflight[t].line)
        /\ \A s \in joined(inflight[t].line) : s \notin unsure => file.services[s] # None

(* Memory knows the services of the file. *)
FileServices ==
    phase \in {"running", "compact"} /\ file # None =>
        /\ \A s \in ServiceId : file.services[s] # None => mem.services[s] # None
        /\ \A c \in Cert : file.serviceCerts[c] # None => mem.serviceCerts[c] # None

(* A service is in the file, or on its way, or in doubt. *)
ServicesOnTheWay ==
    phase = "running" =>
        \A s \in ServiceId : mem.services[s] # None /\ s \notin unsure =>
            \/ file.services[s] # None
            \/ \E t \in Thread : creates(t) /\ inflight[t].line.id = s

(* A service that is being created is in memory and not yet in the file,   *)
(* with an id and a certificate of its own.                                *)
CreatedOnce ==
    \A t \in Thread : creates(t) =>
        LET line == inflight[t].line
        IN  /\ mem.services[line.id] # None /\ file.services[line.id] = None
            /\ mem.serviceCerts[line.arg.cert] # None /\ file.serviceCerts[line.arg.cert] = None
            /\ inflight[t].claims = {line.id}
            /\ \A u \in Thread : creates(u) /\ u # t =>
                  inflight[u].line.id # line.id /\ inflight[u].line.arg.cert # line.arg.cert

ServiceInv == AllGood /\ JoinedKnown /\ FileServices /\ ServicesOnTheWay /\ CreatedOnce

-----------------------------------------------------------------------------
(* What the map of services has after a queue or a notifier left a service,*)
(* or joined one.                                                          *)
LEMMA RemoveServiceEffect ==
    ASSUME NEW st \in Store, NEW kind \in {"rcv", "ntf"}, NEW from \in Maybe(ServiceId), NEW id,
           id \in IF kind = "rcv" THEN RecipientId ELSE NotifierId,
           NEW st2, st2 = removeServiceQueue(st, kind, id, from)
    PROVE  /\ st2 \in Store /\ st2.serviceCerts = st.serviceCerts
           /\ \A s \in ServiceId :
                 /\ st2.services[s] = None <=> st.services[s] = None
                 /\ st.services[s] # None =>
                       /\ st2.services[s].cert = st.services[s].cert
                       /\ \A k \in {"rcv", "ntf"} : st2.services[s][k] =
                             IF s = from /\ k = kind
                             THEN [ids |-> st.services[s][k].ids \ {id}, hash |-> toggle(st.services[s][k].hash, id)]
                             ELSE st.services[s][k]
  <1>1. st2 \in Store /\ st2.serviceCerts = st.serviceCerts
    BY RemoveServiceFrame
  <1>2. CASE from = None \/ st.services[from] = None
    BY <1>1, <1>2, StoreAssumption DEF removeServiceQueue
  <1>3. CASE ~(from = None \/ st.services[from] = None)
    <2> DEFINE old == st.services[from]
               left == [ids |-> old[kind].ids \ {id}, hash |-> toggle(old[kind].hash, id)]
               new == [old EXCEPT ![kind] = left]
    <2>1. from \in ServiceId /\ old \in Service /\ st.services \in [ServiceId -> Maybe(Service)]
      BY <1>3, StoreTyped DEF Maybe
    <2>2. st2 = [st EXCEPT !.services[from] = new]
      BY <1>3 DEF removeServiceQueue
    <2>3. /\ new.cert = old.cert /\ new[kind] = left
          /\ \A k \in {"rcv", "ntf"} \ {kind} : new[k] = old[k]
      BY <2>1 DEF Service
    <2>4. new \in Service
      BY <2>1 DEF Service, IdsHash, toggle
    <2>5. new # None
      BY <2>4, SentinelAssumption
    <2> HIDE DEF new
    <2>6. st2.services = [st.services EXCEPT ![from] = new]
      BY <2>2, StoreTyped
    <2> QED BY <1>1, <1>3, <2>1, <2>3, <2>5, <2>6
  <1> QED BY <1>2, <1>3

(* addServiceQueue adds the id to the set and the hash of its kind, and    *)
(* changes nothing else of any service.                                    *)
LEMMA AddServiceEffect ==
    ASSUME NEW st \in Store, NEW kind \in {"rcv", "ntf"}, NEW to \in Maybe(ServiceId), NEW id,
           id \in IF kind = "rcv" THEN RecipientId ELSE NotifierId,
           NEW st2, st2 = addServiceQueue(st, kind, id, to)
    PROVE  /\ st2 \in Store /\ st2.serviceCerts = st.serviceCerts
           /\ \A s \in ServiceId :
                 /\ st2.services[s] = None <=> st.services[s] = None
                 /\ st.services[s] # None =>
                       /\ st2.services[s].cert = st.services[s].cert
                       /\ \A k \in {"rcv", "ntf"} : st2.services[s][k] =
                             IF s = to /\ k = kind
                             THEN [ids |-> st.services[s][k].ids \cup {id}, hash |-> toggle(st.services[s][k].hash, id)]
                             ELSE st.services[s][k]
  <1>1. st2 \in Store /\ st2.serviceCerts = st.serviceCerts
    BY AddServiceFrame
  <1>2. CASE to = None \/ st.services[to] = None
    BY <1>1, <1>2, StoreAssumption DEF addServiceQueue
  <1>3. CASE ~(to = None \/ st.services[to] = None)
    <2> DEFINE old == st.services[to]
               more == [ids |-> old[kind].ids \cup {id}, hash |-> toggle(old[kind].hash, id)]
               new == [old EXCEPT ![kind] = more]
    <2>1. to \in ServiceId /\ old \in Service /\ st.services \in [ServiceId -> Maybe(Service)]
      BY <1>3, StoreTyped DEF Maybe
    <2>2. st2 = [st EXCEPT !.services[to] = new]
      BY <1>3 DEF addServiceQueue
    <2>3. /\ new.cert = old.cert /\ new[kind] = more
          /\ \A k \in {"rcv", "ntf"} \ {kind} : new[k] = old[k]
      BY <2>1 DEF Service
    <2>4. new \in Service
      BY <2>1 DEF Service, IdsHash, toggle
    <2>5. new # None
      BY <2>4, SentinelAssumption
    <2> HIDE DEF new
    <2>6. st2.services = [st.services EXCEPT ![to] = new]
      BY <2>2, StoreTyped
    <2> QED BY <1>1, <1>3, <2>1, <2>3, <2>5, <2>6
  <1> QED BY <1>2, <1>3

(* The services that both stores have, with their certificates: what all   *)
(* operations but the creation of a service keep.                          *)
SameServices(a, b) ==
    /\ b.serviceCerts = a.serviceCerts
    /\ \A s \in ServiceId : /\ b.services[s] = None <=> a.services[s] = None
                            /\ a.services[s] # None => b.services[s].cert = a.services[s].cert

(* A queue that leaves or joins a service changes no service otherwise. *)
LEMMA LeavesServices ==
    ASSUME NEW st \in Store, NEW kind \in {"rcv", "ntf"}, NEW from \in Maybe(ServiceId), NEW id,
           id \in IF kind = "rcv" THEN RecipientId ELSE NotifierId,
           NEW st2, st2 = removeServiceQueue(st, kind, id, from)
    PROVE  st2 \in Store /\ SameServices(st, st2)
  <1>1. /\ st2 \in Store /\ st2.serviceCerts = st.serviceCerts
        /\ \A s \in ServiceId :
              /\ st2.services[s] = None <=> st.services[s] = None
              /\ st.services[s] # None =>
                    /\ st2.services[s].cert = st.services[s].cert
                    /\ \A k \in {"rcv", "ntf"} : st2.services[s][k] =
                          IF s = from /\ k = kind
                          THEN [ids |-> st.services[s][k].ids \ {id}, hash |-> toggle(st.services[s][k].hash, id)]
                          ELSE st.services[s][k]
    BY RemoveServiceEffect
  <1> QED BY <1>1 DEF SameServices

(* Joining a service neither creates nor removes a service.                *)
LEMMA JoinsServices ==
    ASSUME NEW st \in Store, NEW kind \in {"rcv", "ntf"}, NEW to \in Maybe(ServiceId), NEW id,
           id \in IF kind = "rcv" THEN RecipientId ELSE NotifierId,
           NEW st2, st2 = addServiceQueue(st, kind, id, to)
    PROVE  st2 \in Store /\ SameServices(st, st2)
  <1>1. /\ st2 \in Store /\ st2.serviceCerts = st.serviceCerts
        /\ \A s \in ServiceId :
              /\ st2.services[s] = None <=> st.services[s] = None
              /\ st.services[s] # None =>
                    /\ st2.services[s].cert = st.services[s].cert
                    /\ \A k \in {"rcv", "ntf"} : st2.services[s][k] =
                          IF s = to /\ k = kind
                          THEN [ids |-> st.services[s][k].ids \cup {id}, hash |-> toggle(st.services[s][k].hash, id)]
                          ELSE st.services[s][k]
    BY AddServiceEffect
  <1> QED BY <1>1 DEF SameServices

(* What a service counts after queues and notifiers left and joined: refs  *)
(* are those counted before.                                               *)
LEMMA Leaves ==
    ASSUME NEW st \in Store, NEW kind \in {"rcv", "ntf"}, NEW from \in Maybe(ServiceId), NEW id,
           id \in IF kind = "rcv" THEN RecipientId ELSE NotifierId,
           NEW st2, st2 = removeServiceQueue(st, kind, id, from), NEW s \in ServiceId
    PROVE  /\ st2 \in Store /\ SameServices(st, st2)
           /\ \A refs : Counts(st, kind, s, refs) /\ (from = s => id \in refs) =>
                 Counts(st2, kind, s, IF from = s THEN refs \ {id} ELSE refs)
           /\ \A k \in {"rcv", "ntf"} \ {kind} : \A refs : Counts(st, k, s, refs) => Counts(st2, k, s, refs)
  <1>1. /\ st2 \in Store /\ st2.serviceCerts = st.serviceCerts
        /\ \A x \in ServiceId :
              /\ st2.services[x] = None <=> st.services[x] = None
              /\ st.services[x] # None =>
                    /\ st2.services[x].cert = st.services[x].cert
                    /\ \A k \in {"rcv", "ntf"} : st2.services[x][k] =
                          IF x = from /\ k = kind
                          THEN [ids |-> st.services[x][k].ids \ {id}, hash |-> toggle(st.services[x][k].hash, id)]
                          ELSE st.services[x][k]
    BY RemoveServiceEffect
  <1>2. SameServices(st, st2)
    BY <1>1 DEF SameServices
  <1>3. ASSUME NEW refs, Counts(st, kind, s, refs), from = s => id \in refs
        PROVE  Counts(st2, kind, s, IF from = s THEN refs \ {id} ELSE refs)
    <2>1. id \in refs => toggle(refs, id) = refs \ {id}
      BY DEF toggle
    <2>2. CASE st.services[s] = None
      BY <1>1, <1>3, <2>2 DEF Counts
    <2>3. CASE st.services[s] # None /\ from = s
      <3>1. st2.services[s][kind] = [ids |-> refs \ {id}, hash |-> toggle(refs, id)]
        BY <1>1, <1>3, <2>3 DEF Counts
      <3>2. st2.services[s] # None
        BY <1>1, <2>3
      <3>3. toggle(refs, id) = refs \ {id}
        BY <1>3, <2>1, <2>3
      <3>4. st2.services[s][kind].ids = refs \ {id} /\ st2.services[s][kind].hash = refs \ {id}
        BY <3>1, <3>3
      <3> QED BY <2>3, <3>2, <3>4 DEF Counts
    <2>4. CASE st.services[s] # None /\ from # s
      <3>1. st2.services[s][kind] = st.services[s][kind]
        BY <1>1, <2>4
      <3> QED BY <1>1, <1>3, <2>4, <3>1 DEF Counts
    <2> QED BY <2>2, <2>3, <2>4
  <1>4. ASSUME NEW k \in {"rcv", "ntf"} \ {kind}, NEW refs, Counts(st, k, s, refs)
        PROVE  Counts(st2, k, s, refs)
    <2>1. st.services[s] # None => st2.services[s][k] = st.services[s][k]
      BY <1>1
    <2> QED BY <1>1, <1>4, <2>1 DEF Counts
  <1> QED BY <1>1, <1>2, <1>3, <1>4

(* What s has of refs when id joins a service. *)
joinedRefs(refs, id, to, s) == IF to = s THEN refs \cup {id} ELSE refs

(* A queue that joins a service it was not in keeps the counts right.      *)
LEMMA Joins ==
    ASSUME NEW st \in Store, NEW kind \in {"rcv", "ntf"}, NEW to \in Maybe(ServiceId), NEW id,
           id \in IF kind = "rcv" THEN RecipientId ELSE NotifierId,
           NEW st2, st2 = addServiceQueue(st, kind, id, to), NEW s \in ServiceId
    PROVE  /\ st2 \in Store /\ SameServices(st, st2)
           /\ \A refs : Counts(st, kind, s, refs) /\ (to = s => id \notin refs /\ st.services[s] # None) =>
                 Counts(st2, kind, s, joinedRefs(refs, id, to, s))
           /\ \A k \in {"rcv", "ntf"} \ {kind} : \A refs : Counts(st, k, s, refs) => Counts(st2, k, s, refs)
  <1>1. /\ st2 \in Store /\ st2.serviceCerts = st.serviceCerts
        /\ \A x \in ServiceId :
              /\ st2.services[x] = None <=> st.services[x] = None
              /\ st.services[x] # None =>
                    /\ st2.services[x].cert = st.services[x].cert
                    /\ \A k \in {"rcv", "ntf"} : st2.services[x][k] =
                          IF x = to /\ k = kind
                          THEN [ids |-> st.services[x][k].ids \cup {id}, hash |-> toggle(st.services[x][k].hash, id)]
                          ELSE st.services[x][k]
    BY AddServiceEffect
  <1>2. SameServices(st, st2)
    BY <1>1 DEF SameServices
  <1>3. ASSUME NEW refs, Counts(st, kind, s, refs), to = s => id \notin refs /\ st.services[s] # None
        PROVE  Counts(st2, kind, s, joinedRefs(refs, id, to, s))
    <2> USE DEF joinedRefs
    <2>1. id \notin refs => toggle(refs, id) = refs \cup {id}
      BY DEF toggle
    <2>2. CASE st.services[s] = None
      BY <1>1, <1>3, <2>2 DEF Counts
    <2>3. CASE st.services[s] # None /\ to = s
      <3>1. st2.services[s][kind] = [ids |-> refs \cup {id}, hash |-> toggle(refs, id)]
        BY ZenonT(30), <1>1, <1>3, <2>3 DEF Counts
      <3>2. st2.services[s] # None
        BY <1>1, <2>3
      <3>3. toggle(refs, id) = refs \cup {id}
        BY <1>3, <2>1, <2>3
      <3>4. st2.services[s][kind].ids = refs \cup {id} /\ st2.services[s][kind].hash = refs \cup {id}
        BY <3>1, <3>3
      <3> QED BY <2>3, <3>2, <3>4 DEF Counts
    <2>4. CASE st.services[s] # None /\ to # s
      <3>1. st2.services[s][kind] = st.services[s][kind]
        BY <1>1, <2>4
      <3> QED BY <1>1, <1>3, <2>4, <3>1 DEF Counts
    <2> QED BY <2>2, <2>3, <2>4
  <1>4. ASSUME NEW k \in {"rcv", "ntf"} \ {kind}, NEW refs, Counts(st, k, s, refs)
        PROVE  Counts(st2, k, s, refs)
    <2>1. st.services[s] # None => st2.services[s][k] = st.services[s][k]
      BY <1>1
    <2> QED BY <1>1, <1>4, <2>1 DEF Counts
  <1> QED BY <1>1, <1>2, <1>3, <1>4

(* The notifiers that refer to a service, in terms of the queues. *)
notes(st, r, s) ==
    IF isLive(st, r) /\ st.queues[r].notifier # None /\ st.queues[r].notifier.ntfServiceId = s
    THEN {st.queues[r].notifier.notifierId} ELSE {}

(* The notifiers that count for s are those of the queues, one by one.     *)
LEMMA NtfRefsByQueue ==
    ASSUME NEW st, StoreOK(st), NEW s \in ServiceId
    PROVE  ntfRefs(st, s) = UNION {notes(st, r, s) : r \in RecipientId}
  <1>1. \A n \in NotifierId, r \in RecipientId : st.notifiers[n] = r <=>
           isLive(st, r) /\ st.queues[r].notifier # None /\ st.queues[r].notifier.notifierId = n
    BY DEF StoreOK, Indexed
  <1>2. \A n \in NotifierId : st.notifiers[n] # None => st.notifiers[n] \in RecipientId
    BY StoreTyped DEF StoreOK, Maybe
  <1>3. \A r \in RecipientId : isLive(st, r) /\ st.queues[r].notifier # None =>
           st.queues[r].notifier.notifierId \in NotifierId
    BY LiveTyped, RecTyped DEF StoreOK
  <1>4. ASSUME NEW n, n \in ntfRefs(st, s) PROVE n \in UNION {notes(st, r, s) : r \in RecipientId}
    BY <1>1, <1>2, <1>4 DEF ntfRefs, notes
  <1>5. ASSUME NEW r \in RecipientId, NEW n \in notes(st, r, s) PROVE n \in ntfRefs(st, s)
    BY <1>1, <1>3, StoreAssumption DEF ntfRefs, notes
  <1> QED BY <1>4, <1>5

(* What refers to a service after one record changed. *)
LEMMA RefsAfter ==
    ASSUME NEW st, StoreOK(st), NEW st2, StoreOK(st2), NEW r \in RecipientId, NEW q2,
           st2.queues = [st.queues EXCEPT ![r] = q2], NEW s \in ServiceId
    PROVE  /\ rcvRefs(st2, s) = (rcvRefs(st, s) \ {r})
                 \cup (IF q2 \notin {Absent, Deleted} /\ q2.rcvServiceId = s THEN {r} ELSE {})
           /\ ntfRefs(st2, s) = (ntfRefs(st, s) \ notes(st, r, s)) \cup notes(st2, r, s)
  <1>1. st2.queues[r] = q2 /\ \A p \in RecipientId \ {r} : st2.queues[p] = st.queues[p]
    BY StoreTyped DEF StoreOK
  <1>2. rcvRefs(st2, s) = (rcvRefs(st, s) \ {r})
                 \cup (IF q2 \notin {Absent, Deleted} /\ q2.rcvServiceId = s THEN {r} ELSE {})
    BY <1>1 DEF rcvRefs, isLive
  <1>3. \A p \in RecipientId \ {r} : notes(st2, p, s) = notes(st, p, s)
    BY <1>1 DEF notes, isLive
  <1>4. \A p \in RecipientId \ {r} : notes(st, p, s) \cap notes(st, r, s) = {}
    <2> SUFFICES ASSUME NEW p \in RecipientId, NEW n \in notes(st, p, s), n \in notes(st, r, s)
                 PROVE  p = r
      OBVIOUS
    <2>1. n \in NotifierId
      BY LiveTyped, RecTyped DEF notes, StoreOK
    <2> QED BY <2>1 DEF notes, StoreOK, Indexed
  <1>5. ntfRefs(st, s) = UNION {notes(st, p, s) : p \in RecipientId}
        /\ ntfRefs(st2, s) = UNION {notes(st2, p, s) : p \in RecipientId}
    BY NtfRefsByQueue
  <1>6. ASSUME NEW n, n \in ntfRefs(st2, s)
        PROVE  n \in (ntfRefs(st, s) \ notes(st, r, s)) \cup notes(st2, r, s)
    BY <1>3, <1>4, <1>5, <1>6
  <1>7. ASSUME NEW n, n \in (ntfRefs(st, s) \ notes(st, r, s)) \cup notes(st2, r, s)
        PROVE  n \in ntfRefs(st2, s)
    BY <1>3, <1>4, <1>5, <1>7
  <1>8. ntfRefs(st2, s) = (ntfRefs(st, s) \ notes(st, r, s)) \cup notes(st2, r, s)
    BY <1>6, <1>7
  <1> QED BY <1>2, <1>8

-----------------------------------------------------------------------------
(* What a service counts after a line: SameServices, and Good stays if it  *)
(* was and the service that the queue joins is there.                      *)
StaysGood(st, st2, line) ==
    /\ SameServices(st, st2)
    /\ \A s \in ServiceId : Good(st, s) /\ (s \in joined(line) => st.services[s] # None) => Good(st2, s)

(* The notifier of a queue is counted by its service. *)
LEMMA NotesCounted ==
    ASSUME NEW st, StoreOK(st), NEW r \in RecipientId, NEW s \in ServiceId
    PROVE  notes(st, r, s) \subseteq ntfRefs(st, s)
  BY NtfRefsByQueue

(* A line that changes neither the service nor the notifier of its queue.  *)
LEMMA OthersStayGood ==
    ASSUME NEW st, StoreOK(st), NEW st2, StoreOK(st2), NEW line \in Line, NEW r \in RecipientId,
           isLive(st, r), NEW q2 \in QueueRec, st2.queues = [st.queues EXCEPT ![r] = q2],
           q2.rcvServiceId = st.queues[r].rcvServiceId, q2.notifier = st.queues[r].notifier,
           st2.services = st.services, st2.serviceCerts = st.serviceCerts
    PROVE  StaysGood(st, st2, line)
  <1>1. SameServices(st, st2)
    BY DEF SameServices
  <1> SUFFICES ASSUME NEW s \in ServiceId, Good(st, s) PROVE Good(st2, s)
    BY <1>1 DEF StaysGood
  <1>2. q2 \notin {Absent, Deleted} /\ st2.queues[r] = q2 /\ isLive(st2, r)
    BY RecTyped, StoreTyped DEF StoreOK, isLive
  <1>3. notes(st2, r, s) = notes(st, r, s)
    BY <1>2 DEF notes
  <1>4. rcvRefs(st2, s) = rcvRefs(st, s)
    <2>1. rcvRefs(st2, s) = (rcvRefs(st, s) \ {r})
                 \cup (IF q2 \notin {Absent, Deleted} /\ q2.rcvServiceId = s THEN {r} ELSE {})
      BY RefsAfter
    <2> QED BY <1>2, <2>1 DEF rcvRefs
  <1>5. ntfRefs(st2, s) = ntfRefs(st, s)
    <2>1. ntfRefs(st2, s) = (ntfRefs(st, s) \ notes(st, r, s)) \cup notes(st2, r, s)
      BY RefsAfter
    <2> QED BY <1>3, <2>1, NotesCounted
  <1> QED BY <1>4, <1>5 DEF Good, Counts

(* SameServices relates all steps of an operation. *)
LEMMA SameServicesTrans ==
    ASSUME NEW a, NEW b, NEW c, SameServices(a, b), SameServices(b, c)
    PROVE  SameServices(a, c)
  BY DEF SameServices

(* A store with the same services. *)
LEMMA SameServicesCounts ==
    ASSUME NEW a, NEW b, b.services = a.services, b.serviceCerts = a.serviceCerts
    PROVE  /\ SameServices(a, b)
           /\ \A kind, s, refs : Counts(a, kind, s, refs) => Counts(b, kind, s, refs)
  BY DEF SameServices, Counts

(* The notifier of a queue is removed: its service counts it no more.      *)
LEMMA RemoveNotifierCounts ==
    ASSUME NEW st \in Store, NEW nc \in Maybe(NtfCreds), NEW st2, st2 = removeNotifier(st, nc)
    PROVE  /\ st2 \in Store /\ SameServices(st, st2)
           /\ \A s \in ServiceId : \A A, B :
                 LET noted == IF nc # None /\ nc.ntfServiceId = s THEN {nc.notifierId} ELSE {}
                 IN  Counts(st, "rcv", s, A) /\ Counts(st, "ntf", s, B) /\ noted \subseteq B =>
                        Counts(st2, "rcv", s, A) /\ Counts(st2, "ntf", s, B \ noted)
  <1>1. CASE nc = None
    <2>1. st2 = st /\ SameServices(st, st2)
      BY <1>1 DEF removeNotifier, SameServices
    <2>3. ASSUME NEW s \in ServiceId, NEW B
          PROVE  B \ (IF nc # None /\ nc.ntfServiceId = s THEN {nc.notifierId} ELSE {}) = B
      BY <1>1
    <2> QED BY <2>1, <2>3
  <1>2. CASE nc # None
    <2> DEFINE gone == [st EXCEPT !.notifiers[nc.notifierId] = None]
    <2>1. nc.notifierId \in NotifierId /\ nc.ntfServiceId \in Maybe(ServiceId)
      BY <1>2 DEF Maybe, NtfCreds
    <2>2. gone \in Store /\ gone.services = st.services /\ gone.serviceCerts = st.serviceCerts
      <3> DEFINE ns == [st.notifiers EXCEPT ![nc.notifierId] = None]
      <3>1. ns \in [NotifierId -> Maybe(RecipientId)]
        BY <2>1, StoreTyped DEF Maybe
      <3>2. gone = [st EXCEPT !.notifiers = ns]
        BY StoreTyped
      <3> HIDE DEF ns, gone
      <3>3. gone \in Store
        BY <3>1, <3>2, StoreTyped DEF Store
      <3>4. gone.services = st.services /\ gone.serviceCerts = st.serviceCerts
        BY <3>2, StoreTyped
      <3> QED BY <3>3, <3>4
    <2>3. st2 = removeServiceQueue(gone, "ntf", nc.notifierId, nc.ntfServiceId)
      BY <1>2 DEF removeNotifier
    <2> HIDE DEF gone
    <2>4. st2 \in Store /\ SameServices(gone, st2)
      BY <2>1, <2>2, <2>3, LeavesServices
    <2>5. SameServices(st, gone) /\ \A kind, s, refs : Counts(st, kind, s, refs) => Counts(gone, kind, s, refs)
      BY <2>2, SameServicesCounts
    <2>6. ASSUME NEW s \in ServiceId, NEW A, NEW B,
                 Counts(st, "rcv", s, A), Counts(st, "ntf", s, B),
                 (IF nc.ntfServiceId = s THEN {nc.notifierId} ELSE {}) \subseteq B
          PROVE  Counts(st2, "rcv", s, A)
                 /\ Counts(st2, "ntf", s, B \ (IF nc.ntfServiceId = s THEN {nc.notifierId} ELSE {}))
      <3>1. Counts(gone, "rcv", s, A) /\ Counts(gone, "ntf", s, B)
        BY <2>5, <2>6
      <3>2. Counts(st2, "rcv", s, A)
        BY <2>1, <2>2, <2>3, <3>1, Leaves
      <3>3. Counts(st2, "ntf", s, IF nc.ntfServiceId = s THEN B \ {nc.notifierId} ELSE B)
        <4>1. nc.ntfServiceId = s => nc.notifierId \in B
          BY <2>6
        <4>2. \A refs : Counts(gone, "ntf", s, refs) /\ (nc.ntfServiceId = s => nc.notifierId \in refs) =>
                 Counts(st2, "ntf", s, IF nc.ntfServiceId = s THEN refs \ {nc.notifierId} ELSE refs)
          BY <2>1, <2>2, <2>3, Leaves
        <4> QED BY <3>1, <4>1, <4>2
      <3>4. CASE nc.ntfServiceId = s
        BY <3>2, <3>3, <3>4
      <3>5. CASE nc.ntfServiceId # s
        <4>1. B \ {} = B
          OBVIOUS
        <4> QED BY <3>2, <3>3, <3>5, <4>1
      <3> QED BY <3>4, <3>5
    <2> QED BY <1>2, <2>4, <2>5, <2>6, SameServicesTrans
  <1> QED BY <1>1, <1>2

(* The notifier is added, replaced or deleted. *)
LEMMA NotifierStaysGood ==
    ASSUME NEW st, StoreOK(st), NEW st2, StoreOK(st2), NEW line \in Line, NEW r \in RecipientId,
           isLive(st, r), NEW q2 \in QueueRec, st2.queues = [st.queues EXCEPT ![r] = q2],
           q2.rcvServiceId = st.queues[r].rcvServiceId,
           q2.notifier # None => q2.notifier.ntfServiceId = None,
           st2.services = removeNotifier(st, st.queues[r].notifier).services,
           st2.serviceCerts = removeNotifier(st, st.queues[r].notifier).serviceCerts
    PROVE  StaysGood(st, st2, line)
  <1> DEFINE q == st.queues[r]
             st1 == removeNotifier(st, q.notifier)
  <1>1. st \in Store /\ q \in QueueRec /\ q.notifier \in Maybe(NtfCreds)
    BY LiveTyped, RecTyped DEF StoreOK
  <1>2. /\ st1 \in Store /\ SameServices(st, st1)
        /\ \A s \in ServiceId : \A A, B :
                 LET noted == IF q.notifier # None /\ q.notifier.ntfServiceId = s
                              THEN {q.notifier.notifierId} ELSE {}
                 IN  Counts(st, "rcv", s, A) /\ Counts(st, "ntf", s, B) /\ noted \subseteq B =>
                        Counts(st1, "rcv", s, A) /\ Counts(st1, "ntf", s, B \ noted)
    BY <1>1, RemoveNotifierCounts
  <1> HIDE DEF st1
  <1>3. SameServices(st1, st2) /\ \A kind, s, refs : Counts(st1, kind, s, refs) => Counts(st2, kind, s, refs)
    BY SameServicesCounts DEF st1
  <1>4. SameServices(st, st2)
    BY <1>2, <1>3, SameServicesTrans
  <1> SUFFICES ASSUME NEW s \in ServiceId, Good(st, s) PROVE Good(st2, s)
    BY <1>4 DEF StaysGood
  <1>5. q2 \notin {Absent, Deleted} /\ st2.queues[r] = q2 /\ isLive(st2, r)
    BY <1>1, RecTyped, StoreTyped DEF isLive
  <1>6. rcvRefs(st2, s) = rcvRefs(st, s)
    <2>1. rcvRefs(st2, s) = (rcvRefs(st, s) \ {r})
                 \cup (IF q2 \notin {Absent, Deleted} /\ q2.rcvServiceId = s THEN {r} ELSE {})
      BY RefsAfter
    <2> QED BY <1>5, <2>1 DEF rcvRefs
  <1>7. notes(st2, r, s) = {}
    BY <1>5, StoreAssumption DEF notes
  <1>8. ntfRefs(st2, s) = ntfRefs(st, s) \ notes(st, r, s)
    <2>1. ntfRefs(st2, s) = (ntfRefs(st, s) \ notes(st, r, s)) \cup notes(st2, r, s)
      BY RefsAfter
    <2> QED BY <1>7, <2>1
  <1>9. notes(st, r, s) = IF q.notifier # None /\ q.notifier.ntfServiceId = s
                          THEN {q.notifier.notifierId} ELSE {}
    BY DEF notes
  <1>10. Counts(st1, "rcv", s, rcvRefs(st, s)) /\ Counts(st1, "ntf", s, ntfRefs(st, s) \ notes(st, r, s))
    BY <1>2, <1>9, NotesCounted DEF Good
  <1> QED BY <1>3, <1>6, <1>8, <1>10 DEF Good

(* What s has of refs when id moves from a service to another. *)
movedRefs(refs, id, from, to, s) ==
    IF from = s THEN refs \ {id} ELSE IF to = s THEN refs \cup {id} ELSE refs

(* A queue or a notifier moves to another service. *)
LEMMA MoveCounts ==
    ASSUME NEW st \in Store, NEW kind \in {"rcv", "ntf"}, NEW from \in Maybe(ServiceId),
           NEW to \in Maybe(ServiceId), from # to, NEW id,
           id \in IF kind = "rcv" THEN RecipientId ELSE NotifierId,
           NEW st2, st2 = moveServiceQueue(st, kind, id, from, to)
    PROVE  /\ st2 \in Store /\ SameServices(st, st2)
           /\ \A s \in ServiceId :
                 /\ \A refs : /\ Counts(st, kind, s, refs)
                              /\ from = s => id \in refs
                              /\ to = s => id \notin refs /\ st.services[s] # None
                       => Counts(st2, kind, s, movedRefs(refs, id, from, to, s))
                 /\ \A k \in {"rcv", "ntf"} \ {kind} : \A refs :
                       Counts(st, k, s, refs) => Counts(st2, k, s, refs)
  <1> DEFINE st1 == removeServiceQueue(st, kind, id, from)
  <1>1. st1 \in Store /\ SameServices(st, st1)
    BY LeavesServices
  <1>2. ASSUME NEW s \in ServiceId
        PROVE  /\ \A refs : Counts(st, kind, s, refs) /\ (from = s => id \in refs) =>
                     Counts(st1, kind, s, IF from = s THEN refs \ {id} ELSE refs)
               /\ \A k \in {"rcv", "ntf"} \ {kind} : \A refs : Counts(st, k, s, refs) => Counts(st1, k, s, refs)
    BY Leaves
  <1>3. st2 = addServiceQueue(st1, kind, id, to)
    BY DEF moveServiceQueue
  <1> HIDE DEF st1
  <1>4. st2 \in Store /\ SameServices(st1, st2)
    BY <1>1, <1>3, JoinsServices
  <1>5. ASSUME NEW s \in ServiceId
        PROVE  /\ \A refs : Counts(st1, kind, s, refs) /\ (to = s => id \notin refs /\ st1.services[s] # None) =>
                     Counts(st2, kind, s, joinedRefs(refs, id, to, s))
               /\ \A k \in {"rcv", "ntf"} \ {kind} : \A refs : Counts(st1, k, s, refs) => Counts(st2, k, s, refs)
    BY <1>1, <1>3, Joins
  <1>6. SameServices(st, st2)
    BY <1>1, <1>4, SameServicesTrans
  <1>7. ASSUME NEW s \in ServiceId, NEW refs, Counts(st, kind, s, refs), from = s => id \in refs,
               to = s => id \notin refs /\ st.services[s] # None
        PROVE  Counts(st2, kind, s, movedRefs(refs, id, from, to, s))
    <2>1. Counts(st1, kind, s, IF from = s THEN refs \ {id} ELSE refs)
      BY <1>2, <1>7
    <2>2. CASE from = s
      <3>1. Counts(st1, kind, s, refs \ {id}) /\ to # s
        BY <2>1, <2>2
      <3>2. Counts(st2, kind, s, joinedRefs(refs \ {id}, id, to, s))
        BY <1>5, <3>1
      <3> QED BY <2>2, <3>1, <3>2 DEF movedRefs, joinedRefs
    <2>3. CASE from # s
      <3>1. Counts(st1, kind, s, refs)
        BY <2>1, <2>3
      <3>2. to = s => id \notin refs /\ st1.services[s] # None
        BY <1>1, <1>7 DEF SameServices
      <3>3. Counts(st2, kind, s, IF to = s THEN refs \cup {id} ELSE refs)
        BY <1>5, <3>1, <3>2 DEF joinedRefs
      <3> QED BY <2>3, <3>3 DEF movedRefs
    <2> QED BY <2>2, <2>3
  <1>8. ASSUME NEW s \in ServiceId, NEW k \in {"rcv", "ntf"} \ {kind}, NEW refs, Counts(st, k, s, refs)
        PROVE  Counts(st2, k, s, refs)
    BY <1>2, <1>5, <1>8
  <1> QED BY <1>4, <1>6, <1>7, <1>8

(* A queue is deleted: its service and that of its notifier count it no    *)
(* more.                                                                   *)
LEMMA DeleteStaysGood ==
    ASSUME NEW st, StoreOK(st), NEW st2, StoreOK(st2), NEW line \in Line, NEW r \in RecipientId,
           isLive(st, r), st2 = deleteStoreQueue(st, r), st2.queues = [st.queues EXCEPT ![r] = Deleted]
    PROVE  StaysGood(st, st2, line)
  <1> DEFINE q == st.queues[r]
             gone == [put(st, r, Deleted) EXCEPT !.senders[q.senderId] = None]
             left == removeServiceQueue(gone, "rcv", r, q.rcvServiceId)
  <1>1. st \in Store /\ q \in QueueRec /\ q.notifier \in Maybe(NtfCreds) /\ q.rcvServiceId \in Maybe(ServiceId)
        /\ q.senderId \in SenderId
    BY LiveTyped, RecTyped DEF StoreOK
  <1>2. gone \in Store /\ gone.services = st.services /\ gone.serviceCerts = st.serviceCerts
    <2> DEFINE ss == [st.senders EXCEPT ![q.senderId] = None]
    <2>1. ss \in [SenderId -> Maybe(RecipientId)]
      BY <1>1, StoreTyped DEF Maybe
    <2>2. /\ put(st, r, Deleted) \in Store /\ put(st, r, Deleted).senders = st.senders
          /\ put(st, r, Deleted).services = st.services /\ put(st, r, Deleted).serviceCerts = st.serviceCerts
      BY <1>1, PutFields DEF Becomes
    <2>3. gone = [put(st, r, Deleted) EXCEPT !.senders = ss]
      BY <2>2, StoreTyped
    <2> HIDE DEF ss, gone
    <2>4. gone \in Store
      BY <2>1, <2>2, <2>3, StoreTyped DEF Store
    <2>5. gone.services = st.services /\ gone.serviceCerts = st.serviceCerts
      BY <2>2, <2>3, StoreTyped
    <2> QED BY <2>4, <2>5
  <1>3. st2 = removeNotifier(left, q.notifier)
    BY DEF deleteStoreQueue
  <1> HIDE DEF gone
  <1>4. SameServices(st, gone) /\ \A kind, s, refs : Counts(st, kind, s, refs) => Counts(gone, kind, s, refs)
    BY <1>2, SameServicesCounts
  <1>5. left \in Store /\ SameServices(gone, left)
    BY <1>1, <1>2, LeavesServices
  <1> DEFINE was == q.rcvServiceId
  <1>16. left = removeServiceQueue(gone, "rcv", r, was) /\ was \in Maybe(ServiceId)
    BY <1>1
  <1> HIDE DEF left, was
  <1>6. ASSUME NEW s \in ServiceId
        PROVE  /\ \A refs : Counts(gone, "rcv", s, refs) /\ (was = s => r \in refs) =>
                     Counts(left, "rcv", s, IF was = s THEN refs \ {r} ELSE refs)
               /\ \A k \in {"rcv", "ntf"} \ {"rcv"} : \A refs : Counts(gone, k, s, refs) => Counts(left, k, s, refs)
    BY <1>2, <1>16, Leaves
  <1>7. /\ st2 \in Store /\ SameServices(left, st2)
        /\ \A s \in ServiceId : \A A, B :
                 LET noted == IF q.notifier # None /\ q.notifier.ntfServiceId = s
                              THEN {q.notifier.notifierId} ELSE {}
                 IN  Counts(left, "rcv", s, A) /\ Counts(left, "ntf", s, B) /\ noted \subseteq B =>
                        Counts(st2, "rcv", s, A) /\ Counts(st2, "ntf", s, B \ noted)
    BY <1>1, <1>3, <1>5, RemoveNotifierCounts
  <1>8. SameServices(st, st2)
    BY <1>4, <1>5, <1>7, SameServicesTrans
  <1> SUFFICES ASSUME NEW s \in ServiceId, Good(st, s) PROVE Good(st2, s)
    BY <1>8 DEF StaysGood
  <1>9. st2.queues[r] = Deleted
    BY <1>1, StoreTyped
  <1>10. rcvRefs(st2, s) = IF q.rcvServiceId = s THEN rcvRefs(st, s) \ {r} ELSE rcvRefs(st, s)
    <2>1. rcvRefs(st2, s) = (rcvRefs(st, s) \ {r})
                 \cup (IF Deleted \notin {Absent, Deleted} /\ Deleted.rcvServiceId = s THEN {r} ELSE {})
      BY RefsAfter
    <2>2. r \in rcvRefs(st, s) <=> q.rcvServiceId = s
      BY DEF rcvRefs
    <2> QED BY <2>1, <2>2
  <1>11. ntfRefs(st2, s) = ntfRefs(st, s) \ notes(st, r, s)
    <2>1. ntfRefs(st2, s) = (ntfRefs(st, s) \ notes(st, r, s)) \cup notes(st2, r, s)
      BY RefsAfter
    <2>2. notes(st2, r, s) = {}
      BY <1>9 DEF notes, isLive
    <2> QED BY <2>1, <2>2
  <1>12. notes(st, r, s) = IF q.notifier # None /\ q.notifier.ntfServiceId = s
                           THEN {q.notifier.notifierId} ELSE {}
    BY DEF notes
  <1>13. Counts(gone, "rcv", s, rcvRefs(st, s)) /\ Counts(gone, "ntf", s, ntfRefs(st, s))
    BY <1>4 DEF Good
  <1>14. Counts(left, "rcv", s, rcvRefs(st2, s)) /\ Counts(left, "ntf", s, ntfRefs(st, s))
    <2>1. q.rcvServiceId = s => r \in rcvRefs(st, s)
      BY DEF rcvRefs
    <2>2. Counts(left, "rcv", s, IF was = s THEN rcvRefs(st, s) \ {r} ELSE rcvRefs(st, s))
      BY <1>6, <1>13, <2>1 DEF was
    <2>3. Counts(left, "ntf", s, ntfRefs(st, s))
      BY <1>6, <1>13
    <2> QED BY <1>10, <2>2, <2>3 DEF was
  <1>15. Counts(st2, "rcv", s, rcvRefs(st2, s)) /\ Counts(st2, "ntf", s, ntfRefs(st, s) \ notes(st, r, s))
    BY <1>7, <1>12, <1>14, NotesCounted
  <1> QED BY <1>11, <1>15 DEF Good

(* A queue joins, leaves or changes its service. *)
LEMMA RcvStaysGood ==
    ASSUME NEW st, StoreOK(st), NEW st2, StoreOK(st2), NEW line \in Line, NEW r \in RecipientId,
           isLive(st, r), NEW to \in Maybe(ServiceId), joined(line) = {to} \ {None},
           NEW moved, moved = moveServiceQueue(st, "rcv", r, st.queues[r].rcvServiceId, to),
           IF st.queues[r].rcvServiceId = to THEN st2 = st
           ELSE st2.services = moved.services /\ st2.serviceCerts = moved.serviceCerts,
           NEW q2 \in QueueRec, st2.queues = [st.queues EXCEPT ![r] = q2],
           q2.rcvServiceId = to, q2.notifier = st.queues[r].notifier
    PROVE  StaysGood(st, st2, line)
  <1> DEFINE q == st.queues[r]
             from == q.rcvServiceId
  <1>1. st \in Store /\ q \in QueueRec /\ from \in Maybe(ServiceId)
    BY LiveTyped, RecTyped DEF StoreOK
  <1>2. CASE from = to
    <2>1. st2 = st
      BY <1>2
    <2> QED BY <2>1 DEF StaysGood, SameServices
  <1>3. CASE from # to
    <2>1. moved = moveServiceQueue(st, "rcv", r, from, to)
      OBVIOUS
    <2>15. r \in IF "rcv" = "rcv" THEN RecipientId ELSE NotifierId
      BY <1>1
    <2>4. st2.services = moved.services /\ st2.serviceCerts = moved.serviceCerts
      BY <1>3
    <2> HIDE DEF from
    <2>2. moved \in Store /\ SameServices(st, moved)
      BY <1>1, <1>3, <2>1, <2>15, MoveCounts
    <2>3. ASSUME NEW s \in ServiceId, NEW refs, Counts(st, "rcv", s, refs), from = s => r \in refs,
                 to = s => r \notin refs /\ st.services[s] # None
          PROVE  Counts(moved, "rcv", s, movedRefs(refs, r, from, to, s))
      BY <1>1, <1>3, <2>1, <2>3, <2>15, MoveCounts
    <2>16. ASSUME NEW s \in ServiceId, NEW refs, Counts(st, "ntf", s, refs)
           PROVE  Counts(moved, "ntf", s, refs)
      <3>1. "ntf" \in {"rcv", "ntf"} \ {"rcv"}
        OBVIOUS
      <3> QED BY <1>1, <1>3, <2>1, <2>16, <2>15, <3>1, MoveCounts
    <2>5. SameServices(moved, st2) /\ \A kind, s, refs : Counts(moved, kind, s, refs) => Counts(st2, kind, s, refs)
      BY <2>4, SameServicesCounts
    <2>6. SameServices(st, st2)
      BY <2>2, <2>5, SameServicesTrans
    <2> SUFFICES ASSUME NEW s \in ServiceId, Good(st, s), s \in joined(line) => st.services[s] # None
                 PROVE  Good(st2, s)
      BY <2>6 DEF StaysGood
    <2>7. /\ q2 \notin {Absent, Deleted} /\ st2.queues[r] = q2 /\ isLive(st2, r)
      BY <1>1, RecTyped, StoreTyped DEF isLive
    <2>8. r \in rcvRefs(st, s) <=> from = s
      BY DEF rcvRefs, from
    <2>9. rcvRefs(st2, s) = IF from = s THEN rcvRefs(st, s) \ {r}
                            ELSE IF to = s THEN rcvRefs(st, s) \cup {r} ELSE rcvRefs(st, s)
      <3>1. rcvRefs(st2, s) = (rcvRefs(st, s) \ {r})
                   \cup (IF q2 \notin {Absent, Deleted} /\ q2.rcvServiceId = s THEN {r} ELSE {})
        BY RefsAfter
      <3> QED BY <1>3, <2>7, <2>8, <3>1
    <2>10. ntfRefs(st2, s) = ntfRefs(st, s)
      <3>1. ntfRefs(st2, s) = (ntfRefs(st, s) \ notes(st, r, s)) \cup notes(st2, r, s)
        BY RefsAfter
      <3>2. notes(st2, r, s) = notes(st, r, s)
        BY <2>7 DEF notes
      <3> QED BY <3>1, <3>2, NotesCounted
    <2>11. Counts(st2, "rcv", s, rcvRefs(st2, s))
      <3>1. to = s => r \notin rcvRefs(st, s) /\ st.services[s] # None
        BY <1>3, <2>8, StoreAssumption
      <3>2. Counts(moved, "rcv", s, movedRefs(rcvRefs(st, s), r, from, to, s))
        BY <2>3, <2>8, <3>1 DEF Good
      <3> QED BY <2>5, <2>9, <3>2 DEF movedRefs
    <2>12. Counts(st2, "ntf", s, ntfRefs(st2, s))
      BY <2>16, <2>5, <2>10 DEF Good
    <2> QED BY <2>11, <2>12 DEF Good
  <1> QED BY <1>2, <1>3

(* The notifier of a queue joins, leaves or changes its service. *)
LEMMA NtfStaysGood ==
    ASSUME NEW st, StoreOK(st), NEW st2, StoreOK(st2), NEW line \in Line, NEW r \in RecipientId,
           isLive(st, r), st.queues[r].notifier # None,
           NEW to \in Maybe(ServiceId), joined(line) = {to} \ {None},
           NEW moved, moved = moveServiceQueue(st, "ntf", st.queues[r].notifier.notifierId,
                                               st.queues[r].notifier.ntfServiceId, to),
           IF st.queues[r].notifier.ntfServiceId = to THEN st2 = st
           ELSE st2.services = moved.services /\ st2.serviceCerts = moved.serviceCerts,
           NEW q2 \in QueueRec, st2.queues = [st.queues EXCEPT ![r] = q2],
           q2.rcvServiceId = st.queues[r].rcvServiceId, q2.notifier # None,
           q2.notifier.notifierId = st.queues[r].notifier.notifierId, q2.notifier.ntfServiceId = to
    PROVE  StaysGood(st, st2, line)
  <1> DEFINE q == st.queues[r]
             n == q.notifier.notifierId
             from == q.notifier.ntfServiceId
  <1>1. st \in Store /\ q \in QueueRec /\ q.notifier \in NtfCreds
        /\ n \in NotifierId /\ from \in Maybe(ServiceId)
    BY LiveTyped, RecTyped DEF StoreOK
  <1>2. CASE from = to
    <2>1. st2 = st
      BY <1>2
    <2> QED BY <2>1 DEF StaysGood, SameServices
  <1>3. CASE from # to
    <2>1. moved = moveServiceQueue(st, "ntf", n, from, to)
      OBVIOUS
    <2>15. n \in IF "ntf" = "rcv" THEN RecipientId ELSE NotifierId
      BY <1>1
    <2>4. st2.services = moved.services /\ st2.serviceCerts = moved.serviceCerts
      BY <1>3
    <2>7. /\ q2 \notin {Absent, Deleted} /\ st2.queues[r] = q2 /\ isLive(st2, r)
          /\ q2.notifier # None /\ q2.notifier.notifierId = n /\ q2.notifier.ntfServiceId = to
      BY <1>1, RecTyped, StoreTyped DEF isLive
    <2> HIDE DEF from, n
    <2>2. moved \in Store /\ SameServices(st, moved)
      BY <1>1, <1>3, <2>1, <2>15, MoveCounts
    <2>3. ASSUME NEW s \in ServiceId, NEW refs, Counts(st, "ntf", s, refs), from = s => n \in refs,
                 to = s => n \notin refs /\ st.services[s] # None
          PROVE  Counts(moved, "ntf", s, movedRefs(refs, n, from, to, s))
      BY <1>1, <1>3, <2>1, <2>3, <2>15, MoveCounts
    <2>16. ASSUME NEW s \in ServiceId, NEW refs, Counts(st, "rcv", s, refs)
           PROVE  Counts(moved, "rcv", s, refs)
      <3>1. "rcv" \in {"rcv", "ntf"} \ {"ntf"}
        OBVIOUS
      <3> QED BY <1>1, <1>3, <2>1, <2>16, <2>15, <3>1, MoveCounts
    <2>5. SameServices(moved, st2) /\ \A kind, s, refs : Counts(moved, kind, s, refs) => Counts(st2, kind, s, refs)
      BY <2>4, SameServicesCounts
    <2>6. SameServices(st, st2)
      BY <2>2, <2>5, SameServicesTrans
    <2> SUFFICES ASSUME NEW s \in ServiceId, Good(st, s), s \in joined(line) => st.services[s] # None
                 PROVE  Good(st2, s)
      BY <2>6 DEF StaysGood
    <2>8. /\ notes(st, r, s) = IF from = s THEN {n} ELSE {}
          /\ notes(st2, r, s) = IF to = s THEN {n} ELSE {}
      BY <2>7 DEF notes, from, n
    <2>9. n \in ntfRefs(st, s) <=> from = s
      <3>1. st.notifiers[n] = r
        BY <1>1 DEF StoreOK, Indexed, n
      <3> QED BY <1>1, <3>1, StoreAssumption DEF ntfRefs, from, n
    <2>10. ntfRefs(st2, s) = IF from = s THEN ntfRefs(st, s) \ {n}
                             ELSE IF to = s THEN ntfRefs(st, s) \cup {n} ELSE ntfRefs(st, s)
      <3>1. ntfRefs(st2, s) = (ntfRefs(st, s) \ notes(st, r, s)) \cup notes(st2, r, s)
        BY RefsAfter
      <3> QED BY <1>3, <2>8, <3>1
    <2>11. rcvRefs(st2, s) = rcvRefs(st, s)
      <3>1. rcvRefs(st2, s) = (rcvRefs(st, s) \ {r})
                   \cup (IF q2 \notin {Absent, Deleted} /\ q2.rcvServiceId = s THEN {r} ELSE {})
        BY RefsAfter
      <3> QED BY <2>7, <3>1 DEF rcvRefs
    <2>12. Counts(st2, "ntf", s, ntfRefs(st2, s))
      <3>1. to = s => n \notin ntfRefs(st, s) /\ st.services[s] # None
        BY <1>3, <2>9, StoreAssumption
      <3>2. Counts(moved, "ntf", s, movedRefs(ntfRefs(st, s), n, from, to, s))
        BY <2>3, <2>9, <3>1 DEF Good
      <3> QED BY <2>5, <2>10, <3>2 DEF movedRefs
    <2>14. Counts(st2, "rcv", s, rcvRefs(st2, s))
      BY <2>16, <2>5, <2>11 DEF Good
    <2> QED BY <2>12, <2>14 DEF Good
  <1> QED BY <1>2, <1>3

(* An id in one of the maps of ids leaves the services alone. *)
LEMMA IdFrame ==
    ASSUME NEW st \in Store, NEW to \in Maybe(RecipientId), NEW st2,
           \/ \E x \in SenderId : st2 = [st EXCEPT !.senders[x] = to]
           \/ \E x \in NotifierId : st2 = [st EXCEPT !.notifiers[x] = to]
           \/ \E x \in LinkId : st2 = [st EXCEPT !.links[x] = to]
    PROVE  st2 \in Store /\ st2.services = st.services /\ st2.serviceCerts = st.serviceCerts
  <1>1. ASSUME NEW x \in SenderId, st2 = [st EXCEPT !.senders[x] = to]
        PROVE  st2 \in Store /\ st2.services = st.services /\ st2.serviceCerts = st.serviceCerts
    <2> DEFINE m == [st.senders EXCEPT ![x] = to]
    <2>1. m \in [SenderId -> Maybe(RecipientId)] /\ st2 = [st EXCEPT !.senders = m]
      BY <1>1, StoreTyped
    <2> HIDE DEF m
    <2> QED BY <2>1, StoreTyped DEF Store
  <1>2. ASSUME NEW x \in NotifierId, st2 = [st EXCEPT !.notifiers[x] = to]
        PROVE  st2 \in Store /\ st2.services = st.services /\ st2.serviceCerts = st.serviceCerts
    <2> DEFINE m == [st.notifiers EXCEPT ![x] = to]
    <2>1. m \in [NotifierId -> Maybe(RecipientId)] /\ st2 = [st EXCEPT !.notifiers = m]
      BY <1>2, StoreTyped
    <2> HIDE DEF m
    <2> QED BY <2>1, StoreTyped DEF Store
  <1>3. ASSUME NEW x \in LinkId, st2 = [st EXCEPT !.links[x] = to]
        PROVE  st2 \in Store /\ st2.services = st.services /\ st2.serviceCerts = st.serviceCerts
    <2> DEFINE m == [st.links EXCEPT ![x] = to]
    <2>1. m \in [LinkId -> Maybe(RecipientId)] /\ st2 = [st EXCEPT !.links = m]
      BY <1>3, StoreTyped
    <2> HIDE DEF m
    <2> QED BY <2>1, StoreTyped DEF Store
  <1> QED BY <1>1, <1>2, <1>3

(* A queue is created: its service and that of its notifier count it. *)
LEMMA CreateStaysGood ==
    ASSUME NEW st, StoreOK(st), NEW st2, StoreOK(st2), NEW line \in Line, NEW r \in RecipientId,
           NEW q \in QueueRec, ~hasId(st, r, q), st2 = addQueue(st, r, q), joined(line) = usedServices(q),
           st2.queues = [st.queues EXCEPT ![r] = q]
    PROVE  StaysGood(st, st2, line)
  <1> DEFINE n == q.notifier.notifierId
             toNtf == q.notifier.ntfServiceId
             toRcv == q.rcvServiceId
             base == [put(st, r, q) EXCEPT !.senders[q.senderId] = r]
             noted == [base EXCEPT !.notifiers[n] = r]
             ntf == IF q.notifier = None THEN base ELSE addServiceQueue(noted, "ntf", n, toNtf)
             link == IF q.queueData = None THEN ntf ELSE [ntf EXCEPT !.links[q.queueData[1]] = r]
             notesOf(s) == IF q.notifier # None /\ toNtf = s THEN {n} ELSE {}
  <1>1. /\ st \in Store /\ q.senderId \in SenderId /\ toRcv \in Maybe(ServiceId)
        /\ q.notifier # None => n \in NotifierId /\ toNtf \in Maybe(ServiceId)
        /\ q.queueData # None => q.queueData[1] \in LinkId
        /\ r \in Maybe(RecipientId)
    BY RecTyped DEF StoreOK, Maybe
  <1>2. base \in Store /\ base.services = st.services /\ base.serviceCerts = st.serviceCerts
    <2>1. /\ put(st, r, q) \in Store /\ put(st, r, q).services = st.services
          /\ put(st, r, q).serviceCerts = st.serviceCerts
      BY <1>1, PutFields DEF Becomes
    <2> QED BY <1>1, <2>1, IdFrame
  <1>3. SameServices(st, base) /\ \A kind, s, refs : Counts(st, kind, s, refs) => Counts(base, kind, s, refs)
    BY <1>2, SameServicesCounts
  <1>4. st2 = addServiceQueue(link, "rcv", r, toRcv)
    BY DEF addQueue
  <1> HIDE DEF base, n, toNtf, toRcv
  <1>5. /\ ntf \in Store /\ SameServices(base, ntf)
        /\ \A s \in ServiceId : \A A, B :
              Counts(base, "rcv", s, A) /\ Counts(base, "ntf", s, B)
                 /\ (\A x \in notesOf(s) : x \notin B /\ base.services[s] # None) =>
                 Counts(ntf, "rcv", s, A) /\ Counts(ntf, "ntf", s, B \cup notesOf(s))
    <2>1. CASE q.notifier = None
      <3>1. ntf = base /\ \A s : notesOf(s) = {}
        BY <2>1
      <3>2. SameServices(base, base)
        BY DEF SameServices
      <3>3. \A B : B \cup {} = B
        OBVIOUS
      <3> HIDE DEF ntf, notesOf
      <3> QED BY <1>2, <3>1, <3>2, <3>3
    <2>2. CASE q.notifier # None
      <3>1. noted \in Store /\ noted.services = base.services /\ noted.serviceCerts = base.serviceCerts
        BY <1>1, <1>2, <2>2, IdFrame
      <3>2. ntf = addServiceQueue(noted, "ntf", n, toNtf) /\ n \in NotifierId /\ toNtf \in Maybe(ServiceId)
        BY <1>1, <2>2
      <3> HIDE DEF noted, ntf
      <3>3. SameServices(base, noted) /\ \A kind, s, refs : Counts(base, kind, s, refs) => Counts(noted, kind, s, refs)
        BY <3>1, SameServicesCounts
      <3>4. ntf \in Store /\ SameServices(noted, ntf)
        BY <3>1, <3>2, JoinsServices
      <3>5. ASSUME NEW s \in ServiceId, NEW refs, Counts(noted, "ntf", s, refs),
                   toNtf = s => n \notin refs /\ noted.services[s] # None
            PROVE  Counts(ntf, "ntf", s, joinedRefs(refs, n, toNtf, s))
        <4>1. n \in IF "ntf" = "rcv" THEN RecipientId ELSE NotifierId
          BY <3>2
        <4> QED BY <3>1, <3>2, <3>5, <4>1, Joins
      <3>7. ASSUME NEW s \in ServiceId, NEW refs, Counts(noted, "rcv", s, refs)
            PROVE  Counts(ntf, "rcv", s, refs)
        <4>1. "rcv" \in {"rcv", "ntf"} \ {"ntf"}
          OBVIOUS
        <4> QED BY <3>1, <3>2, <3>7, <4>1, Joins
      <3>6. ASSUME NEW s \in ServiceId, NEW A, NEW B, Counts(base, "rcv", s, A), Counts(base, "ntf", s, B),
                   \A x \in notesOf(s) : x \notin B /\ base.services[s] # None
            PROVE  Counts(ntf, "rcv", s, A) /\ Counts(ntf, "ntf", s, B \cup notesOf(s))
        <4>1. Counts(noted, "rcv", s, A) /\ Counts(noted, "ntf", s, B)
          BY <3>3, <3>6
        <4>2. toNtf = s => n \notin B /\ noted.services[s] # None
          BY <2>2, <3>1, <3>6
        <4>3. Counts(ntf, "ntf", s, IF toNtf = s THEN B \cup {n} ELSE B)
          BY <3>5, <4>1, <4>2 DEF joinedRefs
        <4>4. Counts(ntf, "rcv", s, A)
          BY <3>7, <4>1
        <4>5. B \cup notesOf(s) = IF toNtf = s THEN B \cup {n} ELSE B
          BY <2>2
        <4> QED BY <4>3, <4>4, <4>5
      <3> QED BY <3>3, <3>4, <3>6, SameServicesTrans
    <2> QED BY <2>1, <2>2
  <1> HIDE DEF ntf
  <1>6. link \in Store /\ link.services = ntf.services /\ link.serviceCerts = ntf.serviceCerts
    <2>1. CASE q.queueData = None
      BY <1>5, <2>1
    <2>2. CASE q.queueData # None
      <3>1. q.queueData[1] \in LinkId /\ link = [ntf EXCEPT !.links[q.queueData[1]] = r]
        BY <1>1, <2>2
      <3> QED BY <1>1, <1>5, <3>1, IdFrame
    <2> QED BY <2>1, <2>2
  <1> HIDE DEF link
  <1>7. SameServices(ntf, link) /\ \A kind, s, refs : Counts(ntf, kind, s, refs) => Counts(link, kind, s, refs)
    BY <1>6, SameServicesCounts
  <1>8. st2 \in Store /\ SameServices(link, st2)
    BY <1>1, <1>4, <1>6, JoinsServices
  <1>9. ASSUME NEW s \in ServiceId
        PROVE  /\ \A refs : Counts(link, "rcv", s, refs)
                               /\ (toRcv = s => r \notin refs /\ link.services[s] # None) =>
                     Counts(st2, "rcv", s, joinedRefs(refs, r, toRcv, s))
               /\ \A k \in {"rcv", "ntf"} \ {"rcv"} : \A refs : Counts(link, k, s, refs) => Counts(st2, k, s, refs)
    BY <1>1, <1>4, <1>6, Joins
  <1>10. SameServices(st, ntf) /\ SameServices(st, link) /\ SameServices(st, st2)
    BY <1>3, <1>5, <1>7, <1>8, SameServicesTrans
  <1> SUFFICES ASSUME NEW s \in ServiceId, Good(st, s), s \in joined(line) => st.services[s] # None
               PROVE  Good(st2, s)
    BY <1>10 DEF StaysGood
  <1>11. /\ toRcv = s => st.services[s] # None
         /\ q.notifier # None /\ toNtf = s => st.services[s] # None
    BY StoreAssumption DEF usedServices, toRcv, toNtf
  <1>12. /\ st2.queues[r] = q /\ q \notin {Absent, Deleted} /\ st.queues[r] = Absent
         /\ q.notifier # None => st.notifiers[n] = None
    BY <1>1, RecTyped, StoreTyped DEF hasId, n
  <1>13. rcvRefs(st2, s) = IF toRcv = s THEN rcvRefs(st, s) \cup {r} ELSE rcvRefs(st, s)
    <2>1. /\ rcvRefs(st2, s) = (rcvRefs(st, s) \ {r})
                 \cup (IF q \notin {Absent, Deleted} /\ q.rcvServiceId = s THEN {r} ELSE {})
          /\ ntfRefs(st2, s) = (ntfRefs(st, s) \ notes(st, r, s)) \cup notes(st2, r, s)
      BY RefsAfter
    <2>2. r \notin rcvRefs(st, s)
      BY <1>12 DEF rcvRefs, isLive
    <2> QED BY <1>12, <2>1, <2>2 DEF toRcv
  <1>14. ntfRefs(st2, s) = ntfRefs(st, s) \cup notesOf(s)
    <2>1. ntfRefs(st2, s) = (ntfRefs(st, s) \ notes(st, r, s)) \cup notes(st2, r, s)
      BY RefsAfter
    <2>2. notes(st, r, s) = {} /\ notes(st2, r, s) = notesOf(s)
      BY <1>12 DEF notes, isLive, toNtf, n
    <2> QED BY <2>1, <2>2
  <1>15. Counts(ntf, "rcv", s, rcvRefs(st, s)) /\ Counts(ntf, "ntf", s, ntfRefs(st2, s))
    <2>1. Counts(base, "rcv", s, rcvRefs(st, s)) /\ Counts(base, "ntf", s, ntfRefs(st, s))
      BY <1>3 DEF Good
    <2>2. \A x \in notesOf(s) : x \notin ntfRefs(st, s) /\ base.services[s] # None
      BY <1>2, <1>11, <1>12 DEF ntfRefs
    <2> HIDE DEF notesOf
    <2> QED BY <1>5, <1>14, <2>1, <2>2
  <1>16. Counts(link, "rcv", s, rcvRefs(st, s)) /\ Counts(link, "ntf", s, ntfRefs(st2, s))
    BY <1>7, <1>15
  <1>17. Counts(st2, "rcv", s, rcvRefs(st2, s))
    <2>1. toRcv = s => r \notin rcvRefs(st, s) /\ link.services[s] # None
      BY <1>10, <1>11, <1>12 DEF rcvRefs, isLive, SameServices
    <2>2. Counts(st2, "rcv", s, IF toRcv = s THEN rcvRefs(st, s) \cup {r} ELSE rcvRefs(st, s))
      BY <1>9, <1>16, <2>1 DEF joinedRefs
    <2> QED BY <1>13, <2>2
  <1>18. Counts(st2, "ntf", s, ntfRefs(st2, s))
    BY <1>9, <1>16
  <1> QED BY <1>17, <1>18 DEF Good

(* A line that only writes a record. *)
LEMMA PutFrame ==
    ASSUME NEW st \in Store, NEW r \in RecipientId, NEW q2 \in QueueRec, NEW st2, st2 = put(st, r, q2)
    PROVE  st2 \in Store /\ st2.services = st.services /\ st2.serviceCerts = st.serviceCerts
  BY ZenonT(30), PutFields DEF Becomes

(* Every line but the creation of a service keeps what services count. *)
LEMMA LineGood ==
    ASSUME NEW st, StoreOK(st), NEW line \in Line, line.op # "NewService", Plain(line),
           fits(st, line), NEW st2, st2 = procLogRecord(st, line)
    PROVE  StoreOK(st2) /\ StaysGood(st, st2, line)
  <1> DEFINE r == line.id
             q == st.queues[r]
             q2 == newRec(line, q)
  <1>1. st \in Store /\ r \in RecipientId
    BY LineTyped DEF StoreOK
  <1>2. Taken(st, line, st2)
    BY <1>1, FitsTaken
  <1>3. st2.queues = [st.queues EXCEPT ![r] = q2] /\ (q2 = Deleted <=> line.op = "DeleteQueue")
        /\ q2 \in QueueRec \cup {Deleted} /\ st2 \in Store
    BY <1>2 DEF Taken
  <1>4. StoreOK(st2)
    <2>1. st2 # Refused
      BY <1>3, SentinelAssumption DEF Refused
    <2> QED BY <2>1, LineEffect
  <1>5. CASE line.op = "CreateQueue"
    <2>1. line.arg \in QueueRec /\ ~hasId(st, r, line.arg) /\ st2 = addQueue(st, r, line.arg)
      BY <1>5, LineTyped DEF fits, procLogRecord
    <2>2. q2 = line.arg /\ joined(line) = usedServices(line.arg)
      BY <1>5 DEF newRec, joined
    <2>3. st2.queues = [st.queues EXCEPT ![r] = line.arg]
      BY <1>3, <2>2
    <2> QED BY <1>1, <1>4, <2>1, <2>2, <2>3, CreateStaysGood
  <1>6. CASE line.op = "DeleteQueue"
    <2>1. isLive(st, r) /\ st2 = deleteStoreQueue(st, r) /\ st2.queues = [st.queues EXCEPT ![r] = Deleted]
      BY <1>3, <1>6 DEF fits, procLogRecord
    <2> QED BY <1>1, <1>4, <2>1, DeleteStaysGood
  <1>7. ASSUME line.op \notin {"CreateQueue", "DeleteQueue"}
        PROVE  isLive(st, r) /\ q \in QueueRec /\ q2 \in QueueRec
    BY <1>1, <1>3, <1>7, LiveTyped DEF fits
  <1>8. CASE line.op \in {"SecureQueue", "UpdateKeys", "UpdateTime", "SuspendQueue", "BlockQueue",
                          "UnblockQueue"}
    <2>1. st2 = put(st, r, q2)
      BY <1>7, <1>8 DEF procLogRecord, newRec, fits, secureQueue, updateKeys, updateQueueTime, setStatus
    <2>2. q2.rcvServiceId = q.rcvServiceId /\ q2.notifier = q.notifier
      BY <1>7, <1>8 DEF newRec, QueueRec
    <2> HIDE DEF q2
    <2>3. st2.services = st.services /\ st2.serviceCerts = st.serviceCerts
      BY <1>1, <1>7, <1>8, <2>1, PutFrame
    <2> QED BY <1>1, <1>3, <1>4, <1>7, <1>8, <2>2, <2>3, OthersStayGood
  <1>9. CASE line.op = "CreateLink"
    <2>1. line.arg[1] \in LinkId /\ r \in Maybe(RecipientId)
      BY <1>1, <1>9, LineTyped DEF Maybe
    <2>2. st2 = [put(st, r, q2) EXCEPT !.links[line.arg[1]] = r]
      BY <1>7, <1>9 DEF fits, procLogRecord, addQueueLinkData, newRec
    <2>3. q2.rcvServiceId = q.rcvServiceId /\ q2.notifier = q.notifier
      BY <1>7, <1>9 DEF newRec, QueueRec
    <2> HIDE DEF q2
    <2>4. /\ put(st, r, q2) \in Store /\ put(st, r, q2).services = st.services
          /\ put(st, r, q2).serviceCerts = st.serviceCerts
      BY <1>1, <1>7, <1>9, PutFrame
    <2>5. st2.services = st.services /\ st2.serviceCerts = st.serviceCerts
      BY <2>1, <2>2, <2>4, IdFrame
    <2> QED BY <1>1, <1>3, <1>4, <1>7, <1>9, <2>3, <2>5, OthersStayGood
  <1>10. CASE line.op = "DeleteLink"
    <2>1. st2 = deleteQueueLinkData(st, r) /\ q2 = [q EXCEPT !.queueData = None]
      BY <1>7, <1>10 DEF procLogRecord, newRec
    <2>2. q2.rcvServiceId = q.rcvServiceId /\ q2.notifier = q.notifier
      BY <1>7, <1>10, <2>1 DEF QueueRec
    <2>3. st2.services = st.services /\ st2.serviceCerts = st.serviceCerts
      <3>1. CASE q.queueData = None
        BY <2>1, <3>1 DEF deleteQueueLinkData
      <3>2. CASE q.queueData # None
        <4>1. q.queueData[1] \in LinkId /\ None \in Maybe(RecipientId)
          BY <1>7, <1>10, <3>2, RecTyped DEF Maybe
        <4>2. st2 = [put(st, r, q2) EXCEPT !.links[q.queueData[1]] = None]
          BY <2>1, <3>2 DEF deleteQueueLinkData
        <4> HIDE DEF q2
        <4>3. /\ put(st, r, q2) \in Store /\ put(st, r, q2).services = st.services
              /\ put(st, r, q2).serviceCerts = st.serviceCerts
          BY <1>1, <1>7, <1>10, PutFrame
        <4> QED BY <4>1, <4>2, <4>3, IdFrame
      <3> QED BY <3>1, <3>2
    <2> HIDE DEF q2
    <2> QED BY <1>1, <1>3, <1>4, <1>7, <1>10, <2>2, <2>3, OthersStayGood
  <1>11. CASE line.op \in {"AddNotifier", "DeleteNotifier"}
    <2> DEFINE st1 == removeNotifier(st, q.notifier)
    <2>1. q.notifier \in Maybe(NtfCreds)
      BY <1>7, <1>11, RecTyped
    <2>2. st1 \in Store
      BY <1>1, <2>1, RemoveNotifierFrame
    <2>3. /\ q2.rcvServiceId = q.rcvServiceId
          /\ q2.notifier # None => q2.notifier.ntfServiceId = None
      BY <1>7, <1>11 DEF newRec, QueueRec, Plain
    <2>4. \/ st2 = put(st1, r, q2)
          \/ line.op = "AddNotifier" /\ st2 = [put(st1, r, q2) EXCEPT !.notifiers[line.arg.notifierId] = r]
      BY <1>7, <1>11 DEF fits, procLogRecord, newRec, addQueueNotifier, deleteQueueNotifier
    <2> HIDE DEF q2, st1
    <2>5. /\ put(st1, r, q2) \in Store /\ put(st1, r, q2).services = st1.services
          /\ put(st1, r, q2).serviceCerts = st1.serviceCerts
      BY <1>1, <1>7, <1>11, <2>2, PutFrame
    <2>6. line.op = "AddNotifier" => line.arg.notifierId \in NotifierId
      BY LineTyped DEF NtfCreds
    <2>7. st2.services = st1.services /\ st2.serviceCerts = st1.serviceCerts
      <3>1. r \in Maybe(RecipientId)
        BY <1>1 DEF Maybe
      <3> QED BY <2>4, <2>5, <2>6, <3>1, IdFrame
    <2>8. /\ st2.services = removeNotifier(st, st.queues[r].notifier).services
          /\ st2.serviceCerts = removeNotifier(st, st.queues[r].notifier).serviceCerts
      BY <2>7 DEF st1
    <2> QED BY <1>1, <1>3, <1>4, <1>7, <1>11, <2>3, <2>8, NotifierStaysGood
  <1>12. CASE line.op = "RcvService"
    <2>1. line.arg \in Maybe(ServiceId) /\ st2 = setRcvService(st, r, line.arg)
          /\ joined(line) = {line.arg} \ {None}
      BY <1>7, <1>12, LineTyped DEF procLogRecord, joined
    <2>2. q2.rcvServiceId = line.arg /\ q2.notifier = q.notifier
      BY <1>7, <1>12, <2>1 DEF newRec, QueueRec
    <2> DEFINE moved == moveServiceQueue(st, "rcv", r, q.rcvServiceId, line.arg)
    <2>3. moved \in Store
      <3>1. q.rcvServiceId \in Maybe(ServiceId) /\ r \in IF "rcv" = "rcv" THEN RecipientId ELSE NotifierId
        BY <1>1, <1>7, <1>12, RecTyped
      <3> QED BY <1>1, <2>1, <3>1, MoveServiceFrame DEF Becomes
    <2>4. IF q.rcvServiceId = line.arg THEN st2 = st ELSE st2 = put(moved, r, q2)
      BY <1>12, <2>1 DEF setRcvService, newRec
    <2>5. moved = moveServiceQueue(st, "rcv", r, st.queues[r].rcvServiceId, line.arg)
      OBVIOUS
    <2> HIDE DEF q2, moved
    <2>6. IF q.rcvServiceId = line.arg THEN st2 = st
          ELSE st2.services = moved.services /\ st2.serviceCerts = moved.serviceCerts
      BY <1>1, <1>7, <1>12, <2>3, <2>4, PutFrame
    <2> QED BY <1>1, <1>3, <1>4, <1>7, <1>12, <2>1, <2>2, <2>5, <2>6, RcvStaysGood
  <1>13. CASE line.op = "NtfService"
    <2>1. line.arg \in Maybe(ServiceId) /\ st2 = setNtfService(st, r, line.arg)
          /\ joined(line) = {line.arg} \ {None} /\ q.notifier # None
      BY <1>7, <1>13, LineTyped DEF procLogRecord, joined, fits
    <2>2. /\ q2.rcvServiceId = q.rcvServiceId /\ q2.notifier # None
          /\ q2.notifier.notifierId = q.notifier.notifierId /\ q2.notifier.ntfServiceId = line.arg
      <3> DEFINE nc2 == [q.notifier EXCEPT !.ntfServiceId = line.arg]
      <3>1. q.notifier \in NtfCreds
        BY <1>7, <1>13, <2>1, RecTyped
      <3>2. nc2 \in NtfCreds /\ nc2.notifierId = q.notifier.notifierId /\ nc2.ntfServiceId = line.arg
        BY <2>1, <3>1 DEF NtfCreds
      <3>3. nc2 # None
        BY <3>2, SentinelAssumption
      <3> HIDE DEF nc2
      <3>4. q2 = [q EXCEPT !.notifier = nc2]
        BY <1>13 DEF newRec, nc2
      <3> HIDE DEF q2
      <3>5. q2.notifier = nc2 /\ q2.rcvServiceId = q.rcvServiceId
        BY <1>7, <1>13, <3>4 DEF QueueRec
      <3> QED BY <3>2, <3>3, <3>5
    <2> DEFINE moved == moveServiceQueue(st, "ntf", q.notifier.notifierId, q.notifier.ntfServiceId, line.arg)
    <2>3. moved \in Store
      <3>1. /\ q.notifier.ntfServiceId \in Maybe(ServiceId)
            /\ q.notifier.notifierId \in IF "ntf" = "rcv" THEN RecipientId ELSE NotifierId
        BY <1>7, <1>13, <2>1, RecTyped
      <3> QED BY <1>1, <2>1, <3>1, MoveServiceFrame DEF Becomes
    <2>4. IF q.notifier.ntfServiceId = line.arg THEN st2 = st ELSE st2 = put(moved, r, q2)
      BY <1>13, <2>1 DEF setNtfService, newRec
    <2>5. moved = moveServiceQueue(st, "ntf", st.queues[r].notifier.notifierId,
                                   st.queues[r].notifier.ntfServiceId, line.arg)
      OBVIOUS
    <2> HIDE DEF q2, moved
    <2>6. IF q.notifier.ntfServiceId = line.arg THEN st2 = st
          ELSE st2.services = moved.services /\ st2.serviceCerts = moved.serviceCerts
      BY <1>1, <1>7, <1>13, <2>3, <2>4, PutFrame
    <2> QED BY <1>1, <1>3, <1>4, <1>7, <1>13, <2>1, <2>2, <2>5, <2>6, NtfStaysGood
  <1>14. line.op \in {"CreateQueue", "DeleteQueue", "SecureQueue", "UpdateKeys", "UpdateTime", "SuspendQueue",
                      "BlockQueue", "UnblockQueue", "CreateLink", "DeleteLink", "AddNotifier",
                      "DeleteNotifier", "RcvService", "NtfService"}
    BY DEF Line
  <1> QED BY <1>4, <1>5, <1>6, <1>8, <1>9, <1>10, <1>11, <1>12, <1>13, <1>14

-----------------------------------------------------------------------------
(* What a store has of services after a line. *)
Serves(st, line, st2) ==
    /\ StoreOK(st2) /\ CertsOK(st2)
    /\ \A s \in ServiceId : /\ st.services[s] # None => st2.services[s] # None
                            /\ st2.services[s] # None =>
                                  st.services[s] # None \/ (line.op = "NewService" /\ s = line.id)
    /\ \A c \in Cert : /\ st.serviceCerts[c] # None => st2.serviceCerts[c] # None
                       /\ st2.serviceCerts[c] # None =>
                             st.serviceCerts[c] # None \/ (line.op = "NewService" /\ c = line.arg.cert)
    /\ \A s \in ServiceId : Good(st, s) /\ (s \in joined(line) => st.services[s] # None) => Good(st2, s)

(* Certificates and services are one to one in all stores with the same services. *)
LEMMA SameServicesCerts ==
    ASSUME NEW st \in Store, NEW st2, SameServices(st, st2), CertsOK(st)
    PROVE  CertsOK(st2)
  BY StoreTyped DEF SameServices, CertsOK, Maybe, Service

(* A service is created only if neither its id nor its certificate is there. *)
LEMMA NewServiceServes ==
    ASSUME NEW st, StoreOK(st), CertsOK(st), NEW line \in Line, line.op = "NewService",
           NEW st2, st2 = procLogRecord(st, line), st2 # Refused
    PROVE  /\ Serves(st, line, st2)
           /\ st.serviceCerts[line.arg.cert] = None =>
                 st.services[line.id] = None /\ st2.services[line.id] # None
                 /\ st2.serviceCerts[line.arg.cert] # None
  <1> DEFINE s0 == line.id
             c0 == line.arg.cert
             empty == [ids |-> {}, hash |-> {}]
             new == [cert |-> c0, role |-> line.arg.role, rcv |-> empty, ntf |-> empty]
             create == [st EXCEPT !.services[s0] = new, !.serviceCerts[c0] = s0]
  <1>1. st \in Store /\ s0 \in ServiceId /\ c0 \in Cert /\ line.arg.role \in Role
    BY LineTyped DEF StoreOK
  <1>2. st2 = getCreateService(st, s0, c0, line.arg.role)
    BY DEF procLogRecord
  <1>3. StoreOK(st2) /\ st2 \in Store
    BY LineEffect DEF StoreOK
  <1>4. joined(line) = {}
    BY DEF joined
  <1>5. st.serviceCerts[c0] # None => st.serviceCerts[c0] \in ServiceId /\ st.services[st.serviceCerts[c0]] # None
    BY <1>1, StoreTyped DEF CertsOK, Maybe
  <1>6. CASE st.serviceCerts[c0] # None
    <2>1. st2 = st
      BY <1>2, <1>5, <1>6 DEF getCreateService, Refused
    <2> QED BY <1>3, <1>6, <2>1 DEF Serves
  <1>7. CASE st.serviceCerts[c0] = None
    <2>1. st.services[s0] = None /\ st2 = create
      BY <1>2, <1>7 DEF getCreateService, Refused
    <2>2. new \in Service
      BY <1>1 DEF Service, IdsHash
    <2>3. new # None /\ s0 # None
      BY <1>1, <2>2, SentinelAssumption, StoreAssumption
    <2>4. new.cert = c0 /\ new["rcv"] = empty /\ new["ntf"] = empty
      OBVIOUS
    <2> HIDE DEF new
    <2>5. /\ st2.services = [st.services EXCEPT ![s0] = new]
          /\ st2.serviceCerts = [st.serviceCerts EXCEPT ![c0] = s0]
          /\ st2.queues = st.queues /\ st2.notifiers = st.notifiers
      BY <1>1, <2>1, StoreTyped
    <2> HIDE DEF create
    <2>6. /\ st2.services[s0] = new /\ \A s \in ServiceId \ {s0} : st2.services[s] = st.services[s]
          /\ st2.serviceCerts[c0] = s0 /\ \A c \in Cert \ {c0} : st2.serviceCerts[c] = st.serviceCerts[c]
      BY <1>1, <2>5, StoreTyped
    <2>7. CertsOK(st2)
      <3>1. ASSUME NEW c \in Cert, st2.serviceCerts[c] # None
            PROVE  st2.services[st2.serviceCerts[c]] # None /\ st2.services[st2.serviceCerts[c]].cert = c
        <4>1. CASE c = c0
          BY <2>3, <2>4, <2>6, <4>1
        <4>2. CASE c # c0
          <5>1. /\ st2.serviceCerts[c] = st.serviceCerts[c] /\ st.serviceCerts[c] \in ServiceId
                /\ st.services[st.serviceCerts[c]] # None /\ st.services[st.serviceCerts[c]].cert = c
            BY <1>1, <2>6, <3>1, <4>2, StoreTyped DEF CertsOK, Maybe
          <5> QED BY <2>1, <2>6, <5>1
        <4> QED BY <4>1, <4>2
      <3>2. ASSUME NEW s \in ServiceId, st2.services[s] # None
            PROVE  st2.serviceCerts[st2.services[s].cert] = s
        <4>1. CASE s = s0
          BY <2>4, <2>6, <4>1
        <4>2. CASE s # s0
          <5>1. /\ st2.services[s] = st.services[s] /\ st.services[s] # None
                /\ st.serviceCerts[st.services[s].cert] = s /\ st.services[s].cert \in Cert
            BY <1>1, <2>6, <3>2, <4>2, StoreTyped DEF CertsOK, Maybe, Service
          <5>2. st.services[s].cert # c0
            BY <1>7, <5>1, StoreAssumption
          <5> QED BY <2>6, <5>1, <5>2
        <4> QED BY <4>1, <4>2
      <3> QED BY <3>1, <3>2 DEF CertsOK
    <2>8. ASSUME NEW s \in ServiceId, Good(st, s) PROVE Good(st2, s)
      <3>1. rcvRefs(st2, s) = rcvRefs(st, s) /\ ntfRefs(st2, s) = ntfRefs(st, s)
        BY <2>5 DEF rcvRefs, ntfRefs, isLive
      <3>2. CASE s = s0
        <4>1. rcvRefs(st, s) = {} /\ ntfRefs(st, s) = {}
          BY <2>1, <2>8, <3>2 DEF Good, Counts
        <4> QED BY <2>3, <2>4, <2>6, <3>1, <3>2, <4>1 DEF Good, Counts
      <3>3. CASE s # s0
        BY <2>6, <2>8, <3>1, <3>3 DEF Good, Counts
      <3> QED BY <3>2, <3>3
    <2> QED BY <1>3, <2>1, <2>3, <2>6, <2>7, <2>8 DEF Serves
  <1> QED BY <1>6, <1>7

(* What a store has of services after any line that it takes. *)
LEMMA LineServes ==
    ASSUME NEW st, StoreOK(st), CertsOK(st), NEW line \in Line, Plain(line),
           NEW st2, st2 = procLogRecord(st, line), st2 # Refused
    PROVE  Serves(st, line, st2)
  <1>1. CASE line.op = "NewService"
    BY <1>1, NewServiceServes
  <1>2. CASE line.op # "NewService"
    <2>1. fits(st, line) /\ st \in Store
      BY <1>2, TakenFits DEF StoreOK
    <2>2. StoreOK(st2) /\ StaysGood(st, st2, line)
      BY <1>2, <2>1, LineGood
    <2>3. CertsOK(st2)
      BY <2>1, <2>2, SameServicesCerts DEF StaysGood
    <2> QED BY <2>2, <2>3 DEF Serves, StaysGood, SameServices
  <1> QED BY <1>1, <1>2

(* Appending a line to a file serves the store that the file replays to,   *)
(* whether the line is accepted or skipped.                                *)
LEMMA AppendedServes ==
    ASSUME NEW f, StoreOK(f), CertsOK(f), NEW line \in Line, Plain(line),
           NEW f2, f2 = appended(f, line)
    PROVE  /\ Serves(f, line, f2)
           /\ line.op = "NewService" /\ f.serviceCerts[line.arg.cert] = None /\ f.services[line.id] = None =>
                 f2.services[line.id] # None
  <1>1. CASE procLogRecord(f, line) = Refused
    <2>1. f2 = f
      BY <1>1 DEF appended
    <2>2. ~(line.op = "NewService" /\ f.serviceCerts[line.arg.cert] = None /\ f.services[line.id] = None)
      <3> SUFFICES ASSUME line.op = "NewService", f.serviceCerts[line.arg.cert] = None,
                          f.services[line.id] = None
                   PROVE  FALSE
        OBVIOUS
      <3> DEFINE empty == [ids |-> {}, hash |-> {}]
                 new == [cert |-> line.arg.cert, role |-> line.arg.role, rcv |-> empty, ntf |-> empty]
                 create == [f EXCEPT !.services[line.id] = new, !.serviceCerts[line.arg.cert] = line.id]
      <3>1. procLogRecord(f, line) = create
        BY DEF procLogRecord, getCreateService
      <3>2. f \in Store /\ line.id \in ServiceId /\ line.arg.cert \in Cert /\ line.arg.role \in Role
        BY LineTyped DEF StoreOK
      <3>3. new \in Service
        BY <3>2 DEF Service, IdsHash
      <3>4. /\ [f.services EXCEPT ![line.id] = new] \in [ServiceId -> Maybe(Service)]
            /\ [f.serviceCerts EXCEPT ![line.arg.cert] = line.id] \in [Cert -> Maybe(ServiceId)]
        BY <3>2, <3>3, StoreTyped DEF Maybe
      <3> HIDE DEF new
      <3>5. create \in Store
        BY <3>2, <3>4, StoreTyped DEF Store
      <3> QED BY <1>1, <3>1, <3>5, SentinelAssumption DEF Refused
    <2> QED BY <2>1, <2>2 DEF Serves
  <1>2. CASE procLogRecord(f, line) # Refused
    <2>1. f2 = procLogRecord(f, line) /\ f2 # Refused
      BY <1>2 DEF appended
    <2>2. Serves(f, line, f2)
      BY <2>1, LineServes
    <2> QED BY <2>1, <2>2, NewServiceServes
  <1> QED BY <1>1, <1>2

-----------------------------------------------------------------------------
(* The services that the queue of an accepted line joins: they are in      *)
(* memory, and the operation uses them.                                    *)
LEMMA JoinsKnown ==
    ASSUME IInv, NEW t \in Thread, NEW line \in Line, Accepted(t, line), line.op # "NewService",
           NEW s \in ServiceId, s \in joined(line)
    PROVE  mem.services[s] # None /\ s \in used(line, mem, mem')
  <1>1. /\ mem \in Store /\ mem' \in Store /\ line.id \in RecipientId
        /\ mem' = procLogRecord(mem, line) /\ mem' # Refused
    BY TransactFacts, LineTyped DEF Accepted, IInv, TypeOK
  <1>2. s # None
    BY StoreAssumption
  <1>3. mem.services[s] # None
    BY <1>2 DEF Accepted, Guarded, joined, usedServices
  <1>4. Taken(mem, line, mem') /\ fits(mem, line)
    BY <1>1, TakenFits, FitsTaken
  <1> DEFINE q == newRec(line, mem.queues[line.id])
  <1>5. mem'.queues[line.id] = q
    BY <1>1, <1>4, StoreTyped DEF Taken
  <1>6. line.op # "DeleteQueue" /\ line.op \in {"CreateQueue", "RcvService", "NtfService"}
    BY DEF joined
  <1>7. q \in QueueRec
    BY <1>4, <1>6 DEF Taken
  <1>8. s \in usedServices(q)
    <2>1. CASE line.op = "CreateQueue"
      BY <2>1 DEF joined, newRec
    <2>2. CASE line.op \in {"RcvService", "NtfService"}
      <3>1. s = line.arg /\ isLive(mem, line.id) /\ mem.queues[line.id] \in QueueRec
        BY <1>1, <1>4, <2>2, LiveTyped DEF joined, fits
      <3>2. CASE line.op = "RcvService"
        BY <1>2, <3>1, <3>2 DEF newRec, QueueRec, usedServices
      <3>3. CASE line.op = "NtfService"
        <4> DEFINE nc == mem.queues[line.id].notifier
                   nc2 == [nc EXCEPT !.ntfServiceId = line.arg]
        <4>1. nc \in NtfCreds
          BY <1>4, <3>1, <3>3, RecTyped DEF fits
        <4>2. nc2 \in NtfCreds /\ nc2.ntfServiceId = s
          BY <3>1, <4>1 DEF NtfCreds, Maybe
        <4>3. nc2 # None
          BY <4>2, SentinelAssumption
        <4> HIDE DEF nc2
        <4>4. q = [mem.queues[line.id] EXCEPT !.notifier = nc2]
          BY <3>3 DEF newRec, nc2
        <4> HIDE DEF q
        <4>5. q.notifier = nc2
          BY <3>1, <4>4 DEF QueueRec
        <4> QED BY <1>2, <4>2, <4>3, <4>5 DEF usedServices
      <3> QED BY <2>2, <3>2, <3>3
    <2> QED BY <1>6, <2>1, <2>2
  <1> HIDE DEF q
  <1>9. q \in recsOf(line, mem, mem')
    BY <1>5, <1>7, RecTyped DEF recsOf
  <1> QED BY <1>3, <1>8, <1>9 DEF used

(* An accepted operation: what it uses of services that are being created  *)
(* is in doubt, and what was in doubt stays so.                            *)
LEMMA AcceptedDoubts ==
    ASSUME IInv, NEW t \in Thread, NEW line \in Line, Accepted(t, line)
    PROVE  /\ unsure \subseteq unsure'
           /\ inflight[t] = None /\ inflight'[t] # None /\ inflight'[t].line = line
           /\ inflight'[t].claims = claimed(line, mem, mem')
           /\ \A u \in Thread \ {t} : inflight'[u] = inflight[u]
           /\ \A u \in Thread : inflight[u] # None
                   /\ inflight[u].claims \cap used(line, mem, mem') # {} => inflight[u].claims \subseteq unsure'
  <1> DEFINE job == [line |-> line, claims |-> claimed(line, mem, mem'), uses |-> used(line, mem, mem')]
             others == {inflight[u] : u \in {v \in Thread : inflight[v] # None}}
             rivals == {o \in others : interferes(job, o)}
  <1>1. /\ inflight[t] = None
        /\ inflight' = [inflight EXCEPT ![t] = job]
        /\ unsure' = IF rivals # {} \/ (job.claims \cup job.uses) \cap unsure # {}
                     THEN unsure \cup job.claims \cup UNION {o.claims : o \in rivals}
                     ELSE unsure
    BY DEF Accepted, Transact
  <1>2. job \in Job
    BY TransactFacts, ClaimsTyped DEF Accepted, IInv, TypeOK, Job
  <1>3. job # None /\ inflight'[t] = job /\ \A u \in Thread \ {t} : inflight'[u] = inflight[u]
    BY <1>1, <1>2, SentinelAssumption DEF IInv, TypeOK
  <1>4. job.line = line /\ job.claims = claimed(line, mem, mem') /\ job.uses = used(line, mem, mem')
    OBVIOUS
  <1>5. ASSUME NEW u \in Thread, inflight[u] # None, inflight[u].claims \cap used(line, mem, mem') # {}
        PROVE  inflight[u].claims \subseteq unsure'
    <2>1. inflight[u] \in rivals
      BY <1>4, <1>5 DEF interferes
    <2> HIDE DEF rivals, job
    <2> QED BY <1>1, <2>1
  <1> HIDE DEF rivals, job
  <1>6. unsure \subseteq unsure'
    BY <1>1
  <1> QED BY <1>1, <1>3, <1>4, <1>5, <1>6

(* A transaction keeps the invariant. *)
LEMMA AcceptedServices ==
    ASSUME IInv, ServiceInv, NEW t \in Thread, NEW line \in Line, Accepted(t, line)
    PROVE  ServiceInv'
  <1>1. /\ phase = "running" /\ phase' = "running" /\ file # None /\ start = None
        /\ StoreOK(mem) /\ mem \in Store /\ mem' \in Store
        /\ mem' = procLogRecord(mem, line) /\ mem' # Refused
        /\ UNCHANGED <<file, start>>
    BY TransactFacts, StoresOK DEF Accepted, IInv, TypeOK, Phases
  <1>2. /\ unsure \subseteq unsure'
        /\ inflight[t] = None /\ inflight'[t] # None /\ inflight'[t].line = line
        /\ inflight'[t].claims = claimed(line, mem, mem')
        /\ \A u \in Thread \ {t} : inflight'[u] = inflight[u]
        /\ \A u \in Thread : inflight[u] # None
                /\ inflight[u].claims \cap used(line, mem, mem') # {} => inflight[u].claims \subseteq unsure'
    BY AcceptedDoubts
  <1>3. Plain(line)
    BY DEF Accepted, Guarded, Plain
  <1>4. CertsOK(mem) /\ \A s \in ServiceId : s \notin unsure => Good(mem, s)
    BY DEF ServiceInv, AllGood, stores
  <1>5. Serves(mem, line, mem')
    BY <1>1, <1>3, <1>4, LineServes
  <1>6. ASSUME NEW s \in ServiceId, s \in joined(line)
        PROVE  mem.services[s] # None /\ s \in used(line, mem, mem')
    <2>1. line.op # "NewService"
      BY <1>6 DEF joined
    <2> QED BY <1>6, <2>1, JoinsKnown
  <1>7. AllGood'
    <2>1. ASSUME NEW s \in ServiceId, s \notin unsure' PROVE Good(mem', s)
      BY <1>2, <1>4, <1>5, <1>6, <2>1 DEF Serves
    <2>2. ASSUME NEW st \in stores', st # mem'
          PROVE  CertsOK(st) /\ \A s \in ServiceId : s \notin unsure' => Good(st, s)
      <3>1. st \in stores
        BY <1>1, <2>2 DEF stores
      <3> QED BY <1>2, <3>1 DEF ServiceInv, AllGood
    <2>3. CertsOK(mem')
      BY <1>5 DEF Serves
    <2>4. \A st \in stores' : CertsOK(st) /\ \A s \in ServiceId : s \notin unsure' => Good(st, s)
      BY <2>1, <2>2, <2>3
    <2> QED BY <2>4 DEF AllGood
  <1>8. JoinedKnown'
    <2> SUFFICES ASSUME NEW u \in Thread, onQueue(u)'
                 PROVE  /\ Plain(inflight'[u].line)
                        /\ \A s \in joined(inflight'[u].line) : s \notin unsure' => file.services[s] # None
      BY <1>1 DEF JoinedKnown
    <2>1. CASE u # t
      <3>1. onQueue(u) /\ inflight'[u] = inflight[u]
        BY <1>2, <2>1 DEF onQueue
      <3> QED BY <1>2, <3>1 DEF ServiceInv, JoinedKnown
    <2>2. CASE u = t
      <3>1. ASSUME NEW s \in joined(line), s \notin unsure' PROVE file.services[s] # None
        <4>1. s \in ServiceId
          <5>1. line.op \in {"RcvService", "NtfService"} => line.arg \in Maybe(ServiceId)
            BY LineTyped
          <5>2. line.op = "CreateQueue" => usedServices(line.arg) \subseteq ServiceId
            BY LineTyped, RecTyped DEF usedServices, Maybe
          <5> QED BY <5>1, <5>2 DEF joined, Maybe
        <4>2. mem.services[s] # None /\ s \in used(line, mem, mem') /\ s \notin unsure
          BY <1>2, <1>6, <3>1, <4>1
        <4>3. file.services[s] # None \/ \E v \in Thread : creates(v) /\ inflight[v].line.id = s
          BY <1>1, <4>1, <4>2 DEF ServiceInv, ServicesOnTheWay
        <4>4. ASSUME NEW v \in Thread, creates(v), inflight[v].line.id = s PROVE FALSE
          <5>1. inflight[v] # None /\ inflight[v].claims = {s}
            BY <4>4 DEF ServiceInv, CreatedOnce, creates
          <5>2. inflight[v].claims \cap used(line, mem, mem') # {}
            BY <4>2, <5>1
          <5>3. {s} \subseteq unsure'
            BY <1>2, <5>1, <5>2
          <5> QED BY <3>1, <5>3
        <4> QED BY <4>3, <4>4
      <3> QED BY <1>2, <1>3, <2>2, <3>1
    <2> QED BY <2>1, <2>2
  <1>9. FileServices'
    <2>1. /\ \A s \in ServiceId : file.services[s] # None => mem.services[s] # None
          /\ \A c \in Cert : file.serviceCerts[c] # None => mem.serviceCerts[c] # None
      BY <1>1 DEF ServiceInv, FileServices
    <2>2. /\ \A s \in ServiceId : file.services[s] # None => mem'.services[s] # None
          /\ \A c \in Cert : file.serviceCerts[c] # None => mem'.serviceCerts[c] # None
      BY <1>5, <2>1 DEF Serves
    <2> QED BY <1>1, <2>2 DEF FileServices
  <1>10. ServicesOnTheWay'
    <2> SUFFICES ASSUME NEW s \in ServiceId, mem'.services[s] # None, s \notin unsure'
                 PROVE  \/ file.services[s] # None
                        \/ \E u \in Thread : creates(u)' /\ inflight'[u].line.id = s
      BY <1>1 DEF ServicesOnTheWay
    <2>1. CASE mem.services[s] # None
      <3>1. file.services[s] # None \/ \E u \in Thread : creates(u) /\ inflight[u].line.id = s
        BY <1>1, <1>2, <2>1 DEF ServiceInv, ServicesOnTheWay
      <3>2. ASSUME NEW u \in Thread, creates(u) PROVE creates(u)' /\ inflight'[u] = inflight[u]
        BY <1>2, <3>2 DEF creates
      <3> QED BY <3>1, <3>2
    <2>2. CASE mem.services[s] = None
      <3>1. line.op = "NewService" /\ line.id = s
        BY <1>5, <2>2 DEF Serves
      <3>2. creates(t)' /\ inflight'[t].line.id = s
        BY <1>2, <3>1 DEF creates
      <3> QED BY <3>2
    <2> QED BY <2>1, <2>2
  <1>11. CreatedOnce'
    <2>1. ASSUME line.op = "NewService"
          PROVE  /\ line.id \in ServiceId /\ line.arg.cert \in Cert
                 /\ mem.services[line.id] = None /\ mem'.services[line.id] # None
                 /\ mem.serviceCerts[line.arg.cert] = None /\ mem'.serviceCerts[line.arg.cert] # None
                 /\ file.services[line.id] = None /\ file.serviceCerts[line.arg.cert] = None
                 /\ claimed(line, mem, mem') = {line.id}
      <3>1. line.id \in ServiceId /\ line.arg.cert \in Cert /\ mem.serviceCerts[line.arg.cert] = None
        BY <2>1, LineTyped DEF Accepted, Guarded
      <3>2. /\ mem.services[line.id] = None /\ mem'.services[line.id] # None
            /\ mem'.serviceCerts[line.arg.cert] # None
        BY <1>1, <1>4, <2>1, <3>1, NewServiceServes
      <3>3. file.services[line.id] = None /\ file.serviceCerts[line.arg.cert] = None
        BY <1>1, <3>1, <3>2 DEF ServiceInv, FileServices
      <3>4. claimed(line, mem, mem') = {line.id}
        BY <2>1 DEF claimed, recsOf
      <3> QED BY <3>1, <3>2, <3>3, <3>4
    <2>2. ASSUME NEW u \in Thread, creates(u)
          PROVE  /\ u # t /\ creates(u)' /\ inflight'[u] = inflight[u]
                 /\ inflight[u].line.id \in ServiceId /\ inflight[u].line.arg.cert \in Cert
                 /\ mem.services[inflight[u].line.id] # None /\ mem.serviceCerts[inflight[u].line.arg.cert] # None
      <3>1. inflight[u] \in Job /\ inflight[u].line \in Line
        BY <2>2 DEF creates, IInv, TypeOK, Maybe, Job
      <3>2. inflight[u].line.id \in ServiceId /\ inflight[u].line.arg.cert \in Cert
        BY <2>2, <3>1, LineTyped DEF creates
      <3> QED BY <1>2, <2>2, <3>2 DEF ServiceInv, CreatedOnce, creates
    <2>3. ASSUME NEW u \in Thread, creates(u)' PROVE creates(u) \/ (u = t /\ line.op = "NewService")
      BY <1>2, <2>3 DEF creates
    <2> SUFFICES ASSUME NEW u \in Thread, creates(u)'
                 PROVE  LET l == inflight'[u].line
                        IN  /\ mem'.services[l.id] # None /\ file.services[l.id] = None
                            /\ mem'.serviceCerts[l.arg.cert] # None /\ file.serviceCerts[l.arg.cert] = None
                            /\ inflight'[u].claims = {l.id}
                            /\ \A v \in Thread : creates(v)' /\ v # u =>
                                  inflight'[v].line.id # l.id /\ inflight'[v].line.arg.cert # l.arg.cert
      BY <1>1 DEF CreatedOnce
    <2>4. CASE creates(u)
      <3>1. LET l == inflight[u].line
            IN  /\ mem.services[l.id] # None /\ file.services[l.id] = None
                /\ mem.serviceCerts[l.arg.cert] # None /\ file.serviceCerts[l.arg.cert] = None
                /\ inflight[u].claims = {l.id}
                /\ \A v \in Thread : creates(v) /\ v # u =>
                      inflight[v].line.id # l.id /\ inflight[v].line.arg.cert # l.arg.cert
        BY <2>4 DEF ServiceInv, CreatedOnce
      <3>2. ASSUME NEW v \in Thread, creates(v)', v # u
            PROVE  /\ inflight'[v].line.id # inflight[u].line.id
                   /\ inflight'[v].line.arg.cert # inflight[u].line.arg.cert
        BY <1>2, <2>1, <2>2, <2>3, <2>4, <3>1, <3>2
      <3> QED BY <1>5, <2>2, <2>4, <3>1, <3>2 DEF Serves
    <2>5. CASE u = t /\ line.op = "NewService"
      <3>2. ASSUME NEW v \in Thread, creates(v)', v # u
            PROVE  inflight'[v].line.id # line.id /\ inflight'[v].line.arg.cert # line.arg.cert
        BY <2>1, <2>2, <2>3, <2>5, <3>2
      <3> QED BY <1>2, <2>1, <2>5, <3>2
    <2> QED BY <2>3, <2>4, <2>5
  <1> QED BY <1>7, <1>8, <1>9, <1>10, <1>11 DEF ServiceInv

(* A pending line that is written, or fails to be, keeps the invariant. *)
LEMMA LoggedServices ==
    ASSUME IInv, ServiceInv, NEW t \in Thread, WithLog(t) \/ WithLogFails(t)
    PROVE  ServiceInv'
  <1> DEFINE line == inflight[t].line
  <1>1. /\ phase = "running" /\ phase' = "running" /\ inflight[t] # None /\ inflight[t] \in Job
        /\ line \in Line
        /\ file # None /\ start = None /\ StoreOK(file)
        /\ file' \in {file, appended(file, line)}
        /\ inflight' = [inflight EXCEPT ![t] = None]
        /\ UNCHANGED <<mem, start>>
    BY LoggedFacts
  <1>2. /\ \/ file' = appended(file, line)
           \/ inflight[t].claims \subseteq unsure'
        /\ unsure \subseteq unsure'
    BY DEF WithLog, WithLogFails
  <1>3. inflight'[t] = None /\ \A u \in Thread \ {t} : inflight'[u] = inflight[u]
    BY <1>1 DEF IInv, TypeOK
  <1>4. \A u \in Thread : (creates(u)' => creates(u) /\ u # t) /\ (creates(u) /\ u # t => creates(u)')
    BY <1>3 DEF creates
  <1>5. CertsOK(file) /\ \A s \in ServiceId : s \notin unsure => Good(file, s)
    BY <1>1 DEF ServiceInv, AllGood, stores
  <1>6. /\ Plain(line)
        /\ \A s \in joined(line) : s \notin unsure => file.services[s] # None
    <2>1. CASE onQueue(t)
      BY <2>1 DEF ServiceInv, JoinedKnown
    <2>2. CASE ~onQueue(t)
      BY <1>1, <2>2 DEF onQueue, Plain, joined
    <2> QED BY <2>1, <2>2
  <1>7. ASSUME creates(t)
        PROVE  /\ line.op = "NewService" /\ line.id \in ServiceId /\ line.arg.cert \in Cert
               /\ mem.services[line.id] # None /\ file.services[line.id] = None
               /\ mem.serviceCerts[line.arg.cert] # None /\ file.serviceCerts[line.arg.cert] = None
               /\ inflight[t].claims = {line.id}
               /\ \A u \in Thread : creates(u) /\ u # t =>
                     inflight[u].line.id # line.id /\ inflight[u].line.arg.cert # line.arg.cert
    BY <1>1, <1>7, LineTyped DEF ServiceInv, CreatedOnce, creates
  <1>8. line.op = "NewService" => creates(t)
    BY <1>1 DEF creates
  <1> HIDE DEF line
  <1>9. /\ CertsOK(file')
        /\ \A s \in ServiceId : /\ file.services[s] # None => file'.services[s] # None
                                /\ file'.services[s] # None =>
                                      file.services[s] # None \/ (creates(t) /\ s = line.id)
        /\ \A c \in Cert : file'.serviceCerts[c] # None =>
                              file.serviceCerts[c] # None \/ (creates(t) /\ c = line.arg.cert)
        /\ \A s \in ServiceId : s \notin unsure => Good(file', s)
    <2>1. CASE file' = file
      BY <1>5, <2>1
    <2>2. CASE file' = appended(file, line)
      <3>1. Serves(file, line, file')
        BY <1>1, <1>5, <1>6, <2>2, AppendedServes
      <3> QED BY <1>5, <1>6, <1>8, <3>1 DEF Serves
    <2> QED BY <1>1, <2>1, <2>2
  <1>10. AllGood'
    <2>1. ASSUME NEW st \in stores', st # file'
          PROVE  st \in stores
      BY <1>1, <2>1 DEF stores
    <2>2. \A st \in stores' : CertsOK(st) /\ \A s \in ServiceId : s \notin unsure' => Good(st, s)
      BY <1>2, <1>9, <2>1 DEF ServiceInv, AllGood
    <2> QED BY <2>2 DEF AllGood
  <1>11. JoinedKnown'
    <2> SUFFICES ASSUME NEW u \in Thread, onQueue(u)'
                 PROVE  /\ Plain(inflight'[u].line)
                        /\ \A s \in joined(inflight'[u].line) : s \notin unsure' => file'.services[s] # None
      BY DEF JoinedKnown
    <2>1. onQueue(u) /\ inflight'[u] = inflight[u] /\ inflight[u].line \in Line
      BY <1>3 DEF onQueue, IInv, TypeOK, Maybe, Job
    <2>2. joined(inflight[u].line) \subseteq ServiceId
      <3>1. inflight[u].line.op \in {"RcvService", "NtfService"} => inflight[u].line.arg \in Maybe(ServiceId)
        BY <2>1, LineTyped
      <3>2. inflight[u].line.op = "CreateQueue" => usedServices(inflight[u].line.arg) \subseteq ServiceId
        BY <2>1, LineTyped, RecTyped DEF usedServices, Maybe
      <3> QED BY <3>1, <3>2 DEF joined, Maybe
    <2> QED BY <1>2, <1>9, <2>1, <2>2 DEF ServiceInv, JoinedKnown
  <1>12. FileServices'
    <2>1. /\ \A s \in ServiceId : file.services[s] # None => mem.services[s] # None
          /\ \A c \in Cert : file.serviceCerts[c] # None => mem.serviceCerts[c] # None
      BY <1>1 DEF ServiceInv, FileServices
    <2>2. /\ \A s \in ServiceId : file'.services[s] # None => mem.services[s] # None
          /\ \A c \in Cert : file'.serviceCerts[c] # None => mem.serviceCerts[c] # None
      BY <1>7, <1>9, <2>1
    <2> QED BY <1>1, <2>2 DEF FileServices
  <1>13. ServicesOnTheWay'
    <2> SUFFICES ASSUME NEW s \in ServiceId, mem.services[s] # None, s \notin unsure'
                 PROVE  \/ file'.services[s] # None
                        \/ \E u \in Thread : creates(u)' /\ inflight'[u].line.id = s
      BY <1>1 DEF ServicesOnTheWay
    <2>1. file.services[s] # None \/ \E u \in Thread : creates(u) /\ inflight[u].line.id = s
      BY <1>1, <1>2 DEF ServiceInv, ServicesOnTheWay
    <2>2. CASE file.services[s] # None
      BY <1>9, <2>2
    <2>3. ASSUME NEW u \in Thread, u # t, creates(u), inflight[u].line.id = s
          PROVE  creates(u)' /\ inflight'[u].line.id = s
      BY <1>3, <1>4, <2>3
    <2>4. CASE creates(t) /\ inflight[t].line.id = s
      <3>1. line.id = s /\ ~(inflight[t].claims \subseteq unsure')
        BY <1>7, <2>4 DEF line
      <3>2. file' = appended(file, line)
        BY <1>2, <3>1
      <3> QED BY <1>1, <1>5, <1>6, <1>7, <2>4, <3>1, <3>2, AppendedServes
    <2> QED BY <2>1, <2>2, <2>3, <2>4
  <1>14. CreatedOnce'
    <2> SUFFICES ASSUME NEW u \in Thread, creates(u)'
                 PROVE  LET l == inflight'[u].line
                        IN  /\ mem.services[l.id] # None /\ file'.services[l.id] = None
                            /\ mem.serviceCerts[l.arg.cert] # None /\ file'.serviceCerts[l.arg.cert] = None
                            /\ inflight'[u].claims = {l.id}
                            /\ \A v \in Thread : creates(v)' /\ v # u =>
                                  inflight'[v].line.id # l.id /\ inflight'[v].line.arg.cert # l.arg.cert
      BY <1>1 DEF CreatedOnce
    <2>1. creates(u) /\ u # t /\ inflight'[u] = inflight[u]
      BY <1>3, <1>4
    <2>2. inflight[u].line.id \in ServiceId /\ inflight[u].line.arg.cert \in Cert
      <3>1. inflight[u].line \in Line
        BY <2>1 DEF creates, IInv, TypeOK, Maybe, Job
      <3> QED BY <2>1, <3>1, LineTyped DEF creates
    <2>3. LET l == inflight[u].line
          IN  /\ mem.services[l.id] # None /\ file.services[l.id] = None
              /\ mem.serviceCerts[l.arg.cert] # None /\ file.serviceCerts[l.arg.cert] = None
              /\ inflight[u].claims = {l.id}
              /\ \A v \in Thread : creates(v) /\ v # u =>
                    inflight[v].line.id # l.id /\ inflight[v].line.arg.cert # l.arg.cert
      BY <2>1 DEF ServiceInv, CreatedOnce
    <2>4. \A v \in Thread : creates(v)' => creates(v) /\ inflight'[v] = inflight[v]
      BY <1>3, <1>4
    <2>5. file'.services[inflight[u].line.id] = None /\ file'.serviceCerts[inflight[u].line.arg.cert] = None
      BY <1>7, <1>9, <2>1, <2>2, <2>3 DEF line
    <2> QED BY <2>1, <2>3, <2>4, <2>5
  <1> QED BY <1>10, <1>11, <1>12, <1>13, <1>14 DEF ServiceInv

-----------------------------------------------------------------------------
(* An empty store counts nothing. *)
LEMMA NewStoreGood ==
    CertsOK(newQueueStore) /\ \A s \in ServiceId : Good(newQueueStore, s)
  <1>1. /\ \A s \in ServiceId : newQueueStore.services[s] = None
        /\ \A c \in Cert : newQueueStore.serviceCerts[c] = None
        /\ \A n \in NotifierId : newQueueStore.notifiers[n] = None
        /\ \A r \in RecipientId : newQueueStore.queues[r] = Absent
    BY DEF newQueueStore
  <1>2. CertsOK(newQueueStore)
    BY <1>1 DEF CertsOK
  <1>3. ASSUME NEW s \in ServiceId PROVE Good(newQueueStore, s)
    <2>1. rcvRefs(newQueueStore, s) = {} /\ ntfRefs(newQueueStore, s) = {}
      BY <1>1 DEF rcvRefs, ntfRefs, isLive
    <2> QED BY <1>1, <2>1 DEF Good, Counts
  <1> QED BY <1>2, <1>3

(* The steps of the start and a crash leave no operation pending. *)
LEMMA QuietServices ==
    ASSUME IInv, Startup \/ Crash
    PROVE  JoinedKnown' /\ CreatedOnce'
  <1>1. \A t \in Thread : inflight'[t] = None
    BY StartupQuiet
  <1>2. \A t \in Thread : ~onQueue(t)' /\ ~creates(t)'
    BY <1>1 DEF onQueue, creates
  <1> QED BY <1>2 DEF JoinedKnown, CreatedOnce

(* The steps that only move or empty stores keep what services count. *)
LEMMA MovesGood ==
    ASSUME ServiceInv, stores' \subseteq stores \cup {newQueueStore},
           unsure \cap ServiceId \subseteq unsure'
    PROVE  AllGood'
  <1>1. \A st \in stores' : CertsOK(st) /\ \A s \in ServiceId : s \notin unsure' => Good(st, s)
    BY NewStoreGood DEF ServiceInv, AllGood
  <1> QED BY <1>1 DEF AllGood

(* The steps of the start before the compaction ends, and a crash. *)
LEMMA MovesServices ==
    ASSUME IInv, ServiceInv,
           \/ PreserveIncomplete \/ UseTempBackup \/ ReadStore \/ MakeTempBackup \/ OpenLog \/ Crash
    PROVE  ServiceInv'
  <1>1. /\ stores' \subseteq stores \cup {newQueueStore}
        /\ unsure \cap ServiceId \subseteq unsure'
    <2>1. CASE PreserveIncomplete
      BY <2>1 DEF PreserveIncomplete, stores, history
    <2>2. CASE UseTempBackup
      BY <2>2 DEF UseTempBackup, stores, history
    <2>3. CASE ReadStore
      <3>1. file # None
        BY <2>3 DEF ReadStore, IInv, Phases
      <3> QED BY <2>3, <3>1 DEF ReadStore, stores, history
    <2>4. CASE MakeTempBackup
      BY <2>4 DEF MakeTempBackup, stores, history
    <2>5. CASE OpenLog
      BY <2>5 DEF OpenLog, stores, history
    <2>6. CASE Crash
      BY <2>6 DEF Crash, stores
    <2> QED BY <2>1, <2>2, <2>3, <2>4, <2>5, <2>6
  <1>2. AllGood'
    BY <1>1, MovesGood
  <1>3. JoinedKnown' /\ CreatedOnce'
    BY QuietServices DEF Startup
  <1>4. phase' # "running" /\ (phase' = "compact" => file' \in {None, newQueueStore})
    BY DEF PreserveIncomplete, UseTempBackup, ReadStore, MakeTempBackup, OpenLog, Crash
  <1>5. FileServices' /\ ServicesOnTheWay'
    <2>1. /\ \A s \in ServiceId : newQueueStore.services[s] = None
          /\ \A c \in Cert : newQueueStore.serviceCerts[c] = None
      BY DEF newQueueStore
    <2> QED BY <1>4, <2>1 DEF FileServices, ServicesOnTheWay
  <1> QED BY <1>2, <1>3, <1>5 DEF ServiceInv

(* The log is created when there is none. *)
LEMMA CreateLogServices ==
    ASSUME IInv, RestartInv, ServiceInv, CreateLog
    PROVE  ServiceInv'
  <1>1. /\ phase = "down" /\ file' = newQueueStore /\ phase' = "running"
        /\ UNCHANGED <<mem, start, unsure>>
    BY DEF CreateLog, history
  <1>2. mem = newQueueStore
    BY <1>1 DEF RestartInv, Loaded
  <1>3. stores' \subseteq stores \cup {newQueueStore}
    BY <1>1 DEF stores
  <1>4. AllGood'
    BY <1>1, <1>3, MovesGood
  <1>5. JoinedKnown' /\ CreatedOnce'
    BY QuietServices DEF Startup
  <1>6. /\ \A s \in ServiceId : newQueueStore.services[s] = None
        /\ \A c \in Cert : newQueueStore.serviceCerts[c] = None
    BY DEF newQueueStore
  <1>7. FileServices' /\ ServicesOnTheWay'
    BY <1>1, <1>2, <1>6 DEF FileServices, ServicesOnTheWay
  <1> QED BY <1>4, <1>5, <1>7 DEF ServiceInv

(* The compaction writes services before the queues that refer to them. *)
LEMMA WriteServices ==
    ASSUME IInv, ServiceInv, WriteService \/ WriteQueue
    PROVE  ServiceInv'
  <1>1. /\ phase = "compact" /\ file # None /\ StoreOK(file) /\ file \in Store
        /\ UNCHANGED <<mem, start, phase, unsure>>
    BY WriteFacts DEF history
  <1>2. StoreOK(mem) /\ mem \in Store
    BY StoresOK DEF IInv, TypeOK
  <1>3. /\ CertsOK(file) /\ \A s \in ServiceId : s \notin unsure => Good(file, s)
        /\ CertsOK(mem) /\ \A s \in ServiceId : s \notin unsure => Good(mem, s)
    BY <1>1 DEF ServiceInv, AllGood, stores
  <1>4. PICK line \in Line :
           /\ file' = appended(file, line) /\ line.op \in {"NewService", "CreateQueue"}
           /\ line.op = "NewService" =>
                 mem.services[line.id] # None /\ mem.serviceCerts[line.arg.cert] # None
           /\ \A s \in joined(line) : s \notin unsure => file.services[s] # None
    <2>1. CASE WriteService
      <3>1. PICK s \in servicesLeft :
               file' = appended(file, [id |-> s, op |-> "NewService", arg |->
                           [cert |-> mem.services[s].cert, role |-> mem.services[s].role]])
        BY <2>1 DEF WriteService
      <3> DEFINE l == [id |-> s, op |-> "NewService", arg |->
                           [cert |-> mem.services[s].cert, role |-> mem.services[s].role]]
      <3>2. s \in ServiceId /\ mem.services[s] # None /\ mem.services[s] \in Service
        BY <1>2, StoreTyped DEF servicesLeft, Maybe
      <3>3. l \in Line
        BY <3>2 DEF Line, Service
      <3>4. mem.serviceCerts[mem.services[s].cert] # None
        BY <1>3, <3>2, StoreAssumption DEF CertsOK
      <3>5. joined(l) = {}
        BY DEF joined
      <3> QED BY <3>1, <3>2, <3>3, <3>4, <3>5
    <2>2. CASE WriteQueue
      <3>1. PICK r \in queuesLeft :
               file' = appended(file, [id |-> r, op |-> "CreateQueue", arg |-> mem.queues[r]])
        BY <2>2 DEF WriteQueue
      <3> DEFINE l == [id |-> r, op |-> "CreateQueue", arg |-> mem.queues[r]]
      <3>2. r \in RecipientId /\ isLive(mem, r) /\ mem.queues[r] \in QueueRec
        BY <1>2, LiveTyped DEF queuesLeft
      <3>3. l \in Line
        BY <3>2 DEF Line
      <3>4. ASSUME NEW s \in usedServices(mem.queues[r]), s \notin unsure
            PROVE  file.services[s] # None
        <4>1. s \in ServiceId /\ Good(mem, s)
          BY <1>3, <3>2, <3>4, RecTyped DEF usedServices, Maybe
        <4>2. r \in rcvRefs(mem, s) \/ ntfRefs(mem, s) # {}
          <5>1. CASE mem.queues[r].rcvServiceId = s
            BY <3>2, <5>1 DEF rcvRefs
          <5>2. CASE mem.queues[r].notifier # None /\ mem.queues[r].notifier.ntfServiceId = s
            <6>1. notes(mem, r, s) = {mem.queues[r].notifier.notifierId}
              BY <3>2, <5>2 DEF notes
            <6> QED BY <1>2, <3>2, <4>1, <6>1, NotesCounted
          <5> QED BY <3>4, <5>1, <5>2 DEF usedServices
        <4>3. mem.services[s] # None
          BY <4>1, <4>2 DEF Good, Counts
        <4> QED BY <2>2, <4>1, <4>3 DEF WriteQueue, servicesLeft
      <3>5. joined(l) = usedServices(mem.queues[r])
        BY DEF joined
      <3>6. l.op = "CreateQueue"
        OBVIOUS
      <3> QED BY <3>1, <3>3, <3>4, <3>5, <3>6
    <2> QED BY <2>1, <2>2
  <1>5. Plain(line)
    BY <1>4 DEF Plain
  <1>6. Serves(file, line, file')
    BY <1>1, <1>3, <1>4, <1>5, AppendedServes
  <1>7. AllGood'
    <2>1. ASSUME NEW st \in stores', st # file'
          PROVE  st \in stores
      BY <1>1, <2>1 DEF stores
    <2>2. CertsOK(file') /\ \A s \in ServiceId : s \notin unsure => Good(file', s)
      BY <1>3, <1>4, <1>6 DEF Serves
    <2>3. \A st \in stores' : CertsOK(st) /\ \A s \in ServiceId : s \notin unsure' => Good(st, s)
      BY <1>1, <2>1, <2>2 DEF ServiceInv, AllGood
    <2> QED BY <2>3 DEF AllGood
  <1>8. JoinedKnown' /\ CreatedOnce'
    BY QuietServices DEF Startup
  <1>9. FileServices'
    <2>1. /\ \A s \in ServiceId : file.services[s] # None => mem.services[s] # None
          /\ \A c \in Cert : file.serviceCerts[c] # None => mem.serviceCerts[c] # None
      BY <1>1 DEF ServiceInv, FileServices
    <2>2. /\ \A s \in ServiceId : file'.services[s] # None => mem.services[s] # None
          /\ \A c \in Cert : file'.serviceCerts[c] # None => mem.serviceCerts[c] # None
      BY <1>4, <1>6, <2>1 DEF Serves
    <2> QED BY <1>1, <2>2 DEF FileServices
  <1>10. ServicesOnTheWay'
    BY <1>1 DEF ServicesOnTheWay
  <1> QED BY <1>7, <1>8, <1>9, <1>10 DEF ServiceInv

(* When the compaction ends, the new file has all services. *)
LEMMA RenameServices ==
    ASSUME IInv, ServiceInv, RenameBackup
    PROVE  ServiceInv'
  <1>1. /\ phase = "compact" /\ file # None /\ servicesLeft = {} /\ phase' = "running"
        /\ start' = None /\ unsure' = unsure \cap ServiceId /\ UNCHANGED <<mem, file>>
    BY DEF RenameBackup
  <1>2. stores' \subseteq stores
    BY <1>1 DEF stores
  <1>3. AllGood'
    BY <1>1, <1>2, MovesGood
  <1>4. JoinedKnown' /\ CreatedOnce'
    BY QuietServices DEF Startup
  <1>5. FileServices'
    BY <1>1 DEF ServiceInv, FileServices
  <1>6. ServicesOnTheWay'
    BY <1>1 DEF ServicesOnTheWay, servicesLeft
  <1> QED BY <1>3, <1>4, <1>5, <1>6 DEF ServiceInv

(* ServiceInv holds when the server starts without files. *)
LEMMA InitServices == Init => ServiceInv
  <1> SUFFICES ASSUME Init PROVE ServiceInv
    OBVIOUS
  <1>1. AllGood
    BY NewStoreGood DEF Init, AllGood, stores
  <1>2. \A t \in Thread : ~onQueue(t) /\ ~creates(t)
    BY DEF Init, onQueue, creates
  <1>3. JoinedKnown /\ CreatedOnce
    BY <1>2 DEF JoinedKnown, CreatedOnce
  <1>4. FileServices /\ ServicesOnTheWay
    BY DEF Init, FileServices, ServicesOnTheWay
  <1> QED BY <1>1, <1>3, <1>4 DEF ServiceInv

(* Every step keeps ServiceInv. *)
LEMMA NextServices == IInv /\ RestartInv /\ ServiceInv /\ [Next]_vars => ServiceInv'
  <1> SUFFICES ASSUME IInv, RestartInv, ServiceInv, [Next]_vars PROVE ServiceInv'
    OBVIOUS
  <1>1. ASSUME NEW t \in Thread, Operation(t) PROVE ServiceInv'
    BY <1>1, OperationAccepted, AcceptedServices DEF IInv
  <1>2. ASSUME NEW t \in Thread, WithLog(t) \/ WithLogFails(t) PROVE ServiceInv'
    BY <1>2, LoggedServices
  <1>3. CASE Crash
    BY <1>3, MovesServices
  <1>4. CASE Startup
    BY <1>4, MovesServices, CreateLogServices, WriteServices, RenameServices DEF Startup
  <1>5. CASE UNCHANGED vars
    <2>1. UNCHANGED <<mem, file, start, phase, inflight, unsure>>
      BY <1>5 DEF vars
    <2>2. AllGood'
      BY <2>1 DEF ServiceInv, AllGood, stores
    <2>3. JoinedKnown' /\ FileServices' /\ ServicesOnTheWay' /\ CreatedOnce'
      BY <2>1 DEF ServiceInv, JoinedKnown, FileServices, ServicesOnTheWay, CreatedOnce, onQueue, creates
    <2> QED BY <2>2, <2>3 DEF ServiceInv
  <1> QED BY <1>1, <1>2, <1>3, <1>4, <1>5 DEF Next, Wait

(* For all ids, records and threads: the ids that a service subscribes to  *)
(* at once are those of the queues that refer to it, and the hash that its *)
(* client compares is theirs, in memory and in what every log replays to,  *)
(* after any crashes and failures, unless the creation of the service      *)
(* failed or overlapped with an operation on its queues (ServicesAgree).   *)
THEOREM ServicesAreExact == Spec => []ServicesAgree
  <1>1. ServiceInv => ServicesAgree
    <2> SUFFICES ASSUME ServiceInv, NEW st \in stores, NEW s \in ServiceId \ unsure, st.services[s] # None
                 PROVE  /\ st.services[s].rcv.ids = rcvRefs(st, s) /\ st.services[s].ntf.ids = ntfRefs(st, s)
                        /\ st.services[s].rcv.hash = rcvRefs(st, s) /\ st.services[s].ntf.hash = ntfRefs(st, s)
      BY ZenonT(30) DEF ServicesAgree, rcvRefs, ntfRefs
    <2>1. Good(st, s)
      BY DEF ServiceInv, AllGood
    <2>2. /\ st.services[s]["rcv"].ids = rcvRefs(st, s) /\ st.services[s]["rcv"].hash = rcvRefs(st, s)
          /\ st.services[s]["ntf"].ids = ntfRefs(st, s) /\ st.services[s]["ntf"].hash = ntfRefs(st, s)
      BY <2>1 DEF Good, Counts
    <2> QED BY <2>2
  <1>2. Spec => [](IInv /\ DelInv)
    BY InitDelInv, NextDelInv, StoreInvariant, PTL DEF Spec
  <1>3. Spec => []RestartInv
    BY <1>2, InitRestart, NextRestart, PTL DEF Spec
  <1>4. Spec => []ServiceInv
    BY <1>2, <1>3, InitServices, NextServices, PTL DEF Spec
  <1> QED BY <1>1, <1>4, PTL
=============================================================================
