--------------------------- MODULE DeliveryProofs ---------------------------
(***************************************************************************)
(* Proofs about message delivery, for any number of connections, senders   *)
(* and messages, and every set of commands:                                *)
(*   DeliveryUsesQueue      delivery uses the queue by its operations only *)
(*   DeliveryTyped          the types, and who holds which Sub             *)
(*   SubscriptionsAreKnown  no subscription that serverThread has lost     *)
(*   ClosedAreForgotten     no closed connection that is still registered  *)
(*   AtMostOneOutstanding   of the messages received, only the head is     *)
(*                          still in the queue                             *)
(*   DeliveredIsTheHead     an ACK deletes only the message it is about    *)
(*   FirstReceiptsInOrder   first receipts are in the order of sending,    *)
(*                          unless messages expire or DEL starts anew      *)
(* The invariants are: for the subscriptions, Registered (who is on the    *)
(* way to serverThread, or from it); for the messages, OnlyHeads (what is  *)
(* anywhere between the queue and a recipient is not after the head) and   *)
(* Known (and, if no recipient has it yet, it is the head).                *)
(***************************************************************************)
EXTENDS Delivery, MsgQueueProofs

(* A message that is handed around, or none. *)
Msg == MsgId \cup {NoMsg}

CmdStep == {"none", "subscribe", "getMessage", "delMsg", "setDelivered", "respond",
            "deleteMsgs", "deleteSub", "writeDeleted"}

Sub == [thread : {"NoSub", "SubPending", "SubThread", "ProhibitSub"}, tid : Msg, delivered : Msg]
Cmd == [op : AllOps \cup {"none", "PROHIBITED", "NO_MSG"}, at : CmdStep,
        id : Msg, msg : Msg, sub : SubId \cup {NoSubId}]
Event == [event : {"CSClient", "CSDeleted"}, client : Clients]
Sending == [at : {"none", "writeMsg", "getSubscribed", "deliverToSub", "unsubscribed",
                  "fork", "setThread"},
            id : Msg, rc : Clients \cup {None}, sub : SubId \cup {NoSubId}]
Delivering == [at : {"none", "getSubscribed", "deliverIfSame", "unsubscribed"},
               rc : Clients \cup {None}, sub : SubId \cup {NoSubId}]

Transmission == [resp : {"SOK", "MSG", "OK", "END", "DELD"}, msg : Msg]

(* The variables have the types of the Haskell values they stand for. *)
TypeOK ==
    /\ queueRec \in {"active", "off", "deleted"}
    /\ connected \in [Clients -> BOOLEAN]
    /\ subscriptions \in [Clients -> SubId \cup {NoSubId}]
    /\ subs \in [Clients -> [SubId -> Sub]]
    /\ cmds \in Nat
    /\ cmd \in [Clients -> Cmd]
    /\ sndQ \in [Clients -> Seq(Transmission)]
    /\ disc \in [Clients -> {"none", "swapSubs", "deleteSubscribed", "deleteClient", "done"}]
    /\ subQ \in Seq(Event)
    /\ subscriber \in Clients \cup {None}
    /\ subClients \subseteq Clients
    /\ ending \in Clients \cup {None}
    /\ pendingEvents \in [Clients -> Seq({"END", "DELD"})]
    /\ send \in [Senders -> Sending]
    /\ deliver \in [MsgId -> Delivering]
    /\ received \in [Clients -> SUBSET MsgId]
    /\ outcome \in [MsgId -> {"none", "stored", "acked", "dropped", "expired"}]

(* A Sub that a command, a SEND or a deliverThread holds is a Sub, and one *)
(* that a message is to be delivered to was not made by GET; a SEND or a   *)
(* thread that is about to deliver has looked up a subscriber.             *)
Held ==
    /\ \A c \in Clients :
          cmd[c].at \in {"getMessage", "delMsg", "setDelivered"} => cmd[c].sub \in SubId
    /\ \A p \in Senders :
          /\ send[p].at \in {"fork", "setThread"} =>
                /\ send[p].rc \in Clients /\ send[p].sub \in SubId
                /\ subs[send[p].rc][send[p].sub].thread # "ProhibitSub"
          /\ send[p].at \notin {"none", "writeMsg"} => send[p].id \in MsgId
          /\ send[p].at = "deliverToSub" => subscriber # None
    /\ \A m \in MsgId :
          /\ deliver[m].at # "none" =>
                /\ deliver[m].rc \in Clients /\ deliver[m].sub \in SubId
                /\ subs[deliver[m].rc][deliver[m].sub].thread # "ProhibitSub"
          /\ deliver[m].at = "deliverIfSame" => subscriber # None

Typed == IInv /\ TypeOK /\ Held

-----------------------------------------------------------------------------
(* The message queue *)

(* The head of a queue that is not empty is the oldest of its messages.    *)
LEMMA HeadFacts ==
    ASSUME IInv, msgQueue # <<>>
    PROVE  /\ Head(msgQueue) = msgQueue[1] /\ 1 \in 1..Len(msgQueue)
           /\ Head(msgQueue).id \in MsgId /\ Head(msgQueue).id <= lastId
           /\ \A i \in 1..Len(msgQueue) : msgQueue[i].id \in MsgId /\ Head(msgQueue).id <= msgQueue[i].id
  <1>1. Len(msgQueue) \in Nat /\ Len(msgQueue) # 0 /\ msgQueue \in Seq(Message)
    BY EmptyFacts DEF IInv, MQTypeOK
  <1>2. Head(msgQueue) = msgQueue[1] /\ 1 \in 1..Len(msgQueue)
    BY <1>1
  <1>3. \A i \in 1..Len(msgQueue) : msgQueue[i].id \in MsgId
    BY ElementFacts DEF IInv, Message
  <1>4. ASSUME NEW i \in 1..Len(msgQueue) PROVE msgQueue[1].id <= msgQueue[i].id
    BY <1>1, <1>2, <1>3, QueueAssumption DEF IInv, InSendOrder, MsgId
  <1> QED BY <1>2, <1>3, <1>4 DEF IInv, IdsIssued

(* Every step of the server that touches the queue is one of its operations. *)
LEMMA QueueSteps == IInv /\ [Next]_vars => [MQNext]_mqVars
  <1> SUFFICES ASSUME IInv, [Next]_vars PROVE [MQNext]_mqVars
    OBVIOUS
  <1>1. ASSUME NEW c \in Clients, Command(c) \/ Ack(c) PROVE UNCHANGED mqVars
    BY <1>1 DEF Command, PeekSub, GetSub, GetProhibited, SuspendQueue, DeleteStoreQueue,
       Ack, GetDelivered, AckNoMsg
  <1>2. ASSUME NEW c \in Clients, ClientStep(c) PROVE [MQNext]_mqVars
    <2>1. CASE DelPeekMsg(c)
      <3>1. UNCHANGED mqVars \/ DelMsg(cmd[c].id)
        BY <2>1 DEF DelPeekMsg
      <3>2. CASE DelMsg(cmd[c].id)
        <4>1. Head(msgQueue).id \in MsgId
          BY <3>2, HeadFacts DEF DelMsg, isEmpty
        <4> QED BY <3>2, <4>1 DEF DelMsg, MQNext
      <3> QED BY <3>1, <3>2
    <2>2. CASE DeleteMsgs(c)
      BY <2>2 DEF DeleteMsgs, MQNext
    <2>3. CASE SubscribeNew(c) \/ SubscribeAgain(c) \/ SubscribeProhibited(c) \/ GetMessage(c)
                \/ DeleteSub(c) \/ WriteDeleted(c) \/ SetDelivered(c) \/ Respond(c)
      BY <2>3 DEF SubscribeNew, SubscribeAgain, SubscribeProhibited, GetMessage,
         DeleteSub, WriteDeleted, SetDelivered, Respond
    <2> QED BY <1>2, <2>1, <2>2, <2>3 DEF ClientStep
  <1>3. ASSUME NEW c \in Clients,
               Transmit(c) \/ SendPendingEvts(c) \/ Disconnect(c) \/ SwapSubs(c) \/ DeleteClient(c)
        PROVE  UNCHANGED mqVars
    BY <1>3 DEF Transmit, SendPendingEvts, Disconnect, SwapSubs, DeleteClient
  <1>4. ASSUME NEW p \in Senders, VerifySend(p) \/ SendStep(p) PROVE [MQNext]_mqVars
    <2>1. CASE SendMessage(p)
      BY <2>1 DEF SendMessage, MQNext
    <2>2. CASE SendQuota(p)
      BY <2>2 DEF SendQuota, MQNext
    <2>3. CASE VerifySend(p) \/ GetSubscribed(p) \/ DeliverToSub(p) \/ NotDelivered(p)
                \/ ForkDeliver(p) \/ SetSubThread(p)
      BY <2>3 DEF VerifySend, GetSubscribed, DeliverToSub, NotDelivered, ForkDeliver, SetSubThread
    <2> QED BY <1>4, <2>1, <2>2, <2>3 DEF SendStep
  <1>5. ASSUME NEW m \in MsgId, ThreadStep(m) PROVE UNCHANGED mqVars
    BY <1>5 DEF ThreadStep, ThreadGetSubscribed, DeliverIfSame, ThreadExit
  <1>6. ASSUME ServerStep PROVE UNCHANGED mqVars
    BY <1>6 DEF ServerStep, UpdateSubscribed, UpdateDisconnected, UpdateDeleted, EndSub
  <1>7. ASSUME Expire PROVE [MQNext]_mqVars
    BY <1>7 DEF Expire, MQNext
  <1>8. ASSUME UNCHANGED vars PROVE UNCHANGED mqVars
    BY <1>8 DEF vars
  <1> QED BY <1>1, <1>2, <1>3, <1>4, <1>5, <1>6, <1>7, <1>8 DEF Next

(* The message queue keeps its invariant under delivery. *)
LEMMA QueueKept == Spec => []IInv
  <1>1. Init => IInv
    BY EmptyPreserves, QueueAssumption DEF Init, MQInit
  <1>2. IInv /\ [Next]_vars => IInv'
    BY QueueSteps, NextPreserves
  <1> QED BY <1>1, <1>2, PTL DEF Spec

(* However commands, SENDs, threads and disconnects interleave, the server *)
(* uses the queue as one that is used by nobody else: delivery implements  *)
(* the message queue.                                                      *)
THEOREM DeliveryUsesQueue == Spec => MQSpec
  <1>1. Init => MQInit
    BY DEF Init
  <1> QED BY <1>1, QueueSteps, QueueKept, PTL DEF Spec, MQSpec

-----------------------------------------------------------------------------
(* Types *)

(* What the helpers give: the id of the head, and responses of a command.  *)
LEMMA HelperTypes ==
    ASSUME Typed
    PROVE  /\ headId \in Msg
           /\ \A q \in Seq(Message) : q # <<>> => Head(q) \in Message
           /\ \A c \in Clients : /\ sndQ[c] \in Seq(Transmission)
                                 /\ subs[c] \in [SubId -> Sub] /\ cmd[c] \in Cmd
                                 /\ hasSub(c) => subscriptions[c] \in SubId
                                 /\ received[c] \subseteq MsgId
           /\ NoMsg \in Msg /\ MsgId \subseteq Msg /\ NoMsg \notin MsgId
           /\ NoSubId \notin SubId
           /\ NoCmd \in Cmd /\ NoSend \in Sending /\ NoThread \in Delivering
           /\ SubId \subseteq Nat /\ None \notin Clients
  <1>1. headId \in Msg
    BY HeadFacts DEF Typed, headId, isEmpty, Msg
  <1>2. ASSUME NEW q \in Seq(Message), q # <<>> PROVE Head(q) \in Message
    BY <1>2
  <1>3. NoMsg \notin MsgId /\ NoSubId \notin SubId /\ SubId \subseteq Nat
    BY QueueAssumption, DeliveryAssumption DEF MsgId, NoMsg, SubId, NoSubId
  <1>4. NoCmd \in Cmd /\ NoSend \in Sending /\ NoThread \in Delivering
    BY DEF NoCmd, NoSend, NoThread, Cmd, CmdStep, Sending, Delivering, Msg
  <1> QED BY <1>1, <1>2, <1>3, <1>4, DeliveryAssumption DEF Typed, TypeOK, Msg, hasSub

(* A step of a command: what goto and respond make of cmd.                 *)
LEMMA GotoTypes ==
    ASSUME Typed, NEW c \in Clients, NEW op \in AllOps \cup {"none", "PROHIBITED", "NO_MSG"},
           NEW at \in CmdStep, NEW id \in Msg, NEW msg \in Msg, NEW s \in SubId \cup {NoSubId},
           at \in {"getMessage", "delMsg", "setDelivered"} => s \in SubId,
           goto(c, op, at, id, msg, s)
    PROVE  /\ cmd' \in [Clients -> Cmd]
           /\ \A x \in Clients :
                 cmd'[x].at \in {"getMessage", "delMsg", "setDelivered"} => cmd'[x].sub \in SubId
  BY DEF goto, Typed, TypeOK, Held, Cmd

(* The response of a command, recorded in the Sub first if it is a message. *)
LEMMA FinishTypes ==
    ASSUME Typed, NEW c \in Clients, NEW op \in AllOps, NEW msg \in Msg, NEW s \in SubId,
           finish(c, op, msg, s)
    PROVE  /\ cmd' \in [Clients -> Cmd]
           /\ \A x \in Clients :
                 cmd'[x].at \in {"getMessage", "delMsg", "setDelivered"} => cmd'[x].sub \in SubId
  <1>1. NoMsg \in Msg /\ NoSubId \in SubId \cup {NoSubId} /\ {"respond", "setDelivered"} \subseteq CmdStep
    BY DEF Msg, CmdStep
  <1>2. CASE msg = NoMsg
    <2>1. goto(c, op, "respond", NoMsg, NoMsg, NoSubId)
      BY <1>2 DEF finish, respond
    <2> QED BY <1>1, <2>1, GotoTypes
  <1>3. CASE msg # NoMsg
    <2>1. goto(c, op, "setDelivered", NoMsg, msg, s)
      BY <1>3 DEF finish
    <2> QED BY <1>1, <2>1, GotoTypes
  <1> QED BY <1>2, <1>3

(* Subs of which only what was delivered changes stay what they were.      *)
LEMMA SubsTypes ==
    ASSUME Typed, NEW c \in Clients, NEW s \in SubId, NEW m \in Msg,
           subs' = [subs EXCEPT ![c][s].delivered = m]
    PROVE  /\ subs' \in [Clients -> [SubId -> Sub]]
           /\ \A x \in Clients, r \in SubId : subs'[x][r].thread = subs[x][r].thread
  <1> DEFINE new == [subs[c][s] EXCEPT !.delivered = m]
  <1>1. subs[c][s] \in Sub
    BY HelperTypes
  <1>2. new \in Sub /\ new.thread = subs[c][s].thread
    BY <1>1 DEF Sub
  <1>3. subs' = [subs EXCEPT ![c] = [subs[c] EXCEPT ![s] = new]]
    BY DEF Typed, TypeOK
  <1> HIDE DEF new
  <1>4. /\ subs \in [Clients -> [SubId -> Sub]]
        /\ \A x \in Clients : subs[x] \in [SubId -> Sub]
    BY DEF Typed, TypeOK
  <1> DEFINE mine == [subs[c] EXCEPT ![s] = new]
  <1>5. mine \in [SubId -> Sub] /\ \A r \in SubId : mine[r] = IF r = s THEN new ELSE subs[c][r]
    BY <1>2, <1>4
  <1> HIDE DEF mine
  <1>6. \A x \in Clients : subs'[x] = IF x = c THEN mine ELSE subs[x]
    BY <1>3, <1>4 DEF mine
  <1>7. subs' \in [Clients -> [SubId -> Sub]]
    BY <1>3, <1>4, <1>5 DEF mine
  <1> QED BY <1>2, <1>5, <1>6, <1>7

(* A new Sub is one that nobody holds.                                     *)
LEMMA NewSubTypes ==
    ASSUME Typed, NEW c \in Clients, NEW s, freshSub(c, s),
           NEW thread \in {"NoSub", "ProhibitSub"},
           subs' = [subs EXCEPT ![c][s] = newSub(thread)],
           send' = send, deliver' = deliver, subscriber' = subscriber
    PROVE  /\ s \in SubId
           /\ subs' \in [Clients -> [SubId -> Sub]]
           /\ \A p \in Senders :
                 send[p].at \in {"fork", "setThread"} =>
                     subs'[send[p].rc][send[p].sub].thread # "ProhibitSub"
           /\ \A m \in MsgId :
                 deliver[m].at # "none" =>
                     subs'[deliver[m].rc][deliver[m].sub].thread # "ProhibitSub"
  <1>1. s \in SubId /\ newSub(thread) \in Sub
    BY DEF freshSub, newSub, Sub, Msg
  <1>2. \A x \in Clients, r \in SubId : (x # c \/ r # s) => subs'[x][r] = subs[x][r]
    BY <1>1 DEF Typed, TypeOK
  <1>3. \A p \in Senders : send[p].rc # c \/ send[p].sub # s
    BY DEF freshSub, referenced
  <1>4. \A m \in MsgId : deliver[m].rc # c \/ deliver[m].sub # s
    BY DEF freshSub, referenced
  <1>5. subs' \in [Clients -> [SubId -> Sub]]
    BY <1>1, HelperTypes DEF Typed, TypeOK
  <1> QED BY <1>1, <1>2, <1>3, <1>4, <1>5 DEF Typed, Held

(* The thread of a Sub that is cancelled is gone; the others go on.        *)
LEMMA CancelTypes ==
    ASSUME Typed, NEW c \in Clients, cancelSub(c)
    PROVE  /\ deliver' \in [MsgId -> Delivering]
           /\ \A m \in MsgId : deliver'[m] \in {deliver[m], NoThread}
  BY HelperTypes DEF cancelSub, Typed, TypeOK

(* SENDs and threads that have looked up the subscriber find none.         *)
LEMMA LoseTypes ==
    ASSUME Typed, loseSubscriber(send, deliver)
    PROVE  /\ subscriber' = None
           /\ send' \in [Senders -> Sending] /\ deliver' \in [MsgId -> Delivering]
           /\ \A p \in Senders :
                 /\ send'[p] = IF send[p].at = "deliverToSub"
                               THEN [send[p] EXCEPT !.at = "unsubscribed"] ELSE send[p]
                 /\ send'[p].at # "deliverToSub" /\ send'[p].rc = send[p].rc
                 /\ send'[p].sub = send[p].sub /\ send'[p].id = send[p].id
                 /\ send'[p].at = "unsubscribed" => send[p].at \in {"deliverToSub", "unsubscribed"}
                 /\ send'[p].at # "unsubscribed" => send'[p].at = send[p].at
           /\ \A m \in MsgId :
                 /\ deliver'[m].at # "deliverIfSame" /\ deliver'[m].rc = deliver[m].rc
                 /\ deliver'[m].sub = deliver[m].sub
                 /\ deliver'[m].at # "none" => deliver[m].at # "none"
                 /\ deliver[m].at # "none" => deliver'[m].at # "none"
  <1>1. ASSUME NEW p \in Senders
        PROVE  /\ send'[p] \in Sending
               /\ send'[p] = IF send[p].at = "deliverToSub"
                             THEN [send[p] EXCEPT !.at = "unsubscribed"] ELSE send[p]
               /\ send'[p].at # "deliverToSub" /\ send'[p].rc = send[p].rc
               /\ send'[p].sub = send[p].sub /\ send'[p].id = send[p].id
               /\ send'[p].at = "unsubscribed" => send[p].at \in {"deliverToSub", "unsubscribed"}
               /\ send'[p].at # "unsubscribed" => send'[p].at = send[p].at
    <2>1. send[p] \in Sending /\ send'[p] = IF send[p].at = "deliverToSub"
                                           THEN [send[p] EXCEPT !.at = "unsubscribed"] ELSE send[p]
      BY DEF loseSubscriber, Typed, TypeOK
    <2> QED BY <2>1 DEF Sending
  <1>2. ASSUME NEW m \in MsgId
        PROVE  /\ deliver'[m] \in Delivering
               /\ deliver'[m].at # "deliverIfSame" /\ deliver'[m].rc = deliver[m].rc
               /\ deliver'[m].sub = deliver[m].sub
               /\ deliver'[m].at # "none" => deliver[m].at # "none"
               /\ deliver[m].at # "none" => deliver'[m].at # "none"
    <2>1. deliver[m] \in Delivering /\ deliver'[m] = IF deliver[m].at = "deliverIfSame"
                                           THEN [deliver[m] EXCEPT !.at = "unsubscribed"] ELSE deliver[m]
      BY DEF loseSubscriber, Typed, TypeOK
    <2> QED BY <2>1 DEF Delivering
  <1>3. /\ send' \in [Senders -> Sending]
    <2>1. send' = [p \in Senders |-> send'[p]]
      BY DEF loseSubscriber
    <2> QED BY <1>1, <2>1
  <1>4. /\ deliver' \in [MsgId -> Delivering]
    <2>1. deliver' = [m \in MsgId |-> deliver'[m]]
      BY DEF loseSubscriber
    <2> QED BY <1>2, <2>1
  <1> QED BY <1>1, <1>2, <1>3, <1>4 DEF loseSubscriber

(* A transmission is queued.                                               *)
LEMMA PushTypes ==
    ASSUME Typed, NEW c \in Clients, NEW tr \in Transmission,
           sndQ' = [sndQ EXCEPT ![c] = Append(@, tr)]
    PROVE  sndQ' \in [Clients -> Seq(Transmission)]
  <1>1. Append(sndQ[c], tr) \in Seq(Transmission)
    BY HelperTypes, AppendFacts
  <1> QED BY <1>1 DEF Typed, TypeOK

(* What the next message is, before and after the head is deleted.        *)
LEMMA PeekTypes ==
    ASSUME Typed
    PROVE  /\ msgQueue # <<>> => Head(msgQueue).id \in Msg
           /\ msgQueue # <<>> /\ Tail(msgQueue) # <<>> => Head(Tail(msgQueue)).id \in Msg
  <1>1. \A m \in Message : m.id \in Msg
    BY DEF Message, Msg
  <1>2. msgQueue \in Seq(Message)
    BY DEF Typed, IInv, MQTypeOK
  <1>3. msgQueue # <<>> => Tail(msgQueue) \in Seq(Message)
    BY <1>2
  <1> QED BY <1>1, <1>2, <1>3, HelperTypes

(* The steps of commands that leave Subs and subscriptions alone.         *)
LEMMA CommandTypes ==
    ASSUME Typed, NEW c \in Clients,
           \/ PeekSub(c) \/ GetProhibited(c) \/ SuspendQueue(c) \/ DeleteStoreQueue(c)
           \/ (\E id \in Msg : AckNoMsg(c, id))
           \/ SubscribeProhibited(c) \/ GetMessage(c) \/ DelPeekMsg(c) \/ DeleteMsgs(c)
           \/ WriteDeleted(c) \/ Respond(c)
    PROVE  TypeOK' /\ Held'
  <1> USE HelperTypes
  <1>1. CASE PeekSub(c)
    <2>1. /\ cmd' \in [Clients -> Cmd]
          /\ \A x \in Clients :
                cmd'[x].at \in {"getMessage", "delMsg", "setDelivered"} => cmd'[x].sub \in SubId
      BY <1>1, HelperTypes, GotoTypes DEF PeekSub, respond, CmdStep, AllOps
    <2>2. cmds' \in Nat
      BY <1>1 DEF PeekSub, Counted, Typed, TypeOK
    <2>3. TypeOK'
      BY <1>1, <2>1, <2>2 DEF Typed, TypeOK, PeekSub, connVars, srvVars, sndVars, env, history
    <2>4. Held'
      BY <1>1, <2>1, <2>2 DEF Typed, Held, PeekSub, connVars, srvVars, sndVars, env, history
    <2> QED BY <2>3, <2>4
  <1>2. CASE GetProhibited(c)
    <2>1. /\ cmd' \in [Clients -> Cmd]
          /\ \A x \in Clients :
                cmd'[x].at \in {"getMessage", "delMsg", "setDelivered"} => cmd'[x].sub \in SubId
      BY <1>2, HelperTypes, GotoTypes DEF GetProhibited, respond, CmdStep, AllOps
    <2>2. cmds' \in Nat
      BY <1>2 DEF GetProhibited, Counted, Typed, TypeOK
    <2>3. TypeOK'
      BY <1>2, <2>1, <2>2 DEF Typed, TypeOK, GetProhibited, connVars, srvVars, sndVars, env, history
    <2>4. Held'
      BY <1>2, <2>1, <2>2 DEF Typed, Held, GetProhibited, connVars, srvVars, sndVars, env, history
    <2> QED BY <2>3, <2>4
  <1>3. CASE SuspendQueue(c)
    <2>1. /\ cmd' \in [Clients -> Cmd]
          /\ \A x \in Clients :
                cmd'[x].at \in {"getMessage", "delMsg", "setDelivered"} => cmd'[x].sub \in SubId
      BY <1>3, HelperTypes, GotoTypes DEF SuspendQueue, respond, CmdStep, AllOps
    <2>2. cmds' \in Nat
      BY <1>3 DEF SuspendQueue, Counted, Typed, TypeOK
    <2>3. TypeOK'
      BY <1>3, <2>1, <2>2 DEF Typed, TypeOK, SuspendQueue, connVars, srvVars, sndVars, env, history
    <2>4. Held'
      BY <1>3, <2>1, <2>2 DEF Typed, Held, SuspendQueue, connVars, srvVars, sndVars, env, history
    <2> QED BY <2>3, <2>4
  <1>4. CASE DeleteStoreQueue(c)
    <2>1. /\ cmd' \in [Clients -> Cmd]
          /\ \A x \in Clients :
                cmd'[x].at \in {"getMessage", "delMsg", "setDelivered"} => cmd'[x].sub \in SubId
      BY <1>4, HelperTypes, GotoTypes DEF DeleteStoreQueue, respond, CmdStep, AllOps
    <2>2. cmds' \in Nat
      BY <1>4 DEF DeleteStoreQueue, Counted, Typed, TypeOK
    <2>3. TypeOK'
      BY <1>4, <2>1, <2>2 DEF Typed, TypeOK, DeleteStoreQueue, connVars, srvVars, sndVars, env, history
    <2>4. Held'
      BY <1>4, <2>1, <2>2 DEF Typed, Held, DeleteStoreQueue, connVars, srvVars, sndVars, env, history
    <2> QED BY <2>3, <2>4
  <1>5. CASE \E id \in Msg : AckNoMsg(c, id)
    <2>1. /\ cmd' \in [Clients -> Cmd]
          /\ \A x \in Clients :
                cmd'[x].at \in {"getMessage", "delMsg", "setDelivered"} => cmd'[x].sub \in SubId
      BY <1>5, HelperTypes, GotoTypes DEF AckNoMsg, respond, CmdStep, AllOps
    <2>2. TypeOK'
      BY <1>5, <2>1 DEF Typed, TypeOK, AckNoMsg, connVars, srvVars, sndVars, env, history
    <2>3. Held'
      BY <1>5, <2>1 DEF Typed, Held, AckNoMsg, connVars, srvVars, sndVars, env, history
    <2> QED BY <2>2, <2>3
  <1>6. CASE SubscribeProhibited(c)
    <2>1. /\ cmd' \in [Clients -> Cmd]
          /\ \A x \in Clients :
                cmd'[x].at \in {"getMessage", "delMsg", "setDelivered"} => cmd'[x].sub \in SubId
      BY <1>6, HelperTypes, GotoTypes DEF SubscribeProhibited, respond, CmdStep, AllOps
    <2>2. TypeOK'
      BY <1>6, <2>1 DEF Typed, TypeOK, SubscribeProhibited, connVars, srvVars, sndVars, env, history
    <2>3. Held'
      BY <1>6, <2>1 DEF Typed, Held, SubscribeProhibited, connVars, srvVars, sndVars, env, history
    <2> QED BY <2>2, <2>3
  <1>7. CASE GetMessage(c)
    <2>1. cmd[c].sub \in SubId
      BY <1>7 DEF GetMessage, At, Typed, Held
    <2>2. /\ cmd' \in [Clients -> Cmd]
          /\ \A x \in Clients :
                cmd'[x].at \in {"getMessage", "delMsg", "setDelivered"} => cmd'[x].sub \in SubId
      BY <1>7, <2>1, HelperTypes, FinishTypes DEF GetMessage, AllOps
    <2>3. TypeOK'
      BY <1>7, <2>1, <2>2 DEF Typed, TypeOK, GetMessage, connVars, srvVars, sndVars, env, history
    <2>4. Held'
      BY <1>7, <2>1, <2>2 DEF Typed, Held, GetMessage, connVars, srvVars, sndVars, env, history
    <2> QED BY <2>3, <2>4
  <1>8. CASE DelPeekMsg(c)
    <2>1. cmd[c].sub \in SubId
      BY <1>8 DEF DelPeekMsg, At, Typed, Held
    <2>2. \E msg \in Msg : finish(c, "ACK", msg, cmd[c].sub)
      BY <1>8, PeekTypes DEF DelPeekMsg
    <2>3. /\ cmd' \in [Clients -> Cmd]
          /\ \A x \in Clients :
                cmd'[x].at \in {"getMessage", "delMsg", "setDelivered"} => cmd'[x].sub \in SubId
      BY <2>1, <2>2, FinishTypes DEF AllOps
    <2>4. outcome' \in [MsgId -> {"none", "stored", "acked", "dropped", "expired"}]
      BY <1>8 DEF DelPeekMsg, Typed, TypeOK
    <2>5. TypeOK'
      BY <1>8, <2>1, <2>2, <2>3, <2>4 DEF Typed, TypeOK, DelPeekMsg, connVars, srvVars, sndVars, env, history
    <2>6. Held'
      BY <1>8, <2>1, <2>2, <2>3, <2>4 DEF Typed, Held, DelPeekMsg, connVars, srvVars, sndVars, env, history
    <2> QED BY <2>5, <2>6
  <1>9. CASE DeleteMsgs(c)
    <2>1. /\ cmd' \in [Clients -> Cmd]
          /\ \A x \in Clients :
                cmd'[x].at \in {"getMessage", "delMsg", "setDelivered"} => cmd'[x].sub \in SubId
      BY <1>9, HelperTypes, GotoTypes DEF DeleteMsgs, respond, CmdStep, AllOps
    <2>2. outcome' \in [MsgId -> {"none", "stored", "acked", "dropped", "expired"}]
      BY <1>9 DEF DeleteMsgs, Typed, TypeOK
    <2>3. TypeOK'
      BY <1>9, <2>1, <2>2 DEF Typed, TypeOK, DeleteMsgs, connVars, srvVars, sndVars, env, history
    <2>4. Held'
      BY <1>9, <2>1, <2>2 DEF Typed, Held, DeleteMsgs, connVars, srvVars, sndVars, env, history
    <2> QED BY <2>3, <2>4
  <1>10. CASE WriteDeleted(c)
    <2>1. /\ cmd' \in [Clients -> Cmd]
          /\ \A x \in Clients :
                cmd'[x].at \in {"getMessage", "delMsg", "setDelivered"} => cmd'[x].sub \in SubId
      BY <1>10, HelperTypes, GotoTypes DEF WriteDeleted, respond, CmdStep, AllOps
    <2>2. [event |-> "CSDeleted", client |-> c] \in Event /\ subQ' \in Seq(Event)
      BY <1>10 DEF WriteDeleted, Event, Typed, TypeOK
    <2>3. TypeOK'
      BY <1>10, <2>1, <2>2 DEF Typed, TypeOK, WriteDeleted, connVars, srvVars, sndVars, env, history
    <2>4. Held'
      BY <1>10, <2>1, <2>2 DEF Typed, Held, WriteDeleted, connVars, srvVars, sndVars, env, history
    <2> QED BY <2>3, <2>4
  <1>11. CASE Respond(c)
    <2>1. cmd' = [cmd EXCEPT ![c] = NoCmd] /\ NoCmd.at = "none"
      BY <1>11 DEF Respond, NoCmd
    <2>2. /\ cmd' \in [Clients -> Cmd]
          /\ \A x \in Clients :
                cmd'[x].at \in {"getMessage", "delMsg", "setDelivered"} => cmd'[x].sub \in SubId
      BY <2>1 DEF Typed, TypeOK, Held
    <2>3. \E tr \in Transmission : sndQ' = [sndQ EXCEPT ![c] = Append(@, tr)]
      BY <1>11 DEF Respond, transmission, Cmd, Transmission
    <2>4. sndQ' \in [Clients -> Seq(Transmission)]
      BY <2>3, PushTypes
    <2>5. TypeOK'
      BY <1>11, <2>1, <2>2, <2>3, <2>4 DEF Typed, TypeOK, Respond, connVars, srvVars, sndVars, env, history
    <2>6. Held'
      BY <1>11, <2>1, <2>2, <2>3, <2>4 DEF Typed, Held, Respond, connVars, srvVars, sndVars, env, history
    <2> QED BY <2>5, <2>6
  <1> QED BY <1>1, <1>2, <1>3, <1>4, <1>5, <1>6, <1>7, <1>8, <1>9, <1>10, <1>11

(* The steps of commands that change Subs or subscriptions.                *)
LEMMA SubTypes ==
    ASSUME Typed, NEW c \in Clients,
           \/ SubscribeNew(c) \/ SubscribeAgain(c) \/ GetSub(c)
           \/ (\E id \in Msg : GetDelivered(c, id)) \/ DeleteSub(c) \/ SetDelivered(c)
    PROVE  TypeOK' /\ Held'
  <1> USE HelperTypes
  <1>1. CASE SubscribeNew(c)
    <2>1. cmd[c].msg \in Msg
      BY DEF Cmd
    <2>2. PICK s \in SubId : /\ freshSub(c, s) /\ subs' = [subs EXCEPT ![c][s] = newSub("NoSub")]
            /\ subscriptions' = [subscriptions EXCEPT ![c] = s]
            /\ finish(c, "SUB", cmd[c].msg, s)
      BY <1>1 DEF SubscribeNew
    <2>3. /\ subs' \in [Clients -> [SubId -> Sub]]
          /\ \A p \in Senders : send[p].at \in {"fork", "setThread"} =>
              subs'[send[p].rc][send[p].sub].thread # "ProhibitSub"
          /\ \A m \in MsgId : deliver[m].at # "none" =>
              subs'[deliver[m].rc][deliver[m].sub].thread # "ProhibitSub"
      BY <1>1, <2>2, NewSubTypes DEF SubscribeNew, sndVars
    <2>4. /\ cmd' \in [Clients -> Cmd]
          /\ \A x \in Clients :
                cmd'[x].at \in {"getMessage", "delMsg", "setDelivered"} => cmd'[x].sub \in SubId
      BY <2>1, <2>2, FinishTypes DEF AllOps
    <2>5. subQ' \in Seq(Event)
      BY <1>1 DEF SubscribeNew, Event, Typed, TypeOK
    <2>6. subscriptions' \in [Clients -> SubId \cup {NoSubId}]
      BY <2>2 DEF Typed, TypeOK
    <2>7. TypeOK'
      BY <1>1, <2>1, <2>2, <2>3, <2>4, <2>5, <2>6 DEF Typed, TypeOK, SubscribeNew, connVars, srvVars, sndVars, env, history
    <2>8. Held'
      BY <1>1, <2>1, <2>2, <2>3, <2>4, <2>5, <2>6 DEF Typed, Held, SubscribeNew, connVars, srvVars, sndVars, env, history
    <2> QED BY <2>7, <2>8
  <1>2. CASE SubscribeAgain(c)
    <2>1. cmd[c].msg \in Msg /\ subscriptions[c] \in SubId
      BY <1>2 DEF Cmd, SubscribeAgain, isSubscribed
    <2>2. /\ subs' \in [Clients -> [SubId -> Sub]]
          /\ \A x \in Clients, r \in SubId : subs'[x][r].thread = subs[x][r].thread
      BY <1>2, <2>1, SubsTypes DEF SubscribeAgain
    <2>3. /\ cmd' \in [Clients -> Cmd]
          /\ \A x \in Clients :
                cmd'[x].at \in {"getMessage", "delMsg", "setDelivered"} => cmd'[x].sub \in SubId
      BY <1>2, <2>1, FinishTypes DEF SubscribeAgain, AllOps
    <2>4. TypeOK'
      BY <1>2, <2>1, <2>2, <2>3 DEF Typed, TypeOK, SubscribeAgain, connVars, srvVars, sndVars, env, history
    <2>5. Held'
      BY SMTT(30), <1>2, <2>1, <2>2, <2>3 DEF Typed, Held, SubscribeAgain, connVars, srvVars, sndVars, env, history
    <2> QED BY <2>4, <2>5
  <1>3. CASE GetSub(c)
    <2>1. cmds' \in Nat
      BY <1>3 DEF GetSub, Counted, Typed, TypeOK
    <2>2. /\ UNCHANGED <<mqVars, queueRec, connected, sndQ, disc, srvVars, sndVars, history>>
      BY <1>3 DEF GetSub
    <2>3. CASE \E s \in SubId :
                 /\ freshSub(c, s)
                 /\ subs' = [subs EXCEPT ![c][s] = newSub("ProhibitSub")]
                 /\ subscriptions' = [subscriptions EXCEPT ![c] = s]
                 /\ goto(c, "GET", "getMessage", NoMsg, NoMsg, s)
      <3>1. PICK s \in SubId :
                 /\ freshSub(c, s)
                 /\ subs' = [subs EXCEPT ![c][s] = newSub("ProhibitSub")]
                 /\ subscriptions' = [subscriptions EXCEPT ![c] = s]
                 /\ goto(c, "GET", "getMessage", NoMsg, NoMsg, s)
        BY <2>3
      <3>2. /\ subs' \in [Clients -> [SubId -> Sub]]
            /\ \A p \in Senders : send[p].at \in {"fork", "setThread"} =>
                subs'[send[p].rc][send[p].sub].thread # "ProhibitSub"
            /\ \A m \in MsgId : deliver[m].at # "none" =>
                subs'[deliver[m].rc][deliver[m].sub].thread # "ProhibitSub"
        BY <2>2, <3>1, NewSubTypes DEF sndVars, srvVars
      <3>3. /\ cmd' \in [Clients -> Cmd]
            /\ \A x \in Clients :
                  cmd'[x].at \in {"getMessage", "delMsg", "setDelivered"} => cmd'[x].sub \in SubId
        BY <3>1, GotoTypes DEF AllOps, CmdStep
      <3>4. subscriptions' \in [Clients -> SubId \cup {NoSubId}]
        BY <3>1 DEF Typed, TypeOK
      <3>5. TypeOK'
        BY <2>1, <2>2, <3>2, <3>3, <3>4 DEF Typed, TypeOK, connVars, srvVars, sndVars, env, history
      <3>6. Held'
        <4>1. UNCHANGED <<send, deliver, subscriber>>
          BY <2>2 DEF srvVars, sndVars
        <4> QED BY <3>2, <3>3, <4>1 DEF Typed, Held
      <3> QED BY <3>5, <3>6
    <2>4. CASE /\ isProhibited(c)
               /\ subs' = [subs EXCEPT ![c][subscriptions[c]].delivered = NoMsg]
               /\ goto(c, "GET", "getMessage", NoMsg, NoMsg, subscriptions[c])
               /\ UNCHANGED subscriptions
      <3>1. subscriptions[c] \in SubId
        BY <2>4 DEF isProhibited
      <3>2. /\ subs' \in [Clients -> [SubId -> Sub]]
            /\ \A x \in Clients, r \in SubId : subs'[x][r].thread = subs[x][r].thread
        BY <2>4, <3>1, SubsTypes
      <3>3. /\ cmd' \in [Clients -> Cmd]
            /\ \A x \in Clients :
                  cmd'[x].at \in {"getMessage", "delMsg", "setDelivered"} => cmd'[x].sub \in SubId
        BY <2>4, <3>1, GotoTypes DEF AllOps, CmdStep
      <3>4. TypeOK'
        BY <2>1, <2>2, <2>4, <3>2, <3>3 DEF Typed, TypeOK, connVars, srvVars, sndVars, env, history
      <3>5. Held'
        BY SMTT(30), <2>2, <2>4, <3>2, <3>3 DEF Typed, Held, connVars, srvVars, sndVars, env, history
      <3> QED BY <3>4, <3>5
    <2> QED BY <1>3, <2>3, <2>4 DEF GetSub
  <1>4. CASE \E id \in Msg : GetDelivered(c, id)
    <2>1. PICK id \in Msg : GetDelivered(c, id)
      BY <1>4
    <2>2. subscriptions[c] \in SubId
      BY <2>1 DEF GetDelivered, acknowledges
    <2>3. /\ subs' \in [Clients -> [SubId -> Sub]]
          /\ \A x \in Clients, r \in SubId : subs'[x][r].thread = subs[x][r].thread
      BY <2>1, <2>2, SubsTypes DEF GetDelivered
    <2>4. /\ cmd' \in [Clients -> Cmd]
          /\ \A x \in Clients :
                cmd'[x].at \in {"getMessage", "delMsg", "setDelivered"} => cmd'[x].sub \in SubId
      BY <2>1, <2>2, GotoTypes DEF GetDelivered, AllOps, CmdStep
    <2>5. TypeOK'
      BY <1>4, <2>1, <2>2, <2>3, <2>4 DEF Typed, TypeOK, GetDelivered, connVars, srvVars, sndVars, env, history
    <2>6. Held'
      BY SMTT(30), <1>4, <2>1, <2>2, <2>3, <2>4 DEF Typed, Held, GetDelivered, connVars, srvVars, sndVars, env, history
    <2> QED BY <2>5, <2>6
  <1>5. CASE DeleteSub(c)
    <2>1. /\ cmd' \in [Clients -> Cmd]
          /\ \A x \in Clients :
                cmd'[x].at \in {"getMessage", "delMsg", "setDelivered"} => cmd'[x].sub \in SubId
      BY <1>5, GotoTypes DEF DeleteSub, AllOps, CmdStep
    <2>2. /\ deliver' \in [MsgId -> Delivering]
          /\ \A m \in MsgId : deliver'[m] \in {deliver[m], NoThread}
      BY <1>5, CancelTypes DEF DeleteSub
    <2>3. subscriptions' \in [Clients -> SubId \cup {NoSubId}]
      BY <1>5 DEF DeleteSub, Typed, TypeOK
    <2>4. TypeOK'
      BY <1>5, <2>1, <2>2, <2>3 DEF Typed, TypeOK, DeleteSub, NoThread, connVars, srvVars, sndVars, env, history
    <2>5. Held'
      BY <1>5, <2>1, <2>2, <2>3 DEF Typed, Held, DeleteSub, NoThread, connVars, srvVars, sndVars, env, history
    <2> QED BY <2>4, <2>5
  <1>6. CASE SetDelivered(c)
    <2>1. cmd[c].sub \in SubId /\ cmd[c].msg \in Msg
      BY <1>6 DEF SetDelivered, At, Typed, Held, Cmd
    <2>2. /\ subs' \in [Clients -> [SubId -> Sub]]
          /\ \A x \in Clients, r \in SubId : subs'[x][r].thread = subs[x][r].thread
      BY <1>6, <2>1, SubsTypes DEF SetDelivered
    <2>3. cmd[c].op \in AllOps \cup {"none", "PROHIBITED", "NO_MSG"}
      BY DEF Cmd
    <2>4. /\ cmd' \in [Clients -> Cmd]
          /\ \A x \in Clients :
                cmd'[x].at \in {"getMessage", "delMsg", "setDelivered"} => cmd'[x].sub \in SubId
      BY <1>6, <2>1, <2>3, GotoTypes DEF SetDelivered, respond, CmdStep
    <2>5. TypeOK'
      BY <1>6, <2>1, <2>2, <2>3, <2>4 DEF Typed, TypeOK, SetDelivered, connVars, srvVars, sndVars, env, history
    <2>6. Held'
      BY SMTT(30), <1>6, <2>1, <2>2, <2>3, <2>4 DEF Typed, Held, SetDelivered, connVars, srvVars, sndVars, env, history
    <2> QED BY <2>5, <2>6
  <1> QED BY <1>1, <1>2, <1>3, <1>4, <1>5, <1>6

(* A Sub that is replaced by one that GET has not made.                    *)
LEMMA ReplaceTypes ==
    ASSUME Typed, NEW c \in Clients, NEW s \in SubId, NEW new \in Sub, new.thread # "ProhibitSub",
           subs' = [subs EXCEPT ![c][s] = new]
    PROVE  /\ subs' \in [Clients -> [SubId -> Sub]]
           /\ \A x \in Clients, r \in SubId :
                 subs'[x][r].thread = "ProhibitSub" => subs[x][r].thread = "ProhibitSub"
  <1>1. subs \in [Clients -> [SubId -> Sub]] /\ \A x \in Clients : subs[x] \in [SubId -> Sub]
    BY DEF Typed, TypeOK
  <1> DEFINE mine == [subs[c] EXCEPT ![s] = new]
  <1>2. mine \in [SubId -> Sub] /\ \A r \in SubId : mine[r] = IF r = s THEN new ELSE subs[c][r]
    BY <1>1
  <1>3. subs' = [subs EXCEPT ![c] = mine]
    BY <1>1
  <1> HIDE DEF mine
  <1> QED BY <1>1, <1>2, <1>3

(* The steps of SEND.                                                      *)
LEMMA SendTypes ==
    ASSUME Typed, NEW p \in Senders, VerifySend(p) \/ SendStep(p)
    PROVE  TypeOK' /\ Held'
  <1> USE HelperTypes
  <1>0. send[p] \in Sending
    BY DEF Typed, TypeOK
  <1>1. CASE VerifySend(p)
    <2>1. /\ send' \in [Senders -> Sending]
          /\ \A x \in Senders : x # p => send'[x] = send[x]
          /\ send'[p] = [send[p] EXCEPT !.at = "writeMsg"]
      BY <1>0, <1>1 DEF VerifySend, Typed, TypeOK, Sending
    <2>2. send'[p].at = "writeMsg"
      BY <1>0, <2>1 DEF Sending
    <2>3. TypeOK'
      BY <1>1, <2>1, <2>2 DEF Typed, TypeOK, VerifySend, connVars, srvVars, sndVars, env, history
    <2>4. Held'
      BY <1>1, <2>1, <2>2 DEF Typed, Held, VerifySend, connVars, srvVars, sndVars, env, history
    <2> QED BY <2>3, <2>4
  <1>2. CASE SendMessage(p)
    <2>1. PICK m \in MsgId : /\ send' = [send EXCEPT ![p] = IF isEmpty
                                THEN [NoSend EXCEPT !.at = "getSubscribed", !.id = m] ELSE NoSend]
            /\ outcome' = [outcome EXCEPT ![m] = "stored"]
      BY <1>2 DEF SendMessage
    <2>2. /\ send' \in [Senders -> Sending]
          /\ \A x \in Senders : x # p => send'[x] = send[x]
          /\ send'[p].at \in {"none", "getSubscribed"}
          /\ send'[p].at = "getSubscribed" => send'[p].id \in MsgId
      BY <2>1 DEF Typed, TypeOK, NoSend, Sending
    <2>3. outcome' \in [MsgId -> {"none", "stored", "acked", "dropped", "expired"}]
      BY <2>1 DEF Typed, TypeOK
    <2>4. TypeOK'
      BY <1>2, <2>1, <2>2, <2>3 DEF Typed, TypeOK, SendMessage, connVars, srvVars, sndVars, env, history
    <2>5. Held'
      BY <1>2, <2>1, <2>2, <2>3 DEF Typed, Held, SendMessage, connVars, srvVars, sndVars, env, history
    <2> QED BY <2>4, <2>5
  <1>3. CASE SendQuota(p)
    <2>1. /\ send' \in [Senders -> Sending]
          /\ \A x \in Senders : x # p => send'[x] = send[x]
          /\ send'[p].at = "none"
      BY <1>3 DEF SendQuota, Typed, TypeOK, NoSend
    <2>2. outcome' \in [MsgId -> {"none", "stored", "acked", "dropped", "expired"}]
      BY <1>3 DEF SendQuota, Typed, TypeOK
    <2>3. TypeOK'
      BY <1>3, <2>1, <2>2 DEF Typed, TypeOK, SendQuota, connVars, srvVars, sndVars, env, history
    <2>4. Held'
      BY <1>3, <2>1, <2>2 DEF Typed, Held, SendQuota, connVars, srvVars, sndVars, env, history
    <2> QED BY <2>3, <2>4
  <1>4. CASE GetSubscribed(p)
    <2>1. /\ send' \in [Senders -> Sending]
          /\ \A x \in Senders : x # p => send'[x] = send[x]
          /\ send'[p].at = "none" \/ (send'[p].at = "deliverToSub" /\ send'[p].id = send[p].id /\ subscriber # None)
      BY <1>0, <1>4 DEF GetSubscribed, Typed, TypeOK, NoSend, Sending
    <2>2. TypeOK'
      BY <1>4, <2>1 DEF Typed, TypeOK, GetSubscribed, connVars, srvVars, sndVars, env, history
    <2>3. Held'
      BY <1>4, <2>1 DEF Typed, Held, GetSubscribed, connVars, srvVars, sndVars, env, history
    <2> QED BY <2>2, <2>3
  <1>5. CASE DeliverToSub(p)
    <2>1. subscriber \in Clients /\ subscriptions[subscriber] \in SubId /\ send[p].id \in MsgId
      BY <1>5 DEF DeliverToSub, deliverable, Typed, TypeOK, Held
    <2>2. subs[subscriber][subscriptions[subscriber]] \in Sub
      BY <2>1
    <2>3. UNCHANGED <<mqVars, queueRec, connected, subscriptions, cmd, disc, srvVars, deliver, env>>
      BY <1>5 DEF DeliverToSub
    <2> DEFINE rc == subscriber
               s == subscriptions[rc]
    <2>4. CASE /\ subs' = [subs EXCEPT ![rc][s].thread = "SubPending"]
               /\ send' = [send EXCEPT ![p].at = "fork", ![p].rc = rc, ![p].sub = s]
               /\ UNCHANGED sndQ
      <3> DEFINE new == [subs[rc][s] EXCEPT !.thread = "SubPending"]
      <3>1. new \in Sub /\ new.thread = "SubPending"
        BY <2>2 DEF Sub
      <3>2. subs' = [subs EXCEPT ![rc][s] = new]
        BY <2>4
      <3>3. /\ subs' \in [Clients -> [SubId -> Sub]]
            /\ \A x \in Clients, r \in SubId :
                subs'[x][r].thread = "ProhibitSub" => subs[x][r].thread = "ProhibitSub"
        BY <2>1, <3>1, <3>2, ReplaceTypes
      <3>4. subs'[rc][s].thread = "SubPending"
        BY <2>1, <3>1, <3>2 DEF Typed, TypeOK
      <3>5. /\ send' \in [Senders -> Sending]
            /\ \A x \in Senders : x # p => send'[x] = send[x]
            /\ send'[p].at = "fork" /\ send'[p].rc = rc /\ send'[p].sub = s /\ send'[p].id = send[p].id
        BY <1>0, <2>1, <2>4 DEF Typed, TypeOK, Sending
      <3>6. TypeOK'
        BY <2>3, <2>4, <3>3, <3>5 DEF Typed, TypeOK, connVars, srvVars, sndVars, env, history
      <3>7. Held'
        <4>1. UNCHANGED <<cmd, deliver, subscriber>>
          BY <2>3 DEF srvVars
        <4>2. ASSUME NEW x \in Senders
            PROVE  /\ send'[x].at \in {"fork", "setThread"} =>
                         /\ send'[x].rc \in Clients /\ send'[x].sub \in SubId
                         /\ subs'[send'[x].rc][send'[x].sub].thread # "ProhibitSub"
                   /\ send'[x].at \notin {"none", "writeMsg"} => send'[x].id \in MsgId
                   /\ send'[x].at = "deliverToSub" => subscriber # None
          BY <2>1, <3>3, <3>4, <3>5 DEF Typed, Held
        <4> QED BY <4>1, <4>2, <3>3 DEF Typed, Held
      <3> QED BY <3>6, <3>7
    <2>5. CASE /\ push(rc, send[p].id)
               /\ subs' = [subs EXCEPT ![rc][s].delivered = send[p].id]
               /\ send' = [send EXCEPT ![p] = NoSend]
      <3>1. /\ subs' \in [Clients -> [SubId -> Sub]]
            /\ \A x \in Clients, r \in SubId : subs'[x][r].thread = subs[x][r].thread
        BY <2>1, <2>5, SubsTypes
      <3>2. sndQ' \in [Clients -> Seq(Transmission)]
        BY <2>1, <2>5, PushTypes DEF push, transmission, Transmission
      <3>3. /\ send' \in [Senders -> Sending]
            /\ \A x \in Senders : x # p => send'[x] = send[x]
            /\ send'[p].at = "none"
        BY <2>5 DEF Typed, TypeOK, NoSend
      <3>4. TypeOK'
        BY <2>3, <3>1, <3>2, <3>3 DEF Typed, TypeOK, connVars, srvVars, sndVars, env, history
      <3>5. Held'
        BY SMTT(30), <2>3, <3>1, <3>3 DEF Typed, Held, connVars, srvVars, sndVars, env, history
      <3> QED BY <3>4, <3>5
    <2> QED BY <1>5, <2>4, <2>5 DEF DeliverToSub
  <1>6. CASE NotDelivered(p)
    <2>1. /\ send' \in [Senders -> Sending]
          /\ \A x \in Senders : x # p => send'[x] = send[x]
          /\ send'[p].at = "none"
      BY <1>6 DEF NotDelivered, Typed, TypeOK, NoSend
    <2>2. TypeOK'
      BY <1>6, <2>1 DEF Typed, TypeOK, NotDelivered, connVars, srvVars, sndVars, env, history
    <2>3. Held'
      BY <1>6, <2>1 DEF Typed, Held, NotDelivered, connVars, srvVars, sndVars, env, history
    <2> QED BY <2>2, <2>3
  <1>7. CASE ForkDeliver(p)
    <2>1. /\ send[p].rc \in Clients /\ send[p].sub \in SubId /\ send[p].id \in MsgId
          /\ subs[send[p].rc][send[p].sub].thread # "ProhibitSub"
      BY <1>7 DEF ForkDeliver, Typed, Held
    <2>2. /\ send' \in [Senders -> Sending]
          /\ \A x \in Senders : x # p => send'[x] = send[x]
          /\ send'[p] = [send[p] EXCEPT !.at = "setThread"]
      BY <1>0, <1>7 DEF ForkDeliver, Typed, TypeOK, Sending
    <2>3. /\ deliver' \in [MsgId -> Delivering]
          /\ \A m \in MsgId : m # send[p].id => deliver'[m] = deliver[m]
          /\ deliver'[send[p].id] = [at |-> "getSubscribed", rc |-> send[p].rc, sub |-> send[p].sub]
      BY <1>7, <2>1 DEF ForkDeliver, Typed, TypeOK, Delivering
    <2>4. send'[p].at = "setThread" /\ send'[p].rc = send[p].rc /\ send'[p].sub = send[p].sub /\ send'[p].id = send[p].id
      BY <1>0, <2>2 DEF Sending
    <2>5. TypeOK'
      BY <1>7, <2>1, <2>2, <2>3, <2>4 DEF Typed, TypeOK, ForkDeliver, connVars, srvVars, sndVars, env, history
    <2>6. Held'
      BY ZenonT(30), <1>7, <2>1, <2>2, <2>3, <2>4 DEF Typed, Held, ForkDeliver, connVars, srvVars, sndVars, env, history
    <2> QED BY <2>5, <2>6
  <1>8. CASE SetSubThread(p)
    <2>1. send[p].rc \in Clients /\ send[p].sub \in SubId /\ send[p].id \in MsgId
      BY <1>8 DEF SetSubThread, Typed, Held
    <2> DEFINE old == subs[send[p].rc][send[p].sub]
               new == [old EXCEPT !.thread = "SubThread", !.tid = send[p].id]
    <2>2. old \in Sub
      BY <2>1
    <2>3. new \in Sub /\ new.thread = "SubThread"
      BY <2>1, <2>2 DEF Sub
    <2>4. subs' = subs \/ subs' = [subs EXCEPT ![send[p].rc][send[p].sub] = new]
      BY <1>8 DEF SetSubThread
    <2>5. /\ subs' \in [Clients -> [SubId -> Sub]]
          /\ \A x \in Clients, r \in SubId :
                subs'[x][r].thread = "ProhibitSub" => subs[x][r].thread = "ProhibitSub"
      <3>1. CASE subs' = subs
        BY <3>1 DEF Typed, TypeOK
      <3>2. CASE subs' = [subs EXCEPT ![send[p].rc][send[p].sub] = new]
        <4> HIDE DEF new
        <4> QED BY <2>1, <2>3, <3>2, ReplaceTypes
      <3> QED BY <2>4, <3>1, <3>2
    <2>6. /\ send' \in [Senders -> Sending]
          /\ \A x \in Senders : x # p => send'[x] = send[x]
          /\ send'[p].at = "none"
      BY <1>8 DEF SetSubThread, Typed, TypeOK, NoSend
    <2>7. UNCHANGED <<mqVars, queueRec, connVars, srvVars, deliver, env>>
      BY <1>8 DEF SetSubThread
    <2>8. TypeOK'
      BY <2>5, <2>6, <2>7 DEF Typed, TypeOK, connVars, srvVars, sndVars, env, history
    <2>9. Held'
      <3>1. UNCHANGED <<cmd, deliver, subscriber>>
        BY <2>7 DEF connVars, srvVars
      <3>2. ASSUME NEW x \in Senders
          PROVE  /\ send'[x].at \in {"fork", "setThread"} =>
                       /\ send'[x].rc \in Clients /\ send'[x].sub \in SubId
                       /\ subs'[send'[x].rc][send'[x].sub].thread # "ProhibitSub"
                 /\ send'[x].at \notin {"none", "writeMsg"} => send'[x].id \in MsgId
                 /\ send'[x].at = "deliverToSub" => subscriber # None
        BY <2>5, <2>6 DEF Typed, Held
      <3> QED BY <3>1, <3>2, <2>5 DEF Typed, Held
    <2> QED BY <2>8, <2>9
  <1> QED BY <1>1, <1>2, <1>3, <1>4, <1>5, <1>6, <1>7, <1>8 DEF SendStep

(* The steps of deliverThread.                                             *)
LEMMA ThreadTypes ==
    ASSUME Typed, NEW m \in MsgId, ThreadStep(m)
    PROVE  TypeOK' /\ Held'
  <1> USE HelperTypes
  <1>0. deliver[m] \in Delivering
    BY DEF Typed, TypeOK
  <1>1. CASE ThreadGetSubscribed(m)
    <2>1. /\ deliver' \in [MsgId -> Delivering]
          /\ \A x \in MsgId : x # m => deliver'[x] = deliver[x]
          /\ \/ deliver'[m].at = "none"
             \/ /\ deliver'[m].at = "deliverIfSame" /\ subscriber # None
                /\ deliver'[m].rc = deliver[m].rc /\ deliver'[m].sub = deliver[m].sub
      BY <1>0, <1>1 DEF ThreadGetSubscribed, Typed, TypeOK, NoThread, Delivering
    <2>2. deliver[m].at = "getSubscribed"
      BY <1>1 DEF ThreadGetSubscribed
    <2>3. TypeOK'
      BY <1>1, <2>1, <2>2 DEF Typed, TypeOK, ThreadGetSubscribed, connVars, srvVars, sndVars, env, history
    <2>4. Held'
      BY <1>1, <2>1, <2>2 DEF Typed, Held, ThreadGetSubscribed, connVars, srvVars, sndVars, env, history
    <2> QED BY <2>3, <2>4
  <1>2. CASE DeliverIfSame(m)
    <2>1. deliver[m].rc \in Clients /\ deliver[m].sub \in SubId /\ subscriber = deliver[m].rc
      BY <1>2 DEF DeliverIfSame, Typed, Held
    <2> DEFINE old == subs[deliver[m].rc][deliver[m].sub]
               new == [old EXCEPT !.delivered = m, !.thread = "NoSub"]
    <2>2. old \in Sub
      BY <2>1
    <2>3. new \in Sub /\ new.thread = "NoSub"
      BY <2>2 DEF Sub
    <2>4. subs' = [subs EXCEPT ![deliver[m].rc][deliver[m].sub] = new]
      BY <1>2 DEF DeliverIfSame
    <2>5. /\ subs' \in [Clients -> [SubId -> Sub]]
          /\ \A x \in Clients, r \in SubId :
                subs'[x][r].thread = "ProhibitSub" => subs[x][r].thread = "ProhibitSub"
      <3> HIDE DEF new
      <3> QED BY <2>1, <2>3, <2>4, ReplaceTypes
    <2>6. sndQ' \in [Clients -> Seq(Transmission)]
      BY <1>2, <2>1, PushTypes DEF DeliverIfSame, push, transmission, Transmission
    <2>7. /\ deliver' \in [MsgId -> Delivering]
          /\ \A x \in MsgId : x # m => deliver'[x] = deliver[x]
          /\ deliver'[m].at = "none"
      BY <1>2 DEF DeliverIfSame, Typed, TypeOK, NoThread
    <2>8. UNCHANGED <<mqVars, queueRec, connected, subscriptions, cmd, disc, srvVars, send, env>>
      BY <1>2 DEF DeliverIfSame
    <2>9. TypeOK'
      BY <2>5, <2>6, <2>7, <2>8 DEF Typed, TypeOK, connVars, srvVars, sndVars, env, history
    <2>10. Held'
      <3>1. UNCHANGED <<cmd, send, subscriber>>
        BY <2>8 DEF srvVars
      <3>2. ASSUME NEW x \in MsgId, deliver'[x].at # "none"
            PROVE  deliver'[x] = deliver[x] /\ subs'[deliver[x].rc][deliver[x].sub].thread # "ProhibitSub"
        BY <2>5, <2>7, <3>2 DEF Typed, Held
      <3>3. ASSUME NEW p \in Senders, send[p].at \in {"fork", "setThread"}
            PROVE  subs'[send[p].rc][send[p].sub].thread # "ProhibitSub"
        BY <2>5, <3>3 DEF Typed, Held
      <3> QED BY <3>1, <3>2, <3>3 DEF Typed, Held
    <2> QED BY <2>9, <2>10
  <1>3. CASE ThreadExit(m)
    <2>1. /\ deliver' \in [MsgId -> Delivering]
          /\ \A x \in MsgId : x # m => deliver'[x] = deliver[x]
          /\ deliver'[m].at = "none"
      BY <1>3 DEF ThreadExit, Typed, TypeOK, NoThread
    <2>2. TypeOK'
      BY <1>3, <2>1 DEF Typed, TypeOK, ThreadExit, connVars, srvVars, sndVars, env, history
    <2>3. Held'
      BY <1>3, <2>1 DEF Typed, Held, ThreadExit, connVars, srvVars, sndVars, env, history
    <2> QED BY <2>2, <2>3
  <1> QED BY <1>1, <1>2, <1>3 DEF ThreadStep

(* A lost subscriber leaves no SEND and no thread about to deliver.         *)
LEMMA LoseHeld ==
    ASSUME Typed, loseSubscriber(send, deliver), UNCHANGED <<cmd, subs>>
    PROVE  Held'
  <1>1. ASSUME NEW p \in Senders
        PROVE  /\ send'[p].at \in {"fork", "setThread"} =>
                     /\ send'[p].rc \in Clients /\ send'[p].sub \in SubId
                     /\ subs'[send'[p].rc][send'[p].sub].thread # "ProhibitSub"
               /\ send'[p].at \notin {"none", "writeMsg"} => send'[p].id \in MsgId
               /\ send'[p].at # "deliverToSub"
    BY LoseTypes DEF Typed, Held
  <1>2. ASSUME NEW m \in MsgId
        PROVE  /\ deliver'[m].at # "none" =>
                     /\ deliver'[m].rc \in Clients /\ deliver'[m].sub \in SubId
                     /\ subs'[deliver'[m].rc][deliver'[m].sub].thread # "ProhibitSub"
               /\ deliver'[m].at # "deliverIfSame"
    BY LoseTypes DEF Typed, Held
  <1> QED BY <1>1, <1>2 DEF Typed, Held

(* serverThread tells the previous subscriber.                             *)
LEMMA EndTypes ==
    ASSUME Typed, NEW c \in Clients, NEW evt \in {"END", "DELD"}, endPrevious(c, evt)
    PROVE  /\ pendingEvents' \in [Clients -> Seq({"END", "DELD"})]
           /\ ending' \in Clients \cup {None}
  <1>1. CASE subscriber \notin {None, c} /\ connected[subscriber]
    <2>1. subscriber \in Clients
      BY <1>1 DEF Typed, TypeOK
    <2>2. <<evt>> \o pendingEvents[subscriber] \in Seq({"END", "DELD"})
      <3>1. pendingEvents[subscriber] \in Seq({"END", "DELD"}) /\ <<evt>> \in Seq({"END", "DELD"})
        BY <2>1 DEF Typed, TypeOK
      <3> QED BY <3>1, ConcatProperties
    <2> QED BY <1>1, <2>1, <2>2 DEF endPrevious, Typed, TypeOK
  <1>2. CASE ~(subscriber \notin {None, c} /\ connected[subscriber])
    BY <1>2 DEF endPrevious, Typed, TypeOK
  <1> QED BY <1>1, <1>2

(* The event that serverThread takes.                                      *)
LEMMA EventTypes ==
    ASSUME Typed, subQ # <<>>
    PROVE  Head(subQ) \in Event /\ Head(subQ).client \in Clients /\ Tail(subQ) \in Seq(Event)
  <1>1. Head(subQ) \in Event /\ Tail(subQ) \in Seq(Event)
    BY DEF Typed, TypeOK
  <1> QED BY <1>1 DEF Event

(* The steps of serverThread and sendPendingEvtsThread.                    *)
LEMMA ServerTypes ==
    ASSUME Typed, ServerStep \/ \E c \in Clients : SendPendingEvts(c)
    PROVE  TypeOK' /\ Held'
  <1> USE HelperTypes
  <1>1. CASE UpdateSubscribed
    <2>1. Head(subQ).client \in Clients /\ Tail(subQ) \in Seq(Event)
      BY <1>1, EventTypes DEF UpdateSubscribed, NextEvent
    <2>2. /\ pendingEvents' \in [Clients -> Seq({"END", "DELD"})]
          /\ ending' \in Clients \cup {None}
      BY <1>1, <2>1, EndTypes DEF UpdateSubscribed
    <2>3. subscriber' \in Clients /\ subClients' \subseteq Clients
      BY <1>1, <2>1 DEF UpdateSubscribed, Typed, TypeOK
    <2>4. TypeOK'
      BY <1>1, <2>1, <2>2, <2>3 DEF Typed, TypeOK, UpdateSubscribed, connVars, srvVars, sndVars, env, history
    <2>5. Held'
      BY <1>1, <2>1, <2>2, <2>3 DEF Typed, Held, UpdateSubscribed, connVars, srvVars, sndVars, env, history
    <2> QED BY <2>4, <2>5
  <1>2. CASE UpdateDisconnected
    <2>1. Head(subQ).client \in Clients /\ Tail(subQ) \in Seq(Event)
      BY <1>2, EventTypes DEF UpdateDisconnected, NextEvent
    <2>2. /\ pendingEvents' \in [Clients -> Seq({"END", "DELD"})]
          /\ ending' \in Clients \cup {None}
      BY <1>2, <2>1, EndTypes DEF UpdateDisconnected
    <2>3. /\ subscriber' = None
          /\ send' \in [Senders -> Sending] /\ deliver' \in [MsgId -> Delivering]
      BY <1>2, LoseTypes DEF UpdateDisconnected
    <2>4. subClients' \subseteq Clients
      BY <1>2 DEF UpdateDisconnected, Typed, TypeOK
    <2>5. TypeOK'
      BY <1>2, <2>1, <2>2, <2>3, <2>4 DEF Typed, TypeOK, UpdateDisconnected, connVars, srvVars, sndVars, env, history
    <2>6. Held'
      BY <1>2, LoseHeld DEF UpdateDisconnected, connVars
    <2> QED BY <2>5, <2>6
  <1>3. CASE UpdateDeleted
    <2>1. Head(subQ).client \in Clients /\ Tail(subQ) \in Seq(Event)
      BY <1>3, EventTypes DEF UpdateDeleted, NextEvent
    <2>2. /\ pendingEvents' \in [Clients -> Seq({"END", "DELD"})]
          /\ ending' \in Clients \cup {None}
      BY <1>3, <2>1, EndTypes DEF UpdateDeleted
    <2>3. /\ subscriber' = None
          /\ send' \in [Senders -> Sending] /\ deliver' \in [MsgId -> Delivering]
      BY <1>3, LoseTypes DEF UpdateDeleted
    <2>4. subClients' \subseteq Clients
      BY <1>3 DEF UpdateDeleted, Typed, TypeOK
    <2>5. TypeOK'
      BY <1>3, <2>1, <2>2, <2>3, <2>4 DEF Typed, TypeOK, UpdateDeleted, connVars, srvVars, sndVars, env, history
    <2>6. Held'
      BY <1>3, LoseHeld DEF UpdateDeleted, connVars
    <2> QED BY <2>5, <2>6
  <1>4. CASE EndSub
    <2>1. ending \in Clients
      BY <1>4 DEF EndSub, Typed, TypeOK
    <2>2. /\ deliver' \in [MsgId -> Delivering]
          /\ \A m \in MsgId : deliver'[m] \in {deliver[m], NoThread}
      BY <1>4, <2>1, CancelTypes DEF EndSub
    <2>3. subscriptions' \in [Clients -> SubId \cup {NoSubId}]
      BY <1>4, <2>1 DEF EndSub, Typed, TypeOK
    <2>4. TypeOK'
      BY <1>4, <2>1, <2>2, <2>3 DEF Typed, TypeOK, EndSub, NoThread, connVars, srvVars, sndVars, env, history
    <2>5. Held'
      BY <1>4, <2>1, <2>2, <2>3 DEF Typed, Held, EndSub, NoThread, connVars, srvVars, sndVars, env, history
    <2> QED BY <2>4, <2>5
  <1>5. CASE \E c \in Clients : SendPendingEvts(c)
    <2>1. PICK c \in Clients : SendPendingEvts(c)
      BY <1>5
    <2>2. Head(pendingEvents[c]) \in {"END", "DELD"}
      BY <2>1 DEF SendPendingEvts, Typed, TypeOK
    <2>3. sndQ' \in [Clients -> Seq(Transmission)]
      <3>1. CASE sndQ' = [sndQ EXCEPT ![c] = Append(@, transmission(Head(pendingEvents[c]), NoMsg))]
        <4>1. transmission(Head(pendingEvents[c]), NoMsg) \in Transmission
          BY <2>2 DEF transmission, Transmission
        <4> QED BY <3>1, <4>1, PushTypes
      <3>2. CASE UNCHANGED sndQ
        BY <3>2 DEF Typed, TypeOK
      <3> QED BY <2>1, <3>1, <3>2 DEF SendPendingEvts
    <2>4. pendingEvents' \in [Clients -> Seq({"END", "DELD"})]
      BY <2>1 DEF SendPendingEvts, Typed, TypeOK
    <2>5. TypeOK'
      BY <1>5, <2>1, <2>2, <2>3, <2>4 DEF Typed, TypeOK, SendPendingEvts, connVars, srvVars, sndVars, env, history
    <2>6. Held'
      BY <1>5, <2>1, <2>2, <2>3, <2>4 DEF Typed, Held, SendPendingEvts, connVars, srvVars, sndVars, env, history
    <2> QED BY <2>5, <2>6
  <1> QED BY <1>1, <1>2, <1>3, <1>4, <1>5 DEF ServerStep

(* The steps of a connection, and expiry.                                  *)
LEMMA ConnectionTypes ==
    ASSUME Typed,
           \/ \E c \in Clients : Transmit(c) \/ Disconnect(c) \/ SwapSubs(c) \/ DeleteClient(c)
           \/ Expire
    PROVE  TypeOK' /\ Held'
  <1> USE HelperTypes
  <1>1. CASE \E c \in Clients : Transmit(c)
    <2>1. PICK c \in Clients : Transmit(c)
      BY <1>1
    <2>2. Head(sndQ[c]) \in Transmission /\ Tail(sndQ[c]) \in Seq(Transmission)
      BY <2>1 DEF Transmit
    <2>3. sndQ' \in [Clients -> Seq(Transmission)]
      BY <2>1, <2>2 DEF Transmit, Typed, TypeOK
    <2>4. {Head(sndQ[c]).msg} \ {NoMsg} \subseteq MsgId
      BY <2>2 DEF Transmission, Msg
    <2>5. received' \in [Clients -> SUBSET MsgId]
      BY <2>1, <2>4 DEF Transmit, Typed, TypeOK
    <2>6. TypeOK'
      BY <1>1, <2>1, <2>2, <2>3, <2>4, <2>5 DEF Typed, TypeOK, Transmit, connVars, srvVars, sndVars, env, history
    <2>7. Held'
      BY <1>1, <2>1, <2>2, <2>3, <2>4, <2>5 DEF Typed, Held, Transmit, connVars, srvVars, sndVars, env, history
    <2> QED BY <2>6, <2>7
  <1>2. CASE \E c \in Clients : Disconnect(c)
    <2>1. PICK c \in Clients : Disconnect(c)
      BY <1>2
    <2>2. /\ cmd' \in [Clients -> Cmd]
          /\ \A x \in Clients :
                cmd'[x].at \in {"getMessage", "delMsg", "setDelivered"} => cmd'[x].sub \in SubId
      BY <2>1 DEF Disconnect, Typed, TypeOK, Held, NoCmd
    <2>3. /\ connected' \in [Clients -> BOOLEAN]
          /\ sndQ' \in [Clients -> Seq(Transmission)]
          /\ disc' \in [Clients -> {"none", "swapSubs", "deleteSubscribed", "deleteClient", "done"}]
      BY <2>1 DEF Disconnect, Typed, TypeOK
    <2>4. TypeOK'
      BY <1>2, <2>1, <2>2, <2>3 DEF Typed, TypeOK, Disconnect, connVars, srvVars, sndVars, env, history
    <2>5. Held'
      BY <1>2, <2>1, <2>2, <2>3 DEF Typed, Held, Disconnect, connVars, srvVars, sndVars, env, history
    <2> QED BY <2>4, <2>5
  <1>3. CASE \E c \in Clients : SwapSubs(c)
    <2>1. PICK c \in Clients : SwapSubs(c)
      BY <1>3
    <2>2. /\ deliver' \in [MsgId -> Delivering]
          /\ \A m \in MsgId : deliver'[m] \in {deliver[m], NoThread}
      BY <2>1, CancelTypes DEF SwapSubs
    <2>3. /\ subscriptions' \in [Clients -> SubId \cup {NoSubId}]
          /\ disc' \in [Clients -> {"none", "swapSubs", "deleteSubscribed", "deleteClient", "done"}]
      BY <2>1 DEF SwapSubs, Typed, TypeOK
    <2>4. TypeOK'
      BY <1>3, <2>1, <2>2, <2>3 DEF Typed, TypeOK, SwapSubs, NoThread, connVars, srvVars, sndVars, env, history
    <2>5. Held'
      BY SMTT(30), <1>3, <2>1, <2>2, <2>3 DEF Typed, Held, SwapSubs, NoThread, connVars, srvVars, sndVars, env, history
    <2> QED BY <2>4, <2>5
  <1>4. CASE \E c \in Clients : DeleteClient(c)
    <2>1. PICK c \in Clients : DeleteClient(c)
      BY <1>4
    <2>2. /\ disc' \in [Clients -> {"none", "swapSubs", "deleteSubscribed", "deleteClient", "done"}]
          /\ subClients' \subseteq Clients
      BY <2>1 DEF DeleteClient, Typed, TypeOK
    <2>3. CASE loseSubscriber(send, deliver)
      <3>1. /\ subscriber' = None
          /\ send' \in [Senders -> Sending] /\ deliver' \in [MsgId -> Delivering]
        BY <2>3, LoseTypes
      <3>2. TypeOK'
        BY <2>1, <2>2, <3>1 DEF Typed, TypeOK, DeleteClient, connVars, srvVars, sndVars, env, history
      <3>3. Held'
        BY <2>1, <2>3, LoseHeld DEF DeleteClient
      <3> QED BY <3>2, <3>3
    <2>4. CASE UNCHANGED <<subscriber, send, deliver>>
      <3>1. TypeOK'
        BY <2>1, <2>2, <2>4 DEF Typed, TypeOK, DeleteClient, connVars, srvVars, sndVars, env, history
      <3>2. Held'
        BY <2>1, <2>4 DEF Typed, Held, DeleteClient
      <3> QED BY <3>1, <3>2
    <2> QED BY <2>1, <2>3, <2>4 DEF DeleteClient
  <1>5. CASE Expire
    <2>1. outcome' \in [MsgId -> {"none", "stored", "acked", "dropped", "expired"}]
      BY <1>5 DEF Expire, Typed, TypeOK
    <2>2. TypeOK'
      BY <1>5, <2>1 DEF Typed, TypeOK, Expire, connVars, srvVars, sndVars, env, history
    <2>3. Held'
      BY <1>5, <2>1 DEF Typed, Held, Expire, connVars, srvVars, sndVars, env, history
    <2> QED BY <2>2, <2>3
  <1> QED BY <1>1, <1>2, <1>3, <1>4, <1>5

(* Every step keeps the types and the Subs that are held.                  *)
LEMMA TypesPreserved == Typed /\ [Next]_vars => Typed'
  <1> SUFFICES ASSUME Typed, [Next]_vars PROVE Typed'
    OBVIOUS
  <1>1. IInv'
    BY QueueSteps, NextPreserves DEF Typed
  <1>2. ASSUME NEW c \in Clients, Command(c) PROVE TypeOK' /\ Held'
    BY <1>2, CommandTypes, SubTypes DEF Command
  <1>3. ASSUME NEW c \in Clients, Ack(c) PROVE TypeOK' /\ Held'
    BY <1>3, CommandTypes, SubTypes DEF Ack, Msg
  <1>4. ASSUME NEW c \in Clients, ClientStep(c) PROVE TypeOK' /\ Held'
    BY <1>4, CommandTypes, SubTypes DEF ClientStep
  <1>5. ASSUME UNCHANGED vars PROVE TypeOK' /\ Held'
    <2>1. TypeOK'
      BY <1>5 DEF vars, connVars, srvVars, sndVars, env, history, Typed, TypeOK
    <2>2. Held'
      BY <1>5 DEF vars, connVars, srvVars, sndVars, Typed, Held
    <2> QED BY <2>1, <2>2
  <1>6. TypeOK' /\ Held'
    BY <1>2, <1>3, <1>4, <1>5, SendTypes, ThreadTypes, ServerTypes, ConnectionTypes DEF Next
  <1> QED BY <1>1, <1>6 DEF Typed

(* Initially nothing is subscribed or in progress.                         *)
LEMMA InitTyped == Init => Typed
  <1> SUFFICES ASSUME Init PROVE Typed
    OBVIOUS
  <1>1. IInv
    BY EmptyPreserves, QueueAssumption DEF Init, MQInit
  <1>2. TypeOK
    BY DEF Init, TypeOK, newSub, Sub, Msg, NoCmd, Cmd, CmdStep, NoSend, Sending, NoThread, Delivering
  <1>3. Held
    BY DEF Init, Held, NoCmd, NoSend, NoThread
  <1> QED BY <1>1, <1>2, <1>3 DEF Typed

(* The types, and the invariant of the message queue, hold of every state. *)
LEMMA TypedHolds == Spec => []Typed
  BY InitTyped, TypesPreserved, PTL DEF Spec

(* The variables of delivery keep their types, and no step ever works on a *)
(* Sub that is none.                                                       *)
THEOREM DeliveryTyped == Spec => [](TypeOK /\ Held)
  <1>1. Typed => TypeOK /\ Held
    BY DEF Typed
  <1> QED BY <1>1, TypedHolds, PTL

-----------------------------------------------------------------------------
(* Subscriptions *)

(* An event that serverThread has still to process.                        *)
queued(e, c) == \E i \in 1..Len(subQ) : subQ[i] = [event |-> e, client |-> c]

(* The connection waits at most once to be registered.                     *)
once(c) ==
    \A i, j \in 1..Len(subQ) :
        /\ subQ[i] = [event |-> "CSClient", client |-> c]
        /\ subQ[j] = [event |-> "CSClient", client |-> c]
        => i = j

(* A queue that is being deleted is deleted in the record; the connection  *)
(* that deletes it has no subscription when serverThread learns of it, and *)
(* makes none.                                                             *)
Deleting ==
    \A c \in Clients :
        /\ cmd[c].at \in {"deleteMsgs", "deleteSub", "writeDeleted"} => queueRec = "deleted"
        /\ cmd[c].at = "writeDeleted" => ~hasSub(c)
        /\ queued("CSDeleted", c) =>
              queueRec = "deleted" /\ ~hasSub(c) /\ cmd[c].at \in {"none", "respond"}

(* clientDisconnected leaves nothing of the connection.                    *)
Closing ==
    \A c \in Clients :
        /\ connected[c] <=> disc[c] = "none"
        /\ disc[c] \in {"deleteSubscribed", "deleteClient", "done"} => ~hasSub(c)
        /\ disc[c] = "done" => c \notin subClients
        /\ disc[c] \in {"deleteClient", "done"} /\ queueRec # "deleted" => subscriber # c

(* As long as the queue is there, a connection waits to be registered, or  *)
(* is the subscriber, or is about to be ended, and only one of these; and  *)
(* it has the Sub that this is about until it takes it out itself.         *)
Claims ==
    queueRec # "deleted" =>
        \A c \in Clients :
            /\ once(c)
            /\ ~(subscriber = c /\ ending = c)
            /\ ~(subscriber = c /\ queued("CSClient", c))
            /\ ~(ending = c /\ queued("CSClient", c))
            /\ /\ subscriber = c \/ ending = c \/ queued("CSClient", c)
               /\ connected[c] \/ disc[c] = "swapSubs"
               => hasSub(c)

Registered == Deleting /\ Closing /\ Claims /\ NoZombieSubscription

(* What an event adds to subQ.                                             *)
LEMMA QueuedAppend ==
    ASSUME Typed, NEW e \in {"CSClient", "CSDeleted"}, NEW c \in Clients,
           subQ' = Append(subQ, [event |-> e, client |-> c])
    PROVE  /\ \A f \in {"CSClient", "CSDeleted"}, x \in Clients :
                 queued(f, x)' <=> queued(f, x) \/ (f = e /\ x = c)
           /\ \A x \in Clients :
                 once(x) /\ (e = "CSClient" /\ x = c => ~queued("CSClient", c)) => once(x)'
  <1> DEFINE new == [event |-> e, client |-> c]
  <1>1. /\ Len(subQ') = Len(subQ) + 1 /\ Len(subQ) \in Nat
        /\ \A i \in 1..Len(subQ) : subQ'[i] = subQ[i]
        /\ subQ'[Len(subQ) + 1] = new
    <2>1. new \in Event /\ subQ \in Seq(Event)
      BY DEF Event, Typed, TypeOK
    <2> HIDE DEF new
    <2> QED BY <2>1, AppendFacts, EmptyFacts DEF new
  <1>2. ASSUME NEW f \in {"CSClient", "CSDeleted"}, NEW x \in Clients
        PROVE  queued(f, x)' <=> queued(f, x) \/ (f = e /\ x = c)
    <2> DEFINE ev == [event |-> f, client |-> x]
    <2>1. ev = new <=> f = e /\ x = c
      OBVIOUS
    <2>2. queued(f, x) <=> \E i \in 1..Len(subQ) : subQ[i] = ev
      BY DEF queued
    <2>3. queued(f, x)' <=> \E i \in 1..Len(subQ') : subQ'[i] = ev
      BY DEF queued
    <2> HIDE DEF ev, new
    <2> QED BY <1>1, <2>1, <2>2, <2>3
  <1>3. ASSUME NEW x \in Clients, once(x), e = "CSClient" /\ x = c => ~queued("CSClient", c)
        PROVE  once(x)'
    <2> DEFINE ev == [event |-> "CSClient", client |-> x]
    <2>1. \A i \in 1..Len(subQ) : subQ'[i] = ev => ev # new
      BY <1>1, <1>3 DEF queued
    <2>2. \A i, j \in 1..Len(subQ) : subQ[i] = ev /\ subQ[j] = ev => i = j
      BY <1>3 DEF once
    <2> HIDE DEF ev, new
    <2>3. \A i, j \in 1..Len(subQ') : subQ'[i] = ev /\ subQ'[j] = ev => i = j
      BY <1>1, <2>1, <2>2
    <2> QED BY <2>3 DEF ev, once
  <1> QED BY <1>2, <1>3

(* What serverThread takes from subQ.                                      *)
LEMMA QueuedTail ==
    ASSUME Typed, subQ # <<>>, subQ' = Tail(subQ)
    PROVE  /\ Head(subQ).event \in {"CSClient", "CSDeleted"} /\ Head(subQ).client \in Clients
           /\ queued(Head(subQ).event, Head(subQ).client)
           /\ \A f \in {"CSClient", "CSDeleted"}, x \in Clients :
                 /\ queued(f, x)' => queued(f, x)
                 /\ queued(f, x) => queued(f, x)' \/ (f = Head(subQ).event /\ x = Head(subQ).client)
           /\ \A x \in Clients : once(x) => once(x)'
           /\ \A x \in Clients : once(x) /\ Head(subQ) = [event |-> "CSClient", client |-> x]
                 => ~queued("CSClient", x)'
  <1>1. /\ Len(subQ) \in Nat \ {0} /\ Len(subQ') = Len(subQ) - 1
        /\ \A i \in 1..Len(subQ') : subQ'[i] = subQ[i + 1]
        /\ Head(subQ) = subQ[1]
    BY EmptyFacts, HeadTailProperties DEF Typed, TypeOK
  <1>2. Head(subQ) \in Event
    BY EventTypes
  <1>3. /\ Head(subQ).event \in {"CSClient", "CSDeleted"} /\ Head(subQ).client \in Clients
        /\ Head(subQ) = [event |-> Head(subQ).event, client |-> Head(subQ).client]
    BY <1>2 DEF Event
  <1>4. queued(Head(subQ).event, Head(subQ).client)
    BY <1>1, <1>3 DEF queued
  <1>5. ASSUME NEW f \in {"CSClient", "CSDeleted"}, NEW x \in Clients
        PROVE  /\ queued(f, x)' => queued(f, x)
               /\ queued(f, x) => queued(f, x)' \/ (f = Head(subQ).event /\ x = Head(subQ).client)
    <2> DEFINE ev == [event |-> f, client |-> x]
    <2>1. queued(f, x) <=> \E i \in 1..Len(subQ) : subQ[i] = ev
      BY DEF queued
    <2>2. queued(f, x)' <=> \E i \in 1..Len(subQ') : subQ'[i] = ev
      BY DEF queued
    <2>3. Head(subQ) = ev => f = Head(subQ).event /\ x = Head(subQ).client
      OBVIOUS
    <2> HIDE DEF ev
    <2>4. queued(f, x)' => queued(f, x)
      BY <1>1, <2>1, <2>2
    <2>5. ASSUME NEW i \in 1..Len(subQ), subQ[i] = ev, ~queued(f, x)' PROVE Head(subQ) = ev
      <3>1. i # 1 => i - 1 \in 1..Len(subQ') /\ subQ'[i - 1] = subQ[i]
        BY <1>1
      <3> QED BY <1>1, <2>2, <2>5, <3>1
    <2> QED BY <2>1, <2>3, <2>4, <2>5
  <1>6. ASSUME NEW x \in Clients, once(x) PROVE once(x)'
    <2> DEFINE ev == [event |-> "CSClient", client |-> x]
    <2>1. \A i, j \in 1..Len(subQ) : subQ[i] = ev /\ subQ[j] = ev => i = j
      BY <1>6 DEF once
    <2> HIDE DEF ev
    <2>2. ASSUME NEW i \in 1..Len(subQ'), NEW j \in 1..Len(subQ'), subQ'[i] = ev, subQ'[j] = ev
          PROVE  i = j
      <3>1. i + 1 \in 1..Len(subQ) /\ j + 1 \in 1..Len(subQ) /\ i \in Int /\ j \in Int
        BY <1>1
      <3>2. i + 1 = j + 1
        BY <1>1, <2>1, <2>2, <3>1
      <3> QED BY <3>1, <3>2
    <2> QED BY <2>2 DEF ev, once
  <1>7. ASSUME NEW x \in Clients, once(x), Head(subQ) = [event |-> "CSClient", client |-> x]
        PROVE  ~queued("CSClient", x)'
    <2> DEFINE ev == [event |-> "CSClient", client |-> x]
    <2>1. \A i, j \in 1..Len(subQ) : subQ[i] = ev /\ subQ[j] = ev => i = j
      BY <1>7 DEF once
    <2>2. Head(subQ) = ev
      BY <1>7
    <2> HIDE DEF ev
    <2>3. ASSUME NEW i \in 1..Len(subQ'), subQ'[i] = ev PROVE FALSE
      <3>1. i + 1 \in 1..Len(subQ) /\ 1 \in 1..Len(subQ) /\ i + 1 # 1
        BY <1>1
      <3> QED BY <1>1, <2>1, <2>2, <2>3, <3>1
    <2> QED BY <2>3 DEF ev, queued
  <1> QED BY <1>3, <1>4, <1>5, <1>6, <1>7

(* A step that leaves subscriptions to serverThread, the client threads    *)
(* and disconnects: it changes no subscription and no event, and a command *)
(* that it starts or continues does not touch them next.                   *)
Quiet ==
    /\ UNCHANGED <<connected, subscriptions, disc, subQ, subscriber, subClients, ending>>
    /\ queueRec' = "deleted" <=> queueRec = "deleted"
    /\ \A c \in Clients, s \in SubId :
          subs[c][s].thread = "ProhibitSub" => subs'[c][s].thread = "ProhibitSub"
    /\ \A c \in Clients :
          \/ cmd'[c].at = cmd[c].at
          \/ cmd'[c].at \in {"none", "respond"}
          \/ /\ cmd'[c].at \in {"subscribe", "getMessage", "delMsg", "setDelivered"}
             /\ queueRec # "deleted" \/ cmd[c].at \notin {"none", "respond"}
          \/ cmd'[c].at = "deleteSub" /\ cmd[c].at = "deleteMsgs"

(* Such a step keeps the connections registered.                           *)
LEMMA QuietKeeps ==
    ASSUME Typed, Registered, Quiet
    PROVE  Registered'
  <1>1. /\ \A e, c : queued(e, c)' <=> queued(e, c)
        /\ \A c : (once(c)' <=> once(c)) /\ (hasSub(c)' <=> hasSub(c))
    BY DEF Quiet, queued, once, hasSub
  <1>2. Deleting'
    BY <1>1 DEF Registered, Deleting, Quiet
  <1>3. Closing'
    BY <1>1 DEF Registered, Closing, Quiet
  <1>4. Claims'
    BY <1>1 DEF Registered, Claims, Quiet
  <1>5. NoZombieSubscription'
    <2>1. ASSUME NEW c \in Clients, isSubscribed(c)' PROVE isSubscribed(c)
      <3>1. hasSub(c) /\ subscriptions[c] \in SubId
        BY <1>1, <2>1, HelperTypes DEF isSubscribed
      <3> QED BY <2>1, <3>1 DEF isSubscribed, currentSub, Quiet
    <2> QED BY <2>1 DEF Registered, NoZombieSubscription, Quiet
  <1> QED BY <1>2, <1>3, <1>4, <1>5 DEF Registered

(* Where a command goes next; the other connections go on with theirs.     *)
LEMMA GotoAt ==
    ASSUME Typed, NEW c \in Clients
    PROVE  /\ \A op, at, id, msg, s : goto(c, op, at, id, msg, s) =>
                 cmd'[c].at = at /\ \A x \in Clients : x # c => cmd'[x] = cmd[x]
           /\ \A op, msg, s : finish(c, op, msg, s) =>
                 /\ cmd'[c].at \in {"respond", "setDelivered"}
                 /\ \A x \in Clients : x # c => cmd'[x] = cmd[x]
  BY DEF goto, finish, respond, Typed, TypeOK

(* A Sub that GET has not made may be replaced.                            *)
LEMMA ReplaceProhibits ==
    ASSUME Typed, NEW c \in Clients, NEW s \in SubId, NEW new,
           subs[c][s].thread # "ProhibitSub", subs' = [subs EXCEPT ![c][s] = new]
    PROVE  \A x \in Clients, r \in SubId :
              subs[x][r].thread = "ProhibitSub" => subs'[x][r].thread = "ProhibitSub"
  <1>1. \A x \in Clients, r \in SubId : (x # c \/ r # s) => subs'[x][r] = subs[x][r]
    BY DEF Typed, TypeOK
  <1> QED BY <1>1

(* Of the steps of the recipients' connections these are quiet.            *)
LEMMA QuietCommands ==
    ASSUME Typed, Registered, NEW c \in Clients,
           \/ PeekSub(c) \/ GetProhibited(c) \/ SuspendQueue(c) \/ Ack(c)
           \/ SubscribeAgain(c) \/ SubscribeProhibited(c) \/ GetMessage(c) \/ DelPeekMsg(c)
           \/ DeleteMsgs(c) \/ SetDelivered(c) \/ Respond(c) \/ Transmit(c)
           \/ SendPendingEvts(c)
    PROVE  Quiet
  <1>1. CASE PeekSub(c)
    <2>1. /\ cmd'[c].at = "subscribe"
          /\ \A x \in Clients : x # c => cmd'[x] = cmd[x]
      BY <1>1, GotoAt DEF PeekSub, respond
    <2>2. queueRec # "deleted"
      BY <1>1 DEF PeekSub, Verified
    <2> QED BY <1>1, <2>1, <2>2 DEF Quiet, PeekSub, connVars, srvVars, sndVars, env, history
  <1>2. CASE GetProhibited(c)
    <2>1. /\ cmd'[c].at = "respond"
          /\ \A x \in Clients : x # c => cmd'[x] = cmd[x]
      BY <1>2, GotoAt DEF GetProhibited, respond
    <2> QED BY <1>2, <2>1 DEF Quiet, GetProhibited, connVars, srvVars, sndVars, env, history
  <1>3. CASE SuspendQueue(c)
    <2>1. /\ cmd'[c].at = "respond"
          /\ \A x \in Clients : x # c => cmd'[x] = cmd[x]
      BY <1>3, GotoAt DEF SuspendQueue, respond
    <2>2. queueRec # "deleted"
      BY <1>3 DEF SuspendQueue, Verified
    <2> QED BY <1>3, <2>1, <2>2 DEF Quiet, SuspendQueue, connVars, srvVars, sndVars, env, history
  <1>4. CASE Ack(c)
    <2>1. PICK id \in MsgId \cup {NoMsg} : GetDelivered(c, id) \/ AckNoMsg(c, id)
      BY <1>4 DEF Ack
    <2>2. queueRec # "deleted"
      BY <2>1 DEF GetDelivered, AckNoMsg, AckId, Verified
    <2>3. CASE GetDelivered(c, id)
      <3>1. cmd'[c].at = "delMsg" /\ \A x \in Clients : x # c => cmd'[x] = cmd[x]
        BY <2>3, GotoAt DEF GetDelivered
      <3>2. subscriptions[c] \in SubId
        BY <2>3, HelperTypes DEF GetDelivered, acknowledges
      <3>3. \A x \in Clients, r \in SubId :
              subs[x][r].thread = "ProhibitSub" => subs'[x][r].thread = "ProhibitSub"
        BY <2>3, <3>2, SubsTypes, HelperTypes DEF GetDelivered
      <3> QED BY <2>2, <2>3, <3>1, <3>3 DEF Quiet, GetDelivered, connVars, srvVars, sndVars, env, history
    <2>4. CASE AckNoMsg(c, id)
      <3>1. cmd'[c].at = "respond" /\ \A x \in Clients : x # c => cmd'[x] = cmd[x]
        BY <2>4, GotoAt DEF AckNoMsg, respond
      <3> QED BY <2>2, <2>4, <3>1 DEF Quiet, AckNoMsg, connVars, srvVars, sndVars, env, history
    <2> QED BY <2>1, <2>3, <2>4
  <1>5. CASE SubscribeAgain(c)
    <2>1. /\ cmd'[c].at \in {"respond", "setDelivered"}
          /\ \A x \in Clients : x # c => cmd'[x] = cmd[x]
      BY <1>5, GotoAt DEF SubscribeAgain, respond
    <2>2. subscriptions[c] \in SubId
      BY <1>5, HelperTypes DEF SubscribeAgain, isSubscribed
    <2>3. \A x \in Clients, r \in SubId :
              subs[x][r].thread = "ProhibitSub" => subs'[x][r].thread = "ProhibitSub"
      BY <1>5, <2>2, SubsTypes, HelperTypes DEF SubscribeAgain
    <2>4. cmd[c].at = "subscribe"
      BY <1>5 DEF SubscribeAgain, At
    <2> QED BY <1>5, <2>1, <2>2, <2>3, <2>4 DEF Quiet, SubscribeAgain, connVars, srvVars, sndVars, env, history
  <1>6. CASE SubscribeProhibited(c)
    <2>1. /\ cmd'[c].at = "respond"
          /\ \A x \in Clients : x # c => cmd'[x] = cmd[x]
      BY <1>6, GotoAt DEF SubscribeProhibited, respond
    <2> QED BY <1>6, <2>1 DEF Quiet, SubscribeProhibited, connVars, srvVars, sndVars, env, history
  <1>7. CASE GetMessage(c)
    <2>1. /\ cmd'[c].at \in {"respond", "setDelivered"}
          /\ \A x \in Clients : x # c => cmd'[x] = cmd[x]
      BY <1>7, GotoAt DEF GetMessage, respond
    <2>2. cmd[c].at = "getMessage"
      BY <1>7 DEF GetMessage, At
    <2> QED BY <1>7, <2>1, <2>2 DEF Quiet, GetMessage, connVars, srvVars, sndVars, env, history
  <1>8. CASE DelPeekMsg(c)
    <2>1. /\ cmd'[c].at \in {"respond", "setDelivered"}
          /\ \A x \in Clients : x # c => cmd'[x] = cmd[x]
      BY <1>8, GotoAt DEF DelPeekMsg, respond
    <2>2. cmd[c].at = "delMsg"
      BY <1>8 DEF DelPeekMsg, At
    <2> QED BY <1>8, <2>1, <2>2 DEF Quiet, DelPeekMsg, connVars, srvVars, sndVars, env, history
  <1>9. CASE DeleteMsgs(c)
    <2>1. /\ cmd'[c].at = "deleteSub"
          /\ \A x \in Clients : x # c => cmd'[x] = cmd[x]
      BY <1>9, GotoAt DEF DeleteMsgs, respond
    <2>2. cmd[c].at = "deleteMsgs"
      BY <1>9 DEF DeleteMsgs, At
    <2> QED BY <1>9, <2>1, <2>2 DEF Quiet, DeleteMsgs, connVars, srvVars, sndVars, env, history
  <1>10. CASE SetDelivered(c)
    <2>1. /\ cmd'[c].at = "respond"
          /\ \A x \in Clients : x # c => cmd'[x] = cmd[x]
      BY <1>10, GotoAt DEF SetDelivered, respond
    <2>2. cmd[c].sub \in SubId /\ cmd[c].msg \in Msg
      BY <1>10, HelperTypes DEF SetDelivered, At, Typed, Held, Cmd
    <2>3. \A x \in Clients, r \in SubId :
              subs[x][r].thread = "ProhibitSub" => subs'[x][r].thread = "ProhibitSub"
      BY <1>10, <2>2, SubsTypes DEF SetDelivered
    <2> QED BY <1>10, <2>1, <2>2, <2>3 DEF Quiet, SetDelivered, connVars, srvVars, sndVars, env, history
  <1>11. CASE Respond(c)
    <2>1. cmd'[c].at = "none" /\ \A x \in Clients : x # c => cmd'[x] = cmd[x]
      BY <1>11 DEF Respond, NoCmd, Typed, TypeOK
    <2> QED BY <1>11, <2>1 DEF Quiet, Respond, connVars, srvVars, sndVars, env, history
  <1>12. CASE Transmit(c) \/ SendPendingEvts(c)
    BY <1>12 DEF Quiet, Transmit, SendPendingEvts, connVars, srvVars, sndVars, env, history
  <1> QED BY <1>1, <1>2, <1>3, <1>4, <1>5, <1>6, <1>7, <1>8, <1>9, <1>10, <1>11, <1>12

(* The steps of SEND, of delivery threads and of expiry are quiet.          *)
LEMMA QuietOthers ==
    ASSUME Typed,
           \/ \E p \in Senders : VerifySend(p) \/ SendStep(p)
           \/ \E m \in MsgId : ThreadStep(m)
           \/ Expire \/ UNCHANGED vars
    PROVE  Quiet
  <1>1. ASSUME NEW p \in Senders, DeliverToSub(p) PROVE Quiet
    <2>1. /\ subscriber \in Clients /\ subscriptions[subscriber] \in SubId /\ send[p].id \in Msg
          /\ subs[subscriber][subscriptions[subscriber]].thread = "NoSub"
      BY <1>1, HelperTypes DEF DeliverToSub, deliverable, currentSub, Typed, TypeOK, Held
    <2> DEFINE rc == subscriber
               s == subscriptions[rc]
    <2>2. CASE subs' = [subs EXCEPT ![rc][s].thread = "SubPending"]
      <3>1. subs' = [subs EXCEPT ![rc][s] = [subs[rc][s] EXCEPT !.thread = "SubPending"]]
        BY <2>2
      <3>2. \A x \in Clients, r \in SubId :
              subs[x][r].thread = "ProhibitSub" => subs'[x][r].thread = "ProhibitSub"
        BY <2>1, <3>1, ReplaceProhibits
      <3> QED BY <1>1, <3>2 DEF Quiet, DeliverToSub, connVars, srvVars, sndVars, env, history
    <2>3. CASE subs' = [subs EXCEPT ![rc][s].delivered = send[p].id]
      <3>1. \A x \in Clients, r \in SubId :
              subs[x][r].thread = "ProhibitSub" => subs'[x][r].thread = "ProhibitSub"
        BY <2>1, <2>3, SubsTypes
      <3> QED BY <1>1, <3>1 DEF Quiet, DeliverToSub, connVars, srvVars, sndVars, env, history
    <2> QED BY <1>1, <2>2, <2>3 DEF DeliverToSub
  <1>2. ASSUME NEW p \in Senders, SetSubThread(p) PROVE Quiet
    <2>1. send[p].rc \in Clients /\ send[p].sub \in SubId
          /\ subs[send[p].rc][send[p].sub].thread # "ProhibitSub"
      BY <1>2 DEF SetSubThread, Typed, Held
    <2>2. \A x \in Clients, r \in SubId :
              subs[x][r].thread = "ProhibitSub" => subs'[x][r].thread = "ProhibitSub"
      <3> DEFINE new == [subs[send[p].rc][send[p].sub] EXCEPT !.thread = "SubThread", !.tid = send[p].id]
      <3>1. subs' = subs \/ subs' = [subs EXCEPT ![send[p].rc][send[p].sub] = new]
        BY <1>2 DEF SetSubThread
      <3> QED BY SMTT(30), <2>1, <3>1, ReplaceProhibits
    <2> QED BY <1>2, <2>2 DEF Quiet, SetSubThread, connVars, srvVars, sndVars, env, history
  <1>3. ASSUME NEW p \in Senders,
               \/ VerifySend(p) \/ SendMessage(p) \/ SendQuota(p) \/ GetSubscribed(p)
               \/ NotDelivered(p) \/ ForkDeliver(p)
        PROVE  Quiet
    BY <1>3 DEF Quiet, VerifySend, SendMessage, SendQuota, GetSubscribed, NotDelivered, ForkDeliver, connVars, srvVars, sndVars, env, history
  <1>4. ASSUME NEW m \in MsgId, DeliverIfSame(m) PROVE Quiet
    <2>1. deliver[m].rc \in Clients /\ deliver[m].sub \in SubId
          /\ subs[deliver[m].rc][deliver[m].sub].thread # "ProhibitSub"
      BY <1>4 DEF DeliverIfSame, Typed, Held
    <2>2. \A x \in Clients, r \in SubId :
              subs[x][r].thread = "ProhibitSub" => subs'[x][r].thread = "ProhibitSub"
      <3> DEFINE new == [subs[deliver[m].rc][deliver[m].sub] EXCEPT !.delivered = m, !.thread = "NoSub"]
      <3>1. subs' = [subs EXCEPT ![deliver[m].rc][deliver[m].sub] = new]
        BY <1>4 DEF DeliverIfSame
      <3> QED BY <2>1, <3>1, ReplaceProhibits
    <2> QED BY <1>4, <2>2 DEF Quiet, DeliverIfSame, connVars, srvVars, sndVars, env, history
  <1>5. ASSUME NEW m \in MsgId, ThreadGetSubscribed(m) \/ ThreadExit(m) PROVE Quiet
    BY <1>5 DEF Quiet, ThreadGetSubscribed, ThreadExit, connVars, srvVars, sndVars, env, history
  <1>6. ASSUME Expire \/ UNCHANGED vars PROVE Quiet
    BY <1>6 DEF Quiet, Expire, vars, connVars, srvVars, sndVars, env, history
  <1> QED BY <1>1, <1>2, <1>3, <1>4, <1>5, <1>6 DEF SendStep, ThreadStep

(* A connection that makes a Sub, or takes it out, changes only its own.   *)
LEMMA OwnSub ==
    ASSUME Typed, NEW c \in Clients, NEW s \in SubId \cup {NoSubId},
           subscriptions' = [subscriptions EXCEPT ![c] = s]
    PROVE  /\ hasSub(c)' <=> s # NoSubId
           /\ \A x \in Clients : x # c => (hasSub(x)' <=> hasSub(x)) /\ subscriptions'[x] = subscriptions[x]
  BY DEF hasSub, Typed, TypeOK

(* Events that stay in their queue.                                        *)
LEMMA SameEvents ==
    ASSUME UNCHANGED subQ
    PROVE  \A c : (once(c)' <=> once(c)) /\ \A e : queued(e, c)' <=> queued(e, c)
  BY DEF once, queued

(* SUB makes a Sub, of which serverThread is told.                         *)
LEMMA SubscribeRegisters ==
    ASSUME Typed, Registered, NEW c \in Clients, SubscribeNew(c)
    PROVE  Registered'
  <1>1. PICK s \in SubId :
           /\ freshSub(c, s)
           /\ subs' = [subs EXCEPT ![c][s] = newSub("NoSub")]
           /\ subscriptions' = [subscriptions EXCEPT ![c] = s]
           /\ finish(c, "SUB", cmd[c].msg, s)
    BY DEF SubscribeNew
  <1>2. s # NoSubId /\ ~hasSub(c) /\ connected[c] /\ cmd[c].at = "subscribe"
    BY <1>1, HelperTypes DEF SubscribeNew, At
  <1>3. /\ hasSub(c)'
        /\ \A x \in Clients : x # c => (hasSub(x)' <=> hasSub(x)) /\ subscriptions'[x] = subscriptions[x]
    BY <1>1, <1>2, OwnSub
  <1>4. /\ \A f \in {"CSClient", "CSDeleted"}, x \in Clients :
              queued(f, x)' <=> queued(f, x) \/ (f = "CSClient" /\ x = c)
        /\ \A x \in Clients : once(x) /\ (x = c => ~queued("CSClient", c)) => once(x)'
    BY QueuedAppend DEF SubscribeNew
  <1>5. /\ cmd'[c].at \in {"respond", "setDelivered"}
        /\ \A x \in Clients : x # c => cmd'[x] = cmd[x]
    BY <1>1, GotoAt
  <1>6. UNCHANGED <<queueRec, connected, disc, subscriber, subClients, ending>>
    BY DEF SubscribeNew, env
  <1>7. ~queued("CSDeleted", c)
    BY <1>2 DEF Registered, Deleting
  <1>8. Deleting'
    BY <1>3, <1>4, <1>5, <1>6, <1>7 DEF Registered, Deleting
  <1>9. Closing'
    BY <1>2, <1>3, <1>6 DEF Registered, Closing
  <1>10. Claims'
    BY <1>2, <1>3, <1>4, <1>6 DEF Registered, Claims
  <1>11. NoZombieSubscription'
    <2>1. ASSUME NEW x \in Clients, x # c, isSubscribed(x)' PROVE isSubscribed(x)
      BY <1>1, <1>3, <2>1, HelperTypes DEF isSubscribed, currentSub, Typed, TypeOK
    <2>2. \A x \in Clients : queued("CSClient", x)' <=>
             \E i \in 1..Len(subQ') : subQ'[i] = [event |-> "CSClient", client |-> x]
      BY DEF queued
    <2> QED BY <1>4, <1>6, <2>1, <2>2 DEF Registered, NoZombieSubscription, queued
  <1> QED BY <1>8, <1>9, <1>10, <1>11 DEF Registered

(* GET makes a Sub that nobody is told of, and that is no subscription.    *)
LEMMA GetRegisters ==
    ASSUME Typed, Registered, NEW c \in Clients, GetSub(c)
    PROVE  Registered'
  <1>1. /\ queueRec # "deleted" /\ connected[c]
        /\ UNCHANGED <<queueRec, connected, disc, subQ, subscriber, subClients, ending>>
    BY DEF GetSub, Verified, srvVars
  <1>2. CASE \E s \in SubId :
                 /\ freshSub(c, s)
                 /\ subs' = [subs EXCEPT ![c][s] = newSub("ProhibitSub")]
                 /\ subscriptions' = [subscriptions EXCEPT ![c] = s]
                 /\ goto(c, "GET", "getMessage", NoMsg, NoMsg, s)
    <2>1. PICK s \in SubId :
                 /\ freshSub(c, s)
                 /\ subs' = [subs EXCEPT ![c][s] = newSub("ProhibitSub")]
                 /\ subscriptions' = [subscriptions EXCEPT ![c] = s]
                 /\ goto(c, "GET", "getMessage", NoMsg, NoMsg, s)
      BY <1>2
    <2>2. /\ hasSub(c)' /\ subscriptions'[c] = s
          /\ \A x \in Clients : x # c => (hasSub(x)' <=> hasSub(x)) /\ subscriptions'[x] = subscriptions[x]
      BY <2>1, OwnSub, HelperTypes DEF Typed, TypeOK
    <2>3. cmd'[c].at = "getMessage" /\ \A x \in Clients : x # c => cmd'[x] = cmd[x]
      BY <2>1, GotoAt
    <2>4. ~queued("CSDeleted", c) /\ \A x : (once(x)' <=> once(x)) /\ \A e : queued(e, x)' <=> queued(e, x)
      BY <1>1, SameEvents DEF Registered, Deleting
    <2>5. Deleting'
      BY <1>1, <2>2, <2>3, <2>4 DEF Registered, Deleting
    <2>6. Closing'
      BY <1>1, <2>2 DEF Registered, Closing
    <2>7. Claims'
      BY <1>1, <2>2, <2>4 DEF Registered, Claims
    <2>8. NoZombieSubscription'
      <3>1. ~isSubscribed(c)'
        BY <2>1, <2>2 DEF isSubscribed, currentSub, newSub, Typed, TypeOK
      <3>2. ASSUME NEW x \in Clients, x # c, isSubscribed(x)' PROVE isSubscribed(x)
        BY <2>1, <2>2, <3>2, HelperTypes DEF isSubscribed, currentSub, Typed, TypeOK
      <3> QED BY <1>1, <3>1, <3>2 DEF Registered, NoZombieSubscription
    <2> QED BY <2>5, <2>6, <2>7, <2>8 DEF Registered
  <1>3. CASE /\ isProhibited(c)
             /\ subs' = [subs EXCEPT ![c][subscriptions[c]].delivered = NoMsg]
             /\ goto(c, "GET", "getMessage", NoMsg, NoMsg, subscriptions[c])
             /\ UNCHANGED subscriptions
    <2>1. \A x \in Clients, r \in SubId :
             subs[x][r].thread = "ProhibitSub" => subs'[x][r].thread = "ProhibitSub"
      BY <1>3, SubsTypes, HelperTypes DEF isProhibited
    <2>2. cmd'[c].at = "getMessage" /\ \A x \in Clients : x # c => cmd'[x] = cmd[x]
      BY <1>3, GotoAt
    <2>3. Quiet
      BY <1>1, <1>3, <2>1, <2>2 DEF Quiet
    <2> QED BY <2>3, QuietKeeps
  <1> QED BY <1>2, <1>3 DEF GetSub

(* DEL: the record, the subscription, and the event for serverThread.      *)
LEMMA DeleteRegisters ==
    ASSUME Typed, Registered, NEW c \in Clients,
           DeleteStoreQueue(c) \/ DeleteSub(c) \/ WriteDeleted(c)
    PROVE  Registered'
  <1>1. CASE DeleteStoreQueue(c)
    <2>1. /\ queueRec # "deleted" /\ queueRec' = "deleted"
          /\ UNCHANGED <<connected, subs, subscriptions, disc, subQ, subscriber, subClients, ending>>
      BY <1>1 DEF DeleteStoreQueue, Verified, srvVars
    <2>2. cmd'[c].at = "deleteMsgs" /\ \A x \in Clients : x # c => cmd'[x] = cmd[x]
      BY <1>1, GotoAt DEF DeleteStoreQueue
    <2>3. \A x : (once(x)' <=> once(x)) /\ (hasSub(x)' <=> hasSub(x)) /\ (isSubscribed(x)' <=> isSubscribed(x))
                  /\ \A e : queued(e, x)' <=> queued(e, x)
      BY <2>1, SameEvents DEF hasSub, isSubscribed, currentSub
    <2>4. \A x \in Clients : ~queued("CSDeleted", x)
      BY <2>1 DEF Registered, Deleting
    <2>5. Deleting' /\ Claims'
      BY <2>1, <2>2, <2>3, <2>4 DEF Registered, Deleting, Claims
    <2>6. Closing' /\ NoZombieSubscription'
      BY <2>1, <2>3 DEF Registered, Closing, NoZombieSubscription
    <2> QED BY <2>5, <2>6 DEF Registered
  <1>2. CASE DeleteSub(c)
    <2>1. /\ queueRec = "deleted" /\ cmd[c].at = "deleteSub"
          /\ UNCHANGED <<queueRec, connected, subs, disc, subQ, subscriber, subClients, ending>>
      BY <1>2 DEF DeleteSub, At, srvVars, Registered, Deleting
    <2>2. cmd'[c].at = "writeDeleted" /\ \A x \in Clients : x # c => cmd'[x] = cmd[x]
      BY <1>2, GotoAt DEF DeleteSub
    <2>3. /\ ~hasSub(c)'
          /\ \A x \in Clients : x # c => (hasSub(x)' <=> hasSub(x)) /\ subscriptions'[x] = subscriptions[x]
      BY <1>2, OwnSub DEF DeleteSub
    <2>4. ~queued("CSDeleted", c) /\ \A x : \A e : queued(e, x)' <=> queued(e, x)
      BY <2>1, SameEvents DEF Registered, Deleting
    <2>5. Deleting' /\ Claims'
      BY <2>1, <2>2, <2>3, <2>4 DEF Registered, Deleting, Claims
    <2>6. Closing'
      BY <2>1, <2>3 DEF Registered, Closing
    <2>7. NoZombieSubscription'
      BY <2>1, <2>3 DEF Registered, NoZombieSubscription, isSubscribed, currentSub
    <2> QED BY <2>5, <2>6, <2>7 DEF Registered
  <1>3. CASE WriteDeleted(c)
    <2>1. /\ queueRec = "deleted" /\ ~hasSub(c)
          /\ UNCHANGED <<queueRec, connected, subs, subscriptions, disc, subscriber, subClients, ending>>
      BY <1>3 DEF WriteDeleted, At, Registered, Deleting, env
    <2>2. cmd'[c].at = "respond" /\ \A x \in Clients : x # c => cmd'[x] = cmd[x]
      BY <1>3, GotoAt DEF WriteDeleted, respond
    <2>3. \A x : (hasSub(x)' <=> hasSub(x)) /\ (isSubscribed(x)' <=> isSubscribed(x))
      BY <2>1 DEF hasSub, isSubscribed, currentSub
    <2>4. \A f \in {"CSClient", "CSDeleted"}, x \in Clients :
             queued(f, x)' <=> queued(f, x) \/ (f = "CSDeleted" /\ x = c)
      BY <1>3, QueuedAppend DEF WriteDeleted
    <2>5. Deleting' /\ Claims'
      BY <2>1, <2>2, <2>3, <2>4 DEF Registered, Deleting, Claims
    <2>6. Closing'
      BY <2>1, <2>3 DEF Registered, Closing
    <2>7. NoZombieSubscription'
      BY <2>1, <2>3, <2>4 DEF Registered, NoZombieSubscription, queued
    <2> QED BY <2>5, <2>6, <2>7 DEF Registered
  <1> QED BY <1>1, <1>2, <1>3

(* serverThread moves the subscription to the connection of the event, and *)
(* ends the one before.                                                    *)
LEMMA UpdateRegisters ==
    ASSUME Typed, Registered, UpdateSubscribed \/ UpdateDisconnected \/ UpdateDeleted
    PROVE  Registered'
  <1>1. /\ ending = None /\ subQ # <<>> /\ subQ' = Tail(subQ)
        /\ UNCHANGED <<queueRec, connected, subs, subscriptions, cmd, disc>>
    BY DEF UpdateSubscribed, UpdateDisconnected, UpdateDeleted, NextEvent, connVars
  <1>2. PICK c \in Clients : c = Head(subQ).client
    BY <1>1, EventTypes
  <1>3. Head(subQ).event \in {"CSClient", "CSDeleted"} /\ queued(Head(subQ).event, c)
    BY <1>1, <1>2, QueuedTail
  <1>4. Head(subQ).event = "CSClient" => Head(subQ) = [event |-> "CSClient", client |-> c]
    BY <1>1, <1>2, EventTypes DEF Event
  <1>5. /\ \A f \in {"CSClient", "CSDeleted"}, x \in Clients :
              /\ queued(f, x)' => queued(f, x)
              /\ queued(f, x) => queued(f, x)' \/ (f = Head(subQ).event /\ x = c)
        /\ \A x \in Clients : once(x) => once(x)'
        /\ Head(subQ).event = "CSClient" /\ once(c) => ~queued("CSClient", c)'
    BY <1>1, <1>2, <1>4, QueuedTail
  <1>6. \A x : (hasSub(x)' <=> hasSub(x)) /\ (isSubscribed(x)' <=> isSubscribed(x))
    BY <1>1 DEF hasSub, isSubscribed, currentSub
  <1>7. None \notin Clients /\ subscriber \in Clients \cup {None}
    BY HelperTypes DEF Typed, TypeOK
  (* Who is ended: the previous subscriber, if it is open and another one. *)
  <1>8. /\ subscriber \in Clients \ {c} /\ connected[subscriber] => ending' = subscriber
        /\ ending' \in {None, subscriber} \ {c}
    BY <1>1, <1>2, <1>7 DEF UpdateSubscribed, UpdateDisconnected, UpdateDeleted, endPrevious
  <1>9. Deleting'
    BY <1>1, <1>5, <1>6 DEF Registered, Deleting
  <1>10. CASE UpdateSubscribed
    <2>1. /\ Head(subQ).event = "CSClient" /\ connected[c]
          /\ subscriber' = c /\ subClients' = subClients \cup {c}
      BY <1>2, <1>10 DEF UpdateSubscribed, NextEvent
    <2>2. Closing'
      BY <1>1, <1>6, <2>1 DEF Registered, Closing
    <2>3. Claims'
      <3> SUFFICES ASSUME queueRec # "deleted", NEW x \in Clients
                   PROVE  /\ once(x)'
                          /\ ~(subscriber' = x /\ ending' = x)
                          /\ ~(subscriber' = x /\ queued("CSClient", x)')
                          /\ ~(ending' = x /\ queued("CSClient", x)')
                          /\ /\ subscriber' = x \/ ending' = x \/ queued("CSClient", x)'
                             /\ connected[x] \/ disc[x] = "swapSubs"
                             => hasSub(x)'
        BY <1>1 DEF Claims
      <3>1. /\ once(x) /\ ~(subscriber = x /\ queued("CSClient", x))
            /\ /\ subscriber = x \/ queued("CSClient", x)
               /\ connected[x] \/ disc[x] = "swapSubs"
               => hasSub(x)
        BY DEF Registered, Claims
      <3> QED BY <1>3, <1>5, <1>6, <1>7, <1>8, <2>1, <3>1
    <2>4. NoZombieSubscription'
      BY <1>1, <1>5, <1>6, <1>7, <1>8, <2>1 DEF Registered, NoZombieSubscription, queued
    <2> QED BY <1>9, <2>2, <2>3, <2>4 DEF Registered
  <1>11. CASE UpdateDisconnected \/ UpdateDeleted
    <2>1. /\ subscriber' = None /\ subClients' \subseteq subClients
      BY <1>11 DEF UpdateDisconnected, UpdateDeleted, loseSubscriber
    <2>2. Closing'
      BY <1>1, <1>6, <1>7, <2>1 DEF Registered, Closing
    <2>3. CASE UpdateDisconnected
      <3>1. Head(subQ).event = "CSClient" /\ ~connected[c]
        BY <1>2, <2>3 DEF UpdateDisconnected, NextEvent
      <3>2. Claims'
        <4> SUFFICES ASSUME queueRec # "deleted", NEW x \in Clients
                     PROVE  /\ once(x)'
                            /\ ~(ending' = x /\ queued("CSClient", x)')
                            /\ /\ ending' = x \/ queued("CSClient", x)'
                               /\ connected[x] \/ disc[x] = "swapSubs"
                               => hasSub(x)'
          BY <1>1, <1>7, <2>1 DEF Claims
        <4>1. /\ once(x) /\ ~(subscriber = x /\ queued("CSClient", x))
              /\ /\ subscriber = x \/ queued("CSClient", x)
                 /\ connected[x] \/ disc[x] = "swapSubs"
                 => hasSub(x)
          BY DEF Registered, Claims
        <4> QED BY <1>5, <1>6, <1>7, <1>8, <4>1
      <3>3. NoZombieSubscription'
        BY <1>1, <1>5, <1>6, <1>7, <1>8, <2>1, <3>1 DEF Registered, NoZombieSubscription, queued
      <3> QED BY <1>9, <2>2, <3>2, <3>3 DEF Registered
    <2>4. CASE UpdateDeleted
      <3>1. Head(subQ).event = "CSDeleted"
        BY <2>4 DEF UpdateDeleted, NextEvent
      <3>2. queueRec = "deleted" /\ ~hasSub(c)
        BY <1>3, <3>1 DEF Registered, Deleting
      <3>3. Claims'
        BY <1>1, <3>2 DEF Claims
      <3>4. NoZombieSubscription'
        <4>1. ~isSubscribed(c)
          BY <3>2 DEF isSubscribed
        <4> QED BY <1>1, <1>5, <1>6, <1>7, <1>8, <2>1, <3>1, <4>1 DEF Registered, NoZombieSubscription, queued
      <3> QED BY <1>9, <2>2, <3>3, <3>4 DEF Registered
    <2> QED BY <1>11, <2>3, <2>4
  <1> QED BY <1>10, <1>11

(* serverThread takes out the Sub of the previous subscriber.              *)
LEMMA EndRegisters ==
    ASSUME Typed, Registered, EndSub
    PROVE  Registered'
  <1>1. /\ ending \in Clients /\ ending' = None /\ subClients' \subseteq subClients
        /\ UNCHANGED <<queueRec, connected, subs, cmd, disc, subQ, subscriber>>
    BY DEF EndSub, Typed, TypeOK
  <1> PICK e \in Clients : e = ending
    BY <1>1
  <1>2. /\ ~hasSub(e)'
        /\ \A x \in Clients : x # e => (hasSub(x)' <=> hasSub(x)) /\ subscriptions'[x] = subscriptions[x]
    <2>1. subscriptions' = [subscriptions EXCEPT ![e] = NoSubId]
      BY DEF EndSub
    <2> QED BY <2>1, OwnSub
  <1>3. \A x : (once(x)' <=> once(x)) /\ \A f : queued(f, x)' <=> queued(f, x)
    BY <1>1, SameEvents
  <1>4. None \notin Clients
    BY HelperTypes
  <1>5. Deleting' /\ Closing'
    BY <1>1, <1>2, <1>3 DEF Registered, Deleting, Closing
  <1>6. Claims'
    BY <1>1, <1>2, <1>3, <1>4 DEF Registered, Claims
  <1>7. NoZombieSubscription'
    <2>1. ASSUME NEW x \in Clients, isSubscribed(x)' PROVE x # e /\ isSubscribed(x)
      BY <1>1, <1>2, <2>1 DEF isSubscribed, currentSub
    <2> QED BY <1>1, <2>1 DEF Registered, NoZombieSubscription
  <1> QED BY <1>5, <1>6, <1>7 DEF Registered

(* The connection closes, and clientDisconnected takes it out of the Subs, *)
(* of the subscriber and of the connections with subscriptions.            *)
LEMMA CloseRegisters ==
    ASSUME Typed, Registered, NEW c \in Clients, Disconnect(c) \/ SwapSubs(c) \/ DeleteClient(c)
    PROVE  Registered'
  <1>1. /\ UNCHANGED <<queueRec, subs, subQ, ending>>
        /\ \A x : (once(x)' <=> once(x)) /\ \A e : queued(e, x)' <=> queued(e, x)
    BY SameEvents DEF Disconnect, SwapSubs, DeleteClient, srvVars
  <1>2. CASE Disconnect(c)
    <2>1. /\ UNCHANGED <<subscriptions, subscriber, subClients>>
          /\ connected[c] /\ ~connected'[c] /\ disc'[c] = "swapSubs" /\ cmd'[c].at = "none"
          /\ \A x \in Clients : x # c =>
                connected'[x] = connected[x] /\ disc'[x] = disc[x] /\ cmd'[x] = cmd[x]
      BY <1>2 DEF Disconnect, srvVars, NoCmd, Typed, TypeOK
    <2>2. \A x : (hasSub(x)' <=> hasSub(x)) /\ (isSubscribed(x)' <=> isSubscribed(x))
      BY <1>1, <2>1 DEF hasSub, isSubscribed, currentSub
    <2>3. Deleting' /\ Closing'
      BY <1>1, <2>1, <2>2 DEF Registered, Deleting, Closing
    <2>4. Claims'
      BY <1>1, <2>1, <2>2 DEF Registered, Claims
    <2>5. NoZombieSubscription'
      BY <1>1, <2>1, <2>2 DEF Registered, NoZombieSubscription
    <2> QED BY <2>3, <2>4, <2>5 DEF Registered
  <1>3. CASE SwapSubs(c)
    <2>1. /\ UNCHANGED <<connected, cmd, subscriber, subClients>>
          /\ disc[c] = "swapSubs"
          /\ disc'[c] = IF hasSub(c) THEN "deleteSubscribed" ELSE "deleteClient"
          /\ \A x \in Clients : x # c => disc'[x] = disc[x]
      BY <1>3 DEF SwapSubs, srvVars, Typed, TypeOK
    <2>2. /\ ~hasSub(c)'
          /\ \A x \in Clients : x # c => (hasSub(x)' <=> hasSub(x)) /\ subscriptions'[x] = subscriptions[x]
      BY <1>3, OwnSub DEF SwapSubs
    <2>3. Deleting'
      BY <1>1, <2>1, <2>2 DEF Registered, Deleting
    <2>4. Closing'
      <3>1. ~hasSub(c) /\ queueRec # "deleted" => subscriber # c
        BY <2>1 DEF Registered, Claims
      <3> QED BY <1>1, <2>1, <2>2, <3>1 DEF Registered, Closing
    <2>5. Claims'
      <3>1. ~connected[c]
        BY <2>1 DEF Registered, Closing
      <3> QED BY <1>1, <2>1, <2>2, <3>1 DEF Registered, Claims
    <2>6. NoZombieSubscription'
      <3>1. ASSUME NEW x \in Clients, isSubscribed(x)' PROVE isSubscribed(x)
        BY <1>1, <2>2, <3>1 DEF isSubscribed, currentSub
      <3> QED BY <1>1, <2>1, <3>1 DEF Registered, NoZombieSubscription
    <2> QED BY <2>3, <2>4, <2>5, <2>6 DEF Registered
  <1>4. CASE DeleteClient(c)
    <2>1. /\ UNCHANGED <<connected, cmd, subscriptions>>
          /\ disc[c] \in {"deleteSubscribed", "deleteClient"} /\ disc'[c] = "done"
          /\ \A x \in Clients : x # c => disc'[x] = disc[x]
          /\ subClients' = subClients \ {c}
          /\ subscriber' = IF disc[c] = "deleteSubscribed" /\ subscriber = c THEN None ELSE subscriber
      BY <1>4 DEF DeleteClient, loseSubscriber, Typed, TypeOK
    <2>2. \A x : (hasSub(x)' <=> hasSub(x)) /\ (isSubscribed(x)' <=> isSubscribed(x))
      BY <1>1, <2>1 DEF hasSub, isSubscribed, currentSub
    <2>3. ~connected[c] /\ None \notin Clients
      BY <2>1, HelperTypes DEF Registered, Closing
    <2>4. Deleting' /\ Closing'
      BY <1>1, <2>1, <2>2, <2>3 DEF Registered, Deleting, Closing
    <2>5. Claims'
      BY <1>1, <2>1, <2>2, <2>3 DEF Registered, Claims
    <2>6. NoZombieSubscription'
      BY <1>1, <2>1, <2>2, <2>3 DEF Registered, NoZombieSubscription
    <2> QED BY <2>4, <2>5, <2>6 DEF Registered
  <1> QED BY <1>2, <1>3, <1>4

(* Every step keeps subscriptions registered.                              *)
LEMMA RegisteredHolds == Spec => []Registered
  <1>1. Init => Registered
    <2> SUFFICES ASSUME Init PROVE Registered
      OBVIOUS
    <2>1. /\ \A c \in Clients : cmd[c].at = "none" /\ ~hasSub(c) /\ disc[c] = "none" /\ connected[c]
          /\ subClients = {} /\ subscriber = None /\ ending = None
      BY DEF Init, NoCmd, hasSub
    <2>2. Len(subQ) = 0
      BY DEF Init
    <2>3. \A c \in Clients : once(c) /\ \A e : ~queued(e, c)
      BY <2>2 DEF once, queued
    <2>4. Deleting /\ Closing
      BY <2>1, <2>3 DEF Deleting, Closing
    <2>5. Claims
      BY <2>1, <2>3, DeliveryAssumption DEF Claims
    <2>6. NoZombieSubscription
      BY <2>1 DEF NoZombieSubscription, isSubscribed
    <2> QED BY <2>4, <2>5, <2>6 DEF Registered
  <1>2. Typed /\ Registered /\ [Next]_vars => Registered'
    <2> SUFFICES ASSUME Typed, Registered, [Next]_vars PROVE Registered'
      OBVIOUS
    <2>1. ASSUME NEW c \in Clients, Command(c) \/ Ack(c) \/ ClientStep(c) \/ Transmit(c) \/ SendPendingEvts(c)
          PROVE  Registered'
      BY <2>1, QuietCommands, QuietKeeps, SubscribeRegisters, GetRegisters, DeleteRegisters
      DEF Command, ClientStep
    <2>2. ASSUME NEW c \in Clients, Disconnect(c) \/ SwapSubs(c) \/ DeleteClient(c) PROVE Registered'
      BY <2>2, CloseRegisters
    <2>3. ASSUME ServerStep PROVE Registered'
      BY <2>3, UpdateRegisters, EndRegisters DEF ServerStep
    <2>4. ASSUME \/ \E p \in Senders : VerifySend(p) \/ SendStep(p)
                 \/ \E m \in MsgId : ThreadStep(m)
                 \/ Expire \/ UNCHANGED vars
          PROVE  Registered'
      BY <2>4, QuietOthers, QuietKeeps
    <2> QED BY <2>1, <2>2, <2>3, <2>4 DEF Next
  <1> QED BY <1>1, <1>2, TypedHolds, PTL DEF Spec

(* However SUB, GET, DEL, disconnects and serverThread interleave, for any *)
(* number of connections: one that holds a subscription is the subscriber, *)
(* or serverThread has still to register it or to end its subscription.    *)
THEOREM SubscriptionsAreKnown == Spec => []NoZombieSubscription
  <1>1. Registered => NoZombieSubscription
    BY DEF Registered
  <1> QED BY <1>1, RegisteredHolds, PTL

(* A connection is forgotten when clientDisconnected is done, although its *)
(* SUB may still wait for serverThread: none is registered afterwards.     *)
THEOREM ClosedAreForgotten == Spec => []ClosedIsForgotten
  <1>1. Registered => ClosedIsForgotten
    BY DEF Registered, Closing, ClosedIsForgotten
  <1> QED BY <1>1, RegisteredHolds, PTL

(* The subscriber is never the one about to be ended, and is kept among    *)
(* the connections with subscriptions while it is open.                    *)
Kept == \A c \in Clients : subscriber = c => ending # c /\ (connected[c] => c \in subClients)

(* Every step keeps it: serverThread registers nobody before it has ended  *)
(* the connection that it set out to end.                                  *)
LEMMA KeptPreserved == Typed /\ Registered /\ Kept /\ [Next]_vars => Kept'
  <1> SUFFICES ASSUME Typed, Registered, Kept, [Next]_vars PROVE Kept'
    OBVIOUS
  <1>1. None \notin Clients
    BY HelperTypes
  <1>2. ASSUME Quiet PROVE Kept'
    BY <1>2 DEF Quiet, Kept
  <1>3. ASSUME NEW c \in Clients,
               \/ SubscribeNew(c) \/ GetSub(c)
               \/ DeleteStoreQueue(c) \/ DeleteSub(c) \/ WriteDeleted(c)
        PROVE  Kept'
    <2>1. UNCHANGED <<connected, subscriber, subClients, ending>>
      BY <1>3 DEF SubscribeNew, GetSub, DeleteStoreQueue, DeleteSub, WriteDeleted, srvVars, connVars, env
    <2> QED BY <2>1 DEF Kept
  <1>4. CASE UpdateSubscribed
    <2>1. /\ connected[subscriber'] /\ subClients' = subClients \cup {subscriber'}
          /\ ending' # subscriber' \/ ending' = None
          /\ UNCHANGED connected
      BY <1>4 DEF UpdateSubscribed, endPrevious, NextEvent, connVars
    <2> QED BY <1>1, <2>1 DEF Kept
  <1>5. CASE UpdateDisconnected \/ UpdateDeleted
    <2>1. subscriber' = None
      BY <1>5 DEF UpdateDisconnected, UpdateDeleted, loseSubscriber
    <2> QED BY <1>1, <2>1 DEF Kept
  <1>6. CASE EndSub
    <2>1. /\ subClients' = subClients \ {ending} /\ ending' = None
          /\ UNCHANGED <<subscriber, connected>>
      BY <1>6 DEF EndSub
    <2> QED BY <1>1, <2>1 DEF Kept
  <1>7. ASSUME NEW c \in Clients, Disconnect(c) \/ SwapSubs(c) PROVE Kept'
    <2>1. /\ UNCHANGED <<subscriber, subClients, ending>>
          /\ \A x \in Clients : connected'[x] => connected[x]
      BY <1>7 DEF Disconnect, SwapSubs, srvVars, Typed, TypeOK
    <2> QED BY <2>1 DEF Kept
  <1>8. ASSUME NEW c \in Clients, DeleteClient(c) PROVE Kept'
    <2>1. /\ subClients' = subClients \ {c} /\ subscriber' \in {None, subscriber}
          /\ UNCHANGED <<connected, ending>>
      BY <1>8 DEF DeleteClient, loseSubscriber
    <2>2. ~connected[c]
      BY <1>8 DEF DeleteClient, Registered, Closing
    <2> QED BY <1>1, <2>1, <2>2 DEF Kept
  <1>9. ASSUME NEW c \in Clients, Command(c) \/ Ack(c) \/ ClientStep(c) \/ Transmit(c) \/ SendPendingEvts(c)
        PROVE  Kept'
    BY <1>2, <1>3, <1>9, QuietCommands DEF Command, ClientStep
  <1>10. ASSUME \/ \E p \in Senders : VerifySend(p) \/ SendStep(p)
                \/ \E m \in MsgId : ThreadStep(m)
                \/ Expire \/ UNCHANGED vars
         PROVE  Kept'
    BY <1>2, <1>10, QuietOthers
  <1> QED BY <1>4, <1>5, <1>6, <1>7, <1>8, <1>9, <1>10 DEF Next, ServerStep

(* The connection that SEND delivers to is never taken for one without     *)
(* subscriptions, for any number of connections that take the queue over   *)
(* from each other.                                                        *)
THEOREM SubscribersAreKept == Spec => []SubscribedIsKept
  <1>1. Init => Kept
    BY DeliveryAssumption DEF Init, Kept
  <1>2. Kept => SubscribedIsKept
    BY DEF Kept, SubscribedIsKept
  <1> QED BY <1>1, <1>2, KeptPreserved, TypedHolds, RegisteredHolds, PTL DEF Spec

-----------------------------------------------------------------------------
(* Messages *)

(* The messages of the transmissions in sndQ.                              *)
flying(q) == {q[i].msg : i \in 1..Len(q)}

(* A message that was taken from the queue to be delivered: by a command,  *)
(* a SEND or a delivery thread, in sndQ, recorded as delivered, received.  *)
carried(m) ==
    \/ \E c \in Clients : cmd[c].msg = m
    \/ \E c \in Clients : m \in flying(sndQ[c])
    \/ \E c \in Clients, s \in SubId : subs[c][s].delivered = m
    \/ \E p \in Senders : send[p].id = m
    \/ m \in MsgId /\ deliver[m].at # "none"
    \/ m \in everReceived

(* A message that is not after the head of the queue.                      *)
past(m) == m \in 0..lastId /\ (isEmpty \/ m <= headId)

(* Only the head of the queue is ever taken to be delivered, and it does   *)
(* not come after the head later.                                          *)
OnlyHeads == \A m : carried(m) => past(m)

(* What all that hold a message hold.                                      *)
LEMMA Carriers ==
    /\ \A c \in Clients : carried(cmd[c].msg)
    /\ \A c \in Clients : \A m \in flying(sndQ[c]) : carried(m)
    /\ \A c \in Clients, s \in SubId : carried(subs[c][s].delivered)
    /\ \A p \in Senders : carried(send[p].id)
    /\ \A m \in MsgId : deliver[m].at # "none" => carried(m)
    /\ \A c \in Clients : \A m \in received[c] : carried(m)
  BY DEF carried, everReceived

(* The transmissions of a sndQ.                                            *)
LEMMA FlyingFacts ==
    ASSUME NEW q \in Seq(Transmission)
    PROVE  /\ \A tr \in Transmission : flying(Append(q, tr)) \subseteq flying(q) \cup {tr.msg}
           /\ q # <<>> => flying(Tail(q)) \subseteq flying(q) /\ Head(q).msg \in flying(q)
           /\ flying(<<>>) = {}
  <1>1. Len(q) \in Nat /\ (q = <<>> <=> Len(q) = 0)
    BY EmptyFacts
  <1>2. ASSUME NEW tr \in Transmission, NEW i \in 1..Len(Append(q, tr))
        PROVE  Append(q, tr)[i].msg \in flying(q) \cup {tr.msg}
    <2>1. /\ Len(Append(q, tr)) = Len(q) + 1 /\ Append(q, tr)[Len(q) + 1] = tr
          /\ \A j \in 1..Len(q) : Append(q, tr)[j] = q[j]
      BY AppendFacts
    <2>2. i \in 1..Len(q) \/ i = Len(q) + 1
      BY <1>1, <1>2, <2>1
    <2> QED BY <2>1, <2>2 DEF flying
  <1>3. ASSUME q # <<>>
        PROVE  flying(Tail(q)) \subseteq flying(q) /\ Head(q).msg \in flying(q)
    <2>1. /\ Len(Tail(q)) = Len(q) - 1 /\ \A i \in 1..Len(Tail(q)) : Tail(q)[i] = q[i + 1]
          /\ Head(q) = q[1] /\ 1 \in 1..Len(q)
      BY <1>1, <1>3, HeadTailProperties
    <2>2. \A i \in 1..Len(Tail(q)) : i + 1 \in 1..Len(q)
      BY <1>1, <2>1
    <2> QED BY <2>1, <2>2 DEF flying
  <1>4. flying(<<>>) = {}
    BY DEF flying
  <1>5. \A tr \in Transmission : flying(Append(q, tr)) \subseteq flying(q) \cup {tr.msg}
    BY <1>2 DEF flying
  <1> QED BY <1>3, <1>4, <1>5

(* A message of the next state that was carried before, or that is the     *)
(* head of the queue now.                                                  *)
old(m) == m \in {headId', NoMsg} \/ carried(m)

(* Nobody takes a message of another kind in this step.                    *)
Carrying ==
    /\ \A c \in Clients : old(cmd'[c].msg)
    /\ \A c \in Clients : \A m \in flying(sndQ'[c]) : old(m)
    /\ \A c \in Clients, s \in SubId : old(subs'[c][s].delivered)
    /\ \A p \in Senders : old(send'[p].id)
    /\ \A m \in MsgId : deliver'[m].at # "none" => old(m)
    /\ \A c \in Clients : \A m \in received'[c] : old(m)

(* So all that is carried next is old.                                     *)
LEMMA CarryingCarries ==
    ASSUME Carrying
    PROVE  \A m : carried(m)' => old(m)
  BY DEF Carrying, carried, everReceived

(* What was carried is old, whatever the step.                             *)
LEMMA OldCarriers ==
    /\ \A c \in Clients : old(cmd[c].msg)
    /\ \A c \in Clients : \A m \in flying(sndQ[c]) : old(m)
    /\ \A c \in Clients, s \in SubId : old(subs[c][s].delivered)
    /\ \A p \in Senders : old(send[p].id)
    /\ \A m \in MsgId : deliver[m].at # "none" => old(m)
    /\ \A c \in Clients : \A m \in received[c] : old(m)
    /\ old(headId') /\ old(NoMsg)
  BY Carriers DEF old

(* What a command makes of cmd, and SubsCarry, PushCarry of Subs and sndQ. *)
LEMMA GotoCarries ==
    ASSUME Typed, NEW c \in Clients, NEW msg, old(msg),
           \/ \E op, at, id, s : goto(c, op, at, id, msg, s)
           \/ \E op, s : finish(c, op, msg, s)
    PROVE  \A x \in Clients : old(cmd'[x].msg)
  <1>1. /\ \A x \in Clients : x # c => cmd'[x] = cmd[x]
        /\ cmd'[c].msg \in {msg, NoMsg}
    BY DEF goto, finish, respond, Typed, TypeOK
  <1> QED BY <1>1, OldCarriers

(* A Sub is given a message that is old, or keeps its own.                 *)
LEMMA SubsCarry ==
    ASSUME Typed, NEW c \in Clients, NEW s \in SubId, NEW m, old(m),
           \/ subs' = [subs EXCEPT ![c][s].delivered = m]
           \/ \E new : new.delivered = m /\ subs' = [subs EXCEPT ![c][s] = new]
           \/ \E new : new.delivered = subs[c][s].delivered /\ subs' = [subs EXCEPT ![c][s] = new]
    PROVE  \A x \in Clients, r \in SubId : old(subs'[x][r].delivered)
  <1>1. subs \in [Clients -> [SubId -> Sub]]
    BY DEF Typed, TypeOK
  <1>2. \A x \in Clients, r \in SubId : (x # c \/ r # s) => subs'[x][r] = subs[x][r]
    BY <1>1
  <1>3. subs'[c][s].delivered \in {m, subs[c][s].delivered}
    BY <1>1 DEF Sub
  <1> QED BY <1>2, <1>3, OldCarriers

(* A sndQ is given a transmission with a message that is old.              *)
LEMMA PushCarry ==
    ASSUME Typed, NEW c \in Clients, NEW tr \in Transmission, old(tr.msg),
           sndQ' = [sndQ EXCEPT ![c] = Append(@, tr)]
    PROVE  \A x \in Clients : \A m \in flying(sndQ'[x]) : old(m)
  <1>1. /\ \A x \in Clients : x # c => sndQ'[x] = sndQ[x]
        /\ sndQ'[c] = Append(sndQ[c], tr)
    BY DEF Typed, TypeOK
  <1>2. flying(sndQ'[c]) \subseteq flying(sndQ[c]) \cup {tr.msg}
    BY <1>1, HelperTypes, FlyingFacts
  <1> QED BY <1>1, <1>2, OldCarriers

(* Commands deliver the head of the queue.                                 *)
LEMMA CommandCarries ==
    ASSUME Typed, NEW c \in Clients, Command(c) \/ Ack(c) \/ ClientStep(c)
    PROVE  Carrying
  <1> USE OldCarriers
  <1>1. CASE PeekSub(c)
    <2>1. headId' = headId
      BY <1>1 DEF PeekSub, mqVars, headId, isEmpty
    <2>2. \A x \in Clients : old(cmd'[x].msg)
      BY <1>1, <2>1, GotoCarries DEF PeekSub
    <2> QED BY <1>1, <2>1, <2>2 DEF Carrying, PeekSub, connVars, srvVars, sndVars, env, history
  <1>2. CASE GetProhibited(c)
    <2>1. \A x \in Clients : old(cmd'[x].msg)
      BY <1>2, GotoCarries DEF GetProhibited, respond
    <2> QED BY <1>2, <2>1 DEF Carrying, GetProhibited, connVars, srvVars, sndVars, env, history
  <1>3. CASE SuspendQueue(c)
    <2>1. \A x \in Clients : old(cmd'[x].msg)
      BY <1>3, GotoCarries DEF SuspendQueue, respond
    <2> QED BY <1>3, <2>1 DEF Carrying, SuspendQueue, connVars, srvVars, sndVars, env, history
  <1>4. CASE DeleteStoreQueue(c)
    <2>1. \A x \in Clients : old(cmd'[x].msg)
      BY <1>4, GotoCarries DEF DeleteStoreQueue, respond
    <2> QED BY <1>4, <2>1 DEF Carrying, DeleteStoreQueue, connVars, srvVars, sndVars, env, history
  <1>5. CASE GetSub(c)
    <2>1. PICK s \in SubId : /\ goto(c, "GET", "getMessage", NoMsg, NoMsg, s)
                            /\ \/ subs' = [subs EXCEPT ![c][s].delivered = NoMsg]
                               \/ subs' = [subs EXCEPT ![c][s] = newSub("ProhibitSub")]
      BY <1>5, HelperTypes DEF GetSub, isProhibited
    <2>2. \A x \in Clients : old(cmd'[x].msg)
      BY <2>1, GotoCarries
    <2>3. newSub("ProhibitSub").delivered = NoMsg
      BY DEF newSub
    <2>4. \A x \in Clients, r \in SubId : old(subs'[x][r].delivered)
      BY <2>1, <2>3, SubsCarry
    <2> QED BY <1>5, <2>2, <2>4 DEF Carrying, GetSub, connVars, srvVars, sndVars, env, history
  <1>6. CASE Ack(c)
    <2>1. PICK id \in MsgId \cup {NoMsg} : GetDelivered(c, id) \/ AckNoMsg(c, id)
      BY <1>6 DEF Ack
    <2>2. \A x \in Clients : old(cmd'[x].msg)
      BY <2>1, GotoCarries DEF GetDelivered, AckNoMsg, respond
    <2>3. \A x \in Clients, r \in SubId : old(subs'[x][r].delivered)
      <3>1. CASE GetDelivered(c, id)
        <4>1. subscriptions[c] \in SubId
          BY <3>1, HelperTypes DEF GetDelivered, acknowledges
        <4> QED BY <3>1, <4>1, SubsCarry DEF GetDelivered
      <3>2. CASE AckNoMsg(c, id)
        BY <3>2 DEF AckNoMsg
      <3> QED BY <2>1, <3>1, <3>2
    <2> QED BY <2>1, <2>2, <2>3 DEF Carrying, GetDelivered, AckNoMsg, connVars, srvVars, sndVars, env, history
  <1>7. CASE SubscribeNew(c)
    <2>1. PICK s \in SubId : subs' = [subs EXCEPT ![c][s] = newSub("NoSub")] /\ finish(c, "SUB", cmd[c].msg, s)
      BY <1>7 DEF SubscribeNew
    <2>2. \A x \in Clients : old(cmd'[x].msg)
      BY <2>1, GotoCarries
    <2>3. newSub("NoSub").delivered = NoMsg
      BY DEF newSub
    <2>4. \A x \in Clients, r \in SubId : old(subs'[x][r].delivered)
      BY <2>1, <2>3, SubsCarry
    <2> QED BY <1>7, <2>1, <2>2, <2>3, <2>4 DEF Carrying, SubscribeNew, connVars, srvVars, sndVars, env, history
  <1>8. CASE SubscribeAgain(c)
    <2>1. subscriptions[c] \in SubId
      BY <1>8, HelperTypes DEF SubscribeAgain, isSubscribed
    <2>2. \A x \in Clients : old(cmd'[x].msg)
      BY <1>8, GotoCarries DEF SubscribeAgain
    <2>3. \A x \in Clients, r \in SubId : old(subs'[x][r].delivered)
      BY <1>8, <2>1, SubsCarry DEF SubscribeAgain
    <2> QED BY <1>8, <2>1, <2>2, <2>3 DEF Carrying, SubscribeAgain, connVars, srvVars, sndVars, env, history
  <1>9. CASE SubscribeProhibited(c)
    <2>1. \A x \in Clients : old(cmd'[x].msg)
      BY <1>9, GotoCarries DEF SubscribeProhibited, respond
    <2> QED BY <1>9, <2>1 DEF Carrying, SubscribeProhibited, connVars, srvVars, sndVars, env, history
  <1>10. CASE GetMessage(c)
    <2>1. headId' = headId
      BY <1>10 DEF GetMessage, mqVars, headId, isEmpty
    <2>2. \A x \in Clients : old(cmd'[x].msg)
      BY <1>10, <2>1, GotoCarries DEF GetMessage
    <2> QED BY <1>10, <2>1, <2>2 DEF Carrying, GetMessage, connVars, srvVars, sndVars, env, history
  <1>11. CASE DelPeekMsg(c)
    <2>1. \E msg \in {headId', NoMsg} : finish(c, "ACK", msg, cmd[c].sub)
      BY <1>11 DEF DelPeekMsg, DelMsg, mqVars, headId, isEmpty
    <2>2. \A x \in Clients : old(cmd'[x].msg)
      BY <2>1, GotoCarries
    <2> QED BY <1>11, <2>1, <2>2 DEF Carrying, DelPeekMsg, connVars, srvVars, sndVars, env, history
  <1>12. CASE DeleteMsgs(c)
    <2>1. \A x \in Clients : old(cmd'[x].msg)
      BY <1>12, GotoCarries DEF DeleteMsgs, respond
    <2> QED BY <1>12, <2>1 DEF Carrying, DeleteMsgs, connVars, srvVars, sndVars, env, history
  <1>13. CASE DeleteSub(c)
    <2>1. \A x \in Clients : old(cmd'[x].msg)
      BY <1>13, GotoCarries DEF DeleteSub, respond
    <2>2. \A m \in MsgId : deliver'[m] \in {deliver[m], NoThread}
      BY <1>13, CancelTypes DEF DeleteSub
    <2> QED BY <1>13, <2>1, <2>2 DEF Carrying, DeleteSub, NoThread, connVars, srvVars, sndVars, env, history
  <1>14. CASE WriteDeleted(c)
    <2>1. \A x \in Clients : old(cmd'[x].msg)
      BY <1>14, GotoCarries DEF WriteDeleted, respond
    <2> QED BY <1>14, <2>1 DEF Carrying, WriteDeleted, connVars, srvVars, sndVars, env, history
  <1>15. CASE SetDelivered(c)
    <2>1. cmd[c].sub \in SubId
      BY <1>15 DEF SetDelivered, At, Typed, Held
    <2>2. \A x \in Clients : old(cmd'[x].msg)
      BY <1>15, GotoCarries DEF SetDelivered, respond
    <2>3. \A x \in Clients, r \in SubId : old(subs'[x][r].delivered)
      BY <1>15, <2>1, SubsCarry DEF SetDelivered
    <2> QED BY <1>15, <2>1, <2>2, <2>3 DEF Carrying, SetDelivered, connVars, srvVars, sndVars, env, history
  <1>16. CASE Respond(c)
    <2>1. PICK tr \in Transmission : tr.msg = cmd[c].msg /\ sndQ' = [sndQ EXCEPT ![c] = Append(@, tr)]
      BY <1>16, HelperTypes DEF Respond, transmission, Cmd, Transmission
    <2>2. \A x \in Clients : \A m \in flying(sndQ'[x]) : old(m)
      BY <2>1, PushCarry
    <2>3. \A x \in Clients : old(cmd'[x].msg)
      BY <1>16 DEF Respond, NoCmd, Typed, TypeOK
    <2> QED BY <1>16, <2>1, <2>2, <2>3 DEF Carrying, Respond, connVars, srvVars, sndVars, env, history
  <1> QED BY <1>1, <1>2, <1>3, <1>4, <1>5, <1>6, <1>7, <1>8, <1>9, <1>10, <1>11, <1>12, <1>13, <1>14, <1>15, <1>16 DEF Command, ClientStep

(* SEND delivers a message that it has stored in an empty queue.           *)
LEMMA SendCarries ==
    ASSUME Typed, NEW p \in Senders, VerifySend(p) \/ SendStep(p)
    PROVE  Carrying
  <1> USE OldCarriers
  <1>0. send[p] \in Sending /\ NoSend.id = NoMsg
    BY DEF NoSend, Typed, TypeOK
  <1>1. CASE VerifySend(p)
    <2>1. send'[p].id \in {send[p].id, NoMsg} /\ \A x \in Senders : x # p => send'[x] = send[x]
      BY <1>0, <1>1 DEF VerifySend, Typed, TypeOK, Sending
    <2> QED BY <1>1, <2>1 DEF Carrying, VerifySend, connVars, srvVars, sndVars, env, history
  <1>2. CASE GetSubscribed(p)
    <2>1. send'[p].id \in {send[p].id, NoMsg} /\ \A x \in Senders : x # p => send'[x] = send[x]
      BY <1>0, <1>2 DEF GetSubscribed, Typed, TypeOK, Sending
    <2> QED BY <1>2, <2>1 DEF Carrying, GetSubscribed, connVars, srvVars, sndVars, env, history
  <1>3. CASE NotDelivered(p)
    <2>1. send'[p].id \in {send[p].id, NoMsg} /\ \A x \in Senders : x # p => send'[x] = send[x]
      BY <1>0, <1>3 DEF NotDelivered, Typed, TypeOK, Sending
    <2> QED BY <1>3, <2>1 DEF Carrying, NotDelivered, connVars, srvVars, sndVars, env, history
  <1>4. CASE SendQuota(p)
    <2>1. send'[p].id \in {send[p].id, NoMsg} /\ \A x \in Senders : x # p => send'[x] = send[x]
      BY <1>0, <1>4 DEF SendQuota, Typed, TypeOK, Sending
    <2> QED BY <1>4, <2>1 DEF Carrying, SendQuota, connVars, srvVars, sndVars, env, history
  <1>5. CASE SendMessage(p)
    <2>1. PICK m \in MsgId : /\ WriteMsg(m)
                            /\ send' = [send EXCEPT ![p] = IF isEmpty
                                  THEN [NoSend EXCEPT !.at = "getSubscribed", !.id = m] ELSE NoSend]
      BY <1>5 DEF SendMessage
    <2>2. isEmpty => headId' = m
      <3> SUFFICES ASSUME isEmpty PROVE headId' = m
        OBVIOUS
      <3>1. msgQueue' = Append(<<>>, [id |-> m, quota |-> FALSE])
        BY <2>1 DEF WriteMsg, isEmpty
      <3>2. msgQueue' # <<>> /\ Head(msgQueue') = [id |-> m, quota |-> FALSE]
        BY <3>1
      <3> QED BY <3>2 DEF headId, isEmpty
    <2>3. send'[p].id \in {headId', NoMsg} /\ \A x \in Senders : x # p => send'[x] = send[x]
      BY <1>0, <2>1, <2>2 DEF NoSend, Typed, TypeOK
    <2> QED BY <1>5, <2>1, <2>2, <2>3 DEF Carrying, SendMessage, connVars, srvVars, sndVars, env, history
  <1>6. CASE ForkDeliver(p)
    <2>1. send[p].id \in MsgId
      BY <1>6 DEF ForkDeliver, Typed, Held
    <2>2. send'[p].id = send[p].id /\ \A x \in Senders : x # p => send'[x] = send[x]
      BY <1>0, <1>6 DEF ForkDeliver, Typed, TypeOK, Sending
    <2>3. \A m \in MsgId : m # send[p].id => deliver'[m] = deliver[m]
      BY <1>6 DEF ForkDeliver, Typed, TypeOK
    <2> QED BY <1>6, <2>1, <2>2, <2>3 DEF Carrying, ForkDeliver, connVars, srvVars, sndVars, env, history
  <1>7. CASE SetSubThread(p)
    <2>1. send[p].rc \in Clients /\ send[p].sub \in SubId
      BY <1>7 DEF SetSubThread, Typed, Held
    <2>2. \A x \in Clients, r \in SubId : old(subs'[x][r].delivered)
      <3> DEFINE was == subs[send[p].rc][send[p].sub]
                 new == [was EXCEPT !.thread = "SubThread", !.tid = send[p].id]
      <3>1. was \in Sub
        BY <2>1, HelperTypes
      <3>2. new.delivered = was.delivered
        BY <3>1 DEF Sub
      <3>3. subs' = subs \/ subs' = [subs EXCEPT ![send[p].rc][send[p].sub] = new]
        BY <1>7 DEF SetSubThread
      <3> HIDE DEF new
      <3> QED BY <2>1, <3>2, <3>3, SubsCarry
    <2>3. send'[p].id = NoMsg /\ \A x \in Senders : x # p => send'[x] = send[x]
      BY <1>0, <1>7 DEF SetSubThread, Typed, TypeOK
    <2> QED BY <1>7, <2>2, <2>3 DEF Carrying, SetSubThread, connVars, srvVars, sndVars, env, history
  <1>8. CASE DeliverToSub(p)
    <2>1. subscriber \in Clients /\ subscriptions[subscriber] \in SubId /\ send[p].id \in Msg
      BY <1>8, HelperTypes DEF DeliverToSub, deliverable, Typed, TypeOK, Held
    <2> DEFINE rc == subscriber
               s == subscriptions[rc]
    <2>2. CASE /\ subs' = [subs EXCEPT ![rc][s].thread = "SubPending"]
               /\ send' = [send EXCEPT ![p].at = "fork", ![p].rc = rc, ![p].sub = s]
               /\ UNCHANGED sndQ
      <3> DEFINE new == [subs[rc][s] EXCEPT !.thread = "SubPending"]
      <3>1. subs[rc][s] \in Sub
        BY <2>1, HelperTypes
      <3>2. new.delivered = subs[rc][s].delivered /\ subs' = [subs EXCEPT ![rc][s] = new]
        BY <2>2, <3>1 DEF Sub
      <3>3. \A x \in Clients, r \in SubId : old(subs'[x][r].delivered)
        <4> HIDE DEF new
        <4> QED BY <2>1, <3>2, SubsCarry
      <3>4. send'[p].id = send[p].id /\ \A x \in Senders : x # p => send'[x] = send[x]
        BY <1>0, <2>2 DEF Typed, TypeOK, Sending
      <3> QED BY <1>8, <2>2, <3>3, <3>4 DEF Carrying, DeliverToSub, connVars, srvVars, sndVars, env, history
    <2>3. CASE /\ push(rc, send[p].id)
               /\ subs' = [subs EXCEPT ![rc][s].delivered = send[p].id]
               /\ send' = [send EXCEPT ![p] = NoSend]
      <3>1. \A x \in Clients, r \in SubId : old(subs'[x][r].delivered)
        BY <2>1, <2>3, SubsCarry
      <3>2. \A x \in Clients : \A m \in flying(sndQ'[x]) : old(m)
        <4>1. transmission("MSG", send[p].id) \in Transmission /\ transmission("MSG", send[p].id).msg = send[p].id
          BY <2>1 DEF transmission, Transmission
        <4> QED BY <2>1, <2>3, <4>1, PushCarry DEF push
      <3>3. send'[p].id = NoMsg /\ \A x \in Senders : x # p => send'[x] = send[x]
        BY <1>0, <2>3 DEF Typed, TypeOK
      <3> QED BY <1>8, <3>1, <3>2, <3>3 DEF Carrying, DeliverToSub, connVars, srvVars, sndVars, env, history
    <2> QED BY <1>8, <2>2, <2>3 DEF DeliverToSub
  <1> QED BY <1>1, <1>2, <1>3, <1>4, <1>5, <1>6, <1>7, <1>8 DEF SendStep

(* A delivery thread delivers the message of the SEND that started it.      *)
LEMMA ThreadCarries ==
    ASSUME Typed, NEW m \in MsgId, ThreadStep(m)
    PROVE  Carrying
  <1> USE OldCarriers
  <1>1. deliver[m].at # "none" /\ \A x \in MsgId : x # m => deliver'[x] = deliver[x]
    BY DEF ThreadStep, ThreadGetSubscribed, DeliverIfSame, ThreadExit, Typed, TypeOK
  <1>2. CASE ThreadGetSubscribed(m) \/ ThreadExit(m)
    BY <1>1, <1>2 DEF Carrying, ThreadGetSubscribed, ThreadExit, connVars, srvVars, sndVars, env, history
  <1>3. CASE DeliverIfSame(m)
    <2>1. deliver[m].rc \in Clients /\ deliver[m].sub \in SubId /\ subscriber = deliver[m].rc
      BY <1>3 DEF DeliverIfSame, Typed, Held
    <2>2. \A x \in Clients, r \in SubId : old(subs'[x][r].delivered)
      <3> DEFINE new == [subs[deliver[m].rc][deliver[m].sub] EXCEPT !.delivered = m, !.thread = "NoSub"]
      <3>1. subs[deliver[m].rc][deliver[m].sub] \in Sub
        BY <2>1, HelperTypes
      <3>2. new.delivered = m /\ subs' = [subs EXCEPT ![deliver[m].rc][deliver[m].sub] = new]
        BY <1>3, <3>1 DEF DeliverIfSame, Sub
      <3> HIDE DEF new
      <3> QED BY <1>1, <2>1, <3>2, SubsCarry
    <2>3. \A x \in Clients : \A k \in flying(sndQ'[x]) : old(k)
      <3>1. transmission("MSG", m) \in Transmission /\ transmission("MSG", m).msg = m
        BY HelperTypes DEF transmission, Transmission
      <3> QED BY <1>1, <1>3, <2>1, <3>1, PushCarry DEF DeliverIfSame, push
    <2> QED BY <1>1, <1>3, <2>2, <2>3 DEF Carrying, DeliverIfSame, connVars, srvVars, sndVars, env, history
  <1> QED BY <1>2, <1>3 DEF ThreadStep

(* serverThread, connections and expiry take no message.                   *)
LEMMA ServerCarries ==
    ASSUME Typed, ServerStep \/ Expire \/ UNCHANGED vars
    PROVE  Carrying
  <1> USE OldCarriers
  <1>1. CASE UpdateSubscribed \/ Expire \/ UNCHANGED vars
    BY <1>1 DEF Carrying, UpdateSubscribed, Expire, vars, connVars, srvVars, sndVars, env, history
  <1>2. CASE UpdateDisconnected \/ UpdateDeleted
    <2>1. loseSubscriber(send, deliver)
      BY <1>2 DEF UpdateDisconnected, UpdateDeleted
    <2> QED BY <1>2, <2>1, LoseTypes DEF Carrying, UpdateDisconnected, UpdateDeleted, connVars, srvVars, sndVars, env, history
  <1>3. CASE EndSub
    <2>1. \A m \in MsgId : deliver'[m] \in {deliver[m], NoThread}
      <3>1. ending \in Clients
        BY <1>3 DEF EndSub, Typed, TypeOK
      <3> QED BY <1>3, <3>1, CancelTypes DEF EndSub
    <2> QED BY <1>3, <2>1 DEF Carrying, EndSub, NoThread, connVars, srvVars, sndVars, env, history
  <1> QED BY <1>1, <1>2, <1>3 DEF ServerStep

(* A recipient receives what is in its sndQ; closing loses messages.       *)
LEMMA ConnectionCarries ==
    ASSUME Typed, NEW c \in Clients,
           Transmit(c) \/ SendPendingEvts(c) \/ Disconnect(c) \/ SwapSubs(c) \/ DeleteClient(c)
    PROVE  Carrying
  <1> USE OldCarriers
  <1>1. CASE Transmit(c)
    <2>1. sndQ[c] # <<>> /\ sndQ[c] \in Seq(Transmission)
      BY <1>1, HelperTypes DEF Transmit
    <2>2. flying(Tail(sndQ[c])) \subseteq flying(sndQ[c]) /\ Head(sndQ[c]).msg \in flying(sndQ[c])
      BY <2>1, FlyingFacts
    <2>3. \A x \in Clients : \A m \in flying(sndQ'[x]) : old(m)
      BY <1>1, <2>2 DEF Transmit, Typed, TypeOK
    <2>4. \A x \in Clients : \A m \in received'[x] : old(m)
      <3>1. /\ \A x \in Clients : x # c => received'[x] = received[x]
            /\ received'[c] = received[c] \cup ({Head(sndQ[c]).msg} \ {NoMsg})
        BY <1>1 DEF Transmit, Typed, TypeOK
      <3> QED BY <2>2, <3>1
    <2> QED BY <1>1, <2>3, <2>4 DEF Carrying, Transmit, connVars, srvVars, sndVars, env, history
  <1>2. CASE SendPendingEvts(c)
    <2>1. \A x \in Clients : \A m \in flying(sndQ'[x]) : old(m)
      <3>1. CASE sndQ' = [sndQ EXCEPT ![c] = Append(@, transmission(Head(pendingEvents[c]), NoMsg))]
        <4>1. Head(pendingEvents[c]) \in {"END", "DELD"}
          BY <1>2 DEF SendPendingEvts, Typed, TypeOK
        <4>2. /\ transmission(Head(pendingEvents[c]), NoMsg) \in Transmission
              /\ transmission(Head(pendingEvents[c]), NoMsg).msg = NoMsg
          BY <4>1, HelperTypes DEF transmission, Transmission
        <4> QED BY <3>1, <4>2, PushCarry
      <3> QED BY <1>2, <3>1 DEF SendPendingEvts
    <2> QED BY <1>2, <2>1 DEF Carrying, SendPendingEvts, connVars, srvVars, sndVars, env, history
  <1>3. CASE Disconnect(c)
    <2>1. /\ \A x \in Clients : cmd'[x].msg \in {cmd[x].msg, NoMsg}
          /\ \A x \in Clients : sndQ'[x] \in {sndQ[x], <<>>}
      BY <1>3 DEF Disconnect, NoCmd, Typed, TypeOK
    <2>2. flying(<<>>) = {}
      BY DEF flying
    <2> QED BY <1>3, <2>1, <2>2 DEF Carrying, Disconnect, connVars, srvVars, sndVars, env, history
  <1>4. CASE SwapSubs(c)
    <2>1. \A m \in MsgId : deliver'[m] \in {deliver[m], NoThread}
      BY <1>4, CancelTypes DEF SwapSubs
    <2> QED BY <1>4, <2>1 DEF Carrying, SwapSubs, NoThread, connVars, srvVars, sndVars, env, history
  <1>5. CASE DeleteClient(c)
    <2>1. /\ \A p \in Senders : send'[p].id = send[p].id
          /\ \A m \in MsgId : deliver'[m].at # "none" => deliver[m].at # "none"
      <3>1. loseSubscriber(send, deliver) \/ UNCHANGED <<subscriber, send, deliver>>
        BY <1>5 DEF DeleteClient
      <3> QED BY <3>1, LoseTypes
    <2> QED BY <1>5, <2>1 DEF Carrying, DeleteClient, connVars, srvVars, sndVars, env, history
  <1> QED BY <1>1, <1>2, <1>3, <1>4, <1>5

(* Whatever step the server takes.                                         *)
LEMMA StepCarries == Typed /\ [Next]_vars => Carrying
  <1> SUFFICES ASSUME Typed, [Next]_vars PROVE Carrying
    OBVIOUS
  <1>1. ASSUME NEW c \in Clients, Command(c) \/ Ack(c) \/ ClientStep(c) PROVE Carrying
    BY <1>1, CommandCarries
  <1>2. ASSUME NEW c \in Clients,
               Transmit(c) \/ SendPendingEvts(c) \/ Disconnect(c) \/ SwapSubs(c) \/ DeleteClient(c)
        PROVE  Carrying
    BY <1>2, ConnectionCarries
  <1>3. ASSUME NEW p \in Senders, VerifySend(p) \/ SendStep(p) PROVE Carrying
    BY <1>3, SendCarries
  <1>4. ASSUME NEW m \in MsgId, ThreadStep(m) PROVE Carrying
    BY <1>4, ThreadCarries
  <1>5. ASSUME ServerStep \/ Expire \/ UNCHANGED vars PROVE Carrying
    BY <1>5, ServerCarries
  <1> QED BY <1>1, <1>2, <1>3, <1>4, <1>5 DEF Next

(* What is past stays past when messages leave: they leave from the head.  *)
LEMMA PastWhenShorter ==
    ASSUME IInv, NEW n \in 1..Len(msgQueue),
           msgQueue' \in Seq(Message),
           Len(msgQueue') = Len(msgQueue) - n,
           \A i \in 1..Len(msgQueue') : msgQueue'[i] = msgQueue[i + n],
           lastId' = lastId
    PROVE  \A m : past(m) => past(m)'
  <1> SUFFICES ASSUME NEW m, past(m), msgQueue' # <<>> PROVE m <= Head(msgQueue').id
    BY DEF past, isEmpty, headId
  <1>1. Len(msgQueue) \in Nat /\ Len(msgQueue') \in Nat \ {0} /\ msgQueue # <<>>
    BY EmptyFacts DEF IInv, MQTypeOK
  <1>2. Head(msgQueue') = msgQueue'[1]
    BY <1>1, HeadTailProperties
  <1>3. 1 \in 1..Len(msgQueue') /\ 1 + n \in 1..Len(msgQueue)
    BY <1>1
  <1>4. Head(msgQueue') = msgQueue[1 + n]
    BY <1>2, <1>3
  <1>5. /\ Head(msgQueue).id \in MsgId /\ msgQueue[1 + n].id \in MsgId
        /\ Head(msgQueue).id <= msgQueue[1 + n].id
    BY <1>1, <1>3, HeadFacts
  <1>6. m \in 0..lastId /\ m <= Head(msgQueue).id /\ lastId \in Nat
    BY <1>1, QueueAssumption DEF past, isEmpty, headId, IInv, MQTypeOK
  <1> QED BY <1>4, <1>5, <1>6, QueueAssumption DEF MsgId

(* What is past stays past when a message is written: it comes after all   *)
(* that were sent.                                                         *)
LEMMA PastWhenLonger ==
    ASSUME IInv, NEW e \in Message, e.id = lastId + 1,
           msgQueue' = Append(msgQueue, e),
           lastId' = lastId + 1
    PROVE  \A m : past(m) => past(m)'
  <1> SUFFICES ASSUME NEW m, past(m) PROVE past(m)'
    OBVIOUS
  <1>1. lastId \in Nat /\ m \in 0..lastId /\ m \in 0..lastId'
    BY QueueAssumption DEF past, IInv, MQTypeOK
  <1>2. msgQueue \in Seq(Message) /\ Len(msgQueue) \in Nat /\ (msgQueue = <<>> <=> Len(msgQueue) = 0)
    BY EmptyFacts DEF IInv, MQTypeOK
  <1>3. /\ msgQueue' \in Seq(Message) /\ msgQueue' # <<>>
        /\ Len(msgQueue') = Len(msgQueue) + 1 /\ msgQueue'[Len(msgQueue) + 1] = e
        /\ \A i \in 1..Len(msgQueue) : msgQueue'[i] = msgQueue[i]
    BY <1>2, AppendFacts
  <1>4. Head(msgQueue') = msgQueue'[1]
    BY <1>3, HeadTailProperties
  <1>5. CASE msgQueue = <<>>
    <2>1. Head(msgQueue').id = lastId + 1
      BY <1>2, <1>3, <1>4, <1>5
    <2>2. m <= Head(msgQueue').id
      BY <1>1, <2>1
    <2> QED BY <1>1, <2>2 DEF past, headId, isEmpty
  <1>6. CASE msgQueue # <<>>
    <2>1. Head(msgQueue') = Head(msgQueue)
      BY <1>2, <1>3, <1>4, <1>6, HeadFacts
    <2> QED BY <1>1, <1>3, <1>6, <2>1 DEF past, headId, isEmpty
  <1> QED BY <1>5, <1>6

(* What is past stays past, whatever is done to the queue.                 *)
LEMMA PastKept ==
    ASSUME IInv, [MQNext]_mqVars
    PROVE  \A m : past(m) => past(m)'
  <1>1. ASSUME NEW m \in MsgId, WriteMsg(m) \/ WriteQuota(m) PROVE \A k : past(k) => past(k)'
    <2>1. PICK e \in Message : e.id = m /\ msgQueue' = Append(msgQueue, e)
      <3>1. /\ [id |-> m, quota |-> FALSE] \in Message
            /\ [id |-> m, quota |-> TRUE] \in Message
        BY DEF Message
      <3> QED BY <1>1, <3>1 DEF WriteMsg, WriteQuota
    <2>2. m = lastId + 1 /\ lastId' = m
      BY <1>1 DEF WriteMsg, WriteQuota, NewId
    <2> QED BY <2>1, <2>2, PastWhenLonger
  <1>2. ASSUME NEW m \in MsgId, RejectMsg(m) PROVE \A k : past(k) => past(k)'
    <2>1. lastId \in Nat /\ lastId' = lastId + 1 /\ UNCHANGED msgQueue
      BY <1>2, QueueAssumption DEF RejectMsg, NewId, IInv, MQTypeOK
    <2>2. 0..lastId \subseteq 0..lastId'
      BY <2>1
    <2> QED BY <2>1, <2>2 DEF past, isEmpty, headId
  <1>3. ASSUME NEW m \in MsgId, DelMsg(m) PROVE \A k : past(k) => past(k)'
    <2>1. msgQueue # <<>> /\ msgQueue \in Seq(Message)
      BY <1>3 DEF DelMsg, isEmpty, IInv, MQTypeOK
    <2>2. /\ Len(msgQueue) \in Nat \ {0}
          /\ msgQueue' \in Seq(Message)
          /\ Len(msgQueue') = Len(msgQueue) - 1
          /\ \A i \in 1..Len(msgQueue') : msgQueue'[i] = msgQueue[i + 1]
      BY <1>3, <2>1, HeadTailProperties, EmptySeq DEF DelMsg
    <2>3. 1 \in 1..Len(msgQueue)
      BY <2>2
    <2> QED BY <1>3, <2>2, <2>3, PastWhenShorter DEF DelMsg
  <1>4. ASSUME NEW n \in 1..Len(msgQueue), ExpireMsgs(n) PROVE \A k : past(k) => past(k)'
    <2>1. msgQueue \in Seq(Message) /\ Len(msgQueue) \in Nat
      BY EmptyFacts DEF IInv, MQTypeOK
    <2>2. \A i \in (n + 1)..Len(msgQueue) : msgQueue[i] \in Message
      BY <2>1, ElementOfSeq
    <2>3. /\ msgQueue' \in Seq(Message)
          /\ Len(msgQueue') = Len(msgQueue) - n
          /\ \A i \in 1..Len(msgQueue') : msgQueue'[i] = msgQueue[i + n]
      BY <1>4, <2>1, <2>2, SubSeqProperties DEF ExpireMsgs
    <2> QED BY <1>4, <2>3, PastWhenShorter DEF ExpireMsgs
  <1>5. ASSUME DropQueue \/ UNCHANGED mqVars PROVE \A k : past(k) => past(k)'
    BY <1>5 DEF DropQueue, mqVars, past, isEmpty, headId
  <1> QED BY <1>1, <1>2, <1>3, <1>4, <1>5 DEF MQNext

(* The head itself, and no message, are past.                              *)
LEMMA HeadIsPast == IInv => past(headId) /\ past(NoMsg)
  <1> SUFFICES ASSUME IInv PROVE past(headId) /\ past(NoMsg)
    OBVIOUS
  <1>1. lastId \in Nat /\ NoMsg \in 0..lastId
    BY QueueAssumption DEF IInv, MQTypeOK, NoMsg
  <1>2. CASE isEmpty
    BY <1>1, <1>2 DEF past, headId
  <1>3. CASE ~isEmpty
    <2>1. headId \in MsgId /\ headId <= lastId
      BY <1>3, HeadFacts DEF headId, isEmpty
    <2> QED BY <1>1, <2>1, QueueAssumption DEF past, MsgId, NoMsg
  <1> QED BY <1>2, <1>3

(* What is taken to be delivered is never after the head of the queue.     *)
LEMMA OnlyHeadsHolds == Spec => []OnlyHeads
  <1>1. Init => OnlyHeads
    <2> SUFFICES ASSUME Init, NEW m, carried(m) PROVE past(m)
      BY DEF OnlyHeads
    <2>1. m = NoMsg
      BY DEF Init, carried, flying, everReceived, NoCmd, NoSend, NoThread, newSub
    <2> QED BY <2>1 DEF past, Init, MQInit, isEmpty, NoMsg
  <1>2. Typed /\ Typed' /\ OnlyHeads /\ [Next]_vars => OnlyHeads'
    <2> SUFFICES ASSUME Typed, Typed', OnlyHeads, [Next]_vars PROVE OnlyHeads'
      OBVIOUS
    <2>1. \A m : carried(m)' => old(m)
      BY StepCarries, CarryingCarries
    <2>2. \A m : past(m) => past(m)'
      BY QueueSteps, PastKept DEF Typed
    <2>3. past(headId)' /\ past(NoMsg)'
      <3>1. IInv'
        BY DEF Typed
      <3>2. (IInv => past(headId) /\ past(NoMsg))'
        BY HeadIsPast, PTL
      <3> QED BY <3>1, <3>2
    <2>4. ASSUME NEW m, carried(m)' PROVE past(m)'
      <3>1. CASE carried(m)
        BY <2>2, <3>1 DEF OnlyHeads
      <3>2. CASE m = headId'
        <4>1. past(headId)' = (headId' \in 0..lastId' /\ (isEmpty' \/ headId' <= headId'))
          BY DEF past
        <4> QED BY <2>3, <3>2, <4>1 DEF past
      <3>3. CASE m = NoMsg
        BY <2>3, <3>3 DEF past, NoMsg
      <3> QED BY <2>1, <2>4, <3>1, <3>2, <3>3 DEF old
    <2> QED BY <2>4 DEF OnlyHeads
  <1> QED BY <1>1, <1>2, TypedHolds, PTL DEF Spec

(* Whatever is carried and still in the queue is its head.                 *)
LEMMA CarriedIsHead ==
    ASSUME IInv, OnlyHeads, NEW m, carried(m), inQueue(m)
    PROVE  m = headId
  <1>1. PICK i \in 1..Len(msgQueue) : msgQueue[i].id = m
    BY DEF inQueue
  <1>2. msgQueue # <<>>
    BY <1>1, EmptyFacts DEF IInv, MQTypeOK
  <1>3. headId \in MsgId /\ m \in MsgId /\ headId <= m
    BY <1>1, <1>2, HeadFacts DEF headId, isEmpty
  <1>4. m <= headId
    BY <1>2 DEF OnlyHeads, past, isEmpty
  <1> QED BY <1>3, <1>4, QueueAssumption DEF MsgId

(* The recipient has one message to acknowledge at a time: of all messages *)
(* that reached it on any connection, whichever of SUB, GET, ACK, SEND and *)
(* delivery threads sent them, only the head is still in the queue.        *)
THEOREM AtMostOneOutstanding == Spec => []OneOutstanding
  <1>1. Typed /\ OnlyHeads => OneOutstanding
    BY CarriedIsHead, Carriers DEF Typed, OneOutstanding
  <1> QED BY <1>1, TypedHolds, OnlyHeadsHolds, PTL

(* The message recorded as delivered in a Sub is the head of the queue or  *)
(* is gone, so that an ACK deletes only the message it acknowledges.       *)
THEOREM DeliveredIsTheHead == Spec => []DeliveredIsHead
  <1>1. Typed /\ OnlyHeads => DeliveredIsHead
    <2> SUFFICES ASSUME Typed, OnlyHeads, NEW c \in Clients, hasSub(c),
                        inQueue(currentSub(c).delivered)
                 PROVE  currentSub(c).delivered = headId
      BY DEF DeliveredIsHead
    <2>1. subscriptions[c] \in SubId
      BY DEF hasSub, Typed, TypeOK
    <2>2. carried(currentSub(c).delivered)
      BY <2>1, Carriers DEF currentSub
    <2> QED BY <2>2, CarriedIsHead DEF Typed
  <1> QED BY <1>1, TypedHolds, OnlyHeadsHolds, PTL

-----------------------------------------------------------------------------
(* The order of first receipts *)

(* Without DEL and expiry, a message leaves the queue only with an ACK of  *)
(* a recipient that has received it.                                       *)
Acks ==
    \A c \in Clients :
        /\ cmd[c].at # "deleteMsgs"
        /\ cmd[c].at = "delMsg" => cmd[c].id \in received[c] \cup {NoMsg}

(* A message that was taken to be delivered, and that nobody has received  *)
(* yet, is still the head.                                                 *)
Known == \A m : carried(m) => m \in {NoMsg, headId} \cup everReceived

(* What a step makes of the command of a connection, and of received.      *)
Commanded ==
    \A c \in Clients :
        \/ cmd'[c] = cmd[c]
        \/ cmd'[c].at \notin {"delMsg", "deleteMsgs"}
        \/ cmd'[c].at = "delMsg" /\ cmd'[c].id \in received[c] \cup {NoMsg}
        \/ cmd'[c].at = "deleteMsgs" /\ "DEL" \in Ops

(* A command is deleting a message, or all of them, only so.               *)
LEMMA StepCommands == Typed /\ [Next]_vars => Commanded
  <1> SUFFICES ASSUME Typed, [Next]_vars PROVE Commanded
    OBVIOUS
  <1>1. ASSUME NEW c \in Clients, NEW op, NEW step, NEW id, NEW msg, NEW s,
               goto(c, op, step, id, msg, s),
               \/ step \notin {"delMsg", "deleteMsgs"}
               \/ step = "delMsg" /\ id \in received[c] \cup {NoMsg}
               \/ step = "deleteMsgs" /\ "DEL" \in Ops
        PROVE  Commanded
    BY <1>1 DEF Commanded, goto, Typed, TypeOK
  <1>2. ASSUME NEW c \in Clients, NEW op, NEW msg, NEW s, respond(c, op, msg) \/ finish(c, op, msg, s)
        PROVE  Commanded
    BY <1>2, <1>1 DEF respond, finish
  <1>3. ASSUME UNCHANGED cmd PROVE Commanded
    BY <1>3 DEF Commanded
  <1>4. ASSUME NEW c \in Clients, cmd' = [cmd EXCEPT ![c] = NoCmd] PROVE Commanded
    BY <1>4 DEF Commanded, NoCmd, Typed, TypeOK
  <1>5. ASSUME NEW c \in Clients, Command(c) PROVE Commanded
    <2>1. CASE PeekSub(c) \/ GetSub(c)
      BY <1>1, <2>1 DEF PeekSub, GetSub
    <2>2. CASE GetProhibited(c) \/ SuspendQueue(c)
      BY <1>2, <2>2 DEF GetProhibited, SuspendQueue
    <2>3. CASE DeleteStoreQueue(c)
      BY <1>1, <2>3 DEF DeleteStoreQueue, Verified
    <2> QED BY <1>5, <2>1, <2>2, <2>3 DEF Command
  <1>6. ASSUME NEW c \in Clients, Ack(c) PROVE Commanded
    <2>1. PICK id \in MsgId \cup {NoMsg} : GetDelivered(c, id) \/ AckNoMsg(c, id)
      BY <1>6 DEF Ack
    <2>2. CASE GetDelivered(c, id)
      BY <1>1, <2>2 DEF GetDelivered, AckId
    <2>3. CASE AckNoMsg(c, id)
      BY <1>2, <2>3 DEF AckNoMsg
    <2> QED BY <2>1, <2>2, <2>3
  <1>7. ASSUME NEW c \in Clients, ClientStep(c) PROVE Commanded
    <2>1. CASE SubscribeNew(c) \/ SubscribeAgain(c) \/ SubscribeProhibited(c) \/ GetMessage(c) \/ DelPeekMsg(c)
      BY <1>2, <2>1 DEF SubscribeNew, SubscribeAgain, SubscribeProhibited, GetMessage, DelPeekMsg
    <2>2. CASE DeleteMsgs(c) \/ DeleteSub(c)
      BY <1>1, <2>2 DEF DeleteMsgs, DeleteSub
    <2>3. CASE WriteDeleted(c) \/ SetDelivered(c)
      BY <1>2, <2>3 DEF WriteDeleted, SetDelivered
    <2>4. CASE Respond(c)
      BY <1>4, <2>4 DEF Respond
    <2> QED BY <1>7, <2>1, <2>2, <2>3, <2>4 DEF ClientStep
  <1>8. ASSUME NEW c \in Clients, Disconnect(c) PROVE Commanded
    BY <1>4, <1>8 DEF Disconnect
  <1>9. ASSUME NEW c \in Clients, Transmit(c) \/ SendPendingEvts(c) \/ SwapSubs(c) \/ DeleteClient(c)
        PROVE  Commanded
    BY <1>3, <1>9 DEF Transmit, SendPendingEvts, SwapSubs, DeleteClient
  <1>10. ASSUME NEW p \in Senders, VerifySend(p) \/ SendStep(p) PROVE Commanded
    BY <1>3, <1>10 DEF VerifySend, SendStep, SendMessage, SendQuota, GetSubscribed, DeliverToSub,
       NotDelivered, ForkDeliver, SetSubThread, connVars
  <1>11. ASSUME NEW m \in MsgId, ThreadStep(m) PROVE Commanded
    BY <1>3, <1>11 DEF ThreadStep, ThreadGetSubscribed, DeliverIfSame, ThreadExit, connVars
  <1>12. ASSUME ServerStep \/ Expire \/ UNCHANGED vars PROVE Commanded
    BY <1>3, <1>12 DEF ServerStep, UpdateSubscribed, UpdateDisconnected, UpdateDeleted, EndSub,
       Expire, connVars, vars
  <1> QED BY <1>5, <1>6, <1>7, <1>8, <1>9, <1>10, <1>11, <1>12 DEF Next

(* Messages are received by Transmit alone.                                *)
LEMMA StepReceives ==
    ASSUME Typed, [Next]_vars
    PROVE  UNCHANGED received \/ \E c \in Clients : Transmit(c)
  <1>1. ASSUME NEW c \in Clients, Command(c) \/ Ack(c) \/ ClientStep(c) PROVE UNCHANGED received
    BY <1>1 DEF Command, PeekSub, GetSub, GetProhibited, SuspendQueue, DeleteStoreQueue,
       Ack, GetDelivered, AckNoMsg, ClientStep, SubscribeNew, SubscribeAgain, SubscribeProhibited,
       GetMessage, DelPeekMsg, DeleteMsgs, DeleteSub, WriteDeleted, SetDelivered, Respond, env, history
  <1>2. ASSUME NEW c \in Clients,
               SendPendingEvts(c) \/ Disconnect(c) \/ SwapSubs(c) \/ DeleteClient(c)
        PROVE  UNCHANGED received
    BY <1>2 DEF SendPendingEvts, Disconnect, SwapSubs, DeleteClient, env, history
  <1>3. ASSUME NEW p \in Senders, VerifySend(p) \/ SendStep(p) PROVE UNCHANGED received
    BY <1>3 DEF VerifySend, SendStep, SendMessage, SendQuota, GetSubscribed, DeliverToSub,
       NotDelivered, ForkDeliver, SetSubThread, env, history
  <1>4. ASSUME NEW m \in MsgId, ThreadStep(m) PROVE UNCHANGED received
    BY <1>4 DEF ThreadStep, ThreadGetSubscribed, DeliverIfSame, ThreadExit, env, history
  <1>5. ASSUME ServerStep \/ Expire \/ UNCHANGED vars PROVE UNCHANGED received
    BY <1>5 DEF ServerStep, UpdateSubscribed, UpdateDisconnected, UpdateDeleted, EndSub,
       Expire, vars, env, history
  <1> QED BY <1>1, <1>2, <1>3, <1>4, <1>5 DEF Next

(* A received message was the first in the sndQ of its connection.         *)
LEMMA Transmits ==
    ASSUME Typed, NEW c \in Clients, Transmit(c)
    PROVE  /\ carried(Head(sndQ[c]).msg)
           /\ received'[c] = received[c] \cup ({Head(sndQ[c]).msg} \ {NoMsg})
           /\ \A x \in Clients : x # c => received'[x] = received[x]
  <1>1. sndQ[c] # <<>> /\ sndQ[c] \in Seq(Transmission)
    BY HelperTypes DEF Transmit
  <1>2. Head(sndQ[c]).msg \in flying(sndQ[c])
    BY <1>1, FlyingFacts
  <1> QED BY <1>2, Carriers DEF Transmit, Typed, TypeOK

(* What was received stays received, by each recipient and by all.         *)
LEMMA ReceivedGrows ==
    ASSUME Typed, [Next]_vars
    PROVE  /\ \A c \in Clients : received[c] \subseteq received'[c]
           /\ everReceived \subseteq everReceived'
  <1>1. \A c \in Clients : received[c] \subseteq received'[c]
    BY StepReceives, Transmits
  <1> QED BY <1>1 DEF everReceived

(* Without DEL and expiry the head of the queue leaves with an ACK.        *)
LEMMA HeadLeaves ==
    ASSUME Typed, Acks, "EXPIRE" \notin Ops, [Next]_vars, ~isEmpty, headId' # headId
    PROVE  headId \in everReceived
  <1>1. msgQueue \in Seq(Message) /\ msgQueue # <<>>
    BY DEF Typed, IInv, MQTypeOK, isEmpty
  <1>2. headId # NoMsg
    <2>1. headId \in MsgId
      BY <1>1, HeadFacts DEF Typed, headId, isEmpty
    <2> QED BY <2>1, HelperTypes
  <1>3. ASSUME UNCHANGED msgQueue PROVE FALSE
    BY <1>3 DEF headId, isEmpty
  <1>4. ASSUME NEW c \in Clients, Command(c) \/ Ack(c) PROVE FALSE
    BY <1>3, <1>4 DEF Command, PeekSub, GetSub, GetProhibited, SuspendQueue, DeleteStoreQueue,
       Ack, GetDelivered, AckNoMsg, mqVars
  <1>5. ASSUME NEW c \in Clients, ClientStep(c) PROVE headId \in everReceived
    <2>1. CASE DelPeekMsg(c)
      <3>1. UNCHANGED msgQueue \/ DelMsg(cmd[c].id)
        BY <2>1 DEF DelPeekMsg, mqVars
      <3>2. cmd[c].id \in received[c] \cup {NoMsg}
        BY <2>1 DEF DelPeekMsg, At, Acks
      <3>3. headId = cmd[c].id
        BY <1>3, <3>1 DEF DelMsg, headId, isEmpty
      <3> QED BY <1>2, <3>2, <3>3 DEF everReceived
    <2>2. ~DeleteMsgs(c)
      BY DEF DeleteMsgs, At, Acks
    <2>3. CASE SubscribeNew(c) \/ SubscribeAgain(c) \/ SubscribeProhibited(c) \/ GetMessage(c)
                \/ DeleteSub(c) \/ WriteDeleted(c) \/ SetDelivered(c) \/ Respond(c)
      BY <1>3, <2>3 DEF SubscribeNew, SubscribeAgain, SubscribeProhibited, GetMessage,
         DeleteSub, WriteDeleted, SetDelivered, Respond, mqVars
    <2> QED BY <1>5, <2>1, <2>2, <2>3 DEF ClientStep
  <1>6. ASSUME NEW c \in Clients,
               Transmit(c) \/ SendPendingEvts(c) \/ Disconnect(c) \/ SwapSubs(c) \/ DeleteClient(c)
        PROVE  FALSE
    BY <1>3, <1>6 DEF Transmit, SendPendingEvts, Disconnect, SwapSubs, DeleteClient, mqVars
  <1>7. ASSUME NEW p \in Senders, VerifySend(p) \/ SendStep(p) PROVE FALSE
    <2>1. ASSUME NEW e \in Message, msgQueue' = Append(msgQueue, e) PROVE FALSE
      <3>1. /\ msgQueue' \in Seq(Message) /\ msgQueue' # <<>>
            /\ Len(msgQueue') \in Nat \ {0} /\ 1 \in 1..Len(msgQueue)
            /\ \A i \in 1..Len(msgQueue) : msgQueue'[i] = msgQueue[i]
        BY <1>1, <2>1, AppendFacts, EmptyFacts
      <3>2. Head(msgQueue') = Head(msgQueue)
        BY <1>1, <3>1, HeadTailProperties
      <3> QED BY <3>1, <3>2 DEF headId, isEmpty
    <2>2. CASE SendMessage(p) \/ SendQuota(p)
      <3>1. PICK m \in MsgId : WriteMsg(m) \/ WriteQuota(m) \/ RejectMsg(m)
        BY <2>2 DEF SendMessage, SendQuota
      <3>2. /\ [id |-> m, quota |-> FALSE] \in Message
            /\ [id |-> m, quota |-> TRUE] \in Message
        BY DEF Message
      <3> QED BY <1>3, <2>1, <3>1, <3>2 DEF WriteMsg, WriteQuota, RejectMsg
    <2>3. CASE VerifySend(p) \/ GetSubscribed(p) \/ DeliverToSub(p) \/ NotDelivered(p)
                \/ ForkDeliver(p) \/ SetSubThread(p)
      BY <1>3, <2>3 DEF VerifySend, GetSubscribed, DeliverToSub, NotDelivered, ForkDeliver,
         SetSubThread, mqVars
    <2> QED BY <1>7, <2>2, <2>3 DEF SendStep
  <1>8. ASSUME NEW m \in MsgId, ThreadStep(m) PROVE FALSE
    BY <1>3, <1>8 DEF ThreadStep, ThreadGetSubscribed, DeliverIfSame, ThreadExit, mqVars
  <1>9. ASSUME ServerStep \/ UNCHANGED vars PROVE FALSE
    BY <1>3, <1>9 DEF ServerStep, UpdateSubscribed, UpdateDisconnected, UpdateDeleted, EndSub,
       mqVars, vars
  <1>10. ~Expire
    BY DEF Expire
  <1> QED BY <1>4, <1>5, <1>6, <1>7, <1>8, <1>9, <1>10 DEF Next

(* Without DEL and expiry, Acks and Known hold.                            *)
LEMMA AcksAndKnown ==
    ASSUME Ops \cap {"EXPIRE", "DEL"} = {}
    PROVE  Spec => [](Acks /\ Known)
  <1>1. Init => Acks /\ Known
    BY DEF Init, Acks, Known, carried, flying, everReceived, NoCmd, NoSend, NoThread, newSub
  <1>2. Typed /\ Acks /\ Known /\ [Next]_vars => Acks' /\ Known'
    <2> SUFFICES ASSUME Typed, Acks, Known, [Next]_vars PROVE Acks' /\ Known'
      OBVIOUS
    <2>1. Acks'
      BY StepCommands, ReceivedGrows DEF Commanded, Acks
    <2>2. ASSUME NEW m, carried(m)' PROVE m \in {NoMsg, headId'} \cup everReceived'
      <3>1. m \in {headId', NoMsg} \/ carried(m)
        BY <2>2, StepCarries, CarryingCarries DEF old
      <3>2. everReceived \subseteq everReceived'
        BY ReceivedGrows
      <3>3. CASE m = headId /\ ~isEmpty /\ headId' # headId
        BY <3>2, <3>3, HeadLeaves
      <3>4. isEmpty => headId = NoMsg
        BY DEF headId
      <3> QED BY <3>1, <3>2, <3>3, <3>4 DEF Known
    <2> QED BY <2>1, <2>2 DEF Known, NoMsg
  <1> QED BY <1>1, <1>2, TypedHolds, PTL DEF Spec

(* However SUB, GET, ACK, SEND, takeover, disconnects and delivery threads *)
(* interleave, messages are received for the first time in the order in    *)
(* which they were sent, on whatever connection.  (DEL starts a new queue, *)
(* and an expired message may still be on its way when later ones are      *)
(* received.)                                                              *)
THEOREM FirstReceiptsInOrder ==
    ASSUME Ops \cap {"EXPIRE", "DEL"} = {}
    PROVE  Spec => FirstReceiptInOrder
  <1>1. Typed /\ OnlyHeads /\ Known /\ [Next]_vars =>
            [\A c \in Clients : \A m \in received'[c] \ everReceived :
                \A k \in everReceived : k < m]_vars
    <2> SUFFICES ASSUME Typed, OnlyHeads, Known, [Next]_vars,
                        NEW x \in Clients, NEW m \in received'[x] \ everReceived,
                        NEW k \in everReceived
                 PROVE  k < m
      OBVIOUS
    <2>1. m \notin received[x] /\ received'[x] # received[x]
      BY DEF everReceived
    <2>2. PICK c \in Clients : Transmit(c)
      BY <2>1, StepReceives
    <2>3. m = Head(sndQ[c]).msg /\ m # NoMsg /\ carried(m)
      BY <2>1, <2>2, Transmits
    <2>4. m = headId /\ ~isEmpty
      BY <2>3 DEF Known, headId
    <2>5. carried(k) /\ k # m
      BY DEF carried
    <2>6. k \in 0..lastId /\ k <= m
      BY <2>4, <2>5 DEF OnlyHeads, past
    <2>7. m \in Nat /\ lastId \in Nat
      BY <2>3, <2>4, HelperTypes, QueueAssumption DEF Msg, MsgId, Typed, IInv, MQTypeOK
    <2> QED BY <2>5, <2>6, <2>7
  <1> QED BY <1>1, TypedHolds, OnlyHeadsHolds, AcksAndKnown, PTL DEF Spec, FirstReceiptInOrder
=============================================================================
