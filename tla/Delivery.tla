------------------------------ MODULE Delivery ------------------------------
(***************************************************************************)
(* Message delivery of the SMP server (Server.hs, Server/Env/STM.hs): one  *)
(* queue, the connections that subscribe to it, get and acknowledge its    *)
(* messages, delete or suspend it, and the senders.                        *)
(*                                                                         *)
(* Every connection is served by its own threads (receive, client, send),  *)
(* a SEND runs on the sender's connection, serverThread moves the          *)
(* subscription between connections, sendPendingEvtsThread tells the       *)
(* previous subscriber, and a SEND that finds the recipient's sndQ full    *)
(* leaves a thread behind.  One action is one STM transaction, or one read *)
(* outside of a transaction whose result is used later; the interleavings  *)
(* between them are the subject of this module.                            *)
(*                                                                         *)
(* A connection has one command in progress: it was verified against the   *)
(* queue record when it was received, and is processed some time later.    *)
(* Client services and notifications are not part of this module.          *)
(***************************************************************************)
EXTENDS MsgQueue, FiniteSets

CONSTANTS
    Clients,    \* connections of recipients (Client, one per transport session)
    Senders,    \* connections that send
    MaxSubs,    \* bound: Sub objects of one connection that exist at the same time
    MaxCmds,    \* bound: commands of the recipients other than ACK
    SndQSize,   \* tbqSize: capacity of sndQ
    Ops,        \* the commands and events of this instance
    None

AllOps == {"SUB", "GET", "ACK", "ACK_EMPTY", "OFF", "DEL", "EXPIRE", "DISCONNECT"}

ASSUME DeliveryAssumption ==
    /\ None \notin Clients
    /\ MaxSubs \in Nat \ {0}
    /\ SndQSize \in Nat \ {0}
    /\ MaxCmds \in Nat
    /\ Ops \subseteq AllOps

VARIABLES
    queueRec,       \* status in the queue record, "deleted" when the TVar holds Nothing
    connected,      \* connected
    subscriptions,  \* subscriptions: the Sub of the queue in each connection, or NoSub
    subs,           \* the Sub objects of each connection: subThread and delivered
    cmds,           \* number of commands issued, other than ACK
    cmd,            \* the command that the client thread is processing
    sndQ,           \* sndQ: transmissions to the recipient
    disc,           \* progress of clientDisconnected
    subQ,           \* subQ: ClientSub events for serverThread
    subscriber,     \* queueSubscribers: the connection in the TVar of the queue
    subClients,     \* subClients: connections with subscriptions
    ending,         \* the connection whose Sub serverThread is about to end
    pendingEvents,  \* pendingEvents
    send,           \* SEND in progress on each sender's connection
    deliver,        \* deliverThread started by the SEND of each message
    received,       \* history: messages each recipient has received
    outcome         \* history: what became of each message

connVars == <<connected, subscriptions, cmd, sndQ, disc>>
srvVars == <<subQ, subscriber, subClients, ending, pendingEvents>>
sndVars == <<send, deliver>>
history == <<received, outcome>>
env == <<history, cmds>>
vars == <<mqVars, queueRec, subs, connVars, srvVars, sndVars, env>>

NoMsg == 0
NoSubId == 0
SubId == 1..MaxSubs

NoCmd == [op |-> "none", at |-> "none", id |-> NoMsg, msg |-> NoMsg, sub |-> NoSubId]
NoSend == [at |-> "none", id |-> NoMsg, rc |-> None, sub |-> NoSubId]
NoThread == [at |-> "none", rc |-> None, sub |-> NoSubId]

newSub(thread) == [thread |-> thread, tid |-> NoMsg, delivered |-> NoMsg]

Init ==
    /\ MQInit
    /\ queueRec = "active"
    /\ connected = [c \in Clients |-> TRUE]
    /\ subscriptions = [c \in Clients |-> NoSubId]
    /\ subs = [c \in Clients |-> [s \in SubId |-> newSub("NoSub")]]
    /\ cmds = 0
    /\ cmd = [c \in Clients |-> NoCmd]
    /\ sndQ = [c \in Clients |-> <<>>]
    /\ disc = [c \in Clients |-> "none"]
    /\ subQ = <<>>
    /\ subscriber = None
    /\ subClients = {}
    /\ ending = None
    /\ pendingEvents = [c \in Clients |-> <<>>]
    /\ send = [p \in Senders |-> NoSend]
    /\ deliver = [m \in MsgId |-> NoThread]
    /\ received = [c \in Clients |-> {}]
    /\ outcome = [m \in MsgId |-> "none"]
-----------------------------------------------------------------------------
(* Helpers *)

headId == IF isEmpty THEN NoMsg ELSE Head(msgQueue).id

full(c) == Len(sndQ[c]) >= SndQSize

transmission(resp, msg) == [resp |-> resp, msg |-> msg]

(* A Sub taken out of its connection lives on while a command, a SEND or a *)
(* deliverThread holds it; one that nothing refers to is reused.           *)
referenced(c, s) ==
    \/ subscriptions[c] = s
    \/ cmd[c].sub = s
    \/ \E p \in Senders : send[p].rc = c /\ send[p].sub = s
    \/ \E m \in MsgId : deliver[m].rc = c /\ deliver[m].sub = s

freshSub(c, s) == s \in SubId /\ ~referenced(c, s) /\ \A r \in 1..(s - 1) : referenced(c, r)

currentSub(c) == subs[c][subscriptions[c]]
hasSub(c) == subscriptions[c] # NoSubId
isProhibited(c) == hasSub(c) /\ currentSub(c).thread = "ProhibitSub"
isSubscribed(c) == hasSub(c) /\ currentSub(c).thread # "ProhibitSub"

(* cancelSub: the thread recorded in the Sub is killed; a thread that is not *)
(* recorded yet (SubPending) is not.                                         *)
cancelSub(c) ==
    deliver' = IF hasSub(c) /\ currentSub(c).thread = "SubThread"
               THEN [deliver EXCEPT ![currentSub(c).tid] = NoThread]
               ELSE deliver

(* The subscriber is removed from queueSubscribers and its TVar is set to    *)
(* Nothing: a SEND or a thread that has looked it up will find no client,    *)
(* even when another one is subscribed by then, in a new TVar.               *)
loseSubscriber(snd, thr) ==
    /\ subscriber' = None
    /\ send' = [p \in Senders |-> IF snd[p].at = "deliverToSub"
                                  THEN [snd[p] EXCEPT !.at = "unsubscribed"] ELSE snd[p]]
    /\ deliver' = [m \in MsgId |-> IF thr[m].at = "deliverIfSame"
                                   THEN [thr[m] EXCEPT !.at = "unsubscribed"] ELSE thr[m]]
-----------------------------------------------------------------------------
(* Commands of the recipients.  receive verifies the command against the   *)
(* queue record (a deleted queue: ERR AUTH); the first transaction of the  *)
(* command follows in the same step.                                       *)

Verified(c, op) ==
    /\ op \in Ops
    /\ connected[c] /\ cmd[c] = NoCmd
    /\ queueRec # "deleted"
    /\ cmds < MaxCmds \/ op \in {"ACK", "ACK_EMPTY"}

Counted == cmds' = cmds + 1

At(c, step) == connected[c] /\ cmd[c].at = step

goto(c, op, step, id, msg, s) ==
    cmd' = [cmd EXCEPT ![c] = [op |-> op, at |-> step, id |-> id, msg |-> msg, sub |-> s]]

(* The end of a command: without a message the response is all; with one,    *)
(* it is recorded in the Sub first (setDelivered).                           *)
respond(c, op, msg) == goto(c, op, "respond", NoMsg, msg, NoSubId)
finish(c, op, msg, s) ==
    IF msg = NoMsg THEN respond(c, op, NoMsg) ELSE goto(c, op, "setDelivered", NoMsg, msg, s)

SetDelivered(c) ==
    /\ At(c, "setDelivered")
    /\ subs' = [subs EXCEPT ![c][cmd[c].sub].delivered = cmd[c].msg]
    /\ respond(c, cmd[c].op, cmd[c].msg)
    /\ UNCHANGED <<mqVars, queueRec, connected, subscriptions, sndQ, disc,
                   srvVars, sndVars, env>>

(* Mutant: the response to SUB waits until serverThread has registered the   *)
(* connection.                                                               *)
Respond_WhenRegistered(c) ==
    /\ At(c, "respond")
    /\ ~full(c)
    /\ cmd[c].op = "SUB" => subscriber = c
    /\ sndQ' = [sndQ EXCEPT ![c] = Append(@, transmission("SOK", cmd[c].msg))]
    /\ cmd' = [cmd EXCEPT ![c] = NoCmd]
    /\ UNCHANGED <<mqVars, queueRec, subs, connected, subscriptions, disc,
                   srvVars, sndVars, env>>

(* The response to SUB is SOK with the message; to other commands the       *)
(* message itself, or OK or an error, which are not told apart here.        *)
Respond(c) ==
    /\ At(c, "respond")
    /\ ~full(c)
    /\ LET resp == CASE cmd[c].op = "SUB" -> "SOK"
                     [] cmd[c].msg # NoMsg -> "MSG"
                     [] OTHER -> "OK"
       IN sndQ' = [sndQ EXCEPT ![c] = Append(@, transmission(resp, cmd[c].msg))]
    /\ cmd' = [cmd EXCEPT ![c] = NoCmd]
    /\ UNCHANGED <<mqVars, queueRec, subs, connected, subscriptions, disc,
                   srvVars, sndVars, env>>

(* SUB.  prepareBatchSubs: the message is peeked before the subscription is *)
(* made.                                                                    *)
PeekSub(c) ==
    /\ Verified(c, "SUB")
    /\ goto(c, "SUB", "subscribe", NoMsg, headId, NoSubId)
    /\ Counted
    /\ UNCHANGED <<mqVars, queueRec, subs, connected, subscriptions, sndQ, disc,
                   srvVars, sndVars, history>>

(* subscribeQueueAndDeliver, sharedSubscribeQueue: a new Sub, of which        *)
(* serverThread is told; the response does not wait for serverThread.  No     *)
(* other thread looks at the Sub before the event is processed, so that its   *)
(* insertion and the event are one step.                                      *)
SubscribeNew(c) ==
    /\ At(c, "subscribe")
    /\ ~hasSub(c)
    /\ \E s \in SubId :
         /\ freshSub(c, s)
         /\ subs' = [subs EXCEPT ![c][s] = newSub("NoSub")]
         /\ subscriptions' = [subscriptions EXCEPT ![c] = s]
         /\ finish(c, "SUB", cmd[c].msg, s)
    /\ subQ' = Append(subQ, [event |-> "CSClient", client |-> c])
    /\ UNCHANGED <<mqVars, queueRec, connected, sndQ, disc,
                   subscriber, subClients, ending, pendingEvents, sndVars, env>>

(* subscribeQueueAndDeliver on a connection that has the subscription: it is *)
(* delivered the message again, serverThread is not told.                    *)
SubscribeAgain(c) ==
    /\ At(c, "subscribe")
    /\ isSubscribed(c)
    /\ subs' = [subs EXCEPT ![c][subscriptions[c]].delivered = NoMsg]
    /\ finish(c, "SUB", cmd[c].msg, subscriptions[c])
    /\ UNCHANGED <<mqVars, queueRec, connected, subscriptions, sndQ, disc,
                   srvVars, sndVars, env>>

(* SUB is prohibited after GET, and GET after SUB. *)
SubscribeProhibited(c) ==
    /\ At(c, "subscribe")
    /\ isProhibited(c)
    /\ respond(c, "PROHIBITED", NoMsg)
    /\ UNCHANGED <<mqVars, queueRec, subs, connected, subscriptions, sndQ, disc,
                   srvVars, sndVars, env>>

GetProhibited(c) ==
    /\ Verified(c, "GET")
    /\ isSubscribed(c)
    /\ respond(c, "PROHIBITED", NoMsg)
    /\ Counted
    /\ UNCHANGED <<mqVars, queueRec, subs, connected, subscriptions, sndQ, disc,
                   srvVars, sndVars, history>>

(* getMessage: the connection gets a Sub that prohibits SUB; it is not added *)
(* to the subscribers of the queue, and nobody is told.                      *)
GetSub(c) ==
    /\ Verified(c, "GET")
    /\ \/ /\ ~hasSub(c)
          /\ \E s \in SubId :
               /\ freshSub(c, s)
               /\ subs' = [subs EXCEPT ![c][s] = newSub("ProhibitSub")]
               /\ subscriptions' = [subscriptions EXCEPT ![c] = s]
               /\ goto(c, "GET", "getMessage", NoMsg, NoMsg, s)
       \/ /\ isProhibited(c)
          /\ subs' = [subs EXCEPT ![c][subscriptions[c]].delivered = NoMsg]
          /\ goto(c, "GET", "getMessage", NoMsg, NoMsg, subscriptions[c])
          /\ UNCHANGED subscriptions
    /\ Counted
    /\ UNCHANGED <<mqVars, queueRec, connected, sndQ, disc, srvVars, sndVars, history>>

GetMessage(c) ==
    /\ At(c, "getMessage")
    /\ finish(c, "GET", headId, cmd[c].sub)
    /\ UNCHANGED <<mqVars, queueRec, subs, connected, subscriptions, sndQ, disc,
                   srvVars, sndVars, env>>

(* ACK.  A recipient acknowledges messages it has received, possibly again   *)
(* after a timeout; old clients send an empty id.                            *)
AckId(c, id) ==
    \/ Verified(c, "ACK") /\ id \in received[c]
    \/ Verified(c, "ACK_EMPTY") /\ id = NoMsg

(* getDelivered: the id must be the delivered one, which is then cleared. *)
acknowledges(c, id) ==
    /\ hasSub(c)
    /\ currentSub(c).delivered # NoMsg
    /\ id \in {currentSub(c).delivered, NoMsg}

GetDelivered(c, id) ==
    /\ AckId(c, id)
    /\ acknowledges(c, id)
    /\ subs' = [subs EXCEPT ![c][subscriptions[c]].delivered = NoMsg]
    /\ goto(c, "ACK", "delMsg", id, NoMsg, subscriptions[c])
    /\ UNCHANGED <<mqVars, queueRec, connected, subscriptions, sndQ, disc,
                   srvVars, sndVars, env>>

AckNoMsg(c, id) ==
    /\ AckId(c, id)
    /\ ~acknowledges(c, id)
    /\ respond(c, "NO_MSG", NoMsg)
    /\ UNCHANGED <<mqVars, queueRec, subs, connected, subscriptions, sndQ, disc,
                   srvVars, sndVars, env>>

(* Mutant: the next message is given although the acknowledged one is kept. *)
DelPeekMsg_Kept(c) ==
    /\ At(c, "delMsg")
    /\ finish(c, "ACK", IF Len(msgQueue) > 1 THEN msgQueue[2].id ELSE NoMsg, cmd[c].sub)
    /\ UNCHANGED <<mqVars, queueRec, subs, connected, subscriptions, sndQ, disc,
                   srvVars, sndVars, env>>

(* Mutant: no message is given when the acknowledged one is not in the queue. *)
DelPeekMsg_OnlyDeleted(c) ==
    /\ At(c, "delMsg")
    /\ LET id == cmd[c].id
           s == cmd[c].sub
       IN \/ /\ DelMsg(id)
             /\ outcome' = [outcome EXCEPT ![id] = "acked"]
             /\ finish(c, "ACK", IF Len(msgQueue) > 1 THEN msgQueue[2].id ELSE NoMsg, s)
          \/ /\ isEmpty \/ headId # id
             /\ finish(c, "ACK", NoMsg, s)
             /\ UNCHANGED <<mqVars, outcome>>
    /\ UNCHANGED <<queueRec, subs, connected, subscriptions, sndQ, disc,
                   srvVars, sndVars, received, cmds>>

(* tryDelMsg after GET, tryDelPeekMsg after SUB: the message is deleted if it *)
(* is still the head, and the subscriber is given the message that is the     *)
(* head now.                                                                  *)
DelPeekMsg(c) ==
    /\ At(c, "delMsg")
    /\ LET id == cmd[c].id
           s == cmd[c].sub
           peek(q) == IF subs[c][s].thread = "ProhibitSub" \/ q = <<>> THEN NoMsg ELSE Head(q).id
       IN \/ /\ DelMsg(id)
             /\ outcome' = [outcome EXCEPT ![id] = "acked"]
             /\ finish(c, "ACK", peek(Tail(msgQueue)), s)
          \/ /\ isEmpty \/ headId # id
             /\ finish(c, "ACK", peek(msgQueue), s)
             /\ UNCHANGED <<mqVars, outcome>>
    /\ UNCHANGED <<queueRec, subs, connected, subscriptions, sndQ, disc,
                   srvVars, sndVars, received, cmds>>

(* OFF: suspendQueue_ *)
SuspendQueue(c) ==
    /\ Verified(c, "OFF")
    /\ queueRec' = "off"
    /\ respond(c, "OFF", NoMsg)
    /\ Counted
    /\ UNCHANGED <<mqVars, subs, connected, subscriptions, sndQ, disc,
                   srvVars, sndVars, history>>

(* DEL: delQueueAndMsgs.  deleteStoreQueue ... *)
DeleteStoreQueue(c) ==
    /\ Verified(c, "DEL")
    /\ queueRec' = "deleted"
    /\ goto(c, "DEL", "deleteMsgs", NoMsg, NoMsg, NoSubId)
    /\ Counted
    /\ UNCHANGED <<mqVars, subs, connected, subscriptions, sndQ, disc,
                   srvVars, sndVars, history>>

(* ... the messages, in a transaction of their own ... *)
DeleteMsgs(c) ==
    /\ At(c, "deleteMsgs")
    /\ DropQueue
    /\ outcome' = [m \in MsgId |-> IF \E i \in 1..Len(msgQueue) : msgQueue[i].id = m
                                   THEN "dropped" ELSE outcome[m]]
    /\ goto(c, "DEL", "deleteSub", NoMsg, NoMsg, NoSubId)
    /\ UNCHANGED <<queueRec, subs, connected, subscriptions, sndQ, disc,
                   srvVars, sndVars, received, cmds>>

(* ... the subscription of this connection, with its thread ... *)
DeleteSub(c) ==
    /\ At(c, "deleteSub")
    /\ subscriptions' = [subscriptions EXCEPT ![c] = NoSubId]
    /\ cancelSub(c)
    /\ goto(c, "DEL", "writeDeleted", NoMsg, NoMsg, NoSubId)
    /\ UNCHANGED <<mqVars, queueRec, subs, connected, sndQ, disc,
                   srvVars, send, env>>

(* ... and the event that ends the subscription of another connection. *)
WriteDeleted(c) ==
    /\ At(c, "writeDeleted")
    /\ subQ' = Append(subQ, [event |-> "CSDeleted", client |-> c])
    /\ respond(c, "DEL", NoMsg)
    /\ UNCHANGED <<mqVars, queueRec, subs, connected, subscriptions, sndQ, disc,
                   subscriber, subClients, ending, pendingEvents, sndVars, env>>
-----------------------------------------------------------------------------
(* SEND *)

(* receive: the record, with the status that sendMessage checks, is read when *)
(* the command is verified (AUTH if the queue is off or deleted).             *)
VerifySend(p) ==
    /\ send[p].at = "none"
    /\ lastId < MaxSends
    /\ queueRec = "active"
    /\ send' = [send EXCEPT ![p].at = "writeMsg"]
    /\ UNCHANGED <<mqVars, queueRec, subs, connVars, srvVars, deliver, env>>

(* Mutant: delivery is attempted whether the queue was empty or not. *)
SendMessage_Always(p) ==
    /\ send[p].at = "writeMsg"
    /\ \E m \in MsgId :
         /\ WriteMsg(m)
         /\ outcome' = [outcome EXCEPT ![m] = "stored"]
         /\ send' = [send EXCEPT ![p] = [NoSend EXCEPT !.at = "getSubscribed", !.id = m]]
    /\ UNCHANGED <<queueRec, subs, connVars, srvVars, deliver, received, cmds>>

(* sendMessage, writeMsg: OK, and delivery is attempted when the queue was *)
(* empty ...                                                               *)
SendMessage(p) ==
    /\ send[p].at = "writeMsg"
    /\ \E m \in MsgId :
         /\ WriteMsg(m)
         /\ outcome' = [outcome EXCEPT ![m] = "stored"]
         /\ send' = [send EXCEPT ![p] = IF isEmpty
                                        THEN [NoSend EXCEPT !.at = "getSubscribed", !.id = m]
                                        ELSE NoSend]
    /\ UNCHANGED <<queueRec, subs, connVars, srvVars, deliver, received, cmds>>

(* ... or QUOTA. *)
SendQuota(p) ==
    /\ send[p].at = "writeMsg"
    /\ \E m \in MsgId :
         \/ WriteQuota(m) /\ outcome' = [outcome EXCEPT ![m] = "stored"]
         \/ RejectMsg(m) /\ UNCHANGED outcome
    /\ send' = [send EXCEPT ![p] = NoSend]
    /\ UNCHANGED <<queueRec, subs, connVars, srvVars, deliver, received, cmds>>

(* tryDeliverMessage, getSubscribed: the TVar of the subscriber is looked up *)
(* outside of the transaction.                                               *)
GetSubscribed(p) ==
    /\ send[p].at = "getSubscribed"
    /\ send' = [send EXCEPT ![p] = IF subscriber = None
                                   THEN NoSend ELSE [@ EXCEPT !.at = "deliverToSub"]]
    /\ UNCHANGED <<mqVars, queueRec, subs, connVars, srvVars, deliver, env>>

(* The connection that a SEND may push to: subscribed, no message delivered *)
(* and not acknowledged, no thread that is to deliver one.                  *)
deliverable(c) ==
    hasSub(c) /\ currentSub(c).thread = "NoSub" /\ currentSub(c).delivered = NoMsg

push(c, m) == sndQ' = [sndQ EXCEPT ![c] = Append(@, transmission("MSG", m))]

(* deliverToSub *)
DeliverToSub(p) ==
    /\ send[p].at = "deliverToSub"
    /\ deliverable(subscriber)
    /\ LET rc == subscriber
           s == subscriptions[rc]
       IN \/ /\ full(rc)
             /\ subs' = [subs EXCEPT ![rc][s].thread = "SubPending"]
             /\ send' = [send EXCEPT ![p].at = "fork", ![p].rc = rc, ![p].sub = s]
             /\ UNCHANGED sndQ
          \/ /\ ~full(rc)
             /\ push(rc, send[p].id)
             /\ subs' = [subs EXCEPT ![rc][s].delivered = send[p].id]
             /\ send' = [send EXCEPT ![p] = NoSend]
    /\ UNCHANGED <<mqVars, queueRec, connected, subscriptions, cmd, disc,
                   srvVars, deliver, env>>

NotDelivered(p) ==
    /\ \/ send[p].at = "unsubscribed"
       \/ send[p].at = "deliverToSub" /\ ~deliverable(subscriber)
    /\ send' = [send EXCEPT ![p] = NoSend]
    /\ UNCHANGED <<mqVars, queueRec, subs, connVars, srvVars, deliver, env>>

(* forkDeliver: the thread starts, and is then recorded in the Sub. *)
ForkDeliver(p) ==
    /\ send[p].at = "fork"
    /\ deliver' = [deliver EXCEPT ![send[p].id] =
                     [at |-> "getSubscribed", rc |-> send[p].rc, sub |-> send[p].sub]]
    /\ send' = [send EXCEPT ![p].at = "setThread"]
    /\ UNCHANGED <<mqVars, queueRec, subs, connVars, srvVars, env>>

SetSubThread(p) ==
    /\ send[p].at = "setThread"
    /\ subs' = IF subs[send[p].rc][send[p].sub].thread = "SubPending"
               THEN [subs EXCEPT ![send[p].rc][send[p].sub] =
                       [@ EXCEPT !.thread = "SubThread", !.tid = send[p].id]]
               ELSE subs
    /\ send' = [send EXCEPT ![p] = NoSend]
    /\ UNCHANGED <<mqVars, queueRec, connVars, srvVars, deliver, env>>

(* deliverThread *)
ThreadGetSubscribed(m) ==
    /\ deliver[m].at = "getSubscribed"
    /\ deliver' = [deliver EXCEPT ![m] = IF subscriber = None
                                         THEN NoThread ELSE [@ EXCEPT !.at = "deliverIfSame"]]
    /\ UNCHANGED <<mqVars, queueRec, subs, connVars, srvVars, send, env>>

threadSub(m) == subs[deliver[m].rc][deliver[m].sub]

(* deliverIfSame: blocks while sndQ is full. *)
DeliverIfSame(m) ==
    /\ deliver[m].at = "deliverIfSame"
    /\ subscriber = deliver[m].rc
    /\ threadSub(m).delivered = NoMsg
    /\ ~full(subscriber)
    /\ push(subscriber, m)
    /\ subs' = [subs EXCEPT ![deliver[m].rc][deliver[m].sub] =
                  [@ EXCEPT !.delivered = m, !.thread = "NoSub"]]
    /\ deliver' = [deliver EXCEPT ![m] = NoThread]
    /\ UNCHANGED <<mqVars, queueRec, connected, subscriptions, cmd, disc,
                   srvVars, send, env>>

(* Another subscriber, or a message was delivered since: the thread exits, *)
(* and leaves the state of the Sub as it is.                               *)
ThreadExit(m) ==
    /\ \/ deliver[m].at = "unsubscribed"
       \/ /\ deliver[m].at = "deliverIfSame"
          /\ subscriber # deliver[m].rc \/ threadSub(m).delivered # NoMsg
    /\ deliver' = [deliver EXCEPT ![m] = NoThread]
    /\ UNCHANGED <<mqVars, queueRec, subs, connVars, srvVars, send, env>>
-----------------------------------------------------------------------------
(* serverThread *)

(* Mutant: the previous subscriber is told, its Sub stays. *)
endPrevious_OnlyTold(c, evt) ==
    /\ pendingEvents' = IF subscriber \notin {None, c} /\ connected[subscriber]
                        THEN [pendingEvents EXCEPT ![subscriber] = <<evt>> \o @]
                        ELSE pendingEvents
    /\ UNCHANGED ending

(* checkAnotherClient: the previous subscriber, if it is another connection  *)
(* that is still open, is told (pendingEvents) and its Sub is ended next.    *)
endPrevious(c, evt) ==
    IF subscriber \notin {None, c} /\ connected[subscriber]
    THEN /\ pendingEvents' = [pendingEvents EXCEPT ![subscriber] = <<evt>> \o @]
         /\ ending' = subscriber
    ELSE UNCHANGED <<pendingEvents, ending>>

NextEvent(event) == ending = None /\ subQ # <<>> /\ Head(subQ).event = event

(* Mutant: connected is not read in the transaction. *)
UpdateSubscribed_Closed ==
    /\ NextEvent("CSClient")
    /\ LET c == Head(subQ).client IN
       /\ subClients' = subClients \cup {c}
       /\ subscriber' = c
       /\ endPrevious(c, "END")
    /\ subQ' = Tail(subQ)
    /\ UNCHANGED <<mqVars, queueRec, subs, connVars, sndVars, env>>

(* updateSubscribers, the connection is open: it becomes the subscriber. *)
UpdateSubscribed ==
    /\ NextEvent("CSClient")
    /\ LET c == Head(subQ).client IN
       /\ connected[c]
       /\ subClients' = subClients \cup {c}
       /\ subscriber' = c
       /\ endPrevious(c, "END")
    /\ subQ' = Tail(subQ)
    /\ UNCHANGED <<mqVars, queueRec, subs, connVars, sndVars, env>>

(* updateSubscribers, the connection is closed already: it is not stored, but *)
(* the previous subscription ends.                                            *)
UpdateDisconnected ==
    /\ NextEvent("CSClient")
    /\ ~connected[Head(subQ).client]
    /\ endPrevious(Head(subQ).client, "END")
    /\ loseSubscriber(send, deliver)
    /\ subQ' = Tail(subQ)
    /\ UNCHANGED <<mqVars, queueRec, subs, connVars, subClients, env>>

(* updateSubscribers, the queue was deleted by this connection. *)
UpdateDeleted ==
    /\ NextEvent("CSDeleted")
    /\ LET c == Head(subQ).client IN
       /\ subClients' = IF connected[c] /\ ~hasSub(c) THEN subClients \ {c} ELSE subClients
       /\ endPrevious(c, "DELD")
    /\ loseSubscriber(send, deliver)
    /\ subQ' = Tail(subQ)
    /\ UNCHANGED <<mqVars, queueRec, subs, connVars, env>>

(* Mutant: removeWhenNoSubs takes the subscriber for the connection ended. *)
EndSub_Subscriber ==
    /\ ending # None
    /\ subscriptions' = [subscriptions EXCEPT ![ending] = NoSubId]
    /\ subClients' = subClients \ {subscriber}
    /\ cancelSub(ending)
    /\ ending' = None
    /\ UNCHANGED <<mqVars, queueRec, subs, connected, cmd, sndQ, disc,
                   subQ, subscriber, pendingEvents, send, env>>

(* endPreviousSubscriptions: endSub and cancelSub. *)
EndSub ==
    /\ ending # None
    /\ subscriptions' = [subscriptions EXCEPT ![ending] = NoSubId]
    /\ subClients' = subClients \ {ending}
    /\ cancelSub(ending)
    /\ ending' = None
    /\ UNCHANGED <<mqVars, queueRec, subs, connected, cmd, sndQ, disc,
                   subQ, subscriber, pendingEvents, send, env>>

(* sendPendingEvtsThread: the events of a connection go in one transmission; *)
(* those for a closed connection are dropped.  A writer that is blocked on a *)
(* full sndQ waits here.                                                     *)
SendPendingEvts(c) ==
    /\ pendingEvents[c] # <<>>
    /\ \/ /\ connected[c] /\ ~full(c)
          /\ sndQ' = [sndQ EXCEPT ![c] = Append(@, transmission(Head(pendingEvents[c]), NoMsg))]
       \/ ~connected[c] /\ UNCHANGED sndQ
    /\ pendingEvents' = [pendingEvents EXCEPT ![c] = <<>>]
    /\ UNCHANGED <<mqVars, queueRec, subs, connected, subscriptions, cmd, disc,
                   subQ, subscriber, subClients, ending, sndVars, env>>
-----------------------------------------------------------------------------
(* Connections and expiry *)

(* send: a transmission reaches the recipient. *)
Transmit(c) ==
    /\ connected[c]
    /\ sndQ[c] # <<>>
    /\ received' = [received EXCEPT ![c] = @ \cup ({Head(sndQ[c]).msg} \ {NoMsg})]
    /\ sndQ' = [sndQ EXCEPT ![c] = Tail(@)]
    /\ UNCHANGED <<mqVars, queueRec, subs, connected, subscriptions, cmd, disc,
                   srvVars, sndVars, outcome, cmds>>

(* The transport session ends: raceAny_ cancels the threads of the client, *)
(* in the middle of a command too, and clientDisconnected begins.          *)
Disconnect(c) ==
    /\ "DISCONNECT" \in Ops
    /\ connected[c]
    /\ connected' = [connected EXCEPT ![c] = FALSE]
    /\ cmd' = [cmd EXCEPT ![c] = NoCmd]
    /\ sndQ' = [sndQ EXCEPT ![c] = <<>>]
    /\ disc' = [disc EXCEPT ![c] = "swapSubs"]
    /\ UNCHANGED <<mqVars, queueRec, subs, subscriptions, srvVars, sndVars, env>>

(* clientDisconnected: the subscriptions are taken out, their threads killed. *)
SwapSubs(c) ==
    /\ disc[c] = "swapSubs"
    /\ subscriptions' = [subscriptions EXCEPT ![c] = NoSubId]
    /\ cancelSub(c)
    /\ disc' = [disc EXCEPT ![c] = IF hasSub(c) THEN "deleteSubscribed" ELSE "deleteClient"]
    /\ UNCHANGED <<mqVars, queueRec, subs, connected, cmd, sndQ, srvVars, send, env>>

(* updateSubscribers of clientDisconnected: deleteSubcribedClient for each   *)
(* queue in the subscriptions that were taken out, then subClients.          *)
DeleteClient(c) ==
    /\ disc[c] \in {"deleteSubscribed", "deleteClient"}
    /\ IF disc[c] = "deleteSubscribed" /\ subscriber = c
       THEN loseSubscriber(send, deliver)
       ELSE UNCHANGED <<subscriber, send, deliver>>
    /\ subClients' = subClients \ {c}
    /\ disc' = [disc EXCEPT ![c] = "done"]
    /\ UNCHANGED <<mqVars, queueRec, subs, connected, subscriptions, cmd, sndQ,
                   subQ, ending, pendingEvents, env>>

(* expireMessagesThread, or deleteExpiredMsgs on SEND. *)
Expire ==
    /\ "EXPIRE" \in Ops
    /\ \E n \in 1..Len(msgQueue) :
         /\ ExpireMsgs(n)
         /\ outcome' = [m \in MsgId |-> IF \E i \in 1..n : msgQueue[i].id = m
                                        THEN "expired" ELSE outcome[m]]
    /\ UNCHANGED <<queueRec, subs, connVars, srvVars, sndVars, received, cmds>>
-----------------------------------------------------------------------------
Command(c) ==
    \/ PeekSub(c)
    \/ GetSub(c) \/ GetProhibited(c)
    \/ SuspendQueue(c)
    \/ DeleteStoreQueue(c)

Ack(c) == \E id \in MsgId \cup {NoMsg} : GetDelivered(c, id) \/ AckNoMsg(c, id)

ClientStep(c) ==
    \/ SubscribeNew(c) \/ SubscribeAgain(c) \/ SubscribeProhibited(c)
    \/ GetMessage(c)
    \/ DelPeekMsg(c)
    \/ DeleteMsgs(c) \/ DeleteSub(c) \/ WriteDeleted(c)
    \/ SetDelivered(c) \/ Respond(c)

SendStep(p) ==
    \/ SendMessage(p) \/ SendQuota(p)
    \/ GetSubscribed(p) \/ DeliverToSub(p) \/ NotDelivered(p)
    \/ ForkDeliver(p) \/ SetSubThread(p)

ThreadStep(m) == ThreadGetSubscribed(m) \/ DeliverIfSame(m) \/ ThreadExit(m)

ServerStep == UpdateSubscribed \/ UpdateDisconnected \/ UpdateDeleted \/ EndSub

Next ==
    \/ \E c \in Clients :
         \/ Command(c)
         \/ Ack(c)
         \/ ClientStep(c)
         \/ Transmit(c)
         \/ SendPendingEvts(c)
         \/ Disconnect(c) \/ SwapSubs(c) \/ DeleteClient(c)
    \/ \E p \in Senders : VerifySend(p) \/ SendStep(p)
    \/ \E m \in MsgId : ThreadStep(m)
    \/ ServerStep
    \/ Expire

Spec == Init /\ [][Next]_vars

(* Every thread of the server goes on, and a recipient reads what it is sent; *)
(* commands, SENDs, expiry and disconnects may happen or not.                 *)
Fairness ==
    /\ \A c \in Clients :
         /\ WF_vars(ClientStep(c))
         /\ WF_vars(Transmit(c))
         /\ WF_vars(SendPendingEvts(c))
         /\ WF_vars((SwapSubs(c) \/ DeleteClient(c)))
    /\ \A p \in Senders : WF_vars(SendStep(p))
    /\ \A m \in MsgId : WF_vars(ThreadStep(m))
    /\ WF_vars(ServerStep)

(* A recipient that does not stop acknowledging what it receives. *)
Acknowledging ==
    \A c \in Clients, id \in MsgId : SF_vars(GetDelivered(c, id))

FairSpec == Spec /\ Fairness
AckSpec == FairSpec /\ Acknowledging
-----------------------------------------------------------------------------
(* Properties *)

everReceived == UNION {received[c] : c \in Clients}
inQueue(m) == \E i \in 1..Len(msgQueue) : msgQueue[i].id = m

(* However SUB, GET, ACK, SEND, takeover by another connection and delivery  *)
(* threads interleave, the recipient receives messages for the first time in *)
(* the order in which they were sent (each first receipt, on any connection, *)
(* is of a later message than all received before).                          *)
FirstReceiptInOrder ==
    [][\A c \in Clients : \A m \in received'[c] \ everReceived :
          \A k \in everReceived : k < m]_vars

(* "To receive the following message the recipient must acknowledge the      *)
(* reception of the message": of the messages that reached the recipient on  *)
(* any connection, at most one is still in the queue, and it is its head.    *)
OneOutstanding ==
    \A c \in Clients : \A m \in received[c] : inQueue(m) => m = headId

(* The message recorded as delivered in the Sub of a connection is the head  *)
(* of the queue, or is in the queue no more: the ACK that follows can delete *)
(* no message but the one acknowledged, and SEND to an empty queue is held   *)
(* back only while an ACK is due.                                            *)
DeliveredIsHead ==
    \A c \in Clients : hasSub(c) =>
        LET m == currentSub(c).delivered IN m # NoMsg => (m = headId \/ ~inQueue(m))

(* A connection that holds a subscription is the one that SEND delivers to,   *)
(* or serverThread has still to register it or to end its subscription: none  *)
(* is left believing it is subscribed.                                        *)
NoZombieSubscription ==
    \A c \in Clients : isSubscribed(c) /\ connected[c] =>
        \/ subscriber = c
        \/ ending = c
        \/ \E i \in 1..Len(subQ) : subQ[i] = [event |-> "CSClient", client |-> c]

(* A connection is forgotten when clientDisconnected is done, although        *)
(* serverThread may process its SUB at any time: SEND never finds a closed    *)
(* connection, and subClients does not grow.                                  *)
ClosedIsForgotten ==
    \A c \in Clients : disc[c] = "done" /\ queueRec # "deleted" =>
        subscriber # c /\ c \notin subClients /\ ~hasSub(c)

(* A connection that SEND delivers to is in subClients until it closes,       *)
(* whatever takeovers and deletions remove connections from it in             *)
(* transactions of their own (removeWhenNoSubs): disconnectTransport, which   *)
(* closes connections without subscriptions as inactive, spares it            *)
(* (noSubscriptions).                                                         *)
SubscribedIsKept == \A c \in Clients : subscriber = c /\ connected[c] => c \in subClients

(* A command is answered: no client thread waits forever, for its own sndQ    *)
(* or for another thread.                                                     *)
Answered == \A c \in Clients : cmd[c] # NoCmd ~> cmd[c] = NoCmd

(* A subscription that another connection took over ends, with END or DELD,   *)
(* unless the connection closes.                                              *)
TakeoverEnds ==
    \A c \in Clients : isSubscribed(c) /\ subscriber # c
                        ~> ~isSubscribed(c) \/ subscriber = c

(* A recipient that subscribes once, and from then on only acknowledges, is   *)
(* given message after message until the queue is empty, although messages    *)
(* expire under it.                                                           *)
Drained ==
    \A c \in Clients : subscriber = c /\ isSubscribed(c) /\ currentSub(c).delivered # NoMsg
                        ~> isEmpty \/ subscriber # c \/ cmds > 1
-----------------------------------------------------------------------------
(* Statements of the documentation that the code does not meet *)

(* "The first message will be delivered either immediately or as soon as it  *)
(* is available" (protocol/simplex-messaging.md, SUB): a subscriber that has  *)
(* nothing to acknowledge is given the message at the head of the queue.      *)
FirstMessageDelivered ==
    \A c \in Clients :
        subscriber = c /\ isSubscribed(c) /\ currentSub(c).delivered = NoMsg /\ ~isEmpty
        ~> isEmpty \/ subscriber # c \/ (isSubscribed(c) /\ currentSub(c).delivered # NoMsg)

=============================================================================
