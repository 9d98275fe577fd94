----------------------------- MODULE XftpClient -----------------------------
(***************************************************************************)
(* The connection pool and the retries of the XFTP web client              *)
(* (xftp-web/src/client.ts) against the sessions of one XFTP server        *)
(* (Simplex.FileTransfer.Server).                                          *)
(*                                                                         *)
(* Callers send commands through agents.  The code between two awaits runs *)
(* without interruption, and what waits for a promise runs when it settles,*)
(* in the order it was registered: jobs is the microtask queue, and the    *)
(* network, timers and users get their turn only when it is empty.         *)
(*                                                                         *)
(* In Node.js every connection is a TLS connection of its own and closing  *)
(* it makes later posts fail.  In a browser the posts of all agents of a   *)
(* server share the TLS connection of the moment, close does nothing, and  *)
(* after a loss the next post opens a new one.  The server identifies a    *)
(* session by its TLS connection.                                          *)
(***************************************************************************)
EXTENDS Naturals, Sequences, FiniteSets

CONSTANTS
  Caller,        \* callers of sendXFTPCommand for this server
  Agent,         \* XFTPClientAgent objects
  AgentOf,       \* the agent of each caller
  Modes,         \* subset of {"browser", "node"}
  MaxRetries,    \* 3 in the code
  Commands,      \* how many commands each caller sends
  MaxFaults,     \* faults of the network and the server
  Faults,        \* subset of {"timeout", "loss", "badHello", "error"}
  UserCloses     \* BOOLEAN: agents are closed while commands may run

ASSUME ClientConstants ==
  /\ AgentOf \in [Caller -> Agent] /\ Modes \subseteq {"browser", "node"}
  /\ MaxRetries \in Nat \ {0} /\ Commands \in [Caller -> Nat] /\ MaxFaults \in Nat
  /\ UserCloses \in BOOLEAN

VARIABLES
  mode,        \* browser or node
  pool,        \* agent.connections: the connection of an agent, 0 if none
  conn,        \* all connections: their promise and their transport
  reactions,   \* what waits for the promise of a connection, in order
  jobs,        \* the microtask queue
  caller,      \* the state of sendXFTPCommand for each caller
  net,         \* requests under way, with the answer once there is one
  late,        \* requests the client gave up, which may still arrive
  sess,        \* the server's sessions
  tls,         \* the browser's TLS connection of the moment
  shut,        \* agents that were closed
  executed,    \* how often the server executed the command of a caller
  faults

vars == <<mode, pool, conn, reactions, jobs, caller, net, late, sess, tls, shut, executed, faults>>

Conn == DOMAIN conn
NoConn == 0

---------------------------------------------------------------------------
(* Requests.  Connection p posts a hello and a handshake for its agent,    *)
(* then commands of callers.                                               *)

(* In a browser a post goes to the connection of the moment. *)
TlsOf(p) == IF mode = "browser" THEN tls ELSE p

Request(kind, who, p, sid, n) ==
  [kind |-> kind, who |-> who, conn |-> p, sid |-> sid, n |-> n, tls |-> TlsOf(p), answer |-> ""]

---------------------------------------------------------------------------
(* The pool.  New connections are appended to conn; connecting starts with *)
(* the hello.                                                              *)

NewConn(a) == [state |-> "hello", sid |-> 0, agent |-> a, closed |-> FALSE, dead |-> FALSE]

Hello(p, a) == Request("hello", a, p, 0, 0)

(* What settles with a promise: the catch of the pool, a waiting caller,   *)
(* or the close of the transport.                                          *)
CatchJob(p, a) == [do |-> "catch", conn |-> p, who |-> a]
AwaitJob(p, c) == [do |-> "await", conn |-> p, who |-> c]
CloseJob(p, a) == [do |-> "close", conn |-> p, who |-> a]

Settled(p) == conn[p].state \in {"open", "failed"}

(* A reaction added to a promise: a microtask at once when it has settled. *)
Jobs(j) == IF Settled(j.conn) THEN Append(jobs, j) ELSE jobs
Reactions(j) ==
  IF Settled(j.conn) THEN reactions ELSE [reactions EXCEPT ![j.conn] = Append(@, j)]

React(j) == jobs' = Jobs(j) /\ reactions' = Reactions(j)

(* Those of a new connection. *)
FirstReactions(p, a, c) == <<CatchJob(p, a), AwaitJob(p, c)>>

(* getXFTPServerClient: the pooled connection or a new one; the caller     *)
(* waits for it.                                                           *)
GetClient(c) ==
  LET a == AgentOf[c]
      p == IF pool[a] # NoConn THEN pool[a] ELSE Len(conn) + 1
  IN /\ IF pool[a] # NoConn
        THEN /\ React(AwaitJob(p, c))
             /\ UNCHANGED <<pool, conn, net>>
        ELSE /\ conn' = Append(conn, NewConn(a))
             /\ pool' = [pool EXCEPT ![a] = p]
             /\ net' = net \cup {Hello(p, a)}
             /\ reactions' = Append(reactions, FirstReactions(p, a, c))
             /\ UNCHANGED jobs
     /\ caller' = [caller EXCEPT ![c].pc = "await", ![c].conn = p, ![c].attempt = 1,
                                  ![c].left = @ - 1, ![c].result = "none"]

(* reconnectClient: whatever the pool holds is closed once it is open, and *)
(* a new connection takes its place.                                       *)
Reconnect(c, netNow) ==
  LET a == AgentOf[c]
      p == Len(conn) + 1
      old == CloseJob(pool[a], a)
  IN /\ conn' = Append(conn, NewConn(a))
     /\ pool' = [pool EXCEPT ![a] = p]
     /\ net' = netNow \cup {Hello(p, a)}
     /\ jobs' = IF pool[a] = NoConn THEN jobs ELSE Jobs(old)
     /\ reactions' = Append(IF pool[a] = NoConn THEN reactions ELSE Reactions(old),
                            FirstReactions(p, a, c))
     /\ caller' = [caller EXCEPT ![c].pc = "await", ![c].conn = p, ![c].attempt = @ + 1]

Finish(c, result) == caller' = [caller EXCEPT ![c].pc = "idle", ![c].result = result]

(* Mutant: the closed connection stays in the pool. *)
removeStaleConnection_(a, p) ==
  /\ IF pool[a] = p THEN React(CloseJob(p, a)) ELSE UNCHANGED <<jobs, reactions>>
  /\ UNCHANGED pool

(* removeStaleConnection: only if the pool still has the one that failed. *)
removeStaleConnection(a, p) ==
  /\ IF pool[a] = p THEN React(CloseJob(p, a)) ELSE UNCHANGED <<jobs, reactions>>
  /\ pool' = IF pool[a] = p THEN [pool EXCEPT ![a] = NoConn] ELSE pool

(* Mutant: one attempt too many. *)
CommandFails_(c, retriable, netNow) ==
  LET a == AgentOf[c]
      p == caller[c].conn
  IN \/ /\ ~retriable
        /\ Finish(c, "permanent")
        /\ net' = netNow
        /\ UNCHANGED <<pool, conn, reactions, jobs>>
     \/ /\ retriable /\ caller[c].attempt > MaxRetries
        /\ Finish(c, "retriable")
        /\ net' = netNow
        /\ removeStaleConnection(a, p)
        /\ UNCHANGED conn
     \/ /\ retriable /\ caller[c].attempt <= MaxRetries
        /\ Reconnect(c, netNow)

(* The catch of sendXFTPCommand.  A permanent error ends the command, the  *)
(* last retriable one also drops the connection if the pool still has it.  *)
CommandFails(c, retriable, netNow) ==
  LET a == AgentOf[c]
      p == caller[c].conn
  IN \/ /\ ~retriable
        /\ Finish(c, "permanent")
        /\ net' = netNow
        /\ UNCHANGED <<pool, conn, reactions, jobs>>
     \/ /\ retriable /\ caller[c].attempt = MaxRetries
        /\ Finish(c, "retriable")
        /\ net' = netNow
        /\ removeStaleConnection(a, p)
        /\ UNCHANGED conn
     \/ /\ retriable /\ caller[c].attempt < MaxRetries
        /\ Reconnect(c, netNow)

---------------------------------------------------------------------------
(* Microtasks.                                                             *)

(* Mutant: the pool forgets whatever connection it holds. *)
RunCatch_(j) ==
  /\ j.do = "catch"
  /\ pool' = IF conn[j.conn].state = "failed"
             THEN [pool EXCEPT ![j.who] = NoConn] ELSE pool
  /\ UNCHANGED <<conn, caller, net>>

(* The pool forgets a connection that failed, if it still has it. *)
RunCatch(j) ==
  /\ j.do = "catch"
  /\ pool' = IF conn[j.conn].state = "failed" /\ pool[j.who] = j.conn
             THEN [pool EXCEPT ![j.who] = NoConn] ELSE pool
  /\ UNCHANGED <<conn, caller, net>>

RunClose(j) ==
  /\ j.do = "close"
  /\ conn' = IF conn[j.conn].state = "open" THEN [conn EXCEPT ![j.conn].closed = TRUE] ELSE conn
  /\ UNCHANGED <<pool, caller, net>>

(* The caller goes on: a connection that failed ends the command, an open  *)
(* one takes its post.  A post on an HTTP/2 session of Node.js that was    *)
(* lost or closed throws an error that is not retriable.                   *)
RunAwait(j) ==
  LET c == j.who IN
  /\ j.do = "await"
  /\ IF conn[j.conn].state = "failed"
     THEN Finish(c, "connect") /\ UNCHANGED net
     ELSE IF conn[j.conn].dead
     THEN Finish(c, "dead") /\ UNCHANGED net
     ELSE IF conn[j.conn].closed /\ mode = "node"
     THEN Finish(c, "closed") /\ UNCHANGED net
     ELSE /\ caller' = [caller EXCEPT ![c].pc = "posted"]
          /\ net' = net \cup {Request("command", c, j.conn, conn[j.conn].sid, caller[c].left)}
  /\ UNCHANGED <<pool, conn>>

RunJob ==
  /\ jobs # <<>>
  /\ jobs' = Tail(jobs)
  /\ RunCatch(Head(jobs)) \/ RunClose(Head(jobs)) \/ RunAwait(Head(jobs))
  /\ UNCHANGED <<mode, reactions, late, sess, tls, shut, executed, faults>>

---------------------------------------------------------------------------
(* The server.  A session is none, sent or accepted.                       *)

Answer(r) ==
  LET s == IF r.tls \in DOMAIN sess THEN sess[r.tls] ELSE "none"
  IN CASE r.kind = "hello" -> [answer |-> "hello", sess |-> "sent"]
       [] r.kind = "handshake" /\ s = "none" -> [answer |-> "SESSION", sess |-> s]
       [] r.kind = "handshake" /\ s # "none" -> [answer |-> "ok", sess |-> "accepted"]
       [] r.kind = "command" /\ s = "none" -> [answer |-> "SESSION", sess |-> s]
       [] r.kind = "command" /\ s = "sent" -> [answer |-> "HANDSHAKE", sess |-> s]
       [] r.kind = "command" /\ s = "accepted" ->
            [answer |-> IF r.sid = r.tls THEN "ok" ELSE "mismatch", sess |-> s]

(* The request is answered and, if it is a command of this session, executed. *)
Serve(r, answer) ==
  /\ sess' = [t \in DOMAIN sess \cup {r.tls} |-> IF t = r.tls THEN Answer(r).sess ELSE sess[t]]
  /\ executed' = IF r.kind = "command" /\ answer = "ok" /\ r.n = caller[r.who].left
                 THEN [executed EXCEPT ![r.who] = @ + 1] ELSE executed

Fault(f) == f \in Faults /\ faults < MaxFaults /\ faults' = faults + 1

ServerHandles ==
  \E r \in net :
    /\ r.answer = ""
    /\ \/ Serve(r, Answer(r).answer) /\ UNCHANGED faults
          /\ net' = (net \ {r}) \cup {[r EXCEPT !.answer = Answer(r).answer]}
       \/ r.kind = "hello" /\ Fault("badHello") /\ Serve(r, "bad")
          /\ net' = (net \ {r}) \cup {[r EXCEPT !.answer = "bad"]}
       \/ r.kind = "command" /\ Answer(r).answer = "ok" /\ Fault("error") /\ Serve(r, "error")
          /\ net' = (net \ {r}) \cup {[r EXCEPT !.answer = "error"]}
    /\ UNCHANGED <<mode, pool, conn, reactions, jobs, caller, late, tls, shut>>

(* A request the client no longer waits for. *)
ServerHandlesLate ==
  \E r \in late :
    /\ Serve(r, Answer(r).answer)
    /\ late' = late \ {r}
    /\ UNCHANGED <<mode, pool, conn, reactions, jobs, caller, net, tls, shut, faults>>

---------------------------------------------------------------------------
(* Answers, timeouts and losses reach the client.                          *)

(* Mutant: a failed connection is not told to those who wait. *)
Settle_(p, state, sid) ==
  /\ conn' = [conn EXCEPT ![p].state = state, ![p].sid = sid, ![p].closed = (state = "failed")]
  /\ jobs' = IF state = "failed" THEN jobs ELSE jobs \o reactions[p]
  /\ reactions' = [reactions EXCEPT ![p] = <<>>]

(* connectXFTP: after the hello the handshake is posted, after its empty   *)
(* answer the promise resolves; anything else closes the transport and     *)
(* rejects.                                                                *)
Settle(p, state, sid) ==
  /\ conn' = [conn EXCEPT ![p].state = state, ![p].sid = sid, ![p].closed = (state = "failed")]
  /\ jobs' = jobs \o reactions[p]
  /\ reactions' = [reactions EXCEPT ![p] = <<>>]

ConnectStep(p, r) ==
  /\ \/ /\ r.kind = "hello" /\ r.answer = "hello"
        /\ conn' = [conn EXCEPT ![p].state = "handshake", ![p].sid = r.tls]
        /\ net' = (net \ {r}) \cup {Request("handshake", r.who, p, r.tls, 0)}
        /\ UNCHANGED <<jobs, reactions>>
     \/ /\ r.kind = "handshake" /\ r.answer = "ok"
        /\ Settle(p, "open", conn[p].sid)
        /\ net' = net \ {r}
     \/ /\ r.answer \in {"bad", "SESSION"}
        /\ Settle(p, "failed", 0)
        /\ net' = net \ {r}
  /\ UNCHANGED <<pool, caller>>

(* sendXFTPCommandOnce: SESSION and HANDSHAKE as texts are retriable; an   *)
(* answer of another session and any other error are not.                  *)
CommandStep(c, r) ==
  IF r.answer = "ok"
  THEN /\ Finish(c, "ok")
       /\ net' = net \ {r}
       /\ UNCHANGED <<pool, conn, reactions, jobs>>
  ELSE CommandFails(c, r.answer \in {"SESSION", "HANDSHAKE"}, net \ {r})

Deliver(r) ==
  /\ jobs = <<>> /\ r \in net /\ r.answer \notin {"", "lost"}
  /\ IF r.kind = "command" THEN CommandStep(r.who, r) ELSE ConnectStep(r.conn, r)
  /\ UNCHANGED <<mode, late, sess, tls, shut, executed, faults>>

(* The post ended with a network error or a timeout. *)
PostFails(r, retriable, netNow) ==
  IF r.kind = "command"
  THEN CommandFails(r.who, retriable, netNow)
  ELSE Settle(r.conn, "failed", 0) /\ net' = netNow /\ UNCHANGED <<pool, caller>>

Timeout(r) ==
  /\ jobs = <<>> /\ r \in net /\ Fault("timeout")
  /\ PostFails(r, TRUE, net \ {r})
  /\ late' = IF r.answer = "" THEN late \cup {r} ELSE late
  /\ UNCHANGED <<mode, sess, tls, shut, executed>>

(* A TLS connection is lost: the server forgets the session, the posts on  *)
(* it fail one after another, in a browser as a network error (TypeError), *)
(* in Node.js as an error of the stream, which isRetriable does not know.  *)
Lose(t) ==
  /\ Fault("loss") /\ t \in DOMAIN sess /\ sess[t] # "none"
  /\ mode = "browser" => t = tls
  /\ sess' = [sess EXCEPT ![t] = "none"]
  /\ tls' = IF mode = "browser" THEN tls + 1 ELSE tls
  /\ conn' = IF mode = "node" THEN [conn EXCEPT ![t].dead = TRUE] ELSE conn
  /\ net' = {IF r.tls = t THEN [r EXCEPT !.answer = "lost"] ELSE r : r \in net}
  /\ late' = {r \in late : r.tls # t}
  /\ UNCHANGED <<mode, pool, reactions, jobs, caller, shut, executed>>

LossDelivered(r) ==
  /\ jobs = <<>> /\ r \in net /\ r.answer = "lost"
  /\ PostFails(r, mode = "browser", net \ {r})
  /\ UNCHANGED <<mode, late, sess, tls, shut, executed, faults>>

---------------------------------------------------------------------------
(* Users.                                                                  *)

(* sendXFTPCommand is called. *)
Start(c) ==
  /\ jobs = <<>> /\ caller[c].pc = "idle" /\ caller[c].left > 0
  /\ AgentOf[c] \notin shut
  /\ GetClient(c)
  /\ executed' = [executed EXCEPT ![c] = 0]
  /\ UNCHANGED <<mode, late, sess, tls, shut, faults>>

(* closeXFTPAgent, closeXFTPServerClient: the pool is emptied, its connection closed when open. *)
CloseAgent(a) ==
  /\ jobs = <<>> /\ UserCloses /\ a \notin shut
  /\ shut' = shut \cup {a}
  /\ IF pool[a] = NoConn THEN UNCHANGED <<jobs, reactions>> ELSE React(CloseJob(pool[a], a))
  /\ pool' = [pool EXCEPT ![a] = NoConn]
  /\ UNCHANGED <<mode, conn, caller, net, late, sess, tls, executed, faults>>

---------------------------------------------------------------------------
Init ==
  /\ mode \in Modes
  /\ pool = [a \in Agent |-> NoConn]
  /\ conn = <<>> /\ reactions = <<>> /\ jobs = <<>>
  /\ caller = [c \in Caller |-> [pc |-> "idle", conn |-> NoConn, attempt |-> 0,
                                 result |-> "none", left |-> Commands[c]]]
  /\ net = {} /\ late = {} /\ sess = <<>> /\ tls = 1 /\ shut = {}
  /\ executed = [c \in Caller |-> 0] /\ faults = 0

Next ==
  \/ RunJob \/ ServerHandles \/ ServerHandlesLate
  \/ \E r \in net : Deliver(r) \/ Timeout(r) \/ LossDelivered(r)
  \/ \E t \in DOMAIN sess : Lose(t)
  \/ \E c \in Caller : Start(c)
  \/ \E a \in Agent : CloseAgent(a)

(* The event loop runs, the server answers what it gets, and what the      *)
(* network delivers is handled; faults and users are free.                 *)
Fairness ==
  /\ WF_vars(RunJob) /\ WF_vars(ServerHandles)
  /\ WF_vars(\E r \in net : Deliver(r) \/ LossDelivered(r))

Spec == Init /\ [][Next]_vars /\ Fairness

---------------------------------------------------------------------------
(* No command is posted on a connection that the client itself closed:     *)
(* whoever closes a connection takes it out of the pool first, and every   *)
(* caller that got it before posts before the close runs.                  *)
NoPostOnClosed == \A c \in Caller : caller[c].result # "closed"

(* Between tasks of the event loop the pool holds no connection that       *)
(* failed or was closed, and every open connection that nobody closed is   *)
(* the pooled one of its agent, so no session is leaked by callers that    *)
(* reconnect at the same time.                                             *)
PoolIsExact ==
  jobs = <<>> =>
    /\ \A a \in Agent : pool[a] # NoConn =>
         conn[pool[a]].state # "failed" /\ ~conn[pool[a]].closed /\ conn[pool[a]].agent = a
    /\ \A p \in Conn : conn[p].state = "open" /\ ~conn[p].closed => pool[conn[p].agent] = p

(* A command that succeeded was executed by the server, and none is        *)
(* executed more often than sendXFTPCommand may try, late arrivals of      *)
(* attempts that timed out included.                                       *)
ExecutedAsReported ==
  \A c \in Caller : /\ caller[c].result = "ok" => executed[c] >= 1
                    /\ executed[c] <= MaxRetries

(* Every command ends, with a result or an error. *)
CommandEnds == \A c \in Caller : caller[c].pc # "idle" ~> caller[c].pc = "idle"

=============================================================================
