-------------------------- MODULE XftpClientProofs --------------------------
(***************************************************************************)
(* Proofs about the connection pool of the XFTP web client, for any number *)
(* of callers, agents, commands, retries and faults, in Node.js and in a   *)
(* browser:                                                                *)
(*   PoolExact           between tasks the pool is exact: no failed or     *)
(*                       closed connection in it, no open one out of it    *)
(*   NoClosedPost        no command is posted on a connection closed here  *)
(*   ReportsAreTrue      a command that succeeded was executed, and none   *)
(*                       more often than it may be tried                   *)
(***************************************************************************)
EXTENDS XftpClient, SequenceTheorems, FiniteSetTheorems, TLAPS

State == {"hello", "handshake", "open", "failed"}
Connection == [state : State, sid : Nat, agent : Agent, closed : BOOLEAN, dead : BOOLEAN]
Job == [do : {"catch", "await", "close"}, conn : Nat \ {0}, who : Agent \cup Caller]
Results == {"none", "ok", "connect", "dead", "closed", "permanent", "retriable"}
Calling == [pc : {"idle", "await", "posted"}, conn : Nat, attempt : 0..MaxRetries,
            result : Results, left : Nat]
Answers == {"", "hello", "ok", "SESSION", "HANDSHAKE", "mismatch", "bad", "error", "lost"}
Post == [kind : {"hello", "handshake", "command"}, who : Agent \cup Caller, conn : Nat \ {0},
         sid : Nat, n : Nat, tls : Nat, answer : Answers]

(* The variables have the types of the values they stand for.              *)
TypeOK ==
  /\ mode \in {"browser", "node"}
  /\ pool \in [Agent -> Nat]
  /\ conn \in Seq(Connection)
  /\ reactions \in Seq(Seq(Job)) /\ Len(reactions) = Len(conn)
  /\ jobs \in Seq(Job)
  /\ caller \in [Caller -> Calling]
  /\ net \subseteq Post /\ late \subseteq Post
  /\ \A r \in net \cup late : r.conn \in Conn
  /\ sess \in [DOMAIN sess -> {"none", "sent", "accepted"}] /\ DOMAIN sess \subseteq Nat
  /\ tls \in Nat
  /\ executed \in [Caller -> Nat]

(* A promise settles once, its transport is closed no sooner, and every    *)
(* reaction waits for its own promise, as a microtask once it has settled. *)
Promises ==
  /\ \A p \in Conn : conn[p].closed => Settled(p)
  /\ \A p \in Conn : Settled(p) => reactions[p] = <<>>
  /\ \A p \in Conn : \A i \in DOMAIN reactions[p] : reactions[p][i].conn = p
  /\ \A i \in DOMAIN jobs : jobs[i].conn \in Conn /\ Settled(jobs[i].conn)

Idle(q, what, p, a) == \A i \in DOMAIN q : q[i] # [do |-> what, conn |-> p, who |-> a]

(* The pool holds connections of its agents.  One that failed will leave   *)
(* it, and a connection that is closed, or is to be closed, has left it.   *)
Pooled ==
  \A a \in Agent : LET p == pool[a] IN p # NoConn =>
    /\ p \in Conn /\ conn[p].agent = a
    /\ conn[p].state = "failed" => ~Idle(jobs, "catch", p, a)
    /\ ~Settled(p) => ~Idle(reactions[p], "catch", p, a)
    /\ conn[p].closed => conn[p].state = "failed"
    /\ Idle(jobs, "close", p, a) /\ Idle(reactions[p], "close", p, a)

(* A connection that left the pool has failed, is closed, or will be.      *)
Closing ==
  \A p \in Conn : LET a == conn[p].agent IN
    \/ pool[a] = p
    \/ conn[p].state = "failed" \/ conn[p].closed
    \/ ~Idle(jobs, "close", p, a) \/ ~Idle(reactions[p], "close", p, a)

(* Jobs of a connection are of its agent.                                  *)
Owned(q) ==
  \A i \in DOMAIN q : LET j == q[i] IN
    /\ j.do \in {"catch", "close"} => j.who \in Agent /\ j.conn \in Conn /\ conn[j.conn].agent = j.who
    /\ j.do = "await" => j.who \in Caller

(* No caller waits for a connection after its close.                       *)
CloseLast(q) ==
  \A i, k \in DOMAIN q : q[i].do = "close" /\ q[k].do = "await" /\ i < k => q[i].conn # q[k].conn

Ordered ==
  /\ Owned(jobs) /\ CloseLast(jobs)
  /\ \A p \in Conn : Owned(reactions[p]) /\ CloseLast(reactions[p])
  /\ \A i \in DOMAIN jobs : jobs[i].do = "await" =>
       conn[jobs[i].conn].state = "failed" \/ ~conn[jobs[i].conn].closed

(* A connection that is not settled has one request under way at most.     *)
Connecting ==
  /\ \A r \in net : r.kind # "command" => r.conn \in Conn /\ ~Settled(r.conn)
  /\ \A r1, r2 \in net : r1.kind # "command" /\ r2.kind # "command" /\ r1.conn = r2.conn => r1 = r2

PoolInv == Promises /\ Pooled /\ Closing /\ Ordered

(* A caller waits for one promise, or for the answer to one request.       *)
Waits(q) ==
  \A i \in DOMAIN q : q[i].do = "await" =>
    /\ caller[q[i].who].pc = "await" /\ caller[q[i].who].conn = q[i].conn
    /\ \A k \in DOMAIN q : q[k].do = "await" /\ q[k].who = q[i].who => k = i

Waiting == Waits(jobs) /\ \A p \in Conn : Waits(reactions[p])

Posting ==
  /\ \A c \in Caller : caller[c].pc # "idle" => caller[c].conn \in Conn
  /\ \A r \in net : r.kind = "command" =>
       /\ r.who \in Caller
       /\ caller[r.who].pc = "posted" /\ r.n = caller[r.who].left /\ r.conn = caller[r.who].conn
       /\ r.answer = "ok" => executed[r.who] >= 1
  /\ \A r1, r2 \in net : r1.kind = "command" /\ r2.kind = "command" /\ r1.who = r2.who => r1 = r2
  /\ \A r \in late : r.answer = ""
  /\ \A r \in late : r.kind = "command" =>
       /\ r.who \in Caller
       /\ r.n >= caller[r.who].left
       /\ r.n = caller[r.who].left /\ caller[r.who].pc # "idle" => r.conn # caller[r.who].conn

(* The requests of a command that the server may still execute, and how    *)
(* often it was posted.                                                    *)
Unserved(c) ==
  {r \in net \cup late : r.kind = "command" /\ r.who = c /\ r.n = caller[c].left /\ r.answer = ""}
Posts(c) == IF caller[c].pc = "await" THEN caller[c].attempt - 1 ELSE caller[c].attempt

CountedOf(c) ==
  /\ caller[c].pc # "idle" => caller[c].attempt >= 1
  /\ IsFiniteSet(Unserved(c))
  /\ executed[c] + Cardinality(Unserved(c)) <= Posts(c)
  /\ caller[c].result = "ok" => executed[c] >= 1

Counted == \A c \in Caller : CountedOf(c)

IInv == TypeOK /\ PoolInv /\ Connecting /\ NoPostOnClosed /\ Waiting /\ Posting /\ Counted
-----------------------------------------------------------------------------
(* Sequences of jobs *)

(* The jobs behind the first.                                              *)
LEMMA TailFacts ==
  ASSUME NEW q \in Seq(Job), q # <<>>
  PROVE  /\ Tail(q) \in Seq(Job) /\ Head(q) = q[1] /\ 1 \in DOMAIN q /\ q[1] \in Job
         /\ \A i \in DOMAIN Tail(q) : i \in Nat \ {0} /\ i + 1 \in DOMAIN q /\ Tail(q)[i] = q[i + 1]
         /\ \A i \in DOMAIN q : i # 1 => i - 1 \in DOMAIN Tail(q) /\ Tail(q)[i - 1] = q[i]
  <1>1. /\ Len(q) \in Nat \ {0} /\ DOMAIN q = 1..Len(q)
        /\ \A i \in 1..Len(q) : q[i] \in Job
    BY LenProperties, EmptySeq, ElementOfSeq
  <1>2. /\ Tail(q) \in Seq(Job) /\ Len(Tail(q)) = Len(q) - 1 /\ DOMAIN Tail(q) = 1..Len(Tail(q))
        /\ \A i \in 1..Len(Tail(q)) : Tail(q)[i] = q[i + 1]
    BY HeadTailProperties, LenProperties
  <1>3. Head(q) = q[1] /\ 1 \in DOMAIN q
    BY <1>1
  <1> QED BY <1>1, <1>2, <1>3

(* A job at the end.                                                       *)
LEMMA AppendFacts ==
  ASSUME NEW q \in Seq(Job), NEW j \in Job
  PROVE  /\ Append(q, j) \in Seq(Job)
         /\ DOMAIN Append(q, j) = DOMAIN q \cup {Len(q) + 1}
         /\ Append(q, j)[Len(q) + 1] = j
         /\ \A i \in DOMAIN q : i \in Nat /\ i < Len(q) + 1 /\ Append(q, j)[i] = q[i]
  <1>1. Len(q) \in Nat /\ DOMAIN q = 1..Len(q)
    BY LenProperties
  <1>2. /\ Append(q, j) \in Seq(Job) /\ Len(Append(q, j)) = Len(q) + 1
        /\ Append(q, j)[Len(q) + 1] = j /\ \A i \in 1..Len(q) : Append(q, j)[i] = q[i]
    OBVIOUS
  <1>3. DOMAIN Append(q, j) = 1..(Len(q) + 1)
    BY <1>2, LenProperties
  <1> QED BY <1>1, <1>2, <1>3

(* Connections, their reactions and the callers, one by one.               *)
LEMMA Facts ==
  ASSUME TypeOK
  PROVE  /\ Conn = 1..Len(conn) /\ Len(conn) \in Nat /\ DOMAIN reactions = Conn
         /\ NoConn \notin Conn /\ Conn \subseteq Nat \ {0}
         /\ \A p \in Conn : conn[p] \in Connection /\ reactions[p] \in Seq(Job)
         /\ \A i \in DOMAIN jobs : jobs[i] \in Job
         /\ \A p \in Conn : \A i \in DOMAIN reactions[p] : reactions[p][i] \in Job
         /\ <<>> \in Seq(Job) /\ DOMAIN <<>> = {}
  <1>1. /\ Conn = 1..Len(conn) /\ Len(conn) \in Nat
        /\ \A p \in 1..Len(conn) : conn[p] \in Connection
    BY LenProperties, ElementOfSeq DEF TypeOK, Conn
  <1>2. DOMAIN reactions = Conn /\ \A p \in Conn : reactions[p] \in Seq(Job)
    BY <1>1, LenProperties, ElementOfSeq DEF TypeOK
  <1>3. \A q \in Seq(Job) : \A i \in DOMAIN q : q[i] \in Job
    BY LenProperties, ElementOfSeq
  <1>4. NoConn \notin Conn /\ Conn \subseteq Nat \ {0}
    BY <1>1 DEF NoConn
  <1>5. <<>> \in Seq(Job) /\ DOMAIN <<>> = {}
    BY EmptySeq, LenProperties
  <1> QED BY <1>1, <1>2, <1>3, <1>4, <1>5 DEF TypeOK

(* What a new reaction makes of reactions and jobs.                        *)
LEMMA ReactFacts ==
  ASSUME TypeOK, NEW j \in Job, j.conn \in Conn
  PROVE  /\ Jobs(j) \in Seq(Job)
         /\ Reactions(j) \in Seq(Seq(Job)) /\ Len(Reactions(j)) = Len(reactions)
         /\ \A p \in Conn : Reactions(j)[p] =
               IF p = j.conn /\ ~Settled(p) THEN Append(reactions[p], j) ELSE reactions[p]
  <1>1. Jobs(j) \in Seq(Job)
    BY AppendFacts DEF Jobs, TypeOK
  <1>2. CASE Settled(j.conn)
    BY <1>1, <1>2 DEF Reactions, TypeOK
  <1>3. CASE ~Settled(j.conn)
    <2>1. Append(reactions[j.conn], j) \in Seq(Job) /\ j.conn \in 1..Len(reactions)
      BY Facts, AppendFacts DEF TypeOK
    <2>2. reactions \in Seq(Seq(Job)) /\ Conn = 1..Len(reactions)
      BY Facts DEF TypeOK
    <2>3. /\ [reactions EXCEPT ![j.conn] = Append(reactions[j.conn], j)] \in Seq(Seq(Job))
          /\ Len([reactions EXCEPT ![j.conn] = Append(reactions[j.conn], j)]) = Len(reactions)
          /\ \A p \in 1..Len(reactions) : [reactions EXCEPT ![j.conn] = Append(reactions[j.conn], j)][p]
                 = IF p = j.conn THEN Append(reactions[j.conn], j) ELSE reactions[p]
      BY <2>1, <2>2, ExceptSeq
    <2> QED BY <1>1, <1>3, <2>2, <2>3 DEF Reactions
  <1> QED BY <1>2, <1>3

(* A connection that is changed in place.                                  *)
LEMMA ConnFacts ==
  ASSUME TypeOK, NEW p \in Conn, NEW new \in Connection, conn' = [conn EXCEPT ![p] = new]
  PROVE  /\ conn' \in Seq(Connection) /\ Len(conn') = Len(conn) /\ Conn' = Conn
         /\ \A x \in Conn : conn'[x] = IF x = p THEN new ELSE conn[x]
  <1>1. conn \in Seq(Connection) /\ p \in 1..Len(conn) /\ Conn = 1..Len(conn)
    BY Facts DEF TypeOK
  <1>2. /\ conn' \in Seq(Connection) /\ Len(conn') = Len(conn)
        /\ \A x \in Conn : conn'[x] = IF x = p THEN new ELSE conn[x]
    BY <1>1, ExceptSeq
  <1> QED BY <1>1, <1>2, LenProperties DEF Conn

(* A new connection.                                                       *)
LEMMA NewFacts ==
  ASSUME TypeOK, NEW a \in Agent, conn' = Append(conn, NewConn(a))
  PROVE  /\ conn' \in Seq(Connection) /\ Len(conn') = Len(conn) + 1
         /\ Conn' = Conn \cup {Len(conn) + 1} /\ Len(conn) + 1 \notin Conn
         /\ \A x \in Conn : conn'[x] = conn[x]
         /\ conn'[Len(conn) + 1] = NewConn(a)
  <1>1. NewConn(a) \in Connection
    BY DEF NewConn, Connection, State
  <1>2. conn \in Seq(Connection) /\ Conn = 1..Len(conn) /\ Len(conn) \in Nat
    BY Facts DEF TypeOK
  <1>3. /\ conn' \in Seq(Connection) /\ Len(conn') = Len(conn) + 1
        /\ conn'[Len(conn) + 1] = NewConn(a) /\ \A x \in 1..Len(conn) : conn'[x] = conn[x]
    BY <1>1, <1>2
  <1>4. Conn' = 1..(Len(conn) + 1)
    BY <1>3, LenProperties DEF Conn
  <1> QED BY <1>2, <1>3, <1>4

-----------------------------------------------------------------------------
(* The pool *)

(* Nothing but the progress of a handshake, or a loss.                     *)
LEMMA PoolKept ==
  ASSUME TypeOK, PoolInv, UNCHANGED <<pool, reactions, jobs>>, Conn' = Conn,
         \A x \in Conn : /\ conn'[x].agent = conn[x].agent /\ conn'[x].closed = conn[x].closed
                         /\ \/ conn'[x].state = conn[x].state
                            \/ conn[x].state \in {"hello", "handshake"}
                               /\ conn'[x].state \in {"hello", "handshake"}
  PROVE  PoolInv'
  <1>1. \A x \in Conn : Settled(x)' <=> Settled(x)
    BY DEF Settled
  <1>2. Promises'
    BY <1>1 DEF PoolInv, Promises
  <1>3. Pooled'
    BY <1>1 DEF PoolInv, Pooled, Idle
  <1>4. Closing'
    BY <1>1 DEF PoolInv, Closing, Idle
  <1>5. Ordered'
    BY <1>1, Facts DEF PoolInv, Promises, Ordered, Owned, CloseLast
  <1> QED BY <1>2, <1>3, <1>4, <1>5 DEF PoolInv

(* A promise settles: its reactions become the microtasks.                 *)
LEMMA SettleFacts ==
  ASSUME TypeOK, jobs = <<>>, NEW p \in Conn, NEW state \in {"open", "failed"}, NEW sid \in Nat,
         Settle(p, state, sid)
  PROVE  /\ conn' \in Seq(Connection) /\ Len(conn') = Len(conn) /\ Conn' = Conn
         /\ conn'[p].state = state /\ conn'[p].closed = (state = "failed")
         /\ conn'[p].agent = conn[p].agent
         /\ \A x \in Conn : x # p => conn'[x] = conn[x]
         /\ jobs' = reactions[p] /\ jobs' \in Seq(Job)
         /\ reactions' \in Seq(Seq(Job)) /\ Len(reactions') = Len(reactions)
         /\ reactions'[p] = <<>> /\ \A x \in Conn : x # p => reactions'[x] = reactions[x]
  <1> DEFINE new == [conn[p] EXCEPT !.state = state, !.sid = sid, !.closed = (state = "failed")]
  <1>1. conn[p] \in Connection
    BY Facts
  <1>2. /\ new \in Connection /\ new.state = state /\ new.closed = (state = "failed")
        /\ new.agent = conn[p].agent
    BY <1>1 DEF Connection, State
  <1>3. conn' = [conn EXCEPT ![p] = new]
    BY DEF Settle
  <1>4. /\ conn' \in Seq(Connection) /\ Len(conn') = Len(conn) /\ Conn' = Conn
        /\ \A x \in Conn : conn'[x] = IF x = p THEN new ELSE conn[x]
    <2> HIDE DEF new
    <2> QED BY <1>2, <1>3, ConnFacts
  <1>5. jobs' = reactions[p] /\ reactions[p] \in Seq(Job)
    BY Facts, ConcatEmptySeq DEF Settle
  <1>6. p \in 1..Len(reactions) /\ Conn = 1..Len(reactions) /\ <<>> \in Seq(Job) /\ reactions \in Seq(Seq(Job))
    BY Facts DEF TypeOK
  <1>7. /\ reactions' \in Seq(Seq(Job)) /\ Len(reactions') = Len(reactions)
        /\ \A x \in Conn : reactions'[x] = IF x = p THEN <<>> ELSE reactions[x]
    BY <1>6, ExceptSeq DEF Settle
  <1> QED BY <1>2, <1>4, <1>5, <1>7

(* A promise that settles hands its reactions to the microtasks.           *)
LEMMA PoolSettles ==
  ASSUME TypeOK, PoolInv, jobs = <<>>, NEW p \in Conn, ~Settled(p),
         NEW state \in {"open", "failed"}, NEW sid \in Nat,
         Settle(p, state, sid), UNCHANGED pool
  PROVE  PoolInv'
  <1>1. /\ Conn' = Conn
        /\ conn'[p].state = state /\ conn'[p].closed = (state = "failed")
        /\ conn'[p].agent = conn[p].agent
        /\ \A x \in Conn : x # p => conn'[x] = conn[x]
        /\ jobs' = reactions[p]
        /\ reactions'[p] = <<>> /\ \A x \in Conn : x # p => reactions'[x] = reactions[x]
    BY SettleFacts
  <1>2. /\ \A x \in Conn : x # p => (Settled(x)' <=> Settled(x))
        /\ p \in Conn' /\ conn'[p].state \in {"open", "failed"}
        /\ conn[p].state \notin {"open", "failed"} /\ ~conn[p].closed
    BY <1>1 DEF Settled, PoolInv, Promises
  <1>3. DOMAIN jobs = {} /\ DOMAIN <<>> = {} /\ NoConn \notin Conn
    BY Facts
  <1>4. Promises'
    BY <1>1, <1>2, <1>3 DEF PoolInv, Promises, Settled
  <1>5. Pooled'
    <2> SUFFICES ASSUME NEW a \in Agent, pool[a] # NoConn
                 PROVE  /\ pool[a] \in Conn /\ conn'[pool[a]].agent = a
                        /\ conn'[pool[a]].state = "failed" => ~Idle(jobs', "catch", pool[a], a)
                        /\ ~(conn'[pool[a]].state \in {"open", "failed"})
                              => ~Idle(reactions'[pool[a]], "catch", pool[a], a)
                        /\ conn'[pool[a]].closed => conn'[pool[a]].state = "failed"
                        /\ Idle(jobs', "close", pool[a], a)
                        /\ Idle(reactions'[pool[a]], "close", pool[a], a)
      BY <1>1 DEF Pooled, Settled
    <2>1. /\ pool[a] \in Conn /\ conn[pool[a]].agent = a
          /\ conn[pool[a]].state # "failed"
          /\ ~Settled(pool[a]) => ~Idle(reactions[pool[a]], "catch", pool[a], a)
          /\ conn[pool[a]].closed => conn[pool[a]].state = "failed"
          /\ Idle(reactions[pool[a]], "close", pool[a], a)
      BY <1>3 DEF PoolInv, Pooled, Idle
    <2>2. CASE pool[a] = p
      BY <1>1, <1>2, <1>3, <2>1, <2>2 DEF Idle
    <2>3. CASE pool[a] # p
      <3>1. Idle(reactions[p], "close", pool[a], a)
        BY <2>3 DEF PoolInv, Promises, Idle
      <3> QED BY <1>1, <1>2, <2>1, <2>3, <3>1 DEF Settled
    <2> QED BY <2>2, <2>3
  <1>6. Closing'
    BY <1>1, <1>2, <1>3 DEF PoolInv, Closing, Idle
  <1>7. Ordered'
    <2>1. Owned(jobs)' /\ \A x \in Conn : Owned(reactions[x])'
      BY <1>1, <1>2, <1>3 DEF PoolInv, Ordered, Owned
    <2>2. CloseLast(jobs)' /\ \A x \in Conn : CloseLast(reactions[x])'
      BY <1>1, <1>2, <1>3 DEF PoolInv, Ordered, CloseLast
    <2>3. \A i \in DOMAIN jobs' : jobs'[i].conn = p
      BY <1>1 DEF PoolInv, Promises
    <2> QED BY <1>1, <2>1, <2>2, <2>3 DEF Ordered
  <1> QED BY <1>4, <1>5, <1>6, <1>7 DEF PoolInv

(* The pooled connection of an agent, if any, waits for no close.          *)
LEMMA NoClose ==
  ASSUME TypeOK, PoolInv, NEW a \in Agent, pool[a] # NoConn
  PROVE  /\ pool[a] \in Conn /\ conn[pool[a]].agent = a
         /\ \A i \in DOMAIN reactions[pool[a]] : reactions[pool[a]][i].do # "close"
         /\ \A i \in DOMAIN jobs : jobs[i].do = "close" => jobs[i].conn # pool[a]
  <1>1. pool[a] \in Conn /\ conn[pool[a]].agent = a
    BY DEF PoolInv, Pooled
  <1>2. \A j \in Job : j = [do |-> j.do, conn |-> j.conn, who |-> j.who]
    BY DEF Job
  <1>3. ASSUME NEW i \in DOMAIN reactions[pool[a]] PROVE reactions[pool[a]][i].do # "close"
    <2>1. reactions[pool[a]][i] \in Job /\ reactions[pool[a]][i].conn = pool[a]
      BY <1>1, <1>3, Facts DEF PoolInv, Promises
    <2>2. reactions[pool[a]][i].do = "close" => reactions[pool[a]][i].who = a
      BY <1>1, <1>3, <2>1 DEF PoolInv, Ordered, Owned
    <2> QED BY ZenonT(30), <1>2, <1>3, <2>1, <2>2 DEF PoolInv, Pooled, Idle
  <1>4. ASSUME NEW i \in DOMAIN jobs, jobs[i].do = "close" PROVE jobs[i].conn # pool[a]
    <2>1. jobs[i] \in Job
      BY <1>4, Facts
    <2>2. jobs[i].conn = pool[a] => jobs[i].who = a
      BY <1>1, <1>4 DEF PoolInv, Ordered, Owned
    <2> QED BY ZenonT(30), <1>2, <1>4, <2>1, <2>2 DEF PoolInv, Pooled, Idle
  <1> QED BY <1>1, <1>3, <1>4

(* A reaction that is added between tasks keeps the order.                 *)
LEMMA ReactOrder ==
  ASSUME TypeOK, PoolInv, jobs = <<>>, NEW j \in Job, j.conn \in Conn,
         j.do \in {"catch", "close"} => j.who \in Agent /\ conn[j.conn].agent = j.who,
         j.do = "await" => /\ j.who \in Caller
                           /\ \A i \in DOMAIN reactions[j.conn] : reactions[j.conn][i].do # "close"
  PROVE  /\ \A i \in DOMAIN Jobs(j) : Jobs(j)[i] = j /\ i = 1 /\ Settled(j.conn)
         /\ Settled(j.conn) => ~Idle(Jobs(j), j.do, j.conn, j.who)
         /\ Owned(Jobs(j)) /\ CloseLast(Jobs(j))
         /\ \A p \in Conn : /\ Settled(p) => Reactions(j)[p] = <<>>
                            /\ \A i \in DOMAIN Reactions(j)[p] : Reactions(j)[p][i].conn = p
                            /\ Owned(Reactions(j)[p]) /\ CloseLast(Reactions(j)[p])
                            /\ \A what, a : j # [do |-> what, conn |-> p, who |-> a]
                                  => (Idle(Reactions(j)[p], what, p, a) <=> Idle(reactions[p], what, p, a))
         /\ ~Settled(j.conn) => ~Idle(Reactions(j)[j.conn], j.do, j.conn, j.who)
  <1>1. j = [do |-> j.do, conn |-> j.conn, who |-> j.who]
    BY DEF Job
  <1>2. \A i \in DOMAIN Jobs(j) : Jobs(j)[i] = j /\ i = 1 /\ Settled(j.conn)
    BY Facts, AppendFacts, EmptySeq DEF Jobs, TypeOK
  <1>3. Settled(j.conn) => 1 \in DOMAIN Jobs(j) /\ Jobs(j)[1] = j
    BY Facts, AppendFacts, EmptySeq DEF Jobs, TypeOK
  <1>4. Owned(Jobs(j)) /\ CloseLast(Jobs(j))
    BY <1>2 DEF Owned, CloseLast
  <1>5. ASSUME NEW p \in Conn, p # j.conn \/ Settled(p)
        PROVE  /\ Reactions(j)[p] = reactions[p]
               /\ Settled(p) => Reactions(j)[p] = <<>>
               /\ \A i \in DOMAIN Reactions(j)[p] : Reactions(j)[p][i].conn = p
               /\ Owned(Reactions(j)[p]) /\ CloseLast(Reactions(j)[p])
    BY <1>5, ReactFacts DEF PoolInv, Promises, Ordered
  <1>6. ASSUME ~Settled(j.conn)
        PROVE  LET q == Reactions(j)[j.conn] IN
               /\ \A i \in DOMAIN q : q[i].conn = j.conn
               /\ Owned(q) /\ CloseLast(q)
               /\ \E i \in DOMAIN q : q[i] = j
               /\ \A what, a : j # [do |-> what, conn |-> j.conn, who |-> a]
                     => (Idle(q, what, j.conn, a) <=> Idle(reactions[j.conn], what, j.conn, a))
    <2> DEFINE was == reactions[j.conn]
    <2>1. was \in Seq(Job) /\ Reactions(j)[j.conn] = Append(was, j)
      BY <1>6, Facts, ReactFacts
    <2>2. /\ \A i \in DOMAIN was : was[i].conn = j.conn
          /\ Owned(was) /\ CloseLast(was)
          /\ j.do = "await" => \A i \in DOMAIN was : was[i].do # "close"
      BY DEF PoolInv, Promises, Ordered
    <2> HIDE DEF was
    <2>3. /\ DOMAIN Append(was, j) = DOMAIN was \cup {Len(was) + 1}
          /\ Append(was, j)[Len(was) + 1] = j /\ Len(was) \in Nat
          /\ \A i \in DOMAIN was : i \in Nat /\ i < Len(was) + 1 /\ Append(was, j)[i] = was[i]
      BY <2>1, AppendFacts, LenProperties
    <2>4. \A i \in DOMAIN Append(was, j) : Append(was, j)[i].conn = j.conn
      BY <2>2, <2>3
    <2>5. Owned(Append(was, j))
      BY <2>2, <2>3 DEF Owned
    <2>6. CloseLast(Append(was, j))
      <3> SUFFICES ASSUME NEW i \in DOMAIN Append(was, j), NEW k \in DOMAIN Append(was, j),
                          Append(was, j)[i].do = "close", Append(was, j)[k].do = "await", i < k
                   PROVE  Append(was, j)[i].conn # Append(was, j)[k].conn
        BY DEF CloseLast
      <3>1. i \in DOMAIN was
        BY <2>3
      <3>2. CASE k \in DOMAIN was
        BY <2>2, <2>3, <3>1, <3>2 DEF CloseLast
      <3>3. CASE k = Len(was) + 1
        BY <2>2, <2>3, <3>1, <3>3
      <3> QED BY <2>3, <3>2, <3>3
    <2>7. \A what, a : j # [do |-> what, conn |-> j.conn, who |-> a]
             => (Idle(Append(was, j), what, j.conn, a) <=> Idle(was, what, j.conn, a))
      BY <2>3 DEF Idle
    <2> QED BY <2>1, <2>3, <2>4, <2>5, <2>6, <2>7 DEF was
  <1>7. Settled(j.conn) => ~Idle(Jobs(j), j.do, j.conn, j.who)
    BY <1>1, <1>3 DEF Idle
  <1>8. ~Settled(j.conn) => ~Idle(Reactions(j)[j.conn], j.do, j.conn, j.who)
    BY <1>1, <1>6 DEF Idle
  <1> QED BY <1>2, <1>4, <1>5, <1>6, <1>7, <1>8

(* A caller waits for the pooled connection of its agent.                  *)
LEMMA PoolJoined ==
  ASSUME TypeOK, PoolInv, jobs = <<>>, NEW a \in Agent, pool[a] # NoConn, NEW c \in Caller,
         React(AwaitJob(pool[a], c)), UNCHANGED <<pool, conn>>
  PROVE  PoolInv'
  <1> DEFINE j == AwaitJob(pool[a], c)
  <1>1. /\ j \in Job /\ j.conn = pool[a] /\ j.do = "await" /\ j.who = c /\ pool[a] \in Conn
        /\ \A i \in DOMAIN reactions[pool[a]] : reactions[pool[a]][i].do # "close"
        /\ \A p, b : j # [do |-> "close", conn |-> p, who |-> b] /\ j # [do |-> "catch", conn |-> p, who |-> b]
    BY Facts, NoClose DEF AwaitJob, Job
  <1>2. jobs' = Jobs(j) /\ reactions' = Reactions(j)
    BY DEF React
  <1> HIDE DEF j
  <1>3. /\ \A i \in DOMAIN Jobs(j) : Jobs(j)[i] = j /\ Settled(j.conn)
        /\ Owned(Jobs(j)) /\ CloseLast(Jobs(j))
        /\ \A p \in Conn : /\ Settled(p) => Reactions(j)[p] = <<>>
                           /\ \A i \in DOMAIN Reactions(j)[p] : Reactions(j)[p][i].conn = p
                           /\ Owned(Reactions(j)[p]) /\ CloseLast(Reactions(j)[p])
                           /\ \A what, b : j # [do |-> what, conn |-> p, who |-> b]
                                => (Idle(Reactions(j)[p], what, p, b) <=> Idle(reactions[p], what, p, b))
    BY SMTT(30), <1>1, ReactOrder
  <1>4. Conn' = Conn /\ \A p \in Conn : Settled(p)' <=> Settled(p)
    BY DEF Conn, Settled
  <1>5. DOMAIN jobs = {}
    BY Facts
  <1>6. Promises'
    BY <1>1, <1>2, <1>3, <1>4 DEF PoolInv, Promises
  <1>7. Pooled'
    <2> SUFFICES ASSUME NEW b \in Agent, pool[b] # NoConn
                 PROVE  /\ pool[b] \in Conn /\ conn[pool[b]].agent = b
                        /\ conn[pool[b]].state # "failed"
                        /\ ~Settled(pool[b]) => ~Idle(Reactions(j)[pool[b]], "catch", pool[b], b)
                        /\ conn[pool[b]].closed => conn[pool[b]].state = "failed"
                        /\ Idle(Jobs(j), "close", pool[b], b)
                        /\ Idle(Reactions(j)[pool[b]], "close", pool[b], b)
      BY <1>2, <1>4 DEF Pooled
    <2>1. /\ pool[b] \in Conn /\ conn[pool[b]].agent = b
          /\ conn[pool[b]].state # "failed"
          /\ ~Settled(pool[b]) => ~Idle(reactions[pool[b]], "catch", pool[b], b)
          /\ conn[pool[b]].closed => conn[pool[b]].state = "failed"
          /\ Idle(reactions[pool[b]], "close", pool[b], b)
      BY <1>5 DEF PoolInv, Pooled, Idle
    <2>2. Idle(Jobs(j), "close", pool[b], b)
      BY <1>1, <1>3 DEF Idle
    <2> QED BY <1>1, <1>3, <2>1, <2>2
  <1>8. Closing'
    <2> SUFFICES ASSUME NEW p \in Conn
                 PROVE  \/ pool[conn[p].agent] = p
                        \/ conn[p].state = "failed" \/ conn[p].closed
                        \/ ~Idle(Reactions(j)[p], "close", p, conn[p].agent)
      BY <1>2, <1>4 DEF Closing
    <2>1. Idle(jobs, "close", p, conn[p].agent)
      BY <1>5 DEF Idle
    <2> QED BY <1>1, <1>3, <2>1 DEF PoolInv, Closing
  <1>9. Ordered'
    <2>1. conn[pool[a]].state = "failed" \/ ~conn[pool[a]].closed
      BY DEF PoolInv, Pooled
    <2>2. Owned(jobs)' /\ \A p \in Conn : Owned(reactions[p])'
      BY <1>2, <1>3, <1>4 DEF Owned
    <2>3. CloseLast(jobs)' /\ \A p \in Conn : CloseLast(reactions[p])'
      BY <1>2, <1>3 DEF CloseLast
    <2> QED BY <1>1, <1>2, <1>3, <1>4, <2>1, <2>2, <2>3 DEF Ordered
  <1> QED BY <1>6, <1>7, <1>8, <1>9 DEF PoolInv

(* The pooled connection of an agent leaves the pool and will be closed.   *)
LEMMA PoolRetired ==
  ASSUME TypeOK, PoolInv, jobs = <<>>, NEW a \in Agent, pool[a] # NoConn,
         React(CloseJob(pool[a], a)), pool' = [pool EXCEPT ![a] = NoConn], UNCHANGED conn
  PROVE  PoolInv'
  <1> DEFINE j == CloseJob(pool[a], a)
  <1>1. /\ j \in Job /\ j.conn = pool[a] /\ j.do = "close" /\ j.who = a
        /\ pool[a] \in Conn /\ conn[pool[a]].agent = a
        /\ j = [do |-> "close", conn |-> pool[a], who |-> a]
    BY Facts, NoClose DEF CloseJob, Job
  <1>2. jobs' = Jobs(j) /\ reactions' = Reactions(j)
    BY DEF React
  <1> HIDE DEF j
  <1>3. /\ \A i \in DOMAIN Jobs(j) : Jobs(j)[i] = j /\ Settled(j.conn)
        /\ Settled(j.conn) => ~Idle(Jobs(j), j.do, j.conn, j.who)
        /\ Owned(Jobs(j)) /\ CloseLast(Jobs(j))
        /\ \A p \in Conn : /\ Settled(p) => Reactions(j)[p] = <<>>
                           /\ \A i \in DOMAIN Reactions(j)[p] : Reactions(j)[p][i].conn = p
                           /\ Owned(Reactions(j)[p]) /\ CloseLast(Reactions(j)[p])
                           /\ \A what, b : j # [do |-> what, conn |-> p, who |-> b]
                                => (Idle(Reactions(j)[p], what, p, b) <=> Idle(reactions[p], what, p, b))
        /\ ~Settled(j.conn) => ~Idle(Reactions(j)[j.conn], j.do, j.conn, j.who)
    BY <1>1, ReactOrder
  <1>4. Conn' = Conn /\ \A p \in Conn : Settled(p)' <=> Settled(p)
    BY DEF Conn, Settled
  <1>5. DOMAIN jobs = {} /\ pool'[a] = NoConn /\ \A b \in Agent : b # a => pool'[b] = pool[b]
    BY Facts DEF TypeOK
  <1>6. Promises'
    BY <1>1, <1>2, <1>3, <1>4 DEF PoolInv, Promises
  <1>7. Pooled'
    <2> SUFFICES ASSUME NEW b \in Agent, b # a, pool[b] # NoConn
                 PROVE  /\ pool[b] \in Conn /\ conn[pool[b]].agent = b
                        /\ conn[pool[b]].state # "failed"
                        /\ ~Settled(pool[b]) => ~Idle(Reactions(j)[pool[b]], "catch", pool[b], b)
                        /\ conn[pool[b]].closed => conn[pool[b]].state = "failed"
                        /\ Idle(Jobs(j), "close", pool[b], b)
                        /\ Idle(Reactions(j)[pool[b]], "close", pool[b], b)
      BY <1>2, <1>4, <1>5 DEF Pooled
    <2>1. /\ pool[b] \in Conn /\ conn[pool[b]].agent = b
          /\ conn[pool[b]].state # "failed"
          /\ ~Settled(pool[b]) => ~Idle(reactions[pool[b]], "catch", pool[b], b)
          /\ conn[pool[b]].closed => conn[pool[b]].state = "failed"
          /\ Idle(reactions[pool[b]], "close", pool[b], b)
      BY <1>5 DEF PoolInv, Pooled, Idle
    <2>2. \A what : j # [do |-> what, conn |-> pool[b], who |-> b]
      BY <1>1
    <2>3. Idle(Jobs(j), "close", pool[b], b)
      BY <1>3, <2>2 DEF Idle
    <2> QED BY <1>3, <2>1, <2>2, <2>3
  <1>8. Closing'
    <2> SUFFICES ASSUME NEW p \in Conn
                 PROVE  \/ pool'[conn[p].agent] = p
                        \/ conn[p].state = "failed" \/ conn[p].closed
                        \/ ~Idle(Jobs(j), "close", p, conn[p].agent)
                        \/ ~Idle(Reactions(j)[p], "close", p, conn[p].agent)
      BY <1>2, <1>4 DEF Closing
    <2>1. CASE p = pool[a]
      BY <1>1, <1>3, <2>1
    <2>2. CASE p # pool[a]
      <3>1. conn[p].agent \in Agent /\ Idle(jobs, "close", p, conn[p].agent)
        BY <1>5, Facts DEF Idle, Connection
      <3>2. j # [do |-> "close", conn |-> p, who |-> conn[p].agent]
        BY <1>1, <2>2
      <3> QED BY <1>3, <1>5, <2>2, <3>1, <3>2 DEF PoolInv, Closing
    <2> QED BY <2>1, <2>2
  <1>9. Ordered'
    <2>1. \A i \in DOMAIN jobs' : jobs'[i].do # "await"
      BY <1>1, <1>2, <1>3
    <2>2. Owned(jobs)' /\ \A p \in Conn : Owned(reactions[p])'
      BY <1>2, <1>3, <1>4 DEF Owned
    <2>3. CloseLast(jobs)' /\ \A p \in Conn : CloseLast(reactions[p])'
      BY <1>2, <1>3 DEF CloseLast
    <2> QED BY <1>4, <2>1, <2>2, <2>3 DEF Ordered
  <1> QED BY <1>6, <1>7, <1>8, <1>9 DEF PoolInv

(* What is left of the reactions and the microtasks of an agent's          *)
(* connection when a new one takes its place.                              *)
JobsLeft(a) == IF pool[a] = NoConn THEN jobs ELSE Jobs(CloseJob(pool[a], a))
ReactionsLeft(a) == IF pool[a] = NoConn THEN reactions ELSE Reactions(CloseJob(pool[a], a))

(* The pooled connection, if any, waits for its close and nothing else     *)
(* changes.                                                                *)
LEMMA LeftFacts ==
  ASSUME TypeOK, PoolInv, jobs = <<>>, NEW a \in Agent
  PROVE  /\ JobsLeft(a) \in Seq(Job)
         /\ ReactionsLeft(a) \in Seq(Seq(Job)) /\ Len(ReactionsLeft(a)) = Len(conn)
         /\ \A i \in DOMAIN JobsLeft(a) :
               JobsLeft(a)[i] = CloseJob(pool[a], a) /\ pool[a] \in Conn /\ Settled(pool[a]) /\ pool[a] # NoConn
         /\ Owned(JobsLeft(a)) /\ CloseLast(JobsLeft(a))
         /\ \A p \in Conn :
              /\ Settled(p) => ReactionsLeft(a)[p] = <<>>
              /\ \A i \in DOMAIN ReactionsLeft(a)[p] : ReactionsLeft(a)[p][i].conn = p
              /\ Owned(ReactionsLeft(a)[p]) /\ CloseLast(ReactionsLeft(a)[p])
              /\ \A what, b : what # "close" \/ p # pool[a] \/ b # a
                    => (Idle(ReactionsLeft(a)[p], what, p, b) <=> Idle(reactions[p], what, p, b))
         /\ pool[a] # NoConn => \/ ~Idle(JobsLeft(a), "close", pool[a], a)
                                \/ ~Idle(ReactionsLeft(a)[pool[a]], "close", pool[a], a)
  <1>1. CASE pool[a] = NoConn
    <2>1. JobsLeft(a) = <<>> /\ ReactionsLeft(a) = reactions /\ DOMAIN <<>> = {}
      BY <1>1, Facts DEF JobsLeft, ReactionsLeft
    <2>2. Owned(<<>>) /\ CloseLast(<<>>)
      BY <2>1 DEF Owned, CloseLast
    <2> QED BY <1>1, <2>1, <2>2 DEF TypeOK, PoolInv, Promises, Ordered
  <1>2. CASE pool[a] # NoConn
    <2> DEFINE j == CloseJob(pool[a], a)
    <2>1. /\ j \in Job /\ j.conn = pool[a] /\ j.do = "close" /\ j.who = a
          /\ pool[a] \in Conn /\ conn[pool[a]].agent = a
          /\ j = [do |-> "close", conn |-> pool[a], who |-> a]
      BY <1>2, Facts, NoClose DEF CloseJob, Job
    <2>2. JobsLeft(a) = Jobs(j) /\ ReactionsLeft(a) = Reactions(j) /\ j = CloseJob(pool[a], a)
      BY <1>2 DEF JobsLeft, ReactionsLeft
    <2>3. Len(reactions) = Len(conn)
      BY DEF TypeOK
    <2> HIDE DEF j
    <2>4. /\ Jobs(j) \in Seq(Job)
          /\ Reactions(j) \in Seq(Seq(Job)) /\ Len(Reactions(j)) = Len(reactions)
      BY <2>1, ReactFacts
    <2>5. /\ \A i \in DOMAIN Jobs(j) : Jobs(j)[i] = j /\ Settled(j.conn)
          /\ Settled(j.conn) => ~Idle(Jobs(j), j.do, j.conn, j.who)
          /\ Owned(Jobs(j)) /\ CloseLast(Jobs(j))
          /\ \A p \in Conn : /\ Settled(p) => Reactions(j)[p] = <<>>
                             /\ \A i \in DOMAIN Reactions(j)[p] : Reactions(j)[p][i].conn = p
                             /\ Owned(Reactions(j)[p]) /\ CloseLast(Reactions(j)[p])
                             /\ \A what, b : j # [do |-> what, conn |-> p, who |-> b]
                                  => (Idle(Reactions(j)[p], what, p, b) <=> Idle(reactions[p], what, p, b))
          /\ ~Settled(j.conn) => ~Idle(Reactions(j)[j.conn], j.do, j.conn, j.who)
      BY <2>1, ReactOrder
    <2>6. \A what, p, b : what # "close" \/ p # pool[a] \/ b # a => j # [do |-> what, conn |-> p, who |-> b]
      BY <2>1
    <2>7. /\ JobsLeft(a) \in Seq(Job)
          /\ ReactionsLeft(a) \in Seq(Seq(Job)) /\ Len(ReactionsLeft(a)) = Len(conn)
          /\ \A i \in DOMAIN JobsLeft(a) : JobsLeft(a)[i] = CloseJob(pool[a], a) /\ Settled(pool[a])
          /\ Owned(JobsLeft(a)) /\ CloseLast(JobsLeft(a))
      BY <2>1, <2>2, <2>3, <2>4, <2>5
    <2>8. \A p \in Conn :
              /\ Settled(p) => ReactionsLeft(a)[p] = <<>>
              /\ \A i \in DOMAIN ReactionsLeft(a)[p] : ReactionsLeft(a)[p][i].conn = p
              /\ Owned(ReactionsLeft(a)[p]) /\ CloseLast(ReactionsLeft(a)[p])
              /\ \A what, b : what # "close" \/ p # pool[a] \/ b # a
                    => (Idle(ReactionsLeft(a)[p], what, p, b) <=> Idle(reactions[p], what, p, b))
      <3> SUFFICES ASSUME NEW p \in Conn
                   PROVE  /\ Settled(p) => Reactions(j)[p] = <<>>
                          /\ \A i \in DOMAIN Reactions(j)[p] : Reactions(j)[p][i].conn = p
                          /\ Owned(Reactions(j)[p]) /\ CloseLast(Reactions(j)[p])
                          /\ \A what, b : what # "close" \/ p # pool[a] \/ b # a
                                => (Idle(Reactions(j)[p], what, p, b) <=> Idle(reactions[p], what, p, b))
        BY <2>2
      <3>1. \A what, b : what # "close" \/ p # pool[a] \/ b # a
               => (Idle(Reactions(j)[p], what, p, b) <=> Idle(reactions[p], what, p, b))
        BY <2>5, <2>6
      <3> QED BY <2>5, <3>1
    <2>9. \/ ~Idle(JobsLeft(a), "close", pool[a], a)
          \/ ~Idle(ReactionsLeft(a)[pool[a]], "close", pool[a], a)
      BY <2>1, <2>2, <2>5
    <2> QED BY <1>2, <2>1, <2>7, <2>8, <2>9
  <1> QED BY <1>1, <1>2

(* The first reactions of a new connection.                                *)
LEMMA FirstFacts ==
  ASSUME NEW p \in Nat \ {0}, NEW a \in Agent, NEW c \in Caller
  PROVE  /\ FirstReactions(p, a, c) \in Seq(Job) /\ 1 \in DOMAIN FirstReactions(p, a, c)
         /\ FirstReactions(p, a, c)[1] = [do |-> "catch", conn |-> p, who |-> a]
         /\ \A i \in DOMAIN FirstReactions(p, a, c) :
              \/ i = 1
              \/ i = 2 /\ FirstReactions(p, a, c)[i] = [do |-> "await", conn |-> p, who |-> c]
  <1>1. /\ CatchJob(p, a) = [do |-> "catch", conn |-> p, who |-> a] /\ CatchJob(p, a) \in Job
        /\ AwaitJob(p, c) = [do |-> "await", conn |-> p, who |-> c] /\ AwaitJob(p, c) \in Job
    BY DEF CatchJob, AwaitJob, Job
  <1>2. /\ FirstReactions(p, a, c) \in Seq(Job) /\ Len(FirstReactions(p, a, c)) = 2
        /\ FirstReactions(p, a, c)[1] = CatchJob(p, a) /\ FirstReactions(p, a, c)[2] = AwaitJob(p, c)
    BY <1>1 DEF FirstReactions
  <1>3. DOMAIN FirstReactions(p, a, c) = 1..2
    BY <1>2, LenProperties
  <1> QED BY <1>1, <1>2, <1>3

(* A new connection takes the place of the pooled one, if any.             *)
Renewed(a, c) ==
  /\ conn' = Append(conn, NewConn(a)) /\ pool' = [pool EXCEPT ![a] = Len(conn) + 1]
  /\ jobs' = JobsLeft(a)
  /\ reactions' = Append(ReactionsLeft(a), FirstReactions(Len(conn) + 1, a, c))

(* What waits for it, and what is left of the others.                      *)
LEMMA RenewFacts ==
  ASSUME TypeOK, PoolInv, jobs = <<>>, NEW a \in Agent, NEW c \in Caller, Renewed(a, c)
  PROVE  /\ reactions' \in Seq(Seq(Job)) /\ Len(reactions') = Len(conn) + 1
         /\ \A p \in Conn : reactions'[p] = ReactionsLeft(a)[p]
         /\ reactions'[Len(conn) + 1] = FirstReactions(Len(conn) + 1, a, c)
         /\ Len(conn) + 1 \in Nat \ {0}
  <1>1. Conn = 1..Len(conn) /\ Len(conn) \in Nat /\ Len(conn) + 1 \in Nat \ {0}
    BY Facts
  <1>2. ReactionsLeft(a) \in Seq(Seq(Job)) /\ Len(ReactionsLeft(a)) = Len(conn)
    BY LeftFacts
  <1>3. FirstReactions(Len(conn) + 1, a, c) \in Seq(Job)
    BY <1>1, FirstFacts
  <1> QED BY <1>1, <1>2, <1>3 DEF Renewed

(* A new connection is pooled, and the old one will be closed.             *)
LEMMA PoolRenewed ==
  ASSUME TypeOK, PoolInv, jobs = <<>>, NEW a \in Agent, NEW c \in Caller, Renewed(a, c)
  PROVE  PoolInv'
  <1>0. PICK new : new = Len(conn) + 1
    OBVIOUS
  <1>1. /\ Conn' = Conn \cup {new} /\ new \notin Conn /\ new \in Nat \ {0}
        /\ \A p \in Conn : conn'[p] = conn[p]
        /\ conn'[new] = NewConn(a)
    BY <1>0, NewFacts, RenewFacts DEF Renewed
  <1>2. /\ \A p \in Conn : reactions'[p] = ReactionsLeft(a)[p]
        /\ 1 \in DOMAIN reactions'[new]
        /\ reactions'[new][1] = [do |-> "catch", conn |-> new, who |-> a]
        /\ \A i \in DOMAIN reactions'[new] :
             \/ i = 1
             \/ i = 2 /\ reactions'[new][i] = [do |-> "await", conn |-> new, who |-> c]
    <2>1. FirstReactions(new, a, c) = reactions'[new] /\ \A p \in Conn : reactions'[p] = ReactionsLeft(a)[p]
      BY <1>0, RenewFacts
    <2>2. /\ 1 \in DOMAIN FirstReactions(new, a, c)
          /\ FirstReactions(new, a, c)[1] = [do |-> "catch", conn |-> new, who |-> a]
          /\ \A i \in DOMAIN FirstReactions(new, a, c) :
               \/ i = 1
               \/ i = 2 /\ FirstReactions(new, a, c)[i] = [do |-> "await", conn |-> new, who |-> c]
      BY <1>1, FirstFacts
    <2> QED BY <2>1, <2>2
  <1>3. /\ NewConn(a).state = "hello" /\ NewConn(a).agent = a
        /\ NewConn(a).closed = FALSE /\ NewConn(a).dead = FALSE
    BY DEF NewConn
  <1>4. jobs' = JobsLeft(a) /\ pool'[a] = new /\ \A b \in Agent : b # a => pool'[b] = pool[b]
    BY <1>0 DEF TypeOK, Renewed
  <1>5. \A p \in Conn : Settled(p)' <=> Settled(p)
    BY <1>1 DEF Settled
  <1>6. conn'[new].state \notin {"open", "failed"} /\ ~conn'[new].closed /\ conn'[new].agent = a
    BY <1>1, <1>3
  <1>7. DOMAIN jobs = {}
    BY Facts
  <1>8. /\ \A i \in DOMAIN JobsLeft(a) :
               JobsLeft(a)[i] = CloseJob(pool[a], a) /\ pool[a] \in Conn /\ Settled(pool[a])
        /\ Owned(JobsLeft(a)) /\ CloseLast(JobsLeft(a))
        /\ \A p \in Conn :
             /\ Settled(p) => ReactionsLeft(a)[p] = <<>>
             /\ \A i \in DOMAIN ReactionsLeft(a)[p] : ReactionsLeft(a)[p][i].conn = p
             /\ Owned(ReactionsLeft(a)[p]) /\ CloseLast(ReactionsLeft(a)[p])
             /\ \A what, b : what # "close" \/ p # pool[a] \/ b # a
                   => (Idle(ReactionsLeft(a)[p], what, p, b) <=> Idle(reactions[p], what, p, b))
        /\ pool[a] # NoConn => \/ ~Idle(JobsLeft(a), "close", pool[a], a)
                               \/ ~Idle(ReactionsLeft(a)[pool[a]], "close", pool[a], a)
    BY LeftFacts
  <1>9. CloseJob(pool[a], a) = [do |-> "close", conn |-> pool[a], who |-> a]
    BY DEF CloseJob
  <1>10. Promises'
    <2>1. \A p \in Conn' : conn'[p].closed => Settled(p)'
      BY <1>1, <1>5, <1>6 DEF PoolInv, Promises
    <2>2. \A p \in Conn' : Settled(p)' => reactions'[p] = <<>>
      BY <1>1, <1>2, <1>5, <1>6, <1>8 DEF Settled
    <2>3. \A p \in Conn' : \A i \in DOMAIN reactions'[p] : reactions'[p][i].conn = p
      <3>1. \A i \in DOMAIN reactions'[new] : reactions'[new][i].conn = new
        BY <1>2
      <3>2. \A p \in Conn : \A i \in DOMAIN reactions'[p] : reactions'[p][i].conn = p
        BY <1>2, <1>8
      <3> QED BY <1>1, <3>1, <3>2
    <2>4. \A i \in DOMAIN jobs' : jobs'[i].conn \in Conn' /\ conn'[jobs'[i].conn].state \in {"open", "failed"}
      <3>1. \A i \in DOMAIN jobs' : jobs'[i].conn = pool[a] /\ pool[a] \in Conn /\ Settled(pool[a])
        BY <1>4, <1>8, <1>9
      <3> QED BY <1>1, <3>1 DEF Settled
    <2> QED BY <2>1, <2>2, <2>3, <2>4 DEF Promises, Settled
  <1>11. Pooled'
    <2> SUFFICES ASSUME NEW b \in Agent, pool'[b] # NoConn
                 PROVE  /\ pool'[b] \in Conn' /\ conn'[pool'[b]].agent = b
                        /\ conn'[pool'[b]].state = "failed" => ~Idle(jobs', "catch", pool'[b], b)
                        /\ ~(conn'[pool'[b]].state \in {"open", "failed"})
                              => ~Idle(reactions'[pool'[b]], "catch", pool'[b], b)
                        /\ conn'[pool'[b]].closed => conn'[pool'[b]].state = "failed"
                        /\ Idle(jobs', "close", pool'[b], b)
                        /\ Idle(reactions'[pool'[b]], "close", pool'[b], b)
      BY DEF Pooled, Settled
    <2>1. CASE b = a
      <3>1. Idle(jobs', "close", new, a)
        BY <1>1, <1>4, <1>8, <1>9 DEF Idle
      <3>2. ~Idle(reactions'[new], "catch", new, a) /\ Idle(reactions'[new], "close", new, a)
        <4>1. 1 \in DOMAIN reactions'[new] /\ reactions'[new][1] = [do |-> "catch", conn |-> new, who |-> a]
          BY <1>2
        <4>2. \A i \in DOMAIN reactions'[new] : reactions'[new][i] # [do |-> "close", conn |-> new, who |-> a]
          BY <1>2
        <4> QED BY <4>1, <4>2 DEF Idle
      <3>3. pool'[b] = new /\ new \in Conn'
        BY <1>1, <1>4, <2>1
      <3> QED BY <1>6, <2>1, <3>1, <3>2, <3>3
    <2>2. CASE b # a
      <3>1. /\ pool[b] # NoConn /\ pool[b] \in Conn /\ conn[pool[b]].agent = b
            /\ conn[pool[b]].state # "failed"
            /\ ~Settled(pool[b]) => ~Idle(reactions[pool[b]], "catch", pool[b], b)
            /\ conn[pool[b]].closed => conn[pool[b]].state = "failed"
            /\ Idle(reactions[pool[b]], "close", pool[b], b)
        BY <1>4, <1>7, <2>2 DEF PoolInv, Pooled, Idle
      <3>2. Idle(JobsLeft(a), "close", pool[b], b)
        BY <1>8, <1>9, <2>2 DEF Idle
      <3>3. pool'[b] = pool[b] /\ conn'[pool[b]] = conn[pool[b]] /\ reactions'[pool[b]] = ReactionsLeft(a)[pool[b]]
        BY <1>1, <1>2, <1>4, <2>2, <3>1
      <3>4. /\ Idle(ReactionsLeft(a)[pool[b]], "close", pool[b], b)
            /\ ~Settled(pool[b]) => ~Idle(ReactionsLeft(a)[pool[b]], "catch", pool[b], b)
        BY <1>8, <2>2, <3>1
      <3>5. jobs' = JobsLeft(a) /\ pool[b] \in Conn'
        BY <1>1, <1>4, <3>1
      <3> QED BY <3>1, <3>2, <3>3, <3>4, <3>5 DEF Settled
    <2> QED BY <2>1, <2>2
  <1>12. Closing'
    <2> SUFFICES ASSUME NEW p \in Conn'
                 PROVE  \/ pool'[conn'[p].agent] = p
                        \/ conn'[p].state = "failed" \/ conn'[p].closed
                        \/ ~Idle(jobs', "close", p, conn'[p].agent)
                        \/ ~Idle(reactions'[p], "close", p, conn'[p].agent)
      BY DEF Closing
    <2>1. CASE p = new
      BY <1>4, <1>6, <2>1
    <2>2. CASE p \in Conn /\ p = pool[a]
      <3>1. conn[p].agent = a
        BY <2>2, NoClose, Facts
      <3> QED BY <1>1, <1>2, <1>4, <1>8, <2>2, <3>1, Facts
    <2>3. CASE p \in Conn /\ p # pool[a]
      <3>1. conn[p].agent \in Agent /\ Idle(jobs, "close", p, conn[p].agent)
        BY <1>7, <2>3, Facts DEF Idle, Connection
      <3>2. \/ pool[conn[p].agent] = p \/ conn[p].state = "failed" \/ conn[p].closed
            \/ ~Idle(ReactionsLeft(a)[p], "close", p, conn[p].agent)
        BY <1>8, <2>3, <3>1 DEF PoolInv, Closing
      <3> QED BY <1>1, <1>2, <1>4, <2>3, <3>1, <3>2
    <2> QED BY <1>1, <2>1, <2>2, <2>3
  <1>13. Ordered'
    <2>1. \A i \in DOMAIN jobs' : jobs'[i].do # "await"
      BY <1>4, <1>8, <1>9
    <2>2. Owned(jobs)'
      BY <1>1, <1>4, <1>8 DEF Owned
    <2>3. \A p \in Conn : Owned(reactions[p])'
      <3> SUFFICES ASSUME NEW p \in Conn PROVE Owned(reactions[p])'
        OBVIOUS
      <3>1. Owned(ReactionsLeft(a)[p]) /\ reactions'[p] = ReactionsLeft(a)[p]
        BY <1>2, <1>8
      <3> QED BY <1>1, <3>1 DEF Owned
    <2>4. Owned(reactions[new])' /\ CloseLast(reactions[new])'
      <3>1. Owned(reactions[new])'
        BY <1>1, <1>2, <1>6 DEF Owned
      <3>2. \A i \in DOMAIN reactions'[new] : reactions'[new][i].do # "close"
        BY <1>2
      <3> QED BY <3>1, <3>2 DEF CloseLast
    <2>5. CloseLast(jobs)' /\ \A p \in Conn : CloseLast(reactions[p])'
      <3>1. CloseLast(jobs)'
        BY <1>4, <1>8 DEF CloseLast
      <3> SUFFICES ASSUME NEW p \in Conn PROVE CloseLast(reactions[p])'
        BY <3>1
      <3>2. CloseLast(ReactionsLeft(a)[p]) /\ reactions'[p] = ReactionsLeft(a)[p]
        BY <1>2, <1>8
      <3> QED BY <3>2 DEF CloseLast
    <2> QED BY <1>1, <2>1, <2>2, <2>3, <2>4, <2>5 DEF Ordered
  <1> QED BY <1>10, <1>11, <1>12, <1>13 DEF PoolInv

(* What is left when the first microtask has run.                          *)
LEMMA TailOrder ==
  ASSUME TypeOK, PoolInv, jobs # <<>>
  PROVE  /\ Tail(jobs) \in Seq(Job) /\ Head(jobs) \in Job
         /\ \A i \in DOMAIN Tail(jobs) : \E k \in DOMAIN jobs : k # 1 /\ Tail(jobs)[i] = jobs[k]
         /\ Owned(Tail(jobs)) /\ CloseLast(Tail(jobs))
         /\ \A what, p, a :
              /\ Idle(jobs, what, p, a) => Idle(Tail(jobs), what, p, a)
              /\ Head(jobs) # [do |-> what, conn |-> p, who |-> a]
                    => (Idle(Tail(jobs), what, p, a) <=> Idle(jobs, what, p, a))
         /\ Head(jobs).conn \in Conn /\ Settled(Head(jobs).conn)
         /\ Head(jobs).do \in {"catch", "close"}
               => Head(jobs).who \in Agent /\ conn[Head(jobs).conn].agent = Head(jobs).who
         /\ Head(jobs).do = "await" => Head(jobs).who \in Caller
         /\ Head(jobs).do = "close" => \A i \in DOMAIN Tail(jobs) :
               Tail(jobs)[i].do = "await" => Tail(jobs)[i].conn # Head(jobs).conn
  <1>1. /\ Tail(jobs) \in Seq(Job) /\ Head(jobs) = jobs[1] /\ 1 \in DOMAIN jobs /\ jobs[1] \in Job
        /\ \A i \in DOMAIN Tail(jobs) : i \in Nat \ {0} /\ i + 1 \in DOMAIN jobs /\ Tail(jobs)[i] = jobs[i + 1]
        /\ \A i \in DOMAIN jobs : i # 1 => i - 1 \in DOMAIN Tail(jobs) /\ Tail(jobs)[i - 1] = jobs[i]
    BY TailFacts DEF TypeOK
  <1>2. Owned(jobs) /\ CloseLast(jobs) /\ \A i \in DOMAIN jobs : jobs[i].conn \in Conn /\ Settled(jobs[i].conn)
    BY DEF PoolInv, Promises, Ordered
  <1>3. Owned(Tail(jobs))
    BY <1>1, <1>2 DEF Owned
  <1>4. CloseLast(Tail(jobs))
    <2> SUFFICES ASSUME NEW i \in DOMAIN Tail(jobs), NEW k \in DOMAIN Tail(jobs),
                        Tail(jobs)[i].do = "close", Tail(jobs)[k].do = "await", i < k
                 PROVE  Tail(jobs)[i].conn # Tail(jobs)[k].conn
      BY DEF CloseLast
    <2>1. i + 1 < k + 1
      BY <1>1
    <2> QED BY <1>1, <1>2, <2>1 DEF CloseLast
  <1>5. \A what, p, a : Idle(jobs, what, p, a) => Idle(Tail(jobs), what, p, a)
    BY <1>1 DEF Idle
  <1>6. ASSUME NEW what, NEW p, NEW a, Head(jobs) # [do |-> what, conn |-> p, who |-> a],
               Idle(Tail(jobs), what, p, a)
        PROVE  Idle(jobs, what, p, a)
    BY <1>1, <1>6 DEF Idle
  <1>7. \A i \in DOMAIN Tail(jobs) : \E k \in DOMAIN jobs : k # 1 /\ Tail(jobs)[i] = jobs[k]
    <2> TAKE i \in DOMAIN Tail(jobs)
    <2>1. i + 1 \in DOMAIN jobs /\ i + 1 # 1 /\ Tail(jobs)[i] = jobs[i + 1]
      BY <1>1
    <2> QED BY <2>1
  <1>8. /\ Head(jobs).do \in {"catch", "close"}
               => Head(jobs).who \in Agent /\ conn[Head(jobs).conn].agent = Head(jobs).who
        /\ Head(jobs).do = "await" => Head(jobs).who \in Caller
    BY <1>1, <1>2 DEF Owned
  <1>9. ASSUME Head(jobs).do = "close", NEW i \in DOMAIN Tail(jobs), Tail(jobs)[i].do = "await"
        PROVE  Tail(jobs)[i].conn # Head(jobs).conn
    <2>1. 1 < i + 1
      BY <1>1
    <2> QED BY <1>1, <1>2, <1>9, <2>1 DEF CloseLast
  <1> QED BY <1>1, <1>2, <1>3, <1>4, <1>5, <1>6, <1>7, <1>8, <1>9

(* The microtasks keep the pool exact.                                     *)
LEMMA PoolRuns ==
  ASSUME TypeOK, PoolInv, RunJob
  PROVE  PoolInv'
  <1>1. PICK j : j = Head(jobs)
    OBVIOUS
  <1>2. PICK q : q = Tail(jobs)
    OBVIOUS
  <1>3. jobs # <<>> /\ jobs' = q /\ reactions' = reactions
    BY <1>2 DEF RunJob
  <1>4. /\ j \in Job
        /\ \A i \in DOMAIN q : \E k \in DOMAIN jobs : k # 1 /\ q[i] = jobs[k]
        /\ Owned(q) /\ CloseLast(q)
        /\ \A what, p, a :
             /\ Idle(jobs, what, p, a) => Idle(q, what, p, a)
             /\ j # [do |-> what, conn |-> p, who |-> a]
                   => (Idle(q, what, p, a) <=> Idle(jobs, what, p, a))
        /\ j.conn \in Conn /\ Settled(j.conn)
        /\ j.do \in {"catch", "close"} => j.who \in Agent /\ conn[j.conn].agent = j.who
        /\ j.do = "close" => \A i \in DOMAIN q : q[i].do = "await" => q[i].conn # j.conn
    BY <1>1, <1>2, <1>3, TailOrder
  <1>5. \A i \in DOMAIN q :
          /\ q[i].conn \in Conn /\ Settled(q[i].conn)
          /\ q[i].do = "await" => conn[q[i].conn].state = "failed" \/ ~conn[q[i].conn].closed
    BY <1>4 DEF PoolInv, Promises, Ordered
  <1>6. CASE RunCatch(j)
    <2>1. j.do = "catch" /\ conn' = conn /\ Conn' = Conn
      BY <1>6 DEF RunCatch, Conn
    <2>2. /\ \A b \in Agent : pool'[b] # NoConn => pool'[b] = pool[b]
          /\ \A b \in Agent : pool'[b] # pool[b] => conn[pool[b]].state = "failed"
          /\ conn[j.conn].state = "failed" => pool'[j.who] # j.conn
      <3>1. j.who \in Agent /\ NoConn # j.conn
        BY <1>4, <2>1, Facts
      <3> QED BY <1>6, <3>1 DEF RunCatch, TypeOK
    <2>3. \A p \in Conn : Settled(p)' <=> Settled(p)
      BY <2>1 DEF Settled
    <2>4. Promises'
      BY <1>3, <1>5, <2>1, <2>3 DEF PoolInv, Promises
    <2>5. Pooled'
      <3> SUFFICES ASSUME NEW b \in Agent, pool'[b] # NoConn
                   PROVE  /\ pool'[b] \in Conn /\ conn[pool'[b]].agent = b
                          /\ conn[pool'[b]].state = "failed" => ~Idle(q, "catch", pool'[b], b)
                          /\ ~Settled(pool'[b]) => ~Idle(reactions[pool'[b]], "catch", pool'[b], b)
                          /\ conn[pool'[b]].closed => conn[pool'[b]].state = "failed"
                          /\ Idle(q, "close", pool'[b], b)
                          /\ Idle(reactions[pool'[b]], "close", pool'[b], b)
        BY <1>3, <2>1 DEF Pooled, Settled
      <3>1. pool'[b] = pool[b]
        BY <2>2
      <3>2. conn[pool[b]].state = "failed" => j # [do |-> "catch", conn |-> pool[b], who |-> b]
        BY <2>2, <3>1
      <3> QED BY <1>4, <3>1, <3>2 DEF PoolInv, Pooled
    <2>6. Closing'
      <3> SUFFICES ASSUME NEW p \in Conn
                   PROVE  \/ pool'[conn[p].agent] = p
                          \/ conn[p].state = "failed" \/ conn[p].closed
                          \/ ~Idle(q, "close", p, conn[p].agent)
                          \/ ~Idle(reactions[p], "close", p, conn[p].agent)
        BY <1>3, <2>1 DEF Closing
      <3>1. conn[p].agent \in Agent
        BY Facts DEF Connection
      <3>2. j # [do |-> "close", conn |-> p, who |-> conn[p].agent]
        BY <2>1
      <3> QED BY <1>4, <2>2, <3>1, <3>2 DEF PoolInv, Closing
    <2>7. Ordered'
      BY <1>3, <1>4, <1>5, <2>1 DEF PoolInv, Ordered, Owned, CloseLast
    <2> QED BY <2>4, <2>5, <2>6, <2>7 DEF PoolInv
  <1>7. CASE RunClose(j)
    <2>1. j.do = "close" /\ pool' = pool /\ j.who \in Agent /\ conn[j.conn].agent = j.who
      BY <1>4, <1>7 DEF RunClose
    <2>2. /\ Conn' = Conn
          /\ \A p \in Conn : /\ p # j.conn => conn'[p] = conn[p]
                             /\ conn'[p].state = conn[p].state /\ conn'[p].agent = conn[p].agent
                             /\ conn[p].closed => conn'[p].closed
          /\ conn[j.conn].state = "open" => conn'[j.conn].closed
      <3>1. CASE conn[j.conn].state = "open"
        <4> DEFINE new == [conn[j.conn] EXCEPT !.closed = TRUE]
        <4>1. conn[j.conn] \in Connection
          BY <1>4, Facts
        <4>2. new \in Connection /\ new.state = conn[j.conn].state /\ new.agent = conn[j.conn].agent /\ new.closed
          BY <4>1 DEF Connection
        <4>3. conn' = [conn EXCEPT ![j.conn] = new]
          BY <1>7, <3>1 DEF RunClose
        <4> HIDE DEF new
        <4>4. Conn' = Conn /\ \A x \in Conn : conn'[x] = IF x = j.conn THEN new ELSE conn[x]
          BY <1>4, <4>2, <4>3, ConnFacts
        <4> QED BY <1>4, <4>2, <4>4
      <3>2. CASE conn[j.conn].state # "open"
        BY <1>7, <3>2 DEF RunClose, Conn
      <3> QED BY <3>1, <3>2
    <2>3. conn[j.conn].state = "failed" \/ conn'[j.conn].closed
      BY <1>4, <2>2 DEF Settled
    <2>4. \A p \in Conn : Settled(p)' <=> Settled(p)
      BY <2>2 DEF Settled
    <2>5. \A b \in Agent : pool[b] # NoConn => pool[b] \in Conn /\ pool[b] # j.conn
      <3>1. 1 \in DOMAIN jobs /\ jobs[1] = j
        BY <1>1, <1>3, TailFacts DEF TypeOK
      <3> QED BY <2>1, <3>1, NoClose
    <2>6. Promises'
      <3>1. \A p \in Conn : conn'[p].closed => Settled(p)
        BY <1>4, <2>2 DEF PoolInv, Promises
      <3> QED BY <1>3, <1>5, <2>2, <2>4, <3>1 DEF PoolInv, Promises
    <2>7. Pooled'
      <3> SUFFICES ASSUME NEW b \in Agent, pool[b] # NoConn
                   PROVE  /\ pool[b] \in Conn /\ conn'[pool[b]].agent = b
                          /\ conn'[pool[b]].state = "failed" => ~Idle(q, "catch", pool[b], b)
                          /\ ~Settled(pool[b]) => ~Idle(reactions[pool[b]], "catch", pool[b], b)
                          /\ conn'[pool[b]].closed => conn'[pool[b]].state = "failed"
                          /\ Idle(q, "close", pool[b], b)
                          /\ Idle(reactions[pool[b]], "close", pool[b], b)
        BY <1>3, <2>1, <2>2, <2>4, <2>5 DEF Pooled
      <3>1. conn'[pool[b]] = conn[pool[b]] /\ j # [do |-> "catch", conn |-> pool[b], who |-> b]
        BY <2>1, <2>2, <2>5
      <3> QED BY <1>4, <3>1 DEF PoolInv, Pooled
    <2>8. Closing'
      <3> SUFFICES ASSUME NEW p \in Conn
                   PROVE  \/ pool[conn[p].agent] = p
                          \/ conn'[p].state = "failed" \/ conn'[p].closed
                          \/ ~Idle(q, "close", p, conn[p].agent)
                          \/ ~Idle(reactions[p], "close", p, conn[p].agent)
        BY <1>3, <2>1, <2>2 DEF Closing
      <3>1. CASE p = j.conn
        BY <2>2, <2>3, <3>1
      <3>2. CASE p # j.conn
        <4>1. j # [do |-> "close", conn |-> p, who |-> conn[p].agent]
          BY <3>2
        <4> QED BY <1>4, <2>2, <4>1 DEF PoolInv, Closing
      <3> QED BY <3>1, <3>2
    <2>9. Ordered'
      <3>1. Owned(jobs)' /\ \A p \in Conn : Owned(reactions[p])'
        BY <1>3, <1>4, <2>2 DEF PoolInv, Ordered, Owned
      <3>2. CloseLast(jobs)' /\ \A p \in Conn : CloseLast(reactions[p])'
        BY <1>3, <1>4 DEF PoolInv, Ordered, CloseLast
      <3>3. \A i \in DOMAIN q : q[i].do = "await" =>
              conn'[q[i].conn].state = "failed" \/ ~conn'[q[i].conn].closed
        BY <1>4, <1>5, <2>1, <2>2
      <3> QED BY <1>3, <2>2, <3>1, <3>2, <3>3 DEF Ordered
    <2> QED BY <2>6, <2>7, <2>8, <2>9 DEF PoolInv
  <1>8. CASE RunAwait(j)
    <2>1. j.do = "await" /\ conn' = conn /\ Conn' = Conn /\ pool' = pool
      BY <1>8 DEF RunAwait, Conn
    <2>2. \A p \in Conn : Settled(p)' <=> Settled(p)
      BY <2>1 DEF Settled
    <2>3. \A p, b : /\ Idle(q, "catch", p, b) <=> Idle(jobs, "catch", p, b)
                    /\ Idle(q, "close", p, b) <=> Idle(jobs, "close", p, b)
      <3>1. \A p, b : /\ j # [do |-> "catch", conn |-> p, who |-> b]
                      /\ j # [do |-> "close", conn |-> p, who |-> b]
        BY <2>1
      <3> QED BY <1>4, <3>1
    <2>4. Promises'
      BY <1>3, <1>5, <2>1, <2>2 DEF PoolInv, Promises
    <2>5. Pooled'
      <3> SUFFICES ASSUME NEW b \in Agent, pool[b] # NoConn
                   PROVE  /\ pool[b] \in Conn /\ conn[pool[b]].agent = b
                          /\ conn[pool[b]].state = "failed" => ~Idle(q, "catch", pool[b], b)
                          /\ ~Settled(pool[b]) => ~Idle(reactions[pool[b]], "catch", pool[b], b)
                          /\ conn[pool[b]].closed => conn[pool[b]].state = "failed"
                          /\ Idle(q, "close", pool[b], b)
                          /\ Idle(reactions[pool[b]], "close", pool[b], b)
        BY <1>3, <2>1 DEF Pooled, Settled
      <3> QED BY <2>3 DEF PoolInv, Pooled
    <2>6. Closing'
      <3> SUFFICES ASSUME NEW p \in Conn
                   PROVE  \/ pool[conn[p].agent] = p
                          \/ conn[p].state = "failed" \/ conn[p].closed
                          \/ ~Idle(q, "close", p, conn[p].agent)
                          \/ ~Idle(reactions[p], "close", p, conn[p].agent)
        BY <1>3, <2>1 DEF Closing
      <3> QED BY <2>3 DEF PoolInv, Closing
    <2>7. Ordered'
      BY <1>3, <1>4, <1>5, <2>1 DEF PoolInv, Ordered, Owned, CloseLast
    <2> QED BY <2>4, <2>5, <2>6, <2>7 DEF PoolInv
  <1> QED BY <1>1, <1>6, <1>7, <1>8 DEF RunJob

-----------------------------------------------------------------------------
(* Callers *)

(* A command ends.                                                         *)
LEMMA FinishFacts ==
  ASSUME TypeOK, NEW c \in Caller, NEW result \in Results, Finish(c, result)
  PROVE  /\ caller' \in [Caller -> Calling]
         /\ \A d \in Caller : d # c => caller'[d] = caller[d]
         /\ caller'[c].pc = "idle" /\ caller'[c].result = result
         /\ caller'[c].conn = caller[c].conn /\ caller'[c].attempt = caller[c].attempt
         /\ caller'[c].left = caller[c].left
  <1> DEFINE new == [caller[c] EXCEPT !.pc = "idle", !.result = result]
  <1>1. caller \in [Caller -> Calling] /\ caller[c] \in Calling
    BY DEF TypeOK
  <1>2. /\ new \in Calling /\ new.pc = "idle" /\ new.result = result
        /\ new.conn = caller[c].conn /\ new.attempt = caller[c].attempt /\ new.left = caller[c].left
    BY <1>1 DEF Calling
  <1>3. caller' = [caller EXCEPT ![c] = new]
    BY DEF Finish
  <1> HIDE DEF new
  <1>4. caller' \in [Caller -> Calling] /\ caller'[c] = new /\ \A d \in Caller : d # c => caller'[d] = caller[d]
    BY <1>1, <1>2, <1>3
  <1> QED BY <1>2, <1>4

(* A caller waits for another connection.                                  *)
LEMMA RetryFacts ==
  ASSUME TypeOK, NEW c \in Caller, NEW p \in Nat, caller[c].attempt < MaxRetries,
         caller' = [caller EXCEPT ![c].pc = "await", ![c].conn = p, ![c].attempt = @ + 1]
  PROVE  /\ caller' \in [Caller -> Calling]
         /\ \A d \in Caller : d # c => caller'[d] = caller[d]
         /\ caller'[c].pc = "await" /\ caller'[c].conn = p
         /\ caller'[c].attempt = caller[c].attempt + 1 /\ caller'[c].attempt >= 1
         /\ caller'[c].left = caller[c].left /\ caller'[c].result = caller[c].result
  <1> DEFINE new == [caller[c] EXCEPT !.pc = "await", !.conn = p, !.attempt = caller[c].attempt + 1]
  <1>1. /\ caller \in [Caller -> Calling] /\ caller[c] \in Calling
        /\ MaxRetries \in Nat /\ caller[c].attempt \in 0..MaxRetries
    BY ClientConstants DEF TypeOK, Calling
  <1>2. caller[c].attempt + 1 \in 0..MaxRetries /\ caller[c].attempt + 1 >= 1
    BY <1>1
  <1>3. /\ new \in Calling /\ new.pc = "await" /\ new.conn = p
        /\ new.attempt = caller[c].attempt + 1
        /\ new.left = caller[c].left /\ new.result = caller[c].result
    BY <1>1, <1>2 DEF Calling
  <1>4. caller' = [caller EXCEPT ![c] = new]
    OBVIOUS
  <1> HIDE DEF new
  <1>5. caller' \in [Caller -> Calling] /\ caller'[c] = new /\ \A d \in Caller : d # c => caller'[d] = caller[d]
    BY ZenonT(30), <1>1, <1>3, <1>4
  <1> QED BY <1>2, <1>3, <1>5

(* A command starts.                                                       *)
Started(c, p) ==
  caller' = [caller EXCEPT ![c].pc = "await", ![c].conn = p, ![c].attempt = 1,
                           ![c].left = @ - 1, ![c].result = "none"]

(* The caller of a command that starts.                                    *)
LEMMA StartFacts ==
  ASSUME TypeOK, NEW c \in Caller, NEW p \in Nat, caller[c].left > 0, Started(c, p)
  PROVE  /\ caller' \in [Caller -> Calling]
         /\ \A d \in Caller : d # c => caller'[d] = caller[d]
         /\ caller'[c].pc = "await" /\ caller'[c].conn = p /\ caller'[c].attempt = 1
         /\ caller'[c].left < caller[c].left /\ caller'[c].result = "none"
  <1> DEFINE new == [caller[c] EXCEPT !.pc = "await", !.conn = p, !.attempt = 1,
                                      !.left = caller[c].left - 1, !.result = "none"]
  <1>1. /\ caller \in [Caller -> Calling] /\ caller[c] \in Calling
        /\ MaxRetries \in Nat \ {0} /\ caller[c].left \in Nat
    BY ClientConstants DEF TypeOK, Calling
  <1>2. 1 \in 0..MaxRetries /\ caller[c].left - 1 \in Nat /\ caller[c].left - 1 < caller[c].left
    BY <1>1
  <1>3. /\ new \in Calling /\ new.pc = "await" /\ new.conn = p /\ new.attempt = 1
        /\ new.left = caller[c].left - 1 /\ new.result = "none"
    BY <1>1, <1>2 DEF Calling, Results
  <1>4. caller' = [caller EXCEPT ![c] = new]
    BY DEF Started
  <1> HIDE DEF new
  <1>5. caller' \in [Caller -> Calling] /\ caller'[c] = new /\ \A d \in Caller : d # c => caller'[d] = caller[d]
    BY <1>1, <1>3, <1>4
  <1> QED BY <1>2, <1>3, <1>5

(* What waits for a connection that is to be closed is what waited before. *)
LEMMA LeftWaits ==
  ASSUME TypeOK, PoolInv, jobs = <<>>, NEW a \in Agent
  PROVE  /\ \A i \in DOMAIN JobsLeft(a) : JobsLeft(a)[i].do = "close"
         /\ \A p \in Conn : \A i \in DOMAIN ReactionsLeft(a)[p] :
              \/ ReactionsLeft(a)[p][i].do = "close"
              \/ i \in DOMAIN reactions[p] /\ ReactionsLeft(a)[p][i] = reactions[p][i]
  <1>1. CloseJob(pool[a], a).do = "close"
    BY DEF CloseJob
  <1>2. \A i \in DOMAIN JobsLeft(a) : JobsLeft(a)[i].do = "close"
    BY <1>1, LeftFacts
  <1>3. CASE pool[a] = NoConn
    BY <1>2, <1>3 DEF ReactionsLeft
  <1>4. CASE pool[a] # NoConn
    <2> DEFINE j == CloseJob(pool[a], a)
    <2>1. j \in Job /\ j.conn \in Conn /\ j.do = "close" /\ ReactionsLeft(a) = Reactions(j)
      BY <1>4, Facts, NoClose DEF CloseJob, Job, ReactionsLeft
    <2> HIDE DEF j
    <2>2. \A p \in Conn : Reactions(j)[p] = IF p = j.conn /\ ~Settled(p) THEN Append(reactions[p], j) ELSE reactions[p]
      BY <2>1, ReactFacts
    <2> SUFFICES ASSUME NEW p \in Conn, NEW i \in DOMAIN Reactions(j)[p]
                 PROVE  \/ Reactions(j)[p][i].do = "close"
                        \/ i \in DOMAIN reactions[p] /\ Reactions(j)[p][i] = reactions[p][i]
      BY <1>2, <2>1
    <2>3. reactions[p] \in Seq(Job)
      BY Facts
    <2>4. CASE Reactions(j)[p] = reactions[p]
      BY <2>4
    <2>5. CASE Reactions(j)[p] = Append(reactions[p], j)
      <3>1. /\ DOMAIN Append(reactions[p], j) = DOMAIN reactions[p] \cup {Len(reactions[p]) + 1}
            /\ Append(reactions[p], j)[Len(reactions[p]) + 1] = j
            /\ \A k \in DOMAIN reactions[p] : Append(reactions[p], j)[k] = reactions[p][k]
        BY <2>1, <2>3, AppendFacts
      <3> QED BY <2>1, <2>5, <3>1
    <2> QED BY <2>2, <2>4, <2>5
  <1> QED BY <1>3, <1>4

(* The same jobs still wait, at the same place.                            *)
LEMMA WaitsKept ==
  ASSUME NEW q, NEW next, Waits(q), Owned(q),
         \A i \in DOMAIN next : next[i].do = "await" => i \in DOMAIN q /\ next[i] = q[i],
         \A c \in Caller : caller[c].pc = "await"
             => caller'[c].pc = "await" /\ caller'[c].conn = caller[c].conn
  PROVE  \A i \in DOMAIN next : next[i].do = "await" =>
           /\ caller'[next[i].who].pc = "await" /\ caller'[next[i].who].conn = next[i].conn
           /\ \A k \in DOMAIN next : next[k].do = "await" /\ next[k].who = next[i].who => k = i
  <1> SUFFICES ASSUME NEW i \in DOMAIN next, next[i].do = "await"
               PROVE  /\ caller'[next[i].who].pc = "await" /\ caller'[next[i].who].conn = next[i].conn
                      /\ \A k \in DOMAIN next : next[k].do = "await" /\ next[k].who = next[i].who => k = i
    OBVIOUS
  <1>1. i \in DOMAIN q /\ next[i] = q[i] /\ q[i].do = "await" /\ q[i].who \in Caller
    BY DEF Owned
  <1>2. /\ caller[q[i].who].pc = "await" /\ caller[q[i].who].conn = q[i].conn
        /\ \A k \in DOMAIN q : q[k].do = "await" /\ q[k].who = q[i].who => k = i
    BY <1>1 DEF Waits
  <1> QED BY <1>1, <1>2

(* Nobody starts to wait and nobody waiting goes on.                       *)
LEMMA StillWaiting ==
  ASSUME TypeOK, PoolInv, Waiting, Conn' = Conn,
         \A i \in DOMAIN jobs' : jobs'[i].do = "await" => i \in DOMAIN jobs /\ jobs'[i] = jobs[i],
         \A p \in Conn : \A i \in DOMAIN reactions'[p] :
            reactions'[p][i].do = "await" => i \in DOMAIN reactions[p] /\ reactions'[p][i] = reactions[p][i],
         \A c \in Caller : caller[c].pc = "await"
             => caller'[c].pc = "await" /\ caller'[c].conn = caller[c].conn
  PROVE  Waiting'
  <1>1. Waits(jobs)'
    BY WaitsKept DEF PoolInv, Ordered, Waiting, Waits
  <1>2. ASSUME NEW p \in Conn PROVE Waits(reactions[p])'
    <2>1. Waits(reactions[p]) /\ Owned(reactions[p])
      BY DEF PoolInv, Ordered, Waiting
    <2>2. \A i \in DOMAIN reactions'[p] : reactions'[p][i].do = "await" =>
            /\ caller'[reactions'[p][i].who].pc = "await" /\ caller'[reactions'[p][i].who].conn = reactions'[p][i].conn
            /\ \A k \in DOMAIN reactions'[p] : reactions'[p][k].do = "await" /\ reactions'[p][k].who = reactions'[p][i].who => k = i
      BY <2>1, WaitsKept
    <2> QED BY <2>2 DEF Waits
  <1> QED BY <1>1, <1>2 DEF Waiting

(* The posts of a command are counted.                                     *)
LEMMA PostsFacts ==
  ASSUME TypeOK, NEW c \in Caller
  PROVE  caller[c].attempt \in Nat /\ Posts(c) \in Int
  <1>1. caller[c] \in Calling /\ MaxRetries \in Nat
    BY ClientConstants DEF TypeOK
  <1>2. caller[c].attempt \in Nat
    BY <1>1 DEF Calling
  <1> QED BY <1>2 DEF Posts

(* They are as many as before.                                             *)
LEMMA PostsKept ==
  ASSUME TypeOK, NEW c \in Caller, caller' = caller
  PROVE  Posts(c)' >= Posts(c)
  <1>1. Posts(c)' = Posts(c) /\ Posts(c) \in Int
    BY PostsFacts DEF Posts
  <1> QED BY <1>1

(* Nothing was posted or executed for a caller.                            *)
LEMMA CountKept ==
  ASSUME TypeOK, TypeOK', NEW c \in Caller, CountedOf(c),
         Unserved(c)' \subseteq Unserved(c), executed'[c] = executed[c], Posts(c)' >= Posts(c),
         caller'[c].pc # "idle" => caller'[c].attempt >= 1,
         caller'[c].result = "ok" => executed[c] >= 1
  PROVE  CountedOf(c)'
  <1>1. /\ IsFiniteSet(Unserved(c)') /\ Cardinality(Unserved(c)') <= Cardinality(Unserved(c))
        /\ Cardinality(Unserved(c)') \in Nat /\ Cardinality(Unserved(c)) \in Nat
    BY FS_Subset, FS_CardinalityType DEF CountedOf
  <1>2. executed[c] \in Nat /\ caller[c].attempt \in Nat /\ caller'[c].attempt \in Nat
    <2>1. caller[c] \in Calling /\ caller'[c] \in Calling /\ executed[c] \in Nat /\ MaxRetries \in Nat
      BY ClientConstants DEF TypeOK, Calling
    <2> QED BY <2>1 DEF Calling
  <1>3. executed[c] + Cardinality(Unserved(c)) <= Posts(c) /\ Posts(c) \in Int /\ Posts(c)' \in Int
    BY <1>2 DEF CountedOf, Posts
  <1>4. executed'[c] + Cardinality(Unserved(c)') <= Posts(c)'
    BY <1>1, <1>2, <1>3
  <1> QED BY <1>1, <1>4 DEF CountedOf

-----------------------------------------------------------------------------
(* The server *)

(* What the server makes of a request.                                     *)
LEMMA ServeFacts ==
  ASSUME TypeOK, NEW r \in Post, NEW answer, Serve(r, answer)
  PROVE  /\ Answer(r).answer \in Answers \ {"", "lost"}
         /\ sess' \in [DOMAIN sess' -> {"none", "sent", "accepted"}] /\ DOMAIN sess' \subseteq Nat
         /\ executed' \in [Caller -> Nat]
         /\ \A c \in Caller : /\ executed'[c] >= executed[c] /\ executed'[c] <= executed[c] + 1
                              /\ executed'[c] # executed[c] =>
                                    r.kind = "command" /\ r.who = c /\ r.n = caller[c].left
         /\ r.kind = "command" /\ answer = "ok" /\ r.who \in Caller /\ r.n = caller[r.who].left
               => executed'[r.who] >= 1
  <1>1. r.tls \in Nat /\ r.kind \in {"hello", "handshake", "command"}
    BY DEF Post
  <1> DEFINE s == IF r.tls \in DOMAIN sess THEN sess[r.tls] ELSE "none"
  <1>2. s \in {"none", "sent", "accepted"}
    BY DEF TypeOK
  <1>3. /\ Answer(r).answer \in Answers \ {"", "lost"}
        /\ Answer(r).sess \in {"none", "sent", "accepted"}
    <2>1. CASE r.kind = "hello"
      <3>1. Answer(r) = [answer |-> "hello", sess |-> "sent"]
        BY <2>1 DEF Answer
      <3> QED BY <3>1 DEF Answers
    <2>2. CASE r.kind = "handshake" /\ s = "none"
      <3>1. Answer(r) = [answer |-> "SESSION", sess |-> s]
        BY <2>2 DEF Answer
      <3> QED BY <2>2, <3>1 DEF Answers
    <2>3. CASE r.kind = "handshake" /\ s # "none"
      <3>1. Answer(r) = [answer |-> "ok", sess |-> "accepted"]
        BY <2>3 DEF Answer
      <3> QED BY <3>1 DEF Answers
    <2>4. CASE r.kind = "command" /\ s = "none"
      <3>1. Answer(r) = [answer |-> "SESSION", sess |-> s]
        BY <2>4 DEF Answer
      <3> QED BY <2>4, <3>1 DEF Answers
    <2>5. CASE r.kind = "command" /\ s = "sent"
      <3>1. Answer(r) = [answer |-> "HANDSHAKE", sess |-> s]
        BY <2>5 DEF Answer
      <3> QED BY <2>5, <3>1 DEF Answers
    <2>6. CASE r.kind = "command" /\ s = "accepted"
      <3>1. Answer(r) = [answer |-> IF r.sid = r.tls THEN "ok" ELSE "mismatch", sess |-> s]
        BY <2>6 DEF Answer
      <3> QED BY <2>6, <3>1 DEF Answers
    <2> QED BY <1>1, <1>2, <2>1, <2>2, <2>3, <2>4, <2>5, <2>6
  <1>4. /\ DOMAIN sess' = DOMAIN sess \cup {r.tls}
        /\ \A t \in DOMAIN sess \cup {r.tls} : sess'[t] \in {"none", "sent", "accepted"}
    BY <1>3 DEF Serve, TypeOK
  <1>5. /\ sess' = [t \in DOMAIN sess \cup {r.tls} |-> sess'[t]]
        /\ DOMAIN sess' \subseteq Nat
    BY <1>1, <1>4 DEF Serve, TypeOK
  <1>6. sess' \in [DOMAIN sess' -> {"none", "sent", "accepted"}]
    BY <1>4, <1>5
  <1>7. executed \in [Caller -> Nat]
    BY DEF TypeOK
  <1>8. /\ executed' \in [Caller -> Nat]
        /\ \A c \in Caller :
             executed'[c] = IF r.kind = "command" /\ answer = "ok" /\ r.n = caller[r.who].left /\ r.who = c
                            THEN executed[c] + 1 ELSE executed[c]
    <2>1. CASE r.kind = "command" /\ answer = "ok" /\ r.n = caller[r.who].left
      <3>1. PICK w : w = r.who
        OBVIOUS
      <3>2. executed' = [executed EXCEPT ![w] = @ + 1]
        BY <2>1, <3>1 DEF Serve
      <3>3. /\ executed' \in [Caller -> Nat]
            /\ \A c \in Caller : executed'[c] = IF w = c THEN executed[c] + 1 ELSE executed[c]
        <4>1. CASE w \in Caller
          <5>1. executed[w] + 1 \in Nat /\ executed' = [executed EXCEPT ![w] = executed[w] + 1]
            BY <1>7, <3>2, <4>1
          <5> QED BY <1>7, <4>1, <5>1
        <4>2. CASE w \notin Caller
          BY <1>7, <3>2, <4>2
        <4> QED BY <4>1, <4>2
      <3> QED BY <2>1, <3>1, <3>3
    <2>2. CASE ~(r.kind = "command" /\ answer = "ok" /\ r.n = caller[r.who].left)
      <3>1. executed' = executed
        BY <2>2 DEF Serve
      <3> QED BY <1>7, <2>2, <3>1
    <2> QED BY <2>1, <2>2
  <1>9. \A c \in Caller : /\ executed'[c] >= executed[c] /\ executed'[c] <= executed[c] + 1
                          /\ executed'[c] # executed[c] =>
                                r.kind = "command" /\ r.who = c /\ r.n = caller[c].left
    <2> TAKE c \in Caller
    <2>1. executed[c] \in Nat
      BY <1>7
    <2> QED BY <1>8, <2>1
  <1>10. r.kind = "command" /\ answer = "ok" /\ r.who \in Caller /\ r.n = caller[r.who].left
            => executed'[r.who] >= 1
    <2>1. \A c \in Caller : executed[c] \in Nat
      BY <1>7
    <2> QED BY <1>8, <2>1
  <1> QED BY <1>3, <1>5, <1>6, <1>8, <1>9, <1>10

(* A request of the running command of a caller is handled.                *)
LEMMA CountServed ==
  ASSUME TypeOK, TypeOK', NEW c \in Caller, CountedOf(c), NEW r, r \in Unserved(c),
         Unserved(c)' \subseteq Unserved(c) \ {r},
         executed'[c] >= executed[c], executed'[c] <= executed[c] + 1, caller' = caller
  PROVE  CountedOf(c)'
  <1>1. /\ IsFiniteSet(Unserved(c) \ {r})
        /\ Cardinality(Unserved(c) \ {r}) = Cardinality(Unserved(c)) - 1
    BY FS_RemoveElement DEF CountedOf
  <1>2. /\ IsFiniteSet(Unserved(c)') /\ Cardinality(Unserved(c)') <= Cardinality(Unserved(c) \ {r})
        /\ Cardinality(Unserved(c)') \in Nat /\ Cardinality(Unserved(c)) \in Nat
    BY <1>1, FS_Subset, FS_CardinalityType DEF CountedOf
  <1>3. executed[c] \in Nat /\ executed'[c] \in Nat /\ Posts(c) \in Int /\ Posts(c)' = Posts(c)
    BY PostsFacts DEF TypeOK, Posts
  <1>4. executed'[c] + Cardinality(Unserved(c)') <= Posts(c)'
    BY <1>1, <1>2, <1>3 DEF CountedOf
  <1>5. caller'[c].result = "ok" => executed'[c] >= 1
    BY <1>3 DEF CountedOf
  <1> QED BY <1>2, <1>4, <1>5 DEF CountedOf

(* The server handles a request under way.                                 *)
LEMMA HandlesKeeps ==
  ASSUME IInv, ServerHandles
  PROVE  IInv'
  <1>1. /\ TypeOK /\ PoolInv /\ Connecting /\ NoPostOnClosed /\ Waiting /\ Posting /\ Counted
        /\ UNCHANGED <<mode, pool, conn, reactions, jobs, caller, late, tls, shut>>
    BY DEF IInv, ServerHandles
  <1>2. PICK r \in net : r.answer = "" /\ \E ans \in {Answer(r).answer, "bad", "error"} :
           Serve(r, ans) /\ net' = (net \ {r}) \cup {[r EXCEPT !.answer = ans]}
    BY DEF ServerHandles
  <1>3. PICK ans : /\ ans \in {Answer(r).answer, "bad", "error"}
                   /\ Serve(r, ans) /\ net' = (net \ {r}) \cup {[r EXCEPT !.answer = ans]}
    BY <1>2
  <1>4. r \in Post
    BY <1>1 DEF TypeOK
  <1>5. /\ ans \in Answers \ {""}
        /\ sess' \in [DOMAIN sess' -> {"none", "sent", "accepted"}] /\ DOMAIN sess' \subseteq Nat
        /\ executed' \in [Caller -> Nat]
        /\ \A c \in Caller : /\ executed'[c] >= executed[c] /\ executed'[c] <= executed[c] + 1
                             /\ executed'[c] # executed[c] =>
                                   r.kind = "command" /\ r.who = c /\ r.n = caller[c].left
        /\ r.kind = "command" /\ ans = "ok" /\ r.who \in Caller /\ r.n = caller[r.who].left
               => executed'[r.who] >= 1
    BY <1>1, <1>3, <1>4, ServeFacts DEF Answers
  <1>6. PICK new : /\ new = [r EXCEPT !.answer = ans] /\ net' = (net \ {r}) \cup {new}
    BY <1>3
  <1>7. /\ new \in Post /\ new.answer = ans /\ new.kind = r.kind /\ new.who = r.who
        /\ new.conn = r.conn /\ new.n = r.n
    BY <1>4, <1>5, <1>6 DEF Post
  <1>8. Conn' = Conn /\ \A p \in Conn : Settled(p)' <=> Settled(p)
    BY <1>1 DEF Conn, Settled
  <1>9. TypeOK'
    <2>1. net' \subseteq Post
      BY <1>1, <1>6, <1>7 DEF TypeOK
    <2>2. \A x \in net' \cup late' : x.conn \in Conn'
      BY <1>1, <1>6, <1>7, <1>8 DEF TypeOK
    <2> QED BY <1>1, <1>5, <2>1, <2>2 DEF TypeOK
  <1>10. PoolInv'
    BY <1>1, <1>8, PoolKept
  <1>11. Connecting'
    <2>1. \A x \in net' : x.kind # "command" => x.conn \in Conn /\ ~Settled(x.conn)
      BY <1>1, <1>6, <1>7 DEF Connecting
    <2>2. ASSUME NEW r1 \in net', NEW r2 \in net', r1.kind # "command", r2.kind # "command", r1.conn = r2.conn
          PROVE  r1 = r2
      <3>1. \A x \in net : x.kind # "command" /\ x.conn = r.conn /\ r.kind # "command" => x = r
        BY <1>1 DEF Connecting
      <3>2. CASE r1 = new
        BY <1>6, <1>7, <2>2, <3>1, <3>2
      <3>3. CASE r2 = new
        BY <1>6, <1>7, <2>2, <3>1, <3>3
      <3>4. CASE r1 \in net /\ r2 \in net
        BY <1>1, <2>2, <3>4 DEF Connecting
      <3> QED BY <1>6, <3>2, <3>3, <3>4
    <2> QED BY <1>8, <2>1, <2>2 DEF Connecting
  <1>12. Waiting'
    BY <1>1, <1>8 DEF Waiting, Waits
  <1>13. Posting'
    <2>1. \A x \in net' : x.kind = "command" =>
            /\ x.who \in Caller
            /\ caller[x.who].pc = "posted" /\ x.n = caller[x.who].left /\ x.conn = caller[x.who].conn
            /\ x.answer = "ok" => executed'[x.who] >= 1
      <3> SUFFICES ASSUME NEW x \in net', x.kind = "command"
                   PROVE  /\ x.who \in Caller
                          /\ caller[x.who].pc = "posted" /\ x.n = caller[x.who].left
                          /\ x.conn = caller[x.who].conn
                          /\ x.answer = "ok" => executed'[x.who] >= 1
        OBVIOUS
      <3>1. CASE x = new
        BY <1>1, <1>5, <1>7, <3>1 DEF Posting
      <3>2. CASE x \in net
        <4>1. /\ x.who \in Caller
              /\ caller[x.who].pc = "posted" /\ x.n = caller[x.who].left
              /\ x.conn = caller[x.who].conn
              /\ x.answer = "ok" => executed[x.who] >= 1
          BY <1>1, <3>2 DEF Posting
        <4>2. executed[x.who] \in Nat /\ executed'[x.who] \in Nat /\ executed'[x.who] >= executed[x.who]
          BY <1>1, <1>5, <4>1 DEF TypeOK
        <4> QED BY <4>1, <4>2
      <3> QED BY <1>6, <3>1, <3>2
    <2>2. \A r1, r2 \in net' : r1.kind = "command" /\ r2.kind = "command" /\ r1.who = r2.who => r1 = r2
      <3> SUFFICES ASSUME NEW r1 \in net', NEW r2 \in net',
                          r1.kind = "command", r2.kind = "command", r1.who = r2.who
                   PROVE  r1 = r2
        OBVIOUS
      <3>1. \A x \in net : x.kind = "command" /\ x.who = r.who /\ r.kind = "command" => x = r
        BY <1>1 DEF Posting
      <3>2. CASE r1 = new
        BY <1>6, <1>7, <3>1, <3>2
      <3>3. CASE r2 = new
        BY <1>6, <1>7, <3>1, <3>3
      <3>4. CASE r1 \in net /\ r2 \in net
        BY <1>1, <3>4 DEF Posting
      <3> QED BY <1>6, <3>2, <3>3, <3>4
    <2> QED BY <1>1, <1>8, <2>1, <2>2 DEF Posting
  <1>14. Counted'
    <2> SUFFICES ASSUME NEW c \in Caller PROVE CountedOf(c)'
      BY DEF Counted
    <2>1. CountedOf(c) /\ executed[c] \in Nat
      BY <1>1 DEF Counted, TypeOK
    <2>2. Unserved(c)' \subseteq Unserved(c) \ {r}
      <3>1. r \in late /\ r.kind = "command" /\ r.who = c => r.n # caller[c].left
        BY <1>1 DEF Posting
      <3> QED BY <1>1, <1>5, <1>6, <1>7, <3>1 DEF Unserved
    <2>3. CASE r \in Unserved(c)
      BY <1>1, <1>5, <1>9, <2>1, <2>2, <2>3, CountServed
    <2>4. CASE r \notin Unserved(c)
      <3>1. executed'[c] = executed[c]
        BY <1>1, <1>2, <1>5, <2>4 DEF Unserved
      <3>2. Posts(c)' = Posts(c) /\ Posts(c) \in Int
        BY <1>1, PostsFacts DEF Posts
      <3> QED BY <1>1, <1>9, <2>1, <2>2, <3>1, <3>2, CountKept DEF CountedOf
    <2> QED BY <2>3, <2>4
  <1> QED BY <1>1, <1>9, <1>10, <1>11, <1>12, <1>13, <1>14 DEF IInv, NoPostOnClosed

(* The server handles a request that the client gave up.                   *)
LEMMA HandlesLateKeeps ==
  ASSUME IInv, ServerHandlesLate
  PROVE  IInv'
  <1>1. /\ TypeOK /\ PoolInv /\ Connecting /\ NoPostOnClosed /\ Waiting /\ Posting /\ Counted
        /\ UNCHANGED <<mode, pool, conn, reactions, jobs, caller, net, tls, shut>>
    BY DEF IInv, ServerHandlesLate
  <1>2. PICK r \in late : Serve(r, Answer(r).answer) /\ late' = late \ {r}
    BY DEF ServerHandlesLate
  <1>3. r \in Post
    BY <1>1 DEF TypeOK
  <1>4. /\ sess' \in [DOMAIN sess' -> {"none", "sent", "accepted"}] /\ DOMAIN sess' \subseteq Nat
        /\ executed' \in [Caller -> Nat]
        /\ \A c \in Caller : /\ executed'[c] >= executed[c] /\ executed'[c] <= executed[c] + 1
                             /\ executed'[c] # executed[c] =>
                                   r.kind = "command" /\ r.who = c /\ r.n = caller[c].left
    BY <1>1, <1>2, <1>3, ServeFacts
  <1>5. Conn' = Conn /\ \A p \in Conn : Settled(p)' <=> Settled(p)
    BY <1>1 DEF Conn, Settled
  <1>6. TypeOK'
    BY <1>1, <1>2, <1>4, <1>5 DEF TypeOK
  <1>7. PoolInv'
    BY <1>1, <1>5, PoolKept
  <1>8. Connecting'
    BY <1>1, <1>5 DEF Connecting
  <1>9. Waiting'
    BY <1>1, <1>5 DEF Waiting, Waits
  <1>10. Posting'
    <2>1. \A x \in net' : x.kind = "command" =>
            /\ x.who \in Caller
            /\ caller[x.who].pc = "posted" /\ x.n = caller[x.who].left /\ x.conn = caller[x.who].conn
            /\ x.answer = "ok" => executed'[x.who] >= 1
      <3> SUFFICES ASSUME NEW x \in net, x.kind = "command", x.answer = "ok", x.who \in Caller
                   PROVE  executed'[x.who] >= 1
        BY <1>1 DEF Posting
      <3>1. executed[x.who] >= 1
        BY <1>1 DEF Posting
      <3>2. executed[x.who] \in Nat /\ executed'[x.who] \in Nat /\ executed'[x.who] >= executed[x.who]
        BY <1>1, <1>4 DEF TypeOK
      <3> QED BY <3>1, <3>2
    <2> QED BY <1>1, <1>2, <1>5, <2>1 DEF Posting
  <1>11. Counted'
    <2> SUFFICES ASSUME NEW c \in Caller PROVE CountedOf(c)'
      BY DEF Counted
    <2>1. CountedOf(c) /\ executed[c] \in Nat
      BY <1>1 DEF Counted, TypeOK
    <2>2. Unserved(c)' \subseteq Unserved(c)
      BY <1>1, <1>2 DEF Unserved
    <2>3. CASE r \in Unserved(c)
      <3>1. r \notin net
        BY <1>1, <2>3 DEF Posting, Unserved
      <3>2. Unserved(c)' \subseteq Unserved(c) \ {r}
        BY <1>1, <1>2, <3>1 DEF Unserved
      <3> QED BY <1>1, <1>4, <1>6, <2>1, <2>3, <3>2, CountServed
    <2>4. CASE r \notin Unserved(c)
      <3>1. executed'[c] = executed[c]
        BY <1>1, <1>2, <1>4, <2>4 DEF Unserved, Posting
      <3>2. Posts(c)' = Posts(c) /\ Posts(c) \in Int
        BY <1>1, PostsFacts DEF Posts
      <3> QED BY <1>1, <1>6, <2>1, <2>2, <3>1, <3>2, CountKept DEF CountedOf
    <2> QED BY <2>3, <2>4
  <1> QED BY <1>1, <1>6, <1>7, <1>8, <1>9, <1>10, <1>11 DEF IInv, NoPostOnClosed

-----------------------------------------------------------------------------
(* Commands that end and commands that are tried again                     *)

(* The pooled connection of an agent, if any, leaves the pool.             *)
Retired(a) ==
  /\ jobs' = JobsLeft(a) /\ reactions' = ReactionsLeft(a)
  /\ pool' = [pool EXCEPT ![a] = NoConn]

(* A request is given up: unless it was answered, it may arrive later.     *)
GivenUp(r) == late' = late \/ (r.answer = "" /\ late' = late \cup {r})

(* The pool, when a connection leaves it.                                  *)
LEMMA RetiredFacts ==
  ASSUME TypeOK, PoolInv, jobs = <<>>, NEW a \in Agent, Retired(a), UNCHANGED conn
  PROVE  /\ PoolInv'
         /\ pool' \in [Agent -> Nat] /\ jobs' \in Seq(Job)
         /\ reactions' \in Seq(Seq(Job)) /\ Len(reactions') = Len(conn)
         /\ \A i \in DOMAIN jobs' : jobs'[i].do # "await"
         /\ \A p \in Conn : \A i \in DOMAIN reactions'[p] :
              reactions'[p][i].do = "await" => i \in DOMAIN reactions[p] /\ reactions'[p][i] = reactions[p][i]
  <1>1. /\ jobs' = JobsLeft(a) /\ reactions' = ReactionsLeft(a)
        /\ pool' = [pool EXCEPT ![a] = NoConn]
    BY DEF Retired
  <1>2. /\ jobs' \in Seq(Job) /\ reactions' \in Seq(Seq(Job)) /\ Len(reactions') = Len(conn)
        /\ pool' \in [Agent -> Nat]
    BY <1>1, LeftFacts DEF TypeOK, NoConn
  <1>3. /\ \A i \in DOMAIN jobs' : jobs'[i].do # "await"
        /\ \A p \in Conn : \A i \in DOMAIN reactions'[p] :
             reactions'[p][i].do = "await" => i \in DOMAIN reactions[p] /\ reactions'[p][i] = reactions[p][i]
    BY <1>1, LeftWaits
  <1>4. PoolInv'
    <2>1. CASE pool[a] = NoConn
      <3>1. pool' = pool /\ reactions' = reactions /\ jobs' = jobs
        BY <1>1, <2>1 DEF JobsLeft, ReactionsLeft, TypeOK
      <3>2. Conn' = Conn
        BY DEF Conn
      <3> QED BY <3>1, <3>2, PoolKept
    <2>2. CASE pool[a] # NoConn
      <3>1. React(CloseJob(pool[a], a))
        BY <1>1, <2>2 DEF JobsLeft, ReactionsLeft, React
      <3> QED BY <1>1, <2>2, <3>1, PoolRetired
    <2> QED BY <2>1, <2>2
  <1> QED BY <1>2, <1>3, <1>4

(* A command that is under way.                                            *)
LEMMA PostFacts ==
  ASSUME IInv, NEW r \in net, r.kind = "command"
  PROVE  /\ r \in Post /\ r.who \in Caller /\ AgentOf[r.who] \in Agent
         /\ caller[r.who] \in Calling /\ caller[r.who].pc = "posted" /\ r.n = caller[r.who].left
         /\ r.conn = caller[r.who].conn /\ r.conn \in Conn
         /\ r.answer = "ok" => executed[r.who] >= 1
         /\ \A x \in net : x.kind = "command" /\ x.who = r.who => x = r
         /\ caller[r.who].attempt \in 1..MaxRetries
  <1>1. /\ r \in Post /\ r.who \in Caller /\ caller[r.who].pc = "posted" /\ r.n = caller[r.who].left
        /\ r.conn = caller[r.who].conn /\ r.conn \in Conn
        /\ r.answer = "ok" => executed[r.who] >= 1
        /\ \A x \in net : x.kind = "command" /\ x.who = r.who => x = r
    BY DEF IInv, TypeOK, Posting
  <1>2. caller[r.who] \in Calling /\ AgentOf[r.who] \in Agent /\ MaxRetries \in Nat
    BY <1>1, ClientConstants DEF IInv, TypeOK
  <1>3. caller[r.who].attempt >= 1
    BY <1>1 DEF IInv, Counted, CountedOf
  <1>4. caller[r.who].attempt \in 1..MaxRetries
    BY <1>2, <1>3 DEF Calling
  <1> QED BY <1>1, <1>2, <1>4

(* A command ends, its connection may leave the pool.                      *)
LEMMA EndKeeps ==
  ASSUME IInv, jobs = <<>>, NEW r \in net, r.kind = "command",
         NEW result \in {"ok", "permanent", "retriable"}, result = "ok" => r.answer = "ok",
         Finish(r.who, result), net' = net \ {r}, GivenUp(r),
         UNCHANGED <<mode, conn, sess, tls, executed>>,
         UNCHANGED <<pool, reactions, jobs>> \/ Retired(AgentOf[r.who])
  PROVE  IInv'
  <1>1. TypeOK /\ PoolInv /\ Connecting /\ NoPostOnClosed /\ Waiting /\ Posting /\ Counted
    BY DEF IInv
  <1>2. PICK c : c = r.who
    OBVIOUS
  <1>3. /\ r \in Post /\ c \in Caller /\ AgentOf[c] \in Agent
        /\ caller[c].pc = "posted" /\ r.n = caller[c].left
        /\ r.answer = "ok" => executed[c] >= 1
        /\ \A x \in net : x.kind = "command" /\ x.who = c => x = r
    BY <1>2, PostFacts
  <1>4. /\ caller' \in [Caller -> Calling]
        /\ \A d \in Caller : d # c => caller'[d] = caller[d]
        /\ caller'[c].pc = "idle" /\ caller'[c].result = result
        /\ caller'[c].conn = caller[c].conn /\ caller'[c].attempt = caller[c].attempt
        /\ caller'[c].left = caller[c].left
    BY <1>1, <1>2, <1>3, FinishFacts DEF Results
  <1>5. Conn' = Conn /\ \A p \in Conn : Settled(p)' <=> Settled(p)
    BY DEF Conn, Settled
  <1>6. /\ \A x \in net' : x \in net /\ x # r
        /\ \A x \in late' : x \in late \/ (x = r /\ r.answer = "")
    BY DEF GivenUp
  <1>7. /\ PoolInv'
        /\ pool' \in [Agent -> Nat] /\ jobs' \in Seq(Job)
        /\ reactions' \in Seq(Seq(Job)) /\ Len(reactions') = Len(conn)
        /\ \A i \in DOMAIN jobs' : jobs'[i].do # "await"
        /\ \A p \in Conn : \A i \in DOMAIN reactions'[p] :
             reactions'[p][i].do = "await" => i \in DOMAIN reactions[p] /\ reactions'[p][i] = reactions[p][i]
    <2>1. CASE UNCHANGED <<pool, reactions, jobs>>
      <3>1. PoolInv'
        BY <1>1, <1>5, <2>1, PoolKept
      <3>2. DOMAIN jobs' = {}
        BY <1>1, <2>1, Facts
      <3> QED BY <1>1, <2>1, <3>1, <3>2 DEF TypeOK
    <2>2. CASE Retired(AgentOf[c])
      BY <1>1, <1>3, <2>2, RetiredFacts
    <2> QED BY <1>2, <2>1, <2>2
  <1>8. TypeOK'
    <2>1. /\ net' \subseteq Post /\ late' \subseteq Post
          /\ \A x \in net' \cup late' : x.conn \in Conn'
      BY <1>1, <1>3, <1>5, <1>6 DEF TypeOK
    <2> QED BY <1>1, <1>4, <1>7, <2>1 DEF TypeOK
  <1>9. Connecting'
    BY <1>1, <1>5, <1>6 DEF Connecting
  <1>10. Waiting'
    <2>1. \A d \in Caller : caller[d].pc = "await"
             => caller'[d].pc = "await" /\ caller'[d].conn = caller[d].conn
      BY <1>3, <1>4
    <2> QED BY <1>1, <1>5, <1>7, <2>1, StillWaiting
  <1>11. Posting'
    <2>1. \A d \in Caller : caller'[d].pc # "idle" => caller'[d].conn \in Conn
      BY <1>1, <1>4 DEF Posting
    <2>2. \A x \in net' : x.kind = "command" =>
            /\ x.who \in Caller
            /\ caller'[x.who].pc = "posted" /\ x.n = caller'[x.who].left /\ x.conn = caller'[x.who].conn
            /\ x.answer = "ok" => executed[x.who] >= 1
      BY ZenonT(30), <1>1, <1>3, <1>4, <1>6 DEF Posting
    <2>3. \A r1, r2 \in net' : r1.kind = "command" /\ r2.kind = "command" /\ r1.who = r2.who => r1 = r2
      BY <1>1, <1>6 DEF Posting
    <2>4. \A x \in late' : x.answer = ""
      BY <1>1, <1>6 DEF Posting
    <2>5. \A x \in late' : x.kind = "command" =>
            /\ x.who \in Caller
            /\ x.n >= caller'[x.who].left
            /\ x.n = caller'[x.who].left /\ caller'[x.who].pc # "idle" => x.conn # caller'[x.who].conn
      <3> SUFFICES ASSUME NEW x \in late', x.kind = "command"
                   PROVE  /\ x.who \in Caller
                          /\ x.n >= caller'[x.who].left
                          /\ x.n = caller'[x.who].left /\ caller'[x.who].pc # "idle"
                                => x.conn # caller'[x.who].conn
        OBVIOUS
      <3>1. CASE x = r
        <4>1. r.n \in Nat
          BY <1>3 DEF Post
        <4> QED BY <1>2, <1>3, <1>4, <3>1, <4>1
      <3>2. CASE x \in late
        BY <1>1, <1>4, <3>2 DEF Posting
      <3> QED BY <1>6, <3>1, <3>2
    <2> QED BY <1>5, <2>1, <2>2, <2>3, <2>4, <2>5 DEF Posting
  <1>12. Counted'
    <2> SUFFICES ASSUME NEW d \in Caller PROVE CountedOf(d)'
      BY DEF Counted
    <2>1. CountedOf(d) /\ executed[d] \in Nat
      BY <1>1 DEF Counted, TypeOK
    <2>2. Unserved(d)' \subseteq Unserved(d)
      <3>1. caller'[d].left = caller[d].left
        BY <1>4
      <3> QED BY <1>6, <3>1 DEF Unserved
    <2>3. Posts(d)' >= Posts(d)
      <3>1. caller[d].attempt \in Nat
        BY <1>1, PostsFacts
      <3>2. Posts(d)' = Posts(d) /\ Posts(d) \in Int
        BY <1>3, <1>4, <3>1 DEF Posts
      <3> QED BY <3>2
    <2>4. /\ caller'[d].pc # "idle" => caller'[d].attempt >= 1
          /\ caller'[d].result = "ok" => executed[d] >= 1
      BY <1>2, <1>3, <1>4, <2>1 DEF CountedOf
    <2> QED BY <1>1, <1>8, <2>1, <2>2, <2>3, <2>4, CountKept
  <1>13. NoPostOnClosed'
    BY <1>1, <1>4 DEF NoPostOnClosed
  <1> QED BY <1>7, <1>8, <1>9, <1>10, <1>11, <1>12, <1>13 DEF IInv

(* The state after a new connection was made for a caller.                 *)
LEMMA RenewedFacts ==
  ASSUME TypeOK, PoolInv, Connecting, Waiting, jobs = <<>>, NEW a \in Agent, NEW c \in Caller,
         Renewed(a, c),
         caller[c].pc # "await", \A d \in Caller : d # c => caller'[d] = caller[d],
         caller'[c].pc = "await", caller'[c].conn = Len(conn) + 1,
         NEW rest \in SUBSET net, net' = rest \cup {Hello(Len(conn) + 1, a)}
  PROVE  /\ PoolInv' /\ Waiting' /\ Connecting'
         /\ pool' \in [Agent -> Nat] /\ conn' \in Seq(Connection) /\ jobs' \in Seq(Job)
         /\ reactions' \in Seq(Seq(Job)) /\ Len(reactions') = Len(conn')
         /\ Conn' = Conn \cup {Len(conn) + 1} /\ Len(conn) + 1 \notin Conn /\ Len(conn) + 1 \in Nat
         /\ Hello(Len(conn) + 1, a) \in Post /\ Hello(Len(conn) + 1, a).kind = "hello"
         /\ Hello(Len(conn) + 1, a).conn = Len(conn) + 1
  <1>1. PICK p : p = Len(conn) + 1
    OBVIOUS
  <1>2. /\ reactions' \in Seq(Seq(Job)) /\ Len(reactions') = Len(conn) + 1
        /\ \A x \in Conn : reactions'[x] = ReactionsLeft(a)[x]
        /\ reactions'[p] = FirstReactions(p, a, c)
        /\ p \in Nat \ {0}
    BY <1>1, RenewFacts
  <1>3. /\ conn' \in Seq(Connection) /\ Len(conn') = Len(conn) + 1
        /\ Conn' = Conn \cup {p} /\ p \notin Conn
        /\ \A x \in Conn : conn'[x] = conn[x]
        /\ conn'[p] = NewConn(a)
    BY <1>1, NewFacts DEF Renewed
  <1>4. /\ pool' \in [Agent -> Nat] /\ jobs' \in Seq(Job)
    <2>1. pool' = [pool EXCEPT ![a] = p] /\ jobs' = JobsLeft(a)
      BY <1>1 DEF Renewed
    <2> QED BY <1>2, <2>1, LeftFacts DEF TypeOK
  <1>5. PoolInv'
    BY PoolRenewed
  <1>6. PICK h : h = Hello(p, a)
    OBVIOUS
  <1>7. h \in Post /\ h.kind = "hello" /\ h.conn = p
    <2>1. TlsOf(p) \in Nat
      BY <1>2 DEF TlsOf, TypeOK
    <2>2. h = [kind |-> "hello", who |-> a, conn |-> p, sid |-> 0, n |-> 0, tls |-> TlsOf(p), answer |-> ""]
      BY <1>6 DEF Hello, Request
    <2> QED BY <1>2, <2>1, <2>2 DEF Post, Answers
  <1>8. Waiting'
    <2>1. \A i \in DOMAIN jobs' : jobs'[i].do # "await"
      BY LeftWaits DEF Renewed
    <2>2. Waits(jobs)'
      BY <2>1 DEF Waits
    <2>3. ASSUME NEW x \in Conn PROVE Waits(reactions[x])'
      <3>1. Waits(reactions[x]) /\ Owned(reactions[x])
        BY DEF PoolInv, Ordered, Waiting
      <3>2. \A i \in DOMAIN reactions'[x] : reactions'[x][i].do = "await"
               => i \in DOMAIN reactions[x] /\ reactions'[x][i] = reactions[x][i]
        BY <1>2, LeftWaits
      <3>3. \A i \in DOMAIN reactions'[x] : reactions'[x][i].do = "await" =>
              /\ caller'[reactions'[x][i].who].pc = "await" /\ caller'[reactions'[x][i].who].conn = reactions'[x][i].conn
              /\ \A k \in DOMAIN reactions'[x] : reactions'[x][k].do = "await" /\ reactions'[x][k].who = reactions'[x][i].who => k = i
        BY <3>1, <3>2, WaitsKept
      <3> QED BY <3>3 DEF Waits
    <2>4. Waits(reactions[p])'
      <3>1. \A i \in DOMAIN reactions'[p] :
              \/ i = 1 /\ reactions'[p][i] = [do |-> "catch", conn |-> p, who |-> a]
              \/ i = 2 /\ reactions'[p][i] = [do |-> "await", conn |-> p, who |-> c]
        <4>1. /\ FirstReactions(p, a, c)[1] = [do |-> "catch", conn |-> p, who |-> a]
              /\ \A i \in DOMAIN FirstReactions(p, a, c) :
                    i = 1 \/ (i = 2 /\ FirstReactions(p, a, c)[i] = [do |-> "await", conn |-> p, who |-> c])
          BY <1>2, FirstFacts
        <4>2. reactions'[p] = FirstReactions(p, a, c)
          BY <1>2
        <4> QED BY <4>1, <4>2
      <3>2. \A i \in DOMAIN reactions'[p] : reactions'[p][i].do = "await" =>
              i = 2 /\ reactions'[p][i].conn = p /\ reactions'[p][i].who = c
        BY <3>1
      <3> QED BY <1>1, <3>2 DEF Waits
    <2> QED BY <1>3, <2>2, <2>3, <2>4 DEF Waiting
  <1>9. Connecting'
    <2>1. net' = rest \cup {h}
      BY <1>1, <1>6
    <2>2. \A x \in rest : x.kind # "command" => x.conn \in Conn /\ x.conn # p /\ ~Settled(x.conn)
      BY <1>3 DEF Connecting
    <2>3. \A x \in Conn' : conn'[x].state \in {"open", "failed"} => x \in Conn /\ Settled(x)
      BY <1>3 DEF NewConn, Settled
    <2>4. \A x \in net' : x.kind # "command" => x.conn \in Conn' /\ ~(conn'[x.conn].state \in {"open", "failed"})
      BY <1>3, <1>7, <2>1, <2>2, <2>3
    <2>5. ASSUME NEW r1 \in net', NEW r2 \in net', r1.kind # "command", r2.kind # "command", r1.conn = r2.conn
          PROVE  r1 = r2
      <3>1. CASE r1 = h
        BY <1>7, <2>1, <2>2, <2>5, <3>1
      <3>2. CASE r2 = h
        BY <1>7, <2>1, <2>2, <2>5, <3>2
      <3>3. CASE r1 \in rest /\ r2 \in rest
        BY <2>5, <3>3 DEF Connecting
      <3> QED BY <2>1, <3>1, <3>2, <3>3
    <2> QED BY <2>4, <2>5 DEF Connecting, Settled
  <1> QED BY <1>1, <1>2, <1>3, <1>4, <1>5, <1>6, <1>7, <1>8, <1>9

(* A command is tried again on a new connection.                           *)
LEMMA RetryKeeps ==
  ASSUME IInv, jobs = <<>>, NEW r \in net, r.kind = "command",
         caller[r.who].attempt < MaxRetries, Reconnect(r.who, net \ {r}), GivenUp(r),
         UNCHANGED <<mode, sess, tls, executed>>
  PROVE  IInv'
  <1>1. TypeOK /\ PoolInv /\ Connecting /\ NoPostOnClosed /\ Waiting /\ Posting /\ Counted
    BY DEF IInv
  <1>2. PICK c : c = r.who
    OBVIOUS
  <1>3. /\ r \in Post /\ c \in Caller /\ AgentOf[c] \in Agent
        /\ caller[c].pc = "posted" /\ r.n = caller[c].left
        /\ r.conn = caller[c].conn /\ r.conn \in Conn
        /\ \A x \in net : x.kind = "command" /\ x.who = c => x = r
    BY <1>2, PostFacts
  <1>4. PICK p : p = Len(conn) + 1
    OBVIOUS
  <1>5. PICK a \in Agent : a = AgentOf[c]
    BY <1>3
  <1>6. /\ Renewed(a, c) /\ net' = (net \ {r}) \cup {Hello(p, a)}
        /\ caller' = [caller EXCEPT ![c].pc = "await", ![c].conn = p, ![c].attempt = @ + 1]
    BY <1>2, <1>4, <1>5 DEF Reconnect, Renewed, JobsLeft, ReactionsLeft
  <1>7. p \in Nat
    BY <1>1, <1>4, Facts
  <1>8. /\ caller' \in [Caller -> Calling]
        /\ \A d \in Caller : d # c => caller'[d] = caller[d]
        /\ caller'[c].pc = "await" /\ caller'[c].conn = p
        /\ caller'[c].attempt = caller[c].attempt + 1 /\ caller'[c].attempt >= 1
        /\ caller'[c].left = caller[c].left /\ caller'[c].result = caller[c].result
    BY <1>1, <1>2, <1>3, <1>6, <1>7, RetryFacts
  <1>9. /\ PoolInv' /\ Waiting' /\ Connecting'
        /\ pool' \in [Agent -> Nat] /\ conn' \in Seq(Connection) /\ jobs' \in Seq(Job)
        /\ reactions' \in Seq(Seq(Job)) /\ Len(reactions') = Len(conn')
        /\ Conn' = Conn \cup {p} /\ p \notin Conn
        /\ Hello(p, a) \in Post /\ Hello(p, a).kind = "hello" /\ Hello(p, a).conn = p
    <2>1. net \ {r} \in SUBSET net
      OBVIOUS
    <2> QED BY ZenonT(30), <1>1, <1>3, <1>4, <1>6, <1>8, <2>1, RenewedFacts
  <1>10. /\ \A x \in net' : (x \in net /\ x # r) \/ x = Hello(p, a)
         /\ \A x \in late' : x \in late \/ (x = r /\ r.answer = "")
    BY <1>6 DEF GivenUp
  <1>11. TypeOK'
    <2>1. /\ net' \subseteq Post /\ late' \subseteq Post
          /\ \A x \in net' \cup late' : x.conn \in Conn'
      BY <1>1, <1>3, <1>9, <1>10 DEF TypeOK
    <2> QED BY <1>1, <1>8, <1>9, <2>1 DEF TypeOK
  <1>12. Posting'
    <2>1. \A d \in Caller : caller'[d].pc # "idle" => caller'[d].conn \in Conn'
      BY <1>1, <1>8, <1>9 DEF Posting
    <2>2. \A x \in net' : x.kind = "command" =>
            /\ x \in net /\ x # r
            /\ x.who \in Caller
            /\ caller'[x.who].pc = "posted" /\ x.n = caller'[x.who].left /\ x.conn = caller'[x.who].conn
            /\ x.answer = "ok" => executed[x.who] >= 1
      BY ZenonT(30), <1>1, <1>3, <1>8, <1>9, <1>10 DEF Posting
    <2>3. \A r1, r2 \in net' : r1.kind = "command" /\ r2.kind = "command" /\ r1.who = r2.who => r1 = r2
      BY <1>1, <2>2 DEF Posting
    <2>4. \A x \in late' : x.answer = ""
      BY <1>1, <1>10 DEF Posting
    <2>5. \A x \in late' : x.kind = "command" =>
            /\ x.who \in Caller
            /\ x.n >= caller'[x.who].left
            /\ x.n = caller'[x.who].left /\ caller'[x.who].pc # "idle" => x.conn # caller'[x.who].conn
      <3> SUFFICES ASSUME NEW x \in late', x.kind = "command"
                   PROVE  /\ x.who \in Caller
                          /\ x.n >= caller'[x.who].left
                          /\ x.n = caller'[x.who].left /\ caller'[x.who].pc # "idle"
                                => x.conn # caller'[x.who].conn
        OBVIOUS
      <3>0. x.conn # p
        BY <1>1, <1>3, <1>9, <1>10 DEF TypeOK
      <3>1. CASE x = r
        <4>1. r.n \in Nat
          BY <1>3 DEF Post
        <4> QED BY <1>2, <1>3, <1>8, <3>0, <3>1, <4>1
      <3>2. CASE x \in late
        BY <1>1, <1>8, <3>0, <3>2 DEF Posting
      <3> QED BY <1>10, <3>1, <3>2
    <2> QED BY <2>1, <2>2, <2>3, <2>4, <2>5 DEF Posting
  <1>13. Counted'
    <2> SUFFICES ASSUME NEW d \in Caller PROVE CountedOf(d)'
      BY DEF Counted
    <2>1. CountedOf(d) /\ executed[d] \in Nat
      BY <1>1 DEF Counted, TypeOK
    <2>2. Unserved(d)' \subseteq Unserved(d)
      <3>1. caller'[d].left = caller[d].left
        BY <1>8
      <3> QED BY <1>9, <1>10, <3>1 DEF Unserved
    <2>3. Posts(d)' >= Posts(d)
      <3>1. caller[d].attempt \in Nat
        BY <1>1, PostsFacts
      <3>2. Posts(d)' = Posts(d) /\ Posts(d) \in Int
        BY <1>3, <1>8, <3>1 DEF Posts
      <3> QED BY <3>2
    <2>4. /\ caller'[d].pc # "idle" => caller'[d].attempt >= 1
          /\ caller'[d].result = "ok" => executed[d] >= 1
      BY <1>8, <2>1 DEF CountedOf
    <2> QED BY <1>1, <1>11, <2>1, <2>2, <2>3, <2>4, CountKept
  <1>14. NoPostOnClosed'
    BY <1>1, <1>8 DEF NoPostOnClosed
  <1> QED BY <1>9, <1>11, <1>12, <1>13, <1>14 DEF IInv

-----------------------------------------------------------------------------
(* Commands that start                                                     *)

(* A caller waits for the pooled connection.                               *)
LEMMA JoinFacts ==
  ASSUME TypeOK, PoolInv, Waiting, jobs = <<>>, NEW a \in Agent, pool[a] # NoConn, NEW c \in Caller,
         React(AwaitJob(pool[a], c)), UNCHANGED <<pool, conn>>,
         caller[c].pc # "await", \A d \in Caller : d # c => caller'[d] = caller[d],
         caller'[c].pc = "await", caller'[c].conn = pool[a]
  PROVE  /\ PoolInv' /\ Waiting' /\ jobs' \in Seq(Job)
         /\ reactions' \in Seq(Seq(Job)) /\ Len(reactions') = Len(conn)
  <1> DEFINE j == AwaitJob(pool[a], c)
  <1>1. PICK p : p = pool[a]
    OBVIOUS
  <1>2. p \in Conn /\ j \in Job /\ j.conn = p /\ j.do = "await" /\ j.who = c
    BY <1>1, Facts, NoClose DEF AwaitJob, Job
  <1>3. jobs' = Jobs(j) /\ reactions' = Reactions(j)
    BY DEF React
  <1>4. PoolInv'
    BY PoolJoined
  <1> HIDE DEF j
  <1>5. /\ jobs' \in Seq(Job) /\ reactions' \in Seq(Seq(Job)) /\ Len(reactions') = Len(conn)
        /\ \A x \in Conn : reactions'[x] =
              IF x = p /\ ~Settled(x) THEN Append(reactions[x], j) ELSE reactions[x]
    BY <1>2, <1>3, ReactFacts DEF TypeOK
  <1>6. \A d \in Caller : caller[d].pc = "await"
             => caller'[d].pc = "await" /\ caller'[d].conn = caller[d].conn
    OBVIOUS
  <1>7. Waits(jobs)'
    <2>1. \A i \in DOMAIN Jobs(j) : Jobs(j)[i] = j /\ i = 1
      BY <1>2, Facts, AppendFacts, EmptySeq DEF Jobs, TypeOK
    <2> QED BY <1>1, <1>2, <1>3, <2>1 DEF Waits
  <1>8. ASSUME NEW x \in Conn PROVE Waits(reactions[x])'
    <2>1. Waits(reactions[x]) /\ Owned(reactions[x]) /\ reactions[x] \in Seq(Job)
      BY Facts DEF PoolInv, Ordered, Waiting
    <2>2. CASE reactions'[x] = reactions[x]
      <3>1. \A i \in DOMAIN reactions'[x] : reactions'[x][i].do = "await" =>
              /\ caller'[reactions'[x][i].who].pc = "await" /\ caller'[reactions'[x][i].who].conn = reactions'[x][i].conn
              /\ \A k \in DOMAIN reactions'[x] : reactions'[x][k].do = "await" /\ reactions'[x][k].who = reactions'[x][i].who => k = i
        BY <1>6, <2>1, <2>2, WaitsKept
      <3> QED BY <3>1 DEF Waits
    <2>3. CASE x = p /\ reactions'[x] = Append(reactions[x], j)
      <3>1. PICK q : q = reactions[x]
        OBVIOUS
      <3>2. PICK next : next = Append(q, j)
        OBVIOUS
      <3>3. q \in Seq(Job) /\ Waits(q) /\ Owned(q)
        BY <2>1, <3>1
      <3>4. /\ DOMAIN next = DOMAIN q \cup {Len(q) + 1} /\ next[Len(q) + 1] = j
            /\ \A i \in DOMAIN q : next[i] = q[i]
        BY <1>2, <3>2, <3>3, AppendFacts
      <3>5. \A i \in DOMAIN q : q[i].do = "await" =>
              /\ q[i].who \in Caller /\ q[i].who # c
              /\ caller'[q[i].who].pc = "await" /\ caller'[q[i].who].conn = q[i].conn
              /\ \A k \in DOMAIN q : q[k].do = "await" /\ q[k].who = q[i].who => k = i
        BY <3>3 DEF Waits, Owned
      <3>6. \A i \in DOMAIN next : next[i].do = "await" =>
              /\ caller'[next[i].who].pc = "await" /\ caller'[next[i].who].conn = next[i].conn
              /\ \A k \in DOMAIN next : next[k].do = "await" /\ next[k].who = next[i].who => k = i
        <4> SUFFICES ASSUME NEW i \in DOMAIN next, next[i].do = "await"
                     PROVE  /\ caller'[next[i].who].pc = "await" /\ caller'[next[i].who].conn = next[i].conn
                            /\ \A k \in DOMAIN next : next[k].do = "await" /\ next[k].who = next[i].who => k = i
          OBVIOUS
        <4>1. CASE i \in DOMAIN q
          BY <1>2, <3>4, <3>5, <4>1
        <4>2. CASE i = Len(q) + 1
          BY <1>1, <1>2, <3>4, <3>5, <4>2
        <4> QED BY <3>4, <4>1, <4>2
      <3>7. reactions'[x] = next
        BY <2>3, <3>1, <3>2
      <3> QED BY <3>6, <3>7 DEF Waits
    <2> QED BY <1>5, <2>2, <2>3
  <1>9. Waiting'
    <2>1. Conn' = Conn
      BY DEF Conn
    <2> QED BY <1>7, <1>8, <2>1 DEF Waiting
  <1> QED BY <1>4, <1>5, <1>9

(* sendXFTPCommand is called.                                              *)
LEMMA StartKeeps ==
  ASSUME IInv, NEW c \in Caller, Start(c)
  PROVE  IInv'
  <1>1. TypeOK /\ PoolInv /\ Connecting /\ NoPostOnClosed /\ Waiting /\ Posting /\ Counted
    BY DEF IInv
  <1>2. /\ jobs = <<>> /\ caller[c].pc = "idle" /\ caller[c].left > 0 /\ GetClient(c)
        /\ executed' = [executed EXCEPT ![c] = 0]
        /\ UNCHANGED <<mode, late, sess, tls, shut, faults>>
    BY DEF Start
  <1>3. PICK a \in Agent : a = AgentOf[c]
    BY ClientConstants
  <1>4. PICK p : p = IF pool[a] # NoConn THEN pool[a] ELSE Len(conn) + 1
    OBVIOUS
  <1>5. Started(c, p)
    BY <1>2, <1>3, <1>4 DEF GetClient, Started
  <1>6. p \in Nat
    BY <1>1, <1>4, Facts DEF TypeOK
  <1>7. /\ caller' \in [Caller -> Calling]
        /\ \A d \in Caller : d # c => caller'[d] = caller[d]
        /\ caller'[c].pc = "await" /\ caller'[c].conn = p /\ caller'[c].attempt = 1
        /\ caller'[c].left < caller[c].left /\ caller'[c].result = "none"
    BY <1>1, <1>2, <1>5, <1>6, StartFacts
  <1>8. /\ PoolInv' /\ Waiting' /\ Connecting'
        /\ pool' \in [Agent -> Nat] /\ conn' \in Seq(Connection) /\ jobs' \in Seq(Job)
        /\ reactions' \in Seq(Seq(Job)) /\ Len(reactions') = Len(conn')
        /\ Conn \subseteq Conn' /\ p \in Conn'
        /\ \A x \in net' : x \in net \/ (x \in Post /\ x.kind = "hello" /\ x.conn \in Conn')
    <2>1. CASE pool[a] # NoConn
      <3>1. /\ p = pool[a] /\ React(AwaitJob(pool[a], c)) /\ UNCHANGED <<pool, conn, net>>
        BY <1>2, <1>3, <1>4, <2>1 DEF GetClient
      <3>2. PoolInv' /\ Waiting' /\ jobs' \in Seq(Job) /\ reactions' \in Seq(Seq(Job)) /\ Len(reactions') = Len(conn)
        BY <1>1, <1>2, <1>7, <2>1, <3>1, JoinFacts
      <3>3. Conn' = Conn /\ (\A x \in Conn : Settled(x)' <=> Settled(x)) /\ p \in Conn
        BY <1>1, <2>1, <3>1, NoClose DEF Conn, Settled
      <3>4. Connecting'
        BY <1>1, <3>1, <3>3 DEF Connecting
      <3> QED BY <1>1, <3>1, <3>2, <3>3, <3>4 DEF TypeOK
    <2>2. CASE pool[a] = NoConn
      <3>1. p = Len(conn) + 1
        BY <1>4, <2>2
      <3>2. Renewed(a, c) /\ net' = net \cup {Hello(p, a)}
        BY <1>2, <1>3, <2>2, <3>1 DEF GetClient, Renewed, JobsLeft, ReactionsLeft
      <3>3. /\ PoolInv' /\ Waiting' /\ Connecting'
            /\ pool' \in [Agent -> Nat] /\ conn' \in Seq(Connection) /\ jobs' \in Seq(Job)
            /\ reactions' \in Seq(Seq(Job)) /\ Len(reactions') = Len(conn')
            /\ Conn' = Conn \cup {p}
            /\ Hello(p, a) \in Post /\ Hello(p, a).kind = "hello" /\ Hello(p, a).conn = p
        BY <1>1, <1>2, <1>7, <3>1, <3>2, RenewedFacts
      <3> QED BY <3>2, <3>3
    <2> QED BY <2>1, <2>2
  <1>9. executed' \in [Caller -> Nat] /\ executed'[c] = 0 /\ \A d \in Caller : d # c => executed'[d] = executed[d]
    BY <1>1, <1>2 DEF TypeOK
  <1>10. TypeOK'
    <2>1. /\ net' \subseteq Post /\ late' \subseteq Post
          /\ \A x \in net' \cup late' : x.conn \in Conn'
      BY <1>1, <1>2, <1>8 DEF TypeOK
    <2> QED BY <1>1, <1>2, <1>7, <1>8, <1>9, <2>1 DEF TypeOK
  <1>11. \A x \in net' : x.kind = "command" => x \in net /\ x.who \in Caller /\ x.who # c
    BY <1>1, <1>2, <1>8 DEF Posting
  <1>12. \A x \in late : x.kind = "command" => x.n \in Nat /\ x.who \in Caller /\ x.n >= caller[x.who].left
    BY <1>1 DEF Posting, TypeOK, Post
  <1>13. caller[c].left \in Nat /\ caller'[c].left \in Nat
    BY <1>1, <1>7 DEF TypeOK, Calling
  <1>14. Posting'
    <2>1. \A d \in Caller : caller'[d].pc # "idle" => caller'[d].conn \in Conn'
      BY <1>1, <1>7, <1>8 DEF Posting
    <2>2. \A x \in net' : x.kind = "command" =>
            /\ x.who \in Caller
            /\ caller'[x.who].pc = "posted" /\ x.n = caller'[x.who].left /\ x.conn = caller'[x.who].conn
            /\ x.answer = "ok" => executed'[x.who] >= 1
      BY ZenonT(30), <1>1, <1>7, <1>9, <1>11 DEF Posting
    <2>3. \A r1, r2 \in net' : r1.kind = "command" /\ r2.kind = "command" /\ r1.who = r2.who => r1 = r2
      BY <1>1, <1>11 DEF Posting
    <2>4. \A x \in late' : x.answer = ""
      BY <1>1, <1>2 DEF Posting
    <2>5. \A x \in late' : x.kind = "command" =>
            /\ x.who \in Caller
            /\ x.n >= caller'[x.who].left
            /\ x.n = caller'[x.who].left /\ caller'[x.who].pc # "idle" => x.conn # caller'[x.who].conn
      <3> SUFFICES ASSUME NEW x \in late, x.kind = "command"
                   PROVE  /\ x.who \in Caller
                          /\ x.n >= caller'[x.who].left
                          /\ x.n = caller'[x.who].left /\ caller'[x.who].pc # "idle"
                                => x.conn # caller'[x.who].conn
        BY <1>2
      <3>1. CASE x.who = c
        BY <1>7, <1>12, <1>13, <3>1
      <3>2. CASE x.who # c
        BY <1>1, <1>7, <3>2 DEF Posting
      <3> QED BY <3>1, <3>2
    <2> QED BY <2>1, <2>2, <2>3, <2>4, <2>5 DEF Posting
  <1>15. Counted'
    <2> SUFFICES ASSUME NEW d \in Caller PROVE CountedOf(d)'
      BY DEF Counted
    <2>1. CASE d = c
      <3>1. Unserved(c)' = {}
        <4>1. ASSUME NEW x \in late, x.kind = "command", x.who = c PROVE x.n # caller'[c].left
          <5>1. x.n \in Nat /\ x.n >= caller[c].left
            BY <1>12, <4>1
          <5> QED BY <1>7, <1>13, <5>1
        <4>2. late' = late
          BY <1>2
        <4> QED BY <1>11, <4>1, <4>2 DEF Unserved
      <3>2. IsFiniteSet({}) /\ Cardinality({}) = 0
        BY FS_EmptySet
      <3>3. Posts(c)' = 0
        BY <1>7 DEF Posts
      <3> QED BY <1>7, <1>9, <2>1, <3>1, <3>2, <3>3 DEF CountedOf
    <2>2. CASE d # c
      <3>1. CountedOf(d) /\ executed'[d] = executed[d] /\ caller'[d] = caller[d]
        BY <1>1, <1>7, <1>9, <2>2 DEF Counted
      <3>2. Unserved(d)' \subseteq Unserved(d)
        BY <1>2, <1>11, <3>1 DEF Unserved
      <3>3. Posts(d)' = Posts(d) /\ Posts(d) \in Int
        BY <1>1, <3>1, PostsFacts DEF Posts
      <3>4. Posts(d)' >= Posts(d)
        BY <3>3
      <3> QED BY <1>1, <1>10, <3>1, <3>2, <3>4, CountKept DEF CountedOf
    <2> QED BY <2>1, <2>2
  <1>16. NoPostOnClosed'
    BY <1>1, <1>7 DEF NoPostOnClosed
  <1> QED BY <1>8, <1>10, <1>14, <1>15, <1>16 DEF IInv

-----------------------------------------------------------------------------
(* Connections that are made, lost and closed                              *)

(* What does not touch callers, their posts or executions.                 *)
LEMMA OthersKeep ==
  ASSUME TypeOK, TypeOK', Posting, Counted, Conn' = Conn, UNCHANGED <<caller, executed>>,
         \A x \in net' : x.kind = "command" => x \in net,
         \A x \in late' : x \in late \/ (x.kind # "command" /\ x.answer = "")
  PROVE  Posting' /\ Counted'
  <1>1. Posting'
    <2>1. \A x \in net' : x.kind = "command" =>
            /\ x.who \in Caller
            /\ caller[x.who].pc = "posted" /\ x.n = caller[x.who].left /\ x.conn = caller[x.who].conn
            /\ x.answer = "ok" => executed[x.who] >= 1
      BY DEF Posting
    <2>2. \A r1, r2 \in net' : r1.kind = "command" /\ r2.kind = "command" /\ r1.who = r2.who => r1 = r2
      BY DEF Posting
    <2>3. \A x \in late' : x.answer = ""
      BY DEF Posting
    <2>4. \A x \in late' : x.kind = "command" =>
            /\ x.who \in Caller
            /\ x.n >= caller[x.who].left
            /\ x.n = caller[x.who].left /\ caller[x.who].pc # "idle" => x.conn # caller[x.who].conn
      BY DEF Posting
    <2> QED BY <2>1, <2>2, <2>3, <2>4 DEF Posting
  <1>2. ASSUME NEW c \in Caller PROVE CountedOf(c)'
    <2>1. CountedOf(c)
      BY DEF Counted
    <2>2. Unserved(c)' \subseteq Unserved(c)
      BY DEF Unserved
    <2>3. Posts(c)' >= Posts(c)
      BY PostsKept
    <2> QED BY <2>1, <2>2, <2>3, CountKept DEF CountedOf
  <1> QED BY <1>1, <1>2 DEF Counted

(* The promise of a connection settles.                                    *)
LEMMA SettleKeeps ==
  ASSUME IInv, jobs = <<>>, NEW r \in net, r.kind # "command",
         NEW state \in {"open", "failed"}, NEW sid \in Nat, Settle(r.conn, state, sid),
         net' = net \ {r}, GivenUp(r), UNCHANGED <<mode, pool, caller, sess, tls, executed>>
  PROVE  IInv'
  <1>1. TypeOK /\ PoolInv /\ Connecting /\ NoPostOnClosed /\ Waiting /\ Posting /\ Counted
    BY DEF IInv
  <1>2. PICK p : p = r.conn
    OBVIOUS
  <1>3. p \in Conn /\ ~Settled(p) /\ Settle(p, state, sid)
    BY <1>1, <1>2 DEF Connecting
  <1>4. /\ conn' \in Seq(Connection) /\ Len(conn') = Len(conn) /\ Conn' = Conn
        /\ \A x \in Conn : x # p => conn'[x] = conn[x]
        /\ jobs' = reactions[p] /\ jobs' \in Seq(Job)
        /\ reactions' \in Seq(Seq(Job)) /\ Len(reactions') = Len(reactions)
        /\ reactions'[p] = <<>> /\ \A x \in Conn : x # p => reactions'[x] = reactions[x]
    BY <1>1, <1>3, SettleFacts
  <1>5. PoolInv'
    BY <1>1, <1>3, PoolSettles
  <1>6. /\ \A x \in net' : x \in net /\ x # r
        /\ \A x \in late' : x \in late \/ (x = r /\ r.answer = "")
    BY DEF GivenUp
  <1>7. TypeOK'
    <2>1. /\ net' \subseteq Post /\ late' \subseteq Post
          /\ \A x \in net' \cup late' : x.conn \in Conn'
      BY <1>1, <1>4, <1>6 DEF TypeOK
    <2> QED BY <1>1, <1>4, <2>1 DEF TypeOK
  <1>8. Connecting'
    <2>1. \A x \in net' : x.kind # "command" => x.conn # p
      BY <1>1, <1>2, <1>6 DEF Connecting
    <2> QED BY <1>1, <1>4, <1>6, <2>1 DEF Connecting, Settled
  <1>9. Waiting'
    <2>1. Waits(jobs)'
      BY <1>1, <1>3, <1>4 DEF Waiting, Waits
    <2>2. DOMAIN <<>> = {}
      BY <1>1, Facts
    <2>3. \A x \in Conn : Waits(reactions[x])'
      <3> SUFFICES ASSUME NEW x \in Conn PROVE Waits(reactions[x])'
        OBVIOUS
      <3>1. CASE x = p
        BY <1>4, <2>2, <3>1 DEF Waits
      <3>2. CASE x # p
        <4>1. Waits(reactions[x]) /\ reactions'[x] = reactions[x]
          BY <1>1, <1>4, <3>2 DEF Waiting
        <4> QED BY <4>1 DEF Waits
      <3> QED BY <3>1, <3>2
    <2> QED BY <1>4, <2>1, <2>3 DEF Waiting
  <1>10. Posting' /\ Counted'
    BY <1>1, <1>4, <1>6, <1>7, OthersKeep
  <1> QED BY <1>1, <1>5, <1>7, <1>8, <1>9, <1>10 DEF IInv, NoPostOnClosed

(* The hello was answered, the handshake is posted.                        *)
LEMMA HandshakeKeeps ==
  ASSUME IInv, NEW r \in net, r.kind = "hello",
         conn' = [conn EXCEPT ![r.conn].state = "handshake", ![r.conn].sid = r.tls],
         net' = (net \ {r}) \cup {Request("handshake", r.who, r.conn, r.tls, 0)},
         UNCHANGED <<mode, pool, reactions, jobs, caller, late, sess, tls, executed>>
  PROVE  IInv'
  <1>1. TypeOK /\ PoolInv /\ Connecting /\ NoPostOnClosed /\ Waiting /\ Posting /\ Counted
    BY DEF IInv
  <1>2. PICK p : p = r.conn
    OBVIOUS
  <1>3. p \in Conn /\ ~Settled(p) /\ r \in Post /\ r.tls \in Nat /\ conn[p] \in Connection
    BY <1>1, <1>2, Facts DEF Connecting, TypeOK, Post
  <1>4. PICK new : new = [conn[p] EXCEPT !.state = "handshake", !.sid = r.tls]
    OBVIOUS
  <1>5. /\ new \in Connection /\ new.state = "handshake"
        /\ new.agent = conn[p].agent /\ new.closed = conn[p].closed
    BY <1>3, <1>4 DEF Connection, State
  <1>6. conn' = [conn EXCEPT ![p] = new]
    BY <1>2, <1>4
  <1>7. /\ conn' \in Seq(Connection) /\ Len(conn') = Len(conn) /\ Conn' = Conn
        /\ \A x \in Conn : conn'[x] = IF x = p THEN new ELSE conn[x]
    BY <1>1, <1>3, <1>5, <1>6, ConnFacts
  <1>8. conn[p].state \in {"hello", "handshake"}
    BY <1>3 DEF Connection, State, Settled
  <1>9. \A x \in Conn : Settled(x)' <=> Settled(x)
    BY <1>3, <1>5, <1>7 DEF Settled
  <1>10. PoolInv'
    BY <1>1, <1>5, <1>7, <1>8, PoolKept
  <1>11. PICK h : h = Request("handshake", r.who, p, r.tls, 0)
    OBVIOUS
  <1>12. h \in Post /\ h.kind = "handshake" /\ h.conn = p /\ net' = (net \ {r}) \cup {h}
    <2>1. TlsOf(p) \in Nat /\ p \in Nat \ {0} /\ r.who \in Agent \cup Caller
      BY <1>1, <1>3, Facts DEF TlsOf, TypeOK, Post
    <2>2. h = [kind |-> "handshake", who |-> r.who, conn |-> p, sid |-> r.tls, n |-> 0,
               tls |-> TlsOf(p), answer |-> ""]
      BY <1>11 DEF Request
    <2>3. h \in Post
      BY <1>3, <2>1, <2>2 DEF Post, Answers
    <2>4. h.kind = "handshake" /\ h.conn = p
      BY <2>2
    <2> QED BY <1>2, <1>11, <2>3, <2>4
  <1>13. TypeOK'
    <2>1. net' \subseteq Post /\ \A x \in net' \cup late' : x.conn \in Conn'
      BY <1>1, <1>3, <1>7, <1>12 DEF TypeOK
    <2> QED BY <1>1, <1>7, <2>1 DEF TypeOK
  <1>14. Connecting'
    <2>1. \A x \in net \ {r} : x.kind # "command" => x.conn \in Conn /\ x.conn # p /\ ~Settled(x.conn)
      BY <1>1, <1>2 DEF Connecting
    <2>2. \A x \in net' : x.kind # "command" => x.conn \in Conn /\ ~Settled(x.conn)
      BY <1>3, <1>12, <2>1
    <2>3. ASSUME NEW r1 \in net', NEW r2 \in net', r1.kind # "command", r2.kind # "command", r1.conn = r2.conn
          PROVE  r1 = r2
      <3>1. CASE r1 = h
        BY <1>12, <2>1, <2>3, <3>1
      <3>2. CASE r2 = h
        BY <1>12, <2>1, <2>3, <3>2
      <3>3. CASE r1 \in net /\ r2 \in net
        BY <1>1, <2>3, <3>3 DEF Connecting
      <3> QED BY <1>12, <3>1, <3>2, <3>3
    <2> QED BY <1>7, <1>9, <2>2, <2>3 DEF Connecting
  <1>15. Waiting'
    BY <1>1, <1>7 DEF Waiting, Waits
  <1>16. Posting' /\ Counted'
    BY <1>1, <1>7, <1>12, <1>13, OthersKeep
  <1> QED BY <1>1, <1>10, <1>13, <1>14, <1>15, <1>16 DEF IInv, NoPostOnClosed

(* A TLS connection is lost.                                               *)
LEMMA LoseKeeps ==
  ASSUME IInv, NEW t \in DOMAIN sess, Lose(t)
  PROVE  IInv'
  <1>1. TypeOK /\ PoolInv /\ Connecting /\ NoPostOnClosed /\ Waiting /\ Posting /\ Counted
    BY DEF IInv
  <1>2. /\ sess' = [sess EXCEPT ![t] = "none"]
        /\ tls' = IF mode = "browser" THEN tls + 1 ELSE tls
        /\ conn' = IF mode = "node" THEN [conn EXCEPT ![t].dead = TRUE] ELSE conn
        /\ net' = {IF r.tls = t THEN [r EXCEPT !.answer = "lost"] ELSE r : r \in net}
        /\ late' = {r \in late : r.tls # t}
        /\ UNCHANGED <<mode, pool, reactions, jobs, caller, shut, executed>>
    BY DEF Lose
  <1>3. /\ conn' \in Seq(Connection) /\ Len(conn') = Len(conn) /\ Conn' = Conn
        /\ \A x \in Conn : /\ conn'[x].agent = conn[x].agent /\ conn'[x].closed = conn[x].closed
                           /\ conn'[x].state = conn[x].state
    <2>1. CASE mode = "node" /\ t \in Conn
      <3>1. PICK new : new = [conn[t] EXCEPT !.dead = TRUE]
        OBVIOUS
      <3>2. conn[t] \in Connection
        BY <1>1, <2>1, Facts
      <3>3. /\ new \in Connection /\ new.agent = conn[t].agent /\ new.closed = conn[t].closed
            /\ new.state = conn[t].state
        BY <3>1, <3>2 DEF Connection
      <3>4. conn' = [conn EXCEPT ![t] = new]
        BY <1>2, <2>1, <3>1
      <3>5. /\ conn' \in Seq(Connection) /\ Len(conn') = Len(conn) /\ Conn' = Conn
            /\ \A x \in Conn : conn'[x] = IF x = t THEN new ELSE conn[x]
        BY <1>1, <2>1, <3>3, <3>4, ConnFacts
      <3> QED BY <3>3, <3>5
    <2>2. CASE ~(mode = "node" /\ t \in Conn)
      <3>1. conn' = conn
        BY <1>1, <1>2, <2>2 DEF TypeOK, Conn
      <3> QED BY <1>1, <3>1 DEF TypeOK, Conn
    <2> QED BY <2>1, <2>2
  <1>4. \A x \in Conn : Settled(x)' <=> Settled(x)
    BY <1>3 DEF Settled
  <1>5. PoolInv'
    BY <1>1, <1>2, <1>3, PoolKept
  <1>6. ASSUME NEW r \in net
        PROVE  LET x == IF r.tls = t THEN [r EXCEPT !.answer = "lost"] ELSE r IN
               /\ x \in Post /\ x.kind = r.kind /\ x.who = r.who /\ x.conn = r.conn /\ x.n = r.n
               /\ x.answer = "lost" \/ x = r
    <2>1. r \in Post
      BY <1>1 DEF TypeOK
    <2>2. CASE r.tls = t
      <3>1. PICK x : x = [r EXCEPT !.answer = "lost"]
        OBVIOUS
      <3>2. /\ x \in Post /\ x.kind = r.kind /\ x.who = r.who /\ x.conn = r.conn /\ x.n = r.n
            /\ x.answer = "lost"
        BY <2>1, <3>1 DEF Post, Answers
      <3> QED BY <2>2, <3>1, <3>2
    <2>3. CASE r.tls # t
      BY <2>1, <2>3
    <2> QED BY <2>2, <2>3
  <1>7. \A x \in net' : \E r \in net :
          /\ x = IF r.tls = t THEN [r EXCEPT !.answer = "lost"] ELSE r
          /\ x \in Post /\ x.kind = r.kind /\ x.who = r.who /\ x.conn = r.conn /\ x.n = r.n
          /\ x.answer = "lost" \/ x = r
    BY ZenonT(30), <1>2, <1>6
  <1>8. late' \subseteq late
    BY <1>2
  <1>9. TypeOK'
    <2>1. net' \subseteq Post /\ late' \subseteq Post /\ \A x \in net' \cup late' : x.conn \in Conn'
      BY <1>1, <1>3, <1>7, <1>8 DEF TypeOK
    <2>2. /\ sess' \in [DOMAIN sess' -> {"none", "sent", "accepted"}] /\ DOMAIN sess' \subseteq Nat
          /\ tls' \in Nat
      BY <1>1, <1>2 DEF TypeOK
    <2> QED BY <1>1, <1>2, <1>3, <2>1, <2>2 DEF TypeOK
  <1>10. Connecting'
    <2>1. \A x \in net' : x.kind # "command" => x.conn \in Conn /\ ~Settled(x.conn)
      BY <1>1, <1>7 DEF Connecting
    <2>2. ASSUME NEW r1 \in net', NEW r2 \in net', r1.kind # "command", r2.kind # "command", r1.conn = r2.conn
          PROVE  r1 = r2
      <3>1. PICK y1 \in net : /\ r1 = IF y1.tls = t THEN [y1 EXCEPT !.answer = "lost"] ELSE y1
                              /\ r1.kind = y1.kind /\ r1.conn = y1.conn
        BY <1>7
      <3>2. PICK y2 \in net : /\ r2 = IF y2.tls = t THEN [y2 EXCEPT !.answer = "lost"] ELSE y2
                              /\ r2.kind = y2.kind /\ r2.conn = y2.conn
        BY <1>7
      <3>3. y1 = y2
        BY <1>1, <2>2, <3>1, <3>2 DEF Connecting
      <3> QED BY <3>1, <3>2, <3>3
    <2> QED BY <1>3, <1>4, <2>1, <2>2 DEF Connecting
  <1>11. Waiting'
    BY <1>1, <1>2, <1>3 DEF Waiting, Waits
  <1>12. Posting'
    <2>1. \A x \in net' : x.kind = "command" =>
            /\ x.who \in Caller
            /\ caller[x.who].pc = "posted" /\ x.n = caller[x.who].left /\ x.conn = caller[x.who].conn
            /\ x.answer = "ok" => executed[x.who] >= 1
      <3> SUFFICES ASSUME NEW x \in net', x.kind = "command"
                   PROVE  /\ x.who \in Caller
                          /\ caller[x.who].pc = "posted" /\ x.n = caller[x.who].left
                          /\ x.conn = caller[x.who].conn
                          /\ x.answer = "ok" => executed[x.who] >= 1
        OBVIOUS
      <3>1. PICK y \in net : /\ x.kind = y.kind /\ x.who = y.who /\ x.conn = y.conn /\ x.n = y.n
                             /\ x.answer = "lost" \/ x = y
        BY <1>7
      <3> QED BY <1>1, <3>1 DEF Posting
    <2>2. ASSUME NEW r1 \in net', NEW r2 \in net', r1.kind = "command", r2.kind = "command", r1.who = r2.who
          PROVE  r1 = r2
      <3>1. PICK y1 \in net : /\ r1 = IF y1.tls = t THEN [y1 EXCEPT !.answer = "lost"] ELSE y1
                              /\ r1.kind = y1.kind /\ r1.who = y1.who
        BY <1>7
      <3>2. PICK y2 \in net : /\ r2 = IF y2.tls = t THEN [y2 EXCEPT !.answer = "lost"] ELSE y2
                              /\ r2.kind = y2.kind /\ r2.who = y2.who
        BY <1>7
      <3>3. y1 = y2
        BY ZenonT(30), <1>1, <2>2, <3>1, <3>2 DEF Posting
      <3> QED BY <3>1, <3>2, <3>3
    <2> QED BY <1>1, <1>2, <1>3, <1>8, <2>1, <2>2 DEF Posting
  <1>13. Counted'
    <2> SUFFICES ASSUME NEW c \in Caller PROVE CountedOf(c)'
      BY DEF Counted
    <2>1. CountedOf(c)
      BY <1>1 DEF Counted
    <2>2. Unserved(c)' \subseteq Unserved(c)
      BY <1>2, <1>7, <1>8 DEF Unserved
    <2>3. Posts(c)' >= Posts(c)
      <3>1. Posts(c)' = Posts(c) /\ Posts(c) \in Int
        BY <1>1, <1>2, PostsFacts DEF Posts
      <3> QED BY <3>1
    <2> QED BY <1>1, <1>2, <1>9, <2>1, <2>2, <2>3, CountKept DEF CountedOf
  <1>14. NoPostOnClosed'
    BY <1>1, <1>2 DEF NoPostOnClosed
  <1> QED BY <1>5, <1>9, <1>10, <1>11, <1>12, <1>13, <1>14 DEF IInv

(* closeXFTPAgent is called.                                               *)
LEMMA CloseKeeps ==
  ASSUME IInv, NEW a \in Agent, CloseAgent(a)
  PROVE  IInv'
  <1>1. TypeOK /\ PoolInv /\ Connecting /\ NoPostOnClosed /\ Waiting /\ Posting /\ Counted
    BY DEF IInv
  <1>2. /\ jobs = <<>> /\ pool' = [pool EXCEPT ![a] = NoConn]
        /\ IF pool[a] = NoConn THEN UNCHANGED <<jobs, reactions>> ELSE React(CloseJob(pool[a], a))
        /\ UNCHANGED <<mode, conn, caller, net, late, sess, tls, executed, faults>>
    BY DEF CloseAgent
  <1>3. Retired(a)
    BY <1>2 DEF Retired, JobsLeft, ReactionsLeft, React
  <1>4. /\ PoolInv'
        /\ pool' \in [Agent -> Nat] /\ jobs' \in Seq(Job)
        /\ reactions' \in Seq(Seq(Job)) /\ Len(reactions') = Len(conn)
        /\ \A i \in DOMAIN jobs' : jobs'[i].do # "await"
        /\ \A p \in Conn : \A i \in DOMAIN reactions'[p] :
             reactions'[p][i].do = "await" => i \in DOMAIN reactions[p] /\ reactions'[p][i] = reactions[p][i]
    BY <1>1, <1>2, <1>3, RetiredFacts
  <1>5. Conn' = Conn /\ \A p \in Conn : Settled(p)' <=> Settled(p)
    BY <1>2 DEF Conn, Settled
  <1>6. TypeOK'
    BY <1>1, <1>2, <1>4, <1>5 DEF TypeOK
  <1>7. Connecting'
    BY <1>1, <1>2, <1>5 DEF Connecting
  <1>8. Waiting'
    <2>1. caller' = caller
      BY <1>2
    <2> QED BY <1>1, <1>4, <1>5, <2>1, StillWaiting
  <1>9. Posting' /\ Counted'
    BY <1>1, <1>2, <1>5, <1>6, OthersKeep
  <1> QED BY <1>1, <1>2, <1>4, <1>6, <1>7, <1>8, <1>9 DEF IInv, NoPostOnClosed

-----------------------------------------------------------------------------
(* Microtasks *)

(* A command is posted.                                                    *)
LEMMA CountPosted ==
  ASSUME TypeOK, TypeOK', NEW c \in Caller, CountedOf(c), NEW r,
         Unserved(c)' \subseteq Unserved(c) \cup {r}, executed'[c] = executed[c],
         caller[c].pc = "await", caller'[c].pc = "posted",
         caller'[c].attempt = caller[c].attempt, caller'[c].result = caller[c].result
  PROVE  CountedOf(c)'
  <1>1. PICK u : u = Unserved(c)
    OBVIOUS
  <1>2. IsFiniteSet(u) /\ Cardinality(u) \in Nat
    BY <1>1, FS_CardinalityType DEF CountedOf
  <1>3. /\ IsFiniteSet(u \cup {r}) /\ Cardinality(u \cup {r}) \in Nat
        /\ Cardinality(u \cup {r}) <= Cardinality(u) + 1
    <2>1. /\ IsFiniteSet(u \cup {r})
          /\ Cardinality(u \cup {r}) = IF r \in u THEN Cardinality(u) ELSE Cardinality(u) + 1
      BY <1>2, FS_AddElement
    <2> QED BY <1>2, <2>1
  <1>4. /\ IsFiniteSet(Unserved(c)') /\ Cardinality(Unserved(c)') <= Cardinality(u \cup {r})
        /\ Cardinality(Unserved(c)') \in Nat
    BY <1>1, <1>3, FS_Subset, FS_CardinalityType
  <1>5. /\ executed[c] \in Nat /\ caller[c].attempt \in Nat
        /\ Posts(c) = caller[c].attempt - 1 /\ Posts(c)' = caller[c].attempt
    BY PostsFacts DEF Posts, TypeOK
  <1>6. executed[c] + Cardinality(u) <= caller[c].attempt - 1
    BY <1>1, <1>5 DEF CountedOf
  <1>7. executed'[c] + Cardinality(Unserved(c)') <= Posts(c)'
    BY <1>2, <1>3, <1>4, <1>5, <1>6
  <1> QED BY <1>4, <1>7 DEF CountedOf

(* The caller that a microtask lets go on, and those that wait after it.   *)
LEMMA HeadWaits ==
  ASSUME TypeOK, PoolInv, Waiting, jobs # <<>>, Head(jobs).do = "await",
         \A d \in Caller : d # Head(jobs).who => caller'[d] = caller[d]
  PROVE  /\ Head(jobs).who \in Caller /\ Head(jobs).conn \in Conn
         /\ caller[Head(jobs).who].pc = "await" /\ caller[Head(jobs).who].conn = Head(jobs).conn
         /\ conn[Head(jobs).conn].state = "failed" \/ ~conn[Head(jobs).conn].closed
         /\ \A i \in DOMAIN Tail(jobs) : Tail(jobs)[i].do = "await" =>
              /\ caller'[Tail(jobs)[i].who].pc = "await" /\ caller'[Tail(jobs)[i].who].conn = Tail(jobs)[i].conn
              /\ \A k \in DOMAIN Tail(jobs) : Tail(jobs)[k].do = "await" /\ Tail(jobs)[k].who = Tail(jobs)[i].who => k = i
         /\ \A x \in Conn : \A i \in DOMAIN reactions[x] : reactions[x][i].do = "await" =>
              /\ caller'[reactions[x][i].who].pc = "await" /\ caller'[reactions[x][i].who].conn = reactions[x][i].conn
              /\ \A k \in DOMAIN reactions[x] : reactions[x][k].do = "await" /\ reactions[x][k].who = reactions[x][i].who => k = i
  <1>1. PICK j : j = Head(jobs)
    OBVIOUS
  <1>2. PICK q : q = Tail(jobs)
    OBVIOUS
  <1>3. /\ j = jobs[1] /\ 1 \in DOMAIN jobs
        /\ \A i \in DOMAIN q : i \in Nat \ {0} /\ i + 1 \in DOMAIN jobs /\ q[i] = jobs[i + 1]
    BY <1>1, <1>2, TailFacts DEF TypeOK
  <1>4. j.conn \in Conn /\ Settled(j.conn) /\ j.who \in Caller /\ j.do = "await"
    BY <1>1, TailOrder
  <1>5. \A i \in DOMAIN jobs : jobs[i].do = "await" =>
          /\ caller[jobs[i].who].pc = "await" /\ caller[jobs[i].who].conn = jobs[i].conn
          /\ \A k \in DOMAIN jobs : jobs[k].do = "await" /\ jobs[k].who = jobs[i].who => k = i
    BY DEF Waiting, Waits
  <1>6. caller[j.who].pc = "await" /\ caller[j.who].conn = j.conn
    BY <1>3, <1>4, <1>5
  <1>7. conn[j.conn].state = "failed" \/ ~conn[j.conn].closed
    BY <1>3, <1>4 DEF PoolInv, Ordered
  <1>8. ASSUME NEW i \in DOMAIN q, q[i].do = "await"
        PROVE  /\ caller'[q[i].who].pc = "await" /\ caller'[q[i].who].conn = q[i].conn
               /\ \A k \in DOMAIN q : q[k].do = "await" /\ q[k].who = q[i].who => k = i
    <2>1. i \in Nat \ {0} /\ i + 1 \in DOMAIN jobs /\ q[i] = jobs[i + 1] /\ i + 1 # 1
      BY <1>3
    <2>2. q[i].who # j.who /\ q[i].who \in Caller
      BY <1>3, <1>4, <1>5, <1>8, <2>1 DEF PoolInv, Ordered, Owned
    <2>3. ASSUME NEW k \in DOMAIN q, q[k].do = "await", q[k].who = q[i].who PROVE k = i
      <3>1. k \in Nat /\ k + 1 \in DOMAIN jobs /\ q[k] = jobs[k + 1]
        BY <1>3
      <3>2. k + 1 = i + 1
        BY <1>5, <1>8, <2>1, <2>3, <3>1
      <3> QED BY <2>1, <3>1, <3>2
    <2> QED BY <1>1, <1>5, <1>8, <2>1, <2>2, <2>3
  <1>9. ASSUME NEW x \in Conn, NEW i \in DOMAIN reactions[x], reactions[x][i].do = "await"
        PROVE  /\ caller'[reactions[x][i].who].pc = "await"
               /\ caller'[reactions[x][i].who].conn = reactions[x][i].conn
               /\ \A k \in DOMAIN reactions[x] : reactions[x][k].do = "await" /\ reactions[x][k].who = reactions[x][i].who => k = i
    <2>1. PICK w : w = reactions[x][i]
      OBVIOUS
    <2>2. /\ caller[w.who].pc = "await" /\ caller[w.who].conn = w.conn /\ w.who \in Caller
          /\ \A k \in DOMAIN reactions[x] : reactions[x][k].do = "await" /\ reactions[x][k].who = w.who => k = i
      BY <1>9, <2>1 DEF Waiting, Waits, PoolInv, Ordered, Owned
    <2>3. w.conn = x /\ ~Settled(x)
      <3>1. DOMAIN <<>> = {}
        BY Facts
      <3> QED BY <1>9, <2>1, <3>1 DEF PoolInv, Promises
    <2>4. w.who # j.who
      BY <1>4, <1>6, <2>2, <2>3
    <2> QED BY <1>1, <2>1, <2>2, <2>4
  <1> QED BY <1>1, <1>2, <1>4, <1>6, <1>7, <1>8, <1>9

(* A caller goes on with its connection, or without.                       *)
LEMMA AwaitKeeps ==
  ASSUME IInv, RunJob, RunAwait(Head(jobs))
  PROVE  IInv'
  <1>1. TypeOK /\ PoolInv /\ Connecting /\ NoPostOnClosed /\ Waiting /\ Posting /\ Counted
    BY DEF IInv
  <1>2. PICK j : j = Head(jobs)
    OBVIOUS
  <1>3. /\ jobs # <<>> /\ jobs' = Tail(jobs) /\ j.do = "await"
        /\ UNCHANGED <<mode, pool, conn, reactions, late, sess, tls, executed>>
    BY <1>2 DEF RunJob, RunAwait
  <1>4. j.who \in Caller /\ j.conn \in Conn /\ jobs' \in Seq(Job)
    BY <1>1, <1>2, <1>3, TailOrder
  <1>5. PICK c \in Caller : c = j.who
    BY <1>4
  <1>6. PICK p \in Conn : p = j.conn
    BY <1>4
  <1>7. PICK r : r = Request("command", c, p, conn[p].sid, caller[c].left)
    OBVIOUS
  <1>8. /\ r \in Post /\ r.kind = "command" /\ r.who = c /\ r.conn = p /\ r.n = caller[c].left
        /\ r.answer = ""
    <2>1. p \in Nat \ {0} /\ TlsOf(p) \in Nat
      BY <1>1, <1>6, Facts DEF TlsOf, TypeOK
    <2>2. conn[p].sid \in Nat /\ caller[c].left \in Nat
      BY <1>1, <1>5, <1>6, Facts DEF TypeOK, Connection, Calling
    <2>3. r = [kind |-> "command", who |-> c, conn |-> p, sid |-> conn[p].sid,
               n |-> caller[c].left, tls |-> TlsOf(p), answer |-> ""]
      BY <1>7 DEF Request
    <2>4. r \in Post
      BY <1>5, <2>1, <2>2, <2>3 DEF Post, Answers
    <2> QED BY <2>3, <2>4
  <1>9. conn[p].state = "failed" \/ ~conn[p].closed
    <2>1. jobs[1] = j /\ 1 \in DOMAIN jobs
      BY <1>1, <1>2, <1>3, TailFacts DEF TypeOK
    <2> QED BY <1>1, <1>3, <1>6, <2>1 DEF PoolInv, Ordered
  <1>10. \/ \E result \in {"connect", "dead"} : Finish(c, result) /\ net' = net
         \/ caller' = [caller EXCEPT ![c].pc = "posted"] /\ net' = net \cup {r}
    BY <1>2, <1>5, <1>6, <1>7, <1>9 DEF RunAwait
  <1>11. /\ caller' \in [Caller -> Calling]
         /\ \A d \in Caller : d # c => caller'[d] = caller[d]
         /\ caller'[c].conn = caller[c].conn /\ caller'[c].attempt = caller[c].attempt
         /\ caller'[c].left = caller[c].left
         /\ \/ /\ caller'[c].pc = "idle" /\ net' = net
               /\ caller'[c].result \in {"connect", "dead"}
            \/ /\ caller'[c].pc = "posted" /\ net' = net \cup {r}
               /\ caller'[c].result = caller[c].result
    <2>1. ASSUME NEW result \in {"connect", "dead"}, Finish(c, result), net' = net
          PROVE  /\ caller' \in [Caller -> Calling]
                 /\ \A d \in Caller : d # c => caller'[d] = caller[d]
                 /\ caller'[c].conn = caller[c].conn /\ caller'[c].attempt = caller[c].attempt
                 /\ caller'[c].left = caller[c].left
                 /\ caller'[c].pc = "idle" /\ caller'[c].result \in {"connect", "dead"}
      BY <1>1, <2>1, FinishFacts DEF Results
    <2>2. CASE caller' = [caller EXCEPT ![c].pc = "posted"] /\ net' = net \cup {r}
      <3>1. PICK new : new = [caller[c] EXCEPT !.pc = "posted"]
        OBVIOUS
      <3>2. caller[c] \in Calling /\ caller \in [Caller -> Calling]
        BY <1>1 DEF TypeOK
      <3>3. /\ new \in Calling /\ new.pc = "posted" /\ new.conn = caller[c].conn
            /\ new.attempt = caller[c].attempt /\ new.left = caller[c].left /\ new.result = caller[c].result
        BY <3>1, <3>2 DEF Calling
      <3>4. caller' = [caller EXCEPT ![c] = new]
        BY <2>2, <3>1
      <3>5. caller' \in [Caller -> Calling] /\ caller'[c] = new /\ \A d \in Caller : d # c => caller'[d] = caller[d]
        BY <3>2, <3>3, <3>4
      <3> QED BY <2>2, <3>3, <3>5
    <2> QED BY <1>10, <2>1, <2>2
  <1>12. /\ caller[c].pc = "await" /\ caller[c].conn = p
         /\ \A i \in DOMAIN jobs' : jobs'[i].do = "await" =>
              /\ caller'[jobs'[i].who].pc = "await" /\ caller'[jobs'[i].who].conn = jobs'[i].conn
              /\ \A k \in DOMAIN jobs' : jobs'[k].do = "await" /\ jobs'[k].who = jobs'[i].who => k = i
         /\ \A x \in Conn : \A i \in DOMAIN reactions[x] : reactions[x][i].do = "await" =>
              /\ caller'[reactions[x][i].who].pc = "await" /\ caller'[reactions[x][i].who].conn = reactions[x][i].conn
              /\ \A k \in DOMAIN reactions[x] : reactions[x][k].do = "await" /\ reactions[x][k].who = reactions[x][i].who => k = i
    BY <1>1, <1>2, <1>3, <1>5, <1>6, <1>11, HeadWaits
  <1>13. Conn' = Conn /\ \A x \in Conn : Settled(x)' <=> Settled(x)
    BY <1>3 DEF Conn, Settled
  <1>14. \A x \in net' : x \in net \/ (x = r /\ caller'[c].pc = "posted")
    BY <1>11
  <1>15. TypeOK'
    <2>1. net' \subseteq Post /\ \A x \in net' \cup late' : x.conn \in Conn'
      BY <1>1, <1>3, <1>6, <1>8, <1>13, <1>14 DEF TypeOK
    <2> QED BY <1>1, <1>3, <1>4, <1>11, <2>1 DEF TypeOK
  <1>16. PoolInv'
    BY <1>1, PoolRuns
  <1>17. Connecting'
    BY <1>1, <1>8, <1>13, <1>14 DEF Connecting
  <1>18. Waiting'
    <2>1. Waits(jobs)' /\ \A x \in Conn : Waits(reactions[x])'
      BY <1>3, <1>12 DEF Waits
    <2> QED BY <1>13, <2>1 DEF Waiting
  <1>19. \A x \in net : x.kind = "command" => x.who \in Caller /\ x.who # c
    BY <1>1, <1>12 DEF Posting
  <1>20. Posting'
    <2>1. \A d \in Caller : caller'[d].pc # "idle" => caller'[d].conn \in Conn
      BY ZenonT(30), <1>1, <1>11, <1>12 DEF Posting
    <2>2. \A x \in net' : x.kind = "command" =>
            /\ x.who \in Caller
            /\ caller'[x.who].pc = "posted" /\ x.n = caller'[x.who].left /\ x.conn = caller'[x.who].conn
            /\ x.answer = "ok" => executed[x.who] >= 1
      <3> SUFFICES ASSUME NEW x \in net', x.kind = "command"
                   PROVE  /\ x.who \in Caller
                          /\ caller'[x.who].pc = "posted" /\ x.n = caller'[x.who].left
                          /\ x.conn = caller'[x.who].conn
                          /\ x.answer = "ok" => executed[x.who] >= 1
        OBVIOUS
      <3>1. CASE x \in net
        BY <1>1, <1>11, <1>19, <3>1 DEF Posting
      <3>2. CASE x = r /\ caller'[c].pc = "posted"
        BY <1>8, <1>11, <1>12, <3>2
      <3> QED BY <1>14, <3>1, <3>2
    <2>3. ASSUME NEW r1 \in net', NEW r2 \in net', r1.kind = "command", r2.kind = "command", r1.who = r2.who
          PROVE  r1 = r2
      <3>1. CASE r1 \in net /\ r2 \in net
        BY <1>1, <2>3, <3>1 DEF Posting
      <3>2. CASE r1 = r \/ r2 = r
        BY <1>8, <1>14, <1>19, <2>3, <3>2
      <3> QED BY <1>14, <3>1, <3>2
    <2>4. \A x \in late : x.kind = "command" =>
            /\ x.who \in Caller
            /\ x.n >= caller'[x.who].left
            /\ x.n = caller'[x.who].left /\ caller'[x.who].pc # "idle" => x.conn # caller'[x.who].conn
      <3> SUFFICES ASSUME NEW x \in late, x.kind = "command"
                   PROVE  /\ x.who \in Caller
                          /\ x.n >= caller'[x.who].left
                          /\ x.n = caller'[x.who].left /\ caller'[x.who].pc # "idle"
                                => x.conn # caller'[x.who].conn
        OBVIOUS
      <3>1. /\ x.who \in Caller /\ x.n >= caller[x.who].left
            /\ x.n = caller[x.who].left /\ caller[x.who].pc # "idle" => x.conn # caller[x.who].conn
        BY <1>1 DEF Posting
      <3>2. CASE x.who = c
        BY <1>11, <1>12, <3>1, <3>2
      <3>3. CASE x.who # c
        BY <1>11, <3>1, <3>3
      <3> QED BY <3>2, <3>3
    <2> QED BY <1>1, <1>3, <1>13, <2>1, <2>2, <2>3, <2>4 DEF Posting
  <1>21. Counted'
    <2> SUFFICES ASSUME NEW d \in Caller PROVE CountedOf(d)'
      BY DEF Counted
    <2>1. CountedOf(d) /\ executed'[d] = executed[d] /\ caller'[d].left = caller[d].left
      BY <1>1, <1>3, <1>11 DEF Counted
    <2>2. CASE d = c /\ caller'[c].pc = "posted"
      <3>1. Unserved(d)' \subseteq Unserved(d) \cup {r}
        BY <1>3, <1>14, <2>1 DEF Unserved
      <3>2. caller'[d].result = caller[d].result
        BY <1>11, <2>2
      <3> QED BY <1>1, <1>11, <1>12, <1>15, <2>1, <2>2, <3>1, <3>2, CountPosted
    <2>3. CASE d # c \/ caller'[c].pc # "posted"
      <3>1. Unserved(d)' \subseteq Unserved(d)
        BY <1>3, <1>8, <1>14, <2>1, <2>3 DEF Unserved
      <3>2. /\ caller'[d].pc # "idle" => caller'[d].attempt >= 1
            /\ caller'[d].result = "ok" => executed[d] >= 1
        BY <1>11, <2>1, <2>3 DEF CountedOf
      <3>3. Posts(d)' >= Posts(d)
        <4>1. caller[d].attempt \in Nat /\ caller'[d].attempt = caller[d].attempt
          BY <1>1, <1>11, PostsFacts
        <4>2. Posts(d) \in Int /\ Posts(d)' \in Int /\ (Posts(d)' = Posts(d) \/ Posts(d)' = Posts(d) + 1)
          BY <1>11, <1>12, <2>3, <4>1 DEF Posts
        <4> QED BY <4>2
      <3> QED BY <1>1, <1>15, <2>1, <3>1, <3>2, <3>3, CountKept
    <2> QED BY <2>2, <2>3
  <1>22. NoPostOnClosed'
    BY <1>1, <1>11 DEF NoPostOnClosed
  <1> QED BY <1>15, <1>16, <1>17, <1>18, <1>20, <1>21, <1>22 DEF IInv

(* A microtask runs.                                                       *)
LEMMA RunKeeps ==
  ASSUME IInv, RunJob
  PROVE  IInv'
  <1>1. TypeOK /\ PoolInv /\ Connecting /\ NoPostOnClosed /\ Waiting /\ Posting /\ Counted
    BY DEF IInv
  <1>2. PICK j : j = Head(jobs)
    OBVIOUS
  <1>3. /\ jobs # <<>> /\ jobs' = Tail(jobs)
        /\ UNCHANGED <<mode, reactions, late, sess, tls, shut, executed, faults>>
    BY DEF RunJob
  <1>4. /\ j.conn \in Conn /\ jobs' \in Seq(Job)
        /\ j.do \in {"catch", "close"} => j.who \in Agent
    BY <1>1, <1>2, <1>3, TailOrder
  <1>5. CASE RunCatch(j) \/ RunClose(j)
    <2>1. /\ pool' \in [Agent -> Nat] /\ conn' \in Seq(Connection) /\ Len(conn') = Len(conn)
          /\ Conn' = Conn /\ \A x \in Conn : conn'[x].state = conn[x].state
      <3>1. CASE RunCatch(j)
        <4>1. conn' = conn /\ pool' \in [Agent -> Nat]
          BY <1>1, <3>1 DEF RunCatch, TypeOK, NoConn
        <4> QED BY <1>1, <4>1 DEF TypeOK, Conn
      <3>2. CASE RunClose(j)
        <4>1. CASE conn[j.conn].state = "open"
          <5>1. PICK new : new = [conn[j.conn] EXCEPT !.closed = TRUE]
            OBVIOUS
          <5>2. conn[j.conn] \in Connection
            BY <1>1, <1>4, Facts
          <5>3. new \in Connection /\ new.state = conn[j.conn].state
            BY <5>1, <5>2 DEF Connection
          <5>4. conn' = [conn EXCEPT ![j.conn] = new]
            BY <3>2, <4>1, <5>1 DEF RunClose
          <5>5. /\ conn' \in Seq(Connection) /\ Len(conn') = Len(conn) /\ Conn' = Conn
                /\ \A x \in Conn : conn'[x] = IF x = j.conn THEN new ELSE conn[x]
            BY <1>1, <1>4, <5>3, <5>4, ConnFacts
          <5>6. pool' = pool
            BY <3>2 DEF RunClose
          <5> QED BY <1>1, <5>3, <5>5, <5>6 DEF TypeOK
        <4>2. CASE conn[j.conn].state # "open"
          BY <1>1, <3>2, <4>2 DEF RunClose, TypeOK, Conn
        <4> QED BY <4>1, <4>2
      <3> QED BY <1>5, <3>1, <3>2
    <2>2. caller' = caller /\ net' = net
      BY <1>5 DEF RunCatch, RunClose
    <2>3. \A x \in Conn : Settled(x)' <=> Settled(x)
      BY <2>1 DEF Settled
    <2>4. TypeOK'
      BY <1>1, <1>3, <1>4, <2>1, <2>2 DEF TypeOK
    <2>5. PoolInv'
      BY <1>1, PoolRuns
    <2>6. Connecting'
      BY <1>1, <2>1, <2>2, <2>3 DEF Connecting
    <2>7. Waiting'
      <3>1. ASSUME NEW i \in DOMAIN jobs', jobs'[i].do = "await"
            PROVE  /\ caller[jobs'[i].who].pc = "await" /\ caller[jobs'[i].who].conn = jobs'[i].conn
                   /\ \A k \in DOMAIN jobs' : jobs'[k].do = "await" /\ jobs'[k].who = jobs'[i].who => k = i
        <4>1. \A k \in DOMAIN jobs' : k \in Nat \ {0} /\ k + 1 \in DOMAIN jobs /\ jobs'[k] = jobs[k + 1]
          BY <1>1, <1>3, TailFacts DEF TypeOK
        <4>2. /\ caller[jobs'[i].who].pc = "await" /\ caller[jobs'[i].who].conn = jobs'[i].conn
              /\ \A k \in DOMAIN jobs : jobs[k].do = "await" /\ jobs[k].who = jobs'[i].who => k = i + 1
          BY <1>1, <3>1, <4>1 DEF Waiting, Waits
        <4>3. ASSUME NEW k \in DOMAIN jobs', jobs'[k].do = "await", jobs'[k].who = jobs'[i].who PROVE k = i
          <5>1. k + 1 = i + 1 /\ k \in Nat /\ i \in Nat
            BY <4>1, <4>2, <4>3
          <5> QED BY <5>1
        <4> QED BY <4>2, <4>3
      <3>2. Waits(jobs)'
        BY <2>2, <3>1 DEF Waits
      <3>3. \A x \in Conn : Waits(reactions[x])'
        BY <1>1, <1>3, <2>2 DEF Waiting, Waits
      <3> QED BY <2>1, <3>2, <3>3 DEF Waiting
    <2>8. Posting' /\ Counted'
      BY <1>1, <1>3, <2>1, <2>2, <2>4, OthersKeep
    <2> QED BY <1>1, <2>2, <2>4, <2>5, <2>6, <2>7, <2>8 DEF IInv, NoPostOnClosed
  <1>6. CASE RunAwait(j)
    BY <1>2, <1>6, AwaitKeeps
  <1> QED BY <1>2, <1>5, <1>6 DEF RunJob

-----------------------------------------------------------------------------
(* The specification *)

(* Nothing is connected, posted or counted at the start.                   *)
LEMMA InitInv ==
  ASSUME Init
  PROVE  IInv
  <1>1. /\ mode \in Modes /\ pool = [a \in Agent |-> NoConn]
        /\ conn = <<>> /\ reactions = <<>> /\ jobs = <<>>
        /\ caller = [c \in Caller |-> [pc |-> "idle", conn |-> NoConn, attempt |-> 0,
                                       result |-> "none", left |-> Commands[c]]]
        /\ net = {} /\ late = {} /\ sess = <<>> /\ tls = 1 /\ shut = {}
        /\ executed = [c \in Caller |-> 0]
    BY DEF Init
  <1>2. DOMAIN <<>> = {}
    OBVIOUS
  <1>3. Conn = {} /\ DOMAIN jobs = {} /\ DOMAIN sess = {}
    BY <1>1, <1>2 DEF Conn
  <1>4. \A c \in Caller : /\ caller[c].pc = "idle" /\ caller[c].conn = NoConn /\ caller[c].attempt = 0
                          /\ caller[c].result = "none" /\ caller[c].left \in Nat
                          /\ caller[c] \in Calling
    <2> SUFFICES ASSUME NEW c \in Caller
                 PROVE  /\ caller[c].pc = "idle" /\ caller[c].conn = NoConn /\ caller[c].attempt = 0
                        /\ caller[c].result = "none" /\ caller[c].left \in Nat
                        /\ caller[c] \in Calling
      OBVIOUS
    <2>1. Commands[c] \in Nat /\ 0 \in 0..MaxRetries
      BY ClientConstants
    <2>2. caller[c] = [pc |-> "idle", conn |-> NoConn, attempt |-> 0, result |-> "none", left |-> Commands[c]]
      BY <1>1
    <2> QED BY <2>1, <2>2 DEF Calling, Results, NoConn
  <1>5. TypeOK
    <2>1. mode \in {"browser", "node"}
      BY <1>1, ClientConstants
    <2>2. /\ pool \in [Agent -> Nat] /\ tls \in Nat /\ executed \in [Caller -> Nat]
      BY <1>1 DEF NoConn
    <2>3. conn \in Seq(Connection) /\ reactions \in Seq(Seq(Job)) /\ Len(reactions) = Len(conn) /\ jobs \in Seq(Job)
      BY <1>1, EmptySeq
    <2>4. caller \in [Caller -> Calling]
      <3>1. caller = [c \in Caller |-> caller[c]]
        BY <1>1
      <3> QED BY <1>4, <3>1
    <2>5. sess \in [DOMAIN sess -> {"none", "sent", "accepted"}]
      <3>1. sess = [t \in DOMAIN sess |-> sess[t]]
        BY <1>1
      <3> QED BY <1>3, <3>1
    <2> QED BY <1>1, <1>3, <2>1, <2>2, <2>3, <2>4, <2>5 DEF TypeOK
  <1>6. PoolInv
    <2>1. Promises
      BY <1>3 DEF Promises
    <2>2. Pooled
      BY <1>1 DEF Pooled
    <2>3. Closing
      BY <1>3 DEF Closing
    <2>4. Ordered
      BY <1>3 DEF Ordered, Owned, CloseLast
    <2> QED BY <2>1, <2>2, <2>3, <2>4 DEF PoolInv
  <1>7. Connecting
    BY <1>1 DEF Connecting
  <1>8. NoPostOnClosed
    BY <1>4 DEF NoPostOnClosed
  <1>9. Waiting
    BY <1>3 DEF Waiting, Waits
  <1>10. Posting
    BY <1>1, <1>4 DEF Posting
  <1>11. Counted
    <2> SUFFICES ASSUME NEW c \in Caller PROVE CountedOf(c)
      BY DEF Counted
    <2>1. Unserved(c) = {} /\ Posts(c) = 0 /\ executed[c] = 0
      BY <1>1, <1>4 DEF Unserved, Posts
    <2>2. IsFiniteSet({}) /\ Cardinality({}) = 0
      BY FS_EmptySet
    <2> QED BY <1>4, <2>1, <2>2 DEF CountedOf
  <1> QED BY <1>5, <1>6, <1>7, <1>8, <1>9, <1>10, <1>11 DEF IInv

(* The catch of sendXFTPCommand, from a request that ended.                *)
LEMMA CommandFailsKeeps ==
  ASSUME IInv, jobs = <<>>, NEW r \in net, r.kind = "command", NEW retriable \in BOOLEAN,
         CommandFails(r.who, retriable, net \ {r}), GivenUp(r),
         UNCHANGED <<mode, sess, tls, executed>>
  PROVE  IInv'
  <1>1. /\ r.who \in Caller /\ AgentOf[r.who] \in Agent /\ caller[r.who].conn \in Conn
        /\ TypeOK
    BY PostFacts DEF IInv
  <1>2. CASE Finish(r.who, "permanent") /\ net' = net \ {r} /\ UNCHANGED <<pool, conn, reactions, jobs>>
    BY <1>2, EndKeeps
  <1>3. CASE /\ Finish(r.who, "retriable") /\ net' = net \ {r}
             /\ removeStaleConnection(AgentOf[r.who], caller[r.who].conn) /\ UNCHANGED conn
    <2>1. UNCHANGED <<pool, reactions, jobs>> \/ Retired(AgentOf[r.who])
      <3>1. CASE pool[AgentOf[r.who]] = caller[r.who].conn
        <4>1. pool[AgentOf[r.who]] # NoConn
          BY <1>1, <3>1, Facts
        <4> QED BY <1>3, <3>1, <4>1 DEF removeStaleConnection, Retired, JobsLeft, ReactionsLeft, React
      <3>2. CASE pool[AgentOf[r.who]] # caller[r.who].conn
        BY <1>3, <3>2 DEF removeStaleConnection
      <3> QED BY <3>1, <3>2
    <2> QED BY <1>3, <2>1, EndKeeps
  <1>4. CASE caller[r.who].attempt < MaxRetries /\ Reconnect(r.who, net \ {r})
    BY <1>4, RetryKeeps
  <1> QED BY <1>2, <1>3, <1>4 DEF CommandFails

(* A post that failed, whatever its kind.                                  *)
LEMMA PostFailsKeeps ==
  ASSUME IInv, jobs = <<>>, NEW r \in net, NEW retriable \in BOOLEAN,
         PostFails(r, retriable, net \ {r}), GivenUp(r),
         UNCHANGED <<mode, sess, tls, executed>>
  PROVE  IInv'
  <1>1. CASE r.kind = "command"
    BY <1>1, CommandFailsKeeps DEF PostFails
  <1>2. CASE r.kind # "command"
    <2>1. Settle(r.conn, "failed", 0) /\ net' = net \ {r} /\ UNCHANGED <<pool, caller>>
      BY <1>2 DEF PostFails
    <2> QED BY <1>2, <2>1, SettleKeeps
  <1> QED BY <1>1, <1>2

(* An answer reaches the client.                                           *)
LEMMA DeliverKeeps ==
  ASSUME IInv, NEW r \in net, Deliver(r)
  PROVE  IInv'
  <1>1. /\ jobs = <<>> /\ UNCHANGED <<mode, late, sess, tls, shut, executed>>
        /\ IF r.kind = "command" THEN CommandStep(r.who, r) ELSE ConnectStep(r.conn, r)
    BY DEF Deliver
  <1>2. GivenUp(r)
    BY <1>1 DEF GivenUp
  <1>3. CASE r.kind = "command" /\ r.answer = "ok"
    <2>1. Finish(r.who, "ok") /\ net' = net \ {r} /\ UNCHANGED <<pool, conn, reactions, jobs>>
      BY <1>1, <1>3 DEF CommandStep
    <2> QED BY <1>1, <1>2, <1>3, <2>1, EndKeeps
  <1>4. CASE r.kind = "command" /\ r.answer # "ok"
    <2>1. CASE r.answer \in {"SESSION", "HANDSHAKE"}
      <3>1. CommandFails(r.who, TRUE, net \ {r})
        BY <1>1, <1>4, <2>1 DEF CommandStep, CommandFails
      <3> QED BY <1>1, <1>2, <1>4, <3>1, CommandFailsKeeps
    <2>2. CASE r.answer \notin {"SESSION", "HANDSHAKE"}
      <3>1. CommandFails(r.who, FALSE, net \ {r})
        BY <1>1, <1>4, <2>2 DEF CommandStep, CommandFails
      <3> QED BY <1>1, <1>2, <1>4, <3>1, CommandFailsKeeps
    <2> QED BY <2>1, <2>2
  <1>5. CASE r.kind # "command"
    <2>1. r.conn \in Conn /\ conn[r.conn].sid \in Nat
      <3>1. r.conn \in Conn /\ TypeOK
        BY <1>5 DEF IInv, Connecting
      <3>2. conn[r.conn] \in Connection
        BY <3>1, Facts
      <3> QED BY <3>1, <3>2 DEF Connection
    <2>2. UNCHANGED <<pool, caller>>
      BY <1>1, <1>5 DEF ConnectStep
    <2>3. CASE /\ r.kind = "hello"
               /\ conn' = [conn EXCEPT ![r.conn].state = "handshake", ![r.conn].sid = r.tls]
               /\ net' = (net \ {r}) \cup {Request("handshake", r.who, r.conn, r.tls, 0)}
               /\ UNCHANGED <<jobs, reactions>>
      BY <1>1, <2>2, <2>3, HandshakeKeeps
    <2>4. CASE Settle(r.conn, "open", conn[r.conn].sid) /\ net' = net \ {r}
      BY <1>1, <1>2, <1>5, <2>1, <2>2, <2>4, SettleKeeps
    <2>5. CASE Settle(r.conn, "failed", 0) /\ net' = net \ {r}
      BY <1>1, <1>2, <1>5, <2>2, <2>5, SettleKeeps
    <2> QED BY <1>1, <1>5, <2>3, <2>4, <2>5 DEF ConnectStep
  <1> QED BY <1>3, <1>4, <1>5

(* Every step keeps the invariant.                                         *)
LEMMA NextInv ==
  ASSUME IInv, [Next]_vars
  PROVE  IInv'
  <1>1. CASE RunJob
    BY <1>1, RunKeeps
  <1>2. CASE ServerHandles
    BY <1>2, HandlesKeeps
  <1>3. CASE ServerHandlesLate
    BY <1>3, HandlesLateKeeps
  <1>4. ASSUME NEW r \in net, Deliver(r) PROVE IInv'
    BY <1>4, DeliverKeeps
  <1>5. ASSUME NEW r \in net, Timeout(r) PROVE IInv'
    <2>1. /\ jobs = <<>> /\ PostFails(r, TRUE, net \ {r}) /\ GivenUp(r)
          /\ UNCHANGED <<mode, sess, tls, executed>>
      BY <1>5 DEF Timeout, GivenUp
    <2> QED BY <2>1, PostFailsKeeps
  <1>6. ASSUME NEW r \in net, LossDelivered(r) PROVE IInv'
    <2>1. PICK retriable \in BOOLEAN : retriable = (mode = "browser")
      OBVIOUS
    <2>2. /\ jobs = <<>> /\ PostFails(r, retriable, net \ {r}) /\ GivenUp(r)
          /\ UNCHANGED <<mode, sess, tls, executed>>
      BY <1>6, <2>1 DEF LossDelivered, GivenUp
    <2> QED BY <2>2, PostFailsKeeps
  <1>7. ASSUME NEW t \in DOMAIN sess, Lose(t) PROVE IInv'
    BY <1>7, LoseKeeps
  <1>8. ASSUME NEW c \in Caller, Start(c) PROVE IInv'
    BY <1>8, StartKeeps
  <1>9. ASSUME NEW a \in Agent, CloseAgent(a) PROVE IInv'
    BY <1>9, CloseKeeps
  <1>10. CASE UNCHANGED vars
    <2>1. UNCHANGED <<mode, pool, conn, reactions, jobs, caller, net, late, sess, tls, executed>>
      BY <1>10 DEF vars
    <2>2. TypeOK /\ PoolInv /\ Connecting /\ NoPostOnClosed /\ Waiting /\ Posting /\ Counted
      BY DEF IInv
    <2>3. Conn' = Conn /\ \A x \in Conn : Settled(x)' <=> Settled(x)
      BY <2>1 DEF Conn, Settled
    <2>4. TypeOK'
      BY <2>1, <2>2, <2>3 DEF TypeOK
    <2>5. PoolInv'
      BY <2>1, <2>2, <2>3, PoolKept
    <2>6. Connecting' /\ NoPostOnClosed' /\ Waiting'
      BY <2>1, <2>2, <2>3 DEF Connecting, NoPostOnClosed, Waiting, Waits
    <2>7. Posting' /\ Counted'
      BY <2>1, <2>2, <2>3, <2>4, OthersKeep
    <2> QED BY <2>4, <2>5, <2>6, <2>7 DEF IInv
  <1> QED BY <1>1, <1>2, <1>3, <1>4, <1>5, <1>6, <1>7, <1>8, <1>9, <1>10 DEF Next

(* The invariant holds in every state that is reached.                     *)
LEMMA Invariant == Spec => []IInv
  <1>1. Init => IInv
    BY InitInv
  <1>2. IInv /\ [Next]_vars => IInv'
    BY NextInv
  <1> QED BY <1>1, <1>2, PTL DEF Spec

(* Between tasks of the event loop the pool holds no connection that       *)
(* failed or was closed, and every open connection that nobody closed is   *)
(* the pooled one of its agent (getXFTPServerClient, reconnectClient,      *)
(* removeStaleConnection, closeXFTPAgent in any order, by any callers).    *)
THEOREM PoolExact == Spec => []PoolIsExact
  <1>1. ASSUME IInv PROVE PoolIsExact
    <2> SUFFICES ASSUME jobs = <<>>
                 PROVE  /\ \A a \in Agent : pool[a] # NoConn =>
                             conn[pool[a]].state # "failed" /\ ~conn[pool[a]].closed /\ conn[pool[a]].agent = a
                        /\ \A p \in Conn : conn[p].state = "open" /\ ~conn[p].closed => pool[conn[p].agent] = p
      BY DEF PoolIsExact
    <2>1. TypeOK /\ Promises /\ Pooled /\ Closing
      BY <1>1 DEF IInv, PoolInv
    <2>2. DOMAIN jobs = {} /\ DOMAIN <<>> = {}
      BY <2>1, Facts
    <2>3. \A a \in Agent : pool[a] # NoConn =>
             conn[pool[a]].state # "failed" /\ ~conn[pool[a]].closed /\ conn[pool[a]].agent = a
      BY <2>1, <2>2 DEF Pooled, Idle
    <2>4. \A p \in Conn : conn[p].state = "open" => reactions[p] = <<>>
      BY <2>1 DEF Promises, Settled
    <2>5. \A p \in Conn : conn[p].state = "open" /\ ~conn[p].closed => pool[conn[p].agent] = p
      BY <2>1, <2>2, <2>4 DEF Closing, Idle
    <2> QED BY <2>3, <2>5
  <1> QED BY <1>1, Invariant, PTL

(* No command is posted on a connection that this client closed: every     *)
(* await on it runs before its close does.                                 *)
THEOREM NoClosedPost == Spec => []NoPostOnClosed
  <1>1. IInv => NoPostOnClosed
    BY DEF IInv
  <1> QED BY <1>1, Invariant, PTL

(* A command that succeeded was executed by the server, and none is        *)
(* executed more often than it may be tried, late arrivals of the attempts *)
(* that were given up included.                                            *)
THEOREM ReportsAreTrue == Spec => []ExecutedAsReported
  <1>1. ASSUME IInv PROVE ExecutedAsReported
    <2> SUFFICES ASSUME NEW c \in Caller
                 PROVE  /\ caller[c].result = "ok" => executed[c] >= 1
                        /\ executed[c] <= MaxRetries
      BY DEF ExecutedAsReported
    <2>1. TypeOK /\ CountedOf(c)
      BY <1>1 DEF IInv, Counted
    <2>2. Cardinality(Unserved(c)) \in Nat
      BY <2>1, FS_CardinalityType DEF CountedOf
    <2>3. executed[c] \in Nat /\ MaxRetries \in Nat /\ Posts(c) \in Int /\ Posts(c) <= MaxRetries
      <3>1. caller[c] \in Calling /\ MaxRetries \in Nat /\ executed[c] \in Nat
        BY <2>1, ClientConstants DEF TypeOK
      <3>2. caller[c].attempt \in Nat /\ caller[c].attempt <= MaxRetries
        BY <3>1 DEF Calling
      <3> QED BY <3>1, <3>2 DEF Posts
    <2> QED BY <2>1, <2>2, <2>3 DEF CountedOf
  <1> QED BY <1>1, Invariant, PTL
=============================================================================
