# Verification of the SimpleX messaging server and the XFTP web client

TLA+ models of simplexmq, checked with TLC on small instances and, for the message
queue, delivery, the journal store, the queue store, the connection pool and the pages of the
web client, proved with TLAPS for all instances. Two programs are modelled: the
SMP server (Haskell, `src/Simplex`) and the web client of the file transfer protocol
XFTP (TypeScript, `xftp-web`). File names of the server are relative to
`src/Simplex/Messaging` unless they start with `src/` or `protocol/`; those of the web
client are relative to `xftp-web`.

1. [Inventory](#1-inventory)
2. [Modules](#2-modules)
3. [Runs](#3-runs)
4. [Fairness](#4-fairness)
5. [Proofs](#5-proofs)
6. [Findings and known differences](#6-findings-and-known-differences)
7. [What is left out](#7-what-is-left-out)
8. [Plan](#8-plan)

## 1. Inventory

simplexmq holds an SMP server (simplex message queues), the agent that clients
embed, a notifications server, the XFTP file server with its client and agent, and
a remote control protocol.

### SMP server

A *queue* has a recipient, who holds its recipient id, and a sender, who holds its
sender id. Senders `SEND`, the recipient subscribes (`SUB`) or polls (`GET`) and
acknowledges (`ACK`) one message at a time.

| Component | State | Operations | Hard behaviour | What makes it correct |
|---|---|---|---|---|
| Message queue in memory (`Server/MsgStore/STM.hs`, `Types.hs`) | `msgQueue`, `canWrite`, `size` | `writeMsg`, `tryDelMsg`, `tryDelPeekMsg`, `deleteExpireMsgs_`, `deleteQueue_` | the quota is compared with a counter kept beside the queue; a full queue ends in a marker | counter exact, quota respected, order kept, nothing accepted until drained |
| Journal message store (`Server/MsgStore/Journal.hs`) | journals, state log and its backup, handles, caches `tipMsg`, `queueState` | the same, plus open, close, journal switch, compaction of the state log, expiry of idle queues | crash between any two file system calls, failed appends, missing files | what is on disk is at all times a state of the queue; answered operations stay; caches agree with files |
| Subscriptions and delivery (`Server.hs`, `Server/Env/STM.hs`) | `subscriptions` and `Sub` per connection, `queueSubscribers`, `subClients`, `subQ`, `pendingEvents`, `sndQ`, delivery threads | `SUB`, `GET`, `ACK`, `SEND`, `OFF`, `DEL`, expiry, disconnect; `serverThread`, `sendPendingEvtsThread`, `deliverThread` | all of them in different threads; many steps per command, each its own transaction | at most one unacknowledged message, first deliveries in order, one subscriber, no subscription of a closed connection, everything sent is delivered |
| Queue store and store log (`Server/QueueStore/STM.hs`, `Server/StoreLog.hs`, `Server/StoreLog/ReadWrite.hs`) | maps of queues, senders, notifiers, links, services; the log and its `.start` file | create, secure, keys, notifier, link, suspend, block, unblock, time, delete, services; replay and compaction | the log line is written after the transaction; it may fail; crash during compaction | indexes agree with records, a restart keeps what clients were told |
| Client services (`Server.hs`, `Server/QueueStore/STM.hs`) | ids and hash per service, `serviceSubscribers` | `SUBS`, `NSUBS`, association by `SUB`/`NSUB`/`NEW` | counts and hashes maintained incrementally | ids and hash are those of the associated queues |
| Notifications kept by the server (`Server/NtfStore.hs`) | list per notifier | store, deliver, delete, expire | lists taken out of the map while they are appended to | a notification is delivered, deleted or kept |
| Save and restore of messages (`Server.hs`) | messages file | export at stop, import at start | quota and expiry changed between the runs | nothing lost that has not expired |
| PostgreSQL stores (`Server/MsgStore/Postgres.hs`, `Server/QueueStore/Postgres.hs`) | database, cache | the same operations in SQL | cache and database | the same promises |
| Proxy, authorization, control port, statistics, names, start and CLI | | | | |

The parts meet like this. `receive` of a connection verifies a command against the
queue record (queue store) and passes it to `client`, which runs the handler: it
calls the message store and the queue store and writes `sndQ`, which `send`
transmits. `SUB` makes a `Sub` in the connection and tells `serverThread` through
`subQ`; `serverThread` moves the entry in `queueSubscribers` and ends the previous
subscription in two further transactions, and `sendPendingEvtsThread` sends `END`
later. `SEND` on another connection looks the subscriber up in `queueSubscribers`
and writes to the *recipient's* `sndQ`, or forks `deliverThread` when it is full.

### XFTP web client

A page that encrypts a file, cuts it into chunks, uploads them to XFTP servers and
gives out a link whose fragment holds the file description; opened, the link downloads,
checks and decrypts the file. `src/apps/xftp-server/static/xftp-web-bundle` is the
deployed build of the same source, with its libraries: where a definition stands for
code that appears in both, `PROJECT.json` may name either copy.

| Component | State | Operations | Hard behaviour | What makes it correct |
|---|---|---|---|---|
| Sessions and commands (`src/client.ts`) | `connections` of an agent (promises of clients), sessions of the server | `getXFTPServerClient`, `reconnectClient`, `removeStaleConnection`, `closeXFTPAgent`, `sendXFTPCommand` with retries | callers share a connection and replace it at the same time; timeouts race late answers; browsers and Node.js lose connections differently | no command on a connection that was closed, none leaked, commands executed as reported, every command ends |
| Crypto worker (`web/crypto.worker.ts`, `web/crypto-backend.ts`) | handles, offsets and memory of the worker, files of its session directory (OPFS), pending requests | `encrypt`, `readChunk`, `decryptAndStoreChunk`, `verifyAndDecrypt`, `cleanup`, `sweepStale` | handlers await the file system; writes fall short; another page sweeps the directory | what was stored can be read, whatever happens to the disk |
| Transfers (`src/agent.ts`) | groups of chunks per server, sent chunks, descriptions | `uploadFile`, `uploadRedirectDescription`, `downloadFileRaw`, `resolveRedirect`, `deleteFile` | groups run in parallel, one fails while others go on | a link is complete, a transfer fails only for a reason and always ends |
| Pages (`web/upload.ts`, `web/download.ts`, `web/main.ts`, `web/progress.ts`) | stage shown, `aborted`, ring and its animation, transfers in progress | choose a file, cancel, retry, download, change of the fragment | transfers outlive their page and overlap | a page shows its own transfer; everything is released |
| Encodings and cryptography (`src/protocol`, `src/crypto`) | none | blocks, transmissions, commands, handshake, identity proof, chunk sizes, streaming cipher, descriptions | boundaries, cut or foreign input | what is read is what was sent, or an error |

The pages call `uploadFile` and `downloadFileRaw` with callbacks to the worker;
these send commands through `sendXFTPCommand`; all of it runs in one event loop, the
worker in another, with messages between them.

### Other programs of the repository

* **SMP client and client agent** (`Client.hs`, `Client/Agent.hs`): requests matched with
  responses by correlation id, timeouts, batches; sessions, reconnection, pending and
  active subscriptions.
* **SMP agent** (`Agent.hs`, `Agent/Client.hs`, `Agent/TSessionSubs.hs`,
  `Agent/NtfSubSupervisor.hs`, `Agent/Store*`): connections of two queues, handshake,
  delivery workers with retries, receipt and acknowledgement, queue rotation, ratchet
  synchronization. Hard: crashes between receiving, storing and acknowledging; the
  session changing under a subscription.
* **Double ratchet** (`Crypto/Ratchet.hs`): skipped message keys, header keys.
* **Notifications server** (`Notifications/Server.hs`): tokens, subscriptions, push.
* **XFTP server, client and agent** (`src/Simplex/FileTransfer`): server with storage quota;
  client and agent with workers for chunks. Of the server, sessions and the receipt of
  commands are modelled as the web client meets them.
* **Remote control** (`src/Simplex/RemoteControl`): discovery and session handshake.
* **Transport, encodings, cryptography.**

`PROJECT.json` lists all components with their status, and all hazards (what is hard to
test here) with the lines where they bite and the properties that guard them.

## 2. Modules

```
QueueSpec                      what a message store promises about one queue
  ^ implemented by    ^ implemented by
MsgQueue              JournalStore          QueueStore
  ^ EXTENDS
Delivery

XftpEncoding <- XftpProtocol   bytes, blocks, DER; commands, handshake, identity
             <- XftpFile       chunk sizes, cipher, layout of a file
             <- XftpDescription  links and addresses
                 ^ all used by
               XftpRoundTrip   one file through all encodings
CryptoWorker <- XftpTransfer   the worker; upload and download over it
XftpClient                     sessions, pool, retries
XftpPage                       pages and their transfers (uses XftpDescription)
```

Every module that is checked has an `MC` module for TLC. The theorems are in modules of
their own, described in [section 5](#5-proofs): `MsgQueueProofs`, `DeliveryProofs`,
`JournalStoreProofs`, `JournalFilesProofs`, `QueueStoreProofs`, `XftpClientProofs`,
`XftpTransferProofs` and `XftpPageProofs`. Definitions named `accepting_WhenRoom` or `Put_` (a
mapped definition's name and an underscore) are *mutants*: variants with a plausible mistake, with
which TLC must find the property violated.

### QueueSpec

The abstract queue: `queue`, to which `QWrite` appends a message while the queue is
`Open` and the marker when the quota is reached, and which `QDelete`, `QExpire`
and `QDrop` shorten.

### MsgQueue

One queue of the memory store. `msgQueue`, `canWrite` and `size` are the three TVars of
`STMMsgQueue`; each action is one STM transaction. The id of a message is its number in
the order of accepted `SEND`s. `Abstract` is `QueueSpec` with `queue <- msgQueue`.

### Delivery

Extends `MsgQueue` with everything that happens around one queue. One action is one STM
transaction, or one read whose result is used in a later one: `SUB`, for example, is
`PeekSub` (`prepareBatchSubs`), `SubscribeNew` / `SubscribeAgain` /
`SubscribeProhibited`, `Respond`, and later `NextEvent`, `UpdateSubscribed`, `EndSub` of
`serverThread`, and `SendPendingEvts`. `subs` are the `Sub` objects, which outlive
their place in `subscriptions` because threads hold references to them; the model
reuses an object only when nothing refers to it. A command was verified when it was
received and runs against whatever the queue is then.

Abstractions: one queue, one command in progress per connection, at most `SndQSize`
transmissions in `sndQ`; the pending event is added in the transaction that updates
the subscriber; `updateQueueTime` (once a day per queue) is left to `QueueStore`.

### JournalStore

One queue of the journal store. Operations run under the queue lock and do not
interleave; a crash or a failure may come between any two file system calls. `job` is
the sequence of steps left, `todo` the file system calls and assignments of the current
step, in the order of the code; every effect is an action, and `Crash`, `Fail` and
`Lose` can strike at each. A crash during an append leaves nothing, a part, or all.
Positions are counted in messages; only the last two lines of the state log are kept,
since no others are read; whether the log is long enough to be compacted is a
nondeterministic choice. A new journal has an id that no file and no state in memory or in the
log uses (`newJournalId`; ids are random in the code); opening and writing wait for one, which
only the bound `MaxJournals` makes them do. `Durable` is what the
files say after the recovery that opening performs, and the refinement maps
`queue <- Durable`: an operation takes effect when its state line is complete.

### QueueStore

All queues, their indexes and services, and the store log. `mem` is `STMQueueStore`.
The operations on a store are functions from store to store (or `Refused`), because
the server and the replay of the log use the same ones: `procLogRecord` applies a line.
An operation is `Transact` on memory, then `WithLog` (or `WithLogFails`) in the same
thread. A file is represented by the store that its replay gives, which is exact since
replay is a fold over lines and a cut last line does not parse. `Startup` has one action
per file system step of `readWriteStoreLog`, so a crash can leave `.start` with no log, an
empty log or a partial one. The xor hash of ids is the set of ids that occur an odd
number of times in it. `told`, `secured` and `unsure` are history variables: what
clients were told, and which queues were involved in an operation that failed, was cut
by a crash, or overlapped with one on the same ids.

### XftpClient

The event loop is explicit: `jobs` is the microtask queue, `reactions` what waits for a promise,
and network, timers and users get their turn only when `jobs` is empty, so the code between two
awaits is one step. A job names the promise it waited for. When a client promise is created in the
pool, the first to react to it is the handler that takes it out again when it fails
(`FirstReactions`), then the callers that await it (`Jobs`, `Reactions`). A request in `net` names
its connection: two that are otherwise alike are different requests. `conn` are the promises of
clients, `pool` the map of the agent, `net` the requests on their way, `late` those whose caller
has given up and which the server may still handle. `mode` chooses the two transports: in Node.js
every connection is its own TLS connection and `close` makes later posts fail; in a browser all
posts share the TLS connection of the moment and `close` does nothing. `sess` is the map of
sessions of the XFTP server. Faults: a timeout, a lost connection, a bad hello, an error answer.

### CryptoWorker and XftpTransfer

`w` holds the variables of the worker, `opfs` its files, `inbox` and `outbox` the messages,
`pending` the requests of the backend. A handler is one action per await. A write may fall
short (`Short`), and another page may sweep the session directory while no handle in it is open
(`SweptByOther`). `XftpTransfer` adds the page: `group` has, for every server, the chunks left
and the place in the loop body; the first group that fails rejects the transfer, and the
others go on. A command is one step that succeeds, fails, or, for `FNEW`, is executed twice.
After an upload a second page with a new worker opens the link. Chunks are sequences of
cells that name their chunk and position, so any mixture shows.

### XftpPage

`pages` are the pages rendered one after the other in a tab, `transfers` the async functions
that were started; a transfer keeps writing to the page that started it. `pc` is the await
at which it is. The worker and the network are reduced to their answers. Progress is in
percent; a ring has the animation that was started last, and the promise of `fillTo` when
someone waits for it.

### XftpEncoding, XftpProtocol, XftpFile, XftpDescription, XftpRoundTrip

Pure definitions, and one module that puts them in the order in which a file meets them.
Byte strings are sequences of numbers; every conversion is computed: length prefixes,
padding, DER elements, base64 sextets, size units, grouping of replicas. The cipher is
symbolic but byte exact: a cell is a byte with the set of keystream bytes XORed onto it, so
that using a keystream byte twice or the wrong one leaves a trace. A signature is the key
and a hash; a hash is a small polynomial. The lengths of keys, blocks, chunks and segments
are constants, scaled down. The server's side of each message follows
`src/Simplex/FileTransfer` (`Protocol.hs`, `Transport.hs`, `Server.hs`).

A decoder that throws gives no position (`Nowhere`), an encoder that throws leaves a mark that is
no byte (`CannotEncode`): a content too long for its length bytes, an empty list where none is
allowed, a message that does not fit its block. Lengths of DER elements are put together in signed
32 bit as the code does, so a length can be negative and lead back. Certificates (`Cert`) have a
key, an issuer and the issuer's signature; a server of `Peers` may show the identity certificate
of the address or another one, behind a leaf that it issued or did not. The throw of `blockPad` and
the one of `unPadLazy` for a negative size are modelled, and no run reaches them: no command that
the client can encode, and no file it encrypted, leads there.

## 3. Runs

Passing runs:

| Run | Properties | Bounds and why they suffice |
|---|---|---|
| `msg_queue` | `QuotaBound`, `NoAcceptWhileMarked`, `ImplementsQueue` | quota 3, 9 sends: the queue fills, drains and fills again; the theorems cover all values |
| `delivery` | `NoZombieSubscription`, `ClosedIsForgotten`, `FirstReceiptInOrder` | 2 connections take the queue over from each other, 2 messages, `sndQ` of 1 so that it is full; 2 commands besides `ACK` |
| `delivery_get` | `OneOutstanding`, `DeliveredIsHead`, `Drained` | one connection with `SUB`, `GET`, `ACK` (also with an empty id), expiry; 3 messages, quota 2, so the marker is delivered too |
| `delivery_live` | `Answered`, `TakeoverEnds`, `SubscribedIsKept` | 2 connections, `SUB`, `OFF`, `DEL`, disconnects |
| `journal` | `NoStoreError`, `MemoryIsDurable`, `TipIsHead`, `PendingIsKnown`, `NoOrphanJournals`, `ImplementsQueue` | all operations; 2 messages per journal, 4 sends, so reading and writing are in different journals; 2 faults (crash, failed append, lost journal), so that recovery is interrupted |
| `queue_store` | `IndexesAgree`, `ServicesAgree`, `RestartKeeps`, `DeletedStays`, `KeyKept` | 2 queues, 2 threads, 3 operations, a failing line, 2 crashes (one of them may interrupt the start) |
| `xftp_codec` | `ConnectsRight`, `ChunksFit`, `OneStream`, `ReadAsSent`, `DescriptionExact`, `FileExact` | chunk sizes 2, 8, 32, 128 for files of 0 to 240 bytes: every case of the sizing and every remainder; whole trips for files of up to 20 bytes, with up to three chunks, segments of 3 bytes and keystream blocks of 4, so that all boundaries shift against each other; 319 servers; names of 1, 8 and 256 bytes; 0, 1, 2 and 256 recipients; one fault anywhere |
| `xftp_client` | `NoPostOnClosed`, `PoolIsExact`, `ExecutedAsReported`, `CommandEnds` | 2 callers with 2 and 1 commands, up to 2 attempts each, 2 faults, so that both reconnect and a second failure meets the first recovery; the user may close the agent |
| `xftp_transfer` | `LinkIsComplete`, `StoredIsKept`, `FailsForAReason`, `TransferEnds` | 3 chunks of sizes 2, 2, 1 on 2 servers in every assignment; one fault, one short write, one sweep |
| `xftp_page` | `ShowsItsTransfer`, `LinkOpensAtItsOrigin`, `Released` | 3 pages and transfers in all, 2 chunks, small and big files, 2 servers, 5 kinds of fragment |

What they say:

* `FirstReceiptInOrder`: recipients receive messages for the first time in the order of
  their `SEND`s, whatever takeovers and reconnects happen. (Not claimed with expiry: an
  expired message that `SUB` had already peeked may arrive after a newer one.)
* `OneOutstanding`, `DeliveredIsHead`: what a `Sub` records as delivered is the head of the
  queue, and nothing is pushed past it.
* `Drained`: a recipient that keeps acknowledging empties the queue. It is stated for a
  connection that subscribes once: a repeated `SUB` whose peek found the queue empty
  clears `delivered`, and the connection then waits for its next `SUB`.
* `NoZombieSubscription`, `ClosedIsForgotten`: connections, `queueSubscribers` and
  `subClients` agree once the events about them were processed. For
  a deleted queue `ClosedIsForgotten` claims nothing: a `DEL` killed by a disconnect between
  removing its `Sub` and telling `serverThread` leaves the entry behind.
* `SubscribedIsKept`: `removeWhenNoSubs` never takes the connection that is subscribed out of
  `subClients`, although it runs in a transaction of its own after the takeover;
  `disconnectTransport` would otherwise close it as inactive.
* `MemoryIsDurable`: when no operation is in progress, what a crash would leave is what the
  server has in memory, so nothing that was answered is undone.
* `NoStoreError`: none of the places where the store throws an error of its own is
  reached with the faults of the run (after a failed append a journal may be found too
  short, see Known differences).
* `RestartKeeps`: after any restart a queue is as its clients were told, unless an
  operation on it failed, or overlapped with another on the same ids.
  `DeletedStays` and `KeyKept` hold without these exceptions.

* `PoolIsExact`: when the event loop is idle, the pool holds no failed or closed connection,
  and every open connection that nobody closed is in the pool. `NoPostOnClosed`: callers
  that still hold a connection post before its `close` runs.
* `ExecutedAsReported`: a command that succeeded was executed; none is executed more often
  than there are attempts, requests that arrive after their timeout included.
* `StoredIsKept`, `FailsForAReason`: a short write in the middle of a download moves all
  stored chunks to memory and the download goes on; a download that succeeds yields the
  bytes that were uploaded, and a transfer fails only when a command failed, the file was
  deleted, the encrypted file could not be written or the directory was swept.
* `LinkIsComplete`: a link is given out only when all its chunks are on their servers, with
  the content and under the number that the description says, through a redirect too.
* `ShowsItsTransfer`: what a page shows is of the transfer it started last. Pages where a
  file is chosen after a cancel are excepted; the run `xftp_cancel` is about them.
* `LinkOpensAtItsOrigin`: the link leads to a host that offers the file, although chunks
  and redirect are on servers chosen at random.
* `Released`: worker, ring and connections of every transfer are released. Of a cancelled
  upload it asks only what the cancel itself does: its `finally` may never run (Known
  differences).
* `ConnectsRight`: the client connects if and only if the second certificate of the chain is the
  one of the address, the key of the first one signed this challenge for this session and the DH
  key, the certificates can be read, and there is a common version, of which the highest is used.
  It does not say that the server has the identity key: the client does not ask who issued the
  first certificate, and some of the servers of the run, which have the certificate of the
  address behind a leaf of their own, are accepted (Known differences).
* `ReadAsSent`, `DescriptionExact`, `FileExact`: whatever is cut, altered or swapped, what is
  accepted is what was sent. All cut answers are shorter than a block and the length tells them,
  as in the code (`src/client.ts:314`); cut commands reach the server's parser. A transfer fails
  only after a fault or for a name or a list that cannot be encoded.

`CHECK_DEADLOCK FALSE` is set where the system may come to rest: an SMP server without
commands (`Delivery`), a deleted queue of the journal store, and a web client that has
ended its transfers.

Runs that end in a violation (`lost_wakeup`, `xftp_cancel`) are described under Findings.

## 4. Fairness

`Fairness` of `Delivery` is weak fairness of each thread of the server: client threads,
senders' threads, delivery threads, `serverThread`, `sendPendingEvtsThread` and
`clientDisconnected`. They are Haskell threads that block only in STM, and the runtime
schedules every runnable thread. It includes `Transmit`: the recipient reads what it is
sent (one that does not is disconnected by the transport timeout). Commands, `SEND`,
expiry and disconnects are never forced. `Acknowledging`, used only for `Drained`, is
strong fairness of the recipient's `ACK`: the `ACK` is possible only while the client thread
is free, and it is free again and again.

The fairness of the web client is weak fairness of its event loops: `RunJob` of
`XftpClient` (the microtask queue is always emptied), the steps of the worker, the page and
each group in `XftpTransfer` and `XftpPage`, the animation frames of a ring that somebody
waits for (`FillFrame`; a tab in the background delays frames and does not drop them). The
network is assumed to answer, lose or time out every post (`ServerHandles`, `Deliver`,
`LossDelivered`): the transports have a timeout of 30 seconds. A worker need not start: the
properties name that case. Users, faults, other pages and late arrivals are never forced.

## 5. Proofs

Every theorem holds for all values of the constants that satisfy the named assumptions, also
those bounds that only keep TLC's instances small. All of them are invariants of `Spec` or, where
it says so, action properties. Every inductive invariant below was first checked by TLC on the
instance of a run.

| Module | Theorems, and the property of a run that each states |
|---|---|
| `MsgQueueProofs` | `QuotaRespected` (`QuotaBound`), `RefusedUntilDrained` (`NoAcceptWhileMarked`, an action property), `MemoryStoreImplements` (`ImplementsQueue`, the refinement of `QueueSpec`), and `QueueTyped`, `SizeIsExact`, `OrderKept` (messages stay in the order of their `SEND`s) |
| `DeliveryProofs` | `SubscriptionsAreKnown` (`NoZombieSubscription`), `ClosedAreForgotten` (`ClosedIsForgotten`), `SubscribersAreKept` (`SubscribedIsKept`), `AtMostOneOutstanding` (`OneOutstanding`), `DeliveredIsTheHead` (`DeliveredIsHead`, an action property), `FirstReceiptsInOrder` (`FirstReceiptInOrder`, an action property), and `DeliveryUsesQueue`, `DeliveryTyped` |
| `JournalStoreProofs` | `NothingInconsistent` (`NoStoreError`), `AnsweredIsDurable` (`MemoryIsDurable`), `TipIsNext` (`TipIsHead`), `SkippedIsEmpty` (`PendingIsKnown`), `JournalStoreImplements` (`ImplementsQueue`, the refinement of `QueueSpec`), and `JournalInvariant` |
| `JournalFilesProofs` | `NoneOrphaned` (`NoOrphanJournals`) |
| `QueueStoreProofs` | `IndexesKept` (`IndexesAgree`), `DeletedStaysDeleted` (`DeletedStays`), `KeysKept` (`KeyKept`), `RestartIsKept` (`RestartKeeps`), `ServicesAreExact` (`ServicesAgree`), and `StoreTypeCorrect` |
| `XftpClientProofs` | `PoolExact` (`PoolIsExact`), `NoClosedPost` (`NoPostOnClosed`), `ReportsAreTrue` (`ExecutedAsReported`) |
| `XftpTransferProofs` | `LinkComplete` (`LinkIsComplete`), `StoredKept` (`StoredIsKept`), `FailsForReason` (`FailsForAReason`), and `TransferInvariant` |
| `XftpPageProofs` | `PagesShowTheirTransfers` (`ShowsItsTransfer`), `LinksOpen` (`LinkOpensAtItsOrigin`) |

### Message queue

Assumption: `QueueAssumption` (`Quota` and `MaxSends` are natural numbers). The invariants are
not inductive alone. `IInv` adds `IdsIssued` (ids in the queue were issued, so the next one is
larger than all) and `OpenWithinQuota` (while `canWrite` is set the queue is within quota, so
the marker exceeds it by one at most). The proof that a step preserves `IInv` has three lemmas,
one per kind of change: `AppendPreserves`, `DropPreserves` (a prefix is removed: acknowledgement
and expiry), `EmptyPreserves`; then one step per action. `StepImplements` maps each action to a
step of `QueueSpec`; it needs the invariant because the code looks at `canWrite` and `size` and
the abstract queue at the marker and the length.

### Delivery

Assumptions: `QueueAssumption`, and `DeliveryAssumption` (`None` is no client; `MaxSubs` and
`SndQSize` positive; any set `Ops` of commands).

* `DeliveryUsesQueue`: every step of `Delivery` is a step of `MsgQueue` or leaves the queue
  alone, so `IInv` of the queue holds here too. `Typed` adds the types and `Held`: whoever is
  between two transactions (a command, a sender, a delivery thread) holds an existing client and
  `Sub`, and never a `ProhibitSub` one. It is needed before anything else can be read at those
  references.
* Subscriptions: `Registered`. A subscription of a connection is registered in
  `queueSubscribers`, or is on the way there in `subQ`, or is about to be ended, and is in only
  one of these places (`Claims`); what `clientDisconnected` leaves after each of its steps
  (`Closing`); of a queue being deleted, the deleting connection has no subscription left when
  `serverThread` learns of it (`Deleting`).
  `NoZombieSubscription` alone says nothing of an event still in `subQ`, which is what makes the
  next step of `serverThread` correct. For `SubscribersAreKept`, `Kept` adds that the connection
  whose subscription is about to be ended is not the one registered.
* Messages: `OnlyHeads`. `carried(m)` names every place between the queue and a recipient (a
  command after its peek, a `Sub`, a sender, a delivery thread, `sndQ`, what was received), and a
  carried message is not after the head. `AtMostOneOutstanding` and `DeliveredIsTheHead` follow.
* Order: `FirstReceiptsInOrder` has the hypothesis `Ops \cap {"EXPIRE", "DEL"} = {}`. It is
  needed: a message that expires between the peek of `SUB` and its answer may be received after
  a later one (section 6), and the order starts anew with `DEL`. `Known` strengthens `OnlyHeads`:
  a carried message is the head or was received before; by `Acks` a message leaves the queue
  only with an acknowledgement of a connection that received it.

### Journal store

Assumptions: `JournalAssumption` and two hypotheses of each theorem. `CleanTears` leaves out
the two tears of a state line after which the code does lose messages or cannot open the queue
(section 6); a crash may leave nothing of an append, a part that cannot be parsed, or all.
`RoomForTwo` says that a journal has room for more than one message if appends can fail: with
`MaxMsgCount = 1` the only message of a journal that a failed append left behind would be full
at once (section 6); the server has 128 or 256. Without failures any size will do.

An operation is a list of file system calls and assignments, and a crash may come between any
two, so the properties, which speak of a queue whose lock is free or of its answers, say nothing
of the states in between. `IInv` does. It has four parts:

* `Typed`: the types; the log is empty, ends in a newline, or has a bad last line only; a backup
  has a state; the jobs are those an operation goes through (`JobOK`).
* `Recoverable`: the state that a start would read is valid and its journals hold all messages
  it counts (`Stored`), so that every crash is harmless in whatever state it comes.
* `Remembered`: the opened queue has a valid state, a `tipMsg` that agrees with the files, and
  the cached `queueState` is the one of the state.
* `Phase`: for every list of effects that can be left in `todo`, what of the operation has been
  done. It is a disjunction with one form for each kind of effect that comes next: at rest,
  opening (with the backup, restoring it, compacting the log, replacing or removing missing
  journals), landing a message in its journal, committing the state line, logging the read
  position, reading, switching journals, starting and extending a journal, refusing a write,
  closing, deleting. `MemOK` relates memory and files at rest: the state in memory `Follows`
  the recorded one.

Each effect has one lemma, which says to which form it leads (`EffectStep` combines them); each
step of a job has one which says that the plan it puts into `todo` has a form of `Phase`; then
there is one for each of `Crash`, `Fail` and `Lose`. The step lemmas also say what becomes of
`Durable`: it stays, or changes as `QueueSpec` allows (`Allowed`), when the state line is
complete. `NextKeeps` is their conjunction, and `JournalStoreImplements` its second part.

`NoneOrphaned` says that there is nothing on disk that should have been removed. It holds only
until a fault (a crash after a journal is created and before its state is logged leaves the file),
and `IInv` allows more files than that. Its proof has a second invariant on top, `TInv`: as long
as there are no faults, `Tidy` holds of the set of the effects left, and a closed queue that is
said to store nothing has empty journals (`Unstored`). `Tidy` takes the journals that will be
left when these effects are done (those there are, with the created and without the removed), and
says that they are the journals of the state that will be recorded then, with as many messages as
it counts: the state of the line still to be appended, or the recorded one if there is no such
line, or no journals if the log is retired. An effect that is done moves from the set into the
files without changing what will be left (`EffectTidies`); a plan is tidy if what it creates,
removes, puts and records agree (`OpenTidies`, `WriteTidies`, `PeekTidies`, `DeleteTidies`).

### Queue store

Assumptions: `StoreAssumption` and `SentinelAssumption` (`None`, `Absent` and `Deleted` are no
values), and `KindAssumption` (ids of different kinds differ; the code never compares them, and
only the history variable `unsure` puts them into one set).

The operations are functions from store to store which the server and the replay share, so they
are treated once: one lemma per operation (`AddQueueKeepsIndexes` and so on) says that it keeps a
store well-formed, `LineEffect` says what a log line does to a record, and memory, file and replay
change through lines only.

* `IInv`: every store there is (memory, the log, `.start`, what replay has reached) is
  well-formed (`StoreOK`: `Indexed`, which is `IndexesAgree` of one store, and `LinksKnown`,
  without which a new queue could take over the link of a deleted one), and the records of an
  operation between its transaction and its line are in memory (`PendingKnown`), as are the
  queues of the log (`FileKnown`).
* `DelInv`, for `DeletedStays`: nobody else works on a queue whose creation is not answered
  (`CreatedAlone`), a queue whose `DeleteQueue` line is on its way is already deleted in memory
  (`DeletedInMemory`), and one that clients were told is deleted is live in no store
  (`ToldDeleted`).
* `KeysAgree`, for `KeyKept`: the key in the log is none or the one in memory, and no line on
  its way has another one.
* `RestartInv`, for `RestartKeeps`: two operations in progress claim different ids unless they
  are unsure (`ClaimsDisjoint`), so the line of each will fit the log whatever is written before
  (`PendingFits`), the log agrees with memory but for the lines on their way (`FileAgrees`,
  `FileIds`), and what clients were told is in both (`ToldKept`). `Loaded` carries that over the
  phases of a start. `Moved` says what one line does to one entry of an index.
* `ServiceInv`, for `ServicesAgree`: in every store the ids and the hash of a service are those
  of the queues that refer to it (`Good`, `CertsOK`), unless the service is unsure; lines that
  refer to a service come after the one that creates it (`JoinedKnown`, `ServicesOnTheWay`,
  `CreatedOnce`, `FileServices`).

### Connection pool of the web client

Assumption: `ClientConstants` (at least one attempt; callers have an agent). `IInv` is the
conjunction of

* `PoolInv`: what the microtasks still to run will do. A failed connection in the pool has its
  `catch` queued (`Pooled`), a connection out of the pool has failed, was closed, or its close is
  queued (`Closing`), and no caller's `await` follows the `close` of the same connection
  (`Ordered`). Between tasks the queues are empty, which gives `PoolIsExact`;
* `Connecting`: one request at most is on its way for an unsettled connection, so it settles once;
* `Waiting` and `Posting`: a caller waits in one place only, for one promise or one answer;
* `Counted`: the executions of a command and its requests that the server may still execute are
  together no more than the attempts. `ExecutedAsReported` alone does not survive the step of a
  late request.

### Transfers of the web client

Assumptions: `WorkerConstants` (there are chunks, none is empty) and `TransferConstants` (there
are servers, none of them is called `"page"`). The properties speak of the page, the servers or
the worker at rest; what lies between them is on its way in messages, in a handler that awaits, or
in a file that is being written. `IInv` says what:

* `TransferTypes`, `WorkerTypes`: the types. Offsets, sizes and contents of files are those of
  the chunks.
* `Phases`: what the place of the page implies (the outcome, the link, that all groups are done,
  that a failure has an `Excuse`).
* `GroupsAreRight`: each group has its chunks in order and holds the content of the one it is at,
  or there was a fault; no chunk is left to two groups, which is why groups that run in
  parallel never store the same chunk.
* `Uploaded`: a chunk noted in `sent` is on its server; no chunk gets lost between the groups.
* `Pending`, `Waiting`, `InTurn`, `Letters`: requests, the running handler and answers are in the
  order of their numbers, each owner waits for one of them at most, a request says what its owner
  asked (`Asked`), and an answer is true when it arrives (`Told`): a chunk reported as stored
  can still be read.
* `FilesAreRight`: the chunks noted in `meta` are laid in the download file where `meta` says
  (`Laid`) as long as its handle is open; without a handle, before the verification, all
  chunks are in memory. Only then can another page sweep the directory, which is why a sweep
  loses no chunk.
* `Working`: what the handler has established before its await (`HandlerIsRight`). Between the
  write that falls short and its end, all chunks but the one being written are in memory.

There is one lemma for each action; those of the worker go through `HandlerAwaits`,
`HandlerReplies` or `HandlerFails`, those of the page and the groups through `PagePosts`,
`PageAnswer`, `PageAlone`, `GroupPosts`, `GroupAnswer` or `GroupAlone`, which say once what such a
step leaves as it is. `LaidReads` and `WriteLaid` are about reading and writing the file,
`ReadWhole` about reading the range of a chunk from the whole encrypted file, and `InOrderAll` says
that the chunks in the order of their numbers are the encrypted file. These rest on facts about
`FoldLeft` and `FlattenSeq` for sequences of every length (`FoldIsSum`, `FlattenIs`) that are
proved by induction over numbers. The induction principle of the library cannot be used, as it
takes an operator as a parameter; `Induction` states it for a set of numbers, and follows from
`LeastNumber`, which follows from the well-foundedness of inclusion among finite sets.

### Pages of the web client

Assumption: `PageConstants` (there is an address; `Chunks` and `Limit` are positive). `IInv`
says that an aborted page was left by a cancelled upload and shows nothing, that a page in
progress belongs to its last transfer, that on a page where nothing was cancelled only this
transfer still runs, and that after a saved download neither a frame nor a message can move the
ring (`Finished`: with no animation and no progress message of the worker left). `Own` relates
the await of a transfer to the messages that its worker has not answered.

`LinksOpen` needs of the invariant only its types: a link is one to a description of an upload
(`Links`). That a description names a first server at all, whose origin the link takes, is what
`getDescriptionServers` folds from it (`FoldNames`, with the same induction as above).

### Only model-checked

* All liveness (`Answered`, `TakeoverEnds`, `Drained`, `CommandEnds`, `TransferEnds`,
  `Released`): the prover handles neither fairness nor ENABLED.
* The encodings and `XftpRoundTrip` (`ConnectsRight`, `ChunksFit`, `OneStream`, `ReadAsSent`,
  `DescriptionExact`, `FileExact`): what a recursive definition computes for every input is
  out of the prover's reach (it has no recursion, and only what folds over sequences compute
  could be proved, by unfolding each fold in an induction of its own).

## 6. Findings and known differences

Findings, each with a run whose counterexample shows it:

* `lost_wakeup`: a message that is sent between the peek of `SUB` and the registration by
  `serverThread` is not delivered while the subscription lasts, and since the queue is
  then not empty, neither are later ones.
* `xftp_cancel`: `aborted` belongs to the upload page and `startUpload` resets it. When
  another file is chosen after a cancel, the cancelled upload, which still waits for a
  command, shows its error (or its link) over the new one. The design
  (`rfcs/done/2026-01-30-send-file-page/2026-02-04-xftp-web-page.md:337`) says that cancel
  "Resets UI to landing state".

Known differences that no run states as a property. SMP server:

* `deliverThread` that exits without delivering (`Server.hs:2102`) leaves `SubThread` in the
  `Sub`; later `SEND`s deliver nothing to it, although the comment at `Server.hs:2034` lists all
  conditions of delivery.
* A `SEND` verified before `DEL` stores its message in the deleted queue (`Server.hs:2007`);
  `protocol/simplex-messaging.md:819`: "All undelivered messages must be deleted as soon as this
  command is received".
* A state line of a journal that lost only its newline in a crash is accepted
  (`Server/MsgStore/Journal.hs:948`), the next line is appended to it, and a second crash then
  undoes answered messages; the comment at line 927 says the function is "resilient to
  crashes". The run `journal` leaves this tear out (`"newline"` of `Tears`).
* After a failed append to a new journal the write handle and the write state belong to
  different files (`Journal.hs:651`), and later writes end in the error of which line 905 says:
  "From code logic this can't happen." If a journal had room for one message only
  (`maxMsgCount = 1`, which no configuration of the repository has), TLC would then find
  `MemoryIsDurable` violated.
* `FirstReceiptInOrder` does not hold when a message expires between the peek of `SUB` and
  its answer.
* An `ACK` in progress while the queue is taken over is answered with the next message
  after `END`, although `protocol/simplex-messaging.md` says "No further messages should be
  delivered to unsubscribed transport connection".
* The lines of two overlapping operations on one queue (for example `NKEY` and `NDEL` on
  two connections, or `OFF` and the control port's block) can be in the other order than
  their transactions; a restart then restores the state that lost in memory. `RestartKeeps`
  excludes such queues.
* A second connection of a new service gets the service id before the line that creates the
  service is written. If lines of its queues precede it, or if that line fails, the
  replay leaves these queues out of the ids and the hash of the service until the next
  restart, or for good. `ServicesAgree` excludes such services.
* `deleteStoreQueue` does not remove the link of the queue from `links`; the link id stays
  refused to other queues until the log was compacted and read again.
* A state line of a journal cut within a size of several digits parses to an inconsistent
  state, and opening the queue fails from then on (tear `"lastDigit"`, quota above 9).
* `SUB` verified before `DEL` can register on the deleted queue.
* The removal of a second journal in `removeJournals` is never needed: an empty queue
  reads and writes the same journal.
* A comment at `Server/Env/STM.hs:388` describes an older arrangement of subscribers.
* `foldrM` at `Server.hs:1388` processes the commands of a batch from the last to the first;
  the models have one command per batch.

XFTP web client and server:

* `verifyIdentityProof` (`src/crypto/identity.ts:95`) compares the fingerprint of the identity
  certificate with the address and verifies two signatures with the key of the leaf, and never
  that the identity certificate issued the leaf. So neither signature says anything of the
  identity key, although the design
  (`rfcs/done/2026-01-30-send-file-page/2026-02-02-xftp-web-handshake.md:32`) says "Step 3 proves
  the router holds its identity key *right now*" and "Step 4 proves the DH session key was signed
  by the identity key holder (prevents MITM key substitution)". In the run `xftp_codec` a server
  with `genuine` and not `issued` is such a server, and `ConnectsRight` says that the client
  connects to it.
* An answer with another session id is thrown as a plain `Error` by `decodeTransmission`
  (`src/protocol/transmission.ts:105`), before the branch of `FRErr SESSION` in
  `src/client.ts:328` is reached, and is not retried;
  `rfcs/done/2026-01-30-send-file-page/2026-02-11-xftp-web-error-handling.md:88` lists
  `FRErr SESSION` as retried.
* A failed connect is not retried, and in Node.js neither is a command whose HTTP/2 session was
  lost: the error is no `TypeError`, and the dead connection stays in the pool.
* Callers that fail on one connection reconnect one after the other, each replacing the
  connection of the one before; section 3.5 of that document expects them to share the new one.
* A retry that reconnects after `closeXFTPAgent` adds a connection to the closed agent.
* The chunks of a redirect are not in the sender's description and cannot be deleted with it.
* A short write of the encrypted file leaves its handle open, and the cleanup cannot remove the
  session directory; a `decryptAndStoreChunk` handled after the cleanup makes it again.
* A worker whose initialization fails answers nothing and every request waits; requests
  pending when the worker is terminated are never settled, so after a cancel the `finally` of
  the upload may never run (the cancel has closed the agent itself).
* `createCryptoBackend` throws outside the `try` where Web Workers are missing: the page stays
  at its progress stage.
* A change of the fragment replaces the page while its transfer goes on.
* A file whose name has more than 255 bytes in UTF-8 cannot be uploaded: the header throws
  "encodeBytes: length exceeds 255" (`src/protocol/encoding.ts:109`).
* An address with several hosts loses its port when the port follows the last host
  (`src/protocol/address.ts:36`, against the format in the comment at line 29).
* Two `FPUT` of one chunk that overlap both pass the check at
  `src/Simplex/FileTransfer/Server.hs:540`; the second one fails to set the path and removes the
  file that the first one committed, although the comment there says that a committed file
  "must not change".

## 7. What is left out

Within the modelled parts: statistics and logging; several queues in `Delivery` (queues
share only connections); client services and notifications in `Delivery`; the export
of messages, the shared lock and timed backups of the journal store; `tryDelMsg` and
`getQueueSize` of the journal store, which are parts of operations that are modelled; the
bytes of log lines, the removal of old backups and the reading operations of the queue
store; loss of data by the operating system after a write returned (the code calls no
`fsync`, the models assume a crash of the process only).

In the web client: the libraries in the bundle (libsodium, noble-curves, pako); the tag-first
box (`cbEncrypt`, `cbDecrypt`), which no page uses; texts of errors and their translation, the
indeterminate ring, file name sanitizing, copying and sharing of the link, layout.

Not modelled: cryptography, transport and encodings of the SMP server, command line and
configuration, statistics, control port, names resolver (see `PROJECT.json` for each).

## 8. Plan

Done: `QueueSpec`, `MsgQueue`, `Delivery`, `JournalStore`, `QueueStore`, and the modules of the
XFTP web client; the proofs of section 5.

Next modules, in this order:

1. `XftpServer` (`src/Simplex/FileTransfer/Server.hs`, `Server/Store.hs`): quota, upload in two
   transactions, deletion and expiry, under the retries of `XftpClient`.
2. `NtfStore` and service subscriptions (`SUBS`, `ENDS`) as an extension of `Delivery`, with
   the property that a service gets the messages of all its queues.
3. `AgentSubs` (`Agent/TSessionSubs.hs`, `Client/Agent.hs`): active and pending
   subscriptions under session changes; every queue is subscribed or pending.
4. `AgentDelivery` (`Agent.hs`): delivery workers, retries, receipt and `ACK`, with crashes;
   composed with `QueueSpec` as the server: messages arrive exactly once and in order.
5. `Ratchet`: numbers, skipped keys, with symbolic keys; queue rotation and ratchet
   synchronization; `MsgRestore`.

Every safety property that a run checks of the modules with proofs is stated by a theorem; what
is left to prove are the encodings, for the reason given in section 5.
