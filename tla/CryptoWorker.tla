---------------------------- MODULE CryptoWorker ----------------------------
(***************************************************************************)
(* The crypto worker of the web page (web/crypto.worker.ts) with its       *)
(* storage in the origin private file system (OPFS), and the backend that  *)
(* the page talks to it through (web/crypto-backend.ts).                   *)
(*                                                                         *)
(* The worker handles one message at a time; a handler that awaits the     *)
(* file system is several steps, between which the page runs.  A chunk is  *)
(* a sequence of cells <<chunk, position>>; a file is <<>> when it does    *)
(* not exist and <<cells>> when it does.  Progress messages are left out.  *)
(***************************************************************************)
EXTENDS Naturals, Sequences, SequencesExt, FiniteSets, Functions

CONSTANTS
  Size,       \* the sizes of the chunks of the file
  MaxShort,    \* how many writes may fall short (storage quota)
  MaxSwept     \* how often another page may sweep the session

ASSUME WorkerConstants ==
  /\ Size # <<>> /\ Size \in Seq(Nat \ {0})
  /\ MaxShort \in Nat /\ MaxSwept \in Nat

VARIABLES
  worker,     \* starting, up, broken (initialisation failed), terminated
  ready,      \* the backend's promise: the worker said it is ready
  pending,    \* who waits for the answer to which message
  nextId,     \* the next message number
  inbox,      \* messages to the worker
  running,    \* the handler that is running, with its step
  outbox,     \* messages from the worker
  w,          \* the worker's variables
  opfs,       \* its session directory
  shorts,     \* writes that fell short so far
  swept       \* sweeps by other pages so far

workerVars == <<worker, ready, pending, nextId, inbox, running, outbox, w, opfs, shorts, swept>>

Chunks == DOMAIN Size
Cells(i) == [k \in 1..Size[i] |-> <<i, k>>]
EncData == FlattenSeq([i \in Chunks |-> Cells(i)])
Empty == <<>>       \* an empty Map

(* The state of a worker that was just started. *)
FreshWorker ==
  [sessionDir |-> FALSE, uploadRead |-> FALSE, leaked |-> FALSE, downloadWrite |-> FALSE,
   meta |-> Empty, offset |-> 0, useMemory |-> FALSE, memory |-> Empty]

NoFiles == [dir |-> FALSE, upload |-> <<>>, download |-> <<>>]

WorkerInit ==
  /\ worker = "starting" /\ ready = FALSE /\ pending = Empty /\ nextId = 1
  /\ inbox = <<>> /\ running = {} /\ outbox = <<>>
  /\ w = FreshWorker /\ opfs = NoFiles /\ shorts = 0 /\ swept = 0

(* The numbers in a set, in their order. *)
Ascending(S) ==
  CHOOSE nos \in [1..Cardinality(S) -> S] : \A i, j \in DOMAIN nos : i < j => nos[i] < nos[j]

With(map, k, v) == [x \in DOMAIN map \cup {k} |-> IF x = k THEN v ELSE map[x]]

---------------------------------------------------------------------------
(* The file system.                                                        *)

(* What read() leaves in a buffer of zeros. *)
ReadAt(cells, off, n) ==
  [k \in 1..n |-> IF off + k <= Len(cells) THEN cells[off + k] ELSE 0]

(* write() at an offset: what was there before is kept around it. *)
WriteAt(cells, off, new) ==
  [k \in 1..(IF off + Len(new) > Len(cells) THEN off + Len(new) ELSE Len(cells)) |->
     IF k \in (off + 1)..(off + Len(new)) THEN new[k - off]
     ELSE IF k <= Len(cells) THEN cells[k] ELSE 0]

---------------------------------------------------------------------------
(* The backend, on the page.                                               *)

Message(id, type, no, off, size, body) ==
  [id |-> id, type |-> type, no |-> no, off |-> off, size |-> size, body |-> body]

(* send: waits until the worker is ready, then registers and posts. *)
Send(owner, type, no, off, size, body) ==
  /\ ready
  /\ pending' = With(pending, nextId, owner)
  /\ inbox' = IF worker = "terminated" THEN inbox
              ELSE Append(inbox, Message(nextId, type, no, off, size, body))
  /\ nextId' = nextId + 1

(* handleMessage: the answer goes to whoever waits for it. *)
Received == Head(outbox)
Owner == pending[Received.id]

HandleMessage ==
  /\ outbox # <<>> /\ Received.type # "ready"
  /\ outbox' = Tail(outbox)
  /\ pending' = Restrict(pending, DOMAIN pending \ {Received.id})

(* The first message must be that the worker is ready. *)
HandleReady ==
  /\ outbox # <<>> /\ Received.type = "ready"
  /\ outbox' = Tail(outbox)
  /\ ready' = TRUE
  /\ UNCHANGED <<worker, pending, nextId, inbox, running, w, opfs, shorts, swept>>

(* After the answer to cleanup the worker is terminated; what waits for    *)
(* other answers waits for ever.                                           *)
Terminate ==
  /\ worker' = "terminated"
  /\ inbox' = <<>> /\ running' = {} /\ outbox' = <<>>

---------------------------------------------------------------------------
(* The worker.                                                             *)

(* initPromise: libsodium is loaded and old sessions are swept; when that  *)
(* fails, ready is never said.                                             *)
WorkerStarts ==
  /\ worker = "starting"
  /\ \/ worker' = "up" /\ outbox' = Append(outbox, [id |-> 0, type |-> "ready", data |-> <<>>])
     \/ worker' = "broken" /\ UNCHANGED outbox
  /\ UNCHANGED <<ready, pending, nextId, inbox, running, w, opfs, shorts, swept>>

(* Mutant: the next message is taken while a handler is waiting. *)
Dispatch_ ==
  /\ worker = "up" /\ inbox # <<>> /\ Cardinality(running) < 2
  /\ running' = running \cup {[msg |-> Head(inbox), pc |-> "begin", data |-> <<>>]}
  /\ inbox' = Tail(inbox)
  /\ UNCHANGED <<worker, ready, pending, nextId, outbox, w, opfs, shorts, swept>>

(* onmessage: the next message, when the one before is done. *)
Dispatch ==
  /\ worker = "up" /\ inbox # <<>> /\ running = {}
  /\ running' = {[msg |-> Head(inbox), pc |-> "begin", data |-> <<>>]}
  /\ inbox' = Tail(inbox)
  /\ UNCHANGED <<worker, ready, pending, nextId, outbox, w, opfs, shorts, swept>>

(* Mutant: an exception is not answered. *)
Reply_(r, type, data) ==
  /\ running' = running \ {r}
  /\ outbox' = IF type = "error" THEN outbox
               ELSE Append(outbox, [id |-> r.msg.id, type |-> type, data |-> data])

(* An exception of a handler is answered with an error. *)
Reply(r, type, data) ==
  /\ running' = running \ {r}
  /\ outbox' = Append(outbox, [id |-> r.msg.id, type |-> type, data |-> data])

Await(r, pc, data) ==
  /\ running' = (running \ {r}) \cup {[r EXCEPT !.pc = pc, !.data = data]}
  /\ UNCHANGED outbox

Short == shorts < MaxShort /\ shorts' = shorts + 1

(* getSessionDir: created once, then the handle is kept. *)
OpenDir(state) == [state EXCEPT !.sessionDir = TRUE]
MakeDir(files) == IF w.sessionDir THEN files ELSE [files EXCEPT !.dir = TRUE]

(* handleEncrypt: the encrypted file is written and stays open for reading.*)
(* A short write throws, and its handle is never closed.                   *)
handleEncrypt(r) ==
  /\ r.msg.type = "encrypt"
  /\ \/ /\ r.pc = "begin"
        /\ w' = OpenDir(w) /\ opfs' = MakeDir(opfs)
        /\ Await(r, "write", <<>>)
        /\ UNCHANGED shorts
     \/ /\ r.pc = "write" /\ opfs.dir
        /\ opfs' = [opfs EXCEPT !.upload = <<EncData>>]
        /\ w' = [w EXCEPT !.uploadRead = TRUE]
        /\ Reply(r, "encrypted", Size)
        /\ UNCHANGED shorts
     \/ /\ r.pc = "write" /\ opfs.dir /\ Short
        /\ opfs' = [opfs EXCEPT !.upload = <<SubSeq(EncData, 1, Len(EncData) - 1)>>]
        /\ w' = [w EXCEPT !.leaked = TRUE]
        /\ Reply(r, "error", <<>>)
     \/ /\ r.pc = "write" /\ ~opfs.dir
        /\ Reply(r, "error", <<>>)
        /\ UNCHANGED <<w, opfs, shorts>>

handleReadChunk(r) ==
  /\ r.msg.type = "readChunk"
  /\ IF w.uploadRead THEN Reply(r, "chunk", ReadAt(opfs.upload[1], r.msg.off, r.msg.size))
     ELSE Reply(r, "error", <<>>)
  /\ UNCHANGED <<w, opfs, shorts>>

(* The write of handleDecryptAndStore at the current end of the file.      *)
(* state is w with the handle open, file the content.  When the write      *)
(* falls short, all chunks written before go to memory and the handle is   *)
(* closed.                                                                 *)
Migrated(state, file, no) ==
  [cn \in DOMAIN state.meta \ {no} |-> ReadAt(file, state.meta[cn].offset, state.meta[cn].size)]

WriteChunk(r, state, files) ==
  LET no == r.msg.no
      file == IF files.download = <<>> THEN <<>> ELSE files.download[1]
      noted == [state EXCEPT !.offset = @ + Len(r.msg.body),
                             !.meta = With(@, no, [offset |-> state.offset, size |-> Len(r.msg.body)])]
  IN \/ /\ w' = noted
        /\ opfs' = [files EXCEPT !.download = <<WriteAt(file, state.offset, r.msg.body)>>]
        /\ Reply(r, "stored", <<>>)
        /\ UNCHANGED shorts
     \/ /\ Short
        /\ w' = [noted EXCEPT !.downloadWrite = FALSE,
                              !.memory = [cn \in DOMAIN @ \cup (DOMAIN state.meta \ {no}) |->
                                            IF cn \in DOMAIN state.meta \ {no}
                                            THEN Migrated(state, file, no)[cn] ELSE @[cn]]]
        /\ opfs' = [files EXCEPT !.download = <<file>>]
        /\ Await(r, "fallback", <<>>)

(* Mutant: the chunks kept in memory so far are forgotten. *)
Fallback_(r) ==
  /\ opfs' = [opfs EXCEPT !.download = <<>>]
  /\ w' = [w EXCEPT !.meta = Empty, !.offset = 0, !.useMemory = TRUE,
                    !.memory = [cn \in {r.msg.no} |-> r.msg.body]]
  /\ Reply(r, "stored", <<>>)
  /\ UNCHANGED shorts

(* After the file is removed the worker keeps all chunks in memory. *)
Fallback(r) ==
  /\ opfs' = [opfs EXCEPT !.download = <<>>]
  /\ w' = [w EXCEPT !.meta = Empty, !.offset = 0, !.useMemory = TRUE,
                    !.memory = With(@, r.msg.no, r.msg.body)]
  /\ Reply(r, "stored", <<>>)
  /\ UNCHANGED shorts

(* decryptReceivedChunk: the chunk that was asked for, or an exception. *)
Genuine(msg) == msg.body = Cells(msg.no)

handleDecryptAndStore(r) ==
  /\ r.msg.type = "decryptAndStoreChunk"
  /\ \/ /\ r.pc = "begin" /\ ~Genuine(r.msg)
        /\ Reply(r, "error", <<>>)
        /\ UNCHANGED <<w, opfs, shorts>>
     \/ /\ r.pc = "begin" /\ Genuine(r.msg) /\ w.useMemory
        /\ w' = [w EXCEPT !.memory = With(@, r.msg.no, r.msg.body)]
        /\ Reply(r, "stored", <<>>)
        /\ UNCHANGED <<opfs, shorts>>
     \/ /\ r.pc = "begin" /\ Genuine(r.msg) /\ ~w.useMemory /\ ~w.downloadWrite
        /\ w' = OpenDir(w) /\ opfs' = MakeDir(opfs)
        /\ Await(r, "open", <<>>)
        /\ UNCHANGED shorts
     \/ /\ r.pc = "begin" /\ Genuine(r.msg) /\ ~w.useMemory /\ w.downloadWrite
        /\ WriteChunk(r, w, opfs)
     \/ /\ r.pc = "open" /\ (~opfs.dir \/ w.downloadWrite)     \* no such directory, or a lock
        /\ Reply(r, "error", <<>>)
        /\ UNCHANGED <<w, opfs, shorts>>
     \/ /\ r.pc = "open" /\ opfs.dir /\ ~w.downloadWrite
        /\ WriteChunk(r, [w EXCEPT !.downloadWrite = TRUE], opfs)
     \/ r.pc = "fallback" /\ Fallback(r)

(* handleVerifyAndDecrypt: the chunks in the order of their numbers, from  *)
(* memory or from the file, must have the size and digest of the           *)
(* description; then the file is decrypted and the download state cleared. *)
InOrder(map) == LET nos == Ascending(DOMAIN map) IN FlattenSeq([i \in DOMAIN nos |-> map[nos[i]]])

OnDisk == [cn \in DOMAIN w.meta |-> ReadAt(opfs.download[1], w.meta[cn].offset, w.meta[cn].size)]

Cleared == [w EXCEPT !.meta = Empty, !.memory = Empty, !.offset = 0, !.useMemory = FALSE]

handleVerifyAndDecrypt(r) ==
  /\ r.msg.type = "verifyAndDecrypt"
  /\ \/ /\ r.pc = "begin" /\ w.useMemory
        /\ IF InOrder(w.memory) = EncData
           THEN w' = Cleared /\ Reply(r, "decrypted", InOrder(w.memory))
           ELSE Reply(r, "error", <<>>) /\ UNCHANGED w
        /\ UNCHANGED opfs
     \/ /\ r.pc = "begin" /\ ~w.useMemory
        /\ w' = OpenDir([w EXCEPT !.downloadWrite = FALSE]) /\ opfs' = MakeDir(opfs)
        /\ Await(r, "read", <<>>)
     \/ /\ r.pc = "read"
        /\ IF opfs.download # <<>> /\ InOrder(OnDisk) = EncData
           THEN Await(r, "clear", InOrder(OnDisk))
           ELSE Reply(r, "error", <<>>)
        /\ UNCHANGED <<w, opfs>>
     \/ /\ r.pc = "clear"
        /\ opfs' = [opfs EXCEPT !.download = <<>>]
        /\ w' = Cleared
        /\ Reply(r, "decrypted", r.data)
  /\ UNCHANGED shorts

(* handleCleanup: the directory cannot be removed while a handle is open. *)
handleCleanup(r) ==
  /\ r.msg.type = "cleanup"
  /\ \/ /\ r.pc = "begin"
        /\ w' = [Cleared EXCEPT !.uploadRead = FALSE, !.downloadWrite = FALSE]
        /\ Await(r, "remove", <<>>)
        /\ UNCHANGED opfs
     \/ /\ r.pc = "remove"
        /\ opfs' = IF w.leaked THEN opfs ELSE NoFiles
        /\ w' = [w EXCEPT !.sessionDir = FALSE]
        /\ Reply(r, "cleaned", <<>>)
  /\ UNCHANGED shorts

HandlerStep ==
  /\ worker = "up"
  /\ \E r \in running :
       \/ handleEncrypt(r) \/ handleReadChunk(r) \/ handleDecryptAndStore(r)
       \/ handleVerifyAndDecrypt(r) \/ handleCleanup(r)
  /\ UNCHANGED <<worker, ready, pending, nextId, inbox, swept>>

(* sweepStale of another page: a session older than an hour goes, unless   *)
(* one of its files is open.                                               *)
SweptByOther ==
  /\ opfs.dir /\ ~w.uploadRead /\ ~w.downloadWrite /\ ~w.leaked
  /\ swept < MaxSwept /\ swept' = swept + 1
  /\ opfs' = NoFiles
  /\ UNCHANGED <<worker, ready, pending, nextId, inbox, running, outbox, w, shorts>>

=============================================================================
