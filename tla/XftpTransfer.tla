---------------------------- MODULE XftpTransfer ----------------------------
(***************************************************************************)
(* A file from one web page to another: uploadFile, downloadFileRaw and    *)
(* deleteFile (xftp-web/src/agent.ts) over the crypto worker of each page  *)
(* (CryptoWorker) and the XFTP servers.                                    *)
(*                                                                         *)
(* Chunks are grouped by server; groups run in parallel, the chunks of a   *)
(* group one after the other.  The first group that fails rejects the      *)
(* transfer, which then cleans up while the other groups still run.  A     *)
(* command is one step here: it succeeds, fails, or is executed twice      *)
(* because sendXFTPCommand repeats one that timed out (see XftpClient).    *)
(***************************************************************************)
EXTENDS CryptoWorker

CONSTANTS
  Server,       \* the servers of the upload
  Redirects,    \* BOOLEAN: the link is longer than the threshold
  MaxFaults     \* commands that fail, are repeated or answer another body

ASSUME TransferConstants ==
  Server # {} /\ "page" \notin Server /\ Redirects \in BOOLEAN /\ MaxFaults \in Nat

VARIABLES
  page,       \* where the transfer of the current page is
  outcome,    \* how it ends: none so far, ok or error
  group,      \* the group of each server
  store,      \* the chunks on the servers, by id
  sent,       \* sentChunks: chunk number to server and sender id
  inner,      \* the uploaded redirect description, if any
  link,       \* the link: <<>>, or << a description >>
  result,     \* the opened file
  deleting,   \* the chunks deleteFile has left, 0 when it was not called
  faults

transferVars == <<page, outcome, group, store, sent, inner, link, result, deleting, faults>>
vars == <<workerVars, transferVars>>

Offset(i) == FoldLeft(LAMBDA acc, n : acc + n, 0, SubSeq(Size, 1, i - 1))
Fault == faults < MaxFaults /\ faults' = faults + 1

(* The chunks of a server, in the order of their numbers. *)
Group(assign, s) ==
  LET todo == Ascending({i \in Chunks : assign[i] = s})
  IN [todo |-> todo, pc |-> IF todo = <<>> THEN "done" ELSE "next", id |-> 0, data |-> <<>>]

NoGroup == [todo |-> <<>>, pc |-> "done", id |-> 0, data |-> <<>>]
At(s, pc) == group[s].pc = pc
Go(s, pc) == group' = [group EXCEPT ![s].pc = pc]
No(s) == Head(group[s].todo)

(* The chunk is done; the next one, or the end of the group. *)
NextChunk(s) ==
  group' = [group EXCEPT ![s].todo = Tail(@),
                         ![s].pc = IF Len(group[s].todo) = 1 THEN "done" ELSE "next"]

(* An answer of the worker for one who waits for it. *)
Answered(owner) ==
  /\ HandleMessage
  /\ Received.id \in DOMAIN pending /\ Owner = owner
  /\ UNCHANGED <<worker, ready, nextId, inbox, running, w, opfs, shorts, swept>>

Asks(owner, type, no, off, size, body) ==
  /\ Send(owner, type, no, off, size, body)
  /\ UNCHANGED <<worker, ready, running, outbox, w, opfs, shorts, swept>>

---------------------------------------------------------------------------
(* Upload.                                                                 *)

Encrypt ==
  /\ page = "file"
  /\ Asks("page", "encrypt", 0, 0, 0, <<>>)
  /\ page' = "encrypting"
  /\ UNCHANGED <<outcome, group, store, sent, inner, link, result, deleting, faults>>

(* A random server for every chunk. *)
Encrypted ==
  /\ page = "encrypting"
  /\ Answered("page")
  /\ IF Received.type = "error"
     THEN page' = "failed" /\ outcome' = "error" /\ UNCHANGED group
     ELSE /\ page' = "uploading"
          /\ \E assign \in [Chunks -> Server] : group' = [s \in Server |-> Group(assign, s)]
          /\ UNCHANGED outcome
  /\ UNCHANGED <<store, sent, inner, link, result, deleting, faults>>

Uploading == link = <<>>     \* groups of an upload, before the link exists

ReadChunk(s) ==
  /\ Uploading /\ At(s, "next")
  /\ Asks(s, "readChunk", 0, Offset(No(s)), Size[No(s)], <<>>)
  /\ Go(s, "read")
  /\ UNCHANGED <<page, outcome, store, sent, inner, link, result, deleting, faults>>

ChunkRead(s) ==
  /\ At(s, "read")
  /\ Answered(s)
  /\ group' = [group EXCEPT ![s].pc = IF Received.type = "error" THEN "failed" ELSE "create",
                            ![s].data = Received.data]
  /\ UNCHANGED <<page, outcome, store, sent, inner, link, result, deleting, faults>>

(* Ids are numbers in the order in which the servers create them. *)
NewChunk(s, n) == [k \in 1..n |-> [server |-> s, no |-> No(s), data |-> <<>>]]

(* createXFTPChunk: executed twice, only the second id is known. *)
Create(s) ==
  /\ Uploading /\ At(s, "create")
  /\ \/ /\ store' = store \o NewChunk(s, 1)
        /\ UNCHANGED faults
        /\ group' = [group EXCEPT ![s].pc = "put", ![s].id = Len(store) + 1]
     \/ /\ store' = store \o NewChunk(s, 2)
        /\ Fault
        /\ group' = [group EXCEPT ![s].pc = "put", ![s].id = Len(store) + 2]
     \/ Fault /\ Go(s, "failed") /\ UNCHANGED store
  /\ UNCHANGED <<workerVars, page, outcome, sent, inner, link, result, deleting>>

(* Mutant: a chunk is noted before it is uploaded. *)
Put_(s) ==
  /\ Uploading /\ At(s, "put")
  /\ sent' = With(sent, No(s), [server |-> s, id |-> group[s].id])
  /\ \/ /\ store' = [store EXCEPT ![group[s].id].data = group[s].data]
        /\ NextChunk(s)
        /\ UNCHANGED faults
     \/ Fault /\ NextChunk(s) /\ UNCHANGED store
  /\ UNCHANGED <<workerVars, page, outcome, inner, link, result, deleting>>

(* uploadXFTPChunk, and the chunk is noted under its number. *)
Put(s) ==
  /\ Uploading /\ At(s, "put")
  /\ \/ /\ store' = [store EXCEPT ![group[s].id].data = group[s].data]
        /\ sent' = With(sent, No(s), [server |-> s, id |-> group[s].id])
        /\ NextChunk(s)
        /\ UNCHANGED faults
     \/ Fault /\ Go(s, "failed") /\ UNCHANGED <<store, sent>>
  /\ UNCHANGED <<workerVars, page, outcome, inner, link, result, deleting>>

(* buildDescription. *)
Description == [i \in Chunks |-> sent[i]]

(* Promise.all: all groups are done, or one failed. *)
UploadSettles ==
  /\ page = "uploading"
  /\ \/ /\ \A s \in Server : At(s, "done")
        /\ IF Redirects /\ Len(Size) > 1 THEN page' = "redirect" /\ UNCHANGED <<link, outcome>>
           ELSE /\ link' = << [redirect |-> FALSE, chunks |-> Description] >>
                /\ outcome' = "ok" /\ page' = "done"
     \/ /\ \E s \in Server : At(s, "failed")
        /\ outcome' = "error" /\ page' = "failed"
        /\ UNCHANGED link
  /\ UNCHANGED <<workerVars, group, store, sent, inner, result, deleting, faults>>

(* uploadRedirectDescription: the description itself is a file of one      *)
(* chunk; the link then names only this one, which nobody can delete.      *)
UploadRedirect ==
  /\ page = "redirect"
  /\ \/ /\ inner' = << Description >>
        /\ link' = << [redirect |-> TRUE, chunks |-> <<>>] >>
        /\ outcome' = "ok" /\ page' = "done"
        /\ UNCHANGED faults
     \/ Fault /\ outcome' = "error" /\ page' = "failed" /\ UNCHANGED <<inner, link>>
  /\ UNCHANGED <<workerVars, group, store, sent, result, deleting>>

---------------------------------------------------------------------------
(* The end of a transfer, in the page: clean up, then terminate.           *)

Cleanup ==
  /\ page \in {"done", "failed"}
  /\ Asks("page", "cleanup", 0, 0, 0, <<>>)
  /\ page' = "cleaning"
  /\ UNCHANGED <<outcome, group, store, sent, inner, link, result, deleting, faults>>

Cleaned ==
  /\ page = "cleaning"
  /\ outbox # <<>> /\ Received.id \in DOMAIN pending /\ Owner = "page"
  /\ Terminate
  /\ page' = IF outcome = "ok" /\ result = <<>> THEN "shared" ELSE "ended"
  /\ pending' = Restrict(pending, DOMAIN pending \ {Received.id})
  /\ UNCHANGED <<ready, nextId, w, opfs, shorts, swept, outcome, group, store, sent, inner, link, result, deleting, faults>>

---------------------------------------------------------------------------
(* Download, on another page with a worker of its own.                     *)

OpenLink ==
  /\ page = "shared"
  /\ worker' = "starting" /\ ready' = FALSE /\ pending' = Empty /\ nextId' = 1
  /\ inbox' = <<>> /\ running' = {} /\ outbox' = <<>>
  /\ w' = FreshWorker /\ opfs' = NoFiles
  /\ page' = "link" /\ outcome' = "none"
  /\ group' = [s \in Server |-> NoGroup]
  /\ UNCHANGED <<shorts, swept, store, sent, inner, link, result, deleting, faults>>

Groups(fd) == [s \in Server |-> Group([i \in Chunks |-> fd[i].server], s)]

(* downloadFileRaw: a redirect is resolved first. *)
StartDownload ==
  /\ page = "link"
  /\ IF link[1].redirect THEN page' = "resolve" /\ UNCHANGED group
     ELSE page' = "fetching" /\ group' = Groups(link[1].chunks)
  /\ UNCHANGED <<workerVars, outcome, store, sent, inner, link, result, deleting, faults>>

(* resolveRedirect: the inner description has the size and the digest the  *)
(* link gives, or the download fails.                                      *)
ResolveRedirect ==
  /\ page = "resolve"
  /\ \/ page' = "fetching" /\ group' = Groups(inner[1]) /\ UNCHANGED <<outcome, faults>>
     \/ Fault /\ page' = "failed" /\ outcome' = "error" /\ UNCHANGED group
  /\ UNCHANGED <<workerVars, store, sent, inner, link, result, deleting>>

Resolved == IF link[1].redirect THEN inner[1] ELSE link[1].chunks

(* downloadXFTPChunkRaw: the body of the replica, something else, or an    *)
(* error, always an error when the file is deleted.                        *)
Fetch(s) ==
  LET data == store[Resolved[No(s)].id].data
  IN /\ ~Uploading /\ At(s, "next")
     /\ \/ data # <<>> /\ group' = [group EXCEPT ![s].pc = "store", ![s].data = data] /\ UNCHANGED faults
        \/ data = <<>> /\ Go(s, "failed") /\ UNCHANGED faults
        \/ Fault /\ Go(s, "failed")
        \/ Fault /\ group' = [group EXCEPT ![s].pc = "store", ![s].data = <<>>]
     /\ UNCHANGED <<workerVars, page, outcome, store, sent, inner, link, result, deleting>>

StoreChunk(s) ==
  /\ At(s, "store")
  /\ Asks(s, "decryptAndStoreChunk", No(s), 0, 0, group[s].data)
  /\ Go(s, "storing")
  /\ UNCHANGED <<page, outcome, store, sent, inner, link, result, deleting, faults>>

ChunkStored(s) ==
  /\ At(s, "storing")
  /\ Answered(s)
  /\ IF Received.type = "error" THEN Go(s, "failed") ELSE NextChunk(s)
  /\ UNCHANGED <<page, outcome, store, sent, inner, link, result, deleting, faults>>

Verify ==
  /\ page = "fetching" /\ \A s \in Server : At(s, "done")
  /\ Asks("page", "verifyAndDecrypt", 0, 0, 0, <<>>)
  /\ page' = "verifying"
  /\ UNCHANGED <<outcome, group, store, sent, inner, link, result, deleting, faults>>

DownloadRejects ==
  /\ page = "fetching" /\ \E s \in Server : At(s, "failed")
  /\ page' = "failed" /\ outcome' = "error"
  /\ UNCHANGED <<workerVars, group, store, sent, inner, link, result, deleting, faults>>

Decrypted ==
  /\ page = "verifying"
  /\ Answered("page")
  /\ IF Received.type = "error"
     THEN page' = "failed" /\ outcome' = "error" /\ UNCHANGED result
     ELSE page' = "done" /\ outcome' = "ok" /\ result' = <<Received.data>>
  /\ UNCHANGED <<group, store, sent, inner, link, deleting, faults>>

---------------------------------------------------------------------------
(* deleteFile: the sender deletes the chunks of its description, one after *)
(* the other, while somebody may be downloading them; it may stop at any.  *)
DeleteChunk ==
  /\ link # <<>>
  /\ \/ deleting = 0 /\ Fault
     \/ deleting > 1 /\ UNCHANGED faults
  /\ LET i == IF deleting = 0 THEN 1 ELSE Len(Size) + 2 - deleting
     IN /\ store' = [store EXCEPT ![sent[i].id].data = <<>>]
        /\ deleting' = Len(Size) + 1 - i
  /\ UNCHANGED <<workerVars, page, outcome, group, sent, inner, link, result>>

---------------------------------------------------------------------------
Init ==
  /\ WorkerInit
  /\ page = "file" /\ outcome = "none"
  /\ group = [s \in Server |-> NoGroup]
  /\ store = <<>> /\ sent = Empty /\ inner = <<>> /\ link = <<>> /\ result = <<>>
  /\ deleting = 0 /\ faults = 0

WorkerSteps ==
  /\ WorkerStarts \/ Dispatch \/ HandlerStep \/ HandleReady
  /\ UNCHANGED transferVars

PageSteps ==
  Encrypted \/ UploadSettles \/ UploadRedirect \/ Cleanup \/ Cleaned
  \/ ResolveRedirect \/ Verify \/ DownloadRejects \/ Decrypted

GroupSteps(s) ==
  ReadChunk(s) \/ ChunkRead(s) \/ Create(s) \/ Put(s) \/ Fetch(s) \/ StoreChunk(s) \/ ChunkStored(s)

Next ==
  \/ WorkerSteps
  \/ SweptByOther /\ UNCHANGED transferVars
  \/ Encrypt \/ PageSteps \/ OpenLink \/ StartDownload \/ DeleteChunk
  \/ \E s \in Server : GroupSteps(s)

(* The worker's and the page's event loops run and every command is        *)
(* answered in the end (timeouts); what the users do is free.              *)
Fairness ==
  /\ WF_vars(WorkerSteps) /\ WF_vars(PageSteps)
  /\ \A s \in Server : WF_vars(GroupSteps(s))

Spec == Init /\ [][Next]_vars /\ Fairness

---------------------------------------------------------------------------
(* A link is given out only when every chunk it leads to, through the      *)
(* redirect if there is one, is on the server it names, complete and under *)
(* its own number (until the sender deletes it).                           *)
LinkIsComplete ==
  link # <<>> /\ deleting = 0 =>
    \A i \in Chunks : LET c == store[Resolved[i].id]
                      IN c.server = Resolved[i].server /\ c.no = i /\ c.data = Cells(i)

(* While a download runs, every chunk the worker said it stored can be     *)
(* read back, from memory or from its place in the file, in whatever order *)
(* the groups store their chunks and whenever a write falls short.         *)
StoredIsKept ==
  page = "fetching" /\ worker = "up" =>
    \A i \in Chunks :
      (\A s \in Server : ~Contains(group[s].todo, i)) =>
        IF i \in DOMAIN w.memory THEN w.memory[i] = Cells(i)
        ELSE i \in DOMAIN w.meta /\ opfs.download # <<>> /\ OnDisk[i] = Cells(i)

(* A transfer fails only for a reason outside: a command that failed or    *)
(* answered the wrong body, a deleted file, an encrypted file that could   *)
(* not be written, a session directory swept away.  A download whose write *)
(* falls short is not a reason, and a download that succeeds yields the    *)
(* uploaded bytes.                                                         *)
FailsForAReason ==
  /\ outcome = "error" => faults > 0 \/ swept > 0 \/ w.leaked
  /\ result # <<>> => result[1] = EncData

(* Every transfer ends and cleans up, also when a group fails; only a      *)
(* worker that could not start leaves it waiting.                          *)
TransferEnds ==
  page \in {"encrypting", "uploading", "redirect", "resolve", "fetching", "verifying"}
    ~> page \in {"shared", "ended"} \/ worker = "broken"

=============================================================================
