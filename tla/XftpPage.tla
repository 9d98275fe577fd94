------------------------------ MODULE XftpPage ------------------------------
(***************************************************************************)
(* The pages of the XFTP web client in one browser tab: the upload page    *)
(* (web/upload.ts), the download page (web/download.ts), the progress ring *)
(* (web/progress.ts) and the routing between them by the fragment of the   *)
(* address (web/main.ts).                                                  *)
(*                                                                         *)
(* Every transfer is an async function with a ring, a crypto worker and an *)
(* agent of its own; it holds the elements of the page that started it,    *)
(* also after the page was replaced.  Whatever runs without an await is    *)
(* one step.  The worker and the commands are reduced to their answers:    *)
(* CryptoWorker, XftpTransfer and XftpClient model what is behind them.    *)
(***************************************************************************)
EXTENDS Naturals, Sequences, SequencesExt, FiniteSets

CONSTANTS
  Addresses,      \* the configured server addresses
  Hash,           \* the fragments that the user may open
  Here,           \* the host name the tab is at
  Chunks,         \* chunks of a file
  Limit           \* pages and transfers, together

ASSUME PageConstants ==
  Addresses # <<>> /\ {Chunks, Limit} \subseteq Nat \ {0}

D == INSTANCE XftpDescription WITH KB <- 1024

VARIABLES
  pages,        \* the pages rendered so far; the last one is on the screen
  transfers     \* the transfers started so far

vars == <<pages, transfers>>

Shown == Len(pages)
Bounded == Len(pages) + Len(transfers) < Limit

---------------------------------------------------------------------------
(* The progress ring.  A fraction is in percent; the frames of one         *)
(* animation are one step.                                                 *)

createProgressRing ==
  [displayed |-> 0, target |-> 0, anim |-> "none", fillResolve |-> FALSE, live |-> TRUE]

(* Whoever waits for a fill goes on when it is stopped. *)
stopAnim(r) == [r EXCEPT !.anim = "none", !.fillResolve = FALSE]

(* A phase reset and the completion are shown at once. *)
update(r, fraction) ==
  IF (fraction = 0 /\ r.target > 0) \/ fraction >= 100
  THEN [stopAnim(r) EXCEPT !.displayed = fraction, !.target = fraction]
  ELSE [stopAnim(r) EXCEPT !.target = fraction, !.anim = "tick"]

tick(r) == [r EXCEPT !.displayed = r.target, !.anim = "none"]

fillTo(r, fraction) ==
  [stopAnim(r) EXCEPT !.anim = "fill", !.fillResolve = TRUE, !.target = fraction]

(* Mutant: the promise of the fill is not resolved. *)
LastFrame_(r) == [r EXCEPT !.displayed = r.target, !.anim = "none"]

LastFrame(r) == [r EXCEPT !.displayed = r.target, !.anim = "none", !.fillResolve = FALSE]

destroy(r) == [stopAnim(r) EXCEPT !.live = FALSE]

---------------------------------------------------------------------------
(* Addresses and links.                                                    *)

getServers == [i \in DOMAIN Addresses |-> D!parseXFTPServer(Addresses[i])]

(* A description, as far as a page looks at it. *)
Described(servers, redirect) ==
  [chunks |-> [i \in DOMAIN servers |-> [replicas |-> << [server |-> D!formatXFTPServer(servers[i])] >>]],
   redirect |-> redirect]

ServersOf(fd) ==
  LET named == D!getDescriptionServers(fd) IN [i \in DOMAIN named |-> D!parseXFTPServer(named[i])]

NoHash == [kind |-> "none", fd |-> <<>>]

(* The origin of the first server of the description in the link. *)
LinkTo(fd) == [host |-> ServersOf(fd)[1].host, hash |-> [kind |-> "link", fd |-> <<fd>>]]

---------------------------------------------------------------------------
(* Rendering a page.                                                       *)

Page(kind, stage) ==
  [kind |-> kind, stage |-> stage, retry |-> TRUE, aborted |-> FALSE,
   cancel |-> 0, by |-> 0, complete |-> FALSE, url |-> <<>>]

initUpload == Page("upload", "dropZone")

DownloadPage(stage) == Page("download", stage)

(* The link is decoded, and must name a server at this host. *)
initDownload(hash, host) ==
  IF hash.fd = <<>> THEN DownloadPage("invalid")
  ELSE IF \A i \in DOMAIN ServersOf(hash.fd[1]) : ServersOf(hash.fd[1])[i].host # host
  THEN DownloadPage("wrongServer")
  ELSE DownloadPage("ready")

looksLikeXFTPHash(hash) == hash.kind \in {"link", "bad"}

initApp(hash, host) ==
  IF looksLikeXFTPHash(hash) THEN initDownload(hash, host) ELSE initUpload

---------------------------------------------------------------------------
(* The backend of a transfer: messages to the worker are answered in       *)
(* order; a terminated worker answers none, one that did not load rejects  *)
(* them all, one whose initialisation failed never becomes ready.          *)

Post(rec, msg) ==
  IF rec.worker = "terminated" THEN rec ELSE [rec EXCEPT !.inbox = Append(@, msg)]

(* The message is answered; the answer is an error if ok is FALSE. *)
Answers(t, msg, ok) ==
  LET rec == transfers[t]
  IN /\ rec.inbox # <<>> /\ Head(rec.inbox) = msg
     /\ rec.worker \in {"up", "failed"}
     /\ rec.worker = "failed" => ~ok

Taken(rec) == [rec EXCEPT !.inbox = Tail(@)]

terminate(rec) == [rec EXCEPT !.worker = "terminated", !.inbox = <<>>]

WorkerStarts(t) ==
  /\ transfers[t].worker = "starting"
  /\ \E state \in {"up", "broken", "failed"} : transfers' = [transfers EXCEPT ![t].worker = state]
  /\ UNCHANGED pages

---------------------------------------------------------------------------
(* Steps of a transfer.                                                    *)

Transfer(kind, big) ==
  [page |-> Shown, kind |-> kind, big |-> big, ring |-> createProgressRing,
   pc |-> IF kind = "upload" THEN "read" ELSE "download",
   worker |-> "starting", inbox |-> <<>>, agent |-> TRUE, left |-> Chunks, cancelled |-> FALSE]

PageOf(t) == pages[transfers[t].page]
ShowOn(t, page) == pages' = [pages EXCEPT ![transfers[t].page] = page]
Becomes(t, rec) == transfers' = [transfers EXCEPT ![t] = rec]

(* 15 percent of the ring are for the encryption of files that are big     *)
(* enough to show it.                                                      *)
Weight(rec) == IF rec.big THEN 15 ELSE 0

(* finally: up to its await. *)
Finally(rec) == Post([rec EXCEPT !.ring = destroy(@), !.pc = "cleanup"], "cleanup")

(* Mutant: an aborted upload shows its error. *)
Throw_(t, rec, permanent) ==
  /\ Becomes(t, Finally(rec))
  /\ ShowOn(t, [PageOf(t) EXCEPT !.stage = "error", !.by = t, !.retry = ~permanent])

(* catch, then finally; an upload shows no error once it is aborted. *)
Throw(t, rec, permanent) ==
  /\ Becomes(t, Finally(rec))
  /\ IF rec.kind = "upload" /\ PageOf(t).aborted THEN UNCHANGED pages
     ELSE ShowOn(t, [PageOf(t) EXCEPT !.stage = "error", !.by = t, !.retry = ~permanent])

(* The await is over: if (aborted) return, else go on. *)
GoOn(t, rec, next) ==
  /\ Becomes(t, IF rec.kind = "upload" /\ PageOf(t).aborted THEN Finally(rec) ELSE next)
  /\ UNCHANGED pages

(* The progress message of the worker that all is encrypted or decrypted.  *)
Progress(t) ==
  LET rec == transfers[t]
      w == Weight(rec)
  IN /\ rec.worker = "up" /\ rec.inbox # <<>> /\ Head(rec.inbox) \in {"encrypt", "verify"}
     /\ Becomes(t, [rec EXCEPT !.ring = update(@, IF rec.kind = "upload" THEN w ELSE 99)])
     /\ UNCHANGED pages

Tick(t) ==
  /\ transfers[t].ring.anim = "tick"
  /\ Becomes(t, [transfers[t] EXCEPT !.ring = tick(@)])
  /\ UNCHANGED pages

(* A file that is read fast enough is encrypted next. *)
FileRead(t) ==
  LET rec == transfers[t]
  IN /\ rec.pc = "read"
     /\ \/ GoOn(t, rec, Post([rec EXCEPT !.pc = "encrypt"], "encrypt"))
        \/ Throw(t, rec, FALSE)

(* uploadFile reads the first chunk. *)
StartChunks(rec) == Post([rec EXCEPT !.pc = "upload"], "read")

(* After a fast encryption of a big file the ring is filled slowly. *)
Encrypted(t) ==
  LET rec == Taken(transfers[t])
  IN /\ transfers[t].pc = "encrypt"
     /\ \/ Answers(t, "encrypt", TRUE) /\ GoOn(t, rec, StartChunks(rec))
        \/ /\ Answers(t, "encrypt", TRUE) /\ rec.big
           /\ GoOn(t, rec, [rec EXCEPT !.pc = "fill", !.ring = fillTo(@, Weight(rec))])
        \/ Answers(t, "encrypt", FALSE) /\ Throw(t, rec, FALSE)

(* Progress of uploadFile and downloadFileRaw, n of Chunks done. *)
Fraction(rec, n) ==
  IF rec.kind = "upload" THEN Weight(rec) + (n * (100 - Weight(rec))) \div Chunks
  ELSE (n * (100 - Weight(rec))) \div Chunks

ChunkRead(t) ==
  LET rec == Taken(transfers[t])
  IN /\ transfers[t].pc = "upload"
     /\ \/ Answers(t, "read", TRUE) /\ Becomes(t, [rec EXCEPT !.pc = "put"]) /\ UNCHANGED pages
        \/ Answers(t, "read", FALSE) /\ Throw(t, rec, FALSE)

(* A chunk is on its server; the next one is read. *)
ChunkPut(t) ==
  LET rec == transfers[t]
      done == Chunks - rec.left + 1
  IN /\ rec.pc = "put" /\ rec.left > 0
     /\ Becomes(t, IF rec.left > 1
                   THEN StartChunks([rec EXCEPT !.left = @ - 1, !.ring = update(@, Fraction(rec, done))])
                   ELSE [rec EXCEPT !.left = 0, !.ring = update(@, Fraction(rec, done))])
     /\ UNCHANGED pages

(* uploadFile returns: with more than one chunk the link may lead to a     *)
(* redirect description on a server of its own.  The page shows the link.  *)
Complete(t, fd) ==
  LET rec == transfers[t]
  IN /\ Becomes(t, Finally(rec))
     /\ IF PageOf(t).aborted THEN UNCHANGED pages
        ELSE ShowOn(t, [PageOf(t) EXCEPT !.stage = "complete", !.by = t, !.url = <<LinkTo(fd)>>])

(* Mutant: the host is taken from the description before the redirect. *)
Uploaded_(t) ==
  /\ transfers[t].pc = "put" /\ transfers[t].left = 0
  /\ \E servers \in [1..Chunks -> ToSet(getServers)] :
       \/ Complete(t, Described(servers, FALSE))
       \/ \E s \in ToSet(getServers) :
            /\ Chunks > 1
            /\ Becomes(t, Finally(transfers[t]))
            /\ IF PageOf(t).aborted THEN UNCHANGED pages
               ELSE ShowOn(t, [PageOf(t) EXCEPT !.stage = "complete", !.by = t,
                      !.url = << [LinkTo(Described(servers, FALSE)) EXCEPT
                                    !.hash.fd = <<Described(<<s>>, TRUE)>>] >>])

Uploaded(t) ==
  /\ transfers[t].pc = "put" /\ transfers[t].left = 0
  /\ \E servers \in [1..Chunks -> ToSet(getServers)] :
       \/ Complete(t, Described(servers, FALSE))
       \/ Chunks > 1 /\ \E s \in ToSet(getServers) : Complete(t, Described(<<s>>, TRUE))

(* A command of the transfer fails, at any time. *)
CommandFails(t) ==
  /\ transfers[t].pc \in {"upload", "put", "download", "storing"}
  /\ \E permanent \in BOOLEAN : Throw(t, transfers[t], permanent)

(* Download: a chunk arrived and goes to the worker. *)
Fetched(t) ==
  /\ transfers[t].pc = "download"
  /\ Becomes(t, Post([transfers[t] EXCEPT !.pc = "storing"], "store"))
  /\ UNCHANGED pages

ChunkStored(t) ==
  LET rec == Taken(transfers[t])
      on == [rec EXCEPT !.left = @ - 1, !.ring = update(@, Fraction(rec, Chunks - rec.left + 1))]
  IN /\ transfers[t].pc = "storing"
     /\ \/ /\ Answers(t, "store", TRUE)
           /\ Becomes(t, IF rec.left > 1 THEN [on EXCEPT !.pc = "download"]
                         ELSE Post([on EXCEPT !.pc = "verify"], "verify"))
           /\ UNCHANGED pages
        \/ Answers(t, "store", FALSE) /\ Throw(t, rec, FALSE)

(* The browser saves the file, the ring is full. *)
Save(t, rec) ==
  /\ Becomes(t, Finally([rec EXCEPT !.ring = update(@, 100)]))
  /\ ShowOn(t, [PageOf(t) EXCEPT !.complete = TRUE, !.by = t])

Decrypted(t) ==
  LET rec == Taken(transfers[t])
  IN /\ transfers[t].pc = "verify"
     /\ \/ Answers(t, "verify", TRUE) /\ Save(t, rec)
        \/ /\ Answers(t, "verify", TRUE) /\ rec.big
           /\ Becomes(t, [rec EXCEPT !.pc = "fill", !.ring = fillTo(@, 99)])
           /\ UNCHANGED pages
        \/ Answers(t, "verify", FALSE) /\ Throw(t, rec, FALSE)

(* The last frame of a fill. *)
FillFrame(t) ==
  LET rec == [transfers[t] EXCEPT !.ring = LastFrame(@)]
  IN /\ transfers[t].ring.anim = "fill" /\ rec.pc = "fill"
     /\ IF rec.ring.fillResolve THEN Becomes(t, rec) /\ UNCHANGED pages
        ELSE IF rec.kind = "upload" THEN GoOn(t, rec, StartChunks(rec))
        ELSE Save(t, rec)

(* Another group of chunks of a transfer that has failed gets its answer. *)
LateAnswer(t) ==
  /\ transfers[t].pc = "cleanup"
  /\ \E msg \in {"read", "store"} : Answers(t, msg, FALSE)
  /\ Becomes(t, Taken(transfers[t]))
  /\ UNCHANGED pages

(* The rest of finally: a worker that did not load rejects the cleanup. *)
CleanedUp(t) ==
  LET rec == [transfers[t] EXCEPT !.pc = "ended", !.agent = FALSE]
  IN /\ transfers[t].pc = "cleanup"
     /\ \/ Answers(t, "cleanup", TRUE) /\ Becomes(t, terminate(rec))
        \/ Answers(t, "cleanup", FALSE) /\ rec.worker = "failed" /\ Becomes(t, Taken(rec))
     /\ UNCHANGED pages

(* The cleanup that cancel asked for. *)
CancelCleanedUp(t) ==
  LET rec == transfers[t]
  IN /\ \/ Answers(t, "cancel", TRUE) /\ Becomes(t, terminate(rec))
        \/ Answers(t, "cancel", FALSE) /\ rec.worker = "failed" /\ Becomes(t, Taken(rec))
     /\ UNCHANGED pages

---------------------------------------------------------------------------
(* The user.                                                               *)

On(kind, stage) == pages[Shown].kind = kind /\ pages[Shown].stage = stage
Show(page) == pages' = [pages EXCEPT ![Shown] = page]

StartUpload ==
  /\ On("upload", "dropZone") /\ Bounded
  /\ \E big \in BOOLEAN : transfers' = Append(transfers, Transfer("upload", big))
  /\ Show([pages[Shown] EXCEPT !.aborted = FALSE, !.stage = "progress", !.by = Len(transfers) + 1,
                               !.cancel = Len(transfers) + 1])

(* A file that is empty or too large. *)
RefuseFile ==
  /\ On("upload", "dropZone")
  /\ Show([pages[Shown] EXCEPT !.aborted = FALSE, !.stage = "error", !.by = 0])
  /\ UNCHANGED transfers

(* cancelBtn.onclick; a fill that is stopped lets the transfer go on at    *)
(* once, and it sees that it is aborted.                                   *)
Cancel ==
  LET c == pages[Shown].cancel
      rec == transfers[c]
      cancelled == Post([rec EXCEPT !.ring = destroy(@), !.cancelled = TRUE, !.agent = FALSE], "cancel")
  IN /\ On("upload", "progress") /\ c # 0
     /\ Becomes(c, IF rec.pc = "fill" /\ rec.ring.fillResolve THEN Finally(cancelled) ELSE cancelled)
     /\ Show([pages[Shown] EXCEPT !.aborted = TRUE, !.stage = "dropZone"])

StartDownload ==
  /\ On("download", "ready") /\ Bounded
  /\ \E big \in BOOLEAN : transfers' = Append(transfers, Transfer("download", big))
  /\ Show([pages[Shown] EXCEPT !.stage = "progress", !.by = Len(transfers) + 1])

Retry ==
  /\ pages[Shown].stage = "error" /\ pages[Shown].retry
  /\ Show([pages[Shown] EXCEPT !.stage = IF pages[Shown].kind = "upload" THEN "dropZone" ELSE "ready"])
  /\ UNCHANGED transfers

(* The link to the upload page, after a download. *)
UploadYourFile ==
  /\ On("download", "progress") /\ pages[Shown].complete /\ Bounded
  /\ pages' = Append(pages, initUpload)
  /\ UNCHANGED transfers

(* A new fragment: other texts than links are left alone.                  *)
HashChange(hash) ==
  /\ Bounded
  /\ hash.kind = "none" \/ looksLikeXFTPHash(hash)
  /\ pages' = Append(pages, initApp(hash, Here))
  /\ UNCHANGED transfers

---------------------------------------------------------------------------
Init ==
  /\ \E hash \in Hash : pages = <<initApp(hash, Here)>>
  /\ transfers = <<>>

Steps(t) ==
  \/ FileRead(t) \/ Encrypted(t) \/ ChunkRead(t) \/ ChunkPut(t) \/ Uploaded(t)
  \/ Fetched(t) \/ ChunkStored(t) \/ Decrypted(t) \/ LateAnswer(t) \/ CleanedUp(t)

Animation(t) == FillFrame(t) \/ Tick(t)

Next ==
  \/ StartUpload \/ RefuseFile \/ Cancel \/ StartDownload \/ Retry \/ UploadYourFile
  \/ \E hash \in Hash : HashChange(hash)
  \/ \E t \in DOMAIN transfers :
       \/ WorkerStarts(t) \/ Progress(t) \/ CommandFails(t) \/ Steps(t) \/ Animation(t)
       \/ CancelCleanedUp(t)

(* The event loops of the page and the worker run, commands are answered   *)
(* or time out, and the tab is looked at again (frames are drawn only      *)
(* while it is visible).                                                   *)
Fairness ==
  \A t \in 1..(Limit - 1) :
    /\ WF_vars(t \in DOMAIN transfers /\ WorkerStarts(t))
    /\ WF_vars(t \in DOMAIN transfers /\ Steps(t))
    /\ WF_vars(t \in DOMAIN transfers /\ FillFrame(t))
    /\ WF_vars(t \in DOMAIN transfers /\ CancelCleanedUp(t))

Spec == Init /\ [][Next]_vars /\ Fairness

---------------------------------------------------------------------------
TransfersOf(p) == {t \in DOMAIN transfers : transfers[t].page = p}

(* Another file was chosen on the page after an upload was cancelled. *)
Restarted(p) == ~pages[p].aborted /\ \E t \in TransfersOf(p) : transfers[t].cancelled

(* A page shows an error, a link or a finished download only of the last   *)
(* transfer it started, never of one that was cancelled, and a finished    *)
(* download with a full ring - also while older transfers of the page, and *)
(* those of replaced pages, still run.  Pages where a file is chosen after  *)
(* a cancelled upload are excepted: see CancelledIsSilent.                 *)
ShowsItsTransfer ==
  \A p \in DOMAIN pages : pages[p].by # 0 /\ ~Restarted(p) =>
    /\ \A t \in TransfersOf(p) : t <= pages[p].by
    /\ pages[p].stage \in {"complete", "error"} => ~transfers[pages[p].by].cancelled
    /\ pages[p].complete => transfers[pages[p].by].ring.displayed = 100

(* Whatever servers the chunks and the redirect are on, the link that the  *)
(* upload page gives out opens a download page at its host that offers the *)
(* file, and does not say that the file is not hosted there.               *)
LinkOpensAtItsOrigin ==
  \A p \in DOMAIN pages : pages[p].url # <<>> =>
    initApp(pages[p].url[1].hash, pages[p].url[1].host).stage = "ready"

(* Whatever a transfer holds is released - the worker, the listeners of    *)
(* its ring and, unless it was cancelled, the connections of its agent -   *)
(* also when it is cancelled at any await, fails, or its page is replaced. *)
(* Only a worker that cannot start is kept.  A cancelled upload need not   *)
(* reach its finally: what the cancel released stays released.             *)
Released ==
  \A t \in 1..(Limit - 1) :
    t \in DOMAIN transfers ~>
      /\ t \in DOMAIN transfers
      /\ \/ transfers[t].worker = "broken"
         \/ /\ transfers[t].worker \in {"terminated", "failed"} /\ ~transfers[t].ring.live
            /\ transfers[t].cancelled \/ ~transfers[t].agent

(* Cancelling resets the page: a cancelled upload never shows its link or  *)
(* its error.                                                              *)
CancelledIsSilent ==
  \A p \in DOMAIN pages :
    pages[p].stage \in {"complete", "error"} /\ pages[p].by # 0 => ~transfers[pages[p].by].cancelled

=============================================================================
