--------------------------- MODULE XftpPageProofs ---------------------------
(***************************************************************************)
(* Proofs about the pages of the XFTP web client, for any number of pages, *)
(* transfers, chunks and servers:                                          *)
(*   PagesShowTheirTransfers    a page shows the outcome of its last       *)
(*                              transfer, and a full ring when it is saved *)
(*   LinksOpen                  the page at the host of a link does not    *)
(*                              refuse it                                  *)
(***************************************************************************)
EXTENDS XftpPage, SequenceTheorems, FiniteSetTheorems, WellFoundedInduction, TLAPS

Kinds == {"upload", "download"}
Stages == {"dropZone", "progress", "error", "complete", "invalid", "wrongServer", "ready"}
Pcs == {"read", "encrypt", "fill", "upload", "put", "download", "storing", "verify",
        "cleanup", "ended"}
Messages == {"encrypt", "read", "store", "verify", "cleanup", "cancel"}

(* The links that an upload may end with.                                  *)
Links == {LinkTo(Described(servers, FALSE)) : servers \in [1..Chunks -> ToSet(getServers)]}
           \cup {LinkTo(Described(<<s>>, TRUE)) : s \in ToSet(getServers)}

Rings == [displayed : Int, target : Int, anim : {"none", "tick", "fill"},
          fillResolve : BOOLEAN, live : BOOLEAN]
PageRecord == [kind : Kinds, stage : Stages, retry : BOOLEAN, aborted : BOOLEAN,
               cancel : Nat, by : Nat, complete : BOOLEAN, url : Seq(Links)]
TransferRecord == [page : Nat, kind : Kinds, big : BOOLEAN, ring : Rings, pc : Pcs,
                   worker : {"starting", "up", "broken", "failed", "terminated"},
                   inbox : Seq(Messages), agent : BOOLEAN, left : Int, cancelled : BOOLEAN]

TypeOK ==
  /\ pages \in Seq(PageRecord) /\ pages # <<>>
  /\ transfers \in Seq(TransferRecord)

Ended(rec) == rec.pc \in {"cleanup", "ended"}

(* No message that reports progress.                                       *)
Silent(q) == \A i \in DOMAIN q : q[i] # "encrypt" /\ q[i] # "verify"

(* A download that was saved: nothing moves its ring any more.             *)
Finished(rec) ==
  Ended(rec) /\ rec.ring.displayed = 100 /\ rec.ring.anim = "none" /\ Silent(rec.inbox)

(* What holds of a transfer by itself.                                     *)
Own(rec) ==
  /\ rec.kind = "upload" =>
       rec.pc \in {"read", "encrypt", "fill", "upload", "put", "cleanup", "ended"}
  /\ rec.kind = "download" =>
       /\ ~rec.cancelled
       /\ rec.pc \in {"download", "storing", "verify", "fill", "cleanup", "ended"}
       /\ rec.pc \in {"download", "fill"} => rec.inbox = <<>>
       /\ rec.pc = "storing" => rec.inbox \in {<<>>, <<"store">>}
       /\ rec.pc = "verify" => rec.inbox \in {<<>>, <<"verify">>}
       /\ Ended(rec) => Silent(rec.inbox)

(* Transfers and pages refer to each other.                                *)
Linked ==
  /\ \A t \in DOMAIN transfers :
       /\ transfers[t].page \in DOMAIN pages
       /\ pages[transfers[t].page].kind = transfers[t].kind
       /\ Own(transfers[t])
  /\ \A p \in DOMAIN pages :
       /\ pages[p].by # 0 => pages[p].by \in TransfersOf(p)
       /\ pages[p].cancel # 0 => pages[p].cancel \in TransfersOf(p)

LastOf(p, b) == b \in TransfersOf(p) /\ \A t \in TransfersOf(p) : t <= b

(* No upload of the page was cancelled.                                    *)
Clean(p) == ~pages[p].aborted /\ \A t \in TransfersOf(p) : ~transfers[t].cancelled

(* An aborted page is silent, and its last upload was cancelled; a page in *)
(* progress belongs to the last one; and as long as nothing was cancelled  *)
(* the last transfer of a page in progress is the only one that runs.      *)
PageInv(p) ==
  /\ pages[p].kind = "download" => ~pages[p].aborted
  /\ pages[p].aborted =>
       /\ pages[p].stage = "dropZone"
       /\ LastOf(p, pages[p].by) /\ transfers[pages[p].by].cancelled
  /\ pages[p].stage = "progress" =>
       LastOf(p, pages[p].by) /\ (pages[p].kind = "upload" => pages[p].cancel = pages[p].by)
  /\ Clean(p) =>
       /\ \A t \in TransfersOf(p) :
            ~Ended(transfers[t]) => pages[p].stage = "progress" /\ t = pages[p].by
       /\ pages[p].by # 0 => LastOf(p, pages[p].by)
  /\ pages[p].complete =>
       /\ pages[p].kind = "download" /\ pages[p].stage = "progress"
       /\ Finished(transfers[pages[p].by])

IInv == TypeOK /\ Linked /\ \A p \in DOMAIN pages : PageInv(p)

-----------------------------------------------------------------------------
(* The parts of a transfer *)

(* Every change of a ring gives a ring; one that is destroyed shows what   *)
(* it showed, and one that was completed before is full.                   *)
LEMMA RingFacts ==
  ASSUME NEW r \in Rings
  PROVE  /\ createProgressRing \in Rings
         /\ tick(r) \in Rings /\ LastFrame(r) \in Rings
         /\ \A f \in Int : update(r, f) \in Rings /\ fillTo(r, f) \in Rings
         /\ destroy(r) \in Rings /\ destroy(r).anim = "none"
         /\ destroy(r).displayed = r.displayed
         /\ update(r, 100).displayed = 100
  <1>1. createProgressRing \in Rings
    BY DEF createProgressRing, Rings
  <1>2. tick(r) \in Rings /\ LastFrame(r) \in Rings
    BY DEF tick, LastFrame, Rings
  <1>3. ASSUME NEW f \in Int
        PROVE  update(r, f) \in Rings /\ fillTo(r, f) \in Rings
    BY DEF update, fillTo, stopAnim, Rings
  <1>4. destroy(r) \in Rings /\ destroy(r).anim = "none" /\ destroy(r).displayed = r.displayed
    BY DEF destroy, stopAnim, Rings
  <1>5. update(r, 100).displayed = 100
    BY DEF update, stopAnim, Rings
  <1> QED BY <1>1, <1>2, <1>3, <1>4, <1>5

(* Progress is an integer.                                                 *)
LEMMA FractionFacts ==
  ASSUME NEW rec \in TransferRecord, NEW n \in Int
  PROVE  Weight(rec) \in Int /\ Fraction(rec, n) \in Int
  <1>1. Weight(rec) \in Int /\ Chunks \in Nat \ {0} /\ 100 - Weight(rec) \in Int
    BY PageConstants DEF Weight
  <1> DEFINE part == n * (100 - Weight(rec))
  <1>2. part \in Int
    BY <1>1
  <1> HIDE DEF part
  <1>3. part \div Chunks \in Int
    BY <1>1, <1>2
  <1> QED BY <1>1, <1>3 DEF Fraction, part

(* What stays silent.                                                      *)
LEMMA SilentFacts ==
  ASSUME NEW q \in Seq(Messages)
  PROVE  /\ Silent(<<>>) /\ Silent(<<"store">>)
         /\ \A m \in Messages \ {"encrypt", "verify"} : Silent(q) => Silent(Append(q, m))
         /\ q # <<>> => Tail(q) \in Seq(Messages) /\ (Silent(q) => Silent(Tail(q)))
         /\ q # <<>> /\ Silent(q) => Head(q) \notin {"encrypt", "verify"}
  <1>1. Silent(<<>>) /\ Silent(<<"store">>)
    BY DEF Silent
  <1>2. Len(q) \in Nat /\ DOMAIN q = 1..Len(q)
    BY LenProperties
  <1>3. ASSUME NEW m \in Messages \ {"encrypt", "verify"}, Silent(q)
        PROVE  Silent(Append(q, m))
    BY <1>2, <1>3, AppendProperties DEF Silent
  <1>4. ASSUME q # <<>>
        PROVE  /\ Tail(q) \in Seq(Messages)
               /\ Silent(q) => Silent(Tail(q)) /\ Head(q) \notin {"encrypt", "verify"}
    <2>1. /\ Tail(q) \in Seq(Messages) /\ Len(q) > 0 /\ Head(q) = q[1]
          /\ DOMAIN Tail(q) = 1..(Len(q) - 1)
          /\ \A i \in 1..(Len(q) - 1) : Tail(q)[i] = q[i + 1]
      BY <1>2, <1>4, HeadTailProperties, EmptySeq, LenProperties
    <2> QED BY <1>2, <2>1 DEF Silent
  <1> QED BY <1>1, <1>3, <1>4

(* The transfer keeps its page and its kind.                               *)
Same(a, b) ==
  /\ b \in TransferRecord /\ Own(b)
  /\ b.page = a.page /\ b.kind = a.kind /\ b.cancelled = a.cancelled

(* A change of a transfer that no page looks at.                           *)
Kept(a, b) ==
  Same(a, b) /\ (Ended(a) => Ended(b)) /\ (Finished(a) => Finished(b))

(* finally posts the cleanup; it can be reached from every await.          *)
LEMMA FinallyFacts ==
  ASSUME NEW rec \in TransferRecord
  PROVE  LET b == Finally(rec) IN
         /\ b \in TransferRecord /\ Ended(b)
         /\ b.page = rec.page /\ b.kind = rec.kind /\ b.cancelled = rec.cancelled
         /\ b.ring = destroy(rec.ring)
         /\ b.inbox \in {rec.inbox, Append(rec.inbox, "cleanup")}
         /\ Silent(rec.inbox) => Silent(b.inbox)
  <1> DEFINE a == [rec EXCEPT !.ring = destroy(@), !.pc = "cleanup"]
  <1>1. rec.ring \in Rings /\ rec.inbox \in Seq(Messages)
    BY DEF TransferRecord
  <1>2. destroy(rec.ring) \in Rings
    BY <1>1, RingFacts
  <1>3. /\ a \in TransferRecord /\ a.pc = "cleanup" /\ a.page = rec.page /\ a.kind = rec.kind
        /\ a.cancelled = rec.cancelled /\ a.ring = destroy(rec.ring) /\ a.inbox = rec.inbox
    BY <1>2 DEF TransferRecord, Pcs
  <1> HIDE DEF a
  <1>4. Append(a.inbox, "cleanup") \in Seq(Messages)
    BY <1>1, <1>3, AppendProperties DEF Messages
  <1>5. Post(a, "cleanup") \in {a, [a EXCEPT !.inbox = Append(a.inbox, "cleanup")]}
    BY DEF Post
  <1>6. Silent(rec.inbox) => Silent(Append(rec.inbox, "cleanup"))
    BY <1>1, SilentFacts DEF Messages
  <1>7. CASE Post(a, "cleanup") = a
    BY <1>3, <1>7 DEF Finally, Ended, a
  <1>8. CASE Post(a, "cleanup") = [a EXCEPT !.inbox = Append(a.inbox, "cleanup")]
    <2> DEFINE b == [a EXCEPT !.inbox = Append(a.inbox, "cleanup")]
    <2>1. /\ b \in TransferRecord /\ b.pc = a.pc /\ b.page = a.page /\ b.kind = a.kind
          /\ b.cancelled = a.cancelled /\ b.ring = a.ring /\ b.inbox = Append(a.inbox, "cleanup")
      BY <1>3, <1>4 DEF TransferRecord
    <2> HIDE DEF b
    <2>2. Finally(rec) = b
      BY <1>8 DEF Finally, a, b
    <2> QED BY <1>3, <1>6, <2>1, <2>2 DEF Ended
  <1> QED BY <1>5, <1>7, <1>8

-----------------------------------------------------------------------------
(* Changes of the state *)

(* One transfer changes.                                                   *)
LEMMA BecomesFacts ==
  ASSUME NEW t \in DOMAIN transfers, NEW rec \in TransferRecord,
         transfers \in Seq(TransferRecord), Becomes(t, rec)
  PROVE  /\ transfers' \in Seq(TransferRecord) /\ DOMAIN transfers' = DOMAIN transfers
         /\ transfers'[t] = rec
         /\ \A u \in DOMAIN transfers : u # t => transfers'[u] = transfers[u]
  BY ExceptSeq, LenProperties DEF Becomes

(* The page of a transfer changes.                                         *)
LEMMA PageFacts ==
  ASSUME pages \in Seq(PageRecord), NEW p \in DOMAIN pages, NEW pg \in PageRecord,
         pages' = [pages EXCEPT ![p] = pg]
  PROVE  /\ pages' \in Seq(PageRecord) /\ DOMAIN pages' = DOMAIN pages /\ Len(pages') = Len(pages)
         /\ pages' # <<>>
         /\ pages'[p] = pg
         /\ \A q \in DOMAIN pages : q # p => pages'[q] = pages[q]
  <1>1. /\ pages' \in Seq(PageRecord) /\ DOMAIN pages' = DOMAIN pages /\ Len(pages') = Len(pages)
        /\ pages'[p] = pg /\ \A q \in DOMAIN pages : q # p => pages'[q] = pages[q]
    BY ExceptSeq, LenProperties
  <1>2. pages' # <<>>
    BY <1>1, EmptySeq, LenProperties
  <1> QED BY <1>1, <1>2

(* A transfer of a page keeps it, and so do those that are not changed.    *)
LEMMA SameTransfers ==
  ASSUME NEW t \in DOMAIN transfers, NEW rec, Same(transfers[t], rec),
         DOMAIN transfers' = DOMAIN transfers, transfers'[t] = rec,
         \A u \in DOMAIN transfers : u # t => transfers'[u] = transfers[u]
  PROVE  /\ \A u \in DOMAIN transfers : /\ transfers'[u].page = transfers[u].page
                                        /\ transfers'[u].kind = transfers[u].kind
                                        /\ transfers'[u].cancelled = transfers[u].cancelled
         /\ \A p : TransfersOf(p)' = TransfersOf(p)
         /\ \A p, b : LastOf(p, b)' = LastOf(p, b)
  <1>1. \A u \in DOMAIN transfers : /\ transfers'[u].page = transfers[u].page
                                    /\ transfers'[u].kind = transfers[u].kind
                                    /\ transfers'[u].cancelled = transfers[u].cancelled
    BY DEF Same
  <1>2. \A p : TransfersOf(p)' = TransfersOf(p)
    BY <1>1 DEF TransfersOf
  <1>3. \A p, b : LastOf(p, b)' = LastOf(p, b)
    BY <1>2 DEF LastOf
  <1> QED BY <1>1, <1>2, <1>3

(* A page that is not changed, while one transfer is.                      *)
LEMMA KeptInv ==
  ASSUME IInv, NEW t \in DOMAIN transfers, NEW rec,
         Same(transfers[t], rec), Ended(transfers[t]) => Ended(rec),
         DOMAIN transfers' = DOMAIN transfers, transfers'[t] = rec,
         \A u \in DOMAIN transfers : u # t => transfers'[u] = transfers[u],
         NEW p \in DOMAIN pages, pages'[p] = pages[p],
         t \in TransfersOf(p) /\ Finished(transfers[t]) => Finished(rec)
  PROVE  PageInv(p)'
  <1>1. /\ \A u \in DOMAIN transfers : /\ transfers'[u].page = transfers[u].page
                                       /\ transfers'[u].kind = transfers[u].kind
                                       /\ transfers'[u].cancelled = transfers[u].cancelled
        /\ \A q : TransfersOf(q)' = TransfersOf(q)
        /\ \A q, b : LastOf(q, b)' = LastOf(q, b)
    BY SameTransfers
  <1>2. PageInv(p) /\ TransfersOf(p) \subseteq DOMAIN transfers
    BY DEF IInv, TransfersOf
  <1>3. Clean(p)' = Clean(p)
    BY <1>1, <1>2 DEF Clean
  <1>4. \A u \in TransfersOf(p) : /\ ~Ended(transfers'[u]) => ~Ended(transfers[u])
                                 /\ Finished(transfers[u]) => Finished(transfers'[u])
    BY <1>2
  <1>5. LastOf(p, pages[p].by) => pages[p].by \in TransfersOf(p)
    BY DEF LastOf
  <1>6. pages[p].aborted => transfers'[pages[p].by].cancelled
    BY <1>1, <1>2, <1>5 DEF PageInv
  <1>7. pages[p].complete => /\ pages[p].kind = "download" /\ pages[p].stage = "progress"
                             /\ Finished(transfers'[pages[p].by])
    BY <1>2, <1>4, <1>5 DEF PageInv
  <1>8. Clean(p) => \A u \in TransfersOf(p) :
          ~Ended(transfers'[u]) => pages[p].stage = "progress" /\ u = pages[p].by
    BY <1>2, <1>4 DEF PageInv
  <1> QED BY <1>1, <1>2, <1>3, <1>6, <1>7, <1>8 DEF PageInv

(* A transfer changes, and no page looks at it.                            *)
LEMMA QuietStep ==
  ASSUME IInv, NEW t \in DOMAIN transfers, NEW rec, Kept(transfers[t], rec),
         Becomes(t, rec), UNCHANGED pages
  PROVE  IInv'
  <1>1. /\ rec \in TransferRecord /\ Own(rec) /\ Same(transfers[t], rec)
        /\ Ended(transfers[t]) => Ended(rec)
        /\ Finished(transfers[t]) => Finished(rec)
    BY DEF Kept, Same
  <1>2. /\ transfers' \in Seq(TransferRecord) /\ DOMAIN transfers' = DOMAIN transfers
        /\ transfers'[t] = rec
        /\ \A u \in DOMAIN transfers : u # t => transfers'[u] = transfers[u]
    BY <1>1, BecomesFacts DEF IInv, TypeOK
  <1>3. /\ \A u \in DOMAIN transfers : /\ transfers'[u].page = transfers[u].page
                                       /\ transfers'[u].kind = transfers[u].kind
                                       /\ transfers'[u].cancelled = transfers[u].cancelled
        /\ \A p : TransfersOf(p)' = TransfersOf(p)
        /\ \A p, b : LastOf(p, b)' = LastOf(p, b)
    BY <1>1, <1>2, SameTransfers
  <1>4. pages' = pages
    OBVIOUS
  <1>5. TypeOK'
    BY <1>2, <1>4 DEF IInv, TypeOK
  <1>6. Linked'
    <2>1. \A u \in DOMAIN transfers : Own(transfers'[u])
      BY <1>1, <1>2 DEF IInv, Linked
    <2> QED BY <2>1, <1>2, <1>3, <1>4 DEF IInv, Linked
  <1>7. \A p \in DOMAIN pages : PageInv(p)'
    BY <1>1, <1>2, <1>4, KeptInv
  <1> QED BY <1>4, <1>5, <1>6, <1>7 DEF IInv

(* Transfers without a change of their page.                               *)
LEMMA KeptPage ==
  ASSUME IInv, NEW t \in DOMAIN transfers
  PROVE  /\ transfers[t] \in TransferRecord /\ Own(transfers[t])
         /\ transfers[t].page \in DOMAIN pages /\ PageOf(t) \in PageRecord
         /\ PageOf(t).kind = transfers[t].kind
         /\ t \in TransfersOf(transfers[t].page)
         /\ PageInv(transfers[t].page)
         /\ t \in Nat \ {0}
  <1>1. transfers[t] \in TransferRecord /\ t \in Nat \ {0}
    BY ElementOfSeq, LenProperties DEF IInv, TypeOK
  <1>2. /\ Own(transfers[t]) /\ transfers[t].page \in DOMAIN pages
        /\ PageOf(t).kind = transfers[t].kind /\ PageInv(transfers[t].page)
    BY DEF IInv, Linked, PageOf
  <1>3. PageOf(t) \in PageRecord
    BY <1>2, ElementOfSeq, LenProperties DEF IInv, TypeOK, PageOf
  <1> QED BY <1>1, <1>2, <1>3 DEF TransfersOf

(* A download is never cancelled.                                          *)
LEMMA DownloadsAreClean ==
  ASSUME IInv, NEW p \in DOMAIN pages, pages[p].kind = "download"
  PROVE  Clean(p)
  <1>1. ~pages[p].aborted
    BY DEF IInv, PageInv
  <1>2. \A u \in TransfersOf(p) : transfers[u].kind = "download" /\ ~transfers[u].cancelled
    BY DEF IInv, Linked, TransfersOf, Own
  <1> QED BY <1>1, <1>2 DEF Clean

(* The page that shows the outcome of transfer t.                          *)
Outcome(t, rec, pg) ==
  /\ pg \in PageRecord
  /\ pg.kind = PageOf(t).kind /\ pg.aborted = PageOf(t).aborted /\ pg.cancel = PageOf(t).cancel
  /\ pg.by = t
  /\ \/ pg.stage \in {"error", "complete"} /\ pg.complete = PageOf(t).complete
     \/ pg.stage = PageOf(t).stage /\ pg.kind = "download" /\ pg.complete /\ Finished(rec)

(* A transfer ends and its page, which was not aborted, shows it.          *)
LEMMA OutcomeStep ==
  ASSUME IInv, NEW t \in DOMAIN transfers, ~Ended(transfers[t]), ~PageOf(t).aborted,
         NEW rec, Same(transfers[t], rec), Ended(rec), Becomes(t, rec),
         NEW pg, Outcome(t, rec, pg), ShowOn(t, pg)
  PROVE  IInv'
  <1>0. PICK p : p = transfers[t].page
    OBVIOUS
  <1>1. /\ p \in DOMAIN pages /\ PageOf(t) = pages[p] /\ t \in TransfersOf(p)
        /\ PageInv(p) /\ t \in Nat \ {0} /\ transfers[t].kind = pages[p].kind
    BY <1>0, KeptPage DEF PageOf
  <1>2. /\ rec \in TransferRecord /\ Own(rec)
        /\ transfers' \in Seq(TransferRecord) /\ DOMAIN transfers' = DOMAIN transfers
        /\ transfers'[t] = rec
        /\ \A u \in DOMAIN transfers : u # t => transfers'[u] = transfers[u]
    BY BecomesFacts DEF IInv, TypeOK, Same
  <1>3. /\ \A u \in DOMAIN transfers : /\ transfers'[u].page = transfers[u].page
                                       /\ transfers'[u].kind = transfers[u].kind
                                       /\ transfers'[u].cancelled = transfers[u].cancelled
        /\ \A q : TransfersOf(q)' = TransfersOf(q)
        /\ \A q, b : LastOf(q, b)' = LastOf(q, b)
    BY <1>2, SameTransfers
  <1>4. /\ pages' \in Seq(PageRecord) /\ DOMAIN pages' = DOMAIN pages /\ pages' # <<>>
        /\ pages'[p] = pg /\ \A q \in DOMAIN pages : q # p => pages'[q] = pages[q]
    BY <1>0, <1>1, PageFacts DEF IInv, TypeOK, Outcome, ShowOn
  <1>5. /\ pg.kind = pages[p].kind /\ pg.aborted = pages[p].aborted /\ ~pg.aborted
        /\ pg.cancel = pages[p].cancel /\ pg.by = t
        /\ \/ pg.stage \in {"error", "complete"} /\ pg.complete = pages[p].complete
           \/ pg.stage = pages[p].stage /\ pg.kind = "download" /\ pg.complete /\ Finished(rec)
    BY <1>1 DEF Outcome
  <1>6. TypeOK'
    BY <1>2, <1>4 DEF TypeOK
  <1>7. Linked'
    <2>1. \A u \in DOMAIN transfers : Own(transfers'[u])
      BY <1>2 DEF IInv, Linked
    <2>2. \A u \in DOMAIN transfers :
            /\ transfers'[u].page \in DOMAIN pages'
            /\ pages'[transfers'[u].page].kind = transfers'[u].kind
      BY <1>3, <1>4, <1>5 DEF IInv, Linked
    <2>3. \A q \in DOMAIN pages :
            /\ pages'[q].by # 0 => pages'[q].by \in TransfersOf(q)
            /\ pages'[q].cancel # 0 => pages'[q].cancel \in TransfersOf(q)
      BY <1>1, <1>4, <1>5 DEF IInv, Linked
    <2> QED BY <2>1, <2>2, <2>3, <1>2, <1>3, <1>4 DEF Linked
  <1>8. PageInv(p)'
    <2>1. Clean(p) => pages[p].stage = "progress" /\ t = pages[p].by /\ LastOf(p, t)
      BY <1>1 DEF PageInv
    <2>2. pages[p].kind = "download" => Clean(p)
      BY <1>1, DownloadsAreClean
    <2>3. Clean(p)' = Clean(p)
      BY <1>3, <1>4, <1>5, <1>1 DEF Clean, TransfersOf
    <2>4. pg.stage = "progress" => LastOf(p, t) /\ pg.kind = "download"
      BY <2>1, <2>2, <1>5
    <2>5. Clean(p) => \A u \in TransfersOf(p) : Ended(transfers'[u])
      <3>1. \A u \in TransfersOf(p) : u \in DOMAIN transfers
        BY DEF TransfersOf
      <3> QED BY <3>1, <2>1, <1>1, <1>2 DEF PageInv
    <2>6. ~(pages[p].complete /\ pages[p].kind = "download" /\ Ended(transfers[pages[p].by]))
      BY <2>1, <2>2
    <2>7. ~pages[p].complete
      BY <2>6, <1>1 DEF PageInv, Finished
    <2>8. pg.complete => pg.kind = "download" /\ pg.stage = "progress" /\ Finished(rec)
      BY <2>1, <2>2, <2>7, <1>5
    <2> QED BY <2>1, <2>3, <2>4, <2>5, <2>8, <1>2, <1>3, <1>4, <1>5 DEF PageInv
  <1>9. ASSUME NEW q \in DOMAIN pages, q # p
        PROVE  PageInv(q)'
    <2>1. t \notin TransfersOf(q)
      BY <1>0, <1>9 DEF TransfersOf
    <2> QED BY <2>1, <1>2, <1>4, <1>9, KeptInv
  <1> QED BY <1>4, <1>6, <1>7, <1>8, <1>9 DEF IInv

-----------------------------------------------------------------------------
(* What the user does *)

(* The page on the screen.                                                 *)
LEMMA ShownFacts ==
  ASSUME IInv
  PROVE  /\ Shown \in DOMAIN pages /\ Shown \in Nat \ {0} /\ pages[Shown] \in PageRecord
         /\ PageInv(Shown)
         /\ Len(transfers) \in Nat /\ DOMAIN transfers = 1..Len(transfers)
         /\ Len(pages) \in Nat /\ DOMAIN pages = 1..Len(pages)
  <1>1. /\ Len(pages) \in Nat /\ DOMAIN pages = 1..Len(pages) /\ Len(pages) # 0
        /\ Len(transfers) \in Nat /\ DOMAIN transfers = 1..Len(transfers)
    BY EmptySeq, LenProperties DEF IInv, TypeOK
  <1>2. Shown \in DOMAIN pages /\ Shown \in Nat \ {0}
    BY <1>1 DEF Shown
  <1>3. pages[Shown] \in PageRecord
    BY <1>1, <1>2, ElementOfSeq DEF IInv, TypeOK
  <1> QED BY <1>1, <1>2, <1>3 DEF IInv

(* A page on which nothing runs shows something else.                      *)
LEMMA IdlePageStep ==
  ASSUME IInv, pages[Shown].stage # "progress",
         NEW pg \in PageRecord, Show(pg), UNCHANGED transfers,
         pg.kind = pages[Shown].kind, ~pg.aborted, pg.stage # "progress",
         pg.cancel = pages[Shown].cancel, pg.complete = pages[Shown].complete,
         pg.by \in {0, pages[Shown].by}
  PROVE  IInv'
  <1>1. PICK p : p = Shown
    OBVIOUS
  <1>2. /\ p \in DOMAIN pages /\ PageInv(p)
        /\ pages' \in Seq(PageRecord) /\ DOMAIN pages' = DOMAIN pages /\ pages' # <<>>
        /\ pages'[p] = pg /\ \A q \in DOMAIN pages : q # p => pages'[q] = pages[q]
    BY <1>1, ShownFacts, PageFacts DEF IInv, TypeOK, Show
  <1>3. transfers' = transfers
    OBVIOUS
  <1>4. /\ \A q : TransfersOf(q)' = TransfersOf(q)
        /\ \A q, b : LastOf(q, b)' = LastOf(q, b)
    BY <1>3 DEF TransfersOf, LastOf
  <1>5. TypeOK'
    BY <1>2, <1>3 DEF IInv, TypeOK
  <1>6. Linked'
    BY <1>1, <1>2, <1>3, <1>4 DEF IInv, Linked
  <1>7. PageInv(p)'
    <2>1. pages[p].aborted => \E t \in TransfersOf(p) : transfers[t].cancelled
      BY <1>2 DEF PageInv, LastOf
    <2>2. Clean(p)' => Clean(p)
      BY <2>1, <1>2, <1>3, <1>4 DEF Clean
    <2>3. ~pages[p].complete
      BY <1>1, <1>2 DEF PageInv
    <2> QED BY <2>2, <2>3, <1>1, <1>2, <1>3, <1>4 DEF PageInv
  <1>8. ASSUME NEW q \in DOMAIN pages, q # p
        PROVE  PageInv(q)'
    <2>1. PageInv(q) /\ pages'[q] = pages[q] /\ Clean(q)' = Clean(q)
      BY <1>2, <1>3, <1>4, <1>8 DEF IInv, Clean
    <2> QED BY <2>1, <1>3, <1>4 DEF PageInv
  <1> QED BY <1>2, <1>5, <1>6, <1>7, <1>8 DEF IInv

(* A page on which nothing runs starts a transfer.                         *)
LEMMA StartStep ==
  ASSUME IInv, pages[Shown].stage # "progress",
         NEW rec \in TransferRecord, transfers' = Append(transfers, rec),
         rec.page = Shown, rec.kind = pages[Shown].kind, Own(rec), ~rec.cancelled,
         NEW pg \in PageRecord, Show(pg),
         pg.kind = pages[Shown].kind, ~pg.aborted, pg.stage = "progress",
         pg.complete = pages[Shown].complete, pg.by = Len(transfers) + 1,
         pg.cancel \in {pages[Shown].cancel, pg.by}, pg.kind = "upload" => pg.cancel = pg.by
  PROVE  IInv'
  <1>1. PICK p : p = Shown
    OBVIOUS
  <1>2. PICK n : n = Len(transfers) + 1
    OBVIOUS
  <1>3. /\ p \in DOMAIN pages /\ PageInv(p)
        /\ pages' \in Seq(PageRecord) /\ DOMAIN pages' = DOMAIN pages /\ pages' # <<>>
        /\ pages'[p] = pg /\ \A q \in DOMAIN pages : q # p => pages'[q] = pages[q]
    BY <1>1, ShownFacts, PageFacts DEF IInv, TypeOK, Show
  <1>4. /\ transfers' \in Seq(TransferRecord) /\ n \in Nat \ {0}
        /\ DOMAIN transfers' = DOMAIN transfers \cup {n} /\ n \notin DOMAIN transfers
        /\ transfers'[n] = rec
        /\ \A t \in DOMAIN transfers : transfers'[t] = transfers[t] /\ t < n /\ t \in Nat
    BY <1>2, ShownFacts, AppendProperties, LenProperties DEF IInv, TypeOK
  <1>5. /\ rec.page = p /\ rec.kind = pages[p].kind /\ pages[p].stage # "progress"
        /\ pg.kind = pages[p].kind /\ pg.complete = pages[p].complete /\ pg.by = n
        /\ pg.cancel \in {pages[p].cancel, n}
    BY <1>1, <1>2
  <1>6. \A q \in DOMAIN pages : TransfersOf(q)' = TransfersOf(q) \cup (IF q = p THEN {n} ELSE {})
    BY <1>4, <1>5 DEF TransfersOf
  <1>7. \A q \in DOMAIN pages : TransfersOf(q) \subseteq DOMAIN transfers
    BY DEF TransfersOf
  <1>8. LastOf(p, n)'
    BY <1>3, <1>4, <1>6, <1>7 DEF LastOf
  <1>9. TypeOK'
    BY <1>3, <1>4 DEF TypeOK
  <1>10. Linked'
    <2>1. \A t \in DOMAIN transfers' :
            /\ transfers'[t].page \in DOMAIN pages'
            /\ pages'[transfers'[t].page].kind = transfers'[t].kind
            /\ Own(transfers'[t])
      <3>1. \A q \in DOMAIN pages : pages'[q].kind = pages[q].kind
        BY <1>3, <1>5
      <3>2. \A t \in DOMAIN transfers :
              /\ transfers[t].page \in DOMAIN pages
              /\ pages[transfers[t].page].kind = transfers[t].kind
              /\ Own(transfers[t])
        BY DEF IInv, Linked
      <3>3. Own(rec) /\ rec.page \in DOMAIN pages /\ pages'[rec.page].kind = rec.kind
        BY <1>3, <1>5
      <3>4. \A t \in DOMAIN transfers : pages'[transfers[t].page].kind = transfers[t].kind
        BY <3>1, <3>2
      <3>5. ASSUME NEW t \in DOMAIN transfers'
            PROVE  t = n \/ (t \in DOMAIN transfers /\ transfers'[t] = transfers[t])
        BY <1>4, Zenon
      <3>6. DOMAIN pages' = DOMAIN pages /\ transfers'[n] = rec
        BY <1>3, <1>4
      <3> QED BY <3>2, <3>3, <3>4, <3>5, <3>6
    <2>2. \A q \in DOMAIN pages :
            /\ pages'[q].by # 0 => pages'[q].by \in TransfersOf(q)'
            /\ pages'[q].cancel # 0 => pages'[q].cancel \in TransfersOf(q)'
      BY <1>3, <1>5, <1>6 DEF IInv, Linked
    <2> QED BY <2>1, <2>2, <1>3 DEF Linked
  <1>11. PageInv(p)'
    <2>1. pages[p].aborted => \E t \in TransfersOf(p) : transfers[t].cancelled
      BY <1>3 DEF PageInv, LastOf
    <2>2. Clean(p)' => Clean(p)
      BY <2>1, <1>3, <1>4, <1>6, <1>7 DEF Clean
    <2>3. Clean(p) => \A t \in TransfersOf(p) : Ended(transfers'[t])
      BY <1>3, <1>4, <1>5, <1>7 DEF PageInv
    <2>4. ~pages[p].complete
      BY <1>3, <1>5 DEF PageInv
    <2>5. /\ ~pages'[p].aborted /\ ~pages'[p].complete /\ pages'[p].stage = "progress"
          /\ pages'[p].by = n /\ (pages'[p].kind = "upload" => pages'[p].cancel = n)
      BY <2>4, <1>3, <1>5
    <2>6. Clean(p)' => \A t \in TransfersOf(p)' : ~Ended(transfers'[t]) => t = n
      BY <2>2, <2>3, <1>3, <1>6
    <2> QED BY <2>5, <2>6, <1>8 DEF PageInv
  <1>12. ASSUME NEW q \in DOMAIN pages, q # p
         PROVE  PageInv(q)'
    <2>1. PageInv(q) /\ pages'[q] = pages[q] /\ TransfersOf(q)' = TransfersOf(q)
      BY <1>3, <1>6, <1>12 DEF IInv
    <2>2. /\ Clean(q)' = Clean(q)
          /\ \A b : LastOf(q, b)' = LastOf(q, b)
          /\ \A t \in TransfersOf(q) : transfers'[t] = transfers[t]
      BY <2>1, <1>4, <1>7 DEF Clean, LastOf
    <2>3. LastOf(q, pages[q].by) => pages[q].by \in TransfersOf(q)
      BY DEF LastOf
    <2> QED BY <2>1, <2>2, <2>3 DEF PageInv
  <1> QED BY <1>3, <1>9, <1>10, <1>11, <1>12 DEF IInv

(* A new page is empty.                                                    *)
LEMMA NewPageStep ==
  ASSUME IInv, NEW pg \in PageRecord, pages' = Append(pages, pg), UNCHANGED transfers,
         ~pg.aborted, ~pg.complete, pg.stage # "progress", pg.by = 0, pg.cancel = 0
  PROVE  IInv'
  <1>1. PICK n : n = Len(pages) + 1
    OBVIOUS
  <1>2. /\ pages' \in Seq(PageRecord) /\ pages' # <<>>
        /\ DOMAIN pages' = DOMAIN pages \cup {n} /\ n \notin DOMAIN pages
        /\ pages'[n] = pg /\ \A q \in DOMAIN pages : pages'[q] = pages[q]
    BY <1>1, ShownFacts, AppendProperties, LenProperties, EmptySeq DEF IInv, TypeOK
  <1>3. transfers' = transfers
    OBVIOUS
  <1>4. /\ \A q : TransfersOf(q)' = TransfersOf(q)
        /\ \A q, b : LastOf(q, b)' = LastOf(q, b)
        /\ TransfersOf(n) = {}
    BY <1>2, <1>3 DEF TransfersOf, LastOf, IInv, Linked
  <1>5. TypeOK'
    BY <1>2, <1>3 DEF IInv, TypeOK
  <1>6. Linked'
    <2>1. \A t \in DOMAIN transfers :
            /\ transfers[t].page \in DOMAIN pages'
            /\ pages'[transfers[t].page].kind = transfers[t].kind
            /\ Own(transfers[t])
      BY <1>2 DEF IInv, Linked
    <2>2. \A q \in DOMAIN pages' :
            /\ pages'[q].by # 0 => pages'[q].by \in TransfersOf(q)
            /\ pages'[q].cancel # 0 => pages'[q].cancel \in TransfersOf(q)
      BY <1>2 DEF IInv, Linked
    <2> QED BY <2>1, <2>2, <1>3, <1>4 DEF Linked
  <1>7. PageInv(n)'
    BY <1>2, <1>4 DEF PageInv
  <1>8. ASSUME NEW q \in DOMAIN pages
        PROVE  PageInv(q)'
    <2>1. PageInv(q) /\ pages'[q] = pages[q] /\ Clean(q)' = Clean(q)
      BY <1>2, <1>3, <1>4, <1>8 DEF IInv, Clean
    <2> QED BY <2>1, <1>3, <1>4 DEF PageInv
  <1> QED BY <1>2, <1>5, <1>7, <1>6, <1>8 DEF IInv

(* The last upload of a page in progress is cancelled.                     *)
LEMMA CancelStep ==
  ASSUME IInv, pages[Shown].kind = "upload", pages[Shown].stage = "progress",
         NEW c, c = pages[Shown].cancel, c # 0,
         NEW rec \in TransferRecord, Becomes(c, rec), Own(rec), rec.cancelled,
         rec.page = transfers[c].page, rec.kind = transfers[c].kind,
         Ended(transfers[c]) => Ended(rec),
         NEW pg \in PageRecord, Show(pg),
         pg.kind = pages[Shown].kind, pg.aborted, pg.stage = "dropZone",
         pg.cancel = pages[Shown].cancel, pg.complete = pages[Shown].complete,
         pg.by = pages[Shown].by
  PROVE  IInv'
  <1>1. PICK p : p = Shown
    OBVIOUS
  <1>2. /\ p \in DOMAIN pages /\ PageInv(p) /\ p \in Nat
        /\ pages' \in Seq(PageRecord) /\ DOMAIN pages' = DOMAIN pages /\ pages' # <<>>
        /\ pages'[p] = pg /\ \A q \in DOMAIN pages : q # p => pages'[q] = pages[q]
    BY <1>1, ShownFacts, PageFacts DEF IInv, TypeOK, Show
  <1>3. pages[p].cancel = c /\ pages[p].by = c /\ LastOf(p, c) /\ pages[p].kind = "upload"
    BY <1>1, <1>2 DEF PageInv
  <1>4. c \in DOMAIN transfers /\ c \in TransfersOf(p) /\ transfers[c].page = p
    BY <1>3 DEF LastOf, TransfersOf
  <1>5. /\ transfers' \in Seq(TransferRecord) /\ DOMAIN transfers' = DOMAIN transfers
        /\ transfers'[c] = rec
        /\ \A u \in DOMAIN transfers : u # c => transfers'[u] = transfers[u]
    BY <1>4, BecomesFacts DEF IInv, TypeOK
  <1>6. \A u \in DOMAIN transfers : /\ transfers'[u].page = transfers[u].page
                                    /\ transfers'[u].kind = transfers[u].kind
    BY <1>5
  <1>7. /\ \A q : TransfersOf(q)' = TransfersOf(q)
        /\ \A q, b : LastOf(q, b)' = LastOf(q, b)
    <2>1. \A q : TransfersOf(q)' = TransfersOf(q)
      BY <1>5, <1>6 DEF TransfersOf
    <2> QED BY <2>1 DEF LastOf
  <1>8. TypeOK'
    BY <1>2, <1>5 DEF TypeOK
  <1>9. /\ pg.kind = pages[p].kind /\ pg.cancel = c /\ pg.by = c
        /\ pg.complete = pages[p].complete
    BY <1>1, <1>3
  <1>10. Linked'
    <2>1. \A u \in DOMAIN transfers :
            /\ transfers[u].page \in DOMAIN pages
            /\ pages'[transfers[u].page].kind = transfers[u].kind
            /\ Own(transfers'[u])
      BY <1>2, <1>5, <1>9 DEF IInv, Linked
    <2>2. \A q \in DOMAIN pages :
            /\ pages'[q].by # 0 => pages'[q].by \in TransfersOf(q)
            /\ pages'[q].cancel # 0 => pages'[q].cancel \in TransfersOf(q)
      BY <1>2, <1>4, <1>9 DEF IInv, Linked
    <2> QED BY SMTT(30), <2>1, <2>2, <1>2, <1>5, <1>6, <1>7 DEF Linked
  <1>11. PageInv(p)'
    <2>1. ~pages'[p].complete /\ pages'[p].aborted /\ pages'[p].stage = "dropZone"
          /\ pages'[p].by = c /\ pages'[p].kind = "upload"
      BY <1>2, <1>3, <1>9 DEF PageInv
    <2>2. LastOf(p, c)' /\ transfers'[c].cancelled
      BY <1>3, <1>5, <1>7
    <2>3. ~Clean(p)'
      BY <2>1 DEF Clean
    <2> QED BY <2>1, <2>2, <2>3 DEF PageInv
  <1>12. ASSUME NEW q \in DOMAIN pages, q # p
         PROVE  PageInv(q)'
    <2>1. PageInv(q) /\ pages'[q] = pages[q]
      BY <1>2, <1>12 DEF IInv
    <2>2. \A u \in TransfersOf(q) : u \in DOMAIN transfers /\ transfers'[u] = transfers[u]
      BY <1>4, <1>5, <1>12 DEF TransfersOf
    <2>3. Clean(q)' = Clean(q)
      BY <2>1, <2>2, <1>7 DEF Clean
    <2>4. LastOf(q, pages[q].by) => pages[q].by \in TransfersOf(q)
      BY DEF LastOf
    <2> QED BY <2>1, <2>2, <2>3, <2>4, <1>7 DEF PageInv
  <1> QED BY <1>2, <1>8, <1>10, <1>11, <1>12 DEF IInv
-----------------------------------------------------------------------------
(* Steps of a transfer *)

(* The transfer between an answer and its next await.                      *)
Mid(t, rec) ==
  /\ rec \in TransferRecord
  /\ rec.page = transfers[t].page /\ rec.kind = transfers[t].kind
  /\ rec.cancelled = transfers[t].cancelled
  /\ rec.kind = "download" => Silent(rec.inbox)

(* finally ends a transfer.                                                *)
LEMMA FinallySame ==
  ASSUME IInv, NEW t \in DOMAIN transfers, NEW rec, Mid(t, rec)
  PROVE  Same(transfers[t], Finally(rec)) /\ Ended(Finally(rec))
  <1>1. /\ Finally(rec) \in TransferRecord /\ Ended(Finally(rec))
        /\ Finally(rec).page = rec.page /\ Finally(rec).kind = rec.kind
        /\ Finally(rec).cancelled = rec.cancelled
        /\ Silent(rec.inbox) => Silent(Finally(rec).inbox)
    BY FinallyFacts DEF Mid
  <1>2. Own(transfers[t])
    BY KeptPage
  <1>3. Finally(rec).kind = "download" => ~Finally(rec).cancelled /\ Silent(Finally(rec).inbox)
    BY <1>1, <1>2 DEF Mid, Own
  <1>4. Own(Finally(rec))
    BY <1>1, <1>3 DEF Own, Ended
  <1> QED BY <1>1, <1>4 DEF Same, Mid

(* It ends and shows nothing.                                              *)
LEMMA EndStep ==
  ASSUME IInv, NEW t \in DOMAIN transfers, ~Ended(transfers[t]), NEW rec, Mid(t, rec),
         Becomes(t, Finally(rec)), UNCHANGED pages
  PROVE  IInv'
  <1>1. Same(transfers[t], Finally(rec)) /\ Ended(Finally(rec))
    BY FinallySame
  <1>2. Kept(transfers[t], Finally(rec))
    BY <1>1 DEF Kept, Finished
  <1> QED BY <1>2, QuietStep

(* It throws: its page shows the error unless the upload was aborted.      *)
LEMMA ThrowStep ==
  ASSUME IInv, NEW t \in DOMAIN transfers, ~Ended(transfers[t]), NEW rec, Mid(t, rec),
         NEW permanent \in BOOLEAN, Throw(t, rec, permanent)
  PROVE  IInv'
  <1>1. Becomes(t, Finally(rec)) /\ Same(transfers[t], Finally(rec)) /\ Ended(Finally(rec))
    BY FinallySame DEF Throw
  <1>2. CASE rec.kind = "upload" /\ PageOf(t).aborted
    BY <1>1, <1>2, EndStep DEF Throw
  <1>3. CASE ~(rec.kind = "upload" /\ PageOf(t).aborted)
    <2> DEFINE pg == [PageOf(t) EXCEPT !.stage = "error", !.by = t, !.retry = ~permanent]
    <2>1. PageOf(t) \in PageRecord /\ t \in Nat /\ PageInv(transfers[t].page)
          /\ PageOf(t).kind = rec.kind /\ rec.kind \in Kinds
      BY KeptPage DEF Mid, TransferRecord
    <2>2. ~PageOf(t).aborted
      BY <1>3, <2>1 DEF PageInv, PageOf, Kinds
    <2>3. Outcome(t, Finally(rec), pg)
      BY <2>1 DEF Outcome, PageRecord, Stages
    <2>4. ShowOn(t, pg)
      BY <1>3 DEF Throw
    <2> QED BY <1>1, <2>2, <2>3, <2>4, OutcomeStep
  <1> QED BY <1>2, <1>3

(* It goes on unless it was aborted.                                       *)
LEMMA GoOnStep ==
  ASSUME IInv, NEW t \in DOMAIN transfers, ~Ended(transfers[t]), NEW rec, Mid(t, rec),
         NEW next, Same(transfers[t], next), GoOn(t, rec, next)
  PROVE  IInv'
  <1>1. Kept(transfers[t], next)
    BY DEF Kept, Finished
  <1>2. UNCHANGED pages /\ (Becomes(t, next) \/ Becomes(t, Finally(rec)))
    BY DEF GoOn
  <1> QED BY <1>1, <1>2, QuietStep, EndStep

(* The first message is taken out of the inbox.                            *)
LEMMA TakenFacts ==
  ASSUME IInv, NEW t \in DOMAIN transfers, transfers[t].inbox # <<>>
  PROVE  LET rec == Taken(transfers[t]) IN
         /\ Mid(t, rec)
         /\ rec.pc = transfers[t].pc /\ rec.ring = transfers[t].ring /\ rec.big = transfers[t].big
         /\ rec.left = transfers[t].left /\ rec.worker = transfers[t].worker
         /\ rec.inbox = Tail(transfers[t].inbox)
         /\ rec.kind = "download" /\ rec.pc \in {"storing", "verify"} => rec.inbox = <<>>
  <1> DEFINE old == transfers[t]
             rec == Taken(old)
  <1>1. old \in TransferRecord /\ Own(old) /\ old.inbox \in Seq(Messages)
    BY KeptPage DEF TransferRecord
  <1>2. Tail(old.inbox) \in Seq(Messages) /\ (Silent(old.inbox) => Silent(Tail(old.inbox)))
    BY <1>1, SilentFacts
  <1>3. /\ rec \in TransferRecord /\ rec.page = old.page /\ rec.kind = old.kind
        /\ rec.cancelled = old.cancelled /\ rec.pc = old.pc /\ rec.ring = old.ring
        /\ rec.big = old.big /\ rec.left = old.left /\ rec.worker = old.worker
        /\ rec.inbox = Tail(old.inbox)
    BY <1>1, <1>2 DEF Taken, TransferRecord
  <1>4. old.kind = "download" /\ old.pc \in {"storing", "verify"} => Tail(old.inbox) = <<>>
    <2>1. old.kind = "download" /\ old.pc \in {"storing", "verify"} =>
            old.inbox \in {<<"store">>, <<"verify">>}
      BY <1>1 DEF Own
    <2>2. Tail(<<"store">>) = <<>> /\ Tail(<<"verify">>) = <<>>
      OBVIOUS
    <2> QED BY <2>1, <2>2
  <1>5. old.kind = "download" => Silent(Tail(old.inbox))
    <2>1. old.kind = "download" => old.pc \in {"storing", "verify"} \/ Silent(old.inbox)
      BY <1>1 DEF Own, Ended
    <2>2. Silent(<<>>)
      BY DEF Silent
    <2> QED BY <1>2, <1>4, <2>1, <2>2
  <1> HIDE DEF old, rec
  <1>6. Mid(t, rec)
    BY <1>3, <1>5 DEF Mid, old
  <1> QED BY <1>3, <1>4, <1>6 DEF old, rec

(* A message is posted, unless the worker is terminated.                   *)
LEMMA PostFacts ==
  ASSUME NEW rec \in TransferRecord, NEW msg \in Messages
  PROVE  LET b == Post(rec, msg) IN
         /\ b \in TransferRecord
         /\ b.page = rec.page /\ b.kind = rec.kind /\ b.cancelled = rec.cancelled
         /\ b.pc = rec.pc /\ b.ring = rec.ring
         /\ b.inbox \in {rec.inbox, Append(rec.inbox, msg)}
  <1>1. Append(rec.inbox, msg) \in Seq(Messages)
    BY AppendProperties DEF TransferRecord
  <1>2. CASE rec.worker = "terminated"
    BY <1>2 DEF Post
  <1>3. CASE rec.worker # "terminated"
    <2> DEFINE b == [rec EXCEPT !.inbox = Append(rec.inbox, msg)]
    <2>1. /\ b \in TransferRecord /\ b.page = rec.page /\ b.kind = rec.kind
          /\ b.cancelled = rec.cancelled /\ b.pc = rec.pc /\ b.ring = rec.ring
          /\ b.inbox = Append(rec.inbox, msg)
      BY <1>1 DEF TransferRecord
    <2> HIDE DEF b
    <2>2. Post(rec, msg) = b
      BY <1>3 DEF Post, b
    <2> QED BY <2>1, <2>2
  <1> QED BY <1>2, <1>3

(* An upload reads a chunk next.                                           *)
LEMMA StartChunksSame ==
  ASSUME IInv, NEW t \in DOMAIN transfers, NEW rec, Mid(t, rec), rec.kind = "upload"
  PROVE  Same(transfers[t], StartChunks(rec))
  <1> DEFINE a == [rec EXCEPT !.pc = "upload"]
  <1>1. /\ a \in TransferRecord /\ a.pc = "upload" /\ a.page = rec.page /\ a.kind = rec.kind
        /\ a.cancelled = rec.cancelled
    BY DEF Mid, TransferRecord, Pcs
  <1> HIDE DEF a
  <1>2. /\ Post(a, "read") \in TransferRecord /\ Post(a, "read").pc = "upload"
        /\ Post(a, "read").page = rec.page /\ Post(a, "read").kind = "upload"
        /\ Post(a, "read").cancelled = rec.cancelled
    BY <1>1, PostFacts DEF Messages
  <1>3. StartChunks(rec) = Post(a, "read")
    BY DEF StartChunks, a
  <1>4. Own(Post(a, "read"))
    BY <1>2 DEF Own
  <1> QED BY <1>2, <1>3, <1>4 DEF Same, Mid

(* The await at which an upload or a download is.                          *)
LEMMA Awaits ==
  ASSUME IInv, NEW t \in DOMAIN transfers
  PROVE  LET rec == transfers[t] IN
         /\ rec \in TransferRecord
         /\ rec.kind \in {"upload", "download"}
         /\ rec.pc \in {"read", "encrypt", "upload", "put"} => rec.kind = "upload"
         /\ rec.pc \in {"download", "storing", "verify"} => rec.kind = "download"
         /\ rec.pc \in {"read", "encrypt", "upload", "put", "download", "storing", "verify", "fill"}
              => ~Ended(rec)
         /\ rec.kind = "upload" \/ rec.pc # "verify" => Mid(t, rec)
         /\ rec.kind = "download" => ~rec.cancelled
         /\ rec.kind = "download" /\ rec.pc \in {"download", "fill"} => rec.inbox = <<>>
  <1>1. transfers[t] \in TransferRecord /\ Own(transfers[t])
    BY KeptPage
  <1>2. Silent(<<>>) /\ Silent(<<"store">>)
    BY DEF Silent
  <1>3. transfers[t].kind = "download" /\ transfers[t].pc # "verify" => Silent(transfers[t].inbox)
    BY <1>1, <1>2 DEF Own, Ended
  <1>4. transfers[t].kind \in {"upload", "download"}
    BY <1>1 DEF TransferRecord, Kinds
  <1> QED BY <1>1, <1>3, <1>4 DEF Own, Ended, Mid

(* The file was read, or could not be.                                     *)
LEMMA FileReadStep ==
  ASSUME IInv, NEW t \in DOMAIN transfers, FileRead(t)
  PROVE  IInv'
  <1> DEFINE rec == transfers[t]
             a == [rec EXCEPT !.pc = "encrypt"]
  <1>1. rec \in TransferRecord /\ rec.kind = "upload" /\ ~Ended(rec) /\ Mid(t, rec)
    BY Awaits DEF FileRead
  <1>2. /\ a \in TransferRecord /\ a.pc = "encrypt" /\ a.page = rec.page /\ a.kind = "upload"
        /\ a.cancelled = rec.cancelled
    BY <1>1 DEF TransferRecord, Pcs
  <1>3. GoOn(t, rec, Post(a, "encrypt")) \/ Throw(t, rec, FALSE)
    BY DEF FileRead
  <1> HIDE DEF a
  <1>4. /\ Post(a, "encrypt") \in TransferRecord /\ Post(a, "encrypt").pc = "encrypt"
        /\ Post(a, "encrypt").page = rec.page /\ Post(a, "encrypt").kind = "upload"
        /\ Post(a, "encrypt").cancelled = rec.cancelled
    BY <1>2, PostFacts DEF Messages
  <1>5. Own(Post(a, "encrypt"))
    BY <1>4 DEF Own
  <1>6. Same(transfers[t], Post(a, "encrypt"))
    BY <1>1, <1>4, <1>5 DEF Same
  <1> QED BY <1>1, <1>3, <1>6, GoOnStep, ThrowStep

(* The file was encrypted, or could not be.                                *)
LEMMA EncryptedStep ==
  ASSUME IInv, NEW t \in DOMAIN transfers, Encrypted(t)
  PROVE  IInv'
  <1> DEFINE rec == Taken(transfers[t])
             filling == [rec EXCEPT !.pc = "fill", !.ring = fillTo(rec.ring, Weight(rec))]
  <1>1. transfers[t].kind = "upload" /\ ~Ended(transfers[t]) /\ transfers[t].inbox # <<>>
    BY Awaits DEF Encrypted, Answers
  <1>2. Mid(t, rec) /\ rec.kind = "upload" /\ rec \in TransferRecord
    BY <1>1, TakenFacts DEF Mid
  <1>3. \/ GoOn(t, rec, StartChunks(rec))
        \/ GoOn(t, rec, filling)
        \/ Throw(t, rec, FALSE)
    BY DEF Encrypted
  <1>4. fillTo(rec.ring, Weight(rec)) \in Rings
    <2>1. rec.ring \in Rings /\ Weight(rec) \in Int
      BY <1>2 DEF TransferRecord, Weight
    <2> QED BY <2>1, RingFacts
  <1>5. /\ filling \in TransferRecord /\ filling.pc = "fill" /\ filling.page = rec.page
        /\ filling.kind = "upload" /\ filling.cancelled = rec.cancelled
    BY <1>2, <1>4 DEF TransferRecord, Pcs
  <1> HIDE DEF rec, filling
  <1>6. Own(filling)
    BY <1>5 DEF Own
  <1>7. Same(transfers[t], filling)
    BY <1>1, <1>2, <1>5, <1>6 DEF Same, Mid
  <1> QED BY <1>1, <1>2, <1>3, <1>7, StartChunksSame, GoOnStep, ThrowStep

(* Only the ring, the worker or the agent of a transfer changes.           *)
LEMMA SameParts ==
  ASSUME NEW a \in TransferRecord, Own(a), NEW b \in TransferRecord,
         b.page = a.page, b.kind = a.kind, b.cancelled = a.cancelled,
         b.pc = a.pc, b.inbox = a.inbox
  PROVE  Same(a, b)
  BY DEF Same, Own, Ended

(* A message is taken and nothing else happens.                            *)
LEMMA TakenKept ==
  ASSUME IInv, NEW t \in DOMAIN transfers, transfers[t].inbox # <<>>
  PROVE  Kept(transfers[t], Taken(transfers[t]))
  <1> DEFINE old == transfers[t]
             rec == Taken(old)
  <1>1. old \in TransferRecord /\ Own(old) /\ old.inbox \in Seq(Messages)
    BY KeptPage DEF TransferRecord
  <1>2. /\ Mid(t, rec) /\ rec.pc = old.pc /\ rec.ring = old.ring /\ rec.inbox = Tail(old.inbox)
        /\ rec.kind = "download" /\ rec.pc \in {"storing", "verify"} => rec.inbox = <<>>
    BY TakenFacts
  <1>3. Silent(old.inbox) => Silent(Tail(old.inbox))
    BY <1>1, SilentFacts
  <1> HIDE DEF rec
  <1>4. rec \in TransferRecord /\ rec.page = old.page /\ rec.kind = old.kind
        /\ rec.cancelled = old.cancelled /\ (rec.kind = "download" => Silent(rec.inbox))
    BY <1>2 DEF Mid
  <1>5. Own(rec)
    BY <1>1, <1>2, <1>4 DEF Own
  <1>6. (Ended(old) => Ended(rec)) /\ (Finished(old) => Finished(rec))
    BY <1>2, <1>3 DEF Ended, Finished
  <1> QED BY <1>4, <1>5, <1>6 DEF Same, Kept, rec

(* A terminated worker leaves no messages.                                 *)
LEMMA TerminateFacts ==
  ASSUME NEW rec \in TransferRecord, rec.kind = "download" => ~rec.cancelled,
         rec.kind = "upload" => rec.pc \in {"read", "encrypt", "fill", "upload", "put", "cleanup", "ended"},
         rec.kind = "download" => rec.pc \in {"download", "storing", "verify", "fill", "cleanup", "ended"}
  PROVE  /\ Same(rec, terminate(rec))
         /\ terminate(rec).pc = rec.pc /\ terminate(rec).ring = rec.ring
         /\ Silent(terminate(rec).inbox)
  <1> DEFINE b == [rec EXCEPT !.worker = "terminated", !.inbox = <<>>]
  <1>1. /\ b \in TransferRecord /\ b.page = rec.page /\ b.kind = rec.kind
        /\ b.cancelled = rec.cancelled /\ b.pc = rec.pc /\ b.ring = rec.ring /\ b.inbox = <<>>
    BY EmptySeq DEF TransferRecord
  <1>2. terminate(rec) = b
    BY DEF terminate
  <1> HIDE DEF b
  <1>3. Silent(b.inbox)
    BY <1>1 DEF Silent
  <1>4. Own(b)
    BY <1>1, <1>3 DEF Own
  <1> QED BY <1>1, <1>2, <1>3, <1>4 DEF Same

(* The worker reports progress; it never does to a finished download.      *)
LEMMA ProgressStep ==
  ASSUME IInv, NEW t \in DOMAIN transfers, Progress(t)
  PROVE  IInv'
  <1> DEFINE rec == transfers[t]
             f == IF rec.kind = "upload" THEN Weight(rec) ELSE 99
             b == [rec EXCEPT !.ring = update(rec.ring, f)]
  <1>1. rec \in TransferRecord /\ Own(rec) /\ rec.ring \in Rings /\ rec.inbox \in Seq(Messages)
    BY KeptPage DEF TransferRecord
  <1>2. f \in Int
    BY DEF Weight
  <1>3. update(rec.ring, f) \in Rings
    BY <1>1, <1>2, RingFacts
  <1>4. /\ b \in TransferRecord /\ b.page = rec.page /\ b.kind = rec.kind
        /\ b.cancelled = rec.cancelled /\ b.pc = rec.pc /\ b.inbox = rec.inbox
    BY <1>1, <1>3 DEF TransferRecord
  <1>5. Becomes(t, b) /\ UNCHANGED pages /\ rec.inbox # <<>> /\ Head(rec.inbox) \in {"encrypt", "verify"}
    BY DEF Progress
  <1>6. ~Silent(rec.inbox)
    BY <1>1, <1>5, SilentFacts
  <1> HIDE DEF b
  <1>7. Kept(rec, b)
    BY <1>1, <1>4, <1>6, SameParts DEF Kept, Ended, Finished
  <1> QED BY <1>5, <1>7, QuietStep

(* The ring follows; that of a finished download stands still.             *)
LEMMA TickStep ==
  ASSUME IInv, NEW t \in DOMAIN transfers, Tick(t)
  PROVE  IInv'
  <1> DEFINE rec == transfers[t]
             b == [rec EXCEPT !.ring = tick(rec.ring)]
  <1>1. rec \in TransferRecord /\ Own(rec) /\ rec.ring \in Rings
    BY KeptPage DEF TransferRecord
  <1>2. tick(rec.ring) \in Rings
    BY <1>1, RingFacts
  <1>3. /\ b \in TransferRecord /\ b.page = rec.page /\ b.kind = rec.kind
        /\ b.cancelled = rec.cancelled /\ b.pc = rec.pc /\ b.inbox = rec.inbox
    BY <1>1, <1>2 DEF TransferRecord
  <1>4. Becomes(t, b) /\ UNCHANGED pages /\ rec.ring.anim = "tick"
    BY DEF Tick
  <1> HIDE DEF b
  <1>5. Kept(rec, b)
    BY <1>1, <1>3, <1>4, SameParts DEF Kept, Ended, Finished
  <1> QED BY <1>4, <1>5, QuietStep

(* A chunk was read, or could not be.                                      *)
LEMMA ChunkReadStep ==
  ASSUME IInv, NEW t \in DOMAIN transfers, ChunkRead(t)
  PROVE  IInv'
  <1> DEFINE rec == Taken(transfers[t])
             b == [rec EXCEPT !.pc = "put"]
  <1>1. transfers[t].kind = "upload" /\ ~Ended(transfers[t]) /\ transfers[t].inbox # <<>>
    BY Awaits DEF ChunkRead, Answers
  <1>2. Mid(t, rec) /\ rec.kind = "upload" /\ rec \in TransferRecord
    BY <1>1, TakenFacts DEF Mid
  <1>3. (Becomes(t, b) /\ UNCHANGED pages) \/ Throw(t, rec, FALSE)
    BY DEF ChunkRead
  <1>4. /\ b \in TransferRecord /\ b.pc = "put" /\ b.page = rec.page
        /\ b.kind = "upload" /\ b.cancelled = rec.cancelled
    BY <1>2 DEF TransferRecord, Pcs
  <1> HIDE DEF rec, b
  <1>5. Own(b)
    BY <1>4 DEF Own
  <1>6. Kept(transfers[t], b)
    BY <1>1, <1>2, <1>4, <1>5 DEF Kept, Same, Mid, Finished
  <1> QED BY <1>1, <1>2, <1>3, <1>6, QuietStep, ThrowStep

(* A chunk is on its server.                                               *)
LEMMA ChunkPutStep ==
  ASSUME IInv, NEW t \in DOMAIN transfers, ChunkPut(t)
  PROVE  IInv'
  <1> DEFINE rec == transfers[t]
             f == Fraction(rec, Chunks - rec.left + 1)
             a == [rec EXCEPT !.left = rec.left - 1, !.ring = update(rec.ring, f)]
             b == [rec EXCEPT !.left = 0, !.ring = update(rec.ring, f)]
  <1>1. /\ rec \in TransferRecord /\ rec.kind = "upload" /\ ~Ended(rec) /\ rec.pc = "put"
        /\ Own(rec) /\ rec.ring \in Rings /\ rec.left \in Int
    BY Awaits, KeptPage DEF ChunkPut, TransferRecord
  <1>2. update(rec.ring, f) \in Rings
    <2>1. Chunks - rec.left + 1 \in Int
      BY <1>1, PageConstants
    <2> QED BY <1>1, <2>1, FractionFacts, RingFacts
  <1>3. /\ UNCHANGED pages
        /\ \/ Becomes(t, StartChunks(a))
           \/ Becomes(t, b)
    BY DEF ChunkPut
  <1> HIDE DEF f
  <1>4. /\ a \in TransferRecord /\ a.page = rec.page /\ a.kind = "upload" /\ a.cancelled = rec.cancelled
        /\ b \in TransferRecord /\ b.page = rec.page /\ b.kind = "upload" /\ b.cancelled = rec.cancelled
        /\ b.pc = rec.pc /\ b.inbox = rec.inbox
    <2> DEFINE r == update(rec.ring, f)
    <2>1. r \in Rings /\ rec.left - 1 \in Int /\ 0 \in Int
      BY <1>1, <1>2
    <2> HIDE DEF r
    <2>2. /\ [rec EXCEPT !.left = rec.left - 1, !.ring = r] \in TransferRecord
          /\ [rec EXCEPT !.left = 0, !.ring = r] \in TransferRecord
      BY <1>1, <2>1 DEF TransferRecord
    <2> QED BY <1>1, <2>2 DEF r, TransferRecord
  <1> HIDE DEF a, b
  <1>5. Mid(t, a)
    BY <1>1, <1>4 DEF Mid
  <1>6. Same(rec, b)
    BY <1>1, <1>4, SameParts
  <1>7. Kept(rec, StartChunks(a)) /\ Kept(rec, b)
    BY <1>1, <1>4, <1>5, <1>6, StartChunksSame DEF Kept, Finished
  <1> QED BY <1>3, <1>7, QuietStep

(* A command fails.                                                        *)
LEMMA CommandFailsStep ==
  ASSUME IInv, NEW t \in DOMAIN transfers, CommandFails(t)
  PROVE  IInv'
  BY Awaits, ThrowStep DEF CommandFails

(* A chunk arrived.                                                        *)
LEMMA FetchedStep ==
  ASSUME IInv, NEW t \in DOMAIN transfers, Fetched(t)
  PROVE  IInv'
  <1> DEFINE rec == transfers[t]
             a == [rec EXCEPT !.pc = "storing"]
  <1>1. /\ rec \in TransferRecord /\ rec.kind = "download" /\ ~Ended(rec) /\ ~rec.cancelled
        /\ rec.inbox = <<>>
    BY Awaits DEF Fetched
  <1>2. /\ a \in TransferRecord /\ a.pc = "storing" /\ a.page = rec.page /\ a.kind = rec.kind
        /\ a.cancelled = rec.cancelled /\ a.inbox = <<>>
    BY <1>1 DEF TransferRecord, Pcs
  <1>3. Becomes(t, Post(a, "store")) /\ UNCHANGED pages
    BY DEF Fetched
  <1> HIDE DEF a
  <1> DEFINE b == Post(a, "store")
  <1>4. /\ b \in TransferRecord /\ b.pc = "storing" /\ b.page = rec.page /\ b.kind = rec.kind
        /\ b.cancelled = rec.cancelled /\ b.inbox \in {<<>>, Append(<<>>, "store")}
    BY <1>2, PostFacts DEF Messages
  <1>5. Append(<<>>, "store") = <<"store">>
    OBVIOUS
  <1> HIDE DEF b
  <1>6. Own(b)
    BY <1>1, <1>4, <1>5 DEF Own, Ended
  <1>7. Kept(rec, b)
    BY <1>1, <1>4, <1>6 DEF Kept, Same, Finished
  <1> QED BY <1>3, <1>7, QuietStep DEF b

(* The page offers the saved file; its ring is full.                       *)
LEMMA SaveStep ==
  ASSUME IInv, NEW t \in DOMAIN transfers, ~Ended(transfers[t]),
         NEW rec, Mid(t, rec), rec.kind = "download", Save(t, rec)
  PROVE  IInv'
  <1> DEFINE a == [rec EXCEPT !.ring = update(rec.ring, 100)]
             b == Finally(a)
             pg == [PageOf(t) EXCEPT !.complete = TRUE, !.by = t]
  <1>1. rec \in TransferRecord /\ rec.ring \in Rings
    BY DEF Mid, TransferRecord
  <1>2. update(rec.ring, 100) \in Rings /\ update(rec.ring, 100).displayed = 100
    BY <1>1, RingFacts
  <1>3. /\ a \in TransferRecord /\ a.page = rec.page /\ a.kind = rec.kind
        /\ a.cancelled = rec.cancelled /\ a.inbox = rec.inbox /\ a.ring = update(rec.ring, 100)
    BY <1>1, <1>2 DEF TransferRecord
  <1>4. Becomes(t, b) /\ ShowOn(t, pg)
    BY DEF Save
  <1> HIDE DEF a
  <1>5. Mid(t, a)
    BY <1>3 DEF Mid
  <1>6. Same(transfers[t], b) /\ Ended(b)
    BY <1>5, FinallySame
  <1>7. b.ring = destroy(a.ring) /\ Silent(b.inbox)
    BY <1>3, <1>5, FinallyFacts DEF Mid
  <1>8. b.ring.displayed = 100 /\ b.ring.anim = "none"
    BY <1>2, <1>3, <1>7, RingFacts
  <1> HIDE DEF b
  <1>9. Finished(b)
    BY <1>6, <1>7, <1>8 DEF Finished
  <1>10. /\ PageOf(t) \in PageRecord /\ t \in Nat /\ PageOf(t).kind = "download"
         /\ PageInv(transfers[t].page)
    BY KeptPage DEF Mid
  <1>11. ~PageOf(t).aborted
    BY <1>10 DEF PageInv, PageOf
  <1>12. Outcome(t, b, pg)
    BY <1>9, <1>10 DEF Outcome, PageRecord
  <1> QED BY <1>4, <1>6, <1>11, <1>12, OutcomeStep

(* An upload shows its link, unless it was aborted.                        *)
LEMMA UploadedStep ==
  ASSUME IInv, NEW t \in DOMAIN transfers, Uploaded(t)
  PROVE  IInv'
  <1>1. PICK fd : Complete(t, fd) /\ LinkTo(fd) \in Links
    <2>1. PICK servers \in [1..Chunks -> ToSet(getServers)] :
            \/ Complete(t, Described(servers, FALSE))
            \/ \E s \in ToSet(getServers) : Complete(t, Described(<<s>>, TRUE))
      BY DEF Uploaded
    <2>2. LinkTo(Described(servers, FALSE)) \in Links
      BY <2>1 DEF Links
    <2>3. \A s \in ToSet(getServers) : LinkTo(Described(<<s>>, TRUE)) \in Links
      BY DEF Links
    <2> QED BY <2>1, <2>2, <2>3
  <1> DEFINE rec == transfers[t]
             link == LinkTo(fd)
             pg == [PageOf(t) EXCEPT !.stage = "complete", !.by = t, !.url = <<link>>]
  <1>2. rec.kind = "upload" /\ ~Ended(rec) /\ Mid(t, rec)
    BY Awaits DEF Uploaded
  <1>3. Becomes(t, Finally(rec)) /\ Same(rec, Finally(rec)) /\ Ended(Finally(rec))
    BY <1>1, <1>2, FinallySame DEF Complete
  <1>4. CASE PageOf(t).aborted
    BY <1>1, <1>2, <1>4, EndStep DEF Complete
  <1>5. CASE ~PageOf(t).aborted
    <2>1. ShowOn(t, pg)
      BY <1>1, <1>5 DEF Complete
    <2>2. link \in Links
      BY <1>1
    <2> HIDE DEF link
    <2>3. <<link>> \in Seq(Links)
      BY <2>2
    <2>4. PageOf(t) \in PageRecord /\ t \in Nat
      BY KeptPage
    <2>5. Outcome(t, Finally(rec), pg)
      BY <2>3, <2>4 DEF Outcome, PageRecord, Stages
    <2> QED BY <1>2, <1>3, <1>5, <2>1, <2>5, OutcomeStep
  <1> QED BY <1>4, <1>5

(* A chunk was stored, or could not be.                                    *)
LEMMA ChunkStoredStep ==
  ASSUME IInv, NEW t \in DOMAIN transfers, ChunkStored(t)
  PROVE  IInv'
  <1> DEFINE rec == Taken(transfers[t])
             f == Fraction(rec, Chunks - rec.left + 1)
             on == [rec EXCEPT !.left = rec.left - 1, !.ring = update(rec.ring, f)]
             more == [on EXCEPT !.pc = "download"]
             last == [on EXCEPT !.pc = "verify"]
  <1>1. /\ transfers[t].kind = "download" /\ ~Ended(transfers[t]) /\ ~transfers[t].cancelled
        /\ transfers[t].inbox # <<>> /\ transfers[t].pc = "storing"
    BY Awaits DEF ChunkStored, Answers
  <1>2. /\ Mid(t, rec) /\ rec.kind = "download" /\ rec \in TransferRecord /\ rec.inbox = <<>>
        /\ rec.ring \in Rings /\ rec.left \in Int
    BY <1>1, TakenFacts DEF Mid, TransferRecord
  <1>3. \/ Becomes(t, more) /\ UNCHANGED pages
        \/ Becomes(t, Post(last, "verify")) /\ UNCHANGED pages
        \/ Throw(t, rec, FALSE)
    BY DEF ChunkStored
  <1> HIDE DEF rec
  <1>4. update(rec.ring, f) \in Rings
    <2>1. Chunks - rec.left + 1 \in Int
      BY <1>2, PageConstants
    <2> QED BY <1>2, <2>1, FractionFacts, RingFacts
  <1> HIDE DEF f
  <1>5. /\ on \in TransferRecord /\ on.page = rec.page /\ on.kind = rec.kind
        /\ on.cancelled = rec.cancelled /\ on.inbox = <<>>
    <2> DEFINE r == update(rec.ring, f)
    <2>1. r \in Rings /\ rec.left - 1 \in Int
      BY <1>2, <1>4
    <2> HIDE DEF r
    <2>2. [rec EXCEPT !.left = rec.left - 1, !.ring = r] \in TransferRecord
      BY <1>2, <2>1 DEF TransferRecord
    <2> QED BY <1>2, <2>2 DEF r, TransferRecord
  <1> HIDE DEF on
  <1>6. /\ more \in TransferRecord /\ more.pc = "download" /\ more.page = rec.page
        /\ more.kind = rec.kind /\ more.cancelled = rec.cancelled /\ more.inbox = <<>>
        /\ last \in TransferRecord /\ last.pc = "verify" /\ last.page = rec.page
        /\ last.kind = rec.kind /\ last.cancelled = rec.cancelled /\ last.inbox = <<>>
    BY <1>5 DEF TransferRecord, Pcs
  <1> HIDE DEF more, last
  <1> DEFINE b == Post(last, "verify")
  <1>7. /\ b \in TransferRecord /\ b.pc = "verify" /\ b.page = rec.page /\ b.kind = rec.kind
        /\ b.cancelled = rec.cancelled /\ b.inbox \in {<<>>, Append(<<>>, "verify")}
    BY <1>6, PostFacts DEF Messages
  <1>8. Append(<<>>, "verify") = <<"verify">>
    OBVIOUS
  <1> HIDE DEF b
  <1>9. /\ rec.page = transfers[t].page /\ rec.kind = transfers[t].kind /\ rec.kind = "download"
        /\ rec.cancelled = transfers[t].cancelled /\ ~rec.cancelled
    BY <1>1, <1>2 DEF Mid
  <1>10. Kept(transfers[t], more)
    BY <1>1, <1>6, <1>9 DEF Kept, Same, Own, Ended, Finished
  <1>11. Kept(transfers[t], b)
    BY <1>1, <1>7, <1>8, <1>9 DEF Kept, Same, Own, Ended, Finished
  <1> QED BY <1>1, <1>2, <1>3, <1>10, <1>11, QuietStep, ThrowStep DEF b

(* A file was decrypted, or could not be.                                  *)
LEMMA DecryptedStep ==
  ASSUME IInv, NEW t \in DOMAIN transfers, Decrypted(t)
  PROVE  IInv'
  <1> DEFINE rec == Taken(transfers[t])
             b == [rec EXCEPT !.pc = "fill", !.ring = fillTo(rec.ring, 99)]
  <1>1. /\ transfers[t].kind = "download" /\ ~Ended(transfers[t]) /\ ~transfers[t].cancelled
        /\ transfers[t].inbox # <<>> /\ transfers[t].pc = "verify"
    BY Awaits DEF Decrypted, Answers
  <1>2. /\ Mid(t, rec) /\ rec.kind = "download" /\ rec \in TransferRecord /\ rec.inbox = <<>>
        /\ rec.ring \in Rings
    BY <1>1, TakenFacts DEF Mid, TransferRecord
  <1>3. \/ Save(t, rec)
        \/ Becomes(t, b) /\ UNCHANGED pages
        \/ Throw(t, rec, FALSE)
    BY DEF Decrypted
  <1> HIDE DEF rec
  <1>4. fillTo(rec.ring, 99) \in Rings
    <2>1. \A f \in Int : fillTo(rec.ring, f) \in Rings
      BY <1>2, RingFacts
    <2> QED BY <2>1
  <1>5. /\ b \in TransferRecord /\ b.pc = "fill" /\ b.page = rec.page /\ b.kind = rec.kind
        /\ b.cancelled = rec.cancelled /\ b.inbox = <<>>
    BY <1>2, <1>4 DEF TransferRecord, Pcs
  <1> HIDE DEF b
  <1>6. Kept(transfers[t], b)
    <2>1. /\ rec.page = transfers[t].page /\ rec.kind = transfers[t].kind
          /\ rec.cancelled = transfers[t].cancelled
      BY <1>2 DEF Mid
    <2> QED BY <1>1, <1>2, <1>5, <2>1 DEF Kept, Same, Own, Ended, Finished
  <1> QED BY <1>1, <1>2, <1>3, <1>6, QuietStep, ThrowStep, SaveStep

(* Whoever waited for a fill goes on.                                      *)
LEMMA FillFrameStep ==
  ASSUME IInv, NEW t \in DOMAIN transfers, FillFrame(t)
  PROVE  IInv'
  <1> DEFINE old == transfers[t]
             rec == [old EXCEPT !.ring = LastFrame(old.ring)]
  <1>1. old \in TransferRecord /\ Own(old) /\ old.ring \in Rings
    BY KeptPage DEF TransferRecord
  <1>2. LastFrame(old.ring) \in Rings
    BY <1>1, RingFacts
  <1>3. /\ rec \in TransferRecord /\ rec.page = old.page /\ rec.kind = old.kind
        /\ rec.cancelled = old.cancelled /\ rec.pc = old.pc /\ rec.inbox = old.inbox
    BY <1>1, <1>2 DEF TransferRecord
  <1>4. \/ Becomes(t, rec) /\ UNCHANGED pages
        \/ rec.kind = "upload" /\ GoOn(t, rec, StartChunks(rec))
        \/ rec.kind # "upload" /\ Save(t, rec)
    BY DEF FillFrame
  <1>5. old.pc = "fill"
    BY <1>3 DEF FillFrame
  <1>6. ~Ended(old) /\ Mid(t, old) /\ old.kind \in {"upload", "download"}
    BY <1>5, Awaits
  <1> HIDE DEF rec
  <1>7. Mid(t, rec)
    BY <1>3, <1>6 DEF Mid
  <1>8. Kept(old, rec)
    BY <1>1, <1>3, <1>6, SameParts DEF Kept, Ended, Finished
  <1>9. CASE Becomes(t, rec) /\ UNCHANGED pages
    BY <1>8, <1>9, QuietStep
  <1>10. CASE rec.kind = "upload" /\ GoOn(t, rec, StartChunks(rec))
    BY <1>6, <1>7, <1>10, StartChunksSame, GoOnStep
  <1>11. CASE rec.kind # "upload" /\ Save(t, rec)
    BY <1>3, <1>6, <1>7, <1>11, SaveStep
  <1> QED BY <1>4, <1>9, <1>10, <1>11

(* An answer comes after the failure.                                      *)
LEMMA LateAnswerStep ==
  ASSUME IInv, NEW t \in DOMAIN transfers, LateAnswer(t)
  PROVE  IInv'
  BY TakenKept, QuietStep DEF LateAnswer, Answers

(* The cleanup of a transfer is answered.                                  *)
LEMMA CleanedUpStep ==
  ASSUME IInv, NEW t \in DOMAIN transfers, CleanedUp(t)
  PROVE  IInv'
  <1> DEFINE old == transfers[t]
             rec == [old EXCEPT !.pc = "ended", !.agent = FALSE]
  <1>1. /\ old \in TransferRecord /\ Own(old) /\ old.pc = "cleanup" /\ old.inbox # <<>>
        /\ old.inbox \in Seq(Messages) /\ Ended(old)
    BY KeptPage DEF CleanedUp, Answers, TransferRecord, Ended
  <1>2. Kept(old, Taken(old))
    BY <1>1, TakenKept
  <1>3. /\ rec \in TransferRecord /\ rec.page = old.page /\ rec.kind = old.kind
        /\ rec.cancelled = old.cancelled /\ rec.pc = "ended" /\ rec.inbox = old.inbox
        /\ rec.ring = old.ring
    BY <1>1 DEF TransferRecord, Pcs
  <1>4. UNCHANGED pages /\ (Becomes(t, terminate(rec)) \/ Becomes(t, Taken(rec)))
    BY DEF CleanedUp
  <1> HIDE DEF rec
  <1>5. Kept(old, terminate(rec))
    <2>1. rec.kind = "download" => ~rec.cancelled
      BY <1>1, <1>3 DEF Own
    <2>2. /\ Same(rec, terminate(rec)) /\ terminate(rec).pc = "ended"
          /\ terminate(rec).ring = old.ring /\ Silent(terminate(rec).inbox)
      BY <1>3, <2>1, TerminateFacts
    <2> QED BY <1>1, <1>3, <2>2 DEF Kept, Same, Ended, Finished
  <1>6. Kept(old, Taken(rec))
    <2> DEFINE b == Taken(rec)
    <2>1. Tail(old.inbox) \in Seq(Messages) /\ (Silent(old.inbox) => Silent(Tail(old.inbox)))
      BY <1>1, SilentFacts
    <2>2. /\ b \in TransferRecord /\ b.page = old.page /\ b.kind = old.kind
          /\ b.cancelled = old.cancelled /\ b.pc = "ended" /\ b.inbox = Tail(old.inbox)
          /\ b.ring = old.ring
      BY <1>3, <2>1 DEF Taken, TransferRecord
    <2> HIDE DEF b
    <2>3. Own(b)
      BY <1>1, <2>1, <2>2 DEF Own, Ended
    <2>4. (Finished(old) => Finished(b)) /\ Ended(b)
      BY <2>1, <2>2 DEF Finished, Ended
    <2> QED BY <2>2, <2>3, <2>4 DEF Kept, Same, b
  <1> QED BY <1>4, <1>5, <1>6, QuietStep

(* The cleanup of a cancel is answered.                                    *)
LEMMA CancelCleanedUpStep ==
  ASSUME IInv, NEW t \in DOMAIN transfers, CancelCleanedUp(t)
  PROVE  IInv'
  <1> DEFINE old == transfers[t]
  <1>1. old \in TransferRecord /\ Own(old) /\ old.inbox # <<>>
    BY KeptPage DEF CancelCleanedUp, Answers
  <1>2. UNCHANGED pages /\ (Becomes(t, terminate(old)) \/ Becomes(t, Taken(old)))
    BY DEF CancelCleanedUp
  <1>3. Kept(old, Taken(old))
    BY <1>1, TakenKept
  <1>4. Kept(old, terminate(old))
    <2>1. /\ Same(old, terminate(old)) /\ terminate(old).pc = old.pc
          /\ terminate(old).ring = old.ring /\ Silent(terminate(old).inbox)
      BY <1>1, TerminateFacts DEF Own
    <2> QED BY <2>1 DEF Kept, Ended, Finished
  <1> QED BY <1>2, <1>3, <1>4, QuietStep

(* A worker starts, or cannot.                                             *)
LEMMA WorkerStep ==
  ASSUME IInv, NEW t \in DOMAIN transfers, WorkerStarts(t)
  PROVE  IInv'
  <1> DEFINE old == transfers[t]
  <1>1. old \in TransferRecord /\ Own(old)
    BY KeptPage
  <1>2. PICK state \in {"up", "broken", "failed"} :
          transfers' = [transfers EXCEPT ![t].worker = state]
    BY DEF WorkerStarts
  <1> DEFINE b == [old EXCEPT !.worker = state]
  <1>3. /\ b \in TransferRecord /\ b.page = old.page /\ b.kind = old.kind
        /\ b.cancelled = old.cancelled /\ b.pc = old.pc /\ b.inbox = old.inbox /\ b.ring = old.ring
    BY <1>1 DEF TransferRecord
  <1>4. Becomes(t, b) /\ UNCHANGED pages
    BY <1>2 DEF WorkerStarts, Becomes
  <1> HIDE DEF b
  <1>5. Kept(old, b)
    BY <1>1, <1>3, SameParts DEF Kept, Ended, Finished
  <1> QED BY <1>4, <1>5, QuietStep
-----------------------------------------------------------------------------
(* Steps of the user *)

(* A transfer that starts.                                                 *)
LEMMA TransferFacts ==
  ASSUME IInv, NEW kind \in Kinds, NEW big \in BOOLEAN
  PROVE  /\ Transfer(kind, big) \in TransferRecord /\ Own(Transfer(kind, big))
         /\ Transfer(kind, big).page = Shown /\ Transfer(kind, big).kind = kind
         /\ ~Transfer(kind, big).cancelled
  <1> DEFINE r == createProgressRing
             b == [page |-> Shown, kind |-> kind, big |-> big, ring |-> r,
                   pc |-> IF kind = "upload" THEN "read" ELSE "download",
                   worker |-> "starting", inbox |-> <<>>, agent |-> TRUE, left |-> Chunks,
                   cancelled |-> FALSE]
  <1>1. r \in Rings
    BY DEF createProgressRing, Rings
  <1> HIDE DEF r
  <1>2. Shown \in Nat /\ Chunks \in Int /\ <<>> \in Seq(Messages)
    BY ShownFacts, PageConstants, EmptySeq
  <1>3. b \in TransferRecord
    BY <1>1, <1>2 DEF TransferRecord, Pcs
  <1>4. Own(b)
    BY DEF Own, Ended, Kinds
  <1>5. Transfer(kind, big) = b
    BY DEF Transfer, r
  <1> QED BY <1>3, <1>4, <1>5

(* A file is chosen.                                                       *)
LEMMA StartUploadStep ==
  ASSUME IInv, StartUpload
  PROVE  IInv'
  <1> DEFINE pg == [pages[Shown] EXCEPT !.aborted = FALSE, !.stage = "progress",
                                        !.by = Len(transfers) + 1, !.cancel = Len(transfers) + 1]
  <1>1. PICK big \in BOOLEAN : transfers' = Append(transfers, Transfer("upload", big))
    BY DEF StartUpload
  <1>2. pages[Shown] \in PageRecord /\ Len(transfers) + 1 \in Nat
    BY ShownFacts
  <1>3. /\ pg \in PageRecord /\ pg.kind = pages[Shown].kind /\ ~pg.aborted /\ pg.stage = "progress"
        /\ pg.complete = pages[Shown].complete /\ pg.by = Len(transfers) + 1 /\ pg.cancel = pg.by
    BY <1>2 DEF PageRecord, Stages
  <1>4. Show(pg) /\ pages[Shown].kind = "upload" /\ pages[Shown].stage = "dropZone"
    BY DEF StartUpload, On
  <1> HIDE DEF pg
  <1>5. /\ Transfer("upload", big) \in TransferRecord /\ Own(Transfer("upload", big))
        /\ Transfer("upload", big).page = Shown /\ Transfer("upload", big).kind = "upload"
        /\ ~Transfer("upload", big).cancelled
    BY TransferFacts DEF Kinds
  <1> QED BY <1>1, <1>3, <1>4, <1>5, StartStep

(* A download is started.                                                  *)
LEMMA StartDownloadStep ==
  ASSUME IInv, StartDownload
  PROVE  IInv'
  <1> DEFINE pg == [pages[Shown] EXCEPT !.stage = "progress", !.by = Len(transfers) + 1]
  <1>1. PICK big \in BOOLEAN : transfers' = Append(transfers, Transfer("download", big))
    BY DEF StartDownload
  <1>2. pages[Shown] \in PageRecord /\ Len(transfers) + 1 \in Nat
    BY ShownFacts
  <1>3. /\ pg \in PageRecord /\ pg.kind = pages[Shown].kind /\ pg.aborted = pages[Shown].aborted
        /\ pg.stage = "progress" /\ pg.complete = pages[Shown].complete
        /\ pg.by = Len(transfers) + 1 /\ pg.cancel = pages[Shown].cancel
    BY <1>2 DEF PageRecord, Stages
  <1>4. Show(pg) /\ pages[Shown].kind = "download" /\ pages[Shown].stage = "ready"
    BY DEF StartDownload, On
  <1>5. ~pages[Shown].aborted
    BY <1>4, ShownFacts DEF PageInv
  <1> HIDE DEF pg
  <1>6. /\ Transfer("download", big) \in TransferRecord /\ Own(Transfer("download", big))
        /\ Transfer("download", big).page = Shown /\ Transfer("download", big).kind = "download"
        /\ ~Transfer("download", big).cancelled
    BY TransferFacts DEF Kinds
  <1> QED BY <1>1, <1>3, <1>4, <1>5, <1>6, StartStep

(* A file is refused.                                                      *)
LEMMA RefuseStep ==
  ASSUME IInv, RefuseFile
  PROVE  IInv'
  <1> DEFINE pg == [pages[Shown] EXCEPT !.aborted = FALSE, !.stage = "error", !.by = 0]
  <1>1. pages[Shown] \in PageRecord
    BY ShownFacts
  <1>2. /\ pg \in PageRecord /\ pg.kind = pages[Shown].kind /\ ~pg.aborted /\ pg.stage = "error"
        /\ pg.complete = pages[Shown].complete /\ pg.by = 0 /\ pg.cancel = pages[Shown].cancel
    BY <1>1 DEF PageRecord, Stages
  <1>3. Show(pg) /\ pages[Shown].stage = "dropZone" /\ UNCHANGED transfers
    BY DEF RefuseFile, On
  <1> HIDE DEF pg
  <1> QED BY <1>2, <1>3, IdlePageStep

(* An error is dismissed.                                                  *)
LEMMA RetryStep ==
  ASSUME IInv, Retry
  PROVE  IInv'
  <1> DEFINE stage == IF pages[Shown].kind = "upload" THEN "dropZone" ELSE "ready"
             pg == [pages[Shown] EXCEPT !.stage = stage]
  <1>1. pages[Shown] \in PageRecord /\ PageInv(Shown)
    BY ShownFacts
  <1>2. /\ pg \in PageRecord /\ pg.kind = pages[Shown].kind /\ pg.aborted = pages[Shown].aborted
        /\ pg.stage = stage /\ pg.complete = pages[Shown].complete /\ pg.by = pages[Shown].by
        /\ pg.cancel = pages[Shown].cancel
    BY <1>1 DEF PageRecord, Stages
  <1>3. Show(pg) /\ pages[Shown].stage = "error" /\ UNCHANGED transfers
    BY DEF Retry
  <1>4. ~pages[Shown].aborted
    BY <1>1, <1>3 DEF PageInv
  <1> HIDE DEF pg
  <1> QED BY <1>2, <1>3, <1>4, IdlePageStep

(* An upload is cancelled, also while its ring is filled.                  *)
LEMMA CancelledStep ==
  ASSUME IInv, Cancel
  PROVE  IInv'
  <1> DEFINE c == pages[Shown].cancel
             rec == transfers[c]
             a == [rec EXCEPT !.ring = destroy(rec.ring), !.cancelled = TRUE, !.agent = FALSE]
             cancelled == Post(a, "cancel")
             pg == [pages[Shown] EXCEPT !.aborted = TRUE, !.stage = "dropZone"]
  <1>1. /\ pages[Shown].kind = "upload" /\ pages[Shown].stage = "progress" /\ c # 0
        /\ Show(pg)
        /\ Becomes(c, Finally(cancelled)) \/ Becomes(c, cancelled)
    BY DEF Cancel, On
  <1>2. c \in TransfersOf(Shown) /\ pages[Shown] \in PageRecord
    BY <1>1, ShownFacts DEF IInv, Linked
  <1>3. c \in DOMAIN transfers /\ rec.page = Shown
    BY <1>2 DEF TransfersOf
  <1>4. rec \in TransferRecord /\ Own(rec) /\ rec.kind = "upload" /\ rec.ring \in Rings
    BY <1>1, <1>3, KeptPage DEF PageOf, TransferRecord
  <1>5. destroy(rec.ring) \in Rings
    BY <1>4, RingFacts
  <1>6. /\ a \in TransferRecord /\ a.page = rec.page /\ a.kind = "upload" /\ a.cancelled
        /\ a.pc = rec.pc
    BY <1>4, <1>5 DEF TransferRecord
  <1> HIDE DEF a
  <1>7. /\ cancelled \in TransferRecord /\ cancelled.page = rec.page /\ cancelled.kind = "upload"
        /\ cancelled.cancelled /\ cancelled.pc = rec.pc
    BY <1>6, PostFacts DEF Messages
  <1> HIDE DEF cancelled
  <1>8. /\ Finally(cancelled) \in TransferRecord /\ Finally(cancelled).page = rec.page
        /\ Finally(cancelled).kind = "upload" /\ Finally(cancelled).cancelled
        /\ Ended(Finally(cancelled))
    BY <1>7, FinallyFacts
  <1>9. Own(cancelled) /\ (Ended(rec) => Ended(cancelled))
    BY <1>4, <1>7 DEF Own, Ended
  <1>10. Own(Finally(cancelled))
    BY <1>8 DEF Own, Ended
  <1>11. /\ pg \in PageRecord /\ pg.kind = pages[Shown].kind /\ pg.aborted /\ pg.stage = "dropZone"
         /\ pg.cancel = c /\ pg.complete = pages[Shown].complete /\ pg.by = pages[Shown].by
    BY <1>2 DEF PageRecord, Stages
  <1> HIDE DEF pg
  <1>12. PICK b : Becomes(c, b) /\ b \in {cancelled, Finally(cancelled)}
    BY <1>1
  <1>13. /\ b \in TransferRecord /\ Own(b) /\ b.cancelled /\ b.page = transfers[c].page
         /\ b.kind = transfers[c].kind /\ (Ended(transfers[c]) => Ended(b))
    BY <1>4, <1>7, <1>8, <1>9, <1>10, <1>12
  <1> QED BY <1>1, <1>11, <1>12, <1>13, CancelStep

(* What is rendered for a fragment.                                        *)
LEMMA NewPageFacts ==
  ASSUME NEW hash
  PROVE  /\ initUpload \in PageRecord /\ initApp(hash, Here) \in PageRecord
         /\ \A pg \in {initUpload, initApp(hash, Here)} :
              ~pg.aborted /\ ~pg.complete /\ pg.stage # "progress" /\ pg.by = 0 /\ pg.cancel = 0
  <1>1. ASSUME NEW kind \in Kinds, NEW stage \in Stages \ {"progress"}
        PROVE  LET pg == Page(kind, stage) IN
               /\ pg \in PageRecord
               /\ ~pg.aborted /\ ~pg.complete /\ pg.stage # "progress" /\ pg.by = 0 /\ pg.cancel = 0
    BY EmptySeq DEF Page, PageRecord
  <1>2. initUpload = Page("upload", "dropZone")
    BY DEF initUpload
  <1>3. initDownload(hash, Here) \in {Page("download", "invalid"), Page("download", "wrongServer"),
                                      Page("download", "ready")}
    BY DEF initDownload, DownloadPage
  <1>4. initApp(hash, Here) \in {initDownload(hash, Here), initUpload}
    BY DEF initApp
  <1> QED BY <1>1, <1>2, <1>3, <1>4 DEF Kinds, Stages

(* A finished download leads to the upload page.                           *)
LEMMA UploadYourFileStep ==
  ASSUME IInv, UploadYourFile
  PROVE  IInv'
  BY NewPageFacts, NewPageStep DEF UploadYourFile

(* The fragment changes.                                                   *)
LEMMA HashStep ==
  ASSUME IInv, NEW hash, HashChange(hash)
  PROVE  IInv'
  BY NewPageFacts, NewPageStep DEF HashChange
-----------------------------------------------------------------------------
(* The invariant *)

(* The first page.                                                         *)
LEMMA InitPages == Init => IInv
  <1> SUFFICES ASSUME Init PROVE IInv
    OBVIOUS
  <1>1. PICK hash \in Hash : pages = <<initApp(hash, Here)>>
    BY DEF Init
  <1> DEFINE pg == initApp(hash, Here)
  <1>2. /\ pg \in PageRecord /\ ~pg.aborted /\ ~pg.complete /\ pg.stage # "progress"
        /\ pg.by = 0 /\ pg.cancel = 0
    BY NewPageFacts
  <1>3. pages = <<pg>> /\ transfers = <<>>
    BY <1>1 DEF Init
  <1> HIDE DEF pg
  <1>4. /\ pages \in Seq(PageRecord) /\ pages # <<>> /\ DOMAIN pages = {1} /\ pages[1] = pg
        /\ DOMAIN transfers = {} /\ transfers \in Seq(TransferRecord)
    BY <1>2, <1>3, EmptySeq
  <1>5. \A p : TransfersOf(p) = {}
    BY <1>4 DEF TransfersOf
  <1>6. Linked
    BY <1>2, <1>4 DEF Linked
  <1>7. PageInv(1)
    BY <1>2, <1>4, <1>5 DEF PageInv
  <1> QED BY <1>4, <1>6, <1>7 DEF IInv, TypeOK

(* Every step keeps the invariant.                                         *)
LEMMA NextPages == IInv /\ [Next]_vars => IInv'
  <1> SUFFICES ASSUME IInv, [Next]_vars PROVE IInv'
    OBVIOUS
  <1>1. CASE StartUpload \/ RefuseFile \/ Cancel \/ StartDownload \/ Retry \/ UploadYourFile
    BY <1>1, StartUploadStep, RefuseStep, CancelledStep, StartDownloadStep, RetryStep, UploadYourFileStep
  <1>2. CASE \E hash \in Hash : HashChange(hash)
    BY <1>2, HashStep
  <1>3. ASSUME NEW t \in DOMAIN transfers,
               WorkerStarts(t) \/ Progress(t) \/ CommandFails(t) \/ Animation(t) \/ CancelCleanedUp(t)
        PROVE  IInv'
    BY <1>3, WorkerStep, ProgressStep, CommandFailsStep, FillFrameStep, TickStep, CancelCleanedUpStep
       DEF Animation
  <1>4. ASSUME NEW t \in DOMAIN transfers, Steps(t)
        PROVE  IInv'
    BY <1>4, FileReadStep, EncryptedStep, ChunkReadStep, ChunkPutStep, UploadedStep, FetchedStep,
       ChunkStoredStep, DecryptedStep, LateAnswerStep, CleanedUpStep DEF Steps
  <1>5. CASE UNCHANGED vars
    <2>1. pages' = pages /\ transfers' = transfers
      BY <1>5 DEF vars
    <2>2. /\ \A p : TransfersOf(p)' = TransfersOf(p)
          /\ \A p, b : LastOf(p, b)' = LastOf(p, b)
          /\ \A p : Clean(p)' = Clean(p)
      BY <2>1 DEF TransfersOf, LastOf, Clean
    <2>3. \A p \in DOMAIN pages : PageInv(p)'
      BY <2>1, <2>2 DEF IInv, PageInv
    <2>4. TypeOK' /\ Linked'
      BY <2>1, <2>2 DEF IInv, TypeOK, Linked
    <2> QED BY <2>1, <2>3, <2>4 DEF IInv
  <1> QED BY <1>1, <1>2, <1>3, <1>4, <1>5 DEF Next

(* For all servers, links, chunks, pages and transfers: a page shows an    *)
(* error, a link or a saved file only of the last transfer it started, and *)
(* not of one that was cancelled, and a saved file with a full ring,       *)
(* whatever the other transfers of this and of replaced pages, their       *)
(* workers, and the frames of their rings still do (ShowsItsTransfer).     *)
THEOREM PagesShowTheirTransfers == Spec => []ShowsItsTransfer
  <1>1. IInv => ShowsItsTransfer
    <2> SUFFICES ASSUME IInv, NEW p \in DOMAIN pages, pages[p].by # 0, ~Restarted(p)
                 PROVE  /\ \A t \in TransfersOf(p) : t <= pages[p].by
                        /\ pages[p].stage \in {"complete", "error"} => ~transfers[pages[p].by].cancelled
                        /\ pages[p].complete => transfers[pages[p].by].ring.displayed = 100
      BY DEF ShowsItsTransfer
    <2>1. PageInv(p) /\ pages[p].by \in TransfersOf(p)
      BY DEF IInv, Linked
    <2>2. pages[p].aborted \/ Clean(p)
      BY DEF Restarted, Clean
    <2>3. LastOf(p, pages[p].by)
      BY <2>1, <2>2 DEF PageInv
    <2>4. pages[p].stage \in {"complete", "error"} => Clean(p)
      BY <2>1, <2>2 DEF PageInv
    <2> QED BY <2>1, <2>3, <2>4 DEF PageInv, LastOf, Clean, Finished
  <1> QED BY <1>1, InitPages, NextPages, PTL DEF Spec

-----------------------------------------------------------------------------
(* The link of an upload *)

(* Every set of numbers that is not empty has a least one: the intervals up *)
(* to its members are finite sets, among which the inclusion is well founded. *)
LEMMA LeastNumber ==
  ASSUME NEW T \in SUBSET Nat, T # {}
  PROVE  \E n \in T : \A m \in T : n <= m
<1> DEFINE Below == {0..n : n \in T}
<1>1. \A n \in Nat : 0..n \in FiniteSubsetsOf(Nat)
  BY FS_Interval DEF FiniteSubsetsOf
<1>2. Below \subseteq FiniteSubsetsOf(Nat) /\ Below # {}
  BY <1>1
<1>3. \E x \in Below : \A y \in Below : <<y, x>> \notin StrictSubsetOrdering(Nat)
  BY <1>2, FS_StrictSubsetOrderingWellFounded, WFMin
<1>4. PICK n \in T : \A m \in T : <<0..m, 0..n>> \notin StrictSubsetOrdering(Nat)
  BY <1>3
<1>5. ASSUME NEW m \in T, m < n PROVE FALSE
  <2>1. 0..m \subseteq 0..n /\ n \in 0..n /\ n \notin 0..m
    BY <1>5
  <2>2. 0..m \in SUBSET Nat /\ 0..n \in SUBSET Nat /\ 0..m # 0..n
    BY <2>1
  <2>3. <<0..m, 0..n>> \in StrictSubsetOrdering(Nat)
    BY <2>1, <2>2 DEF StrictSubsetOrdering
  <2>. QED BY <1>4, <2>3
<1>. QED BY <1>5

(* Induction over the numbers, for a set instead of a predicate. *)
LEMMA Induction ==
  ASSUME NEW T, 0 \in T, \A n \in Nat : n \in T => n + 1 \in T
  PROVE  Nat \subseteq T
<1>1. ASSUME Nat \ T # {} PROVE FALSE
  <2>1. PICK n \in Nat \ T : \A m \in Nat \ T : n <= m
    BY <1>1, LeastNumber
  <2>2. n # 0 /\ n - 1 \in Nat
    BY <2>1
  <2>3. n - 1 \in T
    BY <2>1, <2>2
  <2>. QED BY <2>1, <2>2, <2>3
<1>. QED BY <1>1

(* A finite set of numbers that is not empty has a greatest one. *)
LEMMA GreatestNumber ==
  ASSUME NEW n \in Nat, NEW S \in SUBSET (1..n), S # {}
  PROVE  \E x \in S : \A y \in S : y <= x
<1> DEFINE T == {n - x : x \in S}
<1>1. \A x \in S : n - x \in Nat
  OBVIOUS
<1>2. PICK d \in T : \A e \in T : d <= e
  <2>1. T \in SUBSET Nat
    BY <1>1
  <2>2. T # {}
    OBVIOUS
  <2>. QED BY <2>1, <2>2, LeastNumber
<1>3. PICK x \in S : d = n - x
  BY <1>2
<1>4. \A y \in S : n - x <= n - y
  BY <1>2, <1>3
<1>. QED BY <1>4

(* One server after the other: getDescriptionServers adds those it has not  *)
(* met.                                                                      *)
AddServer(acc, s) == IF s \in D!ToSet(acc) THEN acc ELSE Append(acc, s)

(* A list of servers stays one, and is not empty then. *)
LEMMA AddServerFacts ==
  ASSUME NEW V, NEW acc \in Seq(V), NEW s \in V
  PROVE  AddServer(acc, s) \in Seq(V) /\ AddServer(acc, s) # <<>>
<1>1. CASE s \in D!ToSet(acc)
  BY <1>1 DEF AddServer, D!ToSet
<1>2. CASE s \notin D!ToSet(acc)
  <2>1. Append(acc, s) \in Seq(V) /\ Len(Append(acc, s)) = Len(acc) + 1 /\ Len(acc) \in Nat
    OBVIOUS
  <2>2. Append(acc, s) # <<>>
    BY <2>1
  <2>. QED BY <1>2, <2>1, <2>2 DEF AddServer
<1>. QED BY <1>1, <1>2

(* A description that names servers at all has a first one.                  *)
LEMMA FoldNames ==
  ASSUME NEW V, NEW q \in Seq(V), q # <<>>
  PROVE  LET named == D!FoldLeft(LAMBDA acc, s : IF s \in D!ToSet(acc) THEN acc
                                                 ELSE Append(acc, s), <<>>, q)
         IN  named \in Seq(V) /\ named # <<>>
<1> DEFINE N == DOMAIN q
           Rule(h, X) == h = [s \in SUBSET X |-> IF s = {} THEN <<>> ELSE AddServer(h[s \ {D!Max(s)}], q[D!Max(s)])]
           P(m) == m <= Len(q) => \E h : Rule(h, 1..m)
<1>0. N = 1..Len(q) /\ Len(q) \in Nat
  OBVIOUS
<1> HIDE DEF N
<1>1. P(0)
  <2>1. Rule([s \in SUBSET (1..0) |-> <<>>], 1..0)
    OBVIOUS
  <2>. QED BY <2>1
<1>2. ASSUME NEW m \in Nat, P(m) PROVE P(m + 1)
  <2> SUFFICES ASSUME m + 1 <= Len(q) PROVE \E h : Rule(h, 1..(m + 1))
    OBVIOUS
  <2>1. PICK h : Rule(h, 1..m)
    <3>1. m <= Len(q)
      BY <1>0
    <3> HIDE DEF Rule
    <3>. QED BY <1>2, <3>1
  <2> DEFINE g == [s \in SUBSET (1..(m + 1)) |-> IF m + 1 \in s THEN AddServer(h[s \ {m + 1}], q[m + 1]) ELSE h[s]]
  <2>2. ASSUME NEW s \in SUBSET (1..(m + 1)), s # {}
        PROVE  g[s] = AddServer(g[s \ {D!Max(s)}], q[D!Max(s)])
    <3>0. m + 1 \in Nat
      OBVIOUS
    <3>1. PICK x \in s : \A y \in s : y <= x
      BY <2>2, <3>0, GreatestNumber
    <3>2. D!Max(s) \in s /\ \A y \in s : y <= D!Max(s)
      BY <3>1 DEF D!Max
    <3>3. D!Max(s) \in 1..(m + 1)
      BY <3>2
    <3>4. m + 1 \in s => D!Max(s) = m + 1
      BY <3>2, <3>3
    <3>5. CASE m + 1 \in s
      <4>1. s \ {m + 1} \in SUBSET (1..(m + 1)) /\ m + 1 \notin s \ {m + 1}
        OBVIOUS
      <4>2. g[s] = AddServer(h[s \ {m + 1}], q[m + 1]) /\ g[s \ {m + 1}] = h[s \ {m + 1}]
        BY <3>5, <4>1
      <4>. QED BY <3>4, <3>5, <4>2
    <3>6. CASE m + 1 \notin s
      <4>0. \A y \in s : y \in 1..m
        <5>1. \A y \in s : y \in 1..(m + 1) /\ y # m + 1
          BY <3>6
        <5>. QED BY <5>1
      <4>1. s \in SUBSET (1..m) /\ s \ {D!Max(s)} \in SUBSET (1..m)
        BY <4>0
      <4>5. s \ {D!Max(s)} \in SUBSET (1..(m + 1)) /\ m + 1 \notin s \ {D!Max(s)}
        BY <3>6
      <4>2. g[s] = h[s] /\ g[s \ {D!Max(s)}] = h[s \ {D!Max(s)}]
        BY <3>6, <4>5
      <4>3. h[s] = AddServer(h[s \ {D!Max(s)}], q[D!Max(s)])
        BY <2>1, <2>2, <4>1
      <4>. QED BY <4>2, <4>3
    <3>. QED BY <3>5, <3>6
  <2>3. g[{}] = <<>>
    <3>1. h[{}] = <<>>
      BY <2>1
    <3>. QED BY <3>1
  <2>4. Rule(g, 1..(m + 1))
    <3>1. \A s \in SUBSET (1..(m + 1)) : g[s] = IF s = {} THEN <<>> ELSE AddServer(g[s \ {D!Max(s)}], q[D!Max(s)])
      <4> HIDE DEF g
      <4>. QED BY <2>2, <2>3
    <3>2. g = [s \in SUBSET (1..(m + 1)) |-> g[s]]
      OBVIOUS
    <3> HIDE DEF g
    <3>. QED BY <3>1, <3>2
  <2> HIDE DEF g, Rule
  <2>. QED BY <2>4
<1>3. \A m \in Nat : P(m)
  <2> DEFINE T == {m \in Nat : P(m)}
  <2> HIDE DEF P
  <2>1. 0 \in T /\ \A m \in Nat : m \in T => m + 1 \in T
    BY <1>1, <1>2
  <2>2. Nat \subseteq T
    <3> HIDE DEF T
    <3>. QED BY <2>1, Induction
  <2>. QED BY <2>2
<1>4. PICK h : Rule(h, N)
  <2> HIDE DEF Rule
  <2>1. \E h : Rule(h, 1..Len(q))
    BY <1>0, <1>3
  <2>. QED BY <1>0, <2>1
<1> DEFINE named == D!FoldLeft(LAMBDA acc, s : IF s \in D!ToSet(acc) THEN acc ELSE Append(acc, s), <<>>, q)
<1>5. PICK it : Rule(it, N) /\ named = it[N]
  BY <1>4 DEF D!FoldLeft, D!MapThenFoldSet, N, AddServer
<1> HIDE DEF named
<1> DEFINE U(m) == m <= Len(q) => it[1..m] \in Seq(V) /\ (m # 0 => it[1..m] # <<>>)
<1>6. U(0)
  <2>1. 1..0 = {} /\ {} \in SUBSET N
    OBVIOUS
  <2>2. it[{}] = <<>>
    BY <1>5, <2>1
  <2>3. it[1..0] \in Seq(V)
    <3>1. <<>> \in Seq(V)
      OBVIOUS
    <3>. QED BY <2>1, <2>2, <3>1
  <2> HIDE DEF Rule
  <2>. QED BY <2>3
<1>7. ASSUME NEW m \in Nat, U(m) PROVE U(m + 1)
  <2> SUFFICES ASSUME m + 1 <= Len(q)
               PROVE  it[1..(m + 1)] \in Seq(V) /\ it[1..(m + 1)] # <<>>
    OBVIOUS
  <2>1. D!Max(1..(m + 1)) = m + 1
    <3>1. m + 1 \in 1..(m + 1) /\ \A y \in 1..(m + 1) : m + 1 >= y
      OBVIOUS
    <3>2. \A x \in 1..(m + 1) : x >= m + 1 => x = m + 1
      OBVIOUS
    <3>. QED BY <3>1, <3>2 DEF D!Max
  <2>2. \A j \in 1..(m + 1) : j \in 1..Len(q)
    BY <1>0
  <2>3. 1..(m + 1) \in SUBSET N
    BY <1>0, <2>2
  <2>4. 1..(m + 1) # {} /\ (1..(m + 1)) \ {m + 1} = 1..m
    <3>1. m + 1 \in 1..(m + 1)
      OBVIOUS
    <3>2. \A j : j \in 1..m <=> j \in 1..(m + 1) /\ j # m + 1
      OBVIOUS
    <3>. QED BY <3>1, <3>2
  <2>5. it[1..(m + 1)] = AddServer(it[1..m], q[m + 1])
    BY <1>5, <2>1, <2>3, <2>4
  <2>6. it[1..m] \in Seq(V) /\ q[m + 1] \in V
    BY <1>0, <1>7, <2>2
  <2> HIDE DEF Rule
  <2>. QED BY <2>5, <2>6, AddServerFacts
<1>8. \A m \in Nat : U(m)
  <2> DEFINE T == {m \in Nat : U(m)}
  <2> HIDE DEF U
  <2>1. 0 \in T /\ \A m \in Nat : m \in T => m + 1 \in T
    BY <1>6, <1>7
  <2>2. Nat \subseteq T
    <3> HIDE DEF T
    <3>. QED BY <2>1, Induction
  <2>. QED BY <2>2
<1>9. it[1..Len(q)] \in Seq(V) /\ it[1..Len(q)] # <<>>
  <2>1. Len(q) # 0
    BY <1>0
  <2>. QED BY <1>0, <1>8, <2>1
<1>. QED BY <1>0, <1>5, <1>9 DEF named

(* Sequences are put together from the first to the last. *)
LEMMA FlattenIs ==
  ASSUME NEW V, NEW q \in Seq(Seq(V)), q # <<>>
  PROVE  \E f : /\ FlattenSeq(q) = f[Len(q)] /\ f[1] = q[1]
                /\ f \in [1..Len(q) -> Seq(V)]
                /\ \A i \in 2..Len(q) : f[i] = f[i - 1] \o q[i]
<1> DEFINE Rule(f, n) == f = [i \in 1..n |-> IF i = 1 THEN q[i] ELSE f[i - 1] \o q[i]]
           P(m) == m <= Len(q) => \E f : Rule(f, m)
<1>0. Len(q) \in Nat /\ Len(q) # 0 /\ \A i \in 1..Len(q) : q[i] \in Seq(V)
  OBVIOUS
<1>1. P(0)
  <2>1. Rule(<<>>, 0)
    OBVIOUS
  <2>. QED BY <2>1
<1>2. ASSUME NEW m \in Nat, P(m) PROVE P(m + 1)
  <2> SUFFICES ASSUME m + 1 <= Len(q) PROVE \E f : Rule(f, m + 1)
    OBVIOUS
  <2>1. PICK f : Rule(f, m)
    <3>1. m <= Len(q)
      BY <1>0
    <3> HIDE DEF Rule
    <3>. QED BY <1>2, <3>1
  <2> DEFINE g == [i \in 1..(m + 1) |-> IF i = m + 1 THEN IF i = 1 THEN q[i] ELSE f[i - 1] \o q[i] ELSE f[i]]
  <2>2. ASSUME NEW i \in 1..(m + 1) PROVE g[i] = IF i = 1 THEN q[i] ELSE g[i - 1] \o q[i]
    <3>1. i # 1 => i - 1 \in 1..(m + 1) /\ i - 1 # m + 1
      OBVIOUS
    <3>2. i # 1 => g[i - 1] = f[i - 1]
      BY <3>1
    <3>3. CASE i = m + 1
      BY <3>2, <3>3
    <3>4. CASE i # m + 1
      <4>1. i \in 1..m /\ g[i] = f[i]
        BY <3>4
      <4>2. f[i] = IF i = 1 THEN q[i] ELSE f[i - 1] \o q[i]
        BY <2>1, <4>1
      <4>. QED BY <3>2, <4>1, <4>2
    <3>. QED BY <3>3, <3>4
  <2>3. g = [i \in 1..(m + 1) |-> g[i]]
    OBVIOUS
  <2>4. Rule(g, m + 1)
    <3> HIDE DEF g
    <3>. QED BY <2>2, <2>3
  <2> HIDE DEF g, Rule
  <2>. QED BY <2>4
<1>3. \A m \in Nat : P(m)
  <2> DEFINE T == {m \in Nat : P(m)}
  <2> HIDE DEF P
  <2>1. 0 \in T /\ \A m \in Nat : m \in T => m + 1 \in T
    BY <1>1, <1>2
  <2>2. Nat \subseteq T
    <3> HIDE DEF T
    <3>. QED BY <2>1, Induction
  <2>. QED BY <2>2
<1>4. PICK h : Rule(h, Len(q))
  <2> HIDE DEF Rule
  <2>. QED BY <1>0, <1>3
<1>5. PICK f : Rule(f, Len(q)) /\ FlattenSeq(q) = f[Len(q)]
  BY <1>0, <1>4 DEF FlattenSeq
<1>6. f[1] = q[1] /\ \A i \in 2..Len(q) : f[i] = f[i - 1] \o q[i]
  <2>1. \A i \in 1..Len(q) : f[i] = IF i = 1 THEN q[i] ELSE f[i - 1] \o q[i]
    BY <1>5
  <2>2. 1 \in 1..Len(q) /\ \A i \in 2..Len(q) : i \in 1..Len(q) /\ i # 1
    BY <1>0
  <2> HIDE DEF Rule
  <2>. QED BY <2>1, <2>2
<1>7. DOMAIN f = 1..Len(q) /\ f = [i \in DOMAIN f |-> f[i]]
  BY <1>5
<1> HIDE DEF Rule
<1> DEFINE U(m) == m + 1 <= Len(q) => f[m + 1] \in Seq(V)
<1>8. U(0)
  BY <1>0, <1>6
<1>9. ASSUME NEW m \in Nat, U(m) PROVE U(m + 1)
  <2> SUFFICES ASSUME (m + 1) + 1 <= Len(q) PROVE f[(m + 1) + 1] \in Seq(V)
    OBVIOUS
  <2>1. (m + 1) + 1 \in 2..Len(q) /\ m + 1 <= Len(q) /\ ((m + 1) + 1) - 1 = m + 1 /\ (m + 1) + 1 \in 1..Len(q)
    BY <1>0
  <2>2. f[(m + 1) + 1] = f[m + 1] \o q[(m + 1) + 1]
    BY <1>6, <2>1
  <2>. QED BY <1>0, <1>9, <2>1, <2>2
<1>10. \A m \in Nat : U(m)
  <2> DEFINE T == {m \in Nat : U(m)}
  <2> HIDE DEF U
  <2>1. 0 \in T /\ \A m \in Nat : m \in T => m + 1 \in T
    BY <1>8, <1>9
  <2>2. Nat \subseteq T
    <3> HIDE DEF T
    <3>. QED BY <2>1, Induction
  <2>. QED BY <2>2
<1>11. \A i \in 1..Len(q) : f[i] \in Seq(V)
  <2> TAKE i \in 1..Len(q)
  <2>1. i - 1 \in Nat /\ (i - 1) + 1 = i /\ i <= Len(q)
    BY <1>0
  <2>2. U(i - 1)
    BY <1>10, <2>1
  <2>. QED BY <2>1, <2>2
<1>12. f \in [1..Len(q) -> Seq(V)]
  BY <1>7, <1>11
<1>. QED BY <1>5, <1>6, <1>12

(* A description has a first server: each of its chunks has a replica. *)
LEMMA NamesServers ==
  ASSUME NEW n \in Nat \ {0}, NEW servers \in [1..n -> ToSet(getServers)], NEW b
  PROVE  1 \in DOMAIN D!getDescriptionServers(Described(servers, b))
<1> DEFINE fd == Described(servers, b)
           V == {D!formatXFTPServer(s) : s \in ToSet(getServers)}
           parts == [c \in DOMAIN fd.chunks |->
                       [i \in DOMAIN fd.chunks[c].replicas |-> fd.chunks[c].replicas[i].server]]
<1>1. /\ DOMAIN fd.chunks = 1..n
      /\ \A c \in 1..n :
           fd.chunks[c].replicas = << [server |-> D!formatXFTPServer(servers[c])] >>
  BY DEF Described
<1> HIDE DEF fd
<1>2. \A c \in 1..n : parts[c] = << D!formatXFTPServer(servers[c]) >>
  <2>1. ASSUME NEW c \in 1..n PROVE parts[c] = << D!formatXFTPServer(servers[c]) >>
    <3>1. fd.chunks[c].replicas = << [server |-> D!formatXFTPServer(servers[c])] >>
      BY <1>1
    <3>2. parts[c] = [i \in DOMAIN fd.chunks[c].replicas |-> fd.chunks[c].replicas[i].server]
      BY <1>1
    <3> HIDE DEF parts
    <3>. QED BY <3>1, <3>2
  <2>. QED BY <2>1
<1>3. \A c \in 1..n : D!formatXFTPServer(servers[c]) \in V
  OBVIOUS
<1> HIDE DEF V
<1>4. \A c \in 1..n : parts[c] \in Seq(V) /\ Len(parts[c]) = 1
  <2> HIDE DEF parts
  <2> TAKE c \in 1..n
  <2>1. parts[c] = << D!formatXFTPServer(servers[c]) >> /\ D!formatXFTPServer(servers[c]) \in V
    BY <1>2, <1>3
  <2>. QED BY <2>1
<1>5. parts \in Seq(Seq(V)) /\ Len(parts) = n /\ parts # <<>>
  <2>1. parts = [c \in 1..n |-> parts[c]]
    BY <1>1
  <2> HIDE DEF parts
  <2>2. parts \in [1..n -> Seq(V)]
    BY <1>4, <2>1
  <2>3. parts \in Seq(Seq(V)) /\ Len(parts) = n
    BY <2>2, SeqDef, LenProperties
  <2>. QED BY <2>3
<1> DEFINE all == FlattenSeq(parts)
<1>6. all \in Seq(V) /\ all # <<>>
  <2> HIDE DEF parts
  <2>1. PICK f : /\ FlattenSeq(parts) = f[Len(parts)] /\ f[1] = parts[1]
                 /\ f \in [1..Len(parts) -> Seq(V)]
                 /\ \A i \in 2..Len(parts) : f[i] = f[i - 1] \o parts[i]
    BY <1>5, FlattenIs, Zenon
  <2>2. n \in 1..n /\ 1 \in 1..n /\ Len(parts) = n /\ n \in Nat
    BY <1>5
  <2>3. Len(f[n]) # 0
    <3>1. CASE n = 1
      BY <1>4, <2>1, <2>2, <3>1
    <3>2. CASE n # 1
      <4>1. n \in 2..n /\ n - 1 \in 1..n
        BY <3>2
      <4>2. f[n] = f[n - 1] \o parts[n] /\ f[n - 1] \in Seq(V)
        BY <2>1, <2>2, <4>1
      <4>3. parts[n] \in Seq(V) /\ Len(parts[n]) = 1
        BY <1>4, <2>2
      <4>4. Len(f[n]) = Len(f[n - 1]) + 1 /\ Len(f[n - 1]) \in Nat
        <5>1. \A x, y \in Seq(V) : Len(x \o y) = Len(x) + Len(y) /\ Len(x) \in Nat
          OBVIOUS
        <5>. QED BY <4>2, <4>3, <5>1
      <4>. QED BY <4>4
    <3>. QED BY <3>1, <3>2
  <2>. QED BY <2>1, <2>2, <2>3
<1>7. all = D!FlattenSeq(parts)
  BY DEF FlattenSeq, D!FlattenSeq
<1> DEFINE named == D!FoldLeft(LAMBDA acc, s : IF s \in D!ToSet(acc) THEN acc
                                               ELSE Append(acc, s), <<>>, all)
<1>8. D!getDescriptionServers(fd) = named
  <2>1. named = D!FoldLeft(LAMBDA acc, s : IF s \in D!ToSet(acc) THEN acc
                             ELSE Append(acc, s), <<>>, D!FlattenSeq(parts))
    BY <1>7
  <2>. QED BY <2>1 DEF D!getDescriptionServers
<1>9. named \in Seq(V) /\ named # <<>>
  <2> HIDE DEF all
  <2>. QED BY <1>6, FoldNames
<1>. QED
  <2> HIDE DEF named
  <2>. QED BY <1>8, <1>9 DEF fd

(* A link to a description opens at its own origin. *)
LEMMA LinkOpens ==
  ASSUME NEW fd, 1 \in DOMAIN D!getDescriptionServers(fd)
  PROVE  initApp(LinkTo(fd).hash, LinkTo(fd).host).stage = "ready"
<1>1. 1 \in DOMAIN ServersOf(fd)
  BY DEF ServersOf
<1>2. /\ LinkTo(fd).host = ServersOf(fd)[1].host
      /\ LinkTo(fd).hash = [kind |-> "link", fd |-> <<fd>>]
  BY DEF LinkTo
<1>3. /\ LinkTo(fd).hash.kind = "link" /\ LinkTo(fd).hash.fd = <<fd>>
      /\ LinkTo(fd).hash.fd[1] = fd
  BY <1>2
<1>. QED BY <1>1, <1>2, <1>3 DEF initApp, looksLikeXFTPHash, initDownload, DownloadPage, Page

(* For all servers and chunks: the link of a finished upload, with and     *)
(* without a redirect, points to the host of a server that its description *)
(* names, so the page that opens there is ready to download and does not   *)
(* refuse the link as one of another origin (LinkOpensAtItsOrigin).        *)
THEOREM LinksOpen == Spec => []LinkOpensAtItsOrigin
<1>1. ASSUME NEW link \in Links PROVE initApp(link.hash, link.host).stage = "ready"
  <2>1. CASE \E servers \in [1..Chunks -> ToSet(getServers)] : link = LinkTo(Described(servers, FALSE))
    <3>1. PICK servers \in [1..Chunks -> ToSet(getServers)] : link = LinkTo(Described(servers, FALSE))
      BY <2>1
    <3>2. Chunks \in Nat \ {0}
      BY PageConstants
    <3>. QED BY <3>1, <3>2, NamesServers, LinkOpens
  <2>2. CASE \E s \in ToSet(getServers) : link = LinkTo(Described(<<s>>, TRUE))
    <3>1. PICK s \in ToSet(getServers) : link = LinkTo(Described(<<s>>, TRUE))
      BY <2>2
    <3>2. <<s>> \in [1..1 -> ToSet(getServers)]
      OBVIOUS
    <3>3. 1 \in DOMAIN D!getDescriptionServers(Described(<<s>>, TRUE))
      <4>1. 1 \in Nat \ {0}
        OBVIOUS
      <4>. QED BY <3>2, <4>1, NamesServers, Zenon
    <3>. QED BY <3>1, <3>3, LinkOpens
  <2>. QED BY <2>1, <2>2 DEF Links
<1>2. IInv => LinkOpensAtItsOrigin
  <2> SUFFICES ASSUME IInv, NEW p \in DOMAIN pages, pages[p].url # <<>>
               PROVE  initApp(pages[p].url[1].hash, pages[p].url[1].host).stage = "ready"
    BY DEF LinkOpensAtItsOrigin
  <2>1. pages[p].url \in Seq(Links)
    <3>1. pages \in Seq(PageRecord)
      BY DEF IInv, TypeOK
    <3>2. pages[p] \in PageRecord
      BY <3>1
    <3>. QED BY <3>2 DEF PageRecord
  <2> HIDE DEF IInv
  <2>2. pages[p].url[1] \in Links
    BY <2>1
  <2>. QED BY <1>1, <2>2
<1>. QED BY <1>2, InitPages, NextPages, PTL DEF Spec
=============================================================================
