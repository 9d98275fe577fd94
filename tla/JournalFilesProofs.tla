------------------------- MODULE JournalFilesProofs -------------------------
(***************************************************************************)
(* Proofs about what JournalStore leaves on disk without faults: the       *)
(* journals are those of the state that is recorded when the effects left  *)
(* are done, so that an operation that has ended leaves no other journal   *)
(* (NoneOrphaned).  TInv is kept on top of the invariant of                *)
(* JournalStoreProofs.                                                     *)
(***************************************************************************)
EXTENDS JournalStoreProofs

(* The journals that are left, and their messages, when effects are done.  *)
RemovedBy(E) == {e.j : e \in {x \in E : x.do = "remove"}}
CreatedBy(E) == {e.j : e \in {x \in E : x.do = "create"}}
LeftBy(E) == (DOMAIN files \cup CreatedBy(E)) \ RemovedBy(E)

LinesOf(E) == {e.st : e \in {x \in E : x.do = "line"}}
Retires(E) == \E e \in E : e.do = "retire"

Length(j) == IF Exists(j) THEN Len(files[j]) ELSE 0
PutsOn(E, j) == IF \E e \in E : e.do = "put" /\ e.j = j THEN 1 ELSE 0
Count(st, j) == IF j = st.rj THEN st.rcount ELSE st.wcount

(* They are the journals of a state, with the messages that it counts. *)
Fits(st, E) ==
    /\ LeftBy(E) = {st.rj, st.wj}
    /\ \A j \in LeftBy(E) : Length(j) + PutsOn(E, j) = Count(st, j)

(* Without faults, the effects left lead to the journals of the state that  *)
(* is recorded in the end, and to none if no state is.                      *)
Tidy(E) ==
    /\ CreatedBy(E) \cap RemovedBy(E) = {}
    /\ \A st \in LinesOf(E) : Fits(st, E)
    /\ Retires(E) => LeftBy(E) = {}
    /\ LinesOf(E) = {} /\ ~Retires(E) =>
         IF Rec = <<>> THEN LeftBy(E) = {} ELSE Fits(Rec[1], E)
    /\ \A e \in E : e.do = "fix" => e.j \in LeftBy(E) /\ Length(e.j) = e.pos

(* A closed queue known to store nothing. *)
Unstored ==
    ~mem.open /\ qstate # <<>> /\ ~qstate[1].hasStored => \A j \in DOMAIN files : files[j] = <<>>

TInv == faults = <<>> => Tidy(Range(todo)) /\ Unstored

-----------------------------------------------------------------------------
(* Lists and sets of effects *)

IsList(k) == \E S : k \in Seq(S)

(* The effects of short lists, and of lists that follow each other. *)
LEMMA RangeOf ==
    /\ IsList(<<>>) /\ Range(<<>>) = {}
    /\ \A a : IsList(<<a>>) /\ Range(<<a>>) = {a}
    /\ \A a, b : IsList(<<a, b>>) /\ Range(<<a, b>>) = {a, b}
    /\ \A a, b, c : IsList(<<a, b, c>>) /\ Range(<<a, b, c>>) = {a, b, c}
    /\ \A a, b, c, d : IsList(<<a, b, c, d>>) /\ Range(<<a, b, c, d>>) = {a, b, c, d}
<1>1. IsList(<<>>) /\ Range(<<>>) = {}
  <2>1. <<>> \in Seq({})
    OBVIOUS
  <2>. QED  BY <2>1 DEF IsList, Range
<1>2. ASSUME NEW a
      PROVE  IsList(<<a>>) /\ Range(<<a>>) = {a}
  <2>1. <<a>> \in Seq({a}) /\ DOMAIN <<a>> = {1} /\ <<a>>[1] = a
    OBVIOUS
  <2>. QED  BY <2>1 DEF IsList, Range
<1>3. ASSUME NEW a, NEW b
      PROVE  IsList(<<a, b>>) /\ Range(<<a, b>>) = {a, b}
  <2>1. <<a, b>> \in Seq({a, b}) /\ DOMAIN <<a, b>> = {1, 2} /\ <<a, b>>[1] = a /\ <<a, b>>[2] = b
    OBVIOUS
  <2>. QED  BY <2>1 DEF IsList, Range
<1>4. ASSUME NEW a, NEW b, NEW c
      PROVE  IsList(<<a, b, c>>) /\ Range(<<a, b, c>>) = {a, b, c}
  <2>1. /\ <<a, b, c>> \in Seq({a, b, c}) /\ DOMAIN <<a, b, c>> = {1, 2, 3}
        /\ <<a, b, c>>[1] = a /\ <<a, b, c>>[2] = b /\ <<a, b, c>>[3] = c
    OBVIOUS
  <2>. QED  BY <2>1 DEF IsList, Range
<1>5. ASSUME NEW a, NEW b, NEW c, NEW d
      PROVE  IsList(<<a, b, c, d>>) /\ Range(<<a, b, c, d>>) = {a, b, c, d}
  <2>1. /\ <<a, b, c, d>> \in Seq({a, b, c, d}) /\ DOMAIN <<a, b, c, d>> = {1, 2, 3, 4}
        /\ <<a, b, c, d>>[1] = a /\ <<a, b, c, d>>[2] = b
        /\ <<a, b, c, d>>[3] = c /\ <<a, b, c, d>>[4] = d
    OBVIOUS
  <2>. QED  BY <2>1 DEF IsList, Range
<1>. QED  BY <1>1, <1>2, <1>3, <1>4, <1>5

(* One list after another. *)
LEMMA RangeJoined ==
    ASSUME NEW a, NEW b, IsList(a), IsList(b)
    PROVE  IsList(a \o b) /\ Range(a \o b) = Range(a) \cup Range(b)
<1>1. PICK S : a \in Seq(S)
  BY DEF IsList
<1>2. PICK U : b \in Seq(U)
  BY DEF IsList
<1>3. /\ Len(a) \in Nat /\ Len(b) \in Nat /\ DOMAIN a = 1..Len(a) /\ DOMAIN b = 1..Len(b)
      /\ a \o b \in Seq(S \cup U) /\ Len(a \o b) = Len(a) + Len(b)
      /\ DOMAIN (a \o b) = 1..(Len(a) + Len(b))
      /\ \A i \in 1..(Len(a) + Len(b)) :
           (a \o b)[i] = IF i <= Len(a) THEN a[i] ELSE b[i - Len(a)]
  <2>1. a \in Seq(S \cup U) /\ b \in Seq(S \cup U)
    BY <1>1, <1>2
  <2>. QED  BY <2>1
<1> DEFINE s == a \o b
<1> HIDE DEF s
<1>4. \A x \in Range(s) : x \in Range(a) \cup Range(b)
  <2>1. ASSUME NEW i \in 1..(Len(a) + Len(b))
        PROVE  s[i] \in Range(a) \cup Range(b)
    <3>1. CASE i <= Len(a)
      BY <1>3, <3>1 DEF Range, s
    <3>2. CASE ~(i <= Len(a))
      <4>1. i - Len(a) \in 1..Len(b)
        BY <1>3, <3>2
      <4>. QED  BY <1>3, <3>2, <4>1 DEF Range, s
    <3>. QED  BY <3>1, <3>2
  <2>. QED  BY <1>3, <2>1 DEF Range, s
<1>5. \A x \in Range(a) \cup Range(b) : x \in Range(s)
  <2>1. ASSUME NEW i \in 1..Len(a)
        PROVE  a[i] \in Range(s)
    <3>1. i \in 1..(Len(a) + Len(b))
      BY <1>3
    <3>. QED  BY <1>3, <3>1 DEF Range, s
  <2>2. ASSUME NEW i \in 1..Len(b)
        PROVE  b[i] \in Range(s)
    <3>1. i + Len(a) \in 1..(Len(a) + Len(b)) /\ ~(i + Len(a) <= Len(a)) /\ (i + Len(a)) - Len(a) = i
      BY <1>3
    <3>. QED  BY <1>3, <3>1 DEF Range, s
  <2>. QED  BY <1>3, <2>1, <2>2 DEF Range
<1>6. IsList(s)
  BY <1>3 DEF IsList, s
<1>. QED  BY <1>4, <1>5, <1>6 DEF s

(* The first effect of a list, and those left. *)
LEMMA RangeCons ==
    ASSUME NEW e, NEW k, IsList(k), NEW l, l = <<e>> \o k
    PROVE  /\ IsList(l) /\ l # <<>> /\ Head(l) = e /\ Tail(l) = k
           /\ Range(l) = {e} \cup Range(k)
<1>1. PICK S : k \in Seq(S)
  BY DEF IsList
<1>2. l # <<>> /\ Head(l) = e /\ Tail(l) = k
  BY <1>1, ConsOne
<1>. QED  BY <1>2, RangeOf, RangeJoined

(* What the effects of two sets do. *)
LEMMA DoneByBoth ==
    ASSUME NEW E, NEW F
    PROVE  /\ RemovedBy(E \cup F) = RemovedBy(E) \cup RemovedBy(F)
           /\ CreatedBy(E \cup F) = CreatedBy(E) \cup CreatedBy(F)
           /\ LinesOf(E \cup F) = LinesOf(E) \cup LinesOf(F)
           /\ Retires(E \cup F) <=> Retires(E) \/ Retires(F)
<1>1. RemovedBy(E \cup F) = RemovedBy(E) \cup RemovedBy(F)
  BY DEF RemovedBy
<1>2. CreatedBy(E \cup F) = CreatedBy(E) \cup CreatedBy(F)
  BY DEF CreatedBy
<1>3. LinesOf(E \cup F) = LinesOf(E) \cup LinesOf(F)
  BY DEF LinesOf
<1>4. Retires(E \cup F) <=> Retires(E) \/ Retires(F)
  BY DEF Retires
<1>. QED  BY <1>1, <1>2, <1>3, <1>4

(* What a single effect does. *)
LEMMA DoneByOne ==
    ASSUME NEW e
    PROVE  /\ RemovedBy({e}) = IF e.do = "remove" THEN {e.j} ELSE {}
           /\ CreatedBy({e}) = IF e.do = "create" THEN {e.j} ELSE {}
           /\ LinesOf({e}) = IF e.do = "line" THEN {e.st} ELSE {}
           /\ Retires({e}) <=> e.do = "retire"
           /\ \A j : PutsOn({e}, j) = IF e.do = "put" /\ e.j = j THEN 1 ELSE 0
<1>1. RemovedBy({e}) = IF e.do = "remove" THEN {e.j} ELSE {}
  BY DEF RemovedBy
<1>2. CreatedBy({e}) = IF e.do = "create" THEN {e.j} ELSE {}
  BY DEF CreatedBy
<1>3. LinesOf({e}) = IF e.do = "line" THEN {e.st} ELSE {}
  BY DEF LinesOf
<1>4. /\ Retires({e}) <=> e.do = "retire"
      /\ \A j : PutsOn({e}, j) = IF e.do = "put" /\ e.j = j THEN 1 ELSE 0
  BY DEF Retires, PutsOn
<1>. QED  BY <1>1, <1>2, <1>3, <1>4

(* Effects that have nothing to do with journals and the recorded state. *)
Plain(E) ==
    \A e \in E : e.do \notin {"create", "remove", "fix", "put", "line", "retire"}

(* They do nothing of the kind. *)
LEMMA PlainDoes ==
    ASSUME NEW E, Plain(E)
    PROVE  /\ RemovedBy(E) = {} /\ CreatedBy(E) = {} /\ LinesOf(E) = {} /\ ~Retires(E)
           /\ \A j : PutsOn(E, j) = 0
           /\ \A F, j : PutsOn(E \cup F, j) = PutsOn(F, j)
<1>1. RemovedBy(E) = {}
  BY DEF Plain, RemovedBy
<1>2. CreatedBy(E) = {}
  BY DEF Plain, CreatedBy
<1>3. LinesOf(E) = {}
  BY DEF Plain, LinesOf
<1>4. ~Retires(E) /\ \A j : PutsOn(E, j) = 0
  BY DEF Plain, Retires, PutsOn
<1>5. ASSUME NEW F, NEW j PROVE PutsOn(E \cup F, j) = PutsOn(F, j)
  BY DEF Plain, PutsOn
<1>. QED  BY <1>1, <1>2, <1>3, <1>4, <1>5

(* Such effects can come with any others. *)
LEMMA PlainFits ==
    ASSUME NEW E, NEW F, Plain(E)
    PROVE  /\ LeftBy(E \cup F) = LeftBy(F)
           /\ \A st : Fits(st, E \cup F) <=> Fits(st, F)
           /\ Tidy(E \cup F) <=> Tidy(F)
<1>1. /\ RemovedBy(E \cup F) = RemovedBy(F) /\ CreatedBy(E \cup F) = CreatedBy(F)
      /\ LinesOf(E \cup F) = LinesOf(F) /\ (Retires(E \cup F) <=> Retires(F))
      /\ \A j : PutsOn(E \cup F, j) = PutsOn(F, j)
  <2>1. /\ RemovedBy(E) = {} /\ CreatedBy(E) = {} /\ LinesOf(E) = {} /\ ~Retires(E)
        /\ \A j : PutsOn(E \cup F, j) = PutsOn(F, j)
    BY PlainDoes
  <2>2. /\ RemovedBy(E \cup F) = RemovedBy(E) \cup RemovedBy(F)
        /\ CreatedBy(E \cup F) = CreatedBy(E) \cup CreatedBy(F)
        /\ LinesOf(E \cup F) = LinesOf(E) \cup LinesOf(F)
        /\ Retires(E \cup F) <=> Retires(E) \/ Retires(F)
    BY DoneByBoth
  <2>. QED  BY <2>1, <2>2
<1>2. LeftBy(E \cup F) = LeftBy(F)
  BY <1>1 DEF LeftBy
<1>3. ASSUME NEW st PROVE Fits(st, E \cup F) <=> Fits(st, F)
  BY <1>1, <1>2 DEF Fits
<1>4. \A e \in E : e.do # "fix"
  BY DEF Plain
<1>5. (\A e \in E \cup F : e.do = "fix" => e.j \in LeftBy(F) /\ Length(e.j) = e.pos)
        <=> (\A e \in F : e.do = "fix" => e.j \in LeftBy(F) /\ Length(e.j) = e.pos)
  BY <1>4
<1>. QED  BY <1>1, <1>2, <1>3, <1>5 DEF Tidy

-----------------------------------------------------------------------------
(* What an effect leaves tidy *)

(* An effect is done: the journals left in the end, their messages, and the *)
(* state recorded in the end are the same.                                  *)
LEMMA TidyNext ==
    ASSUME NEW E, NEW F, Tidy(E),
           CreatedBy(F) \subseteq CreatedBy(E), RemovedBy(F) \subseteq RemovedBy(E),
           LinesOf(F) \subseteq LinesOf(E), Retires(F) => Retires(E),
           LeftBy(F)' = LeftBy(E),
           \A j \in LeftBy(E) : Length(j)' + PutsOn(F, j) = Length(j) + PutsOn(E, j),
           LinesOf(F) = {} /\ ~Retires(F) =>
             IF Rec' = <<>> THEN LeftBy(E) = {} ELSE Fits(Rec'[1], E),
           \A x \in F : x.do = "fix" => x \in E /\ (x.j \in LeftBy(E) => Length(x.j)' = Length(x.j))
    PROVE  Tidy(F)'
<1>1. ASSUME NEW st, Fits(st, E)
      PROVE  Fits(st, F)'
  BY <1>1 DEF Fits, Count
<1>2. (CreatedBy(F) \cap RemovedBy(F) = {})'
  BY DEF Tidy, CreatedBy, RemovedBy
<1>3. \A st \in LinesOf(F) : Fits(st, F)'
  BY <1>1 DEF Tidy
<1>4. Retires(F) => LeftBy(F)' = {}
  BY DEF Tidy
<1>5. LinesOf(F) = {} /\ ~Retires(F) =>
        IF Rec' = <<>> THEN LeftBy(F)' = {} ELSE Fits(Rec[1], F)'
  BY <1>1
<1>6. \A x \in F : x.do = "fix" => (x.j \in LeftBy(F) /\ Length(x.j) = x.pos)'
  BY DEF Tidy
<1>. QED  BY <1>2, <1>3, <1>4, <1>5, <1>6 DEF Tidy, LinesOf, Retires, CreatedBy, RemovedBy

(* The state recorded in the end, when no effect on the log is left. *)
LEMMA TidyRecord ==
    ASSUME NEW E, Tidy(E), LinesOf(E) = {}, ~Retires(E), Rec' = Rec
    PROVE  IF Rec' = <<>> THEN LeftBy(E) = {} ELSE Fits(Rec'[1], E)
    BY DEF Tidy

(* An effect on the journals. *)
LEMMA TidyFiles ==
    ASSUME NEW e, NEW F, Tidy({e} \cup F), Rec' = Rec, e.do \notin {"put", "line", "retire"},
           LeftBy(F)' = LeftBy({e} \cup F),
           \A j \in LeftBy({e} \cup F) : Length(j)' = Length(j)
    PROVE  Tidy(F)'
<1> DEFINE E == {e} \cup F
<1>1. /\ RemovedBy(F) \subseteq RemovedBy(E) /\ CreatedBy(F) \subseteq CreatedBy(E)
      /\ LinesOf(E) = LinesOf(F) /\ (Retires(E) <=> Retires(F))
  <2>1. /\ RemovedBy(E) = RemovedBy({e}) \cup RemovedBy(F)
        /\ CreatedBy(E) = CreatedBy({e}) \cup CreatedBy(F)
        /\ LinesOf(E) = LinesOf({e}) \cup LinesOf(F)
        /\ Retires(E) <=> Retires({e}) \/ Retires(F)
    BY DoneByBoth
  <2>2. LinesOf({e}) = {} /\ ~Retires({e})
    BY DoneByOne
  <2> HIDE DEF E
  <2>. QED  BY <2>1, <2>2
<1>2. \A j : PutsOn(E, j) = PutsOn(F, j)
  BY DEF PutsOn
<1>3. F \subseteq E
  OBVIOUS
<1>4. LinesOf(F) = {} /\ ~Retires(F) => IF Rec' = <<>> THEN LeftBy(E) = {} ELSE Fits(Rec'[1], E)
  <2> HIDE DEF E
  <2>. QED  BY <1>1, TidyRecord DEF E
<1>5. Tidy(E) /\ LeftBy(F)' = LeftBy(E)
  OBVIOUS
<1>6. \A j \in LeftBy(E) : Length(j)' + PutsOn(F, j) = Length(j) + PutsOn(E, j)
  BY <1>2
<1>7. \A x \in F : x.do = "fix" => x \in E /\ (x.j \in LeftBy(E) => Length(x.j)' = Length(x.j))
  BY <1>3
<1> HIDE DEF E
<1>. QED  BY <1>1, <1>4, <1>5, <1>6, <1>7, TidyNext

(* Nothing is done to the journals, and the recorded state is the same. *)
LEMMA TidySame ==
    ASSUME NEW E, Tidy(E), files' = files, Rec' = Rec
    PROVE  Tidy(E)'
<1>1. LeftBy(E)' = LeftBy(E) /\ \A j : Length(j)' = Length(j)
  BY DEF LeftBy, CreatedBy, RemovedBy, Length, Exists
<1>2. LinesOf(E) = {} /\ ~Retires(E) => IF Rec' = <<>> THEN LeftBy(E) = {} ELSE Fits(Rec'[1], E)
  BY TidyRecord
<1>. QED  BY <1>1, <1>2, TidyNext

(* A journal is created. *)
LEMMA TidyCreate ==
    ASSUME NEW e, NEW F, e.do = "create", Tidy({e} \cup F), Rec' = Rec,
           files' = [j \in DOMAIN files \cup {e.j} |-> IF Exists(j) THEN files[j] ELSE <<>>]
    PROVE  Tidy(F)'
<1>1. /\ RemovedBy({e} \cup F) = RemovedBy(F)
      /\ CreatedBy({e} \cup F) = CreatedBy(F) \cup {e.j}
  <2>1. RemovedBy({e}) = {} /\ CreatedBy({e}) = {e.j}
    BY DoneByOne
  <2>2. /\ RemovedBy({e} \cup F) = RemovedBy({e}) \cup RemovedBy(F)
        /\ CreatedBy({e} \cup F) = CreatedBy({e}) \cup CreatedBy(F)
    BY DoneByBoth
  <2>. QED  BY <2>1, <2>2
<1>2. DOMAIN files' = DOMAIN files \cup {e.j}
  OBVIOUS
<1>3. LeftBy(F)' = LeftBy({e} \cup F)
  BY <1>1, <1>2 DEF LeftBy, CreatedBy, RemovedBy
<1>4. \A j : Length(j)' = Length(j)
  <2>1. Len(<<>>) = 0
    OBVIOUS
  <2>. QED  BY <1>2, <2>1 DEF Length, Exists
<1>. QED  BY <1>3, <1>4, TidyFiles

(* A journal is removed. *)
LEMMA TidyRemove ==
    ASSUME NEW e, NEW F, e.do = "remove", Tidy({e} \cup F), Rec' = Rec,
           files' = [j \in DOMAIN files \ {e.j} |-> files[j]]
    PROVE  Tidy(F)'
<1>1. /\ RemovedBy({e} \cup F) = RemovedBy(F) \cup {e.j}
      /\ CreatedBy({e} \cup F) = CreatedBy(F)
  <2>1. RemovedBy({e}) = {e.j} /\ CreatedBy({e}) = {}
    BY DoneByOne
  <2>2. /\ RemovedBy({e} \cup F) = RemovedBy({e}) \cup RemovedBy(F)
        /\ CreatedBy({e} \cup F) = CreatedBy({e}) \cup CreatedBy(F)
    BY DoneByBoth
  <2>. QED  BY <2>1, <2>2
<1>2. DOMAIN files' = DOMAIN files \ {e.j}
  OBVIOUS
<1>3. e.j \notin CreatedBy(F)
  BY <1>1 DEF Tidy
<1>4. LeftBy(F)' = LeftBy({e} \cup F) /\ e.j \notin LeftBy({e} \cup F)
  <2>1. LeftBy(F)' = (DOMAIN files' \cup CreatedBy(F)) \ RemovedBy(F)
    BY DEF LeftBy, CreatedBy, RemovedBy
  <2>2. LeftBy({e} \cup F) = (DOMAIN files \cup CreatedBy(F)) \ (RemovedBy(F) \cup {e.j})
    BY <1>1 DEF LeftBy
  <2>. QED  BY <1>2, <1>3, <2>1, <2>2
<1>5. \A j : j # e.j => Length(j)' = Length(j)
  BY <1>2 DEF Length, Exists
<1>. QED  BY <1>4, <1>5, TidyFiles

(* A journal has the size that an append starts from: nothing is cut off. *)
LEMMA TidyFix ==
    ASSUME NEW e, NEW F, e.do = "fix", Tidy({e} \cup F), Rec' = Rec, FilesOK,
           files' = [files EXCEPT ![e.j] = SubSeq(@, 1, e.pos)]
    PROVE  Tidy(F)' /\ DOMAIN files' = DOMAIN files /\ \A j \in DOMAIN files : files'[j] = files[j]
<1>1. Length(e.j) = e.pos
  BY DEF Tidy
<1>2. DOMAIN files' = DOMAIN files /\ \A j \in DOMAIN files : files'[j] = files[j]
  <2>1. CASE e.j \notin DOMAIN files
    BY <2>1
  <2>2. CASE e.j \in DOMAIN files
    <3>1. files[e.j] \in Seq(Content) /\ e.pos = Len(files[e.j])
      BY <1>1, <2>2 DEF FilesOK, Length, Exists
    <3>2. SubSeq(files[e.j], 1, e.pos) = files[e.j]
      BY <3>1
    <3>. QED  BY <2>2, <3>2
  <2>. QED  BY <2>1, <2>2
<1>3. /\ RemovedBy({e} \cup F) = RemovedBy(F) /\ CreatedBy({e} \cup F) = CreatedBy(F)
  <2>1. RemovedBy({e}) = {} /\ CreatedBy({e}) = {}
    BY DoneByOne
  <2>2. /\ RemovedBy({e} \cup F) = RemovedBy({e}) \cup RemovedBy(F)
        /\ CreatedBy({e} \cup F) = CreatedBy({e}) \cup CreatedBy(F)
    BY DoneByBoth
  <2>. QED  BY <2>1, <2>2
<1>4. LeftBy(F)' = LeftBy({e} \cup F) /\ \A j : Length(j)' = Length(j)
  BY <1>2, <1>3 DEF LeftBy, CreatedBy, RemovedBy, Length, Exists
<1>. QED  BY <1>2, <1>4, TidyFiles

(* A message is appended: lines and assignments are left. *)
LEMMA TidyPut ==
    ASSUME NEW e, NEW F, e.do = "put", Tidy({e} \cup F), Rec' = Rec, FilesOK, Exists(e.j),
           \A x \in F : x.do \in {"line", "assign"},
           files' = [files EXCEPT ![e.j] = Append(@, e.msg)]
    PROVE  Tidy(F)'
<1> DEFINE E == {e} \cup F
<1>1. /\ RemovedBy(E) = RemovedBy(F) /\ CreatedBy(E) = CreatedBy(F)
      /\ LinesOf(E) = LinesOf(F) /\ (Retires(E) <=> Retires(F))
  <2>1. RemovedBy({e}) = {} /\ CreatedBy({e}) = {} /\ LinesOf({e}) = {} /\ ~Retires({e})
    BY DoneByOne
  <2>2. /\ RemovedBy(E) = RemovedBy({e}) \cup RemovedBy(F)
        /\ CreatedBy(E) = CreatedBy({e}) \cup CreatedBy(F)
        /\ LinesOf(E) = LinesOf({e}) \cup LinesOf(F)
        /\ Retires(E) <=> Retires({e}) \/ Retires(F)
    BY DoneByBoth
  <2>. QED  BY <2>1, <2>2
<1>2. DOMAIN files' = DOMAIN files
  OBVIOUS
<1>3. LeftBy(F)' = LeftBy(E)
  BY <1>1, <1>2 DEF LeftBy, CreatedBy, RemovedBy
<1>4. \A x \in F : x.do # "put" /\ x.do # "fix"
  OBVIOUS
<1>5. \A j : PutsOn(F, j) = 0 /\ PutsOn(E, j) = IF j = e.j THEN 1 ELSE 0
  <2>1. \A j : PutsOn(F, j) = 0
    BY <1>4 DEF PutsOn
  <2>2. \A j : (\E x \in E : x.do = "put" /\ x.j = j) <=> j = e.j
    BY <1>4
  <2>. QED  BY <2>1, <2>2 DEF PutsOn
<1>6. ASSUME NEW j PROVE Length(j)' + PutsOn(F, j) = Length(j) + PutsOn(E, j)
  <2>1. CASE j = e.j
    <3>1. files[j] \in Seq(Content) /\ files'[j] = Append(files[j], e.msg) /\ j \in DOMAIN files
      BY <2>1 DEF FilesOK, Exists
    <3>2. Len(files'[j]) = Len(files[j]) + 1 /\ Len(files[j]) \in Nat
      BY <3>1
    <3>3. Length(j)' = Length(j) + 1 /\ Length(j) \in Nat
      BY <1>2, <3>1, <3>2 DEF Length, Exists
    <3>4. PutsOn(F, j) = 0 /\ PutsOn(E, j) = 1
      BY <1>5, <2>1
    <3> HIDE DEF E
    <3>. QED  BY <3>3, <3>4
  <2>2. CASE j # e.j
    <3>1. Length(j)' = Length(j)
      <4>1. j \in DOMAIN files => files'[j] = files[j]
        BY <2>2
      <4>. QED  BY <1>2, <4>1 DEF Length, Exists
    <3>. QED  BY <1>5, <2>2, <3>1
  <2>. QED  BY <2>1, <2>2
<1>7. Tidy(E)
  OBVIOUS
<1> HIDE DEF E
<1>8. LinesOf(F) = {} /\ ~Retires(F) => IF Rec' = <<>> THEN LeftBy(E) = {} ELSE Fits(Rec'[1], E)
  BY <1>1, <1>7, TidyRecord
<1>. QED  BY <1>1, <1>3, <1>4, <1>6, <1>7, <1>8, TidyNext

(* An effect on the log that leaves the journals alone. *)
LEMMA TidyLog ==
    ASSUME NEW e, NEW F, e.do \in {"line", "retire"}, Tidy({e} \cup F), files' = files,
           LinesOf(F) = {} /\ ~Retires(F) =>
             Rec' = IF e.do = "line" THEN <<e.st>> ELSE <<>>
    PROVE  Tidy(F)'
<1> DEFINE E == {e} \cup F
<1>1. /\ RemovedBy(E) = RemovedBy(F) /\ CreatedBy(E) = CreatedBy(F)
      /\ LinesOf(F) \subseteq LinesOf(E) /\ (Retires(F) => Retires(E))
      /\ e.do = "line" => e.st \in LinesOf(E)
      /\ e.do = "retire" => Retires(E)
  <2>1. /\ RemovedBy({e}) = {} /\ CreatedBy({e}) = {}
        /\ e.do = "line" => LinesOf({e}) = {e.st}
        /\ e.do = "retire" => Retires({e})
    BY DoneByOne
  <2>2. /\ RemovedBy(E) = RemovedBy({e}) \cup RemovedBy(F)
        /\ CreatedBy(E) = CreatedBy({e}) \cup CreatedBy(F)
        /\ LinesOf(E) = LinesOf({e}) \cup LinesOf(F)
        /\ Retires(E) <=> Retires({e}) \/ Retires(F)
    BY DoneByBoth
  <2> HIDE DEF E
  <2>. QED  BY <2>1, <2>2
<1>2. LeftBy(F)' = LeftBy(E) /\ \A j : Length(j)' = Length(j) /\ PutsOn(F, j) = PutsOn(E, j)
  <2>1. LeftBy(F)' = LeftBy(E) /\ \A j : Length(j)' = Length(j)
    BY <1>1 DEF LeftBy, CreatedBy, RemovedBy, Length, Exists
  <2>2. \A j : PutsOn(F, j) = PutsOn(E, j)
    BY DEF PutsOn
  <2>. QED  BY <2>1, <2>2
<1>3. F \subseteq E /\ Tidy(E)
  OBVIOUS
<1> HIDE DEF E
<1>4. LinesOf(F) = {} /\ ~Retires(F) => IF Rec' = <<>> THEN LeftBy(E) = {} ELSE Fits(Rec'[1], E)
  <2>1. SUFFICES ASSUME LinesOf(F) = {}, ~Retires(F)
                 PROVE  IF Rec' = <<>> THEN LeftBy(E) = {} ELSE Fits(Rec'[1], E)
    OBVIOUS
  <2>2. CASE e.do = "line"
    <3>1. Rec' = <<e.st>> /\ Rec' # <<>> /\ Rec'[1] = e.st
      BY <2>1, <2>2
    <3>2. Fits(e.st, E)
      BY <1>1, <1>3, <2>2 DEF Tidy
    <3>. QED  BY <3>1, <3>2
  <2>3. CASE e.do = "retire"
    <3>1. Rec' = <<>>
      BY <2>1, <2>3
    <3>2. LeftBy(E) = {}
      BY <1>1, <1>3, <2>3 DEF Tidy
    <3>. QED  BY <3>1, <3>2
  <2>. QED  BY <2>2, <2>3
<1>. QED  BY <1>1, <1>2, <1>3, <1>4, TidyNext

(* An effect that is plain. *)
LEMMA TidyPlain ==
    ASSUME NEW e, NEW F, Plain({e}), Tidy({e} \cup F), Rec' = Rec, files' = files
    PROVE  Tidy(F)'
<1>1. Tidy(F)
  BY PlainFits
<1>. QED  BY <1>1, TidySame

-----------------------------------------------------------------------------
(* Which effects come first, and before which others *)

HeadFits(e, F) ==
    /\ e.do = "line" => log.newline /\ (bak = NoLines \/ Rec = <<e.st>> \/ LinesOf(F) # {})
    /\ e.do = "timed" => LinesOf(F) # {} \/ Rec = Recorded(log)
    /\ e.do = "restore" => bak # NoLines
    /\ e.do \in {"temp", "retire"} => bak = NoLines
    /\ e.do = "put" => mem.open /\ Exists(e.j) /\ \A x \in F : x.do \in {"line", "assign"}
    /\ e.do = "rmdir" => F = {}
    /\ e.do = "read" => mem.open
    /\ e.do = "assign" => e.mem.open \/ Closing

HeadIs == IsList(todo) /\ todo # <<>> /\ HeadFits(Head(todo), Range(Tail(todo)))

(* Of these effects nothing has to be said. *)
LEMMA EasyFits ==
    ASSUME NEW e, e.do \in {"mkdir", "create", "remove", "fix"}, NEW F
    PROVE  HeadFits(e, F)
    BY DEF HeadFits

(* A list of one to four effects. *)
LEMMA TupleHead ==
    ASSUME NEW a, NEW b, NEW c, NEW d
    PROVE  /\ todo = <<a>> /\ HeadFits(a, {}) => HeadIs
           /\ todo = <<a, b>> /\ HeadFits(a, {b}) => HeadIs
           /\ todo = <<a, b, c>> /\ HeadFits(a, {b, c}) => HeadIs
           /\ todo = <<a, b, c, d>> /\ HeadFits(a, {b, c, d}) => HeadIs
<1>1. /\ Head(<<a>>) = a /\ Tail(<<a>>) = <<>> /\ <<a>> # <<>>
      /\ Head(<<a, b>>) = a /\ Tail(<<a, b>>) = <<b>> /\ <<a, b>> # <<>>
      /\ Head(<<a, b, c>>) = a /\ Tail(<<a, b, c>>) = <<b, c>> /\ <<a, b, c>> # <<>>
      /\ Head(<<a, b, c, d>>) = a /\ Tail(<<a, b, c, d>>) = <<b, c, d>> /\ <<a, b, c, d>> # <<>>
  BY Tuples, FirstOf
<1>2. /\ IsList(<<a>>) /\ IsList(<<a, b>>) /\ IsList(<<a, b, c>>) /\ IsList(<<a, b, c, d>>)
      /\ Range(<<>>) = {} /\ Range(<<b>>) = {b} /\ Range(<<b, c>>) = {b, c}
      /\ Range(<<b, c, d>>) = {b, c, d}
  BY RangeOf
<1>. QED  BY <1>1, <1>2, Zenon DEF HeadIs

(* The same, of a list that goes on. *)
LEMMA JoinedHead ==
    ASSUME NEW k, IsList(k), NEW a, NEW b, NEW c, NEW d
    PROVE  /\ todo = <<a>> \o k /\ HeadFits(a, Range(k)) => HeadIs
           /\ todo = <<a, b>> \o k /\ HeadFits(a, {b} \cup Range(k)) => HeadIs
           /\ todo = <<a, b, c>> \o k /\ HeadFits(a, {b, c} \cup Range(k)) => HeadIs
           /\ todo = <<a, b, c, d>> \o k /\ HeadFits(a, {b, c, d} \cup Range(k)) => HeadIs
<1>1. PICK S : k \in Seq(S)
  BY DEF IsList
<1>2. /\ Head(<<a>> \o k) = a /\ Tail(<<a>> \o k) = k /\ <<a>> \o k # <<>>
      /\ Head(<<a, b>> \o k) = a /\ Tail(<<a, b>> \o k) = <<b>> \o k /\ <<a, b>> \o k # <<>>
      /\ Head(<<a, b, c>> \o k) = a /\ Tail(<<a, b, c>> \o k) = <<b, c>> \o k
      /\ <<a, b, c>> \o k # <<>>
      /\ Head(<<a, b, c, d>> \o k) = a /\ Tail(<<a, b, c, d>> \o k) = <<b, c, d>> \o k
      /\ <<a, b, c, d>> \o k # <<>>
  <2>1. Head(<<a>> \o k) = a /\ Tail(<<a>> \o k) = k /\ <<a>> \o k # <<>>
    BY <1>1, ConsOne
  <2>2. Head(<<a, b>> \o k) = a /\ Tail(<<a, b>> \o k) = <<b>> \o k /\ <<a, b>> \o k # <<>>
    BY <1>1, ConsTwo
  <2>3. /\ Head(<<a, b, c>> \o k) = a /\ Tail(<<a, b, c>> \o k) = <<b, c>> \o k
        /\ <<a, b, c>> \o k # <<>>
    BY <1>1, ConsThree
  <2>4. /\ Head(<<a, b, c, d>> \o k) = a /\ Tail(<<a, b, c, d>> \o k) = <<b, c, d>> \o k
        /\ <<a, b, c, d>> \o k # <<>>
    BY <1>1, ConsFour
  <2>. QED  BY <2>1, <2>2, <2>3, <2>4, Zenon
<1>3. /\ IsList(<<a>>) /\ IsList(<<a, b>>) /\ IsList(<<a, b, c>>) /\ IsList(<<a, b, c, d>>)
      /\ IsList(<<b>>) /\ IsList(<<b, c>>) /\ IsList(<<b, c, d>>)
      /\ Range(<<b>>) = {b} /\ Range(<<b, c>>) = {b, c} /\ Range(<<b, c, d>>) = {b, c, d}
  BY RangeOf
<1>4. \A l : IsList(l) => IsList(l \o k) /\ Range(l \o k) = Range(l) \cup Range(k)
  BY RangeJoined
<1>5. /\ IsList(<<a>> \o k) /\ IsList(<<a, b>> \o k)
      /\ IsList(<<a, b, c>> \o k) /\ IsList(<<a, b, c, d>> \o k)
      /\ Range(<<b>> \o k) = {b} \cup Range(k) /\ Range(<<b, c>> \o k) = {b, c} \cup Range(k)
      /\ Range(<<b, c, d>> \o k) = {b, c, d} \cup Range(k)
  <2>1. \A l : IsList(l) => IsList(l \o k)
    BY <1>4, Zenon
  <2>2. /\ Range(<<b>> \o k) = Range(<<b>>) \cup Range(k)
        /\ Range(<<b, c>> \o k) = Range(<<b, c>>) \cup Range(k)
        /\ Range(<<b, c, d>> \o k) = Range(<<b, c, d>>) \cup Range(k)
    BY <1>3, <1>4, Zenon
  <2>3. /\ Range(<<b>> \o k) = {b} \cup Range(k) /\ Range(<<b, c>> \o k) = {b, c} \cup Range(k)
        /\ Range(<<b, c, d>> \o k) = {b, c, d} \cup Range(k)
    BY <1>3, <2>2, Zenon
  <2>. QED  BY <1>3, <2>1, <2>3, Zenon
<1>. QED  BY <1>2, <1>5, Zenon DEF HeadIs

(* What is left to open a queue. *)
LEMMA OpensList ==
    ASSUME NEW k, OpenForm(k) \/ RetireForm(k)
    PROVE  IsList(k)
    BY FormSeq DEF IsList

(* The message at the read position may be read in the end. *)
LEMMA ReadsList ==
    ASSUME NEW mq, NEW rd, ReadForm(mq, rd)
    PROVE  IsList(rd)
<1>1. PICK a : a = ReadTip(mq.state.rj, mq.state.rpos)
  OBVIOUS
<1>2. rd = <<>> \/ rd = <<a>>
  BY <1>1 DEF ReadForm
<1>. QED  BY <1>2, RangeOf

(* A list that logs a state. *)
LEMMA LinesIn ==
    ASSUME NEW E, NEW st, AppendState(st) \in E
    PROVE  st \in LinesOf(E)
    BY EffectFields DEF LinesOf

(* The state logged for a backup is the recorded one, or one that is logged *)
(* again.                                                                   *)
LEMMA BackedLines ==
    ASSUME NEW k, NEW s, BackedBy(k, s), NEW E, Range(k) \subseteq E
    PROVE  Rec = <<s>> \/ LinesOf(E) # {}
<1>1. SUFFICES ASSUME Rec # <<s>>
               PROVE  LinesOf(E) # {}
  OBVIOUS
<1>2. PICK j, a : ReplaceOf(j, a, k)
  BY <1>1 DEF BackedBy
<1>3. PICK b, c, d, e : k = <<b, c, d, e>> /\ b = AppendState(newMsgQueueState(j))
  BY <1>2 DEF ReplaceOf
<1>4. b \in Range(k)
  <2>1. Range(k) = {b, c, d, e}
    BY <1>3, RangeOf
  <2>. QED  BY <2>1
<1>5. AppendState(newMsgQueueState(j)) \in E
  BY <1>3, <1>4
<1>. QED  BY <1>5, LinesIn

(* Opening a queue, when its log is ready. *)
LEMMA OpeningHead ==
    ASSUME Opening
    PROVE  HeadIs
<1>1. LogReady /\ OpenForm(todo)
  BY DEF Opening
<1>2. CASE FixForm(todo)
  <2>1. PICK j, p, b, c : /\ todo \in {<<FixFileSize(j, p), b>>, <<FixFileSize(j, p), b, c>>}
    BY <1>2 DEF FixForm, FixOf
  <2>2. \A F : HeadFits(FixFileSize(j, p), F)
    BY EffectFields, EasyFits
  <2>. QED  BY <2>1, <2>2, TupleHead
<1>3. CASE RecreateForm(todo)
  <2>1. PICK j, b, c : todo = <<CreateJournal(j), b, c>>
    BY <1>3 DEF RecreateForm, RecreateOf
  <2>2. \A F : HeadFits(CreateJournal(j), F)
    BY EffectFields, EasyFits
  <2>. QED  BY <2>1, <2>2, TupleHead
<1>4. CASE ReplaceForm(todo)
  <2>1. PICK s, b, c, d : todo = <<AppendState(s), b, c, d>>
    BY <1>4 DEF ReplaceForm, ReplaceOf
  <2>2. \A F : HeadFits(AppendState(s), F)
    BY <1>1, EffectFields DEF HeadFits, LogReady
  <2>. QED  BY <2>1, <2>2, TupleHead
<1>. QED  BY <1>1, <1>2, <1>3, <1>4 DEF OpenForm

(* Backing up the log. *)
LEMMA BackingUpHead ==
    ASSUME DiskOK, Recoverable, BackingUp
    PROVE  HeadIs
<1>1. PICK k, s : BackingUpOf(k, s)
  BY DEF BackingUp
<1>2. BackedBy(k, s)
  BY <1>1 DEF BackingUpOf
<1>3. OpenForm(k)
  BY <1>2, BackedByState
<1>4. IsList(k)
  BY <1>3, OpensList
<1>5. PICK t, l, m : t = TempBackup /\ l = AppendState(s) /\ m = TimedBackup
  OBVIOUS
<1>6. t.do = "temp" /\ l.do = "line" /\ l.st = s /\ m.do = "timed"
  BY <1>5, EffectFields
<1>7. \A E : Range(k) \subseteq E => Rec = <<s>> \/ LinesOf(E) # {}
  BY <1>2, BackedLines
<1>8. CASE todo = <<t, l, m>> \o k /\ bak = NoLines
  <2>1. HeadFits(t, {l, m} \cup Range(k))
    BY <1>6, <1>8 DEF HeadFits
  <2>. QED  BY <1>4, <1>8, <2>1, JoinedHead
<1>9. CASE todo = <<l, m>> \o k /\ log = NoLines
  <2>1. log.newline
    BY <1>9 DEF NoLines
  <2>2. PICK E : E = {m} \cup Range(k)
    OBVIOUS
  <2>3. Rec = <<s>> \/ LinesOf(E) # {}
    BY <1>7, <2>2
  <2>4. HeadFits(l, E)
    BY <1>6, <2>1, <2>3 DEF HeadFits
  <2>. QED  BY <1>4, <1>9, <2>2, <2>4, JoinedHead
<1>10. CASE todo = <<m>> \o k /\ log = LogOf(<<<<s>>>>, TRUE)
  <2>1. Recorded(log) = <<s>>
    BY <1>10, RecordedByOne
  <2>2. PICK E : E = Range(k)
    OBVIOUS
  <2>3. Rec = <<s>> \/ LinesOf(E) # {}
    BY <1>7, <2>2
  <2>4. HeadFits(m, E)
    BY <1>6, <2>1, <2>3 DEF HeadFits
  <2>. QED  BY <1>4, <1>10, <2>2, <2>4, JoinedHead
<1>. QED  BY <1>1, <1>5, <1>8, <1>9, <1>10 DEF BackingUpOf

(* Restoring a backup that was not completed. *)
LEMMA RestoringHead ==
    ASSUME DiskOK, Recoverable, Restoring
    PROVE  HeadIs
<1>1. PICK r : r = RestoreBackup
  OBVIOUS
<1>2. r.do = "restore" /\ bak # NoLines
  BY <1>1, EffectFields DEF Restoring
<1>3. \A F : HeadFits(r, F)
  BY <1>2 DEF HeadFits
<1>4. PICK k : todo = <<r>> \o k /\ IsList(k)
  <2>1. CASE \E k : todo = <<r>> \o k /\ (OpenForm(k) \/ RetireForm(k))
    BY <2>1, OpensList
  <2>2. CASE \E k, s : todo = <<r>> \o (<<TempBackup, AppendState(s), TimedBackup>> \o k)
                       /\ BackedBy(k, s)
    <3>1. PICK k, s : /\ todo = <<r>> \o (<<TempBackup, AppendState(s), TimedBackup>> \o k)
                      /\ BackedBy(k, s)
      BY <2>2
    <3>2. PICK l : l = <<TempBackup, AppendState(s), TimedBackup>>
      OBVIOUS
    <3>3. OpenForm(k)
      BY <3>1, BackedByState
    <3>4. IsList(l)
      BY <3>2, RangeOf
    <3>5. IsList(k)
      BY <3>3, OpensList
    <3>6. IsList(l \o k)
      BY <3>4, <3>5, RangeJoined
    <3>. QED  BY <3>1, <3>2, <3>6
  <2>. QED  BY <1>1, <2>1, <2>2 DEF Restoring
<1>. QED  BY <1>3, <1>4, JoinedHead

(* The other steps of opening. *)
LEMMA OpenHead ==
    ASSUME IInv, OpenPhase
    PROVE  HeadIs
<1>1. DiskOK /\ Recoverable
  BY DEF IInv, Typed
<1>2. CASE Opening \/ BackingUp \/ Restoring
  BY <1>1, <1>2, OpeningHead, BackingUpHead, RestoringHead
<1>3. CASE Retiring
  <2>1. PICK r : r = RetireLog
    OBVIOUS
  <2>2. r.do = "retire" /\ bak = NoLines
    BY <1>3, <2>1, EffectFields DEF Retiring
  <2>3. \A F : HeadFits(r, F)
    BY <2>2 DEF HeadFits
  <2>4. \E b, c : todo = <<r, b>> \/ todo = <<r, b, c>>
    BY <1>3, <2>1 DEF Retiring, RetireForm, RetireOf
  <2>. QED  BY <2>3, <2>4, TupleHead
<1>4. CASE Replacing
  <2>1. PICK j, b, c : todo = <<CreateJournal(j), b, c>>
    BY <1>4 DEF Replacing, ReplacingBy
  <2>2. \A F : HeadFits(CreateJournal(j), F)
    BY EffectFields, EasyFits
  <2>. QED  BY <2>1, <2>2, TupleHead
<1>5. CASE Removing
  <2>1. PICK j, b : todo = <<RemoveJournal(j), b>>
    BY <1>5 DEF Removing, RemovingTo
  <2>2. \A F : HeadFits(RemoveJournal(j), F)
    BY EffectFields, EasyFits
  <2>. QED  BY <2>1, <2>2, TupleHead
<1>. QED  BY <1>2, <1>3, <1>4, <1>5 DEF OpenPhase

(* Assigning a state, or logging it first. *)
LEMMA LandHead ==
    ASSUME IInv, Landing \/ Committing \/ Logging \/ Reading \/ Switching
    PROVE  HeadIs
<1>1. ASSUME NEW e, e.do = "assign", e.mem.open, NEW F
      PROVE  HeadFits(e, F)
  BY <1>1 DEF HeadFits
<1>2. ASSUME NEW st, LogReady, NEW F
      PROVE  HeadFits(AppendState(st), F)
  BY <1>2, EffectFields DEF HeadFits, LogReady
<1>3. ASSUME NEW j, NEW p, mem.open, NEW F
      PROVE  HeadFits(ReadTip(j, p), F)
  BY <1>3, EffectFields DEF HeadFits
<1>4. CASE Landing
  <2>1. PICK mq, rd : LandingOn(mq, rd)
    BY <1>4 DEF Landing
  <2>2. PICK e : e = Assign(mq)
    OBVIOUS
  <2>3. todo = <<e>> \o rd /\ mq.open /\ ReadForm(mq, rd)
    BY <2>1, <2>2 DEF LandingOn
  <2>4. e.do = "assign" /\ e.mem.open
    BY <2>2, <2>3, EffectFields
  <2>. QED  BY <1>1, <2>3, <2>4, ReadsList, JoinedHead
<1>5. CASE Committing
  <2>1. PICK mq, rd : CommittingTo(mq, rd)
    BY <1>5 DEF Committing
  <2>2. PICK e, b : e = AppendState(mq.state) /\ b = Assign(mq)
    OBVIOUS
  <2>3. todo = <<e, b>> \o rd /\ LogReady /\ ReadForm(mq, rd)
    BY <2>1, <2>2 DEF CommittingTo
  <2>4. \A F : HeadFits(e, F)
    BY <1>2, <2>2, <2>3
  <2>. QED  BY <2>3, <2>4, ReadsList, JoinedHead
<1>6. CASE Logging
  <2>1. PICK mq : mq = mem
    OBVIOUS
  <2>2. todo = <<AppendState(mq.state)>> /\ MemOK(mq) /\ mq.readHandle # 0
    BY <1>6, <2>1 DEF Logging, Quiet
  <2>3. LogReady
    <3>1. ASSUME Unwritten(mq)
          PROVE  FALSE
      <4>1. PICK j : mq = Opened(newMsgQueueState(j), 0, 0)
        BY <3>1 DEF Unwritten
      <4>2. Opened(newMsgQueueState(j), 0, 0).readHandle = 0
        BY DEF Opened
      <4>. QED  BY <2>2, <4>1, <4>2
    <3>. QED  BY <2>2, <3>1 DEF MemOK
  <2>4. \A F : HeadFits(AppendState(mq.state), F)
    BY <1>2, <2>3
  <2>. QED  BY <2>2, <2>4, TupleHead
<1>7. CASE Reading
  <2>1. PICK j, p : todo = <<ReadTip(j, p)>> /\ mem.open
    BY <1>7 DEF Reading
  <2>2. \A F : HeadFits(ReadTip(j, p), F)
    BY <1>3, <2>1
  <2>. QED  BY <2>1, <2>2, TupleHead
<1>8. CASE Switching
  <2>1. PICK rd : SwitchingTo(rd)
    BY <1>8 DEF Switching
  <2>2. PICK a, b, c, d : /\ a = Assign(Moved) /\ b = RemoveJournal(mem.state.rj)
                          /\ c = AppendState(Switched(mem.state)) /\ d = Assign(Entered)
    OBVIOUS
  <2>3. /\ todo = <<a, b, c, d>> \o rd \/ todo = <<b, c, d>> \o rd
        /\ mem.open /\ Stored(mem.state) /\ ReadForm(Entered, rd)
    BY <2>1, <2>2 DEF SwitchingTo
  <2>4. \A F : HeadFits(b, F)
    BY <2>2, EffectFields, EasyFits
  <2>5. \A F : HeadFits(a, F)
    <3>1. mem \in Queues
      BY <2>3 DEF IInv, Remembered
    <3>2. Moved.open = TRUE
      BY <3>1 DEF Moved, Queues
    <3>3. a.do = "assign" /\ a.mem.open
      BY <2>2, <3>2, EffectFields
    <3>. QED  BY <1>1, <3>3
  <2>6. IsList(rd)
    BY <2>3, ReadsList
  <2>. QED  BY <2>3, <2>4, <2>5, <2>6, JoinedHead
<1>. QED  BY <1>4, <1>5, <1>6, <1>7, <1>8

(* Writing a message. *)
LEMMA WriteHead ==
    ASSUME IInv, WritePhase, faults = <<>>
    PROVE  HeadIs
<1>1. mem.open /\ mem \in Queues
  BY DEF IInv, Remembered, WritePhase
<1>2. ASSUME NEW mq, NEW h, NEW p, NEW msg
      PROVE  IsList(<<FixFileSize(h, p)>> \o PutForm(mq, h, p, msg))
  BY PutSeq DEF IsList
<1>3. \A j, F : HeadFits(CreateJournal(j), F)
  BY EffectFields, EasyFits
<1>4. \A F : HeadFits(Mkdir, F)
  BY EffectFields, EasyFits
<1>5. \A j, p, F : HeadFits(FixFileSize(j, p), F)
  BY EffectFields, EasyFits
<1>6. \A mq, F : mq.open => HeadFits(Assign(mq), F)
  BY EffectFields DEF HeadFits
<1>7. CASE Starting
  <2>1. PICK msg : StartingWith(msg)
    BY <1>7 DEF Starting
  <2>2. PICK mq : mq = [mem EXCEPT !.readHandle = mem.state.rj]
    OBVIOUS
  <2>3. PICK j, put : j = mem.state.rj
                      /\ put = <<FixFileSize(j, 0)>> \o PutForm(mq, j, 0, msg)
    OBVIOUS
  <2>4. IsList(put)
    BY <1>2, <2>3
  <2>5. \/ todo = <<Mkdir, CreateJournal(j), Assign(mq)>> \o put
        \/ todo = <<CreateJournal(j), Assign(mq)>> \o put
        \/ todo = <<Assign(mq)>> \o put
    BY <2>1, <2>2, <2>3 DEF StartingWith
  <2>6. mq.open
    BY <1>1, <2>2 DEF Queues
  <2>7. \A F : HeadFits(CreateJournal(j), F) /\ HeadFits(Assign(mq), F)
    BY <1>3, <1>6, <2>6
  <2>. QED  BY <1>4, <2>4, <2>5, <2>7, JoinedHead
<1>8. CASE Extending
  <2>1. PICK j, msg : ExtendingWith(j, msg)
    BY <1>8 DEF Extending
  <2>2. PICK mq : mq = [mem EXCEPT !.writeHandle = j]
    OBVIOUS
  <2>3. PICK put : put = <<FixFileSize(j, 0)>> \o PutForm(mq, j, 0, msg)
    OBVIOUS
  <2>4. IsList(put)
    BY <1>2, <2>3
  <2>5. \/ todo = <<CreateJournal(j), Assign(mq)>> \o put
        \/ todo = <<Assign(mq)>> \o put
    BY <2>1, <2>2, <2>3 DEF ExtendingWith
  <2>6. mq.open
    BY <1>1, <2>2 DEF Queues
  <2>7. \A F : HeadFits(CreateJournal(j), F) /\ HeadFits(Assign(mq), F)
    BY <1>3, <1>6, <2>6
  <2>. QED  BY <2>4, <2>5, <2>7, JoinedHead
<1>9. CASE Putting
  <2>1. PICK h, pos, msg : PuttingAt(h, pos, msg)
    BY <1>9 DEF Putting
  <2>2. PICK a, b, c : /\ a = PutMsg(h, msg) /\ b = AppendState(After(mem.state, h, pos, msg))
                       /\ c = Assign(Written(mem, h, pos, msg))
    OBVIOUS
  <2>3. PutForm(mem, h, pos, msg) = <<a, b, c>>
    BY <2>2 DEF PutForm
  <2>4. CASE todo = <<FixFileSize(h, pos)>> \o <<a, b, c>>
    <3>1. IsList(<<a, b, c>>)
      BY RangeOf
    <3>. QED  BY <1>5, <2>4, <3>1, JoinedHead
  <2>5. CASE todo = <<a, b, c>>
    <3>1. Exists(h)
      <4>1. PICK mq : mq = mem
        OBVIOUS
      <4>2. Target(h, pos) /\ Sound(mq)
        BY <2>1, <4>1 DEF PuttingAt
      <4>3. /\ Exists(mq.state.wj)
            /\ Stranded(mq) => Exists(mq.writeHandle)
        BY <4>2 DEF Sound, Handles
      <4>. QED  BY <4>1, <4>2, <4>3 DEF Target
    <3>2. a.do = "put" /\ a.j = h /\ b.do = "line" /\ c.do = "assign"
      BY <2>2, EffectFields
    <3>3. HeadFits(a, {b, c})
      BY <1>1, <3>1, <3>2 DEF HeadFits
    <3>. QED  BY <2>5, <3>3, TupleHead
  <2>. QED  BY <2>1, <2>3, <2>4, <2>5 DEF PuttingAt
<1>10. ~Refusing
  <2>1. "fail" \notin Range(faults)
    BY RangeOf
  <2>. QED  BY <2>1 DEF Refusing, Settled
<1>. QED  BY <1>7, <1>8, <1>9, <1>10 DEF WritePhase

(* Without faults, whatever is left to do. *)
LEMMA HeadsAre ==
    ASSUME IInv, faults = <<>>, todo # <<>>
    PROVE  HeadIs
<1>1. CASE Closing
  <2>1. PICK e : e = [do |-> "assign", mem |-> Closed, qstate |-> qstate]
    OBVIOUS
  <2>2. todo = <<e>> /\ e.do = "assign"
    BY <1>1, <2>1 DEF Closing
  <2>3. HeadFits(e, {})
    BY <1>1, <2>2 DEF HeadFits
  <2>. QED  BY <2>2, <2>3, TupleHead
<1>2. CASE Clearing
  <2>1. PICK e : e = RemoveDirectory
    OBVIOUS
  <2>2. todo = <<e>> /\ e.do = "rmdir"
    BY <1>2, <2>1, EffectFields DEF Clearing
  <2>3. HeadFits(e, {})
    BY <2>2 DEF HeadFits
  <2>. QED  BY <2>2, <2>3, TupleHead
<1>3. ~Resting
  BY DEF Resting
<1>. QED  BY <1>1, <1>2, <1>3, OpenHead, LandHead, WriteHead DEF IInv, Phase

-----------------------------------------------------------------------------
(* What no effects leave tidy *)

(* The journals are those of the recorded state, and have its messages. *)
Settles(st) ==
    /\ DOMAIN files = {st.rj, st.wj}
    /\ \A j \in DOMAIN files : Len(files[j]) = Count(st, j)

(* Nothing is done any more. *)
LEMMA NoneLeft ==
    /\ CreatedBy({}) = {} /\ RemovedBy({}) = {} /\ LinesOf({}) = {} /\ ~Retires({})
    /\ LeftBy({}) = DOMAIN files
    /\ \A j : PutsOn({}, j) = 0
    BY DEF CreatedBy, RemovedBy, LinesOf, Retires, LeftBy, PutsOn

(* The messages of the journals that exist. *)
LEMMA LengthOf ==
    ASSUME FilesOK
    PROVE  \A j : /\ Length(j) \in Nat
                  /\ Exists(j) => Length(j) = Len(files[j])
                  /\ ~Exists(j) => Length(j) = 0
    BY DEF FilesOK, Length, Exists

(* The journals of a state, when nothing is done any more. *)
LEMMA FitsNone ==
    ASSUME FilesOK, NEW st
    PROVE  Fits(st, {}) <=> Settles(st)
<1>1. LeftBy({}) = DOMAIN files /\ \A j : PutsOn({}, j) = 0
  BY NoneLeft
<1>2. \A j \in DOMAIN files : Length(j) = Len(files[j]) /\ Length(j) \in Nat
  BY LengthOf DEF Exists
<1>3. Fits(st, {}) <=> /\ DOMAIN files = {st.rj, st.wj}
                       /\ \A j \in DOMAIN files : Length(j) + PutsOn({}, j) = Count(st, j)
  BY <1>1, Zenon DEF Fits
<1>4. \A j \in DOMAIN files : Length(j) + PutsOn({}, j) = Len(files[j])
  BY <1>1, <1>2
<1>. QED  BY <1>3, <1>4, Zenon DEF Settles

(* The files, when nothing is done any more. *)
LEMMA TidyNone ==
    ASSUME FilesOK
    PROVE  Tidy({}) <=> IF Rec = <<>> THEN DOMAIN files = {} ELSE Settles(Rec[1])
<1>1. Fits(Rec[1], {}) <=> Settles(Rec[1])
  BY FitsNone
<1>. QED  BY <1>1, NoneLeft DEF Tidy

(* The opened queue has no files, or the recorded journals. *)
MemSettles(mq) ==
    \/ Unwritten(mq) /\ Rec = <<>> /\ DOMAIN files = {}
    \/ Sound(mq) /\ LogReady /\ Follows(mq.state) /\ Rec # <<>> /\ Settles(mq.state)

(* What the opened queue says of the files. *)
LEMMA MemFits ==
    ASSUME FilesOK, Tidy({}), NEW mq, MemOK(mq)
    PROVE  MemSettles(mq)
<1>1. IF Rec = <<>> THEN DOMAIN files = {} ELSE Settles(Rec[1])
  BY TidyNone
<1>2. CASE Unwritten(mq)
  <2>1. Rec = <<>>
    BY <1>2 DEF Unwritten, Rec, StateFile, Recorded, NoLines
  <2>. QED  BY <1>1, <1>2, <2>1 DEF MemSettles
<1>3. CASE Sound(mq) /\ LogReady /\ Follows(mq.state)
  <2>1. PICK st : st = mq.state
    OBVIOUS
  <2>2. Exists(st.rj) /\ Follows(st)
    BY <1>3, <2>1 DEF Sound, Handles
  <2>3. Rec # <<>>
    BY <1>1, <2>2 DEF Exists
  <2>4. PICK r : r = Rec[1]
    OBVIOUS
  <2>5. Settles(r)
    BY <1>1, <2>3, <2>4
  <2>6. r.rj \in DOMAIN files /\ r.wj \in DOMAIN files
    BY <2>5 DEF Settles
  <2>7. r.rj = st.rj /\ r.wj = st.wj /\ r.rcount = st.rcount /\ r.wcount = st.wcount
    BY <2>2, <2>3, <2>4, <2>6 DEF Follows, Exists
  <2>8. \A j : Count(st, j) = Count(r, j)
    BY <2>7 DEF Count
  <2>9. Settles(st)
    BY <2>5, <2>7, <2>8 DEF Settles
  <2>. QED  BY <1>3, <2>1, <2>3, <2>9 DEF MemSettles
<1>. QED  BY <1>2, <1>3 DEF MemOK

(* An opened queue that stores nothing has no messages in its journals. *)
LEMMA NothingStored ==
    ASSUME FilesOK, NEW mq, mq \in Queues, MemSettles(mq), ~qState(mq.state).hasStored
    PROVE  \A j \in DOMAIN files : files[j] = <<>>
<1>1. PICK st : st = mq.state
  OBVIOUS
<1>2. st.rcount \in Nat /\ st.wcount \in Nat /\ st.size \in Nat
  BY <1>1, QueueFields, StateFields
<1>3. st.rcount = 0 /\ st.wcount = 0
  <2>1. qState(st).hasStored = (st.size > 0 \/ st.rcount > 0 \/ st.wcount > 0)
    BY DEF qState
  <2>2. ~(st.size > 0 \/ st.rcount > 0 \/ st.wcount > 0)
    BY <1>1, <2>1
  <2>. QED  BY <1>2, <2>2
<1>4. CASE DOMAIN files = {}
  BY <1>4
<1>5. CASE Settles(st)
  <2>1. ASSUME NEW j \in DOMAIN files
        PROVE  files[j] = <<>>
    <3>1. Len(files[j]) = 0
      BY <1>3, <1>5 DEF Settles, Count
    <3>2. files[j] \in Seq(Content)
      BY DEF FilesOK
    <3>. QED  BY <3>1, <3>2
  <2>. QED  BY <2>1
<1>. QED  BY <1>1, <1>4, <1>5 DEF MemSettles
-----------------------------------------------------------------------------
(* Effects without faults *)

(* The first effect, and those left. *)
LEMMA ListSplit ==
    ASSUME NEW l, IsList(l), l # <<>>
    PROVE  IsList(Tail(l)) /\ Range(l) = {Head(l)} \cup Range(Tail(l))
<1>1. PICK S : l \in Seq(S)
  BY DEF IsList
<1>2. PICK e, k : e = Head(l) /\ k = Tail(l)
  OBVIOUS
<1>3. k \in Seq(S) /\ e \in S
  BY <1>1, <1>2
<1>4. l = <<e>> \o k
  <2>1. <<e>> \o k \in Seq(S)
    BY <1>3
  <2>2. Len(<<e>> \o k) = Len(l) /\ \A i \in 1..Len(l) : (<<e>> \o k)[i] = l[i]
    BY <1>1, <1>2, <1>3
  <2>. QED  BY <1>1, <2>1, <2>2, SameSeq
<1>5. IsList(k)
  BY <1>3 DEF IsList
<1>6. Range(l) = {e} \cup Range(k)
  BY <1>4, <1>5, RangeCons
<1>. QED  BY <1>2, <1>5, <1>6

(* What is tidy of the effects left afterwards. *)
LEMMA TidyTodo ==
    ASSUME NEW E, E = Range(todo)', Tidy(E)'
    PROVE  Tidy(Range(todo))'
<1>1. CreatedBy(Range(todo))' = CreatedBy(E)
  BY Zenon DEF CreatedBy
<1>2. RemovedBy(Range(todo))' = RemovedBy(E)
  BY Zenon DEF RemovedBy
<1>3. LinesOf(Range(todo))' = LinesOf(E)
  BY Zenon DEF LinesOf
<1>4. Retires(Range(todo))' <=> Retires(E)
  BY DEF Retires
<1>5. LeftBy(Range(todo))' = LeftBy(E)'
  BY <1>1, <1>2 DEF LeftBy, CreatedBy, RemovedBy
<1>6. \A j : PutsOn(Range(todo), j)' = PutsOn(E, j)
  BY DEF PutsOn
<1>7. \A st : Fits(st, Range(todo))' <=> Fits(st, E)'
  <2>1. \A j : PutsOn(E, j)' = PutsOn(E, j)
    BY DEF PutsOn
  <2>. QED  BY <1>5, <1>6, <2>1 DEF Fits, Count
<1>8. Fits(Rec[1], Range(todo))' <=> Fits(Rec[1], E)'
  <2>1. \A j : PutsOn(E, j)' = PutsOn(E, j)
    BY DEF PutsOn
  <2>. QED  BY <1>5, <1>6, <2>1 DEF Fits, Count
<1>9. /\ CreatedBy(E)' = CreatedBy(E) /\ RemovedBy(E)' = RemovedBy(E)
      /\ LinesOf(E)' = LinesOf(E) /\ (Retires(E)' <=> Retires(E))
  BY DEF CreatedBy, RemovedBy, LinesOf, Retires
<1>. QED  BY <1>1, <1>2, <1>3, <1>4, <1>5, <1>7, <1>8, <1>9, Zenon DEF Tidy

(* The log is as before. *)
LEMMA SameLog ==
    ASSUME UNCHANGED <<log, bak>>
    PROVE  Rec' = Rec
    BY DEF Rec, StateFile, Recorded

(* A state is logged. *)
LEMMA LineTidies ==
    ASSUME DiskOK, DiskOK', NEW e, NEW F, e.do = "line", HeadFits(e, F), Tidy({e} \cup F),
           e.st \in States, log' = AddLine(log, <<e.st>>), UNCHANGED <<files, bak>>
    PROVE  Tidy(F)'
<1>1. LinesOf(F) = {} => Rec' = <<e.st>>
  <2>1. SUFFICES ASSUME LinesOf(F) = {}
                 PROVE  Rec' = <<e.st>>
    OBVIOUS
  <2>2. log.newline /\ (bak = NoLines \/ Rec = <<e.st>>)
    BY <2>1 DEF HeadFits
  <2>3. CASE bak = NoLines
    <3>1. LogOK(log)
      BY DEF DiskOK
    <3>2. Recorded(AddLine(log, <<e.st>>)) = <<e.st>>
      BY <2>2, <3>1, LineIsRecorded
    <3>3. Rec' = Recorded(log')
      BY <2>3 DEF Rec, StateFile, Recorded, NoLines
    <3>. QED  BY <3>2, <3>3
  <2>4. CASE bak # NoLines
    <3>1. Rec' = Rec
      BY <2>4 DEF Rec, StateFile, Recorded, NoLines
    <3>. QED  BY <2>2, <2>4, <3>1
  <2>. QED  BY <2>3, <2>4
<1>. QED  BY <1>1, TidyLog

(* A log is renamed or removed. *)
LEMMA RenameTidies ==
    ASSUME NEW e, NEW F, HeadFits(e, F), Tidy({e} \cup F), UNCHANGED files,
           \/ e.do = "restore" /\ log' = bak /\ bak' = NoLines
           \/ e.do = "temp" /\ bak' = log /\ log' = NoLines
           \/ e.do = "timed" /\ bak' = NoLines /\ UNCHANGED log
           \/ e.do = "retire" /\ log' = NoLines /\ UNCHANGED bak
    PROVE  Tidy(F)'
<1>1. e.do # "retire" => Plain({e})
  BY DEF Plain
<1>2. CASE e.do = "restore"
  <2>1. bak # NoLines /\ log' = bak /\ bak' = NoLines
    BY <1>2 DEF HeadFits
  <2>2. Rec' = Rec
    BY <2>1 DEF Rec, StateFile, Recorded, NoLines
  <2>. QED  BY <1>1, <1>2, <2>2, TidyPlain
<1>3. CASE e.do = "temp"
  <2>1. bak = NoLines /\ bak' = log /\ log' = NoLines
    BY <1>3 DEF HeadFits
  <2>2. Rec' = Rec
    BY <2>1 DEF Rec, StateFile, Recorded, NoLines
  <2>. QED  BY <1>1, <1>3, <2>2, TidyPlain
<1>4. CASE e.do = "timed"
  <2>1. /\ LinesOf(F) # {} \/ Rec = Recorded(log)
        /\ bak' = NoLines /\ log' = log
    BY <1>4 DEF HeadFits
  <2>2. Rec' = Recorded(log)
    BY <2>1 DEF Rec, StateFile, Recorded, NoLines
  <2>3. Tidy(F)
    BY <1>1, <1>4, PlainFits
  <2>4. LeftBy(F)' = LeftBy(F) /\ \A j : Length(j)' = Length(j)
    BY DEF LeftBy, CreatedBy, RemovedBy, Length, Exists
  <2>5. LinesOf(F) = {} /\ ~Retires(F) =>
          IF Rec' = <<>> THEN LeftBy(F) = {} ELSE Fits(Rec'[1], F)
    <3>1. LinesOf(F) = {} => Rec' = Rec
      BY <2>1, <2>2
    <3>. QED  BY <2>3, <3>1, TidyRecord
  <2>. QED  BY <2>3, <2>4, <2>5, TidyNext
<1>5. CASE e.do = "retire"
  <2>1. bak = NoLines /\ log' = NoLines /\ bak' = bak
    BY <1>5 DEF HeadFits
  <2>2. Rec' = <<>>
    BY <2>1 DEF Rec, StateFile, Recorded, NoLines
  <2>. QED  BY <1>5, <2>2, TidyLog
<1>. QED  BY <1>2, <1>3, <1>4, <1>5

(* Whatever the first effect does, what is left of them is tidy. *)
LEMMA EffectTidies ==
    ASSUME IInv, IInv', faults = <<>>, todo # <<>>, Step,
           NEW e, NEW F, e = Head(todo), HeadFits(e, F), Tidy({e} \cup F)
    PROVE  todo' = Tail(todo) /\ faults' = <<>> /\ Tidy(F)'
<1>1. DiskOK /\ FilesOK /\ DiskOK'
  BY DEF IInv, Typed, DiskOK
<1>2. CASE Done
  <2>1. todo' = Tail(todo) /\ faults' = <<>>
    BY <1>2 DEF Done
  <2>2. CASE DoMkdir
    <3>1. Plain({e}) /\ UNCHANGED <<files, log, bak>>
      BY <2>2 DEF DoMkdir, Doing, Plain
    <3>. QED  BY <2>1, <3>1, SameLog, TidyPlain
  <2>3. CASE DoCreate
    <3>1. /\ e.do = "create" /\ UNCHANGED <<log, bak>>
          /\ files' = [j \in DOMAIN files \cup {e.j} |-> IF Exists(j) THEN files[j] ELSE <<>>]
      BY <2>3 DEF DoCreate, Doing
    <3>. QED  BY <2>1, <3>1, SameLog, TidyCreate
  <2>4. CASE DoRemove
    <3>1. /\ e.do = "remove" /\ UNCHANGED <<log, bak>>
          /\ files' = [j \in DOMAIN files \ {e.j} |-> files[j]]
      BY <2>4 DEF DoRemove, Doing
    <3>. QED  BY <2>1, <3>1, SameLog, TidyRemove
  <2>5. CASE DoFixFileSize
    <3>1. /\ e.do = "fix" /\ UNCHANGED <<log, bak>>
          /\ files' = [files EXCEPT ![e.j] = SubSeq(@, 1, e.pos)]
      BY <2>5 DEF DoFixFileSize, Doing
    <3>. QED  BY <1>1, <2>1, <3>1, SameLog, TidyFix
  <2>6. CASE DoPut
    <3>1. /\ e.do = "put" /\ UNCHANGED <<log, bak>>
          /\ files' = [files EXCEPT ![e.j] = Append(@, e.msg)]
      BY <2>6 DEF DoPut, Doing
    <3>2. Exists(e.j) /\ \A x \in F : x.do \in {"line", "assign"}
      BY <3>1 DEF HeadFits
    <3>. QED  BY <1>1, <2>1, <3>1, <3>2, SameLog, TidyPut
  <2>7. CASE DoAppendState
    <3>1. e.do = "line" /\ UNCHANGED <<files, bak>> /\ log' = AddLine(log, <<e.st>>)
      BY <2>7 DEF DoAppendState, Doing
    <3>2. e.st \in States
      <4>1. Busy
        BY PhaseBusy DEF Resting
      <4>2. LineNext(e.st)
        BY <3>1, <4>1 DEF Busy, BeginsWith
      <4>. QED  BY <4>2 DEF LineNext, Stored
    <3>. QED  BY <1>1, <2>1, <3>1, <3>2, LineTidies
  <2>8. CASE DoRename
    <3>1. /\ UNCHANGED files
          /\ \/ e.do = "restore" /\ log' = bak /\ bak' = NoLines
             \/ e.do = "temp" /\ bak' = log /\ log' = NoLines
             \/ e.do = "timed" /\ bak' = NoLines /\ UNCHANGED log
             \/ e.do = "retire" /\ log' = NoLines /\ UNCHANGED bak
      BY <2>8 DEF DoRename, Doing
    <3>. QED  BY <2>1, <3>1, RenameTidies
  <2>9. CASE DoAssign \/ DoRead
    <3>1. Plain({e}) /\ UNCHANGED <<files, log, bak>>
      BY <2>9 DEF DoAssign, DoRead, Doing, Plain, disk
    <3>. QED  BY <2>1, <3>1, SameLog, TidyPlain
  <2>10. CASE DoRemoveDirectory
    <3>1. e.do = "rmdir" /\ files' = <<>> /\ log' = NoLines /\ bak' = NoLines
      BY <2>10 DEF DoRemoveDirectory, Doing
    <3>2. F = {}
      BY <3>1 DEF HeadFits
    <3>3. Rec' = <<>> /\ DOMAIN files' = {}
      <4>1. Rec' = <<>>
        BY <3>1 DEF Rec, StateFile, Recorded, NoLines
      <4>. QED  BY <3>1, <4>1
    <3>4. LeftBy(F)' = {} /\ LinesOf(F) = {} /\ CreatedBy(F) = {}
      <4>1. LeftBy(F)' = DOMAIN files'
        BY <3>2 DEF LeftBy, CreatedBy, RemovedBy
      <4>. QED  BY <3>2, <3>3, <4>1, NoneLeft
    <3>5. LinesOf(F)' = {} /\ CreatedBy(F)' = {}
      BY <3>4 DEF LinesOf, CreatedBy
    <3>. QED  BY <2>1, <3>2, <3>3, <3>4, <3>5 DEF Tidy
  <2>11. ~DoThrow
    <3>1. SUFFICES ASSUME DoThrow
                   PROVE  FALSE
      OBVIOUS
    <3>2. ThrownBy(e) # {} /\ errors' = errors \cup ThrownBy(e)
      BY <3>1 DEF DoThrow
    <3>3. "fail" \notin Range(faults')
      BY <2>1, RangeOf
    <3>4. errors' \subseteq {}
      BY <3>3 DEF IInv, Typed, NoStoreError
    <3>. QED  BY <3>2, <3>4
  <2>. QED  BY <2>2, <2>3, <2>4, <2>5, <2>6, <2>7, <2>8, <2>9, <2>10, <2>11, FirstEffect
<1>3. CASE ~Done
  <2>1. DoThrow
    BY <1>3, FirstEffect DEF DoMkdir, DoCreate, DoRemove, DoFixFileSize, DoPut, DoAppendState,
                             DoRename, DoAssign, DoRead, DoRemoveDirectory
  <2>2. /\ ThrownBy(e) # {} /\ errors' = errors \cup ThrownBy(e)
        /\ faults' = <<>>
    BY <2>1 DEF DoThrow
  <2>3. "fail" \notin Range(faults')
    BY <2>2, RangeOf
  <2>4. errors' \subseteq {}
    BY <2>3 DEF IInv, Typed, NoStoreError
  <2>. QED  BY <2>2, <2>4
<1>. QED  BY <1>2, <1>3

(* Without faults no error is thrown. *)
LEMMA NotThrown ==
    ASSUME IInv', faults = <<>>
    PROVE  ~DoThrow
<1>1. SUFFICES ASSUME DoThrow
               PROVE  FALSE
  OBVIOUS
<1>2. PICK e : e = Head(todo) /\ ThrownBy(e) # {} /\ errors' = errors \cup ThrownBy(e)
               /\ faults' = <<>>
  BY <1>1 DEF DoThrow
<1>3. "fail" \notin Range(faults')
  BY <1>2, RangeOf
<1>4. errors' \subseteq {}
  BY <1>3 DEF IInv, Typed, NoStoreError
<1>. QED  BY <1>2, <1>4

(* The queue that is closed stored nothing, if that is what is known. *)
LEMMA CloseUnstored ==
    ASSUME IInv, Closing, Unstored, NEW e, NEW F, todo # <<>>, e = Head(todo),
           F = Range(Tail(todo)), Tidy({e} \cup F), DoAssign
    PROVE  Unstored'
<1>1. todo = <<e>> /\ e = [do |-> "assign", mem |-> Closed, qstate |-> qstate]
  <2>1. PICK a : a = [do |-> "assign", mem |-> Closed, qstate |-> qstate]
    OBVIOUS
  <2>2. todo = <<a>>
    BY <2>1 DEF Closing
  <2>3. Head(todo) = a
    BY <2>2, FirstOf
  <2>. QED  BY <2>1, <2>2, <2>3
<1>2. mem' = Closed /\ qstate' = qstate /\ files' = files
  BY <1>1 DEF DoAssign, disk
<1>3. F = {}
  <2>1. Tail(<<e>>) = <<>>
    BY Tuples
  <2>. QED  BY <1>1, <2>1, RangeOf
<1>4. Tidy({})
  <2>1. Plain({e})
    BY <1>1 DEF Plain
  <2>. QED  BY <1>3, <2>1, PlainFits
<1>5. CASE ~mem.open
  BY <1>2, <1>5 DEF Unstored
<1>6. CASE mem.open
  <2>1. PICK mq : mq = mem
    OBVIOUS
  <2>2. MemOK(mq) /\ mq \in Queues /\ qstate = <<qState(mq.state)>> /\ FilesOK
    BY <1>6, <2>1 DEF Closing, Quiet, IInv, Remembered, Typed, DiskOK
  <2>3. MemSettles(mq)
    BY <1>4, <2>2, MemFits
  <2>4. qstate[1] = qState(mq.state)
    BY <2>2
  <2>5. ~qstate[1].hasStored => \A j \in DOMAIN files : files[j] = <<>>
    BY <2>2, <2>3, <2>4, NothingStored
  <2>. QED  BY <1>2, <2>5 DEF Unstored
<1>. QED  BY <1>5, <1>6

(* An effect leaves the journals of a queue without messages empty. *)
LEMMA EffectUnstored ==
    ASSUME IInv, IInv', faults = <<>>, todo # <<>>, Step, Unstored,
           NEW e, NEW F, e = Head(todo), F = Range(Tail(todo)), HeadFits(e, F), Tidy({e} \cup F)
    PROVE  Unstored'
<1>1. FilesOK
  BY DEF IInv, Typed, DiskOK
<1>2. ASSUME UNCHANGED <<mem, qstate>>,
             ~mem.open => \A j \in DOMAIN files' :
                            files'[j] = <<>> \/ (j \in DOMAIN files /\ files'[j] = files[j])
      PROVE  Unstored'
  BY <1>2 DEF Unstored
<1>3. CASE DoMkdir \/ DoAppendState \/ DoRename
  BY <1>2, <1>3 DEF DoMkdir, DoAppendState, DoRename
<1>4. CASE DoCreate
  BY <1>2, <1>4 DEF DoCreate, Exists
<1>5. CASE DoRemove
  BY <1>2, <1>5 DEF DoRemove
<1>6. CASE DoFixFileSize
  <2>1. /\ e.do = "fix" /\ UNCHANGED <<log, bak, mem, qstate>>
        /\ files' = [files EXCEPT ![e.j] = SubSeq(@, 1, e.pos)]
    BY <1>6 DEF DoFixFileSize, Doing
  <2>2. DOMAIN files' = DOMAIN files /\ \A j \in DOMAIN files : files'[j] = files[j]
    BY <1>1, <2>1, SameLog, TidyFix
  <2>. QED  BY <1>2, <2>1, <2>2
<1>7. CASE DoPut
  <2>1. mem.open /\ UNCHANGED <<mem, qstate>>
    BY <1>7 DEF DoPut, Doing, HeadFits
  <2>. QED  BY <1>2, <2>1
<1>8. CASE DoAssign
  <2>1. e.do = "assign" /\ mem' = e.mem
    BY <1>8 DEF DoAssign, Doing
  <2>2. e.mem.open \/ Closing
    BY <2>1 DEF HeadFits
  <2>3. CASE e.mem.open
    BY <2>1, <2>3 DEF Unstored
  <2>. QED  BY <1>8, <2>2, <2>3, CloseUnstored
<1>9. CASE DoRead
  <2>1. /\ e.do = "read"
        /\ \E m : mem' = [mem EXCEPT !.tip = m]
    BY <1>9 DEF DoRead, Doing
  <2>2. mem.open
    BY <2>1 DEF HeadFits
  <2>3. mem \in Queues
    BY <2>2 DEF IInv, Remembered
  <2>4. mem'.open
    BY <2>1, <2>3 DEF Queues
  <2>. QED  BY <2>4 DEF Unstored
<1>10. CASE DoRemoveDirectory
  BY <1>2, <1>10 DEF DoRemoveDirectory
<1>11. ~DoThrow
  BY NotThrown
<1>. QED  BY <1>3, <1>4, <1>5, <1>6, <1>7, <1>8, <1>9, <1>10, <1>11, FirstEffect

(* Every effect of an operation. *)
LEMMA EffectKeepsTidy ==
    ASSUME IInv, IInv', TInv, todo # <<>>, Step
    PROVE  TInv'
<1>1. SUFFICES ASSUME faults' = <<>>
               PROVE  Tidy(Range(todo))' /\ Unstored'
  BY DEF TInv
<1>2. faults = <<>>
  <2>1. faults' = faults
    BY FirstEffect DEF DoMkdir, DoCreate, DoRemove, DoFixFileSize, DoPut, DoAppendState, DoRename,
                       DoAssign, DoRead, DoRemoveDirectory, DoThrow, Done
  <2>. QED  BY <1>1, <2>1
<1>3. Tidy(Range(todo)) /\ Unstored
  BY <1>2 DEF TInv
<1>4. PICK e, F : e = Head(todo) /\ F = Range(Tail(todo))
  OBVIOUS
<1>5. HeadIs
  BY <1>2, HeadsAre
<1>6. HeadFits(e, F) /\ Range(todo) = {e} \cup F
  BY <1>4, <1>5, ListSplit DEF HeadIs
<1>7. Tidy({e} \cup F)
  BY <1>3, <1>6
<1>8. todo' = Tail(todo) /\ Tidy(F)'
  BY <1>2, <1>4, <1>6, <1>7, EffectTidies
<1>9. F = Range(todo)'
  BY <1>4, <1>8 DEF Range
<1>10. Tidy(Range(todo))'
  BY <1>8, <1>9, TidyTodo
<1>11. Unstored'
  BY <1>2, <1>3, <1>4, <1>6, <1>7, EffectUnstored
<1>. QED  BY <1>10, <1>11

-----------------------------------------------------------------------------
(* Plans that leave the journals tidy *)

(* What is planned is tidy. *)
LEMMA PlanTidies ==
    ASSUME TInv, UNCHANGED <<disk, mem, qstate, faults>>,
           NEW E, E = Range(todo)', faults = <<>> => Tidy(E)
    PROVE  TInv'
<1>1. SUFFICES ASSUME faults = <<>>
               PROVE  Tidy(Range(todo))' /\ Unstored'
  BY DEF TInv
<1>2. Rec' = Rec /\ files' = files
  BY SameLog DEF disk
<1>3. Tidy(E)'
  BY <1>1, <1>2, TidySame
<1>4. Unstored'
  BY <1>1 DEF TInv, Unstored, disk
<1>. QED  BY <1>3, <1>4, TidyTodo

(* Effects that have nothing to do with journals. *)
LEMMA TidyNothing ==
    ASSUME Tidy({}), NEW E, Plain(E)
    PROVE  Tidy(E)
<1>1. Tidy(E \cup {})
  BY PlainFits
<1>2. E \cup {} = E
  OBVIOUS
<1>. QED  BY <1>1, <1>2

(* Effects that lead to the journals of a state, which they log last. *)
LEMMA TidyTo ==
    ASSUME NEW E, NEW st, ~Retires(E),
           LinesOf(E) = {st} \/ (LinesOf(E) = {} /\ Rec = <<st>>),
           CreatedBy(E) \cap RemovedBy(E) = {},
           Fits(st, E),
           \A e \in E : e.do = "fix" => e.j \in LeftBy(E) /\ Length(e.j) = e.pos
    PROVE  Tidy(E)
<1>1. Rec = <<st>> => Rec # <<>> /\ Rec[1] = st
  OBVIOUS
<1>. QED  BY <1>1 DEF Tidy

(* A state is logged whose journals are there. *)
LEMMA TidyLogged ==
    ASSUME FilesOK, NEW st, Settles(st)
    PROVE  Tidy({AppendState(st)})
<1>1. PICK l : l = AppendState(st)
  OBVIOUS
<1>2. PICK E : E = {l}
  OBVIOUS
<1>3. l.do = "line" /\ l.st = st
  BY <1>1, EffectFields
<1>4. /\ RemovedBy(E) = {} /\ CreatedBy(E) = {} /\ LinesOf(E) = {st} /\ ~Retires(E)
      /\ \A j : PutsOn(E, j) = 0
  BY <1>2, <1>3, DoneByOne
<1>5. LeftBy(E) = DOMAIN files
  BY <1>4 DEF LeftBy
<1>6. \A j \in DOMAIN files : Length(j) = Len(files[j]) /\ Length(j) \in Nat
  BY LengthOf DEF Exists
<1>7. \A j \in DOMAIN files : Length(j) + PutsOn(E, j) = Len(files[j])
  BY <1>4, <1>6
<1>8. Fits(st, E)
  BY <1>5, <1>7 DEF Fits, Settles
<1>9. \A e \in E : e.do # "fix"
  BY <1>2, <1>3
<1>10. Tidy(E)
  BY <1>4, <1>8, <1>9, TidyTo
<1>. QED  BY <1>1, <1>2, <1>10

(* An empty queue is opened without its journals and without a state. *)
LEMMA TidyRetired ==
    ASSUME FilesOK, NEW st, Settles(st), st.rj = st.wj
    PROVE  Tidy({RetireLog, RemoveJournal(st.rj)})
<1>1. PICK l, r : l = RetireLog /\ r = RemoveJournal(st.rj)
  OBVIOUS
<1>2. PICK E : E = {l, r}
  OBVIOUS
<1>3. l.do = "retire" /\ r.do = "remove" /\ r.j = st.rj
  BY <1>1, EffectFields
<1>4. CreatedBy(E) = {}
  BY <1>2, <1>3 DEF CreatedBy
<1>5. RemovedBy(E) = {st.rj}
  BY <1>2, <1>3 DEF RemovedBy
<1>6. LinesOf(E) = {}
  BY <1>2, <1>3 DEF LinesOf
<1>7. Retires(E)
  BY <1>2, <1>3 DEF Retires
<1>8. LeftBy(E) = {}
  BY <1>4, <1>5 DEF LeftBy, Settles
<1>9. \A e \in E : e.do # "fix"
  BY <1>2, <1>3
<1>10. Tidy(E)
  BY <1>4, <1>6, <1>7, <1>8, <1>9 DEF Tidy
<1>. QED  BY <1>1, <1>2, <1>10

(* An empty queue is opened with a new journal instead of its own. *)
LEMMA TidyReplaced ==
    ASSUME FilesOK, NEW st, Settles(st), st.rj = st.wj,
           NEW j \in JournalId, ~Exists(j), NEW new, new = newMsgQueueState(j)
    PROVE  Tidy({AppendState(new), CreateJournal(j), RemoveJournal(st.rj)})
<1>1. PICK l, c, r : l = AppendState(new) /\ c = CreateJournal(j) /\ r = RemoveJournal(st.rj)
  OBVIOUS
<1>2. PICK E : E = {l, c, r}
  OBVIOUS
<1>3. /\ l.do = "line" /\ l.st = new /\ c.do = "create" /\ c.j = j
      /\ r.do = "remove" /\ r.j = st.rj
  BY <1>1, EffectFields
<1>4. CreatedBy(E) = {j}
  BY <1>2, <1>3 DEF CreatedBy
<1>5. RemovedBy(E) = {st.rj}
  BY <1>2, <1>3 DEF RemovedBy
<1>6. LinesOf(E) = {new}
  BY <1>2, <1>3 DEF LinesOf
<1>7. ~Retires(E) /\ \A i : PutsOn(E, i) = 0
  BY <1>2, <1>3 DEF Retires, PutsOn
<1>8. new.rj = j /\ new.wj = j /\ new.rcount = 0 /\ new.wcount = 0
  BY DEF newMsgQueueState
<1>9. j # st.rj
  BY DEF Settles, Exists
<1>10. LeftBy(E) = {j}
  BY <1>4, <1>5, <1>9 DEF LeftBy, Settles
<1>11. Length(j) = 0
  BY LengthOf
<1>12. Fits(new, E)
  BY <1>7, <1>8, <1>10, <1>11 DEF Fits, Count
<1>13. \A e \in E : e.do # "fix"
  BY <1>2, <1>3
<1>14. Tidy(E)
  BY <1>4, <1>5, <1>6, <1>7, <1>9, <1>12, <1>13, TidyTo
<1>. QED  BY <1>1, <1>2, <1>14

(* A queue is opened with its journals, which have the right size. *)
LEMMA TidyFixed ==
    ASSUME FilesOK, NEW st, st \in States, validQueueState(st), Settles(st), Rec = <<st>>,
           NEW E, E \subseteq {AppendState(st), FixFileSize(st.rj, st.rcount),
                               FixFileSize(st.wj, st.wcount)}
    PROVE  Tidy(E)
<1>1. PICK l, f, g : /\ l = AppendState(st) /\ f = FixFileSize(st.rj, st.rcount)
                     /\ g = FixFileSize(st.wj, st.wcount)
  OBVIOUS
<1>2. /\ l.do = "line" /\ l.st = st /\ f.do = "fix" /\ f.j = st.rj /\ f.pos = st.rcount
      /\ g.do = "fix" /\ g.j = st.wj /\ g.pos = st.wcount
  BY <1>1, EffectFields
<1>3. E \subseteq {l, f, g}
  BY <1>1
<1>4. CreatedBy(E) = {} /\ RemovedBy(E) = {}
  BY <1>2, <1>3 DEF CreatedBy, RemovedBy
<1>5. LinesOf(E) = {st} \/ LinesOf(E) = {}
  BY <1>2, <1>3 DEF LinesOf
<1>6. ~Retires(E) /\ \A i : PutsOn(E, i) = 0
  BY <1>2, <1>3 DEF Retires, PutsOn
<1>7. LeftBy(E) = DOMAIN files
  BY <1>4 DEF LeftBy
<1>8. \A j \in DOMAIN files : Length(j) = Len(files[j]) /\ Length(j) \in Nat
  BY LengthOf DEF Exists
<1>9. \A j \in DOMAIN files : Length(j) + PutsOn(E, j) = Len(files[j])
  BY <1>6, <1>8
<1>10. Fits(st, E)
  BY <1>7, <1>9 DEF Fits, Settles
<1>11. \A e \in E : e.do = "fix" => e.j \in LeftBy(E) /\ Length(e.j) = e.pos
  <2>1. st.rj \in DOMAIN files /\ st.wj \in DOMAIN files
    BY DEF Settles
  <2>2. Len(files[st.rj]) = st.rcount /\ Len(files[st.wj]) = st.wcount
    <3>1. st.rj = st.wj => st.rcount = st.wcount
      BY ValidState
    <3>. QED  BY <2>1, <3>1 DEF Settles, Count
  <2>3. Length(st.rj) = st.rcount /\ Length(st.wj) = st.wcount
    BY <1>8, <2>1, <2>2
  <2>. QED  BY <1>2, <1>3, <1>7, <2>1, <2>3
<1>. QED  BY <1>4, <1>5, <1>6, <1>10, <1>11, TidyTo

(* A message is put in a journal, and the state that counts it is logged.  *)
LEMMA TidyWritten ==
    ASSUME FilesOK, NEW st \in States, NEW h \in JournalId, NEW pos \in Nat, NEW msg \in Message,
           NEW C, C \subseteq {CreateJournal(h)},
           Length(h) = pos, DOMAIN files \cup CreatedBy(C) = {st.rj, h},
           h # st.rj => Exists(st.rj) /\ Len(files[st.rj]) = st.rcount
    PROVE  Tidy(C \cup {FixFileSize(h, pos), PutMsg(h, msg), AppendState(After(st, h, pos, msg))})
<1>1. PICK a : a = After(st, h, pos, msg)
  OBVIOUS
<1>2. /\ a.rj = st.rj /\ a.wj = h /\ a.wcount = pos + 1
      /\ h = st.rj => a.rcount = pos + 1
      /\ h # st.rj => a.rcount = st.rcount
  BY <1>1, AfterFields DEF IsAfter
<1>3. PICK c, f, p, l : /\ c = CreateJournal(h) /\ f = FixFileSize(h, pos)
                        /\ p = PutMsg(h, msg) /\ l = AppendState(a)
  OBVIOUS
<1>4. /\ c.do = "create" /\ f.do = "fix" /\ f.j = h /\ f.pos = pos
      /\ p.do = "put" /\ p.j = h /\ l.do = "line" /\ l.st = a
  BY <1>3, EffectFields
<1>5. C \subseteq {c}
  BY <1>3
<1>6. PICK E : E = C \cup {f, p, l}
  OBVIOUS
<1>7. CreatedBy(E) = CreatedBy(C)
  BY <1>4, <1>6 DEF CreatedBy
<1>8. RemovedBy(E) = {}
  BY <1>4, <1>5, <1>6 DEF RemovedBy
<1>9. LinesOf(E) = {a}
  BY <1>4, <1>5, <1>6 DEF LinesOf
<1>10. ~Retires(E)
  BY <1>4, <1>5, <1>6 DEF Retires
<1>11. PutsOn(E, h) = 1 /\ \A j : j # h => PutsOn(E, j) = 0
  <2>1. \A e \in E : e.do = "put" => e = p
    BY <1>4, <1>5, <1>6
  <2>2. p \in E
    BY <1>6
  <2>. QED  BY <1>4, <2>1, <2>2 DEF PutsOn
<1>12. LeftBy(E) = {st.rj, h}
  BY <1>7, <1>8 DEF LeftBy
<1>13. h # st.rj => Length(st.rj) = st.rcount
  BY LengthOf
<1>14. Length(h) + PutsOn(E, h) = Count(a, h)
  <2>1. Length(h) + PutsOn(E, h) = pos + 1
    BY <1>11
  <2>. QED  BY <1>2, <2>1 DEF Count
<1>15. h # st.rj => Length(st.rj) + PutsOn(E, st.rj) = Count(a, st.rj)
  <2>1. SUFFICES ASSUME h # st.rj
                 PROVE  Length(st.rj) + PutsOn(E, st.rj) = Count(a, st.rj)
    OBVIOUS
  <2>2. PutsOn(E, st.rj) = 0 /\ Length(st.rj) = st.rcount /\ st.rcount \in Nat
    BY <1>11, <1>13, <2>1, StateFields
  <2>3. Length(st.rj) + PutsOn(E, st.rj) = st.rcount
    BY <2>2
  <2>. QED  BY <1>2, <2>1, <2>3 DEF Count
<1>16. Fits(a, E)
  BY <1>2, <1>12, <1>14, <1>15 DEF Fits
<1>17. \A e \in E : e.do = "fix" => e.j \in LeftBy(E) /\ Length(e.j) = e.pos
  <2>1. \A e \in E : e.do = "fix" => e = f
    BY <1>4, <1>5, <1>6
  <2>. QED  BY <1>4, <1>12, <2>1
<1>18. Tidy(E)
  BY <1>8, <1>9, <1>10, <1>16, <1>17, TidyTo
<1>. QED  BY <1>1, <1>3, <1>6, <1>18

(* The journal read to its end is removed, and the state that reads from    *)
(* the journal written to is logged.                                        *)
LEMMA TidySwitched ==
    ASSUME FilesOK, NEW st \in States, Settles(st), st.rj # st.wj
    PROVE  Tidy({RemoveJournal(st.rj), AppendState(Switched(st))})
<1>1. PICK a : a = Switched(st)
  OBVIOUS
<1>2. a.rj = st.wj /\ a.wj = st.wj /\ a.rcount = st.wcount
  BY <1>1, SwitchedFields
<1>3. PICK r, l : r = RemoveJournal(st.rj) /\ l = AppendState(a)
  OBVIOUS
<1>4. r.do = "remove" /\ r.j = st.rj /\ l.do = "line" /\ l.st = a
  BY <1>3, EffectFields
<1>5. PICK E : E = {r, l}
  OBVIOUS
<1>6. CreatedBy(E) = {}
  BY <1>4, <1>5 DEF CreatedBy
<1>7. RemovedBy(E) = {st.rj}
  BY <1>4, <1>5 DEF RemovedBy
<1>8. LinesOf(E) = {a}
  BY <1>4, <1>5 DEF LinesOf
<1>9. ~Retires(E) /\ \A j : PutsOn(E, j) = 0
  BY <1>4, <1>5 DEF Retires, PutsOn
<1>10. LeftBy(E) = {st.wj}
  BY <1>6, <1>7 DEF LeftBy, Settles
<1>11. Length(st.wj) = st.wcount /\ st.wcount \in Nat
  <2>1. Exists(st.wj) /\ Len(files[st.wj]) = Count(st, st.wj)
    BY DEF Settles, Exists
  <2>. QED  BY <2>1, LengthOf, StateFields DEF Count
<1>12. Length(st.wj) + PutsOn(E, st.wj) = Count(a, st.wj)
  <2>1. Length(st.wj) + PutsOn(E, st.wj) = st.wcount
    BY <1>9, <1>11
  <2>. QED  BY <1>2, <2>1 DEF Count
<1>13. Fits(a, E)
  BY <1>2, <1>10, <1>12 DEF Fits
<1>14. \A e \in E : e.do # "fix"
  BY <1>4, <1>5
<1>15. Tidy(E)
  BY <1>6, <1>7, <1>8, <1>9, <1>13, <1>14, TidyTo
<1>. QED  BY <1>1, <1>3, <1>5, <1>15

-----------------------------------------------------------------------------
(* What is planned is tidy *)

(* What is planned, by the effects in the list. *)
LEMMA ListTidies ==
    ASSUME TInv, UNCHANGED <<disk, mem, qstate, faults>>,
           NEW l, todo' = l, faults = <<>> => Tidy(Range(l))
    PROVE  TInv'
<1>1. PICK E : E = Range(l)
  OBVIOUS
<1>2. E = Range(todo)'
  BY <1>1 DEF Range
<1>3. faults = <<>> => Tidy(E)
  BY <1>1
<1>. QED  BY <1>2, <1>3, PlanTidies

(* Effects that have nothing to do with journals come with others. *)
LEMMA TidyWith ==
    ASSUME NEW P, Plain(P), NEW F, Tidy(F), NEW E, E = P \cup F
    PROVE  Tidy(E)
    BY PlainFits

(* The same, of a list. *)
LEMMA TidyList ==
    ASSUME NEW l, NEW P, Plain(P), NEW F, Tidy(F), Range(l) = P \cup F
    PROVE  Tidy(Range(l))
    BY PlainFits

(* Between two steps, no effects are left. *)
LEMMA RestTidy ==
    ASSUME TInv, todo = <<>>, faults = <<>>
    PROVE  Tidy({})
<1>1. Range(<<>>) = {}
  BY RangeOf
<1>. QED  BY <1>1 DEF TInv

(* A step without effects. *)
LEMMA EmptyTidies ==
    ASSUME TInv, todo = <<>>, todo' = <<>>, UNCHANGED <<disk, mem, qstate, faults>>
    PROVE  TInv'
<1>1. PICK l : l = <<>>
  OBVIOUS
<1>2. Range(l) = {}
  BY <1>1, RangeOf
<1>3. faults = <<>> => Tidy(Range(l))
  BY <1>2, RestTidy
<1>4. todo' = l
  BY <1>1
<1>. QED  BY <1>3, <1>4, ListTidies

(* A step with one effect, that has nothing to do with journals. *)
LEMMA SingleTidies ==
    ASSUME TInv, todo = <<>>, NEW e, todo' = <<e>>, UNCHANGED <<disk, mem, qstate, faults>>,
           e.do \notin {"create", "remove", "fix", "put", "line", "retire"}
    PROVE  TInv'
<1>1. PICK l : l = <<e>>
  OBVIOUS
<1>2. PICK P : P = {e}
  OBVIOUS
<1>3. Range(l) = P
  BY <1>1, <1>2, RangeOf
<1>4. Plain(P)
  BY <1>2 DEF Plain
<1>5. faults = <<>> => Tidy(Range(l))
  BY <1>3, <1>4, RestTidy, TidyNothing
<1>6. todo' = l
  BY <1>1
<1>. QED  BY <1>5, <1>6, ListTidies

(* The effects of a backup. *)
LEMMA BackupRange ==
    ASSUME NEW s, NEW backup \in BOOLEAN
    PROVE  /\ IsList(openBackupQueueState(s, backup))
           /\ Range(openBackupQueueState(s, backup))
                = IF backup THEN {TempBackup, AppendState(s), TimedBackup} ELSE {}
<1>1. PICK t, l, d : t = TempBackup /\ l = AppendState(s) /\ d = TimedBackup
  OBVIOUS
<1>2. openBackupQueueState(s, backup) = IF backup THEN <<t, l, d>> ELSE <<>>
  BY <1>1 DEF openBackupQueueState, Optional
<1>3. /\ IsList(<<t, l, d>>) /\ Range(<<t, l, d>>) = {t, l, d}
      /\ IsList(<<>>) /\ Range(<<>>) = {}
  BY RangeOf
<1>. QED  BY <1>1, <1>2, <1>3

(* What a queue is opened with, after a backup that is found. *)
LEMMA OpenTodo ==
    ASSUME TInv, UNCHANGED <<disk, mem, qstate, faults>>, NEW rest, IsList(rest),
           todo' = Optional(bak # NoLines, <<RestoreBackup>>) \o rest,
           faults = <<>> => Tidy(Range(rest))
    PROVE  TInv'
<1>1. PICK r : r = RestoreBackup
  OBVIOUS
<1>2. r.do = "restore"
  BY <1>1, EffectFields
<1>3. PICK f : f = Optional(bak # NoLines, <<r>>)
  OBVIOUS
<1>4. IsList(f) /\ (Range(f) = {r} \/ Range(f) = {})
  BY <1>3, RangeOf DEF Optional
<1>5. PICK P : P = Range(f)
  OBVIOUS
<1>6. Plain(P)
  BY <1>2, <1>4, <1>5 DEF Plain
<1>7. PICK l : l = f \o rest
  OBVIOUS
<1>8. Range(l) = P \cup Range(rest)
  BY <1>4, <1>5, <1>7, RangeJoined
<1>9. faults = <<>> => Tidy(Range(l))
  BY <1>6, <1>8, TidyList
<1>10. todo' = l
  BY <1>1, <1>3, <1>7
<1>. QED  BY <1>9, <1>10, ListTidies

(* A queue without a state is opened. *)
LEMMA TidyNewQueue ==
    ASSUME FilesOK, Tidy({}), Rec = <<>>, NEW backup \in BOOLEAN, NEW mq,
           NEW rest, rest = Optional(backup, <<RetireLog>>) \o <<Assign(mq)>>
    PROVE  IsList(rest) /\ Tidy(Range(rest))
<1>1. PICK r, a : r = RetireLog /\ a = Assign(mq)
  OBVIOUS
<1>2. r.do = "retire" /\ a.do = "assign"
  BY <1>1, EffectFields
<1>3. PICK f : f = Optional(backup, <<r>>)
  OBVIOUS
<1>4. IsList(f) /\ Range(f) = IF backup THEN {r} ELSE {}
  BY <1>3, RangeOf DEF Optional
<1>5. PICK o : o = <<a>>
  OBVIOUS
<1>6. IsList(o) /\ Range(o) = {a}
  BY <1>5, RangeOf
<1>7. rest = f \o o
  BY <1>1, <1>3, <1>5
<1>8. IsList(rest) /\ Range(rest) = Range(f) \cup Range(o)
  <2>1. IsList(f) /\ IsList(o)
    BY <1>4, <1>6
  <2>. QED  BY <1>7, <2>1, RangeJoined
<1>9. PICK E : E = Range(rest)
  OBVIOUS
<1>10. E \subseteq {r, a}
  BY <1>4, <1>6, <1>8, <1>9
<1>11. CreatedBy(E) = {} /\ RemovedBy(E) = {} /\ LinesOf(E) = {}
  BY <1>2, <1>10 DEF CreatedBy, RemovedBy, LinesOf
<1>12. LeftBy(E) = {}
  <2>1. DOMAIN files = {}
    BY TidyNone
  <2>. QED  BY <1>11, <2>1 DEF LeftBy
<1>13. \A e \in E : e.do # "fix"
  BY <1>2, <1>10
<1>14. Tidy(E)
  BY <1>11, <1>12, <1>13 DEF Tidy
<1>. QED  BY <1>8, <1>9, <1>14

(* An empty queue is opened. *)
LEMMA TidyEmptied ==
    ASSUME FilesOK, NEW st, Settles(st), st.wj = st.rj, NEW w \in BOOLEAN, NEW backup \in BOOLEAN,
           newJournalId \in JournalId, ~Exists(newJournalId),
           NEW rest, rest = removeJournals(st, w, backup)
    PROVE  IsList(rest) /\ Tidy(Range(rest))
<1>1. PICK j : j = newJournalId
  OBVIOUS
<1>2. PICK new : new = newMsgQueueState(j)
  OBVIOUS
<1>3. /\ removeJournals(st, TRUE, backup) =
             openBackupQueueState(new, backup)
               \o <<AppendState(new), CreateJournal(j), RemoveJournal(st.rj),
                    Assign(Opened(new, j, 0))>>
      /\ removeJournals(st, FALSE, backup) =
             <<RetireLog, RemoveJournal(st.rj), Assign(Opened(new, 0, 0))>>
  <2>1. RemovesAll(st, backup, j, new)
    BY <1>1, <1>2, RemoveJournalsOf
  <2>. QED  BY <2>1 DEF RemovesAll
<1>4. PICK t, l, d, c, r : /\ t = TempBackup /\ l = AppendState(new) /\ d = TimedBackup
                           /\ c = CreateJournal(j) /\ r = RemoveJournal(st.rj)
  OBVIOUS
<1>5. t.do = "temp" /\ d.do = "timed"
  BY <1>4, EffectFields
<1>6. CASE w = TRUE
  <2>1. PICK a : a = Assign(Opened(new, j, 0))
    OBVIOUS
  <2>2. a.do = "assign"
    BY <2>1, EffectFields
  <2>3. PICK b : b = openBackupQueueState(new, backup)
    OBVIOUS
  <2>4. IsList(b) /\ Range(b) = IF backup THEN {t, l, d} ELSE {}
    BY <1>4, <2>3, BackupRange
  <2>5. PICK k : k = <<l, c, r, a>>
    OBVIOUS
  <2>6. IsList(k) /\ Range(k) = {l, c, r, a}
    BY <2>5, RangeOf
  <2>7. rest = b \o k
    BY <1>3, <1>4, <1>6, <2>1, <2>3, <2>5
  <2>8. IsList(rest) /\ Range(rest) = Range(b) \cup Range(k)
    BY <2>4, <2>6, <2>7, RangeJoined
  <2>9. PICK F : F = {l, c, r}
    OBVIOUS
  <2>10. Tidy(F)
    <3>1. Tidy({AppendState(new), CreateJournal(j), RemoveJournal(st.rj)})
      BY <1>1, <1>2, TidyReplaced
    <3>. QED  BY <1>4, <2>9, <3>1
  <2>11. PICK P : P = IF backup THEN {t, d, a} ELSE {a}
    OBVIOUS
  <2>12. Plain(P)
    BY <1>5, <2>2, <2>11 DEF Plain
  <2>13. Range(rest) = P \cup F
    BY <2>4, <2>6, <2>8, <2>9, <2>11
  <2>14. Tidy(Range(rest))
    BY <2>10, <2>12, <2>13, TidyList
  <2>. QED  BY <2>8, <2>14
<1>7. CASE w = FALSE
  <2>1. PICK a, x : a = Assign(Opened(new, 0, 0)) /\ x = RetireLog
    OBVIOUS
  <2>2. a.do = "assign"
    BY <2>1, EffectFields
  <2>3. rest = <<x, r, a>>
    BY <1>3, <1>4, <1>7, <2>1
  <2>4. IsList(rest) /\ Range(rest) = {x, r, a}
    BY <2>3, RangeOf
  <2>5. PICK F, P : F = {x, r} /\ P = {a}
    OBVIOUS
  <2>6. Tidy(F)
    <3>1. Tidy({RetireLog, RemoveJournal(st.rj)})
      BY TidyRetired
    <3>. QED  BY <1>4, <2>1, <2>5, <3>1
  <2>7. Plain(P)
    BY <2>2, <2>5 DEF Plain
  <2>8. Range(rest) = P \cup F
    BY <2>4, <2>5
  <2>9. Tidy(Range(rest))
    BY <2>6, <2>7, <2>8, TidyList
  <2>. QED  BY <2>4, <2>9
<1>. QED  BY <1>6, <1>7

(* A queue with messages is opened: both its journals are there. *)
LEMMA TidyStored ==
    ASSUME FilesOK, NEW st, st \in States, validQueueState(st), Settles(st), Rec = <<st>>,
           NEW backup \in BOOLEAN,
           NEW rest, rest = openBackupQueueState(st, backup) \o openJournals(st)
    PROVE  IsList(rest) /\ Tidy(Range(rest))
<1>1. PICK l, f, g : /\ l = AppendState(st) /\ f = FixFileSize(st.rj, st.rcount)
                     /\ g = FixFileSize(st.wj, st.wcount)
  OBVIOUS
<1>2. PICK t, d : t = TempBackup /\ d = TimedBackup
  OBVIOUS
<1>3. t.do = "temp" /\ d.do = "timed"
  BY <1>2, EffectFields
<1>4. Exists(st.rj) /\ Exists(st.wj) /\ (st.rj = st.wj => st.rcount = st.wcount)
  BY ValidState DEF Settles, Exists
<1>5. PICK b, k : b = openBackupQueueState(st, backup) /\ k = openJournals(st)
  OBVIOUS
<1>6. IsList(b) /\ Range(b) = IF backup THEN {t, l, d} ELSE {}
  BY <1>1, <1>2, <1>5, BackupRange
<1>7. \E a : a.do = "assign" /\ (k = <<f, a>> \/ k = <<f, g, a>>)
  <2>1. CASE st.rj = st.wj
    <3>1. k = <<f, Assign(Opened(st, st.rj, 0))>>
      BY <1>1, <1>4, <1>5, <2>1 DEF openJournals
    <3>. QED  BY <3>1, EffectFields
  <2>2. CASE st.rj # st.wj
    <3>1. PICK a : a = Assign(Opened(st, st.rj, st.wj))
      OBVIOUS
    <3>2. k = <<f>> \o <<g, a>>
      BY <1>1, <1>4, <1>5, <2>2, <3>1 DEF openJournals
    <3>3. k = <<f, g, a>>
      BY <3>2, JoinOneTwo
    <3>. QED  BY <3>1, <3>3, EffectFields
  <2>. QED  BY <2>1, <2>2
<1>8. PICK a : a.do = "assign" /\ (k = <<f, a>> \/ k = <<f, g, a>>)
  BY <1>7
<1>9. IsList(k) /\ (Range(k) = {f, a} \/ Range(k) = {f, g, a})
  BY <1>8, RangeOf
<1>10. rest = b \o k
  BY <1>5
<1>11. IsList(rest) /\ Range(rest) = Range(b) \cup Range(k)
  BY <1>6, <1>9, <1>10, RangeJoined
<1>12. PICK F, P : F = Range(rest) \cap {l, f, g} /\ P = Range(rest) \cap {t, d, a}
  OBVIOUS
<1>13. Tidy(F)
  <2>1. F \subseteq {AppendState(st), FixFileSize(st.rj, st.rcount), FixFileSize(st.wj, st.wcount)}
    BY <1>1, <1>12
  <2>. QED  BY <2>1, TidyFixed
<1>14. Plain(P)
  BY <1>3, <1>8, <1>12 DEF Plain
<1>15. Range(rest) = P \cup F
  BY <1>6, <1>9, <1>11, <1>12
<1>16. Tidy(Range(rest))
  BY <1>13, <1>14, <1>15, TidyList
<1>. QED  BY <1>11, <1>16

(* Open: openMsgQueue, or nothing if the queue is open. *)
LEMMA OpenTidies ==
    ASSUME IInv, TInv, Resting, Open
    PROVE  TInv'
<1>1. DiskOK /\ FilesOK /\ Recoverable /\ JobOK /\ todo = <<>>
  BY DEF IInv, Typed, DiskOK, Resting
<1>2. job # <<>> /\ Head(job).step = "open" /\ unusedIds # {}
  BY DEF Open, NextStep
<1>3. CASE mem.open
  <2>1. todo' = <<>> /\ UNCHANGED <<disk, mem, qstate, faults>>
    BY <1>3 DEF Open, Plan
  <2>. QED  BY <1>1, <2>1, EmptyTidies
<1>4. CASE ~mem.open
  <2>1. PICK backup \in shouldBackup(StateFile) : Plan(openMsgQueue(Head(job).forWrite, backup), <<>>)
    BY <1>4 DEF Open
  <2>2. PICK w : w = Head(job).forWrite
    OBVIOUS
  <2>3. w \in BOOLEAN
    BY <1>1, <1>2, <2>2, OpensWhat
  <2>4. todo' = openMsgQueue(w, backup) /\ UNCHANGED <<disk, mem, qstate, faults>>
    BY <2>1, <2>2 DEF Plan
  <2>5. backup \in BOOLEAN
    <3>1. LogOK(StateFile)
      BY <1>1, RecOf
    <3>. QED  BY <3>1, BackupOf
  <2>6. ~Unreadable(StateFile)
    BY <1>1, NothingUnreadable
  <2>7. PICK j : j = newJournalId
    OBVIOUS
  <2>8. j \in JournalId /\ ~Exists(j)
    BY <1>1, <1>2, <2>7, UnusedId
  <2>9. PICK front : front = Optional(bak # NoLines, <<RestoreBackup>>)
    OBVIOUS
  <2>10. PICK mq : mq = Opened(newMsgQueueState(j), 0, 0)
    OBVIOUS
  <2>11. SUFFICES ASSUME faults = <<>>
                  PROVE  TInv'
    <3>1. faults # <<>> => TInv'
      BY <2>4 DEF TInv
    <3>. QED  BY <3>1
  <2>12. Tidy({})
    BY <1>1, <2>11, RestTidy
  <2>13. CASE ~dir
    <3>1. PICK a : a = Assign(mq)
      OBVIOUS
    <3>2. a.do = "assign"
      BY <3>1, EffectFields
    <3>3. PICK rest : rest = <<a>>
      OBVIOUS
    <3>4. todo' = front \o rest
      BY <2>4, <2>7, <2>9, <2>10, <2>13, <3>1, <3>3 DEF openMsgQueue
    <3>5. IsList(rest) /\ Range(rest) = {a}
      BY <3>3, RangeOf
    <3>6. PICK P : P = {a}
      OBVIOUS
    <3>7. Plain(P)
      BY <3>2, <3>6 DEF Plain
    <3>8. Tidy(Range(rest))
      BY <2>12, <3>5, <3>6, <3>7, TidyNothing
    <3>. QED  BY <2>4, <2>9, <3>4, <3>5, <3>8, OpenTodo
  <2>14. CASE dir /\ Rec = <<>>
    <3>1. PICK rest : rest = Optional(backup, <<RetireLog>>) \o <<Assign(mq)>>
      OBVIOUS
    <3>2. todo' = front \o rest
      BY <2>4, <2>6, <2>7, <2>9, <2>10, <2>14, <3>1 DEF openMsgQueue, Rec
    <3>3. IsList(rest) /\ Tidy(Range(rest))
      BY <1>1, <2>5, <2>12, <2>14, <3>1, TidyNewQueue
    <3>. QED  BY <2>4, <2>9, <3>2, <3>3, OpenTodo
  <2>15. CASE dir /\ Rec # <<>>
    <3>1. PICK st : st = Rec[1]
      OBVIOUS
    <3>2. Settles(st)
      BY <1>1, <2>12, <2>15, <3>1, TidyNone
    <3>3. Rec = <<st>> /\ st \in States
      BY <1>1, <2>15, <3>1, RecOf
    <3>4. Stored(st) /\ validQueueState(st)
      BY <1>1, <2>15, <3>1 DEF Recoverable, Stored
    <3>5. CASE st.size = 0
      <4>1. PICK rest : rest = removeJournals(st, w, backup)
        OBVIOUS
      <4>2. todo' = front \o rest
        BY <2>4, <2>6, <2>9, <2>15, <3>1, <3>5, <4>1 DEF openMsgQueue, Rec
      <4>3. st.wj = st.rj
        BY <3>3, <3>4, <3>5, ValidState, StoredHolds DEF Stored
      <4>4. IsList(rest) /\ Tidy(Range(rest))
        BY <1>1, <2>3, <2>5, <2>7, <2>8, <3>2, <4>1, <4>3, TidyEmptied
      <4>. QED  BY <2>4, <2>9, <4>2, <4>4, OpenTodo
    <3>6. CASE st.size # 0
      <4>1. PICK rest : rest = openBackupQueueState(st, backup) \o openJournals(st)
        OBVIOUS
      <4>2. todo' = front \o rest
        BY <2>4, <2>6, <2>9, <2>15, <3>1, <3>6, <4>1 DEF openMsgQueue, Rec
      <4>3. IsList(rest) /\ Tidy(Range(rest))
        BY <1>1, <2>5, <3>2, <3>3, <3>4, <4>1, TidyStored
      <4>. QED  BY <2>4, <2>9, <4>2, <4>3, OpenTodo
    <3>. QED  BY <3>5, <3>6
  <2>. QED  BY <2>13, <2>14, <2>15
<1>. QED  BY <1>3, <1>4

(* A list that ends with the assignment of a queue. *)
Updates(u, E) == IsList(u) /\ \E a : a.do = "assign" /\ Range(u) = E \cup {a}

(* The effects of updateQueueState with a consistent state. *)
LEMMA UpdateRange ==
    ASSUME NEW mq, NEW s, validQueueState(s), NEW t
    PROVE  /\ Updates(updateQueueState(mq, TRUE, s, t), {AppendState(s)})
           /\ Updates(updateQueueState(mq, FALSE, s, t), {})
<1>1. PICK a, l : a = Assign([mq EXCEPT !.state = s, !.tip = t]) /\ l = AppendState(s)
  OBVIOUS
<1>2. a.do = "assign"
  BY <1>1, EffectFields
<1>3. ASSUME NEW u, u = updateQueueState(mq, TRUE, s, t)
      PROVE  Updates(u, {l})
  <2>1. u = <<l>> \o <<a>>
    BY <1>1, <1>3 DEF updateQueueState, Optional
  <2>2. u = <<l, a>>
    BY <2>1, JoinOneOne
  <2>3. IsList(u) /\ Range(u) = {l, a}
    BY <2>2, RangeOf
  <2>. QED  BY <1>2, <2>3 DEF Updates
<1>4. ASSUME NEW u, u = updateQueueState(mq, FALSE, s, t)
      PROVE  Updates(u, {})
  <2>1. u = <<>> \o <<a>>
    BY <1>1, <1>4 DEF updateQueueState, Optional
  <2>2. u = <<a>>
    BY <2>1, JoinEmpty
  <2>3. IsList(u) /\ Range(u) = {a}
    BY <2>2, RangeOf
  <2>. QED  BY <1>2, <2>3 DEF Updates
<1>. QED  BY <1>1, <1>3, <1>4, Zenon

(* The effects before a message is put create its journal, or it is there. *)
Prepares(x, P, C, st, h, pos) ==
    /\ IsList(x)
    /\ Plain(P)
    /\ C \subseteq {CreateJournal(h)}
    /\ Range(x) = P \cup C
    /\ faults = <<>> =>
         /\ Length(h) = pos
         /\ DOMAIN files \cup CreatedBy(C) = {st.rj, h}
         /\ h # st.rj => Exists(st.rj) /\ Len(files[st.rj]) = st.rcount

PutAfter(x, st, h, pos, msg, mq, t) ==
    (x \o <<FixFileSize(h, pos), PutMsg(h, msg)>>)
      \o updateQueueState(mq, TRUE, After(st, h, pos, msg), t)

(* Then the message is put, and its state logged. *)
LEMMA PutTidies ==
    ASSUME TInv, UNCHANGED <<disk, mem, qstate, faults>>, FilesOK,
           NEW st \in States, NEW h \in JournalId, NEW pos \in Nat, NEW msg \in Message,
           NEW x, NEW P, NEW C, Prepares(x, P, C, st, h, pos),
           validQueueState(After(st, h, pos, msg)),
           NEW mq, NEW t, todo' = PutAfter(x, st, h, pos, msg, mq, t)
    PROVE  TInv'
<1>0. PICK s : s = After(st, h, pos, msg)
  OBVIOUS
<1>1. PICK u : u = updateQueueState(mq, TRUE, s, t)
  OBVIOUS
<1>2. Updates(u, {AppendState(s)})
  <2>1. validQueueState(s)
    BY <1>0
  <2>. QED  BY <1>1, <2>1, UpdateRange, Zenon
<1>3. PICK a : a.do = "assign" /\ Range(u) = {AppendState(s)} \cup {a}
  BY <1>2 DEF Updates
<1>4. PICK f, p, l : f = FixFileSize(h, pos) /\ p = PutMsg(h, msg) /\ l = AppendState(s)
  OBVIOUS
<1>5. PICK y : y = <<f, p>>
  OBVIOUS
<1>6. IsList(y) /\ Range(y) = {f, p}
  BY <1>5, RangeOf
<1>7. PICK z : z = x \o y
  OBVIOUS
<1>8. IsList(z) /\ Range(z) = Range(x) \cup Range(y)
  <2>1. IsList(x)
    BY DEF Prepares
  <2>. QED  BY <1>6, <1>7, <2>1, RangeJoined
<1>9. PICK v : v = z \o u
  OBVIOUS
<1>10. IsList(v) /\ Range(v) = Range(z) \cup Range(u)
  <2>1. IsList(u)
    BY <1>2 DEF Updates
  <2>. QED  BY <1>8, <1>9, <2>1, RangeJoined
<1>11. PICK Q, F : Q = P \cup {a} /\ F = C \cup {f, p, l}
  OBVIOUS
<1>12. Range(v) = Q \cup F
  BY <1>3, <1>4, <1>6, <1>8, <1>10, <1>11 DEF Prepares
<1>13. Plain(Q)
  BY <1>3, <1>11 DEF Plain, Prepares
<1>14. faults = <<>> => Tidy(F)
  <2>1. SUFFICES ASSUME faults = <<>>
                 PROVE  Tidy(F)
    OBVIOUS
  <2>2. F = C \cup {FixFileSize(h, pos), PutMsg(h, msg), AppendState(After(st, h, pos, msg))}
    BY <1>0, <1>4, <1>11
  <2>3. Tidy(C \cup {FixFileSize(h, pos), PutMsg(h, msg), AppendState(After(st, h, pos, msg))})
    BY <2>1, TidyWritten DEF Prepares
  <2>. QED  BY <2>2, <2>3
<1>15. faults = <<>> => Tidy(Range(v))
  BY <1>12, <1>13, <1>14, TidyList
<1>16. todo' = v
  BY <1>0, <1>1, <1>4, <1>5, <1>7, <1>9 DEF PutAfter
<1>. QED  BY <1>15, <1>16, ListTidies

(* The first message of a queue. *)
LEMMA FirstTidies ==
    ASSUME IInv, TInv, todo = <<>>, mem.open, Unwritten(mem),
           UNCHANGED <<disk, mem, qstate, faults>>,
           NEW c \in BOOLEAN, NEW msg \in Message, msg.quota = ~c,
           mem.state.size = 0 => [msg EXCEPT !.quota = FALSE] = msg,
           todo' = writeToJournal(mem, c, msg)
    PROVE  TInv'
<1>1. PICK mq : mq = mem
  OBVIOUS
<1>2. PICK j : j = mq.state.rj
  OBVIOUS
<1>3. PICK st : st = newMsgQueueState(j)
  OBVIOUS
<1>4. j \in JournalId /\ mq = Opened(st, 0, 0) /\ mq.state = st /\ FilesOK
  BY <1>1, <1>2, <1>3 DEF Unwritten, IInv, Typed, DiskOK, Opened
<1>5. st \in States /\ st.rj = j /\ st.wj = j /\ st.wcount = 0 /\ st.size = 0 /\ validQueueState(st)
  BY <1>3, <1>4, NewState DEF Stored
<1>6. DoesFirst(j, mq, c, msg)
  <2>1. [msg EXCEPT !.quota = FALSE] = msg
    BY <1>1, <1>4, <1>5
  <2>. QED  BY <1>3, <1>4, <2>1, WrittenFirst
<1>7. PICK w : w = [mq EXCEPT !.readHandle = j]
  OBVIOUS
<1>8. PICK k, m, a : k = CreateJournal(j) /\ m = Mkdir /\ a = Assign(w)
  OBVIOUS
<1>9. m.do = "mkdir" /\ a.do = "assign" /\ k.do = "create" /\ k.j = j
  BY <1>8, EffectFields
<1>10. PICK x : x = <<m, k, a>>
  OBVIOUS
<1>11. IsList(x) /\ Range(x) = {m, k, a}
  BY <1>10, RangeOf
<1>12. PICK P, C : P = {m, a} /\ C = {k}
  OBVIOUS
<1>13. Plain(P) /\ C \subseteq {CreateJournal(j)} /\ CreatedBy(C) = {j} /\ Range(x) = P \cup C
  BY <1>8, <1>9, <1>11, <1>12, DoneByOne DEF Plain
<1>15. validQueueState(After(st, j, 0, msg))
  BY <1>4, <1>5, AfterIsValid
<1>16. todo' = PutAfter(x, st, j, 0, msg, w, <<msg>>)
  BY <1>1, <1>4, <1>6, <1>7, <1>8, <1>10 DEF DoesFirst, PutAfter
<1>17. faults = <<>> => /\ Length(j) = 0
                        /\ DOMAIN files \cup CreatedBy(C) = {st.rj, j}
                        /\ j # st.rj => Exists(st.rj) /\ Len(files[st.rj]) = st.rcount
  <2>1. SUFFICES ASSUME faults = <<>>
                 PROVE  /\ Length(j) = 0
                        /\ DOMAIN files \cup CreatedBy(C) = {st.rj, j}
                        /\ j # st.rj => Exists(st.rj) /\ Len(files[st.rj]) = st.rcount
    OBVIOUS
  <2>2. Rec = <<>>
    BY DEF Unwritten, Rec, StateFile, Recorded, NoLines
  <2>3. DOMAIN files = {}
    BY <1>4, <2>1, <2>2, RestTidy, TidyNone
  <2>4. Length(j) = 0
    BY <2>3 DEF Length, Exists
  <2>. QED  BY <1>5, <1>13, <2>3, <2>4
<1>18. 0 \in Nat /\ Prepares(x, P, C, st, j, 0)
  BY <1>11, <1>13, <1>17 DEF Prepares
<1>19. PICK n, t : n = 0 /\ t = <<msg>>
  OBVIOUS
<1>20. /\ n \in Nat /\ Prepares(x, P, C, st, j, n) /\ validQueueState(After(st, j, n, msg))
       /\ todo' = PutAfter(x, st, j, n, msg, w, t)
  BY <1>15, <1>16, <1>18, <1>19
<1>. QED  BY <1>4, <1>5, <1>20, PutTidies

(* What the opened queue says of its journals. *)
LEMMA SoundSettles ==
    ASSUME FilesOK, TInv, todo = <<>>, mem.open, Quiet(mem), ~Unwritten(mem), faults = <<>>
    PROVE  Sound(mem) /\ Settles(mem.state) /\ ~Stranded(mem)
<1>1. MemOK(mem) /\ Settled(mem)
  BY DEF Quiet
<1>2. Tidy({})
  BY RestTidy
<1>3. Sound(mem) /\ Settles(mem.state)
  BY <1>1, <1>2, MemFits DEF MemSettles
<1>4. "fail" \notin Range(faults)
  BY RangeOf
<1>. QED  BY <1>1, <1>3, <1>4 DEF Settled

(* The fields of a sound queue. *)
LEMMA SoundFields ==
    ASSUME NEW mq, Sound(mq), NEW st, st = mq.state
    PROVE  /\ mq \in Queues /\ st \in States /\ validQueueState(st)
           /\ mq.readHandle = st.rj /\ mq.readHandle # 0
           /\ st.rj # st.wj => mq.writeHandle = st.wj
           /\ st.rj \in JournalId /\ st.wj \in JournalId /\ st.wj # 0
           /\ st.rpos \in Nat /\ st.rcount \in Nat /\ st.wcount \in Nat /\ st.size \in Nat
           /\ st.rj = st.wj => st.rcount = st.wcount
<1>1. mq \in Queues /\ Stored(st) /\ Handles(mq)
  BY DEF Sound
<1>2. mq.readHandle = st.rj /\ (st.rj # st.wj => mq.writeHandle = st.wj)
  BY <1>1 DEF Handles
<1>3. st \in States /\ validQueueState(st) /\ st.rj \in JournalId /\ st.wj \in JournalId
  BY <1>1, StoredHolds
<1>4. st.rj # 0 /\ st.wj # 0
  BY <1>3 DEF JournalId
<1>. QED  BY <1>1, <1>2, <1>3, <1>4, StateFields, ValidState

(* A message for which another journal is created. *)
LEMMA NextTidies ==
    ASSUME IInv, TInv, todo = <<>>, mem.open, Sound(mem), Quiet(mem), unusedIds # {},
           UNCHANGED <<disk, mem, qstate, faults>>,
           mem.writeHandle = 0, mem.state.wcount >= MaxMsgCount,
           NEW c \in BOOLEAN, NEW msg \in Message, msg.quota = ~c,
           mem.state.size = 0 => [msg EXCEPT !.quota = FALSE] = msg,
           todo' = writeToJournal(mem, c, msg)
    PROVE  TInv'
<1>1. PICK mq : mq = mem
  OBVIOUS
<1>2. PICK st : st = mq.state
  OBVIOUS
<1>3. DiskOK /\ FilesOK
  BY DEF IInv, Typed, DiskOK
<1>4. PICK j : j = newJournalId
  OBVIOUS
<1>5. j \in JournalId /\ ~Exists(j) /\ st.rj # j /\ j # 0
  <2>1. j \in JournalId /\ ~Exists(j) /\ st.rj # j
    BY <1>1, <1>2, <1>3, <1>4, UnusedId
  <2>. QED  BY <2>1 DEF JournalId
<1>6. /\ mq \in Queues /\ st \in States /\ validQueueState(st) /\ mq.readHandle # 0
      /\ st.rj # st.wj => mq.writeHandle = st.wj
      /\ st.wj # 0 /\ st.rj = st.wj => st.rcount = st.wcount
  <2>1. Sound(mq)
    BY <1>1
  <2>. QED  BY <1>2, <2>1, SoundFields
<1>7. mq.writeHandle = 0 /\ mq.state.wcount >= MaxMsgCount /\ st.rj = st.wj
  <2>1. mq.writeHandle = 0 /\ mq.state.wcount >= MaxMsgCount
    BY <1>1
  <2>2. st.wj # 0
    <3>1. Sound(mq)
      BY <1>1
    <3>. QED  BY <1>2, <3>1, SoundFields
  <2>. QED  BY <1>6, <2>1, <2>2
<1>8. DoesNext(j, mq, c, msg)
  <2>1. mq.state.size = 0 => [msg EXCEPT !.quota = FALSE] = msg
    BY <1>1
  <2>. QED  BY <1>4, <1>5, <1>6, <1>7, <2>1, WrittenNext
<1>9. PICK w : w = [mq EXCEPT !.writeHandle = j]
  OBVIOUS
<1>10. PICK k, a : k = CreateJournal(j) /\ a = Assign(w)
  OBVIOUS
<1>11. a.do = "assign" /\ k.do = "create" /\ k.j = j
  BY <1>10, EffectFields
<1>12. PICK x : x = <<k, a>>
  OBVIOUS
<1>13. IsList(x) /\ Range(x) = {k, a}
  BY <1>12, RangeOf
<1>14. PICK P, C : P = {a} /\ C = {k}
  OBVIOUS
<1>15. Plain(P) /\ C \subseteq {CreateJournal(j)} /\ CreatedBy(C) = {j} /\ Range(x) = P \cup C
  BY <1>10, <1>11, <1>13, <1>14, DoneByOne DEF Plain
<1>17. validQueueState(After(st, j, 0, msg))
  BY <1>5, <1>6, <1>7, AfterIsValid
<1>18. todo' = PutAfter(x, st, j, 0, msg, w, TipAfter(mq, msg))
  BY <1>1, <1>2, <1>8, <1>9, <1>10, <1>12 DEF DoesNext, PutAfter
<1>19. faults = <<>> => /\ Length(j) = 0
                        /\ DOMAIN files \cup CreatedBy(C) = {st.rj, j}
                        /\ j # st.rj => Exists(st.rj) /\ Len(files[st.rj]) = st.rcount
  <2>1. SUFFICES ASSUME faults = <<>>
                 PROVE  /\ Length(j) = 0
                        /\ DOMAIN files \cup CreatedBy(C) = {st.rj, j}
                        /\ j # st.rj => Exists(st.rj) /\ Len(files[st.rj]) = st.rcount
    OBVIOUS
  <2>2. ~Unwritten(mem)
    BY <1>1, <1>6 DEF Unwritten, Opened
  <2>3. Settles(st)
    BY <1>1, <1>2, <1>3, <2>1, <2>2, SoundSettles
  <2>4. DOMAIN files = {st.rj} /\ Exists(st.rj) /\ Len(files[st.rj]) = st.rcount
    BY <1>7, <2>3 DEF Settles, Count, Exists
  <2>5. Length(j) = 0
    BY <1>3, <1>5, LengthOf
  <2>. QED  BY <1>15, <2>4, <2>5
<1>20. 0 \in Nat /\ Prepares(x, P, C, st, j, 0)
  BY <1>13, <1>15, <1>19 DEF Prepares
<1>21. PICK n, t : n = 0 /\ t = TipAfter(mq, msg)
  OBVIOUS
<1>22. /\ n \in Nat /\ Prepares(x, P, C, st, j, n) /\ validQueueState(After(st, j, n, msg))
       /\ todo' = PutAfter(x, st, j, n, msg, w, t)
  BY <1>17, <1>18, <1>20, <1>21
<1>. QED  BY <1>3, <1>5, <1>6, <1>22, PutTidies

(* A message in the journal that is written to. *)
LEMMA OnTidies ==
    ASSUME IInv, TInv, todo = <<>>, mem.open, Sound(mem), Quiet(mem),
           UNCHANGED <<disk, mem, qstate, faults>>,
           ~(mem.writeHandle = 0 /\ mem.state.wcount >= MaxMsgCount),
           NEW c \in BOOLEAN, NEW msg \in Message, msg.quota = ~c,
           mem.state.size = 0 => [msg EXCEPT !.quota = FALSE] = msg,
           todo' = writeToJournal(mem, c, msg)
    PROVE  TInv'
<1>1. SUFFICES ASSUME faults = <<>>
               PROVE  TInv'
  <2>1. faults # <<>> => TInv'
    BY DEF TInv
  <2>. QED  BY <2>1
<1>2. PICK mq, st : mq = mem /\ st = mq.state
  OBVIOUS
<1>3. FilesOK
  BY DEF IInv, Typed, DiskOK
<1>4. Sound(mq) /\ ~(mq.writeHandle = 0 /\ mq.state.wcount >= MaxMsgCount)
  BY <1>2
<1>5. /\ mq \in Queues /\ st \in States /\ validQueueState(st)
      /\ mq.readHandle = st.rj /\ mq.readHandle # 0
      /\ st.rj # st.wj => mq.writeHandle = st.wj
      /\ st.rj \in JournalId /\ st.wj \in JournalId /\ st.wj # 0 /\ st.wcount \in Nat
      /\ st.rcount \in Nat
  BY <1>2, <1>4, SoundFields
<1>6. Settles(st) /\ ~Stranded(mq)
  <2>1. ~Unwritten(mem)
    BY <1>2, <1>5 DEF Unwritten, Opened
  <2>. QED  BY <1>1, <1>2, <1>3, <2>1, SoundSettles
<1>7. PICK h, n : h = st.wj /\ n = st.wcount
  OBVIOUS
<1>8. WrittenTo(mq) = h
  BY <1>2, <1>5, <1>6, <1>7 DEF WrittenTo, Stranded
<1>9. PICK x, C : x = <<>> /\ C = {}
  OBVIOUS
<1>10. IsList(x) /\ Range(x) = C \cup C
  BY <1>9, RangeOf
<1>11. Plain(C) /\ C \subseteq {CreateJournal(h)} /\ CreatedBy(C) = {}
  BY <1>9, NoneLeft DEF Plain
<1>12. /\ Length(h) = n
       /\ DOMAIN files \cup CreatedBy(C) = {st.rj, h}
       /\ h # st.rj => Exists(st.rj) /\ Len(files[st.rj]) = st.rcount
  <2>1. DOMAIN files = {st.rj, st.wj} /\ \A j \in DOMAIN files : Len(files[j]) = Count(st, j)
    BY <1>6 DEF Settles
  <2>2. st.rj = st.wj => st.rcount = st.wcount
    BY <1>2, <1>4, SoundFields
  <2>3. Exists(h) /\ Len(files[h]) = n
    BY <1>7, <2>1, <2>2 DEF Count, Exists
  <2>4. Length(h) = n
    BY <1>3, <2>3, LengthOf
  <2>5. Exists(st.rj) /\ Len(files[st.rj]) = st.rcount
    BY <2>1 DEF Count, Exists
  <2>. QED  BY <1>7, <1>11, <2>1, <2>4, <2>5
<1>13. Prepares(x, C, C, st, h, n)
  BY <1>10, <1>11, <1>12 DEF Prepares
<1>14. PICK t : t = TipAfter(mq, msg)
  OBVIOUS
<1>15. DoesOn(mq, c, msg)
  <2>1. mq.state.size = 0 => [msg EXCEPT !.quota = FALSE] = msg
    BY <1>2
  <2>. QED  BY <1>4, <1>5, <2>1, WrittenOn
<1>16. todo' = PutAfter(x, st, h, n, msg, mq, t)
  <2>1. PICK y, u : /\ y = <<FixFileSize(h, n), PutMsg(h, msg)>>
                    /\ u = updateQueueState(mq, TRUE, After(st, h, n, msg), t)
    OBVIOUS
  <2>2. todo' = y \o u
    BY <1>2, <1>7, <1>8, <1>14, <1>15, <2>1 DEF DoesOn
  <2>3. x \o y = y
    BY <1>9, <2>1
  <2>. QED  BY <2>1, <2>2, <2>3 DEF PutAfter
<1>17. validQueueState(After(st, h, n, msg))
  BY <1>5, <1>7, AfterIsValid
<1>18. h \in JournalId /\ n \in Nat
  BY <1>5, <1>7
<1>. QED  BY <1>3, <1>5, <1>13, <1>16, <1>17, <1>18, PutTidies

(* WriteMsg: writeMsg, or nothing if the queue is full. *)
LEMMA WriteTidies ==
    ASSUME IInv, TInv, Resting, WriteMsg
    PROVE  TInv'
<1>1. JobOK /\ Remembered /\ todo = <<>>
  BY DEF IInv, Typed, Resting
<1>2. job # <<>> /\ Head(job).step = "write" /\ unusedIds # {}
  BY DEF WriteMsg, NextStep
<1>3. PICK m : m = Head(job).id
  OBVIOUS
<1>4. m \in 1..MaxSends /\ job[1].step = "write"
  BY <1>1, <1>2, <1>3, WriteJob
<1>5. todo' = writeMsg(m) /\ UNCHANGED <<disk, mem, qstate, faults>>
  BY <1>3 DEF WriteMsg, Plan
<1>6. mem.open
  BY <1>2, <1>4 DEF Resting
<1>7. Quiet(mem) /\ mem \in Queues
  BY <1>1, <1>6 DEF Resting, Remembered
<1>8. CASE ~(mem.state.canWrite \/ mem.state.size = 0)
  <2>1. todo' = <<>>
    BY <1>5, <1>8 DEF writeMsg, Optional
  <2>. QED  BY <1>1, <1>5, <2>1, EmptyTidies
<1>9. CASE mem.state.canWrite \/ mem.state.size = 0
  <2>1. PICK c \in BOOLEAN : c = (Quota > mem.state.size)
    <3>1. (Quota > mem.state.size) \in BOOLEAN
      OBVIOUS
    <3>. QED  BY <3>1, Zenon
  <2>2. PICK msg : msg = [id |-> m, quota |-> ~c]
    OBVIOUS
  <2>3. todo' = writeToJournal(mem, c, msg)
    BY <1>5, <1>9, <2>1, <2>2 DEF writeMsg, Optional
  <2>4. /\ msg \in Message /\ msg.quota = ~c
        /\ mem.state.size = 0 => [msg EXCEPT !.quota = FALSE] = msg
    <3>1. c <=> Quota > mem.state.size
      BY <2>1
    <3>. QED  BY <1>4, <1>7, <1>9, <2>2, <3>1, WritesWritable
  <2>5. CASE Unwritten(mem)
    BY <1>1, <1>5, <1>6, <2>3, <2>4, <2>5, FirstTidies
  <2>6. CASE Sound(mem) /\ mem.writeHandle = 0 /\ mem.state.wcount >= MaxMsgCount
    BY <1>1, <1>2, <1>5, <1>6, <1>7, <2>3, <2>4, <2>6, NextTidies
  <2>7. CASE Sound(mem) /\ ~(mem.writeHandle = 0 /\ mem.state.wcount >= MaxMsgCount)
    BY <1>1, <1>5, <1>6, <1>7, <2>3, <2>4, <2>7, OnTidies
  <2>8. Unwritten(mem) \/ Sound(mem)
    BY <1>7 DEF Quiet, MemOK
  <2>. QED  BY <2>5, <2>6, <2>7, <2>8
<1>. QED  BY <1>8, <1>9

(* A state of the journals that are there is logged, or nothing is. *)
LEMMA LogTidies ==
    ASSUME TInv, UNCHANGED <<disk, mem, qstate, faults>>, FilesOK, NEW s,
           faults = <<>> => Settles(s),
           NEW P, Plain(P), NEW l, todo' = l, Range(l) = P \cup {AppendState(s)}
    PROVE  TInv'
<1>1. PICK F : F = {AppendState(s)}
  OBVIOUS
<1>2. faults = <<>> => Tidy(F)
  BY <1>1, TidyLogged
<1>3. Range(l) = P \cup F
  BY <1>1
<1>4. faults = <<>> => Tidy(Range(l))
  BY <1>2, <1>3, TidyList
<1>. QED  BY <1>4, ListTidies

(* PeekMsg moves on to the journal written to. *)
LEMMA PeekMoveTidies ==
    ASSUME IInv, TInv, todo = <<>>, mem.open, Sound(mem), Quiet(mem),
           UNCHANGED <<disk, mem, qstate, faults>>,
           mem.state.rj # mem.state.wj, mem.state.rpos >= mem.state.rcount,
           todo' = tryPeekMsg
    PROVE  TInv'
<1>1. PICK st : st = mem.state
  OBVIOUS
<1>2. FilesOK
  BY DEF IInv, Typed, DiskOK
<1>3. st \in States /\ mem.readHandle # 0
  BY <1>1, SoundFields
<1>4. PICK a, r, l, o : /\ a = Assign(Moved) /\ r = RemoveJournal(st.rj)
                        /\ l = AppendState(Switched(st)) /\ o = Assign(Entered)
  OBVIOUS
<1>5. PICK e : e = ReadTip(st.wj, 0)
  OBVIOUS
<1>6. a.do = "assign" /\ o.do = "assign" /\ e.do = "read"
  BY <1>4, <1>5, EffectFields
<1>7. PICK rd : rd = Optional(mem.tip = <<>>, <<e>>)
  OBVIOUS
<1>8. IsList(rd) /\ (Range(rd) = {e} \/ Range(rd) = {})
  BY <1>7, RangeOf DEF Optional
<1>9. PICK x : x = <<a, r, l, o>>
  OBVIOUS
<1>10. IsList(x) /\ Range(x) = {a, r, l, o}
  BY <1>9, RangeOf
<1>11. PICK k : k = tryPeekMsg
  OBVIOUS
<1>12. k = x \o rd
  <2>1. k = <<Assign(Moved), RemoveJournal(mem.state.rj),
              AppendState(Switched(mem.state)), Assign(Entered)>>
              \o Optional(mem.tip = <<>>, <<ReadTip(mem.state.wj, 0)>>)
    BY <1>11, PeekMoves
  <2>. QED  BY <1>1, <1>4, <1>5, <1>7, <1>9, <2>1
<1>13. Range(k) = Range(x) \cup Range(rd)
  BY <1>8, <1>10, <1>12, RangeJoined
<1>14. PICK P, F : P = Range(k) \cap {a, o, e} /\ F = {r, l}
  OBVIOUS
<1>15. Plain(P)
  BY <1>6, <1>14 DEF Plain
<1>16. Range(k) = P \cup F
  BY <1>8, <1>10, <1>13, <1>14
<1>17. faults = <<>> => Tidy(F)
  <2>1. SUFFICES ASSUME faults = <<>>
                 PROVE  Tidy(F)
    OBVIOUS
  <2>2. ~Unwritten(mem)
    BY <1>3 DEF Unwritten, Opened
  <2>3. Settles(st)
    BY <1>1, <1>2, <2>1, <2>2, SoundSettles
  <2>4. st.rj # st.wj
    BY <1>1
  <2>5. Tidy({RemoveJournal(st.rj), AppendState(Switched(st))})
    BY <1>2, <1>3, <2>3, <2>4, TidySwitched
  <2>. QED  BY <1>4, <1>14, <2>5
<1>18. faults = <<>> => Tidy(Range(k))
  BY <1>15, <1>16, <1>17, TidyList
<1>19. todo' = k
  BY <1>11
<1>. QED  BY <1>18, <1>19, ListTidies

(* PeekMsg: tryPeekMsg. *)
LEMMA PeekTidies ==
    ASSUME IInv, TInv, Resting, PeekMsg
    PROVE  TInv'
<1>1. JobOK /\ todo = <<>>
  BY DEF IInv, Typed, Resting
<1>2. job # <<>> /\ Head(job).step = "peek"
  BY DEF PeekMsg, NextStep
<1>3. todo' = tryPeekMsg /\ UNCHANGED <<disk, mem, qstate, faults>>
  BY DEF PeekMsg, Plan
<1>4. mem.open /\ Quiet(mem)
  <2>1. job[1].step = "peek"
    BY <1>2
  <2>. QED  BY <1>2, <2>1 DEF Resting
<1>5. CASE Unwritten(mem)
  <2>1. todo' = <<>>
    BY <1>3, <1>5 DEF tryPeekMsg, Unwritten, Opened
  <2>. QED  BY <1>1, <1>3, <2>1, EmptyTidies
<1>6. CASE Sound(mem)
  <2>1. PICK mq, st : mq = mem /\ st = mq.state
    OBVIOUS
  <2>2. mq.readHandle # 0 /\ st.rpos \in Nat /\ st.rcount \in Nat
    <3>1. Sound(mq)
      BY <1>6, <2>1
    <3>. QED  BY <2>1, <3>1, SoundFields
  <2>3. CASE st.rpos >= st.rcount /\ st.rj = st.wj
    <3>1. todo' = <<>>
      BY <1>3, <2>1, <2>3 DEF tryPeekMsg
    <3>. QED  BY <1>1, <1>3, <3>1, EmptyTidies
  <2>4. CASE st.rpos >= st.rcount /\ st.rj # st.wj
    <3>1. mem.state.rj # mem.state.wj /\ mem.state.rpos >= mem.state.rcount
      BY <2>1, <2>4
    <3>. QED  BY <1>1, <1>3, <1>4, <1>6, <3>1, PeekMoveTidies
  <2>5. CASE ~(st.rpos >= st.rcount)
    <3>1. PICK e : e = ReadTip(mem.readHandle, mem.state.rpos)
      OBVIOUS
    <3>2. e.do = "read"
      BY <3>1, EffectFields
    <3>3. tryPeekMsg = Optional(mem.tip = <<>>, <<e>>)
      <4>1. ~(mem.readHandle = 0 \/ (mem.state.rpos >= mem.state.rcount /\ mem.state.rj = mem.state.wj))
        BY <2>1, <2>2, <2>5
      <4>2. ~(mem.writeHandle # 0 /\ mem.state.rpos >= mem.state.rcount)
        BY <2>1, <2>5
      <4>. QED  BY ONLY <3>1, <4>1, <4>2, ZenonT(30) DEF tryPeekMsg
    <3>4. CASE mem.tip = <<>>
      <4>1. todo' = <<e>>
        BY <1>3, <3>3, <3>4 DEF Optional
      <4>. QED  BY <1>1, <1>3, <3>2, <4>1, SingleTidies
    <3>5. CASE mem.tip # <<>>
      <4>1. todo' = <<>>
        BY <1>3, <3>3, <3>5 DEF Optional
      <4>. QED  BY <1>1, <1>3, <4>1, EmptyTidies
    <3>. QED  BY <3>4, <3>5
  <2>. QED  BY <2>3, <2>4, <2>5
<1>. QED  BY <1>4, <1>5, <1>6 DEF Quiet, MemOK

(* DeleteMsg: the state without the first message has the same journals. *)
LEMMA DeleteTidies ==
    ASSUME IInv, TInv, Resting, DeleteMsg
    PROVE  TInv'
<1>1. JobOK /\ FilesOK /\ todo = <<>>
  BY DEF IInv, Typed, DiskOK, Resting
<1>2. job # <<>> /\ Head(job).step = "delete"
  BY DEF DeleteMsg, NextStep
<1>3. PICK logged : logged = Head(job).log
  OBVIOUS
<1>4. todo' = tryDeleteMsg(logged) /\ UNCHANGED <<disk, mem, qstate, faults>>
  BY <1>3 DEF DeleteMsg, Plan
<1>5. job[1] = Head(job) /\ (logged = TRUE \/ logged = FALSE)
  BY <1>1, <1>2, <1>3, DeleteJob
<1>6. mem.open /\ Quiet(mem) /\ Peeked(mem) /\ mem.tip # <<>>
  BY <1>2, <1>5 DEF Resting
<1>7. ~Unwritten(mem)
  BY <1>6 DEF Unwritten, Opened
<1>8. Sound(mem)
  BY <1>6, <1>7 DEF Quiet, MemOK
<1>9. PICK mq, st : mq = mem /\ st = mq.state
  OBVIOUS
<1>10. st \in States /\ validQueueState(st) /\ mq.readHandle # 0 /\ st.rpos < st.rcount
  <2>1. Sound(mq)
    BY <1>8, <1>9
  <2>2. st.rpos < st.rcount
    BY <1>6, <1>9 DEF Peeked
  <2>. QED  BY <1>9, <2>1, <2>2, SoundFields
<1>11. PICK s : s = Deleted(st)
  OBVIOUS
<1>12. /\ validQueueState(s) /\ s.rj = st.rj /\ s.wj = st.wj
       /\ s.rcount = st.rcount /\ s.wcount = st.wcount
  BY <1>10, <1>11, DeletedFields DEF IsDeleted
<1>13. faults = <<>> => Settles(s)
  <2>1. faults = <<>> => Settles(st)
    BY <1>1, <1>6, <1>7, <1>9, SoundSettles
  <2>2. \A j : Count(s, j) = Count(st, j)
    BY <1>12 DEF Count
  <2>. QED  BY <1>12, <2>1, <2>2 DEF Settles
<1>14. PICK t : t = <<>>
  OBVIOUS
<1>15. todo' = updateQueueState(mem, logged, s, t)
  <2>1. mem.tip # <<>> /\ mem.readHandle # 0
    BY <1>6, <1>9, <1>10
  <2>2. [mem.state EXCEPT !.rpos = @ + 1, !.size = @ - 1] = s
    BY <1>9, <1>11 DEF Deleted
  <2>. QED  BY <1>4, <1>14, <2>1, <2>2 DEF tryDeleteMsg, Optional
<1>16. CASE logged = TRUE
  <2>1. PICK l : l = updateQueueState(mq, TRUE, s, t)
    OBVIOUS
  <2>2. Updates(l, {AppendState(s)})
    BY <1>12, <2>1, UpdateRange, Zenon
  <2>3. PICK a : a.do = "assign" /\ Range(l) = {AppendState(s)} \cup {a}
    BY <2>2 DEF Updates
  <2>4. PICK P : P = {a}
    OBVIOUS
  <2>5. Plain(P) /\ Range(l) = P \cup {AppendState(s)}
    BY <2>3, <2>4 DEF Plain
  <2>6. todo' = l
    BY <1>9, <1>15, <1>16, <2>1
  <2>. QED  BY <1>1, <1>4, <1>13, <2>5, <2>6, LogTidies
<1>17. CASE logged = FALSE
  <2>1. PICK l : l = updateQueueState(mq, FALSE, s, t)
    OBVIOUS
  <2>2. Updates(l, {})
    BY <1>12, <2>1, UpdateRange, Zenon
  <2>3. PICK a : a.do = "assign" /\ Range(l) = {} \cup {a}
    BY <2>2 DEF Updates
  <2>4. PICK P : P = {a}
    OBVIOUS
  <2>5. Plain(P) /\ Range(l) = P
    BY <2>3, <2>4 DEF Plain
  <2>6. faults = <<>> => Tidy(Range(l))
    BY <1>1, <2>5, RestTidy, TidyNothing
  <2>7. todo' = l
    BY <1>9, <1>15, <1>17, <2>1
  <2>. QED  BY <1>4, <2>6, <2>7, ListTidies
<1>. QED  BY <1>5, <1>16, <1>17

(* ExpiredMsg logs the state of the queue, or nothing. *)
LEMMA ExpiredTidies ==
    ASSUME IInv, TInv, Resting, ExpiredMsg
    PROVE  TInv'
<1>1. JobOK /\ FilesOK /\ todo = <<>>
  BY DEF IInv, Typed, DiskOK, Resting
<1>2. job # <<>> /\ Head(job).step = "expired"
  BY DEF ExpiredMsg, NextStep
<1>3. UNCHANGED <<disk, mem, qstate, faults>> /\ (todo' = <<>> \/ todo' = logQueueState)
  BY DEF ExpiredMsg, Plan
<1>4. mem.open /\ Quiet(mem)
  <2>1. job[1].step = "expired"
    BY <1>2
  <2>. QED  BY <1>2, <2>1 DEF Resting
<1>5. CASE todo' = <<>>
  BY <1>1, <1>3, <1>5, EmptyTidies
<1>6. CASE todo' = logQueueState /\ mem.readHandle # 0
  <2>1. PICK s : s = mem.state
    OBVIOUS
  <2>2. ~Unwritten(mem)
    BY <1>6 DEF Unwritten, Opened
  <2>3. faults = <<>> => Settles(s)
    BY <1>1, <1>4, <2>1, <2>2, SoundSettles
  <2>4. PICK e : e = AppendState(s)
    OBVIOUS
  <2>5. PICK l : l = <<e>>
    OBVIOUS
  <2>6. PICK P : P = {}
    OBVIOUS
  <2>7. Plain(P) /\ Range(l) = P \cup {AppendState(s)}
    BY <2>4, <2>5, <2>6, RangeOf DEF Plain
  <2>8. todo' = l
    BY <1>6, <2>1, <2>4, <2>5 DEF logQueueState, Optional
  <2>. QED  BY <1>1, <1>3, <2>3, <2>7, <2>8, LogTidies
<1>7. CASE todo' = logQueueState /\ mem.readHandle = 0
  <2>1. todo' = <<>>
    BY <1>7 DEF logQueueState, Optional
  <2>. QED  BY <1>1, <1>3, <2>1, EmptyTidies
<1>. QED  BY <1>3, <1>5, <1>6, <1>7

(* Close only closes the queue. *)
LEMMA CloseTidies ==
    ASSUME TInv, Close
    PROVE  TInv'
<1>1. PICK a : a = Assign(Closed)
  OBVIOUS
<1>2. a.do = "assign"
  BY <1>1, EffectFields
<1>3. todo = <<>> /\ UNCHANGED <<disk, mem, qstate, faults>> /\ (todo' = <<>> \/ todo' = <<a>>)
  BY <1>1 DEF Close, Plan, Optional
<1>4. CASE todo' = <<>>
  BY <1>3, <1>4, EmptyTidies
<1>5. CASE todo' = <<a>>
  BY <1>2, <1>3, <1>5, SingleTidies
<1>. QED  BY <1>3, <1>4, <1>5

(* RemoveQueueDirectory. *)
LEMMA RemoveTidies ==
    ASSUME TInv, RemoveQueueDirectory
    PROVE  TInv'
<1>1. PICK e : e = RemoveDirectory
  OBVIOUS
<1>2. e.do = "rmdir"
  BY <1>1, EffectFields
<1>3. todo = <<>> /\ UNCHANGED <<disk, mem, qstate, faults>> /\ todo' = <<e>>
  BY <1>1 DEF RemoveQueueDirectory, NextStep, Plan
<1>. QED  BY <1>2, <1>3, SingleTidies

(* A step of an operation. *)
LEMMA StepTidies ==
    ASSUME IInv, IInv', TInv, Step
    PROVE  TInv'
<1>1. CASE todo # <<>>
  BY <1>1, EffectKeepsTidy
<1>2. CASE todo = <<>>
  <2>1. Resting
    BY <1>2, PhaseBusy DEF Busy, BeginsWith
  <2>2. \/ Open \/ WriteMsg \/ PeekMsg \/ DeleteMsg \/ AckMsg
        \/ ExpireMsgs \/ ExpiredMsg \/ Close \/ RemoveQueueDirectory
    BY <1>2 DEF Step, DoMkdir, DoCreate, DoRemove, DoFixFileSize, DoPut, DoAppendState, DoRename,
                DoAssign, DoRead, DoThrow, DoRemoveDirectory, Doing
  <2>3. AckMsg \/ ExpireMsgs => todo' = <<>> /\ UNCHANGED <<disk, mem, qstate, faults>>
    BY DEF AckMsg, ExpireMsgs, Plan
  <2>4. AckMsg \/ ExpireMsgs => TInv'
    BY <1>2, <2>3, EmptyTidies
  <2>. QED  BY <2>1, <2>2, <2>4, OpenTidies, WriteTidies, PeekTidies, DeleteTidies, ExpiredTidies,
               CloseTidies, RemoveTidies
<1>. QED  BY <1>1, <1>2

-----------------------------------------------------------------------------
(* What is left on disk at all times *)

(* A fault is never forgotten. *)
LEMMA Faulty ==
    ASSUME Crash \/ Fail \/ (\E j \in JournalId : Lose(j)), faults \in Seq(Faults)
    PROVE  faults' # <<>>
<1>1. PICK kind \in Faults : faults' = Append(faults, kind)
  BY DEF Crash, Fail, Lose, Fault
<1>2. Len(faults') = Len(faults) + 1 /\ Len(faults) \in Nat
  BY <1>1
<1>. QED  BY <1>2

(* A restart only forgets what was in memory. *)
LEMMA RestartTidies ==
    ASSUME TInv, Restart
    PROVE  TInv'
<1>1. SUFFICES ASSUME faults' = <<>>
               PROVE  Tidy(Range(todo))' /\ Unstored'
  BY DEF TInv
<1>2. /\ todo = <<>> /\ todo' = <<>> /\ qstate' = <<>>
      /\ UNCHANGED <<disk, faults>>
  BY DEF Restart, Idle
<1>3. Unstored'
  BY <1>2 DEF Unstored
<1>4. PICK E : E = {}
  OBVIOUS
<1>5. Tidy(E)
  BY <1>1, <1>2, <1>4, RestTidy
<1>6. files' = files /\ Rec' = Rec
  BY <1>2, SameLog DEF disk
<1>7. Tidy(E)'
  BY <1>5, <1>6, TidySame
<1>8. E = Range(todo)'
  <2>1. Range(todo)' = Range(todo')
    BY DEF Range
  <2>2. PICK l : l = <<>>
    OBVIOUS
  <2>3. Range(l) = {} /\ todo' = l
    BY <1>2, <2>2, RangeOf
  <2>. QED  BY <1>4, <2>1, <2>3
<1>. QED  BY <1>3, <1>7, <1>8, TidyTodo

(* Any step keeps the files tidy. *)
LEMMA NextKeepsTidy ==
    ASSUME IInv, IInv', TInv, Next
    PROVE  TInv'
<1>1. CASE Step
  BY <1>1, StepTidies
<1>2. CASE Restart
  BY <1>2, RestartTidies
<1>3. CASE Crash \/ Fail \/ \E j \in JournalId : Lose(j)
  <2>1. faults' # <<>>
    BY <1>3, Faulty DEF IInv, Typed
  <2>. QED  BY <2>1 DEF TInv
<1>4. CASE \/ \E m \in 1..MaxSends : Write(m) \/ Ack(m)
           \/ Peek \/ Drop
           \/ \E n \in 0..Quota : Expire(n)
  <2>1. todo = <<>> /\ todo' = <<>> /\ UNCHANGED <<disk, mem, qstate, faults>>
    BY <1>4 DEF Write, Ack, Peek, Drop, Expire, Begin, Idle
  <2>. QED  BY <2>1, EmptyTidies
<1>. QED  BY <1>1, <1>2, <1>3, <1>4 DEF Next

(* Nor does a step that changes nothing. *)
LEMMA StutterTidies ==
    ASSUME TInv, UNCHANGED vars
    PROVE  TInv'
<1>1. UNCHANGED <<disk, mem, qstate, faults>> /\ todo' = todo
  BY DEF vars, disk
<1>2. PICK l : l = todo
  OBVIOUS
<1>3. todo' = l /\ (faults = <<>> => Tidy(Range(l)))
  BY <1>1, <1>2 DEF TInv
<1>. QED  BY <1>1, <1>3, ListTidies

(* Initially there is nothing to leave behind. *)
LEMMA InitTidy ==
    ASSUME Init
    PROVE  TInv
<1>1. FilesOK /\ Rec = <<>>
  <2>1. log = NoLines /\ bak = NoLines
    BY DEF Init
  <2>2. Rec = <<>>
    BY <2>1 DEF Rec, StateFile, Recorded, NoLines
  <2>3. FilesOK
    BY InitInvariant DEF IInv, Typed, DiskOK
  <2>. QED  BY <2>2, <2>3
<1>2. DOMAIN files = {}
  BY DEF Init
<1>3. Tidy({})
  BY <1>1, <1>2, TidyNone
<1>4. PICK l : l = <<>>
  OBVIOUS
<1>5. Range(l) = {} /\ todo = l
  BY <1>4, RangeOf DEF Init
<1>6. Unstored
  BY DEF Init, Unstored
<1>. QED  BY <1>3, <1>5, <1>6 DEF TInv

(* The state found on a start is in the log or in its backup. *)
LEMMA RecReferenced ==
    ASSUME DiskOK, Rec # <<>>
    PROVE  Rec[1].rj \in Referenced /\ Rec[1].wj \in Referenced
<1>1. PICK st : st = Rec[1]
  OBVIOUS
<1>2. PICK lines : lines = StateFile.lines /\ (lines = log.lines \/ lines = bak.lines)
  BY DEF StateFile
<1>3. Rec \in Range(lines)
  <2>1. LogOK(StateFile)
    BY DEF DiskOK, StateFile
  <2>2. CASE StateFile = NoLines
    BY <2>2 DEF Rec, Recorded, NoLines
  <2>3. CASE StateFile = LogOf(<<<<>>>>, FALSE)
    <3>1. StateFile.lines = <<<<>>>>
      BY <2>3 DEF LogOf
    <3>2. Rec = <<>>
      BY <3>1 DEF Rec, Recorded, Last
    <3>. QED  BY <3>2
  <2>4. ASSUME NEW s \in States,
               StateFile = LogOf(<<<<s>>>>, TRUE) \/ StateFile = LogOf(<<<<s>>, <<>>>>, FALSE)
        PROVE  Rec \in Range(lines)
    <3>1. lines = <<<<s>>>> \/ lines = <<<<s>>, <<>>>>
      BY <1>2, <2>4 DEF LogOf
    <3>2. Rec = <<s>>
      BY <1>2, <3>1 DEF Rec, Recorded, Last
    <3>3. lines[1] = <<s>> /\ 1 \in DOMAIN lines
      BY <3>1
    <3>. QED  BY <3>2, <3>3 DEF Range
  <2>5. ASSUME NEW s \in States, NEW t \in States, StateFile = LogOf(<<<<s>>, <<t>>>>, TRUE)
        PROVE  Rec \in Range(lines)
    <3>1. lines = <<<<s>>, <<t>>>>
      BY <1>2, <2>5 DEF LogOf
    <3>2. Rec = <<t>>
      BY <1>2, <3>1 DEF Rec, Recorded, Last
    <3>3. lines[2] = <<t>> /\ 2 \in DOMAIN lines
      BY <3>1
    <3>. QED  BY <3>2, <3>3 DEF Range
  <2>. QED  BY <2>1, <2>2, <2>3, <2>4, <2>5 DEF LogOK
<1>4. Rec \in {k \in Range(log.lines) \cup Range(bak.lines) : k # <<>>}
  BY <1>2, <1>3
<1>. QED  BY <1>4 DEF Referenced

(* Without faults, an operation that has ended leaves no journal that       *)
(* nothing refers to, through every journal that writeMsg creates and that  *)
(* openMsgQueue or tryPeekMsg replaces or removes; and expireQueueMsgs may  *)
(* trust a queue state that says that nothing is stored.                    *)
THEOREM NoneOrphaned ==
    ASSUME CleanTears, RoomForTwo
    PROVE  Spec => []NoOrphanJournals
<1>1. ASSUME IInv, TInv
      PROVE  NoOrphanJournals
  <2>1. SUFFICES ASSUME Idle, faults = <<>>
                 PROVE  /\ DOMAIN files \subseteq Referenced
                        /\ qstate # <<>> /\ ~qstate[1].hasStored =>
                             \A j \in DOMAIN files : files[j] = <<>>
    BY DEF NoOrphanJournals
  <2>2. DiskOK /\ FilesOK
    BY <1>1 DEF IInv, Typed, DiskOK
  <2>3. Tidy({})
    BY <1>1, <2>1, RestTidy DEF Idle
  <2>4. IF Rec = <<>> THEN DOMAIN files = {} ELSE Settles(Rec[1])
    BY <2>2, <2>3, TidyNone
  <2>5. DOMAIN files \subseteq Referenced
    BY <2>2, <2>4, RecReferenced DEF Settles
  <2>6. ASSUME qstate # <<>>, ~qstate[1].hasStored
        PROVE  \A j \in DOMAIN files : files[j] = <<>>
    <3>1. CASE ~mem.open
      BY <1>1, <2>1, <2>6, <3>1 DEF TInv, Unstored
    <3>2. CASE mem.open
      <4>1. PICK mq : mq = mem
        OBVIOUS
      <4>2. MemOK(mq)
        BY <1>1, <2>1, <3>2, <4>1, IdleIsQuiet DEF Quiet
      <4>3. mq \in Queues /\ qstate = <<qState(mq.state)>>
        BY <1>1, <3>2, <4>1 DEF IInv, Remembered
      <4>4. ~qState(mq.state).hasStored
        BY <2>6, <4>3
      <4>5. MemSettles(mq)
        BY <2>2, <2>3, <4>2, MemFits
      <4>. QED  BY <2>2, <4>3, <4>4, <4>5, NothingStored
    <3>. QED  BY <3>1, <3>2
  <2>. QED  BY <2>5, <2>6
<1>2. IInv /\ TInv /\ [Next]_vars => IInv' /\ TInv'
  BY NextKeeps, StutterKeeps, NextKeepsTidy, StutterTidies
<1>3. Init => IInv /\ TInv
  BY InitInvariant, InitTidy
<1>. QED  BY <1>1, <1>2, <1>3, PTL DEF Spec
=============================================================================
