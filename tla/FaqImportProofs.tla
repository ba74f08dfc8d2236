--------------------------- MODULE FaqImportProofs ---------------------------
(***************************************************************************)
(* Proofs about the FAQ import, for any workbooks, people, requests and    *)
(* bounds.  The invariant says what each request still knows at each of    *)
(* its steps: a preview shows its file and the conflicts read for it       *)
(* (Preview), a confirmation holds its batch and has compared its answers  *)
(* (Confirmed, AnswersChecked), and any two confirmations under way at the *)
(* same time are in the history (LocksDistinct).                           *)
(***************************************************************************)
EXTENDS FaqImport, FiniteSetTheorems, WellFoundedInduction, TLAPS

Batch == [file : Files, source : SourceIds, by : Authors, status : {"preview", "imported"},
          rows : UNION {[Filled(f) -> Row] : f \in {f \in Files : Parsable(f)}},
          count : Nat, rowVersion : 1 .. 2, known : SUBSET DOMAIN items]
Item == [answer : Answers \cup {NoAnswer}, questions : SUBSET Questions,
         batch : 0 .. Len(batches), edited : BOOLEAN]

\* A previewed row is the row of the file; only its warnings grow.
FromFile(f, r, row) ==
  /\ row.answer = SheetRows(f)[r].answer
  /\ row.questions = Kept(SheetRows(f)[r].questions)
  /\ row.errors = ParsedRow(f, r).errors
  /\ ParsedRow(f, r).warnings \subseteq row.warnings

\* It warns of the questions that a known item has had since the preview was read.
ShowsOwned(row, known) ==
  row.duplicates = {} =>
    \A j \in known :
      ~ items[j].edited /\ Owned(row, items[j].questions) => "question owned" \in row.warnings

Preview(f, known, rows) ==
  /\ Parsable(f)
  /\ known \subseteq DOMAIN items
  /\ rows \in [Filled(f) -> Row]
  /\ \A r \in Filled(f) : FromFile(f, r, rows[r]) /\ ShowsOwned(rows[r], known)

Batches ==
  /\ batches \in Seq(Batch)
  /\ \A b \in DOMAIN batches : Preview(batches[b].file, batches[b].known, batches[b].rows)
  /\ \A b \in DOMAIN batches : batches[b].rowVersion = 1 <=> batches[b].status = "preview"

Items ==
  /\ \A k \in DOMAIN items : items[k] \in Item
  /\ items = [k \in DOMAIN items |-> items[k]]
  /\ \A k \in DOMAIN items : Untouched(k) =>
       /\ items[k].answer = RowOf(k).answer /\ items[k].questions = RowOf(k).questions
       /\ Actionable(RowOf(k))

Uploaded(t) ==
  /\ t.by \in Authors /\ t.file \in Files /\ t.source \in Urls \cup {Local}
  /\ Parsable(t.file)
  /\ t.known \subseteq DOMAIN items
  /\ \A j \in t.known : ~ items[j].edited => items[j].questions \subseteq t.owned

ComparedRows(t) ==
  /\ t.by \in Authors /\ t.file \in Files /\ t.source \in Urls \cup {Local}
  /\ Preview(t.file, t.known, t.rows)
  /\ \A r \in Filled(t.file) : ~ t.rows[r].imported

Confirmed(t) ==
  /\ t.batch \in DOMAIN batches /\ batches[t.batch].status = "preview"
  /\ t.chosen # {} /\ t.chosen \subseteq DOMAIN batches[t.batch].rows
  /\ \A r \in t.chosen : Actionable(batches[t.batch].rows[r])

Requesting ==
  /\ tx = [q \in Requests |-> tx[q]]
  /\ \A q \in Requests :
       /\ tx[q].step \in {"none", "uploaded", "compared"} \cup Confirming
       /\ tx[q].step = "uploaded" => Uploaded(tx[q])
       /\ tx[q].step = "compared" => ComparedRows(tx[q])
       /\ tx[q].step \in Confirming => Confirmed(tx[q])

LocksDistinct ==
  \A p, q \in Requests : p # q /\ {tx[p].step, tx[q].step} \subseteq Confirming =>
    /\ tx[p].batch # tx[q].batch
    /\ {tx[p].batch, tx[q].batch} \in overlapped

\* What a confirmation compared is still so, but for drafts written since.
Checked(t) ==
  \A r \in t.chosen, j \in DOMAIN items :
    Untouched(j) /\ AnswerKey[items[j].answer] = AnswerKey[batches[t.batch].rows[r].answer]
      => {t.batch, items[j].batch} \in overlapped

AnswersChecked == \A q \in Requests : tx[q].step \in Confirming => Checked(tx[q])

\* The drafts of a batch, and the rows that are marked as imported.
Drafted(b) == {k \in DOMAIN items : items[k].batch = b}
Marked(b) == {r \in DOMAIN batches[b].rows : batches[b].rows[r].imported}

Accounted(b) ==
  /\ Drafted(b) = {KnowledgeId(batches[b].file, r) : r \in Marked(b)}
  /\ batches[b].count = Cardinality(Marked(b))
  /\ (batches[b].status = "preview") <=> (Marked(b) = {})
  /\ Marked(b) # {} => batches[b].source \in sources

History ==
  /\ sources \subseteq SourceIds
  /\ overlapped \subseteq SUBSET (DOMAIN batches)
  /\ edits \in 0 .. MaxEdits

FaqInv ==
  /\ Batches /\ Items /\ Requesting /\ History
  /\ LocksDistinct /\ AnswersChecked
  /\ SharedAnswerNeedsRaceOrEdit
  /\ \A b \in DOMAIN batches : Accounted(b)

-----------------------------------------------------------------------------
(* Least elements, and the rows of a workbook *)

LEMMA MinIsElement ==
  ASSUME NEW S \in SUBSET Nat, S # {}
  PROVE  Min(S) \in S /\ \A x \in S : Min(S) <= x
  <1> DEFINE R == {ss \in Nat \X Nat : ss[1] < ss[2]}
  <1>1. IsWellFoundedOn(R, Nat)
    BY NatLessThanWellFounded, Zenon DEF OpToRel
  <1> HIDE DEF R
  <1>2. PICK x \in S : \A y \in S : ~ (<<y, x>> \in R)
    BY <1>1, WFMin
  <1>3. ASSUME NEW y \in S
        PROVE  x <= y
    <2>1. y < x => <<y, x>> \in R
      BY DEF R
    <2> QED BY <1>2, <2>1
  <1> QED BY <1>3 DEF Min

LEMMA ElementOfSeq ==
  ASSUME NEW S, NEW s \in Seq(S), NEW i \in DOMAIN s
  PROVE  s[i] \in S
  OBVIOUS

LEMMA SheetTyped ==
  ASSUME NEW f \in Files, Parsable(f)
  PROVE  /\ SheetRows(f) \in Seq(RawRow)
         /\ Filled(f) \subseteq 1 .. Len(SheetRows(f))
         /\ Filled(f) \in SUBSET Nat
         /\ IsFiniteSet(Filled(f)) /\ Cardinality(Filled(f)) <= MaxImportRows
  <1>1. PICK sheets \in Seq([header : BOOLEAN, rows : Seq(RawRow)]) : Workbook[f].sheets = sheets
    BY FaqAssumption
  <1>2. Headed(f) \in SUBSET Nat /\ Headed(f) # {} /\ Headed(f) \subseteq DOMAIN sheets
    BY <1>1 DEF Headed, Parsable
  <1>3. Min(Headed(f)) \in DOMAIN sheets
    BY <1>2, MinIsElement
  <1>4. SheetRows(f) \in Seq(RawRow)
    <2>1. PICK m \in DOMAIN sheets : m = Min(Headed(f))
      BY <1>3
    <2>2. sheets[m] \in [header : BOOLEAN, rows : Seq(RawRow)]
      BY <2>1, ElementOfSeq
    <2>3. SheetRows(f) = sheets[m].rows
      BY <1>1, <2>1 DEF SheetRows
    <2> QED BY <2>2, <2>3
  <1>5. Filled(f) \subseteq 1 .. Len(SheetRows(f)) /\ Len(SheetRows(f)) \in Nat
    BY <1>4 DEF Filled
  <1>6. IsFiniteSet(1 .. Len(SheetRows(f)))
    BY <1>5, FS_Interval
  <1>7. IsFiniteSet(Filled(f))
    BY <1>5, <1>6, FS_Subset
  <1> QED BY <1>4, <1>5, <1>7 DEF Parsable

LEMMA KeptTyped ==
  ASSUME NEW qs \in Seq(Questions)
  PROVE  Kept(qs) \subseteq Questions
  BY DEF Kept

LEMMA ParsedTyped ==
  ASSUME NEW f \in Files, Parsable(f), NEW r \in Filled(f)
  PROVE  /\ ParsedRow(f, r) \in Row
         /\ ParsedRow(f, r).answer = SheetRows(f)[r].answer
         /\ ParsedRow(f, r).questions = Kept(SheetRows(f)[r].questions)
         /\ ParsedRow(f, r).duplicates = {} /\ ~ ParsedRow(f, r).imported
  <1>1. SheetRows(f)[r] \in RawRow
    BY SheetTyped
  <1>2. PICK row \in RawRow : row = SheetRows(f)[r]
    BY <1>1
  <1>3. row.answer \in Answers \cup {NoAnswer} /\ Kept(row.questions) \subseteq Questions
    BY KeptTyped DEF RawRow
  <1>4. PICK errors : errors = Errors(row) \cup
                               (IF AnswerElsewhere(f, r) THEN {"answer repeated"} ELSE {})
    OBVIOUS
  <1>5. PICK warnings : warnings = Warnings(row) \cup
                               (IF QuestionElsewhere(f, r) THEN {"question repeated"} ELSE {})
    OBVIOUS
  <1>6. errors \subseteq {"no answer", "too many questions", "wordless question",
                          "sensitive", "answer repeated"}
    BY <1>4 DEF Errors
  <1>7. warnings \subseteq {"no number", "no questions", "repeats removed", "risky",
                            "question repeated", "question owned", "answer exists"}
    BY <1>5 DEF Warnings
  <1>8. ParsedRow(f, r) = [answer |-> row.answer, questions |-> Kept(row.questions),
                           errors |-> errors, warnings |-> warnings,
                           duplicates |-> {}, imported |-> FALSE]
    BY <1>2, <1>4, <1>5 DEF ParsedRow
  <1>9. ParsedRow(f, r) \in Row
    <2>1. PICK qs \in SUBSET Questions : qs = Kept(row.questions)
      BY <1>3
    <2>2. PICK D : D = SUBSET (Files \X Nat)
      OBVIOUS
    <2>3. {} \in D
      BY <2>2
    <2>4. PICK E : E = SUBSET {"no answer", "too many questions", "wordless question",
                               "sensitive", "answer repeated"}
      OBVIOUS
    <2>5. PICK W : W = SUBSET {"no number", "no questions", "repeats removed", "risky",
                               "question repeated", "question owned", "answer exists"}
      OBVIOUS
    <2>6. Row = [answer : Answers \cup {NoAnswer}, questions : SUBSET Questions,
                 errors : E, warnings : W, duplicates : D, imported : BOOLEAN]
      BY <2>2, <2>4, <2>5 DEF Row
    <2>7. errors \in E /\ warnings \in W
      BY <1>6, <1>7, <2>4, <2>5
    <2> QED BY <2>1, <2>3, <2>6, <2>7, <1>3, <1>8
  <1> QED BY <1>2, <1>8, <1>9

-----------------------------------------------------------------------------
(* What actionable rows are *)

LEMMA ActionableIsClean ==
  ASSUME NEW f \in Files, Parsable(f), NEW r \in Filled(f), NEW row \in Row,
         FromFile(f, r, row), Actionable(row)
  PROVE  /\ row.answer \in Answers
         /\ ({row.answer} \cup row.questions) \cap Sensitive = {}
         /\ row.questions \cap Wordless = {}
         /\ ~ AnswerElsewhere(f, r) /\ row.duplicates = {}
  <1>1. PICK raw : raw = SheetRows(f)[r]
    OBVIOUS
  <1>2. ParsedRow(f, r).errors = Errors(raw) \cup
          (IF AnswerElsewhere(f, r) THEN {"answer repeated"} ELSE {})
    BY <1>1 DEF ParsedRow
  <1>3. Errors(raw) = {} /\ ~ AnswerElsewhere(f, r)
    BY <1>2 DEF FromFile, Actionable
  <1>4. row.answer = raw.answer /\ row.questions = Kept(raw.questions)
    BY <1>1 DEF FromFile
  <1>5. /\ raw.answer # NoAnswer /\ Kept(raw.questions) \cap Wordless = {}
        /\ ({raw.answer} \cup Kept(raw.questions)) \cap Sensitive = {}
    BY <1>3 DEF Errors
  <1> QED BY <1>3, <1>4, <1>5 DEF Row, Actionable

-----------------------------------------------------------------------------
(* Facts about the drafts there are *)

\* A draft's key names the file and the row it was written from.
LEMMA DraftKeys ==
  ASSUME FaqInv, NEW k \in DOMAIN items, Faq(k)
  PROVE  /\ items[k].batch \in DOMAIN batches
         /\ batches[items[k].batch].file \in Files
         /\ Parsable(batches[items[k].batch].file)
         /\ k = KnowledgeId(batches[items[k].batch].file, k[2])
         /\ k[2] \in Filled(batches[items[k].batch].file)
         /\ k \in Files \X Nat
         /\ RowOf(k) \in Row
         /\ FromFile(batches[items[k].batch].file, k[2], RowOf(k))
         /\ batches[items[k].batch].source \in sources
         /\ RowOf(k).imported /\ batches[items[k].batch].status = "imported"
  <1>1. items[k] \in Item
    BY DEF FaqInv, Items
  <1>2. PICK b \in 1 .. Len(batches) : b = items[k].batch
    BY <1>1 DEF Item, Faq
  <1>3. batches \in Seq(Batch)
    BY DEF FaqInv, Batches
  <1>4. b \in DOMAIN batches /\ batches[b] \in Batch
    BY <1>2, <1>3, ElementOfSeq
  <1>5. PICK f \in Files : f = batches[b].file
    BY <1>4 DEF Batch
  <1>6. /\ Parsable(f) /\ batches[b].rows \in [Filled(f) -> Row]
        /\ \A r \in Filled(f) : FromFile(f, r, batches[b].rows[r])
    BY <1>4, <1>5 DEF FaqInv, Batches, Preview
  <1>7. PICK marked : marked = Marked(b)
    OBVIOUS
  <1>8. /\ k \in Drafted(b)
        /\ Drafted(b) = {KnowledgeId(batches[b].file, r) : r \in marked}
        /\ (batches[b].status = "preview") <=> (marked = {})
        /\ marked # {} => batches[b].source \in sources
    BY <1>2, <1>4, <1>7 DEF FaqInv, Accounted, Drafted
  <1>9. PICK r \in marked : k = KnowledgeId(f, r)
    BY <1>2, <1>5, <1>8
  <1>10. r \in Filled(f) /\ k[2] = r /\ Filled(f) \in SUBSET Nat /\ batches[b].rows[r].imported
    BY <1>5, <1>6, <1>7, <1>9, SheetTyped DEF KnowledgeId, Marked
  <1>11. batches[b].status = "imported"
    BY <1>4, <1>8, <1>9 DEF Batch
  <1>12. RowOf(k) = batches[b].rows[r]
    BY <1>2, <1>10 DEF RowOf
  <1>13. k \in Files \X Nat
    BY <1>9, <1>10 DEF KnowledgeId
  <1> QED BY <1>2, <1>4, <1>5, <1>6, <1>8, <1>9, <1>10, <1>11, <1>12, <1>13

\* Two untouched drafts of one file answer differently.
LEMMA SameFileAnswersDiffer ==
  ASSUME NEW f \in Files, Parsable(f), NEW r \in Filled(f), NEW o \in Filled(f) \ {r},
         NEW row \in Row, FromFile(f, r, row), Actionable(row),
         NEW other \in Row, FromFile(f, o, other), Actionable(other)
  PROVE  AnswerKey[row.answer] # AnswerKey[other.answer]
  <1>1. row.answer = SheetRows(f)[r].answer /\ other.answer = SheetRows(f)[o].answer
    BY DEF FromFile
  <1>2. row.answer \in Answers /\ ~ AnswerElsewhere(f, r) /\ other.answer \in Answers
    BY ActionableIsClean
  <1>3. NoAnswer \notin Answers
    BY FaqAssumption
  <1> QED BY <1>1, <1>2, <1>3 DEF AnswerElsewhere

-----------------------------------------------------------------------------
(* A step of one request that writes nothing *)

LEMMA TxStep ==
  ASSUME FaqInv, NEW q \in Requests, NEW t, tx' = [tx EXCEPT ![q] = t],
         UNCHANGED <<batches, items, sources, edits>>,
         NEW O \in SUBSET SUBSET (DOMAIN batches), overlapped' = overlapped \cup O,
         t.step \in {"none", "uploaded", "compared"} \cup Confirming,
         t.step = "uploaded" => Uploaded(t),
         t.step = "compared" => ComparedRows(t),
         t.step \in Confirming =>
           /\ Confirmed(t)
           /\ \A p \in Requests \ {q} : tx[p].step \in Confirming =>
                t.batch # tx[p].batch /\ {t.batch, tx[p].batch} \in overlapped'
           /\ Checked(t)'
  PROVE  FaqInv'
  <1>1. tx'[q] = t /\ \A p \in Requests \ {q} : tx'[p] = tx[p]
    BY DEF FaqInv, Requesting
  <1>2. tx' = [p \in Requests |-> tx'[p]]
    BY DEF FaqInv, Requesting
  <1>3. Batches'
    BY DEF FaqInv, Batches, Batch, Preview, ShowsOwned
  <1>4. Items'
    BY DEF FaqInv, Items, Item, Untouched, Faq, RowOf
  <1>5. /\ \A b \in DOMAIN batches : Accounted(b)'
        /\ SharedAnswerNeedsRaceOrEdit'
    <2>1. ASSUME NEW b \in DOMAIN batches
          PROVE  Accounted(b)'
      <3>1. Drafted(b)' = Drafted(b) /\ Marked(b)' = Marked(b)
        BY DEF Drafted, Marked
      <3> QED BY <3>1 DEF FaqInv, Accounted
    <2>2. overlapped \subseteq overlapped'
      OBVIOUS
    <2>3. SharedAnswerNeedsRaceOrEdit'
      BY <2>2 DEF FaqInv, SharedAnswerNeedsRaceOrEdit, Untouched, Faq
    <2> QED BY <2>1, <2>3
  <1>6. History'
    BY DEF FaqInv, History
  <1>7. ASSUME NEW p \in Requests
        PROVE  /\ tx'[p].step \in {"none", "uploaded", "compared"} \cup Confirming
               /\ tx'[p].step = "uploaded" => Uploaded(tx'[p])
               /\ tx'[p].step = "compared" => ComparedRows(tx'[p])
               /\ tx'[p].step \in Confirming => Confirmed(tx'[p])
    <2>1. CASE p = q
      BY <2>1, <1>1
    <2>2. CASE p # q
      BY <2>2, <1>1 DEF FaqInv, Requesting
    <2> QED BY <2>1, <2>2
  <1>8. Requesting'
    <2>1. ASSUME NEW u
          PROVE  /\ Uploaded(u) => Uploaded(u)'
                 /\ ComparedRows(u) => ComparedRows(u)'
                 /\ Confirmed(u) => Confirmed(u)'
      BY DEF Uploaded, ComparedRows, Confirmed, Preview, ShowsOwned
    <2>2. ASSUME NEW p \in Requests
          PROVE  /\ tx'[p].step = "uploaded" => Uploaded(tx[p])'
                 /\ tx'[p].step = "compared" => ComparedRows(tx[p])'
                 /\ tx'[p].step \in Confirming => Confirmed(tx[p])'
      <3>1. PICK u : u = tx'[p]
        OBVIOUS
      <3>2. /\ u.step = "uploaded" => Uploaded(u)'
            /\ u.step = "compared" => ComparedRows(u)'
            /\ u.step \in Confirming => Confirmed(u)'
        BY <1>7, <2>1, <3>1
      <3>3. u.step = "uploaded" => Uploaded(tx[p])'
        BY <3>1, <3>2 DEF Uploaded
      <3>4. u.step = "compared" => ComparedRows(tx[p])'
        BY <3>1, <3>2 DEF ComparedRows
      <3>5. u.step \in Confirming => Confirmed(tx[p])'
        BY <3>1, <3>2 DEF Confirmed
      <3> QED BY <3>1, <3>3, <3>4, <3>5
    <2> QED BY <1>2, <1>7, <2>2 DEF Requesting
  <1>9. LocksDistinct'
    <2>1. ASSUME NEW p \in Requests, NEW o \in Requests, p # o,
                 {tx'[p].step, tx'[o].step} \subseteq Confirming
          PROVE  tx'[p].batch # tx'[o].batch /\ {tx'[p].batch, tx'[o].batch} \in overlapped'
      <3>1. CASE p = q
        BY <2>1, <3>1, <1>1
      <3>2. CASE o = q
        <4>1. {t.batch, tx[p].batch} \in overlapped' /\ t.batch # tx[p].batch
          BY <2>1, <3>2, <1>1
        <4>2. {t.batch, tx[p].batch} = {tx[p].batch, t.batch}
          OBVIOUS
        <4> QED BY <2>1, <3>2, <4>1, <4>2, <1>1
      <3>3. CASE p # q /\ o # q
        BY <2>1, <3>3, <1>1 DEF FaqInv, LocksDistinct
      <3> QED BY <3>1, <3>2, <3>3
    <2> QED BY <2>1 DEF LocksDistinct
  <1>10. AnswersChecked'
    <2>1. ASSUME NEW p \in Requests, tx'[p].step \in Confirming
          PROVE  Checked(tx[p])'
      <3>1. CASE p = q
        BY <2>1, <3>1, <1>1 DEF Checked
      <3>2. CASE p # q
        <4>1. PICK u : u = tx[p]
          OBVIOUS
        <4>2. Checked(u) /\ tx'[p] = u
          BY <2>1, <3>2, <4>1, <1>1 DEF FaqInv, AnswersChecked
        <4>3. ASSUME NEW r \in u.chosen, NEW j \in DOMAIN items, Untouched(j),
                     AnswerKey[items[j].answer] = AnswerKey[batches[u.batch].rows[r].answer]
              PROVE  {u.batch, items[j].batch} \in overlapped'
          <5>1. {u.batch, items[j].batch} \in overlapped
            BY <4>2, <4>3 DEF Checked
          <5> QED BY <5>1
        <4>4. Checked(u)'
          BY <4>3 DEF Checked, Untouched, Faq
        <4>5. \A r \in tx'[p].chosen, j \in DOMAIN items' :
                Untouched(j)' /\ AnswerKey[items'[j].answer] = AnswerKey[batches'[tx'[p].batch].rows[r].answer]
                  => {tx'[p].batch, items'[j].batch} \in overlapped'
          BY <4>2, <4>4 DEF Checked
        <4> QED BY <4>5, Zenon DEF Checked
      <3> QED BY <3>1, <3>2
    <2> QED BY <2>1 DEF AnswersChecked, Checked
  <1> QED BY <1>3, <1>4, <1>5, <1>6, <1>8, <1>9, <1>10 DEF FaqInv

LEMMA EndKeeps ==
  ASSUME FaqInv, NEW q \in Requests, tx' = Ended(q),
         UNCHANGED <<batches, items, sources, overlapped, edits>>
  PROVE  FaqInv'
  <1>1. PICK t : t = NoTx
    OBVIOUS
  <1>2. tx' = [tx EXCEPT ![q] = t] /\ t.step = "none"
    BY <1>1 DEF Ended, NoTx
  <1>3. overlapped' = overlapped \cup {} /\ "none" \notin Confirming
    BY DEF Confirming
  <1> QED BY <1>2, <1>3, TxStep

LEMMA UploadKeeps ==
  ASSUME FaqInv, NEW q \in Requests, NEW a \in Actors, NEW f \in Files,
         NEW s \in Urls \cup {Local}, Upload(q, a, f, s)
  PROVE  FaqInv'
  <1>1. PICK t : t = [step |-> "uploaded", by |-> a, file |-> f, source |-> s,
                      owned |-> RetrievalQuestions, known |-> DOMAIN items]
    OBVIOUS
  <1>2. /\ tx' = [tx EXCEPT ![q] = t] /\ a \in Authors /\ Parsable(f)
        /\ UNCHANGED <<batches, items, sources, overlapped, edits>>
    BY <1>1 DEF Upload
  <1>3. \A j \in DOMAIN items : items[j].questions \subseteq RetrievalQuestions
    BY DEF RetrievalQuestions
  <1>4. Uploaded(t)
    BY <1>1, <1>2, <1>3 DEF Uploaded
  <1>5. t.step = "uploaded" /\ "uploaded" \notin Confirming /\ overlapped' = overlapped \cup {}
    BY <1>1, <1>2 DEF Confirming
  <1> QED BY <1>2, <1>4, <1>5, TxStep

\* The row as it goes into the preview.
LEMMA ComparedTyped ==
  ASSUME FaqInv, NEW f \in Files, Parsable(f), NEW r \in Filled(f), NEW owned
  PROVE  LET row == Compared(ParsedRow(f, r), owned)
         IN  /\ row \in Row /\ FromFile(f, r, row) /\ ~ row.imported
             /\ row.duplicates = {} /\ Owned(row, owned) => "question owned" \in row.warnings
  <1>1. PICK p \in Row : p = ParsedRow(f, r)
    BY ParsedTyped
  <1>2. PICK dups : dups = IF p.answer = NoAnswer THEN {} ELSE WithAnswer(p.answer)
    OBVIOUS
  <1>3. PICK more : more = IF dups # {} THEN {"answer exists"}
                           ELSE IF Owned(p, owned) THEN {"question owned"} ELSE {}
    OBVIOUS
  <1>4. PICK row : row = Compared(ParsedRow(f, r), owned)
    OBVIOUS
  <1>5. row = [p EXCEPT !.duplicates = dups, !.warnings = @ \cup more]
    BY <1>1, <1>2, <1>3, <1>4 DEF Compared
  <1>6. PICK w : w = p.warnings \cup more
    OBVIOUS
  <1>7. row = [p EXCEPT !.duplicates = dups, !.warnings = w]
    BY <1>5, <1>6 DEF Row
  <1>8. dups \subseteq Files \X Nat
    BY <1>2, DraftKeys DEF WithAnswer
  <1>9. w \in SUBSET {"no number", "no questions", "repeats removed", "risky",
                      "question repeated", "question owned", "answer exists"}
    BY <1>3, <1>6 DEF Row
  <1>10. /\ row \in Row /\ row.answer = p.answer /\ row.questions = p.questions
         /\ row.errors = p.errors /\ row.warnings = w /\ row.duplicates = dups
         /\ row.imported = p.imported
    <2>1. PICK D : D = SUBSET (Files \X Nat)
      OBVIOUS
    <2>2. dups \in D
      BY <1>8, <2>1
    <2> QED BY <1>7, <1>9, <2>1, <2>2 DEF Row
  <1>11. FromFile(f, r, row) /\ ~ row.imported
    BY <1>1, <1>6, <1>10, ParsedTyped DEF FromFile
  <1>12. row.duplicates = {} /\ Owned(row, owned) => "question owned" \in row.warnings
    BY <1>3, <1>6, <1>10 DEF Owned
  <1> QED BY <1>4, <1>10, <1>11, <1>12

LEMMA CompareAnswersKeeps ==
  ASSUME FaqInv, NEW q \in Requests, CompareAnswers(q)
  PROVE  FaqInv'
  <1>1. PICK u : u = tx[q]
    OBVIOUS
  <1>2. u.step = "uploaded" /\ Uploaded(u)
    BY <1>1 DEF CompareAnswers, FaqInv, Requesting
  <1>3. PICK f \in Files : f = u.file
    BY <1>2 DEF Uploaded
  <1>4. PICK rows : rows = [r \in Filled(f) |-> Compared(ParsedRow(f, r), u.owned)]
    OBVIOUS
  <1>5. PICK t : t = [step |-> "compared", by |-> u.by, file |-> u.file, source |-> u.source,
                      known |-> u.known, rows |-> rows]
    OBVIOUS
  <1>6. /\ tx' = [tx EXCEPT ![q] = t]
        /\ UNCHANGED <<batches, items, sources, overlapped, edits>>
    BY <1>1, <1>3, <1>4, <1>5 DEF CompareAnswers
  <1>7. ASSUME NEW r \in Filled(f)
        PROVE  /\ rows[r] \in Row /\ FromFile(f, r, rows[r]) /\ ~ rows[r].imported
               /\ ShowsOwned(rows[r], u.known)
    <2>1. PICK row : row = rows[r]
      OBVIOUS
    <2>2. /\ row \in Row /\ FromFile(f, r, row) /\ ~ row.imported
          /\ row.duplicates = {} /\ Owned(row, u.owned) => "question owned" \in row.warnings
      BY <1>2, <1>3, <1>4, <2>1, ComparedTyped DEF Uploaded
    <2>3. ASSUME NEW j \in u.known, ~ items[j].edited, Owned(row, items[j].questions)
          PROVE  Owned(row, u.owned)
      BY <1>2, <2>3 DEF Uploaded, Owned
    <2>4. ShowsOwned(row, u.known)
      BY <2>2, <2>3 DEF ShowsOwned
    <2> QED BY <2>1, <2>2, <2>4
  <1>8. rows \in [Filled(f) -> Row]
    BY <1>4, <1>7
  <1>9. Preview(f, u.known, rows)
    BY <1>2, <1>3, <1>7, <1>8 DEF Preview, Uploaded
  <1>10. ComparedRows(t)
    BY <1>2, <1>3, <1>5, <1>7, <1>9 DEF ComparedRows, Uploaded
  <1>11. t.step = "compared" /\ "compared" \notin Confirming /\ overlapped' = overlapped \cup {}
    BY <1>5, <1>6 DEF Confirming
  <1> QED BY <1>6, <1>10, <1>11, TxStep

LEMMA ConfirmKeeps ==
  ASSUME FaqInv, NEW q \in Requests, NEW a \in Actors, NEW b \in DOMAIN batches, NEW v,
         NEW chosen \in SUBSET DOMAIN batches[b].rows, Confirm(q, a, b, v, chosen)
  PROVE  FaqInv'
  <1>1. PICK t : t = [step |-> "checked", batch |-> b, chosen |-> chosen]
    OBVIOUS
  <1>2. PICK O : O = {{b, c} : c \in Locked}
    OBVIOUS
  <1>3. /\ tx' = [tx EXCEPT ![q] = t] /\ overlapped' = overlapped \cup O
        /\ UNCHANGED <<batches, items, sources, edits>>
    BY <1>1, <1>2 DEF Confirm
  <1>4. t.step \in Confirming /\ t.batch = b /\ t.chosen = chosen
    BY <1>1 DEF Confirming
  <1>5. Confirmed(t)
    BY <1>4 DEF Confirmed, Confirm
  <1>6. Locked \subseteq DOMAIN batches
    BY DEF Locked, FaqInv, Requesting, Confirmed
  <1>7. O \in SUBSET SUBSET (DOMAIN batches)
    BY <1>2, <1>6
  <1>8. ASSUME NEW p \in Requests \ {q}, tx[p].step \in Confirming
        PROVE  t.batch # tx[p].batch /\ {t.batch, tx[p].batch} \in overlapped'
    <2>1. tx[p].batch \in Locked
      BY <1>8 DEF Locked
    <2>2. b \notin Locked
      BY DEF Confirm
    <2>3. {b, tx[p].batch} \in O
      BY <1>2, <2>1
    <2> QED BY <1>3, <1>4, <2>1, <2>2, <2>3
  <1>9. Checked(t)'
    <2>1. ASSUME NEW r \in chosen, NEW j \in DOMAIN items, Untouched(j),
                 AnswerKey[items[j].answer] = AnswerKey[batches[b].rows[r].answer]
          PROVE  FALSE
      <3>1. WithAnswer(batches[b].rows[r].answer) = {}
        BY <2>1 DEF Confirm
      <3> QED BY <2>1, <3>1 DEF WithAnswer, Untouched
    <2>2. ASSUME NEW r \in t.chosen, NEW j \in DOMAIN items', Untouched(j)',
                 AnswerKey[items'[j].answer] = AnswerKey[batches'[t.batch].rows[r].answer]
          PROVE  {t.batch, items'[j].batch} \in overlapped'
      <3>1. Untouched(j) /\ j \in DOMAIN items
        BY <1>3, <2>2 DEF Untouched, Faq
      <3> QED BY <1>3, <1>4, <2>1, <2>2, <3>1
    <2> QED BY <2>2, Zenon DEF Checked
  <1>10. t.step \notin {"uploaded", "compared"}
    BY <1>1
  <1> QED BY <1>3, <1>4, <1>5, <1>7, <1>8, <1>9, <1>10, TxStep

LEMMA ResolveKeeps ==
  ASSUME FaqInv, NEW q \in Requests, Resolve(q)
  PROVE  FaqInv'
  <1>1. PICK u : u = tx[q]
    OBVIOUS
  <1>2. u.step \in Confirming /\ Confirmed(u) /\ Checked(u)
    BY <1>1 DEF Resolve, Confirming, FaqInv, Requesting, AnswersChecked
  <1>3. PICK t : t = [step |-> "resolved", batch |-> u.batch, chosen |-> u.chosen,
                      newSource |-> batches[u.batch].source \notin sources]
    OBVIOUS
  <1>4. /\ tx' = [tx EXCEPT ![q] = t]
        /\ UNCHANGED <<batches, items, sources, overlapped, edits>>
    BY <1>1, <1>3 DEF Resolve
  <1>5. t.step \in Confirming /\ t.batch = u.batch /\ t.chosen = u.chosen
    BY <1>3 DEF Confirming
  <1>6. Confirmed(t)
    BY <1>2, <1>5 DEF Confirmed
  <1>7. ASSUME NEW p \in Requests \ {q}, tx[p].step \in Confirming
        PROVE  t.batch # tx[p].batch /\ {t.batch, tx[p].batch} \in overlapped'
    BY <1>1, <1>2, <1>4, <1>5, <1>7 DEF FaqInv, LocksDistinct
  <1>8. Checked(t)'
    <2>1. ASSUME NEW r \in t.chosen, NEW j \in DOMAIN items', Untouched(j)',
                 AnswerKey[items'[j].answer] = AnswerKey[batches'[t.batch].rows[r].answer]
          PROVE  {t.batch, items'[j].batch} \in overlapped'
      <3>1. Untouched(j) /\ j \in DOMAIN items
        BY <1>4, <2>1 DEF Untouched, Faq
      <3> QED BY <1>2, <1>4, <1>5, <2>1, <3>1 DEF Checked
    <2> QED BY <2>1, Zenon DEF Checked
  <1>9. t.step \notin {"uploaded", "compared"} /\ overlapped' = overlapped \cup {}
    BY <1>3, <1>4
  <1> QED BY <1>4, <1>5, <1>6, <1>7, <1>8, <1>9, TxStep

LEMMA InsertBatchKeeps ==
  ASSUME FaqInv, NEW q \in Requests, InsertBatch(q)
  PROVE  FaqInv'
  <1>1. PICK u : u = tx[q]
    OBVIOUS
  <1>2. u.step = "compared" /\ ComparedRows(u)
    BY <1>1 DEF InsertBatch, FaqInv, Requesting
  <1>3. PICK f \in Files : f = u.file
    BY <1>2 DEF ComparedRows
  <1>4. PICK s \in SourceIds : s = SourceId(u.file, u.source)
    BY <1>2 DEF ComparedRows, SourceIds
  <1>5. PICK new : new = [file |-> f, source |-> s, by |-> u.by, status |-> "preview", rows |-> u.rows,
                          count |-> 0, rowVersion |-> 1, known |-> u.known]
    OBVIOUS
  <1>6. /\ batches' = Append(batches, new) /\ tx' = Ended(q)
        /\ UNCHANGED <<items, sources, overlapped, edits>>
    BY <1>1, <1>3, <1>4, <1>5 DEF InsertBatch
  <1>7. PICK n \in Nat : n = Len(batches)
    BY DEF FaqInv, Batches
  <1>8. /\ DOMAIN batches = 1 .. n /\ DOMAIN batches' = 1 .. n + 1 /\ Len(batches') = n + 1
        /\ batches'[n + 1] = new /\ \A b \in 1 .. n : batches'[b] = batches[b]
    BY <1>6, <1>7 DEF FaqInv, Batches
  <1>9. Preview(f, u.known, u.rows) /\ \A r \in Filled(f) : ~ u.rows[r].imported
    BY <1>2, <1>3 DEF ComparedRows
  <1>10. DOMAIN new.rows = Filled(f) /\ u.by \in Authors
    BY <1>2, <1>5, <1>9 DEF Preview, ComparedRows
  <1>11. new \in Batch
    <2>1. PICK R : R = UNION {[Filled(g) -> Row] : g \in {g \in Files : Parsable(g)}}
      OBVIOUS
    <2>2. u.rows \in R
      BY <1>9, <2>1 DEF Preview
    <2>3. PICK K : K = SUBSET DOMAIN items
      OBVIOUS
    <2>4. u.known \in K
      BY <1>9, <2>3 DEF Preview
    <2>5. Batch = [file : Files, source : SourceIds, by : Authors, status : {"preview", "imported"},
                   rows : R, count : Nat, rowVersion : 1 .. 2, known : K]
      BY <2>1, <2>3 DEF Batch
    <2> QED BY <1>5, <1>10, <2>2, <2>4, <2>5
  <1>12. Batches'
    <2>1. Batch' = Batch
      BY <1>6 DEF Batch
    <2>2. batches' \in Seq(Batch)
      BY <1>6, <1>11 DEF FaqInv, Batches
    <2>3. \A b \in 1 .. n + 1 : b \in 1 .. n \/ b = n + 1
      BY <1>7
    <2>4. \A b \in 1 .. n + 1 : Preview(batches'[b].file, batches'[b].known, batches'[b].rows)
      BY <1>5, <1>8, <1>9, <2>3 DEF FaqInv, Batches
    <2>5. \A b \in 1 .. n + 1 : batches'[b].rowVersion = 1 <=> batches'[b].status = "preview"
      BY <1>5, <1>8, <2>3 DEF FaqInv, Batches
    <2> QED BY <1>6, <1>8, <2>1, <2>2, <2>4, <2>5 DEF Batches, Preview, ShowsOwned
  <1>13. \A k \in DOMAIN items : items[k].batch \in 0 .. n /\ (Faq(k) => items[k].batch \in 1 .. n)
    BY <1>7 DEF FaqInv, Items, Item, Faq
  <1>14. Items'
    <2>1. \A k \in DOMAIN items : items[k] \in Item'
      <3>1. 0 .. n \subseteq 0 .. n + 1
        BY <1>7
      <3> QED BY <1>6, <1>7, <1>8, <3>1 DEF FaqInv, Items, Item
    <2>2. \A k \in DOMAIN items : Untouched(k)' =>
            /\ items[k].answer = RowOf(k)'.answer /\ items[k].questions = RowOf(k)'.questions
            /\ Actionable(RowOf(k))'
      <3>1. ASSUME NEW k \in DOMAIN items, Untouched(k)'
            PROVE  Untouched(k) /\ RowOf(k)' = RowOf(k)
        BY <1>6, <1>8, <1>13, <3>1 DEF Untouched, Faq, RowOf
      <3> QED BY <1>6, <3>1 DEF FaqInv, Items, Actionable
    <2> QED BY <1>6, <2>1, <2>2 DEF FaqInv, Items
  <1>15. History'
    <2>1. DOMAIN batches \subseteq DOMAIN batches'
      BY <1>7, <1>8
    <2> QED BY <1>6, <2>1 DEF FaqInv, History
  <1>16. /\ tx' = [p \in Requests |-> tx'[p]] /\ tx'[q] = NoTx
         /\ \A p \in Requests \ {q} : tx'[p] = tx[p]
    BY <1>6 DEF FaqInv, Requesting, Ended
  <1>17. "none" \notin Confirming /\ NoTx.step = "none"
    BY DEF Confirming, NoTx
  <1>18. ASSUME NEW t, Confirmed(t)
         PROVE  Confirmed(t)' /\ batches'[t.batch] = batches[t.batch]
    <2>1. t.batch \in 1 .. n /\ t.batch \in 1 .. n + 1
      BY <1>7, <1>8, <1>18 DEF Confirmed
    <2> QED BY <1>8, <1>18, <2>1 DEF Confirmed
  <1>19. Requesting'
    <2>1. ASSUME NEW t
          PROVE  (Uploaded(t) => Uploaded(t)') /\ (ComparedRows(t) => ComparedRows(t)')
      BY <1>6 DEF Uploaded, ComparedRows, Preview, ShowsOwned
    <2>2. ASSUME NEW p \in Requests
          PROVE  /\ tx'[p].step \in {"none", "uploaded", "compared"} \cup Confirming
                 /\ tx'[p].step = "uploaded" => Uploaded(tx[p])'
                 /\ tx'[p].step = "compared" => ComparedRows(tx[p])'
                 /\ tx'[p].step \in Confirming => Confirmed(tx[p])'
      <3>1. CASE p = q
        BY <1>16, <1>17, <3>1
      <3>2. CASE p # q
        <4>1. /\ tx'[p] = tx[p]
              /\ tx[p].step \in {"none", "uploaded", "compared"} \cup Confirming
              /\ tx[p].step = "uploaded" => Uploaded(tx[p])
              /\ tx[p].step = "compared" => ComparedRows(tx[p])
              /\ tx[p].step \in Confirming => Confirmed(tx[p])
          BY <1>16, <3>2 DEF FaqInv, Requesting
        <4>2. PICK t : t = tx[p]
          OBVIOUS
        <4>3. /\ t.step = "uploaded" => Uploaded(t)'
              /\ t.step = "compared" => ComparedRows(t)'
              /\ t.step \in Confirming => Confirmed(t)'
          BY <4>1, <4>2, <2>1, <1>18
        <4>4. tx'[p] = t
          BY <4>1, <4>2
        <4> QED BY <4>1, <4>2, <4>3, <4>4
                DEF Uploaded, ComparedRows, Confirmed, Preview, ShowsOwned
      <3> QED BY <3>1, <3>2
    <2> QED BY <1>16, <2>2 DEF Requesting
  <1>20. LocksDistinct'
    <2>1. ASSUME NEW p \in Requests, NEW o \in Requests, p # o,
                 {tx'[p].step, tx'[o].step} \subseteq Confirming
          PROVE  tx'[p].batch # tx'[o].batch /\ {tx'[p].batch, tx'[o].batch} \in overlapped'
      <3>1. tx'[p] = tx[p] /\ tx'[o] = tx[o]
        BY <1>16, <1>17, <2>1
      <3> QED BY <1>6, <2>1, <3>1 DEF FaqInv, LocksDistinct
    <2> QED BY <2>1 DEF LocksDistinct
  <1>21. AnswersChecked'
    <2>1. ASSUME NEW p \in Requests, tx'[p].step \in Confirming
          PROVE  Checked(tx[p])'
      <3>1. /\ tx'[p] = tx[p] /\ Checked(tx[p]) /\ Confirmed(tx[p])
        BY <1>16, <1>17, <2>1 DEF FaqInv, Requesting, AnswersChecked
      <3>2. batches'[tx[p].batch] = batches[tx[p].batch]
        BY <3>1, <1>18
      <3>3. ASSUME NEW r \in tx'[p].chosen, NEW j \in DOMAIN items', Untouched(j)',
                   AnswerKey[items'[j].answer] = AnswerKey[batches'[tx'[p].batch].rows[r].answer]
            PROVE  {tx'[p].batch, items'[j].batch} \in overlapped'
        <4>1. Untouched(j) /\ j \in DOMAIN items /\ items'[j] = items[j]
          BY <1>6, <3>3 DEF Untouched, Faq
        <4>2. PICK c : c = tx[p]
          OBVIOUS
        <4>3. /\ r \in c.chosen
              /\ AnswerKey[items[j].answer] = AnswerKey[batches[c.batch].rows[r].answer]
          BY <3>1, <3>2, <3>3, <4>1, <4>2
        <4>4. Checked(c)
          BY <3>1, <4>2
        <4>5. {c.batch, items[j].batch} \in overlapped
          BY <4>1, <4>3, <4>4 DEF Checked
        <4> QED BY <1>6, <3>1, <4>1, <4>2, <4>5
      <3> QED BY <3>3, Zenon DEF Checked
    <2> QED BY <2>1 DEF AnswersChecked, Checked
  <1>22. SharedAnswerNeedsRaceOrEdit'
    BY <1>6 DEF FaqInv, SharedAnswerNeedsRaceOrEdit, Untouched, Faq
  <1>23. \A b \in DOMAIN batches' : Accounted(b)'
    <2>1. ASSUME NEW b \in 1 .. n
          PROVE  Accounted(b)'
      <3>1. Drafted(b)' = Drafted(b) /\ Marked(b)' = Marked(b)
        BY <1>6, <1>8 DEF Drafted, Marked
      <3> QED BY <1>6, <1>8, <3>1 DEF FaqInv, Accounted
    <2>2. Accounted(n + 1)'
      <3>1. Drafted(n + 1)' = {}
        <4>1. \A k \in DOMAIN items : items[k].batch # n + 1
          BY <1>7, <1>13
        <4> QED BY <1>6, <4>1 DEF Drafted
      <3>2. Marked(n + 1)' = {}
        BY <1>5, <1>8, <1>9, <1>10 DEF Marked
      <3>3. batches'[n + 1].count = 0 /\ batches'[n + 1].status = "preview"
        BY <1>5, <1>8
      <3> QED BY <3>1, <3>2, <3>3, FS_EmptySet DEF Accounted
    <2>3. \A b \in 1 .. n + 1 : b \in 1 .. n \/ b = n + 1
      BY <1>7
    <2> QED BY <1>8, <2>1, <2>2, <2>3
  <1> QED BY <1>12, <1>14, <1>15, <1>19, <1>20, <1>21, <1>22, <1>23 DEF FaqInv

\* What Write does: batch b gets its drafts, everything else is as it was.
Wrote(u, b, f, D) ==
  /\ b = u.batch /\ b \in DOMAIN batches /\ f = batches[b].file
  /\ batches' = [batches EXCEPT ![b] = batches'[b]]
  /\ batches'[b] = [batches[b] EXCEPT !.status = "imported", !.count = Cardinality(u.chosen),
                                      !.rowVersion = 2, !.rows = batches'[b].rows]
  /\ batches'[b].rows = [r \in Filled(f) |->
                           [batches[b].rows[r] EXCEPT !.imported = r \in u.chosen]]
  /\ D = {KnowledgeId(f, r) : r \in u.chosen} /\ D \cap DOMAIN items = {}
  /\ DOMAIN items' = DOMAIN items \cup D
  /\ items' = [k \in DOMAIN items \cup D |-> IF k \in DOMAIN items THEN items[k] ELSE Draft(b, k[2])]
  /\ sources' = sources \cup {batches[b].source}
  /\ UNCHANGED <<overlapped, edits>>

LEMMA WriteShape ==
  ASSUME FaqInv, NEW q \in Requests, Write(q)
  PROVE  /\ tx' = Ended(q) /\ tx[q].step \in Confirming
         /\ Confirmed(tx[q]) /\ Checked(tx[q])
         /\ Wrote(tx[q], tx[q].batch, batches[tx[q].batch].file, Drafts(q))
  <1>1. PICK u : u = tx[q]
    OBVIOUS
  <1>2. u.step \in Confirming /\ Confirmed(u) /\ Checked(u)
    BY <1>1 DEF Write, Confirming, FaqInv, Requesting, AnswersChecked
  <1>3. PICK b : b = u.batch
    OBVIOUS
  <1>4. PICK old : old = batches[b]
    OBVIOUS
  <1>5. batches \in Seq(Batch) /\ b \in DOMAIN batches /\ old \in Batch
    BY <1>2, <1>3, <1>4, ElementOfSeq DEF Confirmed, FaqInv, Batches
  <1>6. old.status = "preview" /\ old.rowVersion = 1 /\ DOMAIN old.rows = Filled(old.file)
    BY <1>2, <1>3, <1>4 DEF Confirmed, FaqInv, Batches, Preview
  <1>7. PICK rows : rows = [r \in DOMAIN old.rows |-> [old.rows[r] EXCEPT !.imported = r \in u.chosen]]
    OBVIOUS
  <1>8. batches' = [batches EXCEPT
              ![b].status = "imported", ![b].count = Cardinality(u.chosen),
              ![b].rowVersion = @ + 1,
              ![b].rows = [r \in DOMAIN @ |-> [@[r] EXCEPT !.imported = r \in u.chosen]]]
    BY <1>1, <1>3 DEF Write
  <1>9. PICK new : new = [old EXCEPT !.status = "imported", !.count = Cardinality(u.chosen),
                                     !.rowVersion = 2, !.rows = rows]
    OBVIOUS
  <1>10. batches' = [batches EXCEPT ![b] = new]
    <2>1. PICK n : n = Cardinality(u.chosen)
      OBVIOUS
    <2>2. PICK e1 : e1 = [batches EXCEPT ![b].status = "imported"]
      OBVIOUS
    <2>3. e1 = [batches EXCEPT ![b] = [old EXCEPT !.status = "imported"]]
      BY <1>4, <1>5, <2>2
    <2>4. PICK e2 : e2 = [e1 EXCEPT ![b].count = n]
      OBVIOUS
    <2>5. e2 = [batches EXCEPT ![b] = [old EXCEPT !.status = "imported", !.count = n]]
      BY <1>5, <2>3, <2>4
    <2>6. PICK e3 : e3 = [e2 EXCEPT ![b].rowVersion = @ + 1]
      OBVIOUS
    <2>7. e2[b].rowVersion = 1
      BY <1>5, <1>6, <2>5 DEF Batch
    <2>13. e3 = [e2 EXCEPT ![b].rowVersion = 2]
      BY <2>6, <2>7
    <2>8. e3 = [batches EXCEPT ![b] = [old EXCEPT !.status = "imported", !.count = n, !.rowVersion = 2]]
      BY <1>5, <2>5, <2>13
    <2>9. e3[b].rows = old.rows
      BY <1>5, <2>8 DEF Batch
    <2>10. PICK chosen : chosen = u.chosen
      OBVIOUS
    <2>14. batches' = [batches EXCEPT
              ![b].status = "imported", ![b].count = n, ![b].rowVersion = @ + 1,
              ![b].rows = [r \in DOMAIN @ |-> [@[r] EXCEPT !.imported = r \in chosen]]]
      BY <1>8, <2>1, <2>10
    <2>15. PICK marked : marked = [r \in DOMAIN e3[b].rows |-> [e3[b].rows[r] EXCEPT !.imported = r \in chosen]]
      OBVIOUS
    <2>16. marked = rows
      BY <1>7, <2>9, <2>10, <2>15
    <2>11. batches' = [e3 EXCEPT ![b].rows = marked]
      BY <2>2, <2>4, <2>6, <2>14, <2>15
    <2>12. batches' = [e3 EXCEPT ![b].rows = rows]
      BY <2>11, <2>16
    <2> QED BY <1>5, <1>9, <2>1, <2>8, <2>12
  <1>11. batches'[b] = new /\ new.rows = rows
    BY <1>5, <1>9, <1>10 DEF Batch
  <1>12. rows = [r \in Filled(old.file) |-> [old.rows[r] EXCEPT !.imported = r \in u.chosen]]
    BY <1>6, <1>7
  <1>13. PICK D : D = Drafts(q)
    OBVIOUS
  <1>14. D = {KnowledgeId(old.file, r) : r \in u.chosen} /\ D \cap DOMAIN items = {}
    BY <1>1, <1>3, <1>4, <1>13 DEF Drafts, Write, KeyExists, Taken
  <1>15. items' = [k \in DOMAIN items \cup D |->
                     IF k \in DOMAIN items THEN items[k] ELSE Draft(b, k[2])]
    BY <1>1, <1>3, <1>13 DEF Write
  <1>16. Wrote(u, b, old.file, D)
    <2>1. batches' = [batches EXCEPT ![b] = batches'[b]]
      BY <1>10, <1>11
    <2>2. batches'[b] = [batches[b] EXCEPT !.status = "imported", !.count = Cardinality(u.chosen),
                                           !.rowVersion = 2, !.rows = batches'[b].rows]
      BY <1>4, <1>9, <1>11
    <2>3. batches'[b].rows = [r \in Filled(old.file) |->
                                [batches[b].rows[r] EXCEPT !.imported = r \in u.chosen]]
      BY <1>4, <1>11, <1>12
    <2>4. DOMAIN items' = DOMAIN items \cup D
      BY <1>15
    <2>5. sources' = sources \cup {batches[b].source} /\ UNCHANGED <<overlapped, edits>>
      BY <1>1, <1>3 DEF Write
    <2> QED BY <1>3, <1>4, <1>5, <1>14, <1>15, <2>1, <2>2, <2>3, <2>4, <2>5 DEF Wrote
  <1> QED BY <1>1, <1>2, <1>3, <1>4, <1>13, <1>16 DEF Write

\* What the batch and the drafts look like after it.
LEMMA WriteFacts ==
  ASSUME FaqInv, NEW u, NEW b, NEW f, NEW D, Confirmed(u), Wrote(u, b, f, D)
  PROVE  /\ f \in Files /\ Parsable(f) /\ u.chosen \subseteq Filled(f) /\ u.chosen # {}
         /\ DOMAIN batches' = DOMAIN batches /\ Len(batches') = Len(batches)
         /\ \A c \in DOMAIN batches \ {b} : batches'[c] = batches[c]
         /\ batches'[b] \in Batch
         /\ batches'[b].file = f /\ batches'[b].known = batches[b].known
         /\ batches'[b].status = "imported" /\ batches'[b].rowVersion = 2
         /\ batches'[b].count = Cardinality(u.chosen)
         /\ batches'[b].source = batches[b].source
         /\ batches'[b].rows \in [Filled(f) -> Row]
         /\ \A r \in Filled(f) :
              /\ batches[b].rows[r] \in Row
              /\ batches'[b].rows[r] = [batches[b].rows[r] EXCEPT !.imported = r \in u.chosen]
         /\ \A k \in DOMAIN items : items'[k] = items[k] /\ items[k].batch # b
         /\ \A k \in D : /\ k[2] \in u.chosen /\ k = KnowledgeId(f, k[2])
                         /\ items'[k] = Draft(b, k[2]) /\ k \notin DOMAIN items
  <1>1. PICK old \in Batch : old = batches[b]
    BY ElementOfSeq DEF Wrote, FaqInv, Batches
  <1>2. batches \in Seq(Batch) /\ b \in DOMAIN batches
    BY DEF Wrote, FaqInv, Batches
  <1>3. f \in Files /\ f = old.file
    BY <1>1 DEF Wrote, Batch
  <1>4. Parsable(f) /\ old.rows \in [Filled(f) -> Row]
    BY <1>1, <1>2, <1>3 DEF FaqInv, Batches, Preview
  <1>5. u.chosen \subseteq Filled(f) /\ u.chosen # {} /\ old.status = "preview"
    BY <1>1, <1>4 DEF Wrote, Confirmed
  <1>6. PICK new : new = batches'[b]
    OBVIOUS
  <1>7. DOMAIN batches' = DOMAIN batches /\ \A c \in DOMAIN batches \ {b} : batches'[c] = batches[c]
    BY <1>2 DEF Wrote
  <1>8. Len(batches') = Len(batches)
    BY <1>2 DEF Wrote
  <1>9. PICK rows : rows = new.rows
    OBVIOUS
  <1>10. rows = [r \in Filled(f) |-> [old.rows[r] EXCEPT !.imported = r \in u.chosen]]
    BY <1>1, <1>6, <1>9 DEF Wrote
  <1>11. ASSUME NEW r \in Filled(f)
         PROVE  old.rows[r] \in Row /\ rows[r] \in Row
                /\ rows[r] = [old.rows[r] EXCEPT !.imported = r \in u.chosen]
    <2>1. PICK row \in Row : row = old.rows[r]
      BY <1>4
    <2>2. (r \in u.chosen) \in BOOLEAN
      OBVIOUS
    <2>3. ASSUME NEW x \in BOOLEAN
          PROVE  [row EXCEPT !.imported = x] \in Row
      BY <2>1 DEF Row
    <2>4. [row EXCEPT !.imported = r \in u.chosen] \in Row
      BY <2>2, <2>3, Zenon
    <2> QED BY <1>10, <2>1, <2>4
  <1>12. rows \in [Filled(f) -> Row]
    BY <1>10, <1>11
  <1>13. PICK n \in Nat : n = Cardinality(u.chosen)
    <2>1. IsFiniteSet(u.chosen)
      BY <1>3, <1>4, <1>5, SheetTyped, FS_Subset
    <2> QED BY <2>1, FS_CardinalityType
  <1>14. new = [old EXCEPT !.status = "imported", !.count = n, !.rowVersion = 2, !.rows = rows]
    BY <1>1, <1>6, <1>9, <1>13 DEF Wrote
  <1>15. /\ new \in Batch /\ new.file = f /\ new.known = old.known /\ new.status = "imported"
         /\ new.rowVersion = 2 /\ new.count = n /\ new.source = old.source
    <2>1. PICK R : R = UNION {[Filled(g) -> Row] : g \in {g \in Files : Parsable(g)}}
      OBVIOUS
    <2>2. rows \in R
      BY <1>3, <1>4, <1>12, <2>1
    <2>3. PICK K : K = SUBSET DOMAIN items
      OBVIOUS
    <2>4. Batch = [file : Files, source : SourceIds, by : Authors, status : {"preview", "imported"},
                   rows : R, count : Nat, rowVersion : 1 .. 2, known : K]
      BY <2>1, <2>3 DEF Batch
    <2>5. /\ old.source \in SourceIds /\ old.by \in Authors /\ old.known \in K
          /\ old = [file |-> old.file, source |-> old.source, by |-> old.by, status |-> old.status,
                    rows |-> old.rows, count |-> old.count, rowVersion |-> old.rowVersion,
                    known |-> old.known]
      BY <1>1, <2>4
    <2>6. new = [file |-> f, source |-> old.source, by |-> old.by, status |-> "imported",
                 rows |-> rows, count |-> n, rowVersion |-> 2, known |-> old.known]
      BY <1>3, <1>14, <2>5
    <2>7. new \in Batch
      BY <1>3, <1>13, <2>2, <2>4, <2>5, <2>6
    <2> QED BY <2>6, <2>7
  <1>16. Drafted(b) = {}
    <2>1. PICK marked : marked = Marked(b)
      OBVIOUS
    <2>2. /\ Drafted(b) = {KnowledgeId(batches[b].file, r) : r \in marked}
          /\ (batches[b].status = "preview") <=> (marked = {})
      BY <1>2, <2>1 DEF FaqInv, Accounted
    <2> QED BY <1>1, <1>5, <2>2
  <1>17. \A k \in DOMAIN items : items'[k] = items[k] /\ items[k].batch # b
    BY <1>16 DEF Wrote, Drafted
  <1>18. ASSUME NEW k \in D
         PROVE  /\ k[2] \in u.chosen /\ k = KnowledgeId(f, k[2])
                /\ items'[k] = Draft(b, k[2]) /\ k \notin DOMAIN items
    BY DEF Wrote, KnowledgeId
  <1> QED BY <1>1, <1>3, <1>4, <1>5, <1>6, <1>7, <1>8, <1>9, <1>11, <1>12, <1>13, <1>15, <1>17, <1>18

LEMMA WriteKeepsBatches ==
  ASSUME FaqInv, NEW u, NEW b, NEW f, NEW D, Confirmed(u), Wrote(u, b, f, D)
  PROVE  Batches' /\ History'
  <1>1. PICK I : I = DOMAIN items
    OBVIOUS
  <1>2. batches \in Seq(Batch) /\ b \in DOMAIN batches /\ DOMAIN batches' = DOMAIN batches
    BY WriteFacts DEF FaqInv, Batches, Wrote
  <1>3. /\ \A c \in DOMAIN batches \ {b} : batches'[c] = batches[c]
        /\ batches'[b] \in Batch
    BY WriteFacts
  <1>4. \A k \in I : items'[k] = items[k]
    BY <1>1, WriteFacts
  <1>5. I \subseteq DOMAIN items'
    BY <1>1 DEF Wrote
  <1>6. PICK R : R = UNION {[Filled(g) -> Row] : g \in {g \in Files : Parsable(g)}}
    OBVIOUS
  <1>7. Batch \subseteq Batch'
    <2>1. PICK K : K = SUBSET I
      OBVIOUS
    <2>2. PICK L : L = SUBSET (DOMAIN items')
      OBVIOUS
    <2>3. K \subseteq L
      BY <1>5, <2>1, <2>2
    <2>4. Batch = [file : Files, source : SourceIds, by : Authors, status : {"preview", "imported"},
                   rows : R, count : Nat, rowVersion : 1 .. 2, known : K]
      BY <1>1, <1>6, <2>1 DEF Batch
    <2>5. Batch' = [file : Files, source : SourceIds, by : Authors, status : {"preview", "imported"},
                    rows : R, count : Nat, rowVersion : 1 .. 2, known : L]
      BY <1>6, <2>2 DEF Batch
    <2> QED BY <2>3, <2>4, <2>5
  <1>8. batches' \in Seq(Batch)
    <2>1. PICK n : n = batches'[b]
      OBVIOUS
    <2>2. batches' = [batches EXCEPT ![b] = n] /\ n \in Batch
      BY <1>3, <2>1 DEF Wrote
    <2> QED BY <1>2, <2>2
  <1>9. batches' \in Seq(Batch')
    <2>1. PICK s \in Seq(Batch) : s = batches'
      BY <1>8
    <2>2. PICK B : B = Batch'
      OBVIOUS
    <2>3. s \in Seq(B)
      BY <1>7, <2>1, <2>2
    <2> QED BY <2>1, <2>2, <2>3
  <1>14. \A c \in DOMAIN batches : batches[c].file \in Files /\ batches[c].source \in SourceIds
    <2>1. \A x \in Batch : x.file \in Files /\ x.source \in SourceIds
      BY DEF Batch
    <2> QED BY <1>2, <2>1, ElementOfSeq
  <1>10. \A row, known : known \in SUBSET I /\ ShowsOwned(row, known) => ShowsOwned(row, known)'
    BY <1>1, <1>4 DEF ShowsOwned
  <1>11. ASSUME NEW c \in DOMAIN batches
         PROVE  /\ Preview(batches[c].file, batches[c].known, batches[c].rows)'
                /\ batches'[c].rowVersion = 1 <=> batches'[c].status = "preview"
    <2>1. PICK g \in Files : g = batches[c].file
      BY <1>14
    <2>2. PICK known : known = batches[c].known
      OBVIOUS
    <2>3. PICK old : old = batches[c].rows
      OBVIOUS
    <2>4. /\ Parsable(g) /\ known \in SUBSET I /\ old \in [Filled(g) -> Row]
          /\ \A r \in Filled(g) : FromFile(g, r, old[r]) /\ ShowsOwned(old[r], known)
      BY <1>1, <2>1, <2>2, <2>3 DEF FaqInv, Batches, Preview
    <2>5. PICK new : new = batches'[c].rows
      OBVIOUS
    <2>6. /\ batches'[c].file = g /\ batches'[c].known = known /\ new \in [Filled(g) -> Row]
          /\ \A r \in Filled(g) :
               /\ new[r].answer = old[r].answer /\ new[r].questions = old[r].questions
               /\ new[r].errors = old[r].errors /\ new[r].warnings = old[r].warnings
               /\ new[r].duplicates = old[r].duplicates
          /\ batches'[c].rowVersion = 1 <=> batches'[c].status = "preview"
      <3>1. CASE c = b
        <4>3. f = g
          BY <3>1, <2>1 DEF Wrote
        <4>1. /\ f = g /\ new \in [Filled(g) -> Row]
              /\ batches'[c].file = g /\ batches'[c].known = known
              /\ batches'[c].status = "imported" /\ batches'[c].rowVersion = 2
          BY <3>1, <4>3, <2>2, <2>5, WriteFacts
        <4>2. ASSUME NEW r \in Filled(g)
              PROVE  /\ new[r].answer = old[r].answer /\ new[r].questions = old[r].questions
                     /\ new[r].errors = old[r].errors /\ new[r].warnings = old[r].warnings
                     /\ new[r].duplicates = old[r].duplicates
          <5>1. PICK row \in Row : row = old[r]
            BY <2>4
          <5>2. new[r] = [row EXCEPT !.imported = r \in u.chosen]
            BY <3>1, <4>1, <5>1, <2>3, <2>5, WriteFacts
          <5> QED BY <5>1, <5>2 DEF Row
        <4> QED BY <4>1, <4>2
      <3>2. CASE c # b
        <4>1. batches'[c] = batches[c]
          BY <3>2, <1>3
        <4>2. batches[c].rowVersion = 1 <=> batches[c].status = "preview"
          BY DEF FaqInv, Batches
        <4> QED BY <4>1, <4>2, <2>1, <2>2, <2>3, <2>4, <2>5
      <3> QED BY <3>1, <3>2
    <2>7. ASSUME NEW r \in Filled(g)
          PROVE  FromFile(g, r, new[r]) /\ ShowsOwned(new[r], known)'
      <3>1. FromFile(g, r, new[r])
        BY <2>4, <2>6 DEF FromFile
      <3>2. ShowsOwned(new[r], known)
        BY <2>4, <2>6 DEF ShowsOwned, Owned
      <3> QED BY <3>1, <3>2, <2>4, <1>10
    <2>8. Preview(g, known, new)'
      BY <1>1, <1>5, <2>4, <2>6, <2>7 DEF Preview
    <2>9. Preview(batches[c].file, batches[c].known, batches[c].rows)'
      <3>1. batches'[c].file = g /\ batches'[c].known = known /\ batches'[c].rows = new
        BY <2>5, <2>6
      <3> QED BY <3>1, <2>8, Zenon DEF Preview, ShowsOwned
    <2> QED BY <2>6, <2>9
  <1>12. Batches'
    BY <1>2, <1>9, <1>11 DEF Batches, Preview, ShowsOwned
  <1>13. History'
    <2>1. batches[b].source \in SourceIds
      BY <1>2, <1>14
    <2> QED BY <1>2, <2>1 DEF FaqInv, History, Wrote
  <1> QED BY <1>12, <1>13

\* A new draft is what the preview said of its row.
LEMMA NewDraft ==
  ASSUME FaqInv, NEW u, NEW b, NEW f, NEW D, Confirmed(u), Wrote(u, b, f, D), NEW k \in D
  PROVE  /\ k[2] \in Filled(f) /\ k[2] \in u.chosen /\ items'[k] \in Item' /\ k \notin DOMAIN items
         /\ items'[k].batch = b /\ ~ items'[k].edited /\ Untouched(k)'
         /\ items'[k].answer = RowOf(k)'.answer /\ items'[k].questions = RowOf(k)'.questions
         /\ Actionable(RowOf(k))'
         /\ batches[b].rows[k[2]] \in Row /\ Actionable(batches[b].rows[k[2]])
         /\ FromFile(f, k[2], batches[b].rows[k[2]])
         /\ items'[k].answer = batches[b].rows[k[2]].answer
  <1>1. PICK r \in u.chosen : r = k[2]
    BY WriteFacts
  <1>2. r \in Filled(f) /\ b = u.batch /\ b \in DOMAIN batches
    <2>1. u.chosen \subseteq Filled(f)
      BY WriteFacts
    <2> QED BY <2>1 DEF Wrote
  <1>3. PICK row \in Row : row = batches[b].rows[r]
    BY <1>2, WriteFacts
  <1>4. Actionable(row)
    BY <1>1, <1>2, <1>3 DEF Confirmed
  <1>5. FromFile(f, r, row)
    BY <1>2, <1>3 DEF Wrote, FaqInv, Batches, Preview
  <1>6. items'[k] = [answer |-> row.answer, questions |-> row.questions, batch |-> b, edited |-> FALSE]
    BY <1>1, <1>3, WriteFacts DEF Draft
  <1>7. batches'[b].rows[r] = [row EXCEPT !.imported = r \in u.chosen]
    BY <1>2, <1>3, WriteFacts
  <1>8. PICK new : new = batches'[b].rows[r]
    OBVIOUS
  <1>9. new.answer = row.answer /\ new.questions = row.questions /\ new.errors = row.errors
        /\ new.duplicates = row.duplicates
    BY <1>7, <1>8 DEF Row
  <1>10. b \in Nat /\ b # 0 /\ b \in 0 .. Len(batches')
    BY <1>2, WriteFacts DEF FaqInv, Batches
  <1>11. items'[k] \in Item'
    <2>1. row.answer \in Answers \cup {NoAnswer} /\ row.questions \in SUBSET Questions
      BY DEF Row
    <2> QED BY <1>6, <1>10, <2>1 DEF Item
  <1>12. RowOf(k)' = new
    BY <1>1, <1>6, <1>8 DEF RowOf
  <1>13. Untouched(k)'
    BY <1>6, <1>10 DEF Untouched, Faq
  <1>14. Actionable(RowOf(k))'
    BY <1>4, <1>9, <1>12 DEF Actionable
  <1>15. k \notin DOMAIN items
    BY WriteFacts
  <1> QED BY <1>1, <1>2, <1>3, <1>4, <1>5, <1>6, <1>9, <1>11, <1>12, <1>13, <1>14, <1>15

\* The drafts there were are as they were, and so is the row each came from.
LEMMA OldDraft ==
  ASSUME FaqInv, NEW u, NEW b, NEW f, NEW D, Confirmed(u), Wrote(u, b, f, D), NEW k \in DOMAIN items
  PROVE  /\ items'[k] = items[k] /\ items[k].batch # b /\ items[k] \in Item /\ items[k] \in Item'
         /\ Untouched(k)' = Untouched(k)
         /\ Faq(k) => RowOf(k)' = RowOf(k)
  <1>1. items'[k] = items[k] /\ items[k].batch # b /\ items[k] \in Item
    BY WriteFacts DEF FaqInv, Items
  <1>2. Item' = Item
    BY WriteFacts DEF Item
  <1>3. Faq(k)' = Faq(k) /\ Untouched(k)' = Untouched(k)
    BY <1>1 DEF Untouched, Faq
  <1>4. Faq(k) => items[k].batch \in DOMAIN batches
    BY DraftKeys
  <1>5. Faq(k) => RowOf(k)' = RowOf(k)
    BY <1>1, <1>4, WriteFacts DEF RowOf
  <1> QED BY <1>1, <1>2, <1>3, <1>5

LEMMA WriteKeepsItems ==
  ASSUME FaqInv, NEW u, NEW b, NEW f, NEW D, Confirmed(u), Wrote(u, b, f, D)
  PROVE  Items'
  <1>1. \A k \in DOMAIN items' : k \in DOMAIN items \/ k \in D
    BY DEF Wrote
  <1>2. items' = [k \in DOMAIN items' |-> items'[k]]
    BY DEF Wrote
  <1>3. \A k \in DOMAIN items' : items'[k] \in Item'
    BY <1>1, NewDraft, OldDraft
  <1>4. ASSUME NEW k \in DOMAIN items', Untouched(k)'
        PROVE  /\ items'[k].answer = RowOf(k)'.answer /\ items'[k].questions = RowOf(k)'.questions
               /\ Actionable(RowOf(k))'
    <2>1. CASE k \in D
      BY <2>1, NewDraft
    <2>2. CASE k \in DOMAIN items
      <3>1. Untouched(k) /\ Faq(k) /\ items'[k] = items[k] /\ RowOf(k)' = RowOf(k)
        BY <1>4, <2>2, OldDraft DEF Untouched
      <3>2. /\ items[k].answer = RowOf(k).answer /\ items[k].questions = RowOf(k).questions
            /\ Actionable(RowOf(k))
        BY <2>2, <3>1 DEF FaqInv, Items
      <3> QED BY <3>1, <3>2 DEF Actionable
    <2> QED BY <1>1, <2>1, <2>2
  <1> QED BY <1>2, <1>3, <1>4 DEF Items

LEMMA WriteKeepsAccounts ==
  ASSUME FaqInv, NEW u, NEW b, NEW f, NEW D, Confirmed(u), Wrote(u, b, f, D),
         NEW c \in DOMAIN batches'
  PROVE  Accounted(c)'
  <1>1. b \in DOMAIN batches /\ DOMAIN batches' = DOMAIN batches
    BY WriteFacts DEF Wrote
  <1>2. \A k \in D : items'[k].batch = b
    BY NewDraft
  <1>3. \A k \in DOMAIN items : items'[k].batch = items[k].batch /\ items[k].batch # b
    BY OldDraft
  <1>4. DOMAIN items' = DOMAIN items \cup D
    BY DEF Wrote
  <1>5. CASE c = b
    <2>1. Drafted(c)' = D
      BY <1>2, <1>3, <1>4, <1>5 DEF Drafted
    <2>2. Marked(c)' = u.chosen
      <3>1. batches'[b].rows \in [Filled(f) -> Row] /\ u.chosen \subseteq Filled(f)
        BY WriteFacts
      <3>2. ASSUME NEW r \in Filled(f)
            PROVE  batches'[b].rows[r].imported <=> r \in u.chosen
        <4>1. PICK row \in Row : row = batches[b].rows[r]
          BY WriteFacts
        <4>2. batches'[b].rows[r] = [row EXCEPT !.imported = r \in u.chosen]
          BY <4>1, WriteFacts
        <4> QED BY <4>1, <4>2 DEF Row
      <3> QED BY <1>5, <3>1, <3>2 DEF Marked
    <2>3. /\ batches'[b].status = "imported" /\ u.chosen # {} /\ batches'[b].file = f
          /\ batches'[b].count = Cardinality(u.chosen) /\ batches'[b].source = batches[b].source
      BY WriteFacts
    <2>4. D = {KnowledgeId(f, r) : r \in u.chosen} /\ batches[b].source \in sources'
      BY DEF Wrote
    <2> QED BY <1>5, <2>1, <2>2, <2>3, <2>4 DEF Accounted
  <1>6. CASE c # b
    <2>1. batches'[c] = batches[c] /\ c \in DOMAIN batches
      BY <1>1, <1>6, WriteFacts
    <2>2. Drafted(c)' = Drafted(c)
      BY <1>2, <1>3, <1>4, <1>6 DEF Drafted
    <2>3. Marked(c)' = Marked(c)
      BY <2>1 DEF Marked
    <2>4. sources \subseteq sources'
      BY DEF Wrote
    <2> QED BY <2>1, <2>2, <2>3, <2>4 DEF FaqInv, Accounted
  <1> QED BY <1>5, <1>6

LEMMA WriteKeepsAnswers ==
  ASSUME FaqInv, NEW u, NEW b, NEW f, NEW D, Confirmed(u), Checked(u), Wrote(u, b, f, D)
  PROVE  SharedAnswerNeedsRaceOrEdit'
  <1>1. DOMAIN items' = DOMAIN items \cup D /\ overlapped' = overlapped /\ b = u.batch
    BY DEF Wrote
  <1>2. ASSUME NEW i \in D, NEW j \in DOMAIN items, Untouched(j)',
               AnswerKey[items'[i].answer] = AnswerKey[items'[j].answer]
        PROVE  {b, items'[j].batch} \in overlapped'
    <2>1. PICK r \in u.chosen : r = i[2] /\ items'[i].answer = batches[b].rows[r].answer
      BY NewDraft
    <2>2. Untouched(j) /\ items'[j] = items[j]
      BY <1>2, OldDraft
    <2> QED BY <1>1, <1>2, <2>1, <2>2 DEF Checked
  <1>3. ASSUME NEW i \in D, NEW j \in D, i # j,
               AnswerKey[items'[i].answer] = AnswerKey[items'[j].answer]
        PROVE  FALSE
    <2>1. f \in Files /\ Parsable(f)
      BY WriteFacts
    <2>2. i[2] # j[2]
      BY <1>3, WriteFacts
    <2>3. PICK r, row : /\ r = i[2] /\ row = batches[b].rows[i[2]] /\ r \in Filled(f) /\ row \in Row
                        /\ FromFile(f, r, row) /\ Actionable(row) /\ items'[i].answer = row.answer
      BY NewDraft
    <2>4. PICK o, other : /\ o = j[2] /\ other = batches[b].rows[j[2]] /\ o \in Filled(f)
                          /\ other \in Row /\ FromFile(f, o, other) /\ Actionable(other)
                          /\ items'[j].answer = other.answer
      BY NewDraft
    <2>5. o \in Filled(f) \ {r}
      BY <2>2, <2>3, <2>4
    <2> QED BY <1>3, <2>1, <2>3, <2>4, <2>5, SameFileAnswersDiffer
  <1>4. ASSUME NEW i \in DOMAIN items', NEW j \in DOMAIN items', i # j,
               Untouched(i)', Untouched(j)',
               AnswerKey[items'[i].answer] = AnswerKey[items'[j].answer]
        PROVE  {items'[i].batch, items'[j].batch} \in overlapped'
    <2>1. CASE i \in D /\ j \in DOMAIN items
      <3>1. items'[i].batch = b
        BY <2>1, NewDraft
      <3> QED BY <1>2, <1>4, <2>1, <3>1
    <2>2. CASE i \in DOMAIN items /\ j \in D
      <3>1. items'[j].batch = b
        BY <2>2, NewDraft
      <3>2. {b, items'[i].batch} \in overlapped'
        BY <1>2, <1>4, <2>2
      <3>3. {b, items'[i].batch} = {items'[i].batch, b}
        OBVIOUS
      <3> QED BY <3>1, <3>2, <3>3
    <2>3. CASE i \in D /\ j \in D
      BY <1>3, <1>4, <2>3
    <2>4. CASE i \in DOMAIN items /\ j \in DOMAIN items
      <3>1. Untouched(i) /\ Untouched(j) /\ items'[i] = items[i] /\ items'[j] = items[j]
        BY <1>4, <2>4, OldDraft
      <3> QED BY <1>1, <1>4, <2>4, <3>1 DEF FaqInv, SharedAnswerNeedsRaceOrEdit
    <2> QED BY <1>1, <2>1, <2>2, <2>3, <2>4
  <1> QED BY <1>4 DEF SharedAnswerNeedsRaceOrEdit

LEMMA WriteKeeps ==
  ASSUME FaqInv, NEW q \in Requests, Write(q)
  PROVE  FaqInv'
  <1>1. PICK u, b, f, D : /\ u = tx[q] /\ b = u.batch /\ f = batches[b].file
                          /\ tx' = Ended(q) /\ u.step \in Confirming
                          /\ Confirmed(u) /\ Checked(u) /\ Wrote(u, b, f, D)
    BY WriteShape
  <1>2. Batches' /\ History'
    BY <1>1, WriteKeepsBatches
  <1>3. Items'
    BY <1>1, WriteKeepsItems
  <1>4. SharedAnswerNeedsRaceOrEdit'
    BY <1>1, WriteKeepsAnswers
  <1>5. \A c \in DOMAIN batches' : Accounted(c)'
    BY <1>1, WriteKeepsAccounts
  <1>6. /\ tx' = [p \in Requests |-> tx'[p]] /\ tx'[q] = NoTx
        /\ \A p \in Requests \ {q} : tx'[p] = tx[p]
    BY <1>1 DEF FaqInv, Requesting, Ended
  <1>7. "none" \notin Confirming /\ NoTx.step = "none"
    BY DEF Confirming, NoTx
  <1>8. ASSUME NEW p \in Requests, tx'[p].step \in Confirming
        PROVE  /\ p # q /\ tx'[p] = tx[p] /\ tx[p].batch # b /\ {tx[p].batch, b} \in overlapped
               /\ Confirmed(tx[p]) /\ batches'[tx[p].batch] = batches[tx[p].batch]
    <2>1. p # q /\ tx'[p] = tx[p]
      BY <1>6, <1>7, <1>8
    <2>2. tx[p].batch # b /\ {tx[p].batch, b} \in overlapped
      BY <1>1, <1>8, <2>1 DEF FaqInv, LocksDistinct
    <2>3. Confirmed(tx[p])
      BY <1>8, <2>1 DEF FaqInv, Requesting
    <2>4. batches'[tx[p].batch] = batches[tx[p].batch]
      BY <1>1, <2>2, <2>3, WriteFacts DEF Confirmed
    <2> QED BY <2>1, <2>2, <2>3, <2>4
  <1>9. DOMAIN items \subseteq DOMAIN items' /\ \A k \in DOMAIN items : items'[k] = items[k]
    BY <1>1, OldDraft DEF Wrote
  <1>10. Requesting'
    <2>1. \A row, known : known \subseteq DOMAIN items /\ ShowsOwned(row, known)
                          => ShowsOwned(row, known)'
      BY <1>9 DEF ShowsOwned
    <2>2. ASSUME NEW t
          PROVE  (Uploaded(t) => Uploaded(t)') /\ (ComparedRows(t) => ComparedRows(t)')
      BY <1>9, <2>1 DEF Uploaded, ComparedRows, Preview
    <2>3. ASSUME NEW p \in Requests
          PROVE  /\ tx'[p].step \in {"none", "uploaded", "compared"} \cup Confirming
                 /\ tx'[p].step = "uploaded" => Uploaded(tx[p])'
                 /\ tx'[p].step = "compared" => ComparedRows(tx[p])'
                 /\ tx'[p].step \in Confirming => Confirmed(tx[p])'
      <3>1. CASE p = q
        BY <1>6, <1>7, <3>1
      <3>2. CASE p # q
        <4>1. /\ tx'[p] = tx[p]
              /\ tx[p].step \in {"none", "uploaded", "compared"} \cup Confirming
              /\ tx[p].step = "uploaded" => Uploaded(tx[p])
              /\ tx[p].step = "compared" => ComparedRows(tx[p])
          BY <1>6, <3>2 DEF FaqInv, Requesting
        <4>2. PICK t : t = tx[p]
          OBVIOUS
        <4>3. t.step = "uploaded" => Uploaded(t)'
          BY <4>1, <4>2, <2>2
        <4>4. t.step = "compared" => ComparedRows(t)'
          BY <4>1, <4>2, <2>2
        <4>5. t.step \in Confirming => Confirmed(t)'
          <5>1. ASSUME t.step \in Confirming
                PROVE  Confirmed(t) /\ batches'[t.batch] = batches[t.batch]
            BY <4>1, <4>2, <5>1, <1>8
          <5>2. DOMAIN batches' = DOMAIN batches
            BY <1>1, WriteFacts
          <5> QED BY <5>1, <5>2 DEF Confirmed
        <4>6. tx'[p] = t
          BY <4>1, <4>2
        <4> QED BY <4>1, <4>2, <4>3, <4>4, <4>5, <4>6
                DEF Uploaded, ComparedRows, Confirmed, Preview, ShowsOwned
      <3> QED BY <3>1, <3>2
    <2> QED BY <1>6, <2>3 DEF Requesting
  <1>11. overlapped' = overlapped
    BY <1>1 DEF Wrote
  <1>12. LocksDistinct'
    <2>1. ASSUME NEW p \in Requests, NEW o \in Requests, p # o,
                 {tx'[p].step, tx'[o].step} \subseteq Confirming
          PROVE  tx'[p].batch # tx'[o].batch /\ {tx'[p].batch, tx'[o].batch} \in overlapped'
      <3>1. tx'[p] = tx[p] /\ tx'[o] = tx[o]
        BY <1>8, <2>1
      <3> QED BY <1>11, <2>1, <3>1 DEF FaqInv, LocksDistinct
    <2> QED BY <2>1 DEF LocksDistinct
  <1>13. AnswersChecked'
    <2>1. ASSUME NEW p \in Requests, tx'[p].step \in Confirming
          PROVE  Checked(tx[p])'
      <3>1. Checked(tx[p])
        BY <2>1, <1>8 DEF FaqInv, AnswersChecked
      <3>2. ASSUME NEW r \in tx'[p].chosen, NEW j \in DOMAIN items', Untouched(j)',
                   AnswerKey[items'[j].answer] = AnswerKey[batches'[tx'[p].batch].rows[r].answer]
            PROVE  {tx'[p].batch, items'[j].batch} \in overlapped'
        <4>1. CASE j \in D
          <5>1. items'[j].batch = b
            BY <1>1, <4>1, NewDraft
          <5> QED BY <1>8, <1>11, <2>1, <5>1
        <4>2. CASE j \in DOMAIN items
          <5>1. Untouched(j) /\ items'[j] = items[j]
            BY <1>1, <3>2, <4>2, OldDraft
          <5>2. tx'[p] = tx[p] /\ batches'[tx[p].batch] = batches[tx[p].batch]
            BY <1>8, <2>1
          <5> QED BY <1>11, <3>1, <3>2, <4>2, <5>1, <5>2 DEF Checked
        <4> QED BY <1>1, <3>2, <4>1, <4>2 DEF Wrote
      <3> QED BY <3>2, Zenon DEF Checked
    <2> QED BY <2>1 DEF AnswersChecked, Checked
  <1> QED BY <1>2, <1>3, <1>4, <1>5, <1>10, <1>12, <1>13 DEF FaqInv

LEMMA EditKeeps ==
  ASSUME FaqInv, NEW k \in DOMAIN items, NEW e \in Edits, Edit(k, e)
  PROVE  FaqInv'
  <1>1. PICK old \in Item : old = items[k]
    BY DEF FaqInv, Items
  <1>2. PICK new : new = [old EXCEPT !.answer = e.answer, !.questions = e.questions, !.edited = TRUE]
    OBVIOUS
  <1>3. items' = [items EXCEPT ![k] = new]
    <2>1. items = [j \in DOMAIN items |-> items[j]]
      BY DEF FaqInv, Items
    <2>2. PICK e1 : e1 = [items EXCEPT ![k].answer = e.answer]
      OBVIOUS
    <2>3. e1 = [items EXCEPT ![k] = [old EXCEPT !.answer = e.answer]]
      BY <1>1, <2>1, <2>2
    <2>4. PICK e2 : e2 = [e1 EXCEPT ![k].questions = e.questions]
      OBVIOUS
    <2>5. e2 = [items EXCEPT ![k] = [old EXCEPT !.answer = e.answer, !.questions = e.questions]]
      BY <2>1, <2>3, <2>4
    <2>6. items' = [e2 EXCEPT ![k].edited = TRUE]
      BY <2>2, <2>4 DEF Edit
    <2> QED BY <1>2, <2>1, <2>5, <2>6
  <1>4. e.answer \in Answers \cup {NoAnswer} /\ e.questions \in SUBSET Questions
    BY FaqAssumption
  <1>5. new \in Item /\ new.batch = old.batch /\ new.edited
    BY <1>1, <1>2, <1>4 DEF Item
  <1>6. /\ DOMAIN items' = DOMAIN items /\ items'[k] = new
        /\ \A j \in DOMAIN items : /\ items'[j].batch = items[j].batch
                                   /\ ~ items'[j].edited => items'[j] = items[j]
        /\ \A j \in DOMAIN items \ {k} : items'[j] = items[j]
        /\ items' = [j \in DOMAIN items' |-> items'[j]]
    BY <1>1, <1>3, <1>5 DEF FaqInv, Items
  <1>7. UNCHANGED <<batches, sources, tx, overlapped>> /\ edits' = edits + 1 /\ edits < MaxEdits
    BY DEF Edit
  <1>8. Batch' = Batch /\ Item' = Item
    BY <1>6, <1>7 DEF Batch, Item
  <1>9. \A row, known : known \subseteq DOMAIN items /\ ShowsOwned(row, known)
                        => ShowsOwned(row, known)'
    BY <1>6 DEF ShowsOwned
  <1>10. \A f, known, rows : Preview(f, known, rows) => Preview(f, known, rows)'
    BY <1>6, <1>9 DEF Preview
  <1>11. Batches'
    <2>1. \A b \in DOMAIN batches : Preview(batches[b].file, batches[b].known, batches[b].rows)'
      BY <1>7, <1>10 DEF FaqInv, Batches
    <2> QED BY <1>7, <1>8, <2>1 DEF FaqInv, Batches
  <1>12. \A j \in DOMAIN items : Untouched(j)' => Untouched(j) /\ items'[j] = items[j]
    BY <1>6 DEF Untouched, Faq
  <1>13. Items'
    <2>1. \A j \in DOMAIN items : items'[j] \in Item
      BY <1>5, <1>6 DEF FaqInv, Items
    <2>2. ASSUME NEW j \in DOMAIN items, Untouched(j)'
          PROVE  /\ items'[j].answer = RowOf(j)'.answer /\ items'[j].questions = RowOf(j)'.questions
                 /\ Actionable(RowOf(j))'
      <3>1. Untouched(j) /\ items'[j] = items[j] /\ RowOf(j)' = RowOf(j)
        BY <1>7, <1>12, <2>2 DEF RowOf
      <3>2. /\ items[j].answer = RowOf(j).answer /\ items[j].questions = RowOf(j).questions
            /\ Actionable(RowOf(j))
        BY <3>1 DEF FaqInv, Items
      <3> QED BY <3>1, <3>2 DEF Actionable
    <2> QED BY <1>6, <1>8, <2>1, <2>2 DEF Items
  <1>14. History'
    BY <1>7, FaqAssumption DEF FaqInv, History
  <1>15. Requesting'
    <2>1. ASSUME NEW t
          PROVE  /\ Uploaded(t) => Uploaded(t)'
                 /\ ComparedRows(t) => ComparedRows(t)'
                 /\ Confirmed(t) => Confirmed(t)'
      <3>1. Uploaded(t) => Uploaded(t)'
        BY <1>6 DEF Uploaded
      <3>2. ComparedRows(t) => ComparedRows(t)'
        BY <1>10 DEF ComparedRows
      <3>3. Confirmed(t) => Confirmed(t)'
        BY <1>7 DEF Confirmed
      <3> QED BY <3>1, <3>2, <3>3
    <2>2. \A p \in Requests : /\ Uploaded(tx[p]) => Uploaded(tx[p])'
                              /\ ComparedRows(tx[p]) => ComparedRows(tx[p])'
                              /\ Confirmed(tx[p]) => Confirmed(tx[p])'
      <3>1. ASSUME NEW p \in Requests
            PROVE  /\ Uploaded(tx[p]) => Uploaded(tx[p])'
                   /\ ComparedRows(tx[p]) => ComparedRows(tx[p])'
                   /\ Confirmed(tx[p]) => Confirmed(tx[p])'
        <4>1. PICK t : t = tx[p] /\ t = tx'[p]
          BY <1>7
        <4>2. Uploaded(tx[p]) => Uploaded(tx[p])'
          BY <2>1, <4>1 DEF Uploaded
        <4>3. ComparedRows(tx[p]) => ComparedRows(tx[p])'
          BY <2>1, <4>1 DEF ComparedRows, Preview, ShowsOwned
        <4>4. Confirmed(tx[p]) => Confirmed(tx[p])'
          BY <2>1, <4>1 DEF Confirmed
        <4> QED BY <4>2, <4>3, <4>4
      <3> QED BY <3>1
    <2> QED BY <1>7, <2>2 DEF FaqInv, Requesting
  <1>16. LocksDistinct'
    BY <1>7 DEF FaqInv, LocksDistinct
  <1>17. AnswersChecked'
    <2>1. ASSUME NEW p \in Requests, tx[p].step \in Confirming
          PROVE  Checked(tx[p])'
      <3>1. Checked(tx[p])
        BY <2>1 DEF FaqInv, AnswersChecked
      <3>2. ASSUME NEW r \in tx'[p].chosen, NEW j \in DOMAIN items', Untouched(j)',
                   AnswerKey[items'[j].answer] = AnswerKey[batches'[tx'[p].batch].rows[r].answer]
            PROVE  {tx'[p].batch, items'[j].batch} \in overlapped'
        <4>1. Untouched(j) /\ items'[j] = items[j] /\ j \in DOMAIN items
          BY <1>6, <1>12, <3>2
        <4> QED BY <1>7, <3>1, <3>2, <4>1 DEF Checked
      <3> QED BY <3>2, Zenon DEF Checked
    <2> QED BY <1>7, <2>1 DEF AnswersChecked, Checked
  <1>18. SharedAnswerNeedsRaceOrEdit'
    BY <1>6, <1>7, <1>12 DEF FaqInv, SharedAnswerNeedsRaceOrEdit
  <1>19. \A b \in DOMAIN batches' : Accounted(b)'
    <2>1. ASSUME NEW b \in DOMAIN batches
          PROVE  Accounted(b)'
      <3>1. Drafted(b)' = Drafted(b)
        BY <1>6 DEF Drafted
      <3>2. Marked(b)' = Marked(b)
        BY <1>7 DEF Marked
      <3> QED BY <1>7, <3>1, <3>2 DEF FaqInv, Accounted
    <2> QED BY <1>7, <2>1
  <1> QED BY <1>11, <1>13, <1>14, <1>15, <1>16, <1>17, <1>18, <1>19 DEF FaqInv

LEMMA InitFaq == Init => FaqInv
  <1> SUFFICES ASSUME Init PROVE FaqInv
    OBVIOUS
  <1>1. batches = <<>> /\ DOMAIN batches = {} /\ Len(batches) = 0
    BY DEF Init
  <1>2. Batches
    BY <1>1 DEF Batches
  <1>3. \A k \in DOMAIN items : items[k].batch = 0
    BY DEF Init
  <1>4. Items
    <2>1. ASSUME NEW k \in DOMAIN items
          PROVE  items[k] \in Item
      <3>1. PICK i \in DOMAIN Seeded : k = <<"seed", i>>
        BY DEF Init
      <3>2. items[k] = [answer |-> NoAnswer, questions |-> Seeded[i], batch |-> 0, edited |-> FALSE]
        BY <3>1 DEF Init
      <3>3. Seeded[i] \in SUBSET Questions
        BY FaqAssumption, ElementOfSeq
      <3> QED BY <1>1, <3>2, <3>3 DEF Item
    <2>2. items = [k \in DOMAIN items |-> items[k]]
      BY DEF Init
    <2> QED BY <1>3, <2>1, <2>2 DEF Items, Untouched, Faq
  <1>5. \A q \in Requests : tx[q].step = "none"
    BY DEF Init, NoTx
  <1>6. Requesting
    <2>1. tx = [q \in Requests |-> tx[q]]
      BY DEF Init
    <2> QED BY <1>5, <2>1 DEF Requesting, Confirming
  <1>7. LocksDistinct /\ AnswersChecked
    BY <1>5 DEF LocksDistinct, AnswersChecked, Confirming
  <1>8. History
    BY FaqAssumption DEF Init, History
  <1>9. SharedAnswerNeedsRaceOrEdit
    BY <1>3 DEF SharedAnswerNeedsRaceOrEdit, Untouched, Faq
  <1> QED BY <1>1, <1>2, <1>4, <1>6, <1>7, <1>8, <1>9 DEF FaqInv

LEMMA NextFaqKeeps == FaqInv /\ [Next]_faqVars => FaqInv'
  <1> SUFFICES ASSUME FaqInv, [Next]_faqVars PROVE FaqInv'
    OBVIOUS
  <1>1. ASSUME NEW q \in Requests, NEW a \in Actors, NEW f \in Files, NEW s \in Urls \cup {Local},
               Upload(q, a, f, s)
        PROVE  FaqInv'
    BY <1>1, UploadKeeps
  <1>2. ASSUME NEW q \in Requests, CompareAnswers(q)
        PROVE  FaqInv'
    BY <1>2, CompareAnswersKeeps
  <1>3. ASSUME NEW q \in Requests, InsertBatch(q)
        PROVE  FaqInv'
    BY <1>3, InsertBatchKeeps
  <1>4. ASSUME NEW q \in Requests, BatchExists(q) \/ Abandon(q)
        PROVE  FaqInv'
    <2>1. tx' = Ended(q) /\ UNCHANGED <<batches, items, sources, overlapped, edits>>
      BY <1>4 DEF BatchExists, Abandon
    <2> QED BY <2>1, EndKeeps
  <1>5. ASSUME NEW q \in Requests, NEW a \in Actors, NEW b \in DOMAIN batches, NEW v \in 1 .. 2,
               NEW chosen \in SUBSET DOMAIN batches[b].rows, Confirm(q, a, b, v, chosen)
        PROVE  FaqInv'
    BY <1>5, ConfirmKeeps
  <1>6. ASSUME NEW q \in Requests, Resolve(q)
        PROVE  FaqInv'
    BY <1>6, ResolveKeeps
  <1>7. ASSUME NEW q \in Requests, Write(q)
        PROVE  FaqInv'
    BY <1>7, WriteKeeps
  <1>8. ASSUME NEW k \in DOMAIN items, NEW e \in Edits, Edit(k, e)
        PROVE  FaqInv'
    BY <1>8, EditKeeps
  <1>9. CASE UNCHANGED faqVars
    <2>1. UNCHANGED <<batches, items, sources, tx, overlapped, edits>>
      BY <1>9 DEF faqVars
    <2>2. /\ Batches' = Batches /\ Items' = Items /\ Requesting' = Requesting /\ History' = History
      BY <2>1 DEF Batches, Batch, Items, Item, Untouched, Faq, RowOf, Requesting, History, Uploaded,
                  ComparedRows, Confirmed, Preview, ShowsOwned
    <2>3. LocksDistinct' = LocksDistinct /\ AnswersChecked' = AnswersChecked
      BY <2>1 DEF LocksDistinct, AnswersChecked, Checked, Untouched, Faq
    <2>4. SharedAnswerNeedsRaceOrEdit' = SharedAnswerNeedsRaceOrEdit
      BY <2>1 DEF SharedAnswerNeedsRaceOrEdit, Untouched, Faq
    <2>5. ASSUME NEW b \in DOMAIN batches
          PROVE  Accounted(b)'
      <3>1. Drafted(b)' = Drafted(b) /\ Marked(b)' = Marked(b)
        BY <2>1 DEF Drafted, Marked
      <3> QED BY <2>1, <3>1 DEF FaqInv, Accounted
    <2> QED BY <2>1, <2>2, <2>3, <2>4, <2>5 DEF FaqInv
  <1> QED BY <1>1, <1>2, <1>3, <1>4, <1>5, <1>6, <1>7, <1>8, <1>9 DEF Next

-----------------------------------------------------------------------------
(* The theorems *)

LEMMA AlwaysFaqInv == Spec => []FaqInv
  BY InitFaq, NextFaqKeeps, PTL DEF Spec

(***************************************************************************)
(* Batches, drafts and requests keep their types, and a confirmation never *)
(* counts more drafts than the rows parse_faq_xlsx accepts.                *)
(***************************************************************************)
THEOREM FaqTypeCorrect == Spec => []FaqTypeOK
  <1>1. ASSUME FaqInv
        PROVE  FaqTypeOK
    <2>1. DOMAIN batches = 1 .. Len(batches)
      BY <1>1 DEF FaqInv, Batches
    <2>2. ASSUME NEW b \in DOMAIN batches
          PROVE  /\ batches[b].file \in Files /\ batches[b].source \in SourceIds
                 /\ batches[b].by \in Authors
                 /\ batches[b].status \in {"preview", "imported"}
                 /\ batches[b].count \in 0 .. MaxImportRows /\ batches[b].rowVersion \in 1 .. 2
                 /\ \A r \in DOMAIN batches[b].rows : batches[b].rows[r] \in Row
      <3>1. PICK f, rows : f = batches[b].file /\ rows = batches[b].rows
        OBVIOUS
      <3>2. batches[b] \in Batch
        BY <1>1, ElementOfSeq DEF FaqInv, Batches
      <3>3. /\ f \in Files /\ batches[b].source \in SourceIds /\ batches[b].by \in Authors
            /\ batches[b].status \in {"preview", "imported"} /\ batches[b].rowVersion \in 1 .. 2
            /\ batches[b].count \in Nat
        BY <3>1, <3>2 DEF Batch
      <3>4. Parsable(f) /\ rows \in [Filled(f) -> Row]
        BY <1>1, <3>1 DEF FaqInv, Batches, Preview
      <3>5. PICK n : n = Cardinality(Marked(b)) /\ n = batches[b].count
        BY <1>1 DEF FaqInv, Accounted
      <3>6. n <= MaxImportRows
        <4>1. Marked(b) \subseteq Filled(f)
          BY <3>1, <3>4 DEF Marked
        <4>2. IsFiniteSet(Filled(f)) /\ Cardinality(Filled(f)) <= MaxImportRows
          BY <3>3, <3>4, SheetTyped
        <4>3. Cardinality(Marked(b)) <= Cardinality(Filled(f)) /\ Cardinality(Filled(f)) \in Nat
          BY <4>1, <4>2, FS_Subset, FS_CardinalityType
        <4> QED BY <3>3, <3>5, <4>2, <4>3, FaqAssumption
      <3>7. n \in 0 .. MaxImportRows
        BY <3>3, <3>5, <3>6, FaqAssumption
      <3> QED BY <3>1, <3>3, <3>4, <3>5, <3>7
    <2>3. \A k \in DOMAIN items :
            /\ items[k].questions \subseteq Questions
            /\ items[k].batch \in 0 .. Len(batches) /\ items[k].edited \in BOOLEAN
      BY <1>1 DEF FaqInv, Items, Item
    <2>4. \A q \in Requests : tx[q].step \in {"none", "uploaded", "compared"} \cup Confirming
      BY <1>1 DEF FaqInv, Requesting
    <2> QED BY <1>1, <2>1, <2>2, <2>3, <2>4 DEF FaqTypeOK, FaqInv, History
  <1> QED BY <1>1, AlwaysFaqInv, PTL

(***************************************************************************)
(* import_drafts writes all of a confirmation or nothing: whatever other   *)
(* requests committed meanwhile, the drafts of a batch are exactly the     *)
(* rows it marks as imported, counted in it, and a preview has none.       *)
(***************************************************************************)
THEOREM BatchesAccountForDrafts == Spec => []BatchAccountsForDrafts
  <1>1. ASSUME FaqInv
        PROVE  BatchAccountsForDrafts
    <2>1. ASSUME NEW b \in DOMAIN batches
          PROVE  LET marked == {r \in DOMAIN batches[b].rows : batches[b].rows[r].imported}
                 IN  /\ {k \in DOMAIN items : items[k].batch = b}
                          = {KnowledgeId(batches[b].file, r) : r \in marked}
                     /\ batches[b].count = Cardinality(marked)
                     /\ (batches[b].status = "preview") <=> (marked = {})
                     /\ marked # {} => batches[b].source \in sources
      <3>1. Accounted(b)
        BY <1>1 DEF FaqInv
      <3> QED BY <3>1, Zenon DEF Accounted, Drafted, Marked
    <2> QED BY <2>1 DEF BatchAccountsForDrafts
  <1> QED BY <1>1, AlwaysFaqInv, PTL

(***************************************************************************)
(* import_drafts compares answers with the committed items only, yet two   *)
(* untouched drafts answer alike only when their confirmations overlapped. *)
(***************************************************************************)
THEOREM SharedAnswersOverlapped == Spec => []SharedAnswerNeedsRaceOrEdit
  <1>1. FaqInv => SharedAnswerNeedsRaceOrEdit
    BY DEF FaqInv
  <1> QED BY <1>1, AlwaysFaqInv, PTL

(***************************************************************************)
(* The guard of _build_row is enough: although a confirmation trusts the   *)
(* rows stored by an earlier request, no sensitive text and no question    *)
(* without a key becomes a draft.                                          *)
(***************************************************************************)
THEOREM ImportsAreClean == Spec => []OnlyCleanTextsImported
  <1>1. ASSUME FaqInv
        PROVE  OnlyCleanTextsImported
    <2>1. ASSUME NEW k \in DOMAIN items, Untouched(k)
          PROVE  /\ ({items[k].answer} \cup items[k].questions) \cap Sensitive = {}
                 /\ items[k].questions \cap Wordless = {}
      <3>1. Faq(k)
        BY <2>1 DEF Untouched
      <3>2. PICK f, r, row : /\ f \in Files /\ Parsable(f) /\ r \in Filled(f) /\ row \in Row
                             /\ row = RowOf(k) /\ FromFile(f, r, row)
        BY <1>1, <2>1, <3>1, DraftKeys
      <3>3. /\ Actionable(row) /\ items[k].answer = row.answer /\ items[k].questions = row.questions
        BY <1>1, <2>1, <3>2 DEF FaqInv, Items
      <3> QED BY <3>2, <3>3, ActionableIsClean
    <2> QED BY <2>1 DEF OnlyCleanTextsImported
  <1> QED BY <1>1, AlwaysFaqInv, PTL

(***************************************************************************)
(* The author who confirms a row has been shown every question it shares   *)
(* with an item _flag_existing_conflicts could read, and with other rows   *)
(* of the file (_flag_cross_row_duplicates).                               *)
(***************************************************************************)
THEOREM SharedQuestionsWereShown == Spec => []SharedQuestionWasShown
  <1>1. ASSUME FaqInv
        PROVE  SharedQuestionWasShown
    <2>1. ASSUME NEW i \in DOMAIN items, NEW j \in DOMAIN items, i # j, Untouched(i),
                 ~ items[j].edited, NEW p \in items[i].questions, NEW q \in items[j].questions,
                 SameKey(p, q)
          PROVE  /\ j \in batches[items[i].batch].known => "question owned" \in RowOf(i).warnings
                 /\ items[j].batch = items[i].batch => "question repeated" \in RowOf(i).warnings
      <3>1. Faq(i)
        BY <2>1 DEF Untouched
      <3>2. PICK b : b = items[i].batch
        OBVIOUS
      <3>3. PICK f : f = batches[b].file
        OBVIOUS
      <3>4. PICK r : r = i[2]
        OBVIOUS
      <3>5. PICK row : row = RowOf(i)
        OBVIOUS
      <3>6. /\ b \in DOMAIN batches /\ f \in Files /\ Parsable(f) /\ r \in Filled(f)
            /\ row \in Row /\ FromFile(f, r, row) /\ i = KnowledgeId(f, r)
        BY <1>1, <3>1, <3>2, <3>3, <3>4, <3>5, DraftKeys
      <3>7. Actionable(row) /\ items[i].questions = row.questions
        BY <1>1, <2>1, <3>5 DEF FaqInv, Items
      <3>8. row.questions \cap Wordless = {} /\ row.duplicates = {}
        BY <3>6, <3>7, ActionableIsClean
      <3>9. p \in Questions /\ q \in Questions
        BY <1>1, <2>1 DEF FaqInv, Items, Item
      <3>10. p \notin Wordless /\ q \notin Wordless
        BY <2>1, <3>7, <3>8, <3>9, FaqAssumption DEF SameKey
      <3>11. ASSUME j \in batches[b].known
             PROVE  "question owned" \in row.warnings
        <4>1. row = batches[b].rows[r]
          BY <3>2, <3>4, <3>5 DEF RowOf
        <4>2. ShowsOwned(row, batches[b].known)
          BY <1>1, <3>3, <3>6, <4>1 DEF FaqInv, Batches, Preview
        <4>3. Owned(row, items[j].questions)
          BY <2>1, <3>7, <3>10 DEF Owned
        <4> QED BY <2>1, <3>8, <3>11, <4>2, <4>3 DEF ShowsOwned
      <3>12. ASSUME items[j].batch = b
             PROVE  "question repeated" \in row.warnings
        <4>1. Untouched(j) /\ Faq(j)
          BY <2>1, <3>1, <3>2, <3>12 DEF Untouched, Faq
        <4>2. PICK o, other : /\ o = j[2] /\ other = RowOf(j) /\ o \in Filled(f)
                              /\ FromFile(f, o, other) /\ j = KnowledgeId(f, o)
          BY <1>1, <3>3, <3>12, <4>1, DraftKeys
        <4>3. items[j].questions = other.questions
          BY <1>1, <4>1, <4>2 DEF FaqInv, Items
        <4>4. o \in Filled(f) \ {r}
          BY <2>1, <3>6, <4>2
        <4>5. /\ p \in Kept(SheetRows(f)[r].questions)
              /\ q \in Kept(SheetRows(f)[o].questions)
          BY <2>1, <3>6, <3>7, <4>2, <4>3 DEF FromFile
        <4>6. QuestionElsewhere(f, r)
          BY <2>1, <4>4, <4>5 DEF QuestionElsewhere, SameKey
        <4>7. "question repeated" \in ParsedRow(f, r).warnings
          BY <4>6 DEF ParsedRow
        <4> QED BY <3>6, <4>7 DEF FromFile
      <3> QED BY <3>2, <3>5, <3>11, <3>12
    <2> QED BY <2>1 DEF SharedQuestionWasShown
  <1> QED BY <1>1, AlwaysFaqInv, PTL
=============================================================================
