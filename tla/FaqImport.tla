------------------------------- MODULE FaqImport -------------------------------
(***************************************************************************)
(* FAQ workbooks become knowledge drafts in two requests: an author        *)
(* uploads a workbook and gets a preview batch, and later confirms a       *)
(* selection of its rows.  Both requests read the items of everybody else  *)
(* under READ COMMITTED before they write, so each is several steps; other *)
(* requests and edits of the drafts fall in between.                       *)
(*                                                                         *)
(* A request that the code rejects, or that finds the batch it was about   *)
(* to create, changes nothing and is no action.  Written answers and       *)
(* questions are values; AnswerKey and QuestionKey give their normal form  *)
(* (spaces, case, punctuation).  The bytes of the workbook stand for       *)
(* whether they can be read, and the sheets found in them.                 *)
(***************************************************************************)
EXTENDS Integers, Sequences, FiniteSets, FiniteSetsExt

CONSTANTS Actors, Authors,    \* administrators, and those with the author role
          Files, Workbook,    \* uploaded files and what can be read from each
          Urls,               \* canonical addresses of approved internal FAQs
          Answers, NoAnswer, AnswerKey,
          Questions, QuestionKey,
          Wordless,           \* questions without a letter or digit
          Sensitive,          \* texts the sensitive data guard detects
          Risky,              \* questions a hard policy rule refuses or hands off
          Seeded,             \* items of other source types, with their questions
          MaxImportRows, MaxQuestions,
          Requests,           \* bound: requests under way at the same time
          MaxBatches,         \* bound: batches ever created
          Edits, MaxEdits     \* bound: what an edit leaves in a draft, and how many there are

RawRow == [numbered : BOOLEAN, answer : Answers \cup {NoAnswer}, questions : Seq(Questions)]

ASSUME FaqAssumption ==
  /\ Authors \subseteq Actors
  /\ Workbook \in [Files -> [readable : BOOLEAN, sheets : Seq([header : BOOLEAN, rows : Seq(RawRow)])]]
  /\ NoAnswer \notin Answers
  /\ DOMAIN AnswerKey = Answers
  /\ DOMAIN QuestionKey = Questions
  /\ Wordless \subseteq Questions /\ Risky \subseteq Questions
  /\ \A p, q \in Questions :
       QuestionKey[p] = QuestionKey[q] => (p \in Wordless <=> q \in Wordless)
  /\ Seeded \in Seq(SUBSET Questions)
  /\ Edits \subseteq [answer : Answers, questions : SUBSET Questions]
  /\ {MaxImportRows, MaxQuestions, MaxBatches, MaxEdits} \subseteq Nat

VARIABLES batches,     \* faq_import_batches in order of creation
          items,       \* knowledge_items: function from the knowledge ids in use
          sources,     \* knowledge_sources created by imports
          tx,          \* per request: the open transaction
          overlapped,  \* history: pairs of batches whose confirmations overlapped
          edits        \* how many edits there were

faqVars == <<batches, items, sources, tx, overlapped, edits>>

Local == "local import"
SourceId(f, s) == IF s = Local THEN <<"SRC-LOCAL", f>> ELSE <<"SRC-FAQ", s>>
KnowledgeId(f, r) == <<f, r>>

-----------------------------------------------------------------------------
(* The workbook: the first sheet with the header row, and one row per item *)

Headed(f) == {i \in DOMAIN Workbook[f].sheets : Workbook[f].sheets[i].header}
SheetRows(f) == Workbook[f].sheets[Min(Headed(f))].rows
Filled(f) == {r \in DOMAIN SheetRows(f) :
                \/ SheetRows(f)[r].numbered
                \/ SheetRows(f)[r].answer # NoAnswer
                \/ SheetRows(f)[r].questions # <<>>}
Parsable(f) ==
  /\ Workbook[f].readable
  /\ Headed(f) # {}
  /\ Filled(f) # {}
  /\ Cardinality(Filled(f)) <= MaxImportRows

\* _deduplicate_questions keeps the first of those with the same key.
Kept(qs) == {qs[i] : i \in {i \in DOMAIN qs :
                              \A j \in 1 .. i - 1 : QuestionKey[qs[j]] # QuestionKey[qs[i]]}}

SameKey(p, q) == QuestionKey[p] = QuestionKey[q]

\* Mutant: only the answer is scanned.
ErrorsUnlessAsked(row) ==
  {e \in {"no answer", "too many questions", "wordless question", "sensitive"} :
     \/ e = "no answer" /\ row.answer = NoAnswer
     \/ e = "too many questions" /\ Cardinality(Kept(row.questions)) > MaxQuestions
     \/ e = "wordless question" /\ Kept(row.questions) \cap Wordless # {}
     \/ e = "sensitive" /\ row.answer \in Sensitive}

\* The reasons _build_row gives against a row of its own.
Errors(row) ==
  {e \in {"no answer", "too many questions", "wordless question", "sensitive"} :
     \/ e = "no answer" /\ row.answer = NoAnswer
     \/ e = "too many questions" /\ Cardinality(Kept(row.questions)) > MaxQuestions
     \/ e = "wordless question" /\ Kept(row.questions) \cap Wordless # {}
     \/ e = "sensitive" /\ ({row.answer} \cup Kept(row.questions)) \cap Sensitive # {}}

Warnings(row) ==
  {w \in {"no number", "no questions", "repeats removed", "risky"} :
     \/ w = "no number" /\ ~ row.numbered
     \/ w = "no questions" /\ row.questions = <<>>
     \/ w = "repeats removed" /\ Cardinality(Kept(row.questions)) < Len(row.questions)
     \/ w = "risky" /\ Kept(row.questions) \cap Risky # {}}

\* _flag_cross_row_duplicates: a question that another row of the file has, too.
QuestionElsewhere(f, r) ==
  \E o \in Filled(f) \ {r} :
    \E p \in Kept(SheetRows(f)[o].questions), q \in Kept(SheetRows(f)[r].questions) : SameKey(p, q)

\* _flag_cross_row_answer_duplicates.
AnswerElsewhere(f, r) ==
  LET answer == SheetRows(f)[r].answer
  IN  answer # NoAnswer /\ \E o \in Filled(f) \ {r} :
        /\ SheetRows(f)[o].answer # NoAnswer
        /\ AnswerKey[SheetRows(f)[o].answer] = AnswerKey[answer]

ParsedRow(f, r) ==
  LET row == SheetRows(f)[r]
  IN  [answer |-> row.answer, questions |-> Kept(row.questions),
       errors |-> Errors(row) \cup (IF AnswerElsewhere(f, r) THEN {"answer repeated"} ELSE {}),
       warnings |-> Warnings(row) \cup (IF QuestionElsewhere(f, r) THEN {"question repeated"} ELSE {}),
       duplicates |-> {}, imported |-> FALSE]

Actionable(row) == row.errors = {} /\ row.duplicates = {}

-----------------------------------------------------------------------------
(* What other requests have committed *)

Faq(k) == items[k].batch # 0
WithAnswer(a) == {k \in DOMAIN items : Faq(k) /\ AnswerKey[items[k].answer] = AnswerKey[a]}
RetrievalQuestions == UNION {items[k].questions : k \in DOMAIN items}
BatchOf(f, s) == {b \in DOMAIN batches : batches[b].file = f /\ batches[b].source = SourceId(f, s)}

Idle(q) == tx[q].step = "none"
NoTx == [step |-> "none"]
Ended(q) == [tx EXCEPT ![q] = NoTx]
Confirming == {"checked", "resolved"}
Locked == {tx[q].batch : q \in {q \in Requests : tx[q].step \in Confirming}}

Row == [answer : Answers \cup {NoAnswer}, questions : SUBSET Questions,
        errors : SUBSET {"no answer", "too many questions", "wordless question",
                         "sensitive", "answer repeated"},
        warnings : SUBSET {"no number", "no questions", "repeats removed", "risky",
                           "question repeated", "question owned", "answer exists"},
        duplicates : SUBSET (Files \X Nat), imported : BOOLEAN]

SourceIds == {SourceId(f, s) : f \in Files, s \in Urls \cup {Local}}

FaqTypeOK ==
  /\ DOMAIN batches = 1 .. Len(batches)
  /\ \A b \in DOMAIN batches :
       /\ batches[b].file \in Files /\ batches[b].source \in SourceIds
       /\ batches[b].by \in Authors
       /\ batches[b].status \in {"preview", "imported"}
       /\ batches[b].count \in 0 .. MaxImportRows /\ batches[b].rowVersion \in 1 .. 2
       /\ \A r \in DOMAIN batches[b].rows : batches[b].rows[r] \in Row
  /\ \A k \in DOMAIN items :
       /\ items[k].questions \subseteq Questions
       /\ items[k].batch \in 0 .. Len(batches) /\ items[k].edited \in BOOLEAN
  /\ sources \subseteq SourceIds
  /\ \A q \in Requests : tx[q].step \in {"none", "uploaded", "compared"} \cup Confirming
  /\ overlapped \subseteq SUBSET (DOMAIN batches)
  /\ edits \in 0 .. MaxEdits

Init ==
  /\ batches = <<>>
  /\ items = [k \in {<<"seed", i>> : i \in DOMAIN Seeded} |->
                [answer |-> NoAnswer, questions |-> Seeded[k[2]], batch |-> 0, edited |-> FALSE]]
  /\ sources = {}
  /\ tx = [q \in Requests |-> NoTx]
  /\ overlapped = {}
  /\ edits = 0

-----------------------------------------------------------------------------
(* create_preview: look for the batch and read the questions, read the      *)
(* answers, insert                                                          *)

\* Mutant: the author role is only looked at when the import is confirmed.
UploadByAnyone(q, a, f, s) ==
  /\ Idle(q)
  /\ Parsable(f)
  /\ BatchOf(f, s) = {}
  /\ Len(batches) < MaxBatches
  /\ tx' = [tx EXCEPT ![q] = [step |-> "uploaded", by |-> a, file |-> f, source |-> s,
                              owned |-> RetrievalQuestions, known |-> DOMAIN items]]
  /\ UNCHANGED <<batches, items, sources, overlapped, edits>>

Upload(q, a, f, s) ==
  /\ Idle(q)
  /\ a \in Authors
  /\ Parsable(f)
  /\ BatchOf(f, s) = {}
  /\ Len(batches) < MaxBatches
  /\ tx' = [tx EXCEPT ![q] = [step |-> "uploaded", by |-> a, file |-> f, source |-> s,
                              owned |-> RetrievalQuestions, known |-> DOMAIN items]]
  /\ UNCHANGED <<batches, items, sources, overlapped, edits>>

\* Mutant: questions are compared as they are written.
OwnedAsWritten(row, owned) == row.questions \cap owned # {}

\* _flag_existing_conflicts: wordless questions have no key to be found by.
Owned(row, owned) == \E p \in row.questions \ Wordless, o \in owned \ Wordless : SameKey(p, o)

Compared(row, owned) ==
  LET dups == IF row.answer = NoAnswer THEN {} ELSE WithAnswer(row.answer)
  IN  [row EXCEPT
         !.duplicates = dups,
         !.warnings = @ \cup (IF dups # {} THEN {"answer exists"}
                              ELSE IF Owned(row, owned) THEN {"question owned"} ELSE {})]

CompareAnswers(q) ==
  /\ tx[q].step = "uploaded"
  /\ LET t == tx[q]
     IN  tx' = [tx EXCEPT ![q] =
                  [step |-> "compared", by |-> t.by, file |-> t.file, source |-> t.source,
                   known |-> t.known,
                   rows |-> [r \in Filled(t.file) |-> Compared(ParsedRow(t.file, r), t.owned)]]]
  /\ UNCHANGED <<batches, items, sources, overlapped, edits>>

InsertBatch(q) ==
  /\ tx[q].step = "compared"
  /\ BatchOf(tx[q].file, tx[q].source) = {}
  /\ Len(batches) < MaxBatches
  /\ batches' = Append(batches, [file |-> tx[q].file, source |-> SourceId(tx[q].file, tx[q].source),
                                 by |-> tx[q].by, status |-> "preview", rows |-> tx[q].rows,
                                 count |-> 0, rowVersion |-> 1, known |-> tx[q].known])
  /\ tx' = Ended(q)
  /\ UNCHANGED <<items, sources, overlapped, edits>>

\* Another request has inserted the batch meanwhile: the unique constraints of
\* (file, source id) and (file, source url) end this one.
BatchExists(q) ==
  /\ tx[q].step = "compared"
  /\ BatchOf(tx[q].file, tx[q].source) # {}
  /\ tx' = Ended(q)
  /\ UNCHANGED <<batches, items, sources, overlapped, edits>>

-----------------------------------------------------------------------------
(* import_drafts: lock the batch and compare the answers, look for the ids  *)
(* and the source, write                                                    *)

\* Mutant: the answers are compared at the preview only.
ConfirmUncompared(q, a, b, v, chosen) ==
  /\ Idle(q)
  /\ a \in Authors
  /\ chosen # {}
  /\ b \notin Locked
  /\ batches[b].status = "preview"
  /\ batches[b].rowVersion = v
  /\ batches[b].by = a
  /\ \A r \in chosen : Actionable(batches[b].rows[r])
  /\ tx' = [tx EXCEPT ![q] = [step |-> "checked", batch |-> b, chosen |-> chosen]]
  /\ overlapped' = overlapped \cup {{b, c} : c \in Locked}
  /\ UNCHANGED <<batches, items, sources, edits>>

Confirm(q, a, b, v, chosen) ==
  /\ Idle(q)
  /\ a \in Authors
  /\ chosen # {}
  /\ b \notin Locked
  /\ batches[b].status = "preview"
  /\ batches[b].rowVersion = v
  /\ batches[b].by = a
  /\ \A r \in chosen : Actionable(batches[b].rows[r])
  /\ \A r \in chosen : WithAnswer(batches[b].rows[r].answer) = {}
  /\ tx' = [tx EXCEPT ![q] = [step |-> "checked", batch |-> b, chosen |-> chosen]]
  /\ overlapped' = overlapped \cup {{b, c} : c \in Locked}
  /\ UNCHANGED <<batches, items, sources, edits>>

Drafts(q) == {KnowledgeId(batches[tx[q].batch].file, r) : r \in tx[q].chosen}
Taken(q) == Drafts(q) \cap DOMAIN items # {}

Resolve(q) ==
  /\ tx[q].step = "checked"
  /\ ~ Taken(q)
  /\ tx' = [tx EXCEPT ![q] = [step |-> "resolved", batch |-> tx[q].batch, chosen |-> tx[q].chosen,
                              newSource |-> batches[tx[q].batch].source \notin sources]]
  /\ UNCHANGED <<batches, items, sources, overlapped, edits>>

\* The primary key of the source or of an item has been committed by another request.
KeyExists(q) == Taken(q) \/ (tx[q].newSource /\ batches[tx[q].batch].source \in sources)

Abandon(q) ==
  /\ \/ tx[q].step = "checked" /\ Taken(q)
     \/ tx[q].step = "resolved" /\ KeyExists(q)
  /\ tx' = Ended(q)
  /\ UNCHANGED <<batches, items, sources, overlapped, edits>>

Draft(b, r) == [answer |-> batches[b].rows[r].answer, questions |-> batches[b].rows[r].questions,
                batch |-> b, edited |-> FALSE]

\* Mutant: ids that are taken are skipped, as an "insert ... on conflict do nothing" would.
WriteSkippingTaken(q) ==
  /\ tx[q].step = "resolved"
  /\ LET b == tx[q].batch
     IN  /\ items' = [k \in DOMAIN items \cup Drafts(q) |->
                        IF k \in DOMAIN items THEN items[k] ELSE Draft(b, k[2])]
         /\ sources' = sources \cup {batches[b].source}
         /\ batches' = [batches EXCEPT
              ![b].status = "imported", ![b].count = Cardinality(tx[q].chosen),
              ![b].rowVersion = @ + 1,
              ![b].rows = [r \in DOMAIN @ |-> [@[r] EXCEPT !.imported = r \in tx[q].chosen]]]
  /\ tx' = Ended(q)
  /\ UNCHANGED <<overlapped, edits>>

Write(q) ==
  /\ tx[q].step = "resolved"
  /\ ~ KeyExists(q)
  /\ LET b == tx[q].batch
     IN  /\ items' = [k \in DOMAIN items \cup Drafts(q) |->
                        IF k \in DOMAIN items THEN items[k] ELSE Draft(b, k[2])]
         /\ sources' = sources \cup {batches[b].source}
         /\ batches' = [batches EXCEPT
              ![b].status = "imported", ![b].count = Cardinality(tx[q].chosen),
              ![b].rowVersion = @ + 1,
              ![b].rows = [r \in DOMAIN @ |-> [@[r] EXCEPT !.imported = r \in tx[q].chosen]]]
  /\ tx' = Ended(q)
  /\ UNCHANGED <<overlapped, edits>>

\* update_content and update_question_variants on an imported draft.
Edit(k, e) ==
  /\ edits < MaxEdits
  /\ Faq(k)
  /\ items' = [items EXCEPT ![k].answer = e.answer, ![k].questions = e.questions, ![k].edited = TRUE]
  /\ edits' = edits + 1
  /\ UNCHANGED <<batches, sources, tx, overlapped>>

Next ==
  \/ \E q \in Requests :
       \/ \E a \in Actors, f \in Files, s \in Urls \cup {Local} : Upload(q, a, f, s)
       \/ CompareAnswers(q) \/ InsertBatch(q) \/ BatchExists(q)
       \/ \E a \in Actors, b \in DOMAIN batches, v \in 1 .. 2 :
            \E chosen \in SUBSET DOMAIN batches[b].rows : Confirm(q, a, b, v, chosen)
       \/ Resolve(q) \/ Abandon(q) \/ Write(q)
  \/ \E k \in DOMAIN items, e \in Edits : Edit(k, e)

Spec == Init /\ [][Next]_faqVars
-----------------------------------------------------------------------------
Untouched(k) == Faq(k) /\ ~ items[k].edited
RowOf(k) == batches[items[k].batch].rows[k[2]]

(***************************************************************************)
(* Two imported drafts carry the same answer only if somebody edited one   *)
(* of them, or if they were confirmed at the same time: each confirmation  *)
(* read the committed items only (import_drafts).                          *)
(***************************************************************************)
SharedAnswerNeedsRaceOrEdit ==
  \A i, j \in DOMAIN items :
    i # j /\ Untouched(i) /\ Untouched(j) /\ AnswerKey[items[i].answer] = AnswerKey[items[j].answer]
      => {items[i].batch, items[j].batch} \in overlapped

(***************************************************************************)
(* The drafts of a batch are exactly its rows marked as imported, they are *)
(* counted, and a batch whose confirmation failed half-way (a key another  *)
(* request took first) is still a preview without drafts.                  *)
(***************************************************************************)
BatchAccountsForDrafts ==
  \A b \in DOMAIN batches :
    LET marked == {r \in DOMAIN batches[b].rows : batches[b].rows[r].imported}
    IN  /\ {k \in DOMAIN items : items[k].batch = b} = {KnowledgeId(batches[b].file, r) : r \in marked}
        /\ batches[b].count = Cardinality(marked)
        /\ (batches[b].status = "preview") <=> (marked = {})
        /\ marked # {} => batches[b].source \in sources

(***************************************************************************)
(* A draft that shares a retrieval question with another item that was     *)
(* there when its preview was read, or with another row of its file, was   *)
(* confirmed from a preview that warned of it.                             *)
(***************************************************************************)
SharedQuestionWasShown ==
  \A i, j \in DOMAIN items :
    (/\ i # j /\ Untouched(i) /\ ~ items[j].edited
     /\ \E p \in items[i].questions, q \in items[j].questions : SameKey(p, q))
    => /\ j \in batches[items[i].batch].known => "question owned" \in RowOf(i).warnings
       /\ items[j].batch = items[i].batch => "question repeated" \in RowOf(i).warnings

(***************************************************************************)
(* No draft comes out of an import with sensitive data in its answer or in *)
(* a question, or with a question nobody can be matched by.                *)
(***************************************************************************)
OnlyCleanTextsImported ==
  \A k \in DOMAIN items :
    Untouched(k) =>
      /\ ({items[k].answer} \cup items[k].questions) \cap Sensitive = {}
      /\ items[k].questions \cap Wordless = {}
=============================================================================
