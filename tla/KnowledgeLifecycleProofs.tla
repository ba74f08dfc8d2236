---------------------- MODULE KnowledgeLifecycleProofs ----------------------
(***************************************************************************)
(* What the trail of KnowledgeGovernanceProofs is good for: an answer goes *)
(* offline only by deadline or revocation, the archive holds releases,     *)
(* contested words and shared questions need overlapping transactions, and *)
(* the lifecycle implements PublicAnswers.                                 *)
(*                                                                         *)
(* Every proof works from one classification of the steps (StepKinds): a   *)
(* step touches one item, and there it drafts, publishes, revokes, revises *)
(* or replaces the questions, or it opens or rolls back a transaction.     *)
(***************************************************************************)
EXTENDS KnowledgeGovernanceProofs

\* A step of item k leaves the other items alone.
Others(k) ==
  \A j \in Items \ {k} : /\ item'[j] = item[j] /\ log'[j] = log[j]
                         /\ archive'[j] = archive[j] /\ tx'[j] = tx[j]

\* Nothing but the clock moves.
Idle ==
  /\ now' \in {now, now + 1}
  /\ UNCHANGED <<item, log, archive, tx, overlapped>>

\* The first step of a transaction, with what it found in the other items.
Opens(k) ==
  /\ UNCHANGED <<item, log, archive, overlapped, now>>
  /\ \/ tx'[k].kind = "publish" /\ ~ PublishConflict(k)
     \/ /\ tx'[k].kind = "update_question_variants"
        /\ ~ QuestionConflict(k, tx'[k].questions)

Rolls(k) == tx'[k] = NoTx /\ UNCHANGED <<item, log, archive, overlapped, now>>

\* The events of item k grow by one.
Grows(k) ==
  /\ Len(log'[k]) = Len(log[k]) + 1
  /\ \A i \in 1 .. Len(log[k]) : log'[k][i] = log[k][i]

\* Draft edits, review signatures and returns: the item stays unpublished.
Drafts(k) ==
  /\ {item[k].status, item'[k].status} \subseteq {"draft", "review", "approved"}
  /\ item'[k].version = item[k].version /\ item'[k].previous = item[k].previous
  /\ item'[k].payload.questions = item[k].payload.questions
  /\ tx'[k] = NoTx
  /\ Grows(k) /\ UNCHANGED <<archive, overlapped, now>>

Requestions(k) ==
  /\ tx[k].kind = "update_question_variants"
  /\ item[k].status = "draft" /\ item'[k].status = "draft"
  /\ item'[k].version = item[k].version /\ item'[k].previous = item[k].previous
  /\ item'[k].payload.questions = tx[k].questions
  /\ tx'[k] = NoTx /\ overlapped' = overlapped \cup OverlapsOf(k)
  /\ Grows(k) /\ UNCHANGED <<archive, now>>

Publishes(k) ==
  /\ tx[k].kind = "publish"
  /\ item[k].status = "approved" /\ item'[k].status = "published"
  /\ item'[k].version = Released(item[k]).version
  /\ item'[k].previous = Released(item[k]).previous
  /\ item'[k].payload = item[k].payload
  /\ item'[k].effective = item[k].effective /\ item'[k].review = item[k].review
  /\ tx'[k] = NoTx /\ overlapped' = overlapped \cup OverlapsOf(k)
  /\ Grows(k) /\ UNCHANGED <<archive, now>>

Revokes(k) ==
  /\ item[k].status \in {"approved", "published"} /\ item'[k].status = "revoked"
  /\ item'[k].version = item[k].version /\ item'[k].previous = item[k].previous
  /\ item'[k].payload = item[k].payload
  /\ item'[k].reviewer = item[k].reviewer /\ item'[k].approver = item[k].approver
  /\ tx'[k] = NoTx
  /\ Grows(k) /\ UNCHANGED <<archive, overlapped, now>>

\* Only a published item whose deadline has come, or a revoked one.
Revises(k) ==
  /\ \/ item[k].status = "revoked"
     \/ item[k].status = "published" /\ item[k].review <= now
  /\ item'[k].status = "draft"
  /\ ~ item[k].version.draft
  /\ item'[k].version = NextDraftVersion(item[k].version)
  /\ item'[k].previous = item[k].version
  /\ item'[k].payload = item[k].payload
  /\ archive'[k] = archive[k] \cup {item[k]}
  /\ tx'[k] = NoTx
  /\ Grows(k) /\ UNCHANGED <<overlapped, now>>

StepKinds ==
  \/ Idle
  \/ \E k \in Items :
       /\ Others(k)
       /\ \/ Opens(k) \/ Rolls(k) \/ Drafts(k) \/ Requestions(k)
          \/ Publishes(k) \/ Revokes(k) \/ Revises(k)

-----------------------------------------------------------------------------
(* The strengthened invariants *)

\* A publication of the row r is in the events of item k, with its signers.
Evidenced(k, r) ==
  \E i \in 3 .. Len(log[k]) :
    /\ log[k][i].action = "publish"
    /\ log[k][i].payload = r.payload
    /\ log[k][i - 1].by = r.approver
    /\ log[k][i - 2].by = r.reviewer

\* Only releases carry a version without "-draft"; after the first the major is 1.
Numbered(k) ==
  /\ item[k].status \notin {"published", "revoked"} => item[k].version.draft
  /\ ~ item[k].version.draft => item[k].previous # NoVersion /\ Evidenced(k, item[k])
  /\ item[k].previous # NoVersion => item[k].version.major = 1

ArchiveOrdered(k) ==
  \A s \in archive[k] :
    /\ item[k].previous # NoVersion
    /\ s.version.minor < item[k].version.minor
    /\ \A t \in archive[k] : t.version = s.version => t = s
    /\ Evidenced(k, s)

ReleaseInv == \A k \in Items : Numbered(k) /\ ArchiveOrdered(k)

Contested(j, k) ==
  /\ WindowsOverlap(item[j], item[k])
  /\ LexiconsClash(item[j].payload.lexicon, item[k].payload.lexicon)

\* An open publication has compared its words with every published item but
\* those that were published since.
PublishChecked ==
  \A j, k \in Items :
    (/\ j # k /\ tx[k].kind = "publish" /\ item[j].status = "published" /\ Contested(j, k))
    => <<"publish", {j, k}>> \in overlapped

QuestionsChecked ==
  \A j, k \in Items :
    (/\ j # k /\ tx[k].kind = "update_question_variants"
     /\ item[j].payload.questions \cap tx[k].questions # {})
    => <<"update_question_variants", {j, k}>> \in overlapped

RaceInv == AliasClashNeedsRace /\ PublishChecked
ShareInv == SharedQuestionNeedsRaceOrImport /\ QuestionsChecked

-----------------------------------------------------------------------------
(* Every step is of one of the kinds *)

LEMMA SavedRow ==
  ASSUME IInv, NEW a \in Actors, NEW k \in Items, NEW act \in ActionNames,
         NEW row \in Row, row.rowVersion = item[k].rowVersion,
         Save(a, k, item[k].rowVersion, act, row)
  PROVE  /\ Grows(k)
         /\ \A j \in Items \ {k} : item'[j] = item[j] /\ log'[j] = log[j]
         /\ item'[k].status = row.status /\ item'[k].payload = row.payload
         /\ item'[k].reviewer = row.reviewer /\ item'[k].approver = row.approver
         /\ item'[k].effective = row.effective /\ item'[k].review = row.review
         /\ item'[k].version = row.version /\ item'[k].previous = row.previous
  <1>1. TypeOK /\ LogMatches
    BY DEF IInv
  <1>2. Grows(k) /\ \A j \in Items \ {k} : item'[j] = item[j] /\ log'[j] = log[j]
    BY <1>1, SaveItem, SaveLog DEF Grows
  <1>3. item'[k] = [row EXCEPT !.rowVersion = @ + 1]
    BY <1>1 DEF Save, TypeOK
  <1>4. PICK v : v = row.rowVersion + 1
    OBVIOUS
  <1>5. item'[k] = [row EXCEPT !.rowVersion = v]
    BY <1>3, <1>4
  <1>6. /\ item'[k].status = row.status /\ item'[k].payload = row.payload
        /\ item'[k].reviewer = row.reviewer /\ item'[k].approver = row.approver
        /\ item'[k].effective = row.effective /\ item'[k].review = row.review
        /\ item'[k].version = row.version /\ item'[k].previous = row.previous
    BY <1>5 DEF Row
  <1> QED BY <1>2, <1>6

\* What the transition table tells of the status an action starts from.
LEMMA PermittedStatus ==
  ASSUME IInv, NEW a \in Actors, NEW k \in Items, NEW v, NEW act, Permitted(a, k, v, act)
  PROVE  /\ v = item[k].rowVersion /\ tx[k] = NoTx /\ item[k] \in Row
         /\ act \in {"update_content", "update_asr_terms", "submit_review"} =>
              item[k].status = "draft"
         /\ act \in {"complete_review", "approve"} => item[k].status = "review"
         /\ act = "return_draft" => item[k].status \in {"review", "approved"}
         /\ act = "revoke" => item[k].status \in {"approved", "published"}
         /\ act = "start_revision" => item[k].status = "published"
         /\ act = "start_revoked_revision" => item[k].status = "revoked"
  <1>1. v = item[k].rowVersion /\ tx[k] = NoTx /\ item[k] \in Row
    BY DEF Permitted, Current, IInv, TypeOK
  <1>2. \E s \in Statuses : <<item[k].status, act, s>> \in Transitions
    BY DEF Permitted
  <1> QED BY <1>1, <1>2 DEF Transitions

\* An edit, a signature or a return, told by the row it saves.
LEMMA DraftsKind ==
  ASSUME IInv, NEW a \in Actors, NEW k \in Items, NEW act \in ActionNames, NEW row \in Row,
         {item[k].status, row.status} \subseteq {"draft", "review", "approved"},
         row.version = item[k].version, row.previous = item[k].previous,
         row.payload.questions = item[k].payload.questions,
         row.rowVersion = item[k].rowVersion,
         tx[k] = NoTx,
         Save(a, k, item[k].rowVersion, act, row),
         UNCHANGED <<archive, tx, now, overlapped>>
  PROVE  Others(k) /\ Drafts(k)
  BY SavedRow DEF Others, Drafts

LEMMA UpdateContentKind ==
  ASSUME IInv, NEW a \in Actors, NEW k \in Items, NEW v, NEW c \in Contents,
         UpdateContent(a, k, v, c)
  PROVE  Others(k) /\ Drafts(k)
  <1>1. v = item[k].rowVersion /\ tx[k] = NoTx /\ item[k] \in Row /\ item[k].status = "draft"
    BY PermittedStatus DEF UpdateContent
  <1>2. PICK row : row = [item[k] EXCEPT !.payload.content = c]
    OBVIOUS
  <1>3. row \in Row /\ row.status = item[k].status /\ row.rowVersion = item[k].rowVersion
    BY <1>1, <1>2, ContentRow
  <1>4. /\ row.version = item[k].version /\ row.previous = item[k].previous
        /\ row.payload.questions = item[k].payload.questions
    BY <1>1, <1>2 DEF Row, Payload
  <1>5. /\ Save(a, k, item[k].rowVersion, "update_content", row)
        /\ UNCHANGED <<archive, tx, now, overlapped>> /\ "update_content" \in ActionNames
    BY <1>1, <1>2 DEF UpdateContent, ActionNames
  <1> QED BY <1>1, <1>3, <1>4, <1>5, DraftsKind

LEMMA UpdateAsrTermsKind ==
  ASSUME IInv, NEW a \in Actors, NEW k \in Items, NEW v, NEW l \in Lexicon,
         UpdateAsrTerms(a, k, v, l)
  PROVE  Others(k) /\ Drafts(k)
  <1>1. v = item[k].rowVersion /\ tx[k] = NoTx /\ item[k] \in Row /\ item[k].status = "draft"
    BY PermittedStatus DEF UpdateAsrTerms
  <1>2. PICK row : row = [item[k] EXCEPT !.payload.lexicon = l]
    OBVIOUS
  <1>3. row \in Row /\ row.status = item[k].status /\ row.rowVersion = item[k].rowVersion
    BY <1>1, <1>2, LexiconRow
  <1>4. /\ row.version = item[k].version /\ row.previous = item[k].previous
        /\ row.payload.questions = item[k].payload.questions
    BY <1>1, <1>2 DEF Row, Payload
  <1>5. /\ Save(a, k, item[k].rowVersion, "update_asr_terms", row)
        /\ UNCHANGED <<archive, tx, now, overlapped>> /\ "update_asr_terms" \in ActionNames
    BY <1>1, <1>2 DEF UpdateAsrTerms, ActionNames
  <1> QED BY <1>1, <1>3, <1>4, <1>5, DraftsKind

LEMMA SubmitReviewKind ==
  ASSUME IInv, NEW a \in Actors, NEW k \in Items, NEW v, SubmitReview(a, k, v)
  PROVE  Others(k) /\ Drafts(k)
  <1>1. v = item[k].rowVersion /\ tx[k] = NoTx /\ item[k] \in Row /\ item[k].status = "draft"
    BY PermittedStatus DEF SubmitReview
  <1>2. PICK row : row = [item[k] EXCEPT !.status = "review"]
    OBVIOUS
  <1>3. /\ row \in Row /\ row.status = "review" /\ row.rowVersion = item[k].rowVersion
        /\ row.version = item[k].version /\ row.previous = item[k].previous
        /\ row.payload = item[k].payload
    BY <1>1, <1>2 DEF Row, Statuses
  <1>4. /\ Save(a, k, item[k].rowVersion, "submit_review", row)
        /\ UNCHANGED <<archive, tx, now, overlapped>> /\ "submit_review" \in ActionNames
    BY <1>1, <1>2 DEF SubmitReview, ActionNames
  <1> QED BY <1>1, <1>3, <1>4, DraftsKind

LEMMA CompleteReviewKind ==
  ASSUME IInv, NEW a \in Actors, NEW k \in Items, NEW v, CompleteReview(a, k, v)
  PROVE  Others(k) /\ Drafts(k)
  <1>1. v = item[k].rowVersion /\ tx[k] = NoTx /\ item[k] \in Row /\ item[k].status = "review"
    BY PermittedStatus DEF CompleteReview
  <1>2. PICK row : row = [item[k] EXCEPT !.reviewer = a]
    OBVIOUS
  <1>3. /\ row \in Row /\ row.status = "review" /\ row.rowVersion = item[k].rowVersion
        /\ row.version = item[k].version /\ row.previous = item[k].previous
        /\ row.payload = item[k].payload
    BY <1>1, <1>2 DEF Row, Statuses
  <1>4. /\ Save(a, k, item[k].rowVersion, "complete_review", row)
        /\ UNCHANGED <<archive, tx, now, overlapped>> /\ "complete_review" \in ActionNames
    BY <1>1, <1>2 DEF CompleteReview, ActionNames
  <1> QED BY <1>1, <1>3, <1>4, DraftsKind

LEMMA ApproveKind ==
  ASSUME IInv, NEW a \in Actors, NEW k \in Items, NEW v,
         NEW effective \in Times, NEW review \in Times, Approve(a, k, v, effective, review)
  PROVE  Others(k) /\ Drafts(k)
  <1>1. v = item[k].rowVersion /\ tx[k] = NoTx /\ item[k] \in Row /\ item[k].status = "review"
    BY PermittedStatus DEF Approve
  <1>2. PICK row : row = [item[k] EXCEPT !.status = "approved", !.approver = a,
                                         !.effective = effective, !.review = review]
    OBVIOUS
  <1>3. /\ row \in Row /\ row.status = "approved" /\ row.rowVersion = item[k].rowVersion
        /\ row.version = item[k].version /\ row.previous = item[k].previous
        /\ row.payload = item[k].payload
    BY <1>1, <1>2 DEF Row, Statuses
  <1>4. /\ Save(a, k, item[k].rowVersion, "approve", row)
        /\ UNCHANGED <<archive, tx, now, overlapped>> /\ "approve" \in ActionNames
    BY <1>1, <1>2 DEF Approve, ActionNames
  <1> QED BY <1>1, <1>3, <1>4, DraftsKind

LEMMA ReturnDraftKind ==
  ASSUME IInv, NEW a \in Actors, NEW k \in Items, NEW v, ReturnDraft(a, k, v)
  PROVE  Others(k) /\ Drafts(k)
  <1>1. /\ v = item[k].rowVersion /\ tx[k] = NoTx /\ item[k] \in Row
        /\ item[k].status \in {"review", "approved"}
    BY PermittedStatus DEF ReturnDraft
  <1>2. PICK row : row = Unassigned(item[k])
    OBVIOUS
  <1>3. /\ row \in Row /\ row.status = "draft" /\ row.rowVersion = item[k].rowVersion
        /\ row.version = item[k].version /\ row.payload = item[k].payload
    BY <1>1, <1>2, UnassignedRow
  <1>4. row.previous = item[k].previous
    BY <1>1, <1>2 DEF Unassigned, Row
  <1>5. /\ Save(a, k, item[k].rowVersion, "return_draft", row)
        /\ UNCHANGED <<archive, tx, now, overlapped>> /\ "return_draft" \in ActionNames
    BY <1>1, <1>2 DEF ReturnDraft, ActionNames
  <1> QED BY <1>1, <1>3, <1>4, <1>5, DraftsKind

LEMMA OpensKind ==
  ASSUME IInv, NEW a \in Actors, NEW k \in Items, NEW v,
         \/ CheckPublish(a, k, v)
         \/ \E qs \in SUBSET Questions : CheckQuestionVariants(a, k, v, qs)
  PROVE  Others(k) /\ Opens(k)
  <1>1. tx \in [Items -> Tx \cup {NoTx}]
    BY DEF IInv, TypeOK
  <1>2. CASE CheckPublish(a, k, v)
    <2>1. PICK t : t = [kind |-> "publish", by |-> a, page |-> v, questions |-> {}]
      OBVIOUS
    <2>2. /\ tx' = [tx EXCEPT ![k] = t] /\ ~ PublishConflict(k)
          /\ UNCHANGED <<item, log, archive, now, overlapped>>
      BY <1>2, <2>1 DEF CheckPublish
    <2>3. t.kind = "publish"
      BY <2>1
    <2> QED BY <1>1, <2>2, <2>3 DEF Others, Opens
  <1>3. CASE \E qs \in SUBSET Questions : CheckQuestionVariants(a, k, v, qs)
    <2>1. PICK qs \in SUBSET Questions : CheckQuestionVariants(a, k, v, qs)
      BY <1>3
    <2>2. PICK t : t = [kind |-> "update_question_variants", by |-> a, page |-> v,
                        questions |-> qs]
      OBVIOUS
    <2>3. /\ tx' = [tx EXCEPT ![k] = t] /\ ~ QuestionConflict(k, qs)
          /\ UNCHANGED <<item, log, archive, now, overlapped>>
      BY <2>1, <2>2 DEF CheckQuestionVariants
    <2>4. t.kind = "update_question_variants" /\ t.questions = qs
      BY <2>2
    <2>5. tx'[k] = t
      BY <1>1, <2>3
    <2> QED BY <1>1, <2>3, <2>4, <2>5 DEF Others, Opens
  <1> QED BY <1>2, <1>3

LEMMA RollsKind ==
  ASSUME IInv, NEW k \in Items, Rollback(k)
  PROVE  Others(k) /\ Rolls(k)
  BY ClosedTx DEF Rollback, Others, Rolls

LEMMA CommitPublishKind ==
  ASSUME IInv, NEW k \in Items, CommitPublish(k)
  PROVE  Others(k) /\ Publishes(k)
  <1>1. tx[k].kind = "publish" /\ tx' = [tx EXCEPT ![k] = NoTx] /\ tx[k] # NoTx
    BY DEF CommitPublish, NoTx
  <1>2. /\ tx[k].page = item[k].rowVersion /\ item[k].status = "approved"
        /\ item[k] \in Row /\ tx[k].by \in Actors
    BY <1>1, ClosedTx DEF IInv, TypeOK, TxHeld, Tx
  <1>3. tx'[k] = NoTx /\ \A j \in Items \ {k} : tx'[j] = tx[j]
    BY <1>1, ClosedTx
  <1>4. PICK row : row = [Released(item[k]) EXCEPT !.status = "published", !.public = TRUE]
    OBVIOUS
  <1>5. /\ row \in Row /\ row.status = "published" /\ row.payload = item[k].payload
        /\ row.rowVersion = item[k].rowVersion
    BY <1>2, <1>4, ReleasedRow
  <1>6. DOMAIN Released(item[k]) = DOMAIN item[k]
    BY DEF Released
  <1>7. /\ row.version = Released(item[k]).version /\ row.previous = Released(item[k]).previous
        /\ row.effective = Released(item[k]).effective /\ row.review = Released(item[k]).review
    BY <1>2, <1>4, <1>6 DEF Row
  <1>8. /\ Released(item[k]).effective = item[k].effective
        /\ Released(item[k]).review = item[k].review
    BY <1>2 DEF Released, Row
  <1>9. /\ Save(tx[k].by, k, item[k].rowVersion, "publish", row) /\ "publish" \in ActionNames
        /\ overlapped' = overlapped \cup OverlapsOf(k) /\ UNCHANGED <<archive, now>>
    BY <1>2, <1>4 DEF CommitPublish, ActionNames
  <1>10. /\ Grows(k) /\ \A j \in Items \ {k} : item'[j] = item[j] /\ log'[j] = log[j]
         /\ item'[k].status = "published" /\ item'[k].payload = item[k].payload
         /\ item'[k].version = Released(item[k]).version
         /\ item'[k].previous = Released(item[k]).previous
         /\ item'[k].effective = item[k].effective /\ item'[k].review = item[k].review
    BY <1>2, <1>5, <1>7, <1>8, <1>9, SavedRow
  <1> QED BY <1>1, <1>2, <1>3, <1>9, <1>10 DEF Others, Publishes

LEMMA CommitQuestionVariantsKind ==
  ASSUME IInv, NEW k \in Items, CommitQuestionVariants(k)
  PROVE  Others(k) /\ Requestions(k)
  <1>1. /\ tx[k].kind = "update_question_variants" /\ tx' = [tx EXCEPT ![k] = NoTx]
        /\ tx[k] # NoTx
    BY DEF CommitQuestionVariants, NoTx
  <1>2. /\ tx[k].page = item[k].rowVersion /\ item[k].status = "draft"
        /\ item[k] \in Row /\ tx[k].by \in Actors /\ tx[k].questions \in SUBSET Questions
    BY <1>1, ClosedTx DEF IInv, TypeOK, TxHeld, Tx
  <1>3. tx'[k] = NoTx /\ \A j \in Items \ {k} : tx'[j] = tx[j]
    BY <1>1, ClosedTx
  <1>4. PICK row : row = [item[k] EXCEPT !.payload.questions = tx[k].questions]
    OBVIOUS
  <1>5. row \in Row /\ row.status = "draft" /\ row.rowVersion = item[k].rowVersion
    BY <1>2, <1>4, QuestionsRow
  <1>6. /\ row.version = item[k].version /\ row.previous = item[k].previous
        /\ row.payload.questions = tx[k].questions
    BY <1>2, <1>4 DEF Row, Payload
  <1>7. /\ Save(tx[k].by, k, item[k].rowVersion, "update_question_variants", row)
        /\ "update_question_variants" \in ActionNames
        /\ overlapped' = overlapped \cup OverlapsOf(k) /\ UNCHANGED <<archive, now>>
    BY <1>2, <1>4 DEF CommitQuestionVariants, ActionNames
  <1> QED BY <1>1, <1>2, <1>3, <1>5, <1>6, <1>7, SavedRow DEF Others, Requestions

LEMMA RevokeKind ==
  ASSUME IInv, NEW a \in Actors, NEW k \in Items, NEW v, Revoke(a, k, v)
  PROVE  Others(k) /\ Revokes(k)
  <1>1. /\ v = item[k].rowVersion /\ tx[k] = NoTx /\ item[k] \in Row
        /\ item[k].status \in {"approved", "published"}
    BY PermittedStatus DEF Revoke
  <1>2. PICK row : row = [item[k] EXCEPT !.status = "revoked", !.public = FALSE]
    OBVIOUS
  <1>3. /\ row \in Row /\ row.status = "revoked" /\ row.rowVersion = item[k].rowVersion
        /\ row.version = item[k].version /\ row.previous = item[k].previous
        /\ row.payload = item[k].payload /\ row.reviewer = item[k].reviewer
        /\ row.approver = item[k].approver
    BY <1>1, <1>2 DEF Row, Statuses
  <1>4. /\ Save(a, k, item[k].rowVersion, "revoke", row)
        /\ UNCHANGED <<archive, tx, now, overlapped>> /\ "revoke" \in ActionNames
    BY <1>1, <1>2 DEF Revoke, ActionNames
  <1> QED BY <1>1, <1>3, <1>4, SavedRow DEF Others, Revokes

LEMMA ReviseKind ==
  ASSUME IInv, NEW a \in Actors, NEW k \in Items, NEW v,
         StartRevision(a, k, v) \/ StartRevokedRevision(a, k, v)
  PROVE  Others(k) /\ Revises(k)
  <1>1. PICK act \in {"start_revision", "start_revoked_revision"} :
          /\ Revise(a, k, v, act)
          /\ act = "start_revision" => item[k].review <= now
    BY DEF StartRevision, StartRevokedRevision
  <1>2. /\ v = item[k].rowVersion /\ tx[k] = NoTx /\ item[k] \in Row
        /\ \/ item[k].status = "revoked"
           \/ item[k].status = "published" /\ item[k].review <= now
    BY <1>1, PermittedStatus DEF Revise
  <1>3. PICK row : row = [Unassigned(item[k]) EXCEPT !.previous = item[k].version,
                                                     !.version = NextDraftVersion(item[k].version)]
    OBVIOUS
  <1>4. row \in Row /\ row.status = "draft" /\ row.rowVersion = item[k].rowVersion
    BY <1>2, <1>3, RevisedRow
  <1>5. Unassigned(item[k]) \in Row /\ Unassigned(item[k]).payload = item[k].payload
    BY <1>2, UnassignedRow
  <1>6. /\ row.version = NextDraftVersion(item[k].version)
        /\ row.previous = item[k].version /\ row.payload = item[k].payload
    BY <1>3, <1>5 DEF Row
  <1>7. /\ Save(a, k, item[k].rowVersion, act, row) /\ ~ item[k].version.draft
        /\ UNCHANGED <<tx, now, overlapped>> /\ act \in ActionNames
        /\ archive' = [archive EXCEPT ![k] = @ \cup {item[k]}]
    BY <1>1, <1>2, <1>3 DEF Revise, CanDraftNext, ActionNames
  <1>8. /\ archive'[k] = archive[k] \cup {item[k]}
        /\ \A j \in Items \ {k} : archive'[j] = archive[j]
    BY <1>7 DEF IInv, TypeOK
  <1> QED BY <1>2, <1>4, <1>6, <1>7, <1>8, SavedRow DEF Others, Revises

LEMMA StepsClassified ==
  ASSUME IInv, [Next]_vars
  PROVE  StepKinds
  <1>1. CASE \E a \in Actors, k \in Items : \E v \in 1 .. Len(log[k]) : Submit(a, k, v)
    <2>1. PICK a \in Actors, k \in Items : \E v \in 1 .. Len(log[k]) : Submit(a, k, v)
      BY <1>1
    <2>2. PICK v \in 1 .. Len(log[k]) : Submit(a, k, v)
      BY <2>1
    <2>3. CASE \/ \E c \in Contents : UpdateContent(a, k, v, c)
               \/ \E l \in Lexicon : UpdateAsrTerms(a, k, v, l)
      BY <2>3, UpdateContentKind, UpdateAsrTermsKind DEF StepKinds
    <2>4. CASE \E effective, review \in Times : Approve(a, k, v, effective, review)
      BY <2>4, ApproveKind DEF StepKinds
    <2>5. CASE SubmitReview(a, k, v) \/ CompleteReview(a, k, v) \/ ReturnDraft(a, k, v)
      BY <2>5, SubmitReviewKind, CompleteReviewKind, ReturnDraftKind DEF StepKinds
    <2>6. CASE \/ CheckPublish(a, k, v)
               \/ \E qs \in SUBSET Questions : CheckQuestionVariants(a, k, v, qs)
      BY <2>6, OpensKind DEF StepKinds
    <2>7. CASE Revoke(a, k, v)
      BY <2>7, RevokeKind DEF StepKinds
    <2>8. CASE StartRevision(a, k, v) \/ StartRevokedRevision(a, k, v)
      BY <2>8, ReviseKind DEF StepKinds
    <2> QED BY <2>2, <2>3, <2>4, <2>5, <2>6, <2>7, <2>8 DEF Submit
  <1>2. CASE \E k \in Items : CommitPublish(k) \/ CommitQuestionVariants(k) \/ Rollback(k)
    BY <1>2, CommitPublishKind, CommitQuestionVariantsKind, RollsKind DEF StepKinds
  <1>3. CASE Tick \/ UNCHANGED vars
    BY <1>3 DEF Tick, vars, StepKinds, Idle
  <1> QED BY <1>1, <1>2, <1>3 DEF Next

LEMMA AlwaysIInv == Spec => []IInv
  <1>1. Init => IInv
    BY InitIInv
  <1>2. IInv /\ [Next]_vars => IInv'
    BY NextKeeps
  <1> QED BY <1>1, <1>2, PTL DEF Spec

-----------------------------------------------------------------------------
(* Leaving the runtime *)

LEMMA StaysEligible ==
  ASSUME IInv, [Next]_vars, NEW j \in Items, Eligible(j), ~ Eligible(j)'
  PROVE  item'[j].status = "revoked" \/ now' >= item[j].review
  <1>1. /\ item[j].status = "published" /\ item[j].public
        /\ item[j].effective # NoTime /\ item[j].effective <= now
        /\ item[j].review # NoTime /\ now <= item[j].review
    BY DEF Eligible
  <1>2. item[j].effective \in Int /\ item[j].review \in Int /\ now \in Int
    <2>1. item[j] \in Row /\ now \in Times
      BY DEF IInv, TypeOK
    <2> QED BY <2>1, GovernanceAssumption DEF Row, Times, NoTime
  <1>3. CASE item'[j] = item[j]
    <2>1. now' \in {now, now + 1}
      BY StepsClassified DEF StepKinds, Idle, Opens, Rolls, Drafts, Requestions, Publishes,
                             Revokes, Revises
    <2>2. item[j].effective <= now'
      BY <1>1, <1>2, <2>1
    <2>3. ~ (now' <= item[j].review)
      BY <1>1, <1>3, <2>2 DEF Eligible
    <2> QED BY <1>2, <2>1, <2>3
  <1>4. CASE item'[j] # item[j]
    <2>1. Drafts(j) \/ Requestions(j) \/ Publishes(j) \/ Revokes(j) \/ Revises(j)
      BY <1>4, StepsClassified DEF StepKinds, Idle, Others, Opens, Rolls
    <2>2. Revokes(j) \/ Revises(j)
      BY <1>1, <2>1 DEF Drafts, Requestions, Publishes
    <2>3. CASE Revokes(j)
      BY <2>3 DEF Revokes
    <2>4. CASE Revises(j)
      <3>1. item[j].review <= now /\ now' = now
        BY <1>1, <2>4 DEF Revises
      <3> QED BY <1>2, <3>1
    <2> QED BY <2>2, <2>3, <2>4
  <1> QED BY <1>3, <1>4

(***************************************************************************)
(* No edit, return or early revision takes a public answer offline: a      *)
(* step that ends an answer's eligibility is a revocation or happens when  *)
(* the review deadline has come (eligible_documents, _apply_action).       *)
(***************************************************************************)
THEOREM OfflineByDeadlineOrRevocation == Spec => OnlyDeadlineOrRevocationTakesOffline
  <1>1. IInv /\ [Next]_vars =>
          [\A k \in Items :
             Eligible(k) /\ ~ Eligible(k)' =>
               \/ item'[k].status = "revoked"
               \/ now' >= item[k].review]_vars
    BY StaysEligible
  <1> QED BY <1>1, AlwaysIInv, PTL DEF Spec, OnlyDeadlineOrRevocationTakesOffline

-----------------------------------------------------------------------------
(* Releases and the archive *)

LEMMA EvidenceKept ==
  ASSUME IInv, NEW k \in Items, NEW r, NEW s, Evidenced(k, r),
         s.payload = r.payload, s.approver = r.approver, s.reviewer = r.reviewer,
         Grows(k) \/ log'[k] = log[k]
  PROVE  Evidenced(k, s)'
  <1>1. PICK i \in 3 .. Len(log[k]) :
          /\ log[k][i].action = "publish" /\ log[k][i].payload = r.payload
          /\ log[k][i - 1].by = r.approver /\ log[k][i - 2].by = r.reviewer
    BY DEF Evidenced
  <1>2. Len(log[k]) \in Nat
    BY DEF IInv, TypeOK
  <1>3. i \in 3 .. Len(log'[k]) /\ {i, i - 1, i - 2} \subseteq 1 .. Len(log[k])
    BY <1>1, <1>2 DEF Grows
  <1>4. /\ log'[k][i] = log[k][i] /\ log'[k][i - 1] = log[k][i - 1]
        /\ log'[k][i - 2] = log[k][i - 2]
    BY <1>3 DEF Grows
  <1> QED BY <1>1, <1>3, <1>4 DEF Evidenced

\* The trail of a published row is the evidence of its release.
PublishedEvidenced ==
  \A k \in Items : item[k].status = "published" => Evidenced(k, item[k])

LEMMA TrailIsEvidence ==
  ASSUME IInv
  PROVE  PublishedEvidenced
  <1>1. ASSUME NEW k \in Items, item[k].status = "published"
        PROVE  Evidenced(k, item[k])
    <2>1. Trail(k, 4)
      <3>1. Collected(item[k]) = 4
        BY <1>1, CollectedValues
      <3> QED BY <3>1 DEF IInv, Trails
    <2>2. PICK L \in Nat : L = Len(log[k])
      BY DEF IInv, TypeOK
    <2>3. /\ 4 < L /\ log[k][L - 4 + 4].action = Signatures[4]
          /\ log[k][L - 4 + 2].by = item[k].reviewer
          /\ log[k][L - 4 + 3].by = item[k].approver
      BY <2>1, <2>2 DEF Trail, LastEvent
    <2>4. L - 4 + 4 = L /\ L - 4 + 3 = L - 1 /\ L - 4 + 2 = L - 2 /\ L \in 3 .. L
      BY <2>3
    <2>5. log[k][L].payload = item[k].payload
      BY <2>2 DEF IInv, LogMatches
    <2>6. Signatures[4] = "publish"
      BY DEF Signatures
    <2> QED BY <2>2, <2>3, <2>4, <2>5, <2>6 DEF Evidenced
  <1> QED BY <1>1 DEF PublishedEvidenced

\* Every snapshot kept earlier stays evidenced and stays below the row's version.
LEMMA ArchiveKept ==
  ASSUME IInv, NEW k \in Items, ArchiveOrdered(k), archive'[k] = archive[k],
         Grows(k) \/ log'[k] = log[k],
         archive[k] # {} => item'[k].previous # NoVersion,
         archive[k] # {} => item'[k].version.minor = item[k].version.minor
  PROVE  ArchiveOrdered(k)'
  <1>1. ASSUME NEW s \in archive[k]
        PROVE  Evidenced(k, s)'
    BY EvidenceKept DEF ArchiveOrdered
  <1>2. ASSUME NEW s \in archive[k]
        PROVE  /\ item'[k].previous # NoVersion
               /\ s.version.minor < item'[k].version.minor
               /\ \A t \in archive[k] : t.version = s.version => t = s
    BY DEF ArchiveOrdered
  <1> QED BY <1>1, <1>2 DEF ArchiveOrdered

LEMMA SameRowKeepsRelease ==
  ASSUME IInv, NEW k \in Items, Numbered(k), ArchiveOrdered(k),
         item'[k] = item[k], log'[k] = log[k], archive'[k] = archive[k]
  PROVE  Numbered(k)' /\ ArchiveOrdered(k)'
  <1>1. ArchiveOrdered(k)'
    BY ArchiveKept DEF ArchiveOrdered
  <1>2. Numbered(k)'
    BY EvidenceKept DEF Numbered
  <1> QED BY <1>1, <1>2

LEMMA DraftsKeepRelease ==
  ASSUME IInv, NEW k \in Items, Numbered(k), ArchiveOrdered(k), Drafts(k) \/ Requestions(k)
  PROVE  Numbered(k)' /\ ArchiveOrdered(k)'
  <1>1. /\ item[k].status \notin {"published", "revoked"}
        /\ item'[k].version = item[k].version /\ item'[k].previous = item[k].previous
        /\ archive'[k] = archive[k] /\ Grows(k)
    BY DEF Drafts, Requestions
  <1>2. Numbered(k)'
    BY <1>1 DEF Numbered
  <1>3. ArchiveOrdered(k)'
    BY <1>1, ArchiveKept DEF ArchiveOrdered
  <1> QED BY <1>2, <1>3

LEMMA PublishesKeepsRelease ==
  ASSUME IInv, PublishedEvidenced', NEW k \in Items, Numbered(k), ArchiveOrdered(k), Publishes(k)
  PROVE  Numbered(k)' /\ ArchiveOrdered(k)'
  <1>1. /\ item[k] \in Row /\ item[k].version \in Versions /\ item[k].version.draft
        /\ item'[k].status = "published" /\ Grows(k) /\ archive'[k] = archive[k]
        /\ item'[k].version = Released(item[k]).version
        /\ item'[k].previous = Released(item[k]).previous
    BY DEF IInv, TypeOK, Row, Publishes, Numbered
  <1>2. Evidenced(k, item[k])'
    BY <1>1 DEF PublishedEvidenced
  <1>3. CASE item[k].previous = NoVersion
    <2>1. Released(item[k]) = [item[k] EXCEPT !.previous = item[k].version,
                                              !.version = FirstRelease]
      BY <1>1, <1>3 DEF Released
    <2>2. item'[k].previous = item[k].version /\ item'[k].version = FirstRelease
      BY <1>1, <2>1 DEF Row
    <2>3. item[k].version # NoVersion /\ FirstRelease.major = 1
      BY <1>1 DEF NoVersion, FirstRelease
    <2>4. archive[k] = {}
      BY <1>3 DEF ArchiveOrdered
    <2> QED BY <1>1, <1>2, <2>2, <2>3, <2>4 DEF Numbered, ArchiveOrdered
  <1>4. CASE item[k].previous # NoVersion
    <2>1. Released(item[k]) = [item[k] EXCEPT !.version.draft = FALSE]
      BY <1>1, <1>4 DEF Released
    <2>2. PICK v : v = [item[k].version EXCEPT !.draft = FALSE]
      OBVIOUS
    <2>3. v.major = item[k].version.major /\ v.minor = item[k].version.minor
      BY <1>1, <2>2 DEF Versions
    <2>4. item'[k].version = v /\ item'[k].previous = item[k].previous
      BY <1>1, <2>1, <2>2 DEF Row
    <2>5. ArchiveOrdered(k)'
      BY <1>1, <1>4, <2>3, <2>4, ArchiveKept
    <2>6. Numbered(k)'
      BY <1>1, <1>2, <1>4, <2>3, <2>4 DEF Numbered
    <2> QED BY <2>5, <2>6
  <1> QED BY <1>3, <1>4

LEMMA RevokesKeepsRelease ==
  ASSUME IInv, NEW k \in Items, Numbered(k), ArchiveOrdered(k), Revokes(k)
  PROVE  Numbered(k)' /\ ArchiveOrdered(k)'
  <1>1. /\ item'[k].status = "revoked" /\ Grows(k) /\ archive'[k] = archive[k]
        /\ item'[k].version = item[k].version /\ item'[k].previous = item[k].previous
        /\ item'[k].payload = item[k].payload /\ item'[k].reviewer = item[k].reviewer
        /\ item'[k].approver = item[k].approver
    BY DEF Revokes
  <1>2. ArchiveOrdered(k)'
    BY <1>1, ArchiveKept DEF ArchiveOrdered
  <1>3. Evidenced(k, item[k]) => Evidenced(k, item[k])'
    BY <1>1, EvidenceKept
  <1>4. Numbered(k)'
    BY <1>1, <1>3 DEF Numbered
  <1> QED BY <1>2, <1>4

LEMMA RevisesKeepsRelease ==
  ASSUME IInv, NEW k \in Items, Numbered(k), ArchiveOrdered(k), Revises(k)
  PROVE  Numbered(k)' /\ ArchiveOrdered(k)'
  <1>1. item[k] \in Row /\ item[k].version \in Versions /\ ~ item[k].version.draft
    BY DEF IInv, TypeOK, Row, Revises
  <1>2. /\ item'[k].previous = item[k].version
        /\ archive'[k] = archive[k] \cup {item[k]} /\ Grows(k)
        /\ item'[k].version = NextDraftVersion(item[k].version)
    BY DEF Revises
  <1>3. PICK n \in Nat : n = item[k].version.minor
    BY <1>1 DEF Versions
  <1>4. PICK v : v = [item[k].version EXCEPT !.minor = n + 1, !.draft = TRUE]
    OBVIOUS
  <1>5. v.minor = n + 1 /\ v.draft /\ v.major = item[k].version.major
    BY <1>1, <1>4 DEF Versions
  <1>6. item'[k].version = v
    BY <1>2, <1>3, <1>4 DEF NextDraftVersion
  <1>7. item[k].version.major = 1 /\ Evidenced(k, item[k])
    BY <1>1 DEF Numbered
  <1>8. item[k].version # NoVersion
    BY <1>7 DEF NoVersion
  <1>9. Numbered(k)'
    BY <1>2, <1>5, <1>6, <1>7 DEF Numbered
  <1>10. ASSUME NEW s \in archive[k] \cup {item[k]}
         PROVE  s.version.minor < item'[k].version.minor /\ Evidenced(k, s)'
    <2>1. CASE s \in archive[k]
      <3>1. s.version.minor < n /\ Evidenced(k, s)
        BY <2>1, <1>3 DEF ArchiveOrdered
      <3>2. s.version.minor \in Nat
        BY <2>1 DEF IInv, TypeOK, Row, Versions
      <3>3. s.version.minor < item'[k].version.minor
        BY <3>1, <3>2, <1>5, <1>6
      <3> QED BY <3>1, <3>3, <1>2, EvidenceKept
    <2>2. CASE s = item[k]
      <3>1. s.version.minor < item'[k].version.minor
        BY <2>2, <1>3, <1>5, <1>6
      <3> QED BY <3>1, <2>2, <1>2, <1>7, EvidenceKept
    <2> QED BY <2>1, <2>2
  <1>11. ASSUME NEW s \in archive[k] \cup {item[k]}, NEW t \in archive[k] \cup {item[k]},
                t.version = s.version
         PROVE  t = s
    <2>1. \A q \in archive[k] : q.version # item[k].version
      BY <1>3 DEF ArchiveOrdered
    <2>2. \A q, r \in archive[k] : q.version = r.version => q = r
      BY DEF ArchiveOrdered
    <2> QED BY <2>1, <2>2, <1>11
  <1>12. ArchiveOrdered(k)'
    BY <1>2, <1>8, <1>10, <1>11 DEF ArchiveOrdered
  <1> QED BY <1>9, <1>12

LEMMA ReleaseKeeps ==
  ASSUME IInv, PublishedEvidenced', ReleaseInv, [Next]_vars
  PROVE  ReleaseInv'
  <1>1. ASSUME NEW j \in Items
        PROVE  Numbered(j)' /\ ArchiveOrdered(j)'
    <2>1. Numbered(j) /\ ArchiveOrdered(j)
      BY DEF ReleaseInv
    <2>2. CASE item'[j] = item[j] /\ log'[j] = log[j] /\ archive'[j] = archive[j]
      BY <2>1, <2>2, SameRowKeepsRelease
    <2>3. CASE Drafts(j) \/ Requestions(j)
      BY <2>1, <2>3, DraftsKeepRelease
    <2>4. CASE Publishes(j)
      BY <2>1, <2>4, PublishesKeepsRelease
    <2>5. CASE Revokes(j)
      BY <2>1, <2>5, RevokesKeepsRelease
    <2>6. CASE Revises(j)
      BY <2>1, <2>6, RevisesKeepsRelease
    <2> QED BY <2>2, <2>3, <2>4, <2>5, <2>6, StepsClassified
            DEF StepKinds, Idle, Others, Opens, Rolls
  <1> QED BY <1>1 DEF ReleaseInv

(***************************************************************************)
(* Every archived snapshot was public once, signed for its payload by the  *)
(* people it names, under a version number that neither another snapshot   *)
(* nor the item's row uses: the unique constraint of the archive never     *)
(* refuses a revision (_apply_action, _next_draft_version).                *)
(***************************************************************************)
THEOREM ArchiveIsEvidence == Spec => []ArchiveHoldsReleases
  <1>1. Init => ReleaseInv
    <2>1. ASSUME Init, NEW k \in Items
          PROVE  Numbered(k) /\ ArchiveOrdered(k)
      <3>1. item[k].version \in SeedVersions /\ item[k].previous = NoVersion /\ archive[k] = {}
        BY <2>1, GovernanceAssumption DEF Init, NewRow
      <3>2. item[k].version.draft
        BY <3>1 DEF SeedVersions
      <3> QED BY <3>1, <3>2 DEF Numbered, ArchiveOrdered
    <2> QED BY <2>1 DEF ReleaseInv
  <1>2. IInv => PublishedEvidenced
    BY TrailIsEvidence
  <1>3. IInv /\ PublishedEvidenced' /\ ReleaseInv /\ [Next]_vars => ReleaseInv'
    BY ReleaseKeeps
  <1>4. IInv /\ ReleaseInv => ArchiveHoldsReleases
    <2>1. ASSUME IInv, ReleaseInv, NEW k \in Items, NEW s \in archive[k]
          PROVE  /\ s.version # item[k].version
                 /\ \A t \in archive[k] : t.version = s.version => t = s
                 /\ \E i \in 1 .. Len(log[k]) :
                      /\ log[k][i].action = "publish"
                      /\ log[k][i].payload = s.payload
                      /\ log[k][i - 1].by = s.approver
                      /\ log[k][i - 2].by = s.reviewer
      <3>1. /\ s.version.minor < item[k].version.minor /\ Evidenced(k, s)
            /\ \A t \in archive[k] : t.version = s.version => t = s
        BY <2>1 DEF ReleaseInv, ArchiveOrdered
      <3>2. item[k].version.minor \in Nat
        BY <2>1 DEF IInv, TypeOK, Row, Versions
      <3>3. 3 .. Len(log[k]) \subseteq 1 .. Len(log[k])
        BY <2>1 DEF IInv, TypeOK
      <3> QED BY <3>1, <3>2, <3>3 DEF Evidenced
    <2> QED BY <2>1 DEF ArchiveHoldsReleases
  <1> QED BY <1>1, <1>2, <1>3, <1>4, AlwaysIInv, PTL DEF Spec

-----------------------------------------------------------------------------
(* Transactions that read other items *)

\* The history only grows, and an open transaction holds its row.
LEMMA OverlapsAndLocks ==
  ASSUME IInv, [Next]_vars
  PROVE  /\ overlapped \subseteq overlapped'
         /\ \A k \in Items : tx'[k] # NoTx => item'[k] = item[k]
         /\ \A k \in Items : tx'[k] \notin {NoTx, tx[k]} => Others(k) /\ Opens(k)
  BY StepsClassified DEF StepKinds, Idle, Others, Opens, Rolls, Drafts, Requestions, Publishes,
                         Revokes, Revises

LEMMA OnlyPublishes ==
  ASSUME IInv, [Next]_vars, NEW k \in Items,
         item'[k] # item[k], item'[k].status = "published"
  PROVE  Others(k) /\ Publishes(k)
  BY StepsClassified DEF StepKinds, Idle, Others, Opens, Rolls, Drafts, Requestions,
                         Revokes, Revises

LEMMA OnlyRequestions ==
  ASSUME IInv, [Next]_vars, NEW k \in Items,
         item'[k].payload.questions # item[k].payload.questions
  PROVE  Others(k) /\ Requestions(k)
  BY StepsClassified DEF StepKinds, Idle, Others, Opens, Rolls, Drafts, Publishes,
                         Revokes, Revises

\* A commit records every transaction of its kind that is still open.
LEMMA CommitRecordsOverlap ==
  ASSUME NEW j \in Items, NEW k \in Items \ {j}, tx[k].kind = tx[j].kind,
         overlapped' = overlapped \cup OverlapsOf(j)
  PROVE  <<tx[j].kind, {j, k}>> \in overlapped'
  <1>1. <<tx[j].kind, {k, j}>> \in OverlapsOf(j)
    BY DEF OverlapsOf
  <1>2. {k, j} = {j, k}
    OBVIOUS
  <1> QED BY <1>1, <1>2

LEMMA ContestedSymmetric ==
  ASSUME NEW j \in Items, NEW k \in Items
  PROVE  Contested(j, k) <=> Contested(k, j)
  BY DEF Contested, WindowsOverlap, LexiconsClash

LEMMA RaceKeeps ==
  ASSUME IInv, RaceInv, [Next]_vars
  PROVE  RaceInv'
  <1>1. ASSUME NEW j \in Items, NEW k \in Items, j # k, tx'[k].kind = "publish",
               item'[j].status = "published", Contested(j, k)'
        PROVE  <<"publish", {j, k}>> \in overlapped'
    <2>1. tx'[k] # NoTx /\ item'[k] = item[k]
      BY <1>1, OverlapsAndLocks DEF NoTx
    <2>2. CASE tx'[k] # tx[k]
      <3>1. Opens(k) /\ Others(k)
        BY <2>1, <2>2, OverlapsAndLocks
      <3>2. item' = item /\ ~ PublishConflict(k)
        BY <1>1, <3>1 DEF Opens
      <3>3. Contested(k, j) /\ item[j].status = "published"
        BY <1>1, <3>2, ContestedSymmetric DEF Contested
      <3>4. PublishConflict(k)
        BY <1>1, <3>3 DEF PublishConflict, Contested
      <3> QED BY <3>2, <3>4
    <2>3. CASE tx'[k] = tx[k] /\ item'[j] = item[j]
      <3>1. Contested(j, k)
        BY <1>1, <2>1, <2>3 DEF Contested
      <3> QED BY <1>1, <2>3, <3>1, OverlapsAndLocks DEF RaceInv, PublishChecked
    <2>4. CASE tx'[k] = tx[k] /\ item'[j] # item[j]
      <3>1. Publishes(j)
        BY <1>1, <2>4, OnlyPublishes
      <3>2. tx[j].kind = "publish" /\ overlapped' = overlapped \cup OverlapsOf(j)
        BY <3>1 DEF Publishes
      <3> QED BY <1>1, <2>4, <3>2, CommitRecordsOverlap
    <2> QED BY <2>2, <2>3, <2>4
  <1>2. ASSUME NEW j \in Items, NEW k \in Items, j # k, item'[j] # item[j],
               item'[j].status = "published", item'[k].status = "published", Contested(j, k)'
        PROVE  <<"publish", {j, k}>> \in overlapped'
    <2>1. Publishes(j) /\ Others(j)
      BY <1>2, OnlyPublishes
    <2>2. /\ item'[k] = item[k] /\ tx[j].kind = "publish"
          /\ item'[j].payload = item[j].payload
          /\ item'[j].effective = item[j].effective /\ item'[j].review = item[j].review
      BY <1>2, <2>1 DEF Publishes, Others
    <2>3. Contested(j, k)
      BY <1>2, <2>2 DEF Contested, WindowsOverlap
    <2>4. Contested(k, j)
      BY <2>3, ContestedSymmetric
    <2>5. <<"publish", {k, j}>> \in overlapped
      BY <1>2, <2>2, <2>4 DEF RaceInv, PublishChecked
    <2>6. {k, j} = {j, k}
      OBVIOUS
    <2> QED BY <2>5, <2>6, OverlapsAndLocks
  <1>3. ASSUME NEW j \in Items, NEW k \in Items, j # k,
               item'[j].status = "published", item'[k].status = "published", Contested(j, k)'
        PROVE  <<"publish", {j, k}>> \in overlapped'
    <2>1. CASE item'[j] = item[j] /\ item'[k] = item[k]
      <3>1. Contested(j, k)
        BY <1>3, <2>1 DEF Contested
      <3> QED BY <1>3, <2>1, <3>1, OverlapsAndLocks DEF RaceInv, AliasClashNeedsRace, Contested
    <2>2. CASE item'[j] # item[j]
      BY <1>2, <1>3, <2>2
    <2>3. CASE item'[k] # item[k]
      <3>1. Contested(k, j)'
        BY <1>3 DEF Contested, WindowsOverlap, LexiconsClash
      <3>2. <<"publish", {k, j}>> \in overlapped'
        BY <1>2, <1>3, <2>3, <3>1
      <3>3. {k, j} = {j, k}
        OBVIOUS
      <3> QED BY <3>2, <3>3
    <2> QED BY <2>1, <2>2, <2>3
  <1>4. PublishChecked'
    BY <1>1 DEF PublishChecked
  <1>5. AliasClashNeedsRace'
    BY <1>3 DEF AliasClashNeedsRace, Contested
  <1> QED BY <1>4, <1>5 DEF RaceInv

(***************************************************************************)
(* Two published items with overlapping windows contest an ASR word only   *)
(* if their publications were open at the same time: publications one      *)
(* after the other never do (_validate_asr_publish_conflicts).             *)
(***************************************************************************)
THEOREM SequentialPublicationsNeverClash == Spec => []AliasClashNeedsRace
  <1>1. Init => RaceInv
    <2>1. ASSUME Init, NEW k \in Items
          PROVE  item[k].status = "draft" /\ tx[k].kind = "none"
      BY <2>1 DEF Init, NewRow, NoTx
    <2> QED BY <2>1 DEF RaceInv, AliasClashNeedsRace, PublishChecked
  <1>2. IInv /\ RaceInv /\ [Next]_vars => RaceInv'
    BY RaceKeeps
  <1>3. RaceInv => AliasClashNeedsRace
    BY DEF RaceInv
  <1> QED BY <1>1, <1>2, <1>3, AlwaysIInv, PTL DEF Spec

LEMMA ShareKeeps ==
  ASSUME IInv, ShareInv, [Next]_vars
  PROVE  ShareInv'
  <1> DEFINE raced(j, k) == <<"update_question_variants", {j, k}>>
  <1> DEFINE asked(k) == item[k].payload.questions
  <1> DEFINE allowed(j, k) == IF raced(j, k) \in overlapped THEN Questions
                              ELSE Seed[j].questions \cap Seed[k].questions
  <1>1. ASSUME NEW j \in Items, NEW k \in Items, j # k,
               tx'[k].kind = "update_question_variants",
               asked(j)' \cap tx'[k].questions # {}
        PROVE  raced(j, k) \in overlapped'
    <2>1. tx'[k] # NoTx
      BY <1>1 DEF NoTx
    <2>2. CASE tx'[k] # tx[k]
      <3>1. Opens(k)
        BY <2>1, <2>2, OverlapsAndLocks
      <3>2. item' = item /\ ~ QuestionConflict(k, tx'[k].questions)
        BY <1>1, <3>1 DEF Opens
      <3> QED BY <1>1, <3>2 DEF QuestionConflict
    <2>3. CASE tx'[k] = tx[k] /\ asked(j)' = asked(j)
      BY <1>1, <2>3, OverlapsAndLocks DEF ShareInv, QuestionsChecked
    <2>4. CASE tx'[k] = tx[k] /\ asked(j)' # asked(j)
      <3>1. Requestions(j)
        BY <2>4, OnlyRequestions
      <3>2. /\ tx[j].kind = "update_question_variants"
            /\ overlapped' = overlapped \cup OverlapsOf(j)
        BY <3>1 DEF Requestions
      <3> QED BY <1>1, <2>4, <3>2, CommitRecordsOverlap
    <2> QED BY <2>2, <2>3, <2>4
  <1>2. \A k \in Items : asked(k) \subseteq Questions
    BY DEF IInv, TypeOK, Row, Payload
  <1>3. ASSUME NEW j \in Items, NEW k \in Items, j # k, asked(j)' # asked(j)
        PROVE  asked(j)' \cap asked(k)' \subseteq allowed(j, k)'
    <2>1. Requestions(j) /\ Others(j)
      BY <1>3, OnlyRequestions
    <2>2. /\ asked(k)' = asked(k) /\ tx[j].kind = "update_question_variants"
          /\ asked(j)' = tx[j].questions
      BY <1>3, <2>1 DEF Requestions, Others
    <2>3. CASE asked(k) \cap tx[j].questions = {}
      BY <2>2, <2>3
    <2>4. CASE asked(k) \cap tx[j].questions # {}
      <3>1. raced(k, j) \in overlapped
        BY <1>3, <2>2, <2>4 DEF ShareInv, QuestionsChecked
      <3>2. raced(k, j) = raced(j, k)
        OBVIOUS
      <3>3. raced(j, k) \in overlapped'
        BY <3>1, <3>2, OverlapsAndLocks
      <3> QED BY <1>2, <2>2, <3>3
    <2> QED BY <2>3, <2>4
  <1>4. ASSUME NEW j \in Items, NEW k \in Items, j # k
        PROVE  asked(j)' \cap asked(k)' \subseteq allowed(j, k)'
    <2>1. CASE asked(j)' = asked(j) /\ asked(k)' = asked(k)
      <3>1. asked(j) \cap asked(k) \subseteq allowed(j, k)
        BY <1>4 DEF ShareInv, SharedQuestionNeedsRaceOrImport
      <3>2. raced(j, k) \in overlapped => raced(j, k) \in overlapped'
        BY OverlapsAndLocks
      <3> QED BY <1>2, <2>1, <3>1, <3>2
    <2>2. CASE asked(j)' # asked(j)
      BY <1>3, <1>4, <2>2
    <2>3. CASE asked(k)' # asked(k)
      <3>1. asked(k)' \cap asked(j)' \subseteq allowed(k, j)'
        BY <1>3, <1>4, <2>3
      <3>2. raced(k, j) = raced(j, k)
        OBVIOUS
      <3> QED BY <3>1, <3>2
    <2> QED BY <2>1, <2>2, <2>3
  <1>5. QuestionsChecked'
    BY <1>1 DEF QuestionsChecked
  <1>6. SharedQuestionNeedsRaceOrImport'
    BY <1>4 DEF SharedQuestionNeedsRaceOrImport
  <1> QED BY <1>5, <1>6 DEF ShareInv

(***************************************************************************)
(* Two items share a retrieval question only if they were imported with it *)
(* or if both authors had their check done before the other's commit       *)
(* (update_question_variants reads the other items, then commits).         *)
(***************************************************************************)
THEOREM SequentialEditsNeverShare == Spec => []SharedQuestionNeedsRaceOrImport
  <1>1. Init => ShareInv
    <2>1. ASSUME Init, NEW k \in Items
          PROVE  item[k].payload = Seed[k] /\ tx[k].kind = "none"
      BY <2>1 DEF Init, NewRow, NoTx
    <2>2. \A k \in Items : Seed[k].questions \subseteq Questions
      BY GovernanceAssumption DEF Payload
    <2> QED BY <2>1, <2>2 DEF ShareInv, SharedQuestionNeedsRaceOrImport, QuestionsChecked
  <1>2. IInv /\ ShareInv /\ [Next]_vars => ShareInv'
    BY ShareKeeps
  <1>3. ShareInv => SharedQuestionNeedsRaceOrImport
    BY DEF ShareInv
  <1> QED BY <1>1, <1>2, <1>3, AlwaysIInv, PTL DEF Spec

-----------------------------------------------------------------------------
(* The refinement of PublicAnswers *)

\* The four people behind a published item are different, the author first.
PublishedSigned ==
  \A k \in Items : item[k].status = "published" =>
    LiveSigners[k] \in PublicPromise!SignerLists(k)

LEMMA TrailIsSignerList ==
  ASSUME IInv
  PROVE  PublishedSigned
  <1>1. ASSUME NEW k \in Items, item[k].status = "published"
        PROVE  LiveSigners[k] \in PublicPromise!SignerLists(k)
    <2>1. Trail(k, 4)
      <3>1. Collected(item[k]) = 4
        BY <1>1, CollectedValues
      <3> QED BY <3>1 DEF IInv, Trails
    <2>2. PICK L \in Nat : L = Len(log[k])
      BY DEF IInv, TypeOK
    <2>3. ASSUME NEW i \in 1 .. 4
          PROVE  LastEvent(k, 4, i).by \in Actors
      <3>1. L - 4 + i \in 1 .. Len(log[k])
        BY <2>1, <2>2 DEF Trail
      <3>2. log[k][L - 4 + i] \in Event
        BY <3>1 DEF IInv, TypeOK
      <3> QED BY <2>2, <3>2 DEF LastEvent, Event
    <2>4. PICK s : s = <<LastEvent(k, 4, 1).by, LastEvent(k, 4, 2).by,
                         LastEvent(k, 4, 3).by, LastEvent(k, 4, 4).by>>
      OBVIOUS
    <2>5. s \in [1 .. 4 -> Actors] /\ \A i \in 1 .. 4 : s[i] = LastEvent(k, 4, i).by
      BY <2>3, <2>4
    <2>6. /\ LastEvent(k, 4, 1).by = AuthorOf[k]
          /\ \A i, j \in 1 .. 4 : j # i => LastEvent(k, 4, i).by # LastEvent(k, 4, j).by
      BY <2>1 DEF Trail
    <2>7. s \in PublicPromise!SignerLists(k)
      BY <2>5, <2>6 DEF PublicPromise!SignerLists
    <2> QED BY <1>1, <2>4, <2>7 DEF LiveSigners
  <1> QED BY <1>1 DEF PublishedSigned

\* A step that leaves every published row and its events alone is a stutter.
LEMMA Stutters ==
  ASSUME IInv, NEW k \in Items, \A j \in Items \ {k} : item'[j] = item[j] /\ log'[j] = log[j],
         \/ item'[k] = item[k] /\ log'[k] = log[k]
         \/ item[k].status # "published" /\ item'[k].status # "published"
  PROVE  UNCHANGED PublicPromise!vars
  <1>1. ASSUME NEW j \in Items
        PROVE  LiveAnswer'[j] = LiveAnswer[j] /\ LiveSigners'[j] = LiveSigners[j]
    BY DEF LiveAnswer, LiveSigners, LastEvent
  <1>2. LiveAnswer' = LiveAnswer /\ LiveSigners' = LiveSigners
    BY <1>1 DEF LiveAnswer, LiveSigners
  <1> QED BY <1>2 DEF PublicPromise!vars

\* What a step of item k does to the maps that the mapping shows.
LEMMA ShownElsewhere ==
  ASSUME IInv, NEW k \in Items, \A j \in Items \ {k} : item'[j] = item[j] /\ log'[j] = log[j]
  PROVE  /\ LiveAnswer' = [LiveAnswer EXCEPT ![k] = LiveAnswer'[k]]
         /\ LiveSigners' = [LiveSigners EXCEPT ![k] = LiveSigners'[k]]
  <1>1. ASSUME NEW j \in Items \ {k}
        PROVE  LiveAnswer'[j] = LiveAnswer[j] /\ LiveSigners'[j] = LiveSigners[j]
    BY DEF LiveAnswer, LiveSigners, LastEvent
  <1>2. /\ LiveAnswer = [j \in Items |-> LiveAnswer[j]] /\ LiveAnswer' = [j \in Items |-> LiveAnswer'[j]]
        /\ LiveSigners = [j \in Items |-> LiveSigners[j]]
        /\ LiveSigners' = [j \in Items |-> LiveSigners'[j]]
    BY Zenon DEF LiveAnswer, LiveSigners
  <1>3. PICK a, b, s, u : a = LiveAnswer /\ b = LiveAnswer' /\ s = LiveSigners /\ u = LiveSigners'
    OBVIOUS
  <1>4. b = [a EXCEPT ![k] = b[k]]
    BY <1>1, <1>2, <1>3
  <1>5. u = [s EXCEPT ![k] = u[k]]
    BY <1>1, <1>2, <1>3
  <1> QED BY <1>3, <1>4, <1>5

LEMMA PublishGoesLive ==
  ASSUME IInv, PublishedSigned', NEW k \in Items, Others(k), Publishes(k)
  PROVE  PublicPromise!GoLive(k)
  <1>1. LiveAnswer[k] = NoActor
    BY DEF LiveAnswer, Publishes
  <1>2. LiveAnswer'[k] \in Payload
    <2>1. item[k].payload \in Payload
      BY DEF IInv, TypeOK, Row
    <2> QED BY <2>1 DEF LiveAnswer, Publishes
  <1>3. LiveSigners'[k] \in PublicPromise!SignerLists(k)
    BY DEF PublishedSigned, Publishes, PublicPromise!SignerLists
  <1>4. /\ LiveAnswer' = [LiveAnswer EXCEPT ![k] = LiveAnswer'[k]]
        /\ LiveSigners' = [LiveSigners EXCEPT ![k] = LiveSigners'[k]]
    BY ShownElsewhere DEF Others
  <1> QED BY <1>1, <1>2, <1>3, <1>4 DEF PublicPromise!GoLive

LEMMA EndingWithdraws ==
  ASSUME IInv, NEW k \in Items, Others(k),
         item[k].status = "published", item'[k].status # "published"
  PROVE  PublicPromise!Withdraw(k)
  <1>1. LiveAnswer[k] # NoActor
    <2>1. item[k].payload \in Payload
      BY DEF IInv, TypeOK, Row
    <2> QED BY <2>1, GovernanceAssumption DEF LiveAnswer
  <1>2. LiveAnswer'[k] = NoActor /\ LiveSigners'[k] = <<>>
    BY DEF LiveAnswer, LiveSigners
  <1>3. /\ LiveAnswer' = [LiveAnswer EXCEPT ![k] = NoActor]
        /\ LiveSigners' = [LiveSigners EXCEPT ![k] = <<>>]
    BY <1>2, ShownElsewhere DEF Others
  <1> QED BY <1>1, <1>3 DEF PublicPromise!Withdraw

LEMMA StepImplements ==
  ASSUME IInv, PublishedSigned', [Next]_vars
  PROVE  [PublicPromise!Next]_(PublicPromise!vars)
  <1>1. CASE Idle
    <2>1. LiveAnswer' = LiveAnswer /\ LiveSigners' = LiveSigners
      BY <1>1 DEF Idle, LiveAnswer, LiveSigners, LastEvent
    <2> QED BY <2>1 DEF PublicPromise!vars
  <1>2. ASSUME NEW k \in Items, Others(k),
               \/ Opens(k) \/ Rolls(k) \/ Drafts(k) \/ Requestions(k)
               \/ Publishes(k) \/ Revokes(k) \/ Revises(k)
        PROVE  [PublicPromise!Next]_(PublicPromise!vars)
    <2>1. CASE Publishes(k)
      BY <1>2, <2>1, PublishGoesLive DEF PublicPromise!Next
    <2>2. CASE item[k].status = "published" /\ item'[k].status # "published"
      BY <1>2, <2>2, EndingWithdraws DEF PublicPromise!Next
    <2>3. CASE \/ item'[k] = item[k] /\ log'[k] = log[k]
               \/ item[k].status # "published" /\ item'[k].status # "published"
      BY <1>2, <2>3, Stutters DEF Others
    <2> QED BY <1>2, <2>1, <2>2, <2>3 DEF Opens, Rolls, Drafts, Requestions, Revokes, Revises
  <1> QED BY <1>1, <1>2, StepsClassified DEF StepKinds

(***************************************************************************)
(* Seen from outside, every behaviour of rows, pages and transactions is a *)
(* behaviour of PublicAnswers: an answer goes live only over four          *)
(* different signatures, the author's first, and is never edited in place  *)
(* (perform_action and the draft editing operations of repository.py).     *)
(***************************************************************************)
THEOREM LifecycleImplementsPromise == Spec => ImplementsPublicAnswers
  <1>1. Init => PublicPromise!Init
    <2>1. ASSUME Init, NEW k \in Items
          PROVE  item[k].status = "draft"
      BY <2>1 DEF Init, NewRow
    <2>2. ASSUME Init
          PROVE  /\ LiveAnswer = [k \in Items |-> NoActor]
                 /\ LiveSigners = [k \in Items |-> <<>>]
      BY <2>1, <2>2 DEF LiveAnswer, LiveSigners
    <2> QED BY <2>2 DEF PublicPromise!Init
  <1>2. IInv => PublishedSigned
    BY TrailIsSignerList
  <1>3. IInv /\ PublishedSigned' /\ [Next]_vars => [PublicPromise!Next]_(PublicPromise!vars)
    BY StepImplements
  <1> QED BY <1>1, <1>2, <1>3, AlwaysIInv, PTL DEF Spec, ImplementsPublicAnswers, PublicPromise!Spec
=============================================================================
