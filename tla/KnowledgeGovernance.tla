------------------------ MODULE KnowledgeGovernance ------------------------
(***************************************************************************)
(* The maker-checker lifecycle of the knowledge items: the row of the      *)
(* knowledge_items table, its append-only governance events, its archived  *)
(* versions, and the transactions that several administrators run at the   *)
(* same time through the admin web UI.                                     *)
(*                                                                         *)
(* An administrator acts from a page rendered earlier: the hidden form     *)
(* field expected_version names the row version that page showed.  The     *)
(* model lets any version ever rendered be posted again (page v), so a     *)
(* stale tab is always among the behaviours; the compare of row_version    *)
(* is what has to reject it.                                               *)
(*                                                                         *)
(* Every operation locks its own row (SELECT ... FOR UPDATE), so it is one *)
(* step, except the two that also READ OTHER ITEMS under READ COMMITTED:   *)
(* publishing and replacing the question variants.  These take a step for  *)
(* the check and a step for the commit, with the row locked in between.    *)
(*                                                                         *)
(* Abstractions.  content stands for title and standard answer, questions  *)
(* for the normalised texts with usage "retrieval", lexicon for the        *)
(* normalised ASR words and aliases that several items may contest.        *)
(* approved_at, owner_unit and app_versions are set and reset together     *)
(* with approver.  expires_at is null in every seed and import and no      *)
(* operation sets it.  A request the code rejects changes nothing.         *)
(***************************************************************************)
EXTENDS Integers, Sequences, FiniteSets

CONSTANTS Items,       \* knowledge_id values
          Actors,      \* actor_id values
          NoActor,     \* the null of reviewer and approver
          AuthorOf,    \* author of each item, fixed when the item is created
          RolesOf,     \* the roles the identity provider gives each actor
          Contents,    \* titles and standard answers
          Questions,   \* normalised retrieval questions
          Words,       \* normalised ASR words contested between items
          Seed,        \* payload each item is seeded or imported with
          SeedVersion, \* version each item is seeded or imported with
          MaxTime,     \* bound: the last instant of the clock
          MaxRow       \* bound: the highest row_version reached

Roles == {"author", "reviewer", "approver", "publisher", "revoker"}
\* The enum also has "expired", which no code sets.
Statuses == {"draft", "review", "approved", "published", "revoked"}

Lexicon == {l \in [canonical : SUBSET Words, aliases : SUBSET Words] :
              l.canonical \cap l.aliases = {}}
Payload == [content : Contents, questions : SUBSET Questions, lexicon : Lexicon]

\* Parsed "major.minor" with an optional "-draft" suffix.  The seed files create
\* "0.1-draft", the FAQ import "1.0-draft".
Versions == [major : Nat, minor : Nat, draft : BOOLEAN]
NoVersion == [major |-> 0, minor |-> 0, draft |-> FALSE]
SeedVersions == {[major |-> 0, minor |-> 1, draft |-> TRUE],
                 [major |-> 1, minor |-> 0, draft |-> TRUE]}

ASSUME GovernanceAssumption ==
  /\ NoActor \notin Actors \cup Payload
  /\ AuthorOf \in [Items -> Actors]
  /\ RolesOf \in [Actors -> SUBSET Roles]
  /\ Seed \in [Items -> Payload]
  /\ SeedVersion \in [Items -> SeedVersions]
  /\ MaxTime \in Nat
  /\ MaxRow \in Nat

Times == 0 .. MaxTime
NoTime == -1

VARIABLES item,        \* the rows of knowledge_items
          log,         \* knowledge_governance_events; entry v led to row version v
          archive,     \* knowledge_item_versions: the rows kept as snapshots
          tx,          \* the open two-step transaction on a row, if any
          now,         \* the clock
          overlapped   \* history: <<kind, {j, k}>> whose transactions overlapped

vars == <<item, log, archive, tx, now, overlapped>>

Row == [status : Statuses, payload : Payload,
        reviewer : Actors \cup {NoActor}, approver : Actors \cup {NoActor},
        public : BOOLEAN, effective : Times \cup {NoTime}, review : Times \cup {NoTime},
        version : Versions, previous : Versions, rowVersion : Nat]

ActionNames == {"seed", "update_content", "update_question_variants", "update_asr_terms",
                "start_revision", "start_revoked_revision", "submit_review",
                "complete_review", "approve", "publish", "return_draft", "revoke"}

Event == [action : ActionNames, by : Actors, to : Statuses, payload : Payload, seen : Payload]

TxKinds == {"publish", "update_question_variants"}
NoTx == [kind |-> "none"]
Tx == [kind : TxKinds, by : Actors, page : Nat, questions : SUBSET Questions]

TypeOK ==
  /\ item \in [Items -> Row]
  /\ log \in [Items -> Seq(Event)]
  /\ archive \in [Items -> SUBSET Row]
  /\ tx \in [Items -> Tx \cup {NoTx}]
  /\ now \in Times
  /\ overlapped \subseteq TxKinds \X SUBSET Items

-----------------------------------------------------------------------------
(* GovernancePolicy: the transition table, the roles, separation of duties *)

Transitions ==
  {<<"draft", "update_content", "draft">>,
   <<"draft", "update_question_variants", "draft">>,
   <<"draft", "update_asr_terms", "draft">>,
   <<"published", "start_revision", "draft">>,
   <<"revoked", "start_revoked_revision", "draft">>,
   <<"draft", "submit_review", "review">>,
   <<"review", "complete_review", "review">>,
   <<"review", "approve", "approved">>,
   <<"approved", "publish", "published">>,
   <<"review", "return_draft", "draft">>,
   <<"approved", "return_draft", "draft">>,
   <<"approved", "revoke", "revoked">>,
   <<"published", "revoke", "revoked">>}

ActionRoles(act) ==
  CASE act = "complete_review" -> {"reviewer"}
    [] act = "approve"         -> {"approver"}
    [] act = "publish"         -> {"publisher"}
    [] act = "return_draft"    -> {"reviewer", "approver"}
    [] act = "revoke"          -> {"revoker"}
    [] OTHER                   -> {"author"}

AuthorOnly == {"submit_review", "update_content", "update_question_variants",
               "update_asr_terms", "start_revision", "start_revoked_revision"}

\* Mutant: any publisher may publish.
SeparationOfDutiesLax(a, k, act) ==
  LET r == item[k] IN
  /\ act \in AuthorOnly => a = AuthorOf[k]
  /\ act = "complete_review" => a # AuthorOf[k] /\ r.reviewer = NoActor
  /\ act = "approve" => r.reviewer # NoActor /\ a \notin {AuthorOf[k], r.reviewer}
  /\ act = "publish" => a # AuthorOf[k]

\* The actor a return_draft is reserved to once somebody is assigned.
AssignedTo(r) == IF r.status = "review" THEN r.reviewer ELSE r.approver

SeparationOfDuties(a, k, act) ==
  LET r == item[k] IN
  /\ act \in AuthorOnly => a = AuthorOf[k]
  /\ act = "complete_review" => a # AuthorOf[k] /\ r.reviewer = NoActor
  /\ act = "approve" => r.reviewer # NoActor /\ a \notin {AuthorOf[k], r.reviewer}
  /\ act = "publish" => a \notin {AuthorOf[k], r.reviewer, r.approver}
  /\ act = "return_draft" => AssignedTo(r) \in {NoActor, a}

\* Mutant: the page's version is not compared.
CurrentAny(k, v) == TRUE

\* The stale-page check every operation makes under the row lock.
Current(k, v) == v = item[k].rowVersion

\* The row lock, the version check and GovernancePolicy.next_status.
Permitted(a, k, v, act) ==
  /\ tx[k] = NoTx
  /\ Current(k, v)
  /\ \E s \in Statuses : <<item[k].status, act, s>> \in Transitions
  /\ RolesOf[a] \cap ActionRoles(act) # {}
  /\ SeparationOfDuties(a, k, act)

\* The tail of every operation: row_version + 1 and one governance event.
\* v is the page the actor worked from, so log[k][v] is what the actor saw.
Save(a, k, v, act, row) ==
  /\ item[k].rowVersion < MaxRow
  /\ item' = [item EXCEPT ![k] = [row EXCEPT !.rowVersion = @ + 1]]
  /\ log' = [log EXCEPT ![k] =
               Append(@, [action |-> act, by |-> a, to |-> row.status,
                          payload |-> row.payload, seen |-> log[k][v].payload])]

-----------------------------------------------------------------------------
(* Draft editing *)

UpdateContent(a, k, v, c) ==
  /\ Permitted(a, k, v, "update_content")
  /\ c # item[k].payload.content
  /\ Save(a, k, v, "update_content", [item[k] EXCEPT !.payload.content = c])
  /\ UNCHANGED <<archive, tx, now, overlapped>>

UpdateAsrTerms(a, k, v, l) ==
  /\ Permitted(a, k, v, "update_asr_terms")
  /\ l # item[k].payload.lexicon
  /\ Save(a, k, v, "update_asr_terms", [item[k] EXCEPT !.payload.lexicon = l])
  /\ UNCHANGED <<archive, tx, now, overlapped>>

\* Mutant: only published items count.
QuestionConflictPublished(k, qs) ==
  \E j \in Items \ {k} :
    item[j].status = "published" /\ item[j].payload.questions \cap qs # {}

\* The committed question variants of the other items, read before the commit.
QuestionConflict(k, qs) ==
  \E j \in Items \ {k} : item[j].payload.questions \cap qs # {}

CheckQuestionVariants(a, k, v, qs) ==
  /\ Permitted(a, k, v, "update_question_variants")
  /\ ~ QuestionConflict(k, qs)
  /\ tx' = [tx EXCEPT ![k] = [kind |-> "update_question_variants", by |-> a,
                              page |-> v, questions |-> qs]]
  /\ UNCHANGED <<item, log, archive, now, overlapped>>

-----------------------------------------------------------------------------
(* Review, approval, publication *)

SubmitReview(a, k, v) ==
  /\ Permitted(a, k, v, "submit_review")
  /\ Save(a, k, v, "submit_review", [item[k] EXCEPT !.status = "review"])
  /\ UNCHANGED <<archive, tx, now, overlapped>>

CompleteReview(a, k, v) ==
  /\ Permitted(a, k, v, "complete_review")
  /\ Save(a, k, v, "complete_review", [item[k] EXCEPT !.reviewer = a])
  /\ UNCHANGED <<archive, tx, now, overlapped>>

Approve(a, k, v, effective, review) ==
  /\ Permitted(a, k, v, "approve")
  /\ review > effective
  /\ review > now
  /\ Save(a, k, v, "approve",
          [item[k] EXCEPT !.status = "approved", !.approver = a,
                          !.effective = effective, !.review = review])
  /\ UNCHANGED <<archive, tx, now, overlapped>>

WindowsOverlap(r, s) == r.effective <= s.review /\ s.effective <= r.review

LexiconsClash(l, m) ==
  \/ l.aliases \cap (m.aliases \cup m.canonical) # {}
  \/ l.canonical \cap m.aliases # {}

\* Mutant: the new item's own words are not compared with published aliases.
PublishConflictAliasesOnly(k) ==
  \E j \in Items \ {k} :
    /\ item[j].status = "published"
    /\ WindowsOverlap(item[k], item[j])
    /\ LexiconsClash([canonical |-> {}, aliases |-> item[k].payload.lexicon.aliases],
                     item[j].payload.lexicon)

\* _validate_asr_publish_conflicts: against the other rows committed as published.
PublishConflict(k) ==
  \E j \in Items \ {k} :
    /\ item[j].status = "published"
    /\ WindowsOverlap(item[k], item[j])
    /\ LexiconsClash(item[k].payload.lexicon, item[j].payload.lexicon)

CheckPublish(a, k, v) ==
  /\ Permitted(a, k, v, "publish")
  /\ ~ PublishConflict(k)
  /\ tx' = [tx EXCEPT ![k] = [kind |-> "publish", by |-> a, page |-> v, questions |-> {}]]
  /\ UNCHANGED <<item, log, archive, now, overlapped>>

FirstRelease == [major |-> 1, minor |-> 0, draft |-> FALSE]

\* Strip "-draft"; the very first publication becomes 1.0 whatever the draft was.
Released(r) ==
  IF ~ r.version.draft THEN r
  ELSE IF r.previous = NoVersion
       THEN [r EXCEPT !.previous = r.version, !.version = FirstRelease]
       ELSE [r EXCEPT !.version.draft = FALSE]

\* The pairs of open transactions of one kind that this commit is invisible to.
OverlapsOf(k) ==
  {<<tx[k].kind, {j, k}>> : j \in {i \in Items \ {k} : tx[i].kind = tx[k].kind}}

CommitPublish(k) ==
  /\ tx[k].kind = "publish"
  /\ Save(tx[k].by, k, tx[k].page, "publish",
          [Released(item[k]) EXCEPT !.status = "published", !.public = TRUE])
  /\ overlapped' = overlapped \cup OverlapsOf(k)
  /\ tx' = [tx EXCEPT ![k] = NoTx]
  /\ UNCHANGED <<archive, now>>

CommitQuestionVariants(k) ==
  /\ tx[k].kind = "update_question_variants"
  /\ Save(tx[k].by, k, tx[k].page, "update_question_variants",
          [item[k] EXCEPT !.payload.questions = tx[k].questions])
  /\ overlapped' = overlapped \cup OverlapsOf(k)
  /\ tx' = [tx EXCEPT ![k] = NoTx]
  /\ UNCHANGED <<archive, now>>

\* The flush or the commit fails: the session rolls back and frees the row.
Rollback(k) ==
  /\ tx[k] # NoTx
  /\ tx' = [tx EXCEPT ![k] = NoTx]
  /\ UNCHANGED <<item, log, archive, now, overlapped>>

-----------------------------------------------------------------------------
(* Return, revocation, revision *)

\* Mutant: the reset marks the row with the status of a lapsed item.
UnassignedExpired(r) ==
  [r EXCEPT !.status = "expired", !.public = FALSE, !.reviewer = NoActor,
            !.approver = NoActor, !.effective = NoTime, !.review = NoTime]

Unassigned(r) ==
  [r EXCEPT !.status = "draft", !.public = FALSE, !.reviewer = NoActor,
            !.approver = NoActor, !.effective = NoTime, !.review = NoTime]

ReturnDraft(a, k, v) ==
  /\ Permitted(a, k, v, "return_draft")
  /\ Save(a, k, v, "return_draft", Unassigned(item[k]))
  /\ UNCHANGED <<archive, tx, now, overlapped>>

Revoke(a, k, v) ==
  /\ Permitted(a, k, v, "revoke")
  /\ Save(a, k, v, "revoke", [item[k] EXCEPT !.status = "revoked", !.public = FALSE])
  /\ UNCHANGED <<archive, tx, now, overlapped>>

\* Mutant: any version may be bumped.
CanDraftNextAlways(version) == TRUE

\* _next_draft_version accepts only "major.minor" without a suffix.
CanDraftNext(version) == ~ version.draft
NextDraftVersion(version) == [version EXCEPT !.minor = @ + 1, !.draft = TRUE]

\* The unique constraint on (knowledge_id, version) of the archive.
Unarchived(k) == \A s \in archive[k] : s.version # item[k].version

Revise(a, k, v, act) ==
  /\ Permitted(a, k, v, act)
  /\ CanDraftNext(item[k].version)
  /\ Unarchived(k)
  /\ Save(a, k, v, act,
          [Unassigned(item[k]) EXCEPT !.previous = item[k].version,
                                      !.version = NextDraftVersion(item[k].version)])
  /\ archive' = [archive EXCEPT ![k] = @ \cup {item[k]}]
  /\ UNCHANGED <<tx, now, overlapped>>

\* Mutant: the deadline is not looked at.
StartRevisionEarly(a, k, v) == Revise(a, k, v, "start_revision")

StartRevision(a, k, v) ==
  /\ item[k].review <= now
  /\ Revise(a, k, v, "start_revision")

StartRevokedRevision(a, k, v) == Revise(a, k, v, "start_revoked_revision")

Tick ==
  /\ now < MaxTime
  /\ now' = now + 1
  /\ UNCHANGED <<item, log, archive, tx, overlapped>>

-----------------------------------------------------------------------------
NewRow(k) ==
  [status |-> "draft", payload |-> Seed[k], reviewer |-> NoActor, approver |-> NoActor,
   public |-> FALSE, effective |-> NoTime, review |-> NoTime,
   version |-> SeedVersion[k], previous |-> NoVersion, rowVersion |-> 1]

\* The seed files and the FAQ import create drafts at row version 1.  The first
\* log entry stands for the row as created; the code writes no event for it.
Init ==
  /\ item = [k \in Items |-> NewRow(k)]
  /\ log = [k \in Items |-> <<[action |-> "seed", by |-> AuthorOf[k], to |-> "draft",
                               payload |-> Seed[k], seen |-> Seed[k]]>>]
  /\ archive = [k \in Items |-> {}]
  /\ tx = [k \in Items |-> NoTx]
  /\ now = 0
  /\ overlapped = {}

\* One submitted form: actor a, item k, rendered at row version v.
Submit(a, k, v) ==
  \/ \E c \in Contents : UpdateContent(a, k, v, c)
  \/ \E l \in Lexicon : UpdateAsrTerms(a, k, v, l)
  \/ \E qs \in SUBSET Questions : CheckQuestionVariants(a, k, v, qs)
  \/ SubmitReview(a, k, v)
  \/ CompleteReview(a, k, v)
  \/ \E effective, review \in Times : Approve(a, k, v, effective, review)
  \/ CheckPublish(a, k, v)
  \/ ReturnDraft(a, k, v)
  \/ Revoke(a, k, v)
  \/ StartRevision(a, k, v)
  \/ StartRevokedRevision(a, k, v)

Next ==
  \/ \E a \in Actors, k \in Items : \E v \in 1 .. Len(log[k]) : Submit(a, k, v)
  \/ \E k \in Items : CommitPublish(k) \/ CommitQuestionVariants(k) \/ Rollback(k)
  \/ Tick

Spec == Init /\ [][Next]_vars
-----------------------------------------------------------------------------
(* What the lifecycle promises *)

\* The signatures a public answer needs, in order, each by another person.
Signatures == <<"submit_review", "complete_review", "approve", "publish">>

\* How many of them the row claims to have collected.
Collected(r) ==
  CASE r.status = "published" -> 4
    [] r.status = "approved"  -> 3
    [] r.status = "review"    -> IF r.reviewer = NoActor THEN 1 ELSE 2
    [] OTHER                  -> 0

\* The i-th of the last n events of item k.
LastEvent(k, n, i) == log[k][Len(log[k]) - n + i]

(***************************************************************************)
(* The audit trail backs what the row claims: an item in review, approved  *)
(* or published ends its event log with exactly the signatures its state   *)
(* needs, in order, given by the people the row names, all different, and  *)
(* every signer worked from a page that showed the very payload the row    *)
(* holds now.  It takes the locked status transitions, the version compare *)
(* against stale pages, the resets of return_draft and start_revision and  *)
(* the separation of duties together (governance.py, perform_action).      *)
(***************************************************************************)
SignedTrail ==
  \A k \in Items :
    LET n == Collected(item[k]) IN
    /\ Len(log[k]) = item[k].rowVersion
    /\ n < Len(log[k])
    /\ \A i \in 1 .. n :
         /\ LastEvent(k, n, i).action = Signatures[i]
         /\ LastEvent(k, n, i).seen = item[k].payload
         /\ \A j \in 1 .. n : j # i => LastEvent(k, n, i).by # LastEvent(k, n, j).by
    /\ n >= 1 => LastEvent(k, n, 1).by = AuthorOf[k]
    /\ n >= 2 => LastEvent(k, n, 2).by = item[k].reviewer
    /\ n >= 3 => LastEvent(k, n, 3).by = item[k].approver

\* What eligible_documents selects for the voice runtime at the present instant.
Eligible(k) ==
  /\ item[k].status = "published"
  /\ item[k].public
  /\ item[k].effective # NoTime /\ item[k].effective <= now
  /\ item[k].review # NoTime /\ now <= item[k].review

(***************************************************************************)
(* An answer that customers can hear leaves the runtime only because its   *)
(* review deadline has come or because it is revoked: no edit, return or   *)
(* early revision takes it offline (_apply_action, START_REVISION).        *)
(***************************************************************************)
OnlyDeadlineOrRevocationTakesOffline ==
  [][\A k \in Items :
       Eligible(k) /\ ~ Eligible(k)' =>
         \/ item'[k].status = "revoked"
         \/ now' >= item[k].review]_vars

(***************************************************************************)
(* The archive is evidence: every kept snapshot is a row that was public   *)
(* once, signed for the payload it holds by the people it names, under a   *)
(* version number that no other snapshot and no later row of the item uses *)
(* (so the unique constraint on the archive never rejects a revision).     *)
(***************************************************************************)
ArchiveHoldsReleases ==
  \A k \in Items : \A s \in archive[k] :
    /\ s.version # item[k].version
    /\ \A t \in archive[k] : t.version = s.version => t = s
    /\ \E i \in 1 .. Len(log[k]) :
         /\ log[k][i].action = "publish"
         /\ log[k][i].payload = s.payload
         /\ log[k][i - 1].by = s.approver
         /\ log[k][i - 2].by = s.reviewer

(***************************************************************************)
(* Every transaction that reads other items checks them before it commits, *)
(* so two published items whose runtime windows overlap contest an ASR     *)
(* alias only if both publications ran at the same time (the check runs    *)
(* under READ COMMITTED and locks only its own row).                       *)
(***************************************************************************)
AliasClashNeedsRace ==
  \A j, k \in Items :
    (/\ j # k /\ item[j].status = "published" /\ item[k].status = "published"
     /\ WindowsOverlap(item[j], item[k])
     /\ LexiconsClash(item[j].payload.lexicon, item[k].payload.lexicon))
    => <<"publish", {j, k}>> \in overlapped

(***************************************************************************)
(* ADR 0011: the same alias never belongs to two items in the runtime; the *)
(* system blocks the conflicting version when it is published.             *)
(***************************************************************************)
NoAliasClashInRuntime ==
  \A j, k \in Items :
    j # k /\ Eligible(j) /\ Eligible(k) =>
      ~ LexiconsClash(item[j].payload.lexicon, item[k].payload.lexicon)

(***************************************************************************)
(* Two items share a retrieval question only if they were created with it  *)
(* (the FAQ import warns and lets a person decide) or if two authors saved *)
(* at the same time (update_question_variants checks, then commits).       *)
(***************************************************************************)
SharedQuestionNeedsRaceOrImport ==
  \A j, k \in Items :
    j # k =>
      item[j].payload.questions \cap item[k].payload.questions
        \subseteq IF <<"update_question_variants", {j, k}>> \in overlapped
                  THEN Questions
                  ELSE Seed[j].questions \cap Seed[k].questions

(***************************************************************************)
(* The detail page offers every revoked item "create a revision draft", so *)
(* a revoked item can always be revised by its author.                     *)
(***************************************************************************)
RevokedItemCanBeRevised ==
  \A k \in Items : item[k].status = "revoked" => CanDraftNext(item[k].version)

-----------------------------------------------------------------------------
(* The lifecycle implements the public promise *)

LiveAnswer == [k \in Items |-> IF item[k].status = "published" THEN item[k].payload ELSE NoActor]
LiveSigners ==
  [k \in Items |-> IF item[k].status = "published"
                   THEN <<LastEvent(k, 4, 1).by, LastEvent(k, 4, 2).by,
                          LastEvent(k, 4, 3).by, LastEvent(k, 4, 4).by>>
                   ELSE <<>>]

PublicPromise == INSTANCE PublicAnswers
                   WITH Answers <- Payload, NoAnswer <- NoActor,
                        live <- LiveAnswer, signers <- LiveSigners

(***************************************************************************)
(* Every behaviour of rows, pages and transactions is, seen from outside,  *)
(* a behaviour of PublicAnswers: answers go live only over four different  *)
(* signatures and are never edited in place (perform_action and the three  *)
(* draft editing operations of repository.py).                             *)
(***************************************************************************)
ImplementsPublicAnswers == PublicPromise!Spec
=============================================================================
