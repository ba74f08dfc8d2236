# Verification of the securities voice assistant

TLA+ models of the parts of this repository whose correctness depends on the order in
which several actors act: administrators and their stale pages, database transactions,
request threads and a background worker, a browser page and the server that may or may
not hear from it again. The modules are checked with TLC on small instances; what
matters most is also proved with TLAPS for every instance.

Paths below are those of the repository. `KA` is `services/knowledge_admin/src/knowledge_admin`,
`ORCH` is `services/orchestrator/src/orchestrator`.

## 1. Inventory

| Component | State | Operations | Correct when |
|---|---|---|---|
| Knowledge governance (`KA/governance.py`, `KA/repository.py`) | `knowledge_items` rows with `row_version`, governance events, archived versions | 3 draft edits, `perform_action` with 8 actions, seeding | a public answer carries four different signatures on the very text it shows; it leaves the air only by revocation or deadline; the archive holds releases only |
| FAQ import (`KA/faq_import.py`) | import batches (preview, imported), the drafts and sources they create | `create_preview`, `import_drafts` | a batch accounts for its drafts, no duplicate answer or question slips in unseen, no sensitive text |
| Admin web UI (`KA/api.py`) | none; hidden `expected_version` in forms | one handler per operation | a stale form changes nothing |
| Shadow runner (`ORCH/shadow.py`) | known evidence, semaphore, executor queue | `submit`, `_run`, `_release`, `close` | no permit lost but to a shutdown in the middle of a submit, one job per evidence, failed evidence retried, accepted work finished |
| Shadow reviews (`packages/observability/.../shadow_review.py`) | one row per result key | `record`, `review`, metrics | a verdict is about the text shown and is final |
| Conversation store (`ORCH/conversation.py`) | OrderedDict of sessions | `history`, `append`, `clear` | a live call keeps its context, limits hold |
| Follow-up resolver (`ORCH/conversation.py`) | none | `resolve` | the referenced turn is one of the history |
| Voice turn handler (`ORCH/api.py`) | tasks of one request | `respond-stream`, DELETE, greeting, idle prompt | a turn is recorded once, only an abandoned one after its call |
| Voice page (`ORCH/static/*.js`) | session id, call, idle stage, reply, barge-in, playback | start, submit, barge-in, hang up, rotate | one reply at a time, timers never act on a later turn |
| Turn service (`ORCH/service.py`, `intent_routing.py`, `answering.py`) | none; one turn is several workers | preflight, resolve, prefetch, evaluate, record | sensitive text leaves nowhere, an answer is of published knowledge, every failure falls back to approved text |
| Policy and sensitive data guard (`packages/policy`) | none | `classify`, `scan` | hard rules win over conversation and models |
| Retrieval (`packages/retrieval`) | vector cache | eligibility query in two statements, lexical and hybrid search, warm-up | only eligible knowledge, version and questions belong together |
| Voice service, speech recovery, logs, diagnostics, evals | HTTP clients, write-only logs | I/O | out of the scope of a state model |

Interactions. Administrators post forms to the admin UI, which calls the governance
repository; the orchestrator reads the same tables through `eligible_documents`. An
approved answer found for a turn is handed to the Shadow runner, which writes the review
table that the admin UI reads and judges. The voice page calls `respond-stream`, which
reads and writes the conversation store, and sends a DELETE when a call ends. FAQ import
creates drafts that governance then edits, signs and publishes. A turn asks the follow-up
resolver, the policy, the intent router and the retrieval in that order; the resolver and
a prefetched route run beside each other, and the acknowledgement timer beside both.

What is hard: database transactions that read other rows (write skew), pages posted
late, callbacks that run on either of two threads, shutdown in the middle of a submit,
restarts with a durable review table, requests that outlive the browser that made them,
a DELETE that is lost or late, a page whose timers, clicks, sockets and reply streams all
write the same `voiceState`, and models that may fail or answer anything at every call.
`PROJECT.json` lists these hazards at their lines.

## 2. Modules

| Module | Models | Extends / uses |
|---|---|---|
| `PublicAnswers` | what governance promises, without rows and transactions | |
| `KnowledgeGovernance` | `governance.py`, `repository.py`, forms of `KA/api.py`, the eligibility predicate | instantiates `PublicAnswers` |
| `KnowledgeGovernanceProofs` | its types and its trail of signatures, proved | extends `KnowledgeGovernance` |
| `KnowledgeLifecycleProofs` | what the trail is good for, and the refinement, proved | extends `KnowledgeGovernanceProofs` |
| `ShadowReview` | the review table and the reviewers' pages | |
| `ShadowRunner` | `shadow.py` writing to that table | extends `ShadowReview` |
| `ShadowProofs` | theorems about both | extends `ShadowRunner` |
| `ConversationStore` | the context store | |
| `ConversationStoreProofs` | theorems about it | extends `ConversationStore` |
| `VoiceTurns` | page, turns, DELETEs over that store | extends `ConversationStore` |
| `VoiceTurnsProofs` | theorems about them | extends `VoiceTurns`, `ConversationStoreProofs` |
| `FaqImport` | `faq_import.py` with its two requests | |
| `FaqImportProofs` | theorems about it | extends `FaqImport` |
| `DomainPolicy` | `packages/policy`, the hard rules | |
| `FollowUps` | what an utterance refers to | extends `DomainPolicy` |
| `IntentRouting` | the structured router and when it decides | extends `DomainPolicy` |
| `KnowledgeSearch` | lexical and hybrid search, what a conversation adds, phonetic recovery | extends `FollowUps` |
| `AnswerComposition` | narrowing, choice of segments, output guard | extends `KnowledgeSearch` |
| `TurnService` | the turns of a session over all of these | extends `IntentRouting`, `AnswerComposition` |
| `TurnServiceProofs` | theorems about it | extends `TurnService` |
| `VoiceSession` | `voiceState` of `ORCH/static/pilot.js` | |
| `VoiceSessionProofs` | theorems about it | extends `VoiceSession` |
| `MC*` | instances for TLC | |

**KnowledgeGovernance.** `item[k]` is a row, `log[k]` its events: entry `v` led to row
version `v` and keeps the payload of that version, so `log[k][v].payload` is what an
administrator saw on a page rendered at version `v`. Entry 1 stands for the row as it
was created (the code writes no event for that). Any actor may post any form for any
version ever rendered, which covers every stale tab. An operation locks its row with
`SELECT ... FOR UPDATE`, so it is one step, except publishing and saving question
variants: these read *other* rows, so they are a check step and a commit step with the
row locked (`tx`) in between, and a rollback. `overlapped` remembers which transactions
ran at the same time. Draft payloads are a content, a set of normalised questions and a
lexicon. Versions are parsed: major, minor, draft suffix.

**ShadowReview / ShadowRunner.** A job goes through `reserved` (permit and evidence
taken under the lock), `queued` or `refused` (the executor is shut down: its permit and
evidence are never given back), `running`, `done` (ended
before the callback was attached), `releasing`, `returning`, `released`. The callback
runs on the worker, which then stays busy, or on the request thread. `Restart` drops
everything but the review rows and may change the model. A row is keyed by evidence and
model, or by evidence and "generation-error".

**ConversationStore / VoiceTurns.** The OrderedDict is its entries by id and the
relation of which id comes before which; moving an id to the end, purging and evicting
are what they do to that relation. A turn
remembers its session, its call, whether the browser aborted it, and what history it
read. A natural turn may be cancelled by the server once aborted, an exact one may not,
because it is evaluated before the response starts. The page keeps its session id over
a hang-up and changes it only by "clear conversation". A second DELETE, a farewell and
the lazy expiry may fall anywhere. A caller can talk over a reply only after its turn has
come through `record_session_turn`: the player exists from the `turn` event on. The text
form of the test page asks under the same session id, in a call or not, beside whatever is
spoken (`Type`); its request may fail in the browser (`LoseReply`) while the server goes
on. A reload of the page only starts another session id and is not modelled.

**FaqImport.** `tx[q]` is the transaction of request `q`. An upload reads the retrieval
questions and then the answers of the items there are, and inserts the batch; a
confirmation locks the batch and compares the answers, looks for ids and source, and
writes. Everything another request commits in between is visible to the later steps
only (READ COMMITTED), and the primary and unique keys end a transaction that lost.
`batches[b].known` remembers which items the preview had read, `overlapped` which
confirmations ran at the same time. What `_build_row` and the cross-row checks say of a
row is computed from the rows of the workbook; a workbook's bytes stand for whether it can
be read and what sheets it has.

**DomainPolicy, FollowUps, IntentRouting, KnowledgeSearch, AnswerComposition.** The pure
part of a turn, as operators. A text is a value; `Words`, `Phrases`, `Sounds`,
`TopicsAsked` say what the keyword lists and patterns find in it, so the modules keep the
order and the conditions of the decisions and leave out the matching. `Levels` lists what
`classify` looks at, in its order; the first non-empty level decides. Scores are
hundredths: 55 and 8 are the minimum and margin of the lexical search, 40 and 2 of the
hybrid one, 8, 5 and 2 the bonuses a conversation gives; a question of several texts is
never an exact match, only one that contains a retrieval question. A question that follows
another one is a sequence of parts. Every text has a length (`Size`) and beginnings of
every length (`Beginning`), which are texts with words of their own, so the cut at 1000
characters (`MaxLength`) may fall inside an utterance and leave a piece that means
something else (`Pieces`); the few words that join two questions are not counted. Of the
facts of an answer the output guard sees only those it recognises by their form
(`Recognised`); numbers in words, digits beside letters and unlisted terms pass it.
`Resolutions`, `Routes` and `SaidFrom` are everything a model may return and the code
accepts, with the fallback of every failure.

**TurnService.** `turn.stage` goes through `asked` (workers resolve and prefetch),
`judged` (policy and router), `reading` (between the two statements of
`eligible_documents`), `answered`, and back to idle when the turn is recorded or its
caller left. The acknowledgement timer may fire at any time before the answer. Governance
withdraws an item, edits its questions and publishes it again meanwhile; `public`
remembers which versions were public during the turn, `sent` which texts a model or the
embedding service was given. One turn is under way at a time: what overlapping turns do
to the session is `VoiceTurns`. Jobs for the Shadow runner are `ShadowRunner`. A
deployment without a knowledge repository finds nothing and cannot fail to read.

**VoiceSession.** `voice` is `voiceState` with the page it belongs to (`voiceTestMode`: the
test page greets, notices silence and closes its connection with the call; on the pilot
page one button starts, stops and interrupts), `busy` the call button being disabled;
`tasks` the asynchronous functions started so
far with the await each one is at, `sockets` the connections to the recogniser. Between
two awaits a function runs to its end, so an action is the code from one await to the
next, or one handler. Awaits that do not wait (`resume()` of an audio context that runs, a
settled promise) come before any other event (`Microtask`). `words` is
`partialTranscript`, `endpoint` the utterance whose grace period runs; both are kept as
what they would be taken for (noise, a question, words of an earlier question). What a
caller says in a grace period is merged with the question if the event that resumes it has
the text; a partial transcript after a bare start of speech replaces the question. `past`
remembers what the properties exempt: calls begun before the functions of the last one
were over, the silence after a greeting, which event dropped a question. The first call's
microphone permission is assumed to be answered and every reply stream to end.

## 3. Runs

| Run | Instance | Shows |
|---|---|---|
| `governance_signing` | 1 item, 4 people with every role, 2 contents, instants 0..2, row version up to 10 | types; `SignedTrail`; `ArchiveHoldsReleases`; `OnlyDeadlineOrRevocationTakesOffline`; `ImplementsPublicAnswers` |
| `governance_race` | 2 items, 4 people with one role each, 2 questions, 1 ASR word, instants 0..2, row version up to 5 | `AliasClashNeedsRace`, `SharedQuestionNeedsRaceOrImport` |
| `governance_alias_clash` | the same, instants 0..3, no questions | violation of `NoAliasClashInRuntime` |
| `governance_revoked` | as `governance_signing` | violation of `RevokedItemCanBeRevised` |
| `shadow_queue` | 2 evidences, 2 permits, 3 jobs a process, 1 restart, fairness | types, `PermitsLostOnlyToShutdown`, `OneJobPerEvidence`, `CachedOnlyWithReason`, `AcceptedJobSettles` |
| `shadow_reviews` | 1 evidence, 2 models, 2 texts, 2 reviewers, 2 jobs a process, 1 restart | `VerdictOnShownText`, `VerdictIsFinal` |
| `conversation_store` | 4 sessions for 3 places, 2 turns, time to live 2, clock to 5 | limits, `OldestUseFirst`, `LiveContextKept` |
| `voice_turns` | 1 page, 2 calls, 2 turns, 2 session ids for 1 place, time to live 1, clock to 2 | types, `OnlyAbandonedTurnsOutliveTheirCall`, `TurnsKeptInOrder` |
| `faq_import` | 2 requests, 2 batches, 2 authors and a third person, 3 workbooks, 1 edit | types, `SharedAnswerNeedsRaceOrEdit`, `BatchAccountsForDrafts`, `SharedQuestionWasShown`, `OnlyCleanTextsImported` |
| `turn_pipeline` | 8 utterances of 1 to 4 characters, questions of at most 3, 2 items of which one has a second version, 4 deployments, 3 endpoints, 1 exchange kept | types, `NothingSensitiveLeaves`, `HardRulesWin`, `AnswersWerePublished`, `TornReadNeedsEdit`, `JudgedOnWhatWasAsked`, `AcknowledgementFits`, `ShadowModesOnlyObserve` |
| `voice_session` | both pages, 2 calls, 3 times the caller starts to speak, 2 interruptions by the button, fairness | types, `OneReply`, `TimerOnlyInSilence`, `SilenceIsNoticed`, `StaleWordsNeedBargeIn`, `QuestionNotLostToSilence`, `QuietCallEnds` |
| `voice_isolation` | 1 page, 2 calls, 2 turns | violation of `EachCallReadsOnlyItself` |

Why the bounds are enough:

- Row version 10 is one full signing (4 steps after creation) with an edit, a revision
  and a second full signing; a return or a revocation costs the second one a step or
  two. Four people are the least that can publish at all. Two instants after 0 give a
  deadline in the past, at the present and in the future. One item suffices there,
  because no operation of that run reads another one.
- In the race runs an item reaches publication at row version 5 without spare steps;
  two items are enough for write skew, one contested word and one seeded and one new
  question for each kind of conflict. Windows that only touch are included.
- The Shadow runner has one worker, so two evidences with two permits and a third job
  give a running, a queued and a retried job at once; more permits add waiting jobs of
  the same kind.
- The store's least-recently-used order and limit need one session more than places.
- In `voice_turns` two turns within or across two calls are the least for an order and
  for a survivor of a call; the single place makes a rotation evict.

- In `faq_import` two requests and two batches are the least for a race; the first
  workbook has the same question in two rows and one that is seeded, the second repeats
  an answer of the first in another spelling and has every kind of row the preview
  rejects, the third cannot be read. The edit gives a draft another batch's answer.
- In `turn_pipeline` six utterances are one for each way through the turn: answered,
  unknown to the rules, a follow-up, refused, sensitive, and a name that sounds like two
  items. Two more ("reset", "resend") are harmless alone and hard together, as
  `POL-REFUSE-004` with its exception has it. With questions of three characters, a
  follow-up of two is kept whole, cut in the middle, or left out, and one to an utterance
  of four cuts that utterance. A session of one exchange already has a reference, its
  withdrawal and a chain of follow-ups. The four deployments have every mode of answer but
  `shadow_llm` (which answers as `exact`), every mode of router and analyzer, and one has
  no knowledge repository. The run has 1.3 million distinct states and takes two to three
  minutes.
- In `voice_session` one call is enough for a reply that is interrupted, noise and both
  stages of silence; the second call meets what the first one left behind. Speaking
  three times is a question, what is said over its reply, and more of either.

The bounds themselves are `MaxTime`, `MaxRow`, `MaxJobs`, `MaxRestarts`, `MaxClock`,
`MaxCalls`, `MaxAsked`, `MaxSpeech`, `MaxClicks`, `MaxBatches`, `MaxEdits`, `Requests`
(and one rotation of the session id per page); `Utterances` are the texts callers say;
`MaxPending`, `MaxTurns`, `TtlSeconds`, `MaxConversations`, `Window`, `MaxLength`, `MaxImportRows` and `MaxQuestions` are parameters of the
code, chosen small. Deadlock checking is off because these systems may rest: no
administrator acts, nobody calls, or a bound is reached. `turn_pipeline` has none of
these bounds and checks it. Symmetry is used for people other than the author,
evidences, texts, reviewers, sessions, and the authors and requests of an import, only
with safety properties. `governance_race` and `voice_turns` use a view that leaves out
variables no guard reads, the second also the reply mode and the history of turns that
need them no more.

Fairness is assumed in two runs. In `shadow_queue` the worker takes jobs while there are
any (`ThreadPoolExecutor`), a generation ends (the model client has a timeout), and a
request thread past the lock and a callback go on; submissions, closing, restarts and
reviewers are not fair. In `voice_session` the browser serves awaits, timers and close
events, a reply begins and ends, and the recogniser closes every utterance it has begun;
nobody has to click or to speak.

### What the failing runs show

- **governance_alias_clash.** Two publications overlap; each checks the rows committed
  as published, misses the other, and both commit. ADR 0011 promises the system blocks
  this. `AliasClashNeedsRace` says the overlap is the only way it happens.
- **governance_revoked.** An item revoked while approved, before its first release, has
  a version like `0.1-draft` that `_next_draft_version` rejects, although the page
  offers "建立修訂草稿" for every revoked item.
- **voice_isolation.** The next call of a page uses the same session id, and the DELETE
  that should have cleared it may be lost, late, or overtaken by a turn that is still
  being recorded.

### What the passing runs exempt

Several properties name the one way in which a promise fails, and the run shows it is the
only one:

- `SharedAnswerNeedsRaceOrEdit`: two batches confirmed at the same time import the same
  answer twice. Questions are not compared again at the confirmation at all
  (`SharedQuestionWasShown` speaks only of items the preview had read).
- `TornReadNeedsEdit`: an item withdrawn, edited and published again between the two
  statements of a read is answered in its old version by a question of the new one.
- `JudgedOnWhatWasAsked`: where the question before it and the utterance exceed the limit
  together, the policy is asked about a piece of the utterance, or not about it at all
  (`conversation.py` 379).
- `HardRulesWin`: the policy's result for a resolved question counts only when it allows
  (`service.py` 306-309), so a question it would refuse may still be answered, by the rule
  of the bare utterance or through a controlled router. Three ways lead there: an
  analyzer's rewrite, a cut, and two utterances that are harmless alone (a question on
  passwords, then 直接補發) but not together.
- `NothingSensitiveLeaves`: a rewrite is not scanned for sensitive data, and neither is the
  piece a cut leaves of an utterance that was scanned whole (`Rewrites`, `Pieces`).
- `AnswersWerePublished`: the guard compares only the facts it recognises
  (`answering.py` 511-579), so a number in words that the approved text lacks may be said.
- `AcknowledgementFits`: a caller whom the router, a default refusal or missing knowledge
  turns away may have been told to wait; only the guard and the hard rules are asked first.
- `ShadowModesOnlyObserve`: a failed router replaces `POL-DEFAULT-DENY` by
  `SYS-INTENT-ROUTER-ERROR`, also in shadow mode, which ADR 0004:17 says changes no
  decision.
- `SilenceIsNoticed`, `QuietCallEnds`: after the greeting the timer of the silence is
  asked for while the greeting still counts as a reply (`pilot.js` 977, 1398), so it never
  starts; a caller who says nothing after the greeting is never asked and the call never
  ends, against ADR 0006:35.
- `PermitsLostOnlyToShutdown`: a submission that falls into the shutdown takes its permit
  and its evidence with it (`shadow.py` 66-70).
- `TurnsKeptInOrder`: a turn that was given up, by hanging up or because a typed question's
  request failed, may be kept behind a later one; a spoken and a typed turn may overlap
  and be kept either way round.
- `StaleWordsNeedBargeIn`: what is said over a reply is merged with the words of the
  question before it (`pilot.js` 873).
- `QuestionNotLostToSilence`: silence never drops a finished question, but the end of the
  playback it interrupts, a click on the pilot page, a noise taken for more of it, or more
  speech does (959, 865, 822).
- `OneReply`, `TimerOnlyInSilence`, `SilenceIsNoticed`, `StaleWordsNeedBargeIn`: not for a call begun while
  functions of the last one are still waiting. Hanging up and calling again while the microphone is asked for starts
  two greetings, a late close of the old connection ends or disturbs the new call (943), and
  the greeting's `finally` clears the controller of the reply that follows it (1398).

Also noticed, without a run of their own:

- ADR 0006:20 promises that what a caller adds in the grace period is merged with the
  question that waits. That is so when the event that resumes it carries text. After a
  `speech_start` the question is only back in `partialTranscript` (`pilot.js` 848, 118),
  and the next partial transcript replaces it (822), unless the recogniser repeats what it
  has already ended. `Speaks` has both outcomes; `past.lost` then has "more speech".
- The README speaks of four turns kept where the store keeps eight; at the very instant
  of the review deadline an item is both eligible for the runtime and open to a new draft
  (`>=` in the query, `>` in the check).
- ADR 0004:18 says a risky classification can only refuse or hand off; the router allows
  it as `LLM-ALLOW-RISK-NOTED-001` (`service.py` 549). ADR 0012:21 says recent knowledge
  must still reach the retrieval's threshold; `CTX-FOLLOW-UP-001` answers from it
  unsearched (`service.py` 610-633).
- A confirmation that finds the answer imported meanwhile asks for a new preview
  (`faq_import.py` 488), but uploading the same file returns the old batch (381). Rows
  left out of a confirmation can never be imported from the same file, and another
  administrator who uploads it gets a batch only the first one may confirm.

## 4. Proofs

TLAPS proves the following for every value of the constants that satisfies the named
assumption of the module. Each theorem is `Spec => []P` (or `Spec => P` for an action
property) for the very `P` that a run of section 3 checks; the run shows that `P` is worth
proving on an instance where its cases happen, the theorem that nothing depends on the
size of the instance.

| Module | Theorem | States | Invariant |
|---|---|---|---|
| `KnowledgeGovernanceProofs` | `TypeCorrect`, `TrailBacksEveryRow` | `TypeOK`, `SignedTrail` | `IInv` |
| `KnowledgeLifecycleProofs` | `OfflineByDeadlineOrRevocation` | `OnlyDeadlineOrRevocationTakesOffline` | `IInv` |
| | `ArchiveIsEvidence` | `ArchiveHoldsReleases` | `IInv`, `ReleaseInv` |
| | `SequentialPublicationsNeverClash` | `AliasClashNeedsRace` | `IInv`, `RaceInv` |
| | `SequentialEditsNeverShare` | `SharedQuestionNeedsRaceOrImport` | `IInv`, `ShareInv` |
| | `LifecycleImplementsPromise` | `ImplementsPublicAnswers` | `IInv` |
| `FaqImportProofs` | `FaqTypeCorrect`, `BatchesAccountForDrafts`, `SharedAnswersOverlapped`, `ImportsAreClean`, `SharedQuestionsWereShown` | `FaqTypeOK`, `BatchAccountsForDrafts`, `SharedAnswerNeedsRaceOrEdit`, `OnlyCleanTextsImported`, `SharedQuestionWasShown` | `FaqInv` |
| `ShadowProofs` | `ShadowTypeCorrect`, `PermitsAreAccounted`, `EvidenceRunsOnce`, `CachedHasReason`, `VerdictsOnShownText`, `VerdictsAreFinal` | `TypeOK`, `PermitsLostOnlyToShutdown`, `OneJobPerEvidence`, `CachedOnlyWithReason`, `VerdictOnShownText`, `VerdictIsFinal` | `ShadowInv` |
| `ConversationStoreProofs` | `StoreWithinLimits`, `EvictionTakesTheOldest`, `LiveCallsKeepContext` | `StoreTypeOK`, `OldestUseFirst`, `LiveContextKept` | `StoreInv` |
| `VoiceTurnsProofs` | `VoiceTypeCorrect`, `HeardTurnsEndWithTheirCall`, `SpokenTurnsStayInOrder` | `TypeOK`, `OnlyAbandonedTurnsOutliveTheirCall`, `TurnsKeptInOrder` | `VoiceInv` |
| `TurnServiceProofs` | `TurnTypeCorrect`, `SensitiveDataStays`, `HardRulesDecide`, `OnlyPublishedIsAnswered`, `TornReadsAreOfThisTurn`, `UtteranceIsJudged`, `ShadowsOnlyObserve`, `AcknowledgementsFit` | `TypeOK`, `NothingSensitiveLeaves`, `HardRulesWin`, `AnswersWerePublished`, `TornReadNeedsEdit`, `JudgedOnWhatWasAsked`, `ShadowModesOnlyObserve`, `AcknowledgementFits` | `TurnInv` |
| `VoiceSessionProofs` | `PageTypeCorrect`, `RepliesCanBeStopped`, `TimerRunsInSilenceOnly`, `SilencesAreNoticed`, `StaleWordsOnlyAfterBargeIn`, `SilenceTakesNoQuestion` | `TypeOK`, `OneReply`, `TimerOnlyInSilence`, `SilenceIsNoticed`, `StaleWordsNeedBargeIn`, `QuestionNotLostToSilence` | `PageInv` |

Every proof has the same shape: the initial states satisfy the invariant, one lemma per
action shows that the action keeps it, and the invariant implies the property; the last
step is propositional temporal logic. What differs is why the property alone is not
inductive:

- **Signing trail** (`IInv == TypeOK /\ LogMatches /\ DraftUnassigned /\ TxHeld /\
  Trails`). When `CommitPublish` adds the fourth signature, nothing in `SignedTrail` says
  that the publisher, checked one step earlier, still differs from the signers, or that
  the page the publisher used is still current; when `SubmitReview` adds the first, that
  the page showed the payload of the row; when a row is reset, that its reviewer is
  unset. `LogMatches` (the log has as many entries as the row version and its last one
  carries the row's payload), `DraftUnassigned` and `TxHeld` (what an open transaction has
  checked still holds while it keeps the lock) say so.
- **Lifecycle.** `StepKinds` classifies every step as one of eight effects on one item, so
  the other theorems need not go through every form and commit again. The archive needs
  that release numbers only grow (`Numbered`, `ArchiveOrdered`), the two race properties
  that what a transaction compared before its commit stays true of all items that did not
  commit in between (`PublishChecked`, `QuestionsChecked`). The refinement maps each kind of
  step to a step of `PublicAnswers` or a stutter; that an approval signs for the text that
  is released rests on the trail.
- **FAQ import** (`FaqInv`). The confirmation compares answers in one step and writes in
  another; `AnswersChecked` says what that comparison still guarantees when the write
  comes, namely that whatever it missed overlaps it. `Preview` ties every batch to its
  file, and `LocksDistinct` says that two confirmations never hold the same batch.
- **Shadow** (`ShadowInv`). That a permit is lost only by a refusal needs that refusals
  come after the shutdown (`RefusedAtShutdown`) and that a job has one place at a time; that they add up needs the queue to number waiting jobs,
  each once; that evidence runs once needs the evidence of an outstanding job to be
  known; a final verdict needs an open page to show a row that is still there.
- **Store** (`StoreInv`). `LiveContextKept` speaks of the *time* and the *set* of later
  uses, an eviction of the *place* in the dictionary; `Noted` says that whoever comes after
  a session was used since, and then counting does the rest (`Evicted` keeps the last
  `MaxConversations - 1`). `FirstExists` and the counting lemmas are proved by
  well-foundedness of the naturals, since the provers cannot use the induction theorems.
- **Voice turns** (`VoiceInv`). The page waits for one spoken and one typed turn at a time
  and for none spoken in a call that is over (`Asked`). A spoken turn the server is not
  done with is the last of its call, and only hanging up gives it up (`InProgress`): that
  is what keeps the turns of one call in order although an aborted turn may still be
  recorded.
- **Turns** (`TurnInv`). Preflight, resolver, policy and retrieval each look for
  themselves and never compare notes. The invariant carries what one of them has found to
  where another needs it: what an exchange of the session may hold (`SoundExchange`: no
  detected text, and a turn with knowledge was not turned away, unless an analyzer wrote
  it or a cut left it), what the resolver may make of it, that a policy result of a hard rule is the
  preflight's, and that the rows of the first SQL statement were public in that version
  during this turn.
- **Voice page** (`PageInv`). Nothing in the code says which of its asynchronous functions
  may be under way together; `OneReply` holds only because a handler that could start a
  second one finds a flag the first has set. The invariant says so from both sides: an
  orderly session has at most one function that is neither over nor aborted (`OneCurrent`),
  the flags, the controller and the player are its own (`Kept`), and while the page listens
  it is a reply that is talked over, or is about to listen (`Silence`). The order of microtasks
  before events enters through the connections (`SocketsOK`): a function resumes only when
  none waits for a connection that is settled already, so a promise that failed is noticed
  before anybody asks for another one. `Flags`, `TasksOK`, `SocketsOK` and `EndpointOK` hold
  in every session, `OrderlyOK` in one where no call is begun over the functions of the
  last; `QuestionNotLostToSilence` needs only the former.

Assumptions on the constants. Most only type them. These say more:

- `GovernanceAssumption`: the null of the reviewer columns is neither a person nor a
  payload.
- `FaqAssumption`: questions with the same key are both empty of words or neither is, as
  the key is made of the words (`KA/faq_import.py` 904-909).
- `VoiceAssumption`: two pages never have a session id in common (`crypto.randomUUID`,
  `ORCH/static/pilot.js` 134).
- `ServiceAssumption`: every item has at least one approved version, which is what put it
  into the database of a turn.

- `FollowUpAssumption`: the first `n` characters of a longer text have length `n`, and an
  analyzer writes no more than `MaxLength` characters (`ORCH/conversation.py` 70).

`NothingSensitiveLeaves` and `HardRulesWin` except what the semantic analyzer writes
itself (`Rewrites`) and what a cut leaves (`Pieces`), because no code scans that.

Only model-checked:

- Liveness (`AcceptedJobSettles`, `QuietCallEnds`): fairness is out of the prover's reach.
- The three runs that expect a violation: TLC's counterexample is the result.

## 5. Not modelled

- Text matching and similarity (keyword lists, patterns, lexical overlap, cosine, phonetic
  distance, phrase and length checks of the output guard): functions of strings, which
  enter as constants. The XML of a workbook enters as its rows.
- The vector cache: keyed by version and text, so nothing stale can be read from it.
- Audio: WAV framing, sentence splitting, synthesis, capture, the queue of chunks and the
  loudness of a barge-in candidate: bytes and samples. A candidate that is not confirmed
  changes only the volume.
- Subtitles, status lines, the reload of a page; rendering and
  parsing of the admin forms.
- Logs and diagnostics: write-only, or independent probes. Migrations, configuration,
  evaluation scripts: no behaviour at run time.
- Two hazards of governance: the clock read before the lock is waited for, and the unique
  constraint met in the middle of saving swapped question variants.
- Liveness of a turn: every stage has a timeout in the code, but the evaluation's many
  outcomes make fairness over it too expensive for TLC.

## 6. Plan

1. *Done:* governance, Shadow, store, voice turns, FAQ import, the turn pipeline, the voice
   page; every invariant and action property the runs check, and the refinement, proved.
2. *Next proofs:* abstract specifications beside `PublicAnswers`, and that the modules
   implement them: the store as the map of the sessions used last that outlive their time,
   the review table as verdicts that are given once, the page as a session with at most
   one function in charge.
3. *Next models, where the runs leave room:* the swap of question variants, the clock of a
   request.
