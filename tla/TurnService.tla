---------------------------- MODULE TurnService ----------------------------
(***************************************************************************)
(* The turns of one session, from the utterance to the recorded answer.    *)
(*                                                                         *)
(* A natural turn resolves what the utterance refers to in one worker and  *)
(* asks the intent router about the bare utterance in another; then a      *)
(* third evaluates the turn: policy, context, router, retrieval from the   *)
(* database in two statements, composition, and the answer is recorded in  *)
(* the session.  An exact turn is only evaluated.  Meanwhile the knowledge *)
(* governance withdraws items, edits them and publishes them again.        *)
(*                                                                         *)
(* Language models, the embedding service and the database may fail at     *)
(* every call, and a model may return anything its schema allows.          *)
(***************************************************************************)
EXTENDS IntentRouting, AnswerComposition

CONSTANTS Utterances,  \* texts that callers say; the others are rewrites and pieces
          Configs,     \* modes of a deployment, and whether it has a knowledge repository
          Endpoints,   \* channel and reply mode of the requests
          MaxTurns,    \* exchanges the session keeps
          Changing,    \* items that governance works on during the run
          Questions,   \* per id: the retrieval questions of version 1
          Edited       \* question lists an edit may leave

ASSUME ServiceAssumption ==
  /\ Utterances \subseteq Texts
  /\ Configs \subseteq [answer : {"exact", "shadow_llm", "controlled_llm", "fixed_message"},
                        router : {"disabled", "shadow", "controlled"},
                        semantic : {"disabled", "shadow", "controlled"},
                        knowledge : BOOLEAN]
  /\ Endpoints \subseteq {"web", "voice"} \X {"natural", "exact"}
  /\ MaxTurns \in Nat \ {0}
  /\ Changing \subseteq Ids
  /\ \A id \in Ids : Approved[id] # <<>>     \* each item was published once
  /\ Questions \in [Ids -> SUBSET Texts] /\ Edited \subseteq SUBSET Texts

VARIABLES config,    \* the settings of the process
          items,     \* per id: what the database holds
          history,   \* the exchanges of the session, oldest first
          turn,      \* the turn under way
          sent,      \* history: texts a model or service was given during the turn
          public,    \* history: <<id, version>> that were public during the turn
          edited     \* history: ids edited between the two statements of the turn

vars == <<config, items, history, turn, sent, public, edited>>

Versions(id) == DOMAIN Approved[id]
Item == [live : BOOLEAN, version : Nat, questions : SUBSET Texts, signed : SUBSET Texts]

NoConversation == [kind |-> "none"]
IdleTurn == [stage |-> "idle"]

Live == {id \in Ids : items[id].live}
PublicNow == {<<id, items[id].version>> : id \in Live}
Query(conv, u) == IF conv.kind = "none" THEN <<u>> ELSE conv.query
Recalled == UNION {Parts(history[i].query) : i \in DOMAIN history}
Shown == UNION {Parts(history[i].query) : i \in {i \in DOMAIN history : i > Len(history) - Window}}

Busy == turn.stage # "idle"
Reached(stage) == turn.stage = stage

TypeOK ==
  /\ config \in Configs
  /\ \A id \in Ids : items[id] \in Item /\ items[id].version \in Versions(id)
  /\ Len(history) <= MaxTurns
  /\ \A i \in DOMAIN history :
       /\ Len(history[i].query) = 1 \/ Length(history[i].query) \in 1 .. MaxLength
       /\ Parts(history[i].query) \subseteq Texts /\ history[i].id \in Ids \cup {NoId}
  /\ turn.stage \in {"idle", "asked", "judged", "reading", "answered"}
  /\ sent \subseteq Texts
  /\ public \subseteq Ids \X Nat /\ edited \subseteq Ids
  /\ Busy \/ (sent = {} /\ public = {})
  /\ Reached("reading") \/ edited = {}

Init ==
  /\ config \in Configs
  /\ items = [id \in Ids |-> [live |-> TRUE, version |-> 1,
                              questions |-> Questions[id], signed |-> Questions[id]]]
  /\ history = <<>>
  /\ turn = IdleTurn
  /\ sent = {} /\ public = {} /\ edited = {}

-----------------------------------------------------------------------------
(* The request *)

SensitiveResult == Result("refuse", "sensitive_data_detected", "PII-001")

\* preflight: what is known of an utterance before any worker starts.
Preflight(u) == IF u \in Sensitive THEN SensitiveResult ELSE Classify(<<u>>)

\* Mutant: whatever takes long is acknowledged.
AllowsAcknowledgementAlways(first) == TRUE

AllowsAcknowledgement(first) == first # SensitiveResult /\ ~ Hard(first)

\* natural_answer_available: not in fixed message mode.  Only the voice
\* endpoint prefetches a route.
Ask(u, channel, reply) ==
  /\ ~ Busy
  /\ reply = "natural" => config.answer # "fixed_message"
  /\ turn' = [stage |-> "asked", said |-> u, channel |-> channel, first |-> Preflight(u),
              ack |-> "none",
              conv |-> IF reply = "natural" THEN [kind |-> "pending"] ELSE NoConversation,
              known |-> [route |-> IF reply = "natural" /\ channel = "voice" THEN PendingRoute
                                   ELSE NoRoute]]
  /\ public' = PublicNow
  /\ UNCHANGED <<config, items, history, sent, edited>>

\* resolve_conversation in its worker.
Resolve ==
  /\ Reached("asked") /\ turn.conv.kind = "pending"
  /\ \E conv \in Resolutions(turn.said, history, config.semantic) : turn' = [turn EXCEPT !.conv = conv]
  /\ sent' = sent \cup (IF AsksAnalyzer(turn.said, history, config.semantic)
                        THEN {turn.said} \cup Recalled ELSE {})
  /\ UNCHANGED <<config, items, history, public, edited>>

\* prefetch_intent_route in its worker.
Prefetch ==
  /\ Reached("asked") /\ turn.known.route.status = "pending"
  /\ IF turn.first = SensitiveResult \/ ~ CanUseRouter(config.router, turn.first)
     THEN /\ turn' = [turn EXCEPT !.known = [route |-> NoRoute]]
          /\ UNCHANGED sent
     ELSE /\ \E route \in Routes : turn' = [turn EXCEPT !.known = [route |-> route]]
          /\ sent' = sent \cup {turn.said}
  /\ UNCHANGED <<config, items, history, public, edited>>

\* The acknowledgement timer of a natural voice turn runs out before the turn
\* has its answer; what is said depends on what the resolver knows by then.
Acknowledge ==
  /\ turn.stage \in {"asked", "judged", "reading"}
  /\ turn.channel = "voice" /\ turn.conv.kind # "none"
  /\ turn.ack = "none" /\ AllowsAcknowledgement(turn.first)
  /\ turn' = [turn EXCEPT !.ack = CASE turn.conv.kind = "pending" -> "context_confirmation"
                                    [] turn.conv.kind = "new_question" -> "knowledge_lookup"
                                    [] OTHER -> "follow_up_explanation"]
  /\ UNCHANGED <<config, items, history, sent, public, edited>>

-----------------------------------------------------------------------------
(* Evaluation *)

Prepared == turn.conv.kind # "pending" /\ turn.known.route.status # "pending"

\* Which question the policy is asked about, and its deterministic result.
InContext == turn.conv.kind \in {"elaborate", "rephrase"} /\ CanApplyContext(turn.first)
Question == IF InContext THEN turn.conv.query ELSE <<turn.said>>
WithoutRouter ==
  IF ~ InContext THEN turn.first
  ELSE LET contextual == Classify(turn.conv.query)
       IN  IF contextual.action = "allow" THEN contextual ELSE turn.first

\* A turn goes on with what is still needed of what it found out.
Goes(stage, known) == [turn EXCEPT !.stage = stage, !.known = known]
Replied(reply) == Goes("answered", [reply |-> reply])
Refusal(decision, rule) == Replied([decision |-> decision, rule |-> rule, id |-> NoId])

RefuseSensitive ==
  /\ Reached("asked") /\ Prepared /\ turn.first = SensitiveResult
  /\ turn' = Refusal("refuse", SensitiveResult.rule)
  /\ UNCHANGED <<config, items, history, sent, public, edited>>

\* Risk flags of a route that was used forbid answering from the reference.
MayRefer(route) ==
  ~ (route.status = "classified" /\ Decisive(config.router, route) /\ route.flag # "none")

\* The policy, then the router with the prefetched route where it can serve.
Judge ==
  /\ Reached("asked") /\ Prepared /\ turn.first # SensitiveResult
  /\ LET result == WithoutRouter
         usable == CanUseRouter(config.router, result)
         served == Reusable(turn.known.route, Question = <<turn.said>>)
         routes == IF ~ usable THEN {NoRoute} ELSE IF served THEN {turn.known.route} ELSE Routes
     IN  /\ \E route \in routes :
              turn' = Goes("judged",
                           [question |-> Question, mayRefer |-> MayRefer(route),
                            policy |-> IF usable THEN Routed(config.router, result, route)
                                       ELSE result])
         /\ sent' = sent \cup (IF usable /\ ~ served THEN Parts(Question) ELSE {})
  /\ UNCHANGED <<config, items, history, public, edited>>

Reject ==
  /\ Reached("judged") /\ turn.known.policy.action # "allow"
  /\ turn' = Refusal(turn.known.policy.action, turn.known.policy.rule)
  /\ UNCHANGED <<config, items, history, sent, public, edited>>

FixedMessage ==
  /\ Reached("judged") /\ turn.known.policy.action = "allow" /\ config.answer = "fixed_message"
  /\ turn' = Refusal("refuse", "SYS-FIXED-001")
  /\ UNCHANGED <<config, items, history, sent, public, edited>>

Answerable == Reached("judged") /\ turn.known.policy.action = "allow" /\ config.answer # "fixed_message"

\* The first statement of eligible_documents: the items; none without a
\* repository.
ReadItems ==
  /\ Answerable
  /\ turn' = Goes("reading", [policy |-> turn.known.policy, mayRefer |-> turn.known.mayRefer,
                              rows |-> IF config.knowledge THEN PublicNow ELSE {}])
  /\ UNCHANGED <<config, items, history, sent, public, edited>>

\* Either statement fails.
KnowledgeUnavailable ==
  /\ config.knowledge /\ (Answerable \/ Reached("reading"))
  /\ turn' = Refusal("refuse", "KNO-002")
  /\ edited' = {}
  /\ UNCHANGED <<config, items, history, sent, public>>

\* Mutant: the questions come from what an earlier read kept.
DocumentsOfFirstRead(rows) ==
  {[id |-> row[1], version |-> row[2], questions |-> Questions[row[1]]] : row \in rows}

\* The documents the second statement completes.
Documents(rows) ==
  {[id |-> row[1], version |-> row[2], questions |-> items[row[1]].questions] : row \in rows}

\* What each outcome of the retrieval may become.
Replies(outcome) ==
  CASE outcome.kind = "none"    -> {[decision |-> "refuse", rule |-> "KNO-001", id |-> NoId]}
    [] outcome.kind = "clarify" -> {[decision |-> "clarify", rule |-> "ASR-ALIAS-002", id |-> NoId]}
    [] OTHER ->
         LET doc == outcome.doc
             segments == Approved[doc.id][doc.version]
         IN  [decision : {"answer"}, rule : {outcome.rule}, id : {doc.id}, version : {doc.version},
              matched : {doc.questions}, torn : {doc.id \in edited},
              facts : IF turn.conv.kind = "none" THEN ExactAnswers(segments, config.answer)
                      ELSE NaturalAnswers(segments, turn.said, turn.conv)]

\* The second statement, retrieval and composition.
Answer ==
  /\ Reached("reading")
  /\ LET docs == Documents(turn.known.rows)
         outcomes == UNION {Retrieved(turn.said, turn.channel, turn.conv, turn.known.policy,
                                      turn.known.mayRefer, docs, history, e)
                            : e \in [1 .. 3 -> BOOLEAN]}
     IN  \E outcome \in outcomes : \E reply \in Replies(outcome) : turn' = Replied(reply)
  /\ sent' = sent \cup {turn.said} \cup Parts(Query(turn.conv, turn.said))
                 \cup (IF turn.conv.kind \in {"elaborate", "rephrase"} THEN Shown ELSE {})
  /\ edited' = {}
  /\ UNCHANGED <<config, items, history, public>>

-----------------------------------------------------------------------------
(* The session *)

\* Mutant: one exchange too many.
KeptOneMore(h, exchange) == SubSeq(Append(h, exchange), Max({1, Len(h) + 1 - MaxTurns}), Len(h) + 1)

\* The store drops the exchanges beyond its limit, oldest first.
Kept(h, exchange) == SubSeq(Append(h, exchange), Max({1, Len(h) + 2 - MaxTurns}), Len(h) + 1)

\* Mutant: every turn is kept.
RecordAlways ==
  /\ Reached("answered")
  /\ history' = Kept(history, [query |-> Query(turn.conv, turn.said), id |-> turn.known.reply.id])
  /\ turn' = IdleTurn
  /\ sent' = {} /\ public' = {}
  /\ UNCHANGED <<config, items, edited>>

\* record_session_turn.
Record ==
  /\ Reached("answered")
  /\ history' = IF turn.known.reply.rule = "PII-001" THEN history
                ELSE Kept(history, [query |-> Query(turn.conv, turn.said), id |-> turn.known.reply.id])
  /\ turn' = IdleTurn
  /\ sent' = {} /\ public' = {}
  /\ UNCHANGED <<config, items, edited>>

\* The caller of a natural voice turn goes away: what is under way is cancelled
\* and not recorded.  The other endpoints run to their end.
Disconnect ==
  /\ Busy /\ turn.channel = "voice" /\ turn.conv.kind # "none"
  /\ turn' = IdleTurn
  /\ sent' = {} /\ public' = {} /\ edited' = {}
  /\ UNCHANGED <<config, items, history>>

\* The call ends, or the store forgets the session.
Forget ==
  /\ ~ Busy /\ history # <<>>
  /\ history' = <<>>
  /\ UNCHANGED <<config, items, turn, sent, public, edited>>

-----------------------------------------------------------------------------
(* Knowledge governance, as far as a reader sees it *)

Touched(id) == IF Reached("reading") THEN edited \cup {id} ELSE edited

Withdraw(id) ==
  /\ items[id].live
  /\ items' = [items EXCEPT ![id].live = FALSE]
  /\ UNCHANGED <<config, history, turn, sent, public, edited>>

EditQuestions(id) ==
  /\ ~ items[id].live
  /\ \E questions \in Edited \ {items[id].questions} :
       items' = [items EXCEPT ![id].questions = questions]
  /\ edited' = Touched(id)
  /\ UNCHANGED <<config, history, turn, sent, public>>

PublishNext(id) ==
  /\ ~ items[id].live
  /\ items[id].version + 1 \in Versions(id)
  /\ items' = [items EXCEPT ![id] = [live |-> TRUE, version |-> @.version + 1,
                                     questions |-> @.questions, signed |-> @.questions]]
  /\ public' = IF Busy THEN public \cup {<<id, items[id].version + 1>>} ELSE public
  /\ UNCHANGED <<config, history, turn, sent, edited>>

Step == Resolve \/ Prefetch \/ RefuseSensitive \/ Judge \/ Reject \/ FixedMessage
          \/ ReadItems \/ KnowledgeUnavailable \/ Answer \/ Record

Next ==
  \/ \E u \in Utterances, endpoint \in Endpoints : Ask(u, endpoint[1], endpoint[2])
  \/ Step
  \/ Acknowledge \/ Disconnect \/ Forget
  \/ \E id \in Changing : Withdraw(id) \/ EditQuestions(id) \/ PublishNext(id)

Spec == Init /\ [][Next]_vars

-----------------------------------------------------------------------------
(* Properties *)

(* What the sensitive data guard detects in an utterance reaches no model,  *)
(* no embedding service and, through the session, no later question: it is  *)
(* scanned in three places (service.py 404, conversation.py 388, api.py     *)
(* 318), in workers that do not wait for each other.  Not scanned again are *)
(* what the analyzer writes (conversation.py 440-448) and the piece a cut   *)
(* leaves of an utterance that was scanned whole.                           *)
NothingSensitiveLeaves == (sent \cup Recalled) \cap Sensitive \subseteq Rewrites \cup Pieces

(* No conversation, router or retrieval turns an utterance that a hard rule *)
(* hands off or refuses into an answer (service.py 299-309).  The question  *)
(* it is resolved to may be hard though the utterance is not: by a rewrite, *)
(* by a cut, or because two harmless utterances have it together.  The      *)
(* policy does not refuse it then; but it is allowed only by the rule of    *)
(* the bare utterance or by a router in controlled mode.                    *)
HardRulesWin ==
  /\ Reached("answered") /\ turn.known.reply.decision \in {"answer", "clarify"} =>
       /\ turn.first = Classify(<<turn.said>>) /\ ~ Hard(turn.first)
       /\ \A t \in Parts(Query(turn.conv, turn.said)) :
            Hard(Classify(<<t>>)) => t \in Rewrites \cup Pieces
  /\ Reached("judged") /\ turn.known.policy.action = "allow" /\ Hard(Classify(turn.known.question)) =>
       \/ turn.known.policy = turn.first
       \/ /\ config.router = "controlled"
          /\ turn.known.policy.rule \in {"LLM-ALLOW-001", "LLM-ALLOW-RISK-NOTED-001"}

(* What is answered was public, in that version, at some moment of the     *)
(* turn, whatever the conversation refers to; and of the numbers, times and *)
(* terms that the output guard recognises (answering.py 511-579) it states  *)
(* none that is not in that version, whatever the model wrote.              *)
AnswersWerePublished ==
  Reached("answered") /\ turn.known.reply.decision = "answer" =>
    /\ <<turn.known.reply.id, turn.known.reply.version>> \in public
    /\ LET segments == Approved[turn.known.reply.id][turn.known.reply.version]
       IN  turn.known.reply.facts \cap Recognised \subseteq FactsIn(segments, DOMAIN segments)

(* A document pairs a version with the questions it was signed with, unless *)
(* the item was withdrawn and edited between the two statements of that     *)
(* very turn (sql_repository.py 131-173).                                   *)
TornReadNeedsEdit ==
  Reached("answered") /\ turn.known.reply.decision = "answer" =>
    \/ turn.known.reply.torn
    \/ turn.known.reply.version # items[turn.known.reply.id].version
    \/ turn.known.reply.matched = items[turn.known.reply.id].signed

(* The question the policy and the router judge contains the utterance,     *)
(* unless an analyzer rewrote it, or the question it follows is so long     *)
(* that the two together are cut; then it has the greatest length, and no   *)
(* room was left for the rest of the utterance (conversation.py 373-380).   *)
JudgedOnWhatWasAsked ==
  Reached("judged") =>
    \/ turn.said \in Parts(turn.known.question)
    \/ turn.conv.semantic
    \/ /\ Length(turn.known.question) = MaxLength
       /\ \E i \in Answered(history) :
            /\ history[i].id = turn.conv.ref
            /\ Length(history[i].query) + Size[turn.said] > MaxLength
            /\ Length(history[i].query) < MaxLength =>
                 turn.known.question =
                   Append(history[i].query, Beginning[turn.said][MaxLength - Length(history[i].query)])

(* A shadow router decides nothing, except that its failure renames the     *)
(* default refusal; a shadow analyzer resolves nothing.                     *)
ShadowModesOnlyObserve ==
  /\ Reached("judged") /\ config.router # "controlled" =>
       \/ turn.known.policy = WithoutRouter
       \/ WithoutRouter = DefaultDeny /\ turn.known.policy = RoutingFailure(DefaultDeny)
  /\ Busy /\ turn.conv.kind \in FollowUpKinds /\ turn.conv.semantic => config.semantic = "controlled"

(* What is said while the caller waits fits the turn: a question that the   *)
(* guard or a hard rule turns away by itself is not told to wait for an     *)
(* answer (one that the router, a default refusal or missing knowledge      *)
(* turns away may be), and "looking it up" or "explaining more" is only     *)
(* said when the resolver found that, though the timer runs against three   *)
(* workers (api.py 626-660).                                                *)
AcknowledgementFits ==
  Reached("answered") =>
    /\ turn.known.reply.rule \in RefusalIds \cup {"PII-001", "POL-HANDOFF-001", "POL-HANDOFF-002"} =>
         turn.ack = "none"
    /\ turn.ack = "knowledge_lookup" => turn.conv.kind = "new_question"
    /\ turn.ack = "follow_up_explanation" => turn.conv.ref # NoId
=============================================================================
