------------------------- MODULE TurnServiceProofs -------------------------
(***************************************************************************)
(* Proofs about the turns of a session, for any texts, rules they match,   *)
(* knowledge, deployments and limits, and whatever the models return.      *)
(*                                                                         *)
(* The four workers of a turn never compare notes: each scans the          *)
(* utterance, judges it or reads the database for itself.  So what they    *)
(* find has to be carried along: what the session keeps (HistoryOK), what  *)
(* the resolver may make of it (TurnOK), what the policy may still say     *)
(* after the router was asked (PolicyOK), and what the rows of the first   *)
(* statement are worth while governance goes on (ReadOK).                  *)
(***************************************************************************)
EXTENDS TurnService, SequenceTheorems, FiniteSetTheorems, WellFoundedInduction, TLAPS

\* What nobody scans or judges by itself.
Unscanned == Rewrites \cup Pieces

\* Neither detected nor turned away, unless an analyzer or a cut made it.
Harmless(t) == t \in Sensitive \/ Hard(Classify(<<t>>)) => t \in Unscanned

Bounded(q) == q \in Seq(Texts) /\ (Len(q) = 1 \/ Length(q) \in 1 .. MaxLength)

SoundExchange(x) ==
  /\ Bounded(x.query) /\ x.id \in Ids \cup {NoId}
  /\ Parts(x.query) \cap Sensitive \subseteq Unscanned
  /\ x.id # NoId => \A t \in Parts(x.query) : Harmless(t)

ItemsOK ==
  /\ items \in [Ids -> Item]
  /\ \A id \in Ids : /\ items[id].version \in Versions(id)
                     /\ items[id].live => items[id].questions = items[id].signed

HistoryOK ==
  /\ history \in Seq([query : Seq(Texts), id : Ids \cup {NoId}])
  /\ Len(history) <= MaxTurns
  /\ \A i \in DOMAIN history : SoundExchange(history[i])

\* The utterance was cut because there was no room behind what it refers to.
CutShort(conv, u, h) ==
  /\ Length(conv.query) = MaxLength
  /\ \E i \in Answered(h) :
       /\ h[i].id = conv.ref
       /\ Length(h[i].query) + Size[u] > MaxLength
       /\ Length(h[i].query) < MaxLength =>
            conv.query = Append(h[i].query, Beginning[u][MaxLength - Length(h[i].query)])

\* What the resolver may make of an utterance.
Resolved(conv, u, h, mode) ==
  /\ Bounded(conv.query) /\ conv.semantic \in BOOLEAN
  /\ \A t \in Parts(conv.query) : t = u \/ Harmless(t)
  /\ conv.kind # "new_question" => conv.ref # NoId
  /\ conv.semantic => mode = "controlled"
  /\ conv.kind # "new_question" =>
       u \in Parts(conv.query) \/ conv.semantic \/ CutShort(conv, u, h)

Formed(t) ==
  t = [stage |-> t.stage, said |-> t.said, channel |-> t.channel, first |-> t.first,
       ack |-> t.ack, conv |-> t.conv, known |-> t.known]

TurnOK ==
  /\ turn.stage \in {"idle", "asked", "judged", "reading", "answered"}
  /\ Busy =>
       /\ Formed(turn)
       /\ turn.said \in Texts /\ turn.first = Preflight(turn.said)
       /\ turn.conv.kind \in FollowUpKinds \cup {"none", "pending"}
       /\ turn.conv.kind = "pending" => Reached("asked")
       /\ turn.conv.kind \in FollowUpKinds => Resolved(turn.conv, turn.said, history, config.semantic)
       /\ turn.ack # "none" => AllowsAcknowledgement(turn.first)
       /\ turn.ack = "knowledge_lookup" => turn.conv.kind = "new_question"
       /\ turn.ack = "follow_up_explanation" => turn.conv.kind \in {"elaborate", "rephrase"}

HardIds == RefusalIds \cup {"POL-HANDOFF-001", "POL-HANDOFF-002"}

AllowedByRouter(policy) ==
  config.router = "controlled" /\ policy.rule \in {"LLM-ALLOW-001", "LLM-ALLOW-RISK-NOTED-001"}

PolicyOK ==
  /\ turn.stage \in {"judged", "reading"} =>
       /\ turn.first # SensitiveResult
       /\ turn.known.policy.action \in {"handoff", "refuse", "allow"}
       /\ turn.known.policy.action = "allow" => ~ Hard(turn.first)
       /\ turn.known.policy.rule \in HardIds => Hard(turn.first)
       /\ turn.known.policy.rule # "PII-001"
       /\ Reached("reading") => turn.known.policy.action = "allow"
  /\ Reached("judged") =>
       /\ turn.known.question = Question
       /\ turn.known.policy.action = "allow" =>
            turn.known.policy = WithoutRouter \/ AllowedByRouter(turn.known.policy)
       /\ config.router # "controlled" =>
            \/ turn.known.policy = WithoutRouter
            \/ WithoutRouter = DefaultDeny /\ turn.known.policy = RoutingFailure(DefaultDeny)

ReadOK ==
  Reached("reading") =>
    /\ turn.known.rows \subseteq public
    /\ \A row \in turn.known.rows :
         /\ row[2] <= items[row[1]].version
         /\ row[2] = items[row[1]].version =>
              row[1] \in edited \/ items[row[1]].questions = items[row[1]].signed

ReplyOK ==
  Reached("answered") =>
    /\ turn.known.reply.id \in Ids \cup {NoId}
    /\ turn.known.reply.id # NoId => turn.known.reply.decision = "answer"
    /\ turn.known.reply.decision \in {"answer", "clarify"} =>
         turn.first # SensitiveResult /\ ~ Hard(turn.first)
    /\ turn.known.reply.rule \in HardIds \cup {"PII-001"} =>
         turn.first = SensitiveResult \/ Hard(turn.first)
    /\ turn.first = SensitiveResult => turn.known.reply.rule = "PII-001"
    /\ turn.known.reply.decision = "answer" =>
         turn.known.reply.id \in Ids /\ turn.known.reply.version <= items[turn.known.reply.id].version

SentOK ==
  /\ sent \subseteq Texts /\ sent \cap Sensitive \subseteq Unscanned
  /\ public \subseteq Ids \X Nat /\ edited \subseteq Ids
  /\ IF Busy THEN PublicNow \subseteq public ELSE sent = {} /\ public = {}
  /\ Reached("reading") \/ edited = {}

TurnInv ==
  /\ config \in Configs
  /\ ItemsOK /\ HistoryOK /\ TurnOK /\ PolicyOK /\ ReadOK /\ ReplyOK /\ SentOK
  /\ AnswersWerePublished /\ TornReadNeedsEdit

-----------------------------------------------------------------------------
(* The least and the greatest of a set of positions *)

LessThan == {ss \in Nat \X Nat : ss[1] < ss[2]}

LEMMA LessThanIs == \A x, y \in Nat : <<x, y>> \in LessThan <=> x < y
  BY DEF LessThan

LEMMA Least ==
  ASSUME NEW S, S \subseteq Nat, S # {}
  PROVE  \E m \in S : \A y \in S : m <= y
  <1>1. IsWellFoundedOn(LessThan, Nat)
    BY NatLessThanWellFounded DEF OpToRel, LessThan
  <1>2. PICK m \in S : \A y \in S : ~ (<<y, m>> \in LessThan)
    BY <1>1, WFMin
  <1>3. ASSUME NEW y \in S PROVE m <= y
    <2>1. y \in Nat /\ m \in Nat
      BY <1>2
    <2>2. ~ (y < m)
      BY <1>2, <2>1, LessThanIs
    <2> QED BY <2>1, <2>2
  <1> QED BY <1>2, <1>3

LEMMA MinIn ==
  ASSUME NEW S, S \subseteq Nat, S # {}
  PROVE  Min(S) \in S /\ \A y \in S : Min(S) <= y
  BY Least, Zenon DEF Min

LEMMA MaxIn ==
  ASSUME NEW n \in Nat, NEW S, S \subseteq 1 .. n, S # {}
  PROVE  Max(S) \in S
  <1>1. PICK T : T = {y \in Nat : n - y \in S}
    OBVIOUS
  <1>2. T \subseteq Nat /\ T # {}
    <2>1. PICK x \in S : TRUE
      OBVIOUS
    <2>2. n - x \in Nat /\ n - (n - x) = x
      BY <2>1
    <2> QED BY <1>1, <2>1, <2>2
  <1>3. PICK m \in T : \A y \in T : m <= y
    BY <1>2, Least
  <1>4. n - m \in S
    BY <1>1, <1>3
  <1>5. ASSUME NEW y \in S PROVE n - m >= y
    <2>1. n - y \in Nat /\ n - (n - y) = y /\ m \in Nat
      BY <1>1, <1>3
    <2>2. m <= n - y
      BY <1>1, <1>3, <2>1
    <2> QED BY <2>1, <2>2
  <1> QED BY <1>4, <1>5, Zenon DEF Max

-----------------------------------------------------------------------------
(* What the rules say of a question *)

LEMMA RulesAre ==
  /\ DOMAIN Rules = 1 .. 16
  /\ \A i \in DOMAIN Rules :
       /\ Rules[i].action \in {"handoff", "refuse", "allow"}
       /\ Rules[i].id # "POL-DEFAULT-DENY" /\ Rules[i].id # "PII-001"
       /\ Rules[i].id \in HardIds <=> Rules[i].action # "allow"
       /\ Rules[i].action = "refuse" => Rules[i].id \in RefusalIds
  BY SMTT(60) DEF HardIds, RefusalIds, Rules, Rule

\* What can be said of a result of the rules, whatever the question.
Ruled(r) ==
  /\ r.action \in {"handoff", "refuse", "allow"}
  /\ r.action = "allow" => ~ Hard(r)
  /\ r.rule \in HardIds => Hard(r)
  /\ r.rule # "PII-001"
  /\ r.rule = "POL-DEFAULT-DENY" => r = DefaultDeny

LEMMA RefusalIdsAre ==
  RefusalIds = {"POL-REFUSE-001", "POL-REFUSE-002", "POL-REFUSE-003", "POL-REFUSE-004",
                "POL-REFUSE-005", "POL-REFUSE-006", "POL-REFUSE-007"}
  BY SMTT(60) DEF RefusalIds, Rules, Rule

LEMMA FirstIsRuled ==
  ASSUME NEW S, S \subseteq DOMAIN Rules, NEW r \in First(S)
  PROVE  Ruled(r)
  <1>1. PICK i \in DOMAIN Rules : r = Result(Rules[i].action, Rules[i].intent, Rules[i].id)
    BY DEF First
  <1>2. r.action = Rules[i].action /\ r.rule = Rules[i].id
    BY <1>1 DEF Result
  <1>3. r.rule \in RefusalIds => r.rule \in HardIds
    BY DEF HardIds
  <1> QED BY <1>2, <1>3, RulesAre DEF Ruled, Hard

LEMMA GuidanceIsRuled ==
  ASSUME NEW holds, NEW intent, NEW rule \in {"POL-ALLOW-007", "POL-ALLOW-008", "POL-ALLOW-009"},
         NEW r \in Guidance(holds, intent, rule)
  PROVE  Ruled(r)
  <1>1. r.action = "allow" /\ r.rule = rule
    BY DEF Guidance, Result
  <1>2. rule \notin HardIds /\ rule \notin RefusalIds
    BY RefusalIdsAre DEF HardIds
  <1> QED BY <1>1, <1>2 DEF Ruled, Hard

LEMMA DefaultIsRuled == Ruled(DefaultDeny)
  BY RefusalIdsAre DEF Ruled, DefaultDeny, Result, Hard, HardIds

LEMMA ClassifyIsRuled ==
  ASSUME NEW q
  PROVE  Ruled(Classify(q))
  <1> DEFINE handoffs == Matches(q, "handoff")
             refusals == Matches(q, "refuse")
             allowed == Matches(q, "allow")
  <1>1. /\ handoffs \subseteq DOMAIN Rules /\ refusals \subseteq DOMAIN Rules
        /\ allowed \subseteq DOMAIN Rules
    BY DEF Matches
  <1>2. ASSUME NEW S, S \subseteq DOMAIN Rules, NEW intent
        PROVE  Except(S, intent) \subseteq DOMAIN Rules
    BY <1>2 DEF Except
  <1>3. ASSUME NEW S, S \subseteq DOMAIN Rules
        PROVE  /\ \A r \in First(S) : Ruled(r)
               /\ \A r \in Only(S) : Ruled(r)
    BY <1>3, FirstIsRuled DEF Only
  <1>4. PICK levels : levels = Levels(q)
    OBVIOUS
  <1>5. DOMAIN levels = 1 .. 10
    BY <1>4 DEF Levels
  <1>6. levels[10] = {DefaultDeny}
    BY <1>4 DEF Levels
  <1>7. \A n \in 1 .. 10 : \A r \in levels[n] : Ruled(r)
    <2>1. \A r \in levels[1] : Ruled(r)
      BY <1>1, <1>2, <1>3, <1>4 DEF Levels
    <2>2. \A r \in levels[2] : Ruled(r)
      BY <1>1, <1>2, <1>3, <1>4 DEF Levels
    <2>3. \A r \in levels[3] : Ruled(r)
      BY <1>4, GuidanceIsRuled DEF Levels
    <2>4. \A r \in levels[4] : Ruled(r)
      BY <1>1, <1>3, <1>4 DEF Levels
    <2>5. \A r \in levels[5] : Ruled(r)
      BY <1>4, GuidanceIsRuled DEF Levels
    <2>6. \A r \in levels[6] : Ruled(r)
      BY <1>1, <1>3, <1>4 DEF Levels
    <2>7. \A r \in levels[7] : Ruled(r)
      BY <1>4, GuidanceIsRuled DEF Levels
    <2>8. \A r \in levels[8] : Ruled(r)
      BY <1>1, <1>3, <1>4 DEF Levels
    <2>9. \A r \in levels[9] : Ruled(r)
      BY <1>1, <1>2, <1>3, <1>4 DEF Levels
    <2>10. \A r \in levels[10] : Ruled(r)
      BY <1>6, DefaultIsRuled
    <2> QED BY <2>1, <2>2, <2>3, <2>4, <2>5, <2>6, <2>7, <2>8, <2>9, <2>10
  <1>8. PICK m \in 1 .. 10 : m = Min({n \in DOMAIN levels : levels[n] # {}}) /\ levels[m] # {}
    <2>1. PICK S : S = {n \in DOMAIN levels : levels[n] # {}}
      OBVIOUS
    <2>2. S \subseteq Nat /\ S # {}
      BY <1>5, <1>6, <2>1
    <2>3. Min(S) \in S
      BY <2>2, MinIn
    <2> QED BY <1>5, <2>1, <2>3
  <1>9. Classify(q) = CHOOSE r \in levels[m] : TRUE
    BY <1>4, <1>8 DEF Classify
  <1>10. Classify(q) \in levels[m]
    BY <1>8, <1>9
  <1> QED BY <1>7, <1>10

-----------------------------------------------------------------------------
(* What retrieval and composition can return *)

\* A match is a document that was searched.
From(match, docs) == \A m \in match : m.doc \in docs

LEMMA SearchFindsDocuments ==
  ASSUME NEW q, NEW intent, NEW docs, NEW embedded
  PROVE  From(Search(q, intent, docs, embedded), docs)
  <1>1. Eligible(q, intent, docs) \subseteq docs
    BY DEF Eligible
  <1>2. ASSUME NEW S, NEW minimum, NEW margin PROVE Select(S, minimum, margin) \subseteq S
    BY DEF Select
  <1>3. \A m \in {[doc |-> d, score |-> HybridScore(q, d)] : d \in Eligible(q, intent, docs)} :
          m.doc \in docs
    BY <1>1
  <1>4. \A m \in {[doc |-> d, score |-> LexicalScore(q, d)] : d \in Eligible(q, intent, docs)} :
          m.doc \in docs
    BY <1>1
  <1> QED BY <1>2, <1>3, <1>4 DEF Search, From

LEMMA SearchKnowledgeFindsDocuments ==
  ASSUME NEW u, NEW conv, NEW intent, NEW docs, NEW h, NEW e
  PROVE  From(SearchKnowledge(u, conv, intent, docs, h, e), docs)
  <1>1. ASSUME NEW S, S \subseteq docs, NEW q, NEW b
        PROVE  From(Search(q, intent, S, b), docs)
    BY <1>1, SearchFindsDocuments DEF From
  <1>2. \A id : Of(docs, id) \subseteq docs
    BY DEF Of
  <1>3. From(NewQuestionMatch(u, intent, docs, h, e), docs)
    BY <1>1, <1>2 DEF NewQuestionMatch
  <1>4. From({}, docs)
    BY DEF From
  <1>5. From(FollowUpMatch(u, conv, intent, docs, e), docs)
    BY <1>1, <1>2, <1>4 DEF FollowUpMatch
  <1> QED BY <1>1, <1>3, <1>5 DEF SearchKnowledge

LEMMA RetrievedOutcomes ==
  ASSUME NEW u, NEW channel, NEW conv, NEW result, NEW mayRefer, NEW docs, NEW h, NEW e,
         NEW outcome \in Retrieved(u, channel, conv, result, mayRefer, docs, h, e)
  PROVE  \/ outcome.kind \in {"none", "clarify"}
         \/ /\ outcome.kind = "match" /\ outcome.doc \in docs
            /\ outcome.rule \in {result.rule, "CTX-FOLLOW-UP-001", "ASR-ALIAS-001"}
  <1> DEFINE found == SearchKnowledge(u, conv, result.intent, docs, h, e)
             asked == IF conv.kind = "none" THEN <<u>> ELSE conv.query
             alike == SoundsLike(asked, result.intent, docs)
  <1>1. \A m \in found : m.doc \in docs
    BY SearchKnowledgeFindsDocuments DEF From
  <1>2. Of(docs, conv.ref) \subseteq docs
    BY DEF Of
  <1>3. alike \subseteq docs
    BY DEF SoundsLike
  <1>4. ASSUME NEW d \in docs,
               NEW rule \in {result.rule, "CTX-FOLLOW-UP-001", "ASR-ALIAS-001"},
               outcome = MatchOn(d, rule)
        PROVE  /\ outcome.kind = "match" /\ outcome.doc \in docs
               /\ outcome.rule \in {result.rule, "CTX-FOLLOW-UP-001", "ASR-ALIAS-001"}
    BY <1>4 DEF MatchOn
  <1>5. \/ \E m \in found : outcome = MatchOn(m.doc, result.rule)
        \/ \E d \in Of(docs, conv.ref) : outcome = MatchOn(d, "CTX-FOLLOW-UP-001")
        \/ \E d \in alike : outcome = MatchOn(d, "ASR-ALIAS-001")
        \/ outcome = [kind |-> "clarify"]
        \/ outcome = NoMatch
    BY DEF Retrieved
  <1>6. NoMatch.kind = "none" /\ [kind |-> "clarify"].kind = "clarify"
    BY DEF NoMatch
  <1> QED BY <1>1, <1>2, <1>3, <1>4, <1>5, <1>6

LEMMA SaidFromIsGuarded ==
  ASSUME NEW facts, NEW claims \in SaidFrom(facts)
  PROVE  claims \cap Recognised \subseteq facts
  BY DEF SaidFrom, Passes

LEMMA FactsGrow ==
  ASSUME NEW segments, NEW chosen, chosen \subseteq DOMAIN segments
  PROVE  FactsIn(segments, chosen) \subseteq FactsIn(segments, DOMAIN segments)
  BY DEF FactsIn

LEMMA FocusedSegments ==
  ASSUME NEW segments, NEW u, NEW q, NEW focus
  PROVE  Focused(segments, u, q, focus) \subseteq DOMAIN segments
  BY DEF Focused

LEMMA AnswersAreApproved ==
  ASSUME NEW segments, NEW u, NEW conv, NEW answerMode, NEW said,
         said \in ExactAnswers(segments, answerMode) \/ said \in NaturalAnswers(segments, u, conv)
  PROVE  said \cap Recognised \subseteq FactsIn(segments, DOMAIN segments)
  <1>1. CASE said \in ExactAnswers(segments, answerMode)
    BY <1>1, SaidFromIsGuarded DEF ExactAnswers
  <1>2. CASE said \in NaturalAnswers(segments, u, conv)
    <2>1. PICK evidence, chosen :
                 /\ evidence \subseteq DOMAIN segments /\ chosen \subseteq evidence
                 /\ said \in SaidFrom(FactsIn(segments, IF chosen = {} THEN evidence ELSE chosen))
      BY <1>2, FocusedSegments DEF NaturalAnswers
    <2>2. said \cap Recognised \subseteq FactsIn(segments, IF chosen = {} THEN evidence ELSE chosen)
      BY <2>1, SaidFromIsGuarded
    <2> QED BY <2>1, <2>2, FactsGrow
  <1> QED BY <1>1, <1>2

-----------------------------------------------------------------------------
(* What the resolver may return, and what the session keeps *)

LEMMA TextLength ==
  ASSUME NEW t \in Texts
  PROVE  Size[t] \in Nat \ {0} /\ MaxLength \in Nat \ {0}
  BY FollowUpAssumption

LEMMA Beginnings ==
  ASSUME NEW t \in Texts, NEW n \in 1 .. MaxLength
  PROVE  /\ Beginning[t][n] \in Texts
         /\ Size[t] <= n => Beginning[t][n] = t
         /\ n < Size[t] => Beginning[t][n] \in Pieces /\ Size[Beginning[t][n]] = n
  <1>1. Beginning[t][n] \in Texts /\ Size[t] \in Nat /\ n \in Nat
    BY FollowUpAssumption
  <1>2. IF Size[t] <= n THEN Beginning[t][n] = t ELSE Size[Beginning[t][n]] = n
    BY FollowUpAssumption
  <1>3. n < Size[t] => Beginning[t][n] \in Pieces
    BY DEF Pieces
  <1> QED BY <1>1, <1>2, <1>3

\* The characters of one part of a question.
CharactersOf(q, i) == {i} \X (1 .. Size[q[i]])

LEMMA CharactersOfPart ==
  ASSUME NEW q, NEW i, q[i] \in Texts
  PROVE  IsFiniteSet(CharactersOf(q, i)) /\ Cardinality(CharactersOf(q, i)) = Size[q[i]]
  <1>1. PICK n \in Nat : n = Size[q[i]]
    BY TextLength
  <1>2. IsFiniteSet(1 .. n) /\ Cardinality(1 .. n) = n
    BY FS_Interval
  <1>3. IsFiniteSet({i}) /\ Cardinality({i}) = 1
    BY FS_Singleton
  <1>4. IsFiniteSet({i} \X (1 .. n)) /\ Cardinality({i} \X (1 .. n)) = 1 * n
    BY <1>2, <1>3, FS_Product
  <1> QED BY <1>1, <1>4 DEF CharactersOf

LEMMA QuestionParts ==
  ASSUME NEW q \in Seq(Texts)
  PROVE  /\ Len(q) \in Nat /\ DOMAIN q = 1 .. Len(q)
         /\ \A i \in DOMAIN q : q[i] \in Texts
  BY LenProperties, ElementOfSeq

LEMMA LengthIsNatural ==
  ASSUME NEW q \in Seq(Texts)
  PROVE  IsFiniteSet(Characters(q)) /\ Length(q) \in Nat
  <1> DEFINE T == {CharactersOf(q, i) : i \in DOMAIN q}
             f == [i \in DOMAIN q |-> CharactersOf(q, i)]
  <1>1. IsFiniteSet(DOMAIN q)
    BY QuestionParts, FS_Interval
  <1>2. f \in Surjection(DOMAIN q, T)
    BY DEF Surjection
  <1>3. IsFiniteSet(T)
    BY <1>1, <1>2, FS_Surjection
  <1>4. \A c \in T : IsFiniteSet(c)
    BY QuestionParts, CharactersOfPart
  <1>5. IsFiniteSet(UNION T)
    BY <1>3, <1>4, FS_UNION
  <1>6. Characters(q) = UNION T
    BY DEF Characters, CharactersOf
  <1> QED BY <1>5, <1>6, FS_CardinalityType DEF Length

LEMMA LengthOfOne ==
  ASSUME NEW q \in Seq(Texts), Len(q) = 1
  PROVE  Length(q) = Size[q[1]] /\ q[1] \in Texts
  <1>1. DOMAIN q = {1} /\ q[1] \in Texts
    BY QuestionParts
  <1>2. Characters(q) = CharactersOf(q, 1)
    BY <1>1 DEF Characters, CharactersOf
  <1> QED BY <1>1, <1>2, CharactersOfPart DEF Length

LEMMA LengthOfAppend ==
  ASSUME NEW q \in Seq(Texts), NEW u \in Texts
  PROVE  /\ Append(q, u) \in Seq(Texts) /\ Length(Append(q, u)) = Length(q) + Size[u]
         /\ Parts(Append(q, u)) = Parts(q) \cup {u}
  <1>1. PICK a \in Seq(Texts), n \in Nat :
               /\ a = Append(q, u) /\ n = Len(q) /\ DOMAIN q = 1 .. n
               /\ DOMAIN a = 1 .. n + 1 /\ a[n + 1] = u /\ \A i \in 1 .. n : a[i] = q[i]
    <2>1. /\ Append(q, u) \in Seq(Texts) /\ Len(Append(q, u)) = Len(q) + 1
          /\ \A i \in 1 .. Len(q) : Append(q, u)[i] = q[i]
          /\ Append(q, u)[Len(q) + 1] = u
      BY AppendProperties
    <2> QED BY <2>1, QuestionParts
  <1>2. \A i \in DOMAIN a : i \in DOMAIN q \/ i = n + 1
    BY <1>1
  <1>3. n + 1 \notin DOMAIN q /\ n + 1 \in DOMAIN a /\ DOMAIN q \subseteq DOMAIN a
    BY <1>1
  <1>4. Characters(a) = Characters(q) \cup CharactersOf(a, n + 1)
    BY <1>1, <1>2, <1>3 DEF Characters, CharactersOf
  <1>5. Characters(q) \cap CharactersOf(a, n + 1) = {}
    BY <1>3 DEF Characters, CharactersOf
  <1>6. IsFiniteSet(Characters(q)) /\ Cardinality(Characters(q)) \in Nat
    BY LengthIsNatural DEF Length
  <1>7. /\ IsFiniteSet(CharactersOf(a, n + 1))
        /\ Cardinality(CharactersOf(a, n + 1)) = Size[u] /\ Size[u] \in Nat
    <2>1. PICK i : i = n + 1
      OBVIOUS
    <2>2. a[i] = u /\ a[i] \in Texts
      BY <1>1, <2>1
    <2>3. IsFiniteSet(CharactersOf(a, i)) /\ Cardinality(CharactersOf(a, i)) = Size[a[i]]
      BY <2>2, CharactersOfPart
    <2> QED BY <2>1, <2>2, <2>3, TextLength
  <1>8. Cardinality(Characters(a)) = Cardinality(Characters(q)) + Size[u] - Cardinality({})
    BY <1>4, <1>5, <1>6, <1>7, FS_Union
  <1>9. Cardinality(Characters(a)) = Cardinality(Characters(q)) + Size[u]
    BY <1>6, <1>7, <1>8, FS_EmptySet
  <1>10. Parts(a) = Parts(q) \cup {u}
    BY <1>1, <1>2, <1>3 DEF Parts
  <1> QED BY <1>1, <1>9, <1>10 DEF Length

LEMMA SingleQuestion ==
  ASSUME NEW u \in Texts
  PROVE  Bounded(<<u>>) /\ Parts(<<u>>) = {u} /\ Length(<<u>>) = Size[u]
  <1>1. PICK q : q = <<u>>
    OBVIOUS
  <1>2. q \in Seq(Texts) /\ Len(q) = 1 /\ q[1] = u /\ DOMAIN q = 1 .. 1
    BY <1>1
  <1>3. Bounded(q) /\ Parts(q) = {u}
    BY <1>2 DEF Bounded, Parts
  <1> QED BY <1>1, <1>2, <1>3, LengthOfOne

\* A question that follows another has both whole, or it is cut and has the
\* greatest length.
LEMMA FollowedByShape ==
  ASSUME NEW q, Bounded(q), NEW u \in Texts
  PROVE  /\ Bounded(FollowedBy(q, u))
         /\ Parts(FollowedBy(q, u)) \subseteq Parts(q) \cup {u} \cup Pieces
         /\ \/ u \in Parts(FollowedBy(q, u))
            \/ /\ Length(FollowedBy(q, u)) = MaxLength /\ Length(q) + Size[u] > MaxLength
               /\ Length(q) < MaxLength =>
                    FollowedBy(q, u) = Append(q, Beginning[u][MaxLength - Length(q)])
  <1>1. PICK f : f = FollowedBy(q, u)
    OBVIOUS
  <1>2. /\ Length(q) \in Nat /\ Size[u] \in Nat \ {0} /\ MaxLength \in Nat \ {0}
        /\ MaxLength \in 1 .. MaxLength
    BY LengthIsNatural, TextLength DEF Bounded
  <1>3. CASE Length(q) > MaxLength
    <2>1. Len(q) = 1 /\ q \in Seq(Texts)
      BY <1>2, <1>3 DEF Bounded
    <2>2. Length(q) = Size[q[1]] /\ q[1] \in Texts
      BY <2>1, LengthOfOne
    <2>3. PICK b \in Texts : b = Beginning[q[1]][MaxLength] /\ b \in Pieces /\ Size[b] = MaxLength
      BY <1>2, <1>3, <2>2, Beginnings
    <2>4. f = <<b>>
      BY <1>1, <1>3, <2>3 DEF FollowedBy
    <2> QED BY <1>1, <1>2, <1>3, <2>3, <2>4, SingleQuestion
  <1>4. CASE Length(q) = MaxLength
    <2>1. f = q
      BY <1>1, <1>2, <1>4 DEF FollowedBy
    <2> QED BY <1>1, <1>2, <1>4, <2>1
  <1>5. CASE Length(q) < MaxLength
    <2>1. PICK room \in 1 .. MaxLength : room = MaxLength - Length(q)
      BY <1>2, <1>5
    <2>2. PICK b \in Texts : /\ b = Beginning[u][room]
                             /\ Size[u] <= room => b = u
                             /\ room < Size[u] => b \in Pieces /\ Size[b] = room
      BY <2>1, Beginnings
    <2>3. f = Append(q, b)
      BY <1>1, <1>2, <1>5, <2>1, <2>2 DEF FollowedBy
    <2>4. q \in Seq(Texts) /\ Size[b] \in Nat \ {0}
      BY TextLength DEF Bounded
    <2>5. f \in Seq(Texts) /\ Length(f) = Length(q) + Size[b] /\ Parts(f) = Parts(q) \cup {b}
      BY <2>3, <2>4, LengthOfAppend
    <2>6. CASE Size[u] <= room
      <3>1. Length(f) \in 1 .. MaxLength
        BY <1>2, <2>1, <2>2, <2>4, <2>5, <2>6
      <3> QED BY <1>1, <2>2, <2>5, <2>6, <3>1 DEF Bounded
    <2>7. CASE room < Size[u]
      <3>1. Length(f) = MaxLength /\ Length(q) + Size[u] > MaxLength
        BY <1>2, <2>1, <2>2, <2>5, <2>7
      <3> QED BY <1>1, <1>2, <2>1, <2>2, <2>3, <2>5, <2>7, <3>1 DEF Bounded
    <2> QED BY <1>2, <2>1, <2>6, <2>7
  <1> QED BY <1>2, <1>3, <1>4, <1>5

LEMMA HistoryShape ==
  ASSUME HistoryOK
  PROVE  /\ DOMAIN history = 1 .. Len(history) /\ Len(history) \in Nat
         /\ Answered(history) # {} =>
              /\ Reference(history).id # NoId /\ SoundExchange(Reference(history))
              /\ \E i \in Answered(history) : history[i] = Reference(history)
  <1>1. DOMAIN history = 1 .. Len(history) /\ Len(history) \in Nat
    <2>1. PICK X : X = [query : Seq(Texts), id : Ids \cup {NoId}]
      OBVIOUS
    <2> QED BY <2>1, LenProperties DEF HistoryOK
  <1>2. ASSUME Answered(history) # {}
        PROVE  Max(Answered(history)) \in Answered(history)
    BY <1>1, <1>2, MaxIn DEF Answered
  <1> QED BY <1>1, <1>2 DEF HistoryOK, Answered, Reference

LEMMA NewQuestionResolved ==
  ASSUME NEW u \in Texts, NEW t \in Texts, t = u \/ t \in Pieces
  PROVE  Resolved(NewQuestion(<<t>>), u, history, config.semantic)
  <1>1. PICK q : q = <<t>>
    OBVIOUS
  <1>2. Bounded(q) /\ Parts(q) = {t}
    BY <1>1, SingleQuestion
  <1>3. PICK conv : conv = NewQuestion(q)
    OBVIOUS
  <1>4. conv.kind = "new_question" /\ conv.query = q /\ conv.semantic = FALSE
    BY <1>3 DEF NewQuestion
  <1> QED BY <1>1, <1>2, <1>3, <1>4 DEF Resolved, Harmless, Unscanned

LEMMA ResolutionsAre ==
  ASSUME HistoryOK, NEW u \in Texts, NEW conv \in Resolutions(u, history, config.semantic)
  PROVE  conv.kind \in FollowUpKinds /\ Resolved(conv, u, history, config.semantic)
  <1>1. ASSUME conv.kind = "new_question", conv = Deterministic(u, history)
        PROVE  conv.kind \in FollowUpKinds /\ Resolved(conv, u, history, config.semantic)
    <2>1. PICK b \in Texts : b = Beginning[u][MaxLength] /\ (b = u \/ b \in Pieces)
      <3>1. MaxLength \in 1 .. MaxLength /\ Size[u] \in Nat
        BY TextLength
      <3> QED BY <3>1, Beginnings
    <2>2. conv = NewQuestion(<<u>>) \/ conv = NewQuestion(<<b>>)
      BY <1>1, <2>1 DEF Deterministic
    <2> QED BY <1>1, <2>1, <2>2, NewQuestionResolved DEF FollowUpKinds
  <1>2. ASSUME conv = Deterministic(u, history), conv.kind # "new_question"
        PROVE  conv.kind \in FollowUpKinds /\ Resolved(conv, u, history, config.semantic)
    <2>1. Answered(history) # {} /\ KindOf(u) # "new_question"
      BY <1>2 DEF Deterministic, NewQuestion
    <2>2. PICK r : r = Reference(history)
      OBVIOUS
    <2>3. /\ r.id # NoId /\ SoundExchange(r) /\ \E i \in Answered(history) : history[i] = r
      BY <2>1, <2>2, HistoryShape
    <2>4. /\ conv.kind \in {"elaborate", "rephrase"} /\ conv.query = FollowedBy(r.query, u)
          /\ conv.ref = r.id /\ conv.semantic = FALSE
      BY <1>2, <2>1, <2>2 DEF Deterministic, KindOf
    <2>5. Bounded(r.query) /\ \A t \in Parts(r.query) : Harmless(t)
      BY <2>3 DEF SoundExchange
    <2>6. PICK q : q = FollowedBy(r.query, u)
      OBVIOUS
    <2>7. /\ Bounded(q) /\ Parts(q) \subseteq Parts(r.query) \cup {u} \cup Pieces
          /\ \/ u \in Parts(q)
             \/ /\ Length(q) = MaxLength /\ Length(r.query) + Size[u] > MaxLength
                /\ Length(r.query) < MaxLength =>
                     q = Append(r.query, Beginning[u][MaxLength - Length(r.query)])
      BY <2>5, <2>6, FollowedByShape
    <2>8. u \in Parts(conv.query) \/ CutShort(conv, u, history)
      BY <2>3, <2>4, <2>6, <2>7 DEF CutShort
    <2>9. \A t \in Parts(conv.query) : t = u \/ Harmless(t)
      BY <2>4, <2>5, <2>6, <2>7 DEF Harmless, Unscanned
    <2> QED BY <2>3, <2>4, <2>6, <2>7, <2>8, <2>9 DEF Resolved, FollowUpKinds
  <1>3. ASSUME conv \in SemanticResolutions(u, history), config.semantic = "controlled"
        PROVE  conv.kind \in FollowUpKinds /\ Resolved(conv, u, history, config.semantic)
    <2>1. /\ conv.kind \in {"elaborate", "rephrase"} /\ conv.semantic = TRUE
          /\ \E t \in Rewrites : conv.query = <<t>>
          /\ \E i \in Answered(history) : conv.ref = history[i].id
      BY <1>3 DEF SemanticResolutions
    <2>2. conv.ref # NoId
      BY <2>1 DEF Answered
    <2>3. PICK t \in Rewrites : conv.query = <<t>>
      BY <2>1
    <2>4. PICK q : q = <<t>>
      OBVIOUS
    <2>5. t \in Texts
      BY FollowUpAssumption
    <2>6. Bounded(q) /\ Parts(q) = {t}
      BY <2>4, <2>5, SingleQuestion
    <2>7. Harmless(t)
      BY DEF Harmless, Unscanned
    <2> QED BY <1>3, <2>1, <2>2, <2>3, <2>4, <2>6, <2>7 DEF Resolved, FollowUpKinds
  <1> QED BY <1>1, <1>2, <1>3 DEF Resolutions

LEMMA KeptShape ==
  ASSUME NEW S, NEW h \in Seq(S), NEW x \in S, Len(h) <= MaxTurns
  PROVE  /\ Kept(h, x) \in Seq(S) /\ Len(Kept(h, x)) <= MaxTurns
         /\ DOMAIN Kept(h, x) = 1 .. Len(Kept(h, x))
         /\ \A i \in DOMAIN Kept(h, x) :
              Kept(h, x)[i] = x \/ \E j \in DOMAIN h : Kept(h, x)[i] = h[j]
  <1>1. PICK n \in Nat : n = Len(h) /\ DOMAIN h = 1 .. n
    BY LenProperties
  <1>2. PICK a \in Seq(S) : /\ a = Append(h, x) /\ Len(a) = n + 1 /\ a[n + 1] = x
                            /\ \A i \in 1 .. n : a[i] = h[i]
    <2>1. /\ Append(h, x) \in Seq(S) /\ Len(Append(h, x)) = Len(h) + 1
          /\ \A i \in 1 .. Len(h) : Append(h, x)[i] = h[i]
          /\ Append(h, x)[Len(h) + 1] = x
      BY AppendProperties
    <2> QED BY <1>1, <2>1
  <1>3. MaxTurns \in Nat \ {0}
    BY ServiceAssumption
  <1>4. PICK m \in 1 .. n + 1 : m = Max({1, n + 2 - MaxTurns}) /\ n + 2 - m <= MaxTurns
    <2>1. n + 2 - MaxTurns \in Int /\ n + 2 - MaxTurns <= n + 1
      BY <1>3
    <2>2. PICK g \in {1, n + 2 - MaxTurns} : \A y \in {1, n + 2 - MaxTurns} : g >= y
      BY <2>1
    <2>3. Max({1, n + 2 - MaxTurns}) \in {1, n + 2 - MaxTurns}
          /\ \A y \in {1, n + 2 - MaxTurns} : Max({1, n + 2 - MaxTurns}) >= y
      BY <2>2, Zenon DEF Max
    <2>4. PICK m : m = Max({1, n + 2 - MaxTurns})
      OBVIOUS
    <2>5. (m = 1 \/ m = n + 2 - MaxTurns) /\ m >= 1 /\ m >= n + 2 - MaxTurns
      BY <2>3, <2>4
    <2> QED BY <1>3, <2>1, <2>4, <2>5
  <1>5. PICK k : k = Kept(h, x)
    OBVIOUS
  <1>6. k = SubSeq(a, m, n + 1)
    BY <1>1, <1>2, <1>4, <1>5 DEF Kept
  <1>7. \A i \in m .. n + 1 : a[i] \in S
    BY <1>2, ElementOfSeq
  <1>8. /\ k \in Seq(S) /\ Len(k) = n + 2 - m
        /\ \A i \in 1 .. n + 2 - m : k[i] = a[m + i - 1]
    BY <1>6, <1>7, SubSeqProperties
  <1>9. DOMAIN k = 1 .. n + 2 - m
    BY <1>8, LenProperties
  <1>10. ASSUME NEW i \in 1 .. n + 2 - m PROVE k[i] = x \/ \E j \in DOMAIN h : k[i] = h[j]
    <2>1. PICK j \in 1 .. n + 1 : j = m + i - 1
      <3>1. m + i - 1 \in 1 .. n + 1
        BY <1>4
      <3> QED BY <3>1
    <2>2. k[i] = a[j]
      BY <1>8, <2>1
    <2>3. j \in 1 .. n \/ j = n + 1
      BY <2>1
    <2> QED BY <1>1, <1>2, <2>2, <2>3
  <1> QED BY <1>3, <1>4, <1>5, <1>8, <1>9, <1>10

-----------------------------------------------------------------------------
(* Parts of the invariant that a step leaves alone *)

LEMMA TurnGoes ==
  ASSUME Formed(turn), NEW stage, NEW known, turn' = Goes(stage, known)
  PROVE  /\ Formed(turn') /\ turn'.stage = stage /\ turn'.known = known
         /\ turn'.said = turn.said /\ turn'.first = turn.first /\ turn'.ack = turn.ack
         /\ turn'.conv = turn.conv
  <1>1. turn' = [stage |-> stage, said |-> turn.said, channel |-> turn.channel,
                 first |-> turn.first, ack |-> turn.ack, conv |-> turn.conv, known |-> known]
    BY DEF Goes, Formed
  <1> QED BY <1>1 DEF Formed

LEMMA SessionUnchanged ==
  ASSUME HistoryOK, UNCHANGED history
  PROVE  HistoryOK'
  BY DEF HistoryOK

LEMMA ItemsUnchanged ==
  ASSUME ItemsOK, UNCHANGED items
  PROVE  ItemsOK' /\ PublicNow' = PublicNow
  BY DEF ItemsOK, PublicNow, Live

LEMMA TurnUnchanged ==
  ASSUME TurnOK, PolicyOK, UNCHANGED <<config, history, turn>>
  PROVE  TurnOK' /\ PolicyOK'
  <1>1. TurnOK'
    BY DEF TurnOK, Busy, Reached
  <1>2. Question' = Question /\ WithoutRouter' = WithoutRouter
    BY DEF Question, WithoutRouter, InContext
  <1>3. PolicyOK'
    BY <1>2 DEF PolicyOK, AllowedByRouter, Reached
  <1> QED BY <1>1, <1>3

-----------------------------------------------------------------------------
(* Governance *)

LEMMA WithdrawKeepsInv ==
  ASSUME TurnInv, NEW id \in Ids, Withdraw(id)
  PROVE  TurnInv'
  <1>1. /\ TurnOK' /\ PolicyOK' /\ HistoryOK' /\ config' \in Configs
    BY TurnUnchanged, SessionUnchanged DEF TurnInv, Withdraw
  <1>2. PICK v : v = [items[id] EXCEPT !.live = FALSE]
    OBVIOUS
  <1>3. items[id] \in Item /\ items' = [items EXCEPT ![id] = v]
    BY <1>2 DEF TurnInv, ItemsOK, Withdraw
  <1>4. /\ v \in Item /\ v.live = FALSE /\ v.version = items[id].version
        /\ v.questions = items[id].questions /\ v.signed = items[id].signed
    BY <1>2, <1>3 DEF Item
  <1>5. /\ items' \in [Ids -> Item]
        /\ \A i \in Ids : /\ items'[i].version = items[i].version
                          /\ items'[i].questions = items[i].questions
                          /\ items'[i].signed = items[i].signed
                          /\ items'[i].live => items[i].live
    BY <1>3, <1>4 DEF TurnInv, ItemsOK
  <1>6. ItemsOK'
    BY <1>5 DEF TurnInv, ItemsOK
  <1>7. PublicNow' \subseteq PublicNow
    BY <1>5 DEF PublicNow, Live
  <1>8. UNCHANGED <<config, history, turn, sent, public, edited>>
    BY DEF Withdraw
  <1>9. SentOK'
    BY <1>7, <1>8 DEF TurnInv, SentOK, Busy, Reached
  <1>10. ReadOK'
    <2> SUFFICES ASSUME Reached("reading")
                 PROVE  ReadOK'
      BY <1>8 DEF ReadOK, Reached
    <2>1. turn.known.rows \subseteq public /\ public \subseteq Ids \X Nat
      BY DEF TurnInv, ReadOK, SentOK
    <2>2. \A row \in turn.known.rows : row[1] \in Ids
      BY <2>1
    <2> QED BY <1>5, <1>8, <2>2 DEF TurnInv, ReadOK, Reached
  <1>11. ReplyOK' /\ AnswersWerePublished' /\ TornReadNeedsEdit'
    BY <1>5, <1>8 DEF TurnInv, ReplyOK, AnswersWerePublished, TornReadNeedsEdit, Reached
  <1> QED BY <1>1, <1>6, <1>9, <1>10, <1>11 DEF TurnInv

LEMMA EditKeepsInv ==
  ASSUME TurnInv, NEW id \in Ids, EditQuestions(id)
  PROVE  TurnInv'
  <1>1. /\ TurnOK' /\ PolicyOK' /\ HistoryOK' /\ config' \in Configs
    BY TurnUnchanged, SessionUnchanged DEF TurnInv, EditQuestions
  <1>2. PICK questions \in Edited : items' = [items EXCEPT ![id].questions = questions]
    BY DEF EditQuestions
  <1>3. PICK v : v = [items[id] EXCEPT !.questions = questions]
    OBVIOUS
  <1>4. questions \subseteq Texts
    BY ServiceAssumption
  <1>5. items[id] \in Item /\ items' = [items EXCEPT ![id] = v] /\ ~ items[id].live
    BY <1>2, <1>3 DEF TurnInv, ItemsOK, EditQuestions
  <1>6. /\ v \in Item /\ v.live = items[id].live /\ v.version = items[id].version
        /\ v.signed = items[id].signed
    BY <1>3, <1>4, <1>5 DEF Item
  <1>7. /\ items' \in [Ids -> Item]
        /\ \A i \in Ids : /\ items'[i].version = items[i].version
                          /\ items'[i].signed = items[i].signed
                          /\ items'[i].live = items[i].live
                          /\ i # id => items'[i] = items[i]
    BY <1>5, <1>6 DEF TurnInv, ItemsOK
  <1>8. ItemsOK'
    BY <1>5, <1>7 DEF TurnInv, ItemsOK
  <1>9. PublicNow' = PublicNow
    BY <1>7 DEF PublicNow, Live
  <1>10. /\ UNCHANGED <<config, history, turn, sent, public>>
         /\ edited' = Touched(id)
    BY DEF EditQuestions
  <1>11. SentOK'
    BY <1>9, <1>10 DEF TurnInv, SentOK, Busy, Reached, Touched
  <1>12. ReadOK'
    <2> SUFFICES ASSUME Reached("reading")
                 PROVE  ReadOK'
      BY <1>10 DEF ReadOK, Reached
    <2>1. turn.known.rows \subseteq public /\ public \subseteq Ids \X Nat
      BY DEF TurnInv, ReadOK, SentOK
    <2>2. \A row \in turn.known.rows : row[1] \in Ids
      BY <2>1
    <2>3. edited' = edited \cup {id}
      BY <1>10 DEF Touched
    <2> QED BY <1>7, <1>10, <2>2, <2>3 DEF TurnInv, ReadOK, Reached
  <1>13. ReplyOK' /\ AnswersWerePublished' /\ TornReadNeedsEdit'
    BY <1>7, <1>10 DEF TurnInv, ReplyOK, AnswersWerePublished, TornReadNeedsEdit, Reached
  <1> QED BY <1>1, <1>8, <1>11, <1>12, <1>13 DEF TurnInv

LEMMA PublishKeepsInv ==
  ASSUME TurnInv, NEW id \in Ids, PublishNext(id)
  PROVE  TurnInv'
  <1>1. /\ TurnOK' /\ PolicyOK' /\ HistoryOK' /\ config' \in Configs
    BY TurnUnchanged, SessionUnchanged DEF TurnInv, PublishNext
  <1>2. PICK v : v = [live |-> TRUE, version |-> items[id].version + 1,
                      questions |-> items[id].questions, signed |-> items[id].questions]
    OBVIOUS
  <1>3. /\ items[id] \in Item /\ items' = [items EXCEPT ![id] = v]
        /\ items[id].version + 1 \in Versions(id)
    BY <1>2 DEF TurnInv, ItemsOK, PublishNext
  <1>4. /\ v \in Item /\ v.live = TRUE /\ v.version = items[id].version + 1
        /\ v.questions = v.signed
    BY <1>2, <1>3 DEF Item
  <1>5. /\ items' \in [Ids -> Item] /\ items'[id] = v
        /\ \A i \in Ids : i # id => items'[i] = items[i]
    BY <1>3, <1>4 DEF TurnInv, ItemsOK
  <1>6. \A i \in Ids : items[i].version \in Nat
    BY DEF TurnInv, ItemsOK, Item
  <1>7. ItemsOK'
    BY <1>3, <1>4, <1>5 DEF TurnInv, ItemsOK
  <1>8. PublicNow' \subseteq PublicNow \cup {<<id, items[id].version + 1>>}
    BY <1>4, <1>5 DEF PublicNow, Live
  <1>9. /\ UNCHANGED <<config, history, turn, sent, edited>>
        /\ public' = IF Busy THEN public \cup {<<id, items[id].version + 1>>} ELSE public
    BY DEF PublishNext
  <1>10. SentOK'
    <2>1. items[id].version + 1 \in Nat
      BY <1>6
    <2> QED BY <1>8, <1>9, <2>1 DEF TurnInv, SentOK, Busy, Reached
  <1>11. ReadOK'
    <2> SUFFICES ASSUME Reached("reading")
                 PROVE  ReadOK'
      BY <1>9 DEF ReadOK, Reached
    <2>1. turn.known.rows \subseteq public /\ public \subseteq Ids \X Nat /\ public \subseteq public'
      BY <1>9 DEF TurnInv, ReadOK, SentOK
    <2>2. ASSUME NEW row \in turn.known.rows
          PROVE  /\ row[2] <= items'[row[1]].version
                 /\ row[2] = items'[row[1]].version =>
                      row[1] \in edited \/ items'[row[1]].questions = items'[row[1]].signed
      <3>1. row[1] \in Ids /\ row[2] \in Nat /\ row[2] <= items[row[1]].version
        BY <2>1 DEF TurnInv, ReadOK
      <3> QED BY <1>4, <1>5, <1>6, <3>1 DEF TurnInv, ReadOK
    <2> QED BY <1>9, <2>1, <2>2 DEF ReadOK, Reached
  <1>12. ReplyOK' /\ AnswersWerePublished' /\ TornReadNeedsEdit'
    <2> SUFFICES ASSUME Reached("answered")
                 PROVE  ReplyOK' /\ AnswersWerePublished' /\ TornReadNeedsEdit'
      BY <1>9 DEF ReplyOK, AnswersWerePublished, TornReadNeedsEdit, Reached
    <2>1. ASSUME turn.known.reply.decision = "answer"
          PROVE  /\ turn.known.reply.id \in Ids
                 /\ turn.known.reply.version <= items'[turn.known.reply.id].version
                 /\ \/ turn.known.reply.id # id
                    \/ turn.known.reply.version # items'[turn.known.reply.id].version
      <3>1. PICK i \in Ids : i = turn.known.reply.id
        BY <2>1 DEF TurnInv, ReplyOK
      <3>2. PICK k \in Nat : k = turn.known.reply.version
        BY <2>1 DEF TurnInv, AnswersWerePublished, SentOK
      <3>3. k <= items[i].version
        BY <2>1, <3>1, <3>2 DEF TurnInv, ReplyOK
      <3> QED BY <1>4, <1>5, <1>6, <3>1, <3>2, <3>3
    <2>2. ReplyOK'
      BY <1>9, <2>1 DEF TurnInv, ReplyOK, Reached
    <2>3. AnswersWerePublished'
      <3>1. public \subseteq public'
        BY <1>9
      <3> QED BY <1>9, <3>1 DEF TurnInv, AnswersWerePublished, Reached
    <2>4. TornReadNeedsEdit'
      BY <1>5, <1>9, <2>1 DEF TurnInv, TornReadNeedsEdit, Reached
    <2> QED BY <2>2, <2>3, <2>4
  <1> QED BY <1>1, <1>7, <1>10, <1>11, <1>12 DEF TurnInv

-----------------------------------------------------------------------------
(* The request, and the workers before the evaluation *)

\* Only turns under evaluation or answered have more to account for.
LEMMA BeforeEvaluation ==
  ASSUME turn'.stage \in {"idle", "asked"}
  PROVE  PolicyOK' /\ ReadOK' /\ ReplyOK' /\ AnswersWerePublished' /\ TornReadNeedsEdit'
  BY DEF PolicyOK, ReadOK, ReplyOK, AnswersWerePublished, TornReadNeedsEdit, Reached

LEMMA AskKeepsInv ==
  ASSUME TurnInv, NEW u \in Texts, NEW channel, NEW reply, Ask(u, channel, reply)
  PROVE  TurnInv'
  <1>1. /\ ~ Busy /\ public' = PublicNow /\ UNCHANGED <<config, items, history, sent, edited>>
    BY DEF Ask
  <1>2. PICK conv, known :
          /\ turn' = [stage |-> "asked", said |-> u, channel |-> channel, first |-> Preflight(u),
                      ack |-> "none", conv |-> conv, known |-> known]
          /\ conv \in {[kind |-> "pending"], NoConversation}
    BY DEF Ask
  <1>3. /\ Formed(turn') /\ turn'.stage = "asked" /\ turn'.said = u /\ turn'.ack = "none"
        /\ turn'.first = Preflight(u) /\ turn'.conv = conv
    BY <1>2 DEF Formed
  <1>4. conv.kind \in {"pending", "none"}
    BY <1>2 DEF NoConversation
  <1>5. TurnOK'
    BY <1>3, <1>4 DEF TurnOK, Busy, Reached, FollowUpKinds
  <1>6. ItemsOK' /\ HistoryOK' /\ PublicNow' = PublicNow
    BY <1>1, ItemsUnchanged, SessionUnchanged DEF TurnInv
  <1>7. PublicNow \subseteq Ids \X Nat
    BY DEF TurnInv, ItemsOK, Item, PublicNow, Live
  <1>8. SentOK'
    BY <1>1, <1>3, <1>6, <1>7 DEF TurnInv, SentOK, Busy, Reached
  <1> QED BY <1>1, <1>3, <1>5, <1>6, <1>8, BeforeEvaluation DEF TurnInv

LEMMA RecalledIsSound ==
  ASSUME HistoryOK
  PROVE  Recalled \subseteq Texts /\ Recalled \cap Sensitive \subseteq Unscanned
  <1>1. ASSUME NEW q, Bounded(q) PROVE Parts(q) \subseteq Texts
    <2>1. PICK s \in Seq(Texts) : s = q
      BY <1>1 DEF Bounded
    <2>2. DOMAIN s = 1 .. Len(s) /\ \A i \in 1 .. Len(s) : s[i] \in Texts
      BY LenProperties, ElementOfSeq
    <2> QED BY <2>1, <2>2 DEF Parts
  <1>2. \A i \in DOMAIN history : /\ Parts(history[i].query) \subseteq Texts
                                  /\ Parts(history[i].query) \cap Sensitive \subseteq Unscanned
    BY <1>1 DEF HistoryOK, SoundExchange
  <1> QED BY <1>2 DEF Recalled

LEMMA ResolveKeepsInv ==
  ASSUME TurnInv, Resolve
  PROVE  TurnInv'
  <1>1. /\ Reached("asked") /\ turn.conv.kind = "pending"
        /\ UNCHANGED <<config, items, history, public, edited>>
        /\ sent' \subseteq sent \cup (IF AsksAnalyzer(turn.said, history, config.semantic)
                                      THEN {turn.said} \cup Recalled ELSE {})
    BY DEF Resolve
  <1>2. PICK conv \in Resolutions(turn.said, history, config.semantic) :
          turn' = [turn EXCEPT !.conv = conv]
    BY DEF Resolve
  <1>3. Busy /\ Formed(turn) /\ turn.stage = "asked" /\ turn.said \in Texts
    BY <1>1 DEF TurnInv, TurnOK, Busy, Reached
  <1>4. turn' = [stage |-> "asked", said |-> turn.said, channel |-> turn.channel,
                 first |-> turn.first, ack |-> turn.ack, conv |-> conv, known |-> turn.known]
    BY <1>2, <1>3 DEF Formed
  <1>5. /\ Formed(turn') /\ turn'.stage = "asked" /\ turn'.said = turn.said /\ turn'.ack = turn.ack
        /\ turn'.first = turn.first /\ turn'.conv = conv
    BY <1>4 DEF Formed
  <1>6. conv.kind \in FollowUpKinds /\ Resolved(conv, turn.said, history, config.semantic)
    BY <1>2, <1>3, ResolutionsAre DEF TurnInv
  <1>7. TurnOK'
    BY <1>1, <1>3, <1>5, <1>6 DEF TurnInv, TurnOK, Busy, Reached, FollowUpKinds
  <1>8. ItemsOK' /\ HistoryOK' /\ PublicNow' = PublicNow
    BY <1>1, ItemsUnchanged, SessionUnchanged DEF TurnInv
  <1>9. AsksAnalyzer(turn.said, history, config.semantic) => turn.said \notin Sensitive
    BY DEF AsksAnalyzer
  <1>10. SentOK'
    BY <1>1, <1>3, <1>5, <1>8, <1>9, RecalledIsSound DEF TurnInv, SentOK, Busy, Reached
  <1> QED BY <1>1, <1>5, <1>7, <1>8, <1>10, BeforeEvaluation DEF TurnInv

LEMMA PreflightScans ==
  ASSUME TurnOK, Busy
  PROVE  /\ turn.first = SensitiveResult <=> turn.said \in Sensitive
         /\ turn.first # SensitiveResult => turn.first = Classify(<<turn.said>>) /\ Ruled(turn.first)
  <1>1. Ruled(Classify(<<turn.said>>))
    BY ClassifyIsRuled
  <1>2. Classify(<<turn.said>>) # SensitiveResult
    BY <1>1 DEF Ruled, SensitiveResult, Result
  <1> QED BY <1>1, <1>2 DEF TurnOK, Preflight

LEMMA PrefetchKeepsInv ==
  ASSUME TurnInv, Prefetch
  PROVE  TurnInv'
  <1>1. /\ Reached("asked") /\ UNCHANGED <<config, items, history, public, edited>>
    BY DEF Prefetch
  <1>2. PICK known : turn' = [turn EXCEPT !.known = known]
    BY DEF Prefetch
  <1>3. sent' = sent \/ (turn.first # SensitiveResult /\ sent' = sent \cup {turn.said})
    BY DEF Prefetch
  <1>4. Busy /\ Formed(turn) /\ turn.stage = "asked" /\ turn.said \in Texts
    BY <1>1 DEF TurnInv, TurnOK, Busy, Reached
  <1>5. turn' = [stage |-> "asked", said |-> turn.said, channel |-> turn.channel,
                 first |-> turn.first, ack |-> turn.ack, conv |-> turn.conv, known |-> known]
    BY <1>2, <1>4 DEF Formed
  <1>6. /\ Formed(turn') /\ turn'.stage = "asked" /\ turn'.said = turn.said /\ turn'.ack = turn.ack
        /\ turn'.first = turn.first /\ turn'.conv = turn.conv
    BY <1>5 DEF Formed
  <1>7. TurnOK'
    BY <1>1, <1>4, <1>6 DEF TurnInv, TurnOK, Busy, Reached
  <1>8. ItemsOK' /\ HistoryOK' /\ PublicNow' = PublicNow
    BY <1>1, ItemsUnchanged, SessionUnchanged DEF TurnInv
  <1>9. turn.first # SensitiveResult => turn.said \notin Sensitive
    BY <1>4, PreflightScans DEF TurnInv
  <1>10. SentOK'
    BY <1>1, <1>3, <1>4, <1>6, <1>8, <1>9 DEF TurnInv, SentOK, Busy, Reached
  <1> QED BY <1>1, <1>6, <1>7, <1>8, <1>10, BeforeEvaluation DEF TurnInv

LEMMA AcknowledgeKeepsInv ==
  ASSUME TurnInv, Acknowledge
  PROVE  TurnInv'
  <1>1. /\ turn.stage \in {"asked", "judged", "reading"} /\ AllowsAcknowledgement(turn.first)
        /\ turn.conv.kind # "none"
        /\ UNCHANGED <<config, items, history, sent, public, edited>>
    BY DEF Acknowledge
  <1>2. PICK ack : /\ turn' = [turn EXCEPT !.ack = ack]
                   /\ ack = CASE turn.conv.kind = "pending" -> "context_confirmation"
                              [] turn.conv.kind = "new_question" -> "knowledge_lookup"
                              [] OTHER -> "follow_up_explanation"
    BY DEF Acknowledge
  <1>3. Busy /\ Formed(turn) /\ turn.conv.kind \in FollowUpKinds \cup {"none", "pending"}
    BY <1>1 DEF TurnInv, TurnOK, Busy
  <1>4. turn' = [stage |-> turn.stage, said |-> turn.said, channel |-> turn.channel,
                 first |-> turn.first, ack |-> ack, conv |-> turn.conv, known |-> turn.known]
    BY <1>2, <1>3 DEF Formed
  <1>5. /\ Formed(turn') /\ turn'.stage = turn.stage /\ turn'.said = turn.said /\ turn'.ack = ack
        /\ turn'.first = turn.first /\ turn'.conv = turn.conv /\ turn'.known = turn.known
    BY <1>4 DEF Formed
  <1>6. /\ ack = "knowledge_lookup" => turn.conv.kind = "new_question"
        /\ ack = "follow_up_explanation" => turn.conv.kind \in {"elaborate", "rephrase"}
    BY <1>1, <1>2, <1>3 DEF FollowUpKinds
  <1>7. TurnOK'
    BY <1>1, <1>3, <1>5, <1>6 DEF TurnInv, TurnOK, Busy, Reached
  <1>8. ItemsOK' /\ HistoryOK' /\ PublicNow' = PublicNow
    BY <1>1, ItemsUnchanged, SessionUnchanged DEF TurnInv
  <1>9. Question' = Question /\ WithoutRouter' = WithoutRouter
    BY <1>5 DEF Question, WithoutRouter, InContext
  <1>10. PolicyOK'
    BY <1>1, <1>5, <1>9 DEF TurnInv, PolicyOK, AllowedByRouter, Reached
  <1>11. ReadOK' /\ ReplyOK' /\ AnswersWerePublished' /\ TornReadNeedsEdit'
    BY <1>1, <1>5 DEF TurnInv, ReadOK, ReplyOK, AnswersWerePublished, TornReadNeedsEdit, Reached
  <1>12. SentOK'
    BY <1>1, <1>3, <1>5, <1>8 DEF TurnInv, SentOK, Busy, Reached
  <1> QED BY <1>1, <1>7, <1>8, <1>10, <1>11, <1>12 DEF TurnInv

-----------------------------------------------------------------------------
(* Evaluation *)

LEMMA BoundedParts ==
  ASSUME NEW q, Bounded(q)
  PROVE  Parts(q) \subseteq Texts
  <1>1. PICK s \in Seq(Texts) : s = q
    BY DEF Bounded
  <1>2. DOMAIN s = 1 .. Len(s) /\ \A i \in 1 .. Len(s) : s[i] \in Texts
    BY LenProperties, ElementOfSeq
  <1> QED BY <1>1, <1>2 DEF Parts

LEMMA QueryIsSound ==
  ASSUME TurnOK, Busy, turn.conv.kind # "pending"
  PROVE  /\ Bounded(Query(turn.conv, turn.said))
         /\ Parts(Query(turn.conv, turn.said)) \subseteq Texts
         /\ \A t \in Parts(Query(turn.conv, turn.said)) : t = turn.said \/ Harmless(t)
  <1>1. turn.said \in Texts
    BY DEF TurnOK
  <1>2. CASE turn.conv.kind = "none"
    BY <1>1, <1>2, SingleQuestion DEF Query
  <1>3. CASE turn.conv.kind \in FollowUpKinds
    <2>1. Resolved(turn.conv, turn.said, history, config.semantic)
      BY <1>3 DEF TurnOK
    <2>2. Query(turn.conv, turn.said) = turn.conv.query
      BY <1>3 DEF Query, FollowUpKinds
    <2> QED BY <2>1, <2>2, BoundedParts DEF Resolved
  <1> QED BY <1>2, <1>3 DEF TurnOK

LEMMA Evaluated ==
  ASSUME TurnInv, Busy, turn.conv.kind # "pending", UNCHANGED <<config, history>>,
         NEW stage \in {"judged", "reading", "answered"}, NEW known, turn' = Goes(stage, known)
  PROVE  /\ TurnOK' /\ Busy' /\ turn'.stage = stage /\ turn'.known = known
         /\ turn'.said = turn.said /\ turn'.first = turn.first /\ turn'.conv = turn.conv
         /\ turn'.ack = turn.ack
  <1>1. Formed(turn)
    BY DEF TurnInv, TurnOK
  <1>2. /\ Formed(turn') /\ turn'.stage = stage /\ turn'.known = known
        /\ turn'.said = turn.said /\ turn'.first = turn.first /\ turn'.ack = turn.ack
        /\ turn'.conv = turn.conv
    BY <1>1, TurnGoes
  <1>3. TurnOK'
    BY <1>2 DEF TurnInv, TurnOK, Busy, Reached
  <1> QED BY <1>2, <1>3 DEF Busy

LEMMA RefusalKeepsInv ==
  ASSUME TurnInv, Busy, turn.conv.kind # "pending",
         NEW decision \in {"handoff", "refuse"}, NEW rule, turn' = Refusal(decision, rule),
         rule \in HardIds \cup {"PII-001"} => turn.first = SensitiveResult \/ Hard(turn.first),
         turn.first = SensitiveResult => rule = "PII-001",
         UNCHANGED <<config, items, history, sent, public>>, edited' = {}
  PROVE  TurnInv'
  <1>1. PICK reply : reply = [decision |-> decision, rule |-> rule, id |-> NoId]
    OBVIOUS
  <1>2. reply.decision = decision /\ reply.rule = rule /\ reply.id = NoId
    BY <1>1
  <1>3. PICK known : known = [reply |-> reply]
    OBVIOUS
  <1>4. turn' = Goes("answered", known) /\ known.reply = reply
    BY <1>1, <1>3 DEF Refusal, Replied
  <1>5. /\ TurnOK' /\ Busy' /\ turn'.stage = "answered" /\ turn'.known = known
        /\ turn'.first = turn.first
    BY <1>4, Evaluated
  <1>6. ItemsOK' /\ HistoryOK' /\ PublicNow' = PublicNow
    BY ItemsUnchanged, SessionUnchanged DEF TurnInv
  <1>7. PolicyOK' /\ ReadOK'
    BY <1>5 DEF PolicyOK, ReadOK, Reached
  <1>8. ReplyOK' /\ AnswersWerePublished' /\ TornReadNeedsEdit'
    BY <1>2, <1>4, <1>5 DEF ReplyOK, AnswersWerePublished, TornReadNeedsEdit, Reached
  <1>9. SentOK'
    BY <1>5, <1>6 DEF TurnInv, SentOK, Reached
  <1> QED BY <1>5, <1>6, <1>7, <1>8, <1>9 DEF TurnInv

LEMMA RefuseSensitiveKeepsInv ==
  ASSUME TurnInv, RefuseSensitive
  PROVE  TurnInv'
  <1>1. /\ Reached("asked") /\ turn.conv.kind # "pending" /\ turn.first = SensitiveResult
        /\ turn' = Refusal("refuse", SensitiveResult.rule)
        /\ UNCHANGED <<config, items, history, sent, public, edited>>
    BY DEF RefuseSensitive, Prepared
  <1>2. SensitiveResult.rule = "PII-001"
    BY DEF SensitiveResult, Result
  <1>3. Busy /\ edited' = {}
    BY <1>1 DEF TurnInv, SentOK, Reached, Busy
  <1> QED BY <1>1, <1>2, <1>3, RefusalKeepsInv

LEMMA RejectKeepsInv ==
  ASSUME TurnInv, Reject
  PROVE  TurnInv'
  <1>1. /\ Reached("judged") /\ turn.known.policy.action # "allow"
        /\ turn' = Refusal(turn.known.policy.action, turn.known.policy.rule)
        /\ UNCHANGED <<config, items, history, sent, public, edited>>
    BY DEF Reject
  <1>2. Busy /\ edited' = {} /\ turn.conv.kind # "pending"
    BY <1>1 DEF TurnInv, TurnOK, SentOK, Reached, Busy
  <1>3. /\ turn.known.policy.action \in {"handoff", "refuse"}
        /\ turn.known.policy.rule \in HardIds \cup {"PII-001"} => Hard(turn.first)
        /\ turn.first # SensitiveResult
    BY <1>1 DEF TurnInv, PolicyOK, Reached
  <1>4. PICK decision, rule : /\ decision \in {"handoff", "refuse"}
                              /\ decision = turn.known.policy.action
                              /\ rule = turn.known.policy.rule
    BY <1>3
  <1> QED BY <1>1, <1>2, <1>3, <1>4, RefusalKeepsInv

LEMMA NotHardRules ==
  {"SYS-FIXED-001", "KNO-001", "KNO-002", "ASR-ALIAS-001", "ASR-ALIAS-002", "CTX-FOLLOW-UP-001",
   "LLM-HANDOFF-001", "LLM-DEFAULT-DENY", "LLM-ALLOW-001", "LLM-ALLOW-RISK-NOTED-001",
   "SYS-INTENT-ROUTER-ERROR"}
    \cap (HardIds \cup {"PII-001"}) = {}
  BY RefusalIdsAre DEF HardIds

LEMMA FixedMessageKeepsInv ==
  ASSUME TurnInv, FixedMessage
  PROVE  TurnInv'
  <1>1. /\ Reached("judged") /\ turn' = Refusal("refuse", "SYS-FIXED-001")
        /\ UNCHANGED <<config, items, history, sent, public, edited>>
    BY DEF FixedMessage
  <1>2. /\ Busy /\ edited' = {} /\ turn.conv.kind # "pending"
        /\ turn.first # SensitiveResult
    BY <1>1 DEF TurnInv, TurnOK, PolicyOK, SentOK, Reached, Busy
  <1> QED BY <1>1, <1>2, NotHardRules, RefusalKeepsInv

LEMMA KnowledgeUnavailableKeepsInv ==
  ASSUME TurnInv, KnowledgeUnavailable
  PROVE  TurnInv'
  <1>1. /\ turn.stage \in {"judged", "reading"} /\ turn' = Refusal("refuse", "KNO-002")
        /\ UNCHANGED <<config, items, history, sent, public>> /\ edited' = {}
    BY DEF KnowledgeUnavailable, Answerable, Reached
  <1>2. Busy /\ turn.conv.kind # "pending" /\ turn.first # SensitiveResult
    BY <1>1 DEF TurnInv, TurnOK, PolicyOK, Reached, Busy
  <1> QED BY <1>1, <1>2, NotHardRules, RefusalKeepsInv

LEMMA ReadItemsKeepsInv ==
  ASSUME TurnInv, ReadItems
  PROVE  TurnInv'
  <1>1. /\ Reached("judged") /\ turn.known.policy.action = "allow"
        /\ UNCHANGED <<config, items, history, sent, public, edited>>
    BY DEF ReadItems, Answerable
  <1>2. PICK known : known = [policy |-> turn.known.policy, mayRefer |-> turn.known.mayRefer,
                              rows |-> IF config.knowledge THEN PublicNow ELSE {}]
    OBVIOUS
  <1>3. turn' = Goes("reading", known)
    BY <1>2 DEF ReadItems
  <1>4. known.policy = turn.known.policy /\ known.rows \subseteq PublicNow
    BY <1>2
  <1>5. Busy /\ turn.conv.kind # "pending" /\ edited = {}
    BY <1>1 DEF TurnInv, TurnOK, SentOK, Reached, Busy
  <1>6. /\ TurnOK' /\ Busy' /\ turn'.stage = "reading" /\ turn'.known = known
        /\ turn'.first = turn.first
    BY <1>1, <1>3, <1>5, Evaluated
  <1>7. ItemsOK' /\ HistoryOK' /\ PublicNow' = PublicNow
    BY <1>1, ItemsUnchanged, SessionUnchanged DEF TurnInv
  <1>8. PolicyOK'
    BY <1>1, <1>4, <1>6 DEF TurnInv, PolicyOK, Reached
  <1>9. ReadOK'
    <2>1. PublicNow \subseteq public
      BY <1>5 DEF TurnInv, SentOK
    <2>2. \A row \in PublicNow : /\ row[1] \in Ids /\ row[2] = items[row[1]].version
                                 /\ row[2] \in Nat
                                 /\ items[row[1]].questions = items[row[1]].signed
      BY DEF TurnInv, ItemsOK, Item, PublicNow, Live
    <2> QED BY <1>1, <1>4, <1>6, <2>1, <2>2 DEF ReadOK, Reached
  <1>10. ReplyOK' /\ AnswersWerePublished' /\ TornReadNeedsEdit'
    BY <1>6 DEF ReplyOK, AnswersWerePublished, TornReadNeedsEdit, Reached
  <1>11. SentOK'
    BY <1>1, <1>5, <1>6, <1>7 DEF TurnInv, SentOK, Reached
  <1> QED BY <1>1, <1>6, <1>7, <1>8, <1>9, <1>10, <1>11 DEF TurnInv

LEMMA WithoutRouterIsRuled ==
  ASSUME TurnOK, Busy, turn.first # SensitiveResult
  PROVE  Ruled(WithoutRouter) /\ (Hard(WithoutRouter) <=> Hard(turn.first))
  <1>1. Ruled(turn.first)
    BY PreflightScans
  <1>2. CASE ~ InContext \/ Classify(turn.conv.query).action # "allow"
    BY <1>1, <1>2 DEF WithoutRouter
  <1>3. CASE InContext /\ Classify(turn.conv.query).action = "allow"
    <2>1. WithoutRouter = Classify(turn.conv.query)
      BY <1>3 DEF WithoutRouter
    <2>2. Ruled(WithoutRouter) /\ WithoutRouter.action = "allow"
      BY <1>3, <2>1, ClassifyIsRuled
    <2>3. ~ Hard(WithoutRouter)
      BY <2>2 DEF Ruled
    <2>4. ~ Hard(turn.first)
      BY <1>3 DEF InContext, CanApplyContext
    <2> QED BY <2>2, <2>3, <2>4
  <1> QED BY <1>2, <1>3

LEMMA RoutedIs ==
  ASSUME NEW mode, NEW result, Ruled(result), ~ Hard(result), NEW route
  PROVE  /\ Routed(mode, result, route).action \in {"handoff", "refuse", "allow"}
         /\ Routed(mode, result, route).rule \notin HardIds \cup {"PII-001"}
         /\ Routed(mode, result, route).action = "allow" =>
              \/ Routed(mode, result, route) = result
              \/ /\ mode # "shadow"
                 /\ Routed(mode, result, route).rule \in {"LLM-ALLOW-001", "LLM-ALLOW-RISK-NOTED-001"}
         /\ mode = "shadow" =>
              \/ Routed(mode, result, route) = result
              \/ result = DefaultDeny /\ Routed(mode, result, route) = RoutingFailure(DefaultDeny)
  <1>1. PICK r : r = Routed(mode, result, route)
    OBVIOUS
  <1>2. result.action \in {"handoff", "refuse", "allow"} /\ result.rule \notin HardIds \cup {"PII-001"}
    BY DEF Ruled
  <1>3. CASE r = result
    BY <1>1, <1>2, <1>3
  <1>4. CASE r = RoutingFailure(result) /\ r # result
    <2>1. result.rule = "POL-DEFAULT-DENY"
      BY <1>4 DEF RoutingFailure
    <2>2. result = DefaultDeny
      BY <2>1 DEF Ruled
    <2>3. r.action = "refuse" /\ r.rule = "SYS-INTENT-ROUTER-ERROR"
      BY <1>4, <2>1 DEF RoutingFailure, Result
    <2> QED BY <1>1, <1>4, <2>2, <2>3, NotHardRules
  <1>5. CASE r = RouteResult(route) /\ mode # "shadow"
    <2>1. \/ r.action = "handoff" /\ r.rule = "LLM-HANDOFF-001"
          \/ r.action = "refuse" /\ r.rule = "LLM-DEFAULT-DENY"
          \/ r.action = "allow" /\ r.rule \in {"LLM-ALLOW-001", "LLM-ALLOW-RISK-NOTED-001"}
      BY <1>5 DEF RouteResult, Result
    <2> QED BY <1>1, <1>5, <2>1, NotHardRules
  <1> QED BY <1>1, <1>3, <1>4, <1>5 DEF Routed, Decisive

LEMMA JudgeKeepsInv ==
  ASSUME TurnInv, Judge
  PROVE  TurnInv'
  <1>1. /\ Reached("asked") /\ turn.conv.kind # "pending" /\ turn.first # SensitiveResult
        /\ UNCHANGED <<config, items, history, public, edited>>
        /\ sent' \subseteq sent \cup Parts(Question)
    BY DEF Judge, Prepared
  <1>2. PICK result : result = WithoutRouter
    OBVIOUS
  <1>3. PICK usable, route, policy :
          /\ turn' = Goes("judged", [question |-> Question, mayRefer |-> MayRefer(route),
                                     policy |-> policy])
          /\ usable <=> CanUseRouter(config.router, result)
          /\ policy = IF usable THEN Routed(config.router, result, route) ELSE result
    BY <1>2 DEF Judge
  <1>4. PICK known : known = [question |-> Question, mayRefer |-> MayRefer(route), policy |-> policy]
    OBVIOUS
  <1>5. known.question = Question /\ known.policy = policy
    BY <1>4
  <1>6. Busy /\ turn.said \in Texts /\ turn.said \notin Sensitive
    BY <1>1, PreflightScans DEF TurnInv, TurnOK, Reached, Busy
  <1>7. /\ TurnOK' /\ Busy' /\ turn'.stage = "judged" /\ turn'.known = known
        /\ turn'.first = turn.first /\ turn'.said = turn.said /\ turn'.conv = turn.conv
    BY <1>1, <1>3, <1>4, <1>6, Evaluated
  <1>8. ItemsOK' /\ HistoryOK' /\ PublicNow' = PublicNow
    BY <1>1, ItemsUnchanged, SessionUnchanged DEF TurnInv
  <1>9. Ruled(result) /\ (Hard(result) <=> Hard(turn.first))
    BY <1>1, <1>2, <1>6, WithoutRouterIsRuled DEF TurnInv
  <1>10. /\ policy.action \in {"handoff", "refuse", "allow"}
         /\ policy.action = "allow" => ~ Hard(turn.first)
         /\ policy.rule \in HardIds => Hard(turn.first)
         /\ policy.rule # "PII-001"
         /\ policy.action = "allow" => policy = result \/ AllowedByRouter(policy)
         /\ config.router # "controlled" =>
              policy = result \/ (result = DefaultDeny /\ policy = RoutingFailure(DefaultDeny))
    <2>1. CASE ~ usable
      BY <1>3, <1>9, <2>1 DEF Ruled
    <2>2. CASE usable
      <3>1. ~ Hard(result) /\ config.router # "disabled" /\ policy = Routed(config.router, result, route)
        BY <1>3, <2>2 DEF CanUseRouter
      <3>2. config.router # "controlled" => config.router = "shadow"
        BY <3>1, ServiceAssumption DEF TurnInv
      <3> QED BY <1>9, <3>1, <3>2, RoutedIs DEF AllowedByRouter
    <2> QED BY <2>1, <2>2
  <1>11. Question' = Question /\ WithoutRouter' = result
    BY <1>2, <1>7 DEF Question, WithoutRouter, InContext
  <1>12. PolicyOK'
    BY <1>1, <1>5, <1>7, <1>10, <1>11 DEF PolicyOK, AllowedByRouter, Reached
  <1>13. /\ Parts(Question) \subseteq Texts /\ Parts(Question) \cap Sensitive \subseteq Unscanned
    <2>1. CASE ~ InContext
      BY <1>6, <2>1, SingleQuestion DEF Question
    <2>2. CASE InContext
      <3>1. Question = Query(turn.conv, turn.said)
        BY <2>2 DEF Question, Query, InContext
      <3> QED BY <1>1, <1>6, <3>1, QueryIsSound DEF TurnInv, Harmless
    <2> QED BY <2>1, <2>2
  <1>14. SentOK'
    BY <1>1, <1>6, <1>7, <1>8, <1>13 DEF TurnInv, SentOK, Reached
  <1>15. ReadOK' /\ ReplyOK' /\ AnswersWerePublished' /\ TornReadNeedsEdit'
    BY <1>7 DEF ReadOK, ReplyOK, AnswersWerePublished, TornReadNeedsEdit, Reached
  <1> QED BY <1>1, <1>7, <1>8, <1>12, <1>14, <1>15 DEF TurnInv

LEMMA AnswerKeepsInv ==
  ASSUME TurnInv, Answer
  PROVE  TurnInv'
  <1>1. /\ Reached("reading") /\ edited' = {}
        /\ UNCHANGED <<config, items, history, public>>
        /\ sent' \subseteq sent \cup {turn.said} \cup Parts(Query(turn.conv, turn.said)) \cup Shown
    BY DEF Answer
  <1>2. PICK e, outcome :
          /\ outcome \in Retrieved(turn.said, turn.channel, turn.conv, turn.known.policy,
                                   turn.known.mayRefer, Documents(turn.known.rows), history, e)
          /\ \E reply \in Replies(outcome) : turn' = Replied(reply)
    BY DEF Answer
  <1>3. PICK reply \in Replies(outcome) : turn' = Replied(reply)
    BY <1>2
  <1>4. PICK known : known = [reply |-> reply]
    OBVIOUS
  <1>5. turn' = Goes("answered", known) /\ known.reply = reply
    BY <1>3, <1>4 DEF Replied
  <1>6. /\ Busy /\ turn.conv.kind # "pending" /\ turn.first # SensitiveResult /\ ~ Hard(turn.first)
        /\ turn.known.policy.rule \notin HardIds \cup {"PII-001"}
        /\ turn.said \in Texts
    BY <1>1 DEF TurnInv, TurnOK, PolicyOK, Reached, Busy
  <1>7. turn.said \notin Sensitive
    BY <1>6, PreflightScans DEF TurnInv
  <1>8. /\ TurnOK' /\ Busy' /\ turn'.stage = "answered" /\ turn'.known = known
        /\ turn'.first = turn.first
    BY <1>1, <1>5, <1>6, Evaluated
  <1>9. ItemsOK' /\ HistoryOK' /\ PublicNow' = PublicNow
    BY <1>1, ItemsUnchanged, SessionUnchanged DEF TurnInv
  <1>10. PICK rows : rows = turn.known.rows
    OBVIOUS
  <1>11. /\ rows \subseteq public
         /\ \A row \in rows :
              /\ row[1] \in Ids /\ row[2] <= items[row[1]].version /\ row = <<row[1], row[2]>>
              /\ row[2] = items[row[1]].version =>
                   row[1] \in edited \/ items[row[1]].questions = items[row[1]].signed
    BY <1>1, <1>10 DEF TurnInv, ReadOK, SentOK
  <1>12. \/ outcome.kind \in {"none", "clarify"}
         \/ /\ outcome.kind = "match" /\ outcome.doc \in Documents(rows)
            /\ outcome.rule \in {turn.known.policy.rule, "CTX-FOLLOW-UP-001", "ASR-ALIAS-001"}
    BY <1>2, <1>10, RetrievedOutcomes
  <1>13. \/ /\ reply.decision \in {"refuse", "clarify"} /\ reply.id = NoId
            /\ reply.rule \in {"KNO-001", "ASR-ALIAS-002"}
         \/ \E row \in rows :
              /\ reply.decision = "answer" /\ reply.id = row[1] /\ reply.version = row[2]
              /\ reply.rule \notin HardIds \cup {"PII-001"}
              /\ reply.matched = items[row[1]].questions
              /\ reply.torn <=> row[1] \in edited
              /\ reply.facts \cap Recognised \subseteq
                   FactsIn(Approved[row[1]][row[2]], DOMAIN Approved[row[1]][row[2]])
    <2>1. CASE outcome.kind = "none"
      BY <1>3, <2>1 DEF Replies
    <2>2. CASE outcome.kind = "clarify"
      BY <1>3, <2>2 DEF Replies
    <2>3. CASE outcome.kind = "match"
      <3>1. PICK row \in rows : outcome.doc = [id |-> row[1], version |-> row[2],
                                               questions |-> items[row[1]].questions]
        BY <1>12, <2>3 DEF Documents
      <3>2. PICK segments : segments = Approved[row[1]][row[2]]
        OBVIOUS
      <3>3. /\ outcome.doc.id = row[1] /\ outcome.doc.version = row[2]
            /\ outcome.doc.questions = items[row[1]].questions
        BY <3>1
      <3>4. /\ reply.decision = "answer" /\ reply.rule = outcome.rule
            /\ reply.id = row[1] /\ reply.version = row[2]
            /\ reply.matched = items[row[1]].questions
            /\ reply.torn = (row[1] \in edited)
            /\ \/ reply.facts \in ExactAnswers(segments, config.answer)
               \/ reply.facts \in NaturalAnswers(segments, turn.said, turn.conv)
        BY <1>3, <2>3, <3>2, <3>3 DEF Replies
      <3>5. reply.facts \cap Recognised \subseteq FactsIn(segments, DOMAIN segments)
        BY <3>4, AnswersAreApproved
      <3>6. reply.rule \notin HardIds \cup {"PII-001"}
        BY <1>6, <1>12, <2>3, <3>4, NotHardRules
      <3> QED BY <3>2, <3>4, <3>5, <3>6
    <2> QED BY <1>12, <2>1, <2>2, <2>3
  <1>14. ReplyOK'
    BY <1>1, <1>5, <1>6, <1>8, <1>11, <1>13, NotHardRules DEF ReplyOK, Reached
  <1>15. AnswersWerePublished'
    BY <1>1, <1>5, <1>8, <1>11, <1>13 DEF AnswersWerePublished, Reached
  <1>16. TornReadNeedsEdit'
    BY <1>1, <1>5, <1>8, <1>11, <1>13 DEF TornReadNeedsEdit, Reached
  <1>17. PolicyOK' /\ ReadOK'
    BY <1>8 DEF PolicyOK, ReadOK, Reached
  <1>18. /\ Shown \subseteq Recalled
         /\ Parts(Query(turn.conv, turn.said)) \subseteq Texts
         /\ Parts(Query(turn.conv, turn.said)) \cap Sensitive \subseteq Unscanned
    BY <1>6, <1>7, QueryIsSound DEF TurnInv, Harmless, Shown, Recalled
  <1>19. SentOK'
    BY <1>1, <1>6, <1>7, <1>8, <1>9, <1>18, RecalledIsSound DEF TurnInv, SentOK, Reached
  <1> QED BY <1>1, <1>8, <1>9, <1>14, <1>15, <1>16, <1>17, <1>19 DEF TurnInv

-----------------------------------------------------------------------------
(* The session *)

LEMMA IdleKeepsInv ==
  ASSUME TurnInv, turn' = IdleTurn, sent' = {}, public' = {}, edited' = {}, HistoryOK',
         UNCHANGED <<config, items>>
  PROVE  TurnInv'
  <1>1. turn'.stage = "idle"
    BY DEF IdleTurn
  <1>2. ItemsOK'
    BY ItemsUnchanged DEF TurnInv
  <1>3. TurnOK' /\ SentOK'
    BY <1>1 DEF TurnOK, SentOK, Busy, Reached
  <1> QED BY <1>1, <1>2, <1>3, BeforeEvaluation DEF TurnInv

LEMMA RecordKeepsInv ==
  ASSUME TurnInv, Record
  PROVE  TurnInv'
  <1>1. /\ Reached("answered") /\ turn' = IdleTurn /\ sent' = {} /\ public' = {}
        /\ UNCHANGED <<config, items, edited>>
    BY DEF Record
  <1>2. Busy /\ turn.conv.kind # "pending" /\ turn.said \in Texts /\ edited = {}
    BY <1>1 DEF TurnInv, TurnOK, SentOK, Busy, Reached
  <1>3. HistoryOK'
    <2>1. CASE history' = history
      BY <2>1, SessionUnchanged DEF TurnInv
    <2>2. CASE turn.known.reply.rule # "PII-001"
      <3>1. PICK x : x = [query |-> Query(turn.conv, turn.said), id |-> turn.known.reply.id]
        OBVIOUS
      <3>2. x.query = Query(turn.conv, turn.said) /\ x.id = turn.known.reply.id
        BY <3>1
      <3>3. history' = Kept(history, x)
        BY <2>2, <3>1 DEF Record
      <3>4. turn.said \notin Sensitive
        BY <1>1, <1>2, <2>2, PreflightScans DEF TurnInv, ReplyOK
      <3>5. x.id \in Ids \cup {NoId}
        BY <1>1, <3>2 DEF TurnInv, ReplyOK
      <3>6. x.id # NoId => Harmless(turn.said)
        <4>1. x.id # NoId => turn.first # SensitiveResult /\ ~ Hard(turn.first)
          BY <1>1, <3>2 DEF TurnInv, ReplyOK
        <4>2. turn.first # SensitiveResult => turn.first = Classify(<<turn.said>>)
          BY <1>2, PreflightScans DEF TurnInv
        <4> QED BY <3>4, <4>1, <4>2 DEF Harmless
      <3>7. SoundExchange(x)
        BY <1>2, <3>2, <3>4, <3>5, <3>6, QueryIsSound DEF TurnInv, SoundExchange, Harmless
      <3>8. PICK S : S = [query : Seq(Texts), id : Ids \cup {NoId}]
        OBVIOUS
      <3>9. x \in S
        <4>1. x.query \in Seq(Texts)
          BY <3>7 DEF SoundExchange, Bounded
        <4>2. PICK q : q = Query(turn.conv, turn.said)
          OBVIOUS
        <4> QED BY <3>1, <3>2, <3>5, <3>8, <4>1, <4>2
      <3>10. history \in Seq(S) /\ Len(history) <= MaxTurns
        BY <3>8 DEF TurnInv, HistoryOK
      <3>11. PICK k : k = Kept(history, x)
        OBVIOUS
      <3>12. /\ k \in Seq(S) /\ Len(k) <= MaxTurns
             /\ \A i \in DOMAIN k : k[i] = x \/ \E j \in DOMAIN history : k[i] = history[j]
        BY <3>9, <3>10, <3>11, KeptShape
      <3>13. \A i \in DOMAIN k : SoundExchange(k[i])
        BY <3>7, <3>12 DEF TurnInv, HistoryOK
      <3> QED BY <3>3, <3>8, <3>11, <3>12, <3>13 DEF HistoryOK
    <2> QED BY <2>1, <2>2 DEF Record
  <1> QED BY <1>1, <1>2, <1>3, IdleKeepsInv

LEMMA DisconnectKeepsInv ==
  ASSUME TurnInv, Disconnect
  PROVE  TurnInv'
  BY SessionUnchanged, IdleKeepsInv DEF TurnInv, Disconnect

LEMMA ForgetKeepsInv ==
  ASSUME TurnInv, Forget
  PROVE  TurnInv'
  <1>1. /\ ~ Busy /\ history' = <<>> /\ UNCHANGED <<config, items, turn, sent, public, edited>>
    BY DEF Forget
  <1>2. turn.stage = "idle" /\ turn'.stage = "idle"
    BY <1>1 DEF Busy
  <1>3. HistoryOK'
    BY <1>1, ServiceAssumption DEF HistoryOK
  <1>4. ItemsOK'
    BY <1>1, ItemsUnchanged DEF TurnInv
  <1>5. TurnOK' /\ SentOK'
    BY <1>1, <1>2 DEF TurnInv, TurnOK, SentOK, Busy, Reached
  <1> QED BY <1>1, <1>2, <1>3, <1>4, <1>5, BeforeEvaluation DEF TurnInv

-----------------------------------------------------------------------------
(* The invariant *)

LEMMA InitInv == Init => TurnInv
  <1> SUFFICES ASSUME Init PROVE TurnInv
    OBVIOUS
  <1>1. turn.stage = "idle" /\ history = <<>> /\ sent = {} /\ public = {} /\ edited = {}
    BY DEF Init, IdleTurn
  <1>2. HistoryOK
    BY <1>1, ServiceAssumption DEF HistoryOK
  <1>3. ItemsOK
    <2>1. ASSUME NEW id \in Ids PROVE 1 \in Versions(id)
      <3>1. Approved[id] \in Seq(Seq(Segment)) /\ Approved[id] # <<>>
        BY CompositionAssumption, ServiceAssumption
      <3>2. PICK S : S = Seq(Segment)
        OBVIOUS
      <3>3. PICK a \in Seq(S) : a = Approved[id]
        BY <3>1, <3>2
      <3>4. Len(a) \in Nat \ {0} /\ DOMAIN a = 1 .. Len(a)
        BY <3>1, <3>3, EmptySeq, LenProperties
      <3> QED BY <3>3, <3>4 DEF Versions
    <2>2. ASSUME NEW id \in Ids
          PROVE  /\ items[id] \in Item /\ items[id].version = 1
                 /\ items[id].questions = items[id].signed
      <3>1. PICK q \in SUBSET Texts : q = Questions[id]
        BY ServiceAssumption
      <3>2. items[id] = [live |-> TRUE, version |-> 1, questions |-> q, signed |-> q]
        BY <3>1 DEF Init
      <3> QED BY <3>2 DEF Item
    <2>3. items \in [Ids -> Item]
      BY <2>2 DEF Init
    <2> QED BY <2>1, <2>2, <2>3 DEF ItemsOK
  <1>4. TurnOK /\ PolicyOK /\ ReadOK /\ ReplyOK /\ AnswersWerePublished /\ TornReadNeedsEdit
    BY <1>1 DEF TurnOK, PolicyOK, ReadOK, ReplyOK, AnswersWerePublished, TornReadNeedsEdit,
                Busy, Reached
  <1>5. SentOK
    BY <1>1 DEF SentOK, Busy, Reached
  <1> QED BY <1>2, <1>3, <1>4, <1>5 DEF TurnInv, Init

LEMMA StutterInv ==
  ASSUME TurnInv, UNCHANGED vars
  PROVE  TurnInv'
  <1>1. UNCHANGED <<config, items, history, turn, sent, public, edited>>
    BY DEF vars
  <1>2. TurnOK' /\ PolicyOK' /\ HistoryOK' /\ ItemsOK' /\ PublicNow' = PublicNow
    BY <1>1, TurnUnchanged, SessionUnchanged, ItemsUnchanged DEF TurnInv
  <1>3. ReadOK' /\ ReplyOK' /\ AnswersWerePublished' /\ TornReadNeedsEdit'
    BY <1>1 DEF TurnInv, ReadOK, ReplyOK, AnswersWerePublished, TornReadNeedsEdit, Reached
  <1>4. SentOK'
    BY <1>1, <1>2 DEF TurnInv, SentOK, Busy, Reached
  <1> QED BY <1>1, <1>2, <1>3, <1>4 DEF TurnInv

LEMMA NextInv == TurnInv /\ [Next]_vars => TurnInv'
  <1> SUFFICES ASSUME TurnInv, [Next]_vars PROVE TurnInv'
    OBVIOUS
  <1>1. CASE \E u \in Utterances, endpoint \in Endpoints : Ask(u, endpoint[1], endpoint[2])
    BY <1>1, ServiceAssumption, AskKeepsInv
  <1>2. CASE Step
    BY <1>2, ResolveKeepsInv, PrefetchKeepsInv, RefuseSensitiveKeepsInv, JudgeKeepsInv,
       RejectKeepsInv, FixedMessageKeepsInv, ReadItemsKeepsInv, KnowledgeUnavailableKeepsInv,
       AnswerKeepsInv, RecordKeepsInv DEF Step
  <1>3. CASE Acknowledge \/ Disconnect \/ Forget
    BY <1>3, AcknowledgeKeepsInv, DisconnectKeepsInv, ForgetKeepsInv
  <1>4. CASE \E id \in Changing : Withdraw(id) \/ EditQuestions(id) \/ PublishNext(id)
    BY <1>4, ServiceAssumption, WithdrawKeepsInv, EditKeepsInv, PublishKeepsInv
  <1>5. CASE UNCHANGED vars
    BY <1>5, StutterInv
  <1> QED BY <1>1, <1>2, <1>3, <1>4, <1>5 DEF Next

LEMMA SpecInv == Spec => []TurnInv
  BY InitInv, NextInv, PTL DEF Spec

-----------------------------------------------------------------------------
(* What follows from it *)

\* The state of a turn, of the session and of the knowledge has its type.
THEOREM TurnTypeCorrect == Spec => []TypeOK
  <1>1. TurnInv => TypeOK
    <2> SUFFICES ASSUME TurnInv PROVE TypeOK
      OBVIOUS
    <2>1. \A i \in DOMAIN history :
            /\ Len(history[i].query) = 1 \/ Length(history[i].query) \in 1 .. MaxLength
            /\ Parts(history[i].query) \subseteq Texts /\ history[i].id \in Ids \cup {NoId}
      BY BoundedParts DEF TurnInv, HistoryOK, SoundExchange, Bounded
    <2>2. \A id \in Ids : items[id] \in Item /\ items[id].version \in Versions(id)
      BY DEF TurnInv, ItemsOK
    <2> QED BY <2>1, <2>2 DEF TurnInv, HistoryOK, TurnOK, SentOK, TypeOK
  <1> QED BY <1>1, SpecInv, PTL

(* What a caller says that the sensitive data guard detects is given to no   *)
(* model and no service and is kept in no session, although the evaluation   *)
(* (service.py 404), the resolver (conversation.py 388) and the recording    *)
(* (api.py 318) each scan for themselves, in workers that do not wait for    *)
(* each other; what the analyzer writes and what a cut leaves of a text are  *)
(* the only exceptions.                                                      *)
THEOREM SensitiveDataStays == Spec => []NothingSensitiveLeaves
  <1>1. TurnInv => NothingSensitiveLeaves
    BY RecalledIsSound DEF TurnInv, SentOK, NothingSensitiveLeaves, Unscanned
  <1> QED BY <1>1, SpecInv, PTL

(* An utterance that a rule hands off or refuses is never answered, whatever *)
(* the session, the router and the analyzer say, and no text it is answered  *)
(* with is hard unless an analyzer wrote it or a cut left it; when the       *)
(* composed question is hard all the same, its answer was allowed by the     *)
(* rule of the bare utterance or by the router (service.py 299-320).         *)
THEOREM HardRulesDecide == Spec => []HardRulesWin
  <1>1. TurnInv => HardRulesWin
    <2>1. ASSUME TurnInv, Reached("answered"), turn.known.reply.decision \in {"answer", "clarify"}
          PROVE  /\ turn.first = Classify(<<turn.said>>) /\ ~ Hard(turn.first)
                 /\ \A t \in Parts(Query(turn.conv, turn.said)) :
                      Hard(Classify(<<t>>)) => t \in Rewrites \cup Pieces
      <3>1. Busy /\ turn.conv.kind # "pending" /\ turn.first # SensitiveResult /\ ~ Hard(turn.first)
        BY <2>1 DEF TurnInv, TurnOK, ReplyOK, Busy, Reached
      <3>2. turn.first = Classify(<<turn.said>>)
        BY <2>1, <3>1, PreflightScans DEF TurnInv
      <3> QED BY <2>1, <3>1, <3>2, QueryIsSound DEF TurnInv, Harmless, Unscanned
    <2>2. ASSUME TurnInv, Reached("judged"), turn.known.policy.action = "allow",
                 Hard(Classify(turn.known.question))
          PROVE  turn.known.policy = turn.first \/ AllowedByRouter(turn.known.policy)
      <3>1. /\ turn.known.question = Question
            /\ turn.known.policy = WithoutRouter \/ AllowedByRouter(turn.known.policy)
        BY <2>2 DEF TurnInv, PolicyOK
      <3>2. CASE ~ InContext
        BY <3>1, <3>2 DEF WithoutRouter
      <3>3. CASE InContext
        <4>1. Classify(turn.conv.query).action # "allow"
          BY <2>2, <3>1, <3>3, ClassifyIsRuled DEF Question, Ruled
        <4> QED BY <3>1, <3>3, <4>1 DEF WithoutRouter
      <3> QED BY <3>2, <3>3
    <2> QED BY <2>1, <2>2 DEF HardRulesWin, AllowedByRouter
  <1> QED BY <1>1, SpecInv, PTL

(* Whatever is answered was public in that version at some moment of the     *)
(* turn, though governance withdraws, edits and publishes while the turn     *)
(* reads in two statements (sql_repository.py 131-173); and of the numbers,  *)
(* times and terms that the guard recognises it states none of its own       *)
(* (answering.py 511-579).                                                   *)
THEOREM OnlyPublishedIsAnswered == Spec => []AnswersWerePublished
  BY SpecInv, PTL DEF TurnInv

(* A document pairs a version with other questions than it was signed with   *)
(* only when governance edited the item between the two statements of that   *)
(* very turn: an earlier edit is never seen half.                            *)
THEOREM TornReadsAreOfThisTurn == Spec => []TornReadNeedsEdit
  BY SpecInv, PTL DEF TurnInv

(* The question that policy and router judge contains what was said, unless  *)
(* the analyzer wrote it, or what it refers to and the utterance are longer  *)
(* than the limit together; then the question has exactly the greatest       *)
(* length, and as much of the utterance as that leaves room for              *)
(* (conversation.py 373-380), whatever was cut in the session before.        *)
THEOREM UtteranceIsJudged == Spec => []JudgedOnWhatWasAsked
  <1>1. TurnInv => JudgedOnWhatWasAsked
    <2> SUFFICES ASSUME TurnInv, Reached("judged")
                 PROVE  JudgedOnWhatWasAsked
      BY DEF JudgedOnWhatWasAsked
    <2>1. Busy /\ turn.said \in Texts /\ turn.known.question = Question
      BY DEF TurnInv, TurnOK, PolicyOK, Busy, Reached
    <2>2. CASE ~ InContext
      BY <2>1, <2>2, SingleQuestion DEF Question, JudgedOnWhatWasAsked
    <2>3. CASE InContext
      <3>1. /\ turn.conv.kind \in FollowUpKinds /\ turn.conv.kind # "new_question"
            /\ turn.known.question = turn.conv.query
        BY <2>1, <2>3 DEF InContext, Question, FollowUpKinds
      <3>2. Resolved(turn.conv, turn.said, history, config.semantic)
        BY <2>1, <3>1 DEF TurnInv, TurnOK
      <3>3. \/ turn.said \in Parts(turn.conv.query) \/ turn.conv.semantic
            \/ CutShort(turn.conv, turn.said, history)
        BY <3>1, <3>2 DEF Resolved
      <3> QED BY <3>1, <3>3 DEF CutShort, JudgedOnWhatWasAsked
    <2> QED BY <2>2, <2>3
  <1> QED BY <1>1, SpecInv, PTL

(* A router in shadow mode changes no decision, but for the name its failure *)
(* gives the default refusal, and an analyzer in shadow mode resolves        *)
(* nothing (service.py 517-536, conversation.py 415-428).                    *)
THEOREM ShadowsOnlyObserve == Spec => []ShadowModesOnlyObserve
  <1>1. TurnInv => ShadowModesOnlyObserve
    BY DEF TurnInv, TurnOK, PolicyOK, Resolved, ShadowModesOnlyObserve
  <1> QED BY <1>1, SpecInv, PTL

(* The acknowledgement timer of a voice turn runs against the three workers; *)
(* still no caller whom the guard or a hard rule turns away was told to wait *)
(* (the router, the default refusal or missing knowledge may turn away one   *)
(* who was), and what was said of the resolver's finding is true (api.py     *)
(* 626-660).                                                                 *)
THEOREM AcknowledgementsFit == Spec => []AcknowledgementFits
  <1>1. TurnInv => AcknowledgementFits
    <2> SUFFICES ASSUME TurnInv, Reached("answered")
                 PROVE  /\ turn.known.reply.rule \in HardIds \cup {"PII-001"} => turn.ack = "none"
                        /\ turn.ack = "knowledge_lookup" => turn.conv.kind = "new_question"
                        /\ turn.ack = "follow_up_explanation" => turn.conv.ref # NoId
      BY DEF AcknowledgementFits, HardIds
    <2>1. Busy
      BY DEF Busy, Reached
    <2>2. turn.known.reply.rule \in HardIds \cup {"PII-001"} => ~ AllowsAcknowledgement(turn.first)
      BY DEF TurnInv, ReplyOK, AllowsAcknowledgement
    <2>3. turn.ack = "follow_up_explanation" => turn.conv.ref # NoId
      BY <2>1 DEF TurnInv, TurnOK, Resolved, FollowUpKinds
    <2> QED BY <2>1, <2>2, <2>3 DEF TurnInv, TurnOK
  <1> QED BY <1>1, SpecInv, PTL
=============================================================================
