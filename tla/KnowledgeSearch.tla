-------------------------- MODULE KnowledgeSearch --------------------------
(***************************************************************************)
(* Retrieval over the documents of one turn: lexical scores, mixed with    *)
(* the similarity of embeddings while the embedding service answers, a     *)
(* minimum score and a margin over the second best; the choice between     *)
(* what the utterance finds, what the question it was resolved to finds    *)
(* and the knowledge it refers to; and, on the voice channel, knowledge    *)
(* that sounds alike.  Scores are in hundredths.  A search returns a set   *)
(* with the match, or the empty set.                                       *)
(*                                                                         *)
(* A document is what one read of the database made of an item: its id and *)
(* version, and the retrieval questions found for it.                      *)
(***************************************************************************)
EXTENDS FollowUps

CONSTANTS Ids,           \* knowledge ids
          AllowedIntents,\* per id
          Lexical,       \* per text and id: score against title, products and locator
          Exact,         \* score of a question that is one of the retrieval questions
          Contained,     \* score of a longer question that contains one
          Semantic,      \* per text and id: cosine similarity
          RuledOut,      \* per text: ids of another platform or without the asked kind of term
          Sounds         \* per text: ids with an alias or a term that sounds like it

ASSUME SearchAssumption ==
  /\ Lexical \in [Texts -> [Ids -> 0 .. 100]] /\ Semantic \in [Texts -> [Ids -> 0 .. 100]]
  /\ Exact \in 0 .. 100 /\ Contained \in 0 .. 100
  /\ RuledOut \in [Texts -> SUBSET Ids] /\ Sounds \in [Texts -> SUBSET Ids]
  /\ NoId \notin Ids

Parts(q) == {q[i] : i \in DOMAIN q}
Capped(n) == Min({100, n})

MatchesIntent(id, intent) == {intent, "faq_general_guidance"} \cap AllowedIntents[id] # {}

Eligible(q, intent, docs) ==
  {d \in docs : MatchesIntent(d.id, intent) /\ \A t \in Parts(q) : d.id \notin RuledOut[t]}

\* A question of several texts is never the same as a retrieval question.
Scored(q, d, same, other) ==
  Max({IF t \notin d.questions THEN other[t][d.id] ELSE IF Len(q) = 1 THEN same ELSE Contained
       : t \in Parts(q)})

LexicalScore(q, d) == Scored(q, d, Exact, Lexical)
SemanticScore(q, d) == Scored(q, d, 100, Semantic)
HybridScore(q, d) == Capped((4 * LexicalScore(q, d) + 6 * SemanticScore(q, d)) \div 10)

\* select: the best match, if it is good enough and clear of the second.
Select(S, minimum, margin) ==
  {m \in S : /\ m.score >= minimum
             /\ \A o \in S \ {m} : m.score - o.score >= margin}

\* HybridKnowledgeRetriever.search: lexical alone when the embeddings fail.
Search(q, intent, docs, embedded) ==
  LET candidates == Eligible(q, intent, docs)
  IN  IF embedded
      THEN Select({[doc |-> d, score |-> HybridScore(q, d)] : d \in candidates}, 40, 2)
      ELSE Select({[doc |-> d, score |-> LexicalScore(q, d)] : d \in candidates}, 55, 8)

Of(docs, id) == {d \in docs : d.id = id}
IsOf(match, id) == \E m \in match : m.doc.id = id
Beats(match, bonus, other) ==
  match # {} /\ \A m \in match, o \in other : m.score + bonus >= o.score

\* A new question: the knowledge last answered from may win by 0.08.
NewQuestionMatch(u, intent, docs, h, e) ==
  LET original == Search(<<u>>, intent, docs, e[1])
      last == Reference(h).id
      recent == Search(<<u>>, intent, Of(docs, last), e[2])
  IN  IF Answered(h) = {} THEN original
      ELSE IF IsOf(original, last) THEN original
      ELSE IF Beats(recent, 8, original) THEN recent ELSE original

\* A follow-up: a bonus for the resolved question, a larger one for the
\* knowledge it refers to; the analyzer's reference wins over both.
FollowUpMatch(u, conv, intent, docs, e) ==
  LET original == Search(<<u>>, intent, docs, e[1])
      contextual == Search(conv.query, intent, docs, e[2])
      reference == IF IsOf(contextual, conv.ref) THEN {}
                   ELSE Search(conv.query, intent, Of(docs, conv.ref), e[3])
      weighted(match, bonus) == {[doc |-> m.doc, score |-> Capped(m.score + bonus)] : m \in match}
  IN  IF conv.query = <<u>> THEN original
      ELSE IF conv.semantic /\ IsOf(contextual, conv.ref) THEN contextual
      ELSE IF conv.semantic /\ reference # {} THEN reference
      ELSE IF Beats(weighted(reference, 5), 0,
                    weighted(original, 0) \cup weighted(contextual, 2)) THEN reference
      ELSE IF Beats(weighted(contextual, 2), 0, weighted(original, 0)) THEN contextual
      ELSE original

\* _search_knowledge; e says of each search whether the embeddings are there.
SearchKnowledge(u, conv, intent, docs, h, e) ==
  CASE conv.kind = "none"         -> Search(<<u>>, intent, docs, e[1])
    [] conv.kind = "new_question" -> NewQuestionMatch(u, intent, docs, h, e)
    [] OTHER                      -> FollowUpMatch(u, conv, intent, docs, e)

\* MandarinPhoneticResolver.resolve: only short questions are tried.
SoundsLike(q, intent, docs) ==
  {d \in docs : Len(q) = 1 /\ MatchesIntent(d.id, intent) /\ d.id \in Sounds[q[1]]}

NoMatch == [kind |-> "none"]
MatchOn(d, rule) == [kind |-> "match", doc |-> d, rule |-> rule]

\* Mutant: the knowledge a follow-up refers to needs no database.
RetrievedFromMemory(u, channel, conv, result, mayRefer, docs, h, e) ==
  LET found == SearchKnowledge(u, conv, result.intent, docs, h, e)
  IN  IF found # {} THEN {MatchOn(m.doc, result.rule) : m \in found}
      ELSE IF mayRefer /\ conv.kind \in {"elaborate", "rephrase"}
      THEN {MatchOn([id |-> conv.ref, version |-> 1, questions |-> {}], "CTX-FOLLOW-UP-001")}
      ELSE {NoMatch}

\* What _answer_from_knowledge answers from: the match, else the knowledge the
\* follow-up refers to, else what sounds alike.
Retrieved(u, channel, conv, result, mayRefer, docs, h, e) ==
  LET found == SearchKnowledge(u, conv, result.intent, docs, h, e)
      referred == IF mayRefer /\ conv.kind \in {"elaborate", "rephrase"} THEN Of(docs, conv.ref) ELSE {}
      question == IF conv.kind = "none" THEN <<u>> ELSE conv.query
      alike == IF channel = "voice" /\ result.intent = "general_securities_knowledge"
               THEN SoundsLike(question, result.intent, docs) ELSE {}
  IN  IF found # {} THEN {MatchOn(m.doc, result.rule) : m \in found}
      ELSE IF referred # {} THEN {MatchOn(d, "CTX-FOLLOW-UP-001") : d \in referred}
      ELSE IF Cardinality(alike) > 1 THEN {[kind |-> "clarify"]}
      ELSE IF alike # {} THEN {MatchOn(d, "ASR-ALIAS-001") : d \in alike}
      ELSE {NoMatch}
=============================================================================
