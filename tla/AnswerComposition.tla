------------------------- MODULE AnswerComposition -------------------------
(***************************************************************************)
(* From an approved answer to what is said.  The approved answer is a      *)
(* sequence of segments; a request for more of it narrows it to the        *)
(* segments on what is asked; a language model may choose among them and   *)
(* put them in its own words, and an output guard compares the numbers,    *)
(* times and product names it uses with those of the chosen segments.      *)
(* What fails falls back to approved text, never to silence.               *)
(*                                                                         *)
(* A fact is a number, a time or a term.  The guard recognises some by     *)
(* their form: digits that stand alone, clock times, listed terms; it does *)
(* not see numbers in words, digits next to letters or other terms.        *)
(* Headings and the other reasons of the guard (length, phrases) are left  *)
(* out: they send the answer to the same fallback.                         *)
(***************************************************************************)
EXTENDS KnowledgeSearch

CONSTANTS Facts,          \* numbers, times and terms
          Recognised,     \* the facts that the output guard recognises
          Approved,       \* per id, by version: the segments of the approved answer
          TopicsAsked,    \* per text: what it asks about
          ChannelsAsked   \* per text: the channels it names

\* _APPROVED_ANSWER_FOCUS_RULES in their order.
TopicOrder == <<"documents", "presence", "time", "steps">>
Topics == {TopicOrder[i] : i \in DOMAIN TopicOrder}
Channels == {"online", "counter"}

Segment == [topics : SUBSET Topics, channel : Channels \cup {"none"}, section : Nat,
            facts : SUBSET Facts]

ASSUME CompositionAssumption ==
  /\ Recognised \subseteq Facts
  /\ Approved \in [Ids -> Seq(Seq(Segment))]
  /\ TopicsAsked \in [Texts -> SUBSET Topics]
  /\ ChannelsAsked \in [Texts -> SUBSET Channels]

FactsIn(segments, chosen) == UNION {segments[i].facts : i \in chosen}

AskedFirst(topics) ==
  TopicOrder[Min({i \in DOMAIN TopicOrder : TopicOrder[i] \in topics})]

\* focus_approved_answer: the segments on the first topic asked about, of the
\* one channel that is named if any; all steps of their sections if steps are
\* asked for.  No segments: the answer is not narrowed.  focus is what the
\* analyzer adds: the topics and channels of its focus text.
Focused(segments, u, q, focus) ==
  LET now == TopicsAsked[u] \cup focus.topics
      all == now \cup UNION {TopicsAsked[t] : t \in Parts(q)}
      channels == focus.channels \cup UNION {ChannelsAsked[t] : t \in Parts(q) \cup {u}}
      topic == AskedFirst(IF now # {} THEN now ELSE all)
      onTopic == {i \in DOMAIN segments : topic \in segments[i].topics}
      narrow == Cardinality(channels) = 1 /\ \E i \in onTopic : segments[i].channel # "none"
      kept == {i \in onTopic : narrow => segments[i].channel \in channels}
      sections == {segments[i].section : i \in kept} \ {0}
  IN  IF all = {} THEN {}
      ELSE IF "steps" \in all /\ sections # {}
           THEN {i \in DOMAIN segments : segments[i].section \in sections}
           ELSE kept

\* ControlledOutputGuard.validate.
Passes(claims, facts) == claims \cap Recognised \subseteq facts

\* An answer in the model's words if the guard passes it, else the approved text.
SaidFrom(facts) == {facts} \cup {claims \in SUBSET Facts : Passes(claims, facts)}

NoFocus == [topics |-> {}, channels |-> {}]

\* _compose_natural_answer: no model, a failed call or segments that are not
\* there leave the (narrowed) approved text; otherwise the model may choose.
NaturalAnswers(segments, u, conv) ==
  UNION {LET narrowed == IF conv.kind = "elaborate" THEN Focused(segments, u, conv.query, focus)
                         ELSE {}
             evidence == IF narrowed = {} THEN DOMAIN segments ELSE narrowed
         IN  UNION {SaidFrom(FactsIn(segments, IF chosen = {} THEN evidence ELSE chosen)) :
                      chosen \in SUBSET evidence}
         : focus \in {NoFocus} \cup
             IF conv.semantic THEN [topics : SUBSET Topics, channels : SUBSET Channels] ELSE {}}

\* The same without a conversation, by answer mode.
ExactAnswers(segments, answerMode) ==
  LET facts == FactsIn(segments, DOMAIN segments)
  IN  IF answerMode = "controlled_llm" THEN SaidFrom(facts) ELSE {facts}
=============================================================================
