----------------------------- MODULE FollowUps -----------------------------
(***************************************************************************)
(* What a question refers to.  The resolver sees the recent exchanges of   *)
(* the session and decides whether an utterance is a new question, asks    *)
(* for more of an earlier answer, or for the same answer in other words:   *)
(* first by fixed phrases, then, for what looks like a new question, by a  *)
(* language model whose judgement is used only in controlled mode and only *)
(* when it is confident and names an exchange that was answered.           *)
(*                                                                         *)
(* An exchange is the question it was resolved to and the knowledge id it  *)
(* was answered from.  A question resolved against an exchange is cut at   *)
(* 1000 characters, wherever that falls; the words that join a follow-up   *)
(* to the question before it are not counted here.                         *)
(***************************************************************************)
EXTENDS DomainPolicy

CONSTANTS Phrases,    \* per text: the phrases the resolver looks for
          Rewrites,   \* what the semantic analyzer may rewrite a question to
          Size,       \* per text: its characters
          Beginning,  \* per text and n: its first n characters
          MaxLength,  \* characters of a resolved question
          Window,     \* exchanges the analyzer and the composer are shown
          NoId        \* no knowledge id

ASSUME FollowUpAssumption ==
  /\ Phrases \in [Texts -> SUBSET {"rephrase", "elaborate", "ellipsis", "long"}]
  /\ Rewrites \subseteq Texts
  /\ Size \in [Texts -> Nat \ {0}] /\ Beginning \in [Texts -> [1 .. MaxLength -> Texts]]
  /\ \A t \in Texts, n \in 1 .. MaxLength :
       IF Size[t] <= n THEN Beginning[t][n] = t ELSE Size[Beginning[t][n]] = n
  /\ \A t \in Rewrites : Size[t] <= MaxLength
  /\ MaxLength \in Nat \ {0} /\ Window \in Nat \ {0}

FollowUpKinds == {"new_question", "elaborate", "rephrase"}

Answered(h) == {i \in DOMAIN h : h[i].id # NoId}

KindOf(u) ==
  IF "rephrase" \in Phrases[u]
  THEN IF "ellipsis" \in Phrases[u] THEN "elaborate" ELSE "rephrase"
  ELSE IF "elaborate" \in Phrases[u] \/ ("ellipsis" \in Phrases[u] /\ "long" \notin Phrases[u])
       THEN "elaborate" ELSE "new_question"

\* The characters of a question, by the part they are in.
Characters(q) == UNION {{i} \X (1 .. Size[q[i]]) : i \in DOMAIN q}
Length(q) == Cardinality(Characters(q))

\* What a cut in the middle of a text leaves.
Pieces == UNION {{Beginning[t][n] : n \in {n \in 1 .. MaxLength : n < Size[t]}} : t \in Texts}

\* Mutant: the utterance is left out of the question it is resolved to.
FollowedByNothing(q, u) == q

\* The earlier question, then as much of the utterance as there is room for.
\* Only a question that was never cut is longer, and it has one part.
FollowedBy(q, u) ==
  IF Length(q) > MaxLength THEN <<Beginning[q[1]][MaxLength]>>
  ELSE IF Length(q) = MaxLength THEN q
  ELSE Append(q, Beginning[u][MaxLength - Length(q)])

NewQuestion(q) == [kind |-> "new_question", query |-> q, ref |-> NoId, semantic |-> FALSE]

\* The latest answered exchange.
Reference(h) == h[Max(Answered(h))]

Deterministic(u, h) ==
  IF Answered(h) = {} THEN NewQuestion(<<u>>)
  ELSE IF KindOf(u) = "new_question" THEN NewQuestion(<<Beginning[u][MaxLength]>>)
  ELSE [kind |-> KindOf(u), query |-> FollowedBy(Reference(h).query, u),
        ref |-> Reference(h).id, semantic |-> FALSE]

\* _select_semantic_history: the last exchanges, the first of them given up
\* for the earliest one on the same knowledge if that is further back.
SemanticHistory(h) ==
  LET anchor == Min({i \in Answered(h) : h[i].id = Reference(h).id})
      last(n) == {i \in DOMAIN h : i > Len(h) - n}
  IN  IF anchor \in last(Window) THEN last(Window) ELSE {anchor} \cup last(Window - 1)

AsksAnalyzer(u, h, mode) ==
  /\ mode # "disabled"
  /\ Answered(h) # {}
  /\ KindOf(u) = "new_question"
  /\ u \notin Sensitive

\* An assessment of the analyzer that resolve applies.
SemanticResolutions(u, h) ==
  [kind : {"elaborate", "rephrase"}, query : {<<t>> : t \in Rewrites},
   ref : {h[i].id : i \in SemanticHistory(h) \cap Answered(h)}, semantic : {TRUE}]

\* A failed, unsure or unusable assessment leaves the deterministic result.
Resolutions(u, h, mode) ==
  {Deterministic(u, h)}
    \cup IF mode = "controlled" /\ AsksAnalyzer(u, h, mode) THEN SemanticResolutions(u, h) ELSE {}
=============================================================================
