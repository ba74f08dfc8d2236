--------------------------- MODULE MCTurnService ---------------------------
(* Two knowledge items, one of which governance changes, and eight          *)
(* utterances: a question with an answer, a long one no rule knows, a        *)
(* follow-up, one that must be refused, one with sensitive data, a name that *)
(* sounds like both items, and a question on passwords with a follow-up that *)
(* is harmless alone, must be refused with it, and may be cut.  The other    *)
(* texts are what a cut leaves.                                              *)
EXTENDS TurnService

MCUtterances == {"ask", "odd", "more", "trade", "secret", "name", "reset", "resend"}
MCTexts == MCUtterances \cup {"bit", "half", "most"}
MCWords ==
  [t \in MCTexts |->
     CASE t \in {"ask", "name"} -> {"POL-ALLOW-004"}
       [] t = "trade" -> {"POL-REFUSE-001", "POL-ALLOW-004"}
       [] t = "reset" -> {"POL-REFUSE-004", "password reissue"}
       [] t = "resend" -> {"reissue it for me"}
       [] OTHER -> {}]
MCSize == [t \in MCTexts |-> CASE t = "odd" -> 4 [] t = "most" -> 3 [] t \in {"resend", "half"} -> 2
                                [] OTHER -> 1]
MCMaxLength == 3
MCBeginning ==
  [t \in MCTexts |-> [n \in 1 .. MCMaxLength |->
     IF MCSize[t] <= n THEN t ELSE CASE n = 1 -> "bit" [] n = 2 -> "half" [] OTHER -> "most"]]
MCSensitive == {"secret"}
MCPhrases == [t \in MCTexts |-> IF t \in {"more", "resend"} THEN {"ellipsis"} ELSE {}]
MCRewrites == {"most"}

MCIds == {"k1", "k2"}
MCAllowedIntents ==
  [id \in MCIds |-> {"general_securities_knowledge"}
                      \cup IF id = "k2" THEN {"credential_recovery_guidance"} ELSE {}]
MCLexical ==
  [t \in MCTexts |-> [id \in MCIds |-> IF t \in {"odd", "most", "reset"} /\ id = "k2" THEN 60 ELSE 10]]
MCSemantic ==
  [t \in MCTexts |-> [id \in MCIds |-> IF t \in {"odd", "most", "reset"} THEN 50 ELSE 20]]
MCRuledOut == [t \in MCTexts |-> {}]
MCSounds == [t \in MCTexts |-> IF t = "name" THEN MCIds ELSE {}]

MCFacts == {"n1", "n2", "in words"}
MCRecognised == {"n1", "n2"}
Plain(topics, facts) == [topics |-> topics, channel |-> "none", section |-> 0, facts |-> facts]
MCApproved ==
  [id \in MCIds |->
     IF id = "k1"
     THEN <<<<Plain({"time"}, {"n1"}), Plain({}, {})>>, <<Plain({"time"}, {"n2"})>>>>
     ELSE <<<<Plain({}, {})>>>>]
MCTopicsAsked == [t \in MCTexts |-> IF t = "more" THEN {"time"} ELSE {}]
MCChannelsAsked == [t \in MCTexts |-> {}]
MCQuestions == [id \in MCIds |-> IF id = "k1" THEN {"ask"} ELSE {}]
MCEdited == {{"odd"}}

Deployment(answer, router, semantic, knowledge) ==
  [answer |-> answer, router |-> router, semantic |-> semantic, knowledge |-> knowledge]
MCConfigs == {Deployment("controlled_llm", "controlled", "controlled", TRUE),
              Deployment("exact", "shadow", "shadow", TRUE),
              Deployment("exact", "disabled", "disabled", FALSE),
              Deployment("fixed_message", "disabled", "disabled", TRUE)}
MCEndpoints == {<<"voice", "natural">>, <<"web", "natural">>, <<"voice", "exact">>}
MCRouterIntents == {"general_securities_knowledge"}
=============================================================================
