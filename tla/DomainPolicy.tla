---------------------------- MODULE DomainPolicy ----------------------------
(***************************************************************************)
(* The deterministic rules every question passes before any model or any   *)
(* knowledge is asked: keyword rules that hand off, refuse or allow, and   *)
(* three narrow exceptions for public guidance.                            *)
(*                                                                         *)
(* A text stands for what the rules find in it.  A question is a sequence  *)
(* of texts: a follow-up is classified together with what it refers to,    *)
(* and a keyword is found in it when it is found in one of its parts.      *)
(***************************************************************************)
EXTENDS Integers, Sequences, FiniteSets, FiniteSetsExt

CONSTANTS Texts,      \* what callers may say and models may rewrite it to
          Words,      \* per text: the rules whose keywords it has, and its cues
          Sensitive   \* texts the sensitive data guard detects

Rule(id, intent, action) == [id |-> id, intent |-> intent, action |-> action]

\* DomainPolicyEngine._rules in their order.
Rules ==
  <<Rule("POL-HANDOFF-001", "complaint_or_dispute", "handoff"),
    Rule("POL-HANDOFF-002", "personal_data_change", "handoff"),
    Rule("POL-REFUSE-001", "transaction_request", "refuse"),
    Rule("POL-REFUSE-002", "personal_account_query", "refuse"),
    Rule("POL-REFUSE-003", "investment_advice", "refuse"),
    Rule("POL-REFUSE-004", "credential_or_identity_support", "refuse"),
    Rule("POL-REFUSE-005", "rumor_or_non_public_information", "refuse"),
    Rule("POL-REFUSE-006", "prompt_injection", "refuse"),
    Rule("POL-REFUSE-007", "account_authorization_execution", "refuse"),
    Rule("POL-ALLOW-001", "app_public_help", "allow"),
    Rule("POL-ALLOW-002", "account_opening_general", "allow"),
    Rule("POL-ALLOW-003", "public_service_information", "allow"),
    Rule("POL-ALLOW-004", "general_securities_knowledge", "allow"),
    Rule("POL-ALLOW-005", "order_entry_tutorial", "allow"),
    Rule("POL-ALLOW-006", "web_public_help", "allow"),
    Rule("POL-ALLOW-010", "account_closure_general", "allow")>>

RuleIds == {Rules[i].id : i \in DOMAIN Rules}
RefusalIds == {Rules[i].id : i \in {i \in DOMAIN Rules : Rules[i].action = "refuse"}}

\* The phrases the three exceptions look for.
CueNames == {"asks how", "data change", "change it for me",
             "password reissue", "phone changed", "no code or password", "reissue it for me",
             "authorization"}

GuidanceIntents == {"personal_data_change_guidance", "credential_recovery_guidance",
                    "account_authorization_guidance"}

PolicyResult == [action : {"handoff", "refuse", "allow"}, intent : STRING, rule : STRING]

ASSUME PolicyAssumption ==
  /\ Words \in [Texts -> SUBSET (RuleIds \cup CueNames)]
  /\ Sensitive \subseteq Texts

Found(q) == UNION {Words[q[i]] : i \in DOMAIN q}

Matches(q, action) ==
  LET found == Found(q)
  IN  {i \in DOMAIN Rules : Rules[i].action = action /\ Rules[i].id \in found}

AsksForDataChangeGuidance(q) ==
  {"asks how", "data change"} \subseteq Found(q) /\ "change it for me" \notin Found(q)

AsksForCredentialGuidance(q) ==
  /\ "reissue it for me" \notin Found(q)
  /\ \/ "password reissue" \in Found(q)
     \/ {"phone changed", "no code or password"} \subseteq Found(q)

AsksForAuthorizationGuidance(q) == "authorization" \in Found(q)

Result(action, intent, rule) == [action |-> action, intent |-> intent, rule |-> rule]

\* The result of the first of some rules, if there is one; of the only one.
First(S) == {Result(Rules[i].action, Rules[i].intent, Rules[i].id) : i \in {i \in S : \A j \in S : i <= j}}
Only(S) == IF Cardinality(S) = 1 THEN First(S) ELSE {}
Guidance(holds, intent, rule) == IF holds THEN {Result("allow", intent, rule)} ELSE {}

DefaultDeny == Result("refuse", "unknown_or_ambiguous", "POL-DEFAULT-DENY")

Except(S, intent) == {i \in S : Rules[i].intent # intent}

\* What classify looks at, in its order: the first level that has a result decides.
Levels(q) ==
  LET handoffs == Matches(q, "handoff")
      refusals == Matches(q, "refuse")
      allowed == Matches(q, "allow")
  IN  <<First(Except(handoffs, "personal_data_change")),
        First(Except(refusals, "credential_or_identity_support")),
        Guidance(AsksForDataChangeGuidance(q), "personal_data_change_guidance", "POL-ALLOW-009"),
        First(handoffs),
        Guidance(AsksForCredentialGuidance(q), "credential_recovery_guidance", "POL-ALLOW-007"),
        First(refusals),
        Guidance(AsksForAuthorizationGuidance(q), "account_authorization_guidance", "POL-ALLOW-008"),
        Only(allowed),
        Only(Except(allowed, "general_securities_knowledge")),
        {DefaultDeny}>>

Classify(q) ==
  LET levels == Levels(q)
  IN  CHOOSE r \in levels[Min({n \in DOMAIN levels : levels[n] # {}})] : TRUE

\* A result that neither the conversation nor a model may change.
Hard(result) == result.action = "handoff" \/ result.rule \in RefusalIds

CanApplyContext(result) == ~ Hard(result)
\* Mutant: hard results are routed, too.
CanUseRouterAlways(mode, result) == mode # "disabled"

CanUseRouter(mode, result) ==
  mode # "disabled" /\ ~ Hard(result) /\ result.intent \notin GuidanceIntents
=============================================================================
