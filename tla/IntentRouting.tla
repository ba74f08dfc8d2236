--------------------------- MODULE IntentRouting ---------------------------
(***************************************************************************)
(* The structured intent router: a language model that classifies a        *)
(* question and never answers it, and what TurnService makes of its        *)
(* classification.  A route is a classification, a failed call, or none;   *)
(* sure stands for enough confidence and no need to ask back, and a flag   *)
(* other than "complaint" is just "risk"; a complaint outweighs the others.  *)
(***************************************************************************)
EXTENDS DomainPolicy

CONSTANT RouterIntents   \* intents the router may put first

Classifications ==
  [status : {"classified"}, intent : RouterIntents \cup {"unknown"}, sure : BOOLEAN,
   flag : {"none", "risk", "complaint"}]

NoRoute == [status |-> "none"]
PendingRoute == [status |-> "pending"]
FailedRoute == [status |-> "failed"]

\* What a call of the router may return.
Routes == Classifications \cup {FailedRoute}

\* _reusable_prefetched_intent_route: may a route found for the bare utterance
\* serve for the question it was resolved to?
Reusable(route, same) ==
  \/ same /\ route.status # "none"
  \/ /\ route.status = "classified"
     /\ \/ route.flag = "complaint"
        \/ route.sure /\ route.intent # "unknown"

RoutingFailure(result) ==
  IF result.rule = "POL-DEFAULT-DENY"
  THEN Result("refuse", "intent_router_unavailable", "SYS-INTENT-ROUTER-ERROR")
  ELSE result

\* Mutant: the shadow mode is forgotten.
DecisiveInAnyMode(mode, route) ==
  route.status = "classified" /\ (route.flag = "complaint" \/ route.sure)

\* Whether the classification decides; otherwise the deterministic result stays.
Decisive(mode, route) ==
  /\ mode # "shadow"
  /\ route.status = "classified"
  /\ route.flag = "complaint" \/ route.sure

RouteResult(route) ==
  IF route.flag = "complaint"
  THEN Result("handoff", "complaint_or_dispute", "LLM-HANDOFF-001")
  ELSE IF route.intent = "unknown"
  THEN Result("refuse", "unknown_or_ambiguous", "LLM-DEFAULT-DENY")
  ELSE Result("allow", route.intent,
              IF route.flag = "none" THEN "LLM-ALLOW-001" ELSE "LLM-ALLOW-RISK-NOTED-001")

\* _route_intent.
Routed(mode, result, route) ==
  IF route.status = "failed" THEN RoutingFailure(result)
  ELSE IF Decisive(mode, route) THEN RouteResult(route)
  ELSE result
=============================================================================
