----------------------------- MODULE ModelGateway -----------------------------
(***************************************************************************)
(* What ModelGateway.invoke answers to an invocation whose bindings are     *)
(* right: it refuses, or calls the one adapter of the route and judges the  *)
(* result.  It keeps no state; its steps are in Relay.                      *)
(*                                                                          *)
(* An invocation is [environment, capability, items, units]: the number of  *)
(* context items, and the token units of the template and the items.  Text  *)
(* is abstracted to its counts, identifiers and hashes to whether they are  *)
(* those of the invocation.                                                 *)
(***************************************************************************)
EXTENDS Integers

CONSTANTS
  Routes,           \* ROUTES: [environment -> [placement, maxInput, maxOutput, maxChars]]
  Registered,       \* placements whose adapter the Gateway was given
  ProviderResults,  \* what adapters answer: [valid, units, claimed, chars]
  TemplateUnits     \* token units of SYSTEM_STATUS_SUMMARY_TEMPLATE

NoPlacement == "none"
NoOutput == [units |-> 0]

\* A route has a placement, and a valid result claims a positive number of units.
ASSUME ModelGatewayAssumption ==
  /\ TemplateUnits \in Nat
  /\ \A environment \in DOMAIN Routes : LET route == Routes[environment] IN
       /\ route.maxInput \in Nat /\ route.maxOutput \in Nat /\ route.maxChars \in Nat
       /\ route.placement # NoPlacement
  /\ \A result \in ProviderResults :
       /\ result.units \in Nat /\ result.claimed \in Nat /\ result.chars \in Nat
       /\ result.valid => result.claimed > 0

\* evaluateModelOperationEligibility; the other parts of the execution tuple are fixed.
Eligible(invocation) == invocation.capability = "pixel.system-status.read"

\* selectAlphaModelRoute
Routed(invocation) == invocation.environment \in DOMAIN Routes
RouteOf(invocation) == Routes[invocation.environment]

\* The reasons not to call an adapter, in the order of their checks.
Refusal(invocation) ==
  IF ~Eligible(invocation) THEN "OPERATION_INELIGIBLE"
  ELSE IF ~Routed(invocation) THEN "ROUTE_UNSUPPORTED"
  ELSE IF invocation.items = 0 THEN "EMPTY_CONTEXT"
  ELSE IF invocation.units > RouteOf(invocation).maxInput THEN "INPUT_BUDGET_EXCEEDED"
  ELSE IF RouteOf(invocation).placement \notin Registered THEN "ADAPTER_UNAVAILABLE"
  ELSE "none"

\* #outcome.  A refusal before routing names no route, one by routing no placement.
Failed(invocation, reason) ==
  [ bound |-> TRUE, status |-> "FAILED", reason |-> reason,
    routed |-> reason # "OPERATION_INELIGIBLE",
    placement |-> IF reason \in {"OPERATION_INELIGIBLE", "ROUTE_UNSUPPORTED"}
                  THEN NoPlacement ELSE RouteOf(invocation).placement,
    output |-> NoOutput ]

Succeeded(invocation, result) ==
  [ bound |-> TRUE, status |-> "SUCCEEDED", reason |-> "MODEL_OUTPUT_AVAILABLE",
    routed |-> TRUE, placement |-> RouteOf(invocation).placement,
    output |-> [ units |-> result.units, claimed |-> result.units,
                 chars |-> result.chars, hashed |-> TRUE ] ]

\* A result that throws, is malformed or is another provider's is not valid; one
\* that miscounts its own tokens is not either.
Judged(invocation, result) ==
  LET route == RouteOf(invocation) IN
  IF ~result.valid \/ result.claimed # result.units
    THEN Failed(invocation, "PROVIDER_RESULT_INVALID")
  ELSE IF result.units > route.maxOutput \/ result.chars > route.maxChars
    THEN Failed(invocation, "OUTPUT_BUDGET_EXCEEDED")
  ELSE Succeeded(invocation, result)

\* validateModelGatewayOutcomeV1, but for the maximal length of an output, which
\* is that of every route.
ValidOutcome(outcome) ==
  /\ outcome.status = "SUCCEEDED" =>
       /\ outcome.reason = "MODEL_OUTPUT_AVAILABLE"
       /\ outcome.routed /\ outcome.placement # NoPlacement
       /\ outcome.output # NoOutput /\ outcome.output.claimed > 0
  /\ outcome.status = "FAILED" =>
       /\ outcome.reason \in { "OPERATION_INELIGIBLE", "ROUTE_UNSUPPORTED", "EMPTY_CONTEXT",
            "INPUT_BUDGET_EXCEEDED", "ADAPTER_UNAVAILABLE", "PROVIDER_RESULT_INVALID",
            "OUTPUT_BUDGET_EXCEEDED" }
       /\ outcome.output = NoOutput
       /\ outcome.routed <=> outcome.reason # "OPERATION_INELIGIBLE"
       /\ outcome.placement = NoPlacement
            <=> outcome.reason \in {"OPERATION_INELIGIBLE", "ROUTE_UNSUPPORTED"}

=============================================================================
