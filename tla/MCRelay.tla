------------------------------- MODULE MCRelay -------------------------------
(***************************************************************************)
(* Relay for TLC: every job needs the one exclusive resource, as with the    *)
(* simulator's requirement provider.                                         *)
(***************************************************************************)
EXTENDS Relay, TLC

CONSTANTS x

MCResourceOf == [q \in Requirements |-> x]
MCRequirementOf == [j \in Jobs |-> CHOOSE q \in Requirements : TRUE]

\* The first fingerprint is that of a system status job, another that of the raw status.
MCContentOf ==
  LET plain == CHOOSE fp \in Fingerprints : TRUE IN
  [ fp \in Fingerprints |->
      [ department |-> "platform",
        capability |-> IF fp = plain THEN "pixel.system-status.read"
                                     ELSE "pixel.system-status.raw.read" ] ]

Remembered(environment, department, lifecycle, tags, chars, units) ==
  [ environment |-> environment, department |-> department, lifecycle |-> lifecycle,
    tags |-> tags, words |-> {"status"}, observed |-> 0, chars |-> chars, units |-> units ]

\* Records that fit together, one that does not fit beside the first, and records to be kept out.
MCMemoryRecord ==
  << Remembered("simulation", "platform", "ACTIVE", {"system"}, 2, 1),
     Remembered("simulation", "platform", "ACTIVE", {}, 2, 3),
     Remembered("simulation", "platform", "ACTIVE", {}, 1, 1),
     Remembered("simulation", "finance", "ACTIVE", {"system"}, 1, 1),
     Remembered("dev", "platform", "ACTIVE", {"system"}, 1, 1),
     Remembered("simulation", "platform", "SUPERSEDED", {"system"}, 1, 1) >>
MCMemories == DOMAIN MCMemoryRecord

\* Nothing to use, a context that is within the input budget, and one that is not.
MCListings == {{4, 5, 6}, {1, 2, 3, 4, 5, 6}, {2, 3}}
OneListing == {{1}}
MCQuery == {"system", "status"}

MCRoutes ==
  [ simulation |-> [placement |-> "A", maxInput |-> 3, maxOutput |-> 1, maxChars |-> 2],
    dev        |-> [placement |-> "B", maxInput |-> 5, maxOutput |-> 2, maxChars |-> 2] ]

Result(valid, units, claimed, chars) ==
  [valid |-> valid, units |-> units, claimed |-> claimed, chars |-> chars]

MCProviderResults ==
  {Result(TRUE, 1, 1, 1), Result(TRUE, 2, 2, 1), Result(TRUE, 1, 2, 1), Result(FALSE, 0, 0, 0)}

\* The best outcome there is, each of its parts wrong, and every failure.
Best ==
  [ bound |-> TRUE, status |-> "SUCCEEDED", reason |-> "MODEL_OUTPUT_AVAILABLE", routed |-> TRUE,
    placement |-> "A", output |-> [units |-> 1, claimed |-> 1, chars |-> 1, hashed |-> TRUE] ]

Failures ==
  { "OPERATION_INELIGIBLE", "ROUTE_UNSUPPORTED", "EMPTY_CONTEXT", "INPUT_BUDGET_EXCEEDED",
    "ADAPTER_UNAVAILABLE", "PROVIDER_RESULT_INVALID", "OUTPUT_BUDGET_EXCEEDED" }

MCUntrustedOutcomes ==
  { Best, [Best EXCEPT !.bound = FALSE], [Best EXCEPT !.status = "FAILED"],
    [Best EXCEPT !.reason = "EMPTY_CONTEXT"], [Best EXCEPT !.routed = FALSE],
    [Best EXCEPT !.placement = "B"], [Best EXCEPT !.placement = NoPlacement],
    [Best EXCEPT !.output = NoOutput], [Best EXCEPT !.output.units = 2],
    [Best EXCEPT !.output.units = 2, !.output.claimed = 2], [Best EXCEPT !.output.chars = 3],
    [Best EXCEPT !.output.hashed = FALSE] }
  \cup [ bound : {TRUE}, status : {"FAILED"}, reason : Failures, routed : BOOLEAN,
         placement : {"A", NoPlacement}, output : {NoOutput} ]

ASSUME ContextsFit

Symmetry == Permutations(Attempts) \cup Permutations(Jobs)
=============================================================================
