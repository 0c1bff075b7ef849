---------------------------- MODULE MCRelayStore ----------------------------
(* RelayStore for TLC: two jobs, two idempotency namespaces, more execution *)
(* ids than jobs so that a stale execution can be presented.                *)
EXTENDS RelayStore, TLC

KeySymmetry == Permutations(Namespaces) \cup Permutations(Fingerprints)
=============================================================================
