---------------------------- MODULE MCEgressAudit ----------------------------
(* EgressAudit on small instances. *)
EXTENDS EgressAudit, TLC

Symmetry == Permutations(Requests)
=============================================================================
