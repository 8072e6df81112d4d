---------------------------- MODULE MCEgressProxy ----------------------------
(* Instances of EgressProxy for TLC: two destinations, one of them outside   *)
(* the allowlist of some configurations.                                     *)
EXTENDS EgressProxy, TLC

Symmetry == Permutations(Exchanges)

\* The configurations with both policy and audit log: either mode, with an
\* allowlist or without one.
Audited == {[policy |-> TRUE, log |-> TRUE, mode |-> m, allows |-> a] :
              m \in {"warn", "block"}, a \in {{"listed"}, {"listed", "other"}}}

\* And some with one of the two disabled.
AnyChain == Audited \cup
  { [policy |-> FALSE, log |-> TRUE, mode |-> "block", allows |-> {"listed"}],
    [policy |-> TRUE, log |-> FALSE, mode |-> "block", allows |-> {"listed"}] }
=============================================================================
