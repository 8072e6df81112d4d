----------------------------- MODULE MCAdmission -----------------------------
(* Admission on small instances. *)
EXTENDS Admission

CONSTANTS u1, u2, u3

MCConfig(mode, tok, blocks) == [auth |-> TRUE, token |-> tok, mode |-> mode, blocks |-> blocks]

MCConfigs ==
  { MCConfig("closed", FALSE, FALSE), MCConfig("closed", TRUE, FALSE), MCConfig("verified", FALSE, TRUE),
    MCConfig("open", TRUE, FALSE), [MCConfig("open", TRUE, FALSE) EXCEPT !.auth = FALSE] }

MCPlans ==
  { [hourly |-> 1, monthly |-> 0, lifetime |-> 0, restricted |-> FALSE],
    [hourly |-> 0, monthly |-> 2, lifetime |-> 1, restricted |-> TRUE] }

Agent(k) == [kind |-> "agent", agent |-> "a1", key |-> k]
DIDs     == [kind : {"did"}, good : BOOLEAN]
Unsigned == [kind |-> "unsigned"]

\* Keys come and go under two chains while requests look.  Requests of every
\* kind at chains of every mode.  Three requests share a token while time
\* passes; two that must sign first.
MCSettings ==
  { [config |-> MCConfig("closed", FALSE, FALSE), users |-> {u1, u2}, credentials |-> {Agent("k1")},
     tokens |-> FALSE, keys |-> TRUE],
    [config |-> MCConfig("verified", FALSE, TRUE), users |-> {u1},
     credentials |-> DIDs \cup {Unsigned, Agent("k2")}, tokens |-> FALSE, keys |-> TRUE],
    [config |-> [MCConfig("open", TRUE, FALSE) EXCEPT !.auth = FALSE],
     users |-> {u1, u2, u3}, credentials |-> {Unsigned}, tokens |-> TRUE, keys |-> FALSE],
    [config |-> MCConfig("closed", TRUE, FALSE),
     users |-> {u1, u2}, credentials |-> DIDs, tokens |-> TRUE, keys |-> FALSE] }
=============================================================================
