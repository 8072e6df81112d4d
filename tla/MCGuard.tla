------------------------------- MODULE MCGuard -------------------------------
(* Guard on small instances. *)
EXTENDS Guard

CONSTANTS c1, c2, c3, a1

MCConduct(n, ok, latency, authFailures, rateHits) ==
  [requests |-> n, ok |-> ok, latency |-> latency, authFailures |-> authFailures,
   rateHits |-> rateHits]

\* Conduct that is trusted, suspicious, blocked.
MCConducts ==
  { MCConduct(20, 20, 0, 0, 0), MCConduct(4, 0, 0, 0, 0), MCConduct(20, 0, 5000, 10, 20) }

\* Reputation by itself.  Requests of agents while their reputation changes.
\* Requests and cleanups over time.  Failures over time.
MCSettings ==
  { [calls |-> {}, agents |-> {Anonymous}, failures |-> 0, reputation |-> TRUE],
    [calls |-> {c1}, agents |-> {a1}, failures |-> 0, reputation |-> TRUE],
    [calls |-> {c1, c2, c3}, agents |-> {Anonymous}, failures |-> 0, reputation |-> FALSE],
    [calls |-> {c1}, agents |-> {Anonymous}, failures |-> 4, reputation |-> FALSE] }
=============================================================================
