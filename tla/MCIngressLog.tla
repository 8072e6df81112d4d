----------------------------- MODULE MCIngressLog -----------------------------
(* IngressLog on small instances. *)
EXTENDS IngressLog

CONSTANTS r1, r2, r3

MCEvents  == Requests \X (0..MaxAnswers)
MCConfigs == { {"auth", "log"}, {"guard"}, {"log", "token"} }

MCSetting(mws, telemetry, rs, kinds, n, reloads, faults) ==
  [mws |-> mws, telemetry |-> telemetry, requests |-> rs, kinds |-> kinds,
   answers |-> n, reloads |-> reloads, faults |-> faults]

\* Overlapping calls through the log, with a reload and an exit; with a reload
\* and failing inserts; a call beside a notification.  Every kind of message
\* through log and collector together.  Requests that only the collector ties
\* together, against a full ring; the same with failing posts and an exit.
MCSettings ==
  { MCSetting({"auth", "log"}, FALSE, {r1, r2}, {"call"}, 1, 1, {"exit"}),
    MCSetting({"auth", "log"}, FALSE, {r1, r2}, {"call"}, 1, 1, {"insert"}),
    MCSetting({"auth", "log"}, FALSE, {r1, r2}, {"call", "notification"}, 1, 0, {}),
    MCSetting({"log", "token"}, TRUE, {r1}, AllKinds, 2, 0, {"upstream", "exit"}),
    MCSetting({"guard"}, TRUE, {r1, r2, r3}, {"http"}, 1, 0, {}),
    MCSetting({"guard"}, TRUE, {r1, r2}, {"http"}, 1, 0, {"post", "exit"}) }
=============================================================================
