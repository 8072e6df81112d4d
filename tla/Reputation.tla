----------------------------- MODULE Reputation -----------------------------
(***************************************************************************)
(* The reputation of agents: scores computed from the action log by        *)
(* several recalculators (the loop of the provider and the handlers of     *)
(* POST /api/reputation/recalculate), each of which reads the log, saves   *)
(* the scores in the table and replaces the cache, in three steps that     *)
(* others come between; reports of other instances, which go to the table  *)
(* only; and the cache that a restart warms from the table.                *)
(***************************************************************************)
EXTENDS Integers, FiniteSets

CONSTANTS
  Known,       \* agents, by the hash of their id
  Recalcs,     \* goroutines that recalculate
  Loop,        \* the one of RunRecalcLoop
  Conducts,    \* what the action log of the last WindowHours may say of an
               \* agent: requests, ok, latency (ms), authFailures, rateHits
  Levels,      \* levels that other instances report
  MaxLogs,     \* changes of what the log says (bound)
  MaxRestarts  \* (bound)

NoConduct == [requests |-> 0]
NoScore   == [level |-> "none", source |-> "none"]

ASSUME ReputationAssumption ==
  /\ Loop \in Recalcs
  /\ MaxLogs \in Nat /\ MaxRestarts \in Nat
  /\ Conducts \subseteq [requests : Nat \ {0}, ok : Nat, latency : Nat,
                        authFailures : Nat, rateHits : Nat]
  /\ \A c \in Conducts : c.ok <= c.requests

TrustLevels == {"trusted", "normal", "suspicious", "blocked"}
Scores == [level : TrustLevels, source : {"local", "remote"}]

ASSUME LevelsAssumption == Levels \subseteq TrustLevels

VARIABLES
  conduct,   \* per agent, what queryAllAgentStats would find now
  table,     \* table reputation_scores
  scores,    \* cache.scores: the level decides the multiplier
  rpc,       \* per recalculator: "idle", "read", "saved"
  computed,  \* the scores it has computed
  restarts,
  logs,      \* how often conduct has changed
  updated    \* history: the cache has been updated since the start

rvars == <<conduct, table, scores, rpc, computed, restarts, logs, updated>>

-----------------------------------------------------------------------------
(* The score, in units of 10^-6, with the default weights and thresholds *)

Clamp(v, lo, hi) == IF v < lo THEN lo ELSE IF v > hi THEN hi ELSE v

TrustScore(c) ==
  Clamp(500000
          + (350000 * c.ok) \div c.requests
          - (250000 * (c.requests - c.ok)) \div c.requests
          - 20 * Clamp(c.latency, 0, 5000)
          + 100 * Clamp(c.requests, 0, 1000)
          - 15000 * Clamp(c.authFailures, 0, 10)
          - 2500 * Clamp(c.rateHits, 0, 20),
        0, 1000000)

ClassifyTrustLevel(s) ==
  IF s >= 800000 THEN "trusted"
  ELSE IF s >= 400000 THEN "normal"
  ELSE IF s >= 100000 THEN "suspicious"
  ELSE "blocked"

\* computeScore; agents of whom the log says nothing get none.
ScoreOf(c) ==
  IF c = NoConduct THEN NoScore
  ELSE [level |-> ClassifyTrustLevel(TrustScore(c)), source |-> "local"]

RecalculateAll == [a \in Known |-> ScoreOf(conduct[a])]

\* The multiplier of a cached score, in quarters; 1 for agents not in the cache.
Multiplier(s) ==
  CASE s.level = "trusted" -> 8
    [] s.level = "suspicious" -> 1
    [] s.level = "blocked" -> 0
    [] OTHER -> 4

-----------------------------------------------------------------------------

ReputationInit ==
  /\ conduct = [a \in Known |-> NoConduct]
  /\ table = [a \in Known |-> NoScore]
  /\ scores = [a \in Known |-> NoScore]
  /\ rpc = [p \in Recalcs |-> "idle"]
  /\ computed = [p \in Recalcs |-> [a \in Known |-> NoScore]]
  /\ restarts = 0 /\ logs = 0 /\ updated = FALSE

\* The log grows, or its rows leave the window.
LogsChange(a, c) ==
  /\ logs < MaxLogs
  /\ conduct[a] # c
  /\ conduct' = [conduct EXCEPT ![a] = c]
  /\ logs' = logs + 1
  /\ UNCHANGED <<table, scores, rpc, computed, restarts, updated>>

\* Recalculate: recalculateAll; a query that fails ends it.
Query(p) ==
  /\ rpc[p] = "idle"
  /\ rpc' = [rpc EXCEPT ![p] = "read"]
  /\ computed' = [computed EXCEPT ![p] = RecalculateAll]
  /\ UNCHANGED <<conduct, table, scores, restarts, logs, updated>>

\* saveAll: one transaction that replaces the rows of the agents it has scores
\* of and leaves the others.
Upsert(new) == [a \in Known |-> IF new[a] = NoScore THEN table[a] ELSE new[a]]

Save(p) ==
  /\ rpc[p] = "read"
  /\ table' = Upsert(computed[p])
  /\ rpc' = [rpc EXCEPT ![p] = "saved"]
  /\ UNCHANGED <<conduct, scores, computed, restarts, logs, updated>>

\* It fails: logged, and the cache is updated all the same.
SaveFails(p) ==
  /\ rpc[p] = "read"
  /\ rpc' = [rpc EXCEPT ![p] = "saved"]
  /\ UNCHANGED <<conduct, table, scores, computed, restarts, logs, updated>>

\* Fault: agents without a new score keep their old one.
Update_Merges(p) ==
  /\ rpc[p] = "saved"
  /\ scores' = [a \in Known |-> IF computed[p][a] = NoScore THEN scores[a] ELSE computed[p][a]]
  /\ updated' = TRUE
  /\ rpc' = [rpc EXCEPT ![p] = "idle"]
  /\ UNCHANGED <<conduct, table, computed, restarts, logs>>

\* cache.update: everything is replaced.
Update(p) ==
  /\ rpc[p] = "saved"
  /\ scores' = computed[p]
  /\ updated' = TRUE
  /\ rpc' = [rpc EXCEPT ![p] = "idle"]
  /\ UNCHANGED <<conduct, table, computed, restarts, logs>>

\* handleReport, ReportScores: another instance's score of an agent.
Report(a, l) ==
  /\ table' = [table EXCEPT ![a] = [level |-> l, source |-> "remote"]]
  /\ UNCHANGED <<conduct, scores, rpc, computed, restarts, logs, updated>>

\* The process ends and another one starts: NewLocalProvider.
Restart ==
  /\ restarts < MaxRestarts
  /\ restarts' = restarts + 1
  /\ scores' = table
  /\ updated' = FALSE
  /\ rpc' = [p \in Recalcs |-> "idle"]
  /\ computed' = [p \in Recalcs |-> [a \in Known |-> NoScore]]
  /\ UNCHANGED <<conduct, table, logs>>

RecalcStep(p) == Query(p) \/ Save(p) \/ SaveFails(p) \/ Update(p)

ReputationNext ==
  \/ \E a \in Known :
       \/ \E c \in Conducts \cup {NoConduct} : LogsChange(a, c)
       \/ \E l \in Levels : Report(a, l)
  \/ \E p \in Recalcs : RecalcStep(p)
  \/ Restart

ReputationSpec == ReputationInit /\ [][ReputationNext]_rvars

-----------------------------------------------------------------------------
(* Properties *)

\* Types.
ReputationTypeOK ==
  /\ conduct \in [Known -> Conducts \cup {NoConduct}]
  /\ table \in [Known -> Scores \cup {NoScore}]
  /\ scores \in [Known -> Scores \cup {NoScore}]
  /\ rpc \in [Recalcs -> {"idle", "read", "saved"}]
  /\ computed \in [Recalcs -> [Known -> Scores \cup {NoScore}]]
  /\ restarts \in 0..MaxRestarts /\ logs \in 0..MaxLogs
  /\ updated \in BOOLEAN

\* provider.go:34-38, 82-105: what other instances report decides about an agent
\* between a restart and the first recalculation after it, and never later.
RemoteOnlyAtStart ==
  updated => \A a \in Known : scores[a].source # "remote"

\* provider.go:94-138: whatever recalculations, reports and restarts do to each
\* other, the cache comes to what the log says, again and again.
CacheCatchesUp == []<>(scores = RecalculateAll)
=============================================================================
