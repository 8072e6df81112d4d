----------------------------- MODULE GuardProofs -----------------------------
(***************************************************************************)
(* Proofs about Guard and Reputation, for any agents, recalculators,       *)
(* methods, requests, limits and lengths of windows and blocks.            *)
(***************************************************************************)
EXTENDS Guard, FiniteSetTheorems, TLAPS

\* What was computed from the log is nobody else's report.
ComputedIsLocal ==
  /\ \A p \in Recalcs, a \in Known : computed[p][a].source # "remote"
  /\ RemoteOnlyAtStart

\* Of some failures, those of a method in a set of moments.
FailuresAt(F, m, S) == {f \in F : f.method = m /\ f.at \in S}

\* Failures are numbered and in the past.
FailedInOrder ==
  /\ IsFiniteSet(failed)
  /\ \A f \in failed : f.n < Cardinality(failed) /\ f.at <= time

\* A record begins in the past, and counts no more failures than there were
\* from then on.
RecordsCount ==
  \A m \in Methods :
    /\ failures[m].first <= time
    /\ failures[m].count > 0 =>
         failures[m].count <= Cardinality(FailuresAt(failed, m, failures[m].first..EndOfTime))

GuardIInv == TypeOK /\ ComputedIsLocal /\ FailedInOrder /\ RecordsCount /\ BlockIsEarned

-----------------------------------------------------------------------------
(* Reputation *)

\* A score computed from the log is a local one.
LEMMA ScoreIsLocal ==
  ASSUME NEW c
  PROVE  ScoreOf(c) \in Scores \cup {NoScore} /\ ScoreOf(c).source # "remote"
<1>1. ClassifyTrustLevel(TrustScore(c)) \in TrustLevels
  BY DEF ClassifyTrustLevel, TrustLevels
<1> QED BY <1>1 DEF ScoreOf, Scores, NoScore

\* Steps of the reputation keep its types, and reports out of what is computed.
LEMMA ReputationKeeps ==
  ASSUME ReputationTypeOK, ComputedIsLocal, ReputationNext
  PROVE  ReputationTypeOK' /\ ComputedIsLocal'
<1> USE DEF ReputationTypeOK, ComputedIsLocal, RemoteOnlyAtStart
<1>1. NoScore \in Scores \cup {NoScore} /\ NoScore.source # "remote"
  BY DEF NoScore
<1>2. ASSUME NEW a \in Known, NEW c \in Conducts \cup {NoConduct}, LogsChange(a, c)
      PROVE  ReputationTypeOK' /\ ComputedIsLocal'
  <2>1. conduct' \in [Known -> Conducts \cup {NoConduct}]
    BY <1>2 DEF LogsChange
  <2>2. logs' \in 0..MaxLogs
    BY <1>2, ReputationAssumption DEF LogsChange
  <2> QED BY <1>2, <2>1, <2>2 DEF LogsChange
<1>3. ASSUME NEW a \in Known, NEW l \in Levels, Report(a, l)
      PROVE  ReputationTypeOK' /\ ComputedIsLocal'
  <2>1. [level |-> l, source |-> "remote"] \in Scores
    BY LevelsAssumption DEF Scores
  <2>2. table' \in [Known -> Scores \cup {NoScore}]
    BY <1>3, <2>1 DEF Report
  <2> QED BY <1>3, <2>2 DEF Report
<1>4. ASSUME NEW p \in Recalcs, Query(p)
      PROVE  ReputationTypeOK' /\ ComputedIsLocal'
  <2>1. RecalculateAll \in [Known -> Scores \cup {NoScore}]
    BY ScoreIsLocal DEF RecalculateAll
  <2>2. \A a \in Known : RecalculateAll[a].source # "remote"
    BY ScoreIsLocal DEF RecalculateAll
  <2>3. computed' = [computed EXCEPT ![p] = RecalculateAll] /\ rpc' = [rpc EXCEPT ![p] = "read"]
        /\ UNCHANGED <<conduct, table, scores, restarts, logs, updated>>
    BY <1>4 DEF Query
  <2>4. ReputationTypeOK'
    BY <2>1, <2>3
  <2>5. \A q \in Recalcs, a \in Known : computed'[q][a].source # "remote"
    BY <2>2, <2>3
  <2> QED BY <2>3, <2>4, <2>5
<1>5. ASSUME NEW p \in Recalcs, Save(p) \/ SaveFails(p)
      PROVE  ReputationTypeOK' /\ ComputedIsLocal'
  <2>1. Upsert(computed[p]) \in [Known -> Scores \cup {NoScore}]
    BY DEF Upsert
  <2>2. table' \in [Known -> Scores \cup {NoScore}] /\ rpc' \in [Recalcs -> {"idle", "read", "saved"}]
    BY <1>5, <2>1 DEF Save, SaveFails
  <2> QED BY <1>5, <2>2 DEF Save, SaveFails
<1>6. ASSUME NEW p \in Recalcs, Update(p)
      PROVE  ReputationTypeOK' /\ ComputedIsLocal'
  BY <1>6 DEF Update
<1>7. ASSUME Restart
      PROVE  ReputationTypeOK' /\ ComputedIsLocal'
  <2>1. restarts' \in 0..MaxRestarts
    BY <1>7, ReputationAssumption DEF Restart
  <2>2. computed' \in [Recalcs -> [Known -> Scores \cup {NoScore}]]
    BY <1>7, <1>1 DEF Restart
  <2>3. \A p \in Recalcs, a \in Known : computed'[p][a].source # "remote"
    BY <1>7, <1>1 DEF Restart
  <2> QED BY <1>7, <2>1, <2>2, <2>3 DEF Restart
<1> QED BY <1>2, <1>3, <1>4, <1>5, <1>6, <1>7 DEF ReputationNext, RecalcStep

-----------------------------------------------------------------------------
(* Failures and blocks *)

\* A subset of the failures is finite and no larger than a larger one.
LEMMA CountGrows ==
  ASSUME NEW S, NEW T \in SUBSET S, IsFiniteSet(S)
  PROVE  /\ IsFiniteSet(T) /\ Cardinality(T) \in Nat /\ Cardinality(S) \in Nat
         /\ Cardinality(T) <= Cardinality(S)
BY FS_Subset, FS_CardinalityType

\* Steps that neither record nor block: records stay, or are forgotten.
LEMMA RecordsStay ==
  ASSUME GuardIInv, failed' = failed, time' \in Int, time <= time',
         \A m \in Methods : failures'[m] = failures[m] \/ failures'[m] = NoRecord
  PROVE  FailedInOrder' /\ RecordsCount' /\ BlockIsEarned'
<1> USE DEF GuardIInv
<1>1. FailedInOrder'
  BY DEF FailedInOrder, TypeOK
<1>2. RecordsCount'
  <2> SUFFICES ASSUME NEW m \in Methods
               PROVE  /\ failures'[m].first <= time'
                      /\ failures'[m].count > 0 =>
                           failures'[m].count <=
                             Cardinality(FailuresAt(failed, m, failures'[m].first..EndOfTime))
    BY DEF RecordsCount, FailuresAt
  <2>1. failures[m].first \in Int /\ time \in Int /\ 0 <= time
    BY DEF TypeOK
  <2>2. CASE failures'[m] = NoRecord
    BY <2>1, <2>2 DEF NoRecord
  <2>3. CASE failures'[m] = failures[m]
    BY <2>1, <2>3 DEF RecordsCount
  <2> QED BY <2>2, <2>3
<1>3. BlockIsEarned'
  BY DEF BlockIsEarned, NoRecord
<1> QED BY <1>1, <1>2, <1>3

\* Recording a failure.
LEMMA FailureKeeps ==
  ASSUME GuardIInv, NEW m \in Methods, RecordFailure(m)
  PROVE  GuardIInv'
<1> USE DEF GuardIInv
<1> DEFINE new == [method |-> m, n |-> Cardinality(failed), at |-> time]
           f == failures[m]
           anew == f.count = 0 \/ time - f.first >= FailWindow
           g == IF anew THEN [count |-> 1, first |-> time, blockedAt |-> Never]
                ELSE [count |-> f.count + 1, first |-> f.first,
                      blockedAt |-> IF f.count + 1 >= MaxFails /\ f.blockedAt = Never
                                    THEN time ELSE f.blockedAt]
<1>1. /\ failures' = [failures EXCEPT ![m] = g] /\ failed' = failed \cup {new}
      /\ UNCHANGED <<setting, time, buckets, gpc, method, agent, limit, admitted, rvars>>
  BY DEF RecordFailure
<1>2. /\ f.count \in Nat /\ f.first \in 0..EndOfTime /\ f.blockedAt \in Never..EndOfTime
      /\ time \in 0..EndOfTime /\ IsFiniteSet(failed) /\ Cardinality(failed) \in Nat
      /\ EndOfTime \in Nat /\ FailWindow \in Nat \ {0} /\ MaxFails \in Nat \ {0}
      /\ Never = -1
  BY GuardAssumption, FS_CardinalityType DEF TypeOK, FailedInOrder, Never
<1>3. g \in [count : Nat, first : 0..EndOfTime, blockedAt : Never..EndOfTime]
  BY <1>2
<1>4. new \in [method : Methods, n : Nat, at : 0..EndOfTime] /\ new \notin failed
  <2>1. new \notin failed
    BY <1>2 DEF FailedInOrder
  <2> QED BY <1>2, <2>1
<1>5. new.method = m /\ new.at = time /\ new.n = Cardinality(failed)
  OBVIOUS
<1>6. /\ g.count = IF anew THEN 1 ELSE f.count + 1
      /\ g.first = IF anew THEN time ELSE f.first
      /\ g.blockedAt = IF anew THEN Never
                       ELSE IF f.count + 1 >= MaxFails /\ f.blockedAt = Never THEN time
                       ELSE f.blockedAt
  OBVIOUS
<1>7. /\ failures'[m] = g /\ \A k \in Methods \ {m} : failures'[k] = failures[k]
      /\ failures' \in [Methods -> [count : Nat, first : 0..EndOfTime, blockedAt : Never..EndOfTime]]
  <2> HIDE DEF g, new
  <2> QED BY <1>1, <1>3 DEF TypeOK
<1> HIDE DEF new, g
<1>8. IsFiniteSet(failed') /\ Cardinality(failed') = Cardinality(failed) + 1
  BY <1>1, <1>2, <1>4, FS_AddElement
<1>9. TypeOK'
  BY <1>1, <1>4, <1>7 DEF TypeOK, ReputationTypeOK, rvars
<1>10. ComputedIsLocal'
  BY <1>1 DEF ComputedIsLocal, RemoteOnlyAtStart, rvars
<1>11. FailedInOrder'
  <2>1. \A x \in failed : x.n \in Nat /\ x.n < Cardinality(failed) /\ x.at <= time
    BY DEF FailedInOrder, TypeOK
  <2>2. ASSUME NEW x \in failed' PROVE x.n < Cardinality(failed') /\ x.at <= time
    <3>1. CASE x = new
      BY <1>2, <1>5, <1>8, <3>1
    <3>2. CASE x \in failed
      BY <1>2, <1>8, <2>1, <3>2
    <3> QED BY <1>1, <3>1, <3>2
  <2> QED BY <1>1, <1>8, <2>2 DEF FailedInOrder
<1>12. \A S : \A k \in Methods :
         /\ FailuresAt(failed, k, S) \subseteq FailuresAt(failed', k, S)
         /\ IsFiniteSet(FailuresAt(failed, k, S)) /\ IsFiniteSet(FailuresAt(failed', k, S))
         /\ Cardinality(FailuresAt(failed, k, S)) \in Nat
         /\ Cardinality(FailuresAt(failed', k, S)) \in Nat
         /\ Cardinality(FailuresAt(failed, k, S)) <= Cardinality(FailuresAt(failed', k, S))
  <2> SUFFICES ASSUME NEW k \in Methods, NEW S
               PROVE /\ FailuresAt(failed, k, S) \subseteq FailuresAt(failed', k, S)
                     /\ IsFiniteSet(FailuresAt(failed, k, S))
                     /\ IsFiniteSet(FailuresAt(failed', k, S))
                     /\ Cardinality(FailuresAt(failed, k, S)) \in Nat
                     /\ Cardinality(FailuresAt(failed', k, S)) \in Nat
                     /\ Cardinality(FailuresAt(failed, k, S)) <= Cardinality(FailuresAt(failed', k, S))
    OBVIOUS
  <2>1. /\ FailuresAt(failed, k, S) \subseteq FailuresAt(failed', k, S)
        /\ FailuresAt(failed', k, S) \subseteq failed'
    BY <1>1 DEF FailuresAt
  <2>2. IsFiniteSet(FailuresAt(failed', k, S))
    BY <1>8, <2>1, FS_Subset
  <2> QED BY <2>1, <2>2, CountGrows
<1>13. \A S : time \in S =>
          Cardinality(FailuresAt(failed', m, S)) = Cardinality(FailuresAt(failed, m, S)) + 1
  <2> SUFFICES ASSUME NEW S, time \in S
               PROVE  Cardinality(FailuresAt(failed', m, S)) = Cardinality(FailuresAt(failed, m, S)) + 1
    OBVIOUS
  <2>1. /\ FailuresAt(failed', m, S) = FailuresAt(failed, m, S) \cup {new}
        /\ new \notin FailuresAt(failed, m, S)
    BY <1>1, <1>4, <1>5 DEF FailuresAt
  <2>2. IsFiniteSet(FailuresAt(failed, m, S))
    BY <1>12
  <2> QED BY <2>1, <2>2, FS_AddElement
<1>14. f.first <= time
  BY DEF RecordsCount
<1>15. g.first <= time /\ g.count <= Cardinality(FailuresAt(failed', m, g.first..EndOfTime))
  <2>1. Cardinality(FailuresAt(failed, m, g.first..EndOfTime)) \in Nat
    BY <1>12
  <2>2. g.first <= time /\ time \in g.first..EndOfTime
    BY <1>2, <1>6, <1>14
  <2>3. CASE anew
    <3>1. g.count = 1
      BY <1>6, <2>3
    <3>2. Cardinality(FailuresAt(failed', m, g.first..EndOfTime)) =
            Cardinality(FailuresAt(failed, m, g.first..EndOfTime)) + 1
      BY <1>13, <2>2
    <3> QED BY <2>1, <2>2, <3>1, <3>2
  <2>4. CASE ~anew
    <3>1. f.count <= Cardinality(FailuresAt(failed, m, f.first..EndOfTime)) /\ g.first = f.first
      BY <1>2, <1>6, <2>4 DEF RecordsCount
    <3>2. g.count = f.count + 1
      BY <1>6, <2>4
    <3>3. Cardinality(FailuresAt(failed', m, g.first..EndOfTime)) =
            Cardinality(FailuresAt(failed, m, g.first..EndOfTime)) + 1
      BY <1>13, <2>2
    <3> QED BY <1>2, <2>1, <2>2, <3>1, <3>2, <3>3
  <2> QED BY <2>3, <2>4
<1>16. RecordsCount'
  <2> SUFFICES ASSUME NEW k \in Methods
               PROVE  /\ failures'[k].first <= time
                      /\ failures'[k].count > 0 =>
                           failures'[k].count <=
                             Cardinality(FailuresAt(failed', k, failures'[k].first..EndOfTime))
    BY <1>1 DEF RecordsCount, FailuresAt
  <2>1. CASE k = m
    BY <1>7, <1>15, <2>1
  <2>2. CASE k # m
    <3> DEFINE S == failures[k].first..EndOfTime
    <3>1. failures'[k] = failures[k] /\ failures[k].count \in Nat
      BY <1>7, <2>2 DEF TypeOK
    <3>2. /\ Cardinality(FailuresAt(failed, k, S)) \in Nat /\ Cardinality(FailuresAt(failed', k, S)) \in Nat
          /\ Cardinality(FailuresAt(failed, k, S)) <= Cardinality(FailuresAt(failed', k, S))
      BY <1>12
    <3>3. /\ failures[k].first <= time
          /\ failures[k].count > 0 => failures[k].count <= Cardinality(FailuresAt(failed, k, S))
      BY DEF RecordsCount
    <3> HIDE DEF S
    <3>4. failures[k].count > 0 => failures[k].count <= Cardinality(FailuresAt(failed', k, S))
      BY <3>1, <3>2, <3>3
    <3> QED BY <3>1, <3>3, <3>4 DEF S
  <2> QED BY <2>1, <2>2
<1>17. ASSUME NEW k \in Methods, NEW b \in 0..EndOfTime, failures'[k].blockedAt = b
       PROVE  Cardinality(FailuresAt(failed', k, b - FailWindow + 1..b)) >= MaxFails
  <2> DEFINE S == b - FailWindow + 1..b
  <2>1. /\ Cardinality(FailuresAt(failed, k, S)) \in Nat /\ Cardinality(FailuresAt(failed', k, S)) \in Nat
        /\ Cardinality(FailuresAt(failed, k, S)) <= Cardinality(FailuresAt(failed', k, S))
    BY <1>12
  <2>2. CASE failures[k].blockedAt = b
    <3>1. Cardinality(FailuresAt(failed, k, S)) >= MaxFails
      BY <1>2, <2>2 DEF BlockIsEarned, FailuresAt
    <3> QED BY <1>2, <2>1, <3>1
  <2>3. CASE failures[k].blockedAt # b
    <3>1. k = m /\ b = time /\ ~anew /\ f.count + 1 >= MaxFails
      BY <1>2, <1>6, <1>7, <1>17, <2>3
    <3>2. g.first = f.first /\ g.count = f.count + 1 /\ time - f.first < FailWindow
      BY <1>2, <1>6, <3>1
    <3>3. FailuresAt(failed', m, g.first..EndOfTime) \subseteq FailuresAt(failed', m, S)
      <4>1. \A x \in failed' : x.at \in Int /\ x.at <= time
        BY <1>1, <1>9, <1>11 DEF FailedInOrder, TypeOK
      <4>2. ASSUME NEW x \in failed', x.at \in g.first..EndOfTime PROVE x.at \in S
        BY <1>2, <3>1, <3>2, <4>1, <4>2
      <4> QED BY <4>2 DEF FailuresAt
    <3>4. /\ Cardinality(FailuresAt(failed', m, g.first..EndOfTime)) <= Cardinality(FailuresAt(failed', m, S))
          /\ Cardinality(FailuresAt(failed', m, g.first..EndOfTime)) \in Nat
      BY <1>12, <3>3, CountGrows
    <3> HIDE DEF S
    <3>5. Cardinality(FailuresAt(failed', m, S)) >= MaxFails
      BY <1>2, <1>12, <1>15, <3>1, <3>2, <3>4
    <3> QED BY <3>1, <3>5 DEF S
  <2> QED BY <2>2, <2>3
<1>18. BlockIsEarned'
  <2>1. \A k \in Methods : failures'[k].blockedAt # Never => failures'[k].blockedAt \in 0..EndOfTime
    BY <1>2, <1>7
  <2> QED BY <1>17, <2>1 DEF BlockIsEarned, FailuresAt
<1> QED BY <1>9, <1>10, <1>11, <1>16, <1>18

-----------------------------------------------------------------------------
(* The guard *)

\* Steps that leave failures and time alone.
LEMMA NoFailure ==
  ASSUME GuardIInv, TypeOK', UNCHANGED <<failures, failed, time>>,
         UNCHANGED rvars \/ ComputedIsLocal'
  PROVE  GuardIInv'
<1>1. FailedInOrder' /\ RecordsCount' /\ BlockIsEarned'
  <2>1. time' \in Int /\ time <= time'
    BY DEF GuardIInv, TypeOK
  <2> QED BY <2>1, RecordsStay
<1>2. ComputedIsLocal'
  BY DEF rvars, GuardIInv, ComputedIsLocal, RemoteOnlyAtStart
<1> QED BY <1>1, <1>2 DEF GuardIInv

\* A request's steps.
LEMMA CallKeeps ==
  ASSUME GuardIInv, NEW r \in Calls, Arrive(r) \/ Judge(r)
  PROVE  GuardIInv'
<1>0. UNCHANGED rvars => ReputationTypeOK'
  BY DEF rvars, ReputationTypeOK, GuardIInv, TypeOK
<1>1. CASE Arrive(r)
  <2>1. gpc' \in [Calls -> {"new", "blocked?", "limit", "allow", "admitted", "rejected"}]
    BY <1>1 DEF Arrive, GuardIInv, TypeOK
  <2>2. TypeOK'
    BY <1>0, <1>1, <2>1 DEF Arrive, GuardIInv, TypeOK
  <2> QED BY <1>1, <2>2, NoFailure DEF Arrive
<1>2. CASE CheckBlocked(r)
  <2> DEFINE m == method[r]
  <2>1. m \in Methods
    BY DEF GuardIInv, TypeOK
  <2>2. /\ failures' = [failures EXCEPT ![m] = NoRecord] \/ failures' = failures
        /\ gpc' \in [Calls -> {"new", "blocked?", "limit", "allow", "admitted", "rejected"}]
        /\ UNCHANGED <<setting, time, buckets, method, agent, limit, admitted, failed, rvars>>
    BY <1>2 DEF CheckBlocked, GuardIInv, TypeOK
  <2>3. NoRecord \in [count : Nat, first : 0..EndOfTime, blockedAt : Never..EndOfTime]
    BY GuardAssumption DEF NoRecord, Never
  <2>4. /\ failures' \in [Methods -> [count : Nat, first : 0..EndOfTime, blockedAt : Never..EndOfTime]]
        /\ \A k \in Methods : failures'[k] = failures[k] \/ failures'[k] = NoRecord
    BY <2>1, <2>2, <2>3 DEF GuardIInv, TypeOK
  <2>5. TypeOK'
    BY <1>0, <2>2, <2>4 DEF GuardIInv, TypeOK
  <2>6. time' \in Int /\ time <= time'
    BY <2>2 DEF GuardIInv, TypeOK
  <2>7. FailedInOrder' /\ RecordsCount' /\ BlockIsEarned'
    BY <2>2, <2>4, <2>6, RecordsStay
  <2>8. ComputedIsLocal'
    BY <2>2 DEF rvars, GuardIInv, ComputedIsLocal, RemoteOnlyAtStart
  <2> QED BY <2>5, <2>7, <2>8 DEF GuardIInv
<1>3. CASE WorkOutLimit(r)
  <2> DEFINE q == IF agent[r] = Anonymous THEN 4 ELSE Multiplier(scores[agent[r]])
             l == (MaxRate * q) \div 4
  <2>1. q \in {0, 1, 4, 8}
    BY DEF Multiplier
  <2>2. l \in Int
    <3> HIDE DEF q
    <3> QED BY <2>1, GuardAssumption
  <2>3. (IF l < 1 THEN 1 ELSE l) \in Nat \ {0}
    <3> HIDE DEF l
    <3> QED BY <2>2
  <2>4. limit' = [limit EXCEPT ![r] = IF l < 1 THEN 1 ELSE l]
    BY <1>3 DEF WorkOutLimit
  <2> HIDE DEF l, q
  <2>5. limit' \in [Calls -> Nat \ {0}]
    BY <2>3, <2>4 DEF GuardIInv, TypeOK
  <2>6. gpc' \in [Calls -> {"new", "blocked?", "limit", "allow", "admitted", "rejected"}]
    BY <1>3 DEF WorkOutLimit, GuardIInv, TypeOK
  <2>7. TypeOK'
    BY <1>0, <1>3, <2>5, <2>6 DEF WorkOutLimit, GuardIInv, TypeOK
  <2> QED BY <1>3, <2>7, NoFailure DEF WorkOutLimit
<1>4. CASE Allow(r)
  <2>1. /\ buckets \in [Methods -> [count : Nat, start : 0..EndOfTime]]
        /\ time \in 0..EndOfTime /\ method[r] \in Methods
    BY DEF GuardIInv, TypeOK
  <2>2. [count |-> 1, start |-> time] \in [count : Nat, start : 0..EndOfTime]
    BY <2>1
  <2>3. [buckets[method[r]] EXCEPT !.count = @ + 1] \in [count : Nat, start : 0..EndOfTime]
    BY <2>1
  <2>4. \/ buckets' = [buckets EXCEPT ![method[r]] = [count |-> 1, start |-> time]]
        \/ buckets' = [buckets EXCEPT ![method[r]].count = @ + 1]
        \/ buckets' = buckets
    BY <1>4 DEF Allow
  <2>5. buckets' \in [Methods -> [count : Nat, start : 0..EndOfTime]]
    BY <2>1, <2>2, <2>3, <2>4
  <2>6. admitted' \subseteq [call : Calls, at : 0..EndOfTime]
    BY <1>4, <2>1 DEF Allow, GuardIInv, TypeOK
  <2>7. gpc' \in [Calls -> {"new", "blocked?", "limit", "allow", "admitted", "rejected"}]
    BY <1>4 DEF Allow, GuardIInv, TypeOK
  <2>8. UNCHANGED <<setting, time, failures, method, agent, limit, failed, rvars>>
    BY <1>4 DEF Allow
  <2>9. TypeOK'
    BY <1>0, <2>5, <2>6, <2>7, <2>8 DEF GuardIInv, TypeOK
  <2> QED BY <2>8, <2>9, NoFailure
<1> QED BY <1>1, <1>2, <1>3, <1>4 DEF Judge

\* Time and the cleanups.
LEMMA TimeKeeps ==
  ASSUME GuardIInv, Elapse \/ CleanBuckets \/ CleanFailures
  PROVE  GuardIInv'
<1>1. UNCHANGED rvars
  BY DEF Elapse, CleanBuckets, CleanFailures
<1>2. ReputationTypeOK' /\ ComputedIsLocal'
  BY <1>1 DEF rvars, ReputationTypeOK, GuardIInv, TypeOK, ComputedIsLocal, RemoteOnlyAtStart
<1>3. CASE Elapse
  <2>1. time' \in 0..EndOfTime /\ time <= time'
    BY <1>3, GuardAssumption DEF Elapse, GuardIInv, TypeOK
  <2>2. TypeOK'
    BY <1>2, <1>3, <2>1 DEF Elapse, GuardIInv, TypeOK
  <2>3. FailedInOrder' /\ RecordsCount' /\ BlockIsEarned'
    BY <1>3, <2>1, RecordsStay DEF Elapse
  <2> QED BY <1>2, <2>2, <2>3 DEF GuardIInv
<1>4. CASE CleanBuckets
  <2>1. NoBucket \in [count : Nat, start : 0..EndOfTime]
    BY GuardAssumption DEF NoBucket
  <2>2. buckets' \in [Methods -> [count : Nat, start : 0..EndOfTime]]
    BY <1>4, <2>1 DEF CleanBuckets, GuardIInv, TypeOK
  <2>3. TypeOK'
    BY <1>2, <1>4, <2>2 DEF CleanBuckets, GuardIInv, TypeOK
  <2> QED BY <1>4, <2>3, NoFailure DEF CleanBuckets
<1>5. CASE CleanFailures
  <2>1. NoRecord \in [count : Nat, first : 0..EndOfTime, blockedAt : Never..EndOfTime]
    BY GuardAssumption DEF NoRecord, Never
  <2>2. /\ failures' \in [Methods -> [count : Nat, first : 0..EndOfTime, blockedAt : Never..EndOfTime]]
        /\ \A m \in Methods : failures'[m] = failures[m] \/ failures'[m] = NoRecord
    BY <1>5, <2>1 DEF CleanFailures, GuardIInv, TypeOK
  <2>3. UNCHANGED <<setting, time, buckets, gpc, method, agent, limit, admitted, failed>>
    BY <1>5 DEF CleanFailures
  <2>4. TypeOK'
    BY <1>2, <2>2, <2>3 DEF GuardIInv, TypeOK
  <2>5. time' \in Int /\ time <= time'
    BY <2>3 DEF GuardIInv, TypeOK
  <2>6. FailedInOrder' /\ RecordsCount' /\ BlockIsEarned'
    BY <2>2, <2>3, <2>5, RecordsStay
  <2> QED BY <1>2, <2>4, <2>6 DEF GuardIInv
<1> QED BY <1>3, <1>4, <1>5

LEMMA GuardStarts == Init => GuardIInv
<1> SUFFICES ASSUME Init PROVE GuardIInv
  OBVIOUS
<1>1. ReputationTypeOK /\ ComputedIsLocal
  <2>1. NoScore.source # "remote"
    BY DEF NoScore
  <2>2. 0 \in 0..MaxRestarts /\ 0 \in 0..MaxLogs
    BY ReputationAssumption
  <2>3. ReputationTypeOK
    BY <2>2 DEF Init, ReputationInit, ReputationTypeOK
  <2>4. ComputedIsLocal
    BY <2>1 DEF Init, ReputationInit, ComputedIsLocal, RemoteOnlyAtStart
  <2> QED BY <2>3, <2>4
<1>2. /\ NoBucket \in [count : Nat, start : 0..EndOfTime]
      /\ NoRecord \in [count : Nat, first : 0..EndOfTime, blockedAt : Never..EndOfTime]
  BY GuardAssumption DEF NoBucket, NoRecord, Never
<1>3. agent \in [Calls -> Known \cup {Anonymous}]
  BY GuardAssumption DEF Init, Anonymous
<1>4. TypeOK
  BY <1>1, <1>2, <1>3, GuardAssumption DEF Init, TypeOK
<1>5. FailedInOrder
  BY FS_EmptySet DEF Init, FailedInOrder
<1>6. RecordsCount /\ BlockIsEarned
  BY DEF Init, RecordsCount, BlockIsEarned, NoRecord
<1> QED BY <1>1, <1>4, <1>5, <1>6 DEF GuardIInv

LEMMA GuardNext == GuardIInv /\ [Next]_vars => GuardIInv'
<1> SUFFICES ASSUME GuardIInv, [Next]_vars PROVE GuardIInv'
  OBVIOUS
<1>1. CASE setting.reputation /\ ReputationNext /\ UNCHANGED gvars
  <2>1. ReputationTypeOK' /\ ComputedIsLocal'
    BY <1>1, ReputationKeeps DEF GuardIInv, TypeOK
  <2>2. TypeOK'
    BY <1>1, <2>1 DEF gvars, GuardIInv, TypeOK
  <2> QED BY <1>1, <2>1, <2>2, NoFailure DEF gvars
<1>2. CASE UNCHANGED vars
  <2>1. TypeOK'
    BY <1>2 DEF vars, gvars, rvars, GuardIInv, TypeOK, ReputationTypeOK
  <2> QED BY <1>2, <2>1, NoFailure DEF vars, gvars
<1> QED BY <1>1, <1>2, CallKeeps, TimeKeeps, FailureKeeps DEF Next

\* The inductive invariant holds of every run.
THEOREM GuardCorrect == Spec => []GuardIInv
<1> QED BY GuardStarts, GuardNext, PTL DEF Spec

\* guard.go:317-362, provider.go:34-138: whatever requests, failures, cleanups
\* and recalculations come between each other, a method is blocked only after
\* MaxFails failures within one window, and other instances' reports are out of
\* the cache once it has been recalculated.
THEOREM GuardInvCorrect == Spec => []GuardInv
<1>1. GuardIInv => GuardInv
  BY DEF GuardIInv, GuardInv, ComputedIsLocal
<1> QED BY <1>1, GuardCorrect, PTL

\* guard.go:317-362: no request, no cleanup and no failure within the window it
\* was earned in lifts a block before its time; only a failure that comes when
\* that window has ended does.
THEOREM OnlyAFailureUnblocksCorrect == Spec => OnlyAFailureUnblocks
<1> DEFINE Lasts == \A m \in Methods :
       IsBlocked(m) /\ ~IsBlocked(m)' =>
         \/ time' - failures[m].blockedAt >= BlockDur
         \/ failed' # failed /\ time - failures[m].first >= FailWindow
<1>1. GuardIInv /\ [Next]_vars => [Lasts]_vars
  <2> SUFFICES ASSUME GuardIInv, Next, NEW m \in Methods, IsBlocked(m), ~IsBlocked(m)'
               PROVE  \/ time' - failures[m].blockedAt >= BlockDur
                      \/ failed' # failed /\ time - failures[m].first >= FailWindow
    OBVIOUS
  <2> DEFINE f == failures[m]
  <2>1. /\ f.count \in Nat /\ f.first \in Int /\ f.blockedAt \in Int /\ time \in Int
        /\ f.count > 0 /\ f.blockedAt # Never /\ time - f.blockedAt < BlockDur
        /\ BlockDur \in Nat /\ Never = -1
    BY GuardAssumption DEF GuardIInv, TypeOK, IsBlocked, Never
  <2>2. ASSUME UNCHANGED <<failures, time>> PROVE FALSE
    BY <2>2 DEF IsBlocked
  <2>3. CASE Elapse
    <3>1. failures' = failures /\ time' \in Int
      BY <2>1, <2>3 DEF Elapse
    <3> QED BY <2>1, <3>1 DEF IsBlocked
  <2>4. CASE CleanFailures
    <3>1. failures'[m] = failures[m] /\ time' = time
      BY <2>1, <2>4 DEF CleanFailures
    <3> QED BY <2>1, <3>1 DEF IsBlocked
  <2>5. CASE \E r \in Calls : CheckBlocked(r)
    <3>1. failures'[m] = failures[m] /\ time' = time
      BY <2>5 DEF CheckBlocked, GuardIInv, TypeOK
    <3> QED BY <2>1, <3>1 DEF IsBlocked
  <2>6. ASSUME NEW k \in Methods, RecordFailure(k)
        PROVE  failed' # failed /\ time - f.first >= FailWindow
    <3>1. time' = time
      BY <2>6 DEF RecordFailure
    <3>2. failed' # failed
      <4> DEFINE new == [method |-> k, n |-> Cardinality(failed), at |-> time]
      <4>1. new.n = Cardinality(failed) /\ failed' = failed \cup {new}
        BY <2>6 DEF RecordFailure
      <4>2. Cardinality(failed) \in Nat
        BY FS_CardinalityType DEF GuardIInv, FailedInOrder
      <4> HIDE DEF new
      <4>3. new \notin failed
        BY <4>1, <4>2 DEF GuardIInv, FailedInOrder
      <4> QED BY <4>1, <4>3
    <3>3. ASSUME ~(time - f.first >= FailWindow) PROVE FALSE
      <4>1. failures'[m].count > 0 /\ failures'[m].blockedAt = f.blockedAt
        BY <2>1, <2>6, <3>3 DEF RecordFailure, GuardIInv, TypeOK
      <4> QED BY <2>1, <3>1, <4>1 DEF IsBlocked
    <3> QED BY <3>2, <3>3
  <2>7. CASE \E r \in Calls : Arrive(r) \/ WorkOutLimit(r) \/ Allow(r)
    BY <2>2, <2>7 DEF Arrive, WorkOutLimit, Allow
  <2>8. CASE CleanBuckets \/ (setting.reputation /\ ReputationNext /\ UNCHANGED gvars)
    BY <2>2, <2>8 DEF CleanBuckets, gvars
  <2> QED BY <2>3, <2>4, <2>5, <2>6, <2>7, <2>8 DEF Next, Judge
<1> QED BY <1>1, GuardCorrect, PTL DEF Spec, OnlyAFailureUnblocks
-----------------------------------------------------------------------------
(* Windows *)

\* Of some admissions, those of a method in a set of moments.
AdmittedAt(A, who, m, S) == {x \in A : who[x.call] = m /\ x.at \in S}

\* No more admissions than the limit of one of them, or than twice the limit.
WithinOne(X, lim) == X = {} \/ \E x \in X : Cardinality(X) <= lim[x.call]
WithinTwo(X, lim) == X = {} \/ \E x \in X : Cardinality(X) <= 2 * lim[x.call]

AdmittedStay ==
  /\ IsFiniteSet(admitted)
  /\ \A x \in admitted : gpc[x.call] = "admitted" /\ x.at <= time

\* What a bucket says of the admissions A of its method: it counts those since
\* its start, none of them after the window; those from any moment of it on are
\* of this bucket only, those of less than a window before it of one other only.
\* Where there is no bucket there has been no admission for a window.
BucketCounts(A, who, lim, b, m, now) ==
  IF b.count = 0
  THEN \A x \in A : who[x.call] = m => now - x.at > Window
  ELSE /\ b.start <= now
       /\ \A x \in A : who[x.call] = m => x.at < b.start + Window
       /\ Cardinality(AdmittedAt(A, who, m, b.start..EndOfTime)) <= b.count
       /\ \A t \in b.start..EndOfTime : WithinOne(AdmittedAt(A, who, m, t..EndOfTime), lim)
       /\ \A t \in b.start - Window..b.start - 1 :
            WithinOne(AdmittedAt(A, who, m, t..b.start - 1), lim)

BucketsCount ==
  \A m \in Methods : BucketCounts(admitted, method, limit, buckets[m], m, time)

WindowsAreTwo ==
  \A m \in Methods, t \in 0..EndOfTime :
    WithinTwo(AdmittedAt(admitted, method, m, t..t + Window - 1), limit)

WindowsIInv == AdmittedStay /\ BucketsCount /\ WindowsAreTwo

\* What is within one limit each is within two together.
LEMMA TwoWithin ==
  ASSUME NEW X, NEW Y, NEW lim, IsFiniteSet(X), IsFiniteSet(Y),
         WithinOne(X, lim), WithinOne(Y, lim),
         \A x \in X \cup Y : lim[x.call] \in Nat
  PROVE  WithinTwo(X \cup Y, lim)
<1>1. /\ Cardinality(X) \in Nat /\ Cardinality(Y) \in Nat /\ Cardinality(X \cap Y) \in Nat
      /\ Cardinality(X \cup Y) = Cardinality(X) + Cardinality(Y) - Cardinality(X \cap Y)
  BY FS_Union, FS_Intersection, FS_CardinalityType
<1>2. CASE X = {}
  <2>1. X \cup Y = Y
    BY <1>2
  <2>2. ASSUME NEW y \in Y, Cardinality(Y) <= lim[y.call]
        PROVE  Cardinality(Y) <= 2 * lim[y.call]
    BY <1>1, <2>2
  <2> QED BY <2>1, <2>2 DEF WithinOne, WithinTwo
<1>3. CASE Y = {}
  <2>1. X \cup Y = X
    BY <1>3
  <2>2. ASSUME NEW x \in X, Cardinality(X) <= lim[x.call]
        PROVE  Cardinality(X) <= 2 * lim[x.call]
    BY <1>1, <2>2
  <2> QED BY <2>1, <2>2 DEF WithinOne, WithinTwo
<1>4. CASE X # {} /\ Y # {}
  <2>1. PICK x \in X : Cardinality(X) <= lim[x.call]
    BY <1>4 DEF WithinOne
  <2>2. PICK y \in Y : Cardinality(Y) <= lim[y.call]
    BY <1>4 DEF WithinOne
  <2>3. lim[x.call] \in Nat /\ lim[y.call] \in Nat
    OBVIOUS
  <2>4. CASE lim[x.call] >= lim[y.call]
    <3>1. Cardinality(X \cup Y) <= 2 * lim[x.call]
      BY <1>1, <2>1, <2>2, <2>3, <2>4
    <3> QED BY <3>1 DEF WithinTwo
  <2>5. CASE lim[x.call] < lim[y.call]
    <3>1. Cardinality(X \cup Y) <= 2 * lim[y.call]
      BY <1>1, <2>1, <2>2, <2>3, <2>5
    <3> QED BY <3>1 DEF WithinTwo
  <2> QED BY <2>3, <2>4, <2>5
<1> QED BY <1>2, <1>3, <1>4

\* What one more admission y, of method m at a moment, makes of A.
Grows(A, B, y, who, m, at) ==
  /\ \A k, S : k # m => AdmittedAt(B, who, k, S) = AdmittedAt(A, who, k, S)
  /\ \A S : at \notin S => AdmittedAt(B, who, m, S) = AdmittedAt(A, who, m, S)
  /\ \A S : at \in S =>
       /\ AdmittedAt(B, who, m, S) = AdmittedAt(A, who, m, S) \cup {y}
       /\ Cardinality(AdmittedAt(B, who, m, S)) = Cardinality(AdmittedAt(A, who, m, S)) + 1
  /\ \A k, S : /\ IsFiniteSet(AdmittedAt(A, who, k, S))
               /\ IsFiniteSet(AdmittedAt(B, who, k, S))

LEMMA OneMore ==
  ASSUME NEW A, NEW B, NEW y, NEW who, NEW m, NEW at,
         B = A \cup {y}, who[y.call] = m, y.at = at, IsFiniteSet(A), y \notin A
  PROVE  Grows(A, B, y, who, m, at)
<1>1. \A k, S : k # m => AdmittedAt(B, who, k, S) = AdmittedAt(A, who, k, S)
  BY DEF AdmittedAt
<1>2. \A S : at \notin S => AdmittedAt(B, who, m, S) = AdmittedAt(A, who, m, S)
  BY DEF AdmittedAt
<1>3. \A S : at \in S =>
        AdmittedAt(B, who, m, S) = AdmittedAt(A, who, m, S) \cup {y}
  BY DEF AdmittedAt
<1>4. \A k, S : IsFiniteSet(AdmittedAt(A, who, k, S))
  <2>1. \A k, S : AdmittedAt(A, who, k, S) \subseteq A
    BY DEF AdmittedAt
  <2> QED BY <2>1, FS_Subset
<1>5. \A k, S : IsFiniteSet(AdmittedAt(B, who, k, S))
  <2>1. \A k, S : AdmittedAt(B, who, k, S) \subseteq B
    BY DEF AdmittedAt
  <2>2. IsFiniteSet(B)
    BY FS_AddElement
  <2> QED BY <2>1, <2>2, FS_Subset
<1>6. \A S : y \notin AdmittedAt(A, who, m, S)
  BY DEF AdmittedAt
<1>7. \A S : at \in S => Cardinality(AdmittedAt(B, who, m, S)) =
                             Cardinality(AdmittedAt(A, who, m, S)) + 1
  <2> SUFFICES ASSUME NEW S, at \in S
               PROVE  Cardinality(AdmittedAt(B, who, m, S)) =
                        Cardinality(AdmittedAt(A, who, m, S)) + 1
    OBVIOUS
  <2> DEFINE X == AdmittedAt(A, who, m, S)
  <2>1. IsFiniteSet(X) /\ y \notin X /\ AdmittedAt(B, who, m, S) = X \cup {y}
    BY <1>3, <1>4, <1>6
  <2> HIDE DEF X
  <2>2. Cardinality(X \cup {y}) = Cardinality(X) + 1
    BY <2>1, FS_AddElement
  <2> QED BY <2>1, <2>2 DEF X
<1> QED BY <1>1, <1>2, <1>3, <1>4, <1>5, <1>7 DEF Grows

\* A set within the limit of one of its members.
LEMMA WithinItself ==
  ASSUME NEW X, NEW y \in X, NEW lim, Cardinality(X) \in Nat, lim[y.call] \in Nat,
         Cardinality(X) <= lim[y.call]
  PROVE  WithinOne(X, lim) /\ WithinTwo(X, lim)
<1>1. Cardinality(X) <= 2 * lim[y.call]
  OBVIOUS
<1> QED BY <1>1 DEF WithinOne, WithinTwo

\* Limits of admitted requests are settled.
LEMMA LimitsSettled ==
  ASSUME NEW A, NEW who, NEW l1, NEW l2, \A x \in A : l1[x.call] = l2[x.call], NEW m, NEW S
  PROVE  /\ WithinOne(AdmittedAt(A, who, m, S), l1) => WithinOne(AdmittedAt(A, who, m, S), l2)
         /\ WithinTwo(AdmittedAt(A, who, m, S), l1) => WithinTwo(AdmittedAt(A, who, m, S), l2)
<1>1. \A x \in AdmittedAt(A, who, m, S) : l1[x.call] = l2[x.call]
  BY DEF AdmittedAt
<1> QED BY <1>1 DEF WithinOne, WithinTwo

\* Steps that admit nothing.
LEMMA NoneAdmitted ==
  ASSUME GuardIInv, WindowsIInv, UNCHANGED <<admitted, method>>,
         time' \in Int, time <= time',
         \A r \in Calls : gpc[r] = "admitted" => gpc'[r] = "admitted" /\ limit'[r] = limit[r],
         \A m \in Methods :
           buckets'[m] = buckets[m] \/ (/\ buckets'[m].count = 0
                                        /\ time - buckets[m].start >= 2 * Window)
  PROVE  WindowsIInv'
<1> USE DEF WindowsIInv
<1>1. /\ admitted \subseteq [call : Calls, at : 0..EndOfTime]
      /\ time \in Nat /\ \A m \in Methods : buckets[m].start \in Nat /\ buckets[m].count \in Nat
      /\ Window \in Nat \ {0} /\ EndOfTime \in Nat
  BY GuardAssumption DEF GuardIInv, TypeOK
<1>2. \A x \in admitted : limit[x.call] = limit'[x.call]
  BY <1>1 DEF AdmittedStay
<1>3. AdmittedStay'
  BY <1>1 DEF AdmittedStay
<1>4. WindowsAreTwo'
  BY <1>2, LimitsSettled DEF WindowsAreTwo
<1>5. ASSUME NEW m \in Methods
      PROVE  BucketCounts(admitted, method, limit', buckets'[m], m, time')
  <2>1. BucketCounts(admitted, method, limit, buckets[m], m, time)
    BY DEF BucketsCount
  <2>2. CASE buckets'[m] = buckets[m] /\ buckets[m].count = 0
    <3>1. \A x \in admitted : method[x.call] = m => time - x.at > Window /\ x.at \in Int
      BY <1>1, <2>1, <2>2 DEF BucketCounts
    <3> QED BY <1>1, <2>2, <3>1 DEF BucketCounts
  <2>3. CASE buckets'[m] = buckets[m] /\ buckets[m].count # 0
    <3> DEFINE b == buckets[m]
    <3>1. /\ b.start <= time
          /\ \A x \in admitted : method[x.call] = m => x.at < b.start + Window
          /\ Cardinality(AdmittedAt(admitted, method, m, b.start..EndOfTime)) <= b.count
          /\ \A t \in b.start..EndOfTime :
               WithinOne(AdmittedAt(admitted, method, m, t..EndOfTime), limit)
          /\ \A t \in b.start - Window..b.start - 1 :
               WithinOne(AdmittedAt(admitted, method, m, t..b.start - 1), limit)
      BY <2>1, <2>3 DEF BucketCounts
    <3>2. b.start <= time'
      BY <1>1, <3>1
    <3>3. /\ \A t \in b.start..EndOfTime :
               WithinOne(AdmittedAt(admitted, method, m, t..EndOfTime), limit')
          /\ \A t \in b.start - Window..b.start - 1 :
               WithinOne(AdmittedAt(admitted, method, m, t..b.start - 1), limit')
      <4>1. \A S : WithinOne(AdmittedAt(admitted, method, m, S), limit) =>
                    WithinOne(AdmittedAt(admitted, method, m, S), limit')
        BY <1>2, LimitsSettled
      <4> QED BY <3>1, <4>1
    <3> QED BY <2>3, <3>1, <3>2, <3>3 DEF BucketCounts
  <2>4. CASE buckets'[m].count = 0 /\ time - buckets[m].start >= 2 * Window
    <3>1. \A x \in admitted : method[x.call] = m => time - x.at > Window /\ x.at \in Int
      <4>1. CASE buckets[m].count = 0
        BY <1>1, <2>1, <4>1 DEF BucketCounts
      <4>2. CASE buckets[m].count # 0
        <5>1. \A x \in admitted : method[x.call] = m =>
                x.at < buckets[m].start + Window /\ x.at \in Int
          BY <1>1, <2>1, <4>2 DEF BucketCounts
        <5> QED BY <1>1, <2>4, <5>1
      <4> QED BY <4>1, <4>2
    <3> QED BY <1>1, <2>4, <3>1 DEF BucketCounts
  <2> QED BY <2>2, <2>3, <2>4
<1>6. BucketsCount'
  BY <1>5 DEF BucketsCount
<1> QED BY <1>3, <1>4, <1>6

\* A request that is let through.
LEMMA AllowCounts ==
  ASSUME GuardIInv, WindowsIInv, NEW r \in Calls, Allow(r)
  PROVE  WindowsIInv'
<1> DEFINE m == method[r]
           b == buckets[m]
           s == b.start
           n == b.count
           y == [call |-> r, at |-> time]
           over == n = 0 \/ time - s >= Window
           At(A, S) == AdmittedAt(A, method, m, S)
<1>1. /\ gpc[r] = "allow" /\ gpc' = [gpc EXCEPT ![r] = IF over \/ n < limit[r] THEN "admitted"
                                                      ELSE "rejected"]
      /\ UNCHANGED <<time, limit, method>>
  BY DEF Allow
<1>2. /\ admitted \subseteq [call : Calls, at : 0..EndOfTime] /\ gpc \in [Calls ->
           {"new", "blocked?", "limit", "allow", "admitted", "rejected"}]
      /\ buckets \in [Methods -> [count : Nat, start : 0..EndOfTime]]
      /\ m \in Methods /\ \A q \in Calls : limit[q] \in Nat \ {0}
  BY DEF GuardIInv, TypeOK
<1>3. /\ time \in Nat /\ time <= EndOfTime /\ s \in Nat /\ s <= EndOfTime /\ n \in Nat
      /\ Window \in Nat \ {0} /\ EndOfTime \in Nat /\ limit[r] \in Nat \ {0}
  BY <1>2, GuardAssumption DEF GuardIInv, TypeOK
<1>4. CASE ~(over \/ n < limit[r])
  <2>1. UNCHANGED <<admitted, buckets>>
    BY <1>4 DEF Allow
  <2>2. \A q \in Calls : gpc[q] = "admitted" => gpc'[q] = "admitted" /\ limit'[q] = limit[q]
    BY <1>1, <1>2
  <2> QED BY <1>1, <1>3, <2>1, <2>2, NoneAdmitted
<1>5. CASE over \/ n < limit[r]
  <2>1. admitted' = admitted \cup {y} /\ y.call = r /\ y.at = time
    BY <1>5 DEF Allow
  <2>2. /\ IsFiniteSet(admitted) /\ y \notin admitted
        /\ \A x \in admitted : x.at \in Nat /\ x.at <= time
    BY <1>1, <1>2 DEF WindowsIInv, AdmittedStay
  <2> HIDE DEF y
  <2>3. /\ \A k, S : k # m => AdmittedAt(admitted', method, k, S) = AdmittedAt(admitted, method, k, S)
        /\ \A S : time \notin S => At(admitted', S) = At(admitted, S)
        /\ \A S : time \in S => /\ At(admitted', S) = At(admitted, S) \cup {y}
                                /\ Cardinality(At(admitted', S)) = Cardinality(At(admitted, S)) + 1
        /\ \A k, S : /\ IsFiniteSet(AdmittedAt(admitted, method, k, S))
                     /\ IsFiniteSet(AdmittedAt(admitted', method, k, S))
    <3>1. method[y.call] = m /\ admitted' = admitted \cup {y} /\ y.at = time
      BY <2>1
    <3>2. IsFiniteSet(admitted) /\ y \notin admitted
      BY <2>2
    <3>3. Grows(admitted, admitted', y, method, m, time)
      BY <3>1, <3>2, OneMore
    <3> QED BY <3>3 DEF Grows
  <2>4. AdmittedStay'
    <3>1. IsFiniteSet(admitted')
      BY <2>1, <2>2, FS_AddElement
    <3>2. \A x \in admitted : gpc'[x.call] = "admitted" /\ x.at <= time'
      BY <1>1, <1>2, <2>2 DEF WindowsIInv, AdmittedStay
    <3>3. gpc'[r] = "admitted" /\ time <= time'
      BY <1>1, <1>2, <1>3, <1>5
    <3> QED BY <2>1, <3>1, <3>2, <3>3 DEF AdmittedStay
  <2>5. BucketCounts(admitted, method, limit, b, m, time)
    BY <1>2 DEF WindowsIInv, BucketsCount
\* The other methods meet nothing new.
  <2>6. ASSUME NEW k \in Methods \ {m}
        PROVE  /\ BucketCounts(admitted', method, limit, buckets'[k], k, time)
               /\ \A t \in 0..EndOfTime :
                    WithinTwo(AdmittedAt(admitted', method, k, t..t + Window - 1), limit)
    <3>1. buckets'[k] = buckets[k]
      BY <1>2 DEF Allow
    <3>2. \A x \in admitted' : method[x.call] = k => x \in admitted
      BY <2>1
    <3>3. \A S : AdmittedAt(admitted', method, k, S) = AdmittedAt(admitted, method, k, S)
      BY <2>3
    <3>4. BucketCounts(admitted, method, limit, buckets[k], k, time)
      BY DEF WindowsIInv, BucketsCount
    <3>5. BucketCounts(admitted', method, limit, buckets'[k], k, time)
      BY <3>1, <3>2, <3>3, <3>4 DEF BucketCounts
    <3>6. \A t \in 0..EndOfTime :
            WithinTwo(AdmittedAt(admitted', method, k, t..t + Window - 1), limit)
      BY <3>3 DEF WindowsIInv, WindowsAreTwo
    <3> QED BY <3>5, <3>6
\* An interval without this moment has what it had.
  <2>7. ASSUME NEW t \in 0..EndOfTime, time \notin t..t + Window - 1
        PROVE  WithinTwo(At(admitted', t..t + Window - 1), limit)
    <3>1. WithinTwo(At(admitted, t..t + Window - 1), limit)
      BY <1>2 DEF WindowsIInv, WindowsAreTwo
    <3> QED BY <2>3, <2>7, <3>1
  <2>8. \A x \in At(admitted', Nat) : limit[x.call] \in Nat
    <3>1. \A x \in admitted' : x.call \in Calls
      BY <1>2, <2>1
    <3> QED BY <1>2, <3>1 DEF AdmittedAt
  <2>9. \A S : Cardinality(At(admitted', S)) \in Nat /\ Cardinality(At(admitted, S)) \in Nat
    BY <2>3, FS_CardinalityType
  <2>10. ASSUME over
         PROVE  /\ BucketCounts(admitted', method, limit, buckets'[m], m, time)
                /\ \A t \in 0..EndOfTime : time \in t..t + Window - 1 =>
                     WithinTwo(At(admitted', t..t + Window - 1), limit)
    <3>1. buckets'[m] = [count |-> 1, start |-> time]
      BY <1>2, <2>10 DEF Allow
\* Nothing of the method has been let through in this moment, and what was in
\* the window before it was of one bucket.
    <3>2. \A x \in admitted : method[x.call] = m => x.at < time
      <4>1. CASE n = 0
        BY <1>3, <2>2, <2>5, <4>1 DEF BucketCounts
      <4>2. CASE n # 0
        BY <1>3, <2>2, <2>5, <2>10, <4>2 DEF BucketCounts
      <4> QED BY <4>1, <4>2
    <3>3. ASSUME NEW t \in time - Window..time - 1
          PROVE  WithinOne(At(admitted, t..time - 1), limit)
      <4>1. CASE n = 0
        <5>1. At(admitted, t..time - 1) = {}
          <6> SUFFICES ASSUME NEW x \in admitted, method[x.call] = m, x.at \in t..time - 1
                       PROVE  FALSE
            BY DEF AdmittedAt
          <6>1. time - x.at > Window
            BY <2>5, <4>1 DEF BucketCounts
          <6> QED BY <1>3, <2>2, <3>3, <6>1
        <5> QED BY <5>1 DEF WithinOne
      <4>2. CASE n # 0
        <5>1. t \in s..EndOfTime
          BY <1>3, <2>10, <4>2
        <5>2. WithinOne(At(admitted, t..EndOfTime), limit)
          BY <2>5, <4>2, <5>1 DEF BucketCounts
        <5>3. \A x \in admitted : method[x.call] = m =>
                (x.at \in t..EndOfTime <=> x.at \in t..time - 1)
          BY <1>3, <2>2, <3>2
        <5>4. At(admitted, t..EndOfTime) = At(admitted, t..time - 1)
          BY <5>3 DEF AdmittedAt
        <5> QED BY <5>2, <5>4
      <4> QED BY <4>1, <4>2
    <3>4. ASSUME NEW t \in Nat, t <= time PROVE time \in t..EndOfTime
      BY <1>3, <3>4
    <3>5. At(admitted, time..EndOfTime) = {}
      <4>1. \A x \in admitted : method[x.call] = m => x.at \notin time..EndOfTime
        BY <1>3, <2>2, <3>2
      <4> QED BY <4>1 DEF AdmittedAt
    <3>6. At(admitted', time..EndOfTime) = {y} /\ Cardinality({y}) = 1
      <4>1. time \in time..EndOfTime
        BY <1>3
      <4> QED BY <2>3, <3>5, <4>1, FS_Singleton
    <3>7. WithinOne({y}, limit)
      BY <1>3, <2>1, <3>6, WithinItself
    <3>8. BucketCounts(admitted', method, limit, buckets'[m], m, time)
      <4>1. \A x \in admitted' : method[x.call] = m => x.at < time + Window
        BY <1>3, <2>1, <2>2
      <4>2. ASSUME NEW t \in time..EndOfTime PROVE WithinOne(At(admitted', t..EndOfTime), limit)
        <5>1. CASE t = time
          BY <3>6, <3>7, <5>1
        <5>2. CASE t # time
          <6>1. \A x \in admitted' : x.at \notin t..EndOfTime
            BY <1>3, <2>1, <2>2, <4>2, <5>2
          <6>2. At(admitted', t..EndOfTime) = {}
            BY <6>1 DEF AdmittedAt
          <6> QED BY <6>2 DEF WithinOne
        <5> QED BY <5>1, <5>2
      <4>3. ASSUME NEW t \in time - Window..time - 1
            PROVE  WithinOne(At(admitted', t..time - 1), limit)
        <5>1. time \notin t..time - 1
          BY <1>3
        <5> QED BY <2>3, <3>3, <5>1
      <4>4. buckets'[m].count = 1 /\ buckets'[m].start = time /\ time <= time
        BY <1>3, <3>1
      <4>5. Cardinality(At(admitted', time..EndOfTime)) <= 1
        <5>1. Cardinality(At(admitted', time..EndOfTime)) = 1
          BY Zenon, <3>6
        <5> QED BY <5>1
      <4> QED BY <4>1, <4>2, <4>3, <4>4, <4>5 DEF BucketCounts
    <3>9. ASSUME NEW t \in 0..EndOfTime, time \in t..t + Window - 1
          PROVE  WithinTwo(At(admitted', t..t + Window - 1), limit)
      <4>1. At(admitted, t..t + Window - 1) = At(admitted, t..time - 1)
        <5>1. \A x \in admitted : method[x.call] = m =>
                (x.at \in t..t + Window - 1 <=> x.at \in t..time - 1)
          BY <1>3, <2>2, <3>2, <3>9
        <5> QED BY <5>1 DEF AdmittedAt
      <4>2. WithinOne(At(admitted, t..time - 1), limit)
        <5>1. CASE t = time
          <6>1. At(admitted, t..time - 1) = {}
            <7>1. \A x \in admitted : x.at \notin t..time - 1
              BY <1>3, <2>2, <5>1
            <7> QED BY <7>1 DEF AdmittedAt
          <6> QED BY <6>1 DEF WithinOne
        <5>2. CASE t # time
          <6>1. t \in time - Window..time - 1
            BY <1>3, <3>9, <5>2
          <6> QED BY <3>3, <6>1
        <5> QED BY <5>1, <5>2
      <4>3. At(admitted', t..t + Window - 1) = At(admitted, t..time - 1) \cup {y}
        BY <2>3, <3>9, <4>1
      <4>4. \A x \in At(admitted, t..time - 1) \cup {y} : limit[x.call] \in Nat
        <5>1. \A x \in At(admitted, t..time - 1) : x.call \in Calls
          BY <1>2 DEF AdmittedAt
        <5> QED BY <1>2, <1>3, <2>1, <5>1
      <4>5. IsFiniteSet({y}) /\ IsFiniteSet(At(admitted, t..time - 1))
        BY <2>3, FS_Singleton
      <4> QED BY <3>7, <4>2, <4>3, <4>4, <4>5, TwoWithin
    <3> QED BY <3>8, <3>9
  <2>11. ASSUME ~over
         PROVE  /\ BucketCounts(admitted', method, limit, buckets'[m], m, time)
                /\ \A t \in 0..EndOfTime : time \in t..t + Window - 1 =>
                     WithinTwo(At(admitted', t..t + Window - 1), limit)
    <3>1. buckets'[m] = [buckets[m] EXCEPT !.count = n + 1] /\ n < limit[r]
      BY <1>2, <1>5, <2>11 DEF Allow
    <3>2. buckets'[m].count = n + 1 /\ buckets'[m].start = s
      BY <1>2, <3>1
    <3>3. /\ s <= time /\ time < s + Window /\ n # 0
          /\ \A x \in admitted : method[x.call] = m => x.at < s + Window
          /\ Cardinality(At(admitted, s..EndOfTime)) <= n
          /\ \A t \in s - Window..s - 1 : WithinOne(At(admitted, t..s - 1), limit)
      BY <1>3, <2>5, <2>11 DEF BucketCounts
    <3>4. Cardinality(At(admitted', s..EndOfTime)) <= n + 1
      <4>1. time \in s..EndOfTime
        BY <1>3, <3>3
      <4>2. Cardinality(At(admitted', s..EndOfTime)) = Cardinality(At(admitted, s..EndOfTime)) + 1
        BY <2>3, <4>1
      <4> QED BY <1>3, <2>9, <3>3, <4>2
\* What the bucket has let through, y with it, is within the limit of y.
    <3>5. ASSUME NEW S, time \in S,
                 \A x \in admitted' : method[x.call] = m /\ x.at \in S => x.at \in s..EndOfTime
          PROVE  WithinOne(At(admitted', S), limit) /\ WithinTwo(At(admitted', S), limit)
      <4>1. At(admitted', S) \subseteq At(admitted', s..EndOfTime)
        BY <3>5 DEF AdmittedAt
      <4>2. Cardinality(At(admitted', S)) <= Cardinality(At(admitted', s..EndOfTime))
        BY <2>3, <4>1, FS_Subset
      <4>3. Cardinality(At(admitted', S)) <= limit[r]
        BY <1>3, <2>9, <3>1, <3>4, <4>2
      <4>4. y \in At(admitted', S)
        BY <2>3, <3>5
      <4> QED BY <1>3, <2>1, <2>9, <4>3, <4>4, WithinItself
    <3>6. BucketCounts(admitted', method, limit, buckets'[m], m, time)
      <4>1. \A x \in admitted' : method[x.call] = m => x.at < s + Window
        BY <2>1, <3>3
      <4>2. ASSUME NEW t \in s..EndOfTime PROVE WithinOne(At(admitted', t..EndOfTime), limit)
        <5>1. CASE t <= time
          <6>1. time \in t..EndOfTime /\ \A a \in t..EndOfTime : a \in s..EndOfTime
            BY <1>3, <4>2, <5>1
          <6> QED BY <3>5, <6>1
        <5>2. CASE t > time
          <6>1. \A x \in admitted' : x.at \notin t..EndOfTime
            BY <1>3, <2>1, <2>2, <4>2, <5>2
          <6>2. At(admitted', t..EndOfTime) = {}
            BY <6>1 DEF AdmittedAt
          <6> QED BY <6>2 DEF WithinOne
        <5> QED BY <1>3, <5>1, <5>2
      <4>3. ASSUME NEW t \in s - Window..s - 1 PROVE WithinOne(At(admitted', t..s - 1), limit)
        <5>1. time \notin t..s - 1
          BY <1>3, <3>3
        <5> QED BY <2>3, <3>3, <5>1
      <4>4. n + 1 # 0
        BY <1>3
      <4> QED BY <3>2, <3>3, <3>4, <4>1, <4>2, <4>3, <4>4 DEF BucketCounts
    <3>7. ASSUME NEW t \in 0..EndOfTime, time \in t..t + Window - 1
          PROVE  WithinTwo(At(admitted', t..t + Window - 1), limit)
      <4>1. \A x \in admitted' : x.at \in Nat /\ x.at <= time
        BY <1>3, <2>1, <2>2
      <4>2. CASE t >= s
        <5>1. \A x \in admitted' : x.at \in t..t + Window - 1 => x.at \in s..EndOfTime
          BY <1>3, <4>1, <4>2
        <5> QED BY <3>5, <3>7, <5>1
      <4>3. CASE t < s
        <5> DEFINE X == At(admitted', t..s - 1)
                   Y == At(admitted', s..EndOfTime)
        <5>1. WithinOne(X, limit)
          <6>1. t \in s - Window..s - 1 /\ time \notin t..s - 1
            BY <1>3, <3>3, <3>7, <4>3
          <6> QED BY <2>3, <3>3, <6>1
        <5>2. WithinOne(Y, limit)
          <6>1. time \in s..EndOfTime
            BY <1>3, <3>3
          <6> QED BY <3>5, <6>1
        <5>3. At(admitted', t..t + Window - 1) = X \cup Y
          <6>1. \A x \in admitted' :
                  x.at \in t..t + Window - 1 <=> x.at \in t..s - 1 \/ x.at \in s..EndOfTime
            BY <1>3, <3>3, <3>7, <4>1, <4>3
          <6> QED BY <6>1 DEF AdmittedAt
        <5>4. \A x \in X \cup Y : limit[x.call] \in Nat
          <6>1. \A x \in X \cup Y : x \in At(admitted', Nat)
            BY <4>1 DEF AdmittedAt
          <6> QED BY <2>8, <6>1
        <5>5. IsFiniteSet(X) /\ IsFiniteSet(Y)
          BY <2>3
        <5> HIDE DEF X, Y
        <5> QED BY <5>1, <5>2, <5>3, <5>4, <5>5, TwoWithin
      <4> QED BY <1>3, <4>2, <4>3
    <3> QED BY <3>6, <3>7
  <2>12. BucketsCount'
    <3>1. \A k \in Methods : BucketCounts(admitted', method, limit, buckets'[k], k, time)
      BY <2>6, <2>10, <2>11
    <3> QED BY <1>1, <3>1 DEF BucketsCount
  <2>13. WindowsAreTwo'
    <3>1. \A k \in Methods, t \in 0..EndOfTime :
            WithinTwo(AdmittedAt(admitted', method, k, t..t + Window - 1), limit)
      BY <2>6, <2>7, <2>10, <2>11
    <3> QED BY <1>1, <3>1 DEF WindowsAreTwo
  <2> QED BY <2>4, <2>12, <2>13 DEF WindowsIInv
<1> QED BY <1>4, <1>5

LEMMA WindowsNext == GuardIInv /\ WindowsIInv /\ [Next]_vars => WindowsIInv'
<1> SUFFICES ASSUME GuardIInv, WindowsIInv, [Next]_vars PROVE WindowsIInv'
  OBVIOUS
<1>1. /\ time \in Nat /\ buckets \in [Methods -> [count : Nat, start : 0..EndOfTime]]
      /\ gpc \in [Calls -> {"new", "blocked?", "limit", "allow", "admitted", "rejected"}]
      /\ limit \in [Calls -> Nat \ {0}]
  BY DEF GuardIInv, TypeOK
<1>2. ASSUME UNCHANGED <<admitted, method, time, buckets>>,
             \A r \in Calls : gpc[r] = "admitted" => gpc'[r] = "admitted" /\ limit'[r] = limit[r]
      PROVE  WindowsIInv'
  <2>1. time' \in Int /\ time <= time'
    BY <1>1, <1>2
  <2> QED BY <1>2, <2>1, NoneAdmitted
<1>3. CASE UNCHANGED <<admitted, method, time, buckets, gpc, limit>>
  BY <1>2, <1>3
<1>4. CASE UNCHANGED vars
  BY <1>3, <1>4 DEF vars, gvars
<1>5. CASE setting.reputation /\ ReputationNext /\ UNCHANGED gvars
  BY <1>3, <1>5 DEF gvars
<1>6. CASE CleanFailures \/ \E m \in Methods : RecordFailure(m)
  BY <1>3, <1>6 DEF CleanFailures, RecordFailure
<1>7. CASE Elapse
  <2>1. time' \in Int /\ time <= time'
    BY <1>1, <1>7 DEF Elapse
  <2>2. UNCHANGED <<admitted, method, buckets, gpc, limit>>
    BY <1>7 DEF Elapse
  <2> QED BY <2>1, <2>2, NoneAdmitted
<1>8. CASE CleanBuckets
  <2>1. UNCHANGED <<admitted, method, time, gpc, limit>>
    BY <1>8 DEF CleanBuckets
  <2>2. \A m \in Methods :
          buckets'[m] = buckets[m] \/ (/\ buckets'[m].count = 0
                                       /\ time - buckets[m].start >= 2 * Window)
    BY <1>8 DEF CleanBuckets, NoBucket
  <2>3. time' \in Int /\ time <= time'
    BY <1>1, <2>1
  <2> QED BY <2>1, <2>2, <2>3, NoneAdmitted
<1>9. ASSUME NEW r \in Calls, Arrive(r) \/ CheckBlocked(r) \/ WorkOutLimit(r)
      PROVE  WindowsIInv'
  <2>1. UNCHANGED <<admitted, method, time, buckets>>
    BY <1>9 DEF Arrive, CheckBlocked, WorkOutLimit
  <2>2. /\ gpc[r] # "admitted" /\ \A q \in Calls \ {r} : gpc'[q] = gpc[q]
        /\ \A q \in Calls \ {r} : limit'[q] = limit[q]
    BY <1>1, <1>9 DEF Arrive, CheckBlocked, WorkOutLimit
  <2> QED BY <1>2, <2>1, <2>2
<1> QED BY <1>4, <1>5, <1>6, <1>7, <1>8, <1>9, AllowCounts DEF Next, Judge

\* guard.go:256-283: whatever windows are started and cleaned up, and however the
\* limits change in between, no interval of a window's length has more admissions
\* of a method than twice the largest limit of those admitted in it.
THEOREM TwoWindowsCorrect == Spec => []TwoWindowsAtMost
<1>1. Init => WindowsIInv
  <2> SUFFICES ASSUME Init PROVE WindowsIInv
    OBVIOUS
  <2>1. admitted = {} /\ \A m \in Methods : buckets[m].count = 0
    BY DEF Init, NoBucket
  <2>2. AdmittedStay
    BY <2>1, FS_EmptySet DEF AdmittedStay
  <2>3. BucketsCount
    BY <2>1 DEF BucketsCount, BucketCounts
  <2>4. WindowsAreTwo
    BY <2>1 DEF WindowsAreTwo, WithinTwo, AdmittedAt
  <2> QED BY <2>2, <2>3, <2>4 DEF WindowsIInv
<1>2. WindowsIInv => TwoWindowsAtMost
  BY DEF WindowsIInv, WindowsAreTwo, WithinTwo, AdmittedAt, TwoWindowsAtMost
<1> QED BY <1>1, <1>2, WindowsNext, GuardCorrect, PTL DEF Spec
=============================================================================
