-------------------------------- MODULE Guard --------------------------------
(***************************************************************************)
(* The guard middleware: for each request, in critical sections of their   *)
(* own, whether its method is blocked after failures, what its agent's     *)
(* reputation makes of the limit, and whether the method's window has room *)
(* for it; and the two tickers that clean up.                              *)
(***************************************************************************)
EXTENDS Reputation

CONSTANTS
  Calls,      \* requests
  Methods,    \* JSON-RPC methods: the key of limits and blocks
  MaxRate,    \* rate_limit_per_min
  Window,     \* length of a window
  MaxFails, FailWindow, BlockDur,  \* brute force protection
  EndOfTime,  \* (bound)
  Settings    \* what a process may meet: which requests of which agents,
              \* failures of how many requests, changes of reputation

ASSUME GuardAssumption ==
  /\ MaxRate \in Nat \ {0} /\ Window \in Nat \ {0} /\ EndOfTime \in Nat
  /\ MaxFails \in Nat \ {0} /\ FailWindow \in Nat \ {0} /\ BlockDur \in Nat \ {0}
  /\ IsFiniteSet(Calls)
  /\ Settings \subseteq [calls : SUBSET Calls, agents : SUBSET (Known \cup {"anonymous"}),
                        failures : Nat, reputation : BOOLEAN]

Anonymous == "anonymous"   \* the signature did not verify, or there is none
Never     == -1

VARIABLES
  setting,
  time,
  buckets,   \* rateLimiter.buckets; count 0: no bucket
  failures,  \* bruteForceTracker.failures; count 0: no record
  gpc,       \* per request: "new", "blocked?", "limit", "allow", "admitted", "rejected"
  method, agent,
  limit,     \* the limit worked out for it
  \* history
  admitted,  \* when requests were let through
  failed     \* when failures were recorded, by method

gvars == <<setting, time, buckets, failures, gpc, method, agent, limit, admitted, failed>>
vars  == <<gvars, rvars>>

NoBucket == [count |-> 0, start |-> 0]
NoRecord == [count |-> 0, first |-> 0, blockedAt |-> Never]

Init ==
  /\ ReputationInit
  /\ setting \in Settings
  /\ time = 0
  /\ buckets = [m \in Methods |-> NoBucket]
  /\ failures = [m \in Methods |-> NoRecord]
  /\ gpc = [r \in Calls |-> "new"]
  /\ method \in [Calls -> Methods]
  /\ agent \in [Calls -> setting.agents]
  /\ limit = [r \in Calls |-> MaxRate]
  /\ admitted = {} /\ failed = {}

Elapse ==
  /\ time < EndOfTime
  /\ time' = time + 1
  /\ UNCHANGED <<setting, buckets, failures, gpc, method, agent, limit, admitted, failed, rvars>>

\* A request is handed to the guard; one that is malformed or too large goes no
\* further.
Arrive(r) ==
  /\ r \in setting.calls
  /\ gpc[r] = "new"
  /\ \E to \in {"blocked?", "rejected"} : gpc' = [gpc EXCEPT ![r] = to]
  /\ UNCHANGED <<setting, time, buckets, failures, method, agent, limit, admitted, failed, rvars>>

\* A record that still blocks.
IsBlocked(m) ==
  /\ failures[m].count > 0 /\ failures[m].blockedAt # Never
  /\ time - failures[m].blockedAt < BlockDur

\* isBlocked: a block that is over is forgotten.
CheckBlocked(r) ==
  LET m == method[r] IN
  /\ gpc[r] = "blocked?"
  /\ gpc' = [gpc EXCEPT ![r] = IF IsBlocked(m) THEN "rejected" ELSE "limit"]
  /\ failures' = IF failures[m].blockedAt # Never /\ ~IsBlocked(m)
                 THEN [failures EXCEPT ![m] = NoRecord] ELSE failures
  /\ UNCHANGED <<setting, time, buckets, method, agent, limit, admitted, failed, rvars>>

\* The limit for the request's agent: none for a blocked one, at least 1.
WorkOutLimit(r) ==
  LET q == IF agent[r] = Anonymous THEN 4 ELSE Multiplier(scores[agent[r]])
      l == (MaxRate * q) \div 4
  IN
  /\ gpc[r] = "limit"
  /\ gpc' = [gpc EXCEPT ![r] = IF q = 0 THEN "rejected" ELSE "allow"]
  /\ limit' = [limit EXCEPT ![r] = IF l < 1 THEN 1 ELSE l]
  /\ UNCHANGED <<setting, time, buckets, failures, method, agent, admitted, failed, rvars>>

\* allowWithLimit: a bucket that is missing or over starts anew, another one
\* counts up to the limit.
Allow(r) ==
  LET m == method[r]
      b == buckets[m]
      over == b.count = 0 \/ time - b.start >= Window
      ok == over \/ b.count < limit[r]
  IN
  /\ gpc[r] = "allow"
  /\ gpc' = [gpc EXCEPT ![r] = IF ok THEN "admitted" ELSE "rejected"]
  /\ buckets' = IF over THEN [buckets EXCEPT ![m] = [count |-> 1, start |-> time]]
                ELSE IF ok THEN [buckets EXCEPT ![m].count = @ + 1]
                ELSE buckets
  /\ admitted' = IF ok THEN admitted \cup {[call |-> r, at |-> time]} ELSE admitted
  /\ UNCHANGED <<setting, time, failures, method, agent, limit, failed, rvars>>

\* Fault: every bucket is deleted.
CleanBuckets_All ==
  /\ buckets' = [m \in Methods |-> NoBucket]
  /\ UNCHANGED <<setting, time, failures, gpc, method, agent, limit, admitted, failed, rvars>>

\* rateLimiter.cleanup.
CleanBuckets ==
  /\ buckets' = [m \in Methods |-> IF time - buckets[m].start >= 2 * Window THEN NoBucket
                                   ELSE buckets[m]]
  /\ UNCHANGED <<setting, time, failures, gpc, method, agent, limit, admitted, failed, rvars>>

\* Fault: the window of a record never ends.
RecordFailure_NoWindow(m) ==
  LET f == failures[m] IN
  /\ Cardinality(failed) < setting.failures
  /\ failures' = [failures EXCEPT ![m] =
       [count |-> f.count + 1, first |-> IF f.count = 0 THEN time ELSE f.first,
        blockedAt |-> IF f.count > 0 /\ f.count + 1 >= MaxFails /\ f.blockedAt = Never
                      THEN time ELSE f.blockedAt]]
  /\ failed' = failed \cup {[method |-> m, n |-> Cardinality(failed), at |-> time]}
  /\ UNCHANGED <<setting, time, buckets, gpc, method, agent, limit, admitted, rvars>>

\* RecordFailure, which the guard offers to the transports: a record whose window is over
\* starts anew, blocked or not; the first failure of a record never blocks.
RecordFailure(m) ==
  LET f == failures[m]
      anew == f.count = 0 \/ time - f.first >= FailWindow
  IN
  /\ Cardinality(failed) < setting.failures
  /\ failures' = [failures EXCEPT ![m] =
       IF anew THEN [count |-> 1, first |-> time, blockedAt |-> Never]
       ELSE [count |-> f.count + 1, first |-> f.first,
             blockedAt |-> IF f.count + 1 >= MaxFails /\ f.blockedAt = Never
                           THEN time ELSE f.blockedAt]]
  /\ failed' = failed \cup {[method |-> m, n |-> Cardinality(failed), at |-> time]}
  /\ UNCHANGED <<setting, time, buckets, gpc, method, agent, limit, admitted, rvars>>

\* Fault: blocked records are cleaned up by their first failure as well.
CleanFailures_ByFirst ==
  /\ failures' = [m \in Methods |-> IF time - failures[m].first >= FailWindow THEN NoRecord
                                    ELSE failures[m]]
  /\ UNCHANGED <<setting, time, buckets, gpc, method, agent, limit, admitted, failed, rvars>>

\* bruteForceTracker.cleanup: blocks that are over, and records without a block
\* two windows after their first failure.
CleanFailures ==
  /\ failures' = [m \in Methods |->
       IF IF failures[m].blockedAt # Never
          THEN time - failures[m].blockedAt >= BlockDur
          ELSE time - failures[m].first >= 2 * FailWindow
       THEN NoRecord ELSE failures[m]]
  /\ UNCHANGED <<setting, time, buckets, gpc, method, agent, limit, admitted, failed, rvars>>

Judge(r) == CheckBlocked(r) \/ WorkOutLimit(r) \/ Allow(r)

Next ==
  \/ Elapse \/ CleanBuckets \/ CleanFailures
  \/ \E r \in Calls : Arrive(r) \/ Judge(r)
  \/ \E m \in Methods : RecordFailure(m)
  \/ setting.reputation /\ ReputationNext /\ UNCHANGED gvars

Spec == Init /\ [][Next]_vars

\* The loop's ticker and the recalculations under way go on; a failed save is a
\* way for it to go on.
FairSpec ==
  /\ Spec
  /\ WF_vars(setting.reputation /\ RecalcStep(Loop) /\ UNCHANGED gvars)
  /\ \A p \in Recalcs \ {Loop} :
       WF_vars(setting.reputation /\ rpc[p] # "idle" /\ RecalcStep(p) /\ UNCHANGED gvars)

-----------------------------------------------------------------------------
(* Properties *)

\* Types.
TypeOK ==
  /\ ReputationTypeOK
  /\ setting \in Settings
  /\ time \in 0..EndOfTime
  /\ buckets \in [Methods -> [count : Nat, start : 0..EndOfTime]]
  /\ failures \in [Methods -> [count : Nat, first : 0..EndOfTime, blockedAt : Never..EndOfTime]]
  /\ gpc \in [Calls -> {"new", "blocked?", "limit", "allow", "admitted", "rejected"}]
  /\ method \in [Calls -> Methods]
  /\ agent \in [Calls -> Known \cup {Anonymous}]
  /\ limit \in [Calls -> Nat \ {0}]
  /\ admitted \subseteq [call : Calls, at : 0..EndOfTime]
  /\ failed \subseteq [method : Methods, n : Nat, at : 0..EndOfTime]

\* guard.go:256-283: whenever a window is started or cleaned up, no interval of
\* its length has more admissions of a method than twice the largest limit of
\* those admitted in it.
TwoWindowsAtMost ==
  \A m \in Methods, t \in 0..EndOfTime :
    LET recent == {x \in admitted : method[x.call] = m /\ x.at \in t..t + Window - 1} IN
    recent # {} => \E x \in recent : Cardinality(recent) <= 2 * limit[x.call]

\* guard.go:317-331: a method is blocked only after as many failures as the
\* configuration says, all in one window that ended with the block.
BlockIsEarned ==
  \A m \in Methods :
    failures[m].blockedAt # Never =>
      LET b == failures[m].blockedAt IN
      Cardinality({f \in failed : f.method = m /\ f.at \in b - FailWindow + 1..b}) >= MaxFails

\* guard.go:317-362: before its time is over nothing lifts a block but a failure
\* that comes when the window it was earned in has ended: no request, no cleanup
\* and no failure within that window.
OnlyAFailureUnblocks ==
  [][\A m \in Methods :
       IsBlocked(m) /\ ~IsBlocked(m)' =>
         \/ time' - failures[m].blockedAt >= BlockDur
         \/ failed' # failed /\ time - failures[m].first >= FailWindow]_vars

\* guard.go:38, "how long to block": a method that is blocked stays blocked until
\* that time is over.
BlockLasts ==
  [][\A m \in Methods :
       IsBlocked(m) /\ ~IsBlocked(m)' => time' - failures[m].blockedAt >= BlockDur]_vars

\* What holds of guard and reputation at all times: types, blocks earned in one
\* window whatever was cleaned up, and what was reported from outside in the cache
\* only from the start to the first recalculation.
GuardInv ==
  /\ TypeOK
  /\ BlockIsEarned
  /\ RemoteOnlyAtStart
=============================================================================
