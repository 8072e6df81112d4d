--------------------------- MODULE AdmissionProofs ---------------------------
(***************************************************************************)
(* Proofs about AgentKeys, for any sets of agents and keys, any lifetime   *)
(* of cached answers and any number of reloads; about Tokens, for any      *)
(* number of requests, tokens and plans and any windows; and about         *)
(* Admission, for any configurations, credentials and settings: the key    *)
(* stores and the tokens keep their invariants when they are composed, and *)
(* what is let in past the door was checked.                               *)
(***************************************************************************)
EXTENDS Admission, FiniteSetTheorems, TLAPS

-----------------------------------------------------------------------------
(* AgentKeys *)

FileType  == [Chains -> [Agents -> Answers]]
TableType == [Agents -> [key : Answers, active : BOOLEAN]]

\* What the stores under a chain's cache say now was said now.
HeldNow ==
  \A g \in 1..chains, a \in Agents :
    lastHeld[g][a][Inner(fileKeys, agentKeys, g, a)] = now

\* An answer was held by the time it was looked up, which is TTL before it expires.
AnswersHeld ==
  \A g \in Chains, a \in Agents :
    /\ \A k \in Answers : lastHeld[g][a][k] <= now
    /\ lastHeld[g][a][cache[g][a].key] >= cache[g][a].expiry - TTL

KeysIInv == KeysTypeOK /\ HeldNow /\ AnswersHeld

-----------------------------------------------------------------------------
(* The stores *)

\* The stores under a cache answer with a key or with none.
LEMMA InnerType ==
  ASSUME NEW files \in FileType, NEW table \in TableType, NEW g \in Chains, NEW a \in Agents
  PROVE  Inner(files, table, g, a) \in Answers
BY DEF Inner, TableKey, FileType, TableType, Answers

\* What Held remembers.
LEMMA HeldIs ==
  ASSUME KeysTypeOK, NEW t \in Times, NEW n \in Chains, NEW files, NEW table
  PROVE  /\ Held(t, n, files, table) \in [Chains -> [Agents -> [Answers -> -1..MaxTime]]]
         /\ \A g \in Chains, a \in Agents, k \in Answers :
              Held(t, n, files, table)[g][a][k] =
                IF g <= n /\ Inner(files, table, g, a) = k THEN t ELSE lastHeld[g][a][k]
<1> USE KeysAssumption
<1>1. \A g \in Chains, a \in Agents, k \in Answers : lastHeld[g][a][k] \in -1..MaxTime
  BY DEF KeysTypeOK
<1>2. t \in -1..MaxTime
  BY DEF Times
<1> HIDE DEF Times, Chains, Answers
<1> QED BY <1>1, <1>2 DEF Held

\* A step that brings lastHeld up to date keeps the invariant, if it leaves the
\* caches alone and time does not run backwards.
LEMMA HeldKeeps ==
  ASSUME KeysIInv, KeysTypeOK', now' >= now, UNCHANGED cache,
         lastHeld' = Held(now', chains', fileKeys', agentKeys')
  PROVE  HeldNow' /\ AnswersHeld'
<1> USE KeysAssumption DEF KeysIInv
<1>1. now' \in Times /\ chains' \in Chains /\ now \in Int /\ now' \in Int
  BY DEF KeysTypeOK, Times
<1>2. \A g \in Chains, a \in Agents, k \in Answers :
        lastHeld'[g][a][k] =
          IF g <= chains' /\ Inner(fileKeys', agentKeys', g, a) = k THEN now'
          ELSE lastHeld[g][a][k]
  BY <1>1, HeldIs
<1>3. HeldNow'
  <2> SUFFICES ASSUME NEW g \in 1..chains', NEW a \in Agents
               PROVE  lastHeld'[g][a][Inner(fileKeys', agentKeys', g, a)] = now'
    BY DEF HeldNow
  <2>1. g \in Chains /\ g <= chains'
    BY <1>1 DEF Chains
  <2>2. Inner(fileKeys', agentKeys', g, a) \in Answers
    BY <2>1, InnerType DEF KeysTypeOK, FileType, TableType
  <2> QED BY <1>2, <2>1, <2>2
<1>4. AnswersHeld'
  <2> SUFFICES ASSUME NEW g \in Chains, NEW a \in Agents
               PROVE  /\ \A k \in Answers : lastHeld'[g][a][k] <= now'
                      /\ lastHeld'[g][a][cache[g][a].key] >= cache[g][a].expiry - TTL
    BY DEF AnswersHeld
  <2>1. \A k \in Answers : /\ lastHeld[g][a][k] \in Int
                           /\ lastHeld[g][a][k] <= now
    BY DEF AnswersHeld, KeysTypeOK
  <2>2. \A k \in Answers : lastHeld'[g][a][k] \in {now', lastHeld[g][a][k]}
    BY <1>2
  <2>3. cache[g][a].key \in Answers /\ cache[g][a].expiry \in Int /\ TTL \in Int
    BY DEF KeysTypeOK
  <2>4. lastHeld[g][a][cache[g][a].key] >= cache[g][a].expiry - TTL
    BY DEF AnswersHeld
  <2> QED BY <1>1, <2>1, <2>2, <2>3, <2>4
<1> QED BY <1>3, <1>4

-----------------------------------------------------------------------------
(* The steps *)

LEMMA KeysInitHolds == KeysInit => KeysIInv
<1> SUFFICES ASSUME KeysInit PROVE KeysIInv
  OBVIOUS
<1> USE KeysAssumption
<1>1. 0 \in Times /\ 1 \in Chains /\ NoKey \in Answers
  BY DEF Times, Chains, Answers
<1>2. now = 0 /\ chains = 1
  BY DEF KeysInit
<1>3. /\ lastHeld \in [Chains -> [Agents -> [Answers -> {0, -1}]]]
      /\ \A a \in Agents, k \in Answers :
           Inner(fileKeys, agentKeys, 1, a) = k => lastHeld[1][a][k] = 0
  BY <1>1 DEF KeysInit
<1>4. KeysTypeOK
  <2>1. now \in Times /\ chains \in Chains /\ keysFile \in [Agents -> Answers]
    BY <1>1 DEF KeysInit
  <2>2. agentKeys \in [Agents -> [key : Answers, active : BOOLEAN]]
    BY <1>1 DEF KeysInit
  <2>3. fileKeys \in [Chains -> [Agents -> Answers]]
    BY <1>1, <2>1 DEF KeysInit
  <2>4. cache \in [Chains -> [Agents -> [key : Answers, expiry : 0..MaxTime + TTL]]]
    BY <1>1 DEF KeysInit
  <2>5. {0, -1} \subseteq -1..MaxTime
    OBVIOUS
  <2>6. lastHeld \in [Chains -> [Agents -> [Answers -> -1..MaxTime]]]
    BY <1>3, <2>5
  <2> QED BY <2>1, <2>2, <2>3, <2>4, <2>6 DEF KeysTypeOK
<1>5. HeldNow
  <2> SUFFICES ASSUME NEW a \in Agents
               PROVE  lastHeld[1][a][Inner(fileKeys, agentKeys, 1, a)] = 0
    BY <1>2 DEF HeldNow
  <2>1. Inner(fileKeys, agentKeys, 1, a) \in Answers
    BY <1>1, <1>4, InnerType DEF KeysTypeOK, FileType, TableType
  <2> QED BY <1>3, <2>1
<1>6. AnswersHeld
  <2> SUFFICES ASSUME NEW g \in Chains, NEW a \in Agents
               PROVE  /\ \A k \in Answers : lastHeld[g][a][k] <= 0
                      /\ lastHeld[g][a][cache[g][a].key] >= cache[g][a].expiry - TTL
    BY <1>2 DEF AnswersHeld
  <2>1. \A k \in Answers : lastHeld[g][a][k] \in {0, -1}
    BY <1>3
  <2>2. cache[g][a].key = NoKey /\ cache[g][a].expiry = 0
    BY DEF KeysInit
  <2>3. TTL \in Nat \ {0}
    OBVIOUS
  <2> QED BY <1>1, <2>1, <2>2, <2>3
<1> QED BY <1>4, <1>5, <1>6 DEF KeysIInv

LEMMA PassKeeps == ASSUME KeysIInv, Pass PROVE KeysIInv'
<1> USE KeysAssumption DEF KeysIInv, Pass
<1>1. now \in Int /\ now + 1 \in Times /\ chains \in Chains
  BY DEF KeysTypeOK, Times
<1>2. KeysTypeOK'
  BY <1>1, HeldIs DEF KeysTypeOK
<1>3. HeldNow' /\ AnswersHeld'
  BY <1>1, <1>2, HeldKeeps
<1> QED BY <1>2, <1>3

LEMMA EditFileKeeps ==
  ASSUME KeysIInv, NEW a \in Agents, NEW k \in Answers, EditFile(a, k) PROVE KeysIInv'
BY DEF KeysIInv, EditFile, KeysTypeOK, HeldNow, AnswersHeld, Inner, TableKey

LEMMA TableKeeps ==
  ASSUME KeysIInv, NEW a \in Agents,
         RemoveKey(a) \/ \E k \in Keys : RegisterKey(a, k)
  PROVE  KeysIInv'
<1> USE KeysAssumption DEF KeysIInv
<1>1. /\ UNCHANGED <<now, keysFile, chains, fileKeys, cache>>
      /\ lastHeld' = Held(now, chains, fileKeys, agentKeys')
  BY DEF RemoveKey, RegisterKey
<1>0. agentKeys' \in TableType
  <2>1. CASE RemoveKey(a)
    BY <2>1 DEF RemoveKey, KeysTypeOK, TableType
  <2>2. ASSUME NEW k \in Keys, RegisterKey(a, k) PROVE agentKeys' \in TableType
    <3>1. [key |-> k, active |-> TRUE] \in [key : Answers, active : BOOLEAN]
      BY DEF Answers
    <3> QED BY <2>2, <3>1 DEF RegisterKey, KeysTypeOK, TableType
  <2> QED BY <2>1, <2>2
<1>2. now \in Times /\ now \in Int /\ chains \in Chains
  BY DEF KeysTypeOK, Times
<1>3. KeysTypeOK'
  BY <1>0, <1>1, <1>2, HeldIs DEF KeysTypeOK, TableType
<1>4. HeldNow' /\ AnswersHeld'
  BY <1>1, <1>2, <1>3, HeldKeeps
<1> QED BY <1>3, <1>4

LEMMA ReloadKeeps == ASSUME KeysIInv, ReloadKeys PROVE KeysIInv'
<1> USE KeysAssumption DEF KeysIInv, ReloadKeys
<1>1. now \in Times /\ now \in Int /\ chains + 1 \in Chains
  BY DEF KeysTypeOK, Times, Chains
<1>2. fileKeys' \in FileType
  BY <1>1 DEF KeysTypeOK, FileType
<1>3. KeysTypeOK'
  BY <1>1, <1>2, HeldIs DEF KeysTypeOK, FileType
<1>4. HeldNow' /\ AnswersHeld'
  BY <1>1, <1>3, HeldKeeps
<1> QED BY <1>3, <1>4

LEMMA LookUpKeeps ==
  ASSUME KeysIInv, NEW g \in Chains, NEW a \in Agents, LookUpKey(g, a) PROVE KeysIInv'
<1> USE KeysAssumption DEF KeysIInv
<1> DEFINE k == Inner(fileKeys, agentKeys, g, a)
<1>1. UNCHANGED <<now, keysFile, agentKeys, chains, fileKeys, lastHeld>> /\ g \in 1..chains
  BY DEF LookUpKey, KeysTypeOK, Chains
<1>2. k \in Answers /\ lastHeld[g][a][k] = now
  BY <1>1, InnerType DEF KeysTypeOK, FileType, TableType, HeldNow
<1>3. now \in Int /\ TTL \in Int /\ now + TTL \in 0..MaxTime + TTL
  BY DEF KeysTypeOK, Times
<1>4. \/ cache' = cache
      \/ cache' = [cache EXCEPT ![g][a] = [key |-> k, expiry |-> now + TTL]]
  BY DEF LookUpKey, CacheAfter
<1> HIDE DEF k
<1>5. KeysTypeOK'
  <2>1. [key |-> k, expiry |-> now + TTL] \in [key : Answers, expiry : 0..MaxTime + TTL]
    BY <1>2, <1>3
  <2>2. cache' \in [Chains -> [Agents -> [key : Answers, expiry : 0..MaxTime + TTL]]]
    <3> DEFINE Entry == [key : Answers, expiry : 0..MaxTime + TTL]
               entry == [key |-> k, expiry |-> now + TTL]
    <3>1. cache \in [Chains -> [Agents -> Entry]] /\ entry \in Entry
      BY <2>1 DEF KeysTypeOK
    <3>2. cache' \in {cache, [cache EXCEPT ![g][a] = entry]}
      BY <1>4
    <3> HIDE DEF Entry, entry
    <3>3. cache' \in [Chains -> [Agents -> Entry]]
      BY <3>1, <3>2
    <3> QED BY <3>3 DEF Entry
  <2> QED BY <1>1, <2>2 DEF KeysTypeOK
<1>6. HeldNow'
  BY <1>1 DEF HeldNow, Inner, TableKey
<1>7. AnswersHeld'
  <2> SUFFICES ASSUME NEW h \in Chains, NEW b \in Agents
               PROVE  lastHeld[h][b][cache'[h][b].key] >= cache'[h][b].expiry - TTL
    BY <1>1 DEF AnswersHeld
  <2>1. \/ cache'[h][b] = cache[h][b]
        \/ g = h /\ a = b /\ cache'[h][b] = [key |-> k, expiry |-> now + TTL]
    <3> DEFINE entry == [key |-> k, expiry |-> now + TTL]
               Entry == [key : Answers, expiry : 0..MaxTime + TTL]
    <3>1. cache \in [Chains -> [Agents -> Entry]]
      BY DEF KeysTypeOK
    <3>2. cache' \in {cache, [cache EXCEPT ![g][a] = entry]}
      BY <1>4
    <3> HIDE DEF entry, Entry
    <3>3. \/ cache'[h][b] = cache[h][b]
          \/ g = h /\ a = b /\ cache'[h][b] = entry
      BY <3>1, <3>2
    <3> QED BY <3>3 DEF entry
  <2> QED BY <1>2, <1>3, <2>1 DEF AnswersHeld
<1> QED BY <1>5, <1>6, <1>7

LEMMA KeysNextKeeps == KeysIInv /\ [KeysNext]_kvars => KeysIInv'
<1> SUFFICES ASSUME KeysIInv, [KeysNext]_kvars PROVE KeysIInv'
  OBVIOUS
<1>1. CASE UNCHANGED kvars
  BY <1>1 DEF kvars, KeysIInv, KeysTypeOK, HeldNow, AnswersHeld, Inner, TableKey
<1>2. CASE KeysNext
  BY <1>2, PassKeeps, EditFileKeeps, TableKeeps, ReloadKeeps, LookUpKeeps DEF KeysNext
<1> QED BY <1>1, <1>2

\* An answer that has not expired was held less than TTL ago.
LEMMA FreshFromInv == KeysIInv => CacheIsFresh
<1> SUFFICES ASSUME KeysIInv, NEW g \in Chains, NEW a \in Agents, now < cache[g][a].expiry
             PROVE  lastHeld[g][a][cache[g][a].key] > now - TTL
  BY DEF CacheIsFresh
<1>1. /\ now \in Int /\ cache[g][a].expiry \in Int /\ TTL \in Int
      /\ lastHeld[g][a][cache[g][a].key] \in Int
  BY KeysAssumption DEF KeysIInv, KeysTypeOK, Times
<1>2. lastHeld[g][a][cache[g][a].key] >= cache[g][a].expiry - TTL
  BY DEF KeysIInv, AnswersHeld
<1> QED BY <1>1, <1>2

\* Every reachable state satisfies the inductive invariant.
THEOREM KeysCorrect == KeysSpec => []KeysIInv
BY KeysInitHolds, KeysNextKeeps, PTL DEF KeysSpec

\* A removed key, and a failure to find one, outlives the table and the file by
\* less than TTL in every chain's cache.
THEOREM CacheIsFreshCorrect == KeysSpec => []CacheIsFresh
BY KeysCorrect, FreshFromInv, PTL

-----------------------------------------------------------------------------
(* Tokens *)

\* The rows of a window that no other request was recorded before, once theirs
\* had been counted.
Exact(t, w) == {x \in InWindow(t, w) : late[x.req] = {}}

\* A quota that is respected by a number of rows.
Respects(n, quota) == quota = 0 \/ n <= quota

\* Rows are of requests that have been admitted, for tokens that exist.
UsageIsAdmitted ==
  /\ IsFiniteSet(usage)
  /\ \A x \in usage : upc[x.req] = "admitted" /\ tokens[x.token].created

\* A request goes by the quotas of its token, for they never change.
PlanIsCurrent ==
  \A u \in Users :
    upc[u] \in {"hourly", "monthly", "record"} =>
      /\ plan[u] \in Rows
      /\ tokens[carries[u]] \in Rows
      /\ plan[u].hourly = tokens[carries[u]].hourly
      /\ plan[u].monthly = tokens[carries[u]].monthly

\* Until another request is recorded, what a request has counted is an upper
\* bound: time can only take rows out of the window.
CountIsBound ==
  \A u \in Users :
    late[u] = {} =>
      /\ upc[u] \in {"monthly", "record"} => Within_Quota(carries[u], plan[u].hourly, Hour)
      /\ upc[u] = "record" => Within_Quota(carries[u], plan[u].monthly, Month)

\* Without overlap the quotas are exact.
QuotaKept ==
  \A t \in TokenIds :
    tokens[t].created =>
      /\ Respects(Cardinality(Exact(t, Hour)), tokens[t].hourly)
      /\ Respects(Cardinality(Exact(t, Month)), tokens[t].monthly)

TokensIInv ==
  /\ TokensTypeOK /\ UsageIsAdmitted /\ PlanIsCurrent /\ CountIsBound /\ QuotaKept

-----------------------------------------------------------------------------
(* Counting *)

\* A token that exists has a row with quotas.
LEMMA CreatedRow ==
  ASSUME TokensTypeOK, NEW t \in TokenIds, tokens[t].created
  PROVE  tokens[t] \in Rows /\ tokens[t].hourly \in Nat /\ tokens[t].monthly \in Nat
<1>1. tokens[t] \in Rows
  BY DEF TokensTypeOK, NoToken
<1> QED BY <1>1 DEF Rows

\* The sets that are counted are finite.
LEMMA WindowIsFinite ==
  ASSUME IsFiniteSet(usage), NEW t, NEW w
  PROVE  /\ IsFiniteSet(InWindow(t, w)) /\ CountUsage(t, w) \in Nat
         /\ IsFiniteSet(Exact(t, w)) /\ Cardinality(Exact(t, w)) \in Nat
         /\ Cardinality(Exact(t, w)) <= CountUsage(t, w)
<1>1. InWindow(t, w) \in SUBSET usage /\ Exact(t, w) \in SUBSET InWindow(t, w)
  BY DEF InWindow, Exact
<1>2. IsFiniteSet(InWindow(t, w))
  BY <1>1, FS_Subset
<1>3. IsFiniteSet(Exact(t, w)) /\ Cardinality(Exact(t, w)) <= Cardinality(InWindow(t, w))
  BY <1>1, <1>2, FS_Subset
<1> QED BY <1>2, <1>3, FS_CardinalityType DEF CountUsage

\* A smaller set respects the quota as well.
LEMMA FewerRespect ==
  ASSUME NEW S, IsFiniteSet(S), NEW T \in SUBSET S, NEW quota \in Nat,
         Respects(Cardinality(S), quota)
  PROVE  Respects(Cardinality(T), quota)
<1>1. IsFiniteSet(T) /\ Cardinality(T) <= Cardinality(S)
  BY FS_Subset
<1>2. Cardinality(S) \in Nat /\ Cardinality(T) \in Nat
  BY <1>1, FS_CardinalityType
<1> QED BY <1>1, <1>2 DEF Respects

LEMMA FewerWithin ==
  ASSUME IsFiniteSet(usage), NEW t, NEW w, NEW quota \in Nat, Within_Quota(t, quota, w),
         InWindow(t, w)' \subseteq InWindow(t, w)
  PROVE  Within_Quota(t, quota, w)'
<1>1. IsFiniteSet(InWindow(t, w))
  BY WindowIsFinite
<1>2. /\ IsFiniteSet(InWindow(t, w)')
      /\ Cardinality(InWindow(t, w)') <= Cardinality(InWindow(t, w))
  BY <1>1, FS_Subset
<1>3. Cardinality(InWindow(t, w)) \in Nat /\ Cardinality(InWindow(t, w)') \in Nat
  BY <1>1, <1>2, FS_CardinalityType
<1> QED BY <1>2, <1>3 DEF Within_Quota, CountUsage

-----------------------------------------------------------------------------
(* Steps that record nothing *)

\* Such a step keeps the quotas, if rows only leave windows, requests stay
\* admitted with what they are late to, and tokens keep their quotas.
LEMMA QuietKeeps ==
  ASSUME TokensIInv, UNCHANGED usage, clock' >= clock, clock' \in Nat,
         \A x \in usage : late'[x.req] = late[x.req],
         tokens' \in [TokenIds -> Rows \cup {NoToken}],
         \A t \in TokenIds : tokens'[t].created /\ tokens[t].created =>
            tokens'[t].hourly = tokens[t].hourly /\ tokens'[t].monthly = tokens[t].monthly
  PROVE  /\ QuotaKept'
         /\ \A t, w : w \in Nat => InWindow(t, w)' \subseteq InWindow(t, w)
<1> USE TokensAssumption
<1>1. clock \in Nat /\ clock' \in Nat /\ \A x \in usage : x.at \in Nat
  BY DEF TokensIInv, TokensTypeOK
<1>2. \A t, w : w \in Nat => InWindow(t, w)' \subseteq InWindow(t, w)
  BY <1>1 DEF InWindow
<1>3. \A t, w : w \in Nat => Exact(t, w)' \subseteq Exact(t, w)
  BY <1>2 DEF Exact, InWindow
<1>4. IsFiniteSet(usage)
  BY DEF TokensIInv, UsageIsAdmitted
<1>5. \A t \in TokenIds : tokens'[t].created => tokens'[t] \in Rows
  BY DEF NoToken
<1>6. ASSUME NEW t \in TokenIds, tokens'[t].created
      PROVE  /\ Respects(Cardinality(Exact(t, Hour)'), tokens'[t].hourly)
             /\ Respects(Cardinality(Exact(t, Month)'), tokens'[t].monthly)
  <2>1. tokens'[t].hourly \in Nat /\ tokens'[t].monthly \in Nat /\ Hour \in Nat /\ Month \in Nat
    BY <1>5, <1>6 DEF Rows
  <2>2. CASE tokens[t].created
    <3>1. /\ Respects(Cardinality(Exact(t, Hour)), tokens'[t].hourly)
          /\ Respects(Cardinality(Exact(t, Month)), tokens'[t].monthly)
      BY <1>6, <2>2 DEF TokensIInv, QuotaKept
    <3>2. IsFiniteSet(Exact(t, Hour)) /\ IsFiniteSet(Exact(t, Month))
      BY <1>4, WindowIsFinite
    <3>3. Exact(t, Hour)' \in SUBSET Exact(t, Hour) /\ Exact(t, Month)' \in SUBSET Exact(t, Month)
      BY <1>3, <2>1
    <3> QED BY <2>1, <3>1, <3>2, <3>3, FewerRespect
  <2>3. CASE ~tokens[t].created
    <3>1. \A x \in usage : x.token # t
      BY <2>3 DEF TokensIInv, UsageIsAdmitted
    <3>2. Exact(t, Hour)' = {} /\ Exact(t, Month)' = {}
      BY <3>1 DEF Exact, InWindow
    <3> QED BY <2>1, <3>2, FS_EmptySet DEF Respects
  <2> QED BY <2>2, <2>3
<1>7. QuotaKept'
  BY <1>6 DEF QuotaKept
<1> QED BY <1>2, <1>7

\* A bound that was counted outlives such a step.
LEMMA BoundStays ==
  ASSUME TokensIInv, \A t, w : w \in Nat => InWindow(t, w)' \subseteq InWindow(t, w),
         UNCHANGED carries, NEW u \in Users, late'[u] = late[u],
         upc'[u] = upc[u], plan'[u] = plan[u], upc[u] \in {"monthly", "record"}, late[u] = {}
  PROVE  /\ Within_Quota(carries[u], plan[u].hourly, Hour)'
         /\ upc'[u] = "record" => Within_Quota(carries[u], plan[u].monthly, Month)'
<1> USE TokensAssumption DEF TokensIInv
<1>1. plan[u].hourly \in Nat /\ plan[u].monthly \in Nat
  BY DEF PlanIsCurrent, Rows
<1>2. IsFiniteSet(usage) /\ Hour \in Nat /\ Month \in Nat
  BY DEF UsageIsAdmitted
<1>3. Within_Quota(carries[u], plan[u].hourly, Hour)
  BY DEF CountIsBound
<1>4. PICK t, hourly, monthly :
        t = carries[u] /\ hourly = plan[u].hourly /\ monthly = plan[u].monthly
  OBVIOUS
<1>5. Within_Quota(t, hourly, Hour)'
  BY <1>1, <1>2, <1>3, <1>4, FewerWithin
<1>6. ASSUME upc[u] = "record" PROVE Within_Quota(t, monthly, Month)'
  <2>1. Within_Quota(t, monthly, Month)
    BY <1>4, <1>6 DEF CountIsBound
  <2> QED BY <1>1, <1>2, <1>4, <2>1, FewerWithin
<1>7. carries'[u] = t /\ plan'[u].hourly = hourly /\ plan'[u].monthly = monthly
  BY <1>4
<1> QED BY <1>5, <1>6, <1>7

\* A step that moves one request, or none, and records nothing.
LEMMA ElapseKeeps == ASSUME TokensIInv, Elapse PROVE TokensIInv'
<1> USE TokensAssumption DEF Elapse
<1>1. TokensTypeOK'
  BY DEF TokensIInv, TokensTypeOK
<1>2. /\ clock' >= clock /\ clock' \in Nat
      /\ tokens' \in [TokenIds -> Rows \cup {NoToken}]
  BY DEF TokensIInv, TokensTypeOK
<1>3. /\ QuotaKept'
      /\ \A t, w : w \in Nat => InWindow(t, w)' \subseteq InWindow(t, w)
  BY <1>2, QuietKeeps
<1>4. UsageIsAdmitted' /\ PlanIsCurrent'
  BY DEF TokensIInv, UsageIsAdmitted, PlanIsCurrent
<1>5. CountIsBound'
  BY <1>3, BoundStays DEF CountIsBound
<1> QED BY <1>1, <1>3, <1>4, <1>5 DEF TokensIInv

LEMMA RowsChangeKeeps ==
  ASSUME TokensIInv, NEW t \in TokenIds,
         RevokeToken(t) \/ \E p \in Plans : CreateToken(t, p)
  PROVE  TokensIInv'
<1> USE TokensAssumption DEF TokensIInv
<1>1. UNCHANGED <<clock, usage, upc, carries, plan, late>>
  BY DEF RevokeToken, CreateToken
<1>2. /\ tokens' \in [TokenIds -> Rows \cup {NoToken}]
      /\ \A s \in TokenIds : tokens[s].created =>
           /\ tokens'[s] \in Rows
           /\ tokens'[s].hourly = tokens[s].hourly /\ tokens'[s].monthly = tokens[s].monthly
  <2>1. tokens \in [TokenIds -> Rows \cup {NoToken}] /\ clock \in Nat
    BY DEF TokensTypeOK
  <2>2. \A s \in TokenIds : tokens[s].created => tokens[s] \in Rows
    BY <2>1 DEF NoToken
  <2>3. CASE RevokeToken(t)
    <3> DEFINE row == [tokens[t] EXCEPT !.active = FALSE]
    <3>1. tokens[t] \in Rows
      BY <2>2, <2>3 DEF RevokeToken
    <3>2. /\ row \in Rows
          /\ row.hourly = tokens[t].hourly /\ row.monthly = tokens[t].monthly
      BY <3>1 DEF Rows
    <3>3. tokens' = [tokens EXCEPT ![t] = row]
      BY <2>3 DEF RevokeToken
    <3> HIDE DEF row
    <3> QED BY <2>1, <2>2, <3>2, <3>3
  <2>4. ASSUME NEW p \in Plans, CreateToken(t, p)
        PROVE  \E row \in Rows : tokens' = [tokens EXCEPT ![t] = row] /\ ~tokens[t].created
    <3>1. /\ p.hourly \in Nat /\ p.monthly \in Nat /\ p.lifetime \in Nat
          /\ p.restricted \in BOOLEAN
      OBVIOUS
    <3>2. (IF p.lifetime = 0 THEN 0 ELSE clock + p.lifetime) \in Nat
      BY <2>1, <3>1
    <3> QED BY <2>4, <3>1, <3>2 DEF CreateToken, Rows
  <2> QED BY <2>1, <2>2, <2>3, <2>4
<1>3. TokensTypeOK'
  BY <1>1, <1>2 DEF TokensTypeOK
<1>4. clock \in Nat
  BY DEF TokensTypeOK
<1>5. /\ QuotaKept'
      /\ \A s, w : w \in Nat => InWindow(s, w)' \subseteq InWindow(s, w)
  BY <1>1, <1>2, <1>4, QuietKeeps
<1>6. UsageIsAdmitted'
  <2>1. \A x \in usage : x.token \in TokenIds
    BY DEF TokensTypeOK
  <2>2. \A s \in TokenIds : tokens'[s] \in Rows => tokens'[s].created
    BY DEF Rows
  <2> QED BY <1>1, <1>2, <2>1, <2>2 DEF UsageIsAdmitted
<1>7. PlanIsCurrent'
  <2>1. \A u \in Users : carries[u] \in TokenIds
    BY DEF TokensTypeOK
  <2>2. \A s \in TokenIds : tokens[s] \in Rows => tokens[s].created
    BY DEF Rows
  <2> QED BY <1>1, <1>2, <2>1, <2>2 DEF PlanIsCurrent
<1>8. CountIsBound'
  BY <1>1, <1>5, BoundStays DEF CountIsBound
<1> QED BY <1>3, <1>5, <1>6, <1>7, <1>8

\* The steps of a request that record nothing: what they leave alone, and what is
\* then left to show of the request that moves.
LEMMA MoveKeeps ==
  ASSUME TokensIInv, NEW u \in Users, NEW to,
         to \in {"lookup", "hourly", "monthly", "record", "admitted", "refused"},
         UNCHANGED <<clock, tokens, usage, carries>>,
         upc' = [upc EXCEPT ![u] = to], upc[u] # "admitted",
         plan' \in [Users -> Rows \cup {NoToken}], late' \in [Users -> SUBSET Users],
         \A v \in Users \ {u} : plan'[v] = plan[v] /\ late'[v] = late[v],
         to \in {"hourly", "monthly", "record"} =>
            /\ plan'[u] \in Rows /\ tokens[carries[u]] \in Rows
            /\ plan'[u].hourly = tokens[carries[u]].hourly
            /\ plan'[u].monthly = tokens[carries[u]].monthly,
         late'[u] = {} =>
            /\ to \in {"monthly", "record"} => Within_Quota(carries[u], plan[u].hourly, Hour)'
            /\ to = "record" => Within_Quota(carries[u], plan[u].monthly, Month)'
  PROVE  TokensIInv'
<1> USE TokensAssumption DEF TokensIInv
<1>1. TokensTypeOK'
  BY DEF TokensTypeOK
<1>2. /\ \A v \in Users : upc'[v] = IF v = u THEN to ELSE upc[v]
      /\ \A x \in usage : x.req \in Users /\ x.req # u
  BY DEF TokensTypeOK, UsageIsAdmitted
<1>3. clock \in Nat /\ tokens' \in [TokenIds -> Rows \cup {NoToken}]
  BY DEF TokensTypeOK
<1>4. /\ QuotaKept'
      /\ \A s, w : w \in Nat => InWindow(s, w)' \subseteq InWindow(s, w)
  BY <1>2, <1>3, QuietKeeps
<1>5. UsageIsAdmitted' /\ PlanIsCurrent'
  BY <1>2 DEF UsageIsAdmitted, PlanIsCurrent
<1>6. CountIsBound'
  <2>1. ASSUME NEW v \in Users, v # u, late'[v] = {}
        PROVE  /\ upc'[v] \in {"monthly", "record"} => Within_Quota(carries[v], plan[v].hourly, Hour)'
               /\ upc'[v] = "record" => Within_Quota(carries[v], plan[v].monthly, Month)'
    BY <1>2, <1>4, <2>1, BoundStays
  <2>2. upc'[u] = to
    BY <1>2
  <2> QED BY <2>1, <2>2 DEF CountIsBound
<1> QED BY <1>1, <1>4, <1>5, <1>6

LEMMA LookUpTokenKeeps ==
  ASSUME TokensIInv, NEW u \in Users, NEW listed \in BOOLEAN, LookUpToken(u, listed)
  PROVE  TokensIInv'
<1> USE DEF TokensIInv
<1> DEFINE usable == IsUsable(tokens[carries[u]], listed)
           to == IF usable THEN "hourly" ELSE "refused"
<1>1. /\ carries[u] \in TokenIds /\ tokens \in [TokenIds -> Rows \cup {NoToken}]
      /\ plan \in [Users -> Rows \cup {NoToken}] /\ late \in [Users -> SUBSET Users]
  BY DEF TokensTypeOK
<1>2. /\ upc[u] = "lookup" /\ upc' = [upc EXCEPT ![u] = to]
      /\ plan' = [plan EXCEPT ![u] = tokens[carries[u]]]
      /\ UNCHANGED <<clock, tokens, usage, carries, late>>
  BY DEF LookUpToken, Moves
<1>3. /\ plan' \in [Users -> Rows \cup {NoToken}]
      /\ plan'[u] = tokens[carries[u]]
      /\ \A v \in Users \ {u} : plan'[v] = plan[v]
  BY <1>1, <1>2
<1>4. usable => tokens[carries[u]] \in Rows
  BY <1>1 DEF IsUsable, NoToken
<1>5. CASE usable
  BY <1>1, <1>2, <1>3, <1>4, <1>5, MoveKeeps
<1>6. CASE ~usable
  BY <1>1, <1>2, <1>3, <1>6, MoveKeeps
<1> QED BY <1>5, <1>6

LEMMA CheckHourlyKeeps ==
  ASSUME TokensIInv, NEW u \in Users, CheckHourly(u) PROVE TokensIInv'
<1> USE DEF TokensIInv
<1> DEFINE within == Within_Quota(carries[u], plan[u].hourly, Hour)
           to == IF within THEN "monthly" ELSE "refused"
<1>1. plan \in [Users -> Rows \cup {NoToken}] /\ late \in [Users -> SUBSET Users]
  BY DEF TokensTypeOK
<1>2. /\ upc[u] = "hourly" /\ upc' = [upc EXCEPT ![u] = to]
      /\ late' = [late EXCEPT ![u] = {}]
      /\ UNCHANGED <<clock, tokens, usage, carries, plan>>
  BY DEF CheckHourly, Moves
<1>3. /\ late' \in [Users -> SUBSET Users]
      /\ \A v \in Users \ {u} : late'[v] = late[v]
  BY <1>1, <1>2
<1>4. /\ plan[u] \in Rows /\ tokens[carries[u]] \in Rows
      /\ plan[u].hourly = tokens[carries[u]].hourly
      /\ plan[u].monthly = tokens[carries[u]].monthly
  BY <1>2 DEF PlanIsCurrent
<1>5. within => Within_Quota(carries[u], plan[u].hourly, Hour)'
  BY <1>2 DEF Within_Quota, CountUsage, InWindow
<1>6. CASE within
  BY <1>1, <1>2, <1>3, <1>4, <1>5, <1>6, MoveKeeps
<1>7. CASE ~within
  BY <1>1, <1>2, <1>3, <1>7, MoveKeeps
<1> QED BY <1>6, <1>7

LEMMA CheckMonthlyKeeps ==
  ASSUME TokensIInv, NEW u \in Users, CheckMonthly(u) PROVE TokensIInv'
<1> USE DEF TokensIInv
<1> DEFINE within == Within_Quota(carries[u], plan[u].monthly, Month)
           to == IF within THEN "record" ELSE "refused"
<1>1. plan \in [Users -> Rows \cup {NoToken}] /\ late \in [Users -> SUBSET Users]
  BY DEF TokensTypeOK
<1>2. /\ upc[u] = "monthly" /\ upc' = [upc EXCEPT ![u] = to]
      /\ UNCHANGED <<clock, tokens, usage, carries, plan, late>>
  BY DEF CheckMonthly, Moves
<1>3. /\ plan[u] \in Rows /\ tokens[carries[u]] \in Rows
      /\ plan[u].hourly = tokens[carries[u]].hourly
      /\ plan[u].monthly = tokens[carries[u]].monthly
  BY <1>2 DEF PlanIsCurrent
<1>4. late[u] = {} => Within_Quota(carries[u], plan[u].hourly, Hour)
  BY <1>2 DEF CountIsBound
<1>5. /\ late'[u] = {} => Within_Quota(carries[u], plan[u].hourly, Hour)'
      /\ within => Within_Quota(carries[u], plan[u].monthly, Month)'
  BY <1>2, <1>4 DEF Within_Quota, CountUsage, InWindow
<1>6. CASE within
  BY <1>1, <1>2, <1>3, <1>5, <1>6, MoveKeeps
<1>7. CASE ~within
  BY <1>1, <1>2, <1>7, MoveKeeps
<1> QED BY <1>6, <1>7

\* A request reaches the middleware, fails, or goes on without a record.
LEMMA OtherMovesKeep ==
  ASSUME TokensIInv, NEW u \in Users, UseToken(u) \/ TokenError(u) \/ RecordFails(u)
  PROVE  TokensIInv'
<1> USE DEF TokensIInv
<1>1. plan \in [Users -> Rows \cup {NoToken}] /\ late \in [Users -> SUBSET Users]
  BY DEF TokensTypeOK
<1>2. PICK to \in {"lookup", "admitted", "refused"} :
        upc' = [upc EXCEPT ![u] = to] /\ upc[u] # "admitted"
  BY DEF UseToken, TokenError, RecordFails, Moves
<1>3. UNCHANGED <<clock, tokens, usage, carries, plan, late>>
  BY DEF UseToken, TokenError, RecordFails, Moves
<1> QED BY <1>1, <1>2, <1>3, MoveKeeps

-----------------------------------------------------------------------------
(* The step that records *)

LEMMA RecordUsageKeeps ==
  ASSUME TokensIInv, NEW u \in Users, RecordUsage(u) PROVE TokensIInv'
<1> USE TokensAssumption DEF TokensIInv
<1> DEFINE x == [req |-> u, token |-> carries[u], at |-> clock]
<1>1. /\ upc[u] = "record" /\ upc' = [upc EXCEPT ![u] = "admitted"]
      /\ usage' = usage \cup {x}
      /\ UNCHANGED <<clock, tokens, carries, plan>>
  BY DEF RecordUsage, Moves
<1>2. /\ late' \in [Users -> SUBSET Users]
      /\ \A v \in Users :
           late'[v] = IF v # u /\ carries[v] = carries[u] /\ upc[v] \in {"monthly", "record"}
                      THEN late[v] \cup {u} ELSE late[v]
  BY DEF RecordUsage, TokensTypeOK
<1>3. /\ x \in [req : Users, token : TokenIds, at : 0..LastTime]
      /\ \A v \in Users : upc'[v] = IF v = u THEN "admitted" ELSE upc[v]
      /\ \A v \in Users : carries[v] \in TokenIds
  BY <1>1 DEF TokensTypeOK
<1>4. TokensTypeOK'
  BY <1>1, <1>2, <1>3 DEF TokensTypeOK
<1>5. /\ plan[u] \in Rows /\ tokens[carries[u]] \in Rows
      /\ plan[u].hourly = tokens[carries[u]].hourly
      /\ plan[u].monthly = tokens[carries[u]].monthly
  BY <1>1 DEF PlanIsCurrent
<1>6. x.req = u /\ x.token = carries[u] /\ tokens[x.token].created
  BY <1>5 DEF Rows
<1>7. UsageIsAdmitted'
  <2>1. IsFiniteSet(usage')
    BY <1>1, FS_AddElement DEF UsageIsAdmitted
  <2>2. \A y \in usage : y.req \in Users
    BY DEF TokensTypeOK
  <2> QED BY <1>1, <1>3, <1>6, <2>1, <2>2 DEF UsageIsAdmitted
<1>8. PlanIsCurrent'
  BY <1>1, <1>3 DEF PlanIsCurrent
<1> HIDE DEF x
<1>9. CountIsBound'
  <2> SUFFICES ASSUME NEW v \in Users, late'[v] = {}, upc'[v] \in {"monthly", "record"}
               PROVE  /\ Within_Quota(carries[v], plan[v].hourly, Hour)'
                      /\ upc'[v] = "record" => Within_Quota(carries[v], plan[v].monthly, Month)'
    BY DEF CountIsBound
  <2>1. v # u /\ upc'[v] = upc[v] /\ late[v] = {} /\ carries[v] # carries[u]
    BY <1>2, <1>3
  <2>2. \A w : InWindow(carries[v], w)' = InWindow(carries[v], w)
    BY <1>1, <1>6, <2>1 DEF InWindow
  <2>3. /\ Within_Quota(carries[v], plan[v].hourly, Hour)
        /\ upc[v] = "record" => Within_Quota(carries[v], plan[v].monthly, Month)
    BY <2>1 DEF CountIsBound
  <2> QED BY <1>1, <2>1, <2>2, <2>3 DEF Within_Quota, CountUsage
<1>10. \A y \in usage : y.req \in Users /\ y.req # u /\ late'[y.req] = late[y.req]
  BY <1>1, <1>2 DEF UsageIsAdmitted, TokensTypeOK
<1>11. QuotaKept'
  <2> SUFFICES ASSUME NEW t \in TokenIds, tokens[t].created, NEW w \in {Hour, Month},
                      NEW quota \in Nat, Respects(Cardinality(Exact(t, w)), quota),
                      t = carries[u] /\ late[u] = {} => Within_Quota(t, quota, w)
               PROVE  Respects(Cardinality(Exact(t, w)'), quota)
    <3>1. \A t \in TokenIds : tokens[t].created => tokens[t].hourly \in Nat /\ tokens[t].monthly \in Nat
      BY CreatedRow
    <3>2. late[u] = {} => /\ Within_Quota(carries[u], tokens[carries[u]].hourly, Hour)
                          /\ Within_Quota(carries[u], tokens[carries[u]].monthly, Month)
      BY <1>1, <1>5 DEF CountIsBound
    <3> QED BY <1>1, <3>1, <3>2 DEF QuotaKept
  <2>1. CASE t # carries[u] \/ late[u] # {}
    <3>1. Exact(t, w)' = Exact(t, w)
      BY <1>1, <1>2, <1>6, <1>10, <2>1 DEF Exact, InWindow
    <3> QED BY <3>1
  <2>2. CASE t = carries[u] /\ late[u] = {}
    <3>1. Exact(t, w)' \subseteq InWindow(t, w) \cup {x}
      BY <1>1 DEF Exact, InWindow
    <3>2. IsFiniteSet(InWindow(t, w)) /\ CountUsage(t, w) \in Nat
      BY WindowIsFinite DEF UsageIsAdmitted
    <3>0. /\ IsFiniteSet(InWindow(t, w) \cup {x})
          /\ Cardinality(InWindow(t, w) \cup {x}) \in {CountUsage(t, w), CountUsage(t, w) + 1}
      BY <3>2, FS_AddElement DEF CountUsage
    <3>3. /\ IsFiniteSet(InWindow(t, w) \cup {x})
          /\ Cardinality(InWindow(t, w) \cup {x}) <= CountUsage(t, w) + 1
          /\ Cardinality(InWindow(t, w) \cup {x}) \in Nat
      BY <3>0, <3>2
    <3>4. Respects(Cardinality(InWindow(t, w) \cup {x}), quota)
      BY <2>2, <3>2, <3>3 DEF Within_Quota, Respects
    <3> QED BY <3>1, <3>3, <3>4, FewerRespect
  <2> QED BY <2>1, <2>2
<1> QED BY <1>4, <1>7, <1>8, <1>9, <1>11

-----------------------------------------------------------------------------
(* The theorems *)

LEMMA TokensInitHolds == TokensInit => TokensIInv
<1> SUFFICES ASSUME TokensInit PROVE TokensIInv
  OBVIOUS
<1> USE TokensAssumption DEF TokensInit
<1>1. TokensTypeOK
  BY DEF TokensTypeOK
<1>2. UsageIsAdmitted
  BY FS_EmptySet DEF UsageIsAdmitted
<1>3. PlanIsCurrent /\ CountIsBound
  BY DEF PlanIsCurrent, CountIsBound
<1>4. QuotaKept
  BY DEF QuotaKept, NoToken
<1> QED BY <1>1, <1>2, <1>3, <1>4 DEF TokensIInv

LEMMA TokensNextKeeps == TokensIInv /\ [TokensNext]_uvars => TokensIInv'
<1> SUFFICES ASSUME TokensIInv, [TokensNext]_uvars PROVE TokensIInv'
  OBVIOUS
<1>1. CASE UNCHANGED uvars
  BY <1>1 DEF uvars, TokensIInv, TokensTypeOK, UsageIsAdmitted, PlanIsCurrent, CountIsBound,
              QuotaKept, Exact, Within_Quota, CountUsage, InWindow
<1>2. CASE TokensNext
  BY <1>2, ElapseKeeps, RowsChangeKeeps, LookUpTokenKeeps, CheckHourlyKeeps, CheckMonthlyKeeps,
     OtherMovesKeep, RecordUsageKeeps DEF TokensNext, TokenStep
<1> QED BY <1>1, <1>2

\* Every reachable state satisfies the inductive invariant.
THEOREM TokensCorrect == TokensSpec => []TokensIInv
BY TokensInitHolds, TokensNextKeeps, PTL DEF TokensSpec

\* In every window a quota is overrun by no more rows than those of requests that
\* another one of the same token overlapped.
LEMMA OverrunFromInv == TokensIInv => OverrunIsOverlap
<1> SUFFICES ASSUME TokensIInv, NEW t \in TokenIds, tokens[t].created
             PROVE  ~Overrun(t, tokens[t].hourly, Hour) /\ ~Overrun(t, tokens[t].monthly, Month)
  BY DEF OverrunIsOverlap
<1> USE DEF TokensIInv
<1>1. ASSUME NEW quota \in Nat, NEW w, Respects(Cardinality(Exact(t, w)), quota)
      PROVE  ~Overrun(t, quota, w)
  <2>1. IsFiniteSet(Exact(t, w)) /\ Cardinality(Exact(t, w)) \in Nat
        /\ IsFiniteSet(InWindow(t, w))
    BY WindowIsFinite DEF UsageIsAdmitted
  <2>2. /\ Overlapped(t, w) \in SUBSET InWindow(t, w)
        /\ InWindow(t, w) = Exact(t, w) \cup Overlapped(t, w)
        /\ Exact(t, w) \cap Overlapped(t, w) = {}
    BY DEF Overlapped, Exact
  <2>3. IsFiniteSet(Overlapped(t, w)) /\ Cardinality(Overlapped(t, w)) \in Nat
    BY <2>1, <2>2, FS_Subset, FS_CardinalityType
  <2>4. CountUsage(t, w) = Cardinality(Exact(t, w)) + Cardinality(Overlapped(t, w))
    BY SMTT(30), <2>1, <2>2, <2>3, FS_Union, FS_EmptySet DEF CountUsage
  <2> QED BY <1>1, <2>1, <2>3, <2>4 DEF Overrun, Respects
<1>2. tokens[t].hourly \in Nat /\ tokens[t].monthly \in Nat
  BY CreatedRow
<1> QED BY <1>1, <1>2 DEF QuotaKept

THEOREM OverrunIsOverlapCorrect == TokensSpec => []OverrunIsOverlap
BY TokensCorrect, OverrunFromInv, PTL

-----------------------------------------------------------------------------
(* Admission *)

\* A signature that verified was made with a key that its agent had less than
\* TTL before.
Signed(u) ==
  status[u] = "verified" =>
    \/ credential[u].kind = "did" /\ credential[u].good
    \/ credential[u].kind = "agent" /\ heldAt[u] < TTL

\* Who is past the signature check has passed it, in the mode of the chain read,
\* or the chain has none.
Checked ==
  \A u \in Users :
    apc[u] \in {"token", "in"} =>
      LET g == via[u] IN
      \/ path[u] = "mcp" /\ ~config[g].auth
      \/ Permits(path[u], config[g].mode, status[u]) /\ Signed(u)

\* The token middleware comes after the auth middleware, and only for MCP; its
\* verdict is the last word.
TokensAfterAuth ==
  \A u \in Users :
    /\ apc[u] = "token" => path[u] = "mcp"
    /\ upc[u] # "idle" =>
         /\ path[u] = "mcp"
         /\ \/ apc[u] = "token"
            \/ apc[u] = "in" /\ upc[u] = "admitted"
            \/ apc[u] = "out" /\ upc[u] = "refused"

AdmissionIInv == TypeOK /\ KeysIInv /\ TokensIInv /\ Checked /\ TokensAfterAuth

-----------------------------------------------------------------------------
(* The components *)

\* A step of the whole is a step of the key stores and one of the tokens, or
\* leaves them alone.
LEMMA StepsCompose ==
  ASSUME TypeOK, [Next]_vars PROVE [KeysNext]_kvars /\ [TokensNext]_uvars
<1>1. CASE UNCHANGED vars
  BY <1>1 DEF vars
<1>2. CASE Pass /\ Elapse /\ UNCHANGED avars
  BY <1>2 DEF KeysNext, TokensNext
<1>3. CASE KeysChange
  BY <1>3 DEF KeysChange, KeysNext
<1>4. CASE TokensChange
  BY <1>4 DEF TokensChange, TokensNext
<1>5. ASSUME NEW cfg \in Configs, Reload(cfg) PROVE KeysNext /\ UNCHANGED uvars
  BY <1>5 DEF Reload, KeysNext
<1>6. ASSUME NEW u \in Users, CheckAuth(u) PROVE [KeysNext]_kvars /\ UNCHANGED uvars
  <2> DEFINE g == via[u] c == credential[u]
  <2>1. g \in Chains /\ g <= chains /\ c \in Credentials
    BY KeysAssumption DEF TypeOK, KeysTypeOK, Chains
  <2>2. CASE c.kind = "agent"
    <3>1. c.agent \in Agents
      BY <2>1, <2>2 DEF Credentials
    <3>2. LookUpKey(g, c.agent)
      BY <1>6, <2>1, <2>2 DEF CheckAuth, LookUpKey
    <3> QED BY <1>6, <2>1, <3>1, <3>2 DEF CheckAuth, KeysNext
  <2>3. CASE c.kind # "agent"
    BY <1>6, <2>3 DEF CheckAuth, kvars
  <2> QED BY <1>6, <2>2, <2>3 DEF CheckAuth
<1>7. ASSUME NEW u \in Users,
             \/ \E p \in {"mcp", "http"}, c \in Credentials : Arrive(u, p, c)
             \/ NoTokenCheck(u) \/ LeaveTokens(u)
      PROVE  UNCHANGED <<kvars, uvars>>
  BY <1>7 DEF Arrive, NoTokenCheck, LeaveTokens
<1>8. ASSUME NEW u \in Users,
             EnterTokens(u) \/ (TokenStep(u) /\ UNCHANGED <<avars, kvars>>)
      PROVE  TokensNext /\ UNCHANGED kvars
  BY <1>8 DEF EnterTokens, TokensNext
<1> QED BY <1>1, <1>2, <1>3, <1>4, <1>5, <1>6, <1>7, <1>8 DEF Next

\* So their invariants go on holding.
LEMMA ComponentsKeep ==
  ASSUME AdmissionIInv, [Next]_vars PROVE KeysIInv' /\ TokensIInv'
<1>1. [KeysNext]_kvars /\ [TokensNext]_uvars
  BY StepsCompose DEF AdmissionIInv
<1> QED BY <1>1, KeysNextKeeps, TokensNextKeeps DEF AdmissionIInv

-----------------------------------------------------------------------------
(* The steps *)

LEMMA AdmissionInitHolds == Init => AdmissionIInv
<1> SUFFICES ASSUME Init PROVE AdmissionIInv
  OBVIOUS
<1>1. KeysIInv /\ TokensIInv
  BY KeysInitHolds, TokensInitHolds DEF Init
<1>2. TypeOK
  <2>1. setting \in Settings /\ setting.config \in Configs
    BY AdmissionAssumption DEF Init
  <2>2. config \in [Chains -> Configs]
    BY <2>1 DEF Init
  <2>3. chains = 1 /\ MaxTime \in Nat
    BY KeysAssumption DEF Init, KeysInit
  <2>4. /\ apc \in [Users -> {"new", "auth", "token", "in", "out"}]
        /\ path \in [Users -> {"mcp", "http"}]
        /\ via \in [Users -> 1..chains]
        /\ credential \in [Users -> Credentials]
        /\ status \in [Users -> {"none", "unsigned", "failed", "verified", "blocked"}]
        /\ heldAt \in [Users -> -1..MaxTime + 1]
    BY <2>3 DEF Init, Credentials
  <2> QED BY <1>1, <2>1, <2>2, <2>4 DEF TypeOK, KeysIInv, TokensIInv
<1>3. Checked /\ TokensAfterAuth
  BY DEF Init, TokensInit, Checked, TokensAfterAuth
<1> QED BY <1>1, <1>2, <1>3 DEF AdmissionIInv

\* Steps that leave the requests' own variables alone.
LEMMA OthersKeep ==
  ASSUME AdmissionIInv, KeysIInv', TokensIInv',
         UNCHANGED <<setting, apc, path, via, credential, status, heldAt, upc>>,
         chains' >= chains, config' \in [Chains -> Configs],
         \A g \in 1..chains : config'[g] = config[g]
  PROVE  AdmissionIInv'
<1> USE DEF AdmissionIInv
<1>1. chains \in Nat /\ chains' \in Nat
  BY DEF KeysIInv, KeysTypeOK, Chains
<1>2. TypeOK'
  BY <1>1 DEF TypeOK, KeysIInv, TokensIInv
<1>3. Checked' /\ TokensAfterAuth'
  BY DEF TypeOK, Checked, TokensAfterAuth, Permits, Signed
<1> QED BY <1>2, <1>3

LEMMA ArriveKeeps ==
  ASSUME AdmissionIInv, KeysIInv', TokensIInv', NEW u \in Users, NEW p \in {"mcp", "http"},
         NEW c \in Credentials, Arrive(u, p, c)
  PROVE  AdmissionIInv'
<1> USE DEF AdmissionIInv, Arrive
<1>1. chains \in Nat \ {0} /\ UNCHANGED <<kvars, uvars, chains, upc>>
  BY DEF KeysIInv, KeysTypeOK, Chains, kvars, uvars
<1>2. TypeOK'
  BY <1>1 DEF TypeOK, KeysIInv, TokensIInv
<1>3. \A v \in Users \ {u} :
        /\ apc'[v] = apc[v] /\ path'[v] = path[v] /\ via'[v] = via[v]
        /\ credential'[v] = credential[v]
  BY DEF TypeOK
<1>4. /\ path'[u] = p /\ via'[u] = IF p = "mcp" THEN chains ELSE 1
      /\ apc'[u] = IF p = "mcp" /\ ~config[chains].auth THEN "token" ELSE "auth"
      /\ upc[u] = "idle"
  BY DEF TypeOK, TokensAfterAuth
<1>5. Checked'
  BY <1>3, <1>4 DEF Checked, Permits, Signed
<1>6. TokensAfterAuth'
  BY <1>1, <1>3, <1>4 DEF TokensAfterAuth
<1> QED BY <1>2, <1>5, <1>6

\* What the check finds out about the key.
LEMMA CheckedKey ==
  ASSUME AdmissionIInv, KeysIInv', NEW u \in Users, CheckAuth(u), credential[u].kind = "agent"
  PROVE  /\ heldAt'[u] \in -1..MaxTime + 1
         /\ status'[u] = "verified" => heldAt'[u] < TTL
<1> USE KeysAssumption DEF AdmissionIInv
<1> DEFINE g == via[u] a == credential[u].agent k == credential[u].key
<1>1. g \in Chains /\ a \in Agents /\ k \in Keys
  <2>1. g \in Chains /\ credential[u] \in Credentials
    BY DEF TypeOK, KeysTypeOK, Chains
  <2> QED BY <2>1 DEF Credentials
<1>2. /\ heldAt'[u] = now - lastHeld[g][a][k] /\ cache' = CacheAfter(g, a)
      /\ UNCHANGED <<now, lastHeld>>
      /\ status'[u] = IF PublicKey(g, a) = k THEN "verified" ELSE "failed"
  BY DEF CheckAuth, TypeOK, Status
<1>3. /\ now \in 0..MaxTime /\ lastHeld[g][a][k] \in -1..MaxTime /\ lastHeld[g][a][k] <= now
      /\ TTL \in Nat /\ MaxTime \in Nat
  BY <1>1 DEF KeysIInv, KeysTypeOK, Times, AnswersHeld, Answers
<1>4. ASSUME PublicKey(g, a) = k PROVE lastHeld[g][a][k] > now - TTL
  <2>1. cache'[g][a].key = k
    BY <1>2, <1>4 DEF PublicKey
  <2>2. now < cache'[g][a].expiry
    <3>1. CASE now < cache[g][a].expiry
      BY <1>2, <3>1 DEF CacheAfter
    <3>2. CASE ~(now < cache[g][a].expiry)
      <4> DEFINE entry == [key |-> Inner(fileKeys, agentKeys, g, a), expiry |-> now + TTL]
      <4>1. cache' = [cache EXCEPT ![g][a] = entry]
        BY <1>2, <3>2 DEF CacheAfter
      <4>2. entry.expiry = now + TTL
        OBVIOUS
      <4> HIDE DEF entry
      <4>3. cache'[g][a] = entry
        BY <1>1, <4>1 DEF KeysIInv, KeysTypeOK
      <4> QED BY <1>3, <4>2, <4>3
    <3> QED BY <3>1, <3>2
  <2>3. CacheIsFresh'
    <3>1. KeysIInv' => CacheIsFresh'
      BY FreshFromInv, PTL
    <3> QED BY <3>1
  <2> QED BY <1>1, <1>2, <2>1, <2>2, <2>3 DEF CacheIsFresh
<1> HIDE DEF g, a, k
<1>5. heldAt'[u] \in -1..MaxTime + 1
  BY <1>2, <1>3
<1>6. status'[u] = "verified" => heldAt'[u] < TTL
  BY <1>2, <1>3, <1>4
<1> QED BY <1>5, <1>6

LEMMA CheckAuthKeeps ==
  ASSUME AdmissionIInv, KeysIInv', TokensIInv', NEW u \in Users, CheckAuth(u)
  PROVE  AdmissionIInv'
<1> USE DEF AdmissionIInv
<1> DEFINE c == credential[u] s == Status(via[u], path[u], c)
           past == Permits(path[u], config[via[u]].mode, s)
<1>1. /\ UNCHANGED <<chains, setting, config, path, via, credential, uvars, upc>>
      /\ apc[u] = "auth"
      /\ status' = [status EXCEPT ![u] = s]
      /\ apc' = [apc EXCEPT ![u] = IF ~past THEN "out" ELSE IF path[u] = "mcp" THEN "token" ELSE "in"]
  BY DEF CheckAuth, uvars
<1>2. c \in Credentials /\ s \in {"unsigned", "failed", "verified", "blocked"}
  BY DEF TypeOK, Credentials, Status
<1>3. /\ heldAt' \in [Users -> -1..MaxTime + 1]
      /\ \A v \in Users \ {u} : heldAt'[v] = heldAt[v]
  <2>1. CASE c.kind = "agent"
    <3>1. heldAt' = [heldAt EXCEPT ![u] = heldAt'[u]]
      BY <2>1 DEF CheckAuth, TypeOK
    <3> QED BY <2>1, <3>1, CheckedKey DEF TypeOK
  <2>2. CASE c.kind # "agent"
    BY <2>2 DEF CheckAuth, TypeOK
  <2> QED BY <2>1, <2>2
<1>4. s = "verified" =>
        \/ c.kind = "did" /\ c.good
        \/ c.kind = "agent" /\ heldAt'[u] < TTL
  <2>1. status'[u] = s
    BY <1>1 DEF TypeOK
  <2>2. CASE c.kind = "agent"
    BY <2>1, <2>2, CheckedKey
  <2>3. CASE c.kind = "did"
    BY <2>3 DEF Status
  <2>4. CASE c.kind = "unsigned"
    BY <2>4 DEF Status
  <2> QED BY <1>2, <2>2, <2>3, <2>4 DEF Credentials
<1> HIDE DEF s, past
<1>5. TypeOK'
  BY <1>1, <1>2, <1>3 DEF TypeOK, KeysIInv, TokensIInv
<1>6. \A v \in Users \ {u} : apc'[v] = apc[v] /\ status'[v] = status[v] /\ heldAt'[v] = heldAt[v]
  BY <1>1, <1>3 DEF TypeOK
<1>7. /\ status'[u] = s
      /\ apc'[u] = IF ~past THEN "out" ELSE IF path[u] = "mcp" THEN "token" ELSE "in"
  BY <1>1 DEF TypeOK
<1>8. Checked'
  <2> SUFFICES ASSUME NEW v \in Users, apc'[v] \in {"token", "in"}
               PROVE  \/ path[v] = "mcp" /\ ~config[via[v]].auth
                      \/ Permits(path[v], config[via[v]].mode, status'[v]) /\ Signed(v)'
    BY <1>1 DEF Checked, Permits
  <2>1. CASE v = u
    BY <1>1, <1>4, <1>7, <2>1 DEF past, Signed
  <2>2. CASE v # u
    BY <1>1, <1>6, <2>2 DEF Checked, Signed
  <2> QED BY <2>1, <2>2
<1>9. TokensAfterAuth'
  <2>1. upc[u] = "idle"
    BY <1>1 DEF TokensAfterAuth
  <2> QED BY <1>1, <1>6, <1>7, <2>1 DEF TokensAfterAuth
<1> QED BY <1>5, <1>8, <1>9

\* Steps in which a request that is past the check goes on.
LEMMA PastCheckKeeps ==
  ASSUME AdmissionIInv, KeysIInv', TokensIInv', NEW u \in Users,
         \/ NoTokenCheck(u) \/ EnterTokens(u) \/ LeaveTokens(u)
         \/ TokenStep(u) /\ UNCHANGED <<avars, kvars>>
  PROVE  AdmissionIInv'
<1> USE DEF AdmissionIInv
<1>1. UNCHANGED <<setting, config, path, via, credential, status, heldAt, chains>>
  BY DEF NoTokenCheck, EnterTokens, LeaveTokens, avars, kvars
<1>2. \/ /\ UNCHANGED upc
         /\ apc[u] = "token"
         /\ \/ upc[u] = "idle" /\ apc' = [apc EXCEPT ![u] = "in"]
            \/ upc[u] = "admitted" /\ apc' = [apc EXCEPT ![u] = "in"]
            \/ upc[u] = "refused" /\ apc' = [apc EXCEPT ![u] = "out"]
      \/ /\ UNCHANGED apc
         /\ \/ apc[u] = "token"
            \/ upc[u] \notin {"idle", "admitted", "refused"}
         /\ \E to : upc' = [upc EXCEPT ![u] = to]
  <2>1. CASE NoTokenCheck(u)
    BY <2>1 DEF NoTokenCheck, uvars
  <2>2. CASE EnterTokens(u)
    BY <2>2 DEF EnterTokens, UseToken, Moves, avars
  <2>3. CASE LeaveTokens(u)
    <3>1. CASE upc[u] = "admitted"
      BY <2>3, <3>1 DEF LeaveTokens, uvars
    <3>2. CASE upc[u] = "refused"
      BY <2>3, <3>2 DEF LeaveTokens, uvars
    <3> QED BY <2>3, <3>1, <3>2 DEF LeaveTokens
  <2>4. CASE TokenStep(u) /\ UNCHANGED <<avars, kvars>>
    BY <2>4 DEF TokenStep, TokenError, LookUpToken, CheckHourly, CheckMonthly, RecordUsage,
                RecordFails, Moves, avars
  <2> QED BY <2>1, <2>2, <2>3, <2>4
<1>3. /\ apc' \in [Users -> {"new", "auth", "token", "in", "out"}]
      /\ \A v \in Users \ {u} : apc'[v] = apc[v] /\ upc'[v] = upc[v]
      /\ apc'[u] # apc[u] => apc[u] = "token" /\ apc'[u] \in {"in", "out"}
  BY <1>2 DEF TypeOK, TokensIInv, TokensTypeOK
<1>4. TypeOK'
  BY <1>1, <1>3 DEF TypeOK, KeysIInv, TokensIInv
<1>5. Checked'
  BY <1>1, <1>3 DEF Checked, Permits, Signed
<1>6. TokensAfterAuth'
  BY <1>1, <1>2, <1>3 DEF TokensAfterAuth, TypeOK, TokensIInv, TokensTypeOK
<1> QED BY <1>4, <1>5, <1>6

LEMMA AdmissionNextKeeps == AdmissionIInv /\ [Next]_vars => AdmissionIInv'
<1> SUFFICES ASSUME AdmissionIInv, [Next]_vars PROVE AdmissionIInv'
  OBVIOUS
<1>1. KeysIInv' /\ TokensIInv'
  BY ComponentsKeep
<1>2. chains \in Nat /\ config \in [Chains -> Configs]
  BY DEF AdmissionIInv, TypeOK, KeysTypeOK, Chains
<1>3. CASE \/ UNCHANGED vars
           \/ Pass /\ Elapse /\ UNCHANGED avars
           \/ KeysChange
           \/ TokensChange
  <2>1. UNCHANGED <<setting, config, apc, path, via, credential, status, heldAt, upc, chains>>
    BY <1>3 DEF vars, avars, uvars, kvars, Pass, Elapse, KeysChange, TokensChange, EditFile,
                RegisterKey, RemoveKey, RevokeToken, CreateToken
  <2> QED BY <1>1, <1>2, <2>1, OthersKeep
<1>4. ASSUME NEW cfg \in Configs, Reload(cfg) PROVE AdmissionIInv'
  <2>1. /\ UNCHANGED <<setting, apc, path, via, credential, status, heldAt, upc>>
        /\ chains' = chains + 1 /\ config' = [config EXCEPT ![chains + 1] = cfg]
    BY <1>4 DEF Reload, ReloadKeys, uvars
  <2>2. 1..chains \subseteq Chains
    BY KeysAssumption DEF AdmissionIInv, KeysIInv, KeysTypeOK, Chains
  <2>3. config' \in [Chains -> Configs] /\ \A g \in 1..chains : config'[g] = config[g]
    <3>1. \A g \in 1..chains : g \in Chains /\ g # chains + 1
      BY <1>2, <2>2
    <3> HIDE DEF Chains
    <3> QED BY <1>2, <2>1, <3>1
  <2>4. chains' >= chains
    BY <1>2, <2>1
  <2> QED BY <1>1, <2>1, <2>3, <2>4, OthersKeep
<1>5. ASSUME NEW u \in Users, CheckAuth(u) PROVE AdmissionIInv'
  BY <1>1, <1>5, CheckAuthKeeps
<1>6. ASSUME NEW u \in Users, NEW p \in {"mcp", "http"}, NEW c \in Credentials, Arrive(u, p, c)
      PROVE  AdmissionIInv'
  BY <1>1, <1>6, ArriveKeeps
<1>7. ASSUME NEW u \in Users,
             \/ NoTokenCheck(u) \/ EnterTokens(u) \/ LeaveTokens(u)
             \/ TokenStep(u) /\ UNCHANGED <<avars, kvars>>
      PROVE  AdmissionIInv'
  BY <1>1, <1>7, PastCheckKeeps
<1>8. CASE Next
  BY <1>3, <1>4, <1>5, <1>6, <1>7, <1>8, Zenon DEF Next
<1>9. CASE UNCHANGED vars
  BY <1>3, <1>9, Zenon
<1> QED BY <1>8, <1>9, Zenon

-----------------------------------------------------------------------------
(* The theorems *)

\* Every reachable state satisfies the inductive invariant.
THEOREM AdmissionCorrect == Spec => []AdmissionIInv
BY AdmissionInitHolds, AdmissionNextKeeps, PTL DEF Spec

\* A closed door opens to signatures only, by keys that were not removed longer
\* than TTL ago.
THEOREM ClosedMeansSignedCorrect == Spec => []ClosedMeansSigned
<1>1. AdmissionIInv => ClosedMeansSigned
  <2> SUFFICES ASSUME AdmissionIInv, NEW u \in Users, apc[u] = "in",
                      config[via[u]].mode = "closed", path[u] = "http" \/ config[via[u]].auth
               PROVE  \/ credential[u].kind = "did" /\ credential[u].good
                      \/ credential[u].kind = "agent" /\ heldAt[u] < TTL
    BY DEF ClosedMeansSigned
  <2>1. Permits(path[u], "closed", status[u]) /\ Signed(u)
    BY DEF AdmissionIInv, Checked
  <2>2. status[u] = "verified"
    BY <2>1 DEF Permits
  <2> QED BY <2>1, <2>2 DEF Signed
<1> QED BY <1>1, AdmissionCorrect, PTL

\* Types, and no token is charged for a request that the signature check has
\* turned away.
THEOREM AdmissionInvCorrect == Spec => []AdmissionInv
<1>1. AdmissionIInv => AdmissionInv
  <2> SUFFICES ASSUME AdmissionIInv PROVE ChargedIsAdmitted
    BY DEF AdmissionIInv, AdmissionInv
  <2> SUFFICES ASSUME NEW x \in usage
               PROVE  /\ upc[x.req] = "admitted" /\ apc[x.req] \in {"token", "in"}
                      /\ config[via[x.req]].auth =>
                           Permits("mcp", config[via[x.req]].mode, status[x.req])
    BY DEF ChargedIsAdmitted
  <2>1. x.req \in Users /\ upc[x.req] = "admitted"
    BY DEF AdmissionIInv, TokensIInv, TokensTypeOK, UsageIsAdmitted
  <2>2. path[x.req] = "mcp" /\ apc[x.req] \in {"token", "in"}
    BY <2>1 DEF AdmissionIInv, TokensAfterAuth
  <2> QED BY <2>1, <2>2 DEF AdmissionIInv, Checked
<1> QED BY <1>1, AdmissionCorrect, PTL

\* Composed with the rest, the caches are as fresh and the quotas as exact as
\* they are alone.
THEOREM ComponentsCorrect == Spec => [](CacheIsFresh /\ OverrunIsOverlap)
<1>1. AdmissionIInv => CacheIsFresh /\ OverrunIsOverlap
  BY FreshFromInv, OverrunFromInv DEF AdmissionIInv
<1> QED BY <1>1, AdmissionCorrect, PTL
==============================================================================
