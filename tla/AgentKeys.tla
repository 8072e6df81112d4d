------------------------------ MODULE AgentKeys ------------------------------
(***************************************************************************)
(* The agents' public keys: the keys file, the table agent_keys that the   *)
(* web UI edits, and the key stores that the chains look into.  The chain  *)
(* built at start has a cache over the file as it was then and the table;  *)
(* a chain built by a reload has a cache of its own over the file alone.   *)
(***************************************************************************)
EXTENDS Integers, FiniteSets

CONSTANTS
  Agents,    \* agent ids that are not DIDs
  Keys,      \* public keys
  TTL,       \* how long CachedKeyStore keeps an answer
  MaxTime,   \* end of time (bound)
  MaxChains  \* chains built by one process (bound)

ASSUME KeysAssumption ==
  /\ TTL \in Nat \ {0} /\ MaxTime \in Nat /\ MaxChains \in Nat \ {0}
  /\ "none" \notin Keys

NoKey   == "none"
Answers == Keys \cup {NoKey}
Chains  == 1..MaxChains
Times   == 0..MaxTime

VARIABLES
  now,        \* the time
  keysFile,   \* security.key_store_path, as it is on disk
  agentKeys,  \* table agent_keys: key and active; NoKey if there is no row
  chains,     \* how many chains have been built; the last one is in use
  fileKeys,   \* per chain, FileKeyStore.keys
  cache,      \* per chain, CachedKeyStore.cache: answer and expiry (0: no entry)
  lastHeld    \* history: when the stores under a cache last gave this answer

kvars == <<now, keysFile, agentKeys, chains, fileKeys, cache, lastHeld>>

\* GetAgentKey: active rows only.
TableKey(table, a) == IF table[a].active THEN table[a].key ELSE NoKey

\* CompositeKeyStore.PublicKey for the first chain: the file, then the table.
\* For the others FileKeyStore.PublicKey alone.
Inner(files, table, g, a) ==
  IF files[g][a] # NoKey THEN files[g][a]
  ELSE IF g = 1 THEN TableKey(table, a) ELSE NoKey

\* lastHeld once time, files and table are these.
Held(t, n, files, table) ==
  [g \in Chains |-> [a \in Agents |-> [k \in Answers |->
     IF g <= n /\ Inner(files, table, g, a) = k THEN t ELSE lastHeld[g][a][k]]]]

KeysInit ==
  /\ now = 0
  /\ keysFile \in [Agents -> Answers]
  /\ agentKeys = [a \in Agents |-> [key |-> NoKey, active |-> FALSE]]
  /\ chains = 1
  /\ fileKeys = [g \in Chains |-> IF g = 1 THEN keysFile ELSE [a \in Agents |-> NoKey]]
  /\ cache = [g \in Chains |-> [a \in Agents |-> [key |-> NoKey, expiry |-> 0]]]
  /\ lastHeld = [g \in Chains |-> [a \in Agents |-> [k \in Answers |->
                   IF g = 1 /\ Inner(fileKeys, agentKeys, 1, a) = k THEN 0 ELSE -1]]]

\* Time passes.
Pass ==
  /\ now < MaxTime
  /\ now' = now + 1
  /\ lastHeld' = Held(now + 1, chains, fileKeys, agentKeys)
  /\ UNCHANGED <<keysFile, agentKeys, chains, fileKeys, cache>>

\* The operator edits the keys file.
EditFile(a, k) ==
  /\ keysFile[a] # k
  /\ keysFile' = [keysFile EXCEPT ![a] = k]
  /\ UNCHANGED <<now, agentKeys, chains, fileKeys, cache, lastHeld>>

\* POST /api/keys: the id must be new, also to removed rows.
RegisterKey(a, k) ==
  /\ agentKeys[a].key = NoKey
  /\ agentKeys' = [agentKeys EXCEPT ![a] = [key |-> k, active |-> TRUE]]
  /\ lastHeld' = Held(now, chains, fileKeys, agentKeys')
  /\ UNCHANGED <<now, keysFile, chains, fileKeys, cache>>

\* DELETE /api/keys/{id}: the row stays, inactive.
RemoveKey(a) ==
  /\ agentKeys[a].key # NoKey
  /\ agentKeys' = [agentKeys EXCEPT ![a].active = FALSE]
  /\ lastHeld' = Held(now, chains, fileKeys, agentKeys')
  /\ UNCHANGED <<now, keysFile, chains, fileKeys, cache>>

\* SIGHUP: a file store and a cache of its own for the new chain.
ReloadKeys ==
  /\ chains < MaxChains
  /\ chains' = chains + 1
  /\ fileKeys' = [fileKeys EXCEPT ![chains + 1] = keysFile]
  /\ lastHeld' = Held(now, chains + 1, fileKeys', agentKeys)
  /\ UNCHANGED <<now, keysFile, agentKeys, cache>>

\* Fault: every hit keeps the answer for another TTL.
CacheAfter_Sliding(g, a) ==
  IF now < cache[g][a].expiry
  THEN [cache EXCEPT ![g][a].expiry = now + TTL]
  ELSE [cache EXCEPT ![g][a] = [key |-> Inner(fileKeys, agentKeys, g, a), expiry |-> now + TTL]]

\* CachedKeyStore.PublicKey under its lock: what is remembered afterwards, a
\* failure as well as a key, and the answer.
CacheAfter(g, a) ==
  IF now < cache[g][a].expiry
  THEN cache
  ELSE [cache EXCEPT ![g][a] = [key |-> Inner(fileKeys, agentKeys, g, a), expiry |-> now + TTL]]

PublicKey(g, a) == CacheAfter(g, a)[g][a].key

\* Somebody asks for an agent's key.
LookUpKey(g, a) ==
  /\ g <= chains
  /\ cache' = CacheAfter(g, a)
  /\ UNCHANGED <<now, keysFile, agentKeys, chains, fileKeys, lastHeld>>

KeysNext ==
  \/ Pass
  \/ ReloadKeys
  \/ \E a \in Agents :
       \/ \E k \in Answers : EditFile(a, k)
       \/ \E k \in Keys : RegisterKey(a, k)
       \/ RemoveKey(a)
       \/ \E g \in Chains : LookUpKey(g, a)

KeysSpec == KeysInit /\ [][KeysNext]_kvars

-----------------------------------------------------------------------------
(* Properties *)

\* Types.
KeysTypeOK ==
  /\ now \in Times
  /\ keysFile \in [Agents -> Answers]
  /\ agentKeys \in [Agents -> [key : Answers, active : BOOLEAN]]
  /\ chains \in Chains
  /\ fileKeys \in [Chains -> [Agents -> Answers]]
  /\ cache \in [Chains -> [Agents -> [key : Answers, expiry : 0..MaxTime + TTL]]]
  /\ lastHeld \in [Chains -> [Agents -> [Answers -> -1..MaxTime]]]

\* auth.go:104-115: what a cache answers, key or failure, was the answer of the
\* stores under it less than TTL ago, whatever was registered, removed or
\* reloaded meanwhile: a removed key lives at most TTL, and so does a failure.
CacheIsFresh ==
  \A g \in Chains, a \in Agents :
    now < cache[g][a].expiry => lastHeld[g][a][cache[g][a].key] > now - TTL
=============================================================================
