------------------------------ MODULE Admission ------------------------------
(***************************************************************************)
(* How a request gets past the door: by the signature of its agent, judged *)
(* by the auth middleware of the chain that the request has read (MCP) or  *)
(* by checkAuth of the protocol handler (A2A, plain HTTP), and then, on a  *)
(* chain that has the token middleware, by the token it carries.  A reload *)
(* replaces the chain, its mode and its key store; checkAuth keeps those   *)
(* of the start.                                                           *)
(*                                                                         *)
(* The raw token is what SetRawToken puts into a request's context; no     *)
(* transport of the repository calls it yet.                               *)
(***************************************************************************)
EXTENDS AgentKeys, Tokens

CONSTANTS
  Configs,   \* what chains are built from: [auth, token, mode, blocks]
  Settings   \* what one process may meet: its first configuration, which
             \* requests with which credentials, whether they carry tokens,
             \* whether keys change and chains are reloaded

VARIABLES
  setting,
  config,     \* per chain, what it was built from
  apc,        \* per request: "new", "auth", "token", "in", "out"
  path,       \* "mcp" or "http"
  via,        \* the chain it has read
  credential, \* what it shows
  status,     \* AuthResult.Status
  heldAt      \* history: how long before its check the key had last been held

avars == <<setting, config, apc, path, via, credential, status, heldAt>>
vars  == <<kvars, uvars, avars>>

Modes == {"open", "verified", "closed"}

\* No signature; that of a did:key agent, which verifies or does not; that of a
\* registered agent, made with some key.
Credentials ==
  [kind : {"unsigned"}] \cup [kind : {"did"}, good : BOOLEAN]
    \cup [kind : {"agent"}, agent : Agents, key : Keys]

ASSUME AdmissionAssumption ==
  /\ MaxTime = LastTime
  /\ Configs \subseteq [auth : BOOLEAN, token : BOOLEAN, mode : Modes, blocks : BOOLEAN]
  /\ Settings \subseteq [config : Configs, users : SUBSET Users,
                        credentials : SUBSET Credentials, tokens : BOOLEAN, keys : BOOLEAN]

Init ==
  /\ KeysInit /\ TokensInit
  /\ setting \in Settings
  /\ config = [g \in Chains |-> setting.config]
  /\ apc = [u \in Users |-> "new"]
  /\ path = [u \in Users |-> "mcp"]
  /\ via = [u \in Users |-> 1]
  /\ credential = [u \in Users |-> [kind |-> "unsigned"]]
  /\ status = [u \in Users |-> "none"]
  /\ heldAt = [u \in Users |-> -1]

\* A request arrives.  MCP reads the current chain, which may have no auth.
Arrive(u, p, c) ==
  /\ apc[u] = "new" /\ u \in setting.users /\ c \in setting.credentials
  /\ path' = [path EXCEPT ![u] = p]
  /\ credential' = [credential EXCEPT ![u] = c]
  /\ via' = [via EXCEPT ![u] = IF p = "mcp" THEN chains ELSE 1]
  /\ apc' = [apc EXCEPT ![u] = IF p = "mcp" /\ ~config[chains].auth THEN "token" ELSE "auth"]
  /\ UNCHANGED <<setting, config, status, heldAt, kvars, uvars>>

\* The status that credential c gets from chain g, with the key its store gives.
Status(g, p, c) ==
  CASE c.kind = "unsigned" -> "unsigned"
    [] c.kind = "did" ->
         IF p = "mcp" /\ config[g].blocks THEN "blocked"
         ELSE IF c.good THEN "verified" ELSE "failed"
    [] c.kind = "agent" -> IF PublicKey(g, c.agent) = c.key THEN "verified" ELSE "failed"

\* Fault: a failed signature is let through in closed mode.
Permits_Failed(p, mode, s) ==
  \/ s = "verified"
  \/ s = "unsigned" /\ mode = "open"
  \/ s = "failed"

\* AuthMiddleware.ProcessRequest and checkAuth: which statuses a mode lets in.
\* The two differ in mode "verified".
Permits(p, mode, s) ==
  \/ s = "verified"
  \/ s = "unsigned" /\ mode \in (IF p = "mcp" THEN {"open"} ELSE {"open", "verified"})
  \/ s = "failed" /\ mode \in (IF p = "mcp" THEN {"open", "verified"} ELSE {"open"})

\* The signature is checked; the key store's cache remembers what it was asked.
CheckAuth(u) ==
  LET g == via[u] c == credential[u] s == Status(g, path[u], c) IN
  /\ apc[u] = "auth"
  /\ status' = [status EXCEPT ![u] = s]
  /\ apc' = [apc EXCEPT ![u] = IF ~Permits(path[u], config[g].mode, s) THEN "out"
                               ELSE IF path[u] = "mcp" THEN "token" ELSE "in"]
  /\ IF c.kind = "agent"
     THEN /\ cache' = CacheAfter(g, c.agent)
          /\ heldAt' = [heldAt EXCEPT ![u] = now - lastHeld[g][c.agent][c.key]]
     ELSE UNCHANGED <<cache, heldAt>>
  /\ UNCHANGED <<now, keysFile, agentKeys, chains, fileKeys, lastHeld, setting, config, path,
                 via, credential, uvars>>

\* No token middleware in the chain, or no token with the request.
NoTokenCheck(u) ==
  /\ apc[u] = "token" /\ upc[u] = "idle"
  /\ apc' = [apc EXCEPT ![u] = "in"]
  /\ UNCHANGED <<setting, config, path, via, credential, status, heldAt, kvars, uvars>>

\* Fault: the token is charged beside the signature check, not after it.
EnterTokens_Early(u) ==
  /\ apc[u] \in {"auth", "token"} /\ config[via[u]].token /\ setting.tokens
  /\ UseToken(u)
  /\ UNCHANGED <<avars, kvars>>

\* TokenMiddleware.ProcessRequest begins.
EnterTokens(u) ==
  /\ apc[u] = "token" /\ config[via[u]].token /\ setting.tokens
  /\ UseToken(u)
  /\ UNCHANGED <<avars, kvars>>

\* Its verdict is the chain's.
LeaveTokens(u) ==
  /\ apc[u] = "token" /\ upc[u] \in {"admitted", "refused"}
  /\ apc' = [apc EXCEPT ![u] = IF upc[u] = "admitted" THEN "in" ELSE "out"]
  /\ UNCHANGED <<setting, config, path, via, credential, status, heldAt, kvars, uvars>>

\* SIGHUP.  The new chain has no token store, so a configuration with the token
\* middleware does not build and changes nothing.
Reload(cfg) ==
  /\ setting.keys
  /\ ~cfg.token
  /\ ReloadKeys
  /\ config' = [config EXCEPT ![chains + 1] = cfg]
  /\ UNCHANGED <<setting, apc, path, via, credential, status, heldAt, uvars>>

\* Keys are edited, registered and removed.
KeysChange ==
  /\ setting.keys
  /\ \E a \in Agents :
       \/ \E k \in Answers : EditFile(a, k)
       \/ \E k \in Keys : RegisterKey(a, k)
       \/ RemoveKey(a)
  /\ UNCHANGED <<avars, uvars>>

TokensChange ==
  /\ setting.tokens
  /\ \E t \in TokenIds : RevokeToken(t) \/ \E p \in Plans : CreateToken(t, p)
  /\ UNCHANGED <<avars, kvars>>

Next ==
  \/ Pass /\ Elapse /\ UNCHANGED avars
  \/ KeysChange \/ TokensChange
  \/ \E cfg \in Configs : Reload(cfg)
  \/ \E u \in Users :
       \/ \E p \in {"mcp", "http"}, c \in Credentials : Arrive(u, p, c)
       \/ CheckAuth(u) \/ NoTokenCheck(u) \/ EnterTokens(u) \/ LeaveTokens(u)
       \/ TokenStep(u) /\ UNCHANGED <<avars, kvars>>

Spec == Init /\ [][Next]_vars

-----------------------------------------------------------------------------
(* Properties *)

\* Types.
TypeOK ==
  /\ KeysTypeOK /\ TokensTypeOK
  /\ setting \in Settings
  /\ config \in [Chains -> Configs]
  /\ apc \in [Users -> {"new", "auth", "token", "in", "out"}]
  /\ path \in [Users -> {"mcp", "http"}]
  /\ via \in [Users -> 1..chains]
  /\ credential \in [Users -> Credentials]
  /\ status \in [Users -> {"none", "unsigned", "failed", "verified", "blocked"}]
  /\ heldAt \in [Users -> -1..MaxTime + 1]

\* auth.go:73-164, protocol.go:181-263: whoever is in past a closed door has a
\* signature by a key that its agent had less than TTL before the check, or is a
\* did:key agent whose signature verifies, by the mode of the chain it has read.
ClosedMeansSigned ==
  \A u \in Users :
    LET c == credential[u] g == via[u] IN
    apc[u] = "in" /\ config[g].mode = "closed" /\ (path[u] = "http" \/ config[g].auth) =>
      \/ c.kind = "did" /\ c.good
      \/ c.kind = "agent" /\ heldAt[u] < TTL

\* registry order auth, guard, token: a token is charged only for a request that
\* the signature check has let through, and that is not turned away later.
ChargedIsAdmitted ==
  \A x \in usage :
    LET u == x.req IN
    /\ upc[u] = "admitted" /\ apc[u] \in {"token", "in"}
    /\ config[via[u]].auth => Permits("mcp", config[via[u]].mode, status[u])

\* What holds of admission at all times: types, and tokens charged only for
\* requests that the signature check has let through.
AdmissionInv ==
  /\ TypeOK
  /\ ChargedIsAdmitted
=============================================================================
