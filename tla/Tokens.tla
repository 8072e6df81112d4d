------------------------------- MODULE Tokens -------------------------------
(***************************************************************************)
(* API tokens: the tables tokens and token_usage, the commands and web UI  *)
(* handlers that create and revoke tokens, and the steps in which the      *)
(* token middleware admits a request, each a statement of its own on the   *)
(* database: look the token up, count the usage of the last hour, count    *)
(* that of the last month, record the usage.                               *)
(***************************************************************************)
EXTENDS Integers, FiniteSets

CONSTANTS
  Users,       \* requests that carry a token
  TokenIds,
  Plans,       \* what a token may be created with: hourly and monthly quota
               \* (0: unlimited), lifetime (0: for ever), whether it is
               \* restricted to some methods
  Hour, Month, \* the quota windows
  LastTime     \* end of time (bound)

ASSUME TokensAssumption ==
  /\ Hour \in Nat \ {0} /\ Month \in Nat \ {0} /\ LastTime \in Nat
  /\ IsFiniteSet(Users)
  /\ Plans \subseteq [hourly : Nat, monthly : Nat, lifetime : Nat, restricted : BOOLEAN]

VARIABLES
  clock,     \* the time
  tokens,    \* table tokens: the plan, expiry and active; or NoToken
  usage,     \* table token_usage: which request, for which token, when
  upc,       \* per request, where it is in ProcessRequest
  carries,   \* per request, the token it carries
  plan,      \* per request, the row it has looked up
  late       \* history: requests recorded since this one was counted

uvars == <<clock, tokens, usage, upc, carries, plan, late>>

NoToken == [created |-> FALSE]
Rows == [created : {TRUE}, hourly : Nat, monthly : Nat, expires : Nat,
         restricted : BOOLEAN, active : BOOLEAN]

TokensInit ==
  /\ clock = 0
  /\ tokens = [t \in TokenIds |-> NoToken]
  /\ usage = {}
  /\ upc = [u \in Users |-> "idle"]
  /\ carries \in [Users -> TokenIds]
  /\ plan = [u \in Users |-> NoToken]
  /\ late = [u \in Users |-> {}]

Elapse ==
  /\ clock < LastTime
  /\ clock' = clock + 1
  /\ UNCHANGED <<tokens, usage, upc, carries, plan, late>>

\* Store.Create, for the command and for POST /api/tokens.
CreateToken(t, p) ==
  /\ ~tokens[t].created
  /\ tokens' = [tokens EXCEPT ![t] =
       [created |-> TRUE, hourly |-> p.hourly, monthly |-> p.monthly,
        expires |-> IF p.lifetime = 0 THEN 0 ELSE clock + p.lifetime,
        restricted |-> p.restricted, active |-> TRUE]]
  /\ UNCHANGED <<clock, usage, upc, carries, plan, late>>

\* Store.Revoke, for the command and for DELETE /api/tokens/{id}.
RevokeToken(t) ==
  /\ tokens[t].created /\ tokens[t].active
  /\ tokens' = [tokens EXCEPT ![t].active = FALSE]
  /\ UNCHANGED <<clock, usage, upc, carries, plan, late>>

\* CountUsage: the rows of a token in a window.
InWindow(t, w) == {x \in usage : x.token = t /\ x.at >= clock - w}
CountUsage(t, w) == Cardinality(InWindow(t, w))

\* IsExpired.
IsExpired(row) == row.expires # 0 /\ clock > row.expires

Moves(u, from, to) ==
  /\ upc[u] = from
  /\ upc' = [upc EXCEPT ![u] = to]

\* A statement fails: "internal token error".  An unlimited plan is not counted.
TokenError(u) ==
  /\ \/ upc[u] = "lookup"
     \/ upc[u] = "hourly" /\ plan[u].hourly > 0
     \/ upc[u] = "monthly" /\ plan[u].monthly > 0
  /\ upc' = [upc EXCEPT ![u] = "refused"]
  /\ UNCHANGED <<clock, tokens, usage, carries, plan, late>>

\* The checks on the row looked up: it exists, is active, has not expired, and
\* allows the method, which is listed or not.
IsUsable(row, listed) ==
  /\ row.created
  /\ row.active /\ ~IsExpired(row)
  /\ row.restricted => listed

\* The lookup.
LookUpToken(u, listed) ==
  /\ Moves(u, "lookup", IF IsUsable(tokens[carries[u]], listed) THEN "hourly" ELSE "refused")
  /\ plan' = [plan EXCEPT ![u] = tokens[carries[u]]]
  /\ UNCHANGED <<clock, tokens, usage, carries, late>>

\* Fault: a count that has reached the quota still passes.
Within_Quota_OffByOne(t, quota, w) == quota = 0 \/ CountUsage(t, w) <= quota

\* The comparison of a count with its quota.
Within_Quota(t, quota, w) == quota = 0 \/ CountUsage(t, w) < quota

\* The hourly quota.
CheckHourly(u) ==
  /\ Moves(u, "hourly", IF Within_Quota(carries[u], plan[u].hourly, Hour)
                        THEN "monthly" ELSE "refused")
  /\ late' = [late EXCEPT ![u] = {}]
  /\ UNCHANGED <<clock, tokens, usage, carries, plan>>

\* The monthly quota.
CheckMonthly(u) ==
  /\ Moves(u, "monthly", IF Within_Quota(carries[u], plan[u].monthly, Month)
                         THEN "record" ELSE "refused")
  /\ UNCHANGED <<clock, tokens, usage, carries, plan, late>>

\* RecordUsage; if it fails the request goes on all the same.
RecordUsage(u) ==
  /\ Moves(u, "record", "admitted")
  /\ usage' = usage \cup {[req |-> u, token |-> carries[u], at |-> clock]}
  /\ late' = [v \in Users |-> IF v # u /\ carries[v] = carries[u] /\ upc[v] \in {"monthly", "record"}
                              THEN late[v] \cup {u} ELSE late[v]]
  /\ UNCHANGED <<clock, tokens, carries, plan>>

RecordFails(u) ==
  /\ Moves(u, "record", "admitted")
  /\ UNCHANGED <<clock, tokens, usage, carries, plan, late>>

TokenStep(u) ==
  \/ TokenError(u)
  \/ \E listed \in BOOLEAN : LookUpToken(u, listed)
  \/ CheckHourly(u) \/ CheckMonthly(u)
  \/ RecordUsage(u) \/ RecordFails(u)

\* The request reaches the middleware.
UseToken(u) ==
  /\ Moves(u, "idle", "lookup")
  /\ UNCHANGED <<clock, tokens, usage, carries, plan, late>>

TokensNext ==
  \/ Elapse
  \/ \E t \in TokenIds : RevokeToken(t) \/ \E p \in Plans : CreateToken(t, p)
  \/ \E u \in Users : UseToken(u) \/ TokenStep(u)

TokensSpec == TokensInit /\ [][TokensNext]_uvars

-----------------------------------------------------------------------------
(* Properties *)

\* Types.
TokensTypeOK ==
  /\ clock \in 0..LastTime
  /\ tokens \in [TokenIds -> Rows \cup {NoToken}]
  /\ usage \subseteq [req : Users, token : TokenIds, at : 0..LastTime]
  /\ upc \in [Users -> {"idle", "lookup", "hourly", "monthly", "record", "admitted", "refused"}]
  /\ carries \in [Users -> TokenIds]
  /\ plan \in [Users -> Rows \cup {NoToken}]
  /\ late \in [Users -> SUBSET Users]

\* token.go:99-136: in no hour and no month does a token have more rows than its
\* quota, but for those of requests that were counted while another one was
\* between count and record: without overlap the quota is exact.
Overlapped(t, w) == {x \in InWindow(t, w) : late[x.req] # {}}
Overrun(t, quota, w) ==
  quota > 0 /\ CountUsage(t, w) > quota + Cardinality(Overlapped(t, w))
OverrunIsOverlap ==
  \A t \in TokenIds :
    tokens[t].created =>
      ~Overrun(t, tokens[t].hourly, Hour) /\ ~Overrun(t, tokens[t].monthly, Month)
=============================================================================
