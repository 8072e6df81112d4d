----------------------------- MODULE EgressProxy -----------------------------
(***************************************************************************)
(* The request path of the egress forward proxy (internal/egress/proxy.go) *)
(* over a middleware chain that SIGHUP may replace at any time             *)
(* (SwappableEgressChain): CONNECT tunnels, CONNECT tunnels whose TLS the  *)
(* proxy terminates, the exchanges decrypted from those, and plain HTTP.   *)
(*                                                                         *)
(* The chain is asked twice: ProcessRequest decides before the upstream is *)
(* contacted, ProcessResponse records afterwards.  Both read the chain     *)
(* installed at that moment.  Of the middlewares only the policy can       *)
(* refuse, and only the audit log, at the end of ProcessResponse, has an   *)
(* effect outside the request; its write either reaches the writer or is   *)
(* lost (EgressAudit has the inside of that step).                         *)
(***************************************************************************)
EXTENDS Naturals, Sequences

CONSTANTS
  Exchanges,   \* requests: CONNECTs, plain requests and decrypted requests
  Hosts,       \* destinations
  MITMHosts,   \* egress.mitm_hosts
  Chains,      \* the chains that configurations build
  \* The environment of an instance.
  MaxReloads,  \* configuration reloads (bound)
  Faults       \* what may go wrong, among FaultKinds

\* What BuildEgressChain makes of one configuration: whether the policy and
\* the audit log are enabled, policy_mode, and the hosts that upstream_allow
\* lets through (all hosts when the list is empty).
Chain == [policy : BOOLEAN, log : BOOLEAN, mode : {"warn", "block"}, allows : SUBSET Hosts]

FaultKinds == { "log",      \* the audit row is not written
                "bad",      \* a plain request is malformed
                "hijack",   \* the client's connection cannot be taken over
                "client",   \* the client's side fails: write or TLS handshake
                "dial",     \* the upstream is not reached, or fails a plain request
                "inner" }   \* a decrypted exchange breaks off before it has a response

ASSUME ProxyAssumption ==
  /\ MITMHosts \subseteq Hosts
  /\ Chains \subseteq Chain
  /\ MaxReloads \in Nat
  /\ Faults \subseteq FaultKinds

VARIABLES
  chain,      \* SwappableEgressChain.chain
  reloads,    \* reloads so far
  \* one handler per exchange; an inner exchange runs in its tunnel's
  kind,       \* "none", "http", "connect", "mitm" (terminated), "inner" (decrypted)
  pc,         \* where the exchange is
  host,       \* req.Host
  tunnel,     \* for an inner exchange the tunnel it was read from, else itself
  action,     \* req.PolicyAction
  forwarded,  \* the upstream may have received some of it
  client,     \* what the client got last: "none", "established", or the answer
  rows,       \* the policy_actions of its audit rows
  lost,       \* exchanges whose row was not written
  \* history, read by no action
  off,        \* exchanges that ended under a chain without audit log
  judge       \* the chain that ran ProcessRequest

origin == <<kind, host, tunnel, judge>>
trail  == <<rows, lost, off>>
vars   == <<chain, reloads, origin, pc, action, forwarded, client, trail>>

Places == {"idle", "accepted", "handshake", "dial", "piping", "serving", "busy",
           "roundtrip", "replay", "log", "answer", "after", "done"}

\* The chain of a request no chain has seen.
NoChain == [policy |-> FALSE, log |-> FALSE, mode |-> "warn", allows |-> {}]

-----------------------------------------------------------------------------
(* The chain *)

\* PolicyMiddleware: a destination outside upstream_allow ...
Violates(c, h) == c.policy /\ h \notin c.allows

\* ... which block mode refuses.
Refuses(c, h) == Violates(c, h) /\ c.mode = "block"

\* Fault: a violation is a warning in either mode.
Judged_Warn(c, h, old) ==
  CASE Violates(c, h)                             -> "warn"
    [] ~Violates(c, h) /\ c.policy /\ old = ""    -> "allow"
    [] ~Violates(c, h) /\ (~c.policy \/ old # "") -> old

\* The PolicyAction ProcessRequest leaves on a request that came with old: a
\* request that is allowed keeps what it came with.
Judged(c, h, old) ==
  CASE Violates(c, h)                             -> c.mode
    [] ~Violates(c, h) /\ c.policy /\ old = ""    -> "allow"
    [] ~Violates(c, h) /\ (~c.policy \/ old # "") -> old

\* ProcessRequest of the installed chain, for exchange e to h.
ProcessRequest(e, h, old) ==
  /\ host' = [host EXCEPT ![e] = h]
  /\ judge' = [judge EXCEPT ![e] = chain]
  /\ action' = [action EXCEPT ![e] = Judged(chain, h, old)]

\* The policy_action of the row of e.
RowAction(e) == IF action[e] = "" THEN "allow" ELSE action[e]

\* ProcessResponse of the installed chain.
ProcessResponse(e) ==
  \/ /\ chain.log
     /\ rows' = [rows EXCEPT ![e] = Append(@, RowAction(e))]
     /\ UNCHANGED <<lost, off>>
  \/ /\ chain.log /\ "log" \in Faults
     /\ lost' = lost \cup {e}
     /\ UNCHANGED <<rows, off>>
  \/ /\ ~chain.log
     /\ off' = off \cup {e}
     /\ UNCHANGED <<rows, lost>>

Init ==
  /\ chain \in Chains /\ reloads = 0
  /\ kind = [e \in Exchanges |-> "none"]
  /\ pc = [e \in Exchanges |-> "idle"]
  /\ host = [e \in Exchanges |-> "none"]
  /\ tunnel = [e \in Exchanges |-> e]
  /\ action = [e \in Exchanges |-> ""]
  /\ forwarded = [e \in Exchanges |-> FALSE]
  /\ client = [e \in Exchanges |-> "none"]
  /\ rows = [e \in Exchanges |-> <<>>] /\ lost = {} /\ off = {}
  /\ judge = [e \in Exchanges |-> NoChain]

\* SIGHUP: BuildEgressChain and Swap.  A configuration that does not build
\* leaves the chain as it is.
Reload(c) ==
  /\ reloads < MaxReloads
  /\ c # chain
  /\ chain' = c
  /\ reloads' = reloads + 1
  /\ UNCHANGED <<origin, pc, action, forwarded, client, trail>>

-----------------------------------------------------------------------------
(* handleConnect and handleHTTP *)

\* A plain request without an absolute URI is answered before the chain is
\* asked, and leaves no row.
BadRequest(e) ==
  /\ "bad" \in Faults
  /\ pc[e] = "idle"
  /\ kind' = [kind EXCEPT ![e] = "http"]
  /\ client' = [client EXCEPT ![e] = "400"]
  /\ pc' = [pc EXCEPT ![e] = "done"]
  /\ UNCHANGED <<chain, reloads, host, tunnel, judge, action, forwarded, trail>>

\* A CONNECT or plain request is let through.
Accept(e, k, h) ==
  /\ pc[e] = "idle"
  /\ ~Refuses(chain, h)
  /\ ProcessRequest(e, h, "")
  /\ kind' = [kind EXCEPT ![e] = k]
  /\ pc' = [pc EXCEPT ![e] = IF k = "http" THEN "roundtrip" ELSE "accepted"]
  /\ UNCHANGED <<chain, reloads, tunnel, forwarded, client, trail>>

\* Fault: the handler goes on after a rejection.
Reject_GoesOn(e, k, h) ==
  /\ pc[e] = "idle"
  /\ Refuses(chain, h)
  /\ ProcessRequest(e, h, "")
  /\ kind' = [kind EXCEPT ![e] = k]
  /\ pc' = [pc EXCEPT ![e] = IF k = "http" THEN "roundtrip" ELSE "accepted"]
  /\ client' = [client EXCEPT ![e] = "403"]
  /\ UNCHANGED <<chain, reloads, tunnel, forwarded, trail>>

\* rejectConnect, rejectHTTP: the answer first, the row next.
Reject(e, k, h) ==
  /\ pc[e] = "idle"
  /\ Refuses(chain, h)
  /\ ProcessRequest(e, h, "")
  /\ kind' = [kind EXCEPT ![e] = k]
  /\ pc' = [pc EXCEPT ![e] = "after"]
  /\ client' = [client EXCEPT ![e] = "403"]
  /\ UNCHANGED <<chain, reloads, tunnel, forwarded, trail>>

\* The connection cannot be taken over: 500 where the server never allows it,
\* nothing where this attempt failed.
HijackFails(e) ==
  /\ "hijack" \in Faults
  /\ pc[e] = "accepted"
  /\ \E answer \in {"500", "none"} : client' = [client EXCEPT ![e] = answer]
  /\ pc' = [pc EXCEPT ![e] = "done"]
  /\ UNCHANGED <<chain, reloads, origin, action, forwarded, trail>>

\* "200 Connection established" goes out, then the way parts on shouldMITM.
Establish(e) ==
  /\ pc[e] = "accepted"
  /\ client' = [client EXCEPT ![e] = "established"]
  /\ pc' = [pc EXCEPT ![e] = IF host[e] \in MITMHosts THEN "handshake" ELSE "dial"]
  /\ UNCHANGED <<chain, reloads, origin, action, forwarded, trail>>

\* The client is gone before the 200, or does not complete the TLS handshake.
ClientFails(e) ==
  /\ "client" \in Faults
  /\ pc[e] \in {"accepted", "handshake"}
  /\ pc' = [pc EXCEPT ![e] = "after"]
  /\ UNCHANGED <<chain, reloads, origin, action, forwarded, client, trail>>

\* Fault: no afterRequest on this path.
DialFails_NoRow(e) ==
  /\ "dial" \in Faults
  /\ pc[e] \in {"dial", "handshake"}
  /\ pc' = [pc EXCEPT ![e] = "done"]
  /\ client' = IF pc[e] = "dial" THEN [client EXCEPT ![e] = "502"] ELSE client
  /\ UNCHANGED <<chain, reloads, origin, action, forwarded, trail>>

\* The upstream is not reached: a tunnel is told 502, a terminated one closed.
DialFails(e) ==
  /\ "dial" \in Faults
  /\ pc[e] \in {"dial", "handshake"}
  /\ pc' = [pc EXCEPT ![e] = "after"]
  /\ client' = IF pc[e] = "dial" THEN [client EXCEPT ![e] = "502"] ELSE client
  /\ UNCHANGED <<chain, reloads, origin, action, forwarded, trail>>

\* Bytes are piped both ways ...
Pipe(e) ==
  /\ pc[e] = "dial"
  /\ pc' = [pc EXCEPT ![e] = "piping"]
  /\ forwarded' = [forwarded EXCEPT ![e] = TRUE]
  /\ client' = [client EXCEPT ![e] = "response"]
  /\ UNCHANGED <<chain, reloads, origin, action, trail>>

\* ... until both sides have closed.
PipeEnds(e) ==
  /\ pc[e] = "piping"
  /\ pc' = [pc EXCEPT ![e] = "after"]
  /\ UNCHANGED <<chain, reloads, origin, action, forwarded, client, trail>>

\* A plain request fails upstream, possibly after it was sent.
RoundTripFails(e) ==
  /\ "dial" \in Faults
  /\ pc[e] = "roundtrip"
  /\ \E some \in BOOLEAN : forwarded' = [forwarded EXCEPT ![e] = some]
  /\ client' = [client EXCEPT ![e] = "502"]
  /\ pc' = [pc EXCEPT ![e] = "after"]
  /\ UNCHANGED <<chain, reloads, origin, action, trail>>

\* A plain request has its response, which is streamed to the client.
RoundTrip(e) ==
  /\ pc[e] = "roundtrip"
  /\ forwarded' = [forwarded EXCEPT ![e] = TRUE]
  /\ client' = [client EXCEPT ![e] = "response"]
  /\ pc' = [pc EXCEPT ![e] = "after"]
  /\ UNCHANGED <<chain, reloads, origin, action, trail>>

\* Fault: a tunnel goes on after a rejection inside it.
After_KeepsTunnel(e) ==
  /\ pc[e] = "after"
  /\ ProcessResponse(e)
  /\ pc' = [pc EXCEPT ![tunnel[e]] = "serving", ![e] = "done"]
  /\ UNCHANGED <<chain, reloads, origin, action, forwarded, client>>

\* afterRequest and the end of a rejection.  The handler is done, and with a
\* rejected inner exchange so is its tunnel.  An error is only logged.
After(e) ==
  /\ pc[e] = "after"
  /\ ProcessResponse(e)
  /\ pc' = [pc EXCEPT ![e] = "done", ![tunnel[e]] = "done"]
  /\ UNCHANGED <<chain, reloads, origin, action, forwarded, client>>

-----------------------------------------------------------------------------
(* handleMITM *)

\* Both TLS handshakes are done.
Serve(c) ==
  /\ pc[c] = "handshake"
  /\ kind' = [kind EXCEPT ![c] = "mitm"]
  /\ pc' = [pc EXCEPT ![c] = "serving"]
  /\ UNCHANGED <<chain, reloads, host, tunnel, judge, action, forwarded, client, trail>>

\* The client closes the tunnel between two requests.
TunnelEnds(c) ==
  /\ pc[c] = "serving"
  /\ pc' = [pc EXCEPT ![c] = "done"]
  /\ UNCHANGED <<chain, reloads, origin, action, forwarded, client, trail>>

\* Fault: the next request is read before this one is answered.
AcceptInner_Pipelined(c, e) ==
  /\ pc[c] = "serving" /\ pc[e] = "idle"
  /\ ~Refuses(chain, host[c])
  /\ ProcessRequest(e, host[c], action[c])
  /\ kind' = [kind EXCEPT ![e] = "inner"]
  /\ tunnel' = [tunnel EXCEPT ![e] = c]
  /\ pc' = [pc EXCEPT ![e] = "replay"]
  /\ UNCHANGED <<chain, reloads, forwarded, client, trail>>

\* A request is read from the tunnel and let through.  It starts out with the
\* decision of its CONNECT.
AcceptInner(c, e) ==
  /\ pc[c] = "serving" /\ pc[e] = "idle"
  /\ ~Refuses(chain, host[c])
  /\ ProcessRequest(e, host[c], action[c])
  /\ kind' = [kind EXCEPT ![e] = "inner"]
  /\ tunnel' = [tunnel EXCEPT ![e] = c]
  /\ pc' = [pc EXCEPT ![e] = "replay", ![c] = "busy"]
  /\ UNCHANGED <<chain, reloads, forwarded, client, trail>>

\* Its body cannot be read: the chain never sees it and the tunnel is closed.
BodyFails(c, e) ==
  /\ "inner" \in Faults
  /\ pc[c] = "serving" /\ pc[e] = "idle"
  /\ kind' = [kind EXCEPT ![e] = "inner"]
  /\ host' = [host EXCEPT ![e] = host[c]]
  /\ tunnel' = [tunnel EXCEPT ![e] = c]
  /\ action' = [action EXCEPT ![e] = action[c]]
  /\ pc' = [pc EXCEPT ![e] = "done", ![c] = "done"]
  /\ UNCHANGED <<chain, reloads, judge, forwarded, client, trail>>

\* It is refused on the TLS channel.
RejectInner(c, e) ==
  /\ pc[c] = "serving" /\ pc[e] = "idle"
  /\ Refuses(chain, host[c])
  /\ ProcessRequest(e, host[c], action[c])
  /\ kind' = [kind EXCEPT ![e] = "inner"]
  /\ tunnel' = [tunnel EXCEPT ![e] = c]
  /\ pc' = [pc EXCEPT ![e] = "after", ![c] = "busy"]
  /\ client' = [client EXCEPT ![e] = "403"]
  /\ UNCHANGED <<chain, reloads, forwarded, trail>>

\* Writing it upstream, or reading the response, fails: the tunnel is closed.
ReplayFails(e) ==
  /\ "inner" \in Faults
  /\ pc[e] = "replay"
  /\ \E some \in BOOLEAN : forwarded' = [forwarded EXCEPT ![e] = some]
  /\ pc' = [pc EXCEPT ![e] = "done", ![tunnel[e]] = "done"]
  /\ UNCHANGED <<chain, reloads, origin, action, client, trail>>

\* It has been sent and its response read.
Replay(e) ==
  /\ pc[e] = "replay"
  /\ forwarded' = [forwarded EXCEPT ![e] = TRUE]
  /\ pc' = [pc EXCEPT ![e] = "log"]
  /\ UNCHANGED <<chain, reloads, origin, action, client, trail>>

\* ProcessResponse comes before the answer here; its error is only logged.
LogInner(e) ==
  /\ pc[e] = "log"
  /\ ProcessResponse(e)
  /\ pc' = [pc EXCEPT ![e] = "answer"]
  /\ UNCHANGED <<chain, reloads, origin, action, forwarded, client>>

\* Fault: afterRequest at the end of the loop as well.
Answer_AfterRequest(e) ==
  /\ pc[e] = "answer"
  /\ client' = [client EXCEPT ![e] = "response"]
  /\ pc' = [pc EXCEPT ![e] = "after"]
  /\ UNCHANGED <<chain, reloads, origin, action, forwarded, trail>>

\* The response goes to the client, and the tunnel on or down.
Answer(e) ==
  /\ pc[e] = "answer"
  /\ client' = [client EXCEPT ![e] = "response"]
  /\ \E next \in {"serving", "done"} :
       pc' = [pc EXCEPT ![e] = "done", ![tunnel[e]] = next]
  /\ UNCHANGED <<chain, reloads, origin, action, forwarded, trail>>

\* The client is gone.
AnswerFails(e) ==
  /\ "client" \in Faults
  /\ pc[e] = "answer"
  /\ pc' = [pc EXCEPT ![e] = "done", ![tunnel[e]] = "done"]
  /\ UNCHANGED <<chain, reloads, origin, action, forwarded, client, trail>>

-----------------------------------------------------------------------------
Terminated == (\A e \in Exchanges : pc[e] = "done") /\ UNCHANGED vars

Outer(e) ==
  \/ \E k \in {"http", "connect"}, h \in Hosts : Accept(e, k, h) \/ Reject(e, k, h)
  \/ BadRequest(e) \/ HijackFails(e) \/ Establish(e) \/ ClientFails(e)
  \/ DialFails(e) \/ Pipe(e) \/ PipeEnds(e)
  \/ RoundTripFails(e) \/ RoundTrip(e)
  \/ After(e)

Inner(e) ==
  \/ Serve(e) \/ TunnelEnds(e)
  \/ \E c \in Exchanges : AcceptInner(c, e) \/ RejectInner(c, e) \/ BodyFails(c, e)
  \/ ReplayFails(e) \/ Replay(e) \/ LogInner(e) \/ Answer(e) \/ AnswerFails(e)

Next ==
  \/ \E e \in Exchanges : Outer(e) \/ Inner(e)
  \/ \E c \in Chains : Reload(c)
  \/ Terminated

Spec == Init /\ [][Next]_vars

-----------------------------------------------------------------------------
(* Properties *)

\* Every variable has its type.
TypeOK ==
  /\ chain \in Chains /\ reloads \in Nat
  /\ kind \in [Exchanges -> {"none", "http", "connect", "mitm", "inner"}]
  /\ pc \in [Exchanges -> Places]
  /\ host \in [Exchanges -> Hosts \cup {"none"}]
  /\ tunnel \in [Exchanges -> Exchanges]
  /\ action \in [Exchanges -> {"", "allow", "warn", "block"}]
  /\ forwarded \in [Exchanges -> BOOLEAN]
  /\ client \in [Exchanges -> {"none", "established", "400", "403", "500", "502", "response"}]
  /\ rows \in [Exchanges -> Seq({"allow", "warn", "block"})]
  /\ lost \subseteq Exchanges /\ off \subseteq Exchanges
  /\ judge \in [Exchanges -> Chains \cup {NoChain}]

Refused(e) == client[e] = "403"

\* The answer, the upstream and the trail agree on a refusal, whatever is
\* reloaded or fails in between: what was refused never reached the upstream,
\* its row says "block", and no other row does (rejectConnect, rejectHTTP, the
\* refusal in handleMITM).
RefusedStaysInside ==
  \A e \in Exchanges :
    /\ Refused(e) => ~forwarded[e]
    /\ \A i \in DOMAIN rows[e] : (rows[e][i] = "block") <=> Refused(e)

\* No request is audited twice, and none is more than one of audited, reported
\* lost and handed to a chain without audit log, on any path through the
\* handlers.
AtMostOneRow ==
  \A e \in Exchanges :
    /\ Len(rows[e]) <= 1
    /\ e \in lost => rows[e] = <<>> /\ e \notin off
    /\ e \in off => rows[e] = <<>>

\* A terminated tunnel serves its requests "one at a time over the same TLS
\* session": two exchanges of one tunnel are never open together, and the
\* tunnel waits while one is.
Open(e) == kind[e] = "inner" /\ pc[e] # "done"

OneAtATime ==
  \A e, other \in Exchanges :
    Open(e) =>
      /\ pc[tunnel[e]] = "busy"
      /\ (Open(other) /\ tunnel[other] = tunnel[e]) => other = e

\* After a refusal inside it a tunnel carries nothing more: it only closes.
RefusalEndsTunnel ==
  [][\A e \in Exchanges :
       (kind[e] = "inner" /\ Refused(e)) =>
          \A other \in Exchanges :
             (tunnel[other] = tunnel[e] /\ other # e) =>
                /\ forwarded'[other] = forwarded[other]
                /\ pc'[tunnel[e]] \in {"busy", "done"}]_vars

\* The row says what was decided on the request: by the policy that judged it,
\* or, for a decrypted request that was let through, by the one that let its
\* tunnel through, whatever has been reloaded since (PolicyMiddleware, the
\* decision handleMITM hands on).
Verdict(c, h) == IF Violates(c, h) THEN c.mode ELSE "allow"

RowTellsDecision ==
  \A e \in Exchanges : \A i \in DOMAIN rows[e] :
    rows[e][i] \in {Verdict(judge[e], host[e]), Verdict(judge[tunnel[e]], host[e])}

\* The strengthening of the properties above that every step keeps.  An
\* exchange is where its kind can be; a tunnel is busy with at most one open
\* exchange and down after a refused one; no row is written before the end;
\* an action is "block" exactly on what was refused and not forwarded; and it
\* is a decision of one of the two policies, which the row repeats.
Fits(k, p) ==
  \/ k = "none" /\ p = "idle"
  \/ k = "http" /\ p \in {"roundtrip", "after", "done"}
  \/ k = "connect" /\ p \in {"accepted", "handshake", "dial", "piping", "after", "done"}
  \/ k = "mitm" /\ p \in {"serving", "busy", "done"}
  \/ k = "inner" /\ p \in {"replay", "log", "answer", "after", "done"}

KindFits ==
  \A e \in Exchanges :
    /\ Fits(kind[e], pc[e])
    /\ kind[e] # "inner" => tunnel[e] = e
    /\ kind[e] = "inner" => kind[tunnel[e]] = "mitm"

TunnelFits ==
  /\ OneAtATime
  /\ \A e \in Exchanges :
       (kind[e] = "inner" /\ Refused(e) /\ pc[e] = "done") => pc[tunnel[e]] = "done"

RowsFit ==
  \A e \in Exchanges :
    pc[e] \notin {"answer", "done"} => rows[e] = <<>> /\ e \notin lost /\ e \notin off

RefusalFits ==
  \A e \in Exchanges :
    /\ Refused(e) <=> action[e] = "block"
    /\ Refused(e) => pc[e] \in {"after", "done"}
    /\ pc[e] = "idle" => ~forwarded[e]

DecisionFits ==
  \A e \in Exchanges :
    /\ host[tunnel[e]] = host[e]
    /\ RowAction(e) \in {Verdict(judge[e], host[e]), Verdict(judge[tunnel[e]], host[e])}
    /\ \A i \in DOMAIN rows[e] : rows[e][i] = RowAction(e)

ProxyInv ==
  TypeOK /\ KindFits /\ TunnelFits /\ RowsFit /\ RefusalFits /\ DecisionFits
         /\ RefusedStaysInside /\ AtMostOneRow

Recorded(e) == rows[e] # <<>> \/ e \in lost

\* The client knows how its request went, or that its tunnel stands.
Told(e) == client[e] \in {"established", "403", "502", "response"}

\* The chain has been asked to log, or has no log.
Settled(e) == Recorded(e) \/ e \in off

\* A client that was told how its request went, or that its tunnel stands, and
\* an upstream that was reached by a plain request or a tunnel, leave a row, a
\* reported loss, or met a chain without audit log: on every path through
\* handleConnect, handleHTTP and handleMITM, whatever fails or is reloaded.  A
\* terminated tunnel is no request of its own: the ones inside it are.
EveryAnswerLands ==
  \A e \in Exchanges :
    (/\ pc[e] = "done" /\ kind[e] # "mitm"
     /\ Told(e) \/ (forwarded[e] /\ kind[e] # "inner")) => Settled(e)

\* The README's "Every request lands in egress_logs", of the requests that
\* reached their upstream while the audit log was on.
EveryRequestLands ==
  \A e \in Exchanges :
    (pc[e] = "done" /\ kind[e] # "mitm" /\ forwarded[e]) => Settled(e)

\* The README's claim of policy_mode block: a failed write answers 503
\* "rather than proceeding un-logged".
FailClosed ==
  \A e \in Exchanges :
    (e \in lost /\ judge[e].mode = "block") => client[e] # "response"
=============================================================================
