# A TLA+ model of shield-agent

shield-agent sits between AI agents and the services they call. On the ingress
side it authenticates, limits and logs the JSON-RPC, A2A and HTTP requests that
agents send to a server; on the egress side it is a forward proxy that decides
which outbound calls an agent may make and keeps a hash-chained audit log of
them. This directory models the parts of it whose correctness depends on order,
concurrency, failure or restart.

Paths below are relative to the repository (`internal/...`, `cmd/...`).

## 1. Inventory

| component | state | operations | what makes it correct | model |
|---|---|---|---|---|
| egress log writer (`compliance/log_writer.go`) | bounded channel, one writer goroutine, `done` | Enqueue, EnqueueSync, Close, write with retries | every accepted row is written once, in order, or reported; Close drains; callers get true answers and always get out | `EgressAudit` |
| hash chain (`compliance/hashchain.go`) | in-memory tail under a mutex | NewHashChain, ComputeRow, Verify | the stored rows form one chain; Verify accepts it, and rejects it when a row is missing | `EgressAudit`, `EgressStore` |
| egress store (`storage/egress.go`) | `egress_logs`, `egress_log_anchors` | insert, newest hash, scan, purge with anchor | a purge removes a prefix and leaves the rest verifiable | `EgressStore` |
| egress proxy, chain, policy (`egress/`, `compliance/policy.go`) | one handler per connection, the current chain | CONNECT, MITM, plain HTTP, rejection, Swap | whoever is told how a request went leaves at most one row, which tells the decision, or a reported loss; refusals never reach the upstream | `EgressProxy` |
| ingress chain (`middleware/registry.go`, `middleware.go`) | the current chain, its closer | BuildChain, ProcessRequest, Swap | a request finds a chain that is complete and open | `IngressLog`, `Admin` |
| ingress log (`middleware/log.go`) | pending map, channel, writer | ProcessRequest, ProcessResponse, Close | a response is logged with its own request's method; what was accepted is inserted | `IngressLog` |
| telemetry (`telemetry/collector.go`) | ring buffer | Record, flush, send, Run | newest events in order, nothing sent twice | `Telemetry` |
| keys (`auth/`, `middleware/auth.go`) | key file, `agent_keys`, TTL cache | PublicKey, decision by mode | freshness bound; closed mode lets only verified requests in | `AgentKeys`, `Admission` |
| tokens (`middleware/token.go`, `token/store.go`) | `tokens`, `token_usage` | look up, count, record, create, revoke | the quota is exceeded only by requests that overlap; only admitted requests are charged | `Tokens`, `Admission` |
| guard (`middleware/guard.go`) | buckets, failure records | allow, record failure, clean up | limits hold per window; a block is earned, and only a failure can lift it early | `Guard` |
| reputation (`reputation/`) | score table, cache | recalculate, report, warm start | the cache follows the log | `Reputation` |
| transports, router (`transport/proxy/`) | SSE sessions, table of upstreams | handleSSE, handleMessages, Match, protocol detection | events arrive whole and in order, endpoints with or without a URL; sessions end; a post goes to its session | `Gateway` |
| process runner (`process/`, `runner_middleware.go`) | child, pipes, two goroutines | copy, intercept, signal, wait | lines in order, never inside each other, none cut but a last one of a child that has gone; each forwarded or refused; the run ends | `StdioRunner` |
| storage (`storage/db.go`) | `schema_versions`, the file | Open, migrate | who has it open has the whole schema, whoever else was opening it | `Schema` |
| web UI (`webui/api.go`), configuration | password, sessions, toggles, upstreams | login, change, toggle, edit; start and reload | toggles survive restarts and mean what is shown; a generated password must be changed | `Admin` |
| digest, export (`compliance/digest.go`, `export.go`) | ticker, digest file | Run, Stop, writeOnce | a digest describes a state the log was in | not modelled |
| monitor, certificates, PII, tags, provider tables, A2A and HTTP middlewares, packaging | small | | | not modelled (section 6) |

How they interact. A handler of the egress proxy calls the egress chain, whose
last member hashes a row with the shared HashChain and hands it to the shared
LogWriter; both outlive a SIGHUP, which only replaces the chain. The writer's
goroutine is the only one that inserts into `egress_logs`; `LastEgressRowHash`
seeds the chain once at start, after the retention sweep. On the ingress side a
handler reads the current chain once per message and passes auth, guard, token
and log in that order; SIGHUP builds a new chain with state of its own (pending
map, channel, key cache, buckets) and closes the old one's log. The web UI edits
keys, tokens, upstreams and toggles in the database, which all processes of the
host share; requests and starts read them back. At exit the HTTP server stops
first, then the deferred closers run.

Hard behaviours: handlers that overlap between two steps (hash and send, count
and record, look-up and use); Close against senders; retries; crash with a
non-empty queue; retention against chain order; reload under load; caches
against the database; processes that migrate one file at the same time; a client,
an upstream, a handler and a reader that leave a session in any order; a child
that exits while messages are on their way. `PROJECT.json` lists each at its line
under `hazards`.

## 2. Modules

| module | what it is |
|---|---|
| `EgressStore` | pure operators: the SQL of `storage/egress.go` and `HashChain.Verify` on given table contents |
| `AuditLog` | the abstract promise: a hash-linked list that grows at one end by one entry and loses a prefix at the other |
| `EgressAudit` | the pipeline: handlers, HashChain, LogWriter, tables, process life cycle; shown to implement `AuditLog` |
| `EgressProxy` | the request path: CONNECT, terminated tunnels, decrypted requests and plain HTTP over a chain that SIGHUP replaces |
| `Telemetry` | the collector's ring and the goroutines that empty it |
| `IngressLog` | extends `Telemetry`: requests, chains and reload, the log middleware of each chain, the end of the process |
| `AgentKeys` | key file, `agent_keys`, the key store and cache of each chain |
| `Tokens` | `tokens`, `token_usage`, the token middleware's statements one by one |
| `Admission` | extends `AgentKeys` and `Tokens`: how a request gets past the door, over reloads |
| `Reputation` | scores, recalculators, reports, cache |
| `Guard` | extends `Reputation`: rate limit and brute force protection, whose limit the cached score scales |
| `Gateway` | router, dispatch by protocol, SSE sessions and posts |
| `StdioRunner` | stdio mode: both pipelines, the child, signals, the joins |
| `Schema` | several processes that open and migrate one database |
| `Admin` | extends `Schema`: the life of a process, chains from files and toggles, password, sessions, upstreams |
| `MC...` | the instances for TLC, one module for each of the eight above that runs |
| `...Proofs` | the theorems: `EgressAuditProofs`, `EgressProxyProofs`, `IngressLogProofs`, `AdmissionProofs`, `GuardProofs`, `GatewayProofs`, `StdioRunnerProofs`, `AdminProofs` |

Where a module extends another one, the steps of the latter are conjoined with
what the surroundings do at that moment and with the guard that says when they
may come: a handler of `IngressLog` calls `Record` of `Telemetry` at the line
where the code does, `Admission` enters `Tokens` only past the signature check,
a process of `Admin` is in `Schema`'s steps only while it is opening. The two
egress modules meet in one step: `ProcessResponse` of `EgressProxy` is, from the
outside, what `EgressAudit` does between `ComputeRow` and the answer of the
writer. `EgressProxy` asks which requests get there, with which decision;
`EgressAudit` asks what becomes of the rows.

Each module has variables that no action reads (marked "history"): what was
sent, admitted, failed, toggled. Properties compare the state with them.

### EgressAudit against the code

| model | code |
|---|---|
| `rows`, `lastRowId`, `anchors` | `egress_logs`, its AUTOINCREMENT value, `egress_log_anchors` |
| `tail` | `HashChain.prevHash` |
| `queue` | `LogWriter.writeCh` |
| `hand`, `attempt` | the job `handleJob` is working on and how often it failed |
| `ack` | the job's `ackCh` |
| `phase` | process down; up; `done` closed; writer goroutine gone |
| `pc[r]` | where handler `r` is in `ProcessResponse`/`Enqueue`/`EnqueueSync` |
| `clock`, `ts` | the time, counted in requests; `req.StartedAt` |
| `computed`, `sent`, `dropped`, `purged`, `overtaken` | history: no action reads them |

The actions follow the code's atomic steps. `ComputeRow` is the critical section
of `HashChain.ComputeRow`; `CheckDone` is the first select of `Enqueue`, `Send`,
`RefuseClosed` and `Cancel` are the cases of the second, because the state can
change between the two. `Receive`, `InsertOk`, `InsertRetry` and `GiveUp` are the
writer goroutine's; `CloseWriter` and `WriterReturns` are `Close` and the end of
the drain loop. `Boot` is `PurgeEgress`, `NewHashChain` and `NewLogWriter` in one
step, for nothing else touches the database before the listener starts. `Exit`,
`Crash` and `ReturnEarly` lose everything but the database.

A row is `overtaken` when another one that was hashed after it is sent and it is
not: its handler is between the two steps, or its caller has given up. `dropped`
are the rows the writer gave up on after all its attempts. These two say what can
go wrong with the chain short of a sweep.

A request is one call of `ProcessResponse` and its row is identified by the
request. A hash is the sequence of requests it commits to, so two rows have
equal hashes exactly when SHA-256 would make them equal. Row contents that no
property tells apart (host, method, sizes, latency) are part of that identity.

`PolicyModes` is the set of modes the chain is built with: a row logged in
`block` mode goes through `EnqueueSync` and waits for its answer, one logged in
`warn` mode through `Enqueue`. A reload can change the mode, so both may be in
use in one process.

### EgressProxy against the code

| model | code |
|---|---|
| `chain` | `SwappableEgressChain.chain`: is the policy on, is the audit log on, `policy_mode`, which destinations `allowed` accepts |
| `kind[e]` | which handler has the exchange: `handleHTTP`, `handleConnect`, `handleMITM`'s tunnel, one turn of its loop |
| `pc[e]` | where in that handler it is |
| `tunnel[e]` | for a turn of the loop the tunnel it was read from |
| `host[e]`, `action[e]` | `req.Host`, `req.PolicyAction` |
| `forwarded[e]` | the upstream may have received some of it |
| `client[e]` | the last thing the client was told |
| `rows[e]`, `lost` | the audit rows of the exchange; those whose write failed |
| `judge` | history: the chain that judged the request |

`Accept` and `Reject` stand for `ProcessRequest` at the head of `handleConnect`
and `handleHTTP`. A refused CONNECT or plain request is answered
first and recorded in a step of its own (`After`), so a reload can come between.
`AcceptInner`, `RejectInner` and `BodyFails` are the head of the loop in
`handleMITM`, `Replay`, `LogInner` and `Answer` the rest of it in the code's
order: there the row is written before the client has its response.
Each early return has its action: `BadRequest` (no absolute URI: answered 400
before the chain is asked, and no row), `HijackFails`, `ClientFails`, `DialFails`,
`RoundTripFails`, `BodyFails`, `ReplayFails`, `AnswerFails`.

`Reload` is `BuildEgressChain` and `Swap`; a configuration that does not build
changes nothing. Middlewares that neither refuse nor have an effect outside the
request (compliance, PII scrubbing, content tags) are left out, as is the dialer's
address guard, which looks to the handler like an upstream that is not reached.
The host names themselves are not modelled: a chain is given by the set of hosts
that its list accepts.

### IngressLog and Telemetry against the code

| model | code |
|---|---|
| `chain`, `config[g]` | `SwappableChain.chain`; the middlewares chain g was built with |
| `pending[g]`, `queue[g]`, `closed[g]` | `LogMiddleware.pending`, `writeCh`, and whether it has been closed |
| `hand[g]` | the entry that the writer goroutine of g is inserting |
| `process`, `oldCloser`, `swapped` | `runProxy` up, returning, returned; the closer that the next SIGHUP calls; between Swap and that call |
| `via[r]` | the chain a handler has read for the message in hand: one read for the request, another for each answer |
| `async` | the goroutines of `logRequest` (A2A and plain HTTP) |
| `ring`, `head`, `count` | the fields of `Collector` |
| `tpc[p]`, `batch[p]` | `Record`'s flush and `Run`'s, between the critical section and the POST |

`CloseChain` closes a channel that may be closed already: the process then
crashes, as Go does, and everything in memory is gone. So does a handler that
sends on a closed channel. `Refuse` is what answers without the upstream: the
chain's refusal, the 401 of `checkAuth` and a body that cannot be read, of which
only the chain can have logged the request. Ids are chosen by the clients: two requests may have
the same one, and the pending map keeps the later request.

### AgentKeys, Tokens and Admission against the code

| model | code |
|---|---|
| `keysFile`, `fileKeys[g]` | the file on disk, and what `FileKeyStore` of chain g has read |
| `agentKeys` | table `agent_keys` |
| `cache[g]` | `CachedKeyStore.cache`, failures included; expiry 0 is no entry |
| `clock`, `now` | time, one clock in `Admission` |
| `tokens`, `usage` | the tables; a row of `usage` is identified by its request |
| `upc[u]` | which of `ProcessRequest`'s statements is next: look-up, hourly count, monthly count, record |
| `via[u]`, `status[u]` | the chain the request has read; `AuthResult.Status` |

The first chain looks into the file and then the table, a chain built by a reload
into the file alone, and `checkAuth` keeps the mode and key store of the start:
so the code does (`cmd/shield-agent/proxy.go:191-215`), and the actions say it.
Signatures verify or do not; base58, DID parsing and payloads are left out.
`usage` loses the record of a request whose INSERT fails, which is only logged.

### Guard and Reputation against the code

| model | code |
|---|---|
| `buckets`, `failures` | the two maps, by method; each action is one critical section |
| `gpc[r]`, `limit[r]` | where in `ProcessRequest` a request is; the limit it has worked out from the multiplier |
| `conduct` | what the SQL over `action_logs` would return for the last hours |
| `table`, `scores` | `reputation_scores`, the cache |
| `rpc[p]`, `computed[p]` | a recalculation: read, saved, cached; the loop and requests to `/api/reputation/recalculate` overlap |

The score is computed as `scorer.go` does with the default weights, in units of
10^-6. A failure that comes after the window of its record replaces the record and
the block in it, as in the code (`guard.go:323-326`). `RecordFailure` is modelled with the bookkeeping it keeps; no middleware
of the repository calls it yet, so its run drives it directly.

### Gateway against the code

| model | code |
|---|---|
| `Match`, `Found`, `Matches` | `Router.Match` and its four passes |
| `Dispatch`, `DetectedMCP`, `Stripped` | `ProtocolAwareHandler.ServeHTTP`, the muxes, path stripping |
| `spc[s]` | `handleSSE`: connecting, relaying, done closed, session removed, body closed |
| `events[s]`, `url[s]` | `session.events`, `upstreamMsgURL` |
| `reader[s]`, `carry[s]` | the goroutine that scans the upstream's stream, the event it is sending |
| `ppc[p]`, `to[p]` | `handleMessages`: look-up, URL, chain; the URL it read |

Events are of four kinds: an endpoint, an endpoint without data (`"nowhere"`: the
URL stored is empty, and the client is told all the same, `sse.go:128-146`), other
events with data and without. `DetectedMCP` depends on the kind of a message, which
stands for headers and body together: `DetectProtocol` looks at two headers first and
then at the body, and the answer is MCP or not.

### StdioRunner against the code

`pc["in"]` and `pc["out"]` are `PipelineIn` and `PipelineOut`; `main` is
`RunWithMiddleware` after it has started both: `Wait`, which closes our ends of
the pipes, then `waitForDone` for one and the other. `calls` are the calls of
`Write` on standard output that a goroutine has still to make; each is atomic,
as the file's lock makes it. A line too long for the scanner ends its goroutine.

A reader that reaches the end of its pipe within a line gets what there is of it as
a last line (`parser.go:75`, `bufio.Scanner`). `cut` says of each side which line
that is: a client or child that goes while it is writing (`ClientCloses`,
`ChildStops`), or our own close of the pipe by Wait (`ReadOutCut`). Such a line is no
JSON, so it is relayed as it is, as `"torn"`. `WriteFails` is standard output being
closed: `PipelineOut` ends (`pipeline.go:96, 116`), `PipelineIn` looks away
(`pipeline.go:49`). `PipelineOut` also drops a response that the chain's
`ProcessResponse` refuses (`pipeline.go:102-109`); no middleware of the repository
returns that error, and the step is left out.

### Schema and Admin against the code

| model | code |
|---|---|
| `applied`, `recorded` | what the statements of migrations have done; `schema_versions` |
| `db[p]`, `next[p]` | where process p is in `Open`/`migrate` |
| `life[p]` | `runProxy`, `runWrapper` from `initFromFlags` to the end |
| `cfg[p]`, `chain[p]` | `cfg.Middlewares`; the names of the chain in use |
| `hash`, `force`, `saved` | rows of `admin_config`: `password_hash`, `force_change`, `middleware_enabled_<name>` |
| `sessions[p]` | the map of the web UI, which is in memory and has no lock |
| `call[c]` | a request: log in, change the password, toggle, edit upstreams; a statement per step |

A migration's statements are one step, its record in `schema_versions` another,
for each is executed on its own. The new password may be any word, the default one
included, as in `api.go:149-162`. `Clash` is the runtime ending a process in which
two handlers are at the map of sessions, one of them writing. Errors that the
code does not look at are faults of the model that leave the row as it was.

## 3. Runs

`Settings` of an MC module is a set of scenarios; `Init` picks one, so one run
covers them all. Bounds are named in the CONSTANTS of each module.

| run | instance | shows |
|---|---|---|
| `audit_trail` | 3 requests, all overlapping, queue of 2, 2 attempts, both modes, 3 boots, 2 sweeps, every fault: cancellation, failing inserts, crashes, an early return, sweeps that leave nothing | rows stored at most once; true answers; order and no loss while the process lives; a passing Verify leaves no gap; no fork; `EgressAudit` implements `AuditLog`; the log verifies |
| `audit_liveness` | 2 requests, queue of 1, both modes, cancellation, failing inserts, Close, fairness | a handler always gets out; a queued row is settled |
| `proxy_faults` | 3 exchanges, 1 reload, every fault, configurations with and without policy and audit log | refusals stay inside and are recorded as such; no double row; rows tell the decision; who is told leaves a row or a reported loss; one request at a time in a tunnel and none after a refusal |
| `ingress_log` | six scenarios: 2 overlapping calls through the log with a reload and an exit, or failing inserts, or a notification; every kind of message with two answers each; 3 requests against a full ring of 2; failing posts and an exit; fairness | accepted entries are inserted once and in order over reloads; table and telemetry agree; entries name their request; the ring is right; logs, handlers and ring come to rest |
| `admission` | four scenarios over 3 units of time, 2 chains: keys that come and go with TTL 2; every credential at every mode; 3 requests on one token; 2 that must sign first | closed means signed with a fresh key; caches are fresh; overruns are overlaps; only admitted requests are charged |
| `guard` | four scenarios over 5 units of time: reputation alone with 2 recalculators, a report and a restart; a request while it changes; 3 requests and the cleanups; 4 failures and a request | at most two windows' worth in one window; blocks earned, and lifted early by a late failure only; the cache catches up |
| `gateway` | five scenarios: a stream of 3 events of any kind with a channel of 1, two posts on one session, two sessions among five upstreams, a session behind a path, GETs that find no SSE; fairness | priority of matches; events whole and in order; a client that was told is too early only if its upstream named no URL; the hint keeps posts in their session; everything ends |
| `runner` | four scenarios: more messages both ways than pipes of 1 hold with a child that exits any time, within a line too; an interrupt; lines too long on either side; writes that fail; fairness | lines not mixed, each message forwarded or refused, output in order, the run winds down |
| `admin` | six scenarios, 2 processes, 1 fault: databases of five releases opened at once; the password over 3 starts; a toggle of an unknown name; of the token middleware, beside a process that cannot build it; a reload of another file; upstreams | a migrated schema; the generated password must be changed; toggles are kept |

Why these are enough. Three audit requests are enough for one row in the writer's
hands, one in the queue and one between hash and send, or for two senders against
a full queue; three boots give a row after a sweep after a restart with rows of the
earlier process, twice, and the second sweep can take what the first left. Three
exchanges are a tunnel and two requests in it; exchanges that share no tunnel share
nothing but the chain. Two calls are what a pending map needs to mix up, one reload gives each
a chain before and after, and a channel of one is full with one entry. A ring of
two wraps with three events. Two chains are the one of the start and one of a
reload, which is all that differs. A limit of 1 and a window of 2 put three
requests across a window's boundary. A channel of one and three events fill it
with one on the way. Two processes are what a migration needs to be raced. The
theorems of section 4 take most of these properties to all sizes.

Deadlock is checked in the egress runs, whose specifications say when the system
is done. It is not in `ingress_log`, `admission`, `guard`, `gateway`, `runner` and
`admin`: there the requests may be over, or the process down for good.

Three runs expect a violation, of a statement of the repository:

| run | statement | what happens |
|---|---|---|
| `audit_hash_order` | `hashchain.go:44-46`: an ordering "that matches what the writer goroutine will see" | A hashes, B hashes, B sends, A sends: the table is out of chain order and Verify rejects it |
| `audit_purge_verify` | `README.md:342`: "old rows can be deleted while keeping the chain verifiable" | a long request begins before the cutoff and ends after a newer one; the sweep deletes by the beginning (`storage/egress.go:322`), so its row goes although an older id stays; the anchor names the wrong row and Verify rejects the log, in which nothing was lost or overtaken |
| `guard_block` | `guard.go:38`: `BruteForceBlockDur`, "how long to block (default 10m)" | a failure that comes after the failure window (5m by default) replaces the record, its block included (`guard.go:323-326`): the method is free before its time |

### What the properties except

A property says on its face what it excepts; the run has the excepted steps in it.

- `ChainVerifies` and `ImplementsAuditLog` say nothing once a row has been overtaken
  or given up on. That includes a row whose caller cancelled it between hash and
  send: the tail has moved past it, and Verify finds a gap.
- `ChainVerifies` excepts a log that was swept twice, for the second sweep deletes
  the row that the first anchor names and the verifier never passes the first anchor
  (`hashchain.go:137`; `README.md:293` shows a log with two anchors that verifies);
  bare, for `next_row_id` is then -1 (`storage/egress.go:304`), which no later row
  matches; or in the middle, as in `audit_purge_verify` (`SweptOnce`).
- `ImplementsAuditLog` excepts a sweep that takes a row and leaves an older one
  (`SweepsOldest`); sweeps by and by, and bare ones, are in it.
- `NoFork` excepts a table with an overtaken row: a restart continues the newest
  row, which is then not the chain's last.
- `EveryAnswerLands` is about plain requests, tunnels and requests inside a tunnel
  whose client was told something; `EveryRequestLands` below is the stronger promise.
- `LogInv` allows a process to crash on a closed channel and an entry to be dropped
  at a full one: the first is listed below, the second is intended.
- `RunWindsDown` excepts a run that waits for a client which neither writes nor
  closes its end.
- `DefaultMustBeChanged` excepts two starts that set the first password together
  (one can put the default back after the other's was changed), a COUNT that failed
  beside a password (`api.go:86` takes it for none), a change whose first statement
  is lost, and a start that is killed before, or loses, its second statement: then
  nobody is asked to change the default. `AdminInv` excepts faults and company for
  "a lone start opens": a crash between a migration's ALTER TABLE and its record
  makes the next start fail.
- `ShownIsSaved` excepts a name that two requests or processes were at (`contested`).

### Statements the code does not keep

Each definition is in its module and gives a counterexample in the named `.cfg`
when it is put there in place of the properties.

- `DroppedRowShows` in `audit_trail`: `log_writer.go:207-209`, "a dropped row still
  shows up in the verifier as a gap": when the newest row is dropped and the process
  restarts, the chain reseeds from the table and there is no gap.
- `DrainedOnExit` in `audit_trail`: `log_writer.go:179-181`, "in-flight queue is
  drained": a sender between its two selects wins the send after the writer has
  returned (`Send` after `WriterReturns`). `QueuedRowSettles` is about rows that are
  in the channel while the writer runs, and does not see such a row.
- `QueuedRowSettles` in `audit_liveness` with the fault `"early_return"`: `runProxy`
  returns as soon as `ListenAndServe` does (`cmd/shield-agent/proxy.go:345`), without
  waiting for the egress stopper.
- `EveryRequestLands` in `proxy_faults`: `README.md:282`, "Every request lands in
  `egress_logs`": a decrypted request that was forwarded, and whose response cannot
  be read, has no row (`egress/proxy.go:346`).
- `FailClosed` in `proxy_faults`: `README.md:340`, a failed write answers 503 "rather
  than proceeding un-logged": after a decrypted or plain request the client has its
  response when the write is tried.
- `ExitCodePropagates` in `runner`: `README.md:122`, "propagates exit codes": the run
  waits for a client that neither writes nor closes its end
  (`runner_middleware.go:104-110`); `RunEnds` says what does hold.
- `PostsReachTheirSession` in `gateway`: `sse.go:22-24`, posts are forwarded to the
  upstream's messages: a post is routed by its own path and dispatched by its body;
  `HintKeepsSession` says what does hold.
- A reload and then an exit close the first chain's channel twice
  (`cmd/shield-agent/proxy.go:176`), and a handler may send on the channel that a
  reload closes (`log.go:205`): `IngressLog` reaches `process = "crashed"`.
- A reload forgets database keys, tokens and reputation
  (`cmd/shield-agent/proxy.go:198`): `Admission` says so in its actions, and its
  properties, which are about who gets in, do not object.
- `README.md:187`, upstreams can be edited dynamically: the router has the
  configuration's only, and a name once deleted cannot be added again.

`RowTellsDecision` names two policies because a decrypted request that is allowed
keeps the action of its CONNECT (`policy.go:66`, `egress/proxy.go:307`): after a
reload that allows the host, its row may still say "warn".

### Fairness

Each `FairSpec` assumes what the Go scheduler gives: a goroutine that can run
eventually does. Clients, upstreams, operators, signals, crashes and restarts are
never fair.

- `EgressAudit`: the writer as a whole (its INSERT returns, well or badly), a
  handler that has come back from its upstream step by step, and the exit of a
  process whose writer has drained. Fairness of `Send \/ RefuseClosed` is weak:
  with several senders a Go channel serves them in turn, and the run has at most
  as many senders as the property needs.
- `IngressLog`: handlers inside the chain, the writer of each chain, the
  goroutines of `logRequest`, flushes (a POST has a timeout), the ticker of `Run`
  and the close after a swap. The steps of an upstream are free.
- `Guard`: the recalculation loop, which has a ticker, and recalculators that have
  begun; nobody needs to ask for one.
- `Gateway`: the handler's way out, the reader, a connection attempt once its
  client is gone (the request's context is cancelled), and posts, whose forward
  has a timeout. Relaying to a client is not fair: it may not read.
- `StdioRunner`: both goroutines, Wait, the joins; the child reads what it is
  given while it is up and exits once its input is closed.

## 4. Proofs

The theorems hold for all values of the constants, finite or not, and any number
of faults, restarts and reloads. The assumptions are the named ASSUMEs of the
modules, the ranges of the constants, which TLC evaluates in the runs; no theorem
has a hypothesis besides. What the code does not keep is excepted in the property
itself, where run and theorem say the same ("What the properties except").

| module | theorem | states |
|---|---|---|
| `EgressAuditProofs` | `TypeCorrect`, `PipelineCorrect` | `[]TypeOK`, `[]PipelineInv` |
| | `StoredOnceCorrect`, `AnswerCorrect`, `SentOrderCorrect` | `[]StoredOnce`, `[]AnswerIsTrue`, `[]SentRowsKeepOrder` |
| | `NoGapCorrect` | `[]PassingVerifyMeansNoGap`, with any faults, overlaps and sweeps |
| | `NoForkCorrect` | `[]NoFork` |
| | `AuditLogImplemented` | `ImplementsAuditLog`, the refinement of `AuditLog` |
| | `VerifyCorrect` | `[]ChainVerifies` |
| `EgressProxyProofs` | `ProxyTypeCorrect`, `ProxyInvCorrect` | `[]TypeOK`, `[]ProxyInv` |
| | `RefusedStaysInsideCorrect`, `AtMostOneRowCorrect`, `OneAtATimeCorrect`, `RowTellsDecisionCorrect`, `RefusalEndsTunnelCorrect` | the property each is named for |
| | `EveryAnswerLandsCorrect` | `[]EveryAnswerLands` |
| `IngressLogProofs` | `TelemetryCorrect`, `TelemetryInvCorrect` | of the collector alone: `[]TelemetryIInv`, `[]TelemetryInv` |
| | `LogCorrect`, `CollectorCorrect` | of `IngressLog`: `[]LogIInv`, `[]TelemetryInv` |
| | `LogInvCorrect`, `EntryNamesItsRequestCorrect` | `[]LogInv`, `[]EntryNamesItsRequest` |
| | `LogPartsCorrect` | `CurrentChainOpen` and `EntryHasEvent`, the parts of `LogInv` that need no order |
| `AdmissionProofs` | `KeysCorrect`, `CacheIsFreshCorrect`, `TokensCorrect`, `OverrunIsOverlapCorrect` | of the parts alone |
| | `AdmissionCorrect`, `ComponentsCorrect` | the composition keeps the invariants of both |
| | `ClosedMeansSignedCorrect`, `AdmissionInvCorrect` | `[]ClosedMeansSigned`, `[]AdmissionInv` |
| `GuardProofs` | `GuardCorrect`, `GuardInvCorrect`, `OnlyAFailureUnblocksCorrect` | `[]GuardIInv`, `[]GuardInv`, `OnlyAFailureUnblocks` |
| | `TwoWindowsCorrect` | `[]TwoWindowsAtMost` |
| `GatewayProofs` | `GatewayCorrect` | `[]GatewayIInv` |
| | `MatchesByPriorityCorrect`, `HintKeepsSessionCorrect`, `ToldIsReadyCorrect` | the property each is named for |
| | `GatewayInvCorrect` | `[]GatewayInv` |
| `StdioRunnerProofs` | `StdioInvariant` | `[]StdioInv` |
| | `RunnerCorrect`, `OutputCorrect` | `[]RunnerInv`, `[]OutputInOrder` |
| `AdminProofs` | `SchemaCorrect`, `OpenIsMigratedCorrect`, `AloneItOpensCorrect` | of `Schema` alone |
| | `AdminCorrect`, `ServesMigrated`, `AloneItServes` | the same of `Admin` |
| | `DefaultMustBeChangedCorrect` | `[]DefaultMustBeChanged` |
| | `AdminInvCorrect`, `TogglesAreKeptCorrect` | `[]AdminInv`, `[]TogglesAreKept` |

Every proof has the same shape: an inductive invariant, a lemma that `Init`
gives it, one lemma per action or per conjunct that it survives the step, and a
temporal step. What the invariants add, and why:

**EgressAudit.** A second insertion of a row is excluded because a row in the
writer's hands is not yet stored; that needs the fact that a handler which has not
sent its row has left no trace in queue, table or `dropped` (`UnsentIsNowhere`). A
wrong answer is excluded because an answer that is written but not yet received
agrees with the row already (`AnswersAgree`). The order of the table is the order
of sending because the sent rows still on their way are exactly the newest of
`sent`, first the one in hand and then the queue (`PipelineInOrder`).
`PipelineInv` is their conjunction with `TypeOK` and `StoredOnce`. For `NoFork`
`ChainInv` adds how histories, the sequences that hashes stand for, grow: from row to
row as hashed, with the tail the longest (`HashOrder`); from row to row as sent, but
for the overtaken ones (`SentOrder`); and by id in the table as long as no overtaken
one is stored, where a process that starts takes the longest for its tail
(`StoredOrder`). Two rows that continue the same row would have histories of the same
length.

`NoGapCorrect` needs no exception. `Verify` walks the table by id and
compares each row's `prev` with the hash before it. `GapInv` says what that hash
can be: a row is stored as it was hashed (`RowsKeep`), rows hashed by one process
are each chained to the one before, and its tail is the last one's hash
(`LinkedInOrder`), and an anchor holds the hash of a swept row, which this process
has not hashed (`AnchorsPurged`). So if row j of `computed` is stored and the
walk passed it, the hash before it was row j-1's, and only that row has it:
it is stored too, with a smaller id. A descent from j to i does the rest.

The refinement maps the tables to `AuditLog`'s entries and base. `InsertOk` is
its `AppendEntry`, a `Boot` whose sweep finds something its `PurgePrefix`, all else
a stutter. That the new row is chained to the table's last one is `NextLinked`: while
nothing is overtaken or given up on, rows are sent as they were hashed, and the next
one the writer will insert continues the end of the table, or else the tail does. A
restart finds the tail there, whatever a crash has lost. That a sweep removes a
prefix is the refinement's own condition (`SweepsOldest`), for a sweep by timestamp
need not. `TrailInv` is `NextLinked` with `ChainInv`. `VerifyInv` adds, while nothing
was disturbed and retention swept once (`Sound`), that the trail is linked, which is
inherited from `AuditLog`, and that the only anchor names the first row that is left,
where a second sweep, or one that leaves nothing, would break it; then the walk passes
each row.

**EgressProxy.** `RefusedStaysInside` is kept because `action[e]` is "block" on
exactly the refused exchanges and those have nothing left but to be recorded
(`RefusalFits`): a decrypted request could otherwise inherit a refusal from its
tunnel. `AtMostOneRow` is kept because an exchange has no row before its last
step (`RowsFit`). Both need to know which `pc` a handler can be at (`KindFits`),
and that finishing one exchange, which also moves its tunnel, moves nobody
else's: `TunnelFits`, `OneAtATime` with the fact that a tunnel is down once a
refused exchange of it is done. `RowTellsDecision` is kept because an action
is set once, before any row, from the chain at that moment and at most one
earlier decision (`DecisionFits`). For `RefusalEndsTunnel` the invariant gives
that beside a refused exchange the tunnel is waiting or down and its other
exchanges are over. For `EveryAnswerLands` it is enough to know of each place in a
handler what the client has been told and whether the upstream has been reached
(`DueIsSettled`, `ForwardedFits`): the exits that skip the log are those where neither has happened, but
for a decrypted request on its way upstream, which the property leaves out.

**Telemetry and IngressLog.** `TelemetryIInv` says where the ring's events are by
their place in the order of `Record`: the i-th slot before `head` holds the i-th
newest, modulo the size, and slots never used come after those that were. No event
is recorded twice, which is an assumption on the collector's caller there and is
discharged in `LogIInv` by `EventsAreNew`: a handler records the event of an
answer that it has not recorded. `HandlersFit` and `ChainsFit` say what a handler
may be at and that only one chain is open but for the one between Swap and Close;
`NamesFit` and `OwnNames` that the pending map holds requests under their own id,
and the very request when the id is nobody else's. `AcceptedInOrder` follows from
`OrderInv`: of what a log has accepted the last are exactly those in its hand
and channel, and those before are each in the table, in order, or lost. That no
entry is accepted twice is `EntriesAreNew`, which ties the entries made to how
far their handler has got; the goroutines of `logRequest` make theirs outside any
channel.

**AgentKeys, Tokens, Admission.** A cached answer is fresh because what the
stores say now has been held now (`HeldNow`), and an expiry is at most TTL after
the look-up. An overrun is an overlap because a request that recorded with nobody
between its count and its record was counted against all rows of the window but
its own: the count is taken over the rows recorded before it, and the newest such
row bounds the rest. `StepsCompose` shows that a step of `Admission` is, on the
variables of a part, a step of that part or none.

**Guard.** A record counts the failures since its first one, each of which is in
`failed` with its time, and a block keeps the record that earned it. Scores that a
recalculator holds are local, and after the first update of the cache nothing else
gets there. For `TwoWindowsAtMost` counting is done by bucket (`BucketCounts`): a
bucket counts the admissions since its start, none of which is after its window,
so those of any interval within it are within one limit; those of an interval of
less than a window that ends where the bucket starts are of one earlier bucket and
within one limit too; and where there is no bucket, because it was cleaned up,
there was no admission for a window. An interval of one window's length is cut
in two by at most one start. Limits may change as scores do: each half is within
the limit of one of the calls admitted in it.

**Gateway.** Of the router: a nonempty set of positions has a smallest one (from
the well-foundedness of the naturals), so each pass finds its first, the first pass
that finds something is taken, and the pass is 4 minus what the upstream names. Of
the sessions: any event in the reader, the channel or the client's hands was read,
and reading an endpoint leaves a URL; a stream with events was answered by an SSE
upstream, and the URL a post has read was announced on its stream. For
`RelayedInOrder` the events of a stream are followed from the reader's hand
through the channel to the client (`Whereabouts`): together they are those with
data among the events read, in order, as long as the client is there
(`StreamRelayed`); the client always has a beginning. That nothing is missing at
the end is `EndsFit`: the goroutine ends after the last event and the handler
after it with the channel empty, unless the client leaves.

**StdioRunner.** `InInv`: a message that `PipelineIn` has done with is forwarded or
refused and not both, and neither list has one twice, for both ascend; the child's
input holds the rest of what was forwarded. `OutInv` is the same of `PipelineOut`
with the numbers without a gap, because it relays everything. `CallsAreDue` says
that the calls of `Write` still to make are a whole line of the message in hand, so
what comes between the lines of two goroutines is never part of a line. `TornIsLast` says
that a torn line is the last one its goroutine takes, and that its writer is gone.

**Schema and Admin.** What is recorded is a beginning of the versions, a process
at version v finds all before it recorded, one that opened alone is the only one
opening, and what is executed but not recorded is about to be recorded by someone
unless a fault came between (`RecordFollows`). `LivesFit` ties `life` to `db`, so
that a step of `Admin` is a step of `Schema`, a stutter, or counts a fault.
`PasswordFits` says that, but for what the property excepts, a generated password
has not been changed yet, and has either the flag or a process about to set it.
`RequestsFit` says that a request at a step of a toggle, a change or an edit is
one of that kind, and `SettingTypes` and `RowTypes` give `AdminInv` its types.
For `TogglesAreKept` a request between its read of a name and its save must be
alone with the name, unless it is contested: no other request is at it, no other
process has loaded the toggles (`ToggleIsAlone`). Then what is shown is what is
saved. That one toggle keeps no process from starting is because an "off" takes
one toggle and an "on" a second, unless a file mentions the name (`MarksAreEarned`).

Properties about order (`ForwardedOrRefused`, `OutputInOrder`, `AcceptedInOrder`,
`RelayedInOrder`) are stated with positions and the sets of what is at them, not
with filters over sequences, which are recursive and cannot be unfolded here for
all lengths. `Verify`'s walk is a recursive function: that it exists for any number
of rows, that once failed it stays failed, and the descent along the chain are
proved by a smallest or largest counterexample, from the well-foundedness of the
naturals (`SmallestIs` does the same for the router).

Only model-checked is liveness: `HandlerEnds`, `QueuedRowSettles`, `AllDrains`, `CacheCatchesUp`, `AllEnd` and `RunWindsDown`.
They rest on fairness, thus on ENABLED, which is outside the proof system's reach.
Every safety property, action property and refinement that a passing run checks is
stated by a theorem.

## 5. What could come next

1. A composition of `EgressProxy` with `EgressAudit`: the row of an exchange
   through the pipeline, a tunnel that outlives `Close`.
2. Digest and bundle as non-atomic reads of `EgressAudit`'s state.
3. Theorems of the safety part of the liveness arguments: in which states a step
   of the writer, the reader or a goroutine is possible.

## 6. Not modelled

- Digest and audit export: they read the log in several calls and write a report
  that nothing in the system reads back. The hazards at `digest.go` are listed
  without a property.
- Egress certificates: generation, and a cache of leaves under one lock.
- PII scrubbing, content tags, provider tables: functions of one request with no
  effect on another.
- Monitor: counters and pages; no handler writes what another reads.
- A2A, HTTP API and HTTP auth middlewares: no command installs them; the protocol
  handler makes the same decisions in `checkAuth` and `logRequest`, which are
  modelled (`Admission`, `IngressLog`).
- Parsing of configuration, messages and flags, pages of the web UI, packaging: no
  order or interleaving that a property could be about.
- The older `Run` of the process package, `SetRawToken`, `Delete` of the token
  store and the list of IP addresses have no callers outside tests.
- Retention of `action_logs`: a DELETE that nothing reads back.
