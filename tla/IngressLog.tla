----------------------------- MODULE IngressLog -----------------------------
(***************************************************************************)
(* The ingress action log: the handlers of the proxy's transports, the     *)
(* middleware chain they read from the SwappableChain, the LogMiddleware   *)
(* of each chain with its pending map, channel and writer goroutine, the   *)
(* reload by SIGHUP that replaces the chain and closes the old one, and    *)
(* the end of the process, whose deferred calls close the first chain.     *)
(* Requests that are not MCP (A2A, plain HTTP) pass the chain by and are   *)
(* logged by a goroutine of their own.  Every log entry is also recorded   *)
(* by the telemetry collector.                                             *)
(*                                                                         *)
(* Request r has an entry for its n-th answer, or for n = 0 for itself;    *)
(* an entry carries the method of the request that the middleware found.   *)
(***************************************************************************)
EXTENDS Telemetry

CONSTANTS
  Requests,    \* the requests of all clients; Recorders of the collector
  Ids,         \* JSON-RPC ids, which clients choose as they like
  Configs,     \* the configurations: sets of enabled middlewares
  Settings,    \* what a process may start with: a configuration, whether
               \* telemetry is on; the traffic it meets: which requests, of
               \* which kinds, how many messages they are answered with; how
               \* many SIGHUPs; and what may go wrong, among FaultKinds
  ChannelSize, \* capacity of LogMiddleware.writeCh
  MaxReloads,  \* SIGHUPs that build a chain (bound)
  MaxAnswers   \* messages the upstream answers one request with (bound)

AllKinds == { "call",          \* JSON-RPC with an id
              "notification",  \* JSON-RPC without
              "opaque",        \* a body that is not JSON-RPC
              "http" }         \* A2A or plain HTTP

FaultKinds == { "insert",      \* an INSERT into action_logs fails
                "upstream",    \* the upstream cannot be reached
                "post",        \* a batch of telemetry cannot be sent
                "exit" }       \* the process is told to stop

NoId == "none"    \* the id of a notification
NoRequest == "nobody"

ASSUME IngressLogAssumption ==
  /\ Recorders = Requests
  /\ Events = Requests \X (0..MaxAnswers)
  /\ Settings \subseteq [mws : Configs, telemetry : BOOLEAN,
                        requests : SUBSET Requests, kinds : SUBSET AllKinds,
                        answers : 0..MaxAnswers, reloads : 0..MaxReloads,
                        faults : SUBSET FaultKinds]
  /\ ChannelSize \in Nat \ {0}
  /\ MaxReloads \in Nat /\ MaxAnswers \in Nat \ {0}
  /\ Configs \subseteq SUBSET {"auth", "guard", "token", "log"}
  /\ NoId \notin Ids /\ NoRequest \notin Requests

Gens == 1..MaxReloads + 1

\* An entry of request req for its answer n, with the method of request by,
\* made by the log of chain gen (0: by logRequest).
Entry(r, n, by, g) == [req |-> r, n |-> n, by |-> by, gen |-> g]

VARIABLES
  setting,  \* the one of Settings this process runs with
  \* the chains, by the number of the configuration that built them
  chain,    \* SwappableChain.chain
  config,   \* the middlewares of each
  pending,  \* LogMiddleware.pending of each
  queue,    \* LogMiddleware.writeCh of each
  closed,   \* writeCh has been closed
  hand,     \* the entry its writer is inserting: <<>> or <<entry>>
  \* the process
  process,  \* "up", "closing" (main returns), "closed", "down", "crashed"
  oldCloser,\* the chain the next reload closes
  swapped,  \* a reload has swapped and not closed yet
  \* the requests
  pc, kind, id,
  via,      \* the chain the handler has read for the message in hand
  answers,  \* the upstream's messages so far
  async,    \* entries logRequest has spawned a goroutine for
  \* action_logs and history
  rows,     \* action_logs
  accepted, \* per chain: the entries sent on writeCh, in order
  lost      \* entries dropped on a full channel or whose INSERT failed

chains   == <<setting, chain, config, pending, queue, closed, hand>>
server   == <<process, oldCloser, swapped>>
requests == <<pc, kind, id, via, answers, async>>
logged   == <<rows, accepted, lost>>
ivars    == <<chains, server, requests, logged>>
vars     == <<ivars, tvars>>

-----------------------------------------------------------------------------
(* Chains *)

\* BuildChain: the token middleware needs a token store.
Builds(cfg, hasTokenStore) == "token" \in cfg => hasTokenStore

HasLog(g) == "log" \in config[g]

\* The middlewares that come before the log and may refuse.
Gated(g) == config[g] \cap {"auth", "guard", "token"} # {}

Init ==
  /\ TelemetryInit
  /\ chain = 1
  /\ setting \in {s \in Settings : Builds(s.mws, TRUE)}
  /\ config = [g \in Gens |-> IF g = 1 THEN setting.mws ELSE {}]
  /\ pending = [g \in Gens |-> [i \in Ids |-> NoRequest]]
  /\ queue = [g \in Gens |-> <<>>]
  /\ closed = [g \in Gens |-> FALSE]
  /\ hand = [g \in Gens |-> <<>>]
  /\ process = "up" /\ oldCloser = 1 /\ swapped = FALSE
  /\ pc = [r \in Requests |-> "new"]
  /\ kind = [r \in Requests |-> "none"]
  /\ id = [r \in Requests |-> NoId]
  /\ via = [r \in Requests |-> 1]
  /\ answers = [r \in Requests |-> 0]
  /\ async = {}
  /\ rows = <<>> /\ accepted = [g \in Gens |-> <<>>] /\ lost = {}

Running == process \notin {"down", "crashed"}

\* A handler can go on: the process is there and it is not inside Record.
Free(r) == Running /\ tpc[r] = "idle"

\* enqueue of entry e by handler r: the select sends when there is room, drops
\* when there is none, and panics when the channel is closed, which ends the
\* handler.
Enqueue(r, e) ==
  LET g == e.gen IN
  IF closed[g]
  THEN /\ pc' = [pc EXCEPT ![r] = "aborted"]
       /\ UNCHANGED <<queue, accepted, lost>>
  ELSE /\ pc' = [pc EXCEPT ![r] = "record"]
       /\ IF Len(queue[g]) < ChannelSize
          THEN /\ queue' = [queue EXCEPT ![g] = Append(@, e)]
               /\ accepted' = [accepted EXCEPT ![g] = Append(@, e)]
               /\ UNCHANGED lost
          ELSE /\ lost' = lost \cup {e}
               /\ UNCHANGED <<queue, accepted>>

-----------------------------------------------------------------------------
(* Handlers *)

\* A request arrives; ProtocolAwareHandler picks its handler.  A JSON-RPC
\* message goes to the chain that is current now.
Arrive(r, k, i) ==
  /\ process = "up"
  /\ pc[r] = "new"
  /\ r \in setting.requests /\ k \in setting.kinds
  /\ kind' = [kind EXCEPT ![r] = k]
  /\ id' = [id EXCEPT ![r] = i]
  /\ via' = [via EXCEPT ![r] = chain]
  /\ pc' = [pc EXCEPT ![r] = IF k \in {"call", "notification"} THEN "request" ELSE "upstream"]
  /\ UNCHANGED <<chains, server, answers, async, logged, tvars>>

\* A step of handler r that only moves it on.
Goes(r, from, to) ==
  /\ Free(r)
  /\ pc[r] = from
  /\ pc' = [pc EXCEPT ![r] = to]
  /\ UNCHANGED <<chains, server, kind, id, via, answers, async, logged, tvars>>

\* Nothing is forwarded, and there is no entry: a middleware ahead of the log
\* refuses; checkAuth does (401), for a request that passes the chain by; or
\* the body cannot be read (400), and the message is neither a call nor a
\* notification.
Refuse(r) ==
  \/ Gated(via[r]) /\ Goes(r, "request", "refused")
  \/ kind[r] \in {"http", "opaque"} /\ answers[r] = 0 /\ Goes(r, "upstream", "refused")

\* The chain has no log.
Unlogged(r) ==
  /\ ~HasLog(via[r])
  /\ Goes(r, "request", "upstream") \/ Goes(r, "response", "upstream")

\* LogMiddleware.ProcessRequest for a request with an id.
LogCall(r) ==
  /\ Free(r)
  /\ pc[r] = "request" /\ kind[r] = "call" /\ HasLog(via[r])
  /\ pending' = [pending EXCEPT ![via[r]][id[r]] = r]
  /\ pc' = [pc EXCEPT ![r] = "upstream"]
  /\ UNCHANGED <<setting, chain, config, queue, closed, hand, server, kind, id, via, answers,
                 async, logged, tvars>>

\* LogMiddleware.ProcessRequest for a notification.
LogNotification(r) ==
  /\ Free(r)
  /\ pc[r] = "request" /\ kind[r] = "notification" /\ HasLog(via[r])
  /\ Enqueue(r, Entry(r, 0, r, via[r]))
  /\ UNCHANGED <<setting, chain, config, pending, closed, hand, server, kind, id, via, answers,
                 async, rows, tvars>>

\* The upstream fails: 502 if nothing came of it yet, and what is pending
\* stays pending.
UpstreamFails(r) ==
  /\ "upstream" \in setting.faults
  /\ answers[r] = 0
  /\ Goes(r, "upstream", "badgateway")

\* The upstream's answer is over, or has no JSON-RPC result or error in it.
AnswerEnds(r) == kind[r] # "http" /\ Goes(r, "upstream", "answered")

\* The upstream's next JSON-RPC response, one of several if it answers with an
\* event stream: it goes to the chain that is current now.
UpstreamAnswers(r) ==
  /\ Free(r)
  /\ pc[r] = "upstream" /\ kind[r] # "http"
  /\ answers[r] < setting.answers
  /\ answers' = [answers EXCEPT ![r] = @ + 1]
  /\ via' = [via EXCEPT ![r] = chain]
  /\ pc' = [pc EXCEPT ![r] = "response"]
  /\ UNCHANGED <<chains, server, kind, id, async, logged, tvars>>

\* Fault: the response's entry has the method of whatever request is pending.
Found_Any(r) ==
  LET open == {i \in Ids : pending[via[r]][i] # NoRequest} IN
  IF open = {} THEN NoRequest ELSE pending[via[r]][CHOOSE i \in open : TRUE]

\* The request pending under r's id in the log of its chain.
Found(r) == IF id[r] \in Ids THEN pending[via[r]][id[r]] ELSE NoRequest

\* LogMiddleware.ProcessResponse: find the request by the id, forget it, and
\* enqueue an entry with its method, or with none.
LogResponse(r) ==
  /\ Free(r)
  /\ pc[r] = "response" /\ HasLog(via[r])
  /\ pending' = IF id[r] \in Ids THEN [pending EXCEPT ![via[r]][id[r]] = NoRequest] ELSE pending
  /\ Enqueue(r, Entry(r, answers[r], Found(r), via[r]))
  /\ UNCHANGED <<setting, chain, config, closed, hand, server, kind, id, via, answers, async, rows, tvars>>

\* The rest of the two: telemetry, and on to the upstream or to what it says next.
RecordEntry(r) ==
  /\ Running
  /\ pc[r] = "record"
  /\ IF setting.telemetry THEN Record(r, <<r, answers[r]>>) ELSE UNCHANGED tvars
  /\ pc' = [pc EXCEPT ![r] = IF kind[r] = "http" THEN "answered" ELSE "upstream"]
  /\ UNCHANGED <<chains, server, kind, id, via, answers, async, logged>>

\* handleHTTPProtocolWithBody has relayed the answer: logRequest.
AnswerHTTP(r) ==
  /\ Free(r)
  /\ pc[r] = "upstream" /\ kind[r] = "http"
  /\ async' = async \cup {Entry(r, 0, r, 0)}
  /\ pc' = [pc EXCEPT ![r] = "record"]
  /\ UNCHANGED <<chains, server, kind, id, via, answers, logged, tvars>>

-----------------------------------------------------------------------------
(* Writers *)

\* DB.Insert of an entry, well or badly.
Insert(e) ==
  \/ rows' = Append(rows, e) /\ UNCHANGED lost
  \/ "insert" \in setting.faults /\ lost' = lost \cup {e} /\ UNCHANGED rows

\* Fault: a closed channel ends the writer at once.
Receive_UntilClosed(g) ==
  /\ Running /\ ~closed[g]
  /\ hand[g] = <<>> /\ queue[g] # <<>>
  /\ hand' = [hand EXCEPT ![g] = <<Head(queue[g])>>]
  /\ queue' = [queue EXCEPT ![g] = Tail(@)]
  /\ UNCHANGED <<setting, chain, config, pending, closed, server, requests, logged, tvars>>

\* writer: take the next entry; what is buffered when the channel is closed is
\* still taken.
Receive(g) ==
  /\ Running
  /\ hand[g] = <<>> /\ queue[g] # <<>>
  /\ hand' = [hand EXCEPT ![g] = <<Head(queue[g])>>]
  /\ queue' = [queue EXCEPT ![g] = Tail(@)]
  /\ UNCHANGED <<setting, chain, config, pending, closed, server, requests, logged, tvars>>

WriterInserts(g) ==
  /\ Running
  /\ hand[g] # <<>>
  /\ Insert(hand[g][1])
  /\ hand' = [hand EXCEPT ![g] = <<>>]
  /\ UNCHANGED <<setting, chain, config, pending, queue, closed, server, requests, accepted, tvars>>

\* The goroutine of logRequest.
AsyncInserts(e) ==
  /\ Running
  /\ e \in async
  /\ Insert(e)
  /\ async' = async \ {e}
  /\ UNCHANGED <<chains, server, pc, kind, id, via, answers, accepted, tvars>>

-----------------------------------------------------------------------------
(* Reload and exit *)

\* Fault: the old chain is closed before the new one is in place.
Reload_ClosesFirst(cfg) ==
  /\ Running /\ ~swapped
  /\ chain \in 1..setting.reloads
  /\ Builds(cfg, FALSE)
  /\ closed' = [closed EXCEPT ![chain] = TRUE]
  /\ swapped' = TRUE
  /\ UNCHANGED <<setting, chain, config, pending, queue, hand, process, oldCloser, requests, logged, tvars>>

\* SIGHUP: a chain is built, without a token store, and swapped in.  A
\* configuration that does not build changes nothing.
Reload(cfg) ==
  /\ Running /\ ~swapped
  /\ chain \in 1..setting.reloads
  /\ Builds(cfg, FALSE)
  /\ config' = [config EXCEPT ![chain + 1] = cfg]
  /\ chain' = chain + 1
  /\ swapped' = TRUE
  /\ UNCHANGED <<setting, pending, queue, closed, hand, process, oldCloser, requests, logged, tvars>>

\* closeAll of chain g: closing a closed channel panics, and ends the process.
CloseChain(g, next) ==
  /\ closed' = [closed EXCEPT ![g] = closed[g] \/ HasLog(g)]
  /\ process' = IF HasLog(g) /\ closed[g] THEN "crashed" ELSE next

\* The reload goes on: oldCloser, and remember the new one.
CloseOld ==
  /\ Running /\ swapped
  /\ CloseChain(oldCloser, process)
  /\ oldCloser' = chain /\ swapped' = FALSE
  /\ UNCHANGED <<setting, chain, config, pending, queue, hand, requests, logged, tvars>>

\* The context is cancelled: ListenAndServe and runProxy return, whatever the
\* handlers are doing.
Exit ==
  /\ "exit" \in setting.faults
  /\ process = "up"
  /\ process' = "closing"
  /\ UNCHANGED <<chains, oldCloser, swapped, requests, logged, tvars>>

\* Deferred: closeMiddlewares, the closer of the first chain.
CloseFirst ==
  /\ process = "closing"
  /\ CloseChain(1, "closed")
  /\ UNCHANGED <<setting, chain, config, pending, queue, hand, oldCloser, swapped, requests, logged, tvars>>

\* Deferred: db.Close; then the process is gone, its writers with it.
Gone ==
  /\ process = "closed"
  /\ process' = "down"
  /\ UNCHANGED <<chains, oldCloser, swapped, requests, logged, tvars>>

\* The collector's own steps.
Collect(A) == setting.telemetry /\ Running /\ A /\ UNCHANGED ivars

Flush(p) ==
  \/ Collect(Take(p)) \/ Collect(SendOk(p))
  \/ "post" \in setting.faults /\ Collect(SendFails(p))

LeaveOnCancel == process \in {"closing", "closed"} /\ Leave

-----------------------------------------------------------------------------
Handle(r) ==
  \/ Refuse(r) \/ Unlogged(r) \/ LogCall(r) \/ LogNotification(r)
  \/ LogResponse(r) \/ RecordEntry(r)

FromUpstream(r) ==
  UpstreamFails(r) \/ AnswerEnds(r) \/ UpstreamAnswers(r) \/ AnswerHTTP(r)

Write(g) == Receive(g) \/ WriterInserts(g)

IdsFor(k) == IF k = "call" THEN Ids ELSE {NoId}

Next ==
  \/ \E r \in Requests : \E k \in AllKinds : \E i \in IdsFor(k) : Arrive(r, k, i)
  \/ \E r \in Requests : Handle(r) \/ FromUpstream(r)
  \/ \E g \in Gens : Write(g)
  \/ \E e \in async : AsyncInserts(e)
  \/ \E cfg \in Configs : Reload(cfg)
  \/ CloseOld \/ Exit \/ CloseFirst \/ Gone
  \/ \E p \in Flushers : Flush(p)
  \/ Collect(Tick) \/ Collect(LeaveOnCancel)

Spec == Init /\ [][Next]_vars

\* Goroutines that can run do; clients, upstreams, signals are free.
FairSpec ==
  /\ Spec
  /\ \A r \in Requests : WF_vars(Handle(r))
  /\ \A g \in Gens : WF_vars(Write(g))
  /\ WF_vars(\E e \in async : AsyncInserts(e))
  /\ \A p \in Flushers : WF_vars(Flush(p))
  /\ WF_vars(Collect(Tick) \/ Collect(LeaveOnCancel))
  /\ WF_vars(CloseOld)

-----------------------------------------------------------------------------
(* Properties *)

Entries == [req : Requests, n : 0..MaxAnswers, by : Requests \cup {NoRequest},
            gen : {0} \cup Gens]

\* Types, and channels within their capacity.
TypeOK ==
  /\ TelemetryTypeOK
  /\ setting \in Settings
  /\ chain \in Gens
  /\ config \in [Gens -> SUBSET {"auth", "guard", "token", "log"}]
  /\ pending \in [Gens -> [Ids -> Requests \cup {NoRequest}]]
  /\ queue \in [Gens -> Seq(Entries)]
  /\ \A g \in Gens : Len(queue[g]) <= ChannelSize
  /\ closed \in [Gens -> BOOLEAN]
  /\ hand \in [Gens -> {<<>>} \cup {<<e>> : e \in Entries}]
  /\ process \in {"up", "closing", "closed", "down", "crashed"}
  /\ oldCloser \in Gens /\ swapped \in BOOLEAN
  /\ pc \in [Requests -> {"new", "request", "refused", "upstream", "badgateway",
                          "response", "record", "answered", "aborted"}]
  /\ kind \in [Requests -> AllKinds \cup {"none"}]
  /\ id \in [Requests -> Ids \cup {NoId}]
  /\ via \in [Requests -> Gens]
  /\ answers \in [Requests -> 0..MaxAnswers]
  /\ async \subseteq Entries
  /\ rows \in Seq(Entries)
  /\ accepted \in [Gens -> Seq(Entries)]
  /\ lost \subseteq Entries

\* proxy.go:206-210: while the server runs, the chain that a request finds has
\* its log open; a reload can only hit requests that found the one before.
CurrentChainOpen == process = "up" => ~closed[chain]

\* All entries there have been.
Made == SeqSet(rows) \cup lost \cup async
          \cup UNION {SeqSet(queue[g]) \cup SeqSet(hand[g]) : g \in Gens}

\* log.go:108-140: an entry never has the method of a request with another id,
\* and has its own request's if nobody shares the id and no reload came between.
EntryNamesItsRequest ==
  \A e \in Made :
    /\ e.by # NoRequest => id[e.by] = id[e.req]
    /\ (chain = 1 /\ kind[e.req] = "call" /\ e.n = 1
          /\ \A r \in Requests \ {e.req} : id[r] # id[e.req]) => e.by = e.req

\* log.go:205-220, middleware reload: what a log accepted is inserted once and
\* in order, or lost by a failed INSERT; closing the channel loses nothing.
AcceptedInOrder ==
  \A g \in Gens :
    LET way  == hand[g] \o queue[g]
        done == Len(accepted[g]) - Len(way)
        kept == {k \in 1..done : accepted[g][k] \notin lost}
        its  == {i \in 1..Len(rows) : rows[i].gen = g}
    IN
    /\ done >= 0
    /\ \A k \in 1..Len(way) : accepted[g][done + k] = way[k] /\ way[k] \notin lost
    /\ {rows[i] : i \in its} = {accepted[g][k] : k \in kept}
    /\ \A i, j \in its, k, l \in kept :
         rows[i] = accepted[g][k] /\ rows[j] = accepted[g][l] => (i < j <=> k < l)

\* log.go:81-101, 165-195, protocol.go:300-332: the table and the telemetry
\* tell of the same messages: an entry has its event, and an event its entry,
\* except while the handler is between the two.
EntryHasEvent ==
  setting.telemetry => {<<e.req, e.n>> : e \in Made} =
    SeqSet(recorded) \cup {<<r, answers[r]>> : r \in {q \in Requests : pc[q] = "record"}}

\* log.go:205-220: the log of a replaced chain writes what it has accepted and
\* comes to rest, unless the process ends first; so does the current one's.
LogDrains ==
  \A g \in Gens :
    queue[g] \o hand[g] # <<>> ~> (queue[g] \o hand[g] = <<>> \/ ~Running)

\* A handler gets out of the chain and of the collector whatever the log, the
\* other handlers, a reload or an exit do at the same time.
InChain(r) == pc[r] \in {"request", "response", "record"} \/ tpc[r] # "idle"
HandlerReturns == \A r \in Requests : InChain(r) ~> (~InChain(r) \/ ~Running)

\* collector.go:96-122: the ring is emptied again and again until Run leaves.
RingIsShipped == count > 0 ~> (count = 0 \/ ~Running \/ (leaving /\ tpc[Runner] = "done"))

\* log.go:179-220, proxy.go:206-222: what holds of the log over reloads: the
\* chain in use has an open channel, what a channel has accepted is inserted once
\* and in order or lost by its INSERT, and table and telemetry tell of the same
\* messages.
LogInv ==
  /\ TypeOK
  /\ CurrentChainOpen
  /\ AcceptedInOrder
  /\ EntryHasEvent

\* log.go:205-220, collector.go:96-122: every party of the pipeline comes to
\* rest: the logs of all chains, the handlers in them, and the collector's ring.
AllDrains ==
  /\ LogDrains
  /\ HandlerReturns
  /\ RingIsShipped
=============================================================================
