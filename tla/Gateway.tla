------------------------------- MODULE Gateway -------------------------------
(***************************************************************************)
(* The HTTP side of proxy mode: the router that picks an upstream, the     *)
(* dispatch by protocol, and the sessions of the SSE transport.  A session *)
(* is shared by the handler of GET /sse, which relays events to the        *)
(* client, the goroutine that reads them from the upstream, and the        *)
(* handlers of POST /messages, which find it in the store.                 *)
(***************************************************************************)
EXTENDS Integers, Sequences, FiniteSets, SequencesExt

CONSTANTS
  Streams,    \* requests GET /sse, each of a client, and their sessions
  Posts,      \* requests POST /messages
  Settings,   \* what a process may meet: upstreams (a sequence of Upstreams),
              \* requests (a set of [host, path] of GET /sse), which streams
              \* and posts, kinds of messages posted, events per stream
  Upstreams,  \* configurations of an upstream
  Hosts, Paths, \* of requests; a path is a sequence of pieces of text
  Capacity,   \* of session.events
  MaxEvents   \* events an upstream writes on a stream (bound)

AnyHost == "any"    \* no host to match
None == 0
NoStream == "none"
Root == <<"/">>
SSEPath == <<"/sse">>
MessagesPath == <<"/messages">>

Hints == {"auto", "mcp", "http"}

\* What DetectProtocol tells apart, by the headers first and then by the body.
MessageKinds == { "request",    \* Mcp-Session-Id, or JSON-RPC with a method
                  "response",   \* neither
                  "a2a" }       \* X-A2A-Signature, or a method of A2A

EventKinds == { "endpoint",     \* announces a URL
                "nowhere",      \* an endpoint event without data
                "message",
                "blank" }       \* any other event without data

Announcements == {"endpoint", "nowhere"}

ASSUME GatewayAssumption ==
  /\ Upstreams \subseteq [host : Hosts \cup {AnyHost}, prefix : Paths \cup {<<>>}, strip : BOOLEAN,
                         transport : {"sse", "streamable"}, hint : Hints]
  /\ Settings \subseteq [upstreams : Seq(Upstreams),
                        requests : SUBSET [host : Hosts, path : Paths],
                        streams : SUBSET Streams, posts : SUBSET Posts,
                        kinds : SUBSET MessageKinds, events : 0..MaxEvents]
  /\ Capacity \in Nat \ {0} /\ MaxEvents \in Nat

VARIABLES
  setting,
  \* streams
  get,      \* where the client sent its GET
  client,   \* "there", "gone"
  spc,      \* handler: "new", "connecting", "relaying", "leaving" (done is
            \* closed), "removed", "gone" (the upstream's body is closed), "refused"
  at,       \* the upstream it was routed to
  store,    \* sessionStore of each upstream's proxy: pairs <<upstream, stream>>
  url,      \* session.upstreamMsgURL: the number of the event that announced it
  events,   \* session.events
  reader,   \* goroutine: "none", "reading", "sending", "ended" (channel closed)
  carry,    \* the event it sends
  read,     \* how many of the upstream's events it has read
  written,  \* kinds of the events the upstream has written
  open,     \* the upstream keeps the stream open
  got,      \* events the client has received
  \* posts
  ppc,      \* handler: "new", "lookup", "url", "chain", "raw", "answered"
  of, kind, \* the session and the kind of the message
  pat,      \* the upstream it was routed to
  to,       \* the URL it will be forwarded to
  forwarded,\* where an upstream has received it: <<upstream, url>>
  status

streamVars == <<get, client, spc, at, store, url, events, reader, carry, read, written, open, got>>
postVars   == <<ppc, of, kind, pat, to, forwarded, status>>
vars       == <<setting, streamVars, postVars>>

-----------------------------------------------------------------------------
(* Router *)

Matches(u, host, path) ==
  /\ u.host \in {AnyHost, host}
  /\ IsPrefix(u.prefix, path)

\* The passes of Match: host and path, host only, path only, neither.
Pass(u) == IF u.host # AnyHost THEN IF u.prefix # <<>> THEN 1 ELSE 2
           ELSE IF u.prefix # <<>> THEN 3 ELSE 4

\* The first upstream a pass finds, or none.
Found(us, pass, host, path) ==
  LET is == {i \in 1..Len(us) : Pass(us[i]) = pass /\ Matches(us[i], host, path)} IN
  IF is = {} THEN None ELSE CHOOSE i \in is : \A j \in is : i <= j

\* Fault: the path goes before the host.
Match_PathFirst(us, host, path) ==
  LET f == [p \in 1..4 |-> Found(us, IF p \in {2, 3} THEN 5 - p ELSE p, host, path)]
      hits == {p \in 1..4 : f[p] # None}
  IN IF hits = {} THEN None ELSE f[CHOOSE p \in hits : \A q \in hits : p <= q]

\* Match: the first pass that finds one.
Match(us, host, path) ==
  LET f == [p \in 1..4 |-> Found(us, p, host, path)]
      hits == {p \in 1..4 : f[p] # None}
  IN IF hits = {} THEN None ELSE f[CHOOSE p \in hits : \A q \in hits : p <= q]

\* The path an upstream's handler gets.
Stripped(u, path) ==
  IF ~u.strip THEN path
  ELSE LET rest == SubSeq(path, Len(u.prefix) + 1, Len(path)) IN
       IF rest = <<>> THEN Root ELSE rest

\* The handler of a GET: the mux of the SSE transport, when the upstream has it.
ServesSSE(u, path) == u.transport = "sse" /\ Stripped(u, path) = SSEPath

\* Fault: the body decides even when the configuration has.
DetectedMCP_NoHint(u, k) == k = "request"

\* ServeHTTP of ProtocolAwareHandler, for a POST: by the hint, or else by what
\* DetectProtocol says.
DetectedMCP(u, k) ==
  \/ u.hint = "mcp"
  \/ u.hint = "auto" /\ k = "request"

\* What becomes of a POST to path: "lookup" (handleMessages), "raw" (forwarded
\* to the upstream under its path, by the HTTP or the streamable handler),
\* "answered" with 404 by the mux or 502 by the router.
Dispatch(us, i, path, k) ==
  IF i = None THEN "answered"
  ELSE IF ~DetectedMCP(us[i], k) \/ us[i].transport = "streamable" THEN "raw"
  ELSE IF Stripped(us[i], path) = MessagesPath THEN "lookup"
  ELSE "answered"

-----------------------------------------------------------------------------

Init ==
  /\ setting \in Settings
  /\ get \in [Streams -> setting.requests]
  /\ client = [s \in Streams |-> "there"]
  /\ spc = [s \in Streams |-> "new"]
  /\ at = [s \in Streams |-> None]
  /\ store = {}
  /\ url = [s \in Streams |-> None]
  /\ events = [s \in Streams |-> <<>>]
  /\ reader = [s \in Streams |-> "none"]
  /\ carry = [s \in Streams |-> None]
  /\ read = [s \in Streams |-> 0]
  /\ written = [s \in Streams |-> <<>>]
  /\ open = [s \in Streams |-> FALSE]
  /\ got = [s \in Streams |-> <<>>]
  /\ ppc = [p \in Posts |-> "new"]
  /\ of = [p \in Posts |-> NoStream] /\ kind = [p \in Posts |-> "none"]
  /\ pat = [p \in Posts |-> None] /\ to = [p \in Posts |-> None]
  /\ forwarded = [p \in Posts |-> <<>>]
  /\ status = [p \in Posts |-> None]

(* The client and the upstream *)

ClientLeaves(s) ==
  /\ client[s] = "there" /\ spc[s] # "new"
  /\ client' = [client EXCEPT ![s] = "gone"]
  /\ UNCHANGED <<setting, get, spc, at, store, url, events, reader, carry, read, written, open,
                 got, postVars>>

\* The upstream writes an event.
UpstreamWrites(s, k) ==
  /\ open[s] /\ Len(written[s]) < setting.events
  /\ written' = [written EXCEPT ![s] = Append(@, k)]
  /\ UNCHANGED <<setting, get, client, spc, at, store, url, events, reader, carry, read, open,
                 got, postVars>>

\* The stream ends, breaks off, or has a line too long for the scanner.
UpstreamEnds(s) ==
  /\ open[s]
  /\ open' = [open EXCEPT ![s] = FALSE]
  /\ UNCHANGED <<setting, get, client, spc, at, store, url, events, reader, carry, read, written,
                 got, postVars>>

-----------------------------------------------------------------------------
(* The handler of GET /sse *)

HandlerGoes(s, from, to_) ==
  /\ spc[s] = from
  /\ spc' = [spc EXCEPT ![s] = to_]

\* A client's GET, which goes through the router.
Connect(s) ==
  LET i == Match(setting.upstreams, get[s].host, get[s].path) IN
  /\ s \in setting.streams
  /\ HandlerGoes(s, "new",
       IF i # None /\ ServesSSE(setting.upstreams[i], get[s].path) THEN "connecting" ELSE "refused")
  /\ at' = [at EXCEPT ![s] = i]
  /\ UNCHANGED <<setting, get, client, store, url, events, reader, carry, read, written, open,
                 got, postVars>>

\* 502, or the client has gone.
ConnectFails(s) ==
  /\ HandlerGoes(s, "connecting", "refused")
  /\ UNCHANGED <<setting, get, client, at, store, url, events, reader, carry, read, written, open,
                 got, postVars>>

\* The upstream answers: a session is stored and its goroutine started.
UpstreamAnswers(s) ==
  /\ HandlerGoes(s, "connecting", "relaying")
  /\ store' = store \cup {<<at[s], s>>}
  /\ reader' = [reader EXCEPT ![s] = "reading"]
  /\ open' = [open EXCEPT ![s] = TRUE]
  /\ UNCHANGED <<setting, get, client, at, url, events, carry, read, written, got, postVars>>

\* The next event is written to the client; a client that is gone ends it.
Relay(s) ==
  /\ spc[s] = "relaying" /\ events[s] # <<>>
  /\ events' = [events EXCEPT ![s] = Tail(@)]
  /\ IF client[s] = "there"
       THEN got' = [got EXCEPT ![s] = Append(@, Head(events[s]))] /\ UNCHANGED spc
       ELSE HandlerGoes(s, "relaying", "leaving") /\ UNCHANGED got
  /\ UNCHANGED <<setting, get, client, at, store, url, reader, carry, read, written, open, postVars>>

\* Fault: the last events are given up with the upstream.
RelayEnds_Early(s) ==
  /\ client[s] = "gone" \/ reader[s] = "ended"
  /\ HandlerGoes(s, "relaying", "leaving")
  /\ UNCHANGED <<setting, get, client, at, store, url, events, reader, carry, read, written, open,
                 got, postVars>>

\* The channel is closed and empty, or the client is gone; done is closed.
RelayEnds(s) ==
  /\ client[s] = "gone" \/ (reader[s] = "ended" /\ events[s] = <<>>)
  /\ HandlerGoes(s, "relaying", "leaving")
  /\ UNCHANGED <<setting, get, client, at, store, url, events, reader, carry, read, written, open,
                 got, postVars>>

\* Deferred: sessions.remove, Body.Close.
RemoveSession(s) ==
  /\ HandlerGoes(s, "leaving", "removed")
  /\ store' = store \ {<<at[s], s>>}
  /\ UNCHANGED <<setting, get, client, at, url, events, reader, carry, read, written, open, got,
                 postVars>>

CloseBody(s) ==
  /\ HandlerGoes(s, "removed", "gone")
  /\ open' = [open EXCEPT ![s] = FALSE]
  /\ UNCHANGED <<setting, get, client, at, store, url, events, reader, carry, read, written, got,
                 postVars>>

-----------------------------------------------------------------------------
(* The goroutine that reads *)

NextKind(s) == written[s][read[s] + 1]

\* One event: an endpoint is stored, whatever it says, and becomes ours; others go
\* through the chain, or nowhere if they have no data.
ReadEvent(s) ==
  /\ reader[s] = "reading" /\ read[s] < Len(written[s])
  /\ read' = [read EXCEPT ![s] = @ + 1]
  /\ IF NextKind(s) = "blank" THEN UNCHANGED <<reader, carry>>
     ELSE /\ reader' = [reader EXCEPT ![s] = "sending"]
          /\ carry' = [carry EXCEPT ![s] = read'[s]]
  /\ url' = [url EXCEPT ![s] = CASE NextKind(s) = "endpoint" -> read'[s]
                                [] NextKind(s) = "nowhere" -> None
                                [] OTHER -> @]
  /\ UNCHANGED <<setting, get, client, spc, at, store, events, written, open, got, postVars>>

Send(s) ==
  /\ reader[s] = "sending" /\ Len(events[s]) < Capacity
  /\ events' = [events EXCEPT ![s] = Append(@, carry[s])]
  /\ reader' = [reader EXCEPT ![s] = "reading"]
  /\ UNCHANGED <<setting, get, client, spc, at, store, url, carry, read, written, open, got, postVars>>

ReaderEnds(s) ==
  /\ reader' = [reader EXCEPT ![s] = "ended"]
  /\ UNCHANGED <<setting, get, client, spc, at, store, url, events, carry, read, written, open,
                 got, postVars>>

\* Fault: a goroutine that cannot send does not look at done.
Abandon_Never(s) == FALSE /\ ReaderEnds(s)

\* The select finds done closed.
Abandon(s) ==
  /\ reader[s] = "sending" /\ spc[s] \in {"leaving", "removed", "gone"}
  /\ ReaderEnds(s)

\* The scanner stops: at the end of the stream, or because its body is closed.
ScannerStops(s) ==
  /\ reader[s] = "reading"
  /\ ~open[s]
  /\ read[s] = Len(written[s]) \/ spc[s] = "gone"
  /\ ReaderEnds(s)

-----------------------------------------------------------------------------
(* The handlers of POST *)

PostGoes(p, from, next) ==
  /\ ppc[p] = from
  /\ ppc' = [ppc EXCEPT ![p] = next]

Answer(p, from, code) ==
  /\ PostGoes(p, from, "answered")
  /\ status' = [status EXCEPT ![p] = code]

Told(s) == \E i \in 1..Len(got[s]) : written[s][got[s][i]] \in Announcements

\* The client posts a message to the endpoint it was told.
Post(p, s, k) ==
  LET i == Match(setting.upstreams, get[s].host, MessagesPath)
      next == Dispatch(setting.upstreams, i, MessagesPath, k)
  IN
  /\ p \in setting.posts /\ k \in setting.kinds
  /\ Told(s)
  /\ of' = [of EXCEPT ![p] = s]
  /\ kind' = [kind EXCEPT ![p] = k]
  /\ PostGoes(p, "new", next)
  /\ pat' = [pat EXCEPT ![p] = i]
  /\ status' = [status EXCEPT ![p] = IF next # "answered" THEN @ ELSE IF i = None THEN 502 ELSE 404]
  /\ UNCHANGED <<setting, streamVars, to, forwarded>>

\* sessions.get.
LookUp(p) ==
  /\ IF <<pat[p], of[p]>> \in store
       THEN PostGoes(p, "lookup", "url") /\ UNCHANGED status
       ELSE Answer(p, "lookup", 404)
  /\ UNCHANGED <<setting, streamVars, of, kind, pat, to, forwarded>>

\* getUpstreamMsgURL: 503 unless the upstream has announced one.
ReadURL(p) ==
  /\ ppc[p] = "url"
  /\ IF url[of[p]] # None
       THEN PostGoes(p, "url", "chain") /\ UNCHANGED status
       ELSE Answer(p, "url", 503)
  /\ to' = [to EXCEPT ![p] = url[of[p]]]
  /\ UNCHANGED <<setting, streamVars, of, kind, pat, forwarded>>

\* The body cannot be read: 400.  The chain, or checkAuth, refuses: 401.
Refuse(p) ==
  /\ ppc[p] \in {"chain", "raw"}
  /\ \E code \in {400, 401} : Answer(p, ppc[p], code)
  /\ UNCHANGED <<setting, streamVars, of, kind, pat, to, forwarded>>

\* The message is forwarded; the upstream's status is the answer.
Forward(p) ==
  /\ ppc[p] \in {"chain", "raw"}
  /\ Answer(p, ppc[p], 202)
  /\ forwarded' = [forwarded EXCEPT ![p] = <<pat[p], to[p]>>]
  /\ UNCHANGED <<setting, streamVars, of, kind, pat, to>>

\* 502: the upstream cannot be reached, or is too slow and may have received it.
ForwardFails(p) ==
  /\ ppc[p] \in {"chain", "raw"}
  /\ Answer(p, ppc[p], 502)
  /\ forwarded' \in {forwarded, [forwarded EXCEPT ![p] = <<pat[p], to[p]>>]}
  /\ UNCHANGED <<setting, streamVars, of, kind, pat, to>>

-----------------------------------------------------------------------------

Handler(s) == RelayEnds(s) \/ RemoveSession(s) \/ CloseBody(s)
Reader(s)  == ReadEvent(s) \/ Send(s) \/ Abandon(s) \/ ScannerStops(s)
PostStep(p) == LookUp(p) \/ ReadURL(p) \/ Refuse(p) \/ Forward(p) \/ ForwardFails(p)

Next ==
  \/ \E s \in Streams :
       \/ Connect(s) \/ UpstreamAnswers(s) \/ ConnectFails(s)
       \/ Relay(s) \/ Handler(s) \/ Reader(s)
       \/ ClientLeaves(s) \/ UpstreamEnds(s)
       \/ \E k \in EventKinds : UpstreamWrites(s, k)
  \/ \E p \in Posts : PostStep(p) \/ \E s \in Streams, k \in MessageKinds : Post(p, s, k)

Spec == Init /\ [][Next]_vars

\* Goroutines that can run do; a connection that was cancelled fails, and a
\* forward is over when its time is.
FairSpec ==
  /\ Spec
  /\ \A s \in Streams :
       /\ WF_vars(Handler(s)) /\ WF_vars(Reader(s))
       /\ WF_vars(client[s] = "gone" /\ (UpstreamAnswers(s) \/ ConnectFails(s)))
  /\ \A p \in Posts : WF_vars(PostStep(p))

-----------------------------------------------------------------------------
(* Properties *)

\* Types, and sessions within their channel's capacity.
TypeOK ==
  /\ setting \in Settings
  /\ get \in [Streams -> setting.requests]
  /\ client \in [Streams -> {"there", "gone"}]
  /\ spc \in [Streams -> {"new", "connecting", "relaying", "leaving", "removed", "gone", "refused"}]
  /\ at \in [Streams -> 0..Len(setting.upstreams)]
  /\ store \subseteq (1..Len(setting.upstreams)) \X Streams
  /\ url \in [Streams -> 0..MaxEvents]
  /\ events \in [Streams -> Seq(1..MaxEvents)]
  /\ \A s \in Streams : Len(events[s]) <= Capacity
  /\ reader \in [Streams -> {"none", "reading", "sending", "ended"}]
  /\ carry \in [Streams -> 0..MaxEvents] /\ read \in [Streams -> 0..MaxEvents]
  /\ written \in [Streams -> Seq(EventKinds)]
  /\ open \in [Streams -> BOOLEAN]
  /\ got \in [Streams -> Seq(1..MaxEvents)]
  /\ ppc \in [Posts -> {"new", "lookup", "url", "chain", "raw", "answered"}]
  /\ of \in [Posts -> Streams \cup {NoStream}] /\ kind \in [Posts -> MessageKinds \cup {"none"}]
  /\ pat \in [Posts -> 0..Len(setting.upstreams)]
  /\ to \in [Posts -> 0..MaxEvents]
  /\ forwarded \in [Posts -> {<<>>} \cup (1..Len(setting.upstreams)) \X (0..MaxEvents)]
  /\ status \in [Posts -> {None, 202, 400, 401, 404, 502, 503}]

\* router.go:40-41, README.md:183: "Match priority: Host+Path > Host only > Path
\* only > fallback", whatever the order of the upstreams.
MatchesByPriority ==
  LET us == setting.upstreams IN
  \A h \in Hosts, q \in Paths :
    LET i == Match(us, h, q)
        able == {j \in 1..Len(us) : Matches(us[j], h, q)}
        Names(j) == (IF us[j].host # AnyHost THEN 2 ELSE 0) + (IF us[j].prefix # <<>> THEN 1 ELSE 0)
    IN IF able = {} THEN i = None
       ELSE i \in able /\ \A j \in able : Names(j) <= Names(i) /\ (Names(j) = Names(i) => i <= j)

\* sse.go:129-146, 233-237: a client that has been told where to post is answered
\* that its session is not ready only if the upstream has announced an endpoint
\* without saying which.
ToldIsReady ==
  \A p \in Posts :
    status[p] = 503 => \E i \in 1..read[of[p]] : written[of[p]][i] = "nowhere"

\* Of the first n events of a stream those the client is to get, and a sequence of just
\* these events in their order.
Dataful(s, n) == {i \in 1..n : written[s][i] # "blank"}

InOrder(q, es) == Range(q) = es /\ \A i, j \in 1..Len(q) : i < j => q[i] < q[j]

\* What the goroutine holds.
Held(s) == IF reader[s] = "sending" THEN <<carry[s]>> ELSE <<>>

\* sse.go:112-207: what the client has received, what waits in the channel and
\* what the goroutine holds are the upstream's endpoints and events with data,
\* none missing and in their order; when the upstream ends, the client gets all of them, and
\* one that leaves has got them up to some event.
RelayedInOrder ==
  \A s \in Streams :
    /\ client[s] = "there" => InOrder(got[s] \o events[s] \o Held(s), Dataful(s, read[s]))
    /\ client[s] = "there" /\ spc[s] = "gone" =>
         InOrder(got[s], Dataful(s, read[s])) /\ read[s] = Len(written[s])
    /\ \E n \in 0..read[s] : InOrder(got[s], Dataful(s, n))

\* protocol.go:86-90, sse.go:209-278: with the hint "mcp", a message of any kind
\* that the router sends where it sent the session's GET is forwarded to a URL
\* that the upstream announced on that session, and nowhere else.
HintKeepsSession ==
  \A p \in Posts :
    LET s == of[p] IN
    forwarded[p] # <<>> /\ pat[p] = at[s] /\ setting.upstreams[at[s]].hint = "mcp" =>
      forwarded[p][2] # None /\ written[s][forwarded[p][2]] = "endpoint"

\* sse.go:22-24: "POST /messages -> apply middleware to request, then forward to
\* upstream /messages": the upstream of the session.
PostsReachTheirSession ==
  \A p \in Posts :
    LET s == of[p] IN
    forwarded[p] # <<>> =>
      forwarded[p][1] = at[s] /\ forwarded[p][2] # None

\* sse.go:89-107: a client that leaves takes its session, its upstream connection
\* and its goroutine with it, whatever they are waiting for.
SessionEnds ==
  \A s \in Streams :
    client[s] = "gone" ~> /\ spc[s] \in {"gone", "refused"} /\ reader[s] \in {"none", "ended"}
                          /\ \A i \in 1..Len(setting.upstreams) : <<i, s>> \notin store

\* sse.go:209-278: a post is answered whatever becomes of the session meanwhile.
PostIsAnswered == \A p \in Posts : ppc[p] # "new" ~> ppc[p] = "answered"

\* What holds of the SSE sessions at all times: types, a client that knows its
\* session's URL finds it there, and events reach the client whole and in order.
GatewayInv ==
  /\ TypeOK
  /\ ToldIsReady
  /\ RelayedInOrder

\* sse.go:89-107, 209-278: sessions and posts end, in whatever order client,
\* upstream, handler and reader leave.
AllEnd ==
  /\ SessionEnds
  /\ PostIsAnswered
=============================================================================
