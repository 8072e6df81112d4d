------------------------------ MODULE MCGateway ------------------------------
(* Gateway on small instances. *)
EXTENDS Gateway

CONSTANTS s1, s2, p1, p2

MCPaths == { <<"/sse">>, <<"/messages">>, <<"/api", "/sse">>, <<"/api", "-b", "/sse">>, <<"/api">> }

MCUpstream(host, prefix, strip, transport, hint) ==
  [host |-> host, prefix |-> prefix, strip |-> strip, transport |-> transport, hint |-> hint]

\* Two SSE upstreams told apart by host, one of them also by path.
MCA  == MCUpstream("a", <<>>, FALSE, "sse", "auto")
MCAP == MCUpstream("a", <<"/api">>, TRUE, "streamable", "mcp")
MCB  == MCUpstream("b", <<>>, FALSE, "sse", "mcp")
\* One told by path, and the one for everything else.
MCP  == MCUpstream(AnyHost, <<"/api">>, TRUE, "sse", "mcp")
MCD  == MCUpstream(AnyHost, <<>>, FALSE, "streamable", "auto")
MCUpstreams == {MCA, MCAP, MCB, MCP, MCD}

MCSetting(us, gets, ss, ps, kinds, n) ==
  [upstreams |-> us, requests |-> gets, streams |-> ss, posts |-> ps, kinds |-> kinds, events |-> n]

\* One session, with a longer stream, and with two posts; two sessions among
\* several upstreams; a session behind a path; GETs that find no SSE handler, or no
\* upstream.
MCSettings ==
  { MCSetting(<<MCB>>, {[host |-> "b", path |-> SSEPath]}, {s1}, {p1}, {"response"}, 3),
    MCSetting(<<MCB>>, {[host |-> "b", path |-> SSEPath]}, {s1}, {p1, p2}, {"request"}, 2),
    MCSetting(<<MCD, MCP, MCA, MCAP, MCB>>, {[host |-> "b", path |-> SSEPath]},
              {s1, s2}, {p1}, {"request"}, 1),
    MCSetting(<<MCD, MCP, MCA>>, {[host |-> "b", path |-> <<"/api", "/sse">>]}, {s1}, {p1}, MessageKinds, 2),
    MCSetting(<<MCP>>, {[host |-> "b", path |-> q] : q \in MCPaths}, {s1}, {p1}, {"response"}, 2) }
=============================================================================
