---------------------------- MODULE GatewayProofs ----------------------------
(***************************************************************************)
(* Proofs about Gateway: the router, for any table of upstreams; and the   *)
(* sessions, for any number of streams, posts and events and any capacity  *)
(* of the channels.                                                        *)
(***************************************************************************)
EXTENDS Gateway, WellFoundedInduction, TLAPS

-----------------------------------------------------------------------------
(* The router *)

LEMMA SmallestIs ==
  ASSUME NEW S, S \subseteq Nat, S # {}
  PROVE  \E i \in S : \A j \in S : i <= j
<1>1. PICK i \in S : \A j \in S : <<j, i>> \notin OpToRel(<, Nat)
  BY WFMin, NatLessThanWellFounded, Zenon
<1>2. \A j \in S : ~(j < i)
  BY <1>1, Zenon DEF OpToRel
<1> QED BY <1>2

\* How much an upstream names: the host counts more than the prefix.
NamesOf(u) ==
  (IF u.host # AnyHost THEN 2 ELSE 0) + (IF u.prefix # <<>> THEN 1 ELSE 0)

LEMMA PassIs == \A u : Pass(u) \in 1..4 /\ Pass(u) = 4 - NamesOf(u)
BY DEF Pass, NamesOf

Those(us, pass, h, q) == {i \in 1..Len(us) : Pass(us[i]) = pass /\ Matches(us[i], h, q)}

\* A pass finds the first of its upstreams.
LEMMA FoundIs ==
  ASSUME NEW us \in Seq(Upstreams), NEW pass \in 1..4, NEW h, NEW q
  PROVE  /\ Those(us, pass, h, q) = {} => Found(us, pass, h, q) = None
         /\ Those(us, pass, h, q) # {} =>
              /\ Found(us, pass, h, q) \in Those(us, pass, h, q)
              /\ \A j \in Those(us, pass, h, q) : Found(us, pass, h, q) <= j
<1> DEFINE is == Those(us, pass, h, q)
<1>1. is \subseteq Nat
  BY DEF Those
<1>2. CASE is = {}
  BY <1>2 DEF Those, Found
<1>3. CASE is # {}
  <2>1. \E i \in is : \A j \in is : i <= j
    BY <1>1, <1>3, SmallestIs
  <2>2. Found(us, pass, h, q) = CHOOSE i \in is : \A j \in is : i <= j
    BY <1>3 DEF Those, Found
  <2>3. Found(us, pass, h, q) \in is /\ \A j \in is : Found(us, pass, h, q) <= j
    <3> HIDE DEF is
    <3> QED BY <2>1, <2>2, Zenon
  <2> QED BY <1>3, <2>3
<1> QED BY <1>2, <1>3

\* Match takes the first pass that finds an upstream.
LEMMA MatchIs ==
  ASSUME NEW us \in Seq(Upstreams), NEW h, NEW q
  PROVE  LET able == {j \in 1..Len(us) : Matches(us[j], h, q)}
             i == Match(us, h, q)
         IN IF able = {} THEN i = None
            ELSE i \in able /\ \A j \in able :
                   NamesOf(us[j]) <= NamesOf(us[i]) /\ (NamesOf(us[j]) = NamesOf(us[i]) => i <= j)
<1> DEFINE able == {j \in 1..Len(us) : Matches(us[j], h, q)}
           f == [p \in 1..4 |-> Found(us, p, h, q)]
           hits == {p \in 1..4 : f[p] # None}
           best == CHOOSE p \in hits : \A o \in hits : p <= o
<1>1. Match(us, h, q) = IF hits = {} THEN None ELSE f[best]
  BY DEF Match
<1>2. \A p \in 1..4 : Those(us, p, h, q) = {j \in able : Pass(us[j]) = p}
  BY DEF Those
<1>3. \A p \in 1..4 : f[p] = Found(us, p, h, q)
  OBVIOUS
<1>4. \A p \in 1..4 :
        /\ (p \in hits) <=> \E j \in able : Pass(us[j]) = p
        /\ p \in hits => /\ f[p] \in able /\ Pass(us[f[p]]) = p
                         /\ \A j \in able : Pass(us[j]) = p => f[p] <= j
  <2> SUFFICES ASSUME NEW p \in 1..4
               PROVE  /\ (p \in hits) <=> \E j \in able : Pass(us[j]) = p
                      /\ p \in hits => /\ f[p] \in able /\ Pass(us[f[p]]) = p
                                       /\ \A j \in able : Pass(us[j]) = p => f[p] <= j
    OBVIOUS
  <2>1. p \in hits <=> Found(us, p, h, q) # None
    BY <1>3
  <2>2. None \notin able
    BY DEF None
  <2> HIDE DEF f, hits
  <2>3. CASE Those(us, p, h, q) = {}
    BY <1>2, <2>1, <2>3, FoundIs
  <2>4. CASE Those(us, p, h, q) # {}
    <3>1. /\ Found(us, p, h, q) \in Those(us, p, h, q)
          /\ \A j \in Those(us, p, h, q) : Found(us, p, h, q) <= j
      BY <2>4, FoundIs
    <3>2. Found(us, p, h, q) \in able /\ Pass(us[Found(us, p, h, q)]) = p
      BY <1>2, <3>1
    <3>3. \A j \in able : Pass(us[j]) = p => Found(us, p, h, q) <= j
      BY <1>2, <3>1
    <3> QED BY <1>3, <2>1, <2>2, <3>2, <3>3
  <2> QED BY <2>3, <2>4
<1>5. hits \subseteq 1..4
  OBVIOUS
<1> HIDE DEF able, f, hits
<1>6. CASE able = {}
  BY <1>1, <1>4, <1>5, <1>6 DEF able
<1>7. CASE able # {}
  <2>1. hits # {}
    BY <1>4, <1>7, PassIs
  <2>2. \E p \in hits : \A o \in hits : p <= o
    <3>1. hits \subseteq Nat
      BY <1>5
    <3> QED BY <2>1, <3>1, SmallestIs
  <2>3. best \in hits /\ \A o \in hits : best <= o
    BY <2>2
  <2> HIDE DEF best
  <2>4. /\ f[best] \in able /\ Pass(us[f[best]]) = best
        /\ \A j \in able : Pass(us[j]) = best => f[best] <= j
    BY <1>4, <1>5, <2>3
  <2>5. \A j \in able : best <= Pass(us[j])
    BY <1>4, <2>3, PassIs
  <2>6. \A j \in able : NamesOf(us[j]) \in 0..3 /\ Pass(us[j]) = 4 - NamesOf(us[j])
    BY PassIs DEF NamesOf
  <2>7. \A j \in able : /\ NamesOf(us[j]) <= NamesOf(us[f[best]])
                        /\ NamesOf(us[j]) = NamesOf(us[f[best]]) => f[best] <= j
    BY <2>4, <2>5, <2>6
  <2> QED BY <1>1, <1>7, <2>1, <2>4, <2>7 DEF able
<1> QED BY <1>6, <1>7 DEF able

LEMMA MatchInRange ==
  ASSUME NEW us \in Seq(Upstreams), NEW h, NEW q
  PROVE  Match(us, h, q) \in 0..Len(us)
BY MatchIs DEF None

-----------------------------------------------------------------------------
(* Sessions and posts *)

\* Streams whose upstream has answered.
Begun == {"relaying", "leaving", "removed", "gone"}

GatewayTypes ==
  /\ setting \in Settings
  /\ spc \in [Streams -> {"new", "connecting", "refused"} \cup Begun]
  /\ at \in [Streams -> Nat] /\ url \in [Streams -> Nat]
  /\ carry \in [Streams -> Nat] /\ read \in [Streams -> Nat]
  /\ reader \in [Streams -> {"none", "reading", "sending", "ended"}]
  /\ events \in [Streams -> Seq(Nat)] /\ got \in [Streams -> Seq(Nat)]
  /\ written \in [Streams -> Seq(EventKinds)]
  /\ ppc \in [Posts -> {"new", "lookup", "url", "chain", "raw", "answered"}]
  /\ of \in [Posts -> Streams \cup {NoStream}]
  /\ pat \in [Posts -> Nat] /\ to \in [Posts -> Nat] /\ status \in [Posts -> Nat]
  /\ forwarded \in [Posts -> {<<>>} \cup Nat \X Nat]

\* The upstream has announced an endpoint without saying which; one with its URL,
\* or such a one.
Nowhere(s) == \E i \in 1..read[s] : written[s][i] = "nowhere"
Ready(s)   == url[s] # None \/ Nowhere(s)

\* An event that is anywhere has been read, and an announcement has left its mark.
EventsAreRead ==
  \A s \in Streams :
    /\ read[s] <= Len(written[s])
    /\ reader[s] = "sending" => carry[s] \in 1..read[s]
    /\ \A i \in 1..Len(events[s]) : events[s][i] \in 1..read[s]
    /\ \A i \in 1..Len(got[s]) : got[s][i] \in 1..read[s]
    /\ url[s] # None => url[s] \in 1..read[s] /\ written[s][url[s]] = "endpoint"
    /\ (\E i \in 1..read[s] : written[s][i] \in Announcements) => Ready(s)

\* A client has received nothing before the upstream has answered, and the one
\* that answers serves SSE.
StreamsFit ==
  \A s \in Streams :
    /\ spc[s] \in {"new", "connecting", "refused"} => got[s] = <<>>
    /\ spc[s] \in Begun \cup {"connecting"} => setting.upstreams[at[s]].transport = "sse"

Announced(s, u) == u \in 1..Len(written[s]) /\ written[s][u] = "endpoint"

AtItsStream(p) == pat[p] = at[of[p]] /\ setting.upstreams[at[of[p]]].hint = "mcp"

\* A post is of a stream that has begun and announced an endpoint; with the hint it
\* is not forwarded raw where its stream is.
PostsFit ==
  \A p \in Posts :
    /\ ppc[p] = "new" => forwarded[p] = <<>>
    /\ ppc[p] # "new" => of[p] \in Streams /\ spc[of[p]] \in Begun /\ Ready(of[p])
    /\ ppc[p] = "raw" => ~AtItsStream(p)
    /\ ppc[p] = "chain" => Announced(of[p], to[p])
    /\ forwarded[p] # <<>> /\ AtItsStream(p) => Announced(of[p], forwarded[p][2])
    /\ status[p] = 503 => ppc[p] # "new" /\ Nowhere(of[p])

GatewayIInv == GatewayTypes /\ EventsAreRead /\ StreamsFit /\ PostsFit

LEMMA GatewayInitHolds == Init => GatewayIInv
<1> SUFFICES ASSUME Init PROVE GatewayIInv
  OBVIOUS
<1> USE DEF Init, None
<1>1. GatewayTypes
  BY DEF GatewayTypes
<1>2. EventsAreRead /\ StreamsFit /\ PostsFit
  BY DEF EventsAreRead, StreamsFit, PostsFit, Begun
<1> QED BY <1>1, <1>2 DEF GatewayIInv

\* What has been read stays.
LEMMA NowhereStays ==
  ASSUME NEW s \in Streams,
         \A i \in 1..read[s] : i \in 1..read'[s] /\ written'[s][i] = written[s][i]
  PROVE  Nowhere(s) => Nowhere(s)'
BY DEF Nowhere

\* A step of a stream leaves the posts right if what has begun goes on where it
\* was and what was announced stays announced.
LEMMA PostsStay ==
  ASSUME GatewayIInv, UNCHANGED <<setting, postVars>>,
         \A s \in Streams :
           /\ spc[s] \in Begun => spc'[s] \in Begun /\ at'[s] = at[s]
           /\ Ready(s) => Ready(s)'
           /\ Nowhere(s) => Nowhere(s)'
           /\ \A u \in Nat : Announced(s, u) => Announced(s, u)'
  PROVE  PostsFit'
<1>1. /\ UNCHANGED <<ppc, of, pat, to, forwarded, status>>
  BY DEF postVars
<1> SUFFICES ASSUME NEW p \in Posts
             PROVE  /\ ppc'[p] = "new" => forwarded'[p] = <<>>
                    /\ ppc'[p] # "new" =>
                         of'[p] \in Streams /\ spc'[of'[p]] \in Begun /\ Ready(of[p])'
                    /\ ppc'[p] = "raw" => ~AtItsStream(p)'
                    /\ ppc'[p] = "chain" => Announced(of[p], to[p])'
                    /\ forwarded'[p] # <<>> /\ AtItsStream(p)' =>
                         Announced(of[p], forwarded[p][2])'
                    /\ status'[p] = 503 => ppc'[p] # "new" /\ Nowhere(of[p])'
  BY DEF PostsFit
<1>2. CASE ppc[p] = "new"
  BY <1>1, <1>2 DEF GatewayIInv, PostsFit
<1>3. CASE ppc[p] # "new"
  <2>1. of[p] \in Streams /\ spc[of[p]] \in Begun /\ Ready(of[p])
    BY <1>3 DEF GatewayIInv, PostsFit
  <2>2. AtItsStream(p)' <=> AtItsStream(p)
    BY <1>1, <2>1 DEF AtItsStream
  <2>3. to[p] \in Nat /\ (forwarded[p] # <<>> => forwarded[p][2] \in Nat)
    BY DEF GatewayIInv, GatewayTypes
  <2>4. /\ ppc[p] = "chain" => Announced(of[p], to[p])'
        /\ forwarded[p] # <<>> /\ AtItsStream(p) => Announced(of[p], forwarded[p][2])'
    BY <1>1, <2>1, <2>3 DEF GatewayIInv, PostsFit
  <2> QED BY <1>1, <1>3, <2>1, <2>2, <2>4 DEF GatewayIInv, PostsFit
<1> QED BY <1>2, <1>3

\* A function with one value changed.
LEMMA Changed ==
  ASSUME NEW S, NEW T, NEW f \in [S -> T], NEW x \in S, NEW v \in T
  PROVE  [f EXCEPT ![x] = v] \in [S -> T]
OBVIOUS

LEMMA ConnectKeeps ==
  ASSUME GatewayIInv, NEW s \in Streams, Connect(s)
  PROVE  GatewayIInv'
<1> DEFINE i == Match(setting.upstreams, get[s].host, get[s].path)
<1>1. setting.upstreams \in Seq(Upstreams)
  BY GatewayAssumption DEF GatewayIInv, GatewayTypes
<1>2. i \in Nat
  BY <1>1, MatchInRange
<1> HIDE DEF i
<1>3. /\ spc[s] = "new" /\ at' = [at EXCEPT ![s] = i]
      /\ \/ /\ spc' = [spc EXCEPT ![s] = "connecting"]
            /\ setting.upstreams[i].transport = "sse"
         \/ spc' = [spc EXCEPT ![s] = "refused"]
      /\ UNCHANGED <<setting, url, events, reader, carry, read, written, got, postVars>>
  BY DEF Connect, HandlerGoes, ServesSSE, i
<1>4. GatewayTypes'
  BY <1>2, <1>3 DEF GatewayIInv, GatewayTypes, postVars
<1>5. EventsAreRead'
  BY <1>3 DEF GatewayIInv, EventsAreRead, Ready, Nowhere
<1>6. StreamsFit'
  BY <1>3 DEF GatewayIInv, GatewayTypes, StreamsFit, Begun
<1>7. PostsFit'
  <2>1. \A t \in Streams :
          /\ spc[t] \in Begun => spc'[t] \in Begun /\ at'[t] = at[t]
          /\ Ready(t) => Ready(t)'
          /\ Nowhere(t) => Nowhere(t)'
          /\ \A u \in Nat : Announced(t, u) => Announced(t, u)'
    BY <1>3 DEF GatewayIInv, GatewayTypes, Begun, Announced, Ready, Nowhere
  <2> QED BY <1>3, <2>1, PostsStay
<1> QED BY <1>4, <1>5, <1>6, <1>7 DEF GatewayIInv

\* The other steps of the handler but Relay, the client and the upstream's end.
LEMMA HandlerKeeps ==
  ASSUME GatewayIInv, NEW s \in Streams,
         \/ UpstreamAnswers(s) \/ ConnectFails(s) \/ Handler(s)
         \/ ClientLeaves(s) \/ UpstreamEnds(s)
  PROVE  GatewayIInv'
<1>1. /\ UNCHANGED <<setting, at, url, events, carry, read, written, got, postVars>>
      /\ \/ UNCHANGED spc
         \/ spc[s] = "connecting" /\ spc' = [spc EXCEPT ![s] = "refused"]
         \/ spc[s] = "connecting" /\ spc' = [spc EXCEPT ![s] = "relaying"]
         \/ spc[s] = "relaying" /\ spc' = [spc EXCEPT ![s] = "leaving"]
         \/ spc[s] = "leaving" /\ spc' = [spc EXCEPT ![s] = "removed"]
         \/ spc[s] = "removed" /\ spc' = [spc EXCEPT ![s] = "gone"]
      /\ UNCHANGED reader \/ reader' = [reader EXCEPT ![s] = "reading"]
  BY DEF UpstreamAnswers, ConnectFails, Handler, RelayEnds, RemoveSession, CloseBody,
         ClientLeaves, UpstreamEnds, HandlerGoes
<1>2. \A t \in Streams :
        /\ spc'[t] # spc[t] => spc[t] \in Begun \cup {"connecting"}
                               /\ spc'[t] \in Begun \cup {"refused"}
        /\ spc[t] \in Begun => spc'[t] \in Begun
        /\ reader'[t] = "sending" => reader[t] = "sending"
        /\ spc'[t] = "connecting" => spc[t] = "connecting"
        /\ spc'[t] \in {"new", "connecting", "refused"} =>
             spc[t] \in {"new", "connecting", "refused"}
  <2>1. /\ spc \in [Streams -> {"new", "connecting", "refused"} \cup Begun]
        /\ reader \in [Streams -> {"none", "reading", "sending", "ended"}]
    BY Zenon DEF GatewayIInv, GatewayTypes
  <2>2. /\ UNCHANGED spc \/ \A t \in Streams : t # s => spc'[t] = spc[t]
        /\ UNCHANGED reader \/ \A t \in Streams : reader'[t] = IF t = s THEN "reading" ELSE reader[t]
    BY <1>1, <2>1
  <2>3. \/ spc'[s] = spc[s]
        \/ spc[s] = "connecting" /\ spc'[s] \in {"refused", "relaying"}
        \/ spc[s] \in Begun /\ spc'[s] \in Begun
    BY <1>1, <2>1 DEF Begun
  <2> QED BY <2>1, <2>2, <2>3 DEF Begun
<1>3. GatewayTypes'
  BY <1>1 DEF GatewayIInv, GatewayTypes, Begun, postVars
<1>4. EventsAreRead'
  BY <1>1, <1>2 DEF GatewayIInv, EventsAreRead, Ready, Nowhere
<1>5. StreamsFit'
  BY <1>1, <1>2 DEF GatewayIInv, StreamsFit, Begun
<1>6. PostsFit'
  <2>1. \A t \in Streams : /\ Ready(t) => Ready(t)'
                           /\ Nowhere(t) => Nowhere(t)'
                           /\ \A u \in Nat : Announced(t, u) => Announced(t, u)'
    BY <1>1 DEF Announced, Ready, Nowhere
  <2> QED BY <1>1, <1>2, <2>1, PostsStay
<1> QED BY <1>3, <1>4, <1>5, <1>6 DEF GatewayIInv

\* What is added to a sequence comes after what was there.
LEMMA AppendedIs ==
  ASSUME NEW S, NEW q \in Seq(S), NEW x \in S
  PROVE  /\ Append(q, x) \in Seq(S)
         /\ Len(q) <= Len(Append(q, x))
         /\ \A i \in 1..Len(q) : Append(q, x)[i] = q[i]
         /\ \A i \in 1..Len(Append(q, x)) : i \in 1..Len(q) \/ Append(q, x)[i] = x
OBVIOUS

LEMMA RelayKeeps ==
  ASSUME GatewayIInv, NEW s \in Streams, Relay(s)
  PROVE  GatewayIInv'
<1>1. /\ UNCHANGED <<setting, at, url, reader, carry, read, written, postVars>>
      /\ spc[s] = "relaying" /\ events[s] # <<>>
      /\ events' = [events EXCEPT ![s] = Tail(@)]
      /\ \/ got' = [got EXCEPT ![s] = Append(@, Head(events[s]))] /\ UNCHANGED spc
         \/ spc' = [spc EXCEPT ![s] = "leaving"] /\ UNCHANGED got
  BY DEF Relay, HandlerGoes
<1>2. events[s] \in Seq(Nat) /\ got[s] \in Seq(Nat)
  BY DEF GatewayIInv, GatewayTypes
<1>3. /\ Head(events[s]) = events[s][1] /\ Head(events[s]) \in Nat
      /\ Tail(events[s]) \in Seq(Nat)
      /\ \A i \in 1..Len(Tail(events[s])) : Tail(events[s])[i] = events[s][i + 1]
      /\ Len(Tail(events[s])) = Len(events[s]) - 1
  BY <1>1, <1>2
<1>4. GatewayTypes'
  <2>1. got \in [Streams -> Seq(Nat)] /\ events \in [Streams -> Seq(Nat)]
    BY DEF GatewayIInv, GatewayTypes
  <2>2. Append(got[s], Head(events[s])) \in Seq(Nat)
    BY <1>2, <1>3
  <2>3. got' \in [Streams -> Seq(Nat)]
    BY <1>1, <2>1, <2>2
  <2>4. events' \in [Streams -> Seq(Nat)]
    BY <1>1, <1>3, <2>1
  <2> QED BY <1>1, <2>3, <2>4 DEF GatewayIInv, GatewayTypes, Begun, postVars
<1>5. EventsAreRead'
  <2> SUFFICES ASSUME NEW t \in Streams
               PROVE  /\ \A i \in 1..Len(events'[t]) : events'[t][i] \in 1..read[t]
                      /\ \A i \in 1..Len(got'[t]) : got'[t][i] \in 1..read[t]
    BY <1>1, Zenon DEF GatewayIInv, EventsAreRead, Ready, Nowhere
  <2>1. CASE t # s
    <3>1. events'[t] = events[t] /\ got'[t] = got[t]
      BY <1>1, <2>1 DEF GatewayIInv, GatewayTypes
    <3>2. /\ \A i \in 1..Len(events[t]) : events[t][i] \in 1..read[t]
          /\ \A i \in 1..Len(got[t]) : got[t][i] \in 1..read[t]
      BY DEF GatewayIInv, EventsAreRead
    <3> QED BY ONLY <3>1, <3>2
  <2>2. CASE t = s
    <3>1. events'[s] = Tail(events[s])
      BY <1>1 DEF GatewayIInv, GatewayTypes
    <3>2. \A i \in 1..Len(events[s]) : events[s][i] \in 1..read[s]
      BY DEF GatewayIInv, EventsAreRead
    <3>3. \A i \in 1..Len(events'[s]) : events'[s][i] \in 1..read[s]
      <4> SUFFICES ASSUME NEW i \in 1..Len(Tail(events[s]))
                   PROVE  Tail(events[s])[i] \in 1..read[s]
        BY <3>1, Zenon
      <4>1. Len(events[s]) \in Nat /\ Len(Tail(events[s])) = Len(events[s]) - 1
        BY <1>2, <1>3
      <4>2. i + 1 \in 1..Len(events[s])
        BY ONLY <4>1, i \in 1..Len(Tail(events[s]))
      <4>3. Tail(events[s])[i] = events[s][i + 1]
        BY <1>3
      <4> QED BY <3>2, <4>2, <4>3, Zenon
    <3>4. \/ got'[s] = Append(got[s], events[s][1])
          \/ got'[s] = got[s]
      BY <1>1, <1>3 DEF GatewayIInv, GatewayTypes
    <3>5. events[s][1] \in 1..read[s]
      BY <1>1, <1>2, <3>2
    <3>6. \A i \in 1..Len(got[s]) : got[s][i] \in 1..read[s]
      BY DEF GatewayIInv, EventsAreRead
    <3>7. \A i \in 1..Len(got'[s]) : got'[s][i] \in 1..read[s]
      <4>1. events[s][1] \in Nat
        BY <1>3
      <4>2. \A i \in 1..Len(Append(got[s], events[s][1])) :
              i \in 1..Len(got[s]) \/ Append(got[s], events[s][1])[i] = events[s][1]
        BY <1>2, <4>1, AppendedIs
      <4>3. \A i \in 1..Len(got[s]) : Append(got[s], events[s][1])[i] = got[s][i]
        BY <1>2, <4>1, AppendedIs
      <4>4. CASE got'[s] = got[s]
        BY <3>6, <4>4
      <4>5. CASE got'[s] = Append(got[s], events[s][1])
        BY <3>5, <3>6, <4>2, <4>3, <4>5
      <4> QED BY <3>4, <4>4, <4>5
    <3> QED BY <2>2, <3>3, <3>7
  <2> QED BY <2>1, <2>2
<1>6. \A t \in Streams : /\ spc'[t] # spc[t] => t = s /\ spc'[t] = "leaving"
                         /\ got'[t] # got[t] => t = s
  BY <1>1 DEF GatewayIInv, GatewayTypes
<1>7. StreamsFit'
  BY <1>1, <1>6 DEF GatewayIInv, StreamsFit, Begun
<1>8. PostsFit'
  <2>1. \A t \in Streams : /\ Ready(t) => Ready(t)'
                           /\ Nowhere(t) => Nowhere(t)'
                           /\ \A u \in Nat : Announced(t, u) => Announced(t, u)'
    BY <1>1 DEF Announced, Ready, Nowhere
  <2>2. \A t \in Streams : spc[t] \in Begun => spc'[t] \in Begun
    BY <1>6 DEF Begun
  <2> QED BY <1>1, <2>1, <2>2, PostsStay
<1> QED BY <1>4, <1>5, <1>7, <1>8 DEF GatewayIInv

LEMMA WritesKeeps ==
  ASSUME GatewayIInv, NEW s \in Streams, NEW k \in EventKinds, UpstreamWrites(s, k)
  PROVE  GatewayIInv'
<1>1. /\ UNCHANGED <<setting, spc, at, url, events, reader, carry, read, got, postVars>>
      /\ written' = [written EXCEPT ![s] = Append(@, k)]
  BY DEF UpstreamWrites
<1>2. \A t \in Streams : /\ written[t] \in Seq(EventKinds)
                         /\ written'[t] = IF t = s THEN Append(written[t], k) ELSE written[t]
  BY <1>1 DEF GatewayIInv, GatewayTypes
<1>3. \A t \in Streams : /\ Len(written[t]) <= Len(written'[t])
                         /\ \A i \in 1..Len(written[t]) : written'[t][i] = written[t][i]
  <2> SUFFICES ASSUME NEW t \in Streams
               PROVE  /\ Len(written[t]) <= Len(written'[t])
                      /\ \A i \in 1..Len(written[t]) : written'[t][i] = written[t][i]
    OBVIOUS
  <2>1. /\ Len(written[t]) <= Len(Append(written[t], k))
        /\ \A i \in 1..Len(written[t]) : Append(written[t], k)[i] = written[t][i]
    BY <1>2, AppendedIs
  <2>2. CASE t = s
    BY <1>2, <2>1, <2>2
  <2>3. CASE t # s
    <3>1. written'[t] = written[t] /\ Len(written[t]) \in Nat
      BY <1>2, <2>3
    <3> QED BY <3>1
  <2> QED BY <2>2, <2>3
<1>4. GatewayTypes'
  <2>1. written' \in [Streams -> Seq(EventKinds)]
    <3>1. DOMAIN written = Streams /\ written = [t \in Streams |-> written[t]]
      BY DEF GatewayIInv, GatewayTypes
    <3>2. written' = [t \in Streams |-> IF t = s THEN Append(written[s], k) ELSE written[t]]
      BY ONLY <1>1, <3>1
    <3>3. \A t \in Streams :
            (IF t = s THEN Append(written[s], k) ELSE written[t]) \in Seq(EventKinds)
      BY <1>2
    <3> QED BY ONLY <3>2, <3>3
  <2>2. GatewayTypes
    BY ONLY GatewayIInv DEF GatewayIInv
  <2> QED BY ONLY <1>1, <2>1, <2>2 DEF GatewayTypes, postVars
<1>8. \A t \in Streams : /\ Ready(t) => Ready(t)'
                         /\ Nowhere(t) => Nowhere(t)'
  <2> SUFFICES ASSUME NEW t \in Streams PROVE Nowhere(t) => Nowhere(t)'
    BY <1>1 DEF Ready
  <2>1. read[t] \in Nat /\ Len(written[t]) \in Nat /\ read[t] <= Len(written[t])
    BY <1>2 DEF GatewayIInv, GatewayTypes, EventsAreRead
  <2> QED BY <1>1, <1>3, <2>1, NowhereStays
<1>5. EventsAreRead'
  <2>1. \A t \in Streams : read[t] \in Nat /\ Len(written[t]) \in Nat /\ Len(written'[t]) \in Nat
    <3>1. read \in [Streams -> Nat] /\ written' \in [Streams -> Seq(EventKinds)]
      BY <1>4, Zenon DEF GatewayIInv, GatewayTypes
    <3> QED BY <1>2, <3>1
  <2>2. \A t \in Streams : \A i \in 1..read[t] : i \in 1..Len(written[t])
    BY <2>1 DEF GatewayIInv, EventsAreRead
  <2>3. \A t \in Streams :
          (\E i \in 1..read[t] : written'[t][i] \in Announcements) => Ready(t)'
    BY <1>3, <1>8, <2>2 DEF GatewayIInv, EventsAreRead
  <2>4. \A t \in Streams :
          /\ read[t] <= Len(written'[t])
          /\ url[t] # None => url[t] \in 1..read[t] /\ written'[t][url[t]] = "endpoint"
    BY <1>3, <2>1, <2>2 DEF GatewayIInv, EventsAreRead
  <2> QED BY <1>1, <2>3, <2>4 DEF GatewayIInv, EventsAreRead
<1>6. StreamsFit'
  BY <1>1 DEF GatewayIInv, StreamsFit
<1>7. PostsFit'
  <2>1. \A t \in Streams, u \in Nat : Announced(t, u) => Announced(t, u)'
    BY <1>2, <1>3 DEF Announced
  <2> QED BY <1>1, <1>8, <2>1, PostsStay
<1> QED BY <1>4, <1>5, <1>6, <1>7 DEF GatewayIInv

LEMMA ReaderKeeps ==
  ASSUME GatewayIInv, NEW s \in Streams, Reader(s)
  PROVE  GatewayIInv'
<1> USE DEF GatewayIInv
<1>1. UNCHANGED <<setting, spc, at, written, got, postVars>>
  BY DEF Reader, ReadEvent, Send, Abandon, ScannerStops, ReaderEnds
<1>2. StreamsFit'
  BY <1>1 DEF StreamsFit
<1>3. \A t \in Streams, u \in Nat : Announced(t, u) => Announced(t, u)'
  BY <1>1 DEF Announced
<1>4. ASSUME ReadEvent(s) PROVE GatewayIInv'
  <2> DEFINE n == read[s] + 1
  <2>1. /\ UNCHANGED events
        /\ read[s] < Len(written[s]) /\ reader[s] = "reading"
        /\ read' = [read EXCEPT ![s] = n]
        /\ url' = [url EXCEPT ![s] = CASE written[s][n] = "endpoint" -> n
                                     [] written[s][n] = "nowhere" -> None
                                     [] OTHER -> @]
        /\ \/ UNCHANGED <<reader, carry>>
           \/ reader' = [reader EXCEPT ![s] = "sending"] /\ carry' = [carry EXCEPT ![s] = n]
    BY <1>4 DEF ReadEvent, NextKind, GatewayTypes
  <2>2. read[s] \in Nat /\ n \in Nat /\ written[s] \in Seq(EventKinds)
    BY DEF GatewayTypes
  <2>3. GatewayTypes'
    <3>1. url' \in [Streams -> Nat] /\ read' \in [Streams -> Nat]
      <4>1. url \in [Streams -> Nat] /\ read \in [Streams -> Nat]
        BY DEF GatewayTypes
      <4>2. \/ url' = [url EXCEPT ![s] = n] \/ url' = [url EXCEPT ![s] = url[s]]
            \/ url' = [url EXCEPT ![s] = 0]
        BY <2>1 DEF None
      <4> HIDE DEF n
      <4> QED BY <2>1, <2>2, <4>1, <4>2
    <3>2. carry' \in [Streams -> Nat]
      BY <2>1, <2>2, Changed DEF GatewayTypes
    <3>3. reader' \in [Streams -> {"none", "reading", "sending", "ended"}]
      BY <2>1, Changed DEF GatewayTypes
    <3> QED BY <1>1, <2>1, <3>1, <3>2, <3>3 DEF GatewayTypes, postVars
  <2>4. /\ read'[s] = n
        /\ url'[s] = CASE written[s][n] = "endpoint" -> n
                     [] written[s][n] = "nowhere" -> None
                     [] OTHER -> url[s]
        /\ reader'[s] = "sending" => carry'[s] = n
        /\ \A t \in Streams \ {s} : /\ read'[t] = read[t] /\ url'[t] = url[t]
                                    /\ reader'[t] = reader[t] /\ carry'[t] = carry[t]
    BY <2>1 DEF GatewayTypes
  <2> HIDE DEF n
  <2>5. /\ n \in 1..Len(written[s]) /\ n = read[s] + 1
        /\ 1..read[s] \subseteq 1..n /\ 1..n = 1..read[s] \cup {n}
    BY <2>1, <2>2 DEF n
  <2>7. \A t \in Streams : /\ Ready(t) => Ready(t)'
                           /\ Nowhere(t) => Nowhere(t)'
    <3> SUFFICES ASSUME NEW t \in Streams PROVE /\ Ready(t) => Ready(t)'
                                                /\ Nowhere(t) => Nowhere(t)'
      OBVIOUS
    <3>1. Nowhere(t) => Nowhere(t)'
      BY <1>1, <2>4, <2>5, NowhereStays
    <3>2. CASE t # s
      BY <2>4, <3>1, <3>2 DEF Ready
    <3>3. CASE t = s /\ written[s][n] = "nowhere"
      BY <1>1, <2>4, <2>5, <3>1, <3>3 DEF Ready, Nowhere
    <3>4. CASE t = s /\ written[s][n] # "nowhere"
      <4>1. url'[s] = n \/ url'[s] = url[s]
        BY <2>4, <3>4
      <4>2. n # None
        BY <2>5 DEF None
      <4> QED BY <3>1, <3>4, <4>1, <4>2 DEF Ready
    <3> QED BY <3>1, <3>2, <3>3, <3>4
  <2>6. EventsAreRead'
    <3> SUFFICES ASSUME NEW t \in Streams
                 PROVE  /\ read'[t] <= Len(written[t])
                        /\ reader'[t] = "sending" => carry'[t] \in 1..read'[t]
                        /\ \A i \in 1..Len(events[t]) : events[t][i] \in 1..read'[t]
                        /\ \A i \in 1..Len(got[t]) : got[t][i] \in 1..read'[t]
                        /\ url'[t] # None => url'[t] \in 1..read'[t] /\ written[t][url'[t]] = "endpoint"
                        /\ (\E i \in 1..read'[t] : written[t][i] \in Announcements) => Ready(t)'
      BY <1>1, <2>1 DEF EventsAreRead
    <3>1. CASE t # s
      BY <2>4, <2>7, <3>1 DEF EventsAreRead
    <3>2. CASE t = s
      <4>1. /\ n <= Len(written[s])
            /\ reader'[s] = "sending" => carry'[s] \in 1..n
        BY <2>2, <2>4, <2>5
      <4>2. /\ \A i \in 1..Len(events[s]) : events[s][i] \in 1..n
            /\ \A i \in 1..Len(got[s]) : got[s][i] \in 1..n
        BY <2>5 DEF EventsAreRead
      <4>3. url'[s] # None => url'[s] \in 1..n /\ written[s][url'[s]] = "endpoint"
        BY <2>4, <2>5 DEF EventsAreRead
      <4>4. ASSUME NEW i \in 1..n, written[s][i] \in Announcements PROVE Ready(s)'
        <5>1. CASE i \in 1..read[s]
          BY <2>7, <5>1, <4>4 DEF EventsAreRead
        <5>2. CASE i = n /\ written[s][n] = "endpoint"
          BY <2>2, <2>4, <2>5, <5>2 DEF Ready, None
        <5>3. CASE i = n /\ written[s][n] = "nowhere"
          BY <1>1, <2>4, <2>5, <5>3 DEF Ready, Nowhere
        <5> QED BY <2>5, <4>4, <5>1, <5>2, <5>3 DEF Announcements
      <4> QED BY <2>4, <3>2, <4>1, <4>2, <4>3, <4>4
    <3> QED BY <3>1, <3>2
  <2> QED BY <1>1, <1>2, <1>3, <2>3, <2>6, <2>7, PostsStay
<1>5. ASSUME Send(s) PROVE GatewayIInv'
  <2>1. /\ UNCHANGED <<url, carry, read>> /\ reader[s] = "sending"
        /\ events' = [events EXCEPT ![s] = Append(@, carry[s])]
        /\ reader' = [reader EXCEPT ![s] = "reading"]
    BY <1>5 DEF Send
  <2>2. \A t \in Streams :
          /\ events[t] \in Seq(Nat) /\ carry[t] \in Nat
          /\ events'[t] = IF t = s THEN Append(events[t], carry[t]) ELSE events[t]
          /\ reader'[t] = IF t = s THEN "reading" ELSE reader[t]
    BY <2>1 DEF GatewayTypes
  <2>3. GatewayTypes'
    <3>1. events' \in [Streams -> Seq(Nat)]
      BY <2>1, <2>2 DEF GatewayTypes
    <3>2. reader' \in [Streams -> {"none", "reading", "sending", "ended"}]
      BY <2>1 DEF GatewayTypes
    <3> QED BY <1>1, <2>1, <3>1, <3>2 DEF GatewayTypes, postVars
  <2>4. \A t \in Streams : \A i \in 1..Len(events'[t]) : events'[t][i] \in 1..read[t]
    <3>1. carry[s] \in 1..read[s]
      BY <2>1 DEF EventsAreRead
    <3>2. /\ \A i \in 1..Len(Append(events[s], carry[s])) :
                i \in 1..Len(events[s]) \/ Append(events[s], carry[s])[i] = carry[s]
          /\ \A i \in 1..Len(events[s]) : Append(events[s], carry[s])[i] = events[s][i]
      BY <2>2, AppendedIs
    <3>3. \A i \in 1..Len(events'[s]) : events'[s][i] \in 1..read[s]
      BY <2>2, <3>1, <3>2 DEF EventsAreRead
    <3>4. \A t \in Streams \ {s} : \A i \in 1..Len(events'[t]) : events'[t][i] \in 1..read[t]
      BY <2>2 DEF EventsAreRead
    <3> QED BY <3>3, <3>4
  <2>5. EventsAreRead'
    <3>1. read' = read /\ written' = written /\ carry' = carry /\ got' = got /\ url' = url
      BY ONLY <1>1, <2>1
    <3>2. \A t \in Streams : reader'[t] = "sending" => reader[t] = "sending"
      BY ONLY <2>2
    <3> SUFFICES ASSUME NEW t \in Streams
                 PROVE  /\ read'[t] <= Len(written'[t])
                        /\ reader'[t] = "sending" => carry'[t] \in 1..read'[t]
                        /\ \A i \in 1..Len(events'[t]) : events'[t][i] \in 1..read'[t]
                        /\ \A i \in 1..Len(got'[t]) : got'[t][i] \in 1..read'[t]
                        /\ url'[t] # None =>
                             url'[t] \in 1..read'[t] /\ written'[t][url'[t]] = "endpoint"
                        /\ (\E i \in 1..read'[t] : written'[t][i] \in Announcements)
                             => Ready(t)'
      BY Zenon DEF EventsAreRead
    <3>3. /\ read[t] <= Len(written[t])
          /\ reader[t] = "sending" => carry[t] \in 1..read[t]
          /\ \A i \in 1..Len(got[t]) : got[t][i] \in 1..read[t]
          /\ url[t] # None => url[t] \in 1..read[t] /\ written[t][url[t]] = "endpoint"
          /\ (\E i \in 1..read[t] : written[t][i] \in Announcements) => Ready(t)
      BY DEF EventsAreRead
    <3>4. Ready(t)' <=> Ready(t)
      BY <3>1 DEF Ready, Nowhere
    <3> QED BY ONLY Zenon, <2>4, <3>1, <3>2, <3>3, <3>4
  <2>6. \A t \in Streams : (Ready(t) => Ready(t)') /\ (Nowhere(t) => Nowhere(t)')
    BY <1>1, <2>1 DEF Ready, Nowhere
  <2> QED BY <1>1, <1>2, <1>3, <2>1, <2>3, <2>5, <2>6, PostsStay
<1>6. ASSUME ReaderEnds(s) PROVE GatewayIInv'
  <2>1. /\ UNCHANGED <<url, events, carry, read>>
        /\ reader' = [reader EXCEPT ![s] = "ended"]
    BY <1>6 DEF ReaderEnds
  <2>2. GatewayTypes'
    BY <1>1, <2>1 DEF GatewayTypes, postVars
  <2>3. \A t \in Streams : reader'[t] = "sending" => reader[t] = "sending"
    BY <2>1 DEF GatewayTypes
  <2>5. \A t \in Streams : (Ready(t)' <=> Ready(t)) /\ (Nowhere(t) => Nowhere(t)')
    BY <1>1, <2>1 DEF Ready, Nowhere
  <2>4. EventsAreRead'
    BY <1>1, <2>1, <2>3, <2>5 DEF EventsAreRead
  <2> QED BY <1>1, <1>2, <1>3, <2>1, <2>2, <2>4, <2>5, PostsStay
<1> QED BY <1>4, <1>5, <1>6 DEF Reader, Abandon, ScannerStops

\* A step of post p changes its own entries only.
LEMMA PostKeeps ==
  ASSUME GatewayIInv, NEW p \in Posts, UNCHANGED <<setting, streamVars>>, GatewayTypes',
         \A o \in Posts \ {p} :
           /\ ppc'[o] = ppc[o] /\ of'[o] = of[o] /\ pat'[o] = pat[o] /\ to'[o] = to[o]
           /\ forwarded'[o] = forwarded[o] /\ status'[o] = status[o],
         ppc'[p] = "new" => forwarded'[p] = <<>>,
         ppc'[p] # "new" =>
           of'[p] \in Streams /\ spc[of'[p]] \in Begun /\ Ready(of'[p]),
         ppc'[p] = "raw" => ~AtItsStream(p)',
         ppc'[p] = "chain" => Announced(of'[p], to'[p]),
         forwarded'[p] # <<>> /\ AtItsStream(p)' => Announced(of'[p], forwarded'[p][2]),
         status'[p] = 503 => ppc'[p] # "new" /\ Nowhere(of'[p])
  PROVE  GatewayIInv'
<1>1. UNCHANGED <<setting, spc, at, url, events, reader, carry, read, written, got>>
  BY DEF streamVars
<1>2. EventsAreRead' /\ StreamsFit'
  BY <1>1 DEF GatewayIInv, EventsAreRead, StreamsFit, Ready, Nowhere
<1>3. PostsFit'
  <2> SUFFICES ASSUME NEW o \in Posts
               PROVE  /\ ppc'[o] = "new" => forwarded'[o] = <<>>
                      /\ ppc'[o] # "new" =>
                           of'[o] \in Streams /\ spc'[of'[o]] \in Begun /\ Ready(of[o])'
                      /\ ppc'[o] = "raw" => ~AtItsStream(o)'
                      /\ ppc'[o] = "chain" => Announced(of[o], to[o])'
                      /\ forwarded'[o] # <<>> /\ AtItsStream(o)' =>
                           Announced(of[o], forwarded[o][2])'
                      /\ status'[o] = 503 => ppc'[o] # "new" /\ Nowhere(of[o])'
    BY DEF PostsFit
  <2>1. CASE o = p
    BY <1>1, <2>1 DEF Announced, Ready, Nowhere
  <2>2. CASE o # p
    <3>1. AtItsStream(o)' <=> AtItsStream(o)
      BY <1>1, <2>2 DEF AtItsStream
    <3> QED BY <1>1, <2>2, <3>1 DEF Announced, GatewayIInv, PostsFit, Ready, Nowhere
  <2> QED BY <2>1, <2>2
<1> QED BY <1>2, <1>3 DEF GatewayIInv

LEMMA PostStepKeeps ==
  ASSUME GatewayIInv, NEW p \in Posts, PostStep(p)
  PROVE  GatewayIInv'
<1>1. /\ UNCHANGED <<setting, streamVars, of, pat>>
      /\ ppc[p] \in {"lookup", "url", "chain", "raw"}
  BY DEF PostStep, LookUp, ReadURL, Refuse, Forward, ForwardFails, Answer, PostGoes
<1>2. of[p] \in Streams /\ spc[of[p]] \in Begun /\ Ready(of[p])
  BY <1>1 DEF GatewayIInv, PostsFit
<1>3. AtItsStream(p)' <=> AtItsStream(p)
  BY <1>1 DEF AtItsStream, streamVars
<1>4. forwarded[p] # <<>> /\ AtItsStream(p) => Announced(of[p], forwarded[p][2])
  BY DEF GatewayIInv, PostsFit
<1>5. status[p] = 503 => ppc[p] # "new" /\ Nowhere(of[p])
  BY DEF GatewayIInv, PostsFit
<1>6. UNCHANGED <<spc, at, url, events, reader, carry, read, written, got>>
  BY <1>1 DEF streamVars
<1>7. CASE LookUp(p)
  <2>1. /\ UNCHANGED <<to, forwarded>>
        /\ \/ ppc' = [ppc EXCEPT ![p] = "url"] /\ UNCHANGED status
           \/ ppc' = [ppc EXCEPT ![p] = "answered"] /\ status' = [status EXCEPT ![p] = 404]
    BY <1>7 DEF LookUp, PostGoes, Answer
  <2>2. GatewayTypes'
    <3>1. ppc' \in [Posts -> {"new", "lookup", "url", "chain", "raw", "answered"}]
      <4>1. ppc \in [Posts -> {"new", "lookup", "url", "chain", "raw", "answered"}]
        BY DEF GatewayIInv, GatewayTypes
      <4> QED BY <2>1, <4>1
    <3>2. status' \in [Posts -> Nat]
      <4>1. status \in [Posts -> Nat]
        BY DEF GatewayIInv, GatewayTypes
      <4> QED BY <2>1, <4>1
    <3> QED BY <1>1, <1>6, <2>1, <3>1, <3>2 DEF GatewayIInv, GatewayTypes
  <2>3. /\ ppc'[p] \in {"url", "answered"} /\ (status'[p] = 503 => status[p] = 503)
        /\ \A o \in Posts \ {p} : ppc'[o] = ppc[o] /\ status'[o] = status[o]
    BY <2>1 DEF GatewayIInv, GatewayTypes
  <2> QED BY <1>1, <1>2, <1>3, <1>4, <1>5, <2>1, <2>2, <2>3, PostKeeps
<1>8. CASE ReadURL(p)
  <2>1. /\ UNCHANGED forwarded
        /\ \/ /\ url[of[p]] # None /\ ppc' = [ppc EXCEPT ![p] = "chain"] /\ UNCHANGED status
           \/ /\ url[of[p]] = None /\ ppc' = [ppc EXCEPT ![p] = "answered"]
              /\ status' = [status EXCEPT ![p] = 503]
        /\ to' = [to EXCEPT ![p] = url[of[p]]]
    BY <1>8 DEF ReadURL, PostGoes, Answer
  <2>2. url[of[p]] \in Nat
    BY <1>2 DEF GatewayIInv, GatewayTypes
  <2>3. GatewayTypes'
    <3>1. /\ ppc' \in [Posts -> {"new", "lookup", "url", "chain", "raw", "answered"}]
          /\ status' \in [Posts -> Nat] /\ to' \in [Posts -> Nat]
      <4>1. /\ ppc \in [Posts -> {"new", "lookup", "url", "chain", "raw", "answered"}]
            /\ status \in [Posts -> Nat] /\ to \in [Posts -> Nat]
        BY DEF GatewayIInv, GatewayTypes
      <4> QED BY <2>1, <2>2, <4>1
    <3> QED BY <1>1, <1>6, <2>1, <3>1 DEF GatewayIInv, GatewayTypes
  <2>4. /\ to'[p] = url[of[p]]
        /\ \/ url[of[p]] # None /\ ppc'[p] = "chain" /\ status'[p] = status[p]
           \/ url[of[p]] = None /\ ppc'[p] = "answered" /\ status'[p] = 503
        /\ \A o \in Posts \ {p} : ppc'[o] = ppc[o] /\ to'[o] = to[o] /\ status'[o] = status[o]
    BY <2>1 DEF GatewayIInv, GatewayTypes
  <2>5. url[of[p]] # None => Announced(of[p], url[of[p]])
    <3>1. read[of[p]] \in Nat /\ Len(written[of[p]]) \in Nat
      BY <1>2 DEF GatewayIInv, GatewayTypes
    <3> QED BY <1>2, <3>1 DEF GatewayIInv, EventsAreRead, Announced
  <2>6. url[of[p]] = None => Nowhere(of[p])
    BY <1>2 DEF Ready
  <2> QED BY <1>1, <1>2, <1>3, <1>4, <1>5, <2>1, <2>3, <2>4, <2>5, <2>6, PostKeeps
<1>9. CASE Refuse(p) \/ Forward(p) \/ ForwardFails(p)
  <2>1. /\ UNCHANGED to /\ ppc[p] \in {"chain", "raw"}
        /\ ppc' = [ppc EXCEPT ![p] = "answered"]
        /\ \/ status' = [status EXCEPT ![p] = 400]
           \/ status' = [status EXCEPT ![p] = 401]
           \/ status' = [status EXCEPT ![p] = 202]
           \/ status' = [status EXCEPT ![p] = 502]
        /\ UNCHANGED forwarded \/ forwarded' = [forwarded EXCEPT ![p] = <<pat[p], to[p]>>]
    BY <1>9 DEF Refuse, Forward, ForwardFails, Answer, PostGoes
  <2>2. pat[p] \in Nat /\ to[p] \in Nat
    BY DEF GatewayIInv, GatewayTypes
  <2>3. GatewayTypes'
    <3>1. forwarded' \in [Posts -> {<<>>} \cup Nat \X Nat]
      <4>1. forwarded \in [Posts -> {<<>>} \cup Nat \X Nat]
        BY DEF GatewayIInv, GatewayTypes
      <4>2. <<pat[p], to[p]>> \in {<<>>} \cup Nat \X Nat
        BY <2>2
      <4>3. [forwarded EXCEPT ![p] = <<pat[p], to[p]>>] \in [Posts -> {<<>>} \cup Nat \X Nat]
        BY ONLY <4>1, <4>2, Changed
      <4> QED BY <2>1, <4>1, <4>3
    <3>2. ppc' \in [Posts -> {"new", "lookup", "url", "chain", "raw", "answered"}]
          /\ status' \in [Posts -> Nat]
      <4>1. /\ ppc \in [Posts -> {"new", "lookup", "url", "chain", "raw", "answered"}]
            /\ status \in [Posts -> Nat]
        BY DEF GatewayIInv, GatewayTypes
      <4> QED BY <2>1, <4>1
    <3> QED BY <1>1, <1>6, <2>1, <3>1, <3>2 DEF GatewayIInv, GatewayTypes
  <2>4. /\ ppc'[p] = "answered" /\ status'[p] # 503
        /\ \A o \in Posts \ {p} : /\ ppc'[o] = ppc[o] /\ status'[o] = status[o]
                                  /\ forwarded'[o] = forwarded[o]
    BY <2>1 DEF GatewayIInv, GatewayTypes
  <2>5. forwarded'[p] # <<>> /\ AtItsStream(p) => Announced(of[p], forwarded'[p][2])
    <3>1. AtItsStream(p) => Announced(of[p], to[p])
      BY <2>1 DEF GatewayIInv, PostsFit
    <3>2. forwarded'[p] = forwarded[p] \/ (forwarded'[p] = <<pat[p], to[p]>>)
      BY <2>1 DEF GatewayIInv, GatewayTypes
    <3>3. <<pat[p], to[p]>>[2] = to[p]
      OBVIOUS
    <3> QED BY <1>4, <3>1, <3>2, <3>3
  <2> QED BY <1>1, <1>2, <1>3, <2>1, <2>3, <2>4, <2>5, PostKeeps
<1> QED BY <1>7, <1>8, <1>9 DEF PostStep

LEMMA PostBeginKeeps ==
  ASSUME GatewayIInv, NEW p \in Posts, NEW s \in Streams, NEW k \in MessageKinds, Post(p, s, k)
  PROVE  GatewayIInv'
<1> DEFINE us == setting.upstreams
           i == Match(us, get[s].host, MessagesPath)
           next == Dispatch(us, i, MessagesPath, k)
           code == IF next # "answered" THEN status[p] ELSE IF i = None THEN 502 ELSE 404
<1>1. us \in Seq(Upstreams)
  BY GatewayAssumption DEF GatewayIInv, GatewayTypes
<1>2. i \in Nat
  BY <1>1, MatchInRange
<1>3. /\ UNCHANGED <<setting, streamVars, to, forwarded>> /\ ppc[p] = "new" /\ Told(s)
      /\ of' = [of EXCEPT ![p] = s] /\ pat' = [pat EXCEPT ![p] = i]
      /\ ppc' = [ppc EXCEPT ![p] = next] /\ status' = [status EXCEPT ![p] = code]
  BY DEF Post, PostGoes
<1>4. next \in {"answered", "raw", "lookup"}
  BY DEF Dispatch
<1>5. next = "raw" => us[i].hint # "mcp" \/ us[i].transport = "streamable"
  BY DEF Dispatch, DetectedMCP
<1>6. code \in Nat /\ code # 503
  BY <1>3 DEF GatewayIInv, GatewayTypes, PostsFit
<1> HIDE DEF next, code, i
<1>7. UNCHANGED <<spc, at, url, events, reader, carry, read, written, got>>
  BY <1>3 DEF streamVars
<1>8. spc[s] \in Begun /\ Ready(s)
  <2>1. PICK j \in 1..Len(got[s]) : written[s][got[s][j]] \in Announcements
    BY <1>3 DEF Told
  <2>2. got[s] # <<>>
    BY <2>1 DEF GatewayIInv, GatewayTypes
  <2>3. got[s][j] \in 1..read[s]
    BY <2>1 DEF GatewayIInv, EventsAreRead
  <2> QED BY <2>1, <2>2, <2>3 DEF GatewayIInv, GatewayTypes, StreamsFit, EventsAreRead
<1>9. GatewayTypes'
  <2>1. /\ ppc' \in [Posts -> {"new", "lookup", "url", "chain", "raw", "answered"}]
        /\ of' \in [Posts -> Streams \cup {NoStream}]
        /\ pat' \in [Posts -> Nat] /\ status' \in [Posts -> Nat]
    BY <1>2, <1>3, <1>4, <1>6 DEF GatewayIInv, GatewayTypes
  <2> QED BY <1>3, <1>7, <2>1 DEF GatewayIInv, GatewayTypes
<1>10. /\ ppc'[p] = next /\ of'[p] = s /\ pat'[p] = i /\ status'[p] = code
       /\ \A o \in Posts \ {p} : /\ ppc'[o] = ppc[o] /\ of'[o] = of[o] /\ pat'[o] = pat[o]
                                 /\ status'[o] = status[o]
  BY <1>3 DEF GatewayIInv, GatewayTypes
<1>11. forwarded'[p] = <<>>
  BY <1>3 DEF GatewayIInv, PostsFit
<1>12. next = "raw" => ~AtItsStream(p)'
  <2>1. us[at[s]].transport = "sse"
    BY <1>8 DEF GatewayIInv, StreamsFit
  <2> QED BY <1>3, <1>5, <1>7, <1>10, <2>1 DEF AtItsStream
<1> QED BY <1>3, <1>4, <1>6, <1>8, <1>9, <1>10, <1>11, <1>12, PostKeeps

LEMMA GatewayNextKeeps == GatewayIInv /\ [Next]_vars => GatewayIInv'
<1> SUFFICES ASSUME GatewayIInv, [Next]_vars PROVE GatewayIInv'
  OBVIOUS
<1>1. CASE UNCHANGED vars
  <2>1. UNCHANGED <<setting, get, client, spc, at, store, url, events, reader, carry, read, written,
                    open, got, ppc, of, kind, pat, to, forwarded, status>>
    BY <1>1 DEF vars, streamVars, postVars
  <2>2. \A s \in Streams : (Ready(s)' <=> Ready(s)) /\ (Nowhere(s)' <=> Nowhere(s))
    BY <2>1 DEF Ready, Nowhere
  <2>3. EventsAreRead'
    BY <2>1, <2>2, Zenon DEF GatewayIInv, EventsAreRead
  <2>4. GatewayTypes' /\ StreamsFit'
    BY <2>1 DEF GatewayIInv, GatewayTypes, StreamsFit
  <2>5. PostsFit'
    BY <2>1, <2>2 DEF GatewayIInv, PostsFit, AtItsStream, Announced
  <2> QED BY <2>3, <2>4, <2>5 DEF GatewayIInv
<1>2. CASE Next
  BY <1>2, ConnectKeeps, HandlerKeeps, RelayKeeps, WritesKeeps, ReaderKeeps, PostStepKeeps,
     PostBeginKeeps
     DEF Next
<1> QED BY <1>1, <1>2

\* Every reachable state satisfies the inductive invariant.
THEOREM GatewayCorrect == Spec => []GatewayIInv
BY GatewayInitHolds, GatewayNextKeeps, PTL DEF Spec

\* The router prefers upstreams by what they name, whatever their order.
THEOREM MatchesByPriorityCorrect == Spec => []MatchesByPriority
<1>1. GatewayIInv => MatchesByPriority
  <2> SUFFICES ASSUME GatewayIInv, NEW h \in Hosts, NEW q \in Paths
               PROVE  LET us == setting.upstreams
                          i == Match(us, h, q)
                          able == {j \in 1..Len(us) : Matches(us[j], h, q)}
                      IN IF able = {} THEN i = None
                         ELSE i \in able /\ \A j \in able :
                                NamesOf(us[j]) <= NamesOf(us[i])
                                /\ (NamesOf(us[j]) = NamesOf(us[i]) => i <= j)
    BY DEF MatchesByPriority, NamesOf
  <2>1. setting.upstreams \in Seq(Upstreams)
    BY GatewayAssumption DEF GatewayIInv, GatewayTypes
  <2> QED BY <2>1, MatchIs
<1> QED BY <1>1, GatewayCorrect, PTL

\* With the hint, a post that is routed where its session is goes to a URL that
\* the upstream announced on it.
THEOREM HintKeepsSessionCorrect == Spec => []HintKeepsSession
<1>1. GatewayIInv => HintKeepsSession
  <2> SUFFICES ASSUME GatewayIInv, NEW p \in Posts, forwarded[p] # <<>>, AtItsStream(p)
               PROVE  /\ forwarded[p][2] # None
                      /\ written[of[p]][forwarded[p][2]] = "endpoint"
    BY DEF HintKeepsSession, AtItsStream
  <2>1. Announced(of[p], forwarded[p][2])
    BY DEF GatewayIInv, PostsFit
  <2> QED BY <2>1 DEF Announced, None
<1> QED BY <1>1, GatewayCorrect, PTL

\* A client that has been told where to post is told that it is too early only if
\* the upstream announced an endpoint without saying which.
THEOREM ToldIsReadyCorrect == Spec => []ToldIsReady
<1>1. GatewayIInv => ToldIsReady
  BY DEF GatewayIInv, PostsFit, ToldIsReady, Nowhere
<1> QED BY <1>1, GatewayCorrect, PTL

-----------------------------------------------------------------------------
(* Events in order *)

LEMMA InRange ==
  ASSUME NEW q \in Seq(Nat)
  PROVE  \A x : x \in Range(q) <=> \E i \in 1..Len(q) : q[i] = x
BY DEF Range

\* A later event is added.
LEMMA InOrderAppend ==
  ASSUME NEW q \in Seq(Nat), NEW es, NEW x \in Nat, InOrder(q, es), \A y \in es : y < x
  PROVE  InOrder(Append(q, x), es \cup {x})
<1> DEFINE a == Append(q, x)
<1>1. /\ a \in Seq(Nat) /\ Len(q) \in Nat /\ Len(a) = Len(q) + 1
      /\ (\A i \in 1..Len(q) : a[i] = q[i]) /\ a[Len(q) + 1] = x
  OBVIOUS
<1>2. \A y : y \in es <=> \E i \in 1..Len(q) : q[i] = y
  BY InRange DEF InOrder
<1>3. \A i, j \in 1..Len(q) : i < j => q[i] < q[j]
  BY Zenon DEF InOrder
<1>4. \A y : y \in Range(a) <=> \E i \in 1..Len(a) : a[i] = y
  BY <1>1, InRange, Zenon
<1> HIDE DEF a
<1>5. /\ 1..Len(a) = 1..Len(q) \cup {Len(q) + 1}
      /\ \A i \in 1..Len(q) : i < Len(q) + 1 /\ ~(Len(q) + 1 < i)
      /\ ~(Len(q) + 1 < Len(q) + 1)
  BY <1>1
<1>6. \A y : y \in Range(a) <=> y \in es \cup {x}
  BY <1>1, <1>2, <1>4, <1>5, Zenon
<1>7. \A i, j \in 1..Len(a) : i < j => a[i] < a[j]
  <2> SUFFICES ASSUME NEW i \in 1..Len(a), NEW j \in 1..Len(a), i < j PROVE a[i] < a[j]
    OBVIOUS
  <2>1. i \in 1..Len(q)
    BY <1>5, Zenon
  <2>2. a[i] = q[i] /\ q[i] \in es
    BY <1>1, <1>2, <2>1, Zenon
  <2>3. CASE j \in 1..Len(q)
    BY <1>1, <1>3, <2>1, <2>2, <2>3, Zenon
  <2>4. CASE j = Len(q) + 1
    <3>1. a[j] = x /\ q[i] < x
      BY <1>1, <2>2, <2>4, Zenon
    <3> QED BY <2>2, <3>1, Zenon
  <2> QED BY <1>5, <2>3, <2>4, Zenon
<1>8. Range(a) = es \cup {x}
  BY <1>6
<1> QED BY <1>7, <1>8, Zenon DEF InOrder, a

DatafulOf(w, n) == {i \in 1..n : w[i] # "blank"}

\* What begins a sequence of the events with data is the first of them.
LEMMA InOrderBegins ==
  ASSUME NEW a \in Seq(Nat), NEW b \in Seq(Nat), NEW w, NEW n \in Nat,
         InOrder(a \o b, DatafulOf(w, n))
  PROVE  \E m \in 0..n : InOrder(a, DatafulOf(w, m))
<1> USE DEF DatafulOf
<1> DEFINE q == a \o b
           D(m) == DatafulOf(w, m)
<1>1. /\ q \in Seq(Nat) /\ Len(a) \in Nat /\ Len(q) \in Nat /\ Len(a) <= Len(q)
      /\ \A i \in 1..Len(a) : q[i] = a[i]
  OBVIOUS
<1>2. \A y : y \in D(n) <=> \E i \in 1..Len(q) : q[i] = y
  BY <1>1, InRange, Zenon DEF InOrder
<1>3. \A i, j \in 1..Len(q) : i < j => q[i] < q[j]
  BY Zenon DEF InOrder
<1>4. \A y : y \in Range(a) <=> \E i \in 1..Len(a) : a[i] = y
  BY InRange, Zenon
<1> HIDE DEF q
<1>5. 1..Len(a) \subseteq 1..Len(q) /\ \A i \in 1..Len(q) : i \notin 1..Len(a) => Len(a) < i
  BY <1>1
<1>6. \A i, j \in 1..Len(a) : i < j => a[i] < a[j]
  BY <1>1, <1>3, <1>5
<1>7. CASE Len(a) = 0
  <2>1. D(0) = {} /\ 1..Len(a) = {}
    BY <1>7
  <2>2. Range(a) = D(0)
    BY <1>4, <2>1
  <2>3. 0 \in 0..n
    OBVIOUS
  <2>4. InOrder(a, D(0))
    BY <1>6, <2>2, Zenon DEF InOrder
  <2> HIDE DEF D
  <2>5. \E m \in 0..n : InOrder(a, D(m))
    BY <2>3, <2>4, Zenon
  <2> QED BY <2>5, Zenon DEF D
<1>8. CASE Len(a) # 0
  <2> DEFINE m == a[Len(a)]
  <2>1. Len(a) \in 1..Len(a)
    BY <1>1, <1>8
  <2>2. m = q[Len(a)] /\ m \in D(n)
    BY <1>1, <1>2, <1>5, <2>1, Zenon
  <2>3. m \in 1..n
    BY <2>2
  <2>4. 1..n \subseteq Nat
    OBVIOUS
  <2> HIDE DEF m
  <2>5. \A y : y \in Range(a) <=> y \in D(m)
    <3>1. ASSUME NEW y, y \in Range(a) PROVE y \in D(m)
      <4>1. PICK i \in 1..Len(a) : a[i] = y
        BY <1>4, <3>1, Zenon
      <4>2. y \in D(n)
        BY <1>1, <1>2, <1>5, <4>1, Zenon
      <4>3. i < Len(a) \/ i = Len(a)
        BY <1>1, <4>1
      <4>4. y < m \/ y = m
        BY <1>6, <2>1, <4>1, <4>3, Zenon DEF m
      <4> QED BY <2>3, <4>2, <4>4
    <3>2. ASSUME NEW y, y \in D(m) PROVE y \in Range(a)
      <4>1. y \in 1..m /\ y \in D(n)
        BY <2>3, <3>2
      <4>2. PICK i \in 1..Len(q) : q[i] = y
        BY <1>2, <4>1, Zenon
      <4>3. i \in 1..Len(a)
        <5>1. ~(m < y)
          BY <2>3, <4>1
        <5>2. ~(Len(a) < i)
          BY <1>3, <1>5, <2>1, <2>2, <4>2, <5>1, Zenon
        <5> QED BY <1>5, <4>2, <5>2, Zenon
      <4> QED BY <1>1, <1>4, <4>2, <4>3, Zenon
    <3> QED BY <3>1, <3>2, Zenon
  <2>6. Range(a) = D(m)
    BY <2>5
  <2>7. m \in 0..n
    BY <2>3
  <2>8. InOrder(a, D(m))
    BY <1>6, <2>6, Zenon DEF InOrder
  <2> HIDE DEF D
  <2>9. \E k \in 0..n : InOrder(a, D(k))
    BY <2>7, <2>8, Zenon
  <2> QED BY <2>9, Zenon DEF D
<1> QED BY <1>7, <1>8

\* An event that moves from hand to hand stays in its place.
LEMMA ReceivedStays ==
  ASSUME NEW g \in Seq(Nat), NEW e \in Seq(Nat), e # <<>>
  PROVE  Append(g, Head(e)) \o Tail(e) = g \o e
OBVIOUS

LEMMA SentStays ==
  ASSUME NEW g \in Seq(Nat), NEW e \in Seq(Nat), NEW c \in Nat
  PROVE  g \o Append(e, c) \o <<>> = g \o e \o <<c>>
OBVIOUS

LEMMA ReadIsLast ==
  ASSUME NEW g \in Seq(Nat), NEW e \in Seq(Nat), NEW c \in Nat
  PROVE  g \o e \o <<c>> = Append(g \o e \o <<>>, c)
OBVIOUS

LEMMA AllReceived ==
  ASSUME NEW g \in Seq(Nat)
  PROVE  g \o <<>> \o <<>> = g
OBVIOUS

LEMMA Together ==
  ASSUME NEW g \in Seq(Nat), NEW e \in Seq(Nat), NEW h \in Seq(Nat)
  PROVE  /\ g \o e \o h \in Seq(Nat) /\ e \o h \in Seq(Nat)
         /\ g \o (e \o h) = g \o e \o h
<1>1. g \o e \o h \in Seq(Nat) /\ e \o h \in Seq(Nat)
  OBVIOUS
<1>2. g \o (e \o h) = g \o e \o h
  BY SMTT(20)
<1> QED BY <1>1, <1>2

-----------------------------------------------------------------------------
(* The relay *)

\* Where streams and posts are, and how much an upstream writes.
Within ==
  /\ \A s \in Streams :
       /\ spc[s] \in Begun \cup {"connecting"} => at[s] # None
       /\ Len(written[s]) <= setting.events
  /\ \A p \in Posts : ppc[p] \in {"lookup", "url", "chain", "raw"} => pat[p] # None

\* As long as its client is there, a stream's goroutine ends after the last event
\* and its handler after the goroutine, with nothing in the channel.
EndsFit ==
  \A s \in Streams :
    /\ spc[s] \notin Begun => reader[s] = "none"
    /\ client[s] = "there" /\ reader[s] = "ended" => ~open[s] /\ read[s] = Len(written[s])
    /\ client[s] = "there" /\ spc[s] \in {"leaving", "removed", "gone"} =>
         reader[s] = "ended" /\ events[s] = <<>>

\* Where the events of stream s are.
Whereabouts(s) == got[s] \o events[s] \o Held(s)

StreamRelayed(s) ==
  /\ client[s] = "there" => InOrder(Whereabouts(s), Dataful(s, read[s]))
  /\ \E n \in 0..read[s] : InOrder(got[s], Dataful(s, n))

RelayIInv ==
  /\ TypeOK /\ GatewayIInv
  /\ Within /\ EndsFit
  /\ \A s \in Streams : StreamRelayed(s)

\* The parts of TypeOK.
LEMMA GatewaySizes ==
  ASSUME TypeOK
  PROVE  /\ setting \in Settings
         /\ get \in [Streams -> setting.requests]
         /\ client \in [Streams -> {"there", "gone"}]
         /\ spc \in [Streams -> {"new", "connecting", "relaying", "leaving", "removed", "gone", "refused"}]
         /\ at \in [Streams -> 0..Len(setting.upstreams)]
         /\ store \subseteq (1..Len(setting.upstreams)) \X Streams
         /\ url \in [Streams -> 0..MaxEvents]
         /\ events \in [Streams -> Seq(1..MaxEvents)]
         /\ reader \in [Streams -> {"none", "reading", "sending", "ended"}]
         /\ carry \in [Streams -> 0..MaxEvents] /\ read \in [Streams -> 0..MaxEvents]
         /\ written \in [Streams -> Seq(EventKinds)]
         /\ open \in [Streams -> BOOLEAN]
         /\ got \in [Streams -> Seq(1..MaxEvents)]
BY Zenon DEF TypeOK

LEMMA SettingIs ==
  ASSUME TypeOK
  PROVE  /\ setting.upstreams \in Seq(Upstreams) /\ Len(setting.upstreams) \in Nat
         /\ setting.events \in 0..MaxEvents /\ MaxEvents \in Nat /\ setting.events \in Nat
         /\ Capacity \in Nat \ {0}
<1>1. setting \in Settings
  BY GatewaySizes, Zenon
<1>2. setting.upstreams \in Seq(Upstreams) /\ setting.events \in 0..MaxEvents
  BY <1>1, GatewayAssumption
<1> QED BY <1>2, GatewayAssumption

\* Steps of streams that change none of the numbers and sequences.
LEMMA HandlerTypes ==
  ASSUME TypeOK, Within, NEW s \in Streams,
         \/ ConnectFails(s) \/ UpstreamAnswers(s) \/ Handler(s) \/ ClientLeaves(s) \/ UpstreamEnds(s)
  PROVE  TypeOK' /\ Within'
<1>1. /\ UNCHANGED <<setting, get, at, url, events, carry, read, written, got, postVars>>
      /\ \/ UNCHANGED spc
         \/ spc[s] \in Begun \cup {"connecting"}
            /\ \E to_ \in {"refused", "relaying", "leaving", "removed", "gone"} :
                 spc' = [spc EXCEPT ![s] = to_]
      /\ UNCHANGED reader \/ reader' = [reader EXCEPT ![s] = "reading"]
      /\ UNCHANGED client \/ client' = [client EXCEPT ![s] = "gone"]
      /\ UNCHANGED open \/ \E o \in BOOLEAN : open' = [open EXCEPT ![s] = o]
      /\ store' \subseteq store \/ (spc[s] = "connecting" /\ store' = store \cup {<<at[s], s>>})
  <2>1. CASE ConnectFails(s) \/ RelayEnds(s)
    BY <2>1 DEF ConnectFails, RelayEnds, HandlerGoes, Begun
  <2>2. CASE UpstreamAnswers(s)
    BY <2>2 DEF UpstreamAnswers, HandlerGoes
  <2>3. CASE RemoveSession(s)
    BY <2>3 DEF RemoveSession, HandlerGoes, Begun
  <2>4. CASE CloseBody(s)
    BY <2>4 DEF CloseBody, HandlerGoes, Begun
  <2>5. CASE ClientLeaves(s) \/ UpstreamEnds(s)
    BY <2>5 DEF ClientLeaves, UpstreamEnds
  <2> QED BY <2>1, <2>2, <2>3, <2>4, <2>5 DEF Handler
<1>2. spc' \in [Streams -> {"new", "connecting", "relaying", "leaving", "removed", "gone", "refused"}]
  BY <1>1, GatewaySizes
<1>3. reader' \in [Streams -> {"none", "reading", "sending", "ended"}]
  BY <1>1, GatewaySizes
<1>4. client' \in [Streams -> {"there", "gone"}] /\ open' \in [Streams -> BOOLEAN]
  <2>1. client \in [Streams -> {"there", "gone"}] /\ open \in [Streams -> BOOLEAN]
    BY GatewaySizes, Zenon
  <2> QED BY <1>1, <2>1, Changed, Zenon
<1>5. store' \subseteq (1..Len(setting.upstreams)) \X Streams
  <2>1. CASE spc[s] = "connecting"
    <3>1. at[s] # None /\ at[s] \in 0..Len(setting.upstreams)
      BY <2>1, GatewaySizes DEF Within
    <3>2. at[s] \in 1..Len(setting.upstreams)
      BY <3>1, SettingIs DEF None
    <3>3. store \subseteq (1..Len(setting.upstreams)) \X Streams
      BY GatewaySizes, Zenon
    <3> QED BY <1>1, <3>2, <3>3
  <2>2. CASE store' \subseteq store
    <3>3. store \subseteq (1..Len(setting.upstreams)) \X Streams
      BY GatewaySizes, Zenon
    <3> QED BY <2>2, <3>3
  <2> QED BY <1>1, <2>1, <2>2
<1>6. TypeOK'
  BY <1>1, <1>2, <1>3, <1>4, <1>5 DEF TypeOK, postVars
<1>7. Within'
  <2>1. \A t \in Streams : spc'[t] \in Begun \cup {"connecting"} => spc[t] \in Begun \cup {"connecting"}
    BY <1>1, GatewaySizes
  <2> QED BY <1>1, <2>1 DEF Within, postVars
<1> QED BY <1>6, <1>7

LEMMA ConnectTypes ==
  ASSUME TypeOK, Within, NEW s \in Streams, Connect(s)
  PROVE  TypeOK' /\ Within'
<1> DEFINE i == Match(setting.upstreams, get[s].host, get[s].path)
<1>1. i \in 0..Len(setting.upstreams)
  BY SettingIs, MatchInRange
<1> HIDE DEF i
<1>2. /\ at' = [at EXCEPT ![s] = i]
      /\ \/ spc' = [spc EXCEPT ![s] = "connecting"] /\ i # None
         \/ spc' = [spc EXCEPT ![s] = "refused"]
      /\ UNCHANGED <<setting, get, client, store, url, events, reader, carry, read, written, open,
                     got, postVars>>
      /\ spc[s] = "new"
  BY DEF Connect, HandlerGoes, i
<1>3. /\ spc' \in [Streams -> {"new", "connecting", "relaying", "leaving", "removed", "gone", "refused"}]
      /\ at' \in [Streams -> 0..Len(setting.upstreams)]
  <2>1. at \in [Streams -> 0..Len(setting.upstreams)]
    BY GatewaySizes, Zenon
  <2>2. at' \in [Streams -> 0..Len(setting.upstreams)]
    BY <1>1, <1>2, <2>1, Changed, Zenon
  <2> QED BY <1>2, <2>2, GatewaySizes
<1>4. TypeOK'
  BY <1>2, <1>3 DEF TypeOK, postVars
<1>5. Within'
  <2> SUFFICES ASSUME NEW t \in Streams
               PROVE  spc'[t] \in Begun \cup {"connecting"} => at'[t] # None
    BY <1>2 DEF Within, postVars
  <2>1. CASE t = s
    BY <1>2, <2>1, GatewaySizes DEF Begun
  <2>2. CASE t # s
    BY <1>2, <2>2, GatewaySizes DEF Within
  <2> QED BY <2>1, <2>2
<1> QED BY <1>4, <1>5

\* An event moves on.
LEMMA MoveTypes ==
  ASSUME TypeOK, Within, GatewayIInv, NEW s \in Streams, Relay(s) \/ Send(s)
  PROVE  TypeOK' /\ Within'
<1>1. /\ events \in [Streams -> Seq(1..MaxEvents)] /\ got \in [Streams -> Seq(1..MaxEvents)]
      /\ carry \in [Streams -> 0..MaxEvents] /\ read \in [Streams -> 0..MaxEvents]
      /\ \A t \in Streams : Len(events[t]) <= Capacity
  BY Zenon DEF TypeOK
<1>2. /\ UNCHANGED <<setting, get, client, at, store, url, carry, read, written, open, postVars>>
      /\ \/ /\ events[s] # <<>> /\ events' = [events EXCEPT ![s] = Tail(events[s])]
            /\ got' = got \/ got' = [got EXCEPT ![s] = Append(got[s], Head(events[s]))]
            /\ UNCHANGED reader
            /\ spc' = spc \/ (spc[s] = "relaying" /\ spc' = [spc EXCEPT ![s] = "leaving"])
         \/ /\ Len(events[s]) < Capacity /\ events' = [events EXCEPT ![s] = Append(events[s], carry[s])]
            /\ reader[s] = "sending" /\ reader' = [reader EXCEPT ![s] = "reading"]
            /\ UNCHANGED <<got, spc>>
  <2>1. CASE Relay(s)
    BY <2>1 DEF Relay, HandlerGoes
  <2>2. CASE Send(s)
    BY <2>2 DEF Send
  <2> QED BY <2>1, <2>2
<1>3. /\ spc' \in [Streams -> {"new", "connecting", "relaying", "leaving", "removed", "gone", "refused"}]
      /\ reader' \in [Streams -> {"none", "reading", "sending", "ended"}]
  BY <1>2, GatewaySizes
<1>4. ASSUME events[s] # <<>>
      PROVE  /\ Tail(events[s]) \in Seq(1..MaxEvents) /\ Len(Tail(events[s])) <= Capacity
             /\ Append(got[s], Head(events[s])) \in Seq(1..MaxEvents)
  <2> DEFINE T == 1..MaxEvents
  <2>1. events[s] \in Seq(T) /\ got[s] \in Seq(T) /\ Len(events[s]) <= Capacity /\ Capacity \in Nat
    BY <1>1, SettingIs
  <2> HIDE DEF T
  <2>2. Tail(events[s]) \in Seq(T) /\ Append(got[s], Head(events[s])) \in Seq(T)
        /\ Len(Tail(events[s])) = Len(events[s]) - 1 /\ Len(events[s]) \in Nat
    BY <1>4, <2>1
  <2>3. Len(Tail(events[s])) <= Capacity
    BY <2>1, <2>2
  <2> QED BY <2>2, <2>3, Zenon DEF T
<1>5. ASSUME reader[s] = "sending", Len(events[s]) < Capacity
      PROVE  Append(events[s], carry[s]) \in Seq(1..MaxEvents) /\ Len(Append(events[s], carry[s])) <= Capacity
  <2> DEFINE T == 1..MaxEvents
  <2>1. carry[s] \in 1..read[s] /\ read[s] \in 0..MaxEvents /\ MaxEvents \in Nat /\ Capacity \in Nat
    BY <1>1, <1>5, SettingIs DEF GatewayIInv, EventsAreRead
  <2>2. carry[s] \in T
    BY <2>1
  <2>3. events[s] \in Seq(T)
    BY <1>1
  <2> HIDE DEF T
  <2>4. Append(events[s], carry[s]) \in Seq(T) /\ Len(events[s]) \in Nat
        /\ Len(Append(events[s], carry[s])) = Len(events[s]) + 1
    BY <2>2, <2>3
  <2>5. Len(Append(events[s], carry[s])) <= Capacity
    BY <1>5, <2>1, <2>4
  <2> QED BY <2>4, <2>5, Zenon DEF T
<1>6. \E q \in Seq(1..MaxEvents) : events' = [events EXCEPT ![s] = q] /\ Len(q) <= Capacity
  BY <1>2, <1>4, <1>5, Zenon
<1>7. events' \in [Streams -> Seq(1..MaxEvents)] /\ \A t \in Streams : Len(events'[t]) <= Capacity
  <2> DEFINE Q == Seq(1..MaxEvents)
  <2>1. PICK q \in Q : events' = [events EXCEPT ![s] = q] /\ Len(q) <= Capacity
    BY <1>6, Zenon
  <2>2. events \in [Streams -> Q] /\ \A t \in Streams : Len(events[t]) <= Capacity
    BY <1>1, Zenon
  <2> HIDE DEF Q
  <2>3. events' \in [Streams -> Q] /\ \A t \in Streams : events'[t] = IF t = s THEN q ELSE events[t]
    BY <2>1, <2>2
  <2>4. \A t \in Streams : Len(events'[t]) <= Capacity
    BY <2>1, <2>2, <2>3, Zenon
  <2> QED BY <2>3, <2>4, Zenon DEF Q
<1>8. got' \in [Streams -> Seq(1..MaxEvents)]
  BY <1>1, <1>2, <1>4, Changed, Zenon
<1>9. TypeOK'
  BY <1>2, <1>3, <1>7, <1>8, Zenon DEF TypeOK, postVars
<1>10. Within'
  <2>1. \A t \in Streams : spc'[t] \in Begun \cup {"connecting"} => spc[t] \in Begun \cup {"connecting"}
    BY <1>2, GatewaySizes DEF Begun
  <2> QED BY <1>2, <2>1 DEF Within, postVars
<1> QED BY <1>9, <1>10

LEMMA WriteTypes ==
  ASSUME TypeOK, Within, NEW s \in Streams, NEW k \in EventKinds, UpstreamWrites(s, k)
  PROVE  TypeOK' /\ Within'
<1>1. /\ UNCHANGED <<setting, get, client, spc, at, store, url, events, reader, carry, read, open,
                     got, postVars>>
      /\ Len(written[s]) < setting.events /\ written' = [written EXCEPT ![s] = Append(written[s], k)]
  BY DEF UpstreamWrites
<1>2. written \in [Streams -> Seq(EventKinds)]
  BY GatewaySizes, Zenon
<1>3. Append(written[s], k) \in Seq(EventKinds) /\ Len(Append(written[s], k)) = Len(written[s]) + 1
      /\ Len(written[s]) \in Nat
  BY <1>2
<1>4. written' \in [Streams -> Seq(EventKinds)]
  BY <1>1, <1>2, <1>3, Changed, Zenon
<1>5. \A t \in Streams : Len(written'[t]) <= setting.events
  <2>1. \A t \in Streams : written'[t] = IF t = s THEN Append(written[s], k) ELSE written[t]
    BY <1>1, <1>2
  <2>2. Len(Append(written[s], k)) <= setting.events
    BY <1>1, <1>3, SettingIs
  <2>3. \A t \in Streams : Len(written[t]) <= setting.events
    BY Zenon DEF Within
  <2> QED BY <2>1, <2>2, <2>3, Zenon
<1>6. TypeOK'
  BY <1>1, <1>4, Zenon DEF TypeOK, postVars
<1>7. Within'
  BY <1>1, <1>5, Zenon DEF Within, postVars
<1> QED BY <1>6, <1>7

LEMMA ReadTypes ==
  ASSUME TypeOK, Within, NEW s \in Streams, ReadEvent(s)
  PROVE  TypeOK' /\ Within'
<1> DEFINE n == read[s] + 1
<1>1. /\ UNCHANGED <<setting, get, client, spc, at, store, events, written, open, got, postVars>>
      /\ read[s] < Len(written[s]) /\ read' = [read EXCEPT ![s] = n]
      /\ \/ UNCHANGED <<reader, carry>>
         \/ reader' = [reader EXCEPT ![s] = "sending"] /\ carry' = [carry EXCEPT ![s] = n]
      /\ url' = [url EXCEPT ![s] = CASE written[s][n] = "endpoint" -> n
                                   [] written[s][n] = "nowhere" -> None
                                   [] OTHER -> url[s]]
  <2>1. read \in [Streams -> 0..MaxEvents]
    BY GatewaySizes, Zenon
  <2> QED BY <2>1 DEF ReadEvent, NextKind
<1>2. /\ url \in [Streams -> 0..MaxEvents] /\ read \in [Streams -> 0..MaxEvents]
      /\ carry \in [Streams -> 0..MaxEvents] /\ written \in [Streams -> Seq(EventKinds)]
      /\ reader \in [Streams -> {"none", "reading", "sending", "ended"}]
  BY GatewaySizes, Zenon
<1>3. n \in 0..MaxEvents
  <2>1. Len(written[s]) <= setting.events
    BY Zenon DEF Within
  <2>2. read[s] \in Nat /\ Len(written[s]) \in Nat
    BY <1>2
  <2> QED BY <1>1, <2>1, <2>2, SettingIs
<1> HIDE DEF n
<1>4. /\ read' \in [Streams -> 0..MaxEvents] /\ carry' \in [Streams -> 0..MaxEvents]
      /\ reader' \in [Streams -> {"none", "reading", "sending", "ended"}]
  <2>1. read' \in [Streams -> 0..MaxEvents]
    BY <1>1, <1>2, <1>3, Changed, Zenon
  <2>2. carry' \in [Streams -> 0..MaxEvents]
    BY <1>1, <1>2, <1>3, Changed, Zenon
  <2>3. reader' \in [Streams -> {"none", "reading", "sending", "ended"}]
    BY <1>1, <1>2
  <2> QED BY <2>1, <2>2, <2>3
<1>5. url' \in [Streams -> 0..MaxEvents]
  <2>1. (CASE written[s][n] = "endpoint" -> n [] written[s][n] = "nowhere" -> None
         [] OTHER -> url[s]) \in 0..MaxEvents
    <3>1. url[s] \in 0..MaxEvents
      BY <1>2
    <3>2. 0 \in 0..MaxEvents
      BY GatewayAssumption
    <3> QED BY <1>3, <3>1, <3>2 DEF None
  <2> QED BY <1>1, <1>2, <2>1, Changed, Zenon
<1>6. TypeOK'
  BY <1>1, <1>4, <1>5, Zenon DEF TypeOK, postVars
<1>7. Within'
  BY <1>1, Zenon DEF Within, postVars
<1> QED BY <1>6, <1>7

LEMMA EndTypes ==
  ASSUME TypeOK, Within, NEW s \in Streams, ReaderEnds(s)
  PROVE  TypeOK' /\ Within'
<1>1. /\ UNCHANGED <<setting, get, client, spc, at, store, url, events, carry, read, written, open,
                     got, postVars>>
      /\ reader' = [reader EXCEPT ![s] = "ended"]
  BY DEF ReaderEnds
<1>2. reader' \in [Streams -> {"none", "reading", "sending", "ended"}]
  BY <1>1, GatewaySizes
<1>3. TypeOK'
  BY <1>1, <1>2, Zenon DEF TypeOK, postVars
<1>4. Within'
  BY <1>1, Zenon DEF Within, postVars
<1> QED BY <1>3, <1>4

LEMMA PostSizes ==
  ASSUME TypeOK
  PROVE  /\ ppc \in [Posts -> {"new", "lookup", "url", "chain", "raw", "answered"}]
         /\ of \in [Posts -> Streams \cup {NoStream}] /\ kind \in [Posts -> MessageKinds \cup {"none"}]
         /\ pat \in [Posts -> 0..Len(setting.upstreams)]
         /\ to \in [Posts -> 0..MaxEvents]
         /\ forwarded \in [Posts -> {<<>>} \cup (1..Len(setting.upstreams)) \X (0..MaxEvents)]
         /\ status \in [Posts -> {None, 202, 400, 401, 404, 502, 503}]
BY Zenon DEF TypeOK

\* The parts of TypeOK about streams stay true when streams do.
LEMMA PostsTyped ==
  ASSUME TypeOK, UNCHANGED <<setting, streamVars>>,
         ppc' \in [Posts -> {"new", "lookup", "url", "chain", "raw", "answered"}],
         of' \in [Posts -> Streams \cup {NoStream}], kind' \in [Posts -> MessageKinds \cup {"none"}],
         pat' \in [Posts -> 0..Len(setting.upstreams)],
         to' \in [Posts -> 0..MaxEvents],
         forwarded' \in [Posts -> {<<>>} \cup (1..Len(setting.upstreams)) \X (0..MaxEvents)],
         status' \in [Posts -> {None, 202, 400, 401, 404, 502, 503}]
  PROVE  TypeOK'
<1>1. UNCHANGED <<setting, get, client, spc, at, store, url, events, reader, carry, read, written, open, got>>
  BY DEF streamVars
<1> QED BY <1>1 DEF TypeOK

LEMMA PostTypes ==
  ASSUME TypeOK, Within, GatewayIInv, NEW p \in Posts,
         PostStep(p) \/ \E s \in Streams, k \in MessageKinds : Post(p, s, k)
  PROVE  TypeOK' /\ Within'
<1> DEFINE Places == {"new", "lookup", "url", "chain", "raw", "answered"}
           Codes == {None, 202, 400, 401, 404, 502, 503}
           Us == 0..Len(setting.upstreams)
           Sent == {<<>>} \cup (1..Len(setting.upstreams)) \X (0..MaxEvents)
<1>1. /\ ppc \in [Posts -> Places] /\ of \in [Posts -> Streams \cup {NoStream}]
      /\ kind \in [Posts -> MessageKinds \cup {"none"}] /\ pat \in [Posts -> Us]
      /\ to \in [Posts -> 0..MaxEvents] /\ forwarded \in [Posts -> Sent]
      /\ status \in [Posts -> Codes]
  BY PostSizes, Zenon
<1> HIDE DEF Us, Sent
<1>2. CASE PostStep(p)
  <2>1. /\ UNCHANGED <<setting, streamVars, of, kind, pat>>
        /\ ppc[p] \in {"lookup", "url", "chain", "raw"}
        /\ \E next \in Places \ {"new"} : ppc' = [ppc EXCEPT ![p] = next]
        /\ UNCHANGED status \/ \E code \in Codes : status' = [status EXCEPT ![p] = code]
        /\ UNCHANGED to \/ to' = [to EXCEPT ![p] = url[of[p]]]
        /\ \/ UNCHANGED forwarded
           \/ ppc[p] \in {"chain", "raw"} /\ forwarded' = [forwarded EXCEPT ![p] = <<pat[p], to[p]>>]
    <3>1. CASE LookUp(p)
      BY <3>1 DEF LookUp, PostGoes, Answer
    <3>2. CASE ReadURL(p)
      BY <3>2 DEF ReadURL, PostGoes, Answer
    <3>3. CASE Refuse(p)
      <4>1. /\ UNCHANGED <<setting, streamVars, of, kind, pat, to>> /\ ppc[p] \in {"chain", "raw"}
            /\ ppc' = [ppc EXCEPT ![p] = "answered"]
            /\ status' = [status EXCEPT ![p] = 400] \/ status' = [status EXCEPT ![p] = 401]
            /\ forwarded' = forwarded \/ forwarded' = [forwarded EXCEPT ![p] = <<pat[p], to[p]>>]
        BY <3>3 DEF Refuse, PostGoes, Answer
      <4>2. "answered" \in Places \ {"new"} /\ 400 \in Codes /\ 401 \in Codes
        OBVIOUS
      <4> HIDE DEF Places, Codes
      <4>3. \E next \in Places \ {"new"} : ppc' = [ppc EXCEPT ![p] = next]
        BY <4>1, <4>2, Zenon
      <4>4. \E code \in Codes : status' = [status EXCEPT ![p] = code]
        <5>1. status' = [status EXCEPT ![p] = 400] \/ status' = [status EXCEPT ![p] = 401]
          BY <4>1
        <5> QED BY <4>2, <5>1
      <4> QED BY <4>1, <4>3, <4>4, Zenon
    <3>4. CASE Forward(p)
      <4>1. /\ UNCHANGED <<setting, streamVars, of, kind, pat, to>> /\ ppc[p] \in {"chain", "raw"}
            /\ ppc' = [ppc EXCEPT ![p] = "answered"] /\ status' = [status EXCEPT ![p] = 202]
            /\ forwarded' = forwarded \/ forwarded' = [forwarded EXCEPT ![p] = <<pat[p], to[p]>>]
        BY <3>4 DEF Forward, PostGoes, Answer
      <4>2. "answered" \in Places \ {"new"} /\ 202 \in Codes
        OBVIOUS
      <4> HIDE DEF Places, Codes
      <4>3. \E next \in Places \ {"new"} : ppc' = [ppc EXCEPT ![p] = next]
        BY <4>1, <4>2, Zenon
      <4>4. \E code \in Codes : status' = [status EXCEPT ![p] = code]
        <5>1. status' = [status EXCEPT ![p] = 202]
          BY <4>1
        <5> QED BY <4>2, <5>1
      <4> QED BY <4>1, <4>3, <4>4, Zenon
    <3>5. CASE ForwardFails(p)
      <4>1. /\ UNCHANGED <<setting, streamVars, of, kind, pat, to>> /\ ppc[p] \in {"chain", "raw"}
            /\ ppc' = [ppc EXCEPT ![p] = "answered"] /\ status' = [status EXCEPT ![p] = 502]
            /\ forwarded' = forwarded \/ forwarded' = [forwarded EXCEPT ![p] = <<pat[p], to[p]>>]
        BY <3>5 DEF ForwardFails, PostGoes, Answer
      <4>2. "answered" \in Places \ {"new"} /\ 502 \in Codes
        OBVIOUS
      <4> HIDE DEF Places, Codes
      <4>3. \E next \in Places \ {"new"} : ppc' = [ppc EXCEPT ![p] = next]
        BY <4>1, <4>2, Zenon
      <4>4. \E code \in Codes : status' = [status EXCEPT ![p] = code]
        <5>1. status' = [status EXCEPT ![p] = 502]
          BY <4>1
        <5> QED BY <4>2, <5>1
      <4> QED BY <4>1, <4>3, <4>4, Zenon
    <3> QED BY <1>2, <3>1, <3>2, <3>3, <3>4, <3>5 DEF PostStep
  <2>2. of[p] \in Streams /\ pat[p] # None
    BY <2>1 DEF GatewayIInv, PostsFit, Within
  <2>3. url[of[p]] \in 0..MaxEvents
    BY <2>2, GatewaySizes
  <2>4. <<pat[p], to[p]>> \in Sent
    <3>1. pat[p] \in 1..Len(setting.upstreams)
      BY <1>1, <2>2, SettingIs DEF Us, None
    <3> QED BY <1>1, <3>1 DEF Sent
  <2> HIDE DEF Places, Codes
  <2>5. /\ ppc' \in [Posts -> Places] /\ status' \in [Posts -> Codes]
        /\ to' \in [Posts -> 0..MaxEvents] /\ forwarded' \in [Posts -> Sent]
    <3>1. ppc' \in [Posts -> Places]
      BY <1>1, <2>1, Changed, Zenon
    <3>2. status' \in [Posts -> Codes]
      BY <1>1, <2>1, Changed, Zenon
    <3>3. to' \in [Posts -> 0..MaxEvents]
      BY <1>1, <2>1, <2>3, Changed, Zenon
    <3>4. forwarded' \in [Posts -> Sent]
      BY <1>1, <2>1, <2>4, Changed, Zenon
    <3> QED BY <3>1, <3>2, <3>3, <3>4
  <2>6. TypeOK'
    <3>1. /\ UNCHANGED <<setting, streamVars>>
          /\ of' \in [Posts -> Streams \cup {NoStream}] /\ kind' \in [Posts -> MessageKinds \cup {"none"}]
          /\ pat' \in [Posts -> Us]
      BY <1>1, <2>1, Zenon
    <3> QED BY <2>5, <3>1, PostsTyped DEF Places, Codes, Us, Sent
  <2>7. Within'
    <3>1. \A o \in Posts : ppc'[o] # ppc[o] => o = p
      BY <1>1, <2>1
    <3> QED BY <2>1, <2>2, <3>1, Zenon DEF Within, streamVars
  <2> QED BY <2>6, <2>7
<1>3. ASSUME NEW s \in Streams, NEW k \in MessageKinds, Post(p, s, k)
      PROVE  TypeOK' /\ Within'
  <2> DEFINE us == setting.upstreams
             i == Match(us, get[s].host, MessagesPath)
             next == Dispatch(us, i, MessagesPath, k)
             code == IF next # "answered" THEN status[p] ELSE IF i = None THEN 502 ELSE 404
  <2>1. i \in Us
    BY SettingIs, MatchInRange DEF Us
  <2>2. next \in Places /\ (next # "answered" => i # None) /\ next # "new"
    BY DEF Dispatch
  <2>3. code \in Codes
    BY <1>1
  <2>4. /\ UNCHANGED <<setting, streamVars, to, forwarded>>
        /\ of' = [of EXCEPT ![p] = s] /\ kind' = [kind EXCEPT ![p] = k] /\ pat' = [pat EXCEPT ![p] = i]
        /\ ppc' = [ppc EXCEPT ![p] = next] /\ status' = [status EXCEPT ![p] = code]
    BY <1>3 DEF Post, PostGoes
  <2> HIDE DEF i, next, code, us, Places, Codes
  <2>5. s \in Streams \cup {NoStream} /\ k \in MessageKinds \cup {"none"}
    OBVIOUS
  <2>6. /\ ppc' \in [Posts -> Places] /\ status' \in [Posts -> Codes]
        /\ of' \in [Posts -> Streams \cup {NoStream}] /\ kind' \in [Posts -> MessageKinds \cup {"none"}]
        /\ pat' \in [Posts -> Us]
    BY <1>1, <2>1, <2>2, <2>3, <2>4, <2>5, Changed, Zenon
  <2>7. TypeOK'
    <3>1. to' \in [Posts -> 0..MaxEvents] /\ forwarded' \in [Posts -> Sent]
      BY <1>1, <2>4, Zenon
    <3> QED BY <2>4, <2>6, <3>1, PostsTyped, Zenon DEF Places, Codes, Us, Sent
  <2>8. Within'
    <3>1. ppc'[p] = next /\ pat'[p] = i /\ \A o \in Posts : o # p => ppc'[o] = ppc[o] /\ pat'[o] = pat[o]
      BY <1>1, <2>4
    <3>2. UNCHANGED <<setting, spc, at, written>>
      BY <2>4 DEF streamVars
    <3>3. next \in {"lookup", "url", "chain", "raw"} => i # None
      BY <2>2 DEF Places
    <3>4. \A o \in Posts : ppc'[o] \in {"lookup", "url", "chain", "raw"} => pat'[o] # None
      BY <3>1, <3>3, Zenon DEF Within
    <3> QED BY <3>2, <3>4, Zenon DEF Within
  <2> QED BY <2>7, <2>8
<1> QED BY <1>2, <1>3

\* The sequences of stream s.
LEMMA RelayTypes ==
  ASSUME GatewayIInv, NEW s \in Streams
  PROVE  /\ got[s] \in Seq(Nat) /\ events[s] \in Seq(Nat) /\ carry[s] \in Nat /\ read[s] \in Nat
         /\ Held(s) \in Seq(Nat) /\ Whereabouts(s) \in Seq(Nat)
<1>1. got[s] \in Seq(Nat) /\ events[s] \in Seq(Nat) /\ carry[s] \in Nat /\ read[s] \in Nat
  BY DEF GatewayIInv, GatewayTypes
<1>2. Held(s) \in Seq(Nat)
  BY <1>1 DEF Held
<1>3. Whereabouts(s) \in Seq(Nat)
  BY <1>1, <1>2, Together, Zenon DEF Whereabouts
<1> QED BY <1>1, <1>2, <1>3

\* Nothing of a stream's relay changes but that its client may leave.
LEMMA SameRelayed ==
  ASSUME NEW s \in Streams, StreamRelayed(s), client'[s] = "there" => client[s] = "there",
         got'[s] = got[s], read'[s] = read[s], written'[s] = written[s],
         client'[s] = "there" => Whereabouts(s)' = Whereabouts(s)
  PROVE  StreamRelayed(s)'
<1>1. \A n : Dataful(s, n)' = Dataful(s, n)
  BY DEF Dataful
<1> QED BY <1>1, Zenon DEF StreamRelayed, InOrder, Range

\* Streams that a step of another leaves alone.
LEMMA OthersRelayed ==
  ASSUME NEW s \in Streams, StreamRelayed(s),
         client'[s] = client[s], got'[s] = got[s], events'[s] = events[s], reader'[s] = reader[s],
         carry'[s] = carry[s], read'[s] = read[s], written'[s] = written[s]
  PROVE  StreamRelayed(s)'
<1>1. Whereabouts(s)' = Whereabouts(s)
  BY Zenon DEF Whereabouts, Held
<1> QED BY <1>1, SameRelayed, Zenon

\* Relay, with its client there: an event is received.
LEMMA RelayRelays ==
  ASSUME RelayIInv, NEW s \in Streams, Relay(s)
  PROVE  StreamRelayed(s)'
<1>1. /\ events[s] # <<>> /\ events' = [events EXCEPT ![s] = Tail(events[s])]
      /\ UNCHANGED <<client, reader, carry, read, written>>
      /\ \/ client[s] = "there" /\ got' = [got EXCEPT ![s] = Append(got[s], Head(events[s]))]
         \/ client[s] = "gone" /\ got' = got
  BY GatewaySizes DEF Relay, RelayIInv
<1>2. got[s] \in Seq(Nat) /\ events[s] \in Seq(Nat) /\ carry[s] \in Nat /\ read[s] \in Nat
      /\ Held(s) \in Seq(Nat)
  BY RelayTypes DEF RelayIInv
<1>3. StreamRelayed(s)
  BY DEF RelayIInv
<1>4. CASE client[s] = "gone" /\ got' = got
  BY <1>1, <1>3, <1>4, SameRelayed
<1>5. CASE got' = [got EXCEPT ![s] = Append(got[s], Head(events[s]))] /\ client[s] = "there"
  <2>1. got'[s] = Append(got[s], Head(events[s])) /\ events'[s] = Tail(events[s]) /\ Held(s)' = Held(s)
    <3>1. got \in [Streams -> Seq(Nat)] /\ events \in [Streams -> Seq(Nat)]
      BY DEF RelayIInv, GatewayIInv, GatewayTypes
    <3> QED BY <1>1, <1>5, <3>1 DEF Held
  <2>2. Append(got[s], Head(events[s])) \in Seq(Nat) /\ Tail(events[s]) \in Seq(Nat)
    BY <1>1, <1>2
  <2> DEFINE g == Append(got[s], Head(events[s]))
             e == Tail(events[s])
  <2>3. g \o e \o Held(s) = Whereabouts(s)
    <3>1. g \o e = got[s] \o events[s]
      BY <1>1, <1>2, ReceivedStays
    <3> QED BY <3>1, Zenon DEF Whereabouts
  <2>4. /\ g \o e \o Held(s) = g \o (e \o Held(s)) /\ e \o Held(s) \in Seq(Nat) /\ g \in Seq(Nat)
    <3>1. g \in Seq(Nat) /\ e \in Seq(Nat)
      BY <2>2
    <3> HIDE DEF g, e
    <3>2. Held(s) \in Seq(Nat)
      BY <1>2, Zenon
    <3> QED BY <3>1, <3>2, Together, Zenon
  <2> HIDE DEF g, e
  <2>5. InOrder(Whereabouts(s), Dataful(s, read[s]))
    BY <1>3, <1>5, Zenon DEF StreamRelayed
  <2>6. InOrder(g \o (e \o Held(s)), DatafulOf(written[s], read[s]))
    BY <2>3, <2>4, <2>5, Zenon DEF Dataful, DatafulOf
  <2>7. \E m \in 0..read[s] : InOrder(g, DatafulOf(written[s], m))
    <3> DEFINE eh == e \o Held(s)
    <3>1. g \in Seq(Nat) /\ eh \in Seq(Nat) /\ read[s] \in Nat
      BY <1>2, <2>4, Zenon
    <3>2. InOrder(g \o eh, DatafulOf(written[s], read[s]))
      BY <2>6, Zenon
    <3> HIDE DEF eh
    <3> QED BY <3>1, <3>2, InOrderBegins, Zenon
  <2>8. Whereabouts(s)' = Whereabouts(s)
    BY <2>1, <2>3, Zenon DEF Whereabouts, g, e
  <2>9. \A n : Dataful(s, n)' = Dataful(s, n)
    BY <1>1 DEF Dataful
  <2>10. got'[s] = g /\ read'[s] = read[s]
    BY <1>1, <2>1, Zenon DEF g
  <2>11. \E m \in 0..read'[s] : InOrder(got'[s], Dataful(s, m)')
    BY <2>7, <2>9, <2>10, Zenon DEF Dataful, DatafulOf
  <2>12. InOrder(Whereabouts(s)', Dataful(s, read[s])')
    BY <2>5, <2>8, <2>9, <2>10, Zenon
  <2> QED BY <2>10, <2>11, <2>12, Zenon DEF StreamRelayed, InOrder, Range
<1> QED BY <1>1, <1>4, <1>5

LEMMA SendRelays ==
  ASSUME RelayIInv, NEW s \in Streams, Send(s)
  PROVE  StreamRelayed(s)'
<1>1. /\ reader[s] = "sending" /\ events'[s] = Append(events[s], carry[s]) /\ reader'[s] = "reading"
      /\ UNCHANGED <<client, got, carry, read, written>>
  BY GatewaySizes DEF Send, RelayIInv
<1>2. got[s] \in Seq(Nat) /\ events[s] \in Seq(Nat) /\ carry[s] \in Nat
  BY RelayTypes DEF RelayIInv
<1>3. Held(s) = <<carry[s]>> /\ Held(s)' = <<>>
  BY <1>1 DEF Held
<1>4. got[s] \o Append(events[s], carry[s]) \o <<>> = got[s] \o events[s] \o <<carry[s]>>
  BY <1>2, SentStays
<1>5. Whereabouts(s)' = Whereabouts(s)
  BY <1>1, <1>3, <1>4, Zenon DEF Whereabouts
<1> QED BY <1>1, <1>5, SameRelayed DEF RelayIInv

LEMMA ReadRelays ==
  ASSUME RelayIInv, NEW s \in Streams, ReadEvent(s)
  PROVE  StreamRelayed(s)'
<1> DEFINE n == read[s] + 1
<1>1. /\ UNCHANGED <<client, got, events, written>>
      /\ reader[s] = "reading" /\ read'[s] = n
      /\ \/ written[s][n] = "blank" /\ reader'[s] = "reading"
         \/ written[s][n] # "blank" /\ reader'[s] = "sending" /\ carry'[s] = n
  BY GatewaySizes DEF ReadEvent, NextKind, RelayIInv
<1>2. got[s] \in Seq(Nat) /\ events[s] \in Seq(Nat) /\ read[s] \in Nat
  BY RelayTypes DEF RelayIInv
<1>3. StreamRelayed(s)
  BY DEF RelayIInv
<1>4. Held(s) = <<>> /\ \A m : Dataful(s, m)' = Dataful(s, m)
  BY <1>1 DEF Held, Dataful
<1>5. n \in Nat /\ 1..n = 1..read[s] \cup {n} /\ (\A i \in 1..read[s] : i < n) /\ 0..read[s] \subseteq 0..n
  BY <1>2
<1> HIDE DEF n
<1>6. \E m \in 0..read'[s] : InOrder(got'[s], Dataful(s, m)')
  BY <1>1, <1>3, <1>4, <1>5, Zenon DEF StreamRelayed
<1>7. ASSUME client[s] = "there"
      PROVE  InOrder(Whereabouts(s)', Dataful(s, n))
  <2> DEFINE q == got[s] \o events[s] \o <<>>
  <2>1. InOrder(q, Dataful(s, read[s])) /\ Whereabouts(s)' = got[s] \o events[s] \o Held(s)'
    <3>1. Whereabouts(s)' = got[s] \o events[s] \o Held(s)'
      BY <1>1, Zenon DEF Whereabouts
    <3> QED BY <1>3, <1>4, <1>7, <3>1, Zenon DEF StreamRelayed, Whereabouts
  <2>2. q \in Seq(Nat) /\ got[s] \o events[s] \o <<n>> = Append(q, n)
    <3>1. <<>> \in Seq(Nat)
      OBVIOUS
    <3>2. q \in Seq(Nat)
      BY <1>2, <3>1, Together, Zenon
    <3> QED BY <1>2, <1>5, <3>2, ReadIsLast
  <2> HIDE DEF q
  <2>3. CASE written[s][n] = "blank" /\ reader'[s] = "reading"
    <3>1. Held(s)' = <<>>
      BY <2>3 DEF Held
    <3>2. Dataful(s, n) = Dataful(s, read[s])
      BY <1>5, <2>3 DEF Dataful
    <3> QED BY <2>1, <3>1, <3>2, Zenon DEF q
  <2>4. CASE written[s][n] # "blank" /\ reader'[s] = "sending" /\ carry'[s] = n
    <3>1. Held(s)' = <<n>>
      BY <2>4 DEF Held
    <3>2. Dataful(s, n) = Dataful(s, read[s]) \cup {n}
      BY <1>5, <2>4 DEF Dataful
    <3>3. \A y \in Dataful(s, read[s]) : y < n
      BY <1>5 DEF Dataful
    <3>4. InOrder(Append(q, n), Dataful(s, read[s]) \cup {n})
      BY <1>5, <2>1, <2>2, <3>3, InOrderAppend
    <3> QED BY <2>1, <2>2, <3>1, <3>2, <3>4, Zenon
  <2> QED BY <1>1, <2>3, <2>4, Zenon
<1> QED BY <1>1, <1>4, <1>6, <1>7, Zenon DEF StreamRelayed, InOrder, Range

LEMMA WriteRelays ==
  ASSUME RelayIInv, NEW s \in Streams, NEW k \in EventKinds, UpstreamWrites(s, k)
  PROVE  StreamRelayed(s)'
<1>1. /\ UNCHANGED <<client, got, events, reader, carry, read>>
      /\ written[s] \in Seq(EventKinds) /\ written'[s] = Append(written[s], k)
  <2>1. written \in [Streams -> Seq(EventKinds)]
    BY GatewaySizes DEF RelayIInv
  <2> QED BY <2>1 DEF UpstreamWrites
<1>2. read[s] \in Nat /\ read[s] <= Len(written[s]) /\ Len(written[s]) \in Nat
  BY <1>1, RelayTypes DEF RelayIInv, GatewayIInv, EventsAreRead
<1>3. \A i \in 1..Len(written[s]) : written'[s][i] = written[s][i]
  BY <1>1
<1>4. \A n \in 0..read[s] : Dataful(s, n)' = Dataful(s, n)
  <2> SUFFICES ASSUME NEW n \in 0..read[s] PROVE Dataful(s, n)' = Dataful(s, n)
    OBVIOUS
  <2>1. 1..n \subseteq 1..Len(written[s])
    BY <1>2
  <2>2. \A i \in 1..n : written'[s][i] = written[s][i]
    BY <1>3, <2>1, Zenon
  <2> QED BY <2>2 DEF Dataful
<1>5. StreamRelayed(s)
  BY DEF RelayIInv
<1>6. Whereabouts(s)' = Whereabouts(s)
  BY <1>1, Zenon DEF Whereabouts, Held
<1>7. read[s] \in 0..read[s]
  BY <1>2
<1> QED BY <1>1, <1>4, <1>5, <1>6, <1>7, Zenon DEF StreamRelayed, InOrder, Range

\* The end of a stream, of its goroutine and its handler.
LEMMA EndsKept ==
  ASSUME RelayIInv, NEW s \in Streams,
         \/ Connect(s) \/ UpstreamAnswers(s) \/ ConnectFails(s)
         \/ Relay(s) \/ Handler(s) \/ Reader(s)
         \/ ClientLeaves(s) \/ UpstreamEnds(s)
         \/ \E k \in EventKinds : UpstreamWrites(s, k)
  PROVE  EndsFit'
<1> DEFINE Fit(t) ==
             /\ spc[t] \notin Begun => reader[t] = "none"
             /\ client[t] = "there" /\ reader[t] = "ended" => ~open[t] /\ read[t] = Len(written[t])
             /\ client[t] = "there" /\ spc[t] \in {"leaving", "removed", "gone"} =>
                  reader[t] = "ended" /\ events[t] = <<>>
<1>0. \A t \in Streams : Fit(t)
  BY DEF RelayIInv, EndsFit
<1>1. /\ client \in [Streams -> {"there", "gone"}]
      /\ spc \in [Streams -> {"new", "connecting", "relaying", "leaving", "removed", "gone", "refused"}]
      /\ events \in [Streams -> Seq(1..MaxEvents)]
      /\ reader \in [Streams -> {"none", "reading", "sending", "ended"}]
      /\ read \in [Streams -> 0..MaxEvents]
      /\ written \in [Streams -> Seq(EventKinds)] /\ open \in [Streams -> BOOLEAN]
  BY GatewaySizes, Zenon DEF RelayIInv
<1>2. \A t \in Streams : t # s =>
        /\ client'[t] = client[t] /\ spc'[t] = spc[t] /\ events'[t] = events[t] /\ reader'[t] = reader[t]
        /\ read'[t] = read[t] /\ written'[t] = written[t] /\ open'[t] = open[t]
  <2>1. CASE Connect(s) \/ UpstreamAnswers(s) \/ ConnectFails(s)
    BY <1>1, <2>1 DEF Connect, UpstreamAnswers, ConnectFails, HandlerGoes
  <2>2. CASE Relay(s)
    BY <1>1, <2>2 DEF Relay, HandlerGoes
  <2>3. CASE Handler(s)
    BY <1>1, <2>3 DEF Handler, RelayEnds, RemoveSession, CloseBody, HandlerGoes
  <2>4. CASE Reader(s)
    BY <1>1, <2>4 DEF Reader, ReadEvent, Send, Abandon, ScannerStops, ReaderEnds
  <2>5. CASE ClientLeaves(s) \/ UpstreamEnds(s)
    BY <1>1, <2>5 DEF ClientLeaves, UpstreamEnds
  <2>6. ASSUME NEW k \in EventKinds, UpstreamWrites(s, k)
        PROVE  \A t \in Streams : t # s =>
                 /\ client'[t] = client[t] /\ spc'[t] = spc[t] /\ events'[t] = events[t]
                 /\ reader'[t] = reader[t] /\ read'[t] = read[t] /\ written'[t] = written[t]
                 /\ open'[t] = open[t]
    BY <1>1, <2>6 DEF UpstreamWrites
  <2> QED BY <2>1, <2>2, <2>3, <2>4, <2>5, <2>6
<1>3. Fit(s)
  BY <1>0, Zenon
<1>4. ASSUME Connect(s) \/ ConnectFails(s) PROVE Fit(s)'
  <2>1. /\ spc[s] \in {"new", "connecting"} /\ spc'[s] \in {"connecting", "refused"}
        /\ UNCHANGED <<client, reader, open, read, written, events>>
    BY <1>1, <1>4 DEF Connect, ConnectFails, HandlerGoes
  <2> QED BY <1>3, <2>1 DEF Begun
<1>5. ASSUME UpstreamAnswers(s) PROVE Fit(s)'
  <2>1. spc'[s] = "relaying" /\ reader'[s] = "reading"
    BY <1>1, <1>5 DEF UpstreamAnswers, HandlerGoes
  <2> QED BY <2>1 DEF Begun
<1>6. ASSUME Relay(s) PROVE Fit(s)'
  <2>1. /\ spc[s] = "relaying" /\ UNCHANGED <<client, reader, open, read, written>>
        /\ spc'[s] = "relaying" \/ (spc'[s] = "leaving" /\ client[s] # "there")
    BY <1>1, <1>6 DEF Relay, HandlerGoes
  <2> QED BY <1>3, <2>1 DEF Begun
<1>7. ASSUME Handler(s) PROVE Fit(s)'
  <2>1. CASE RelayEnds(s)
    <3>1. /\ client[s] = "gone" \/ (reader[s] = "ended" /\ events[s] = <<>>)
          /\ UNCHANGED <<client, reader, open, read, written, events>>
      BY <1>1, <2>1 DEF RelayEnds, HandlerGoes
    <3>2. spc'[s] = "leaving" /\ (client[s] = "gone" \/ (reader[s] = "ended" /\ events[s] = <<>>))
      BY <1>1, <2>1 DEF RelayEnds, HandlerGoes
    <3> QED BY <1>3, <3>1, <3>2 DEF Begun
  <2>2. CASE RemoveSession(s) \/ CloseBody(s)
    <3>1. /\ spc[s] \in {"leaving", "removed"} /\ spc'[s] \in {"removed", "gone"}
          /\ UNCHANGED <<client, reader, read, written, events>> /\ (open'[s] = open[s] \/ open'[s] = FALSE)
      BY <1>1, <2>2 DEF RemoveSession, CloseBody, HandlerGoes
    <3> QED BY <1>3, <3>1 DEF Begun
  <2> QED BY <1>7, <2>1, <2>2 DEF Handler
<1>8. ASSUME Reader(s) PROVE Fit(s)'
  <2>1. CASE ReadEvent(s) \/ Send(s)
    <3>1. /\ reader[s] \in {"reading", "sending"} /\ reader'[s] \in {"reading", "sending"}
          /\ UNCHANGED <<client, spc, open, written>>
      BY <1>1, <2>1 DEF ReadEvent, Send
    <3> QED BY <1>3, <3>1
  <2>2. CASE Abandon(s)
    <3>1. /\ reader[s] = "sending" /\ spc[s] \in {"leaving", "removed", "gone"}
          /\ UNCHANGED <<client, spc, open, read, written, events>>
      BY <2>2 DEF Abandon, ReaderEnds
    <3> QED BY <1>3, <3>1 DEF Begun
  <2>3. CASE ScannerStops(s)
    <3>1. /\ reader[s] = "reading" /\ ~open[s] /\ (read[s] = Len(written[s]) \/ spc[s] = "gone")
          /\ reader'[s] = "ended"
          /\ UNCHANGED <<client, spc, open, read, written, events>>
      BY <1>1, <2>3 DEF ScannerStops, ReaderEnds
    <3> QED BY <1>3, <3>1
  <2> QED BY <1>8, <2>1, <2>2, <2>3 DEF Reader
<1>9. ASSUME ClientLeaves(s) \/ UpstreamEnds(s) PROVE Fit(s)'
  <2>1. /\ UNCHANGED <<spc, reader, read, written, events>>
        /\ client'[s] = client[s] \/ client'[s] = "gone"
        /\ open'[s] = open[s] \/ open'[s] = FALSE
    BY <1>1, <1>9 DEF ClientLeaves, UpstreamEnds
  <2> QED BY <1>3, <2>1
<1>10. ASSUME NEW k \in EventKinds, UpstreamWrites(s, k) PROVE Fit(s)'
  <2>1. open[s] /\ UNCHANGED <<client, spc, reader, read, open, events>>
    BY <1>10 DEF UpstreamWrites
  <2> QED BY <1>3, <2>1
<1>11. Fit(s)'
  BY <1>4, <1>5, <1>6, <1>7, <1>8, <1>9, <1>10
<1>12. \A t \in Streams : Fit(t)'
  <2> SUFFICES ASSUME NEW t \in Streams, t # s PROVE Fit(t)'
    BY <1>11
  <2>1. Fit(t)
    BY <1>0
  <2> QED BY <1>2, <2>1
<1> QED BY <1>12 DEF EndsFit

\* The events of all streams, when one of them takes a step.
LEMMA StreamStepRelays ==
  ASSUME RelayIInv, NEW s \in Streams,
         \/ Connect(s) \/ UpstreamAnswers(s) \/ ConnectFails(s)
         \/ Relay(s) \/ Handler(s) \/ Reader(s)
         \/ ClientLeaves(s) \/ UpstreamEnds(s)
         \/ \E k \in EventKinds : UpstreamWrites(s, k)
  PROVE  \A t \in Streams : StreamRelayed(t)'
<1>1. /\ client \in [Streams -> {"there", "gone"}]
      /\ events \in [Streams -> Seq(1..MaxEvents)] /\ got \in [Streams -> Seq(1..MaxEvents)]
      /\ reader \in [Streams -> {"none", "reading", "sending", "ended"}]
      /\ carry \in [Streams -> 0..MaxEvents] /\ read \in [Streams -> 0..MaxEvents]
      /\ written \in [Streams -> Seq(EventKinds)]
  BY GatewaySizes, Zenon DEF RelayIInv
<1>2. \A t \in Streams : t # s =>
        /\ client'[t] = client[t] /\ events'[t] = events[t] /\ reader'[t] = reader[t]
        /\ read'[t] = read[t] /\ written'[t] = written[t] /\ got'[t] = got[t] /\ carry'[t] = carry[t]
  <2>1. CASE Connect(s) \/ UpstreamAnswers(s) \/ ConnectFails(s)
    BY <1>1, <2>1 DEF Connect, UpstreamAnswers, ConnectFails
  <2>2. CASE Relay(s)
    BY <1>1, <2>2 DEF Relay
  <2>3. CASE Handler(s)
    BY <1>1, <2>3 DEF Handler, RelayEnds, RemoveSession, CloseBody
  <2>4. CASE Reader(s)
    BY <1>1, <2>4 DEF Reader, ReadEvent, Send, Abandon, ScannerStops, ReaderEnds
  <2>5. CASE ClientLeaves(s) \/ UpstreamEnds(s)
    BY <1>1, <2>5 DEF ClientLeaves, UpstreamEnds
  <2>6. ASSUME NEW k \in EventKinds, UpstreamWrites(s, k)
        PROVE  \A t \in Streams : t # s =>
                 /\ client'[t] = client[t] /\ events'[t] = events[t] /\ reader'[t] = reader[t]
                 /\ read'[t] = read[t] /\ written'[t] = written[t] /\ got'[t] = got[t]
                 /\ carry'[t] = carry[t]
    BY <1>1, <2>6 DEF UpstreamWrites
  <2> QED BY <2>1, <2>2, <2>3, <2>4, <2>5, <2>6
<1>3. \A t \in Streams : StreamRelayed(t)
  BY Zenon DEF RelayIInv
<1>4. ASSUME NEW t \in Streams, t # s PROVE StreamRelayed(t)'
  BY <1>2, <1>3, <1>4, OthersRelayed, Zenon
<1>5. ASSUME client'[s] = "there" => client[s] = "there",
             UNCHANGED <<got, events, carry, read, written>>,
             client[s] = "there" /\ reader'[s] # reader[s] =>
               reader[s] # "sending" /\ reader'[s] # "sending"
      PROVE  StreamRelayed(s)'
  <2>1. client'[s] = "there" => Held(s)' = Held(s)
    BY <1>5 DEF Held
  <2>2. client'[s] = "there" => Whereabouts(s)' = Whereabouts(s)
    BY <1>5, <2>1, Zenon DEF Whereabouts
  <2> QED BY <1>3, <1>5, <2>2, SameRelayed
<1>6. ASSUME Connect(s) \/ ConnectFails(s) \/ Handler(s) \/ ClientLeaves(s) \/ UpstreamEnds(s)
      PROVE  StreamRelayed(s)'
  <2>1. /\ UNCHANGED <<got, events, carry, read, written, reader>>
        /\ client'[s] = "there" => client[s] = "there"
    BY <1>1, <1>6 DEF Connect, ConnectFails, Handler, RelayEnds, RemoveSession, CloseBody, ClientLeaves,
                      UpstreamEnds
  <2> QED BY <1>5, <2>1
<1>7. ASSUME UpstreamAnswers(s) PROVE StreamRelayed(s)'
  <2>1. /\ spc[s] = "connecting" /\ reader'[s] = "reading"
        /\ UNCHANGED <<client, got, events, carry, read, written>>
    BY <1>1, <1>7 DEF UpstreamAnswers, HandlerGoes
  <2>2. reader[s] = "none"
    BY <2>1 DEF RelayIInv, EndsFit, Begun
  <2> QED BY <1>5, <2>1, <2>2
<1>8. ASSUME Abandon(s) \/ ScannerStops(s) PROVE StreamRelayed(s)'
  <2>1. /\ UNCHANGED <<client, got, events, carry, read, written>> /\ reader'[s] = "ended"
        /\ \/ reader[s] = "reading"
           \/ reader[s] = "sending" /\ spc[s] \in {"leaving", "removed", "gone"}
    BY <1>1, <1>8 DEF Abandon, ScannerStops, ReaderEnds
  <2>2. client[s] = "there" => reader[s] = "reading"
    BY <2>1 DEF RelayIInv, EndsFit
  <2> QED BY <1>5, <2>1, <2>2
<1>9. StreamRelayed(s)'
  BY <1>6, <1>7, <1>8, RelayRelays, SendRelays, ReadRelays, WriteRelays DEF Reader
<1> QED BY <1>4, <1>9

LEMMA RelayNextKeeps == RelayIInv /\ [Next]_vars => RelayIInv'
<1> SUFFICES ASSUME RelayIInv, [Next]_vars PROVE RelayIInv'
  OBVIOUS
<1>1. GatewayIInv'
  BY GatewayNextKeeps DEF RelayIInv
<1>2. ASSUME NEW s \in Streams,
             \/ Connect(s) \/ UpstreamAnswers(s) \/ ConnectFails(s)
             \/ Relay(s) \/ Handler(s) \/ Reader(s)
             \/ ClientLeaves(s) \/ UpstreamEnds(s)
             \/ \E k \in EventKinds : UpstreamWrites(s, k)
      PROVE  RelayIInv'
  <2>1. TypeOK' /\ Within'
    BY <1>2, HandlerTypes, ConnectTypes, MoveTypes, WriteTypes, ReadTypes, EndTypes
       DEF RelayIInv, Reader, Abandon, ScannerStops
  <2> QED BY <1>1, <1>2, <2>1, EndsKept, StreamStepRelays DEF RelayIInv
<1>3. ASSUME UNCHANGED streamVars
      PROVE  EndsFit' /\ \A s \in Streams : StreamRelayed(s)'
  <2>1. UNCHANGED <<client, spc, events, reader, carry, read, written, open, got>>
    BY <1>3 DEF streamVars
  <2>2. EndsFit'
    BY <2>1 DEF RelayIInv, EndsFit
  <2> QED BY <2>1, <2>2, OthersRelayed DEF RelayIInv
<1>4. ASSUME NEW p \in Posts, PostStep(p) \/ \E s \in Streams, k \in MessageKinds : Post(p, s, k)
      PROVE  RelayIInv'
  <2>1. UNCHANGED streamVars
    BY <1>4 DEF PostStep, LookUp, ReadURL, Refuse, Forward, ForwardFails, Post
  <2> QED BY <1>1, <1>3, <1>4, <2>1, PostTypes DEF RelayIInv
<1>5. CASE UNCHANGED vars
  <2>1. UNCHANGED <<setting, streamVars, postVars>>
    BY <1>5 DEF vars
  <2>2. TypeOK' /\ Within'
    BY <2>1 DEF streamVars, postVars, RelayIInv, TypeOK, Within
  <2> QED BY <1>1, <1>3, <2>1, <2>2 DEF RelayIInv
<1> QED BY <1>2, <1>4, <1>5 DEF Next

LEMMA RelayInitHolds == Init => RelayIInv
<1> SUFFICES ASSUME Init PROVE RelayIInv
  OBVIOUS
<1>1. GatewayIInv
  BY GatewayInitHolds
<1>2. setting \in Settings /\ get \in [Streams -> setting.requests]
  BY DEF Init
<1>3. setting.upstreams \in Seq(Upstreams) /\ setting.events \in 0..MaxEvents
  BY <1>2, GatewayAssumption
<1>4. 0 \in 0..MaxEvents /\ 0 \in 0..Len(setting.upstreams) /\ 0 <= Capacity /\ 0 <= setting.events
  BY <1>3, GatewayAssumption
<1>5. TypeOK
  <2>1. /\ client \in [Streams -> {"there", "gone"}]
        /\ spc \in [Streams -> {"new", "connecting", "relaying", "leaving", "removed", "gone", "refused"}]
        /\ at \in [Streams -> 0..Len(setting.upstreams)]
        /\ store \subseteq (1..Len(setting.upstreams)) \X Streams
        /\ url \in [Streams -> 0..MaxEvents]
    BY <1>4 DEF Init, None
  <2>2. /\ events \in [Streams -> Seq(1..MaxEvents)] /\ got \in [Streams -> Seq(1..MaxEvents)]
        /\ written \in [Streams -> Seq(EventKinds)]
        /\ \A s \in Streams : Len(events[s]) <= Capacity
    BY <1>4 DEF Init
  <2>3. /\ reader \in [Streams -> {"none", "reading", "sending", "ended"}]
        /\ carry \in [Streams -> 0..MaxEvents] /\ read \in [Streams -> 0..MaxEvents]
        /\ open \in [Streams -> BOOLEAN]
    BY <1>4 DEF Init, None
  <2>4. /\ ppc \in [Posts -> {"new", "lookup", "url", "chain", "raw", "answered"}]
        /\ of \in [Posts -> Streams \cup {NoStream}] /\ kind \in [Posts -> MessageKinds \cup {"none"}]
        /\ pat \in [Posts -> 0..Len(setting.upstreams)]
        /\ to \in [Posts -> 0..MaxEvents]
        /\ forwarded \in [Posts -> {<<>>} \cup (1..Len(setting.upstreams)) \X (0..MaxEvents)]
        /\ status \in [Posts -> {None, 202, 400, 401, 404, 502, 503}]
    BY <1>4 DEF Init, None
  <2> QED BY <1>2, <2>1, <2>2, <2>3, <2>4, Zenon DEF TypeOK
<1>6. Within /\ EndsFit
  BY <1>4 DEF Init, Within, EndsFit, Begun
<1>7. ASSUME NEW s \in Streams PROVE StreamRelayed(s)
  <2>1. got[s] = <<>> /\ events[s] = <<>> /\ reader[s] = "none" /\ read[s] = 0
    BY DEF Init
  <2>2. Whereabouts(s) = <<>> /\ Dataful(s, 0) = {} /\ 0 \in 0..read[s]
    BY <2>1 DEF Whereabouts, Held, Dataful
  <2>3. InOrder(<<>>, {})
    BY DEF InOrder, Range
  <2> QED BY <2>1, <2>2, <2>3, Zenon DEF StreamRelayed
<1> QED BY <1>1, <1>5, <1>6, <1>7 DEF RelayIInv

\* sse.go:89-207: what holds of the sessions at all times, for any streams, posts,
\* events and capacity: sizes and places, a client that knows its session's URL
\* is not too early, and the events with data reach the client in their order,
\* none missing, as long as it is there.
THEOREM GatewayInvCorrect == Spec => []GatewayInv
<1>1. RelayIInv => GatewayInv
  <2> SUFFICES ASSUME RelayIInv PROVE GatewayInv
    OBVIOUS
  <2>1. TypeOK /\ ToldIsReady
    BY DEF RelayIInv, GatewayIInv, PostsFit, ToldIsReady, Nowhere
  <2>2. ASSUME NEW s \in Streams, client[s] = "there", spc[s] = "gone"
        PROVE  InOrder(got[s], Dataful(s, read[s])) /\ read[s] = Len(written[s])
    <3>1. reader[s] = "ended" /\ events[s] = <<>> /\ read[s] = Len(written[s])
      BY <2>2 DEF RelayIInv, EndsFit
    <3>2. got[s] \in Seq(Nat)
      BY RelayTypes DEF RelayIInv
    <3>3. Whereabouts(s) = got[s]
      BY <3>1, <3>2, AllReceived DEF Whereabouts, Held
    <3> QED BY <2>2, <3>1, <3>3 DEF RelayIInv, StreamRelayed
  <2>3. RelayedInOrder
    BY <2>2, Zenon DEF RelayIInv, StreamRelayed, Whereabouts, RelayedInOrder
  <2> QED BY <2>1, <2>3 DEF GatewayInv
<1>2. Spec => []RelayIInv
  BY RelayInitHolds, RelayNextKeeps, PTL DEF Spec
<1> QED BY <1>1, <1>2, PTL
=============================================================================
