--------------------------- MODULE EgressProxyProofs ---------------------------
(***************************************************************************)
(* Proofs about EgressProxy, for any number of exchanges, destinations,    *)
(* chains and reloads, and any mixture of faults.                          *)
(***************************************************************************)
EXTENDS EgressProxy, TLAPS

\* The part of TypeOK that the control of an exchange needs.
Types ==
  /\ kind \in [Exchanges -> {"none", "http", "connect", "mitm", "inner"}]
  /\ pc \in [Exchanges -> Places]
  /\ tunnel \in [Exchanges -> Exchanges]
  /\ client \in [Exchanges -> {"none", "established", "400", "403", "500", "502", "response"}]

Acts == {"allow", "warn", "block"}

-----------------------------------------------------------------------------
\* What ProcessResponse can do to the trail.
LEMMA ResponseChanges ==
  ASSUME NEW e \in Exchanges, ProcessResponse(e),
         rows \in [Exchanges -> Seq(Acts)], lost \subseteq Exchanges, off \subseteq Exchanges
  PROVE  /\ \A x \in Exchanges \ {e} :
              rows'[x] = rows[x] /\ (x \in lost' <=> x \in lost) /\ (x \in off' <=> x \in off)
         /\ \/ rows'[e] = Append(rows[e], RowAction(e)) /\ lost' = lost /\ off' = off
            \/ rows'[e] = rows[e] /\ e \in lost' /\ off' = off
            \/ rows'[e] = rows[e] /\ lost' = lost /\ e \in off'
         /\ RowAction(e) \in Acts => rows' \in [Exchanges -> Seq(Acts)]
         /\ lost' \subseteq Exchanges /\ off' \subseteq Exchanges
<1>1. \/ rows' = [rows EXCEPT ![e] = Append(@, RowAction(e))] /\ lost' = lost /\ off' = off
      \/ rows' = rows /\ lost' = lost \cup {e} /\ off' = off
      \/ rows' = rows /\ lost' = lost /\ off' = off \cup {e}
  BY Zenon DEF ProcessResponse
<1>2. CASE rows' = [rows EXCEPT ![e] = Append(@, RowAction(e))] /\ lost' = lost /\ off' = off
  <2>1. RowAction(e) \in Acts => Append(rows[e], RowAction(e)) \in Seq(Acts)
    OBVIOUS
  <2> QED BY <1>2, <2>1
<1>3. CASE rows' = rows /\ lost' = lost \cup {e} /\ off' = off
  BY <1>3
<1>4. CASE rows' = rows /\ lost' = lost /\ off' = off \cup {e}
  BY <1>4
<1> QED BY <1>1, <1>2, <1>3, <1>4

\* The empty sequence and what it becomes when a value is appended.
LEMMA FirstRow ==
  ASSUME NEW a
  PROVE  /\ DOMAIN <<>> = {}
         /\ Append(<<>>, a) = <<a>>
         /\ \A i \in DOMAIN <<a>> : <<a>>[i] = a
OBVIOUS

\* The action a request leaves ProcessRequest with.
LEMMA JudgedAction ==
  ASSUME NEW c \in Chain, NEW h, NEW old \in {"", "allow", "warn", "block"}
  PROVE  /\ Judged(c, h, old) \in {"", "allow", "warn", "block"}
         /\ Refuses(c, h) => Judged(c, h, old) = "block"
         /\ (~Refuses(c, h) /\ old # "block") => Judged(c, h, old) # "block"
<1>1. c.mode \in {"warn", "block"}
  BY DEF Chain
<1>2. CASE Violates(c, h)
  <2>1. Judged(c, h, old) = c.mode
    BY <1>2 DEF Judged
  <2> QED BY <1>1, <1>2, <2>1 DEF Refuses
<1>3. CASE ~Violates(c, h)
  <2>1. Judged(c, h, old) \in {"allow", old}
    <3>1. c.policy \in BOOLEAN
      BY DEF Chain
    <3> QED BY <1>3, <3>1 DEF Judged
  <2> QED BY <1>3, <2>1 DEF Refuses
<1> QED BY <1>2, <1>3

-----------------------------------------------------------------------------
\* Every step keeps exchanges where their kind can be.
LEMMA KindStep ==
  ASSUME Types, KindFits, [Next]_vars
  PROVE  KindFits'
<1> USE DEF Types
<1>1. ASSUME NEW e \in Exchanges, NEW k \in {"http", "connect"}, NEW h \in Hosts, Accept(e, k, h)
      PROVE  KindFits'
  <2>1. kind[e] = "none"
    BY <1>1 DEF Accept, KindFits, Fits
  <2>2. /\ \A x \in Exchanges : kind'[x] = IF x = e THEN k ELSE kind[x]
        /\ tunnel' = tunnel
        /\ \A x \in Exchanges : pc'[x] = IF x = e THEN IF k = "http" THEN "roundtrip" ELSE "accepted" ELSE pc[x]
    BY <1>1 DEF Accept
  <2>3. \A x \in Exchanges : Fits(kind'[x], pc'[x])
    BY <2>2 DEF KindFits, Fits
  <2>4. \A x \in Exchanges : kind'[x] # "inner" => tunnel'[x] = x
    BY <2>1, <2>2 DEF KindFits
  <2>5. \A x \in Exchanges : kind'[x] = "inner" => kind'[tunnel'[x]] = "mitm"
    BY <2>1, <2>2 DEF KindFits
  <2> QED BY <2>3, <2>4, <2>5 DEF KindFits
<1>2. ASSUME NEW e \in Exchanges, NEW k \in {"http", "connect"}, NEW h \in Hosts, Reject(e, k, h)
      PROVE  KindFits'
  <2>1. kind[e] = "none"
    BY <1>2 DEF Reject, KindFits, Fits
  <2>2. /\ \A x \in Exchanges : kind'[x] = IF x = e THEN k ELSE kind[x]
        /\ tunnel' = tunnel
        /\ \A x \in Exchanges : pc'[x] = IF x = e THEN "after" ELSE pc[x]
    BY <1>2 DEF Reject
  <2>3. \A x \in Exchanges : Fits(kind'[x], pc'[x])
    BY <2>2 DEF KindFits, Fits
  <2>4. \A x \in Exchanges : kind'[x] # "inner" => tunnel'[x] = x
    BY <2>1, <2>2 DEF KindFits
  <2>5. \A x \in Exchanges : kind'[x] = "inner" => kind'[tunnel'[x]] = "mitm"
    BY <2>1, <2>2 DEF KindFits
  <2> QED BY <2>3, <2>4, <2>5 DEF KindFits
<1>3. ASSUME NEW e \in Exchanges, HijackFails(e) PROVE KindFits'
  BY <1>3
  DEF KindFits, Fits, HijackFails, origin, trail
<1>4. ASSUME NEW e \in Exchanges, Establish(e) PROVE KindFits'
  BY <1>4
  DEF KindFits, Fits, Establish, origin, trail
<1>5. ASSUME NEW e \in Exchanges, ClientFails(e) PROVE KindFits'
  BY <1>5
  DEF KindFits, Fits, ClientFails, origin, trail
<1>6. ASSUME NEW e \in Exchanges, DialFails(e) PROVE KindFits'
  BY <1>6
  DEF KindFits, Fits, DialFails, origin, trail
<1>7. ASSUME NEW e \in Exchanges, Pipe(e) PROVE KindFits'
  BY <1>7
  DEF KindFits, Fits, Pipe, origin, trail
<1>8. ASSUME NEW e \in Exchanges, PipeEnds(e) PROVE KindFits'
  BY <1>8
  DEF KindFits, Fits, PipeEnds, origin, trail
<1>9. ASSUME NEW e \in Exchanges, RoundTripFails(e) PROVE KindFits'
  BY <1>9
  DEF KindFits, Fits, RoundTripFails, origin, trail
<1>10. ASSUME NEW e \in Exchanges, RoundTrip(e) PROVE KindFits'
  BY <1>10
  DEF KindFits, Fits, RoundTrip, origin, trail
<1>11. ASSUME NEW e \in Exchanges, After(e) PROVE KindFits'
  <2>1. kind' = kind /\ tunnel' = tunnel
    BY <1>11 DEF After, origin
  <2>2. \A x \in Exchanges :
          pc'[x] = IF x = e \/ x = tunnel[e] THEN "done" ELSE pc[x]
    BY <1>11 DEF After
  <2>3. kind[e] \in {"http", "connect", "inner"}
    BY <1>11 DEF After, KindFits, Fits
  <2>4. kind[tunnel[e]] \in {"http", "connect", "inner", "mitm"}
    BY <2>3 DEF KindFits
  <2>5. ASSUME NEW x \in Exchanges PROVE Fits(kind[x], pc'[x])
    BY <2>2, <2>3, <2>4 DEF KindFits, Fits
  <2> QED BY <2>1, <2>5 DEF KindFits
<1>12. ASSUME NEW e \in Exchanges, Serve(e) PROVE KindFits'
  BY <1>12
  DEF KindFits, Fits, Serve, origin, trail
<1>13. ASSUME NEW e \in Exchanges, TunnelEnds(e) PROVE KindFits'
  BY <1>13
  DEF KindFits, Fits, TunnelEnds, origin, trail
<1>14. ASSUME NEW e \in Exchanges, NEW c \in Exchanges, AcceptInner(c, e)
      PROVE  KindFits'
  <2>1. c # e /\ kind[c] = "mitm"
    BY <1>14 DEF AcceptInner, KindFits, Fits
  <2>2. /\ \A x \in Exchanges : kind'[x] = IF x = e THEN "inner" ELSE kind[x]
        /\ \A x \in Exchanges : tunnel'[x] = IF x = e THEN c ELSE tunnel[x]
        /\ \A x \in Exchanges :
             pc'[x] = IF x = e THEN "replay" ELSE IF x = c THEN "busy" ELSE pc[x]
    BY <1>14, <2>1 DEF AcceptInner
  <2>3. ASSUME NEW x \in Exchanges PROVE Fits(kind'[x], pc'[x])
    BY <2>1, <2>2 DEF KindFits, Fits
  <2>4. ASSUME NEW x \in Exchanges, kind'[x] # "inner" PROVE tunnel'[x] = x
    BY <2>2, <2>4 DEF KindFits
  <2>5. ASSUME NEW x \in Exchanges, kind'[x] = "inner" PROVE kind'[tunnel'[x]] = "mitm"
    <3>1. CASE x = e
      BY <2>1, <2>2, <3>1
    <3>2. CASE x # e
      <4>1. kind[tunnel[x]] = "mitm" /\ tunnel'[x] = tunnel[x] /\ tunnel[x] \in Exchanges
        BY <2>2, <2>5, <3>2 DEF KindFits
      <4>2. tunnel[x] # e
        BY <4>1, <1>14 DEF AcceptInner, KindFits, Fits
      <4> QED BY <2>2, <4>1, <4>2
    <3> QED BY <3>1, <3>2
  <2> QED BY <2>3, <2>4, <2>5 DEF KindFits
<1>15. ASSUME NEW e \in Exchanges, NEW c \in Exchanges, RejectInner(c, e)
      PROVE  KindFits'
  <2>1. c # e /\ kind[c] = "mitm"
    BY <1>15 DEF RejectInner, KindFits, Fits
  <2>2. /\ \A x \in Exchanges : kind'[x] = IF x = e THEN "inner" ELSE kind[x]
        /\ \A x \in Exchanges : tunnel'[x] = IF x = e THEN c ELSE tunnel[x]
        /\ \A x \in Exchanges :
             pc'[x] = IF x = e THEN "after" ELSE IF x = c THEN "busy" ELSE pc[x]
    BY <1>15, <2>1 DEF RejectInner
  <2>3. ASSUME NEW x \in Exchanges PROVE Fits(kind'[x], pc'[x])
    BY <2>1, <2>2 DEF KindFits, Fits
  <2>4. ASSUME NEW x \in Exchanges, kind'[x] # "inner" PROVE tunnel'[x] = x
    BY <2>2, <2>4 DEF KindFits
  <2>5. ASSUME NEW x \in Exchanges, kind'[x] = "inner" PROVE kind'[tunnel'[x]] = "mitm"
    <3>1. CASE x = e
      BY <2>1, <2>2, <3>1
    <3>2. CASE x # e
      <4>1. kind[tunnel[x]] = "mitm" /\ tunnel'[x] = tunnel[x] /\ tunnel[x] \in Exchanges
        BY <2>2, <2>5, <3>2 DEF KindFits
      <4>2. tunnel[x] # e
        BY <4>1, <1>15 DEF RejectInner, KindFits, Fits
      <4> QED BY <2>2, <4>1, <4>2
    <3> QED BY <3>1, <3>2
  <2> QED BY <2>3, <2>4, <2>5 DEF KindFits
<1>16. ASSUME NEW e \in Exchanges, NEW c \in Exchanges, BodyFails(c, e)
      PROVE  KindFits'
  BY <1>16
  DEF KindFits, Fits, BodyFails, origin, trail
<1>17. ASSUME NEW e \in Exchanges, ReplayFails(e) PROVE KindFits'
  BY <1>17
  DEF KindFits, Fits, ReplayFails, origin, trail
<1>18. ASSUME NEW e \in Exchanges, Replay(e) PROVE KindFits'
  BY <1>18
  DEF KindFits, Fits, Replay, origin, trail
<1>19. ASSUME NEW e \in Exchanges, LogInner(e) PROVE KindFits'
  BY <1>19
  DEF KindFits, Fits, LogInner, origin, trail
<1>20. ASSUME NEW e \in Exchanges, Answer(e) PROVE KindFits'
  BY <1>20
  DEF KindFits, Fits, Answer, origin, trail
<1>21. ASSUME NEW e \in Exchanges, AnswerFails(e) PROVE KindFits'
  BY <1>21
  DEF KindFits, Fits, AnswerFails, origin, trail
<1>22. ASSUME NEW c \in Chains, Reload(c) PROVE KindFits'
  BY <1>22
  DEF KindFits, Fits, Reload, origin, trail
<1>23. CASE UNCHANGED vars
  BY <1>23
  DEF KindFits, Fits, vars, origin, trail
<1>24. ASSUME NEW e \in Exchanges, BadRequest(e) PROVE KindFits'
  <2>1. kind[e] = "none"
    BY <1>24 DEF BadRequest, KindFits, Fits
  <2>2. /\ \A x \in Exchanges : kind'[x] = IF x = e THEN "http" ELSE kind[x]
        /\ tunnel' = tunnel
        /\ \A x \in Exchanges : pc'[x] = IF x = e THEN "done" ELSE pc[x]
    BY <1>24 DEF BadRequest
  <2>3. \A x \in Exchanges : Fits(kind'[x], pc'[x])
    BY <2>2 DEF KindFits, Fits
  <2>4. \A x \in Exchanges : kind'[x] # "inner" => tunnel'[x] = x
    BY <2>1, <2>2 DEF KindFits
  <2>5. \A x \in Exchanges : kind'[x] = "inner" => kind'[tunnel'[x]] = "mitm"
    BY <2>1, <2>2 DEF KindFits
  <2> QED BY <2>3, <2>4, <2>5 DEF KindFits
<1> QED
  BY <1>1, <1>2, <1>3, <1>4, <1>5, <1>6, <1>7, <1>8, <1>9, <1>10, <1>11, <1>12,
     <1>13, <1>14, <1>15, <1>16, <1>17, <1>18, <1>19, <1>20, <1>21, <1>22,
     <1>23, <1>24
  DEF Next, Outer, Inner, Terminated

\* Every step keeps tunnels busy with at most one exchange.
LEMMA TunnelStep ==
  ASSUME Types, KindFits, TunnelFits, RefusalFits, [Next]_vars
  PROVE  TunnelFits'
<1> USE DEF Types
<1>1. ASSUME NEW e \in Exchanges, NEW k \in {"http", "connect"}, NEW h \in Hosts, Accept(e, k, h)
      PROVE  TunnelFits'
  <2>1. kind[e] = "none" /\ pc[e] = "idle"
    BY <1>1 DEF Accept, KindFits, Fits
  <2>2. /\ \A x \in Exchanges : kind'[x] = IF x = e THEN k ELSE kind[x]
        /\ tunnel' = tunnel
        /\ \A x \in Exchanges : pc'[x] = IF x = e THEN IF k = "http" THEN "roundtrip" ELSE "accepted" ELSE pc[x]
        /\ \A x \in Exchanges : client'[x] = client[x]
    BY <1>1 DEF Accept
  <2>3. \A x \in Exchanges : Open(x)' <=> Open(x)
    BY <2>1, <2>2 DEF Open
  <2>4. \A x \in Exchanges : Open(x) => tunnel[x] # e
    BY <2>1 DEF TunnelFits, OneAtATime
  <2>5. OneAtATime'
    BY <2>2, <2>3, <2>4 DEF TunnelFits, OneAtATime
  <2>6. ASSUME NEW x \in Exchanges, kind'[x] = "inner", Refused(x)', pc'[x] = "done"
        PROVE  pc'[tunnel'[x]] = "done"
    <3>1. x # e /\ kind[x] = "inner" /\ Refused(x) /\ pc[x] = "done"
      BY <2>2, <2>6 DEF Refused
    <3> QED BY <2>1, <2>2, <3>1 DEF TunnelFits
  <2> QED BY <2>5, <2>6 DEF TunnelFits
<1>2. ASSUME NEW e \in Exchanges, NEW k \in {"http", "connect"}, NEW h \in Hosts, Reject(e, k, h)
      PROVE  TunnelFits'
  <2>1. kind[e] = "none" /\ pc[e] = "idle"
    BY <1>2 DEF Reject, KindFits, Fits
  <2>2. /\ \A x \in Exchanges : kind'[x] = IF x = e THEN k ELSE kind[x]
        /\ tunnel' = tunnel
        /\ \A x \in Exchanges : pc'[x] = IF x = e THEN "after" ELSE pc[x]
        /\ \A x \in Exchanges : client'[x] = IF x = e THEN "403" ELSE client[x]
    BY <1>2 DEF Reject
  <2>3. \A x \in Exchanges : Open(x)' <=> Open(x)
    BY <2>1, <2>2 DEF Open
  <2>4. \A x \in Exchanges : Open(x) => tunnel[x] # e
    BY <2>1 DEF TunnelFits, OneAtATime
  <2>5. OneAtATime'
    BY <2>2, <2>3, <2>4 DEF TunnelFits, OneAtATime
  <2>6. ASSUME NEW x \in Exchanges, kind'[x] = "inner", Refused(x)', pc'[x] = "done"
        PROVE  pc'[tunnel'[x]] = "done"
    <3>1. x # e /\ kind[x] = "inner" /\ Refused(x) /\ pc[x] = "done"
      BY <2>2, <2>6 DEF Refused
    <3> QED BY <2>1, <2>2, <3>1 DEF TunnelFits
  <2> QED BY <2>5, <2>6 DEF TunnelFits
<1>3. ASSUME NEW e \in Exchanges, HijackFails(e) PROVE TunnelFits'
  BY <1>3
  DEF KindFits, Fits, TunnelFits, OneAtATime, Open, Refused, RefusalFits,
     HijackFails, origin, trail
<1>4. ASSUME NEW e \in Exchanges, Establish(e) PROVE TunnelFits'
  BY <1>4
  DEF KindFits, Fits, TunnelFits, OneAtATime, Open, Refused, RefusalFits,
     Establish, origin, trail
<1>5. ASSUME NEW e \in Exchanges, ClientFails(e) PROVE TunnelFits'
  BY <1>5
  DEF KindFits, Fits, TunnelFits, OneAtATime, Open, Refused, RefusalFits,
     ClientFails, origin, trail
<1>6. ASSUME NEW e \in Exchanges, DialFails(e) PROVE TunnelFits'
  BY <1>6
  DEF KindFits, Fits, TunnelFits, OneAtATime, Open, Refused, RefusalFits,
     DialFails, origin, trail
<1>7. ASSUME NEW e \in Exchanges, Pipe(e) PROVE TunnelFits'
  BY <1>7
  DEF KindFits, Fits, TunnelFits, OneAtATime, Open, Refused, RefusalFits, Pipe,
     origin, trail
<1>8. ASSUME NEW e \in Exchanges, PipeEnds(e) PROVE TunnelFits'
  BY <1>8
  DEF KindFits, Fits, TunnelFits, OneAtATime, Open, Refused, RefusalFits,
     PipeEnds, origin, trail
<1>9. ASSUME NEW e \in Exchanges, RoundTripFails(e) PROVE TunnelFits'
  BY <1>9
  DEF KindFits, Fits, TunnelFits, OneAtATime, Open, Refused, RefusalFits,
     RoundTripFails, origin, trail
<1>10. ASSUME NEW e \in Exchanges, RoundTrip(e) PROVE TunnelFits'
  BY <1>10
  DEF KindFits, Fits, TunnelFits, OneAtATime, Open, Refused, RefusalFits,
     RoundTrip, origin, trail
<1>11. ASSUME NEW e \in Exchanges, After(e) PROVE TunnelFits'
  <2>1. kind' = kind /\ tunnel' = tunnel /\ client' = client
    BY <1>11 DEF After, origin
  <2>2. \A x \in Exchanges :
          pc'[x] = IF x = e \/ x = tunnel[e] THEN "done" ELSE pc[x]
    BY <1>11 DEF After
  <2>3. \A x \in Exchanges : Open(x)' => Open(x) /\ x # e /\ pc'[x] = pc[x]
    BY <2>1, <2>2 DEF Open
  <2>4. \A x \in Exchanges : (Open(x) /\ x # e) => tunnel[x] # tunnel[e]
    <3>1. CASE kind[e] = "inner"
      BY <1>11, <3>1 DEF After, TunnelFits, OneAtATime, Open
    <3>2. CASE kind[e] # "inner"
      BY <1>11, <3>2 DEF After, KindFits, TunnelFits, OneAtATime
    <3> QED BY <3>1, <3>2
  <2>5. \A x \in Exchanges : (Open(x) /\ x # e) => tunnel[x] # e
    BY <1>11 DEF After, TunnelFits, OneAtATime
  <2>6. ASSUME NEW x \in Exchanges, Open(x)' PROVE pc'[tunnel'[x]] = "busy"
    BY <2>1, <2>2, <2>3, <2>4, <2>5, <2>6 DEF TunnelFits, OneAtATime
  <2>7. ASSUME NEW x \in Exchanges, NEW y \in Exchanges, Open(x)', Open(y)',
               tunnel'[x] = tunnel'[y]
        PROVE  x = y
    BY <2>1, <2>3, <2>7 DEF TunnelFits, OneAtATime
  <2>8. ASSUME NEW x \in Exchanges, kind'[x] = "inner", Refused(x)', pc'[x] = "done"
        PROVE  pc'[tunnel'[x]] = "done"
    <3>1. x # tunnel[e] \/ x = e
      BY <2>1, <2>8, <1>11 DEF After, KindFits
    <3>2. CASE x = e
      BY <2>1, <2>2, <3>2
    <3>3. CASE x # e
      <4>1. pc[x] = "done" /\ Refused(x) /\ kind[x] = "inner"
        BY <2>1, <2>2, <2>8, <3>1, <3>3 DEF Refused
      <4> QED BY <2>1, <2>2, <4>1 DEF TunnelFits
    <3> QED BY <3>2, <3>3
  <2> QED BY <2>6, <2>7, <2>8 DEF TunnelFits, OneAtATime
<1>12. ASSUME NEW e \in Exchanges, Serve(e) PROVE TunnelFits'
  BY <1>12
  DEF KindFits, Fits, TunnelFits, OneAtATime, Open, Refused, RefusalFits, Serve,
     origin, trail
<1>13. ASSUME NEW e \in Exchanges, TunnelEnds(e) PROVE TunnelFits'
  BY <1>13
  DEF KindFits, Fits, TunnelFits, OneAtATime, Open, Refused, RefusalFits,
     TunnelEnds, origin, trail
<1>14. ASSUME NEW e \in Exchanges, NEW c \in Exchanges, AcceptInner(c, e)
      PROVE  TunnelFits'
  <2>1. c # e /\ kind[c] = "mitm"
    BY <1>14 DEF AcceptInner, KindFits, Fits
  <2>2. /\ \A x \in Exchanges : kind'[x] = IF x = e THEN "inner" ELSE kind[x]
        /\ \A x \in Exchanges : tunnel'[x] = IF x = e THEN c ELSE tunnel[x]
        /\ \A x \in Exchanges :
             pc'[x] = IF x = e THEN "replay" ELSE IF x = c THEN "busy" ELSE pc[x]
        /\ \A x \in Exchanges : client'[x] = client[x]
    BY <1>14, <2>1 DEF AcceptInner
  <2>3. \A x \in Exchanges : (Open(x) /\ x # e) => tunnel[x] # c
    BY <1>14 DEF AcceptInner, TunnelFits, OneAtATime
  <2>4. \A x \in Exchanges : Open(x)' <=> (Open(x) \/ x = e)
    BY <1>14, <2>1, <2>2 DEF AcceptInner, Open, KindFits, Fits
  <2>5. ASSUME NEW x \in Exchanges, Open(x)' PROVE pc'[tunnel'[x]] = "busy"
    BY <1>14, <2>1, <2>2, <2>4, <2>5 DEF AcceptInner, TunnelFits, OneAtATime
  <2>6. ASSUME NEW x \in Exchanges, NEW y \in Exchanges, Open(x)', Open(y)',
               tunnel'[x] = tunnel'[y]
        PROVE  x = y
    BY <2>2, <2>3, <2>4, <2>6 DEF TunnelFits, OneAtATime
  <2>7. ASSUME NEW x \in Exchanges, kind'[x] = "inner", Refused(x)', pc'[x] = "done"
        PROVE  pc'[tunnel'[x]] = "done"
    BY <1>14, <2>2, <2>7 DEF AcceptInner, TunnelFits, Refused
  <2> QED BY <2>5, <2>6, <2>7 DEF TunnelFits, OneAtATime
<1>15. ASSUME NEW e \in Exchanges, NEW c \in Exchanges, RejectInner(c, e)
      PROVE  TunnelFits'
  <2>1. c # e /\ kind[c] = "mitm"
    BY <1>15 DEF RejectInner, KindFits, Fits
  <2>2. /\ \A x \in Exchanges : kind'[x] = IF x = e THEN "inner" ELSE kind[x]
        /\ \A x \in Exchanges : tunnel'[x] = IF x = e THEN c ELSE tunnel[x]
        /\ \A x \in Exchanges :
             pc'[x] = IF x = e THEN "after" ELSE IF x = c THEN "busy" ELSE pc[x]
        /\ \A x \in Exchanges : client'[x] = IF x = e THEN "403" ELSE client[x]
    BY <1>15, <2>1 DEF RejectInner
  <2>3. \A x \in Exchanges : (Open(x) /\ x # e) => tunnel[x] # c
    BY <1>15 DEF RejectInner, TunnelFits, OneAtATime
  <2>4. \A x \in Exchanges : Open(x)' <=> (Open(x) \/ x = e)
    BY <1>15, <2>1, <2>2 DEF RejectInner, Open, KindFits, Fits
  <2>5. ASSUME NEW x \in Exchanges, Open(x)' PROVE pc'[tunnel'[x]] = "busy"
    BY <1>15, <2>1, <2>2, <2>4, <2>5 DEF RejectInner, TunnelFits, OneAtATime
  <2>6. ASSUME NEW x \in Exchanges, NEW y \in Exchanges, Open(x)', Open(y)',
               tunnel'[x] = tunnel'[y]
        PROVE  x = y
    BY <2>2, <2>3, <2>4, <2>6 DEF TunnelFits, OneAtATime
  <2>7. ASSUME NEW x \in Exchanges, kind'[x] = "inner", Refused(x)', pc'[x] = "done"
        PROVE  pc'[tunnel'[x]] = "done"
    BY <1>15, <2>2, <2>7 DEF RejectInner, TunnelFits, Refused
  <2> QED BY <2>5, <2>6, <2>7 DEF TunnelFits, OneAtATime
<1>16. ASSUME NEW e \in Exchanges, NEW c \in Exchanges, BodyFails(c, e)
      PROVE  TunnelFits'
  BY <1>16
  DEF KindFits, Fits, TunnelFits, OneAtATime, Open, Refused, RefusalFits,
     BodyFails, origin, trail
<1>17. ASSUME NEW e \in Exchanges, ReplayFails(e) PROVE TunnelFits'
  BY <1>17
  DEF KindFits, Fits, TunnelFits, OneAtATime, Open, Refused, RefusalFits,
     ReplayFails, origin, trail
<1>18. ASSUME NEW e \in Exchanges, Replay(e) PROVE TunnelFits'
  BY <1>18
  DEF KindFits, Fits, TunnelFits, OneAtATime, Open, Refused, RefusalFits,
     Replay, origin, trail
<1>19. ASSUME NEW e \in Exchanges, LogInner(e) PROVE TunnelFits'
  BY <1>19
  DEF KindFits, Fits, TunnelFits, OneAtATime, Open, Refused, RefusalFits,
     LogInner, origin, trail
<1>20. ASSUME NEW e \in Exchanges, Answer(e) PROVE TunnelFits'
  BY <1>20
  DEF KindFits, Fits, TunnelFits, OneAtATime, Open, Refused, RefusalFits,
     Answer, origin, trail
<1>21. ASSUME NEW e \in Exchanges, AnswerFails(e) PROVE TunnelFits'
  BY <1>21
  DEF KindFits, Fits, TunnelFits, OneAtATime, Open, Refused, RefusalFits,
     AnswerFails, origin, trail
<1>22. ASSUME NEW c \in Chains, Reload(c) PROVE TunnelFits'
  BY <1>22
  DEF KindFits, Fits, TunnelFits, OneAtATime, Open, Refused, RefusalFits,
     Reload, origin, trail
<1>23. CASE UNCHANGED vars
  BY <1>23
  DEF KindFits, Fits, TunnelFits, OneAtATime, Open, Refused, RefusalFits, vars,
     origin, trail
<1>24. ASSUME NEW e \in Exchanges, BadRequest(e) PROVE TunnelFits'
  <2>1. kind[e] = "none" /\ pc[e] = "idle"
    BY <1>24 DEF BadRequest, KindFits, Fits
  <2>2. /\ \A x \in Exchanges : kind'[x] = IF x = e THEN "http" ELSE kind[x]
        /\ tunnel' = tunnel
        /\ \A x \in Exchanges : pc'[x] = IF x = e THEN "done" ELSE pc[x]
        /\ \A x \in Exchanges : client'[x] = IF x = e THEN "400" ELSE client[x]
    BY <1>24 DEF BadRequest
  <2>3. \A x \in Exchanges : Open(x)' <=> Open(x)
    BY <2>1, <2>2 DEF Open
  <2>4. \A x \in Exchanges : Open(x) => tunnel[x] # e
    BY <2>1 DEF TunnelFits, OneAtATime
  <2>5. OneAtATime'
    BY <2>2, <2>3, <2>4 DEF TunnelFits, OneAtATime
  <2>6. ASSUME NEW x \in Exchanges, kind'[x] = "inner", Refused(x)', pc'[x] = "done"
        PROVE  pc'[tunnel'[x]] = "done"
    <3>1. x # e /\ kind[x] = "inner" /\ Refused(x) /\ pc[x] = "done"
      BY <2>2, <2>6 DEF Refused
    <3> QED BY <2>1, <2>2, <3>1 DEF TunnelFits
  <2> QED BY <2>5, <2>6 DEF TunnelFits
<1> QED
  BY <1>1, <1>2, <1>3, <1>4, <1>5, <1>6, <1>7, <1>8, <1>9, <1>10, <1>11, <1>12,
     <1>13, <1>14, <1>15, <1>16, <1>17, <1>18, <1>19, <1>20, <1>21, <1>22,
     <1>23, <1>24
  DEF Next, Outer, Inner, Terminated

\* Every step writes rows at the end only.
LEMMA RowsStep ==
  ASSUME Types, rows \in [Exchanges -> Seq(Acts)], lost \subseteq Exchanges, off \subseteq Exchanges,
         KindFits, TunnelFits, RowsFit, [Next]_vars
  PROVE  RowsFit'
<1> USE DEF Types
<1>1. ASSUME NEW e \in Exchanges, NEW k \in {"http", "connect"}, NEW h \in Hosts, Accept(e, k, h)
      PROVE  RowsFit'
  <2>2. rows' = rows /\ lost' = lost /\ off' = off
    BY <1>1 DEF Accept, trail
  <2>3. \A x \in Exchanges :
          pc'[x] \notin {"answer", "done"} => pc[x] \notin {"answer", "done"}
    BY <1>1 DEF Accept
  <2> QED BY <2>2, <2>3 DEF RowsFit
<1>2. ASSUME NEW e \in Exchanges, NEW k \in {"http", "connect"}, NEW h \in Hosts, Reject(e, k, h)
      PROVE  RowsFit'
  <2>2. rows' = rows /\ lost' = lost /\ off' = off
    BY <1>2 DEF Reject, trail
  <2>3. \A x \in Exchanges :
          pc'[x] \notin {"answer", "done"} => pc[x] \notin {"answer", "done"}
    BY <1>2 DEF Reject
  <2> QED BY <2>2, <2>3 DEF RowsFit
<1>3. ASSUME NEW e \in Exchanges, HijackFails(e) PROVE RowsFit'
  <2>2. rows' = rows /\ lost' = lost /\ off' = off
    BY <1>3 DEF HijackFails, trail
  <2>3. \A x \in Exchanges :
          pc'[x] \notin {"answer", "done"} => pc[x] \notin {"answer", "done"}
    BY <1>3 DEF HijackFails
  <2> QED BY <2>2, <2>3 DEF RowsFit
<1>4. ASSUME NEW e \in Exchanges, Establish(e) PROVE RowsFit'
  <2>2. rows' = rows /\ lost' = lost /\ off' = off
    BY <1>4 DEF Establish, trail
  <2>3. \A x \in Exchanges :
          pc'[x] \notin {"answer", "done"} => pc[x] \notin {"answer", "done"}
    BY <1>4 DEF Establish
  <2> QED BY <2>2, <2>3 DEF RowsFit
<1>5. ASSUME NEW e \in Exchanges, ClientFails(e) PROVE RowsFit'
  <2>2. rows' = rows /\ lost' = lost /\ off' = off
    BY <1>5 DEF ClientFails, trail
  <2>3. \A x \in Exchanges :
          pc'[x] \notin {"answer", "done"} => pc[x] \notin {"answer", "done"}
    BY <1>5 DEF ClientFails
  <2> QED BY <2>2, <2>3 DEF RowsFit
<1>6. ASSUME NEW e \in Exchanges, DialFails(e) PROVE RowsFit'
  <2>2. rows' = rows /\ lost' = lost /\ off' = off
    BY <1>6 DEF DialFails, trail
  <2>3. \A x \in Exchanges :
          pc'[x] \notin {"answer", "done"} => pc[x] \notin {"answer", "done"}
    BY <1>6 DEF DialFails
  <2> QED BY <2>2, <2>3 DEF RowsFit
<1>7. ASSUME NEW e \in Exchanges, Pipe(e) PROVE RowsFit'
  <2>2. rows' = rows /\ lost' = lost /\ off' = off
    BY <1>7 DEF Pipe, trail
  <2>3. \A x \in Exchanges :
          pc'[x] \notin {"answer", "done"} => pc[x] \notin {"answer", "done"}
    BY <1>7 DEF Pipe
  <2> QED BY <2>2, <2>3 DEF RowsFit
<1>8. ASSUME NEW e \in Exchanges, PipeEnds(e) PROVE RowsFit'
  <2>2. rows' = rows /\ lost' = lost /\ off' = off
    BY <1>8 DEF PipeEnds, trail
  <2>3. \A x \in Exchanges :
          pc'[x] \notin {"answer", "done"} => pc[x] \notin {"answer", "done"}
    BY <1>8 DEF PipeEnds
  <2> QED BY <2>2, <2>3 DEF RowsFit
<1>9. ASSUME NEW e \in Exchanges, RoundTripFails(e) PROVE RowsFit'
  <2>2. rows' = rows /\ lost' = lost /\ off' = off
    BY <1>9 DEF RoundTripFails, trail
  <2>3. \A x \in Exchanges :
          pc'[x] \notin {"answer", "done"} => pc[x] \notin {"answer", "done"}
    BY <1>9 DEF RoundTripFails
  <2> QED BY <2>2, <2>3 DEF RowsFit
<1>10. ASSUME NEW e \in Exchanges, RoundTrip(e) PROVE RowsFit'
  <2>2. rows' = rows /\ lost' = lost /\ off' = off
    BY <1>10 DEF RoundTrip, trail
  <2>3. \A x \in Exchanges :
          pc'[x] \notin {"answer", "done"} => pc[x] \notin {"answer", "done"}
    BY <1>10 DEF RoundTrip
  <2> QED BY <2>2, <2>3 DEF RowsFit
<1>11. ASSUME NEW e \in Exchanges, After(e) PROVE RowsFit'
  <2>1. rows[e] = <<>> /\ pc'[e] \in {"answer", "done"}
    BY <1>11 DEF After, RowsFit
  <2>2. \A x \in Exchanges \ {e} : rows'[x] = rows[x] /\ (x \in lost' <=> x \in lost)
            /\ (x \in off' <=> x \in off)
    BY <1>11, ResponseChanges DEF After
  <2>3. \A x \in Exchanges : pc'[x] \notin {"answer", "done"} => x # e /\ pc'[x] = pc[x]
    BY <1>11 DEF After
  <2> QED BY <2>2, <2>3 DEF RowsFit
<1>12. ASSUME NEW e \in Exchanges, Serve(e) PROVE RowsFit'
  <2>2. rows' = rows /\ lost' = lost /\ off' = off
    BY <1>12 DEF Serve, trail
  <2>3. \A x \in Exchanges :
          pc'[x] \notin {"answer", "done"} => pc[x] \notin {"answer", "done"}
    BY <1>12 DEF Serve
  <2> QED BY <2>2, <2>3 DEF RowsFit
<1>13. ASSUME NEW e \in Exchanges, TunnelEnds(e) PROVE RowsFit'
  <2>2. rows' = rows /\ lost' = lost /\ off' = off
    BY <1>13 DEF TunnelEnds, trail
  <2>3. \A x \in Exchanges :
          pc'[x] \notin {"answer", "done"} => pc[x] \notin {"answer", "done"}
    BY <1>13 DEF TunnelEnds
  <2> QED BY <2>2, <2>3 DEF RowsFit
<1>14. ASSUME NEW e \in Exchanges, NEW c \in Exchanges, AcceptInner(c, e)
      PROVE  RowsFit'
  <2>2. rows' = rows /\ lost' = lost /\ off' = off
    BY <1>14 DEF AcceptInner, trail
  <2>3. \A x \in Exchanges :
          pc'[x] \notin {"answer", "done"} => pc[x] \notin {"answer", "done"}
    BY <1>14 DEF AcceptInner
  <2> QED BY <2>2, <2>3 DEF RowsFit
<1>15. ASSUME NEW e \in Exchanges, NEW c \in Exchanges, RejectInner(c, e)
      PROVE  RowsFit'
  <2>2. rows' = rows /\ lost' = lost /\ off' = off
    BY <1>15 DEF RejectInner, trail
  <2>3. \A x \in Exchanges :
          pc'[x] \notin {"answer", "done"} => pc[x] \notin {"answer", "done"}
    BY <1>15 DEF RejectInner
  <2> QED BY <2>2, <2>3 DEF RowsFit
<1>16. ASSUME NEW e \in Exchanges, NEW c \in Exchanges, BodyFails(c, e)
      PROVE  RowsFit'
  <2>2. rows' = rows /\ lost' = lost /\ off' = off
    BY <1>16 DEF BodyFails, trail
  <2>3. \A x \in Exchanges :
          pc'[x] \notin {"answer", "done"} => pc[x] \notin {"answer", "done"}
    BY <1>16 DEF BodyFails
  <2> QED BY <2>2, <2>3 DEF RowsFit
<1>17. ASSUME NEW e \in Exchanges, ReplayFails(e) PROVE RowsFit'
  <2>2. rows' = rows /\ lost' = lost /\ off' = off
    BY <1>17 DEF ReplayFails, trail
  <2>3. \A x \in Exchanges :
          pc'[x] \notin {"answer", "done"} => pc[x] \notin {"answer", "done"}
    BY <1>17 DEF ReplayFails
  <2> QED BY <2>2, <2>3 DEF RowsFit
<1>18. ASSUME NEW e \in Exchanges, Replay(e) PROVE RowsFit'
  <2>2. rows' = rows /\ lost' = lost /\ off' = off
    BY <1>18 DEF Replay, trail
  <2>3. \A x \in Exchanges :
          pc'[x] \notin {"answer", "done"} => pc[x] \notin {"answer", "done"}
    BY <1>18 DEF Replay
  <2> QED BY <2>2, <2>3 DEF RowsFit
<1>19. ASSUME NEW e \in Exchanges, LogInner(e) PROVE RowsFit'
  <2>1. rows[e] = <<>> /\ pc'[e] \in {"answer", "done"}
    BY <1>19 DEF LogInner, RowsFit
  <2>2. \A x \in Exchanges \ {e} : rows'[x] = rows[x] /\ (x \in lost' <=> x \in lost)
            /\ (x \in off' <=> x \in off)
    BY <1>19, ResponseChanges DEF LogInner
  <2>3. \A x \in Exchanges : pc'[x] \notin {"answer", "done"} => x # e /\ pc'[x] = pc[x]
    BY <1>19 DEF LogInner
  <2> QED BY <2>2, <2>3 DEF RowsFit
<1>20. ASSUME NEW e \in Exchanges, Answer(e) PROVE RowsFit'
  <2>1. pc[tunnel[e]] = "busy"
    BY <1>20 DEF Answer, KindFits, Fits, TunnelFits, OneAtATime, Open
  <2>2. rows' = rows /\ lost' = lost /\ off' = off
    BY <1>20 DEF Answer, trail
  <2>3. \A x \in Exchanges :
          pc'[x] \notin {"answer", "done"} => pc[x] \notin {"answer", "done"}
    BY <1>20, <2>1 DEF Answer
  <2> QED BY <2>2, <2>3 DEF RowsFit
<1>21. ASSUME NEW e \in Exchanges, AnswerFails(e) PROVE RowsFit'
  <2>2. rows' = rows /\ lost' = lost /\ off' = off
    BY <1>21 DEF AnswerFails, trail
  <2>3. \A x \in Exchanges :
          pc'[x] \notin {"answer", "done"} => pc[x] \notin {"answer", "done"}
    BY <1>21 DEF AnswerFails
  <2> QED BY <2>2, <2>3 DEF RowsFit
<1>22. ASSUME NEW c \in Chains, Reload(c) PROVE RowsFit'
  BY <1>22
  DEF RowsFit, Reload, origin, trail
<1>23. CASE UNCHANGED vars
  BY <1>23
  DEF RowsFit, vars, origin, trail
<1>24. ASSUME NEW e \in Exchanges, BadRequest(e) PROVE RowsFit'
  <2>2. rows' = rows /\ lost' = lost /\ off' = off
    BY <1>24 DEF BadRequest, trail
  <2>3. \A x \in Exchanges :
          pc'[x] \notin {"answer", "done"} => pc[x] \notin {"answer", "done"}
    BY <1>24 DEF BadRequest
  <2> QED BY <2>2, <2>3 DEF RowsFit
<1> QED
  BY <1>1, <1>2, <1>3, <1>4, <1>5, <1>6, <1>7, <1>8, <1>9, <1>10, <1>11, <1>12,
     <1>13, <1>14, <1>15, <1>16, <1>17, <1>18, <1>19, <1>20, <1>21, <1>22,
     <1>23, <1>24
  DEF Next, Outer, Inner, Terminated

\* Every step keeps "block" on refused exchanges only.
LEMMA RefusalStep ==
  ASSUME Types, action \in [Exchanges -> {"", "allow", "warn", "block"}],
         forwarded \in [Exchanges -> BOOLEAN],
         chain \in Chain, KindFits, TunnelFits, RefusalFits, [Next]_vars
  PROVE  RefusalFits'
<1> USE DEF Types
<1>1. ASSUME NEW e \in Exchanges, NEW k \in {"http", "connect"}, NEW h \in Hosts, Accept(e, k, h)
      PROVE  RefusalFits'
  <2>1. pc[e] = "idle" /\ ~Refused(e)
    BY <1>1 DEF Accept, RefusalFits
  <2>2. /\ action' = [action EXCEPT ![e] = Judged(chain, h, "")]
        /\ client' = client /\ forwarded' = forwarded
    BY <1>1 DEF Accept, ProcessRequest
  <2>3. \A x \in Exchanges :
          pc'[x] = IF x = e THEN IF k = "http" THEN "roundtrip" ELSE "accepted" ELSE pc[x]
    BY <1>1, <2>1 DEF Accept
  <2>4. /\ Judged(chain, h, "") \in {"", "allow", "warn", "block"}
        /\ Judged(chain, h, "") # "block"
    BY <1>1, <2>1, JudgedAction DEF Accept
  <2>5. \A x \in Exchanges :
          action'[x] = IF x = e THEN Judged(chain, h, "") ELSE action[x]
    BY <2>2
  <2>6. \A x \in Exchanges : Refused(x)' <=> (Refused(x))
    BY <2>1, <2>2 DEF Refused
  <2>7. \A x \in Exchanges : Refused(x)' <=> action'[x] = "block"
    BY <2>1, <2>4, <2>5, <2>6 DEF RefusalFits
  <2>8. \A x \in Exchanges : Refused(x)' => pc'[x] \in {"after", "done"}
    BY <1>1, <2>1, <2>3, <2>6 DEF RefusalFits, Accept
  <2>9. \A x \in Exchanges : pc'[x] = "idle" => ~forwarded'[x]
    BY <2>2, <2>3 DEF RefusalFits
  <2> QED BY <2>7, <2>8, <2>9 DEF RefusalFits
<1>2. ASSUME NEW e \in Exchanges, NEW k \in {"http", "connect"}, NEW h \in Hosts, Reject(e, k, h)
      PROVE  RefusalFits'
  <2>1. pc[e] = "idle" /\ ~Refused(e)
    BY <1>2 DEF Reject, RefusalFits
  <2>2. /\ action' = [action EXCEPT ![e] = Judged(chain, h, "")]
        /\ client' = [client EXCEPT ![e] = "403"] /\ forwarded' = forwarded
    BY <1>2 DEF Reject, ProcessRequest
  <2>3. \A x \in Exchanges :
          pc'[x] = IF x = e THEN "after" ELSE pc[x]
    BY <1>2, <2>1 DEF Reject
  <2>4. /\ Judged(chain, h, "") \in {"", "allow", "warn", "block"}
        /\ Judged(chain, h, "") = "block"
    BY <1>2, <2>1, JudgedAction DEF Reject
  <2>5. \A x \in Exchanges :
          action'[x] = IF x = e THEN Judged(chain, h, "") ELSE action[x]
    BY <2>2
  <2>6. \A x \in Exchanges : Refused(x)' <=> (x = e \/ Refused(x))
    BY <2>1, <2>2 DEF Refused
  <2>7. \A x \in Exchanges : Refused(x)' <=> action'[x] = "block"
    BY <2>1, <2>4, <2>5, <2>6 DEF RefusalFits
  <2>8. \A x \in Exchanges : Refused(x)' => pc'[x] \in {"after", "done"}
    BY <1>2, <2>1, <2>3, <2>6 DEF RefusalFits, Reject
  <2>9. \A x \in Exchanges : pc'[x] = "idle" => ~forwarded'[x]
    BY <2>2, <2>3 DEF RefusalFits
  <2> QED BY <2>7, <2>8, <2>9 DEF RefusalFits
<1>3. ASSUME NEW e \in Exchanges, HijackFails(e) PROVE RefusalFits'
  <2>2. action' = action
    BY <1>3 DEF HijackFails
  <2>3. \A x \in Exchanges : Refused(x)' <=> Refused(x)
    BY <1>3 DEF HijackFails, RefusalFits, Refused
  <2>4. \A x \in Exchanges : Refused(x) => pc'[x] \in {"after", "done"}
    BY <1>3 DEF HijackFails, RefusalFits
  <2>5. \A x \in Exchanges : pc'[x] = "idle" => ~forwarded'[x]
    BY <1>3 DEF HijackFails, RefusalFits
  <2> QED BY <2>2, <2>3, <2>4, <2>5 DEF RefusalFits
<1>4. ASSUME NEW e \in Exchanges, Establish(e) PROVE RefusalFits'
  <2>2. action' = action
    BY <1>4 DEF Establish
  <2>3. \A x \in Exchanges : Refused(x)' <=> Refused(x)
    BY <1>4 DEF Establish, RefusalFits, Refused
  <2>4. \A x \in Exchanges : Refused(x) => pc'[x] \in {"after", "done"}
    BY <1>4 DEF Establish, RefusalFits
  <2>5. \A x \in Exchanges : pc'[x] = "idle" => ~forwarded'[x]
    BY <1>4 DEF Establish, RefusalFits
  <2> QED BY <2>2, <2>3, <2>4, <2>5 DEF RefusalFits
<1>5. ASSUME NEW e \in Exchanges, ClientFails(e) PROVE RefusalFits'
  <2>2. action' = action
    BY <1>5 DEF ClientFails
  <2>3. \A x \in Exchanges : Refused(x)' <=> Refused(x)
    BY <1>5 DEF ClientFails, RefusalFits, Refused
  <2>4. \A x \in Exchanges : Refused(x) => pc'[x] \in {"after", "done"}
    BY <1>5 DEF ClientFails, RefusalFits
  <2>5. \A x \in Exchanges : pc'[x] = "idle" => ~forwarded'[x]
    BY <1>5 DEF ClientFails, RefusalFits
  <2> QED BY <2>2, <2>3, <2>4, <2>5 DEF RefusalFits
<1>6. ASSUME NEW e \in Exchanges, DialFails(e) PROVE RefusalFits'
  <2>2. action' = action
    BY <1>6 DEF DialFails
  <2>3. \A x \in Exchanges : Refused(x)' <=> Refused(x)
    BY <1>6 DEF DialFails, RefusalFits, Refused
  <2>4. \A x \in Exchanges : Refused(x) => pc'[x] \in {"after", "done"}
    BY <1>6 DEF DialFails, RefusalFits
  <2>5. \A x \in Exchanges : pc'[x] = "idle" => ~forwarded'[x]
    BY <1>6 DEF DialFails, RefusalFits
  <2> QED BY <2>2, <2>3, <2>4, <2>5 DEF RefusalFits
<1>7. ASSUME NEW e \in Exchanges, Pipe(e) PROVE RefusalFits'
  <2>2. action' = action
    BY <1>7 DEF Pipe
  <2>3. \A x \in Exchanges : Refused(x)' <=> Refused(x)
    BY <1>7 DEF Pipe, RefusalFits, Refused
  <2>4. \A x \in Exchanges : Refused(x) => pc'[x] \in {"after", "done"}
    BY <1>7 DEF Pipe, RefusalFits
  <2>5. \A x \in Exchanges : pc'[x] = "idle" => ~forwarded'[x]
    BY <1>7 DEF Pipe, RefusalFits
  <2> QED BY <2>2, <2>3, <2>4, <2>5 DEF RefusalFits
<1>8. ASSUME NEW e \in Exchanges, PipeEnds(e) PROVE RefusalFits'
  <2>2. action' = action
    BY <1>8 DEF PipeEnds
  <2>3. \A x \in Exchanges : Refused(x)' <=> Refused(x)
    BY <1>8 DEF PipeEnds, RefusalFits, Refused
  <2>4. \A x \in Exchanges : Refused(x) => pc'[x] \in {"after", "done"}
    BY <1>8 DEF PipeEnds, RefusalFits
  <2>5. \A x \in Exchanges : pc'[x] = "idle" => ~forwarded'[x]
    BY <1>8 DEF PipeEnds, RefusalFits
  <2> QED BY <2>2, <2>3, <2>4, <2>5 DEF RefusalFits
<1>9. ASSUME NEW e \in Exchanges, RoundTripFails(e) PROVE RefusalFits'
  <2>2. action' = action
    BY <1>9 DEF RoundTripFails
  <2>3. \A x \in Exchanges : Refused(x)' <=> Refused(x)
    BY <1>9 DEF RoundTripFails, RefusalFits, Refused
  <2>4. \A x \in Exchanges : Refused(x) => pc'[x] \in {"after", "done"}
    BY <1>9 DEF RoundTripFails, RefusalFits
  <2>5. \A x \in Exchanges : pc'[x] = "idle" => ~forwarded'[x]
    BY <1>9 DEF RoundTripFails, RefusalFits
  <2> QED BY <2>2, <2>3, <2>4, <2>5 DEF RefusalFits
<1>10. ASSUME NEW e \in Exchanges, RoundTrip(e) PROVE RefusalFits'
  <2>2. action' = action
    BY <1>10 DEF RoundTrip
  <2>3. \A x \in Exchanges : Refused(x)' <=> Refused(x)
    BY <1>10 DEF RoundTrip, RefusalFits, Refused
  <2>4. \A x \in Exchanges : Refused(x) => pc'[x] \in {"after", "done"}
    BY <1>10 DEF RoundTrip, RefusalFits
  <2>5. \A x \in Exchanges : pc'[x] = "idle" => ~forwarded'[x]
    BY <1>10 DEF RoundTrip, RefusalFits
  <2> QED BY <2>2, <2>3, <2>4, <2>5 DEF RefusalFits
<1>11. ASSUME NEW e \in Exchanges, After(e) PROVE RefusalFits'
  <2>2. action' = action
    BY <1>11 DEF After
  <2>3. \A x \in Exchanges : Refused(x)' <=> Refused(x)
    BY <1>11 DEF After, RefusalFits, Refused
  <2>4. \A x \in Exchanges : Refused(x) => pc'[x] \in {"after", "done"}
    BY <1>11 DEF After, RefusalFits
  <2>5. \A x \in Exchanges : pc'[x] = "idle" => ~forwarded'[x]
    BY <1>11 DEF After, RefusalFits
  <2> QED BY <2>2, <2>3, <2>4, <2>5 DEF RefusalFits
<1>12. ASSUME NEW e \in Exchanges, Serve(e) PROVE RefusalFits'
  <2>2. action' = action
    BY <1>12 DEF Serve
  <2>3. \A x \in Exchanges : Refused(x)' <=> Refused(x)
    BY <1>12 DEF Serve, RefusalFits, Refused
  <2>4. \A x \in Exchanges : Refused(x) => pc'[x] \in {"after", "done"}
    BY <1>12 DEF Serve, RefusalFits
  <2>5. \A x \in Exchanges : pc'[x] = "idle" => ~forwarded'[x]
    BY <1>12 DEF Serve, RefusalFits
  <2> QED BY <2>2, <2>3, <2>4, <2>5 DEF RefusalFits
<1>13. ASSUME NEW e \in Exchanges, TunnelEnds(e) PROVE RefusalFits'
  <2>2. action' = action
    BY <1>13 DEF TunnelEnds
  <2>3. \A x \in Exchanges : Refused(x)' <=> Refused(x)
    BY <1>13 DEF TunnelEnds, RefusalFits, Refused
  <2>4. \A x \in Exchanges : Refused(x) => pc'[x] \in {"after", "done"}
    BY <1>13 DEF TunnelEnds, RefusalFits
  <2>5. \A x \in Exchanges : pc'[x] = "idle" => ~forwarded'[x]
    BY <1>13 DEF TunnelEnds, RefusalFits
  <2> QED BY <2>2, <2>3, <2>4, <2>5 DEF RefusalFits
<1>14. ASSUME NEW e \in Exchanges, NEW c \in Exchanges, AcceptInner(c, e)
      PROVE  RefusalFits'
  <2>1. pc[e] = "idle" /\ ~Refused(e) /\ c # e /\ action[c] # "block"
    BY <1>14 DEF AcceptInner, RefusalFits
  <2>2. /\ action' = [action EXCEPT ![e] = Judged(chain, host[c], action[c])]
        /\ client' = client /\ forwarded' = forwarded
    BY <1>14 DEF AcceptInner, ProcessRequest
  <2>3. \A x \in Exchanges :
          pc'[x] = IF x = e THEN "replay" ELSE IF x = c THEN "busy" ELSE pc[x]
    BY <1>14, <2>1 DEF AcceptInner
  <2>4. /\ Judged(chain, host[c], action[c]) \in {"", "allow", "warn", "block"}
        /\ Judged(chain, host[c], action[c]) # "block"
    BY <1>14, <2>1, JudgedAction DEF AcceptInner
  <2>5. \A x \in Exchanges :
          action'[x] = IF x = e THEN Judged(chain, host[c], action[c]) ELSE action[x]
    BY <2>2
  <2>6. \A x \in Exchanges : Refused(x)' <=> (Refused(x))
    BY <2>1, <2>2 DEF Refused
  <2>7. \A x \in Exchanges : Refused(x)' <=> action'[x] = "block"
    BY <2>1, <2>4, <2>5, <2>6 DEF RefusalFits
  <2>8. \A x \in Exchanges : Refused(x)' => pc'[x] \in {"after", "done"}
    BY <1>14, <2>1, <2>3, <2>6 DEF RefusalFits, AcceptInner
  <2>9. \A x \in Exchanges : pc'[x] = "idle" => ~forwarded'[x]
    BY <2>2, <2>3 DEF RefusalFits
  <2> QED BY <2>7, <2>8, <2>9 DEF RefusalFits
<1>15. ASSUME NEW e \in Exchanges, NEW c \in Exchanges, RejectInner(c, e)
      PROVE  RefusalFits'
  <2>1. pc[e] = "idle" /\ ~Refused(e) /\ c # e /\ action[c] # "block"
    BY <1>15 DEF RejectInner, RefusalFits
  <2>2. /\ action' = [action EXCEPT ![e] = Judged(chain, host[c], action[c])]
        /\ client' = [client EXCEPT ![e] = "403"] /\ forwarded' = forwarded
    BY <1>15 DEF RejectInner, ProcessRequest
  <2>3. \A x \in Exchanges :
          pc'[x] = IF x = e THEN "after" ELSE IF x = c THEN "busy" ELSE pc[x]
    BY <1>15, <2>1 DEF RejectInner
  <2>4. /\ Judged(chain, host[c], action[c]) \in {"", "allow", "warn", "block"}
        /\ Judged(chain, host[c], action[c]) = "block"
    BY <1>15, <2>1, JudgedAction DEF RejectInner
  <2>5. \A x \in Exchanges :
          action'[x] = IF x = e THEN Judged(chain, host[c], action[c]) ELSE action[x]
    BY <2>2
  <2>6. \A x \in Exchanges : Refused(x)' <=> (x = e \/ Refused(x))
    BY <2>1, <2>2 DEF Refused
  <2>7. \A x \in Exchanges : Refused(x)' <=> action'[x] = "block"
    BY <2>1, <2>4, <2>5, <2>6 DEF RefusalFits
  <2>8. \A x \in Exchanges : Refused(x)' => pc'[x] \in {"after", "done"}
    BY <1>15, <2>1, <2>3, <2>6 DEF RefusalFits, RejectInner
  <2>9. \A x \in Exchanges : pc'[x] = "idle" => ~forwarded'[x]
    BY <2>2, <2>3 DEF RefusalFits
  <2> QED BY <2>7, <2>8, <2>9 DEF RefusalFits
<1>16. ASSUME NEW e \in Exchanges, NEW c \in Exchanges, BodyFails(c, e)
      PROVE  RefusalFits'
  <2>1. pc[e] = "idle" /\ ~Refused(e) /\ c # e /\ ~Refused(c) /\ action[c] # "block"
    BY <1>16 DEF BodyFails, RefusalFits
  <2>2. action' = [action EXCEPT ![e] = action[c]] /\ client' = client /\ forwarded' = forwarded
    BY <1>16 DEF BodyFails
  <2>3. \A x \in Exchanges : pc'[x] = IF x \in {e, c} THEN "done" ELSE pc[x]
    BY <1>16, <2>1 DEF BodyFails
  <2>4. \A x \in Exchanges : action'[x] = IF x = e THEN action[c] ELSE action[x]
    BY <2>2
  <2>5. \A x \in Exchanges : Refused(x)' <=> Refused(x)
    BY <2>2 DEF Refused
  <2> QED BY <2>1, <2>2, <2>3, <2>4, <2>5 DEF RefusalFits
<1>17. ASSUME NEW e \in Exchanges, ReplayFails(e) PROVE RefusalFits'
  <2>2. action' = action
    BY <1>17 DEF ReplayFails
  <2>3. \A x \in Exchanges : Refused(x)' <=> Refused(x)
    BY <1>17 DEF ReplayFails, RefusalFits, Refused
  <2>4. \A x \in Exchanges : Refused(x) => pc'[x] \in {"after", "done"}
    BY <1>17 DEF ReplayFails, RefusalFits
  <2>5. \A x \in Exchanges : pc'[x] = "idle" => ~forwarded'[x]
    BY <1>17 DEF ReplayFails, RefusalFits
  <2> QED BY <2>2, <2>3, <2>4, <2>5 DEF RefusalFits
<1>18. ASSUME NEW e \in Exchanges, Replay(e) PROVE RefusalFits'
  <2>2. action' = action
    BY <1>18 DEF Replay
  <2>3. \A x \in Exchanges : Refused(x)' <=> Refused(x)
    BY <1>18 DEF Replay, RefusalFits, Refused
  <2>4. \A x \in Exchanges : Refused(x) => pc'[x] \in {"after", "done"}
    BY <1>18 DEF Replay, RefusalFits
  <2>5. \A x \in Exchanges : pc'[x] = "idle" => ~forwarded'[x]
    BY <1>18 DEF Replay, RefusalFits
  <2> QED BY <2>2, <2>3, <2>4, <2>5 DEF RefusalFits
<1>19. ASSUME NEW e \in Exchanges, LogInner(e) PROVE RefusalFits'
  <2>2. action' = action
    BY <1>19 DEF LogInner
  <2>3. \A x \in Exchanges : Refused(x)' <=> Refused(x)
    BY <1>19 DEF LogInner, RefusalFits, Refused
  <2>4. \A x \in Exchanges : Refused(x) => pc'[x] \in {"after", "done"}
    BY <1>19 DEF LogInner, RefusalFits
  <2>5. \A x \in Exchanges : pc'[x] = "idle" => ~forwarded'[x]
    BY <1>19 DEF LogInner, RefusalFits
  <2> QED BY <2>2, <2>3, <2>4, <2>5 DEF RefusalFits
<1>20. ASSUME NEW e \in Exchanges, Answer(e) PROVE RefusalFits'
  <2>1. pc[tunnel[e]] = "busy"
    BY <1>20 DEF Answer, KindFits, Fits, TunnelFits, OneAtATime, Open
  <2>2. action' = action
    BY <1>20 DEF Answer
  <2>3. \A x \in Exchanges : Refused(x)' <=> Refused(x)
    BY <1>20, <2>1 DEF Answer, RefusalFits, Refused
  <2>4. \A x \in Exchanges : Refused(x) => pc'[x] \in {"after", "done"}
    BY <1>20, <2>1 DEF Answer, RefusalFits
  <2>5. \A x \in Exchanges : pc'[x] = "idle" => ~forwarded'[x]
    BY ZenonT(40), <1>20, <2>1 DEF Answer, RefusalFits
  <2> QED BY <2>2, <2>3, <2>4, <2>5 DEF RefusalFits
<1>21. ASSUME NEW e \in Exchanges, AnswerFails(e) PROVE RefusalFits'
  <2>2. action' = action
    BY <1>21 DEF AnswerFails
  <2>3. \A x \in Exchanges : Refused(x)' <=> Refused(x)
    BY <1>21 DEF AnswerFails, RefusalFits, Refused
  <2>4. \A x \in Exchanges : Refused(x) => pc'[x] \in {"after", "done"}
    BY <1>21 DEF AnswerFails, RefusalFits
  <2>5. \A x \in Exchanges : pc'[x] = "idle" => ~forwarded'[x]
    BY <1>21 DEF AnswerFails, RefusalFits
  <2> QED BY <2>2, <2>3, <2>4, <2>5 DEF RefusalFits
<1>22. ASSUME NEW c \in Chains, Reload(c) PROVE RefusalFits'
  BY <1>22
  DEF Refused, RefusalFits, Reload, origin, trail
<1>23. CASE UNCHANGED vars
  BY <1>23
  DEF Refused, RefusalFits, vars, origin, trail
<1>24. ASSUME NEW e \in Exchanges, BadRequest(e) PROVE RefusalFits'
  <2>1. pc[e] = "idle" /\ ~Refused(e)
    BY <1>24 DEF BadRequest, RefusalFits
  <2>2. /\ action' = action /\ forwarded' = forwarded
        /\ \A x \in Exchanges : client'[x] = IF x = e THEN "400" ELSE client[x]
        /\ \A x \in Exchanges : pc'[x] = IF x = e THEN "done" ELSE pc[x]
    BY <1>24 DEF BadRequest
  <2>3. \A x \in Exchanges : Refused(x)' <=> Refused(x)
    BY <2>1, <2>2 DEF Refused
  <2> QED BY <2>1, <2>2, <2>3 DEF RefusalFits
<1> QED
  BY <1>1, <1>2, <1>3, <1>4, <1>5, <1>6, <1>7, <1>8, <1>9, <1>10, <1>11, <1>12,
     <1>13, <1>14, <1>15, <1>16, <1>17, <1>18, <1>19, <1>20, <1>21, <1>22,
     <1>23, <1>24
  DEF Next, Outer, Inner, Terminated

\* Every step keeps refusals inside.
LEMMA InsideStep ==
  ASSUME Types, rows \in [Exchanges -> Seq(Acts)], lost \subseteq Exchanges, off \subseteq Exchanges,
         forwarded \in [Exchanges -> BOOLEAN],
         KindFits, RowsFit, RefusalFits, RefusedStaysInside, [Next]_vars
  PROVE  RefusedStaysInside'
<1> USE DEF Types
<1>1. ASSUME NEW e \in Exchanges, NEW k \in {"http", "connect"}, NEW h \in Hosts, Accept(e, k, h)
      PROVE  RefusedStaysInside'
  <2>1. rows' = rows
    BY <1>1 DEF Accept, trail
  <2>2. \A x \in Exchanges : Refused(x)' <=> Refused(x)
    BY <1>1 DEF Accept, RefusalFits, Refused
  <2>3. \A x \in Exchanges : Refused(x) => ~forwarded'[x]
    BY <1>1 DEF Accept, RefusedStaysInside, RefusalFits
  <2> QED BY <2>1, <2>2, <2>3 DEF RefusedStaysInside
<1>2. ASSUME NEW e \in Exchanges, NEW k \in {"http", "connect"}, NEW h \in Hosts, Reject(e, k, h)
      PROVE  RefusedStaysInside'
  <2>1. rows[e] = <<>> /\ ~forwarded[e]
    BY <1>2 DEF Reject, RowsFit, RefusalFits
  <2>2. rows' = rows /\ forwarded' = forwarded
    BY <1>2 DEF Reject, trail
  <2>3. \A x \in Exchanges : Refused(x)' <=> (x = e \/ Refused(x))
    BY <1>2 DEF Reject, Refused
  <2>4. \A x \in Exchanges : Refused(x)' => ~forwarded'[x]
    BY <2>1, <2>2, <2>3 DEF RefusedStaysInside
  <2>5. ASSUME NEW x \in Exchanges, NEW i \in DOMAIN rows'[x]
        PROVE  (rows'[x][i] = "block") <=> Refused(x)'
    BY <2>1, <2>2, <2>3 DEF RefusedStaysInside
  <2> QED BY <2>4, <2>5 DEF RefusedStaysInside
<1>3. ASSUME NEW e \in Exchanges, HijackFails(e) PROVE RefusedStaysInside'
  <2>1. rows' = rows
    BY <1>3 DEF HijackFails, trail
  <2>2. \A x \in Exchanges : Refused(x)' <=> Refused(x)
    BY <1>3 DEF HijackFails, RefusalFits, Refused
  <2>3. \A x \in Exchanges : Refused(x) => ~forwarded'[x]
    BY <1>3 DEF HijackFails, RefusedStaysInside, RefusalFits
  <2> QED BY <2>1, <2>2, <2>3 DEF RefusedStaysInside
<1>4. ASSUME NEW e \in Exchanges, Establish(e) PROVE RefusedStaysInside'
  <2>1. rows' = rows
    BY <1>4 DEF Establish, trail
  <2>2. \A x \in Exchanges : Refused(x)' <=> Refused(x)
    BY <1>4 DEF Establish, RefusalFits, Refused
  <2>3. \A x \in Exchanges : Refused(x) => ~forwarded'[x]
    BY <1>4 DEF Establish, RefusedStaysInside, RefusalFits
  <2> QED BY <2>1, <2>2, <2>3 DEF RefusedStaysInside
<1>5. ASSUME NEW e \in Exchanges, ClientFails(e) PROVE RefusedStaysInside'
  <2>1. rows' = rows
    BY <1>5 DEF ClientFails, trail
  <2>2. \A x \in Exchanges : Refused(x)' <=> Refused(x)
    BY <1>5 DEF ClientFails, RefusalFits, Refused
  <2>3. \A x \in Exchanges : Refused(x) => ~forwarded'[x]
    BY <1>5 DEF ClientFails, RefusedStaysInside, RefusalFits
  <2> QED BY <2>1, <2>2, <2>3 DEF RefusedStaysInside
<1>6. ASSUME NEW e \in Exchanges, DialFails(e) PROVE RefusedStaysInside'
  <2>1. rows' = rows
    BY <1>6 DEF DialFails, trail
  <2>2. \A x \in Exchanges : Refused(x)' <=> Refused(x)
    BY <1>6 DEF DialFails, RefusalFits, Refused
  <2>3. \A x \in Exchanges : Refused(x) => ~forwarded'[x]
    BY <1>6 DEF DialFails, RefusedStaysInside, RefusalFits
  <2> QED BY <2>1, <2>2, <2>3 DEF RefusedStaysInside
<1>7. ASSUME NEW e \in Exchanges, Pipe(e) PROVE RefusedStaysInside'
  <2>1. rows' = rows
    BY <1>7 DEF Pipe, trail
  <2>2. \A x \in Exchanges : Refused(x)' <=> Refused(x)
    BY <1>7 DEF Pipe, RefusalFits, Refused
  <2>3. \A x \in Exchanges : Refused(x) => ~forwarded'[x]
    BY <1>7 DEF Pipe, RefusedStaysInside, RefusalFits
  <2> QED BY <2>1, <2>2, <2>3 DEF RefusedStaysInside
<1>8. ASSUME NEW e \in Exchanges, PipeEnds(e) PROVE RefusedStaysInside'
  <2>1. rows' = rows
    BY <1>8 DEF PipeEnds, trail
  <2>2. \A x \in Exchanges : Refused(x)' <=> Refused(x)
    BY <1>8 DEF PipeEnds, RefusalFits, Refused
  <2>3. \A x \in Exchanges : Refused(x) => ~forwarded'[x]
    BY <1>8 DEF PipeEnds, RefusedStaysInside, RefusalFits
  <2> QED BY <2>1, <2>2, <2>3 DEF RefusedStaysInside
<1>9. ASSUME NEW e \in Exchanges, RoundTripFails(e) PROVE RefusedStaysInside'
  <2>1. rows' = rows
    BY <1>9 DEF RoundTripFails, trail
  <2>2. \A x \in Exchanges : Refused(x)' <=> Refused(x)
    BY <1>9 DEF RoundTripFails, RefusalFits, Refused
  <2>3. \A x \in Exchanges : Refused(x) => ~forwarded'[x]
    BY <1>9 DEF RoundTripFails, RefusedStaysInside, RefusalFits
  <2> QED BY <2>1, <2>2, <2>3 DEF RefusedStaysInside
<1>10. ASSUME NEW e \in Exchanges, RoundTrip(e) PROVE RefusedStaysInside'
  <2>1. rows' = rows
    BY <1>10 DEF RoundTrip, trail
  <2>2. \A x \in Exchanges : Refused(x)' <=> Refused(x)
    BY <1>10 DEF RoundTrip, RefusalFits, Refused
  <2>3. \A x \in Exchanges : Refused(x) => ~forwarded'[x]
    BY <1>10 DEF RoundTrip, RefusedStaysInside, RefusalFits
  <2> QED BY <2>1, <2>2, <2>3 DEF RefusedStaysInside
<1>11. ASSUME NEW e \in Exchanges, After(e) PROVE RefusedStaysInside'
  <2>1. rows[e] = <<>>
    BY <1>11 DEF After, RowsFit
  <2>2. /\ \A x \in Exchanges \ {e} : rows'[x] = rows[x]
        /\ rows'[e] = Append(rows[e], RowAction(e)) \/ rows'[e] = rows[e]
    BY <1>11, ResponseChanges DEF After
  <2>3. client' = client /\ forwarded' = forwarded
    BY <1>11 DEF After
  <2>4. (RowAction(e) = "block") <=> Refused(e)
    BY DEF RowAction, RefusalFits
  <2>5. \A x \in Exchanges : Refused(x)' <=> Refused(x)
    BY <2>3 DEF Refused
  <2>6. \A x \in Exchanges : Refused(x)' => ~forwarded'[x]
    BY <2>3, <2>5 DEF RefusedStaysInside
  <2>7. ASSUME NEW x \in Exchanges, NEW i \in DOMAIN rows'[x]
        PROVE  (rows'[x][i] = "block") <=> Refused(x)
    <3>1. CASE x # e
      BY <2>2, <2>7, <3>1 DEF RefusedStaysInside
    <3>2. CASE x = e /\ rows'[e] = Append(rows[e], RowAction(e))
      <4>1. rows'[e] = <<RowAction(e)>>
        BY <2>1, <3>2
      <4>2. i = 1 /\ rows'[x][i] = RowAction(e)
        BY <4>1, <2>7, <3>2
      <4> QED BY <2>4, <3>2, <4>2
    <3>3. CASE x = e /\ rows'[e] = rows[e]
      BY <2>7, <3>3 DEF RefusedStaysInside
    <3> QED BY <2>2, <3>1, <3>2, <3>3
  <2> QED BY <2>5, <2>6, <2>7 DEF RefusedStaysInside
<1>12. ASSUME NEW e \in Exchanges, Serve(e) PROVE RefusedStaysInside'
  <2>1. rows' = rows
    BY <1>12 DEF Serve, trail
  <2>2. \A x \in Exchanges : Refused(x)' <=> Refused(x)
    BY <1>12 DEF Serve, RefusalFits, Refused
  <2>3. \A x \in Exchanges : Refused(x) => ~forwarded'[x]
    BY <1>12 DEF Serve, RefusedStaysInside, RefusalFits
  <2> QED BY <2>1, <2>2, <2>3 DEF RefusedStaysInside
<1>13. ASSUME NEW e \in Exchanges, TunnelEnds(e) PROVE RefusedStaysInside'
  <2>1. rows' = rows
    BY <1>13 DEF TunnelEnds, trail
  <2>2. \A x \in Exchanges : Refused(x)' <=> Refused(x)
    BY <1>13 DEF TunnelEnds, RefusalFits, Refused
  <2>3. \A x \in Exchanges : Refused(x) => ~forwarded'[x]
    BY <1>13 DEF TunnelEnds, RefusedStaysInside, RefusalFits
  <2> QED BY <2>1, <2>2, <2>3 DEF RefusedStaysInside
<1>14. ASSUME NEW e \in Exchanges, NEW c \in Exchanges, AcceptInner(c, e)
      PROVE  RefusedStaysInside'
  <2>1. rows' = rows
    BY <1>14 DEF AcceptInner, trail
  <2>2. \A x \in Exchanges : Refused(x)' <=> Refused(x)
    BY <1>14 DEF AcceptInner, RefusalFits, Refused
  <2>3. \A x \in Exchanges : Refused(x) => ~forwarded'[x]
    BY <1>14 DEF AcceptInner, RefusedStaysInside, RefusalFits
  <2> QED BY <2>1, <2>2, <2>3 DEF RefusedStaysInside
<1>15. ASSUME NEW e \in Exchanges, NEW c \in Exchanges, RejectInner(c, e)
      PROVE  RefusedStaysInside'
  <2>1. rows[e] = <<>> /\ ~forwarded[e]
    BY <1>15 DEF RejectInner, RowsFit, RefusalFits
  <2>2. rows' = rows /\ forwarded' = forwarded
    BY <1>15 DEF RejectInner, trail
  <2>3. \A x \in Exchanges : Refused(x)' <=> (x = e \/ Refused(x))
    BY <1>15 DEF RejectInner, Refused
  <2>4. \A x \in Exchanges : Refused(x)' => ~forwarded'[x]
    BY <2>1, <2>2, <2>3 DEF RefusedStaysInside
  <2>5. ASSUME NEW x \in Exchanges, NEW i \in DOMAIN rows'[x]
        PROVE  (rows'[x][i] = "block") <=> Refused(x)'
    BY <2>1, <2>2, <2>3 DEF RefusedStaysInside
  <2> QED BY <2>4, <2>5 DEF RefusedStaysInside
<1>16. ASSUME NEW e \in Exchanges, NEW c \in Exchanges, BodyFails(c, e)
      PROVE  RefusedStaysInside'
  <2>1. rows' = rows
    BY <1>16 DEF BodyFails, trail
  <2>2. \A x \in Exchanges : Refused(x)' <=> Refused(x)
    BY <1>16 DEF BodyFails, RefusalFits, Refused
  <2>3. \A x \in Exchanges : Refused(x) => ~forwarded'[x]
    BY <1>16 DEF BodyFails, RefusedStaysInside, RefusalFits
  <2> QED BY <2>1, <2>2, <2>3 DEF RefusedStaysInside
<1>17. ASSUME NEW e \in Exchanges, ReplayFails(e) PROVE RefusedStaysInside'
  <2>1. rows' = rows
    BY <1>17 DEF ReplayFails, trail
  <2>2. \A x \in Exchanges : Refused(x)' <=> Refused(x)
    BY <1>17 DEF ReplayFails, RefusalFits, Refused
  <2>3. \A x \in Exchanges : Refused(x) => ~forwarded'[x]
    BY <1>17 DEF ReplayFails, RefusedStaysInside, RefusalFits
  <2> QED BY <2>1, <2>2, <2>3 DEF RefusedStaysInside
<1>18. ASSUME NEW e \in Exchanges, Replay(e) PROVE RefusedStaysInside'
  <2>1. rows' = rows
    BY <1>18 DEF Replay, trail
  <2>2. \A x \in Exchanges : Refused(x)' <=> Refused(x)
    BY <1>18 DEF Replay, RefusalFits, Refused
  <2>3. \A x \in Exchanges : Refused(x) => ~forwarded'[x]
    BY <1>18 DEF Replay, RefusedStaysInside, RefusalFits
  <2> QED BY <2>1, <2>2, <2>3 DEF RefusedStaysInside
<1>19. ASSUME NEW e \in Exchanges, LogInner(e) PROVE RefusedStaysInside'
  <2>1. rows[e] = <<>>
    BY <1>19 DEF LogInner, RowsFit
  <2>2. /\ \A x \in Exchanges \ {e} : rows'[x] = rows[x]
        /\ rows'[e] = Append(rows[e], RowAction(e)) \/ rows'[e] = rows[e]
    BY <1>19, ResponseChanges DEF LogInner
  <2>3. client' = client /\ forwarded' = forwarded
    BY <1>19 DEF LogInner
  <2>4. (RowAction(e) = "block") <=> Refused(e)
    BY DEF RowAction, RefusalFits
  <2>5. \A x \in Exchanges : Refused(x)' <=> Refused(x)
    BY <2>3 DEF Refused
  <2>6. \A x \in Exchanges : Refused(x)' => ~forwarded'[x]
    BY <2>3, <2>5 DEF RefusedStaysInside
  <2>7. ASSUME NEW x \in Exchanges, NEW i \in DOMAIN rows'[x]
        PROVE  (rows'[x][i] = "block") <=> Refused(x)
    <3>1. CASE x # e
      BY <2>2, <2>7, <3>1 DEF RefusedStaysInside
    <3>2. CASE x = e /\ rows'[e] = Append(rows[e], RowAction(e))
      <4>1. rows'[e] = <<RowAction(e)>>
        BY <2>1, <3>2
      <4>2. i = 1 /\ rows'[x][i] = RowAction(e)
        BY <4>1, <2>7, <3>2
      <4> QED BY <2>4, <3>2, <4>2
    <3>3. CASE x = e /\ rows'[e] = rows[e]
      BY <2>7, <3>3 DEF RefusedStaysInside
    <3> QED BY <2>2, <3>1, <3>2, <3>3
  <2> QED BY <2>5, <2>6, <2>7 DEF RefusedStaysInside
<1>20. ASSUME NEW e \in Exchanges, Answer(e) PROVE RefusedStaysInside'
  <2>1. rows' = rows
    BY <1>20 DEF Answer, trail
  <2>2. \A x \in Exchanges : Refused(x)' <=> Refused(x)
    BY <1>20 DEF Answer, RefusalFits, Refused
  <2>3. \A x \in Exchanges : Refused(x) => ~forwarded'[x]
    BY <1>20 DEF Answer, RefusedStaysInside, RefusalFits
  <2> QED BY <2>1, <2>2, <2>3 DEF RefusedStaysInside
<1>21. ASSUME NEW e \in Exchanges, AnswerFails(e) PROVE RefusedStaysInside'
  <2>1. rows' = rows
    BY <1>21 DEF AnswerFails, trail
  <2>2. \A x \in Exchanges : Refused(x)' <=> Refused(x)
    BY <1>21 DEF AnswerFails, RefusalFits, Refused
  <2>3. \A x \in Exchanges : Refused(x) => ~forwarded'[x]
    BY <1>21 DEF AnswerFails, RefusedStaysInside, RefusalFits
  <2> QED BY <2>1, <2>2, <2>3 DEF RefusedStaysInside
<1>22. ASSUME NEW c \in Chains, Reload(c) PROVE RefusedStaysInside'
  BY <1>22
  DEF Refused, RefusedStaysInside, Reload, origin, trail
<1>23. CASE UNCHANGED vars
  BY <1>23
  DEF Refused, RefusedStaysInside, vars, origin, trail
<1>24. ASSUME NEW e \in Exchanges, BadRequest(e) PROVE RefusedStaysInside'
  <2>1. rows' = rows
    BY <1>24 DEF BadRequest, trail
  <2>2. \A x \in Exchanges : Refused(x)' <=> Refused(x)
    BY <1>24 DEF BadRequest, RefusalFits, Refused
  <2>3. \A x \in Exchanges : Refused(x) => ~forwarded'[x]
    BY <1>24 DEF BadRequest, RefusedStaysInside, RefusalFits
  <2> QED BY <2>1, <2>2, <2>3 DEF RefusedStaysInside
<1> QED
  BY <1>1, <1>2, <1>3, <1>4, <1>5, <1>6, <1>7, <1>8, <1>9, <1>10, <1>11, <1>12,
     <1>13, <1>14, <1>15, <1>16, <1>17, <1>18, <1>19, <1>20, <1>21, <1>22,
     <1>23, <1>24
  DEF Next, Outer, Inner, Terminated

\* Every step keeps at most one row.
LEMMA OneRowStep ==
  ASSUME Types, rows \in [Exchanges -> Seq(Acts)], lost \subseteq Exchanges, off \subseteq Exchanges,
         KindFits, RowsFit, AtMostOneRow, [Next]_vars
  PROVE  AtMostOneRow'
<1>1. ASSUME NEW e \in Exchanges, NEW k \in {"http", "connect"}, NEW h \in Hosts, Accept(e, k, h)
      PROVE  AtMostOneRow'
  BY <1>1
  DEF AtMostOneRow, Accept, origin, trail
<1>2. ASSUME NEW e \in Exchanges, NEW k \in {"http", "connect"}, NEW h \in Hosts, Reject(e, k, h)
      PROVE  AtMostOneRow'
  BY <1>2
  DEF AtMostOneRow, Reject, origin, trail
<1>3. ASSUME NEW e \in Exchanges, HijackFails(e) PROVE AtMostOneRow'
  BY <1>3
  DEF AtMostOneRow, HijackFails, origin, trail
<1>4. ASSUME NEW e \in Exchanges, Establish(e) PROVE AtMostOneRow'
  BY <1>4
  DEF AtMostOneRow, Establish, origin, trail
<1>5. ASSUME NEW e \in Exchanges, ClientFails(e) PROVE AtMostOneRow'
  BY <1>5
  DEF AtMostOneRow, ClientFails, origin, trail
<1>6. ASSUME NEW e \in Exchanges, DialFails(e) PROVE AtMostOneRow'
  BY <1>6
  DEF AtMostOneRow, DialFails, origin, trail
<1>7. ASSUME NEW e \in Exchanges, Pipe(e) PROVE AtMostOneRow'
  BY <1>7
  DEF AtMostOneRow, Pipe, origin, trail
<1>8. ASSUME NEW e \in Exchanges, PipeEnds(e) PROVE AtMostOneRow'
  BY <1>8
  DEF AtMostOneRow, PipeEnds, origin, trail
<1>9. ASSUME NEW e \in Exchanges, RoundTripFails(e) PROVE AtMostOneRow'
  BY <1>9
  DEF AtMostOneRow, RoundTripFails, origin, trail
<1>10. ASSUME NEW e \in Exchanges, RoundTrip(e) PROVE AtMostOneRow'
  BY <1>10
  DEF AtMostOneRow, RoundTrip, origin, trail
<1>11. ASSUME NEW e \in Exchanges, After(e) PROVE AtMostOneRow'
  <2>1. rows[e] = <<>> /\ e \notin lost /\ e \notin off
    BY <1>11 DEF After, RowsFit
  <2>2. /\ \A x \in Exchanges \ {e} :
             rows'[x] = rows[x] /\ (x \in lost' <=> x \in lost) /\ (x \in off' <=> x \in off)
        /\ \/ rows'[e] = Append(rows[e], RowAction(e)) /\ lost' = lost /\ off' = off
           \/ rows'[e] = rows[e] /\ e \in lost' /\ off' = off
           \/ rows'[e] = rows[e] /\ lost' = lost /\ e \in off'
    BY <1>11, ResponseChanges DEF After
  <2>3. CASE rows'[e] = Append(rows[e], RowAction(e)) /\ lost' = lost /\ off' = off
    <3>1. rows'[e] = <<RowAction(e)>>
      BY <2>1, <2>3
    <3>2. Len(rows'[e]) = 1 /\ e \notin lost' /\ e \notin off'
      BY <2>1, <2>3, <3>1
    <3> QED BY <2>2, <3>2 DEF AtMostOneRow
  <2>4. CASE rows'[e] = rows[e] /\ (e \notin lost' \/ e \notin off')
    <3>1. Len(rows'[e]) = 0 /\ rows'[e] = <<>>
      BY <2>1, <2>4
    <3> QED BY <2>2, <2>4, <3>1 DEF AtMostOneRow
  <2> QED BY <2>1, <2>2, <2>3, <2>4
<1>12. ASSUME NEW e \in Exchanges, Serve(e) PROVE AtMostOneRow'
  BY <1>12
  DEF AtMostOneRow, Serve, origin, trail
<1>13. ASSUME NEW e \in Exchanges, TunnelEnds(e) PROVE AtMostOneRow'
  BY <1>13
  DEF AtMostOneRow, TunnelEnds, origin, trail
<1>14. ASSUME NEW e \in Exchanges, NEW c \in Exchanges, AcceptInner(c, e)
      PROVE  AtMostOneRow'
  BY <1>14
  DEF AtMostOneRow, AcceptInner, origin, trail
<1>15. ASSUME NEW e \in Exchanges, NEW c \in Exchanges, RejectInner(c, e)
      PROVE  AtMostOneRow'
  BY <1>15
  DEF AtMostOneRow, RejectInner, origin, trail
<1>16. ASSUME NEW e \in Exchanges, NEW c \in Exchanges, BodyFails(c, e)
      PROVE  AtMostOneRow'
  BY <1>16
  DEF AtMostOneRow, BodyFails, origin, trail
<1>17. ASSUME NEW e \in Exchanges, ReplayFails(e) PROVE AtMostOneRow'
  BY <1>17
  DEF AtMostOneRow, ReplayFails, origin, trail
<1>18. ASSUME NEW e \in Exchanges, Replay(e) PROVE AtMostOneRow'
  BY <1>18
  DEF AtMostOneRow, Replay, origin, trail
<1>19. ASSUME NEW e \in Exchanges, LogInner(e) PROVE AtMostOneRow'
  <2>1. rows[e] = <<>> /\ e \notin lost /\ e \notin off
    BY <1>19 DEF LogInner, RowsFit
  <2>2. /\ \A x \in Exchanges \ {e} :
             rows'[x] = rows[x] /\ (x \in lost' <=> x \in lost) /\ (x \in off' <=> x \in off)
        /\ \/ rows'[e] = Append(rows[e], RowAction(e)) /\ lost' = lost /\ off' = off
           \/ rows'[e] = rows[e] /\ e \in lost' /\ off' = off
           \/ rows'[e] = rows[e] /\ lost' = lost /\ e \in off'
    BY <1>19, ResponseChanges DEF LogInner
  <2>3. CASE rows'[e] = Append(rows[e], RowAction(e)) /\ lost' = lost /\ off' = off
    <3>1. rows'[e] = <<RowAction(e)>>
      BY <2>1, <2>3
    <3>2. Len(rows'[e]) = 1 /\ e \notin lost' /\ e \notin off'
      BY <2>1, <2>3, <3>1
    <3> QED BY <2>2, <3>2 DEF AtMostOneRow
  <2>4. CASE rows'[e] = rows[e] /\ (e \notin lost' \/ e \notin off')
    <3>1. Len(rows'[e]) = 0 /\ rows'[e] = <<>>
      BY <2>1, <2>4
    <3> QED BY <2>2, <2>4, <3>1 DEF AtMostOneRow
  <2> QED BY <2>1, <2>2, <2>3, <2>4
<1>20. ASSUME NEW e \in Exchanges, Answer(e) PROVE AtMostOneRow'
  BY <1>20
  DEF AtMostOneRow, Answer, origin, trail
<1>21. ASSUME NEW e \in Exchanges, AnswerFails(e) PROVE AtMostOneRow'
  BY <1>21
  DEF AtMostOneRow, AnswerFails, origin, trail
<1>22. ASSUME NEW c \in Chains, Reload(c) PROVE AtMostOneRow'
  BY <1>22
  DEF AtMostOneRow, Reload, origin, trail
<1>23. CASE UNCHANGED vars
  BY <1>23
  DEF AtMostOneRow, vars, origin, trail
<1>24. ASSUME NEW e \in Exchanges, BadRequest(e) PROVE AtMostOneRow'
  BY <1>24
  DEF AtMostOneRow, BadRequest, origin, trail
<1> QED
  BY <1>1, <1>2, <1>3, <1>4, <1>5, <1>6, <1>7, <1>8, <1>9, <1>10, <1>11, <1>12,
     <1>13, <1>14, <1>15, <1>16, <1>17, <1>18, <1>19, <1>20, <1>21, <1>22,
     <1>23, <1>24
  DEF Next, Outer, Inner, Terminated

\* The row of a request says what the chain that judged it decided, or what it
\* came with.
LEMMA JudgedVerdict ==
  ASSUME NEW c \in Chain, NEW h, NEW old \in {"", "allow", "warn", "block"}
  PROVE  LET told(act) == IF act = "" THEN "allow" ELSE act
         IN  /\ told(Judged(c, h, old)) \in {Verdict(c, h), told(old)}
             /\ old = "" => told(Judged(c, h, old)) = Verdict(c, h)
<1>1. c.mode \in {"warn", "block"} /\ c.policy \in BOOLEAN
  BY DEF Chain
<1>2. CASE Violates(c, h)
  <2>1. Judged(c, h, old) = c.mode /\ Verdict(c, h) = c.mode
    BY <1>2 DEF Judged, Verdict
  <2> QED BY <1>1, <2>1
<1>3. CASE ~Violates(c, h)
  <2>1. Verdict(c, h) = "allow"
    BY <1>3 DEF Verdict
  <2>2. \/ Judged(c, h, old) = old
        \/ Judged(c, h, old) = "allow" /\ old = ""
    BY <1>1, <1>3 DEF Judged
  <2> QED BY <2>1, <2>2
<1> QED BY <1>2, <1>3

\* Every step keeps decisions and rows together.
LEMMA DecisionStep ==
  ASSUME Types, rows \in [Exchanges -> Seq(Acts)], lost \subseteq Exchanges, off \subseteq Exchanges,
         host \in [Exchanges -> Hosts \cup {"none"}],
         judge \in [Exchanges -> Chains \cup {NoChain}],
         action \in [Exchanges -> {"", "allow", "warn", "block"}],
         forwarded \in [Exchanges -> BOOLEAN],
         chain \in Chain, KindFits, RowsFit, DecisionFits, [Next]_vars
  PROVE  DecisionFits'
<1> USE DEF Types
<1>1. ASSUME NEW e \in Exchanges, NEW k \in {"http", "connect"}, NEW h \in Hosts, Accept(e, k, h)
      PROVE  DecisionFits'
  <2>1. kind[e] = "none" /\ rows[e] = <<>> /\ tunnel[e] = e
    BY <1>1 DEF Accept, KindFits, Fits, RowsFit
  <2>2. /\ action' = [action EXCEPT ![e] = Judged(chain, h, "")]
        /\ host' = [host EXCEPT ![e] = h] /\ judge' = [judge EXCEPT ![e] = chain]
        /\ tunnel' = tunnel /\ rows' = rows
    BY <1>1 DEF Accept, ProcessRequest, trail
  <2>3. LET told(act) == IF act = "" THEN "allow" ELSE act
        IN  /\ told(Judged(chain, h, "")) \in {Verdict(chain, h), told("")}
            /\ "" = "" => told(Judged(chain, h, "")) = Verdict(chain, h)
    BY JudgedVerdict
  <2>4. /\ host'[tunnel'[e]] = host'[e]
        /\ RowAction(e)' \in {Verdict(judge'[e], host'[e]), Verdict(judge'[tunnel'[e]], host'[e])}
    <3>1. RowAction(e)' = Verdict(chain, h)
      BY <2>2, <2>3 DEF RowAction
    <3> QED BY <2>1, <2>2, <3>1
  <2>5. ASSUME NEW x \in Exchanges, x # e
        PROVE  /\ host'[tunnel'[x]] = host'[x]
               /\ RowAction(x)' \in {Verdict(judge'[x], host'[x]), Verdict(judge'[tunnel'[x]], host'[x])}
               /\ \A i \in DOMAIN rows'[x] : rows'[x][i] = RowAction(x)'
    <3>1. tunnel[x] # e /\ tunnel[x] \in Exchanges
      BY <2>1, <2>5 DEF KindFits
    <3>2. /\ tunnel'[x] = tunnel[x] /\ host'[x] = host[x] /\ judge'[x] = judge[x]
          /\ action'[x] = action[x] /\ rows'[x] = rows[x]
          /\ host'[tunnel[x]] = host[tunnel[x]] /\ judge'[tunnel[x]] = judge[tunnel[x]]
      BY <2>2, <2>5, <3>1
    <3>3. /\ host[tunnel[x]] = host[x]
          /\ RowAction(x) \in {Verdict(judge[x], host[x]), Verdict(judge[tunnel[x]], host[x])}
          /\ \A i \in DOMAIN rows[x] : rows[x][i] = RowAction(x)
      BY DEF DecisionFits
    <3>4. RowAction(x)' = RowAction(x)
      BY <3>2 DEF RowAction
    <3> QED BY <3>1, <3>2, <3>3, <3>4
  <2>6. DOMAIN rows'[e] = {}
    <3>1. rows'[e] = <<>>
      BY <2>1, <2>2
    <3>2. DOMAIN <<>> = {}
      BY FirstRow
    <3> QED BY <3>1, <3>2, Zenon
  <2> QED BY <2>1, <2>2, <2>4, <2>5, <2>6 DEF DecisionFits
<1>2. ASSUME NEW e \in Exchanges, NEW k \in {"http", "connect"}, NEW h \in Hosts, Reject(e, k, h)
      PROVE  DecisionFits'
  <2>1. kind[e] = "none" /\ rows[e] = <<>> /\ tunnel[e] = e
    BY <1>2 DEF Reject, KindFits, Fits, RowsFit
  <2>2. /\ action' = [action EXCEPT ![e] = Judged(chain, h, "")]
        /\ host' = [host EXCEPT ![e] = h] /\ judge' = [judge EXCEPT ![e] = chain]
        /\ tunnel' = tunnel /\ rows' = rows
    BY <1>2 DEF Reject, ProcessRequest, trail
  <2>3. LET told(act) == IF act = "" THEN "allow" ELSE act
        IN  /\ told(Judged(chain, h, "")) \in {Verdict(chain, h), told("")}
            /\ "" = "" => told(Judged(chain, h, "")) = Verdict(chain, h)
    BY JudgedVerdict
  <2>4. /\ host'[tunnel'[e]] = host'[e]
        /\ RowAction(e)' \in {Verdict(judge'[e], host'[e]), Verdict(judge'[tunnel'[e]], host'[e])}
    <3>1. RowAction(e)' = Verdict(chain, h)
      BY <2>2, <2>3 DEF RowAction
    <3> QED BY <2>1, <2>2, <3>1
  <2>5. ASSUME NEW x \in Exchanges, x # e
        PROVE  /\ host'[tunnel'[x]] = host'[x]
               /\ RowAction(x)' \in {Verdict(judge'[x], host'[x]), Verdict(judge'[tunnel'[x]], host'[x])}
               /\ \A i \in DOMAIN rows'[x] : rows'[x][i] = RowAction(x)'
    <3>1. tunnel[x] # e /\ tunnel[x] \in Exchanges
      BY <2>1, <2>5 DEF KindFits
    <3>2. /\ tunnel'[x] = tunnel[x] /\ host'[x] = host[x] /\ judge'[x] = judge[x]
          /\ action'[x] = action[x] /\ rows'[x] = rows[x]
          /\ host'[tunnel[x]] = host[tunnel[x]] /\ judge'[tunnel[x]] = judge[tunnel[x]]
      BY <2>2, <2>5, <3>1
    <3>3. /\ host[tunnel[x]] = host[x]
          /\ RowAction(x) \in {Verdict(judge[x], host[x]), Verdict(judge[tunnel[x]], host[x])}
          /\ \A i \in DOMAIN rows[x] : rows[x][i] = RowAction(x)
      BY DEF DecisionFits
    <3>4. RowAction(x)' = RowAction(x)
      BY <3>2 DEF RowAction
    <3> QED BY <3>1, <3>2, <3>3, <3>4
  <2>6. DOMAIN rows'[e] = {}
    <3>1. rows'[e] = <<>>
      BY <2>1, <2>2
    <3>2. DOMAIN <<>> = {}
      BY FirstRow
    <3> QED BY <3>1, <3>2, Zenon
  <2> QED BY <2>1, <2>2, <2>4, <2>5, <2>6 DEF DecisionFits
<1>3. ASSUME NEW e \in Exchanges, HijackFails(e) PROVE DecisionFits'
  <2>1. UNCHANGED <<host, tunnel, judge, action, rows>>
    BY <1>3 DEF HijackFails, origin, trail
  <2> QED BY <2>1 DEF DecisionFits, RowAction
<1>4. ASSUME NEW e \in Exchanges, Establish(e) PROVE DecisionFits'
  <2>1. UNCHANGED <<host, tunnel, judge, action, rows>>
    BY <1>4 DEF Establish, origin, trail
  <2> QED BY <2>1 DEF DecisionFits, RowAction
<1>5. ASSUME NEW e \in Exchanges, ClientFails(e) PROVE DecisionFits'
  <2>1. UNCHANGED <<host, tunnel, judge, action, rows>>
    BY <1>5 DEF ClientFails, origin, trail
  <2> QED BY <2>1 DEF DecisionFits, RowAction
<1>6. ASSUME NEW e \in Exchanges, DialFails(e) PROVE DecisionFits'
  <2>1. UNCHANGED <<host, tunnel, judge, action, rows>>
    BY <1>6 DEF DialFails, origin, trail
  <2> QED BY <2>1 DEF DecisionFits, RowAction
<1>7. ASSUME NEW e \in Exchanges, Pipe(e) PROVE DecisionFits'
  <2>1. UNCHANGED <<host, tunnel, judge, action, rows>>
    BY <1>7 DEF Pipe, origin, trail
  <2> QED BY <2>1 DEF DecisionFits, RowAction
<1>8. ASSUME NEW e \in Exchanges, PipeEnds(e) PROVE DecisionFits'
  <2>1. UNCHANGED <<host, tunnel, judge, action, rows>>
    BY <1>8 DEF PipeEnds, origin, trail
  <2> QED BY <2>1 DEF DecisionFits, RowAction
<1>9. ASSUME NEW e \in Exchanges, RoundTripFails(e) PROVE DecisionFits'
  <2>1. UNCHANGED <<host, tunnel, judge, action, rows>>
    BY <1>9 DEF RoundTripFails, origin, trail
  <2> QED BY <2>1 DEF DecisionFits, RowAction
<1>10. ASSUME NEW e \in Exchanges, RoundTrip(e) PROVE DecisionFits'
  <2>1. UNCHANGED <<host, tunnel, judge, action, rows>>
    BY <1>10 DEF RoundTrip, origin, trail
  <2> QED BY <2>1 DEF DecisionFits, RowAction
<1>11. ASSUME NEW e \in Exchanges, After(e) PROVE DecisionFits'
  <2>1. UNCHANGED <<host, tunnel, judge, action>>
    BY <1>11 DEF After, origin
  <2>2. rows[e] = <<>>
    BY <1>11 DEF After, RowsFit
  <2>3. /\ \A x \in Exchanges \ {e} : rows'[x] = rows[x]
        /\ rows'[e] = Append(rows[e], RowAction(e)) \/ rows'[e] = rows[e]
    BY <1>11, ResponseChanges DEF After
  <2>4. \A x \in Exchanges : RowAction(x)' = RowAction(x)
    BY <2>1 DEF RowAction
  <2>5. ASSUME NEW i \in DOMAIN rows'[e] PROVE rows'[e][i] = RowAction(e)
    <3>1. CASE rows'[e] = Append(rows[e], RowAction(e))
      <4>1. rows'[e] = <<RowAction(e)>>
        BY <2>2, <3>1, FirstRow, Zenon
      <4> QED BY <2>5, <4>1, FirstRow, Zenon
    <3>2. CASE rows'[e] = rows[e]
      BY <2>2, <2>5, <3>2 DEF DecisionFits
    <3> QED BY <2>3, <3>1, <3>2
  <2>6. ASSUME NEW x \in Exchanges, x # e, NEW i \in DOMAIN rows'[x]
        PROVE  rows'[x][i] = RowAction(x)
    BY <2>3, <2>6 DEF DecisionFits
  <2> QED BY ZenonT(40), <2>1, <2>4, <2>5, <2>6 DEF DecisionFits
<1>12. ASSUME NEW e \in Exchanges, Serve(e) PROVE DecisionFits'
  <2>1. UNCHANGED <<host, tunnel, judge, action, rows>>
    BY <1>12 DEF Serve, origin, trail
  <2> QED BY <2>1 DEF DecisionFits, RowAction
<1>13. ASSUME NEW e \in Exchanges, TunnelEnds(e) PROVE DecisionFits'
  <2>1. UNCHANGED <<host, tunnel, judge, action, rows>>
    BY <1>13 DEF TunnelEnds, origin, trail
  <2> QED BY <2>1 DEF DecisionFits, RowAction
<1>14. ASSUME NEW e \in Exchanges, NEW c \in Exchanges, AcceptInner(c, e)
      PROVE  DecisionFits'
  <2>1. kind[e] = "none" /\ rows[e] = <<>> /\ c # e /\ kind[c] = "mitm" /\ tunnel[c] = c
    BY <1>14 DEF AcceptInner, KindFits, Fits, RowsFit
  <2>2. /\ action' = [action EXCEPT ![e] = Judged(chain, host[c], action[c])]
        /\ host' = [host EXCEPT ![e] = host[c]] /\ judge' = [judge EXCEPT ![e] = chain]
        /\ tunnel' = [tunnel EXCEPT ![e] = c] /\ rows' = rows
    BY <1>14 DEF AcceptInner, ProcessRequest, trail
  <2>3. LET told(act) == IF act = "" THEN "allow" ELSE act
        IN  /\ told(Judged(chain, host[c], action[c])) \in {Verdict(chain, host[c]), told(action[c])}
            /\ action[c] = "" => told(Judged(chain, host[c], action[c])) = Verdict(chain, host[c])
    BY JudgedVerdict
  <2>4. /\ host'[tunnel'[e]] = host'[e]
        /\ RowAction(e)' \in {Verdict(judge'[e], host'[e]), Verdict(judge'[tunnel'[e]], host'[e])}
    <3>1. RowAction(c) = Verdict(judge[c], host[c])
      BY <2>1 DEF DecisionFits
    <3>2. RowAction(e)' \in {Verdict(chain, host[c]), RowAction(c)}
      BY <2>2, <2>3 DEF RowAction
    <3> QED BY <2>1, <2>2, <3>1, <3>2
  <2>5. ASSUME NEW x \in Exchanges, x # e
        PROVE  /\ host'[tunnel'[x]] = host'[x]
               /\ RowAction(x)' \in {Verdict(judge'[x], host'[x]), Verdict(judge'[tunnel'[x]], host'[x])}
               /\ \A i \in DOMAIN rows'[x] : rows'[x][i] = RowAction(x)'
    <3>1. tunnel[x] # e /\ tunnel[x] \in Exchanges
      BY <2>1, <2>5 DEF KindFits
    <3>2. /\ tunnel'[x] = tunnel[x] /\ host'[x] = host[x] /\ judge'[x] = judge[x]
          /\ action'[x] = action[x] /\ rows'[x] = rows[x]
          /\ host'[tunnel[x]] = host[tunnel[x]] /\ judge'[tunnel[x]] = judge[tunnel[x]]
      BY <2>2, <2>5, <3>1
    <3>3. /\ host[tunnel[x]] = host[x]
          /\ RowAction(x) \in {Verdict(judge[x], host[x]), Verdict(judge[tunnel[x]], host[x])}
          /\ \A i \in DOMAIN rows[x] : rows[x][i] = RowAction(x)
      BY DEF DecisionFits
    <3>4. RowAction(x)' = RowAction(x)
      BY <3>2 DEF RowAction
    <3> QED BY <3>1, <3>2, <3>3, <3>4
  <2>6. DOMAIN rows'[e] = {}
    <3>1. rows'[e] = <<>>
      BY <2>1, <2>2
    <3>2. DOMAIN <<>> = {}
      BY FirstRow
    <3> QED BY <3>1, <3>2, Zenon
  <2> QED BY <2>1, <2>2, <2>4, <2>5, <2>6 DEF DecisionFits
<1>15. ASSUME NEW e \in Exchanges, NEW c \in Exchanges, RejectInner(c, e)
      PROVE  DecisionFits'
  <2>1. kind[e] = "none" /\ rows[e] = <<>> /\ c # e /\ kind[c] = "mitm" /\ tunnel[c] = c
    BY <1>15 DEF RejectInner, KindFits, Fits, RowsFit
  <2>2. /\ action' = [action EXCEPT ![e] = Judged(chain, host[c], action[c])]
        /\ host' = [host EXCEPT ![e] = host[c]] /\ judge' = [judge EXCEPT ![e] = chain]
        /\ tunnel' = [tunnel EXCEPT ![e] = c] /\ rows' = rows
    BY <1>15 DEF RejectInner, ProcessRequest, trail
  <2>3. LET told(act) == IF act = "" THEN "allow" ELSE act
        IN  /\ told(Judged(chain, host[c], action[c])) \in {Verdict(chain, host[c]), told(action[c])}
            /\ action[c] = "" => told(Judged(chain, host[c], action[c])) = Verdict(chain, host[c])
    BY JudgedVerdict
  <2>4. /\ host'[tunnel'[e]] = host'[e]
        /\ RowAction(e)' \in {Verdict(judge'[e], host'[e]), Verdict(judge'[tunnel'[e]], host'[e])}
    <3>1. RowAction(c) = Verdict(judge[c], host[c])
      BY <2>1 DEF DecisionFits
    <3>2. RowAction(e)' \in {Verdict(chain, host[c]), RowAction(c)}
      BY <2>2, <2>3 DEF RowAction
    <3> QED BY <2>1, <2>2, <3>1, <3>2
  <2>5. ASSUME NEW x \in Exchanges, x # e
        PROVE  /\ host'[tunnel'[x]] = host'[x]
               /\ RowAction(x)' \in {Verdict(judge'[x], host'[x]), Verdict(judge'[tunnel'[x]], host'[x])}
               /\ \A i \in DOMAIN rows'[x] : rows'[x][i] = RowAction(x)'
    <3>1. tunnel[x] # e /\ tunnel[x] \in Exchanges
      BY <2>1, <2>5 DEF KindFits
    <3>2. /\ tunnel'[x] = tunnel[x] /\ host'[x] = host[x] /\ judge'[x] = judge[x]
          /\ action'[x] = action[x] /\ rows'[x] = rows[x]
          /\ host'[tunnel[x]] = host[tunnel[x]] /\ judge'[tunnel[x]] = judge[tunnel[x]]
      BY <2>2, <2>5, <3>1
    <3>3. /\ host[tunnel[x]] = host[x]
          /\ RowAction(x) \in {Verdict(judge[x], host[x]), Verdict(judge[tunnel[x]], host[x])}
          /\ \A i \in DOMAIN rows[x] : rows[x][i] = RowAction(x)
      BY DEF DecisionFits
    <3>4. RowAction(x)' = RowAction(x)
      BY <3>2 DEF RowAction
    <3> QED BY <3>1, <3>2, <3>3, <3>4
  <2>6. DOMAIN rows'[e] = {}
    <3>1. rows'[e] = <<>>
      BY <2>1, <2>2
    <3>2. DOMAIN <<>> = {}
      BY FirstRow
    <3> QED BY <3>1, <3>2, Zenon
  <2> QED BY <2>1, <2>2, <2>4, <2>5, <2>6 DEF DecisionFits
<1>16. ASSUME NEW e \in Exchanges, NEW c \in Exchanges, BodyFails(c, e)
      PROVE  DecisionFits'
  <2>1. kind[e] = "none" /\ rows[e] = <<>> /\ c # e /\ kind[c] = "mitm" /\ tunnel[c] = c
    BY <1>16 DEF BodyFails, KindFits, Fits, RowsFit
  <2>2. /\ action' = [action EXCEPT ![e] = action[c]]
        /\ host' = [host EXCEPT ![e] = host[c]] /\ judge' = judge
        /\ tunnel' = [tunnel EXCEPT ![e] = c] /\ rows' = rows
    BY <1>16 DEF BodyFails, trail
  <2>4. /\ host'[tunnel'[e]] = host'[e]
        /\ RowAction(e)' \in {Verdict(judge'[e], host'[e]), Verdict(judge'[tunnel'[e]], host'[e])}
    <3>1. RowAction(c) = Verdict(judge[c], host[c])
      BY <2>1 DEF DecisionFits
    <3>2. RowAction(e)' = RowAction(c)
      BY <2>2 DEF RowAction
    <3> QED BY <2>1, <2>2, <3>1, <3>2
  <2>5. ASSUME NEW x \in Exchanges, x # e
        PROVE  /\ host'[tunnel'[x]] = host'[x]
               /\ RowAction(x)' \in {Verdict(judge'[x], host'[x]), Verdict(judge'[tunnel'[x]], host'[x])}
               /\ \A i \in DOMAIN rows'[x] : rows'[x][i] = RowAction(x)'
    <3>1. tunnel[x] # e /\ tunnel[x] \in Exchanges
      BY <2>1, <2>5 DEF KindFits
    <3>2. /\ tunnel'[x] = tunnel[x] /\ host'[x] = host[x] /\ judge'[x] = judge[x]
          /\ action'[x] = action[x] /\ rows'[x] = rows[x]
          /\ host'[tunnel[x]] = host[tunnel[x]] /\ judge'[tunnel[x]] = judge[tunnel[x]]
      BY <2>2, <2>5, <3>1
    <3>3. /\ host[tunnel[x]] = host[x]
          /\ RowAction(x) \in {Verdict(judge[x], host[x]), Verdict(judge[tunnel[x]], host[x])}
          /\ \A i \in DOMAIN rows[x] : rows[x][i] = RowAction(x)
      BY DEF DecisionFits
    <3>4. RowAction(x)' = RowAction(x)
      BY <3>2 DEF RowAction
    <3> QED BY <3>1, <3>2, <3>3, <3>4
  <2>6. DOMAIN rows'[e] = {}
    <3>1. rows'[e] = <<>>
      BY <2>1, <2>2
    <3>2. DOMAIN <<>> = {}
      BY FirstRow
    <3> QED BY <3>1, <3>2, Zenon
  <2> QED BY <2>1, <2>2, <2>4, <2>5, <2>6 DEF DecisionFits
<1>17. ASSUME NEW e \in Exchanges, ReplayFails(e) PROVE DecisionFits'
  <2>1. UNCHANGED <<host, tunnel, judge, action, rows>>
    BY <1>17 DEF ReplayFails, origin, trail
  <2> QED BY <2>1 DEF DecisionFits, RowAction
<1>18. ASSUME NEW e \in Exchanges, Replay(e) PROVE DecisionFits'
  <2>1. UNCHANGED <<host, tunnel, judge, action, rows>>
    BY <1>18 DEF Replay, origin, trail
  <2> QED BY <2>1 DEF DecisionFits, RowAction
<1>19. ASSUME NEW e \in Exchanges, LogInner(e) PROVE DecisionFits'
  <2>1. UNCHANGED <<host, tunnel, judge, action>>
    BY <1>19 DEF LogInner, origin
  <2>2. rows[e] = <<>>
    BY <1>19 DEF LogInner, RowsFit
  <2>3. /\ \A x \in Exchanges \ {e} : rows'[x] = rows[x]
        /\ rows'[e] = Append(rows[e], RowAction(e)) \/ rows'[e] = rows[e]
    BY <1>19, ResponseChanges DEF LogInner
  <2>4. \A x \in Exchanges : RowAction(x)' = RowAction(x)
    BY <2>1 DEF RowAction
  <2>5. ASSUME NEW i \in DOMAIN rows'[e] PROVE rows'[e][i] = RowAction(e)
    <3>1. CASE rows'[e] = Append(rows[e], RowAction(e))
      <4>1. rows'[e] = <<RowAction(e)>>
        BY <2>2, <3>1, FirstRow, Zenon
      <4> QED BY <2>5, <4>1, FirstRow, Zenon
    <3>2. CASE rows'[e] = rows[e]
      BY <2>2, <2>5, <3>2 DEF DecisionFits
    <3> QED BY <2>3, <3>1, <3>2
  <2>6. ASSUME NEW x \in Exchanges, x # e, NEW i \in DOMAIN rows'[x]
        PROVE  rows'[x][i] = RowAction(x)
    BY <2>3, <2>6 DEF DecisionFits
  <2> QED BY ZenonT(40), <2>1, <2>4, <2>5, <2>6 DEF DecisionFits
<1>20. ASSUME NEW e \in Exchanges, Answer(e) PROVE DecisionFits'
  <2>1. UNCHANGED <<host, tunnel, judge, action, rows>>
    BY <1>20 DEF Answer, origin, trail
  <2> QED BY <2>1 DEF DecisionFits, RowAction
<1>21. ASSUME NEW e \in Exchanges, AnswerFails(e) PROVE DecisionFits'
  <2>1. UNCHANGED <<host, tunnel, judge, action, rows>>
    BY <1>21 DEF AnswerFails, origin, trail
  <2> QED BY <2>1 DEF DecisionFits, RowAction
<1>22. ASSUME NEW c \in Chains, Reload(c) PROVE DecisionFits'
  BY <1>22
  DEF DecisionFits, RowAction, Reload, origin, trail
<1>23. CASE UNCHANGED vars
  BY <1>23
  DEF DecisionFits, RowAction, vars, origin, trail
<1>24. ASSUME NEW e \in Exchanges, BadRequest(e) PROVE DecisionFits'
  <2>1. UNCHANGED <<host, tunnel, judge, action, rows>>
    BY <1>24 DEF BadRequest, trail
  <2> QED BY <2>1 DEF DecisionFits, RowAction
<1> QED
  BY <1>1, <1>2, <1>3, <1>4, <1>5, <1>6, <1>7, <1>8, <1>9, <1>10, <1>11, <1>12,
     <1>13, <1>14, <1>15, <1>16, <1>17, <1>18, <1>19, <1>20, <1>21, <1>22,
     <1>23, <1>24
  DEF Next, Outer, Inner, Terminated

\* Every step keeps the types.
LEMMA TypeStep ==
  ASSUME TypeOK, [Next]_vars
  PROVE  TypeOK'
<1>1. ASSUME NEW e \in Exchanges, NEW k \in {"http", "connect"}, NEW h \in Hosts, Accept(e, k, h)
      PROVE  TypeOK'
  <2>1. chain \in Chain /\ "" \in {"", "allow", "warn", "block"} /\ h \in Hosts \cup {"none"}
    BY ProxyAssumption DEF TypeOK
  <2>2. Judged(chain, h, "") \in {"", "allow", "warn", "block"}
    BY <2>1, JudgedAction
  <2>3. action' \in [Exchanges -> {"", "allow", "warn", "block"}]
    BY <1>1, <2>2 DEF Accept, ProcessRequest, TypeOK
  <2>4. /\ host' \in [Exchanges -> Hosts \cup {"none"}]
        /\ judge' \in [Exchanges -> Chains \cup {NoChain}]
    BY <1>1, <2>1 DEF Accept, ProcessRequest, TypeOK
  <2>5. /\ kind' \in [Exchanges -> {"none", "http", "connect", "mitm", "inner"}]
        /\ pc' \in [Exchanges -> Places]
        /\ tunnel' \in [Exchanges -> Exchanges]
    BY <1>1 DEF Accept, TypeOK, Places
  <2>6. client' \in [Exchanges -> {"none", "established", "400", "403", "500", "502", "response"}]
    BY <1>1 DEF Accept, TypeOK
  <2>7. UNCHANGED <<chain, reloads, forwarded, rows, lost, off>>
    BY <1>1 DEF Accept, trail
  <2> QED BY <2>3, <2>4, <2>5, <2>6, <2>7 DEF TypeOK
<1>2. ASSUME NEW e \in Exchanges, NEW k \in {"http", "connect"}, NEW h \in Hosts, Reject(e, k, h)
      PROVE  TypeOK'
  <2>1. chain \in Chain /\ "" \in {"", "allow", "warn", "block"} /\ h \in Hosts \cup {"none"}
    BY ProxyAssumption DEF TypeOK
  <2>2. Judged(chain, h, "") \in {"", "allow", "warn", "block"}
    BY <2>1, JudgedAction
  <2>3. action' \in [Exchanges -> {"", "allow", "warn", "block"}]
    BY <1>2, <2>2 DEF Reject, ProcessRequest, TypeOK
  <2>4. /\ host' \in [Exchanges -> Hosts \cup {"none"}]
        /\ judge' \in [Exchanges -> Chains \cup {NoChain}]
    BY <1>2, <2>1 DEF Reject, ProcessRequest, TypeOK
  <2>5. /\ kind' \in [Exchanges -> {"none", "http", "connect", "mitm", "inner"}]
        /\ pc' \in [Exchanges -> Places]
        /\ tunnel' \in [Exchanges -> Exchanges]
    BY <1>2 DEF Reject, TypeOK, Places
  <2>6. client' \in [Exchanges -> {"none", "established", "400", "403", "500", "502", "response"}]
    BY <1>2 DEF Reject, TypeOK
  <2>7. UNCHANGED <<chain, reloads, forwarded, rows, lost, off>>
    BY <1>2 DEF Reject, trail
  <2> QED BY <2>3, <2>4, <2>5, <2>6, <2>7 DEF TypeOK
<1>3. ASSUME NEW e \in Exchanges, HijackFails(e) PROVE TypeOK'
  <2>1. PICK answer \in {"500", "none"} : client' = [client EXCEPT ![e] = answer]
    BY <1>3 DEF HijackFails
  <2>2. client' \in [Exchanges -> {"none", "established", "400", "403", "500", "502", "response"}]
    BY <2>1 DEF TypeOK
  <2>3. pc' \in [Exchanges -> Places]
    BY <1>3 DEF HijackFails, TypeOK, Places
  <2>4. UNCHANGED <<chain, reloads, kind, host, tunnel, judge, action, forwarded, rows, lost, off>>
    BY <1>3 DEF HijackFails, origin, trail
  <2> QED BY <2>2, <2>3, <2>4 DEF TypeOK
<1>4. ASSUME NEW e \in Exchanges, Establish(e) PROVE TypeOK'
  BY <1>4
  DEF TypeOK, Places, Establish, origin, trail
<1>5. ASSUME NEW e \in Exchanges, ClientFails(e) PROVE TypeOK'
  BY <1>5
  DEF TypeOK, Places, ClientFails, origin, trail
<1>6. ASSUME NEW e \in Exchanges, DialFails(e) PROVE TypeOK'
  BY <1>6
  DEF TypeOK, Places, DialFails, origin, trail
<1>7. ASSUME NEW e \in Exchanges, Pipe(e) PROVE TypeOK'
  BY <1>7
  DEF TypeOK, Places, Pipe, origin, trail
<1>8. ASSUME NEW e \in Exchanges, PipeEnds(e) PROVE TypeOK'
  BY <1>8
  DEF TypeOK, Places, PipeEnds, origin, trail
<1>9. ASSUME NEW e \in Exchanges, RoundTripFails(e) PROVE TypeOK'
  BY <1>9
  DEF TypeOK, Places, RoundTripFails, origin, trail
<1>10. ASSUME NEW e \in Exchanges, RoundTrip(e) PROVE TypeOK'
  BY <1>10
  DEF TypeOK, Places, RoundTrip, origin, trail
<1>11. ASSUME NEW e \in Exchanges, After(e) PROVE TypeOK'
  <2>1. action[e] \in {"", "allow", "warn", "block"}
    BY DEF TypeOK
  <2>2. RowAction(e) \in Acts
    BY <2>1 DEF RowAction, Acts
  <2>3. rows' \in [Exchanges -> Seq(Acts)] /\ lost' \subseteq Exchanges /\ off' \subseteq Exchanges
    BY <1>11, <2>2, ResponseChanges DEF After, TypeOK, Acts
  <2>4. pc' \in [Exchanges -> Places]
    BY <1>11 DEF After, TypeOK, Places
  <2>5. UNCHANGED <<chain, reloads, kind, host, tunnel, judge, action, forwarded, client>>
    BY <1>11 DEF After, origin
  <2> QED BY <2>3, <2>4, <2>5 DEF TypeOK, Acts
<1>12. ASSUME NEW e \in Exchanges, Serve(e) PROVE TypeOK'
  BY <1>12
  DEF TypeOK, Places, Serve, origin, trail
<1>13. ASSUME NEW e \in Exchanges, TunnelEnds(e) PROVE TypeOK'
  BY <1>13
  DEF TypeOK, Places, TunnelEnds, origin, trail
<1>14. ASSUME NEW e \in Exchanges, NEW c \in Exchanges, AcceptInner(c, e)
      PROVE  TypeOK'
  <2>1. chain \in Chain /\ action[c] \in {"", "allow", "warn", "block"} /\ host[c] \in Hosts \cup {"none"}
    BY ProxyAssumption DEF TypeOK
  <2>2. Judged(chain, host[c], action[c]) \in {"", "allow", "warn", "block"}
    BY <2>1, JudgedAction
  <2>3. action' \in [Exchanges -> {"", "allow", "warn", "block"}]
    BY <1>14, <2>2 DEF AcceptInner, ProcessRequest, TypeOK
  <2>4. /\ host' \in [Exchanges -> Hosts \cup {"none"}]
        /\ judge' \in [Exchanges -> Chains \cup {NoChain}]
    BY <1>14, <2>1 DEF AcceptInner, ProcessRequest, TypeOK
  <2>5. /\ kind' \in [Exchanges -> {"none", "http", "connect", "mitm", "inner"}]
        /\ pc' \in [Exchanges -> Places]
        /\ tunnel' \in [Exchanges -> Exchanges]
    BY <1>14 DEF AcceptInner, TypeOK, Places
  <2>6. client' \in [Exchanges -> {"none", "established", "400", "403", "500", "502", "response"}]
    BY <1>14 DEF AcceptInner, TypeOK
  <2>7. UNCHANGED <<chain, reloads, forwarded, rows, lost, off>>
    BY <1>14 DEF AcceptInner, trail
  <2> QED BY <2>3, <2>4, <2>5, <2>6, <2>7 DEF TypeOK
<1>15. ASSUME NEW e \in Exchanges, NEW c \in Exchanges, RejectInner(c, e)
      PROVE  TypeOK'
  <2>1. chain \in Chain /\ action[c] \in {"", "allow", "warn", "block"} /\ host[c] \in Hosts \cup {"none"}
    BY ProxyAssumption DEF TypeOK
  <2>2. Judged(chain, host[c], action[c]) \in {"", "allow", "warn", "block"}
    BY <2>1, JudgedAction
  <2>3. action' \in [Exchanges -> {"", "allow", "warn", "block"}]
    BY <1>15, <2>2 DEF RejectInner, ProcessRequest, TypeOK
  <2>4. /\ host' \in [Exchanges -> Hosts \cup {"none"}]
        /\ judge' \in [Exchanges -> Chains \cup {NoChain}]
    BY <1>15, <2>1 DEF RejectInner, ProcessRequest, TypeOK
  <2>5. /\ kind' \in [Exchanges -> {"none", "http", "connect", "mitm", "inner"}]
        /\ pc' \in [Exchanges -> Places]
        /\ tunnel' \in [Exchanges -> Exchanges]
    BY <1>15 DEF RejectInner, TypeOK, Places
  <2>6. client' \in [Exchanges -> {"none", "established", "400", "403", "500", "502", "response"}]
    BY <1>15 DEF RejectInner, TypeOK
  <2>7. UNCHANGED <<chain, reloads, forwarded, rows, lost, off>>
    BY <1>15 DEF RejectInner, trail
  <2> QED BY <2>3, <2>4, <2>5, <2>6, <2>7 DEF TypeOK
<1>16. ASSUME NEW e \in Exchanges, NEW c \in Exchanges, BodyFails(c, e)
      PROVE  TypeOK'
  BY <1>16
  DEF TypeOK, Places, BodyFails, origin, trail
<1>17. ASSUME NEW e \in Exchanges, ReplayFails(e) PROVE TypeOK'
  BY <1>17
  DEF TypeOK, Places, ReplayFails, origin, trail
<1>18. ASSUME NEW e \in Exchanges, Replay(e) PROVE TypeOK'
  BY <1>18
  DEF TypeOK, Places, Replay, origin, trail
<1>19. ASSUME NEW e \in Exchanges, LogInner(e) PROVE TypeOK'
  <2>1. action[e] \in {"", "allow", "warn", "block"}
    BY DEF TypeOK
  <2>2. RowAction(e) \in Acts
    BY <2>1 DEF RowAction, Acts
  <2>3. rows' \in [Exchanges -> Seq(Acts)] /\ lost' \subseteq Exchanges /\ off' \subseteq Exchanges
    BY <1>19, <2>2, ResponseChanges DEF LogInner, TypeOK, Acts
  <2>4. pc' \in [Exchanges -> Places]
    BY <1>19 DEF LogInner, TypeOK, Places
  <2>5. UNCHANGED <<chain, reloads, kind, host, tunnel, judge, action, forwarded, client>>
    BY <1>19 DEF LogInner, origin
  <2> QED BY <2>3, <2>4, <2>5 DEF TypeOK, Acts
<1>20. ASSUME NEW e \in Exchanges, Answer(e) PROVE TypeOK'
  <2>1. PICK next \in {"serving", "done"} :
          pc' = [pc EXCEPT ![e] = "done", ![tunnel[e]] = next]
    BY <1>20 DEF Answer
  <2>2. pc' \in [Exchanges -> Places]
    BY <2>1 DEF TypeOK, Places
  <2>3. client' \in [Exchanges -> {"none", "established", "400", "403", "500", "502", "response"}]
    BY <1>20 DEF Answer, TypeOK
  <2>4. UNCHANGED <<chain, reloads, kind, host, tunnel, judge, action, forwarded, rows, lost, off>>
    BY <1>20 DEF Answer, origin, trail
  <2> QED BY <2>2, <2>3, <2>4 DEF TypeOK
<1>21. ASSUME NEW e \in Exchanges, AnswerFails(e) PROVE TypeOK'
  BY <1>21
  DEF TypeOK, Places, AnswerFails, origin, trail
<1>22. ASSUME NEW c \in Chains, Reload(c) PROVE TypeOK'
  <2>1. chain' \in Chains /\ reloads' \in Nat
    <3>1. chain' = c /\ reloads' = reloads + 1
      BY <1>22 DEF Reload
    <3>2. reloads \in Nat
      BY DEF TypeOK
    <3> QED BY <3>1, <3>2
  <2>2. UNCHANGED <<origin, pc, action, forwarded, client, trail>>
    BY <1>22 DEF Reload
  <2> QED BY <2>1, <2>2 DEF TypeOK, origin, trail
<1>23. CASE UNCHANGED vars
  BY <1>23
  DEF TypeOK, Places, vars, origin, trail
<1>24. ASSUME NEW e \in Exchanges, BadRequest(e) PROVE TypeOK'
  BY <1>24
  DEF TypeOK, Places, BadRequest, trail
<1> QED
  BY <1>1, <1>2, <1>3, <1>4, <1>5, <1>6, <1>7, <1>8, <1>9, <1>10, <1>11, <1>12,
     <1>13, <1>14, <1>15, <1>16, <1>17, <1>18, <1>19, <1>20, <1>21, <1>22,
     <1>23, <1>24
  DEF Next, Outer, Inner, Terminated

-----------------------------------------------------------------------------
\* The invariant holds at the start.
LEMMA InitInv == Init => ProxyInv
<1> SUFFICES ASSUME Init PROVE ProxyInv
  OBVIOUS
<1>1. TypeOK
  <2>1. chain \in Chains /\ reloads \in Nat /\ lost \subseteq Exchanges
        /\ off \subseteq Exchanges
    BY DEF Init
  <2>2. rows \in [Exchanges -> Seq({"allow", "warn", "block"})]
    <3>1. <<>> \in Seq({"allow", "warn", "block"})
      OBVIOUS
    <3>2. rows = [e \in Exchanges |-> <<>>]
      BY Zenon DEF Init
    <3> QED BY <3>1, <3>2, Zenon
  <2>3. /\ kind \in [Exchanges -> {"none", "http", "connect", "mitm", "inner"}]
        /\ pc \in [Exchanges -> Places]
        /\ host \in [Exchanges -> Hosts \cup {"none"}]
        /\ tunnel \in [Exchanges -> Exchanges]
        /\ action \in [Exchanges -> {"", "allow", "warn", "block"}]
    BY DEF Init, Places
  <2>4. client \in [Exchanges -> {"none", "established", "400", "403", "500", "502", "response"}]
    <3>1. client = [e \in Exchanges |-> "none"]
      BY Zenon DEF Init
    <3> QED BY <3>1
  <2>5. forwarded \in [Exchanges -> BOOLEAN]
    BY Zenon DEF Init
  <2>6. judge \in [Exchanges -> Chains \cup {NoChain}]
    BY Zenon DEF Init
  <2> QED BY <2>1, <2>2, <2>3, <2>4, <2>5, <2>6 DEF TypeOK
<1>2. KindFits
  BY DEF Init, KindFits, Fits
<1>3. TunnelFits
  BY DEF Init, TunnelFits, OneAtATime, Open
<1>4. RowsFit
  BY DEF Init, RowsFit
<1>5. RefusalFits
  BY DEF Init, RefusalFits, Refused
<1>6. \A e \in Exchanges : rows[e] = <<>> /\ client[e] = "none"
  BY DEF Init
<1>7. RefusedStaysInside
  <2>1. DOMAIN <<>> = {}
    OBVIOUS
  <2>2. \A e \in Exchanges : ~Refused(e)
    BY <1>6 DEF Refused
  <2> QED BY <1>6, <2>1, <2>2, Zenon DEF RefusedStaysInside
<1>8. AtMostOneRow
  <2>1. lost = {} /\ off = {}
    BY DEF Init
  <2>2. Len(<<>>) <= 1
    OBVIOUS
  <2> QED BY <1>6, <2>1, <2>2, Zenon DEF AtMostOneRow
<1>9. DecisionFits
  <2>1. \A e \in Exchanges : /\ action[e] = "" /\ tunnel[e] = e /\ rows[e] = <<>>
                             /\ judge[e] = NoChain
    BY Zenon DEF Init
  <2>2. \A h : Verdict(NoChain, h) = "allow"
    BY DEF Verdict, Violates, NoChain
  <2>3. DOMAIN <<>> = {}
    OBVIOUS
  <2> QED BY <2>1, <2>2, <2>3 DEF DecisionFits, RowAction
<1> QED BY <1>1, <1>2, <1>3, <1>4, <1>5, <1>7, <1>8, <1>9 DEF ProxyInv

\* Every step keeps the invariant.
LEMMA InvStep == ProxyInv /\ [Next]_vars => ProxyInv'
<1> SUFFICES ASSUME ProxyInv, [Next]_vars PROVE ProxyInv'
  OBVIOUS
<1> USE DEF ProxyInv
<1>1. Types
  BY DEF Types, TypeOK
<1>2. /\ rows \in [Exchanges -> Seq(Acts)] /\ lost \subseteq Exchanges
      /\ off \subseteq Exchanges
      /\ action \in [Exchanges -> {"", "allow", "warn", "block"}]
      /\ forwarded \in [Exchanges -> BOOLEAN]
      /\ host \in [Exchanges -> Hosts \cup {"none"}]
      /\ judge \in [Exchanges -> Chains \cup {NoChain}]
  BY DEF TypeOK, Acts
<1>3. chain \in Chain
  BY ProxyAssumption DEF TypeOK
<1>4. TypeOK'
  BY TypeStep
<1>5. KindFits'
  BY <1>1, KindStep
<1>6. TunnelFits'
  BY <1>1, TunnelStep
<1>7. RowsFit'
  BY <1>1, <1>2, RowsStep
<1>8. RefusalFits'
  BY <1>1, <1>2, <1>3, RefusalStep
<1>9. RefusedStaysInside'
  BY <1>1, <1>2, InsideStep
<1>10. AtMostOneRow'
  BY <1>1, <1>2, OneRowStep
<1>11. DecisionFits'
  BY <1>1, <1>2, <1>3, DecisionStep
<1> QED BY <1>4, <1>5, <1>6, <1>7, <1>8, <1>9, <1>10, <1>11

-----------------------------------------------------------------------------
\* The inductive invariant holds in every reachable state: exchanges are where
\* their kind can be, a tunnel is busy with at most one of them and down after
\* a refusal, rows are written at the end, "block" marks what was refused, and a row says
\* what was decided.
THEOREM ProxyInvCorrect == Spec => []ProxyInv
<1> QED BY InitInv, InvStep, PTL DEF Spec

\* Every variable keeps its type.
THEOREM ProxyTypeCorrect == Spec => []TypeOK
<1>1. ProxyInv => TypeOK
  BY DEF ProxyInv
<1> QED BY <1>1, ProxyInvCorrect, PTL

\* What was refused never reached the upstream, its row says "block", and no
\* other row does, whatever is reloaded or fails between the refusal and the
\* row (rejectConnect, rejectHTTP, the refusal in handleMITM).
THEOREM RefusedStaysInsideCorrect == Spec => []RefusedStaysInside
<1>1. ProxyInv => RefusedStaysInside
  BY DEF ProxyInv
<1> QED BY <1>1, ProxyInvCorrect, PTL

\* No path through the handlers audits a request twice, or both audits it and
\* loses it.
THEOREM AtMostOneRowCorrect == Spec => []AtMostOneRow
<1>1. ProxyInv => AtMostOneRow
  BY DEF ProxyInv
<1> QED BY <1>1, ProxyInvCorrect, PTL

\* A terminated tunnel serves its requests one at a time (handleMITM).
THEOREM OneAtATimeCorrect == Spec => []OneAtATime
<1>1. ProxyInv => OneAtATime
  BY DEF ProxyInv, TunnelFits
<1> QED BY <1>1, ProxyInvCorrect, PTL

\* The row says what was decided on the request, by the policy that judged it
\* or by the one that accepted its tunnel, whatever has been reloaded since.
THEOREM RowTellsDecisionCorrect == Spec => []RowTellsDecision
<1>1. ProxyInv => RowTellsDecision
  BY DEF ProxyInv, DecisionFits, RowTellsDecision
<1> QED BY <1>1, ProxyInvCorrect, PTL

\* After a refusal inside it a tunnel carries nothing more: nothing more is
\* forwarded over it, and all it does is close (handleMITM returns).
THEOREM RefusalEndsTunnelCorrect == Spec => RefusalEndsTunnel
<1> DEFINE Quiet(e, other) ==
      /\ forwarded'[other] = forwarded[other]
      /\ pc'[tunnel[e]] \in {"busy", "done"}
<1>1. ASSUME ProxyInv, [Next]_vars,
             NEW e \in Exchanges, kind[e] = "inner", Refused(e),
             NEW other \in Exchanges, tunnel[other] = tunnel[e], other # e
      PROVE  Quiet(e, other)
  <2> USE DEF Types
  <2>1. Types /\ forwarded \in [Exchanges -> BOOLEAN]
    BY <1>1 DEF ProxyInv, TypeOK
  <2>2. tunnel[e] \in Exchanges /\ kind[tunnel[e]] = "mitm"
    BY <1>1, <2>1 DEF ProxyInv, KindFits
  <2>3. pc[e] \in {"after", "done"}
    BY <1>1 DEF ProxyInv, RefusalFits
  <2>4. pc[tunnel[e]] \in {"busy", "done"}
    BY <1>1, <2>3 DEF ProxyInv, TunnelFits, OneAtATime, Open
  <2>5. pc[other] \in {"busy", "done"}
    <3>1. CASE kind[other] = "inner"
      <4>1. ~Open(other)
        BY <1>1, <2>3, <3>1 DEF ProxyInv, TunnelFits, OneAtATime, Open
      <4> QED BY <3>1, <4>1 DEF Open
    <3>2. CASE kind[other] # "inner"
      BY <1>1, <2>4, <3>2 DEF ProxyInv, KindFits
    <3> QED BY <3>1, <3>2
  <2>6. ASSUME NEW x \in Exchanges, pc[x] = "answer" PROVE tunnel[x] # tunnel[e]
    <3>1. Open(x) /\ pc[tunnel[x]] = "busy"
      BY <1>1, <2>1, <2>6 DEF ProxyInv, KindFits, Fits, TunnelFits, OneAtATime, Open
    <3>2. CASE pc[e] = "after"
      BY <1>1, <2>6, <3>1, <3>2 DEF ProxyInv, TunnelFits, OneAtATime, Open
    <3>3. CASE pc[e] = "done"
      BY <1>1, <3>1, <3>3 DEF ProxyInv, TunnelFits
    <3> QED BY <2>3, <3>2, <3>3
  <2>7. ASSUME NEW x \in Exchanges, NEW k \in {"http", "connect"}, NEW h \in Hosts, Accept(x, k, h)
        PROVE  Quiet(e, other)
    BY <2>1, <2>2, <2>4, <2>5, <2>7 DEF Accept
  <2>8. ASSUME NEW x \in Exchanges, NEW k \in {"http", "connect"}, NEW h \in Hosts, Reject(x, k, h)
        PROVE  Quiet(e, other)
    BY <2>1, <2>2, <2>4, <2>5, <2>8 DEF Reject
  <2>9. ASSUME NEW x \in Exchanges, HijackFails(x)
        PROVE  Quiet(e, other)
    BY <2>1, <2>2, <2>4, <2>5, <2>9 DEF HijackFails
  <2>10. ASSUME NEW x \in Exchanges, Establish(x)
        PROVE  Quiet(e, other)
    BY <2>1, <2>2, <2>4, <2>5, <2>10 DEF Establish
  <2>11. ASSUME NEW x \in Exchanges, ClientFails(x)
        PROVE  Quiet(e, other)
    BY <2>1, <2>2, <2>4, <2>5, <2>11 DEF ClientFails
  <2>12. ASSUME NEW x \in Exchanges, DialFails(x)
        PROVE  Quiet(e, other)
    BY <2>1, <2>2, <2>4, <2>5, <2>12 DEF DialFails
  <2>13. ASSUME NEW x \in Exchanges, Pipe(x)
        PROVE  Quiet(e, other)
    BY <2>1, <2>2, <2>4, <2>5, <2>13 DEF Pipe
  <2>14. ASSUME NEW x \in Exchanges, PipeEnds(x)
        PROVE  Quiet(e, other)
    BY <2>1, <2>2, <2>4, <2>5, <2>14 DEF PipeEnds
  <2>15. ASSUME NEW x \in Exchanges, RoundTripFails(x)
        PROVE  Quiet(e, other)
    BY <2>1, <2>2, <2>4, <2>5, <2>15 DEF RoundTripFails
  <2>16. ASSUME NEW x \in Exchanges, RoundTrip(x)
        PROVE  Quiet(e, other)
    BY <2>1, <2>2, <2>4, <2>5, <2>16 DEF RoundTrip
  <2>17. ASSUME NEW x \in Exchanges, After(x)
        PROVE  Quiet(e, other)
    BY <2>1, <2>2, <2>4, <2>5, <2>17 DEF After
  <2>18. ASSUME NEW x \in Exchanges, Serve(x)
        PROVE  Quiet(e, other)
    BY <2>1, <2>2, <2>4, <2>5, <2>18 DEF Serve
  <2>19. ASSUME NEW x \in Exchanges, TunnelEnds(x)
        PROVE  Quiet(e, other)
    BY <2>1, <2>2, <2>4, <2>5, <2>19 DEF TunnelEnds
  <2>20. ASSUME NEW x \in Exchanges, NEW c \in Exchanges, AcceptInner(c, x)
        PROVE  Quiet(e, other)
    BY <2>1, <2>2, <2>4, <2>5, <2>20 DEF AcceptInner
  <2>21. ASSUME NEW x \in Exchanges, NEW c \in Exchanges, RejectInner(c, x)
        PROVE  Quiet(e, other)
    BY <2>1, <2>2, <2>4, <2>5, <2>21 DEF RejectInner
  <2>22. ASSUME NEW x \in Exchanges, NEW c \in Exchanges, BodyFails(c, x)
        PROVE  Quiet(e, other)
    BY <2>1, <2>2, <2>4, <2>5, <2>22 DEF BodyFails
  <2>23. ASSUME NEW x \in Exchanges, ReplayFails(x)
        PROVE  Quiet(e, other)
    BY <2>1, <2>2, <2>4, <2>5, <2>23 DEF ReplayFails
  <2>24. ASSUME NEW x \in Exchanges, Replay(x)
        PROVE  Quiet(e, other)
    BY <2>1, <2>2, <2>4, <2>5, <2>24 DEF Replay
  <2>25. ASSUME NEW x \in Exchanges, LogInner(x)
        PROVE  Quiet(e, other)
    BY <2>1, <2>2, <2>4, <2>5, <2>25 DEF LogInner
  <2>26. ASSUME NEW x \in Exchanges, Answer(x)
        PROVE  Quiet(e, other)
    <3>1. forwarded' = forwarded /\ tunnel[x] # tunnel[e] /\ x # tunnel[e]
      BY <2>2, <2>4, <2>6, <2>26 DEF Answer
    <3>2. PICK next \in {"serving", "done"} :
            pc' = [pc EXCEPT ![x] = "done", ![tunnel[x]] = next]
      BY <2>26 DEF Answer
    <3> QED BY <2>1, <2>2, <2>4, <3>1, <3>2
  <2>27. ASSUME NEW x \in Exchanges, AnswerFails(x)
        PROVE  Quiet(e, other)
    BY <2>1, <2>2, <2>4, <2>5, <2>27 DEF AnswerFails
  <2>28. ASSUME NEW c \in Chains, Reload(c) PROVE Quiet(e, other)
    BY <2>4, <2>28 DEF Reload
  <2>29. CASE UNCHANGED vars
    BY <2>4, <2>29 DEF vars
  <2>30. ASSUME NEW x \in Exchanges, BadRequest(x)
        PROVE  Quiet(e, other)
    BY <2>1, <2>2, <2>4, <2>5, <2>30 DEF BadRequest
  <2> QED
    BY <1>1, <2>7, <2>8, <2>9, <2>10, <2>11, <2>12, <2>13, <2>14, <2>15, <2>16,
       <2>17, <2>18, <2>19, <2>20, <2>21, <2>22, <2>23, <2>24, <2>25, <2>26,
       <2>27, <2>28, <2>29, <2>30
    DEF Next, Outer, Inner, Terminated
<1>2. (ProxyInv /\ [Next]_vars) =>
        [\A e \in Exchanges :
           (kind[e] = "inner" /\ Refused(e)) =>
              \A other \in Exchanges :
                 (tunnel[other] = tunnel[e] /\ other # e) =>
                    /\ forwarded'[other] = forwarded[other]
                    /\ pc'[tunnel[e]] \in {"busy", "done"}]_vars
  BY <1>1
<1> QED BY <1>2, ProxyInvCorrect, PTL DEF Spec, RefusalEndsTunnel

-----------------------------------------------------------------------------
(* Every answer lands *)

\* The exchanges whose trail must be complete: those whose response is about
\* to be written, and those that are over and told their client, or reached
\* their upstream other than from inside a terminated tunnel.
Due(e) ==
  \/ pc[e] = "answer"
  \/ pc[e] = "done" /\ kind[e] # "mitm" /\ (Told(e) \/ (forwarded[e] /\ kind[e] # "inner"))

DueIsSettled == \A e \in Exchanges : Due(e) => Settled(e)

\* Before its end an exchange that was told nothing has not been forwarded
\* either, save from inside a terminated tunnel, where the answer comes last.
ForwardedFits ==
  \A e \in Exchanges :
    /\ pc[e] \in {"idle", "accepted"} => ~forwarded[e] /\ client[e] = "none"
    /\ (kind[e] = "inner" /\ pc[e] \in {"replay", "log"}) => client[e] = "none"

LandsInv == ProxyInv /\ DueIsSettled /\ ForwardedFits

\* Whatever the chain, ProcessResponse settles its exchange and unsettles none.
LEMMA ResponseSettles ==
  ASSUME NEW e \in Exchanges, ProcessResponse(e),
         rows \in [Exchanges -> Seq(Acts)], lost \subseteq Exchanges, off \subseteq Exchanges
  PROVE  /\ Settled(e)'
         /\ \A x \in Exchanges : Settled(x) => Settled(x)'
<1>1. /\ \A x \in Exchanges \ {e} :
           rows'[x] = rows[x] /\ (x \in lost' <=> x \in lost) /\ (x \in off' <=> x \in off)
      /\ \/ rows'[e] = Append(rows[e], RowAction(e)) /\ lost' = lost /\ off' = off
         \/ rows'[e] = rows[e] /\ e \in lost' /\ off' = off
         \/ rows'[e] = rows[e] /\ lost' = lost /\ e \in off'
  BY ResponseChanges
<1>2. \A a : \A q \in Seq(Acts) : Append(q, a) # <<>>
  OBVIOUS
<1>3. Settled(e)'
  <2>1. rows'[e] # <<>> \/ e \in lost' \/ e \in off'
    BY <1>1, <1>2
  <2> QED BY <2>1 DEF Settled, Recorded
<1> QED BY <1>1, <1>3 DEF Settled, Recorded

\* A step that leaves the trail alone must not make an exchange due.
LEMMA NothingFallsDue ==
  ASSUME DueIsSettled, UNCHANGED trail, \A x \in Exchanges : Due(x)' => Due(x)
  PROVE  DueIsSettled'
BY DEF DueIsSettled, Settled, Recorded, trail

\* Every step keeps what an exchange has been told, and sent, at its place.
LEMMA ForwardedStep ==
  ASSUME ProxyInv, ForwardedFits, [Next]_vars
  PROVE  ForwardedFits'
<1>1. /\ kind \in [Exchanges -> {"none", "http", "connect", "mitm", "inner"}]
      /\ pc \in [Exchanges -> Places] /\ tunnel \in [Exchanges -> Exchanges]
      /\ client \in [Exchanges -> {"none", "established", "400", "403", "500", "502", "response"}]
      /\ forwarded \in [Exchanges -> BOOLEAN]
  BY DEF ProxyInv, TypeOK
<1>2. KindFits
  BY DEF ProxyInv
<1>3. ASSUME NEW e \in Exchanges, NEW k \in {"http", "connect"}, NEW h \in Hosts,
             Accept(e, k, h) \/ Reject(e, k, h)
      PROVE  ForwardedFits'
  <2>1. CASE Accept(e, k, h)
    <3>1. /\ pc[e] = "idle" /\ kind' = [kind EXCEPT ![e] = k]
          /\ UNCHANGED <<forwarded, client>>
      BY <2>1 DEF Accept
    <3>2. PICK to \in {"roundtrip", "accepted"} : pc' = [pc EXCEPT ![e] = to]
      BY <2>1 DEF Accept
    <3> QED BY <1>1, <3>1, <3>2 DEF ForwardedFits
  <2>2. CASE Reject(e, k, h)
    BY <1>1, <2>2 DEF Reject, ForwardedFits
  <2> QED BY <1>3, <2>1, <2>2
<1>4. ASSUME NEW e \in Exchanges, BadRequest(e)
      PROVE  ForwardedFits'
  BY <1>1, <1>4 DEF BadRequest, ForwardedFits
<1>5. ASSUME NEW e \in Exchanges, HijackFails(e) \/ Establish(e) \/ ClientFails(e)
      PROVE  ForwardedFits'
  <2>1. PICK to \in {"done", "handshake", "dial", "after"} : pc' = [pc EXCEPT ![e] = to]
    BY <1>5 DEF HijackFails, Establish, ClientFails
  <2>2. kind' = kind /\ forwarded' = forwarded
    BY <1>5 DEF HijackFails, Establish, ClientFails, origin
  <2>3. \A x \in Exchanges \ {e} : client'[x] = client[x]
    BY <1>1, <1>5 DEF HijackFails, Establish, ClientFails
  <2> QED BY <1>1, <2>1, <2>2, <2>3 DEF ForwardedFits
<1>6. ASSUME NEW e \in Exchanges, DialFails(e) \/ Pipe(e) \/ PipeEnds(e)
                                  \/ RoundTripFails(e) \/ RoundTrip(e)
      PROVE  ForwardedFits'
  <2>1. PICK to \in {"after", "piping"} : pc' = [pc EXCEPT ![e] = to]
    BY <1>6 DEF DialFails, Pipe, PipeEnds, RoundTripFails, RoundTrip
  <2>2. kind' = kind
    BY <1>6 DEF DialFails, Pipe, PipeEnds, RoundTripFails, RoundTrip, origin
  <2>3. \A x \in Exchanges \ {e} : client'[x] = client[x] /\ forwarded'[x] = forwarded[x]
    BY <1>1, <1>6 DEF DialFails, Pipe, PipeEnds, RoundTripFails, RoundTrip
  <2> QED BY <1>1, <2>1, <2>2, <2>3 DEF ForwardedFits
<1>7. ASSUME NEW e \in Exchanges, After(e)
      PROVE  ForwardedFits'
  BY <1>1, <1>7 DEF After, ForwardedFits, origin
<1>8. ASSUME NEW c \in Exchanges, Serve(c) \/ TunnelEnds(c)
      PROVE  ForwardedFits'
  <2>1. CASE Serve(c)
    BY <1>1, <2>1 DEF Serve, ForwardedFits
  <2>2. CASE TunnelEnds(c)
    BY <1>1, <2>2 DEF TunnelEnds, ForwardedFits, origin
  <2> QED BY <1>8, <2>1, <2>2
<1>9. ASSUME NEW c \in Exchanges, NEW e \in Exchanges, AcceptInner(c, e)
      PROVE  ForwardedFits'
  <2>1. /\ pc[e] = "idle" /\ kind' = [kind EXCEPT ![e] = "inner"]
        /\ pc' = [pc EXCEPT ![e] = "replay", ![c] = "busy"] /\ pc[c] = "serving"
        /\ UNCHANGED <<forwarded, client>>
    BY <1>9 DEF AcceptInner
  <2> QED BY <1>1, <2>1 DEF ForwardedFits
<1>10. ASSUME NEW c \in Exchanges, NEW e \in Exchanges, RejectInner(c, e) \/ BodyFails(c, e)
       PROVE  ForwardedFits'
  <2>1. /\ kind' = [kind EXCEPT ![e] = "inner"] /\ forwarded' = forwarded
        /\ \A x \in Exchanges \ {e} : client'[x] = client[x]
    BY <1>1, <1>10 DEF RejectInner, BodyFails
  <2>2. PICK to \in {"after", "done"}, wait \in {"busy", "done"} :
          pc' = [pc EXCEPT ![e] = to, ![c] = wait]
    BY <1>10 DEF RejectInner, BodyFails
  <2>3. pc[c] = "serving" /\ pc[e] = "idle"
    BY <1>10 DEF RejectInner, BodyFails
  <2> QED BY <1>1, <2>1, <2>2, <2>3 DEF ForwardedFits
<1>11. ASSUME NEW e \in Exchanges, ReplayFails(e) \/ Replay(e)
       PROVE  ForwardedFits'
  <2>1. kind' = kind /\ client' = client /\ pc[e] = "replay"
    BY <1>11 DEF ReplayFails, Replay, origin
  <2>2. \A x \in Exchanges \ {e} : forwarded'[x] = forwarded[x]
    BY <1>1, <1>11 DEF ReplayFails, Replay
  <2>3. \/ pc' = [pc EXCEPT ![e] = "done", ![tunnel[e]] = "done"]
        \/ pc' = [pc EXCEPT ![e] = "log"]
    BY <1>11 DEF ReplayFails, Replay
  <2> QED BY <1>1, <2>1, <2>2, <2>3 DEF ForwardedFits
<1>12. ASSUME NEW e \in Exchanges, LogInner(e)
       PROVE  ForwardedFits'
  BY <1>1, <1>12 DEF LogInner, ForwardedFits, origin
<1>13. ASSUME NEW e \in Exchanges, Answer(e) \/ AnswerFails(e)
       PROVE  ForwardedFits'
  <2>1. kind' = kind /\ forwarded' = forwarded /\ pc[e] = "answer"
    BY <1>13 DEF Answer, AnswerFails, origin
  <2>2. \A x \in Exchanges \ {e} : client'[x] = client[x]
    BY <1>1, <1>13 DEF Answer, AnswerFails
  <2>3. PICK next \in {"serving", "done"} : pc' = [pc EXCEPT ![e] = "done", ![tunnel[e]] = next]
    BY <1>13 DEF Answer, AnswerFails
  <2> QED BY <1>1, <2>1, <2>2, <2>3 DEF ForwardedFits
<1>14. ASSUME UNCHANGED <<kind, pc, client, forwarded>>
       PROVE  ForwardedFits'
  BY <1>14 DEF ForwardedFits
<1>15. ASSUME NEW c \in Chains, Reload(c)
       PROVE  ForwardedFits'
  BY <1>14, <1>15 DEF Reload, origin
<1>16. CASE UNCHANGED vars
  BY <1>14, <1>16 DEF vars, origin
<1> QED
  BY <1>3, <1>4, <1>5, <1>6, <1>7, <1>8, <1>9, <1>10, <1>11, <1>12, <1>13, <1>15, <1>16
  DEF Next, Outer, Inner, Terminated

\* Every step keeps what is due settled.
LEMMA LandsStep ==
  ASSUME LandsInv, [Next]_vars
  PROVE  DueIsSettled'
<1> USE DEF LandsInv
<1>1. /\ kind \in [Exchanges -> {"none", "http", "connect", "mitm", "inner"}]
      /\ pc \in [Exchanges -> Places] /\ tunnel \in [Exchanges -> Exchanges]
      /\ client \in [Exchanges -> {"none", "established", "400", "403", "500", "502", "response"}]
      /\ forwarded \in [Exchanges -> BOOLEAN]
      /\ rows \in [Exchanges -> Seq(Acts)] /\ lost \subseteq Exchanges /\ off \subseteq Exchanges
  BY DEF ProxyInv, TypeOK, Acts
<1>2. KindFits
  BY DEF ProxyInv
<1>3. ASSUME NEW e \in Exchanges, NEW k \in {"http", "connect"}, NEW h \in Hosts,
             Accept(e, k, h) \/ Reject(e, k, h)
      PROVE  DueIsSettled'
  <2>1. UNCHANGED trail /\ forwarded' = forwarded
    BY <1>3 DEF Accept, Reject
  <2>2. /\ kind' = [kind EXCEPT ![e] = k]
        /\ \A x \in Exchanges \ {e} : client'[x] = client[x]
    BY <1>1, <1>3 DEF Accept, Reject
  <2>3. PICK to \in {"roundtrip", "accepted", "after"} : pc' = [pc EXCEPT ![e] = to]
    BY <1>3 DEF Accept, Reject
  <2>4. \A x \in Exchanges : Due(x)' => Due(x)
    BY <1>1, <2>1, <2>2, <2>3 DEF Due, Told
  <2> QED BY <2>1, <2>4, NothingFallsDue
<1>4. ASSUME NEW e \in Exchanges, Establish(e) \/ ClientFails(e) \/ DialFails(e) \/ Pipe(e)
                                  \/ PipeEnds(e) \/ RoundTripFails(e) \/ RoundTrip(e)
      PROVE  DueIsSettled'
  <2>1. UNCHANGED <<kind, trail>>
    BY <1>4 DEF Establish, ClientFails, DialFails, Pipe, PipeEnds, RoundTripFails, RoundTrip, origin
  <2>2. PICK to \in {"handshake", "dial", "after", "piping"} : pc' = [pc EXCEPT ![e] = to]
    BY <1>4 DEF Establish, ClientFails, DialFails, Pipe, PipeEnds, RoundTripFails, RoundTrip
  <2>3. \A x \in Exchanges \ {e} : client'[x] = client[x] /\ forwarded'[x] = forwarded[x]
    BY <1>1, <1>4
    DEF Establish, ClientFails, DialFails, Pipe, PipeEnds, RoundTripFails, RoundTrip
  <2>4. \A x \in Exchanges : Due(x)' => Due(x)
    BY <1>1, <2>1, <2>2, <2>3 DEF Due, Told
  <2> QED BY <2>1, <2>4, NothingFallsDue
<1>5. ASSUME NEW e \in Exchanges, After(e)
      PROVE  DueIsSettled'
  <2>1. /\ pc[e] = "after" /\ ProcessResponse(e)
        /\ UNCHANGED <<kind, client, forwarded>>
        /\ pc' = [pc EXCEPT ![e] = "done", ![tunnel[e]] = "done"]
    BY <1>5 DEF After, origin
  <2>2. Settled(e)' /\ \A x \in Exchanges : Settled(x) => Settled(x)'
    BY <1>1, <2>1, ResponseSettles
  <2>3. tunnel[e] = e \/ kind[tunnel[e]] = "mitm"
    BY <1>2 DEF KindFits
  <2>4. \A x \in Exchanges \ {e, tunnel[e]} : pc'[x] = pc[x]
    BY <1>1, <2>1
  <2>5. \A x \in Exchanges : Due(x)' => x = e \/ Due(x)
    BY <1>1, <2>1, <2>3, <2>4 DEF Due, Told
  <2> QED BY <2>2, <2>5 DEF DueIsSettled
<1>6. ASSUME NEW c \in Exchanges, Serve(c) \/ TunnelEnds(c)
      PROVE  DueIsSettled'
  <2>1. UNCHANGED <<trail, client, forwarded>>
    BY <1>6 DEF Serve, TunnelEnds
  <2>2. pc[c] = "serving" => kind[c] = "mitm"
    BY <1>2 DEF KindFits, Fits
  <2>3. \A x \in Exchanges : Due(x)' => Due(x)
    <3>1. CASE Serve(c)
      BY <1>1, <2>1, <3>1 DEF Serve, Due, Told
    <3>2. CASE TunnelEnds(c)
      BY <1>1, <2>1, <2>2, <3>2 DEF TunnelEnds, Due, Told, origin
    <3> QED BY <1>6, <3>1, <3>2
  <2> QED BY <2>1, <2>3, NothingFallsDue
<1>7. ASSUME NEW c \in Exchanges, NEW e \in Exchanges, AcceptInner(c, e) \/ RejectInner(c, e)
      PROVE  DueIsSettled'
  <2>1. /\ UNCHANGED <<trail, forwarded>> /\ kind' = [kind EXCEPT ![e] = "inner"]
        /\ pc[c] = "serving" /\ pc[e] = "idle"
    BY <1>7 DEF AcceptInner, RejectInner
  <2>2. PICK to \in {"replay", "after"} : pc' = [pc EXCEPT ![e] = to, ![c] = "busy"]
    BY <1>7 DEF AcceptInner, RejectInner
  <2>3. \A x \in Exchanges \ {e} : client'[x] = client[x]
    BY <1>1, <1>7 DEF AcceptInner, RejectInner
  <2>4. \A x \in Exchanges : Due(x)' => Due(x)
    BY <1>1, <2>1, <2>2, <2>3 DEF Due, Told
  <2> QED BY <2>1, <2>4, NothingFallsDue
<1>8. ASSUME NEW e \in Exchanges, Replay(e)
      PROVE  DueIsSettled'
  <2>1. /\ UNCHANGED <<kind, client, trail>> /\ pc' = [pc EXCEPT ![e] = "log"]
        /\ forwarded' = [forwarded EXCEPT ![e] = TRUE]
    BY <1>8 DEF Replay, origin
  <2>2. \A x \in Exchanges : Due(x)' => Due(x)
    BY <1>1, <2>1 DEF Due, Told
  <2> QED BY <2>1, <2>2, NothingFallsDue
<1>9. ASSUME NEW e \in Exchanges, LogInner(e)
      PROVE  DueIsSettled'
  <2>1. /\ ProcessResponse(e) /\ UNCHANGED <<kind, client, forwarded>>
        /\ pc' = [pc EXCEPT ![e] = "answer"]
    BY <1>9 DEF LogInner, origin
  <2>2. Settled(e)' /\ \A x \in Exchanges : Settled(x) => Settled(x)'
    BY <1>1, <2>1, ResponseSettles
  <2>3. \A x \in Exchanges : Due(x)' => x = e \/ Due(x)
    BY <1>1, <2>1 DEF Due, Told
  <2> QED BY <2>2, <2>3 DEF DueIsSettled
<1>10. ASSUME NEW e \in Exchanges, Answer(e) \/ AnswerFails(e)
       PROVE  DueIsSettled'
  <2>1. UNCHANGED <<kind, forwarded, trail>> /\ pc[e] = "answer"
    BY <1>10 DEF Answer, AnswerFails, origin
  <2>2. PICK next \in {"serving", "done"} : pc' = [pc EXCEPT ![e] = "done", ![tunnel[e]] = next]
    BY <1>10 DEF Answer, AnswerFails
  <2>3. kind[tunnel[e]] = "mitm"
    BY <1>2, <2>1 DEF KindFits, Fits
  <2>4. \A x \in Exchanges \ {e, tunnel[e]} : pc'[x] = pc[x]
    BY <1>1, <2>2
  <2>5. pc'[tunnel[e]] # "answer" /\ \A x \in Exchanges \ {e} : client'[x] = client[x]
    BY <1>1, <1>10, <2>2 DEF Answer, AnswerFails
  <2>6. \A x \in Exchanges : Due(x)' => Due(x)
    BY <1>1, <2>1, <2>3, <2>4, <2>5 DEF Due, Told
  <2> QED BY <2>1, <2>6, NothingFallsDue
<1>11. ASSUME UNCHANGED <<kind, pc, client, forwarded, trail>>
       PROVE  DueIsSettled'
  BY <1>11, NothingFallsDue DEF Due, Told
<1>12. ASSUME NEW c \in Chains, Reload(c)
       PROVE  DueIsSettled'
  BY <1>11, <1>12 DEF Reload, origin
<1>13. CASE UNCHANGED vars
  BY <1>11, <1>13 DEF vars, origin
<1>14. ASSUME NEW e \in Exchanges, BadRequest(e)
       PROVE  DueIsSettled'
  <2>1. /\ UNCHANGED <<forwarded, trail>> /\ pc[e] = "idle"
        /\ pc' = [pc EXCEPT ![e] = "done"] /\ kind' = [kind EXCEPT ![e] = "http"]
        /\ client' = [client EXCEPT ![e] = "400"]
    BY <1>14 DEF BadRequest
  <2>2. \A x \in Exchanges : Due(x)' => Due(x)
    BY <1>1, <2>1 DEF Due, Told, ForwardedFits
  <2> QED BY <2>1, <2>2, NothingFallsDue
<1>15. ASSUME NEW e \in Exchanges, HijackFails(e)
       PROVE  DueIsSettled'
  <2>1. /\ UNCHANGED <<kind, forwarded, trail>> /\ pc[e] = "accepted"
        /\ pc' = [pc EXCEPT ![e] = "done"]
    BY <1>15 DEF HijackFails, origin
  <2>2. PICK answer \in {"500", "none"} : client' = [client EXCEPT ![e] = answer]
    BY <1>15 DEF HijackFails
  <2>3. \A x \in Exchanges : Due(x)' => Due(x)
    BY <1>1, <2>1, <2>2 DEF Due, Told, ForwardedFits
  <2> QED BY <2>1, <2>3, NothingFallsDue
<1>16. ASSUME NEW c \in Exchanges, NEW e \in Exchanges, BodyFails(c, e)
       PROVE  DueIsSettled'
  <2>1. /\ UNCHANGED <<client, forwarded, trail>> /\ pc[c] = "serving" /\ pc[e] = "idle"
        /\ kind' = [kind EXCEPT ![e] = "inner"]
        /\ pc' = [pc EXCEPT ![e] = "done", ![c] = "done"]
    BY <1>16 DEF BodyFails
  <2>2. kind[c] = "mitm" /\ c # e
    BY <1>2, <2>1 DEF KindFits, Fits
  <2>3. \A x \in Exchanges : Due(x)' => Due(x)
    BY <1>1, <2>1, <2>2 DEF Due, Told, ForwardedFits
  <2> QED BY <2>1, <2>3, NothingFallsDue
<1>17. ASSUME NEW e \in Exchanges, ReplayFails(e)
       PROVE  DueIsSettled'
  <2>1. /\ UNCHANGED <<kind, client, trail>> /\ pc[e] = "replay"
        /\ pc' = [pc EXCEPT ![e] = "done", ![tunnel[e]] = "done"]
    BY <1>17 DEF ReplayFails, origin
  <2>2. \A x \in Exchanges \ {e} : forwarded'[x] = forwarded[x]
    BY <1>1, <1>17 DEF ReplayFails
  <2>3. kind[e] = "inner" /\ kind[tunnel[e]] = "mitm"
    BY <1>2, <2>1 DEF KindFits, Fits
  <2>4. \A x \in Exchanges : Due(x)' => Due(x)
    BY <1>1, <2>1, <2>2, <2>3 DEF Due, Told, ForwardedFits
  <2> QED BY <2>1, <2>4, NothingFallsDue
<1>18. CASE Next
  <2>1. ASSUME NEW e \in Exchanges, Outer(e) PROVE DueIsSettled'
    BY <1>3, <1>4, <1>5, <1>14, <1>15, <2>1 DEF Outer
  <2>2. ASSUME NEW e \in Exchanges, Inner(e) PROVE DueIsSettled'
    BY <1>6, <1>7, <1>8, <1>9, <1>10, <1>16, <1>17, <2>2 DEF Inner
  <2> QED BY <1>12, <1>13, <1>18, <2>1, <2>2 DEF Next, Terminated
<1> QED BY <1>13, <1>18

\* Whatever configurations, faults and reloads meet: a client that was told how
\* its request went, and an upstream that a plain request or a tunnel reached,
\* leave a row, a reported loss, or met a chain without audit log.
THEOREM EveryAnswerLandsCorrect == Spec => []EveryAnswerLands
<1>1. Init => LandsInv
  <2>1. Init => DueIsSettled
    BY DEF Init, DueIsSettled, Due
  <2>2. Init => ForwardedFits
    BY DEF Init, ForwardedFits
  <2> QED BY <2>1, <2>2, InitInv DEF LandsInv
<1>2. LandsInv /\ [Next]_vars => LandsInv'
  <2>1. LandsInv /\ [Next]_vars => DueIsSettled'
    BY LandsStep
  <2>2. LandsInv /\ [Next]_vars => ProxyInv'
    BY InvStep DEF LandsInv
  <2>3. LandsInv /\ [Next]_vars => ForwardedFits'
    BY ForwardedStep DEF LandsInv
  <2> QED BY <2>1, <2>2, <2>3 DEF LandsInv
<1>3. LandsInv => EveryAnswerLands
  BY DEF LandsInv, DueIsSettled, Due, EveryAnswerLands
<1> QED BY <1>1, <1>2, <1>3, PTL DEF Spec
=============================================================================
