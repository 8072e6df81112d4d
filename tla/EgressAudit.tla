----------------------------- MODULE EgressAudit -----------------------------
(***************************************************************************)
(* The egress audit pipeline: request handlers that hash-chain one row     *)
(* each (EgressLogMiddleware.ProcessResponse, HashChain), the bounded      *)
(* queue and the single writer goroutine that persist the rows (LogWriter),*)
(* the SQLite tables they end in, and the life of the process around them: *)
(* start with a retention sweep, LogWriter.Close, exit, crash, restart.    *)
(*                                                                         *)
(* A request is one call of ProcessResponse.  Its audit row is identified  *)
(* by the request, for the fields of a row (timestamp in nanoseconds,      *)
(* correlation id, destination, ...) are the request's own.                *)
(***************************************************************************)
EXTENDS EgressStore

CONSTANTS
  Requests,     \* the requests whose rows the trail must hold
  BufferSize,   \* capacity of LogWriter.writeCh
  Retries,      \* insert attempts per row (LogWriterOptions.Retries)
  PolicyModes,  \* the policy_mode values the chain is built with; SIGHUP may
                \* rebuild it with another, so both may be in use
  \* The environment of an instance.
  MaxInFlight,  \* request handlers running at one time
  MaxBoots,     \* process starts (bound)
  MaxPurges,    \* retention sweeps that find rows to delete (bound)
  Faults        \* what may go wrong, among FaultKinds

FaultKinds == { "cancel",      \* a request's context is cancelled
                "insert",      \* an INSERT into egress_logs fails
                "crash",       \* the process dies without LogWriter.Close
                "early_return",\* proxy mode: main does not wait for the stopper
                "purge_all" }  \* a sweep finds every row expired

ASSUME AuditAssumption ==
  /\ BufferSize \in Nat \ {0}
  /\ Retries \in Nat \ {0}
  /\ PolicyModes \subseteq {"warn", "block"}
  /\ MaxInFlight \in Nat
  /\ MaxBoots \in Nat
  /\ MaxPurges \in Nat
  /\ Faults \subseteq FaultKinds

VARIABLES
  \* the SQLite file
  rows,       \* egress_logs
  lastRowId,  \* its AUTOINCREMENT counter
  anchors,    \* egress_log_anchors, in id order
  \* the process
  phase,      \* "down", "up", "closing" (done closed), "drained" (writer gone)
  tail,       \* HashChain.prevHash
  queue,      \* LogWriter.writeCh
  hand,       \* the row handleJob works on: <<>> or <<request>>
  attempt,    \* failed attempts of insertWithRetry on it
  \* one handler per request
  pc,         \* where it is, or how it ended
  mode,       \* policy_mode of the chain instance that logs it
  ts,         \* req.StartedAt
  prev,       \* PrevHash of its row
  ack,        \* its ackCh: "none", "ok", "err"
  \* the time, the bound, and history no action reads
  clock,      \* the time: requests begun so far
  boots,      \* process starts so far
  computed,   \* this process's ComputeRow calls, in order
  sent,       \* this process's sends on writeCh, in order
  overtaken,  \* rows hashed before one that was sent before them
  dropped,    \* rows the writer gave up on
  purged      \* requests whose rows a retention sweep deleted

stored  == <<rows, lastRowId, anchors, purged>>
writer  == <<queue, hand, attempt>>
history == <<clock, boots, computed, sent, overtaken, dropped>>
vars    == <<stored, phase, tail, writer, pc, mode, ts, prev, ack, history>>

-----------------------------------------------------------------------------
Active   == {"inflight", "computed", "sending", "waiting"}
Finished == {"accepted", "stored", "failed", "closed", "canceled", "dead"}

InFlight == {r \in Requests : pc[r] \in Active}

\* The requests in a sequence.
In(seq) == {seq[i] : i \in DOMAIN seq}

\* The requests hashed before r by this process.
HashedBefore(r) ==
  {computed[i] : i \in {k \in DOMAIN computed : \E j \in DOMAIN computed : k < j /\ computed[j] = r}}

\* The requests with a row in egress_logs.
Stored == {row.req : row \in rows}

\* The egress_logs row of a request, as InsertEgressLog stores it.
RowOf(r, id) ==
  [id |-> id, req |-> r, prev |-> prev[r], hash |-> Digest(prev[r], r), ts |-> ts[r]]

Init ==
  /\ rows = {} /\ lastRowId = 0 /\ anchors = <<>> /\ purged = {}
  /\ phase = "down"
  /\ tail = NoHash
  /\ queue = <<>> /\ hand = <<>> /\ attempt = 0
  /\ pc = [r \in Requests |-> "idle"]
  /\ mode = [r \in Requests |-> "none"]
  /\ ts = [r \in Requests |-> 0]
  /\ prev = [r \in Requests |-> NoHash]
  /\ ack = [r \in Requests |-> "none"]
  /\ clock = 0 /\ boots = 0
  /\ computed = <<>> /\ sent = <<>> /\ overtaken = {} /\ dropped = {}

-----------------------------------------------------------------------------
(* Request handlers *)

\* A handler accepts a request and stamps it.  Established tunnels carry new
\* requests after shutdown has begun, so only a dead process refuses.
Begin(r) ==
  /\ phase # "down"
  /\ pc[r] = "idle"
  /\ Cardinality(InFlight) < MaxInFlight
  /\ pc' = [pc EXCEPT ![r] = "inflight"]
  /\ ts' = [ts EXCEPT ![r] = clock]
  /\ clock' = clock + 1
  /\ UNCHANGED <<stored, phase, tail, writer, mode, prev, ack, boots, computed, sent,
                 overtaken, dropped>>

\* ProcessResponse up to and including HashChain.ComputeRow.
ComputeRow(r, m) ==
  /\ pc[r] = "inflight"
  /\ pc' = [pc EXCEPT ![r] = "computed"]
  /\ mode' = [mode EXCEPT ![r] = m]
  /\ prev' = [prev EXCEPT ![r] = tail]
  /\ tail' = Digest(tail, r)
  /\ computed' = Append(computed, r)
  /\ UNCHANGED <<stored, phase, writer, ts, ack, clock, boots, sent, overtaken, dropped>>

\* The first select of Enqueue and EnqueueSync: refuse when done is closed.
CheckDone(r) ==
  /\ pc[r] = "computed"
  /\ pc' = [pc EXCEPT ![r] = IF phase = "up" THEN "sending" ELSE "closed"]
  /\ UNCHANGED <<stored, phase, tail, writer, mode, ts, prev, ack, history>>

\* The second select, send ready.  Go picks any ready case, so the send may
\* win although done is closed, and even after the writer has gone.
Send(r) ==
  /\ pc[r] = "sending"
  /\ Len(queue) < BufferSize
  /\ queue' = Append(queue, r)
  /\ sent' = Append(sent, r)
  /\ overtaken' = overtaken \cup (HashedBefore(r) \ In(sent))
  /\ pc' = [pc EXCEPT ![r] = IF mode[r] = "block" THEN "waiting" ELSE "accepted"]
  /\ UNCHANGED <<stored, phase, tail, hand, attempt, mode, ts, prev, ack,
                 clock, boots, computed, dropped>>

\* The second select, done ready.
RefuseClosed(r) ==
  /\ pc[r] = "sending"
  /\ phase \in {"closing", "drained"}
  /\ pc' = [pc EXCEPT ![r] = "closed"]
  /\ UNCHANGED <<stored, phase, tail, writer, mode, ts, prev, ack, history>>

\* The second select, or EnqueueSync's wait, with ctx.Done ready.
Cancel(r) ==
  /\ "cancel" \in Faults
  /\ pc[r] \in {"sending", "waiting"}
  /\ pc' = [pc EXCEPT ![r] = "canceled"]
  /\ UNCHANGED <<stored, phase, tail, writer, mode, ts, prev, ack, history>>

\* EnqueueSync receives the result of the write.
ReceiveAck(r) ==
  /\ pc[r] = "waiting"
  /\ ack[r] # "none"
  /\ pc' = [pc EXCEPT ![r] = IF ack[r] = "ok" THEN "stored" ELSE "failed"]
  /\ UNCHANGED <<stored, phase, tail, writer, mode, ts, prev, ack, history>>

-----------------------------------------------------------------------------
(* The writer goroutine *)

\* Fault: the writer takes the newest row of the buffer.
Receive_Newest ==
  /\ phase \in {"up", "closing"}
  /\ hand = <<>> /\ queue # <<>>
  /\ hand' = <<queue[Len(queue)]>>
  /\ queue' = SubSeq(queue, 1, Len(queue) - 1)
  /\ UNCHANGED <<stored, phase, tail, attempt, pc, mode, ts, prev, ack, history>>

\* Either receive of writer(): the main loop's or the drain loop's.
Receive ==
  /\ phase \in {"up", "closing"}
  /\ hand = <<>> /\ queue # <<>>
  /\ hand' = <<Head(queue)>>
  /\ queue' = Tail(queue)
  /\ UNCHANGED <<stored, phase, tail, attempt, pc, mode, ts, prev, ack, history>>

\* Fault: every job is answered with a success.
Finish_AlwaysOk(r, result) ==
  /\ ack' = IF mode[r] = "block" THEN [ack EXCEPT ![r] = "ok"] ELSE ack
  /\ hand' = <<>>
  /\ attempt' = 0

\* Fault: a failed job is not answered.
Finish_SilentFailure(r, result) ==
  /\ ack' = IF mode[r] = "block" /\ result = "ok" THEN [ack EXCEPT ![r] = result] ELSE ack
  /\ hand' = <<>>
  /\ attempt' = 0

\* handleJob answers a job that carries an ackCh and is done with the row.
Finish(r, result) ==
  /\ ack' = IF mode[r] = "block" THEN [ack EXCEPT ![r] = result] ELSE ack
  /\ hand' = <<>>
  /\ attempt' = 0

\* Fault: the loop of insertWithRetry goes on after a success.
InsertOk_Again ==
  /\ hand # <<>>
  /\ rows' = rows \cup {RowOf(hand[1], lastRowId + 1)}
  /\ lastRowId' = lastRowId + 1
  /\ attempt' = (attempt + 1) % Retries
  /\ hand' = IF attempt + 1 = Retries THEN <<>> ELSE hand
  /\ UNCHANGED <<anchors, purged, phase, tail, queue, pc, mode, ts, prev, ack, history>>

\* insertWithRetry: InsertEgressLog succeeds.
InsertOk ==
  /\ hand # <<>>
  /\ rows' = rows \cup {RowOf(hand[1], lastRowId + 1)}
  /\ lastRowId' = lastRowId + 1
  /\ Finish(hand[1], "ok")
  /\ UNCHANGED <<anchors, purged, phase, tail, queue, pc, mode, ts, prev, history>>

\* insertWithRetry: an attempt fails and another is left.
InsertRetry ==
  /\ "insert" \in Faults
  /\ hand # <<>>
  /\ attempt + 1 < Retries
  /\ attempt' = attempt + 1
  /\ UNCHANGED <<stored, phase, tail, queue, hand, pc, mode, ts, prev, ack, history>>

\* insertWithRetry: the last attempt fails; handleJob counts it and moves on.
GiveUp ==
  /\ "insert" \in Faults
  /\ hand # <<>>
  /\ attempt + 1 = Retries
  /\ dropped' = dropped \cup {hand[1]}
  /\ Finish(hand[1], "err")
  /\ UNCHANGED <<stored, phase, tail, queue, pc, mode, ts, prev, clock, boots, computed,
                 sent, overtaken>>

\* LogWriter.Close closes done.  It is called once srv.Shutdown has returned,
\* which neither waits for hijacked tunnels nor beyond its timeout: requests
\* may be anywhere.
CloseWriter ==
  /\ phase = "up"
  /\ phase' = "closing"
  /\ UNCHANGED <<stored, tail, writer, pc, mode, ts, prev, ack, history>>

\* Fault: the writer returns without the drain loop.
WriterReturns_NoDrain ==
  /\ phase = "closing"
  /\ hand = <<>>
  /\ phase' = "drained"
  /\ UNCHANGED <<stored, tail, writer, pc, mode, ts, prev, ack, history>>

\* writer() finds done closed and writeCh empty, and returns.
WriterReturns ==
  /\ phase = "closing"
  /\ hand = <<>> /\ queue = <<>>
  /\ phase' = "drained"
  /\ UNCHANGED <<stored, tail, writer, pc, mode, ts, prev, ack, history>>

-----------------------------------------------------------------------------
(* The process *)

\* Everything but the database file is lost.
Die ==
  /\ phase' = "down"
  /\ tail' = NoHash
  /\ queue' = <<>> /\ hand' = <<>> /\ attempt' = 0
  /\ pc' = [r \in Requests |-> IF pc[r] \in Active THEN "dead" ELSE pc[r]]
  /\ ack' = [r \in Requests |-> "none"]
  /\ UNCHANGED <<stored, mode, ts, prev, history>>

\* The stopper has returned and main exits.
Exit == phase = "drained" /\ Die

Crash == "crash" \in Faults /\ phase # "down" /\ Die

\* runProxy returns as soon as the ingress server's listener has stopped,
\* wherever the goroutine that shuts the servers down and then calls the
\* egress stopper has got to.
ReturnEarly == "early_return" \in Faults /\ phase # "down" /\ Die

\* What a sweep may find: the bounds of the instance on retention.
SweepAllowed(cutoff) ==
  \/ OlderThan(rows, cutoff) = {}
  \/ /\ Len(anchors) < MaxPurges
     /\ OlderThan(rows, cutoff) # rows \/ "purge_all" \in Faults

\* Process start: PurgeEgress, then NewHashChain reads the newest hash, then
\* NewLogWriter.  A cutoff of 0 is retention off or a sweep that failed.
Boot(cutoff) ==
  /\ phase = "down"
  /\ boots < MaxBoots
  /\ SweepAllowed(cutoff)
  /\ rows' = PurgedRows(rows, cutoff)
  /\ anchors' = PurgedAnchors(rows, anchors, cutoff)
  /\ tail' = LastEgressRowHash(rows', anchors')
  /\ phase' = "up"
  /\ boots' = boots + 1
  /\ computed' = <<>> /\ sent' = <<>>
  /\ purged' = purged \cup {row.req : row \in OlderThan(rows, cutoff)}
  /\ UNCHANGED <<lastRowId, writer, pc, mode, ts, prev, ack, clock, overtaken, dropped>>

\* The bounds are reached and nothing is left to do.
Terminated ==
  /\ phase = "down"
  /\ boots = MaxBoots
  /\ UNCHANGED vars

Handler(r) ==
  \/ Begin(r)
  \/ \E m \in PolicyModes : ComputeRow(r, m)
  \/ CheckDone(r)
  \/ Send(r)
  \/ RefuseClosed(r)
  \/ Cancel(r)
  \/ ReceiveAck(r)

Writer == Receive \/ InsertOk \/ InsertRetry \/ GiveUp \/ WriterReturns

Process ==
  \/ CloseWriter
  \/ Exit
  \/ Crash
  \/ ReturnEarly
  \/ \E cutoff \in 0..clock : Boot(cutoff)

Next ==
  \/ \E r \in Requests : Handler(r)
  \/ Writer
  \/ Process
  \/ Terminated

Spec == Init /\ [][Next]_vars

\* The Go scheduler runs every goroutine that can run: the writer keeps
\* writing (an INSERT returns), a handler past its upstream call goes on, and
\* a process whose writer has drained exits.  Agents, contexts, crashes,
\* signals and restarts owe nothing.
Fairness ==
  /\ WF_vars(Writer)
  /\ WF_vars(Exit)
  /\ \A r \in Requests :
       /\ WF_vars(\E m \in PolicyModes : ComputeRow(r, m))
       /\ WF_vars(CheckDone(r))
       /\ WF_vars(Send(r) \/ RefuseClosed(r))
       /\ WF_vars(ReceiveAck(r))

FairSpec == Spec /\ Fairness

-----------------------------------------------------------------------------
(* Properties *)

Hash == Seq(Requests)

Row == [id : Nat \ {0}, req : Requests, prev : Hash, hash : Hash, ts : Nat]

Anchor == [purgedUpTo : Nat \ {0}, purgedCount : Nat, chainHash : Hash,
           nextRowId : Nat \cup {NoRowId}]

\* Every variable has its type, the channel never exceeds its capacity, row
\* ids are distinct and stay below the AUTOINCREMENT counter.
TypeOK ==
  /\ rows \subseteq Row /\ IsFiniteSet(rows)
  /\ \A row \in rows : row.id <= lastRowId
  /\ \A row, other \in rows : row.id = other.id => row = other
  /\ lastRowId \in Nat
  /\ anchors \in Seq(Anchor)
  /\ purged \subseteq Requests
  /\ phase \in {"down", "up", "closing", "drained"}
  /\ tail \in Hash
  /\ queue \in Seq(Requests) /\ Len(queue) <= BufferSize
  /\ hand = <<>> \/ \E r \in Requests : hand = <<r>>
  /\ attempt \in 0..(Retries - 1)
  /\ pc \in [Requests -> {"idle"} \cup Active \cup Finished]
  /\ mode \in [Requests -> {"none", "warn", "block"}]
  /\ ts \in [Requests -> Nat]
  /\ prev \in [Requests -> Hash]
  /\ ack \in [Requests -> {"none", "ok", "err"}]
  /\ clock \in Nat /\ boots \in Nat
  /\ computed \in Seq(Requests) /\ sent \in Seq(Requests)
  /\ dropped \subseteq Requests /\ overtaken \subseteq Requests

\* A request is in one place only: its row is written at most once whatever
\* is retried, cancelled or restarted, and a row the writer gave up on never
\* turns up after all (handleJob, insertWithRetry).
StoredOnce ==
  /\ \A row, other \in rows : row.req = other.req => row = other
  /\ Stored \cap purged = {}
  /\ (Stored \cup purged) \cap (In(queue) \cup In(hand) \cup dropped) = {}
  /\ dropped \cap (In(queue) \cup In(hand)) = {}
  /\ In(queue) \cap In(hand) = {}
  /\ \A i, j \in DOMAIN queue : queue[i] = queue[j] => i = j

\* What EnqueueSync answers is what happened to the row: after a success it
\* is in the database for as long as retention keeps it, after a failure it
\* never will be (handleJob's ack against the retries, Close and restarts).
AnswerIsTrue ==
  \A r \in Requests :
    /\ pc[r] = "stored" => r \in Stored \cup purged
    /\ pc[r] = "failed" => r \notin Stored \cup purged \cup In(queue) \cup In(hand)

\* Drop-free while the process lives: a row handed to the channel is still
\* queued, in the writer's hands, in the table, or was given up on after all
\* retries; and rows reach the table in the order they were sent.
SentRowsKeepOrder ==
  phase # "down" =>
    /\ In(sent) \subseteq In(queue) \cup In(hand) \cup Stored \cup dropped
    /\ \A i, j \in DOMAIN sent :
         (i < j /\ sent[j] \in Stored) =>
            \/ sent[i] \in dropped
            \/ \E row, other \in rows :
                 row.req = sent[i] /\ other.req = sent[j] /\ row.id < other.id

\* The strengthening of the three properties above that every step keeps.
\* A request that has not been sent has left no trace downstream; an answer,
\* delivered or not, agrees with the row's fate; and the sent rows still on
\* their way are the newest of sent, in that order.
UnsentIsNowhere ==
  \A r \in Requests : pc[r] \in {"idle", "inflight", "computed", "sending"} =>
    r \notin Stored \cup purged \cup dropped \cup In(sent) \cup In(queue) \cup In(hand)

AnswersAgree ==
  \A r \in Requests :
    /\ (pc[r] = "stored" \/ ack[r] = "ok") => r \in Stored \cup purged
    /\ (pc[r] = "failed" \/ ack[r] = "err") => r \in dropped

\* How many of the sent rows the writer is done with.
Handled == Len(sent) - Len(hand) - Len(queue)

PipelineInOrder ==
  /\ phase = "down" => queue = <<>> /\ hand = <<>> /\ InFlight = {}
  /\ phase # "down" =>
       /\ Handled \in Nat
       /\ \A i, j \in DOMAIN sent : sent[i] = sent[j] => i = j
       /\ \A i \in 1..Handled : sent[i] \in Stored \cup dropped
       /\ \A i \in DOMAIN hand : hand[i] = sent[Handled + i]
       /\ \A i \in DOMAIN queue : queue[i] = sent[Handled + Len(hand) + i]
       /\ \A i, j \in DOMAIN sent : \A row, other \in rows :
            (i < j /\ row.req = sent[i] /\ other.req = sent[j]) => row.id < other.id

PipelineInv ==
  TypeOK /\ StoredOnce /\ UnsentIsNowhere /\ AnswersAgree /\ PipelineInOrder

\* When Verify says OK nothing is missing from the middle: of the rows one
\* process hashed, every one hashed before a stored row is stored too, and
\* before it - whatever was reordered, dropped, cancelled or purged.
PassingVerifyMeansNoGap ==
  Verify(rows, anchors) =>
    \A i, j \in DOMAIN computed :
      (i < j /\ computed[j] \in Stored) =>
         \E row, other \in rows :
           row.req = computed[i] /\ other.req = computed[j] /\ row.id < other.id

\* Two rows continue the same row only if a row that was overtaken on its way
\* to the writer was stored all the same: a process that starts after a crash,
\* a drop, a sweep or an early exit picks the chain up at its newest end
\* (LastEgressRowHash, NewHashChain).
NoFork ==
  overtaken \cap (Stored \cup purged) = {} =>
    \A row, other \in rows : row.prev = other.prev => row = other

\* The retention sweeps so far found the oldest rows, once, and not all.
SweptOnce ==
  \/ anchors = <<>>
  \/ /\ Len(anchors) = 1 /\ anchors[1].nextRowId # NoRowId
     /\ \A row \in rows : row.id > anchors[1].purgedUpTo

\* `shield-agent logs --verify` accepts a log nobody touched, unless a row was
\* overtaken or given up on, or retention swept it twice, bare or in the
\* middle.
ChainVerifies ==
  (overtaken = {} /\ dropped = {} /\ SweptOnce) => Verify(rows, anchors)

\* The README's "old rows can be deleted while keeping the chain verifiable",
\* of a log in which nothing else went wrong.
PurgeKeepsVerifiable ==
  (overtaken = {} /\ dropped = {}) => Verify(rows, anchors)

\* The tables hold one hash-linked list whose oldest end hangs from the
\* newest anchor.
Entries == [n \in 1..Cardinality(rows) |->
              [prev |-> RowsById(rows)[n].prev, hash |-> RowsById(rows)[n].hash]]

Base == IF anchors = <<>> THEN NoHash ELSE anchors[Len(anchors)].chainHash

Trail == INSTANCE AuditLog WITH entries <- Entries, base <- Base

\* A sweep that takes the oldest rows: timestamps are those of the requests'
\* beginnings and ids those of their ends.
SweepsOldest == \A row \in rows \ rows' : \A other \in rows \cap rows' : row.id < other.id

\* The pipeline implements the audit trail AuditLog promises: a step appends
\* one entry chained to the newest, or removes the oldest ones, or leaves the
\* trail alone - while no row has been overtaken or given up on, and sweeps
\* take the oldest rows.
ImplementsAuditLog ==
  /\ Trail!AuditInit
  /\ [][(overtaken' = {} /\ dropped' = {} /\ SweepsOldest)
          => Trail!AuditNext]_(Trail!auditVars)

\* ComputeRow's claim: callers get an ordering "that matches what the writer
\* goroutine will see", so rows are sent in the order they were hashed.
SendOrderIsChainOrder ==
  \A i, j \in DOMAIN computed : \A k, l \in DOMAIN sent :
    (computed[i] = sent[k] /\ computed[j] = sent[l] /\ i < j) => k < l

\* The writer's claim: "a dropped row still shows up in the verifier as a
\* gap", at the latest once a row of a later request is stored.
DroppedRowShows ==
  \A r \in dropped : \A row \in rows :
    row.ts > ts[r] => ~Verify(rows, anchors)

\* Close's claim: "in-flight queue is drained, writer goroutine exits".
DrainedOnExit == phase = "drained" => queue = <<>>

\* A handler that has hashed its row gets out of ProcessResponse, if only
\* because the process ends.
HandlerEnds == \A r \in Requests : pc[r] = "computed" ~> pc[r] \in Finished

\* A row in the channel of a running writer is written or given up on, also
\* when Close comes in between: the stopper waits for the writer (Close, and
\* runProxy's claim that the egress LogWriter "sees all in-flight responses
\* before flushing").
QueuedRowSettles ==
  \A r \in Requests :
    (r \in In(queue) /\ phase \in {"up", "closing"})
      ~> (r \in Stored \cup purged \cup dropped)
=============================================================================
