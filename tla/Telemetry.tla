------------------------------ MODULE Telemetry ------------------------------
(***************************************************************************)
(* The telemetry collector: a ring of the newest events that request       *)
(* handlers fill and that is shipped in batches, by the handler that fills *)
(* it and by the goroutine of Collector.Run on its ticker and once more    *)
(* when its context is cancelled.                                          *)
(***************************************************************************)
EXTENDS Integers, Sequences, FiniteSets

CONSTANTS
  Recorders,  \* the goroutines that call Record
  Runner,     \* the goroutine of Collector.Run
  Events,     \* telemetry events
  RingSize    \* capacity of the ring

ASSUME TelemetryAssumption ==
  /\ RingSize \in Nat \ {0}
  /\ Runner \notin Recorders

VARIABLES
  ring,       \* Collector.ring
  head,       \* Collector.head: where the next event goes
  count,      \* Collector.count: the events not yet taken
  tpc,        \* per goroutine: "idle", "flush" (about to), "send", "done"
  batch,      \* the events a goroutine is sending
  leaving,    \* Run has seen its context cancelled
  \* history no action reads
  recorded,   \* every event, in order of Record
  posted,     \* events whose POST was answered
  failed,     \* events whose POST failed
  overwritten \* events pushed out of a full ring

tvars == <<ring, head, count, tpc, batch, leaving, recorded, posted, failed, overwritten>>

Flushers == Recorders \cup {Runner}
Empty == <<>>   \* a slot never used: the zero Event
SeqSet(s) == {s[i] : i \in 1..Len(s)}

\* The events not yet taken, oldest first: flush's copy of the ring.
RingSeq == [i \in 1..count |-> ring[(head - count + RingSize + i - 1) % RingSize]]

TelemetryInit ==
  /\ ring = [i \in 0..RingSize - 1 |-> Empty]
  /\ head = 0 /\ count = 0
  /\ tpc = [p \in Flushers |-> "idle"]
  /\ batch = [p \in Flushers |-> <<>>]
  /\ leaving = FALSE
  /\ recorded = <<>> /\ posted = {} /\ failed = {} /\ overwritten = {}

\* Record: put the event in, over the oldest one if the ring is full, and go
\* on to flush when it is.
Record(p, e) ==
  /\ tpc[p] = "idle"
  /\ ring' = [ring EXCEPT ![head] = e]
  /\ head' = (head + 1) % RingSize
  /\ count' = IF count < RingSize THEN count + 1 ELSE count
  /\ overwritten' = IF count = RingSize THEN overwritten \cup {ring[head]} ELSE overwritten
  /\ recorded' = Append(recorded, e)
  /\ tpc' = [tpc EXCEPT ![p] = IF count' >= RingSize THEN "flush" ELSE "idle"]
  /\ UNCHANGED <<batch, leaving, posted, failed>>

\* Run: the ticker fires.
Tick ==
  /\ tpc[Runner] = "idle"
  /\ tpc' = [tpc EXCEPT ![Runner] = "flush"]
  /\ UNCHANGED <<ring, head, count, batch, leaving, recorded, posted, failed, overwritten>>

\* Run: the context is cancelled; one last flush.
Leave ==
  /\ tpc[Runner] = "idle"
  /\ tpc' = [tpc EXCEPT ![Runner] = "flush"]
  /\ leaving' = TRUE
  /\ UNCHANGED <<ring, head, count, batch, recorded, posted, failed, overwritten>>

\* Where a goroutine is once its flush is over.
AfterFlush(p) == IF p = Runner /\ leaving THEN "done" ELSE "idle"

\* Fault: the lock is released between copying the ring and emptying it, and
\* the copy is all that is emptied.
Take_KeepsRing(p) ==
  /\ tpc[p] = "flush"
  /\ tpc' = [tpc EXCEPT ![p] = IF count = 0 THEN AfterFlush(p) ELSE "send"]
  /\ batch' = [batch EXCEPT ![p] = RingSeq]
  /\ UNCHANGED <<ring, head, count, leaving, recorded, posted, failed, overwritten>>

\* flush, its critical section: copy the events and empty the ring.
Take(p) ==
  /\ tpc[p] = "flush"
  /\ IF count = 0
       THEN /\ tpc' = [tpc EXCEPT ![p] = AfterFlush(p)]
            /\ UNCHANGED <<head, count, batch>>
       ELSE /\ batch' = [batch EXCEPT ![p] = RingSeq]
            /\ head' = 0 /\ count' = 0
            /\ tpc' = [tpc EXCEPT ![p] = "send"]
  /\ UNCHANGED <<ring, leaving, recorded, posted, failed, overwritten>>

SendEnds(p) ==
  /\ tpc[p] = "send"
  /\ batch' = [batch EXCEPT ![p] = <<>>]
  /\ tpc' = [tpc EXCEPT ![p] = AfterFlush(p)]
  /\ UNCHANGED <<ring, head, count, leaving, recorded, overwritten>>

\* send: the endpoint answers, whatever its status.
SendOk(p) ==
  /\ SendEnds(p)
  /\ posted' = posted \cup SeqSet(batch[p])
  /\ UNCHANGED failed

\* send: the request fails; the batch is not kept.
SendFails(p) ==
  /\ SendEnds(p)
  /\ failed' = failed \cup SeqSet(batch[p])
  /\ UNCHANGED posted

\* What a goroutine does on its own once it has begun to flush.
FlushStep(p) == Take(p) \/ SendOk(p) \/ SendFails(p)

TelemetryNext ==
  \/ \E p \in Recorders, e \in Events \ SeqSet(recorded) : Record(p, e)
  \/ Tick \/ Leave
  \/ \E p \in Flushers : FlushStep(p)

TelemetrySpec == TelemetryInit /\ [][TelemetryNext]_tvars

-----------------------------------------------------------------------------
(* Properties *)

\* Types.  The ring's indices stay inside it and batches exist only on the way.
TelemetryTypeOK ==
  /\ ring \in [0..RingSize - 1 -> Events \cup {Empty}]
  /\ head \in 0..RingSize - 1
  /\ count \in 0..RingSize
  /\ tpc \in [Flushers -> {"idle", "flush", "send", "done"}]
  /\ batch \in [Flushers -> Seq(Events)]
  /\ leaving \in BOOLEAN
  /\ recorded \in Seq(Events)
  /\ posted \subseteq Events /\ failed \subseteq Events /\ overwritten \subseteq Events

\* collector.go:73-80, 115-122: whatever the wrap-around and the resets of
\* flush, the events in the ring are the newest that were recorded, in order.
RingHoldsNewest ==
  RingSeq = [i \in 1..count |-> recorded[Len(recorded) - count + i]]

\* Where an event may be.
InRing      == SeqSet(RingSeq)
InBatch(p)  == SeqSet(batch[p])

\* collector.go:66-85, 108-127: an event is in one place: handlers that flush
\* at the same time never ship it twice, and none disappears unless it was
\* overwritten or its POST failed.
EventInOnePlace ==
  /\ SeqSet(recorded) =
       InRing \cup posted \cup failed \cup overwritten \cup UNION {InBatch(p) : p \in Flushers}
  /\ InRing \cap (posted \cup failed \cup overwritten) = {}
  /\ posted \cap failed = {} /\ (posted \cup failed) \cap overwritten = {}
  /\ \A p \in Flushers :
       /\ InBatch(p) \cap (InRing \cup posted \cup failed \cup overwritten) = {}
       /\ \A q \in Flushers \ {p} : InBatch(p) \cap InBatch(q) = {}

\* collector.go:79-84: a full ring, which loses an event with every Record,
\* is about to be emptied by somebody.
FullRingIsFlushed ==
  count = RingSize => \E p \in Flushers : tpc[p] = "flush"

\* What holds of the collector at all times: types, the newest events in their
\* order in the ring, each event in one place, and a full ring about to be emptied.
TelemetryInv ==
  /\ TelemetryTypeOK
  /\ RingHoldsNewest
  /\ EventInOnePlace
  /\ FullRingIsFlushed
=============================================================================
