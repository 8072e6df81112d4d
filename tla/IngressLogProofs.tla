-------------------------- MODULE IngressLogProofs --------------------------
(***************************************************************************)
(* Proofs about Telemetry, for any number of recorders, any events and any *)
(* size of the ring, and about IngressLog, which drives the collector, for *)
(* any requests, ids, configurations and number of reloads.                *)
(***************************************************************************)
EXTENDS IngressLog, SequenceTheorems, TLAPS

\* The slot of the i-th event that has not been taken.
Slot(h, c, i) == (h - c + RingSize + i - 1) % RingSize

\* The event in it is the i-th of the newest.
SlotsHoldNewest ==
  /\ count <= Len(recorded)
  /\ \A i \in 1..count : ring[Slot(head, count, i)] = recorded[Len(recorded) - count + i]

\* Until the ring is full it is filled from its beginning.
FilledFromStart == count < RingSize => head = count

\* No event is recorded twice.
RecordedOnce ==
  \A i, j \in 1..Len(recorded) : recorded[i] = recorded[j] => i = j

\* Who is not sending has no batch.
BatchesAreSent == \A p \in Flushers : tpc[p] # "send" => batch[p] = <<>>

\* The last c events of a sequence.
Newest(s, c) == {s[j] : j \in Len(s) - c + 1..Len(s)}

\* Where the events are, by the sequence of those recorded.
Places ==
  LET inRing == Newest(recorded, count) IN
  /\ SeqSet(recorded) =
       inRing \cup posted \cup failed \cup overwritten \cup UNION {InBatch(p) : p \in Flushers}
  /\ inRing \cap (posted \cup failed \cup overwritten) = {}
  /\ posted \cap failed = {} /\ (posted \cup failed) \cap overwritten = {}
  /\ \A p \in Flushers :
       /\ InBatch(p) \cap (inRing \cup posted \cup failed \cup overwritten) = {}
       /\ \A q \in Flushers \ {p} : InBatch(p) \cap InBatch(q) = {}

TelemetryIInv ==
  /\ TelemetryTypeOK /\ SlotsHoldNewest /\ FilledFromStart
  /\ RecordedOnce /\ BatchesAreSent /\ Places /\ FullRingIsFlushed

-----------------------------------------------------------------------------
(* The ring *)

\* The remainder of what is less than two rings.
LEMMA Wrap ==
  ASSUME NEW a \in 0..2 * RingSize - 1
  PROVE  /\ a % RingSize = IF a < RingSize THEN a ELSE a - RingSize
         /\ a % RingSize \in 0..RingSize - 1
BY TelemetryAssumption

\* Where the events are when the ring is not full, and when it is.
LEMMA SlotIs ==
  ASSUME NEW h \in 0..RingSize - 1, NEW c \in 0..RingSize, c < RingSize => h = c, NEW k \in 1..c
  PROVE  /\ c < RingSize => Slot(h, c, k) = k - 1
         /\ c = RingSize => Slot(h, c, k) =
              IF h + k - 1 < RingSize THEN h + k - 1 ELSE h + k - 1 - RingSize
<1>1. RingSize \in Nat \ {0} /\ h \in Int /\ c \in Int /\ k \in Int
  BY TelemetryAssumption
<1>2. ASSUME c < RingSize PROVE Slot(h, c, k) = k - 1
  <2> DEFINE a == k - 1 + RingSize
  <2>1. h - c + RingSize + k - 1 = a
    BY <1>1, <1>2
  <2>2. a \in 0..2 * RingSize - 1 /\ ~(a < RingSize) /\ a - RingSize = k - 1
    BY <1>1, <1>2
  <2>3. Slot(h, c, k) = a % RingSize
    BY <2>1 DEF Slot
  <2> HIDE DEF a
  <2>4. a % RingSize = IF a < RingSize THEN a ELSE a - RingSize
    BY <2>2, Wrap
  <2> QED BY <2>2, <2>3, <2>4
<1>3. ASSUME c = RingSize
      PROVE  Slot(h, c, k) = IF h + k - 1 < RingSize THEN h + k - 1 ELSE h + k - 1 - RingSize
  <2>1. PICK a \in 0..2 * RingSize - 1 : a = h + k - 1
    BY <1>1, <1>3
  <2>2. h - c + RingSize + k - 1 = a
    BY <1>1, <1>3, <2>1
  <2>3. Slot(h, c, k) = IF a < RingSize THEN a ELSE a - RingSize
    BY <2>2, Wrap DEF Slot
  <2>4. CASE a < RingSize
    BY <1>1, <2>1, <2>3, <2>4
  <2>5. CASE ~(a < RingSize)
    BY <1>1, <2>1, <2>3, <2>5
  <2> QED BY <2>4, <2>5
<1> QED BY <1>2, <1>3

\* flush's copy of the ring is the newest events, in order.
LEMMA CopyIsNewest ==
  ASSUME TelemetryTypeOK, SlotsHoldNewest
  PROVE  /\ RingSeq = [i \in 1..count |-> recorded[Len(recorded) - count + i]]
         /\ RingSeq \in Seq(Events)
         /\ SeqSet(RingSeq) = Newest(recorded, count)
<1>1. /\ count \in Nat /\ recorded \in Seq(Events) /\ Len(recorded) \in Nat
      /\ count <= Len(recorded)
  BY TelemetryAssumption DEF TelemetryTypeOK, SlotsHoldNewest
<1>2. RingSeq = [i \in 1..count |-> recorded[Len(recorded) - count + i]]
  BY DEF RingSeq, SlotsHoldNewest, Slot
<1>3. \A i \in 1..count : Len(recorded) - count + i \in 1..Len(recorded)
  BY <1>1
<1>4. \A i \in 1..count : recorded[Len(recorded) - count + i] \in Events
  BY <1>1, <1>3
<1>5. RingSeq \in [1..count -> Events]
  BY <1>2, <1>4
<1>6. RingSeq \in Seq(Events) /\ Len(RingSeq) = count
  BY <1>1, <1>5, SeqDef, LenProperties
<1>7. SeqSet(RingSeq) = {recorded[Len(recorded) - count + i] : i \in 1..count}
  BY <1>2, <1>6 DEF SeqSet
<1>8. \A j \in Len(recorded) - count + 1..Len(recorded) :
        /\ j - (Len(recorded) - count) \in 1..count
        /\ Len(recorded) - count + (j - (Len(recorded) - count)) = j
  BY <1>1
<1>9. \A i \in 1..count :
        Len(recorded) - count + i \in Len(recorded) - count + 1..Len(recorded)
  BY <1>1
<1>10. {recorded[Len(recorded) - count + i] : i \in 1..count} = Newest(recorded, count)
  BY <1>8, <1>9 DEF Newest
<1> QED BY <1>2, <1>6, <1>7, <1>10

-----------------------------------------------------------------------------
(* Record *)

LEMMA RecordKeeps ==
  ASSUME TelemetryIInv, NEW p \in Recorders, NEW e \in Events \ SeqSet(recorded), Record(p, e)
  PROVE  TelemetryIInv'
<1> USE DEF TelemetryIInv
<1> DEFINE n == Len(recorded)
<1>1. /\ RingSize \in Nat \ {0} /\ head \in 0..RingSize - 1 /\ count \in 0..RingSize
      /\ recorded \in Seq(Events) /\ n \in Nat /\ count <= n
      /\ ring \in [0..RingSize - 1 -> Events \cup {Empty}]
  BY TelemetryAssumption DEF TelemetryTypeOK, SlotsHoldNewest
<1>2. /\ ring' = [ring EXCEPT ![head] = e]
      /\ head' = (head + 1) % RingSize
      /\ count' = IF count < RingSize THEN count + 1 ELSE count
      /\ overwritten' = IF count = RingSize THEN overwritten \cup {ring[head]} ELSE overwritten
      /\ recorded' = Append(recorded, e)
      /\ tpc' = [tpc EXCEPT ![p] = IF count' >= RingSize THEN "flush" ELSE "idle"]
      /\ UNCHANGED <<batch, leaving, posted, failed>>
      /\ tpc[p] = "idle" /\ p \in Flushers
  BY DEF Record, Flushers
<1>3. /\ recorded' \in Seq(Events) /\ Len(recorded') = n + 1
      /\ \A j \in 1..n : recorded'[j] = recorded[j]
      /\ recorded'[n + 1] = e
  BY <1>1, <1>2
<1>4. head' = IF head + 1 < RingSize THEN head + 1 ELSE 0
  <2> DEFINE a == head + 1
  <2>1. a \in 0..2 * RingSize - 1 /\ ~(a < RingSize) => a - RingSize = 0
    BY <1>1
  <2>2. PICK b \in 0..2 * RingSize - 1 : b = a
    BY <1>1
  <2>3. b % RingSize = IF b < RingSize THEN b ELSE b - RingSize
    BY Wrap
  <2>4. a % RingSize = IF a < RingSize THEN a ELSE a - RingSize
    BY <2>2, <2>3
  <2> QED BY <1>1, <1>2, <2>4
<1>5. FilledFromStart'
  BY <1>1, <1>2, <1>4 DEF FilledFromStart
<1>6. count = RingSize => ring[head] = recorded[n - RingSize + 1]
  <2> SUFFICES ASSUME count = RingSize PROVE ring[head] = recorded[n - RingSize + 1]
    OBVIOUS
  <2>1. 1 \in 1..count /\ n - count + 1 = n - RingSize + 1
    BY <1>1
  <2>2. Slot(head, count, 1) = head
    <3>1. PICK h \in 0..RingSize - 1 : h = head
      BY <1>1
    <3>2. PICK c \in 0..RingSize : c = count
      BY <1>1
    <3>3. 1 \in 1..c /\ (c < RingSize => h = c) /\ c = RingSize
      BY <2>1, <3>1, <3>2
    <3>4. Slot(h, c, 1) = IF h + 1 - 1 < RingSize THEN h + 1 - 1 ELSE h + 1 - 1 - RingSize
      BY <3>3, SlotIs
    <3> QED BY <1>1, <3>1, <3>2, <3>4
  <2> QED BY <2>1, <2>2 DEF SlotsHoldNewest
<1>7. TelemetryTypeOK'
  <2>1. ring' \in [0..RingSize - 1 -> Events \cup {Empty}]
    BY <1>1, <1>2
  <2>2. head' \in 0..RingSize - 1 /\ count' \in 0..RingSize
    BY <1>1, <1>2, <1>4
  <2>3. tpc' \in [Flushers -> {"idle", "flush", "send", "done"}]
    BY <1>2 DEF TelemetryTypeOK
  <2>4. overwritten' \subseteq Events
    <3>1. count = RingSize => n - RingSize + 1 \in 1..n
      BY <1>1
    <3>2. count = RingSize => ring[head] \in Events
      BY <1>1, <1>6, <3>1
    <3> QED BY <1>2, <3>2 DEF TelemetryTypeOK
  <2> QED BY <1>2, <1>3, <2>1, <2>2, <2>3, <2>4 DEF TelemetryTypeOK
<1>8. SlotsHoldNewest'
  <2>1. count' <= Len(recorded')
    BY <1>1, <1>2, <1>3
  <2> SUFFICES \A i \in 1..count' :
                 ring'[Slot(head', count', i)] = recorded'[Len(recorded') - count' + i]
    BY <2>1 DEF SlotsHoldNewest, Slot
  <2> TAKE i \in 1..count'
  <2> SUFFICES ring'[Slot(head', count', i)] = recorded'[n + 1 - count' + i]
    <3>1. count' \in Int /\ i \in Int
      BY <1>1, <1>2
    <3>2. Len(recorded') - count' + i = n + 1 - count' + i
      BY <1>1, <1>3, <3>1
    <3> QED BY <3>2
  <2>2. /\ count' < RingSize => Slot(head', count', i) = i - 1
        /\ count' = RingSize => Slot(head', count', i) =
             IF head' + i - 1 < RingSize THEN head' + i - 1 ELSE head' + i - 1 - RingSize
    <3>1. PICK h \in 0..RingSize - 1 : h = head'
      BY <1>7 DEF TelemetryTypeOK
    <3>2. PICK c \in 0..RingSize : c = count'
      BY <1>7 DEF TelemetryTypeOK
    <3>3. i \in 1..c /\ (c < RingSize => h = c)
      BY <1>5, <3>1, <3>2 DEF FilledFromStart
    <3>4. /\ c < RingSize => Slot(h, c, i) = i - 1
          /\ c = RingSize => Slot(h, c, i) =
               IF h + i - 1 < RingSize THEN h + i - 1 ELSE h + i - 1 - RingSize
      BY <3>3, SlotIs
    <3> QED BY <3>1, <3>2, <3>4
  <2>3. \A k \in 1..count :
          /\ count < RingSize => Slot(head, count, k) = k - 1
          /\ count = RingSize => Slot(head, count, k) =
               IF head + k - 1 < RingSize THEN head + k - 1 ELSE head + k - 1 - RingSize
    <3>1. PICK h \in 0..RingSize - 1 : h = head
      BY <1>1
    <3>2. PICK c \in 0..RingSize : c = count
      BY <1>1
    <3>3. c < RingSize => h = c
      BY <3>1, <3>2 DEF FilledFromStart
    <3>4. \A k \in 1..c :
            /\ c < RingSize => Slot(h, c, k) = k - 1
            /\ c = RingSize => Slot(h, c, k) =
                 IF h + k - 1 < RingSize THEN h + k - 1 ELSE h + k - 1 - RingSize
      BY <3>3, SlotIs
    <3> QED BY <3>1, <3>2, <3>4
  <2>4. CASE count < RingSize
    <3>1. count' = count + 1 /\ head = count /\ i \in 1..count + 1
      BY <1>1, <1>2, <2>4 DEF FilledFromStart
    <3>2. Slot(head', count', i) = i - 1
      BY <1>1, <1>4, <2>2, <2>4, <3>1
    <3>3. CASE i = count + 1
      BY <1>1, <1>2, <1>3, <3>1, <3>2, <3>3
    <3>4. CASE i # count + 1
      <4>1. i \in 1..count /\ n - count + i \in 1..n /\ i - 1 # head /\ i - 1 \in 0..RingSize - 1
        BY <1>1, <3>1, <3>4
      <4>2. ring[i - 1] = recorded[n - count + i]
        BY <2>4, <2>3, <4>1 DEF SlotsHoldNewest
      <4>3. ring'[i - 1] = ring[i - 1] /\ n + 1 - count' + i = n - count + i
        BY <1>1, <1>2, <3>1, <4>1
      <4> QED BY <1>3, <3>2, <4>1, <4>2, <4>3
    <3> QED BY <3>3, <3>4
  <2>5. CASE count = RingSize
    <3>1. count' = RingSize /\ i \in 1..RingSize
      BY <1>1, <1>2, <2>5
    <3>2. CASE i = RingSize
      <4>1. Slot(head', count', i) = head
        BY <1>1, <1>4, <2>2, <3>1, <3>2
      <4>2. n + 1 - count' + i = n + 1
        BY <1>1, <3>1, <3>2
      <4> QED BY <1>1, <1>2, <1>3, <4>1, <4>2
    <3>3. CASE i # RingSize
      <4>1. i + 1 \in 1..count /\ n - count + (i + 1) \in 1..n
        BY <1>1, <2>5, <3>1, <3>3
      <4>2. /\ Slot(head', count', i) = Slot(head, count, i + 1)
            /\ Slot(head, count, i + 1) # head /\ Slot(head, count, i + 1) \in 0..RingSize - 1
        BY <1>1, <1>4, <2>2, <2>5, <2>3, <3>1, <3>3, <4>1
      <4>3. ring[Slot(head, count, i + 1)] = recorded[n - count + (i + 1)]
        BY <4>1 DEF SlotsHoldNewest
      <4>4. n + 1 - count' + i = n - count + (i + 1)
        BY <1>1, <2>5, <3>1
      <4> QED BY <1>1, <1>2, <1>3, <4>1, <4>2, <4>3, <4>4
    <3> QED BY <3>2, <3>3
  <2> QED BY <1>1, <2>4, <2>5
<1>9. RecordedOnce'
  <2>1. \A j \in 1..n : recorded'[j] # e
    BY <1>3 DEF SeqSet
  <2> QED BY <1>1, <1>3, <2>1 DEF RecordedOnce
<1>10. BatchesAreSent'
  BY <1>2 DEF BatchesAreSent, TelemetryTypeOK
<1>11. FullRingIsFlushed'
  <2>1. tpc'[p] = IF count' >= RingSize THEN "flush" ELSE "idle"
    BY <1>2 DEF TelemetryTypeOK
  <2> QED BY <1>1, <1>2, <2>1 DEF FullRingIsFlushed
<1>12. Places'
  <2> DEFINE old == Newest(recorded, count) new == Newest(recorded', count')
  <2>1. SeqSet(recorded') = SeqSet(recorded) \cup {e}
    BY <1>1, <1>3 DEF SeqSet
  <2>2. \A q \in Flushers : InBatch(q)' = InBatch(q)
    BY <1>2 DEF InBatch
  <2>3. old \subseteq SeqSet(recorded)
    BY <1>1 DEF Newest, SeqSet
  <2>4. CASE count < RingSize
    <3>1. new = old \cup {e}
      <4>1. Len(recorded') - count' + 1 = n - count + 1 /\ Len(recorded') = n + 1
        BY <1>1, <1>2, <1>3, <2>4
      <4>2. n - count + 1..n + 1 = (n - count + 1..n) \cup {n + 1}
            /\ n - count + 1..n \subseteq 1..n
        BY <1>1
      <4> QED BY <1>3, <4>1, <4>2 DEF Newest
    <3>2. overwritten' = overwritten
      BY <1>1, <1>2, <2>4
    <3> HIDE DEF old, new
    <3>3. Places' <=> LET inRing == new IN
             /\ SeqSet(recorded) \cup {e} =
                  inRing \cup posted \cup failed \cup overwritten \cup UNION {InBatch(q) : q \in Flushers}
             /\ inRing \cap (posted \cup failed \cup overwritten) = {}
             /\ posted \cap failed = {} /\ (posted \cup failed) \cap overwritten = {}
             /\ \A q \in Flushers :
                  /\ InBatch(q) \cap (inRing \cup posted \cup failed \cup overwritten) = {}
                  /\ \A r \in Flushers \ {q} : InBatch(q) \cap InBatch(r) = {}
      BY <1>2, <2>1, <2>2, <3>2 DEF Places, new
    <3>4. e \notin SeqSet(recorded)
      OBVIOUS
    <3> QED BY <3>1, <3>3, <3>4 DEF Places, old
  <2>5. CASE count = RingSize
    <3> DEFINE oldest == recorded[n - RingSize + 1]
    <3>1. new = (old \ {oldest}) \cup {e} /\ oldest \in old
      <4>1. Len(recorded') - count' + 1 = n - RingSize + 2 /\ Len(recorded') = n + 1
        BY <1>1, <1>2, <1>3, <2>5
      <4>2. /\ n - RingSize + 2..n + 1 = (n - RingSize + 2..n) \cup {n + 1}
            /\ n - RingSize + 1..n = (n - RingSize + 2..n) \cup {n - RingSize + 1}
            /\ n - RingSize + 1..n \subseteq 1..n
            /\ n - RingSize + 1 \notin n - RingSize + 2..n
        BY <1>1, <2>5
      <4>3. new = {recorded[j] : j \in n - RingSize + 2..n} \cup {e}
        BY <1>3, <4>1, <4>2 DEF Newest
      <4>4. old = {recorded[j] : j \in n - RingSize + 2..n} \cup {oldest}
        BY <2>5, <4>2 DEF Newest
      <4>5. oldest \notin {recorded[j] : j \in n - RingSize + 2..n}
        BY <1>1, <4>2 DEF RecordedOnce
      <4> QED BY <4>3, <4>4, <4>5
    <3>2. overwritten' = overwritten \cup {oldest}
      BY <1>2, <1>6, <2>5
    <3> HIDE DEF old, new, oldest
    <3>3. Places' <=> LET inRing == new IN
             /\ SeqSet(recorded) \cup {e} =
                  inRing \cup posted \cup failed \cup overwritten' \cup UNION {InBatch(q) : q \in Flushers}
             /\ inRing \cap (posted \cup failed \cup overwritten') = {}
             /\ posted \cap failed = {} /\ (posted \cup failed) \cap overwritten' = {}
             /\ \A q \in Flushers :
                  /\ InBatch(q) \cap (inRing \cup posted \cup failed \cup overwritten') = {}
                  /\ \A r \in Flushers \ {q} : InBatch(q) \cap InBatch(r) = {}
      BY <1>2, <2>1, <2>2 DEF Places, new
    <3>4. e \notin SeqSet(recorded)
      OBVIOUS
    <3> QED BY <3>1, <3>2, <3>3, <3>4 DEF Places, old
  <2> QED BY <1>1, <2>4, <2>5
<1> QED BY <1>5, <1>7, <1>8, <1>9, <1>10, <1>11, <1>12

-----------------------------------------------------------------------------
(* Flushing *)

\* A step that moves no event.
LEMMA NoEventMoves ==
  ASSUME Places, UNCHANGED <<count, batch, recorded, posted, failed, overwritten>>
  PROVE  Places'
<1>1. Newest(recorded', count') = Newest(recorded, count) /\ SeqSet(recorded)' = SeqSet(recorded)
  BY DEF Newest, SeqSet
<1>2. \A q \in Flushers : InBatch(q)' = InBatch(q)
  BY DEF InBatch, SeqSet
<1>3. UNION {InBatch(q)' : q \in Flushers} = UNION {InBatch(q) : q \in Flushers}
  BY <1>2
<1> QED BY <1>1, <1>2, <1>3 DEF Places

\* A step that only moves a goroutine that is not sending, and towards a flush
\* or away from an empty ring.
LEMMA MoveKeeps ==
  ASSUME TelemetryIInv, NEW p \in Flushers, NEW x \in {"idle", "flush", "done"},
         tpc[p] # "send", tpc[p] = "flush" => count = 0,
         tpc' = [tpc EXCEPT ![p] = x], leaving' \in BOOLEAN,
         UNCHANGED <<ring, head, count, batch, recorded, posted, failed, overwritten>>
  PROVE  TelemetryIInv'
<1> USE DEF TelemetryIInv
<1>1. TelemetryTypeOK'
  BY DEF TelemetryTypeOK
<1>2. SlotsHoldNewest' /\ FilledFromStart' /\ RecordedOnce'
  BY DEF SlotsHoldNewest, Slot, FilledFromStart, RecordedOnce
<1>3. BatchesAreSent'
  BY DEF BatchesAreSent, TelemetryTypeOK
<1>4. Places'
  BY NoEventMoves
<1>5. FullRingIsFlushed'
  <2>1. count = RingSize => count # 0
    BY TelemetryAssumption
  <2>2. \A q \in Flushers : tpc[q] = "flush" /\ q # p => tpc'[q] = "flush"
    BY DEF TelemetryTypeOK
  <2> QED BY <2>1, <2>2 DEF FullRingIsFlushed
<1> QED BY <1>1, <1>2, <1>3, <1>4, <1>5

LEMMA TakeKeeps ==
  ASSUME TelemetryIInv, NEW p \in Flushers, Take(p)
  PROVE  TelemetryIInv'
<1>1. tpc[p] = "flush" /\ count \in Nat
  BY TelemetryAssumption DEF Take, TelemetryIInv, TelemetryTypeOK
<1>2. CASE count = 0
  <2>1. AfterFlush(p) \in {"idle", "flush", "done"}
    BY DEF AfterFlush
  <2>2. leaving' \in BOOLEAN
    BY DEF Take, TelemetryIInv, TelemetryTypeOK
  <2>3. /\ tpc' = [tpc EXCEPT ![p] = AfterFlush(p)]
        /\ UNCHANGED <<ring, head, count, batch, recorded, posted, failed, overwritten>>
    BY <1>2 DEF Take
  <2> QED BY <1>1, <1>2, <2>1, <2>2, <2>3, MoveKeeps
<1>3. CASE count # 0
  <2> USE DEF TelemetryIInv
  <2>1. /\ batch' = [batch EXCEPT ![p] = RingSeq]
        /\ head' = 0 /\ count' = 0
        /\ tpc' = [tpc EXCEPT ![p] = "send"]
        /\ UNCHANGED <<ring, leaving, recorded, posted, failed, overwritten>>
    BY <1>3 DEF Take
  <2>2. RingSeq \in Seq(Events) /\ SeqSet(RingSeq) = Newest(recorded, count)
    BY CopyIsNewest
  <2>3. TelemetryTypeOK'
    <3>1. batch' \in [Flushers -> Seq(Events)] /\ tpc' \in [Flushers -> {"idle", "flush", "send", "done"}]
      BY <2>1, <2>2 DEF TelemetryTypeOK
    <3> QED BY <2>1, <3>1, TelemetryAssumption DEF TelemetryTypeOK
  <2>4. SlotsHoldNewest' /\ FilledFromStart' /\ FullRingIsFlushed'
    BY <2>1, TelemetryAssumption, LenProperties
       DEF SlotsHoldNewest, FilledFromStart, FullRingIsFlushed, TelemetryTypeOK
  <2>5. RecordedOnce'
    BY <2>1 DEF RecordedOnce
  <2>6. BatchesAreSent'
    BY <2>1 DEF BatchesAreSent, TelemetryTypeOK
  <2>7. Places'
    <3> DEFINE inRing == Newest(recorded, count)
    <3>1. Newest(recorded', count') = {}
      BY <2>1, LenProperties DEF Newest, TelemetryTypeOK
    <3>2. InBatch(p) = {}
      BY <1>1 DEF InBatch, SeqSet, BatchesAreSent
    <3>3. InBatch(p)' = inRing
      BY <2>1, <2>2 DEF InBatch, SeqSet, TelemetryTypeOK
    <3>4. \A q \in Flushers \ {p} : InBatch(q)' = InBatch(q)
      BY <2>1 DEF InBatch, SeqSet, TelemetryTypeOK
    <3>5. SeqSet(recorded)' = SeqSet(recorded)
      BY <2>1 DEF SeqSet
    <3> HIDE DEF inRing
    <3>6. UNION {InBatch(q)' : q \in Flushers} = inRing \cup UNION {InBatch(q) : q \in Flushers}
      BY <3>2, <3>3, <3>4
    <3>7. /\ SeqSet(recorded) =
               inRing \cup posted \cup failed \cup overwritten \cup UNION {InBatch(q) : q \in Flushers}
          /\ inRing \cap (posted \cup failed \cup overwritten) = {}
          /\ posted \cap failed = {} /\ (posted \cup failed) \cap overwritten = {}
          /\ \A q \in Flushers :
               /\ InBatch(q) \cap (inRing \cup posted \cup failed \cup overwritten) = {}
               /\ \A r \in Flushers \ {q} : InBatch(q) \cap InBatch(r) = {}
      BY DEF Places, inRing
    <3>8. \A q \in Flushers :
             /\ InBatch(q)' \cap (posted \cup failed \cup overwritten) = {}
             /\ \A r \in Flushers \ {q} : InBatch(q)' \cap InBatch(r)' = {}
      BY <3>3, <3>4, <3>7
    <3> QED BY <2>1, <3>1, <3>5, <3>6, <3>7, <3>8 DEF Places
  <2> QED BY <2>3, <2>4, <2>5, <2>6, <2>7
<1> QED BY <1>2, <1>3

LEMMA SendKeeps ==
  ASSUME TelemetryIInv, NEW p \in Flushers, SendOk(p) \/ SendFails(p)
  PROVE  TelemetryIInv'
<1> USE DEF TelemetryIInv
<1>1. /\ tpc[p] = "send"
      /\ batch' = [batch EXCEPT ![p] = <<>>]
      /\ tpc' = [tpc EXCEPT ![p] = AfterFlush(p)]
      /\ UNCHANGED <<ring, head, count, leaving, recorded, overwritten>>
      /\ AfterFlush(p) \in {"idle", "done"}
  BY DEF SendOk, SendFails, SendEnds, AfterFlush
<1>2. \/ posted' = posted \cup InBatch(p) /\ failed' = failed
      \/ failed' = failed \cup InBatch(p) /\ posted' = posted
  BY DEF SendOk, SendFails, InBatch
<1>3. InBatch(p) \subseteq Events
  BY DEF InBatch, SeqSet, TelemetryTypeOK
<1>4. TelemetryTypeOK'
  BY <1>1, <1>2, <1>3 DEF TelemetryTypeOK
<1>5. SlotsHoldNewest' /\ FilledFromStart' /\ RecordedOnce'
  BY <1>1 DEF SlotsHoldNewest, Slot, FilledFromStart, RecordedOnce
<1>6. BatchesAreSent'
  BY <1>1 DEF BatchesAreSent, TelemetryTypeOK
<1>7. FullRingIsFlushed'
  <2>1. \A q \in Flushers : tpc[q] = "flush" => tpc'[q] = "flush"
    BY <1>1 DEF TelemetryTypeOK
  <2> QED BY <1>1, <2>1 DEF FullRingIsFlushed
<1>8. Places'
  <2> DEFINE inRing == Newest(recorded, count)
  <2>1. Newest(recorded', count') = inRing /\ SeqSet(recorded)' = SeqSet(recorded)
    BY <1>1 DEF Newest, SeqSet
  <2>2. InBatch(p)' = {}
    BY <1>1 DEF InBatch, SeqSet, TelemetryTypeOK
  <2>3. \A q \in Flushers \ {p} : InBatch(q)' = InBatch(q)
    BY <1>1 DEF InBatch, SeqSet, TelemetryTypeOK
  <2>4. /\ SeqSet(recorded) =
             inRing \cup posted \cup failed \cup overwritten \cup UNION {InBatch(q) : q \in Flushers}
        /\ inRing \cap (posted \cup failed \cup overwritten) = {}
        /\ posted \cap failed = {} /\ (posted \cup failed) \cap overwritten = {}
        /\ \A q \in Flushers :
             /\ InBatch(q) \cap (inRing \cup posted \cup failed \cup overwritten) = {}
             /\ \A r \in Flushers \ {q} : InBatch(q) \cap InBatch(r) = {}
    BY DEF Places
  <2> HIDE DEF inRing
  <2>5. InBatch(p) \cup UNION {InBatch(q)' : q \in Flushers} = UNION {InBatch(q) : q \in Flushers}
    BY <2>2, <2>3
  <2>6. posted' \cup failed' = posted \cup failed \cup InBatch(p)
    BY <1>2
  <2>7. SeqSet(recorded)' =
          inRing \cup posted' \cup failed' \cup overwritten' \cup UNION {InBatch(q)' : q \in Flushers}
    BY <1>1, <2>1, <2>4, <2>5, <2>6
  <2>8. inRing \cap (posted' \cup failed' \cup overwritten') = {}
    BY <1>1, <2>4, <2>6
  <2>9. posted' \cap failed' = {} /\ (posted' \cup failed') \cap overwritten' = {}
    BY <1>1, <1>2, <2>4
  <2>10. \A q \in Flushers :
           /\ InBatch(q)' \cap (inRing \cup posted' \cup failed' \cup overwritten') = {}
           /\ \A r \in Flushers \ {q} : InBatch(q)' \cap InBatch(r)' = {}
    BY <1>1, <2>2, <2>3, <2>4, <2>6
  <2> QED BY <2>1, <2>7, <2>8, <2>9, <2>10 DEF Places
<1> QED BY <1>4, <1>5, <1>6, <1>7, <1>8

-----------------------------------------------------------------------------
(* The collector *)

LEMMA TelemetryInitHolds == TelemetryInit => TelemetryIInv
<1> SUFFICES ASSUME TelemetryInit PROVE TelemetryIInv
  OBVIOUS
<1> USE TelemetryAssumption DEF TelemetryInit
<1>1. TelemetryTypeOK
  BY DEF TelemetryTypeOK
<1>2. SlotsHoldNewest /\ FilledFromStart /\ RecordedOnce
  BY DEF SlotsHoldNewest, FilledFromStart, RecordedOnce
<1>3. BatchesAreSent /\ FullRingIsFlushed
  BY DEF BatchesAreSent, FullRingIsFlushed
<1>4. Places
  <2>1. SeqSet(recorded) = {} /\ Newest(recorded, count) = {}
    BY DEF SeqSet, Newest
  <2>2. \A p \in Flushers : InBatch(p) = {}
    BY DEF InBatch, SeqSet
  <2> QED BY <2>1, <2>2 DEF Places
<1> QED BY <1>1, <1>2, <1>3, <1>4 DEF TelemetryIInv

LEMMA TelemetryNextKeeps == TelemetryIInv /\ [TelemetryNext]_tvars => TelemetryIInv'
<1> SUFFICES ASSUME TelemetryIInv, [TelemetryNext]_tvars PROVE TelemetryIInv'
  OBVIOUS
<1>1. CASE \E p \in Recorders, e \in Events \ SeqSet(recorded) : Record(p, e)
  BY <1>1, RecordKeeps
<1>2. CASE Tick \/ Leave
  <2>1. Runner \in Flushers /\ "flush" \in {"idle", "flush", "done"}
    BY DEF Flushers
  <2>2. leaving' \in BOOLEAN
    BY <1>2 DEF Tick, Leave, TelemetryIInv, TelemetryTypeOK
  <2>3. /\ tpc[Runner] # "send" /\ (tpc[Runner] = "flush" => count = 0)
        /\ tpc' = [tpc EXCEPT ![Runner] = "flush"]
        /\ UNCHANGED <<ring, head, count, batch, recorded, posted, failed, overwritten>>
    BY <1>2 DEF Tick, Leave
  <2> QED BY <2>1, <2>2, <2>3, MoveKeeps
<1>3. CASE \E p \in Flushers : FlushStep(p)
  BY <1>3, TakeKeeps, SendKeeps DEF FlushStep
<1>4. CASE UNCHANGED tvars
  <2> USE <1>4 DEF tvars, TelemetryIInv
  <2>1. TelemetryTypeOK' /\ BatchesAreSent' /\ FullRingIsFlushed'
    BY DEF TelemetryTypeOK, BatchesAreSent, FullRingIsFlushed
  <2>2. SlotsHoldNewest' /\ FilledFromStart' /\ RecordedOnce'
    BY DEF SlotsHoldNewest, Slot, FilledFromStart, RecordedOnce
  <2>3. Places'
    BY NoEventMoves
  <2> QED BY <2>1, <2>2, <2>3
<1> QED BY <1>1, <1>2, <1>3, <1>4 DEF TelemetryNext

LEMMA TelemetryIInvImplies == TelemetryIInv => TelemetryInv
<1> SUFFICES ASSUME TelemetryIInv PROVE TelemetryInv
  OBVIOUS
<1>1. /\ RingSeq = [i \in 1..count |-> recorded[Len(recorded) - count + i]]
      /\ InRing = Newest(recorded, count)
  BY CopyIsNewest DEF TelemetryIInv, InRing
<1>2. EventInOnePlace
  BY <1>1 DEF TelemetryIInv, Places, EventInOnePlace
<1> QED BY <1>1, <1>2 DEF TelemetryIInv, TelemetryInv, RingHoldsNewest

\* The inductive invariant holds of every run of the collector.
THEOREM TelemetryCorrect == TelemetrySpec => []TelemetryIInv
<1> QED BY TelemetryInitHolds, TelemetryNextKeeps, PTL DEF TelemetrySpec

\* collector.go:66-127: whatever the number of handlers that record and flush
\* at once and whatever the size of the ring, the ring holds the newest events
\* in their order, every event is in one place only, so none is sent twice or
\* lost unless overwritten or its POST failed, and a full ring is about to be emptied.
THEOREM TelemetryInvCorrect == TelemetrySpec => []TelemetryInv
<1> QED BY TelemetryIInvImplies, TelemetryCorrect, PTL

-----------------------------------------------------------------------------
(* The log *)

\* Who has recorded an answer is past it.
EventsAreNew ==
  \A r \in Requests, n \in 0..MaxAnswers :
    <<r, n>> \in SeqSet(recorded) =>
      /\ n <= answers[r]
      /\ n = answers[r] =>
           /\ pc[r] \in {"upstream", "refused", "badgateway", "answered"}
           /\ kind[r] = "http" => pc[r] = "answered"

\* A chain is closed once another one is in place or on the way out, and no
\* handler is ahead of the chain in use.
ChainsFit ==
  /\ oldCloser <= chain /\ (swapped => oldCloser < chain)
  /\ \A g \in Gens : closed[g] => g < chain \/ process \in {"closed", "down", "crashed"}
  /\ \A r \in Requests : via[r] <= chain

HandlersFit ==
  \A r \in Requests :
    /\ pc[r] = "new" => id[r] = NoId /\ kind[r] = "none"
    /\ kind[r] = "call" => id[r] \in Ids
    /\ pc[r] \in {"new", "request"} => answers[r] = 0
    /\ kind[r] = "http" => answers[r] = 0
    /\ kind[r] = "call" /\ pc[r] \in {"response", "record"} => answers[r] >= 1

-----------------------------------------------------------------------------
(* Types and the collector's steps *)

LEMMA LogTypes ==
  ASSUME TypeOK, TelemetryTypeOK', [Next]_vars
  PROVE  TypeOK'
<1> USE IngressLogAssumption DEF TypeOK, Gens
<1>1. ASSUME NEW r \in Requests, NEW k \in AllKinds, NEW i \in IdsFor(k), Arrive(r, k, i)
      PROVE  TypeOK'
  <2>1. i \in Ids \cup {NoId}
    BY DEF IdsFor
  <2> QED BY <1>1, <2>1 DEF Arrive, chains, server, logged
<1>2. ASSUME NEW r \in Requests, NEW from, NEW to \in {"refused", "upstream", "badgateway", "answered"},
             Goes(r, from, to)
      PROVE  TypeOK'
  BY <1>2 DEF Goes, chains, server, logged
<1>3. ASSUME NEW r \in Requests, NEW e \in Entries, e.gen \in Gens, Enqueue(r, e)
      PROVE  /\ pc' \in [Requests -> {"new", "request", "refused", "upstream", "badgateway",
                                      "response", "record", "answered", "aborted"}]
             /\ queue' \in [Gens -> Seq(Entries)] /\ \A g \in Gens : Len(queue'[g]) <= ChannelSize
             /\ accepted' \in [Gens -> Seq(Entries)] /\ lost' \subseteq Entries
  <2>1. CASE closed[e.gen]
    BY ZenonT(40), <1>3, <2>1 DEF Enqueue
  <2>2. CASE ~closed[e.gen] /\ Len(queue[e.gen]) < ChannelSize
    <3>1. /\ queue' = [queue EXCEPT ![e.gen] = Append(@, e)]
          /\ accepted' = [accepted EXCEPT ![e.gen] = Append(@, e)] /\ lost' = lost
          /\ pc' = [pc EXCEPT ![r] = "record"]
      BY <1>3, <2>2 DEF Enqueue
    <3>2. /\ Append(queue[e.gen], e) \in Seq(Entries) /\ Append(accepted[e.gen], e) \in Seq(Entries)
          /\ Len(Append(queue[e.gen], e)) <= ChannelSize
      BY SMTT(30), <1>3, <2>2
    <3> QED BY <1>3, <3>1, <3>2
  <2>3. CASE ~closed[e.gen] /\ ~(Len(queue[e.gen]) < ChannelSize)
    <3>1. /\ pc' = [pc EXCEPT ![r] = "record"] /\ lost' = lost \cup {e}
          /\ queue' = queue /\ accepted' = accepted
      BY <1>3, <2>3 DEF Enqueue
    <3> QED BY <1>3, <3>1
  <2> QED BY <2>1, <2>2, <2>3
<1>4. ASSUME NEW r \in Requests, LogCall(r)
      PROVE  TypeOK'
  BY <1>4 DEF LogCall, server, logged
<1>5. ASSUME NEW r \in Requests, LogNotification(r)
      PROVE  TypeOK'
  <2>1. Entry(r, 0, r, via[r]) \in Entries /\ Entry(r, 0, r, via[r]).gen \in Gens
    BY DEF Entry, Entries
  <2>2. Enqueue(r, Entry(r, 0, r, via[r]))
    BY <1>5 DEF LogNotification
  <2> QED BY <1>3, <1>5, <2>1, <2>2 DEF LogNotification, server
<1>6. ASSUME NEW r \in Requests, LogResponse(r)
      PROVE  TypeOK'
  <2>1. Found(r) \in Requests \cup {NoRequest} /\ via[r] \in Gens /\ answers[r] \in 0..MaxAnswers
    BY DEF Found
  <2>2. /\ Entry(r, answers[r], Found(r), via[r]) \in Entries
        /\ Entry(r, answers[r], Found(r), via[r]).gen = via[r]
    BY ONLY <2>1 DEF Entry, Entries
  <2>3. PICK e \in Entries : e = Entry(r, answers[r], Found(r), via[r]) /\ e.gen \in Gens
    BY ONLY <2>1, <2>2
  <2>4. Enqueue(r, e)
    BY <1>6, <2>3 DEF LogResponse
  <2>5. pending' \in [Gens -> [Ids -> Requests \cup {NoRequest}]]
    BY <1>6 DEF LogResponse
  <2>6. /\ UNCHANGED <<setting, chain, config, closed, hand, server, kind, id, via, answers, async, rows>>
    BY <1>6 DEF LogResponse
  <2>7. /\ pc' \in [Requests -> {"new", "request", "refused", "upstream", "badgateway",
                                  "response", "record", "answered", "aborted"}]
        /\ queue' \in [Gens -> Seq(Entries)] /\ \A g \in Gens : Len(queue'[g]) <= ChannelSize
        /\ accepted' \in [Gens -> Seq(Entries)] /\ lost' \subseteq Entries
    <3> HIDE DEF TypeOK, Gens
    <3> QED BY <1>3, <2>3, <2>4
  <2> QED BY <2>5, <2>6, <2>7 DEF server
<1>7. ASSUME NEW r \in Requests, RecordEntry(r) \/ UpstreamAnswers(r) \/ AnswerHTTP(r)
      PROVE  TypeOK'
  <2>1. CASE RecordEntry(r)
    BY <2>1 DEF RecordEntry, chains, server, logged
  <2>2. CASE UpstreamAnswers(r)
    <3>1. answers[r] \in 0..MaxAnswers /\ setting.answers \in 0..MaxAnswers /\ MaxAnswers \in Nat
      OBVIOUS
    <3>2. answers[r] < setting.answers
      BY ONLY <2>2 DEF UpstreamAnswers
    <3>3. answers[r] + 1 \in 0..MaxAnswers
      BY ONLY <3>1, <3>2
    <3> QED BY <2>2, <3>3 DEF UpstreamAnswers, chains, server, logged
  <2>3. CASE AnswerHTTP(r)
    <3>1. Entry(r, 0, r, 0) \in Entries
      BY DEF Entry, Entries
    <3> QED BY <2>3, <3>1 DEF AnswerHTTP, chains, server, logged
  <2> QED BY <1>7, <2>1, <2>2, <2>3
<1>8. ASSUME NEW g \in Gens, Receive(g)
      PROVE  TypeOK'
  <2>1. queue[g] \in Seq(Entries) /\ queue[g] # <<>> /\ Len(queue[g]) <= ChannelSize
    BY <1>8 DEF Receive
  <2>2. /\ Head(queue[g]) \in Entries /\ Tail(queue[g]) \in Seq(Entries)
        /\ Len(Tail(queue[g])) <= ChannelSize
    BY <2>1
  <2>3. hand' \in [Gens -> {<<>>} \cup {<<e>> : e \in Entries}]
    BY SMTT(30), <1>8, <2>2 DEF Receive
  <2>4. queue' \in [Gens -> Seq(Entries)] /\ \A h \in Gens : Len(queue'[h]) <= ChannelSize
    BY <1>8, <2>2 DEF Receive
  <2> QED BY <1>8, <2>3, <2>4 DEF Receive, server, requests, logged
<1>9. ASSUME NEW e \in Entries, Insert(e)
      PROVE  rows' \in Seq(Entries) /\ lost' \subseteq Entries
  <2>1. Append(rows, e) \in Seq(Entries)
    BY AppendProperties
  <2> QED BY ZenonT(40), <1>9, <2>1 DEF Insert
<1>10. ASSUME NEW g \in Gens, WriterInserts(g)
       PROVE  TypeOK'
  <2>1. hand[g][1] \in Entries
    BY <1>10 DEF WriterInserts
  <2> QED BY <1>9, <1>10, <2>1 DEF WriterInserts, server, requests
<1>11. ASSUME NEW e \in async, AsyncInserts(e)
       PROVE  TypeOK'
  BY <1>9, <1>11 DEF AsyncInserts, chains, server
<1>12. ASSUME NEW c \in Configs, Reload(c)
       PROVE  TypeOK'
  <2>1. chain + 1 \in Gens
    BY <1>12 DEF Reload
  <2> QED BY <1>12, <2>1 DEF Reload, requests, logged
<1>13. CASE CloseOld \/ CloseFirst
  <2>1. ASSUME NEW g \in Gens, NEW x \in {"up", "closing", "closed", "down", "crashed"}, CloseChain(g, x)
        PROVE  /\ closed' \in [Gens -> BOOLEAN]
               /\ process' \in {"up", "closing", "closed", "down", "crashed"}
    <3>1. (closed[g] \/ HasLog(g)) \in BOOLEAN
      BY DEF HasLog
    <3> QED BY <2>1, <3>1 DEF CloseChain
  <2>2. CASE CloseOld
    <3>1. /\ UNCHANGED <<setting, chain, config, pending, queue, hand, requests, logged>>
          /\ oldCloser' = chain /\ swapped' = FALSE /\ CloseChain(oldCloser, process)
      BY <2>2 DEF CloseOld
    <3>2. /\ oldCloser \in Gens
          /\ process \in {"up", "closing", "closed", "down", "crashed"}
      OBVIOUS
    <3>3. /\ closed' \in [Gens -> BOOLEAN]
          /\ process' \in {"up", "closing", "closed", "down", "crashed"}
      BY ONLY <2>1, <3>1, <3>2
    <3> QED BY <3>1, <3>3 DEF requests, logged
  <2>3. CASE CloseFirst
    <3>1. /\ UNCHANGED <<setting, chain, config, pending, queue, hand, oldCloser, swapped, requests, logged>>
          /\ CloseChain(1, "closed") /\ 1 \in Gens
      BY <2>3 DEF CloseFirst
    <3> QED BY <2>1, <3>1 DEF requests, logged
  <2> QED BY <1>13, <2>2, <2>3
<1>14. CASE Exit \/ Gone
  <2>1. UNCHANGED <<chains, oldCloser, swapped, requests, logged>> /\ process' \in {"closing", "down"}
    BY <1>14 DEF Exit, Gone
  <2> QED BY <2>1 DEF chains, requests, logged
<1>15. CASE UNCHANGED ivars
  BY <1>15 DEF ivars, chains, server, requests, logged
<1> QED BY <1>1, <1>2, <1>4, <1>5, <1>6, <1>7, <1>8, <1>10, <1>11, <1>12, <1>13, <1>14, <1>15
        DEF Next, Handle, FromUpstream, Write, Refuse, Unlogged, UpstreamFails, AnswerEnds,
            Flush, Collect, vars

\* What the log does to the collector is a step of it.
LEMMA CollectorStep ==
  ASSUME TypeOK, EventsAreNew, [Next]_vars
  PROVE  [TelemetryNext]_tvars
<1>1. ASSUME NEW r \in Requests, RecordEntry(r)
      PROVE  [TelemetryNext]_tvars
  <2>1. CASE setting.telemetry
    <3>1. /\ Record(r, <<r, answers[r]>>) /\ r \in Recorders /\ <<r, answers[r]>> \in Events
          /\ pc[r] = "record" /\ answers[r] \in 0..MaxAnswers
      BY <1>1, <2>1, IngressLogAssumption DEF RecordEntry, TypeOK
    <3>2. <<r, answers[r]>> \notin SeqSet(recorded)
      BY <3>1 DEF EventsAreNew
    <3> QED BY <3>1, <3>2 DEF TelemetryNext
  <2>2. CASE ~setting.telemetry
    BY <1>1, <2>2 DEF RecordEntry
  <2> QED BY <2>1, <2>2
<1>2. ASSUME NEW p \in Flushers, Flush(p)
      PROVE  [TelemetryNext]_tvars
  BY <1>2 DEF Flush, Collect, TelemetryNext, FlushStep
<1>3. CASE Collect(Tick) \/ Collect(LeaveOnCancel)
  BY <1>3 DEF Collect, LeaveOnCancel, TelemetryNext
<1>4. ASSUME NEW r \in Requests, NEW k \in AllKinds, NEW i \in IdsFor(k), Arrive(r, k, i)
      PROVE  UNCHANGED tvars
  BY <1>4 DEF Arrive
<1>5. ASSUME NEW r \in Requests,
             \/ Refuse(r) \/ Unlogged(r) \/ LogCall(r) \/ LogNotification(r) \/ LogResponse(r)
             \/ FromUpstream(r)
      PROVE  UNCHANGED tvars
  BY <1>5 DEF Refuse, Unlogged, LogCall, LogNotification, LogResponse, FromUpstream,
              UpstreamFails, AnswerEnds, UpstreamAnswers, AnswerHTTP, Goes
<1>6. ASSUME NEW g \in Gens, Write(g)
      PROVE  UNCHANGED tvars
  BY <1>6 DEF Write, Receive, WriterInserts
<1>7. ASSUME NEW e \in async, AsyncInserts(e)
      PROVE  UNCHANGED tvars
  BY <1>7 DEF AsyncInserts
<1>8. ASSUME NEW c \in Configs, Reload(c)
      PROVE  UNCHANGED tvars
  BY <1>8 DEF Reload
<1>9. CASE CloseOld \/ Exit \/ CloseFirst \/ Gone
  BY <1>9 DEF CloseOld, Exit, CloseFirst, Gone
<1>10. CASE UNCHANGED vars
  BY <1>10 DEF vars
<1> QED BY <1>1, <1>2, <1>3, <1>4, <1>5, <1>6, <1>7, <1>8, <1>9, <1>10 DEF Next, Handle

LEMMA ChainsFitKept ==
  ASSUME TypeOK, ChainsFit, [Next]_vars
  PROVE  ChainsFit'
<1> USE DEF ChainsFit, Gens
<1>1. /\ MaxReloads \in Nat /\ chain \in Gens /\ oldCloser \in Gens
      /\ via \in [Requests -> Gens] /\ closed \in [Gens -> BOOLEAN]
  BY IngressLogAssumption DEF TypeOK
<1>2. ASSUME UNCHANGED <<oldCloser, chain, swapped, closed, process>>,
             NEW r \in Requests, via' \in {via, [via EXCEPT ![r] = chain]}
      PROVE  ChainsFit'
  BY <1>1, <1>2
<1>3. ASSUME UNCHANGED <<oldCloser, chain, swapped, closed, process, via>>
      PROVE  ChainsFit'
  BY <1>3
<1>4. ASSUME NEW r \in Requests, NEW k \in AllKinds, NEW i \in IdsFor(k), Arrive(r, k, i)
      PROVE  ChainsFit'
  BY <1>2, <1>4 DEF Arrive, chains, server
<1>5. ASSUME NEW r \in Requests, Handle(r) \/ FromUpstream(r)
      PROVE  ChainsFit'
  <2>1. CASE UpstreamAnswers(r)
    BY <1>2, <2>1 DEF UpstreamAnswers, chains, server
  <2>2. CASE ~UpstreamAnswers(r)
    BY <1>3, <1>5, <2>2 DEF Handle, FromUpstream, Refuse, Unlogged, LogCall, LogNotification,
       LogResponse, RecordEntry, UpstreamFails, AnswerEnds, AnswerHTTP, Goes, chains, server
  <2> QED BY <2>1, <2>2
<1>6. ASSUME NEW g \in Gens, Write(g)
      PROVE  ChainsFit'
  BY <1>3, <1>6 DEF Write, Receive, WriterInserts, server, requests
<1>7. ASSUME NEW e \in async, AsyncInserts(e)
      PROVE  ChainsFit'
  BY <1>3, <1>7 DEF AsyncInserts, chains, server
<1>8. ASSUME NEW c \in Configs, Reload(c)
      PROVE  ChainsFit'
  <2>1. chain' = chain + 1 /\ UNCHANGED <<closed, process, oldCloser, via>>
    BY <1>8 DEF Reload, requests
  <2> QED BY <1>1, <2>1
<1>9. CASE CloseOld
  <2>1. /\ oldCloser' = chain /\ swapped' = FALSE /\ UNCHANGED <<chain, via>>
        /\ process' \in {process, "crashed"} /\ oldCloser < chain
    BY <1>9 DEF CloseOld, CloseChain, requests
  <2>2. \A g \in Gens : closed'[g] => closed[g] \/ g = oldCloser
    BY <1>1, <1>9 DEF CloseOld, CloseChain
  <2> QED BY <1>1, <2>1, <2>2
<1>10. CASE CloseFirst
  <2>1. UNCHANGED <<chain, via, oldCloser, swapped>> /\ process' \in {"closed", "crashed"}
    BY <1>10 DEF CloseFirst, CloseChain, requests
  <2> QED BY <1>1, <2>1
<1>11. CASE Exit \/ Gone
  <2>1. /\ UNCHANGED <<chain, via, oldCloser, swapped, closed>>
        /\ process \in {"up", "closed"} /\ (process = "closed" => process' = "down")
    BY <1>11 DEF Exit, Gone, chains, requests
  <2> QED BY <1>1, <2>1
<1>12. CASE UNCHANGED ivars
  BY <1>3, <1>12 DEF ivars, chains, server, requests
<1> QED BY <1>4, <1>5, <1>6, <1>7, <1>8, <1>9, <1>10, <1>11, <1>12 DEF Next, Flush, Collect, vars

\* The elements of a longer and of a shorter sequence.
LEMMA SeqSetAppend ==
  ASSUME NEW S, NEW s \in Seq(S), NEW e
  PROVE  SeqSet(Append(s, e)) = SeqSet(s) \cup {e}
<1> DEFINE t == Append(s, e)
<1>1. /\ Len(t) = Len(s) + 1 /\ Len(s) \in Nat /\ t[Len(s) + 1] = e
      /\ \A i \in 1..Len(s) : t[i] = s[i]
  OBVIOUS
<1> HIDE DEF t
<1>2. SeqSet(t) \subseteq SeqSet(s) \cup {e}
  BY <1>1 DEF SeqSet
<1>3. SeqSet(s) \cup {e} \subseteq SeqSet(t)
  BY <1>1 DEF SeqSet
<1> QED BY <1>2, <1>3 DEF t

LEMMA SeqSetTail ==
  ASSUME NEW S, NEW s \in Seq(S), s # <<>>
  PROVE  SeqSet(s) = {Head(s)} \cup SeqSet(Tail(s))
<1> DEFINE t == Tail(s)
<1>1. /\ Len(s) \in Nat \ {0} /\ Len(t) = Len(s) - 1 /\ Head(s) = s[1]
      /\ \A i \in 1..Len(t) : t[i] = s[i + 1]
  OBVIOUS
<1> HIDE DEF t
<1>2. SeqSet(s) \subseteq {Head(s)} \cup SeqSet(t)
  <2>1. ASSUME NEW i \in 1..Len(s) PROVE s[i] \in {Head(s)} \cup SeqSet(t)
    <3>1. CASE i = 1
      BY <1>1, <3>1
    <3>2. CASE i # 1
      <4>1. i - 1 \in 1..Len(t) /\ t[i - 1] = s[i]
        BY <1>1, <3>2
      <4> QED BY <4>1 DEF SeqSet
    <3> QED BY <3>1, <3>2
  <2> QED BY <2>1 DEF SeqSet
<1>3. {Head(s)} \cup SeqSet(t) \subseteq SeqSet(s)
  <2>1. ASSUME NEW i \in 1..Len(t) PROVE t[i] \in SeqSet(s)
    <3>1. i + 1 \in 1..Len(s) /\ t[i] = s[i + 1]
      BY <1>1
    <3> QED BY <3>1 DEF SeqSet
  <2> QED BY <1>1, <2>1 DEF SeqSet
<1> QED BY <1>2, <1>3 DEF t

\* Entering an entry moves its handler, and nothing else of the requests.
LEMMA EnqueueMoves ==
  ASSUME NEW r, NEW e, Enqueue(r, e)
  PROVE  \E to \in {"aborted", "record"} : pc' = [pc EXCEPT ![r] = to]
BY DEF Enqueue

\* A handler that moves on, past an answer that is recorded or before it.
LEMMA MoveFits ==
  ASSUME TypeOK, HandlersFit, EventsAreNew,
         NEW r \in Requests,
         NEW to \in {"refused", "upstream", "badgateway", "response", "record", "answered", "aborted"},
         pc' = [pc EXCEPT ![r] = to], UNCHANGED <<kind, id, answers, recorded>>,
         pc[r] # "new", to \in {"badgateway", "answered"} => pc[r] = "upstream",
         to \in {"response", "record"} /\ kind[r] = "call" => answers[r] >= 1,
         \/ <<r, answers[r]>> \notin SeqSet(recorded)
         \/ pc[r] = "upstream" /\ to \in {"refused", "badgateway", "answered"}
  PROVE  HandlersFit' /\ EventsAreNew'
<1>1. pc'[r] = to /\ \A q \in Requests \ {r} : pc'[q] = pc[q]
  BY DEF TypeOK
<1>2. HandlersFit'
  BY <1>1 DEF HandlersFit
<1>3. SeqSet(recorded)' = SeqSet(recorded)
  BY DEF SeqSet
<1>4. EventsAreNew'
  BY <1>1, <1>3 DEF EventsAreNew
<1> QED BY <1>2, <1>4

LEMMA NothingMoves ==
  ASSUME HandlersFit, EventsAreNew, UNCHANGED <<pc, kind, id, answers, recorded>>
  PROVE  HandlersFit' /\ EventsAreNew'
BY DEF HandlersFit, EventsAreNew, SeqSet

LEMMA HandlersKept ==
  ASSUME TypeOK, TelemetryIInv, HandlersFit, EventsAreNew, [Next]_vars
  PROVE  HandlersFit' /\ EventsAreNew'
<1>0. /\ pc \in [Requests -> {"new", "request", "refused", "upstream", "badgateway",
                              "response", "record", "answered", "aborted"}]
      /\ kind \in [Requests -> AllKinds \cup {"none"}] /\ id \in [Requests -> Ids \cup {NoId}]
      /\ answers \in [Requests -> 0..MaxAnswers] /\ recorded \in Seq(Events)
  BY DEF TypeOK, TelemetryTypeOK
<1>1. ASSUME NEW r \in Requests, NEW k \in AllKinds, NEW i \in IdsFor(k), Arrive(r, k, i)
      PROVE  HandlersFit' /\ EventsAreNew'
  <2>1. /\ pc[r] = "new" /\ kind' = [kind EXCEPT ![r] = k] /\ id' = [id EXCEPT ![r] = i]
        /\ UNCHANGED <<answers, recorded>>
    BY <1>1 DEF Arrive, tvars
  <2>2. PICK to \in {"request", "upstream"} : pc' = [pc EXCEPT ![r] = to]
    BY <1>1 DEF Arrive
  <2>3. k # "none" /\ (k = "call" => i \in Ids) /\ answers[r] = 0
    BY <2>1 DEF AllKinds, IdsFor, HandlersFit
  <2>4. HandlersFit'
    BY <1>0, <2>1, <2>2, <2>3 DEF HandlersFit
  <2>5. EventsAreNew'
    BY <1>0, <2>1, <2>2 DEF EventsAreNew, SeqSet
  <2> QED BY <2>4, <2>5
<1>2. ASSUME NEW r \in Requests, Refuse(r) \/ Unlogged(r)
      PROVE  HandlersFit' /\ EventsAreNew'
  <2>1. /\ UNCHANGED <<kind, id, answers, recorded>>
        /\ \/ /\ pc[r] \in {"request", "response"}
              /\ \E to \in {"refused", "upstream"} : pc' = [pc EXCEPT ![r] = to]
           \/ pc[r] = "upstream" /\ pc' = [pc EXCEPT ![r] = "refused"]
    BY <1>2 DEF Refuse, Unlogged, Goes, tvars
  <2>2. pc[r] \in {"request", "response"} => <<r, answers[r]>> \notin SeqSet(recorded)
    BY <1>0 DEF EventsAreNew
  <2> QED BY <2>1, <2>2, MoveFits
<1>3. ASSUME NEW r \in Requests, LogCall(r) \/ LogNotification(r) \/ LogResponse(r)
      PROVE  HandlersFit' /\ EventsAreNew'
  <2>1. /\ UNCHANGED <<kind, id, answers, recorded>> /\ pc[r] \in {"request", "response"}
        /\ pc[r] = "request" /\ kind[r] = "call" => pc' = [pc EXCEPT ![r] = "upstream"]
    BY <1>3 DEF LogCall, LogNotification, LogResponse, tvars
  <2>2. \E to \in {"aborted", "record", "upstream"} : pc' = [pc EXCEPT ![r] = to]
    BY <1>3, EnqueueMoves DEF LogCall, LogNotification, LogResponse
  <2>3. <<r, answers[r]>> \notin SeqSet(recorded)
    BY <1>0, <2>1 DEF EventsAreNew
  <2>4. pc[r] = "response" /\ kind[r] = "call" => answers[r] >= 1
    BY DEF HandlersFit
  <2>5. CASE pc[r] = "request" /\ kind[r] = "call"
    BY <2>1, <2>3, <2>5, MoveFits
  <2>6. CASE ~(pc[r] = "request" /\ kind[r] = "call")
    BY <2>1, <2>2, <2>3, <2>4, <2>6, MoveFits
  <2> QED BY <2>5, <2>6
<1>4. ASSUME NEW r \in Requests, UpstreamFails(r) \/ AnswerEnds(r)
      PROVE  HandlersFit' /\ EventsAreNew'
  <2>1. /\ pc[r] = "upstream" /\ UNCHANGED <<kind, id, answers, recorded>>
        /\ \E to \in {"badgateway", "answered"} : pc' = [pc EXCEPT ![r] = to]
    BY <1>4 DEF UpstreamFails, AnswerEnds, Goes, tvars
  <2> QED BY <2>1, MoveFits
<1>5. ASSUME NEW r \in Requests, UpstreamAnswers(r)
      PROVE  HandlersFit' /\ EventsAreNew'
  <2>1. /\ pc[r] = "upstream" /\ kind[r] # "http" /\ UNCHANGED <<kind, id, recorded>>
        /\ answers' = [answers EXCEPT ![r] = @ + 1] /\ pc' = [pc EXCEPT ![r] = "response"]
    BY <1>5 DEF UpstreamAnswers, tvars
  <2>2. /\ answers'[r] = answers[r] + 1 /\ pc'[r] = "response"
        /\ \A q \in Requests \ {r} : answers'[q] = answers[q] /\ pc'[q] = pc[q]
        /\ \A q \in Requests : answers[q] \in Nat
    BY <1>0, <2>1
  <2>3. HandlersFit'
    BY <2>1, <2>2 DEF HandlersFit
  <2>4. EventsAreNew'
    BY <2>1, <2>2 DEF EventsAreNew, SeqSet
  <2> QED BY <2>3, <2>4
<1>6. ASSUME NEW r \in Requests, AnswerHTTP(r)
      PROVE  HandlersFit' /\ EventsAreNew'
  <2>1. /\ pc[r] = "upstream" /\ kind[r] = "http" /\ UNCHANGED <<kind, id, answers, recorded>>
        /\ pc' = [pc EXCEPT ![r] = "record"]
    BY <1>6 DEF AnswerHTTP, tvars
  <2>2. <<r, answers[r]>> \notin SeqSet(recorded)
    BY <1>0, <2>1 DEF EventsAreNew
  <2> QED BY <2>1, <2>2, MoveFits
<1>7. ASSUME NEW r \in Requests, RecordEntry(r)
      PROVE  HandlersFit' /\ EventsAreNew'
  <2>1. pc[r] = "record" /\ UNCHANGED <<kind, id, answers>>
    BY <1>7 DEF RecordEntry
  <2>2. PICK to \in {"answered", "upstream"} :
          pc' = [pc EXCEPT ![r] = to] /\ (kind[r] = "http" => to = "answered")
    BY <1>7 DEF RecordEntry
  <2>3. SeqSet(recorded)' \subseteq SeqSet(recorded) \cup {<<r, answers[r]>>}
    <3>1. recorded' = recorded \/ recorded' = Append(recorded, <<r, answers[r]>>)
      BY <1>7 DEF RecordEntry, Record, tvars
    <3>2. SeqSet(Append(recorded, <<r, answers[r]>>)) = SeqSet(recorded) \cup {<<r, answers[r]>>}
      BY <1>0, SeqSetAppend
    <3> QED BY <3>1, <3>2 DEF SeqSet
  <2>4. pc'[r] = to /\ \A q \in Requests \ {r} : pc'[q] = pc[q]
    BY <1>0, <2>2
  <2>5. HandlersFit'
    BY <2>1, <2>4 DEF HandlersFit
  <2>6. EventsAreNew'
    BY <1>0, <2>1, <2>2, <2>3, <2>4 DEF EventsAreNew
  <2> QED BY <2>5, <2>6
<1>8. ASSUME NEW p \in Flushers, Flush(p)
      PROVE  HandlersFit' /\ EventsAreNew'
  <2>1. UNCHANGED <<pc, kind, id, answers, recorded>>
    BY <1>8 DEF Flush, Collect, Take, SendOk, SendFails, SendEnds, ivars, requests
  <2> QED BY <2>1, NothingMoves
<1>9. CASE Collect(Tick) \/ Collect(LeaveOnCancel)
  <2>1. UNCHANGED <<pc, kind, id, answers, recorded>>
    BY <1>9 DEF Collect, Tick, LeaveOnCancel, Leave, ivars, requests
  <2> QED BY <2>1, NothingMoves
<1>10. ASSUME NEW g \in Gens, Write(g)
       PROVE  HandlersFit' /\ EventsAreNew'
  <2>1. UNCHANGED <<pc, kind, id, answers, recorded>>
    BY <1>10 DEF Write, Receive, WriterInserts, requests, tvars
  <2> QED BY <2>1, NothingMoves
<1>11. ASSUME NEW e \in async, AsyncInserts(e)
       PROVE  HandlersFit' /\ EventsAreNew'
  <2>1. UNCHANGED <<pc, kind, id, answers, recorded>>
    BY <1>11 DEF AsyncInserts, tvars
  <2> QED BY <2>1, NothingMoves
<1>12. ASSUME (\E c \in Configs : Reload(c)) \/ CloseOld \/ Exit \/ CloseFirst \/ Gone \/ UNCHANGED vars
       PROVE  HandlersFit' /\ EventsAreNew'
  <2>1. UNCHANGED <<pc, kind, id, answers, recorded>>
    BY <1>12 DEF Reload, CloseOld, Exit, CloseFirst, Gone, vars, ivars, requests, tvars
  <2> QED BY <2>1, NothingMoves
<1> QED BY <1>1, <1>2, <1>3, <1>4, <1>5, <1>6, <1>7, <1>8, <1>9, <1>10, <1>11, <1>12
        DEF Next, Handle, FromUpstream

-----------------------------------------------------------------------------
(* Where the entries are *)

LEMMA IsMade ==
  ASSUME NEW e
  PROVE  e \in Made <=>
           \/ e \in SeqSet(rows) \/ e \in lost \/ e \in async
           \/ \E g \in Gens : e \in SeqSet(queue[g]) \/ e \in SeqSet(hand[g])
BY DEF Made

LEMMA MadeTypes ==
  ASSUME TypeOK PROVE Made \subseteq Entries
<1>1. \A g \in Gens : SeqSet(queue[g]) \subseteq Entries /\ SeqSet(hand[g]) \subseteq Entries
  BY DEF TypeOK, SeqSet
<1>2. SeqSet(rows) \subseteq Entries
  BY DEF TypeOK, SeqSet
<1> QED BY <1>1, <1>2 DEF TypeOK, Made

LEMMA MadeByEnqueue ==
  ASSUME TypeOK, NEW r \in Requests, NEW e \in Entries, e.gen \in Gens, Enqueue(r, e),
         UNCHANGED <<rows, async, hand>>
  PROVE  /\ pc'[r] = "record" => Made' = Made \cup {e}
         /\ pc'[r] # "record" => Made' = Made
<1> DEFINE g == e.gen
<1>1. pc \in [Requests -> {"new", "request", "refused", "upstream", "badgateway",
                           "response", "record", "answered", "aborted"}]
      /\ queue \in [Gens -> Seq(Entries)] /\ queue[g] \in Seq(Entries)
  BY DEF TypeOK
<1>2. CASE closed[g]
  <2>1. pc'[r] = "aborted" /\ UNCHANGED <<queue, lost>>
    BY <1>1, <1>2 DEF Enqueue
  <2> QED BY <2>1 DEF Made
<1>3. CASE ~closed[g] /\ Len(queue[g]) < ChannelSize
  <2>1. pc'[r] = "record" /\ lost' = lost /\ queue' = [queue EXCEPT ![g] = Append(@, e)]
    BY <1>1, <1>3 DEF Enqueue
  <2>2. SeqSet(queue'[g]) = SeqSet(queue[g]) \cup {e}
    BY <1>1, <2>1, SeqSetAppend
  <2>3. \A h \in Gens : h # g => queue'[h] = queue[h]
    BY <1>1, <2>1
  <2>4. ASSUME NEW x PROVE x \in Made' <=> x \in Made \cup {e}
    <3>1. x \in Made' <=>
            \/ x \in SeqSet(rows) \/ x \in lost \/ x \in async
            \/ \E h \in Gens : x \in SeqSet(queue'[h]) \/ x \in SeqSet(hand[h])
      BY <2>1 DEF Made
    <3>2. \A h \in Gens : h # g => SeqSet(queue'[h]) = SeqSet(queue[h])
      BY <2>3
    <3>3. g \in Gens
      OBVIOUS
    <3> HIDE DEF g
    <3> QED BY <2>2, <3>1, <3>2, <3>3, IsMade
  <2> QED BY <2>1, <2>4
<1>4. CASE ~closed[g] /\ ~(Len(queue[g]) < ChannelSize)
  <2>1. pc'[r] = "record" /\ lost' = lost \cup {e} /\ queue' = queue
    BY <1>1, <1>4 DEF Enqueue
  <2> QED BY <2>1 DEF Made
<1> QED BY <1>2, <1>3, <1>4

LEMMA MadeByReceive ==
  ASSUME TypeOK, NEW g \in Gens, Receive(g)
  PROVE  Made' = Made
<1>1. /\ queue \in [Gens -> Seq(Entries)] /\ queue[g] \in Seq(Entries) /\ queue[g] # <<>>
      /\ hand \in [Gens -> {<<>>} \cup {<<e>> : e \in Entries}] /\ hand[g] = <<>>
      /\ hand' = [hand EXCEPT ![g] = <<Head(queue[g])>>]
      /\ queue' = [queue EXCEPT ![g] = Tail(@)]
      /\ UNCHANGED <<rows, lost, async>>
  BY DEF TypeOK, Receive, requests, logged
<1>2. /\ queue'[g] = Tail(queue[g]) /\ hand'[g] = <<Head(queue[g])>>
      /\ \A h \in Gens : h # g => queue'[h] = queue[h] /\ hand'[h] = hand[h]
  BY <1>1
<1>3. SeqSet(queue[g]) = {Head(queue[g])} \cup SeqSet(queue'[g])
  BY <1>1, <1>2, SeqSetTail
<1>4. SeqSet(hand[g]) = {} /\ SeqSet(hand'[g]) = {Head(queue[g])}
  <2>1. SeqSet(<<>>) = {} /\ \A x : SeqSet(<<x>>) = {x}
    BY DEF SeqSet
  <2> QED BY <1>1, <1>2, <2>1
<1>5. ASSUME NEW x PROVE x \in Made' <=> x \in Made
  <2>1. x \in Made' <=>
          \/ x \in SeqSet(rows) \/ x \in lost \/ x \in async
          \/ \E h \in Gens : x \in SeqSet(queue'[h]) \/ x \in SeqSet(hand'[h])
    BY <1>1 DEF Made
  <2>2. \A h \in Gens : h # g =>
          SeqSet(queue'[h]) = SeqSet(queue[h]) /\ SeqSet(hand'[h]) = SeqSet(hand[h])
    BY <1>2
  <2> QED BY <1>3, <1>4, <2>1, <2>2, IsMade
<1> QED BY <1>5

LEMMA MadeByInserts ==
  ASSUME TypeOK, (\E g \in Gens : WriterInserts(g)) \/ (\E e \in async : AsyncInserts(e))
  PROVE  Made' = Made
<1>1. ASSUME NEW e \in Entries, Insert(e)
      PROVE  SeqSet(rows') \cup lost' = SeqSet(rows) \cup lost \cup {e}
  <2>1. SeqSet(Append(rows, e)) = SeqSet(rows) \cup {e}
    BY SeqSetAppend DEF TypeOK
  <2> QED BY <1>1, <2>1 DEF Insert
<1>2. ASSUME NEW g \in Gens, WriterInserts(g)
      PROVE  Made' = Made
  <2>1. /\ hand \in [Gens -> {<<>>} \cup {<<e>> : e \in Entries}] /\ hand[g] # <<>>
        /\ hand' = [hand EXCEPT ![g] = <<>>] /\ UNCHANGED <<queue, async>> /\ Insert(hand[g][1])
    BY <1>2 DEF TypeOK, WriterInserts, requests
  <2>2. PICK e \in Entries : hand[g] = <<e>>
    BY <2>1
  <2>3. SeqSet(rows') \cup lost' = SeqSet(rows) \cup lost \cup {e}
    BY <1>1, <2>1, <2>2
  <2>4. SeqSet(hand[g]) = {e} /\ SeqSet(hand'[g]) = {}
    BY <2>1, <2>2 DEF SeqSet
  <2>5. \A h \in Gens : h # g => hand'[h] = hand[h]
    BY <2>1
  <2>6. ASSUME NEW x PROVE x \in Made' <=> x \in Made
    <3>1. x \in Made' <=>
            \/ x \in SeqSet(rows') \cup lost' \/ x \in async
            \/ \E h \in Gens : x \in SeqSet(queue[h]) \/ x \in SeqSet(hand'[h])
      BY <2>1 DEF Made, SeqSet
    <3>2. \A h \in Gens : h # g => SeqSet(hand'[h]) = SeqSet(hand[h])
      BY <2>5
    <3> QED BY <2>3, <2>4, <3>1, <3>2, IsMade
  <2> QED BY <2>6
<1>3. ASSUME NEW e \in async, AsyncInserts(e)
      PROVE  Made' = Made
  <2>1. /\ UNCHANGED <<queue, hand>> /\ async' = async \ {e} /\ Insert(e) /\ e \in Entries
    BY <1>3 DEF TypeOK, AsyncInserts, chains
  <2>2. SeqSet(rows') \cup lost' = SeqSet(rows) \cup lost \cup {e}
    BY <1>1, <2>1
  <2>3. ASSUME NEW x PROVE x \in Made' <=> x \in Made
    <3>1. x \in Made' <=>
            \/ x \in SeqSet(rows') \cup lost' \/ x \in async \ {e}
            \/ \E h \in Gens : x \in SeqSet(queue[h]) \/ x \in SeqSet(hand[h])
      BY <2>1 DEF Made, SeqSet
    <3> QED BY <2>1, <2>2, <3>1, IsMade
  <2> QED BY <2>3
<1> QED BY <1>2, <1>3

-----------------------------------------------------------------------------
(* What entries say *)

\* Nobody else has the id of r.
Alone(r) == \A q \in Requests \ {r} : id[q] # id[r]

\* What is pending under an id, and what an entry names, has that id.
NamesFit ==
  /\ \A g \in Gens, i \in Ids :
       pending[g][i] # NoRequest => pc[pending[g][i]] # "new" /\ id[pending[g][i]] = i
  /\ \A e \in Made :
       /\ pc[e.req] # "new"
       /\ e.by # NoRequest => pc[e.by] # "new" /\ id[e.by] = id[e.req]

\* Until a reload a call that shares its id with nobody is pending under it when
\* its first answer comes, and named by it.
OwnNames ==
  chain = 1 =>
    \A r \in Requests :
      kind[r] = "call" /\ Alone(r) =>
        /\ HasLog(1) /\ (\/ pc[r] = "upstream" /\ answers[r] = 0
                         \/ pc[r] = "response" /\ answers[r] = 1)
             => pending[1][id[r]] = r
        /\ \A e \in Made : e.req = r /\ e.n = 1 => e.by = r

\* Of what the log of chain g has accepted (acc) the last are on their way (way),
\* and of those before, each is in the table (rws) once or lost (lst), in order.
OrderParts(acc, way, rws, lst, g, done, its) ==
  /\ done >= 0
  /\ \A k \in 1..Len(way) : acc[done + k] = way[k] /\ way[k] \notin lst
  /\ \A k \in 1..Len(acc) : acc[k].gen = g
  /\ \A k, l \in 1..Len(acc) : acc[k] = acc[l] => k = l
  /\ \A i \in its : \E k \in 1..done : rws[i] = acc[k] /\ acc[k] \notin lst
  /\ \A k \in 1..done : acc[k] \notin lst => \E i \in its : rws[i] = acc[k]
  /\ \A i, j \in its, k, l \in 1..done : i < j /\ rws[i] = acc[k] /\ rws[j] = acc[l] => k < l

InOrderOf(acc, way, rws, lst, g) ==
  OrderParts(acc, way, rws, lst, g, Len(acc) - Len(way), {i \in 1..Len(rws) : rws[i].gen = g})

\* A log's entries are in the order it has accepted them.
OrderInv == \A g \in Gens : InOrderOf(accepted[g], hand[g] \o queue[g], rows, lost, g)

\* Whose entry has been made is past it; logRequest's entries are nobody's queue's.
EntriesAreNew ==
  /\ \A e \in Made :
       /\ e.n <= answers[e.req]
       /\ e.n = answers[e.req] => pc[e.req] \notin {"new", "request", "response"}
  /\ \A e \in async : e.gen = 0

LogIInv ==
  /\ TypeOK /\ TelemetryIInv
  /\ EventsAreNew /\ ChainsFit /\ HandlersFit
  /\ NamesFit /\ OwnNames /\ EntryHasEvent
  /\ EntriesAreNew /\ OrderInv

\* Steps after which names, ids, what is pending and the entries are the same.
LEMMA SameNames ==
  ASSUME TypeOK, HandlersFit, NamesFit, OwnNames,
         UNCHANGED <<id, kind, pending, chain, config, answers>>, Made' = Made,
         \A q \in Requests : pc'[q] # pc[q] =>
           /\ pc[q] # "new" /\ pc'[q] \notin {"new", "response"}
           /\ pc'[q] = "upstream" /\ kind[q] = "call" /\ answers[q] = 0 /\ chain = 1 => ~HasLog(1)
  PROVE  NamesFit' /\ OwnNames'
<1>1. pending \in [Gens -> [Ids -> Requests \cup {NoRequest}]] /\ Made \subseteq Entries
  BY MadeTypes DEF TypeOK
<1>2. NamesFit'
  <2>1. ASSUME NEW g \in Gens, NEW i \in Ids, pending[g][i] # NoRequest
        PROVE  pc'[pending[g][i]] # "new" /\ id[pending[g][i]] = i
    BY <1>1, <2>1 DEF NamesFit
  <2>2. ASSUME NEW e \in Made
        PROVE  /\ pc'[e.req] # "new"
               /\ e.by # NoRequest => pc'[e.by] # "new" /\ id[e.by] = id[e.req]
    <3>1. e.req \in Requests /\ e.by \in Requests \cup {NoRequest}
      BY <1>1 DEF Entries
    <3> QED BY <3>1 DEF NamesFit
  <2> QED BY <2>1, <2>2 DEF NamesFit
<1>3. OwnNames'
  BY DEF OwnNames, Alone, HasLog
<1> QED BY <1>2, <1>3

\* The entry of a request for itself.
LEMMA OwnEntry ==
  ASSUME NEW r \in Requests, NEW g \in {0} \cup Gens
  PROVE  LET e == Entry(r, 0, r, g) IN e \in Entries /\ e.req = r /\ e.n = 0 /\ e.by = r /\ e.gen = g
<1>1. 0 \in 0..MaxAnswers
  BY IngressLogAssumption
<1> QED BY <1>1 DEF Entry, Entries

\* An entry made by a handler that is past its arrival and no longer waits for
\* its first answer.
LEMMA NewEntryNames ==
  ASSUME TypeOK, HandlersFit, NamesFit, OwnNames,
         NEW r \in Requests, NEW e \in Entries, e.req = r, pc[r] # "new",
         NEW to \in {"record", "aborted"}, pc' = [pc EXCEPT ![r] = to],
         UNCHANGED <<id, kind, pending, chain, config, answers>>,
         Made' \in {Made, Made \cup {e}}, e.by = r, e.n = 0
  PROVE  NamesFit' /\ OwnNames'
<1>1. /\ pending \in [Gens -> [Ids -> Requests \cup {NoRequest}]] /\ Made \subseteq Entries
      /\ pc'[r] = to /\ \A q \in Requests \ {r} : pc'[q] = pc[q]
  BY MadeTypes DEF TypeOK
<1>2. NamesFit'
  <2>1. ASSUME NEW g \in Gens, NEW i \in Ids, pending[g][i] # NoRequest
        PROVE  pc'[pending[g][i]] # "new" /\ id[pending[g][i]] = i
    BY <1>1, <2>1 DEF NamesFit
  <2>2. ASSUME NEW x \in Made \cup {e}
        PROVE  /\ pc'[x.req] # "new"
               /\ x.by # NoRequest => pc'[x.by] # "new" /\ id[x.by] = id[x.req]
    <3>1. x.req \in Requests /\ x.by \in Requests \cup {NoRequest}
      BY <1>1 DEF Entries
    <3> QED BY <1>1, <3>1 DEF NamesFit
  <2> QED BY <2>1, <2>2 DEF NamesFit
<1>3. OwnNames'
  BY <1>1 DEF OwnNames, Alone, HasLog
<1> QED BY <1>2, <1>3

LEMMA ArriveNames ==
  ASSUME TypeOK, HandlersFit, NamesFit, OwnNames,
         NEW r \in Requests, NEW k \in AllKinds, NEW i \in IdsFor(k), Arrive(r, k, i)
  PROVE  NamesFit' /\ OwnNames'
<1>1. /\ pc[r] = "new" /\ kind' = [kind EXCEPT ![r] = k] /\ id' = [id EXCEPT ![r] = i]
      /\ UNCHANGED <<pending, chain, config, answers, queue, hand, async, rows, lost>>
      /\ \E to \in {"request", "upstream"} : pc' = [pc EXCEPT ![r] = to]
      /\ k = "call" => pc' = [pc EXCEPT ![r] = "request"]
  BY DEF Arrive, chains, logged
<1>2. Made' = Made
  BY <1>1 DEF Made
<1>3. /\ pc'[r] \in {"request", "upstream"} /\ kind'[r] = k /\ id'[r] = i
      /\ k = "call" => pc'[r] = "request"
      /\ \A q \in Requests \ {r} : pc'[q] = pc[q] /\ kind'[q] = kind[q] /\ id'[q] = id[q]
  BY <1>1 DEF TypeOK
<1>4. /\ pending \in [Gens -> [Ids -> Requests \cup {NoRequest}]] /\ Made \subseteq Entries
  BY MadeTypes DEF TypeOK
<1>5. \A e \in Made : /\ e.req \in Requests \ {r}
                      /\ e.by # NoRequest => e.by \in Requests \ {r}
  BY <1>1, <1>4 DEF NamesFit, Entries
<1>6. \A g \in Gens, j \in Ids : pending[g][j] # NoRequest => pending[g][j] \in Requests \ {r}
  BY <1>1, <1>4 DEF NamesFit
<1>7. NamesFit'
  BY <1>1, <1>2, <1>3, <1>5, <1>6 DEF NamesFit
<1>8. ASSUME NEW q \in Requests \ {r}, kind[q] = "call", Alone(q)'
      PROVE  Alone(q)
  BY <1>1, <1>3, <1>8, IngressLogAssumption DEF Alone, HandlersFit
<1>9. OwnNames'
  BY <1>1, <1>2, <1>3, <1>5, <1>8 DEF OwnNames, HasLog
<1> QED BY <1>7, <1>9

LEMMA LogCallNames ==
  ASSUME TypeOK, ChainsFit, HandlersFit, NamesFit, OwnNames, NEW r \in Requests, LogCall(r)
  PROVE  NamesFit' /\ OwnNames'
<1>1. /\ pc[r] = "request" /\ kind[r] = "call" /\ via[r] \in Gens /\ id[r] \in Ids
      /\ pending' = [pending EXCEPT ![via[r]][id[r]] = r]
      /\ pc' = [pc EXCEPT ![r] = "upstream"]
      /\ UNCHANGED <<chain, config, queue, hand, kind, id, answers, async, rows, lost>>
  BY DEF LogCall, TypeOK, HandlersFit, logged
<1>2. Made' = Made
  BY <1>1 DEF Made
<1>3. /\ pending \in [Gens -> [Ids -> Requests \cup {NoRequest}]] /\ Made \subseteq Entries
      /\ pc'[r] = "upstream" /\ \A q \in Requests \ {r} : pc'[q] = pc[q]
  BY <1>1, MadeTypes DEF TypeOK
<1>4. \A g \in Gens, i \in Ids : pending'[g][i] = IF g = via[r] /\ i = id[r] THEN r ELSE pending[g][i]
  BY <1>1, <1>3
<1>5. NamesFit'
  <2>1. ASSUME NEW g \in Gens, NEW i \in Ids, pending'[g][i] # NoRequest
        PROVE  pc'[pending'[g][i]] # "new" /\ id[pending'[g][i]] = i
    BY <1>1, <1>3, <1>4, <2>1 DEF NamesFit
  <2>2. ASSUME NEW e \in Made
        PROVE  /\ pc'[e.req] # "new"
               /\ e.by # NoRequest => pc'[e.by] # "new" /\ id[e.by] = id[e.req]
    <3>1. e.req \in Requests /\ e.by \in Requests \cup {NoRequest}
      BY <1>3 DEF Entries
    <3> QED BY <1>3, <3>1 DEF NamesFit
  <2> QED BY <1>1, <1>2, <2>1, <2>2 DEF NamesFit
<1>6. ASSUME chain = 1 PROVE via[r] = 1 /\ 1 \in Gens
  BY <1>6 DEF ChainsFit, TypeOK, Gens
<1>7. ASSUME NEW q \in Requests, chain = 1, kind[q] = "call", Alone(q),
             HasLog(1), (pc'[q] = "upstream" /\ answers[q] = 0) \/ (pc'[q] = "response" /\ answers[q] = 1)
      PROVE  pending'[1][id[q]] = q
  <2>1. CASE q = r
    BY <1>1, <1>4, <1>6, <1>7, <2>1
  <2>2. CASE q # r
    <3>1. id[q] \in Ids /\ id[q] # id[r]
      BY <1>7, <2>2 DEF HandlersFit, Alone
    <3>2. pending[1][id[q]] = q
      BY <1>3, <1>7, <2>2 DEF OwnNames
    <3> QED BY <1>4, <1>6, <1>7, <3>1, <3>2
  <2> QED BY <2>1, <2>2
<1>8. OwnNames'
  BY <1>1, <1>2, <1>7 DEF OwnNames, Alone, HasLog
<1> QED BY <1>5, <1>8

LEMMA LogResponseNames ==
  ASSUME TypeOK, ChainsFit, HandlersFit, NamesFit, OwnNames, NEW r \in Requests, LogResponse(r)
  PROVE  NamesFit' /\ OwnNames'
<1>1. /\ pc[r] = "response" /\ HasLog(via[r]) /\ via[r] \in Gens
      /\ pending' = IF id[r] \in Ids THEN [pending EXCEPT ![via[r]][id[r]] = NoRequest] ELSE pending
      /\ UNCHANGED <<chain, config, hand, kind, id, answers, async, rows>>
  BY DEF LogResponse, TypeOK
<1>2. /\ Found(r) \in Requests \cup {NoRequest} /\ answers[r] \in 0..MaxAnswers
      /\ Found(r) # NoRequest => pc[Found(r)] # "new" /\ id[Found(r)] = id[r]
  BY <1>1 DEF TypeOK, Found, NamesFit
<1>3. /\ Entry(r, answers[r], Found(r), via[r]) \in Entries
      /\ Entry(r, answers[r], Found(r), via[r]).gen = via[r]
  BY ONLY <1>1, <1>2 DEF Entry, Entries
<1>4. PICK e \in Entries : /\ e = Entry(r, answers[r], Found(r), via[r]) /\ e.gen \in Gens
                           /\ e.req = r /\ e.n = answers[r] /\ e.by = Found(r)
  BY ONLY <1>1, <1>3 DEF Entry
<1>5. Enqueue(r, e)
  BY <1>4 DEF LogResponse
<1>6. Made' \in {Made, Made \cup {e}}
  BY <1>1, <1>4, <1>5, MadeByEnqueue
<1>7. PICK to \in {"aborted", "record"} : pc' = [pc EXCEPT ![r] = to]
  BY <1>5, EnqueueMoves
<1>8. /\ pending \in [Gens -> [Ids -> Requests \cup {NoRequest}]] /\ Made \subseteq Entries
      /\ pc'[r] = to /\ \A q \in Requests \ {r} : pc'[q] = pc[q]
  BY <1>7, MadeTypes DEF TypeOK
<1>9. \A g \in Gens, i \in Ids :
        pending'[g][i] = IF g = via[r] /\ i = id[r] THEN NoRequest ELSE pending[g][i]
  BY <1>1, <1>8
<1>10. NamesFit'
  <2>1. ASSUME NEW g \in Gens, NEW i \in Ids, pending'[g][i] # NoRequest
        PROVE  pc'[pending'[g][i]] # "new" /\ id[pending'[g][i]] = i
    BY <1>8, <1>9, <2>1 DEF NamesFit
  <2>2. ASSUME NEW x \in Made \cup {e}
        PROVE  /\ pc'[x.req] # "new"
               /\ x.by # NoRequest => pc'[x.by] # "new" /\ id[x.by] = id[x.req]
    <3>1. x.req \in Requests /\ x.by \in Requests \cup {NoRequest}
      BY <1>8 DEF Entries
    <3>2. /\ pc[x.req] # "new"
          /\ x.by # NoRequest => pc[x.by] # "new" /\ id[x.by] = id[x.req]
      BY <1>1, <1>2, <1>4 DEF NamesFit
    <3> QED BY <1>8, <3>1, <3>2
  <2> QED BY <1>1, <1>6, <2>1, <2>2 DEF NamesFit
<1>11. ASSUME chain = 1 PROVE via[r] = 1 /\ 1 \in Gens
  BY <1>11 DEF ChainsFit, TypeOK, Gens
<1>12. ASSUME NEW q \in Requests, chain = 1, kind[q] = "call", Alone(q)
       PROVE  /\ HasLog(1) /\ ((pc'[q] = "upstream" /\ answers[q] = 0) \/ (pc'[q] = "response" /\ answers[q] = 1))
                => pending'[1][id[q]] = q
              /\ \A x \in Made \cup {e} : x.req = q /\ x.n = 1 => x.by = q
  <2>1. id[q] \in Ids
    BY <1>12 DEF HandlersFit
  <2>2. CASE q = r
    <3>1. answers[r] = 1 => Found(r) = r
      BY <1>1, <1>11, <1>12, <2>1, <2>2 DEF OwnNames, Found
    <3> QED BY <1>4, <1>8, <1>12, <2>2, <3>1 DEF OwnNames
  <2>3. CASE q # r
    <3>1. id[q] # id[r]
      BY <1>12, <2>3 DEF Alone
    <3>2. pc'[q] = pc[q] /\ e.req # q
      BY <1>4, <1>8, <2>3
    <3>3. pending'[1][id[q]] = pending[1][id[q]]
      BY <1>9, <1>11, <1>12, <2>1, <3>1
    <3> QED BY <1>12, <3>2, <3>3 DEF OwnNames
  <2> QED BY <2>2, <2>3
<1>13. OwnNames'
  BY <1>1, <1>6, <1>12 DEF OwnNames, Alone, HasLog
<1> QED BY <1>10, <1>13

LEMMA NamesKept ==
  ASSUME TypeOK, ChainsFit, HandlersFit, NamesFit, OwnNames, [Next]_vars
  PROVE  NamesFit' /\ OwnNames'
<1>1. ASSUME NEW r \in Requests, NEW from \in {"request", "response", "upstream"},
             NEW to \in {"refused", "upstream", "badgateway", "answered"}, Goes(r, from, to),
             to = "upstream" => ~HasLog(via[r])
      PROVE  NamesFit' /\ OwnNames'
  <2>1. /\ UNCHANGED <<pending, chain, config, queue, hand, kind, id, answers, async, rows, lost>>
        /\ pc[r] = from /\ pc' = [pc EXCEPT ![r] = to]
    BY <1>1 DEF Goes, chains, logged
  <2>2. Made' = Made
    BY <2>1 DEF Made
  <2>3. chain = 1 => via[r] = 1
    BY DEF ChainsFit, TypeOK, Gens
  <2>4. \A q : pc'[q] # pc[q] => q = r /\ pc[q] = from /\ pc'[q] = to
    BY <2>1 DEF TypeOK
  <2>5. \A q \in Requests : pc'[q] # pc[q] =>
          /\ pc[q] # "new" /\ pc'[q] \notin {"new", "response"}
          /\ pc'[q] = "upstream" /\ kind[q] = "call" /\ answers[q] = 0 /\ chain = 1 => ~HasLog(1)
    BY <1>1, <2>3, <2>4
  <2> QED BY <2>1, <2>2, <2>5, SameNames
<1>2. ASSUME NEW r \in Requests, Refuse(r) \/ Unlogged(r) \/ UpstreamFails(r) \/ AnswerEnds(r)
      PROVE  NamesFit' /\ OwnNames'
  BY <1>1, <1>2 DEF Refuse, Unlogged, UpstreamFails, AnswerEnds
<1>3. ASSUME NEW r \in Requests, LogNotification(r)
      PROVE  NamesFit' /\ OwnNames'
  <2>1. /\ pc[r] = "request" /\ via[r] \in Gens
        /\ UNCHANGED <<pending, chain, config, hand, kind, id, answers, async, rows>>
    BY <1>3 DEF LogNotification, TypeOK
  <2>2. PICK e \in Entries : e = Entry(r, 0, r, via[r]) /\ e.gen \in Gens /\ e.req = r /\ e.n = 0 /\ e.by = r
    BY <2>1, OwnEntry
  <2>3. Enqueue(r, e)
    BY <1>3, <2>2 DEF LogNotification
  <2>4. PICK to \in {"aborted", "record"} : pc' = [pc EXCEPT ![r] = to]
    BY <2>3, EnqueueMoves
  <2>5. Made' \in {Made, Made \cup {e}}
    BY <2>1, <2>2, <2>3, MadeByEnqueue
  <2> QED BY <2>1, <2>2, <2>4, <2>5, NewEntryNames
<1>4. ASSUME NEW r \in Requests, AnswerHTTP(r)
      PROVE  NamesFit' /\ OwnNames'
  <2>1. /\ pc[r] = "upstream" /\ async' = async \cup {Entry(r, 0, r, 0)}
        /\ pc' = [pc EXCEPT ![r] = "record"]
        /\ UNCHANGED <<pending, chain, config, queue, hand, kind, id, answers, rows, lost>>
    BY <1>4 DEF AnswerHTTP, chains, logged
  <2>2. PICK e \in Entries : e = Entry(r, 0, r, 0) /\ e.req = r /\ e.n = 0 /\ e.by = r
    BY OwnEntry
  <2>3. Made' = Made \cup {e}
    BY <2>1, <2>2 DEF Made
  <2> QED BY <2>1, <2>2, <2>3, NewEntryNames
<1>5. ASSUME NEW r \in Requests, UpstreamAnswers(r)
      PROVE  NamesFit' /\ OwnNames'
  <2>1. /\ pc[r] = "upstream"
        /\ UNCHANGED <<pending, chain, config, queue, hand, kind, id, async, rows, lost>>
        /\ answers' = [answers EXCEPT ![r] = @ + 1] /\ pc' = [pc EXCEPT ![r] = "response"]
    BY <1>5 DEF UpstreamAnswers, chains, logged
  <2>2. Made' = Made
    BY <2>1 DEF Made
  <2>3. /\ answers'[r] = answers[r] + 1 /\ pc'[r] = "response" /\ answers[r] \in Nat
        /\ \A q \in Requests \ {r} : answers'[q] = answers[q] /\ pc'[q] = pc[q]
    BY <2>1 DEF TypeOK
  <2>4. NamesFit'
    <3>1. Made \subseteq Entries /\ pending \in [Gens -> [Ids -> Requests \cup {NoRequest}]]
      BY MadeTypes DEF TypeOK
    <3>2. \A q \in Requests : pc[q] # "new" => pc'[q] # "new"
      BY <2>3
    <3>3. \A e \in Made : e.req \in Requests /\ e.by \in Requests \cup {NoRequest}
      BY <3>1 DEF Entries
    <3>4. \A g \in Gens, i \in Ids : pending[g][i] # NoRequest => pending[g][i] \in Requests
      BY <3>1
    <3> QED BY <2>1, <2>2, <3>2, <3>3, <3>4 DEF NamesFit
  <2>5. OwnNames'
    BY <2>1, <2>2, <2>3 DEF OwnNames, Alone, HasLog
  <2> QED BY <2>4, <2>5
<1>6. ASSUME NEW r \in Requests, RecordEntry(r)
      PROVE  NamesFit' /\ OwnNames'
  <2>1. /\ UNCHANGED <<pending, chain, config, queue, hand, kind, id, answers, async, rows, lost>>
        /\ pc[r] = "record"
        /\ \E to \in {"answered", "upstream"} : pc' = [pc EXCEPT ![r] = to]
    BY <1>6 DEF RecordEntry, chains, logged
  <2>2. Made' = Made
    BY <2>1 DEF Made
  <2>3. kind[r] = "call" => answers[r] # 0
    BY <2>1 DEF HandlersFit, TypeOK
  <2>4. \A q \in Requests : pc'[q] # pc[q] => q = r /\ pc[q] = "record" /\ pc'[q] \in {"answered", "upstream"}
    BY <2>1 DEF TypeOK
  <2>5. \A q \in Requests : pc'[q] # pc[q] =>
          /\ pc[q] # "new" /\ pc'[q] \notin {"new", "response"}
          /\ pc'[q] = "upstream" /\ kind[q] = "call" /\ answers[q] = 0 /\ chain = 1 => ~HasLog(1)
    BY <2>3, <2>4
  <2> QED BY <2>1, <2>2, <2>5, SameNames
<1>7. ASSUME UNCHANGED <<id, kind, pending, chain, config, answers, pc>>, Made' = Made
      PROVE  NamesFit' /\ OwnNames'
  BY <1>7, SameNames
<1>8. ASSUME NEW g \in Gens, Write(g)
      PROVE  NamesFit' /\ OwnNames'
  <2>1. UNCHANGED <<id, kind, pending, chain, config, answers, pc>>
    BY <1>8 DEF Write, Receive, WriterInserts, requests
  <2> QED BY <1>7, <1>8, <2>1, MadeByReceive, MadeByInserts DEF Write
<1>9. ASSUME NEW e \in async, AsyncInserts(e)
      PROVE  NamesFit' /\ OwnNames'
  <2>1. UNCHANGED <<id, kind, pending, chain, config, answers, pc>>
    BY <1>9 DEF AsyncInserts, chains
  <2> QED BY <1>7, <1>9, <2>1, MadeByInserts
<1>10. ASSUME NEW c \in Configs, Reload(c)
       PROVE  NamesFit' /\ OwnNames'
  <2>1. /\ UNCHANGED <<id, pending, pc, queue, hand, async, rows, lost>>
        /\ chain' = chain + 1 /\ chain \in Nat \ {0}
    BY <1>10 DEF Reload, requests, logged
  <2>2. Made' = Made
    BY <2>1 DEF Made
  <2> QED BY <2>1, <2>2 DEF NamesFit, OwnNames
<1>11. ASSUME CloseOld \/ Exit \/ CloseFirst \/ Gone \/ UNCHANGED ivars
       PROVE  NamesFit' /\ OwnNames'
  <2>1. UNCHANGED <<id, kind, pending, chain, config, answers, pc, queue, hand, async, rows, lost>>
    BY <1>11 DEF CloseOld, Exit, CloseFirst, Gone, ivars, chains, requests, logged
  <2>2. Made' = Made
    BY <2>1 DEF Made
  <2> QED BY <1>7, <2>1, <2>2
<1>12. ASSUME (\E p \in Flushers : Flush(p)) \/ Collect(Tick) \/ Collect(LeaveOnCancel) \/ UNCHANGED vars
       PROVE  UNCHANGED ivars
  BY <1>12 DEF Flush, Collect, vars
<1> QED BY <1>2, <1>3, <1>4, <1>5, <1>6, <1>8, <1>9, <1>10, <1>11, <1>12, ArriveNames, LogCallNames,
           LogResponseNames DEF Next, Handle, FromUpstream

-----------------------------------------------------------------------------
(* Table and telemetry *)

\* The messages that entries tell of, and those whose handler is between entry
\* and event.
Told      == {<<e.req, e.n>> : e \in Made}
Recording == {<<r, answers[r]>> : r \in {q \in Requests : pc[q] = "record"}}

LEMMA EventByTold == EntryHasEvent <=> (setting.telemetry => Told = SeqSet(recorded) \cup Recording)
BY DEF EntryHasEvent, Told, Recording

\* Nothing is told, recorded or about to be.
LEMMA NothingTold ==
  ASSUME TypeOK, EntryHasEvent, setting' = setting, Made' = Made, UNCHANGED <<recorded, answers>>,
         \A q \in Requests : (pc'[q] = "record") <=> (pc[q] = "record")
  PROVE  EntryHasEvent'
BY DEF EntryHasEvent, SeqSet

\* An entry, and the handler goes on to its event.
LEMMA EntryTold ==
  ASSUME TypeOK, EntryHasEvent, UNCHANGED <<setting, recorded, answers>>,
         NEW r \in Requests, pc[r] # "record",
         NEW to \in {"record", "aborted"}, pc' = [pc EXCEPT ![r] = to],
         NEW e \in Entries, e.req = r, e.n = answers[r],
         Made' = IF to = "record" THEN Made \cup {e} ELSE Made
  PROVE  EntryHasEvent'
<1>1. pc'[r] = to /\ \A q \in Requests \ {r} : pc'[q] = pc[q]
  BY DEF TypeOK
<1>2. Told' = IF to = "record" THEN Told \cup {<<r, answers[r]>>} ELSE Told
  BY DEF Told
<1>3. Recording' = IF to = "record" THEN Recording \cup {<<r, answers[r]>>} ELSE Recording
  BY <1>1 DEF Recording
<1>4. SeqSet(recorded)' = SeqSet(recorded)
  BY DEF SeqSet
<1>5. setting.telemetry => Told' = SeqSet(recorded)' \cup Recording'
  BY <1>2, <1>3, <1>4, EventByTold
<1> QED BY <1>5 DEF EntryHasEvent, Told, Recording

LEMMA EventsKept ==
  ASSUME TypeOK, TelemetryIInv, HandlersFit, EntryHasEvent, [Next]_vars
  PROVE  EntryHasEvent'
<1>0. /\ pc \in [Requests -> {"new", "request", "refused", "upstream", "badgateway",
                              "response", "record", "answered", "aborted"}]
      /\ answers \in [Requests -> 0..MaxAnswers] /\ recorded \in Seq(Events)
  BY DEF TypeOK, TelemetryTypeOK
<1>1. ASSUME NEW r \in Requests, pc[r] # "record", NEW to, to # "record", pc' = [pc EXCEPT ![r] = to],
             UNCHANGED <<setting, queue, hand, answers, async, rows, lost, recorded>>
      PROVE  EntryHasEvent'
  <2>1. Made' = Made
    BY <1>1 DEF Made
  <2>2. \A q \in Requests : (pc'[q] = "record") <=> (pc[q] = "record")
    BY <1>0, <1>1
  <2> QED BY <1>1, <2>1, <2>2, NothingTold
<1>2. ASSUME NEW r \in Requests,
             \/ Refuse(r) \/ Unlogged(r) \/ LogCall(r) \/ UpstreamFails(r) \/ AnswerEnds(r)
             \/ \E k \in AllKinds : \E i \in IdsFor(k) : Arrive(r, k, i)
      PROVE  EntryHasEvent'
  <2>1. /\ pc[r] # "record" /\ UNCHANGED <<setting, queue, hand, answers, async, rows, lost, recorded>>
        /\ \E to \in {"request", "refused", "upstream", "badgateway", "answered"} :
             pc' = [pc EXCEPT ![r] = to]
    BY <1>2 DEF Refuse, Unlogged, LogCall, UpstreamFails, AnswerEnds, Arrive, Goes, chains, logged, tvars
  <2> QED BY <1>1, <2>1
<1>3. ASSUME NEW r \in Requests, LogNotification(r)
      PROVE  EntryHasEvent'
  <2>1. /\ pc[r] = "request" /\ via[r] \in Gens
        /\ UNCHANGED <<setting, hand, answers, async, rows, recorded>>
    BY <1>3 DEF LogNotification, TypeOK, tvars
  <2>2. PICK e \in Entries : e = Entry(r, 0, r, via[r]) /\ e.gen \in Gens /\ e.req = r /\ e.n = 0
    BY <2>1, OwnEntry
  <2>3. Enqueue(r, e)
    BY <1>3, <2>2 DEF LogNotification
  <2>4. PICK to \in {"aborted", "record"} : pc' = [pc EXCEPT ![r] = to]
    BY <2>3, EnqueueMoves
  <2>5. Made' = IF to = "record" THEN Made \cup {e} ELSE Made
    BY <1>0, <2>1, <2>2, <2>3, <2>4, MadeByEnqueue
  <2>6. answers[r] = 0
    BY <2>1 DEF HandlersFit
  <2> QED BY <2>1, <2>2, <2>4, <2>5, <2>6, EntryTold
<1>4. ASSUME NEW r \in Requests, LogResponse(r)
      PROVE  EntryHasEvent'
  <2>1. /\ pc[r] = "response" /\ via[r] \in Gens /\ answers[r] \in 0..MaxAnswers
        /\ Found(r) \in Requests \cup {NoRequest}
        /\ UNCHANGED <<setting, hand, answers, async, rows, recorded>>
    BY <1>4 DEF LogResponse, TypeOK, Found, tvars
  <2>2. /\ Entry(r, answers[r], Found(r), via[r]) \in Entries
        /\ Entry(r, answers[r], Found(r), via[r]).gen = via[r]
    BY ONLY <2>1 DEF Entry, Entries
  <2>3. PICK e \in Entries : /\ e = Entry(r, answers[r], Found(r), via[r]) /\ e.gen \in Gens
                             /\ e.req = r /\ e.n = answers[r]
    BY ONLY <2>1, <2>2 DEF Entry
  <2>4. Enqueue(r, e)
    BY <1>4, <2>3 DEF LogResponse
  <2>5. PICK to \in {"aborted", "record"} : pc' = [pc EXCEPT ![r] = to]
    BY <2>4, EnqueueMoves
  <2>6. Made' = IF to = "record" THEN Made \cup {e} ELSE Made
    BY <1>0, <2>1, <2>3, <2>4, <2>5, MadeByEnqueue
  <2> QED BY <2>1, <2>3, <2>5, <2>6, EntryTold
<1>5. ASSUME NEW r \in Requests, AnswerHTTP(r)
      PROVE  EntryHasEvent'
  <2>1. /\ pc[r] = "upstream" /\ kind[r] = "http" /\ async' = async \cup {Entry(r, 0, r, 0)}
        /\ pc' = [pc EXCEPT ![r] = "record"]
        /\ UNCHANGED <<setting, queue, hand, answers, rows, lost, recorded>>
    BY <1>5 DEF AnswerHTTP, chains, logged, tvars
  <2>2. PICK e \in Entries : e = Entry(r, 0, r, 0) /\ e.req = r /\ e.n = 0
    BY OwnEntry
  <2>3. Made' = Made \cup {e} /\ answers[r] = 0
    BY <2>1, <2>2 DEF Made, HandlersFit
  <2> QED BY <2>1, <2>2, <2>3, EntryTold
<1>6. ASSUME NEW r \in Requests, UpstreamAnswers(r)
      PROVE  EntryHasEvent'
  <2>1. /\ pc[r] = "upstream" /\ answers' = [answers EXCEPT ![r] = @ + 1]
        /\ pc' = [pc EXCEPT ![r] = "response"]
        /\ UNCHANGED <<setting, queue, hand, async, rows, lost, recorded>>
    BY <1>6 DEF UpstreamAnswers, chains, logged, tvars
  <2>2. Made' = Made
    BY <2>1 DEF Made
  <2>3. /\ \A q \in Requests : (pc'[q] = "record") <=> (pc[q] = "record")
        /\ \A q \in Requests : pc[q] = "record" => answers'[q] = answers[q]
    BY <1>0, <2>1
  <2> QED BY <2>1, <2>2, <2>3 DEF EntryHasEvent, SeqSet
<1>7. ASSUME NEW r \in Requests, RecordEntry(r)
      PROVE  EntryHasEvent'
  <2>1. /\ pc[r] = "record" /\ UNCHANGED <<setting, queue, hand, answers, async, rows, lost>>
        /\ \E to \in {"answered", "upstream"} : pc' = [pc EXCEPT ![r] = to]
    BY <1>7 DEF RecordEntry, chains, logged
  <2>2. pc'[r] # "record" /\ \A q \in Requests \ {r} : pc'[q] = pc[q]
    BY <1>0, <2>1
  <2>3. Made' = Made
    BY <2>1 DEF Made
  <2>4. ASSUME setting.telemetry
        PROVE  Told' = SeqSet(recorded)' \cup Recording'
    <3>1. recorded' = Append(recorded, <<r, answers[r]>>)
      BY <1>7, <2>4 DEF RecordEntry, Record
    <3>2. SeqSet(recorded') = SeqSet(recorded) \cup {<<r, answers[r]>>}
      BY <1>0, <3>1, SeqSetAppend
    <3>3. Recording = Recording' \cup {<<r, answers[r]>>}
      BY <2>1, <2>2 DEF Recording
    <3>4. Told' = Told
      BY <2>3 DEF Told
    <3>5. Told = SeqSet(recorded) \cup Recording
      BY <2>4, EventByTold
    <3> QED BY <3>2, <3>3, <3>4, <3>5 DEF SeqSet
  <2> QED BY <2>1, <2>4 DEF EntryHasEvent, Told, Recording
<1>8. ASSUME UNCHANGED <<setting, pc, answers, recorded>>, Made' = Made
      PROVE  EntryHasEvent'
  BY <1>8, NothingTold
<1>9. ASSUME NEW g \in Gens, Write(g)
      PROVE  EntryHasEvent'
  <2>1. UNCHANGED <<setting, pc, answers, recorded>>
    BY <1>9 DEF Write, Receive, WriterInserts, requests, tvars
  <2> QED BY <1>8, <1>9, <2>1, MadeByReceive, MadeByInserts DEF Write
<1>10. ASSUME NEW e \in async, AsyncInserts(e)
       PROVE  EntryHasEvent'
  <2>1. UNCHANGED <<setting, pc, answers, recorded>>
    BY <1>10 DEF AsyncInserts, chains, tvars
  <2> QED BY <1>8, <1>10, <2>1, MadeByInserts
<1>11. ASSUME \/ \E c \in Configs : Reload(c)
              \/ CloseOld \/ Exit \/ CloseFirst \/ Gone \/ UNCHANGED vars
              \/ \E p \in Flushers : Flush(p)
              \/ Collect(Tick) \/ Collect(LeaveOnCancel)
       PROVE  EntryHasEvent'
  <2>1. UNCHANGED <<setting, pc, answers, queue, hand, async, rows, lost>>
    BY <1>11 DEF Reload, CloseOld, Exit, CloseFirst, Gone, Flush, Collect, vars, ivars, chains,
                 requests, logged
  <2>2. recorded' = recorded
    BY <1>11 DEF Reload, CloseOld, Exit, CloseFirst, Gone, Flush, Collect, Tick, LeaveOnCancel, Leave,
                 Take, SendOk, SendFails, SendEnds, vars, tvars
  <2>3. Made' = Made
    BY <2>1 DEF Made
  <2> QED BY <1>8, <2>1, <2>2, <2>3
<1> QED BY <1>2, <1>3, <1>4, <1>5, <1>6, <1>7, <1>9, <1>10, <1>11 DEF Next, Handle, FromUpstream

-----------------------------------------------------------------------------
(* Accepted, on the way, inserted or lost *)

LEMMA AtTheEnd ==
  ASSUME NEW s \in Seq(Entries), NEW e \in Entries
  PROVE  /\ Append(s, e) \in Seq(Entries)
         /\ Len(s) \in Nat /\ Len(Append(s, e)) = Len(s) + 1
         /\ \A i \in 1..Len(s) : Append(s, e)[i] = s[i]
         /\ Append(s, e)[Len(s) + 1] = e
OBVIOUS

LEMMA AtTheHead ==
  ASSUME NEW s \in Seq(Entries), s # <<>>
  PROVE  /\ Head(s) \in Entries /\ Tail(s) \in Seq(Entries)
         /\ Len(s) \in Nat \ {0} /\ Len(Tail(s)) = Len(s) - 1 /\ Head(s) = s[1]
         /\ \A i \in 1..(Len(s) - 1) : Tail(s)[i] = s[i + 1]
OBVIOUS

\* A new entry is accepted.
LEMMA OrderAccept ==
  ASSUME NEW g \in Gens, NEW acc \in Seq(Entries), NEW way \in Seq(Entries), NEW rws \in Seq(Entries),
         NEW lst, NEW e \in Entries, InOrderOf(acc, way, rws, lst, g),
         e.gen = g, e \notin lst, e \notin SeqSet(acc)
  PROVE  InOrderOf(Append(acc, e), Append(way, e), rws, lst, g)
<1> DEFINE a == Append(acc, e)
           w == Append(way, e)
           L == Len(acc)
           W == Len(way)
           D == L - W
           its == {i \in 1..Len(rws) : rws[i].gen = g}
<1>1. /\ L \in Nat /\ Len(a) = L + 1 /\ (\A i \in 1..L : a[i] = acc[i]) /\ a[L + 1] = e
      /\ W \in Nat /\ Len(w) = W + 1 /\ (\A i \in 1..W : w[i] = way[i]) /\ w[W + 1] = e
  BY AtTheEnd
<1>2. /\ D >= 0
      /\ \A k \in 1..W : acc[D + k] = way[k] /\ way[k] \notin lst
      /\ \A k \in 1..L : acc[k].gen = g
      /\ \A k, l \in 1..L : acc[k] = acc[l] => k = l
      /\ \A i \in its : \E k \in 1..D : rws[i] = acc[k] /\ acc[k] \notin lst
      /\ \A k \in 1..D : acc[k] \notin lst => \E i \in its : rws[i] = acc[k]
      /\ \A i, j \in its, k, l \in 1..D : i < j /\ rws[i] = acc[k] /\ rws[j] = acc[l] => k < l
  BY Zenon DEF InOrderOf, OrderParts
<1>3. \A k \in 1..L : acc[k] # e
  BY DEF SeqSet
<1> HIDE DEF a, w, L, W, its
<1>4. /\ D \in Nat /\ D + W = L /\ D + (W + 1) = L + 1 /\ (L + 1) - (W + 1) = D
      /\ 1..(L + 1) = 1..L \cup {L + 1} /\ 1..(W + 1) = 1..W \cup {W + 1}
      /\ 1..D \subseteq 1..L /\ \A k \in 1..W : D + k \in 1..L
  <2>1. L \in Nat /\ W \in Nat /\ L - W >= 0
    BY <1>1, <1>2, Zenon
  <2> QED BY <2>1
<1> HIDE DEF D
<1>5. \A k \in 1..(W + 1) : a[D + k] = w[k] /\ w[k] \notin lst
  <2>1. \A k \in 1..W : a[D + k] = w[k] /\ w[k] \notin lst
    BY <1>1, <1>2, <1>4
  <2>2. a[D + (W + 1)] = w[W + 1] /\ w[W + 1] \notin lst
    BY <1>1, <1>4, Zenon
  <2> QED BY <1>4, <2>1, <2>2, Zenon
<1>6. \A k \in 1..(L + 1) : a[k].gen = g
  <2>1. \A k \in 1..L : a[k].gen = g
    BY <1>1, <1>2, Zenon
  <2>2. a[L + 1].gen = g
    BY <1>1, Zenon
  <2> QED BY <1>4, <2>1, <2>2, Zenon
<1>7. \A k, l \in 1..(L + 1) : a[k] = a[l] => k = l
  <2>1. ASSUME NEW k \in 1..L, NEW l \in 1..L, a[k] = a[l] PROVE k = l
    <3>1. a[k] = acc[k] /\ a[l] = acc[l]
      BY <1>1, Zenon
    <3> QED BY <1>2, <2>1, <3>1, Zenon
  <2>2. \A k \in 1..L : a[k] # a[L + 1]
    BY <1>1, <1>3, Zenon
  <2> QED BY <1>4, <2>1, <2>2, Zenon
<1>8. \A k \in 1..D : a[k] = acc[k]
  BY <1>1, <1>4, Zenon
<1>9. /\ \A i \in its : \E k \in 1..D : rws[i] = a[k] /\ a[k] \notin lst
      /\ \A k \in 1..D : a[k] \notin lst => \E i \in its : rws[i] = a[k]
  BY <1>2, <1>8
<1>10. \A i, j \in its, k, l \in 1..D : i < j /\ rws[i] = a[k] /\ rws[j] = a[l] => k < l
  BY <1>2, <1>8
<1>11. OrderParts(a, w, rws, lst, g, D, its)
  <2>1. Len(a) = L + 1 /\ Len(w) = W + 1
    BY <1>1, Zenon
  <2> QED BY <2>1, <1>2, <1>5, <1>6, <1>7, <1>9, <1>10, Zenon DEF OrderParts
<1>12. Len(a) - Len(w) = D
  BY <1>1, <1>4, Zenon
<1> QED BY <1>11, <1>12, Zenon DEF InOrderOf, a, w, its

\* What is lost is not in the queue: it was dropped, or is another log's.
LEMMA OrderDrop ==
  ASSUME NEW g \in Gens, NEW acc \in Seq(Entries), NEW way \in Seq(Entries), NEW rws \in Seq(Entries),
         NEW lst, NEW e, InOrderOf(acc, way, rws, lst, g), e \notin SeqSet(acc)
  PROVE  InOrderOf(acc, way, rws, lst \cup {e}, g)
<1> DEFINE L == Len(acc)
           W == Len(way)
           D == L - W
           its == {i \in 1..Len(rws) : rws[i].gen = g}
<1>1. L \in Nat /\ W \in Nat
  OBVIOUS
<1>2. /\ D >= 0
      /\ \A k \in 1..W : acc[D + k] = way[k] /\ way[k] \notin lst
      /\ \A k \in 1..L : acc[k].gen = g
      /\ \A k, l \in 1..L : acc[k] = acc[l] => k = l
      /\ \A i \in its : \E k \in 1..D : rws[i] = acc[k] /\ acc[k] \notin lst
      /\ \A k \in 1..D : acc[k] \notin lst => \E i \in its : rws[i] = acc[k]
      /\ \A i, j \in its, k, l \in 1..D : i < j /\ rws[i] = acc[k] /\ rws[j] = acc[l] => k < l
  BY Zenon DEF InOrderOf, OrderParts
<1>3. \A k \in 1..L : acc[k] # e
  BY DEF SeqSet
<1> HIDE DEF L, W, its
<1>4. (\A k \in 1..W : D + k \in 1..L) /\ 1..D \subseteq 1..L
  <2>1. D >= 0
    BY <1>2, Zenon
  <2> QED BY <1>1, <2>1
<1> HIDE DEF D
<1>5. \A k \in 1..W : acc[D + k] = way[k] /\ way[k] \notin lst \cup {e}
  BY <1>2, <1>3, <1>4
<1>6. \A i \in its : \E k \in 1..D : rws[i] = acc[k] /\ acc[k] \notin lst \cup {e}
  BY <1>2, <1>3, <1>4
<1>7. \A k \in 1..D : acc[k] \notin lst \cup {e} => \E i \in its : rws[i] = acc[k]
  BY <1>2
<1> QED BY <1>2, <1>5, <1>6, <1>7, Zenon DEF InOrderOf, OrderParts, D, L, W, its

\* The first on its way gets into the table.
LEMMA OrderInsert ==
  ASSUME NEW g \in Gens, NEW acc \in Seq(Entries), NEW way \in Seq(Entries), NEW rws \in Seq(Entries),
         NEW lst, InOrderOf(acc, way, rws, lst, g), way # <<>>
  PROVE  InOrderOf(acc, Tail(way), Append(rws, Head(way)), lst, g)
<1> DEFINE w == Tail(way)
           h == Head(way)
           r == Append(rws, h)
           L == Len(acc)
           W == Len(way)
           D == L - W
           R == Len(rws)
           its == {i \in 1..R : rws[i].gen = g}
           now == {i \in 1..Len(r) : r[i].gen = g}
<1>1. /\ h \in Entries /\ W \in Nat \ {0} /\ Len(w) = W - 1 /\ h = way[1]
      /\ \A i \in 1..(W - 1) : w[i] = way[i + 1]
  BY AtTheHead
<1>2. /\ R \in Nat /\ Len(r) = R + 1 /\ (\A i \in 1..R : r[i] = rws[i]) /\ r[R + 1] = h /\ L \in Nat
  BY <1>1, AtTheEnd
<1>3. /\ D >= 0
      /\ \A k \in 1..W : acc[D + k] = way[k] /\ way[k] \notin lst
      /\ \A k \in 1..L : acc[k].gen = g
      /\ \A k, l \in 1..L : acc[k] = acc[l] => k = l
      /\ \A i \in its : \E k \in 1..D : rws[i] = acc[k] /\ acc[k] \notin lst
      /\ \A k \in 1..D : acc[k] \notin lst => \E i \in its : rws[i] = acc[k]
      /\ \A i, j \in its, k, l \in 1..D : i < j /\ rws[i] = acc[k] /\ rws[j] = acc[l] => k < l
  BY Zenon DEF InOrderOf, OrderParts
<1> HIDE DEF w, h, r, L, W, R, its
<1>4. /\ D \in Nat /\ D + 1 \in 1..L /\ 1 \in 1..W /\ L - (W - 1) = D + 1
      /\ 1..(D + 1) = 1..D \cup {D + 1} /\ 1..D \subseteq 1..L /\ D + 1 \notin 1..D
      /\ \A k \in 1..D : k < D + 1
      /\ \A k \in 1..(W - 1) : k + 1 \in 1..W /\ D + (k + 1) = (D + 1) + k
  <2>1. L \in Nat /\ W \in Nat \ {0} /\ L - W >= 0
    BY <1>1, <1>2, <1>3, Zenon
  <2> QED BY <2>1
<1> HIDE DEF D
<1>5. acc[D + 1] = h /\ h \notin lst /\ h.gen = g
  BY <1>1, <1>3, <1>4
<1>6. /\ now = its \cup {R + 1} /\ its \subseteq 1..R /\ (\A i \in its : r[i] = rws[i] /\ i < R + 1)
      /\ r[R + 1] = h
  <2>1. 1..(R + 1) = 1..R \cup {R + 1} /\ \A i \in 1..R : i < R + 1
    BY <1>2
  <2> QED BY <1>2, <1>5, <2>1 DEF its
<1> HIDE DEF now
<1>7. \A k \in 1..Len(w) : acc[(D + 1) + k] = w[k] /\ w[k] \notin lst
  <2>1. Len(w) = W - 1
    BY <1>1, Zenon
  <2> SUFFICES ASSUME NEW k \in 1..(W - 1) PROVE acc[(D + 1) + k] = w[k] /\ w[k] \notin lst
    BY <2>1, Zenon
  <2>2. k + 1 \in 1..W /\ D + (k + 1) = (D + 1) + k /\ w[k] = way[k + 1]
    BY <1>1, <1>4, Zenon
  <2> QED BY <1>3, <2>2, Zenon
<1>8. \A i \in now : \E k \in 1..(D + 1) : r[i] = acc[k] /\ acc[k] \notin lst
  <2>1. ASSUME NEW i \in its PROVE \E k \in 1..(D + 1) : r[i] = acc[k] /\ acc[k] \notin lst
    <3>1. PICK k \in 1..D : rws[i] = acc[k] /\ acc[k] \notin lst
      BY <1>3, Zenon
    <3>2. k \in 1..(D + 1) /\ r[i] = acc[k]
      BY <1>4, <1>6, <3>1, Zenon
    <3> QED BY <3>1, <3>2, Zenon
  <2>2. D + 1 \in 1..(D + 1) /\ r[R + 1] = acc[D + 1] /\ acc[D + 1] \notin lst
    BY <1>4, <1>5, <1>6, Zenon
  <2> QED BY <1>6, <2>1, <2>2, Zenon
<1>9. \A k \in 1..(D + 1) : acc[k] \notin lst => \E i \in now : r[i] = acc[k]
  <2>1. ASSUME NEW k \in 1..D, acc[k] \notin lst PROVE \E i \in now : r[i] = acc[k]
    <3>1. PICK i \in its : rws[i] = acc[k]
      BY <1>3, <2>1, Zenon
    <3>2. i \in now /\ r[i] = acc[k]
      BY <1>6, <3>1, Zenon
    <3> QED BY <3>2, Zenon
  <2>2. R + 1 \in now /\ r[R + 1] = acc[D + 1]
    BY <1>5, <1>6, Zenon
  <2> QED BY <1>4, <2>1, <2>2, Zenon
<1>10. ASSUME NEW i \in now, NEW j \in now, NEW k \in 1..(D + 1), NEW l \in 1..(D + 1),
              i < j, r[i] = acc[k], r[j] = acc[l]
       PROVE  k < l
  <2>0. k \in 1..L /\ l \in 1..L
    BY <1>4, Zenon
  <2>1. i \in its
    <3>1. \A x \in now : x \in 1..R \/ x = R + 1
      BY <1>6, Zenon
    <3>2. R \in Nat
      BY <1>2, Zenon
    <3>3. i # R + 1
      BY <1>10, <3>1, <3>2
    <3> QED BY <1>6, <3>3, Zenon
  <2>2. k \in 1..D
    <3>1. PICK m \in 1..D : rws[i] = acc[m]
      BY <1>3, <2>1, Zenon
    <3>2. m = k
      BY <1>3, <1>4, <1>6, <1>10, <2>0, <2>1, <3>1
    <3> QED BY <3>2, Zenon
  <2>3. CASE j \in its
    <3>1. l \in 1..D
      <4>1. PICK m \in 1..D : rws[j] = acc[m]
        BY <1>3, <2>3, Zenon
      <4>2. m = l
        BY <1>3, <1>4, <1>6, <1>10, <2>0, <2>3, <4>1
      <4> QED BY <4>2, Zenon
    <3> QED BY <1>3, <1>6, <1>10, <2>1, <2>2, <2>3, <3>1
  <2>4. CASE j = R + 1
    <3>1. l = D + 1
      <4>1. acc[l] = acc[D + 1]
        BY <1>5, <1>6, <1>10, <2>4, Zenon
      <4> QED BY <1>3, <1>4, <2>0, <4>1, Zenon
    <3> QED BY <1>4, <2>2, <3>1, Zenon
  <2> QED BY <1>6, <2>3, <2>4, Zenon
<1>11. Len(acc) - Len(w) = D + 1
  BY <1>1, <1>4, Zenon DEF L
<1>12. D + 1 >= 0
  BY <1>4
<1>13. (\A k \in 1..Len(acc) : acc[k].gen = g) /\ \A k, l \in 1..Len(acc) : acc[k] = acc[l] => k = l
  BY <1>3, Zenon DEF L
<1>14. OrderParts(acc, w, r, lst, g, D + 1, now)
  BY <1>7, <1>8, <1>9, <1>10, <1>12, <1>13 DEF OrderParts
<1> QED BY <1>11, <1>14, Zenon DEF InOrderOf, w, r, h, now

\* The INSERT of the first on its way fails.
LEMMA OrderLose ==
  ASSUME NEW g \in Gens, NEW acc \in Seq(Entries), NEW way \in Seq(Entries), NEW rws \in Seq(Entries),
         NEW lst, InOrderOf(acc, way, rws, lst, g), way # <<>>
  PROVE  InOrderOf(acc, Tail(way), rws, lst \cup {Head(way)}, g)
<1> DEFINE w == Tail(way)
           h == Head(way)
           L == Len(acc)
           W == Len(way)
           D == L - W
           its == {i \in 1..Len(rws) : rws[i].gen = g}
<1>1. /\ W \in Nat \ {0} /\ Len(w) = W - 1 /\ h = way[1] /\ L \in Nat
      /\ \A i \in 1..(W - 1) : w[i] = way[i + 1]
  BY AtTheHead
<1>3. /\ D >= 0
      /\ \A k \in 1..W : acc[D + k] = way[k] /\ way[k] \notin lst
      /\ \A k \in 1..L : acc[k].gen = g
      /\ \A k, l \in 1..L : acc[k] = acc[l] => k = l
      /\ \A i \in its : \E k \in 1..D : rws[i] = acc[k] /\ acc[k] \notin lst
      /\ \A k \in 1..D : acc[k] \notin lst => \E i \in its : rws[i] = acc[k]
      /\ \A i, j \in its, k, l \in 1..D : i < j /\ rws[i] = acc[k] /\ rws[j] = acc[l] => k < l
  BY Zenon DEF InOrderOf, OrderParts
<1> HIDE DEF w, h, L, W, its
<1>4. /\ D \in Nat /\ D + 1 \in 1..L /\ 1 \in 1..W /\ L - (W - 1) = D + 1
      /\ 1..(D + 1) = 1..D \cup {D + 1} /\ 1..D \subseteq 1..L /\ D + 1 \notin 1..D
      /\ \A k \in 1..(W - 1) : /\ k + 1 \in 1..W /\ D + (k + 1) = (D + 1) + k
                               /\ (D + 1) + k \in 1..L /\ (D + 1) + k # D + 1
  <2>1. L \in Nat /\ W \in Nat \ {0} /\ L - W >= 0
    BY <1>1, <1>3, Zenon
  <2>2. D \in Nat /\ D + 1 \in 1..L /\ 1 \in 1..W /\ L - (W - 1) = D + 1 /\ W \in Nat /\ D + W = L /\ L \in Nat
    BY <2>1
  <2> HIDE DEF D
  <2>3. /\ 1..(D + 1) = 1..D \cup {D + 1} /\ 1..D \subseteq 1..L /\ D + 1 \notin 1..D
    BY <2>2
  <2>4. \A k \in 1..(W - 1) : /\ k + 1 \in 1..W /\ D + (k + 1) = (D + 1) + k
                              /\ (D + 1) + k \in 1..L /\ (D + 1) + k # D + 1
    BY <2>2
  <2> QED BY <2>2, <2>3, <2>4, Zenon
<1> HIDE DEF D
<1>5. acc[D + 1] = h
  BY <1>1, <1>3, <1>4, Zenon
<1>6. \A k \in 1..D : acc[k] # h
  BY <1>3, <1>4, <1>5, Zenon
<1>7. \A k \in 1..Len(w) : acc[(D + 1) + k] = w[k] /\ w[k] \notin lst \cup {h}
  <2>1. Len(w) = W - 1
    BY <1>1, Zenon
  <2> SUFFICES ASSUME NEW k \in 1..(W - 1) PROVE acc[(D + 1) + k] = w[k] /\ w[k] \notin lst \cup {h}
    BY <2>1, Zenon
  <2>2. /\ k + 1 \in 1..W /\ D + (k + 1) = (D + 1) + k /\ w[k] = way[k + 1]
        /\ (D + 1) + k \in 1..L /\ (D + 1) + k # D + 1
    BY <1>1, <1>4, Zenon
  <2>3. acc[(D + 1) + k] = w[k] /\ w[k] \notin lst
    BY <1>3, <2>2, Zenon
  <2>4. acc[(D + 1) + k] # h
    BY <1>3, <1>4, <1>5, <2>2, Zenon
  <2> QED BY <2>3, <2>4, Zenon
<1>8. \A i \in its : \E k \in 1..(D + 1) : rws[i] = acc[k] /\ acc[k] \notin lst \cup {h}
  BY <1>3, <1>4, <1>6, ZenonT(30)
<1>9. \A k \in 1..(D + 1) : acc[k] \notin lst \cup {h} => \E i \in its : rws[i] = acc[k]
  BY <1>3, <1>4, <1>5, ZenonT(30)
<1>10. ASSUME NEW i \in its, NEW j \in its, NEW k \in 1..(D + 1), NEW l \in 1..(D + 1),
              i < j, rws[i] = acc[k], rws[j] = acc[l]
       PROVE  k < l
  <2>1. ASSUME NEW x \in its, NEW m \in 1..(D + 1), rws[x] = acc[m]
        PROVE  m \in 1..D
    <3>1. PICK n \in 1..D : rws[x] = acc[n]
      BY <1>3, Zenon
    <3>2. n \in 1..L /\ m \in 1..L
      BY <1>4, Zenon
    <3>3. m = n
      BY <1>3, <2>1, <3>1, <3>2, Zenon
    <3> QED BY <3>3, Zenon
  <2>2. k \in 1..D /\ l \in 1..D
    BY <1>10, <2>1, Zenon
  <2>3. \A a, b \in its, x, y \in 1..D : a < b /\ rws[a] = acc[x] /\ rws[b] = acc[y] => x < y
    BY <1>3, Zenon
  <2> QED BY <1>10, <2>2, <2>3
<1>11. Len(acc) - Len(w) = D + 1
  BY <1>1, <1>4, Zenon DEF L
<1>12. D + 1 >= 0
  BY <1>4
<1>13. (\A k \in 1..Len(acc) : acc[k].gen = g) /\ \A k, l \in 1..Len(acc) : acc[k] = acc[l] => k = l
  BY <1>3, Zenon DEF L
<1>14. OrderParts(acc, w, rws, lst \cup {h}, g, D + 1, its)
  BY <1>7, <1>8, <1>9, <1>10, <1>12, <1>13 DEF OrderParts
<1> QED BY <1>11, <1>14, Zenon DEF InOrderOf, w, h, its

\* An entry of another log gets into the table.
LEMMA OrderOther ==
  ASSUME NEW g \in Gens, NEW acc \in Seq(Entries), NEW way \in Seq(Entries), NEW rws \in Seq(Entries),
         NEW lst, NEW e \in Entries, InOrderOf(acc, way, rws, lst, g), e.gen # g
  PROVE  InOrderOf(acc, way, Append(rws, e), lst, g)
<1> DEFINE r == Append(rws, e)
           R == Len(rws)
<1>1. R \in Nat /\ Len(r) = R + 1 /\ (\A i \in 1..R : r[i] = rws[i]) /\ r[R + 1] = e
  BY AtTheEnd
<1> HIDE DEF r, R
<1>2. 1..(R + 1) = 1..R \cup {R + 1}
  BY <1>1
<1>3. {i \in 1..Len(r) : r[i].gen = g} = {i \in 1..R : rws[i].gen = g}
  BY <1>1, <1>2
<1> DEFINE its == {i \in 1..R : rws[i].gen = g}
<1>4. \A i \in its : r[i] = rws[i]
  BY <1>1
<1> DEFINE D == Len(acc) - Len(way)
<1>5. OrderParts(acc, way, rws, lst, g, D, its)
  BY Zenon DEF InOrderOf, R
<1> HIDE DEF its, D
<1>6. OrderParts(acc, way, r, lst, g, D, its)
  BY <1>4, <1>5 DEF OrderParts
<1> QED BY <1>3, <1>6, Zenon DEF InOrderOf, r, R, its, D

-----------------------------------------------------------------------------
(* The order of the table *)

\* What a log has accepted is somewhere.
LEMMA AcceptedIsMade ==
  ASSUME TypeOK, OrderInv, NEW g \in Gens
  PROVE  SeqSet(accepted[g]) \subseteq Made
<1> DEFINE acc == accepted[g]
           way == hand[g] \o queue[g]
           D == Len(acc) - Len(way)
           its == {i \in 1..Len(rows) : rows[i].gen = g}
<1>1. /\ acc \in Seq(Entries) /\ queue[g] \in Seq(Entries)
      /\ hand[g] \in Seq(Entries) /\ Len(acc) \in Nat
  <2>1. /\ accepted[g] \in Seq(Entries) /\ queue[g] \in Seq(Entries)
        /\ hand[g] \in {<<>>} \cup {<<e>> : e \in Entries}
    BY Zenon DEF TypeOK
  <2>2. <<>> \in Seq(Entries) /\ \A e \in Entries : <<e>> \in Seq(Entries)
    OBVIOUS
  <2>3. hand[g] \in Seq(Entries)
    BY <2>1, <2>2, Zenon
  <2> QED BY <2>1, <2>3
<1>2. way \in Seq(Entries) /\ Len(way) \in Nat /\ SeqSet(way) \subseteq SeqSet(hand[g]) \cup SeqSet(queue[g])
  <2> DEFINE a == hand[g]
             b == queue[g]
  <2> HIDE DEF a, b
  <2>1. a \o b \in Seq(Entries) /\ Len(a \o b) \in Nat
    <3>1. a \in Seq(Entries) /\ b \in Seq(Entries)
      BY <1>1, Zenon DEF a, b
    <3> QED BY <3>1
  <2>2. SeqSet(a \o b) \subseteq SeqSet(a) \cup SeqSet(b)
    <3>1. a \in Seq(Entries) /\ b \in Seq(Entries) /\ Len(a) \in Nat /\ Len(b) \in Nat
      BY <1>1 DEF a, b
    <3>2. /\ Len(a \o b) = Len(a) + Len(b)
          /\ \A i \in 1..Len(a) + Len(b) : (a \o b)[i] = IF i <= Len(a) THEN a[i] ELSE b[i - Len(a)]
      BY <3>1, ConcatProperties, Zenon
    <3>3. ASSUME NEW i \in 1..Len(a \o b) PROVE (a \o b)[i] \in SeqSet(a) \cup SeqSet(b)
      <4>1. i \in 1..Len(a) + Len(b)
        BY <3>2, Zenon
      <4>2. CASE i <= Len(a)
        <5>1. i \in 1..Len(a) /\ (a \o b)[i] = a[i]
          BY <3>1, <3>2, <4>1, <4>2
        <5> QED BY <5>1 DEF SeqSet
      <4>3. CASE ~(i <= Len(a))
        <5>1. i - Len(a) \in 1..Len(b) /\ (a \o b)[i] = b[i - Len(a)]
          BY <3>1, <3>2, <4>1, <4>3
        <5> QED BY <5>1 DEF SeqSet
      <4> QED BY <4>2, <4>3
    <3> QED BY <3>3 DEF SeqSet
  <2> QED BY <2>1, <2>2, Zenon DEF a, b
<1>3. OrderParts(acc, way, rows, lost, g, D, its)
  BY Zenon DEF OrderInv, InOrderOf
<1> HIDE DEF acc, way
<1>4. ASSUME NEW k \in 1..Len(acc) PROVE acc[k] \in Made
  <2>1. D >= 0
    BY <1>3, Zenon DEF OrderParts
  <2>2. CASE k <= D
    <3>1. k \in 1..D
      BY <1>1, <1>2, <2>1, <2>2 DEF acc
    <3>2. acc[k] \in lost \/ \E i \in its : rows[i] = acc[k]
      BY <1>3, <3>1, Zenon DEF OrderParts
    <3>3. acc[k] \in lost \cup SeqSet(rows)
      BY <3>2 DEF SeqSet
    <3> QED BY <3>3, IsMade
  <2>3. CASE k > D
    <3>1. k - D \in 1..Len(way) /\ D + (k - D) = k
      <4>1. Len(acc) \in Nat /\ Len(way) \in Nat /\ k \in 1..Len(acc)
        BY <1>1, <1>2, Zenon
      <4> QED BY <2>1, <2>3, <4>1
    <3>2. acc[k] = way[k - D]
      BY <1>3, <3>1, Zenon DEF OrderParts
    <3>3. acc[k] \in SeqSet(way)
      BY <3>1, <3>2 DEF SeqSet
    <3> QED BY <1>2, <3>3, IsMade
  <2>4. k <= D \/ k > D
    BY <1>1, <1>2 DEF acc
  <2> QED BY <2>2, <2>3, <2>4
<1> QED BY <1>4 DEF SeqSet, acc

\* A step that makes no entry and leaves no handler ahead of one it has made.
LEMMA SameAreNew ==
  ASSUME TypeOK, EntriesAreNew, answers' = answers, Made' \subseteq Made, async' \subseteq async,
         \A q \in Requests : pc'[q] # pc[q] => pc'[q] \notin {"new", "request", "response"}
  PROVE  EntriesAreNew'
<1>1. \A e \in Made : e.req \in Requests
  BY MadeTypes DEF Entries
<1> QED BY <1>1, Zenon DEF EntriesAreNew

\* A handler makes the entry it is about to make.
LEMMA MadeIsNew ==
  ASSUME TypeOK, EntriesAreNew, answers' = answers,
         NEW r \in Requests, NEW to \in {"record", "aborted"}, pc' = [pc EXCEPT ![r] = to],
         NEW e \in Entries, e.req = r, e.n = answers[r], Made' \subseteq Made \cup {e},
         \A x \in async' : x.gen = 0
  PROVE  EntriesAreNew'
<1>1. /\ \A x \in Made : x.req \in Requests
      /\ pc'[r] = to /\ (\A q \in Requests \ {r} : pc'[q] = pc[q])
      /\ answers[r] \in Nat /\ to \notin {"new", "request", "response"}
  <2>1. \A x \in Made : x.req \in Requests
    BY MadeTypes DEF Entries
  <2>2. /\ pc \in [Requests -> {"new", "request", "refused", "upstream", "badgateway",
                                "response", "record", "answered", "aborted"}]
        /\ answers \in [Requests -> 0..MaxAnswers]
    BY Zenon DEF TypeOK
  <2> QED BY <2>1, <2>2
<1>2. ASSUME NEW x \in Made
      PROVE  x.n <= answers[x.req] /\ (x.n = answers[x.req] => pc'[x.req] \notin {"new", "request", "response"})
  <2>1. CASE x.req = r
    BY <1>1, <2>1, Zenon DEF EntriesAreNew
  <2>2. CASE x.req # r
    BY <1>1, <2>2, Zenon DEF EntriesAreNew
  <2> QED BY <2>1, <2>2
<1>3. e.n <= answers[e.req] /\ pc'[e.req] \notin {"new", "request", "response"}
  BY <1>1
<1> QED BY <1>2, <1>3 DEF EntriesAreNew

\* An entry that its handler has not made is nowhere.
LEMMA NotYetMade ==
  ASSUME TypeOK, EntriesAreNew, NEW e, e.n = answers[e.req], pc[e.req] \in {"request", "response"}
  PROVE  e \notin Made
BY Zenon DEF EntriesAreNew

LEMMA NewKept ==
  ASSUME TypeOK, HandlersFit, EntriesAreNew, [Next]_vars
  PROVE  EntriesAreNew'
<1>0. /\ pc \in [Requests -> {"new", "request", "refused", "upstream", "badgateway",
                              "response", "record", "answered", "aborted"}]
      /\ answers \in [Requests -> 0..MaxAnswers]
      /\ \A e \in Made : e.req \in Requests /\ e.n \in Nat
  <2>1. \A e \in Made : e.req \in Requests /\ e.n \in Nat
    BY MadeTypes DEF Entries
  <2> QED BY <2>1, Zenon DEF TypeOK
<1>1. ASSUME NEW r \in Requests, Refuse(r) \/ Unlogged(r) \/ LogCall(r) \/ UpstreamFails(r) \/ AnswerEnds(r)
                                 \/ RecordEntry(r)
      PROVE  EntriesAreNew'
  <2>1. /\ UNCHANGED <<queue, hand, answers, async, rows, lost>>
        /\ \E to \in {"refused", "upstream", "badgateway", "answered"} : pc' = [pc EXCEPT ![r] = to]
    BY <1>1 DEF Refuse, Unlogged, LogCall, UpstreamFails, AnswerEnds, RecordEntry, Goes, chains, logged
  <2>2. Made' = Made
    BY <2>1 DEF Made
  <2>3. \A q \in Requests : pc'[q] # pc[q] => pc'[q] \notin {"new", "request", "response"}
    BY <1>0, <2>1
  <2> QED BY <2>1, <2>2, <2>3, SameAreNew
<1>2. ASSUME NEW r \in Requests, NEW k \in AllKinds, NEW i \in IdsFor(k), Arrive(r, k, i)
      PROVE  EntriesAreNew'
  <2>1. /\ UNCHANGED <<queue, hand, answers, async, rows, lost>> /\ pc[r] = "new"
        /\ \E to \in {"request", "upstream"} : pc' = [pc EXCEPT ![r] = to]
    BY <1>2 DEF Arrive, chains, logged
  <2>2. Made' = Made
    BY <2>1 DEF Made
  <2>3. answers[r] = 0
    BY <2>1 DEF HandlersFit
  <2>4. \A e \in Made : e.req # r
    BY <1>0, <2>1, <2>3 DEF EntriesAreNew
  <2>5. \A q \in Requests : q # r => pc'[q] = pc[q]
    BY <1>0, <2>1
  <2>6. ASSUME NEW e \in Made
        PROVE  /\ e.n <= answers[e.req]
               /\ e.n = answers[e.req] => pc'[e.req] \notin {"new", "request", "response"}
    BY <1>0, <2>4, <2>5, Zenon DEF EntriesAreNew
  <2> QED BY <2>1, <2>2, <2>6, Zenon DEF EntriesAreNew
<1>3. ASSUME NEW r \in Requests, UpstreamAnswers(r)
      PROVE  EntriesAreNew'
  <2>1. /\ answers' = [answers EXCEPT ![r] = @ + 1] /\ pc' = [pc EXCEPT ![r] = "response"]
        /\ UNCHANGED <<queue, hand, async, rows, lost>>
    BY <1>3 DEF UpstreamAnswers, chains, logged
  <2>2. Made' = Made
    BY <2>1 DEF Made
  <2>3. /\ answers'[r] = answers[r] + 1 /\ answers[r] \in Nat
        /\ \A q \in Requests : q # r => pc'[q] = pc[q] /\ answers'[q] = answers[q]
    BY <1>0, <2>1
  <2>4. ASSUME NEW e \in Made
        PROVE  /\ e.n <= answers'[e.req]
               /\ e.n = answers'[e.req] => pc'[e.req] \notin {"new", "request", "response"}
    <3>1. CASE e.req = r
      <4>1. e.n <= answers[r] /\ e.n \in Nat
        BY <1>0, <3>1, Zenon DEF EntriesAreNew
      <4> QED BY <2>3, <3>1, <4>1
    <3>2. CASE e.req # r
      BY <1>0, <2>3, <3>2, Zenon DEF EntriesAreNew
    <3> QED BY <3>1, <3>2
  <2> QED BY <2>1, <2>2, <2>4, Zenon DEF EntriesAreNew
<1>4. ASSUME NEW r \in Requests, LogNotification(r)
      PROVE  EntriesAreNew'
  <2>1. /\ pc[r] = "request" /\ via[r] \in Gens /\ UNCHANGED <<hand, answers, async, rows>>
    BY <1>4 DEF LogNotification, TypeOK
  <2>2. PICK e \in Entries : e = Entry(r, 0, r, via[r]) /\ e.gen \in Gens /\ e.req = r /\ e.n = 0
    BY <2>1, OwnEntry
  <2>3. Enqueue(r, e)
    BY <1>4, <2>2 DEF LogNotification
  <2>4. PICK to \in {"aborted", "record"} : pc' = [pc EXCEPT ![r] = to]
    BY <2>3, EnqueueMoves
  <2>5. Made' \subseteq Made \cup {e}
    BY <1>0, <2>1, <2>2, <2>3, <2>4, MadeByEnqueue
  <2>6. answers[r] = 0
    BY <2>1 DEF HandlersFit
  <2>7. \A x \in async' : x.gen = 0
    BY <2>1, Zenon DEF EntriesAreNew
  <2> QED BY <2>1, <2>2, <2>4, <2>5, <2>6, <2>7, MadeIsNew
<1>5. ASSUME NEW r \in Requests, LogResponse(r)
      PROVE  EntriesAreNew'
  <2>1. /\ pc[r] = "response" /\ via[r] \in Gens /\ answers[r] \in 0..MaxAnswers
        /\ Found(r) \in Requests \cup {NoRequest}
        /\ UNCHANGED <<hand, answers, async, rows>>
    BY <1>5 DEF LogResponse, TypeOK, Found
  <2>2. /\ Entry(r, answers[r], Found(r), via[r]) \in Entries
        /\ Entry(r, answers[r], Found(r), via[r]).gen = via[r]
    BY ONLY <2>1 DEF Entry, Entries
  <2>3. PICK e \in Entries : /\ e = Entry(r, answers[r], Found(r), via[r]) /\ e.gen \in Gens
                             /\ e.req = r /\ e.n = answers[r]
    BY ONLY <2>1, <2>2 DEF Entry
  <2>4. Enqueue(r, e)
    BY <1>5, <2>3 DEF LogResponse
  <2>5. PICK to \in {"aborted", "record"} : pc' = [pc EXCEPT ![r] = to]
    BY <2>4, EnqueueMoves
  <2>6. Made' \subseteq Made \cup {e}
    BY <1>0, <2>1, <2>3, <2>4, <2>5, MadeByEnqueue
  <2>7. \A x \in async' : x.gen = 0
    BY <2>1, Zenon DEF EntriesAreNew
  <2> QED BY <2>1, <2>3, <2>5, <2>6, <2>7, MadeIsNew
<1>6. ASSUME NEW r \in Requests, AnswerHTTP(r)
      PROVE  EntriesAreNew'
  <2>1. /\ kind[r] = "http" /\ async' = async \cup {Entry(r, 0, r, 0)}
        /\ pc' = [pc EXCEPT ![r] = "record"]
        /\ UNCHANGED <<queue, hand, answers, rows, lost>>
    BY <1>6 DEF AnswerHTTP, chains, logged
  <2>2. PICK e \in Entries : e = Entry(r, 0, r, 0) /\ e.req = r /\ e.n = 0 /\ e.gen = 0
    BY OwnEntry
  <2>3. Made' = Made \cup {e} /\ answers[r] = 0
    BY <2>1, <2>2 DEF Made, HandlersFit
  <2>4. \A x \in async' : x.gen = 0
    BY <2>1, <2>2 DEF EntriesAreNew
  <2> QED BY <2>1, <2>2, <2>3, <2>4, MadeIsNew
<1>7. ASSUME UNCHANGED <<pc, answers>>, Made' = Made, async' \subseteq async
      PROVE  EntriesAreNew'
  BY <1>7, SameAreNew
<1>8. ASSUME NEW g \in Gens, Write(g)
      PROVE  EntriesAreNew'
  <2>1. UNCHANGED <<pc, answers, async>>
    BY <1>8 DEF Write, Receive, WriterInserts, requests
  <2> QED BY <1>7, <1>8, <2>1, MadeByReceive, MadeByInserts DEF Write
<1>9. ASSUME NEW e \in async, AsyncInserts(e)
       PROVE  EntriesAreNew'
  <2>1. UNCHANGED <<pc, answers>> /\ async' \subseteq async
    BY <1>9 DEF AsyncInserts
  <2> QED BY <1>7, <1>9, <2>1, MadeByInserts
<1>10. ASSUME \/ \E c \in Configs : Reload(c)
              \/ CloseOld \/ Exit \/ CloseFirst \/ Gone \/ UNCHANGED vars
              \/ \E p \in Flushers : Flush(p)
              \/ Collect(Tick) \/ Collect(LeaveOnCancel)
       PROVE  EntriesAreNew'
  <2>1. UNCHANGED <<pc, answers, queue, hand, async, rows, lost>>
    BY <1>10 DEF Reload, CloseOld, Exit, CloseFirst, Gone, Flush, Collect, vars, ivars, chains,
                 requests, logged
  <2>2. Made' = Made
    BY <2>1 DEF Made
  <2> QED BY <1>7, <2>1, <2>2
<1> QED BY <1>1, <1>2, <1>3, <1>4, <1>5, <1>6, <1>8, <1>9, <1>10 DEF Next, Handle, FromUpstream

\* A log's entries bear its number.
LEMMA OwnGen ==
  ASSUME NEW g \in Gens, NEW acc \in Seq(Entries), NEW way \in Seq(Entries), NEW rws \in Seq(Entries),
         NEW lst, InOrderOf(acc, way, rws, lst, g)
  PROVE  /\ \A x \in SeqSet(acc) : x.gen = g
         /\ way # <<>> => Head(way).gen = g
<1> DEFINE D == Len(acc) - Len(way)
<1>1. /\ D >= 0 /\ \A k \in 1..Len(way) : acc[D + k] = way[k]
      /\ \A k \in 1..Len(acc) : acc[k].gen = g
  BY Zenon DEF InOrderOf, OrderParts
<1>2. \A x \in SeqSet(acc) : x.gen = g
  BY <1>1, Zenon DEF SeqSet
<1>3. ASSUME way # <<>> PROVE Head(way).gen = g
  <2>1. Len(way) \in Nat \ {0} /\ Head(way) = way[1] /\ Len(acc) \in Nat
    BY <1>3, AtTheHead
  <2>2. 1 \in 1..Len(way) /\ D + 1 \in 1..Len(acc)
    <3>1. D >= 0
      BY <1>1, Zenon
    <3> QED BY <2>1, <3>1
  <2>3. acc[D + 1] = way[1]
    BY <1>1, <2>2, Zenon
  <2>4. acc[D + 1].gen = g
    BY <1>1, <2>2, Zenon
  <2> QED BY <2>1, <2>3, <2>4, Zenon
<1> QED BY <1>2, <1>3

\* The ways of hand and queue.
LEMMA WayIs ==
  ASSUME NEW q \in Seq(Entries), NEW e \in Entries
  PROVE  /\ <<>> \o q = q /\ <<e>> \o q \in Seq(Entries) /\ <<e>> \o q # <<>>
         /\ Head(<<e>> \o q) = e /\ Tail(<<e>> \o q) = q
         /\ \A x \in Entries : <<e>> \o Append(q, x) = Append(<<e>> \o q, x)
         /\ q # <<>> => Head(q) \in Entries /\ Tail(q) \in Seq(Entries) /\ <<Head(q)>> \o Tail(q) = q
<1>1. <<>> \o q = q
  OBVIOUS
<1>2. <<e>> \o q \in Seq(Entries) /\ <<e>> \o q # <<>> /\ Head(<<e>> \o q) = e
  OBVIOUS
<1>3. Tail(<<e>> \o q) = q
  OBVIOUS
<1>4. \A x \in Entries : <<e>> \o Append(q, x) = Append(<<e>> \o q, x)
  OBVIOUS
<1>5. q # <<>> => Head(q) \in Entries /\ Tail(q) \in Seq(Entries) /\ <<Head(q)>> \o Tail(q) = q
  OBVIOUS
<1> QED BY <1>1, <1>2, <1>3, <1>4, <1>5, Zenon

LEMMA OrderTypes ==
  ASSUME TypeOK, NEW g \in Gens
  PROVE  /\ accepted[g] \in Seq(Entries) /\ queue[g] \in Seq(Entries) /\ rows \in Seq(Entries)
         /\ hand[g] = <<>> \/ \E e \in Entries : hand[g] = <<e>>
         /\ hand[g] \o queue[g] \in Seq(Entries)
<1>1. /\ accepted[g] \in Seq(Entries) /\ queue[g] \in Seq(Entries) /\ rows \in Seq(Entries)
      /\ hand[g] \in {<<>>} \cup {<<e>> : e \in Entries}
  BY Zenon DEF TypeOK
<1>2. hand[g] = <<>> \/ \E e \in Entries : hand[g] = <<e>>
  BY <1>1
<1>3. CASE hand[g] = <<>>
  <2>1. <<>> \o queue[g] = queue[g]
    BY <1>1
  <2> QED BY <1>1, <1>2, <1>3, <2>1, Zenon
<1>4. CASE \E e \in Entries : hand[g] = <<e>>
  BY <1>1, <1>2, <1>4, WayIs, Zenon
<1> QED BY <1>2, <1>3, <1>4

\* A handler enters an entry.
LEMMA EnqueueOrders ==
  ASSUME TypeOK, OrderInv, EntriesAreNew,
         NEW r \in Requests, NEW e \in Entries, e.gen \in Gens, e.req = r, e.n = answers[r],
         pc[r] \in {"request", "response"}, Enqueue(r, e), UNCHANGED <<rows, hand>>
  PROVE  OrderInv'
<1> DEFINE g == e.gen
<1>1. e \notin Made
  BY NotYetMade
<1>2. e \notin lost /\ \A h \in Gens : e \notin SeqSet(accepted[h])
  BY <1>1, AcceptedIsMade, IsMade
<1>3. queue \in [Gens -> Seq(Entries)] /\ accepted \in [Gens -> Seq(Entries)]
  BY Zenon DEF TypeOK
<1>4. CASE UNCHANGED <<queue, accepted, lost>>
  BY <1>4 DEF OrderInv
<1>5. CASE queue' = [queue EXCEPT ![g] = Append(queue[g], e)]
           /\ accepted' = [accepted EXCEPT ![g] = Append(accepted[g], e)] /\ lost' = lost
  <2> SUFFICES ASSUME NEW h \in Gens
               PROVE  InOrderOf(accepted'[h], hand[h] \o queue'[h], rows, lost, h)
    BY <1>5 DEF OrderInv
  <2>1. InOrderOf(accepted[h], hand[h] \o queue[h], rows, lost, h)
    BY DEF OrderInv
  <2>2. CASE h # g
    <3>1. accepted'[h] = accepted[h] /\ queue'[h] = queue[h]
      BY <1>3, <1>5, <2>2
    <3> QED BY <2>1, <3>1, Zenon
  <2>3. CASE h = g
    <3>1. accepted'[h] = Append(accepted[h], e) /\ queue'[h] = Append(queue[h], e)
      BY <1>3, <1>5, <2>3
    <3>2. hand[h] \o Append(queue[h], e) = Append(hand[h] \o queue[h], e)
      <4>1. queue[h] \in Seq(Entries) /\ Append(queue[h], e) \in Seq(Entries)
        BY <1>3
      <4>2. hand[h] = <<>> \/ \E x \in Entries : hand[h] = <<x>>
        BY OrderTypes
      <4>3. <<>> \o queue[h] = queue[h] /\ <<>> \o Append(queue[h], e) = Append(queue[h], e)
        BY <4>1, WayIs, Zenon
      <4>4. CASE hand[h] = <<>>
        BY <4>3, <4>4, Zenon
      <4>5. ASSUME NEW x \in Entries, hand[h] = <<x>>
            PROVE  hand[h] \o Append(queue[h], e) = Append(hand[h] \o queue[h], e)
        <5>1. queue[h] \in Seq(Entries)
          BY <4>1, Zenon
        <5>2. \A y \in Entries : <<x>> \o Append(queue[h], y) = Append(<<x>> \o queue[h], y)
          BY <5>1, WayIs, Zenon
        <5> QED BY <4>5, <5>2, Zenon
      <4> QED BY <4>2, <4>4, <4>5, Zenon
    <3>3. /\ accepted[h] \in Seq(Entries) /\ hand[h] \o queue[h] \in Seq(Entries) /\ rows \in Seq(Entries)
      BY OrderTypes
    <3>4. InOrderOf(Append(accepted[h], e), Append(hand[h] \o queue[h], e), rows, lost, h)
      BY <1>2, <2>1, <2>3, <3>3, OrderAccept
    <3> QED BY <3>1, <3>2, <3>4, Zenon
  <2> QED BY <2>2, <2>3
<1>6. CASE lost' = lost \cup {e} /\ UNCHANGED <<queue, accepted>>
  <2> SUFFICES ASSUME NEW h \in Gens
               PROVE  InOrderOf(accepted[h], hand[h] \o queue[h], rows, lost \cup {e}, h)
    BY <1>6 DEF OrderInv
  <2>1. InOrderOf(accepted[h], hand[h] \o queue[h], rows, lost, h)
    BY DEF OrderInv
  <2>2. accepted[h] \in Seq(Entries) /\ hand[h] \o queue[h] \in Seq(Entries) /\ rows \in Seq(Entries)
    BY OrderTypes
  <2> QED BY <1>2, <2>1, <2>2, OrderDrop
<1> QED BY <1>4, <1>5, <1>6 DEF Enqueue

\* An INSERT of an entry that is not the next of log h.
LEMMA OtherInserts ==
  ASSUME TypeOK, OrderInv, NEW h \in Gens, NEW e \in Entries, e.gen # h, Insert(e)
  PROVE  InOrderOf(accepted[h], hand[h] \o queue[h], rows', lost', h)
<1>1. InOrderOf(accepted[h], hand[h] \o queue[h], rows, lost, h)
  BY DEF OrderInv
<1>2. accepted[h] \in Seq(Entries) /\ hand[h] \o queue[h] \in Seq(Entries) /\ rows \in Seq(Entries)
  BY OrderTypes
<1>3. e \notin SeqSet(accepted[h])
  BY <1>1, <1>2, OwnGen
<1>4. CASE rows' = Append(rows, e) /\ lost' = lost
  BY <1>1, <1>2, <1>4, OrderOther
<1>5. CASE rows' = rows /\ lost' = lost \cup {e}
  BY <1>1, <1>2, <1>3, <1>5, OrderDrop
<1> QED BY <1>4, <1>5 DEF Insert

LEMMA OrderKept ==
  ASSUME TypeOK, HandlersFit, EntriesAreNew, OrderInv, [Next]_vars
  PROVE  OrderInv'
<1>0. queue \in [Gens -> Seq(Entries)] /\ hand \in [Gens -> {<<>>} \cup {<<e>> : e \in Entries}]
  BY Zenon DEF TypeOK
<1>1. ASSUME UNCHANGED <<queue, hand, rows, lost, accepted>>
      PROVE  OrderInv'
  BY <1>1 DEF OrderInv
<1>2. ASSUME NEW r \in Requests, LogNotification(r)
      PROVE  OrderInv'
  <2>1. /\ pc[r] = "request" /\ via[r] \in Gens /\ UNCHANGED <<hand, rows>>
    BY <1>2 DEF LogNotification, TypeOK
  <2>2. PICK e \in Entries : e = Entry(r, 0, r, via[r]) /\ e.gen \in Gens /\ e.req = r /\ e.n = 0
    BY <2>1, OwnEntry
  <2>3. Enqueue(r, e)
    BY <1>2, <2>2 DEF LogNotification
  <2>4. answers[r] = 0
    BY <2>1 DEF HandlersFit
  <2> QED BY <2>1, <2>2, <2>3, <2>4, EnqueueOrders
<1>3. ASSUME NEW r \in Requests, LogResponse(r)
      PROVE  OrderInv'
  <2>1. /\ pc[r] = "response" /\ via[r] \in Gens /\ answers[r] \in 0..MaxAnswers
        /\ Found(r) \in Requests \cup {NoRequest}
        /\ UNCHANGED <<hand, rows>>
    BY <1>3 DEF LogResponse, TypeOK, Found
  <2>2. /\ Entry(r, answers[r], Found(r), via[r]) \in Entries
        /\ Entry(r, answers[r], Found(r), via[r]).gen = via[r]
    BY ONLY <2>1 DEF Entry, Entries
  <2>3. PICK e \in Entries : /\ e = Entry(r, answers[r], Found(r), via[r]) /\ e.gen \in Gens
                             /\ e.req = r /\ e.n = answers[r]
    BY ONLY <2>1, <2>2 DEF Entry
  <2>4. Enqueue(r, e)
    BY <1>3, <2>3 DEF LogResponse
  <2> QED BY <2>1, <2>3, <2>4, EnqueueOrders
<1>4. ASSUME NEW g \in Gens, Receive(g)
      PROVE  OrderInv'
  <2>1. /\ hand[g] = <<>> /\ queue[g] # <<>>
        /\ hand' = [hand EXCEPT ![g] = <<Head(queue[g])>>] /\ queue' = [queue EXCEPT ![g] = Tail(queue[g])]
        /\ UNCHANGED <<rows, lost, accepted>>
    BY <1>4 DEF Receive, logged
  <2>2. ASSUME NEW h \in Gens PROVE hand'[h] \o queue'[h] = hand[h] \o queue[h]
    <3>1. CASE h # g
      BY <1>0, <2>1, <3>1
    <3>2. CASE h = g
      <4>1. hand'[h] = <<Head(queue[h])>> /\ queue'[h] = Tail(queue[h]) /\ queue[h] \in Seq(Entries)
        BY <1>0, <2>1, <3>2
      <4>2. Head(queue[h]) \in Entries
        BY <2>1, <3>2, <4>1, AtTheHead
      <4>3. <<Head(queue[h])>> \o Tail(queue[h]) = queue[h] /\ <<>> \o queue[h] = queue[h]
        BY <2>1, <3>2, <4>1, <4>2, WayIs, Zenon
      <4> QED BY <2>1, <3>2, <4>1, <4>3, Zenon
    <3> QED BY <3>1, <3>2
  <2> QED BY <2>1, <2>2, Zenon DEF OrderInv
<1>5. ASSUME NEW g \in Gens, WriterInserts(g)
      PROVE  OrderInv'
  <2>1. /\ hand[g] # <<>> /\ Insert(hand[g][1]) /\ hand' = [hand EXCEPT ![g] = <<>>]
        /\ UNCHANGED <<queue, accepted>>
    BY <1>5 DEF WriterInserts
  <2>2. PICK e \in Entries : hand[g] = <<e>>
    BY <2>1, OrderTypes
  <2>3. Insert(e)
    BY <2>1, <2>2
  <2>4. /\ accepted[g] \in Seq(Entries) /\ queue[g] \in Seq(Entries) /\ rows \in Seq(Entries)
        /\ hand[g] \o queue[g] \in Seq(Entries)
    BY OrderTypes
  <2>5. /\ hand[g] \o queue[g] # <<>> /\ Head(hand[g] \o queue[g]) = e /\ Tail(hand[g] \o queue[g]) = queue[g]
        /\ <<>> \o queue[g] = queue[g]
    <3>1. queue[g] \in Seq(Entries)
      BY <2>4, Zenon
    <3>2. /\ <<e>> \o queue[g] # <<>> /\ Head(<<e>> \o queue[g]) = e /\ Tail(<<e>> \o queue[g]) = queue[g]
          /\ <<>> \o queue[g] = queue[g]
      BY <3>1, WayIs, Zenon
    <3> QED BY <2>2, <3>2, Zenon
  <2>6. InOrderOf(accepted[g], hand[g] \o queue[g], rows, lost, g)
    BY DEF OrderInv
  <2>7. e.gen = g
    BY <2>4, <2>5, <2>6, OwnGen
  <2> SUFFICES ASSUME NEW h \in Gens PROVE InOrderOf(accepted[h], hand'[h] \o queue[h], rows', lost', h)
    BY <2>1 DEF OrderInv
  <2>8. CASE h # g
    <3>1. hand'[h] = hand[h]
      BY <1>0, <2>1, <2>8
    <3>2. InOrderOf(accepted[h], hand[h] \o queue[h], rows', lost', h)
      BY <2>3, <2>7, <2>8, OtherInserts
    <3> QED BY <3>1, <3>2, Zenon
  <2>9. CASE h = g
    <3>1. hand'[g] = <<>>
      BY <1>0, <2>1
    <3>2. /\ InOrderOf(accepted[g], queue[g], Append(rows, e), lost, g)
          /\ InOrderOf(accepted[g], queue[g], rows, lost \cup {e}, g)
      <4> DEFINE way == hand[g] \o queue[g]
      <4>1. way \in Seq(Entries) /\ way # <<>> /\ InOrderOf(accepted[g], way, rows, lost, g)
        BY <2>4, <2>5, <2>6, Zenon
      <4> HIDE DEF way
      <4>2. InOrderOf(accepted[g], Tail(way), Append(rows, Head(way)), lost, g)
        BY <2>4, <4>1, OrderInsert, Zenon
      <4>3. InOrderOf(accepted[g], Tail(way), rows, lost \cup {Head(way)}, g)
        BY <2>4, <4>1, OrderLose, Zenon
      <4> QED BY <2>5, <4>2, <4>3, Zenon DEF way
    <3>3. InOrderOf(accepted[g], queue[g], rows', lost', g)
      BY <2>3, <3>2, Zenon DEF Insert
    <3> QED BY <2>5, <2>9, <3>1, <3>3, Zenon
  <2> QED BY <2>8, <2>9
<1>6. ASSUME NEW e \in async, AsyncInserts(e)
      PROVE  OrderInv'
  <2>1. Insert(e) /\ UNCHANGED <<hand, queue, accepted>>
    BY <1>6 DEF AsyncInserts, chains
  <2>2. e \in Entries /\ e.gen = 0
    BY Zenon DEF TypeOK, EntriesAreNew
  <2>3. ASSUME NEW h \in Gens PROVE InOrderOf(accepted[h], hand[h] \o queue[h], rows', lost', h)
    <3>1. e.gen # h
      BY <2>2 DEF Gens
    <3> QED BY <2>1, <2>2, <3>1, OtherInserts
  <2> QED BY <2>1, <2>3, Zenon DEF OrderInv
<1>7. ASSUME \/ \E r \in Requests :
                  \/ Refuse(r) \/ Unlogged(r) \/ LogCall(r) \/ UpstreamFails(r) \/ AnswerEnds(r)
                  \/ RecordEntry(r) \/ AnswerHTTP(r) \/ UpstreamAnswers(r)
                  \/ \E k \in AllKinds : \E i \in IdsFor(k) : Arrive(r, k, i)
             \/ \E c \in Configs : Reload(c)
             \/ CloseOld \/ Exit \/ CloseFirst \/ Gone \/ UNCHANGED vars
             \/ \E p \in Flushers : Flush(p)
             \/ Collect(Tick) \/ Collect(LeaveOnCancel)
      PROVE  OrderInv'
  <2>1. UNCHANGED <<queue, hand, rows, lost, accepted>>
    BY <1>7 DEF Refuse, Unlogged, LogCall, UpstreamFails, AnswerEnds, RecordEntry, AnswerHTTP, UpstreamAnswers,
                Arrive, Goes, Reload, CloseOld, Exit, CloseFirst, Gone, Flush, Collect, vars, ivars, chains,
                logged
  <2> QED BY <1>1, <2>1
<1> QED BY <1>2, <1>3, <1>4, <1>5, <1>6, <1>7 DEF Next, Handle, FromUpstream, Write

LEMMA OrderStarts ==
  ASSUME accepted = [g \in Gens |-> <<>>], queue = [g \in Gens |-> <<>>], hand = [g \in Gens |-> <<>>],
         rows = <<>>, lost = {}
  PROVE  OrderInv
<1> SUFFICES ASSUME NEW g \in Gens PROVE InOrderOf(<<>>, <<>> \o <<>>, <<>>, {}, g)
  BY DEF OrderInv
<1>1. <<>> \o <<>> = <<>> /\ Len(<<>>) = 0 /\ 0 - 0 = 0 /\ 1..0 = {} /\ 0 >= 0
  OBVIOUS
<1>2. OrderParts(<<>>, <<>>, <<>>, {}, g, 0, {})
  BY <1>1 DEF OrderParts
<1>3. {i \in 1..Len(<<>>) : <<>>[i].gen = g} = {}
  BY <1>1
<1> QED BY <1>1, <1>2, <1>3 DEF InOrderOf

\* What the parts say of one log.
LEMMA OrderSays ==
  ASSUME TypeOK, OrderInv
  PROVE  AcceptedInOrder
<1> SUFFICES ASSUME NEW g \in Gens
             PROVE  LET way  == hand[g] \o queue[g]
                        done == Len(accepted[g]) - Len(way)
                        kept == {k \in 1..done : accepted[g][k] \notin lost}
                        its  == {i \in 1..Len(rows) : rows[i].gen = g}
                    IN  /\ done >= 0
                        /\ \A k \in 1..Len(way) : accepted[g][done + k] = way[k] /\ way[k] \notin lost
                        /\ {rows[i] : i \in its} = {accepted[g][k] : k \in kept}
                        /\ \A i, j \in its, k, l \in kept :
                             rows[i] = accepted[g][k] /\ rows[j] = accepted[g][l] => (i < j <=> k < l)
  BY Zenon DEF AcceptedInOrder
<1> DEFINE way  == hand[g] \o queue[g]
           acc  == accepted[g]
           done == Len(acc) - Len(way)
           kept == {k \in 1..done : acc[k] \notin lost}
           its  == {i \in 1..Len(rows) : rows[i].gen = g}
<1>1. OrderParts(acc, way, rows, lost, g, done, its)
  BY Zenon DEF OrderInv, InOrderOf
<1>2. Len(acc) \in Nat /\ Len(way) \in Nat /\ Len(rows) \in Nat
  <2>1. acc \in Seq(Entries) /\ way \in Seq(Entries) /\ rows \in Seq(Entries)
    BY OrderTypes
  <2> HIDE DEF acc, way
  <2> QED BY <2>1
<1> HIDE DEF way, acc
<1>3. 1..done \subseteq 1..Len(acc)
  BY <1>2
<1>4. its \subseteq Nat
  BY <1>2
<1> HIDE DEF done, its
<1>5. {rows[i] : i \in its} = {acc[k] : k \in kept}
  <2>1. ASSUME NEW i \in its PROVE \E k \in kept : rows[i] = acc[k]
    BY <1>1, Zenon DEF OrderParts
  <2>2. ASSUME NEW k \in kept PROVE \E i \in its : rows[i] = acc[k]
    BY <1>1, Zenon DEF OrderParts
  <2> HIDE DEF kept
  <2> QED BY <2>1, <2>2
<1>6. ASSUME NEW i \in its, NEW j \in its, NEW k \in kept, NEW l \in kept,
             rows[i] = acc[k], rows[j] = acc[l]
      PROVE  i < j <=> k < l
  <2>1. \A m \in kept : m \in 1..done /\ m \in 1..Len(acc)
    BY <1>3, Zenon
  <2>2. \A x, y \in 1..Len(acc) : acc[x] = acc[y] => x = y
    BY <1>1, Zenon DEF OrderParts
  <2>3. \A a, b \in its, x, y \in 1..done : a < b /\ rows[a] = acc[x] /\ rows[b] = acc[y] => x < y
    BY <1>1, Zenon DEF OrderParts
  <2> HIDE DEF kept
  <2>4. i < j => k < l
    BY <1>6, <2>1, <2>3, Zenon
  <2>5. j < i => l < k
    BY <1>6, <2>1, <2>3, Zenon
  <2>6. i = j => k = l
    BY <1>6, <2>1, <2>2, Zenon
  <2>7. i \in Nat /\ j \in Nat /\ k \in Nat /\ l \in Nat
    <3>1. k \in 1..Len(acc) /\ l \in 1..Len(acc)
      BY <2>1, Zenon
    <3>2. k \in Nat /\ l \in Nat
      BY <1>2, <3>1
    <3> QED BY <1>4, <3>2
  <2> QED BY <2>4, <2>5, <2>6, <2>7
<1>7. done >= 0 /\ \A k \in 1..Len(way) : acc[done + k] = way[k] /\ way[k] \notin lost
  BY <1>1, Zenon DEF OrderParts
<1> QED BY <1>5, <1>6, <1>7, Zenon DEF way, acc, done, its

-----------------------------------------------------------------------------
(* The theorems *)

LEMMA LogInitHolds == Init => LogIInv
<1> SUFFICES ASSUME Init PROVE LogIInv
  OBVIOUS
<1>1. TelemetryIInv
  BY TelemetryInitHolds DEF Init
<1>2. 1 \in Gens /\ setting \in Settings /\ setting.mws \subseteq {"auth", "guard", "token", "log"}
  <2>1. setting \in Settings
    BY DEF Init
  <2>2. setting.mws \in Configs
    BY <2>1, IngressLogAssumption
  <2>3. 1 \in Gens
    BY IngressLogAssumption DEF Gens
  <2> QED BY <2>1, <2>2, <2>3, IngressLogAssumption
<1>3. /\ TelemetryTypeOK /\ recorded = <<>> /\ chain = 1
      /\ config \in [Gens -> SUBSET {"auth", "guard", "token", "log"}]
      /\ rows = <<>> /\ lost = {} /\ async = {}
      /\ queue = [g \in Gens |-> <<>>] /\ hand = [g \in Gens |-> <<>>]
  BY <1>1, <1>2 DEF Init, TelemetryInit, TelemetryIInv
<1>4. Len(<<>>) = 0 /\ SeqSet(<<>>) = {}
  BY DEF SeqSet
<1>5. TypeOK
  <2>1. /\ queue \in [Gens -> Seq(Entries)] /\ \A g \in Gens : Len(queue[g]) <= ChannelSize
        /\ hand \in [Gens -> {<<>>} \cup {<<e>> : e \in Entries}]
        /\ rows \in Seq(Entries)
    BY <1>3, <1>4, IngressLogAssumption
  <2>2. /\ accepted \in [Gens -> Seq(Entries)] /\ closed \in [Gens -> BOOLEAN]
        /\ pending \in [Gens -> [Ids -> Requests \cup {NoRequest}]]
    BY DEF Init
  <2>3. /\ pc \in [Requests -> {"new", "request", "refused", "upstream", "badgateway",
                                "response", "record", "answered", "aborted"}]
        /\ kind \in [Requests -> AllKinds \cup {"none"}]
        /\ id \in [Requests -> Ids \cup {NoId}]
        /\ via \in [Requests -> Gens]
        /\ answers \in [Requests -> 0..MaxAnswers]
    BY <1>2, IngressLogAssumption DEF Init
  <2>4. process = "up" /\ oldCloser = 1 /\ swapped = FALSE
    BY DEF Init
  <2> QED BY <1>2, <1>3, <2>1, <2>2, <2>3, <2>4 DEF TypeOK
<1>6. Made = {} /\ SeqSet(recorded) = {}
  BY <1>3, <1>4 DEF Made
<1>7. EventsAreNew /\ ChainsFit /\ HandlersFit
  BY <1>2, <1>6 DEF Init, EventsAreNew, ChainsFit, HandlersFit, Gens
<1>8. NamesFit /\ OwnNames /\ EntryHasEvent
  BY <1>6, <1>2 DEF Init, NamesFit, OwnNames, EntryHasEvent
<1>9. EntriesAreNew
  BY <1>3, <1>6 DEF EntriesAreNew
<1>10. OrderInv
  BY <1>3, OrderStarts DEF Init
<1> QED BY <1>1, <1>5, <1>7, <1>8, <1>9, <1>10 DEF LogIInv

LEMMA LogNextKeeps == LogIInv /\ [Next]_vars => LogIInv'
<1> SUFFICES ASSUME LogIInv, [Next]_vars PROVE LogIInv'
  OBVIOUS
<1> USE DEF LogIInv
<1>1. TelemetryIInv'
  BY CollectorStep, TelemetryNextKeeps
<1>2. TypeOK'
  BY <1>1, LogTypes DEF TelemetryIInv
<1>3. EntriesAreNew' /\ OrderInv'
  BY NewKept, OrderKept
<1> QED BY <1>1, <1>2, <1>3, ChainsFitKept, HandlersKept, NamesKept, EventsKept

\* The inductive invariant holds of every run of log and collector together.
THEOREM LogCorrect == Spec => []LogIInv
<1> QED BY LogInitHolds, LogNextKeeps, PTL DEF Spec

\* log.go:108-140: an entry never has the method of a request with another id,
\* and until a reload a call that shares its id with nobody is named by itself.
THEOREM EntryNamesItsRequestCorrect == Spec => []EntryNamesItsRequest
<1>1. LogIInv => EntryNamesItsRequest
  BY MadeTypes DEF LogIInv, NamesFit, OwnNames, Alone, EntryNamesItsRequest, Entries
<1> QED BY <1>1, LogCorrect, PTL

\* log.go:81-101, proxy.go:206-210: a request never finds a chain whose log is
\* closed, and table and telemetry tell of the same messages.
THEOREM LogPartsCorrect == Spec => [](CurrentChainOpen /\ EntryHasEvent)
<1>1. LogIInv => CurrentChainOpen /\ EntryHasEvent
  BY DEF LogIInv, ChainsFit, CurrentChainOpen, TypeOK, Gens
<1> QED BY <1>1, LogCorrect, PTL

\* log.go:179-220, proxy.go:206-222: all that holds of the log over reloads, the
\* order of the table with it: what a log has accepted is inserted once, in order,
\* or lost by its own INSERT, and closing the channel loses nothing.
THEOREM LogInvCorrect == Spec => []LogInv
<1>1. LogIInv => LogInv
  BY OrderSays DEF LogIInv, LogInv, ChainsFit, CurrentChainOpen, TypeOK, Gens
<1> QED BY <1>1, LogCorrect, PTL

\* collector.go:66-127: what holds of the collector by itself goes on holding
\* when handlers of the log drive it.
THEOREM CollectorCorrect == Spec => []TelemetryInv
<1>1. LogIInv => TelemetryInv
  BY TelemetryIInvImplies DEF LogIInv
<1> QED BY <1>1, LogCorrect, PTL
=============================================================================
