--------------------------- MODULE EgressAuditProofs ---------------------------
(***************************************************************************)
(* Proofs about EgressAudit, for any number of requests, any buffer size   *)
(* and any mixture of faults.                                              *)
(***************************************************************************)
EXTENDS EgressAudit, FiniteSetTheorems, WellFoundedInduction, TLAPS

-----------------------------------------------------------------------------
(* The store's operators *)

\* A non-empty set of naturals has a least element.
LEMMA LeastNat ==
  ASSUME NEW S \in SUBSET Nat, S # {}
  PROVE  \E least \in S : \A n \in S : least <= n
<1>1. \E x \in S : \A y \in S : ~ (<<y, x>> \in OpToRel(<, Nat))
  BY NatLessThanWellFounded, WFMin
<1>2. PICK x \in S : \A y \in S : ~ (<<y, x>> \in OpToRel(<, Nat))
  BY <1>1
<1>3. ASSUME NEW y \in S PROVE x <= y
  <2>1. ~ (y < x)
    BY <1>2 DEF OpToRel
  <2> QED BY <2>1
<1> QED BY <1>3

\* A non-empty bounded set of naturals has a greatest element.
LEMMA GreatestNat ==
  ASSUME NEW S \in SUBSET Nat, S # {}, NEW bound \in Nat, \A n \in S : n <= bound
  PROVE  \E greatest \in S : \A n \in S : n <= greatest
<1> DEFINE D == {bound - n : n \in S}
<1>1. D \in SUBSET Nat /\ D # {}
  <2>1. \A n \in S : bound - n \in Nat
    OBVIOUS
  <2> QED BY <2>1
<1>2. PICK least \in D : \A d \in D : least <= d
  BY <1>1, LeastNat
<1>3. PICK greatest \in S : least = bound - greatest
  BY <1>2
<1>4. \A n \in S : bound - greatest <= bound - n
  BY <1>2, <1>3
<1> QED BY <1>3, <1>4

\* ORDER BY id DESC LIMIT 1 finds a row, and none has a larger id.
LEMMA NewestRowIsNewest ==
  ASSUME NEW T \in SUBSET Row, T # {}, NEW bound \in Nat,
         \A row \in T : row.id <= bound
  PROVE  /\ NewestRow(T) \in T
         /\ \A row \in T : row.id <= NewestRow(T).id
<1> DEFINE Ids == {row.id : row \in T}
<1>1. Ids \in SUBSET Nat /\ Ids # {} /\ \A id \in Ids : id <= bound
  BY DEF Row
<1>2. PICK greatest \in Ids : \A id \in Ids : id <= greatest
  BY <1>1, GreatestNat
<1>3. PICK row \in T : row.id = greatest
  BY <1>2
<1>4. \A other \in T : other.id <= row.id
  BY <1>2, <1>3
<1> QED BY <1>3, <1>4 DEF NewestRow

\* The anchor's NextRowID is a row id or -1.
LEMMA NextRowIdType ==
  ASSUME NEW T \in SUBSET Row, NEW lastId \in Nat
  PROVE  NextRowId(T, lastId) \in Nat \cup {NoRowId}
<1> DEFINE above == {row.id : row \in {other \in T : other.id > lastId}}
<1>1. CASE above = {}
  BY <1>1 DEF NextRowId
<1>2. CASE above # {}
  <2>1. above \in SUBSET Nat
    BY DEF Row
  <2>2. \E id \in above : \A other \in above : id <= other
    BY <1>2, <2>1, LeastNat
  <2>3. (CHOOSE id \in above : \A other \in above : id <= other) \in above
    BY <2>2
  <2> QED BY <1>2, <2>1, <2>3 DEF NextRowId
<1> QED BY <1>1, <1>2

\* A sweep leaves a table and anchors of the right type.
LEMMA PurgeType ==
  ASSUME NEW T \in SUBSET Row, IsFiniteSet(T), NEW bound \in Nat,
         \A row \in T : row.id <= bound,
         NEW A \in Seq(Anchor), NEW cutoff \in Nat
  PROVE  /\ PurgedRows(T, cutoff) \in SUBSET T
         /\ IsFiniteSet(PurgedRows(T, cutoff))
         /\ PurgedAnchors(T, A, cutoff) \in Seq(Anchor)
<1> DEFINE old == OlderThan(T, cutoff)
<1>1. old \in SUBSET T /\ IsFiniteSet(old) /\ Cardinality(old) \in Nat
  <2>1. old \in SUBSET T
    BY DEF OlderThan
  <2> QED BY <2>1, FS_Subset, FS_CardinalityType
<1>2. PurgedRows(T, cutoff) \in SUBSET T /\ IsFiniteSet(PurgedRows(T, cutoff))
  <2>1. PurgedRows(T, cutoff) \in SUBSET T
    BY DEF PurgedRows
  <2> QED BY <2>1, FS_Subset
<1>3. CASE old = {}
  BY <1>2, <1>3 DEF PurgedAnchors
<1>4. CASE old # {}
  <2>1. NewestRow(old) \in Row
    BY <1>1, <1>4, NewestRowIsNewest
  <2>2. NextRowId(T, NewestRow(old).id) \in Nat \cup {NoRowId}
    BY <2>1, NextRowIdType DEF Row
  <2>3. PurgeAnchor(T, cutoff) \in Anchor
    BY <1>1, <2>1, <2>2 DEF PurgeAnchor, Anchor, Row, Hash
  <2> QED BY <1>2, <1>4, <2>3 DEF PurgedAnchors
<1> QED BY <1>2, <1>3, <1>4

\* LastEgressRowHash returns a hash.
LEMMA LastHashType ==
  ASSUME NEW T \in SUBSET Row, NEW bound \in Nat, \A row \in T : row.id <= bound,
         NEW A \in Seq(Anchor)
  PROVE  LastEgressRowHash(T, A) \in Hash
<1>1. CASE T # {}
  <2>1. NewestRow(T) \in Row
    BY <1>1, NewestRowIsNewest
  <2> QED BY <1>1, <2>1 DEF LastEgressRowHash, Row
<1>2. CASE T = {} /\ A # <<>>
  <2>1. A[Len(A)] \in Anchor
    BY <1>2
  <2> QED BY <1>2, <2>1 DEF LastEgressRowHash, Anchor
<1>3. CASE T = {} /\ A = <<>>
  BY <1>3 DEF LastEgressRowHash, NoHash, Hash
<1> QED BY <1>1, <1>2, <1>3

-----------------------------------------------------------------------------
(* Types *)

\* The records InsertEgressLog stores are rows.
LEMMA RowOfType ==
  ASSUME TypeOK, NEW r \in Requests, NEW id \in Nat \ {0}
  PROVE  RowOf(r, id) \in Row
<1>1. prev[r] \in Seq(Requests) /\ ts[r] \in Nat
  BY DEF TypeOK, Hash
<1>2. Append(prev[r], r) \in Seq(Requests)
  BY <1>1
<1> QED BY <1>1, <1>2 DEF RowOf, Digest, Row, Hash

\* The initial state is well typed.
LEMMA TypeInit == Init => TypeOK
<1> SUFFICES ASSUME Init PROVE TypeOK
  OBVIOUS
<1>1. IsFiniteSet(rows)
  BY FS_EmptySet DEF Init
<1> QED BY <1>1, AuditAssumption DEF Init, TypeOK, Hash, NoHash

\* What Finish does to the writer's variables keeps their types.
LEMMA FinishType ==
  ASSUME TypeOK, NEW r \in Requests, NEW result \in {"ok", "err"}, Finish(r, result)
  PROVE  /\ hand' = <<>> /\ attempt' = 0
         /\ ack' \in [Requests -> {"none", "ok", "err"}]
BY DEF TypeOK, Finish

\* A handler's step keeps the types.
LEMMA TypeHandler ==
  ASSUME TypeOK, NEW r \in Requests, Handler(r)
  PROVE  TypeOK'
<1> USE DEF history, stored, writer
<1>1. CASE Begin(r)
  BY <1>1 DEF Begin, TypeOK, Active
<1>2. ASSUME NEW m \in PolicyModes, ComputeRow(r, m)
      PROVE  TypeOK'
  <2>1. m \in {"none", "warn", "block"}
    BY AuditAssumption
  <2>2. Digest(tail, r) \in Hash /\ Append(computed, r) \in Seq(Requests)
    BY DEF TypeOK, Hash, Digest
  <2> QED BY <1>2, <2>1, <2>2 DEF ComputeRow, TypeOK, Active
<1>3. CASE CheckDone(r)
  BY <1>3 DEF CheckDone, TypeOK, Active, Finished
<1>4. CASE Send(r)
  <2>1. /\ Append(queue, r) \in Seq(Requests) /\ Len(Append(queue, r)) = Len(queue) + 1
        /\ Append(sent, r) \in Seq(Requests)
    BY DEF TypeOK
  <2>2. Len(queue') <= BufferSize
    BY <1>4, <2>1, AuditAssumption DEF Send, TypeOK
  <2>3. overtaken' \subseteq Requests
    <3>1. HashedBefore(r) \subseteq Requests
      BY DEF HashedBefore, TypeOK
    <3> QED BY <1>4, <3>1 DEF Send, TypeOK
  <2> QED BY <1>4, <2>1, <2>2, <2>3 DEF Send, TypeOK, Active, Finished
<1>5. CASE RefuseClosed(r)
  BY <1>5 DEF RefuseClosed, TypeOK, Finished
<1>6. CASE Cancel(r)
  BY <1>6 DEF Cancel, TypeOK, Finished
<1>7. CASE ReceiveAck(r)
  BY <1>7 DEF ReceiveAck, TypeOK, Finished
<1> QED BY <1>1, <1>2, <1>3, <1>4, <1>5, <1>6, <1>7 DEF Handler

\* A step of the writer goroutine keeps the types.
LEMMA TypeWriter ==
  ASSUME TypeOK, Writer
  PROVE  TypeOK'
<1> USE DEF history, stored
<1>1. CASE Receive
  <2>1. /\ Head(queue) \in Requests /\ Tail(queue) \in Seq(Requests)
        /\ Len(Tail(queue)) <= BufferSize
    BY <1>1, AuditAssumption DEF Receive, TypeOK
  <2> QED BY <1>1, <2>1 DEF Receive, TypeOK
<1>2. CASE InsertOk
  <2>1. PICK r \in Requests : hand = <<r>>
    BY <1>2 DEF InsertOk, TypeOK
  <2> DEFINE new == RowOf(r, lastRowId + 1)
  <2>2. new \in Row /\ new.id = lastRowId + 1
    BY RowOfType DEF TypeOK, RowOf
  <2>3. Finish(r, "ok") /\ rows' = rows \cup {new} /\ lastRowId' = lastRowId + 1
    BY <1>2, <2>1 DEF InsertOk
  <2>4. IsFiniteSet(rows')
    BY <2>3, FS_AddElement DEF TypeOK
  <2>5. \A row \in rows' : row.id <= lastRowId'
    BY <2>2, <2>3 DEF TypeOK, Row
  <2>6. \A row, other \in rows' : row.id = other.id => row = other
    BY <2>2, <2>3 DEF TypeOK, Row
  <2>7. rows' \subseteq Row /\ lastRowId' \in Nat
    BY <2>2, <2>3 DEF TypeOK
  <2>8. /\ hand' = <<>> /\ attempt' \in 0..(Retries - 1)
        /\ ack' \in [Requests -> {"none", "ok", "err"}]
    BY <2>3, FinishType, AuditAssumption
  <2> QED BY <1>2, <2>4, <2>5, <2>6, <2>7, <2>8 DEF InsertOk, TypeOK
<1>3. CASE InsertRetry
  BY <1>3, AuditAssumption DEF InsertRetry, TypeOK
<1>4. CASE GiveUp
  <2>1. PICK r \in Requests : hand = <<r>>
    BY <1>4 DEF GiveUp, TypeOK
  <2>2. Finish(r, "err") /\ dropped' = dropped \cup {r}
    BY <1>4, <2>1 DEF GiveUp
  <2>3. /\ hand' = <<>> /\ attempt' \in 0..(Retries - 1)
        /\ ack' \in [Requests -> {"none", "ok", "err"}]
    BY <2>2, FinishType, AuditAssumption
  <2> QED BY <1>4, <2>2, <2>3 DEF GiveUp, TypeOK
<1>5. CASE WriterReturns
  BY <1>5 DEF WriterReturns, TypeOK, writer
<1> QED BY <1>1, <1>2, <1>3, <1>4, <1>5 DEF Writer

\* A step of the process around them keeps the types.
LEMMA TypeProcess ==
  ASSUME TypeOK, Process
  PROVE  TypeOK'
<1> USE DEF history, stored, writer
<1>1. CASE CloseWriter
  BY <1>1 DEF CloseWriter, TypeOK
<1>2. CASE Die
  <2>1. pc' \in [Requests -> {"idle"} \cup Active \cup Finished]
    BY <1>2 DEF Die, TypeOK, Finished
  <2>2. ack' \in [Requests -> {"none", "ok", "err"}]
    BY <1>2 DEF Die
  <2>3. /\ queue' \in Seq(Requests) /\ Len(queue') <= BufferSize
        /\ hand' = <<>> /\ attempt' \in 0..(Retries - 1)
        /\ tail' \in Hash
    BY <1>2, AuditAssumption DEF Die, NoHash, Hash
  <2> QED BY <1>2, <2>1, <2>2, <2>3 DEF Die, TypeOK
<1>3. ASSUME NEW cutoff \in 0..clock, Boot(cutoff)
      PROVE  TypeOK'
  <2>1. cutoff \in Nat
    BY DEF TypeOK
  <2>2. rows \in SUBSET Row /\ IsFiniteSet(rows) /\ lastRowId \in Nat
        /\ (\A row \in rows : row.id <= lastRowId) /\ anchors \in Seq(Anchor)
    BY DEF TypeOK
  <2>3. /\ rows' \in SUBSET rows /\ IsFiniteSet(rows') /\ anchors' \in Seq(Anchor)
    BY <1>3, <2>1, <2>2, PurgeType DEF Boot
  <2>4. tail' \in Hash
    <3>1. rows' \in SUBSET Row /\ \A row \in rows' : row.id <= lastRowId
      BY <2>2, <2>3
    <3>2. tail' = LastEgressRowHash(rows', anchors')
      BY <1>3 DEF Boot
    <3> QED BY <2>2, <2>3, <3>1, <3>2, LastHashType
  <2>5. purged' \subseteq Requests
    BY <1>3, <2>2 DEF Boot, OlderThan, TypeOK, Row
  <2> QED BY <1>3, <2>2, <2>3, <2>4, <2>5 DEF Boot, TypeOK
<1> QED BY <1>1, <1>2, <1>3 DEF Process, Exit, Crash, ReturnEarly

\* TypeOK is inductive.
LEMMA TypeNext == TypeOK /\ [Next]_vars => TypeOK'
<1> SUFFICES ASSUME TypeOK, [Next]_vars PROVE TypeOK'
  OBVIOUS
<1>1. CASE UNCHANGED vars
  BY <1>1 DEF vars, stored, writer, history, TypeOK
<1>2. CASE Next
  BY <1>1, <1>2, TypeHandler, TypeWriter, TypeProcess DEF Next, Terminated
<1> QED BY <1>1, <1>2

\* Every reachable state is well typed: the channel stays within its
\* capacity, row ids stay distinct and below the AUTOINCREMENT counter.
THEOREM TypeCorrect == Spec => []TypeOK
BY TypeInit, TypeNext, PTL DEF Spec

-----------------------------------------------------------------------------
(* The pipeline: where a row is, what was answered, in which order *)

\* Appending to a sequence adds one element; what it holds is of its type.
LEMMA InAppend ==
  ASSUME NEW seq \in Seq(Requests), NEW r \in Requests
  PROVE  In(Append(seq, r)) = In(seq) \cup {r} /\ In(seq) \subseteq Requests
<1>1. DOMAIN Append(seq, r) = DOMAIN seq \cup {Len(seq) + 1}
  OBVIOUS
<1>2. Append(seq, r)[Len(seq) + 1] = r
  OBVIOUS
<1>3. \A i \in DOMAIN seq : Append(seq, r)[i] = seq[i] /\ seq[i] \in Requests
  OBVIOUS
<1> QED BY <1>1, <1>2, <1>3 DEF In

\* A sequence holds its head and what its tail holds.
LEMMA InHeadTail ==
  ASSUME NEW seq \in Seq(Requests), seq # <<>>
  PROVE  In(seq) = {Head(seq)} \cup In(Tail(seq))
<1>1. /\ Tail(seq) \in Seq(Requests) /\ Len(Tail(seq)) = Len(seq) - 1
      /\ \A i \in 1..Len(Tail(seq)) : Tail(seq)[i] = seq[i + 1]
      /\ Head(seq) = seq[1]
  OBVIOUS
<1>2. \A i \in DOMAIN seq : i = 1 \/ (i - 1 \in DOMAIN Tail(seq) /\ seq[i] = Tail(seq)[i - 1])
  BY <1>1
<1>3. \A i \in DOMAIN Tail(seq) : i + 1 \in DOMAIN seq /\ Tail(seq)[i] = seq[i + 1]
  BY <1>1
<1>4. 1 \in DOMAIN seq
  OBVIOUS
<1>5. In(seq) \subseteq {Head(seq)} \cup In(Tail(seq))
  BY <1>1, <1>2 DEF In
<1>6. {Head(seq)} \cup In(Tail(seq)) \subseteq In(seq)
  BY <1>1, <1>3, <1>4 DEF In
<1> QED BY <1>5, <1>6

\* What the writer holds is nothing or one request.
LEMMA InHand ==
  /\ In(<<>>) = {}
  /\ \A r : In(<<r>>) = {r}
BY DEF In

\* What the order of the pipeline says of a running process, in parts.
LEMMA OrderParts ==
  ASSUME PipelineInOrder, phase # "down"
  PROVE  /\ Handled \in Nat
         /\ \A i, j \in DOMAIN sent : sent[i] = sent[j] => i = j
         /\ \A i \in 1..Handled : sent[i] \in Stored \cup dropped
         /\ \A i \in DOMAIN hand : hand[i] = sent[Handled + i]
         /\ \A i \in DOMAIN queue : queue[i] = sent[Handled + Len(hand) + i]
         /\ \A i, j \in DOMAIN sent : \A row, other \in rows :
              (i < j /\ row.req = sent[i] /\ other.req = sent[j]) => row.id < other.id
BY DEF PipelineInOrder

\* At the start everything is empty.
LEMMA PipelineInit == Init => PipelineInv
<1> SUFFICES ASSUME Init PROVE PipelineInv
  OBVIOUS
<1>1. TypeOK
  BY TypeInit
<1>2. Stored = {} /\ purged = {} /\ In(queue) = {} /\ In(hand) = {} /\ In(sent) = {}
      /\ dropped = {} /\ queue = <<>>
  BY InHand DEF Init, Stored
<1>3. StoredOnce
  BY <1>2 DEF StoredOnce, Init
<1>4. UnsentIsNowhere
  BY <1>2 DEF UnsentIsNowhere
<1>5. AnswersAgree
  BY DEF AnswersAgree, Init
<1>6. PipelineInOrder
  BY DEF PipelineInOrder, Init, InFlight, Active
<1> QED BY <1>1, <1>3, <1>4, <1>5, <1>6 DEF PipelineInv

\* Steps of a handler that neither send nor touch the store: the request may
\* only move away from the unsent states, and finish according to its answer.
LEMMA PipelineQuiet ==
  ASSUME PipelineInv, NEW r \in Requests, phase # "down",
         UNCHANGED <<stored, phase, writer, ack, sent, dropped>>,
         NEW to, pc' = [pc EXCEPT ![r] = to],
         to \in {"inflight", "computed", "sending"} =>
           pc[r] \in {"idle", "inflight", "computed"},
         to # "idle",
         to = "stored" => ack[r] = "ok",
         to = "failed" => ack[r] = "err"
  PROVE  StoredOnce' /\ UnsentIsNowhere' /\ AnswersAgree' /\ PipelineInOrder'
<1>1. /\ rows' = rows /\ purged' = purged /\ queue' = queue /\ hand' = hand
      /\ sent' = sent /\ dropped' = dropped /\ ack' = ack /\ phase' = phase
      /\ Stored' = Stored
  BY DEF stored, writer, Stored
<1>2. StoredOnce'
  BY <1>1 DEF PipelineInv, StoredOnce, In
<1>3. pc \in [Requests -> {"idle"} \cup Active \cup Finished]
  BY DEF PipelineInv, TypeOK
<1>4. UnsentIsNowhere'
  <2>1. \A q \in Requests : pc'[q] \in {"idle", "inflight", "computed", "sending"} =>
                              pc[q] \in {"idle", "inflight", "computed", "sending"}
    BY <1>3
  <2> QED BY <1>1, <2>1 DEF PipelineInv, UnsentIsNowhere, In
<1>5. AnswersAgree'
  BY <1>1, <1>3 DEF PipelineInv, AnswersAgree
<1>6. PipelineInOrder'
  BY <1>1 DEF PipelineInv, PipelineInOrder, Handled
<1> QED BY <1>2, <1>4, <1>5, <1>6

\* Sending puts a request that was nowhere at the end of the channel.
LEMMA PipelineSend ==
  ASSUME PipelineInv, NEW r \in Requests, phase # "down", Send(r)
  PROVE  StoredOnce' /\ UnsentIsNowhere' /\ AnswersAgree' /\ PipelineInOrder'
<1>1. /\ rows' = rows /\ purged' = purged /\ hand' = hand /\ ack' = ack
      /\ dropped' = dropped /\ phase' = phase /\ Stored' = Stored
      /\ queue' = Append(queue, r) /\ sent' = Append(sent, r)
  BY DEF Send, stored, Stored
<1>2. queue \in Seq(Requests) /\ sent \in Seq(Requests)
      /\ pc \in [Requests -> {"idle"} \cup Active \cup Finished]
      /\ (hand = <<>> \/ \E q \in Requests : hand = <<q>>)
      /\ phase \in {"down", "up", "closing", "drained"}
  BY DEF PipelineInv, TypeOK
<1>3. In(queue') = In(queue) \cup {r} /\ In(sent') = In(sent) \cup {r} /\ In(hand') = In(hand)
  BY <1>1, <1>2, InAppend
<1>4. pc[r] = "sending" /\ pc'[r] \in {"waiting", "accepted"}
      /\ \A q \in Requests \ {r} : pc'[q] = pc[q]
  BY <1>2 DEF Send
<1>5. r \notin Stored \cup purged \cup dropped \cup In(sent) \cup In(queue) \cup In(hand)
  BY <1>4 DEF PipelineInv, UnsentIsNowhere
<1>6. StoredOnce'
  <2>1. \A i \in 1..Len(queue) : queue[i] # r
    BY <1>2, <1>5 DEF In
  <2>2. \A i, j \in DOMAIN queue' : queue'[i] = queue'[j] => i = j
    BY <1>1, <1>2, <2>1 DEF PipelineInv, StoredOnce
  <2> QED BY <1>1, <1>3, <1>5, <2>2 DEF PipelineInv, StoredOnce
<1>7. UnsentIsNowhere'
  BY <1>1, <1>3, <1>4 DEF PipelineInv, UnsentIsNowhere
<1>8. AnswersAgree'
  BY <1>1, <1>4 DEF PipelineInv, AnswersAgree
<1>9. PipelineInOrder'
  <2>1. Len(hand) \in Nat /\ Len(queue) \in Nat /\ Len(sent) \in Nat
        /\ DOMAIN hand = 1..Len(hand)
    BY <1>2
  <2>2. /\ Len(sent') = Len(sent) + 1 /\ Len(queue') = Len(queue) + 1
        /\ DOMAIN sent' = 1..(Len(sent) + 1) /\ DOMAIN queue' = 1..(Len(queue) + 1)
        /\ \A i \in 1..Len(sent) : sent'[i] = sent[i]
        /\ \A i \in 1..Len(queue) : queue'[i] = queue[i]
        /\ sent'[Len(sent) + 1] = r /\ queue'[Len(queue) + 1] = r
    BY <1>1, <1>2
  <2>3. Handled' = Handled /\ Handled + Len(hand) + Len(queue) = Len(sent)
        /\ Handled \in Nat
    BY <1>1, <2>1, <2>2, OrderParts DEF Handled, PipelineInv
  <2>4. \A i \in 1..Len(sent) : sent[i] # r
    BY <1>2, <1>5 DEF In
  <2>5. \A i, j \in DOMAIN sent' : sent'[i] = sent'[j] => i = j
    BY SMTT(30), <1>2, <2>1, <2>2, <2>4, OrderParts DEF PipelineInv
  <2>6. \A i \in 1..Handled' : sent'[i] \in Stored' \cup dropped'
    BY <1>1, <2>1, <2>2, <2>3, OrderParts DEF PipelineInv
  <2>7. \A i \in DOMAIN hand' : hand'[i] = sent'[Handled' + i]
    <3>1. \A i \in 1..Len(hand) : Handled + i \in 1..Len(sent)
      BY <2>1, <2>3
    <3> QED BY <1>1, <2>1, <2>2, <2>3, <3>1, OrderParts DEF PipelineInv
  <2>8. \A i \in DOMAIN queue' : queue'[i] = sent'[Handled' + Len(hand') + i]
    <3>1. ASSUME NEW i \in 1..Len(queue) PROVE queue'[i] = sent'[Handled + Len(hand) + i]
      <4>1. Handled + Len(hand) + i \in 1..Len(sent)
        BY <2>1, <2>3
      <4>2. queue[i] = sent[Handled + Len(hand) + i]
        BY <1>2, OrderParts DEF PipelineInv
      <4> QED BY <2>2, <4>1, <4>2
    <3>2. queue'[Len(queue) + 1] = sent'[Handled + Len(hand) + Len(queue) + 1]
      BY <2>1, <2>2, <2>3
    <3>3. \A i \in DOMAIN queue' : i \in 1..Len(queue) \/ i = Len(queue) + 1
      BY <2>1, <2>2
    <3>4. Handled + Len(hand) + Len(queue) + 1 = Handled + Len(hand) + (Len(queue) + 1)
      BY <2>1, <2>3
    <3> QED BY <1>1, <2>3, <3>1, <3>2, <3>3, <3>4
  <2>9. \A i, j \in DOMAIN sent' : \A row, other \in rows' :
          (i < j /\ row.req = sent'[i] /\ other.req = sent'[j]) => row.id < other.id
    <3> SUFFICES ASSUME NEW i \in DOMAIN sent', NEW j \in DOMAIN sent',
                        NEW row \in rows, NEW other \in rows, i < j,
                        row.req = sent'[i], other.req = sent'[j]
                 PROVE  row.id < other.id
      BY <1>1
    <3>1. j # Len(sent) + 1
      BY <1>5, <2>2 DEF Stored
    <3>2. i \in 1..Len(sent) /\ j \in 1..Len(sent)
      BY <2>1, <2>2, <3>1
    <3>3. row.req = sent[i] /\ other.req = sent[j]
      BY <2>2, <3>2
    <3> QED BY <1>2, <3>2, <3>3, OrderParts DEF PipelineInv
  <2> QED BY <1>1, <2>3, <2>5, <2>6, <2>7, <2>8, <2>9 DEF PipelineInOrder
<1> QED BY <1>6, <1>7, <1>8, <1>9

\* Every step of a handler keeps the pipeline in order.
LEMMA PipelineHandler ==
  ASSUME PipelineInv, NEW r \in Requests, Handler(r)
  PROVE  StoredOnce' /\ UnsentIsNowhere' /\ AnswersAgree' /\ PipelineInOrder'
<1> USE DEF history, writer, stored
<1>1. pc \in [Requests -> {"idle"} \cup Active \cup Finished]
      /\ ack \in [Requests -> {"none", "ok", "err"}]
  BY DEF PipelineInv, TypeOK
<1>2. pc[r] \in Active => phase # "down"
  BY DEF PipelineInv, PipelineInOrder, InFlight
<1>3. CASE Begin(r)
  <2>1. UNCHANGED <<stored, phase, writer, ack, sent, dropped>> /\ phase # "down"
        /\ pc[r] = "idle" /\ pc' = [pc EXCEPT ![r] = "inflight"]
    BY <1>3 DEF Begin
  <2> QED BY <2>1, PipelineQuiet
<1>4. ASSUME NEW m \in PolicyModes, ComputeRow(r, m)
      PROVE  StoredOnce' /\ UnsentIsNowhere' /\ AnswersAgree' /\ PipelineInOrder'
  <2>1. UNCHANGED <<stored, phase, writer, ack, sent, dropped>>
        /\ pc[r] = "inflight" /\ pc' = [pc EXCEPT ![r] = "computed"]
    BY <1>4 DEF ComputeRow
  <2>2. phase # "down"
    BY <1>2, <2>1 DEF Active
  <2> QED BY <2>1, <2>2, PipelineQuiet
<1>5. CASE CheckDone(r)
  <2>1. PICK to \in {"sending", "closed"} : pc' = [pc EXCEPT ![r] = to]
    BY <1>5 DEF CheckDone
  <2>2. UNCHANGED <<stored, phase, writer, ack, sent, dropped>> /\ pc[r] = "computed"
    BY <1>5 DEF CheckDone
  <2>3. phase # "down"
    BY <1>2, <2>2 DEF Active
  <2> QED BY <2>1, <2>2, <2>3, PipelineQuiet
<1>6. CASE Send(r)
  <2>1. phase # "down"
    BY <1>2, <1>6 DEF Send, Active
  <2> QED BY <1>6, <2>1, PipelineSend
<1>7. CASE RefuseClosed(r)
  <2>1. UNCHANGED <<stored, phase, writer, ack, sent, dropped>> /\ phase # "down"
        /\ pc' = [pc EXCEPT ![r] = "closed"]
    BY <1>7 DEF RefuseClosed
  <2> QED BY <2>1, PipelineQuiet
<1>8. CASE Cancel(r)
  <2>1. UNCHANGED <<stored, phase, writer, ack, sent, dropped>>
        /\ pc[r] \in {"sending", "waiting"} /\ pc' = [pc EXCEPT ![r] = "canceled"]
    BY <1>8 DEF Cancel
  <2>2. phase # "down"
    BY <1>2, <2>1 DEF Active
  <2> QED BY <2>1, <2>2, PipelineQuiet
<1>9. CASE ReceiveAck(r)
  <2>1. PICK to \in {"stored", "failed"} :
          /\ pc' = [pc EXCEPT ![r] = to]
          /\ to = "stored" => ack[r] = "ok"
          /\ to = "failed" => ack[r] = "err"
    BY <1>1, <1>9 DEF ReceiveAck
  <2>2. UNCHANGED <<stored, phase, writer, ack, sent, dropped>> /\ pc[r] = "waiting"
    BY <1>9 DEF ReceiveAck
  <2>3. phase # "down"
    BY <1>2, <2>2 DEF Active
  <2> QED BY <2>1, <2>2, <2>3, PipelineQuiet
<1> QED BY <1>3, <1>4, <1>5, <1>6, <1>7, <1>8, <1>9 DEF Handler

\* The writer takes the oldest row of the channel into its hands.
LEMMA PipelineReceive ==
  ASSUME PipelineInv, Receive
  PROVE  StoredOnce' /\ UnsentIsNowhere' /\ AnswersAgree' /\ PipelineInOrder'
<1>1. /\ rows' = rows /\ purged' = purged /\ ack' = ack /\ pc' = pc /\ sent' = sent
      /\ dropped' = dropped /\ phase' = phase /\ Stored' = Stored
      /\ hand = <<>> /\ queue # <<>> /\ hand' = <<Head(queue)>> /\ queue' = Tail(queue)
      /\ phase # "down"
  BY DEF Receive, stored, history, Stored
<1>2. queue \in Seq(Requests) /\ sent \in Seq(Requests)
  BY DEF PipelineInv, TypeOK
<1>3. /\ Len(queue) \in Nat /\ Len(queue) >= 1 /\ Len(queue') = Len(queue) - 1
      /\ DOMAIN queue = 1..Len(queue) /\ DOMAIN queue' = 1..(Len(queue) - 1)
      /\ \A i \in DOMAIN queue' : queue'[i] = queue[i + 1]
      /\ hand' = <<queue[1]>> /\ Len(hand) = 0 /\ Len(hand') = 1 /\ Len(sent) \in Nat
      /\ DOMAIN hand' = {1}
  BY <1>1, <1>2
<1>4. /\ In(queue) = In(hand') \cup In(queue') /\ In(hand) = {}
      /\ In(hand') = {queue[1]}
  BY <1>1, <1>2, <1>3, InHeadTail, InHand
<1>5. StoredOnce'
  <2>1. \A i, j \in 1..Len(queue) : queue[i] = queue[j] => i = j
    BY <1>3 DEF PipelineInv, StoredOnce
  <2>2. \A i, j \in DOMAIN queue' : queue'[i] = queue'[j] => i = j
    BY <1>3, <2>1
  <2>3. queue[1] \notin In(queue')
    BY <1>3, <2>1 DEF In
  <2> QED BY <1>1, <1>4, <2>2, <2>3 DEF PipelineInv, StoredOnce
<1>6. UnsentIsNowhere'
  <2>1. In(sent') = In(sent)
    BY <1>1
  <2> QED BY <1>1, <1>4, <2>1 DEF PipelineInv, UnsentIsNowhere
<1>7. AnswersAgree'
  BY <1>1 DEF PipelineInv, AnswersAgree
<1>8. PipelineInOrder'
  <2>1. Handled' = Handled /\ Handled \in Nat
    BY <1>1, <1>3, OrderParts DEF Handled, PipelineInv
  <2>2. \A i \in DOMAIN queue : queue[i] = sent[Handled + i]
    BY <1>1, <1>3, <2>1, OrderParts DEF PipelineInv
  <2>3. \A i \in DOMAIN hand' : hand'[i] = sent'[Handled' + i]
    BY <1>1, <1>3, <2>1, <2>2
  <2>4. \A i \in DOMAIN queue' : queue'[i] = sent'[Handled' + Len(hand') + i]
    <3> SUFFICES ASSUME NEW i \in DOMAIN queue'
                 PROVE  queue'[i] = sent[Handled + 1 + i]
      BY <1>1, <1>3, <2>1
    <3>1. i + 1 \in DOMAIN queue /\ queue'[i] = queue[i + 1]
      BY <1>3
    <3>2. Handled + (i + 1) = Handled + 1 + i
      BY <1>3, <2>1
    <3> QED BY <2>2, <3>1, <3>2
  <2> QED BY <1>1, <2>1, <2>3, <2>4, OrderParts DEF PipelineInv, PipelineInOrder
<1> QED BY <1>5, <1>6, <1>7, <1>8

\* The row in the writer's hands is the oldest sent row not yet handled; the
\* rows behind it are in the channel.
LEMMA HandIsNext ==
  ASSUME PipelineInv, NEW r \in Requests, hand = <<r>>
  PROVE  /\ phase # "down"
         /\ Handled \in Nat /\ Handled + 1 \in DOMAIN sent /\ sent[Handled + 1] = r
         /\ \A j \in DOMAIN sent : j > Handled + 1 => sent[j] \in In(queue)
         /\ In(hand) = {r}
         /\ r \notin Stored \cup purged \cup In(queue) \cup dropped
<1>1. hand # <<>> /\ Len(hand) = 1 /\ DOMAIN hand = {1} /\ hand[1] = r
      /\ queue \in Seq(Requests) /\ Len(queue) \in Nat /\ DOMAIN queue = 1..Len(queue)
      /\ sent \in Seq(Requests) /\ Len(sent) \in Nat /\ DOMAIN sent = 1..Len(sent)
  BY DEF PipelineInv, TypeOK
<1>2. phase # "down"
  BY <1>1 DEF PipelineInv, PipelineInOrder
<1>3. /\ Handled \in Nat
      /\ \A i \in DOMAIN hand : hand[i] = sent[Handled + i]
      /\ \A i \in DOMAIN queue : queue[i] = sent[Handled + Len(hand) + i]
  BY <1>2, OrderParts DEF PipelineInv
<1>4. Handled = Len(sent) - 1 - Len(queue)
  BY <1>1 DEF Handled
<1>5. Handled + 1 \in DOMAIN sent /\ sent[Handled + 1] = r
  BY <1>1, <1>3, <1>4
<1>6. ASSUME NEW j \in DOMAIN sent, j > Handled + 1
      PROVE  sent[j] \in In(queue)
  <2>1. j - Handled - 1 \in DOMAIN queue
    BY <1>1, <1>3, <1>4, <1>6
  <2>2. queue[j - Handled - 1] = sent[Handled + 1 + (j - Handled - 1)]
    BY <1>1, <1>3, <2>1
  <2>3. Handled + 1 + (j - Handled - 1) = j
    BY <1>1, <1>3
  <2> QED BY <2>1, <2>2, <2>3 DEF In
<1>7. In(hand) = {r}
  BY InHand
<1>8. r \notin Stored \cup purged \cup In(queue) \cup dropped
  BY <1>7 DEF PipelineInv, StoredOnce
<1> QED BY <1>2, <1>3, <1>5, <1>6, <1>7, <1>8

\* A successful INSERT moves the row in hand to the end of the table.
LEMMA PipelineInsert ==
  ASSUME PipelineInv, InsertOk
  PROVE  StoredOnce' /\ UnsentIsNowhere' /\ AnswersAgree' /\ PipelineInOrder'
<1>1. PICK r \in Requests : hand = <<r>>
  BY DEF InsertOk, PipelineInv, TypeOK
<1> DEFINE new == RowOf(r, lastRowId + 1)
<1>2. /\ rows' = rows \cup {new} /\ purged' = purged /\ queue' = queue /\ pc' = pc
      /\ sent' = sent /\ dropped' = dropped /\ phase' = phase /\ hand' = <<>>
      /\ Finish(r, "ok")
  BY <1>1 DEF InsertOk, history, Finish
<1>3. new.req = r /\ new.id = lastRowId + 1
  BY DEF RowOf
<1>4. Stored' = Stored \cup {r}
  BY <1>2, <1>3 DEF Stored
<1>5. /\ phase # "down"
      /\ Handled \in Nat /\ Handled + 1 \in DOMAIN sent /\ sent[Handled + 1] = r
      /\ \A j \in DOMAIN sent : j > Handled + 1 => sent[j] \in In(queue)
      /\ In(hand) = {r}
      /\ r \notin Stored \cup purged \cup In(queue) \cup dropped
  BY <1>1, HandIsNext
<1>6. In(hand') = {} /\ In(queue') = In(queue) /\ In(sent') = In(sent)
  BY <1>2, InHand
<1>7. StoredOnce'
  <2>1. \A row, other \in rows' : row.req = other.req => row = other
    BY <1>2, <1>3, <1>5 DEF PipelineInv, StoredOnce, Stored
  <2>2. \A i, j \in DOMAIN queue' : queue'[i] = queue'[j] => i = j
    BY <1>2 DEF PipelineInv, StoredOnce
  <2>3. /\ Stored' \cap purged' = {}
        /\ (Stored' \cup purged') \cap (In(queue') \cup In(hand') \cup dropped') = {}
        /\ dropped' \cap (In(queue') \cup In(hand')) = {}
        /\ In(queue') \cap In(hand') = {}
    BY <1>2, <1>4, <1>5, <1>6 DEF PipelineInv, StoredOnce
  <2> QED BY <2>1, <2>2, <2>3 DEF StoredOnce
<1>8. UnsentIsNowhere'
  BY <1>2, <1>4, <1>5, <1>6 DEF PipelineInv, UnsentIsNowhere
<1>9. AnswersAgree'
  <2>1. \A q \in Requests : ack'[q] = ack[q] \/ (q = r /\ ack'[q] = "ok")
    BY <1>2 DEF Finish, PipelineInv, TypeOK
  <2> QED BY <1>2, <1>4, <2>1 DEF PipelineInv, AnswersAgree
<1>10. PipelineInOrder'
  <2>1. /\ queue \in Seq(Requests) /\ Len(queue) \in Nat
        /\ sent \in Seq(Requests) /\ Len(sent) \in Nat /\ DOMAIN sent = 1..Len(sent)
        /\ Len(hand) = 1 /\ Len(hand') = 0 /\ DOMAIN hand' = {}
    BY <1>1, <1>2 DEF PipelineInv, TypeOK
  <2>2. Handled' = Handled + 1 /\ Handled' \in Nat
    BY <1>2, <1>5, <2>1 DEF Handled
  <2>3. \A i \in 1..Handled' : sent'[i] \in Stored' \cup dropped'
    <3> SUFFICES ASSUME NEW i \in 1..(Handled + 1) PROVE sent[i] \in Stored \cup {r} \cup dropped
      BY <1>2, <1>4, <2>2
    <3>1. i \in 1..Handled \/ i = Handled + 1
      BY <1>5
    <3> QED BY <1>5, <3>1, OrderParts DEF PipelineInv
  <2>4. \A i \in DOMAIN queue' : queue'[i] = sent'[Handled' + Len(hand') + i]
    <3>1. \A i \in DOMAIN queue : queue[i] = sent[Handled + Len(hand) + i]
      BY <1>5, OrderParts DEF PipelineInv
    <3>2. Handled + Len(hand) = Handled' + Len(hand')
      BY <1>5, <2>1, <2>2
    <3> QED BY <1>2, <3>1, <3>2
  <2>5. \A i, j \in DOMAIN sent' : \A row, other \in rows' :
          (i < j /\ row.req = sent'[i] /\ other.req = sent'[j]) => row.id < other.id
    <3> SUFFICES ASSUME NEW i \in DOMAIN sent, NEW j \in DOMAIN sent,
                        NEW row \in rows \cup {new}, NEW other \in rows \cup {new}, i < j,
                        row.req = sent[i], other.req = sent[j]
                 PROVE  row.id < other.id
      BY <1>2
    <3>1. CASE row \in rows /\ other \in rows
      BY <1>5, <3>1, OrderParts DEF PipelineInv
    <3>2. CASE row \in rows /\ other = new
      <4>1. row.id <= lastRowId /\ row.id \in Nat /\ lastRowId \in Nat
        BY <3>2 DEF PipelineInv, TypeOK, Row
      <4> QED BY <1>3, <3>2, <4>1
    <3>3. CASE row = new
      <4>1. sent[i] = sent[Handled + 1]
        BY <1>3, <1>5, <3>3
      <4>2. i = Handled + 1
        BY <1>5, <4>1, OrderParts DEF PipelineInv
      <4>3. sent[j] \in In(queue)
        BY <1>5, <2>1, <4>2
      <4>4. sent[j] \notin Stored \cup {r}
        BY <1>5, <4>3 DEF PipelineInv, StoredOnce
      <4> QED BY <1>3, <4>4 DEF Stored
    <3> QED BY <3>1, <3>2, <3>3
  <2>6. \A i, j \in DOMAIN sent' : sent'[i] = sent'[j] => i = j
    BY <1>2, <1>5, OrderParts DEF PipelineInv
  <2>7. \A i \in DOMAIN hand' : hand'[i] = sent'[Handled' + i]
    BY <2>1
  <2> QED BY <1>2, <1>5, <2>2, <2>3, <2>4, <2>5, <2>6, <2>7 DEF PipelineInOrder
<1> QED BY <1>7, <1>8, <1>9, <1>10

\* Giving up takes the row in hand out of the pipeline for good.
LEMMA PipelineGiveUp ==
  ASSUME PipelineInv, GiveUp
  PROVE  StoredOnce' /\ UnsentIsNowhere' /\ AnswersAgree' /\ PipelineInOrder'
<1>1. PICK r \in Requests : hand = <<r>>
  BY DEF GiveUp, PipelineInv, TypeOK
<1>2. /\ rows' = rows /\ Stored' = Stored /\ purged' = purged /\ queue' = queue
      /\ pc' = pc /\ sent' = sent /\ dropped' = dropped \cup {r} /\ phase' = phase
      /\ hand' = <<>> /\ Finish(r, "err")
  BY <1>1 DEF GiveUp, stored, Stored, Finish
<1>3. /\ phase # "down"
      /\ Handled \in Nat /\ Handled + 1 \in DOMAIN sent /\ sent[Handled + 1] = r
      /\ In(hand) = {r}
      /\ r \notin Stored \cup purged \cup In(queue) \cup dropped
  BY <1>1, HandIsNext
<1>4. In(hand') = {} /\ In(queue') = In(queue) /\ In(sent') = In(sent)
  BY <1>2, InHand
<1>5. StoredOnce'
  <2>1. /\ \A row, other \in rows' : row.req = other.req => row = other
        /\ \A i, j \in DOMAIN queue' : queue'[i] = queue'[j] => i = j
    BY <1>2 DEF PipelineInv, StoredOnce
  <2>2. /\ Stored' \cap purged' = {}
        /\ (Stored' \cup purged') \cap (In(queue') \cup In(hand') \cup dropped') = {}
        /\ dropped' \cap (In(queue') \cup In(hand')) = {}
        /\ In(queue') \cap In(hand') = {}
    BY <1>2, <1>3, <1>4 DEF PipelineInv, StoredOnce
  <2> QED BY <2>1, <2>2 DEF StoredOnce
<1>6. UnsentIsNowhere'
  BY <1>2, <1>3, <1>4 DEF PipelineInv, UnsentIsNowhere
<1>7. AnswersAgree'
  <2>1. \A q \in Requests : ack'[q] = ack[q] \/ (q = r /\ ack'[q] = "err")
    BY <1>2 DEF Finish, PipelineInv, TypeOK
  <2> QED BY <1>2, <2>1 DEF PipelineInv, AnswersAgree
<1>8. PipelineInOrder'
  <2>1. /\ queue \in Seq(Requests) /\ Len(queue) \in Nat
        /\ sent \in Seq(Requests) /\ Len(sent) \in Nat
        /\ Len(hand) = 1 /\ Len(hand') = 0 /\ DOMAIN hand' = {}
    BY <1>1, <1>2 DEF PipelineInv, TypeOK
  <2>2. Handled' = Handled + 1 /\ Handled' \in Nat
    BY <1>2, <1>3, <2>1 DEF Handled
  <2>3. \A i \in 1..Handled' : sent'[i] \in Stored' \cup dropped'
    <3> SUFFICES ASSUME NEW i \in 1..(Handled + 1) PROVE sent[i] \in Stored \cup {r} \cup dropped
      BY <1>2, <2>2
    <3>1. i \in 1..Handled \/ i = Handled + 1
      BY <1>3
    <3> QED BY <1>3, <3>1, OrderParts DEF PipelineInv
  <2>4. \A i \in DOMAIN queue' : queue'[i] = sent'[Handled' + Len(hand') + i]
    <3>1. \A i \in DOMAIN queue : queue[i] = sent[Handled + Len(hand) + i]
      BY <1>3, OrderParts DEF PipelineInv
    <3>2. Handled + Len(hand) = Handled' + Len(hand')
      BY <1>3, <2>1, <2>2
    <3> QED BY <1>2, <3>1, <3>2
  <2>5. \A i \in DOMAIN hand' : hand'[i] = sent'[Handled' + i]
    BY <2>1
  <2> QED BY <1>2, <1>3, <2>2, <2>3, <2>4, <2>5, OrderParts DEF PipelineInv, PipelineInOrder
<1> QED BY <1>5, <1>6, <1>7, <1>8

\* Steps of the process that leave rows, channel and handlers alone.
LEMMA PipelinePhase ==
  ASSUME PipelineInv, phase # "down", phase' # "down",
         UNCHANGED <<stored, queue, hand, ack, pc, sent, dropped>>
  PROVE  StoredOnce' /\ UnsentIsNowhere' /\ AnswersAgree' /\ PipelineInOrder'
<1>1. rows' = rows /\ purged' = purged /\ Stored' = Stored
  BY DEF stored, Stored
<1>2. StoredOnce'
  BY <1>1 DEF PipelineInv, StoredOnce, In
<1>3. UnsentIsNowhere'
  BY <1>1 DEF PipelineInv, UnsentIsNowhere, In
<1>4. AnswersAgree'
  BY <1>1 DEF PipelineInv, AnswersAgree
<1>5. PipelineInOrder'
  BY <1>1 DEF PipelineInv, PipelineInOrder, Handled
<1> QED BY <1>2, <1>3, <1>4, <1>5

\* A step of the writer goroutine keeps the pipeline in order.
LEMMA PipelineWriter ==
  ASSUME PipelineInv, Writer
  PROVE  StoredOnce' /\ UnsentIsNowhere' /\ AnswersAgree' /\ PipelineInOrder'
<1>1. CASE InsertRetry
  <2>1. hand # <<>>
    BY <1>1 DEF InsertRetry
  <2>2. phase # "down"
    BY <2>1 DEF PipelineInv, PipelineInOrder
  <2> QED BY <1>1, <2>2, PipelinePhase DEF InsertRetry, history
<1>2. CASE WriterReturns
  BY <1>2, PipelinePhase DEF WriterReturns, history, writer
<1> QED BY <1>1, <1>2, PipelineReceive, PipelineInsert, PipelineGiveUp DEF Writer

\* The end of the process empties the channel and the writer's hands and ends
\* every handler; what was sent before is history.
LEMMA PipelineDie ==
  ASSUME PipelineInv, Die
  PROVE  StoredOnce' /\ UnsentIsNowhere' /\ AnswersAgree' /\ PipelineInOrder'
<1>1. /\ rows' = rows /\ Stored' = Stored /\ purged' = purged /\ dropped' = dropped
      /\ sent' = sent /\ queue' = <<>> /\ hand' = <<>> /\ phase' = "down"
  BY DEF Die, stored, history, Stored
<1>2. In(queue') = {} /\ In(hand') = {} /\ In(sent') = In(sent)
  BY <1>1, InHand
<1>3. pc \in [Requests -> {"idle"} \cup Active \cup Finished]
  BY DEF PipelineInv, TypeOK
<1>4. \A r \in Requests :
        /\ pc'[r] = IF pc[r] \in Active THEN "dead" ELSE pc[r]
        /\ ack'[r] = "none"
  BY DEF Die
<1>5. StoredOnce'
  BY <1>1, <1>2 DEF PipelineInv, StoredOnce
<1>6. UnsentIsNowhere'
  <2>1. \A r \in Requests : pc'[r] \in {"idle", "inflight", "computed", "sending"} =>
                              pc[r] = "idle"
    BY <1>4 DEF Active
  <2> QED BY <1>1, <1>2, <2>1 DEF PipelineInv, UnsentIsNowhere
<1>7. AnswersAgree'
  <2>1. \A r \in Requests : pc'[r] \in {"stored", "failed"} => pc'[r] = pc[r]
    BY <1>4
  <2> QED BY <1>1, <1>4, <2>1 DEF PipelineInv, AnswersAgree
<1>8. PipelineInOrder'
  <2>1. \A r \in Requests : pc'[r] \notin Active
    BY <1>4 DEF Active
  <2> QED BY <1>1, <2>1 DEF PipelineInOrder, InFlight
<1> QED BY <1>5, <1>6, <1>7, <1>8

\* A start moves the swept rows from the table to the purged ones and begins
\* a new, empty pipeline.
LEMMA PipelineBoot ==
  ASSUME PipelineInv, NEW cutoff \in 0..clock, Boot(cutoff)
  PROVE  StoredOnce' /\ UnsentIsNowhere' /\ AnswersAgree' /\ PipelineInOrder'
<1> DEFINE old == OlderThan(rows, cutoff)
           oldReqs == {row.req : row \in old}
<1>1. /\ phase = "down" /\ phase' = "up" /\ rows' = rows \ old
      /\ purged' = purged \cup oldReqs /\ sent' = <<>>
      /\ queue' = queue /\ hand' = hand /\ pc' = pc /\ ack' = ack /\ dropped' = dropped
  BY DEF Boot, writer, PurgedRows
<1>2. old \subseteq rows
  BY DEF OlderThan
<1>3. queue = <<>> /\ hand = <<>>
  BY <1>1 DEF PipelineInv, PipelineInOrder
<1>4. In(queue') = {} /\ In(hand') = {} /\ In(sent') = {} /\ In(queue) = {} /\ In(hand) = {}
  BY <1>1, <1>3, InHand
<1>5. Stored' \cup purged' = Stored \cup purged
  BY <1>1, <1>2 DEF Stored
<1>6. Stored' \cap purged' = {}
  <2>1. Stored' \cap purged = {}
    BY <1>1 DEF Stored, PipelineInv, StoredOnce
  <2>2. ASSUME NEW row \in rows', NEW gone \in old, row.req = gone.req PROVE FALSE
    <3>1. row \in rows /\ row \notin old /\ gone \in rows
      BY <1>1, <1>2
    <3> QED BY <2>2, <3>1 DEF PipelineInv, StoredOnce
  <2>3. Stored' \cap oldReqs = {}
    BY <2>2 DEF Stored
  <2> QED BY <1>1, <2>1, <2>3
<1>7. StoredOnce'
  <2>1. \A row, other \in rows' : row.req = other.req => row = other
    BY <1>1 DEF PipelineInv, StoredOnce
  <2>2. (Stored' \cup purged') \cap dropped' = {}
    BY <1>1, <1>5 DEF PipelineInv, StoredOnce
  <2>3. \A i, j \in DOMAIN queue' : queue'[i] = queue'[j] => i = j
    BY <1>1, <1>3
  <2> QED BY <1>4, <1>6, <2>1, <2>2, <2>3 DEF StoredOnce
<1>8. UnsentIsNowhere'
  BY <1>1, <1>4, <1>5 DEF PipelineInv, UnsentIsNowhere
<1>9. AnswersAgree'
  BY <1>1, <1>5 DEF PipelineInv, AnswersAgree
<1>10. PipelineInOrder'
  BY <1>1, <1>3 DEF PipelineInOrder, Handled
<1> QED BY <1>7, <1>8, <1>9, <1>10

\* PipelineInv is inductive.
LEMMA PipelineNext == PipelineInv /\ [Next]_vars => PipelineInv'
<1> SUFFICES ASSUME PipelineInv, [Next]_vars PROVE PipelineInv'
  OBVIOUS
<1>1. TypeOK'
  BY TypeNext DEF PipelineInv
<1>2. StoredOnce' /\ UnsentIsNowhere' /\ AnswersAgree' /\ PipelineInOrder'
  <2>1. CASE \E r \in Requests : Handler(r)
    BY <2>1, PipelineHandler
  <2>2. CASE Writer
    BY <2>2, PipelineWriter
  <2>3. CASE CloseWriter
    BY <2>3, PipelinePhase DEF CloseWriter, history, writer
  <2>4. CASE Exit \/ Crash \/ ReturnEarly
    BY <2>4, PipelineDie DEF Exit, Crash, ReturnEarly
  <2>5. CASE \E cutoff \in 0..clock : Boot(cutoff)
    BY <2>5, PipelineBoot
  <2>6. CASE UNCHANGED vars
    <3>1. rows' = rows /\ purged' = purged /\ phase' = phase /\ queue' = queue
          /\ hand' = hand /\ ack' = ack /\ pc' = pc /\ sent' = sent /\ dropped' = dropped
      BY <2>6 DEF vars, stored, writer, history
    <3>2. Stored' = Stored /\ In(queue') = In(queue) /\ In(hand') = In(hand)
          /\ In(sent') = In(sent) /\ Handled' = Handled /\ InFlight' = InFlight
      BY <3>1 DEF Stored, Handled, InFlight
    <3>3. StoredOnce'
      BY <3>1, <3>2 DEF PipelineInv, StoredOnce
    <3>4. UnsentIsNowhere' /\ AnswersAgree'
      BY <3>1, <3>2 DEF PipelineInv, UnsentIsNowhere, AnswersAgree
    <3>5. PipelineInOrder'
      BY <3>1, <3>2 DEF PipelineInv, PipelineInOrder
    <3> QED BY <3>3, <3>4, <3>5
  <2> QED BY <2>1, <2>2, <2>3, <2>4, <2>5, <2>6 DEF Next, Process, Terminated
<1> QED BY <1>1, <1>2 DEF PipelineInv

\* Every reachable state satisfies the inductive invariant.
THEOREM PipelineCorrect == Spec => []PipelineInv
BY PipelineInit, PipelineNext, PTL DEF Spec

\* No audit row is written twice or comes back after it was given up on or
\* purged, whatever is retried, cancelled, crashed or restarted.
THEOREM StoredOnceCorrect == Spec => []StoredOnce
<1>1. PipelineInv => StoredOnce
  BY DEF PipelineInv
<1> QED BY <1>1, PipelineCorrect, PTL

\* What EnqueueSync answers in block mode is what happened to the row.
THEOREM AnswerCorrect == Spec => []AnswerIsTrue
<1>1. PipelineInv => AnswerIsTrue
  BY DEF PipelineInv, AnswerIsTrue, AnswersAgree, StoredOnce
<1> QED BY <1>1, PipelineCorrect, PTL

\* While the process lives no row that was sent is lost short of giving up on
\* it, and rows reach the table in the order they were sent.
THEOREM SentOrderCorrect == Spec => []SentRowsKeepOrder
<1>1. ASSUME PipelineInv, phase # "down"
      PROVE  /\ In(sent) \subseteq In(queue) \cup In(hand) \cup Stored \cup dropped
             /\ \A i, j \in DOMAIN sent :
                  (i < j /\ sent[j] \in Stored) =>
                     \/ sent[i] \in dropped
                     \/ \E row, other \in rows :
                          row.req = sent[i] /\ other.req = sent[j] /\ row.id < other.id
  <2>1. /\ Handled \in Nat
        /\ \A i, j \in DOMAIN sent : sent[i] = sent[j] => i = j
        /\ \A i \in 1..Handled : sent[i] \in Stored \cup dropped
        /\ \A i \in DOMAIN hand : hand[i] = sent[Handled + i]
        /\ \A i \in DOMAIN queue : queue[i] = sent[Handled + Len(hand) + i]
        /\ \A i, j \in DOMAIN sent : \A row, other \in rows :
             (i < j /\ row.req = sent[i] /\ other.req = sent[j]) => row.id < other.id
    BY <1>1, OrderParts DEF PipelineInv
  <2>2. /\ sent \in Seq(Requests) /\ Len(sent) \in Nat /\ DOMAIN sent = 1..Len(sent)
        /\ queue \in Seq(Requests) /\ Len(queue) \in Nat /\ DOMAIN queue = 1..Len(queue)
        /\ Len(hand) \in Nat /\ DOMAIN hand = 1..Len(hand)
    BY <1>1 DEF PipelineInv, TypeOK
  <2>3. Len(sent) = Handled + Len(hand) + Len(queue)
    BY <2>2 DEF Handled
  <2>4. ASSUME NEW i \in DOMAIN sent
        PROVE  i \in 1..Handled \/ sent[i] \in In(hand) \cup In(queue)
    <3>1. CASE i <= Handled
      BY <2>1, <2>2, <3>1
    <3>2. CASE i > Handled /\ i <= Handled + Len(hand)
      <4>1. i - Handled \in DOMAIN hand /\ Handled + (i - Handled) = i
        BY <2>1, <2>2, <3>2
      <4>2. hand[i - Handled] = sent[i]
        BY <2>1, <4>1
      <4> QED BY <4>1, <4>2 DEF In
    <3>3. CASE i > Handled + Len(hand)
      <4>1. /\ i - Handled - Len(hand) \in DOMAIN queue
            /\ Handled + Len(hand) + (i - Handled - Len(hand)) = i
        BY <2>1, <2>2, <2>3, <3>3
      <4>2. queue[i - Handled - Len(hand)] = sent[i]
        BY <2>1, <4>1
      <4> QED BY <4>1, <4>2 DEF In
    <3> QED BY <2>1, <2>2, <3>1, <3>2, <3>3
  <2>5. In(sent) \subseteq In(queue) \cup In(hand) \cup Stored \cup dropped
    BY <2>1, <2>4 DEF In
  <2>6. ASSUME NEW i \in DOMAIN sent, NEW j \in DOMAIN sent, i < j, sent[j] \in Stored,
               sent[i] \notin dropped
        PROVE  \E row, other \in rows :
                 row.req = sent[i] /\ other.req = sent[j] /\ row.id < other.id
    <3>1. sent[j] \notin In(queue) \cup In(hand)
      BY <1>1, <2>6 DEF PipelineInv, StoredOnce
    <3>2. j \in 1..Handled
      BY <2>4, <3>1
    <3>3. i \in 1..Handled
      BY <2>1, <2>2, <2>6, <3>2
    <3>4. sent[i] \in Stored
      BY <2>1, <2>6, <3>3
    <3>5. PICK row \in rows, other \in rows : row.req = sent[i] /\ other.req = sent[j]
      BY <2>6, <3>4 DEF Stored
    <3>6. row.id < other.id
      BY <2>1, <2>6, <3>5
    <3> QED BY <3>5, <3>6
  <2> QED BY <2>5, <2>6
<1>2. PipelineInv => SentRowsKeepOrder
  BY <1>1 DEF SentRowsKeepOrder
<1> QED BY <1>2, PipelineCorrect, PTL

-----------------------------------------------------------------------------
(* The table in the order of ids *)

\* A table as the store keeps it: finite, with distinct ids.
Table(T) ==
  /\ T \subseteq Row /\ IsFiniteSet(T)
  /\ \A row, other \in T : row.id = other.id => row = other

\* ORDER BY id lists a table once, by rising ids.
LEMMA RowsByIdLists ==
  ASSUME NEW T, Table(T)
  PROVE  /\ Cardinality(T) \in Nat
         /\ RowsById(T) \in [1..Cardinality(T) -> T]
         /\ \A row \in T : \E n \in 1..Cardinality(T) : RowsById(T)[n] = row
         /\ \A m, n \in 1..Cardinality(T) : m < n => RowsById(T)[m].id < RowsById(T)[n].id
<1> DEFINE N == Cardinality(T)
           below(row) == {other \in T : other.id <= row.id}
           rank == [row \in T |-> Cardinality(below(row))]
<1>1. N \in Nat /\ \A row \in T : row.id \in Nat
  BY FS_CardinalityType DEF Table, Row
<1>2. ASSUME NEW row \in T
      PROVE  IsFiniteSet(below(row)) /\ rank[row] \in 1..N
  <2>1. below(row) \in SUBSET T /\ below(row) # {} /\ IsFiniteSet(T)
    BY <1>1 DEF Table
  <2>2. /\ IsFiniteSet(below(row)) /\ Cardinality(below(row)) <= N
        /\ Cardinality(below(row)) \in Nat /\ Cardinality(below(row)) # 0
    BY <2>1, FS_Subset, FS_CardinalityType, FS_EmptySet
  <2> QED BY <1>1, <2>2
<1>3. ASSUME NEW row \in T, NEW other \in T, row.id < other.id
      PROVE  rank[row] < rank[other]
  <2>1. /\ below(row) \in SUBSET below(other) /\ below(row) # below(other)
    BY <1>1, <1>3
  <2>2. Cardinality(below(row)) <= Cardinality(below(other))
        /\ Cardinality(below(row)) # Cardinality(below(other))
    BY <1>2, <2>1, FS_Subset
  <2>3. Cardinality(below(row)) \in Nat /\ Cardinality(below(other)) \in Nat
    BY <1>2, FS_CardinalityType
  <2>4. rank[row] = Cardinality(below(row)) /\ rank[other] = Cardinality(below(other))
    OBVIOUS
  <2> HIDE DEF rank, below
  <2> QED BY <2>2, <2>3, <2>4
<1>4. rank \in [T -> 1..N]
  BY <1>2
<1> HIDE DEF rank
<1>5. \A row, other \in T : rank[row] = rank[other] => row = other
  <2> SUFFICES ASSUME NEW row \in T, NEW other \in T, rank[row] = rank[other]
               PROVE  row = other
    OBVIOUS
  <2>1. ~(row.id < other.id) /\ ~(other.id < row.id)
    BY <1>1, <1>3, <1>4
  <2>2. row.id = other.id
    BY <1>1, <2>1
  <2> QED BY <2>2 DEF Table
<1>6. \A n \in 1..N : \E row \in T : rank[row] = n
  <2>1. rank \in Injection(T, 1..N)
    BY <1>4, <1>5 DEF Injection, IsInjective
  <2>2. IsFiniteSet(1..N) /\ Cardinality(1..N) = N
    BY <1>1, FS_Interval
  <2>3. rank \in Surjection(T, 1..N)
    BY <2>1, <2>2, FS_Injection
  <2> QED BY <2>3 DEF Surjection
<1> DEFINE list == RowsById(T)
<1>7. ASSUME NEW n \in 1..N
      PROVE  list[n] \in T /\ rank[list[n]] = n
  <2>1. list[n] = CHOOSE row \in T : Cardinality(below(row)) = n
    BY DEF RowsById
  <2>2. \E row \in T : Cardinality(below(row)) = n
    BY <1>6 DEF rank
  <2> QED BY <2>1, <2>2 DEF rank
<1>8. list \in [1..N -> T]
  BY <1>7 DEF RowsById
<1> HIDE DEF list
<1>9. ASSUME NEW row \in T PROVE \E n \in 1..N : list[n] = row
  <2>1. rank[row] \in 1..N
    BY <1>4
  <2> QED BY <1>5, <1>7, <2>1
<1>10. ASSUME NEW m \in 1..N, NEW n \in 1..N, m < n PROVE list[m].id < list[n].id
  <2>1. ~(list[n].id < list[m].id) /\ list[n].id # list[m].id
    BY <1>1, <1>3, <1>7, <1>10 DEF Table
  <2> QED BY <1>1, <1>7, <2>1
<1> QED BY <1>1, <1>8, <1>9, <1>10 DEF list

\* There is one such list.
LEMMA RowsByIdIs ==
  ASSUME NEW T, Table(T), NEW list \in [1..Cardinality(T) -> T],
         \A row \in T : \E n \in 1..Cardinality(T) : list[n] = row,
         \A m, n \in 1..Cardinality(T) : m < n => list[m].id < list[n].id
  PROVE  RowsById(T) = list
<1> DEFINE N == Cardinality(T)
           ordered == RowsById(T)
           bad == {n \in 1..N : ordered[n] # list[n]}
<1>1. /\ N \in Nat /\ ordered \in [1..N -> T]
      /\ \A row \in T : \E n \in 1..N : ordered[n] = row
      /\ \A m, n \in 1..N : m < n => ordered[m].id < ordered[n].id
  BY RowsByIdLists
<1>2. \A row \in T : row.id \in Nat
  BY DEF Table, Row
<1> HIDE DEF ordered
<1>3. bad = {}
  <2> SUFFICES ASSUME bad # {} PROVE FALSE
    OBVIOUS
  <2>0. bad \in SUBSET Nat /\ bad # {}
    OBVIOUS
  <2>1. PICK n \in bad : \A m \in bad : n <= m
    BY <2>0, LeastNat
  <2>2. n \in 1..N /\ ordered[n] # list[n] /\ \A m \in 1..N : m < n => ordered[m] = list[m]
    BY <1>1, <2>1
  <2>3. PICK j \in 1..N : ordered[j] = list[n]
    BY <1>1, <2>2
  <2>4. PICK k \in 1..N : list[k] = ordered[n]
    BY <1>1, <2>2
  <2>5. j > n
    <3>1. j # n
      BY <2>2, <2>3
    <3>2. ~(j < n)
      <4> SUFFICES ASSUME j < n PROVE FALSE
        OBVIOUS
      <4>1. list[j] = list[n] /\ list[j].id < list[n].id
        BY <2>2, <2>3
      <4>2. list[n] \in T
        BY <2>2
      <4> QED BY <1>2, <4>1, <4>2
    <3> QED BY <1>1, <2>2, <3>1, <3>2
  <2>6. k > n
    <3>1. k # n
      BY <2>2, <2>4
    <3>2. ~(k < n)
      <4> SUFFICES ASSUME k < n PROVE FALSE
        OBVIOUS
      <4>1. ordered[k] = ordered[n] /\ ordered[k].id < ordered[n].id
        BY <1>1, <2>2, <2>4
      <4>2. ordered[n] \in T
        BY <1>1, <2>2
      <4> QED BY <1>2, <4>1, <4>2
    <3> QED BY <1>1, <2>2, <3>1, <3>2
  <2>7. ordered[n].id < list[n].id /\ list[n].id < ordered[n].id
    BY <1>1, <2>2, <2>3, <2>4, <2>5, <2>6
  <2>8. ordered[n] \in T /\ list[n] \in T
    BY <1>1, <2>2
  <2> QED BY <1>2, <2>7, <2>8
<1>4. ordered = list
  BY <1>1, <1>3
<1> QED BY <1>4 DEF ordered

-----------------------------------------------------------------------------
(* Verify's walk *)

\* walk is what Verify's callback computes on the first m rows of ordered.
IsWalk(walk, A, ordered, m) ==
  walk = [n \in 0..m |-> IF n = 0 THEN StartWalk
                         ELSE VerifyRow(A, walk[n - 1], ordered[n])]

\* The callback can be applied row after row.
LEMMA WalkExists ==
  ASSUME NEW N \in Nat, NEW A, NEW ordered
  PROVE  \E walk : IsWalk(walk, A, ordered, N)
<1> DEFINE bad == {m \in 0..N : ~ \E walk : IsWalk(walk, A, ordered, m)}
<1>1. bad = {}
  <2> SUFFICES ASSUME bad # {} PROVE FALSE
    OBVIOUS
  <2>1. bad \in SUBSET Nat /\ bad # {}
    OBVIOUS
  <2>2. PICK m \in bad : \A n \in bad : m <= n
    BY <2>1, LeastNat
  <2>3. m \in 0..N /\ ~ \E walk : IsWalk(walk, A, ordered, m)
    BY <2>2
  <2>4. CASE m = 0
    <3> DEFINE f == [n \in 0..0 |-> StartWalk]
    <3>1. IsWalk(f, A, ordered, 0)
      BY DEF IsWalk
    <3> QED BY <2>3, <2>4, <3>1
  <2>5. CASE m # 0
    <3>1. m - 1 \in 0..N /\ m - 1 \notin bad
      BY <2>2, <2>3, <2>5
    <3>2. PICK f : IsWalk(f, A, ordered, m - 1)
      BY <3>1
    <3> DEFINE g == [n \in 0..m |-> IF n = m THEN VerifyRow(A, f[m - 1], ordered[m])
                                    ELSE f[n]]
               h == [n \in 0..m |-> IF n = 0 THEN StartWalk
                                    ELSE VerifyRow(A, g[n - 1], ordered[n])]
    <3>3. \A n \in 0..(m - 1) : f[n] = IF n = 0 THEN StartWalk
                                       ELSE VerifyRow(A, f[n - 1], ordered[n])
      BY <3>2 DEF IsWalk
    <3>4. ASSUME NEW n \in 0..m PROVE g[n] = h[n]
      <4>1. CASE n = 0
        BY <2>3, <2>5, <3>3, <4>1
      <4>2. CASE n = m
        <5>1. g[m - 1] = f[m - 1] /\ g[m] = VerifyRow(A, f[m - 1], ordered[m])
          BY <2>3, <2>5
        <5>2. h[m] = VerifyRow(A, g[m - 1], ordered[m])
          BY <2>3, <2>5
        <5> QED BY <4>2, <5>1, <5>2
      <4>3. CASE n # 0 /\ n # m
        <5>1. n \in 0..(m - 1) /\ n - 1 \in 0..m /\ n - 1 # m
          BY <2>3, <4>3
        <5>2. g[n] = f[n] /\ g[n - 1] = f[n - 1] /\ h[n] = VerifyRow(A, g[n - 1], ordered[n])
          BY <4>3, <5>1
        <5> QED BY <3>3, <4>3, <5>1, <5>2
      <4> QED BY <4>1, <4>2, <4>3
    <3>5. g = h
      BY <3>4
    <3>6. IsWalk(g, A, ordered, m)
      BY <3>5 DEF IsWalk
    <3> QED BY <2>3, <3>6
  <2> QED BY <2>4, <2>5
<1> QED BY <1>1

\* Verify's verdict is that of the walk over the rows by id.
LEMMA VerifyWalks ==
  ASSUME NEW T, Table(T), NEW A
  PROVE  \E walk : /\ walk[0] = StartWalk
                   /\ \A n \in 1..Cardinality(T) :
                        walk[n] = VerifyRow(A, walk[n - 1], RowsById(T)[n])
                   /\ Verify(T, A) = walk[Cardinality(T)].ok
<1> DEFINE N == Cardinality(T)
           walk == CHOOSE f : f = [n \in 0..Len(RowsById(T)) |->
                     IF n = 0 THEN StartWalk ELSE VerifyRow(A, f[n - 1], RowsById(T)[n])]
<1>1. N \in Nat /\ Len(RowsById(T)) = N
  <2>1. N \in Nat
    BY RowsByIdLists
  <2> QED BY <2>1 DEF RowsById
<1>2. IsWalk(walk, A, RowsById(T), N)
  <2>1. \E f : f = [n \in 0..Len(RowsById(T)) |->
                     IF n = 0 THEN StartWalk ELSE VerifyRow(A, f[n - 1], RowsById(T)[n])]
    <3>1. \E f : IsWalk(f, A, RowsById(T), Len(RowsById(T)))
      BY <1>1, WalkExists
    <3> QED BY <3>1 DEF IsWalk
  <2> QED BY <1>1, <2>1 DEF IsWalk
<1>3. Verify(T, A) = walk[Len(RowsById(T))].ok
  BY DEF Verify
<1> HIDE DEF walk
<1>4. \A n \in 0..N : walk[n] = IF n = 0 THEN StartWalk
                                ELSE VerifyRow(A, walk[n - 1], RowsById(T)[n])
  BY <1>2 DEF IsWalk
<1>5. walk[0] = StartWalk
  BY <1>1, <1>4
<1>6. ASSUME NEW n \in 1..N PROVE walk[n] = VerifyRow(A, walk[n - 1], RowsById(T)[n])
  <2>1. n \in 0..N /\ n # 0
    BY <1>1
  <2> QED BY <1>4, <2>1
<1> QED BY <1>1, <1>3, <1>5, <1>6

\* The inner loop ends at an anchor for a later row, or past the last one, and
\* every anchor it stepped over names this row.
LEMMA PastAnchorsIs ==
  ASSUME NEW A \in Seq(Anchor), NEW from \in 1..(Len(A) + 1), NEW row
  PROVE  /\ PastAnchors(A, from, row) \in from..(Len(A) + 1)
         /\ \A j \in from..(PastAnchors(A, from, row) - 1) : A[j].nextRowId = row.id
         /\ PastAnchors(A, from, row) <= Len(A) =>
              A[PastAnchors(A, from, row)].nextRowId # row.id
<1> DEFINE ends == {idx \in from..(Len(A) + 1) : idx <= Len(A) => A[idx].nextRowId # row.id}
<1>1. Len(A) \in Nat
  OBVIOUS
<1>2. ends \in SUBSET Nat /\ Len(A) + 1 \in ends
  BY <1>1
<1>3. PICK least \in ends : \A idx \in ends : least <= idx
  BY <1>2, LeastNat
<1>4. \A j \in from..(least - 1) : A[j].nextRowId = row.id
  <2> SUFFICES ASSUME NEW j \in from..(least - 1), A[j].nextRowId # row.id PROVE FALSE
    OBVIOUS
  <2>1. j \in from..(Len(A) + 1) /\ j < least
    BY <1>1, <1>3
  <2>2. j \in ends
    BY <2>1
  <2> QED BY <1>1, <1>3, <2>1, <2>2
<1>5. \E idx \in from..(Len(A) + 1) :
        /\ \A j \in from..(idx - 1) : A[j].nextRowId = row.id
        /\ idx <= Len(A) => A[idx].nextRowId # row.id
  BY <1>3, <1>4
<1> QED BY <1>5 DEF PastAnchors

\* What a passing Verify says of each row: it is hashed right, and it is
\* chained to the row before it - the first one to nothing - or to an anchor
\* that names it.
LEMMA VerifyMeans ==
  ASSUME NEW T, Table(T), NEW A \in Seq(Anchor), Verify(T, A), NEW n \in 1..Cardinality(T)
  PROVE  LET row == RowsById(T)[n] IN
         /\ row.hash = Digest(row.prev, row.req)
         /\ \/ \E k \in 1..Len(A) : row.prev = A[k].chainHash
            \/ n = 1 /\ row.prev = NoHash
            \/ n > 1 /\ row.prev = RowsById(T)[n - 1].hash
<1> DEFINE N == Cardinality(T)
           ordered == RowsById(T)
<1>1. PICK walk : /\ walk[0] = StartWalk
                  /\ \A m \in 1..N : walk[m] = VerifyRow(A, walk[m - 1], ordered[m])
                  /\ Verify(T, A) = walk[N].ok
  BY VerifyWalks
<1>2. N \in Nat /\ Len(A) \in Nat
  BY RowsByIdLists
<1> HIDE DEF ordered, N
<1>3. \A m \in 1..N : walk[m] =
        LET idx      == PastAnchors(A, walk[m - 1].anchor, ordered[m])
            expected == IF idx > walk[m - 1].anchor THEN A[idx - 1].chainHash
                        ELSE walk[m - 1].expected
            good     == /\ ordered[m].prev = expected
                        /\ ordered[m].hash = Digest(ordered[m].prev, ordered[m].req)
        IN  IF ~walk[m - 1].ok THEN walk[m - 1]
            ELSE [anchor |-> idx, expected |-> ordered[m].hash, ok |-> good]
  BY <1>1 DEF VerifyRow
\* A walk that has failed stays failed.
<1>4. \A m \in 0..N : walk[m].ok
  <2> DEFINE failed == {m \in 0..N : ~walk[m].ok}
  <2> SUFFICES ASSUME failed # {} PROVE FALSE
    OBVIOUS
  <2>1. failed \in SUBSET Nat /\ failed # {} /\ \A m \in failed : m <= N
    OBVIOUS
  <2>2. PICK m \in failed : \A k \in failed : k <= m
    BY <1>2, <2>1, GreatestNat
  <2>3. m \in 0..N /\ ~walk[m].ok
    BY <2>2
  <2>4. m # N
    BY <1>1, <2>3
  <2>5. m + 1 \in 1..N /\ (m + 1) - 1 = m /\ m + 1 \in 0..N
    BY <1>2, <2>3, <2>4
  <2>6. walk[m + 1] = walk[m]
    BY <1>3, <2>3, <2>5
  <2>7. m + 1 \in failed
    BY <2>3, <2>5, <2>6
  <2> QED BY <1>2, <2>2, <2>3, <2>7
<1>5. ASSUME NEW m \in 1..N
      PROVE  LET idx == PastAnchors(A, walk[m - 1].anchor, ordered[m]) IN
             /\ walk[m].anchor = idx /\ walk[m].expected = ordered[m].hash
             /\ ordered[m].prev = IF idx > walk[m - 1].anchor THEN A[idx - 1].chainHash
                                  ELSE walk[m - 1].expected
             /\ ordered[m].hash = Digest(ordered[m].prev, ordered[m].req)
  <2>1. m - 1 \in 0..N /\ m \in 0..N
    BY <1>2
  <2>2. walk[m - 1].ok /\ walk[m].ok
    BY <1>4, <2>1
  <2> DEFINE idx      == PastAnchors(A, walk[m - 1].anchor, ordered[m])
             expected == IF idx > walk[m - 1].anchor THEN A[idx - 1].chainHash
                         ELSE walk[m - 1].expected
             good     == /\ ordered[m].prev = expected
                         /\ ordered[m].hash = Digest(ordered[m].prev, ordered[m].req)
  <2>3. walk[m] = [anchor |-> idx, expected |-> ordered[m].hash, ok |-> good]
    BY <1>3, <2>2
  <2> HIDE DEF idx
  <2>4. walk[m].anchor = idx /\ walk[m].expected = ordered[m].hash /\ walk[m].ok = good
    BY <2>3
  <2>5. good
    BY <2>2, <2>4
  <2> QED BY <2>4, <2>5 DEF idx
<1>6. \A m \in 0..N : walk[m].anchor \in 1..(Len(A) + 1)
  <2> DEFINE out == {m \in 0..N : walk[m].anchor \notin 1..(Len(A) + 1)}
  <2> SUFFICES ASSUME out # {} PROVE FALSE
    OBVIOUS
  <2>1. out \in SUBSET Nat /\ out # {}
    OBVIOUS
  <2>2. PICK m \in out : \A k \in out : m <= k
    BY <2>1, LeastNat
  <2>3. m \in 0..N /\ walk[m].anchor \notin 1..(Len(A) + 1)
    BY <2>2
  <2>4. m # 0
    BY <1>1, <1>2, <2>3 DEF StartWalk
  <2>5. m \in 1..N /\ m - 1 \in 0..N /\ m - 1 < m
    BY <1>2, <2>3, <2>4
  <2>6. walk[m - 1].anchor \in 1..(Len(A) + 1)
    BY <1>2, <2>2, <2>5
  <2>7. walk[m].anchor \in walk[m - 1].anchor..(Len(A) + 1)
    <3>1. PastAnchors(A, walk[m - 1].anchor, ordered[m]) \in walk[m - 1].anchor..(Len(A) + 1)
      BY <2>6, PastAnchorsIs
    <3> QED BY <1>5, <2>5, <3>1
  <2> QED BY <1>2, <2>3, <2>6, <2>7
<1> DEFINE from == walk[n - 1].anchor
           idx == PastAnchors(A, from, ordered[n])
<1>7. n \in 1..N /\ n - 1 \in 0..N
  BY <1>2 DEF N
<1>8. from \in 1..(Len(A) + 1) /\ idx \in from..(Len(A) + 1)
  BY <1>6, <1>7, PastAnchorsIs
<1>9. /\ ordered[n].prev = IF idx > from THEN A[idx - 1].chainHash ELSE walk[n - 1].expected
      /\ ordered[n].hash = Digest(ordered[n].prev, ordered[n].req)
  BY <1>5, <1>7
<1> HIDE DEF idx, from
<1>10. CASE idx > from
  <2>1. idx - 1 \in 1..Len(A) /\ ordered[n].prev = A[idx - 1].chainHash
    BY <1>2, <1>8, <1>9, <1>10
  <2> QED BY <1>9, <2>1 DEF ordered
<1>11. CASE ~(idx > from) /\ n = 1
  <2>1. walk[n - 1].expected = NoHash
    BY <1>1, <1>11 DEF StartWalk
  <2> QED BY <1>9, <1>11, <2>1 DEF ordered
<1>12. CASE ~(idx > from) /\ n # 1
  <2>1. n - 1 \in 1..N /\ n > 1
    BY <1>2, <1>7, <1>12
  <2>2. walk[n - 1].expected = ordered[n - 1].hash
    BY <1>5, <2>1
  <2> QED BY <1>9, <1>12, <2>1, <2>2 DEF ordered
<1> QED BY <1>10, <1>11, <1>12

-----------------------------------------------------------------------------
(* A passing Verify leaves no gap *)

\* A row in the table is the row of its request, as it was hashed.
RowsKeep == \A row \in rows : row = RowOf(row.req, row.id)

\* The rows this process has hashed: each was chained to the one before, none
\* has been swept, and the chain's tail is the hash of the last.
LinkedInOrder ==
  /\ \A i \in 1..Len(computed) :
       pc[computed[i]] \notin {"idle", "inflight"} /\ computed[i] \notin purged
  /\ \A i \in 1..Len(computed) :
       i # 1 => prev[computed[i]] = Digest(prev[computed[i - 1]], computed[i - 1])
  /\ (phase # "down" /\ computed # <<>>) =>
       tail = Digest(prev[computed[Len(computed)]], computed[Len(computed)])

\* An anchor holds the hash of a row that was swept.
AnchorsPurged ==
  \A k \in 1..Len(anchors) : \E h \in Hash, r \in purged : anchors[k].chainHash = Digest(h, r)

GapInv == PipelineInv /\ RowsKeep /\ LinkedInOrder /\ AnchorsPurged

\* Two digests are equal only of equal inputs, and none is the empty string.
LEMMA DigestInjective ==
  ASSUME NEW h \in Hash, NEW r \in Requests, NEW g \in Hash, NEW q \in Requests
  PROVE  /\ Digest(h, r) \in Hash /\ Digest(h, r) # NoHash
         /\ Digest(h, r) = Digest(g, q) => h = g /\ r = q
<1>1. /\ Digest(h, r) \in Seq(Requests) /\ Len(Digest(h, r)) = Len(h) + 1
      /\ Digest(h, r)[Len(h) + 1] = r
      /\ \A i \in 1..Len(h) : Digest(h, r)[i] = h[i]
  BY DEF Digest, Hash
<1>2. /\ Len(Digest(g, q)) = Len(g) + 1 /\ Digest(g, q)[Len(g) + 1] = q
      /\ \A i \in 1..Len(g) : Digest(g, q)[i] = g[i]
  BY DEF Digest, Hash
<1>3. Len(h) \in Nat /\ Len(g) \in Nat
  BY DEF Hash
<1>4. Digest(h, r) # NoHash
  <2>1. Len(NoHash) = 0
    BY DEF NoHash
  <2> QED BY <1>1, <1>3, <2>1
<1>5. ASSUME Digest(h, r) = Digest(g, q) PROVE h = g /\ r = q
  <2>1. Len(h) = Len(g) /\ r = q
    BY <1>1, <1>2, <1>3, <1>5
  <2>2. \A i \in 1..Len(h) : h[i] = g[i]
    BY <1>1, <1>2, <1>5, <2>1
  <2>3. h = [i \in 1..Len(h) |-> h[i]] /\ g = [i \in 1..Len(g) |-> g[i]]
    BY DEF Hash
  <2> QED BY <2>1, <2>2, <2>3
<1> QED BY <1>1, <1>4, <1>5 DEF Hash

\* The types the steps below rest on.
LEMMA GapType ==
  ASSUME TypeOK
  PROVE  /\ pc \in [Requests -> {"idle"} \cup Active \cup Finished]
         /\ prev \in [Requests -> Hash] /\ ts \in [Requests -> Nat] /\ tail \in Hash
         /\ computed \in Seq(Requests) /\ anchors \in Seq(Anchor) /\ purged \subseteq Requests
         /\ \A row \in rows : /\ row \in Row /\ row.req \in Requests /\ row.prev \in Hash
                              /\ row.id \in Nat
BY DEF TypeOK, Row

\* A step that hashes, stores and sweeps nothing.
LEMMA GapQuiet ==
  ASSUME GapInv, UNCHANGED <<rows, anchors, purged, prev, computed>>,
         \A r \in Requests : pc[r] \notin {"idle", "inflight"} => pc'[r] \notin {"idle", "inflight"},
         \A r \in Requests : pc[r] # "idle" => ts'[r] = ts[r],
         phase' # "down" => phase # "down" /\ tail' = tail
  PROVE  RowsKeep' /\ LinkedInOrder' /\ AnchorsPurged'
<1>1. RowsKeep'
  <2>1. \A row \in rows : row.req \in Requests /\ pc[row.req] # "idle"
    BY DEF GapInv, PipelineInv, UnsentIsNowhere, Stored, TypeOK, Row
  <2>2. \A row \in rows : prev'[row.req] = prev[row.req] /\ ts'[row.req] = ts[row.req]
    BY <2>1
  <2> QED BY <2>2 DEF GapInv, RowsKeep, RowOf
<1>2. LinkedInOrder'
  <2>1. \A i \in 1..Len(computed) : computed[i] \in Requests
    BY DEF GapInv, PipelineInv, TypeOK
  <2> QED BY <2>1 DEF GapInv, LinkedInOrder
<1>3. AnchorsPurged'
  BY DEF GapInv, AnchorsPurged
<1> QED BY <1>1, <1>2, <1>3

\* ComputeRow chains the row to the last one hashed.
LEMMA GapCompute ==
  ASSUME GapInv, NEW r \in Requests, NEW m \in PolicyModes, ComputeRow(r, m)
  PROVE  RowsKeep' /\ LinkedInOrder' /\ AnchorsPurged'
<1>1. /\ pc[r] = "inflight" /\ pc' = [pc EXCEPT ![r] = "computed"]
      /\ prev' = [prev EXCEPT ![r] = tail] /\ tail' = Digest(tail, r)
      /\ computed' = Append(computed, r)
      /\ UNCHANGED <<rows, anchors, purged, phase, ts>>
  BY DEF ComputeRow, stored
<1>2. /\ pc \in [Requests -> {"idle"} \cup Active \cup Finished]
      /\ prev \in [Requests -> Hash] /\ computed \in Seq(Requests) /\ TypeOK
  BY GapType DEF GapInv, PipelineInv
<1>3. phase # "down"
  BY <1>1 DEF GapInv, PipelineInv, PipelineInOrder, InFlight, Active
<1>4. r \notin Stored \cup purged
  BY <1>1 DEF GapInv, PipelineInv, UnsentIsNowhere
<1>5. prev'[r] = tail /\ \A q \in Requests \ {r} : prev'[q] = prev[q] /\ pc'[q] = pc[q]
  BY <1>1, <1>2
<1>6. RowsKeep'
  <2>1. \A row \in rows : row.req \in Requests \ {r}
    BY <1>2, <1>4, GapType DEF Stored
  <2> QED BY <1>1, <1>5, <2>1 DEF GapInv, RowsKeep, RowOf
<1>7. LinkedInOrder'
  <2> DEFINE L == Len(computed)
  <2>1. /\ L \in Nat /\ Len(computed') = L + 1 /\ computed'[L + 1] = r
        /\ computed' # <<>>
        /\ \A i \in 1..L : computed'[i] = computed[i] /\ computed[i] \in Requests
    BY <1>1, <1>2
  <2>2. \A i \in 1..L : computed[i] # r
    BY <1>1 DEF GapInv, LinkedInOrder
  <2>3. ASSUME NEW i \in 1..(L + 1)
        PROVE  pc'[computed'[i]] \notin {"idle", "inflight"} /\ computed'[i] \notin purged'
    <3>1. CASE i = L + 1
      BY <1>1, <1>2, <1>4, <2>1, <3>1
    <3>2. CASE i \in 1..L
      BY <1>1, <1>5, <2>1, <2>2, <3>2 DEF GapInv, LinkedInOrder
    <3> QED BY <2>1, <3>1, <3>2
  <2>4. ASSUME NEW i \in 1..(L + 1), i # 1
        PROVE  prev'[computed'[i]] = Digest(prev'[computed'[i - 1]], computed'[i - 1])
    <3>1. i - 1 \in 1..L
      BY <2>1, <2>4
    <3>2. computed'[i - 1] = computed[i - 1] /\ prev'[computed[i - 1]] = prev[computed[i - 1]]
      BY <1>5, <2>1, <2>2, <3>1
    <3>3. CASE i = L + 1
      <4>1. computed # <<>> /\ i - 1 = L
        BY <2>1, <3>1, <3>3
      <4>2. tail = Digest(prev[computed[L]], computed[L])
        BY <1>3, <4>1 DEF GapInv, LinkedInOrder
      <4> QED BY <1>5, <2>1, <3>2, <3>3, <4>1, <4>2
    <3>4. CASE i \in 1..L
      <4>1. prev[computed[i]] = Digest(prev[computed[i - 1]], computed[i - 1])
        BY <2>4, <3>4 DEF GapInv, LinkedInOrder
      <4> QED BY <1>5, <2>1, <2>2, <3>2, <3>4, <4>1
    <3> QED BY <2>1, <3>3, <3>4
  <2>5. tail' = Digest(prev'[computed'[Len(computed')]], computed'[Len(computed')])
    BY <1>1, <1>5, <2>1
  <2> HIDE DEF L
  <2> QED BY <2>1, <2>3, <2>4, <2>5 DEF LinkedInOrder
<1>8. AnchorsPurged'
  BY <1>1 DEF GapInv, AnchorsPurged
<1> QED BY <1>6, <1>7, <1>8

\* A row is stored as it was hashed.
LEMMA GapInsert ==
  ASSUME GapInv, InsertOk
  PROVE  RowsKeep' /\ LinkedInOrder' /\ AnchorsPurged'
<1>1. PICK r \in Requests : hand = <<r>>
  BY DEF InsertOk, GapInv, PipelineInv, TypeOK
<1>2. /\ rows' = rows \cup {RowOf(r, lastRowId + 1)}
      /\ UNCHANGED <<anchors, purged, phase, tail, pc, prev, ts, computed>>
  BY <1>1 DEF InsertOk, history
<1>3. RowsKeep'
  BY <1>2 DEF GapInv, RowsKeep, RowOf
<1>4. LinkedInOrder' /\ AnchorsPurged'
  BY <1>2 DEF GapInv, LinkedInOrder, AnchorsPurged
<1> QED BY <1>3, <1>4

\* A start begins a new list of hashed rows, and a sweep anchors what it took.
LEMMA GapBoot ==
  ASSUME GapInv, NEW cutoff \in 0..clock, Boot(cutoff)
  PROVE  RowsKeep' /\ LinkedInOrder' /\ AnchorsPurged'
<1> DEFINE old == OlderThan(rows, cutoff)
<1>1. /\ rows' \subseteq rows /\ computed' = <<>> /\ UNCHANGED <<prev, ts>>
      /\ anchors' = PurgedAnchors(rows, anchors, cutoff)
      /\ purged' = purged \cup {row.req : row \in old}
  BY DEF Boot, PurgedRows
<1>2. RowsKeep' /\ LinkedInOrder'
  BY <1>1 DEF GapInv, RowsKeep, RowOf, LinkedInOrder
<1>3. AnchorsPurged'
  <2>1. CASE old = {}
    BY <1>1, <2>1 DEF GapInv, AnchorsPurged, PurgedAnchors
  <2>2. CASE old # {}
    <3> DEFINE last == NewestRow(old)
    <3>1. old \in SUBSET rows /\ old \in SUBSET Row /\ lastRowId \in Nat
          /\ \A row \in old : row.id <= lastRowId
      BY DEF OlderThan, GapInv, PipelineInv, TypeOK
    <3>2. last \in old
      BY <2>2, <3>1, NewestRowIsNewest
    <3>3. anchors' = Append(anchors, PurgeAnchor(rows, cutoff)) /\ anchors \in Seq(Anchor)
      BY <1>1, <2>2 DEF PurgedAnchors, GapInv, PipelineInv, TypeOK
    <3>4. PurgeAnchor(rows, cutoff).chainHash = last.hash
      BY DEF PurgeAnchor
    <3> HIDE DEF last
    <3>5. last.hash = Digest(last.prev, last.req) /\ last.prev \in Hash /\ last.req \in purged'
      <4>1. last \in rows /\ last \in Row
        BY <3>1, <3>2
      <4>2. last.hash = Digest(last.prev, last.req)
        BY <4>1 DEF GapInv, RowsKeep, RowOf
      <4> QED BY <1>1, <3>2, <4>1, <4>2 DEF Row
    <3>6. ASSUME NEW k \in 1..Len(anchors')
          PROVE  \E h \in Hash, r \in purged' : anchors'[k].chainHash = Digest(h, r)
      <4>1. CASE k \in 1..Len(anchors)
        <5>1. anchors'[k] = anchors[k] /\ purged \subseteq purged'
          BY <1>1, <3>3, <4>1
        <5> QED BY <4>1, <5>1 DEF GapInv, AnchorsPurged
      <4>2. CASE k = Len(anchors) + 1
        <5>1. anchors'[k].chainHash = Digest(last.prev, last.req)
          BY <3>3, <3>4, <3>5, <4>2
        <5> QED BY <3>5, <5>1
      <4> QED BY <3>3, <4>1, <4>2
    <3> QED BY <3>6 DEF AnchorsPurged
  <2> QED BY <2>1, <2>2
<1> QED BY <1>2, <1>3

\* GapInv is inductive.
LEMMA GapStarts == Init => GapInv
<1> SUFFICES ASSUME Init PROVE GapInv
  OBVIOUS
<1>1. rows = {} /\ computed = <<>> /\ anchors = <<>> /\ PipelineInv
  BY PipelineInit DEF Init
<1> QED BY <1>1 DEF GapInv, RowsKeep, LinkedInOrder, AnchorsPurged

LEMMA GapNext == GapInv /\ [Next]_vars => GapInv'
<1> SUFFICES ASSUME GapInv, [Next]_vars PROVE GapInv'
  OBVIOUS
<1> USE DEF stored, history, writer
<1>1. PipelineInv'
  BY PipelineNext DEF GapInv
<1>2. pc \in [Requests -> {"idle"} \cup Active \cup Finished] /\ ts \in [Requests -> Nat]
  BY DEF GapInv, PipelineInv, TypeOK
<1>3. RowsKeep' /\ LinkedInOrder' /\ AnchorsPurged'
  <2>1. ASSUME NEW r \in Requests, Handler(r)
        PROVE  RowsKeep' /\ LinkedInOrder' /\ AnchorsPurged'
    <3>1. CASE Begin(r)
      BY <1>2, <3>1, GapQuiet DEF Begin
    <3>2. CASE CheckDone(r) \/ RefuseClosed(r) \/ Cancel(r) \/ ReceiveAck(r)
      BY <1>2, <3>2, GapQuiet DEF CheckDone, RefuseClosed, Cancel, ReceiveAck
    <3>3. CASE Send(r)
      BY <1>2, <3>3, GapQuiet DEF Send
    <3> QED BY <2>1, <3>1, <3>2, <3>3, GapCompute DEF Handler
  <2>2. CASE Receive \/ InsertRetry \/ WriterReturns
    BY <2>2, GapQuiet DEF Receive, InsertRetry, WriterReturns
  <2>3. CASE GiveUp
    BY <2>3, GapQuiet DEF GiveUp
  <2>4. CASE CloseWriter
    BY <2>4, GapQuiet DEF CloseWriter
  <2>5. CASE Exit \/ Crash \/ ReturnEarly
    <3>1. Die
      BY <2>5 DEF Exit, Crash, ReturnEarly
    <3> QED BY <3>1, GapQuiet DEF Die
  <2>6. CASE UNCHANGED vars
    BY <2>6, GapQuiet DEF vars
  <2> QED BY <2>1, <2>2, <2>3, <2>4, <2>5, <2>6, GapInsert, GapBoot
          DEF Next, Writer, Process, Terminated
<1> QED BY <1>1, <1>3 DEF GapInv

\* When Verify says OK nothing is missing from the middle of what one process
\* hashed: a stored row's predecessors, back to the first row that process
\* hashed, are stored and before it, whatever was reordered, dropped,
\* cancelled or purged (Verify, ComputeRow, PurgeEgress).
THEOREM NoGapCorrect == Spec => []PassingVerifyMeansNoGap
<1>1. ASSUME GapInv PROVE PassingVerifyMeansNoGap
  <2> SUFFICES ASSUME Verify(rows, anchors), NEW i \in DOMAIN computed, NEW j \in DOMAIN computed,
                      i < j, computed[j] \in Stored
               PROVE  \E row, other \in rows :
                        row.req = computed[i] /\ other.req = computed[j] /\ row.id < other.id
    BY DEF PassingVerifyMeansNoGap
  <2> DEFINE N == Cardinality(rows)
             ordered == RowsById(rows)
  <2>1. Table(rows) /\ TypeOK /\ computed \in Seq(Requests) /\ anchors \in Seq(Anchor)
        /\ DOMAIN computed = 1..Len(computed) /\ Len(computed) \in Nat
    BY <1>1 DEF GapInv, PipelineInv, TypeOK, Table
  <2>2. /\ N \in Nat /\ ordered \in [1..N -> rows]
        /\ \A row \in rows : \E n \in 1..N : ordered[n] = row
        /\ \A m, n \in 1..N : m < n => ordered[m].id < ordered[n].id
    BY <2>1, RowsByIdLists
  <2>3. \A n \in 1..N :
          \/ \E k \in 1..Len(anchors) : ordered[n].prev = anchors[k].chainHash
          \/ n = 1 /\ ordered[n].prev = NoHash
          \/ n > 1 /\ ordered[n].prev = ordered[n - 1].hash
    BY <2>1, VerifyMeans
  <2> HIDE DEF N, ordered
\* A stored row that was hashed on top of another follows it in the table.
  <2>4. ASSUME NEW k \in 1..Len(computed), k # 1, NEW n \in 1..N, ordered[n].req = computed[k]
        PROVE  n - 1 \in 1..N /\ ordered[n - 1].req = computed[k - 1]
    <3> DEFINE before == computed[k - 1]
    <3>1. before \in Requests /\ before \notin purged /\ k - 1 \in 1..Len(computed)
      <4>1. k - 1 \in 1..Len(computed)
        BY <2>1, <2>4
      <4> QED BY <1>1, <2>1, <4>1 DEF GapInv, LinkedInOrder
    <3>2. prev[computed[k]] = Digest(prev[before], before)
      BY <1>1, <2>4 DEF GapInv, LinkedInOrder
    <3>3. ordered[n] \in rows /\ prev[before] \in Hash
      BY <2>1, <2>2, <3>1, GapType
    <3>4. ordered[n].prev = Digest(prev[before], before)
      <4>1. ordered[n].prev = prev[computed[k]]
        BY <1>1, <2>4, <3>3 DEF GapInv, RowsKeep, RowOf
      <4> QED BY <3>2, <4>1
    <3> HIDE DEF before
    <3>5. ordered[n].prev # NoHash
      BY <3>1, <3>3, <3>4, DigestInjective
    <3>6. ASSUME NEW a \in 1..Len(anchors), ordered[n].prev = anchors[a].chainHash
          PROVE  FALSE
      <4>1. PICK h \in Hash, r \in purged : anchors[a].chainHash = Digest(h, r)
        BY <1>1 DEF GapInv, AnchorsPurged
      <4>2. r \in Requests /\ Digest(h, r) = Digest(prev[before], before)
        BY <2>1, <3>4, <3>6, <4>1, GapType
      <4>3. r = before
        BY <3>1, <3>3, <4>2, DigestInjective
      <4> QED BY <3>1, <4>3
    <3>7. n > 1 /\ ordered[n].prev = ordered[n - 1].hash
      BY <2>3, <3>5, <3>6
    <3>8. n - 1 \in 1..N /\ ordered[n - 1] \in rows
      BY <2>2, <3>7
    <3>9. /\ ordered[n - 1].hash = Digest(ordered[n - 1].prev, ordered[n - 1].req)
          /\ ordered[n - 1].prev \in Hash /\ ordered[n - 1].req \in Requests
      <4>1. ordered[n - 1].prev \in Hash /\ ordered[n - 1].req \in Requests
        BY <2>1, <3>8, GapType
      <4>2. ordered[n - 1] = RowOf(ordered[n - 1].req, ordered[n - 1].id)
        BY <1>1, <3>8 DEF GapInv, RowsKeep
      <4> QED BY <4>1, <4>2 DEF RowOf
    <3>10. ordered[n - 1].req = before
      <4>1. Digest(ordered[n - 1].prev, ordered[n - 1].req) = Digest(prev[before], before)
        BY <3>4, <3>7, <3>9
      <4> QED BY <3>1, <3>3, <3>9, <4>1, DigestInjective
    <3> QED BY <3>8, <3>10 DEF before
  <2>5. PICK n \in 1..N : ordered[n].req = computed[j]
    BY <2>2 DEF Stored
\* Down from j, the rows hashed before it are found one place earlier each.
  <2> DEFINE gap == {k \in i..j : ~ \E m \in 1..n : /\ m < n \/ k = j
                                                   /\ ordered[m].req = computed[k]}
  <2>6. gap = {}
    <3> SUFFICES ASSUME gap # {} PROVE FALSE
      OBVIOUS
    <3>1. gap \in SUBSET Nat /\ gap # {} /\ j \in Nat /\ \A k \in gap : k <= j
      BY <2>1
    <3>2. PICK k \in gap : \A l \in gap : l <= k
      BY <2>1, <3>1, GreatestNat
    <3>3. k \in i..j /\ k # j
      BY <2>2, <2>5, <3>2
    <3>4. k + 1 \in i..j /\ k + 1 \notin gap /\ k + 1 \in 1..Len(computed) /\ k + 1 # 1
          /\ (k + 1) - 1 = k
      BY <2>1, <3>2, <3>3
    <3>5. PICK m \in 1..n : ordered[m].req = computed[k + 1]
      BY <3>4
    <3>6. m \in 1..N /\ n \in 1..N
      BY <2>2
    <3>7. m - 1 \in 1..N /\ ordered[m - 1].req = computed[k]
      BY <2>4, <3>4, <3>5, <3>6
    <3>8. m - 1 \in 1..n /\ m - 1 < n
      BY <2>2, <3>6, <3>7
    <3> QED BY <3>2, <3>7, <3>8
  <2>7. PICK m \in 1..n : m < n /\ ordered[m].req = computed[i]
    BY <2>1, <2>6
  <2>8. m \in 1..N /\ ordered[m] \in rows /\ ordered[n] \in rows /\ ordered[m].id < ordered[n].id
    BY <2>2, <2>7
  <2> QED BY <2>5, <2>7, <2>8
<1> QED BY <1>1, GapStarts, GapNext, PTL DEF Spec

-----------------------------------------------------------------------------
(* The chain forks at an overtaken row only *)

\* No overtaken row has reached the table.
NoneOvertook == overtaken \cap (Stored \cup purged) = {}

\* What is sent, or about to be, was hashed by this process, which chains each
\* row to a longer history than the one before and the next to the longest.
HashOrder ==
  /\ \A r \in Requests : pc[r] \in {"computed", "sending"} => r \in In(computed)
  /\ In(sent) \subseteq In(computed)
  /\ \A i, j \in 1..Len(computed) : i < j => Len(prev[computed[i]]) < Len(prev[computed[j]])
  /\ phase # "down" => \A i \in 1..Len(computed) : Len(prev[computed[i]]) < Len(tail)

\* A row that is sent, or will be, after another is overtaken or chained to
\* the longer history.
SentOrder ==
  /\ \A i, j \in 1..Len(sent) :
       i < j => sent[j] \in overtaken \/ Len(prev[sent[i]]) < Len(prev[sent[j]])
  /\ \A i \in 1..Len(sent), k \in 1..Len(computed) :
       \/ computed[k] \in In(sent) \cup overtaken
       \/ Len(prev[sent[i]]) < Len(prev[computed[k]])

\* As long as no overtaken row is stored, histories grow with the ids, and
\* the rows of earlier processes have shorter ones than this process gives.
StoredOrder ==
  NoneOvertook =>
    /\ \A row, other \in rows : row.id < other.id => Len(row.prev) < Len(other.prev)
    /\ phase # "down" =>
         \A row \in rows :
           /\ Len(row.prev) < Len(tail)
           /\ \/ row.req \in In(sent)
              \/ \A k \in 1..Len(computed) : Len(row.prev) < Len(prev[computed[k]])

ChainInv == GapInv /\ HashOrder /\ SentOrder /\ StoredOrder

\* The types of the rows' requests and histories.
LEMMA ChainType ==
  ASSUME TypeOK
  PROVE  /\ \A r \in Requests : prev[r] \in Seq(Requests) /\ Len(prev[r]) \in Nat
         /\ tail \in Seq(Requests) /\ Len(tail) \in Nat
         /\ \A row \in rows : /\ row.prev \in Seq(Requests) /\ Len(row.prev) \in Nat
                              /\ row.id \in Nat /\ row.req \in Requests
         /\ computed \in Seq(Requests) /\ Len(computed) \in Nat
         /\ \A k \in 1..Len(computed) : computed[k] \in Requests
         /\ sent \in Seq(Requests) /\ Len(sent) \in Nat
         /\ \A i \in 1..Len(sent) : sent[i] \in Requests /\ sent[i] \in In(sent)
<1>1. /\ \A r \in Requests : prev[r] \in Seq(Requests) /\ Len(prev[r]) \in Nat
      /\ tail \in Seq(Requests) /\ Len(tail) \in Nat
  BY DEF TypeOK, Hash
<1>2. \A row \in rows : /\ row.prev \in Seq(Requests) /\ Len(row.prev) \in Nat
                         /\ row.id \in Nat /\ row.req \in Requests
  BY DEF TypeOK, Row, Hash
<1>3. /\ computed \in Seq(Requests) /\ Len(computed) \in Nat
      /\ \A k \in 1..Len(computed) : computed[k] \in Requests
      /\ sent \in Seq(Requests) /\ Len(sent) \in Nat
      /\ \A i \in 1..Len(sent) : sent[i] \in Requests
  BY DEF TypeOK
<1>4. \A i \in 1..Len(sent) : sent[i] \in In(sent)
  BY <1>3 DEF In
<1> QED BY <1>1, <1>2, <1>3, <1>4

\* What a sequence of requests holds, by its places.
LEMMA InPlaces ==
  ASSUME NEW seq \in Seq(Requests)
  PROVE  \A r : r \in In(seq) <=> \E i \in 1..Len(seq) : seq[i] = r
BY DEF In

\* A step that hashes, sends, stores and sweeps nothing.
LEMMA ChainQuiet ==
  ASSUME ChainInv, UNCHANGED <<rows, purged, prev, computed, sent, overtaken>>,
         \A r \in Requests : pc'[r] \in {"computed", "sending"} =>
                               pc[r] \in {"computed", "sending"},
         phase' # "down" => phase # "down" /\ tail' = tail
  PROVE  HashOrder' /\ SentOrder' /\ StoredOrder'
<1>1. In(sent)' = In(sent) /\ In(computed)' = In(computed) /\ Stored' = Stored
  BY DEF In, Stored
<1>2. HashOrder'
  BY <1>1 DEF ChainInv, HashOrder
<1>3. SentOrder'
  BY <1>1 DEF ChainInv, SentOrder
<1>4. StoredOrder'
  BY <1>1 DEF ChainInv, StoredOrder, NoneOvertook
<1> QED BY <1>2, <1>3, <1>4

\* ComputeRow chains the request to the longest history and makes it longer.
LEMMA ChainCompute ==
  ASSUME ChainInv, NEW r \in Requests, NEW m \in PolicyModes, ComputeRow(r, m)
  PROVE  HashOrder' /\ SentOrder' /\ StoredOrder'
<1> DEFINE L == Len(computed)
<1>1. /\ pc[r] = "inflight" /\ pc' = [pc EXCEPT ![r] = "computed"]
      /\ prev' = [prev EXCEPT ![r] = tail] /\ tail' = Digest(tail, r)
      /\ computed' = Append(computed, r)
      /\ UNCHANGED <<rows, purged, phase, sent, overtaken>>
  BY DEF ComputeRow, stored
<1>2. /\ pc \in [Requests -> {"idle"} \cup Active \cup Finished]
      /\ prev \in [Requests -> Hash] /\ TypeOK
  BY DEF ChainInv, GapInv, PipelineInv, TypeOK
<1>3. phase # "down"
  BY <1>1 DEF ChainInv, GapInv, PipelineInv, PipelineInOrder, InFlight, Active
<1>4. \A k \in 1..L : computed[k] # r
  BY <1>1 DEF ChainInv, GapInv, LinkedInOrder
<1>5. /\ L \in Nat /\ Len(computed') = L + 1 /\ computed'[L + 1] = r
      /\ \A k \in 1..L : computed'[k] = computed[k] /\ computed[k] \in Requests
  BY <1>1, <1>2, ChainType
<1>6. /\ prev'[r] = tail /\ \A q \in Requests \ {r} : prev'[q] = prev[q] /\ pc'[q] = pc[q]
      /\ \A k \in 1..L : prev'[computed[k]] = prev[computed[k]]
  BY <1>1, <1>2, <1>4, <1>5
<1>7. In(computed)' = In(computed) \cup {r} /\ In(sent)' = In(sent) /\ Stored' = Stored
  <2>1. In(computed)' = In(computed') /\ In(sent)' = In(sent) /\ Stored' = Stored
    BY <1>1 DEF In, Stored
  <2> QED BY <1>1, <1>2, <2>1, InAppend, ChainType
<1>8. /\ Len(tail') = Len(tail) + 1 /\ Len(tail) \in Nat
      /\ \A q \in Requests : Len(prev[q]) \in Nat
      /\ \A row \in rows : Len(row.prev) \in Nat
  BY <1>1, <1>2, ChainType DEF Digest
<1>9. \A k \in 1..L : Len(prev[computed[k]]) < Len(tail)
  BY <1>3 DEF ChainInv, HashOrder
<1>10. \A i \in 1..Len(sent) : /\ prev'[sent[i]] = prev[sent[i]]
                                /\ Len(prev[sent[i]]) < Len(tail)
  <2> SUFFICES ASSUME NEW i \in 1..Len(sent)
               PROVE  prev'[sent[i]] = prev[sent[i]] /\ Len(prev[sent[i]]) < Len(tail)
    OBVIOUS
  <2>1. sent[i] \in In(computed)
    BY <1>2, ChainType DEF ChainInv, HashOrder
  <2>2. PICK k \in 1..L : computed[k] = sent[i]
    BY <1>2, <2>1, ChainType, InPlaces
  <2> QED BY <1>6, <1>9, <2>2
<1> HIDE DEF L
<1>11. HashOrder'
  <2>1. \A q \in Requests : pc'[q] \in {"computed", "sending"} => q \in In(computed)'
    BY <1>6, <1>7 DEF ChainInv, HashOrder
  <2>2. (In(sent) \subseteq In(computed))'
    BY <1>7 DEF ChainInv, HashOrder
  <2>3. ASSUME NEW i \in 1..(L + 1), NEW j \in 1..(L + 1), i < j
        PROVE  Len(prev'[computed'[i]]) < Len(prev'[computed'[j]])
    <3>1. i \in 1..L
      BY <1>5, <2>3
    <3>2. CASE j = L + 1
      BY <1>5, <1>6, <1>9, <3>1, <3>2
    <3>3. CASE j \in 1..L
      <4>1. Len(prev[computed[i]]) < Len(prev[computed[j]])
        BY <2>3, <3>1, <3>3 DEF ChainInv, HashOrder, L
      <4> QED BY <1>5, <1>6, <3>1, <3>3, <4>1
    <3> QED BY <1>5, <3>2, <3>3
  <2>4. ASSUME NEW i \in 1..(L + 1) PROVE Len(prev'[computed'[i]]) < Len(tail')
    <3>1. CASE i = L + 1
      BY <1>5, <1>6, <1>8, <3>1
    <3>2. CASE i \in 1..L
      <4>1. Len(prev[computed[i]]) < Len(tail) /\ Len(prev[computed[i]]) \in Nat
        BY <1>5, <1>8, <1>9, <3>2
      <4> QED BY <1>5, <1>6, <1>8, <3>2, <4>1
    <3> QED BY <1>5, <3>1, <3>2
  <2> QED BY <1>5, <2>1, <2>2, <2>3, <2>4 DEF HashOrder
<1>12. SentOrder'
  <2>1. \A i, j \in 1..Len(sent') :
          i < j => sent'[j] \in overtaken' \/ Len(prev'[sent'[i]]) < Len(prev'[sent'[j]])
    BY <1>1, <1>10 DEF ChainInv, SentOrder
  <2>2. ASSUME NEW i \in 1..Len(sent), NEW k \in 1..(L + 1)
        PROVE  \/ computed'[k] \in In(sent) \cup overtaken
               \/ Len(prev'[sent[i]]) < Len(prev'[computed'[k]])
    <3>1. CASE k = L + 1
      BY <1>5, <1>6, <1>10, <3>1
    <3>2. CASE k \in 1..L
      <4>1. \/ computed[k] \in In(sent) \cup overtaken
            \/ Len(prev[sent[i]]) < Len(prev[computed[k]])
        BY <3>2 DEF ChainInv, SentOrder, L
      <4> QED BY <1>5, <1>6, <1>10, <3>2, <4>1
    <3> QED BY <1>5, <3>1, <3>2
  <2> QED BY <1>1, <1>5, <1>7, <2>1, <2>2 DEF SentOrder
<1>13. StoredOrder'
  <2> SUFFICES ASSUME NoneOvertook'
               PROVE  /\ \A row, other \in rows :
                           row.id < other.id => Len(row.prev) < Len(other.prev)
                      /\ \A row \in rows :
                           /\ Len(row.prev) < Len(tail')
                           /\ \/ row.req \in In(sent)
                              \/ \A k \in 1..(L + 1) : Len(row.prev) < Len(prev'[computed'[k]])
    BY <1>1, <1>5, <1>7 DEF StoredOrder
  <2>1. NoneOvertook
    BY <1>1, <1>7 DEF NoneOvertook
  <2>2. /\ \A row, other \in rows : row.id < other.id => Len(row.prev) < Len(other.prev)
        /\ \A row \in rows :
             /\ Len(row.prev) < Len(tail)
             /\ row.req \in In(sent) \/ \A k \in 1..L : Len(row.prev) < Len(prev[computed[k]])
    BY <1>3, <2>1 DEF ChainInv, StoredOrder, L
  <2>3. ASSUME NEW row \in rows, row.req \notin In(sent), NEW k \in 1..(L + 1)
        PROVE  Len(row.prev) < Len(prev'[computed'[k]])
    <3>1. CASE k = L + 1
      BY <1>5, <1>6, <2>2, <3>1
    <3>2. CASE k \in 1..L
      BY <1>5, <1>6, <2>2, <2>3, <3>2
    <3> QED BY <1>5, <3>1, <3>2
  <2>4. \A row \in rows : Len(row.prev) < Len(tail')
    <3> SUFFICES ASSUME NEW row \in rows PROVE Len(row.prev) < Len(tail')
      OBVIOUS
    <3>1. Len(row.prev) < Len(tail) /\ Len(row.prev) \in Nat
      BY <1>8, <2>2
    <3> QED BY <1>8, <3>1
  <2> QED BY <2>2, <2>3, <2>4
<1> QED BY <1>11, <1>12, <1>13

\* Sending marks what was hashed before the request and is not sent yet.
LEMMA ChainSend ==
  ASSUME ChainInv, NEW r \in Requests, Send(r)
  PROVE  HashOrder' /\ SentOrder' /\ StoredOrder'
<1> DEFINE n == Len(sent)
<1>1. /\ pc[r] = "sending" /\ sent' = Append(sent, r)
      /\ overtaken' = overtaken \cup (HashedBefore(r) \ In(sent))
      /\ pc' = [pc EXCEPT ![r] = IF mode[r] = "block" THEN "waiting" ELSE "accepted"]
      /\ UNCHANGED <<rows, purged, prev, computed, phase, tail>>
  BY DEF Send, stored
<1>2. TypeOK /\ pc \in [Requests -> {"idle"} \cup Active \cup Finished]
  BY DEF ChainInv, GapInv, PipelineInv, TypeOK
<1>3. /\ n \in Nat /\ Len(sent') = n + 1 /\ sent'[n + 1] = r
      /\ \A i \in 1..n : sent'[i] = sent[i] /\ sent[i] \in Requests
  BY <1>1, <1>2, ChainType
<1>4. In(sent)' = In(sent) \cup {r} /\ In(computed)' = In(computed) /\ Stored' = Stored
  <2>1. In(sent)' = In(sent') /\ In(computed)' = In(computed) /\ Stored' = Stored
    BY <1>1 DEF In, Stored
  <2> QED BY <1>1, <1>2, <2>1, InAppend, ChainType
<1>5. r \in In(computed)
  BY <1>1 DEF ChainInv, HashOrder
<1>6. PICK p \in 1..Len(computed) : computed[p] = r
  BY <1>2, <1>5, ChainType, InPlaces
<1>7. \A q \in Requests : pc'[q] \in {"computed", "sending"} => pc[q] \in {"computed", "sending"}
  BY <1>1, <1>2
<1>8. HashOrder'
  <2>1. (In(sent) \subseteq In(computed))'
    BY <1>4, <1>5 DEF ChainInv, HashOrder
  <2> QED BY <1>1, <1>4, <1>7, <2>1 DEF ChainInv, HashOrder
<1> HIDE DEF n
<1>9. SentOrder'
  <2>1. ASSUME NEW i \in 1..(n + 1), NEW j \in 1..(n + 1), i < j
        PROVE  sent'[j] \in overtaken' \/ Len(prev[sent'[i]]) < Len(prev[sent'[j]])
    <3>1. i \in 1..n
      BY <1>3, <2>1
    <3>2. CASE j \in 1..n
      <4>1. sent[j] \in overtaken \/ Len(prev[sent[i]]) < Len(prev[sent[j]])
        BY <2>1, <3>1, <3>2 DEF ChainInv, SentOrder, n
      <4> QED BY <1>1, <1>3, <3>1, <3>2, <4>1
    <3>3. CASE j = n + 1
      <4>1. r \notin In(sent)
        BY <1>1 DEF ChainInv, GapInv, PipelineInv, UnsentIsNowhere
      <4>2. r \in overtaken \/ Len(prev[sent[i]]) < Len(prev[r])
        BY <1>6, <3>1, <4>1 DEF ChainInv, SentOrder, n
      <4> QED BY <1>1, <1>3, <3>1, <3>3, <4>2
    <3> QED BY <1>3, <3>2, <3>3
  <2>2. ASSUME NEW i \in 1..(n + 1), NEW k \in 1..Len(computed)
        PROVE  \/ computed[k] \in In(sent) \cup {r} \cup overtaken'
               \/ Len(prev[sent'[i]]) < Len(prev[computed[k]])
    <3>1. CASE i \in 1..n
      <4>1. \/ computed[k] \in In(sent) \cup overtaken
            \/ Len(prev[sent[i]]) < Len(prev[computed[k]])
        BY <3>1 DEF ChainInv, SentOrder, n
      <4> QED BY <1>1, <1>3, <3>1, <4>1
    <3>2. CASE i = n + 1 /\ k < p
      <4>1. computed[k] \in HashedBefore(r)
        <5>1. DOMAIN computed = 1..Len(computed)
          BY <1>2, ChainType
        <5> QED BY <1>6, <3>2, <5>1 DEF HashedBefore
      <4> QED BY <1>1, <4>1
    <3>3. CASE k = p
      BY <1>6, <3>3
    <3>4. CASE i = n + 1 /\ p < k
      <4>1. Len(prev[computed[p]]) < Len(prev[computed[k]])
        BY <3>4 DEF ChainInv, HashOrder
      <4> QED BY <1>3, <1>6, <3>4, <4>1
    <3>5. (i \in 1..n \/ i = n + 1) /\ (k < p \/ k = p \/ p < k)
      BY <1>3
    <3> QED BY <3>1, <3>2, <3>3, <3>4, <3>5
  <2> QED BY <1>1, <1>3, <1>4, <2>1, <2>2 DEF SentOrder
<1>10. StoredOrder'
  <2>1. NoneOvertook' => NoneOvertook
    BY <1>1, <1>4 DEF NoneOvertook
  <2>2. In(sent) \subseteq In(sent)'
    BY <1>4
  <2> QED BY <1>1, <2>1, <2>2 DEF ChainInv, StoredOrder
<1> QED BY <1>8, <1>9, <1>10

\* The row in hand has the longest history of those stored, unless it was
\* overtaken.
LEMMA ChainInsert ==
  ASSUME ChainInv, InsertOk
  PROVE  HashOrder' /\ SentOrder' /\ StoredOrder'
<1>1. PICK r \in Requests : hand = <<r>>
  BY DEF InsertOk, ChainInv, GapInv, PipelineInv, TypeOK
<1> DEFINE new == RowOf(r, lastRowId + 1)
<1>2. /\ rows' = rows \cup {new}
      /\ UNCHANGED <<purged, prev, computed, sent, overtaken, phase, tail, pc>>
  BY <1>1 DEF InsertOk, history
<1>3. new.id = lastRowId + 1 /\ new.prev = prev[r] /\ new.req = r
  BY DEF RowOf
<1>4. TypeOK /\ PipelineInv
  BY DEF ChainInv, GapInv, PipelineInv
<1>5. /\ phase # "down" /\ Handled \in Nat /\ Handled + 1 \in DOMAIN sent
      /\ sent[Handled + 1] = r
      /\ \A j \in DOMAIN sent : j > Handled + 1 => sent[j] \in In(queue)
  BY <1>1, <1>4, HandIsNext
<1>6. /\ DOMAIN sent = 1..Len(sent) /\ Len(sent) \in Nat
      /\ In(sent)' = In(sent) /\ In(computed)' = In(computed)
  BY <1>2, <1>4, ChainType DEF In
<1> HIDE DEF new
<1>7. HashOrder' /\ SentOrder'
  <2>1. HashOrder'
    BY <1>2, <1>6 DEF ChainInv, HashOrder
  <2> QED BY <1>2, <1>6, <2>1 DEF ChainInv, SentOrder
<1>8. ASSUME NoneOvertook' PROVE NoneOvertook /\ r \notin overtaken
  <2>1. Stored \subseteq Stored' /\ r \in Stored'
    BY <1>2, <1>3 DEF Stored
  <2> QED BY <1>2, <1>8, <2>1 DEF NoneOvertook
<1>9. r \in In(sent) /\ \E k \in 1..Len(computed) : computed[k] = r
  <2>1. r \in In(sent)
    BY <1>5 DEF In
  <2>2. r \in In(computed)
    BY <2>1 DEF ChainInv, HashOrder
  <2> QED BY <1>4, <2>1, <2>2, ChainType, InPlaces
<1>10. ASSUME NoneOvertook', NEW row \in rows PROVE Len(row.prev) < Len(new.prev)
  <2>1. CASE row.req \in In(sent)
    <3>1. PICK i \in 1..Len(sent) : sent[i] = row.req
      BY <1>4, <2>1, ChainType, InPlaces
    <3>2. row.req \in Stored /\ row.prev = prev[row.req]
      BY DEF Stored, ChainInv, GapInv, RowsKeep, RowOf
    <3>3. i # Handled + 1
      <4>1. r \notin Stored
        BY <1>1, <1>4, HandIsNext
      <4> QED BY <1>5, <3>1, <3>2, <4>1
    <3>4. ~(i > Handled + 1)
      <4>1. row.req \notin In(queue)
        BY <1>4, <3>2 DEF PipelineInv, StoredOnce
      <4> QED BY <1>5, <1>6, <3>1, <4>1
    <3>5. i < Handled + 1 /\ Handled + 1 \in 1..Len(sent)
      BY <1>5, <1>6, <3>3, <3>4
    <3>6. sent[Handled + 1] \in overtaken \/ Len(prev[sent[i]]) < Len(prev[sent[Handled + 1]])
      BY <3>5 DEF ChainInv, SentOrder
    <3> QED BY <1>3, <1>5, <1>8, <1>10, <3>1, <3>2, <3>6
  <2>2. CASE row.req \notin In(sent)
    <3>1. \A k \in 1..Len(computed) : Len(row.prev) < Len(prev[computed[k]])
      BY <1>5, <1>8, <1>10, <2>2 DEF ChainInv, StoredOrder
    <3> QED BY <1>3, <1>9, <3>1
  <2> QED BY <2>1, <2>2
<1>11. StoredOrder'
  <2> SUFFICES ASSUME NoneOvertook'
               PROVE  /\ \A row, other \in rows' :
                           row.id < other.id => Len(row.prev) < Len(other.prev)
                      /\ \A row \in rows' :
                           /\ Len(row.prev) < Len(tail)
                           /\ \/ row.req \in In(sent)
                              \/ \A k \in 1..Len(computed) : Len(row.prev) < Len(prev[computed[k]])
    BY <1>2, <1>6 DEF StoredOrder
  <2>1. /\ \A row, other \in rows : row.id < other.id => Len(row.prev) < Len(other.prev)
        /\ \A row \in rows :
             /\ Len(row.prev) < Len(tail)
             /\ \/ row.req \in In(sent)
                \/ \A k \in 1..Len(computed) : Len(row.prev) < Len(prev[computed[k]])
    BY <1>5, <1>8 DEF ChainInv, StoredOrder
  <2>2. \A row \in rows : row.id <= lastRowId /\ row.id \in Nat /\ lastRowId \in Nat
    BY <1>4 DEF TypeOK, Row
  <2>3. ASSUME NEW row \in rows', NEW other \in rows', row.id < other.id
        PROVE  Len(row.prev) < Len(other.prev)
    <3>1. CASE row = new
      <4>1. other = new \/ (other.id <= lastRowId /\ other.id \in Nat)
        BY <1>2, <2>2
      <4>2. lastRowId \in Nat
        BY <1>4 DEF TypeOK
      <4> QED BY <1>3, <2>3, <3>1, <4>1, <4>2
    <3>2. CASE row \in rows /\ other = new
      BY <1>10, <3>2
    <3>3. CASE row \in rows /\ other \in rows
      BY <2>1, <2>3, <3>3
    <3> QED BY <1>2, <3>1, <3>2, <3>3
  <2>4. Len(new.prev) < Len(tail) /\ new.req \in In(sent)
    BY <1>3, <1>5, <1>9 DEF ChainInv, HashOrder
  <2> QED BY <1>2, <2>1, <2>3, <2>4
<1> QED BY <1>7, <1>11

\* Nothing is on the way once the process is down.
LEMMA NothingOnTheWay ==
  ASSUME PipelineInOrder, phase = "down"
  PROVE  /\ queue = <<>> /\ hand = <<>>
         /\ \A r \in Requests : pc[r] \notin {"computed", "sending"}
BY DEF PipelineInOrder, InFlight, Active

\* A start takes up the history of the newest row, which is the longest.
LEMMA ChainBoot ==
  ASSUME ChainInv, NEW cutoff \in 0..clock, Boot(cutoff)
  PROVE  HashOrder' /\ SentOrder' /\ StoredOrder'
<1>1. /\ phase = "down" /\ rows' \subseteq rows /\ tail' = LastEgressRowHash(rows', anchors')
      /\ computed' = <<>> /\ sent' = <<>> /\ UNCHANGED <<pc, overtaken>>
      /\ purged' = purged \cup {row.req : row \in OlderThan(rows, cutoff)}
      /\ rows' = rows \ OlderThan(rows, cutoff)
  BY DEF Boot, PurgedRows
<1>2. Len(computed') = 0 /\ Len(sent') = 0 /\ In(sent)' = {}
  <2>1. In(sent)' = In(sent')
    BY DEF In
  <2> QED BY <1>1, <2>1, InHand
<1>3. HashOrder' /\ SentOrder'
  <2>1. \A r \in Requests : pc'[r] \notin {"computed", "sending"}
    BY <1>1, NothingOnTheWay DEF ChainInv, GapInv, PipelineInv
  <2> QED BY <1>2, <2>1 DEF HashOrder, SentOrder
<1>4. ASSUME NoneOvertook' PROVE NoneOvertook
  <2>1. Stored \cup purged \subseteq Stored' \cup purged'
    BY <1>1 DEF Stored
  <2> QED BY <1>1, <1>4, <2>1 DEF NoneOvertook
<1>5. ASSUME NoneOvertook', NEW row \in rows' PROVE Len(row.prev) < Len(tail')
  <2>1. /\ rows' \in SUBSET Row /\ lastRowId \in Nat /\ \A other \in rows' : other.id <= lastRowId
    BY <1>1 DEF ChainInv, GapInv, PipelineInv, TypeOK
  <2> DEFINE newest == NewestRow(rows')
  <2>2. newest \in rows' /\ \A other \in rows' : other.id <= newest.id
    BY <2>1, NewestRowIsNewest
  <2>3. tail' = newest.hash
    BY <1>1 DEF LastEgressRowHash
  <2> HIDE DEF newest
  <2>4. /\ row \in rows /\ newest \in rows /\ row.id \in Nat /\ newest.id \in Nat
        /\ newest.prev \in Seq(Requests) /\ newest.req \in Requests
        /\ Len(row.prev) \in Nat /\ Len(newest.prev) \in Nat
    BY <1>1, <2>2, ChainType DEF ChainInv, GapInv, PipelineInv
  <2>5. Len(tail') = Len(newest.prev) + 1
    <3>1. newest.hash = Digest(newest.prev, newest.req)
      BY <2>4 DEF ChainInv, GapInv, RowsKeep, RowOf
    <3> QED BY <2>3, <2>4, <3>1 DEF Digest
  <2>6. CASE row.id = newest.id
    <3>1. row = newest
      BY <2>4, <2>6 DEF ChainInv, GapInv, PipelineInv, TypeOK
    <3> QED BY <2>4, <2>5, <3>1
  <2>7. CASE row.id < newest.id
    <3>1. Len(row.prev) < Len(newest.prev)
      BY <1>4, <1>5, <2>4, <2>7 DEF ChainInv, StoredOrder
    <3> QED BY <2>4, <2>5, <3>1
  <2> QED BY <2>2, <2>4, <2>6, <2>7
<1>6. StoredOrder'
  <2>1. ASSUME NoneOvertook'
        PROVE  \A row, other \in rows' : row.id < other.id => Len(row.prev) < Len(other.prev)
    BY <1>1, <1>4, <2>1 DEF StoredOrder, ChainInv
  <2>2. 1..Len(computed') = {}
    BY <1>2
  <2> QED BY <1>5, <2>1, <2>2 DEF StoredOrder
<1> QED BY <1>3, <1>6

\* ChainInv is inductive.
LEMMA ChainStarts == Init => ChainInv
<1> SUFFICES ASSUME Init PROVE ChainInv
  OBVIOUS
<1>1. /\ rows = {} /\ Len(sent) = 0 /\ Len(computed) = 0 /\ GapInv /\ In(sent) = {}
      /\ \A r \in Requests : pc[r] = "idle"
  BY GapStarts, InHand DEF Init
<1> QED BY <1>1 DEF ChainInv, HashOrder, SentOrder, StoredOrder, Init

LEMMA ChainNext == ChainInv /\ [Next]_vars => ChainInv'
<1> SUFFICES ASSUME ChainInv, [Next]_vars PROVE ChainInv'
  OBVIOUS
<1> USE DEF stored, writer, history
<1>1. GapInv'
  BY GapNext DEF ChainInv
<1>2. pc \in [Requests -> {"idle"} \cup Active \cup Finished]
  BY DEF ChainInv, GapInv, PipelineInv, TypeOK
<1>3. HashOrder' /\ SentOrder' /\ StoredOrder'
  <2>1. ASSUME NEW r \in Requests, Begin(r) \/ RefuseClosed(r) \/ Cancel(r) \/ ReceiveAck(r)
        PROVE  HashOrder' /\ SentOrder' /\ StoredOrder'
    BY <1>2, <2>1, ChainQuiet DEF Begin, RefuseClosed, Cancel, ReceiveAck
  <2>2. ASSUME NEW r \in Requests, CheckDone(r)
        PROVE  HashOrder' /\ SentOrder' /\ StoredOrder'
    BY <1>2, <2>2, ChainQuiet DEF CheckDone
  <2>3. CASE Receive \/ InsertRetry \/ GiveUp \/ WriterReturns \/ CloseWriter
    BY <2>3, ChainQuiet DEF Receive, InsertRetry, GiveUp, WriterReturns, CloseWriter
  <2>4. CASE Exit \/ Crash \/ ReturnEarly
    <3>1. Die
      BY <2>4 DEF Exit, Crash, ReturnEarly
    <3>2. \A r \in Requests : pc'[r] \notin {"computed", "sending"}
      BY <3>1 DEF Die, Active
    <3> QED BY <3>1, <3>2, ChainQuiet DEF Die
  <2>5. CASE UNCHANGED vars
    BY <2>5, ChainQuiet DEF vars
  <2>6. ASSUME NEW r \in Requests, Handler(r)
        PROVE  HashOrder' /\ SentOrder' /\ StoredOrder'
    BY <2>1, <2>2, <2>6, ChainCompute, ChainSend DEF Handler
  <2> QED BY <2>3, <2>4, <2>5, <2>6, ChainInsert, ChainBoot
          DEF Next, Writer, Process, Terminated
<1> QED BY <1>1, <1>3 DEF ChainInv

\* As long as no row that was overtaken on its way to the writer is stored, no
\* two rows continue the same row, whatever was dropped, cancelled, crashed,
\* purged or restarted and however many requests were in flight (ComputeRow,
\* NewHashChain, LastEgressRowHash).
THEOREM NoForkCorrect == Spec => []NoFork
<1>1. ChainInv => NoFork
  <2> SUFFICES ASSUME ChainInv, NoneOvertook,
                      NEW row \in rows, NEW other \in rows, row.prev = other.prev
               PROVE  row = other
    BY DEF NoFork, NoneOvertook
  <2>1. row.id \in Nat /\ other.id \in Nat /\ Len(row.prev) \in Nat
    BY ChainType DEF ChainInv, GapInv, PipelineInv
  <2>2. ~(row.id < other.id) /\ ~(other.id < row.id)
    BY <2>1 DEF ChainInv, StoredOrder
  <2>3. row.id = other.id
    BY <2>1, <2>2
  <2> QED BY <2>3 DEF ChainInv, GapInv, PipelineInv, TypeOK
<1> QED BY <1>1, ChainStarts, ChainNext, PTL DEF Spec

-----------------------------------------------------------------------------
(* The links of the chain, while no row is overtaken or given up on *)

\* The hash the next row of the table must be chained to.
TableEnd == LastEgressRowHash(rows, anchors)

\* No row has been overtaken or given up on.
Undisturbed == overtaken = {} /\ dropped = {}

\* Rows are sent as they were hashed, and the one that comes next to the table
\* is chained to its end.
NextLinked ==
  (Undisturbed /\ phase # "down") =>
    /\ Len(sent) <= Len(computed)
    /\ \A i \in 1..Len(sent) : sent[i] = computed[i]
    /\ Handled < Len(computed) => prev[computed[Handled + 1]] = TableEnd
    /\ Handled = Len(computed) => tail = TableEnd

\* How far the writer is, in a running process.
LEMMA HandledType ==
  ASSUME PipelineInv
  PROVE  /\ Len(hand) \in Nat /\ Len(queue) \in Nat /\ Len(sent) \in Nat
         /\ phase # "down" => Handled \in Nat /\ Handled <= Len(sent)
<1>1. Len(hand) \in Nat /\ Len(queue) \in Nat /\ Len(sent) \in Nat
  BY DEF PipelineInv, TypeOK
<1>2. phase # "down" => Handled \in Nat
  BY DEF PipelineInv, PipelineInOrder
<1>3. Handled <= Len(sent)
  <2> DEFINE h == Len(hand)
             q == Len(queue)
             s == Len(sent)
  <2>1. h \in Nat /\ q \in Nat /\ s \in Nat /\ Handled = s - h - q
    BY <1>1 DEF Handled
  <2> HIDE DEF h, q, s
  <2>2. Handled <= s
    BY <2>1
  <2> QED BY <2>2 DEF s
<1> QED BY <1>1, <1>2, <1>3

\* A step that hashes, sends, stores and sweeps nothing.
LEMMA LinkQuiet ==
  ASSUME NextLinked, UNCHANGED <<rows, anchors, prev, computed, sent, tail, overtaken, dropped>>,
         Handled' = Handled, phase' # "down" => phase # "down"
  PROVE  NextLinked'
<1>1. TableEnd' = TableEnd /\ (Undisturbed' => Undisturbed)
  BY DEF TableEnd, Undisturbed
<1> QED BY <1>1 DEF NextLinked

\* ComputeRow puts the row behind what is on the way to the table.
LEMMA LinkCompute ==
  ASSUME ChainInv, NextLinked, NEW r \in Requests, NEW m \in PolicyModes, ComputeRow(r, m)
  PROVE  NextLinked'
<1> DEFINE L == Len(computed)
<1>1. /\ pc[r] = "inflight" /\ prev' = [prev EXCEPT ![r] = tail]
      /\ computed' = Append(computed, r)
      /\ UNCHANGED <<rows, anchors, queue, hand, sent, phase, overtaken, dropped>>
  BY DEF ComputeRow, stored, writer, history
<1>2. /\ PipelineInv /\ TypeOK /\ prev \in [Requests -> Hash]
      /\ \A k \in 1..L : computed[k] # r
  BY <1>1 DEF ChainInv, GapInv, LinkedInOrder, PipelineInv, TypeOK
<1>3. /\ L \in Nat /\ Len(computed') = L + 1 /\ computed'[L + 1] = r
      /\ \A k \in 1..L : computed'[k] = computed[k] /\ prev'[computed[k]] = prev[computed[k]]
      /\ prev'[r] = tail
  BY <1>1, <1>2, ChainType
<1>4. TableEnd' = TableEnd /\ Handled' = Handled /\ (Undisturbed' => Undisturbed)
  BY <1>1 DEF TableEnd, Handled, Undisturbed
<1>5. /\ Len(sent) \in Nat /\ (phase # "down" => Handled \in Nat /\ Handled <= Len(sent))
  BY <1>2, HandledType
<1> HIDE DEF L
<1> SUFFICES ASSUME Undisturbed, phase # "down"
             PROVE  /\ Len(sent) <= L + 1
                    /\ \A i \in 1..Len(sent) : sent[i] = computed'[i]
                    /\ Handled < L + 1 => prev'[computed'[Handled + 1]] = TableEnd
                    /\ Handled = L + 1 => tail' = TableEnd
  BY <1>1, <1>3, <1>4 DEF NextLinked
<1>6. /\ Len(sent) <= L /\ \A i \in 1..Len(sent) : sent[i] = computed[i]
      /\ Handled < L => prev[computed[Handled + 1]] = TableEnd
      /\ Handled = L => tail = TableEnd
  BY DEF NextLinked, L
<1>7. Len(sent) <= L + 1 /\ Handled # L + 1 /\ Handled \in Nat
  BY <1>3, <1>5, <1>6
<1>8. \A i \in 1..Len(sent) : i \in 1..L /\ sent[i] = computed'[i]
  BY <1>3, <1>5, <1>6
<1>9. CASE Handled < L
  <2>1. Handled + 1 \in 1..L
    BY <1>3, <1>7, <1>9
  <2> QED BY <1>3, <1>6, <1>7, <1>8, <1>9, <2>1
<1>10. CASE ~(Handled < L)
  <2>1. Handled = L
    BY <1>3, <1>5, <1>6, <1>10
  <2> QED BY <1>3, <1>6, <1>7, <1>8, <2>1
<1> QED BY <1>9, <1>10

\* What is sent without overtaking is the next that was hashed.
LEMMA LinkSend ==
  ASSUME ChainInv, NextLinked, NEW r \in Requests, Send(r)
  PROVE  NextLinked'
<1> DEFINE n == Len(sent)
           L == Len(computed)
<1>1. /\ pc[r] = "sending" /\ sent' = Append(sent, r) /\ queue' = Append(queue, r)
      /\ overtaken' = overtaken \cup (HashedBefore(r) \ In(sent))
      /\ UNCHANGED <<rows, anchors, prev, computed, phase, tail, hand, dropped>>
  BY DEF Send, stored
<1>2. TypeOK /\ PipelineInv /\ queue \in Seq(Requests)
  BY DEF ChainInv, GapInv, PipelineInv, TypeOK
<1>3. /\ n \in Nat /\ L \in Nat /\ Len(sent') = n + 1 /\ sent'[n + 1] = r
      /\ \A i \in 1..n : sent'[i] = sent[i] /\ sent[i] \in In(sent)
  BY <1>1, <1>2, ChainType
<1>4. TableEnd' = TableEnd /\ Handled' = Handled
  <2>1. Len(queue') = Len(queue) + 1
    BY <1>1, <1>2
  <2> QED BY <1>1, <1>2, <1>3, <2>1, HandledType DEF TableEnd, Handled
<1> HIDE DEF n, L
<1> SUFFICES ASSUME Undisturbed', phase # "down"
             PROVE  n + 1 <= L /\ \A i \in 1..(n + 1) : sent'[i] = computed[i]
  <2>1. Undisturbed' => Undisturbed
    BY <1>1 DEF Undisturbed
  <2> QED BY <1>1, <1>3, <1>4, <2>1 DEF NextLinked, L
<1>5. Undisturbed /\ HashedBefore(r) \subseteq In(sent)
  BY <1>1 DEF Undisturbed
<1>6. n <= L /\ \A i \in 1..n : sent[i] = computed[i]
  BY <1>5 DEF NextLinked, n, L
<1>7. PICK p \in 1..L : computed[p] = r
  <2>1. r \in In(computed)
    BY <1>1 DEF ChainInv, HashOrder
  <2> QED BY <1>2, <2>1, ChainType, InPlaces DEF L
<1>8. ~(p <= n)
  <2>1. r \notin In(sent)
    BY <1>1, <1>2 DEF PipelineInv, UnsentIsNowhere
  <2>2. p <= n => p \in 1..n
    BY <1>3, <1>7
  <2> QED BY <1>3, <1>6, <1>7, <2>1, <2>2
<1>9. ~(p > n + 1)
  <2> SUFFICES ASSUME p > n + 1 PROVE FALSE
    OBVIOUS
  <2>1. n + 1 \in 1..L /\ DOMAIN computed = 1..L
    BY <1>2, <1>3, <1>7, ChainType DEF L
  <2>2. computed[n + 1] \in HashedBefore(r)
    BY <1>7, <2>1 DEF HashedBefore
  <2>3. PICK i \in 1..n : sent[i] = computed[n + 1]
    BY <1>2, <1>5, <2>2, ChainType, InPlaces DEF n
  <2>4. i \in 1..L /\ i < n + 1 /\ computed[i] = computed[n + 1]
    BY <1>3, <1>6, <2>1, <2>3
  <2>5. Len(prev[computed[i]]) < Len(prev[computed[n + 1]])
    BY <2>1, <2>4 DEF ChainInv, HashOrder, L
  <2>6. Len(prev[computed[i]]) \in Nat
    BY <1>2, <2>4, ChainType DEF L
  <2> QED BY <2>4, <2>5, <2>6
<1>10. p = n + 1
  BY <1>3, <1>7, <1>8, <1>9
<1>11. \A i \in 1..(n + 1) : i \in 1..n \/ i = n + 1
  BY <1>3
<1> QED BY <1>3, <1>6, <1>7, <1>10, <1>11

\* The newest row is the one with the largest id.
LEMMA NewestRowIs ==
  ASSUME NEW T \in SUBSET Row, NEW row \in T, \A other \in T : other.id <= row.id,
         \A p, q \in T : p.id = q.id => p = q
  PROVE  NewestRow(T) = row
<1> DEFINE newest == NewestRow(T)
<1>1. newest \in T /\ \A other \in T : other.id <= newest.id
  BY DEF NewestRow
<1>2. newest.id \in Nat /\ row.id \in Nat /\ newest.id <= row.id /\ row.id <= newest.id
  BY <1>1 DEF Row
<1>3. newest.id = row.id
  BY <1>2
<1> QED BY <1>1, <1>3

\* The row in hand becomes the end of the table, and the one hashed after it,
\* if there is one, is chained to it.
LEMMA LinkInsert ==
  ASSUME ChainInv, NextLinked, InsertOk
  PROVE  NextLinked'
<1>1. PICK r \in Requests : hand = <<r>>
  BY DEF InsertOk, ChainInv, GapInv, PipelineInv, TypeOK
<1> DEFINE new == RowOf(r, lastRowId + 1)
           L == Len(computed)
           H == Handled
<1>2. /\ rows' = rows \cup {new} /\ hand' = <<>> /\ lastRowId' = lastRowId + 1
      /\ UNCHANGED <<anchors, queue, tail, prev, phase, computed, sent, overtaken, dropped>>
  BY <1>1 DEF InsertOk, Finish, history
<1>3. new.id = lastRowId + 1 /\ new.hash = Digest(prev[r], r)
  BY DEF RowOf
<1> HIDE DEF new
<1>4. PipelineInv /\ TypeOK'
  BY TypeNext DEF ChainInv, GapInv, PipelineInv, Next, Writer
<1>5. rows' \in SUBSET Row /\ new \in rows' /\ \A row \in rows' : row.id <= new.id
  BY <1>2, <1>3, <1>4 DEF TypeOK
<1>6. NewestRow(rows') = new
  BY <1>4, <1>5, NewestRowIs DEF TypeOK
<1>7. TableEnd' = Digest(prev[r], r)
  BY <1>3, <1>5, <1>6 DEF TableEnd, LastEgressRowHash
<1>8. /\ H \in Nat /\ H + 1 \in 1..Len(sent) /\ sent[H + 1] = r /\ phase # "down"
  <2>1. DOMAIN sent = 1..Len(sent)
    BY <1>4 DEF PipelineInv, TypeOK
  <2> QED BY <1>1, <1>4, <2>1, HandIsNext
<1>9. Handled' = H + 1
  <2>1. Len(hand) = 1 /\ Len(hand') = 0
    BY <1>1, <1>2
  <2> QED BY <1>2, <1>4, <2>1, HandledType DEF Handled
<1>10. L \in Nat
  BY <1>4, ChainType DEF PipelineInv
<1> HIDE DEF L, H
<1> SUFFICES ASSUME Undisturbed
             PROVE  /\ Len(sent) <= L /\ \A i \in 1..Len(sent) : sent[i] = computed[i]
                    /\ H + 1 < L => prev[computed[(H + 1) + 1]] = Digest(prev[r], r)
                    /\ H + 1 = L => tail = Digest(prev[r], r)
  <2>1. Undisturbed' => Undisturbed
    BY <1>2 DEF Undisturbed
  <2> QED BY <1>2, <1>7, <1>8, <1>9, <2>1 DEF NextLinked, L
<1>11. Len(sent) <= L /\ \A i \in 1..Len(sent) : sent[i] = computed[i]
  BY <1>8 DEF NextLinked, L
<1>12. computed[H + 1] = r
  BY <1>8, <1>11
<1>13. ASSUME H + 1 < L PROVE prev[computed[(H + 1) + 1]] = Digest(prev[r], r)
  <2>1. (H + 1) + 1 \in 1..L /\ (H + 1) + 1 # 1 /\ ((H + 1) + 1) - 1 = H + 1
    BY <1>8, <1>10, <1>13
  <2>2. prev[computed[(H + 1) + 1]] = Digest(prev[computed[H + 1]], computed[H + 1])
    BY <2>1 DEF ChainInv, GapInv, LinkedInOrder, L
  <2> QED BY <1>12, <2>2
<1>14. ASSUME H + 1 = L PROVE tail = Digest(prev[r], r)
  <2>1. computed # <<>>
    BY <1>8, <1>14 DEF L
  <2>2. tail = Digest(prev[computed[L]], computed[L])
    BY <1>8, <2>1 DEF ChainInv, GapInv, LinkedInOrder, L
  <2> QED BY <1>12, <1>14, <2>2
<1> QED BY <1>11, <1>13, <1>14

\* A start takes the chain up at the end of the table.
LEMMA LinkBoot ==
  ASSUME ChainInv, NEW cutoff \in 0..clock, Boot(cutoff)
  PROVE  NextLinked'
<1>1. /\ phase = "down" /\ tail' = TableEnd' /\ UNCHANGED <<hand, queue>>
      /\ computed' = <<>> /\ sent' = <<>>
  BY DEF Boot, TableEnd, writer
<1>2. queue = <<>> /\ hand = <<>>
  BY <1>1, NothingOnTheWay DEF ChainInv, GapInv, PipelineInv
<1>3. queue' = <<>> /\ hand' = <<>>
  BY <1>1, <1>2
<1>4. Len(computed') = 0 /\ Len(sent') = 0 /\ Len(queue') = 0 /\ Len(hand') = 0
  BY <1>1, <1>3
<1>5. Handled' = 0
  BY <1>4 DEF Handled
<1> QED BY <1>1, <1>4, <1>5 DEF NextLinked

TrailInv == ChainInv /\ NextLinked

\* TrailInv is inductive.
LEMMA TrailStarts == Init => TrailInv
BY ChainStarts DEF TrailInv, NextLinked, Init

LEMMA TrailNext == TrailInv /\ [Next]_vars => TrailInv'
<1> SUFFICES ASSUME TrailInv, [Next]_vars PROVE TrailInv'
  OBVIOUS
<1> USE DEF stored, writer, history
<1>1. ChainInv' /\ PipelineInv
  BY ChainNext DEF TrailInv, ChainInv, GapInv
<1>2. NextLinked'
  <2>1. ASSUME NEW r \in Requests,
               Begin(r) \/ CheckDone(r) \/ RefuseClosed(r) \/ Cancel(r) \/ ReceiveAck(r)
        PROVE  NextLinked'
    <3>1. /\ UNCHANGED <<rows, anchors, prev, computed, sent, tail, overtaken, dropped>>
          /\ UNCHANGED <<hand, queue, phase>>
      BY <2>1 DEF Begin, CheckDone, RefuseClosed, Cancel, ReceiveAck
    <3>2. Handled' = Handled
      BY <3>1 DEF Handled
    <3> QED BY <3>1, <3>2, LinkQuiet DEF TrailInv
  <2>2. CASE Receive
    <3>1. /\ UNCHANGED <<rows, anchors, prev, computed, sent, tail, overtaken, dropped, phase>>
          /\ hand = <<>> /\ queue # <<>> /\ hand' = <<Head(queue)>> /\ queue' = Tail(queue)
      BY <2>2 DEF Receive
    <3>2. Len(hand) = 0 /\ Len(hand') = 1 /\ Len(queue') = Len(queue) - 1
      BY <1>1, <3>1 DEF PipelineInv, TypeOK
    <3>3. Handled' = Handled
      BY <1>1, <3>1, <3>2, HandledType DEF Handled
    <3> QED BY <3>1, <3>3, LinkQuiet DEF TrailInv
  <2>3. CASE GiveUp
    BY <2>3 DEF GiveUp, NextLinked, Undisturbed
  <2>4. CASE InsertRetry \/ WriterReturns \/ CloseWriter \/ UNCHANGED vars
    <3>1. /\ UNCHANGED <<rows, anchors, prev, computed, sent, tail, overtaken, dropped>>
          /\ UNCHANGED <<hand, queue>> /\ (phase' # "down" => phase # "down")
      BY <2>4 DEF InsertRetry, WriterReturns, CloseWriter, vars
    <3>2. Handled' = Handled
      BY <3>1 DEF Handled
    <3> QED BY <3>1, <3>2, LinkQuiet DEF TrailInv
  <2>5. CASE Exit \/ Crash \/ ReturnEarly
    <3>1. phase' = "down"
      BY <2>5 DEF Exit, Crash, ReturnEarly, Die
    <3> QED BY <3>1 DEF NextLinked
  <2> QED BY <2>1, <2>2, <2>3, <2>4, <2>5, LinkCompute, LinkSend, LinkInsert, LinkBoot
          DEF Next, Handler, Writer, Process, Terminated, TrailInv
<1> QED BY <1>1, <1>2 DEF TrailInv

\* The row in hand is chained to the end of the table.
LEMMA HandLinked ==
  ASSUME TrailInv, Undisturbed, NEW r \in Requests, hand = <<r>>
  PROVE  prev[r] = TableEnd
<1>1. PipelineInv /\ DOMAIN sent = 1..Len(sent)
  BY DEF TrailInv, ChainInv, GapInv, PipelineInv, TypeOK
<1>2. /\ phase # "down" /\ Handled \in Nat /\ Handled + 1 \in 1..Len(sent)
      /\ sent[Handled + 1] = r
  BY <1>1, HandIsNext
<1>3. Len(computed) \in Nat /\ Len(sent) \in Nat
  BY <1>1, ChainType DEF PipelineInv
<1>4. /\ Len(sent) <= Len(computed) /\ \A i \in 1..Len(sent) : sent[i] = computed[i]
      /\ Handled < Len(computed) => prev[computed[Handled + 1]] = TableEnd
  BY <1>2 DEF TrailInv, NextLinked
<1>5. Handled < Len(computed)
  BY <1>2, <1>3, <1>4
<1> QED BY <1>2, <1>4, <1>5

-----------------------------------------------------------------------------
(* The tables hold the trail AuditLog promises *)

\* A part of a table is a table.
LEMMA PartIsTable ==
  ASSUME NEW T, Table(T), NEW P \in SUBSET T
  PROVE  Table(P) /\ Cardinality(P) \in Nat
<1>1. IsFiniteSet(P) /\ Cardinality(P) \in Nat
  BY FS_Subset, FS_CardinalityType DEF Table
<1> QED BY <1>1 DEF Table

\* A table whose ids all come before those of the rest is listed before it.
LEMMA RowsByIdSplit ==
  ASSUME NEW T, Table(T), NEW P \in SUBSET T, \A row \in P, other \in T \ P : row.id < other.id
  PROVE  /\ Cardinality(P) \in Nat /\ Cardinality(T \ P) \in Nat
         /\ Cardinality(T) = Cardinality(P) + Cardinality(T \ P)
         /\ \A n \in 1..Cardinality(T) :
              RowsById(T)[n] = IF n <= Cardinality(P) THEN RowsById(P)[n]
                               ELSE RowsById(T \ P)[n - Cardinality(P)]
<1> DEFINE M == Cardinality(P)
           L == Cardinality(T \ P)
           first == RowsById(P)
           rest == RowsById(T \ P)
           list == [n \in 1..Cardinality(T) |-> IF n <= M THEN first[n] ELSE rest[n - M]]
<1>1. Table(P) /\ Table(T \ P) /\ M \in Nat /\ L \in Nat
  BY PartIsTable
<1>2. Cardinality(T) = M + L
  <2> DEFINE Q == T \ P
  <2>1. T = P \cup Q /\ P \cap Q = {} /\ L = Cardinality(Q)
    OBVIOUS
  <2> HIDE DEF Q, L, M
  <2>2. Cardinality(P \cup Q) = M + L - Cardinality(P \cap Q)
    BY <1>1, <2>1, FS_Union DEF Table, Q, M
  <2>3. Cardinality({}) = 0
    BY FS_EmptySet
  <2>4. Cardinality(T) = Cardinality(P \cup Q) /\ Cardinality(P \cap Q) = 0
    BY <2>1, <2>3, Zenon
  <2> QED BY <1>1, <2>2, <2>4
<1>3. /\ first \in [1..M -> P]
      /\ \A row \in P : \E n \in 1..M : first[n] = row
      /\ \A m, n \in 1..M : m < n => first[m].id < first[n].id
  BY <1>1, RowsByIdLists
<1>4. /\ rest \in [1..L -> T \ P]
      /\ \A row \in T \ P : \E n \in 1..L : rest[n] = row
      /\ \A m, n \in 1..L : m < n => rest[m].id < rest[n].id
  BY <1>1, RowsByIdLists
<1> HIDE DEF M, L, first, rest
<1>5. \A n \in 1..(M + L) : n <= M => n \in 1..M /\ list[n] = first[n] /\ list[n] \in P
  BY <1>1, <1>2, <1>3
<1>6. \A n \in 1..(M + L) : ~(n <= M) =>
         n - M \in 1..L /\ list[n] = rest[n - M] /\ list[n] \in T \ P
  <2> SUFFICES ASSUME NEW n \in 1..(M + L), ~(n <= M)
               PROVE  n - M \in 1..L /\ list[n] = rest[n - M] /\ list[n] \in T \ P
    OBVIOUS
  <2>1. n - M \in 1..L
    BY <1>1
  <2> QED BY <1>1, <1>2, <1>4, <2>1
<1>7. list \in [1..Cardinality(T) -> T]
  <2>1. \A n \in 1..(M + L) : list[n] \in T
    BY <1>5, <1>6
  <2> QED BY <1>2, <2>1
<1>8. ASSUME NEW row \in T PROVE \E n \in 1..Cardinality(T) : list[n] = row
  <2>1. CASE row \in P
    <3>1. PICK n \in 1..M : first[n] = row
      BY <1>3, <2>1
    <3>2. n \in 1..(M + L) /\ n <= M
      BY <1>1
    <3> QED BY <1>2, <1>5, <3>1, <3>2
  <2>2. CASE row \notin P
    <3>1. PICK n \in 1..L : rest[n] = row
      BY <1>4, <2>2
    <3>2. n + M \in 1..(M + L) /\ ~(n + M <= M) /\ (n + M) - M = n
      BY <1>1
    <3> QED BY <1>2, <1>6, <3>1, <3>2
  <2> QED BY <2>1, <2>2
<1>9. ASSUME NEW m \in 1..Cardinality(T), NEW n \in 1..Cardinality(T), m < n
      PROVE  list[m].id < list[n].id
  <2>1. m \in 1..(M + L) /\ n \in 1..(M + L)
    BY <1>2
  <2>2. CASE n <= M
    <3>1. m <= M
      BY <1>1, <1>9, <2>2
    <3> QED BY <1>3, <1>5, <1>9, <2>1, <2>2, <3>1
  <2>3. CASE m <= M /\ ~(n <= M)
    BY <1>5, <1>6, <2>1, <2>3
  <2>4. CASE ~(m <= M)
    <3>1. ~(n <= M) /\ m - M < n - M
      BY <1>1, <1>9, <2>4
    <3>2. /\ m - M \in 1..L /\ list[m] = rest[m - M]
          /\ n - M \in 1..L /\ list[n] = rest[n - M]
      BY <1>6, <2>1, <2>4, <3>1
    <3> QED BY <1>4, <3>1, <3>2
  <2> QED BY <2>2, <2>3, <2>4
<1> HIDE DEF list
<1>10. RowsById(T) = list
  BY <1>7, <1>8, <1>9, RowsByIdIs
<1> QED BY <1>1, <1>2, <1>10 DEF list, M, L, first, rest

\* The newest row is the last by id, the row of a table of one the first.
LEMMA NewestIsLast ==
  ASSUME NEW T, Table(T), T # {}
  PROVE  /\ Cardinality(T) \in 1..Cardinality(T)
         /\ NewestRow(T) = RowsById(T)[Cardinality(T)]
<1> DEFINE N == Cardinality(T)
           ordered == RowsById(T)
<1>1. /\ N \in Nat /\ ordered \in [1..N -> T]
      /\ \A row \in T : \E n \in 1..N : ordered[n] = row
      /\ \A m, n \in 1..N : m < n => ordered[m].id < ordered[n].id
  BY RowsByIdLists
<1> HIDE DEF N, ordered
<1>2. N \in 1..N
  <2>1. PICK n : n \in 1..N
    BY <1>1
  <2> QED BY <1>1, <2>1
<1>3. \A row \in T : row.id \in Nat
  BY DEF Table, Row
<1>4. ASSUME NEW other \in T PROVE other.id <= ordered[N].id
  <2>1. PICK n \in 1..N : ordered[n] = other
    BY <1>1
  <2>2. ordered[N] \in T
    BY <1>1, <1>2
  <2>3. CASE n = N
    BY <1>3, <2>1, <2>2, <2>3
  <2>4. CASE n # N
    <3>1. n < N
      BY <1>1, <2>4
    <3>2. other.id < ordered[N].id
      BY <1>1, <1>2, <2>1, <3>1
    <3> QED BY <1>3, <2>2, <3>2
  <2> QED BY <2>3, <2>4
<1>5. NewestRow(T) = ordered[N]
  <2>1. ordered[N] \in T /\ T \in SUBSET Row /\ \A p, q \in T : p.id = q.id => p = q
    BY <1>1, <1>2 DEF Table
  <2> QED BY <1>4, <2>1, NewestRowIs
<1> QED BY <1>2, <1>5 DEF N, ordered

LEMMA OneRow ==
  ASSUME NEW row \in Row
  PROVE  Table({row}) /\ Cardinality({row}) = 1 /\ RowsById({row})[1] = row
<1>1. Table({row}) /\ Cardinality({row}) = 1
  BY FS_Singleton DEF Table
<1>2. RowsById({row}) \in [1..1 -> {row}]
  BY <1>1, RowsByIdLists
<1> QED BY <1>1, <1>2

\* What the trail keeps of a row.
EntryOf(row) == [prev |-> row.prev, hash |-> row.hash]

\* The entries of a table are a sequence, one entry for each row.
LEMMA EntriesOf ==
  ASSUME NEW T, Table(T)
  PROVE  LET list == [n \in 1..Cardinality(T) |-> EntryOf(RowsById(T)[n])]
         IN  /\ Cardinality(T) \in Nat
             /\ list \in Seq([prev : Hash, hash : Hash]) /\ Len(list) = Cardinality(T)
             /\ \A n \in 1..Cardinality(T) :
                  /\ RowsById(T)[n] \in T
                  /\ list[n] = EntryOf(RowsById(T)[n])
<1> DEFINE N == Cardinality(T)
           S == [prev : Hash, hash : Hash]
           list == [n \in 1..Cardinality(T) |-> EntryOf(RowsById(T)[n])]
<1>1. N \in Nat /\ RowsById(T) \in [1..N -> T]
  BY RowsByIdLists
<1>2. \A n \in 1..N :
        /\ RowsById(T)[n] \in T
        /\ list[n] = EntryOf(RowsById(T)[n])
        /\ list[n] \in S
  <2>1. \A row \in T : row.prev \in Hash /\ row.hash \in Hash
    BY DEF Table, Row
  <2> QED BY <1>1, <2>1 DEF EntryOf
<1>3. list = [n \in 1..N |-> list[n]]
  OBVIOUS
<1> HIDE DEF N, S, list
<1>4. list \in Seq(S) /\ Len(list) = N
  BY <1>1, <1>2, <1>3
<1> QED BY <1>1, <1>2, <1>4 DEF N, S, list

LEMMA EntriesAre ==
  ASSUME TypeOK
  PROVE  /\ Table(rows) /\ Cardinality(rows) \in Nat
         /\ Entries \in Seq([prev : Hash, hash : Hash]) /\ Len(Entries) = Cardinality(rows)
         /\ \A n \in 1..Cardinality(rows) :
              Entries[n] = EntryOf(RowsById(rows)[n])
<1>1. Table(rows)
  BY DEF TypeOK, Table
<1> QED BY <1>1, EntriesOf DEF Entries, EntryOf

\* The tip of the trail is the hash a starting process reads.
LEMMA TipIs ==
  ASSUME TypeOK
  PROVE  Trail!Tip = LastEgressRowHash(rows, anchors)
<1> DEFINE N == Cardinality(rows)
<1>1. /\ Table(rows) /\ N \in Nat /\ Len(Entries) = N
      /\ Entries \in Seq([prev : Hash, hash : Hash])
      /\ \A n \in 1..N : Entries[n] = EntryOf(RowsById(rows)[n])
  BY EntriesAre
<1>2. CASE rows = {}
  <2>1. Entries = <<>>
    BY <1>1, <1>2, FS_EmptySet
  <2> QED BY <1>2, <2>1 DEF Trail!Tip, LastEgressRowHash, Base
<1>3. CASE rows # {}
  <2>1. N \in 1..N /\ NewestRow(rows) = RowsById(rows)[N]
    BY <1>1, <1>3, NewestIsLast
  <2>2. Entries # <<>> /\ Entries[Len(Entries)].hash = NewestRow(rows).hash
    BY <1>1, <2>1 DEF EntryOf
  <2> QED BY <1>3, <2>2 DEF Trail!Tip, LastEgressRowHash
<1> QED BY <1>2, <1>3

\* A step that leaves the tables leaves the trail.
LEMMA TrailQuiet ==
  ASSUME UNCHANGED <<rows, anchors>>
  PROVE  UNCHANGED Trail!auditVars
BY DEF Trail!auditVars, Entries, Base

\* A stored row is one more entry, chained to the tip.
LEMMA TrailInsert ==
  ASSUME TrailInv, Undisturbed, TypeOK', InsertOk
  PROVE  \E r \in Requests : Trail!AppendEntry(r)
<1>1. PICK r \in Requests : hand = <<r>>
  BY DEF InsertOk, TrailInv, ChainInv, GapInv, PipelineInv, TypeOK
<1> DEFINE new == RowOf(r, lastRowId + 1)
           N == Cardinality(rows)
<1>2. rows' = rows \cup {new} /\ lastRowId' = lastRowId + 1 /\ anchors' = anchors
  BY <1>1 DEF InsertOk
<1>3. TypeOK
  BY DEF TrailInv, ChainInv, GapInv, PipelineInv
<1>4. new.id = lastRowId + 1 /\ new.prev = prev[r] /\ new.hash = Digest(prev[r], r)
  BY DEF RowOf
<1>5. prev[r] = Trail!Tip
  BY <1>1, <1>3, TipIs, HandLinked DEF TableEnd
<1> HIDE DEF new
<1>6. /\ Table(rows) /\ N \in Nat /\ Len(Entries) = N
      /\ Entries \in Seq([prev : Hash, hash : Hash])
      /\ \A n \in 1..N : Entries[n] = EntryOf(RowsById(rows)[n])
  BY <1>3, EntriesAre
<1>7. new \in Row /\ \A row \in rows : row.id < new.id
  <2>1. new \in Row
    BY <1>2 DEF TypeOK
  <2>2. lastRowId \in Nat /\ \A row \in rows : row.id \in Nat /\ row.id <= lastRowId
    BY <1>3 DEF TypeOK, Row
  <2> QED BY <1>4, <2>1, <2>2
<1>8. /\ Table(rows') /\ Entries' \in Seq([prev : Hash, hash : Hash])
      /\ Len(Entries') = Cardinality(rows')
      /\ \A n \in 1..Cardinality(rows') :
           Entries'[n] = EntryOf(RowsById(rows')[n])
  <2>1. Table(rows')
    BY DEF TypeOK, Table
  <2>2. /\ Entries' \in Seq([prev : Hash, hash : Hash]) /\ Len(Entries') = Cardinality(rows')
        /\ \A n \in 1..Cardinality(rows') :
             Entries'[n] = EntryOf(RowsById(rows')[n])
    BY <2>1, EntriesOf DEF Entries, EntryOf
  <2> QED BY <2>1, <2>2
<1>9. /\ Cardinality(rows') = N + 1 /\ RowsById(rows')[N + 1] = new
      /\ \A n \in 1..N : RowsById(rows')[n] = RowsById(rows)[n]
  <2>1. rows \in SUBSET rows' /\ rows' \ rows = {new}
    <3>1. new \notin rows
      <4>1. \A row \in rows : row.id \in Nat
        BY <1>3 DEF TypeOK, Row
      <4> QED BY <1>7, <4>1
    <3> QED BY <1>2, <3>1
  <2>2. /\ Cardinality(rows') = N + Cardinality(rows' \ rows)
        /\ \A n \in 1..Cardinality(rows') :
             RowsById(rows')[n] = IF n <= N THEN RowsById(rows)[n]
                                  ELSE RowsById(rows' \ rows)[n - N]
    BY <1>7, <1>8, <2>1, RowsByIdSplit
  <2>3. Cardinality(rows' \ rows) = 1 /\ RowsById(rows' \ rows)[1] = new
    BY <1>7, <2>1, OneRow
  <2>4. /\ (N + 1) - N = 1 /\ N + 1 \in 1..(N + 1) /\ ~(N + 1 <= N)
        /\ \A n \in 1..N : n \in 1..(N + 1) /\ n <= N
    BY <1>6
  <2>5. Cardinality(rows') = N + 1
    BY <2>2, <2>3
  <2> HIDE DEF N
  <2> QED BY <2>2, <2>3, <2>4, <2>5
<1> HIDE DEF N
<1>10. Entries' = Append(Entries, [prev |-> Trail!Tip, hash |-> Digest(Trail!Tip, r)])
  <2> DEFINE entry == [prev |-> Trail!Tip, hash |-> Digest(Trail!Tip, r)]
             longer == Append(Entries, entry)
  <2>1. Entries'[N + 1] = entry
    <3>1. N + 1 \in 1..(N + 1)
      BY <1>6
    <3>2. Entries'[N + 1] = EntryOf(new)
      BY <1>8, <1>9, <3>1
    <3> QED BY <1>4, <1>5, <3>2 DEF EntryOf
  <2>2. \A n \in 1..N : Entries'[n] = Entries[n]
    BY <1>6, <1>8, <1>9
  <2>3. entry \in [prev : Hash, hash : Hash]
    BY <1>6, <1>8, <1>9, <2>1
  <2> HIDE DEF entry
  <2>4. /\ longer \in Seq([prev : Hash, hash : Hash]) /\ Len(longer) = N + 1
        /\ longer[N + 1] = entry /\ \A n \in 1..N : longer[n] = Entries[n]
    BY <1>6, <2>3
  <2>5. \A n \in 1..(N + 1) : Entries'[n] = longer[n]
    BY <1>6, <2>1, <2>2, <2>4
  <2> HIDE DEF longer
  <2>6. Entries' = longer
    BY <1>6, <1>8, <1>9, <2>4, <2>5
  <2> QED BY <2>6 DEF longer, entry
<1>11. Base' = Base
  BY <1>2 DEF Base
<1> QED BY <1>10, <1>11 DEF Trail!AppendEntry

\* A sweep that finds rows removes the oldest entries.
LEMMA TrailSweep ==
  ASSUME TrailInv, TypeOK', NEW cutoff \in 0..clock, Boot(cutoff),
         OlderThan(rows, cutoff) # {}, SweepsOldest
  PROVE  \E n \in 1..Len(Entries) : Trail!PurgePrefix(n)
<1> DEFINE old == OlderThan(rows, cutoff)
           N == Cardinality(rows)
           M == Cardinality(old)
<1>1. TypeOK
  BY DEF TrailInv, ChainInv, GapInv, PipelineInv
<1>2. rows' = rows \ old /\ anchors' = Append(anchors, PurgeAnchor(rows, cutoff))
  BY DEF Boot, PurgedRows, PurgedAnchors
<1>3. /\ Table(rows) /\ N \in Nat /\ Len(Entries) = N
      /\ Entries \in Seq([prev : Hash, hash : Hash])
      /\ \A n \in 1..N : Entries[n] = EntryOf(RowsById(rows)[n])
  BY <1>1, EntriesAre
<1>4. /\ Entries' \in Seq([prev : Hash, hash : Hash]) /\ Len(Entries') = Cardinality(rows')
      /\ \A n \in 1..Cardinality(rows') :
           Entries'[n] = EntryOf(RowsById(rows')[n])
  <2>1. Table(rows')
    BY DEF TypeOK, Table
  <2> QED BY <2>1, EntriesOf DEF Entries, EntryOf
<1>5. old \in SUBSET rows /\ \A row \in old, other \in rows \ old : row.id < other.id
  <2>1. old \in SUBSET rows
    BY DEF OlderThan
  <2>2. rows \ rows' = old /\ rows \cap rows' = rows \ old
    BY <1>2, <2>1
  <2> QED BY <2>1, <2>2 DEF SweepsOldest
<1>6. /\ M \in Nat /\ Cardinality(rows') \in Nat /\ N = M + Cardinality(rows')
      /\ \A n \in 1..N : RowsById(rows)[n] = IF n <= M THEN RowsById(old)[n]
                                             ELSE RowsById(rows')[n - M]
  BY <1>2, <1>3, <1>5, RowsByIdSplit
<1>7. M \in 1..M /\ NewestRow(old) = RowsById(old)[M]
  <2>1. Table(old)
    BY <1>3, <1>5, PartIsTable
  <2> QED BY <2>1, NewestIsLast
<1> DEFINE R == Cardinality(rows')
<1> HIDE DEF N, M, R
<1>8. M \in 1..N /\ RowsById(rows)[M] = NewestRow(old)
  BY <1>3, <1>6, <1>7 DEF R
<1>9. Base' = Entries[M].hash
  <2>1. PurgeAnchor(rows, cutoff).chainHash = NewestRow(old).hash
    BY DEF PurgeAnchor
  <2>2. anchors' # <<>> /\ anchors'[Len(anchors')] = PurgeAnchor(rows, cutoff)
    <3> DEFINE anchor == PurgeAnchor(rows, cutoff)
    <3>1. anchors \in Seq(Anchor) /\ anchors' = Append(anchors, anchor)
      BY <1>1, <1>2 DEF TypeOK
    <3> HIDE DEF anchor
    <3>2. Len(anchors') = Len(anchors) + 1 /\ anchors'[Len(anchors) + 1] = anchor
          /\ Len(anchors) \in Nat
      BY <3>1
    <3> QED BY <3>2 DEF anchor
  <2>3. Entries[M].hash = NewestRow(old).hash
    BY <1>3, <1>8 DEF EntryOf
  <2> QED BY <2>1, <2>2, <2>3 DEF Base
<1>10. Entries' = SubSeq(Entries, M + 1, Len(Entries))
  <2> DEFINE kept == SubSeq(Entries, M + 1, N)
  <2>1. /\ kept \in Seq([prev : Hash, hash : Hash]) /\ Len(kept) = R
        /\ \A n \in 1..R : kept[n] = Entries[n + M]
    <3>1. N = M + R /\ R \in Nat /\ M \in Nat
      BY <1>6 DEF R
    <3> DEFINE Entry == [prev : Hash, hash : Hash]
    <3>0. Entries \in Seq(Entry) /\ Len(Entries) = N
      BY <1>3
    <3> HIDE DEF Entry
    <3>2. kept \in Seq(Entry) /\ Len(kept) = N - M
      BY <3>0, <3>1
    <3>3. ASSUME NEW n \in 1..R PROVE kept[n] = Entries[n + M]
      <4>1. n \in 1..Len(kept) /\ (M + 1) + n - 1 = n + M
        BY <3>1, <3>2
      <4> QED BY <3>0, <3>1, <4>1
    <3> QED BY <3>1, <3>2, <3>3 DEF Entry
  <2>2. ASSUME NEW n \in 1..R PROVE Entries'[n] = Entries[n + M]
    <3>1. n + M \in 1..N /\ ~(n + M <= M) /\ (n + M) - M = n
      BY <1>6 DEF R
    <3>2. RowsById(rows)[n + M] = RowsById(rows')[n]
      BY <1>6, <3>1
    <3> QED BY <1>3, <1>4, <3>1, <3>2 DEF R
  <2> HIDE DEF kept
  <2>3. Entries' = kept
    <3>1. /\ Entries' \in Seq([prev : Hash, hash : Hash]) /\ Len(Entries') = R
          /\ R \in Nat
      BY <1>4, <1>6 DEF R
    <3>2. \A n \in 1..R : Entries'[n] = kept[n]
      BY <2>1, <2>2
    <3> HIDE DEF R
    <3> QED BY <2>1, <3>1, <3>2
  <2> QED BY <1>3, <2>3 DEF kept
<1> QED BY <1>3, <1>8, <1>9, <1>10 DEF Trail!PurgePrefix

\* While no row is overtaken or given up on, every step that sweeps the oldest
\* rows if any is a step of the trail or leaves it alone.
LEMMA TrailStep ==
  ASSUME TrailInv, TypeOK', [Next]_vars, overtaken' = {}, dropped' = {}, SweepsOldest
  PROVE  [Trail!AuditNext]_Trail!auditVars
<1> USE DEF stored, writer, history
<1>2. CASE InsertOk
  <2>1. Undisturbed
    BY <1>2 DEF InsertOk, Undisturbed
  <2> QED BY <1>2, <2>1, TrailInsert DEF Trail!AuditNext
<1>3. ASSUME NEW cutoff \in 0..clock, Boot(cutoff)
      PROVE  [Trail!AuditNext]_Trail!auditVars
  <2>1. CASE OlderThan(rows, cutoff) = {}
    <3>1. UNCHANGED <<rows, anchors>>
      BY <1>3, <2>1 DEF Boot, PurgedRows, PurgedAnchors
    <3> QED BY <3>1, TrailQuiet
  <2>2. CASE OlderThan(rows, cutoff) # {}
    BY <1>3, <2>2, TrailSweep DEF Trail!AuditNext
  <2> QED BY <2>1, <2>2
<1>4. ASSUME NEW r \in Requests, Handler(r) PROVE UNCHANGED <<rows, anchors>>
  BY <1>4 DEF Handler, Begin, ComputeRow, CheckDone, Send, RefuseClosed, Cancel, ReceiveAck
<1>5. CASE Receive \/ InsertRetry \/ GiveUp \/ WriterReturns \/ CloseWriter \/ UNCHANGED vars
  <2>1. UNCHANGED <<rows, anchors>>
    BY <1>5 DEF Receive, InsertRetry, GiveUp, WriterReturns, CloseWriter, vars
  <2> QED BY <2>1, TrailQuiet
<1>6. CASE Exit \/ Crash \/ ReturnEarly
  <2>1. UNCHANGED <<rows, anchors>>
    BY <1>6 DEF Exit, Crash, ReturnEarly, Die
  <2> QED BY <2>1, TrailQuiet
<1> QED BY <1>2, <1>3, <1>4, <1>5, <1>6, TrailQuiet DEF Next, Writer, Process, Terminated

\* While no row is overtaken or given up on and sweeps take the oldest rows, the
\* tables are an append-only hash-linked list that only a sweep shortens, at
\* its oldest end - whatever requests overlap and whatever crashes and restarts
\* come between (ComputeRow, LogWriter, PurgeEgress, NewHashChain).
THEOREM AuditLogImplemented == Spec => ImplementsAuditLog
<1>1. Init => Trail!AuditInit
  <2> SUFFICES ASSUME Init PROVE Trail!AuditInit
    OBVIOUS
  <2>1. TypeOK /\ rows = {} /\ anchors = <<>>
    BY TypeInit DEF Init
  <2>2. Entries = <<>>
    BY <2>1, EntriesAre, FS_EmptySet
  <2> QED BY <2>1, <2>2 DEF Trail!AuditInit, Base, NoHash
<1>2. TrailInv /\ TrailInv' /\ [Next]_vars =>
        [(overtaken' = {} /\ dropped' = {} /\ SweepsOldest) => Trail!AuditNext]_(Trail!auditVars)
  <2> SUFFICES ASSUME TrailInv, TrailInv', [Next]_vars,
                      overtaken' = {}, dropped' = {}, SweepsOldest
               PROVE  [Trail!AuditNext]_(Trail!auditVars)
    OBVIOUS
  <2>1. TypeOK'
    BY DEF TrailInv, ChainInv, GapInv, PipelineInv
  <2> QED BY <2>1, TrailStep
<1> QED BY <1>1, <1>2, TrailStarts, TrailNext, PTL DEF Spec, ImplementsAuditLog

-----------------------------------------------------------------------------
(* A log nobody touched verifies *)

\* Verify accepts rows that are linked one to the next and hang from nothing,
\* or from the only anchor, which names the first.
LEMMA VerifyAccepts ==
  ASSUME NEW T, Table(T), NEW A \in Seq(Anchor), A = <<>> \/ Len(A) = 1,
         \A n \in 1..Cardinality(T) :
           /\ RowsById(T)[n].hash = Digest(RowsById(T)[n].prev, RowsById(T)[n].req)
           /\ n # 1 => RowsById(T)[n].prev = RowsById(T)[n - 1].hash,
         T # {} => IF A = <<>> THEN RowsById(T)[1].prev = NoHash
                   ELSE /\ RowsById(T)[1].prev = A[1].chainHash
                        /\ A[1].nextRowId = RowsById(T)[1].id
  PROVE  Verify(T, A)
<1> DEFINE N == Cardinality(T)
           ordered == RowsById(T)
<1>1. PICK walk : /\ walk[0] = StartWalk
                  /\ \A m \in 1..N : walk[m] = VerifyRow(A, walk[m - 1], ordered[m])
                  /\ Verify(T, A) = walk[N].ok
  BY VerifyWalks
<1>2. N \in Nat /\ Len(A) \in Nat
  BY RowsByIdLists
<1> HIDE DEF N, ordered
<1>3. ASSUME NEW m \in 1..N, walk[m - 1].ok, walk[m - 1].anchor \in 1..(Len(A) + 1)
      PROVE  LET idx      == PastAnchors(A, walk[m - 1].anchor, ordered[m])
                 expected == IF idx > walk[m - 1].anchor THEN A[idx - 1].chainHash
                             ELSE walk[m - 1].expected
             IN  /\ walk[m].anchor = idx /\ walk[m].expected = ordered[m].hash
                 /\ ordered[m].prev = expected => walk[m].ok
                 /\ idx \in walk[m - 1].anchor..(Len(A) + 1)
                 /\ idx <= Len(A) => A[idx].nextRowId # ordered[m].id
  <2> DEFINE idx      == PastAnchors(A, walk[m - 1].anchor, ordered[m])
             expected == IF idx > walk[m - 1].anchor THEN A[idx - 1].chainHash
                         ELSE walk[m - 1].expected
             good     == /\ ordered[m].prev = expected
                         /\ ordered[m].hash = Digest(ordered[m].prev, ordered[m].req)
  <2>1. walk[m] = [anchor |-> idx, expected |-> ordered[m].hash, ok |-> good]
    BY <1>1, <1>3 DEF VerifyRow
  <2>2. ordered[m].hash = Digest(ordered[m].prev, ordered[m].req)
    BY DEF N, ordered
  <2>3. /\ idx \in walk[m - 1].anchor..(Len(A) + 1)
        /\ idx <= Len(A) => A[idx].nextRowId # ordered[m].id
    <3> DEFINE from == walk[m - 1].anchor
    <3>1. from \in 1..(Len(A) + 1)
      BY <1>3
    <3> HIDE DEF from
    <3>2. /\ PastAnchors(A, from, ordered[m]) \in from..(Len(A) + 1)
          /\ PastAnchors(A, from, ordered[m]) <= Len(A) =>
               A[PastAnchors(A, from, ordered[m])].nextRowId # ordered[m].id
      BY <3>1, PastAnchorsIs
    <3> QED BY <3>2 DEF from
  <2> HIDE DEF idx
  <2>4. walk[m].anchor = idx /\ walk[m].expected = ordered[m].hash /\ walk[m].ok = good
    BY <2>1
  <2> QED BY <2>2, <2>3, <2>4 DEF idx
\* After the first row the walk is past the anchor, if there is one.
<1> DEFINE Fine(m) == /\ walk[m].ok
                      /\ m = 0 => walk[m].anchor = 1 /\ walk[m].expected = NoHash
                      /\ m # 0 => walk[m].anchor = Len(A) + 1 /\ walk[m].expected = ordered[m].hash
           bad == {m \in 0..N : ~Fine(m)}
<1>4. bad = {}
  <2> SUFFICES ASSUME bad # {} PROVE FALSE
    OBVIOUS
  <2>1. bad \in SUBSET Nat /\ bad # {}
    OBVIOUS
  <2>2. PICK m \in bad : \A k \in bad : m <= k
    BY <2>1, LeastNat
  <2>3. m \in 0..N /\ ~Fine(m)
    BY <2>2
  <2>4. m # 0
    BY <1>1, <2>3 DEF StartWalk
  <2>5. m \in 1..N /\ m - 1 \in 0..N /\ m - 1 < m
    BY <1>2, <2>3, <2>4
  <2>6. Fine(m - 1)
    BY <1>2, <2>2, <2>5
  <2> DEFINE from == walk[m - 1].anchor
             idx == PastAnchors(A, from, ordered[m])
  <2>7. from \in 1..(Len(A) + 1) /\ walk[m - 1].ok
    BY <1>2, <2>6
  <2>8. /\ walk[m].anchor = idx /\ walk[m].expected = ordered[m].hash
        /\ ordered[m].prev = (IF idx > from THEN A[idx - 1].chainHash ELSE walk[m - 1].expected)
             => walk[m].ok
        /\ idx \in from..(Len(A) + 1) /\ (idx <= Len(A) => A[idx].nextRowId # ordered[m].id)
    BY <1>3, <2>5, <2>7
  <2> HIDE DEF idx
  <2>9. CASE m # 1
    <3>1. from = Len(A) + 1 /\ walk[m - 1].expected = ordered[m - 1].hash
      BY <2>5, <2>6, <2>9
    <3>2. idx = from
      BY <1>2, <2>8, <3>1
    <3>3. ordered[m].prev = ordered[m - 1].hash
      BY <2>5, <2>9 DEF N, ordered
    <3> QED BY <1>2, <2>3, <2>4, <2>8, <3>1, <3>2, <3>3
  <2>10. CASE m = 1
    <3>1. from = 1 /\ walk[m - 1].expected = NoHash
      BY <2>6, <2>10
    <3>2. T # {}
      <4>1. T = {} => N = 0
        BY FS_EmptySet DEF N
      <4> QED BY <2>5, <4>1
    <3>3. CASE A = <<>>
      <4>1. idx = 1 /\ Len(A) = 0 /\ ordered[m].prev = NoHash
        BY <2>8, <2>10, <3>1, <3>2, <3>3 DEF ordered
      <4> QED BY <2>3, <2>4, <2>8, <3>1, <4>1
    <3>4. CASE A # <<>>
      <4>1. Len(A) = 1 /\ ordered[m].prev = A[1].chainHash /\ A[1].nextRowId = ordered[m].id
        <5>1. Len(A) = 1
          BY <3>4
        <5>2. ordered[1].prev = A[1].chainHash /\ A[1].nextRowId = ordered[1].id
          BY <3>2, <3>4 DEF ordered
        <5> QED BY <2>10, <5>1, <5>2
      <4>2. idx = 2
        BY <2>8, <3>1, <4>1
      <4> QED BY <2>3, <2>4, <2>8, <3>1, <4>1, <4>2
    <3> QED BY <3>3, <3>4
  <2> QED BY <2>9, <2>10
<1>5. N \in 0..N
  BY <1>2
<1> QED BY <1>1, <1>4, <1>5

\* The rows of the trail are linked, the first one to its base.
EntriesLinked ==
  \A n \in 1..Len(Entries) :
    Entries[n].prev = IF n = 1 THEN Base ELSE Entries[n - 1].hash

\* The only anchor names the first row, of which there is one.
AnchorNamesFirst ==
  anchors # <<>> => /\ Len(anchors) = 1 /\ rows # {}
                    /\ anchors[1].nextRowId = RowsById(rows)[1].id

\* Nothing went wrong but what ChainVerifies leaves out.
Sound == Undisturbed /\ SweptOnce

VerifyInv == TrailInv /\ (Sound => EntriesLinked /\ AnchorNamesFirst)

\* That the trail is linked is a property of what AuditLog promises.
LEMMA LinkedKept ==
  ASSUME TypeOK, EntriesLinked, [Trail!AuditNext]_Trail!auditVars
  PROVE  EntriesLinked'
<1> DEFINE Entry == [prev : Hash, hash : Hash]
           L == Len(Entries)
<1>1. Entries \in Seq(Entry) /\ L \in Nat
  BY EntriesAre
<1> HIDE DEF Entry
<1>2. ASSUME NEW r \in Requests, Trail!AppendEntry(r) PROVE EntriesLinked'
  <2> DEFINE entry == [prev |-> Trail!Tip, hash |-> Digest(Trail!Tip, r)]
  <2>1. Entries' = Append(Entries, entry) /\ Base' = Base
    BY <1>2 DEF Trail!AppendEntry
  <2>2. entry.prev = IF Entries = <<>> THEN Base ELSE Entries[L].hash
    BY DEF Trail!Tip
  <2> HIDE DEF entry
  <2>3. /\ Len(Entries') = L + 1 /\ Entries'[L + 1] = entry
        /\ \A n \in 1..L : Entries'[n] = Entries[n]
        /\ (Entries = <<>> <=> L = 0)
    BY <1>1, <2>1
  <2>4. ASSUME NEW n \in 1..(L + 1)
        PROVE  Entries'[n].prev = IF n = 1 THEN Base' ELSE Entries'[n - 1].hash
    <3>1. CASE n \in 1..L
      <4>1. n # 1 => n - 1 \in 1..L
        BY <1>1
      <4> QED BY <2>1, <2>3, <3>1, <4>1 DEF EntriesLinked
    <3>2. CASE n = L + 1
      <4>1. n # 1 => L \in 1..L /\ n - 1 = L
        BY <1>1, <3>2
      <4>2. n = 1 <=> L = 0
        BY <1>1, <3>2
      <4> QED BY <2>1, <2>2, <2>3, <3>2, <4>1, <4>2
    <3> QED BY <1>1, <3>1, <3>2
  <2> QED BY <2>3, <2>4 DEF EntriesLinked
<1>3. ASSUME NEW m \in 1..Len(Entries), Trail!PurgePrefix(m) PROVE EntriesLinked'
  <2>1. Entries' = SubSeq(Entries, m + 1, L) /\ Base' = Entries[m].hash
    BY <1>3 DEF Trail!PurgePrefix
  <2>2. Len(Entries') = L - m /\ \A n \in 1..(L - m) : Entries'[n] = Entries[n + m]
    BY <1>1, <2>1
  <2>3. ASSUME NEW n \in 1..(L - m)
        PROVE  Entries'[n].prev = IF n = 1 THEN Base' ELSE Entries'[n - 1].hash
    <3>1. n + m \in 1..L /\ n + m # 1 /\ (n + m) - 1 = (n - 1) + m
      BY <1>1
    <3>2. Entries'[n].prev = Entries[(n - 1) + m].hash
      BY <2>2, <3>1 DEF EntriesLinked
    <3>3. CASE n = 1
      <4>1. (n - 1) + m = m
        BY <3>3
      <4> QED BY <2>1, <3>2, <3>3, <4>1
    <3>4. CASE n # 1
      <4>1. n - 1 \in 1..(L - m)
        BY <1>1, <3>4
      <4> QED BY <2>2, <3>2, <3>4, <4>1
    <3> QED BY <3>3, <3>4
  <2> QED BY <2>2, <2>3 DEF EntriesLinked
<1>4. CASE UNCHANGED Trail!auditVars
  BY <1>4 DEF Trail!auditVars, EntriesLinked
<1> QED BY <1>2, <1>3, <1>4 DEF Trail!AuditNext

\* Steps only add to what was overtaken or given up on.
LEMMA HistoryGrows ==
  ASSUME [Next]_vars
  PROVE  overtaken \subseteq overtaken' /\ dropped \subseteq dropped'
<1> USE DEF stored, writer, history
<1>1. ASSUME NEW r \in Requests, Handler(r)
      PROVE  overtaken \subseteq overtaken' /\ dropped \subseteq dropped'
  BY <1>1 DEF Handler, Begin, ComputeRow, CheckDone, Send, RefuseClosed, Cancel, ReceiveAck
<1>2. CASE Receive \/ InsertOk \/ InsertRetry \/ GiveUp \/ WriterReturns \/ CloseWriter \/ UNCHANGED vars
  BY <1>2 DEF Receive, InsertOk, InsertRetry, GiveUp, WriterReturns, CloseWriter, vars
<1>3. CASE Exit \/ Crash \/ ReturnEarly
  BY <1>3 DEF Exit, Crash, ReturnEarly, Die
<1>4. ASSUME NEW cutoff \in 0..clock, Boot(cutoff)
      PROVE  overtaken \subseteq overtaken' /\ dropped \subseteq dropped'
  BY <1>4 DEF Boot
<1> QED BY <1>1, <1>2, <1>3, <1>4 DEF Next, Writer, Process, Terminated

\* A step that is not a sweep deletes nothing.
LEMMA TablesGrow ==
  ASSUME [Next]_vars, ~ \E cutoff \in 0..clock : Boot(cutoff) /\ OlderThan(rows, cutoff) # {}
  PROVE  rows \subseteq rows' /\ anchors' = anchors
<1> USE DEF stored, writer, history
<1>1. CASE InsertOk
  BY <1>1 DEF InsertOk
<1>2. ASSUME NEW cutoff \in 0..clock, Boot(cutoff), OlderThan(rows, cutoff) = {}
      PROVE  rows' = rows /\ anchors' = anchors
  BY <1>2 DEF Boot, PurgedRows, PurgedAnchors
<1>3. ASSUME NEW r \in Requests, Handler(r) PROVE rows' = rows /\ anchors' = anchors
  BY <1>3 DEF Handler, Begin, ComputeRow, CheckDone, Send, RefuseClosed, Cancel, ReceiveAck
<1>4. CASE Receive \/ InsertRetry \/ GiveUp \/ WriterReturns \/ CloseWriter \/ UNCHANGED vars
  BY <1>4 DEF Receive, InsertRetry, GiveUp, WriterReturns, CloseWriter, vars
<1>5. CASE Exit \/ Crash \/ ReturnEarly
  BY <1>5 DEF Exit, Crash, ReturnEarly, Die
<1> QED BY <1>1, <1>2, <1>3, <1>4, <1>5 DEF Next, Writer, Process, Terminated

\* A sweep that is still the only one, and found the oldest rows and not all,
\* wrote the first anchor, behind whose newest row all that stay come.
LEMMA OnlySweep ==
  ASSUME TypeOK, NEW cutoff \in 0..clock, Boot(cutoff), OlderThan(rows, cutoff) # {}, SweptOnce'
  PROVE  LET old == OlderThan(rows, cutoff)
             last == NewestRow(old)
         IN  /\ anchors = <<>> /\ Len(anchors') = 1 /\ anchors'[1] = PurgeAnchor(rows, cutoff)
             /\ old \in SUBSET rows /\ rows' = rows \ old
             /\ last \in old /\ \A row \in old : row.id <= last.id
             /\ \A row \in rows' : row.id > last.id
             /\ NextRowId(rows, last.id) # NoRowId
<1> DEFINE old == OlderThan(rows, cutoff)
           last == NewestRow(old)
           anchor == PurgeAnchor(rows, cutoff)
<1>1. old \in SUBSET rows /\ rows' = rows \ old /\ anchors' = Append(anchors, anchor)
  BY DEF Boot, PurgedRows, PurgedAnchors, OlderThan
<1>2. anchor.purgedUpTo = last.id /\ anchor.nextRowId = NextRowId(rows, last.id)
  BY DEF PurgeAnchor
<1>3. last \in old /\ \A row \in old : row.id <= last.id
  <2>1. old \in SUBSET Row /\ lastRowId \in Nat /\ \A row \in old : row.id <= lastRowId
    BY <1>1 DEF TypeOK
  <2> QED BY <2>1, NewestRowIsNewest
<1> HIDE DEF anchor, old, last
<1>4. /\ Len(anchors) \in Nat /\ Len(anchors') = Len(anchors) + 1
      /\ anchors'[Len(anchors) + 1] = anchor /\ (anchors = <<>> <=> Len(anchors) = 0)
  <2>1. anchors \in Seq(Anchor)
    BY DEF TypeOK
  <2> QED BY <1>1, <2>1
<1>5. /\ Len(anchors') = 1 /\ anchors'[1].nextRowId # NoRowId
      /\ \A row \in rows' : row.id > anchors'[1].purgedUpTo
  <2>1. anchors' # <<>>
    BY <1>4
  <2> QED BY <2>1 DEF SweptOnce
<1>6. anchors = <<>> /\ anchors'[1] = anchor
  <2> DEFINE n == Len(anchors)
  <2>1. n \in Nat /\ n + 1 = 1
    BY <1>4, <1>5
  <2> HIDE DEF n
  <2>2. n = 0 /\ n + 1 = 1
    BY <2>1
  <2>3. anchors = <<>>
    BY <1>4, <2>2 DEF n
  <2>4. anchors'[n + 1] = anchor
    BY <1>4 DEF n
  <2> QED BY <2>2, <2>3, <2>4
<1> QED BY <1>1, <1>2, <1>3, <1>5, <1>6 DEF anchor, old, last

\* What is sound was sound, and only the oldest rows were swept.
LEMMA SoundBefore ==
  ASSUME TypeOK, [Next]_vars, Sound'
  PROVE  Sound /\ SweepsOldest
<1>1. Undisturbed
  <2>1. overtaken \subseteq overtaken' /\ dropped \subseteq dropped'
    BY HistoryGrows
  <2> QED BY <2>1 DEF Sound, Undisturbed
<1>2. CASE ~ \E cutoff \in 0..clock : Boot(cutoff) /\ OlderThan(rows, cutoff) # {}
  <2>1. rows \subseteq rows' /\ anchors' = anchors
    BY <1>2, TablesGrow
  <2>2. SweptOnce'
    BY DEF Sound
  <2>3. SweptOnce
    BY <2>1, <2>2 DEF SweptOnce
  <2> QED BY <1>1, <2>1, <2>3 DEF Sound, SweepsOldest
<1>3. ASSUME NEW cutoff \in 0..clock, Boot(cutoff), OlderThan(rows, cutoff) # {}
      PROVE  Sound /\ SweepsOldest
  <2> DEFINE old == OlderThan(rows, cutoff)
             last == NewestRow(old)
  <2>1. SweptOnce'
    BY DEF Sound
  <2>2. /\ anchors = <<>> /\ old \in SUBSET rows /\ rows' = rows \ old
        /\ last \in old /\ \A row \in old : row.id <= last.id
        /\ \A row \in rows' : row.id > last.id
    BY <1>3, <2>1, OnlySweep
  <2> HIDE DEF old, last
  <2>3. \A row \in rows : row.id \in Nat
    BY DEF TypeOK, Row
  <2>4. ASSUME NEW row \in rows \ rows', NEW other \in rows \cap rows'
        PROVE  row.id < other.id
    <3>1. row \in old /\ row.id <= last.id /\ last.id < other.id
      BY <2>2
    <3> QED BY <2>2, <2>3, <3>1
  <2> QED BY <1>1, <2>2, <2>4 DEF Sound, SweptOnce, SweepsOldest
<1> QED BY <1>2, <1>3

\* One sweep leaves one anchor, for the oldest row that stays.
LEMMA AnchorKept ==
  ASSUME TypeOK, TypeOK', SweptOnce', AnchorNamesFirst, [Next]_vars
  PROVE  AnchorNamesFirst'
<1>1. TypeOK /\ Table(rows) /\ Table(rows')
  BY DEF TypeOK, Table
<1>2. CASE UNCHANGED <<rows, anchors>>
  BY <1>2 DEF AnchorNamesFirst
<1> USE DEF stored, writer, history
<1>3. CASE InsertOk
  <2>1. PICK r \in Requests : hand = <<r>>
    BY <1>3 DEF InsertOk, TypeOK
  <2> DEFINE new == RowOf(r, lastRowId + 1)
  <2>2. rows' = rows \cup {new} /\ lastRowId' = lastRowId + 1 /\ anchors' = anchors
    BY <1>3, <2>1 DEF InsertOk
  <2>3. new.id = lastRowId + 1
    BY DEF RowOf
  <2> HIDE DEF new
  <2>4. CASE anchors = <<>>
    BY <2>2, <2>4 DEF AnchorNamesFirst
  <2>5. CASE anchors # <<>>
    <3>1. /\ rows # {} /\ rows \in SUBSET rows'
          /\ \A row \in rows, other \in rows' \ rows : row.id < other.id
      <4>1. rows # {} /\ rows \in SUBSET rows'
        BY <2>2, <2>5 DEF AnchorNamesFirst
      <4>2. lastRowId \in Nat /\ \A row \in rows : row.id \in Nat /\ row.id <= lastRowId
        BY <1>1 DEF TypeOK, Row
      <4>3. \A row \in rows : row.id < new.id
        BY <2>3, <4>2
      <4>4. \A other \in rows' \ rows : other = new
        BY <2>2
      <4> QED BY <4>1, <4>3, <4>4
    <3>2. /\ Cardinality(rows) \in Nat /\ Cardinality(rows' \ rows) \in Nat
          /\ Cardinality(rows') = Cardinality(rows) + Cardinality(rows' \ rows)
          /\ \A n \in 1..Cardinality(rows') :
               n <= Cardinality(rows) => RowsById(rows')[n] = RowsById(rows)[n]
      BY <1>1, <3>1, RowsByIdSplit
    <3>3. Cardinality(rows) \in 1..Cardinality(rows)
      BY <1>1, <3>1, NewestIsLast
    <3>4. RowsById(rows')[1] = RowsById(rows)[1]
      BY <3>2, <3>3
    <3> QED BY <2>2, <2>5, <3>1, <3>4 DEF AnchorNamesFirst
  <2> QED BY <2>4, <2>5
<1>4. ASSUME NEW cutoff \in 0..clock, Boot(cutoff), OlderThan(rows, cutoff) # {}
      PROVE  AnchorNamesFirst'
  <2> DEFINE old == OlderThan(rows, cutoff)
             last == NewestRow(old)
             above == {row.id : row \in {other \in rows : other.id > last.id}}
             first == RowsById(rows')[1]
  <2>1. /\ anchors = <<>> /\ Len(anchors') = 1 /\ anchors'[1] = PurgeAnchor(rows, cutoff)
        /\ old \in SUBSET rows /\ rows' = rows \ old
        /\ last \in old /\ \A row \in old : row.id <= last.id
        /\ \A row \in rows' : row.id > last.id
        /\ NextRowId(rows, last.id) # NoRowId
    BY <1>4, OnlySweep
  <2>2. \A row \in rows : row.id \in Nat
    BY <1>1 DEF TypeOK, Row
  <2>3. \A row \in rows : row.id > last.id <=> row \notin old
    BY <2>1, <2>2
  <2>4. above # {} /\ above = {row.id : row \in rows'}
    <3>1. above # {}
      BY <2>1 DEF NextRowId
    <3> QED BY <2>1, <2>3, <3>1
  <2>5. rows' # {} /\ first \in rows' /\ \A row \in rows' : first.id <= row.id
    <3>1. rows' # {}
      BY <2>4
    <3> DEFINE R == Cardinality(rows')
               ordered == RowsById(rows')
    <3>2. /\ R \in Nat /\ ordered \in [1..R -> rows']
          /\ \A row \in rows' : \E n \in 1..R : ordered[n] = row
          /\ \A m, n \in 1..R : m < n => ordered[m].id < ordered[n].id
      BY <1>1, RowsByIdLists
    <3>3. \A row \in rows' : row.id \in Nat
      BY DEF TypeOK, Row
    <3> HIDE DEF R, ordered
    <3>4. 1 \in 1..R
      BY <3>1, <3>2
    <3>5. ASSUME NEW row \in rows' PROVE ordered[1].id <= row.id
      <4>1. PICK n \in 1..R : ordered[n] = row
        BY <3>2
      <4>2. ordered[1] \in rows' /\ (n = 1 \/ 1 < n)
        BY <3>2, <3>4
      <4> QED BY <3>2, <3>3, <3>4, <4>1, <4>2
    <3> QED BY <3>1, <3>2, <3>4, <3>5 DEF ordered
  <2> HIDE DEF last, first
  <2>7. NextRowId(rows, last.id) = first.id
    <3>1. above # {}
      BY <2>4
    <3>2. NextRowId(rows, last.id) = CHOOSE id \in above : \A other \in above : id <= other
      BY <3>1 DEF NextRowId
    <3>3. first.id \in above /\ \A other \in above : first.id <= other
      BY <2>4, <2>5
    <3> DEFINE least == CHOOSE id \in above : \A other \in above : id <= other
    <3>4. least \in above /\ \A other \in above : least <= other
      BY <3>3
    <3>5. above \in SUBSET Nat
      BY <1>1 DEF TypeOK, Row
    <3> HIDE DEF above, least
    <3>6. least \in Nat /\ first.id \in Nat /\ least <= first.id /\ first.id <= least
      BY <3>3, <3>4, <3>5
    <3>7. least = first.id
      BY <3>6
    <3> QED BY <3>2, <3>7 DEF least
  <2>9. PurgeAnchor(rows, cutoff).nextRowId = first.id
    BY <2>7 DEF PurgeAnchor, last
  <2> QED BY <2>1, <2>5, <2>9 DEF AnchorNamesFirst, first
<1>5. ASSUME NEW cutoff \in 0..clock, Boot(cutoff), OlderThan(rows, cutoff) = {}
      PROVE  UNCHANGED <<rows, anchors>>
  BY <1>5 DEF Boot, PurgedRows, PurgedAnchors
<1>6. ASSUME NEW r \in Requests, Handler(r) PROVE UNCHANGED <<rows, anchors>>
  BY <1>6 DEF Handler, Begin, ComputeRow, CheckDone, Send, RefuseClosed, Cancel, ReceiveAck
<1>7. CASE Receive \/ InsertRetry \/ GiveUp \/ WriterReturns \/ CloseWriter \/ UNCHANGED vars
  BY <1>2, <1>7 DEF Receive, InsertRetry, GiveUp, WriterReturns, CloseWriter, vars
<1>8. CASE Exit \/ Crash \/ ReturnEarly
  BY <1>2, <1>8 DEF Exit, Crash, ReturnEarly, Die
<1> QED BY <1>2, <1>3, <1>4, <1>5, <1>6, <1>7, <1>8 DEF Next, Writer, Process, Terminated

\* `shield-agent logs --verify` accepts the log of processes that overlap
\* requests, crash, restart and fail as they like, as long as no row was
\* overtaken or given up on and retention swept it once, the oldest rows and
\* not all (Verify, PurgeEgress, NewHashChain).
THEOREM VerifyCorrect == Spec => []ChainVerifies
<1>2. Init => VerifyInv
  <2> SUFFICES ASSUME Init PROVE VerifyInv
    OBVIOUS
  <2>1. TrailInv /\ TypeOK /\ rows = {} /\ anchors = <<>>
    BY TrailStarts, TypeInit DEF Init
  <2>2. Len(Entries) = 0
    BY <2>1, EntriesAre, FS_EmptySet
  <2> QED BY <2>1, <2>2 DEF VerifyInv, EntriesLinked, AnchorNamesFirst
<1>3. VerifyInv /\ [Next]_vars => VerifyInv'
  <2> SUFFICES ASSUME VerifyInv, [Next]_vars PROVE VerifyInv'
    OBVIOUS
  <2>1. TrailInv /\ TrailInv' /\ TypeOK /\ TypeOK'
    BY TrailNext DEF VerifyInv, TrailInv, ChainInv, GapInv, PipelineInv
  <2>2. ASSUME Sound' PROVE EntriesLinked' /\ AnchorNamesFirst'
    <3>1. Sound /\ SweepsOldest
      BY <2>1, <2>2, SoundBefore
    <3>2. EntriesLinked /\ AnchorNamesFirst
      BY <3>1 DEF VerifyInv
    <3>3. overtaken' = {} /\ dropped' = {} /\ SweptOnce'
      BY <2>2 DEF Sound, Undisturbed
    <3>4. [Trail!AuditNext]_Trail!auditVars
      BY <2>1, <3>1, <3>3, TrailStep
    <3> QED BY <2>1, <3>2, <3>3, <3>4, LinkedKept, AnchorKept
  <2> QED BY <2>1, <2>2 DEF VerifyInv
<1>4. VerifyInv => ChainVerifies
  <2> SUFFICES ASSUME VerifyInv, Sound PROVE Verify(rows, anchors)
    BY DEF ChainVerifies, Sound, Undisturbed
  <2> DEFINE N == Cardinality(rows)
  <2>1. /\ Table(rows) /\ N \in Nat /\ Len(Entries) = N
        /\ \A n \in 1..N : Entries[n] = EntryOf(RowsById(rows)[n])
        /\ anchors \in Seq(Anchor) /\ RowsById(rows) \in [1..N -> rows]
    BY EntriesAre, RowsByIdLists DEF VerifyInv, TrailInv, ChainInv, GapInv, PipelineInv, TypeOK
  <2>2. anchors = <<>> \/ Len(anchors) = 1
    BY DEF VerifyInv, AnchorNamesFirst
  <2>3. ASSUME NEW n \in 1..N
        PROVE  /\ RowsById(rows)[n].hash =
                    Digest(RowsById(rows)[n].prev, RowsById(rows)[n].req)
               /\ n # 1 => RowsById(rows)[n].prev = RowsById(rows)[n - 1].hash
    <3>1. RowsById(rows)[n] \in rows
      BY <2>1
    <3>2. RowsById(rows)[n].hash = Digest(RowsById(rows)[n].prev, RowsById(rows)[n].req)
      BY <3>1 DEF VerifyInv, TrailInv, ChainInv, GapInv, RowsKeep, RowOf
    <3>3. n # 1 => RowsById(rows)[n].prev = RowsById(rows)[n - 1].hash
      <4>1. n # 1 => n - 1 \in 1..N
        BY <2>1
      <4> QED BY <2>1, <4>1 DEF VerifyInv, EntriesLinked, EntryOf
    <3> QED BY <3>2, <3>3
  <2>4. ASSUME rows # {}
        PROVE  IF anchors = <<>> THEN RowsById(rows)[1].prev = NoHash
               ELSE /\ RowsById(rows)[1].prev = anchors[1].chainHash
                    /\ anchors[1].nextRowId = RowsById(rows)[1].id
    <3>1. 1 \in 1..N
      BY <2>1, <2>4, NewestIsLast
    <3>2. RowsById(rows)[1].prev = Base
      BY <2>1, <3>1 DEF VerifyInv, EntriesLinked, EntryOf
    <3> QED BY <3>2 DEF Base, VerifyInv, AnchorNamesFirst
  <2> QED BY <2>1, <2>2, <2>3, <2>4, VerifyAccepts
<1> QED BY <1>2, <1>3, <1>4, PTL DEF Spec

=============================================================================
