----------------------------- MODULE EgressStore -----------------------------
(***************************************************************************)
(* The egress tables of the SQLite store (internal/storage/egress.go) as   *)
(* pure operators: what each statement returns or leaves behind, given the *)
(* contents of egress_logs and egress_log_anchors.                         *)
(*                                                                         *)
(* egress_logs is a set of row records with distinct ids; the queries of   *)
(* the source impose the order (ORDER BY id).  egress_log_anchors is only  *)
(* ever appended to and read back in id order, so it is a sequence.        *)
(* A timestamp is a natural number: the moment a request was accepted.     *)
(*                                                                         *)
(* A row hash is SHA-256 over the previous hash and the row's own fields.  *)
(* It is represented by what it commits to: the sequence of the requests   *)
(* of the rows hashed into it, oldest first.  Distinct inputs then give    *)
(* distinct hashes and the hash of nothing is "".                          *)
(***************************************************************************)
EXTENDS Integers, Sequences, FiniteSets

\* The empty string: the prev_hash of the first row ever written.
NoHash == <<>>

\* canonicalRowHash(prevHash, row): one more link on top of prevHash.
Digest(prevHash, req) == Append(prevHash, req)

\* NextRowID of an anchor whose purge left no row behind.
NoRowId == -1

-----------------------------------------------------------------------------
\* SELECT ... ORDER BY id DESC LIMIT 1, over a non-empty set of rows.
NewestRow(rows) == CHOOSE row \in rows : \A other \in rows : other.id <= row.id

\* SELECT ... ORDER BY id ASC: the cursor of ScanEgressLogsAsc.
RowsById(rows) ==
  [n \in 1..Cardinality(rows) |->
     CHOOSE row \in rows : Cardinality({other \in rows : other.id <= row.id}) = n]

\* Fault: the newest anchor is asked before the rows.
LastEgressRowHash_AnchorFirst(rows, anchors) ==
  CASE anchors # <<>>               -> anchors[Len(anchors)].chainHash
    [] anchors = <<>> /\ rows # {}  -> NewestRow(rows).hash
    [] anchors = <<>> /\ rows = {}  -> NoHash

\* LastEgressRowHash: the newest row, else the newest anchor, else "".
LastEgressRowHash(rows, anchors) ==
  CASE rows # {}                      -> NewestRow(rows).hash
    [] rows = {} /\ anchors # <<>>    -> anchors[Len(anchors)].chainHash
    [] rows = {} /\ anchors = <<>>    -> NoHash

-----------------------------------------------------------------------------
\* WHERE timestamp < cutoff.
OlderThan(rows, cutoff) == {row \in rows : row.ts < cutoff}

\* Fault: WHERE id >= lastId.
NextRowId_NotAbove(rows, lastId) ==
  CHOOSE id \in {row.id : row \in rows} : id = lastId

\* The id of the oldest row above lastId, or -1 when there is none.
NextRowId(rows, lastId) ==
  LET above == {row.id : row \in {other \in rows : other.id > lastId}}
  IN  IF above = {} THEN NoRowId
      ELSE CHOOSE id \in above : \A other \in above : id <= other

\* Fault: the anchor keeps the hash below the last deleted row.
PurgeAnchor_PrevHash(rows, cutoff) ==
  LET last == NewestRow(OlderThan(rows, cutoff))
  IN  [ purgedUpTo  |-> last.id,
        purgedCount |-> Cardinality(OlderThan(rows, cutoff)),
        chainHash   |-> last.prev,
        nextRowId   |-> NextRowId(rows, last.id) ]

\* The anchor a purge of the rows older than cutoff writes.
PurgeAnchor(rows, cutoff) ==
  LET last == NewestRow(OlderThan(rows, cutoff))
  IN  [ purgedUpTo  |-> last.id,
        purgedCount |-> Cardinality(OlderThan(rows, cutoff)),
        chainHash   |-> last.hash,
        nextRowId   |-> NextRowId(rows, last.id) ]

\* What PurgeEgress leaves of the rows.  Anchor and deletion are one
\* transaction, so the two operators below are always applied together.
PurgedRows(rows, cutoff) == rows \ OlderThan(rows, cutoff)

PurgedAnchors(rows, anchors, cutoff) ==
  IF OlderThan(rows, cutoff) = {} THEN anchors
  ELSE Append(anchors, PurgeAnchor(rows, cutoff))

-----------------------------------------------------------------------------
\* The running state of Verify's walk: the next unmatched anchor, the
\* prev_hash the coming row must carry, and whether no row failed so far.
StartWalk == [anchor |-> 1, expected |-> NoHash, ok |-> TRUE]

\* The anchor index after the inner loop of Verify's callback has stepped
\* over every consecutive anchor that names this row.
PastAnchors(anchors, from, row) ==
  CHOOSE idx \in from..(Len(anchors) + 1) :
    /\ \A j \in from..(idx - 1) : anchors[j].nextRowId = row.id
    /\ idx <= Len(anchors) => anchors[idx].nextRowId # row.id

\* Fault: each row is only checked against itself.
VerifyRow_NoLink(anchors, walk, row) ==
  [anchor   |-> PastAnchors(anchors, walk.anchor, row),
   expected |-> row.hash,
   ok       |-> walk.ok /\ row.hash = Digest(row.prev, row.req)]

\* Verify's callback on one row.  The first mismatch ends the walk.
VerifyRow(anchors, walk, row) ==
  LET idx      == PastAnchors(anchors, walk.anchor, row)
      expected == IF idx > walk.anchor THEN anchors[idx - 1].chainHash
                  ELSE walk.expected
      good     == row.prev = expected /\ row.hash = Digest(row.prev, row.req)
  IN  IF ~walk.ok THEN walk
      ELSE [anchor |-> idx, expected |-> row.hash, ok |-> good]

\* Verify: the verdict ("OK" or not) on the tables' contents.
Verify(rows, anchors) ==
  LET ordered == RowsById(rows)
      walk[n \in 0..Len(ordered)] ==
        IF n = 0 THEN StartWalk ELSE VerifyRow(anchors, walk[n - 1], ordered[n])
  IN  walk[Len(ordered)].ok
=============================================================================
