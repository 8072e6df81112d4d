------------------------------- MODULE AuditLog -------------------------------
(***************************************************************************)
(* What the egress audit trail promises, without processes, queues, ids or *)
(* restarts: an append-only list of hash-linked entries from which a       *)
(* retention sweep may remove a prefix, remembering the hash the remaining *)
(* entries hang from.                                                      *)
(***************************************************************************)
EXTENDS Sequences, Naturals

CONSTANTS Requests,       \* what an entry is about
          Digest(_, _)    \* the hash of an entry on top of a previous hash

VARIABLES entries,        \* the entries still kept, oldest first
          base            \* the hash the oldest kept entry was chained to

auditVars == <<entries, base>>

\* The hash the next entry must be chained to.
Tip == IF entries = <<>> THEN base ELSE entries[Len(entries)].hash

AuditInit ==
  /\ entries = <<>>
  /\ base = <<>>

\* One more entry, chained to the newest one.
AppendEntry(req) ==
  /\ entries' = Append(entries, [prev |-> Tip, hash |-> Digest(Tip, req)])
  /\ UNCHANGED base

\* The retention sweep: the n oldest entries go, the rest hang from the last
\* one removed.
PurgePrefix(n) ==
  /\ entries' = SubSeq(entries, n + 1, Len(entries))
  /\ base' = entries[n].hash

AuditNext ==
  \/ \E req \in Requests : AppendEntry(req)
  \/ \E n \in 1..Len(entries) : PurgePrefix(n)

AuditSpec == AuditInit /\ [][AuditNext]_auditVars
=============================================================================
