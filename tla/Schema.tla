------------------------------- MODULE Schema -------------------------------
(***************************************************************************)
(* Opening the database.  Every process that opens it applies the schema   *)
(* migrations whose version is above the highest recorded one.  Applying a *)
(* migration and recording it are two statements, each on its own; the     *)
(* file is shared by every process of the host, and nothing else orders    *)
(* them.                                                                   *)
(***************************************************************************)
EXTENDS Integers, FiniteSets

CONSTANTS
  Procs,     \* processes that open the database
  Versions,  \* versions of migrations: 1..Latest
  Latest,
  Adds,      \* versions that add a column, which cannot be done twice; the
             \* others create tables and indexes where there are none
  MaxFaults  \* crashes and statements that fail (bound)

ASSUME SchemaAssumption ==
  /\ Latest \in Nat /\ Versions = 1..Latest
  /\ Adds \subseteq Versions
  /\ MaxFaults \in Nat

VARIABLES
  applied,  \* versions whose statements have been executed
  recorded, \* table schema_versions
  db,       \* per process: "closed", "version", "apply", "record", "open", "failed"
  next,     \* the version migrate is at
  faults,   \* how many faults there have been
  alone,    \* history: no other process has been opening since this one began
  spoiled   \* history: a fault has hit a process while it was opening

svars == <<applied, recorded, db, next, faults, alone, spoiled>>

Opening == {"version", "apply", "record"}

SchemaInit ==
  /\ applied \in {1..k : k \in 0..Latest} \* a new file or one of any release
  /\ recorded = applied
  /\ db = [p \in Procs |-> "closed"]
  /\ next = [p \in Procs |-> 1]
  /\ faults = 0
  /\ alone = [p \in Procs |-> TRUE]
  /\ spoiled = FALSE

\* Open, and migrate as far as the table of versions.
Open(p) ==
  /\ db[p] = "closed"
  /\ db' = [db EXCEPT ![p] = "version"]
  /\ LET others == {q \in Procs \ {p} : db[q] \in Opening} IN
       alone' = [q \in Procs |-> CASE q = p        -> others = {}
                                   [] q \in others -> FALSE
                                   [] OTHER        -> alone[q]]
  /\ UNCHANGED <<applied, recorded, next, faults, spoiled>>

\* currentVersion: the highest version recorded, 0 if none.
IsCurrent(v) ==
  /\ v \in recorded \cup {0}
  /\ \A w \in recorded : w <= v

\* Fault: the last pending version is left out.
Goes_StopsShort(p, v) ==
  /\ next' = [next EXCEPT ![p] = IF v + 1 < Latest THEN v + 1 ELSE Latest]
  /\ db' = [db EXCEPT ![p] = IF v + 1 < Latest THEN "apply" ELSE "open"]

\* After version v: the next one, or the database is open.
Goes(p, v) ==
  /\ next' = [next EXCEPT ![p] = IF v < Latest THEN v + 1 ELSE Latest]
  /\ db' = [db EXCEPT ![p] = IF v < Latest THEN "apply" ELSE "open"]

\* Fault: the current version is taken for pending.
ReadVersion_Again(p) ==
  /\ db[p] = "version"
  /\ \E v \in Versions : IsCurrent(v) /\ Goes(p, v - 1)
  /\ UNCHANGED <<applied, recorded, faults, alone, spoiled>>

ReadVersion(p) ==
  /\ db[p] = "version"
  /\ \E v \in Versions \cup {0} : IsCurrent(v) /\ Goes(p, v)
  /\ UNCHANGED <<applied, recorded, faults, alone, spoiled>>

\* The statements of a migration, taken as one: after a part of them the rest
\* meets what it would meet after all.  A column that is there cannot be added.
Apply(p) ==
  /\ db[p] = "apply"
  /\ LET again == next[p] \in Adds \cap applied IN
     /\ applied' = IF again THEN applied ELSE applied \cup {next[p]}
     /\ db' = [db EXCEPT ![p] = IF again THEN "failed" ELSE "record"]
  /\ UNCHANGED <<recorded, next, faults, alone, spoiled>>

\* INSERT INTO schema_versions: the version is the primary key.
Record(p) ==
  /\ db[p] = "record"
  /\ IF next[p] \in recorded
     THEN /\ db' = [db EXCEPT ![p] = "failed"]
          /\ UNCHANGED <<recorded, next>>
     ELSE /\ recorded' = recorded \cup {next[p]}
          /\ Goes(p, next[p])
  /\ UNCHANGED <<applied, faults, alone, spoiled>>

\* A statement fails: the disk is full, another process holds the lock.
OpenFails(p) ==
  /\ db[p] \in Opening /\ faults < MaxFaults
  /\ db' = [db EXCEPT ![p] = "failed"]
  /\ faults' = faults + 1
  /\ spoiled' = TRUE
  /\ UNCHANGED <<applied, recorded, next, alone>>

\* The process closes the database, or returns the error.
Close(p) ==
  /\ db[p] \in {"open", "failed"}
  /\ db' = [db EXCEPT ![p] = "closed"]
  /\ UNCHANGED <<applied, recorded, next, faults, alone, spoiled>>

\* The process is killed.
Killed(p) ==
  /\ db[p] # "closed" /\ faults < MaxFaults
  /\ db' = [db EXCEPT ![p] = "closed"]
  /\ faults' = faults + 1
  /\ spoiled' = (spoiled \/ db[p] \in Opening)
  /\ UNCHANGED <<applied, recorded, next, alone>>

Migrates(p) == ReadVersion(p) \/ Apply(p) \/ Record(p) \/ OpenFails(p)

SchemaNext == \E p \in Procs : Open(p) \/ Migrates(p) \/ Close(p) \/ Killed(p)

SchemaSpec == SchemaInit /\ [][SchemaNext]_svars

-----------------------------------------------------------------------------
(* Properties *)

\* Types.
SchemaTypeOK ==
  /\ applied \subseteq Versions /\ recorded \subseteq Versions
  /\ db \in [Procs -> {"closed", "open", "failed"} \cup Opening]
  /\ next \in [Procs -> Nat]
  /\ faults \in 0..MaxFaults
  /\ alone \in [Procs -> BOOLEAN] /\ spoiled \in BOOLEAN

\* db.go:235-268: however many processes open the database at once and wherever
\* one of them is killed, one that has it open finds every table and column.
OpenIsMigrated ==
  \A p \in Procs : db[p] = "open" => applied = Versions /\ recorded = Versions

\* db.go:260-265: opening fails only beside another process that was opening, or
\* once a process has been stopped between two statements of its own opening.
AloneItOpens == \A p \in Procs : db[p] = "failed" => ~alone[p] \/ spoiled
=============================================================================
