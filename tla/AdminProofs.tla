---------------------------- MODULE AdminProofs ----------------------------
(***************************************************************************)
(* Proofs about Schema, for any number of processes and migrations and any *)
(* number of faults, that they hold in Admin, where the processes have a   *)
(* life around the database, and about the password and the toggles there, *)
(* for any names, files, requests and sessions.                            *)
(***************************************************************************)
EXTENDS Admin, TLAPS

\* The versions recorded are those up to some release, their statements have
\* been executed, and a process that migrates is at the next version at most:
\* others may have been faster.
MigratesInOrder ==
  /\ recorded \subseteq applied
  /\ \A v \in recorded : \A w \in Versions : w <= v => w \in recorded
  /\ \A p \in Procs :
       /\ db[p] \in {"apply", "record"} =>
            next[p] \in Versions /\ \A w \in Versions : w < next[p] => w \in recorded
       /\ db[p] = "record" => next[p] \in applied
       /\ db[p] = "open" => Versions \subseteq recorded

\* A process that has been alone since it began is the only one that migrates,
\* at the version after the last recorded one.
AloneIsAlone ==
  \A p \in Procs : alone[p] /\ db[p] \in Opening =>
    /\ \A q \in Procs \ {p} : db[q] \notin Opening
    /\ db[p] # "version" => \A v \in recorded : v < next[p]

\* But for faults, what is executed and not recorded is about to be.
RecordFollows ==
  ~spoiled => \A v \in applied \ recorded : \E p \in Procs : db[p] = "record" /\ next[p] = v

SchemaIInv ==
  /\ SchemaTypeOK /\ MigratesInOrder /\ AloneIsAlone /\ RecordFollows /\ AloneItOpens

LEMMA SchemaInitHolds == SchemaInit => SchemaIInv
<1> SUFFICES ASSUME SchemaInit PROVE SchemaIInv
  OBVIOUS
<1> USE SchemaAssumption DEF SchemaInit
<1>1. PICK k \in 0..Latest : applied = 1..k /\ recorded = 1..k
  OBVIOUS
<1>2. SchemaTypeOK
  <2>1. applied \subseteq Versions /\ recorded \subseteq Versions
    BY <1>1
  <2>2. faults \in 0..MaxFaults
    OBVIOUS
  <2>3. /\ db \in [Procs -> {"closed", "open", "failed"} \cup Opening]
        /\ next \in [Procs -> Nat]
        /\ alone \in [Procs -> BOOLEAN] /\ spoiled \in BOOLEAN
    OBVIOUS
  <2> QED BY <2>1, <2>2, <2>3 DEF SchemaTypeOK
<1>3. MigratesInOrder
  BY <1>1 DEF MigratesInOrder
<1>4. AloneIsAlone /\ RecordFollows /\ AloneItOpens
  BY DEF AloneIsAlone, RecordFollows, AloneItOpens, Opening
<1> QED BY <1>2, <1>3, <1>4 DEF SchemaIInv

\* What a process finds that takes v for the current version.
LEMMA CurrentVersion ==
  ASSUME SchemaIInv, NEW v \in Versions \cup {0}, IsCurrent(v)
  PROVE  /\ v \in 0..Latest
         /\ \A w \in recorded : w <= v
         /\ \A w \in Versions : w <= v => w \in recorded
<1> USE SchemaAssumption
<1>1. v \in 0..Latest /\ \A w \in recorded : w <= v
  BY DEF IsCurrent
<1>2. CASE v = 0
  BY <1>1, <1>2
<1>3. CASE v # 0
  <2>1. v \in recorded
    BY <1>3 DEF IsCurrent
  <2> QED BY <1>1, <2>1 DEF SchemaIInv, MigratesInOrder
<1> QED BY <1>1, <1>2, <1>3

LEMMA OpenKeeps ==
  ASSUME SchemaIInv, NEW p \in Procs, Open(p)
  PROVE  SchemaIInv'
<1> USE SchemaAssumption DEF SchemaIInv, Open, Opening
<1>1. SchemaTypeOK'
  BY DEF SchemaTypeOK
<1>2. \A q \in Procs : db'[q] = IF q = p THEN "version" ELSE db[q]
  BY DEF SchemaTypeOK
<1>3. \A q \in Procs : alone'[q] =>
        /\ q = p => \A o \in Procs \ {p} : db[o] \notin Opening
        /\ q # p => alone[q] /\ db[q] \notin Opening
  BY DEF SchemaTypeOK
<1>4. MigratesInOrder'
  BY <1>2 DEF MigratesInOrder
<1>5. AloneIsAlone'
  BY <1>2, <1>3 DEF AloneIsAlone
<1>6. RecordFollows'
  BY <1>2 DEF RecordFollows
<1>7. AloneItOpens'
  <2>1. \A q \in Procs : db'[q] = "failed" => q # p /\ db[q] = "failed" /\ alone'[q] = alone[q]
    BY <1>2 DEF SchemaTypeOK
  <2> QED BY <2>1 DEF AloneItOpens
<1> QED BY <1>1, <1>4, <1>5, <1>6, <1>7

LEMMA ReadVersionKeeps ==
  ASSUME SchemaIInv, NEW p \in Procs, ReadVersion(p)
  PROVE  SchemaIInv'
<1> USE SchemaAssumption DEF SchemaIInv, ReadVersion, Goes, Opening
<1>1. PICK v \in Versions \cup {0} : IsCurrent(v) /\ Goes(p, v)
  OBVIOUS
<1>2. /\ v \in 0..Latest
      /\ \A w \in recorded : w <= v
      /\ \A w \in Versions : w <= v => w \in recorded
  BY <1>1, CurrentVersion
<1>3. SchemaTypeOK'
  BY <1>1, <1>2 DEF SchemaTypeOK
<1>4. \A q \in Procs : /\ db'[q] = IF q # p THEN db[q] ELSE IF v < Latest THEN "apply" ELSE "open"
                       /\ next'[q] = IF q # p THEN next[q] ELSE IF v < Latest THEN v + 1 ELSE Latest
  BY <1>1 DEF SchemaTypeOK
<1>5. MigratesInOrder'
  BY <1>2, <1>4 DEF MigratesInOrder
<1>6. AloneIsAlone'
  BY <1>2, <1>4 DEF AloneIsAlone, SchemaTypeOK
<1>7. RecordFollows'
  BY <1>4 DEF RecordFollows
<1>8. AloneItOpens'
  BY <1>4 DEF AloneItOpens
<1> QED BY <1>3, <1>5, <1>6, <1>7, <1>8

LEMMA ApplyKeeps ==
  ASSUME SchemaIInv, NEW p \in Procs, Apply(p)
  PROVE  SchemaIInv'
<1> USE SchemaAssumption DEF SchemaIInv, Apply, Opening
<1> DEFINE again == next[p] \in Adds \cap applied
<1>1. next[p] \in Versions
  BY DEF MigratesInOrder
<1>2. SchemaTypeOK'
  BY <1>1 DEF SchemaTypeOK
<1>3. \A q \in Procs : db'[q] = IF q # p THEN db[q] ELSE IF again THEN "failed" ELSE "record"
  BY DEF SchemaTypeOK
<1>4. MigratesInOrder'
  BY <1>1, <1>3 DEF MigratesInOrder
<1>5. AloneIsAlone'
  BY <1>3 DEF AloneIsAlone
<1>6. RecordFollows'
  BY <1>3 DEF RecordFollows
<1>7. AloneItOpens'
  <2>1. again /\ alone[p] => spoiled
    <3> SUFFICES ASSUME again, alone[p], ~spoiled PROVE FALSE
      OBVIOUS
    <3>1. next[p] \notin recorded
      BY <1>1 DEF AloneIsAlone, SchemaTypeOK
    <3>2. PICK q \in Procs : db[q] = "record" /\ next[q] = next[p]
      BY <3>1 DEF RecordFollows
    <3> QED BY <3>2 DEF AloneIsAlone
  <2> QED BY <1>3, <2>1 DEF AloneItOpens
<1> QED BY <1>2, <1>4, <1>5, <1>6, <1>7

LEMMA RecordKeeps ==
  ASSUME SchemaIInv, NEW p \in Procs, Record(p)
  PROVE  SchemaIInv'
<1> USE SchemaAssumption DEF SchemaIInv, Record, Goes, Opening
<1>1. /\ next[p] \in Versions /\ next[p] \in applied
      /\ \A w \in Versions : w < next[p] => w \in recorded
  BY DEF MigratesInOrder
<1>2. CASE next[p] \in recorded
  <2>1. ~alone[p]
    BY <1>1, <1>2 DEF AloneIsAlone, SchemaTypeOK
  <2>2. \A q \in Procs : db'[q] = IF q # p THEN db[q] ELSE "failed"
    BY <1>2 DEF SchemaTypeOK
  <2>3. SchemaTypeOK'
    BY <1>2 DEF SchemaTypeOK
  <2>4. MigratesInOrder' /\ AloneIsAlone'
    BY <1>2, <2>2 DEF MigratesInOrder, AloneIsAlone
  <2>5. RecordFollows'
    BY <1>2, <2>2 DEF RecordFollows
  <2>6. AloneItOpens'
    BY <2>1, <2>2 DEF AloneItOpens
  <2> QED BY <2>3, <2>4, <2>5, <2>6
<1>3. CASE next[p] \notin recorded
  <2> DEFINE v == next[p]
  <2>1. v \in 1..Latest /\ recorded' = recorded \cup {v} /\ applied' = applied
    BY <1>1, <1>3
  <2>2. \A q \in Procs :
          /\ db'[q] = IF q # p THEN db[q] ELSE IF v < Latest THEN "apply" ELSE "open"
          /\ next'[q] = IF q # p THEN next[q] ELSE IF v < Latest THEN v + 1 ELSE Latest
    BY <1>3 DEF SchemaTypeOK
  <2>3. SchemaTypeOK'
    <3>1. applied' \subseteq Versions /\ recorded' \subseteq Versions
      BY <1>1, <2>1 DEF SchemaTypeOK
    <3>2. /\ db' \in [Procs -> {"closed", "open", "failed"} \cup Opening]
          /\ next' \in [Procs -> Nat]
      BY <1>3, <2>1 DEF SchemaTypeOK
    <3> QED BY <3>1, <3>2 DEF SchemaTypeOK
  <2>4. MigratesInOrder'
    BY <1>1, <2>1, <2>2 DEF MigratesInOrder
  <2>5. AloneIsAlone'
    <3> SUFFICES ASSUME NEW q \in Procs, alone[q], db'[q] \in Opening
                 PROVE  /\ \A o \in Procs \ {q} : db'[o] \notin Opening
                        /\ db'[q] # "version" => \A w \in recorded' : w < next'[q]
      BY DEF AloneIsAlone
    <3>1. q = p
      BY <2>2 DEF AloneIsAlone
    <3>2. \A w \in recorded : w < v
      BY <3>1 DEF AloneIsAlone
    <3>3. next'[q] = v + 1
      BY <2>1, <2>2, <3>1
    <3>4. \A w \in recorded' : w < next'[q]
      BY <2>1, <3>2, <3>3 DEF SchemaTypeOK
    <3> QED BY <2>2, <3>1, <3>4 DEF AloneIsAlone
  <2>6. RecordFollows'
    BY <2>1, <2>2 DEF RecordFollows
  <2>7. AloneItOpens'
    BY <2>2 DEF AloneItOpens
  <2> QED BY <2>3, <2>4, <2>5, <2>6, <2>7
<1> QED BY <1>2, <1>3

LEMMA FaultKeeps ==
  ASSUME SchemaIInv, NEW p \in Procs, OpenFails(p) \/ Close(p) \/ Killed(p)
  PROVE  SchemaIInv'
<1> USE SchemaAssumption DEF SchemaIInv, OpenFails, Close, Killed, Opening
<1>1. SchemaTypeOK'
  <2>1. /\ db' \in [Procs -> {"closed", "open", "failed"} \cup Opening]
        /\ faults' \in 0..MaxFaults
    BY DEF SchemaTypeOK
  <2>2. spoiled' \in BOOLEAN
    BY Zenon DEF SchemaTypeOK
  <2> QED BY <2>1, <2>2 DEF SchemaTypeOK
<1>2. \A q \in Procs \ {p} : db'[q] = db[q]
  BY DEF SchemaTypeOK
<1>3. db'[p] \in {"failed", "closed"} /\ (db'[p] = "failed" => spoiled')
  BY DEF SchemaTypeOK
<1>4. spoiled => spoiled'
  OBVIOUS
<1>5. MigratesInOrder' /\ AloneIsAlone'
  BY <1>2, <1>3 DEF MigratesInOrder, AloneIsAlone
<1>6. RecordFollows'
  BY <1>2, <1>4 DEF RecordFollows
<1>7. AloneItOpens'
  BY <1>2, <1>3, <1>4 DEF AloneItOpens
<1> QED BY <1>1, <1>5, <1>6, <1>7

LEMMA SchemaNextKeeps == SchemaIInv /\ [SchemaNext]_svars => SchemaIInv'
<1> SUFFICES ASSUME SchemaIInv, [SchemaNext]_svars PROVE SchemaIInv'
  OBVIOUS
<1>1. CASE UNCHANGED svars
  BY <1>1 DEF svars, SchemaIInv, SchemaTypeOK, MigratesInOrder, AloneIsAlone, RecordFollows,
              AloneItOpens
<1>2. CASE SchemaNext
  BY <1>2, OpenKeeps, ReadVersionKeeps, ApplyKeeps, RecordKeeps, FaultKeeps
     DEF SchemaNext, Migrates
<1> QED BY <1>1, <1>2

\* Every reachable state satisfies the inductive invariant.
THEOREM SchemaCorrect == SchemaSpec => []SchemaIInv
BY SchemaInitHolds, SchemaNextKeeps, PTL DEF SchemaSpec

\* A process that has the database open finds the whole schema in it, whoever
\* else migrates or has been killed in the middle of it.
THEOREM OpenIsMigratedCorrect == SchemaSpec => []OpenIsMigrated
<1>1. SchemaIInv => OpenIsMigrated
  BY DEF SchemaIInv, SchemaTypeOK, MigratesInOrder, OpenIsMigrated
<1> QED BY <1>1, SchemaCorrect, PTL

\* Opening fails only beside another process or after a fault.
THEOREM AloneItOpensCorrect == SchemaSpec => []AloneItOpens
<1>1. SchemaIInv => AloneItOpens
  BY DEF SchemaIInv
<1> QED BY <1>1, SchemaCorrect, PTL

-----------------------------------------------------------------------------
(* Admin *)

CallRecords ==
  [pc      : {"idle", "compare", "session", "auth", "set", "save", "unforce", "login",
              "change", "toggle", "post", "put", "delete", "none"},
   proc    : Procs,
   request : Requests \cup {NoRequest},
   session : Sessions,
   on      : BOOLEAN]

CallTypes ==
  /\ setting \in Settings
  /\ life \in [Procs -> {"down", "opening", "overrides", "chain", "count", "hash",
                         "force", "serving", "failed"}]
  /\ call \in [Calls -> CallRecords]

\* Where a process is with the database follows from where it is in its life,
\* and a request is at a process that serves.
LivesFit ==
  /\ \A p \in Procs :
       /\ life[p] = "down" => db[p] = "closed"
       /\ life[p] = "opening" => db[p] \in Opening
       /\ life[p] \in {"overrides", "chain", "count", "hash", "force", "serving"} =>
            db[p] = "open"
       /\ life[p] = "failed" => db[p] \in {"open", "failed"}
  /\ \A c \in Calls : call[c].pc # "idle" => life[call[c].proc] = "serving"

AdminIInv == SchemaIInv /\ CallTypes /\ LivesFit

LEMMA IdleIsCall == Idle \in CallRecords /\ Idle.pc = "idle"
BY AdminAssumption DEF Idle, CallRecords

LEMMA AdminInitHolds == Init => AdminIInv
<1> SUFFICES ASSUME Init PROVE AdminIInv
  OBVIOUS
<1>1. SchemaIInv
  BY SchemaInitHolds DEF Init
<1>2. CallTypes
  BY IdleIsCall DEF Init, CallTypes
<1>3. LivesFit
  BY IdleIsCall DEF Init, LivesFit, SchemaInit
<1> QED BY <1>1, <1>2, <1>3 DEF AdminIInv

\* A step that changes nothing of the database but counts a fault.
LEMMA CountedKeeps ==
  ASSUME SchemaIInv, UNCHANGED <<applied, recorded, db, next, alone, spoiled>>,
         faults' = faults \/ (faults < MaxFaults /\ faults' = faults + 1)
  PROVE  SchemaIInv'
<1>1. SchemaTypeOK'
  BY SchemaAssumption DEF SchemaIInv, SchemaTypeOK
<1> QED BY <1>1 DEF SchemaIInv, MigratesInOrder, AloneIsAlone, RecordFollows, AloneItOpens

\* A step of the life of p that leaves the requests alone.
LEMMA LifeKeeps ==
  ASSUME AdminIInv, SchemaIInv', NEW p \in Procs,
         NEW l \in {"opening", "overrides", "chain", "count", "hash", "force", "serving",
                    "failed"},
         life' = [life EXCEPT ![p] = l], UNCHANGED <<setting, call>>,
         life[p] # "serving",
         \A q \in Procs \ {p} : db'[q] = db[q],
         l = "opening" => db'[p] \in Opening,
         l = "failed" => db'[p] \in {"open", "failed"},
         l \notin {"opening", "failed"} => db'[p] = "open"
  PROVE  AdminIInv'
<1>1. CallTypes'
  BY DEF AdminIInv, CallTypes
<1>2. \A q \in Procs : life'[q] = IF q = p THEN l ELSE life[q]
  BY DEF AdminIInv, CallTypes
<1>3. \A c \in Calls : call[c].proc \in Procs
  BY DEF AdminIInv, CallTypes, CallRecords
<1>4. LivesFit'
  BY <1>2, <1>3 DEF AdminIInv, LivesFit
<1> QED BY <1>1, <1>4 DEF AdminIInv

LEMMA OpeningKeeps ==
  ASSUME AdminIInv, NEW p \in Procs, Start(p) \/ Migrate(p)
  PROVE  AdminIInv'
<1>1. CASE Start(p)
  <2>1. SchemaIInv'
    BY <1>1, OpenKeeps DEF AdminIInv, Start
  <2>2. db'[p] \in Opening /\ \A q \in Procs \ {p} : db'[q] = db[q]
    BY <1>1 DEF AdminIInv, SchemaIInv, SchemaTypeOK, Start, Open, Opening
  <2> QED BY <1>1, <2>1, <2>2, LifeKeeps DEF Start, counts
<1>2. CASE Migrate(p)
  <2>1. Migrates(p) /\ UNCHANGED <<setting, call>>
    BY <1>2 DEF Migrate, counts
  <2>2. SchemaIInv'
    BY <2>1, ReadVersionKeeps, ApplyKeeps, RecordKeeps, FaultKeeps DEF AdminIInv, Migrates
  <2>3. /\ db[p] \in Opening /\ \A q \in Procs \ {p} : db'[q] = db[q]
        /\ db'[p] \in Opening \cup {"open", "failed"}
    BY <2>1 DEF AdminIInv, SchemaIInv, SchemaTypeOK, Migrates, ReadVersion, Goes, Apply,
                Record, OpenFails, Opening
  <2>4. life[p] # "serving"
    BY <2>3 DEF AdminIInv, LivesFit, Opening
  <2>5. CASE db'[p] = "failed"
    <3>1. life' = [life EXCEPT ![p] = "failed"]
      BY <1>2, <2>5 DEF Migrate
    <3> QED BY <2>1, <2>2, <2>3, <2>4, <2>5, <3>1, LifeKeeps
  <2>6. CASE db'[p] = "open"
    <3>1. life' = [life EXCEPT ![p] = "serving"] \/ life' = [life EXCEPT ![p] = "overrides"]
      BY <1>2, <2>6 DEF Migrate
    <3> QED BY <2>1, <2>2, <2>3, <2>4, <2>6, <3>1, LifeKeeps
  <2>7. CASE db'[p] \in Opening
    <3>1. life' = [life EXCEPT ![p] = "opening"]
      BY <1>2, <2>7 DEF Migrate, Opening
    <3> QED BY <2>1, <2>2, <2>3, <2>4, <2>7, <3>1, LifeKeeps
  <2> QED BY <2>3, <2>5, <2>6, <2>7
<1> QED BY <1>1, <1>2

LEMMA BeginningKeeps ==
  ASSUME AdminIInv, NEW p \in Procs,
         \/ LoadOverrides(p) \/ BuildFirst(p)
         \/ CountPassword(p) \/ SetFirstHash(p) \/ SetForce(p)
  PROVE  AdminIInv'
<1>1. /\ UNCHANGED <<applied, recorded, db, next, alone, spoiled, setting, call>>
      /\ faults' = faults \/ (faults < MaxFaults /\ faults' = faults + 1)
  BY DEF LoadOverrides, BuildFirst, CountPassword, SetFirstHash, SetForce, Unnoticed, svars,
         counts
<1>2. SchemaIInv'
  BY <1>1, CountedKeeps DEF AdminIInv
<1>3. life[p] \in {"overrides", "chain", "count", "hash", "force"}
  BY DEF LoadOverrides, BuildFirst, CountPassword, SetFirstHash, SetForce
<1>4. db'[p] = "open"
  BY <1>1, <1>3 DEF AdminIInv, LivesFit
<1>5. \/ life' = [life EXCEPT ![p] = "chain"] \/ life' = [life EXCEPT ![p] = "count"]
      \/ life' = [life EXCEPT ![p] = "failed"] \/ life' = [life EXCEPT ![p] = "serving"]
      \/ life' = [life EXCEPT ![p] = "hash"] \/ life' = [life EXCEPT ![p] = "force"]
  BY DEF LoadOverrides, BuildFirst, CountPassword, SetFirstHash, SetForce, Settle
<1>6. PICK l \in {"chain", "count", "failed", "serving", "hash", "force"} :
        life' = [life EXCEPT ![p] = l]
  BY <1>5
<1> QED BY <1>1, <1>2, <1>3, <1>4, <1>6, LifeKeeps

\* A step of request c that ends it, moves it on, or begins it at a process that
\* serves.
LEMMA CallKeeps ==
  ASSUME AdminIInv, SchemaIInv', NEW c \in Calls, NEW k \in CallRecords,
         call' = [call EXCEPT ![c] = k], UNCHANGED <<setting, life, db>>,
         k.pc # "idle" => life[k.proc] = "serving"
  PROVE  AdminIInv'
<1>1. CallTypes'
  BY DEF AdminIInv, CallTypes
<1>2. \A d \in Calls : call'[d] = IF d = c THEN k ELSE call[d]
  BY DEF AdminIInv, CallTypes
<1>3. LivesFit'
  BY <1>2 DEF AdminIInv, LivesFit
<1> QED BY <1>1, <1>3 DEF AdminIInv

\* What a request that goes on becomes.
LEMMA MovedCall ==
  ASSUME AdminIInv, NEW c \in Calls, call[c].pc # "idle",
         NEW l \in {"session", "set", "save", "unforce", "login", "change", "toggle", "post",
                    "put", "delete", "none"},
         NEW b \in BOOLEAN
  PROVE  /\ [call[c] EXCEPT !.pc = l] \in CallRecords
         /\ [call[c] EXCEPT !.pc = l].proc = call[c].proc
         /\ [call[c] EXCEPT !.pc = l, !.on = b] \in CallRecords
         /\ [call[c] EXCEPT !.pc = l, !.on = b].proc = call[c].proc
         /\ life[call[c].proc] = "serving"
<1>1. call[c] \in CallRecords
  BY DEF AdminIInv, CallTypes
<1>2. life[call[c].proc] = "serving"
  BY DEF AdminIInv, LivesFit
<1> QED BY <1>1, <1>2 DEF CallRecords

LEMMA RequestKinds ==
  \A r \in Requests \cup {NoRequest} :
    r.kind \in {"login", "change", "toggle", "post", "put", "delete", "none"}
BY DEF Requests, NoRequest, Logins, Changes, Toggles, Edits

LEMMA RequestKeeps ==
  ASSUME AdminIInv, NEW c \in Calls,
         \/ Arrive(c) \/ Compare(c) \/ AddSession(c) \/ Authorize(c)
         \/ ChangeHash(c) \/ ChangeForce(c)
         \/ ReadToggle(c) \/ SetToggle(c) \/ SaveToggle(c) \/ EditUpstream(c)
  PROVE  AdminIInv'
<1>1. /\ UNCHANGED <<applied, recorded, db, next, alone, spoiled, setting, life>>
      /\ faults' = faults \/ (faults < MaxFaults /\ faults' = faults + 1)
  BY DEF Arrive, Compare, AddSession, Authorize, ChangeHash, ChangeForce, ReadToggle,
         SetToggle, SaveToggle, EditUpstream, Unnoticed, svars, counts, proc
<1>2. SchemaIInv'
  BY <1>1, CountedKeeps DEF AdminIInv
<1>3. CASE Arrive(c)
  <2>1. PICK p \in Procs, r \in setting.requests, s \in Sessions :
          /\ life[p] = "serving"
          /\ call' = [call EXCEPT ![c] =
               [pc |-> IF r.kind = "login" THEN "compare" ELSE "auth",
                proc |-> p, request |-> r, session |-> s, on |-> FALSE]]
    BY <1>3 DEF Arrive
  <2>2. r \in Requests
    BY <2>1, AdminAssumption DEF AdminIInv, CallTypes
  <2> DEFINE k == [pc |-> IF r.kind = "login" THEN "compare" ELSE "auth",
                   proc |-> p, request |-> r, session |-> s, on |-> FALSE]
  <2>3. k \in CallRecords /\ k.proc = p
    BY <2>2 DEF CallRecords
  <2> HIDE DEF k
  <2> QED BY <1>1, <1>2, <2>1, <2>3, CallKeeps DEF k
<1>4. ASSUME call' = [call EXCEPT ![c] = Idle] PROVE AdminIInv'
  BY <1>1, <1>2, <1>4, IdleIsCall, CallKeeps
<1>5. ASSUME NEW l \in {"session", "set", "save", "unforce", "login", "change", "toggle",
                        "post", "put", "delete", "none"},
             call[c].pc # "idle", call' = [call EXCEPT ![c].pc = l]
      PROVE  AdminIInv'
  <2> DEFINE k == [call[c] EXCEPT !.pc = l]
  <2>1. k \in CallRecords /\ life[k.proc] = "serving"
    BY <1>5, MovedCall
  <2>2. call' = [call EXCEPT ![c] = k]
    BY <1>5
  <2> HIDE DEF k
  <2> QED BY <1>1, <1>2, <2>1, <2>2, CallKeeps
<1>6. CASE Compare(c)
  BY <1>4, <1>5, <1>6 DEF Compare, Goto, End
<1>7. CASE Authorize(c)
  <2>1. call[c].request.kind \in {"login", "change", "toggle", "post", "put", "delete", "none"}
    BY RequestKinds DEF AdminIInv, CallTypes, CallRecords
  <2>2. call[c].pc # "idle"
    BY <1>7 DEF Authorize
  <2>3. \/ call' = [call EXCEPT ![c] = Idle]
        \/ call' = [call EXCEPT ![c].pc = call[c].request.kind]
    BY <1>7 DEF Authorize, Goto, End
  <2> QED BY <1>4, <1>5, <2>1, <2>2, <2>3
<1>8. CASE ReadToggle(c)
  <2> DEFINE b == IsOn(call[c].proc, call[c].request.name)
             k == [call[c] EXCEPT !.pc = "set", !.on = b]
  <2>1. call[c].pc # "idle" /\ call' = [call EXCEPT ![c].pc = "set", ![c].on = b]
    BY <1>8 DEF ReadToggle
  <2>2. b \in BOOLEAN
    BY DEF IsOn
  <2> HIDE DEF b
  <2>3. k \in CallRecords /\ life[k.proc] = "serving"
    BY <2>1, <2>2, MovedCall
  <2>4. call' = [call EXCEPT ![c] = k]
    BY <2>1 DEF AdminIInv, CallTypes
  <2> HIDE DEF k
  <2> QED BY <1>1, <1>2, <2>3, <2>4, CallKeeps
<1>9. CASE ChangeHash(c) \/ SetToggle(c)
  BY <1>5, <1>9 DEF ChangeHash, SetToggle, Goto
<1>10. CASE AddSession(c) \/ ChangeForce(c) \/ SaveToggle(c) \/ EditUpstream(c)
  BY <1>4, <1>10 DEF AddSession, ChangeForce, SaveToggle, EditUpstream, End
<1> QED BY <1>3, <1>6, <1>7, <1>8, <1>9, <1>10

LEMMA EndKeeps ==
  ASSUME AdminIInv, NEW p \in Procs, Exit(p) \/ Die(p) \/ Clash(p)
  PROVE  AdminIInv'
<1>1. Gone(p) /\ UNCHANGED setting
  BY DEF Exit, Die, Clash, counts
<1>2. ASSUME Clash(p) PROVE Close(p)
  <2>1. PICK c \in Calls : call[c].proc = p /\ Writes(c)
    BY <1>2 DEF Clash
  <2>2. call[c].pc # "idle"
    BY <2>1 DEF Writes
  <2>3. db[p] = "open"
    BY <2>1, <2>2 DEF AdminIInv, LivesFit
  <2> QED BY <1>2, <2>3 DEF Clash, Close
<1>3. Close(p) \/ Killed(p)
  BY <1>2 DEF Exit, Die
<1>4. SchemaIInv'
  BY <1>3, FaultKeeps DEF AdminIInv
<1>5. \A q \in Procs : db'[q] = IF q = p THEN "closed" ELSE db[q]
  BY <1>3 DEF AdminIInv, SchemaIInv, SchemaTypeOK, Close, Killed
<1>6. \A q \in Procs : life'[q] = IF q = p THEN "down" ELSE life[q]
  BY <1>1 DEF Gone, AdminIInv, CallTypes
<1>7. \A c \in Calls : call'[c] = IF call[c].proc = p THEN Idle ELSE call[c]
  BY <1>1 DEF Gone
<1>8. CallTypes'
  <2>1. life' \in [Procs -> {"down", "opening", "overrides", "chain", "count", "hash",
                             "force", "serving", "failed"}]
    BY <1>1 DEF Gone, AdminIInv, CallTypes
  <2>2. call' \in [Calls -> CallRecords]
    BY <1>1, IdleIsCall DEF Gone, AdminIInv, CallTypes
  <2> QED BY <1>1, <2>1, <2>2 DEF AdminIInv, CallTypes
<1>9. LivesFit'
  <2>1. \A c \in Calls : call'[c].pc # "idle" =>
          /\ call[c].pc # "idle" /\ call'[c].proc \in Procs \ {p}
          /\ call'[c].proc = call[c].proc
    BY <1>7, IdleIsCall DEF AdminIInv, CallTypes, CallRecords
  <2>2. \A c \in Calls : call'[c].pc # "idle" => life'[call'[c].proc] = "serving"
    BY <1>6, <2>1 DEF AdminIInv, LivesFit
  <2>3. \A q \in Procs :
          /\ life'[q] = "down" => db'[q] = "closed"
          /\ life'[q] = "opening" => db'[q] \in Opening
          /\ life'[q] \in {"overrides", "chain", "count", "hash", "force", "serving"} =>
               db'[q] = "open"
          /\ life'[q] = "failed" => db'[q] \in {"open", "failed"}
    BY <1>5, <1>6 DEF AdminIInv, LivesFit
  <2> QED BY <2>2, <2>3 DEF LivesFit
<1> QED BY <1>4, <1>8, <1>9 DEF AdminIInv

LEMMA AdminNextKeeps == AdminIInv /\ [Next]_vars => AdminIInv'
<1> SUFFICES ASSUME AdminIInv, [Next]_vars PROVE AdminIInv'
  OBVIOUS
<1>1. ASSUME UNCHANGED <<svars, setting, life, call>> PROVE AdminIInv'
  BY <1>1 DEF svars, AdminIInv, SchemaIInv, SchemaTypeOK, MigratesInOrder, AloneIsAlone,
              RecordFollows, AloneItOpens, CallTypes, LivesFit
<1>2. CASE UNCHANGED vars
  BY <1>1, <1>2 DEF vars, counts, proc
<1>3. CASE EditFile
  BY <1>1, <1>3 DEF EditFile, proc
<1>4. ASSUME NEW p \in Procs, Reload(p) \/ \E s \in Sessions : Lapse(p, s) PROVE AdminIInv'
  BY <1>1, <1>4 DEF Reload, Lapse, counts
<1> QED BY <1>2, <1>3, <1>4, OpeningKeeps, BeginningKeeps, RequestKeeps, EndKeeps DEF Next

\* With their lives around it too, with edits, requests, reloads and crashes,
\* processes open the database as Schema says.
THEOREM AdminCorrect == Spec => []AdminIInv
BY AdminInitHolds, AdminNextKeeps, PTL DEF Spec

\* Every process that serves has the whole schema.
THEOREM ServesMigrated == Spec => []OpenIsMigrated
<1>1. AdminIInv => OpenIsMigrated
  BY DEF AdminIInv, SchemaIInv, SchemaTypeOK, MigratesInOrder, OpenIsMigrated
<1> QED BY <1>1, AdminCorrect, PTL

\* A process that begins alone, and is not disturbed by a fault, opens.
THEOREM AloneItServes == Spec => []AloneItOpens
<1>1. AdminIInv => AloneItOpens
  BY DEF AdminIInv, SchemaIInv
<1> QED BY <1>1, AdminCorrect, PTL

-----------------------------------------------------------------------------
(* What a request is about *)

\* A request about a name, a password or an upstream carries one.
RequestsFit ==
  \A c \in Calls :
    /\ call[c].pc \in {"toggle", "set", "save"} => call[c].request \in Toggles
    /\ call[c].pc = "compare" => call[c].request \in Logins
    /\ call[c].pc = "change" => call[c].request \in Changes
    /\ call[c].pc \in {"post", "put", "delete"} => call[c].request \in Edits

LEMMA KindsFit ==
  \A r \in Requests \cup {NoRequest} :
    /\ r.kind = "login" => r \in Logins
    /\ r.kind = "toggle" => r \in Toggles
    /\ r.kind = "change" => r \in Changes
    /\ r.kind \in {"post", "put", "delete"} => r \in Edits
BY DEF Requests, NoRequest, Logins, Changes, Toggles, Edits

LEMMA RequestsFitStep ==
  ASSUME AdminIInv, RequestsFit, [Next]_vars
  PROVE  RequestsFit'
<1> USE DEF RequestsFit
<1>1. call \in [Calls -> CallRecords]
  BY DEF AdminIInv, CallTypes
<1>2. CASE UNCHANGED call
  BY <1>2
<1>3. ASSUME NEW p \in Procs, Gone(p) PROVE RequestsFit'
  BY <1>3, IdleIsCall DEF Gone
<1>4. ASSUME NEW c \in Calls, call' = [call EXCEPT ![c] = Idle] PROVE RequestsFit'
  BY <1>1, <1>4, IdleIsCall
<1>5. ASSUME NEW c \in Calls, NEW l \in {"session", "save", "unforce"},
             call' = [call EXCEPT ![c].pc = l], l = "save" => call[c].pc = "set"
      PROVE  RequestsFit'
  <2>1. /\ call'[c].pc = l /\ call'[c].request = call[c].request
        /\ \A d \in Calls \ {c} : call'[d] = call[d]
    BY <1>1, <1>5 DEF CallRecords
  <2> QED BY <1>5, <2>1
<1>6. ASSUME NEW c \in Calls, Arrive(c) PROVE RequestsFit'
  <2>1. PICK p \in Procs, r \in setting.requests, s \in Sessions :
          call' = [call EXCEPT ![c] =
            [pc |-> IF r.kind = "login" THEN "compare" ELSE "auth",
             proc |-> p, request |-> r, session |-> s, on |-> FALSE]]
    BY <1>6 DEF Arrive
  <2>2. /\ call'[c].pc \in {"compare", "auth"} /\ \A d \in Calls \ {c} : call'[d] = call[d]
        /\ call'[c].pc = "compare" => r.kind = "login" /\ call'[c].request = r
    BY <1>1, <2>1
  <2>3. r \in Requests
    BY <2>1, AdminAssumption DEF AdminIInv, CallTypes
  <2>4. call'[c].pc = "compare" => call'[c].request \in Logins
    BY <2>2, <2>3, KindsFit
  <2> HIDE DEF RequestsFit
  <2> QED BY <2>2, <2>4 DEF RequestsFit
<1>7. ASSUME NEW c \in Calls, Authorize(c) PROVE RequestsFit'
  <2>1. CASE call' = [call EXCEPT ![c].pc = call[c].request.kind]
    <3>1. /\ call'[c].pc = call[c].request.kind /\ call'[c].request = call[c].request
          /\ \A d \in Calls \ {c} : call'[d] = call[d]
      BY <1>1, <2>1 DEF CallRecords
    <3>2. call[c].request \in Requests \cup {NoRequest}
      BY <1>1 DEF CallRecords
    <3> HIDE DEF RequestsFit
    <3>3. /\ call'[c].pc \in {"toggle", "set", "save"} => call'[c].request \in Toggles
          /\ call'[c].pc # "compare"
          /\ call'[c].pc = "change" => call'[c].request \in Changes
          /\ call'[c].pc \in {"post", "put", "delete"} => call'[c].request \in Edits
      BY <3>1, <3>2, KindsFit, RequestKinds
    <3> QED BY <3>1, <3>3 DEF RequestsFit
  <2> QED BY <1>4, <1>7, <2>1 DEF Authorize, Goto, End
<1>8. ASSUME NEW c \in Calls, ReadToggle(c) PROVE RequestsFit'
  <2>1. /\ call[c].pc = "toggle" /\ call'[c].pc = "set" /\ call'[c].request = call[c].request
        /\ \A d \in Calls \ {c} : call'[d] = call[d]
    BY <1>1, <1>8 DEF ReadToggle, CallRecords
  <2> QED BY <2>1
<1>9. ASSUME NEW c \in Calls,
             \/ Compare(c) \/ AddSession(c) \/ ChangeHash(c) \/ ChangeForce(c)
             \/ SetToggle(c) \/ SaveToggle(c) \/ EditUpstream(c)
      PROVE  RequestsFit'
  BY <1>4, <1>5, <1>9 DEF Compare, AddSession, ChangeHash, ChangeForce, SetToggle, SaveToggle,
                          EditUpstream, Goto, End
<1>10. ASSUME NEW p \in Procs,
              \/ Start(p) \/ Migrate(p) \/ LoadOverrides(p) \/ BuildFirst(p) \/ Reload(p)
              \/ CountPassword(p) \/ SetFirstHash(p) \/ SetForce(p)
              \/ \E s \in Sessions : Lapse(p, s)
       PROVE  RequestsFit'
  BY <1>2, <1>10 DEF Start, Migrate, LoadOverrides, BuildFirst, Reload, CountPassword,
                     SetFirstHash, SetForce, Lapse
<1> QED
  BY <1>2, <1>3, <1>6, <1>7, <1>8, <1>9, <1>10
     DEF Next, vars, EditFile, Exit, Die, Clash

-----------------------------------------------------------------------------
(* The password *)

\* Without a password nobody has logged in.
NoEntry ==
  /\ sessions \in [Procs -> [Sessions -> {"none", "live", "lapsed"}]]
  /\ hash = "none" =>
       /\ ~changed /\ ~generated
       /\ \A p \in Procs, s \in Sessions : sessions[p][s] = "none"
       /\ \A c \in Calls : call[c].pc \in {"idle", "compare", "auth"}

\* One start sets the first password, when there is none, and marks it; a change
\* that has still to clear the mark has replaced that password.
PasswordFits ==
  ~together /\ "password" \notin harm =>
    /\ \A p \in Procs : life[p] = "hash" => hash = "none"
    /\ \A p, q \in Procs : life[p] = "hash" /\ life[q] = "hash" => p = q
    /\ generated =>
         /\ ~changed
         /\ force = "true" \/ \E p \in Procs : life[p] = "force"
         /\ \A c \in Calls : call[c].pc # "unforce"

\* Where a request may go.
LEMMA CallMoves ==
  ASSUME AdminIInv, NEW c \in Calls,
         \/ Arrive(c) \/ Compare(c) \/ AddSession(c) \/ Authorize(c)
         \/ ReadToggle(c) \/ SetToggle(c) \/ SaveToggle(c) \/ EditUpstream(c)
  PROVE  \A d \in Calls : call'[d].pc = "unforce" => call[d].pc = "unforce"
<1>1. call \in [Calls -> CallRecords]
  BY DEF AdminIInv, CallTypes
<1>2. CASE call' = [call EXCEPT ![c] = Idle]
  BY <1>1, <1>2, IdleIsCall
<1>3. ASSUME NEW l \in {"session", "set", "save"}, call' = [call EXCEPT ![c].pc = l]
      PROVE  \A d \in Calls : call'[d].pc = "unforce" => call[d].pc = "unforce"
  BY <1>1, <1>3 DEF CallRecords
<1>4. CASE Arrive(c)
  <2>1. PICK p \in Procs, r \in setting.requests, s \in Sessions :
          call' = [call EXCEPT ![c] =
            [pc |-> IF r.kind = "login" THEN "compare" ELSE "auth",
             proc |-> p, request |-> r, session |-> s, on |-> FALSE]]
    BY <1>4 DEF Arrive
  <2> QED BY <1>1, <2>1
<1>5. CASE Authorize(c)
  <2>1. call[c].request.kind # "unforce"
    BY <1>1, RequestKinds DEF CallRecords
  <2>2. CASE call' = [call EXCEPT ![c].pc = call[c].request.kind]
    BY <1>1, <2>1, <2>2 DEF CallRecords
  <2> QED BY <1>2, <1>5, <2>2 DEF Authorize, Goto, End
<1>6. CASE ReadToggle(c)
  BY <1>1, <1>6 DEF ReadToggle, CallRecords
<1> QED BY <1>2, <1>3, <1>4, <1>5, <1>6
        DEF Compare, AddSession, SetToggle, SaveToggle, EditUpstream, Goto, End

LEMMA NoEntryStep ==
  ASSUME AdminIInv, RequestsFit, NoEntry, [Next]_vars
  PROVE  NoEntry'
<1>0. \A c \in Calls : Arrive(c) => \E p \in Procs, r \in setting.requests, s \in Sessions :
          call' = [call EXCEPT ![c] =
            [pc |-> IF r.kind = "login" THEN "compare" ELSE "auth",
             proc |-> p, request |-> r, session |-> s, on |-> FALSE]]
  BY DEF Arrive
<1> USE AdminAssumption DEF NoEntry
<1>1. call \in [Calls -> CallRecords]
  BY DEF AdminIInv, CallTypes
<1>2. ASSUME UNCHANGED <<hash, changed, generated, sessions, call>> PROVE NoEntry'
  BY <1>2
<1>3. CASE UNCHANGED vars \/ EditFile
  BY <1>2, <1>3 DEF EditFile, vars, table, proc, history
<1>4. ASSUME NEW p \in Procs,
             \/ Start(p) \/ Migrate(p) \/ LoadOverrides(p) \/ BuildFirst(p) \/ Reload(p)
             \/ CountPassword(p) \/ SetForce(p)
      PROVE  NoEntry'
  BY <1>2, <1>4 DEF Start, Migrate, LoadOverrides, BuildFirst, Reload, CountPassword, SetForce,
                    table, proc, history
<1>5. ASSUME NEW p \in Procs, SetFirstHash(p) PROVE NoEntry'
  <2>1. UNCHANGED <<sessions, call, changed>> /\ (hash' = Default \/ UNCHANGED <<hash, generated>>)
    BY <1>5 DEF SetFirstHash
  <2> QED BY <2>1
<1>6. ASSUME NEW p \in Procs, NEW s \in Sessions, Lapse(p, s) PROVE NoEntry'
  <2>1. /\ sessions[p][s] = "live" /\ sessions' = [sessions EXCEPT ![p][s] = "lapsed"]
        /\ UNCHANGED <<hash, changed, generated, call>>
    BY <1>6 DEF Lapse, table, history
  <2> QED BY <2>1
<1>7. ASSUME NEW p \in Procs, Exit(p) \/ Die(p) \/ Clash(p) PROVE NoEntry'
  <2>1. /\ sessions' = [sessions EXCEPT ![p] = NoSessions]
        /\ call' = [c \in Calls |-> IF call[c].proc = p THEN Idle ELSE call[c]]
        /\ UNCHANGED <<hash, changed, generated>>
    BY <1>7 DEF Exit, Die, Clash, Gone, table, history
  <2>2. sessions' \in [Procs -> [Sessions -> {"none", "live", "lapsed"}]]
    BY <2>1 DEF NoSessions
  <2>3. ASSUME \A q \in Procs, s \in Sessions : sessions[q][s] = "none"
        PROVE  \A q \in Procs, s \in Sessions : sessions'[q][s] = "none"
    BY <2>1, <2>3 DEF NoSessions
  <2>4. ASSUME \A c \in Calls : call[c].pc \in {"idle", "compare", "auth"}
        PROVE  \A c \in Calls : call'[c].pc \in {"idle", "compare", "auth"}
    BY <2>1, <2>4, IdleIsCall
  <2> QED BY <2>1, <2>2, <2>3, <2>4
<1>8. ASSUME NEW c \in Calls, Arrive(c) PROVE NoEntry'
  <2>1. PICK p \in Procs, r \in setting.requests, s \in Sessions :
          call' = [call EXCEPT ![c] =
            [pc |-> IF r.kind = "login" THEN "compare" ELSE "auth",
             proc |-> p, request |-> r, session |-> s, on |-> FALSE]]
    BY <1>8, <1>0, Zenon
  <2>2. call'[c].pc \in {"compare", "auth"} /\ \A d \in Calls \ {c} : call'[d] = call[d]
    BY <1>1, <2>1
  <2>3. UNCHANGED <<hash, changed, generated, sessions>>
    BY <1>8 DEF Arrive, table, proc, history
  <2> QED BY <2>2, <2>3
<1>9. ASSUME NEW c \in Calls, Compare(c) PROVE NoEntry'
  <2>1. UNCHANGED <<hash, changed, generated, sessions>>
    BY <1>9 DEF Compare, table, proc, history
  <2>2. CASE call' = [call EXCEPT ![c] = Idle]
    BY <1>1, <2>1, <2>2, IdleIsCall
  <2>3. CASE call[c].request.password = hash /\ hash = "none"
    \* A request that is compared carries a password.
    <3>1. call[c].pc = "compare"
      BY <1>9 DEF Compare
    <3>2. call[c].request \in Logins
      BY <3>1 DEF RequestsFit
    <3> QED BY <2>3, <3>2 DEF Logins
  <2>4. CASE hash # "none"
    BY <2>1, <2>4
  <2> QED BY <1>9, <2>2, <2>3, <2>4 DEF Compare, End
<1>10. ASSUME NEW c \in Calls, AddSession(c) PROVE NoEntry'
  <2>1. /\ call[c].pc = "session" /\ UNCHANGED hash
        /\ sessions' = [sessions EXCEPT ![call[c].proc][call[c].session] = "live"]
    BY <1>10 DEF AddSession, table
  <2> QED BY <2>1
<1>11. ASSUME NEW c \in Calls, Authorize(c) PROVE NoEntry'
  <2> DEFINE p == call[c].proc
             s == call[c].session
  <2>1. p \in Procs /\ s \in Sessions /\ UNCHANGED <<hash, changed, generated>>
    BY <1>1, <1>11 DEF CallRecords, Authorize, table, history
  <2>2. CASE sessions[p][s] = "live"
    <3>1. sessions' = sessions
      BY <1>11, <2>2 DEF Authorize
    <3> QED BY <2>1, <2>2, <3>1
  <2>3. CASE sessions[p][s] # "live"
    <3>1. sessions' = [sessions EXCEPT ![p][s] = "none"] /\ call' = [call EXCEPT ![c] = Idle]
      BY <1>11, <2>3 DEF Authorize, End
    <3>2. sessions' \in [Procs -> [Sessions -> {"none", "live", "lapsed"}]]
      BY <3>1
    <3>3. \A q \in Procs, t \in Sessions : sessions'[q][t] \in {sessions[q][t], "none"}
      BY <2>1, <3>1
    <3>4. \A d \in Calls : call'[d].pc \in {call[d].pc, "idle"}
      BY <1>1, <3>1, IdleIsCall
    <3> QED BY <2>1, <3>2, <3>3, <3>4
  <2> QED BY <2>2, <2>3
<1>12. ASSUME NEW c \in Calls, ChangeHash(c) PROVE NoEntry'
  <2>1. call[c].pc = "change" /\ UNCHANGED sessions
    BY <1>12 DEF ChangeHash, proc
  <2>2. hash # "none"
    BY <2>1
  <2>3. call[c].request \in Changes
    BY <2>1 DEF RequestsFit
  <2>4. hash' # "none"
    BY <1>12, <2>2, <2>3 DEF ChangeHash, Changes
  <2> QED BY <2>1, <2>4
<1>13. ASSUME NEW c \in Calls,
              ChangeForce(c) \/ ReadToggle(c) \/ SetToggle(c) \/ SaveToggle(c) \/ EditUpstream(c)
       PROVE  NoEntry'
  <2>1. call[c].pc \in {"unforce", "toggle", "set", "save", "post", "put", "delete"}
    BY <1>13 DEF ChangeForce, ReadToggle, SetToggle, SaveToggle, EditUpstream
  <2>2. UNCHANGED <<hash, sessions>>
    BY <1>13 DEF ChangeForce, ReadToggle, SetToggle, SaveToggle, EditUpstream, table, proc
  <2> QED BY <2>1, <2>2
<1> QED
  BY <1>3, <1>4, <1>5, <1>6, <1>7, <1>8, <1>9, <1>10, <1>11, <1>12, <1>13 DEF Next

LEMMA PasswordStep ==
  ASSUME AdminIInv, RequestsFit, NoEntry, PasswordFits, [Next]_vars
  PROVE  PasswordFits'
<1> USE AdminAssumption DEF PasswordFits
<1>1. /\ life \in [Procs -> {"down", "opening", "overrides", "chain", "count", "hash",
                             "force", "serving", "failed"}]
      /\ call \in [Calls -> CallRecords]
  BY DEF AdminIInv, CallTypes
\* Steps that leave the rows alone and begin nothing.
<1>2. ASSUME UNCHANGED <<hash, force, changed, generated, together>>,
             "password" \in harm => "password" \in harm',
             \A p \in Procs : life'[p] \in {"hash", "force"} => life'[p] = life[p],
             "password" \notin harm' =>
               \A p \in Procs : life[p] = "force" => life'[p] = "force",
             \A c \in Calls : call'[c].pc = "unforce" => call[c].pc = "unforce"
      PROVE  PasswordFits'
  BY <1>2
<1>3. CASE UNCHANGED vars \/ EditFile
  BY <1>2, <1>3 DEF EditFile, vars, table, proc, history
<1>4. ASSUME NEW p \in Procs, NEW l \in {"opening", "overrides", "chain", "count", "serving",
                                         "failed"},
             life' = [life EXCEPT ![p] = l], life[p] # "force",
             UNCHANGED <<hash, force, changed, generated, together, call>>,
             "password" \in harm => "password" \in harm'
      PROVE  PasswordFits'
  BY <1>1, <1>2, <1>4
<1>5. ASSUME NEW p \in Procs, Start(p) \/ Migrate(p) \/ LoadOverrides(p) \/ BuildFirst(p)
      PROVE  PasswordFits'
  <2>1. /\ UNCHANGED <<hash, force, changed, generated, together, call>>
        /\ "password" \in harm => "password" \in harm'
    BY <1>5 DEF Start, Migrate, LoadOverrides, BuildFirst, table, history
  <2>2. life[p] # "force"
    BY <1>5 DEF Start, Migrate, LoadOverrides, BuildFirst, Migrates, ReadVersion, Apply, Record,
                OpenFails, Opening, AdminIInv, LivesFit
  <2>3. \/ life' = [life EXCEPT ![p] = "opening"] \/ life' = [life EXCEPT ![p] = "failed"]
        \/ life' = [life EXCEPT ![p] = "serving"] \/ life' = [life EXCEPT ![p] = "overrides"]
        \/ life' = [life EXCEPT ![p] = "chain"] \/ life' = [life EXCEPT ![p] = "count"]
    BY <1>5 DEF Start, Migrate, LoadOverrides, BuildFirst
  <2> QED BY <1>4, <2>1, <2>2, <2>3
<1>6. ASSUME NEW p \in Procs, CountPassword(p)
      PROVE  PasswordFits'
  <2>1. /\ UNCHANGED <<hash, force, changed, generated, call>> /\ life[p] = "count"
        /\ together' = (together \/ (life'[p] = "hash" /\ \E q \in Procs \ {p} : life[q] = "hash"))
    BY <1>6 DEF CountPassword, table
  <2>2. CASE hash # "none"
    <3>1. CASE life' = [life EXCEPT ![p] = "serving"] /\ UNCHANGED harm
      BY <1>1, <2>1, <2>2, <3>1
    <3>2. CASE "password" \in harm'
      BY <3>2
    <3> QED BY <1>6, <2>2, <3>1, <3>2 DEF CountPassword, Settle, HasPassword, Unnoticed
  <2>3. CASE hash = "none"
    <3>1. life' = [life EXCEPT ![p] = "hash"] /\ ("password" \in harm => "password" \in harm')
      BY <1>6, <2>3 DEF CountPassword, Settle, HasPassword, Unnoticed
    <3>2. life'[p] = "hash" /\ \A q \in Procs \ {p} : life'[q] = life[q]
      BY <1>1, <3>1
    <3>3. ~together' => \A q \in Procs \ {p} : life'[q] # "hash"
      BY <2>1, <3>2
    <3>4. ~generated'
      BY <2>1, <2>3 DEF NoEntry
    <3> QED BY <2>1, <2>3, <3>1, <3>2, <3>3, <3>4
  <2> QED BY <2>2, <2>3
<1>7. ASSUME NEW p \in Procs, SetFirstHash(p)
      PROVE  PasswordFits'
  <2>1. /\ UNCHANGED <<force, changed, together, call>> /\ life[p] = "hash"
        /\ life' = [life EXCEPT ![p] = "force"]
    BY <1>7 DEF SetFirstHash, Settle
  <2>2. life'[p] = "force" /\ \A q \in Procs \ {p} : life'[q] = life[q]
    BY <1>1, <2>1
  <2>3. CASE UNCHANGED <<hash, generated>> /\ Unnoticed({})
    BY <1>1, <2>1, <2>2, <2>3 DEF Unnoticed
  <2>4. CASE hash' = Default /\ generated' = TRUE /\ UNCHANGED harm
    <3> SUFFICES ASSUME ~together, "password" \notin harm
                 PROVE  /\ \A q \in Procs : life'[q] # "hash"
                        /\ ~changed /\ \A c \in Calls : call[c].pc # "unforce"
      BY <2>1, <2>2, <2>4
    <3>1. hash = "none" /\ \A q \in Procs \ {p} : life[q] # "hash"
      BY <2>1
    <3> QED BY <2>2, <3>1 DEF NoEntry
  <2> QED BY <1>7, <2>3, <2>4 DEF SetFirstHash
<1>8. ASSUME NEW p \in Procs, SetForce(p)
      PROVE  PasswordFits'
  <2>1. /\ UNCHANGED <<hash, changed, generated, together, call>>
        /\ life' = [life EXCEPT ![p] = "serving"]
    BY <1>8 DEF SetForce, Settle
  <2>2. CASE Unnoticed({"password"})
    BY <2>2 DEF Unnoticed
  <2>3. CASE force' = "true" /\ UNCHANGED harm
    BY <1>1, <2>1, <2>3
  <2> QED BY <1>8, <2>2, <2>3 DEF SetForce
<1>9. ASSUME NEW p \in Procs, Exit(p) \/ Die(p) \/ Clash(p)
      PROVE  PasswordFits'
  <2>1. /\ life' = [life EXCEPT ![p] = "down"]
        /\ \A c \in Calls : call'[c].pc = "unforce" => call[c].pc = "unforce"
    BY <1>9, IdleIsCall DEF Exit, Die, Clash, Gone
  <2>2. UNCHANGED <<hash, force, changed, generated, together>> /\ harm \subseteq harm'
    BY <1>9 DEF Exit, Die, Clash, table, history
  <2>3. life[p] = "force" => "password" \in harm'
    <3>1. ASSUME Clash(p) PROVE life[p] = "serving"
      BY <3>1 DEF Clash, Writes, AdminIInv, LivesFit
    <3> QED BY <1>9, <3>1 DEF Exit, Die
  <2> QED BY <1>1, <1>2, <2>1, <2>2, <2>3
<1>10. ASSUME NEW c \in Calls, ChangeHash(c)
       PROVE  PasswordFits'
  <2>1. UNCHANGED <<force, life, together>> /\ call[c].pc = "change"
    BY <1>10 DEF ChangeHash, proc
  <2>2. CASE Unnoticed({"password"})
    BY <2>2 DEF Unnoticed
  <2>3. CASE generated' = FALSE /\ UNCHANGED harm
    <3>1. hash # "none"
      BY <2>1 DEF NoEntry
    <3> QED BY <2>1, <2>3, <3>1
  <2> QED BY <1>10, <2>2, <2>3 DEF ChangeHash
<1>11. ASSUME NEW c \in Calls, ChangeForce(c)
       PROVE  PasswordFits'
  <2>1. /\ UNCHANGED <<hash, changed, generated, life, together>>
        /\ call[c].pc = "unforce" /\ call' = [call EXCEPT ![c] = Idle]
        /\ harm' = harm
    BY <1>11 DEF ChangeForce, End, Unnoticed, proc
  <2> QED BY <2>1
<1>12. ASSUME NEW c \in Calls,
              \/ Arrive(c) \/ Compare(c) \/ AddSession(c) \/ Authorize(c)
              \/ ReadToggle(c) \/ SetToggle(c) \/ SaveToggle(c) \/ EditUpstream(c)
       PROVE  PasswordFits'
  <2>1. /\ UNCHANGED <<hash, force, life, changed, generated, together>>
        /\ "password" \in harm => "password" \in harm'
    BY <1>12 DEF Arrive, Compare, AddSession, Authorize, ReadToggle, SetToggle, SaveToggle,
                 EditUpstream, Unnoticed, table, proc, history
  <2>2. \A d \in Calls : call'[d].pc = "unforce" => call[d].pc = "unforce"
    BY <1>12, CallMoves
  <2> QED BY <1>2, <2>1, <2>2
<1>13. ASSUME NEW p \in Procs, Reload(p) \/ \E s \in Sessions : Lapse(p, s)
       PROVE  PasswordFits'
  BY <1>2, <1>13 DEF Reload, Lapse, table, history
<1> QED
  BY <1>3, <1>5, <1>6, <1>7, <1>8, <1>9, <1>10, <1>11, <1>12, <1>13 DEF Next

\* Whatever starts, logins and changes meet, the generated password is marked as to
\* be changed and does not come back once it has been.
THEOREM DefaultMustBeChangedCorrect == Spec => []DefaultMustBeChanged
<1>1. Init => RequestsFit /\ NoEntry /\ PasswordFits
  <2> SUFFICES ASSUME Init PROVE RequestsFit /\ NoEntry /\ PasswordFits
    OBVIOUS
  <2>1. RequestsFit /\ \A c \in Calls : call[c].pc = "idle"
    BY IdleIsCall DEF Init, RequestsFit
  <2>2. sessions \in [Procs -> [Sessions -> {"none", "live", "lapsed"}]]
        /\ \A p \in Procs, s \in Sessions : sessions[p][s] = "none"
    BY DEF Init, NoSessions
  <2> QED BY <2>1, <2>2 DEF Init, NoEntry, PasswordFits
<1>2. AdminIInv /\ RequestsFit /\ NoEntry /\ PasswordFits /\ [Next]_vars =>
      RequestsFit' /\ NoEntry' /\ PasswordFits'
  BY RequestsFitStep, NoEntryStep, PasswordStep
<1>3. PasswordFits => DefaultMustBeChanged
  BY Zenon DEF PasswordFits, DefaultMustBeChanged
<1> QED BY <1>1, <1>2, <1>3, AdminCorrect, PTL DEF Spec

-----------------------------------------------------------------------------
(* Types *)

\* What the file, the table and a process hold of a name is a mark, a chain is of
\* middlewares that there are, and every row is one that the code writes.
SettingTypes ==
  /\ file \in [Names -> Marks] /\ saved \in [Names -> Marks]
  /\ cfg \in [Procs -> [Names -> Marks]]
  /\ chain \in [Procs -> SUBSET Known]
  /\ toggled \in [Names -> Nat]
RowTypes ==
  /\ hash \in Passwords \cup {"none"} /\ force \in {"none", "true", "false"}
  /\ upstreams \in [Upstreams -> {"none", "active", "inactive"}]
  /\ sessions \in [Procs -> [Sessions -> {"none", "live", "lapsed"}]]

\* Only what can be built is in a chain.
LEMMA BuiltIsKnown ==
  ASSUME NEW f, NEW store, Builds(f, store)
  PROVE  Enabled(f) \in SUBSET Known
BY DEF Builds, CanBuild, Enabled

\* The request that a step at c is about.
LEMMA RequestAt ==
  ASSUME AdminIInv, RequestsFit, NEW c \in Calls
  PROVE  /\ call[c].proc \in Procs /\ call[c].session \in Sessions
         /\ call[c].pc \in {"toggle", "set", "save"} => call[c].request.name \in Names
         /\ call[c].pc = "change" => call[c].request.password \in Passwords
         /\ call[c].pc \in {"post", "put", "delete"} => call[c].request.upstream \in Upstreams
BY DEF AdminIInv, CallTypes, CallRecords, RequestsFit, Toggles, Changes, Edits

LEMMA SettingTypesStep ==
  ASSUME AdminIInv, RequestsFit, SettingTypes, [Next]_vars
  PROVE  SettingTypes'
<1> USE DEF SettingTypes
<1>1. CASE UNCHANGED <<file, saved, cfg, chain, toggled>>
  BY <1>1
<1>2. CASE UNCHANGED vars
  BY <1>1, <1>2 DEF vars, table, proc, history
<1>3. CASE EditFile
  <2>1. UNCHANGED <<saved, cfg, chain, toggled>> /\ file' \in setting.files
    BY <1>3 DEF EditFile, table, proc
  <2>2. setting.files \subseteq [Names -> Marks]
    BY AdminAssumption DEF AdminIInv, CallTypes
  <2> QED BY <2>1, <2>2
<1>4. ASSUME NEW p \in Procs, Start(p) PROVE SettingTypes'
  BY <1>4 DEF Start, table, history
<1>5. ASSUME NEW p \in Procs, LoadOverrides(p) PROVE SettingTypes'
  <2>1. UNCHANGED <<file, saved, chain, toggled>>
    BY <1>5 DEF LoadOverrides, table
  <2>2. CASE UNCHANGED cfg
    BY <2>1, <2>2
  <2>3. CASE cfg' = [cfg EXCEPT ![p] = [n \in Names |->
                       IF saved[n] # "none" THEN saved[n] ELSE cfg[p][n]]]
    BY <2>1, <2>3
  <2> QED BY <1>5, <2>2, <2>3 DEF LoadOverrides
<1>6. ASSUME NEW p \in Procs, NEW f, NEW store, Builds(f, store),
             chain' = [chain EXCEPT ![p] = Enabled(f)],
             UNCHANGED <<file, saved, cfg, toggled>>
      PROVE  SettingTypes'
  BY <1>6, BuiltIsKnown
<1>7. ASSUME NEW p \in Procs, BuildFirst(p) \/ Reload(p) PROVE SettingTypes'
  BY <1>1, <1>6, <1>7 DEF BuildFirst, Reload, table, history
<1>8. ASSUME NEW p \in Procs, Exit(p) \/ Die(p) \/ Clash(p) PROVE SettingTypes'
  <2>1. Gone(p) /\ UNCHANGED <<file, saved, toggled>>
    BY <1>8 DEF Exit, Die, Clash, table, history
  <2>2. [n \in Names |-> "none"] \in [Names -> Marks]
    BY DEF Marks
  <2> QED BY <2>1, <2>2 DEF Gone
<1>9. ASSUME NEW p \in Procs,
             \/ Migrate(p) \/ CountPassword(p) \/ SetFirstHash(p) \/ SetForce(p)
             \/ \E s \in Sessions : Lapse(p, s)
      PROVE  SettingTypes'
  BY <1>1, <1>9 DEF Migrate, CountPassword, SetFirstHash, SetForce, Lapse, table, history
<1>10. ASSUME NEW c \in Calls, ReadToggle(c) PROVE SettingTypes'
  <2>1. UNCHANGED <<file, saved, cfg, chain>>
    BY <1>10 DEF ReadToggle, table, proc
  <2>2. toggled' = [toggled EXCEPT ![call[c].request.name] = @ + 1]
    BY <1>10 DEF ReadToggle
  <2>3. call[c].request.name \in Names
    BY <1>10, RequestAt DEF ReadToggle
  <2> QED BY <2>1, <2>2, <2>3
<1>11. \A on : Mark(on) \in Marks
  BY DEF Mark, Marks
<1>12. ASSUME NEW c \in Calls, SetToggle(c) PROVE SettingTypes'
  <2>1. UNCHANGED <<file, saved, chain, toggled>>
    BY <1>12 DEF SetToggle, table, history
  <2>2. cfg' = [cfg EXCEPT ![call[c].proc][call[c].request.name] = Mark(~call[c].on)]
    BY <1>12 DEF SetToggle
  <2>3. call[c].request.name \in Names /\ call[c].proc \in Procs
    BY <1>12, RequestAt DEF SetToggle
  <2> QED BY <1>11, <2>1, <2>2, <2>3
<1>13. ASSUME NEW c \in Calls, SaveToggle(c) PROVE SettingTypes'
  <2>1. UNCHANGED <<file, cfg, chain, toggled>>
    BY <1>13 DEF SaveToggle, proc
  <2>2. UNCHANGED saved \/ saved' = [saved EXCEPT ![call[c].request.name] = Mark(~call[c].on)]
    BY <1>13 DEF SaveToggle, ToSave
  <2>3. call[c].request.name \in Names
    BY <1>13, RequestAt DEF SaveToggle
  <2> QED BY <1>11, <2>1, <2>2, <2>3
<1>14. ASSUME NEW c \in Calls,
              \/ Arrive(c) \/ Compare(c) \/ AddSession(c) \/ Authorize(c)
              \/ ChangeHash(c) \/ ChangeForce(c) \/ EditUpstream(c)
       PROVE  SettingTypes'
  BY <1>1, <1>14 DEF Arrive, Compare, AddSession, Authorize, ChangeHash, ChangeForce,
                     EditUpstream, table, proc, history
<1> QED
  BY <1>2, <1>3, <1>4, <1>5, <1>7, <1>8, <1>9, <1>10, <1>12, <1>13, <1>14 DEF Next

LEMMA RowTypesStep ==
  ASSUME AdminIInv, RequestsFit, RowTypes, [Next]_vars
  PROVE  RowTypes'
<1> USE DEF RowTypes
<1>1. CASE UNCHANGED <<hash, force, upstreams, sessions>>
  BY <1>1
<1>2. CASE UNCHANGED vars \/ EditFile
  BY <1>1, <1>2 DEF EditFile, vars, table, proc
<1>3. ASSUME NEW p \in Procs,
             Start(p) \/ Migrate(p) \/ LoadOverrides(p) \/ BuildFirst(p) \/ Reload(p)
      PROVE  RowTypes'
  BY <1>1, <1>3 DEF Start, Migrate, LoadOverrides, BuildFirst, Reload, table
<1>4. ASSUME NEW p \in Procs, CountPassword(p) \/ SetFirstHash(p) \/ SetForce(p)
      PROVE  RowTypes'
  <2>1. /\ UNCHANGED <<upstreams, sessions>> /\ hash' \in {hash, Default}
        /\ force' \in {force, "true"}
    BY <1>4 DEF CountPassword, SetFirstHash, SetForce, table
  <2> QED BY <2>1, AdminAssumption
<1>5. ASSUME NEW p \in Procs, Exit(p) \/ Die(p) \/ Clash(p) PROVE RowTypes'
  <2>1. /\ sessions' = [sessions EXCEPT ![p] = NoSessions]
        /\ UNCHANGED <<hash, force, upstreams>>
    BY <1>5 DEF Exit, Die, Clash, Gone, table
  <2> QED BY <2>1 DEF NoSessions
<1>6. ASSUME NEW p \in Procs, NEW s \in Sessions, NEW l \in {"none", "live", "lapsed"},
             sessions' = [sessions EXCEPT ![p][s] = l], UNCHANGED <<hash, force, upstreams>>
      PROVE  RowTypes'
  BY <1>6
<1>7. ASSUME NEW p \in Procs, NEW s \in Sessions, Lapse(p, s) PROVE RowTypes'
  BY <1>6, <1>7 DEF Lapse, table
<1>8. ASSUME NEW c \in Calls, AddSession(c) \/ Authorize(c) PROVE RowTypes'
  <2>1. UNCHANGED <<hash, force, upstreams>>
    BY <1>8 DEF AddSession, Authorize, table
  <2>2. \/ UNCHANGED sessions
        \/ sessions' = [sessions EXCEPT ![call[c].proc][call[c].session] = "live"]
        \/ sessions' = [sessions EXCEPT ![call[c].proc][call[c].session] = "none"]
    BY <1>8 DEF AddSession, Authorize
  <2> QED BY <1>1, <1>6, <2>1, <2>2, RequestAt
<1>9. ASSUME NEW c \in Calls, ChangeHash(c) PROVE RowTypes'
  <2>1. /\ UNCHANGED <<force, upstreams, sessions>>
        /\ hash' \in {hash, call[c].request.password} /\ call[c].pc = "change"
    BY <1>9 DEF ChangeHash, proc
  <2> QED BY <2>1, RequestAt
<1>10. ASSUME NEW c \in Calls, ChangeForce(c) PROVE RowTypes'
  BY <1>10 DEF ChangeForce, proc
<1>11. ASSUME NEW c \in Calls, EditUpstream(c) PROVE RowTypes'
  <2> DEFINE u == call[c].request.upstream
  <2>1. /\ UNCHANGED <<hash, force, sessions>> /\ call[c].pc \in {"post", "put", "delete"}
        /\ upstreams' = [upstreams EXCEPT ![u] = RowAfter(call[c].pc, upstreams[u])]
    BY <1>11 DEF EditUpstream, proc
  <2>2. u \in Upstreams
    BY <2>1, RequestAt
  <2>3. RowAfter(call[c].pc, upstreams[u]) \in {"none", "active", "inactive"}
    BY <2>1, <2>2 DEF RowAfter
  <2> HIDE DEF u
  <2> QED BY <2>1, <2>2, <2>3
<1>12. ASSUME NEW c \in Calls,
              \/ Arrive(c) \/ Compare(c) \/ ReadToggle(c) \/ SetToggle(c) \/ SaveToggle(c)
       PROVE  RowTypes'
  BY <1>1, <1>12 DEF Arrive, Compare, ReadToggle, SetToggle, SaveToggle, table, proc
<1> QED
  BY <1>2, <1>3, <1>4, <1>5, <1>7, <1>8, <1>9, <1>10, <1>11, <1>12 DEF Next

LEMMA TypesInit == Init => RequestsFit /\ SettingTypes /\ RowTypes
<1> SUFFICES ASSUME Init PROVE RequestsFit /\ SettingTypes /\ RowTypes
  OBVIOUS
<1>1. RequestsFit
  BY IdleIsCall DEF Init, RequestsFit
<1>2. SettingTypes
  <2>1. file \in [Names -> Marks]
    BY AdminAssumption DEF Init
  <2> QED BY <2>1 DEF Init, SettingTypes, Marks
<1>3. RowTypes
  BY DEF Init, RowTypes, NoSessions
<1> QED BY <1>1, <1>2, <1>3

\* The settings are of their types, and a process that opens the database by
\* itself, not killed on the way, opens it.
THEOREM AdminInvCorrect == Spec => []AdminInv
<1>1. /\ Init => RequestsFit /\ SettingTypes /\ RowTypes
      /\ AdminIInv /\ RequestsFit /\ SettingTypes /\ RowTypes /\ [Next]_vars =>
           RequestsFit' /\ SettingTypes' /\ RowTypes'
  BY TypesInit, RequestsFitStep, SettingTypesStep, RowTypesStep
<1>2. AdminIInv /\ SettingTypes /\ RowTypes => AdminInv
  <2> SUFFICES ASSUME AdminIInv, SettingTypes, RowTypes PROVE AdminInv
    OBVIOUS
  <2>1. \A c \in Calls : call[c].request \in Requests \cup {NoRequest} /\ call[c].on \in BOOLEAN
    BY DEF AdminIInv, CallTypes, CallRecords
  <2>2. SchemaTypeOK /\ AloneItOpens
    BY DEF AdminIInv, SchemaIInv
  <2> QED BY <2>1, <2>2 DEF AdminInv, TypeOK, AdminIInv, CallTypes, SettingTypes, RowTypes
<1> QED BY <1>1, <1>2, AdminCorrect, PTL DEF Spec
-----------------------------------------------------------------------------
(* Toggles *)

Ready == {"chain", "count", "hash", "force", "serving"} \* with the saved toggles

\* A name that nobody else was at is its request's alone: what the request saves,
\* the other processes have still to load.
ToggleIsAlone ==
  \A c \in Calls :
    LET n == call[c].request.name
        p == call[c].proc IN
    call[c].pc \in {"set", "save"} /\ n \notin contested =>
      /\ \A d \in Calls \ {c} :
           call[d].pc \in {"set", "save"} => call[d].request.name # n
      /\ \A q \in Procs \ {p} : setting.kind[q] # "command" => life[q] \notin Ready
      /\ call[c].pc = "save" => cfg[p][n] = Mark(~call[c].on)

\* A mark of a name is a file's, or else "off" is from one toggle and "on" from a
\* second.
Earned(n, m) ==
  \/ m = "none" \/ n \in mentioned
  \/ m = "off" /\ toggled[n] >= 1
  \/ toggled[n] >= 2

MarksAreEarned ==
  /\ \A n \in Names : /\ file[n] # "none" => n \in mentioned
                      /\ Earned(n, saved[n])
                      /\ \A p \in Procs : Earned(n, cfg[p][n])
  /\ \A c \in Calls : call[c].pc \in {"set", "save"} =>
                        Earned(call[c].request.name, Mark(~call[c].on))
  /\ OneToggleIsHarmless

\* A request is between two statements of a toggle because it was or has just
\* read; and it leaves by saving, or with its process.
LEMMA TogglesMove ==
  ASSUME AdminIInv, [Next]_vars, NEW c \in Calls
  PROVE  /\ call'[c].pc \in {"set", "save"} =>
              call'[c] = call[c] \/ ReadToggle(c) \/ SetToggle(c)
         /\ call[c].pc \in {"set", "save"} =>
              \/ call'[c] = call[c] \/ SetToggle(c) \/ SaveToggle(c)
              \/ Gone(call[c].proc)
<1> DEFINE Moves == /\ call'[c].pc \in {"set", "save"} =>
                         call'[c] = call[c] \/ ReadToggle(c) \/ SetToggle(c)
                    /\ call[c].pc \in {"set", "save"} =>
                         \/ call'[c] = call[c] \/ SetToggle(c) \/ SaveToggle(c)
                         \/ Gone(call[c].proc)
<1> SUFFICES Moves
  OBVIOUS
<1>1. call \in [Calls -> CallRecords]
  BY DEF AdminIInv, CallTypes
<1>2. CASE call'[c] = call[c]
  BY <1>2
<1>3. CASE UNCHANGED vars \/ EditFile
  BY <1>2, <1>3 DEF EditFile, vars
<1>4. ASSUME NEW p \in Procs,
             \/ Start(p) \/ Migrate(p) \/ LoadOverrides(p) \/ BuildFirst(p) \/ Reload(p)
             \/ CountPassword(p) \/ SetFirstHash(p) \/ SetForce(p)
             \/ \E s \in Sessions : Lapse(p, s)
      PROVE  Moves
  BY <1>2, <1>4 DEF Start, Migrate, LoadOverrides, BuildFirst, Reload, CountPassword,
                     SetFirstHash, SetForce, Lapse
<1>5. ASSUME NEW p \in Procs, Exit(p) \/ Die(p) \/ Clash(p) PROVE Moves
  <2>1. Gone(p)
    BY <1>5 DEF Exit, Die, Clash
  <2>2. call'[c] = IF call[c].proc = p THEN Idle ELSE call[c]
    BY <2>1 DEF Gone
  <2> QED BY <1>2, <2>1, <2>2, IdleIsCall
\* A step of a request that is not at its toggle, nor then.
<1>6. ASSUME NEW d \in Calls, NEW k \in CallRecords, call' = [call EXCEPT ![d] = k],
             call[d].pc \notin {"set", "save"}, k.pc \notin {"set", "save"}
      PROVE  Moves
  BY <1>1, <1>6
<1>7. ASSUME NEW d \in Calls, Arrive(d) PROVE Moves
  <2>1. PICK p \in Procs, r \in setting.requests, s \in Sessions :
          call' = [call EXCEPT ![d] =
            [pc |-> IF r.kind = "login" THEN "compare" ELSE "auth",
             proc |-> p, request |-> r, session |-> s, on |-> FALSE]]
    BY <1>7 DEF Arrive
  <2>2. call[d].pc = "idle"
    BY <1>7 DEF Arrive
  <2>3. c # d \/ (call[c].pc = "idle" /\ call'[c].pc \in {"compare", "auth"})
    BY <1>1, <2>1, <2>2
  <2>4. c # d => call'[c] = call[c]
    BY <1>1, <2>1
  <2> QED BY <2>3, <2>4
<1>8. ASSUME NEW d \in Calls, call[d].pc \notin {"set", "save", "idle"},
             \/ call' = [call EXCEPT ![d] = Idle]
             \/ \E l \in {"session", "unforce", "login", "change", "toggle", "post", "put",
                          "delete", "none"} : call' = [call EXCEPT ![d].pc = l]
      PROVE  Moves
  <2>1. CASE call' = [call EXCEPT ![d] = Idle]
    BY <1>6, <1>8, <2>1, IdleIsCall
  <2>2. ASSUME NEW l \in {"session", "unforce", "login", "change", "toggle", "post", "put",
                          "delete", "none"}, call' = [call EXCEPT ![d].pc = l]
        PROVE  Moves
    <3> DEFINE k == [call[d] EXCEPT !.pc = l]
    <3>1. k \in CallRecords
      BY <1>8, MovedCall
    <3>2. call' = [call EXCEPT ![d] = k] /\ k.pc = l
      BY <1>1, <2>2 DEF CallRecords
    <3> HIDE DEF k
    <3> QED BY <1>6, <1>8, <3>1, <3>2
  <2> QED BY <1>8, <2>1, <2>2
<1>9. ASSUME NEW d \in Calls, Authorize(d) PROVE Moves
  <2>1. call[d].request.kind \in {"login", "change", "toggle", "post", "put", "delete", "none"}
    BY RequestKinds DEF AdminIInv, CallTypes, CallRecords
  <2> QED BY <1>8, <1>9, <2>1 DEF Authorize, Goto, End
<1>10. ASSUME NEW d \in Calls,
              Compare(d) \/ AddSession(d) \/ ChangeHash(d) \/ ChangeForce(d) \/ EditUpstream(d)
       PROVE  Moves
  BY <1>8, <1>10 DEF Compare, AddSession, ChangeHash, ChangeForce, EditUpstream, Goto, End
<1>11. ASSUME NEW d \in Calls, ReadToggle(d) \/ SetToggle(d) \/ SaveToggle(d) PROVE Moves
  <2>1. c # d => call'[c] = call[c]
    BY <1>1, <1>11 DEF ReadToggle, SetToggle, SaveToggle, Goto, End
  <2>2. ReadToggle(c) => call[c].pc = "toggle"
    BY DEF ReadToggle
  <2>3. SaveToggle(c) => call'[c].pc = "idle"
    BY <1>1, IdleIsCall DEF SaveToggle, End
  <2> QED BY <1>11, <2>1, <2>2, <2>3
<1> QED BY <1>3, <1>4, <1>5, <1>7, <1>9, <1>10, <1>11 DEF Next

\* What a toggle does to its request.
LEMMA ToggleCall ==
  ASSUME AdminIInv, NEW c \in Calls
  PROVE  /\ ReadToggle(c) =>
              call'[c] = [call[c] EXCEPT !.pc = "set",
                                         !.on = IsOn(call[c].proc, call[c].request.name)]
         /\ SetToggle(c) => call'[c] = [call[c] EXCEPT !.pc = "save"]
         /\ SaveToggle(c) => call'[c].pc = "idle"
         /\ ReadToggle(c) \/ SetToggle(c) =>
              /\ call'[c].proc = call[c].proc /\ call'[c].request = call[c].request
              /\ call'[c].pc = IF ReadToggle(c) THEN "set" ELSE "save"
              /\ SetToggle(c) => call'[c].on = call[c].on
              /\ ReadToggle(c) => call'[c].on = IsOn(call[c].proc, call[c].request.name)
<1>1. call \in [Calls -> CallRecords] /\ call[c] \in CallRecords
  BY DEF AdminIInv, CallTypes
<1>2. ReadToggle(c) =>
        call'[c] = [call[c] EXCEPT !.pc = "set",
                                   !.on = IsOn(call[c].proc, call[c].request.name)]
  BY <1>1 DEF ReadToggle
<1>3. SetToggle(c) => call'[c] = [call[c] EXCEPT !.pc = "save"]
  BY <1>1 DEF SetToggle, Goto
<1>4. SaveToggle(c) => call'[c].pc = "idle"
  BY <1>1, IdleIsCall DEF SaveToggle, End
<1>5. ~(ReadToggle(c) /\ SetToggle(c))
  BY DEF ReadToggle, SetToggle
<1> QED BY <1>1, <1>2, <1>3, <1>4, <1>5 DEF CallRecords

\* What is remembered stays, and what is known at the start.
LEMMA HistoryGrows ==
  ASSUME [Next]_vars
  PROVE  /\ UNCHANGED setting
         /\ contested \subseteq contested' /\ mentioned \subseteq mentioned'
         /\ harm \subseteq harm'
<1>1. CASE UNCHANGED vars \/ EditFile
  BY <1>1 DEF EditFile, vars, counts, history
<1>2. ASSUME NEW p \in Procs,
             \/ Start(p) \/ Migrate(p) \/ LoadOverrides(p) \/ BuildFirst(p) \/ Reload(p)
             \/ CountPassword(p) \/ SetFirstHash(p) \/ SetForce(p)
             \/ \E s \in Sessions : Lapse(p, s)
      PROVE  /\ UNCHANGED <<setting, mentioned>>
             /\ contested \subseteq contested' /\ harm \subseteq harm'
  BY <1>2 DEF Start, Migrate, LoadOverrides, BuildFirst, Reload, CountPassword, SetFirstHash,
              SetForce, Lapse, Unnoticed, counts, history
<1>3. ASSUME NEW p \in Procs, Exit(p) \/ Die(p) \/ Clash(p)
      PROVE  UNCHANGED <<setting, mentioned, contested>> /\ harm \subseteq harm'
  BY <1>3 DEF Exit, Die, Clash, counts, history
<1>4. ASSUME NEW c \in Calls,
             \/ Arrive(c) \/ Compare(c) \/ AddSession(c) \/ Authorize(c)
             \/ ChangeHash(c) \/ ChangeForce(c)
             \/ ReadToggle(c) \/ SetToggle(c) \/ SaveToggle(c) \/ EditUpstream(c)
      PROVE  /\ UNCHANGED <<setting, mentioned>>
             /\ contested \subseteq contested' /\ harm \subseteq harm'
  BY <1>4 DEF Arrive, Compare, AddSession, Authorize, ChangeHash, ChangeForce, ReadToggle,
              SetToggle, SaveToggle, EditUpstream, Unnoticed, counts, history
<1> QED BY <1>1, <1>2, <1>3, <1>4 DEF Next

\* A process becomes ready by loading the saved toggles.
LEMMA BecomesReady ==
  ASSUME AdminIInv, [Next]_vars, NEW p \in Procs, setting.kind[p] # "command",
         life'[p] \in Ready, life[p] \notin Ready
  PROVE  LoadOverrides(p)
<1> USE DEF Ready
<1>1. life \in [Procs -> {"down", "opening", "overrides", "chain", "count", "hash",
                          "force", "serving", "failed"}]
  BY DEF AdminIInv, CallTypes
<1>2. life' # life
  OBVIOUS
<1>3. ~UNCHANGED vars /\ ~EditFile
  BY <1>2 DEF EditFile, vars, proc
<1>4. ASSUME NEW c \in Calls,
             \/ Arrive(c) \/ Compare(c) \/ AddSession(c) \/ Authorize(c)
             \/ ChangeHash(c) \/ ChangeForce(c)
             \/ ReadToggle(c) \/ SetToggle(c) \/ SaveToggle(c) \/ EditUpstream(c)
      PROVE  FALSE
  BY <1>2, <1>4 DEF Arrive, Compare, AddSession, Authorize, ChangeHash, ChangeForce, ReadToggle,
                    SetToggle, SaveToggle, EditUpstream, proc
<1>5. ASSUME NEW q \in Procs, Reload(q) \/ \E s \in Sessions : Lapse(q, s) PROVE FALSE
  BY <1>2, <1>5 DEF Reload, Lapse
<1>6. ASSUME NEW q \in Procs, NEW l, life' = [life EXCEPT ![q] = l] PROVE q = p /\ l \in Ready
  BY <1>1, <1>6
<1>7. ASSUME NEW q \in Procs, Start(q) PROVE FALSE
  BY <1>6, <1>7 DEF Start
<1>8. ASSUME NEW q \in Procs, Migrate(q) PROVE FALSE
  <2>1. \/ life' = [life EXCEPT ![q] = "opening"] \/ life' = [life EXCEPT ![q] = "failed"]
        \/ life' = [life EXCEPT ![q] = "overrides"]
        \/ life' = [life EXCEPT ![q] = "serving"] /\ setting.kind[q] = "command"
    BY <1>8 DEF Migrate
  <2> QED BY <1>6, <2>1
<1>9. ASSUME NEW q \in Procs, Exit(q) \/ Die(q) \/ Clash(q) PROVE FALSE
  <2>1. life' = [life EXCEPT ![q] = "down"]
    BY <1>9 DEF Exit, Die, Clash, Gone
  <2> QED BY <1>6, <2>1
<1>10. ASSUME NEW q \in Procs,
              BuildFirst(q) \/ CountPassword(q) \/ SetFirstHash(q) \/ SetForce(q)
       PROVE  FALSE
  <2>1. life[q] \in Ready
    BY <1>10 DEF BuildFirst, CountPassword, SetFirstHash, SetForce
  <2>2. \E l : life' = [life EXCEPT ![q] = l]
    BY <1>10 DEF BuildFirst, CountPassword, SetFirstHash, SetForce, Settle
  <2> QED BY <1>6, <2>1, <2>2
<1>11. ASSUME NEW q \in Procs, LoadOverrides(q) PROVE LoadOverrides(p)
  BY <1>6, <1>11 DEF LoadOverrides
<1> QED BY <1>3, <1>4, <1>5, <1>7, <1>8, <1>9, <1>10, <1>11 DEF Next

\* When what a process holds of a name changes.
LEMMA CfgChanges ==
  ASSUME SettingTypes, [Next]_vars, NEW p \in Procs, NEW n \in Names, cfg'[p][n] # cfg[p][n]
  PROVE  \/ Start(p) \/ LoadOverrides(p) \/ Gone(p)
         \/ \E c \in Calls : SetToggle(c) /\ call[c].proc = p /\ call[c].request.name = n
<1>1. cfg \in [Procs -> [Names -> Marks]] /\ cfg' # cfg
  BY DEF SettingTypes
<1>2. ~UNCHANGED vars /\ ~EditFile
  BY <1>1 DEF EditFile, vars, proc
<1>3. ASSUME NEW q \in Procs,
             \/ Migrate(q) \/ BuildFirst(q) \/ Reload(q)
             \/ CountPassword(q) \/ SetFirstHash(q) \/ SetForce(q)
             \/ \E s \in Sessions : Lapse(q, s)
      PROVE  FALSE
  BY <1>1, <1>3 DEF Migrate, BuildFirst, Reload, CountPassword, SetFirstHash, SetForce, Lapse
<1>4. ASSUME NEW q \in Procs, NEW f, cfg' = [cfg EXCEPT ![q] = f] PROVE q = p
  BY <1>1, <1>4
<1>5. ASSUME NEW q \in Procs, Start(q) \/ LoadOverrides(q) \/ Gone(q) PROVE q = p
  BY <1>1, <1>4, <1>5 DEF Start, LoadOverrides, Gone
<1>6. ASSUME NEW c \in Calls,
             \/ Arrive(c) \/ Compare(c) \/ AddSession(c) \/ Authorize(c)
             \/ ChangeHash(c) \/ ChangeForce(c) \/ ReadToggle(c) \/ SaveToggle(c)
             \/ EditUpstream(c)
      PROVE  FALSE
  BY <1>1, <1>6 DEF Arrive, Compare, AddSession, Authorize, ChangeHash, ChangeForce, ReadToggle,
                    SaveToggle, EditUpstream, proc
<1>7. ASSUME NEW c \in Calls, SetToggle(c) PROVE call[c].proc = p /\ call[c].request.name = n
  <2>1. cfg' = [cfg EXCEPT ![call[c].proc][call[c].request.name] = Mark(~call[c].on)]
    BY <1>7 DEF SetToggle
  <2> QED BY <1>1, <2>1
<1> QED
  BY <1>2, <1>3, <1>5, <1>6, <1>7 DEF Next, Exit, Die, Clash

\* When a saved toggle changes.
LEMMA SavedChanges ==
  ASSUME SettingTypes, [Next]_vars, NEW n \in Names, saved'[n] # saved[n]
  PROVE  \E c \in Calls : SaveToggle(c) /\ call[c].request.name = n
<1>1. saved \in [Names -> Marks] /\ saved' # saved
  BY DEF SettingTypes
<1>2. ~UNCHANGED vars /\ ~EditFile
  BY <1>1 DEF EditFile, vars, table
<1>3. ASSUME NEW q \in Procs,
             \/ Start(q) \/ Migrate(q) \/ LoadOverrides(q) \/ BuildFirst(q) \/ Reload(q)
             \/ CountPassword(q) \/ SetFirstHash(q) \/ SetForce(q)
             \/ Exit(q) \/ Die(q) \/ Clash(q) \/ \E s \in Sessions : Lapse(q, s)
      PROVE  FALSE
  BY <1>1, <1>3 DEF Start, Migrate, LoadOverrides, BuildFirst, Reload, CountPassword,
                    SetFirstHash, SetForce, Exit, Die, Clash, Lapse, table
<1>4. ASSUME NEW c \in Calls,
             \/ Arrive(c) \/ Compare(c) \/ AddSession(c) \/ Authorize(c)
             \/ ChangeHash(c) \/ ChangeForce(c) \/ ReadToggle(c) \/ SetToggle(c)
             \/ EditUpstream(c)
      PROVE  FALSE
  BY <1>1, <1>4 DEF Arrive, Compare, AddSession, Authorize, ChangeHash, ChangeForce, ReadToggle,
                    SetToggle, EditUpstream, table
<1>5. ASSUME NEW c \in Calls, SaveToggle(c) PROVE call[c].request.name = n
  BY <1>1, <1>5 DEF SaveToggle
<1> QED BY <1>2, <1>3, <1>4, <1>5 DEF Next

LEMMA ToggleIsAloneStep ==
  ASSUME AdminIInv, RequestsFit, SettingTypes, ToggleIsAlone, [Next]_vars
  PROVE  ToggleIsAlone'
<1> SUFFICES ASSUME NEW c \in Calls, call'[c].pc \in {"set", "save"},
                    call'[c].request.name \notin contested'
             PROVE
       /\ \A d \in Calls \ {c} :
            call'[d].pc \in {"set", "save"} => call'[d].request.name # call'[c].request.name
       /\ \A q \in Procs \ {call'[c].proc} : setting'.kind[q] # "command" => life'[q] \notin Ready
       /\ call'[c].pc = "save" =>
            cfg'[call'[c].proc][call'[c].request.name] = Mark(~call'[c].on)
  BY DEF ToggleIsAlone
<1> DEFINE n == call[c].request.name
           p == call[c].proc
<1>1. /\ call'[c].request = call[c].request /\ call'[c].proc = p
      /\ call'[c] = call[c] \/ ReadToggle(c) \/ SetToggle(c)
  BY TogglesMove, ToggleCall
<1>2. n \notin contested /\ n \notin contested' /\ UNCHANGED setting
  BY <1>1, HistoryGrows
<1>3. p \in Procs /\ n \in Names
  <2>1. call[c].pc \in {"toggle", "set", "save"}
    BY <1>1 DEF ReadToggle, SetToggle
  <2> QED BY <2>1, RequestAt
\* Whoever else reads the name meets c, and whoever loads the saved toggles too.
<1>4. n \in Toggling => /\ \A d \in Calls : ReadToggle(d) => call[d].request.name # n
                        /\ \A q \in Procs : ~LoadOverrides(q)
  BY <1>2 DEF ReadToggle, LoadOverrides
<1>5. call[c].pc \in {"set", "save"} => n \in Toggling
  BY DEF Toggling
<1>6. ASSUME NEW d \in Calls \ {c}, call'[d].pc \in {"set", "save"} PROVE call'[d].request.name # n
  <2>1. /\ call'[d] = call[d] \/ ReadToggle(d) \/ SetToggle(d)
        /\ call'[d].request = call[d].request
    BY <1>6, TogglesMove, ToggleCall
  <2>2. call'[d] # call[d] => call'[c] = call[c]
    <3>1. call \in [Calls -> CallRecords]
      BY DEF AdminIInv, CallTypes
    <3> QED BY <2>1, <3>1 DEF ReadToggle, SetToggle, Goto
  <2>3. CASE ReadToggle(d)
    <3>1. call'[d] # call[d]
      <4>1. call[d].pc = "toggle"
        BY <2>3 DEF ReadToggle
      <4>2. call'[d].pc = "set"
        BY <2>3, ToggleCall
      <4> QED BY <4>1, <4>2
    <3>2. n \in Toggling
      BY <1>5, <2>2, <3>1
    <3> QED BY <1>4, <2>1, <2>3, <3>2
  <2>4. CASE call[d].pc \in {"set", "save"}
    <3>1. CASE call[c].pc \in {"set", "save"}
      BY <1>2, <2>1, <2>4, <3>1 DEF ToggleIsAlone
    <3>2. CASE ReadToggle(c)
      <4>1. n \notin Toggling
        BY <1>2, <3>2 DEF ReadToggle
      <4> QED BY <2>1, <2>4, <4>1 DEF Toggling
    <3> QED BY <1>1, <3>1, <3>2 DEF SetToggle
  <2> QED BY <1>6, <2>1, <2>3, <2>4 DEF SetToggle
<1>7. ASSUME NEW q \in Procs \ {p}, setting.kind[q] # "command" PROVE life'[q] \notin Ready
  <2>1. CASE ReadToggle(c)
    BY <1>2, <2>1 DEF ReadToggle, Ready, proc
  <2>2. CASE call[c].pc \in {"set", "save"}
    <3>1. life[q] \notin Ready
      BY <1>2, <1>7, <2>2 DEF ToggleIsAlone
    <3> QED BY <1>4, <1>5, <1>7, <2>2, <3>1, BecomesReady
  <2> QED BY <1>1, <2>1, <2>2 DEF SetToggle
<1>8. ASSUME call'[c].pc = "save" PROVE cfg'[p][n] = Mark(~call'[c].on)
  <2>1. CASE SetToggle(c)
    <3>1. cfg' = [cfg EXCEPT ![p][n] = Mark(~call[c].on)]
      BY <2>1 DEF SetToggle
    <3>2. cfg'[p][n] = Mark(~call[c].on)
      BY <1>3, <3>1 DEF SettingTypes
    <3> QED BY <2>1, <3>2, ToggleCall
  <2>2. CASE call'[c] = call[c]
    <3>1. life[p] = "serving" /\ call[c].pc = "save" /\ cfg[p][n] = Mark(~call[c].on)
      BY <1>2, <1>8, <2>2 DEF AdminIInv, LivesFit, ToggleIsAlone
    <3>2. ~Start(p) /\ ~LoadOverrides(p)
      BY <3>1 DEF Start, LoadOverrides
    <3>3. ~Gone(p)
      BY <1>8, <2>2, IdleIsCall DEF Gone
    <3>4. ASSUME NEW d \in Calls, SetToggle(d), call[d].request.name = n PROVE FALSE
      <4>1. d = c
        BY <1>2, <3>1, <3>4 DEF ToggleIsAlone, SetToggle
      <4> QED BY <3>1, <3>4, <4>1 DEF SetToggle
    <3>5. cfg'[p][n] = cfg[p][n]
      BY <1>3, <3>2, <3>3, <3>4, CfgChanges
    <3> QED BY <2>2, <3>1, <3>5
  <2>3. CASE ReadToggle(c)
    BY <1>8, <2>3, ToggleCall
  <2> QED BY <1>1, <2>1, <2>2, <2>3
<1> QED BY <1>1, <1>2, <1>6, <1>7, <1>8

LEMMA ShownIsSavedStep ==
  ASSUME AdminIInv, RequestsFit, SettingTypes, ToggleIsAlone, ShownIsSaved, [Next]_vars
  PROVE  ShownIsSaved'
<1> SUFFICES ASSUME "toggle" \notin harm', NEW p \in Procs, NEW n \in Names,
                    n \notin contested', n \notin Toggling',
                    life'[p] \in Ready, setting'.kind[p] # "command", saved'[n] # "none"
             PROVE  cfg'[p][n] = saved'[n]
  BY DEF ShownIsSaved, Ready
<1>1. /\ UNCHANGED setting /\ "toggle" \notin harm /\ n \notin contested
      /\ setting.kind[p] # "command"
  BY HistoryGrows
<1>2. ASSUME NEW c \in Calls, SaveToggle(c), call[c].request.name = n
      PROVE  cfg'[p][n] = saved'[n]
  <2>1. /\ saved' = [saved EXCEPT ![n] = Mark(~call[c].on)]
        /\ UNCHANGED <<cfg, life>> /\ call[c].pc = "save"
    BY <1>2 DEF SaveToggle, ToSave, Unnoticed, proc
  <2>2. p = call[c].proc /\ cfg[p][n] = Mark(~call[c].on)
    BY <1>1, <1>2, <2>1 DEF ToggleIsAlone
  <2>3. saved'[n] = Mark(~call[c].on)
    BY <2>1 DEF SettingTypes
  <2> QED BY <2>1, <2>2, <2>3
<1>3. CASE LoadOverrides(p)
  <2>1. /\ saved' = saved
        /\ cfg' = [cfg EXCEPT ![p] = [m \in Names |->
                     IF saved[m] # "none" THEN saved[m] ELSE cfg[p][m]]]
    BY <1>3 DEF LoadOverrides, table
  <2> QED BY <2>1 DEF SettingTypes
<1>4. ASSUME \A c \in Calls : SaveToggle(c) => call[c].request.name # n, ~LoadOverrides(p)
      PROVE  cfg'[p][n] = saved'[n]
  <2>1. saved'[n] = saved[n] /\ life[p] \in Ready
    BY <1>1, <1>4, SavedChanges, BecomesReady
  <2>2. ~Gone(p)
    BY DEF Gone, Ready, AdminIInv, CallTypes
  <2>3. n \notin Toggling
    <3> SUFFICES ASSUME NEW c \in Calls, call[c].pc \in {"set", "save"},
                        call[c].request.name = n
                 PROVE  FALSE
      BY DEF Toggling
    <3>1. p = call[c].proc
      BY <1>1, <2>1 DEF ToggleIsAlone
    <3>2. call'[c] = call[c] \/ SetToggle(c)
      BY <1>4, <2>2, <3>1, TogglesMove
    <3>3. call'[c].pc \in {"set", "save"} /\ call'[c].request.name = n
      BY <3>2, ToggleCall
    <3> QED BY <3>3 DEF Toggling
  <2>4. cfg[p][n] = saved[n]
    BY <1>1, <2>1, <2>3 DEF ShownIsSaved, Ready
  <2>5. \A c \in Calls : SetToggle(c) => call[c].request.name # n
    BY <2>3 DEF SetToggle, Toggling
  <2>6. ~Start(p)
    BY <2>1 DEF Start, Ready
  <2>7. cfg'[p][n] = cfg[p][n]
    BY <1>4, <2>2, <2>5, <2>6, CfgChanges
  <2> QED BY <2>1, <2>4, <2>7
<1> QED BY <1>2, <1>3, <1>4

\* With the database open, only a chain that cannot be built fails a process.
LEMMA FailsToBuild ==
  ASSUME AdminIInv, [Next]_vars, NEW p \in Procs, life'[p] = "failed", db'[p] = "open"
  PROVE  BuildFirst(p) \/ (life[p] = "failed" /\ db[p] = "open")
<1>1. /\ life \in [Procs -> {"down", "opening", "overrides", "chain", "count", "hash",
                             "force", "serving", "failed"}]
      /\ db \in [Procs -> {"closed", "open", "failed"} \cup Opening]
  BY DEF AdminIInv, CallTypes, SchemaIInv, SchemaTypeOK
<1>2. CASE UNCHANGED <<life, db>>
  BY <1>2
<1>3. CASE UNCHANGED vars \/ EditFile
  BY <1>2, <1>3 DEF EditFile, vars, svars, proc
<1>4. ASSUME NEW c \in Calls,
             \/ Arrive(c) \/ Compare(c) \/ AddSession(c) \/ Authorize(c)
             \/ ChangeHash(c) \/ ChangeForce(c)
             \/ ReadToggle(c) \/ SetToggle(c) \/ SaveToggle(c) \/ EditUpstream(c)
      PROVE  UNCHANGED <<life, db>>
  BY <1>4 DEF Arrive, Compare, AddSession, Authorize, ChangeHash, ChangeForce, ReadToggle,
              SetToggle, SaveToggle, EditUpstream, proc, svars
<1>5. ASSUME NEW q \in Procs, Reload(q) \/ \E s \in Sessions : Lapse(q, s)
      PROVE  UNCHANGED <<life, db>>
  BY <1>5 DEF Reload, Lapse, svars
<1>6. ASSUME NEW q \in Procs, NEW l, life' = [life EXCEPT ![q] = l], l # "failed"
      PROVE  q # p /\ life[p] = "failed"
  BY <1>1, <1>6
<1>7. ASSUME NEW q \in Procs, Start(q) \/ Exit(q) \/ Die(q) \/ Clash(q)
      PROVE  life[p] = "failed" /\ db[p] = "open"
  <2>1. /\ life' = [life EXCEPT ![q] = "opening"] \/ life' = [life EXCEPT ![q] = "down"]
        /\ db' = [db EXCEPT ![q] = "version"] \/ db' = [db EXCEPT ![q] = "closed"]
    BY <1>7 DEF Start, Open, Exit, Die, Clash, Gone, Close, Killed
  <2>2. q # p /\ life[p] = "failed"
    BY <1>6, <2>1
  <2> QED BY <1>1, <2>1, <2>2
<1>8. ASSUME NEW q \in Procs, Migrate(q)
      PROVE  life[p] = "failed" /\ db[p] = "open"
  <2>1. \A o \in Procs \ {q} : db'[o] = db[o]
    BY <1>1, <1>8 DEF Migrate, Migrates, ReadVersion, Goes, Apply, Record, OpenFails
  <2>2. \/ life' = [life EXCEPT ![q] = "opening"]
        \/ life' = [life EXCEPT ![q] = "overrides"] \/ life' = [life EXCEPT ![q] = "serving"]
        \/ life' = [life EXCEPT ![q] = "failed"] /\ db'[q] = "failed"
    BY <1>8 DEF Migrate
  <2>3. q # p
    BY <1>6, <2>2
  <2>4. life[p] = "failed"
    BY <1>1, <2>2, <2>3
  <2> QED BY <2>1, <2>3, <2>4
<1>9. ASSUME NEW q \in Procs,
             LoadOverrides(q) \/ CountPassword(q) \/ SetFirstHash(q) \/ SetForce(q)
      PROVE  life[p] = "failed" /\ db[p] = "open"
  <2>1. \/ life' = [life EXCEPT ![q] = "chain"] \/ life' = [life EXCEPT ![q] = "hash"]
        \/ life' = [life EXCEPT ![q] = "force"] \/ life' = [life EXCEPT ![q] = "serving"]
    BY <1>9 DEF LoadOverrides, CountPassword, SetFirstHash, SetForce, Settle
  <2>2. db' = db
    BY <1>9 DEF LoadOverrides, CountPassword, SetFirstHash, SetForce
  <2> QED BY <1>6, <2>1, <2>2
<1>10. ASSUME NEW q \in Procs, BuildFirst(q)
       PROVE  q = p \/ (life[p] = "failed" /\ db[p] = "open")
  <2>1. \/ life' = [life EXCEPT ![q] = "count"] \/ life' = [life EXCEPT ![q] = "failed"]
    BY <1>10 DEF BuildFirst
  <2>2. db' = db
    BY <1>10 DEF BuildFirst, svars
  <2> QED BY <1>1, <2>1, <2>2
<1> QED BY <1>2, <1>3, <1>4, <1>5, <1>7, <1>8, <1>9, <1>10 DEF Next

\* A mark stays earned.
LEMMA StaysEarned ==
  ASSUME NEW n \in Names, NEW m, Earned(n, m), SettingTypes,
         mentioned \subseteq mentioned', toggled'[n] \in {toggled[n], toggled[n] + 1}
  PROVE  Earned(n, m)'
BY DEF Earned, SettingTypes

LEMMA MarksAreEarnedStep ==
  ASSUME AdminIInv, RequestsFit, SettingTypes, MarksAreEarned, [Next]_vars
  PROVE  MarksAreEarned'
<1>1. mentioned \subseteq mentioned' /\ UNCHANGED setting
  BY HistoryGrows
<1>2. \A n \in Names : \/ toggled'[n] = toggled[n]
                       \/ /\ toggled'[n] = toggled[n] + 1
                          /\ \E c \in Calls : ReadToggle(c) /\ call[c].request.name = n
  <2>1. CASE UNCHANGED toggled
    BY <2>1
  <2>2. ASSUME NEW c \in Calls, ReadToggle(c)
        PROVE  \A n \in Names : \/ toggled'[n] = toggled[n]
                                \/ toggled'[n] = toggled[n] + 1 /\ call[c].request.name = n
    BY <2>2 DEF ReadToggle, SettingTypes
  <2>3. ASSUME NEW c \in Calls,
               \/ Arrive(c) \/ Compare(c) \/ AddSession(c) \/ Authorize(c)
               \/ ChangeHash(c) \/ ChangeForce(c) \/ SetToggle(c) \/ SaveToggle(c)
               \/ EditUpstream(c)
        PROVE  UNCHANGED toggled
    BY <2>3 DEF Arrive, Compare, AddSession, Authorize, ChangeHash, ChangeForce, SetToggle,
                SaveToggle, EditUpstream, history
  <2>4. ASSUME NEW q \in Procs,
               \/ Start(q) \/ Migrate(q) \/ LoadOverrides(q) \/ BuildFirst(q) \/ Reload(q)
               \/ CountPassword(q) \/ SetFirstHash(q) \/ SetForce(q)
               \/ Exit(q) \/ Die(q) \/ Clash(q) \/ \E s \in Sessions : Lapse(q, s)
        PROVE  UNCHANGED toggled
    BY <2>4 DEF Start, Migrate, LoadOverrides, BuildFirst, Reload, CountPassword,
                SetFirstHash, SetForce, Exit, Die, Clash, Lapse, history
  <2>5. UNCHANGED vars \/ EditFile => UNCHANGED toggled
    BY DEF EditFile, vars, history
  <2> QED BY <2>1, <2>2, <2>3, <2>4, <2>5 DEF Next
<1>3. \A n \in Names, m \in Marks : Earned(n, m) => Earned(n, m)'
  BY <1>1, <1>2, StaysEarned
<1>4. \A n \in Names : file'[n] # "none" => n \in mentioned'
  <2>1. CASE EditFile
    BY <2>1 DEF EditFile, InFile, MarksAreEarned
  <2>2. ~EditFile => file' = file
    <3>1. ASSUME NEW c \in Calls,
                 \/ Arrive(c) \/ Compare(c) \/ AddSession(c) \/ Authorize(c)
                 \/ ChangeHash(c) \/ ChangeForce(c)
                 \/ ReadToggle(c) \/ SetToggle(c) \/ SaveToggle(c) \/ EditUpstream(c)
          PROVE  file' = file
      BY <3>1 DEF Arrive, Compare, AddSession, Authorize, ChangeHash, ChangeForce, ReadToggle,
                  SetToggle, SaveToggle, EditUpstream
    <3>2. ASSUME NEW q \in Procs,
                 \/ Start(q) \/ Migrate(q) \/ LoadOverrides(q) \/ BuildFirst(q) \/ Reload(q)
                 \/ CountPassword(q) \/ SetFirstHash(q) \/ SetForce(q)
                 \/ Exit(q) \/ Die(q) \/ Clash(q) \/ \E s \in Sessions : Lapse(q, s)
          PROVE  file' = file
      BY <3>2 DEF Start, Migrate, LoadOverrides, BuildFirst, Reload, CountPassword,
                  SetFirstHash, SetForce, Exit, Die, Clash, Lapse
    <3>3. UNCHANGED vars => file' = file
      BY DEF vars
    <3> QED BY <3>1, <3>2, <3>3 DEF Next
  <2> QED BY <1>1, <2>1, <2>2 DEF MarksAreEarned
\* A request at its toggle is about a mark that is earned: a name that is off
\* has been toggled before.
<1>5. ASSUME NEW c \in Calls, call'[c].pc \in {"set", "save"},
             NEW n, n = call'[c].request.name, NEW m, m = Mark(~call'[c].on)
      PROVE  Earned(n, m)'
  <2> DEFINE p == call[c].proc
  <2>1. /\ call'[c] = call[c] \/ ReadToggle(c) \/ SetToggle(c)
        /\ n = call[c].request.name /\ m \in Marks
    BY <1>5, TogglesMove, ToggleCall DEF Mark, Marks
  <2>2. p \in Procs /\ n \in Names
    <3>1. call[c].pc \in {"toggle", "set", "save"}
      BY <1>5, <2>1 DEF ReadToggle, SetToggle
    <3> QED BY <2>1, <3>1, RequestAt
  <2>3. CASE call[c].pc \in {"set", "save"} /\ call'[c].on = call[c].on
    <3>1. Earned(n, m)
      BY <1>5, <2>1, <2>3 DEF MarksAreEarned
    <3> QED BY <1>3, <2>1, <2>2, <3>1
  <2>4. CASE ReadToggle(c)
    <3>1. call'[c].on = IsOn(p, n)
      BY <2>1, <2>4, ToggleCall
    <3>2. toggled'[n] = toggled[n] + 1 /\ toggled[n] \in Nat
      BY <2>1, <2>2, <2>4 DEF ReadToggle, SettingTypes
    <3>3. CASE cfg[p][n] = "off"
      <4>1. n \in mentioned \/ toggled[n] >= 1
        BY <2>2, <3>2, <3>3 DEF MarksAreEarned, Earned
      <4> QED BY <1>1, <3>2, <4>1 DEF Earned
    <3>4. CASE cfg[p][n] # "off"
      <4>1. m = "off"
        BY <1>5, <3>1, <3>4 DEF IsOn, Mark
      <4>2. toggled'[n] >= 1
        BY <3>2
      <4> QED BY <4>1, <4>2 DEF Earned
    <3> QED BY <3>3, <3>4
  <2>5. SetToggle(c) => call[c].pc = "set" /\ call'[c].on = call[c].on
    BY ToggleCall DEF SetToggle
  <2> QED BY <1>5, <2>1, <2>3, <2>4, <2>5
<1>6. ASSUME NEW n \in Names, NEW m, m = saved'[n] PROVE Earned(n, m)'
  <2>1. Earned(n, saved[n]) /\ saved[n] \in Marks
    BY DEF MarksAreEarned, SettingTypes
  <2>2. CASE m = saved[n]
    BY <1>3, <2>1, <2>2
  <2>3. CASE m # saved[n]
    <3>1. PICK c \in Calls : SaveToggle(c) /\ call[c].request.name = n
      BY <1>6, <2>3, SavedChanges
    <3>2. m = Mark(~call[c].on) /\ call[c].pc = "save"
      BY <1>6, <2>3, <3>1 DEF SaveToggle, ToSave, SettingTypes
    <3>3. Earned(n, m) /\ m \in Marks
      BY <3>1, <3>2 DEF MarksAreEarned, Mark, Marks
    <3> QED BY <1>3, <3>3
  <2> QED BY <2>2, <2>3
<1>7. ASSUME NEW p \in Procs, NEW n \in Names, NEW m, m = cfg'[p][n] PROVE Earned(n, m)'
  <2>1. Earned(n, cfg[p][n]) /\ cfg[p][n] \in Marks
    BY DEF MarksAreEarned, SettingTypes
  <2>2. CASE m = cfg[p][n]
    BY <1>3, <2>1, <2>2
  <2>3. CASE Start(p)
    <3>1. m = file[n] /\ mentioned' = mentioned
      BY <1>7, <2>3 DEF Start, SettingTypes, history
    <3> QED BY <3>1 DEF Earned, MarksAreEarned
  <2>4. CASE LoadOverrides(p)
    <3>1. m \in {saved[n], cfg[p][n]} /\ saved'[n] = saved[n]
      BY <1>7, <2>4 DEF LoadOverrides, SettingTypes, table
    <3> QED BY <1>6, <2>2, <3>1
  <2>5. CASE Gone(p)
    <3>1. m = "none"
      BY <1>7, <2>5 DEF Gone, SettingTypes
    <3> QED BY <3>1 DEF Earned
  <2>6. ASSUME NEW c \in Calls, SetToggle(c), call[c].proc = p, call[c].request.name = n
        PROVE  Earned(n, m)'
    <3>1. m = Mark(~call[c].on)
      BY <1>7, <2>6 DEF SetToggle, SettingTypes
    <3>2. call'[c].pc = "save" /\ call'[c].on = call[c].on /\ call'[c].request = call[c].request
      BY <2>6, ToggleCall DEF ReadToggle, SetToggle
    <3> QED BY <1>5, <2>6, <3>1, <3>2
  <2> QED BY <1>7, <2>2, <2>3, <2>4, <2>5, <2>6, CfgChanges
<1>8. OneToggleIsHarmless'
  <2> SUFFICES ASSUME NEW p \in Procs, life'[p] = "failed", db'[p] = "open"
               PROVE  \E n \in Names : /\ ~CanBuild(n, setting'.kind[p] = "proxy")
                                       /\ n \in mentioned' \/ toggled'[n] >= 2
    BY DEF OneToggleIsHarmless, CanBuild
  <2>1. CASE BuildFirst(p)
    <3>1. ~Builds(cfg[p], setting.kind[p] = "proxy")
      BY <2>1 DEF BuildFirst, AdminIInv, CallTypes
    <3>2. PICK n \in Names : cfg[p][n] = "on" /\ ~CanBuild(n, setting.kind[p] = "proxy")
      BY <3>1 DEF Builds, Enabled
    <3>3. cfg'[p][n] = "on"
      BY <2>1, <3>2 DEF BuildFirst
    <3>4. Earned(n, "on")'
      BY <1>7, <3>3
    <3> QED BY <1>1, <3>2, <3>4 DEF Earned
  <2>2. CASE life[p] = "failed" /\ db[p] = "open"
    <3>1. PICK n \in Names : /\ ~CanBuild(n, setting.kind[p] = "proxy")
                             /\ n \in mentioned \/ toggled[n] >= 2
      BY <2>2 DEF MarksAreEarned, OneToggleIsHarmless
    <3>2. n \in mentioned' \/ toggled'[n] >= 2
      BY <1>1, <1>2, <3>1 DEF SettingTypes
    <3> QED BY <1>1, <3>1, <3>2
  <2> QED BY <2>1, <2>2, FailsToBuild
<1> QED BY <1>4, <1>5, <1>6, <1>7, <1>8 DEF MarksAreEarned

\* What the web UI shows of a name is what the next start does with it, unless
\* two requests or processes were at the name, and one toggle keeps no process
\* from starting.
THEOREM TogglesAreKeptCorrect == Spec => []TogglesAreKept
<1>1. Init => ToggleIsAlone /\ ShownIsSaved /\ MarksAreEarned
  <2> SUFFICES ASSUME Init PROVE ToggleIsAlone /\ ShownIsSaved /\ MarksAreEarned
    OBVIOUS
  <2>1. ToggleIsAlone
    BY IdleIsCall DEF Init, ToggleIsAlone
  <2>2. ShownIsSaved
    BY DEF Init, ShownIsSaved
  <2>3. MarksAreEarned
    BY IdleIsCall DEF Init, MarksAreEarned, Earned, InFile, OneToggleIsHarmless
  <2> QED BY <2>1, <2>2, <2>3
<1>2. Init => RequestsFit /\ SettingTypes
  BY TypesInit
<1>3. AdminIInv /\ RequestsFit /\ SettingTypes /\ ToggleIsAlone /\ ShownIsSaved
        /\ MarksAreEarned /\ [Next]_vars =>
      RequestsFit' /\ SettingTypes' /\ ToggleIsAlone' /\ ShownIsSaved' /\ MarksAreEarned'
  BY RequestsFitStep, SettingTypesStep, ToggleIsAloneStep, ShownIsSavedStep,
     MarksAreEarnedStep
<1>4. ShownIsSaved /\ MarksAreEarned => TogglesAreKept
  BY DEF MarksAreEarned, TogglesAreKept
<1> QED BY <1>1, <1>2, <1>3, <1>4, AdminCorrect, PTL DEF Spec
=============================================================================
