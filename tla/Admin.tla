-------------------------------- MODULE Admin --------------------------------
(***************************************************************************)
(* The settings that the web UI edits and that the processes of a host     *)
(* share through the database: the administrator's password, which         *)
(* middlewares are enabled, the table of upstreams.  A process opens the   *)
(* database (Schema), puts the saved toggles over its configuration file,  *)
(* builds its chain, makes sure that there is a password, and serves; it   *)
(* may reload, exit, be killed and be started again.                       *)
(*                                                                         *)
(* What a middleware does is Admission's, Guard's and IngressLog's matter. *)
(* The force_change row is written here and read by handleLogin only to    *)
(* tell the client.                                                        *)
(***************************************************************************)
EXTENDS Schema

CONSTANTS
  Settings,  \* what there is: processes and their kinds, requests, files,
             \* releases that made the database; and how many starts, requests
             \* and edits of the file (bounds)
  Calls,     \* requests in flight (bound)
  Names,     \* names of middlewares, known or not
  Token,     \* the one that needs a token store
  Known,     \* those that createMiddleware knows
  Passwords, Default, \* "admin"
  Sessions,  \* session ids
  Upstreams  \* names of upstreams

Kinds == {"proxy", "stdio", "command"}
Marks == {"on", "off", "none"} \* an entry of cfg.Middlewares or a row; none

Logins    == [kind : {"login"}, password : Passwords]
Changes   == [kind : {"change"}, password : Passwords]
Toggles   == [kind : {"toggle"}, name : Names]
Edits     == [kind : {"post", "put", "delete"}, upstream : Upstreams]
Requests  == Logins \cup Changes \cup Toggles \cup Edits
NoRequest == [kind |-> "none"]

ASSUME AdminAssumption ==
  /\ Procs # {} /\ Sessions # {}
  /\ Token \in Known /\ Known \subseteq Names
  /\ Default \in Passwords /\ "none" \notin Passwords \* no row
  /\ \A s \in Settings :
       /\ s.kind \in [Procs -> Kinds]
       /\ s.requests \subseteq Requests
       /\ s.files \subseteq [Names -> Marks] /\ s.releases \subseteq Nat
       /\ s.starts \in Nat /\ s.calls \in Nat /\ s.edits \in Nat

VARIABLES
  setting,
  starts, asked, edits, \* how many there have been
  \* shared by the processes
  file,      \* the configuration as file, environment and flags say
  hash,      \* admin_config password_hash: the password, or "none"
  force,     \* admin_config force_change
  saved,     \* admin_config middleware_enabled_<name>
  upstreams, \* table upstreams: "none", "active", "inactive"
  \* per process
  life,      \* "down", "opening", "overrides", "chain", "count", "hash",
             \* "force", "serving", "failed"
  cfg,       \* cfg.Middlewares
  chain,     \* names of the middlewares of the chain in use
  sessions,  \* "none", "live", or "lapsed": the time is over, the entry there
  \* per request
  call,      \* [pc, proc, request, session, on]
  \* history
  toggled,   \* times each name has been toggled
  mentioned, \* names that a file has had
  contested, \* names toggled while another request or process was at them
  changed,   \* the password has been changed by a request
  generated, \* the one there is has been set by a start
  together,  \* two starts have been about to set it at the same time
  harm       \* what a fault has hit: "password", "toggle"

counts  == <<setting, starts, asked, edits>>
table   == <<hash, force, saved, upstreams>>
proc    == <<life, cfg, chain, sessions>>
history == <<toggled, mentioned, contested, changed, generated, together, harm>>
vars    == <<svars, counts, file, table, proc, call, history>>

Idle == [pc |-> "idle", proc |-> CHOOSE p \in Procs : TRUE, request |-> NoRequest,
         session |-> CHOOSE s \in Sessions : TRUE, on |-> FALSE]
NoSessions == [s \in Sessions |-> "none"]
InFile(f)  == {n \in Names : f[n] # "none"}

Init ==
  /\ SchemaInit
  /\ setting \in Settings
  /\ \E k \in setting.releases : applied = 1..k
  /\ starts = 0 /\ asked = 0 /\ edits = 0
  /\ file \in setting.files
  /\ hash = "none" /\ force = "none"
  /\ saved = [n \in Names |-> "none"]
  /\ upstreams = [u \in Upstreams |-> "none"]
  /\ life = [p \in Procs |-> "down"]
  /\ cfg = [p \in Procs |-> [n \in Names |-> "none"]]
  /\ chain = [p \in Procs |-> {}]
  /\ sessions = [p \in Procs |-> NoSessions]
  /\ call = [c \in Calls |-> Idle]
  /\ toggled = [n \in Names |-> 0]
  /\ mentioned = InFile(file)
  /\ contested = {} /\ harm = {}
  /\ changed = FALSE /\ generated = FALSE /\ together = FALSE

-----------------------------------------------------------------------------
(* Start and reload *)

Enabled(f) == {n \in Names : f[n] = "on"}

\* createMiddleware, with a token store or without.
CanBuild(n, store) == n \in Known /\ (n = Token => store)

\* BuildChain: all the enabled ones or none of them.
Builds(f, store) == \A n \in Enabled(f) : CanBuild(n, store)

\* runProxy, runWrapper, the other commands: initFromFlags, then Open.
Start(p) ==
  /\ life[p] = "down" /\ starts < setting.starts
  /\ starts' = starts + 1
  /\ life' = [life EXCEPT ![p] = "opening"]
  /\ cfg' = [cfg EXCEPT ![p] = file]
  /\ Open(p)
  /\ UNCHANGED <<setting, asked, edits, file, table, chain, sessions, call, history>>

Migrate(p) ==
  /\ Migrates(p)
  /\ life' = [life EXCEPT ![p] =
       CASE db'[p] = "failed" -> "failed"
         [] db'[p] = "open"   -> IF setting.kind[p] = "command" THEN "serving" ELSE "overrides"
         [] OTHER             -> "opening"]
  /\ UNCHANGED <<counts, file, table, cfg, chain, sessions, call, history>>

Toggling == {call[c].request.name :
               c \in {d \in Calls : call[d].pc \in {"set", "save"}}}

\* LoadConfigPrefix and ApplyDBOverrides.  An error of the former is dropped.
LoadOverrides(p) ==
  /\ life[p] = "overrides"
  /\ life' = [life EXCEPT ![p] = "chain"]
  /\ \/ /\ cfg' = [cfg EXCEPT ![p] = [n \in Names |->
                     IF saved[n] # "none" THEN saved[n] ELSE cfg[p][n]]]
        /\ UNCHANGED <<faults, harm>>
     \/ /\ faults < MaxFaults
        /\ faults' = faults + 1 /\ harm' = harm \cup {"toggle"}
        /\ UNCHANGED cfg
  /\ contested' = contested \cup Toggling
  /\ UNCHANGED <<applied, recorded, db, next, alone, spoiled, counts, file, table,
                 chain, sessions, call, toggled, mentioned, changed, generated, together>>

\* BuildChain.  Without it the process ends.
BuildFirst(p) ==
  /\ life[p] = "chain"
  /\ IF Builds(cfg[p], setting.kind[p] = "proxy")
     THEN /\ life' = [life EXCEPT ![p] = "count"]
          /\ chain' = [chain EXCEPT ![p] = Enabled(cfg[p])]
     ELSE /\ life' = [life EXCEPT ![p] = "failed"]
          /\ UNCHANGED chain
  /\ UNCHANGED <<svars, counts, file, table, cfg, sessions, call, history>>

\* SIGHUP: the file alone, no token store; a chain that cannot be built leaves
\* the old one.  cfg, which the web UI shows and toggles, stays too.
Reload(p) ==
  /\ life[p] \in {"count", "hash", "force", "serving"} /\ setting.kind[p] # "command"
  /\ Builds(file, FALSE)
  /\ chain' = [chain EXCEPT ![p] = Enabled(file)]
  /\ UNCHANGED <<svars, counts, file, table, life, cfg, sessions, call, history>>

\* Somebody edits the configuration file.
EditFile ==
  /\ edits < setting.edits /\ edits' = edits + 1
  /\ \E f \in setting.files \ {file} : file' = f /\ mentioned' = mentioned \cup InFile(f)
  /\ UNCHANGED <<svars, setting, starts, asked, table, proc, call, toggled,
                 contested, changed, generated, together, harm>>

-----------------------------------------------------------------------------
(* ensureAdminPassword *)

\* A statement fails, and nobody looks at its error; what that may hit.
Unnoticed(what) ==
  /\ faults < MaxFaults
  /\ faults' = faults + 1
  /\ harm' = harm \cup what

Settle(p, l) == life' = [life EXCEPT ![p] = l]

\* Fault: the flag is looked for, not the password.
HasPassword_Flag == force = "true"

HasPassword == hash # "none"

\* SELECT COUNT.  An error counts as none.
CountPassword(p) ==
  /\ life[p] = "count"
  /\ \/ /\ Settle(p, IF HasPassword THEN "serving" ELSE "hash")
        /\ UNCHANGED <<faults, harm>>
     \/ Settle(p, "hash") /\ Unnoticed(IF HasPassword THEN {"password"} ELSE {})
  /\ together' = (together \/ (life'[p] = "hash" /\ \E q \in Procs \ {p} : life[q] = "hash"))
  /\ UNCHANGED <<applied, recorded, db, next, alone, spoiled, counts, file, table,
                 cfg, chain, sessions, call, toggled, mentioned, contested, changed, generated>>

\* When this statement is lost, the next start sets the password.
SetFirstHash(p) ==
  /\ life[p] = "hash"
  /\ Settle(p, "force")
  /\ \/ hash' = Default /\ generated' = TRUE /\ UNCHANGED <<faults, harm>>
     \/ UNCHANGED <<hash, generated>> /\ Unnoticed({})
  /\ UNCHANGED <<applied, recorded, db, next, alone, spoiled, counts, file, force, saved,
                 upstreams, cfg, chain, sessions, call, toggled, mentioned, contested,
                 changed, together>>

SetForce(p) ==
  /\ life[p] = "force"
  /\ Settle(p, "serving")
  /\ \/ force' = "true" /\ UNCHANGED <<faults, harm>>
     \/ UNCHANGED force /\ Unnoticed({"password"})
  /\ UNCHANGED <<applied, recorded, db, next, alone, spoiled, counts, file, hash, saved,
                 upstreams, cfg, chain, sessions, call, toggled, mentioned, contested,
                 changed, generated, together>>

-----------------------------------------------------------------------------
(* Requests *)

Goto(c, pc) == call' = [call EXCEPT ![c].pc = pc]
End(c)      == call' = [call EXCEPT ![c] = Idle]

Arrive(c) ==
  /\ call[c].pc = "idle" /\ asked < setting.calls
  /\ asked' = asked + 1
  /\ \E p \in Procs, r \in setting.requests, s \in Sessions :
       /\ life[p] = "serving" /\ setting.kind[p] # "command"
       /\ call' = [call EXCEPT ![c] =
            [pc |-> IF r.kind = "login" THEN "compare" ELSE "auth",
             proc |-> p, request |-> r, session |-> s, on |-> FALSE]]
  /\ UNCHANGED <<svars, setting, starts, edits, file, table, proc, history>>

\* handleLogin as far as the comparison.
Compare(c) ==
  /\ call[c].pc = "compare"
  /\ IF call[c].request.password = hash THEN Goto(c, "session") ELSE End(c)
  /\ UNCHANGED <<svars, counts, file, table, proc, history>>

\* Its last step: a session with an id of its own.
AddSession(c) ==
  /\ call[c].pc = "session"
  /\ sessions[call[c].proc][call[c].session] = "none"
  /\ sessions' = [sessions EXCEPT ![call[c].proc][call[c].session] = "live"]
  /\ End(c)
  /\ UNCHANGED <<svars, counts, file, table, life, cfg, chain, history>>

\* requireAuth.
Authorize(c) ==
  /\ call[c].pc = "auth"
  /\ LET p == call[c].proc
         s == call[c].session IN
     IF sessions[p][s] = "live"
     THEN Goto(c, call[c].request.kind) /\ UNCHANGED sessions
     ELSE End(c) /\ sessions' = [sessions EXCEPT ![p][s] = "none"]
  /\ UNCHANGED <<svars, counts, file, table, life, cfg, chain, history>>

\* A day has passed since a login.
Lapse(p, s) ==
  /\ sessions[p][s] = "live"
  /\ sessions' = [sessions EXCEPT ![p][s] = "lapsed"]
  /\ UNCHANGED <<svars, counts, file, table, life, cfg, chain, call, history>>

\* handleChangePassword: any password, the default too, in two statements, errors
\* unnoticed.
ChangeHash(c) ==
  /\ call[c].pc = "change"
  /\ Goto(c, "unforce")
  /\ \/ /\ hash' = call[c].request.password
        /\ changed' = TRUE /\ generated' = FALSE
        /\ UNCHANGED <<faults, harm>>
     \/ UNCHANGED <<hash, changed, generated>> /\ Unnoticed({"password"})
  /\ UNCHANGED <<applied, recorded, db, next, alone, spoiled, counts, file, force, saved,
                 upstreams, proc, toggled, mentioned, contested, together>>

ChangeForce(c) ==
  /\ call[c].pc = "unforce"
  /\ End(c)
  /\ \/ force' = "false" /\ UNCHANGED <<faults, harm>>
     \/ UNCHANGED force /\ Unnoticed({})
  /\ UNCHANGED <<applied, recorded, db, next, alone, spoiled, counts, file, hash, saved,
                 upstreams, proc, toggled, mentioned, contested, changed, generated, together>>

\* A name that cfg lacks counts as enabled.
IsOn(p, n) == cfg[p][n] # "off"

\* handleMiddlewareToggle: what cfg says.
ReadToggle(c) ==
  /\ call[c].pc = "toggle"
  /\ LET n == call[c].request.name
         p == call[c].proc IN
     /\ call' = [call EXCEPT ![c].pc = "set", ![c].on = IsOn(p, n)]
     /\ toggled' = [toggled EXCEPT ![n] = @ + 1]
     /\ contested' =
          IF \/ n \in Toggling
             \/ \E q \in Procs \ {p} : life[q] \in {"chain", "count", "hash", "force", "serving"}
          THEN contested \cup {n} ELSE contested
  /\ UNCHANGED <<svars, counts, file, table, proc, mentioned, changed, generated, together,
                 harm>>

Mark(on) == IF on THEN "on" ELSE "off"

\* toggleMW: SetMiddlewareEnabled, which appends a name that is not there.
SetToggle(c) ==
  /\ call[c].pc = "set"
  /\ Goto(c, "save")
  /\ cfg' = [cfg EXCEPT ![call[c].proc][call[c].request.name] = Mark(~call[c].on)]
  /\ UNCHANGED <<svars, counts, file, table, life, chain, sessions, history>>

\* Fault: what was read is saved.
ToSave_Read(c) == Mark(call[c].on)

ToSave(c) == Mark(~call[c].on)

\* SaveConfig, whose error is only logged.
SaveToggle(c) ==
  /\ call[c].pc = "save"
  /\ End(c)
  /\ \/ /\ saved' = [saved EXCEPT ![call[c].request.name] = ToSave(c)]
        /\ UNCHANGED <<faults, harm>>
     \/ UNCHANGED saved /\ Unnoticed({"toggle"})
  /\ UNCHANGED <<applied, recorded, db, next, alone, spoiled, counts, file, hash, force,
                 upstreams, proc, toggled, mentioned, contested, changed, generated, together>>

\* A row after an edit: a name that is there, active or not, cannot be inserted;
\* an update keeps active; there is no way back from inactive.
RowAfter(kind, row) ==
  CASE kind = "post"   -> IF row = "none" THEN "active" ELSE row
    [] kind = "put"    -> row
    [] kind = "delete" -> IF row = "none" THEN row ELSE "inactive"

\* handleUpstreams, handleUpstreamByName: one statement each.
EditUpstream(c) ==
  /\ call[c].pc \in {"post", "put", "delete"}
  /\ End(c)
  /\ LET u == call[c].request.upstream IN
       upstreams' = [upstreams EXCEPT ![u] = RowAfter(call[c].pc, @)]
  /\ UNCHANGED <<svars, counts, file, hash, force, saved, proc, history>>

-----------------------------------------------------------------------------
(* The end of a process *)

\* What a process had in memory is gone, and its requests with it.
Gone(p) ==
  /\ life' = [life EXCEPT ![p] = "down"]
  /\ cfg' = [cfg EXCEPT ![p] = [n \in Names |-> "none"]]
  /\ chain' = [chain EXCEPT ![p] = {}]
  /\ sessions' = [sessions EXCEPT ![p] = NoSessions]
  /\ call' = [c \in Calls |-> IF call[c].proc = p THEN Idle ELSE call[c]]

\* It returns, after its requests or 5 seconds, or with the error of its start.
Exit(p) ==
  /\ life[p] \in {"serving", "failed"}
  /\ Close(p) /\ Gone(p)
  /\ UNCHANGED <<counts, file, table, history>>

\* Between the two rows it leaves the first one, and no start writes the other.
Die(p) ==
  /\ life[p] # "down"
  /\ Killed(p) /\ Gone(p)
  /\ harm' = IF life[p] = "force" THEN harm \cup {"password"} ELSE harm
  /\ UNCHANGED <<counts, file, table, toggled, mentioned, contested, changed, generated, together>>

\* Two requests are at the map of sessions, which has no lock, one of them
\* writing: the runtime may end the process.
Writes(c) ==
  \/ call[c].pc = "session"
  \/ call[c].pc = "auth" /\ sessions[call[c].proc][call[c].session] # "live"

Clash(p) ==
  /\ \E c, d \in Calls :
       /\ c # d /\ call[c].proc = p /\ call[d].proc = p
       /\ Writes(c) /\ call[d].pc \in {"session", "auth"}
  /\ Gone(p)
  /\ db' = [db EXCEPT ![p] = "closed"]
  /\ UNCHANGED <<applied, recorded, next, faults, alone, spoiled, counts, file, table,
                 history>>

Next ==
  \/ EditFile
  \/ \E p \in Procs :
       \/ Start(p) \/ Migrate(p) \/ LoadOverrides(p) \/ BuildFirst(p) \/ Reload(p)
       \/ CountPassword(p) \/ SetFirstHash(p) \/ SetForce(p)
       \/ Exit(p) \/ Die(p) \/ Clash(p)
       \/ \E s \in Sessions : Lapse(p, s)
  \/ \E c \in Calls :
       \/ Arrive(c) \/ Compare(c) \/ AddSession(c) \/ Authorize(c)
       \/ ChangeHash(c) \/ ChangeForce(c)
       \/ ReadToggle(c) \/ SetToggle(c) \/ SaveToggle(c) \/ EditUpstream(c)

Spec == Init /\ [][Next]_vars

-----------------------------------------------------------------------------
(* Properties *)

\* Types.
TypeOK ==
  /\ SchemaTypeOK
  /\ file \in [Names -> Marks] /\ saved \in [Names -> Marks]
  /\ hash \in Passwords \cup {"none"} /\ force \in {"none", "true", "false"}
  /\ upstreams \in [Upstreams -> {"none", "active", "inactive"}]
  /\ life \in [Procs -> {"down", "opening", "overrides", "chain", "count", "hash",
                         "force", "serving", "failed"}]
  /\ cfg \in [Procs -> [Names -> Marks]]
  /\ chain \in [Procs -> SUBSET Known]
  /\ sessions \in [Procs -> [Sessions -> {"none", "live", "lapsed"}]]
  /\ \A c \in Calls : call[c].request \in Requests \cup {NoRequest} /\ call[c].on \in BOOLEAN

\* api.go:82-91, 161-162: whatever starts, logins, changes and crashes meet, the
\* password that a start has generated is marked as to be changed, and does not come
\* back once a request has set one, to the same word or to another.  Except after two
\* starts that set the first one together, and after a count that failed with a
\* password there, a change whose first statement is lost, and a start that loses its
\* second one or is killed before it.
DefaultMustBeChanged ==
  ~together /\ "password" \notin harm /\ generated =>
    /\ ~changed
    /\ (\A p \in Procs : life[p] # "force") => force = "true"

\* api.go:411-430: what a process shows and its next start will do are the same,
\* over restarts and crashes, unless two requests or processes were at the name.
ShownIsSaved ==
  "toggle" \notin harm =>
    \A p \in Procs, n \in Names \ (contested \cup Toggling) :
      life[p] \in {"chain", "count", "hash", "force", "serving"}
        /\ setting.kind[p] # "command" /\ saved[n] # "none" =>
      cfg[p][n] = saved[n]

\* api.go:412, registry.go:145: a name that no file has had can keep a process
\* from starting only when it has been toggled twice.
OneToggleIsHarmless ==
  \A p \in Procs : life[p] = "failed" /\ db[p] = "open" =>
    \E n \in Names : /\ ~CanBuild(n, setting.kind[p] = "proxy")
                     /\ n \in mentioned \/ toggled[n] >= 2

\* What holds of database and web UI at all times: types, and a database that one
\* process opens by itself, not killed on the way, opens.
AdminInv ==
  /\ TypeOK
  /\ AloneItOpens

\* api.go:397-440: what the web UI's toggle shows is what the next start does, and
\* a single toggle keeps no process from starting.
TogglesAreKept ==
  /\ ShownIsSaved
  /\ OneToggleIsHarmless
=============================================================================
