------------------------------- MODULE MCAdmin -------------------------------
(* Admin on small instances. *)
EXTENDS Admin

CONSTANTS p1, p2

Login(w)   == [kind |-> "login", password |-> w]
Change(w)  == [kind |-> "change", password |-> w]
Toggle(n)  == [kind |-> "toggle", name |-> n]
Kind(k, l) == [p \in Procs |-> IF p = p1 THEN k ELSE l]

MCFile(on, off) ==
  [n \in Names |-> IF n \in on THEN "on" ELSE IF n \in off THEN "off" ELSE "none"]

\* Databases of every release opened by two processes.  The password.  A name
\* no process knows, toggled over restarts; the token middleware, toggled and
\* in the file, beside a process that cannot build it; a reload of another file.
\* Upstreams.
MCSettings ==
  { [kind |-> Kind("command", "command"), requests |-> {}, files |-> {MCFile({}, {})},
     releases |-> {0, 1, 6, 10, 11}, starts |-> 3, calls |-> 0, edits |-> 0],
    [kind |-> Kind("proxy", "stdio"), requests |-> {Login("admin"), Login("w"), Change("admin"), Change("w")},
     files |-> {MCFile({}, {})}, releases |-> {11}, starts |-> 3, calls |-> 4, edits |-> 0],
    [kind |-> Kind("proxy", "command"), requests |-> {Login("admin"), Toggle("custom")},
     files |-> {MCFile({}, {})}, releases |-> {11}, starts |-> 3, calls |-> 5, edits |-> 0],
    [kind |-> Kind("proxy", "stdio"), requests |-> {Login("admin"), Toggle("token")},
     files |-> {MCFile({}, {"token"})}, releases |-> {11}, starts |-> 3, calls |-> 3, edits |-> 0],
    [kind |-> Kind("proxy", "stdio"), requests |-> {Login("admin"), Toggle("auth")},
     files |-> {MCFile({"token"}, {}), MCFile({"auth"}, {})},
     releases |-> {11}, starts |-> 2, calls |-> 3, edits |-> 1],
    [kind |-> Kind("proxy", "command"),
     requests |-> {Login("admin")} \cup [kind : {"post", "put", "delete"}, upstream : Upstreams],
     files |-> {MCFile({}, {})}, releases |-> {11}, starts |-> 1, calls |-> 4, edits |-> 0] }
=============================================================================
