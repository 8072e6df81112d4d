SPECIFICATION Spec
CONSTANTS
  p1 = p1
  p2 = p2
  Procs = {p1, p2}
  Versions = {1, 2, 3, 4, 5, 6, 7, 8, 9, 10, 11}
  Latest = 11
  Adds = {2, 7, 11}
  MaxFaults = 1
  Settings <- MCSettings
  Calls = {h1, h2}
  Names = {"auth", "token", "custom"}
  Token = "token"
  Known = {"auth", "token"}
  Passwords = {"admin", "w"}
  Default = "admin"
  Sessions = {s1}
  Upstreams = {u1}
CHECK_DEADLOCK FALSE
INVARIANTS AdminInv OpenIsMigrated DefaultMustBeChanged 
