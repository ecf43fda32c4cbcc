\* Two processes at a time, two logins; the clock passes the expiry of any token.
CONSTANTS
  Procs = {p1, p2}
  Entries = {e1}
  Life = 1
  IdLife = 1
  Margin = 1
  MaxLogins = 2
  MaxSerial = 2
  MaxTime = 3
SPECIFICATION Spec
SYMMETRY ProcSymmetry
INVARIANTS
  PrintedIsLive
  SessionKept
  LoginSticks
  EntriesKept
