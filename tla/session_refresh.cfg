\* Two overlapping calls of one page with an old access token; no other fault.
SPECIFICATION Spec
CONSTANTS
  d1 = d1
  d2 = d2
  c1 = c1
  c2 = c2
  Devices = {d1, d2}
  Calls <- MCCalls
  PageOf <- MCPageOf
  MaxFailures = 2
  MaxLogins = 2
  MaxExpired = 1
  MayBan = FALSE
  MaxPasswords = 0
  MaxFaults = 0
PROPERTIES SessionsLast
CHECK_DEADLOCK FALSE
