\* Two browsers of one account, with overlapping calls, lost answers, failing
\* statements, locks, new passwords and bans.
SPECIFICATION LiveSpec
CONSTANTS
  d1 = d1
  d2 = d2
  c1 = c1
  c2 = c2
  Devices = {d1, d2}
  Calls <- MCCalls
  PageOf <- MCPageOf
  MaxFailures = 2
  MaxLogins = 2
  MaxExpired = 1
  MayBan = TRUE
  MaxPasswords = 1
  MaxFaults = 1
INVARIANTS TypeOK OneTokenPerLogin LockedIsLoggedOut NewPasswordEndsSessions
PROPERTIES EndedStaysEnded CallsEnd
CHECK_DEADLOCK FALSE
