\* No crash and no failing statement: every request that begins ends.  A chat
\* next to a change of date, a publication and a copy of the same trip.
SPECIFICATION LiveSpec
CONSTANTS
  c1 = c1  c2 = c2
  Chats = {c1}
  Alerts = {}
  Dates = {d1}
  Publishes = {p1}
  Copies = {y1}
  Deletes = {x1}
  Trips = {t1, t2, t3}
  Existing = {t1}
  Sessions = {s1}
  Keys = {k1}
  Intents = {"create", "adjust", "ask"}
  AgentFailures = TRUE
  MaxCrashes = 0
  MaxDbErrors = 0
  Seed = Seed
  None = None
INVARIANTS CurrentVersionSaved
PROPERTIES RunsSettle RequestsEnd
CHECK_DEADLOCK FALSE
