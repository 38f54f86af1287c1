\* A change of date next to an adjustment of the same trip.
SPECIFICATION Spec
CONSTANTS
  c1 = c1  c2 = c2
  Chats = {c1}
  Alerts = {}
  Dates = {d1}
  Publishes = {}
  Copies = {}
  Deletes = {}
  Trips = {t1, t2}
  Existing = {t1}
  Sessions = {s1}
  Keys = {k1}
  Intents = {"adjust"}
  AgentFailures = FALSE
  MaxCrashes = 0
  MaxDbErrors = 0
  Seed = Seed
  None = None
PROPERTY RefreshKeepsContent
CHECK_DEADLOCK FALSE
