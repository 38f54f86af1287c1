\* A question about an open trip.
SPECIFICATION Spec
CONSTANTS
  c1 = c1  c2 = c2
  Chats = {c1}
  Alerts = {}
  Dates = {}
  Publishes = {}
  Copies = {}
  Deletes = {}
  Trips = {t1, t2}
  Existing = {t1}
  Sessions = {s1}
  Keys = {k1}
  Intents = {"ask"}
  AgentFailures = FALSE
  MaxCrashes = 0
  MaxDbErrors = 0
  Seed = Seed
  None = None
PROPERTY QuestionsKeepThePlan
CHECK_DEADLOCK FALSE
