\* Two overlapping chats of one session.
SPECIFICATION Spec
CONSTANTS
  c1 = c1  c2 = c2
  Chats = {c1, c2}
  Alerts = {}
  Dates = {}
  Publishes = {}
  Copies = {}
  Deletes = {}
  Trips = {t1, t2}
  Existing = {t1}
  Sessions = {s1}
  Keys = {k1}
  Intents = {"create"}
  AgentFailures = FALSE
  MaxCrashes = 0
  MaxDbErrors = 0
  Seed = Seed
  None = None
INVARIANT AnswersStayInHistory
CHECK_DEADLOCK FALSE
