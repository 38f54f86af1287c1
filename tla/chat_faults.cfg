\* Two overlapping chats of one session, with alerts and a deletion on the
\* same trip, one crash and one failing statement.
SPECIFICATION Spec
CONSTANTS
  c1 = c1  c2 = c2
  Chats = {c1, c2}
  Alerts = {a1}
  Dates = {}
  Publishes = {}
  Copies = {}
  Deletes = {x1}
  Trips = {t1, t2, t3}
  Existing = {t1}
  Sessions = {s1}
  Keys = {k1}
  Intents = {"create", "adjust", "ask"}
  AgentFailures = TRUE
  MaxCrashes = 1
  MaxDbErrors = 1
  Seed = Seed
  None = None
SYMMETRY Symmetry
INVARIANTS TypeOK CurrentVersionSaved NoOrphanVersions RunningIsInProgress ConversationPaired FailedTurnsUnseen
PROPERTIES SuccessIsStored DeletedStaysDeleted LedgerKept
CHECK_DEADLOCK FALSE
