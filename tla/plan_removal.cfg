\* What the user wants removed, in the trip that is stored.
SPECIFICATION PlanSpec
CONSTANTS
  a1 = a1  a2 = a2  a3 = a3  a4 = a4
  f1 = f1  f2 = f2  f3 = f3  f4 = f4
  Spots <- MCSpots
  Foods <- MCFoods
  FreeWalk = a4
  LocalFood = f4
  Cost <- MCCost
  Corpus <- MCCorpus
  Fare = 6
  Ride = 1
  RoomNight = 5
  Requests <- MCRequests
  Findings <- MCFindings
  Drafts <- MCDrafts
  Existing <- MCExisting
  Volatile <- MCVolatile
  Rises <- MCRises
INVARIANT RemovedStaysOut
CHECK_DEADLOCK FALSE
