\* Each service around the chat on its own small instance.
SPECIFICATION ServicesSpec
CONSTANTS
  g1 = g1  g2 = g2
  Guides = {g1, g2}
  Readers = {"u1"}
  MaxReviews = 4
  MaxBreaks = 1
  MaxSecond = 1
  n1 = n1  n2 = n2
  Names = {n1, n2}
  Phones = {"p1"}
  Addresses = {"i1"}
  Allowed <- MCAllowed
  Minute = 1
  CodeLife = 2
  Hour = 3
  MaxTime = 4
  MaxCodes = 3
  MaxPasswordsSet = 2
  MaxMishaps = 1
  Secrets = {"s1", "s2"}
  TotpCalls = {1, 2, 3}
  NoSecret = ""
  Places = {"park", "park tower"}
  Matching <- MCMatching
  TopPrice = 1
  MaxReports = 2
  MaxSlips = 1
  Runs = {"r1", "r2"}
  MaxTokens = 3
  MaxResets = 1
  Cases = {"t001"}
  Checks = {"budget", "days", "route", "source"}
  Targets = {"trip"}
  Reports <- MCReports
  MaxEvaluations = 2
  MaxRatings = 2
  MaxFailures = 1
  Sights = {"pagoda", "palace", "lake"}
  Kitchens = {"duck", "noodles", "hotpot", "tea"}
  Hours <- MCHours
  Similar <- MCSimilar
  Days <- MCDays
  Ways <- MCWays
  Agendas <- MCAgendas
  MaxTaken = 1
  a1 = a1  a2 = a2  a3 = a3  a4 = a4
  f1 = f1  f2 = f2  f3 = f3  f4 = f4
  Spots <- MCSpots
  Foods <- MCFoods
  FreeWalk = a4
  LocalFood = f4
  Cost <- MCCost
  Corpus <- MCCorpus
  Fare = 6
  Ride = 1
  RoomNight = 5
  Requests <- MCRequests
  Findings <- MCFindings
  Drafts <- MCDrafts
  Existing <- MCExisting
  Volatile <- MCVolatile
  Rises <- MCRises
SYMMETRY Symmetry
INVARIANTS TypesOK CountsMatchRows PagesShowAllMarks ReviewsFollowGuides WindowKept ReusedPricesReviewed ReportsAppliedOnce RunsPayTheirOwn LowScoresTracked TimelineHolds BudgetTold RemovalHolds
PROPERTIES ModerationKept AcceptedIsNewest SecondFactorHeld ReviewedPricesKept MinimumKept
CHECK_DEADLOCK FALSE
