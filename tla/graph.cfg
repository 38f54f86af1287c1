\* Every route through the graph, with sub-agents that may fail.
SPECIFICATION LiveSpec
CONSTANTS
  Fields <- MCFields
  Failures = TRUE
  MaxRetries = 2
INVARIANTS TypeOK PlanUsesFindings NothingUnreviewed
PROPERTIES PipelineKept RunEnds
CHECK_DEADLOCK FALSE
