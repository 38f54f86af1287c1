\* A create request whose review finds fault.
SPECIFICATION Spec
CONSTANTS
  Fields <- MCFields
  Failures = TRUE
  MaxRetries = 2
PROPERTY FailedReviewIsRetried
CHECK_DEADLOCK FALSE
