\* A transaction after the network has been switched.
CONSTANTS
  AutoConfirm = TRUE
  ActiveAccountObserved = TRUE
  StatusErrors <- NoStatusErrors
  MaxRetries = 1
  MaxAccounts = 1
  MaxNetworks = 2
  MaxConfirms = 1
  MaxCopies = 2
  MaxRequests = 1
SPECIFICATION Spec
INVARIANTS SubmittedOnce
CHECK_DEADLOCK FALSE
