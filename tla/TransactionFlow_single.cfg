\* One network and one confirmation, accounts that are switched meanwhile.
CONSTANTS
  AutoConfirm = FALSE
  ActiveAccountObserved = TRUE
  StatusErrors = {"404"}
  MaxRetries = 2
  MaxAccounts = 3
  MaxNetworks = 1
  MaxConfirms = 1
  MaxCopies = 1
  MaxRequests = 3
SPECIFICATION FairSpec
INVARIANTS SignerNotStale NoRequestOutlivesOutcome
PROPERTIES TrackingSpec SettlesOnceSigned
CHECK_DEADLOCK FALSE
