\* Two networks, the second joined at any time, and requests that fail.
CONSTANTS
  AutoConfirm = FALSE
  ActiveAccountObserved = FALSE
  StatusErrors = {"404", "500"}
  MaxRetries = 1
  MaxAccounts = 1
  MaxNetworks = 2
  MaxConfirms = 2
  MaxCopies = 2
  MaxRequests = 1
SPECIFICATION Spec
INVARIANTS TypeOK OutcomeAgreesWithLedger CompletionIsFirstOutcome NothingSentUnseen
PROPERTIES QuietOnceDecided
CHECK_DEADLOCK FALSE
