\* Three accounts, so that a transaction may name two others.
CONSTANTS
  Accounts = {a1, a2, a3}
  Texts = {"hello"}
  None = None
  MaxActions = 2
  MaxMessages = 2
  MaxBuilds = 1
  MaxSubscriptions = 2
SYMMETRY AnyAccount
SPECIFICATION Spec
INVARIANTS TypeOK IntentOfOneMoment EncryptedForTheOneRecipient
CHECK_DEADLOCK FALSE
