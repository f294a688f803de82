\* Overlapping and failing connects and logins, one hardware derivation.
CONSTANTS
  Nodes = {"mainnetNode", "stokenetNode"}
  Networks = {"mainnet", "stokenet"}
  NetworkOf <- ServedBy
  MaxConnects = 2
  MaxLogins = 2
  MaxKeys = 2
SPECIFICATION Spec
INVARIANTS TypeOK WalletIsCurrent ActiveAccountIsCurrent SettledSession BalancesFollowActiveAccount
CHECK_DEADLOCK FALSE
