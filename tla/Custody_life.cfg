\* One wallet made and opened again, terminated once.
CONSTANTS
  Entropies <- SomeEntropies
  Languages = {"ENGLISH"}
  Passwords <- SomePasswords
  entropy1 = entropy1
  entropy2 = entropy2
  password1 = password1
  password2 = password2
  MaxCalls = 2
  MaxCrashes = 1
  HardenedIncrement = 2048
  NoNumber = NoNumber
  NotAKey = NotAKey
  Paths <- SomePaths
  Networks = {"mainnet", "stokenet"}
  Names <- SomeNames
  Texts <- SomeTexts
  Friend = Friend
  Stranger = Stranger
  Ephemeral = Ephemeral
SPECIFICATION Spec
SYMMETRY Symmetric
INVARIANTS TypeOK HandedOutIsSaved RestoredKeyIsTheSame IdentifiersReadBack ReadByPartiesOnly
CHECK_DEADLOCK FALSE
