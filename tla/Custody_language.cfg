\* One wallet of a mnemonic that is not in English, made and opened again.
CONSTANTS
  Entropies <- SomeEntropies
  Languages = {"ENGLISH", "FRENCH"}
  Passwords <- SomePasswords
  entropy1 = entropy1
  entropy2 = entropy2
  password1 = password1
  password2 = password2
  MaxCalls = 2
  MaxCrashes = 1
  HardenedIncrement = 2048
  NoNumber = NoNumber
  NotAKey = NotAKey
  Paths <- SomePaths
  Networks = {"mainnet"}
  Names <- SomeNames
  Texts <- SomeTexts
  Friend = Friend
  Stranger = Stranger
  Ephemeral = Ephemeral
SPECIFICATION Spec
INVARIANTS ReopenedWalletIsTheSame
CHECK_DEADLOCK FALSE
