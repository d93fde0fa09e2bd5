SPECIFICATION Spec
CONSTANTS
  f1 = f1
  f2 = f2
  Files <- MCFiles
  Gears = {"none", "bare", "tools"}
  Answers <- MCAnswers
  MaxTurns = 5
  MaxContinuations = 2
  MaxInvalid = 2
  MaxWrites = 2
  MaxManifest = 1
  SummaryRoom = 4
  Transports = {"mcp", "llm", "http", "subprocess"}
  Chain <- MCChain
  Complex <- Both
  ExpectsArtifacts <- Both
  HasTests <- Both
  MaxRetries = 2
INVARIANTS
  Conversation
  Remembered
  Joined
  FilesShown
  PassEarned
  OneFeedback
CHECK_DEADLOCK FALSE
