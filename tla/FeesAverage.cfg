CONSTANTS
  a = a
  b = b
  c = c
  d = d
  Pubkey <- MCPubkey
  Account <- MCAccount
  U64_MAX = 7
  MAX_COMPUTE_UNIT_LIMIT = 4
  DEFAULT_INSTRUCTION_COMPUTE_UNIT_LIMIT = 2
  MicroLamports = 4
  LamportsPerSignature = 3
  UnitPrice = {0, 1, 3}
  UnitLimit = {0, 1, 5}
  MaxSignatures = 2
  MaxInstructions = 3
  Basis = 4
  MAX_TX_ACCOUNT_LOCKS = 2
  MaxLevels = 1
  MaxPercentile = 4
  NoFee = NoFee
  MaxTransactions = 3
SPECIFICATION FeeSpec
INVARIANT AverageWithinPrices
CHECK_DEADLOCK FALSE
