SPECIFICATION FairSpec
CONSTANTS
  a = a
  b = b
  c = c
  Txs <- MCTxs
  Accounts <- MCAccounts
  FromOf <- MCFromOf
  NonceOf <- MCNonceOf
  ToOf <- MCToOf
  ValueOf <- MCValueOf
  GenesisBalance <- MCBalance
  VelocityWindow = 3
  HighVelocity = 1
  ExtremeVelocity = 2
  DustValue = 2
  DustCount = 3
  RapidWindow = 2
  RapidCount = 2
  LargeValue = 4
  RoundValues <- MCRound
INVARIANTS TypeOK NewWalletHasNoHistory QuietSenderIncluded
PROPERTIES EmptyBlockNeverRaises PooledDecided
