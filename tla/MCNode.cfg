CONSTANTS
  a = a
  b = b
  v = v
  a0 = a0
  r0 = r0
  a1 = a1
  a2 = a2
  b0 = b0
  Txs <- Two
  Senders <- MCSenders
  SenderOf <- MCSenderOf
  NonceOf <- MCNonceOf
  PriceOf <- MCPriceOf
  GasOf <- MCGasOf
  MaxSize = 2
  MaxNonceGap = 1
  Accounts <- MCAccounts
  Validator = v
  ToOf <- MCToOf
  ValueOf <- MCValueOf
  UsedOf <- MCUsedOf
  ExecOf <- MCExecOf
  GenesisBalance <- MCBalance
  Verdicts <- AllVerdicts
  BestLimit = 2
  BlockTime = 1
  Faults <- AnyFault
  MaxFaults = 2
SPECIFICATION Spec
INVARIANTS TypeOK PooledNotAhead OneTxPerSender IncludedOnce  StateReplays
PROPERTIES GenesisWhole
VIEW Seen
