CONSTANTS
  a = a
  b = b
  v = v
  a0 = a0
  r0 = r0
  a1 = a1
  a2 = a2
  b0 = b0
  Txs <- Wedge
  Senders <- MCSenders
  SenderOf <- MCSenderOf
  NonceOf <- MCNonceOf
  PriceOf <- MCPriceOf
  GasOf <- MCGasOf
  MaxSize = 4
  MaxNonceGap = 1
  Accounts <- MCAccounts
  Validator = v
  ToOf <- MCToOf
  ValueOf <- MCValueOf
  UsedOf <- MCUsedOf
  ExecOf <- MCExecOf
  GenesisBalance <- Rich
  Verdicts <- Included
  BestLimit = 4
  BlockTime = 1
  Faults <- NoFault
  MaxFaults = 0
SPECIFICATION ResubmitSpec
PROPERTIES ValidIncluded
