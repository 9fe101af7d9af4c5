SPECIFICATION Spec
CONSTANTS
  a = a
  b = b
  c = c
  Txs <- MCTxs
  Senders <- MCSenders
  SenderOf <- MCSenderOf
  NonceOf <- MCNonceOf
  PriceOf <- MCPriceOf
  GasOf <- MCGasOf
  MaxSize = 3
  MaxNonceGap = 1
INVARIANTS PoolIndexed Bounded
PROPERTIES EvictsWholeSenders EvictsCheapest
