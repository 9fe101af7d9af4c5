\* Threads stop after MaxCalls calls each: the property speaks of those that block.
SPECIFICATION FairSpec
CHECK_DEADLOCK FALSE
CONSTANTS
  a = a
  b = b
  rpc1 = rpc1
  rpc2 = rpc2
  producer = producer
  Txs <- MCTxs
  Senders <- MCSenders
  SenderOf <- MCSenderOf
  NonceOf <- MCNonceOf
  PriceOf <- MCPriceOf
  GasOf <- MCGasOf
  MaxSize = 2
  MaxNonceGap = 0
  Threads <- MCThreads
  Ops <- AllOps
  MaxCalls = 1
PROPERTIES CallsReturn
