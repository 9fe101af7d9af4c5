\* Threads stop after MaxCalls calls, and get_by_hash can block them for good
\* (see MCMempoolLocksDeadlock.cfg): deadlock is not an error of this run.
SPECIFICATION FairSpec
CHECK_DEADLOCK FALSE
CONSTANTS
  a = a
  b = b
  rpc1 = rpc1
  rpc2 = rpc2
  producer = producer
  Txs <- MCTxs
  Senders <- MCSenders
  SenderOf <- MCSenderOf
  NonceOf <- MCNonceOf
  PriceOf <- MCPriceOf
  GasOf <- MCGasOf
  MaxSize = 2
  MaxNonceGap = 0
  Threads <- MCThreads
  Ops <- AllOps
  MaxCalls = 2
PROPERTIES CallsAtomic CallsReturnUncrossed
