CONSTANTS
  a = a
  b = b
  s = s
  a0 = a0
  a1 = a1
  b0 = b0
  x0 = x0
  u0 = u0
  y0 = y0
  z0 = z0
  w0 = w0
  c1 = c1
  c2 = c2
  h1 = h1
  h2 = h2
  h3 = h3
  Txs <- MCTxs
  FormOf <- MCFormOf
  SignerOf <- MCSignerOf
  ChainOf <- MCChainOf
  ParityOf <- MCParityOf
  NonceOf <- MCNonceOf
  PriceOf <- MCPriceOf
  GasOf <- MCGasOf
  ValueOf <- MCValueOf
  ToOf <- MCToOf
  Accounts = {a, b, s}
  Stranger = s
  GenesisBalance <- MCBalance
  ChainId = 3
  MaxSize = 2
  MaxNonceGap = 1
  Clients = {c1, c2}
  Watched = {a0}
  MaxHeight = 2
  Handlers = {h1, h2, h3}
  Limit = 2
  TickRate = 2
  MaxDelay = 2
SPECIFICATION MCSpec
INVARIANTS TypeOK   
PROPERTIES OneMissAtMost
VIEW Seen
SYMMETRY Clerks
