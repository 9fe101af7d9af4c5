------------------------------- MODULE MCRpc -------------------------------
(* The two halves of jsonrpc_handler, the limiter and the handlers behind  *)
(* it: they share no state, so a behaviour takes steps of one of them.     *)
EXTENDS Rpc, RateLimiter, TLC

CONSTANTS a, b, s, a0, a1, b0, x0, u0, y0, z0, w0, c1, c2, h1, h2, h3

VARIABLE half

MCTxs == {a0, a1, b0, x0, u0, y0, z0, w0}

MCFormOf ==
  [t \in Txs |-> CASE t \in {y0, z0} -> "type2"
                   [] t = u0 -> "unprotected"
                   [] t = w0 -> "bincode"
                   [] OTHER -> "legacy"]
MCSignerOf == [t \in Txs |-> IF t \in {b0, z0} THEN b ELSE a]
MCChainOf  == [t \in Txs |-> IF t = x0 THEN 2 ELSE IF t = u0 THEN 0 ELSE 3]
MCParityOf == [t \in Txs |-> IF t \in {a1, z0} THEN 1 ELSE 0]
MCNonceOf  == [t \in Txs |-> IF t = a1 THEN 1 ELSE 0]
MCPriceOf  == [t \in Txs |-> IF t = z0 THEN 0 ELSE IF t = b0 THEN 3 ELSE 1]
MCGasOf    == [t \in Txs |-> 1]
MCValueOf  == [t \in Txs |-> IF t = z0 THEN 0 ELSE 1]
MCToOf     == [t \in Txs |-> IF t = b0 THEN a ELSE b]
MCBalance  == [c \in Accounts |-> IF c = s THEN 0 ELSE 4]

Clerks == Permutations(Clients) \cup Permutations(Handlers)

MCInit == Init /\ LimiterInit /\ half \in {"limiter", "dispatch"}

MCNext ==
  \/ half = "limiter" /\ LimiterNext /\ UNCHANGED <<vars, half>>
  \/ half = "dispatch" /\ Next /\ UNCHANGED <<limiter, half>>

MCSpec == MCInit /\ [][MCNext]_<<vars, limiter, half>>

\* The states but for answers that nothing reads again.
Seen == <<pool, index, chain, call, lost, missed, limiter, half>>
=============================================================================
