--------------------------- MODULE MCMempoolLocks ---------------------------
(* Two RPC handlers and the producer over four transactions of two         *)
(* senders; capacity two, so an insert can evict a sender of two.          *)
EXTENDS MempoolLocks, TLC

CONSTANTS a, b, rpc1, rpc2, producer

Tx(s, n, p) == [from |-> s, nonce |-> n, price |-> p]

MCTxs == {Tx(a, 0, 1), Tx(a, 1, 1), Tx(a, 0, 4), Tx(b, 0, 3)}
MCSenders == {a, b}
MCSenderOf == [t \in MCTxs |-> t.from]
MCNonceOf == [t \in MCTxs |-> t.nonce]
MCPriceOf == [t \in MCTxs |-> t.price]
MCGasOf == [t \in MCTxs |-> 1]
MCThreads == {rpc1, rpc2, producer}
AllOps ==
  (rpc1 :> {"insert"}) @@ (rpc2 :> {"insert", "get_by_hash"}) @@
  (producer :> {"get_best", "remove"})
=============================================================================
