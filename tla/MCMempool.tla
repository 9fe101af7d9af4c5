----------------------------- MODULE MCMempool -----------------------------
(* Eight transactions of three senders: two prices for one slot, a nonce     *)
(* beyond the gap, and fees that tie between senders.                      *)
EXTENDS Mempool, TLC

CONSTANTS a, b, c

Tx(s, n, p) == [from |-> s, nonce |-> n, price |-> p]

MCTxs == {Tx(a, 0, 1), Tx(a, 0, 2), Tx(a, 1, 1), Tx(a, 3, 1),
          Tx(b, 0, 1), Tx(b, 1, 1), Tx(b, 1, 3),
          Tx(c, 0, 2)}
MCSenders == {a, b, c}
MCSenderOf == [t \in MCTxs |-> t.from]
MCNonceOf == [t \in MCTxs |-> t.nonce]
MCPriceOf == [t \in MCTxs |-> t.price]
MCGasOf == [t \in MCTxs |-> 1]
=============================================================================
