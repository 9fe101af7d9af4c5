--------------------------- MODULE MCFraudGate ---------------------------
(* A sender of four transactions, large, small and empty, and one who pays *)
(* him once.                                                               *)
EXTENDS FraudGate, TLC

CONSTANTS a, b, c

Tx(from, n, to, value) == <<from, n, to, value>>

MCTxs == {Tx(a, 0, c, 8), Tx(a, 0, c, 1), Tx(a, 1, c, 1), Tx(a, 2, c, 1),
          Tx(a, 3, c, 1), Tx(a, 3, c, 0), Tx(b, 0, a, 4)}

MCAccounts == {a, b, c}
MCFromOf   == [t \in MCTxs |-> t[1]]
MCNonceOf  == [t \in MCTxs |-> t[2]]
MCToOf     == [t \in MCTxs |-> t[3]]
MCValueOf  == [t \in MCTxs |-> t[4]]
MCBalance  == [s \in MCAccounts |-> IF s = a THEN 10 ELSE IF s = b THEN 4 ELSE 0]
MCRound    == {4, 8}
=============================================================================
