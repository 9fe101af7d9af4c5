------------------------------ MODULE MCNode ------------------------------
(* Two senders, one of whom has two transactions for his first nonce.      *)
EXTENDS Node, TLC

CONSTANTS a, b, v, a0, r0, a1, a2, b0

Two   == {a0, a1, b0}
Three == {a0, r0, a1}
Wedge == {a0, r0, a1, a2}

MCSenders  == {a, b}
MCAccounts == {a, b, v}
MCSenderOf == [t \in Txs |-> IF t = b0 THEN b ELSE a]
MCNonceOf  == [t \in Txs |-> IF t = a2 THEN 2 ELSE IF t = a1 THEN 1 ELSE 0]
MCPriceOf  == [t \in Txs |-> IF t = r0 THEN 2 ELSE 1]
MCGasOf    == [t \in Txs |-> 2]
MCUsedOf   == [t \in Txs |-> IF t = a1 THEN 1 ELSE 2]
MCToOf     == [t \in Txs |-> IF t \in {a0, a2} THEN b ELSE v]
MCValueOf  == [t \in Txs |-> 3]
MCExecOf   == [t \in Txs |-> IF t = r0 THEN "revert" ELSE "ok"]
MCBalance  == [c \in Accounts |-> IF c = a THEN 10 ELSE IF c = b THEN 4 ELSE 5]
Rich       == [c \in Accounts |-> 30]
AllVerdicts == {"include", "reject"}
Included    == {"include"}
AnyFault    == {"crash", "overrun", "slip"}
Crashes     == {"crash"}
NoFault     == {}

\* The states but for the last answer of the mempool, which no action reads.
Seen == <<pool, index, state, chain, rpc, pc, loop, timer, age, faults>>
=============================================================================
