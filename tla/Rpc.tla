-------------------------------- MODULE Rpc --------------------------------
(***************************************************************************)
(* The handlers of rpc/src/server.rs that decode a transaction and look    *)
(* one up, beside a producer that includes what they pool.                 *)
(*                                                                         *)
(* A transaction is the byte string a client sends, and stands for its     *)
(* hash.  Who signed it, for which chain and how it is encoded are         *)
(* functions of it; whom the node takes for its sender is computed the way *)
(* the node does, from what is on the wire.  The producer is Node's with   *)
(* every execution one step that succeeds and uses all of its gas.         *)
(***************************************************************************)
EXTENDS Integers, FiniteSets, Sequences, SequencesExt

CONSTANTS
  Txs,
  FormOf,         \* tx -> "legacy", "unprotected" (legacy before EIP-155),
                  \* "type2", or "bincode" as `quyn wallet send' has it
  SignerOf,       \* tx -> the account whose key signed it
  ChainOf,        \* tx -> the chain id in it, 0 in an unprotected one
  ParityOf,       \* tx -> the recovery id of its signature
  NonceOf, PriceOf, GasOf, ValueOf, ToOf,
  Accounts,
  Stranger,       \* whatever address a signature over other bytes yields
  GenesisBalance,
  ChainId,        \* the node's chain id
  MaxSize, MaxNonceGap,
  Clients,
  Watched,        \* bound: the transactions that clients ask for
  MaxHeight       \* bound: the number of the last block

ASSUME RpcAssumption ==
  /\ FormOf \in [Txs -> {"legacy", "unprotected", "type2", "bincode"}]
  /\ SignerOf \in [Txs -> Accounts \ {Stranger}]
  /\ ChainOf \in [Txs -> Nat]
  /\ ParityOf \in [Txs -> {0, 1}]
  /\ NonceOf \in [Txs -> Nat] /\ PriceOf \in [Txs -> Nat]
  /\ GasOf \in [Txs -> Nat] /\ ValueOf \in [Txs -> Nat]
  \* Nobody has the key of the stranger, and nobody pays it.
  /\ Stranger \in Accounts
  /\ ToOf \in [Txs -> Accounts \ {Stranger}]
  /\ GenesisBalance \in [Accounts -> Nat]
  /\ GenesisBalance[Stranger] = 0
  /\ ChainId \in Nat \ {0}
  /\ MaxSize \in Nat /\ MaxNonceGap \in Nat
  /\ Watched \subseteq Txs
  /\ MaxHeight \in Nat

VARIABLES
  pool, index, reply,  \* the mempool
  bal, nonce,          \* the state database
  making,              \* where the producer is
  cand,                \* its candidates, those still to be tried
  body,                \* to_apply
  blocks,              \* the blocks by number, from 1 for the genesis block
  head,                \* the number of the head
  receipts,            \* receipt index: tx -> its block's number and its place
  call,                \* client -> its request, and how far the handler has come
  result,              \* client -> what its last request returned
  \* History.
  lost,                \* clients whose transaction was nowhere during the call
  missed               \* client -> what its last answer missed, known ever since

mempool == <<pool, index, reply>>
chain   == <<bal, nonce, making, cand, body, blocks, head, receipts>>
vars    == <<mempool, chain, call, result, lost, missed>>

-----------------------------------------------------------------------------
(* What is on the wire, and what the node makes of it.                     *)

(* to_legacy_rlp; before EIP-155, and in type 2, the parity alone.         *)
WireV(t) ==
  IF FormOf[t] = "legacy" THEN 35 + 2 * ChainOf[t] + ParityOf[t] ELSE 27 + ParityOf[t]

(* parse_legacy_tx; bincode cannot read what it wrote without hash_override.*)
Malformed(t) == FormOf[t] = "bincode"

ChainIn(t) ==
  IF FormOf[t] = "type2" THEN ChainOf[t]
  ELSE IF WireV(t) >= 35 THEN (WireV(t) - 35) \div 2 ELSE 0

RecoveryId(t) ==
  IF WireV(t) >= 35 THEN (WireV(t) - 35) % 2 ELSE WireV(t) - 27

(* The digest that was signed, and the one recover_sender takes, which is  *)
(* the legacy one with a chain id whatever the form.                       *)
Signed(t) == <<FormOf[t], ChainOf[t]>>
Hashed(t) == <<"legacy", ChainIn(t)>>

Recovered(t) ==
  IF Signed(t) = Hashed(t) /\ RecoveryId(t) = ParityOf[t] THEN SignerOf[t] ELSE Stranger

SenderOf == [t \in Txs |-> Recovered(t)]

M == INSTANCE Mempool WITH Senders <- Accounts

Cost(t) == ValueOf[t] + PriceOf[t] * GasOf[t]

-----------------------------------------------------------------------------

NoCall == [step |-> "none"]

(* The steps that a handler still has to make for a transaction.           *)
Calls == [step : {"state", "insert", "receipt", "pool"}, tx : Txs] \cup {NoCall}

Results == {"nothing", "malformed", "wrong chain", "invalid", "gap", "ok", "null",
            "mined", "pooled"}

(* The type of every variable.                                             *)
TypeOK ==
  /\ M!TypeOK
  /\ bal \in [Accounts -> Nat] /\ nonce \in [Accounts -> Nat]
  /\ making \in {"asleep", "body", "head", "receipts"}
  /\ cand \subseteq Txs /\ body \in Seq(Txs)
  /\ blocks \in Seq(Seq(Txs))
  /\ head \in Nat
  /\ DOMAIN receipts \subseteq Txs
  /\ call \in [Clients -> Calls]
  /\ result \in [Clients -> Results]
  /\ lost \subseteq Clients
  /\ missed \in [Clients -> SUBSET Txs]

Init ==
  /\ M!Init
  /\ bal = GenesisBalance /\ nonce = [a \in Accounts |-> 0]
  /\ making = "asleep" /\ cand = {} /\ body = <<>>
  /\ blocks = <<<<>>>> /\ head = 0
  /\ receipts = [t \in {} |-> <<0, 0>>]
  /\ call = [c \in Clients |-> NoCall]
  /\ result = [c \in Clients |-> "nothing"]
  /\ lost = {}
  /\ missed = [c \in Clients |-> {}]

-----------------------------------------------------------------------------
(* The handlers.                                                           *)

Begins(c, step, t) ==
  /\ call[c] = NoCall
  /\ call' = [call EXCEPT ![c] = [step |-> step, tx |-> t]]
  /\ UNCHANGED result

At(c, step) == call[c].step = step

Goes(c, step) == call' = [call EXCEPT ![c].step = step] /\ UNCHANGED result

Returns(c, r) ==
  /\ call' = [call EXCEPT ![c] = NoCall]
  /\ result' = [result EXCEPT ![c] = r]

(* Mutant: the chain id is not compared.                                   *)
AnyChain(t) == TRUE

RightChain(t) == ChainIn(t) = ChainId

(* eth_sendRawTransaction: parse, recover, validate_tx_basic ...           *)
Refuse(c, t) ==
  /\ call[c] = NoCall
  /\ Malformed(t) \/ ~ RightChain(t)
  /\ Returns(c, IF Malformed(t) THEN "malformed" ELSE "wrong chain")

Send(c, t) == ~ Malformed(t) /\ RightChain(t) /\ Begins(c, "state", t)

(* Mutant: the balance is not compared with the cost.                      *)
NextNonce(t) == nonce[SenderOf[t]] = NonceOf[t]

Valid(t) == bal[SenderOf[t]] >= Cost(t) /\ nonce[SenderOf[t]] = NonceOf[t]

(* ... validate_tx_against_state (Node takes its two reads apart) ...      *)
CheckState(c) ==
  /\ At(c, "state")
  /\ IF Valid(call[c].tx) THEN Goes(c, "insert") ELSE Returns(c, "invalid")

(* ... and the insert.                                                     *)
Insert(c) ==
  /\ At(c, "insert")
  /\ M!Insert(call[c].tx)
  /\ Returns(c, reply'.kind)

(* qyn_getFraudAnalysis: the receipt index and its block, then the mempool.*)
Analyse(c, t) == Begins(c, "receipt", t)

(* The transaction at the place that the receipt index names.              *)
Located(t) == blocks[receipts[t][1] + 1][receipts[t][2] + 1]

(* Mutant: only the receipts are looked at, as in eth_getTransactionByHash.*)
ReadReceiptOnly(c) ==
  /\ At(c, "receipt")
  /\ Returns(c, IF call[c].tx \in DOMAIN receipts THEN "mined" ELSE "null")

ReadReceipt(c) ==
  /\ At(c, "receipt")
  /\ IF call[c].tx \in DOMAIN receipts THEN Returns(c, "mined") ELSE Goes(c, "pool")

(* get_by_hash: whatever is stored under the sender and the nonce of a hash*)
(* that by_hash holds.                                                     *)
Findable(t) == t \in index /\ M!Slot(t, pool) # {}

ReadPool(c) ==
  /\ At(c, "pool")
  /\ Returns(c, IF Findable(call[c].tx) THEN "pooled" ELSE "null")

Read(c) ==
  \/ \E t \in Txs : Refuse(c, t) \/ Send(c, t)
  \/ \E t \in Watched : Analyse(c, t)
  \/ CheckState(c) \/ ReadReceipt(c) \/ ReadPool(c)

Serve(c) ==
  \/ Read(c) /\ UNCHANGED <<mempool, chain>>
  \/ Insert(c) /\ UNCHANGED chain

-----------------------------------------------------------------------------
(* The producer, as the handlers see it.                                   *)

Body(n) == blocks[n + 1]

(* get_best: the candidates are a snapshot.                                *)
Wake ==
  /\ making = "asleep"
  /\ head < MaxHeight
  /\ cand' = pool
  /\ making' = "body"
  /\ UNCHANGED <<mempool, bal, nonce, body, blocks, head, receipts, call, result>>

Moved(t) ==
  [a \in Accounts |->
     bal[a] + (IF a = ToOf[t] THEN ValueOf[t] ELSE 0)
            - (IF a = SenderOf[t] THEN Cost(t) ELSE 0)]

Execute(t) ==
  /\ making = "body"
  /\ t \in cand
  /\ Valid(t)
  /\ bal' = Moved(t)
  /\ nonce' = [nonce EXCEPT ![SenderOf[t]] = @ + 1]
  /\ cand' = cand \ {t}
  /\ body' = Append(body, t)
  /\ UNCHANGED <<mempool, making, blocks, head, receipts, call, result>>

(* The candidates left are stale, delayed or rejected.                     *)
PutBlock ==
  /\ making = "body"
  /\ cand' = {}
  /\ blocks' = Append(blocks, body)
  /\ making' = "head"
  /\ UNCHANGED <<mempool, bal, nonce, body, head, receipts, call, result>>

SetHead ==
  /\ making = "head"
  /\ head' = head + 1
  /\ making' = "receipts"
  /\ UNCHANGED <<mempool, bal, nonce, cand, body, blocks, receipts, call, result>>

(* Its transaction's place in the block, from 0.                           *)
Place == Len(Body(head)) - Len(body)

PutReceipt ==
  /\ making = "receipts"
  /\ body # <<>>
  /\ Head(body) \notin DOMAIN receipts
  /\ receipts' = [t \in DOMAIN receipts \cup {Head(body)} |->
                    IF t = Head(body) THEN <<head, Place>> ELSE receipts[t]]
  /\ UNCHANGED <<mempool, bal, nonce, making, cand, body, blocks, head, call, result>>

RemoveMined ==
  /\ making = "receipts"
  /\ body # <<>>
  /\ Head(body) \in DOMAIN receipts
  /\ M!Remove(Head(body))
  /\ body' = Tail(body)
  /\ UNCHANGED <<bal, nonce, making, cand, blocks, head, receipts, call, result>>

Sleep ==
  /\ making = "receipts"
  /\ body = <<>>
  /\ making' = "asleep"
  /\ UNCHANGED <<mempool, bal, nonce, cand, body, blocks, head, receipts, call, result>>

Produce ==
  \/ Wake \/ PutBlock \/ SetHead \/ PutReceipt \/ RemoveMined \/ Sleep
  \/ \E t \in Txs : Execute(t)

-----------------------------------------------------------------------------
(* What the reads of the chain return.                                     *)

Involves(t, a) == a \in {SenderOf[t], ToOf[t]}

(* One block of quyn_getAddressTransactions, up to the limit.              *)
Listed(got, n, a, limit) ==
  LET Pushed[i \in 0 .. Len(Body(n))] ==
        IF i = 0 THEN got
        ELSE IF Len(Pushed[i - 1]) < limit /\ Involves(Body(n)[i], a)
        THEN Append(Pushed[i - 1], Body(n)[i])
        ELSE Pushed[i - 1]
  IN  Pushed[Len(Body(n))]

(* Mutant: the head is left out.                                           *)
BelowHead == [i \in 1 .. head |-> head - i]

(* (0..=head_num).rev()                                                    *)
Numbers == [i \in 1 .. head + 1 |-> head + 1 - i]

AddressTransactions(a, limit) ==
  LET Got[k \in 0 .. Len(Numbers)] ==
        IF k = 0 THEN << >> ELSE Listed(Got[k - 1], Numbers[k], a, limit)
  IN  Got[Len(Numbers)]

(* quyn_getNetworkStats: the transactions of all blocks.                   *)
TotalTransactions ==
  LET size == [n \in Range(Numbers) |-> Len(Body(n))]
  IN  MapThenSumSet(LAMBDA n : size[n], DOMAIN size)

-----------------------------------------------------------------------------
(* History: a transaction is known while it is pooled or has its receipt.  *)

Known(t) == (t \in pool /\ t \in index) \/ t \in DOMAIN receipts

Finishes(c) == call[c] # NoCall /\ call'[c] = NoCall

Misses(c) == Finishes(c) /\ result'[c] = "null"

Observe ==
  /\ lost' = {c \in Clients : /\ call'[c] # NoCall
                             /\ \/ ~ Known(call[c].tx)'
                                \/ c \in lost /\ call[c] # NoCall}
  /\ missed' = [c \in Clients |->
                  IF Misses(c) /\ c \notin lost THEN {call[c].tx}
                  ELSE {t \in missed[c] : ~ Finishes(c) /\ Known(t)'}]

Next == (Produce \/ \E c \in Clients : Serve(c)) /\ Observe

Spec == Init /\ [][Next]_vars

-----------------------------------------------------------------------------
(* Properties.                                                             *)

(* A pooled transaction that costs anything was signed by the account that *)
(* will pay for it, and for this chain: what the node recomputes from the  *)
(* wire is either what was signed or belongs to nobody who has funds.      *)
AcceptedAsSigned ==
  \A t \in pool : Cost(t) > 0 => SenderOf[t] = SignerOf[t] /\ ChainOf[t] = ChainId

(* qyn_getFraudAnalysis reads two places while the producer moves what it  *)
(* looks for from one to the other: of a transaction that was in one of    *)
(* them all the time it may miss it once, never when asked again.          *)
OneMissAtMost ==
  [][\A c \in Clients : Misses(c) /\ c \notin lost => call[c].tx \notin missed[c]]_vars

(* The transactions that a sent among the first i of a list.               *)
SentIn(list, i, a) == {j \in 1 .. i : SenderOf[list[j]] = a}

(* Between two productions the reads agree: quyn_getAddressTransactions    *)
(* lists of every account the transactions it sent, one for each nonce that*)
(* eth_getTransactionCount counts, the last first, a limit cutting off the *)
(* first ones; quyn_getNetworkStats counts those with a receipt, and every *)
(* receipt leads to its transaction.                                       *)
ReadsAgree ==
  making = "asleep" =>
    /\ TotalTransactions = Cardinality(DOMAIN receipts)
    /\ \A t \in DOMAIN receipts : Located(t) = t
    /\ \A a \in Accounts, limit \in 0 .. Cardinality(DOMAIN receipts) + 1 :
         LET list == AddressTransactions(a, limit) IN
         /\ \A i \in DOMAIN list : SenderOf[list[i]] = a =>
              NonceOf[list[i]] = nonce[a] - Cardinality(SentIn(list, i, a))
         /\ limit >= Cardinality(DOMAIN receipts) =>
              Cardinality(SentIn(list, Len(list), a)) = nonce[a]
=============================================================================
