----------------------------- MODULE RpcProofs -----------------------------
(***************************************************************************)
(* For every set of transactions, whatever their encodings: whom the node  *)
(* takes for the sender of what it pools, and what a lookup may miss.  Of  *)
(* the blocks, that they hold an account's transactions by nonce and that  *)
(* the receipts name their places, and so that the walks over the blocks   *)
(* agree with both.  For every limit and however late handlers are: what   *)
(* passes in a second.                                                     *)
(***************************************************************************)
EXTENDS Rpc, RateLimiter, FoldLemmas, FiniteSetTheorems, SequenceTheorems, TLAPS

(* The transactions that validate_tx_basic and the balance let through.    *)
Good(t) ==
  /\ ~ Malformed(t) /\ RightChain(t)
  /\ Cost(t) > 0 => SenderOf[t] # Stranger

(* What a handler has checked before it comes to its next step.            *)
Checked(c) ==
  /\ At(c, "state") => ~ Malformed(call[c].tx) /\ RightChain(call[c].tx)
  /\ At(c, "insert") => Good(call[c].tx)

CallType == call \in [Clients -> Calls]

Funds == bal \in [Accounts -> Int] /\ bal[Stranger] = 0

Inv ==
  /\ CallType
  /\ Funds
  /\ pool \subseteq Txs
  /\ \A t \in pool : Good(t)
  /\ \A c \in Clients : Checked(c)

-----------------------------------------------------------------------------
(* Encodings.                                                              *)

(* Of a legacy transaction the node recomputes the chain, the recovery id  *)
(* and the sender that it was signed with.                                 *)
LEMMA LegacyUnderstood ==
  ASSUME NEW t \in Txs, FormOf[t] = "legacy"
  PROVE  ChainIn(t) = ChainOf[t] /\ Recovered(t) = SignerOf[t]
<1> USE RpcAssumption
<1>1. WireV(t) = 35 + 2 * ChainOf[t] + ParityOf[t]
  BY DEF WireV
<1>2. ChainOf[t] \in Nat /\ ParityOf[t] \in {0, 1}
  OBVIOUS
<1>3. /\ WireV(t) >= 35
      /\ (WireV(t) - 35) \div 2 = ChainOf[t]
      /\ (WireV(t) - 35) % 2 = ParityOf[t]
  BY <1>1, <1>2
<1>4. ChainIn(t) = ChainOf[t] /\ RecoveryId(t) = ParityOf[t]
  BY <1>3 DEF ChainIn, RecoveryId
<1>5. QED
  BY <1>4 DEF Recovered, Signed, Hashed

(* A sender that is not the stranger is the signer, and signed for the     *)
(* chain that the node reads off the wire.                                 *)
LEMMA SenderSigned ==
  ASSUME NEW t \in Txs, SenderOf[t] # Stranger
  PROVE  SenderOf[t] = SignerOf[t] /\ ChainOf[t] = ChainIn(t)
<1>1. SenderOf[t] = Recovered(t)
  BY DEF SenderOf
<1>2. Signed(t) = Hashed(t) /\ Recovered(t) = SignerOf[t]
  BY <1>1 DEF Recovered
<1>3. QED
  BY <1>1, <1>2 DEF Signed, Hashed

LEMMA CostNat ==
  ASSUME NEW t \in Txs
  PROVE  Cost(t) \in Nat
<1> USE RpcAssumption
<1>1. ValueOf[t] \in Nat /\ PriceOf[t] \in Nat /\ GasOf[t] \in Nat
  OBVIOUS
<1>2. QED
  BY <1>1 DEF Cost

-----------------------------------------------------------------------------
(* The mempool, as far as the invariant needs it.                          *)

(* An insert adds its transaction at most, and answers.                    *)
LEMMA InsertAdds ==
  ASSUME NEW t, M!Insert(t)
  PROVE  pool' \subseteq pool \cup {t} /\ reply'.kind \in {"ok", "gap"}
BY DEF M!Insert, M!InsertDuplicate, M!InsertGap, M!InsertWithin, M!InsertEvicting,
       M!Inserted, M!Answer

LEMMA RemoveTakes ==
  ASSUME NEW t, M!Remove(t)
  PROVE  pool' \subseteq pool
BY DEF M!Remove

-----------------------------------------------------------------------------
(* The handlers keep the invariant.                                        *)

(* A handler that reads only moves on to a step that it has checked for.   *)
LEMMA ReadKeeps ==
  ASSUME Inv, NEW c \in Clients, Read(c), UNCHANGED <<mempool, chain>>
  PROVE  Inv'
<1>1. pool' = pool /\ bal' = bal
  BY DEF mempool, chain
<1>2. CallType' /\ \A d \in Clients : Checked(d)'
  <2>1. ASSUME NEW t \in Txs, Refuse(c, t)
        PROVE  CallType' /\ \A d \in Clients : Checked(d)'
    BY <2>1 DEF Inv, CallType, Calls, Refuse, Returns, NoCall, Checked, At, Good
  <2>2. ASSUME NEW t \in Txs, Send(c, t)
        PROVE  CallType' /\ \A d \in Clients : Checked(d)'
    BY <2>2 DEF Inv, CallType, Calls, Send, Begins, Checked, At, Good
  <2>3. ASSUME NEW t \in Watched, Analyse(c, t)
        PROVE  CallType' /\ \A d \in Clients : Checked(d)'
    BY <2>3, RpcAssumption DEF Inv, CallType, Calls, Analyse, Begins, Checked, At, Good
  <2>4. CASE CheckState(c)
    <3>1. PICK t \in Txs : call[c] = [step |-> "state", tx |-> t]
      BY <2>4 DEF CheckState, At, Inv, CallType, Calls, NoCall
    <3>2. CASE Valid(t)
      <4>1. Good(t)
        <5>1. ~ Malformed(t) /\ RightChain(t)
          BY <3>1 DEF Inv, Checked, At
        <5>2. ASSUME SenderOf[t] = Stranger
              PROVE  ~ (Cost(t) > 0)
          BY <3>2, <5>2, CostNat DEF Valid, Inv, Funds
        <5>3. QED
          BY <5>1, <5>2 DEF Good
      <4>2. call' = [call EXCEPT ![c] = [step |-> "insert", tx |-> t]]
        BY <2>4, <3>1, <3>2 DEF CheckState, Goes, Inv, CallType, Calls
      <4>3. QED
        BY <4>1, <4>2 DEF Inv, CallType, Calls, Checked, At, Good
    <3>3. CASE ~ Valid(t)
      BY <2>4, <3>1, <3>3
      DEF CheckState, Inv, CallType, Calls, Returns, NoCall, Checked, At, Good
    <3>4. QED
      BY <3>2, <3>3
  <2>5. CASE ReadReceipt(c)
    <3>1. PICK t \in Txs : call[c] = [step |-> "receipt", tx |-> t]
      BY <2>5 DEF ReadReceipt, At, Inv, CallType, Calls, NoCall
    <3>2. \/ call' = [call EXCEPT ![c] = [step |-> "pool", tx |-> t]]
          \/ call' = [call EXCEPT ![c] = NoCall]
      BY <2>5, <3>1 DEF ReadReceipt, Goes, Returns, Inv, CallType, Calls
    <3>3. QED
      BY <3>2 DEF Inv, CallType, Calls, NoCall, Checked, At, Good
  <2>6. CASE ReadPool(c)
    BY <2>6 DEF ReadPool, Inv, CallType, Calls, Returns, NoCall, Checked, At, Good
  <2>7. QED
    BY <2>1, <2>2, <2>3, <2>4, <2>5, <2>6 DEF Read
<1>3. QED
  BY <1>1, <1>2 DEF Inv, Funds

(* What a handler inserts it has found good.                               *)
LEMMA InsertKeeps ==
  ASSUME Inv, NEW c \in Clients, Insert(c), UNCHANGED chain
  PROVE  Inv'
<1>1. PICK t \in Txs : call[c] = [step |-> "insert", tx |-> t]
  BY DEF Insert, At, Inv, CallType, Calls, NoCall
<1>2. Good(t)
  BY <1>1 DEF Inv, Checked, At
<1>3. pool' \subseteq pool \cup {t}
  BY <1>1, InsertAdds DEF Insert
<1>4. bal' = bal /\ call' = [call EXCEPT ![c] = NoCall]
  BY DEF Insert, Returns, chain
<1>5. CallType' /\ \A d \in Clients : Checked(d)'
  BY <1>4 DEF Inv, CallType, Calls, NoCall, Checked, At, Good
<1>6. QED
  BY <1>2, <1>3, <1>4, <1>5 DEF Inv, Funds, Good

(* The producer pays nobody that the stranger could be, and takes nothing  *)
(* from whoever has nothing.                                               *)
LEMMA ExecuteKeepsFunds ==
  ASSUME Funds, NEW t \in Txs, Execute(t)
  PROVE  Funds'
<1> USE RpcAssumption
<1>1. Cost(t) \in Nat /\ ValueOf[t] \in Nat /\ ToOf[t] # Stranger
  BY CostNat
<1>2. bal' = Moved(t)
  BY DEF Execute
<1>3. bal' \in [Accounts -> Int]
  BY <1>1, <1>2 DEF Moved, Funds
<1>4. bal'[Stranger] = bal[Stranger] - (IF Stranger = SenderOf[t] THEN Cost(t) ELSE 0)
  BY <1>1, <1>2 DEF Moved, Funds
<1>5. Stranger = SenderOf[t] => Cost(t) = 0
  BY <1>1 DEF Execute, Valid, Funds
<1>6. QED
  BY <1>1, <1>3, <1>4, <1>5 DEF Funds

LEMMA ProduceKeeps ==
  ASSUME Inv, Produce
  PROVE  Inv'
<1>1. call' = call
  BY DEF Produce, Wake, PutBlock, SetHead, PutReceipt, RemoveMined, Sleep, Execute
<1>2. pool' \subseteq pool
  BY RemoveTakes DEF Produce, Wake, PutBlock, SetHead, PutReceipt, RemoveMined,
                     Sleep, Execute, mempool
<1>3. Funds'
  <2>1. ASSUME NEW t \in Txs, Execute(t)
        PROVE  Funds'
    BY <2>1, ExecuteKeepsFunds DEF Inv
  <2>2. CASE Wake \/ PutBlock \/ SetHead \/ PutReceipt \/ RemoveMined \/ Sleep
    BY <2>2 DEF Inv, Funds, Wake, PutBlock, SetHead, PutReceipt, RemoveMined, Sleep
  <2>3. QED
    BY <2>1, <2>2 DEF Produce
<1>4. QED
  BY <1>1, <1>2, <1>3 DEF Inv, CallType, Checked, At, Good

THEOREM RpcInvariant == Spec => []Inv
<1>1. Init => Inv
  BY RpcAssumption DEF Init, Inv, CallType, Calls, Funds, Checked, At, NoCall, M!Init
<1>2. Inv /\ [Next]_vars => Inv'
  <2>1. ASSUME Inv, NEW c \in Clients, Serve(c)
        PROVE  Inv'
    BY <2>1, ReadKeeps, InsertKeeps DEF Serve
  <2>2. ASSUME Inv, UNCHANGED vars
        PROVE  Inv'
    BY <2>2 DEF Inv, CallType, Funds, Checked, At, Good, vars, mempool, chain
  <2>3. QED
    BY <2>1, <2>2, ProduceKeeps DEF Next
<1>3. QED
  BY <1>1, <1>2, PTL DEF Spec

(* Whatever a client encodes and however the requests race: a pooled       *)
(* transaction that costs anything was signed by the account that pays for *)
(* it, for this chain.                                                     *)
THEOREM SignedAsAccepted == Spec => []AcceptedAsSigned
<1>1. Inv => AcceptedAsSigned
  BY SenderSigned DEF Inv, Good, AcceptedAsSigned, RightChain
<1>2. QED
  BY <1>1, RpcInvariant, PTL

-----------------------------------------------------------------------------
(* What a lookup misses.                                                   *)

ResultType == result \in [Clients -> Results]

(* While a handler looks for what was known all along, it is still known;  *)
(* what was missed has a receipt, and is not looked for in the pool.       *)
MissInv ==
  /\ CallType /\ ResultType
  /\ missed \in [Clients -> SUBSET Txs]
  /\ \A c \in Clients : call[c] # NoCall /\ c \notin lost => Known(call[c].tx)
  /\ \A c \in Clients : missed[c] \subseteq DOMAIN receipts
  /\ \A c \in Clients : At(c, "pool") => call[c].tx \notin missed[c]

(* One step of a handler, as far as the lookups go: only one that finds    *)
(* nothing in the pool answers null, and only one that found no receipt    *)
(* goes on to the pool.                                                    *)
Looks(c) ==
  /\ Misses(c) => At(c, "pool") /\ ~ Findable(call[c].tx)
  /\ At(c, "pool")' =>
       \/ call'[c] = call[c]
       \/ call'[c].tx = call[c].tx /\ call[c].tx \notin DOMAIN receipts

LEMMA ReadLooks ==
  ASSUME CallType, ResultType, NEW c \in Clients, Read(c)
  PROVE  /\ CallType' /\ ResultType'
         /\ \A d \in Clients : Looks(d)
<1> DEFINE Goal == CallType' /\ ResultType' /\ \A d \in Clients : Looks(d)
<1>1. ASSUME NEW r \in Results, Returns(c, r),
             r = "null" => At(c, "pool") /\ ~ Findable(call[c].tx)
      PROVE  Goal
  BY <1>1 DEF CallType, ResultType, Calls, Results, NoCall, Looks, Misses, Finishes,
              At, Returns
<1>2. ASSUME NEW n \in Calls, n # NoCall, call' = [call EXCEPT ![c] = n], result' = result,
             n.step = "pool" => /\ n.tx = call[c].tx
                                /\ call[c].tx \notin DOMAIN receipts
      PROVE  Goal
  BY <1>2 DEF CallType, ResultType, Calls, NoCall, Looks, Misses, Finishes, At
<1>3. ASSUME NEW t \in Txs, Refuse(c, t)
      PROVE  Goal
  BY <1>1, <1>3 DEF Refuse, Results
<1>4. ASSUME NEW t \in Txs, Send(c, t) \/ Analyse(c, t)
      PROVE  Goal
  <2>1. PICK step \in {"state", "receipt"} : Begins(c, step, t)
    BY <1>4 DEF Send, Analyse
  <2> DEFINE n == [step |-> step, tx |-> t]
  <2>2. n \in Calls /\ n # NoCall /\ n.step # "pool"
    BY DEF Calls, NoCall
  <2>3. call' = [call EXCEPT ![c] = n] /\ result' = result
    BY <2>1 DEF Begins
  <2> HIDE DEF n, Goal
  <2>4. QED
    BY <1>2, <2>2, <2>3
<1>5. ASSUME CheckState(c) \/ ReadReceipt(c)
      PROVE  Goal
  <2>1. PICK t \in Txs, s \in {"state", "receipt"} : call[c] = [step |-> s, tx |-> t]
    BY <1>5 DEF CheckState, ReadReceipt, At, CallType, Calls, NoCall
  <2>2. CASE Goes(c, "insert")
    <3> DEFINE n == [step |-> "insert", tx |-> t]
    <3>1. n \in Calls /\ n # NoCall /\ n.step # "pool"
      BY DEF Calls, NoCall
    <3>2. [call[c] EXCEPT !.step = "insert"] = n
      BY <2>1
    <3>3. call' = [call EXCEPT ![c] = n] /\ result' = result
      BY <2>2, <3>2 DEF Goes
    <3>4. call[c].tx = t
      BY <2>1
    <3> HIDE DEF n, Goal
    <3>5. QED
      BY <1>2, <3>1, <3>3, <3>4
  <2>3. CASE Goes(c, "pool") /\ t \notin DOMAIN receipts
    <3> DEFINE n == [step |-> "pool", tx |-> t]
    <3>1. n \in Calls /\ n # NoCall /\ n.tx = t
      BY DEF Calls, NoCall
    <3>2. [call[c] EXCEPT !.step = "pool"] = n
      BY <2>1
    <3>3. call' = [call EXCEPT ![c] = n] /\ result' = result
      BY <2>3, <3>2 DEF Goes
    <3>4. call[c].tx = t
      BY <2>1
    <3> HIDE DEF n, Goal
    <3>5. QED
      BY <1>2, <2>1, <2>3, <3>1, <3>3, <3>4
  <2>4. CASE Returns(c, "invalid") \/ Returns(c, "mined")
    BY <1>1, <2>4 DEF Results
  <2>5. QED
    BY <1>5, <2>1, <2>2, <2>3, <2>4 DEF CheckState, ReadReceipt
<1>6. ASSUME ReadPool(c)
      PROVE  Goal
  BY <1>1, <1>6 DEF ReadPool, Results
<1>7. QED
  BY <1>3, <1>4, <1>5, <1>6, RpcAssumption DEF Read

(* An insert answers ok or gap, never null.                                *)
LEMMA InsertLooks ==
  ASSUME CallType, ResultType, NEW c \in Clients, Insert(c)
  PROVE  /\ CallType' /\ ResultType'
         /\ \A d \in Clients : Looks(d)
<1>1. PICK r \in {"ok", "gap"} :
        call' = [call EXCEPT ![c] = NoCall] /\ result' = [result EXCEPT ![c] = r]
  BY InsertAdds DEF Insert, Returns
<1>2. QED
  BY <1>1
  DEF CallType, ResultType, Calls, Results, NoCall, Looks, Misses, Finishes, At

(* The producer answers nobody.                                            *)
LEMMA ProduceLooks ==
  ASSUME CallType, ResultType, Produce
  PROVE  /\ CallType' /\ ResultType'
         /\ \A d \in Clients : Looks(d)
         /\ DOMAIN receipts \subseteq DOMAIN receipts'
<1>1. call' = call /\ result' = result
  BY DEF Produce, Wake, PutBlock, SetHead, PutReceipt, RemoveMined, Sleep, Execute
<1>2. DOMAIN receipts \subseteq DOMAIN receipts'
  BY DEF Produce, Wake, PutBlock, SetHead, PutReceipt, RemoveMined, Sleep, Execute
<1>3. QED
  BY <1>1, <1>2 DEF CallType, ResultType, Looks, Misses, Finishes, At

LEMMA NextLooks ==
  ASSUME CallType, ResultType, Next
  PROVE  /\ CallType' /\ ResultType'
         /\ \A d \in Clients : Looks(d)
         /\ DOMAIN receipts \subseteq DOMAIN receipts'
<1>1. CASE Produce
  BY <1>1, ProduceLooks
<1>2. ASSUME NEW c \in Clients, Serve(c)
      PROVE  /\ CallType' /\ ResultType'
             /\ \A d \in Clients : Looks(d)
             /\ receipts' = receipts
  BY <1>2, ReadLooks, InsertLooks DEF Serve, chain
<1>3. QED
  BY <1>1, <1>2 DEF Next

(* What is missed although it was known is missed for its receipt, which   *)
(* the handler looked for too early.                                       *)
LEMMA MissedHasReceipt ==
  ASSUME MissInv, NEW c \in Clients, Looks(c), Misses(c), c \notin lost
  PROVE  /\ call[c].tx \in Txs \cap DOMAIN receipts
         /\ call[c].tx \notin missed[c]
<1>1. At(c, "pool") /\ ~ Findable(call[c].tx)
  BY DEF Looks
<1>2. call[c].tx \in Txs /\ Known(call[c].tx)
  BY <1>1 DEF MissInv, CallType, Calls, NoCall, At
<1>3. call[c].tx \in pool /\ call[c].tx \in index => Findable(call[c].tx)
  BY DEF Findable, M!Slot, M!SameSlot
<1>4. QED
  BY <1>1, <1>2, <1>3 DEF Known, MissInv

LEMMA MissKeeps ==
  ASSUME MissInv, Next
  PROVE  MissInv'
<1>1. /\ CallType' /\ ResultType'
      /\ \A d \in Clients : Looks(d)
      /\ DOMAIN receipts \subseteq DOMAIN receipts'
  BY NextLooks DEF MissInv
<1>2. /\ lost' = {c \in Clients : /\ call'[c] # NoCall
                                 /\ \/ ~ Known(call[c].tx)'
                                    \/ c \in lost /\ call[c] # NoCall}
      /\ missed' = [c \in Clients |->
                      IF Misses(c) /\ c \notin lost THEN {call[c].tx}
                      ELSE {t \in missed[c] : ~ Finishes(c) /\ Known(t)'}]
  BY DEF Next, Observe
<1>3. ASSUME NEW c \in Clients
      PROVE  /\ missed'[c] \subseteq Txs \cap DOMAIN receipts'
             /\ At(c, "pool")' => missed'[c] \subseteq missed[c]
  <2>1. CASE Misses(c) /\ c \notin lost
    <3>1. missed'[c] = {call[c].tx} /\ call[c].tx \in Txs \cap DOMAIN receipts
      BY <1>1, <1>2, <2>1, MissedHasReceipt
    <3>2. ~ At(c, "pool")'
      BY <2>1 DEF Misses, Finishes, At, NoCall
    <3>3. QED
      BY <1>1, <3>1, <3>2
  <2>2. CASE ~ (Misses(c) /\ c \notin lost)
    BY <1>1, <1>2, <2>2 DEF MissInv
  <2>3. QED
    BY <2>1, <2>2
<1>4. ASSUME NEW c \in Clients, At(c, "pool")'
      PROVE  call'[c].tx \notin missed'[c]
  <2>1. CASE call'[c] = call[c]
    BY <1>3, <1>4, <2>1 DEF MissInv, At
  <2>2. CASE call'[c].tx = call[c].tx /\ call[c].tx \notin DOMAIN receipts
    BY <1>3, <1>4, <2>2 DEF MissInv
  <2>3. QED
    BY <1>1, <1>4, <2>1, <2>2 DEF Looks
<1>5. ASSUME NEW c \in Clients, call'[c] # NoCall, c \notin lost'
      PROVE  Known(call[c].tx)'
  BY <1>2, <1>5
<1>6. missed' \in [Clients -> SUBSET Txs]
  BY <1>2, <1>3
<1>7. QED
  BY <1>1, <1>3, <1>4, <1>5, <1>6 DEF MissInv

THEOREM MissInvariant == Spec => []MissInv
<1>1. Init => MissInv
  BY DEF Init, MissInv, CallType, ResultType, Calls, Results, NoCall, At
<1>2. MissInv /\ [Next]_vars => MissInv'
  <2>1. ASSUME MissInv, UNCHANGED vars
        PROVE  MissInv'
    BY <2>1 DEF MissInv, CallType, ResultType, Known, At, vars, mempool, chain
  <2>2. QED
    BY <2>1, MissKeeps
<1>3. QED
  BY <1>1, <1>2, PTL DEF Spec

(* A lookup of a transaction that is pooled or has its receipt all the time*)
(* misses it at most once, for any number of clients and transactions.     *)
THEOREM MissedOnce == Spec => OneMissAtMost
<1>1. MissInv /\ [Next]_vars =>
        [\A c \in Clients :
           Misses(c) /\ c \notin lost => call[c].tx \notin missed[c]]_vars
  BY NextLooks, MissedHasReceipt DEF MissInv
<1>2. QED
  BY <1>1, MissInvariant, PTL DEF Spec, OneMissAtMost
-----------------------------------------------------------------------------
(* The type of every variable.                                             *)

LEMMA SenderKnown ==
  ASSUME NEW t \in Txs
  PROVE  SenderOf[t] \in Accounts
BY RpcAssumption DEF SenderOf, Recovered

LEMMA PoolTyped ==
  ASSUME M!TypeOK, NEW t \in Txs, M!Insert(t) \/ M!Remove(t)
  PROVE  M!TypeOK'
<1>1. /\ pool \subseteq Txs /\ IsFiniteSet(pool) /\ index \subseteq Txs
  BY DEF M!TypeOK, M!IsFiniteSet, IsFiniteSet
<1>2. pool' \subseteq pool \cup {t} /\ index' \subseteq index \cup {t}
  BY InsertAdds, RemoveTakes DEF M!Insert, M!InsertDuplicate, M!InsertGap, M!InsertWithin,
     M!InsertEvicting, M!IndexWith, M!Remove
<1>3. IsFiniteSet(pool')
  BY <1>1, <1>2, FS_AddElement, FS_Subset
<1>4. reply' \in M!Reply
  <2>1. CASE M!InsertEvicting(t)
    <3> DEFINE p == M!Inserted(t, pool)
    <3>1. p \subseteq pool \cup {t}
      BY DEF M!Inserted
    <3>2. IsFiniteSet(p)
      BY <1>1, <3>1, FS_AddElement, FS_Subset
    <3>3. Cardinality(p) \in Nat /\ M!Cardinality(p) = Cardinality(p)
      BY <3>2, FS_CardinalityType DEF M!Cardinality, Cardinality
    <3>4. M!Overflow(p) > 0 /\ reply' = [kind |-> "ok", evicted |-> M!Overflow(p)]
      BY <2>1 DEF M!InsertEvicting, M!Answer
    <3>5. M!Overflow(p) \in Nat
      BY <3>3, <3>4, RpcAssumption DEF M!Overflow
    <3>6. QED
      BY <3>4, <3>5 DEF M!Reply
  <2>2. CASE \/ M!InsertDuplicate(t) \/ M!InsertGap(t) \/ M!InsertWithin(t) \/ M!Remove(t)
    BY <2>2 DEF M!InsertDuplicate, M!InsertGap, M!InsertWithin, M!Remove, M!Answer, M!Reply
  <2>3. QED
    BY <2>1, <2>2 DEF M!Insert
<1>5. QED
  BY <1>1, <1>2, <1>3, <1>4 DEF M!TypeOK, M!IsFiniteSet, IsFiniteSet

(* The state database, the blocks and the producer.                        *)
ChainTyped ==
  /\ bal \in [Accounts -> Nat] /\ nonce \in [Accounts -> Nat]
  /\ making \in {"asleep", "body", "head", "receipts"}
  /\ cand \subseteq Txs /\ body \in Seq(Txs)
  /\ blocks \in Seq(Seq(Txs))
  /\ head \in Nat
  /\ DOMAIN receipts \subseteq Txs

(* A transaction that is executed can be paid for.                         *)
LEMMA ExecuteTyped ==
  ASSUME ChainTyped, NEW t \in Txs, Execute(t)
  PROVE  ChainTyped'
<1>1. Cost(t) \in Nat /\ ValueOf[t] \in Nat /\ SenderOf[t] \in Accounts
  BY CostNat, SenderKnown, RpcAssumption
<1>2. bal[SenderOf[t]] >= Cost(t) /\ bal' = Moved(t)
  BY DEF Execute, Valid
<1>3. ASSUME NEW a \in Accounts PROVE Moved(t)[a] \in Nat
  <2>1. bal[a] \in Nat /\ (a = SenderOf[t] => bal[a] >= Cost(t))
    BY <1>2 DEF ChainTyped
  <2>2. Moved(t)[a] = bal[a] + (IF a = ToOf[t] THEN ValueOf[t] ELSE 0)
                             - (IF a = SenderOf[t] THEN Cost(t) ELSE 0)
    BY DEF Moved
  <2>3. QED
    BY <1>1, <2>1, <2>2
<1>4. bal' \in [Accounts -> Nat]
  BY <1>2, <1>3 DEF Moved
<1>5. nonce' \in [Accounts -> Nat]
  BY <1>1 DEF Execute, ChainTyped
<1>6. QED
  BY <1>4, <1>5 DEF Execute, ChainTyped

LEMMA ProduceTyped ==
  ASSUME ChainTyped, M!TypeOK, Produce
  PROVE  ChainTyped'
<1>1. ASSUME NEW t \in Txs, Execute(t)
      PROVE  ChainTyped'
  BY <1>1, ExecuteTyped
<1>2. CASE Wake
  BY <1>2 DEF Wake, ChainTyped, M!TypeOK
<1>3. CASE PutBlock
  BY <1>3 DEF PutBlock, ChainTyped
<1>4. CASE SetHead
  BY <1>4 DEF SetHead, ChainTyped
<1>5. CASE PutReceipt
  <2>1. Head(body) \in Txs
    BY <1>5, HeadTailProperties DEF PutReceipt, ChainTyped
  <2>2. QED
    BY <1>5, <2>1 DEF PutReceipt, ChainTyped
<1>6. CASE RemoveMined
  <2>1. Tail(body) \in Seq(Txs)
    BY <1>6, HeadTailProperties DEF RemoveMined, ChainTyped
  <2>2. QED
    BY <1>6, <2>1 DEF RemoveMined, ChainTyped
<1>7. CASE Sleep
  BY <1>7 DEF Sleep, ChainTyped
<1>8. QED
  BY <1>1, <1>2, <1>3, <1>4, <1>5, <1>6, <1>7 DEF Produce

(* The mempool is inserted into by a handler, for a transaction that it    *)
(* was called with, and removed from by the producer.                      *)
LEMMA MempoolTyped ==
  ASSUME M!TypeOK, ChainTyped, CallType, Next
  PROVE  M!TypeOK'
<1>1. CASE mempool' = mempool
  BY <1>1 DEF mempool, M!TypeOK, M!Reply
<1>2. CASE \E t \in Txs : M!Insert(t) \/ M!Remove(t)
  BY <1>2, PoolTyped
<1>3. ASSUME NEW c \in Clients, Insert(c)
      PROVE  \E t \in Txs : M!Insert(t)
  BY <1>3 DEF Insert, At, CallType, Calls, NoCall
<1>4. CASE RemoveMined
  BY <1>2, <1>4, HeadTailProperties DEF RemoveMined, ChainTyped
<1>5. QED
  BY <1>1, <1>2, <1>3, <1>4 DEF Next, Serve, Produce, Wake, Execute, PutBlock, SetHead,
                                PutReceipt, Sleep

LEMMA HistoryTyped ==
  ASSUME TypeOK, Observe
  PROVE  lost' \subseteq Clients /\ missed' \in [Clients -> SUBSET Txs]
<1>1. ASSUME NEW c \in Clients, Misses(c)
      PROVE  call[c].tx \in Txs
  BY <1>1 DEF Misses, Finishes, TypeOK, Calls
<1>2. QED
  BY <1>1 DEF Observe, TypeOK

(* Every variable keeps its type; no balance is overdrawn, no block is     *)
(* taken apart further than it goes.                                       *)
THEOREM RpcTypeCorrect == Spec => []TypeOK
<1>1. Init => TypeOK
  <2> SUFFICES ASSUME Init PROVE TypeOK
    OBVIOUS
  <2>1. M!TypeOK
    BY FS_EmptySet DEF Init, M!Init, M!TypeOK, M!Reply, M!IsFiniteSet, IsFiniteSet
  <2>2. blocks \in Seq(Seq(Txs)) /\ body \in Seq(Txs)
    BY DEF Init
  <2>3. bal \in [Accounts -> Nat] /\ nonce \in [Accounts -> Nat] /\ head \in Nat
    BY RpcAssumption DEF Init
  <2>4. CallType /\ ResultType
    BY DEF Init, CallType, ResultType, Calls, Results
  <2>5. QED
    BY <2>1, <2>2, <2>3, <2>4 DEF Init, TypeOK, CallType, ResultType
<1>2. TypeOK /\ [Next]_vars => TypeOK'
  <2>1. ASSUME TypeOK, Next
        PROVE  TypeOK'
    <3>1. ChainTyped'
      BY <2>1, ProduceTyped DEF Next, Serve, TypeOK, ChainTyped, chain
    <3>2. M!TypeOK'
      BY <2>1, MempoolTyped DEF TypeOK, ChainTyped, CallType
    <3>3. CallType' /\ ResultType'
      BY <2>1, NextLooks DEF TypeOK, CallType, ResultType
    <3>4. lost' \subseteq Clients /\ missed' \in [Clients -> SUBSET Txs]
      BY <2>1, HistoryTyped DEF Next
    <3>5. QED
      BY <3>1, <3>2, <3>3, <3>4 DEF TypeOK, ChainTyped, CallType, ResultType
  <2>2. ASSUME TypeOK, UNCHANGED vars
        PROVE  TypeOK'
    BY <2>2 DEF TypeOK, vars, mempool, chain, M!TypeOK, M!Reply
  <2>3. QED
    BY <2>1, <2>2
<1>3. QED
  BY <1>1, <1>2, PTL DEF Spec

-----------------------------------------------------------------------------
(* What the blocks hold.                                                   *)

(* The blocks, and the one in the making where the state already has it.   *)
Stacked == IF making = "body" THEN Append(blocks, body) ELSE blocks

(* How far the producer is, and what it still holds of the head.           *)
Phases ==
  /\ making \in {"asleep", "body"} => Len(blocks) = head + 1
  /\ making = "head" => Len(blocks) = head + 2 /\ blocks[head + 2] = body
  /\ making = "receipts" =>
       /\ Len(blocks) = head + 1
       /\ Len(body) <= Len(blocks[head + 1])
       /\ \A j \in 1 .. Len(body) :
            body[j] = blocks[head + 1][Len(blocks[head + 1]) - Len(body) + j]
  /\ making = "asleep" => body = << >>

(* Nothing is pooled, or about to be, before its turn; and of a candidate  *)
(* whose sender has one in the body the turn has passed.                   *)
InTurn(t, used) == NonceOf[t] <= used[SenderOf[t]]

Turns ==
  /\ \A t \in pool \cup cand : InTurn(t, nonce)
  /\ \A c \in Clients : At(c, "insert") => InTurn(call[c].tx, nonce)
  /\ making = "body" =>
       \A t \in cand : \A i \in DOMAIN body :
         SenderOf[t] = SenderOf[body[i]] => NonceOf[t] < nonce[SenderOf[t]]

(* The transactions of an account lie in the blocks one above the other,   *)
(* one for each nonce it has used.                                         *)
Ordered(q) ==
  \A m, n \in DOMAIN q : \A i \in DOMAIN q[m], j \in DOMAIN q[n] :
    SenderOf[q[m][i]] = SenderOf[q[n][j]] =>
      /\ m < n => NonceOf[q[m][i]] < NonceOf[q[n][j]]
      /\ m = n => i = j

Used(q, used) ==
  /\ \A m \in DOMAIN q : \A i \in DOMAIN q[m] :
       NonceOf[q[m][i]] < used[SenderOf[q[m][i]]]
  /\ \A a \in Accounts : \A k \in 0 .. used[a] - 1 :
       \E m \in DOMAIN q : \E i \in DOMAIN q[m] :
         SenderOf[q[m][i]] = a /\ NonceOf[q[m][i]] = k

(* The places that have their receipt, and the one that may have it.       *)
Recorded(m, i) ==
  \/ m <= head
  \/ m = head + 1 /\ (making = "receipts" => i <= Len(blocks[m]) - Len(body))

Midway(m, i) ==
  making = "receipts" /\ m = head + 1 /\ i = Len(blocks[m]) - Len(body) + 1

ReceiptsRight ==
  /\ \A t \in DOMAIN receipts : \E m \in DOMAIN blocks : \E i \in DOMAIN blocks[m] :
       /\ blocks[m][i] = t /\ receipts[t] = <<m - 1, i - 1>>
       /\ Recorded(m, i) \/ Midway(m, i)
  /\ \A m \in DOMAIN blocks : \A i \in DOMAIN blocks[m] :
       Recorded(m, i) => blocks[m][i] \in DOMAIN receipts

HistoryInv == Phases /\ Turns /\ Ordered(Stacked) /\ Used(Stacked, nonce) /\ ReceiptsRight

LEMMA HistoryInit == Init => HistoryInv
<1> SUFFICES ASSUME Init PROVE HistoryInv
  OBVIOUS
<1>1. /\ blocks = << << >> >> /\ body = << >> /\ head = 0 /\ making = "asleep"
      /\ pool = {} /\ cand = {} /\ DOMAIN receipts = {}
      /\ nonce = [a \in Accounts |-> 0]
      /\ \A c \in Clients : call[c].step = "none"
  BY DEF Init, M!Init, NoCall
<1>2. Stacked = blocks
  BY <1>1 DEF Stacked
<1>3. DOMAIN blocks = {1} /\ Len(blocks) = 1 /\ blocks[1] = << >> /\ DOMAIN blocks[1] = {}
  BY <1>1
<1>4. Phases
  BY <1>1, <1>3 DEF Phases
<1>5. Turns
  BY <1>1 DEF Turns, At
<1>6. Ordered(Stacked) /\ Used(Stacked, nonce)
  BY <1>1, <1>2, <1>3 DEF Ordered, Used
<1>7. ReceiptsRight
  BY <1>1, <1>3 DEF ReceiptsRight
<1>8. QED
  BY <1>4, <1>5, <1>6, <1>7 DEF HistoryInv

(* What a handler inserts is in turn still.                                *)
LEMMA ServeKeepsHistory ==
  ASSUME TypeOK, HistoryInv, NEW c \in Clients, Serve(c)
  PROVE  HistoryInv'
<1>1. UNCHANGED <<bal, nonce, making, cand, body, blocks, head, receipts>>
  BY DEF Serve, chain
<1>2. Phases' /\ Ordered(Stacked)' /\ Used(Stacked, nonce)' /\ ReceiptsRight'
  BY <1>1 DEF HistoryInv, Phases, Ordered, Used, Stacked, ReceiptsRight, Recorded, Midway
<1>3. \A t : InTurn(t, nonce') <=> InTurn(t, nonce)
  BY <1>1 DEF InTurn
<1>4. CallType /\ \A d \in Clients : call[d].step = "insert" => InTurn(call[d].tx, nonce)
  BY DEF TypeOK, CallType, HistoryInv, Turns, At
<1>5. \A t \in pool' : InTurn(t, nonce)
  <2>1. pool' \subseteq pool \cup {x \in {call[c].tx} : At(c, "insert")}
    BY InsertAdds DEF Serve, Insert, mempool
  <2>2. QED
    BY <1>4, <2>1 DEF HistoryInv, Turns, At
<1>6. ASSUME NEW d \in Clients, call'[d].step = "insert"
      PROVE  InTurn(call'[d].tx, nonce)
  <2>1. CASE call'[d] = call[d]
    BY <1>4, <1>6, <2>1
  <2>2. ASSUME NEW x, call' = [call EXCEPT ![c] = x], x.step # "insert"
        PROVE  call'[d] = call[d]
    BY <1>4, <1>6, <2>2 DEF CallType
  <2>3. CASE call' = [call EXCEPT ![c] = NoCall]
    <3>1. NoCall.step # "insert"
      BY DEF NoCall
    <3>2. QED
      BY <2>2, <2>1, <2>3, <3>1
  <2>4. CASE \E t \in Txs : Refuse(c, t) \/ Send(c, t)
    <3>1. PICK t \in Txs : Refuse(c, t) \/ Send(c, t)
      BY <2>4
    <3> DEFINE sent == [step |-> "state", tx |-> t]
    <3>2. call' = [call EXCEPT ![c] = NoCall] \/ call' = [call EXCEPT ![c] = sent]
      BY <3>1 DEF Refuse, Returns, Send, Begins
    <3>3. sent.step # "insert"
      OBVIOUS
    <3> HIDE DEF sent
    <3>4. QED
      BY <2>2, <2>1, <2>3, <3>2, <3>3
  <2>5. CASE \E t \in Watched : Analyse(c, t)
    BY <1>4, <1>6, <2>5 DEF Analyse, Begins, CallType
  <2>6. CASE CheckState(c)
    <3>1. PICK t \in Txs : call[c] = [step |-> "state", tx |-> t]
      BY <1>4, <2>6 DEF CheckState, At, CallType, Calls, NoCall
    <3>2. CASE ~ Valid(t)
      BY <1>4, <1>6, <2>6, <3>1, <3>2 DEF CheckState, Returns, NoCall, CallType
    <3>3. CASE Valid(t)
      <4>1. call' = [call EXCEPT ![c] = [step |-> "insert", tx |-> t]]
        BY <1>4, <2>6, <3>1, <3>3 DEF CheckState, Goes, CallType
      <4>2. InTurn(t, nonce)
        <5>1. nonce[SenderOf[t]] \in Nat
          BY SenderKnown DEF TypeOK
        <5>2. QED
          BY <3>3, <5>1 DEF Valid, InTurn
      <4>3. QED
        BY <1>4, <1>6, <4>1, <4>2 DEF CallType
    <3>4. QED
      BY <3>2, <3>3
  <2>7. CASE ReadReceipt(c) \/ ReadPool(c) \/ Insert(c)
    <3>1. CASE At(c, "receipt") /\ Goes(c, "pool")
      <4> DEFINE gone == [call[c] EXCEPT !.step = "pool"]
      <4>1. gone.step # "insert"
        BY <1>4, <3>1 DEF At, CallType, Calls, NoCall
      <4>2. call' = [call EXCEPT ![c] = gone]
        BY <3>1 DEF Goes
      <4> HIDE DEF gone
      <4>3. QED
        BY <2>2, <2>1, <4>1, <4>2
    <3>2. QED
      BY <2>7, <2>3, <3>1 DEF ReadReceipt, ReadPool, Insert, Returns
  <2>8. QED
    BY <2>4, <2>5, <2>6, <2>7 DEF Serve, Read
<1>7. Turns'
  BY <1>1, <1>3, <1>5, <1>6 DEF HistoryInv, Turns, At
<1>8. QED
  BY <1>2, <1>7 DEF HistoryInv

(* A block that holds nothing, put on top, orders and uses nothing.        *)
LEMMA EmptyOnTop ==
  ASSUME ChainTyped, Ordered(blocks), Used(blocks, nonce)
  PROVE  Ordered(Append(blocks, << >>)) /\ Used(Append(blocks, << >>), nonce)
<1> DEFINE q == Append(blocks, << >>)
<1>1. \A m \in DOMAIN q : IF m \in DOMAIN blocks THEN q[m] = blocks[m] ELSE q[m] = << >>
  BY DEF ChainTyped
<1>2. \A m \in DOMAIN blocks : m \in DOMAIN q
  BY DEF ChainTyped
<1>3. \A m \in DOMAIN q : \A i \in DOMAIN q[m] : m \in DOMAIN blocks /\ q[m] = blocks[m]
  BY <1>1
<1> HIDE DEF q
<1>4. Ordered(q)
  BY <1>3 DEF Ordered
<1>5. Used(q, nonce)
  BY <1>1, <1>2, <1>3 DEF Used
<1>6. QED
  BY <1>4, <1>5 DEF q

LEMMA ExecuteStacks ==
  ASSUME ChainTyped, HistoryInv, NEW t \in Txs, Execute(t)
  PROVE  Ordered(Stacked') /\ Used(Stacked, nonce)'
<1> DEFINE q == Append(blocks, body)
           r == Append(blocks, Append(body, t))
           s == SenderOf[t]
           top == Len(blocks) + 1
           new == Len(body) + 1
<1>1. Stacked = q /\ Stacked' = r /\ making = "body"
  BY DEF Stacked, Execute
<1>2. /\ s \in Accounts /\ NonceOf[t] = nonce[s] /\ nonce \in [Accounts -> Nat]
      /\ nonce' = [nonce EXCEPT ![s] = @ + 1]
      /\ \A b \in Txs : SenderOf[b] \in Accounts /\ NonceOf[b] \in Nat
  BY SenderKnown, RpcAssumption DEF Execute, Valid, ChainTyped
<1>3. \A i \in DOMAIN body : SenderOf[body[i]] # s
  BY <1>1, <1>2 DEF HistoryInv, Turns, Execute
<1>4. Ordered(q) /\ Used(q, nonce)
  BY <1>1 DEF HistoryInv
<1>5. \A m \in DOMAIN q : \A i \in DOMAIN q[m] :
        m \in DOMAIN r /\ i \in DOMAIN r[m] /\ r[m][i] = q[m][i]
  BY DEF ChainTyped
<1>6. /\ top \in DOMAIN r /\ new \in DOMAIN r[top] /\ r[top][new] = t
      /\ top \in DOMAIN q /\ q[top] = body
  BY DEF ChainTyped
<1>7. \A m \in DOMAIN r : \A i \in DOMAIN r[m] :
        \/ m \in DOMAIN q /\ i \in DOMAIN q[m] /\ q[m][i] = r[m][i] /\ m <= top
        \/ m = top /\ i = new
  <2>1. /\ DOMAIN r = 1 .. top /\ DOMAIN q = 1 .. top /\ top \in Nat
        /\ \A m \in 1 .. top : m # top => r[m] = q[m]
        /\ r[top] = Append(body, t) /\ q[top] = body
    BY DEF ChainTyped
  <2>2. DOMAIN Append(body, t) = 1 .. new /\ DOMAIN body = 1 .. new - 1 /\ new \in Nat
    BY DEF ChainTyped
  <2>3. \A i \in DOMAIN body : Append(body, t)[i] = body[i]
    BY DEF ChainTyped
  <2> HIDE DEF q, r, top, new
  <2>4. QED
    BY <2>1, <2>2, <2>3
<1>8. \A m \in DOMAIN q : \A i \in DOMAIN q[m] : q[m][i] \in Txs
  BY DEF ChainTyped
<1>9. DOMAIN r \subseteq Nat /\ top \in Nat
  BY DEF ChainTyped
<1> HIDE DEF q, r, s, top, new
<1>10. Ordered(r)
  <2> SUFFICES ASSUME NEW m \in DOMAIN r, NEW n \in DOMAIN r,
                      NEW i \in DOMAIN r[m], NEW j \in DOMAIN r[n],
                      SenderOf[r[m][i]] = SenderOf[r[n][j]]
               PROVE  /\ m < n => NonceOf[r[m][i]] < NonceOf[r[n][j]]
                      /\ m = n => i = j
    BY DEF Ordered
  <2>1. CASE m = top /\ i = new /\ n = top /\ j = new
    BY <1>9, <2>1
  <2>2. CASE /\ m = top /\ i = new
             /\ n \in DOMAIN q /\ j \in DOMAIN q[n] /\ q[n][j] = r[n][j] /\ n <= top
    BY <1>3, <1>6, <1>9, <2>2 DEF s
  <2>3. CASE /\ n = top /\ j = new
             /\ m \in DOMAIN q /\ i \in DOMAIN q[m] /\ q[m][i] = r[m][i] /\ m <= top
    <3>1. NonceOf[q[m][i]] < nonce[SenderOf[q[m][i]]]
      BY <1>4, <2>3 DEF Used
    <3>2. SenderOf[q[m][i]] = s /\ r[n][j] = t
      BY <1>6, <2>3 DEF s
    <3>3. m # n
      BY <1>3, <1>6, <2>3, <3>2
    <3>4. QED
      BY <1>2, <2>3, <3>1, <3>2, <3>3
  <2>4. CASE /\ n \in DOMAIN q /\ j \in DOMAIN q[n] /\ q[n][j] = r[n][j]
             /\ m \in DOMAIN q /\ i \in DOMAIN q[m] /\ q[m][i] = r[m][i]
    BY <1>4, <2>4 DEF Ordered
  <2>5. QED
    BY <1>7, <2>1, <2>2, <2>3, <2>4
<1>11. ASSUME NEW m \in DOMAIN r, NEW i \in DOMAIN r[m]
       PROVE  NonceOf[r[m][i]] < nonce'[SenderOf[r[m][i]]]
  <2>1. CASE m = top /\ i = new
    BY <1>2, <1>6, <2>1 DEF s
  <2>2. CASE m \in DOMAIN q /\ i \in DOMAIN q[m] /\ q[m][i] = r[m][i]
    <3>1. NonceOf[q[m][i]] < nonce[SenderOf[q[m][i]]]
      BY <1>4, <2>2 DEF Used
    <3>2. q[m][i] \in Txs
      BY <1>8, <2>2
    <3>3. QED
      BY <1>2, <2>2, <3>1, <3>2
  <2>3. QED
    BY <1>7, <2>1, <2>2
<1>12. ASSUME NEW a \in Accounts, NEW k \in 0 .. nonce'[a] - 1
       PROVE  \E m \in DOMAIN r : \E i \in DOMAIN r[m] :
                SenderOf[r[m][i]] = a /\ NonceOf[r[m][i]] = k
  <2>1. CASE a = s /\ k = nonce[s]
    BY <1>2, <1>6, <2>1 DEF s
  <2>2. CASE k \in 0 .. nonce[a] - 1
    <3>1. PICK m \in DOMAIN q : \E i \in DOMAIN q[m] :
                 SenderOf[q[m][i]] = a /\ NonceOf[q[m][i]] = k
      BY <1>4, <2>2 DEF Used
    <3>2. QED
      BY <1>5, <3>1
  <2>3. QED
    BY <1>2, <2>1, <2>2
<1>13. Used(r, nonce')
  BY <1>11, <1>12 DEF Used
<1>14. QED
  BY <1>1, <1>10, <1>13

(* An execution uses the next nonce of its sender; of what else is a       *)
(* candidate from there the turn has passed.                               *)
LEMMA ExecuteKeepsHistory ==
  ASSUME TypeOK, HistoryInv, NEW t \in Txs, Execute(t)
  PROVE  HistoryInv'
<1>1. ChainTyped
  BY DEF TypeOK, ChainTyped
<1>2. making = "body" /\ UNCHANGED <<making, blocks, head, receipts, pool, call>>
  BY DEF Execute, mempool
<1>3. Phases'
  BY <1>2 DEF HistoryInv, Phases
<1>4. Ordered(Stacked') /\ Used(Stacked, nonce)'
  BY <1>1, ExecuteStacks
<1>5. ReceiptsRight'
  BY <1>2 DEF HistoryInv, ReceiptsRight, Recorded, Midway
<1>6. /\ SenderOf[t] \in Accounts /\ NonceOf[t] = nonce[SenderOf[t]]
      /\ nonce \in [Accounts -> Nat]
      /\ nonce' = [nonce EXCEPT ![SenderOf[t]] = @ + 1]
      /\ \A b \in Txs : SenderOf[b] \in Accounts /\ NonceOf[b] \in Nat
  BY <1>1, SenderKnown, RpcAssumption DEF Execute, Valid, ChainTyped
<1>7. \A u \in Txs : InTurn(u, nonce) => InTurn(u, nonce')
  BY <1>6 DEF InTurn
<1>8. \A u \in pool' \cup cand' : InTurn(u, nonce')
  <2>1. pool \subseteq Txs /\ cand \subseteq Txs
    BY DEF TypeOK, M!TypeOK
  <2>2. QED
    BY <1>2, <1>7, <2>1 DEF HistoryInv, Turns, Execute
<1>9. ASSUME NEW d \in Clients, At(d, "insert")'
      PROVE  InTurn(call'[d].tx, nonce')
  <2>1. call'[d].tx = call[d].tx /\ call[d].tx \in Txs /\ At(d, "insert")
    BY <1>2, <1>9 DEF TypeOK, At, Calls, NoCall
  <2>2. QED
    BY <1>7, <2>1 DEF HistoryInv, Turns
<1>10. ASSUME NEW u \in cand', NEW i \in DOMAIN body', SenderOf[u] = SenderOf[body'[i]]
       PROVE  NonceOf[u] < nonce'[SenderOf[u]]
  <2>1. u \in cand /\ u \in Txs /\ NonceOf[u] <= nonce[SenderOf[u]]
    BY <1>1 DEF HistoryInv, Turns, InTurn, Execute, ChainTyped
  <2>2. CASE i \in DOMAIN body /\ body'[i] = body[i]
    <3>1. NonceOf[u] < nonce[SenderOf[u]]
      BY <1>2, <1>10, <2>1, <2>2 DEF HistoryInv, Turns
    <3>2. QED
      BY <1>6, <2>1, <3>1
  <2>3. CASE body'[i] = t
    BY <1>6, <1>10, <2>1, <2>3
  <2>4. body \in Seq(Txs) /\ body' = Append(body, t)
    BY <1>1 DEF Execute, ChainTyped
  <2>5. QED
    BY <2>2, <2>3, <2>4
<1>11. Turns'
  BY <1>8, <1>9, <1>10 DEF Turns
<1>12. QED
  BY <1>3, <1>4, <1>5, <1>11 DEF HistoryInv

(* Nothing else that the producer does takes a turn.                       *)
LEMMA TurnsKept ==
  ASSUME Turns, UNCHANGED <<nonce, call>>, pool' \subseteq pool, cand' \subseteq pool \cup cand,
         making' = "body" => body' = << >>
  PROVE  Turns'
<1>1. \A t : InTurn(t, nonce') <=> InTurn(t, nonce)
  BY DEF InTurn
<1>2. \A t \in pool' \cup cand' : InTurn(t, nonce')
  BY <1>1 DEF Turns
<1>3. \A c \in Clients : At(c, "insert")' => InTurn(call'[c].tx, nonce')
  BY <1>1 DEF Turns, At
<1>4. QED
  BY <1>2, <1>3 DEF Turns

LEMMA BlockKeepsHistory ==
  ASSUME TypeOK, HistoryInv, Wake \/ PutBlock \/ SetHead \/ Sleep
  PROVE  HistoryInv'
<1>1. ChainTyped
  BY DEF TypeOK, ChainTyped
<1>2. Turns'
  BY TurnsKept DEF HistoryInv, Phases, Wake, PutBlock, SetHead, Sleep, mempool
<1>3. CASE Wake
  <2>1. /\ making = "asleep" /\ making' = "body" /\ body' = << >>
        /\ Len(blocks) = head + 1 /\ UNCHANGED <<blocks, head, receipts, nonce>>
    BY <1>3 DEF HistoryInv, Phases, Wake
  <2>2. Phases'
    BY <2>1 DEF Phases
  <2>3. Ordered(Stacked') /\ Used(Stacked, nonce)'
    BY <1>1, <2>1, EmptyOnTop DEF HistoryInv, Stacked
  <2>4. ReceiptsRight'
    BY <2>1 DEF HistoryInv, ReceiptsRight, Recorded, Midway
  <2>5. QED
    BY <1>2, <2>2, <2>3, <2>4 DEF HistoryInv
<1>4. CASE PutBlock
  <2>1. /\ making = "body" /\ making' = "head" /\ blocks' = Append(blocks, body)
        /\ Len(blocks) = head + 1 /\ UNCHANGED <<body, head, receipts, nonce>>
    BY <1>4 DEF HistoryInv, Phases, PutBlock
  <2>2. /\ Len(blocks') = head + 2 /\ blocks'[head + 2] = body
        /\ DOMAIN blocks = 1 .. head + 1 /\ DOMAIN blocks' = 1 .. head + 2
        /\ \A m \in 1 .. head + 1 : blocks'[m] = blocks[m]
        /\ head \in Nat
    BY <1>1, <2>1 DEF ChainTyped
  <2>3. Phases'
    BY <2>1, <2>2 DEF Phases
  <2>4. Ordered(Stacked') /\ Used(Stacked, nonce)'
    BY <2>1 DEF HistoryInv, Stacked
  <2>5. ReceiptsRight'
    BY <2>1, <2>2 DEF HistoryInv, ReceiptsRight, Recorded, Midway
  <2>6. QED
    BY <1>2, <2>3, <2>4, <2>5 DEF HistoryInv
<1>5. CASE SetHead
  <2>1. /\ making = "head" /\ making' = "receipts" /\ head' = head + 1 /\ head \in Nat
        /\ Len(blocks) = head + 2 /\ blocks[head + 2] = body
        /\ UNCHANGED <<body, blocks, receipts, nonce>>
    BY <1>1, <1>5 DEF HistoryInv, Phases, SetHead, ChainTyped
  <2>2. /\ Len(body) \in Nat /\ DOMAIN body = 1 .. Len(body)
        /\ DOMAIN blocks = 1 .. head + 2
    BY <1>1, <2>1 DEF ChainTyped
  <2>3. Phases'
    <3>1. blocks'[head' + 1] = body'
      BY <2>1
    <3>2. QED
      BY <2>1, <2>2, <3>1 DEF Phases
  <2>4. Ordered(Stacked') /\ Used(Stacked, nonce)'
    BY <2>1 DEF HistoryInv, Stacked
  <2>5. \A m \in DOMAIN blocks : \A i \in DOMAIN blocks[m] : Recorded(m, i)' <=> Recorded(m, i)
    BY <2>1, <2>2 DEF Recorded
  <2>6. \A m \in DOMAIN blocks : \A i \in DOMAIN blocks[m] : ~ Midway(m, i)
    BY <2>1 DEF Midway
  <2>7. ReceiptsRight'
    BY <2>1, <2>5, <2>6 DEF HistoryInv, ReceiptsRight
  <2>8. QED
    BY <1>2, <2>3, <2>4, <2>7 DEF HistoryInv
<1>6. CASE Sleep
  <2>1. /\ making = "receipts" /\ making' = "asleep" /\ body = << >> /\ head \in Nat
        /\ Len(blocks) = head + 1 /\ blocks \in Seq(Seq(Txs))
        /\ UNCHANGED <<body, blocks, head, receipts, nonce>>
    BY <1>1, <1>6 DEF HistoryInv, Phases, Sleep, ChainTyped
  <2>2. Phases'
    BY <2>1 DEF Phases
  <2>3. Ordered(Stacked') /\ Used(Stacked, nonce)'
    BY <2>1 DEF HistoryInv, Stacked
  <2>4. \A m \in DOMAIN blocks : \A i \in DOMAIN blocks[m] :
          (Recorded(m, i)' <=> Recorded(m, i)) /\ ~ Midway(m, i)
    BY <2>1 DEF Recorded, Midway
  <2>5. ReceiptsRight'
    BY <2>1, <2>4 DEF HistoryInv, ReceiptsRight
  <2>6. QED
    BY <1>2, <2>2, <2>3, <2>5 DEF HistoryInv
<1>7. QED
  BY <1>3, <1>4, <1>5, <1>6

(* The receipt that is put names the place that comes next.                *)
LEMMA ReceiptKeepsHistory ==
  ASSUME TypeOK, HistoryInv, PutReceipt \/ RemoveMined
  PROVE  HistoryInv'
<1>1. /\ making = "receipts" /\ making' = "receipts" /\ body # << >> /\ head \in Nat
      /\ Len(blocks) = head + 1 /\ Len(body) <= Len(blocks[head + 1])
      /\ blocks \in Seq(Seq(Txs)) /\ body \in Seq(Txs)
      /\ UNCHANGED <<blocks, head, nonce, bal, cand, call>>
  BY DEF HistoryInv, Phases, PutReceipt, RemoveMined, TypeOK
<1> DEFINE top == blocks[head + 1]
           next == Len(top) - Len(body) + 1
<1>2. /\ DOMAIN blocks = 1 .. head + 1 /\ top \in Seq(Txs) /\ Len(body) \in Nat \ {0}
      /\ Len(top) \in Nat /\ next \in 1 .. Len(top) /\ DOMAIN top = 1 .. Len(top)
  <2>1. Len(body) \in Nat \ {0} /\ Len(blocks) = head + 1 /\ top \in Seq(Txs)
    BY <1>1, EmptySeq
  <2>2. QED
    BY <1>1, <2>1
<1>3. top[next] = Head(body)
  <2>1. 1 \in 1 .. Len(body) /\ Head(body) = body[1]
    BY <1>1, <1>2
  <2>2. body[1] = blocks[head + 1][Len(blocks[head + 1]) - Len(body) + 1]
    BY <1>1, <2>1 DEF HistoryInv, Phases
  <2>3. QED
    BY <2>1, <2>2
<1>4. Turns'
  <2>1. pool' \subseteq pool
    BY RemoveTakes DEF PutReceipt, RemoveMined, mempool
  <2>2. QED
    BY <1>1, <2>1, TurnsKept DEF HistoryInv
<1>5. Ordered(Stacked') /\ Used(Stacked, nonce)'
  BY <1>1 DEF HistoryInv, Stacked
<1>6. \A m \in DOMAIN blocks : \A i \in DOMAIN blocks[m] :
        Midway(m, i) <=> m = head + 1 /\ i = next
  BY <1>1 DEF Midway
<1>7. CASE PutReceipt
  <2>1. UNCHANGED body
    BY <1>7 DEF PutReceipt
  <2>2. Phases'
    BY <1>1, <2>1 DEF HistoryInv, Phases
  <2>3. \A m, i : (Recorded(m, i)' <=> Recorded(m, i)) /\ (Midway(m, i)' <=> Midway(m, i))
    BY <1>1, <2>1 DEF Recorded, Midway
  <2>4. PICK h : h = Head(body)
    OBVIOUS
  <2>5. receipts' = [t \in DOMAIN receipts \cup {h} |->
                       IF t = h THEN <<head, next - 1>> ELSE receipts[t]]
    BY <1>1, <1>2, <1>7, <2>4 DEF PutReceipt, Place, Body
  <2>6. h \notin DOMAIN receipts
    BY <1>7, <2>4 DEF PutReceipt
  <2>7. head + 1 \in DOMAIN blocks /\ next \in DOMAIN blocks[head + 1]
    BY <1>1, <1>2
  <2>8. ASSUME NEW t \in DOMAIN receipts'
        PROVE  \E m \in DOMAIN blocks : \E i \in DOMAIN blocks[m] :
                 /\ blocks[m][i] = t /\ receipts'[t] = <<m - 1, i - 1>>
                 /\ Recorded(m, i) \/ Midway(m, i)
    <3>1. CASE t = h
      <4>1. PICK m \in DOMAIN blocks : m = head + 1
        BY <2>7
      <4>2. PICK i \in DOMAIN blocks[m] : i = next
        BY <2>7, <4>1
      <4>3. m - 1 = head
        BY <1>1, <4>1
      <4> HIDE DEF next
      <4>4. blocks[m][i] = t
        BY <1>3, <2>4, <3>1, <4>1, <4>2
      <4>5. Midway(m, i)
        BY <1>6, <4>1, <4>2
      <4>6. receipts'[t] = <<m - 1, i - 1>>
        BY <2>5, <3>1, <4>2, <4>3
      <4>7. QED
        BY <4>4, <4>5, <4>6
    <3>2. CASE t # h
      <4>1. t \in DOMAIN receipts /\ receipts'[t] = receipts[t]
        BY <2>5, <3>2
      <4>2. QED
        BY <4>1 DEF HistoryInv, ReceiptsRight
    <3>3. QED
      BY <3>1, <3>2
  <2>9. DOMAIN receipts \subseteq DOMAIN receipts'
    BY <2>5
  <2>10. ReceiptsRight'
    BY <1>1, <2>3, <2>8, <2>9 DEF HistoryInv, ReceiptsRight
  <2>11. QED
    BY <1>4, <1>5, <2>2, <2>10 DEF HistoryInv
<1>8. CASE RemoveMined
  <2>1. /\ UNCHANGED receipts /\ Head(body) \in DOMAIN receipts
        /\ Len(body') = Len(body) - 1
        /\ \A j \in 1 .. Len(body) - 1 : body'[j] = body[j + 1]
    BY <1>1, <1>2, <1>8 DEF RemoveMined
  <2>2. Phases'
    <3>1. ASSUME NEW j \in 1 .. Len(body) - 1
          PROVE  body'[j] = top[Len(top) - (Len(body) - 1) + j]
      <4>1. j + 1 \in 1 .. Len(body)
        BY <1>2
      <4>2. body[j + 1] = top[Len(top) - Len(body) + (j + 1)]
        BY <1>1, <4>1 DEF HistoryInv, Phases
      <4>3. Len(top) - Len(body) + (j + 1) = Len(top) - (Len(body) - 1) + j
        <5>1. \A l, b, k \in Int : l - b + (k + 1) = l - (b - 1) + k
          OBVIOUS
        <5>2. Len(top) \in Int /\ Len(body) \in Int /\ j \in Int
          BY <1>2
        <5> HIDE DEF top
        <5>3. QED
          BY <5>1, <5>2
      <4>4. QED
        BY <2>1, <4>2, <4>3
    <3>2. Len(body) - 1 <= Len(top)
      BY <1>1, <1>2
    <3>3. QED
      BY <1>1, <2>1, <3>1, <3>2 DEF Phases
  <2>3. ASSUME NEW m \in DOMAIN blocks, NEW i \in DOMAIN blocks[m]
        PROVE  Recorded(m, i)' <=> Recorded(m, i) \/ Midway(m, i)
    <3>1. CASE m = head + 1
      <4>1. i \in 1 .. Len(top) /\ blocks'[m] = top
        BY <1>1, <1>2, <3>1
      <4>2. Recorded(m, i)' <=> i <= Len(top) - (Len(body) - 1)
        BY <1>1, <2>1, <3>1, <4>1 DEF Recorded
      <4>3. Recorded(m, i) <=> i <= Len(top) - Len(body)
        BY <1>1, <3>1 DEF Recorded
      <4>4. QED
        BY <1>2, <1>6, <3>1, <4>1, <4>2, <4>3
    <3>2. CASE m # head + 1
      BY <1>1, <1>2, <3>2 DEF Recorded, Midway
    <3>3. QED
      BY <3>1, <3>2
  <2>4. ReceiptsRight'
    <3>1. \A t \in DOMAIN receipts : \E m \in DOMAIN blocks : \E i \in DOMAIN blocks[m] :
            /\ blocks[m][i] = t /\ receipts[t] = <<m - 1, i - 1>> /\ Recorded(m, i)'
      BY <2>3 DEF HistoryInv, ReceiptsRight
    <3>2. ASSUME NEW m \in DOMAIN blocks, NEW i \in DOMAIN blocks[m], Recorded(m, i)'
          PROVE  blocks[m][i] \in DOMAIN receipts
      <4>1. CASE Recorded(m, i)
        BY <4>1 DEF HistoryInv, ReceiptsRight
      <4>2. CASE Midway(m, i)
        BY <1>3, <1>6, <2>1, <4>2
      <4>3. QED
        BY <2>3, <3>2, <4>1, <4>2
    <3>3. QED
      BY <1>1, <2>1, <3>1, <3>2 DEF ReceiptsRight
  <2>5. QED
    BY <1>4, <1>5, <2>2, <2>4 DEF HistoryInv
<1>9. QED
  BY <1>7, <1>8

(* What the blocks hold, in every state.                                   *)
THEOREM HistoryInvariant == Spec => []HistoryInv
<1>1. TypeOK /\ HistoryInv /\ [Next]_vars => HistoryInv'
  <2>1. ASSUME TypeOK, HistoryInv, Produce
        PROVE  HistoryInv'
    BY <2>1, ExecuteKeepsHistory, BlockKeepsHistory, ReceiptKeepsHistory DEF Produce
  <2>2. ASSUME HistoryInv, UNCHANGED vars
        PROVE  HistoryInv'
    BY <2>2 DEF vars, mempool, chain, HistoryInv, Phases, Turns, At, Stacked, ReceiptsRight,
                Recorded, Midway
  <2>3. QED
    BY <2>1, <2>2, ServeKeepsHistory DEF Next
<1>2. QED
  BY <1>1, HistoryInit, RpcTypeCorrect, PTL DEF Spec

-----------------------------------------------------------------------------
(* What the reads of the chain return.                                     *)

(* Everything that was executed, where an account has used so many nonces. *)
Executed(all, used) ==
  /\ all \subseteq Txs /\ IsFiniteSet(all)
  /\ \A u, v \in all : SenderOf[u] = SenderOf[v] /\ NonceOf[u] = NonceOf[v] => u = v
  /\ \A u \in all : NonceOf[u] < used[SenderOf[u]]
  /\ \A a \in Accounts : \A k \in 0 .. used[a] - 1 :
       \E u \in all : SenderOf[u] = a /\ NonceOf[u] = k

(* How many of a list a has sent.                                          *)
Count(list, i, a) == Cardinality(SentIn(list, i, a))

Whole(list, limit, all) == Len(list) < limit \/ limit >= Cardinality(all)

(* A list of a's transactions up to a limit, after those in seen were gone *)
(* through: of those that a sent it has the last ones, the last one first, *)
(* and all that were seen unless it is full.                               *)
Listing(list, seen, all, used, a, limit) ==
  /\ list \in Seq(seen) /\ Len(list) <= limit
  /\ \A i, j \in 1 .. Len(list) : list[i] = list[j] => i = j
  /\ \A i \in 1 .. Len(list) : SenderOf[list[i]] = a =>
       NonceOf[list[i]] = used[a] - Count(list, i, a)
  /\ Whole(list, limit, all) =>
       /\ Count(list, Len(list), a) <= used[a]
       /\ \A u \in all : SenderOf[u] = a =>
            (u \in seen <=> NonceOf[u] >= used[a] - Count(list, Len(list), a))

LEMMA CountIs ==
  ASSUME NEW list \in Seq(Txs), NEW i \in 0 .. Len(list), NEW a
  PROVE  /\ IsFiniteSet(SentIn(list, i, a)) /\ Count(list, i, a) \in Nat
         /\ \A t \in Txs : Count(Append(list, t), i, a) = Count(list, i, a)
<1>1. IsFiniteSet(1 .. i) /\ SentIn(list, i, a) \in SUBSET (1 .. i)
  BY FS_Interval DEF SentIn
<1>2. IsFiniteSet(SentIn(list, i, a))
  BY <1>1, FS_Subset
<1>3. ASSUME NEW t \in Txs PROVE SentIn(Append(list, t), i, a) = SentIn(list, i, a)
  BY DEF SentIn
<1>4. QED
  BY <1>2, <1>3, FS_CardinalityType DEF Count

LEMMA CountNext ==
  ASSUME NEW list \in Seq(Txs), NEW t \in Txs, NEW a
  PROVE  Count(Append(list, t), Len(list) + 1, a) =
           IF SenderOf[t] = a THEN Count(list, Len(list), a) + 1
                              ELSE Count(list, Len(list), a)
<1> DEFINE n == Len(list)
           more == Append(list, t)
<1>1. n \in Nat /\ n \in 0 .. n /\ more[n + 1] = t
  OBVIOUS
<1>2. \A j \in 1 .. n : more[j] = list[j]
  OBVIOUS
<1>3. \A j \in 1 .. n + 1 : j \in 1 .. n \/ j = n + 1
  BY <1>1
<1>4. \A j \in 1 .. n : j \in 1 .. n + 1 /\ j # n + 1
  BY <1>1
<1>5. IsFiniteSet(SentIn(list, n, a)) /\ n + 1 \notin SentIn(list, n, a) /\ n + 1 \in 1 .. n + 1
  <2>1. IsFiniteSet(SentIn(list, n, a))
    BY <1>1, CountIs
  <2>2. n + 1 \notin SentIn(list, n, a)
    BY <1>4 DEF SentIn
  <2>3. QED
    BY <1>1, <2>1, <2>2
<1> HIDE DEF n, more
<1>6. CASE SenderOf[t] = a
  <2>1. SentIn(more, n + 1, a) = SentIn(list, n, a) \cup {n + 1}
    BY <1>1, <1>2, <1>3, <1>4, <1>5, <1>6 DEF SentIn
  <2>2. QED
    BY <1>5, <1>6, <2>1, FS_AddElement DEF Count, n, more
<1>7. CASE SenderOf[t] # a
  <2>1. SentIn(more, n + 1, a) = SentIn(list, n, a)
    BY <1>1, <1>2, <1>3, <1>4, <1>7 DEF SentIn
  <2>2. QED
    BY <1>7, <2>1 DEF Count, n, more
<1>8. QED
  BY <1>6, <1>7

(* One transaction more, of which what its sender sent later was seen.     *)
LEMMA ListingStep ==
  ASSUME NEW all, NEW used \in [Accounts -> Nat], Executed(all, used),
         NEW a \in Accounts, NEW limit \in Nat,
         NEW seen \in SUBSET all, NEW t \in all, t \notin seen,
         \A u \in all : SenderOf[u] = SenderOf[t] /\ NonceOf[u] > NonceOf[t] => u \in seen,
         NEW list, Listing(list, seen, all, used, a, limit)
  PROVE  Listing(IF Len(list) < limit /\ Involves(t, a) THEN Append(list, t) ELSE list,
                 seen \cup {t}, all, used, a, limit)
<1> DEFINE now == seen \cup {t}
           c == Count(list, Len(list), a)
<1>1. /\ seen \in SUBSET Txs /\ t \in Txs /\ list \in Seq(seen) /\ list \in Seq(Txs)
      /\ list \in Seq(now) /\ Len(list) \in Nat /\ Cardinality(all) \in Nat
      /\ used[a] \in Nat /\ \A u \in all : NonceOf[u] \in Nat
  BY RpcAssumption, FS_CardinalityType DEF Executed, Listing
<1>2. c \in Nat
  BY <1>1, CountIs
<1>3. ASSUME Whole(list, limit, all), SenderOf[t] = a
      PROVE  /\ NonceOf[t] = used[a] - (c + 1)
             /\ \A u \in all : SenderOf[u] = a =>
                  (u \in now <=> NonceOf[u] >= used[a] - (c + 1))
  <2>1. c <= used[a] /\ \A u \in all : SenderOf[u] = a =>
                           (u \in seen <=> NonceOf[u] >= used[a] - c)
    BY <1>3 DEF Listing
  <2>2. NonceOf[t] < used[a] - c
    BY <1>1, <1>2, <1>3, <2>1
  <2>3. NonceOf[t] = used[a] - (c + 1)
    <3>1. SUFFICES ASSUME NonceOf[t] # used[a] - (c + 1) PROVE FALSE
      OBVIOUS
    <3>2. PICK k \in Nat : k = used[a] - (c + 1)
      BY <1>1, <1>2, <2>1, <2>2
    <3>3. k \in 0 .. used[a] - 1 /\ NonceOf[t] < k /\ ~ k >= used[a] - c
      BY <1>1, <1>2, <2>2, <3>1, <3>2
    <3>4. PICK u \in all : SenderOf[u] = a /\ NonceOf[u] = k
      BY <3>3 DEF Executed
    <3>5. u \in seen
      BY <1>1, <1>3, <3>3, <3>4
    <3>6. QED
      BY <2>1, <3>3, <3>4, <3>5
  <2>4. ASSUME NEW u \in all, SenderOf[u] = a
        PROVE  u \in now <=> NonceOf[u] >= used[a] - (c + 1)
    <3>1. u # t => NonceOf[u] # NonceOf[t]
      BY <1>3, <2>4 DEF Executed
    <3>2. u \in seen <=> NonceOf[u] >= used[a] - c
      BY <2>1, <2>4
    <3>3. NonceOf[u] \in Nat
      BY <1>1
    <3>4. CASE u = t
      BY <1>1, <1>2, <2>3, <3>4
    <3>5. CASE u # t
      BY <1>1, <1>2, <2>3, <3>1, <3>2, <3>3, <3>5
    <3>6. QED
      BY <3>4, <3>5
  <2>5. QED
    BY <2>3, <2>4
<1>4. CASE Len(list) < limit /\ Involves(t, a)
  <2> DEFINE more == Append(list, t)
  <2>1. Whole(list, limit, all)
    BY <1>4 DEF Whole
  <2>2. /\ more \in Seq(now) /\ Len(more) = Len(list) + 1 /\ Len(more) <= limit
        /\ more[Len(list) + 1] = t /\ \A i \in 1 .. Len(list) : more[i] = list[i] /\ list[i] # t
    BY <1>1, <1>4 DEF Listing
  <2>3. \A i \in 1 .. Len(more) : i \in 1 .. Len(list) \/ i = Len(list) + 1
    BY <1>1, <2>2
  <2>4. Count(more, Len(list) + 1, a) = IF SenderOf[t] = a THEN c + 1 ELSE c
    BY <1>1, CountNext
  <2>5. \A i \in 1 .. Len(list) : Count(more, i, a) = Count(list, i, a)
    <3>1. \A i \in 1 .. Len(list) : i \in 0 .. Len(list)
      BY <1>1
    <3>2. QED
      BY <1>1, <3>1, CountIs
  <2> HIDE DEF more, c, now
  <2>6. \A i, j \in 1 .. Len(more) : more[i] = more[j] => i = j
    BY <2>2, <2>3 DEF Listing
  <2>7. ASSUME NEW i \in 1 .. Len(more), SenderOf[more[i]] = a
        PROVE  NonceOf[more[i]] = used[a] - Count(more, i, a)
    <3>1. CASE i \in 1 .. Len(list)
      BY <2>2, <2>5, <2>7, <3>1 DEF Listing
    <3>2. CASE i = Len(list) + 1
      BY <1>3, <2>1, <2>2, <2>4, <2>7, <3>2
    <3>3. QED
      BY <2>3, <3>1, <3>2
  <2>8. /\ Count(more, Len(more), a) <= used[a]
        /\ \A u \in all : SenderOf[u] = a =>
             (u \in now <=> NonceOf[u] >= used[a] - Count(more, Len(more), a))
    <3>1. CASE SenderOf[t] = a
      <4>1. NonceOf[t] \in Nat /\ NonceOf[t] = used[a] - (c + 1)
        BY <1>1, <1>3, <2>1, <3>1
      <4>2. Count(more, Len(more), a) = c + 1 /\ c + 1 <= used[a]
        BY <1>1, <1>2, <2>2, <2>4, <3>1, <4>1
      <4>3. QED
        BY <1>3, <2>1, <3>1, <4>2
    <3>2. CASE SenderOf[t] # a
      BY <2>1, <2>2, <2>4, <3>2 DEF Listing, c, now
    <3>3. QED
      BY <3>1, <3>2
  <2>9. QED
    BY <1>4, <2>2, <2>6, <2>7, <2>8 DEF Listing, more, now
<1>5. CASE ~ (Len(list) < limit /\ Involves(t, a))
  <2>1. ASSUME Whole(list, limit, all)
        PROVE  /\ c <= used[a]
               /\ \A u \in all : SenderOf[u] = a =>
                    (u \in now <=> NonceOf[u] >= used[a] - c)
    <3>1. CASE Len(list) < limit
      <4>1. SenderOf[t] # a
        BY <1>5, <3>1 DEF Involves
      <4>2. QED
        BY <2>1, <4>1 DEF Listing
    <3>2. CASE ~ Len(list) < limit
      <4>1. Len(list) >= Cardinality(all)
        BY <1>1, <2>1, <3>2 DEF Whole, Listing
      <4>2. Len(list) + 1 <= Cardinality(all)
        <5> DEFINE f == [i \in 1 .. Len(list) + 1 |-> IF i = Len(list) + 1 THEN t ELSE list[i]]
        <5>1. \A i \in 1 .. Len(list) + 1 : i \in 1 .. Len(list) \/ i = Len(list) + 1
          BY <1>1
        <5>2. \A i \in 1 .. Len(list) : list[i] \in seen /\ i # Len(list) + 1
          BY <1>1
        <5>3. f \in [1 .. Len(list) + 1 -> all]
          BY <5>1, <5>2
        <5>4. \A i, j \in 1 .. Len(list) + 1 : f[i] = f[j] => i = j
          BY <5>1, <5>2 DEF Listing
        <5>5. f \in Injection(1 .. Len(list) + 1, all)
          BY <5>3, <5>4 DEF Injection, IsInjective
        <5>6. IsFiniteSet(all) /\ Cardinality(1 .. Len(list) + 1) = Len(list) + 1
          BY <1>1, FS_Interval DEF Executed
        <5>7. QED
          BY <5>5, <5>6, FS_Injection
      <4>3. QED
        BY <1>1, <4>1, <4>2
    <3>3. QED
      BY <3>1, <3>2
  <2>2. QED
    BY <1>1, <1>5, <2>1 DEF Listing
<1>6. QED
  BY <1>4, <1>5

(* The bodies lie as Ordered says, by the numbers of the blocks.           *)
Parts == [n \in 0 .. head |-> {Body(n)[i] : i \in DOMAIN Body(n)}]

LEMMA BodiesOrdered ==
  ASSUME ChainTyped, HistoryInv, making = "asleep"
  PROVE  /\ head \in Nat /\ \A n \in 0 .. head : Body(n) \in Seq(Txs) /\ n + 1 \in DOMAIN blocks
         /\ \A m \in DOMAIN blocks : m - 1 \in 0 .. head /\ Body(m - 1) = blocks[m]
         /\ \A m, n \in 0 .. head : \A i \in DOMAIN Body(m), j \in DOMAIN Body(n) :
              SenderOf[Body(m)[i]] = SenderOf[Body(n)[j]] =>
                /\ m < n => NonceOf[Body(m)[i]] < NonceOf[Body(n)[j]]
                /\ m = n => i = j
<1>1. blocks \in Seq(Seq(Txs)) /\ Len(blocks) = head + 1 /\ head \in Nat
  BY DEF ChainTyped, HistoryInv, Phases
<1>2. \A n \in 0 .. head : n + 1 \in DOMAIN blocks /\ n \in Int
  BY <1>1
<1>3. \A n \in 0 .. head : Body(n) \in Seq(Txs)
  BY <1>1, <1>2 DEF Body
<1>4. \A m \in DOMAIN blocks : m - 1 \in 0 .. head /\ Body(m - 1) = blocks[m]
  BY <1>1 DEF Body
<1>5. Ordered(blocks)
  BY DEF HistoryInv, Stacked
<1>6. ASSUME NEW m \in 0 .. head, NEW n \in 0 .. head,
             NEW i \in DOMAIN Body(m), NEW j \in DOMAIN Body(n),
             SenderOf[Body(m)[i]] = SenderOf[Body(n)[j]]
      PROVE  /\ m < n => NonceOf[Body(m)[i]] < NonceOf[Body(n)[j]]
             /\ m = n => i = j
  <2>1. PICK k \in DOMAIN blocks, l \in DOMAIN blocks : k = m + 1 /\ l = n + 1
    BY <1>2
  <2>2. Body(m) = blocks[k] /\ Body(n) = blocks[l]
    BY <2>1 DEF Body
  <2>3. (m < n => k < l) /\ (m = n => k = l)
    BY <1>2, <2>1
  <2>4. /\ k < l => NonceOf[blocks[k][i]] < NonceOf[blocks[l][j]]
        /\ k = l => i = j
    BY <1>5, <1>6, <2>2 DEF Ordered
  <2>5. QED
    BY <2>2, <2>3, <2>4
<1>7. QED
  BY <1>1, <1>2, <1>3, <1>4, <1>6

(* While the producer sleeps what has a receipt is what the blocks hold.   *)
LEMMA ReceiptsAreBodies ==
  ASSUME ChainTyped, HistoryInv, making = "asleep"
  PROVE  /\ DOMAIN receipts = Gathered(Parts, 0 .. head)
         /\ \A t \in DOMAIN receipts : Located(t) = t
<1>1. \A m \in DOMAIN blocks : \A i \in DOMAIN blocks[m] : Recorded(m, i) /\ ~ Midway(m, i)
  BY DEF ChainTyped, HistoryInv, Phases, Recorded, Midway
<1>2. \A m \in DOMAIN blocks : \A i \in DOMAIN blocks[m] : blocks[m][i] \in DOMAIN receipts
  BY <1>1 DEF HistoryInv, ReceiptsRight
<1>3. ASSUME NEW t \in DOMAIN receipts
      PROVE  t \in Gathered(Parts, 0 .. head) /\ Located(t) = t
  <2>1. PICK m \in DOMAIN blocks : \E i \in DOMAIN blocks[m] :
               blocks[m][i] = t /\ receipts[t] = <<m - 1, i - 1>>
    BY DEF HistoryInv, ReceiptsRight
  <2>2. PICK i \in DOMAIN blocks[m] : blocks[m][i] = t /\ receipts[t] = <<m - 1, i - 1>>
    BY <2>1
  <2>3. m \in Nat /\ i \in Nat
    BY DEF ChainTyped
  <2>4. receipts[t][1] + 1 = m /\ receipts[t][2] + 1 = i
    BY <2>2, <2>3
  <2>5. m - 1 \in 0 .. head /\ Body(m - 1) = blocks[m]
    BY BodiesOrdered
  <2>6. t \in Parts[m - 1]
    BY <2>2, <2>5 DEF Parts
  <2>7. QED
    BY <2>2, <2>4, <2>5, <2>6 DEF Gathered, Located
<1>4. ASSUME NEW n \in 0 .. head, NEW t \in Parts[n]
      PROVE  t \in DOMAIN receipts
  <2>1. PICK i \in DOMAIN Body(n) : t = Body(n)[i]
    BY DEF Parts
  <2>2. n + 1 \in DOMAIN blocks /\ Body(n) = blocks[n + 1]
    BY BodiesOrdered DEF Body
  <2>3. QED
    BY <1>2, <2>1, <2>2
<1>5. QED
  BY <1>3, <1>4 DEF Gathered

LEMMA PartsCount ==
  ASSUME ChainTyped, HistoryInv, making = "asleep"
  PROVE  /\ IsFiniteSet(DOMAIN receipts)
         /\ TotalTransactions = Cardinality(DOMAIN receipts)
<1> DEFINE size == [n \in 0 .. head |-> Len(Body(n))]
<1>1. ASSUME NEW n \in 0 .. head
      PROVE  IsFiniteSet(Parts[n]) /\ Cardinality(Parts[n]) = size[n] /\ size[n] \in Nat
  <2> DEFINE f == [i \in 1 .. Len(Body(n)) |-> Body(n)[i]]
  <2>1. Body(n) \in Seq(Txs) /\ Parts[n] = {Body(n)[i] : i \in 1 .. Len(Body(n))}
        /\ Len(Body(n)) \in Nat
    BY BodiesOrdered DEF Parts
  <2>2. f \in Surjection(1 .. Len(Body(n)), Parts[n])
    BY <2>1 DEF Surjection
  <2>3. \A i, j \in 1 .. Len(Body(n)) : f[i] = f[j] => i = j
    <3>1. DOMAIN Body(n) = 1 .. Len(Body(n))
      BY <2>1
    <3>2. \A i, j \in DOMAIN Body(n) : Body(n)[i] = Body(n)[j] => i = j
      BY BodiesOrdered
    <3>3. QED
      BY <3>1, <3>2
  <2>4. f \in Injection(1 .. Len(Body(n)), Parts[n])
    BY <2>2, <2>3 DEF Surjection, Injection, IsInjective
  <2>5. IsFiniteSet(1 .. Len(Body(n))) /\ Cardinality(1 .. Len(Body(n))) = Len(Body(n))
    <3>1. PICK l \in Nat : l = Len(Body(n))
      BY <2>1
    <3>2. IsFiniteSet(1 .. l) /\ Cardinality(1 .. l) = l
      BY FS_Interval
    <3>3. QED
      BY <3>1, <3>2
  <2> HIDE DEF f
  <2>6. QED
    BY <2>1, <2>2, <2>4, <2>5, FS_Surjection
<1>2. ASSUME NEW m \in 0 .. head, NEW n \in 0 .. head, m # n
      PROVE  Parts[m] \cap Parts[n] = {}
  <2>1. SUFFICES ASSUME NEW i \in DOMAIN Body(m), NEW j \in DOMAIN Body(n),
                        Body(m)[i] = Body(n)[j]
                 PROVE  FALSE
    BY DEF Parts
  <2>2. Body(m)[i] \in Txs /\ NonceOf[Body(m)[i]] \in Nat /\ (m < n \/ n < m)
    BY <1>2, BodiesOrdered, RpcAssumption
  <2>3. m < n => NonceOf[Body(m)[i]] < NonceOf[Body(n)[j]]
    BY <2>1, BodiesOrdered
  <2>4. n < m => NonceOf[Body(n)[j]] < NonceOf[Body(m)[i]]
    BY <2>1, BodiesOrdered
  <2>5. QED
    BY <2>1, <2>2, <2>3, <2>4
<1>3. IsFiniteSet(0 .. head) /\ size \in [0 .. head -> Nat]
  BY <1>1, FS_Interval, BodiesOrdered
<1>4. Range(Numbers) = 0 .. head
  <2>1. head \in Nat
    BY BodiesOrdered
  <2>2. \A n \in 0 .. head : head + 1 - n \in 1 .. head + 1 /\ head + 1 - (head + 1 - n) = n
    BY <2>1
  <2>3. \A i \in 1 .. head + 1 : head + 1 - i \in 0 .. head
    BY <2>1
  <2>4. QED
    BY <2>2, <2>3 DEF Range, Numbers
<1>5. TotalTransactions = SumOf(size, 0 .. head)
  BY <1>4 DEF TotalTransactions, SumOf
<1> HIDE DEF size
<1>6. /\ IsFiniteSet(Gathered(Parts, 0 .. head))
      /\ Cardinality(Gathered(Parts, 0 .. head)) = SumOf(size, 0 .. head)
  BY <1>1, <1>2, <1>3, PartsAddUp
<1>7. QED
  BY <1>5, <1>6, ReceiptsAreBodies

LEMMA ReceiptsAreExecuted ==
  ASSUME ChainTyped, HistoryInv, making = "asleep"
  PROVE  Executed(DOMAIN receipts, nonce)
<1>1. DOMAIN receipts \subseteq Txs /\ IsFiniteSet(DOMAIN receipts)
  BY PartsCount DEF ChainTyped
<1>2. ASSUME NEW t \in DOMAIN receipts
      PROVE  \E n \in 0 .. head : \E i \in DOMAIN Body(n) : t = Body(n)[i]
  BY ReceiptsAreBodies DEF Gathered, Parts
<1>3. Used(blocks, nonce)
  BY DEF HistoryInv, Stacked
<1>4. ASSUME NEW u \in DOMAIN receipts, NEW v \in DOMAIN receipts,
             SenderOf[u] = SenderOf[v], NonceOf[u] = NonceOf[v]
      PROVE  u = v
  <2>1. PICK m \in 0 .. head : \E i \in DOMAIN Body(m) : u = Body(m)[i]
    BY <1>2
  <2>2. PICK n \in 0 .. head : \E j \in DOMAIN Body(n) : v = Body(n)[j]
    BY <1>2
  <2>3. PICK i \in DOMAIN Body(m) : u = Body(m)[i]
    BY <2>1
  <2>4. PICK j \in DOMAIN Body(n) : v = Body(n)[j]
    BY <2>2
  <2>5. NonceOf[u] \in Nat /\ NonceOf[v] \in Nat /\ m \in Nat /\ n \in Nat
    BY <1>1, BodiesOrdered, RpcAssumption
  <2>6. m < n => NonceOf[u] < NonceOf[v]
    BY <1>4, <2>3, <2>4, BodiesOrdered
  <2>7. n < m => NonceOf[v] < NonceOf[u]
    BY <1>4, <2>3, <2>4, BodiesOrdered
  <2>8. m = n
    BY <1>4, <2>5, <2>6, <2>7
  <2>9. i = j
    BY <1>4, <2>3, <2>4, <2>8, BodiesOrdered
  <2>10. QED
    BY <2>3, <2>4, <2>8, <2>9
<1>5. ASSUME NEW u \in DOMAIN receipts
      PROVE  NonceOf[u] < nonce[SenderOf[u]]
  <2>1. PICK n \in 0 .. head : \E i \in DOMAIN Body(n) : u = Body(n)[i]
    BY <1>2
  <2>2. n + 1 \in DOMAIN blocks /\ Body(n) = blocks[n + 1]
    BY BodiesOrdered DEF Body
  <2>3. QED
    BY <1>3, <2>1, <2>2 DEF Used
<1>6. ASSUME NEW a \in Accounts, NEW k \in 0 .. nonce[a] - 1
      PROVE  \E u \in DOMAIN receipts : SenderOf[u] = a /\ NonceOf[u] = k
  <2>1. PICK m \in DOMAIN blocks : \E i \in DOMAIN blocks[m] :
               SenderOf[blocks[m][i]] = a /\ NonceOf[blocks[m][i]] = k
    BY <1>3 DEF Used
  <2>2. PICK i \in DOMAIN blocks[m] : SenderOf[blocks[m][i]] = a /\ NonceOf[blocks[m][i]] = k
    BY <2>1
  <2>3. m - 1 \in 0 .. head /\ blocks[m][i] \in Parts[m - 1]
    BY BodiesOrdered DEF Parts
  <2>4. QED
    BY <2>2, <2>3, ReceiptsAreBodies DEF Gathered
<1>7. QED
  BY <1>1, <1>4, <1>5, <1>6 DEF Executed

(* What was gone through when the block n is come to, and i places in it.  *)
Above(n) == Gathered(Parts, n + 1 .. head)

Seen(n, i) == Above(n) \cup {Body(n)[j] : j \in 1 .. i}

(* The loop over one block, which the recursive function is.               *)
Pushing(run, got, n, a, limit) ==
  /\ run[0] = got
  /\ \A i \in 1 .. Len(Body(n)) :
       run[i] = IF Len(run[i - 1]) < limit /\ Involves(Body(n)[i], a)
                THEN Append(run[i - 1], Body(n)[i]) ELSE run[i - 1]

LEMMA ListedRuns ==
  ASSUME NEW n, Body(n) \in Seq(Txs), NEW got \in Seq(Txs), NEW a, NEW limit \in Nat
  PROVE  \E run : /\ Pushing(run, got, n, a, limit)
                  /\ Listed(got, n, a, limit) = run[Len(Body(n))]
<1>1. PICK q \in Seq(Txs) : q = Body(n)
  OBVIOUS
<1>2. PICK top \in Nat : top = Len(q)
  OBVIOUS
<1> DEFINE step(h) == [i \in 0 .. top |->
             IF i = 0 THEN got
             ELSE IF Len(h[i - 1]) < limit /\ Involves(q[i], a)
             THEN Append(h[i - 1], q[i])
             ELSE h[i - 1]]
           op == [i \in 1 .. top |-> [v \in Seq(Txs) |->
             IF Len(v) < limit /\ Involves(q[i], a) THEN Append(v, q[i]) ELSE v]]
           run == CHOOSE h : h = step(h)
<1>3. Listed(got, n, a, limit) = run[top]
  BY <1>1, <1>2 DEF Listed
<1>4. \A i \in 1 .. top : q[i] \in Txs
  BY <1>2
<1>5. op \in [1 .. top -> [Seq(Txs) -> Seq(Txs)]]
  BY <1>4
<1> HIDE DEF op
<1>6. PICK f \in [0 .. top -> Seq(Txs)] : Runs(f, top, got, op)
  BY <1>5, RunExists
<1>7. ASSUME NEW i \in 0 .. top PROVE f[i] = step(f)[i]
  <2>1. CASE i = 0
    BY <1>6, <2>1 DEF Runs
  <2>2. CASE i # 0
    <3>1. i \in 1 .. top /\ i - 1 \in 0 .. top
      BY <2>2
    <3>2. f[i] = op[i][f[i - 1]] /\ f[i - 1] \in Seq(Txs)
      BY <1>6, <3>1 DEF Runs
    <3>3. QED
      BY <2>2, <3>1, <3>2 DEF op
  <2>3. QED
    BY <2>1, <2>2
<1>8. f = step(f)
  BY <1>7, ZenonT(30)
<1>9. run = step(run)
  BY <1>8, Zenon
<1> HIDE DEF run
<1>10. Pushing(run, got, n, a, limit)
  <2>1. 0 \in 0 .. top /\ \A i \in 1 .. top : i \in 0 .. top /\ i # 0
    OBVIOUS
  <2>2. run[0] = got
    BY <1>9, <2>1
  <2>3. ASSUME NEW i \in 1 .. top
        PROVE  run[i] = IF Len(run[i - 1]) < limit /\ Involves(q[i], a)
                        THEN Append(run[i - 1], q[i]) ELSE run[i - 1]
    BY <1>9, <2>1
  <2>4. QED
    BY <1>1, <1>2, <2>2, <2>3 DEF Pushing
<1>11. QED
  BY <1>1, <1>2, <1>3, <1>10

LEMMA PushingTyped ==
  ASSUME NEW n, Body(n) \in Seq(Txs), NEW got \in Seq(Txs), NEW a, NEW limit \in Nat,
         NEW run, Pushing(run, got, n, a, limit)
  PROVE  \A i \in 0 .. Len(Body(n)) : run[i] \in Seq(Txs)
<1> DEFINE Bad == {i \in 0 .. Len(Body(n)) : run[i] \notin Seq(Txs)}
<1>1. SUFFICES ASSUME Bad # {} PROVE FALSE
  OBVIOUS
<1>2. PICK i \in Bad : \A j \in Bad : i <= j
  <2>1. Bad \subseteq Nat
    OBVIOUS
  <2> HIDE DEF Bad
  <2>2. QED
    BY <1>1, <2>1, LeastOfNaturals
<1>3. i # 0 /\ i \in 0 .. Len(Body(n)) /\ run[i] \notin Seq(Txs)
  BY DEF Pushing
<1>4. i \in 1 .. Len(Body(n)) /\ i - 1 \in 0 .. Len(Body(n)) /\ ~ i <= i - 1
  BY <1>3
<1>5. PICK v \in Seq(Txs) : v = run[i - 1]
  BY <1>2, <1>4
<1>6. PICK t \in Txs : t = Body(n)[i]
  BY <1>4
<1>7. run[i] = Append(v, t) \/ run[i] = v
  BY <1>4, <1>5, <1>6 DEF Pushing
<1>8. Append(v, t) \in Seq(Txs)
  OBVIOUS
<1> HIDE DEF Bad
<1>9. QED
  BY <1>3, <1>7, <1>8

(* One block is gone through from its first transaction to its last.       *)
LEMMA BlockListing ==
  ASSUME ChainTyped, HistoryInv, making = "asleep",
         NEW a \in Accounts, NEW limit \in Nat, NEW n \in 0 .. head,
         NEW got, Listing(got, Above(n), DOMAIN receipts, nonce, a, limit)
  PROVE  Listing(Listed(got, n, a, limit), Above(n - 1), DOMAIN receipts, nonce, a, limit)
<1>1. PICK all : all = DOMAIN receipts
  OBVIOUS
<1>2. /\ all = Gathered(Parts, 0 .. head) /\ Executed(all, nonce)
      /\ nonce \in [Accounts -> Nat] /\ all \subseteq Txs
  BY <1>1, ReceiptsAreBodies, ReceiptsAreExecuted DEF ChainTyped
<1>3. Body(n) \in Seq(Txs) /\ head \in Nat
  BY BodiesOrdered
<1>4. PICK top \in Nat : top = Len(Body(n))
  BY <1>3
<1>5. \A m \in n + 1 .. head : m \in 0 .. head /\ m > n
  BY <1>3
<1>6. Above(n) \subseteq all
  BY <1>2, <1>5 DEF Above, Gathered
<1>7. \A i \in 1 .. top : Body(n)[i] \in all
  BY <1>2, <1>3, <1>4 DEF Gathered, Parts
<1>8. got \in Seq(Txs)
  BY <1>2, <1>6 DEF Listing
<1>9. PICK run : Pushing(run, got, n, a, limit) /\ Listed(got, n, a, limit) = run[top]
  BY <1>3, <1>4, <1>8, ListedRuns
<1> DEFINE Right(i) == Listing(run[i], Seen(n, i), all, nonce, a, limit)
           Wrong == {i \in 0 .. top : ~ Right(i)}
<1>10. ASSUME NEW i \in 1 .. top, Right(i - 1)
       PROVE  Right(i)
  <2>1. PICK t \in all : t = Body(n)[i]
    BY <1>7
  <2>2. PICK seen : seen = Seen(n, i - 1)
    OBVIOUS
  <2>3. Seen(n, i) = seen \cup {t}
    <3>1. \A j \in 1 .. i : j \in 1 .. i - 1 \/ j = i
      OBVIOUS
    <3>2. i \in 1 .. i /\ \A j \in 1 .. i - 1 : j \in 1 .. i
      OBVIOUS
    <3>3. QED
      BY <2>1, <2>2, <3>1, <3>2 DEF Seen
  <2>4. seen \subseteq all
    <3>1. \A j \in 1 .. i - 1 : j \in 1 .. top
      OBVIOUS
    <3>2. QED
      BY <1>6, <1>7, <2>2, <3>1 DEF Seen
  <2>5. n \in Nat /\ i \in DOMAIN Body(n)
    BY <1>3, <1>4
  <2>6. \A m \in n + 1 .. head : \A j \in DOMAIN Body(m) : Body(m)[j] # t
    <3>1. SUFFICES ASSUME NEW m \in n + 1 .. head, NEW j \in DOMAIN Body(m), Body(m)[j] = t
                   PROVE  FALSE
      OBVIOUS
    <3>2. m \in 0 .. head /\ n < m
      BY <1>5, <2>5
    <3>3. NonceOf[Body(n)[i]] < NonceOf[Body(m)[j]]
      BY <2>1, <2>5, <3>1, <3>2, BodiesOrdered
    <3>4. NonceOf[t] \in Nat
      BY <1>2, RpcAssumption
    <3>5. QED
      BY <2>1, <3>1, <3>3, <3>4
  <2>7. \A j \in 1 .. i - 1 : Body(n)[j] # t
    <3>1. \A j \in 1 .. i - 1 : j \in DOMAIN Body(n) /\ j # i
      BY <1>3, <1>4
    <3>2. QED
      BY <2>1, <2>5, <3>1, BodiesOrdered
  <2>8. t \notin seen
    <3>1. t \notin Above(n)
      BY <1>5, <2>6 DEF Above, Gathered, Parts
    <3>2. QED
      BY <2>2, <2>7, <3>1 DEF Seen
  <2>9. ASSUME NEW u \in all, SenderOf[u] = SenderOf[t], NonceOf[u] > NonceOf[t]
        PROVE  u \in seen
    <3>1. PICK m \in 0 .. head : u \in Parts[m]
      BY <1>2 DEF Gathered
    <3>2. PICK j \in DOMAIN Body(m) : u = Body(m)[j]
      BY <3>1 DEF Parts
    <3>3. NonceOf[u] \in Nat /\ NonceOf[t] \in Nat
      BY <1>2, RpcAssumption
    <3>4. ~ m < n
      <4>1. m < n => NonceOf[u] < NonceOf[t]
        BY <2>1, <2>5, <2>9, <3>2, BodiesOrdered
      <4>2. QED
        BY <2>9, <3>3, <4>1
    <3>5. m # n
      <4>1. m = n => j = i
        BY <2>1, <2>5, <2>9, <3>2, BodiesOrdered
      <4>2. QED
        BY <2>1, <2>9, <3>2, <3>3, <4>1
    <3>6. m \in n + 1 .. head
      BY <1>3, <2>5, <3>4, <3>5
    <3>7. QED
      BY <2>2, <3>1, <3>6 DEF Seen, Above, Gathered
  <2>10. PICK list : list = run[i - 1]
    OBVIOUS
  <2>11. run[i] = IF Len(list) < limit /\ Involves(t, a) THEN Append(list, t) ELSE list
    BY <1>4, <1>9, <2>1, <2>10 DEF Pushing
  <2>12. Listing(list, seen, all, nonce, a, limit)
    BY <1>10, <2>2, <2>10
  <2>13. PICK used \in [Accounts -> Nat] : used = nonce
    BY <1>2
  <2>14. /\ Executed(all, used) /\ seen \in SUBSET all /\ t \notin seen
         /\ \A u \in all : SenderOf[u] = SenderOf[t] /\ NonceOf[u] > NonceOf[t] => u \in seen
         /\ Listing(list, seen, all, used, a, limit)
    BY <1>2, <2>4, <2>8, <2>9, <2>12, <2>13
  <2>15. Listing(IF Len(list) < limit /\ Involves(t, a) THEN Append(list, t) ELSE list,
                 seen \cup {t}, all, used, a, limit)
    BY <2>14, ListingStep
  <2>16. QED
    BY <2>3, <2>11, <2>13, <2>15
<1>11. Right(0)
  <2>1. Seen(n, 0) = Above(n)
    BY DEF Seen
  <2>2. QED
    BY <1>1, <1>9, <2>1 DEF Pushing
<1>12. Right(top)
  <2>1. SUFFICES ASSUME Wrong # {} PROVE FALSE
    OBVIOUS
  <2>2. PICK i \in Wrong : \A j \in Wrong : i <= j
    <3>1. Wrong \subseteq Nat
      OBVIOUS
    <3> HIDE DEF Wrong
    <3>2. QED
      BY <2>1, <3>1, LeastOfNaturals
  <2> HIDE DEF Right
  <2>3. i \in 1 .. top /\ i - 1 \in 0 .. top /\ ~ i <= i - 1
    BY <1>11
  <2>4. Right(i - 1)
    BY <2>2, <2>3
  <2>5. QED
    BY <1>10, <2>3, <2>4
<1>13. Seen(n, top) = Above(n - 1)
  <2>1. n \in Nat
    BY <1>3
  <2>2. n - 1 + 1 .. head = {n} \cup (n + 1 .. head)
    BY <1>3, <2>1
  <2>3. Parts[n] = {Body(n)[j] : j \in 1 .. top}
    BY <1>3, <1>4 DEF Parts
  <2>4. QED
    BY <2>2, <2>3 DEF Seen, Above, Gathered
<1>14. QED
  BY <1>1, <1>9, <1>12, <1>13

LEMMA ListedTyped ==
  ASSUME NEW n, Body(n) \in Seq(Txs), NEW got \in Seq(Txs), NEW a, NEW limit \in Nat
  PROVE  Listed(got, n, a, limit) \in Seq(Txs)
<1>1. PICK run : /\ Pushing(run, got, n, a, limit)
                 /\ Listed(got, n, a, limit) = run[Len(Body(n))]
  BY ListedRuns
<1>2. Len(Body(n)) \in 0 .. Len(Body(n))
  OBVIOUS
<1>3. QED
  BY <1>1, <1>2, PushingTyped

(* The loop over the blocks, the head first.                               *)
Gathering(run, a, limit) ==
  /\ run[0] = << >>
  /\ \A k \in 1 .. head + 1 : run[k] = Listed(run[k - 1], head + 1 - k, a, limit)

LEMMA AddressRuns ==
  ASSUME ChainTyped, HistoryInv, making = "asleep", NEW a, NEW limit \in Nat
  PROVE  \E run : Gathering(run, a, limit) /\ AddressTransactions(a, limit) = run[head + 1]
<1>1. head \in Nat /\ \A n \in 0 .. head : Body(n) \in Seq(Txs)
  BY BodiesOrdered
<1>2. PICK top \in Nat : top = head + 1
  BY <1>1
<1> DEFINE step(h) == [k \in 0 .. top |->
             IF k = 0 THEN << >> ELSE Listed(h[k - 1], Numbers[k], a, limit)]
           op == [k \in 1 .. top |-> [v \in Seq(Txs) |-> Listed(v, Numbers[k], a, limit)]]
           run == CHOOSE h : h = step(h)
<1>3. Len(Numbers) = top /\ \A k \in 1 .. top : Numbers[k] = head + 1 - k
  BY <1>1, <1>2 DEF Numbers
<1>4. AddressTransactions(a, limit) = run[top]
  BY <1>3 DEF AddressTransactions
<1>5. \A k \in 1 .. top : Numbers[k] \in 0 .. head
  BY <1>1, <1>2, <1>3
<1>6. op \in [1 .. top -> [Seq(Txs) -> Seq(Txs)]]
  <2>1. ASSUME NEW k \in 1 .. top, NEW v \in Seq(Txs)
        PROVE  Listed(v, Numbers[k], a, limit) \in Seq(Txs)
    BY <1>1, <1>5, ListedTyped
  <2>2. QED
    BY <2>1
<1> HIDE DEF op
<1>7. << >> \in Seq(Txs)
  OBVIOUS
<1>8. PICK f \in [0 .. top -> Seq(Txs)] : Runs(f, top, << >>, op)
  BY <1>6, <1>7, RunExists
<1>9. ASSUME NEW k \in 0 .. top PROVE f[k] = step(f)[k]
  <2>1. CASE k = 0
    BY <1>8, <2>1 DEF Runs
  <2>2. CASE k # 0
    <3>1. k \in 1 .. top /\ k - 1 \in 0 .. top
      BY <2>2
    <3>2. f[k] = op[k][f[k - 1]] /\ f[k - 1] \in Seq(Txs)
      BY <1>8, <3>1 DEF Runs
    <3>3. QED
      BY <2>2, <3>1, <3>2 DEF op
  <2>3. QED
    BY <2>1, <2>2
<1>10. f = step(f)
  BY <1>9
<1>11. run = step(run)
  BY <1>10
<1> HIDE DEF run
<1>12. Gathering(run, a, limit)
  <2>1. 0 \in 0 .. top /\ \A k \in 1 .. top : k \in 0 .. top /\ k # 0
    OBVIOUS
  <2>2. run[0] = << >>
    BY <1>11, <2>1
  <2>3. ASSUME NEW k \in 1 .. top
        PROVE  run[k] = Listed(run[k - 1], Numbers[k], a, limit)
    BY <1>11, <2>1
  <2>4. QED
    BY <1>2, <1>3, <2>2, <2>3 DEF Gathering
<1>13. QED
  BY <1>2, <1>4, <1>12

(* All blocks are gone through, down to the genesis block.                 *)
LEMMA AddressListing ==
  ASSUME ChainTyped, HistoryInv, making = "asleep", NEW a \in Accounts, NEW limit \in Nat
  PROVE  Listing(AddressTransactions(a, limit), DOMAIN receipts, DOMAIN receipts,
                 nonce, a, limit)
<1>1. head \in Nat
  BY BodiesOrdered
<1>2. PICK run : Gathering(run, a, limit) /\ AddressTransactions(a, limit) = run[head + 1]
  BY AddressRuns
<1>3. PICK all : all = DOMAIN receipts
  OBVIOUS
<1> DEFINE Right(k) == Listing(run[k], Above(head - k), all, nonce, a, limit)
           Wrong == {k \in 0 .. head + 1 : ~ Right(k)}
<1>4. ASSUME NEW k \in 1 .. head + 1, Right(k - 1)
      PROVE  Right(k)
  <2>1. PICK n \in 0 .. head : n = head + 1 - k
    BY <1>1
  <2>2. head - (k - 1) = n /\ head - k = n - 1
    BY <1>1, <2>1
  <2>3. run[k] = Listed(run[k - 1], n, a, limit)
    BY <1>2, <2>1 DEF Gathering
  <2>4. PICK got : got = run[k - 1]
    OBVIOUS
  <2>5. Listing(got, Above(n), DOMAIN receipts, nonce, a, limit)
    BY <1>3, <1>4, <2>2, <2>4
  <2>6. Listing(Listed(got, n, a, limit), Above(n - 1), DOMAIN receipts, nonce, a, limit)
    BY <2>5, BlockListing
  <2>7. QED
    BY <1>3, <2>2, <2>3, <2>4, <2>6
<1>5. Right(0)
  <2>1. Above(head - 0) = {}
    BY <1>1 DEF Above, Gathered
  <2>2. run[0] = << >>
    BY <1>2 DEF Gathering
  <2>3. Executed(all, nonce) /\ nonce[a] \in Nat /\ \A u \in all : NonceOf[u] \in Nat
    <3>1. Executed(all, nonce)
      BY <1>3, ReceiptsAreExecuted
    <3>2. QED
      BY <3>1, RpcAssumption DEF ChainTyped, Executed
  <2>4. Count(<< >>, 0, a) = 0
    BY FS_EmptySet DEF Count, SentIn
  <2>5. \A u \in all : SenderOf[u] = a => ~ NonceOf[u] >= nonce[a] - 0
    BY <2>3 DEF Executed
  <2>6. Listing(<< >>, {}, all, nonce, a, limit)
    BY <2>3, <2>4, <2>5 DEF Listing
  <2>7. QED
    BY <2>1, <2>2, <2>6
<1>6. Right(head + 1)
  <2>1. SUFFICES ASSUME Wrong # {} PROVE FALSE
    <3>1. head + 1 \in 0 .. head + 1
      BY <1>1
    <3>2. QED
      BY <3>1
  <2>2. PICK k \in Wrong : \A j \in Wrong : k <= j
    <3>1. Wrong \subseteq Nat
      OBVIOUS
    <3> HIDE DEF Wrong
    <3>2. QED
      BY <2>1, <3>1, LeastOfNaturals
  <2> HIDE DEF Right
  <2>3. k \in 1 .. head + 1 /\ k - 1 \in 0 .. head + 1 /\ ~ k <= k - 1
    BY <1>1, <1>5
  <2>4. Right(k - 1)
    BY <2>2, <2>3
  <2>5. QED
    BY <1>4, <2>3, <2>4
<1>7. Above(head - (head + 1)) = all
  <2>1. head - (head + 1) + 1 = 0
    BY <1>1
  <2>2. QED
    BY <1>3, <2>1, ReceiptsAreBodies DEF Above
<1>8. QED
  BY <1>2, <1>3, <1>6, <1>7

(* Between two productions the reads agree with each other and with the    *)
(* state, whatever was executed: of what an account sent they list the last*)
(* ones without a gap, and all of them unless the limit cuts them off.     *)
THEOREM ReadsAlwaysAgree == Spec => []ReadsAgree
<1>1. TypeOK /\ HistoryInv => ReadsAgree
  <2> SUFFICES ASSUME TypeOK, HistoryInv, making = "asleep"
               PROVE  /\ TotalTransactions = Cardinality(DOMAIN receipts)
                      /\ \A t \in DOMAIN receipts : Located(t) = t
                      /\ \A a \in Accounts, limit \in 0 .. Cardinality(DOMAIN receipts) + 1 :
                           LET list == AddressTransactions(a, limit) IN
                           /\ \A i \in DOMAIN list : SenderOf[list[i]] = a =>
                                NonceOf[list[i]] = nonce[a] - Cardinality(SentIn(list, i, a))
                           /\ limit >= Cardinality(DOMAIN receipts) =>
                                Cardinality(SentIn(list, Len(list), a)) = nonce[a]
    BY DEF ReadsAgree
  <2>1. ChainTyped
    BY DEF TypeOK, ChainTyped
  <2>2. PICK all : all = DOMAIN receipts
    OBVIOUS
  <2>3. Executed(all, nonce) /\ nonce \in [Accounts -> Nat]
    BY <2>1, <2>2, ReceiptsAreExecuted DEF ChainTyped
  <2>4. ASSUME NEW a \in Accounts, NEW limit \in 0 .. Cardinality(DOMAIN receipts) + 1,
               NEW list, list = AddressTransactions(a, limit)
        PROVE  /\ \A i \in DOMAIN list : SenderOf[list[i]] = a =>
                    NonceOf[list[i]] = nonce[a] - Cardinality(SentIn(list, i, a))
               /\ limit >= Cardinality(DOMAIN receipts) =>
                    Cardinality(SentIn(list, Len(list), a)) = nonce[a]
    <3>1. limit \in Nat
      OBVIOUS
    <3>2. Listing(list, all, all, nonce, a, limit)
      BY <2>1, <2>2, <2>4, <3>1, AddressListing
    <3>3. all \subseteq Txs /\ list \in Seq(all) /\ DOMAIN list = 1 .. Len(list)
      BY <2>3, <3>2 DEF Executed, Listing
    <3>4. \A i \in DOMAIN list : SenderOf[list[i]] = a =>
            NonceOf[list[i]] = nonce[a] - Cardinality(SentIn(list, i, a))
      BY <3>2, <3>3 DEF Listing, Count
    <3>5. ASSUME limit >= Cardinality(DOMAIN receipts)
          PROVE  Cardinality(SentIn(list, Len(list), a)) = nonce[a]
      <4>1. PICK c : c = Count(list, Len(list), a)
        OBVIOUS
      <4>2. c \in Nat /\ nonce[a] \in Nat
        <5>1. list \in Seq(Txs) /\ Len(list) \in 0 .. Len(list)
          BY <3>3
        <5>2. QED
          BY <2>3, <4>1, <5>1, CountIs
      <4>3. /\ c <= nonce[a]
            /\ \A u \in all : SenderOf[u] = a => NonceOf[u] >= nonce[a] - c
        BY <2>2, <3>2, <3>5, <4>1 DEF Listing, Whole
      <4>4. ASSUME c < nonce[a] PROVE FALSE
        <5>1. PICK k \in 0 .. nonce[a] - 1 : k = nonce[a] - c - 1
          BY <4>2, <4>4
        <5>2. PICK u \in all : SenderOf[u] = a /\ NonceOf[u] = k
          BY <2>3 DEF Executed
        <5>3. QED
          BY <4>2, <4>3, <5>1, <5>2
      <4>5. QED
        BY <4>1, <4>2, <4>3, <4>4 DEF Count
    <3>6. QED
      BY <3>4, <3>5
  <2>5. QED
    BY <2>1, <2>4, PartsCount, ReceiptsAreBodies
<1>2. QED
  BY <1>1, RpcTypeCorrect, HistoryInvariant, PTL

-----------------------------------------------------------------------------
(* The rate limiter.                                                       *)

Ages == 0 .. TickRate - 1

(* What passed less than n ticks ago.                                      *)
Lately(n) == SumOf(passed, {k \in Ages : k < n})

(* The requests of the window that is open.                                *)
Counted(e) == IF e.count <= Limit THEN e.count ELSE Limit

(* A window was opened at most MaxDelay after it began, and the one before *)
(* it began TickRate earlier: what passed since then belongs to the last   *)
(* one, to the last two, or to the last three.                             *)
Fits(e) ==
  /\ Lately(e.age - MaxDelay) <= Counted(e)
  /\ Lately(e.age + TickRate - MaxDelay) <= Counted(e) + Limit
  /\ Lately(TickRate) <= Counted(e) + 2 * Limit

Entries == [count : 0 .. Limit + 1, age : 0 .. OldestStart]

LimitInv ==
  /\ passed \in [Ages -> Nat]
  /\ \A h \in DOMAIN asked : asked[h] \in 0 .. MaxDelay
  /\ \/ entry = {} /\ \A k \in Ages : passed[k] = 0
     \/ \E e \in Entries : entry = {e} /\ Fits(e)

LEMMA LesserOfTwo ==
  ASSUME NEW m \in Int, NEW n \in Int
  PROVE  /\ Min({m, n}) = IF m <= n THEN m ELSE n
         /\ Max({m, n}) = IF m >= n THEN m ELSE n
<1> DEFINE low == IF m <= n THEN m ELSE n
           high == IF m >= n THEN m ELSE n
<1>1. \A x \in {m, n} : (\A y \in {m, n} : x <= y) <=> x = low
  OBVIOUS
<1>2. \A x \in {m, n} : (\A y \in {m, n} : x >= y) <=> x = high
  OBVIOUS
<1>3. low \in {m, n} /\ high \in {m, n}
  OBVIOUS
<1> HIDE DEF low, high
<1>4. QED
  BY <1>1, <1>2, <1>3 DEF Min, Max, low, high

(* How much passed lately, in steps of a tick.                             *)
LEMMA LatelySteps ==
  ASSUME NEW f \in [Ages -> Nat]
  PROVE  LET Within(n) == SumOf(f, {k \in Ages : k < n})
         IN  /\ \A n \in Int : Within(n) \in Nat
             /\ \A n \in Int : n <= 0 => Within(n) = 0
             /\ \A n \in Ages : Within(n + 1) = f[n] + Within(n)
             /\ \A m, n \in Int : m <= n => Within(m) <= Within(n)
             /\ \A n \in Int : Within(n) <= Within(TickRate)
             /\ \A n \in Int : n >= TickRate => Within(n) = Within(TickRate)
<1> DEFINE Part(n) == {k \in Ages : k < n}
<1>1. TickRate \in Nat
  BY RateLimiterAssumption
<1>2. IsFiniteSet(Ages)
  BY <1>1, FS_Interval DEF Ages
<1>3. \A n \in Int : Part(n) \in SUBSET Ages
  OBVIOUS
<1>4. /\ \A n \in Int : n <= 0 => Part(n) = {}
      /\ \A n \in Ages : n \in Part(n + 1) /\ Part(n + 1) \ {n} = Part(n)
      /\ \A m, n \in Int : m <= n => Part(m) \in SUBSET Part(n)
      /\ \A n \in Int : Part(n) \in SUBSET Part(TickRate)
      /\ \A n \in Int : n >= TickRate => Part(n) = Part(TickRate)
  BY <1>1 DEF Ages
<1>5. \A n \in Ages : n \in Int /\ n + 1 \in Int
  BY DEF Ages
<1> HIDE DEF Part
<1>6. /\ SumOf(f, {}) = 0
      /\ \A R \in SUBSET Ages : SumOf(f, R) \in Nat
      /\ \A R \in SUBSET Ages : \A x \in R : SumOf(f, R) = f[x] + SumOf(f, R \ {x})
      /\ \A R \in SUBSET Ages : \A Q \in SUBSET R : SumOf(f, Q) <= SumOf(f, R)
  BY <1>2, SumOfSteps
<1>7. /\ \A n \in Int : SumOf(f, Part(n)) \in Nat
      /\ \A n \in Int : n <= 0 => SumOf(f, Part(n)) = 0
      /\ \A m, n \in Int : m <= n => SumOf(f, Part(m)) <= SumOf(f, Part(n))
      /\ \A n \in Int : SumOf(f, Part(n)) <= SumOf(f, Part(TickRate))
      /\ \A n \in Int : n >= TickRate => SumOf(f, Part(n)) = SumOf(f, Part(TickRate))
  BY <1>1, <1>3, <1>4, <1>6
<1>8. ASSUME NEW n \in Ages
      PROVE  SumOf(f, Part(n + 1)) = f[n] + SumOf(f, Part(n))
  <2>1. Part(n + 1) \in SUBSET Ages /\ n \in Part(n + 1) /\ Part(n + 1) \ {n} = Part(n)
    BY <1>3, <1>4, <1>5
  <2>2. SumOf(f, Part(n + 1)) = f[n] + SumOf(f, Part(n + 1) \ {n})
    BY <1>6, <2>1
  <2>3. QED
    BY <2>1, <2>2
<1>9. QED
  BY <1>7, <1>8 DEF Part

(* A request that passes now adds one to what passed lately.               *)
LEMMA OneMore ==
  ASSUME NEW f \in [Ages -> Nat], NEW h \in [Ages -> Nat],
         h[0] = f[0] + 1, \A k \in Ages \ {0} : h[k] = f[k],
         NEW n \in Int
  PROVE  SumOf(h, {k \in Ages : k < n}) <= SumOf(f, {k \in Ages : k < n}) + 1
<1> DEFINE Part == {k \in Ages : k < n}
<1>1. IsFiniteSet(Ages) /\ 0 \in Ages
  BY RateLimiterAssumption, FS_Interval DEF Ages
<1>2. Part \in SUBSET Ages
  OBVIOUS
<1> HIDE DEF Part
<1>3. CASE 0 \in Part
  <2>1. Part \ {0} \in SUBSET Ages /\ \A k \in Part \ {0} : h[k] = f[k]
    BY <1>2
  <2>2. SumOf(h, Part \ {0}) = SumOf(f, Part \ {0})
    BY <1>1, <2>1, SumOfSame
  <2>3. SumOf(h, Part) = h[0] + SumOf(h, Part \ {0})
    BY <1>1, <1>2, <1>3, SumOfSteps
  <2>4. SumOf(f, Part) = f[0] + SumOf(f, Part \ {0})
    BY <1>1, <1>2, <1>3, SumOfSteps
  <2>5. SumOf(f, Part \ {0}) \in Nat /\ f[0] \in Nat
    BY <1>1, <2>1, SumOfSteps
  <2>6. QED
    BY <2>2, <2>3, <2>4, <2>5 DEF Part
<1>4. CASE 0 \notin Part
  <2>1. \A k \in Part : h[k] = f[k]
    BY <1>2, <1>4
  <2>2. SumOf(h, Part) = SumOf(f, Part)
    BY <1>1, <1>2, <2>1, SumOfSame
  <2>3. SumOf(f, Part) \in Nat
    BY <1>1, <1>2, SumOfSteps
  <2>4. QED
    BY <2>2, <2>3 DEF Part
<1>5. QED
  BY <1>3, <1>4

LEMMA NothingLately ==
  ASSUME NEW f \in [Ages -> Nat], \A k \in Ages : f[k] = 0, NEW n \in Int
  PROVE  SumOf(f, {k \in Ages : k < n}) = 0
<1> DEFINE Part == {k \in Ages : k < n}
           zero == [s \in SUBSET Part |-> 0]
<1>1. IsFiniteSet(Ages)
  BY RateLimiterAssumption, FS_Interval DEF Ages
<1>2. PICK g : Sums(g, Ages, f) /\ \A R \in SUBSET Ages : SumOf(f, R) = g[R]
  BY <1>1, SumOfParts
<1>3. Part \in SUBSET Ages
  OBVIOUS
<1> HIDE DEF Part
<1>4. Sums(zero, Part, f)
  BY <1>3 DEF Sums
<1>5. IsFiniteSet(Part)
  BY <1>1, <1>3, FS_Subset
<1> HIDE DEF zero
<1>6. g[Part] = zero[Part]
  BY <1>2, <1>3, <1>4, <1>5, SumUnique
<1>7. zero[Part] = 0
  BY DEF zero
<1>8. QED
  BY <1>2, <1>3, <1>6, <1>7 DEF Part

(* A tick makes all that passed one older, and forgets the oldest.         *)
LEMMA OneOlder ==
  ASSUME NEW f \in [Ages -> Nat], NEW h \in [Ages -> Nat],
         \A k \in Ages : h[k] = IF k = 0 THEN 0 ELSE f[k - 1], NEW n \in Int
  PROVE  SumOf(h, {k \in Ages : k < n + 1}) <= SumOf(f, {k \in Ages : k < n})
<1> DEFINE Within(g, m) == SumOf(g, {k \in Ages : k < m})
           Wrong == {m \in 0 .. TickRate - 1 : Within(h, m + 1) # Within(f, m)}
<1>1. TickRate \in Nat \ {0}
  BY RateLimiterAssumption
<1>2. /\ \A m \in Int : Within(f, m) \in Nat
      /\ \A m \in Int : m <= 0 => Within(f, m) = 0
      /\ \A m \in Ages : Within(f, m + 1) = f[m] + Within(f, m)
      /\ \A l, m \in Int : l <= m => Within(f, l) <= Within(f, m)
  BY LatelySteps
<1>3. /\ \A m \in Int : Within(h, m) \in Nat
      /\ \A m \in Int : m <= 0 => Within(h, m) = 0
      /\ \A m \in Ages : Within(h, m + 1) = h[m] + Within(h, m)
      /\ \A m \in Int : Within(h, m) <= Within(h, TickRate)
  BY LatelySteps
<1> HIDE DEF Within
<1>4. Wrong = {}
  <2>1. SUFFICES ASSUME Wrong # {} PROVE FALSE
    OBVIOUS
  <2>2. PICK m \in Wrong : \A l \in Wrong : m <= l
    <3>1. Wrong \subseteq Nat
      BY <1>1
    <3>2. QED
      BY <2>1, <3>1, LeastOfNaturals
  <2>3. m \in Ages /\ m \in Nat /\ Within(h, m + 1) # Within(f, m)
    BY <1>1, <2>2 DEF Ages
  <2>4. CASE m = 0
    <3>1. h[0] = 0 /\ Within(h, 0) = 0 /\ Within(f, 0) = 0 /\ 0 + 1 = 1
      BY <1>2, <1>3, <2>3, <2>4
    <3>2. Within(h, 0 + 1) = h[0] + Within(h, 0)
      BY <1>3, <2>3, <2>4
    <3>3. QED
      BY <2>3, <2>4, <3>1, <3>2
  <2>5. CASE m # 0
    <3>0. /\ m - 1 \in Nat /\ m - 1 \in 0 .. TickRate - 1 /\ (m - 1) + 1 = m
          /\ ~ m <= m - 1
      BY <1>1, <2>3, <2>5 DEF Ages
    <3> HIDE DEF Wrong
    <3>1. m - 1 \in Ages /\ m - 1 \notin Wrong
      BY <2>2, <3>0 DEF Ages
    <3> USE DEF Wrong
    <3>2. m - 1 \in 0 .. TickRate - 1 /\ (m - 1) + 1 = m
      BY <3>0
    <3>3. Within(h, m) = Within(f, m - 1)
      BY <3>1, <3>2
    <3>4. Within(h, m + 1) = h[m] + Within(h, m) /\ h[m] = f[m - 1]
      BY <1>3, <2>3, <2>5
    <3>5. Within(f, m) = f[m - 1] + Within(f, m - 1)
      BY <1>2, <3>1
    <3>6. QED
      BY <2>3, <3>3, <3>4, <3>5
  <2>6. QED
    BY <2>4, <2>5
<1>5. CASE n < 0
  <2>1. n + 1 <= 0 /\ n + 1 \in Int
    BY <1>5
  <2>2. QED
    BY <1>2, <1>3, <2>1 DEF Within
<1>6. CASE n \in 0 .. TickRate - 1
  <2>1. Within(h, n + 1) = Within(f, n) /\ Within(f, n) \in Nat
    BY <1>2, <1>4, <1>6
  <2>2. QED
    BY <2>1 DEF Within
<1>7. CASE n >= TickRate
  <2>1. TickRate - 1 \in 0 .. TickRate - 1 /\ (TickRate - 1) + 1 = TickRate
        /\ TickRate - 1 <= n /\ TickRate - 1 \in Int /\ n + 1 \in Int
    BY <1>1, <1>7
  <2>2. Within(h, TickRate) = Within(f, TickRate - 1)
    BY <1>4, <2>1
  <2>3. Within(h, n + 1) <= Within(h, TickRate) /\ Within(f, TickRate - 1) <= Within(f, n)
    BY <1>2, <1>3, <2>1
  <2>4. /\ Within(h, n + 1) \in Nat /\ Within(h, TickRate) \in Nat /\ Within(f, n) \in Nat
    BY <1>1, <1>2, <1>3, <2>1
  <2>5. QED
    BY <2>2, <2>3, <2>4 DEF Within
<1>8. QED
  BY <1>1, <1>5, <1>6, <1>7

(* The window that a request finds, or opens, has room for what passed.    *)
LEMMA WindowFits ==
  ASSUME LimitInv, NEW d \in 0 .. MaxDelay,
         NEW e \in IF entry = {} THEN {New(d)} ELSE entry
  PROVE  Window(e, d) \in Entries /\ Fits(Window(e, d))
<1> USE RateLimiterAssumption
<1>1. /\ TickRate \in Nat \ {0} /\ Limit \in Nat \ {0} /\ MaxDelay \in Nat
      /\ MaxDelay <= TickRate /\ d \in Nat /\ d <= MaxDelay
  OBVIOUS
<1>2. /\ \A n \in Int : Lately(n) \in Nat
      /\ \A n \in Int : n <= 0 => Lately(n) = 0
      /\ \A m, n \in Int : m <= n => Lately(m) <= Lately(n)
      /\ \A n \in Int : n >= TickRate => Lately(n) = Lately(TickRate)
  BY LatelySteps DEF LimitInv, Lately
<1>3. New(d) \in Entries /\ New(d).count = 0 /\ New(d).age = d /\ Counted(New(d)) = 0
  BY <1>1 DEF New, Entries, OldestStart, Counted
<1>4. CASE entry = {}
  <2>1. e = New(d)
    BY <1>4
  <2>2. Max({d - d, 0}) = 0
    BY <1>1, LesserOfTwo
  <2>3. Window(e, d) = New(d)
    BY <2>1 DEF Window
  <2>4. \A n \in Int : Lately(n) = 0
    BY <1>4, NothingLately DEF LimitInv, Lately
  <2>5. QED
    BY <1>1, <1>3, <2>3, <2>4 DEF Fits
<1>5. CASE entry # {}
  <2>1. e \in Entries /\ Fits(e)
    BY <1>5 DEF LimitInv
  <2>2. /\ e.age \in Nat /\ Counted(e) \in Nat /\ Counted(e) <= Limit
    BY <1>1, <2>1 DEF Entries, Counted
  <2>3. Elapsed(e, d) = IF e.age - d >= 0 THEN e.age - d ELSE 0
    <3>1. e.age - d \in Int /\ 0 \in Int
      BY <1>1, <2>2
    <3>2. Max({e.age - d, 0}) = IF e.age - d >= 0 THEN e.age - d ELSE 0
      BY <3>1, LesserOfTwo
    <3>3. QED
      BY <3>2 DEF Elapsed
  <2>4. CASE Elapsed(e, d) >= TickRate
    <3>1. e.age - d >= TickRate
      BY <1>1, <2>2, <2>3, <2>4
    <3>2. Window(e, d) = New(d)
      BY <2>4 DEF Window
    <3>3. Lately(d - MaxDelay) = 0
      BY <1>1, <1>2
    <3>4. Lately(d + TickRate - MaxDelay) <= Limit
      <4>1. Lately(d + TickRate - MaxDelay) <= Lately(e.age - MaxDelay)
        BY <1>1, <1>2, <2>2, <3>1
      <4>2. /\ Lately(d + TickRate - MaxDelay) \in Nat /\ Lately(e.age - MaxDelay) \in Nat
            /\ Lately(e.age - MaxDelay) <= Counted(e)
        BY <1>1, <1>2, <2>1, <2>2 DEF Fits
      <4>3. QED
        BY <1>1, <2>2, <4>1, <4>2
    <3>5. Lately(TickRate) <= 2 * Limit
      <4>1. Lately(e.age + TickRate - MaxDelay) = Lately(TickRate)
        BY <1>1, <1>2, <2>2, <3>1
      <4>2. Lately(TickRate) <= Counted(e) + Limit /\ Lately(TickRate) \in Nat
        BY <1>1, <1>2, <2>1, <4>1 DEF Fits
      <4>3. QED
        BY <1>1, <2>2, <4>2
    <3>6. QED
      BY <1>1, <1>3, <3>2, <3>3, <3>4, <3>5 DEF Fits
  <2>5. CASE ~ Elapsed(e, d) >= TickRate
    BY <2>1, <2>5 DEF Window
  <2>6. QED
    BY <2>4, <2>5
<1>6. QED
  BY <1>4, <1>5

(* A request that passes is counted, one that is refused is not.           *)
LEMMA AdmitFits ==
  ASSUME passed \in [Ages -> Nat], NEW w \in Entries, Fits(w),
         passed' = IF w.count + 1 <= Limit THEN [passed EXCEPT ![0] = @ + 1] ELSE passed,
         NEW m, m = [w EXCEPT !.count = Min({w.count + 1, Limit + 1})]
  PROVE  m \in Entries /\ passed' \in [Ages -> Nat] /\ Fits(m)'
<1> USE RateLimiterAssumption
<1>1. /\ TickRate \in Nat \ {0} /\ Limit \in Nat \ {0} /\ MaxDelay \in Nat
      /\ w.count \in Nat /\ w.count <= Limit + 1 /\ w.age \in Nat
  BY DEF Entries
<1> DEFINE c == IF w.count + 1 <= Limit + 1 THEN w.count + 1 ELSE Limit + 1
<1>2. Min({w.count + 1, Limit + 1}) = c
  BY <1>1, LesserOfTwo
<1>3. c \in 0 .. Limit + 1
  BY <1>1
<1>4. m \in Entries /\ m.age = w.age /\ m.count = c
  BY <1>2, <1>3 DEF Entries
<1>5. CASE w.count + 1 <= Limit
  <2>1. Counted(m) = Counted(w) + 1 /\ Counted(w) \in Nat
    BY <1>1, <1>4, <1>5 DEF Counted
  <2>2. /\ passed' \in [Ages -> Nat] /\ passed'[0] = passed[0] + 1
        /\ \A k \in Ages \ {0} : passed'[k] = passed[k]
    <3>1. 0 \in Ages
      BY <1>1 DEF Ages
    <3>2. passed' = [passed EXCEPT ![0] = passed[0] + 1] /\ passed[0] \in Nat
      BY <1>5, <3>1
    <3>3. QED
      BY <3>1, <3>2
  <2>3. \A n \in Int : /\ Lately(n)' <= Lately(n) + 1
                       /\ Lately(n)' \in Nat /\ Lately(n) \in Nat
    BY <2>2, OneMore, LatelySteps DEF Lately
  <2>4. QED
    BY <1>1, <1>4, <2>1, <2>2, <2>3 DEF Fits, Counted
<1>6. CASE ~ w.count + 1 <= Limit
  <2>1. passed' = passed /\ Counted(m) = Counted(w)
    BY <1>1, <1>4, <1>6 DEF Counted
  <2>2. \A n \in Int : Lately(n)' = Lately(n)
    BY <2>1 DEF Lately
  <2>3. QED
    BY <1>1, <1>4, <2>1, <2>2 DEF Fits, Counted
<1>7. QED
  BY <1>5, <1>6

LEMMA AdmitKeeps ==
  ASSUME LimitInv, NEW h \in Handlers, Admit(h)
  PROVE  LimitInv'
<1>1. asked[h] \in 0 .. MaxDelay
  BY DEF Admit, LimitInv
<1>2. PICK e \in IF entry = {} THEN {New(asked[h])} ELSE entry :
        LET w == Window(e, asked[h]) IN
        /\ asked' = Restrict(asked, DOMAIN asked \ {h})
        /\ entry' = {[w EXCEPT !.count = Min({@ + 1, Limit + 1})]}
        /\ passed' = IF w.count + 1 <= Limit THEN [passed EXCEPT ![0] = @ + 1] ELSE passed
  BY DEF Admit
<1>3. PICK w : w = Window(e, asked[h])
  OBVIOUS
<1>4. PICK m : m = [w EXCEPT !.count = Min({w.count + 1, Limit + 1})]
  OBVIOUS
<1>5. w \in Entries /\ Fits(w)
  BY <1>1, <1>3, WindowFits
<1>6. entry' = {m}
  BY <1>2, <1>3, <1>4
<1>7. passed' = IF w.count + 1 <= Limit THEN [passed EXCEPT ![0] = @ + 1] ELSE passed
  BY <1>2, <1>3
<1>8. m \in Entries /\ passed' \in [Ages -> Nat] /\ Fits(m)'
  BY <1>5, <1>7, <1>4, AdmitFits DEF LimitInv
<1>9. \A g \in DOMAIN asked' : asked'[g] \in 0 .. MaxDelay
  BY <1>2 DEF Restrict, LimitInv
<1>10. QED
  BY <1>6, <1>8, <1>9 DEF LimitInv

(* A tick makes the window and what passed older alike.                    *)
LEMMA TickKeeps ==
  ASSUME LimitInv, TickOver
  PROVE  LimitInv'
<1> USE RateLimiterAssumption
<1>1. /\ TickRate \in Nat \ {0} /\ Limit \in Nat \ {0} /\ MaxDelay \in Nat
      /\ MaxDelay <= TickRate
  OBVIOUS
<1>2. passed \in [Ages -> Nat] /\ DOMAIN passed = Ages
  BY DEF LimitInv
<1>3. passed' = [k \in Ages |-> IF k = 0 THEN 0 ELSE passed[k - 1]]
  BY <1>2 DEF TickOver
<1>4. /\ passed' \in [Ages -> Nat]
      /\ \A n \in Int : Lately(n + 1)' <= Lately(n)
  <2>1. passed' \in [Ages -> Nat]
    BY <1>1, <1>2, <1>3 DEF Ages
  <2>2. \A k \in Ages : passed'[k] = IF k = 0 THEN 0 ELSE passed[k - 1]
    BY <1>3
  <2>3. ASSUME NEW n \in Int PROVE Lately(n + 1)' <= Lately(n)
    BY <1>2, <2>1, <2>2, OneOlder DEF Lately
  <2>4. QED
    BY <2>1, <2>3
<1>5. \A g \in DOMAIN asked' : asked'[g] \in 0 .. MaxDelay
  BY <1>1 DEF TickOver, LimitInv
<1>6. CASE entry = {} /\ \A k \in Ages : passed[k] = 0
  <2>1. \A k \in Ages : passed'[k] = 0
    BY <1>1, <1>3, <1>6 DEF Ages
  <2>2. entry' = {}
    BY <1>6 DEF TickOver
  <2>3. QED
    BY <1>4, <1>5, <2>1, <2>2 DEF LimitInv
<1>7. ASSUME NEW e \in Entries, entry = {e}, Fits(e)
      PROVE  LimitInv'
  <2>a. PICK a : a = IF e.age + 1 <= OldestStart THEN e.age + 1 ELSE OldestStart
    OBVIOUS
  <2>m. PICK m : m = [e EXCEPT !.age = Older(e.age, OldestStart)]
    OBVIOUS
  <2>1. e.age \in Nat /\ e.age <= OldestStart /\ OldestStart = TickRate + MaxDelay
    BY <1>1, <1>7 DEF Entries, OldestStart
  <2>2. Older(e.age, OldestStart) = a /\ a \in 0 .. OldestStart
    BY <1>1, <2>1, <2>a, LesserOfTwo DEF Older
  <2>3. m \in Entries /\ m.age = a /\ m.count = e.count
    BY <1>7, <2>m, <2>2 DEF Entries
  <2>4. entry' = {m}
    BY <1>7, <2>m DEF TickOver
  <2>5. Counted(m) = Counted(e) /\ Counted(e) \in Nat
    BY <1>1, <1>7, <2>3 DEF Counted, Entries
  <2>6. /\ \A n \in Int : Lately(n)' \in Nat /\ Lately(n) \in Nat
        /\ \A n \in Int : Lately(n)' <= Lately(TickRate)'
        /\ \A n \in Int : n >= TickRate => Lately(n)' = Lately(TickRate)'
        /\ \A n \in Int : n >= TickRate => Lately(n) = Lately(TickRate)
    BY <1>2, <1>4, LatelySteps DEF Lately
  <2>7. Lately(TickRate)' <= Lately(TickRate)
    <3>1. Lately(TickRate + 1)' <= Lately(TickRate)
      BY <1>1, <1>4
    <3>2. Lately(TickRate + 1)' = Lately(TickRate)'
      BY <1>1, <2>6
    <3>3. QED
      BY <3>1, <3>2
  <2>8. /\ Lately(e.age - MaxDelay) <= Counted(e)
        /\ Lately(e.age + TickRate - MaxDelay) <= Counted(e) + Limit
        /\ Lately(TickRate) <= Counted(e) + 2 * Limit
    BY <1>7 DEF Fits
  <2>9. Fits(m)'
    <3>1. CASE e.age + 1 <= OldestStart
      <4>1. a = e.age + 1
        BY <2>a, <3>1
      <4>2. /\ a - MaxDelay = (e.age - MaxDelay) + 1 /\ e.age - MaxDelay \in Int
            /\ a + TickRate - MaxDelay = (e.age + TickRate - MaxDelay) + 1
            /\ e.age + TickRate - MaxDelay \in Int
        BY <1>1, <2>1, <4>1
      <4>3. /\ Lately(a - MaxDelay)' <= Lately(e.age - MaxDelay)
            /\ Lately(a + TickRate - MaxDelay)' <= Lately(e.age + TickRate - MaxDelay)
        BY <1>4, <4>2
      <4>4. Lately(a - MaxDelay)' <= Counted(m)
        BY <1>1, <2>1, <2>5, <2>6, <2>8, <4>2, <4>3
      <4>5. Lately(a + TickRate - MaxDelay)' <= Counted(m) + Limit
        BY <1>1, <2>1, <2>5, <2>6, <2>8, <4>2, <4>3
      <4>6. Lately(TickRate)' <= Counted(m) + 2 * Limit
        BY <1>1, <2>5, <2>6, <2>7, <2>8
      <4>7. QED
        BY <2>3, <4>4, <4>5, <4>6 DEF Fits, Counted
    <3>2. CASE ~ e.age + 1 <= OldestStart
      <4>1. a = TickRate + MaxDelay /\ e.age = TickRate + MaxDelay
        BY <1>1, <2>1, <2>a, <3>2
      <4>2. Lately(e.age - MaxDelay) = Lately(TickRate)
        BY <1>1, <2>6, <4>1
      <4>3. Lately(TickRate)' <= Counted(m)
        BY <1>1, <2>5, <2>6, <2>7, <2>8, <4>2
      <4>4. /\ Lately(a - MaxDelay)' <= Counted(m)
            /\ Lately(a + TickRate - MaxDelay)' <= Counted(m)
        <5>1. a - MaxDelay = TickRate /\ a + TickRate - MaxDelay = 2 * TickRate
          BY <1>1, <4>1
        <5>2. /\ Lately(TickRate)' = Lately(a - MaxDelay)'
              /\ Lately(2 * TickRate)' = Lately(TickRate)'
          BY <1>1, <2>6, <5>1
        <5>3. QED
          BY <4>3, <5>1, <5>2
      <4>5. /\ Lately(a + TickRate - MaxDelay)' \in Nat
            /\ Lately(TickRate)' \in Nat
        BY <1>1, <2>6, <4>1
      <4>6. /\ Lately(a + TickRate - MaxDelay)' <= Counted(m) + Limit
            /\ Lately(TickRate)' <= Counted(m) + 2 * Limit
        BY <1>1, <2>5, <4>3, <4>4, <4>5
      <4>7. QED
        BY <2>3, <4>4, <4>6 DEF Fits, Counted
    <3>3. QED
      BY <3>1, <3>2
  <2>10. QED
    BY <1>4, <1>5, <2>3, <2>4, <2>9 DEF LimitInv
<1>8. QED
  BY <1>6, <1>7 DEF LimitInv

THEOREM LimiterInvariant == LimiterInit /\ [][LimiterNext]_limiter => []LimitInv
<1>1. LimiterInit => LimitInv
  BY RateLimiterAssumption DEF LimiterInit, LimitInv, Ages
<1>2. LimitInv /\ [LimiterNext]_limiter => LimitInv'
  <2>1. ASSUME LimitInv, NEW h \in Handlers, ReadClock(h)
        PROVE  LimitInv'
    <3>1. \A g \in DOMAIN asked' : asked'[g] \in 0 .. MaxDelay
      BY <2>1, RateLimiterAssumption DEF ReadClock, LimitInv
    <3>2. QED
      BY <2>1, <3>1 DEF ReadClock, LimitInv, Fits, Lately
  <2>2. ASSUME LimitInv, UNCHANGED limiter
        PROVE  LimitInv'
    BY <2>2 DEF LimitInv, Fits, Lately, limiter
  <2>3. QED
    BY <2>1, <2>2, AdmitKeeps, TickKeeps DEF LimiterNext
<1>3. QED
  BY <1>1, <1>2, PTL

(* However the handlers of an address wait for the lock, no second sees    *)
(* more than three limits of requests pass (AtMostThreeLimits): for every  *)
(* limit, every resolution of the clock and every number of handlers, as   *)
(* long as none waits longer than a second.                                *)
THEOREM ThreeLimitsAtMost ==
  LimiterInit /\ [][LimiterNext]_limiter => []AtMostThreeLimits
<1>1. ASSUME LimitInv PROVE AtMostThreeLimits
  <2>1. /\ passed \in [Ages -> Nat] /\ DOMAIN passed = Ages
        /\ Limit \in Nat /\ TickRate \in Nat
    BY <1>1, RateLimiterAssumption DEF LimitInv
  <2>2. {k \in Ages : k < TickRate} = Ages
    BY <2>1 DEF Ages
  <2>3. Lately(TickRate) = SumOf(passed, DOMAIN passed)
    BY <2>1, <2>2 DEF Lately
  <2>4. Lately(TickRate) \in Nat /\ Lately(TickRate) <= 3 * Limit
    <3>1. Lately(TickRate) \in Nat
      BY <2>1, LatelySteps DEF Lately
    <3>2. CASE entry = {} /\ \A k \in Ages : passed[k] = 0
      BY <2>1, <3>2, NothingLately DEF Lately
    <3>3. ASSUME NEW e \in Entries, Fits(e)
          PROVE  Lately(TickRate) <= 3 * Limit
      <4>1. Counted(e) \in Nat /\ Counted(e) <= Limit
        BY <2>1, <3>3 DEF Entries, Counted
      <4>2. QED
        BY <2>1, <3>1, <3>3, <4>1 DEF Fits
    <3>4. QED
      BY <1>1, <3>1, <3>2, <3>3 DEF LimitInv
  <2>5. QED
    BY <2>3, <2>4 DEF AtMostThreeLimits, SumOf
<1>2. QED
  BY <1>1, LimiterInvariant, PTL

=============================================================================
