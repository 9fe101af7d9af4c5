------------------------------ MODULE Mempool ------------------------------
(***************************************************************************)
(* The in-memory pool of pending transactions, core/src/mempool.rs.        *)
(*                                                                         *)
(* A transaction stands for its hash.  The sender, the nonce and the fee   *)
(* it offers are functions of it, so by_sender is the set of the           *)
(* transactions it stores (`pool') and by_hash, whose values are read off  *)
(* the hash, is the set of its keys (`index').  Each operation holds its   *)
(* write locks from the first read to the last write and is one action     *)
(* here; MempoolLocks takes the locks apart.                               *)
(***************************************************************************)
EXTENDS Integers, FiniteSets, FiniteSetsExt

CONSTANTS
  Txs,          \* transactions, each standing for its hash
  Senders,      \* account addresses
  SenderOf,     \* tx -> the recovered sender
  NonceOf,      \* tx -> its nonce
  PriceOf,      \* tx -> its gas price
  GasOf,        \* tx -> its gas limit
  MaxSize,      \* max_size, the capacity of the pool
  MaxNonceGap   \* MAX_NONCE_GAP

ASSUME MempoolAssumption ==
  /\ SenderOf \in [Txs -> Senders]
  /\ NonceOf \in [Txs -> Nat]
  /\ PriceOf \in [Txs -> Nat]
  /\ GasOf \in [Txs -> Nat]
  /\ MaxSize \in Nat
  /\ MaxNonceGap \in Nat

VARIABLES
  pool,    \* by_sender: the transactions stored under their sender and nonce
  index,   \* by_hash: the hashes it holds
  reply    \* what the last operation returned to its caller

vars == <<pool, index, reply>>

Reply == [kind : {"none", "ok", "gap", "removed", "absent"}, evicted : Nat]

TypeOK ==
  /\ pool \subseteq Txs
  /\ IsFiniteSet(pool)
  /\ index \subseteq Txs
  /\ reply \in Reply

Init ==
  /\ pool = {}
  /\ index = {}
  /\ reply = [kind |-> "none", evicted |-> 0]

Answer(k, n) == reply' = [kind |-> k, evicted |-> n]

-----------------------------------------------------------------------------
(* by_sender as a map: the transactions of a sender, and of one slot.      *)

OfSender(s, p) == {t \in p : SenderOf[t] = s}

SendersIn(p) == {SenderOf[t] : t \in p}

SameSlot(t, u) == SenderOf[t] = SenderOf[u] /\ NonceOf[t] = NonceOf[u]

Slot(t, p) == {u \in p : SameSlot(t, u)}

(* A nonce too far above every pooled nonce of the sender.                 *)
GapTooLarge(t, p) ==
  /\ OfSender(SenderOf[t], p) # {}
  /\ \A u \in OfSender(SenderOf[t], p) : NonceOf[t] - NonceOf[u] > MaxNonceGap

(* entry.insert: the transaction takes its slot from whoever held it.      *)
Inserted(t, p) == (p \ Slot(t, p)) \cup {t}

-----------------------------------------------------------------------------
(* Eviction.  The loop removes the cheapest sender, again and again, until *)
(* `need' transactions are counted; of the last sender it stops counting,  *)
(* and removing hashes, as soon as the count is reached, although all of   *)
(* the sender's transactions left by_sender before.  Equal fees are taken  *)
(* in the order of a HashMap: any order.                                   *)

Fees(s, p) ==
  MapThenSumSet(LAMBDA t : PriceOf[t] * GasOf[t], OfSender(s, p))

OfSenders(S, p) == {t \in p : SenderOf[t] \in S}

(* Mutant: max_by_key for min_by_key.                                      *)
DearestFirst(S, last, p) ==
  /\ \A a \in S, b \in SendersIn(p) \ S : Fees(a, p) >= Fees(b, p)
  /\ \A a \in S : Fees(a, p) >= Fees(last, p)

CheapestFirst(S, last, p) ==
  /\ \A a \in S, b \in SendersIn(p) \ S : Fees(a, p) <= Fees(b, p)
  /\ \A a \in S : Fees(a, p) <= Fees(last, p)

StopsAt(S, last, p, need) ==
  /\ Cardinality(OfSenders(S \ {last}, p)) < need
  /\ need <= Cardinality(OfSenders(S, p))

(* Of one sender's transactions, in the order of a BTreeMap, the first k:  *)
(* those whose hashes are removed before the break.                        *)
LowestNonces(own, k) ==
  {t \in own : Cardinality({u \in own : NonceOf[u] < NonceOf[t]}) < k}

Unindexed(S, last, p, need) ==
  OfSenders(S \ {last}, p) \cup
  LowestNonces(OfSender(last, p),
               need - Cardinality(OfSenders(S \ {last}, p)))

(* What leaves by_sender: all of every sender taken, counted or not.       *)
Evicted(S, last, p, need) == OfSenders(S, p)

-----------------------------------------------------------------------------
(* insert                                                                  *)

InsertDuplicate(t) ==
  /\ t \in index
  /\ Answer("ok", 0)
  /\ UNCHANGED <<pool, index>>

InsertGap(t) ==
  /\ t \notin index
  /\ GapTooLarge(t, pool)
  /\ Answer("gap", 0)
  /\ UNCHANGED <<pool, index>>

(* Mutant: total > max_size + 1.                                           *)
OverflowByTwo(p) == Cardinality(p) - MaxSize - 1

Overflow(p) == Cardinality(p) - MaxSize

Accepts(t) == t \notin index /\ ~ GapTooLarge(t, pool)

(* Mutant: the new hash is removed with the old.                           *)
IndexBefore(t) == (index \cup {t}) \ Slot(t, pool \cup {t})

(* by_hash.remove of the replaced hash, then by_hash.insert.               *)
IndexWith(t) == (index \ Slot(t, pool)) \cup {t}

InsertWithin(t) ==
  /\ Accepts(t)
  /\ Overflow(Inserted(t, pool)) <= 0
  /\ pool' = Inserted(t, pool)
  /\ index' = IndexWith(t)
  /\ Answer("ok", 0)

InsertEvicting(t) ==
  LET p    == Inserted(t, pool)
      need == Overflow(p)
  IN /\ Accepts(t)
     /\ need > 0
     /\ \E S \in SUBSET SendersIn(p) : \E last \in S :
          /\ CheapestFirst(S, last, p)
          /\ StopsAt(S, last, p, need)
          /\ pool' = p \ Evicted(S, last, p, need)
          /\ index' = IndexWith(t) \ Unindexed(S, last, p, need)
     /\ Answer("ok", need)

Insert(t) ==
  InsertDuplicate(t) \/ InsertGap(t) \/ InsertWithin(t) \/ InsertEvicting(t)

(* remove: the hash leaves by_hash, and whatever is stored under the       *)
(* sender and the nonce it was indexed with leaves by_sender.              *)
Remove(t) ==
  IF t \in index
  THEN /\ index' = index \ {t}
       /\ pool' = pool \ Slot(t, pool)
       /\ Answer("removed", 0)
  ELSE /\ Answer("absent", 0)
       /\ UNCHANGED <<pool, index>>

Next == \E t \in Txs : Insert(t) \/ Remove(t)

Spec == Init /\ [][Next]_vars

-----------------------------------------------------------------------------
(* The reads.                                                              *)

(* get_best: the order by price is stable over by_sender, so transactions  *)
(* of one sender and one price stand in nonce order and together.          *)
BestOrder(q, p, limit) ==
  LET Before(i, j) ==
        \/ PriceOf[q[i]] > PriceOf[q[j]]
        \/ /\ PriceOf[q[i]] = PriceOf[q[j]]
           /\ SenderOf[q[i]] = SenderOf[q[j]] => NonceOf[q[i]] < NonceOf[q[j]]
      chosen == {q[i] : i \in DOMAIN q}
  IN /\ DOMAIN q = 1 .. Min({limit, Cardinality(p)})
     /\ chosen \subseteq p
     /\ Cardinality(chosen) = Cardinality(DOMAIN q)
     /\ \A i, j \in DOMAIN q : i < j => Before(i, j)
     /\ \A i, j \in DOMAIN q : \A k \in i .. j :
          (SenderOf[q[i]] = SenderOf[q[j]] /\ PriceOf[q[i]] = PriceOf[q[j]])
            => SenderOf[q[k]] = SenderOf[q[i]]
     /\ \A t \in p \ chosen : \A i \in DOMAIN q :
          /\ PriceOf[t] <= PriceOf[q[i]]
          /\ (SenderOf[t] = SenderOf[q[i]] /\ PriceOf[t] = PriceOf[q[i]])
               => NonceOf[q[i]] < NonceOf[t]

-----------------------------------------------------------------------------
(* Properties.                                                             *)

(* Whatever is stored can be found by its hash: the insert, the            *)
(* replacement and the eviction keep by_hash at least as large as          *)
(* by_sender, so a stored transaction is never stored a second time.       *)
PoolIndexed == pool \subseteq index

(* A sender has one transaction for a nonce, however often it is replaced, *)
(* evicted and resubmitted.                                                *)
OneTxPerNonce == \A t, u \in pool : SameSlot(t, u) => t = u

(* No insert leaves more than max_size transactions behind.                *)
Bounded == Cardinality(pool) <= MaxSize

(* An eviction empties a sender or leaves it as it was: no gap appears in  *)
(* the nonces of a sender that stays ("evicting ALL txs from that sender   *)
(* to preserve nonce ordering", mempool.rs:3).                             *)
EvictsWholeSendersStep ==
  \A t \in Txs : Insert(t) /\ reply'.evicted > 0 =>
     \A s \in Senders :
       OfSender(s, pool') \in {{}, OfSender(s, Inserted(t, pool))}
EvictsWholeSenders == [][EvictsWholeSendersStep]_vars

(* The fees of a sender that is evicted are at most those of any sender    *)
(* that stays, the sender of the incoming transaction included.            *)
EvictsCheapestStep ==
  \A t \in Txs : Insert(t) /\ reply'.evicted > 0 =>
     LET p == Inserted(t, pool) IN
     \A a \in SendersIn(p) \ SendersIn(pool'), b \in SendersIn(pool') :
       Fees(a, p) <= Fees(b, p)
EvictsCheapest == [][EvictsCheapestStep]_vars

(* One insert costs one sender its transactions, never two: the pool is   *)
(* one transaction over capacity at most, so the loop runs once.           *)
EvictsOneSenderStep ==
  \A t \in Txs : Insert(t) /\ reply'.evicted > 0 =>
     Cardinality(SendersIn(Inserted(t, pool)) \ SendersIn(pool')) = 1
EvictsOneSender == [][EvictsOneSenderStep]_vars

=============================================================================
