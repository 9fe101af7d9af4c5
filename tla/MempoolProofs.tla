--------------------------- MODULE MempoolProofs ---------------------------
(***************************************************************************)
(* What the mempool keeps for every set of transactions, every capacity    *)
(* and every gap.  The invariant is Inv; the action properties follow from *)
(* it step by step.                                                        *)
(***************************************************************************)
EXTENDS Mempool, FiniteSetTheorems, TLAPS

Inv == TypeOK /\ PoolIndexed /\ OneTxPerNonce /\ Bounded

-----------------------------------------------------------------------------

(* Taking a slot keeps the pool a finite set of transactions, one to a     *)
(* slot, and adds at most one to their number.                             *)
LEMMA InsertedFacts ==
  ASSUME NEW t \in Txs, NEW p, p \subseteq Txs, IsFiniteSet(p),
         \A u, v \in p : SameSlot(u, v) => u = v
  PROVE  /\ Inserted(t, p) \subseteq Txs
         /\ IsFiniteSet(Inserted(t, p))
         /\ Cardinality(Inserted(t, p)) \in Nat
         /\ Cardinality(Inserted(t, p)) <= Cardinality(p) + 1
         /\ \A u, v \in Inserted(t, p) : SameSlot(u, v) => u = v
<1>1. /\ IsFiniteSet(p \ Slot(t, p))
      /\ Cardinality(p \ Slot(t, p)) <= Cardinality(p)
  BY FS_Subset
<1>2. /\ IsFiniteSet(Inserted(t, p))
      /\ Cardinality(Inserted(t, p)) <= Cardinality(p \ Slot(t, p)) + 1
  <2> DEFINE rest == p \ Slot(t, p)
  <2>1. Cardinality(rest) \in Nat
    BY <1>1, FS_CardinalityType
  <2>2. /\ IsFiniteSet(rest \cup {t})
        /\ Cardinality(rest \cup {t}) =
             IF t \in rest THEN Cardinality(rest) ELSE Cardinality(rest) + 1
    BY <1>1, FS_AddElement
  <2> HIDE DEF rest
  <2>3. Cardinality(rest \cup {t}) <= Cardinality(rest) + 1
    BY <2>1, <2>2
  <2>4. Inserted(t, p) = rest \cup {t}
    BY DEF Inserted, rest
  <2>5. QED
    BY <2>2, <2>3, <2>4 DEF rest
<1>3. Cardinality(Inserted(t, p)) \in Nat
  BY <1>2, FS_CardinalityType
<1>4. \A u, v \in Inserted(t, p) : SameSlot(u, v) => u = v
  BY DEF Inserted, Slot, SameSlot
<1>5. Inserted(t, p) \subseteq Txs
  BY DEF Inserted
<1>6. QED
  BY <1>1, <1>2, <1>3, <1>4, <1>5, FS_CardinalityType

(* The senders an eviction takes carry at least the overflow, so what is   *)
(* left fits.                                                              *)
LEMMA EvictionFits ==
  ASSUME NEW p, IsFiniteSet(p), NEW S, NEW last, NEW need \in Nat,
         need = Cardinality(p) - MaxSize,
         StopsAt(S, last, p, need)
  PROVE  Cardinality(p \ OfSenders(S, p)) <= MaxSize
<1>1. OfSenders(S, p) \subseteq p /\ p \cap OfSenders(S, p) = OfSenders(S, p)
  BY DEF OfSenders
<1>2. /\ Cardinality(p) \in Nat
      /\ Cardinality(OfSenders(S, p)) \in Nat
      /\ Cardinality(p \ OfSenders(S, p))
           = Cardinality(p) - Cardinality(OfSenders(S, p))
  <2>1. IsFiniteSet(OfSenders(S, p))
    BY <1>1, FS_Subset
  <2>2. Cardinality(p \ OfSenders(S, p))
          = Cardinality(p) - Cardinality(p \cap OfSenders(S, p))
    BY FS_Difference
  <2>3. QED
    BY <1>1, <2>1, <2>2, FS_CardinalityType
<1>3. QED
  BY <1>2, MempoolAssumption DEF StopsAt

(* What an evicting insert does, in one place: the overflow is one, one    *)
(* sender is taken, it is a cheapest one, and all of it goes.              *)
LEMMA EvictingStep ==
  ASSUME Inv, NEW t \in Txs, InsertEvicting(t)
  PROVE  \E s \in SendersIn(Inserted(t, pool)) :
           /\ pool' = Inserted(t, pool) \ OfSenders({s}, Inserted(t, pool))
           /\ \A b \in SendersIn(Inserted(t, pool)) :
                Fees(s, Inserted(t, pool)) <= Fees(b, Inserted(t, pool))
                \/ b = s
<1> DEFINE p == Inserted(t, pool)
           need == Overflow(p)
<1>1. /\ p \subseteq Txs /\ IsFiniteSet(p)
      /\ Cardinality(p) \in Nat
      /\ Cardinality(p) <= Cardinality(pool) + 1
  BY InsertedFacts DEF Inv, TypeOK, OneTxPerNonce
<1>2. need = 1
  <2>1. Cardinality(pool) \in Nat /\ Cardinality(pool) <= MaxSize
    BY FS_CardinalityType DEF Inv, TypeOK, Bounded
  <2>2. need > 0
    BY DEF InsertEvicting
  <2>3. QED
    BY <1>1, <2>1, <2>2, MempoolAssumption DEF Overflow
<1>3. PICK S \in SUBSET SendersIn(p) : \E last \in S :
        /\ CheapestFirst(S, last, p)
        /\ StopsAt(S, last, p, need)
        /\ pool' = p \ Evicted(S, last, p, need)
  BY DEF InsertEvicting
<1>last. PICK last \in S :
        /\ CheapestFirst(S, last, p)
        /\ StopsAt(S, last, p, need)
        /\ pool' = p \ Evicted(S, last, p, need)
  BY <1>3
<1>4. OfSenders(S \ {last}, p) = {}
  <2>1. OfSenders(S \ {last}, p) \subseteq p
    BY DEF OfSenders
  <2>2. /\ IsFiniteSet(OfSenders(S \ {last}, p))
        /\ Cardinality(OfSenders(S \ {last}, p)) \in Nat
    BY <1>1, <2>1, FS_Subset, FS_CardinalityType
  <2>3. Cardinality(OfSenders(S \ {last}, p)) < 1
    BY <1>2, <1>last DEF StopsAt
  <2>4. Cardinality(OfSenders(S \ {last}, p)) = 0
    BY <2>2, <2>3
  <2>5. QED
    BY <2>2, <2>4, FS_EmptySet
<1>5. S = {last}
  <2>1. \A s \in SendersIn(p) : OfSenders({s}, p) # {}
    BY DEF SendersIn, OfSenders
  <2>2. \A s \in S \ {last} : FALSE
    BY <1>last, <1>4, <2>1 DEF OfSenders
  <2>3. QED
    BY <1>last, <2>2
<1>6. last \in SendersIn(p)
  BY <1>3
<1>7. pool' = p \ OfSenders({last}, p)
  BY <1>last, <1>5 DEF Evicted
<1>8. \A b \in SendersIn(p) : Fees(last, p) <= Fees(b, p) \/ b = last
  BY <1>last, <1>5 DEF CheapestFirst
<1>9. QED
  BY <1>6, <1>7, <1>8

-----------------------------------------------------------------------------

LEMMA InvInit == Init => Inv
<1> SUFFICES ASSUME Init PROVE Inv
  OBVIOUS
<1>1. IsFiniteSet({}) /\ Cardinality({}) = 0
  BY FS_EmptySet
<1>2. TypeOK
  BY <1>1 DEF Init, TypeOK, Reply
<1>3. PoolIndexed /\ OneTxPerNonce
  BY DEF Init, PoolIndexed, OneTxPerNonce
<1>4. Bounded
  BY <1>1, MempoolAssumption DEF Init, Bounded
<1>5. QED
  BY <1>2, <1>3, <1>4 DEF Inv

LEMMA InvInsertWithin ==
  ASSUME Inv, NEW t \in Txs, InsertWithin(t)
  PROVE  Inv'
<1>1. /\ Inserted(t, pool) \subseteq Txs /\ IsFiniteSet(Inserted(t, pool))
      /\ Cardinality(Inserted(t, pool)) \in Nat
      /\ \A u, v \in Inserted(t, pool) : SameSlot(u, v) => u = v
  BY InsertedFacts DEF Inv, TypeOK, OneTxPerNonce
<1>2. pool' = Inserted(t, pool) /\ index' = IndexWith(t)
  BY DEF InsertWithin
<1>3. TypeOK'
  BY <1>1, <1>2 DEF Inv, TypeOK, IndexWith, InsertWithin, Answer, Reply
<1>4. PoolIndexed'
  BY <1>2 DEF Inv, PoolIndexed, IndexWith, Inserted
<1>5. OneTxPerNonce'
  BY <1>1, <1>2 DEF OneTxPerNonce
<1>6. Bounded'
  BY <1>1, <1>2, MempoolAssumption DEF Bounded, InsertWithin, Overflow
<1>7. QED
  BY <1>3, <1>4, <1>5, <1>6 DEF Inv

LEMMA InvInsertEvicting ==
  ASSUME Inv, NEW t \in Txs, InsertEvicting(t)
  PROVE  Inv'
<1> DEFINE p == Inserted(t, pool)
           need == Overflow(p)
<1>1. /\ p \subseteq Txs /\ IsFiniteSet(p)
      /\ Cardinality(p) \in Nat
      /\ \A u, v \in p : SameSlot(u, v) => u = v
  BY InsertedFacts DEF Inv, TypeOK, OneTxPerNonce
<1>2. need \in Nat
  BY <1>1, MempoolAssumption DEF InsertEvicting, Overflow
<1>3. PICK S \in SUBSET SendersIn(p) : \E last \in S :
        /\ StopsAt(S, last, p, need)
        /\ pool' = p \ Evicted(S, last, p, need)
        /\ index' = IndexWith(t) \ Unindexed(S, last, p, need)
  BY DEF InsertEvicting
<1>last. PICK last \in S :
        /\ StopsAt(S, last, p, need)
        /\ pool' = p \ Evicted(S, last, p, need)
        /\ index' = IndexWith(t) \ Unindexed(S, last, p, need)
  BY <1>3
<1>4. pool' = p \ OfSenders(S, p) /\ pool' \subseteq p
  BY <1>last DEF Evicted
<1>5. TypeOK'
  <2>1. pool' \subseteq Txs /\ IsFiniteSet(pool')
    BY <1>1, <1>4, FS_Subset
  <2>2. index' \subseteq Txs
    BY <1>last DEF Inv, TypeOK, IndexWith
  <2>3. reply' \in Reply
    BY <1>2 DEF InsertEvicting, Answer, Reply
  <2>4. QED
    BY <2>1, <2>2, <2>3 DEF TypeOK
<1>6. PoolIndexed'
  <2>1. Unindexed(S, last, p, need) \subseteq OfSenders(S, p)
    BY <1>last DEF Unindexed, LowestNonces, OfSenders, OfSender
  <2>2. p \subseteq IndexWith(t)
    BY DEF Inv, PoolIndexed, IndexWith, Inserted
  <2>3. QED
    BY <1>last, <1>4, <2>1, <2>2 DEF PoolIndexed
<1>7. OneTxPerNonce'
  BY <1>1, <1>4 DEF OneTxPerNonce
<1>8. Bounded'
  BY <1>1, <1>2, <1>last, <1>4, EvictionFits DEF Bounded, Overflow
<1>9. QED
  BY <1>5, <1>6, <1>7, <1>8 DEF Inv

LEMMA InvRemove ==
  ASSUME Inv, NEW t \in Txs, Remove(t)
  PROVE  Inv'
<1>1. pool' \subseteq pool /\ index' \subseteq index
  BY DEF Remove
<1>2. /\ IsFiniteSet(pool')
      /\ Cardinality(pool') <= Cardinality(pool)
      /\ Cardinality(pool') \in Nat /\ Cardinality(pool) \in Nat
  BY <1>1, FS_Subset, FS_CardinalityType DEF Inv, TypeOK
<1>3. TypeOK'
  <2>1. reply' \in Reply
    BY DEF Remove, Answer, Reply
  <2>2. QED
    BY <1>1, <1>2, <2>1 DEF Inv, TypeOK
<1>4. PoolIndexed'
  BY DEF Inv, PoolIndexed, Remove, Slot, SameSlot
<1>5. OneTxPerNonce'
  BY <1>1 DEF Inv, OneTxPerNonce
<1>6. Bounded'
  BY <1>2, MempoolAssumption DEF Inv, Bounded
<1>7. QED
  BY <1>3, <1>4, <1>5, <1>6 DEF Inv

LEMMA InvNext == Inv /\ [Next]_vars => Inv'
<1> SUFFICES ASSUME Inv, [Next]_vars PROVE Inv'
  OBVIOUS
<1>1. ASSUME NEW t \in Txs, InsertDuplicate(t) \/ InsertGap(t) PROVE Inv'
  <2>1. pool' = pool /\ index' = index /\ reply' \in Reply
    BY <1>1 DEF InsertDuplicate, InsertGap, Answer, Reply
  <2>2. QED
    BY <2>1 DEF Inv, TypeOK, PoolIndexed, OneTxPerNonce, Bounded
<1>2. ASSUME NEW t \in Txs, InsertWithin(t) PROVE Inv'
  BY <1>2, InvInsertWithin
<1>3. ASSUME NEW t \in Txs, InsertEvicting(t) PROVE Inv'
  BY <1>3, InvInsertEvicting
<1>4. ASSUME NEW t \in Txs, Remove(t) PROVE Inv'
  BY <1>4, InvRemove
<1>5. CASE UNCHANGED vars
  BY <1>5 DEF vars, Inv, TypeOK, PoolIndexed, OneTxPerNonce, Bounded
<1>6. QED
  BY <1>1, <1>2, <1>3, <1>4, <1>5 DEF Next, Insert

(* The four invariants hold of every mempool, whatever is submitted to it  *)
(* and removed from it.                                                    *)
THEOREM MempoolInvariant == Spec => []Inv
  BY InvInit, InvNext, PTL DEF Spec

(* The state keeps its types: insert and remove store transactions and     *)
(* hashes only, and finitely many.                                         *)
THEOREM TypeCorrect == Spec => []TypeOK
<1>1. Inv => TypeOK
  BY DEF Inv
<1>2. QED
  BY <1>1, MempoolInvariant, PTL

(* Every stored transaction can be found by its hash.                      *)
THEOREM PoolAlwaysIndexed == Spec => []PoolIndexed
<1>1. Inv => PoolIndexed
  BY DEF Inv
<1>2. QED
  BY <1>1, MempoolInvariant, PTL

(* No two stored transactions have the same sender and nonce.              *)
THEOREM NonceTakenOnce == Spec => []OneTxPerNonce
<1>1. Inv => OneTxPerNonce
  BY DEF Inv
<1>2. QED
  BY <1>1, MempoolInvariant, PTL

(* The pool never exceeds its capacity between two operations.             *)
THEOREM CapacityKept == Spec => []Bounded
<1>1. Inv => Bounded
  BY DEF Inv
<1>2. QED
  BY <1>1, MempoolInvariant, PTL

-----------------------------------------------------------------------------

(* Only an evicting insert answers with a count.                           *)
LEMMA OnlyEvictingCounts ==
  ASSUME NEW t \in Txs, Insert(t), reply'.evicted > 0
  PROVE  InsertEvicting(t)
<1>1. ~ InsertDuplicate(t)
  BY DEF InsertDuplicate, Answer
<1>2. ~ InsertGap(t)
  BY DEF InsertGap, Answer
<1>3. ~ InsertWithin(t)
  BY DEF InsertWithin, Answer
<1>4. QED
  BY <1>1, <1>2, <1>3 DEF Insert

(* Every sender is emptied by an eviction or not touched by it.            *)
THEOREM WholeSendersEvicted == Spec => EvictsWholeSenders
<1>1. ASSUME Inv, NEW t \in Txs, Insert(t), reply'.evicted > 0, NEW r \in Senders
      PROVE  OfSender(r, pool') \in {{}, OfSender(r, Inserted(t, pool))}
  <2>1. PICK s \in SendersIn(Inserted(t, pool)) :
          pool' = Inserted(t, pool) \ OfSenders({s}, Inserted(t, pool))
    BY <1>1, OnlyEvictingCounts, EvictingStep
  <2>2. CASE r = s
    BY <2>1, <2>2 DEF OfSender, OfSenders
  <2>3. CASE r # s
    BY <2>1, <2>3 DEF OfSender, OfSenders
  <2>4. QED
    BY <2>2, <2>3
<1>2. Inv /\ [Next]_vars => [EvictsWholeSendersStep]_vars
  BY <1>1 DEF EvictsWholeSendersStep
<1>3. QED
  BY <1>2, MempoolInvariant, PTL DEF Spec, EvictsWholeSenders

(* The sender that is evicted offers no more than any sender that stays.   *)
THEOREM CheapestEvicted == Spec => EvictsCheapest
<1>1. ASSUME Inv, NEW t \in Txs, Insert(t), reply'.evicted > 0
      PROVE  \A a \in SendersIn(Inserted(t, pool)) \ SendersIn(pool'),
                b \in SendersIn(pool') :
               Fees(a, Inserted(t, pool)) <= Fees(b, Inserted(t, pool))
  <2> DEFINE p == Inserted(t, pool)
  <2>1. PICK s \in SendersIn(p) :
          /\ pool' = p \ OfSenders({s}, p)
          /\ \A b \in SendersIn(p) : Fees(s, p) <= Fees(b, p) \/ b = s
    BY <1>1, OnlyEvictingCounts, EvictingStep
  <2>2. SendersIn(pool') = SendersIn(p) \ {s}
    BY <2>1 DEF SendersIn, OfSenders
  <2>3. QED
    BY <2>1, <2>2
<1>2. Inv /\ [Next]_vars => [EvictsCheapestStep]_vars
  BY <1>1 DEF EvictsCheapestStep
<1>3. QED
  BY <1>2, MempoolInvariant, PTL DEF Spec, EvictsCheapest

(* An insert never costs more than one sender its transactions.            *)
THEOREM OneSenderEvicted == Spec => EvictsOneSender
<1>1. ASSUME Inv, NEW t \in Txs, Insert(t), reply'.evicted > 0
      PROVE  Cardinality(SendersIn(Inserted(t, pool)) \ SendersIn(pool')) = 1
  <2> DEFINE p == Inserted(t, pool)
  <2>1. PICK s \in SendersIn(p) : pool' = p \ OfSenders({s}, p)
    BY <1>1, OnlyEvictingCounts, EvictingStep
  <2>2. SendersIn(p) \ SendersIn(pool') = {s}
    BY <2>1 DEF SendersIn, OfSenders
  <2>3. QED
    BY <2>2, FS_Singleton
<1>2. Inv /\ [Next]_vars => [EvictsOneSenderStep]_vars
  BY <1>1 DEF EvictsOneSenderStep
<1>3. QED
  BY <1>2, MempoolInvariant, PTL DEF Spec, EvictsOneSender
=============================================================================
