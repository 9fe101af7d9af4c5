-------------------------- MODULE FraudGateProofs --------------------------
(***************************************************************************)
(* The detector and the chain it reads, for every set of transactions,     *)
(* every balance at genesis and every window and threshold: what history   *)
(* says of a wallet, who is always included, and that waiting never hurts. *)
(***************************************************************************)
EXTENDS FraudGate, FoldLemmas, FiniteSetTheorems, TLAPS

(* Whatever is in a block, or will be in the next, has used a nonce of its *)
(* sender: check_new_wallet may take the nonce for the age of the wallet.  *)
HistoryUsesNonces ==
  /\ \A t \in body : nonce[FromOf[t]] > 0
  /\ \A age \in 1 .. Depth : \A t \in recent[age] : nonce[FromOf[t]] > 0

Inv == TypeOK /\ HistoryUsesNonces

LEMMA DepthFacts == Depth \in Nat /\ VelocityWindow <= Depth /\ RapidWindow <= Depth
BY FraudGateAssumption DEF Depth

LEMMA InitInv == Init => Inv
BY FraudGateAssumption DEF Init, Inv, TypeOK, HistoryUsesNonces

(* An execution leaves every balance a number: it pays what it has.        *)
LEMMA MovedIsBalance ==
  ASSUME TypeOK, NEW t \in Txs, Valid(t)
  PROVE  Moved(t) \in [Accounts -> Nat]
<1> SUFFICES ASSUME NEW c \in Accounts
             PROVE  bal[c] - Points(c = FromOf[t], ValueOf[t])
                      + Points(c = ToOf[t], ValueOf[t]) \in Nat
  BY DEF Moved
<1>1. bal[c] \in Nat /\ ValueOf[t] \in Nat /\ FromOf[t] \in Accounts
  BY FraudGateAssumption DEF TypeOK
<1>2. c = FromOf[t] => bal[c] >= ValueOf[t]
  BY DEF Valid, Balance
<1> QED
  BY <1>1, <1>2 DEF Points

LEMMA NextInv == Inv /\ [Next]_vars => Inv'
<1> SUFFICES ASSUME Inv, [Next]_vars PROVE Inv'
  OBVIOUS
<1> USE DEF Inv
<1>1. ASSUME NEW t \in Txs, Submit(t) PROVE Inv'
  BY <1>1 DEF Submit, TypeOK, HistoryUsesNonces, state, chain
<1>2. CASE Wake
  BY <1>2 DEF Wake, TypeOK, HistoryUsesNonces, state, chain
<1>3. ASSUME NEW t \in Txs, Pass(t) PROVE Inv'
  BY <1>3 DEF Pass, TypeOK, HistoryUsesNonces, state, chain
<1>4. ASSUME NEW t \in Txs, RejectCritical(t) PROVE Inv'
  BY <1>4 DEF RejectCritical, TypeOK, HistoryUsesNonces, state, chain
<1>5. ASSUME NEW t \in Txs, Execute(t) PROVE Inv'
  <2>1. FromOf[t] \in Accounts /\ nonce[FromOf[t]] \in Nat
    BY FraudGateAssumption DEF TypeOK
  <2>2. bal' \in [Accounts -> Nat]
    BY <1>5, MovedIsBalance DEF Execute, TypeOK
  <2>3. TypeOK'
    <3>1. nonce' \in [Accounts -> Nat]
      BY <1>5, <2>1 DEF Execute, TypeOK
    <3>2. recent' = recent /\ height' = height /\ pool' = pool /\ pc' = pc
          /\ todo' = todo \ {t} /\ body' = body \cup {t}
      BY <1>5 DEF Execute, chain
    <3> QED
      BY <2>2, <3>1, <3>2 DEF TypeOK
  <2>4. \A u \in Txs : nonce[FromOf[u]] > 0 => nonce'[FromOf[u]] > 0
    BY <1>5, <2>1, FraudGateAssumption DEF Execute, TypeOK
  <2>5. nonce'[FromOf[t]] > 0
    BY <1>5, <2>1 DEF Execute, TypeOK
  <2>6. \A u \in body' : nonce'[FromOf[u]] > 0
    BY <1>5, <2>4, <2>5 DEF Execute, TypeOK, HistoryUsesNonces
  <2>7. \A age \in 1 .. Depth : \A u \in recent'[age] : nonce'[FromOf[u]] > 0
    BY <1>5, <2>4 DEF Execute, TypeOK, HistoryUsesNonces, chain
  <2> QED
    BY <2>3, <2>6, <2>7 DEF HistoryUsesNonces
<1>6. CASE Seal
  <2>1. \A age \in 1 .. Depth : age = 1 \/ age - 1 \in 1 .. Depth
    BY DepthFacts
  <2>2. recent' \in [1 .. Depth -> SUBSET Txs]
    BY <1>6, <2>1 DEF Seal, TypeOK
  <2>3. height' \in 0 .. RapidWindow
    BY <1>6, FraudGateAssumption DEF Seal, TypeOK
  <2>4. TypeOK'
    BY <1>6, <2>2, <2>3 DEF Seal, TypeOK, state
  <2>5. \A age \in 1 .. Depth : \A u \in recent'[age] : nonce'[FromOf[u]] > 0
    BY <1>6, <2>1 DEF Seal, HistoryUsesNonces, state
  <2> QED
    BY <1>6, <2>4, <2>5 DEF Seal, HistoryUsesNonces
<1>7. CASE UNCHANGED vars
  BY <1>7 DEF vars, TypeOK, HistoryUsesNonces, state, chain
<1> QED
  BY <1>1, <1>2, <1>3, <1>4, <1>5, <1>6, <1>7 DEF Next, Produce

(* The inductive invariant of FraudGate.                                   *)
THEOREM FraudGateInvariant == Spec => []Inv
BY InitInv, NextInv, PTL DEF Spec

(* Every variable keeps its type; in particular the executions of a block  *)
(* never take more than a balance, whatever the detector recommends.       *)
THEOREM FraudGateTypeCorrect == Spec => []TypeOK
BY FraudGateInvariant, PTL DEF Inv

-----------------------------------------------------------------------------
(* A sender with nothing in the window has no flag of the window.          *)
LEMMA NothingSentNoFlag ==
  ASSUME NEW t \in Txs, Sent(FromOf[t], VelocityWindow) = {}
  PROVE  /\ ~ IsHighVelocity(t) /\ ~ IsExtremeVelocity(t)
         /\ ~ RapidWalletDrain(t)
<1>1. TxCount(t) = 0
  BY FS_EmptySet DEF TxCount
<1>2. ~ IsHighVelocity(t) /\ ~ IsExtremeVelocity(t)
  BY <1>1, FraudGateAssumption DEF IsHighVelocity, IsExtremeVelocity
<1>3. RapidSent(t) = {}
  <2>1. \A i \in 1 .. RapidWindow : i \in 1 .. VelocityWindow
    BY FraudGateAssumption
  <2> QED
    BY <2>1 DEF RapidSent, Sent
<1>4. Cardinality(RapidSent(t)) = 0
  BY <1>3, FS_EmptySet
<1>5. ~ RapidWalletDrain(t)
  BY <1>4, FraudGateAssumption DEF RapidWalletDrain
<1> QED
  BY <1>2, <1>5

(* A new wallet has no history, so the first check never adds to those of  *)
(* velocity, dust and rapid drain.                                         *)
THEOREM NewWalletUnflagged == Spec => []NewWalletHasNoHistory
<1>1. Inv => NewWalletHasNoHistory
  <2> SUFFICES ASSUME Inv, NEW t \in Txs, NewWalletLargeTransfer(t)
               PROVE  /\ ~ IsHighVelocity(t) /\ ~ IsExtremeVelocity(t)
                      /\ ~ DustAttack(t) /\ ~ RapidWalletDrain(t)
    BY DEF NewWalletHasNoHistory
  <2>1. nonce[FromOf[t]] = 0 /\ ValueOf[t] >= LargeValue
    BY DEF NewWalletLargeTransfer
  <2>2. \A age \in 1 .. Depth : \A u \in recent[age] : FromOf[u] # FromOf[t]
    BY <2>1 DEF Inv, HistoryUsesNonces
  <2>3. \A i \in 1 .. VelocityWindow : i \in 1 .. Depth
    BY DepthFacts, FraudGateAssumption
  <2>4. Sent(FromOf[t], VelocityWindow) = {}
    BY <2>2, <2>3 DEF Sent
  <2>5. Sent(FromOf[t], Depth) = {}
    BY <2>2 DEF Sent
  <2>6. Cardinality(DustSent(t)) = 0
    <3>1. DustSent(t) = {}
      BY <2>5 DEF DustSent
    <3> QED
      BY <3>1, FS_EmptySet
  <2>7. ~ DustAttack(t)
    BY <2>6, FraudGateAssumption DEF DustAttack
  <2> QED
    BY <2>4, <2>7, NothingSentNoFlag
<1> QED
  BY <1>1, FraudGateInvariant, PTL

(* Who has sent nothing for a velocity window is included, whatever the    *)
(* transaction: the checks of the transaction itself and of old dust give  *)
(* 55 points at most, because a value that is dust is neither round nor a  *)
(* large transfer.                                                         *)
THEOREM QuietIncluded == Spec => []QuietSenderIncluded
<1>1. TypeOK => QuietSenderIncluded
  <2> SUFFICES ASSUME TypeOK, NEW t \in Txs,
                      Sent(FromOf[t], VelocityWindow) = {}
               PROVE  Include(t)
    BY DEF QuietSenderIncluded
  <2> DEFINE new   == Points(NewWalletLargeTransfer(t), 25)
             full  == Points(FullBalanceDrain(t), 25)
             large == Points(LargeBalanceDrain(t), 15)
             round == Points(RoundNumber(t), 5)
             dust  == Points(DustAttack(t), 30)
  <2>1. Points(IsExtremeVelocity(t), 40) = 0 /\ Points(IsHighVelocity(t), 20) = 0
        /\ Points(RapidWalletDrain(t), 35) = 0
    BY NothingSentNoFlag DEF Points
  <2>2. Points(SuspiciousRecipient(t), 40) = 0
    BY DEF Points, SuspiciousRecipient, Patterns
  <2>3. Score(t) = new + 0 + 0 + full + large + round + dust + 0 + 0
    BY <2>1, <2>2 DEF Score
  <2>4. ValueOf[t] \in Nat /\ Balance(t) \in Nat
    BY FraudGateAssumption DEF TypeOK, Balance
  <2>5. full \in Nat /\ large \in Nat /\ full + large <= 25
    BY <2>4 DEF Points, FullBalanceDrain, LargeBalanceDrain
  <2>6. new \in Nat /\ round \in Nat /\ dust \in Nat
        /\ new <= 25 /\ round <= 5 /\ dust <= 30
    BY DEF Points
  <2>7. CASE ValueOf[t] < DustValue
    <3>1. new = 0
      BY <2>4, <2>7, FraudGateAssumption DEF Points, NewWalletLargeTransfer
    <3>2. round = 0
      BY <2>4, <2>7, FraudGateAssumption DEF Points, RoundNumber
    <3> HIDE DEF new, full, large, round, dust
    <3>3. Score(t) <= 60
      BY <2>3, <2>5, <2>6, <3>1, <3>2
    <3> QED
      BY <3>3 DEF Include
  <2>8. CASE ~ (ValueOf[t] < DustValue)
    <3>1. dust = 0
      BY <2>8 DEF Points, DustAttack
    <3> HIDE DEF new, full, large, round, dust
    <3>2. Score(t) <= 60
      BY <2>3, <2>5, <2>6, <3>1
    <3> QED
      BY <3>2 DEF Include
  <2> QED
    BY <2>7, <2>8
<1> QED
  BY <1>1, FraudGateTypeCorrect, PTL

-----------------------------------------------------------------------------
(* Waiting.                                                                *)

FiniteBlocks ==
  IsFiniteSet(body) /\ \A age \in 1 .. Depth : IsFiniteSet(recent[age])

(* No block has more than a finite number of transactions.                 *)
LEMMA BlocksAreFinite == Spec => []FiniteBlocks
<1>1. Init => FiniteBlocks
  BY FS_EmptySet DEF Init, FiniteBlocks
<1>2. FiniteBlocks /\ [Next]_vars => FiniteBlocks'
  <2> SUFFICES ASSUME FiniteBlocks, [Next]_vars PROVE FiniteBlocks'
    OBVIOUS
  <2>1. CASE UNCHANGED <<body, recent>>
    BY <2>1 DEF FiniteBlocks
  <2>2. ASSUME NEW t \in Txs, Execute(t) PROVE FiniteBlocks'
    BY <2>2, FS_AddElement DEF Execute, FiniteBlocks, chain
  <2>3. CASE Seal
    <3>1. \A age \in 1 .. Depth : age = 1 \/ age - 1 \in 1 .. Depth
      BY DepthFacts
    <3>2. \A age \in 1 .. Depth : IsFiniteSet(recent'[age])
      BY <2>3, <3>1 DEF Seal, FiniteBlocks
    <3>3. QED
      BY <2>3, <3>2, FS_EmptySet DEF Seal, FiniteBlocks
  <2>4. QED
    BY <2>1, <2>2, <2>3 DEF Next, Produce, Wake, Pass, RejectCritical, Submit, vars, chain
<1>3. QED
  BY <1>1, <1>2, PTL DEF Spec

(* An empty block is sealed when the chain is long enough.                 *)
Waits == Seal /\ body = {} /\ height = RapidWindow

LEMMA SentIsFinite ==
  ASSUME FiniteBlocks, NEW s, NEW w \in 0 .. Depth
  PROVE  IsFiniteSet(Sent(s, w))
<1>1. IsFiniteSet(1 .. w) /\ 1 .. w \subseteq 1 .. Depth
  BY FS_Interval, DepthFacts
<1> DEFINE sent == [age \in 1 .. w |-> recent[age]]
           all == UNION {sent[age] : age \in 1 .. w}
<1>2. IsFiniteSet(all)
  <2>1. IsFiniteSet({sent[age] : age \in 1 .. w})
    <3>1. sent \in Surjection(1 .. w, {sent[age] : age \in 1 .. w})
      BY DEF Surjection
    <3>2. QED
      BY <1>1, <3>1, FS_Surjection
  <2>2. \A b \in {sent[age] : age \in 1 .. w} : IsFiniteSet(b)
    BY <1>1 DEF FiniteBlocks
  <2>3. QED
    BY <2>1, <2>2, FS_UNION
<1>3. Sent(s, w) \in SUBSET ((1 .. w) \X all)
  BY <1>1 DEF Sent
<1>4. QED
  BY <1>1, <1>2, <1>3, FS_Product, FS_Subset

(* Into an empty block nothing comes: what is in a window then was in it,  *)
(* one block younger, before.                                              *)
Younger(to, R, S) ==
  /\ to \in [R -> S]
  /\ \A p, q \in R : to[p] = to[q] => p = q
  /\ \A p \in R : to[p][2] = p[2]

LEMMA NothingEnters ==
  ASSUME TypeOK, Waits, NEW s, NEW w \in 0 .. Depth
  PROVE  Younger([p \in Sent(s, w)' |-> <<p[1] - 1, p[2]>>], Sent(s, w)', Sent(s, w))
<1>1. \A age \in 1 .. Depth :
        recent'[age] = IF age = 1 THEN {} ELSE recent[age - 1]
  BY DEF Waits, Seal
<1>2. 1 .. w \subseteq 1 .. Depth /\ w \in Nat
  BY DepthFacts
<1>3. ASSUME NEW p \in Sent(s, w)'
      PROVE  /\ p = <<p[1], p[2]>> /\ p[1] \in Int
             /\ <<p[1] - 1, p[2]>> \in Sent(s, w)
  <2>1. p \in (1 .. w) \X Txs /\ p[2] \in recent'[p[1]] /\ FromOf[p[2]] = s
    BY DEF Sent
  <2>2. p[1] \in 1 .. w /\ p[2] \in Txs /\ p = <<p[1], p[2]>>
    BY <2>1
  <2>3. p[1] # 1 /\ p[2] \in recent[p[1] - 1]
    BY <1>1, <1>2, <2>1, <2>2
  <2>4. p[1] - 1 \in 1 .. w
    BY <2>2, <2>3
  <2>5. QED
    BY <2>1, <2>2, <2>3, <2>4 DEF Sent
<1>4. ASSUME NEW p \in Sent(s, w)', NEW q \in Sent(s, w)',
             <<p[1] - 1, p[2]>> = <<q[1] - 1, q[2]>>
      PROVE  p = q
  <2>1. p[1] - 1 = q[1] - 1 /\ p[2] = q[2]
    BY <1>4
  <2>2. p[1] = q[1]
    <3>1. p[1] \in Int /\ q[1] \in Int
      BY <1>3
    <3>2. \A m, n \in Int : m - 1 = n - 1 => m = n
      OBVIOUS
    <3>3. QED
      BY <2>1, <3>1, <3>2
  <2>3. QED
    BY <1>3, <2>1, <2>2
<1>5. QED
  BY <1>3, <1>4 DEF Younger

LEMMA YoungerFits ==
  ASSUME NEW S, IsFiniteSet(S), NEW R, NEW to, Younger(to, R, S)
  PROVE  IsFiniteSet(R) /\ Cardinality(R) <= Cardinality(S)
BY FS_Injection DEF Younger, Injection, IsInjective

LEMMA FewerSent ==
  ASSUME TypeOK, FiniteBlocks, Waits, NEW s, NEW w \in 0 .. Depth
  PROVE  Cardinality(Sent(s, w)') <= Cardinality(Sent(s, w))
         /\ Cardinality(Sent(s, w)') \in Nat /\ Cardinality(Sent(s, w)) \in Nat
<1>1. IsFiniteSet(Sent(s, w))
  BY SentIsFinite
<1>2. PICK R : R = Sent(s, w)'
  OBVIOUS
<1>3. PICK to : Younger(to, R, Sent(s, w))
  BY <1>2, NothingEnters
<1>4. IsFiniteSet(R) /\ Cardinality(R) <= Cardinality(Sent(s, w))
  BY <1>1, <1>3, YoungerFits
<1>5. QED
  BY <1>1, <1>2, <1>4, FS_CardinalityType

LEMMA LessDust ==
  ASSUME TypeOK, FiniteBlocks, Waits, NEW t \in Txs
  PROVE  Cardinality(DustSent(t)') <= Cardinality(DustSent(t))
         /\ Cardinality(DustSent(t)') \in Nat /\ Cardinality(DustSent(t)) \in Nat
<1>1. Depth \in 0 .. Depth
  BY DepthFacts
<1>2. PICK S : S = Sent(FromOf[t], Depth)
  OBVIOUS
<1>3. PICK R : R = Sent(FromOf[t], Depth)'
  OBVIOUS
<1>4. PICK to : Younger(to, R, S)
  BY <1>1, <1>2, <1>3, NothingEnters
<1>5. PICK D : D = DustSent(t)
  OBVIOUS
<1>6. PICK E : E = DustSent(t)'
  OBVIOUS
<1>7. /\ D = {p \in S : ValueOf[p[2]] < DustValue}
      /\ E = {p \in R : ValueOf[p[2]] < DustValue}
  BY <1>2, <1>3, <1>5, <1>6 DEF DustSent
<1>8. IsFiniteSet(D)
  <2>1. IsFiniteSet(S)
    BY <1>1, <1>2, SentIsFinite
  <2>2. QED
    BY <1>7, <2>1, FS_Subset
<1>9. Younger([p \in E |-> to[p]], E, D)
  BY <1>4, <1>7 DEF Younger
<1>10. IsFiniteSet(E) /\ Cardinality(E) <= Cardinality(D)
  BY <1>8, <1>9, YoungerFits
<1>11. QED
  BY <1>5, <1>6, <1>8, <1>10, FS_CardinalityType

(* What was sent rapidly adds up to less, too.                             *)
Value(R) == SumOf([p \in R |-> ValueOf[p[2]]], R)

ValueSums == \A t \in Txs : ValueSent(t) = Value(RapidSent(t))

LEMMA ValuesAddUp == ValueSums
<1>1. ASSUME NEW t \in Txs PROVE ValueSent(t) = Value(RapidSent(t))
  <2>1. PICK S : S = RapidSent(t)
    OBVIOUS
  <2>2. PICK f : f = [p \in S |-> ValueOf[p[2]]]
    OBVIOUS
  <2>3. DOMAIN f = S
    BY <2>2
  <2>4. ValueSent(t) = SumOf(f, DOMAIN f)
    BY <2>1, <2>2 DEF ValueSent, SumOf
  <2>5. QED
    BY <2>1, <2>2, <2>3, <2>4 DEF Value
<1>2. QED
  BY <1>1 DEF ValueSums

LEMMA LessValue ==
  ASSUME TypeOK, FiniteBlocks, Waits, NEW t \in Txs
  PROVE  ValueSent(t)' <= ValueSent(t) /\ ValueSent(t)' \in Nat /\ ValueSent(t) \in Nat
<1>1. RapidWindow \in 0 .. Depth
  BY DepthFacts, FraudGateAssumption
<1>2. PICK S : S = RapidSent(t)
  OBVIOUS
<1>3. PICK R : R = RapidSent(t)'
  OBVIOUS
<1>4. PICK to : Younger(to, R, S)
  BY <1>1, <1>2, <1>3, NothingEnters DEF RapidSent
<1>5. IsFiniteSet(S)
  BY <1>1, <1>2, SentIsFinite DEF RapidSent
<1>6. IsFiniteSet(R)
  BY <1>4, <1>5, YoungerFits
<1>7. PICK f : f = [p \in S |-> ValueOf[p[2]]]
  OBVIOUS
<1>8. PICK h : h = [p \in R |-> ValueOf[p[2]]]
  OBVIOUS
<1>9. ValueSent(t) = SumOf(f, S) /\ ValueSent(t)' = SumOf(h, R)
  <2>1. ValueSums /\ ValueSums'
    BY ValuesAddUp, PTL
  <2>2. ValueSent(t) = Value(S) /\ ValueSent(t)' = Value(R)
    BY <1>2, <1>3, <2>1 DEF ValueSums
  <2>3. QED
    BY <1>7, <1>8, <2>2 DEF Value
<1>10. S \subseteq Nat \X Txs
  BY <1>2, FraudGateAssumption DEF RapidSent, Sent
<1>11. f \in [S -> Nat]
  BY <1>7, <1>10, FraudGateAssumption
<1>12. \A p \in R : to[p] \in S /\ h[p] = ValueOf[p[2]] /\ f[to[p]] = ValueOf[p[2]]
  BY <1>4, <1>7, <1>8 DEF Younger
<1>13. h \in [R -> Nat] /\ \A p \in R : h[p] <= f[to[p]]
  <2>1. \A p \in R : h[p] = f[to[p]] /\ f[to[p]] \in Nat
    BY <1>11, <1>12
  <2>2. QED
    BY <1>8, <2>1
<1>14. SumOf(h, R) <= SumOf(f, S)
  BY <1>4, <1>5, <1>6, <1>11, <1>13, SumOfInjection DEF Younger
<1>15. SumOf(h, R) \in Nat /\ SumOf(f, S) \in Nat
  <2>1. R \in SUBSET R /\ S \in SUBSET S
    OBVIOUS
  <2>2. QED
    BY <1>5, <1>6, <1>11, <1>13, <2>1, SumOfSteps
<1>16. QED
  BY <1>9, <1>14, <1>15

(* Half of what there was before is half of what there is now, or more.    *)
LEMMA QuotientIs ==
  ASSUME NEW m \in Nat, NEW n \in Nat, n > 0
  PROVE  m \div n >= 50 <=> m >= 50 * n
OBVIOUS

LEMMA DrainedIs ==
  ASSUME NEW b \in Nat, NEW v \in Nat
  PROVE  (b + v > 0 /\ (v * 100) \div (b + v) >= 50) <=> (b + v > 0 /\ v >= b)
<1>1. CASE b + v > 0
  <2>1. PICK m \in Nat, n \in Nat : m = v * 100 /\ n = b + v
    OBVIOUS
  <2>2. m \div n >= 50 <=> m >= 50 * n
    BY <1>1, <2>1, QuotientIs
  <2>3. m >= 50 * n <=> v >= b
    BY <2>1
  <2>4. QED
    BY <1>1, <2>1, <2>2, <2>3
<1>2. QED
  BY <1>1

(* The checks of history give no points that they did not give before.     *)
LEMMA NoNewFlags ==
  ASSUME TypeOK, FiniteBlocks, Waits, NEW t \in Txs
  PROVE  /\ IsExtremeVelocity(t)' => IsExtremeVelocity(t)
         /\ IsHighVelocity(t)' => IsHighVelocity(t) \/ IsExtremeVelocity(t)
         /\ DustAttack(t)' => DustAttack(t)
         /\ RapidWalletDrain(t)' => RapidWalletDrain(t)
<1>1. height' = height /\ height >= 1 /\ height = RapidWindow /\ UNCHANGED state
  BY FraudGateAssumption DEF Waits, Seal
<1>2. Balance(t)' = Balance(t) /\ Balance(t) \in Nat
  BY <1>1, FraudGateAssumption DEF Balance, state, TypeOK
<1>3. TxCount(t)' <= TxCount(t) /\ TxCount(t)' \in Nat /\ TxCount(t) \in Nat
  <2>1. VelocityWindow \in 0 .. Depth
    BY DepthFacts, FraudGateAssumption
  <2>2. QED
    BY <2>1, FewerSent DEF TxCount
<1>4. /\ Cardinality(RapidSent(t)') <= Cardinality(RapidSent(t))
      /\ Cardinality(RapidSent(t)') \in Nat /\ Cardinality(RapidSent(t)) \in Nat
  <2>1. RapidWindow \in 0 .. Depth
    BY DepthFacts, FraudGateAssumption
  <2>2. QED
    BY <2>1, FewerSent DEF RapidSent
<1>5. IsExtremeVelocity(t)' => IsExtremeVelocity(t)
  BY <1>1, <1>3, FraudGateAssumption DEF IsExtremeVelocity
<1>6. IsHighVelocity(t)' => IsHighVelocity(t) \/ IsExtremeVelocity(t)
  BY <1>1, <1>3, FraudGateAssumption DEF IsHighVelocity, IsExtremeVelocity
<1>7. DustAttack(t)' => DustAttack(t)
  BY <1>1, LessDust, FraudGateAssumption DEF DustAttack
<1>8. Drained(t)' => Drained(t)
  <2>1. PICK b \in Nat : b = Balance(t)
    BY <1>2
  <2>2. PICK v \in Nat : v = ValueSent(t)
    BY LessValue
  <2>3. PICK w \in Nat : w = ValueSent(t)'
    BY LessValue
  <2>4. w <= v
    BY <2>2, <2>3, LessValue
  <2>5. Drained(t) <=> b + v > 0 /\ (v * 100) \div (b + v) >= 50
    BY <2>1, <2>2 DEF Drained
  <2>6. Drained(t)' <=> b + w > 0 /\ (w * 100) \div (b + w) >= 50
    BY <1>2, <2>1, <2>3 DEF Drained
  <2>7. (b + v > 0 /\ v >= b) /\ Drained(t)' => Drained(t)
    BY <2>5, DrainedIs
  <2>8. Drained(t)' => b + w > 0 /\ w >= b
    BY <2>6, DrainedIs
  <2>9. QED
    BY <2>4, <2>7, <2>8
<1>9. RapidWalletDrain(t)' => RapidWalletDrain(t)
  BY <1>1, <1>4, <1>8, FraudGateAssumption DEF RapidWalletDrain
<1>10. QED
  BY <1>5, <1>6, <1>7, <1>9

(* An empty block raises no score once the chain is as long as the window  *)
(* of the rapid drain: whatever was sent only gets older.                  *)
THEOREM WaitingNeverHurts == Spec => EmptyBlockNeverRaises
<1>1. ASSUME TypeOK, FiniteBlocks, Waits, NEW t \in Txs
      PROVE  Score(t)' <= Score(t)
  <2>1. UNCHANGED state
    BY <1>1 DEF Waits, Seal
  <2>2. /\ NewWalletLargeTransfer(t)' <=> NewWalletLargeTransfer(t)
        /\ FullBalanceDrain(t)' <=> FullBalanceDrain(t)
        /\ LargeBalanceDrain(t)' <=> LargeBalanceDrain(t)
        /\ RoundNumber(t)' <=> RoundNumber(t)
        /\ SuspiciousRecipient(t)' <=> SuspiciousRecipient(t)
    BY <2>1 DEF NewWalletLargeTransfer, FullBalanceDrain, LargeBalanceDrain, RoundNumber,
                SuspiciousRecipient, Patterns, Balance, state
  <2>3. /\ IsExtremeVelocity(t)' => IsExtremeVelocity(t)
        /\ IsHighVelocity(t)' => IsHighVelocity(t) \/ IsExtremeVelocity(t)
        /\ DustAttack(t)' => DustAttack(t)
        /\ RapidWalletDrain(t)' => RapidWalletDrain(t)
    BY <1>1, NoNewFlags
  <2>4. ~ (IsHighVelocity(t) /\ IsExtremeVelocity(t))
    BY DEF IsHighVelocity
  <2>5. ~ (IsHighVelocity(t)' /\ IsExtremeVelocity(t)')
    BY DEF IsHighVelocity
  <2> DEFINE new   == Points(NewWalletLargeTransfer(t), 25)
             fast  == Points(IsExtremeVelocity(t), 40) + Points(IsHighVelocity(t), 20)
             full  == Points(FullBalanceDrain(t), 25)
             large == Points(LargeBalanceDrain(t), 15)
             round == Points(RoundNumber(t), 5)
             dust  == Points(DustAttack(t), 30)
             rapid == Points(RapidWalletDrain(t), 35)
             known == Points(SuspiciousRecipient(t), 40)
  <2>6. new' = new /\ full' = full /\ large' = large /\ round' = round /\ known' = known
    BY <2>2 DEF Points
  <2>7. fast' <= fast /\ fast' \in Nat /\ fast \in Nat
    BY <2>3, <2>4, <2>5 DEF Points
  <2>8. dust' <= dust /\ rapid' <= rapid
        /\ dust' \in Nat /\ dust \in Nat /\ rapid' \in Nat /\ rapid \in Nat
    BY <2>3 DEF Points
  <2>9. new \in Nat /\ full \in Nat /\ large \in Nat /\ round \in Nat /\ known \in Nat
    BY DEF Points
  <2>10. Score(t) = new + fast + full + large + round + dust + rapid + known
    BY DEF Score, Points
  <2>11. Score(t)' = new' + fast' + full' + large' + round' + dust' + rapid' + known'
    BY DEF Score, Points
  <2> HIDE DEF new, fast, full, large, round, dust, rapid, known
  <2>12. PICK rest \in Nat : rest = new + full + large + round + known
    BY <2>9
  <2>13. PICK f \in Nat, d \in Nat, r \in Nat : f = fast /\ d = dust /\ r = rapid
    BY <2>7, <2>8
  <2>14. PICK g \in Nat, e \in Nat, q \in Nat : g = fast' /\ e = dust' /\ q = rapid'
    BY <2>7, <2>8
  <2>15. Score(t) = rest + f + d + r
    BY <2>9, <2>10, <2>12, <2>13
  <2>16. Score(t)' = rest + g + e + q
    BY <2>6, <2>9, <2>11, <2>12, <2>14
  <2>17. g <= f /\ e <= d /\ q <= r
    BY <2>7, <2>8, <2>13, <2>14
  <2>18. QED
    BY <2>15, <2>16, <2>17
<1>2. TypeOK /\ FiniteBlocks /\ [Next]_vars =>
        [Seal /\ body = {} /\ height = RapidWindow
           => \A t \in Txs : Score(t)' <= Score(t)]_vars
  BY <1>1 DEF Waits
<1>3. QED
  BY <1>2, FraudGateTypeCorrect, BlocksAreFinite, PTL DEF Spec, EmptyBlockNeverRaises
=============================================================================
