----------------------------- MODULE NodeProofs -----------------------------
(***************************************************************************)
(* A node for every number of senders and transactions.  Whatever goes     *)
(* wrong: no transaction from the future is pooled, no block has two       *)
(* transactions of a sender, no transaction is in two accepted blocks, no  *)
(* block is without its nonces, and the chain begins with all of its       *)
(* allocation.  Unless something goes wrong, between two productions the   *)
(* state is what the blocks lead to, and what they contain has receipts.   *)
(***************************************************************************)
EXTENDS Node, FoldLemmas, FiniteSetTheorems, TLAPS

(* A transaction whose nonce the state has reached.                        *)
Past(t) == NonceOf[t] <= nonce[SenderOf[t]]

NonceType == nonce \in [Senders -> Nat]

(* What is pooled, or about to be inserted, is not from the future.        *)
PoolPast == pool \subseteq Txs /\ IsFiniteSet(pool) /\ \A t \in pool : Past(t)

RpcPast ==
  /\ rpc \in [Txs -> {"idle", "funded", "valid"}]
  /\ \A t \in Txs : rpc[t] = "valid" => Past(t)

(* Of a sender that the running block has a transaction of, the candidates *)
(* left are no later than that one.                                        *)
CandPast ==
  /\ cand \in Seq(Txs)
  /\ \A i \in DOMAIN cand :
       /\ Past(cand[i])
       /\ \A j \in DOMAIN done :
            SenderOf[cand[i]] = SenderOf[done[j]] => NonceOf[cand[i]] <= NonceOf[done[j]]

(* The block's transactions are used up, and of different senders.         *)
DonePast ==
  /\ done \in Seq(Txs)
  /\ \A j \in DOMAIN done : NonceOf[done[j]] < nonce[SenderOf[done[j]]]
  /\ ~ DuplicateSender

(* A running commit raises the nonce of the first candidate's sender, whom *)
(* the block has no transaction of yet, and lowers none.                   *)
Committing ==
  pc = "commit" =>
    LET h == Head(cand)
        s == SenderOf[h]
    IN /\ cand # <<>>
       /\ target.nonce \in [Senders -> Nat]
       /\ \A a \in Senders : nonce[a] <= target.nonce[a]
       /\ target.nonce[s] = NonceOf[h] + 1
       /\ <<s, "nonce">> \in pending \/ nonce[s] = NonceOf[h] + 1
       /\ \A i \in DOMAIN cand : SenderOf[cand[i]] = s => NonceOf[cand[i]] <= NonceOf[h]
       /\ \A j \in DOMAIN done : SenderOf[done[j]] # s

Inv == NonceType /\ PoolPast /\ RpcPast /\ CandPast /\ DonePast /\ Committing

-----------------------------------------------------------------------------
(* Sequences.                                                              *)

(* What is left of a sequence: all of it, none of it, or its tail.         *)
Rest(r, q) == r = q \/ r = <<>> \/ (q # <<>> /\ r = Tail(q))

LEMMA HeadOf ==
  ASSUME NEW S, NEW q \in Seq(S), q # <<>>
  PROVE  1 \in DOMAIN q /\ Head(q) = q[1] /\ Head(q) \in S
OBVIOUS

LEMMA TailOf ==
  ASSUME NEW S, NEW q \in Seq(S), q # <<>>
  PROVE  /\ Tail(q) \in Seq(S)
         /\ \A i \in DOMAIN Tail(q) : i + 1 \in DOMAIN q /\ Tail(q)[i] = q[i + 1]
         /\ \A i \in DOMAIN Tail(q) : i \in Nat
OBVIOUS

LEMMA EmptyOf == ASSUME NEW S PROVE <<>> \in Seq(S) /\ DOMAIN <<>> = {}
OBVIOUS

LEMMA RestOf ==
  ASSUME NEW S, NEW q \in Seq(S), NEW r, Rest(r, q)
  PROVE  /\ r \in Seq(S)
         /\ \A i \in DOMAIN r : \E k \in DOMAIN q : r[i] = q[k]
         /\ \A i, j \in DOMAIN r : i # j =>
              \E k, l \in DOMAIN q : k # l /\ r[i] = q[k] /\ r[j] = q[l]
<1>1. CASE r = q
  BY <1>1
<1>2. CASE r = <<>>
  BY <1>2, EmptyOf
<1>3. CASE q # <<>> /\ r = Tail(q)
  <2>1. r \in Seq(S)
    BY <1>3, TailOf
  <2>2. ASSUME NEW i \in DOMAIN r
        PROVE  i \in Nat /\ i + 1 \in DOMAIN q /\ r[i] = q[i + 1]
    BY <1>3, TailOf
  <2>3. ASSUME NEW i \in DOMAIN r, NEW j \in DOMAIN r, i # j
        PROVE  \E k, l \in DOMAIN q : k # l /\ r[i] = q[k] /\ r[j] = q[l]
    <3>1. i + 1 # j + 1
      BY <2>2, <2>3
    <3>2. QED
      BY <2>2, <3>1
  <2>4. QED
    BY <2>1, <2>2, <2>3
<1>4. QED
  BY <1>1, <1>2, <1>3 DEF Rest

LEMMA AppendOf ==
  ASSUME NEW S, NEW q \in Seq(S), NEW e \in S
  PROVE  /\ Append(q, e) \in Seq(S)
         /\ \A i \in DOMAIN Append(q, e) :
              \/ i \in DOMAIN q /\ Append(q, e)[i] = q[i]
              \/ i = Len(q) + 1 /\ Append(q, e)[i] = e
OBVIOUS

-----------------------------------------------------------------------------
(* Replays.                                                                *)

(* A state of the database; a torn one may lead to negative balances.      *)
Ledger == [bal : [Accounts -> Int], nonce : [Senders -> Nat]]

LEMMA ExecutedTyped ==
  ASSUME NEW st \in Ledger, NEW t \in Txs
  PROVE  Executed(st, t) \in Ledger
<1>1. /\ Fee(t) \in Int /\ ValueOf[t] \in Int /\ SenderOf[t] \in Senders
      /\ st.bal \in [Accounts -> Int] /\ st.nonce \in [Senders -> Nat]
  BY NodeAssumption DEF Fee, Ledger
<1> HIDE DEF Fee
<1>2. Executed(st, t).nonce \in [Senders -> Nat]
  BY <1>1 DEF Executed
<1>3. Executed(st, t).bal \in [Accounts -> Int]
  BY <1>1 DEF Executed
<1>4. Executed(st, t) = [bal |-> Executed(st, t).bal, nonce |-> Executed(st, t).nonce]
  BY DEF Executed
<1>5. QED
  BY <1>2, <1>3, <1>4 DEF Ledger

(* The positions of q, the last one last, and what each of them does.      *)
LastOf(q) == [s \in SUBSET DOMAIN q |-> Max(s)]
EffectOf(q) == [i \in DOMAIN q |-> [st \in Ledger |-> Executed(st, q[i])]]

LEMMA FoldSteps ==
  ASSUME NEW st \in Ledger, NEW q \in Seq(Txs)
  PROVE  /\ Picks(LastOf(q), DOMAIN q)
         /\ \E g \in [SUBSET DOMAIN q -> Ledger] :
              /\ FoldLeft(Executed, st, q) = g[DOMAIN q]
              /\ Folds(g, DOMAIN q, Ledger, st, EffectOf(q), LastOf(q))
<1> DEFINE S == DOMAIN q
           step(f) == [s \in SUBSET S |->
                         IF s = {} THEN st ELSE Executed(f[s \ {Max(s)}], q[Max(s)])]
           run == CHOOSE f : f = step(f)
<1>1. FoldLeft(Executed, st, q) = run[S]
  BY DEF FoldLeft, MapThenFoldSet
<1>2. S = 1 .. Len(q) /\ Len(q) \in Nat /\ IsFiniteSet(S)
  BY FS_Interval
<1>3. Picks(LastOf(q), S)
  BY <1>2, MaxIn DEF Picks, LastOf
<1>4. EffectOf(q) \in [S -> [Ledger -> Ledger]]
  <2>1. \A i \in S : q[i] \in Txs
    OBVIOUS
  <2>2. \A i \in S, x \in Ledger : Executed(x, q[i]) \in Ledger
    BY <2>1, ExecutedTyped
  <2>3. QED
    BY <2>2 DEF EffectOf
<1>5. PICK g \in [SUBSET S -> Ledger] : Folds(g, S, Ledger, st, EffectOf(q), LastOf(q))
  BY <1>2, <1>3, <1>4, FoldExists
<1>6. ASSUME NEW s \in SUBSET S
      PROVE  g[s] = step(g)[s]
  <2>1. CASE s = {}
    BY <1>5, <2>1 DEF Folds
  <2>2. CASE s # {}
    <3> DEFINE m == Max(s)
    <3>1. m \in S /\ s \ {m} \in SUBSET S /\ LastOf(q)[s] = m
      BY <1>3, <2>2 DEF Picks, LastOf
    <3>2. g[s] = EffectOf(q)[m][g[s \ {m}]]
      BY <1>5, <2>2, <3>1 DEF Folds
    <3>3. EffectOf(q)[m][g[s \ {m}]] = Executed(g[s \ {m}], q[m])
      BY <3>1 DEF EffectOf
    <3>4. QED
      BY <2>2, <3>2, <3>3
  <2>3. QED
    BY <2>1, <2>2
<1>7. run = step(run)
  <2>1. g = step(g)
    BY <1>6
  <2>2. QED
    BY <2>1
<1> HIDE DEF run
<1>8. Folds(run, S, Ledger, st, EffectOf(q), LastOf(q))
  <2>1. \A s \in SUBSET S :
          run[s] = IF s = {} THEN st ELSE Executed(run[s \ {Max(s)}], q[Max(s)])
    BY <1>7
  <2>2. ASSUME NEW s \in SUBSET S, s # {}, run[s \ {LastOf(q)[s]}] \in Ledger
        PROVE  run[s] = EffectOf(q)[LastOf(q)[s]][run[s \ {LastOf(q)[s]}]]
    <3> DEFINE m == Max(s)
    <3>1. m \in S /\ LastOf(q)[s] = m
      BY <1>3, <2>2 DEF Picks, LastOf
    <3>2. EffectOf(q)[m][run[s \ {m}]] = Executed(run[s \ {m}], q[m])
      BY <2>2, <3>1 DEF EffectOf
    <3>3. QED
      BY <2>1, <2>2, <3>1, <3>2
  <2>3. QED
    BY <2>1, <2>2 DEF Folds
<1>9. \A s \in SUBSET S : g[s] = run[s]
  <2>1. IsFold(g, S, Ledger, st, EffectOf(q), LastOf(q))
    BY <1>2, <1>3, <1>5 DEF IsFold
  <2> HIDE DEF S
  <2>2. QED
    BY <1>8, <2>1, FoldUnique
<1>10. FoldLeft(Executed, st, q) = g[S]
  BY <1>1, <1>9
<1>11. QED
  BY <1>3, <1>5, <1>10

LEMMA FoldNone ==
  ASSUME NEW st \in Ledger
  PROVE  FoldLeft(Executed, st, <<>>) = st
<1>1. <<>> \in Seq(Txs) /\ DOMAIN <<>> = {}
  BY EmptyOf
<1> DEFINE q == <<>>
<1>2. \E g \in [SUBSET DOMAIN q -> Ledger] :
        /\ FoldLeft(Executed, st, q) = g[DOMAIN q]
        /\ Folds(g, DOMAIN q, Ledger, st, EffectOf(q), LastOf(q))
  <2>1. q \in Seq(Txs)
    BY <1>1
  <2> HIDE DEF q
  <2>2. QED
    BY <2>1, FoldSteps
<1>3. DOMAIN q = {} /\ {} \in SUBSET DOMAIN q
  BY <1>1
<1> HIDE DEF q
<1>4. QED
  BY <1>2, <1>3 DEF Folds, q

(* One transaction more is one execution more, and the last one.           *)
LEMMA FoldOneMore ==
  ASSUME NEW st \in Ledger, NEW q \in Seq(Txs), NEW t \in Txs
  PROVE  /\ FoldLeft(Executed, st, q) \in Ledger
         /\ FoldLeft(Executed, st, Append(q, t)) =
              Executed(FoldLeft(Executed, st, q), t)
<1> DEFINE r == Append(q, t)
           n == Len(q)
           S == 1 .. n
           R == 1 .. n + 1
<1>1. /\ n \in Nat /\ DOMAIN q = S /\ DOMAIN r = R /\ r \in Seq(Txs)
      /\ r[n + 1] = t /\ \A i \in S : r[i] = q[i]
  OBVIOUS
<1> HIDE DEF r, n, S, R
<1>2. Picks(LastOf(q), S) /\ Picks(LastOf(r), R)
  BY <1>1, FoldSteps
<1>3. PICK g \in [SUBSET S -> Ledger] :
        /\ FoldLeft(Executed, st, q) = g[S]
        /\ Folds(g, S, Ledger, st, EffectOf(q), LastOf(q))
  BY <1>1, FoldSteps
<1>4. PICK h \in [SUBSET R -> Ledger] :
        /\ FoldLeft(Executed, st, r) = h[R]
        /\ Folds(h, R, Ledger, st, EffectOf(r), LastOf(r))
  <2>1. r \in Seq(Txs) /\ DOMAIN r = R
    BY <1>1
  <2>2. \E h \in [SUBSET DOMAIN r -> Ledger] :
          /\ FoldLeft(Executed, st, r) = h[DOMAIN r]
          /\ Folds(h, DOMAIN r, Ledger, st, EffectOf(r), LastOf(r))
    BY <2>1, FoldSteps
  <2>3. QED
    BY <2>1, <2>2
<1>5. S \subseteq R /\ R # {} /\ R \ {n + 1} = S /\ n + 1 \in R
  <2>1. n \in Nat
    BY <1>1
  <2>2. n + 1 \in 1 .. n + 1 /\ \A i : i \in (1 .. n + 1) \ {n + 1} <=> i \in 1 .. n
    BY <2>1
  <2>3. QED
    BY <2>2 DEF S, R
<1>6. Folds(h, S, Ledger, st, EffectOf(q), LastOf(q))
  <2>1. ASSUME NEW s \in SUBSET S, s # {}, h[s \ {LastOf(q)[s]}] \in Ledger
        PROVE  h[s] = EffectOf(q)[LastOf(q)[s]][h[s \ {LastOf(q)[s]}]]
    <3> DEFINE m == LastOf(q)[s]
    <3>1. s \in SUBSET R /\ m = LastOf(r)[s] /\ m \in S /\ m \in R
      BY <1>1, <1>2, <1>5, <2>1 DEF LastOf, Picks
    <3>2. h[s] = EffectOf(r)[m][h[s \ {m}]]
      BY <1>4, <2>1, <3>1 DEF Folds
    <3>3. EffectOf(r)[m] = EffectOf(q)[m]
      BY <1>1, <3>1 DEF EffectOf
    <3>4. QED
      BY <3>2, <3>3
  <2>2. ASSUME NEW s \in SUBSET S, s = {}
        PROVE  h[s] = st
    BY <1>4, <1>5, <2>2 DEF Folds
  <2>3. QED
    BY <2>1, <2>2 DEF Folds
<1>7. IsFiniteSet(S)
  BY <1>1, FS_Interval DEF S
<1>8. g[S] = h[S] /\ g[S] \in Ledger
  <2>1. IsFold(g, S, Ledger, st, EffectOf(q), LastOf(q))
    BY <1>2, <1>3, <1>7 DEF IsFold
  <2>2. \A s \in SUBSET S : g[s] = h[s]
    BY <1>6, <2>1, FoldUnique
  <2>3. QED
    BY <2>2
<1>9. LastOf(r)[R] = n + 1
  <2>1. Max(R) \in R /\ \A x \in R : x <= Max(R)
    <3>1. n + 1 \in Nat /\ R \in SUBSET (1 .. n + 1) /\ R # {}
      BY <1>1, <1>5 DEF R
    <3>2. QED
      BY <3>1, MaxIn
  <2>2. Max(R) = n + 1
    BY <1>1, <1>5, <2>1 DEF R
  <2>3. QED
    BY <1>1, <2>2 DEF LastOf
<1>10. h[R] = EffectOf(r)[n + 1][h[S]]
  BY <1>4, <1>5, <1>8, <1>9 DEF Folds
<1>11. EffectOf(r)[n + 1][h[S]] = Executed(h[S], t)
  BY <1>1, <1>5, <1>8 DEF EffectOf
<1>12. QED
  BY <1>3, <1>4, <1>8, <1>10, <1>11 DEF r

(* What a block burns is a number.                                         *)
LEMMA BurnTyped ==
  ASSUME NEW q \in Seq(Txs)
  PROVE  Burn(q) \in Nat
<1> DEFINE S == DOMAIN q
           pick == [s \in SUBSET S |-> CHOOSE x \in s : TRUE]
           op == [i \in S |-> [v \in Nat |-> Fee(q[i]) + v]]
           step(f) == [s \in SUBSET S |->
                         IF s = {} THEN 0
                         ELSE Fee(q[CHOOSE x \in s : TRUE]) + f[s \ {CHOOSE x \in s : TRUE}]]
           sums == CHOOSE f : f = step(f)
<1>1. Burn(q) = sums[S] \div 2
  BY DEF Burn, MapThenSumSet, MapThenFoldSet
<1>2. IsFiniteSet(S)
  <2>1. S = 1 .. Len(q) /\ Len(q) \in Nat
    OBVIOUS
  <2>2. QED
    BY <2>1, FS_Interval
<1>3. Picks(pick, S)
  BY DEF Picks
<1>4. \A i \in S : Fee(q[i]) \in Nat
  <2>1. \A t \in Txs : Fee(t) \in Nat
    BY NodeAssumption DEF Fee
  <2>2. \A i \in S : q[i] \in Txs
    OBVIOUS
  <2>3. QED
    BY <2>1, <2>2
<1>5. op \in [S -> [Nat -> Nat]]
  BY <1>4
<1> HIDE DEF op
<1>6. PICK g \in [SUBSET S -> Nat] : Folds(g, S, Nat, 0, op, pick)
  BY <1>2, <1>3, <1>5, FoldExists
<1>7. ASSUME NEW s \in SUBSET S
      PROVE  g[s] = step(g)[s]
  <2>1. CASE s = {}
    BY <1>6, <2>1 DEF Folds
  <2>2. CASE s # {}
    <3> DEFINE m == CHOOSE x \in s : TRUE
    <3>1. m \in S /\ s \ {m} \in SUBSET S /\ pick[s] = m
      BY <1>3, <2>2 DEF Picks
    <3> HIDE DEF pick
    <3>2. g[s] = op[m][g[s \ {m}]]
      BY <1>6, <2>2, <3>1 DEF Folds
    <3>3. op[m][g[s \ {m}]] = Fee(q[m]) + g[s \ {m}]
      BY <3>1 DEF op
    <3>4. QED
      BY <2>2, <3>2, <3>3
  <2>3. QED
    BY <2>1, <2>2
<1>8. sums = step(sums)
  <2>1. g = step(g)
    BY <1>7
  <2>2. QED
    BY <2>1
<1> HIDE DEF sums
<1>9. Folds(sums, S, Nat, 0, op, pick)
  <2>1. \A s \in SUBSET S :
          sums[s] = IF s = {} THEN 0 ELSE Fee(q[CHOOSE x \in s : TRUE])
                                            + sums[s \ {CHOOSE x \in s : TRUE}]
    BY <1>8
  <2>2. ASSUME NEW s \in SUBSET S, s # {}, sums[s \ {pick[s]}] \in Nat
        PROVE  sums[s] = op[pick[s]][sums[s \ {pick[s]}]]
    <3> DEFINE m == CHOOSE x \in s : TRUE
    <3>1. m \in S /\ pick[s] = m
      BY <1>3, <2>2 DEF Picks
    <3>2. op[m][sums[s \ {m}]] = Fee(q[m]) + sums[s \ {m}]
      BY <2>2, <3>1 DEF op
    <3>3. QED
      BY <2>1, <2>2, <3>1, <3>2
  <2>3. QED
    BY <2>1, <2>2 DEF Folds
<1>10. \A s \in SUBSET S : g[s] = sums[s]
  <2>1. IsFold(g, S, Nat, 0, op, pick)
    BY <1>2, <1>3, <1>6 DEF IsFold
  <2> HIDE DEF S, pick
  <2>2. QED
    BY <1>9, <2>1, FoldUnique
<1>11. sums[S] \in Nat
  BY <1>10
<1>12. QED
  BY <1>1, <1>11

LEMMA BurntTyped ==
  ASSUME NEW b \in [Accounts -> Int], NEW q \in Seq(Txs)
  PROVE  /\ Burnt(b, q) \in [Accounts -> Int]
         /\ b \in [Accounts -> Nat] => Burnt(b, q) \in [Accounts -> Nat]
<1>1. Burn(q) \in Nat /\ b[Validator] \in Int /\ Validator \in Accounts
  BY BurnTyped, NodeAssumption
<1> DEFINE left == b[Validator] - Burn(q)
<1>2. left \in Int
  BY <1>1
<1>3. Max({left, 0}) \in Nat
  <2> HIDE DEF left
  <2>1. \E x \in {left, 0} : \A y \in {left, 0} : x >= y
    BY <1>2
  <2>2. Max({left, 0}) \in {left, 0} /\ \A y \in {left, 0} : Max({left, 0}) >= y
    BY <2>1 DEF Max
  <2>3. QED
    BY <1>2, <2>2
<1>4. Burnt(b, q) = [b EXCEPT ![Validator] = Max({left, 0})]
  BY DEF Burnt
<1>5. QED
  BY <1>1, <1>3, <1>4

-----------------------------------------------------------------------------
(* The mempool, as far as the invariant needs it.                          *)

(* An insert adds its transaction at most.                                 *)
LEMMA InsertAdds ==
  ASSUME NEW t, M!Insert(t)
  PROVE  pool' \subseteq pool \cup {t}
BY DEF M!Insert, M!InsertDuplicate, M!InsertGap, M!InsertWithin, M!InsertEvicting,
       M!Inserted

LEMMA RemoveTakes ==
  ASSUME NEW t, M!Remove(t)
  PROVE  pool' \subseteq pool
BY DEF M!Remove

-----------------------------------------------------------------------------
(* What a step has to leave alone, or may take away.                       *)

(* Everything but the commit survives a step that raises nonces, and that  *)
(* takes from the pool, the handlers, the candidates and the block.        *)
LEMMA Shrinks ==
  ASSUME Inv, nonce' \in [Senders -> Nat],
         \A s \in Senders : nonce[s] <= nonce'[s],
         pool' \subseteq pool,
         rpc' \in {rpc, [t \in Txs |-> "idle"]},
         Rest(cand', cand), Rest(done', done)
  PROVE  NonceType' /\ PoolPast' /\ RpcPast' /\ CandPast' /\ DonePast'
<1>1. ASSUME NEW t \in Txs
      PROVE  /\ NonceOf[t] \in Nat /\ SenderOf[t] \in Senders
             /\ nonce[SenderOf[t]] \in Nat /\ nonce'[SenderOf[t]] \in Nat
             /\ nonce[SenderOf[t]] <= nonce'[SenderOf[t]]
  BY NodeAssumption DEF Inv, NonceType
<1>2. \A t \in Txs : Past(t) => Past(t)'
  BY <1>1, NodeAssumption DEF Past
<1>3. NonceType'
  BY DEF NonceType
<1>4. PoolPast'
  BY <1>2, FS_Subset DEF Inv, PoolPast
<1>5. RpcPast'
  BY <1>2 DEF Inv, RpcPast
<1>6. /\ cand \in Seq(Txs) /\ done \in Seq(Txs)
      /\ \A i \in DOMAIN cand : cand[i] \in Txs
      /\ \A j \in DOMAIN done : done[j] \in Txs
  BY DEF Inv, CandPast, DonePast
<1>7. /\ cand' \in Seq(Txs)
      /\ \A i \in DOMAIN cand' : \E k \in DOMAIN cand : cand'[i] = cand[k]
  BY <1>6, RestOf
<1>8. /\ done' \in Seq(Txs)
      /\ \A i \in DOMAIN done' : \E k \in DOMAIN done : done'[i] = done[k]
      /\ \A i, j \in DOMAIN done' : i # j =>
           \E k, l \in DOMAIN done : k # l /\ done'[i] = done[k] /\ done'[j] = done[l]
  BY <1>6, RestOf
<1>9. CandPast'
  <2>1. ASSUME NEW i \in DOMAIN cand'
        PROVE  /\ NonceOf[cand'[i]] <= nonce'[SenderOf[cand'[i]]]
               /\ \A j \in DOMAIN done' :
                    SenderOf[cand'[i]] = SenderOf[done'[j]] => NonceOf[cand'[i]] <= NonceOf[done'[j]]
    <3>1. PICK k \in DOMAIN cand : cand'[i] = cand[k]
      BY <1>7
    <3>2. Past(cand[k])
      BY DEF Inv, CandPast
    <3> DEFINE t == cand[k]
    <3>3. NonceOf[t] <= nonce'[SenderOf[t]]
      <4>1. t \in Txs /\ NonceOf[t] <= nonce[SenderOf[t]]
        BY <1>6, <3>2 DEF Past
      <4> HIDE DEF t
      <4>2. QED
        BY <1>1, <4>1
    <3>4. \A j \in DOMAIN done :
            SenderOf[t] = SenderOf[done[j]] => NonceOf[t] <= NonceOf[done[j]]
      BY DEF Inv, CandPast
    <3> HIDE DEF t
    <3>5. cand'[i] = t
      BY <3>1 DEF t
    <3>6. QED
      BY <1>8, <3>3, <3>4, <3>5
  <2>2. QED
    BY <1>7, <2>1 DEF CandPast, Past
<1>10. \A j \in DOMAIN done' : NonceOf[done'[j]] < nonce'[SenderOf[done'[j]]]
  <2>1. \A k \in DOMAIN done : NonceOf[done[k]] < nonce[SenderOf[done[k]]]
    BY DEF Inv, DonePast
  <2>2. \A k \in DOMAIN done : NonceOf[done[k]] < nonce'[SenderOf[done[k]]]
    BY <1>1, <1>6, <2>1
  <2>3. QED
    BY <1>8, <2>2
<1>11. ~ DuplicateSender'
  BY <1>8 DEF Inv, DonePast, DuplicateSender
<1>12. QED
  BY <1>3, <1>4, <1>5, <1>8, <1>9, <1>10, <1>11 DEF DonePast

LEMMA Still ==
  ASSUME NonceType, nonce' = nonce
  PROVE  nonce' \in [Senders -> Nat] /\ \A s \in Senders : nonce[s] <= nonce'[s]
BY DEF NonceType

(* The handlers: a nonce that was read is reached.                         *)
LEMMA HandleKeeps ==
  ASSUME Inv, NEW t \in Txs, Handle(t)
  PROVE  Inv'
<1> USE NodeAssumption
<1>1. /\ nonce' = nonce /\ cand' = cand /\ done' = done
      /\ pc' = pc /\ pending' = pending /\ target' = target
  BY DEF Handle, CheckBalance, CheckNonce, Submit, state, loop
<1>2. NonceType' /\ CandPast' /\ DonePast' /\ Committing'
  BY <1>1 DEF Inv, NonceType, CandPast, DonePast, Committing, DuplicateSender, Past
<1>3. RpcPast'
  BY <1>1 DEF Inv, RpcPast, Past, Handle, CheckBalance, CheckNonce, Submit,
              NonceMatches, NonceType
<1>4. PoolPast'
  <2>1. CASE Submit(t)
    <3>1. pool' \subseteq pool \cup {t} /\ Past(t)
      BY <2>1, InsertAdds DEF Submit, Inv, RpcPast
    <3>2. IsFiniteSet(pool \cup {t})
      BY FS_AddElement DEF Inv, PoolPast
    <3>3. IsFiniteSet(pool')
      BY <3>1, <3>2, FS_Subset
    <3>4. QED
      BY <1>1, <3>1, <3>3 DEF Inv, PoolPast, Past
  <2>2. CASE CheckBalance(t) \/ CheckNonce(t)
    BY <1>1, <2>2 DEF CheckBalance, CheckNonce, mempool, Inv, PoolPast, Past
  <2>3. QED
    BY <2>1, <2>2 DEF Handle
<1>5. QED
  BY <1>2, <1>3, <1>4 DEF Inv

(* Before it serves, and in its sleep, the node touches no nonce.          *)
LEMMA BootKeeps ==
  ASSUME Inv, Boot
  PROVE  Inv'
<1>1. /\ nonce' = nonce /\ pool' = pool /\ rpc' = rpc /\ cand' = cand /\ done' = done
      /\ pc' # "commit"
  BY DEF Boot, Allocate, CreateGenesis, RegisterValidator, Serve, state, mempool, loop
<1>2. Rest(cand', cand) /\ Rest(done', done) /\ NonceType'
  BY <1>1 DEF Rest, Inv, NonceType
<1>3. QED
  BY <1>1, <1>2, Still, Shrinks DEF Inv, Committing

-----------------------------------------------------------------------------
(* produce_block.                                                          *)

(* The snapshot is of the pool.                                            *)
LEMMA WakeKeeps ==
  ASSUME Inv, Wake
  PROVE  Inv'
<1> DEFINE n == Min({BestLimit, Cardinality(pool)})
<1>1. n \in Nat
  <2>1. Cardinality(pool) \in Nat
    BY FS_CardinalityType DEF Inv, PoolPast
  <2>2. \E x \in {BestLimit, Cardinality(pool)} :
           \A y \in {BestLimit, Cardinality(pool)} : x <= y
    BY <2>1, NodeAssumption
  <2>3. n \in {BestLimit, Cardinality(pool)}
    BY <2>2 DEF Min
  <2>4. QED
    BY <2>1, <2>3, NodeAssumption
<1>2. cand' \in [1 .. n -> pool]
  BY DEF Wake
<1> HIDE DEF n
<1>3. done' = <<>> /\ pc' = "loop" /\ nonce' = nonce /\ pool' = pool /\ rpc' = rpc
  BY DEF Wake, state, mempool
<1>4. pool \subseteq Txs
  BY DEF Inv, PoolPast
<1>5. cand' \in Seq(Txs) /\ \A i \in DOMAIN cand' : cand'[i] \in pool
  BY <1>1, <1>2, <1>4
<1>6. \A i \in DOMAIN cand' : NonceOf[cand'[i]] <= nonce'[SenderOf[cand'[i]]]
  BY <1>3, <1>5 DEF Inv, PoolPast, Past
<1>7. done' \in Seq(Txs) /\ DOMAIN done' = {}
  BY <1>3, EmptyOf
<1>8. CandPast' /\ DonePast'
  BY <1>5, <1>6, <1>7 DEF CandPast, DonePast, DuplicateSender, Past
<1>9. NonceType' /\ PoolPast' /\ RpcPast' /\ Committing'
  BY <1>3 DEF Inv, NonceType, PoolPast, RpcPast, Past, Committing
<1>10. QED
  BY <1>8, <1>9 DEF Inv

(* The next transaction is of a sender that the block has none of: the     *)
(* candidates of the others are behind.                                    *)
LEMMA ExecuteKeeps ==
  ASSUME Inv, NEW t \in Txs, Execute(t)
  PROVE  Inv'
<1>1. /\ nonce' = nonce /\ pool' = pool /\ rpc' = rpc /\ cand' = cand /\ done' = done
      /\ pc' = "commit" /\ cand # <<>> /\ t = Head(cand) /\ NonceOf[t] = nonce[SenderOf[t]]
  BY DEF Execute, Trying, Valid, NonceMatches, state, mempool
<1>2. NonceType' /\ PoolPast' /\ RpcPast' /\ CandPast' /\ DonePast'
  BY <1>1, Still, Shrinks DEF Inv, Rest
<1>3. target'.nonce = [nonce EXCEPT ![SenderOf[t]] = nonce[SenderOf[t]] + 1]
  BY DEF Execute, Executed, Now
<1>4. /\ target'.nonce \in [Senders -> Nat]
      /\ \A a \in Senders : nonce[a] <= target'.nonce[a]
      /\ target'.nonce[SenderOf[t]] = NonceOf[t] + 1
  <2>1. nonce \in [Senders -> Nat] /\ SenderOf[t] \in Senders
    BY NodeAssumption DEF Inv, NonceType
  <2>2. target'.nonce \in [Senders -> Nat]
    BY <1>3, <2>1
  <2>3. /\ \A a \in Senders : a # SenderOf[t] => target'.nonce[a] = nonce[a]
        /\ target'.nonce[SenderOf[t]] = nonce[SenderOf[t]] + 1
    BY <1>3, <2>1
  <2>4. NonceOf[t] = nonce[SenderOf[t]] /\ \A a \in Senders : nonce[a] \in Nat
    BY <1>1, <2>1
  <2>5. QED
    BY <2>1, <2>2, <2>3, <2>4
<1>5. <<SenderOf[t], "nonce">> \in pending'
  BY NodeAssumption DEF Execute, Touched
<1>6. \A i \in DOMAIN cand : SenderOf[cand[i]] = SenderOf[t] => NonceOf[cand[i]] <= NonceOf[t]
  <2>1. \A i \in DOMAIN cand : NonceOf[cand[i]] <= nonce[SenderOf[cand[i]]]
    BY DEF Inv, CandPast, Past
  <2>2. QED
    BY <1>1, <2>1
<1>7. ASSUME NEW j \in DOMAIN done, SenderOf[done[j]] = SenderOf[t]
      PROVE  FALSE
  <2>1. 1 \in DOMAIN cand /\ t = cand[1]
    BY <1>1, HeadOf DEF Inv, CandPast
  <2>2. NonceOf[t] <= NonceOf[done[j]]
    BY <1>7, <2>1 DEF Inv, CandPast
  <2>3. NonceOf[done[j]] < nonce[SenderOf[t]] /\ done[j] \in Txs
    BY <1>7 DEF Inv, DonePast
  <2>4. NonceOf[t] \in Nat /\ NonceOf[done[j]] \in Nat
    BY <2>3, NodeAssumption
  <2>5. QED
    BY <1>1, <2>2, <2>3, <2>4
<1>8. Committing'
  BY <1>1, <1>4, <1>5, <1>6, <1>7 DEF Committing
<1>9. QED
  BY <1>2, <1>8 DEF Inv

(* The puts of a commit: a nonce only rises to its target.                 *)
LEMMA PutKeeps ==
  ASSUME Inv, NEW a \in Accounts, PutBalance(a) \/ PutNonce(a)
  PROVE  Inv'
<1>1. /\ pc = "commit" /\ pc' = pc /\ pool' = pool /\ rpc' = rpc
      /\ cand' = cand /\ done' = done /\ target' = target
      /\ nonce' \in {nonce, [nonce EXCEPT ![a] = target.nonce[a]]}
      /\ \A s \in Senders : <<s, "nonce">> \in pending =>
           <<s, "nonce">> \in pending' \/ nonce' = [nonce EXCEPT ![s] = target.nonce[s]]
  BY DEF PutBalance, PutNonce, mempool
<1>2. /\ target.nonce \in [Senders -> Nat]
      /\ \A s \in Senders : nonce[s] <= target.nonce[s]
  BY <1>1 DEF Inv, Committing
<1>3. /\ nonce' \in [Senders -> Nat]
      /\ \A s \in Senders : nonce[s] <= nonce'[s] /\ nonce'[s] <= target.nonce[s]
  BY <1>1, <1>2 DEF Inv, NonceType
<1>4. NonceType' /\ PoolPast' /\ RpcPast' /\ CandPast' /\ DonePast'
  BY <1>1, <1>3, Shrinks DEF Rest
<1>5. Committing'
  <2>1. cand # <<>> /\ SenderOf[Head(cand)] \in Senders
    BY <1>1, HeadOf, NodeAssumption DEF Inv, Committing, CandPast
  <2> DEFINE s == SenderOf[Head(cand)]
  <2>2. target.nonce[s] = NonceOf[Head(cand)] + 1
    BY <1>1 DEF Inv, Committing
  <2>3. <<s, "nonce">> \in pending' \/ nonce'[s] = NonceOf[Head(cand)] + 1
    <3>1. CASE <<s, "nonce">> \in pending
      BY <1>1, <2>1, <2>2, <3>1 DEF Inv, NonceType
    <3>2. CASE nonce[s] = NonceOf[Head(cand)] + 1
      <4>1. nonce[s] <= nonce'[s] /\ nonce'[s] <= target.nonce[s]
        BY <1>3, <2>1
      <4>2. nonce[s] \in Nat /\ nonce'[s] \in Nat
        BY <1>3, <2>1 DEF Inv, NonceType
      <4>3. QED
        BY <2>2, <3>2, <4>1, <4>2
    <3>3. QED
      BY <1>1, <3>1, <3>2 DEF Inv, Committing
  <2>4. QED
    BY <1>1, <1>2, <1>3, <2>1, <2>2, <2>3 DEF Inv, Committing
<1>6. QED
  BY <1>4, <1>5 DEF Inv

(* The transaction joins the block.                                        *)
LEMMA ApplyKeeps ==
  ASSUME Inv, Apply
  PROVE  Inv'
<1> DEFINE h == Head(cand)
<1>1. /\ pc = "commit" /\ pc' = "loop" /\ pending = {}
      /\ pool' = pool /\ rpc' = rpc /\ nonce' = nonce
      /\ cand' = Tail(cand) /\ done' = Append(done, h)
  BY DEF Apply, mempool, state
<1>2. /\ cand # <<>>
      /\ nonce[SenderOf[h]] = NonceOf[h] + 1
      /\ \A i \in DOMAIN cand :
           SenderOf[cand[i]] = SenderOf[h] => NonceOf[cand[i]] <= NonceOf[h]
      /\ \A j \in DOMAIN done : SenderOf[done[j]] # SenderOf[h]
  BY <1>1 DEF Inv, Committing
<1>3. /\ h \in Txs /\ cand' \in Seq(Txs)
      /\ \A i \in DOMAIN cand' : \E k \in DOMAIN cand : cand'[i] = cand[k]
  BY <1>1, <1>2, HeadOf, RestOf DEF Rest, Inv, CandPast
<1>4. /\ done' \in Seq(Txs)
      /\ \A j \in DOMAIN done' : \/ j \in DOMAIN done /\ done'[j] = done[j]
                                 \/ j = Len(done) + 1 /\ done'[j] = h
  BY <1>1, <1>3, AppendOf DEF Inv, DonePast
<1> HIDE DEF h
<1>5. CandPast'
  <2>1. ASSUME NEW i \in DOMAIN cand'
        PROVE  /\ NonceOf[cand'[i]] <= nonce'[SenderOf[cand'[i]]]
               /\ \A j \in DOMAIN done' :
                    SenderOf[cand'[i]] = SenderOf[done'[j]] => NonceOf[cand'[i]] <= NonceOf[done'[j]]
    <3>1. PICK k \in DOMAIN cand : cand'[i] = cand[k]
      BY <1>3
    <3>2. /\ NonceOf[cand[k]] <= nonce[SenderOf[cand[k]]]
          /\ \A j \in DOMAIN done :
               SenderOf[cand[k]] = SenderOf[done[j]] => NonceOf[cand[k]] <= NonceOf[done[j]]
      BY DEF Inv, CandPast, Past
    <3>3. QED
      BY <1>1, <1>2, <1>4, <3>1, <3>2
  <2>2. QED
    BY <1>3, <2>1 DEF CandPast, Past
<1>6. DonePast'
  <2>1. \A j \in DOMAIN done' : NonceOf[done'[j]] < nonce'[SenderOf[done'[j]]]
    <3>1. \A j \in DOMAIN done : NonceOf[done[j]] < nonce[SenderOf[done[j]]]
      BY DEF Inv, DonePast
    <3>2. NonceOf[h] \in Nat
      BY <1>3, NodeAssumption
    <3>3. NonceOf[h] < nonce[SenderOf[h]]
      BY <1>2, <3>2
    <3>4. QED
      BY <1>1, <1>4, <3>1, <3>3
  <2>2. ~ DuplicateSender'
    <3>1. \A i, j \in DOMAIN done : i # j => SenderOf[done[i]] # SenderOf[done[j]]
      BY DEF Inv, DonePast, DuplicateSender
    <3>2. \A i, j \in DOMAIN done' : i # j => SenderOf[done'[i]] # SenderOf[done'[j]]
      BY <1>2, <1>4, <3>1
    <3>3. QED
      BY <3>2 DEF DuplicateSender
  <2>3. QED
    BY <1>4, <2>1, <2>2 DEF DonePast
<1>7. NonceType' /\ PoolPast' /\ RpcPast' /\ Committing'
  BY <1>1 DEF Inv, NonceType, PoolPast, RpcPast, Past, Committing
<1>8. QED
  BY <1>5, <1>6, <1>7 DEF Inv

(* The rest of a production drops candidates, transactions and the block.  *)
LEMMA ProduceKeeps ==
  ASSUME Inv, Produce
  PROVE  Inv'
<1>1. ASSUME NEW t \in Txs, Skip(t) \/ RejectRisky(t)
      PROVE  Inv'
  <2>1. /\ nonce' = nonce /\ rpc' = rpc /\ done' = done
        /\ cand # <<>> /\ cand' = Tail(cand) /\ pc' # "commit"
    BY <1>1 DEF Skip, RejectRisky, Trying, state
  <2>2. pool' \subseteq pool
    BY <1>1, RemoveTakes DEF Skip, RejectRisky, mempool
  <2>3. QED
    BY <2>1, <2>2, Still, Shrinks DEF Inv, Rest, Committing
<1>2. CASE BurnFees \/ Refused \/ DoubleSign \/ PutBlock \/ SetHead \/ Settle \/ Produced
  <2>1. nonce' = nonce /\ rpc' = rpc /\ cand' = cand /\ pc' # "commit"
    BY <1>2 DEF BurnFees, Refused, DoubleSign, PutBlock, SetHead, Settle, Produced,
                Return, state, loop
  <2>2. pool' \subseteq pool
    BY <1>2, RemoveTakes DEF BurnFees, Refused, DoubleSign, PutBlock, SetHead, Settle,
                             Produced, mempool
  <2>3. Rest(done', done)
    BY <1>2 DEF BurnFees, Refused, DoubleSign, PutBlock, SetHead, Settle, Produced, loop, Rest
  <2>4. QED
    BY <2>1, <2>2, <2>3, Still, Shrinks DEF Inv, Rest, Committing
<1>3. QED
  BY <1>1, <1>2, WakeKeeps, ExecuteKeeps, PutKeeps, ApplyKeeps DEF Produce

-----------------------------------------------------------------------------
(* The environment.                                                        *)

LEMMA EnvironmentKeeps ==
  ASSUME Inv, Tick \/ Overrun \/ SlipBack \/ Crash
  PROVE  Inv'
<1>1. CASE Tick \/ Overrun \/ SlipBack
  BY <1>1 DEF Tick, Overrun, SlipBack, Second, mempool, state, loop, Inv, NonceType,
              PoolPast, RpcPast, CandPast, DonePast, Committing, Past, DuplicateSender
<1>2. CASE Crash
  <2>1. /\ nonce' = nonce /\ pool' = {} /\ rpc' = [t \in Txs |-> "idle"]
        /\ cand' = <<>> /\ done' = <<>> /\ pc' # "commit"
    BY <1>2 DEF Crash, state
  <2>2. QED
    BY <2>1, Still, Shrinks DEF Inv, Rest, Committing
<1>3. QED
  BY <1>1, <1>2

LEMMA NodeInvariantKept ==
  ASSUME Inv, [Next]_vars
  PROVE  Inv'
<1>1. ASSUME UNCHANGED vars
      PROVE  Inv'
  BY <1>1 DEF vars, mempool, state, loop, Inv, NonceType, PoolPast, RpcPast, CandPast,
              DonePast, Committing, Past, DuplicateSender
<1>2. QED
  BY <1>1, HandleKeeps, BootKeeps, ProduceKeeps, EnvironmentKeeps DEF Next

(* The invariant, whatever goes wrong.                                     *)
THEOREM NodeInvariant == Spec => []Inv
<1>1. Init => Inv
  <2>1. ASSUME Init
        PROVE  /\ nonce = [s \in Senders |-> 0] /\ pool = {}
               /\ rpc = [t \in Txs |-> "idle"] /\ pc = "boot"
               /\ cand = <<>> /\ done = <<>>
    BY <2>1 DEF Init, M!Init, Genesis
  <2>2. QED
    BY <2>1, FS_EmptySet, EmptyOf DEF Inv, NonceType, PoolPast, RpcPast, CandPast,
                                      DonePast, Committing, DuplicateSender
<1>2. Inv /\ [Next]_vars => Inv'
  BY NodeInvariantKept
<1>3. QED
  BY <1>1, <1>2, PTL DEF Spec

(* However the handlers race with the producer and whatever goes wrong, no *)
(* pooled transaction is from the future.                                  *)
THEOREM NeverPooledAhead == Spec => []PooledNotAhead
<1>1. Inv => PooledNotAhead
  BY DEF Inv, PoolPast, Past, PooledNotAhead
<1>2. QED
  BY <1>1, NodeInvariant, PTL

(* So validate_block never finds two transactions of a sender in a block.  *)
THEOREM NeverTwoOfASender == Spec => []OneTxPerSender
<1>1. Inv => OneTxPerSender
  BY DEF Inv, DonePast, OneTxPerSender
<1>2. QED
  BY <1>1, NodeInvariant, PTL

-----------------------------------------------------------------------------
(* What was accepted.                                                      *)

(* A transaction of an accepted block is used up, and a block that is not  *)
(* yet accepted has none of them.                                          *)
Accepted ==
  /\ times \in [Txs -> Nat]
  /\ \A t \in Txs : times[t] <= 1 /\ (times[t] > 0 => NonceOf[t] < nonce[SenderOf[t]])
  /\ pc # "settle" => \A j \in DOMAIN done : times[done[j]] = 0
  /\ pc = "commit" => times[Head(cand)] = 0

(* No step lowers a nonce: only PutNonce writes one, and it writes the     *)
(* target of a commit.                                                     *)
LEMMA NoncesRise ==
  ASSUME Inv, [Next]_vars, NEW s \in Senders
  PROVE  nonce[s] <= nonce'[s]
<1>1. CASE nonce' = nonce
  BY <1>1, Still DEF Inv
<1>2. CASE \E a \in Accounts : PutNonce(a)
  <2>1. PICK a \in Accounts : pc = "commit" /\ nonce' = [nonce EXCEPT ![a] = target.nonce[a]]
    BY <1>2 DEF PutNonce
  <2>2. \A r \in Senders : nonce[r] \in Nat /\ nonce[r] <= target.nonce[r]
    BY <2>1 DEF Inv, Committing, NonceType
  <2>3. QED
    BY <2>1, <2>2 DEF Inv, NonceType
<1>3. CASE UNCHANGED vars \/ Boot \/ Tick \/ Overrun \/ SlipBack \/ Crash
  BY <1>1, <1>3 DEF vars, state, Boot, Allocate, CreateGenesis, RegisterValidator, Serve,
                    Tick, Overrun, SlipBack, Crash, Second
<1>4. CASE \E t \in Txs : Handle(t)
  BY <1>1, <1>4 DEF Handle, CheckBalance, CheckNonce, Submit, state
<1>5. CASE Produce
  BY <1>1, <1>2, <1>5 DEF Produce, Wake, Apply, BurnFees, Refused, DoubleSign, PutBlock,
                          SetHead, Settle, Produced, Skip, RejectRisky, Execute,
                          PutBalance, state
<1>6. QED
  BY <1>3, <1>4, <1>5 DEF Next

(* Where no block is accepted and none grows, what was accepted stays.     *)
LEMMA AcceptedStays ==
  ASSUME Inv, Accepted, [Next]_vars, times' = times, Rest(done', done),
         pc' # "settle" => pc # "settle" \/ done' = <<>>,
         pc' = "commit" => times[Head(cand')] = 0
  PROVE  Accepted'
<1>1. \A t \in Txs : times'[t] <= 1 /\ (times'[t] > 0 => NonceOf[t] < nonce'[SenderOf[t]])
  <2>1. ASSUME NEW t \in Txs, times[t] > 0
        PROVE  NonceOf[t] < nonce'[SenderOf[t]]
    <3>1. NonceOf[t] < nonce[SenderOf[t]]
      BY <2>1 DEF Accepted
    <3>2. /\ NonceOf[t] \in Nat /\ SenderOf[t] \in Senders
          /\ nonce[SenderOf[t]] \in Nat /\ nonce[SenderOf[t]] <= nonce'[SenderOf[t]]
      BY NoncesRise, NodeAssumption DEF Inv, NonceType
    <3>3. nonce'[SenderOf[t]] \in Nat
      BY <3>2, NodeInvariantKept DEF Inv, NonceType
    <3>4. QED
      BY <3>1, <3>2, <3>3
  <2>2. QED
    BY <2>1 DEF Accepted
<1>2. pc' # "settle" => \A j \in DOMAIN done' : times'[done'[j]] = 0
  <2>1. ASSUME pc' # "settle", NEW j \in DOMAIN done'
        PROVE  times[done'[j]] = 0
    <3>1. \E k \in DOMAIN done : done'[j] = done[k]
      BY RestOf DEF Inv, DonePast
    <3>2. pc # "settle"
      BY <2>1, EmptyOf
    <3>3. QED
      BY <3>1, <3>2 DEF Accepted
  <2>2. QED
    BY <2>1
<1>3. QED
  BY <1>1, <1>2 DEF Accepted

(* The block is accepted: its transactions, all different and in none so   *)
(* far, are in one.                                                        *)
LEMMA SetHeadKeeps ==
  ASSUME Inv, Accepted, SetHead
  PROVE  Accepted'
<1>1. /\ pc = "head" /\ pc' = "settle" /\ nonce' = nonce /\ done' = done
      /\ times' = [t \in Txs |-> times[t] + Cardinality({i \in DOMAIN done : done[i] = t})]
  BY DEF SetHead, state, loop
<1>2. ASSUME NEW t \in Txs
      PROVE  /\ times'[t] \in Nat /\ times'[t] <= 1
             /\ times'[t] > 0 => NonceOf[t] < nonce[SenderOf[t]]
  <2> DEFINE D == {i \in DOMAIN done : done[i] = t}
  <2>1. CASE D = {}
    BY <1>1, <2>1, FS_EmptySet DEF Accepted
  <2>2. CASE D # {}
    <3>1. PICK k \in DOMAIN done : done[k] = t
      BY <2>2
    <3>2. D = {k}
      BY <3>1 DEF Inv, DonePast, DuplicateSender
    <3>3. Cardinality(D) = 1
      BY <3>2, FS_Singleton
    <3>4. times[t] = 0 /\ NonceOf[t] < nonce[SenderOf[t]]
      BY <1>1, <3>1 DEF Inv, DonePast, Accepted
    <3>5. QED
      BY <1>1, <3>3, <3>4
  <2>3. QED
    BY <2>1, <2>2
<1>3. times' \in [Txs -> Nat]
  BY <1>1, <1>2
<1>4. QED
  BY <1>1, <1>2, <1>3 DEF Accepted

(* A transaction that is executed has the next nonce, so no accepted block *)
(* has it; Apply puts it into the block.                                   *)
LEMMA BlockGrows ==
  ASSUME Inv, Accepted, [Next]_vars, Apply \/ \E t \in Txs : Execute(t)
  PROVE  Accepted'
<1>1. CASE \E t \in Txs : Execute(t)
  <2>1. PICK t \in Txs : /\ pc = "loop" /\ cand' = cand /\ t = Head(cand)
                         /\ NonceOf[t] = nonce[SenderOf[t]]
                         /\ times' = times /\ done' = done
    BY <1>1 DEF Execute, Trying, Valid, NonceMatches, chain
  <2>2. NonceOf[t] \in Nat /\ times[t] \in Nat
    BY NodeAssumption DEF Accepted
  <2>3. times[t] = 0
    BY <2>1, <2>2 DEF Accepted
  <2>4. QED
    BY <2>1, <2>3, AcceptedStays DEF Rest
<1>2. CASE Apply
  <2>1. /\ pc = "commit" /\ pc' = "loop" /\ done' = Append(done, Head(cand))
        /\ times' = times /\ nonce' = nonce /\ cand # <<>>
    BY <1>2 DEF Apply, chain, state, Inv, Committing
  <2>2. Head(cand) \in Txs /\ times[Head(cand)] = 0
    BY <2>1, HeadOf DEF Inv, CandPast, Accepted
  <2>3. \A j \in DOMAIN done' : times[done'[j]] = 0
    BY <2>1, <2>2, AppendOf DEF Inv, DonePast, Accepted
  <2>4. QED
    BY <2>1, <2>3 DEF Accepted
<1>3. QED
  BY <1>1, <1>2

LEMMA AcceptedKept ==
  ASSUME Inv, Accepted, [Next]_vars
  PROVE  Accepted'
<1>1. CASE UNCHANGED vars \/ Boot \/ Tick \/ Overrun \/ SlipBack \/ \E t \in Txs : Handle(t)
  <2>1. times' = times /\ done' = done /\ cand' = cand
    BY <1>1 DEF vars, chain, loop, Boot, Allocate, CreateGenesis, RegisterValidator, Serve,
                Tick, Overrun, SlipBack, Second, Handle, CheckBalance, CheckNonce, Submit
  <2>2. pc' \in {pc, "asleep"} /\ (pc' # pc => pc = "boot")
    BY <1>1 DEF vars, Boot, Allocate, CreateGenesis, RegisterValidator, Serve,
                Tick, Overrun, SlipBack, Second, Handle, CheckBalance, CheckNonce, Submit
  <2>3. QED
    BY <2>1, <2>2, AcceptedStays DEF Rest, Accepted
<1>2. CASE Crash
  <2>1. times' = times /\ done' = <<>> /\ pc' = "boot"
    BY <1>2 DEF Crash, chain
  <2>2. QED
    BY <2>1, AcceptedStays DEF Rest
<1>3. CASE Produce
  <2>1. CASE \E a \in Accounts : PutBalance(a) \/ PutNonce(a)
    <3>1. times' = times /\ done' = done /\ cand' = cand /\ pc' = pc
      BY <2>1 DEF PutBalance, PutNonce, chain
    <3>2. QED
      BY <3>1, AcceptedStays DEF Rest, Accepted
  <2>2. CASE \/ Wake \/ BurnFees \/ Refused \/ DoubleSign \/ PutBlock \/ Settle \/ Produced
             \/ \E t \in Txs : Skip(t) \/ RejectRisky(t)
    <3>1. times' = times /\ pc' # "commit"
      BY <2>2 DEF Wake, BurnFees, Refused, DoubleSign, PutBlock, Settle, Produced, Skip,
                  RejectRisky, Trying, Return, chain
    <3>2. Rest(done', done)
      BY <2>2 DEF Wake, BurnFees, Refused, DoubleSign, PutBlock, Settle, Produced, Skip,
                  RejectRisky, loop, Rest
    <3>3. pc' # "settle" => pc # "settle" \/ done' = <<>>
      BY <2>2 DEF Wake, BurnFees, Refused, DoubleSign, PutBlock, Settle, Produced, Skip,
                  RejectRisky, Trying, Return, loop
    <3>4. QED
      BY <3>1, <3>2, <3>3, AcceptedStays
  <2>3. QED
    BY <1>3, <2>1, <2>2, SetHeadKeeps, BlockGrows DEF Produce
<1>4. QED
  BY <1>1, <1>2, <1>3 DEF Next

(* However often a transaction is submitted, wherever the node dies and    *)
(* whatever blocks are refused, it is in at most one accepted block.       *)
THEOREM NeverIncludedTwice == Spec => []IncludedOnce
<1>1. Init => Accepted
  BY NodeAssumption, EmptyOf DEF Init, Accepted
<1>2. Inv /\ Accepted /\ [Next]_vars => Accepted'
  BY AcceptedKept
<1>3. Accepted => IncludedOnce
  BY DEF Accepted, IncludedOnce
<1>4. QED
  BY <1>1, <1>2, <1>3, NodeInvariant, PTL DEF Spec

-----------------------------------------------------------------------------
(* Types.                                                                  *)

LEMMA ReplayTyped ==
  ASSUME NEW st \in Ledger, NEW q \in Seq(Txs)
  PROVE  FoldLeft(Executed, st, q) \in Ledger /\ Replayed(st, q) \in Ledger
<1>1. FoldLeft(Executed, st, q) \in Ledger
  <2>1. CASE q = <<>>
    BY <2>1, FoldNone
  <2>2. CASE q # <<>>
    <3>1. Head(q) \in Txs
      BY <2>2, HeadOf
    <3>2. QED
      BY <3>1, FoldOneMore
  <2>3. QED
    BY <2>1, <2>2
<1> DEFINE end == FoldLeft(Executed, st, q)
<1>2. Replayed(st, q) = [end EXCEPT !.bal = Burnt(end.bal, q)]
  BY DEF Replayed
<1> HIDE DEF end
<1>3. end \in Ledger
  BY <1>1 DEF end
<1>4. Burnt(end.bal, q) \in [Accounts -> Int]
  BY <1>3, BurntTyped DEF Ledger
<1>5. QED
  BY <1>2, <1>3, <1>4 DEF Ledger, end

(* Who has the value and the gas at their price stays in the black.        *)
LEMMA ExecutedFunded ==
  ASSUME Now \in States, NEW t \in Txs, Funded(t)
  PROVE  Executed(Now, t) \in States
<1> DEFINE sent == IF ExecOf[t] = "ok" THEN ValueOf[t] ELSE 0
           s == SenderOf[t]
           after == Executed(Now, t)
<1>1. /\ bal \in [Accounts -> Nat] /\ nonce \in [Senders -> Nat]
      /\ s \in Senders /\ s \in Accounts /\ Now = [bal |-> bal, nonce |-> nonce]
  BY NodeAssumption DEF Now, States
<1>2. /\ Fee(t) \in Nat /\ sent \in Nat /\ bal[s] \in Nat
      /\ bal[s] >= sent + Fee(t)
  <2>1. /\ PriceOf[t] \in Nat /\ UsedOf[t] \in Nat /\ GasOf[t] \in Nat
        /\ UsedOf[t] <= GasOf[t] /\ ValueOf[t] \in Nat
    BY NodeAssumption
  <2>2. PriceOf[t] * UsedOf[t] <= PriceOf[t] * GasOf[t]
    <3>1. \A p, u, g \in Nat : u <= g => p * u <= p * g
      OBVIOUS
    <3>2. QED
      BY <2>1, <3>1
  <2>3. PriceOf[t] * UsedOf[t] \in Nat /\ PriceOf[t] * GasOf[t] \in Nat
    BY <2>1
  <2>4. bal[s] >= ValueOf[t] + PriceOf[t] * GasOf[t]
    BY DEF Funded
  <2>5. QED
    BY <1>1, <2>1, <2>2, <2>3, <2>4 DEF Fee
<1> HIDE DEF sent, s, after
<1>3. after.bal \in [Accounts -> Nat]
  <2> DEFINE From(a, n, who) == IF a = who THEN n ELSE 0
             left(a) == bal[a] + From(a, sent, ToOf[t]) + From(a, Fee(t), Validator)
                          - From(a, sent + Fee(t), s)
  <2>1. after.bal = [a \in Accounts |-> left(a)]
    BY <1>1 DEF Executed, after, sent, s
  <2>2. ASSUME NEW a \in Accounts
        PROVE  left(a) \in Nat
    <3>1. bal[a] \in Nat
      BY <1>1
    <3>2. QED
      BY <1>2, <3>1
  <2> HIDE DEF left
  <2>3. QED
    BY <2>1, <2>2
<1>4. after.nonce \in [Senders -> Nat]
  BY <1>1 DEF Executed, after, s
<1>5. after = [bal |-> after.bal, nonce |-> after.nonce]
  BY DEF Executed, after
<1>6. QED
  BY <1>3, <1>4, <1>5 DEF States, after

LEMMA PoolTyped ==
  ASSUME M!TypeOK, NEW t \in Txs, M!Insert(t) \/ M!Remove(t)
  PROVE  M!TypeOK'
<1>1. /\ pool \subseteq Txs /\ IsFiniteSet(pool) /\ index \subseteq Txs
  BY DEF M!TypeOK, M!IsFiniteSet, IsFiniteSet
<1>2. pool' \subseteq pool \cup {t} /\ index' \subseteq index \cup {t}
  BY InsertAdds, RemoveTakes DEF M!Insert, M!InsertDuplicate, M!InsertGap, M!InsertWithin,
     M!InsertEvicting, M!IndexWith, M!Remove
<1>3. IsFiniteSet(pool')
  BY <1>1, <1>2, FS_AddElement, FS_Subset
<1>4. reply' \in M!Reply
  <2>1. CASE M!InsertEvicting(t)
    <3> DEFINE p == M!Inserted(t, pool)
    <3>1. p \subseteq pool \cup {t}
      BY DEF M!Inserted
    <3>2. IsFiniteSet(p)
      BY <1>1, <3>1, FS_AddElement, FS_Subset
    <3>3. Cardinality(p) \in Nat /\ M!Cardinality(p) = Cardinality(p)
      BY <3>2, FS_CardinalityType DEF M!Cardinality, Cardinality
    <3>4. M!Overflow(p) > 0 /\ reply' = [kind |-> "ok", evicted |-> M!Overflow(p)]
      BY <2>1 DEF M!InsertEvicting, M!Answer
    <3>5. M!Overflow(p) \in Nat
      BY <3>3, <3>4, NodeAssumption DEF M!Overflow
    <3>6. QED
      BY <3>4, <3>5 DEF M!Reply
  <2>2. CASE \/ M!InsertDuplicate(t) \/ M!InsertGap(t) \/ M!InsertWithin(t) \/ M!Remove(t)
    BY <2>2 DEF M!InsertDuplicate, M!InsertGap, M!InsertWithin, M!Remove, M!Answer, M!Reply
  <2>3. QED
    BY <2>1, <2>2 DEF M!Insert
<1>5. QED
  BY <1>1, <1>2, <1>3, <1>4 DEF M!TypeOK, M!IsFiniteSet, IsFiniteSet

(* The mempool is typed through every step: a handler or the producer      *)
(* inserts or removes, a crash empties it, the rest leaves it alone.       *)
LEMMA MempoolTyped ==
  ASSUME Inv, TypeOK, [Next]_vars
  PROVE  M!TypeOK'
<1>1. M!TypeOK
  BY DEF TypeOK
<1>2. CASE mempool' = mempool
  BY <1>1, <1>2 DEF mempool, M!TypeOK, M!Reply
<1>3. CASE \E t \in Txs : M!Insert(t) \/ M!Remove(t)
  BY <1>1, <1>3, PoolTyped
<1>4. CASE Crash
  BY <1>4, FS_EmptySet DEF Crash, M!TypeOK, M!Reply, M!IsFiniteSet, IsFiniteSet
<1>5. CASE \E t \in Txs : Handle(t)
  BY <1>2, <1>3, <1>5 DEF Handle, CheckBalance, CheckNonce, Submit
<1>6. CASE Settle
  <2>1. Head(done) \in Txs
    BY <1>6, HeadOf DEF Settle, Inv, DonePast
  <2>2. QED
    BY <1>3, <1>6, <2>1 DEF Settle
<1>7. CASE UNCHANGED vars \/ Boot \/ Tick \/ Overrun \/ SlipBack
  BY <1>2, <1>7 DEF vars, Boot, Allocate, CreateGenesis, RegisterValidator, Serve, Tick,
                    Overrun, SlipBack, Second
<1>8. CASE Produce
  BY <1>2, <1>3, <1>6, <1>8 DEF Produce, Wake, Apply, BurnFees, Refused, DoubleSign, PutBlock,
                                SetHead, Produced, Skip, RejectRisky, Execute, PutBalance,
                                PutNonce
<1>9. QED
  BY <1>4, <1>5, <1>7, <1>8 DEF Next

(* The rest of TypeOK.                                                     *)
RestTyped ==
  /\ bal \in [Accounts -> Nat] /\ nonce \in [Senders -> Nat]
  /\ start \in {"empty", "headed", "whole"}
  /\ head \in States /\ target \in States
  /\ replayed \in Ledger
  /\ signed \in BOOLEAN /\ evidence \in BOOLEAN
  /\ receipts \subseteq Txs
  /\ rpc \in [Txs -> {"idle", "funded", "valid"}]
  /\ pc \in Steps
  /\ cand \in Seq(Txs) /\ done \in Seq(Txs)
  /\ pending \subseteq (Accounts \X {"balance"}) \cup (Senders \X {"nonce"})
  /\ timer \in 0 .. BlockTime + 1
  /\ age \in 0 .. 1
  /\ faults \in 0 .. MaxFaults
  /\ times \in [Txs -> Nat]

LEMMA TypeParts == TypeOK <=> M!TypeOK /\ RestTyped
<1>1. Now \in States <=> bal \in [Accounts -> Nat] /\ nonce \in [Senders -> Nat]
  <2>1. /\ Now = [bal |-> bal, nonce |-> nonce]
        /\ Now.bal = bal /\ Now.nonce = nonce
    BY DEF Now
  <2>2. QED
    BY <2>1 DEF States
<1>2. QED
  BY <1>1 DEF TypeOK, RestTyped, Ledger

LEMMA BootTyped ==
  ASSUME TypeOK, Boot
  PROVE  RestTyped'
<1>1. RestTyped /\ Now \in States
  BY TypeParts DEF TypeOK
<1>2. CASE \E a \in Accounts : Allocate(a)
  <2>1. PICK a \in Accounts : Allocate(a)
    BY <1>2
  <2>2. bal' \in [Accounts -> Nat] /\ pending' \subseteq pending
    BY <1>1, <2>1, NodeAssumption DEF Allocate, RestTyped
  <2>3. QED
    BY <1>1, <2>1, <2>2 DEF Allocate, chain, RestTyped
<1>3. CASE CreateGenesis
  BY <1>1, <1>3 DEF CreateGenesis, state, loop, RestTyped
<1>4. CASE RegisterValidator \/ Serve
  BY <1>1, <1>4 DEF RegisterValidator, Serve, state, chain, loop, RestTyped, Steps
<1>5. QED
  BY <1>2, <1>3, <1>4 DEF Boot

LEMMA HandleTyped ==
  ASSUME TypeOK, NEW t \in Txs, Handle(t)
  PROVE  RestTyped'
<1>1. RestTyped
  BY TypeParts
<1>2. QED
  BY <1>1 DEF Handle, CheckBalance, CheckNonce, Submit, state, chain, loop, RestTyped

LEMMA ProduceTyped ==
  ASSUME Inv, Inv', TypeOK, Produce
  PROVE  RestTyped'
<1>1. RestTyped
  BY TypeParts
<1>2. cand' \in Seq(Txs) /\ done' \in Seq(Txs) /\ nonce' \in [Senders -> Nat]
  BY DEF Inv, CandPast, DonePast, NonceType
<1>3. 0 \in 0 .. BlockTime + 1
  BY NodeAssumption
<1>4. CASE Wake \/ Apply \/ Produced \/ PutBlock \/ \E t \in Txs : Skip(t) \/ RejectRisky(t)
  <2>1. Genesis \in States
    BY NodeAssumption DEF Genesis, States
  <2>2. QED
    BY <1>1, <1>2, <1>3, <1>4, <2>1 DEF Wake, Apply, Produced, PutBlock, Skip, RejectRisky,
       Return, state, chain, loop, RestTyped, Steps
<1>5. CASE \E t \in Txs : Execute(t)
  <2>1. PICK t \in Txs : Execute(t)
    BY <1>5
  <2>2. target' \in States
    BY <2>1, ExecutedFunded DEF Execute, Valid, TypeOK
  <2>3. pending' \subseteq (Accounts \X {"balance"}) \cup (Senders \X {"nonce"})
    <3>1. Touched(t) \subseteq Accounts
      BY NodeAssumption DEF Touched
    <3>2. QED
      BY <2>1, <3>1 DEF Execute
  <2>4. QED
    BY <1>1, <1>2, <2>1, <2>2, <2>3 DEF Execute, state, chain, RestTyped, Steps
<1>6. CASE \E a \in Accounts : PutBalance(a) \/ PutNonce(a)
  <2>1. PICK a \in Accounts : PutBalance(a) \/ PutNonce(a)
    BY <1>6
  <2>2. bal' \in [Accounts -> Nat]
    BY <1>1, <2>1 DEF PutBalance, PutNonce, RestTyped, States
  <2>3. pending' \subseteq pending
    BY <2>1 DEF PutBalance, PutNonce
  <2>4. QED
    BY <1>1, <1>2, <2>1, <2>2, <2>3 DEF PutBalance, PutNonce, chain, RestTyped
<1>7. CASE BurnFees
  <2>1. bal' \in [Accounts -> Nat]
    <3>1. bal \in [Accounts -> Nat] /\ bal \in [Accounts -> Int] /\ done \in Seq(Txs)
      BY <1>1 DEF RestTyped
    <3>2. QED
      BY <1>7, <3>1, BurntTyped DEF BurnFees
  <2>2. QED
    BY <1>1, <1>2, <1>7, <2>1 DEF BurnFees, chain, loop, RestTyped, Steps
<1>8. CASE Refused \/ DoubleSign
  <2>1. bal' \in {bal, [bal EXCEPT ![Validator] = 0]} /\ evidence' \in {evidence, TRUE}
    BY <1>8 DEF Refused, DoubleSign, state, chain
  <2>2. bal' \in [Accounts -> Nat]
    BY <1>1, <2>1 DEF RestTyped
  <2>3. evidence' \in BOOLEAN
    BY <1>1, <2>1 DEF RestTyped
  <2>4. QED
    BY <1>1, <1>2, <1>3, <1>8, <2>2, <2>3 DEF Refused, DoubleSign, Return, state, chain, RestTyped,
                                        Steps
<1>9. CASE SetHead
  <2>1. Now \in States
    BY DEF TypeOK
  <2>2. times' \in [Txs -> Nat]
    <3>1. IsFiniteSet(DOMAIN done)
      <4>1. DOMAIN done = 1 .. Len(done) /\ Len(done) \in Nat
        BY <1>1 DEF RestTyped
      <4>2. QED
        BY <4>1, FS_Interval
    <3>2. ASSUME NEW t \in Txs
          PROVE  times[t] + Cardinality({i \in DOMAIN done : done[i] = t}) \in Nat
      <4>1. Cardinality({i \in DOMAIN done : done[i] = t}) \in Nat
        BY <3>1, FS_Subset, FS_CardinalityType
      <4>2. QED
        BY <1>1, <4>1 DEF RestTyped
    <3>3. times' = [t \in Txs |->
                      times[t] + Cardinality({i \in DOMAIN done : done[i] = t})]
      BY <1>9 DEF SetHead
    <3>4. QED
      BY <3>2, <3>3
  <2>3. replayed' \in Ledger
    BY <1>1, <1>9, ReplayTyped DEF SetHead, RestTyped
  <2>4. signed' \in BOOLEAN
    BY <1>9 DEF SetHead
  <2>5. /\ head' = Now /\ age' = 0 /\ pc' = "settle"
        /\ UNCHANGED <<state, start, receipts, evidence, rpc, loop, timer, faults>>
    BY <1>9 DEF SetHead
  <2>6. age' \in 0 .. 1 /\ pc' \in Steps
    BY <2>5 DEF Steps
  <2>7. QED
    BY <1>1, <1>2, <2>1, <2>2, <2>3, <2>4, <2>5, <2>6 DEF state, loop, RestTyped
<1>10. CASE Settle
  <2>1. Head(done) \in Txs
    BY <1>10, HeadOf DEF Settle, Inv, DonePast
  <2>2. QED
    BY <1>1, <1>2, <1>10, <2>1 DEF Settle, state, RestTyped
<1>11. QED
  BY <1>4, <1>5, <1>6, <1>7, <1>8, <1>9, <1>10 DEF Produce

LEMMA EnvironmentTyped ==
  ASSUME TypeOK, Tick \/ Overrun \/ SlipBack \/ Crash
  PROVE  RestTyped'
<1>1. RestTyped
  BY TypeParts
<1>2. faults' \in 0 .. MaxFaults
  BY <1>1, NodeAssumption DEF Tick, Overrun, SlipBack, Crash, Fault, RestTyped
<1>3. CASE Tick \/ Overrun
  <2>1. timer' \in 0 .. BlockTime + 1 /\ age' \in 0 .. 1
    BY <1>1, <1>3, NodeAssumption DEF Tick, Overrun, Second, RestTyped
  <2>2. QED
    BY <1>1, <1>2, <1>3, <2>1 DEF Tick, Overrun, Second, state, chain, loop, RestTyped
<1>4. CASE SlipBack
  BY <1>1, <1>2, <1>4 DEF SlipBack, state, chain, loop, RestTyped
<1>5. CASE Crash
  <2>1. Genesis \in States /\ 0 \in 0 .. BlockTime + 1
    BY NodeAssumption DEF Genesis, States
  <2>2. QED
    BY <1>1, <1>2, <1>5, <2>1, EmptyOf DEF Crash, state, chain, RestTyped, Steps, Allocation
<1>6. QED
  BY <1>3, <1>4, <1>5

LEMMA TypeKept ==
  ASSUME Inv, TypeOK, [Next]_vars
  PROVE  TypeOK'
<1>1. M!TypeOK' /\ Inv'
  BY MempoolTyped, NodeInvariantKept
<1>2. TypeOK' <=> M!TypeOK' /\ RestTyped'
  BY TypeParts, PTL
<1>3. CASE UNCHANGED vars
  <2>1. RestTyped
    BY TypeParts
  <2>2. RestTyped'
    BY <1>3, <2>1 DEF vars, state, chain, loop, RestTyped
  <2>3. QED
    BY <1>1, <1>2, <2>2
<1>4. CASE Next
  <2>1. RestTyped'
    BY <1>1, <1>4, BootTyped, HandleTyped, ProduceTyped, EnvironmentTyped DEF Next
  <2>2. QED
    BY <1>1, <1>2, <2>1
<1>5. QED
  BY <1>3, <1>4

(* The whole state keeps its types, whatever goes wrong: no balance ever   *)
(* goes below zero, no nonce below one that was reached.                   *)
THEOREM NodeTypeCorrect == Spec => []TypeOK
<1>1. Init => TypeOK
  <2> SUFFICES ASSUME Init PROVE TypeOK
    OBVIOUS
  <2>1. M!TypeOK
    BY FS_EmptySet DEF Init, M!Init, M!TypeOK, M!Reply, M!IsFiniteSet, IsFiniteSet
  <2>2. Genesis \in States
    BY NodeAssumption DEF Genesis, States
  <2>3. bal \in [Accounts -> Nat] /\ nonce \in [Senders -> Nat]
    BY <2>2 DEF Init, Genesis, States
  <2>4. Now \in States
    BY <2>3 DEF Now, States
  <2>5. replayed \in Ledger
    BY <2>2 DEF Init, Ledger, States
  <2>6. pending \subseteq Accounts \X {"balance"}
    BY DEF Init, Allocation
  <2>7. times \in [Txs -> Nat]
    BY DEF Init
  <2>8. timer \in 0 .. BlockTime + 1 /\ age \in 0 .. 1 /\ faults \in 0 .. MaxFaults
    BY NodeAssumption DEF Init
  <2>9. /\ start \in {"empty", "headed", "whole"} /\ pc \in Steps
        /\ rpc \in [Txs -> {"idle", "funded", "valid"}] /\ receipts \subseteq Txs
        /\ head \in States /\ target \in States
    BY <2>2, <2>4 DEF Init, Steps
  <2>10. signed \in BOOLEAN /\ evidence \in BOOLEAN
    BY DEF Init
  <2>11. cand \in Seq(Txs) /\ done \in Seq(Txs)
    BY EmptyOf DEF Init
  <2>12. RestTyped
    BY <2>3, <2>5, <2>6, <2>7, <2>8, <2>9, <2>10, <2>11 DEF RestTyped
  <2>13. QED
    BY <2>1, <2>12, TypeParts
<1>2. Inv /\ TypeOK /\ [Next]_vars => TypeOK'
  BY TypeKept
<1>3. QED
  BY <1>1, <1>2, NodeInvariant, PTL DEF Spec

-----------------------------------------------------------------------------
(* The creation of the chain.                                              *)

(* As long as the chain has no head, what is not yet allocated is still to *)
(* be written, and nothing else has happened; from then on nothing is      *)
(* allocated any more.                                                     *)
Allocated ==
  /\ start = "empty" =>
       /\ pc = "boot" /\ nonce = Genesis.nonce
       /\ \A a \in Accounts : <<a, "balance">> \in pending \/ bal[a] = GenesisBalance[a]
  /\ pc = "boot" /\ start # "empty" => pending = {}

LEMMA AllocatedKept ==
  ASSUME TypeOK, Allocated, [Next]_vars
  PROVE  Allocated'
<1>1. CASE UNCHANGED vars
  BY <1>1 DEF vars, state, chain, loop, Allocated
<1>2. CASE \E t \in Txs : Handle(t)
  BY <1>2 DEF Handle, CheckBalance, CheckNonce, Submit, state, chain, loop, Allocated
<1>3. ASSUME NEW a \in Accounts, Allocate(a)
      PROVE  Allocated'
  <2>1. bal \in [Accounts -> Nat]
    BY TypeParts DEF RestTyped
  <2>2. \A c \in Accounts : bal'[c] = IF c = a THEN GenesisBalance[a] ELSE bal[c]
    BY <1>3, <2>1 DEF Allocate
  <2>3. QED
    BY <1>3, <2>2 DEF Allocate, chain, Allocated
<1>4. CASE CreateGenesis \/ RegisterValidator \/ Serve
  BY <1>4 DEF CreateGenesis, RegisterValidator, Serve, state, chain, loop, Allocated
<1>5. CASE Produce
  <2>1. pc # "boot" /\ pc' # "boot" /\ start' = start
    BY <1>5 DEF Produce, Wake, Apply, BurnFees, Refused, DoubleSign, PutBlock, SetHead, Settle,
                Produced, Skip, RejectRisky, Execute, PutBalance, PutNonce, Trying, Return, chain
  <2>2. QED
    BY <2>1 DEF Allocated
<1>6. CASE Tick \/ Overrun \/ SlipBack
  BY <1>6 DEF Tick, Overrun, SlipBack, Second, state, chain, loop, Allocated
<1>7. CASE Crash
  BY <1>7 DEF Crash, state, chain, Allocation, Allocated
<1>8. QED
  BY <1>1, <1>2, <1>3, <1>4, <1>5, <1>6, <1>7 DEF Next, Boot

LEMMA AllocatedInit == Init => Allocated
  BY DEF Init, Allocation, Allocated, Genesis

(* However often the first starts are interrupted, the chain begins with   *)
(* the whole allocation, in the state and in the root of its first block.  *)
THEOREM WholeGenesis == Spec => GenesisWhole
<1>1. ASSUME TypeOK, Allocated, [Next]_vars, start = "empty", start' # "empty"
      PROVE  Now = Genesis /\ head' = Genesis
  <2>1. CreateGenesis
    BY <1>1 DEF Next, vars, chain, Handle, CheckBalance, CheckNonce, Submit, Boot, Allocate,
                RegisterValidator, Serve, Produce, Wake, Apply, BurnFees, Refused, DoubleSign,
                PutBlock, SetHead, Settle, Produced, Skip, RejectRisky, Execute, PutBalance,
                PutNonce, Tick, Overrun, SlipBack, Crash, Second
  <2>2. pending = {} /\ head' = Now
    BY <2>1 DEF CreateGenesis
  <2>3. \A a \in Accounts : bal[a] = GenesisBalance[a]
    BY <1>1, <2>2 DEF Allocated
  <2>4. bal \in [Accounts -> Nat] /\ GenesisBalance \in [Accounts -> Nat]
    BY <1>1, TypeParts, NodeAssumption DEF RestTyped
  <2>5. bal = GenesisBalance
    BY <2>3, <2>4
  <2>6. QED
    BY <1>1, <2>2, <2>5 DEF Now, Genesis, Allocated
<1>2. TypeOK /\ Allocated /\ [Next]_vars
        => [start = "empty" /\ start' # "empty" => Now = Genesis /\ head' = Genesis]_vars
  BY <1>1
<1>3. TypeOK /\ Allocated /\ [Next]_vars => Allocated'
  BY AllocatedKept
<1>4. QED
  BY <1>2, <1>3, AllocatedInit, NodeTypeCorrect, PTL DEF Spec, GenesisWhole

-----------------------------------------------------------------------------
(* The chain and the state database.                                       *)

(* What the running block comes to, executed on what the accepted blocks   *)
(* lead to, before anything is burnt.                                      *)
Draft == FoldLeft(Executed, replayed, done)

LEMMA DraftIs ==
  ASSUME TypeOK
  PROVE  /\ replayed \in Ledger /\ done \in Seq(Txs) /\ Draft \in Ledger
         /\ done = <<>> => Draft = replayed
         /\ Replayed(replayed, done) \in Ledger
         /\ Replayed(replayed, done).nonce = Draft.nonce
<1>1. replayed \in Ledger /\ done \in Seq(Txs)
  BY TypeParts DEF RestTyped
<1>2. Draft \in Ledger /\ Replayed(replayed, done) \in Ledger
  BY <1>1, ReplayTyped DEF Draft
<1>3. done = <<>> => Draft = replayed
  BY <1>1, FoldNone DEF Draft
<1>4. Replayed(replayed, done) = [Draft EXCEPT !.bal = Burnt(Draft.bal, done)]
  BY DEF Replayed, Draft
<1>5. Replayed(replayed, done).nonce = Draft.nonce
  BY <1>2, <1>4 DEF Ledger
<1>6. QED
  BY <1>1, <1>2, <1>3, <1>5

(* What Apply adds to the block is executed last.                          *)
LEMMA DraftGrows ==
  ASSUME TypeOK, replayed' = replayed, NEW t \in Txs, done' = Append(done, t)
  PROVE  Draft' = Executed(Draft, t)
<1>1. Draft' = FoldLeft(Executed, replayed, Append(done, t))
  BY DEF Draft
<1>2. QED
  BY <1>1, DraftIs, FoldOneMore DEF Draft

LEMMA DraftStays ==
  ASSUME replayed' = replayed, done' = done
  PROVE  Draft' = Draft
BY DEF Draft

(* The nonces of the database are never behind those of the accepted       *)
(* blocks, nor behind those of the running block.                          *)
Behind ==
  /\ \A s \in Senders : replayed.nonce[s] <= nonce[s]
  /\ pc \in {"loop", "commit", "seal", "head"} =>
       \A s \in Senders : Draft.nonce[s] <= nonce[s]
  /\ pc = "commit" => Draft.nonce[SenderOf[Head(cand)]] <= NonceOf[Head(cand)]

LEMMA BehindKept ==
  ASSUME Inv, TypeOK, Behind, [Next]_vars
  PROVE  Behind'
<1> DEFINE Producing == {"loop", "commit", "seal", "head"}
<1>1. /\ nonce \in [Senders -> Nat] /\ nonce' \in [Senders -> Nat]
      /\ \A s \in Senders : nonce[s] <= nonce'[s]
  BY NoncesRise, NodeInvariantKept DEF Inv, NonceType
<1>2. /\ replayed.nonce \in [Senders -> Nat] /\ Draft.nonce \in [Senders -> Nat]
  BY DraftIs DEF Ledger
<1>3. ASSUME replayed' = replayed
      PROVE  \A s \in Senders : replayed'.nonce[s] <= nonce'[s]
  BY <1>1, <1>2, <1>3 DEF Behind
<1>4. ASSUME replayed' = replayed, done' = done, pc' \in Producing => pc \in Producing,
             pc' = "commit" => pc = "commit" /\ cand' = cand
      PROVE  Behind'
  <2>1. Draft' = Draft
    BY <1>4, DraftStays
  <2>2. pc' \in Producing => \A s \in Senders : Draft'.nonce[s] <= nonce'[s]
    BY <1>1, <1>2, <1>4, <2>1 DEF Behind
  <2>3. QED
    BY <1>3, <1>4, <2>1, <2>2 DEF Behind
<1>5. ASSUME replayed' = replayed, pc' \notin Producing
      PROVE  Behind'
  BY <1>3, <1>5 DEF Behind
<1>6. CASE UNCHANGED vars \/ Boot \/ Tick \/ Overrun \/ SlipBack \/ \E t \in Txs : Handle(t)
  BY <1>4, <1>6 DEF vars, chain, loop, Boot, Allocate, CreateGenesis, RegisterValidator, Serve,
     Handle, CheckBalance, CheckNonce, Submit, Tick, Overrun, SlipBack, Second
<1>7. CASE Crash
  BY <1>5, <1>7 DEF Crash, chain
<1>8. CASE Produce
  <2>1. CASE \/ BurnFees \/ PutBlock
             \/ \E t \in Txs : Skip(t) \/ RejectRisky(t)
             \/ \E a \in Accounts : PutBalance(a) \/ PutNonce(a)
    BY <1>4, <2>1 DEF BurnFees, PutBlock, Skip, RejectRisky, Trying, PutBalance, PutNonce,
                      chain, loop
  <2>2. CASE Refused \/ DoubleSign \/ Settle \/ Produced
    BY <1>5, <2>2 DEF Refused, DoubleSign, Settle, Produced, Return, chain
  <2>3. CASE Wake
    <3>1. replayed' = replayed /\ done' = <<>> /\ pc' = "loop"
      BY <2>3 DEF Wake, chain
    <3>2. Draft' = replayed
      BY <3>1, DraftIs, FoldNone DEF Draft
    <3>3. QED
      BY <1>3, <3>1, <3>2 DEF Behind
  <2>4. CASE \E t \in Txs : Execute(t)
    <3>1. PICK t \in Txs : Execute(t)
      BY <2>4
    <3>2. /\ replayed' = replayed /\ done' = done /\ pc = "loop" /\ pc' = "commit"
          /\ cand' = cand /\ t = Head(cand) /\ NonceOf[t] = nonce[SenderOf[t]]
      BY <3>1 DEF Execute, Trying, Valid, NonceMatches, chain
    <3>3. Draft' = Draft /\ SenderOf[t] \in Senders
      BY <3>2, DraftStays, NodeAssumption
    <3>4. \A s \in Senders : Draft'.nonce[s] <= nonce'[s]
      BY <1>1, <1>2, <3>2, <3>3 DEF Behind
    <3>5. Draft'.nonce[SenderOf[Head(cand')]] <= NonceOf[Head(cand')]
      BY <3>2, <3>3 DEF Behind
    <3>6. QED
      BY <1>3, <3>2, <3>4, <3>5 DEF Behind
  <2>5. CASE Apply
    <3> DEFINE h == Head(cand)
    <3>1. /\ pc = "commit" /\ pending = {} /\ replayed' = replayed /\ pc' = "loop"
          /\ done' = Append(done, h) /\ nonce' = nonce
      BY <2>5 DEF Apply, chain, state
    <3>2. h \in Txs /\ nonce[SenderOf[h]] = NonceOf[h] + 1
      BY <3>1, HeadOf DEF Inv, CandPast, Committing
    <3>3. Draft.nonce[SenderOf[h]] <= NonceOf[h]
      BY <3>1 DEF Behind
    <3> HIDE DEF h
    <3>4. Draft' = Executed(Draft, h)
      BY <3>1, <3>2, DraftGrows
    <3>5. Draft'.nonce = [Draft.nonce EXCEPT ![SenderOf[h]] = @ + 1]
      BY <3>4 DEF Executed
    <3>6. ASSUME NEW s \in Senders
          PROVE  Draft'.nonce[s] <= nonce'[s]
      <4>1. Draft.nonce[s] <= nonce[s] /\ nonce'[s] = nonce[s]
        BY <3>1 DEF Behind
      <4>2. CASE s = SenderOf[h]
        <5>1. Draft'.nonce[s] = Draft.nonce[s] + 1 /\ NonceOf[h] \in Nat
          BY <1>2, <3>2, <3>5, <4>2, NodeAssumption
        <5>2. QED
          BY <1>1, <1>2, <3>2, <3>3, <4>1, <4>2, <5>1
      <4>3. CASE s # SenderOf[h]
        BY <1>2, <3>5, <4>1, <4>3
      <4>4. QED
        BY <4>2, <4>3
    <3>7. QED
      BY <1>3, <3>1, <3>6 DEF Behind
  <2>6. CASE SetHead
    <3>1. replayed' = Replayed(replayed, done) /\ nonce' = nonce /\ pc = "head" /\ pc' = "settle"
      BY <2>6 DEF SetHead, state
    <3>2. replayed'.nonce = Draft.nonce
      BY <3>1, DraftIs
    <3>3. QED
      BY <3>1, <3>2 DEF Behind
  <2>7. QED
    BY <1>8, <2>1, <2>2, <2>3, <2>4, <2>5, <2>6 DEF Produce
<1>9. QED
  BY <1>6, <1>7, <1>8 DEF Next

(* Whatever goes wrong, the state database is never behind the chain: no   *)
(* accepted block is without its nonces.                                   *)
THEOREM NeverBehindTheChain == Spec => []ChainNotAhead
<1>1. Init => Behind
  BY DEF Init, Behind, Genesis
<1>2. Inv /\ TypeOK /\ Behind /\ [Next]_vars => Behind'
  BY BehindKept
<1>3. Behind => ChainNotAhead
  BY DEF Behind, ChainNotAhead
<1>4. QED
  BY <1>1, <1>2, <1>3, NodeInvariant, NodeTypeCorrect, PTL DEF Spec

-----------------------------------------------------------------------------
(* As long as nothing goes wrong.                                          *)

(* The producer keeps its time, and signs once at every height.            *)
OnTime ==
  /\ timer <= BlockTime
  /\ pc \in {"loop", "commit", "seal"} => age = 1
  /\ pc \in {"boot", "asleep"} /\ timer > 0 => age = 1
  /\ pc # "head" => ~ signed

(* What the state database holds at every step of the producer.            *)
InStep ==
  /\ pc = "boot" => replayed = Genesis
  /\ pc = "boot" /\ start # "empty" => Now = Genesis /\ head = Genesis
  /\ pc \in {"asleep", "settle"} => Now = replayed /\ head = replayed
  /\ pc = "loop" => Now = Draft
  /\ pc = "commit" =>
       /\ target = Executed(Draft, Head(cand))
       /\ \A a \in Accounts : <<a, "balance">> \in pending \/ bal[a] = target.bal[a]
       /\ \A s \in Senders : <<s, "nonce">> \in pending \/ nonce[s] = target.nonce[s]
  /\ pc \in {"seal", "head"} => Now = Replayed(replayed, done)

Unsettled == IF pc = "settle" THEN {done[i] : i \in DOMAIN done} ELSE {}

(* Every accepted transaction has its receipt, or waits for it.            *)
Receipted == receipts \cup Unsettled = {t \in Txs : times[t] > 0}

Faultless == faults = 0 => OnTime /\ InStep /\ Receipted

(* The steps that a faultless execution is made of.                        *)
LEMMA FaultlessStep ==
  ASSUME Inv, TypeOK, OnTime, [Next]_vars, faults' = 0
  PROVE  /\ faults = 0
         /\ \/ UNCHANGED vars \/ Boot \/ Tick \/ \E t \in Txs : Handle(t)
            \/ Wake \/ Apply \/ BurnFees \/ PutBlock \/ SetHead \/ Settle \/ Produced
            \/ \E t \in Txs : Skip(t) \/ RejectRisky(t) \/ Execute(t)
            \/ \E a \in Accounts : PutBalance(a) \/ PutNonce(a)
<1>1. faults \in Nat
  BY TypeParts, NodeAssumption DEF RestTyped
<1>2. ~ Overrun /\ ~ SlipBack /\ ~ Crash
  BY <1>1 DEF Overrun, SlipBack, Crash, Fault
<1>3. ~ Refused /\ ~ DoubleSign
  <2>1. timer \in Nat /\ BlockTime \in Nat
    BY TypeParts, NodeAssumption DEF RestTyped
  <2>2. ASSUME pc = "seal" PROVE ~ signed /\ ~ DuplicateSender /\ ~ BadStamp
    BY <2>1, <2>2 DEF OnTime, BadStamp, Inv, DonePast
  <2>3. QED
    BY <2>2 DEF Refused, DoubleSign
<1>4. Overrun \/ SlipBack \/ Crash \/ faults' = faults
  BY DEF Next, vars, Boot, Allocate, CreateGenesis, RegisterValidator, Serve, Tick, Handle,
         CheckBalance, CheckNonce, Submit, Produce, Wake, Apply, BurnFees, Refused, DoubleSign,
         PutBlock, SetHead, Settle, Produced, Skip, RejectRisky, Execute, PutBalance, PutNonce
<1>5. QED
  BY <1>2, <1>3, <1>4 DEF Next, Produce

LEMMA OnTimeKept ==
  ASSUME Inv, TypeOK, OnTime, [Next]_vars, faults' = 0
  PROVE  OnTime'
<1>1. timer \in Nat /\ BlockTime \in Nat \ {0}
  BY TypeParts, NodeAssumption DEF RestTyped
<1>2. CASE UNCHANGED vars \/ Boot \/ \E t \in Txs : Handle(t)
  <2>1. timer' = timer /\ age' = age /\ signed' = signed
    BY <1>2 DEF vars, chain, Boot, Allocate, CreateGenesis, RegisterValidator, Serve, Handle,
                CheckBalance, CheckNonce, Submit
  <2>2. pc' = pc \/ (pc = "boot" /\ pc' = "asleep")
    BY <1>2 DEF vars, Boot, Allocate, CreateGenesis, RegisterValidator, Serve, Handle,
                CheckBalance, CheckNonce, Submit
  <2>3. QED
    BY <2>1, <2>2 DEF OnTime
<1>3. CASE Tick
  BY <1>1, <1>3 DEF Tick, Second, chain, OnTime
<1>4. CASE Wake \/ Produced
  BY <1>1, <1>4 DEF Wake, Produced, Return, chain, OnTime
<1>5. CASE PutBlock \/ SetHead \/ Settle
  BY <1>5 DEF PutBlock, SetHead, Settle, OnTime
<1>6. CASE \/ Apply \/ BurnFees
           \/ \E t \in Txs : Skip(t) \/ RejectRisky(t) \/ Execute(t)
           \/ \E a \in Accounts : PutBalance(a) \/ PutNonce(a)
  <2>1. /\ timer' = timer /\ age' = age /\ signed' = signed
        /\ pc \in {"loop", "commit"} /\ pc' \in {"loop", "commit", "seal"}
    BY <1>6 DEF Apply, BurnFees, Skip, RejectRisky, Execute, Trying, PutBalance, PutNonce, chain
  <2>2. QED
    BY <2>1 DEF OnTime
<1>7. QED
  BY <1>2, <1>3, <1>4, <1>5, <1>6, FaultlessStep

(* What an execution does not touch is as it was.                          *)
LEMMA Untouched ==
  ASSUME NEW st \in Ledger, NEW t \in Txs, NEW a \in Accounts, a \notin Touched(t)
  PROVE  /\ Executed(st, t).bal[a] = st.bal[a]
         /\ a \in Senders => Executed(st, t).nonce[a] = st.nonce[a]
<1> DEFINE sent == IF ExecOf[t] = "ok" THEN ValueOf[t] ELSE 0
           From(b, n, who) == IF b = who THEN n ELSE 0
<1>1. a # SenderOf[t] /\ a # Validator /\ (a = ToOf[t] => sent = 0)
  BY DEF Touched
<1>2. st.bal[a] \in Int /\ st.nonce \in [Senders -> Nat]
  BY DEF Ledger
<1>3. From(a, sent, ToOf[t]) = 0 /\ From(a, Fee(t), Validator) = 0
      /\ From(a, sent + Fee(t), SenderOf[t]) = 0
  BY <1>1
<1>4. Executed(st, t).bal[a] = st.bal[a] + From(a, sent, ToOf[t]) + From(a, Fee(t), Validator)
                                 - From(a, sent + Fee(t), SenderOf[t])
  BY DEF Executed
<1>5. Executed(st, t).nonce = [st.nonce EXCEPT ![SenderOf[t]] = @ + 1]
  BY DEF Executed
<1>6. QED
  BY <1>1, <1>2, <1>3, <1>4, <1>5

(* The first starts: the allocation leads to the genesis state.            *)
LEMMA BootInStep ==
  ASSUME TypeOK, Allocated, InStep, Boot
  PROVE  InStep'
<1>1. /\ bal \in [Accounts -> Nat] /\ GenesisBalance \in [Accounts -> Nat]
      /\ pc = "boot" /\ replayed = Genesis /\ replayed' = replayed
  BY TypeParts, NodeAssumption DEF RestTyped, InStep, Boot, Allocate, CreateGenesis,
     RegisterValidator, Serve, chain
<1>2. CASE \E a \in Accounts : Allocate(a)
  <2>1. start = "empty" /\ start' = start /\ pc' = "boot"
    BY <1>2 DEF Allocate, Allocated, chain
  <2>2. QED
    BY <1>1, <2>1 DEF InStep
<1>3. CASE CreateGenesis
  <2>1. pending = {} /\ start = "empty" /\ pc' = "boot" /\ head' = Now /\ Now' = Now
    BY <1>3 DEF CreateGenesis, state, Now
  <2>2. bal = GenesisBalance /\ nonce = Genesis.nonce
    BY <1>1, <2>1 DEF Allocated
  <2>3. Now = Genesis
    BY <2>2 DEF Now, Genesis
  <2>4. QED
    BY <1>1, <2>1, <2>3 DEF InStep
<1>4. CASE RegisterValidator \/ Serve
  <2>1. start # "empty" /\ head' = head /\ Now' = Now /\ pc' \in {"boot", "asleep"}
    BY <1>1, <1>4 DEF RegisterValidator, Serve, state, chain, Now
  <2>2. QED
    BY <1>1, <2>1 DEF InStep
<1>5. QED
  BY <1>2, <1>3, <1>4 DEF Boot

(* The commit: from the draft to the draft and one transaction more.       *)
LEMMA CommitInStep ==
  ASSUME Inv, TypeOK, InStep,
         \/ Apply \/ \E t \in Txs : Execute(t)
         \/ \E a \in Accounts : PutBalance(a) \/ PutNonce(a)
  PROVE  InStep'
<1>1. /\ bal \in [Accounts -> Nat] /\ nonce \in [Senders -> Nat]
      /\ Now = [bal |-> bal, nonce |-> nonce] /\ Now.bal = bal /\ Now.nonce = nonce
  BY TypeParts DEF RestTyped, Now
<1>2. CASE \E t \in Txs : Execute(t)
  <2>1. PICK t \in Txs : Execute(t)
    BY <1>2
  <2>2. /\ pc' = "commit" /\ pc = "loop" /\ t = Head(cand) /\ cand' = cand
        /\ replayed' = replayed /\ done' = done /\ bal' = bal /\ nonce' = nonce
        /\ target' = Executed(Now, t)
    BY <2>1 DEF Execute, Trying, chain, state
  <2>3. Draft' = Draft /\ Now = Draft /\ Draft \in Ledger
    BY <2>2, DraftStays, DraftIs DEF InStep
  <2>4. ASSUME NEW a \in Accounts, <<a, "balance">> \notin pending'
        PROVE  bal'[a] = target'.bal[a]
    <3>1. a \notin Touched(t)
      BY <2>1, <2>4 DEF Execute
    <3>2. QED
      BY <1>1, <2>2, <2>3, <3>1, Untouched
  <2>5. ASSUME NEW s \in Senders, <<s, "nonce">> \notin pending'
        PROVE  nonce'[s] = target'.nonce[s]
    <3>1. s \notin Touched(t) /\ s \in Accounts
      BY <2>1, <2>5, NodeAssumption DEF Execute
    <3>2. QED
      BY <1>1, <2>2, <2>3, <3>1, Untouched
  <2>6. target' = Executed(Draft', Head(cand'))
    BY <2>2, <2>3
  <2>7. QED
    BY <2>2, <2>4, <2>5, <2>6 DEF InStep
<1>3. ASSUME NEW a \in Accounts, PutBalance(a)
      PROVE  InStep'
  <2>1. /\ pc = "commit" /\ pc' = "commit" /\ cand' = cand /\ target' = target
        /\ replayed' = replayed /\ done' = done /\ nonce' = nonce
        /\ bal' = [bal EXCEPT ![a] = target.bal[a]]
        /\ pending' = pending \ {<<a, "balance">>}
    BY <1>3 DEF PutBalance, chain
  <2>2. Draft' = Draft
    BY <2>1, DraftStays
  <2>3. ASSUME NEW b \in Accounts, <<b, "balance">> \notin pending'
        PROVE  bal'[b] = target'.bal[b]
    BY <1>1, <2>1, <2>3 DEF InStep
  <2>4. ASSUME NEW s \in Senders, <<s, "nonce">> \notin pending'
        PROVE  nonce'[s] = target'.nonce[s]
    BY <2>1, <2>4 DEF InStep
  <2>5. target' = Executed(Draft', Head(cand'))
    BY <2>1, <2>2 DEF InStep
  <2>6. QED
    BY <2>1, <2>3, <2>4, <2>5 DEF InStep
<1>4. ASSUME NEW a \in Accounts, PutNonce(a)
      PROVE  InStep'
  <2>1. /\ pc = "commit" /\ pc' = "commit" /\ cand' = cand /\ target' = target
        /\ replayed' = replayed /\ done' = done /\ bal' = bal
        /\ nonce' = [nonce EXCEPT ![a] = target.nonce[a]]
        /\ pending' = pending \ {<<a, "nonce">>}
    BY <1>4 DEF PutNonce, chain
  <2>2. Draft' = Draft
    BY <2>1, DraftStays
  <2>3. ASSUME NEW b \in Accounts, <<b, "balance">> \notin pending'
        PROVE  bal'[b] = target'.bal[b]
    BY <2>1, <2>3 DEF InStep
  <2>4. ASSUME NEW s \in Senders, <<s, "nonce">> \notin pending'
        PROVE  nonce'[s] = target'.nonce[s]
    BY <1>1, <2>1, <2>4 DEF InStep
  <2>5. target' = Executed(Draft', Head(cand'))
    BY <2>1, <2>2 DEF InStep
  <2>6. QED
    BY <2>1, <2>3, <2>4, <2>5 DEF InStep
<1>5. CASE Apply
  <2> DEFINE h == Head(cand)
  <2>1. /\ pc = "commit" /\ pc' = "loop" /\ pending = {} /\ replayed' = replayed
        /\ done' = Append(done, h) /\ Now' = Now
    BY <1>5 DEF Apply, chain, state, Now
  <2>2. h \in Txs
    BY <2>1, HeadOf DEF Inv, CandPast, Committing
  <2> HIDE DEF h
  <2>3. Draft' = Executed(Draft, h)
    BY <2>1, <2>2, DraftGrows
  <2>4. /\ target = Executed(Draft, h)
        /\ \A a \in Accounts : bal[a] = target.bal[a]
        /\ \A s \in Senders : nonce[s] = target.nonce[s]
    BY <2>1 DEF InStep, h
  <2>5. target \in Ledger
    BY <2>2, <2>4, DraftIs, ExecutedTyped
  <2>6. bal = target.bal /\ nonce = target.nonce
    BY <1>1, <2>4, <2>5 DEF Ledger
  <2>7. target = [bal |-> target.bal, nonce |-> target.nonce]
    BY <2>5 DEF Ledger
  <2>8. Now = target
    BY <1>1, <2>6, <2>7
  <2>9. QED
    BY <2>1, <2>3, <2>4, <2>8 DEF InStep
<1>6. QED
  BY <1>2, <1>3, <1>4, <1>5

LEMMA InStepKept ==
  ASSUME Inv, TypeOK, Allocated, OnTime, InStep, [Next]_vars, faults' = 0
  PROVE  InStep'
<1>1. ASSUME UNCHANGED <<state, chain, loop>>, pc' = pc
      PROVE  InStep'
  <2>1. Draft' = Draft /\ Now' = Now
    BY <1>1, DraftStays DEF chain, loop, state, Now
  <2>2. QED
    BY <1>1, <2>1 DEF state, chain, loop, InStep
<1>2. CASE UNCHANGED vars \/ Tick \/ \E t \in Txs : Handle(t)
  BY <1>1, <1>2 DEF vars, Tick, Second, Handle, CheckBalance, CheckNonce, Submit
<1>3. CASE Wake
  <2>1. /\ pc = "asleep" /\ pc' = "loop" /\ done' = <<>> /\ replayed' = replayed /\ Now' = Now
    BY <1>3 DEF Wake, chain, state, Now
  <2>2. Draft' = replayed
    BY <2>1, DraftIs, FoldNone DEF Draft
  <2>3. QED
    BY <2>1, <2>2 DEF InStep
<1>4. CASE \E t \in Txs : Skip(t) \/ RejectRisky(t)
  <2>1. /\ pc = "loop" /\ pc' = "loop" /\ replayed' = replayed /\ done' = done /\ Now' = Now
    BY <1>4 DEF Skip, RejectRisky, Trying, chain, state, Now
  <2>2. QED
    BY <2>1, DraftStays DEF InStep
<1>5. CASE BurnFees
  <2>1. /\ pc = "loop" /\ pc' = "seal" /\ replayed' = replayed /\ done' = done
        /\ bal' = Burnt(bal, done) /\ nonce' = nonce
    BY <1>5 DEF BurnFees, chain, loop
  <2>2. Now = Draft
    BY <2>1 DEF InStep
  <2>3. Replayed(replayed, done) = [Draft EXCEPT !.bal = Burnt(Draft.bal, done)]
    BY DEF Replayed, Draft
  <2>4. Now' = Replayed(replayed, done)
    BY <2>1, <2>2, <2>3 DEF Now
  <2>5. QED
    BY <2>1, <2>4 DEF InStep
<1>6. CASE PutBlock
  <2>1. /\ pc = "seal" /\ pc' = "head" /\ replayed' = replayed /\ done' = done /\ Now' = Now
    BY <1>6 DEF PutBlock, state, loop, Now
  <2>2. QED
    BY <2>1 DEF InStep
<1>7. CASE SetHead
  <2>1. /\ pc = "head" /\ pc' = "settle" /\ replayed' = Replayed(replayed, done)
        /\ head' = Now /\ Now' = Now
    BY <1>7 DEF SetHead, state, Now
  <2>2. QED
    BY <2>1 DEF InStep
<1>8. CASE Settle \/ Produced
  <2>1. /\ pc = "settle" /\ pc' \in {"settle", "asleep"} /\ replayed' = replayed
        /\ head' = head /\ Now' = Now
    BY <1>8 DEF Settle, Produced, Return, state, chain, Now
  <2>2. QED
    BY <2>1 DEF InStep
<1>9. QED
  BY <1>2, <1>3, <1>4, <1>5, <1>6, <1>7, <1>8, FaultlessStep, BootInStep, CommitInStep

(* The block brings its transactions to those that wait for a receipt, and *)
(* the first of these gets it.                                             *)
LEMMA ReceiptedKept ==
  ASSUME Inv, TypeOK, OnTime, Receipted, [Next]_vars, faults' = 0
  PROVE  Receipted'
<1>1. done \in Seq(Txs) /\ times \in [Txs -> Nat]
  BY TypeParts DEF RestTyped
<1>2. ASSUME receipts' = receipts, times' = times, Unsettled' = Unsettled
      PROVE  Receipted'
  BY <1>2 DEF Receipted
<1>3. CASE UNCHANGED vars \/ Tick \/ \E t \in Txs : Handle(t)
  <2>1. receipts' = receipts /\ times' = times /\ pc' = pc /\ done' = done
    BY <1>3 DEF vars, chain, loop, Tick, Second, Handle, CheckBalance, CheckNonce, Submit
  <2>2. QED
    BY <1>2, <2>1 DEF Unsettled
<1>4. CASE \/ Boot \/ Wake \/ Apply \/ BurnFees \/ PutBlock
           \/ \E t \in Txs : Skip(t) \/ RejectRisky(t) \/ Execute(t)
           \/ \E a \in Accounts : PutBalance(a) \/ PutNonce(a)
  <2>1. receipts' = receipts /\ times' = times /\ pc # "settle" /\ pc' # "settle"
    BY <1>4 DEF Boot, Allocate, CreateGenesis, RegisterValidator, Serve, Wake, Apply, BurnFees,
                PutBlock, Skip, RejectRisky, Execute, Trying, PutBalance, PutNonce, chain
  <2>2. QED
    BY <1>2, <2>1 DEF Unsettled
<1>5. CASE Produced
  <2>1. receipts' = receipts /\ times' = times /\ pc = "settle" /\ pc' = "asleep" /\ done = <<>>
    BY <1>5 DEF Produced, Return, chain
  <2>2. Unsettled = {} /\ Unsettled' = {}
    BY <2>1, EmptyOf DEF Unsettled
  <2>3. QED
    BY <1>2, <2>1, <2>2
<1>6. CASE Settle
  <2> DEFINE first == Head(done)
             rest == Tail(done)
  <2>1. /\ done # <<>> /\ done' = rest /\ pc = "settle" /\ pc' = "settle"
        /\ receipts' = receipts \cup {first} /\ times' = times
    BY <1>6 DEF Settle
  <2>2. /\ 1 \in DOMAIN done /\ first = done[1]
        /\ \A i \in DOMAIN rest : i + 1 \in DOMAIN done /\ rest[i] = done[i + 1]
    BY <1>1, <2>1, HeadOf, TailOf
  <2>3. ASSUME NEW i \in DOMAIN done, i # 1
        PROVE  i - 1 \in DOMAIN rest /\ rest[i - 1] = done[i]
    BY <1>1, <2>1, <2>3
  <2>4. Unsettled = {done[i] : i \in DOMAIN done} /\ Unsettled' = {done'[i] : i \in DOMAIN done'}
    BY <2>1 DEF Unsettled
  <2> HIDE DEF first, rest
  <2>5. Unsettled' = {rest[i] : i \in DOMAIN rest}
    BY <2>1, <2>4
  <2>6. ASSUME NEW u
        PROVE  u \in Unsettled <=> u = first \/ u \in Unsettled'
    <3>1. ASSUME u \in Unsettled PROVE u = first \/ u \in Unsettled'
      <4>1. PICK i \in DOMAIN done : u = done[i]
        BY <2>4, <3>1
      <4>2. QED
        BY <2>2, <2>3, <2>5, <4>1
    <3>2. ASSUME u \in Unsettled' PROVE u \in Unsettled
      <4>1. PICK i \in DOMAIN rest : u = rest[i]
        BY <2>5, <3>2
      <4>2. QED
        BY <2>2, <2>4, <4>1
    <3>3. first \in Unsettled
      BY <2>2, <2>4
    <3>4. QED
      BY <3>1, <3>2, <3>3
  <2>7. receipts' \cup Unsettled' = receipts \cup Unsettled
    BY <2>1, <2>6
  <2>8. QED
    BY <2>1, <2>7 DEF Receipted
<1>7. CASE SetHead
  <2> DEFINE Places(t) == {i \in DOMAIN done : done[i] = t}
  <2>1. /\ pc = "head" /\ pc' = "settle" /\ done' = done /\ receipts' = receipts
        /\ times' = [t \in Txs |-> times[t] + Cardinality(Places(t))]
    BY <1>7 DEF SetHead, loop
  <2>2. Unsettled = {} /\ Unsettled' = {done[i] : i \in DOMAIN done}
    BY <2>1 DEF Unsettled
  <2>3. ASSUME NEW t \in Txs
        PROVE  times'[t] > 0 <=> times[t] > 0 \/ t \in {done[i] : i \in DOMAIN done}
    <3>1. IsFiniteSet(Places(t))
      <4>1. DOMAIN done = 1 .. Len(done) /\ Len(done) \in Nat
        BY <1>1
      <4>2. IsFiniteSet(DOMAIN done)
        BY <4>1, FS_Interval
      <4>3. QED
        BY <4>2, FS_Subset
    <3>2. Cardinality(Places(t)) \in Nat /\ (Cardinality(Places(t)) = 0 <=> Places(t) = {})
      BY <3>1, FS_CardinalityType, FS_EmptySet
    <3>3. Places(t) # {} <=> t \in {done[i] : i \in DOMAIN done}
      OBVIOUS
    <3>4. times'[t] = times[t] + Cardinality(Places(t)) /\ times[t] \in Nat
      BY <1>1, <2>1
    <3> HIDE DEF Places
    <3>5. QED
      BY <3>2, <3>3, <3>4
  <2>4. {done[i] : i \in DOMAIN done} \subseteq Txs
    BY <1>1
  <2>5. receipts = {t \in Txs : times[t] > 0}
    BY <2>2 DEF Receipted
  <2>6. QED
    BY <2>1, <2>2, <2>3, <2>4, <2>5 DEF Receipted
<1>8. QED
  BY <1>3, <1>4, <1>5, <1>6, <1>7, FaultlessStep

LEMMA FaultlessInit == Init => Faultless
<1> SUFFICES ASSUME Init PROVE OnTime /\ InStep /\ Receipted
  BY DEF Faultless
<1>1. OnTime
  <2>1. timer = 0 /\ age = 1 /\ BlockTime \in Nat /\ pc = "boot"
    BY NodeAssumption DEF Init
  <2>2. ~ signed
    BY DEF Init
  <2>3. QED
    BY <2>1, <2>2 DEF OnTime
<1>2. InStep
  BY DEF Init, InStep
<1>3. Receipted
  <2>1. receipts = {} /\ Unsettled = {} /\ \A t \in Txs : times[t] = 0
    BY DEF Init, Unsettled
  <2>2. QED
    BY <2>1 DEF Receipted
<1>4. QED
  BY <1>1, <1>2, <1>3

THEOREM NothingWrong == Spec => []Faultless
<1>1. ASSUME Inv, TypeOK, Allocated, Faultless, [Next]_vars
      PROVE  Faultless'
  <2> SUFFICES ASSUME faults' = 0 PROVE OnTime' /\ InStep' /\ Receipted'
    BY DEF Faultless
  <2>1. faults = 0
    <3>1. faults \in Nat
      BY <1>1, TypeParts, NodeAssumption DEF RestTyped
    <3>2. faults' \in {faults, faults + 1}
      BY <1>1 DEF Next, vars, Boot, Allocate, CreateGenesis, RegisterValidator, Serve, Tick,
         Handle, CheckBalance, CheckNonce, Submit, Produce, Wake, Apply, BurnFees, Refused,
         DoubleSign, PutBlock, SetHead, Settle, Produced, Skip, RejectRisky, Execute, PutBalance,
         PutNonce, Overrun, SlipBack, Crash, Fault
    <3>3. QED
      BY <3>1, <3>2
  <2>2. OnTime /\ InStep /\ Receipted
    BY <1>1, <2>1 DEF Faultless
  <2>3. QED
    BY <1>1, <2>2, OnTimeKept, InStepKept, ReceiptedKept
<1>2. Inv /\ TypeOK /\ Allocated /\ Faultless /\ [Next]_vars => Faultless'
  BY <1>1
<1>3. TypeOK /\ Allocated /\ [Next]_vars => Allocated'
  BY AllocatedKept
<1>4. QED
  BY <1>2, <1>3, AllocatedInit, FaultlessInit, NodeInvariant, NodeTypeCorrect, PTL DEF Spec

(* Unless something goes wrong, between two productions the state database *)
(* is what the accepted blocks lead to, and so is the root of the head.    *)
THEOREM BlocksReplay == Spec => []StateReplays
<1>1. Faultless => StateReplays
  BY DEF Faultless, InStep, StateReplays
<1>2. QED
  BY <1>1, NothingWrong, PTL

(* Unless something goes wrong, between two productions the transactions   *)
(* of the accepted blocks are those that have a receipt.                   *)
THEOREM EveryAcceptedHasReceipt == Spec => []ReceiptsComplete
<1>1. Faultless => ReceiptsComplete
  BY DEF Faultless, Receipted, Unsettled, ReceiptsComplete
<1>2. QED
  BY <1>1, NothingWrong, PTL

=============================================================================
