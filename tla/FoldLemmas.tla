----------------------------- MODULE FoldLemmas -----------------------------
(***************************************************************************)
(* What a fold over a finite set is, for the proofs about the modules that *)
(* fold or add up: there is one, there is only one, and where it adds up   *)
(* numbers their order does not matter.                                    *)
(*                                                                         *)
(* What is folded is a function of functions here; the proofs that use     *)
(* these lemmas show that the folds of the community modules, which CHOOSE *)
(* a recursive function, are such folds.                                   *)
(***************************************************************************)
EXTENDS Integers, FiniteSets, FiniteSetsExt, FiniteSetTheorems,
        WellFoundedInduction, TLAPS

(* A set of numbers has a least one.                                       *)
LEMMA LeastOfNaturals ==
  ASSUME NEW S, S \subseteq Nat, S # {}
  PROVE  \E low \in S : \A n \in S : low <= n
<1> DEFINE Less == OpToRel(<, Nat)
<1>1. \A m, n \in Nat : m < n => <<m, n>> \in Less
  BY DEF OpToRel
<1>2. IsWellFoundedOn(Less, Nat)
  BY NatLessThanWellFounded
<1> HIDE DEF Less
<1>3. \E low \in S : \A n \in S : <<n, low>> \notin Less
  BY <1>2, WFMin
<1>4. PICK low \in S : \A n \in S : <<n, low>> \notin Less
  BY <1>3
<1>5. ASSUME NEW n \in S PROVE low <= n
  <2>1. n \in Nat /\ low \in Nat
    OBVIOUS
  <2>2. ~ n < low
    BY <1>1, <1>4, <2>1
  <2>3. QED
    BY <2>1, <2>2
<1>6. QED
  BY <1>5

(* g[s] is the fold of op, which is defined on V, over the elements of s,  *)
(* the picked one last.                                                    *)
Folds(g, S, V, base, op, pick) ==
  \A s \in SUBSET S :
    /\ s = {} => g[s] = base
    /\ s # {} /\ g[s \ {pick[s]}] \in V =>
         g[s] = op[pick[s]][g[s \ {pick[s]}]]

Picks(pick, S) == \A s \in SUBSET S : s # {} => pick[s] \in s

(* A fold whose values are in V, over a finite set.                        *)
IsFold(g, S, V, base, op, pick) ==
  /\ IsFiniteSet(S) /\ Picks(pick, S)
  /\ g \in [SUBSET S -> V] /\ Folds(g, S, V, base, op, pick)

LEMMA Picked ==
  ASSUME NEW S, IsFiniteSet(S), NEW pick, Picks(pick, S),
         NEW s \in SUBSET S, s # {}
  PROVE  /\ pick[s] \in S /\ s \ {pick[s]} \in SUBSET S
         /\ Cardinality(s) \in Nat /\ Cardinality(s \ {pick[s]}) = Cardinality(s) - 1
         /\ Cardinality(s) > 0
<1>1. pick[s] \in s
  BY DEF Picks
<1>2. IsFiniteSet(s)
  BY FS_Subset
<1>3. Cardinality(s) \in Nat /\ Cardinality(s) # 0
  BY <1>2, FS_CardinalityType, FS_EmptySet
<1>4. Cardinality(s \ {pick[s]}) = Cardinality(s) - 1
  BY <1>1, <1>2, FS_RemoveElement
<1>5. Cardinality(s) > 0
  BY <1>3
<1>6. QED
  BY <1>1, <1>3, <1>4, <1>5

(* There is at most one fold.                                              *)
LEMMA FoldUnique ==
  ASSUME NEW S, NEW pick, NEW V, NEW base, NEW op,
         NEW g, IsFold(g, S, V, base, op, pick),
         NEW h, Folds(h, S, V, base, op, pick)
  PROVE  \A s \in SUBSET S : g[s] = h[s]
<1> USE DEF IsFold
<1> DEFINE Differ == {s \in SUBSET S : g[s] # h[s]}
           Sizes == {Cardinality(s) : s \in Differ}
<1>1. SUFFICES ASSUME Differ # {} PROVE FALSE
  OBVIOUS
<1>2. Sizes \subseteq Nat /\ Sizes # {}
  BY <1>1, FS_Subset, FS_CardinalityType
<1>3. PICK low \in Sizes : \A n \in Sizes : low <= n
  BY <1>2, LeastOfNaturals
<1>4. PICK s \in Differ : Cardinality(s) = low
  OBVIOUS
<1>5. s # {}
  BY <1>4 DEF Folds
<1> DEFINE r == s \ {pick[s]}
<1>6. r \in SUBSET S /\ Cardinality(r) = Cardinality(s) - 1 /\ Cardinality(s) \in Nat
  BY <1>5, Picked
<1>7. g[r] = h[r]
  <2>1. CASE r \in Differ
    <3>1. Cardinality(r) \in Sizes
      BY <2>1
    <3>2. Cardinality(s) <= Cardinality(r)
      BY <1>3, <1>4, <3>1
    <3>3. QED
      BY <1>6, <3>2
  <2>2. QED
    BY <1>6, <2>1
<1>8. g[s] = op[pick[s]][g[r]] /\ h[s] = op[pick[s]][h[r]]
  <2>1. g[r] \in V /\ h[r] \in V
    BY <1>6, <1>7
  <2>2. QED
    BY <1>5, <2>1 DEF Folds
<1>9. QED
  BY <1>7, <1>8

(* There is one.                                                           *)
LEMMA FoldExists ==
  ASSUME NEW S, IsFiniteSet(S), NEW pick, Picks(pick, S),
         NEW V, NEW base \in V, NEW op \in [S -> [V -> V]]
  PROVE  \E g \in [SUBSET S -> V] : Folds(g, S, V, base, op, pick)
<1> DEFINE step(g) == [s \in SUBSET S |->
             IF s = {} THEN base ELSE op[pick[s]][g[s \ {pick[s]}]]]
           Upto(g, k) == \A s \in SUBSET S : Cardinality(s) <= k => g[s] = step(g)[s]
           Bad == {k \in Nat : ~ \E g \in [SUBSET S -> V] : Upto(g, k)}
<1>0. \A s \in SUBSET S : s # {} =>
        /\ pick[s] \in S /\ s \ {pick[s]} \in SUBSET S
        /\ Cardinality(s) \in Nat /\ Cardinality(s \ {pick[s]}) = Cardinality(s) - 1
        /\ Cardinality(s) > 0
  BY Picked
<1>1. ASSUME NEW g \in [SUBSET S -> V] PROVE step(g) \in [SUBSET S -> V]
  <2>1. ASSUME NEW s \in SUBSET S, s # {} PROVE op[pick[s]][g[s \ {pick[s]}]] \in V
    <3>1. pick[s] \in S /\ g[s \ {pick[s]}] \in V
      BY <2>1, <1>0
    <3>2. QED
      BY <3>1
  <2>2. QED
    BY <2>1
<1>2. Bad = {}
  <2>1. SUFFICES ASSUME Bad # {} PROVE FALSE
    OBVIOUS
  <2>2. PICK low \in Bad : \A n \in Bad : low <= n
    BY <2>1, LeastOfNaturals
  <2>3. CASE low = 0
    <3> DEFINE g == [s \in SUBSET S |-> base]
    <3>1. g \in [SUBSET S -> V]
      OBVIOUS
    <3>2. ASSUME NEW s \in SUBSET S, Cardinality(s) <= 0 PROVE g[s] = step(g)[s]
      <4>1. s # {} => Cardinality(s) \in Nat /\ Cardinality(s) > 0
        BY <1>0
      <4>2. s = {}
        BY <3>2, <4>1
      <4>3. QED
        BY <4>2
    <3>3. Upto(g, 0)
      BY <3>2, Zenon
    <3>4. QED
      BY <2>3, <3>1, <3>3
  <2>4. CASE low # 0
    <3>1. low - 1 \in Nat /\ low \in Nat
      BY <2>4
    <3>2. PICK g \in [SUBSET S -> V] : Upto(g, low - 1)
      <4>1. \A n \in Bad : low <= n
        BY <2>2
      <4> HIDE DEF Bad
      <4>2. low - 1 \notin Bad
        BY <3>1, <4>1
      <4> USE DEF Bad
      <4> HIDE DEF Upto
      <4>3. QED
        BY <3>1, <4>2
    <3> DEFINE h == step(g)
    <3>3. h \in [SUBSET S -> V]
      BY <1>1
    <3>4. ASSUME NEW s \in SUBSET S, Cardinality(s) <= low PROVE h[s] = step(h)[s]
      <4>1. CASE s = {}
        BY <4>1
      <4>2. CASE s # {}
        <5> DEFINE r == s \ {pick[s]}
        <5>1. r \in SUBSET S /\ Cardinality(r) <= low - 1
          <6>1. r \in SUBSET S /\ Cardinality(r) = Cardinality(s) - 1
                /\ Cardinality(s) \in Nat
            BY <4>2, <1>0
          <6>2. QED
            BY <3>1, <3>4, <6>1
        <5>2. g[r] = h[r]
          BY <3>2, <5>1
        <5>3. h[s] = op[pick[s]][g[r]] /\ step(h)[s] = op[pick[s]][h[r]]
          BY <4>2, Zenon
        <5>4. QED
          BY <5>2, <5>3, Zenon
      <4>3. QED
        BY <4>1, <4>2, Zenon
    <3>5. Upto(h, low)
      BY <3>4, Zenon
    <3>6. QED
      BY <3>3, <3>5, Zenon
  <2>5. QED
    BY <2>3, <2>4
<1>3. PICK g \in [SUBSET S -> V] : Upto(g, Cardinality(S))
  BY <1>2, FS_CardinalityType
<1>4. ASSUME NEW s \in SUBSET S PROVE g[s] = step(g)[s]
  BY <1>3, FS_Subset
<1>5. Folds(g, S, V, base, op, pick)
  BY <1>4 DEF Folds
<1>6. QED
  BY <1>5

(* What a loop over the numbers from 1 to n computes, step by step.        *)
Runs(f, n, base, op) == f[0] = base /\ \A k \in 1 .. n : f[k] = op[k][f[k - 1]]

LEMMA RunExists ==
  ASSUME NEW n \in Nat, NEW V, NEW base \in V, NEW op \in [1 .. n -> [V -> V]]
  PROVE  \E f \in [0 .. n -> V] : Runs(f, n, base, op)
<1> DEFINE Upto(m) == \E f \in [0 .. m -> V] : Runs(f, m, base, op)
           Without == {m \in 0 .. n : ~ Upto(m)}
<1>1. SUFFICES ASSUME Without # {} PROVE FALSE
  <2>1. n \notin Without => Upto(n)
    OBVIOUS
  <2>2. QED
    BY <2>1
<1>2. PICK m \in Without : \A k \in Without : m <= k
  <2>1. Without \subseteq Nat
    OBVIOUS
  <2> HIDE DEF Without
  <2>2. QED
    BY <1>1, <2>1, LeastOfNaturals
<1>3. m \in 0 .. n /\ ~ Upto(m)
  OBVIOUS
<1>4. m # 0
  <2>1. SUFFICES ASSUME m = 0 PROVE FALSE
    OBVIOUS
  <2>2. [k \in 0 .. 0 |-> base] \in [0 .. 0 -> V]
    OBVIOUS
  <2>3. Runs([k \in 0 .. 0 |-> base], 0, base, op)
    BY DEF Runs
  <2>4. QED
    BY <1>3, <2>1, <2>2, <2>3
<1>5. m \in 1 .. n /\ m - 1 \in 0 .. n /\ ~ m <= m - 1
  BY <1>3, <1>4
<1>6. PICK g \in [0 .. m - 1 -> V] : Runs(g, m - 1, base, op)
  BY <1>2, <1>5
<1> DEFINE f == [k \in 0 .. m |-> IF k = m THEN op[m][g[m - 1]] ELSE g[k]]
<1>7. g[m - 1] \in V /\ op[m] \in [V -> V]
  BY <1>5
<1>8. f \in [0 .. m -> V]
  BY <1>5, <1>7
<1>9. Runs(f, m, base, op)
  <2>1. f[0] = base
    BY <1>5, <1>6 DEF Runs
  <2>2. ASSUME NEW k \in 1 .. m PROVE f[k] = op[k][f[k - 1]]
    BY <1>5, <1>6, <2>2 DEF Runs
  <2>3. QED
    BY <2>1, <2>2 DEF Runs
<1>10. QED
  BY <1>3, <1>8, <1>9

(* Of some parts of a finite set one is least: to take anything from it    *)
(* leads out of them.                                                      *)
LEMMA SmallestPart ==
  ASSUME NEW S, IsFiniteSet(S), NEW D \in SUBSET (SUBSET S), D # {}
  PROVE  \E s \in D : \A x \in s : s \ {x} \notin D
<1> DEFINE Sizes == {Cardinality(s) : s \in D}
<1>1. \A s \in D : IsFiniteSet(s) /\ Cardinality(s) \in Nat
  BY FS_Subset, FS_CardinalityType
<1>2. Sizes \subseteq Nat /\ Sizes # {}
  BY <1>1
<1>3. PICK low \in Sizes : \A n \in Sizes : low <= n
  BY <1>2, LeastOfNaturals
<1>4. PICK s \in D : Cardinality(s) = low
  OBVIOUS
<1>5. ASSUME NEW x \in s PROVE s \ {x} \notin D
  <2>1. SUFFICES ASSUME s \ {x} \in D PROVE FALSE
    OBVIOUS
  <2>2. Cardinality(s \ {x}) \in Sizes
    BY <2>1
  <2>3. Cardinality(s) <= Cardinality(s \ {x})
    BY <1>3, <1>4, <2>2
  <2>4. Cardinality(s \ {x}) = Cardinality(s) - 1 /\ Cardinality(s) \in Nat
    BY <1>1, FS_RemoveElement
  <2>5. QED
    BY <2>3, <2>4
<1>6. QED
  BY <1>5

(* The largest of some positions of a sequence is one of them.             *)
LEMMA MaxIn ==
  ASSUME NEW n \in Nat, NEW s \in SUBSET (1 .. n), s # {}
  PROVE  Max(s) \in s /\ \A x \in s : x <= Max(s)
<1> DEFINE Above == {m \in Nat : \A x \in s : x <= m}
<1>1. n \in Above
  OBVIOUS
<1>2. PICK m \in Above : \A k \in Above : m <= k
  BY <1>1, LeastOfNaturals
<1>3. m \in s
  <2>1. SUFFICES ASSUME m \notin s PROVE FALSE
    OBVIOUS
  <2>2. \A x \in s : x \in Nat /\ x <= m /\ x # m
    BY <2>1
  <2>3. PICK y \in s : TRUE
    OBVIOUS
  <2>4. m - 1 \in Nat /\ \A x \in s : x <= m - 1
    BY <2>2, <2>3
  <2>5. m <= m - 1
    BY <1>2, <2>4
  <2>6. QED
    BY <2>5
<1>4. \A x \in s : m >= x
  OBVIOUS
<1>5. QED
  BY <1>3, <1>4 DEF Max

-----------------------------------------------------------------------------
(* Sums.                                                                   *)

(* g[s] is the sum of the weights in s, whichever of them comes last.      *)
Sums(g, S, w) ==
  \A s \in SUBSET S :
    /\ g[s] \in Nat
    /\ s = {} => g[s] = 0
    /\ \A x \in s : g[s] = w[x] + g[s \ {x}]

(* The sum as it is computed, with the picked weight last.                 *)
SumsUp(g, S, w, pick) ==
  \A s \in SUBSET S :
    g[s] = IF s = {} THEN 0 ELSE w[pick[s]] + g[s \ {pick[s]}]

Adding(S, w) == [x \in S |-> [n \in Nat |-> w[x] + n]]

LEMMA SumExists ==
  ASSUME NEW S, IsFiniteSet(S), NEW w \in [S -> Nat], NEW pick, Picks(pick, S)
  PROVE  \E g \in [SUBSET S -> Nat] :
           /\ SumsUp(g, S, w, pick)
           /\ IsFold(g, S, Nat, 0, Adding(S, w), pick)
<1>1. Adding(S, w) \in [S -> [Nat -> Nat]]
  BY DEF Adding
<1>2. PICK g \in [SUBSET S -> Nat] : Folds(g, S, Nat, 0, Adding(S, w), pick)
  BY <1>1, FoldExists
<1>3. ASSUME NEW s \in SUBSET S, s # {}
      PROVE  g[s] = w[pick[s]] + g[s \ {pick[s]}]
  <2>1. pick[s] \in S /\ s \ {pick[s]} \in SUBSET S
    BY <1>3, Picked
  <2>2. g[s \ {pick[s]}] \in Nat
    BY <2>1
  <2>3. g[s] = Adding(S, w)[pick[s]][g[s \ {pick[s]}]]
    BY <1>2, <1>3, <2>2 DEF Folds
  <2>4. QED
    BY <2>1, <2>2, <2>3 DEF Adding
<1>4. \A s \in SUBSET S : s = {} => g[s] = 0
  BY <1>2 DEF Folds
<1>5. QED
  BY <1>2, <1>3, <1>4 DEF SumsUp, IsFold

(* What adds up so is the sum, in every order.                             *)
LEMMA SumOrderFree ==
  ASSUME NEW S, IsFiniteSet(S), NEW w \in [S -> Nat], NEW pick, Picks(pick, S),
         NEW run, SumsUp(run, S, w, pick)
  PROVE  Sums(run, S, w)
<1>1. PICK g \in [SUBSET S -> Nat] :
        SumsUp(g, S, w, pick) /\ IsFold(g, S, Nat, 0, Adding(S, w), pick)
  BY SumExists
<1>2. Folds(run, S, Nat, 0, Adding(S, w), pick)
  <2>1. ASSUME NEW s \in SUBSET S, s # {}, run[s \ {pick[s]}] \in Nat
        PROVE  run[s] = Adding(S, w)[pick[s]][run[s \ {pick[s]}]]
    <3>1. pick[s] \in S
      BY <2>1, Picked
    <3>2. run[s] = w[pick[s]] + run[s \ {pick[s]}]
      BY <2>1 DEF SumsUp
    <3>3. QED
      BY <2>1, <3>1, <3>2 DEF Adding
  <2>2. \A s \in SUBSET S : s = {} => run[s] = 0
    BY DEF SumsUp
  <2>3. QED
    BY <2>1, <2>2 DEF Folds
<1>3. \A s \in SUBSET S : g[s] = run[s]
  BY <1>1, <1>2, FoldUnique
<1>4. \A s \in SUBSET S : run[s] \in Nat
  BY <1>3
<1> DEFINE Ordered(s) == \A x \in s : run[s] = w[x] + run[s \ {x}]
           Differ == {s \in SUBSET S : ~ Ordered(s)}
<1>5. Differ = {}
  <2>1. SUFFICES ASSUME Differ # {} PROVE FALSE
    OBVIOUS
  <2>2. PICK s \in Differ : \A y \in s : s \ {y} \notin Differ
    <3> HIDE DEF Differ
    <3>1. Differ \in SUBSET (SUBSET S)
      BY DEF Differ
    <3>2. QED
      BY <2>1, <3>1, SmallestPart
  <2>3. PICK x \in s : run[s] # w[x] + run[s \ {x}]
    BY <2>2
  <2> DEFINE p == pick[s]
             r == s \ {x, p}
  <2>4. /\ s \in SUBSET S /\ s # {} /\ x \in S /\ p \in S /\ p \in s
        /\ s \ {x} \in SUBSET S /\ s \ {p} \in SUBSET S /\ r \in SUBSET S
    BY <2>2, <2>3 DEF Picks
  <2>5. run[s] = w[p] + run[s \ {p}]
    BY <2>4 DEF SumsUp
  <2>6. x # p
    BY <2>3, <2>5
  <2>7. Ordered(s \ {p}) /\ Ordered(s \ {x})
    BY <2>2, <2>4
  <2>8. /\ run[s \ {p}] = w[x] + run[(s \ {p}) \ {x}]
        /\ run[s \ {x}] = w[p] + run[(s \ {x}) \ {p}]
    <3>1. x \in s \ {p} /\ p \in s \ {x}
      BY <2>4, <2>6
    <3>2. QED
      BY <2>7, <3>1
  <2>9. (s \ {p}) \ {x} = r /\ (s \ {x}) \ {p} = r
    OBVIOUS
  <2>10. w[p] \in Nat /\ w[x] \in Nat /\ run[r] \in Nat
    BY <1>4, <2>4
  <2>11. /\ run[s \ {p}] = w[x] + run[r]
         /\ run[s \ {x}] = w[p] + run[r]
    BY <2>8, <2>9
  <2>12. run[s] = w[p] + (w[x] + run[r]) /\ run[s] # w[x] + (w[p] + run[r])
    BY <2>3, <2>5, <2>11
  <2> HIDE DEF p, r
  <2>13. QED
    BY <2>10, <2>12
<1>6. ASSUME NEW s \in SUBSET S
      PROVE  run[s] \in Nat /\ (s = {} => run[s] = 0) /\ Ordered(s)
  BY <1>4, <1>5 DEF SumsUp
<1>7. QED
  BY <1>6 DEF Sums

(* There is only one sum of a set, whatever larger set it is a part of.    *)
LEMMA SumUnique ==
  ASSUME NEW S, NEW w, NEW g, Sums(g, S, w),
         NEW R \in SUBSET S, IsFiniteSet(R), NEW v, NEW h, Sums(h, R, v),
         \A x \in R : v[x] = w[x]
  PROVE  g[R] = h[R]
<1> DEFINE Differ == {s \in SUBSET R : g[s] # h[s]}
<1>1. SUFFICES ASSUME Differ # {} PROVE FALSE
  OBVIOUS
<1>2. PICK s \in Differ : \A y \in s : s \ {y} \notin Differ
  <2> HIDE DEF Differ
  <2>1. Differ \in SUBSET (SUBSET R)
    BY DEF Differ
  <2>2. QED
    BY <1>1, <2>1, SmallestPart
<1>3. s \in SUBSET R /\ s \in SUBSET S /\ g[s] # h[s]
  BY <1>2
<1>4. s # {}
  BY <1>3 DEF Sums
<1>5. PICK x \in s : TRUE
  BY <1>4
<1>6. g[s \ {x}] = h[s \ {x}]
  BY <1>2, <1>3
<1>7. g[s] = w[x] + g[s \ {x}] /\ h[s] = v[x] + h[s \ {x}] /\ v[x] = w[x]
  BY <1>3 DEF Sums
<1>8. QED
  BY <1>3, <1>6, <1>7

(* Disjoint parts add up.                                                  *)
LEMMA SumSplits ==
  ASSUME NEW S, NEW w \in [S -> Nat], NEW g, Sums(g, S, w),
         NEW q \in SUBSET S, NEW r \in SUBSET S, IsFiniteSet(r), q \cap r = {}
  PROVE  g[q \cup r] = g[q] + g[r]
<1> DEFINE Differ == {s \in SUBSET r : g[q \cup s] # g[q] + g[s]}
<1>1. SUFFICES ASSUME Differ # {} PROVE FALSE
  OBVIOUS
<1>2. PICK s \in Differ : \A y \in s : s \ {y} \notin Differ
  <2> HIDE DEF Differ
  <2>1. Differ \in SUBSET (SUBSET r)
    BY DEF Differ
  <2>2. QED
    BY <1>1, <2>1, SmallestPart
<1>3. /\ s \in SUBSET r /\ s \in SUBSET S /\ q \cup s \in SUBSET S
      /\ g[q \cup s] # g[q] + g[s]
  BY <1>2
<1>4. s # {}
  <2>1. SUFFICES ASSUME s = {} PROVE FALSE
    OBVIOUS
  <2>2. g[s] = 0 /\ g[q] \in Nat
    BY <1>3, <2>1 DEF Sums
  <2>3. q \cup s = q
    BY <2>1
  <2>4. g[q] # g[q] + 0
    BY <1>3, <2>2, <2>3
  <2>5. QED
    BY <2>2, <2>4
<1>5. PICK x \in s : TRUE
  BY <1>4
<1>6. /\ s \ {x} \in SUBSET r /\ s \ {x} \in SUBSET S /\ x \in S /\ x \in q \cup s
      /\ (q \cup s) \ {x} = q \cup (s \ {x})
  BY <1>3
<1>7. g[q \cup (s \ {x})] = g[q] + g[s \ {x}]
  BY <1>2, <1>6
<1>8. g[s] = w[x] + g[s \ {x}]
  BY <1>3 DEF Sums
<1>9. g[q \cup s] = w[x] + g[q \cup (s \ {x})]
  <2>1. g[q \cup s] = w[x] + g[(q \cup s) \ {x}]
    BY <1>3, <1>6 DEF Sums
  <2>2. QED
    BY <1>6, <2>1
<1>10. w[x] \in Nat /\ g[q] \in Nat /\ g[s \ {x}] \in Nat
  BY <1>6 DEF Sums
<1>11. /\ g[q \cup s] = w[x] + (g[q] + g[s \ {x}])
       /\ g[q \cup s] # g[q] + (w[x] + g[s \ {x}])
  BY <1>3, <1>7, <1>8, <1>9
<1>12. \A a, b, c, d \in Nat : d = a + (b + c) => d = b + (a + c)
  OBVIOUS
<1>13. g[q \cup s] \in Nat
  BY <1>3 DEF Sums
<1>14. QED
  BY <1>10, <1>11, <1>12, <1>13

(* A part is at most the whole.                                            *)
LEMMA SumMonotone ==
  ASSUME NEW S, NEW w \in [S -> Nat], NEW g, Sums(g, S, w),
         NEW r \in SUBSET S, IsFiniteSet(r), NEW q \in SUBSET r
  PROVE  g[q] <= g[r]
<1>1. /\ q \in SUBSET S /\ r \ q \in SUBSET S /\ q \cap (r \ q) = {} /\ q \cup (r \ q) = r
      /\ IsFiniteSet(r \ q)
  BY FS_Subset
<1>2. g[q \cup (r \ q)] = g[q] + g[r \ q]
  BY <1>1, SumSplits
<1>3. g[q] \in Nat /\ g[r \ q] \in Nat /\ g[r] = g[q] + g[r \ q]
  BY <1>1, <1>2 DEF Sums
<1>4. QED
  BY <1>3

(* The sum of a function over a part of its domain.                        *)
SumOf(f, R) == MapThenSumSet(LAMBDA x : f[x], R)

LEMMA SumOfWhole ==
  ASSUME NEW S, IsFiniteSet(S), NEW f, \A x \in S : f[x] \in Nat
  PROVE  \E run : Sums(run, S, [x \in S |-> f[x]]) /\ SumOf(f, S) = run[S]
<1> DEFINE w == [x \in S |-> f[x]]
           pick == [s \in SUBSET S |-> CHOOSE x \in s : TRUE]
           step(h) == [s \in SUBSET S |->
             IF s = {} THEN 0 ELSE f[CHOOSE x \in s : TRUE] + h[s \ {CHOOSE x \in s : TRUE}]]
           run == CHOOSE h : h = step(h)
<1>1. SumOf(f, S) = run[S]
  BY DEF SumOf, MapThenSumSet, MapThenFoldSet
<1>2. w \in [S -> Nat]
  OBVIOUS
<1>3. Picks(pick, S)
  BY DEF Picks
<1> HIDE DEF w
<1>4. PICK g \in [SUBSET S -> Nat] : SumsUp(g, S, w, pick)
  BY <1>2, <1>3, SumExists
<1>5. ASSUME NEW h, NEW s \in SUBSET S
      PROVE  (IF s = {} THEN 0 ELSE w[pick[s]] + h[s \ {pick[s]}]) = step(h)[s]
  <2>1. CASE s # {}
    <3> DEFINE m == CHOOSE x \in s : TRUE
    <3>1. pick[s] = m /\ m \in S
      BY <2>1
    <3>2. w[m] = f[m]
      BY <3>1 DEF w
    <3>3. step(h)[s] = f[m] + h[s \ {m}]
      BY <2>1
    <3> HIDE DEF pick, m, step
    <3>4. QED
      BY <2>1, <3>1, <3>2, <3>3
  <2>2. QED
    BY <2>1
<1>6. run = step(run)
  <2>1. ASSUME NEW s \in SUBSET S PROVE g[s] = step(g)[s]
    <3>1. g[s] = IF s = {} THEN 0 ELSE w[pick[s]] + g[s \ {pick[s]}]
      BY <1>4 DEF SumsUp
    <3>2. QED
      BY <1>5, <3>1
  <2>2. g = step(g)
    BY <2>1
  <2>3. QED
    BY <2>2
<1>7. SumsUp(run, S, w, pick)
  <2> HIDE DEF run
  <2>1. ASSUME NEW s \in SUBSET S
        PROVE  run[s] = IF s = {} THEN 0 ELSE w[pick[s]] + run[s \ {pick[s]}]
    <3>1. run[s] = step(run)[s]
      BY <1>6
    <3>2. QED
      BY <1>5, <3>1
  <2>2. QED
    BY <2>1 DEF SumsUp
<1> HIDE DEF run, pick
<1>8. Sums(run, S, w)
  BY <1>2, <1>3, <1>7, SumOrderFree
<1>9. QED
  BY <1>1, <1>8 DEF w

(* One sum serves every part of a finite domain.                           *)
LEMMA SumOfParts ==
  ASSUME NEW S, IsFiniteSet(S), NEW f \in [S -> Nat]
  PROVE  \E g : Sums(g, S, f) /\ \A R \in SUBSET S : SumOf(f, R) = g[R]
<1>1. PICK g : Sums(g, S, [x \in S |-> f[x]])
  BY SumOfWhole
<1>2. [x \in S |-> f[x]] = f
  OBVIOUS
<1>3. Sums(g, S, f)
  BY <1>1, <1>2
<1>4. ASSUME NEW R \in SUBSET S PROVE SumOf(f, R) = g[R]
  <2> DEFINE v == [x \in R |-> f[x]]
  <2>1. IsFiniteSet(R) /\ \A x \in R : f[x] \in Nat
    BY FS_Subset
  <2>2. PICK run : Sums(run, R, v) /\ SumOf(f, R) = run[R]
    BY <2>1, SumOfWhole
  <2>3. \A x \in R : v[x] = f[x]
    OBVIOUS
  <2> HIDE DEF v
  <2>4. g[R] = run[R]
    BY <1>3, <2>1, <2>2, <2>3, SumUnique
  <2>5. QED
    BY <2>2, <2>4
<1>5. QED
  BY <1>3, <1>4

(* What a sum over a finite domain comes to, member by member.             *)
LEMMA SumOfSteps ==
  ASSUME NEW S, IsFiniteSet(S), NEW f \in [S -> Nat]
  PROVE  /\ SumOf(f, {}) = 0
         /\ \A R \in SUBSET S : SumOf(f, R) \in Nat
         /\ \A R \in SUBSET S : \A x \in R : SumOf(f, R) = f[x] + SumOf(f, R \ {x})
         /\ \A R \in SUBSET S : \A Q \in SUBSET R : SumOf(f, Q) <= SumOf(f, R)
<1>1. PICK g : Sums(g, S, f) /\ \A R \in SUBSET S : SumOf(f, R) = g[R]
  BY SumOfParts
<1>2. SumOf(f, {}) = 0 /\ \A R \in SUBSET S : SumOf(f, R) \in Nat
  BY <1>1 DEF Sums
<1>3. ASSUME NEW R \in SUBSET S, NEW x \in R
      PROVE  SumOf(f, R) = f[x] + SumOf(f, R \ {x})
  BY <1>1 DEF Sums
<1>4. ASSUME NEW R \in SUBSET S, NEW Q \in SUBSET R
      PROVE  SumOf(f, Q) <= SumOf(f, R)
  <2>1. IsFiniteSet(R) /\ Q \in SUBSET S
    BY FS_Subset
  <2>2. g[Q] <= g[R]
    BY <1>1, <2>1, SumMonotone
  <2>3. QED
    BY <1>1, <2>1, <2>2
<1>5. QED
  BY <1>2, <1>3, <1>4

(* Sums agree where the functions do.                                      *)
LEMMA SumOfSame ==
  ASSUME NEW S, IsFiniteSet(S), NEW f \in [S -> Nat], NEW h \in [S -> Nat],
         NEW R \in SUBSET S, \A x \in R : h[x] = f[x]
  PROVE  SumOf(h, R) = SumOf(f, R)
<1>1. PICK g : Sums(g, S, f) /\ \A P \in SUBSET S : SumOf(f, P) = g[P]
  BY SumOfParts
<1>2. PICK k : Sums(k, S, h) /\ \A P \in SUBSET S : SumOf(h, P) = k[P]
  BY SumOfParts
<1>3. IsFiniteSet(R) /\ Sums(k, R, h)
  BY <1>2, FS_Subset DEF Sums
<1>4. g[R] = k[R]
  BY <1>1, <1>3, SumUnique
<1>5. QED
  BY <1>1, <1>2, <1>4

(* What goes into another set, each member to one of its own that weighs   *)
(* no less, weighs no more than that set.                                  *)
LEMMA SumOfInjection ==
  ASSUME NEW S, IsFiniteSet(S), NEW f \in [S -> Nat],
         NEW R, IsFiniteSet(R), NEW h \in [R -> Nat],
         NEW to \in [R -> S], \A x, y \in R : to[x] = to[y] => x = y,
         \A x \in R : h[x] <= f[to[x]]
  PROVE  SumOf(h, R) <= SumOf(f, S)
<1> DEFINE Image(s) == {to[x] : x \in s}
           Fits(s) == SumOf(h, s) <= SumOf(f, Image(s))
           Differ == {s \in SUBSET R : ~ Fits(s)}
<1>1. \A s \in SUBSET R : Image(s) \in SUBSET S
  OBVIOUS
<1>2. SumOf(h, {}) = 0 /\ SumOf(f, {}) = 0
  BY SumOfSteps
<1>3. SUFFICES ASSUME Differ # {} PROVE FALSE
  <2>1. R \notin Differ => Fits(R)
    OBVIOUS
  <2>2. Image(R) \in SUBSET S /\ S \in SUBSET S
    OBVIOUS
  <2>3. SumOf(f, Image(R)) <= SumOf(f, S) /\ SumOf(h, R) \in Nat
        /\ SumOf(f, Image(R)) \in Nat /\ SumOf(f, S) \in Nat
    BY <2>2, SumOfSteps
  <2>4. Differ = {}
    OBVIOUS
  <2>5. R \notin Differ
    BY <2>4
  <2> HIDE DEF Differ, Image
  <2>6. QED
    BY <2>1, <2>3, <2>5
<1>4. PICK s \in Differ : \A y \in s : s \ {y} \notin Differ
  <2> HIDE DEF Differ
  <2>1. Differ \in SUBSET (SUBSET R)
    BY DEF Differ
  <2>2. QED
    BY <1>3, <2>1, SmallestPart
<1>5. s \in SUBSET R /\ ~ Fits(s)
  OBVIOUS
<1>6. s # {}
  <2>1. SUFFICES ASSUME s = {} PROVE FALSE
    OBVIOUS
  <2>2. Image(s) = {}
    BY <2>1
  <2>3. QED
    BY <1>2, <1>5, <2>1, <2>2
<1>7. PICK y \in s : TRUE
  BY <1>6
<1>8. Fits(s \ {y})
  BY <1>4, <1>5
<1>9. to[y] \in Image(s) /\ Image(s) \ {to[y]} = Image(s \ {y})
  BY <1>5
<1> DEFINE im == Image(s)
<1>10. im \in SUBSET S /\ im \ {to[y]} = Image(s \ {y})
  BY <1>1, <1>5, <1>9
<1> HIDE DEF im, Image
<1>11. SumOf(f, im) = f[to[y]] + SumOf(f, im \ {to[y]})
  BY <1>9, <1>10, SumOfSteps DEF im
<1>12. SumOf(h, s) = h[y] + SumOf(h, s \ {y})
  BY <1>5, SumOfSteps
<1>13. SumOf(h, s \ {y}) <= SumOf(f, im \ {to[y]}) /\ h[y] <= f[to[y]]
  BY <1>5, <1>8, <1>10
<1>14. /\ SumOf(h, s \ {y}) \in Nat /\ SumOf(f, im \ {to[y]}) \in Nat
       /\ h[y] \in Nat /\ f[to[y]] \in Nat
  <2>1. s \ {y} \in SUBSET R /\ im \ {to[y]} \in SUBSET S /\ y \in R /\ to[y] \in S
    BY <1>5, <1>10
  <2>2. QED
    BY <2>1, SumOfSteps
<1>15. SumOf(h, s) <= SumOf(f, im)
  BY <1>11, <1>12, <1>13, <1>14
<1>16. QED
  BY <1>5, <1>15 DEF im

(* What is in disjoint finite sets counts what their sizes add up to.      *)
Gathered(parts, R) == UNION {parts[x] : x \in R}

LEMMA PartsAddUp ==
  ASSUME NEW S, IsFiniteSet(S), NEW parts, NEW size \in [S -> Nat],
         \A x \in S : IsFiniteSet(parts[x]) /\ Cardinality(parts[x]) = size[x],
         \A x \in S : \A y \in S : x # y => parts[x] \cap parts[y] = {}
  PROVE  /\ IsFiniteSet(Gathered(parts, S))
         /\ Cardinality(Gathered(parts, S)) = SumOf(size, S)
<1> DEFINE Adds(s) == /\ IsFiniteSet(Gathered(parts, s))
                      /\ Cardinality(Gathered(parts, s)) = SumOf(size, s)
           Differ == {s \in SUBSET S : ~ Adds(s)}
<1>1. SUFFICES ASSUME Differ # {} PROVE FALSE
  <2>1. S \notin Differ => Adds(S)
    OBVIOUS
  <2>2. QED
    BY <2>1
<1>2. PICK s \in Differ : \A y \in s : s \ {y} \notin Differ
  <2> HIDE DEF Differ
  <2>1. Differ \in SUBSET (SUBSET S)
    BY DEF Differ
  <2>2. QED
    BY <1>1, <2>1, SmallestPart
<1>3. s \in SUBSET S /\ ~ Adds(s)
  OBVIOUS
<1>4. s # {}
  <2>1. SUFFICES ASSUME s = {} PROVE FALSE
    OBVIOUS
  <2>2. Gathered(parts, s) = {}
    BY <2>1 DEF Gathered
  <2>3. SumOf(size, s) = 0
    BY <2>1, SumOfSteps
  <2>4. QED
    BY <1>3, <2>2, <2>3, FS_EmptySet
<1>5. PICK y \in s : TRUE
  BY <1>4
<1>6. y \in S /\ s \ {y} \in SUBSET S
  BY <1>3
<1>7. Adds(s \ {y})
  BY <1>2, <1>6
<1> DEFINE Rest == Gathered(parts, s \ {y})
<1>8. Gathered(parts, s) = Rest \cup parts[y]
  BY DEF Gathered
<1>9. Rest \cap parts[y] = {}
  BY <1>3, <1>6 DEF Gathered
<1>10. SumOf(size, s) = size[y] + SumOf(size, s \ {y})
  BY <1>3, SumOfSteps
<1>11. /\ IsFiniteSet(Rest) /\ Cardinality(Rest) = SumOf(size, s \ {y})
       /\ IsFiniteSet(parts[y]) /\ Cardinality(parts[y]) = size[y]
       /\ Cardinality(Rest) \in Nat /\ size[y] \in Nat
  BY <1>6, <1>7, FS_CardinalityType
<1>12. Cardinality(Rest \cap parts[y]) = 0
  BY <1>9, FS_EmptySet
<1> HIDE DEF Rest
<1>13. /\ IsFiniteSet(Rest \cup parts[y])
       /\ Cardinality(Rest \cup parts[y])
            = Cardinality(Rest) + Cardinality(parts[y]) - Cardinality(Rest \cap parts[y])
  BY <1>11, FS_Union
<1>14. Adds(s)
  BY <1>8, <1>10, <1>11, <1>12, <1>13
<1>15. QED
  BY <1>3, <1>14

(* A finite set of numbers that is not empty has a largest.                *)
LEMMA FiniteHasLast ==
  ASSUME NEW S \in SUBSET Int, IsFiniteSet(S), S # {}
  PROVE  \E m \in S : \A x \in S : x <= m
<1> DEFINE Last(s) == \E m \in s : \A x \in s : x <= m
           Without == {s \in SUBSET S : s # {} /\ ~ Last(s)}
<1>1. SUFFICES ASSUME Without # {} PROVE FALSE
  <2>1. S \notin Without => Last(S)
    OBVIOUS
  <2>2. QED
    BY <2>1
<1>2. PICK s \in Without : \A y \in s : s \ {y} \notin Without
  <2> HIDE DEF Without
  <2>1. Without \in SUBSET (SUBSET S)
    BY DEF Without
  <2>2. QED
    BY <1>1, <2>1, SmallestPart
<1>3. s \in SUBSET S /\ s # {} /\ ~ Last(s)
  OBVIOUS
<1>4. PICK y \in s : TRUE
  BY <1>3
<1>5. CASE s \ {y} = {}
  <2>1. \A x \in s : x = y /\ y \in Int
    BY <1>3, <1>5
  <2>2. Last(s)
    BY <1>4, <2>1
  <2>3. QED
    BY <1>3, <2>2
<1>6. CASE s \ {y} # {}
  <2>1. Last(s \ {y})
    BY <1>2, <1>3, <1>6
  <2>2. PICK m \in s \ {y} : \A x \in s \ {y} : x <= m
    BY <2>1
  <2>3. m \in Int /\ y \in Int /\ s \subseteq Int
    BY <1>3
  <2>4. CASE m <= y
    <3>1. \A x \in s : x <= y
      BY <2>2, <2>3, <2>4
    <3>2. QED
      BY <1>3, <3>1
  <2>5. CASE ~ m <= y
    <3>1. \A x \in s : x <= m
      BY <2>2, <2>3, <2>5
    <3>2. QED
      BY <1>3, <3>1
  <2>6. QED
    BY <2>4, <2>5
<1>7. QED
  BY <1>5, <1>6

=============================================================================
