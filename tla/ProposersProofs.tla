-------------------------- MODULE ProposersProofs --------------------------
(***************************************************************************)
(* Who proposes.  By stake: what the validator set keeps and whom it       *)
(* selects, for every set of addresses, every minimum and every maximum.   *)
(* By reputation: what a score can come to and how the shares of the       *)
(* candidates meet, for every number of blocks, every response time and    *)
(* every configuration that assumes no more than the defaults.             *)
(***************************************************************************)
EXTENDS ValidatorSet, Selection, FoldLemmas, FiniteSetTheorems, TLAPS

Inv == TypeOK /\ DelegationsKept /\ RosterBounded

-----------------------------------------------------------------------------

(* A registration keeps the invariant: the entry takes up what was         *)
(* delegated before, and a new address finds a place.                      *)
LEMMA RegisterKeeps ==
  ASSUME Inv, NEW a \in Addresses, NEW stake \in Stakes, Register(a, stake)
  PROVE  Inv'
<1> USE ValidatorSetAssumption
<1>1. /\ Registered' = Registered \cup {a}
      /\ validators' = [v \in Registered' |->
                          IF v = a THEN Info(a, stake) ELSE validators[v]]
  BY DEF Register, Registered
<1>2. Info(a, stake) \in ValidatorInfo
  BY DEF Info, ValidatorInfo, Inv, TypeOK
<1>3. IsFiniteSet(Registered')
      /\ Cardinality(Registered') =
           IF a \in Registered THEN Cardinality(Registered)
           ELSE Cardinality(Registered) + 1
  BY <1>1, FS_AddElement DEF Inv, TypeOK
<1>4. TypeOK'
  <2>1. validators' \in [Registered' -> ValidatorInfo]
    BY <1>1, <1>2 DEF Inv, TypeOK
  <2>2. QED
    BY <1>1, <1>3, <2>1 DEF Inv, TypeOK, Register
<1>5. DelegationsKept'
  BY <1>1 DEF Inv, DelegationsKept, Register, Info
<1>6. RosterBounded'
  <2>1. Cardinality(Registered) \in Nat
    BY FS_CardinalityType DEF Inv, TypeOK
  <2>2. QED
    BY <1>3, <2>1 DEF Inv, RosterBounded, Register, Full
<1>7. QED
  BY <1>4, <1>5, <1>6 DEF Inv

(* A delegation enters both sums.                                          *)
LEMMA DelegateKeeps ==
  ASSUME Inv, NEW a \in Addresses, NEW amount \in Amounts, Delegate(a, amount)
  PROVE  Inv'
<1> USE ValidatorSetAssumption
<1> DEFINE new == [validators[a] EXCEPT
             !.delegated = validators[a].delegated + amount]
<1>1. /\ Registered' = Registered
      /\ validators' = [validators EXCEPT ![a] = new]
      /\ a \in Registered
  BY DEF Delegate, Registered, Inv, TypeOK, ValidatorInfo
<1>2. validators[a] \in ValidatorInfo
  BY <1>1 DEF Inv, TypeOK
<1>3. /\ new \in ValidatorInfo
      /\ new.delegated = validators[a].delegated + amount
  BY <1>2 DEF ValidatorInfo
<1> HIDE DEF new
<1>4. TypeOK'
  <2>1. validators' \in [Registered' -> ValidatorInfo]
    BY <1>1, <1>3 DEF Inv, TypeOK
  <2>2. delegations' \in [Addresses -> Nat]
    <3>1. delegations \in [Addresses -> Nat] /\ delegations[a] + amount \in Nat
      <4>1. delegations \in [Addresses -> Nat]
        BY DEF Inv, TypeOK
      <4>2. delegations[a] \in Nat /\ amount \in Nat
        BY <4>1
      <4>3. QED
        BY <4>1, <4>2
    <3>2. delegations' = [delegations EXCEPT ![a] = delegations[a] + amount]
      BY DEF Delegate
    <3>3. QED
      BY <3>1, <3>2
  <2>3. QED
    BY <1>1, <2>1, <2>2 DEF Delegate, Inv, TypeOK
<1>5. DelegationsKept'
  BY <1>1, <1>3 DEF Delegate, Inv, TypeOK, DelegationsKept
<1>6. QED
  BY <1>1, <1>4, <1>5 DEF Inv, RosterBounded

(* A slash takes from the stake only.                                      *)
LEMMA SlashKeeps ==
  ASSUME Inv, NEW a \in Addresses, NEW amount \in Amounts,
         NEW deactivate \in BOOLEAN, Slash(a, amount, deactivate)
  PROVE  Inv'
<1> USE ValidatorSetAssumption
<1> DEFINE new == [validators[a] EXCEPT
             !.stake = Slashed(validators[a].stake, amount),
             !.active = validators[a].active /\ ~ deactivate]
<1>1. /\ Registered' = Registered
      /\ validators' = [validators EXCEPT ![a] = new]
      /\ a \in Registered
  BY DEF Slash, Registered, Inv, TypeOK, ValidatorInfo
<1>2. validators[a] \in ValidatorInfo
  BY <1>1 DEF Inv, TypeOK
<1>3. Slashed(validators[a].stake, amount) \in Nat
  BY <1>2 DEF Slashed, ValidatorInfo
<1>4. new \in ValidatorInfo /\ new.delegated = validators[a].delegated
  BY <1>2, <1>3 DEF ValidatorInfo
<1> HIDE DEF new
<1>5. TypeOK'
  BY <1>1, <1>4 DEF Slash, Inv, TypeOK
<1>6. DelegationsKept'
  BY <1>1, <1>4 DEF Slash, Inv, TypeOK, DelegationsKept
<1>7. QED
  BY <1>1, <1>5, <1>6 DEF Inv, RosterBounded

-----------------------------------------------------------------------------
(* The sums of the walk.                                                   *)

StakeIn(S) == [a \in S |-> TotalStake(a)]

(* StakeOf adds up stakes in any order.                                    *)
LEMMA StakeSums ==
  ASSUME NEW S, IsFiniteSet(S), \A a \in S : TotalStake(a) \in Nat
  PROVE  \E run : Sums(run, S, StakeIn(S)) /\ StakeOf(S) = run[S]
<1> DEFINE pick == [s \in SUBSET S |-> CHOOSE x \in s : TRUE]
           step(f) == [s \in SUBSET S |->
             IF s = {} THEN 0
             ELSE TotalStake(CHOOSE x \in s : TRUE) + f[s \ {CHOOSE x \in s : TRUE}]]
           run == CHOOSE f : f = step(f)
<1>1. StakeOf(S) = run[S]
  BY DEF StakeOf, MapThenSumSet, MapThenFoldSet
<1>2. StakeIn(S) \in [S -> Nat]
  BY DEF StakeIn
<1>3. Picks(pick, S)
  BY DEF Picks
<1>4. PICK g \in [SUBSET S -> Nat] : SumsUp(g, S, StakeIn(S), pick)
  BY <1>2, <1>3, SumExists
<1>5. ASSUME NEW f, NEW s \in SUBSET S
      PROVE  (IF s = {} THEN 0 ELSE StakeIn(S)[pick[s]] + f[s \ {pick[s]}])
               = IF s = {} THEN 0
                 ELSE TotalStake(CHOOSE x \in s : TRUE) + f[s \ {CHOOSE x \in s : TRUE}]
  <2>1. CASE s # {}
    <3> DEFINE m == CHOOSE x \in s : TRUE
    <3>1. pick[s] = m /\ m \in S
      BY <2>1
    <3>2. StakeIn(S)[m] = TotalStake(m)
      BY <3>1 DEF StakeIn
    <3> HIDE DEF pick, m
    <3>3. StakeIn(S)[pick[s]] + f[s \ {pick[s]}] = TotalStake(m) + f[s \ {m}]
      BY <3>1, <3>2
    <3>4. QED
      BY <2>1, <3>3 DEF m
  <2>2. QED
    BY <2>1
<1>6. run = step(run)
  <2>1. ASSUME NEW s \in SUBSET S PROVE g[s] = step(g)[s]
    <3>1. g[s] = IF s = {} THEN 0 ELSE StakeIn(S)[pick[s]] + g[s \ {pick[s]}]
      BY <1>4 DEF SumsUp
    <3>2. QED
      BY <1>5, <3>1
  <2>2. g = step(g)
    BY <2>1
  <2>3. QED
    BY <2>2
<1>7. SumsUp(run, S, StakeIn(S), pick)
  <2> HIDE DEF run
  <2>1. ASSUME NEW s \in SUBSET S
        PROVE  run[s] = IF s = {} THEN 0 ELSE StakeIn(S)[pick[s]] + run[s \ {pick[s]}]
    <3>1. run[s] = step(run)[s]
      BY <1>6
    <3>2. QED
      BY <1>5, <3>1
  <2>2. QED
    BY <2>1 DEF SumsUp
<1> HIDE DEF run, pick
<1>8. Sums(run, S, StakeIn(S))
  BY <1>2, <1>3, <1>7, SumOrderFree
<1>9. QED
  BY <1>1, <1>8

ActiveSums(g) ==
  /\ Sums(g, Active, StakeIn(Active))
  /\ \A S \in SUBSET Active : StakeOf(S) = g[S]

(* One sum serves every part of the active validators.                     *)
LEMMA WalkSums ==
  ASSUME TypeOK
  PROVE  /\ Active \subseteq Nat /\ IsFiniteSet(Active)
         /\ \A a \in Active : TotalStake(a) \in Nat /\ TotalStake(a) >= MinStake
         /\ StakeIn(Active) \in [Active -> Nat]
         /\ \E g : ActiveSums(g)
<1> USE ValidatorSetAssumption
<1>1. Active \subseteq Nat /\ IsFiniteSet(Active)
  <2>1. Active \subseteq Registered
    BY DEF Active
  <2>2. QED
    BY <2>1, FS_Subset DEF TypeOK
<1>2. ASSUME NEW a \in Active PROVE TotalStake(a) \in Nat /\ TotalStake(a) >= MinStake
  <2>1. a \in Registered /\ TotalStake(a) >= MinStake
    BY DEF Active
  <2>2. validators[a] \in ValidatorInfo
    BY <2>1 DEF TypeOK
  <2>3. QED
    BY <2>1, <2>2 DEF TotalStake, ValidatorInfo
<1>3. StakeIn(Active) \in [Active -> Nat]
  BY <1>2 DEF StakeIn
<1>4. PICK g : Sums(g, Active, StakeIn(Active))
  BY <1>1, <1>2, StakeSums
<1>5. ASSUME NEW S \in SUBSET Active PROVE StakeOf(S) = g[S]
  <2>1. IsFiniteSet(S)
    BY <1>1, FS_Subset
  <2>2. PICK run : Sums(run, S, StakeIn(S)) /\ StakeOf(S) = run[S]
    BY <1>2, <2>1, StakeSums
  <2>3. \A x \in S : StakeIn(S)[x] = StakeIn(Active)[x]
    BY DEF StakeIn
  <2>4. g[S] = run[S]
    BY <1>4, <2>1, <2>2, <2>3, SumUnique
  <2>5. QED
    BY <2>2, <2>4
<1>6. QED
  BY <1>1, <1>2, <1>3, <1>4, <1>5 DEF ActiveSums

(* The numbers up to one and those before it.                              *)
LEMMA Cuts ==
  ASSUME NEW A \in SUBSET Nat, NEW a \in A
  PROVE  /\ {b \in A : b <= a} \ {a} = {b \in A : b < a}
         /\ \A c \in A : c < a => {b \in A : b <= c} \subseteq {b \in A : b < a}
         /\ (\A c \in A : a <= c) => {b \in A : b < a} = {}
         /\ \A c \in A : /\ c < a /\ (\A d \in A : d < a => d <= c)
                         => {b \in A : b < a} = {b \in A : b <= c}
<1>1. \A b \in A : (b <= a /\ b # a) <=> b < a
  OBVIOUS
<1>2. \A c \in A : c < a => \A b \in A : b <= c => b < a
  OBVIOUS
<1>3. (\A c \in A : a <= c) => \A b \in A : ~ b < a
  OBVIOUS
<1>4. QED
  BY <1>1, <1>2, <1>3

(* Where the share of a begins.                                            *)
From(a) == StakeOf({b \in Active : b < a})

(* Shares follow on one another in the order of the addresses, each as long*)
(* as its validator's stake, and fill the total.                           *)
LEMMA WalkIsLaidOut ==
  ASSUME TypeOK, NEW a \in Active
  PROVE  /\ From(a) \in Nat /\ Upto(a) = From(a) + TotalStake(a)
         /\ StakeOf(Active) \in Nat /\ Upto(a) <= StakeOf(Active)
         /\ \A b \in Active : b < a => Upto(b) <= From(a)
         /\ (\A b \in Active : b <= a) => Upto(a) = StakeOf(Active)
         /\ (\A b \in Active : a <= b) => From(a) = 0
<1> DEFINE before == {b \in Active : b < a}
           with == {b \in Active : b <= a}
<1>1. /\ Active \subseteq Nat /\ IsFiniteSet(Active)
      /\ StakeIn(Active) \in [Active -> Nat]
  BY WalkSums
<1>2. PICK g : ActiveSums(g)
  BY WalkSums
<1>3. /\ before \in SUBSET Active /\ with \in SUBSET Active /\ with \ {a} = before
      /\ a \in with
  BY <1>1, Cuts
<1>4. Sums(g, Active, StakeIn(Active)) /\ StakeIn(Active)[a] = TotalStake(a)
  BY <1>2 DEF ActiveSums, StakeIn
<1>5. /\ From(a) = g[before] /\ Upto(a) = g[with] /\ StakeOf(Active) = g[Active]
  BY <1>2, <1>3 DEF ActiveSums, From, Upto
<1>6. /\ g[before] \in Nat /\ g[with] = TotalStake(a) + g[before]
      /\ g[with] \in Nat /\ g[Active] \in Nat
  <2> HIDE DEF before, with
  <2>1. g[before] \in Nat /\ g[with] \in Nat /\ g[Active] \in Nat
    BY <1>3, <1>4 DEF Sums
  <2>2. g[with] = StakeIn(Active)[a] + g[with \ {a}]
    BY <1>3, <1>4 DEF Sums
  <2>3. QED
    BY <1>3, <1>4, <2>1, <2>2
<1>7. g[with] <= g[Active]
  BY <1>1, <1>3, <1>4, SumMonotone
<1>8. ASSUME NEW b \in Active, b < a PROVE Upto(b) <= g[before]
  <2> DEFINE first == {c \in Active : c <= b}
  <2>1. first \in SUBSET before /\ first \in SUBSET Active /\ IsFiniteSet(before)
    BY <1>1, <1>3, <1>8, Cuts, FS_Subset
  <2>2. Upto(b) = g[first]
    BY <1>2, <2>1 DEF ActiveSums, Upto
  <2>3. g[first] <= g[before]
    BY <1>1, <1>3, <1>4, <2>1, SumMonotone
  <2>4. QED
    BY <2>2, <2>3
<1>9. (\A b \in Active : b <= a) => with = Active
  BY <1>3
<1>10. (\A b \in Active : a <= b) => g[before] = 0
  <2>1. SUFFICES ASSUME \A b \in Active : a <= b PROVE g[before] = 0
    OBVIOUS
  <2>2. before = {}
    BY <1>1, <2>1, Cuts
  <2> HIDE DEF before
  <2>3. QED
    BY <1>3, <1>4, <2>2 DEF Sums
<1> HIDE DEF before, with
<1>11. TotalStake(a) \in Nat
  BY WalkSums
<1>12. QED
  BY <1>5, <1>6, <1>7, <1>8, <1>9, <1>10, <1>11

(* The walk stops at the validator whose share holds the index.            *)
LEMMA WalkFindsShare ==
  ASSUME TypeOK, NEW a \in Active, NEW idx \in Nat, idx < StakeOf(Active)
  PROVE  ProposerAt(idx) = a <=> From(a) <= idx /\ idx < Upto(a)
<1>1. Active \subseteq Nat /\ IsFiniteSet(Active)
  BY WalkSums
<1>2. \A b \in Active : /\ From(b) \in Nat /\ Upto(b) \in Nat
                        /\ TotalStake(b) \in Nat /\ Upto(b) = From(b) + TotalStake(b)
  <2>1. \A b \in Active : TotalStake(b) \in Nat
    BY WalkSums
  <2>2. \A b \in Active : From(b) \in Nat /\ Upto(b) = From(b) + TotalStake(b)
    BY WalkIsLaidOut
  <2>3. QED
    BY <2>1, <2>2
<1>3. \A b, c \in Active : b < c => Upto(b) <= From(c)
  BY WalkIsLaidOut
<1> DEFINE Reached == {b \in Active : Reaches(b, idx)}
<1>4. PICK m \in Active : \A b \in Active : b <= m
  BY <1>1, FiniteHasLast
<1>5. m \in Reached
  BY <1>4, WalkIsLaidOut DEF Reaches
<1>6. PICK low \in Reached : \A b \in Reached : low <= b
  <2>1. Reached \subseteq Nat /\ Reached # {}
    BY <1>1, <1>5
  <2>2. QED
    BY <2>1, LeastOfNaturals
<1>7. \A c \in Active :
        (Reaches(c, idx) /\ \A b \in Active : Reaches(b, idx) => c <= b) <=> c = low
  BY <1>1, <1>6
<1>8. ProposerAt(idx) = low
  BY <1>6, <1>7 DEF ProposerAt
<1>9. From(low) <= idx /\ idx < Upto(low)
  <2>1. idx < Upto(low)
    BY <1>6 DEF Reaches
  <2>2. CASE \A b \in Active : low <= b
    BY <1>6, <2>1, <2>2, WalkIsLaidOut
  <2>3. CASE ~ \A b \in Active : low <= b
    <3> DEFINE Before == {b \in Active : b < low}
    <3>1. Before \in SUBSET Int /\ Before # {} /\ IsFiniteSet(Before)
      <4>1. \A b \in Active : ~ low <= b => b < low
        BY <1>1, <1>6
      <4>2. Before \in SUBSET Active /\ Before # {}
        BY <2>3, <4>1
      <4> HIDE DEF Before
      <4>3. IsFiniteSet(Before)
        BY <1>1, <4>2, FS_Subset
      <4>4. Before \in SUBSET Int
        BY <1>1, <4>2
      <4>5. QED
        BY <4>2, <4>3, <4>4
    <3>2. PICK p \in Before : \A b \in Before : b <= p
      BY <3>1, FiniteHasLast
    <3>3. Before = {b \in Active : b <= p}
      <4>1. low \in Active /\ p \in Active /\ p < low
        BY <1>6, <3>2
      <4>2. \A b \in Active : b < low => b <= p
        BY <3>2
      <4>3. QED
        BY <1>1, <4>1, <4>2, Cuts
    <3>4. From(low) = Upto(p)
      BY <3>3 DEF From, Upto
    <3>5. p \notin Reached /\ p \in Active
      BY <1>1, <1>6, <3>2
    <3>6. QED
      BY <1>2, <2>1, <3>4, <3>5 DEF Reaches
  <2>4. QED
    BY <2>1, <2>2, <2>3
<1>10. ASSUME From(a) <= idx, idx < Upto(a) PROVE a = low
  <2>1. a \in Reached /\ low \in Active
    BY <1>6, <1>10 DEF Reaches
  <2>2. low <= a
    BY <1>6, <2>1
  <2>3. ~ low < a
    BY <1>2, <1>3, <1>9, <1>10, <2>1
  <2>4. QED
    BY <1>1, <2>1, <2>2, <2>3
<1>11. QED
  BY <1>8, <1>9, <1>10

(* An active validator alone has more stake than any index is large, so    *)
(* the walk stops at the first: the one of the lowest address.             *)
LEMMA WalkStopsAtFirst ==
  ASSUME TypeOK, NEW idx \in Indices, Active # {}
  PROVE  /\ ProposerAt(idx) \in Active
         /\ \A a \in Active : ProposerAt(idx) <= a
<1> USE ValidatorSetAssumption
<1>1. Active \subseteq Nat
  BY WalkSums
<1>2. PICK low \in Active : \A a \in Active : low <= a
  BY <1>1, LeastOfNaturals
<1>3. From(low) = 0 /\ Upto(low) = From(low) + TotalStake(low)
  BY <1>2, WalkIsLaidOut
<1>4. TotalStake(low) \in Nat /\ TotalStake(low) >= MinStake
  BY WalkSums
<1>5. idx \in Nat /\ idx < StakeOf(Active) /\ idx < SeedRange
  BY DEF Indices
<1>6. ProposerAt(idx) = low
  BY <1>3, <1>4, <1>5, WalkFindsShare
<1>7. QED
  BY <1>2, <1>6

-----------------------------------------------------------------------------

(* Every reachable set of validators has its delegations and its bound.    *)
THEOREM ValidatorSetInvariant == Spec => []Inv
<1> USE ValidatorSetAssumption
<1>1. Init => Inv
  <2> SUFFICES ASSUME Init PROVE Inv
    OBVIOUS
  <2>1. Registered = {} /\ validators \in [{} -> ValidatorInfo]
    BY DEF Init, Registered
  <2>2. IsFiniteSet({}) /\ Cardinality({}) = 0
    BY FS_EmptySet
  <2>3. QED
    BY <2>1, <2>2 DEF Init, Inv, TypeOK, DelegationsKept, RosterBounded
<1>2. Inv /\ [Next]_vars => Inv'
  <2> SUFFICES ASSUME Inv, [Next]_vars PROVE Inv'
    OBVIOUS
  <2>1. ASSUME NEW a \in Addresses, NEW stake \in Stakes, RefuseRegister(a, stake)
        PROVE  Inv'
    BY <2>1 DEF RefuseRegister, Inv, TypeOK, DelegationsKept, RosterBounded, Registered
  <2>2. ASSUME NEW a \in Addresses, NEW stake \in Stakes, Register(a, stake)
        PROVE  Inv'
    BY <2>2, RegisterKeeps
  <2>3. ASSUME NEW a \in Addresses, NEW amount \in Amounts, RefuseDelegate(a, amount)
        PROVE  Inv'
    BY <2>3 DEF RefuseDelegate, Inv, TypeOK, DelegationsKept, RosterBounded, Registered
  <2>4. ASSUME NEW a \in Addresses, NEW amount \in Amounts, Delegate(a, amount)
        PROVE  Inv'
    BY <2>4, DelegateKeeps
  <2>5. ASSUME NEW a \in Addresses, NEW amount \in Amounts,
               NEW deactivate \in BOOLEAN, Slash(a, amount, deactivate)
        PROVE  Inv'
    BY <2>5, SlashKeeps
  <2>6. ASSUME NEW amount \in Amounts, DelegateNothing(amount)
        PROVE  Inv'
    BY <2>6 DEF DelegateNothing, Inv, TypeOK, DelegationsKept, RosterBounded, Registered
  <2>7. ASSUME NEW idx \in Indices, SelectProposer(idx)
        PROVE  Inv'
    <3>1. proposer' \in Addresses
      BY <2>7, WalkStopsAtFirst DEF SelectProposer, Active, Inv, TypeOK
    <3>2. QED
      BY <2>7, <3>1
      DEF SelectProposer, Inv, TypeOK, DelegationsKept, RosterBounded, Registered
  <2>8. CASE NoValidators
    BY <2>8 DEF NoValidators, Inv, TypeOK, DelegationsKept, RosterBounded, Registered
  <2>9. CASE UNCHANGED vars
    BY <2>9 DEF vars, Inv, TypeOK, DelegationsKept, RosterBounded, Registered
  <2>10. QED
    BY <2>1, <2>2, <2>3, <2>4, <2>5, <2>6, <2>7, <2>8, <2>9 DEF Next
<1>3. QED
  BY <1>1, <1>2, PTL DEF Spec

(* A re-registration, a slash and a delegation in any order keep what was  *)
(* delegated to a validator (DelegationsKept).                             *)
THEOREM DelegationsNeverLost == Spec => []DelegationsKept
BY ValidatorSetInvariant, PTL DEF Inv

(* The set never grows beyond its maximum (RosterBounded).                 *)
THEOREM RosterNeverOverfull == Spec => []RosterBounded
BY ValidatorSetInvariant, PTL DEF Inv

(* All of the state keeps its type (TypeOK).                               *)
THEOREM ValidatorSetTypeCorrect == Spec => []TypeOK
BY ValidatorSetInvariant, PTL DEF Inv

(* Since MIN_STAKE is more than any 8 bytes of a hash, select_proposer     *)
(* never answers another validator than the first of the map               *)
(* (LowestProposes), whatever the stakes are.                              *)
THEOREM FirstAlwaysProposes == Spec => LowestProposes
<1>1. ASSUME Inv, [Next]_vars, proposer' \notin {proposer, NoOne}
      PROVE  proposer' \in Active /\ \A a \in Active : proposer' <= a
  <2>1. PICK idx \in Indices : SelectProposer(idx)
    BY <1>1 DEF Next, vars, RefuseRegister, Register, RefuseDelegate, Delegate,
                Slash, DelegateNothing, NoValidators
  <2>2. QED
    BY <1>1, <2>1, WalkStopsAtFirst DEF SelectProposer, Inv
<1>2. QED
  BY <1>1, ValidatorSetInvariant, PTL DEF Spec, LowestProposes

(* Whoever was deactivated returns with a stake of MIN_STAKE               *)
(* (ReturnsStaked).                                                        *)
THEOREM OnlyStakedReturn == Spec => ReturnsStaked
<1>1. ASSUME Inv, [Next]_vars, NEW v \in Registered, v \in Registered',
             ~ validators[v].active, validators'[v].active
      PROVE  validators'[v].stake >= MinStake
  <2>1. validators' # validators
    BY <1>1
  <2>2. ASSUME NEW a \in Addresses, NEW stake \in Stakes, Register(a, stake)
        PROVE  validators'[v].stake >= MinStake
    BY <1>1, <2>2 DEF Register, Enough, Info, Registered
  <2>3. ASSUME NEW a \in Addresses, NEW amount \in Amounts, Delegate(a, amount)
        PROVE  FALSE
    BY <1>1, <2>3 DEF Delegate, Inv, TypeOK, ValidatorInfo
  <2>4. ASSUME NEW a \in Addresses, NEW amount \in Amounts,
               NEW deactivate \in BOOLEAN, Slash(a, amount, deactivate)
        PROVE  FALSE
    BY <1>1, <2>4 DEF Slash, Inv, TypeOK, ValidatorInfo
  <2>5. QED
    BY <1>1, <2>1, <2>2, <2>3, <2>4
    DEF Next, vars, RefuseRegister, RefuseDelegate, DelegateNothing,
        SelectProposer, NoValidators
<1>2. Inv /\ [Next]_vars =>
        \A a \in Registered \cap Registered' :
          ~ validators[a].active /\ validators'[a].active
            => validators'[a].stake >= MinStake
  BY <1>1
<1>3. QED
  BY <1>2, ValidatorSetInvariant, PTL DEF Spec, ReturnsStaked

(* The walk of select_proposer gives every active validator as many of the *)
(* indices below the total stake as it has stake (WalkDividesByStake).     *)
THEOREM SharesFollowStake == Spec => []WalkDividesByStake
<1>1. ASSUME TypeOK, NEW a \in Active
      PROVE  Cardinality({idx \in 0 .. StakeOf(Active) - 1 : ProposerAt(idx) = a})
               = TotalStake(a)
  <2> DEFINE total == StakeOf(Active)
             last == Upto(a) - 1
  <2>1. /\ From(a) \in Nat /\ Upto(a) = From(a) + TotalStake(a)
        /\ total \in Nat /\ Upto(a) <= total /\ TotalStake(a) \in Nat
    BY <1>1, WalkIsLaidOut, WalkSums
  <2> HIDE DEF total
  <2>2. \A idx \in 0 .. total - 1 :
          ProposerAt(idx) = a <=> From(a) <= idx /\ idx < Upto(a)
    BY <1>1, <2>1, WalkFindsShare DEF total
  <2>3. {idx \in 0 .. total - 1 : ProposerAt(idx) = a} = From(a) .. last
    BY <2>1, <2>2
  <2>4. /\ From(a) \in Int /\ last \in Int
        /\ (IF From(a) > last THEN 0 ELSE last - From(a) + 1) = TotalStake(a)
    BY <2>1
  <2> HIDE DEF last
  <2>5. Cardinality(From(a) .. last) = TotalStake(a)
    BY <2>4, FS_Interval
  <2>6. QED
    BY <2>3, <2>5 DEF total
<1>2. TypeOK => WalkDividesByStake
  BY <1>1 DEF WalkDividesByStake
<1>3. QED
  BY <1>2, ValidatorSetTypeCorrect, PTL

-----------------------------------------------------------------------------
(* Reputation.                                                             *)

(* A fraction of two sums is not negative when it is rounded.              *)
LEMMA RoundNat ==
  ASSUME NEW n \in Nat, NEW d \in Nat \ {0}
  PROVE  Round(n, d) \in Nat
<1>1. 2 * n + d \in Nat /\ 2 * d \in Nat \ {0}
  OBVIOUS
<1>2. \A m \in Nat, k \in Nat \ {0} : m \div k \in Nat
  OBVIOUS
<1>3. QED
  BY <1>1, <1>2 DEF Round

(* Whatever is on record, the penalties leave the rest of what everybody   *)
(* starts with, and the clamp cuts off what exceeds 1000.                  *)
LEMMA ScoreBounds ==
  ASSUME NEW r \in Record, NEW h \in Nat
  PROVE  Score(r, h) \in 500 - MaxPenalty .. 1000
<1> USE SelectionAssumption
<1>1. Success(r) \in Nat
  <2>1. CASE r.proposed + r.missed = 0
    BY <2>1 DEF Success, Record
  <2>2. CASE r.proposed + r.missed # 0
    <3>1. 200 * r.proposed \in Nat /\ r.proposed + r.missed \in Nat \ {0}
      BY <2>2 DEF Record
    <3>2. QED
      BY <2>2, <3>1, RoundNat DEF Success
  <2>3. QED
    BY <2>1, <2>2
<1>2. Penalty(r) \in Int /\ Penalty(r) <= MaxPenalty
  <2>1. r.invalid * InvalidPoints \in Int
    BY DEF Record
  <2>2. QED
    BY <2>1 DEF Penalty, Least
<1>3. /\ Experience(r, h) \in {0, 50, 100}
      /\ Promptness(r) \in {0, 50, 100}
      /\ Recency(r, h) \in {0, 50, 100}
  BY DEF Experience, Promptness, Recency
<1> DEFINE sum == 500 + 2 * Success(r) - Penalty(r) + Experience(r, h) + Promptness(r)
                  + Recency(r, h)
<1>4. sum \in Int /\ sum >= 500 - MaxPenalty
  <2>1. PICK a \in Nat, b \in Int : a = Success(r) /\ b = Penalty(r) /\ b <= MaxPenalty
    BY <1>1, <1>2
  <2>2. PICK c, d, e \in {0, 50, 100} :
          c = Experience(r, h) /\ d = Promptness(r) /\ e = Recency(r, h)
    BY <1>3
  <2>3. sum = 500 + 2 * a - b + c + d + e
    BY <2>1, <2>2
  <2> HIDE DEF sum
  <2>4. /\ c \in Int /\ c >= 0 /\ d \in Int /\ d >= 0 /\ e \in Int /\ e >= 0
        /\ MaxPenalty \in Int
    BY <2>2
  <2> HIDE SelectionAssumption
  <2>5. QED
    BY <2>1, <2>3, <2>4
<1>5. Score(r, h) = Clamp(sum)
  BY DEF Score
<1> HIDE DEF sum
<1>6. Clamp(sum) \in 500 - MaxPenalty .. 1000
  BY <1>4 DEF Clamp, Least
<1>7. QED
  BY <1>5, <1>6

-----------------------------------------------------------------------------

(* A record keeps its types through an update at the height reached.       *)
LEMMA UpdateKeeps ==
  ASSUME SelectorTypeOK, NEW v \in Validators, NEW r \in Record,
         r.joined <= height, Update(v, r)
  PROVE  SelectorTypeOK'
<1> DEFINE new == [r EXCEPT !.seen = height]
<1>1. /\ DOMAIN records' = DOMAIN records \cup {v}
      /\ height' = height
      /\ \A u \in DOMAIN records' : records'[u] = IF u = v THEN new ELSE records[u]
  BY DEF Update
<1>2. new \in Record /\ new.joined = r.joined /\ new.seen = height
  BY DEF SelectorTypeOK, Record
<1> HIDE DEF new
<1>3. ASSUME NEW u \in DOMAIN records'
      PROVE  /\ records'[u] \in Record
             /\ records'[u].joined <= records'[u].seen /\ records'[u].seen <= height'
  <2>1. CASE u = v
    BY <1>1, <1>2, <2>1 DEF SelectorTypeOK
  <2>2. CASE u # v
    BY <1>1, <2>2 DEF SelectorTypeOK
  <2>3. QED
    BY <2>1, <2>2
<1>4. QED
  BY <1>1, <1>3 DEF SelectorTypeOK

(* The record to be updated, found or new.                                 *)
LEMMA EntryType ==
  ASSUME SelectorTypeOK, NEW v \in Validators
  PROVE  Entry(v) \in Record /\ Entry(v).joined <= height
BY DEF SelectorTypeOK, Entry, Record

(* The running average is a natural number.                                *)
LEMMA AverageNat ==
  ASSUME NEW old \in Nat, NEW rt \in Nat
  PROVE  Average(old, rt) \in Nat
BY DEF Average

LEMMA StepKeeps ==
  ASSUME SelectorTypeOK, SelectorNext
  PROVE  SelectorTypeOK'
<1> USE SelectionAssumption
<1>1. CASE Advance
  <2>1. records' = records /\ height' = height + 1 /\ height \in Nat
    BY <1>1 DEF Advance, SelectorTypeOK
  <2>2. \A v \in DOMAIN records : records[v] \in Record /\ records[v].seen <= height'
    BY <2>1 DEF SelectorTypeOK, Record
  <2>3. QED
    BY <2>1, <2>2 DEF SelectorTypeOK
<1>2. ASSUME NEW v \in Validators, NEW rt \in ResponseTimes, RecordProduced(v, rt)
      PROVE  SelectorTypeOK'
  <2>1. PICK e \in Record : e = Entry(v) /\ e.joined <= height
    BY EntryType
  <2>2. PICK n \in Nat : n = Average(e.response, rt)
    BY AverageNat DEF Record
  <2>3. PICK k \in Nat : k = e.proposed + 1
    BY DEF Record
  <2> DEFINE r == [e EXCEPT !.proposed = k, !.response = n]
  <2>4. r \in Record
    BY DEF Record
  <2>5. r.joined = e.joined
    BY DEF Record
  <2>6. Update(v, r)
    BY <1>2, <2>1, <2>2, <2>3 DEF RecordProduced
  <2>7. QED
    BY <2>1, <2>4, <2>5, <2>6, UpdateKeeps
<1>3. ASSUME NEW v \in Validators, RecordMissed(v)
      PROVE  SelectorTypeOK'
  <2>1. PICK e \in Record : e = Entry(v) /\ e.joined <= height
    BY EntryType
  <2>2. PICK k \in Nat : k = e.missed + 1
    BY DEF Record
  <2> DEFINE r == [e EXCEPT !.missed = k]
  <2>3. r \in Record /\ r.joined = e.joined
    BY DEF Record
  <2>4. QED
    BY <1>3, <2>1, <2>2, <2>3, UpdateKeeps DEF RecordMissed
<1>4. ASSUME NEW v \in Validators, RecordInvalid(v)
      PROVE  SelectorTypeOK'
  <2>1. PICK e \in Record : e = Entry(v) /\ e.joined <= height
    BY EntryType
  <2>2. PICK k \in Nat : k = e.invalid + 1
    BY DEF Record
  <2> DEFINE r == [e EXCEPT !.invalid = k]
  <2>3. r \in Record /\ r.joined = e.joined
    BY DEF Record
  <2>4. QED
    BY <1>4, <2>1, <2>2, <2>3, UpdateKeeps DEF RecordInvalid
<1>5. QED
  BY <1>1, <1>2, <1>3, <1>4 DEF SelectorNext

(* Records are well formed in every reachable state, and none is of a block*)
(* that the caller has not reached.                                        *)
THEOREM SelectorTypeCorrect == SelectorSpec => []SelectorTypeOK
<1>1. SelectorInit => SelectorTypeOK
  BY DEF SelectorInit, SelectorTypeOK
<1>2. SelectorTypeOK /\ [SelectorNext]_selector => SelectorTypeOK'
  <2>1. ASSUME SelectorTypeOK, UNCHANGED selector
        PROVE  SelectorTypeOK'
    BY <2>1 DEF SelectorTypeOK, selector
  <2>2. QED
    BY <2>1, StepKeeps
<1>3. QED
  BY <1>1, <1>2, PTL DEF SelectorSpec

(* The filter by min_reputation_score never removes a candidate: nothing   *)
(* counts a slash, and no other record brings a score below the minimum.   *)
THEOREM MinimumNeverMissed ==
  SelectorSpec => [](\A v \in DOMAIN records : Reputation(v) >= MinReputation)
<1>1. ASSUME SelectorTypeOK, NEW v \in DOMAIN records
      PROVE  Reputation(v) >= MinReputation
  <2>1. records[v] \in Record /\ height \in Nat
    BY <1>1 DEF SelectorTypeOK
  <2>2. Score(records[v], height) \in 500 - MaxPenalty .. 1000
    BY <2>1, ScoreBounds
  <2>3. QED
    BY <2>2, SelectionAssumption DEF Reputation
<1>2. SelectorTypeOK => \A v \in DOMAIN records : Reputation(v) >= MinReputation
  BY <1>1
<1>3. QED
  BY <1>2, SelectorTypeCorrect, PTL

-----------------------------------------------------------------------------
(* The candidates that are scored, and their shares.                       *)

ValidatorsOf(q) == {q[k] : k \in DOMAIN q}

LEMMA AppendAdds ==
  ASSUME NEW T, NEW q \in Seq(T), NEW t \in T
  PROVE  ValidatorsOf(Append(q, t)) = ValidatorsOf(q) \cup {t}
<1> DEFINE r == Append(q, t)
           n == Len(q)
<1>1. /\ n \in Nat /\ DOMAIN q = 1 .. n /\ DOMAIN r = 1 .. n + 1
      /\ r[n + 1] = t /\ \A k \in 1 .. n : r[k] = q[k]
  OBVIOUS
<1> HIDE DEF r, n
<1>2. \A k : k \in 1 .. n + 1 <=> k \in 1 .. n \/ k = n + 1
  BY <1>1
<1>3. \A x : x \in ValidatorsOf(r) <=> x \in ValidatorsOf(q) \/ x = t
  BY <1>1, <1>2 DEF ValidatorsOf
<1>4. QED
  BY <1>3 DEF r

(* The loop has dealt with a part of the candidates.                       *)
Remaining(s) == {Candidates[i] : i \in {j \in s : ~ Excluded(Candidates[j])}}

LastPlace == [s \in SUBSET DOMAIN Candidates |-> Max(s)]
Scoring == [i \in DOMAIN Candidates |-> [q \in Seq(Validators) |->
              IF Excluded(Candidates[i]) THEN q ELSE Append(q, Candidates[i])]]

LEMMA CandidatesTyped ==
  /\ DOMAIN Candidates = 1 .. Len(Candidates) /\ Len(Candidates) \in Nat
  /\ IsFiniteSet(DOMAIN Candidates)
  /\ \A i \in DOMAIN Candidates : Candidates[i] \in Validators
  /\ \A v \in Validators : \E i \in DOMAIN Candidates : Candidates[i] = v
<1>1. Candidates \in Seq(Validators)
  BY SelectionAssumption
<1>2. Validators = {Candidates[i] : i \in DOMAIN Candidates}
  BY DEF Validators, Range
<1>3. DOMAIN Candidates = 1 .. Len(Candidates) /\ Len(Candidates) \in Nat
  BY <1>1
<1>4. QED
  BY <1>2, <1>3, FS_Interval

LEMMA ScoredSteps ==
  \E g \in [SUBSET DOMAIN Candidates -> Seq(Validators)] :
    /\ Scored = g[DOMAIN Candidates]
    /\ Folds(g, DOMAIN Candidates, Seq(Validators), <<>>, Scoring, LastPlace)
<1> DEFINE S == DOMAIN Candidates
           V == Seq(Validators)
           step(f) == [s \in SUBSET S |->
                         IF s = {} THEN <<>>
                         ELSE IF Excluded(Candidates[Max(s)]) THEN f[s \ {Max(s)}]
                         ELSE Append(f[s \ {Max(s)}], Candidates[Max(s)])]
           run == CHOOSE f : f = step(f)
<1>1. Scored = run[S]
  BY DEF Scored, FoldLeft, MapThenFoldSet
<1>2. IsFiniteSet(S) /\ S = 1 .. Len(Candidates) /\ Len(Candidates) \in Nat
  BY CandidatesTyped
<1>3. Picks(LastPlace, S)
  BY <1>2, MaxIn DEF Picks, LastPlace
<1>4. Scoring \in [S -> [V -> V]]
  <2>1. \A i \in S, q \in V : Append(q, Candidates[i]) \in V
    BY CandidatesTyped
  <2>2. QED
    BY <2>1 DEF Scoring
<1>5. <<>> \in V
  OBVIOUS
<1> HIDE DEF V
<1>6. PICK g \in [SUBSET S -> V] : Folds(g, S, V, <<>>, Scoring, LastPlace)
  BY <1>2, <1>3, <1>4, <1>5, FoldExists
<1>7. ASSUME NEW s \in SUBSET S, s # {}
      PROVE  /\ Max(s) \in S /\ s \ {Max(s)} \in SUBSET S /\ LastPlace[s] = Max(s)
             /\ \A x \in V : Scoring[Max(s)][x] =
                  IF Excluded(Candidates[Max(s)]) THEN x ELSE Append(x, Candidates[Max(s)])
  <2>1. Max(s) \in S /\ LastPlace[s] = Max(s)
    BY <1>3, <1>7 DEF Picks, LastPlace
  <2>2. QED
    BY <2>1 DEF Scoring, V
<1>8. ASSUME NEW s \in SUBSET S
      PROVE  g[s] = step(g)[s]
  <2>1. CASE s = {}
    BY <1>6, <2>1 DEF Folds
  <2>2. CASE s # {}
    <3>1. g[s] = Scoring[Max(s)][g[s \ {Max(s)}]]
      BY <1>6, <1>7, <2>2, Zenon DEF Folds
    <3>2. g[s \ {Max(s)}] \in V
      BY <1>7, <2>2
    <3>3. QED
      BY <1>7, <2>2, <3>1, <3>2
  <2>3. QED
    BY <2>1, <2>2
<1>9. run = step(run)
  <2>1. g = step(g)
    BY <1>8
  <2>2. QED
    BY <2>1, Zenon
<1> HIDE DEF run
<1>10. Folds(run, S, V, <<>>, Scoring, LastPlace)
  <2>1. \A s \in SUBSET S : run[s] = step(run)[s]
    BY <1>9
  <2>2. ASSUME NEW s \in SUBSET S, s # {}, run[s \ {LastPlace[s]}] \in V
        PROVE  run[s] = Scoring[LastPlace[s]][run[s \ {LastPlace[s]}]]
    <3>1. run[s \ {Max(s)}] \in V /\ LastPlace[s] = Max(s)
      BY <1>7, <2>2
    <3>2. Scoring[Max(s)][run[s \ {Max(s)}]] =
            IF Excluded(Candidates[Max(s)]) THEN run[s \ {Max(s)}]
            ELSE Append(run[s \ {Max(s)}], Candidates[Max(s)])
      BY <1>7, <2>2, <3>1
    <3>3. QED
      BY <2>1, <2>2, <3>1, <3>2
  <2>3. QED
    BY <2>1, <2>2 DEF Folds
<1>11. IsFold(g, S, V, <<>>, Scoring, LastPlace)
  BY <1>2, <1>3, <1>6 DEF IsFold
<1>12. g[S] = run[S]
  BY <1>10, <1>11, FoldUnique
<1>13. QED
  BY <1>1, <1>6, <1>12 DEF V

(* Exactly those that are not excluded are scored.                         *)
LEMMA ScoredIs ==
  Scored \in Seq(Validators) /\ ValidatorsOf(Scored) = {v \in Validators : ~ Excluded(v)}
<1> DEFINE S == DOMAIN Candidates
<1>1. PICK g \in [SUBSET S -> Seq(Validators)] :
        /\ Scored = g[S]
        /\ Folds(g, S, Seq(Validators), <<>>, Scoring, LastPlace)
  BY ScoredSteps
<1>2. IsFiniteSet(S) /\ S = 1 .. Len(Candidates) /\ Len(Candidates) \in Nat
  BY CandidatesTyped
<1> HIDE DEF S
<1> DEFINE Wrong == {s \in SUBSET S : ValidatorsOf(g[s]) # Remaining(s)}
<1>3. Wrong = {}
  <2>1. SUFFICES ASSUME Wrong # {} PROVE FALSE
    OBVIOUS
  <2>2. PICK s \in Wrong : \A y \in s : s \ {y} \notin Wrong
    <3> HIDE DEF Wrong
    <3>1. Wrong \in SUBSET (SUBSET S)
      BY DEF Wrong
    <3>2. QED
      BY <1>2, <2>1, <3>1, SmallestPart
  <2>3. s \in SUBSET S /\ ValidatorsOf(g[s]) # Remaining(s)
    OBVIOUS
  <2>4. CASE s = {}
    <3>1. g[s] = <<>>
      BY <1>1, <2>3, <2>4 DEF Folds
    <3>2. ValidatorsOf(<<>>) = {} /\ Remaining({}) = {}
      BY DEF ValidatorsOf, Remaining
    <3>3. QED
      BY <2>3, <2>4, <3>1, <3>2
  <2>5. CASE s # {}
    <3> DEFINE m == Max(s)
               r == s \ {m}
    <3>1. m \in s /\ LastPlace[s] = m
      BY <1>2, <2>3, <2>5, MaxIn DEF LastPlace, S
    <3> HIDE DEF m
    <3>2. r \in SUBSET S /\ ValidatorsOf(g[r]) = Remaining(r)
      BY <2>2, <2>3, <3>1
    <3>3. g[r] \in Seq(Validators) /\ Candidates[m] \in Validators
      BY <2>3, <3>1, <3>2, CandidatesTyped DEF S
    <3>4. g[s] = Scoring[m][g[r]]
      BY <1>1, <2>3, <2>5, <3>1, <3>3 DEF Folds
    <3>5. Scoring[m][g[r]] =
            IF Excluded(Candidates[m]) THEN g[r] ELSE Append(g[r], Candidates[m])
      BY <2>3, <3>1, <3>3 DEF Scoring, S
    <3>6. Remaining(s) = IF Excluded(Candidates[m]) THEN Remaining(r)
                         ELSE Remaining(r) \cup {Candidates[m]}
      BY <3>1 DEF Remaining
    <3>7. ValidatorsOf(Append(g[r], Candidates[m])) =
            ValidatorsOf(g[r]) \cup {Candidates[m]}
      BY <3>3, AppendAdds
    <3> HIDE DEF r
    <3>8. ValidatorsOf(g[s]) = Remaining(s)
      <4>1. CASE Excluded(Candidates[m])
        BY <3>2, <3>4, <3>5, <3>6, <4>1
      <4>2. CASE ~ Excluded(Candidates[m])
        BY <3>2, <3>4, <3>5, <3>6, <3>7, <4>2
      <4>3. QED
        BY <4>1, <4>2
    <3>9. QED
      BY <2>3, <3>8
  <2>6. QED
    BY <2>4, <2>5
<1>4. ValidatorsOf(g[S]) = Remaining(S)
  BY <1>3
<1>5. Remaining(S) = {v \in Validators : ~ Excluded(v)}
  BY CandidatesTyped DEF Remaining, S
<1>6. QED
  BY <1>1, <1>4, <1>5

(* The highest stake, never below 1, which the shares of stake are of.     *)
LEMMA MaxStakeTyped == MaxStake \in Nat \ {0}
<1> DEFINE D == DOMAIN Candidates
           S == CandidateStakes \cup {1}
           stakes == [i \in D |-> CandidateStake[Candidates[i]]]
<1>1. CandidateStake \in [Validators -> Nat]
  BY SelectionAssumption
<1>2. stakes \in Surjection(D, CandidateStakes)
  <2>1. stakes \in [D -> CandidateStakes]
    BY CandidatesTyped DEF CandidateStakes
  <2>2. \A t \in CandidateStakes : \E i \in D : stakes[i] = t
    BY CandidatesTyped DEF CandidateStakes
  <2>3. QED
    BY <2>1, <2>2 DEF Surjection
<1>3. IsFiniteSet(CandidateStakes)
  <2> HIDE DEF stakes
  <2>1. IsFiniteSet(D)
    BY CandidatesTyped
  <2>2. QED
    BY <1>2, <2>1, FS_Surjection
<1>4. IsFiniteSet(S)
  BY <1>3, FS_AddElement
<1>5. S \in SUBSET Nat /\ S # {} /\ 1 \in S
  BY <1>1 DEF CandidateStakes
<1> HIDE DEF S
<1>6. \E m \in S : \A x \in S : x <= m
  <2>1. S \in SUBSET Int
    BY <1>5
  <2>2. QED
    BY <1>4, <1>5, <2>1, FiniteHasLast
<1>7. \E m \in S : \A x \in S : m >= x
  BY <1>5, <1>6
<1>8. Max(S) \in S /\ \A x \in S : Max(S) >= x
  BY <1>7 DEF Max
<1>9. MaxStake \in S /\ MaxStake >= 1
  BY <1>5, <1>8 DEF MaxStake, S
<1>10. MaxStake \in Nat
  BY <1>5, <1>9
<1>11. QED
  BY <1>9, <1>10

(* A weight is a number, and whoever has left the grace period has one     *)
(* above 0, without a stake too.                                           *)
LEMMA WeightTyped ==
  ASSUME SelectorTypeOK, NEW v \in Validators
  PROVE  /\ Weight(v) \in Nat
         /\ ~ InGrace(v) => Weight(v) > 0 /\ Reputation(v) >= MinReputation
<1>1. StakeScore(v) \in Nat
  <2>1. CandidateStake[v] * 1000 \in Nat
    BY SelectionAssumption
  <2>2. QED
    BY <2>1, MaxStakeTyped, RoundNat DEF StakeScore
<1>2. CASE InGrace(v)
  BY <1>1, <1>2 DEF Weight
<1>3. CASE ~ InGrace(v)
  <2>1. records[v] \in Record /\ height \in Nat
    BY <1>3 DEF InGrace, SelectorTypeOK
  <2>2. Reputation(v) \in 500 - MaxPenalty .. 1000
    BY <2>1, ScoreBounds DEF Reputation
  <2>3. /\ MaxPenalty \in Int /\ MaxPenalty <= 300
        /\ MinReputation \in Int /\ MinReputation <= 500 - MaxPenalty
    BY SelectionAssumption
  <2>4. Reputation(v) \in Int /\ Reputation(v) >= 200 /\ Reputation(v) >= MinReputation
    BY <2>2, <2>3
  <2> DEFINE half == Round(StakeScore(v) + Reputation(v), 2)
  <2>5. half \in Nat /\ half > 0
    BY <1>1, <2>4 DEF Round
  <2>6. Weight(v) = Clamp(half)
    BY <1>3 DEF Weight
  <2> HIDE DEF half
  <2>7. Clamp(half) \in Nat /\ Clamp(half) > 0
    BY <2>5 DEF Clamp, Least
  <2>8. QED
    BY <1>3, <2>4, <2>6, <2>7
<1>4. QED
  BY <1>2, <1>3

(* The ends of the shares, each its validator's weight behind the last.    *)
LEMMA EndsAddUp ==
  ASSUME NEW q \in Seq(Validators), \A v \in Validators : Weight(v) \in Nat
  PROVE  /\ Ends(q) \in [0 .. Len(q) -> Nat] /\ Ends(q)[0] = 0
         /\ \A k \in 1 .. Len(q) : Ends(q)[k] = Ends(q)[k - 1] + Weight(q[k])
<1> DEFINE n == Len(q)
           S == 1 .. n
           w == [k \in S |-> Weight(q[k])]
           pick == [s \in SUBSET S |-> CHOOSE x \in s : TRUE]
           step(f) == [i \in 0 .. n |-> IF i = 0 THEN 0 ELSE f[i - 1] + Weight(q[i])]
           end == CHOOSE f : f = step(f)
<1>1. Ends(q) = end
  BY DEF Ends
<1>2. n \in Nat /\ IsFiniteSet(S)
  BY FS_Interval
<1>3. \A k \in S : q[k] \in Validators /\ Weight(q[k]) \in Nat
  OBVIOUS
<1> HIDE DEF n
<1>4. w \in [S -> Nat] /\ Picks(pick, S)
  BY <1>3 DEF Picks
<1> HIDE DEF w, pick
<1>5. PICK g : Sums(g, S, w)
  <2>1. PICK g : SumsUp(g, S, w, pick)
    BY <1>2, <1>4, SumExists
  <2>2. QED
    BY <1>2, <1>4, <2>1, SumOrderFree
<1> DEFINE laid == [i \in 0 .. n |-> g[1 .. i]]
<1>6. \A i \in 0 .. n : g[1 .. i] \in Nat
  BY <1>2, <1>5 DEF Sums
<1>7. ASSUME NEW i \in 1 .. n
      PROVE  g[1 .. i] = g[1 .. i - 1] + Weight(q[i])
  <2>1. 1 .. i \in SUBSET S /\ i \in 1 .. i /\ (1 .. i) \ {i} = 1 .. i - 1
    BY <1>2
  <2>2. g[1 .. i] = w[i] + g[(1 .. i) \ {i}]
    BY <1>5, <2>1 DEF Sums
  <2>3. w[i] = Weight(q[i]) /\ w[i] \in Nat
    BY <1>3 DEF w
  <2>4. g[1 .. i - 1] \in Nat
    <3>1. i - 1 \in 0 .. n
      BY <1>2
    <3>2. QED
      BY <1>6, <3>1
  <2>5. g[(1 .. i) \ {i}] = g[1 .. i - 1]
    BY <2>1
  <2>6. \A a, b \in Nat : a + b = b + a
    OBVIOUS
  <2>7. QED
    BY <2>2, <2>3, <2>4, <2>5, <2>6
<1>8. g[1 .. 0] = 0
  <2>1. 1 .. 0 = {}
    OBVIOUS
  <2>2. QED
    BY <1>5, <2>1 DEF Sums
<1>9. laid = step(laid)
  <2>1. ASSUME NEW i \in 0 .. n PROVE laid[i] = step(laid)[i]
    <3>1. CASE i = 0
      BY <1>8, <3>1
    <3>2. CASE i # 0
      <4>1. i \in 1 .. n /\ i - 1 \in 0 .. n
        BY <1>2, <3>2
      <4>2. QED
        BY <1>7, <3>2, <4>1
    <3>3. QED
      BY <3>1, <3>2
  <2>2. QED
    BY <2>1
<1>10. end = step(end)
  BY <1>9
<1> HIDE DEF end
<1>11. \A i \in 0 .. n : end[i] = IF i = 0 THEN 0 ELSE end[i - 1] + Weight(q[i])
  BY <1>10
<1>12. \A i \in 0 .. n : end[i] \in Nat
  <2> DEFINE Wrong == {i \in 0 .. n : end[i] \notin Nat}
  <2>1. SUFFICES ASSUME Wrong # {} PROVE FALSE
    OBVIOUS
  <2>2. PICK i \in Wrong : \A j \in Wrong : i <= j
    <3>1. Wrong \subseteq Nat
      BY <1>2
    <3>2. QED
      BY <2>1, <3>1, LeastOfNaturals
  <2>3. i # 0
    BY <1>11, <2>2
  <2>4. i \in 1 .. n /\ i - 1 \in 0 .. n /\ i - 1 \notin Wrong
    BY <1>2, <2>2, <2>3
  <2>5. end[i] = end[i - 1] + Weight(q[i]) /\ end[i - 1] \in Nat /\ Weight(q[i]) \in Nat
    BY <1>3, <1>11, <2>3, <2>4
  <2>6. QED
    BY <2>2, <2>5
<1>13. DOMAIN end = 0 .. n /\ end \in [0 .. n -> Nat]
  <2>1. end = [i \in 0 .. n |-> end[i]]
    BY <1>10
  <2>2. QED
    BY <1>12, <2>1
<1>14. end[0] = 0 /\ \A k \in 1 .. n : end[k] = end[k - 1] + Weight(q[k])
  BY <1>2, <1>11
<1>15. QED
  BY <1>1, <1>13, <1>14 DEF n

LEMMA EndsGrow ==
  ASSUME NEW q \in Seq(Validators), \A v \in Validators : Weight(v) \in Nat,
         NEW i \in 0 .. Len(q), NEW j \in 0 .. Len(q), i <= j
  PROVE  Ends(q)[i] <= Ends(q)[j]
<1> DEFINE end == Ends(q)
           n == Len(q)
           Wrong == {k \in 0 .. n : i <= k /\ ~ end[i] <= end[k]}
<1>1. n \in Nat /\ \A k \in 1 .. n : Weight(q[k]) \in Nat
  OBVIOUS
<1>2. end \in [0 .. n -> Nat] /\ \A k \in 1 .. n : end[k] = end[k - 1] + Weight(q[k])
  BY EndsAddUp
<1> HIDE DEF end, n
<1>3. i \in 0 .. n /\ j \in 0 .. n
  BY DEF n
<1>4. Wrong = {}
  <2>1. SUFFICES ASSUME Wrong # {} PROVE FALSE
    OBVIOUS
  <2>2. PICK k \in Wrong : \A m \in Wrong : k <= m
    <3>1. Wrong \subseteq Nat
      BY <1>1
    <3>2. QED
      BY <2>1, <3>1, LeastOfNaturals
  <2>3. k \in 0 .. n /\ i <= k /\ ~ end[i] <= end[k] /\ end[i] \in Nat /\ end[k] \in Nat
    BY <1>2, <1>3, <2>2
  <2>4. k # i
    BY <2>3
  <2>5. k \in 1 .. n /\ k - 1 \in 0 .. n /\ i <= k - 1
    BY <1>1, <1>3, <2>3, <2>4
  <2>6. k - 1 \notin Wrong
    BY <2>2, <2>5
  <2>7. end[i] <= end[k - 1] /\ end[k - 1] \in Nat
    BY <1>2, <2>5, <2>6
  <2>8. end[k] = end[k - 1] + Weight(q[k]) /\ Weight(q[k]) \in Nat
    BY <1>1, <1>2, <2>5
  <2>9. QED
    BY <2>3, <2>7, <2>8
<1>5. QED
  BY <1>3, <1>4 DEF end

(* The walk stops at the candidate whose share holds the target.           *)
LEMMA WalkHitsShare ==
  ASSUME NEW q \in Seq(Validators), \A v \in Validators : Weight(v) \in Nat,
         NEW k \in DOMAIN q, NEW t \in Nat, Ends(q)[k - 1] <= t, t < Ends(q)[k]
  PROVE  Walk(q, Ends(q), t) = q[k]
<1> DEFINE end == Ends(q)
           n == Len(q)
           hits == {i \in DOMAIN q : Hits(end[i], t)}
<1>1. n \in Nat /\ DOMAIN q = 1 .. n /\ k \in 1 .. n /\ k - 1 \in 0 .. n
  OBVIOUS
<1>2. end \in [0 .. n -> Nat]
  BY EndsAddUp
<1>3. k \in hits
  BY DEF Hits
<1>4. ASSUME NEW i \in hits PROVE k <= i
  <2>1. i \in 1 .. n /\ t < end[i]
    BY <1>1 DEF Hits
  <2>2. CASE i < k
    <3>1. i \in 0 .. n /\ k - 1 \in 0 .. n /\ i <= k - 1
      BY <1>1, <2>1, <2>2
    <3>2. end[i] <= end[k - 1]
      BY <3>1, EndsGrow
    <3>3. end[i] \in Nat /\ end[k - 1] \in Nat
      BY <1>2, <3>1
    <3>4. QED
      BY <2>1, <3>2, <3>3
  <2>3. QED
    BY <1>1, <2>1, <2>2
<1>5. hits \subseteq Nat
  BY <1>1
<1> HIDE DEF hits
<1>6. \A i \in hits : (\A j \in hits : i <= j) <=> i = k
  BY <1>1, <1>3, <1>4, <1>5
<1>7. (CHOOSE i \in hits : \A j \in hits : i <= j) = k
  BY <1>3, <1>6
<1>8. hits # {}
  BY <1>3
<1>9. QED
  BY <1>7, <1>8 DEF Walk, hits

(* A seed in the share of a scored candidate selects it.                   *)
LEMMA SeedSelects ==
  ASSUME SelectorTypeOK, NEW k \in DOMAIN Scored
  PROVE  /\ Select(Ends(Scored)[k - 1]) = Scored[k]
         /\ Select(Ends(Scored)[k] - 1) = Scored[k]
<1> DEFINE q == Scored
           end == Ends(q)
           n == Len(q)
<1>1. q \in Seq(Validators) /\ ~ Excluded(q[k])
  BY ScoredIs DEF ValidatorsOf
<1>2. \A v \in Validators : Weight(v) \in Nat
  BY WeightTyped
<1> HIDE DEF q
<1>3. /\ n \in Nat /\ k \in 1 .. n /\ k - 1 \in 0 .. n /\ k \in 0 .. n /\ n \in 0 .. n
      /\ k <= n /\ q # <<>> /\ q[k] \in Validators
  BY <1>1 DEF q
<1>4. Weight(q[k]) \in Nat /\ Weight(q[k]) > 0
  BY <1>1, <1>2, <1>3 DEF Excluded
<1>5. end \in [0 .. n -> Nat] /\ end[k] = end[k - 1] + Weight(q[k])
  BY <1>1, <1>2, <1>3, EndsAddUp
<1>6. end[k] <= end[n]
  BY <1>1, <1>2, <1>3, EndsGrow
<1>7. end[k - 1] \in Nat /\ end[k] \in Nat /\ end[n] \in Nat
  BY <1>3, <1>5
<1> HIDE DEF end
<1>8. ASSUME NEW t \in Nat, end[k - 1] <= t, t < end[k]
      PROVE  Select(t) = q[k]
  <2>1. t % end[n] = t
    BY <1>6, <1>7, <1>8
  <2>2. Walk(q, end, t) = q[k]
    BY <1>1, <1>2, <1>3, <1>8, WalkHitsShare DEF end
  <2>3. Select(t) = Walk(q, end, t % end[n])
    BY <1>3 DEF Select, q, end, n
  <2>4. QED
    BY <2>1, <2>2, <2>3
<1>9. /\ end[k] - 1 \in Nat /\ end[k - 1] <= end[k] - 1 /\ end[k] - 1 < end[k]
      /\ end[k - 1] <= end[k - 1] /\ end[k - 1] < end[k]
  BY <1>4, <1>5, <1>7
<1>10. Select(end[k - 1]) = q[k] /\ Select(end[k] - 1) = q[k]
  BY <1>7, <1>8, <1>9
<1>11. QED
  BY <1>10 DEF end, q

(* Whatever is on record, the walk over the scored candidates gives each   *)
(* its share of the seeds and never runs out (ShareByWeight).              *)
THEOREM SharesFollowWeight == SelectorSpec => []ShareByWeight
<1>1. SelectorTypeOK => ShareByWeight
  BY SeedSelects DEF ShareByWeight
<1>2. QED
  BY <1>1, SelectorTypeCorrect, PTL

(* Whoever has left the grace period proposes for some seed, the worst     *)
(* record and no stake at all notwithstanding (NobodyExcluded).            *)
THEOREM EverybodyHasAShare == SelectorSpec => []NobodyExcluded
<1>1. ASSUME SelectorTypeOK, NEW v \in Validators, ~ InGrace(v)
      PROVE  \E k \in DOMAIN Scored :
               Scored[k] = v /\ Select(Ends(Scored)[k - 1]) = v
  <2>1. /\ Weight(v) \in Nat /\ Weight(v) > 0
        /\ Reputation(v) \in Int /\ Reputation(v) >= MinReputation
    <3>1. records[v] \in Record /\ height \in Nat
      BY <1>1 DEF InGrace, SelectorTypeOK
    <3>2. Reputation(v) \in Int
      BY <3>1, ScoreBounds, SelectionAssumption DEF Reputation
    <3>3. QED
      BY <1>1, <3>2, WeightTyped
  <2>2. ~ Excluded(v)
    BY <2>1, SelectionAssumption DEF Excluded
  <2>3. PICK k \in DOMAIN Scored : Scored[k] = v
    BY <2>2, ScoredIs DEF ValidatorsOf
  <2>4. QED
    BY <1>1, <2>3, SeedSelects
<1>2. SelectorTypeOK => NobodyExcluded
  BY <1>1 DEF NobodyExcluded
<1>3. QED
  BY <1>2, SelectorTypeCorrect, PTL

-----------------------------------------------------------------------------
(* A missed block.                                                         *)

LEMMA QuotientBounds ==
  ASSUME NEW a \in Nat, NEW b \in Nat \ {0}
  PROVE  /\ a \div b \in Nat /\ (a \div b) * b <= a
         /\ a < ((a \div b) + 1) * b
OBVIOUS

(* A fraction of a larger whole is not rounded to more.                    *)
LEMMA RoundFalls ==
  ASSUME NEW n \in Nat, NEW d \in Nat \ {0}
  PROVE  Round(n, d + 1) <= Round(n, d)
<1> DEFINE p == Round(n, d + 1)
           r == Round(n, d)
<1>1. /\ 2 * n + (d + 1) \in Nat /\ 2 * (d + 1) \in Nat \ {0}
      /\ 2 * n + d \in Nat /\ 2 * d \in Nat \ {0}
  OBVIOUS
<1>2. p \in Nat /\ p * (2 * (d + 1)) <= 2 * n + (d + 1)
  BY <1>1, QuotientBounds DEF Round
<1>3. r \in Nat /\ 2 * n + d < (r + 1) * (2 * d)
  BY <1>1, QuotientBounds DEF Round
<1> HIDE DEF p, r
<1>4. SUFFICES ASSUME p > r PROVE FALSE
  BY <1>2, <1>3 DEF p, r
<1>5. \A x, y \in Nat, z \in Nat : x <= y => x * z <= y * z
  OBVIOUS
<1>6. (r + 1) * (2 * d) <= p * (2 * d)
  BY <1>2, <1>3, <1>4, <1>5
<1>7. p * (2 * (d + 1)) = p * (2 * d) + 2 * p
  BY <1>2
<1>8. \A x \in Nat : /\ 2 * n + d < x
                     /\ x + 2 * p <= 2 * n + (d + 1)
                     /\ p >= 1
                     => FALSE
  BY <1>2
<1>9. p * (2 * d) \in Nat /\ (r + 1) * (2 * d) \in Nat
  BY <1>2, <1>3
<1>10. 2 * n + d < p * (2 * d)
  BY <1>3, <1>6, <1>9
<1>11. QED
  BY <1>2, <1>3, <1>4, <1>7, <1>8, <1>9, <1>10

LEMMA SuccessFalls ==
  ASSUME NEW r \in Record, NEW m \in Record,
         m.proposed = r.proposed, m.missed = r.missed + 1
  PROVE  Success(m) \in Nat /\ Success(r) \in Nat /\ Success(m) <= Success(r)
<1> DEFINE n == 200 * r.proposed
           d == r.proposed + r.missed
<1>1. /\ r.proposed \in Nat /\ r.missed \in Nat /\ n \in Nat /\ d \in Nat
      /\ m.proposed + m.missed = d + 1 /\ 200 * m.proposed = n
  BY DEF Record
<1>2. Success(m) = Round(n, d + 1)
  BY <1>1 DEF Success
<1>3. CASE d = 0
  <2>1. Success(r) = 0 /\ n = 0
    BY <1>1, <1>3 DEF Success
  <2>2. Round(0, 1) = 0
    BY DEF Round
  <2>3. QED
    BY <1>2, <1>3, <2>1, <2>2
<1>4. CASE d # 0
  <2>1. Success(r) = Round(n, d)
    BY <1>4 DEF Success
  <2> HIDE DEF n, d
  <2>2. QED
    BY <1>1, <1>2, <1>4, <2>1, RoundFalls, RoundNat
<1>5. QED
  BY <1>3, <1>4

(* A validator seen lately gains nothing from missing a block              *)
(* (MissNeverHelps): its success falls, its recency was full already.      *)
THEOREM MissesNeverPay == SelectorSpec => MissNeverHelps
<1>1. ASSUME SelectorTypeOK, NEW v \in DOMAIN records, RecordMissed(v),
             height + 1 - records[v].seen <= Recent
      PROVE  Score(records'[v], height + 1) <= Score(records[v], height + 1)
  <2> DEFINE r == records[v]
             m == records'[v]
             h == height + 1
  <2>1. r \in Record /\ r.seen <= height /\ height \in Nat
    BY <1>1 DEF SelectorTypeOK
  <2>2. m = [[r EXCEPT !.missed = r.missed + 1] EXCEPT !.seen = height]
    BY <1>1 DEF RecordMissed, Update, Entry
  <2> HIDE DEF r, m
  <2>3. /\ r.proposed \in Nat /\ r.missed \in Nat /\ r.invalid \in Nat
        /\ r.response \in Nat /\ r.seen \in Nat /\ r.joined \in Nat
    BY <2>1 DEF Record
  <2>4. /\ m.proposed = r.proposed /\ m.missed = r.missed + 1
        /\ m.invalid = r.invalid /\ m.response = r.response
        /\ m.joined = r.joined /\ m.seen = height
    BY <2>1, <2>2 DEF Record
  <2>5. m \in Record
    <3>1. PICK k \in Nat : k = r.missed + 1
      BY <2>3
    <3>2. [r EXCEPT !.missed = k] \in Record
      BY <2>1, <3>1 DEF Record
    <3>3. QED
      BY <2>1, <2>2, <3>1, <3>2 DEF Record
  <2>6. Success(m) \in Nat /\ Success(r) \in Nat /\ Success(m) <= Success(r)
    BY <2>1, <2>4, <2>5, SuccessFalls
  <2>7. /\ Penalty(m) = Penalty(r) /\ Experience(m, h) = Experience(r, h)
        /\ Promptness(m) = Promptness(r)
    BY <2>4 DEF Penalty, Experience, Promptness
  <2>8. Recency(m, h) = 100 /\ Recency(r, h) = 100
    <3>1. h \in Nat /\ height < h /\ r.seen < h /\ h - r.seen <= Recent /\ h - height = 1
      BY <1>1, <2>1, <2>3 DEF r
    <3>2. 1 <= Recent /\ Recent \in Nat
      BY <2>1, <2>3, <3>1, SelectionAssumption
    <3>3. QED
      BY <2>1, <2>3, <2>4, <3>1, <3>2 DEF Recency
  <2>9. /\ Penalty(r) \in Int /\ Experience(r, h) \in Int /\ Promptness(r) \in Int
    <3>1. r.invalid * InvalidPoints \in Int /\ MaxPenalty \in Int
      BY <2>3, SelectionAssumption
    <3>2. QED
      BY <3>1 DEF Penalty, Least, Experience, Promptness
  <2> DEFINE sum(s) == 500 + 2 * s - Penalty(r) + Experience(r, h) + Promptness(r) + 100
  <2>10. Score(r, h) = Clamp(sum(Success(r))) /\ Score(m, h) = Clamp(sum(Success(m)))
    BY <2>7, <2>8 DEF Score
  <2>11. /\ sum(Success(r)) \in Int /\ sum(Success(m)) \in Int
         /\ sum(Success(m)) <= sum(Success(r))
    <3>1. \A x, y \in Nat, b, c, d \in Int :
            x <= y => /\ 500 + 2 * x - b + c + d + 100 \in Int
                      /\ 500 + 2 * y - b + c + d + 100 \in Int
                      /\ 500 + 2 * x - b + c + d + 100 <= 500 + 2 * y - b + c + d + 100
      OBVIOUS
    <3>2. PICK x, y \in Nat, b, c, d \in Int :
            /\ x = Success(m) /\ y = Success(r) /\ x <= y
            /\ b = Penalty(r) /\ c = Experience(r, h) /\ d = Promptness(r)
      BY <2>6, <2>9
    <3>3. /\ sum(Success(m)) = 500 + 2 * x - b + c + d + 100
          /\ sum(Success(r)) = 500 + 2 * y - b + c + d + 100
      BY <3>2
    <3> HIDE DEF sum
    <3>4. QED
      BY <3>1, <3>2, <3>3
  <2>12. \A x, y \in Int : x <= y => Clamp(x) <= Clamp(y)
    BY DEF Clamp, Least
  <2> HIDE DEF sum
  <2>13. QED
    BY <2>10, <2>11, <2>12 DEF r, m
<1>2. SelectorTypeOK =>
        \A v \in DOMAIN records :
          RecordMissed(v) /\ height + 1 - records[v].seen <= Recent
            => Score(records'[v], height + 1) <= Score(records[v], height + 1)
  BY <1>1
<1>3. QED
  BY <1>2, SelectorTypeCorrect, PTL DEF MissNeverHelps

=============================================================================
