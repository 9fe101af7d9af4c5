---------------------------- MODULE ValidatorSet ----------------------------
(***************************************************************************)
(* The validators, their stakes and delegations, and the choice of the     *)
(* proposer of a slot: consensus/src/validator_set.rs, and its caller in   *)
(* produce_block (node/src/main.rs).                                       *)
(*                                                                         *)
(* Addresses are numbers, since the BTreeMap is walked in their order.     *)
(* The list of delegations is only ever appended to and summed, so it is   *)
(* kept as the sum delegated to each address.  Every sum is below the      *)
(* supply of 10^27, so none overflows a u128.                              *)
(***************************************************************************)
EXTENDS Integers, FiniteSets, FiniteSetsExt

CONSTANTS
  Addresses,      \* account addresses, as numbers
  NoOne,          \* no proposer
  MinStake,       \* MIN_STAKE, 10^22
  MaxValidators,  \* MAX_VALIDATORS
  SeedRange,      \* the values of the 8 bytes taken of the hash, 2^64
  Stakes,         \* the stakes that are registered
  Amounts,        \* the amounts that are delegated and slashed
  MaxDelegated    \* bound: the sum delegated to one validator

ASSUME ValidatorSetAssumption ==
  /\ Addresses \subseteq Nat
  /\ NoOne \notin Addresses
  /\ MinStake \in Nat /\ MaxValidators \in Nat
  /\ SeedRange \in Nat /\ SeedRange <= MinStake
  /\ Stakes \subseteq Nat /\ Amounts \subseteq Nat /\ MaxDelegated \in Nat

VARIABLES
  validators,   \* address -> its ValidatorInfo, for those registered
  delegations,  \* address -> the sum of the delegations to it
  proposer,     \* what select_proposer answered for the last slot
  reply         \* what the last register or delegate returned

vars == <<validators, delegations, proposer, reply>>

ValidatorInfo == [stake : Nat, delegated : Nat, active : BOOLEAN]

Registered == DOMAIN validators

TypeOK ==
  /\ Registered \subseteq Addresses /\ IsFiniteSet(Registered)
  /\ validators \in [Registered -> ValidatorInfo]
  /\ delegations \in [Addresses -> Nat]
  /\ proposer \in Addresses \cup {NoOne}
  /\ reply \in {"none", "ok", "below minimum", "full", "not found", "inactive"}

Init ==
  /\ validators = [a \in {} |-> 0]
  /\ delegations = [a \in Addresses |-> 0]
  /\ proposer = NoOne
  /\ reply = "none"

-----------------------------------------------------------------------------
(* register, delegate, slash                                               *)

Enough(a, stake) == stake >= MinStake

Full(a) == Cardinality(Registered) >= MaxValidators /\ a \notin Registered

(* Mutant: a validator that registers again loses its delegations.         *)
Afresh(a, stake) == [stake |-> stake, delegated |-> 0, active |-> TRUE]

Info(a, stake) == [stake |-> stake, delegated |-> delegations[a], active |-> TRUE]

RefuseRegister(a, stake) ==
  /\ \/ ~ Enough(a, stake) /\ reply' = "below minimum"
     \/ Enough(a, stake) /\ Full(a) /\ reply' = "full"
  /\ UNCHANGED <<validators, delegations, proposer>>

Register(a, stake) ==
  /\ Enough(a, stake)
  /\ ~ Full(a)
  /\ validators' = [v \in Registered \cup {a} |->
                      IF v = a THEN Info(a, stake) ELSE validators[v]]
  /\ reply' = "ok"
  /\ UNCHANGED <<delegations, proposer>>

RefuseDelegate(a, amount) ==
  /\ amount > 0
  /\ \/ a \notin Registered /\ reply' = "not found"
     \/ a \in Registered /\ ~ validators[a].active /\ reply' = "inactive"
  /\ UNCHANGED <<validators, delegations, proposer>>

DelegateNothing(amount) ==
  /\ amount = 0
  /\ reply' = "ok"
  /\ UNCHANGED <<validators, delegations, proposer>>

Delegate(a, amount) ==
  /\ amount > 0
  /\ a \in Registered
  /\ validators[a].active
  /\ delegations[a] + amount <= MaxDelegated
  /\ validators' = [validators EXCEPT ![a].delegated = @ + amount]
  /\ delegations' = [delegations EXCEPT ![a] = @ + amount]
  /\ reply' = "ok"
  /\ UNCHANGED proposer

(* Mutant: the penalty exceeds the stake.                                  *)
Whole(stake, amount) == stake - amount

Slashed(stake, amount) == IF amount > stake THEN 0 ELSE stake - amount

Slash(a, amount, deactivate) ==
  /\ a \in Registered
  /\ validators' = [validators EXCEPT
       ![a].stake = Slashed(@, amount),
       ![a].active = @ /\ ~ deactivate]
  /\ UNCHANGED <<delegations, proposer, reply>>

-----------------------------------------------------------------------------
(* select_proposer                                                         *)

TotalStake(a) == validators[a].stake + validators[a].delegated

(* Mutant: the stake that a slash has left is not compared.                *)
ActiveFlag == {a \in Registered : validators[a].active}

Active == {a \in Registered : validators[a].active /\ TotalStake(a) >= MinStake}

StakeOf(S) == MapThenSumSet(TotalStake, S)

Upto(a) == StakeOf({b \in Active : b <= a})

(* Mutant: the walk stops one index late.                                  *)
ReachesLate(a, idx) == idx <= Upto(a)

(* The walk subtracts stake after stake from idx: it stops at the first    *)
(* validator whose stake, with those before it, exceeds idx.               *)
Reaches(a, idx) == idx < Upto(a)

ProposerAt(idx) ==
  CHOOSE a \in Active :
    Reaches(a, idx) /\ \A b \in Active : Reaches(b, idx) => a <= b

(* seed % total_stake for any 8 bytes of a hash: any number below both.    *)
Indices == {idx \in 0 .. SeedRange - 1 : idx < StakeOf(Active)}

SelectProposer(idx) ==
  /\ Active # {}
  /\ proposer' = ProposerAt(idx)
  /\ UNCHANGED <<validators, delegations, reply>>

NoValidators ==
  /\ Active = {}
  /\ proposer' = NoOne
  /\ UNCHANGED <<validators, delegations, reply>>

Next ==
  \/ \E a \in Addresses, stake \in Stakes :
       RefuseRegister(a, stake) \/ Register(a, stake)
  \/ \E a \in Addresses, amount \in Amounts :
       \/ RefuseDelegate(a, amount) \/ Delegate(a, amount)
       \/ \E deactivate \in BOOLEAN : Slash(a, amount, deactivate)
  \/ \E amount \in Amounts : DelegateNothing(amount)
  \/ \E idx \in Indices : SelectProposer(idx)
  \/ NoValidators

Spec == Init /\ [][Next]_vars

-----------------------------------------------------------------------------
(* Properties.                                                             *)

(* The total a validator carries is what was delegated to it, although a   *)
(* registration overwrites the entry and a slash leaves it alone; nothing  *)
(* is delegated to an address that is not registered.                      *)
DelegationsKept ==
  /\ \A a \in Registered : validators[a].delegated = delegations[a]
  /\ \A a \in Addresses \ Registered : delegations[a] = 0

(* There are never more than MAX_VALIDATORS, registrations of members that *)
(* were slashed included.                                                  *)
RosterBounded == Cardinality(Registered) <= MaxValidators

(* A validator that was deactivated is active again only with a full stake *)
(* of its own, whatever is delegated to it.                                *)
ReturnsStaked ==
  [][\A a \in Registered \cap Registered' :
       ~ validators[a].active /\ validators'[a].active
         => validators'[a].stake >= MinStake]_vars

(* The walk of select_proposer divides the indices below the total stake   *)
(* by stake: as many lead to a validator as it has.                        *)
WalkDividesByStake ==
  \A a \in Active :
    Cardinality({idx \in 0 .. StakeOf(Active) - 1 : ProposerAt(idx) = a})
      = TotalStake(a)

(* But the index is a remainder of 64 bits, and MIN_STAKE alone is more:   *)
(* the proposer is always the active validator of the lowest address.      *)
LowestProposes ==
  [][proposer' \notin {proposer, NoOne} =>
       proposer' \in Active /\ \A a \in Active : proposer' <= a]_vars
=============================================================================
