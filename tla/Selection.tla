----------------------------- MODULE Selection -----------------------------
(***************************************************************************)
(* The reputation of validators and the choice by reputation and stake:    *)
(* quyn-intelligence/src/reputation_db.rs, validator_scorer.rs and         *)
(* validator_selection.rs.  Whoever produces, misses or spoils a block is  *)
(* recorded with the block's number; a proposer is chosen by the hash of a *)
(* block.  The node still proposes by ValidatorSet.                        *)
(*                                                                         *)
(* Fractions are kept as fractions and rounded where the code rounds.  The *)
(* code takes them in 64-bit floats, and may come out one lower where the  *)
(* fraction is exactly a half.                                             *)
(***************************************************************************)
EXTENDS Integers, FiniteSets, Sequences, SequencesExt

CONSTANTS
  Candidates,      \* the candidates, in the order they are handed over
  CandidateStake,  \* candidate -> its stake
  ResponseTimes,   \* the response times reported, in milliseconds
  InvalidPoints,   \* 50 points lost for an invalid block ...
  MaxPenalty,      \* ... and at most 300
  MinReputation,   \* min_reputation_score, 100
  GracePeriod,     \* grace_period_blocks, 100
  SomeExperience, MuchExperience,  \* 1000 and 10000 blocks
  Recent, NotLongAgo,              \* 10 and 100 blocks
  MaxHeight,       \* bound: the last block number
  MaxRecords       \* bound: the blocks recorded, of all validators together

Validators == Range(Candidates)

ASSUME SelectionAssumption ==
  /\ Candidates \in Seq(Validators) /\ Candidates # <<>>
  /\ IsInjective(Candidates)
  /\ CandidateStake \in [Validators -> Nat]
  /\ ResponseTimes \subseteq Nat
  /\ InvalidPoints \in Nat /\ MaxPenalty \in 0 .. 300
  \* Even the worst record keeps a validator above the minimum.
  /\ MinReputation \in Nat /\ MinReputation <= 500 - MaxPenalty
  /\ GracePeriod \in Nat
  /\ SomeExperience \in Nat /\ MuchExperience \in Nat
  /\ Recent \in Nat /\ NotLongAgo \in Nat
  /\ MaxHeight \in Nat /\ MaxRecords \in Nat

VARIABLES
  records,   \* validator -> its record, once it has one
  height     \* the block number the caller has reached

selector == <<records, height>>

Record == [proposed : Nat, missed : Nat, invalid : Nat, response : Nat,
           seen : Nat, joined : Nat]

(* Records are kept for candidates, and no block is recorded ahead of time.*)
SelectorTypeOK ==
  /\ height \in Nat
  /\ DOMAIN records \subseteq Validators
  /\ \A v \in DOMAIN records :
       /\ records[v] \in Record
       /\ records[v].joined <= records[v].seen /\ records[v].seen <= height

SelectorInit ==
  /\ records = [v \in {} |-> 0]
  /\ height = 0

-----------------------------------------------------------------------------
(* ReputationDatabase                                                      *)

(* entry_mut: a first record joins at the block it is made for.            *)
Entry(v) ==
  IF v \in DOMAIN records THEN records[v]
  ELSE [proposed |-> 0, missed |-> 0, invalid |-> 0, response |-> 0,
        seen |-> 0, joined |-> height]

Update(v, r) ==
  /\ records' = [u \in DOMAIN records \cup {v} |->
                   IF u = v THEN [r EXCEPT !.seen = height] ELSE records[u]]
  /\ UNCHANGED height

Average(old, rt) == IF old = 0 THEN rt ELSE (old * 3 + rt) \div 4

RecordProduced(v, rt) ==
  Update(v, [Entry(v) EXCEPT !.proposed = @ + 1, !.response = Average(@, rt)])

(* Mutant: a missed block is counted as produced.                          *)
MissedAsProduced(v) == Update(v, [Entry(v) EXCEPT !.proposed = @ + 1])

RecordMissed(v) == Update(v, [Entry(v) EXCEPT !.missed = @ + 1])

RecordInvalid(v) == Update(v, [Entry(v) EXCEPT !.invalid = @ + 1])

(* The caller goes on to the next block.                                   *)
Advance ==
  /\ height < MaxHeight
  /\ height' = height + 1
  /\ UNCHANGED records

(* Bounded: see MaxRecords.                                                *)
Recorded ==
  MapThenSumSet(LAMBDA v : records[v].proposed + records[v].missed + records[v].invalid,
                DOMAIN records)

SelectorNext ==
  \/ Advance
  \/ \E v \in Validators :
       /\ Recorded < MaxRecords
       /\ \/ \E rt \in ResponseTimes : RecordProduced(v, rt)
          \/ RecordMissed(v)
          \/ RecordInvalid(v)

SelectorSpec == SelectorInit /\ [][SelectorNext]_selector

-----------------------------------------------------------------------------
(* ValidatorScorer::calculate_score.                                       *)

Least(n, m) == IF n < m THEN n ELSE m

Clamp(n) == IF n < 0 THEN 0 ELSE Least(n, 1000)

(* f64::round of n / d.                                                    *)
Round(n, d) == (2 * n + d) \div (2 * d)

(* Uptime and success are the same fraction, each worth 200 points.        *)
Success(r) ==
  LET total == r.proposed + r.missed
  IN  IF total = 0 THEN 0 ELSE Round(200 * r.proposed, total)

(* Mutant: no cap.                                                         *)
Uncapped(r) == r.invalid * InvalidPoints

Penalty(r) == Least(r.invalid * InvalidPoints, MaxPenalty)

Experience(r, h) ==
  IF h - r.joined > MuchExperience THEN 100
  ELSE IF h - r.joined > SomeExperience THEN 50 ELSE 0

Promptness(r) ==
  IF r.response > 0 /\ r.response < 100 THEN 100
  ELSE IF r.response >= 100 /\ r.response < 500 THEN 50 ELSE 0

Recency(r, h) ==
  IF h <= r.seen THEN 0
  ELSE IF h - r.seen <= Recent THEN 100
  ELSE IF h - r.seen <= NotLongAgo THEN 50 ELSE 0

(* Nothing ever counts a slash.                                            *)
Score(r, h) ==
  Clamp(500 + 2 * Success(r) - Penalty(r) + Experience(r, h) + Promptness(r)
        + Recency(r, h))

-----------------------------------------------------------------------------
(* AIValidatorSelector::select_validator with the default configuration,   *)
(* at the caller's height.                                                 *)

CandidateStakes == {CandidateStake[v] : v \in Validators}

MaxStake == Max(CandidateStakes \cup {1})

StakeScore(v) == Round(CandidateStake[v] * 1000, MaxStake)

InGrace(v) == v \in DOMAIN records => height - records[v].joined <= GracePeriod

Reputation(v) == Score(records[v], height)

(* A half each; stake only during the grace period.                        *)
Weight(v) ==
  IF InGrace(v) THEN StakeScore(v) ELSE Clamp(Round(StakeScore(v) + Reputation(v), 2))

Excluded(v) == (~ InGrace(v) /\ Reputation(v) < MinReputation) \/ Weight(v) = 0

(* The loop over the candidates, which passes over whoever is excluded.    *)
Scored == FoldLeft(LAMBDA s, v : IF Excluded(v) THEN s ELSE Append(s, v),
                   <<>>, Candidates)

(* Where the share of each ends, the shares laid end to end.               *)
Ends(s) ==
  LET end[i \in 0 .. Len(s)] == IF i = 0 THEN 0 ELSE end[i - 1] + Weight(s[i])
  IN  end

(* Mutant: <= for <.                                                       *)
HitsLate(end, target) == target <= end

Hits(end, target) == target < end

(* The walk, with its own fallback for a target that nothing reaches.      *)
Walk(s, ends, target) ==
  LET hits == {i \in DOMAIN s : Hits(ends[i], target)}
  IN  IF hits = {} THEN s[1]
      ELSE s[CHOOSE i \in hits : \A j \in hits : i <= j]

(* The first candidate of the highest stake.                               *)
Richest ==
  LET Beats(i, j) == CandidateStake[Candidates[i]] > CandidateStake[Candidates[j]]
      best == {i \in DOMAIN Candidates : \A j \in DOMAIN Candidates : ~ Beats(j, i)}
  IN  Candidates[CHOOSE i \in best : \A j \in best : i <= j]

Select(seed) ==
  LET s == Scored
      ends == Ends(s)
  IN  IF s = <<>> THEN Richest ELSE Walk(s, ends, seed % ends[Len(s)])

-----------------------------------------------------------------------------
(* Properties.                                                             *)

(* min_reputation_score excludes nobody: with no slash on record the       *)
(* penalties never outweigh what everybody starts with, so whoever has left*)
(* the grace period proposes for some seed, whatever it has done and       *)
(* whatever it has staked.                                                 *)
NobodyExcluded ==
  LET s == Scored
      ends == Ends(s)
  IN  \A v \in Validators : ~ InGrace(v) =>
        \E k \in DOMAIN s : s[k] = v /\ Select(ends[k - 1]) = v

(* Each candidate that was scored proposes for as many seeds as its weight *)
(* says: the first and the last of its share, counted from where the       *)
(* candidates before it end, fall to it, so the walk never runs out.       *)
ShareByWeight ==
  LET s == Scored
      ends == Ends(s)
  IN  \A k \in DOMAIN s :
        /\ Select(ends[k - 1]) = s[k]
        /\ Select(ends[k] - 1) = s[k]

(* A validator that was seen lately gains nothing from missing a block.  One*)
(* that was away does: the miss is a sign of life, worth up to 100 points. *)
MissNeverHelps ==
  [][\A v \in DOMAIN records :
       RecordMissed(v) /\ height + 1 - records[v].seen <= Recent
         => Score(records'[v], height + 1) <= Score(records[v], height + 1)]_selector

=============================================================================
