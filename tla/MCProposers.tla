---------------------------- MODULE MCProposers ----------------------------
(* Who proposes: by the stakes, with three addresses for two places, stakes*)
(* below the minimum, at it and above, and three seeds for a minimum of    *)
(* three; and by reputation, with three candidates, one of them without a  *)
(* stake.  The two share no state, so a behaviour takes steps of one.      *)
EXTENDS ValidatorSet, Selection

CONSTANTS none, v, w, z

VARIABLE half

MCAddresses == 1 .. 3
MCStakes == {2, 3, 4}
MCAmounts == {0, 1, 3}

MCCandidates == <<w, v, z>>
MCCandidateStake == [c \in {v, w, z} |-> IF c = v THEN 3 ELSE IF c = w THEN 2 ELSE 0]

MCInit == Init /\ SelectorInit /\ half \in {"stake", "reputation"}

MCNext ==
  \/ half = "stake" /\ Next /\ UNCHANGED <<selector, half>>
  \/ half = "reputation" /\ SelectorNext /\ UNCHANGED <<vars, half>>

MCSpec == MCInit /\ [][MCNext]_<<vars, selector, half>>
=============================================================================
