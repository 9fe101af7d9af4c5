------------------------------- MODULE Node -------------------------------
(***************************************************************************)
(* A devnet node: run_devnet's creation of the genesis state and block,     *)
(* then produce_block (node/src/main.rs) on its three-second               *)
(* timer beside the handlers of eth_sendRawTransaction (rpc/src/server.rs),*)
(* over the pool of Mempool and the two databases.                         *)
(*                                                                         *)
(* The producer executes transactions straight into the state database,    *)
(* one put at a time, before it knows that the block will be accepted.     *)
(* There is one validator, so select_proposer always names this node.      *)
(* Time is relative: `timer' counts the seconds slept or the seconds since *)
(* the producer read the clock, `age' whether the clock has passed the     *)
(* timestamp of the head.                                                  *)
(***************************************************************************)
EXTENDS Integers, FiniteSets, FiniteSetsExt, Sequences, SequencesExt

CONSTANTS
  Txs, Senders, SenderOf, NonceOf, PriceOf, GasOf, MaxSize, MaxNonceGap,
  Accounts,       \* the senders, the recipients and the validator
  Validator,      \* the devnet validator, who is the coinbase
  ToOf,           \* tx -> the recipient
  ValueOf,        \* tx -> the value sent
  UsedOf,         \* tx -> the gas its execution uses
  ExecOf,         \* tx -> how revm ends: "ok", "revert" or "error"
  GenesisBalance, \* account -> its balance at genesis
  Verdicts,       \* the recommendations the fraud detector may give
  BestLimit,      \* the candidates asked of the mempool
  BlockTime,      \* BLOCK_TIME_SECS
  Faults,         \* what may go wrong: "crash", "overrun" of BlockTime, "slip"
  MaxFaults       \* bound: how often

ASSUME NodeAssumption ==
  /\ SenderOf \in [Txs -> Senders]
  /\ NonceOf \in [Txs -> Nat]
  /\ PriceOf \in [Txs -> Nat]
  /\ GasOf \in [Txs -> Nat]
  /\ MaxSize \in Nat
  /\ MaxNonceGap \in Nat
  /\ Senders \subseteq Accounts
  /\ Validator \in Accounts \ Senders
  /\ ToOf \in [Txs -> Accounts]
  /\ ValueOf \in [Txs -> Nat]
  /\ UsedOf \in [Txs -> Nat]
  /\ \A t \in Txs : UsedOf[t] <= GasOf[t]
  /\ ExecOf \in [Txs -> {"ok", "revert", "error"}]
  /\ GenesisBalance \in [Accounts -> Nat]
  /\ Verdicts \subseteq {"include", "delay", "reject"}
  /\ BestLimit \in Nat
  /\ BlockTime \in Nat \ {0}
  /\ Faults \subseteq {"crash", "overrun", "slip"}
  /\ MaxFaults \in Nat

VARIABLES
  pool, index, reply,  \* the mempool
  bal, nonce,          \* the state database
  start,               \* how far the creation of the chain has come
  head,                \* the state root in the header of the head
  signed,              \* whether a block is signed at the height above the head
  receipts,            \* the transactions with a receipt
  evidence,            \* whether the validator has double-sign evidence on record
  rpc,                 \* tx -> how far the handler submitting it has come
  pc,                  \* where the producer is
  cand,                \* candidates: those still to be tried
  done,                \* to_apply
  pending,             \* the puts of the running commit, or of the allocation,
                       \* still to be made
  target,              \* what they put
  timer, age,          \* the clocks
  faults,              \* how often something went wrong
  \* History: what the accepted blocks say.
  times,               \* tx -> the number of accepted blocks that contain it
  replayed             \* the genesis state after every accepted block

mempool == <<pool, index, reply>>
state   == <<bal, nonce>>
chain   == <<start, head, signed, receipts, evidence, times, replayed>>
loop    == <<cand, done, pending, target>>
vars == <<mempool, state, chain, rpc, pc, loop, timer, age, faults>>

M == INSTANCE Mempool

States == [bal : [Accounts -> Nat], nonce : [Senders -> Nat]]

Now == [bal |-> bal, nonce |-> nonce]

Genesis == [bal |-> GenesisBalance, nonce |-> [s \in Senders |-> 0]]

Steps == {"boot", "asleep", "loop", "commit", "seal", "head", "settle"}

TypeOK ==
  /\ M!TypeOK
  /\ Now \in States
  /\ start \in {"empty", "headed", "whole"}
  /\ head \in States /\ target \in States
  \* A payment torn by a crash may be spent: then the blocks do not replay.
  /\ replayed \in [bal : [Accounts -> Int], nonce : [Senders -> Nat]]
  /\ signed \in BOOLEAN /\ evidence \in BOOLEAN
  /\ receipts \subseteq Txs
  /\ rpc \in [Txs -> {"idle", "funded", "valid"}]
  /\ pc \in Steps
  /\ cand \in Seq(Txs) /\ done \in Seq(Txs)
  /\ pending \subseteq (Accounts \X {"balance"}) \cup (Senders \X {"nonce"})
  /\ timer \in 0 .. BlockTime + 1
  /\ age \in 0 .. 1
  /\ faults \in 0 .. MaxFaults
  /\ times \in [Txs -> Nat]

(* Mutant: a balance found in the database is taken for a whole allocation.*)
AllocationOnce ==
  IF \E a \in Accounts : bal[a] > 0 THEN {} ELSE Accounts \X {"balance"}

(* What apply_genesis_alloc has to write: everything again, as long as no   *)
(* head is set.                                                            *)
Allocation == IF start = "empty" THEN Accounts \X {"balance"} ELSE {}

Init ==
  /\ M!Init
  /\ bal = [a \in Accounts |-> 0] /\ nonce = Genesis.nonce
  /\ start = "empty"
  /\ head = Now /\ replayed = Genesis /\ target = Genesis
  /\ signed = FALSE /\ evidence = FALSE
  /\ receipts = {}
  /\ rpc = [t \in Txs |-> "idle"]
  /\ pc = "boot"
  /\ cand = <<>> /\ done = <<>> /\ pending = Allocation
  /\ timer = 0 /\ age = 1
  /\ faults = 0
  /\ times = [t \in Txs |-> 0]

-----------------------------------------------------------------------------
(* run_devnet, before it serves.  The nonce that goes with each balance is  *)
(* zero before and after.                                                  *)

Allocate(a) ==
  /\ pc = "boot"
  /\ <<a, "balance">> \in pending
  /\ bal' = [bal EXCEPT ![a] = GenesisBalance[a]]
  /\ pending' = pending \ {<<a, "balance">>}
  /\ UNCHANGED <<mempool, nonce, chain, rpc, pc, cand, done, target, timer, age,
                 faults>>

(* compute_state_root, the block and the head.  A block without a head is  *)
(* written again by the next start, with the same hash.                    *)
CreateGenesis ==
  /\ pc = "boot"
  /\ start = "empty"
  /\ pending = {}
  /\ head' = Now
  /\ start' = "headed"
  /\ UNCHANGED <<mempool, state, signed, receipts, evidence, times, replayed, rpc,
                 pc, loop, timer, age, faults>>

(* The validator set is written after the head, or by the next start.      *)
RegisterValidator ==
  /\ pc = "boot"
  /\ start = "headed"
  /\ start' = "whole"
  /\ UNCHANGED <<mempool, state, head, signed, receipts, evidence, times, replayed,
                 rpc, pc, loop, timer, age, faults>>

Serve ==
  /\ pc = "boot"
  /\ start = "whole"
  /\ pc' = "asleep"
  /\ UNCHANGED <<mempool, state, chain, rpc, loop, timer, age, faults>>

Boot == (\E a \in Accounts : Allocate(a)) \/ CreateGenesis \/ RegisterValidator \/ Serve

-----------------------------------------------------------------------------
(* What a transaction needs and does.                                      *)

(* Mutant: the gas is not counted.                                         *)
FundedForValue(t) == bal[SenderOf[t]] >= ValueOf[t]

Funded(t) == bal[SenderOf[t]] >= ValueOf[t] + PriceOf[t] * GasOf[t]

(* Mutants: an earlier nonce is taken too; a later one is taken too.       *)
NonceUpTo(t) == NonceOf[t] <= nonce[SenderOf[t]]
NonceFrom(t) == NonceOf[t] >= nonce[SenderOf[t]]

NonceMatches(t) == NonceOf[t] = nonce[SenderOf[t]]

Fee(t) == PriceOf[t] * UsedOf[t]

(* revm: the sender pays the gas used, to the coinbase, and, unless the    *)
(* execution reverts, the value, to the recipient.                         *)
Executed(st, t) ==
  LET sent == IF ExecOf[t] = "ok" THEN ValueOf[t] ELSE 0
      From(a, n, who) == IF a = who THEN n ELSE 0
  IN [bal |-> [a \in Accounts |->
                 st.bal[a] + From(a, sent, ToOf[t]) + From(a, Fee(t), Validator)
                           - From(a, sent + Fee(t), SenderOf[t])],
      nonce |-> [st.nonce EXCEPT ![SenderOf[t]] = @ + 1]]

Touched(t) == {SenderOf[t], Validator} \cup
              (IF ExecOf[t] = "ok" THEN {ToOf[t]} ELSE {})

(* split_fees, and the saturating subtraction.                             *)
Burn(q) == MapThenSumSet(LAMBDA i : Fee(q[i]), DOMAIN q) \div 2

Burnt(b, q) == [b EXCEPT ![Validator] = Max({@ - Burn(q), 0})]

(* What a block does to the state it builds on.                            *)
Replayed(st, q) ==
  LET end == FoldLeft(Executed, st, q) IN [end EXCEPT !.bal = Burnt(@, q)]

-----------------------------------------------------------------------------
(* eth_sendRawTransaction: two reads of the state, then the insert.        *)

CheckBalance(t) ==
  /\ pc # "boot"
  /\ rpc[t] = "idle"
  /\ Funded(t)
  /\ rpc' = [rpc EXCEPT ![t] = "funded"]
  /\ UNCHANGED <<mempool, state, chain, pc, loop, timer, age, faults>>

CheckNonce(t) ==
  /\ rpc[t] = "funded"
  /\ rpc' = [rpc EXCEPT ![t] = IF NonceMatches(t) THEN "valid" ELSE "idle"]
  /\ UNCHANGED <<mempool, state, chain, pc, loop, timer, age, faults>>

Submit(t) ==
  /\ rpc[t] = "valid"
  /\ M!Insert(t)
  /\ rpc' = [rpc EXCEPT ![t] = "idle"]
  /\ UNCHANGED <<state, chain, pc, loop, timer, age, faults>>

Handle(t) == CheckBalance(t) \/ CheckNonce(t) \/ Submit(t)

-----------------------------------------------------------------------------
(* produce_block.                                                          *)

(* The head is read, the clock is read, and get_best takes its snapshot.   *)
Wake ==
  /\ pc = "asleep"
  /\ timer = BlockTime
  /\ \E q \in [1 .. Min({BestLimit, Cardinality(pool)}) -> pool] :
       M!BestOrder(q, pool, BestLimit) /\ cand' = q
  /\ done' = <<>>
  /\ pc' = "loop"
  /\ timer' = 0
  /\ UNCHANGED <<mempool, state, chain, rpc, pending, target, age, faults>>

Valid(t) == Funded(t) /\ NonceMatches(t)

Trying(t) == pc = "loop" /\ cand # <<>> /\ t = Head(cand)

Skip(t) ==
  /\ Trying(t)
  /\ Valid(t) => "delay" \in Verdicts \/ ExecOf[t] = "error"
  /\ cand' = Tail(cand)
  /\ UNCHANGED <<mempool, state, chain, rpc, pc, done, pending, target, timer,
                 age, faults>>

RejectRisky(t) ==
  /\ Trying(t)
  /\ Valid(t)
  /\ "reject" \in Verdicts
  /\ M!Remove(t)
  /\ cand' = Tail(cand)
  /\ UNCHANGED <<state, chain, rpc, pc, done, pending, target, timer, age,
                 faults>>

Execute(t) ==
  /\ Trying(t)
  /\ Valid(t)
  /\ "include" \in Verdicts
  /\ ExecOf[t] # "error"
  /\ target' = Executed(Now, t)
  /\ pending' = (Touched(t) \X {"balance"}) \cup ((Touched(t) \cap Senders) \X {"nonce"})
  /\ pc' = "commit"
  /\ UNCHANGED <<mempool, state, chain, rpc, cand, done, timer, age, faults>>

(* Mutant: a transaction is taken as applied before its last put.          *)
ApplyEarly ==
  /\ pc = "commit"
  /\ \A a \in Accounts : <<a, "balance">> \notin pending
  /\ done' = Append(done, Head(cand))
  /\ cand' = Tail(cand)
  /\ pending' = {}
  /\ pc' = "loop"
  /\ target' = Genesis
  /\ UNCHANGED <<mempool, state, chain, rpc, timer, age, faults>>

(* StateDBAdapter::commit: account by account, in the order of a HashMap,  *)
(* the balance and then the nonce (which only a sender's changes).         *)
Unfinished(b) == <<b, "nonce">> \in pending /\ <<b, "balance">> \notin pending

PutBalance(a) ==
  /\ pc = "commit"
  /\ <<a, "balance">> \in pending
  /\ ~ \E b \in Accounts : Unfinished(b)
  /\ bal' = [bal EXCEPT ![a] = target.bal[a]]
  /\ pending' = pending \ {<<a, "balance">>}
  /\ UNCHANGED <<mempool, nonce, chain, rpc, pc, cand, done, target, timer, age,
                 faults>>

PutNonce(a) ==
  /\ pc = "commit"
  /\ Unfinished(a)
  /\ nonce' = [nonce EXCEPT ![a] = target.nonce[a]]
  /\ pending' = pending \ {<<a, "nonce">>}
  /\ UNCHANGED <<mempool, bal, chain, rpc, pc, cand, done, target, timer, age,
                 faults>>

(* to_apply.push; the loop goes on.                                        *)
Apply ==
  /\ pc = "commit"
  /\ pending = {}
  /\ done' = Append(done, Head(cand))
  /\ cand' = Tail(cand)
  /\ pc' = "loop"
  /\ target' = Genesis
  /\ UNCHANGED <<mempool, state, chain, rpc, pending, timer, age, faults>>

(* Mutant: nothing is burnt.                                               *)
KeepFees ==
  /\ pc = "loop"
  /\ cand = <<>>
  /\ pc' = "seal"
  /\ UNCHANGED <<mempool, state, chain, rpc, loop, timer, age, faults>>

BurnFees ==
  /\ pc = "loop"
  /\ cand = <<>>
  /\ bal' = Burnt(bal, done)
  /\ pc' = "seal"
  /\ UNCHANGED <<mempool, nonce, chain, rpc, loop, timer, age, faults>>

(* Mutant: a block that took as long as BlockTime is refused.              *)
StampTooStrict == age = 0 \/ timer >= BlockTime

(* Block::new reads the clock again; accept_block checks.                  *)
DuplicateSender ==
  \E i, j \in DOMAIN done : i # j /\ SenderOf[done[i]] = SenderOf[done[j]]

BadStamp == age = 0 \/ timer > BlockTime

Return == pc' = "asleep" /\ timer' = 0

Refused ==
  /\ pc = "seal"
  /\ DuplicateSender \/ BadStamp
  /\ Return
  /\ done' = <<>>
  /\ UNCHANGED <<mempool, state, chain, rpc, cand, pending, target, age, faults>>

(* The block carries a new timestamp, so it is another block than the one  *)
(* signed at this height: evidence, and a penalty of 10000 basis points.   *)
DoubleSign ==
  /\ pc = "seal"
  /\ ~ (DuplicateSender \/ BadStamp)
  /\ signed
  /\ evidence' = TRUE
  /\ bal' = [bal EXCEPT ![Validator] = 0]
  /\ Return
  /\ done' = <<>>
  /\ UNCHANGED <<mempool, nonce, start, head, signed, receipts, times, replayed,
                 rpc, cand, pending, target, age, faults>>

PutBlock ==
  /\ pc = "seal"
  /\ ~ (DuplicateSender \/ BadStamp)
  /\ ~ signed
  /\ signed' = TRUE
  /\ pc' = "head"
  /\ UNCHANGED <<mempool, state, start, head, receipts, evidence, times, replayed,
                 rpc, loop, timer, age, faults>>

SetHead ==
  /\ pc = "head"
  /\ head' = Now
  /\ signed' = FALSE
  /\ age' = 0
  /\ times' = [t \in Txs |->
                 times[t] + Cardinality({i \in DOMAIN done : done[i] = t})]
  /\ replayed' = Replayed(replayed, done)
  /\ pc' = "settle"
  /\ UNCHANGED <<mempool, state, start, receipts, evidence, rpc, loop, timer, faults>>

(* Mutant: a transaction that left the mempool meanwhile gets no receipt.  *)
SettlePooled ==
  /\ pc = "settle"
  /\ done # <<>>
  /\ receipts' = receipts \cup ({Head(done)} \cap index)
  /\ M!Remove(Head(done))
  /\ done' = Tail(done)
  /\ UNCHANGED <<state, start, head, signed, evidence, times, replayed, rpc, pc,
                 cand, pending, target, timer, age, faults>>

(* The receipt, then the removal from the mempool.                         *)
Settle ==
  /\ pc = "settle"
  /\ done # <<>>
  /\ receipts' = receipts \cup {Head(done)}
  /\ M!Remove(Head(done))
  /\ done' = Tail(done)
  /\ UNCHANGED <<state, start, head, signed, evidence, times, replayed, rpc, pc,
                 cand, pending, target, timer, age, faults>>

Produced ==
  /\ pc = "settle"
  /\ done = <<>>
  /\ Return
  /\ UNCHANGED <<mempool, state, chain, rpc, loop, age, faults>>

Produce ==
  \/ Wake \/ Apply \/ BurnFees \/ Refused \/ DoubleSign \/ PutBlock \/ SetHead
  \/ Settle \/ Produced
  \/ \E t \in Txs : Skip(t) \/ RejectRisky(t) \/ Execute(t)
  \/ \E a \in Accounts : PutBalance(a) \/ PutNonce(a)

-----------------------------------------------------------------------------
(* The environment.                                                        *)

Fault(kind) ==
  /\ kind \in Faults
  /\ faults < MaxFaults
  /\ faults' = faults + 1

(* A second passes.  Nothing after the check of the timestamp reads a clock,*)
(* and more than one second too many is no different from one.             *)
Second ==
  /\ timer' = timer + 1
  /\ age' = 1
  /\ UNCHANGED <<mempool, state, chain, rpc, pc, loop>>

Tick ==
  /\ pc \notin {"boot", "head", "settle"}
  /\ timer < BlockTime
  /\ Second
  /\ UNCHANGED faults

(* The production takes longer than a block time.                          *)
Overrun ==
  /\ pc \in {"loop", "commit", "seal"}
  /\ timer = BlockTime
  /\ Second
  /\ Fault("overrun")

(* SystemTime is not monotonic: the clock is set back to the head's stamp. *)
SlipBack ==
  /\ pc \notin {"boot", "head", "settle"}
  /\ Fault("slip")
  /\ age' = 0
  /\ UNCHANGED <<mempool, state, chain, rpc, pc, loop, timer>>

(* The process dies and starts again: the databases stay.                  *)
Crash ==
  /\ Fault("crash")
  /\ pool' = {} /\ index' = {} /\ reply' = [kind |-> "none", evicted |-> 0]
  /\ rpc' = [t \in Txs |-> "idle"]
  /\ pc' = "boot"
  /\ timer' = 0
  /\ cand' = <<>> /\ done' = <<>> /\ pending' = Allocation /\ target' = Genesis
  /\ UNCHANGED <<state, chain, age>>

Next ==
  (\E t \in Txs : Handle(t)) \/ Boot \/ Produce \/ Tick \/ Overrun \/ SlipBack \/ Crash

Spec == Init /\ [][Next]_vars

(* The start runs to its end, the runtime polls the producer and its timer, *)
(* and a handler, once it has a request, runs to its end.                  *)
FairSpec ==
  /\ Spec
  /\ WF_vars(Boot)
  /\ WF_vars(Produce)
  /\ WF_vars(Tick)
  /\ \A t \in Txs : WF_vars(CheckNonce(t)) /\ WF_vars(Submit(t))

(* Clients who resubmit until their transaction is in.                     *)
ResubmitSpec == FairSpec /\ \A t \in Txs : WF_vars(CheckBalance(t))

-----------------------------------------------------------------------------
(* Properties.                                                             *)

(* Whatever interrupts the first starts, the chain begins with the whole    *)
(* allocation in the state and in the root (main.rs:133-184).              *)
GenesisWhole ==
  [][start = "empty" /\ start' # "empty" => Now = Genesis /\ head' = Genesis]_vars

(* The handlers race with the producer, who moves the nonces they read: a  *)
(* pooled transaction may be stale, never from the future.                 *)
PooledNotAhead == \A t \in pool : NonceOf[t] <= nonce[SenderOf[t]]

(* So a block never has two transactions of one sender, and validate_block *)
(* (validation.rs:79), which would refuse it after its execution was       *)
(* committed, never does: the second one is not in the snapshot.           *)
OneTxPerSender == ~ DuplicateSender

(* No transaction is in two accepted blocks, however often it is submitted *)
(* again, whenever the node dies and whatever blocks are refused.          *)
IncludedOnce == \A t \in Txs : times[t] <= 1

(* The state database is never behind the chain: a crash may leave effects *)
(* of no block behind, never a block without its nonces.                   *)
ChainNotAhead == \A s \in Senders : replayed.nonce[s] <= nonce[s]

(* Unless something went wrong, between two productions the state database *)
(* is the state that the accepted blocks lead to, and so is the root of    *)
(* the head: no transaction took effect without being in a block.          *)
StateReplays == faults = 0 /\ pc = "asleep" => Now = replayed /\ head = replayed

(* Unless something went wrong, between two productions the transactions   *)
(* with a receipt are those of the accepted blocks, those that a rival     *)
(* replaced in the pool meanwhile included.                                *)
ReceiptsComplete ==
  faults = 0 /\ pc = "asleep" => receipts = {t \in Txs : times[t] > 0}

(* A pooled transaction whose turn it is gets in, or one for the same nonce*)
(* that replaced it.                                                       *)
PooledIncluded ==
  \A t \in Txs : (t \in pool /\ NonceMatches(t)) ~>
     (\E u \in Txs : M!SameSlot(t, u) /\ times[u] > 0)

(* "Liveness holds in devnet when the single proposer is up"               *)
(* (EXTERNAL_AUDIT_REPORT.md:154): blocks are accepted again and again.    *)
ChainGrows == []<>(pc = "settle")

(* "If a valid tx is submitted it will eventually be included in a block"  *)
(* (EXTERNAL_AUDIT_REPORT.md:152): when the clients keep submitting, no    *)
(* nonce remains the next one of its sender.                               *)
ValidIncluded ==
  \A t \in Txs : NonceMatches(t) ~> (nonce[SenderOf[t]] > NonceOf[t])

=============================================================================
