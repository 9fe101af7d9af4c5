# Verification of qyn-core

TLA+ modules for the node in `src/`: a Rust blockchain node with an in-memory
transaction pool, a block store and a state store in RocksDB, block production on
a timer, an EVM executor (revm), JSON-RPC handlers and a proof-of-stake validator
set. Every definition is a translation of code; `PROJECT.json` ("map") gives the
lines of each.

Run a check with `tlc -config MCNode.cfg MCNode`, a proof with
`tlapm NodeProofs.tla`, and likewise for the other `*Proofs.tla`.

## 1. The system

### Components, their state and their operations

| component | state | operations | module |
|---|---|---|---|
| mempool (`core/src/mempool.rs`) | `by_sender`: sender -> nonce -> tx; `by_hash`: hash -> (sender, nonce); two `RwLock`s | `insert` (with `evict_by_sender`), `remove`, `get_by_hash`, `get_best` | `Mempool`, `MempoolLocks` |
| block store (`core/src/chain.rs`) | RocksDB keys: header, body, number index, double-sign index, children, head, finalized height and hash, receipts, evidence, validator-set bytes | `put_block`, `set_head`, `update_finalized`, `accept_block`, reads | `Chain`; receipts and evidence in `Node` |
| fork rules (`core/src/fork.rs`) | none: reads the block store | `subtree_stake`, `canonical_head`, `common_ancestor`, `reorg_blocks` | `Chain` |
| validation (`core/src/validation.rs`) | none | header, body and transaction checks | `Chain`, `Node` |
| state store (`core/src/state.rs`) | balance, nonce, code and storage by account; root by block | get/set, `compute_state_root`, `save_state_root` | `Node` |
| genesis (`core/src/genesis.rs`) and fees (`core/src/fees.rs`) | none | `apply_genesis_alloc`, put by put; `split_fees` | `Node` (start, `BurnFees`) |
| execution (`vm/src/executor.rs`, `state_db_adapter.rs`) | none | `execute_tx`; `commit`, put by put | `Node` |
| node (`node/src/main.rs`) | what is local to one turn of the loop: candidates, `to_apply` | the first start and every later one (`run_devnet`), `produce_block` every `BLOCK_TIME_SECS` | `Node` |
| RPC (`rpc/src/server.rs`) | rate limiter, rug-pull detector and monitor behind locks | the limiter; `eth_sendRawTransaction` from the bytes to the pool; reads of one value; reads that combine several places | `RateLimiter`, `Rpc`; the race with the producer in `Node` |
| validator set (`consensus/src/validator_set.rs`) | validators by address, delegations | `register`, `delegate`, `slash`, `active_validators`, `select_proposer` | `ValidatorSet` |
| slashing, rewards (`consensus/src`) | none | a table of penalties; `distribute_block_reward` has no caller | penalty in `Node` |
| fraud detector (`quyn-intelligence/src/fraud_detector.rs`, `risk_scorer.rs`) | none: reads chain and state | a score and one of three recommendations | `FraudGate`; any recommendation in `Node` |
| rug-pull detector, liquidity and concentration monitors | locks by token; profiles and alerts, which stay empty | `qyn_lockLiquidity`; the analysis is never reached | not modelled |
| validator reputation and selection (`quyn-intelligence/src/reputation_db.rs`, `validator_scorer.rs`, `validator_selection.rs`) | a record by validator | recording a block produced, missed or invalid; the score; `select_validator` | `Selection` |
| gas optimiser, contract scanner, content verifier | none | statistics and scans of bytes | not modelled |
| network (`network/src`) | a libp2p swarm | none that carries a block or a transaction | not modelled |
| wallet, SDKs, tools | keys | clients of the RPC | not modelled |

### How they interact

One tokio task runs `produce_block`; every RPC request is a task of its own on
the same runtime threads. They share the mempool, the block store and the state
store through `Arc`s. Nothing but the two mempool locks orders them: a handler
reads the balance and the nonce and inserts later, while the producer executes,
commits and removes. `produce_block` reads the head, the validator set and the
clock, takes a snapshot of the pool (`get_best(100)`), and for each candidate
validates, asks the fraud detector, executes and *commits to the state store at
once*; then it burns half the fees, computes the root, builds the block (reading
the clock again) and calls `accept_block`, which may still refuse. Only then are
the receipts written and the transactions removed from the pool. All keys of
both stores are written one by one, without a batch.

### What is hard

* Concurrency: two locks taken in two orders; checks in a handler that are stale
  at the insert; a snapshot that senders replace while it is executed.
* Crashes: between any two keys of one block, of the checkpoint, of an account's
  commit, between the commit and the block, between the head and the receipts, and
  between any two writes of the genesis.
* Partial failure: the block refused after its transactions took effect.
* Time: the clock is read twice in one production and compared with the head's;
  request handlers read it before they await the limiter's lock.
* Encodings: the chain id, the recovery id and the parity travel as one number and
  are taken apart again before the sender is recovered.
* Order: blocks on forks, again, or of one height by one validator; indices that
  the last writer overwrites.
* Limits: eviction at capacity, the nonce gap, 64 bits of seed against stakes in
  units of 10^-18.

### What makes each correct

The pool and its index agree, a sender has one transaction for a nonce, the
capacity holds and an eviction takes whole senders, cheapest first; its calls are
atomic and return. The block store never names a block that cannot be read,
stores no block without its parent, no two blocks of one validator at a height,
and its checkpoint and fork choice follow the head. The producer includes nothing
twice, never builds a block with two transactions of one sender, keeps state,
root and blocks in step, gives every included transaction a receipt, and keeps
producing. The validator set loses no delegation, and its walk divides by stake.
The fraud detector's verdict on a transaction that waits only gets better, so a
delay ends. The chain begins with the whole genesis allocation, however often its
first start is interrupted. Nobody pays for a transaction he did not sign for this
chain; the reads that combine several places agree with each other once the
producer sleeps, and miss at most once what moves while they look. The limiter
lets through a bounded number of requests in any second. The selector by
reputation gives every candidate its share, shuts nobody out and pays nobody for
missing a block.

## 2. Modules and how they correspond to the code

**`Mempool`** - a transaction is a model value standing for its hash; sender,
nonce, price and gas are constant functions of it. `pool` is the set of
transactions in `by_sender`, `index` the keys of `by_hash` (whose values are
functions of the hash), `reply` what the last call returned. `InsertDuplicate`,
`InsertGap`, `InsertWithin` and `InsertEvicting` are the four ways through
`insert`; `Remove` is `remove`. Senders with equal fees are evicted in any order
(the code takes them from a `HashMap`). Of the last sender evicted the code stops
removing *hashes* as soon as its count is reached, although all transactions have
left `by_sender`: `Unindexed` and `Evicted` are different sets.

**`MempoolLocks`** - the same pool as threads run it: a program counter for each
thread, the holders of the two locks, one step for each lock taken, each map
written and each turn of the eviction loop, for `insert`, `remove`,
`get_by_hash` and `get_best`. `Atomic == INSTANCE Mempool` with a call in progress
hidden (`CallersPool`, `CallersIndex`) is the abstract specification it implements.

**`Chain`** - a block is a model value standing for its hash, the fields of its
header constant functions of it. Each variable is a key family of the store.
`Offer` takes any block at any time through the checks of `accept_block` in their
order (`RefuseBody` ... `RefuseDoubleSign`, `Admit`); after `Admit`, `PutHeader`
to `PutRoot` write one key a step, and `Abort` is a crash or a failed write
between two of them. The fork rules are operators over the store.

**`Node`** - first the start (`Allocate`, one account's balance a step,
`CreateGenesis`, `RegisterValidator`, `Serve`), as `run_devnet` repeats it until a
head is set; then `produce_block` step by step (`Wake`, `Skip`, `RejectRisky`,
`Execute`, `PutBalance`/`PutNonce`, `Apply`, `BurnFees`, `Refused`/`DoubleSign`/
`PutBlock`, `SetHead`, `Settle`, `Produced`) beside the three steps of
`eth_sendRawTransaction` (`CheckBalance`, `CheckNonce`, `Submit`), over
`INSTANCE Mempool`. revm and the clock are external: `Executed` is the effect of
a transfer that succeeds or reverts; time is a counter of seconds since the
producer slept or read the clock (`timer`) and whether the clock has passed the
head's timestamp (`age`). `Crash` keeps the databases, loses the pool, the
handlers and the running production, and goes back to the start; `Overrun` lets a
production last longer than `BLOCK_TIME_SECS`; `SlipBack` sets the clock back.
`times` and `replayed` are history variables: how often each transaction is in an
accepted block, and the genesis state after all accepted blocks. A transaction
that `Execute` puts on the first commit is written account by account, in any
order but the nonce of an account after its balance.

**`Rpc`** - what `Node` leaves out of the handlers. A transaction has a form on
the wire (legacy, legacy without a chain id, type 2, or the wallet's own), a
signer and the chain it was signed for; `WireV`, `ChainIn` and `RecoveryId` are the
arithmetic of `v` and of its taking apart, `Recovered` whom the node believes.
Recovery is external: over the bytes that were signed it gives the signer, over
others a `Stranger` without funds. `Refuse`, `Send`, `CheckState` and `Insert` are
`eth_sendRawTransaction`; `Analyse`, `ReadReceipt` and `ReadPool` are
`qyn_getFraudAnalysis`, which looks into two places in two steps. The producer is
cut down to what moves those places: `Wake`, `Execute`, `PutBlock`, `SetHead`,
`PutReceipt`, `RemoveMined`, `Sleep`. `AddressTransactions` and
`TotalTransactions` are the walks of `quyn_getAddressTransactions` and
`quyn_getNetworkStats`. `lost` and `missed` are history variables of the lookups.

**`RateLimiter`** - the entry of one address in the limiter's map: `ReadClock` is
`Instant::now` before the lock is awaited, `Admit` everything under the lock
(`Window` restarts it, the count is compared). Every instant is kept by its age,
capped where nothing distinguishes it any more. `passed` is the history of the
last second.

**`ValidatorSet`** - `validators` and `delegations` as in the code (the list of
delegations kept as its sums), the refusals with their reasons, and
`select_proposer`: `Indices` are the values `seed % total_stake` may take for
some hash, `ProposerAt` where the walk stops. Addresses are numbers because the
`BTreeMap` is walked in their order.

**`Selection`** - the selector that is written to replace it. `RecordProduced`,
`RecordMissed` and `RecordInvalid` write a validator's record; `Score` is
`ValidatorScorer` with its seven factors, `Weight` and `Select` are
`select_validator` in integers (fractions are rounded where the code rounds).
`Walk` goes over the candidates in the order handed over.

**`FraudGate`** - the loop between the detector and the chain: `analyse_transaction`
scores a transaction by the blocks of the past, and `produce_block` includes,
leaves or drops it by the score, which makes the blocks the next score is taken
from. One predicate for each flag, `Score` for their points, `Include` and `Reject`
for `get_recommendation`. `recent[age]` is the block of that age: no check looks
back further than `Depth` blocks, and the guards on the block number compare it
with nothing above `RapidWindow`, so older blocks and larger heights are not kept.
`Submit` is `eth_sendRawTransaction` with its check and insert in one step, one
transaction for a nonce at a time, and an execution succeeds or reverts: crashes
and races belong to `Node`. The pattern list and the rug-pull check are what both
callers make them: a new detector has no patterns, and the rug-pull detector, which
only the RPC passes, is asked without a profile, a balance or a supply.

`MC*.tla` give the constants small values. Two of them run two modules in one
model because they belong to one question and share no state: `MCProposers`
(`ValidatorSet` and `Selection`, who proposes) and `MCRpc` (`Rpc` and
`RateLimiter`, the two halves of `jsonrpc_handler`). In both a behaviour takes
steps of one half only (`half`), so nothing is lost and the product is not built.
`*Proofs.tla` hold the theorems, `FoldLemmas` the lemmas about folds and sums that they
share.

## 3. What is checked

| run | shows | bounds |
|---|---|---|
| `mempool` | `PoolIndexed`, `Bounded`, `EvictsWholeSenders`, `EvictsCheapest` | 8 transactions of 3 senders, capacity 3, gap 1: replacement, gap, ties in fees and eviction of a sender with two or three transactions all occur |
| `locks` | `CallsAtomic` (refinement of `Mempool`), `CallsReturnUncrossed` | 3 threads, 2 calls each, 4 transactions, capacity 2 |
| `locks_deadlock` | `CallsReturn` fails | the same, 1 call each |
| `chain` | `TypeOK`, `RefsReadable`, `ParentsStored`, `OneBlockPerHeight`, `DoubleSignEvident`, `CheckpointBehindHead`, `CanonicalOnOneLine`, `ReorgIsPath` | 8 blocks: a main line of three, two forks, a double sign, an invalid body, a stamp too far ahead; finality depth 1; one crash or failed write; a children list of 2 |
| `chain_finalized` | `FinalizedKept` fails | the same without crashes |
| `node` | `TypeOK`, `PooledNotAhead`, `OneTxPerSender`, `IncludedOnce`, `ChainNotAhead`, `StateReplays`, `GenesisWhole` | from the empty database; 3 transactions of 2 senders (a successor, and a second sender who can pay once he has been paid), capacity 2, snapshots of 2, block time 1, two faults of any kind (crash, overrun, clock set back) at any step |
| `node_live` | `ReceiptsComplete`, `PooledIncluded` under fairness | 3 transactions of one sender, two of them rivals for a nonce, one of which reverts; no fault, enough funds |
| `node_halt` | `ChainGrows` fails | the same, one crash |
| `node_wedge` | `ValidIncluded` fails | no fault, 4 transactions, clients who keep resubmitting, gap 1 |
| `proposers` | `TypeOK`, `DelegationsKept`, `WalkDividesByStake`, `LowestProposes`; `NobodyExcluded`, `ShareByWeight`, `MissNeverHelps` | 3 addresses for 2 places, minimum stake 3, seeds 0..2; 3 candidates, one without a stake, 3 records in 4 blocks, two response times |
| `rpc` | `TypeOK`, `AcceptedAsSigned`, `OneMissAtMost`, `ReadsAgree`; `AtMostThreeLimits` | 8 transactions: two of a sender, one of another, one for another chain, one without a chain, two of type 2 (one free of charge), one in the wallet's form; 2 clients, 2 blocks; 3 requests waiting, limit 2, a second of 2 ticks, delays up to a second |
| `fraud_gate` | `TypeOK`, `NewWalletHasNoHistory`, `QuietSenderIncluded`, `EmptyBlockNeverRaises`, `PooledDecided` under fairness | 7 transactions of 2 senders, windows of 3, 6 and 2 blocks, thresholds 1, 2, 3 and 2; every flag but the pattern's is raised, and all three verdicts given |

Why the bounds are enough. The constants of the code are only compared:
`MAX_NONCE_GAP`, `FINALITY_DEPTH`, `BLOCK_TIME_SECS`, the pool's capacity and
`get_best`'s limit enter as thresholds, and each run has values on both sides of
its thresholds. One eviction frees one place, so a pool of three meets senders
that have fewer, as many and more transactions than needed; the theorems below
remove the bounds of the safety properties altogether. A transaction, its
successor and another sender are what the races between handler and producer
need; the rivals for one nonce are in `node_live` and `node_wedge`. Two faults
allow a crash of the first start followed by one of a production, two crashes of
the first start, and a crash of the production that follows a refused one.
`MinStake` and `SeedRange` keep the relation of the real values: 10^22 > 2^64.
`InvalidPoints` is five times the code's, so that one invalid block does what five
do; the ages that earn points are in their order. The windows and thresholds of
the detector keep their order (rapid window < velocity window < dust window, high <
extreme < window), its points and the thresholds of the recommendation their values.

`MaxChildren`, `MaxAborts`, `MaxCalls`, `MaxFaults`, `MaxDelegated`, `MaxRecords`,
`MaxHeight`, `MaxDelay` and `Watched` (the transactions that clients look up) are
bounds of the models, not of the code. `Seen`, the VIEW of `MCNode` and of `MCRpc`,
drops answers that no action and no property reads. `MCRpc` declares the clients
and the waiting requests symmetric: no definition names one of them, and the run
has no liveness property. Deadlock is checked except in `MempoolLocks`, where
threads stop after their calls, and in `MCProposers`, where the recording stops at
`MaxHeight`.

### Fairness

`Node!FairSpec`: weak fairness of the start (it runs to its end), of the
producer's steps and of the clock (the runtime polls the one spawned task and its
timer), and of a handler's later steps once it has begun (an RPC task runs to its
end). Nothing obliges a client to submit; only `ResubmitSpec` adds clients who do.
`FraudGate!FairSpec`: weak fairness of the producer alone, for the same reason.
`MempoolLocks!Fairness`: a thread that can take its next step takes it; a waiting
writer is not preferred.

### What the checks say about the code

Runs whose property fails state what a comment or a document says:

1. `get_by_hash` and `insert`/`remove` take the two locks in opposite orders
   (`mempool.rs:134`, `46`): a lookup beside a writer can leave both waiting for
   ever. `CallsReturnUncrossed` shows that this is the only way a call does not
   return.
2. The finality check in `accept_block` looks for a common ancestor with a block
   that is not stored yet, finds none and passes (`chain.rs:261`): a side branch
   from below the checkpoint replaces the finalized block.
3. After a crash between `put_block` and `set_head` the node builds another block
   for a height it has signed and refuses it as a double sign, for ever
   (`chain.rs:288`); it also takes the validator's whole balance.
4. A handler that inserts after its nonce check has become stale leaves a
   transaction nobody removes; once the sender is further than the gap, every
   valid transaction of the sender is refused (`server.rs:435`).

Known limits of the code that the models contain and that restrict the properties
that hold, without a run of their own:

* Pool: hashes that an eviction leaves behind, and the count it returns
  (`mempool.rs:105-107`). Such a transaction, sent again, is answered as accepted
  without being pooled, and a lookup of its hash finds whatever took its slot
  (`Rpc!Findable`). With as many stale transactions in the pool as a snapshot
  holds, `PooledIncluded` fails: nothing removes them.
* Chain: the number index mixes branches after a fork (`chain.rs:75`); a block
  accepted again is listed twice by its parent and weighed twice by
  `subtree_stake` (`chain.rs:88`); after a crash between the body and the
  `signed_block` key a second block of the height is accepted (`chain.rs:84`:
  `OneBlockPerHeight` excludes aborted writes).
* Node: a production longer than `BLOCK_TIME_SECS`, or a clock set back, is refused
  by its own timestamp check after its transactions were committed
  (`main.rs:344`): their effects are in no block but in the root of the next. A
  commit torn between two accounts pays a recipient at nobody's expense
  (`state_db_adapter.rs:82`). A crash after the head leaves included transactions
  without a receipt. `StateReplays` and `ReceiptsComplete` therefore speak of runs
  without faults, and `TypeOK` lets a balance of the replayed history go below
  zero, for a payment that only the torn commit made possible. Penalties for double
  signing touch the balance and never the validator set (`main.rs:344-367`).
* RPC: a transaction of type 2 is recovered over the legacy digest, so it counts as
  nobody's and is accepted only when it costs nothing (`SECURITY.md:87` says that
  type 2 is in progress); what `quyn wallet send` encodes is never
  understood, because the hash it leaves out is not restored. A lookup beside the
  producer may miss a transaction once. The limiter lets twice its limit pass
  around the boundary of a window, and three times when handlers wait for its lock
  with clocks of their own (`AtMostThreeLimits`). `eth_getTransactionReceipt`
  answers status 1 for reverted transactions too.
* Proposers: a seed of 64 bits is reduced modulo a total above 10^22 and so always
  names the first validator of the map (`validator_set.rs:144`), where
  `EXTERNAL_AUDIT_REPORT.md:179` speaks of stake-weighted selection
  (`LowestProposes`, proved). In the selector by reputation nothing writes the
  number of slashes, so `min_reputation_score` filters nobody
  (`NobodyExcluded`); a miss refreshes `last_seen_block`, so a validator that was
  away gains points by it (`MissNeverHelps` speaks of those seen lately).
* Detector: the check for rapid drains is off below height 11
  (`fraud_detector.rs:285`), so that a score may rise in an empty block there,
  which `EmptyBlockNeverRaises` leaves out.

## 4. What is proved

Every theorem holds for all values of the constants that satisfy the module's named
assumption, which TLC evaluates in the module's runs. Every invariant and every
action property of the passing runs is the statement of a theorem, for all sizes;
what stays with TLC is listed at the end.

`MempoolProofs` (`MempoolAssumption`): `Inv == TypeOK /\ PoolIndexed /\
OneTxPerNonce /\ Bounded` is inductive (`MempoolInvariant`). The conjuncts need each
other: that an insert adds at most one to the cardinality (`InsertedFacts`) needs a
slot to hold at most one transaction; that the index keeps covering the pool needs
that hashes removed with an eviction belong to transactions that left.
`EvictionFits` turns the exit condition of the loop into the bound. From `Inv` and
one step follow the action properties: whole senders only, cheapest first, and
(`OneSenderEvicted`) exactly one of them, because a pool at capacity exceeds it by
one.

`MempoolLocksProofs` (`LocksAssumption`): the threads with their two locks implement
the mempool above (`CallsAreAtomic`). The step of `Mempool` is taken when a writer
drops `by_hash`; every other step maps to a stutter. `LocksInv` says who holds which
lock by where the threads stand (`LocksHeld`), that writers exclude each other and
the readers of their map (`LocksExclude`), and for each place of a writer what it
has done to the maps it found (`Progress`: `AtEntry` to `AtAnswer`, with its local
variables). That the eviction loop turns at most once is needed here and comes from
the invariant of `Mempool` on the maps that callers see, so the two are proved
together. `CallersKeepThePool` carries the theorems of `MempoolProofs` over to the
threads by instantiating them; `WholeCallsRead` says that a reader never finds a
half-done call.

`ChainProofs` (`ChainAssumption`): `TypeOK`, `RefsReadable`, `ParentsStored`,
`OneBlockPerHeight` and `DoubleSignEvident`, between any two writes. The
strengthening says of the block in flight what the properties say of the stored
ones: its header precedes its body (`BodiesHeaded`), it stands on its parent before
it is readable (`ParentReady`), and while it is readable but not yet in the
double-sign index its place there is free (`SignedAll`, without aborted writes);
`SignedRight` says that the index names blocks under their own validator and
height. `ParentsStored` is about the index that later blocks overwrite: the header
check makes the block found by number the parent that is named.
Then what walks a line of blocks. A line has exactly one block at each
height down to 0 (`LinesOrderly`, from a least counterexample), which makes
`CheckpointKept` an invariant of the writes around the checkpoint and lets
`ReorgsArePaths` name the block at each index of the two walks of `reorg_blocks`.
`ForklessHeadIsCanonical` needs an invariant about the lists of children (`Family`): a
list is its block's, every readable block is in one unless it is being written
(`AllListed`), and in a store that never had a fork every readable block lies on the
line of the head (`EndsAtHead`), so the descent by weight has one child at each block
and stops at the head, whatever the weights are.

`NodeProofs` (`NodeAssumption`), with any number of faults: `PooledNotAhead`,
`OneTxPerSender` and `IncludedOnce`. The invariant orders by nonce everything
that runs at once: what is pooled or about to be inserted is not ahead of the state
(`PoolPast`, `RpcPast`); the candidates left are not ahead either, and of a sender
that the running block already has a transaction of they are no later than that one
(`CandPast`); what the block has is used up and of different senders (`DonePast`);
and a commit, which others watch put by put, raises the nonce of one sender
whom the block has no transaction of, and lowers none (`Committing`). That is why a
handler with a stale check can pool only transactions from the past, and a second
one of a sender never passes its nonce check within a block. `IncludedOnce` adds a
second argument: a transaction counted in a block is below the nonce, for ever.
`NodeTypeCorrect` needs that the history (`Replayed`, a fold over the block) is a
state. `WholeGenesis` rests on `Allocated`: as long as there is no head, what is not
yet allocated is still to be written and nothing else has happened.
`NeverBehindTheChain` compares three states, the database, the accepted blocks and
the accepted blocks with the running one (`Draft`), nonce by nonce (`Behind`).
Without faults, `Faultless` (`NothingWrong`) says where the producer is in time
(`OnTime`: so no block is refused), what the database holds at each of its steps,
account by account within a commit (`InStep`), and which receipts are under way
(`Receipted`). `StateReplays` and `ReceiptsComplete` are what it says of a producer
that sleeps.

`RpcProofs` (`RpcAssumption`, `RateLimiterAssumption`): `AcceptedAsSigned` for every
set of transactions, from `LegacyUnderstood` (the numbers `v`, `v - 35` and their
halves give back the chain and the parity) and an invariant of what a handler has
checked at each of its steps; `OneMissAtMost` from an invariant of the lookups: a hash
that was missed and known ever since has its receipt, and receipts stay. `HistoryInv`
is what the blocks hold, through the phases of the producer: the transactions of an
account lie one above the other in the order of their nonces (`Ordered`), one for
each nonce the account has used (`Used`), and the receipts name places
(`ReceiptsRight`). `ReadsAlwaysAgree` reads the two walks against it. The walk of
`quyn_getAddressTransactions` keeps the loop invariant `Listing`: what is
listed of the sender so far has the nonces just below the account's, without a gap;
so the limit, which may fall inside a block, cuts off the lowest ones. The sum of
`quyn_getNetworkStats` is the number of receipts, because the blocks share no
transaction (`PartsAddUp`).
`ThreeLimitsAtMost` is an invariant of sums (`LimitInv`): a window was opened at most
`MaxDelay` after it began and the one before it a second earlier, so that what passed
since then belongs to the open window, to it and one limit, or to it and two limits;
a second reaches no further back because no handler waits longer than a second.

`ProposersProofs` (`ValidatorSetAssumption`, `SelectionAssumption`).
By stake, `Inv == TypeOK /\ DelegationsKept /\ RosterBounded` is inductive. `TypeOK`
for the proposer is the interesting part: the walk's `CHOOSE` must have something to
choose. The shares are laid out one after the other in the order of the addresses, each
as long as its validator's stake (`WalkIsLaidOut`), and an index leads to the share it
lies in (`WalkFindsShare`): that is `SharesFollowStake`. The first share has at least
`MinStake` indices and `SeedRange <= MinStake`, so `FirstAlwaysProposes` says that
nobody but the first is ever selected.
By reputation, no record scores below the minimum (`MinimumNeverMissed`), from
`ScoreBounds`: the penalties take at most `MaxPenalty` of the 500 points everybody
starts with, and `MinReputation <= 500 - MaxPenalty` is the relation of the code's
values (100 and 300). So everybody past the grace period is scored (`ScoredIs`), weighs
at least one, and is found by the first and the last seed of its share
(`WalkHitsShare`): `EverybodyHasAShare`, `SharesFollowWeight`. `MissesNeverPay` is the
arithmetic of rounding: a fraction of a larger whole is never rounded to more
(`RoundFalls`).

`FraudGateProofs` (`FraudGateAssumption`: windows in their order, thresholds of
counts not zero, a dust value below a large one and below every round one): `Inv ==
TypeOK /\ HistoryUsesNonces` is inductive. `HistoryUsesNonces` - who has a
transaction in a block or in the body under construction has used a nonce - is what
`NewWalletHasNoHistory` needs and does not say. `QuietIncluded` is a bound on the
points: without history in the velocity window they are at most 55, in either case
of whether the value is dust. `WaitingNeverHurts` compares the windows before and after
an empty block: every transaction sent in a window afterwards was in it before, one
block younger (`NothingEnters`), and that map is injective, so no count and no sum grows
(`FewerSent`, `LessDust`, `LessValue`); the rounded quotient of the rapid drain passes
50 exactly when the value reaches the balance (`DrainedIs`). So the extreme velocity,
the dust and the rapid drain are not flagged where they were not before, and the high
velocity only where it or the extreme one, which is worth more, was (`NoNewFlags`).

`FoldLemmas` holds what these proofs share. The community modules define folds and sums
as the `CHOOSE` of a recursive function, and so do the recursive functions of the
models: whatever is proved of one begins with showing that there is such a function.
`FoldExists` and `RunExists` exhibit it, `FoldUnique` says that there is only one
(both from the least counterexample, `LeastOfNaturals`), and
`SumSplits`, `SumOfParts`, `SumOfInjection` and `PartsAddUp` are about adding up in
any order, by parts, along an injection and over disjoint sets.

The assumptions that are more than types, and why the code justifies them: the parent
of a block of number 0 is the zero hash (`Chain`: `accept_block` is called from
`produce_block` only, `main.rs:344`, and the node makes its own genesis block);
`SeedRange <= MinStake` and `MinReputation <= 500 - MaxPenalty` are relations of
constants in the code; a handler waits for the limiter's lock no longer than a second
(`MaxDelay`, an assumption about the runtime, which the code does not enforce).

Only model-checked: `CallsReturnUncrossed`, `PooledIncluded` and `PooledDecided`, which
are liveness under fairness and beyond the prover, as are the four properties that
are shown to fail.

## 5. What is not modelled

* Cryptography, RLP and hashing: a transaction or block *is* its hash, and a
  recovery over the wrong bytes gives an account without funds.
* The EVM beyond a transfer that succeeds, reverts or errors; contract code and
  storage, which the same commit writes and nothing here reads; gas limits of a
  block (nothing in the code compares the sum).
* RPC methods that read one value and format it; the stateless scans and statistics
  (contract scanner, content verifier, gas optimiser).
* The rug-pull detector: the node passes it no profile, no balance and no supply,
  so its checks are never reached and its registry and alerts stay empty.
  `qyn_lockLiquidity` writes a lock, over an earlier and perhaps longer one of the
  token, and no handler reads it back; there is no behaviour that depends on it.
* The network crate, which carries no blocks and no transactions; the wallet, the
  SDKs and the tools, which are clients; block rewards, commissions and
  `apply_transfer`, which have no caller.

`Node` has one validator, the devnet's, which `select_proposer` therefore always
names.

## 6. What is left

1. `FraudGate` as a refinement of the verdicts that `Node` takes: the gate's
   production as one of `Node`'s.
2. `Rpc`'s producer as a refinement of `Node`'s, so that what is proved of the history
   in the one need not be repeated for the other.
3. Several validators, once blocks travel between nodes: `Node` composed with
   `Chain`, the forks that `Chain` is offered then being made by producers.
