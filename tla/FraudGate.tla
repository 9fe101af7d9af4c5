----------------------------- MODULE FraudGate -----------------------------
(***************************************************************************)
(* The fraud detector (quyn-intelligence/src/fraud_detector.rs) as the     *)
(* gate produce_block puts before every transaction (node/src/main.rs):    *)
(* what it recommends depends on the blocks of the past, and what it       *)
(* recommends decides which blocks there will be.                          *)
(*                                                                         *)
(* It is Node with the verdicts computed and the rest left out: no crash,  *)
(* no lost race of a handler, one transaction of a sender's next nonce in  *)
(* the pool at a time.  All offer the same gas price, zero as the faucet   *)
(* does, so get_best may return them in any order.                         *)
(*                                                                         *)
(* No check looks further back than twice the velocity window, so only     *)
(* that many blocks are kept, by their age, and the height is counted no   *)
(* further than its guards compare it.                                     *)
(***************************************************************************)
EXTENDS Integers, FiniteSets, FiniteSetsExt

CONSTANTS
  Txs, Accounts,
  FromOf,           \* tx -> its sender
  NonceOf,          \* tx -> its nonce
  ToOf,             \* tx -> its recipient
  ValueOf,          \* tx -> its value
  GenesisBalance,   \* account -> its balance at genesis
  VelocityWindow,   \* VELOCITY_WINDOW_BLOCKS, 60
  HighVelocity,     \* HIGH_VELOCITY_THRESHOLD, 10
  ExtremeVelocity,  \* EXTREME_VELOCITY_THRESHOLD, 20
  DustValue,        \* DUST_WEI
  DustCount,        \* DUST_ATTACK_COUNT_THRESHOLD, 50
  RapidWindow,      \* RAPID_DRAIN_WINDOW_BLOCKS, 10
  RapidCount,       \* RAPID_DRAIN_TX_THRESHOLD, 5
  LargeValue,       \* new_wallet_large_tx, 1000 QYN
  RoundValues       \* 1, 10, ... 10^8 QYN

Depth == 2 * VelocityWindow

ASSUME FraudGateAssumption ==
  /\ FromOf \in [Txs -> Accounts] /\ ToOf \in [Txs -> Accounts]
  /\ NonceOf \in [Txs -> Nat] /\ ValueOf \in [Txs -> Nat]
  /\ GenesisBalance \in [Accounts -> Nat]
  /\ VelocityWindow \in Nat /\ HighVelocity \in Nat /\ ExtremeVelocity \in Nat
  /\ RapidWindow \in Nat /\ 1 <= RapidWindow /\ RapidWindow <= VelocityWindow
  /\ DustCount \in Nat \ {0} /\ RapidCount \in Nat \ {0}
  /\ DustValue \in Nat /\ LargeValue \in Nat /\ DustValue <= LargeValue
  /\ \A q \in RoundValues : q \in Nat /\ DustValue <= q

VARIABLES
  bal, nonce,  \* the state database
  recent,      \* age -> the transactions of that block, 1 for the head
  height,      \* the number of the head, as far as it is compared
  pool,        \* the mempool
  todo,        \* candidates still to be tried
  body,        \* to_apply
  pc           \* where the producer is: "asleep" or "loop"

state == <<bal, nonce>>
chain == <<recent, height>>
vars  == <<state, chain, pool, todo, body, pc>>

(* The type of every variable.                                             *)
TypeOK ==
  /\ bal \in [Accounts -> Nat] /\ nonce \in [Accounts -> Nat]
  /\ recent \in [1 .. Depth -> SUBSET Txs]
  /\ height \in 0 .. RapidWindow
  /\ pool \subseteq Txs /\ todo \subseteq Txs /\ body \subseteq Txs
  /\ pc \in {"asleep", "loop"}

Init ==
  /\ bal = GenesisBalance
  /\ nonce = [s \in Accounts |-> 0]
  /\ recent = [age \in 1 .. Depth |-> {}]
  /\ height = 0
  /\ pool = {} /\ todo = {} /\ body = {}
  /\ pc = "asleep"

-----------------------------------------------------------------------------
(* The checks of FraudDetector.  A transaction sent is a pair of the age   *)
(* of its block and itself.                                                *)

Balance(t) == bal[FromOf[t]]

(* Mutant: the window ends before the head.                                *)
SentBeforeHead(s, window) ==
  {p \in (2 .. window) \X Txs : p[2] \in recent[p[1]] /\ FromOf[p[2]] = s}

Sent(s, window) ==
  {p \in (1 .. window) \X Txs : p[2] \in recent[p[1]] /\ FromOf[p[2]] = s}

NewWalletLargeTransfer(t) == nonce[FromOf[t]] = 0 /\ ValueOf[t] >= LargeValue

TxCount(t) == Cardinality(Sent(FromOf[t], VelocityWindow))

IsExtremeVelocity(t) == height >= 1 /\ TxCount(t) > ExtremeVelocity

IsHighVelocity(t) ==
  height >= 1 /\ TxCount(t) > HighVelocity /\ ~ IsExtremeVelocity(t)

FullBalanceDrain(t) == Balance(t) > 0 /\ ValueOf[t] >= Balance(t)

(* Mutant: no return after the full drain, which is then counted twice.    *)
FullOrLargeDrain(t) == Balance(t) > 0 /\ ValueOf[t] * 100 >= Balance(t) * 80

LargeBalanceDrain(t) ==
  /\ Balance(t) > 0
  /\ ValueOf[t] < Balance(t)
  /\ ValueOf[t] * 100 >= Balance(t) * 80

RoundNumber(t) == ValueOf[t] > 0 /\ ValueOf[t] \in RoundValues

DustSent(t) == {p \in Sent(FromOf[t], Depth) : ValueOf[p[2]] < DustValue}

DustAttack(t) ==
  /\ ValueOf[t] < DustValue
  /\ height >= 1
  /\ Cardinality(DustSent(t)) >= DustCount

RapidSent(t) == Sent(FromOf[t], RapidWindow)

ValueSent(t) ==
  LET value == [p \in RapidSent(t) |-> ValueOf[p[2]]]
  IN  MapThenSumSet(LAMBDA p : value[p], DOMAIN value)

Drained(t) ==
  LET before == Balance(t) + ValueSent(t)
  IN  before > 0 /\ (ValueSent(t) * 100) \div before >= 50

RapidWalletDrain(t) ==
  /\ height >= RapidWindow
  /\ Cardinality(RapidSent(t)) >= RapidCount
  /\ Drained(t)

(* Both callers make a new detector, whose patterns are empty and whose    *)
(* rug-pull detector, where there is one, is given no profile, no balance  *)
(* and no supply and so finds nothing.                                     *)
Patterns == {}

SuspiciousRecipient(t) == ToOf[t] \in Patterns

Points(flag, points) == IF flag THEN points ELSE 0

Score(t) ==
  Points(NewWalletLargeTransfer(t), 25)
    + Points(IsExtremeVelocity(t), 40) + Points(IsHighVelocity(t), 20)
    + Points(FullBalanceDrain(t), 25) + Points(LargeBalanceDrain(t), 15)
    + Points(RoundNumber(t), 5)
    + Points(DustAttack(t), 30)
    + Points(RapidWalletDrain(t), 35)
    + Points(SuspiciousRecipient(t), 40)

(* get_recommendation with the default thresholds; "include" with a log or *)
(* without.  Scores above 100 are cut to 100, which is above 85.           *)
Reject(t) == Score(t) > 85

(* Mutant: a transaction to be included with a log is delayed.             *)
IncludeUnlogged(t) == Score(t) <= 30

Include(t) == Score(t) <= 60

-----------------------------------------------------------------------------
(* eth_sendRawTransaction and produce_block                                *)

(* Mutant: the balance is not compared with the cost.                      *)
NextNonce(t) == nonce[FromOf[t]] = NonceOf[t]

Valid(t) == Balance(t) >= ValueOf[t] /\ nonce[FromOf[t]] = NonceOf[t]

Submit(t) ==
  /\ Valid(t)
  /\ \A u \in pool : FromOf[u] # FromOf[t] \/ NonceOf[u] # NonceOf[t]
  /\ pool' = pool \cup {t}
  /\ UNCHANGED <<state, chain, todo, body, pc>>

Wake ==
  /\ pc = "asleep"
  /\ pc' = "loop"
  /\ todo' = pool
  /\ UNCHANGED <<state, chain, pool, body>>

Trying(t) == pc = "loop" /\ t \in todo

(* A transaction that is delayed, or not valid any more, waits in the pool.*)
Pass(t) ==
  /\ Trying(t)
  /\ Valid(t) => ~ Include(t) /\ ~ Reject(t)
  /\ todo' = todo \ {t}
  /\ UNCHANGED <<state, chain, pool, body, pc>>

RejectCritical(t) ==
  /\ Trying(t)
  /\ Valid(t)
  /\ Reject(t)
  /\ todo' = todo \ {t}
  /\ pool' = pool \ {t}
  /\ UNCHANGED <<state, chain, body, pc>>

(* The value moves unless the execution reverts.                           *)
Moved(t) ==
  [a \in Accounts |->
     bal[a] - Points(a = FromOf[t], ValueOf[t]) + Points(a = ToOf[t], ValueOf[t])]

(* Mutant: only an execution that succeeds uses its nonce.                 *)
ExecuteKeepingNonce(t) ==
  /\ Trying(t)
  /\ Valid(t)
  /\ Include(t)
  /\ \/ bal' = Moved(t) /\ nonce' = [nonce EXCEPT ![FromOf[t]] = @ + 1]
     \/ UNCHANGED state
  /\ todo' = todo \ {t}
  /\ body' = body \cup {t}
  /\ UNCHANGED <<chain, pool, pc>>

Execute(t) ==
  /\ Trying(t)
  /\ Valid(t)
  /\ Include(t)
  /\ bal' \in {bal, Moved(t)}
  /\ nonce' = [nonce EXCEPT ![FromOf[t]] = @ + 1]
  /\ todo' = todo \ {t}
  /\ body' = body \cup {t}
  /\ UNCHANGED <<chain, pool, pc>>

(* The block is built and accepted, and its transactions leave the pool.   *)
Seal ==
  /\ pc = "loop" /\ todo = {}
  /\ recent' = [age \in 1 .. Depth |-> IF age = 1 THEN body ELSE recent[age - 1]]
  /\ height' = IF height < RapidWindow THEN height + 1 ELSE height
  /\ pool' = pool \ body
  /\ body' = {}
  /\ pc' = "asleep"
  /\ UNCHANGED <<state, todo>>

Produce == Wake \/ Seal \/ \E t \in Txs : Pass(t) \/ RejectCritical(t) \/ Execute(t)

Next == Produce \/ \E t \in Txs : Submit(t)

Spec == Init /\ [][Next]_vars

(* The producer's loop runs for ever; nobody need submit anything.         *)
FairSpec == Spec /\ WF_vars(Produce)

-----------------------------------------------------------------------------
(* Properties                                                              *)

(* A wallet is new (check_new_wallet) only while no block has anything of  *)
(* it: the first check and the checks of history never both give points.   *)
NewWalletHasNoHistory ==
  \A t \in Txs : NewWalletLargeTransfer(t) =>
    /\ ~ IsHighVelocity(t) /\ ~ IsExtremeVelocity(t)
    /\ ~ DustAttack(t) /\ ~ RapidWalletDrain(t)

(* Without velocity and rapid drain the remaining checks stay below the    *)
(* threshold of a delay, whatever the transaction: whoever has sent        *)
(* nothing for a velocity window is neither delayed nor rejected, though   *)
(* dust is remembered for twice as long.                                   *)
QuietSenderIncluded ==
  \A t \in Txs : Sent(FromOf[t], VelocityWindow) = {} => Include(t)

(* Waiting helps: an empty block raises the score of no transaction, once  *)
(* the chain is as long as the window of the rapid drain, which is not     *)
(* looked at before.                                                       *)
EmptyBlockNeverRaises ==
  [][Seal /\ body = {} /\ height = RapidWindow
       => \A t \in Txs : Score(t)' <= Score(t)]_vars

(* So no transaction is delayed for ever: each is included or rejected.    *)
PooledDecided == \A t \in Txs : t \in pool ~> t \notin pool
=============================================================================
