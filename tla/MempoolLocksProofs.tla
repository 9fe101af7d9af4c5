------------------------- MODULE MempoolLocksProofs -------------------------
(***************************************************************************)
(* The two locks of the mempool make every insert, with its eviction loop, *)
(* and every remove one step of module Mempool, for any number of threads, *)
(* transactions and senders, any capacity and any gap.  The step is taken  *)
(* when the writer drops by_hash; the invariant Inv says what a writer has *)
(* done, in every place before that, to the maps it found.                 *)
(***************************************************************************)
EXTENDS MempoolLocks, FoldLemmas, FiniteSetTheorems, TLAPS

(* Module Mempool, and what is proved of it, on the maps its callers see.  *)
P == INSTANCE MempoolProofs WITH pool <- CallersPool, index <- CallersIndex

-----------------------------------------------------------------------------
(* The invariant.                                                          *)

Waiting == {"senderWrite", "hashWrite"}
Reading == {"hashRead", "lookup", "senderRead", "read", "snapshotRead",
            "snapshot"}
Places == {"idle", "release"} \cup Waiting \cup Writing \cup Reading

Kinds == {"none", "ok", "gap", "removed", "absent"}
Work == [old : SUBSET Txs, need : Int, evicted : Int, kind : Kinds]

LocksTyped ==
  /\ pc \in [Threads -> Places]
  /\ op \in [Threads -> OpNames \cup {"none"}]
  /\ arg \in [Threads -> Txs \cup {AnyTx}]
  /\ work \in [Threads -> Work]
  /\ calls \in [Threads -> Nat]
  /\ before \in [pool : SUBSET Txs, index : SUBSET Txs]

(* The writers that wait are inserts and removes of a transaction, and     *)
(* begin with fresh local variables.                                       *)
CallsBegun ==
  \A th \in Threads :
    /\ pc[th] \in Waiting => op[th] \in {"insert", "remove"}
    /\ pc[th] \in Waiting \cup Writing => arg[th] \in Txs
    /\ pc[th] \notin Writing \cup {"release"} => work[th] = NoWork

(* Who holds which lock is told by where the threads stand.                *)
LocksHeld ==
  /\ senderW = {th \in Threads : pc[th] \in Writing \cup {"hashWrite", "release"}}
  /\ hashW = {th \in Threads : pc[th] \in Writing}
  /\ senderR = {th \in Threads : pc[th] \in {"read", "snapshot"}}
  /\ hashR = {th \in Threads : pc[th] \in {"lookup", "senderRead", "read"}}

LocksExclude ==
  /\ \A th, tg \in senderW : th = tg
  /\ senderW # {} => senderR = {}
  /\ hashW # {} => hashR = {}

(* The local variables of an insert or a remove.                           *)
Local(old, need, evicted, kind) ==
  [old |-> old, need |-> need, evicted |-> evicted, kind |-> kind]

(* What the maps become with the transaction of the writer th.             *)
Grown(th) == P!Inserted(arg[th], before.pool)
GrownIndex(th) == (before.index \ P!Slot(arg[th], before.pool)) \cup {arg[th]}

Admitted(th) ==
  /\ arg[th] \notin before.index
  /\ ~ P!GapTooLarge(arg[th], before.pool)

Cheapest(p) == {s \in P!SendersIn(p) :
                  \A b \in P!SendersIn(p) : P!Fees(s, p) <= P!Fees(b, p)}

AtEntry(th) ==
  /\ pool = before.pool /\ index = before.index
  /\ work[th] = NoWork

AtReindex(th) ==
  /\ Admitted(th)
  /\ pool = Grown(th) /\ index = before.index
  /\ work[th] = Local(P!Slot(arg[th], before.pool), 0, 0, "ok")

AtEvict(th) ==
  /\ Admitted(th)
  /\ P!Overflow(Grown(th)) = 1
  /\ pool = Grown(th) /\ index = GrownIndex(th)
  /\ work[th] = Local({}, 1, 0, "ok")

AtUnindex(th) ==
  /\ Admitted(th)
  /\ P!Overflow(Grown(th)) = 1
  /\ index = GrownIndex(th)
  /\ \E s \in Cheapest(Grown(th)) :
       /\ pool = Grown(th) \ P!OfSender(s, Grown(th))
       /\ work[th] = Local(P!OfSender(s, Grown(th)), 1, 0, "ok")

AtUnslot(th) ==
  /\ arg[th] \in before.index
  /\ pool = before.pool /\ index = before.index \ {arg[th]}
  /\ work[th] = NoWork

(* The six answers, and what the maps are with each.                       *)
AnswersUnchanged(th) ==
  /\ pool = before.pool /\ index = before.index
  /\ \/ arg[th] \in before.index /\ work[th] = Local({}, 0, 0, "ok")
     \/ /\ arg[th] \notin before.index
        /\ P!GapTooLarge(arg[th], before.pool)
        /\ work[th] = Local({}, 0, 0, "gap")
     \/ arg[th] \notin before.index /\ work[th] = Local({}, 0, 0, "absent")

AnswersWithin(th) ==
  /\ Admitted(th)
  /\ P!Overflow(Grown(th)) <= 0
  /\ pool = Grown(th) /\ index = GrownIndex(th)
  /\ work[th] = Local({}, 0, 0, "ok")

AnswersEvicting(th) ==
  /\ Admitted(th)
  /\ P!Overflow(Grown(th)) = 1
  /\ \E s \in Cheapest(Grown(th)) :
       /\ pool = Grown(th) \ P!OfSender(s, Grown(th))
       /\ index = GrownIndex(th) \ P!LowestNonces(P!OfSender(s, Grown(th)), 1)
  /\ work[th] = Local({}, 0, 1, "ok")

AnswersRemoved(th) ==
  /\ arg[th] \in before.index
  /\ pool = before.pool \ P!Slot(arg[th], before.pool)
  /\ index = before.index \ {arg[th]}
  /\ work[th] = Local({}, 0, 0, "removed")

AtAnswer(th) ==
  \/ AnswersUnchanged(th)
  \/ AnswersWithin(th)
  \/ AnswersEvicting(th)
  \/ AnswersRemoved(th)

(* How far a writer is.                                                    *)
Progress(th) ==
  /\ pc[th] \in {"insert", "remove"} => AtEntry(th)
  /\ pc[th] = "reindex" => AtReindex(th)
  /\ pc[th] = "evict" => AtEvict(th)
  /\ pc[th] = "unindex" => AtUnindex(th)
  /\ pc[th] = "unslot" => AtUnslot(th)
  /\ pc[th] = "answer" => AtAnswer(th)

WritersProgress == \A th \in Threads : Progress(th)

LocksInv ==
  /\ LocksTyped
  /\ CallsBegun
  /\ LocksHeld
  /\ LocksExclude
  /\ WritersProgress

Inv == LocksInv /\ P!Inv

-----------------------------------------------------------------------------
(* Module Mempool stands here under three names: M on the maps as they     *)
(* are, Atomic and P on the maps the callers see.  What is not about the   *)
(* maps means the same under each.                                         *)

LEMMA SameCounts ==
  ASSUME NEW p
  PROVE  /\ M!Cardinality(p) = Cardinality(p)
         /\ P!Cardinality(p) = Cardinality(p)
         /\ Atomic!Cardinality(p) = Cardinality(p)
         /\ P!IsFiniteSet(p) = IsFiniteSet(p)
  BY DEF M!Cardinality, P!Cardinality, Atomic!Cardinality, Cardinality,
         P!IsFiniteSet, IsFiniteSet

LEMMA SameFees ==
  ASSUME NEW s, NEW p
  PROVE  M!Fees(s, p) = P!Fees(s, p) /\ Atomic!Fees(s, p) = P!Fees(s, p)
  BY DEF M!Fees, P!Fees, Atomic!Fees,
         M!OfSender, P!OfSender, Atomic!OfSender,
         M!MapThenSumSet, P!MapThenSumSet, Atomic!MapThenSumSet,
         M!MapThenFoldSet, P!MapThenFoldSet, Atomic!MapThenFoldSet

LEMMA SameOnAnyPool ==
  ASSUME NEW p
  PROVE  /\ \A t : M!Inserted(t, p) = P!Inserted(t, p)
         /\ \A t : M!Slot(t, p) = P!Slot(t, p)
         /\ \A t : M!GapTooLarge(t, p) = P!GapTooLarge(t, p)
         /\ \A s : M!OfSender(s, p) = P!OfSender(s, p)
         /\ \A k : M!LowestNonces(p, k) = P!LowestNonces(p, k)
         /\ M!SendersIn(p) = P!SendersIn(p)
         /\ M!Overflow(p) = P!Overflow(p)
         /\ P!Overflow(p) = Cardinality(p) - MaxSize
<1>1. M!Overflow(p) = P!Overflow(p) /\ P!Overflow(p) = Cardinality(p) - MaxSize
  BY SameCounts DEF M!Overflow, P!Overflow
<1>2. \A k : M!LowestNonces(p, k) = P!LowestNonces(p, k)
  BY SameCounts DEF M!LowestNonces, P!LowestNonces
<1>3. \A t : M!Slot(t, p) = P!Slot(t, p)
  BY DEF M!Slot, P!Slot, M!SameSlot, P!SameSlot
<1>4. \A s : M!OfSender(s, p) = P!OfSender(s, p)
  BY DEF M!OfSender, P!OfSender
<1>5. \A t : M!GapTooLarge(t, p) = P!GapTooLarge(t, p)
  BY <1>4 DEF M!GapTooLarge, P!GapTooLarge
<1>6. M!SendersIn(p) = P!SendersIn(p)
  BY DEF M!SendersIn, P!SendersIn
<1>7. QED
  BY <1>1, <1>2, <1>3, <1>4, <1>5, <1>6 DEF M!Inserted, P!Inserted

(* A step of P is a step of Atomic.                                        *)
LEMMA SameSteps == [P!Next]_(P!vars) => [Atomic!Next]_(Atomic!vars)
<1>1. ASSUME NEW t, NEW p
      PROVE  /\ P!Inserted(t, p) = Atomic!Inserted(t, p)
             /\ P!Slot(t, p) = Atomic!Slot(t, p)
             /\ P!GapTooLarge(t, p) = Atomic!GapTooLarge(t, p)
             /\ P!SendersIn(p) = Atomic!SendersIn(p)
             /\ P!Overflow(p) = Atomic!Overflow(p)
             /\ P!IndexWith(t) = Atomic!IndexWith(t)
  BY SameCounts
  DEF P!Inserted, P!Slot, P!SameSlot, P!GapTooLarge, P!OfSender, P!SendersIn,
      P!Overflow, P!IndexWith, Atomic!Inserted, Atomic!Slot, Atomic!SameSlot,
      Atomic!GapTooLarge, Atomic!OfSender, Atomic!SendersIn, Atomic!Overflow,
      Atomic!IndexWith
<1>2. ASSUME NEW S, NEW last, NEW p
      PROVE  P!CheapestFirst(S, last, p) = Atomic!CheapestFirst(S, last, p)
  BY <1>1, SameFees DEF P!CheapestFirst, Atomic!CheapestFirst
<1>3. ASSUME NEW S, NEW last, NEW p, NEW need
      PROVE  /\ P!StopsAt(S, last, p, need) = Atomic!StopsAt(S, last, p, need)
             /\ P!Evicted(S, last, p, need) = Atomic!Evicted(S, last, p, need)
             /\ P!Unindexed(S, last, p, need) = Atomic!Unindexed(S, last, p, need)
  BY SameCounts
  DEF P!StopsAt, P!Evicted, P!Unindexed, P!OfSenders, P!OfSender,
      P!LowestNonces, Atomic!StopsAt, Atomic!Evicted, Atomic!Unindexed,
      Atomic!OfSenders, Atomic!OfSender, Atomic!LowestNonces
<1>4. ASSUME NEW t PROVE P!InsertEvicting(t) = Atomic!InsertEvicting(t)
  BY <1>1, <1>2, <1>3
  DEF P!InsertEvicting, P!Accepts, P!Answer,
      Atomic!InsertEvicting, Atomic!Accepts, Atomic!Answer
<1>5. ASSUME NEW t
      PROVE  /\ P!InsertDuplicate(t) = Atomic!InsertDuplicate(t)
             /\ P!InsertGap(t) = Atomic!InsertGap(t)
             /\ P!InsertWithin(t) = Atomic!InsertWithin(t)
             /\ P!Remove(t) = Atomic!Remove(t)
  BY <1>1
  DEF P!InsertDuplicate, P!InsertGap, P!InsertWithin, P!Remove, P!Accepts,
      P!Answer, Atomic!InsertDuplicate, Atomic!InsertGap,
      Atomic!InsertWithin, Atomic!Remove, Atomic!Accepts, Atomic!Answer
<1>6. QED
  BY <1>4, <1>5 DEF P!Next, P!Insert, P!vars, Atomic!Next, Atomic!Insert, Atomic!vars

-----------------------------------------------------------------------------
(* What every step needs.                                                  *)

(* A thread that writes is the only one to hold by_sender to write, and    *)
(* nobody reads.                                                           *)
LEMMA OneWriter ==
  ASSUME LocksInv, NEW th \in Threads, pc[th] \in Writing
  PROVE  /\ \A tg \in Threads :
              pc[tg] \in Writing \cup {"hashWrite", "release"} => tg = th
         /\ senderW = {th} /\ hashW = {th} /\ senderR = {} /\ hashR = {}
         /\ CallersPool = before.pool
         /\ CallersIndex = before.index
<1>1. th \in senderW /\ th \in hashW
  BY DEF LocksInv, LocksHeld
<1>2. senderW = {th} /\ hashW \subseteq senderW
  BY <1>1 DEF LocksInv, LocksExclude, LocksHeld
<1>3. \A tg \in Threads :
        pc[tg] \in Writing \cup {"hashWrite", "release"} => tg = th
  BY <1>2 DEF LocksInv, LocksHeld
<1>4. QED
  BY <1>1, <1>2, <1>3 DEF LocksInv, LocksExclude, CallersPool, CallersIndex, InProgress

(* The local variables are set one after the other.                        *)
LEMMA SetOld ==
  ASSUME NEW w \in Work, NEW x \in SUBSET Txs, NEW v, v = [w EXCEPT !.old = x]
  PROVE  /\ v \in Work /\ v = Local(x, w.need, w.evicted, w.kind)
         /\ v.old = x /\ v.need = w.need
         /\ v.evicted = w.evicted /\ v.kind = w.kind
<1>1. v = Local(x, w.need, w.evicted, w.kind)
  BY DEF Work, Local
<1>2. Local(x, w.need, w.evicted, w.kind) \in Work
  BY DEF Local, Work
<1>3. QED
  BY <1>1, <1>2 DEF Local

LEMMA SetOldKind ==
  ASSUME NEW w \in Work, NEW x \in SUBSET Txs, NEW z
  PROVE  [w EXCEPT !.old = x, !.kind = z] = Local(x, w.need, w.evicted, z)
<1> DEFINE v == [w EXCEPT !.old = x]
<1>1. /\ v \in Work /\ v.old = x /\ v.need = w.need
      /\ v.evicted = w.evicted /\ v.kind = w.kind
  BY SetOld
<1> HIDE DEF v
<1>2. [v EXCEPT !.kind = z] = Local(x, w.need, w.evicted, z)
  BY <1>1 DEF Work, Local
<1>3. QED
  BY <1>2 DEF v

LEMMA SetOldNeed ==
  ASSUME NEW w \in Work, NEW x \in SUBSET Txs, NEW y \in Int
  PROVE  [w EXCEPT !.old = x, !.need = y] = Local(x, y, w.evicted, w.kind)
<1> DEFINE v == [w EXCEPT !.old = x]
<1>1. /\ v \in Work /\ v.old = x /\ v.need = w.need
      /\ v.evicted = w.evicted /\ v.kind = w.kind
  BY SetOld, Zenon
<1> HIDE DEF v
<1>2. [v EXCEPT !.need = y] = Local(x, y, w.evicted, w.kind)
  BY <1>1 DEF Work, Local
<1>3. QED
  BY <1>2 DEF v

LEMMA SetOldNeedEvicted ==
  ASSUME NEW w \in Work, NEW x \in SUBSET Txs, NEW y \in Int, NEW z
  PROVE  [w EXCEPT !.old = x, !.need = y, !.evicted = z] = Local(x, y, z, w.kind)
<1> DEFINE u == [w EXCEPT !.old = x, !.need = y]
<1>1. u = Local(x, y, w.evicted, w.kind)
  BY SetOldNeed, Zenon
<1>2. Local(x, y, w.evicted, w.kind) \in Work
  BY DEF Local, Work
<1> HIDE DEF u
<1>3. u \in Work /\ u.old = x /\ u.need = y /\ u.kind = w.kind
  BY <1>1, <1>2 DEF Local
<1>4. [u EXCEPT !.evicted = z] = Local(x, y, z, w.kind)
  BY <1>3 DEF Work, Local
<1>5. QED
  BY <1>4 DEF u

LEMMA LocalOfNone ==
  ASSUME NEW x
  PROVE  [NoWork EXCEPT !.kind = x] = Local({}, 0, 0, x)
  BY DEF NoWork, Local

LEMMA LocalsOfNone ==
  ASSUME NEW x \in SUBSET Txs, NEW z
  PROVE  [NoWork EXCEPT !.old = x, !.kind = z] = Local(x, 0, 0, z)
<1>1. NoWork \in Work /\ NoWork.need = 0 /\ NoWork.evicted = 0
  BY DEF NoWork, Work, Kinds
<1>2. [NoWork EXCEPT !.old = x, !.kind = z]
        = Local(x, NoWork.need, NoWork.evicted, z)
  BY <1>1, SetOldKind, Zenon
<1>3. QED
  BY <1>1, <1>2, Zenon

(* One thread's local variables are written.                               *)
LEMMA WorkWritten ==
  ASSUME LocksInv, NEW th \in Threads, NEW w \in Work,
         work' = [work EXCEPT ![th] = w]
  PROVE  /\ work' \in [Threads -> Work]
         /\ \A tg \in Threads \ {th} : work'[tg] = work[tg]
         /\ work'[th] = w
  BY DEF LocksInv, LocksTyped

(* A writer that goes on writing changes nothing a caller sees, and keeps  *)
(* the invariant if it makes the progress its new place stands for.        *)
LEMMA WriterMoves ==
  ASSUME LocksInv, NEW th \in Threads, pc[th] \in Writing,
         NEW place \in Writing, pc' = [pc EXCEPT ![th] = place],
         UNCHANGED <<op, arg, calls, reply, locks, before>>,
         work' \in [Threads -> Work],
         \A tg \in Threads \ {th} : work'[tg] = work[tg],
         Progress(th)'
  PROVE  LocksInv' /\ UNCHANGED P!vars
<1>1. /\ pc'[th] = place
      /\ \A tg \in Threads \ {th} : pc'[tg] = pc[tg]
  BY DEF LocksInv, LocksTyped
<1>2. LocksTyped'
  BY DEF LocksInv, LocksTyped, Places
<1>3. CallsBegun'
  BY <1>1 DEF LocksInv, CallsBegun, Writing, Waiting
<1>4. LocksHeld'
  BY <1>1 DEF LocksInv, LocksHeld, locks, Writing
<1>5. LocksExclude'
  BY DEF LocksInv, LocksExclude, locks
<1>6. WritersProgress'
  <2>1. \A tg \in Threads \ {th} : pc'[tg] \notin Writing
    BY <1>1, OneWriter
  <2>2. \A tg \in Threads \ {th} : Progress(tg)'
    BY <2>1 DEF Progress, Writing
  <2>3. QED
    BY <2>2 DEF WritersProgress
<1>7. UNCHANGED P!vars
  BY <1>1 DEF P!vars, CallersPool, CallersIndex, InProgress
<1>8. QED
  BY <1>2, <1>3, <1>4, <1>5, <1>6, <1>7 DEF LocksInv

(* A step of a thread that does not write, before or after it.             *)
LEMMA OthersMove ==
  ASSUME LocksInv, NEW th \in Threads, pc[th] \notin Writing,
         NEW place \in Places \ Writing, pc' = [pc EXCEPT ![th] = place],
         UNCHANGED <<pool, index, reply, before>>,
         \A tg \in Threads \ {th} : arg'[tg] = arg[tg] /\ work'[tg] = work[tg]
  PROVE  /\ WritersProgress' /\ UNCHANGED P!vars
         /\ pc'[th] = place
         /\ \A tg \in Threads \ {th} : pc'[tg] = pc[tg]
<1>1. /\ pc'[th] = place
      /\ \A tg \in Threads \ {th} : pc'[tg] = pc[tg]
  BY DEF LocksInv, LocksTyped
<1>2. \A tg \in Threads \ {th} : Progress(tg)'
  <2> TAKE tg \in Threads \ {th}
  <2>1. Progress(tg) /\ pc'[tg] = pc[tg] /\ arg'[tg] = arg[tg] /\ work'[tg] = work[tg]
    BY <1>1 DEF LocksInv, WritersProgress
  <2>2. QED
    BY <2>1
    DEF Progress, AtEntry, AtReindex, AtEvict, AtUnindex, AtUnslot, AtAnswer,
        AnswersUnchanged, AnswersWithin, AnswersEvicting, AnswersRemoved,
        Admitted, Grown, GrownIndex, Cheapest, Local
<1>3. Progress(th)'
  BY <1>1 DEF Progress, Writing
<1>4. UNCHANGED P!vars
  BY <1>1 DEF P!vars, CallersPool, CallersIndex, InProgress
<1>5. QED
  BY <1>1, <1>2, <1>3, <1>4 DEF WritersProgress

-----------------------------------------------------------------------------
(* The transactions of a writer.                                           *)

(* Of a sender with one transaction to a nonce, exactly one is the first.  *)
LEMMA FirstOfSender ==
  ASSUME NEW p, p \subseteq Txs, IsFiniteSet(p),
         \A t, u \in p : P!SameSlot(t, u) => t = u,
         NEW s \in P!SendersIn(p)
  PROVE  Cardinality(P!LowestNonces(P!OfSender(s, p), 1)) = 1
<1> DEFINE own == P!OfSender(s, p)
           Below(t) == {u \in own : NonceOf[u] < NonceOf[t]}
<1>1. own \subseteq p /\ own # {} /\ IsFiniteSet(own)
  <2>1. own \subseteq p /\ own # {}
    BY DEF P!OfSender, P!SendersIn
  <2>2. QED
    BY <2>1, FS_Subset
<1>2. {NonceOf[t] : t \in own} \subseteq Nat /\ {NonceOf[t] : t \in own} # {}
  BY <1>1, LocksAssumption
<1>3. PICK first \in own : \A u \in own : NonceOf[first] <= NonceOf[u]
  <2>1. PICK low \in {NonceOf[t] : t \in own} :
          \A n \in {NonceOf[t] : t \in own} : low <= n
    BY <1>2, LeastOfNaturals
  <2>2. QED
    BY <2>1
<1>4. \A t \in own : Below(t) = {} <=> t = first
  <2> TAKE t \in own
  <2>1. \A u \in own : NonceOf[u] \in Nat /\ SenderOf[u] = s
    BY <1>1, LocksAssumption DEF P!OfSender
  <2>2. t # first => NonceOf[first] # NonceOf[t]
    BY <1>1, <2>1 DEF P!SameSlot
  <2>3. QED
    BY <1>3, <2>1, <2>2
<1>5. \A t \in own : Cardinality(Below(t)) < 1 <=> Below(t) = {}
  <2> TAKE t \in own
  <2>1. IsFiniteSet(Below(t))
    BY <1>1, FS_Subset
  <2>2. Cardinality(Below(t)) \in Nat /\ (Cardinality(Below(t)) = 0 <=> Below(t) = {})
    BY <2>1, FS_CardinalityType, FS_EmptySet
  <2>3. QED
    BY <2>2
<1>6. P!LowestNonces(own, 1) = {first}
  BY <1>3, <1>4, <1>5, SameCounts DEF P!LowestNonces
<1>7. QED
  BY <1>6, FS_Singleton

(* A writer found a pool within its bounds, so its transaction brings it   *)
(* one over the capacity at most.                                          *)
LEMMA WriterFound ==
  ASSUME Inv, NEW th \in Threads, pc[th] \in Writing
  PROVE  /\ arg[th] \in Txs
         /\ before.pool \subseteq Txs /\ before.index \subseteq Txs
         /\ Grown(th) \subseteq Txs /\ IsFiniteSet(Grown(th))
         /\ \A t, u \in Grown(th) : P!SameSlot(t, u) => t = u
         /\ P!Overflow(Grown(th)) \in Int /\ P!Overflow(Grown(th)) <= 1
<1> DEFINE p == before.pool
<1>1. CallersPool = before.pool /\ arg[th] \in Txs
  BY OneWriter DEF Inv, LocksInv, CallsBegun
<1>2. /\ p \subseteq Txs /\ IsFiniteSet(p)
      /\ \A t, u \in p : P!SameSlot(t, u) => t = u
      /\ Cardinality(p) <= MaxSize
  BY <1>1, SameCounts
  DEF Inv, P!Inv, P!TypeOK, P!OneTxPerNonce, P!Bounded
<1>3. Cardinality(p) \in Nat
  BY <1>2, FS_CardinalityType
<1>4. /\ Grown(th) \subseteq Txs /\ IsFiniteSet(Grown(th))
      /\ Cardinality(Grown(th)) \in Nat
      /\ Cardinality(Grown(th)) <= Cardinality(p) + 1
      /\ \A t, u \in Grown(th) : P!SameSlot(t, u) => t = u
  BY <1>1, <1>2, SameCounts, LocksAssumption, P!InsertedFacts
  DEF Grown, P!MempoolAssumption
<1>5. before.index \subseteq Txs
  BY DEF Inv, LocksInv, LocksTyped
<1>6. QED
  BY <1>1, <1>2, <1>3, <1>4, <1>5, SameOnAnyPool, LocksAssumption

-----------------------------------------------------------------------------
(* The steps of a writer that has both locks.                              *)

LEMMA InsertRefusedStep ==
  ASSUME Inv, NEW th \in Threads, InsertRefused(th)
  PROVE  LocksInv' /\ UNCHANGED P!vars
<1> DEFINE kind == IF arg[th] \in index THEN "ok" ELSE "gap"
<1>1. pc[th] \in Writing /\ pc[th] = "insert"
  BY DEF InsertRefused, Writing
<1>2. AtEntry(th)
  BY <1>1 DEF Inv, LocksInv, WritersProgress, Progress
<1>3. /\ pc' = [pc EXCEPT ![th] = "answer"] /\ "answer" \in Writing
      /\ UNCHANGED <<pool, index, op, arg, calls, reply, locks, before>>
      /\ work' = [work EXCEPT ![th].kind = kind]
  BY DEF InsertRefused, Goto, Writing
<1>4. kind \in Kinds /\ kind = IF arg[th] \in index THEN "ok" ELSE "gap"
  BY DEF Kinds
<1> HIDE DEF kind
<1>5. /\ work' \in [Threads -> Work]
      /\ \A tg \in Threads \ {th} : work'[tg] = work[tg]
      /\ work'[th] = Local({}, 0, 0, kind)
  <2>1. [work[th] EXCEPT !.kind = kind] = Local({}, 0, 0, kind)
    BY <1>2, LocalOfNone DEF AtEntry
  <2>2. Local({}, 0, 0, kind) \in Work
    BY <1>4 DEF Local, Work
  <2>3. work' = [work EXCEPT ![th] = Local({}, 0, 0, kind)]
    BY <1>3, <2>1
  <2>4. QED
    BY <2>2, <2>3, WorkWritten DEF Inv
<1>6. arg[th] \in index \/ M!GapTooLarge(arg[th], pool)
  BY DEF InsertRefused, M!Accepts
<1>7. arg[th] \in index \/ P!GapTooLarge(arg[th], pool)
  BY <1>6, SameOnAnyPool
<1>8. AnswersUnchanged(th)'
  BY <1>2, <1>3, <1>4, <1>5, <1>7 DEF AnswersUnchanged, AtEntry
<1>9. Progress(th)'
  BY <1>3, <1>8 DEF Progress, AtAnswer, Inv, LocksInv, LocksTyped
<1>10. QED
  BY <1>1, <1>3, <1>5, <1>9, WriterMoves DEF Inv

LEMMA InsertSlotStep ==
  ASSUME Inv, NEW th \in Threads, InsertSlot(th)
  PROVE  LocksInv' /\ UNCHANGED P!vars
<1> DEFINE own == P!Slot(arg[th], pool)
<1>1. pc[th] \in Writing /\ pc[th] = "insert"
  BY DEF InsertSlot, Writing
<1>2. AtEntry(th)
  BY <1>1 DEF Inv, LocksInv, WritersProgress, Progress
<1>3. /\ pc' = [pc EXCEPT ![th] = "reindex"] /\ "reindex" \in Writing
      /\ UNCHANGED <<index, op, arg, calls, reply, locks, before>>
      /\ pool' = P!Inserted(arg[th], pool)
      /\ work' = [work EXCEPT ![th] = [@ EXCEPT !.old = own, !.kind = "ok"]]
  BY SameOnAnyPool DEF InsertSlot, Goto, Writing
<1>4. own \in SUBSET Txs
  BY <1>1, <1>2, WriterFound DEF AtEntry, P!Slot
<1> HIDE DEF own
<1>5. /\ work' \in [Threads -> Work]
      /\ \A tg \in Threads \ {th} : work'[tg] = work[tg]
      /\ work'[th] = Local(own, 0, 0, "ok")
  <2>1. [work[th] EXCEPT !.old = own, !.kind = "ok"] = Local(own, 0, 0, "ok")
    BY <1>2, <1>4, LocalsOfNone DEF AtEntry
  <2>2. Local(own, 0, 0, "ok") \in Work
    BY <1>4 DEF Local, Work, Kinds
  <2>3. work' = [work EXCEPT ![th] = Local(own, 0, 0, "ok")]
    BY <1>3, <2>1
  <2>4. QED
    BY <2>2, <2>3, WorkWritten DEF Inv
<1>6. M!Accepts(arg[th])
  BY DEF InsertSlot
<1>7. arg[th] \notin index /\ ~ P!GapTooLarge(arg[th], pool)
  BY <1>6, SameOnAnyPool DEF M!Accepts
<1>8. AtReindex(th)'
  BY <1>2, <1>3, <1>5, <1>7 DEF AtReindex, Admitted, Grown, AtEntry, own
<1>9. Progress(th)'
  BY <1>3, <1>8 DEF Progress, Inv, LocksInv, LocksTyped
<1>10. QED
  BY <1>1, <1>3, <1>5, <1>9, WriterMoves DEF Inv

LEMMA InsertHashStep ==
  ASSUME Inv, NEW th \in Threads, InsertHash(th)
  PROVE  LocksInv' /\ UNCHANGED P!vars
<1> DEFINE over == P!Overflow(pool)
           place == IF over > 0 THEN "evict" ELSE "answer"
           need == IF over > 0 THEN over ELSE 0
<1>1. pc[th] \in Writing /\ pc[th] = "reindex"
  BY DEF InsertHash, Writing
<1>2. AtReindex(th)
  BY <1>1 DEF Inv, LocksInv, WritersProgress, Progress
<1>3. /\ pc' = [pc EXCEPT ![th] = place] /\ place \in Writing
      /\ UNCHANGED <<pool, op, arg, calls, reply, locks, before>>
      /\ index' = (index \ work[th].old) \cup {arg[th]}
      /\ work' = [work EXCEPT ![th] = [@ EXCEPT !.old = {}, !.need = need]]
  BY SameOnAnyPool DEF InsertHash, Goto, Writing
<1>4. over \in Int /\ over <= 1 /\ pool = Grown(th)
  BY <1>1, <1>2, WriterFound DEF AtReindex
<1>5. \/ over = 1 /\ need = 1 /\ place = "evict"
      \/ over <= 0 /\ need = 0 /\ place = "answer"
  BY <1>4
<1>6. over = P!Overflow(Grown(th))
  BY <1>4
<1> HIDE DEF over, need, place
<1>7. /\ work' \in [Threads -> Work]
      /\ \A tg \in Threads \ {th} : work'[tg] = work[tg]
      /\ work'[th] = Local({}, need, 0, "ok")
  <2>1. [work[th] EXCEPT !.old = {}, !.need = need] = Local({}, need, 0, "ok")
    <3>1. /\ work[th].evicted = 0 /\ work[th].kind = "ok"
          /\ work[th] \in Work
      BY <1>2 DEF AtReindex, Local, Inv, LocksInv, LocksTyped
    <3>2. need \in Int
      BY <1>5
    <3>3. [work[th] EXCEPT !.old = {}, !.need = need]
            = Local({}, need, work[th].evicted, work[th].kind)
      BY <3>1, <3>2, SetOldNeed, Zenon
    <3>4. QED
      BY <3>1, <3>3, Zenon
  <2>2. Local({}, need, 0, "ok") \in Work
    BY <1>5 DEF Local, Work, Kinds
  <2>3. work' = [work EXCEPT ![th] = Local({}, need, 0, "ok")]
    BY <1>3, <2>1
  <2>4. QED
    BY <2>2, <2>3, WorkWritten DEF Inv
<1>8. index' = GrownIndex(th)
  BY <1>2, <1>3 DEF AtReindex, GrownIndex, Local
<1>9. UNCHANGED <<Grown(th), GrownIndex(th), Admitted(th)>>
  BY <1>3 DEF Grown, GrownIndex, Admitted
<1>10. CASE over = 1 /\ need = 1 /\ place = "evict"
  <2>1. AtEvict(th)'
    BY <1>2, <1>3, <1>4, <1>6, <1>7, <1>8, <1>9, <1>10 DEF AtEvict, AtReindex
  <2>2. Progress(th)'
    BY <1>3, <1>10, <2>1 DEF Progress, Inv, LocksInv, LocksTyped
  <2>3. QED
    BY <1>1, <1>3, <1>7, <2>2, WriterMoves DEF Inv
<1>11. CASE over <= 0 /\ need = 0 /\ place = "answer"
  <2>1. AnswersWithin(th)'
    BY <1>2, <1>3, <1>4, <1>6, <1>7, <1>8, <1>9, <1>11
    DEF AnswersWithin, AtReindex
  <2>2. Progress(th)'
    BY <1>3, <1>11, <2>1 DEF Progress, AtAnswer, Inv, LocksInv, LocksTyped
  <2>3. QED
    BY <1>1, <1>3, <1>7, <2>2, WriterMoves DEF Inv
<1>12. QED
  BY <1>5, <1>10, <1>11

LEMMA EvictSenderStep ==
  ASSUME Inv, NEW th \in Threads, EvictSender(th)
  PROVE  LocksInv' /\ UNCHANGED P!vars
<1>1. pc[th] \in Writing /\ pc[th] = "evict"
  BY DEF EvictSender, Writing
<1>2. AtEvict(th)
  BY <1>1 DEF Inv, LocksInv, WritersProgress, Progress
<1>3. PICK s \in M!SendersIn(pool) :
        /\ \A b \in M!SendersIn(pool) : M!Fees(s, pool) <= M!Fees(b, pool)
        /\ pool' = pool \ M!OfSender(s, pool)
        /\ work' = [work EXCEPT ![th].old = M!OfSender(s, pool)]
  BY DEF EvictSender
<1> DEFINE own == P!OfSender(s, Grown(th))
<1>4. /\ s \in Cheapest(Grown(th))
      /\ pool' = Grown(th) \ own
      /\ work' = [work EXCEPT ![th].old = own]
  BY <1>2, <1>3, SameOnAnyPool, SameFees DEF Cheapest, AtEvict
<1>5. /\ pc' = [pc EXCEPT ![th] = "unindex"] /\ "unindex" \in Writing
      /\ UNCHANGED <<index, op, arg, calls, reply, locks, before>>
  BY DEF EvictSender, Goto, Writing
<1>6. own \in SUBSET Txs
  BY <1>1, WriterFound DEF P!OfSender
<1> HIDE DEF own
<1>7. /\ work' \in [Threads -> Work]
      /\ \A tg \in Threads \ {th} : work'[tg] = work[tg]
      /\ work'[th] = Local(own, 1, 0, "ok")
  <2>1. /\ work[th].need = 1 /\ work[th].evicted = 0 /\ work[th].kind = "ok"
        /\ work[th] \in Work
    BY <1>2 DEF AtEvict, Local, Inv, LocksInv, LocksTyped
  <2>2. [work[th] EXCEPT !.old = own]
          = Local(own, work[th].need, work[th].evicted, work[th].kind)
    BY <1>6, <2>1 DEF Work, Local
  <2>3. Local(own, 1, 0, "ok") \in Work
    BY <1>6 DEF Local, Work, Kinds
  <2>4. work' = [work EXCEPT ![th] = Local(own, 1, 0, "ok")]
    BY <1>4, <2>1, <2>2
  <2>5. QED
    BY <2>3, <2>4, WorkWritten DEF Inv
<1>8. UNCHANGED <<Grown(th), GrownIndex(th), Admitted(th)>>
  BY <1>5 DEF Grown, GrownIndex, Admitted
<1>9. AtUnindex(th)'
  <2>1. \E r \in Cheapest(Grown(th)) :
          /\ pool' = Grown(th) \ P!OfSender(r, Grown(th))
          /\ work'[th] = Local(P!OfSender(r, Grown(th)), 1, 0, "ok")
    BY <1>4, <1>7 DEF own
  <2>2. QED
    BY <1>2, <1>5, <1>8, <2>1 DEF AtUnindex, AtEvict
<1>10. Progress(th)'
  BY <1>5, <1>9 DEF Progress, Inv, LocksInv, LocksTyped
<1>11. QED
  BY <1>1, <1>5, <1>7, <1>10, WriterMoves DEF Inv

(* The loop is done after one turn: the sender has a hash to count, and    *)
(* one is all that is needed.                                              *)
LEMMA EvictHashesStep ==
  ASSUME Inv, NEW th \in Threads, EvictHashes(th)
  PROVE  LocksInv' /\ UNCHANGED P!vars
<1>1. pc[th] \in Writing /\ pc[th] = "unindex"
  BY DEF EvictHashes, Writing
<1>2. AtUnindex(th)
  BY <1>1 DEF Inv, LocksInv, WritersProgress, Progress
<1>3. PICK s \in Cheapest(Grown(th)) :
        /\ pool = Grown(th) \ P!OfSender(s, Grown(th))
        /\ work[th] = Local(P!OfSender(s, Grown(th)), 1, 0, "ok")
  BY <1>2 DEF AtUnindex
<1> DEFINE gone == P!LowestNonces(P!OfSender(s, Grown(th)), 1)
<1>4. work[th].old = P!OfSender(s, Grown(th)) /\ work[th].need = 1
      /\ work[th].evicted = 0 /\ work[th].kind = "ok" /\ work[th] \in Work
  BY <1>3 DEF Local, Inv, LocksInv, LocksTyped
<1> DEFINE counted == M!LowestNonces(work[th].old, work[th].need)
           left == work[th].need - Cardinality(counted)
           evicted == work[th].evicted + Cardinality(counted)
<1>5. counted = gone
  BY <1>4, SameOnAnyPool
<1>6. Cardinality(gone) = 1
  BY <1>1, <1>3, WriterFound, FirstOfSender DEF Cheapest
<1>left. left = 0 /\ evicted = 1
  BY <1>4, <1>5, <1>6
<1>step. /\ pc' = [pc EXCEPT ![th] = IF left > 0 /\ pool # {} THEN "evict" ELSE "answer"]
         /\ UNCHANGED <<pool, op, arg, calls, reply, locks, before>>
         /\ index' = index \ counted
         /\ work' = [work EXCEPT ![th] =
                       [@ EXCEPT !.old = {}, !.need = left, !.evicted = evicted]]
  BY DEF EvictHashes, Goto
<1> HIDE DEF gone, counted, left, evicted
<1>7. /\ pc' = [pc EXCEPT ![th] = "answer"] /\ "answer" \in Writing
      /\ UNCHANGED <<pool, op, arg, calls, reply, locks, before>>
      /\ index' = index \ gone
  BY <1>5, <1>left, <1>step DEF Writing
<1>8. /\ work' \in [Threads -> Work]
      /\ \A tg \in Threads \ {th} : work'[tg] = work[tg]
      /\ work'[th] = Local({}, 0, 1, "ok")
  <2>1. left \in Int
    BY <1>left
  <2>2. [work[th] EXCEPT !.old = {}, !.need = left, !.evicted = evicted]
          = Local({}, left, evicted, work[th].kind)
    <3>1. work[th] \in Work
      BY <1>4
    <3>2. {} \in SUBSET Txs
      OBVIOUS
    <3>3. QED
      BY <2>1, <3>1, <3>2, SetOldNeedEvicted, ZenonT(60)
  <2>3. Local({}, left, evicted, work[th].kind) = Local({}, 0, 1, "ok")
    BY <1>4, <1>left
  <2>4. Local({}, 0, 1, "ok") \in Work
    BY DEF Local, Work, Kinds
  <2>5. work' = [work EXCEPT ![th] = Local({}, 0, 1, "ok")]
    BY <1>step, <2>2, <2>3
  <2>6. QED
    BY <2>4, <2>5, WorkWritten DEF Inv
<1>9. UNCHANGED <<Grown(th), GrownIndex(th), Admitted(th)>>
  BY <1>7 DEF Grown, GrownIndex, Admitted
<1>10. AnswersEvicting(th)'
  <2>1. \E r \in Cheapest(Grown(th)) :
          /\ pool' = Grown(th) \ P!OfSender(r, Grown(th))
          /\ index' = GrownIndex(th)
                        \ P!LowestNonces(P!OfSender(r, Grown(th)), 1)
    BY <1>2, <1>3, <1>7 DEF AtUnindex, gone
  <2>2. QED
    BY <1>2, <1>8, <1>9, <2>1 DEF AnswersEvicting, AtUnindex
<1>11. Progress(th)'
  BY <1>7, <1>10 DEF Progress, AtAnswer, Inv, LocksInv, LocksTyped
<1>12. QED
  BY <1>1, <1>7, <1>8, <1>11, WriterMoves DEF Inv

LEMMA RemoveHashStep ==
  ASSUME Inv, NEW th \in Threads, RemoveHash(th)
  PROVE  LocksInv' /\ UNCHANGED P!vars
<1>1. pc[th] \in Writing /\ pc[th] = "remove"
  BY DEF RemoveHash, Writing
<1>2. AtEntry(th) /\ work \in [Threads -> Work]
  BY <1>1 DEF Inv, LocksInv, WritersProgress, Progress, LocksTyped
<1>3. /\ index' = index \ {arg[th]}
      /\ UNCHANGED <<pool, op, arg, calls, reply, locks, before>>
  BY DEF RemoveHash, Goto
<1>4. CASE arg[th] \in index
  <2>1. /\ pc' = [pc EXCEPT ![th] = "unslot"] /\ "unslot" \in Writing
        /\ work' = work
    BY <1>4 DEF RemoveHash, Goto, Writing
  <2>2. AtUnslot(th)'
    BY <1>2, <1>3, <1>4, <2>1 DEF AtUnslot, AtEntry
  <2>3. Progress(th)'
    BY <2>1, <2>2 DEF Progress, Inv, LocksInv, LocksTyped
  <2>4. QED
    BY <1>1, <1>2, <1>3, <2>1, <2>3, WriterMoves DEF Inv
<1>5. CASE arg[th] \notin index
  <2>1. /\ pc' = [pc EXCEPT ![th] = "answer"] /\ "answer" \in Writing
        /\ work' = [work EXCEPT ![th].kind = "absent"]
        /\ index' = index
    BY <1>3, <1>5 DEF RemoveHash, Goto, Writing
  <2>2. /\ work' \in [Threads -> Work]
        /\ \A tg \in Threads \ {th} : work'[tg] = work[tg]
        /\ work'[th] = Local({}, 0, 0, "absent")
    <3>1. [work[th] EXCEPT !.kind = "absent"] = Local({}, 0, 0, "absent")
      BY <1>2, LocalOfNone DEF AtEntry
    <3>2. Local({}, 0, 0, "absent") \in Work
      BY DEF Local, Work, Kinds
    <3>3. work' = [work EXCEPT ![th] = Local({}, 0, 0, "absent")]
      BY <2>1, <3>1
    <3>4. QED
      BY <3>2, <3>3, WorkWritten DEF Inv
  <2>3. AnswersUnchanged(th)'
    BY <1>2, <1>3, <1>5, <2>1, <2>2 DEF AnswersUnchanged, AtEntry
  <2>4. Progress(th)'
    BY <2>1, <2>3 DEF Progress, AtAnswer, Inv, LocksInv, LocksTyped
  <2>5. QED
    BY <1>1, <1>3, <2>1, <2>2, <2>4, WriterMoves DEF Inv
<1>6. QED
  BY <1>4, <1>5

LEMMA RemoveSlotStep ==
  ASSUME Inv, NEW th \in Threads, RemoveSlot(th)
  PROVE  LocksInv' /\ UNCHANGED P!vars
<1>1. pc[th] \in Writing /\ pc[th] = "unslot"
  BY DEF RemoveSlot, Writing
<1>2. AtUnslot(th)
  BY <1>1 DEF Inv, LocksInv, WritersProgress, Progress
<1>3. /\ pc' = [pc EXCEPT ![th] = "answer"] /\ "answer" \in Writing
      /\ UNCHANGED <<index, op, arg, calls, reply, locks, before>>
      /\ pool' = pool \ P!Slot(arg[th], pool)
      /\ work' = [work EXCEPT ![th].kind = "removed"]
  BY SameOnAnyPool DEF RemoveSlot, Goto, Writing
<1>4. /\ work' \in [Threads -> Work]
      /\ \A tg \in Threads \ {th} : work'[tg] = work[tg]
      /\ work'[th] = Local({}, 0, 0, "removed")
  <2>1. [work[th] EXCEPT !.kind = "removed"] = Local({}, 0, 0, "removed")
    BY <1>2, LocalOfNone DEF AtUnslot
  <2>2. Local({}, 0, 0, "removed") \in Work
    BY DEF Local, Work, Kinds
  <2>3. work' = [work EXCEPT ![th] = Local({}, 0, 0, "removed")]
    BY <1>3, <2>1
  <2>4. QED
    BY <2>2, <2>3, WorkWritten DEF Inv
<1>5. AnswersRemoved(th)'
  BY <1>2, <1>3, <1>4 DEF AnswersRemoved, AtUnslot
<1>6. Progress(th)'
  BY <1>3, <1>5 DEF Progress, AtAnswer, Inv, LocksInv, LocksTyped
<1>7. QED
  BY <1>1, <1>3, <1>4, <1>6, WriterMoves DEF Inv

-----------------------------------------------------------------------------
(* The steps before and after the writing, and those of the readers.       *)

LEMMA BeginStep ==
  ASSUME Inv, NEW th \in Threads, Begin(th)
  PROVE  LocksInv' /\ UNCHANGED P!vars
<1>1. PICK o \in Ops[th] : /\ op' = [op EXCEPT ![th] = o]
                          /\ pc' = [pc EXCEPT ![th] = FirstLock(o)]
                          /\ \E t \in IF o = "get_best" THEN {AnyTx} ELSE Txs :
                               arg' = [arg EXCEPT ![th] = t]
  BY DEF Begin
<1>2. /\ pc[th] = "idle"
      /\ calls' = [calls EXCEPT ![th] = @ + 1]
      /\ UNCHANGED <<pool, index, reply, locks, work, before>>
  BY DEF Begin
<1>3. o \in OpNames
  BY LocksAssumption
<1>4. PICK t : /\ t \in Txs \cup {AnyTx} /\ (o # "get_best" => t \in Txs)
               /\ arg' = [arg EXCEPT ![th] = t]
  BY <1>1
<1>5. FirstLock(o) =
        IF o \in {"insert", "remove"} THEN "senderWrite"
        ELSE IF o = "get_by_hash" THEN "hashRead" ELSE "snapshotRead"
  BY <1>3 DEF FirstLock, OpNames
<1>6. FirstLock(o) \in Places \ Writing
  BY <1>5 DEF Places, Waiting, Reading, Writing
<1>7. \A tg \in Threads \ {th} : arg'[tg] = arg[tg] /\ work'[tg] = work[tg]
  BY <1>2, <1>4 DEF Inv, LocksInv, LocksTyped
<1>8. /\ WritersProgress' /\ UNCHANGED P!vars
      /\ pc'[th] = FirstLock(o)
      /\ \A tg \in Threads \ {th} : pc'[tg] = pc[tg]
  BY <1>1, <1>2, <1>6, <1>7, OthersMove DEF Inv, Writing
<1>9. LocksTyped'
  BY <1>1, <1>2, <1>3, <1>4, <1>6 DEF Inv, LocksInv, LocksTyped
<1>10. CallsBegun'
  <2>1. /\ pc'[th] \in Waiting => op'[th] \in {"insert", "remove"}
        /\ pc'[th] \in Waiting \cup Writing => arg'[th] \in Txs
        /\ work'[th] = NoWork
    BY <1>1, <1>2, <1>4, <1>5, <1>8
    DEF Inv, LocksInv, LocksTyped, CallsBegun, Waiting, Writing
  <2>2. QED
    BY <1>1, <1>2, <1>4, <1>8, <2>1 DEF Inv, LocksInv, LocksTyped, CallsBegun
<1>11. LocksHeld'
  BY <1>2, <1>5, <1>8 DEF Inv, LocksInv, LocksHeld, locks, Writing
<1>12. LocksExclude'
  BY <1>2 DEF Inv, LocksInv, LocksExclude, locks
<1>13. QED
  BY <1>8, <1>9, <1>10, <1>11, <1>12 DEF LocksInv

(* A thread that moves on with its call, without writing the maps.         *)
LEMMA GoesOn ==
  ASSUME Inv, NEW th \in Threads, NEW place \in Places \ Writing,
         pc[th] \notin Writing \cup {"release"}, Goto(th, place),
         UNCHANGED <<pool, index, reply, work, before>>,
         place \in Waiting => pc[th] \in Waiting
  PROVE  /\ LocksTyped' /\ CallsBegun' /\ WritersProgress'
         /\ UNCHANGED P!vars
         /\ pc'[th] = place
         /\ \A tg \in Threads \ {th} : pc'[tg] = pc[tg]
<1>1. /\ pc' = [pc EXCEPT ![th] = place]
      /\ UNCHANGED <<op, arg, calls>>
  BY DEF Goto
<1>2. /\ WritersProgress' /\ UNCHANGED P!vars
      /\ pc'[th] = place
      /\ \A tg \in Threads \ {th} : pc'[tg] = pc[tg]
  BY <1>1, OthersMove DEF Inv
<1>3. LocksTyped'
  BY <1>1 DEF Inv, LocksInv, LocksTyped
<1>4. CallsBegun'
  BY <1>1, <1>2 DEF Inv, LocksInv, CallsBegun
<1>5. QED
  BY <1>2, <1>3, <1>4

(* A thread whose call returns.                                            *)
LEMMA Returns ==
  ASSUME Inv, NEW th \in Threads, pc[th] \notin Writing, Return(th),
         UNCHANGED reply
  PROVE  /\ LocksTyped' /\ CallsBegun' /\ WritersProgress'
         /\ UNCHANGED P!vars
         /\ pc'[th] = "idle"
         /\ \A tg \in Threads \ {th} : pc'[tg] = pc[tg]
<1>1. /\ pc' = [pc EXCEPT ![th] = "idle"]
      /\ "idle" \in Places \ Writing
      /\ op' = [op EXCEPT ![th] = "none"]
      /\ arg' = [arg EXCEPT ![th] = AnyTx]
      /\ work' = [work EXCEPT ![th] = NoWork]
      /\ UNCHANGED <<pool, index, calls, before>>
  BY DEF Return, Places, Writing
<1>2. NoWork \in Work
  BY DEF NoWork, Work, Kinds
<1>3. \A tg \in Threads \ {th} : /\ arg'[tg] = arg[tg] /\ work'[tg] = work[tg]
                                 /\ op'[tg] = op[tg]
  BY <1>1 DEF Inv, LocksInv, LocksTyped
<1>4. /\ WritersProgress' /\ UNCHANGED P!vars
      /\ pc'[th] = "idle"
      /\ \A tg \in Threads \ {th} : pc'[tg] = pc[tg]
  BY <1>1, <1>3, OthersMove DEF Inv
<1>5. LocksTyped'
  BY <1>1, <1>2 DEF Inv, LocksInv, LocksTyped
<1>6. CallsBegun'
  <2>1. work'[th] = NoWork /\ pc'[th] \notin Waiting \cup Writing
    BY <1>1, <1>4 DEF Inv, LocksInv, LocksTyped, Waiting, Writing
  <2>2. QED
    BY <1>3, <1>4, <2>1 DEF Inv, LocksInv, CallsBegun
<1>7. QED
  BY <1>4, <1>5, <1>6

LEMMA LockSenderStep ==
  ASSUME Inv, NEW th \in Threads, LockSender(th)
  PROVE  LocksInv' /\ UNCHANGED P!vars
<1>1. /\ pc[th] = "senderWrite" /\ pc[th] \notin Writing \cup {"release"}
      /\ "hashWrite" \in Places \ Writing
      /\ "hashWrite" \in Waiting => pc[th] \in Waiting
  BY DEF LockSender, Places, Waiting, Writing, Reading
<1>2. /\ Goto(th, "hashWrite")
      /\ UNCHANGED <<pool, index, reply, work, before>>
  BY DEF LockSender
<1>3. /\ LocksTyped' /\ CallsBegun' /\ WritersProgress'
      /\ UNCHANGED P!vars
      /\ pc'[th] = "hashWrite"
      /\ \A tg \in Threads \ {th} : pc'[tg] = pc[tg]
  BY <1>1, <1>2, GoesOn
<1>4. LocksHeld'
  BY <1>1, <1>3 DEF LockSender, Inv, LocksInv, LocksHeld, Writing, locks
<1>5. LocksExclude'
  BY DEF LockSender, Inv, LocksInv, LocksExclude, LocksHeld, locks, Writing
<1>6. QED
  BY <1>3, <1>4, <1>5 DEF LocksInv

LEMMA UnlockSenderStep ==
  ASSUME Inv, NEW th \in Threads, UnlockSender(th)
  PROVE  LocksInv' /\ UNCHANGED P!vars
<1>1. pc[th] = "release" /\ pc[th] \notin Writing /\ Return(th) /\ UNCHANGED reply
  BY DEF UnlockSender, Writing
<1>2. /\ LocksTyped' /\ CallsBegun' /\ WritersProgress'
      /\ UNCHANGED P!vars
      /\ pc'[th] = "idle"
      /\ \A tg \in Threads \ {th} : pc'[tg] = pc[tg]
  BY <1>1, Returns
<1>3. LocksHeld'
  BY <1>1, <1>2 DEF UnlockSender, Inv, LocksInv, LocksHeld, Writing
<1>4. LocksExclude'
  BY DEF UnlockSender, Inv, LocksInv, LocksExclude
<1>5. QED
  BY <1>2, <1>3, <1>4 DEF LocksInv

LEMMA ReadHashStep ==
  ASSUME Inv, NEW th \in Threads, ReadHash(th)
  PROVE  LocksInv' /\ UNCHANGED P!vars
<1>1. /\ pc[th] = "hashRead" /\ pc[th] \notin Writing \cup {"release"}
      /\ "lookup" \in Places \ Writing
      /\ "lookup" \in Waiting => pc[th] \in Waiting
  BY DEF ReadHash, Places, Waiting, Writing, Reading
<1>2. /\ Goto(th, "lookup")
      /\ UNCHANGED <<pool, index, reply, work, before>>
  BY DEF ReadHash
<1>3. /\ LocksTyped' /\ CallsBegun' /\ WritersProgress'
      /\ UNCHANGED P!vars
      /\ pc'[th] = "lookup"
      /\ \A tg \in Threads \ {th} : pc'[tg] = pc[tg]
  BY <1>1, <1>2, GoesOn
<1>4. LocksHeld'
  BY <1>1, <1>3 DEF ReadHash, Inv, LocksInv, LocksHeld, Writing, locks
<1>5. LocksExclude'
  BY DEF ReadHash, Inv, LocksInv, LocksExclude, LocksHeld, locks, Writing
<1>6. QED
  BY <1>3, <1>4, <1>5 DEF LocksInv

LEMMA LookupAbsentStep ==
  ASSUME Inv, NEW th \in Threads, LookupAbsent(th)
  PROVE  LocksInv' /\ UNCHANGED P!vars
<1>1. pc[th] = "lookup" /\ pc[th] \notin Writing /\ Return(th) /\ UNCHANGED reply
  BY DEF LookupAbsent, Writing
<1>2. /\ LocksTyped' /\ CallsBegun' /\ WritersProgress'
      /\ UNCHANGED P!vars
      /\ pc'[th] = "idle"
      /\ \A tg \in Threads \ {th} : pc'[tg] = pc[tg]
  BY <1>1, Returns
<1>3. LocksHeld'
  BY <1>1, <1>2 DEF LookupAbsent, Inv, LocksInv, LocksHeld, Writing
<1>4. LocksExclude'
  BY DEF LookupAbsent, Inv, LocksInv, LocksExclude
<1>5. QED
  BY <1>2, <1>3, <1>4 DEF LocksInv

LEMMA LookupPresentStep ==
  ASSUME Inv, NEW th \in Threads, LookupPresent(th)
  PROVE  LocksInv' /\ UNCHANGED P!vars
<1>1. /\ pc[th] = "lookup" /\ pc[th] \notin Writing \cup {"release"}
      /\ "senderRead" \in Places \ Writing
      /\ "senderRead" \in Waiting => pc[th] \in Waiting
  BY DEF LookupPresent, Places, Waiting, Writing, Reading
<1>2. /\ Goto(th, "senderRead")
      /\ UNCHANGED <<pool, index, reply, work, before>>
  BY DEF LookupPresent
<1>3. /\ LocksTyped' /\ CallsBegun' /\ WritersProgress'
      /\ UNCHANGED P!vars
      /\ pc'[th] = "senderRead"
      /\ \A tg \in Threads \ {th} : pc'[tg] = pc[tg]
  BY <1>1, <1>2, GoesOn
<1>4. LocksHeld'
  BY <1>1, <1>3 DEF LookupPresent, Inv, LocksInv, LocksHeld, Writing, locks
<1>5. LocksExclude'
  BY DEF LookupPresent, Inv, LocksInv, LocksExclude, LocksHeld, locks, Writing
<1>6. QED
  BY <1>3, <1>4, <1>5 DEF LocksInv

LEMMA ReadSenderStep ==
  ASSUME Inv, NEW th \in Threads, ReadSender(th)
  PROVE  LocksInv' /\ UNCHANGED P!vars
<1>1. /\ pc[th] = "senderRead" /\ pc[th] \notin Writing \cup {"release"}
      /\ "read" \in Places \ Writing
      /\ "read" \in Waiting => pc[th] \in Waiting
  BY DEF ReadSender, Places, Waiting, Writing, Reading
<1>2. /\ Goto(th, "read")
      /\ UNCHANGED <<pool, index, reply, work, before>>
  BY DEF ReadSender
<1>3. /\ LocksTyped' /\ CallsBegun' /\ WritersProgress'
      /\ UNCHANGED P!vars
      /\ pc'[th] = "read"
      /\ \A tg \in Threads \ {th} : pc'[tg] = pc[tg]
  BY <1>1, <1>2, GoesOn
<1>4. LocksHeld'
  BY <1>1, <1>3 DEF ReadSender, Inv, LocksInv, LocksHeld, Writing, locks
<1>5. LocksExclude'
  BY DEF ReadSender, Inv, LocksInv, LocksExclude, LocksHeld, locks, Writing
<1>6. QED
  BY <1>3, <1>4, <1>5 DEF LocksInv

LEMMA LookupDoneStep ==
  ASSUME Inv, NEW th \in Threads, LookupDone(th)
  PROVE  LocksInv' /\ UNCHANGED P!vars
<1>1. pc[th] = "read" /\ pc[th] \notin Writing /\ Return(th) /\ UNCHANGED reply
  BY DEF LookupDone, Writing
<1>2. /\ LocksTyped' /\ CallsBegun' /\ WritersProgress'
      /\ UNCHANGED P!vars
      /\ pc'[th] = "idle"
      /\ \A tg \in Threads \ {th} : pc'[tg] = pc[tg]
  BY <1>1, Returns
<1>3. LocksHeld'
  BY <1>1, <1>2 DEF LookupDone, Inv, LocksInv, LocksHeld, Writing
<1>4. LocksExclude'
  BY DEF LookupDone, Inv, LocksInv, LocksExclude
<1>5. QED
  BY <1>2, <1>3, <1>4 DEF LocksInv

LEMMA ReadAllStep ==
  ASSUME Inv, NEW th \in Threads, ReadAll(th)
  PROVE  LocksInv' /\ UNCHANGED P!vars
<1>1. /\ pc[th] = "snapshotRead" /\ pc[th] \notin Writing \cup {"release"}
      /\ "snapshot" \in Places \ Writing
      /\ "snapshot" \in Waiting => pc[th] \in Waiting
  BY DEF ReadAll, Places, Waiting, Writing, Reading
<1>2. /\ Goto(th, "snapshot")
      /\ UNCHANGED <<pool, index, reply, work, before>>
  BY DEF ReadAll
<1>3. /\ LocksTyped' /\ CallsBegun' /\ WritersProgress'
      /\ UNCHANGED P!vars
      /\ pc'[th] = "snapshot"
      /\ \A tg \in Threads \ {th} : pc'[tg] = pc[tg]
  BY <1>1, <1>2, GoesOn
<1>4. LocksHeld'
  BY <1>1, <1>3 DEF ReadAll, Inv, LocksInv, LocksHeld, Writing, locks
<1>5. LocksExclude'
  BY DEF ReadAll, Inv, LocksInv, LocksExclude, LocksHeld, locks, Writing
<1>6. QED
  BY <1>3, <1>4, <1>5 DEF LocksInv

LEMMA BestDoneStep ==
  ASSUME Inv, NEW th \in Threads, BestDone(th)
  PROVE  LocksInv' /\ UNCHANGED P!vars
<1>1. pc[th] = "snapshot" /\ pc[th] \notin Writing /\ Return(th) /\ UNCHANGED reply
  BY DEF BestDone, Writing
<1>2. /\ LocksTyped' /\ CallsBegun' /\ WritersProgress'
      /\ UNCHANGED P!vars
      /\ pc'[th] = "idle"
      /\ \A tg \in Threads \ {th} : pc'[tg] = pc[tg]
  BY <1>1, Returns
<1>3. LocksHeld'
  BY <1>1, <1>2 DEF BestDone, Inv, LocksInv, LocksHeld, Writing
<1>4. LocksExclude'
  BY DEF BestDone, Inv, LocksInv, LocksExclude
<1>5. QED
  BY <1>2, <1>3, <1>4 DEF LocksInv

-----------------------------------------------------------------------------
(* The step that opens a writer's call, and the one that closes it: there  *)
(* the callers see what it did.                                            *)

LEMMA LockHashStep ==
  ASSUME Inv, NEW th \in Threads, LockHash(th)
  PROVE  LocksInv' /\ UNCHANGED P!vars
<1>1. /\ pc[th] = "hashWrite" /\ hashW = {} /\ hashR = {} /\ hashW' = {th}
      /\ pc' = [pc EXCEPT ![th] = op[th]]
      /\ before' = [pool |-> pool, index |-> index]
      /\ UNCHANGED <<pool, index, reply, senderW, senderR, hashR, op, arg, calls, work>>
  BY DEF LockHash, Goto
<1>2. op[th] \in {"insert", "remove"} /\ work[th] = NoWork /\ arg[th] \in Txs
  BY <1>1 DEF Inv, LocksInv, CallsBegun, Waiting, Writing
<1>3. /\ pc'[th] = op[th] /\ op[th] \in Writing /\ op[th] \in Places
      /\ \A tg \in Threads \ {th} : pc'[tg] = pc[tg]
  BY <1>1, <1>2 DEF Inv, LocksInv, LocksTyped, Writing, Places
<1>4. \A tg \in Threads : pc[tg] \notin Writing
  BY <1>1 DEF Inv, LocksInv, LocksHeld
<1>5. UNCHANGED P!vars
  BY <1>1, <1>3, <1>4 DEF P!vars, CallersPool, CallersIndex, InProgress
<1>6. LocksTyped'
  <2>1. CallersPool = pool /\ CallersIndex = index
    BY <1>4 DEF CallersPool, CallersIndex, InProgress
  <2>2. pool \subseteq Txs /\ index \subseteq Txs
    BY <2>1 DEF Inv, P!Inv, P!TypeOK
  <2>3. QED
    BY <1>1, <1>3, <2>2 DEF Inv, LocksInv, LocksTyped
<1>7. CallsBegun'
  BY <1>1, <1>2, <1>3 DEF Inv, LocksInv, CallsBegun, Waiting, Writing
<1>8. LocksHeld'
  BY <1>1, <1>3, <1>4 DEF Inv, LocksInv, LocksHeld, Writing
<1>9. LocksExclude'
  BY <1>1 DEF Inv, LocksInv, LocksExclude
<1>10. WritersProgress'
  <2>1. Progress(th)'
    BY <1>1, <1>2, <1>3 DEF Progress, AtEntry
  <2>2. \A tg \in Threads \ {th} : Progress(tg)'
    BY <1>3, <1>4 DEF Progress, Writing
  <2>3. QED
    BY <2>1, <2>2 DEF WritersProgress
<1>11. QED
  BY <1>5, <1>6, <1>7, <1>8, <1>9, <1>10 DEF LocksInv

(* What a writer did to the maps it found is one insert or one remove.     *)
LEMMA CallTakesEffect ==
  ASSUME Inv, NEW th \in Threads, pc[th] \in Writing, AtAnswer(th),
         CallersPool = before.pool, CallersIndex = before.index,
         CallersPool' = pool, CallersIndex' = index,
         reply' = [kind |-> work[th].kind, evicted |-> work[th].evicted]
  PROVE  P!Insert(arg[th]) \/ P!Remove(arg[th])
<1> DEFINE t == arg[th]
<1>1. CASE AnswersUnchanged(th)
  <2>1. CASE t \in before.index /\ work[th] = Local({}, 0, 0, "ok")
    BY <1>1, <2>1
    DEF AnswersUnchanged, Local, P!Insert, P!InsertDuplicate, P!Answer
  <2>2. CASE /\ t \notin before.index /\ P!GapTooLarge(t, before.pool)
             /\ work[th] = Local({}, 0, 0, "gap")
    BY <1>1, <2>2
    DEF AnswersUnchanged, Local, P!Insert, P!InsertGap, P!Answer
  <2>3. CASE t \notin before.index /\ work[th] = Local({}, 0, 0, "absent")
    BY <1>1, <2>3 DEF AnswersUnchanged, Local, P!Remove, P!Answer
  <2>4. QED
    BY <1>1, <2>1, <2>2, <2>3 DEF AnswersUnchanged
<1>2. CASE AnswersWithin(th)
  BY <1>2
  DEF AnswersWithin, Admitted, Grown, GrownIndex, Local, P!Insert,
      P!InsertWithin, P!Accepts, P!IndexWith, P!Answer
<1>3. CASE AnswersEvicting(th)
  <2> DEFINE p == Grown(th)
  <2>1. PICK s \in Cheapest(p) :
          /\ pool = p \ P!OfSender(s, p)
          /\ index = GrownIndex(th) \ P!LowestNonces(P!OfSender(s, p), 1)
    BY <1>3 DEF AnswersEvicting
  <2>2. P!OfSenders({s}, p) = P!OfSender(s, p) /\ P!OfSenders({s} \ {s}, p) = {}
    BY DEF P!OfSenders, P!OfSender
  <2>3. Cardinality({}) = 0 /\ 1 <= Cardinality(P!OfSender(s, p))
    <3>1. P!OfSender(s, p) # {} /\ IsFiniteSet(P!OfSender(s, p))
      <4>1. P!OfSender(s, p) # {} /\ P!OfSender(s, p) \subseteq p
        BY DEF Cheapest, P!OfSender, P!SendersIn
      <4>2. QED
        BY <4>1, WriterFound, FS_Subset
    <3>2. Cardinality(P!OfSender(s, p)) \in Nat \ {0}
      BY <3>1, FS_CardinalityType, FS_EmptySet
    <3>3. QED
      BY <3>2, FS_EmptySet
  <2>4. P!CheapestFirst({s}, s, p)
    BY DEF P!CheapestFirst, Cheapest
  <2>5. P!StopsAt({s}, s, p, 1)
    BY <2>2, <2>3, SameCounts DEF P!StopsAt
  <2>6. /\ P!Evicted({s}, s, p, 1) = P!OfSender(s, p)
        /\ P!Unindexed({s}, s, p, 1) = P!LowestNonces(P!OfSender(s, p), 1)
    BY <2>2, <2>3, SameCounts DEF P!Evicted, P!Unindexed
  <2>7. /\ P!Inserted(t, CallersPool) = p /\ P!IndexWith(t) = GrownIndex(th)
        /\ P!Accepts(t) /\ P!Overflow(p) = 1
    BY <1>3 DEF AnswersEvicting, Admitted, Grown, GrownIndex, P!Accepts, P!IndexWith
  <2>8. P!Answer("ok", 1)
    BY <1>3 DEF AnswersEvicting, Local, P!Answer
  <2>9. {s} \in SUBSET P!SendersIn(p) /\ s \in {s}
    BY DEF Cheapest
  <2> HIDE DEF p
  <2>10. P!InsertEvicting(t)
    BY <2>1, <2>4, <2>5, <2>6, <2>7, <2>8, <2>9 DEF P!InsertEvicting
  <2>11. QED
    BY <2>10 DEF P!Insert
<1>4. CASE AnswersRemoved(th)
  BY <1>4 DEF AnswersRemoved, Local, P!Remove, P!Answer
<1>5. QED
  BY <1>1, <1>2, <1>3, <1>4 DEF AtAnswer

LEMMA UnlockHashStep ==
  ASSUME Inv, NEW th \in Threads, UnlockHash(th)
  PROVE  LocksInv' /\ P!Next
<1>1. /\ pc[th] = "answer" /\ pc[th] \in Writing
      /\ pc' = [pc EXCEPT ![th] = "release"]
      /\ "release" \in Places \ (Writing \cup Waiting)
      /\ hashW' = hashW \ {th}
      /\ reply' = [kind |-> work[th].kind, evicted |-> work[th].evicted]
      /\ before' = NoMaps
      /\ UNCHANGED <<pool, index, senderW, senderR, hashR, op, arg, calls, work>>
  BY DEF UnlockHash, Goto, Writing, Waiting, Places
<1>2. /\ pc'[th] = "release"
      /\ \A tg \in Threads \ {th} : pc'[tg] = pc[tg] /\ pc[tg] \notin Writing
  BY <1>1, OneWriter DEF Inv, LocksInv, LocksTyped
<1>3. /\ CallersPool = before.pool /\ CallersIndex = before.index
      /\ CallersPool' = pool /\ CallersIndex' = index
  BY <1>1, <1>2, OneWriter DEF Inv, CallersPool, CallersIndex, InProgress
<1>4. AtAnswer(th) /\ arg[th] \in Txs
  BY <1>1 DEF Inv, LocksInv, WritersProgress, Progress, CallsBegun
<1>5. P!Next
  BY <1>1, <1>3, <1>4, CallTakesEffect DEF P!Next
<1>6. LocksTyped'
  BY <1>1 DEF Inv, LocksInv, LocksTyped, NoMaps
<1>7. CallsBegun'
  BY <1>1, <1>2 DEF Inv, LocksInv, CallsBegun
<1>8. LocksHeld'
  BY <1>1, <1>2 DEF Inv, LocksInv, LocksHeld, Writing
<1>9. LocksExclude'
  BY <1>1 DEF Inv, LocksInv, LocksExclude
<1>10. WritersProgress'
  BY <1>1, <1>2 DEF WritersProgress, Progress, Writing
<1>11. QED
  BY <1>5, <1>6, <1>7, <1>8, <1>9, <1>10 DEF LocksInv

-----------------------------------------------------------------------------

LEMMA InvInit == Init => LocksInv /\ P!Init
<1> SUFFICES ASSUME Init PROVE LocksInv /\ P!Init
  OBVIOUS
<1>1. pool = {} /\ index = {} /\ reply = [kind |-> "none", evicted |-> 0]
  BY DEF Init, M!Init
<1>2. \A th \in Threads : pc[th] = "idle" /\ work[th] = NoWork
  BY DEF Init
<1>3. LocksTyped
  BY DEF Init, LocksTyped, Places, NoMaps, NoWork, Work, Kinds
<1>4. CallsBegun
  BY <1>2 DEF CallsBegun, Waiting, Writing
<1>5. LocksHeld /\ LocksExclude
  BY <1>2 DEF Init, LocksHeld, LocksExclude, Writing
<1>6. WritersProgress
  BY <1>2 DEF WritersProgress, Progress
<1>7. P!Init
  BY <1>1, <1>2 DEF P!Init, CallersPool, CallersIndex, InProgress, Writing
<1>8. QED
  BY <1>3, <1>4, <1>5, <1>6, <1>7 DEF LocksInv

(* Every step keeps the invariant, and is a step of the atomic mempool on  *)
(* the maps the callers see, or no step of it at all.                      *)
LEMMA StepImplements == Inv /\ [Next]_vars => Inv' /\ [P!Next]_(P!vars)
<1> SUFFICES ASSUME Inv, [Next]_vars PROVE Inv' /\ [P!Next]_(P!vars)
  OBVIOUS
<1>1. LocksInv' /\ [P!Next]_(P!vars)
  <2>1. ASSUME NEW th \in Threads, Begin(th) PROVE LocksInv' /\ UNCHANGED P!vars
    BY <2>1, BeginStep
  <2>2. ASSUME NEW th \in Threads, UnlockHash(th) PROVE LocksInv' /\ P!Next
    BY <2>2, UnlockHashStep
  <2>3. ASSUME NEW th \in Threads, Step(th), ~ UnlockHash(th)
        PROVE  LocksInv' /\ UNCHANGED P!vars
    BY <2>3, LockSenderStep, LockHashStep, InsertRefusedStep, InsertSlotStep,
       InsertHashStep, EvictSenderStep, EvictHashesStep, RemoveHashStep,
       RemoveSlotStep, UnlockSenderStep, ReadHashStep, LookupAbsentStep,
       LookupPresentStep, ReadSenderStep, LookupDoneStep, ReadAllStep,
       BestDoneStep
    DEF Step
  <2>4. CASE UNCHANGED vars
    BY <2>4
    DEF vars, locks, Inv, LocksInv, LocksTyped, CallsBegun, LocksHeld,
        LocksExclude, WritersProgress, Progress, AtEntry, AtReindex, AtEvict,
        AtUnindex, AtUnslot, AtAnswer, AnswersUnchanged, AnswersWithin,
        AnswersEvicting, AnswersRemoved, Admitted, Grown, GrownIndex,
        P!vars, CallersPool, CallersIndex, InProgress
  <2>5. QED
    BY <2>1, <2>2, <2>3, <2>4 DEF Next
<1>2. P!Inv'
  BY <1>1, P!InvNext, LocksAssumption DEF Inv, P!MempoolAssumption
<1>3. QED
  BY <1>1, <1>2 DEF Inv

LEMMA InvHolds == Spec => []Inv
<1>1. Init => Inv
  BY InvInit, P!InvInit, LocksAssumption DEF Inv, P!MempoolAssumption
<1>2. QED
  BY <1>1, StepImplements, PTL DEF Spec

(* The two locks make every insert, with its eviction loop, and every      *)
(* remove one step: what the threads do to the maps the callers see is a   *)
(* behaviour of module Mempool (mempool.rs:66-161, :215-226).              *)
THEOREM CallsAreAtomic == Spec => CallsAtomic
<1>1. Init => Atomic!Init
  BY InvInit DEF P!Init, Atomic!Init
<1>2. Inv /\ [Next]_vars => [Atomic!Next]_(Atomic!vars)
  BY StepImplements, SameSteps
<1>3. QED
  BY <1>1, <1>2, InvHolds, PTL DEF Spec, CallsAtomic, Atomic!Spec

(* So what is proved of the mempool holds of the maps its callers see, in  *)
(* every interleaving of the threads: no stored transaction without its    *)
(* hash, one to a sender and nonce, the capacity kept, and evictions that  *)
(* take one whole sender, a cheapest one.                                  *)
THEOREM CallersKeepThePool ==
  Spec => /\ [](P!PoolIndexed /\ P!OneTxPerNonce /\ P!Bounded)
          /\ P!EvictsWholeSenders /\ P!EvictsCheapest /\ P!EvictsOneSender
<1>1. Inv => P!PoolIndexed /\ P!OneTxPerNonce /\ P!Bounded
  BY DEF Inv, P!Inv
<1>2. Spec => P!Spec
  <2>1. Inv /\ [Next]_vars => [P!Next]_(P!vars)
    BY StepImplements
  <2>2. QED
    BY <2>1, InvInit, InvHolds, PTL DEF Spec, P!Spec
<1>3. P!MempoolAssumption
  BY LocksAssumption DEF P!MempoolAssumption
<1>4. P!Spec => P!EvictsWholeSenders /\ P!EvictsCheapest /\ P!EvictsOneSender
  BY <1>3, P!WholeSendersEvicted, P!CheapestEvicted, P!OneSenderEvicted, PTL
<1>5. QED
  BY <1>1, <1>2, <1>4, InvHolds, PTL

(* While get_by_hash or get_best looks at a map, both maps are as the last *)
(* finished call left them: no reader meets a half-done insert, a replaced *)
(* transaction without its hash, or a half-evicted sender.                 *)
ReadersSeeWholeCalls ==
  \A th \in Threads :
    pc[th] \in {"lookup", "senderRead", "read", "snapshot"} =>
      pool = CallersPool /\ index = CallersIndex

THEOREM WholeCallsRead == Spec => []ReadersSeeWholeCalls
<1>1. Inv => ReadersSeeWholeCalls
  <2> SUFFICES ASSUME Inv, NEW th \in Threads,
                      pc[th] \in {"lookup", "senderRead", "read", "snapshot"}
               PROVE  pool = CallersPool /\ index = CallersIndex
    BY DEF ReadersSeeWholeCalls
  <2>1. th \in hashR \/ th \in senderR
    BY DEF Inv, LocksInv, LocksHeld
  <2>2. hashW = {}
    BY <2>1 DEF Inv, LocksInv, LocksHeld, LocksExclude
  <2>3. ~ InProgress
    BY <2>2 DEF Inv, LocksInv, LocksHeld, InProgress
  <2>4. QED
    BY <2>3 DEF CallersPool, CallersIndex
<1>2. QED
  BY <1>1, InvHolds, PTL
=============================================================================
