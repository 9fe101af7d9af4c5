---------------------------- MODULE MempoolLocks ----------------------------
(***************************************************************************)
(* The mempool as its callers' threads run it: the two RwLocks of          *)
(* core/src/mempool.rs:20-21 are taken one after the other, by_sender and  *)
(* by_hash are written one after the other, and eviction is the loop of    *)
(* the code.  The callers are the RPC handlers (insert, get_by_hash) and   *)
(* the block producer (get_best, remove), on the threads of one runtime.   *)
(* Module Mempool is what a caller may believe: every call is one step.    *)
(***************************************************************************)
EXTENDS Integers, FiniteSets

CONSTANTS
  Txs, Senders, SenderOf, NonceOf, PriceOf, GasOf, MaxSize, MaxNonceGap,
  Threads,    \* threads of the runtime that call the mempool
  Ops,        \* thread -> the operations it calls
  MaxCalls    \* bound: calls a thread makes

OpNames == {"insert", "remove", "get_by_hash", "get_best"}

ASSUME LocksAssumption ==
  /\ SenderOf \in [Txs -> Senders]
  /\ NonceOf \in [Txs -> Nat]
  /\ PriceOf \in [Txs -> Nat]
  /\ GasOf \in [Txs -> Nat]
  /\ MaxSize \in Nat
  /\ MaxNonceGap \in Nat
  /\ Ops \in [Threads -> SUBSET OpNames]
  /\ MaxCalls \in Nat

VARIABLES
  pool, index,       \* the maps by_sender and by_hash
  reply,             \* the answer of the last finished insert or remove
  senderW, senderR,  \* threads that hold by_sender to write, to read
  hashW, hashR,      \* threads that hold by_hash to write, to read
  pc,                \* where each thread stands
  op, arg,           \* the operation each thread runs and its transaction
  work,              \* the local variables of each thread's insert or remove
  calls,             \* calls each thread has made
  before             \* history: the maps when the running writer began to write

locks == <<senderW, senderR, hashW, hashR>>
vars == <<pool, index, reply, locks, pc, op, arg, work, calls, before>>

M == INSTANCE Mempool

AnyTx == CHOOSE t \in Txs : TRUE
NoWork == [old |-> {}, need |-> 0, evicted |-> 0, kind |-> "none"]
NoMaps == [pool |-> {}, index |-> {}]

(* Where a writer holds both locks.                                        *)
Writing == {"insert", "reindex", "evict", "unindex", "remove", "unslot", "answer"}

Init ==
  /\ M!Init
  /\ senderW = {} /\ senderR = {} /\ hashW = {} /\ hashR = {}
  /\ pc = [th \in Threads |-> "idle"]
  /\ op = [th \in Threads |-> "none"]
  /\ arg = [th \in Threads |-> AnyTx]
  /\ work = [th \in Threads |-> NoWork]
  /\ calls = [th \in Threads |-> 0]
  /\ before = NoMaps

-----------------------------------------------------------------------------
(* A call begins and returns.                                              *)

FirstLock(o) ==
  CASE o \in {"insert", "remove"} -> "senderWrite"
    [] o = "get_by_hash" -> "hashRead"
    [] o = "get_best" -> "snapshotRead"

Begin(th) ==
  /\ pc[th] = "idle"
  /\ calls[th] < MaxCalls
  /\ calls' = [calls EXCEPT ![th] = @ + 1]
  /\ \E o \in Ops[th] :
       /\ op' = [op EXCEPT ![th] = o]
       /\ pc' = [pc EXCEPT ![th] = FirstLock(o)]
       /\ \E t \in IF o = "get_best" THEN {AnyTx} ELSE Txs :
            arg' = [arg EXCEPT ![th] = t]
  /\ UNCHANGED <<pool, index, reply, locks, work, before>>

Return(th) ==
  /\ pc' = [pc EXCEPT ![th] = "idle"]
  /\ op' = [op EXCEPT ![th] = "none"]
  /\ arg' = [arg EXCEPT ![th] = AnyTx]
  /\ work' = [work EXCEPT ![th] = NoWork]
  /\ UNCHANGED <<pool, index, calls, before>>

Goto(th, place) ==
  /\ pc' = [pc EXCEPT ![th] = place]
  /\ UNCHANGED <<op, arg, calls>>

-----------------------------------------------------------------------------
(* insert and remove: by_sender.write(), then by_hash.write().  An RwLock  *)
(* has one writer or any readers; who goes first is not specified.         *)

LockSender(th) ==
  /\ pc[th] = "senderWrite"
  /\ senderW = {} /\ senderR = {}
  /\ senderW' = {th}
  /\ Goto(th, "hashWrite")
  /\ UNCHANGED <<pool, index, reply, senderR, hashW, hashR, work, before>>

LockHash(th) ==
  /\ pc[th] = "hashWrite"
  /\ hashW = {} /\ hashR = {}
  /\ hashW' = {th}
  /\ Goto(th, op[th])
  /\ before' = [pool |-> pool, index |-> index]
  /\ UNCHANGED <<pool, index, reply, senderW, senderR, hashR, work>>

(* The early returns of insert: a known hash, a nonce beyond the gap.      *)
InsertRefused(th) ==
  /\ pc[th] = "insert"
  /\ ~ M!Accepts(arg[th])
  /\ work' = [work EXCEPT ![th].kind = IF arg[th] \in index THEN "ok" ELSE "gap"]
  /\ Goto(th, "answer")
  /\ UNCHANGED <<pool, index, reply, locks, before>>

(* entry.insert(nonce, tx)                                                 *)
InsertSlot(th) ==
  /\ pc[th] = "insert"
  /\ M!Accepts(arg[th])
  /\ pool' = M!Inserted(arg[th], pool)
  /\ work' = [work EXCEPT ![th] = [@ EXCEPT !.old = M!Slot(arg[th], pool),
                                            !.kind = "ok"]]
  /\ Goto(th, "reindex")
  /\ UNCHANGED <<index, reply, locks, before>>

(* Mutant: the hash of the replaced transaction stays.                     *)
InsertHashKeepingOld(th) ==
  LET over == M!Overflow(pool) IN
  /\ pc[th] = "reindex"
  /\ index' = index \cup {arg[th]}
  /\ work' = [work EXCEPT ![th] =
                [@ EXCEPT !.old = {}, !.need = IF over > 0 THEN over ELSE 0]]
  /\ Goto(th, IF over > 0 THEN "evict" ELSE "answer")
  /\ UNCHANGED <<pool, reply, locks, before>>

(* by_hash.remove(&old), by_hash.insert(hash), and the count of the pool.  *)
InsertHash(th) ==
  LET over == M!Overflow(pool) IN
  /\ pc[th] = "reindex"
  /\ index' = (index \ work[th].old) \cup {arg[th]}
  /\ work' = [work EXCEPT ![th] =
                [@ EXCEPT !.old = {}, !.need = IF over > 0 THEN over ELSE 0]]
  /\ Goto(th, IF over > 0 THEN "evict" ELSE "answer")
  /\ UNCHANGED <<pool, reply, locks, before>>

(* One turn of the eviction loop: the cheapest sender leaves by_sender ... *)
EvictSender(th) ==
  /\ pc[th] = "evict"
  /\ \E s \in M!SendersIn(pool) :
       /\ \A b \in M!SendersIn(pool) : M!Fees(s, pool) <= M!Fees(b, pool)
       /\ pool' = pool \ M!OfSender(s, pool)
       /\ work' = [work EXCEPT ![th].old = M!OfSender(s, pool)]
  /\ Goto(th, "unindex")
  /\ UNCHANGED <<index, reply, locks, before>>

(* ... and its hashes leave by_hash until the count is reached.            *)
EvictHashes(th) ==
  LET gone == M!LowestNonces(work[th].old, work[th].need)
      left == work[th].need - Cardinality(gone)
  IN
  /\ pc[th] = "unindex"
  /\ index' = index \ gone
  /\ work' = [work EXCEPT ![th] =
                [@ EXCEPT !.old = {}, !.need = left,
                          !.evicted = work[th].evicted + Cardinality(gone)]]
  /\ Goto(th, IF left > 0 /\ pool # {} THEN "evict" ELSE "answer")
  /\ UNCHANGED <<pool, reply, locks, before>>

(* by_hash.remove(tx_hash)                                                 *)
RemoveHash(th) ==
  /\ pc[th] = "remove"
  /\ index' = index \ {arg[th]}
  /\ IF arg[th] \in index
     THEN Goto(th, "unslot") /\ UNCHANGED work
     ELSE /\ work' = [work EXCEPT ![th].kind = "absent"]
          /\ Goto(th, "answer")
  /\ UNCHANGED <<pool, reply, locks, before>>

(* m.remove(&nonce)                                                        *)
RemoveSlot(th) ==
  /\ pc[th] = "unslot"
  /\ pool' = pool \ M!Slot(arg[th], pool)
  /\ work' = [work EXCEPT ![th].kind = "removed"]
  /\ Goto(th, "answer")
  /\ UNCHANGED <<index, reply, locks, before>>

(* The guards are dropped in the reverse order: by_hash, then by_sender.   *)
UnlockHash(th) ==
  /\ pc[th] = "answer"
  /\ hashW' = hashW \ {th}
  /\ reply' = [kind |-> work[th].kind, evicted |-> work[th].evicted]
  /\ before' = NoMaps
  /\ Goto(th, "release")
  /\ UNCHANGED <<pool, index, senderW, senderR, hashR, work>>

UnlockSender(th) ==
  /\ pc[th] = "release"
  /\ senderW' = senderW \ {th}
  /\ Return(th)
  /\ UNCHANGED <<reply, senderR, hashW, hashR>>

-----------------------------------------------------------------------------
(* get_by_hash: by_hash.read(), then, still holding it, by_sender.read().  *)

ReadHash(th) ==
  /\ pc[th] = "hashRead"
  /\ hashW = {}
  /\ hashR' = hashR \cup {th}
  /\ Goto(th, "lookup")
  /\ UNCHANGED <<pool, index, reply, senderW, senderR, hashW, work, before>>

(* Mutant: the guard of by_hash outlives the early return.                 *)
LookupAbsentHolding(th) ==
  /\ pc[th] = "lookup"
  /\ arg[th] \notin index
  /\ Return(th)
  /\ UNCHANGED <<reply, locks>>

LookupAbsent(th) ==
  /\ pc[th] = "lookup"
  /\ arg[th] \notin index
  /\ hashR' = hashR \ {th}
  /\ Return(th)
  /\ UNCHANGED <<reply, senderW, senderR, hashW>>

LookupPresent(th) ==
  /\ pc[th] = "lookup"
  /\ arg[th] \in index
  /\ Goto(th, "senderRead")
  /\ UNCHANGED <<pool, index, reply, locks, work, before>>

ReadSender(th) ==
  /\ pc[th] = "senderRead"
  /\ senderW = {}
  /\ senderR' = senderR \cup {th}
  /\ Goto(th, "read")
  /\ UNCHANGED <<pool, index, reply, senderW, hashW, hashR, work, before>>

LookupDone(th) ==
  /\ pc[th] = "read"
  /\ senderR' = senderR \ {th}
  /\ hashR' = hashR \ {th}
  /\ Return(th)
  /\ UNCHANGED <<reply, senderW, hashW>>

(* get_best: by_sender.read() only.                                        *)
ReadAll(th) ==
  /\ pc[th] = "snapshotRead"
  /\ senderW = {}
  /\ senderR' = senderR \cup {th}
  /\ Goto(th, "snapshot")
  /\ UNCHANGED <<pool, index, reply, senderW, hashW, hashR, work, before>>

BestDone(th) ==
  /\ pc[th] = "snapshot"
  /\ senderR' = senderR \ {th}
  /\ Return(th)
  /\ UNCHANGED <<reply, senderW, hashW, hashR>>

-----------------------------------------------------------------------------

Step(th) ==
  \/ LockSender(th) \/ LockHash(th)
  \/ InsertRefused(th) \/ InsertSlot(th) \/ InsertHash(th)
  \/ EvictSender(th) \/ EvictHashes(th)
  \/ RemoveHash(th) \/ RemoveSlot(th)
  \/ UnlockHash(th) \/ UnlockSender(th)
  \/ ReadHash(th) \/ LookupAbsent(th) \/ LookupPresent(th)
  \/ ReadSender(th) \/ LookupDone(th)
  \/ ReadAll(th) \/ BestDone(th)

Next == \E th \in Threads : Begin(th) \/ Step(th)

(* A thread that can run runs; no caller has to make another call.         *)
Fairness == \A th \in Threads : WF_vars(Step(th))

Spec == Init /\ [][Next]_vars

FairSpec == Spec /\ Fairness

-----------------------------------------------------------------------------
(* Properties.                                                             *)

(* What the maps are to a caller: a call in progress has not happened yet. *)
InProgress == \E th \in Threads : pc[th] \in Writing
CallersPool == IF InProgress THEN before.pool ELSE pool
CallersIndex == IF InProgress THEN before.index ELSE index

(* The two locks make insert, with its eviction loop, and remove the       *)
(* single steps of module Mempool: no caller can tell the difference.      *)
Atomic == INSTANCE Mempool WITH pool <- CallersPool, index <- CallersIndex
CallsAtomic == Atomic!Spec

(* "Thread-safe" (mempool.rs:17): every call returns.                      *)
CallsReturn == \A th \in Threads : pc[th] # "idle" ~> pc[th] = "idle"

(* A lookup that has by_hash and waits for by_sender, beside a writer that *)
(* has by_sender and waits for by_hash.                                    *)
Crossed ==
  \E reader, writer \in Threads :
    pc[reader] = "senderRead" /\ pc[writer] = "hashWrite"

(* That is the only way in which a call of the pool fails to return: every *)
(* order of evictions, removals, snapshots and lookups of absent hashes    *)
(* lets all the callers go on.                                             *)
CallsReturnUncrossed ==
  \A th \in Threads : pc[th] # "idle" ~> (pc[th] = "idle" \/ Crossed)

=============================================================================
