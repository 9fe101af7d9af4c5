------------------------------- MODULE Chain -------------------------------
(***************************************************************************)
(* The block store of core/src/chain.rs and accept_block, with the fork    *)
(* rules of core/src/fork.rs and the block checks of core/src/validation.rs*)
(*                                                                         *)
(* A block stands for its hash.  The keys of the store are written one     *)
(* after the other, each durable by itself: the process may stop, or a     *)
(* write may fail, between any two of them.  Any block of a fixed set may  *)
(* be offered at any time, in any order and again.                         *)
(***************************************************************************)
EXTENDS Integers, Sequences, FiniteSets

CONSTANTS
  Blocks,        \* the blocks that may be offered, the genesis among them
  Genesis,       \* the block the store is created with
  NoBlock,       \* the zero hash, and an absent key
  ParentOf,      \* block -> header.parent_hash, NoBlock for number 0
  NumberOf,      \* block -> header.number
  ValidatorOf,   \* block -> header.validator
  StampOf,       \* block -> header.timestamp
  BodyValid,     \* block -> validate_block succeeds
  StakeOf,       \* validator -> its balance, the weight of its blocks
  Depth,         \* FINALITY_DEPTH
  BlockTime,     \* BLOCK_TIME_SECS
  Times,         \* the readings of the clock a caller may pass
  MaxChildren,   \* bound: entries of a children list
  MaxAborts      \* bound: crashes and failed writes

Validators == {ValidatorOf[b] : b \in Blocks}
Numbers == {NumberOf[b] : b \in Blocks}

ASSUME ChainAssumption ==
  /\ Genesis \in Blocks /\ NoBlock \notin Blocks
  /\ ParentOf \in [Blocks -> Blocks \cup {NoBlock}]
  /\ NumberOf \in [Blocks -> Nat]
  /\ StampOf \in [Blocks -> Nat]
  /\ BodyValid \in [Blocks -> BOOLEAN]
  /\ StakeOf \in [Validators -> Nat]
  /\ ParentOf[Genesis] = NoBlock /\ NumberOf[Genesis] = 0
  \* The node makes its block of number 0 itself, with the zero hash for a
  \* parent (node/src/main.rs); accept_block would not look at it.
  /\ \A b \in Blocks : NumberOf[b] = 0 => ParentOf[b] = NoBlock
  /\ Depth \in Nat \ {0} /\ BlockTime \in Nat /\ Times \subseteq Nat
  /\ MaxChildren \in Nat /\ MaxAborts \in Nat

VARIABLES
  headers, bodies,   \* block_header:, block_body:
  byNumber,          \* block_number: -> hash
  signed,            \* signed_block: validator, height -> hash
  children,          \* children: hash -> the hashes appended to it
  head,              \* head_hash
  finHeight,         \* finalized_height, -1 when absent
  finHash,           \* finalized_hash
  roots,             \* the blocks whose state root is saved
  writing,           \* accept_block's block and the next key it writes
  verdict,           \* what the last accept_block returned, "none" while one runs
  aborts             \* crashes and failed writes so far

store == <<headers, bodies, byNumber, signed, children, head, finHeight,
           finHash, roots>>
vars == <<store, writing, verdict, aborts>>

Keys == {"header", "body", "number", "signed", "children", "head",
         "finHeight", "finHash", "root"}
Idle == [block |-> NoBlock, key |-> "none"]

Verdicts == {"none", "accepted", "aborted", "invalid body", "missing parent",
          "invalid header", "past finality", "double sign"}

TypeOK ==
  /\ headers \subseteq Blocks /\ bodies \subseteq Blocks /\ roots \subseteq Blocks
  /\ byNumber \in [Numbers -> Blocks \cup {NoBlock}]
  /\ signed \in [Validators \X Numbers -> Blocks \cup {NoBlock}]
  /\ children \in [Blocks \cup {NoBlock} -> Seq(Blocks)]
  /\ head \in Blocks
  /\ finHeight \in Nat \cup {-1}
  /\ finHash \in Blocks \cup {NoBlock}
  /\ writing \in [block : Blocks, key : Keys] \cup {Idle}
  /\ verdict \in Verdicts
  /\ aborts \in 0 .. MaxAborts

(* The store as the node leaves it when it has created the genesis block.  *)
Init ==
  /\ headers = {Genesis} /\ bodies = {Genesis} /\ roots = {Genesis}
  /\ byNumber = [n \in Numbers |-> IF n = 0 THEN Genesis ELSE NoBlock]
  /\ signed = [k \in Validators \X Numbers |->
                 IF k = <<ValidatorOf[Genesis], 0>> THEN Genesis ELSE NoBlock]
  /\ children = [b \in Blocks \cup {NoBlock} |->
                   IF b = NoBlock THEN <<Genesis>> ELSE << >>]
  /\ head = Genesis
  /\ finHeight = -1 /\ finHash = NoBlock
  /\ writing = Idle
  /\ verdict = "none"
  /\ aborts = 0

-----------------------------------------------------------------------------
(* Reads.                                                                  *)

(* get_block finds a block that has both a header and a body.              *)
Readable == headers \cap bodies

(* get_block_by_number(number - 1)                                         *)
ParentByNumber(b) ==
  {p \in Readable : NumberOf[b] > 0 /\ NumberOf[b] - 1 \in Numbers
                    /\ byNumber[NumberOf[b] - 1] = p}

(* The walk of get_block along parent_hash, down to the zero hash.         *)
Line[b \in Blocks] ==
  IF b \notin Readable THEN {}
  ELSE IF ParentOf[b] = NoBlock THEN {b}
  ELSE {b} \cup Line[ParentOf[b]]

(* common_ancestor: the first of b's line that is on a's.                  *)
CommonAncestors(a, b) ==
  {c \in Line[a] \cap Line[b] :
     \A d \in Line[a] \cap Line[b] : NumberOf[d] <= NumberOf[c]}

-----------------------------------------------------------------------------
(* The checks of accept_block, in their order.                             *)

(* validate_block_header                                                   *)
HeaderFits(b, p, now) ==
  /\ ParentOf[b] = p
  /\ NumberOf[b] = NumberOf[p] + 1
  /\ StampOf[b] > StampOf[p]
  /\ StampOf[b] <= now + BlockTime

(* Mutant: the parent's hash is not compared.                              *)
FitsByNumber(b, now) ==
  \A p \in ParentByNumber(b) : HeaderFits(b, ParentOf[b], now)

Fits(b, now) == \A p \in ParentByNumber(b) : HeaderFits(b, p, now)

HasParent(b) == NumberOf[b] = 0 \/ ParentByNumber(b) # {}

(* The check of the finalized checkpoint: it sees a common ancestor only   *)
(* of a block that is stored already.                                      *)
PastFinality(b) ==
  /\ ParentOf[b] # head
  /\ finHeight >= 0
  /\ \E c \in CommonAncestors(head, b) : NumberOf[c] < finHeight

SignedAt(b) == signed[<<ValidatorOf[b], NumberOf[b]>>]

(* Mutant: only the block at the head's height is compared.                *)
SignedAtHead(b) ==
  /\ SignedAt(b) \notin {NoBlock, b}
  /\ NumberOf[b] = NumberOf[head]

(* Mutant: an absent entry is taken for another block.                     *)
SignedNotThis(b) == SignedAt(b) # b

SignedOther(b) == SignedAt(b) \notin {NoBlock, b}

-----------------------------------------------------------------------------
(* accept_block                                                            *)

Return(kind) == verdict' = kind /\ writing' = Idle

Refuse(kind) ==
  /\ writing = Idle
  /\ Return(kind)
  /\ UNCHANGED <<store, aborts>>

RefuseBody(b) == ~ BodyValid[b] /\ Refuse("invalid body")

RefuseOrphan(b) == BodyValid[b] /\ ~ HasParent(b) /\ Refuse("missing parent")

RefuseHeader(b, now) ==
  BodyValid[b] /\ HasParent(b) /\ ~ Fits(b, now) /\ Refuse("invalid header")

RefuseReorg(b, now) ==
  /\ BodyValid[b] /\ HasParent(b) /\ Fits(b, now)
  /\ PastFinality(b)
  /\ Refuse("past finality")

RefuseDoubleSign(b, now) ==
  /\ BodyValid[b] /\ HasParent(b) /\ Fits(b, now) /\ ~ PastFinality(b)
  /\ SignedOther(b)
  /\ Refuse("double sign")

Admit(b, now) ==
  /\ writing = Idle
  /\ BodyValid[b] /\ HasParent(b) /\ Fits(b, now) /\ ~ PastFinality(b)
  /\ ~ SignedOther(b)
  /\ Len(children[ParentOf[b]]) < MaxChildren
  /\ writing' = [block |-> b, key |-> "header"]
  /\ verdict' = "none"
  /\ UNCHANGED <<store, aborts>>

-----------------------------------------------------------------------------
(* put_block, set_head, update_finalized, save_state_root: one key a step. *)

Then(key) == writing' = [writing EXCEPT !.key = key] /\ UNCHANGED <<verdict, aborts>>

PutHeader ==
  /\ writing.key = "header"
  /\ headers' = headers \cup {writing.block}
  /\ Then("body")
  /\ UNCHANGED <<bodies, byNumber, signed, children, head, finHeight, finHash, roots>>

PutBody ==
  /\ writing.key = "body"
  /\ bodies' = bodies \cup {writing.block}
  /\ Then("number")
  /\ UNCHANGED <<headers, byNumber, signed, children, head, finHeight, finHash, roots>>

(* Mutant: the number is indexed before the body is there.                 *)
PutNumberFirst ==
  /\ writing.key \in {"header", "number"}
  /\ byNumber' = [byNumber EXCEPT ![NumberOf[writing.block]] = writing.block]
  /\ Then(IF writing.key = "header" THEN "body" ELSE "signed")
  /\ headers' = headers \cup {writing.block}
  /\ UNCHANGED <<bodies, signed, children, head, finHeight, finHash, roots>>

PutNumber ==
  /\ writing.key = "number"
  /\ byNumber' = [byNumber EXCEPT ![NumberOf[writing.block]] = writing.block]
  /\ Then("signed")
  /\ UNCHANGED <<headers, bodies, signed, children, head, finHeight, finHash, roots>>

PutSigned ==
  /\ writing.key = "signed"
  /\ signed' = [signed EXCEPT
       ![<<ValidatorOf[writing.block], NumberOf[writing.block]>>] = writing.block]
  /\ Then("children")
  /\ UNCHANGED <<headers, bodies, byNumber, children, head, finHeight, finHash, roots>>

(* Mutants: the list is not written back; the parent is appended.          *)
PutNoChild ==
  /\ writing.key = "children"
  /\ Then("head")
  /\ UNCHANGED store

PutParentAsChild ==
  /\ writing.key = "children"
  /\ children' = [children EXCEPT ![ParentOf[writing.block]] =
                    Append(@, ParentOf[writing.block])]
  /\ Then("head")
  /\ UNCHANGED <<headers, bodies, byNumber, signed, head, finHeight, finHash, roots>>

PutChildren ==
  /\ writing.key = "children"
  /\ children' = [children EXCEPT ![ParentOf[writing.block]] =
                    Append(@, writing.block)]
  /\ Then("head")
  /\ UNCHANGED <<headers, bodies, byNumber, signed, head, finHeight, finHash, roots>>

SetHead ==
  /\ writing.key = "head"
  /\ head' = writing.block
  /\ Then(IF NumberOf[writing.block] < Depth THEN "root" ELSE "finHeight")
  /\ UNCHANGED <<headers, bodies, byNumber, signed, children, finHeight, finHash, roots>>

(* Mutant: the checkpoint trails the head by one block too few.            *)
CheckpointNear(b) ==
  {c \in Readable \cap Line[b] : NumberOf[c] = NumberOf[b] - Depth + 1}

(* update_finalized's walk: the ancestor Depth blocks behind the head.     *)
Checkpoint(b) == {c \in Readable \cap Line[b] : NumberOf[c] = NumberOf[b] - Depth}

PutFinHeight ==
  /\ writing.key = "finHeight"
  /\ Checkpoint(writing.block) # {}
  /\ finHeight' = NumberOf[writing.block] - Depth
  /\ Then("finHash")
  /\ UNCHANGED <<headers, bodies, byNumber, signed, children, head, finHash, roots>>

PutFinHash ==
  /\ writing.key = "finHash"
  /\ finHash' \in Checkpoint(writing.block)
  /\ Then("root")
  /\ UNCHANGED <<headers, bodies, byNumber, signed, children, head, finHeight, roots>>

PutRoot ==
  /\ writing.key = "root"
  /\ roots' = roots \cup {writing.block}
  /\ Return("accepted")
  /\ UNCHANGED <<headers, bodies, byNumber, signed, children, head, finHeight,
                 finHash, aborts>>

(* The process stops, or a write fails and accept_block returns its error: *)
(* what is written stays, and the rest is never written.                   *)
Abort ==
  /\ writing # Idle
  /\ aborts < MaxAborts
  /\ aborts' = aborts + 1
  /\ Return("aborted")
  /\ UNCHANGED store

Put ==
  \/ PutHeader \/ PutBody \/ PutNumber \/ PutSigned \/ PutChildren
  \/ SetHead \/ PutFinHeight \/ PutFinHash \/ PutRoot

Offer(b, now) ==
  \/ RefuseBody(b) \/ RefuseOrphan(b) \/ RefuseHeader(b, now)
  \/ RefuseReorg(b, now) \/ RefuseDoubleSign(b, now) \/ Admit(b, now)

Next == Put \/ Abort \/ \E b \in Blocks, now \in Times : Offer(b, now)

Spec == Init /\ [][Next]_vars

-----------------------------------------------------------------------------
(* The fork rules of core/src/fork.rs, which read the store.               *)

(* subtree_stake: the lists of children are summed entry by entry.         *)
SubtreeStake[b \in Blocks] ==
  LET Sum[i \in 0 .. Len(children[b])] ==
        IF i = 0 THEN 0 ELSE Sum[i - 1] + SubtreeStake[children[b][i]]
  IN IF b \in Readable THEN StakeOf[ValidatorOf[b]] + Sum[Len(children[b])] ELSE 0

(* canonical_head: from genesis, the heaviest child, the last of equals.   *)
CanonicalFrom[b \in Blocks] ==
  LET c == children[b]
      best == CHOOSE i \in DOMAIN c :
                /\ \A j \in DOMAIN c : SubtreeStake[c[j]] <= SubtreeStake[c[i]]
                /\ \A j \in i + 1 .. Len(c) : SubtreeStake[c[j]] < SubtreeStake[c[i]]
  IN IF c = << >> THEN b ELSE CanonicalFrom[c[best]]

CanonicalHead ==
  IF byNumber[0] \in Readable THEN CanonicalFrom[byNumber[0]] ELSE head

(* reorg_blocks: from a head down to the common ancestor.  It is on the    *)
(* head's line; a walk that missed it would end where there is no block.   *)
Below(b, c) ==
  LET Down[d \in Blocks] ==
        IF d = c \/ d \notin Readable THEN << >>
        ELSE IF ParentOf[d] = NoBlock THEN <<d>>
        ELSE <<d>> \o Down[ParentOf[d]]
  IN Down[b]

(* Mutant: the blocks to apply are not reversed.                           *)
ReorgDownward(old, new) ==
  LET c == CHOOSE x \in CommonAncestors(old, new) : TRUE
  IN [revert |-> Below(old, c), apply |-> Below(new, c)]

ReorgBlocks(old, new) ==
  LET c == CHOOSE x \in CommonAncestors(old, new) : TRUE
      down == Below(new, c)
  IN [revert |-> Below(old, c),
      apply  |-> [i \in DOMAIN down |-> down[Len(down) - i + 1]]]

-----------------------------------------------------------------------------
(* Properties.                                                             *)

Quiet == writing = Idle

(* Whatever write was the last, every hash a reader can follow - the head, *)
(* the checkpoint, an entry of the number index, of the double-sign index, *)
(* of a children list - leads to a block that get_block returns.           *)
RefsReadable ==
  /\ head \in Readable
  /\ finHash \in Readable \cup {NoBlock}
  /\ \A n \in Numbers : byNumber[n] \in Readable \cup {NoBlock}
  /\ \A k \in Validators \X Numbers : signed[k] \in Readable \cup {NoBlock}
  /\ \A b \in Blocks \cup {NoBlock} : \A i \in DOMAIN children[b] :
       children[b][i] \in Readable

(* Every stored block stands on a stored parent one number below and       *)
(* strictly earlier, although accept_block looks the parent up by its      *)
(* number, in an index that later blocks overwrite.                        *)
ParentsStored ==
  \A b \in Readable : NumberOf[b] > 0 =>
    /\ ParentOf[b] \in Readable
    /\ NumberOf[b] = NumberOf[ParentOf[b]] + 1
    /\ StampOf[b] > StampOf[ParentOf[b]]

(* A validator never has two blocks of one height in the store: the second *)
(* is refused as a double sign, whichever of the two became the head.  A   *)
(* crash between the body and the signed_block key would forget the first. *)
OneBlockPerHeight ==
  aborts = 0 => \A b, c \in Readable :
    NumberOf[b] = NumberOf[c] /\ ValidatorOf[b] = ValidatorOf[c] => b = c

(* A block refused as a double sign has a rival: a stored block, another,  *)
(* of the same validator and height.  No one is slashed for one block.     *)
DoubleSignEvident ==
  \A b \in Blocks : SignedOther(b) =>
    \E first \in Readable \ {b} :
      /\ NumberOf[first] = NumberOf[b]
      /\ ValidatorOf[first] = ValidatorOf[b]

(* Between two blocks, unless a write failed, the checkpoint is the        *)
(* ancestor of the head Depth blocks behind it, forks and blocks accepted  *)
(* again included, once the head is that high.                             *)
CheckpointBehindHead ==
  Quiet /\ aborts = 0 /\ NumberOf[head] >= Depth =>
    /\ finHeight = NumberOf[head] - Depth
    /\ finHash \in Line[head]
    /\ NumberOf[finHash] = finHeight

(* GHOST on a store without forks: the heaviest line is the only one, and  *)
(* its end is the head.  (Unless a write failed: a block whose key in the  *)
(* children list was never written is not seen by the fork choice.)        *)
CanonicalOnOneLine ==
  Quiet /\ aborts = 0 /\ (\A b \in Blocks \cup {NoBlock} : Len(children[b]) <= 1) =>
    CanonicalHead = head

(* What reorg_blocks answers for the heads of two lines is a path: undone  *)
(* from the old head down, done from the common ancestor up to the new.    *)
ReorgIsPath ==
  \A a, b \in Readable : CommonAncestors(a, b) # {} =>
    LET r == ReorgBlocks(a, b)
        base == CHOOSE x \in CommonAncestors(a, b) : TRUE
        start == <<base>> \o r.apply
    IN /\ {r.revert[i] : i \in DOMAIN r.revert} = Line[a] \ Line[b]
       /\ \A i \in 1 .. Len(r.apply) : ParentOf[start[i + 1]] = start[i]
       /\ start[Len(start)] = b

(* "Depth (in blocks) before head that is considered finalized. Reorgs     *)
(* cannot go past this" (chain.rs:24): a finalized block stays the         *)
(* ancestor of every later finalized block.                                *)
FinalizedKept ==
  [][finHash # NoBlock => finHash \in Line[finHash']]_finHash

=============================================================================
