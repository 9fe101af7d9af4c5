---------------------------- MODULE ChainProofs ----------------------------
(***************************************************************************)
(* The store between any two writes, for every set of blocks, offered in   *)
(* any order and again: what a reader follows is there, every block stands *)
(* on its parent, and no validator has two blocks of one height.  Then the *)
(* walks along a line of blocks: the checkpoint, the path that             *)
(* reorg_blocks answers, and the fork choice where there is no fork.       *)
(***************************************************************************)
EXTENDS Chain, FoldLemmas, FiniteSetTheorems, SequenceTheorems, TLAPS

Writing(keys) == writing.key \in keys

(* A body is written after its header; from then on its block is readable, *)
(* and it stays so.                                                        *)
BodiesHeaded ==
  /\ bodies \subseteq headers
  /\ Writing({"body"}) => writing.block \in headers
  /\ Writing({"number", "signed", "children", "head", "finHeight", "finHash", "root"})
       => writing.block \in Readable

StandsOnParent(b) ==
  NumberOf[b] > 0 =>
    /\ ParentOf[b] \in Readable
    /\ NumberOf[b] = NumberOf[ParentOf[b]] + 1
    /\ StampOf[b] > StampOf[ParentOf[b]]

(* The block being written stands on its parent as the stored ones do.     *)
ParentReady == writing # Idle => StandsOnParent(writing.block)

(* The double-sign index names the block it was written for.               *)
SignedRight ==
  \A k \in Validators \X Numbers : signed[k] # NoBlock =>
    k = <<ValidatorOf[signed[k]], NumberOf[signed[k]]>>

(* Unless a write failed, every stored block is in the double-sign index,  *)
(* or about to be, in a place that is free.                                *)
SignedAll ==
  aborts = 0 =>
    /\ \A c \in Readable :
         SignedAt(c) = c \/ (writing.block = c /\ Writing({"number", "signed"}))
    /\ Writing({"header", "body", "number", "signed"}) => ~ SignedOther(writing.block)

Inv ==
  /\ TypeOK /\ BodiesHeaded /\ RefsReadable
  /\ ParentsStored /\ ParentReady
  /\ SignedRight /\ SignedAll

-----------------------------------------------------------------------------
(* Initially only the genesis block is there.                              *)
LEMMA InitHolds == Init => Inv
<1> SUFFICES ASSUME Init PROVE Inv
  OBVIOUS
<1>1. 0 \in Numbers /\ ValidatorOf[Genesis] \in Validators /\ NumberOf[Genesis] = 0
  BY ChainAssumption DEF Numbers, Validators
<1>2. Readable = {Genesis}
  BY DEF Init, Readable
<1>3. writing = Idle /\ writing.key = "none"
  BY DEF Init, Idle
<1>4. TypeOK
  BY <1>1, ChainAssumption DEF Init, TypeOK, Verdicts
<1>5. BodiesHeaded /\ ParentReady
  BY <1>3 DEF Init, BodiesHeaded, ParentReady, Writing
<1>6. RefsReadable
  BY <1>1, <1>2 DEF Init, RefsReadable
<1>7. ParentsStored
  BY <1>1, <1>2 DEF ParentsStored
<1>8. SignedRight /\ SignedAll
  BY <1>1, <1>2, <1>3, ChainAssumption DEF Init, SignedRight, SignedAll, SignedAt, Writing
<1>9. QED
  BY <1>4, <1>5, <1>6, <1>7, <1>8 DEF Inv

-----------------------------------------------------------------------------
(* The block that is written is one of the set.                            *)
LEMMA InFlight ==
  ASSUME TypeOK, writing.key \in Keys
  PROVE  /\ writing # Idle
         /\ writing \in [block : Blocks, key : Keys]
         /\ writing.block \in Blocks /\ writing.block # NoBlock
         /\ NumberOf[writing.block] \in Numbers /\ NumberOf[writing.block] \in Nat
         /\ ValidatorOf[writing.block] \in Validators
         /\ ParentOf[writing.block] \in Blocks \cup {NoBlock}
<1>1. Idle.key \notin Keys
  BY DEF Idle, Keys
<1>2. writing # Idle /\ writing \in [block : Blocks, key : Keys]
  BY <1>1 DEF TypeOK
<1>3. writing.block \in Blocks
  BY <1>2
<1>4. QED
  BY <1>2, <1>3, ChainAssumption DEF Numbers, Validators

(* The next key is one of the list.                                        *)
LEMMA NextKey ==
  ASSUME TypeOK, writing.key \in Keys, NEW key \in Keys, Then(key)
  PROVE  /\ writing' \in [block : Blocks, key : Keys]
         /\ writing'.block = writing.block /\ writing'.key = key
         /\ verdict' = verdict /\ aborts' = aborts
BY InFlight DEF Then

(* An answer ends the call, and touches at most the root of the block.     *)
LEMMA ReturnKeeps ==
  ASSUME Inv, NEW kind \in Verdicts, Return(kind),
         UNCHANGED <<headers, bodies, byNumber, signed, children, head, finHeight, finHash>>,
         roots' \subseteq Blocks, aborts' \in 0 .. MaxAborts,
         aborts' = 0 => aborts = 0 /\ writing.key \notin {"number", "signed"}
  PROVE  Inv'
<1>1. writing' = Idle /\ writing'.key = "none" /\ verdict' \in Verdicts
  BY DEF Return, Idle
<1>2. TypeOK'
  BY <1>1 DEF Inv, TypeOK
<1>3. Readable' = Readable
  BY DEF Readable
<1>4. BodiesHeaded' /\ ParentReady'
  BY <1>1 DEF Inv, BodiesHeaded, ParentReady, Writing
<1>5. RefsReadable' /\ ParentsStored'
  BY <1>3 DEF Inv, RefsReadable, ParentsStored
<1>6. SignedRight' /\ SignedAll'
  BY <1>1, <1>3 DEF Inv, SignedRight, SignedAll, SignedAt, Writing
<1>7. QED
  BY <1>2, <1>4, <1>5, <1>6 DEF Inv

(* A block is admitted on the parent it names, although the parent is      *)
(* looked up by its number.                                                *)
LEMMA AdmitKeeps ==
  ASSUME Inv, NEW b \in Blocks, NEW now \in Times, Admit(b, now)
  PROVE  Inv'
<1>1. /\ writing' = [block |-> b, key |-> "header"] /\ verdict' = "none"
      /\ UNCHANGED <<headers, bodies, byNumber, signed, children, head, finHeight,
                     finHash, roots, aborts>>
      /\ HasParent(b) /\ Fits(b, now) /\ ~ SignedOther(b) /\ writing = Idle
  BY DEF Admit, store
<1>2. writing' \in [block : Blocks, key : Keys] /\ writing'.key = "header"
      /\ writing'.block = b /\ writing.key = "none"
  BY <1>1 DEF Keys, Idle
<1>3. TypeOK'
  BY <1>1, <1>2 DEF Inv, TypeOK, Verdicts
<1>4. Readable' = Readable
  BY <1>1 DEF Readable
<1>5. BodiesHeaded'
  BY <1>1, <1>2 DEF Inv, BodiesHeaded, Writing
<1>6. RefsReadable' /\ ParentsStored'
  BY <1>1, <1>4 DEF Inv, RefsReadable, ParentsStored
<1>7. StandsOnParent(b)
  <2>1. ASSUME NumberOf[b] > 0
        PROVE  /\ ParentOf[b] \in Readable
               /\ NumberOf[b] = NumberOf[ParentOf[b]] + 1
               /\ StampOf[b] > StampOf[ParentOf[b]]
    <3>1. PICK p \in ParentByNumber(b) : TRUE
      BY <1>1, <2>1 DEF HasParent
    <3>2. p \in Readable
      BY DEF ParentByNumber
    <3>3. HeaderFits(b, p, now)
      BY <1>1 DEF Fits
    <3>4. QED
      BY <3>2, <3>3 DEF HeaderFits
  <2>2. QED
    BY <2>1 DEF StandsOnParent
<1>8. ParentReady'
  BY <1>2, <1>4, <1>7 DEF ParentReady, StandsOnParent
<1>9. SignedRight' /\ SignedAll'
  BY <1>1, <1>2, <1>4 DEF Inv, SignedRight, SignedAll, SignedAt, SignedOther, Writing
<1>10. QED
  BY <1>3, <1>5, <1>6, <1>8, <1>9 DEF Inv

-----------------------------------------------------------------------------
(* The keys of a block, one after the other.                               *)

(* What the header and the body are written into.                          *)
LEMMA PutHeaderKeeps ==
  ASSUME Inv, PutHeader
  PROVE  Inv'
<1> DEFINE b == writing.block
<1>1. /\ writing.key = "header" /\ writing.key \in Keys /\ headers' = headers \cup {b}
      /\ UNCHANGED <<bodies, byNumber, signed, children, head, finHeight, finHash, roots>>
      /\ Then("body") /\ "body" \in Keys
  BY DEF PutHeader, Keys
<1>2. /\ writing' \in [block : Blocks, key : Keys] /\ writing'.block = b
      /\ writing'.key = "body" /\ verdict' = verdict /\ aborts' = aborts
      /\ b \in Blocks /\ writing # Idle
  BY <1>1, InFlight, NextKey DEF Inv
<1>3. TypeOK'
  BY <1>1, <1>2 DEF Inv, TypeOK
<1>4. Readable' = Readable
  BY <1>1 DEF Inv, BodiesHeaded, Readable
<1>5. BodiesHeaded'
  BY <1>1, <1>2 DEF Inv, BodiesHeaded, Writing
<1>6. RefsReadable' /\ ParentsStored'
  BY <1>1, <1>4 DEF Inv, RefsReadable, ParentsStored
<1>7. ParentReady'
  BY <1>2, <1>4 DEF Inv, ParentReady, StandsOnParent
<1>8. SignedRight' /\ SignedAll'
  BY <1>1, <1>2, <1>4 DEF Inv, SignedRight, SignedAll, SignedAt, SignedOther, Writing
<1>9. QED
  BY <1>3, <1>5, <1>6, <1>7, <1>8 DEF Inv

LEMMA PutBodyKeeps ==
  ASSUME Inv, PutBody
  PROVE  Inv'
<1> DEFINE b == writing.block
<1>1. /\ writing.key = "body" /\ writing.key \in Keys /\ bodies' = bodies \cup {b}
      /\ UNCHANGED <<headers, byNumber, signed, children, head, finHeight, finHash, roots>>
      /\ Then("number") /\ "number" \in Keys
  BY DEF PutBody, Keys
<1>2. /\ writing' \in [block : Blocks, key : Keys] /\ writing'.block = b
      /\ writing'.key = "number" /\ verdict' = verdict /\ aborts' = aborts
      /\ b \in Blocks /\ writing # Idle
  BY <1>1, InFlight, NextKey DEF Inv
<1>3. TypeOK'
  BY <1>1, <1>2 DEF Inv, TypeOK
<1>4. Readable' = Readable \cup {b} /\ b \in headers
  BY <1>1 DEF Inv, BodiesHeaded, Readable, Writing
<1>5. BodiesHeaded'
  BY <1>1, <1>2, <1>4 DEF Inv, BodiesHeaded, Writing
<1>6. RefsReadable'
  BY <1>1, <1>4 DEF Inv, RefsReadable
<1>7. StandsOnParent(b)
  BY <1>2 DEF Inv, ParentReady
<1>8. ParentsStored' /\ ParentReady'
  BY <1>2, <1>4, <1>7 DEF Inv, ParentsStored, ParentReady, StandsOnParent
<1>9. SignedRight'
  BY <1>1 DEF Inv, SignedRight
<1>10. SignedAll'
  BY <1>1, <1>2, <1>4 DEF Inv, SignedAll, SignedAt, SignedOther, Writing
<1>11. QED
  BY <1>3, <1>5, <1>6, <1>8, <1>9, <1>10 DEF Inv

(* From here on the block is readable; what is left refers to it.           *)
LEMMA RestKeeps ==
  ASSUME Inv, writing.key \in Keys, NEW key \in Keys \ {"header", "body"}, Then(key),
         writing.block \in Readable,
         headers' = headers, bodies' = bodies, roots' = roots
  PROVE  /\ Readable' = Readable /\ writing'.key = key /\ writing'.block = writing.block
         /\ BodiesHeaded' /\ ParentsStored' /\ ParentReady'
         /\ byNumber' \in [Numbers -> Blocks \cup {NoBlock}] /\
            signed' \in [Validators \X Numbers -> Blocks \cup {NoBlock}] /\
            children' \in [Blocks \cup {NoBlock} -> Seq(Blocks)] /\
            head' \in Blocks /\ finHeight' \in Nat \cup {-1} /\
            finHash' \in Blocks \cup {NoBlock} => TypeOK'
<1>1. /\ writing' \in [block : Blocks, key : Keys] /\ writing'.block = writing.block
      /\ writing'.key = key /\ verdict' = verdict /\ aborts' = aborts /\ writing # Idle
  BY InFlight, NextKey DEF Inv
<1>2. Readable' = Readable
  BY DEF Readable
<1>3. BodiesHeaded'
  BY <1>1, <1>2 DEF Inv, BodiesHeaded, Writing
<1>4. ParentsStored' /\ ParentReady'
  BY <1>1, <1>2 DEF Inv, ParentsStored, ParentReady, StandsOnParent
<1>5. QED
  BY <1>1, <1>2, <1>3, <1>4 DEF Inv, TypeOK

LEMMA PutNumberKeeps ==
  ASSUME Inv, PutNumber
  PROVE  Inv'
<1> DEFINE b == writing.block
<1>1. /\ writing.key = "number" /\ byNumber' = [byNumber EXCEPT ![NumberOf[b]] = b]
      /\ UNCHANGED <<headers, bodies, signed, children, head, finHeight, finHash, roots>>
      /\ Then("signed") /\ "signed" \in Keys \ {"header", "body"} /\ writing.key \in Keys
  BY DEF PutNumber, Keys
<1>2. b \in Readable /\ b \in Blocks /\ NumberOf[b] \in Numbers /\ aborts' = aborts
  BY <1>1, InFlight, NextKey DEF Inv, BodiesHeaded, Writing
<1>3. /\ Readable' = Readable /\ writing'.key = "signed" /\ writing'.block = b
      /\ BodiesHeaded' /\ ParentsStored' /\ ParentReady'
  BY <1>1, <1>2, RestKeeps
<1>4. TypeOK'
  <2>1. byNumber' \in [Numbers -> Blocks \cup {NoBlock}]
    BY <1>1, <1>2 DEF Inv, TypeOK
  <2>2. QED
    BY <1>1, <1>2, <2>1, RestKeeps DEF Inv, TypeOK
<1>5. RefsReadable'
  BY <1>1, <1>2, <1>3 DEF Inv, TypeOK, RefsReadable
<1>6. SignedRight' /\ SignedAll'
  BY <1>1, <1>2, <1>3 DEF Inv, SignedRight, SignedAll, SignedAt, SignedOther, Writing
<1>7. QED
  BY <1>3, <1>4, <1>5, <1>6 DEF Inv

(* The block takes its place in the double-sign index: the place was free,  *)
(* or the block's own, so no other block loses one.                         *)
LEMMA PutSignedKeeps ==
  ASSUME Inv, PutSigned
  PROVE  Inv'
<1> DEFINE b == writing.block
<1> DEFINE k == <<ValidatorOf[b], NumberOf[b]>>
<1>1. /\ writing.key = "signed" /\ signed' = [signed EXCEPT ![k] = b]
      /\ UNCHANGED <<headers, bodies, byNumber, children, head, finHeight, finHash, roots>>
      /\ Then("children") /\ "children" \in Keys \ {"header", "body"} /\ writing.key \in Keys
  BY DEF PutSigned, Keys
<1>2. /\ b \in Readable /\ b \in Blocks /\ k \in Validators \X Numbers /\ b # NoBlock
      /\ aborts' = aborts
  BY <1>1, InFlight, NextKey DEF Inv, BodiesHeaded, Writing
<1>3. /\ Readable' = Readable /\ writing'.key = "children" /\ writing'.block = b
      /\ BodiesHeaded' /\ ParentsStored' /\ ParentReady'
  BY <1>1, <1>2, RestKeeps
<1>4. signed \in [Validators \X Numbers -> Blocks \cup {NoBlock}]
  BY DEF Inv, TypeOK
<1>5. TypeOK'
  <2>1. signed' \in [Validators \X Numbers -> Blocks \cup {NoBlock}]
    BY <1>1, <1>2, <1>4
  <2>2. QED
    BY <1>1, <1>2, <2>1, RestKeeps DEF Inv, TypeOK
<1>6. \A l \in Validators \X Numbers : signed'[l] = IF l = k THEN b ELSE signed[l]
  BY <1>1, <1>4
<1>7. RefsReadable'
  BY <1>1, <1>2, <1>3, <1>6 DEF Inv, RefsReadable
<1>8. SignedRight'
  BY <1>6 DEF Inv, SignedRight
<1>9. SignedAll'
  <2>1. ASSUME aborts = 0, NEW c \in Readable
        PROVE  signed'[<<ValidatorOf[c], NumberOf[c]>>] = c
    <3>1. <<ValidatorOf[c], NumberOf[c]>> \in Validators \X Numbers /\ c \in Blocks
      BY DEF Inv, TypeOK, Readable, Validators, Numbers
    <3>2. CASE c = b
      BY <1>6, <3>1, <3>2
    <3>3. CASE c # b
      <4>1. signed[<<ValidatorOf[c], NumberOf[c]>>] = c
        BY <2>1, <3>3 DEF Inv, SignedAll, SignedAt
      <4>2. signed[k] \in {NoBlock, b}
        BY <1>1, <2>1 DEF Inv, SignedAll, SignedAt, SignedOther, Writing
      <4>3. <<ValidatorOf[c], NumberOf[c]>> # k
        BY <3>1, <3>3, <4>1, <4>2, ChainAssumption
      <4>4. QED
        BY <1>6, <3>1, <4>1, <4>3
    <3>4. QED
      BY <3>2, <3>3
  <2>2. QED
    BY <1>2, <1>3, <2>1 DEF SignedAll, SignedAt, Writing
<1>10. QED
  BY <1>3, <1>5, <1>7, <1>8, <1>9 DEF Inv

LEMMA PutChildrenKeeps ==
  ASSUME Inv, PutChildren
  PROVE  Inv'
<1> DEFINE b == writing.block
<1> DEFINE p == ParentOf[b]
<1>1. /\ writing.key = "children" /\ children' = [children EXCEPT ![p] = Append(children[p], b)]
      /\ UNCHANGED <<headers, bodies, byNumber, signed, head, finHeight, finHash, roots>>
      /\ Then("head") /\ "head" \in Keys \ {"header", "body"} /\ writing.key \in Keys
  BY DEF PutChildren, Keys
<1>2. b \in Readable /\ b \in Blocks /\ p \in Blocks \cup {NoBlock} /\ aborts' = aborts
  BY <1>1, InFlight, NextKey DEF Inv, BodiesHeaded, Writing
<1>3. /\ Readable' = Readable /\ writing'.key = "head" /\ writing'.block = b
      /\ BodiesHeaded' /\ ParentsStored' /\ ParentReady'
  BY <1>1, <1>2, RestKeeps
<1>4. /\ children \in [Blocks \cup {NoBlock} -> Seq(Blocks)]
      /\ \A c \in Blocks \cup {NoBlock} :
           children'[c] = IF c = p THEN Append(children[c], b) ELSE children[c]
  BY <1>1 DEF Inv, TypeOK
<1>5. TypeOK'
  <2>1. children' \in [Blocks \cup {NoBlock} -> Seq(Blocks)]
    BY <1>1, <1>2, <1>4
  <2>2. QED
    BY <1>1, <1>2, <2>1, RestKeeps DEF Inv, TypeOK
<1>6. ASSUME NEW c \in Blocks \cup {NoBlock}, NEW i \in DOMAIN children'[c]
      PROVE  children'[c][i] \in Readable
  <2>1. children[c] \in Seq(Blocks) /\ \A j \in DOMAIN children[c] : children[c][j] \in Readable
    BY <1>4 DEF Inv, RefsReadable
  <2>2. CASE c = p
    <3>1. children'[c] = Append(children[c], b)
      BY <1>4, <2>2
    <3>2. QED
      BY <1>2, <2>1, <3>1
  <2>3. CASE c # p
    BY <1>4, <2>1, <2>3
  <2>4. QED
    BY <2>2, <2>3
<1>7. RefsReadable'
  BY <1>1, <1>3, <1>6 DEF Inv, RefsReadable
<1>8. SignedRight' /\ SignedAll'
  BY <1>1, <1>2, <1>3 DEF Inv, SignedRight, SignedAll, SignedAt, Writing
<1>9. QED
  BY <1>3, <1>5, <1>7, <1>8 DEF Inv

(* The head and the checkpoint are references too: nothing else moves.      *)
LEMMA PointersKeep ==
  ASSUME Inv, SetHead \/ PutFinHeight \/ PutFinHash
  PROVE  Inv'
<1> DEFINE b == writing.block
<1>1. /\ writing.key \in {"head", "finHeight", "finHash"} /\ writing.key \in Keys
      /\ UNCHANGED <<headers, bodies, byNumber, signed, children, roots>>
      /\ head' \in {head, b}
      /\ \/ finHeight' = finHeight
         \/ finHeight' = NumberOf[b] - Depth /\ Checkpoint(b) # {}
      /\ finHash' = finHash \/ finHash' \in Checkpoint(b)
  <2>1. CASE SetHead
    BY <2>1 DEF SetHead, Keys
  <2>2. CASE PutFinHeight
    BY <2>2 DEF PutFinHeight, Keys
  <2>3. CASE PutFinHash
    BY <2>3 DEF PutFinHash, Keys
  <2>4. QED
    BY <2>1, <2>2, <2>3
<1>2. PICK key \in {"finHeight", "finHash", "root"} : Then(key)
  BY DEF SetHead, PutFinHeight, PutFinHash
<1>3. key \in Keys \ {"header", "body"}
  BY DEF Keys
<1>4. b \in Readable /\ b \in Blocks /\ aborts' = aborts
  BY <1>1, <1>2, <1>3, InFlight, NextKey DEF Inv, BodiesHeaded, Writing
<1>5. /\ Readable' = Readable /\ writing'.key = key /\ writing'.block = b
      /\ BodiesHeaded' /\ ParentsStored' /\ ParentReady'
  BY <1>1, <1>2, <1>3, <1>4, RestKeeps
<1>6. Readable \subseteq Blocks
  BY DEF Inv, TypeOK, Readable
<1>7. head' \in Readable /\ finHash' \in Readable \cup {NoBlock}
  BY <1>1, <1>4 DEF Inv, RefsReadable, Checkpoint
<1>8. finHeight' \in Nat \cup {-1}
  <2>1. CASE finHeight' = finHeight
    BY <2>1 DEF Inv, TypeOK
  <2>2. CASE finHeight' = NumberOf[b] - Depth /\ Checkpoint(b) # {}
    <3>1. PICK c \in Checkpoint(b) : TRUE
      BY <2>2
    <3>2. c \in Blocks /\ NumberOf[c] = NumberOf[b] - Depth
      BY <1>6 DEF Checkpoint
    <3>3. NumberOf[c] \in Nat
      BY <3>2, ChainAssumption
    <3>4. QED
      BY <2>2, <3>2, <3>3
  <2>3. QED
    BY <1>1, <2>1, <2>2
<1>9. TypeOK'
  BY <1>1, <1>2, <1>3, <1>4, <1>6, <1>7, <1>8, RestKeeps DEF Inv, TypeOK
<1>10. RefsReadable'
  BY <1>1, <1>5, <1>7 DEF Inv, RefsReadable
<1>11. SignedRight' /\ SignedAll'
  BY <1>1, <1>4, <1>5 DEF Inv, SignedRight, SignedAll, SignedAt, Writing
<1>12. QED
  BY <1>5, <1>9, <1>10, <1>11 DEF Inv

-----------------------------------------------------------------------------
LEMMA NextKeeps ==
  ASSUME Inv, [Next]_vars
  PROVE  Inv'
<1>1. CASE UNCHANGED vars
  BY <1>1 DEF vars, store, Inv, TypeOK, BodiesHeaded, RefsReadable, ParentsStored,
              ParentReady, StandsOnParent, SignedRight, SignedAll, SignedAt, SignedOther,
              Writing, Readable
<1>2. CASE PutRoot
  <2>1. /\ Return("accepted") /\ "accepted" \in Verdicts /\ writing.key = "root"
        /\ UNCHANGED <<headers, bodies, byNumber, signed, children, head, finHeight, finHash,
                       aborts>>
        /\ roots' = roots \cup {writing.block} /\ writing.key \in Keys
    BY <1>2 DEF PutRoot, Verdicts, Keys
  <2>2. roots' \subseteq Blocks /\ aborts' \in 0 .. MaxAborts
    BY <2>1, InFlight DEF Inv, TypeOK
  <2>3. QED
    BY <2>1, <2>2, ReturnKeeps
<1>3. CASE Abort
  <2>1. /\ Return("aborted") /\ "aborted" \in Verdicts
        /\ UNCHANGED <<headers, bodies, byNumber, signed, children, head, finHeight, finHash,
                       roots>>
        /\ aborts' = aborts + 1 /\ aborts < MaxAborts
    BY <1>3 DEF Abort, store, Verdicts
  <2>2. aborts \in 0 .. MaxAborts /\ roots \subseteq Blocks
    BY DEF Inv, TypeOK
  <2>3. aborts' \in 0 .. MaxAborts /\ aborts' # 0
    BY <2>1, <2>2, ChainAssumption
  <2>4. QED
    BY <2>1, <2>2, <2>3, ReturnKeeps
<1>4. ASSUME NEW b \in Blocks, NEW now \in Times, Offer(b, now)
      PROVE  Inv'
  <2>1. CASE Admit(b, now)
    BY <2>1, AdmitKeeps
  <2>2. ASSUME NEW kind \in Verdicts, Refuse(kind)
        PROVE  Inv'
    <3>1. /\ Return(kind) /\ writing.key = "none" /\ aborts' = aborts
          /\ UNCHANGED <<headers, bodies, byNumber, signed, children, head, finHeight,
                         finHash, roots>>
      BY <2>2 DEF Refuse, store, Idle
    <3>2. aborts' \in 0 .. MaxAborts /\ roots' \subseteq Blocks
      BY <3>1 DEF Inv, TypeOK
    <3>3. QED
      BY <3>1, <3>2, ReturnKeeps
  <2>3. QED
    BY <1>4, <2>1, <2>2 DEF Offer, RefuseBody, RefuseOrphan, RefuseHeader, RefuseReorg,
                            RefuseDoubleSign, Verdicts
<1>5. QED
  BY <1>1, <1>2, <1>3, <1>4, PutHeaderKeeps, PutBodyKeeps, PutNumberKeeps, PutSignedKeeps,
     PutChildrenKeeps, PointersKeep DEF Next, Put

(* The invariant, whatever is offered and wherever a write fails.          *)
THEOREM ChainInvariant == Spec => []Inv
<1>1. Inv /\ [Next]_vars => Inv'
  BY NextKeeps
<1>2. QED
  BY InitHolds, <1>1, PTL DEF Spec

(* The keys of the store hold blocks, heights and lists of blocks only.    *)
THEOREM ChainTypeCorrect == Spec => []TypeOK
<1>1. Inv => TypeOK
  BY DEF Inv
<1>2. QED
  BY <1>1, ChainInvariant, PTL

(* Between any two writes, whatever hash a reader follows is there.        *)
THEOREM NothingDangles == Spec => []RefsReadable
<1>1. Inv => RefsReadable
  BY DEF Inv
<1>2. QED
  BY <1>1, ChainInvariant, PTL

(* The parent that was looked up by its number is the parent that the      *)
(* block names.                                                            *)
THEOREM EveryParentStored == Spec => []ParentsStored
<1>1. Inv => ParentsStored
  BY DEF Inv
<1>2. QED
  BY <1>1, ChainInvariant, PTL

(* Unless a write failed, the index keeps every validator to one block of  *)
(* a height.                                                               *)
THEOREM NoSecondBlock == Spec => []OneBlockPerHeight
<1>1. Inv => OneBlockPerHeight
  <2>1. ASSUME Inv, aborts = 0, NEW b \in Readable, NEW c \in Readable,
               NumberOf[b] = NumberOf[c], ValidatorOf[b] = ValidatorOf[c]
        PROVE  b = c
    <3>1. SignedAt(b) = SignedAt(c) /\ b # NoBlock /\ c # NoBlock
      BY <2>1, ChainAssumption DEF SignedAt, Inv, TypeOK, Readable
    <3>2. \A d \in Readable :
            SignedAt(d) = d \/ (d = writing.block /\ SignedAt(d) \in {NoBlock, d})
      BY <2>1 DEF Inv, SignedAll, SignedOther, Writing
    <3>3. QED
      BY <3>1, <3>2
  <2>2. QED
    BY <2>1 DEF OneBlockPerHeight
<1>2. QED
  BY <1>1, ChainInvariant, PTL

(* Whoever is refused as a double signer has signed another stored block.  *)
THEOREM AccusedWithEvidence == Spec => []DoubleSignEvident
<1>1. Inv => DoubleSignEvident
  <2>1. ASSUME Inv, NEW b \in Blocks, SignedOther(b)
        PROVE  \E first \in Readable \ {b} :
                 NumberOf[first] = NumberOf[b] /\ ValidatorOf[first] = ValidatorOf[b]
    <3>1. <<ValidatorOf[b], NumberOf[b]>> \in Validators \X Numbers
      BY DEF Validators, Numbers
    <3>2. SignedAt(b) \in Readable \ {b} /\ SignedAt(b) # NoBlock
      BY <2>1, <3>1 DEF Inv, RefsReadable, SignedOther, SignedAt
    <3>3. <<ValidatorOf[b], NumberOf[b]>> = <<ValidatorOf[SignedAt(b)], NumberOf[SignedAt(b)]>>
      BY <2>1, <3>1, <3>2 DEF Inv, SignedRight, SignedAt
    <3>4. QED
      BY <3>2, <3>3
  <2>2. QED
    BY <2>1 DEF DoubleSignEvident
<1>2. QED
  BY <1>1, ChainInvariant, PTL

-----------------------------------------------------------------------------
(* The checkpoint.                                                         *)

AtDepthBehind(b) ==
  /\ finHeight = NumberOf[b] - Depth
  /\ finHash \in Line[b]
  /\ NumberOf[finHash] = finHeight

(* Unless a write failed: the head is the block being written from the     *)
(* head's key on, the two keys of the checkpoint are written for it one    *)
(* after the other, and are right before and after.                        *)
Checkpointed ==
  aborts = 0 =>
    /\ Writing({"finHeight", "finHash", "root"}) => head = writing.block
    /\ Writing({"finHash"}) => finHeight = NumberOf[head] - Depth
    /\ Writing({"none", "root"}) /\ NumberOf[head] >= Depth => AtDepthBehind(head)

(* A line is made of readable blocks and of their parents.                 *)
LEMMA LineKept ==
  ASSUME UNCHANGED <<headers, bodies>>
  PROVE  Line' = Line
BY DEF Line, Readable

LEMMA CheckpointedInit == Init => Checkpointed
BY ChainAssumption DEF Init, Checkpointed, Writing, Idle

LEMMA CheckpointedNext ==
  ASSUME Inv, Checkpointed, [Next]_vars
  PROVE  Checkpointed'
<1> SUFFICES ASSUME aborts' = 0
             PROVE  Checkpointed'
  BY DEF Checkpointed
<1> USE DEF Checkpointed, Writing
<1>1. aborts \in Nat /\ (writing.key = "none" <=> writing = Idle)
  BY ChainAssumption DEF Inv, TypeOK, Keys, Idle
<1>2. CASE UNCHANGED vars
  <2>1. /\ aborts = 0 /\ writing' = writing /\ head' = head /\ finHeight' = finHeight
        /\ finHash' = finHash /\ Line' = Line
    BY <1>2, LineKept DEF vars, store
  <2>2. QED
    BY <2>1 DEF AtDepthBehind
<1>3. CASE \/ PutHeader \/ PutBody \/ PutNumber \/ PutSigned \/ PutChildren
  <2>1. PICK key \in {"body", "number", "signed", "children", "head"} : Then(key)
    BY <1>3 DEF PutHeader, PutBody, PutNumber, PutSigned, PutChildren
  <2>2. writing.key \in Keys
    BY <1>3 DEF PutHeader, PutBody, PutNumber, PutSigned, PutChildren, Keys
  <2>3. writing'.key = key
    BY <2>1, <2>2, NextKey, InFlight DEF Inv, Then
  <2>4. QED
    BY <2>3
<1>4. CASE SetHead
  <2>1. writing.key \in Keys /\ writing.block \in Blocks
    BY <1>4, InFlight DEF SetHead, Keys, Inv
  <2>2. writing'.block = writing.block /\ head' = writing.block
    BY <1>4, <2>1, InFlight DEF SetHead, Then, Inv
  <2>3. writing'.key = IF NumberOf[writing.block] < Depth THEN "root" ELSE "finHeight"
    BY <1>4, <2>1, InFlight DEF SetHead, Then, Inv
  <2>4. NumberOf[writing.block] \in Nat /\ Depth \in Nat
    BY <2>1, ChainAssumption
  <2>5. QED
    BY <2>2, <2>3, <2>4
<1>5. CASE PutFinHeight
  <2>1. writing.key = "finHeight" /\ aborts' = aborts
        /\ head' = head /\ finHeight' = NumberOf[writing.block] - Depth
    BY <1>5 DEF PutFinHeight, Then
  <2>2. writing'.key = "finHash" /\ writing'.block = writing.block
    BY <1>5, <2>1, InFlight DEF PutFinHeight, Then, Inv, Keys
  <2>3. QED
    BY <2>1, <2>2
<1>6. CASE PutFinHash
  <2>1. writing.key = "finHash" /\ aborts' = aborts /\ finHash' \in Checkpoint(writing.block)
        /\ head' = head /\ finHeight' = finHeight /\ Line' = Line
    BY <1>6, LineKept DEF PutFinHash, Then
  <2>2. writing'.key = "root" /\ writing'.block = writing.block
    BY <1>6, <2>1, InFlight DEF PutFinHash, Then, Inv, Keys
  <2>3. head = writing.block /\ finHeight = NumberOf[head] - Depth
    BY <2>1
  <2>4. AtDepthBehind(head)'
    BY <2>1, <2>3 DEF AtDepthBehind, Checkpoint
  <2>5. QED
    BY <2>1, <2>2, <2>3, <2>4
<1>7. CASE PutRoot
  <2>1. /\ writing.key = "root" /\ writing'.key = "none" /\ aborts' = aborts
        /\ head' = head /\ finHeight' = finHeight /\ finHash' = finHash /\ Line' = Line
    BY <1>7, LineKept DEF PutRoot, Return, Idle
  <2>2. QED
    BY <2>1 DEF AtDepthBehind
<1>8. CASE Abort
  BY <1>1, <1>8 DEF Abort
<1>9. ASSUME NEW b \in Blocks, NEW now \in Times, Offer(b, now)
      PROVE  Checkpointed'
  <2>1. CASE Admit(b, now)
    BY <2>1 DEF Admit
  <2>2. CASE \E kind \in Verdicts : Refuse(kind)
    <3>1. /\ writing = Idle /\ writing' = Idle /\ aborts' = aborts
          /\ head' = head /\ finHeight' = finHeight /\ finHash' = finHash /\ Line' = Line
      BY <2>2, LineKept DEF Refuse, Return, store
    <3>2. QED
      BY <3>1 DEF AtDepthBehind, Idle
  <2>3. QED
    BY <1>9, <2>1, <2>2 DEF Offer, RefuseBody, RefuseOrphan, RefuseHeader, RefuseReorg,
                            RefuseDoubleSign, Verdicts
<1>10. QED
  BY <1>2, <1>3, <1>4, <1>5, <1>6, <1>7, <1>8, <1>9 DEF Next, Put

(* Between two blocks, unless a write failed, the checkpoint is on the     *)
(* head's line, exactly Depth blocks behind it, at any depth of            *)
(* finality and after any forks.                                           *)
THEOREM CheckpointKept == Spec => []CheckpointBehindHead
<1>1. Inv /\ Checkpointed /\ [Next]_vars => (Inv /\ Checkpointed)'
  BY NextKeeps, CheckpointedNext
<1>2. Inv /\ Checkpointed => CheckpointBehindHead
  BY DEF Checkpointed, CheckpointBehindHead, AtDepthBehind, Quiet, Writing, Idle
<1>3. QED
  BY InitHolds, CheckpointedInit, <1>1, <1>2, PTL DEF Spec

-----------------------------------------------------------------------------
(* Lines of blocks.                                                        *)

(* What Line computes: whatever is reached by a walk over readable blocks. *)
LEMMA LineStep ==
  ASSUME TypeOK
  PROVE  \A b \in Blocks :
           Line[b] = IF b \notin Readable THEN {}
                     ELSE IF ParentOf[b] = NoBlock THEN {b}
                     ELSE {b} \cup Line[ParentOf[b]]
<1> DEFINE step(h) == [b \in Blocks |->
             IF b \notin Readable THEN {}
             ELSE IF ParentOf[b] = NoBlock THEN {b}
             ELSE {b} \cup h[ParentOf[b]]]
           walks(b, c, n) == {s \in [0 .. n -> Readable] :
             s[0] = b /\ s[n] = c /\ \A i \in 0 .. n - 1 : s[i + 1] = ParentOf[s[i]]}
           reach == [b \in Blocks |-> {c \in Readable : \E n \in Nat : walks(b, c, n) # {}}]
<1>1. Readable \subseteq Blocks /\ NoBlock \notin Readable
  BY ChainAssumption DEF TypeOK, Readable
<1>2. ASSUME NEW b \in Readable
      PROVE  b \in reach[b]
  <2>1. [i \in 0 .. 0 |-> b] \in walks(b, b, 0)
    OBVIOUS
  <2>2. QED
    BY <1>1, <2>1
<1>3. ASSUME NEW b \in Readable, ParentOf[b] \in Blocks, NEW c \in reach[ParentOf[b]]
      PROVE  c \in reach[b]
  <2>0. PICK n \in Nat : \E s : s \in walks(ParentOf[b], c, n)
    BY <1>3
  <2>1. PICK s \in [0 .. n -> Readable] : s \in walks(ParentOf[b], c, n)
    BY <2>0
  <2> DEFINE t == [i \in 0 .. n + 1 |-> IF i = 0 THEN b ELSE s[i - 1]]
  <2>2. t \in [0 .. n + 1 -> Readable]
    OBVIOUS
  <2>3. \A i \in 0 .. (n + 1) - 1 : t[i + 1] = ParentOf[t[i]]
    BY <2>1
  <2>4. t[0] = b /\ t[n + 1] = c
    BY <2>1
  <2> HIDE DEF t
  <2>5. t \in walks(b, c, n + 1) /\ n + 1 \in Nat /\ c \in Readable
    BY <1>3, <2>2, <2>3, <2>4
  <2>6. QED
    BY <1>1, <2>5
<1>4. ASSUME NEW b \in Blocks, NEW c \in reach[b], c # b
      PROVE  ParentOf[b] \in Blocks /\ c \in reach[ParentOf[b]]
  <2>0. PICK n \in Nat : \E s : s \in walks(b, c, n)
    BY <1>4
  <2>1. PICK s \in [0 .. n -> Readable] : s \in walks(b, c, n)
    BY <2>0
  <2>2. n # 0 /\ n - 1 \in Nat
    BY <1>4, <2>1
  <2> DEFINE t == [i \in 0 .. n - 1 |-> s[i + 1]]
  <2>3. t \in [0 .. n - 1 -> Readable]
    BY <2>2
  <2>4. \A i \in 0 .. (n - 1) - 1 : t[i + 1] = ParentOf[t[i]]
    BY <2>1, <2>2
  <2>5. t[0] = ParentOf[b] /\ t[n - 1] = c /\ t[0] \in Readable
    <3>1. /\ 0 \in 0 .. n - 1 /\ n - 1 \in 0 .. n - 1
          /\ 0 + 1 = 1 /\ (n - 1) + 1 = n
      BY <2>2
    <3>2. s[1] = ParentOf[s[0]] /\ s[0] = b /\ s[n] = c
      BY <2>1, <3>1
    <3>3. t[0] = s[1] /\ t[n - 1] = s[n]
      BY <3>1
    <3>4. QED
      BY <2>3, <3>1, <3>2, <3>3
  <2> HIDE DEF t
  <2>6. t \in walks(ParentOf[b], c, n - 1) /\ c \in Readable
    BY <1>4, <2>3, <2>4, <2>5
  <2>7. QED
    BY <1>1, <2>2, <2>5, <2>6
<1>5. \A b \in Blocks : b \notin Readable => reach[b] = {}
  OBVIOUS
<1>6. \A b \in Blocks : reach[b] \subseteq Readable
  OBVIOUS
<1>7. reach = step(reach)
  <2> HIDE DEF walks
  <2>1. \A b \in Blocks : ParentOf[b] \in Blocks \/ ParentOf[b] = NoBlock
    BY ChainAssumption
  <2>2. NoBlock \notin Blocks
    BY ChainAssumption
  <2>3. ASSUME NEW b \in Blocks
        PROVE  reach[b] = step(reach)[b]
    <3> HIDE DEF reach
    <3>1. CASE b \notin Readable
      BY <1>5, <3>1
    <3>2. CASE b \in Readable /\ ParentOf[b] = NoBlock
      BY <1>2, <1>4, <2>2, <3>2
    <3>3. CASE b \in Readable /\ ParentOf[b] \in Blocks
      BY <1>2, <1>3, <1>4, <2>2, <3>3
    <3>4. QED
      BY <2>1, <3>1, <3>2, <3>3
  <2>4. QED
    BY <2>3
<1> HIDE DEF reach
<1>8. Line = step(Line)
  BY <1>7 DEF Line
<1>9. QED
  BY <1>8

(* A stored block's line is its own and its parent's.                      *)
LEMMA LineDown ==
  ASSUME TypeOK, ParentsStored, NEW b \in Readable
  PROVE  /\ NumberOf[b] \in Nat /\ b \in Blocks
         /\ NumberOf[b] = 0 => Line[b] = {b} /\ ParentOf[b] = NoBlock
         /\ NumberOf[b] # 0 =>
              /\ ParentOf[b] \in Readable /\ NumberOf[ParentOf[b]] = NumberOf[b] - 1
              /\ Line[b] = {b} \cup Line[ParentOf[b]]
              /\ ParentOf[b] # NoBlock
<1>1. b \in Blocks /\ NumberOf[b] \in Nat
  BY ChainAssumption DEF TypeOK, Readable
<1>2. CASE NumberOf[b] = 0
  <2>1. ParentOf[b] = NoBlock
    BY <1>1, <1>2, ChainAssumption
  <2>2. QED
    BY <1>1, <1>2, <2>1, LineStep
<1>3. CASE NumberOf[b] # 0
  <2>1. ParentOf[b] \in Readable /\ NumberOf[b] = NumberOf[ParentOf[b]] + 1
    BY <1>1, <1>3 DEF ParentsStored
  <2>2. ParentOf[b] \in Blocks /\ ParentOf[b] # NoBlock /\ NumberOf[ParentOf[b]] \in Nat
    BY <2>1, ChainAssumption DEF TypeOK, Readable
  <2>3. Line[b] = {b} \cup Line[ParentOf[b]]
    BY <1>1, <2>2, LineStep
  <2>4. NumberOf[ParentOf[b]] = NumberOf[b] - 1
    BY <1>1, <2>1, <2>2
  <2>5. QED
    BY <1>1, <1>3, <2>1, <2>2, <2>3, <2>4
<1>4. QED
  BY <1>2, <1>3

(* A line has one block of every number below its own, and with a block it *)
(* has the block's line.                                                   *)
Orderly(b) ==
  /\ b \in Line[b]
  /\ \A c \in Line[b] :
       /\ c \in Readable /\ NumberOf[c] \in 0 .. NumberOf[b]
       /\ NumberOf[c] = NumberOf[b] => c = b
       /\ Line[c] \subseteq Line[b]
       /\ \A d \in Line[b] : NumberOf[d] <= NumberOf[c] => d \in Line[c]
  /\ \A n \in 0 .. NumberOf[b] : \E c \in Line[b] : NumberOf[c] = n

LEMMA LinesOrderly ==
  ASSUME TypeOK, ParentsStored
  PROVE  \A b \in Readable : Orderly(b)
<1> DEFINE Wrong == {NumberOf[b] : b \in {x \in Readable : ~ Orderly(x)}}
<1>1. SUFFICES ASSUME Wrong # {} PROVE FALSE
  OBVIOUS
<1>2. Wrong \subseteq Nat
  BY LineDown
<1>3. PICK n \in Wrong : \A m \in Wrong : n <= m
  BY <1>1, <1>2, LeastOfNaturals
<1>4. PICK b \in Readable : ~ Orderly(b) /\ n = NumberOf[b]
  OBVIOUS
<1>5. NumberOf[b] \in Nat /\ b \in Blocks
  BY LineDown
<1>6. CASE NumberOf[b] = 0
  <2>1. Line[b] = {b}
    BY <1>6, LineDown
  <2>2. QED
    BY <1>4, <1>6, <2>1 DEF Orderly
<1>7. CASE NumberOf[b] # 0
  <2> DEFINE p == ParentOf[b]
  <2>1. p \in Readable /\ NumberOf[p] = NumberOf[b] - 1 /\ Line[b] = {b} \cup Line[p]
    BY <1>7, LineDown
  <2> HIDE DEF p
  <2>2. Orderly(p)
    <3>1. NumberOf[p] \notin Wrong
      <4>1. ~ NumberOf[b] <= NumberOf[p]
        BY <1>5, <2>1
      <4> HIDE DEF Wrong
      <4>2. QED
        BY <1>3, <1>4, <4>1
    <3>2. QED
      BY <2>1, <3>1
  <2>3. /\ p \in Line[p]
        /\ \A c \in Line[p] :
             /\ c \in Readable /\ NumberOf[c] \in 0 .. NumberOf[p]
             /\ Line[c] \subseteq Line[p]
             /\ \A d \in Line[p] : NumberOf[d] <= NumberOf[c] => d \in Line[c]
    BY <2>2 DEF Orderly
  <2>4. ASSUME NEW c \in Line[b]
        PROVE  /\ c \in Readable /\ NumberOf[c] \in 0 .. NumberOf[b]
               /\ NumberOf[c] = NumberOf[b] => c = b
               /\ Line[c] \subseteq Line[b]
               /\ \A d \in Line[b] : NumberOf[d] <= NumberOf[c] => d \in Line[c]
    <3>1. CASE c = b
      BY <1>5, <3>1
    <3>2. CASE c \in Line[p]
      <4>1. NumberOf[c] \in 0 .. NumberOf[b] /\ NumberOf[c] < NumberOf[b]
        BY <1>5, <2>1, <2>3, <3>2
      <4>2. \A d \in Line[b] : NumberOf[d] <= NumberOf[c] => d \in Line[p]
        BY <1>5, <2>1, <4>1
      <4>3. QED
        BY <2>1, <2>3, <3>2, <4>1, <4>2
    <3>3. QED
      BY <2>1, <3>1, <3>2
  <2>5. ASSUME NEW m \in 0 .. NumberOf[b]
        PROVE  \E c \in Line[b] : NumberOf[c] = m
    <3>1. CASE m = NumberOf[b]
      BY <2>1, <3>1
    <3>2. CASE m # NumberOf[b]
      <4>1. m \in 0 .. NumberOf[p]
        BY <1>5, <2>1, <3>2
      <4>2. QED
        BY <2>1, <2>2, <4>1 DEF Orderly
    <3>3. QED
      BY <3>1, <3>2
  <2>6. QED
    BY <1>4, <2>1, <2>4, <2>5 DEF Orderly
<1>8. QED
  BY <1>6, <1>7

(* The block of a number on a line.                                        *)
OfNumber(b, n) == CHOOSE c \in Line[b] : NumberOf[c] = n

LEMMA OnLine ==
  ASSUME TypeOK, ParentsStored, NEW b \in Readable
  PROVE  /\ NumberOf[b] \in Nat /\ OfNumber(b, NumberOf[b]) = b
         /\ \A n \in 0 .. NumberOf[b] :
              OfNumber(b, n) \in Line[b] /\ NumberOf[OfNumber(b, n)] = n
         /\ \A c \in Line[b] :
              /\ c \in Readable /\ NumberOf[c] \in 0 .. NumberOf[b]
              /\ OfNumber(b, NumberOf[c]) = c
         /\ \A c \in Line[b] : NumberOf[c] # 0 =>
              ParentOf[c] = OfNumber(b, NumberOf[c] - 1)
<1>1. NumberOf[b] \in Nat /\ Orderly(b)
  BY LineDown, LinesOrderly
<1>2. \A n \in 0 .. NumberOf[b] :
        OfNumber(b, n) \in Line[b] /\ NumberOf[OfNumber(b, n)] = n
  BY <1>1 DEF Orderly, OfNumber
<1>3. ASSUME NEW c \in Line[b], NEW d \in Line[b], NumberOf[c] = NumberOf[d]
      PROVE  c = d
  <2>1. c \in Readable /\ NumberOf[c] \in Nat /\ NumberOf[d] <= NumberOf[c]
    BY <1>1, <1>3 DEF Orderly
  <2>2. d \in Line[c] /\ Orderly(c)
    BY <1>1, <2>1, LinesOrderly DEF Orderly
  <2>3. QED
    BY <1>3, <2>2 DEF Orderly
<1>4. ASSUME NEW c \in Line[b]
      PROVE  c \in Readable /\ NumberOf[c] \in 0 .. NumberOf[b] /\ OfNumber(b, NumberOf[c]) = c
  <2>1. c \in Readable /\ NumberOf[c] \in 0 .. NumberOf[b]
    BY <1>1 DEF Orderly
  <2>2. QED
    BY <1>2, <1>3, <2>1
<1>5. ASSUME NEW c \in Line[b], NumberOf[c] # 0
      PROVE  ParentOf[c] = OfNumber(b, NumberOf[c] - 1)
  <2>1. c \in Readable
    BY <1>4
  <2>2. /\ ParentOf[c] \in Readable /\ NumberOf[ParentOf[c]] = NumberOf[c] - 1
        /\ Line[c] = {c} \cup Line[ParentOf[c]]
    BY <1>5, <2>1, LineDown
  <2>3. ParentOf[c] \in Line[ParentOf[c]]
    BY <2>2, LinesOrderly DEF Orderly
  <2>4. ParentOf[c] \in Line[b]
    BY <1>1, <2>2, <2>3 DEF Orderly
  <2>5. OfNumber(b, NumberOf[ParentOf[c]]) = ParentOf[c]
    BY <1>4, <2>4
  <2>6. QED
    BY <2>2, <2>5
<1>6. b \in Line[b]
  BY <1>1 DEF Orderly
<1>7. QED
  BY <1>1, <1>2, <1>4, <1>5, <1>6

(* reorg_blocks walks from a head to an ancestor: the blocks above it,     *)
(* the head first.                                                         *)
LEMMA BelowIs ==
  ASSUME TypeOK, ParentsStored, NEW b \in Readable, NEW c \in Line[b]
  PROVE  Below(b, c) =
           [i \in 1 .. NumberOf[b] - NumberOf[c] |-> OfNumber(b, NumberOf[b] - i + 1)]
<1> DEFINE step(h) == [d \in Blocks |->
             IF d = c \/ d \notin Readable THEN << >>
             ELSE IF ParentOf[d] = NoBlock THEN <<d>>
             ELSE <<d>> \o h[ParentOf[d]]]
           long(d) == IF c \in Line[d] THEN NumberOf[d] - NumberOf[c] ELSE NumberOf[d] + 1
           list(d) == [i \in 1 .. long(d) |-> OfNumber(d, NumberOf[d] - i + 1)]
           down == [d \in Blocks |-> IF d \notin Readable THEN << >> ELSE list(d)]
<1>1. Readable \subseteq Blocks /\ c \in Readable /\ NumberOf[c] \in Nat
  BY OnLine, LineDown DEF TypeOK, Readable
<1>2. ASSUME NEW d \in Readable
      PROVE  long(d) \in Nat /\ list(d) \in Seq(Readable) /\ Len(list(d)) = long(d)
  <2>1. NumberOf[d] \in Nat /\ (c \in Line[d] => NumberOf[c] <= NumberOf[d])
    BY OnLine
  <2>2. long(d) \in Nat /\ long(d) <= NumberOf[d] + 1
    BY <1>1, <2>1
  <2> HIDE DEF long
  <2>3. \A i \in 1 .. long(d) : NumberOf[d] - i + 1 \in 0 .. NumberOf[d]
    BY <2>1, <2>2
  <2>4. \A i \in 1 .. long(d) : OfNumber(d, NumberOf[d] - i + 1) \in Readable
    BY <2>3, OnLine
  <2>5. list(d) \in [1 .. long(d) -> Readable]
    BY <2>4
  <2> HIDE DEF list
  <2>6. QED
    BY <2>2, <2>5
<1>3. list(c) = << >>
  <2>1. c \in Line[c]
    BY <1>1, LinesOrderly DEF Orderly
  <2>2. long(c) = 0
    BY <1>1, <2>1
  <2>3. list(c) \in Seq(Readable) /\ Len(list(c)) = 0
    BY <1>1, <1>2, <2>2
  <2> HIDE DEF list
  <2>4. QED
    BY <2>3, EmptySeq
<1>4. ASSUME NEW d \in Readable, d # c, ParentOf[d] = NoBlock
      PROVE  list(d) = <<d>>
  <2>1. NumberOf[d] = 0 /\ Line[d] = {d} /\ NumberOf[d] \in Nat
    BY <1>4, LineDown
  <2>2. long(d) = 1
    BY <1>4, <2>1
  <2>3. NumberOf[d] - 1 + 1 = NumberOf[d] /\ OfNumber(d, NumberOf[d]) = d
    BY <2>1, OnLine
  <2> HIDE DEF long
  <2>4. DOMAIN list(d) = 1 .. 1 /\ list(d)[1] = d
    BY <2>2, <2>3
  <2>5. list(d) = [i \in 1 .. 1 |-> list(d)[i]]
    BY <2>2
  <2> HIDE DEF list
  <2>6. QED
    BY <2>4, <2>5
<1>5. ASSUME NEW d \in Readable, d # c, ParentOf[d] # NoBlock
      PROVE  /\ ParentOf[d] \in Readable
             /\ list(d) = <<d>> \o list(ParentOf[d])
             /\ c \in Line[d] => c \in Line[ParentOf[d]]
  <2> DEFINE p == ParentOf[d]
  <2>1. /\ p \in Readable /\ NumberOf[p] = NumberOf[d] - 1
        /\ Line[d] = {d} \cup Line[p] /\ NumberOf[d] \in Nat /\ NumberOf[d] # 0
    BY <1>5, LineDown
  <2>2. NumberOf[p] \in Nat
    BY <2>1, LineDown
  <2> HIDE DEF p
  <2>3. c \in Line[d] <=> c \in Line[p]
    BY <1>5, <2>1
  <2>4. long(d) = long(p) + 1
    BY <1>1, <2>1, <2>2, <2>3
  <2>5. /\ list(d) \in Seq(Readable) /\ Len(list(d)) = long(d) /\ long(d) \in Nat
        /\ list(p) \in Seq(Readable) /\ Len(list(p)) = long(p) /\ long(p) \in Nat
        /\ long(p) <= NumberOf[p] + 1
    <3>1. c \in Line[p] => NumberOf[c] <= NumberOf[p]
      BY <2>1, OnLine
    <3>2. long(p) <= NumberOf[p] + 1
      BY <1>1, <2>2, <3>1
    <3>3. QED
      BY <1>2, <2>1, <3>2
  <2> HIDE DEF long
  <2>long. long(p) \in Nat /\ long(p) <= NumberOf[p] + 1
    BY <2>5
  <2>6. <<d>> \in Seq(Readable) /\ Len(<<d>>) = 1 /\ <<d>>[1] = d
    OBVIOUS
  <2>7. /\ <<d>> \o list(p) \in Seq(Readable)
        /\ Len(<<d>> \o list(p)) = 1 + long(p)
        /\ \A i \in 1 .. 1 + long(p) :
             (<<d>> \o list(p))[i] = IF i <= 1 THEN <<d>>[i] ELSE list(p)[i - 1]
    <3> HIDE DEF list
    <3>1. QED
      BY <2>5, <2>6, ConcatProperties
  <2>8. ASSUME NEW i \in 1 .. long(d)
        PROVE  list(d)[i] = (<<d>> \o list(p))[i]
    <3>1. CASE i = 1
      <4>1. list(d)[1] = OfNumber(d, NumberOf[d] - 1 + 1) /\ NumberOf[d] - 1 + 1 = NumberOf[d]
        BY <2>1, <2>4, <2>5
      <4>2. list(d)[1] = d
        BY <4>1, OnLine
      <4> HIDE DEF list
      <4>3. 1 \in 1 .. 1 + long(p)
        BY <2>5
      <4>4. QED
        BY <2>6, <2>7, <3>1, <4>2, <4>3
    <3>2. CASE i # 1
      <4>1. /\ i - 1 \in 1 .. long(p) /\ i \in 1 .. 1 + long(p) /\ ~ i <= 1
            /\ NumberOf[d] - i + 1 = NumberOf[p] - (i - 1) + 1
            /\ NumberOf[p] - (i - 1) + 1 \in 0 .. NumberOf[p]
        BY <2>1, <2>2, <2>4, <2>long, <3>2
      <4> DEFINE n == NumberOf[p] - (i - 1) + 1
      <4>2. list(d)[i] = OfNumber(d, n) /\ list(p)[i - 1] = OfNumber(p, n)
        BY <4>1
      <4>3. /\ OfNumber(p, n) \in Line[p] /\ NumberOf[OfNumber(p, n)] = n
        BY <2>1, <4>1, OnLine
      <4> HIDE DEF n, list
      <4>4. OfNumber(d, n) = OfNumber(p, n)
        BY <2>1, <4>3, OnLine
      <4>5. QED
        BY <2>7, <4>1, <4>2, <4>4
    <3>3. QED
      BY <3>1, <3>2
  <2>9. Len(list(d)) = Len(<<d>> \o list(p))
    BY <2>4, <2>5, <2>7
  <2> HIDE DEF list
  <2>10. list(d) = <<d>> \o list(p)
    BY <2>5, <2>7, <2>8, <2>9, SeqEqual
  <2>11. QED
    BY <2>1, <2>3, <2>10 DEF p
<1>6. \A d \in Blocks : ParentOf[d] \in Blocks \cup {NoBlock}
  BY ChainAssumption
<1> HIDE DEF long, list
<1>7. down = step(down)
  <2>1. ASSUME NEW d \in Blocks
        PROVE  down[d] = step(down)[d]
    <3>1. CASE d \notin Readable \/ d = c
      BY <1>1, <1>3, <3>1
    <3>2. CASE d \in Readable /\ d # c /\ ParentOf[d] = NoBlock
      BY <1>4, <3>2
    <3>3. CASE d \in Readable /\ d # c /\ ParentOf[d] # NoBlock
      <4>1. ParentOf[d] \in Readable /\ list(d) = <<d>> \o list(ParentOf[d])
        BY <1>5, <3>3
      <4>2. down[d] = list(d) /\ down[ParentOf[d]] = list(ParentOf[d])
        BY <1>1, <3>3, <4>1
      <4>3. step(down)[d] = <<d>> \o down[ParentOf[d]]
        BY <3>3
      <4>4. QED
        BY <4>1, <4>2, <4>3
    <3>4. QED
      BY <3>1, <3>2, <3>3
  <2> HIDE DEF down
  <2>2. down = [d \in Blocks |-> down[d]]
    BY DEF down
  <2>3. QED
    BY <2>1, <2>2
<1> DEFINE walk == CHOOSE h : h = step(h)
<1> HIDE DEF down
<1>8. walk = step(walk)
  BY <1>7, Zenon
<1>9. Below(b, c) = walk[b]
  BY DEF Below
<1> HIDE DEF walk
<1> DEFINE Wrong == {NumberOf[d] : d \in {x \in Readable : c \in Line[x] /\ walk[x] # list(x)}}
<1>10. Wrong = {}
  <2>1. SUFFICES ASSUME Wrong # {} PROVE FALSE
    OBVIOUS
  <2>2. Wrong \subseteq Nat
    BY LineDown
  <2>3. PICK n \in Wrong : \A m \in Wrong : n <= m
    BY <2>1, <2>2, LeastOfNaturals
  <2>4. PICK d \in Readable : c \in Line[d] /\ walk[d] # list(d) /\ n = NumberOf[d]
    OBVIOUS
  <2>5. d # c
    BY <1>1, <1>3, <1>8, <2>4
  <2>6. ParentOf[d] # NoBlock
    BY <1>1, <1>4, <1>8, <2>4, <2>5
  <2>7. /\ ParentOf[d] \in Readable /\ list(d) = <<d>> \o list(ParentOf[d])
        /\ c \in Line[ParentOf[d]]
    BY <1>5, <2>4, <2>5, <2>6
  <2>8. NumberOf[ParentOf[d]] \notin Wrong
    <3>1. NumberOf[d] \in Nat /\ NumberOf[ParentOf[d]] = NumberOf[d] - 1
      BY <2>6, LineDown
    <3>2. ~ NumberOf[d] <= NumberOf[ParentOf[d]]
      BY <3>1
    <3> HIDE DEF Wrong
    <3>3. QED
      BY <2>3, <2>4, <3>2
  <2>9. walk[ParentOf[d]] = list(ParentOf[d])
    BY <2>7, <2>8
  <2>10. walk[d] = <<d>> \o walk[ParentOf[d]]
    BY <1>1, <1>8, <2>5, <2>6
  <2>11. QED
    BY <2>4, <2>7, <2>9, <2>10
<1>11. walk[b] = list(b)
  BY <1>10
<1>12. QED
  BY <1>9, <1>11 DEF list, long

(* The path from the common ancestor up to the new head.                   *)
LEMMA ApplyIs ==
  ASSUME TypeOK, ParentsStored, NEW b \in Readable, NEW c \in Line[b],
         NEW down, down = Below(b, c),
         NEW apply, apply = [i \in DOMAIN down |-> down[Len(down) - i + 1]]
  PROVE  LET start == <<c>> \o apply
             many  == NumberOf[b] - NumberOf[c]
         IN  /\ many \in Nat /\ Len(apply) = many /\ Len(start) = many + 1
             /\ \A i \in 1 .. many + 1 : start[i] = OfNumber(b, NumberOf[c] + i - 1)
<1> DEFINE many == NumberOf[b] - NumberOf[c]
           at(i) == OfNumber(b, NumberOf[c] + i)
<1>1. /\ NumberOf[b] \in Nat /\ NumberOf[c] \in 0 .. NumberOf[b] /\ c \in Readable
      /\ OfNumber(b, NumberOf[c]) = c
      /\ \A n \in 0 .. NumberOf[b] : OfNumber(b, n) \in Readable
  BY OnLine
<1>2. many \in Nat
  BY <1>1
<1>3. /\ \A i \in 1 .. many : many - i + 1 \in 1 .. many
      /\ \A i \in 1 .. many : NumberOf[b] - (many - i + 1) + 1 = NumberOf[c] + i
      /\ \A i \in 1 .. many : NumberOf[c] + i \in 0 .. NumberOf[b]
  <2> HIDE DEF many
  <2>1. PICK x \in Nat : x = NumberOf[b]
    BY <1>1
  <2>2. PICK y \in Nat : y = NumberOf[c]
    BY <1>1
  <2>3. x - y = many /\ y <= x /\ many \in Nat
    BY <1>1, <1>2, <2>1, <2>2 DEF many
  <2>4. /\ \A i \in 1 .. many : many - i + 1 \in 1 .. many
        /\ \A i \in 1 .. many : x - (many - i + 1) + 1 = y + i
        /\ \A i \in 1 .. many : y + i \in 0 .. x
    BY <2>3
  <2>5. QED
    BY <2>1, <2>2, <2>4
<1> HIDE DEF many
<1>4. down = [i \in 1 .. many |-> OfNumber(b, NumberOf[b] - i + 1)]
  BY BelowIs DEF many
<1>5. DOMAIN down = 1 .. many /\ Len(down) = many
  BY <1>2, <1>4
<1>6. apply = [i \in 1 .. many |-> at(i)]
  <2>1. \A i \in 1 .. many : down[many - i + 1] = at(i)
    BY <1>3, <1>4
  <2> HIDE DEF at
  <2>2. QED
    BY <1>5, <2>1
<1>7. \A i \in 1 .. many : at(i) \in Readable
  BY <1>1, <1>3
<1> HIDE DEF at
<1>8. apply \in Seq(Readable) /\ Len(apply) = many
  <2>1. PICK f : f = [i \in 1 .. many |-> at(i)]
    OBVIOUS
  <2>2. f \in [1 .. many -> Readable]
    BY <1>7, <2>1
  <2>3. f \in Seq(Readable) /\ Len(f) = many
    BY <1>2, <2>2
  <2>4. QED
    BY <1>6, <2>1, <2>3
<1>9. <<c>> \in Seq(Readable) /\ Len(<<c>>) = 1 /\ <<c>>[1] = c
  BY <1>1
<1>10. /\ Len(<<c>> \o apply) = 1 + many
       /\ \A i \in 1 .. 1 + many :
            (<<c>> \o apply)[i] = IF i <= 1 THEN <<c>>[i] ELSE apply[i - 1]
  BY <1>8, <1>9, ConcatProperties
<1>11. ASSUME NEW i \in 1 .. many + 1
       PROVE  (<<c>> \o apply)[i] = OfNumber(b, NumberOf[c] + i - 1)
  <2>1. i \in 1 .. 1 + many /\ i \in Nat
    BY <1>2
  <2>2. CASE i = 1
    <3>1. NumberOf[c] + 1 - 1 = NumberOf[c] /\ 1 <= 1
      BY <1>1
    <3>2. (<<c>> \o apply)[1] = c
      BY <1>9, <1>10, <2>1, <2>2, <3>1
    <3>3. QED
      BY <1>1, <2>2, <3>1, <3>2
  <2>3. CASE i # 1
    <3>1. /\ ~ i <= 1 /\ i - 1 \in 1 .. many
          /\ NumberOf[c] + (i - 1) = NumberOf[c] + i - 1
      BY <1>1, <1>2, <2>1, <2>3
    <3>2. (<<c>> \o apply)[i] = at(i - 1)
      BY <1>6, <1>10, <2>1, <3>1
    <3>3. QED
      BY <3>1, <3>2 DEF at
  <2>4. QED
    BY <2>2, <2>3
<1>12. 1 + many = many + 1
  BY <1>2
<1>13. QED
  BY <1>2, <1>8, <1>10, <1>11, <1>12 DEF many

(* What is undone and what is done.                                        *)
Path(a, b, c, revert, apply) ==
  LET start == <<c>> \o apply
  IN  /\ {revert[i] : i \in DOMAIN revert} = Line[a] \ Line[b]
      /\ \A i \in 1 .. Len(apply) : ParentOf[start[i + 1]] = start[i]
      /\ start[Len(start)] = b

LEMMA ReorgWalks ==
  ASSUME TypeOK, ParentsStored, NEW a \in Readable, NEW b \in Readable,
         NEW c \in CommonAncestors(a, b), NEW revert, revert = Below(a, c),
         NEW down, down = Below(b, c),
         NEW apply, apply = [i \in DOMAIN down |-> down[Len(down) - i + 1]]
  PROVE  Path(a, b, c, revert, apply)
<1>1. /\ c \in Line[a] /\ c \in Line[b]
      /\ \A d \in Line[a] \cap Line[b] : NumberOf[d] <= NumberOf[c]
  BY DEF CommonAncestors
<1>2. /\ NumberOf[a] \in Nat /\ NumberOf[c] \in 0 .. NumberOf[a]
      /\ NumberOf[b] \in Nat /\ NumberOf[c] \in 0 .. NumberOf[b]
  BY <1>1, OnLine
<1>3. {revert[i] : i \in DOMAIN revert} = Line[a] \ Line[b]
  <2> DEFINE many == NumberOf[a] - NumberOf[c]
  <2>1. revert = [i \in 1 .. many |-> OfNumber(a, NumberOf[a] - i + 1)]
    BY <1>1, BelowIs
  <2>2. ASSUME NEW i \in 1 .. many
        PROVE  OfNumber(a, NumberOf[a] - i + 1) \in Line[a] \ Line[b]
    <3>1. NumberOf[a] - i + 1 \in 0 .. NumberOf[a] /\ NumberOf[a] - i + 1 > NumberOf[c]
      BY <1>2
    <3> DEFINE n == NumberOf[a] - i + 1
    <3>2. OfNumber(a, n) \in Line[a] /\ NumberOf[OfNumber(a, n)] = n
      BY <3>1, OnLine
    <3>3. ~ n <= NumberOf[c]
      BY <1>2, <3>1
    <3> HIDE DEF n
    <3>4. OfNumber(a, n) \notin Line[b]
      BY <1>1, <3>2, <3>3
    <3>5. QED
      BY <3>2, <3>4 DEF n
  <2>3. ASSUME NEW d \in Line[a] \ Line[b]
        PROVE  \E i \in 1 .. many : OfNumber(a, NumberOf[a] - i + 1) = d
    <3>1. NumberOf[d] \in 0 .. NumberOf[a] /\ OfNumber(a, NumberOf[d]) = d
      BY OnLine
    <3>2. ~ NumberOf[d] <= NumberOf[c]
      <4>1. c \in Readable /\ Orderly(a) /\ Orderly(b)
        BY <1>1, LinesOrderly, OnLine
      <4>2. SUFFICES ASSUME NumberOf[d] <= NumberOf[c] PROVE FALSE
        OBVIOUS
      <4>3. d \in Line[c] /\ Line[c] \subseteq Line[b]
        BY <1>1, <4>1, <4>2 DEF Orderly
      <4>4. QED
        BY <4>3
    <3> DEFINE i == NumberOf[a] - NumberOf[d] + 1
    <3>3. i \in 1 .. many /\ NumberOf[a] - i + 1 = NumberOf[d]
      BY <1>2, <3>1, <3>2
    <3> HIDE DEF i
    <3>4. QED
      BY <3>1, <3>3
  <2> HIDE DEF many
  <2>4. DOMAIN revert = 1 .. many
    BY <2>1
  <2>5. \A i \in 1 .. many : revert[i] = OfNumber(a, NumberOf[a] - i + 1)
    BY <2>1
  <2>6. QED
    BY <2>2, <2>3, <2>4, <2>5
<1> DEFINE start == <<c>> \o apply
           many == NumberOf[b] - NumberOf[c]
<1>4. /\ many \in Nat /\ Len(apply) = many /\ Len(start) = many + 1
      /\ \A i \in 1 .. many + 1 : start[i] = OfNumber(b, NumberOf[c] + i - 1)
  BY <1>1, ApplyIs
<1> HIDE DEF start
<1>5. ASSUME NEW i \in 1 .. many
      PROVE  ParentOf[start[i + 1]] = start[i]
  <2> DEFINE n == NumberOf[c] + i
  <2>1. /\ i \in 1 .. many + 1 /\ i + 1 \in 1 .. many + 1
        /\ NumberOf[c] + (i + 1) - 1 = n /\ NumberOf[c] + i - 1 = n - 1
        /\ n \in 0 .. NumberOf[b] /\ n # 0
    BY <1>2, <1>4
  <2> HIDE DEF n, many
  <2>2. start[i + 1] = OfNumber(b, n) /\ start[i] = OfNumber(b, n - 1)
    BY <1>4, <2>1
  <2>3. OfNumber(b, n) \in Line[b] /\ NumberOf[OfNumber(b, n)] = n
    BY <2>1, OnLine
  <2>4. ParentOf[OfNumber(b, n)] = OfNumber(b, n - 1)
    BY <2>1, <2>3, OnLine
  <2>5. QED
    BY <2>2, <2>4
<1>6. start[Len(start)] = b
  <2>1. many + 1 \in 1 .. many + 1 /\ NumberOf[c] + (many + 1) - 1 = NumberOf[b]
    BY <1>2, <1>4
  <2>2. start[many + 1] = OfNumber(b, NumberOf[b])
    BY <1>4, <2>1
  <2>3. QED
    BY <1>4, <2>2, OnLine
<1>7. QED
  BY <1>3, <1>4, <1>5, <1>6 DEF start, Path

(* What reorg_blocks answers is a path, whichever two heads it is asked    *)
(* about: it undoes what the old one has above the common ancestor, and    *)
(* does what the new one has above it, each block on its parent.           *)
THEOREM ReorgsArePaths == Spec => []ReorgIsPath
<1>1. ASSUME TypeOK, ParentsStored, NEW a \in Readable, NEW b \in Readable,
             CommonAncestors(a, b) # {}
      PROVE  LET r == ReorgBlocks(a, b)
                 base == CHOOSE x \in CommonAncestors(a, b) : TRUE
                 start == <<base>> \o r.apply
             IN /\ {r.revert[i] : i \in DOMAIN r.revert} = Line[a] \ Line[b]
                /\ \A i \in 1 .. Len(r.apply) : ParentOf[start[i + 1]] = start[i]
                /\ start[Len(start)] = b
  <2>1. PICK base : base = CHOOSE x \in CommonAncestors(a, b) : TRUE
    OBVIOUS
  <2>2. base \in CommonAncestors(a, b)
    BY <1>1, <2>1
  <2>3. PICK down : down = Below(b, base)
    OBVIOUS
  <2>4. PICK revert : revert = Below(a, base)
    OBVIOUS
  <2>5. PICK apply : apply = [i \in DOMAIN down |-> down[Len(down) - i + 1]]
    OBVIOUS
  <2>6. Path(a, b, base, revert, apply)
    BY <1>1, <2>2, <2>3, <2>4, <2>5, ReorgWalks
  <2>7. ReorgBlocks(a, b) = [revert |-> revert, apply |-> apply]
    BY <2>1, <2>3, <2>4, <2>5 DEF ReorgBlocks
  <2>8. ReorgBlocks(a, b).revert = revert /\ ReorgBlocks(a, b).apply = apply
    BY <2>7
  <2>9. QED
    BY <2>1, <2>6, <2>8 DEF Path
<1>2. Inv => ReorgIsPath
  BY <1>1 DEF Inv, ReorgIsPath
<1>3. QED
  BY <1>2, ChainInvariant, PTL

-----------------------------------------------------------------------------
(* The children of a block, and a store that has one line.                 *)

Listed(c) == \E i \in DOMAIN children[ParentOf[c]] : children[ParentOf[c]][i] = c

(* A block that no other and no list leads to yet.                         *)
Fresh(b) ==
  /\ ~ Listed(b) /\ b # head /\ children[b] = << >>
  /\ \A c \in Readable : ParentOf[c] # b

(* A list of children is its block's, and the genesis block is in one.     *)
ListsRight ==
  /\ \A p \in Blocks \cup {NoBlock} : \A i \in DOMAIN children[p] :
       ParentOf[children[p][i]] = p
  /\ Listed(Genesis)

(* Unless a write failed, every stored block is listed, or new and about   *)
(* to be.                                                                  *)
AllListed ==
  aborts = 0 => \A c \in Readable :
    \/ Listed(c)
    \/ c = writing.block /\ Writing({"number", "signed", "children"}) /\ Fresh(c)

OneLine == \A b \in Blocks \cup {NoBlock} : Len(children[b]) <= 1

(* Unless a write failed, a store that never had a fork is the line of its *)
(* head, but for the block that is being put on top of it.                 *)
EndsAtHead ==
  aborts = 0 /\ OneLine =>
    /\ \A c \in Readable :
         \/ c \in Line[head]
         \/ c = writing.block /\ Writing({"number", "signed", "children", "head"})
    /\ Writing({"head"}) \/ children[head] = << >>
    /\ Writing({"head"}) =>
         ParentOf[writing.block] = head /\ children[writing.block] = << >>
    /\ \/ byNumber[0] = Genesis
       \/ Writing({"signed", "children"}) /\ NumberOf[writing.block] = 0

Family == ListsRight /\ AllListed /\ EndsAtHead

LEMMA FamilyInit == Init => Family
<1> SUFFICES ASSUME Init PROVE Family
  OBVIOUS
<1>1. /\ Genesis \in Blocks /\ NoBlock \notin Blocks /\ ParentOf[Genesis] = NoBlock
      /\ NumberOf[Genesis] = 0 /\ 0 \in Numbers
  BY ChainAssumption DEF Numbers
<1>2. Readable = {Genesis} /\ head = Genesis /\ writing.key = "none" /\ byNumber[0] = Genesis
  BY <1>1 DEF Init, Readable, Idle
<1>3. children[NoBlock] = <<Genesis>> /\ \A b \in Blocks : children[b] = << >>
  BY <1>1 DEF Init
<1>4. Listed(Genesis)
  BY <1>1, <1>3 DEF Listed
<1>5. ListsRight
  BY <1>1, <1>3, <1>4 DEF ListsRight
<1>6. AllListed
  BY <1>2, <1>4 DEF AllListed
<1>7. Genesis \in Line[head]
  <2>1. TypeOK /\ ParentsStored /\ Genesis \in Readable
    BY <1>2, InitHolds DEF Inv
  <2>2. Orderly(Genesis)
    BY <2>1, LinesOrderly
  <2>3. QED
    BY <1>2, <2>2 DEF Orderly
<1>8. EndsAtHead
  BY <1>1, <1>2, <1>3, <1>7 DEF EndsAtHead, Writing
<1>9. QED
  BY <1>5, <1>6, <1>8 DEF Family

(* When the store grows, the lines that were there stay.                   *)
Descends(b) ==
  /\ NumberOf[b] \in Nat /\ b \in Blocks
  /\ NumberOf[b] = 0 => Line[b] = {b}
  /\ NumberOf[b] # 0 =>
       /\ ParentOf[b] \in Readable /\ NumberOf[ParentOf[b]] = NumberOf[b] - 1
       /\ Line[b] = {b} \cup Line[ParentOf[b]]

Descending == \A b \in Readable : Descends(b)

LEMMA AllDescend == Inv => Descending
BY LineDown DEF Inv, Descends, Descending

LEMMA LinesStay ==
  ASSUME Inv, Inv', Readable \subseteq Readable', NEW b \in Readable
  PROVE  Line'[b] = Line[b]
<1> DEFINE Moved == {NumberOf[c] : c \in {x \in Readable : Line'[x] # Line[x]}}
<1>1. Descending
  BY AllDescend
<1>2. Inv' => Descending'
  BY AllDescend, PTL
<1>3. Moved = {}
  <2>1. SUFFICES ASSUME Moved # {} PROVE FALSE
    OBVIOUS
  <2>2. Moved \subseteq Nat
    BY <1>1 DEF Descends, Descending
  <2>3. PICK n \in Moved : \A m \in Moved : n <= m
    BY <2>1, <2>2, LeastOfNaturals
  <2>4. PICK c \in Readable : Line'[c] # Line[c] /\ n = NumberOf[c]
    OBVIOUS
  <2>5. /\ NumberOf[c] \in Nat
        /\ NumberOf[c] = 0 => Line[c] = {c} /\ Line'[c] = {c}
        /\ NumberOf[c] # 0 =>
             /\ ParentOf[c] \in Readable /\ NumberOf[ParentOf[c]] = NumberOf[c] - 1
             /\ Line[c] = {c} \cup Line[ParentOf[c]]
             /\ Line'[c] = {c} \cup Line'[ParentOf[c]]
    BY <1>1, <1>2 DEF Descends, Descending
  <2>6. NumberOf[c] # 0 /\ Line'[ParentOf[c]] # Line[ParentOf[c]]
    BY <2>4, <2>5
  <2>7. NumberOf[ParentOf[c]] \in Moved /\ ~ NumberOf[c] <= NumberOf[c] - 1
    BY <2>5, <2>6
  <2> HIDE DEF Moved
  <2>8. QED
    BY <2>3, <2>4, <2>5, <2>6, <2>7
<1>4. QED
  BY <1>3

LEMMA LineAsRead ==
  ASSUME Readable' = Readable
  PROVE  Line' = Line
BY DEF Line

(* Nothing is written that a list or a line is made of.                    *)
LEMMA FamilyUntouched ==
  ASSUME Inv, Family,
         Readable' = Readable, UNCHANGED <<children, head, byNumber>>,
         aborts' = 0 =>
           /\ aborts = 0
           /\ ~ Writing({"number", "signed", "children", "head"})
           /\ ~ Writing({"number", "signed", "children", "head"})'
  PROVE  Family'
<1>1. Line' = Line
  BY LineAsRead
<1>2. ListsRight'
  BY DEF Family, ListsRight, Listed
<1>3. AllListed'
  BY DEF Family, AllListed, Listed, Writing
<1>4. EndsAtHead'
  BY <1>1 DEF Family, EndsAtHead, OneLine, Writing
<1>5. QED
  BY <1>2, <1>3, <1>4 DEF Family

(* The numbers are written, and the signature's.                           *)
LEMMA FamilyIndexed ==
  ASSUME Inv, Family, PutNumber \/ PutSigned
  PROVE  Family'
<1> DEFINE b == writing.block
<1>1. PICK key \in {"signed", "children"} :
        /\ Then(key)
        /\ key = "children" => PutSigned
        /\ key = "signed" => PutNumber
  BY DEF PutNumber, PutSigned
<1>2. writing.key \in Keys /\ key \in Keys
  BY DEF PutNumber, PutSigned, Keys
<1>3. /\ writing'.key = key /\ writing'.block = b /\ aborts' = aborts
      /\ b \in Blocks /\ NumberOf[b] \in Numbers
  BY <1>1, <1>2, InFlight, NextKey DEF Inv
<1>4. /\ UNCHANGED <<headers, bodies, children, head>>
      /\ byNumber' = byNumber \/ byNumber' = [byNumber EXCEPT ![NumberOf[b]] = b]
      /\ key = "children" => byNumber' = byNumber /\ writing.key = "signed"
      /\ key = "signed" => writing.key = "number"
  BY <1>1 DEF PutNumber, PutSigned
<1>5. Readable' = Readable
  BY <1>4 DEF Readable
<1>6. Line' = Line
  BY <1>5, LineAsRead
<1>7. ListsRight'
  BY <1>4 DEF Family, ListsRight, Listed
<1>8. AllListed'
  BY <1>1, <1>3, <1>4, <1>5 DEF Family, AllListed, Listed, Fresh, Writing
<1>9. 0 \in Numbers /\ byNumber \in [Numbers -> Blocks \cup {NoBlock}]
  BY ChainAssumption DEF Numbers, Inv, TypeOK
<1>10. byNumber'[0] = byNumber[0] \/ NumberOf[b] = 0
  BY <1>3, <1>4, <1>9
<1>11. ASSUME aborts = 0, OneLine
       PROVE  \/ byNumber'[0] = Genesis
              \/ NumberOf[b] = 0
  BY <1>1, <1>4, <1>10, <1>11 DEF Family, EndsAtHead, Writing
<1>12. EndsAtHead'
  <2>1. SUFFICES ASSUME aborts = 0, OneLine PROVE EndsAtHead'
    BY <1>3, <1>4 DEF EndsAtHead, OneLine
  <2>2. writing.key \in {"number", "signed"} /\ writing'.key \in {"signed", "children"}
    BY <1>1, <1>3, <1>4
  <2>3. \A c \in Readable : c \in Line[head] \/ c = b
    BY <2>1 DEF Family, EndsAtHead
  <2>4. children[head] = << >>
    BY <2>1, <2>2 DEF Family, EndsAtHead, Writing
  <2>5. QED
    BY <1>3, <1>4, <1>5, <1>6, <1>11, <2>1, <2>2, <2>3, <2>4 DEF EndsAtHead, Writing
<1>13. QED
  BY <1>7, <1>8, <1>12 DEF Family

(* The body makes a block readable.  Nothing leads to one that was not.    *)
LEMMA FamilyBody ==
  ASSUME Inv, Inv', Family, PutBody
  PROVE  Family'
<1> DEFINE b == writing.block
<1>1. /\ writing.key = "body" /\ writing.key \in Keys /\ bodies' = bodies \cup {b}
      /\ UNCHANGED <<headers, byNumber, children, head>>
      /\ Then("number") /\ "number" \in Keys
  BY DEF PutBody, Keys
<1>2. /\ writing'.block = b /\ writing'.key = "number" /\ aborts' = aborts
      /\ b \in Blocks /\ writing # Idle /\ b # NoBlock
  BY <1>1, InFlight, NextKey DEF Inv
<1>3. Readable' = Readable \cup {b}
  BY <1>1 DEF Inv, BodiesHeaded, Readable, Writing
<1>4. ListsRight'
  BY <1>1 DEF Family, ListsRight, Listed
<1>5. /\ Readable \subseteq Blocks /\ head \in Readable
      /\ \A c \in Readable : NumberOf[c] \in Nat
      /\ \A c \in Readable : ParentOf[c] \in Readable \cup {NoBlock}
  <2>1. Readable \subseteq Blocks /\ head \in Readable
    BY DEF Inv, TypeOK, RefsReadable, Readable
  <2>2. \A c \in Readable : ParentOf[c] \in Readable \cup {NoBlock}
    BY LineDown DEF Inv
  <2>3. QED
    BY <2>1, <2>2, ChainAssumption
<1>6. ASSUME NEW x, x = b, b \notin Readable
      PROVE  Fresh(x)'
  <2>1. \A p \in Blocks \cup {NoBlock} : \A i \in DOMAIN children[p] :
          children[p][i] \in Readable /\ ParentOf[children[p][i]] = p
    BY DEF Inv, RefsReadable, Family, ListsRight
  <2>2. ~ Listed(b)
    BY <1>2, <1>6, <2>1, ChainAssumption DEF Listed
  <2>3. b # head /\ \A c \in Readable : ParentOf[c] # b
    BY <1>2, <1>5, <1>6
  <2>4. ParentOf[b] # b
    <3>1. CASE NumberOf[b] = 0
      BY <1>2, <3>1, ChainAssumption
    <3>2. CASE NumberOf[b] > 0
      BY <1>2, <1>6, <3>2 DEF Inv, ParentReady, StandsOnParent
    <3>3. QED
      BY <1>2, <3>1, <3>2, ChainAssumption
  <2>5. children[b] = << >>
    <3>1. DOMAIN children[b] = {}
      BY <1>2, <2>1, <2>3
    <3>2. children[b] \in Seq(Blocks)
      BY <1>2 DEF Inv, TypeOK
    <3>3. DOMAIN children[b] = 1 .. Len(children[b]) /\ Len(children[b]) \in Nat
      BY <3>2
    <3>4. \A n \in Nat \ {0} : 1 \in 1 .. n
      OBVIOUS
    <3>5. QED
      BY <3>1, <3>2, <3>3, <3>4, EmptySeq
  <2>6. QED
    BY <1>1, <1>3, <1>6, <2>2, <2>3, <2>4, <2>5 DEF Fresh, Listed
<1>7. AllListed'
  <2>1. SUFFICES ASSUME aborts = 0, NEW c \in Readable'
                 PROVE  \/ Listed(c)'
                        \/ c = b /\ Fresh(c)'
    BY <1>2 DEF AllListed, Writing
  <2>2. CASE c \in Readable
    BY <1>1, <2>1, <2>2 DEF Family, AllListed, Listed, Writing
  <2>3. CASE c \notin Readable
    BY <1>3, <1>6, <2>1, <2>3
  <2>4. QED
    BY <2>2, <2>3
<1>8. Line'[head] = Line[head]
  BY <1>3, <1>5, LinesStay
<1>9. EndsAtHead'
  BY <1>1, <1>2, <1>3, <1>8 DEF Family, EndsAtHead, OneLine, Writing
<1>10. QED
  BY <1>4, <1>7, <1>9 DEF Family

(* Below its head a line has a child of every block.                       *)
LEMMA ChildOnLine ==
  ASSUME TypeOK, ParentsStored, NEW b \in Readable, NEW c \in Line[b], c # b
  PROVE  \E d \in Line[b] :
           d \in Readable /\ ParentOf[d] = c /\ NumberOf[d] = NumberOf[c] + 1
<1>1. Orderly(b)
  BY LinesOrderly
<1>2. /\ NumberOf[b] \in Nat /\ NumberOf[c] \in 0 .. NumberOf[b] /\ OfNumber(b, NumberOf[c]) = c
      /\ NumberOf[c] # NumberOf[b]
  BY <1>1, OnLine DEF Orderly
<1>3. PICK n \in Nat : n = NumberOf[c] + 1 /\ n # 0 /\ n - 1 = NumberOf[c] /\ n \in 0 .. NumberOf[b]
  BY <1>2
<1>4. PICK d : d = OfNumber(b, n)
  OBVIOUS
<1>5. d \in Line[b] /\ NumberOf[d] = n
  BY <1>3, <1>4, OnLine
<1>6. d \in Readable /\ ParentOf[d] = OfNumber(b, NumberOf[d] - 1)
  BY <1>3, <1>5, OnLine
<1>7. QED
  BY <1>2, <1>3, <1>5, <1>6

(* A block is put on the head, or makes a second child.                    *)
LEMMA FamilyChildren ==
  ASSUME Inv, Family, PutChildren
  PROVE  Family'
<1>0. PICK b \in Blocks : b = writing.block /\ NumberOf[b] \in Nat
  BY InFlight DEF PutChildren, Keys, Inv
<1> DEFINE p == ParentOf[b]
<1>1. /\ writing.key = "children" /\ children' = [children EXCEPT ![p] = Append(children[p], b)]
      /\ UNCHANGED <<headers, bodies, byNumber, head>>
      /\ Then("head") /\ "head" \in Keys \ {"header", "body"} /\ writing.key \in Keys
  BY <1>0 DEF PutChildren, Keys
<1>2. b \in Readable /\ p \in Blocks \cup {NoBlock} /\ aborts' = aborts /\ writing # Idle
  BY <1>0, <1>1, InFlight, NextKey DEF Inv, BodiesHeaded, Writing
<1>3. Readable' = Readable /\ writing'.key = "head" /\ writing'.block = b
  BY <1>0, <1>1, InFlight, NextKey DEF Inv, Readable
<1>4. /\ children \in [Blocks \cup {NoBlock} -> Seq(Blocks)]
      /\ \A c \in Blocks \cup {NoBlock} :
           children'[c] = IF c = p THEN Append(children[c], b) ELSE children[c]
  BY <1>1 DEF Inv, TypeOK
<1> HIDE DEF p
<1>5. /\ Len(children[p]) \in Nat /\ Len(children'[p]) = Len(children[p]) + 1
      /\ DOMAIN children[p] = 1 .. Len(children[p])
      /\ DOMAIN children'[p] = 1 .. Len(children[p]) + 1
      /\ children'[p][Len(children[p]) + 1] = b
      /\ \A i \in DOMAIN children[p] : children'[p][i] = children[p][i]
  <2>1. children[p] \in Seq(Blocks) /\ children'[p] = Append(children[p], b)
    BY <1>2, <1>4
  <2>2. QED
    BY <1>0, <2>1, AppendProperties
<1>6. ASSUME NEW c, Listed(c), ParentOf[c] \in Blocks \cup {NoBlock}
      PROVE  Listed(c)'
  <2>1. PICK i \in DOMAIN children[ParentOf[c]] : children[ParentOf[c]][i] = c
    BY <1>6 DEF Listed
  <2>2. CASE ParentOf[c] # p
    BY <1>4, <1>6, <2>1, <2>2 DEF Listed
  <2>3. CASE ParentOf[c] = p
    <3>1. i \in DOMAIN children'[p] /\ children'[p][i] = c
      BY <1>5, <2>1, <2>3
    <3>2. QED
      BY <2>3, <3>1 DEF Listed
  <2>4. QED
    BY <2>2, <2>3
<1>7. Listed(b)'
  <2>1. Len(children[p]) + 1 \in DOMAIN children'[p]
    BY <1>5
  <2>2. QED
    BY <1>5, <2>1 DEF Listed, p
<1>8. ListsRight'
  <2>1. ASSUME NEW q \in Blocks \cup {NoBlock}, NEW i \in DOMAIN children'[q]
        PROVE  ParentOf[children'[q][i]] = q
    <3>0. \A j \in DOMAIN children[q] : ParentOf[children[q][j]] = q
      BY DEF Family, ListsRight
    <3>1. CASE q # p
      BY <1>4, <3>0, <3>1
    <3>2. CASE q = p
      <4>1. i \in DOMAIN children[p] \/ i = Len(children[p]) + 1
        BY <1>5, <3>2
      <4>2. QED
        BY <1>5, <3>0, <3>2, <4>1 DEF p
    <3>3. QED
      BY <3>1, <3>2
  <2>2. Listed(Genesis)'
    BY <1>6, ChainAssumption DEF Family, ListsRight
  <2>3. QED
    BY <2>1, <2>2 DEF ListsRight
<1>9. AllListed'
  <2>1. SUFFICES ASSUME aborts = 0, NEW c \in Readable
                 PROVE  Listed(c)'
    BY <1>2, <1>3 DEF AllListed
  <2>2. ParentOf[c] \in Blocks \cup {NoBlock}
    BY ChainAssumption DEF Inv, TypeOK, Readable
  <2>3. Listed(c) \/ c = b
    BY <1>0, <2>1 DEF Family, AllListed
  <2>4. QED
    BY <1>6, <1>7, <2>2, <2>3
<1>10. ASSUME aborts = 0, OneLine'
       PROVE  /\ OneLine /\ p = head /\ children[b] = << >> /\ b # p /\ NumberOf[b] # 0
  <2>1. ASSUME NEW c \in Blocks \cup {NoBlock}
        PROVE  Len(children[c]) <= 1 /\ (c = p => Len(children[c]) = 0)
    <3>1. Len(children'[c]) <= 1
      BY <1>10 DEF OneLine
    <3>2. CASE c # p
      BY <1>4, <3>1, <3>2
    <3>3. CASE c = p
      <4>1. PICK n \in Nat : n = Len(children[p])
        BY <1>5
      <4>2. n + 1 <= 1
        BY <1>5, <3>1, <3>3, <4>1
      <4>3. n = 0
        BY <4>2
      <4>4. QED
        BY <3>3, <4>1, <4>3
    <3>4. QED
      BY <3>2, <3>3
  <2>2. OneLine
    BY <2>1 DEF OneLine
  <2>3. DOMAIN children[p] = {}
    BY <1>2, <1>5, <2>1
  <2>4. ~ Listed(b)
    BY <2>3 DEF Listed, p
  <2>5. Fresh(b)
    BY <1>0, <1>2, <1>10, <2>4 DEF Family, AllListed
  <2>6. p # NoBlock /\ p \in Blocks
    BY <1>2, <2>3, ChainAssumption DEF Family, ListsRight, Listed
  <2>7. NumberOf[b] # 0
    BY <1>0, <2>6, ChainAssumption DEF p
  <2>8. p \in Readable /\ NumberOf[p] = NumberOf[b] - 1
    BY <1>2, <2>7, LineDown DEF p, Inv
  <2>9. p # b
    BY <1>0, <2>8
  <2>10. \A c \in Readable : c \in Line[head] \/ c = b
    BY <1>0, <1>10, <2>2 DEF Family, EndsAtHead
  <2>11. head \in Readable /\ TypeOK /\ ParentsStored
    BY DEF Inv, RefsReadable
  <2>12. b \notin Line[head]
    BY <2>5, <2>11, ChildOnLine DEF Fresh
  <2>13. p = head
    <3>1. SUFFICES ASSUME p # head PROVE FALSE
      OBVIOUS
    <3>2. PICK d \in Line[head] : d \in Readable /\ ParentOf[d] = p
      BY <2>8, <2>9, <2>10, <2>11, <3>1, ChildOnLine
    <3>3. Listed(d)
      BY <1>0, <1>10, <2>12, <3>2 DEF Family, AllListed
    <3>4. QED
      BY <2>3, <3>2, <3>3 DEF Listed
  <2>14. QED
    BY <2>2, <2>5, <2>7, <2>9, <2>13 DEF Fresh
<1>11. EndsAtHead'
  <2>1. SUFFICES ASSUME aborts = 0, OneLine' PROVE EndsAtHead'
    BY <1>2 DEF EndsAtHead
  <2>2. /\ OneLine /\ p = head /\ children[b] = << >> /\ b # p /\ NumberOf[b] # 0
    BY <1>10, <2>1
  <2>3. children'[b] = << >>
    BY <1>4, <2>2
  <2>4. \A c \in Readable : c \in Line[head] \/ c = b
    BY <1>0, <2>1, <2>2 DEF Family, EndsAtHead
  <2>5. byNumber[0] = Genesis
    BY <1>0, <2>1, <2>2 DEF Family, EndsAtHead
  <2>6. Line' = Line
    BY <1>3, LineAsRead
  <2>7. QED
    BY <1>1, <1>3, <2>2, <2>3, <2>4, <2>5, <2>6 DEF EndsAtHead, Writing, p
<1>12. QED
  BY <1>8, <1>9, <1>11 DEF Family

(* The block on top of the head becomes the head.                          *)
LEMMA FamilyHead ==
  ASSUME Inv, Family, SetHead
  PROVE  Family'
<1>0. PICK b \in Blocks : b = writing.block /\ NumberOf[b] \in Nat
  BY InFlight DEF SetHead, Keys, Inv
<1>1. /\ writing.key = "head" /\ writing.key \in Keys /\ head' = b
      /\ UNCHANGED <<headers, bodies, byNumber, children>>
  BY <1>0 DEF SetHead, Keys
<1>2. PICK key \in {"finHeight", "root"} : Then(key)
  BY DEF SetHead
<1>3. /\ writing'.block = b /\ writing'.key = key /\ aborts' = aborts /\ b \in Readable
  BY <1>0, <1>1, <1>2, InFlight, NextKey DEF Inv, BodiesHeaded, Writing, Keys
<1>4. Readable' = Readable
  BY <1>1 DEF Readable
<1>5. Line' = Line
  BY <1>4, LineAsRead
<1>6. ListsRight'
  BY <1>1 DEF Family, ListsRight, Listed
<1>7. AllListed'
  BY <1>1, <1>3, <1>4 DEF Family, AllListed, Listed, Writing
<1>8. EndsAtHead'
  <2>1. SUFFICES ASSUME aborts = 0, OneLine PROVE EndsAtHead'
    BY <1>1, <1>3 DEF EndsAtHead, OneLine
  <2>2. ParentOf[b] = head /\ children[b] = << >> /\ byNumber[0] = Genesis
    BY <1>0, <1>1, <2>1 DEF Family, EndsAtHead, Writing
  <2>3. \A c \in Readable : c \in Line[head] \/ c = b
    BY <1>0, <2>1 DEF Family, EndsAtHead
  <2>4. head \in Readable /\ Readable \subseteq Blocks
    BY DEF Inv, TypeOK, RefsReadable, Readable
  <2>5. NumberOf[b] # 0
    BY <1>0, <2>2, <2>4, ChainAssumption
  <2>6. Line[b] = {b} \cup Line[head]
    BY <1>3, <2>2, <2>5, LineDown DEF Inv
  <2>7. QED
    BY <1>1, <1>2, <1>3, <1>4, <1>5, <2>2, <2>3, <2>6 DEF EndsAtHead, Writing
<1>9. QED
  BY <1>6, <1>7, <1>8 DEF Family

LEMMA FamilyNext ==
  ASSUME Inv, Inv', Family, [Next]_vars
  PROVE  Family'
<1>1. aborts \in Nat /\ (writing = Idle => writing.key = "none")
  BY ChainAssumption DEF Inv, TypeOK, Idle
<1>2. CASE UNCHANGED vars
  BY <1>2 DEF vars, store, Family, ListsRight, AllListed, EndsAtHead, Listed, Fresh, OneLine,
              Line, Readable, Writing
<1>3. CASE PutHeader
  <2>1. /\ writing.key = "header" /\ writing.key \in Keys /\ headers' = headers \cup {writing.block}
        /\ UNCHANGED <<bodies, byNumber, children, head>> /\ Then("body") /\ "body" \in Keys
    BY <1>3 DEF PutHeader, Keys
  <2>2. writing'.key = "body" /\ aborts' = aborts
    BY <2>1, NextKey DEF Inv
  <2>3. Readable' = Readable
    BY <2>1 DEF Inv, BodiesHeaded, Readable
  <2>4. QED
    BY <2>1, <2>2, <2>3, FamilyUntouched DEF Writing
<1>4. CASE PutBody
  BY <1>4, FamilyBody
<1>5. CASE PutNumber \/ PutSigned
  BY <1>5, FamilyIndexed
<1>6. CASE PutChildren
  BY <1>6, FamilyChildren
<1>7. CASE SetHead
  BY <1>7, FamilyHead
<1>8. CASE PutFinHeight \/ PutFinHash
  <2>1. /\ writing.key \in {"finHeight", "finHash"} /\ writing.key \in Keys
        /\ UNCHANGED <<headers, bodies, byNumber, children, head>>
    BY <1>8 DEF PutFinHeight, PutFinHash, Keys
  <2>2. PICK key \in {"finHash", "root"} : Then(key) /\ key \in Keys
    BY <1>8 DEF PutFinHeight, PutFinHash, Keys
  <2>3. writing'.key = key /\ aborts' = aborts
    BY <2>1, <2>2, NextKey DEF Inv
  <2>4. Readable' = Readable
    BY <2>1 DEF Readable
  <2>5. QED
    BY <2>1, <2>2, <2>3, <2>4, FamilyUntouched DEF Writing
<1>9. CASE PutRoot \/ Abort
  <2>1. /\ UNCHANGED <<headers, bodies, byNumber, children, head>> /\ writing' = Idle
        /\ aborts' = 0 => aborts = 0 /\ writing.key = "root"
    BY <1>1, <1>9 DEF PutRoot, Abort, Return, store
  <2>2. Readable' = Readable /\ writing'.key = "none"
    BY <2>1 DEF Readable, Idle
  <2>3. QED
    BY <2>1, <2>2, FamilyUntouched DEF Writing
<1>10. ASSUME NEW b \in Blocks, NEW now \in Times, Offer(b, now)
       PROVE  Family'
  <2>1. /\ UNCHANGED <<headers, bodies, byNumber, children, head, aborts>>
        /\ writing = Idle /\ writing' \in {Idle, [block |-> b, key |-> "header"]}
    BY <1>10 DEF Offer, RefuseBody, RefuseOrphan, RefuseHeader, RefuseReorg, RefuseDoubleSign,
                 Admit, Refuse, Return, store
  <2>2. writing.key = "none" /\ writing'.key \in {"none", "header"}
    BY <2>1 DEF Idle
  <2>3. Readable' = Readable
    BY <2>1 DEF Readable
  <2>4. QED
    BY <2>1, <2>2, <2>3, FamilyUntouched DEF Writing
<1>11. QED
  BY <1>2, <1>3, <1>4, <1>5, <1>6, <1>7, <1>8, <1>9, <1>10 DEF Next, Put

-----------------------------------------------------------------------------
(* GHOST on one line.                                                      *)

(* Every block but the head has one child, the next on the line.           *)
Straight ==
  /\ head \in Readable /\ Genesis \in Readable /\ byNumber[0] = Genesis
  /\ children[head] = << >>
  /\ \A b \in Blocks \ Readable : children[b] = << >>
  /\ \A b \in Readable :
       /\ b \in Blocks /\ NumberOf[b] \in 0 .. NumberOf[head]
       /\ b = OfNumber(head, NumberOf[b])
  /\ \A b \in Readable \ {head} :
       \E d \in Readable :
         /\ Len(children[b]) = 1 /\ children[b][1] = d
         /\ NumberOf[d] = NumberOf[b] + 1

LEMMA OneLineIsStraight ==
  ASSUME Inv, Family, Quiet, aborts = 0, OneLine
  PROVE  Straight
<1>1. writing.key = "none"
  BY DEF Quiet, Idle
<1>2. /\ \A c \in Readable : c \in Line[head] /\ Listed(c)
      /\ children[head] = << >> /\ byNumber[0] = Genesis
  BY <1>1 DEF Family, AllListed, EndsAtHead, Writing
<1>3. /\ head \in Readable /\ Readable \subseteq Blocks /\ TypeOK /\ ParentsStored
      /\ \A p \in Blocks \cup {NoBlock} : \A i \in DOMAIN children[p] :
           children[p][i] \in Readable /\ ParentOf[children[p][i]] = p
      /\ Listed(Genesis) /\ Genesis \in Blocks /\ ParentOf[Genesis] = NoBlock
      /\ NoBlock \notin Blocks
  BY ChainAssumption DEF Inv, TypeOK, RefsReadable, Readable, Family, ListsRight
<1>4. Genesis \in Readable
  BY <1>3 DEF Listed
<1>5. \A c \in Readable : ParentOf[c] \in Readable \cup {NoBlock}
  BY <1>3, LineDown
<1>6. ASSUME NEW b \in Blocks \ Readable
      PROVE  children[b] = << >>
  <2>1. DOMAIN children[b] = {}
    BY <1>3, <1>5
  <2>2. children[b] \in Seq(Blocks)
    BY DEF Inv, TypeOK
  <2>3. DOMAIN children[b] = 1 .. Len(children[b]) /\ Len(children[b]) \in Nat
    BY <2>2
  <2>4. \A n \in Nat \ {0} : 1 \in 1 .. n
    OBVIOUS
  <2>5. QED
    BY <2>1, <2>2, <2>3, <2>4, EmptySeq
<1>7. ASSUME NEW b \in Readable
      PROVE  /\ b \in Blocks /\ NumberOf[b] \in 0 .. NumberOf[head]
             /\ b = OfNumber(head, NumberOf[b])
  BY <1>2, <1>3, OnLine
<1>8. ASSUME NEW b \in Readable \ {head}
      PROVE  \E d \in Readable :
               /\ Len(children[b]) = 1 /\ children[b][1] = d
               /\ NumberOf[d] = NumberOf[b] + 1
  <2>1. PICK d \in Line[head] :
          d \in Readable /\ ParentOf[d] = b /\ NumberOf[d] = NumberOf[b] + 1
    BY <1>2, <1>3, ChildOnLine
  <2>2. PICK i \in DOMAIN children[b] : children[b][i] = d
    BY <1>2, <2>1 DEF Listed
  <2>3. children[b] \in Seq(Blocks) /\ Len(children[b]) <= 1
    BY <1>3 DEF Inv, TypeOK, OneLine
  <2>4. DOMAIN children[b] = 1 .. Len(children[b]) /\ Len(children[b]) \in Nat
    BY <2>3
  <2>5. PICK n \in Nat : n = Len(children[b]) /\ i \in 1 .. n /\ n <= 1
    BY <2>3, <2>4
  <2>6. \A m \in Nat : \A j \in 1 .. m : m <= 1 => j = 1 /\ m = 1
    OBVIOUS
  <2>7. i = 1 /\ n = 1
    BY <2>5, <2>6
  <2>8. QED
    BY <2>1, <2>2, <2>5, <2>7
<1>9. QED
  BY <1>2, <1>3, <1>4, <1>6, <1>7, <1>8 DEF Straight

(* The weight of a line: there is such a function, and SubtreeStake is one.*)
LEMMA StakesAreNumbers ==
  ASSUME TypeOK, Straight
  PROVE  \A b \in Readable : SubtreeStake[b] \in Nat
<1> DEFINE sum(h, b) == CHOOSE s : s = [i \in 0 .. Len(children[b]) |->
             IF i = 0 THEN 0 ELSE s[i - 1] + h[children[b][i]]]
           step(h) == [b \in Blocks |->
             IF b \in Readable THEN StakeOf[ValidatorOf[b]] + sum(h, b)[Len(children[b])]
             ELSE 0]
<1>1. \A h, b : children[b] = << >> => sum(h, b)[Len(children[b])] = 0
  <2>1. SUFFICES ASSUME NEW h, NEW b, children[b] = << >>
                 PROVE  sum(h, b)[Len(children[b])] = 0
    OBVIOUS
  <2> DEFINE one(s) == [i \in 0 .. Len(children[b]) |->
               IF i = 0 THEN 0 ELSE s[i - 1] + h[children[b][i]]]
             t == [i \in 0 .. 0 |-> 0]
  <2>2. Len(children[b]) = 0
    BY <2>1
  <2>3. one(t) = t
    BY <2>2
  <2> DEFINE s == CHOOSE x : x = one(x)
  <2>4. s = one(s)
    BY <2>3
  <2>5. s[0] = 0
    <3> HIDE DEF s
    <3>1. QED
      BY <2>2, <2>4
  <2>6. QED
    BY <2>2, <2>5
<1>2. \A h, b, d : Len(children[b]) = 1 /\ children[b][1] = d =>
        sum(h, b)[Len(children[b])] = 0 + h[d]
  <2>1. SUFFICES ASSUME NEW h, NEW b, NEW d, Len(children[b]) = 1, children[b][1] = d
                 PROVE  sum(h, b)[1] = 0 + h[d]
    <3> HIDE DEF sum
    <3>1. QED
      BY <2>1
  <2> DEFINE one(s) == [i \in 0 .. Len(children[b]) |->
               IF i = 0 THEN 0 ELSE s[i - 1] + h[children[b][i]]]
             t == [i \in 0 .. 1 |-> IF i = 0 THEN 0 ELSE 0 + h[d]]
  <2>2. one(t) = t
    <3>1. \A i \in 0 .. 1 : i = 0 \/ i = 1
      OBVIOUS
    <3>2. one(t)[0] = 0 /\ one(t)[1] = 0 + h[d]
      BY <2>1
    <3>3. one(t) = [i \in 0 .. 1 |-> one(t)[i]]
      BY <2>1
    <3> HIDE DEF one
    <3>4. QED
      BY <3>1, <3>2, <3>3
  <2> DEFINE s == CHOOSE x : x = one(x)
  <2>3. s = one(s)
    BY <2>2
  <2>4. s[1] = 0 + h[d]
    <3> HIDE DEF s
    <3>1. s[0] = 0 /\ s[1] = s[1 - 1] + h[d]
      BY <2>1, <2>3
    <3>2. QED
      BY <3>1
  <2>5. QED
    BY <2>4
<1> HIDE DEF sum
<1>3. \A b \in Blocks : StakeOf[ValidatorOf[b]] \in Nat
  BY ChainAssumption DEF Validators
<1>4. Readable \subseteq Blocks
  BY DEF TypeOK, Readable
<1>5. PICK top \in Nat : top = NumberOf[head]
  BY <1>4, ChainAssumption DEF Straight
<1>6. \A b \in Readable : b \in Blocks /\ NumberOf[b] \in 0 .. top /\ b = OfNumber(head, NumberOf[b])
  BY <1>5 DEF Straight
<1>7. PICK f \in [0 .. top -> Nat] : \A b \in Readable : f[NumberOf[b]] = StakeOf[ValidatorOf[b]]
  <2> DEFINE f == [n \in 0 .. top |->
               IF OfNumber(head, n) \in Readable THEN StakeOf[ValidatorOf[OfNumber(head, n)]] ELSE 0]
  <2>1. f \in [0 .. top -> Nat]
    BY <1>3, <1>4
  <2>2. \A b \in Readable : f[NumberOf[b]] = StakeOf[ValidatorOf[b]]
    BY <1>6
  <2>3. QED
    BY <2>1, <2>2
<1>8. PICK g : Sums(g, 0 .. top, f)
  <2>1. IsFiniteSet(0 .. top)
    BY FS_Interval
  <2>2. QED
    BY <2>1, SumOfParts
<1>9. PICK w : w = [b \in Blocks |-> IF b \in Readable THEN g[NumberOf[b] .. top] ELSE 0]
  OBVIOUS
<1>10. w = step(w)
  <2>1. ASSUME NEW b \in Blocks
        PROVE  w[b] = step(w)[b]
    <3>1. CASE b \notin Readable
      BY <1>9, <3>1
    <3>2. CASE b \in Readable
      <4>1. PICK n \in 0 .. top : n = NumberOf[b]
        BY <1>6, <3>2
      <4>2. /\ n .. top \in SUBSET (0 .. top) /\ n \in n .. top
            /\ (n .. top) \ {n} = n + 1 .. top
        BY <4>1
      <4>3. g[n .. top] = f[n] + g[n + 1 .. top] /\ f[n] = StakeOf[ValidatorOf[b]]
        <5>1. PICK s : s = n .. top /\ s \ {n} = n + 1 .. top
          BY <4>2
        <5>2. s \in SUBSET (0 .. top) /\ n \in s
          BY <4>2, <5>1
        <5>3. g[s] = f[n] + g[s \ {n}]
          BY <1>8, <5>2 DEF Sums
        <5>4. QED
          BY <1>7, <3>2, <4>1, <5>1, <5>3
      <4>4. w[b] = f[n] + g[n + 1 .. top]
        BY <1>9, <3>2, <4>1, <4>3
      <4>5. step(w)[b] = f[n] + sum(w, b)[Len(children[b])]
        BY <3>2, <4>3
      <4>6. CASE b = head
        <5>1. n + 1 .. top = {} /\ {} \in SUBSET (0 .. top)
          BY <1>5, <4>1, <4>6
        <5>2. g[n + 1 .. top] = 0
          BY <1>8, <5>1 DEF Sums
        <5>3. sum(w, b)[Len(children[b])] = 0
          BY <1>1, <4>6 DEF Straight
        <5>4. QED
          BY <4>4, <4>5, <5>2, <5>3
      <4>7. CASE b # head
        <5>1. PICK d \in Readable : /\ Len(children[b]) = 1 /\ children[b][1] = d
                                    /\ NumberOf[d] = n + 1
          BY <3>2, <4>1, <4>7 DEF Straight
        <5>2. sum(w, b)[Len(children[b])] = 0 + w[d]
          BY <1>2, <5>1, Zenon
        <5>3. w[d] = g[n + 1 .. top]
          BY <1>4, <1>9, <5>1
        <5>4. n + 1 .. top \in SUBSET (0 .. top)
          BY <4>1
        <5>5. g[n + 1 .. top] \in Nat
          BY <1>8, <5>4 DEF Sums
        <5>6. QED
          BY <4>4, <4>5, <5>2, <5>3, <5>5
      <4>8. QED
        BY <4>6, <4>7
    <3>3. QED
      BY <3>1, <3>2
  <2> HIDE DEF step
  <2>2. w = [b \in Blocks |-> w[b]] /\ step(w) = [b \in Blocks |-> step(w)[b]]
    BY <1>9 DEF step
  <2>3. QED
    BY <2>1, <2>2
<1>11. SubtreeStake = step(SubtreeStake)
  BY <1>10, Zenon DEF SubtreeStake, sum
<1>12. PICK v : v = SubtreeStake /\ v = step(v)
  BY <1>11
<1>13. \A b \in Readable :
         v[b] = StakeOf[ValidatorOf[b]] + sum(v, b)[Len(children[b])]
  BY <1>4, <1>12
<1> HIDE DEF step
<1> DEFINE Wrong == {top - NumberOf[b] : b \in {x \in Readable : v[x] \notin Nat}}
<1>14. Wrong = {}
  <2>1. SUFFICES ASSUME Wrong # {} PROVE FALSE
    OBVIOUS
  <2>2. Wrong \subseteq Nat
    BY <1>6
  <2>3. PICK n \in Wrong : \A m \in Wrong : n <= m
    BY <2>1, <2>2, LeastOfNaturals
  <2>4. PICK b \in Readable : v[b] \notin Nat /\ n = top - NumberOf[b]
    OBVIOUS
  <2>5. StakeOf[ValidatorOf[b]] \in Nat
    BY <1>3, <1>4
  <2>6. b # head
    <3>1. SUFFICES ASSUME b = head PROVE FALSE
      OBVIOUS
    <3>2. sum(v, b)[Len(children[b])] = 0
      BY <1>1, <3>1 DEF Straight
    <3>3. v[b] \in Nat
      BY <1>13, <2>5, <3>2
    <3>4. QED
      BY <2>4, <3>3
  <2>7. PICK d \in Readable : /\ Len(children[b]) = 1 /\ children[b][1] = d
                              /\ NumberOf[d] = NumberOf[b] + 1
    BY <2>6 DEF Straight
  <2>8. v[b] = StakeOf[ValidatorOf[b]] + (0 + v[d])
    BY <1>2, <1>13, <2>7
  <2>9. v[d] \notin Nat
    BY <2>4, <2>5, <2>8
  <2>10. top - NumberOf[d] \in Wrong
    BY <2>9
  <2>11. ~ top - NumberOf[b] <= top - NumberOf[d]
    BY <1>6, <2>7
  <2> HIDE DEF Wrong
  <2>12. QED
    BY <2>3, <2>4, <2>10, <2>11
<1>15. QED
  BY <1>12, <1>14

(* The walk from the genesis block ends at the head.                       *)
LEMMA WalkEndsAtHead ==
  ASSUME TypeOK, Straight
  PROVE  CanonicalHead = head
<1> DEFINE best(b) == CHOOSE i \in DOMAIN children[b] :
             /\ \A j \in DOMAIN children[b] :
                  SubtreeStake[children[b][j]] <= SubtreeStake[children[b][i]]
             /\ \A j \in i + 1 .. Len(children[b]) :
                  SubtreeStake[children[b][j]] < SubtreeStake[children[b][i]]
           step(h) == [b \in Blocks |->
             IF children[b] = << >> THEN b ELSE h[children[b][best(b)]]]
<1>1. Readable \subseteq Blocks /\ \A b \in Blocks : children[b] \in Seq(Blocks)
  BY DEF TypeOK, Readable
<1>2. ASSUME NEW b \in Readable, b # head
      PROVE  \E d \in Readable :
               /\ children[b] # << >> /\ children[b][best(b)] = d
               /\ NumberOf[d] = NumberOf[b] + 1
  <2>1. PICK d \in Readable : /\ Len(children[b]) = 1 /\ children[b][1] = d
                              /\ NumberOf[d] = NumberOf[b] + 1
    BY <1>2 DEF Straight
  <2>2. DOMAIN children[b] = {1} /\ children[b] # << >>
    BY <1>1, <2>1
  <2>3. SubtreeStake[d] <= SubtreeStake[d]
    <3>1. SubtreeStake[d] \in Nat
      BY StakesAreNumbers
    <3>2. \A n \in Nat : n <= n
      OBVIOUS
    <3>3. QED
      BY <3>1, <3>2
  <2>4. 1 + 1 .. Len(children[b]) = {}
    BY <2>1
  <2>5. best(b) \in DOMAIN children[b]
    BY <2>1, <2>2, <2>3, <2>4
  <2>6. QED
    BY <2>1, <2>2, <2>5
<1> HIDE DEF best
<1>3. PICK w : w = [b \in Blocks |-> IF b \in Readable THEN head ELSE b]
  BY Zenon
<1>4. w = step(w)
  <2>1. ASSUME NEW b \in Blocks
        PROVE  w[b] = IF children[b] = << >> THEN b ELSE w[children[b][best(b)]]
    <3>1. CASE b \notin Readable \/ b = head
      BY <1>3, <3>1 DEF Straight
    <3>2. CASE b \in Readable /\ b # head
      BY <1>1, <1>2, <1>3, <3>2
    <3>3. QED
      BY <3>1, <3>2
  <2>2. QED
    BY <1>3, <2>1
<1>5. CanonicalFrom = step(CanonicalFrom)
  BY <1>4, Zenon DEF CanonicalFrom, best
<1>6. PICK v : v = CanonicalFrom /\ v = step(v)
  BY <1>5
<1>7. \A b \in Readable :
        v[b] = IF children[b] = << >> THEN b ELSE v[children[b][best(b)]]
  BY <1>1, <1>6
<1> HIDE DEF step
<1>8. PICK top \in Nat : top = NumberOf[head]
  BY <1>1, ChainAssumption DEF Straight
<1>9. \A b \in Readable : NumberOf[b] \in 0 .. top
  BY <1>8 DEF Straight
<1> DEFINE Wrong == {top - NumberOf[b] : b \in {x \in Readable : v[x] # head}}
<1>10. Wrong = {}
  <2>1. SUFFICES ASSUME Wrong # {} PROVE FALSE
    OBVIOUS
  <2>2. Wrong \subseteq Nat
    BY <1>9
  <2>3. PICK n \in Wrong : \A m \in Wrong : n <= m
    BY <2>1, <2>2, LeastOfNaturals
  <2>4. PICK b \in Readable : v[b] # head /\ n = top - NumberOf[b]
    OBVIOUS
  <2>5. b # head
    BY <1>7, <2>4 DEF Straight
  <2>6. PICK d \in Readable : /\ children[b] # << >> /\ children[b][best(b)] = d
                              /\ NumberOf[d] = NumberOf[b] + 1
    BY <1>2, <2>5
  <2>7. v[d] # head
    BY <1>7, <2>4, <2>6
  <2>8. top - NumberOf[d] \in Wrong
    BY <2>7
  <2>9. ~ top - NumberOf[b] <= top - NumberOf[d]
    BY <1>9, <2>6
  <2> HIDE DEF Wrong
  <2>10. QED
    BY <2>3, <2>4, <2>8, <2>9
<1>11. QED
  BY <1>6, <1>10 DEF Straight, CanonicalHead

(* The fork choice of a store that never had a fork is the head that       *)
(* accept_block moved, whatever the stakes and however long the line.      *)
THEOREM ForklessHeadIsCanonical == Spec => []CanonicalOnOneLine
<1>1. Inv /\ Family /\ [Next]_vars => (Inv /\ Family)'
  BY NextKeeps, FamilyNext
<1>2. Inv /\ Family => CanonicalOnOneLine
  <2>1. SUFFICES ASSUME Inv, Family, Quiet, aborts = 0, OneLine
                 PROVE  CanonicalHead = head
    BY DEF CanonicalOnOneLine, OneLine
  <2>2. Straight /\ TypeOK
    BY <2>1, OneLineIsStraight DEF Inv
  <2>3. QED
    BY <2>2, WalkEndsAtHead
<1>3. QED
  BY InitHolds, FamilyInit, <1>1, <1>2, PTL DEF Spec

=============================================================================
