------------------------------ MODULE MCChain ------------------------------
(* A main line of v, a side line of w from the genesis block, a fork of w  *)
(* in the middle, a second block of v for a height, a block whose body is  *)
(* invalid and one stamped too far ahead.                                  *)
EXTENDS Chain, TLC

CONSTANTS v, w, none

Block(name, parent, number, validator, stamp) ==
  [name |-> name, parent |-> parent, number |-> number,
   validator |-> validator, stamp |-> stamp]

g  == Block("g", none, 0, v, 0)
a1 == Block("a1", "g", 1, v, 1)
a2 == Block("a2", "a1", 2, v, 2)
a3 == Block("a3", "a2", 3, v, 3)
b1 == Block("b1", "g", 1, w, 1)
c2 == Block("c2", "a1", 2, w, 2)
d2 == Block("d2", "a1", 2, v, 3)
x1 == Block("x1", "g", 1, w, 1)

MCBlocks == {g, a1, a2, a3, b1, c2, d2, x1}
MCParentOf == [b \in MCBlocks |->
  IF b.number = 0 THEN none ELSE CHOOSE p \in MCBlocks : p.name = b.parent]
MCNumberOf == [b \in MCBlocks |-> b.number]
MCValidatorOf == [b \in MCBlocks |-> b.validator]
MCStampOf == [b \in MCBlocks |-> b.stamp]
MCBodyValid == [b \in MCBlocks |-> b # x1]
MCStakeOf == (v :> 3) @@ (w :> 2)
MCTimes == {1, 4}
=============================================================================
