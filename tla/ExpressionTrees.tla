-------------------------- MODULE ExpressionTrees --------------------------
(* Formulas of metrics and expressions of calculated fields are trees: a   *)
(* node is a leaf or has the operands left and right. A tree is taken in   *)
(* level by level, as far down as the contracts allow, so that what is     *)
(* computed of one is a function of its parts.                             *)
EXTENDS Integers

Operands(node) == IF "left" \in DOMAIN node THEN {node.left, node.right} ELSE {}

IsLeaf(node) == Operands(node) = {}

(* What is n levels below the root.                                        *)
Level(root, n) ==
  LET level[i \in Nat] ==
        IF i = 0 THEN {root} ELSE UNION {Operands(node) : node \in level[i - 1]}
  IN level[n]

(* The checks of the depth.                                                *)
IsWithin(root, depth) == Level(root, depth) = {}

Parts(root, depth) == UNION {Level(root, n) : n \in 0..(depth - 1)}
=============================================================================
