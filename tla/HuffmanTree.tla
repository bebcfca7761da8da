---------------------------- MODULE HuffmanTree ----------------------------
(***************************************************************************)
(* jpeg-decoder/huffman: the tree by which Huffman codes are decoded.  A   *)
(* node is named by its path from the root, a sequence of bits, and a tree *)
(* is the function from its leaves to their values: Try leaves a subtree   *)
(* behind only when leaves fill it, so every node is on the way to a leaf. *)
(* counts[d] is how many leaves are wanted at depth d.                     *)
(***************************************************************************)
EXTENDS Integers, SequencesExt

CONSTANT MaxCodeLength   \* 16

ASSUME HuffmanAssumption == MaxCodeLength \in Nat

Root == <<>>
OnlyRoot == <<>>   \* no leaves
NoTree == Root :> 0   \* no tree at all
NoPlace == <<2>>   \* Try returned false

(* set[depth], the leaves that there are at a depth already.               *)
LeavesAt(tree, depth) == Cardinality({leaf \in DOMAIN tree : Len(leaf) = depth})

(* Try: the first place where a leaf is wanted, searched from the root.    *)
Try(tree, counts) ==
  LET under[at \in Seq({0, 1})] ==
        CASE at \in DOMAIN tree -> NoPlace
          [] at # Root /\ at \notin DOMAIN tree /\ counts[Len(at)] # LeavesAt(tree, Len(at)) -> at
          [] OTHER ->
               LET left == under[Append(at, 0)] IN
               IF left # NoPlace THEN left ELSE under[Append(at, 1)]
  IN  under[Root]

(* Build refuses wrong lengths first, then hangs value after value.        *)
Builds(counts, values) ==
  Len(counts) =< MaxCodeLength /\ SumFunction(counts) = Len(values)

Hung(tree, counts, value) == (Try(tree, counts) :> value) @@ tree

(* Move goes from a node along a bit: to a leaf, from which it returns to  *)
(* the root, or off the tree, which throws.                                *)
MovesToLeaf(tree, at, bit) == Append(at, bit) \in DOMAIN tree
MovesOff(tree, at, bit) == \A leaf \in DOMAIN tree : ~ IsPrefix(Append(at, bit), leaf)
=============================================================================
