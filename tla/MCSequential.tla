----------------------------- MODULE MCSequential -----------------------------
(* The memory of the scheme interpreter and the editor, each on its own:   *)
(* `subject` says which of them a behaviour is about.  Scheme has two      *)
(* names, one of them the name of a built-in function too, and two         *)
(* lambdas.                                                                *)
EXTENDS SchemeMemory, MCEditor

CONSTANTS x, plus, l1, l2, v1, v2, v3

TwoNames == {x, plus}
Plus == {plus}
TwoLambdas == {l1, l2}
ThreeVariables == {v1, v2, v3}
AlikeInBoth == Permutations(ThreeVariables) \union Permutations(TwoLambdas) \union Alike

VARIABLE subject

SequentialInit == Init /\ EditorInit /\ subject \in {"SchemeMemory", "Editor"}

SequentialNext ==
  /\ \/ subject = "SchemeMemory" /\ Next /\ UNCHANGED editor_vars
     \/ subject = "Editor" /\ EditorNext /\ UNCHANGED vars
  /\ UNCHANGED subject

SequentialSpec == SequentialInit /\ [][SequentialNext]_<<subject, vars, editor_vars>>
=============================================================================
