---------------------------- MODULE SchemeReader ----------------------------
(***************************************************************************)
(* scheme/advanced: what the parser reads, and Serialize, which writes it. *)
(***************************************************************************)
EXTENDS SchemeParser

(* scheme.cpp: Serialize.                                                  *)
RECURSIVE Decimal(_)
Decimal(n) ==
  IF n < 0 THEN <<"-">> \o Decimal(-n)
  ELSE (IF n < 10 THEN <<>> ELSE Decimal(n \div 10)) \o <<DecimalDigits[(n % 10) + 1]>>

BugBefore(second) == IF second = Null THEN <<>> ELSE <<" ">>
Before(second) ==
  IF second = Null THEN <<>> ELSE IF second.is = "Cell" THEN <<" ">> ELSE <<" ", ".", " ">>

RECURSIVE Serialize(_, _)
Serialize(tree, ongoing) ==
  CASE tree = Null -> IF ongoing THEN <<>> ELSE <<"(", ")">>
    [] tree.is = "Number" -> Decimal(tree.value)
    [] tree.is = "Symbol" -> tree.name
    [] tree.is = "Cell" ->
         LET written == Serialize(tree.first, FALSE) \o Before(tree.second)
                          \o Serialize(tree.second, TRUE)
         IN IF ongoing THEN written ELSE <<"(">> \o written \o <<")">>

(* What Serialize writes of a tree that was read means this tree again.    *)
WritesWhatItReads ==
  \A i \in DOMAIN trees :
    Data(Lexemes[Serialize(trees[i], FALSE)]) = [trees |-> <<trees[i]>>, whole |-> TRUE]
=============================================================================
