--------------------------- MODULE SchemeGrammar ---------------------------
(***************************************************************************)
(* The notation of Scheme data as the readme files of scheme/tokenizer and *)
(* scheme/parser define it: a text is cut into the longest lexemes, and a  *)
(* tree is denoted by every sequence of tokens that the rules for atoms,   *)
(* quotes, lists and dotted lists derive: whole sequences are split in all *)
(* ways, nothing looks ahead or waits, as the parser does.  The rules say  *)
(* what a sequence means when it is known (cut, den) what shorter ones do. *)
(*                                                                         *)
(* A text is a sequence of characters.                                     *)
(***************************************************************************)
EXTENDS Integers, SequencesExt, FiniteSetsExt

CONSTANTS Letters,   \* the letters and signs that a symbol may begin with
          Inside,    \* what it may contain besides these and digits
          Others     \* what begins no token

Blanks == {" ", "\n"}
DecimalDigits == <<"0", "1", "2", "3", "4", "5", "6", "7", "8", "9">>
Digits == Range(DecimalDigits)
Signs == {"+", "-"}
Marks == {"(", ")", "'", "."}
Characters == UNION {Blanks, Digits, Signs, Marks, Letters, Inside, Others}

ASSUME AlphabetAssumption ==
  /\ Letters \intersect UNION {Digits, Signs, Marks, Blanks} = {}
  /\ Inside \intersect Blanks = {}

QuoteName == <<"q", "u", "o", "t", "e">>

(* Trees.                                                                  *)
Null == [is |-> "nullptr"]
Number(n) == [is |-> "Number", value |-> n]
Symbol(name) == [is |-> "Symbol", name |-> name]
Cell(first, second) == [is |-> "Cell", first |-> first, second |-> second]

Cells(items, tail) == FoldRight(Cell, items, tail)
Quoted(tree) == Cells(<<Symbol(QuoteName), tree>>, Null)

-----------------------------------------------------------------------------
All(w, S) == \A i \in DOMAIN w : w[i] \in S

IsNumeral(w) ==
  \/ All(w, Digits)
  \/ Len(w) > 1 /\ Head(w) \in Signs /\ All(Tail(w), Digits)
IsName(w) ==
  \/ Head(w) \in Letters /\ All(Tail(w), Letters \union Digits \union Inside)
  \/ Len(w) = 1 /\ Head(w) \in Signs
IsLexeme(w) ==
  IsNumeral(w) \/ IsName(w) \/ w \in {<<c>> : c \in Marks}

(* The number that a numeral means.                                        *)
DigitValue(c) == CHOOSE d \in 0 .. 9 : DecimalDigits[d + 1] = c
Magnitude(digits) == FoldLeft(LAMBDA n, c : 10 * n + DigitValue(c), 0, digits)
NumeralValue(w) ==
  IF Head(w) \in Digits THEN Magnitude(w)
  ELSE (IF Head(w) = "-" THEN -1 ELSE 1) * Magnitude(Tail(w))

(* The lexemes of a text.  A character that begins none stands alone; it   *)
(* is no lexeme, and no datum has it.                                      *)
Longest(s) == Max({1} \union {n \in 1 .. Len(s) : IsLexeme(SubSeq(s, 1, n))})
FirstLexeme(s) == SubSeq(s, 1, Longest(s))

LexemesBy(cut, s) ==
  IF s = <<>> THEN <<>>
  ELSE IF Head(s) \in Blanks THEN cut[Tail(s)]
  ELSE <<FirstLexeme(s)>> \o cut[SubSeq(s, Longest(s) + 1, Len(s))]
Lexemes[s \in Seq(Characters)] == LexemesBy(Lexemes, s)

-----------------------------------------------------------------------------
(* The trees that a sequence of lexemes denotes as one datum, and the      *)
(* sequences of trees that it denotes as data one after another.           *)
ListsBy(den, ws) ==
  {Cells(items, Null) : items \in den[SubSeq(ws, 2, Len(ws) - 1)]["data"]}
    \union
  UNION {{Cells(items, tail) : items \in den[SubSeq(ws, 2, d - 1)]["data"],
                               tail \in den[SubSeq(ws, d + 1, Len(ws) - 1)]["datum"]} :
           d \in {d \in 3 .. Len(ws) - 1 : ws[d] = <<".">>}}
DatumBy(den, ws) ==
  IF ws = <<>> THEN {}
  ELSE IF Len(ws) = 1
  THEN IF IsNumeral(ws[1]) THEN {Number(NumeralValue(ws[1]))}
       ELSE IF IsName(ws[1]) THEN {Symbol(ws[1])} ELSE {}
  ELSE IF Head(ws) = <<"'">> THEN {Quoted(tree) : tree \in den[Tail(ws)]["datum"]}
  ELSE IF Head(ws) = <<"(">> /\ Last(ws) = <<")">> THEN ListsBy(den, ws)
  ELSE {}
DataBy(den, ws) ==
  IF ws = <<>> THEN {<<>>}
  ELSE {<<tree>> : tree \in DatumBy(den, ws)}
         \union
       UNION {{Append(items, tree) : items \in den[SubSeq(ws, 1, n)]["data"],
                                     tree \in den[SubSeq(ws, n + 1, Len(ws))]["datum"]} :
                n \in {n \in 1 .. Len(ws) - 1 : den[SubSeq(ws, n + 1, Len(ws))]["datum"] # {}}}
DenotesBy(den, ws) ==
  [kind \in {"datum", "data"} |-> IF kind = "datum" THEN DatumBy(den, ws) ELSE DataBy(den, ws)]
Denotes[ws \in Seq(Seq(Characters))] == DenotesBy(Denotes, ws)

Denoted(ws) == Denotes[ws]["datum"]
Items(ws) == Denotes[ws]["data"]

(* As many data as a sequence of lexemes begins with, and whether it ends  *)
(* with the last of them.                                                  *)
Data(ws) ==
  LET n == Max({n \in 0 .. Len(ws) : Items(SubSeq(ws, 1, n)) # {}})
  IN [trees |-> CHOOSE items \in Items(SubSeq(ws, 1, n)) : TRUE, whole |-> n = Len(ws)]
=============================================================================
