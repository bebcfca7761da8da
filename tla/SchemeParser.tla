---------------------------- MODULE SchemeParser ----------------------------
(***************************************************************************)
(* scheme/advanced: the tokenizer, which holds at most one token that was  *)
(* looked at, and the recursive parser.  (scheme/tidy has the same parser, *)
(* scheme/tidy and scheme/basic the same tokenizer.)                       *)
(*                                                                         *)
(* The stack of calls of Read and ReadList is explicit: an action is what  *)
(* is done from one call or return to the next.  A client reads data from  *)
(* one stream until it ends, or until one of them throws; Run and the      *)
(* tests read the first.                                                   *)
(***************************************************************************)
EXTENDS SchemeGrammar

CONSTANTS Texts,   \* the texts that are read
          IntMax   \* std::numeric_limits<int>::max()

ASSUME TextsAssumption == Texts \subseteq Seq(Characters)
ASSUME IntMaxAssumption == IntMax \in Nat

VARIABLES stream_,         \* the characters not taken yet
          current_token_, got_token_,
          waiting,           \* the calls that wait for a Read
          at,              \* where control is, or how reading ended
          return_object,   \* what the last Read or ReadList has built
          source, trees      \* history: what the stream held, the data read

parser_vars == <<stream_, current_token_, got_token_, waiting, at, return_object, source, trees>>

Ended == {"end", "SyntaxError", "out_of_range"}

-----------------------------------------------------------------------------
(* Tokens.                                                                 *)
Open == [token |-> "OPEN"]
Close == [token |-> "CLOSE"]
Quote == [token |-> "Quote"]
Dot == [token |-> "Dot"]
OutOfRange == [token |-> "out_of_range"]   \* std::stoi throws
SymbolToken(name) == [token |-> "Symbol", name |-> name]
ConstantToken(n) == [token |-> "Constant", value |-> n]

IsNumber(c) == c \in Digits
IsStartSymbol(c) == c \in Letters
IsMidSymbol(c) == IsStartSymbol(c) \/ IsNumber(c) \/ c \in Inside
IsPlusOrMinus(c) == c \in Signs

(* How many characters of s, from its i-th, a loop over peek takes.        *)
Taken(s, i, wanted) == Min({n \in i .. Len(s) : s[n] \notin wanted} \union {Len(s) + 1}) - i

WithoutBlanks(s) == SubSeq(s, Taken(s, 1, Blanks) + 1, Len(s))

(* std::stoi, which throws what does not fit.                              *)
Stoi(w) ==
  LET n == NumeralValue(w) IN
  IF n \in -IntMax - 1 .. IntMax THEN ConstantToken(n) ELSE OutOfRange

(* GetToken from a stream: the token and how many characters it takes.  A  *)
(* token that is assigned nothing, also at the end, is the constant 0.     *)
BugSymbol(s) ==
  LET n == Taken(s, 2, Letters) IN <<SymbolToken(SubSeq(s, 1, n + 1)), n + 1>>
ReadSymbol(s) ==
  LET n == Taken(s, 2, {c \in Characters : IsMidSymbol(c)}) IN <<SymbolToken(SubSeq(s, 1, n + 1)), n + 1>>
ReadConstant(s) ==
  LET n == Taken(s, 2, Digits) IN
  IF IsPlusOrMinus(Head(s)) /\ n = 0 THEN <<SymbolToken(<<Head(s)>>), 1>>
  ELSE <<Stoi(SubSeq(s, 1, n + 1)), n + 1>>
TokenAt(s) ==
  IF s = <<>> THEN <<ConstantToken(0), 0>>
  ELSE CASE Head(s) = "'" -> <<Quote, 1>>
         [] Head(s) = "." -> <<Dot, 1>>
         [] Head(s) = "(" -> <<Open, 1>>
         [] Head(s) = ")" -> <<Close, 1>>
         [] IsNumber(Head(s)) \/ IsPlusOrMinus(Head(s)) -> ReadConstant(s)
         [] IsStartSymbol(Head(s)) -> ReadSymbol(s)
         [] OTHER -> <<ConstantToken(0), 1>>

(* GetToken: the token, and what is left of the stream.                    *)
Scan(stream) ==
  LET s == WithoutBlanks(stream)
      t == TokenAt(s)
  IN [token |-> t[1], rest |-> SubSeq(s, t[2] + 1, Len(s))]
GetToken == IF got_token_ THEN [token |-> current_token_, rest |-> stream_] ELSE Scan(stream_)

(* The token is got and stays in hand, or Next follows and drops it.       *)
Keep(got) == stream_' = got.rest /\ current_token_' = got.token /\ got_token_' = TRUE
BugDrop(got) == Keep(Scan(got.rest))
Drop(got) == stream_' = got.rest /\ current_token_' = got.token /\ got_token_' = FALSE

IsEnd == WithoutBlanks(stream_) = <<>>

(* The calls that wait.                                                    *)
InQuote == [in |-> "quote"]
InList(items) == [in |-> "list", items |-> items]
InTail(items) == [in |-> "tail", items |-> items]

-----------------------------------------------------------------------------
ParserInit ==
  /\ source \in Texts /\ stream_ = source
  /\ current_token_ = ConstantToken(0) /\ got_token_ = FALSE
  /\ waiting = <<>> /\ at = "Read" /\ return_object = Null
  /\ trees = <<>>

(* Control is back in a call that waits.                                   *)
BackIn(call) == at = "Return" /\ waiting # <<>> /\ Last(waiting).in = call

(* std::stoi throws, wherever the token is got.                            *)
StoiThrows ==
  /\ at \in {"ReadList", "Closing"} \/ (at = "Read" /\ ~IsEnd) \/ BackIn("list")
  /\ GetToken.token = OutOfRange
  /\ stream_' = GetToken.rest
  /\ at' = "out_of_range"
  /\ UNCHANGED <<current_token_, got_token_, waiting, return_object, source, trees>>

(* Read, as far as its first call or its return.  IsEnd looks at the       *)
(* stream, also when a token is in hand, and takes the blanks.             *)
ReadAtEnd ==
  /\ at = "Read" /\ IsEnd
  /\ stream_' = <<>> /\ at' = "SyntaxError"
  /\ UNCHANGED <<current_token_, got_token_, waiting, return_object, source, trees>>
Read ==
  /\ at = "Read" /\ ~IsEnd
  /\ LET got == [GetToken EXCEPT !.rest = IF got_token_ THEN WithoutBlanks(@) ELSE @]
         t == got.token
     IN
     \/ /\ t.token \in {"Constant", "Symbol"}
        /\ return_object' = IF t.token = "Constant" THEN Number(t.value) ELSE Symbol(t.name)
        /\ Drop(got) /\ at' = "Return" /\ UNCHANGED waiting
     \/ /\ t = Quote /\ Drop(got)
        /\ waiting' = Append(waiting, InQuote) /\ UNCHANGED <<at, return_object>>
     \/ t = Open /\ Drop(got) /\ at' = "ReadList" /\ UNCHANGED <<waiting, return_object>>
     \/ t \in {Close, Dot} /\ Keep(got) /\ at' = "SyntaxError" /\ UNCHANGED <<waiting, return_object>>
  /\ UNCHANGED <<source, trees>>

(* ReadList, which has dropped the bracket, looks for the first element.   *)
ReadList ==
  /\ at = "ReadList" /\ GetToken.token # OutOfRange
  /\ Keep(GetToken)
  /\ \/ /\ GetToken.token = Close
        /\ return_object' = Null /\ at' = "Closing" /\ UNCHANGED waiting
     \/ /\ GetToken.token # Close
        /\ waiting' = Append(waiting, InList(<<>>)) /\ at' = "Read" /\ UNCHANGED return_object
  /\ UNCHANGED <<source, trees>>

(* An element was read: the loop of ReadList.                              *)
ListGoesOn ==
  /\ BackIn("list") /\ GetToken.token # OutOfRange
  /\ LET items == Append(Last(waiting).items, return_object) IN
     \/ /\ GetToken.token = Close /\ Keep(GetToken)
        /\ return_object' = Cells(items, Null)
        /\ waiting' = Front(waiting) /\ at' = "Closing"
     \/ /\ GetToken.token = Dot /\ Drop(GetToken)
        /\ waiting' = Append(Front(waiting), InTail(items)) /\ at' = "Read"
        /\ UNCHANGED return_object
     \/ /\ GetToken.token \notin {Close, Dot} /\ Keep(GetToken)
        /\ waiting' = Append(Front(waiting), InList(items)) /\ at' = "Read"
        /\ UNCHANGED return_object
  /\ UNCHANGED <<source, trees>>

(* What follows the dot was read.                                          *)
TailIsRead ==
  /\ BackIn("tail")
  /\ return_object' = Cells(Last(waiting).items, return_object)
  /\ waiting' = Front(waiting) /\ at' = "Closing"
  /\ UNCHANGED <<stream_, current_token_, got_token_, source, trees>>

(* Read looks for the bracket after ReadList.                              *)
BugClosing ==
  /\ at = "Closing"
  /\ Drop(GetToken)
  /\ at' = IF GetToken.token = Close THEN "Return" ELSE "Closing"
  /\ UNCHANGED <<waiting, return_object, source, trees>>
Closing ==
  /\ at = "Closing" /\ GetToken.token # OutOfRange
  /\ \/ GetToken.token = Close /\ Drop(GetToken) /\ at' = "Return"
     \/ GetToken.token # Close /\ Keep(GetToken) /\ at' = "SyntaxError"
  /\ UNCHANGED <<waiting, return_object, source, trees>>

QuoteIsRead ==
  /\ BackIn("quote")
  /\ return_object' = Quoted(return_object)
  /\ waiting' = Front(waiting)
  /\ UNCHANGED <<stream_, current_token_, got_token_, at, source, trees>>

(* The client has its datum, and reads the next unless the stream ends.    *)
ClientReads ==
  /\ at = "Return" /\ waiting = <<>>
  /\ trees' = Append(trees, return_object)
  /\ at' = IF IsEnd THEN "end" ELSE "Read"
  /\ stream_' = WithoutBlanks(stream_)
  /\ UNCHANGED <<current_token_, got_token_, waiting, return_object, source>>

ParserNext ==
  \/ ReadAtEnd \/ Read \/ StoiThrows \/ ReadList \/ ListGoesOn \/ TailIsRead \/ Closing \/ QuoteIsRead
  \/ ClientReads

ParserSpec == ParserInit /\ [][ParserNext]_parser_vars
ParserFairSpec == ParserSpec /\ WF_parser_vars(ParserNext)

-----------------------------------------------------------------------------
(* The texts whose meaning the parser keeps to: every character is in some *)
(* lexeme, and every number fits an int.  GetToken reads a character that  *)
(* begins no token as the number 0, where the readme of the parser asks    *)
(* for a SyntaxError, and std::stoi throws std::out_of_range, which no     *)
(* call of Read turns into one.                                            *)
Fits(w) == IsNumeral(w) => NumeralValue(w) \in -IntMax - 1 .. IntMax
Readable(s) == \A w \in Range(Lexemes[s]) : IsLexeme(w) /\ Fits(w)

(* What is read of a text, and whether a SyntaxError follows, is what its  *)
(* notation says: the parser, which looks one token ahead and decides on   *)
(* the way, refuses nothing that is a datum, accepts nothing else, gives   *)
(* all notations of a tree the same tree, and throws nothing else than     *)
(* SyntaxError.                                                            *)
Meaning == Data(Lexemes[source])
ReadsTheGrammar ==
  Readable(source) /\ at \in Ended =>
    /\ at # "out_of_range"
    /\ trees = Meaning.trees
    /\ at = "end" <=> Meaning.whole /\ trees # <<>>

(* When Read returns to its client, exactly the characters of its datum    *)
(* have been taken from the stream, and no token is in hand: the stream    *)
(* may be read on by anybody.                                              *)
TakesOnlyItsDatum ==
  Readable(source) /\ at = "Return" /\ waiting = <<>> =>
    LET taken == SubSeq(source, 1, Len(source) - Len(stream_)) IN
    /\ ~got_token_
    /\ Last(taken) \notin Blanks
    /\ Data(Lexemes[taken]) = [trees |-> Append(trees, return_object), whole |-> TRUE]

(* Reading ends, also where the text stops in the middle of a list: the    *)
(* loop of ReadList goes on with the zeros that GetToken gives at the end. *)
ReadingEnds == <>(at \in Ended)
=============================================================================
