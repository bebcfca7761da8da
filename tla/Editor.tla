------------------------------- MODULE Editor -------------------------------
(***************************************************************************)
(* patterns/editor: a text buffer with a cursor, and a log of commands     *)
(* that can be undone and redone.  Do and Undo of a command work on        *)
(* whatever the buffer and the cursor are then; an index past the end of   *)
(* the buffer makes std::string throw out_of_range.                        *)
(*                                                                         *)
(* pos_ is a size_t, PosRange stands for 2^64.                             *)
(***************************************************************************)
EXTENDS Integers, SequencesExt

CONSTANTS Chars, Nul,
          PosRange,
          MaxLength,   \* bound on the text to which Type adds
          MaxLog       \* bound on the log to which actions add

ASSUME EditorAssumption ==
  /\ MaxLength \in Nat /\ MaxLog \in Nat /\ Nul \notin Chars
  /\ PosRange \in Nat /\ PosRange > MaxLength + MaxLog

VARIABLES buffer_, pos_, log_, relog_,
          past,       \* history: the views before the commands logged since the last Redo
          before,     \* history: the views before everything else, the Redo included
          future,     \* history: the views before the Undos that can be redone
          lost        \* history: an Undo came after a Redo, and undid another command

history == <<past, before, future, lost>>
editor_vars == <<buffer_, pos_, log_, relog_, history>>

Commands == [kind : {"type", "backspace"}, c : Chars \union {Nul}]
              \union [kind : {"left", "right"}]

\* The history is kept until it is lost.
Remembers(old, done, undone) ==
  IF lost' THEN before' = <<>> /\ past' = <<>> /\ future' = <<>>
  ELSE before' = old /\ past' = done /\ future' = undone

View == [text |-> buffer_, pos |-> pos_]
Throws == [text |-> "out_of_range"]

Wrap(n) == n % PosRange

(* erase(i, 1) and insert(i, 1, c) for an i that is in the text or its end. *)
Erase(text, i) == IF i = Len(text) THEN text ELSE RemoveAt(text, i + 1)
Insert(text, i, c) == InsertAt(text, i + 1, c)

(* What Do and Undo of a command make of a view.                           *)
Do(command, view) ==
  LET text == view.text  pos == view.pos IN
  CASE command.kind = "type" ->
         IF pos > Len(text) THEN Throws
         ELSE [text |-> Insert(text, pos, command.c), pos |-> Wrap(pos + 1)]
    [] command.kind = "backspace" ->
         CASE pos = 0 -> view
           [] pos > 0 /\ pos - 1 > Len(text) -> Throws
           [] OTHER -> [text |-> Erase(text, pos - 1), pos |-> pos - 1]
    [] command.kind = "left" -> [view EXCEPT !.pos = IF @ = 0 THEN @ ELSE @ - 1]
    [] command.kind = "right" -> [view EXCEPT !.pos = IF @ = Len(text) THEN @ ELSE Wrap(@ + 1)]

Undone(command, view) ==
  LET text == view.text  pos == view.pos IN
  CASE command.kind = "type" ->
         IF Wrap(pos - 1) > Len(text) THEN Throws
         ELSE [text |-> Erase(text, Wrap(pos - 1)), pos |-> Wrap(pos - 1)]
    [] command.kind = "backspace" ->
         IF pos > Len(text) THEN Throws
         ELSE [text |-> Insert(text, pos, command.c), pos |-> Wrap(pos + 1)]
    [] command.kind = "left" -> [view EXCEPT !.pos = Wrap(@ + 1)]
    [] command.kind = "right" -> [view EXCEPT !.pos = Wrap(@ - 1)]

-----------------------------------------------------------------------------
EditorInit ==
  /\ buffer_ = <<>> /\ pos_ = 0
  /\ log_ = <<>> /\ relog_ = <<>>
  /\ before = <<>> /\ past = <<>> /\ future = <<>> /\ lost = FALSE

(* An action clears relog_ and logs its command before it does it; Do may  *)
(* throw after that.                                                       *)
BugPerform(command) ==
  /\ Len(log_) < MaxLog
  /\ log_' = Append(log_, command)
  /\ LET view == Do(command, View) IN
     /\ view # Throws
     /\ buffer_' = view.text /\ pos_' = view.pos
  /\ UNCHANGED <<relog_, lost>>
  /\ Remembers(before, Append(past, View), <<>>)
Perform(command) ==
  /\ Len(log_) < MaxLog
  /\ relog_' = <<>>
  /\ log_' = Append(log_, command)
  /\ LET view == Do(command, View) IN
     IF view = Throws THEN UNCHANGED <<buffer_, pos_>>
     ELSE buffer_' = view.text /\ pos_' = view.pos
  /\ UNCHANGED lost
  /\ Remembers(before, Append(past, View), <<>>)

Type(c) == Len(buffer_) < MaxLength /\ Perform([kind |-> "type", c |-> c])

ShiftLeft == pos_ # 0 /\ Perform([kind |-> "left"])

ShiftRight == pos_ # Len(buffer_) /\ Perform([kind |-> "right"])

(* c_ is read from the buffer: beyond its end, undefined, any character.   *)
Backspace ==
  /\ pos_ # 0
  /\ \E c \in CASE pos_ - 1 < Len(buffer_) -> {buffer_[pos_]}
                [] pos_ - 1 = Len(buffer_) -> {Nul}
                [] OTHER -> Chars :
       Perform([kind |-> "backspace", c |-> c])

(* Undo takes the command from log_ to relog_, unless it throws.           *)
Undo ==
  /\ log_ # <<>>
  /\ LET view == Undone(Last(log_), View) IN
     IF view = Throws THEN UNCHANGED <<buffer_, pos_, log_, relog_>>
     ELSE /\ buffer_' = view.text /\ pos_' = view.pos
          /\ log_' = Front(log_)
          /\ relog_' = Append(relog_, Last(log_))
  /\ lost' = (lost \/ past = <<>>)
  /\ Remembers(before, Front(past), Append(future, View))

(* Redo takes the command from relog_ and puts it nowhere.                 *)
Redo ==
  /\ relog_ # <<>>
  /\ LET view == Do(Last(relog_), View) IN
     IF view = Throws THEN UNCHANGED <<buffer_, pos_, relog_>>
     ELSE buffer_' = view.text /\ pos_' = view.pos /\ relog_' = Front(relog_)
  /\ UNCHANGED <<log_, lost>>
  /\ Remembers(Append(before \o past, View), <<>>, Front(future))

EditorNext ==
  \/ \E c \in Chars : Type(c)
  \/ ShiftLeft \/ ShiftRight \/ Backspace
  \/ Undo \/ Redo

EditorSpec == EditorInit /\ [][EditorNext]_editor_vars

-----------------------------------------------------------------------------
(* readme.md:9.  The code breaks this: it undoes what it has not logged.   *)
CursorInBuffer == pos_ =< Len(buffer_)

Promised == INSTANCE Document WITH
  text <- buffer_, cursor <- pos_, past <- before \o past

(* An Undo right after a Redo takes back what was done before it.          *)
UndoesAnother == past = <<>> /\ before # <<>> /\ lost'

(* Up to the first such Undo each operation is that of the document: in    *)
(* any mixture the commands, which work on whatever the buffer is, meet    *)
(* the buffer they came from.                                              *)
DocumentUntilLost ==
  Promised!Init /\ [][lost \/ UndoesAnother \/ Promised!Next]_(Promised!vars)
=============================================================================
