------------------------------ MODULE Document ------------------------------
(***************************************************************************)
(* What the editor's readme promises (readme.md:7-15): the cursor never    *)
(* leaves the text, Undo takes back the last action, Redo does again what  *)
(* Undo took back, if there was no action since, and both work as in       *)
(* ordinary editors: what was redone can be undone again.                  *)
(***************************************************************************)
EXTENDS SequencesExt

CONSTANTS Chars

VARIABLES text, cursor,
          past, future    \* what Undo and Redo go back to, the next one last

vars == <<text, cursor, past, future>>

View == [text |-> text, pos |-> cursor]
GoTo(view) == text' = view.text /\ cursor' = view.pos

Init ==
  /\ text = <<>> /\ cursor = 0
  /\ past = <<>> /\ future = <<>>

Insert(c) == text' = InsertAt(text, cursor + 1, c) /\ cursor' = cursor + 1
Delete == cursor > 0 /\ text' = RemoveAt(text, cursor) /\ cursor' = cursor - 1
Move == text' = text /\ cursor' \in {cursor - 1, cursor + 1} \intersect (0 .. Len(text))

Act ==
  /\ Delete \/ Move \/ \E c \in Chars : Insert(c)
  /\ past' = Append(past, View)
  /\ future' = <<>>

Undo ==
  /\ past # <<>>
  /\ GoTo(Last(past))
  /\ past' = Front(past)
  /\ future' = Append(future, View)

Redo ==
  /\ future # <<>>
  /\ GoTo(Last(future))
  /\ past' = Append(past, View)
  /\ future' = Front(future)

Next == Act \/ Undo \/ Redo

Spec == Init /\ [][Next]_vars
=============================================================================
