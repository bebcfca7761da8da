------------------------------ MODULE MCEditor ------------------------------
(* Two characters.  Once an Undo went wrong, the texts and the logs from   *)
(* which the run goes on are kept small: nearly every view is reachable    *)
(* then.  Before that, Redo may come again and again.                      *)
EXTENDS Editor

CONSTANTS a, b, MaxBefore

Letters == {a, b}
Alike == Permutations(Letters)

Small ==
  /\ lost => Len(buffer_) =< 2 /\ Len(log_) + Len(relog_) =< 2
  /\ Len(before) =< MaxBefore
=============================================================================
