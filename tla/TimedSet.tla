------------------------------ MODULE TimedSet ------------------------------
(***************************************************************************)
(* What condvars/timerqueue promises (README.md): a set of pairs (v, t).   *)
(* Add puts a pair in; Pop takes out a pair with the least t, once the     *)
(* clock has reached that t, and returns its v.  The clock is the system   *)
(* clock, which may also be set.                                           *)
(***************************************************************************)
EXTENDS Naturals

CONSTANTS Items, Times

VARIABLES set, clock, result

vars == <<set, clock, result>>

Earliest == {e \in set : \A f \in set : e.at =< f.at}

Init == set = {} /\ clock \in Times /\ result \in Items

Add(e) == e \notin set /\ set' = set \union {e} /\ UNCHANGED <<clock, result>>

Pop(e) ==
  /\ e \in Earliest
  /\ e.at =< clock
  /\ set' = set \ {e}
  /\ result' = e.item
  /\ UNCHANGED clock

ClockMoves == clock' \in Times /\ UNCHANGED <<set, result>>

Next ==
  \/ \E e \in [item : Items, at : Times] : Add(e) \/ Pop(e)
  \/ ClockMoves

Spec == Init /\ [][Next]_vars
=============================================================================
