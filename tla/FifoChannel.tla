---------------------------- MODULE FifoChannel ----------------------------
(***************************************************************************)
(* What a buffered channel promises: a queue of at most Capacity values,   *)
(* every value is taken once, in the order in which the values were put.   *)
(* BufferedChannel is shown to implement it.                               *)
(***************************************************************************)
EXTENDS Naturals, Sequences

CONSTANTS Values, Capacity, None

VARIABLES queue,    \* the values put and not yet taken
          taken     \* the value taken last, None at first

vars == <<queue, taken>>

Init == queue = <<>> /\ taken = None

Put(v) ==
  /\ Len(queue) < Capacity
  /\ queue' = Append(queue, v)
  /\ UNCHANGED taken

Take ==
  /\ queue # <<>>
  /\ taken' = Head(queue)
  /\ queue' = Tail(queue)

Next == Take \/ \E v \in Values : Put(v)

Spec == Init /\ [][Next]_vars
=============================================================================
