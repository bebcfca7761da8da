--------------------------- MODULE FifoSemaphore ---------------------------
(***************************************************************************)
(* What a semaphore with an order promises: at most capacity threads are   *)
(* inside, and they get in in the order in which they arrived.  It may     *)
(* lose count at some point (overbooked); the order it keeps even then.    *)
(* Semaphore is shown to implement it.                                     *)
(***************************************************************************)
EXTENDS Naturals, Sequences, FiniteSets

CONSTANTS Threads, Counts

VARIABLES queue,        \* the threads that wait, in the order of their arrival
          inside,       \* the threads that hold a permit
          capacity,     \* how many may be inside
          overbooked    \* whether the semaphore has lost count

vars == <<queue, inside, capacity, overbooked>>

Init == queue = <<>> /\ inside = {} /\ capacity \in Counts /\ overbooked = FALSE

HasRoom == Cardinality(inside) < capacity \/ overbooked

Arrive(t) ==
  /\ queue' = Append(queue, t)
  /\ UNCHANGED <<inside, capacity, overbooked>>

(* A thread may go straight in, but never past a thread that waits.        *)
ArriveAndEnter(t) ==
  /\ queue = <<>>
  /\ HasRoom
  /\ inside' = inside \union {t}
  /\ UNCHANGED <<queue, capacity, overbooked>>

Enter ==
  /\ queue # <<>>
  /\ HasRoom
  /\ inside' = inside \union {Head(queue)}
  /\ queue' = Tail(queue)
  /\ UNCHANGED <<capacity, overbooked>>

Leave(t) ==
  /\ t \in inside
  /\ inside' = inside \ {t}
  /\ UNCHANGED <<queue, capacity, overbooked>>

LoseCount ==
  /\ overbooked' = TRUE
  /\ UNCHANGED <<queue, inside, capacity>>

Next ==
  \/ \E t \in Threads : Arrive(t) \/ ArriveAndEnter(t) \/ Leave(t)
  \/ Enter
  \/ LoseCount

Spec == Init /\ [][Next]_vars
=============================================================================
