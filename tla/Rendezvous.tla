----------------------------- MODULE Rendezvous -----------------------------
(***************************************************************************)
(* What an unbuffered channel promises (readme.md:6-18): one hand-off at a *)
(* time; a Send returns only when its value has been taken, and fails on a *)
(* closed channel; a value that nobody took goes with its sender.          *)
(***************************************************************************)
CONSTANTS Threads, Values, None

VARIABLES value,     \* the value on offer, None if there is none
          senders,   \* the threads in a hand-off
          taken,     \* the value taken last (any at first)
          closed,
          failed     \* the threads whose hand-off has ended in an error

vars == <<value, senders, taken, closed, failed>>

Init ==
  /\ value = None /\ senders = {} /\ taken \in Values
  /\ closed = FALSE /\ failed = {}

Offer(t, v) ==
  /\ ~closed /\ value = None /\ senders = {}
  /\ value' = v
  /\ senders' = {t}
  /\ UNCHANGED <<taken, closed, failed>>

Take ==
  /\ value # None /\ senders # {}
  /\ taken' = value
  /\ value' = None
  /\ UNCHANGED <<senders, closed, failed>>

(* A Send returns. *)
Finish(t) ==
  /\ t \in senders
  /\ value = None
  /\ senders' = senders \ {t}
  /\ UNCHANGED <<value, taken, closed, failed>>

(* A Send throws and takes its value away with it. *)
Fail(t) ==
  /\ t \in senders
  /\ closed /\ value # None
  /\ value' = None
  /\ senders' = senders \ {t}
  /\ failed' = failed \union {t}
  /\ UNCHANGED <<taken, closed>>

Close ==
  /\ closed' = TRUE
  /\ UNCHANGED <<value, senders, taken, failed>>

Next ==
  \/ \E t \in Threads : Finish(t) \/ Fail(t) \/ \E v \in Values : Offer(t, v)
  \/ Take
  \/ Close

Spec == Init /\ [][Next]_vars
=============================================================================
