---------------------------- MODULE RWExclusion ----------------------------
(***************************************************************************)
(* What a readers-writer lock promises: any number of readers at a time,   *)
(* or one writer and nobody else.  RWSpinLock and RWLock are both shown to *)
(* implement this specification.                                           *)
(***************************************************************************)
CONSTANT Threads

VARIABLES readers,   \* the threads inside a read section
          writers    \* the threads inside a write section

vars == <<readers, writers>>

Init == readers = {} /\ writers = {}

AcquireRead(t) ==
  /\ t \notin readers
  /\ writers = {}
  /\ readers' = readers \union {t}
  /\ UNCHANGED writers

ReleaseRead(t) ==
  /\ t \in readers
  /\ readers' = readers \ {t}
  /\ UNCHANGED writers

AcquireWrite(t) ==
  /\ readers = {} /\ writers = {}
  /\ writers' = {t}
  /\ UNCHANGED readers

ReleaseWrite(t) ==
  /\ t \in writers
  /\ writers' = writers \ {t}
  /\ UNCHANGED readers

Next == \E t \in Threads :
  \/ AcquireRead(t) \/ ReleaseRead(t)
  \/ AcquireWrite(t) \/ ReleaseWrite(t)

Spec == Init /\ [][Next]_vars
=============================================================================
