------------------------------- MODULE MCLocks -------------------------------
(* The locks and the semaphore, each on its own: `subject` says which of   *)
(* them a behaviour is about, and the others stay as they were made.       *)
EXTENDS RWSpinLock, RWLock, Semaphore

CONSTANTS t1, t2, t3, t4

ThreeThreads == {t1, t2, t3}
FourThreads == {t1, t2, t3, t4}
OneOrTwo == {1, 2}

VARIABLE subject

LocksInit ==
  /\ SpinInit /\ Init /\ SemaphoreInit
  /\ subject \in {"RWSpinLock", "RWLock", "Semaphore"}
  /\ subject # "Semaphore" => permits = 1

LocksNext ==
  /\ \/ subject = "RWSpinLock" /\ SpinNext /\ UNCHANGED <<vars, semaphore_vars>>
     \/ subject = "RWLock" /\ Next /\ UNCHANGED <<spin_vars, semaphore_vars>>
     \/ subject = "Semaphore" /\ SemaphoreNext /\ UNCHANGED <<spin_vars, vars>>
  /\ UNCHANGED subject

(* What a behaviour is not about asks for nothing, so the fairness of all  *)
(* three is the fairness of the one it is about.                           *)
LocksSpec ==
  /\ LocksInit /\ [][LocksNext]_<<subject, spin_vars, vars, semaphore_vars>>
  /\ SpinFairness /\ Fairness /\ SemaphoreFairness
=============================================================================
