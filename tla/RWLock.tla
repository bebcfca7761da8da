------------------------------- MODULE RWLock -------------------------------
(***************************************************************************)
(* condvars/rw-lock: a readers-writer lock from one mutex, one condition   *)
(* variable and a reader count.  Read and Write take a callback, the       *)
(* section, which may throw.  A critical section of the mutex read_ is one *)
(* step, except that Write keeps the mutex for the whole of its section.   *)
(***************************************************************************)
EXTENDS Naturals, FiniteSets

CONSTANTS Threads,     \* the threads that use the lock
          Free         \* the owner of an unlocked mutex

ASSUME ThreadsAssumption ==
  /\ IsFiniteSet(Threads)
  /\ Free \notin Threads

VARIABLES read_,              \* the owner of the mutex
          blocked_readers_,   \* the reader count
          pc,                 \* where each thread is
          threw               \* history: a callback of Write has thrown

vars == <<read_, blocked_readers_, pc, threw>>

At(places) == {t \in Threads : pc[t] \in places}

Readers == At({"reading"})
Writers == At({"writing"})
Asleep  == At({"asleep"})     \* the waiters of cv_

Goto(t, there) == pc' = [pc EXCEPT ![t] = there]

(* cv_.notify_one() together with t's own move: one waiter, if there is    *)
(* one, leaves the condition variable and has to lock the mutex again.     *)
NotifyOne(t, there) ==
  IF Asleep = {}
  THEN Goto(t, there)
  ELSE \E w \in Asleep : pc' = [pc EXCEPT ![t] = there, ![w] = "woken"]

-----------------------------------------------------------------------------
Init ==
  /\ read_ = Free
  /\ blocked_readers_ = 0
  /\ pc = [t \in Threads |-> "idle"]
  /\ threw = FALSE

(* Read counts the reader under the mutex and runs the section outside it. *)
Read(t) ==
  /\ pc[t] = "idle"
  /\ read_ = Free
  /\ blocked_readers_' = blocked_readers_ + 1
  /\ Goto(t, "reading")
  /\ UNCHANGED <<read_, threw>>

(* The read section returns or throws: either way EndRead comes next.      *)
ReadSectionEnds(t) ==
  /\ pc[t] = "reading"
  /\ Goto(t, "ending")
  /\ UNCHANGED <<read_, blocked_readers_, threw>>

(* EndRead: the last reader wakes one writer.                              *)
BugEndRead(t) ==
  /\ pc[t] = "ending"
  /\ read_ = Free
  /\ blocked_readers_' = blocked_readers_ - 1
  /\ Goto(t, "idle")
  /\ UNCHANGED <<read_, threw>>
EndRead(t) ==
  /\ pc[t] = "ending"
  /\ read_ = Free
  /\ blocked_readers_' = blocked_readers_ - 1
  /\ IF blocked_readers_' = 0 THEN NotifyOne(t, "idle") ELSE Goto(t, "idle")
  /\ UNCHANGED <<read_, threw>>

StartWrite(t) ==
  /\ pc[t] = "idle"
  /\ Goto(t, "entering")
  /\ UNCHANGED <<read_, blocked_readers_, threw>>

(* Write locks the mutex, first or after a wait, and sleeps while readers  *)
(* are counted; otherwise it keeps the mutex and runs the section.         *)
WriteSleeps(t) ==
  /\ pc[t] \in {"entering", "woken"}
  /\ read_ = Free
  /\ blocked_readers_ # 0
  /\ Goto(t, "asleep")
  /\ UNCHANGED <<read_, blocked_readers_, threw>>

BugWriteEnters(t) ==
  /\ pc[t] \in {"entering", "woken"}
  /\ read_ = Free
  /\ pc[t] = "entering" => blocked_readers_ = 0
  /\ read_' = t
  /\ Goto(t, "writing")
  /\ UNCHANGED <<blocked_readers_, threw>>
WriteEnters(t) ==
  /\ pc[t] \in {"entering", "woken"}
  /\ read_ = Free
  /\ blocked_readers_ = 0
  /\ read_' = t
  /\ Goto(t, "writing")
  /\ UNCHANGED <<blocked_readers_, threw>>

BugWriteReturns(t) ==
  /\ pc[t] = "writing"
  /\ read_' = Free
  /\ Goto(t, "idle")
  /\ UNCHANGED <<blocked_readers_, threw>>
WriteReturns(t) ==
  /\ pc[t] = "writing"
  /\ read_' = Free
  /\ NotifyOne(t, "idle")
  /\ UNCHANGED <<blocked_readers_, threw>>

(* A throwing section leaves Write through the unique_lock's destructor:   *)
(* the mutex is unlocked, the notify_one after the section is not reached. *)
WriteThrows(t) ==
  /\ pc[t] = "writing"
  /\ read_' = Free
  /\ Goto(t, "idle")
  /\ threw' = TRUE
  /\ UNCHANGED blocked_readers_

(* A wait may end although nobody notified it. *)
SpuriousWakeup(t) ==
  /\ pc[t] = "asleep"
  /\ Goto(t, "woken")
  /\ UNCHANGED <<read_, blocked_readers_, threw>>

-----------------------------------------------------------------------------
Reading(t) == Read(t) \/ ReadSectionEnds(t) \/ EndRead(t)
WriteLocks(t) == WriteSleeps(t) \/ WriteEnters(t)
WriteEnds(t) == WriteReturns(t) \/ WriteThrows(t)

Next == \E t \in Threads :
  \/ Reading(t)
  \/ StartWrite(t) \/ WriteLocks(t) \/ WriteEnds(t)
  \/ SpuriousWakeup(t)

Spec == Init /\ [][Next]_vars

(* Sections end and threads run: one that finds the mutex free for good    *)
(* locks it.  Calls of Read and Write and spurious wakeups need not happen. *)
Fairness == \A t \in Threads :
  /\ WF_vars(ReadSectionEnds(t)) /\ WF_vars(EndRead(t))
  /\ WF_vars(WriteLocks(t)) /\ WF_vars(WriteEnds(t))

FairSpec == Spec /\ Fairness

-----------------------------------------------------------------------------
(* Every value is of its type; the reader count never goes below zero.     *)
TypeOK ==
  /\ read_ \in Threads \union {Free}
  /\ blocked_readers_ \in Nat
  /\ pc \in [Threads -> {"idle", "reading", "ending", "entering", "asleep",
                         "woken", "writing"}]
  /\ threw \in BOOLEAN

(* The two pieces of shared state agree with where the threads are: the    *)
(* count is the number of threads between Read's first critical section    *)
(* and EndRead, and the mutex is owned exactly during a write section.     *)
StateCountsThreads ==
  /\ blocked_readers_ = Cardinality(At({"reading", "ending"}))
  /\ Writers = IF read_ = Free THEN {} ELSE {read_}
  /\ Writers # {} => blocked_readers_ = 0

(* Somebody answers for the writers that sleep: readers are still counted, *)
(* or a writer is awake (about to lock or in its section) who will pass    *)
(* the notification on.  readme.md asks for it in all cases: exceptions of *)
(* a callback must not leave the lock in an incorrect state.               *)
SleepersAnsweredFor ==
  Asleep # {} => blocked_readers_ # 0 \/ At({"woken", "writing"}) # {}

(* No writer is forgotten, as long as no callback of Write has thrown.     *)
NoForgottenWriter == ~threw => SleepersAnsweredFor

(* Read and Write implement the readers-writer exclusion.                  *)
Abstract == INSTANCE RWExclusion WITH readers <- Readers, writers <- Writers
ImplementsRWExclusion == Abstract!Spec

(* Once the readers are gone for good, writers that want the lock keep     *)
(* getting it: they do not all stay asleep, whoever was notified (as long  *)
(* as no callback of Write throws).                                        *)
WritersGetThrough ==
  <>[](blocked_readers_ = 0 /\ ~threw) =>
    (At({"entering", "asleep", "woken"}) # {} ~> Writers # {})
=============================================================================
