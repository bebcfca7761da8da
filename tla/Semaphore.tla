----------------------------- MODULE Semaphore -----------------------------
(***************************************************************************)
(* condvars/semaphore: a counting semaphore whose waiters form a queue.    *)
(* Everything happens under one mutex, so a critical section (from taking  *)
(* the mutex to releasing or waiting) is one step; only waiters of the     *)
(* condition variable are between two steps of the same call.              *)
(*                                                                         *)
(* A waiter is known in the queue by its signature, a number it draws on   *)
(* arrival.  No two calls draw the same one, so the queue is modelled as   *)
(* the queue of the waiting threads themselves.                            *)
(*                                                                         *)
(* A thread stands for one Enter and the Leave that follows it: a program  *)
(* thread that enters several times is several of them.  Enter's callback  *)
(* takes one from the count, as every callback has to.                     *)
(* The names differ from the locks': MCLocks extends all three.            *)
(***************************************************************************)
EXTENDS Integers, FiniteSets, SequencesExt

CONSTANTS Callers,     \* the threads that use the semaphore
          Counts       \* the counts it may be constructed with

ASSUME SemaphoreAssumption ==
  /\ IsFiniteSet(Callers)
  /\ Counts \subseteq Nat

VARIABLES count_,              \* the free permits
          waiting_threads_,    \* the queue of those who could not enter at once
          stage,               \* where each thread is
          permits,             \* history: the count given to the constructor
          spurious             \* history: a wait has ended without a notification

history == <<permits, spurious>>
semaphore_vars == <<count_, waiting_threads_, stage, permits, spurious>>

AtStage(s) == {t \in Callers : stage[t] = s}

(* cv_.notify_one() together with t's own move to another place: one       *)
(* thread asleep on the condition variable, if any, has to lock the mutex. *)
NotifySleeper(t, there) ==
  IF AtStage("asleep") = {}
  THEN stage' = [stage EXCEPT ![t] = there]
  ELSE \E w \in AtStage("asleep") : stage' = [stage EXCEPT ![t] = there, ![w] = "woken"]

-----------------------------------------------------------------------------
SemaphoreInit ==
  /\ permits \in Counts
  /\ count_ = permits
  /\ waiting_threads_ = <<>>
  /\ stage = [t \in Callers |-> "outside"]
  /\ spurious = FALSE

(* Enter waits if there is no permit or if others wait already.            *)
BugMustWait == count_ = 0
MustWait == count_ = 0 \/ waiting_threads_ # <<>>

EnterAtOnce(t) ==
  /\ stage[t] = "outside"
  /\ ~MustWait
  /\ count_' = count_ - 1
  /\ stage' = [stage EXCEPT ![t] = "inside"]
  /\ UNCHANGED <<waiting_threads_, history>>

EnterQueues(t) ==
  /\ stage[t] = "outside"
  /\ MustWait
  /\ waiting_threads_' = Append(waiting_threads_, t)
  /\ stage' = [stage EXCEPT ![t] = "asleep"]
  /\ UNCHANGED <<count_, history>>

(* A woken thread whose turn it is goes in, without another look at the    *)
(* count.                                                                  *)
BugMyTurn(t) == TRUE
MyTurn(t) == Head(waiting_threads_) = t

WakeEnters(t) ==
  /\ stage[t] = "woken"
  /\ MyTurn(t)
  /\ waiting_threads_' = Tail(waiting_threads_)
  /\ count_' = count_ - 1
  /\ stage' = [stage EXCEPT ![t] = "inside"]
  /\ UNCHANGED history

(* Any other passes the notification on and sleeps again.                  *)
BugWakePassesOn(t) ==
  /\ stage[t] = "woken"
  /\ ~MyTurn(t)
  /\ stage' = [stage EXCEPT ![t] = "asleep"]
  /\ UNCHANGED <<count_, waiting_threads_, history>>
WakePassesOn(t) ==
  /\ stage[t] = "woken"
  /\ ~MyTurn(t)
  /\ NotifySleeper(t, "asleep")
  /\ UNCHANGED <<count_, waiting_threads_, history>>

Leave(t) ==
  /\ stage[t] = "inside"
  /\ count_' = count_ + 1
  /\ NotifySleeper(t, "outside")
  /\ UNCHANGED <<waiting_threads_, history>>

(* A wait may end although nobody notified it. *)
WakesUnnotified(t) ==
  /\ stage[t] = "asleep"
  /\ stage' = [stage EXCEPT ![t] = "woken"]
  /\ spurious' = TRUE
  /\ UNCHANGED <<count_, waiting_threads_, permits>>

-----------------------------------------------------------------------------
Wake(t) == WakeEnters(t) \/ WakePassesOn(t)

SemaphoreNext == \E t \in Callers :
  \/ EnterAtOnce(t) \/ EnterQueues(t)
  \/ Wake(t) \/ Leave(t) \/ WakesUnnotified(t)

SemaphoreSpec == SemaphoreInit /\ [][SemaphoreNext]_semaphore_vars

(* A woken thread gets the mutex and who is inside leaves; nobody has to   *)
(* enter.                                                                  *)
SemaphoreFairness == \A t \in Callers :
  WF_semaphore_vars(Wake(t)) /\ WF_semaphore_vars(Leave(t))

FairSemaphoreSpec == SemaphoreSpec /\ SemaphoreFairness

-----------------------------------------------------------------------------
Waiting == ToSet(waiting_threads_)

(* Every value is of its type; until a wakeup is spurious the count stays  *)
(* between zero and the number of permits.                                 *)
SemaphoreTypeOK ==
  /\ count_ \in IF spurious THEN Int ELSE 0 .. permits
  /\ waiting_threads_ \in Seq(Callers)
  /\ stage \in [Callers -> {"outside", "asleep", "woken", "inside"}]
  /\ permits \in Counts
  /\ spurious \in BOOLEAN

(* There is a permit behind every notification on its way: a woken thread  *)
(* may take its permit without looking, so the count stays non-negative.   *)
WokenHavePermits == ~spurious => Cardinality(AtStage("woken")) <= count_

(* The queue holds exactly the threads that are in a waiting Enter, each   *)
(* once; permits are neither lost nor made, and until a wakeup is spurious *)
(* as many are free as threads may be about to take one unseen.            *)
PermitsConserved ==
  /\ Waiting = AtStage("asleep") \union AtStage("woken")
  /\ IsInjective(waiting_threads_)
  /\ count_ + Cardinality(AtStage("inside")) = permits
  /\ WokenHavePermits

(* Enter blocks only while there is no free permit (readme.md): if a       *)
(* permit is free and threads wait, a notification is on its way.          *)
FreePermitIsAnnounced ==
  count_ > 0 /\ waiting_threads_ # <<>> => AtStage("woken") # {}

(* A semaphore with one permit keeps to it, until a wakeup is spurious.    *)
NoStrandedPermit == permits = 1 /\ ~spurious => FreePermitIsAnnounced

(* Whoever waits in Enter gets in (readme.md:22-25: keeping the order is   *)
(* there so that no thread waits for ever), as long as it is not so that   *)
(* from some time on three threads or more always wait.  Two threads that  *)
(* are not the head can hand a notification to each other for ever, which  *)
(* notify_one is free to do.                                               *)
EveryWaiterEnters ==
  \/ \A t \in Callers : stage[t] \in {"asleep", "woken"} ~> stage[t] = "inside"
  \/ <>[](Len(waiting_threads_) > 2)

(* The semaphore admits in order of arrival and, until a wakeup is         *)
(* spurious, never too many.                                               *)
Fifo == INSTANCE FifoSemaphore
  WITH Threads <- Callers, queue <- waiting_threads_, inside <- AtStage("inside"),
       capacity <- permits, overbooked <- spurious
ImplementsFifoSemaphore == Fifo!Spec
=============================================================================
