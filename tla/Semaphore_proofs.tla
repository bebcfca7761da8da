-------------------------- MODULE Semaphore_proofs --------------------------
(***************************************************************************)
(* The semaphore implements a FIFO semaphore, one that loses count at the  *)
(* first spurious wakeup, for every finite set of threads and every number *)
(* of permits; with one permit it also never strands the permit.  The      *)
(* inductive invariant adds WokenHavePermits to the type: the count is at  *)
(* least the number of notifications on their way, which is why entering   *)
(* without another look at the count is right.                             *)
(***************************************************************************)
EXTENDS Semaphore, FiniteSetTheorems, TLAPS

Places == {"outside", "asleep", "woken", "inside"}

\* PermitsConserved without what holds only until a wakeup is spurious.
Conserved ==
  /\ Waiting = AtStage("asleep") \union AtStage("woken")
  /\ IsInjective(waiting_threads_)
  /\ count_ + Cardinality(AtStage("inside")) = permits

\* The part of the invariant that spurious wakeups do not touch.
Queued ==
  /\ waiting_threads_ \in Seq(Callers)
  /\ stage \in [Callers -> Places]
  /\ count_ \in Int
  /\ permits \in Nat
  /\ spurious \in BOOLEAN
  /\ Conserved

Inv == Queued /\ WokenHavePermits

(* Any group of threads can be counted. *)
LEMMA GroupsAreFinite ==
  ASSUME NEW place
  PROVE  IsFiniteSet(AtStage(place)) /\ Cardinality(AtStage(place)) \in Nat
BY SemaphoreAssumption, FS_Subset, FS_CardinalityType DEF AtStage

(* What notify_one does to the groups: t moves, and one sleeper, if there  *)
(* is one, is woken.                                                       *)
LEMMA NotifyMoves ==
  ASSUME stage \in [Callers -> Places], NEW t \in Callers, stage[t] # "asleep",
         NEW there \in {"outside", "asleep"}, NotifySleeper(t, there)
  PROVE  /\ stage' \in [Callers -> Places]
         /\ stage'[t] = there
         /\ \A u \in Callers \ {t} :
              stage'[u] = stage[u] \/ (stage[u] = "asleep" /\ stage'[u] = "woken")
         /\ \/ AtStage("asleep") = {} /\ AtStage("woken")' = AtStage("woken") \ {t}
            \/ \E w \in AtStage("asleep") :
                 AtStage("woken")' = (AtStage("woken") \ {t}) \union {w}
<1>1. CASE AtStage("asleep") = {}
  BY <1>1 DEF NotifySleeper, AtStage, Places
<1>2. CASE AtStage("asleep") # {}
  <2>1. PICK w \in AtStage("asleep") : stage' = [stage EXCEPT ![t] = there, ![w] = "woken"]
    BY <1>2 DEF NotifySleeper
  <2>2. w \in Callers /\ stage[w] = "asleep" /\ w # t
    BY <2>1 DEF AtStage
  <2> QED
    BY <2>1, <2>2 DEF AtStage, Places
<1> QED
  BY <1>1, <1>2

(* The queue after its head left, and with one more at its end.            *)
LEMMA QueueTail ==
  ASSUME NEW q \in Seq(Callers), q # <<>>,
         IsInjective(q)
  PROVE  /\ Tail(q) \in Seq(Callers)
         /\ IsInjective(Tail(q))
         /\ ToSet(Tail(q)) = ToSet(q) \ {Head(q)}
         /\ Head(q) \in ToSet(q)
<1> USE DEF ToSet, IsInjective
<1>1. /\ Len(q) \in Nat \ {0} /\ Tail(q) \in Seq(Callers) /\ Head(q) = q[1]
      /\ DOMAIN q = 1 .. Len(q) /\ DOMAIN Tail(q) = 1 .. Len(q) - 1
      /\ \A i \in 1 .. Len(q) - 1 : Tail(q)[i] = q[i + 1]
  OBVIOUS
<1>2. IsInjective(Tail(q))
  BY <1>1
<1>3. ASSUME NEW x PROVE x \in ToSet(Tail(q))
                          <=> x \in ToSet(q) \ {Head(q)}
  <2>1. ASSUME NEW i \in DOMAIN Tail(q), x = Tail(q)[i]
        PROVE  x \in ToSet(q) \ {Head(q)}
    <3>1. i + 1 \in DOMAIN q /\ x = q[i + 1] /\ i + 1 # 1
      BY <1>1, <2>1
    <3> QED
      BY <1>1, <3>1
  <2>2. ASSUME NEW i \in DOMAIN q, x = q[i], x # Head(q)
        PROVE  x \in ToSet(Tail(q))
    <3>1. i - 1 \in DOMAIN Tail(q) /\ Tail(q)[i - 1] = x
      BY <1>1, <2>2
    <3> QED
      BY <3>1
  <2> QED
    BY <2>1, <2>2
<1>4. ToSet(Tail(q)) = ToSet(q) \ {Head(q)}
  BY <1>3
<1>5. Head(q) \in ToSet(q)
  <2>1. 1 \in DOMAIN q
    BY <1>1
  <2> QED
    BY <1>1, <2>1
<1> QED
  BY <1>1, <1>2, <1>4, <1>5

(* The queue with one more thread at its end.                              *)
LEMMA QueueAppend ==
  ASSUME NEW q \in Seq(Callers), NEW t \in Callers,
         IsInjective(q),
         t \notin ToSet(q)
  PROVE  /\ Append(q, t) \in Seq(Callers)
         /\ IsInjective(Append(q, t))
         /\ ToSet(Append(q, t)) = ToSet(q) \union {t}
<1> USE DEF ToSet, IsInjective
<1>1. /\ Len(q) \in Nat /\ Append(q, t) \in Seq(Callers)
      /\ DOMAIN q = 1 .. Len(q) /\ DOMAIN Append(q, t) = 1 .. Len(q) + 1
      /\ \A i \in 1 .. Len(q) : Append(q, t)[i] = q[i]
      /\ Append(q, t)[Len(q) + 1] = t
  OBVIOUS
<1>2. IsInjective(Append(q, t))
  BY <1>1
<1>3. ASSUME NEW x PROVE x \in ToSet(Append(q, t))
                          <=> x \in ToSet(q) \union {t}
  <2>1. ASSUME NEW i \in DOMAIN q, x = q[i]
        PROVE  x \in ToSet(Append(q, t))
    <3>1. i \in DOMAIN Append(q, t) /\ Append(q, t)[i] = x
      BY <1>1, <2>1
    <3> QED
      BY <3>1
  <2>2. t \in ToSet(Append(q, t))
    <3>1. Len(q) + 1 \in DOMAIN Append(q, t)
      BY <1>1
    <3> QED
      BY <1>1, <3>1
  <2>3. ASSUME NEW i \in DOMAIN Append(q, t), x = Append(q, t)[i], x # t
        PROVE  x \in ToSet(q)
    <3>1. i \in DOMAIN q /\ q[i] = x
      BY <1>1, <2>3
    <3> QED
      BY <3>1
  <2> QED
    BY <2>1, <2>2, <2>3
<1> QED
  BY <1>1, <1>2, <1>3

-----------------------------------------------------------------------------
(* The unused semaphore satisfies the invariant.                           *)
LEMMA InitInv == SemaphoreInit => Inv
<1> SUFFICES ASSUME SemaphoreInit PROVE Inv
  OBVIOUS
<1>0. permits \in Nat /\ count_ = permits /\ spurious \in BOOLEAN
  BY SemaphoreAssumption DEF SemaphoreInit
<1>1. AtStage("asleep") = {} /\ AtStage("woken") = {} /\ AtStage("inside") = {}
  BY DEF SemaphoreInit, AtStage
<1>2. Waiting = {} /\ IsInjective(waiting_threads_)
  <2>1. waiting_threads_ = <<>> /\ DOMAIN waiting_threads_ = {}
    BY DEF SemaphoreInit
  <2> QED
    BY <2>1 DEF Waiting, ToSet, IsInjective
<1>3. Conserved
  <2>1. Cardinality(AtStage("inside")) = 0 /\ permits + 0 = permits
    BY <1>0, <1>1, FS_EmptySet
  <2> QED
    BY <1>1, <1>2, <2>1 DEF SemaphoreInit, Conserved
<1>4. WokenHavePermits
  BY <1>0, <1>1, FS_EmptySet DEF WokenHavePermits
<1> QED
  BY <1>0, <1>3, <1>4 DEF SemaphoreInit, Inv, Queued, Places

(* A woken thread is in the queue, so the queue has a head; and whoever is *)
(* not waiting is not in the queue.                                        *)
LEMMA QueueAndPlaces ==
  ASSUME Queued, NEW t \in Callers
  PROVE  /\ t \in Waiting <=> stage[t] \in {"asleep", "woken"}
         /\ stage[t] = "woken" => waiting_threads_ # <<>>
<1>1. t \in Waiting <=> stage[t] \in {"asleep", "woken"}
  BY DEF Queued, Conserved, AtStage
<1>2. waiting_threads_ = <<>> => Waiting = {}
  BY DEF Waiting, ToSet
<1> QED
  BY <1>1, <1>2

(* A thread goes straight in. *)
LEMMA EnterAtOnceQueued ==
  ASSUME Queued, NEW t \in Callers, EnterAtOnce(t)
  PROVE  Queued' /\ AtStage("woken")' = AtStage("woken")
<1> USE DEF Queued
<1>1. /\ AtStage("inside")' = AtStage("inside") \union {t} /\ t \notin AtStage("inside")
      /\ AtStage("asleep")' = AtStage("asleep") /\ AtStage("woken")' = AtStage("woken")
      /\ stage' \in [Callers -> Places]
  BY DEF EnterAtOnce, AtStage, Places
<1>2. Cardinality(AtStage("inside")') = Cardinality(AtStage("inside")) + 1
  BY <1>1, GroupsAreFinite, FS_AddElement
<1>3. Cardinality(AtStage("inside")) \in Nat
  BY GroupsAreFinite
<1> QED
  BY <1>1, <1>2, <1>3, SemaphoreAssumption DEF EnterAtOnce, history, Conserved, Waiting

(* A thread lines up and sleeps. *)
LEMMA EnterQueuesQueued ==
  ASSUME Queued, NEW t \in Callers, EnterQueues(t)
  PROVE  Queued' /\ AtStage("woken")' = AtStage("woken")
<1> USE DEF Queued
<1>1. t \notin Waiting
  BY QueueAndPlaces DEF EnterQueues
<1>2. /\ waiting_threads_' \in Seq(Callers)
      /\ IsInjective(waiting_threads_')
      /\ Waiting' = Waiting \union {t}
  <2>1. t \notin ToSet(waiting_threads_)
    BY <1>1 DEF Waiting
  <2>2. IsInjective(waiting_threads_)
    BY DEF Conserved
  <2>3. waiting_threads_' = Append(waiting_threads_, t)
    BY DEF EnterQueues
  <2> HIDE DEF Queued
  <2>4. waiting_threads_ \in Seq(Callers)
    BY DEF Queued
  <2>5. Waiting' = Waiting \union {t}
    BY <2>1, <2>2, <2>3, <2>4, QueueAppend DEF Waiting
  <2> QED
    BY <2>1, <2>2, <2>3, <2>4, <2>5, QueueAppend
<1>3. /\ AtStage("inside")' = AtStage("inside")
      /\ AtStage("asleep")' = AtStage("asleep") \union {t} /\ AtStage("woken")' = AtStage("woken")
      /\ stage' \in [Callers -> Places]
  BY DEF EnterQueues, AtStage, Places
<1> QED
  BY <1>2, <1>3 DEF EnterQueues, history, Conserved

(* The head of the queue takes its permit. *)
LEMMA WakeEntersQueued ==
  ASSUME Queued, NEW t \in Callers, WakeEnters(t)
  PROVE  Queued' /\ AtStage("woken")' = AtStage("woken") \ {t} /\ t \in AtStage("woken")
<1> USE DEF Queued
<1>1. /\ waiting_threads_' \in Seq(Callers)
      /\ IsInjective(waiting_threads_')
      /\ Waiting' = Waiting \ {t}
  <2>1. waiting_threads_ # <<>>
    BY QueueAndPlaces DEF WakeEnters
  <2>2. IsInjective(waiting_threads_)
    BY DEF Conserved
  <2>3. waiting_threads_' = Tail(waiting_threads_) /\ Head(waiting_threads_) = t
    BY DEF WakeEnters, MyTurn
  <2> HIDE DEF Queued
  <2>4. waiting_threads_ \in Seq(Callers)
    BY DEF Queued
  <2>5. Waiting' = Waiting \ {t}
    BY <2>1, <2>2, <2>3, <2>4, QueueTail DEF Waiting
  <2> QED
    BY <2>1, <2>2, <2>3, <2>4, <2>5, QueueTail
<1>2. /\ AtStage("inside")' = AtStage("inside") \union {t} /\ t \notin AtStage("inside")
      /\ AtStage("asleep")' = AtStage("asleep") /\ t \notin AtStage("asleep")
      /\ AtStage("woken")' = AtStage("woken") \ {t} /\ t \in AtStage("woken")
      /\ stage' \in [Callers -> Places]
  BY DEF WakeEnters, AtStage, Places
<1>3. Cardinality(AtStage("inside")') = Cardinality(AtStage("inside")) + 1
  BY <1>2, GroupsAreFinite, FS_AddElement
<1>4. Cardinality(AtStage("inside")) \in Nat
  BY GroupsAreFinite
<1> QED
  BY <1>1, <1>2, <1>3, <1>4, SemaphoreAssumption DEF WakeEnters, history, Conserved

(* A thread passes the notification on: nobody enters or leaves.           *)
LEMMA WakePassesOnQueued ==
  ASSUME Queued, NEW t \in Callers, WakePassesOn(t)
  PROVE  /\ Queued'
         /\ \/ AtStage("woken")' = AtStage("woken") \ {t}
            \/ \E w \in AtStage("asleep") : AtStage("woken")' = (AtStage("woken") \ {t}) \union {w}
         /\ AtStage("inside")' = AtStage("inside")
<1> USE DEF Queued
<1>1. /\ stage' \in [Callers -> Places]
      /\ stage'[t] = "asleep"
      /\ \A u \in Callers \ {t} :
           stage'[u] = stage[u] \/ (stage[u] = "asleep" /\ stage'[u] = "woken")
      /\ \/ AtStage("woken")' = AtStage("woken") \ {t}
         \/ \E w \in AtStage("asleep") : AtStage("woken")' = (AtStage("woken") \ {t}) \union {w}
  BY NotifyMoves DEF WakePassesOn
<1>2. /\ AtStage("inside")' = AtStage("inside")
      /\ AtStage("asleep")' \union AtStage("woken")' = AtStage("asleep") \union AtStage("woken")
  BY <1>1 DEF WakePassesOn, AtStage, Places
<1> QED
  BY <1>1, <1>2 DEF WakePassesOn, history, Conserved, Waiting

(* A thread leaves and notifies. *)
LEMMA LeaveQueued ==
  ASSUME Queued, NEW t \in Callers, Leave(t)
  PROVE  /\ Queued'
         /\ \/ AtStage("asleep") = {} /\ AtStage("woken")' = AtStage("woken")
            \/ \E w \in AtStage("asleep") : AtStage("woken")' = AtStage("woken") \union {w}
         /\ AtStage("inside")' = AtStage("inside") \ {t}
<1> USE DEF Queued
<1>1. /\ stage' \in [Callers -> Places]
      /\ stage'[t] = "outside"
      /\ \A u \in Callers \ {t} :
           stage'[u] = stage[u] \/ (stage[u] = "asleep" /\ stage'[u] = "woken")
      /\ \/ AtStage("asleep") = {} /\ AtStage("woken")' = AtStage("woken") \ {t}
         \/ \E w \in AtStage("asleep") : AtStage("woken")' = (AtStage("woken") \ {t}) \union {w}
  BY NotifyMoves DEF Leave
<1>2. /\ AtStage("inside")' = AtStage("inside") \ {t} /\ t \in AtStage("inside") /\ t \notin AtStage("woken")
      /\ AtStage("asleep")' \union AtStage("woken")' = AtStage("asleep") \union AtStage("woken")
  BY <1>1 DEF Leave, AtStage, Places
<1>3. Cardinality(AtStage("inside")') = Cardinality(AtStage("inside")) - 1
  BY <1>2, GroupsAreFinite, FS_RemoveElement
<1>4. Cardinality(AtStage("inside")) \in Nat
  BY GroupsAreFinite
<1>5. AtStage("woken") \ {t} = AtStage("woken")
  BY <1>2
<1>6. Conserved'
  <2>1. Waiting' = Waiting /\ waiting_threads_' = waiting_threads_ /\ permits' = permits
    BY DEF Leave, history, Waiting
  <2>2. count_' + Cardinality(AtStage("inside")') = permits
    BY <1>3, <1>4 DEF Leave, history, Conserved
  <2> QED
    BY <1>2, <2>1, <2>2 DEF Conserved
<1>7. Queued'
  BY <1>1, <1>6 DEF Leave, history
<1>8. AtStage("inside")' = AtStage("inside") \ {t}
  BY <1>2
<1> HIDE DEF Queued
<1>9. \/ AtStage("asleep") = {} /\ AtStage("woken")' = AtStage("woken")
      \/ \E w \in AtStage("asleep") : AtStage("woken")' = AtStage("woken") \union {w}
  BY <1>1, <1>5
<1> QED
  BY <1>7, <1>8, <1>9

-----------------------------------------------------------------------------
(* A spurious wakeup moves one thread from one group to the other.         *)
LEMMA NextQueued ==
  ASSUME Queued, [SemaphoreNext]_semaphore_vars
  PROVE  Queued'
<1>1. ASSUME NEW t \in Callers, WakesUnnotified(t) PROVE Queued'
  <2>1. /\ stage' \in [Callers -> Places]
        /\ AtStage("inside")' = AtStage("inside")
        /\ AtStage("asleep")' \union AtStage("woken")' = AtStage("asleep") \union AtStage("woken")
    BY <1>1 DEF WakesUnnotified, AtStage, Queued, Places
  <2> QED
    BY <1>1, <2>1 DEF WakesUnnotified, Queued, Conserved, Waiting
<1>2. ASSUME UNCHANGED semaphore_vars PROVE Queued'
  BY <1>2 DEF semaphore_vars, history, Queued, Conserved, Waiting, AtStage
<1> QED
  BY <1>1, <1>2, EnterAtOnceQueued, EnterQueuesQueued, WakeEntersQueued,
     WakePassesOnQueued, LeaveQueued DEF SemaphoreNext, Wake

(* Until a wakeup is spurious a notification leaves as a permit comes, and  *)
(* is spent with it.                                                       *)
LEMMA NextCounted ==
  ASSUME Inv, [SemaphoreNext]_semaphore_vars, ~spurious'
  PROVE  Inv'
<1> USE DEF Inv
<1>a. ~spurious
  <2>1. [SemaphoreNext]_semaphore_vars => spurious' = spurious \/ spurious'
    BY DEF SemaphoreNext, semaphore_vars, history, Wake, EnterAtOnce, EnterQueues, WakeEnters,
           WakePassesOn, Leave, WakesUnnotified
  <2> QED
    BY <2>1
<1>0. /\ IsFiniteSet(AtStage("woken")) /\ Cardinality(AtStage("woken")) \in Nat
      /\ count_ \in Int /\ Cardinality(AtStage("woken")) <= count_
  BY <1>a, GroupsAreFinite DEF Queued, WokenHavePermits
<1>1. ASSUME NEW t \in Callers, EnterAtOnce(t) PROVE Inv'
  <2>1. AtStage("woken") = {}
    <3>1. Waiting = {}
      BY <1>1 DEF EnterAtOnce, MustWait, Waiting, ToSet
    <3> QED
      BY <3>1 DEF Queued, Conserved
  <2>2. Queued' /\ AtStage("woken")' = {}
    BY <1>1, <2>1, EnterAtOnceQueued
  <2>3. count_ # 0 /\ count_' = count_ - 1
    BY <1>1 DEF EnterAtOnce, MustWait
  <2> QED
    BY <1>0, <2>2, <2>3, FS_EmptySet DEF WokenHavePermits
<1>2. ASSUME NEW t \in Callers, EnterQueues(t) PROVE Inv'
  <2>1. Queued' /\ AtStage("woken")' = AtStage("woken")
    BY <1>2, EnterQueuesQueued
  <2>2. Cardinality(AtStage("woken")') <= count_'
    BY <1>0, <1>2, <2>1 DEF EnterQueues
  <2> QED
    BY <2>1, <2>2 DEF WokenHavePermits
<1>3. ASSUME NEW t \in Callers, WakeEnters(t) PROVE Inv'
  <2>1. Queued' /\ AtStage("woken")' = AtStage("woken") \ {t} /\ t \in AtStage("woken")
    BY <1>3, WakeEntersQueued
  <2>2. Cardinality(AtStage("woken")') = Cardinality(AtStage("woken")) - 1
    BY <1>0, <2>1, FS_RemoveElement
  <2> QED
    BY <1>0, <1>3, <2>1, <2>2 DEF WakeEnters, WokenHavePermits
<1>4. ASSUME NEW t \in Callers, WakePassesOn(t) PROVE Inv'
  <2>1. /\ Queued'
        /\ \/ AtStage("woken")' = AtStage("woken") \ {t}
           \/ \E w \in AtStage("asleep") : AtStage("woken")' = (AtStage("woken") \ {t}) \union {w}
    BY <1>4, WakePassesOnQueued
  <2>2. Cardinality(AtStage("woken") \ {t}) = Cardinality(AtStage("woken")) - 1
        /\ IsFiniteSet(AtStage("woken") \ {t})
    <3>1. t \in AtStage("woken")
      BY <1>4 DEF WakePassesOn, AtStage
    <3> QED
      BY <1>0, <3>1, FS_RemoveElement
  <2>3. /\ Cardinality(AtStage("woken")') <= Cardinality(AtStage("woken"))
        /\ Cardinality(AtStage("woken")') \in Int
    <3>1. CASE AtStage("woken")' = AtStage("woken") \ {t}
      BY <1>0, <2>2, <3>1
    <3>2. ASSUME NEW w \in AtStage("asleep"), AtStage("woken")' = (AtStage("woken") \ {t}) \union {w}
          PROVE  /\ Cardinality(AtStage("woken")') <= Cardinality(AtStage("woken"))
                 /\ Cardinality(AtStage("woken")') \in Int
      <4>1. Cardinality((AtStage("woken") \ {t}) \union {w}) \in
              {Cardinality(AtStage("woken") \ {t}), Cardinality(AtStage("woken") \ {t}) + 1}
        BY <2>2, FS_AddElement
      <4>2. \A n, m, k \in Int : m = n - 1 /\ k \in {m, m + 1} => k =< n /\ k \in Int
        OBVIOUS
      <4>3. /\ Cardinality(AtStage("woken")) \in Int
            /\ Cardinality(AtStage("woken") \ {t}) \in Int
            /\ Cardinality(AtStage("woken")') \in Int
        BY <1>0, <2>2, <3>2, <4>1
      <4>4. Cardinality(AtStage("woken")') \in
              {Cardinality(AtStage("woken") \ {t}), Cardinality(AtStage("woken") \ {t}) + 1}
        BY <3>2, <4>1
      <4> QED
        BY <2>2, <4>2, <4>3, <4>4
    <3> QED
      BY <2>1, <3>1, <3>2
  <2>5. count_' = count_
    BY <1>4 DEF WakePassesOn
  <2> QED
    BY <1>0, <2>1, <2>3, <2>5 DEF WokenHavePermits
<1>5. ASSUME NEW t \in Callers, Leave(t) PROVE Inv'
  <2>1. /\ Queued'
        /\ \/ AtStage("woken")' = AtStage("woken")
           \/ \E w \in AtStage("asleep") : AtStage("woken")' = AtStage("woken") \union {w}
    BY <1>5, LeaveQueued
  <2>2. Cardinality(AtStage("woken")') \in Int
        /\ Cardinality(AtStage("woken")') <= Cardinality(AtStage("woken")) + 1
    BY <1>0, <2>1, FS_AddElement
  <2>3. count_' = count_ + 1
    BY <1>5 DEF Leave
  <2> QED
    BY <1>0, <2>1, <2>2, <2>3 DEF WokenHavePermits
<1>6. ASSUME UNCHANGED semaphore_vars PROVE Inv'
  BY <1>6 DEF semaphore_vars, Queued, Conserved, WokenHavePermits, Waiting, AtStage
<1> QED
  BY <1>1, <1>2, <1>3, <1>4, <1>5, <1>6 DEF SemaphoreNext, Wake, WakesUnnotified

(* The invariant holds in every reachable state.                           *)
LEMMA SemaphoreInvariant == SemaphoreSpec => []Inv
<1>1. Inv /\ [SemaphoreNext]_semaphore_vars => Inv'
  <2> SUFFICES ASSUME Inv, [SemaphoreNext]_semaphore_vars PROVE Inv'
    OBVIOUS
  <2>1. CASE spurious'
    BY <2>1, NextQueued DEF Inv, WokenHavePermits
  <2>2. CASE ~spurious'
    BY <2>2, NextCounted
  <2> QED
    BY <2>1, <2>2
<1> QED
  BY InitInv, <1>1, PTL DEF SemaphoreSpec

(* For all threads and counts, and with spurious wakeups as well: permits  *)
(* are neither lost nor made and the queue is exactly the waiting threads; *)
(* until a wakeup is spurious every woken thread has a permit to take.     *)
THEOREM SemaphoreConservesPermits == SemaphoreSpec => []PermitsConserved
<1>1. Inv => PermitsConserved
  BY DEF Inv, Queued, Conserved, PermitsConserved
<1> QED
  BY <1>1, SemaphoreInvariant, PTL

(* For all threads and counts, until a wakeup is spurious: there is a free *)
(* permit behind every notification on its way.                            *)
THEOREM SemaphoreWokenHavePermits == SemaphoreSpec => []WokenHavePermits
<1>1. Inv => WokenHavePermits
  BY DEF Inv
<1> QED
  BY <1>1, SemaphoreInvariant, PTL

(* For all threads and counts: every value is of its type, and until a     *)
(* wakeup is spurious the count, which a woken thread takes down without   *)
(* looking, is between zero and the number of permits.                     *)
THEOREM SemaphoreTypeCorrect == SemaphoreSpec => []SemaphoreTypeOK
<1>1. SemaphoreInit => permits \in Counts
  BY DEF SemaphoreInit
<1>2. permits \in Counts /\ [SemaphoreNext]_semaphore_vars => (permits \in Counts)'
  BY DEF SemaphoreNext, semaphore_vars, history, Wake, EnterAtOnce, EnterQueues, WakeEnters,
         WakePassesOn, Leave, WakesUnnotified
<1>3. Inv /\ permits \in Counts => SemaphoreTypeOK
  <2> SUFFICES ASSUME Inv, permits \in Counts PROVE SemaphoreTypeOK
    OBVIOUS
  <2>1. ~spurious => count_ \in 0 .. permits
    BY GroupsAreFinite DEF Inv, Queued, Conserved, WokenHavePermits
  <2> QED
    BY <2>1 DEF Inv, Queued, SemaphoreTypeOK, Places
<1> QED
  BY <1>1, <1>2, <1>3, SemaphoreInvariant, PTL DEF SemaphoreSpec

-----------------------------------------------------------------------------
(* With one permit the notification that travels always finds the head of  *)
(* the queue before it is lost.                                            *)
THEOREM OnePermitIsNeverStranded == SemaphoreSpec => []NoStrandedPermit
<1>1. SemaphoreInit => NoStrandedPermit
  BY DEF SemaphoreInit, NoStrandedPermit, FreePermitIsAnnounced
<1>2. ASSUME Inv, Inv', NoStrandedPermit, [SemaphoreNext]_semaphore_vars PROVE NoStrandedPermit'
  <2>a. permits' = permits /\ (spurious' = spurious \/ spurious')
    BY <1>2 DEF SemaphoreNext, semaphore_vars, history, Wake, EnterAtOnce, EnterQueues, WakeEnters,
           WakePassesOn, Leave, WakesUnnotified
  <2> SUFFICES ASSUME permits' = 1, ~spurious' PROVE FreePermitIsAnnounced'
    BY DEF NoStrandedPermit
  <2>b. permits = 1 /\ ~spurious /\ FreePermitIsAnnounced
    BY <1>2, <2>a DEF NoStrandedPermit
  <2> USE <1>2, <2>a, <2>b DEF Inv
  <2>0. count_ \in 0 .. 1 /\ (count_' = 0 \/ count_' = 1)
    <3>1. /\ Cardinality(AtStage("inside")) \in Nat /\ Cardinality(AtStage("woken")) \in Nat
          /\ Cardinality(AtStage("inside")) + count_ = 1 /\ count_ \in Int
          /\ Cardinality(AtStage("woken")) <= count_
      BY GroupsAreFinite DEF Queued, Conserved, WokenHavePermits
    <3>2. /\ Cardinality(AtStage("inside")') \in Nat /\ Cardinality(AtStage("woken")') \in Nat
      <4>1. AtStage("inside")' \subseteq Callers /\ AtStage("woken")' \subseteq Callers
        BY DEF AtStage
      <4> QED
        BY <4>1, SemaphoreAssumption, FS_Subset, FS_CardinalityType
    <3>3. /\ count_' + Cardinality(AtStage("inside")') = 1 /\ count_' \in Int
          /\ Cardinality(AtStage("woken")') <= count_'
      <4>1. Queued' /\ WokenHavePermits'
        OBVIOUS
      <4>2. Conserved' /\ count_' \in Int
        BY <4>1 DEF Queued
      <4> QED
        BY <4>1, <4>2 DEF Conserved, WokenHavePermits
    <3> QED
      BY <3>1, <3>2, <3>3
  <2>1. ASSUME NEW t \in Callers, EnterAtOnce(t) PROVE FreePermitIsAnnounced'
    BY <2>0, <2>1 DEF EnterAtOnce, FreePermitIsAnnounced
  <2>2. ASSUME NEW t \in Callers, EnterQueues(t) PROVE FreePermitIsAnnounced'
    <3>1. count_ > 0 => waiting_threads_ # <<>>
      BY <2>2, <2>0 DEF EnterQueues, MustWait
    <3>2. AtStage("woken")' = AtStage("woken") /\ count_' = count_
      BY <2>2, EnterQueuesQueued DEF EnterQueues
    <3> QED
      BY <3>1, <3>2 DEF FreePermitIsAnnounced
  <2>3. ASSUME NEW t \in Callers, WakeEnters(t) PROVE FreePermitIsAnnounced'
    BY <2>0, <2>3 DEF WakeEnters, FreePermitIsAnnounced
  <2>4. ASSUME NEW t \in Callers, WakePassesOn(t) PROVE FreePermitIsAnnounced'
    <3>1. AtStage("woken") = {t}
      <4>1. t \in AtStage("woken") /\ IsFiniteSet(AtStage("woken")) /\ Cardinality(AtStage("woken")) <= 1
        <5>1. t \in AtStage("woken")
          BY <2>4 DEF WakePassesOn, AtStage
        <5>2. Cardinality(AtStage("woken")) <= count_ /\ Cardinality(AtStage("woken")) \in Nat
          BY GroupsAreFinite DEF WokenHavePermits
        <5> QED
          BY <2>0, <5>1, <5>2, GroupsAreFinite
      <4>2. Cardinality(AtStage("woken")) = 1
        BY <4>1, FS_CardinalityType, FS_EmptySet
      <4> QED
        BY <4>1, <4>2, FS_Singleton
    <3>2. PICK h \in Callers : h = Head(waiting_threads_) /\ h # t /\ h \in Waiting
      <4>1. waiting_threads_ # <<>> /\ Head(waiting_threads_) # t
        BY <2>4, QueueAndPlaces DEF WakePassesOn, MyTurn
      <4>2. Head(waiting_threads_) \in ToSet(waiting_threads_)
        BY <4>1, QueueTail DEF Queued, Conserved
      <4>3. Head(waiting_threads_) \in Callers
        BY <4>1 DEF Queued
      <4> QED
        BY <4>1, <4>2, <4>3 DEF Waiting
    <3>3. h \in AtStage("asleep")
      BY <3>1, <3>2 DEF Queued, Conserved
    <3>4. PICK w \in AtStage("asleep") : stage' = [stage EXCEPT ![t] = "asleep", ![w] = "woken"]
      BY <2>4, <3>3 DEF WakePassesOn, NotifySleeper
    <3>5. w \in AtStage("woken")'
      BY <3>4 DEF AtStage, Queued
    <3> QED
      BY <3>5 DEF FreePermitIsAnnounced
  <2>5. ASSUME NEW t \in Callers, Leave(t) PROVE FreePermitIsAnnounced'
    <3>1. CASE AtStage("asleep") # {}
      <4>1. PICK w \in AtStage("asleep") : stage' = [stage EXCEPT ![t] = "outside", ![w] = "woken"]
        BY <2>5, <3>1 DEF Leave, NotifySleeper
      <4>2. w \in AtStage("woken")'
        BY <4>1 DEF AtStage, Queued
      <4> QED
        BY <4>2 DEF FreePermitIsAnnounced
    <3>2. CASE AtStage("asleep") = {}
      <4>1. count_ = 0
        BY <2>0, <2>5 DEF Leave
      <4>2. AtStage("woken") = {}
        BY <4>1, GroupsAreFinite, FS_EmptySet DEF WokenHavePermits
      <4>3. ToSet(waiting_threads_) = {}
        BY <3>2, <4>2 DEF Queued, Conserved, Waiting
      <4>4. waiting_threads_ = <<>>
        BY <4>3, QueueTail DEF Queued, Conserved
      <4> QED
        BY <2>5, <4>4 DEF Leave, FreePermitIsAnnounced
    <3> QED
      BY <3>1, <3>2
  <2>6. ASSUME UNCHANGED semaphore_vars PROVE FreePermitIsAnnounced'
    BY <2>6 DEF semaphore_vars, FreePermitIsAnnounced, AtStage
  <2> QED
    BY <2>1, <2>2, <2>3, <2>4, <2>5, <2>6 DEF SemaphoreNext, Wake, WakesUnnotified
<1> QED
  BY <1>1, <1>2, SemaphoreInvariant, PTL DEF SemaphoreSpec

-----------------------------------------------------------------------------
(* The cardinality the abstract specification speaks of is the same one.   *)
LEMMA SameCardinality == \A S : Fifo!Cardinality(S) = Cardinality(S)
BY DEF Fifo!Cardinality, Cardinality

(* For all threads and counts: each step of the semaphore is a step of the *)
(* FIFO semaphore or invisible to it; a spurious wakeup is the step that   *)
(* loses count.                                                            *)
THEOREM SemaphoreRefines == SemaphoreSpec => ImplementsFifoSemaphore
<1>1. SemaphoreInit => Fifo!Init
  BY DEF SemaphoreInit, Fifo!Init, AtStage, FreePermitIsAnnounced
<1>2. ASSUME Inv, [SemaphoreNext]_semaphore_vars PROVE [Fifo!Next]_(Fifo!vars)
  <2> USE <1>2 DEF Inv
  <2>0. Cardinality(AtStage("inside")) + count_ = permits /\ count_ \in Int
        /\ permits \in Nat /\ (~spurious => Cardinality(AtStage("woken")) <= count_)
        /\ Cardinality(AtStage("inside")) \in Nat
        /\ Cardinality(AtStage("woken")) \in Nat /\ IsFiniteSet(AtStage("woken"))
    BY GroupsAreFinite DEF Queued, Conserved, WokenHavePermits
  <2>1. ASSUME NEW t \in Callers, EnterAtOnce(t) PROVE Fifo!ArriveAndEnter(t)
    <3>1. Fifo!HasRoom
      <4>1. CASE spurious
        BY <4>1 DEF Fifo!HasRoom
      <4>2. CASE ~spurious
        <5>1. Cardinality(AtStage("inside")) < permits
          BY <2>0, <2>1, <4>2 DEF EnterAtOnce, MustWait
        <5> QED
          BY <5>1, SameCardinality DEF Fifo!HasRoom
      <4> QED
        BY <4>1, <4>2
    <3>2. AtStage("inside")' = AtStage("inside") \union {t}
      BY <2>1 DEF EnterAtOnce, AtStage, Queued
    <3> QED
      BY <2>1, <3>1, <3>2 DEF EnterAtOnce, MustWait, history, Fifo!ArriveAndEnter
  <2>2. ASSUME NEW t \in Callers, EnterQueues(t) PROVE Fifo!Arrive(t)
    BY <2>2 DEF EnterQueues, history, AtStage, Queued, Places, Fifo!Arrive
  <2>3. ASSUME NEW t \in Callers, WakeEnters(t) PROVE Fifo!Enter
    <3>1. t \in AtStage("woken")
      BY <2>3 DEF WakeEnters, AtStage
    <3>2. Cardinality(AtStage("woken")) # 0
      BY <2>0, <3>1, FS_EmptySet
    <3>3. Fifo!HasRoom
      <4>1. CASE spurious
        BY <4>1 DEF Fifo!HasRoom
      <4>2. CASE ~spurious
        <5>1. Cardinality(AtStage("inside")) < permits
          BY <2>0, <3>2, <4>2
        <5> QED
          BY <5>1, SameCardinality DEF Fifo!HasRoom
      <4> QED
        BY <4>1, <4>2
    <3>4. AtStage("inside")' = AtStage("inside") \union {t}
      BY <2>3 DEF WakeEnters, AtStage, Queued
    <3>5. waiting_threads_ # <<>>
      BY <2>3, QueueAndPlaces DEF WakeEnters
    <3> QED
      BY <2>3, <3>3, <3>4, <3>5 DEF WakeEnters, MyTurn, history, Fifo!Enter
  <2>4. ASSUME NEW t \in Callers, WakePassesOn(t) PROVE UNCHANGED Fifo!vars
    BY <2>4, WakePassesOnQueued DEF WakePassesOn, history, Fifo!vars
  <2>5. ASSUME NEW t \in Callers, Leave(t) PROVE Fifo!Leave(t)
    <3>1. t \in AtStage("inside")
      BY <2>5 DEF Leave, AtStage
    <3> QED
      BY <2>5, <3>1, LeaveQueued DEF Leave, history, Fifo!Leave
  <2>7. ASSUME NEW t \in Callers, WakesUnnotified(t) PROVE Fifo!LoseCount
    BY <2>7 DEF WakesUnnotified, AtStage, Queued, Places, Fifo!LoseCount
  <2>6. ASSUME UNCHANGED semaphore_vars PROVE UNCHANGED Fifo!vars
    BY <2>6 DEF semaphore_vars, Fifo!vars, AtStage
  <2> QED
    BY <2>1, <2>2, <2>3, <2>4, <2>5, <2>6, <2>7
    DEF SemaphoreNext, Wake, Fifo!Next
<1> QED
  BY <1>1, <1>2, SemaphoreInvariant, PTL DEF SemaphoreSpec, ImplementsFifoSemaphore, Fifo!Spec
=============================================================================
