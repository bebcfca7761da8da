------------------------- MODULE ReadersWriters_proofs -------------------------
(***************************************************************************)
(* The two readers-writer locks, RWSpinLock (one atomic word) and RWLock   *)
(* (a mutex and a condition variable), both implement RWExclusion.         *)
(*                                                                         *)
(* The spinlock's word counts its holders, for every finite set of users   *)
(* smaller than LastBit: SpinTypeOK /\ WordCountsHolders is inductive as   *)
(* it stands.  RWLock is exclusive whatever its callbacks throw, and       *)
(* forgets no writer as long as no callback of Write has thrown, for every *)
(* finite set of threads: the inductive invariant is TypeOK /\             *)
(* StateCountsThreads, with NoForgottenWriter beside it.                   *)
(***************************************************************************)
EXTENDS RWLock, RWSpinLock, FiniteSetTheorems, TLAPS

-----------------------------------------------------------------------------
(* The spinlock *)

SpinInv == SpinTypeOK /\ WordCountsHolders

(* The reader count of a set of users fits below the writer's flag. *)
LEMMA ReadersBelowFlag ==
  ASSUME NEW S \in SUBSET Users
  PROVE  IsFiniteSet(S) /\ Cardinality(S) \in Nat /\ Cardinality(S) < LastBit
BY ReadersFit, FS_Subset, FS_CardinalityType

(* The flag is above every count. *)
LEMMA FlagPositive == LastBit \in Nat /\ 0 < LastBit
BY ReadersFit, FS_CardinalityType

(* Initially the word is 0 and nobody is inside. *)
LEMMA SpinInitInv == SpinInit => SpinInv
<1> SUFFICES ASSUME SpinInit PROVE SpinInv
  OBVIOUS
<1>1. ReadersInside = {} /\ WritersInside = {}
  BY DEF SpinInit, ReadersInside, WritersInside
<1>2. LastBit \in Nat /\ 0 < LastBit
  BY FlagPositive
<1>3. WordCountsHolders
  BY <1>1, FS_EmptySet DEF SpinInit, WordCountsHolders
<1> QED
  BY <1>2, <1>3 DEF SpinInit, SpinInv, SpinTypeOK, Word

(* Every step of every thread keeps the word truthful. *)
LEMMA SpinNextInv == SpinInv /\ [SpinNext]_spin_vars => SpinInv'
<1> SUFFICES ASSUME SpinInv, [SpinNext]_spin_vars PROVE SpinInv'
  OBVIOUS
<1> USE DEF SpinInv, Moves
<1>0. LastBit \in Nat /\ 0 < LastBit
  BY FlagPositive
<1>1. IsFiniteSet(ReadersInside) /\ Cardinality(ReadersInside) \in Nat /\ Cardinality(ReadersInside) < LastBit
  BY ReadersBelowFlag DEF ReadersInside
<1>2. ASSUME NEW t \in Users, place[t] \notin {"reading", "writing"},
             NEW to \in {"load", "exchange", "claim"}, Moves(t, to),
             val' = val, expected' \in [Users -> 0 .. LastBit - 1]
      PROVE  SpinInv'
  <2>1. ReadersInside' = ReadersInside /\ WritersInside' = WritersInside
    BY <1>2 DEF SpinTypeOK, ReadersInside, WritersInside
  <2> QED
    BY <1>2, <2>1 DEF SpinTypeOK, WordCountsHolders
<1>3. ASSUME NEW t \in Users, WantsRead(t) PROVE SpinInv'
  BY <1>2, <1>3 DEF WantsRead, SpinTypeOK
<1>4. ASSUME NEW t \in Users, WantsWrite(t) PROVE SpinInv'
  BY <1>2, <1>4 DEF WantsWrite, SpinTypeOK
<1>5. ASSUME NEW t \in Users, LoadForRead(t) PROVE SpinInv'
  <2>1. ReaderBits(val) \in 0 .. LastBit - 1
    BY <1>0 DEF ReaderBits, SpinTypeOK, Word
  <2> QED
    BY <1>2, <1>5, <2>1 DEF LoadForRead, SpinTypeOK
<1>6. ASSUME NEW t \in Users, ReadRetries(t) PROVE SpinInv'
  BY <1>2, <1>6 DEF ReadRetries, SpinTypeOK
<1>7. ASSUME NEW t \in Users, ReadEnters(t) PROVE SpinInv'
  <2>1. val < LastBit /\ WritersInside = {} /\ val = Cardinality(ReadersInside)
    BY <1>0, <1>7 DEF ReadEnters, SpinTypeOK, WordCountsHolders
  <2>2. ReadersInside' = ReadersInside \union {t} /\ t \notin ReadersInside /\ WritersInside' = {}
    BY <1>7, <2>1 DEF ReadEnters, SpinTypeOK, ReadersInside, WritersInside
  <2>3. Cardinality(ReadersInside') = val + 1
    BY <1>1, <2>1, <2>2, FS_AddElement
  <2> QED
    BY <1>0, <1>7, <2>1, <2>2, <2>3 DEF ReadEnters, SpinTypeOK, WordCountsHolders, Word
<1>8. ASSUME NEW t \in Users, UnlockRead(t) PROVE SpinInv'
  <2>1. t \in ReadersInside /\ ReadersInside' = ReadersInside \ {t} /\ WritersInside' = WritersInside
    BY <1>8 DEF UnlockRead, SpinTypeOK, ReadersInside, WritersInside
  <2>2. WritersInside = {} /\ val = Cardinality(ReadersInside)
    BY <2>1 DEF WordCountsHolders
  <2>3. Cardinality(ReadersInside') = Cardinality(ReadersInside) - 1
    BY <1>1, <2>1, FS_RemoveElement
  <2>4. Cardinality(ReadersInside) # 0
    BY <1>1, <2>1, FS_EmptySet
  <2> QED
    BY <1>0, <1>1, <1>8, <2>1, <2>2, <2>3, <2>4
    DEF UnlockRead, OneLess, SpinTypeOK, WordCountsHolders, Word
<1>9. ASSUME NEW t \in Users, WriteClaims(t) PROVE SpinInv'
  <2>1. WritersInside = {} /\ ReadersInside = {}
    BY <1>0, <1>1, <1>9, FS_EmptySet DEF WriteClaims, WordCountsHolders
  <2>2. WritersInside' = {t} /\ ReadersInside' = {}
    BY <1>9, <2>1 DEF WriteClaims, SpinTypeOK, ReadersInside, WritersInside
  <2> QED
    BY <1>0, <1>9, <2>2 DEF WriteClaims, SpinTypeOK, WordCountsHolders, Word
<1>10. ASSUME NEW t \in Users, UnlockWrite(t) PROVE SpinInv'
  <2>1. WritersInside = {t} /\ ReadersInside = {}
    BY <1>10 DEF UnlockWrite, WordCountsHolders, WritersInside
  <2>2. WritersInside' = {} /\ ReadersInside' = {}
    BY <1>10, <2>1 DEF UnlockWrite, SpinTypeOK, ReadersInside, WritersInside
  <2> QED
    BY <1>0, <1>10, <2>2, FS_EmptySet DEF UnlockWrite, SpinTypeOK, WordCountsHolders, Word
<1>11. ASSUME UNCHANGED spin_vars PROVE SpinInv'
  BY <1>11 DEF spin_vars, SpinTypeOK, WordCountsHolders, ReadersInside, WritersInside
<1> QED
  BY <1>3, <1>4, <1>5, <1>6, <1>7, <1>8, <1>9, <1>10, <1>11
  DEF SpinNext, Locking, Acquire, Unlocking

(* The invariant holds in every reachable state. *)
THEOREM SpinLockInvariant == SpinSpec => []SpinInv
BY SpinInitInv, SpinNextInv, PTL DEF SpinSpec

(* For every number of users: the word never leaves its type. *)
THEOREM SpinLockTypeCorrect == SpinSpec => []SpinTypeOK
BY SpinLockInvariant, PTL DEF SpinInv

(* For every number of users: the word counts its holders exactly. *)
THEOREM SpinLockCounts == SpinSpec => []WordCountsHolders
BY SpinLockInvariant, PTL DEF SpinInv

(* For every number of users: a writer is alone. *)
THEOREM SpinLockExclusive == SpinSpec => []MutualExclusion
<1>1. SpinInv => MutualExclusion
  BY DEF SpinInv, WordCountsHolders, MutualExclusion, ReadersInside, WritersInside
<1> QED
  BY <1>1, SpinLockInvariant, PTL

(* For every number of users: each step of the spinlock is a step of       *)
(* readers-writer exclusion or invisible to it.                            *)
THEOREM SpinLockRefines == SpinSpec => SpinImplementsRWExclusion
<1>1. SpinInit => Exclusion!Init
  BY DEF SpinInit, Exclusion!Init, ReadersInside, WritersInside
<1>2. ASSUME SpinInv, [SpinNext]_spin_vars PROVE [Exclusion!Next]_(Exclusion!vars)
  <2> USE <1>2 DEF SpinInv, SpinTypeOK, Moves
  <2>1. ASSUME NEW t \in Users, ReadEnters(t) PROVE Exclusion!AcquireRead(t)
    <3>1. WritersInside = {}
      BY <2>1, ReadersFit DEF ReadEnters, WordCountsHolders
    <3> QED
      BY <2>1, <3>1 DEF ReadEnters, Exclusion!AcquireRead, ReadersInside, WritersInside
  <2>2. ASSUME NEW t \in Users, WriteClaims(t) PROVE Exclusion!AcquireWrite(t)
    <3>1. WritersInside = {} /\ ReadersInside = {}
      <4>1. LastBit # 0 /\ IsFiniteSet(ReadersInside)
        BY ReadersBelowFlag, FS_EmptySet DEF ReadersInside
      <4> QED
        BY <2>2, <4>1, FS_EmptySet DEF WriteClaims, WordCountsHolders
    <3> QED
      BY <2>2, <3>1 DEF WriteClaims, Exclusion!AcquireWrite, ReadersInside, WritersInside
  <2>3. ASSUME NEW t \in Users, UnlockRead(t) PROVE Exclusion!ReleaseRead(t)
    BY <2>3 DEF UnlockRead, Exclusion!ReleaseRead, ReadersInside, WritersInside
  <2>4. ASSUME NEW t \in Users, UnlockWrite(t) PROVE Exclusion!ReleaseWrite(t)
    BY <2>4 DEF UnlockWrite, Exclusion!ReleaseWrite, ReadersInside, WritersInside
  <2>5. ASSUME NEW t \in Users,
               WantsRead(t) \/ WantsWrite(t) \/ LoadForRead(t) \/ ReadRetries(t)
        PROVE  UNCHANGED Exclusion!vars
    BY <2>5 DEF WantsRead, WantsWrite, LoadForRead, ReadRetries, Exclusion!vars, ReadersInside, WritersInside
  <2>6. ASSUME UNCHANGED spin_vars PROVE UNCHANGED Exclusion!vars
    BY <2>6 DEF spin_vars, Exclusion!vars, ReadersInside, WritersInside
  <2> QED
    BY <2>1, <2>2, <2>3, <2>4, <2>5, <2>6
    DEF SpinNext, Locking, Acquire, Unlocking, Exclusion!Next
<1> QED
  BY <1>1, <1>2, SpinLockInvariant, PTL DEF SpinSpec, SpinImplementsRWExclusion, Exclusion!Spec

-----------------------------------------------------------------------------
(* RWLock *)

Inv == TypeOK /\ StateCountsThreads

Counted == At({"reading", "ending"})

(* notify_one moves at most one waiter, and only out of its sleep: readers *)
(* and writers stay where they are, t apart.                               *)
LEMMA NotifyMoves ==
  ASSUME TypeOK, NEW t \in Threads, pc[t] \in {"ending", "writing"},
         NotifyOne(t, "idle")
  PROVE  /\ pc' \in [Threads -> {"idle", "reading", "ending", "entering", "asleep",
                                 "woken", "writing"}]
         /\ Counted' = Counted \ {t}
         /\ Writers' = Writers \ {t}
         /\ Readers' = Readers
         /\ Asleep # {} => At({"woken", "writing"})' # {}
<1>1. CASE Asleep = {}
  BY <1>1 DEF NotifyOne, Goto, TypeOK, At, Counted, Writers, Readers, Asleep
<1>2. CASE Asleep # {}
  <2>1. PICK w \in Asleep : pc' = [pc EXCEPT ![t] = "idle", ![w] = "woken"]
    BY <1>2 DEF NotifyOne
  <2>2. w \in Threads /\ pc[w] = "asleep" /\ w # t
    BY <2>1 DEF Asleep, At
  <2> QED
    BY <2>1, <2>2 DEF TypeOK, At, Counted, Writers, Readers
<1> QED
  BY <1>1, <1>2

(* The readers inside can be counted.                                      *)
LEMMA CountedFinite ==
  IsFiniteSet(Counted) /\ Cardinality(Counted) \in Nat
BY ThreadsAssumption, FS_Subset, FS_CardinalityType DEF Counted, At

(* The unused lock satisfies the invariant.                                *)
LEMMA InitInv == Init => Inv
<1> SUFFICES ASSUME Init PROVE Inv
  OBVIOUS
<1>1. At({"reading", "ending"}) = {} /\ Writers = {}
  BY DEF Init, At, Writers
<1> QED
  BY <1>1, FS_EmptySet DEF Init, Inv, TypeOK, StateCountsThreads

(* Every step keeps the count and the mutex in agreement with the threads. *)
LEMMA NextInv == Inv /\ [Next]_vars => Inv'
<1> SUFFICES ASSUME Inv, [Next]_vars PROVE Inv'
  OBVIOUS
<1> USE DEF Inv
<1>0. IsFiniteSet(Counted) /\ Cardinality(Counted) \in Nat /\ Cardinality(Counted) = blocked_readers_
  BY CountedFinite DEF StateCountsThreads, Counted
<1>1. ASSUME NEW t \in Threads,
             StartWrite(t) \/ WriteSleeps(t) \/ ReadSectionEnds(t) \/ SpuriousWakeup(t)
      PROVE  Inv'
  <2>1. Counted' = Counted /\ Writers' = Writers
    BY <1>1 DEF StartWrite, WriteSleeps, ReadSectionEnds, SpuriousWakeup, Goto, TypeOK, At, Counted, Writers
  <2>2. TypeOK'
    BY <1>1 DEF StartWrite, WriteSleeps, ReadSectionEnds, SpuriousWakeup, Goto, TypeOK
  <2> QED
    BY <1>1, <2>1, <2>2
    DEF StartWrite, WriteSleeps, ReadSectionEnds, SpuriousWakeup, StateCountsThreads, Counted
<1>2. ASSUME NEW t \in Threads, Read(t) PROVE Inv'
  <2>1. Counted' = Counted \union {t} /\ t \notin Counted /\ Writers' = Writers /\ Writers = {}
    BY <1>2 DEF Read, Goto, TypeOK, At, Counted, Writers, StateCountsThreads
  <2>2. Cardinality(Counted') = blocked_readers_ + 1
    BY <1>0, <2>1, FS_AddElement
  <2> QED
    BY <1>2, <2>1, <2>2 DEF Read, Goto, TypeOK, StateCountsThreads, Counted
<1>3. ASSUME NEW t \in Threads, EndRead(t) PROVE Inv'
  <2>1. /\ pc' \in [Threads -> {"idle", "reading", "ending", "entering", "asleep", "woken", "writing"}]
        /\ Counted' = Counted \ {t}
        /\ Writers' = Writers
    <3>1. CASE blocked_readers_' = 0
      <4>1. NotifyOne(t, "idle") /\ pc[t] = "ending"
        BY <1>3, <3>1 DEF EndRead
      <4>2. t \notin Writers
        BY <4>1 DEF Writers, At
      <4> QED
        BY <4>1, <4>2, NotifyMoves
    <3>2. CASE blocked_readers_' # 0
      BY <1>3, <3>2 DEF EndRead, Goto, TypeOK, At, Counted, Writers
    <3> QED
      BY <3>1, <3>2
  <2>2. t \in Counted
    BY <1>3 DEF EndRead, Counted, At
  <2>3. Cardinality(Counted') = blocked_readers_ - 1 /\ Cardinality(Counted') \in Nat
    BY <1>0, <2>1, <2>2, FS_RemoveElement, FS_CardinalityType
  <2> QED
    BY <1>3, <2>1, <2>3 DEF EndRead, TypeOK, StateCountsThreads, Counted
<1>4. ASSUME NEW t \in Threads, WriteEnters(t) PROVE Inv'
  <2>1. Counted' = Counted /\ Writers' = {t}
    BY <1>4 DEF WriteEnters, Goto, TypeOK, At, Counted, Writers, StateCountsThreads
  <2> QED
    BY <1>4, <2>1, ThreadsAssumption DEF WriteEnters, Goto, TypeOK, StateCountsThreads, Counted
<1>5. ASSUME NEW t \in Threads, WriteReturns(t) PROVE Inv'
  <2>1. t \in Writers /\ t \notin Counted
    BY <1>5 DEF WriteReturns, Writers, At, Counted
  <2>2. Writers = {t} /\ blocked_readers_ = 0
    BY <2>1 DEF StateCountsThreads
  <2>3. /\ pc' \in [Threads -> {"idle", "reading", "ending", "entering", "asleep", "woken", "writing"}]
        /\ Counted' = Counted
        /\ Writers' = {}
    BY <1>5, <2>1, <2>2, NotifyMoves DEF WriteReturns
  <2> QED
    BY <1>5, <2>2, <2>3 DEF WriteReturns, TypeOK, StateCountsThreads, Counted
<1>6. ASSUME NEW t \in Threads, WriteThrows(t) PROVE Inv'
  <2>1. Writers = {t}
    BY <1>6 DEF WriteThrows, Writers, At, StateCountsThreads
  <2>2. Counted' = Counted /\ Writers' = {}
    BY <1>6, <2>1 DEF WriteThrows, Goto, TypeOK, At, Counted, Writers
  <2> QED
    BY <1>6, <2>2 DEF WriteThrows, Goto, TypeOK, StateCountsThreads, Counted
<1>7. ASSUME UNCHANGED vars PROVE Inv'
  BY <1>7 DEF vars, TypeOK, StateCountsThreads, At, Writers
<1> QED
  BY <1>1, <1>2, <1>3, <1>4, <1>5, <1>6, <1>7
  DEF Next, Reading, WriteLocks, WriteEnds

(* For every number of threads: the invariant that NextInv keeps holds in  *)
(* every reachable state.                                                  *)
THEOREM RWLockInvariant == Spec => []Inv
BY InitInv, NextInv, PTL DEF Spec

(* For every number of threads: every value is of its type, so the count   *)
(* of the readers never falls below zero.                                  *)
THEOREM RWLockTypeCorrect == Spec => []TypeOK
BY RWLockInvariant, PTL DEF Inv

(* For every number of threads: reader count and mutex agree with where    *)
(* the threads are, also when sections throw.                              *)
THEOREM RWLockCounts == Spec => []StateCountsThreads
BY RWLockInvariant, PTL DEF Inv

-----------------------------------------------------------------------------
(* Every step keeps somebody responsible for the writers that sleep.       *)
LEMMA NextNoForgotten ==
  Inv /\ NoForgottenWriter /\ [Next]_vars => NoForgottenWriter'
<1> SUFFICES ASSUME Inv, NoForgottenWriter, [Next]_vars PROVE NoForgottenWriter'
  OBVIOUS
<1> USE DEF Inv
<1>1. ASSUME NEW t \in Threads, StartWrite(t) \/ ReadSectionEnds(t) PROVE NoForgottenWriter'
  BY <1>1 DEF StartWrite, ReadSectionEnds, Goto, TypeOK, NoForgottenWriter, SleepersAnsweredFor, Asleep, At
<1>2. ASSUME NEW t \in Threads, SpuriousWakeup(t) PROVE NoForgottenWriter'
  BY <1>2 DEF SpuriousWakeup, Goto, TypeOK, NoForgottenWriter, SleepersAnsweredFor, Asleep, At
<1>3. ASSUME NEW t \in Threads, Read(t) PROVE NoForgottenWriter'
  BY <1>3 DEF Read, TypeOK, NoForgottenWriter, SleepersAnsweredFor
<1>4. ASSUME NEW t \in Threads, WriteSleeps(t) PROVE NoForgottenWriter'
  BY <1>4 DEF WriteSleeps, NoForgottenWriter, SleepersAnsweredFor
<1>5. ASSUME NEW t \in Threads, WriteEnters(t) PROVE NoForgottenWriter'
  BY <1>5 DEF WriteEnters, Goto, TypeOK, NoForgottenWriter, SleepersAnsweredFor, At
<1>6. ASSUME NEW t \in Threads, EndRead(t) PROVE NoForgottenWriter'
  <2>1. CASE blocked_readers_' = 0
    <3>1. NotifyOne(t, "idle") /\ pc[t] = "ending"
      BY <1>6, <2>1 DEF EndRead
    <3>2. Asleep' \subseteq Asleep
      BY <3>1 DEF NotifyOne, Goto, TypeOK, Asleep, At
    <3> QED
      BY <3>1, <3>2, NotifyMoves DEF NoForgottenWriter, SleepersAnsweredFor
  <2>2. CASE blocked_readers_' # 0
    BY <2>2 DEF NoForgottenWriter, SleepersAnsweredFor
  <2> QED
    BY <2>1, <2>2
<1>7. ASSUME NEW t \in Threads, WriteReturns(t) PROVE NoForgottenWriter'
  <2>1. NotifyOne(t, "idle") /\ pc[t] = "writing"
    BY <1>7 DEF WriteReturns
  <2>2. Asleep' \subseteq Asleep
    BY <2>1 DEF NotifyOne, Goto, TypeOK, Asleep, At
  <2> QED
    BY <2>1, <2>2, NotifyMoves DEF NoForgottenWriter, SleepersAnsweredFor
<1>8. ASSUME UNCHANGED vars PROVE NoForgottenWriter'
  BY <1>8 DEF vars, NoForgottenWriter, SleepersAnsweredFor, Asleep, At
<1>9. ASSUME NEW t \in Threads, WriteThrows(t) PROVE NoForgottenWriter'
  BY <1>9 DEF WriteThrows, NoForgottenWriter
<1> QED
  BY <1>1, <1>2, <1>3, <1>4, <1>5, <1>6, <1>7, <1>8, <1>9
  DEF Next, Reading, WriteLocks, WriteEnds

(* For every number of threads: as long as no callback of Write has        *)
(* thrown, no writer sleeps while the readers are gone and nobody is awake *)
(* to pass the notification on.                                            *)
THEOREM RWLockForgetsNobody == Spec => []NoForgottenWriter
<1>1. Init => NoForgottenWriter
  BY DEF Init, NoForgottenWriter, SleepersAnsweredFor, Asleep, At
<1> QED
  BY <1>1, NextNoForgotten, RWLockInvariant, PTL DEF Spec

-----------------------------------------------------------------------------
(* For every number of threads, throwing or not: each step of RWLock is a  *)
(* step of readers-writer exclusion or invisible to it.                    *)
THEOREM RWLockRefines == Spec => ImplementsRWExclusion
<1>1. Init => Abstract!Init
  BY DEF Init, Abstract!Init, Readers, Writers, At
<1>2. ASSUME Inv, [Next]_vars PROVE [Abstract!Next]_(Abstract!vars)
  <2> USE <1>2 DEF Inv
  <2>1. ASSUME NEW t \in Threads, Read(t) PROVE Abstract!AcquireRead(t)
    BY <2>1 DEF Read, Goto, TypeOK, StateCountsThreads, Abstract!AcquireRead, Readers, Writers, At
  <2>2. ASSUME NEW t \in Threads, ReadSectionEnds(t) PROVE Abstract!ReleaseRead(t)
    BY <2>2 DEF ReadSectionEnds, Goto, TypeOK, Abstract!ReleaseRead, Readers, Writers, At
  <2>3. ASSUME NEW t \in Threads, WriteEnters(t) PROVE Abstract!AcquireWrite(t)
    <3>1. Counted = {}
      BY <2>3, CountedFinite, FS_EmptySet DEF WriteEnters, StateCountsThreads, Counted
    <3>2. Readers = {} /\ Writers = {}
      BY <2>3, <3>1 DEF WriteEnters, StateCountsThreads, Counted, Readers, At
    <3> QED
      BY <2>3, <3>2 DEF WriteEnters, Goto, TypeOK, Abstract!AcquireWrite, Readers, Writers, At
  <2>4. ASSUME NEW t \in Threads, WriteReturns(t) PROVE Abstract!ReleaseWrite(t)
    <3>1. t \in Writers /\ NotifyOne(t, "idle") /\ pc[t] = "writing"
      BY <2>4 DEF WriteReturns, Writers, At
    <3> QED
      BY <3>1, NotifyMoves DEF Abstract!ReleaseWrite
  <2>5. ASSUME NEW t \in Threads, WriteThrows(t) PROVE Abstract!ReleaseWrite(t)
    BY <2>5 DEF WriteThrows, Goto, TypeOK, Abstract!ReleaseWrite, Readers, Writers, At
  <2>6. ASSUME NEW t \in Threads, EndRead(t) PROVE UNCHANGED Abstract!vars
    <3>1. CASE blocked_readers_' = 0
      <4>1. NotifyOne(t, "idle") /\ pc[t] = "ending"
        BY <2>6, <3>1 DEF EndRead
      <4>2. t \notin Writers
        BY <4>1 DEF Writers, At
      <4> QED
        BY <4>1, <4>2, NotifyMoves DEF Abstract!vars
    <3>2. CASE blocked_readers_' # 0
      BY <2>6, <3>2 DEF EndRead, Goto, TypeOK, Abstract!vars, Readers, Writers, At
    <3> QED
      BY <3>1, <3>2
  <2>7. ASSUME NEW t \in Threads, StartWrite(t) \/ WriteSleeps(t) \/ SpuriousWakeup(t)
        PROVE  UNCHANGED Abstract!vars
    BY <2>7 DEF StartWrite, WriteSleeps, SpuriousWakeup, Goto, TypeOK, Abstract!vars, Readers, Writers, At
  <2>8. ASSUME UNCHANGED vars PROVE UNCHANGED Abstract!vars
    BY <2>8 DEF vars, Abstract!vars, Readers, Writers, At
  <2> QED
    BY <2>1, <2>2, <2>3, <2>4, <2>5, <2>6, <2>7, <2>8
    DEF Next, Reading, WriteLocks, WriteEnds, Abstract!Next
<1> QED
  BY <1>1, <1>2, RWLockInvariant, PTL DEF Spec, ImplementsRWExclusion, Abstract!Spec
=============================================================================
