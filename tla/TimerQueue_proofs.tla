-------------------------- MODULE TimerQueue_proofs --------------------------
(***************************************************************************)
(* No Pop of the timer queue oversleeps, and the queue implements the      *)
(* timed set, for all threads, items and horizons.  The inductive          *)
(* invariant adds that one Pop at a time holds the mutex, that what it     *)
(* read as the top is still the top, and that what is in the queue was     *)
(* added; an empty queue gives the default value, and is broken when that  *)
(* is popped.                                                              *)
(***************************************************************************)
EXTENDS TimerQueue, TLAPS

Places == {"idle", "checking", "waiting", "woken"}
Pairs == [item : Items \union {NoItem}, at : 0 .. (MaxTime + Second)]

OneHolder ==
  \A t, u \in Threads :
    pc[t] = "checking" /\ pc[u] = "checking" => t = u

TopIsCurrent ==
  \A t \in Threads : pc[t] = "checking" /\ queue_ # {} => top[t] \in Tops

(* What a Pop read from an empty queue is the default value, and no Pop     *)
(* holds the mutex of a broken one.                                        *)
EmptyTop ==
  \A t \in Threads :
    pc[t] = "checking" => ~broken /\ (queue_ = {} => top[t].item = NoItem)

OnlyAdded == \A e \in queue_ : e.item \in added

Inv == TypeOK /\ OneHolder /\ TopIsCurrent /\ EmptyTop /\ OnlyAdded /\ NobodyOversleeps

(* GetTop's pairs are of the type of top. *)
LEMMA GetTopType ==
  ASSUME TypeOK
  PROVE  GetTop \subseteq Pairs
<1>1. CASE queue_ = {}
  <2>1. now + Second \in 0 .. (MaxTime + Second)
    BY TimerAssumption DEF TypeOK, Times
  <2> QED
    BY <1>1, <2>1 DEF GetTop, Pairs
<1>2. CASE queue_ # {}
  <2>1. \A e \in queue_ : e \in Pairs
    BY TimerAssumption DEF TypeOK, Entries, Times, Pairs
  <2> QED
    BY <1>2, <2>1 DEF GetTop, Tops
<1> QED
  BY <1>1, <1>2

(* The empty queue satisfies the invariant.                                *)
LEMMA InitInv == Init => Inv
<1> SUFFICES ASSUME Init PROVE Inv
  OBVIOUS
<1>1. TypeOK
  <2>1. top \in [Threads -> Pairs]
    BY TimerAssumption DEF Init, Pairs
  <2>2. IF broken THEN result = NoItem /\ queue_ = {} ELSE result \in Items
    BY DEF Init
  <2> QED
    BY <2>1, <2>2 DEF Init, TypeOK, Pairs
<1>2. OneHolder /\ TopIsCurrent /\ EmptyTop /\ OnlyAdded /\ NobodyOversleeps
  BY DEF Init, OneHolder, TopIsCurrent, EmptyTop, OnlyAdded, NobodyOversleeps
<1> QED
  BY <1>1, <1>2 DEF Inv

(* The step that takes the mutex and reads the top. *)
LEMMA LooksAtTopInv ==
  ASSUME Inv, NEW t \in Threads, LooksAtTop(t)
  PROVE  Inv'
<1>0. TypeOK /\ OneHolder /\ TopIsCurrent /\ EmptyTop /\ OnlyAdded /\ NobodyOversleeps
  BY DEF Inv
<1>1. PICK e \in GetTop : top' = [top EXCEPT ![t] = e]
  BY DEF LooksAtTop
<1>2. e \in Pairs
  BY <1>0, GetTopType
<1>3. /\ pc' = [pc EXCEPT ![t] = "checking"]
      /\ \A u \in Threads : pc[u] # "checking"
      /\ ~broken /\ UNCHANGED <<queue_, now, added, result, broken>>
  BY DEF LooksAtTop, Goto, MutexFree
<1>4. TypeOK'
  BY <1>0, <1>1, <1>2, <1>3 DEF TypeOK, Pairs
<1>5. OneHolder'
  BY <1>0, <1>3 DEF TypeOK, OneHolder
<1>6. queue_ # {} => e \in Tops
  BY DEF GetTop
<1>7. Tops' = Tops
  BY <1>3 DEF Tops
<1>8. TopIsCurrent'
  BY <1>0, <1>1, <1>3, <1>6, <1>7 DEF TypeOK, TopIsCurrent
<1>9. OnlyAdded' /\ NobodyOversleeps'
  BY <1>0, <1>1, <1>3 DEF TypeOK, OnlyAdded, NobodyOversleeps
<1>10. EmptyTop'
  BY <1>0, <1>1, <1>3 DEF TypeOK, EmptyTop, GetTop
<1> QED
  BY <1>4, <1>5, <1>8, <1>9, <1>10 DEF Inv

(* The element that is taken is the one that was read, and it is due. *)
LEMMA TakesTop ==
  ASSUME Inv, NEW t \in Threads, PopTakes(t)
  PROVE  /\ top[t] \in Tops /\ top[t] \in queue_ /\ top[t] \in Entries
         /\ queue_' = queue_ \ {top[t]} /\ result' = top[t].item /\ top[t].at =< now
<1>1. PICK e \in Tops : (top[t] \in Tops => e = top[t]) /\ queue_' = queue_ \ {e}
  BY DEF PopTakes
<1>2. queue_ # {} /\ pc[t] = "checking"
  BY <1>1 DEF Tops, PopTakes
<1>3. top[t] \in Tops
  BY <1>2 DEF Inv, TopIsCurrent
<1>4. top[t] \in queue_ /\ top[t] \in Entries
  BY <1>3 DEF Tops, Inv, TypeOK
<1> QED
  BY <1>1, <1>3, <1>4 DEF PopTakes

(* Every step of Add and Pop, and of the clock, keeps the invariant.       *)
LEMMA NextInv ==
  ASSUME Inv, [Next]_vars
  PROVE  Inv'
<1>0. TypeOK /\ OneHolder /\ TopIsCurrent /\ EmptyTop /\ OnlyAdded /\ NobodyOversleeps
  BY DEF Inv
<1>1. ASSUME NEW e \in Entries, Add(e) PROVE Inv'
  <2>1. /\ queue_' = queue_ \union {e} /\ added' = added \union {e.item}
        /\ pc' = [u \in Threads |-> IF pc[u] = "waiting" THEN "woken" ELSE pc[u]]
        /\ ~broken /\ UNCHANGED <<now, top, result, broken>>
        /\ \A u \in Threads : pc[u] # "checking"
    BY <1>1 DEF Add, MutexFree
  <2>2. \A u \in Threads : pc'[u] \notin {"checking", "waiting"}
    BY <1>0, <2>1
  <2>3. e.item \in Items
    BY DEF Entries
  <2>4. TypeOK'
    BY <1>0, <2>1, <2>3 DEF TypeOK
  <2>5. OneHolder' /\ TopIsCurrent' /\ EmptyTop' /\ NobodyOversleeps'
    BY <2>2 DEF OneHolder, TopIsCurrent, EmptyTop, NobodyOversleeps
  <2>6. OnlyAdded'
    BY <1>0, <2>1 DEF OnlyAdded
  <2> QED
    BY <2>4, <2>5, <2>6 DEF Inv
<1>2. ASSUME NEW t \in Threads, PopStarts(t) PROVE Inv'
  BY <1>2, LooksAtTopInv DEF PopStarts
<1>3. ASSUME NEW t \in Threads, PopGoesOn(t) PROVE Inv'
  BY <1>3, LooksAtTopInv DEF PopGoesOn
<1>4. ASSUME NEW t \in Threads, PopWaits(t) PROVE Inv'
  <2>1. /\ pc' = [pc EXCEPT ![t] = "waiting"] /\ pc[t] = "checking"
        /\ UNCHANGED <<queue_, now, top, added, result, broken>>
    BY <1>4 DEF PopWaits, Goto
  <2>2. TypeOK' /\ OneHolder' /\ EmptyTop' /\ OnlyAdded'
    BY <1>0, <2>1 DEF TypeOK, OneHolder, EmptyTop, OnlyAdded
  <2>3. Tops' = Tops
    BY <2>1 DEF Tops
  <2>4. TopIsCurrent'
    BY <1>0, <2>1, <2>3 DEF TypeOK, TopIsCurrent
  <2>5. \A e \in queue_ : top[t].at =< e.at
    BY <1>0, <2>1 DEF TopIsCurrent, Tops
  <2>6. NobodyOversleeps'
    BY <1>0, <2>1, <2>5 DEF TypeOK, NobodyOversleeps
  <2> QED
    BY <2>2, <2>4, <2>6 DEF Inv
<1>5. ASSUME NEW t \in Threads, PopTakes(t) PROVE Inv'
  <2>1. /\ top[t] \in queue_ /\ top[t] \in Entries
        /\ queue_' = queue_ \ {top[t]} /\ result' = top[t].item
    BY <1>5, TakesTop
  <2>2. /\ pc' = [pc EXCEPT ![t] = "idle"] /\ pc[t] = "checking"
        /\ top' = [top EXCEPT ![t] = [item |-> NoItem, at |-> 0]]
        /\ UNCHANGED <<now, added, broken>>
    BY <1>5 DEF PopTakes, Goto
  <2>3. [item |-> NoItem, at |-> 0] \in Pairs
    BY TimerAssumption DEF Pairs
  <2>4. result' \in Items /\ ~broken'
    BY <1>0, <2>1, <2>2 DEF Entries, EmptyTop
  <2>5. TypeOK'
    BY <1>0, <2>1, <2>2, <2>3, <2>4 DEF TypeOK, Pairs
  <2>6. \A u \in Threads : pc'[u] # "checking"
    BY <1>0, <2>2 DEF TypeOK, OneHolder
  <2>7. OneHolder' /\ TopIsCurrent' /\ EmptyTop'
    BY <2>6 DEF OneHolder, TopIsCurrent, EmptyTop
  <2>8. OnlyAdded'
    BY <1>0, <2>1, <2>2 DEF OnlyAdded
  <2>9. NobodyOversleeps'
    BY <1>0, <2>1, <2>2 DEF TypeOK, NobodyOversleeps
  <2> QED
    BY <2>5, <2>7, <2>8, <2>9 DEF Inv
<1>6. ASSUME NEW t \in Threads, PopTakesNothing(t) PROVE Inv'
  <2>1. /\ pc' = [pc EXCEPT ![t] = "idle"] /\ pc[t] = "checking" /\ queue_ = {}
        /\ broken' = TRUE /\ result' = top[t].item
        /\ top' = [top EXCEPT ![t] = [item |-> NoItem, at |-> 0]]
        /\ UNCHANGED <<queue_, now, added>>
    BY <1>6 DEF PopTakesNothing, Goto
  <2>2. [item |-> NoItem, at |-> 0] \in Pairs
    BY TimerAssumption DEF Pairs
  <2>3. result' = NoItem
    BY <1>0, <2>1 DEF EmptyTop
  <2>4. TypeOK'
    BY <1>0, <2>1, <2>2, <2>3 DEF TypeOK, Pairs
  <2>5. OneHolder' /\ TopIsCurrent' /\ EmptyTop'
    BY <1>0, <2>1 DEF TypeOK, OneHolder, TopIsCurrent, EmptyTop
  <2>6. OnlyAdded' /\ NobodyOversleeps'
    BY <1>0, <2>1 DEF TypeOK, OnlyAdded, NobodyOversleeps
  <2> QED
    BY <2>4, <2>5, <2>6 DEF Inv
<1>7. ASSUME NEW t \in Threads, Expires(t) \/ SpuriousWakeup(t) PROVE Inv'
  <2>1. /\ pc' = [pc EXCEPT ![t] = "woken"] /\ pc[t] = "waiting"
        /\ UNCHANGED <<queue_, now, top, added, result, broken>>
    BY <1>7 DEF Expires, SpuriousWakeup, Goto
  <2>2. TypeOK' /\ OneHolder' /\ EmptyTop' /\ OnlyAdded' /\ NobodyOversleeps'
    BY <1>0, <2>1 DEF TypeOK, OneHolder, EmptyTop, OnlyAdded, NobodyOversleeps
  <2>3. Tops' = Tops
    BY <2>1 DEF Tops
  <2>4. TopIsCurrent'
    BY <1>0, <2>1, <2>3 DEF TypeOK, TopIsCurrent
  <2> QED
    BY <2>2, <2>4 DEF Inv
<1>8. ASSUME ClockMoves PROVE Inv'
  <2>1. now' \in Times /\ UNCHANGED <<queue_, pc, top, added, result, broken>>
    BY <1>8 DEF ClockMoves
  <2>2. TypeOK' /\ OneHolder' /\ EmptyTop' /\ OnlyAdded' /\ NobodyOversleeps'
    BY <1>0, <2>1 DEF TypeOK, OneHolder, EmptyTop, OnlyAdded, NobodyOversleeps
  <2>3. Tops' = Tops
    BY <2>1 DEF Tops
  <2> QED
    BY <1>0, <2>1, <2>2, <2>3 DEF TopIsCurrent, Inv
<1>9. ASSUME UNCHANGED vars PROVE Inv'
  <2>1. UNCHANGED <<queue_, now, pc, top, added, result, broken>>
    BY <1>9 DEF vars
  <2>2. Tops' = Tops
    BY <2>1 DEF Tops
  <2> QED
    BY <1>0, <2>1, <2>2 DEF Inv, TypeOK, OneHolder, TopIsCurrent, EmptyTop, OnlyAdded, NobodyOversleeps
<1> QED
  BY <1>1, <1>2, <1>3, <1>4, <1>5, <1>6, <1>7, <1>8, <1>9 DEF Next, PopStep

(* The invariant holds in every reachable state.                           *)
LEMMA QueueInvariant == Spec => []Inv
<1>1. Inv /\ [Next]_vars => Inv'
  BY NextInv
<1> QED
  BY InitInv, <1>1, PTL DEF Spec

-----------------------------------------------------------------------------
(* For all threads, items and times: every value is of its type; a Pop     *)
(* returns the default value of GetTop if and only if it pops an empty     *)
(* queue, and it has popped an element and returned it otherwise.          *)
THEOREM TimerTypeCorrect == Spec => []TypeOK
<1>1. Inv => TypeOK
  BY DEF Inv
<1> QED
  BY <1>1, QueueInvariant, PTL

(* For all threads, items and times: no Pop waits past the time of an      *)
(* element, because Add wakes all that wait and Pop only removes.          *)
THEOREM TimerNobodyOversleeps == Spec => []NobodyOversleeps
<1>1. Inv => NobodyOversleeps
  BY DEF Inv
<1> QED
  BY <1>1, QueueInvariant, PTL

(* For all threads, items and times: each step of the queue is a step of   *)
(* the timed set, or invisible to it, or the Pop of an empty queue; so any *)
(* other Pop takes an earliest element, not before its time, and returns it.*)
THEOREM TimerRefines == Spec => TimedSetUnlessEmpty
<1>1. Init => Abstract!Init
  BY DEF Init, Abstract!Init
<1>2. ASSUME Inv, [Next]_vars PROVE [Abstract!Next \/ TakesFromNothing]_(Abstract!vars)
  <2>0. TypeOK /\ EmptyTop /\ OnlyAdded
    BY <1>2 DEF Inv
  <2>1. ASSUME NEW e \in Entries, Add(e) PROVE Abstract!Next
    <3>1. e \notin queue_
      BY <2>0, <2>1 DEF Add, OnlyAdded
    <3>2. Abstract!Add(e)
      BY <2>1, <3>1 DEF Add, Abstract!Add
    <3> QED
      BY <3>2 DEF Abstract!Next, Entries
  <2>2. ASSUME NEW t \in Threads, PopTakes(t) PROVE Abstract!Next
    <3>1. /\ top[t] \in Tops /\ top[t] \in Entries /\ UNCHANGED now
          /\ queue_' = queue_ \ {top[t]} /\ result' = top[t].item /\ top[t].at =< now
      BY <1>2, <2>2, TakesTop DEF PopTakes
    <3>2. Abstract!Pop(top[t])
      BY <3>1 DEF Abstract!Pop, Abstract!Earliest, Tops
    <3> QED
      BY <3>1, <3>2 DEF Abstract!Next, Entries
  <2>3. ASSUME ClockMoves PROVE Abstract!Next
    BY <2>3 DEF ClockMoves, Abstract!ClockMoves, Abstract!Next
  <2>4. ASSUME NEW t \in Threads,
               \/ PopStarts(t) \/ PopGoesOn(t) \/ PopWaits(t)
               \/ Expires(t) \/ SpuriousWakeup(t)
        PROVE  UNCHANGED Abstract!vars
    BY <2>4 DEF PopStarts, PopGoesOn, PopWaits, Expires, SpuriousWakeup,
                LooksAtTop, Abstract!vars
  <2>5. CASE UNCHANGED vars
    BY <2>5 DEF vars, Abstract!vars
  <2>6. ASSUME NEW t \in Threads, PopTakesNothing(t) PROVE TakesFromNothing
    BY <2>0, <2>6 DEF PopTakesNothing, EmptyTop, TakesFromNothing
  <2> QED
    BY <1>2, <2>1, <2>2, <2>3, <2>4, <2>5, <2>6 DEF Next, PopStep
<1> QED
  BY <1>1, <1>2, QueueInvariant, PTL DEF Spec, TimedSetUnlessEmpty
=============================================================================
