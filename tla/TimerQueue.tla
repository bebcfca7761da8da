----------------------------- MODULE TimerQueue -----------------------------
(***************************************************************************)
(* condvars/timerqueue: a priority queue of (item, time point) pairs under *)
(* one mutex and one condition variable.  Pop waits until the earliest     *)
(* pair is due; Add wakes every waiting Pop so that it looks again.        *)
(*                                                                         *)
(* Pop reads the clock twice while it holds the mutex: GetTop reads it     *)
(* when the queue is empty, the loop condition reads it again.  So the     *)
(* steps of Pop are: lock and GetTop (PopStarts, PopGoesOn), then look at  *)
(* the clock and wait (PopWaits) or take (PopTakes, PopTakesNothing).      *)
(*                                                                         *)
(* Time is counted in ticks, 0..MaxTime is the horizon of an instance and  *)
(* Second the ticks of the 1s that GetTop adds.  The clock is              *)
(* system_clock: it goes on and may be set to any time, back too.          *)
(***************************************************************************)
EXTENDS Naturals

CONSTANTS Threads, Items, MaxTime, Second, NoItem

ASSUME TimerAssumption ==
  MaxTime \in Nat /\ Second \in Nat \ {0} /\ NoItem \notin Items

VARIABLES queue_,
          now,      \* Clock::now()
          pc,       \* idle, checking (holds m_), waiting, woken
          top,      \* the local variable of each Pop
          added,    \* the items of the Adds so far: each is added once
          result,   \* history: the item the last Pop returned (any at first)
          broken    \* history: an element has been popped from an empty queue_

vars == <<queue_, now, pc, top, added, result, broken>>

Times == 0 .. MaxTime
Entries == [item : Items, at : Times]

MutexFree == \A u \in Threads : pc[u] # "checking"

Goto(t, there) == pc' = [pc EXCEPT ![t] = there]

(* The pairs that may be at the top of the heap.                           *)
Tops == {e \in queue_ : \A f \in queue_ : e.at =< f.at}

(* GetTop: the default value and a time one second from now when the queue *)
(* is empty.                                                               *)
GetTop == IF queue_ = {} THEN {[item |-> NoItem, at |-> now + Second]} ELSE Tops

-----------------------------------------------------------------------------
Init ==
  /\ queue_ = {}
  /\ now \in Times
  /\ pc = [t \in Threads |-> "idle"]
  /\ top = [t \in Threads |-> [item |-> NoItem, at |-> 0]]
  /\ added = {}
  /\ result \in Items
  /\ broken = FALSE

(* Add: notify_all.                                                        *)
BugAdd(e) ==
  /\ MutexFree /\ ~broken /\ e.item \notin added
  /\ queue_' = queue_ \union {e}
  /\ added' = added \union {e.item}
  /\ IF \E u \in Threads : pc[u] = "waiting"
     THEN \E u \in Threads : pc[u] = "waiting" /\ Goto(u, "woken")
     ELSE UNCHANGED pc
  /\ UNCHANGED <<now, top, result, broken>>
Add(e) ==
  /\ MutexFree /\ ~broken /\ e.item \notin added
  /\ queue_' = queue_ \union {e}
  /\ added' = added \union {e.item}
  /\ pc' = [u \in Threads |-> IF pc[u] = "waiting" THEN "woken" ELSE pc[u]]
  /\ UNCHANGED <<now, top, result, broken>>

LooksAtTop(t) ==
  /\ MutexFree /\ ~broken
  /\ \E e \in GetTop : top' = [top EXCEPT ![t] = e]
  /\ Goto(t, "checking")
  /\ UNCHANGED <<queue_, now, added, result, broken>>

PopStarts(t) == pc[t] = "idle" /\ LooksAtTop(t)

(* A wait ended: the mutex is taken again and the top is read anew.        *)
PopGoesOn(t) == pc[t] = "woken" /\ LooksAtTop(t)

PopWaits(t) ==
  /\ pc[t] = "checking" /\ now < top[t].at
  /\ Goto(t, "waiting")
  /\ UNCHANGED <<queue_, now, top, added, result, broken>>

(* The heap is as it was when top was read, so its front is top.           *)
BugPopTakes(t) ==
  /\ pc[t] = "checking"
  /\ \E e \in Tops :
       /\ top[t] \in Tops => e = top[t]
       /\ queue_' = queue_ \ {e}
  /\ result' = top[t].item
  /\ top' = [top EXCEPT ![t] = [item |-> NoItem, at |-> 0]]
  /\ Goto(t, "idle")
  /\ UNCHANGED <<now, added, broken>>
PopTakes(t) ==
  /\ pc[t] = "checking" /\ top[t].at =< now
  /\ \E e \in Tops :
       /\ top[t] \in Tops => e = top[t]
       /\ queue_' = queue_ \ {e}
  /\ result' = top[t].item
  /\ top' = [top EXCEPT ![t] = [item |-> NoItem, at |-> 0]]
  /\ Goto(t, "idle")
  /\ UNCHANGED <<now, added, broken>>

(* The queue is empty and the clock moved past GetTop's second before the  *)
(* loop condition read it again: queue_.pop() on an empty priority queue,  *)
(* undefined behaviour, and Pop returns GetTop's default value.  What      *)
(* queue_ is worth after that nobody can say, so no later call is modelled.*)
PopTakesNothing(t) ==
  /\ pc[t] = "checking" /\ top[t].at =< now
  /\ queue_ = {}
  /\ broken' = TRUE
  /\ result' = top[t].item
  /\ top' = [top EXCEPT ![t] = [item |-> NoItem, at |-> 0]]
  /\ Goto(t, "idle")
  /\ UNCHANGED <<queue_, now, added>>

(* wait_until returns because its time has come.                           *)
BugExpires(t) == FALSE /\ UNCHANGED vars
Expires(t) ==
  /\ pc[t] = "waiting" /\ top[t].at =< now
  /\ Goto(t, "woken")
  /\ UNCHANGED <<queue_, now, top, added, result, broken>>

SpuriousWakeup(t) ==
  /\ pc[t] = "waiting"
  /\ Goto(t, "woken")
  /\ UNCHANGED <<queue_, now, top, added, result, broken>>

ClockMoves ==
  /\ now' \in Times
  /\ UNCHANGED <<queue_, pc, top, added, result, broken>>

-----------------------------------------------------------------------------
PopStep(t) == PopGoesOn(t) \/ PopWaits(t) \/ PopTakes(t) \/ PopTakesNothing(t)

Next ==
  \/ \E e \in Entries : Add(e)
  \/ \E t \in Threads : PopStarts(t) \/ PopStep(t) \/ Expires(t) \/ SpuriousWakeup(t)
  \/ ClockMoves

Spec == Init /\ [][Next]_vars

(* A Pop that can go on does, and a wait whose time has come ends.  Nobody *)
(* has to call, and the clock has to do nothing.                           *)
Fairness == \A t \in Threads : WF_vars(PopStep(t)) /\ WF_vars(Expires(t))

FairSpec == Spec /\ Fairness

-----------------------------------------------------------------------------
(* Every value is of its type; Pop returns an item, and GetTop's default   *)
(* value only where it pops an empty queue.                                *)
TypeOK ==
  /\ queue_ \in SUBSET Entries
  /\ now \in Times
  /\ pc \in [Threads -> {"idle", "checking", "waiting", "woken"}]
  /\ top \in [Threads -> [item : Items \union {NoItem}, at : 0 .. (MaxTime + Second)]]
  /\ added \in SUBSET Items
  /\ broken \in BOOLEAN
  /\ IF broken THEN result = NoItem /\ queue_ = {} ELSE result \in Items

(* Nobody oversleeps: the time until which a Pop waits is never after the  *)
(* time of an element of the queue, whatever was added or taken since the  *)
(* Pop looked.                                                             *)
NobodyOversleeps ==
  \A t \in Threads : pc[t] = "waiting" => \A e \in queue_ : top[t].at =< e.at

(* An element that is due does not stay while a Pop is waiting for one     *)
(* (unless the clock is set back before its time).                         *)
DueIsPopped ==
  \A e \in Entries :
    e \in queue_ /\ e.at =< now /\ (\E t \in Threads : pc[t] # "idle") ~>
      \/ e \notin queue_ \/ now < e.at
      \/ \A t \in Threads : pc[t] = "idle"

(* README.md: Pop returns the element with the least time, and waits while *)
(* there is none.  The code breaks this where Pop finds the queue empty    *)
(* and the clock goes on by a second before it looks again.                *)
Abstract == INSTANCE TimedSet WITH set <- queue_, clock <- now
ImplementsTimedSet == Abstract!Spec

(* But for that Pop, and until it, the queue is a timed set.               *)
TakesFromNothing ==
  /\ queue_ = {} /\ ~broken /\ broken'
  /\ result' = NoItem
  /\ UNCHANGED <<queue_, now>>
TimedSetUnlessEmpty ==
  Abstract!Init /\ [][Abstract!Next \/ TakesFromNothing]_(Abstract!vars)
=============================================================================
