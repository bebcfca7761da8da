-------------------------- MODULE BufferedChannel --------------------------
(***************************************************************************)
(* condvars/buffered-channel: a channel of bounded capacity over a ring    *)
(* buffer, one mutex, two condition variables and two counters of callers. *)
(* Any thread may send, receive or close.                                  *)
(*                                                                         *)
(* A critical section is one step: closed_ and the buffer change only      *)
(* under the mutex, and waiting_send_cnt_ may only grow outside of it.     *)
(* The two accesses Send makes before it locks are steps of their own.     *)
(***************************************************************************)
EXTENDS Naturals, FiniteSets

CONSTANTS Threads, Values,
          Capacity,         \* the size given to the constructor
          None              \* no value

ASSUME ChannelAssumption ==
  /\ IsFiniteSet(Threads)
  /\ Capacity \in Nat \ {0}
  /\ None \notin Values

VARIABLES closed_, data_, begin_, end_, size_,
          waiting_send_cnt_, waiting_recv_cnt_,
          pc,         \* where each thread is
          arg,        \* the value a thread is sending
          taken,      \* history: the value a Recv returned last
          drained,    \* history: a Recv has returned nullopt
          late        \* history: a Send has gone on after the channel was closed

buffer == <<data_, begin_, end_, size_>>
history == <<taken, drained, late>>
vars == <<closed_, buffer, waiting_send_cnt_, waiting_recv_cnt_, pc, arg, history>>

At(places) == {t \in Threads : pc[t] \in places}

SendersAsleep   == At({"send_wait"})    \* the waiters of waiting_send_
ReceiversAsleep == At({"recv_wait"})    \* the waiters of waiting_recv_

Goto(t, there) == pc' = [pc EXCEPT ![t] = there]

(* t moves on and notifies: one waiting sender, every waiting receiver, or *)
(* everybody.                                                              *)
NotifyOneSender(t, there) ==
  IF SendersAsleep = {}
  THEN Goto(t, there)
  ELSE \E w \in SendersAsleep : pc' = [pc EXCEPT ![t] = there, ![w] = "send_woken"]

Wakened(u) ==
  CASE pc[u] = "recv_wait" -> "recv_woken"
    [] pc[u] = "send_wait" -> "send_woken"
    [] OTHER -> pc[u]

NotifyReceivers(t, there) ==
  pc' = [u \in Threads |-> IF u = t THEN there
                           ELSE IF u \in ReceiversAsleep THEN "recv_woken" ELSE pc[u]]

-----------------------------------------------------------------------------
Init ==
  /\ closed_ = FALSE
  /\ data_ = [i \in 0 .. Capacity - 1 |-> None]
  /\ begin_ = 0 /\ end_ = 0 /\ size_ = 0
  /\ waiting_send_cnt_ = 0 /\ waiting_recv_cnt_ = 0
  /\ pc = [t \in Threads |-> "idle"]
  /\ arg = [t \in Threads |-> None]
  /\ taken = None /\ drained = FALSE /\ late = FALSE

Around(i) == IF i = Capacity THEN 0 ELSE i

Push(v) ==
  /\ data_' = [data_ EXCEPT ![end_] = v]
  /\ end_' = Around(end_ + 1)
  /\ size_' = size_ + 1
  /\ UNCHANGED begin_

BugPop ==
  /\ taken' = data_[Around(begin_ + 1)]
  /\ begin_' = Around(begin_ + 1)
  /\ size_' = size_ - 1
  /\ UNCHANGED <<data_, end_>>
Pop ==
  /\ taken' = data_[begin_]
  /\ begin_' = Around(begin_ + 1)
  /\ size_' = size_ - 1
  /\ UNCHANGED <<data_, end_>>

(* Send on a closed channel throws: nothing changes.  On an open one it    *)
(* goes on, first to the mutex, without ever looking at closed_ again.     *)
SendChecks(t, v) ==
  /\ pc[t] = "idle"
  /\ ~closed_
  /\ Goto(t, "checked")
  /\ arg' = [arg EXCEPT ![t] = v]
  /\ UNCHANGED <<closed_, buffer, waiting_send_cnt_, waiting_recv_cnt_, history>>

SendCounts(t) ==
  /\ pc[t] = "checked"
  /\ waiting_send_cnt_' = waiting_send_cnt_ + 1
  /\ Goto(t, "counted")
  /\ late' = (late \/ closed_)
  /\ UNCHANGED <<closed_, buffer, waiting_recv_cnt_, arg, taken, drained>>

SendWaits(t) ==
  /\ pc[t] \in {"counted", "send_woken"}
  /\ size_ = Capacity
  /\ Goto(t, "send_wait")
  /\ UNCHANGED <<closed_, buffer, waiting_send_cnt_, waiting_recv_cnt_, arg, history>>

SendPushes(t) ==
  /\ pc[t] \in {"counted", "send_woken"}
  /\ size_ # Capacity
  /\ waiting_send_cnt_' = waiting_send_cnt_ - 1
  /\ Push(arg[t])
  /\ NotifyReceivers(t, "idle")
  /\ arg' = [arg EXCEPT ![t] = None]
  /\ UNCHANGED <<closed_, waiting_recv_cnt_, history>>

(* The two conditions under which Recv gives up before it waits: nothing   *)
(* is left or on its way, or as much as waiting receivers will take.       *)
NothingForMe ==
  /\ closed_
  /\ \/ size_ = 0 /\ waiting_send_cnt_ = 0
     \/ waiting_send_cnt_ + size_ = waiting_recv_cnt_

RecvEnds(t) ==
  /\ pc[t] = "idle"
  /\ NothingForMe
  /\ drained' = TRUE
  /\ UNCHANGED <<closed_, buffer, waiting_send_cnt_, waiting_recv_cnt_, pc, arg, taken, late>>

RecvWaits(t) ==
  /\ pc[t] = "idle"
  /\ ~NothingForMe
  /\ size_ = 0
  /\ waiting_recv_cnt_' = waiting_recv_cnt_ + 1
  /\ Goto(t, "recv_wait")
  /\ UNCHANGED <<closed_, buffer, waiting_send_cnt_, arg, history>>

(* A value at once: the receiver counts itself and is done in one section. *)
RecvTakes(t) ==
  /\ pc[t] = "idle"
  /\ ~NothingForMe
  /\ size_ # 0
  /\ Pop
  /\ NotifyOneSender(t, "idle")
  /\ UNCHANGED <<closed_, waiting_send_cnt_, waiting_recv_cnt_, arg, drained, late>>

BugWokenTakes(t) ==
  /\ pc[t] = "recv_woken"
  /\ size_ # 0
  /\ waiting_recv_cnt_' = waiting_recv_cnt_ - 1
  /\ Pop
  /\ Goto(t, "idle")
  /\ UNCHANGED <<closed_, waiting_send_cnt_, arg, drained, late>>
WokenTakes(t) ==
  /\ pc[t] = "recv_woken"
  /\ size_ # 0
  /\ waiting_recv_cnt_' = waiting_recv_cnt_ - 1
  /\ Pop
  /\ NotifyOneSender(t, "idle")
  /\ UNCHANGED <<closed_, waiting_send_cnt_, arg, drained, late>>

WokenWaits(t) ==
  /\ pc[t] = "recv_woken"
  /\ size_ = 0
  /\ ~closed_
  /\ Goto(t, "recv_wait")
  /\ UNCHANGED <<closed_, buffer, waiting_send_cnt_, waiting_recv_cnt_, arg, history>>

(* On a closed channel a woken receiver with nothing to take waits for the *)
(* senders that are counted, or gives up; then it does not uncount itself. *)
WokenWaitsForSenders(t) ==
  /\ pc[t] = "recv_woken"
  /\ size_ = 0
  /\ closed_
  /\ waiting_send_cnt_ # 0
  /\ NotifyOneSender(t, "recv_wait")
  /\ UNCHANGED <<closed_, buffer, waiting_send_cnt_, waiting_recv_cnt_, arg, history>>

BugWokenEnds(t) ==
  /\ pc[t] = "recv_woken"
  /\ size_ = 0
  /\ closed_
  /\ Goto(t, "idle")
  /\ drained' = TRUE
  /\ UNCHANGED <<closed_, buffer, waiting_send_cnt_, waiting_recv_cnt_, arg, taken, late>>
WokenEnds(t) ==
  /\ pc[t] = "recv_woken"
  /\ size_ = 0
  /\ closed_
  /\ waiting_send_cnt_ = 0
  /\ Goto(t, "idle")
  /\ drained' = TRUE
  /\ UNCHANGED <<closed_, buffer, waiting_send_cnt_, waiting_recv_cnt_, arg, taken, late>>

BugClose ==
  /\ closed_' = TRUE
  /\ UNCHANGED <<buffer, waiting_send_cnt_, waiting_recv_cnt_, pc, arg, history>>
Close ==
  /\ closed_' = TRUE
  /\ pc' = [u \in Threads |-> Wakened(u)]
  /\ UNCHANGED <<buffer, waiting_send_cnt_, waiting_recv_cnt_, arg, history>>

SpuriousWakeup(t) ==
  /\ t \in SendersAsleep \union ReceiversAsleep
  /\ Goto(t, Wakened(t))
  /\ UNCHANGED <<closed_, buffer, waiting_send_cnt_, waiting_recv_cnt_, arg, history>>

-----------------------------------------------------------------------------
SendGoesOn(t) == SendCounts(t) \/ SendWaits(t) \/ SendPushes(t)
RecvStarts(t) == RecvEnds(t) \/ RecvWaits(t) \/ RecvTakes(t)
RecvGoesOn(t) ==
  WokenTakes(t) \/ WokenWaits(t) \/ WokenWaitsForSenders(t) \/ WokenEnds(t)

Next ==
  \/ \E t \in Threads :
       \/ \E v \in Values : SendChecks(t, v)
       \/ SendGoesOn(t) \/ RecvStarts(t) \/ RecvGoesOn(t)
       \/ SpuriousWakeup(t)
  \/ Close

Spec == Init /\ [][Next]_vars

(* A thread that can go on with a call does; nobody has to start one.      *)
Fairness == \A t \in Threads : WF_vars(SendGoesOn(t)) /\ WF_vars(RecvGoesOn(t))

FairSpec == Spec /\ Fairness

-----------------------------------------------------------------------------
Waiting(places) == Cardinality(At(places))

(* Every value is of its type and the indices stay inside the buffer.      *)
TypeOK ==
  /\ closed_ \in BOOLEAN /\ drained \in BOOLEAN /\ late \in BOOLEAN
  /\ data_ \in [0 .. Capacity - 1 -> Values \union {None}]
  /\ begin_ \in 0 .. Capacity - 1 /\ end_ \in 0 .. Capacity - 1
  /\ size_ \in 0 .. Capacity
  /\ waiting_send_cnt_ \in Nat /\ waiting_recv_cnt_ \in Nat
  /\ pc \in [Threads -> {"idle", "checked", "counted", "send_wait", "send_woken",
                         "recv_wait", "recv_woken"}]
  /\ arg \in [Threads -> Values \union {None}]
  /\ taken \in Values \union {None}

(* The counters, on which Recv decides that nothing will come any more,    *)
(* are the numbers of the callers; the receivers' one is exact until a     *)
(* Recv has returned nullopt and never too small after that.               *)
CallersCounted ==
  /\ waiting_send_cnt_ = Waiting({"counted", "send_wait", "send_woken"})
  /\ waiting_recv_cnt_ >= Waiting({"recv_wait", "recv_woken"})
  /\ ~drained => waiting_recv_cnt_ = Waiting({"recv_wait", "recv_woken"})

(* No wakeup is lost: while senders sleep there is a woken sender for      *)
(* every free cell, and no receiver sleeps while there is a value.         *)
NobodySleepsOverWork ==
  /\ SendersAsleep # {} => Capacity - size_ <= Waiting({"send_woken"})
  /\ size_ # 0 => ReceiversAsleep = {}

(* readme.md: after Close the values left are read, further calls of Recv  *)
(* say that the channel is closed: when one has said so and no call is     *)
(* under way, nothing is left in the buffer.                               *)
EndIsFinal == drained /\ At({"idle"}) = Threads => size_ = 0

(* That is so unless a Send slipped through between its look at closed_    *)
(* and its count of itself.                                                *)
NothingLeftBehind == late \/ EndIsFinal

(* Close releases the receivers: each Recv under way returns, with a value *)
(* or without one.                                                         *)
CloseReleasesReceivers ==
  \A t \in Threads : closed_ /\ pc[t] \in {"recv_wait", "recv_woken"} ~> pc[t] = "idle"

(* The channel is a bounded FIFO queue; the ring holds the queue's i-th    *)
(* value in cell Cell(i).                                                  *)
Cell(i) == IF begin_ + i - 1 < Capacity THEN begin_ + i - 1 ELSE begin_ + i - 1 - Capacity
Queue == [i \in 1 .. size_ |-> data_[Cell(i)]]
Abstract == INSTANCE FifoChannel WITH queue <- Queue
ImplementsFifoChannel == Abstract!Spec
=============================================================================
