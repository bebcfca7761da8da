------------------------- MODULE UnbufferedChannel -------------------------
(***************************************************************************)
(* condvars/unbuffered-channel: a channel without a buffer.  A sender puts *)
(* its value into x_ and waits until a receiver has emptied it.  Any       *)
(* thread may send, receive or close.  All calls work under one mutex, so  *)
(* a critical section is one step; what interleaves are the waits on the   *)
(* three condition variables:                                              *)
(*   waiting_send_   senders that wait for their hand-off   (send_wait)    *)
(*   sender_recv_    the sender in its hand-off              (offering)    *)
(*   waiting_recv_   receivers that wait for a value        (recv_wait)    *)
(* Waits may end without a notification.                                   *)
(***************************************************************************)
EXTENDS FiniteSets

CONSTANTS Threads, Values, None

ASSUME ChannelAssumption == IsFiniteSet(Threads) /\ None \notin Values

VARIABLES x_, ongoing_, closed_,
          pc,       \* where each thread is
          arg,      \* the value a waiting sender is sending
          taken     \* history: the value a Recv returned last (any at first)

vars == <<x_, ongoing_, closed_, pc, arg, taken>>

At(places) == {t \in Threads : pc[t] \in places}

Goto(t, there) == pc' = [pc EXCEPT ![t] = there]

(* t moves on and notifies one waiter of the condition variable whose      *)
(* waiters are at the place from.                                          *)
Wakened(from) ==
  CASE from = "send_wait" -> "send_woken"
    [] from = "offering"  -> "offer_woken"
    [] from = "recv_wait" -> "recv_woken"

NotifyOne(t, there, from) ==
  IF At({from}) = {}
  THEN Goto(t, there)
  ELSE \E w \in At({from}) : pc' = [pc EXCEPT ![t] = there, ![w] = Wakened(from)]

-----------------------------------------------------------------------------
Init ==
  /\ x_ = None
  /\ ongoing_ = FALSE
  /\ closed_ = FALSE
  /\ pc = [t \in Threads |-> "idle"]
  /\ arg = [t \in Threads |-> None]
  /\ taken \in Values

BugBusy == x_ # None
Busy == x_ # None \/ ongoing_

(* Send on a closed channel throws: nothing changes.                       *)
SendWaits(t, v) ==
  /\ pc[t] = "idle" /\ ~closed_ /\ Busy
  /\ Goto(t, "send_wait")
  /\ arg' = [arg EXCEPT ![t] = v]
  /\ UNCHANGED <<x_, ongoing_, closed_, taken>>

(* The hand-off begins: the value is in x_, a receiver is notified and the *)
(* sender waits.                                                           *)
Offer(t, v) ==
  /\ ongoing_' = TRUE
  /\ x_' = v
  /\ NotifyOne(t, "offering", "recv_wait")
  /\ UNCHANGED <<closed_, taken>>

SendOffers(t, v) ==
  /\ pc[t] = "idle" /\ ~closed_ /\ ~Busy
  /\ Offer(t, v)
  /\ UNCHANGED arg

WokenSendWaits(t) ==
  /\ pc[t] = "send_woken" /\ ~closed_ /\ Busy
  /\ Goto(t, "send_wait")
  /\ UNCHANGED <<x_, ongoing_, closed_, arg, taken>>

BugWokenSendOffers(t) ==
  /\ pc[t] = "send_woken" /\ ~closed_ /\ ~Busy
  /\ ongoing_' = TRUE
  /\ x_' = arg[t]
  /\ Goto(t, "offering")
  /\ arg' = [arg EXCEPT ![t] = None]
  /\ UNCHANGED <<closed_, taken>>
WokenSendOffers(t) ==
  /\ pc[t] = "send_woken" /\ ~closed_ /\ ~Busy
  /\ Offer(t, arg[t])
  /\ arg' = [arg EXCEPT ![t] = None]

(* A sender woken on a closed channel passes the notification on and       *)
(* throws.                                                                 *)
BugWokenSendThrows(t) ==
  /\ pc[t] = "send_woken" /\ closed_
  /\ Goto(t, "idle")
  /\ arg' = [arg EXCEPT ![t] = None]
  /\ UNCHANGED <<x_, ongoing_, closed_, taken>>
WokenSendThrows(t) ==
  /\ pc[t] = "send_woken" /\ closed_
  /\ NotifyOne(t, "idle", "send_wait")
  /\ arg' = [arg EXCEPT ![t] = None]
  /\ UNCHANGED <<x_, ongoing_, closed_, taken>>

WokenOfferWaits(t) ==
  /\ pc[t] = "offer_woken" /\ ~closed_ /\ x_ # None
  /\ Goto(t, "offering")
  /\ UNCHANGED <<x_, ongoing_, closed_, arg, taken>>

(* Send returns: the value is gone or the channel is closed.               *)
SendReturns(t) ==
  /\ pc[t] = "offer_woken"
  /\ closed_ \/ x_ = None
  /\ ongoing_' = FALSE
  /\ NotifyOne(t, "idle", "send_wait")
  /\ UNCHANGED <<x_, closed_, arg, taken>>

(* Recv on a closed channel without a value returns nullopt: nothing       *)
(* changes.  With no value it first notifies a sender, unless a hand-off   *)
(* is under way, and waits.                                                *)
RecvWaits(t) ==
  /\ pc[t] = "idle" /\ ~closed_ /\ x_ = None
  /\ IF ongoing_ THEN Goto(t, "recv_wait") ELSE NotifyOne(t, "recv_wait", "send_wait")
  /\ UNCHANGED <<x_, ongoing_, closed_, arg, taken>>

Take(t) ==
  /\ taken' = x_
  /\ x_' = None
  /\ NotifyOne(t, "idle", "offering")

RecvTakes(t) ==
  /\ pc[t] = "idle" /\ x_ # None
  /\ IF ongoing_ \/ At({"send_wait"}) = {}
     THEN Take(t)
     ELSE \E w \in At({"send_wait"}) :
            /\ taken' = x_ /\ x_' = None
            /\ IF At({"offering"}) = {}
               THEN pc' = [pc EXCEPT ![w] = "send_woken"]
               ELSE \E o \in At({"offering"}) :
                      pc' = [pc EXCEPT ![w] = "send_woken", ![o] = "offer_woken"]
  /\ UNCHANGED <<ongoing_, closed_, arg>>

WokenRecvTakes(t) ==
  /\ pc[t] = "recv_woken" /\ x_ # None
  /\ Take(t)
  /\ UNCHANGED <<ongoing_, closed_, arg>>

WokenRecvWaits(t) ==
  /\ pc[t] = "recv_woken" /\ ~closed_ /\ x_ = None
  /\ Goto(t, "recv_wait")
  /\ UNCHANGED <<x_, ongoing_, closed_, arg, taken>>

BugWokenRecvEnds(t) ==
  /\ pc[t] = "recv_woken" /\ closed_ /\ x_ = None
  /\ Goto(t, "idle")
  /\ UNCHANGED <<x_, ongoing_, closed_, arg, taken>>
WokenRecvEnds(t) ==
  /\ pc[t] = "recv_woken" /\ closed_ /\ x_ = None
  /\ NotifyOne(t, "idle", "recv_wait")
  /\ UNCHANGED <<x_, ongoing_, closed_, arg, taken>>

(* Close notifies one waiter of each condition variable.                   *)
Close ==
  /\ closed_' = TRUE
  /\ \E S \in SUBSET At({"send_wait", "recv_wait", "offering"}) :
       /\ \A from \in {"send_wait", "recv_wait", "offering"} :
            Cardinality(S \intersect At({from})) = IF At({from}) = {} THEN 0 ELSE 1
       /\ pc' = [u \in Threads |-> IF u \in S THEN Wakened(pc[u]) ELSE pc[u]]
  /\ UNCHANGED <<x_, ongoing_, arg, taken>>

SpuriousWakeup(t) ==
  /\ t \in At({"send_wait", "recv_wait", "offering"})
  /\ Goto(t, Wakened(pc[t]))
  /\ UNCHANGED <<x_, ongoing_, closed_, arg, taken>>

-----------------------------------------------------------------------------
SendStarts(t) == \E v \in Values : SendWaits(t, v) \/ SendOffers(t, v)
SendGoesOn(t) ==
  \/ WokenSendWaits(t) \/ WokenSendOffers(t) \/ WokenSendThrows(t)
  \/ WokenOfferWaits(t) \/ SendReturns(t)
RecvStarts(t) == RecvWaits(t) \/ RecvTakes(t)
RecvGoesOn(t) == WokenRecvTakes(t) \/ WokenRecvWaits(t) \/ WokenRecvEnds(t)

Next ==
  \/ \E t \in Threads :
       SendStarts(t) \/ SendGoesOn(t) \/ RecvStarts(t) \/ RecvGoesOn(t) \/ SpuriousWakeup(t)
  \/ Close

Spec == Init /\ [][Next]_vars

(* A woken thread gets the mutex; nobody has to start a call.              *)
Fairness == \A t \in Threads : WF_vars(SendGoesOn(t)) /\ WF_vars(RecvGoesOn(t))

FairSpec == Spec /\ Fairness

-----------------------------------------------------------------------------
Senders == At({"offering", "offer_woken"})

(* Every value is of its type.                                             *)
TypeOK ==
  /\ x_ \in Values \union {None} /\ taken \in Values
  /\ ongoing_ \in BOOLEAN /\ closed_ \in BOOLEAN
  /\ pc \in [Threads -> {"idle", "send_wait", "send_woken", "offering",
                         "offer_woken", "recv_wait", "recv_woken"}]
  /\ arg \in [Threads -> Values \union {None}]

(* One hand-off at a time, and ongoing_ says whether there is one.         *)
OneHandOff ==
  /\ ongoing_ <=> Senders # {}
  /\ \A s, t \in Senders : s = t

(* No wakeup is lost: while a sender waits for its hand-off there is one   *)
(* under way or somebody is awake to begin it (or, on a closed channel, to *)
(* pass the end on), and the same for receivers and the value on offer.    *)
NobodySleepsOverWork ==
  /\ At({"send_wait"}) # {} /\ (closed_ \/ ~Busy) =>
       At({"send_woken", "offer_woken"}) # {}
  /\ At({"recv_wait"}) # {} /\ (closed_ \/ x_ # None) => At({"recv_woken"}) # {}
  /\ At({"offering"}) # {} => x_ # None /\ ~closed_

(* Send and Recv meet: a value on offer does not stay while a receiver     *)
(* waits, and a close lets every caller go.                                *)
Meet == x_ # None /\ At({"recv_wait", "recv_woken"}) # {} ~> x_ = None
CloseReleasesAll ==
  \A t \in Threads : closed_ /\ pc[t] # "idle" ~> pc[t] = "idle"

(* The rendezvous.  No Send fails once its hand-off has begun.             *)
Abstract == INSTANCE Rendezvous
  WITH value <- x_, senders <- Senders, closed <- closed_, failed <- {}

(* readme.md:8,12: who returns from Send knows that another thread has got *)
(* the value; a Send that waits when the channel is closed fails.  The     *)
(* code breaks this where a close finds a value on offer.                  *)
ImplementsRendezvous == Abstract!Spec

(* On a closed channel a Send returns beside the value that it offered,    *)
(* and a Recv takes a value that was left.                                 *)
LeavesItsValue ==
  /\ closed_ /\ x_ # None
  /\ \E t \in Senders : Senders' = Senders \ {t}
  /\ UNCHANGED <<x_, taken, closed_>>
TakesLeftValue ==
  /\ closed_ /\ Senders = {} /\ x_ # None
  /\ taken' = x_ /\ x_' = None
  /\ UNCHANGED <<Senders, closed_>>

(* But for these two steps, which only a close that finds a value on offer *)
(* leads to, the channel is a rendezvous: hand-offs do not mix, every      *)
(* value is taken once, and who returns from Send knows it taken.          *)
RendezvousUnlessLeft ==
  Abstract!Init /\ [][Abstract!Next \/ LeavesItsValue \/ TakesLeftValue]_(Abstract!vars)
=============================================================================
