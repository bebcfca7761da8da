---------------------- MODULE UnbufferedChannel_proofs ----------------------
(***************************************************************************)
(* The unbuffered channel loses no wakeup and implements the rendezvous,   *)
(* for every finite set of threads and every set of values.  The inductive *)
(* invariant adds that ongoing_ marks the one hand-off, that a value in an *)
(* open channel has its sender there, that a waiting sender has a value to *)
(* send, and that beside a value left by a close two receivers are awake   *)
(* as long as one sleeps: one takes the value, the other passes the end on.*)
(***************************************************************************)
EXTENDS UnbufferedChannel, FiniteSetTheorems, TLAPS

Places == {"idle", "send_wait", "send_woken", "offering", "offer_woken",
           "recv_wait", "recv_woken"}

Offered ==
  /\ x_ # None /\ ~closed_ => ongoing_
  /\ \A u \in Threads : pc[u] \in {"send_wait", "send_woken"} => arg[u] \in Values
  /\ \A u \in Threads : pc[u] = "recv_wait" /\ closed_ /\ x_ # None =>
       \E v, w \in Threads : v # w /\ pc[v] = "recv_woken" /\ pc[w] = "recv_woken"

Inv == TypeOK /\ OneHandOff /\ NobodySleepsOverWork /\ Offered

(* The parts of the invariant, thread by thread. *)
HandOff ==
  /\ ongoing_ <=> \E u \in Threads : pc[u] \in {"offering", "offer_woken"}
  /\ \A u, v \in Threads :
       pc[u] \in {"offering", "offer_woken"} /\ pc[v] \in {"offering", "offer_woken"} => u = v

Awake ==
  /\ \A u \in Threads : pc[u] = "send_wait" /\ (closed_ \/ ~Busy) =>
       \E w \in Threads : pc[w] \in {"send_woken", "offer_woken"}
  /\ \A u \in Threads : pc[u] = "recv_wait" /\ (closed_ \/ x_ # None) =>
       \E w \in Threads : pc[w] = "recv_woken"
  /\ \A u \in Threads : pc[u] = "offering" => x_ # None /\ ~closed_

(* What the invariant says of the threads, said of each of them.           *)
LEMMA ThreadByThread ==
  /\ OneHandOff <=> HandOff
  /\ NobodySleepsOverWork <=> Awake
<1>1. OneHandOff <=> HandOff
  BY DEF OneHandOff, HandOff, Senders, At
<1>2. NobodySleepsOverWork <=> Awake
  BY DEF NobodySleepsOverWork, Awake, At
<1> QED
  BY <1>1, <1>2

(* The same, after a step.                                                 *)
LEMMA ThreadByThreadPrimed ==
  /\ OneHandOff' <=> HandOff'
  /\ NobodySleepsOverWork' <=> Awake'
BY ThreadByThread, PTL

(* t moves alone. *)
LEMMA GotoMoves ==
  ASSUME pc \in [Threads -> Places], NEW t \in Threads, NEW there \in Places,
         Goto(t, there)
  PROVE  /\ pc' \in [Threads -> Places] /\ pc'[t] = there
         /\ \A u \in Threads \ {t} : pc'[u] = pc[u]
BY DEF Goto

(* t moves and wakes one waiter, if there is one. *)
LEMMA NotifyOneMoves ==
  ASSUME pc \in [Threads -> Places], NEW t \in Threads, NEW there \in Places,
         NEW from \in {"send_wait", "offering", "recv_wait"},
         pc[t] # from, NotifyOne(t, there, from)
  PROVE  /\ pc' \in [Threads -> Places] /\ pc'[t] = there
         /\ \/ /\ \A u \in Threads : pc[u] # from
               /\ \A u \in Threads \ {t} : pc'[u] = pc[u]
            \/ \E w \in Threads \ {t} :
                 /\ pc[w] = from /\ pc'[w] = Wakened(from)
                 /\ \A u \in Threads \ {t, w} : pc'[u] = pc[u]
<1>1. CASE At({from}) = {}
  BY <1>1, GotoMoves DEF NotifyOne, At
<1>2. CASE At({from}) # {}
  <2>1. PICK w \in At({from}) : pc' = [pc EXCEPT ![t] = there, ![w] = Wakened(from)]
    BY <1>2 DEF NotifyOne
  <2>2. w \in Threads /\ pc[w] = from /\ w # t /\ Wakened(from) \in Places
    BY <2>1 DEF At, Wakened, Places
  <2> QED
    BY <2>1, <2>2
<1> QED
  BY <1>1, <1>2

(* What the places do when t takes the value at once. *)
TakeMoves(t) ==
  /\ pc' \in [Threads -> Places]
  /\ pc'[t] = "idle"
  /\ \A u \in Threads \ {t} :
       \/ pc'[u] = pc[u]
       \/ pc[u] = "send_wait" /\ pc'[u] = "send_woken"
       \/ pc[u] = "offering" /\ pc'[u] = "offer_woken"
  /\ (\E u \in Threads : pc[u] = "offering") =>
        \E w \in Threads : pc[w] = "offering" /\ pc'[w] = "offer_woken"

(* A receiver takes the value and wakes the sender that offers it.         *)
LEMMA RecvTakesMoves ==
  ASSUME pc \in [Threads -> Places], NEW t \in Threads, RecvTakes(t)
  PROVE  TakeMoves(t)
<1>1. CASE ongoing_ \/ At({"send_wait"}) = {}
  <2>1. NotifyOne(t, "idle", "offering") /\ pc[t] = "idle"
    BY <1>1 DEF RecvTakes, Take
  <2> QED
    BY <2>1, NotifyOneMoves DEF Wakened, Places, TakeMoves
<1>2. CASE ~(ongoing_ \/ At({"send_wait"}) = {})
  <2>1. PICK w \in At({"send_wait"}) :
          IF At({"offering"}) = {}
          THEN pc' = [pc EXCEPT ![w] = "send_woken"]
          ELSE \E o \in At({"offering"}) :
                 pc' = [pc EXCEPT ![w] = "send_woken", ![o] = "offer_woken"]
    BY <1>2 DEF RecvTakes
  <2>2. w \in Threads /\ pc[w] = "send_wait" /\ pc[t] = "idle"
    BY <2>1 DEF At, RecvTakes
  <2>3. CASE At({"offering"}) = {}
    BY <2>1, <2>2, <2>3 DEF At, Places, TakeMoves
  <2>4. ASSUME NEW o \in At({"offering"}),
               pc' = [pc EXCEPT ![w] = "send_woken", ![o] = "offer_woken"]
        PROVE  TakeMoves(t)
    <3>1. o \in Threads /\ pc[o] = "offering"
      BY <2>4 DEF At
    <3> QED
      BY <2>2, <2>4, <3>1 DEF Places, TakeMoves
  <2> QED
    BY <2>1, <2>3, <2>4
<1> QED
  BY <1>1, <1>2

-----------------------------------------------------------------------------
(* The unused channel satisfies the invariant.                             *)
LEMMA InitInv == Init => Inv
<1> SUFFICES ASSUME Init PROVE TypeOK /\ HandOff /\ Awake /\ Offered
  BY ThreadByThread DEF Inv
<1>1. TypeOK
  BY DEF Init, TypeOK
<1>2. HandOff /\ Awake /\ Offered
  BY DEF Init, HandOff, Awake, Offered
<1> QED
  BY <1>1, <1>2

(* Every step of Send, Recv and Close keeps the invariant.                 *)
LEMMA NextInv ==
  ASSUME Inv, [Next]_vars
  PROVE  Inv'
<1>0. /\ TypeOK /\ HandOff /\ Awake /\ Offered /\ pc \in [Threads -> Places]
      /\ None \notin Values
  BY ThreadByThread, ChannelAssumption DEF Inv, TypeOK, Places
<1> SUFFICES TypeOK' /\ HandOff' /\ Awake' /\ Offered'
  BY ThreadByThreadPrimed DEF Inv
<1> USE <1>0
<1>1. ASSUME NEW t \in Threads, NEW v \in Values, SendWaits(t, v) PROVE TypeOK' /\ HandOff' /\ Awake' /\ Offered'
  <2>1. pc' \in [Threads -> Places] /\ pc'[t] = "send_wait" /\ \A u \in Threads \ {t} : pc'[u] = pc[u]
    BY <1>1, GotoMoves DEF SendWaits, Wakened, Places
  <2>2. pc[t] = "idle" /\ ~closed_ /\ Busy /\ arg' = [arg EXCEPT ![t] = v]
        /\ UNCHANGED <<x_, ongoing_, closed_, taken>>
    BY <1>1 DEF SendWaits
  <2>3. TypeOK'
    BY <2>1, <2>2 DEF TypeOK, Places
  <2>4. HandOff'
    BY <2>1, <2>2 DEF HandOff, Awake, TypeOK, Busy
  <2>5. Awake'
    BY <2>1, <2>2 DEF HandOff, Awake, Offered, Busy
  <2>6. Offered'
    BY <2>1, <2>2 DEF Offered, HandOff, TypeOK
  <2> QED
    BY <2>3, <2>4, <2>5, <2>6
<1>2. ASSUME NEW t \in Threads, NEW v \in Values, SendOffers(t, v) PROVE TypeOK' /\ HandOff' /\ Awake' /\ Offered'
  <2>1. /\ pc' \in [Threads -> Places] /\ pc'[t] = "offering"
        /\ \/ /\ \A u \in Threads : pc[u] # "recv_wait"
              /\ \A u \in Threads \ {t} : pc'[u] = pc[u]
           \/ \E w \in Threads \ {t} :
                /\ pc[w] = "recv_wait" /\ pc'[w] = "recv_woken"
                /\ \A u \in Threads \ {t, w} : pc'[u] = pc[u]
    BY <1>2, NotifyOneMoves DEF SendOffers, Offer, Wakened, Places
  <2>2. pc[t] = "idle" /\ ~closed_ /\ ~Busy /\ ongoing_' = TRUE /\ x_' = v
        /\ UNCHANGED <<closed_, taken, arg>>
    BY <1>2 DEF SendOffers, Offer
  <2>3. TypeOK'
    BY <2>1, <2>2 DEF TypeOK, Places
  <2>4. HandOff'
    BY <2>1, <2>2 DEF HandOff, Awake, TypeOK, Busy
  <2>5. Awake'
    BY <2>1, <2>2 DEF HandOff, Awake, Offered, Busy
  <2>6. Offered'
    BY <2>1, <2>2 DEF Offered, HandOff, TypeOK
  <2> QED
    BY <2>3, <2>4, <2>5, <2>6
<1>3. ASSUME NEW t \in Threads, WokenSendWaits(t) PROVE TypeOK' /\ HandOff' /\ Awake' /\ Offered'
  <2>1. pc' \in [Threads -> Places] /\ pc'[t] = "send_wait" /\ \A u \in Threads \ {t} : pc'[u] = pc[u]
    BY <1>3, GotoMoves DEF WokenSendWaits, Wakened, Places
  <2>2. pc[t] = "send_woken" /\ ~closed_ /\ Busy
        /\ UNCHANGED <<x_, ongoing_, closed_, taken, arg>>
    BY <1>3 DEF WokenSendWaits
  <2>3. TypeOK'
    BY <2>1, <2>2 DEF TypeOK, Places
  <2>4. HandOff'
    BY <2>1, <2>2 DEF HandOff, Awake, TypeOK, Busy
  <2>5. Awake'
    BY <2>1, <2>2 DEF HandOff, Awake, Offered, Busy
  <2>6. Offered'
    BY <2>1, <2>2 DEF Offered, HandOff, TypeOK
  <2> QED
    BY <2>3, <2>4, <2>5, <2>6
<1>4. ASSUME NEW t \in Threads, WokenSendOffers(t) PROVE TypeOK' /\ HandOff' /\ Awake' /\ Offered'
  <2>1. /\ pc' \in [Threads -> Places] /\ pc'[t] = "offering"
        /\ \/ /\ \A u \in Threads : pc[u] # "recv_wait"
              /\ \A u \in Threads \ {t} : pc'[u] = pc[u]
           \/ \E w \in Threads \ {t} :
                /\ pc[w] = "recv_wait" /\ pc'[w] = "recv_woken"
                /\ \A u \in Threads \ {t, w} : pc'[u] = pc[u]
    BY <1>4, NotifyOneMoves DEF WokenSendOffers, Offer, Wakened, Places
  <2>2. pc[t] = "send_woken" /\ ~closed_ /\ ~Busy /\ ongoing_' = TRUE /\ x_' = arg[t]
        /\ arg' = [arg EXCEPT ![t] = None] /\ UNCHANGED <<closed_, taken>>
    BY <1>4 DEF WokenSendOffers, Offer
  <2>3. TypeOK'
    BY <2>1, <2>2 DEF TypeOK, Places
  <2>4. HandOff'
    BY <2>1, <2>2 DEF HandOff, Awake, TypeOK, Busy
  <2>5. Awake'
    BY <2>1, <2>2 DEF HandOff, Awake, Offered, Busy
  <2>6. Offered'
    BY <2>1, <2>2 DEF Offered, HandOff, TypeOK
  <2> QED
    BY <2>3, <2>4, <2>5, <2>6
<1>5. ASSUME NEW t \in Threads, WokenSendThrows(t) PROVE TypeOK' /\ HandOff' /\ Awake' /\ Offered'
  <2>1. /\ pc' \in [Threads -> Places] /\ pc'[t] = "idle"
        /\ \/ /\ \A u \in Threads : pc[u] # "send_wait"
              /\ \A u \in Threads \ {t} : pc'[u] = pc[u]
           \/ \E w \in Threads \ {t} :
                /\ pc[w] = "send_wait" /\ pc'[w] = "send_woken"
                /\ \A u \in Threads \ {t, w} : pc'[u] = pc[u]
    BY <1>5, NotifyOneMoves DEF WokenSendThrows, Wakened, Places
  <2>2. pc[t] = "send_woken" /\ closed_ /\ arg' = [arg EXCEPT ![t] = None]
        /\ UNCHANGED <<x_, ongoing_, closed_, taken>>
    BY <1>5 DEF WokenSendThrows
  <2>3. TypeOK'
    BY <2>1, <2>2 DEF TypeOK, Places
  <2>4. HandOff'
    BY <2>1, <2>2 DEF HandOff, Awake, TypeOK, Busy
  <2>5. Awake'
    BY <2>1, <2>2 DEF HandOff, Awake, Offered, Busy
  <2>6. Offered'
    BY <2>1, <2>2 DEF Offered, HandOff, TypeOK
  <2> QED
    BY <2>3, <2>4, <2>5, <2>6
<1>6. ASSUME NEW t \in Threads, WokenOfferWaits(t) PROVE TypeOK' /\ HandOff' /\ Awake' /\ Offered'
  <2>1. pc' \in [Threads -> Places] /\ pc'[t] = "offering" /\ \A u \in Threads \ {t} : pc'[u] = pc[u]
    BY <1>6, GotoMoves DEF WokenOfferWaits, Wakened, Places
  <2>2. pc[t] = "offer_woken" /\ ~closed_ /\ x_ # None
        /\ UNCHANGED <<x_, ongoing_, closed_, taken, arg>>
    BY <1>6 DEF WokenOfferWaits
  <2>3. TypeOK'
    BY <2>1, <2>2 DEF TypeOK, Places
  <2>4. HandOff'
    BY <2>1, <2>2 DEF HandOff, Awake, TypeOK, Busy
  <2>5. Awake'
    BY <2>1, <2>2 DEF HandOff, Awake, Offered, Busy
  <2>6. Offered'
    BY <2>1, <2>2 DEF Offered, HandOff, TypeOK
  <2> QED
    BY <2>3, <2>4, <2>5, <2>6
<1>7. ASSUME NEW t \in Threads, SendReturns(t) PROVE TypeOK' /\ HandOff' /\ Awake' /\ Offered'
  <2>1. /\ pc' \in [Threads -> Places] /\ pc'[t] = "idle"
        /\ \/ /\ \A u \in Threads : pc[u] # "send_wait"
              /\ \A u \in Threads \ {t} : pc'[u] = pc[u]
           \/ \E w \in Threads \ {t} :
                /\ pc[w] = "send_wait" /\ pc'[w] = "send_woken"
                /\ \A u \in Threads \ {t, w} : pc'[u] = pc[u]
    BY <1>7, NotifyOneMoves DEF SendReturns, Wakened, Places
  <2>2. pc[t] = "offer_woken" /\ (closed_ \/ x_ = None) /\ ongoing_' = FALSE
        /\ UNCHANGED <<x_, closed_, taken, arg>>
    BY <1>7 DEF SendReturns
  <2>3. TypeOK'
    BY <2>1, <2>2 DEF TypeOK, Places
  <2>4. HandOff'
    BY <2>1, <2>2 DEF HandOff, Awake, TypeOK, Busy
  <2>5. Awake'
    BY <2>1, <2>2 DEF HandOff, Awake, Offered, Busy
  <2>6. Offered'
    BY <2>1, <2>2 DEF Offered, HandOff, TypeOK
  <2> QED
    BY <2>3, <2>4, <2>5, <2>6
<1>8. ASSUME NEW t \in Threads, RecvWaits(t), ongoing_ PROVE TypeOK' /\ HandOff' /\ Awake' /\ Offered'
  <2>1. pc' \in [Threads -> Places] /\ pc'[t] = "recv_wait" /\ \A u \in Threads \ {t} : pc'[u] = pc[u]
    BY <1>8, GotoMoves DEF RecvWaits, Wakened, Places
  <2>2. pc[t] = "idle" /\ ~closed_ /\ x_ = None
        /\ UNCHANGED <<x_, ongoing_, closed_, taken, arg>>
    BY <1>8 DEF RecvWaits
  <2>3. TypeOK'
    BY <2>1, <2>2 DEF TypeOK, Places
  <2>4. HandOff'
    BY <2>1, <2>2 DEF HandOff, Awake, TypeOK, Busy
  <2>5. Awake'
    BY <2>1, <2>2 DEF HandOff, Awake, Offered, Busy
  <2>6. Offered'
    BY <2>1, <2>2 DEF Offered, HandOff, TypeOK
  <2> QED
    BY <2>3, <2>4, <2>5, <2>6
<1>9. ASSUME NEW t \in Threads, RecvWaits(t), ~ongoing_ PROVE TypeOK' /\ HandOff' /\ Awake' /\ Offered'
  <2>1. /\ pc' \in [Threads -> Places] /\ pc'[t] = "recv_wait"
        /\ \/ /\ \A u \in Threads : pc[u] # "send_wait"
              /\ \A u \in Threads \ {t} : pc'[u] = pc[u]
           \/ \E w \in Threads \ {t} :
                /\ pc[w] = "send_wait" /\ pc'[w] = "send_woken"
                /\ \A u \in Threads \ {t, w} : pc'[u] = pc[u]
    BY <1>9, NotifyOneMoves DEF RecvWaits, Wakened, Places
  <2>2. pc[t] = "idle" /\ ~closed_ /\ x_ = None
        /\ UNCHANGED <<x_, ongoing_, closed_, taken, arg>>
    BY <1>9 DEF RecvWaits
  <2>3. TypeOK'
    BY <2>1, <2>2 DEF TypeOK, Places
  <2>4. HandOff'
    BY <2>1, <2>2 DEF HandOff, Awake, TypeOK, Busy
  <2>5. Awake'
    BY <2>1, <2>2 DEF HandOff, Awake, Offered, Busy
  <2>6. Offered'
    BY <2>1, <2>2 DEF Offered, HandOff, TypeOK
  <2> QED
    BY <2>3, <2>4, <2>5, <2>6
<1>10. ASSUME NEW t \in Threads, WokenRecvTakes(t) PROVE TypeOK' /\ HandOff' /\ Awake' /\ Offered'
  <2>1. /\ pc' \in [Threads -> Places] /\ pc'[t] = "idle"
        /\ \/ /\ \A u \in Threads : pc[u] # "offering"
              /\ \A u \in Threads \ {t} : pc'[u] = pc[u]
           \/ \E w \in Threads \ {t} :
                /\ pc[w] = "offering" /\ pc'[w] = "offer_woken"
                /\ \A u \in Threads \ {t, w} : pc'[u] = pc[u]
    BY <1>10, NotifyOneMoves DEF WokenRecvTakes, Take, Wakened, Places
  <2>2. pc[t] = "recv_woken" /\ x_ # None /\ x_' = None /\ taken' = x_
        /\ UNCHANGED <<ongoing_, closed_, arg>>
    BY <1>10 DEF WokenRecvTakes, Take
  <2>3. TypeOK'
    BY <2>1, <2>2 DEF TypeOK, Places
  <2>4. HandOff'
    BY <2>1, <2>2 DEF HandOff, Awake, TypeOK, Busy
  <2>5. Awake'
    <3>1. \A u \in Threads : pc'[u] = "send_wait" /\ (closed_' \/ ~Busy') =>
             \E w \in Threads : pc'[w] \in {"send_woken", "offer_woken"}
      BY <2>1, <2>2 DEF Awake, Offered, Busy
    <3>2. ASSUME NEW u \in Threads, pc'[u] = "recv_wait", closed_' \/ x_' # None
          PROVE  \E w \in Threads : pc'[w] = "recv_woken"
      <4>1. pc[u] = "recv_wait" /\ closed_
        BY <2>1, <2>2, <3>2
      <4>2. PICK w \in Threads \ {t} : pc[w] = "recv_woken"
        BY <2>2, <4>1 DEF Offered
      <4> QED
        BY <2>1, <4>2
    <3>3. \A u \in Threads : pc'[u] = "offering" => x_' # None /\ ~closed_'
      BY <2>1, <2>2 DEF HandOff
    <3> QED
      BY <3>1, <3>2, <3>3 DEF Awake
  <2>6. Offered'
    BY <2>1, <2>2 DEF Offered, HandOff, TypeOK
  <2> QED
    BY <2>3, <2>4, <2>5, <2>6
<1>11. ASSUME NEW t \in Threads, WokenRecvWaits(t) PROVE TypeOK' /\ HandOff' /\ Awake' /\ Offered'
  <2>1. pc' \in [Threads -> Places] /\ pc'[t] = "recv_wait" /\ \A u \in Threads \ {t} : pc'[u] = pc[u]
    BY <1>11, GotoMoves DEF WokenRecvWaits, Wakened, Places
  <2>2. pc[t] = "recv_woken" /\ ~closed_ /\ x_ = None
        /\ UNCHANGED <<x_, ongoing_, closed_, taken, arg>>
    BY <1>11 DEF WokenRecvWaits
  <2>3. TypeOK'
    BY <2>1, <2>2 DEF TypeOK, Places
  <2>4. HandOff'
    BY <2>1, <2>2 DEF HandOff, Awake, TypeOK, Busy
  <2>5. Awake'
    BY <2>1, <2>2 DEF HandOff, Awake, Offered, Busy
  <2>6. Offered'
    BY <2>1, <2>2 DEF Offered, HandOff, TypeOK
  <2> QED
    BY <2>3, <2>4, <2>5, <2>6
<1>12. ASSUME NEW t \in Threads, WokenRecvEnds(t) PROVE TypeOK' /\ HandOff' /\ Awake' /\ Offered'
  <2>1. /\ pc' \in [Threads -> Places] /\ pc'[t] = "idle"
        /\ \/ /\ \A u \in Threads : pc[u] # "recv_wait"
              /\ \A u \in Threads \ {t} : pc'[u] = pc[u]
           \/ \E w \in Threads \ {t} :
                /\ pc[w] = "recv_wait" /\ pc'[w] = "recv_woken"
                /\ \A u \in Threads \ {t, w} : pc'[u] = pc[u]
    BY <1>12, NotifyOneMoves DEF WokenRecvEnds, Wakened, Places
  <2>2. pc[t] = "recv_woken" /\ closed_ /\ x_ = None
        /\ UNCHANGED <<x_, ongoing_, closed_, taken, arg>>
    BY <1>12 DEF WokenRecvEnds
  <2>3. TypeOK'
    BY <2>1, <2>2 DEF TypeOK, Places
  <2>4. HandOff'
    BY <2>1, <2>2 DEF HandOff, Awake, TypeOK, Busy
  <2>5. Awake'
    BY <2>1, <2>2 DEF HandOff, Awake, Offered, Busy
  <2>6. Offered'
    BY <2>1, <2>2 DEF Offered, HandOff, TypeOK
  <2> QED
    BY <2>3, <2>4, <2>5, <2>6
<1>13. ASSUME NEW t \in Threads, RecvTakes(t) PROVE TypeOK' /\ HandOff' /\ Awake' /\ Offered'
  <2>1. TakeMoves(t)
    BY <1>13, RecvTakesMoves
  <2>2. /\ pc[t] = "idle" /\ x_ # None /\ x_' = None /\ taken' = x_
        /\ UNCHANGED <<ongoing_, closed_, arg>>
    BY <1>13 DEF RecvTakes, Take
  <2>3. TypeOK'
    BY <2>1, <2>2 DEF TypeOK, Places, TakeMoves
  <2>4. HandOff'
    BY <2>1, <2>2 DEF TakeMoves, HandOff
  <2>5. Awake'
    BY <2>1, <2>2 DEF TakeMoves, HandOff, Awake, Offered, Busy
  <2>6. Offered'
    BY <2>1, <2>2 DEF TakeMoves, Offered
  <2> QED
    BY <2>3, <2>4, <2>5, <2>6
<1>14. ASSUME Close PROVE TypeOK' /\ HandOff' /\ Awake' /\ Offered'
  <2>1. PICK S \in SUBSET At({"send_wait", "recv_wait", "offering"}) :
          /\ \A from \in {"send_wait", "recv_wait", "offering"} :
               Cardinality(S \intersect At({from})) = IF At({from}) = {} THEN 0 ELSE 1
          /\ pc' = [u \in Threads |-> IF u \in S THEN Wakened(pc[u]) ELSE pc[u]]
    BY <1>14 DEF Close
  <2>2. ASSUME NEW from \in {"send_wait", "recv_wait", "offering"}, At({from}) # {}
        PROVE  \E w \in At({from}) : w \in S
    <3>1. Cardinality(S \intersect At({from})) = 1
      BY <2>1, <2>2
    <3>2. S \intersect At({from}) # {}
      BY <3>1, FS_EmptySet
    <3> QED
      BY <3>2
  <2>3. \A u \in Threads :
          \/ u \notin S /\ pc'[u] = pc[u]
          \/ u \in S /\ pc[u] = "send_wait" /\ pc'[u] = "send_woken"
          \/ u \in S /\ pc[u] = "recv_wait" /\ pc'[u] = "recv_woken"
          \/ u \in S /\ pc[u] = "offering" /\ pc'[u] = "offer_woken"
    BY <2>1 DEF At, Wakened
  <2>4. /\ (\E u \in Threads : pc[u] = "send_wait") =>
              \E w \in Threads : pc[w] = "send_wait" /\ pc'[w] = "send_woken"
        /\ (\E u \in Threads : pc[u] = "recv_wait") =>
              \E w \in Threads : pc[w] = "recv_wait" /\ pc'[w] = "recv_woken"
        /\ (\E u \in Threads : pc[u] = "offering") =>
              \E w \in Threads : pc[w] = "offering" /\ pc'[w] = "offer_woken"
    BY <2>2, <2>3 DEF At
  <2>5. pc' \in [Threads -> Places]
    BY <2>1, <2>3 DEF Places
  <2>6. closed_' = TRUE /\ UNCHANGED <<x_, ongoing_, arg, taken>>
    BY <1>14 DEF Close
  <2>7. TypeOK'
    BY <2>5, <2>6 DEF TypeOK, Places
  <2>8. HandOff'
    BY <2>3, <2>6 DEF HandOff
  <2>9. Awake'
    BY <2>3, <2>4, <2>6 DEF HandOff, Awake
  <2>10. Offered'
    <3>1. /\ x_' # None /\ ~closed_' => ongoing_'
          /\ \A u \in Threads : pc'[u] \in {"send_wait", "send_woken"} => arg'[u] \in Values
      BY <2>3, <2>6 DEF Offered
    <3>2. ASSUME NEW u \in Threads, pc'[u] = "recv_wait", x_' # None
          PROVE  \E v, w \in Threads : v # w /\ pc'[v] = "recv_woken" /\ pc'[w] = "recv_woken"
      <4>1. pc[u] = "recv_wait" /\ x_ # None
        BY <2>3, <2>6, <3>2
      <4>2. PICK v \in Threads : pc[v] = "recv_woken"
        BY <4>1 DEF Awake
      <4>3. PICK w \in Threads : pc[w] = "recv_wait" /\ pc'[w] = "recv_woken"
        BY <2>4, <4>1
      <4>4. pc'[v] = "recv_woken" /\ v # w
        BY <2>3, <4>2, <4>3
      <4> QED
        BY <4>3, <4>4
    <3> QED
      BY <3>1, <3>2 DEF Offered
  <2> QED
    BY <2>7, <2>8, <2>9, <2>10
<1>15. ASSUME NEW t \in Threads, SpuriousWakeup(t) PROVE TypeOK' /\ HandOff' /\ Awake' /\ Offered'
  <2>1. /\ pc' \in [Threads -> Places]
        /\ \A u \in Threads \ {t} : pc'[u] = pc[u]
        /\ \/ pc[t] = "send_wait" /\ pc'[t] = "send_woken"
           \/ pc[t] = "recv_wait" /\ pc'[t] = "recv_woken"
           \/ pc[t] = "offering" /\ pc'[t] = "offer_woken"
    BY <1>15 DEF SpuriousWakeup, Goto, At, Wakened, Places
  <2>2. UNCHANGED <<x_, ongoing_, closed_, arg, taken>>
    BY <1>15 DEF SpuriousWakeup
  <2>3. TypeOK'
    BY <2>1, <2>2 DEF TypeOK, Places
  <2>4. HandOff'
    BY <2>1, <2>2 DEF HandOff
  <2>5. Awake'
    BY <2>1, <2>2 DEF Awake, Busy
  <2>6. Offered'
    BY <2>1, <2>2 DEF Offered
  <2> QED
    BY <2>3, <2>4, <2>5, <2>6
<1>16. ASSUME UNCHANGED vars PROVE TypeOK' /\ HandOff' /\ Awake' /\ Offered'
  BY <1>16 DEF vars, TypeOK, HandOff, Awake, Offered, Busy
<1> QED
  BY <1>1, <1>2, <1>3, <1>4, <1>5, <1>6, <1>7, <1>8, <1>9, <1>10, <1>11, <1>12, <1>13,
     <1>14, <1>15, <1>16
  DEF Next, SendStarts, SendGoesOn, RecvStarts, RecvGoesOn

(* The invariant holds in every reachable state.                           *)
LEMMA ChannelInvariant == Spec => []Inv
<1>1. Inv /\ [Next]_vars => Inv'
  BY NextInv
<1> QED
  BY InitInv, <1>1, PTL DEF Spec

-----------------------------------------------------------------------------
(* For all threads and values: every value is of its type; in particular a *)
(* Recv never returns an empty x_.                                         *)
THEOREM UnbufferedTypeCorrect == Spec => []TypeOK
<1>1. Inv => TypeOK
  BY DEF Inv
<1> QED
  BY <1>1, ChannelInvariant, PTL

(* For all threads and values: ongoing_ marks the one hand-off there is.   *)
THEOREM UnbufferedOneHandOff == Spec => []OneHandOff
<1>1. Inv => OneHandOff
  BY DEF Inv
<1> QED
  BY <1>1, ChannelInvariant, PTL

(* For all threads and values: no wakeup is lost, before a close or after. *)
THEOREM UnbufferedLosesNoWakeup == Spec => []NobodySleepsOverWork
<1>1. Inv => NobodySleepsOverWork
  BY DEF Inv
<1> QED
  BY <1>1, ChannelInvariant, PTL

(* For all threads and values: each step of the channel is a step of the   *)
(* rendezvous, is invisible to it, or is one of the two steps that a close *)
(* makes possible when it finds a value on offer.                          *)
THEOREM UnbufferedRefines == Spec => RendezvousUnlessLeft
<1>1. Init => Abstract!Init
  BY DEF Init, Abstract!Init, Senders, At
<1>2. ASSUME Inv, [Next]_vars
      PROVE  [Abstract!Next \/ LeavesItsValue \/ TakesLeftValue]_(Abstract!vars)
  <2>0. TypeOK /\ HandOff /\ Awake /\ Offered /\ pc \in [Threads -> Places]
    BY <1>2, ThreadByThread DEF Inv, TypeOK, Places
  <2> USE <2>0
  <2>1. ASSUME NEW t \in Threads, NEW v \in Values, ~Busy, ~closed_, pc[t] \in {"idle", "send_woken"},
               Offer(t, v)
        PROVE  Abstract!Offer(t, v)
    <3>1. Senders = {} /\ x_ = None
      BY <2>1 DEF HandOff, Busy, Senders, At
    <3>2. /\ pc' \in [Threads -> Places] /\ pc'[t] = "offering"
          /\ \A u \in Threads \ {t} :
               pc'[u] = pc[u] \/ (pc[u] = "recv_wait" /\ pc'[u] = "recv_woken")
      <4>1. NotifyOne(t, "offering", "recv_wait") /\ pc[t] # "recv_wait"
        BY <2>1 DEF Offer
      <4> QED
        BY <4>1, NotifyOneMoves DEF Wakened, Places
    <3>3. Senders' = {t}
      BY <3>1, <3>2 DEF Senders, At
    <3> QED
      BY <2>1, <3>1, <3>3 DEF Offer, Abstract!Offer
  <2>2. ASSUME NEW t \in Threads, NEW v \in Values, SendOffers(t, v) PROVE Abstract!Next
    BY <2>1, <2>2 DEF SendOffers, Abstract!Next
  <2>3. ASSUME NEW t \in Threads, WokenSendOffers(t) PROVE Abstract!Next
    <3>1. arg[t] \in Values
      BY <2>3 DEF WokenSendOffers, Offered
    <3> QED
      BY <2>1, <2>3, <3>1 DEF WokenSendOffers, Abstract!Next
  <2>4. ASSUME NEW t \in Threads, SendReturns(t) PROVE Abstract!Next \/ LeavesItsValue
    <3>1. /\ pc' \in [Threads -> Places] /\ pc'[t] = "idle" /\ pc[t] = "offer_woken"
          /\ \A u \in Threads \ {t} :
               pc'[u] = pc[u] \/ (pc[u] = "send_wait" /\ pc'[u] = "send_woken")
      <4>1. NotifyOne(t, "idle", "send_wait") /\ pc[t] = "offer_woken"
        BY <2>4 DEF SendReturns
      <4> QED
        BY <4>1, NotifyOneMoves DEF Wakened, Places
    <3>2. Senders' = Senders \ {t} /\ t \in Senders
      BY <3>1 DEF Senders, At
    <3>3. CASE x_ = None
      BY <2>4, <3>2, <3>3 DEF SendReturns, Abstract!Finish, Abstract!Next
    <3>4. CASE x_ # None
      BY <2>4, <3>2, <3>4 DEF SendReturns, LeavesItsValue
    <3> QED
      BY <3>3, <3>4
  <2>5. ASSUME NEW t \in Threads, RecvTakes(t) \/ WokenRecvTakes(t)
        PROVE  Abstract!Next \/ TakesLeftValue
    <3>1. x_ # None /\ x_' = None /\ taken' = x_ /\ closed_' = closed_
      BY <2>5 DEF RecvTakes, WokenRecvTakes, Take
    <3>2. Senders' = Senders
      <4>1. CASE WokenRecvTakes(t)
        <5>1. /\ pc' \in [Threads -> Places] /\ pc'[t] = "idle" /\ pc[t] = "recv_woken"
              /\ \A u \in Threads \ {t} :
                   pc'[u] = pc[u] \/ (pc[u] = "offering" /\ pc'[u] = "offer_woken")
          <6>1. NotifyOne(t, "idle", "offering") /\ pc[t] = "recv_woken"
            BY <4>1 DEF WokenRecvTakes, Take
          <6> QED
            BY <6>1, NotifyOneMoves DEF Wakened, Places
        <5> QED
          BY <5>1 DEF Senders, At
      <4>2. CASE RecvTakes(t)
        <5>1. TakeMoves(t) /\ pc[t] = "idle"
          BY <4>2, RecvTakesMoves DEF RecvTakes
        <5> QED
          BY <5>1 DEF TakeMoves, Senders, At
      <4> QED
        BY <2>5, <4>1, <4>2
    <3>3. CASE Senders # {}
      BY <3>1, <3>2, <3>3 DEF Abstract!Take, Abstract!Next
    <3>4. CASE Senders = {}
      <4>1. closed_ = TRUE
        BY <3>1, <3>4 DEF Offered, HandOff, Senders, At, TypeOK
      <4> QED
        BY <3>1, <3>2, <3>4, <4>1 DEF TakesLeftValue
    <3> QED
      BY <3>3, <3>4
  <2>6. ASSUME Close PROVE Abstract!Next
    <3>1. PICK S \in SUBSET At({"send_wait", "recv_wait", "offering"}) :
            pc' = [u \in Threads |-> IF u \in S THEN Wakened(pc[u]) ELSE pc[u]]
      BY <2>6 DEF Close
    <3>2. Senders' = Senders
      BY <3>1 DEF Senders, At, Wakened
    <3> QED
      BY <2>6, <3>2 DEF Close, Abstract!Close, Abstract!Next
  <2>7. ASSUME NEW t \in Threads,
               \/ \E v \in Values : SendWaits(t, v)
               \/ WokenSendWaits(t) \/ WokenOfferWaits(t) \/ WokenRecvWaits(t)
               \/ RecvWaits(t) \/ WokenSendThrows(t) \/ WokenRecvEnds(t)
               \/ SpuriousWakeup(t)
        PROVE  UNCHANGED Abstract!vars
    <3>1. UNCHANGED <<x_, closed_, taken>>
      BY <2>7 DEF SendWaits, WokenSendWaits, WokenOfferWaits, WokenRecvWaits, RecvWaits,
                  WokenSendThrows, WokenRecvEnds, SpuriousWakeup
    <3> SUFFICES Senders' = Senders
      BY <3>1 DEF Abstract!vars
    <3>2. CASE (\E v \in Values : SendWaits(t, v)) \/ WokenSendWaits(t) \/ WokenOfferWaits(t)
               \/ WokenRecvWaits(t) \/ SpuriousWakeup(t)
      BY <3>2 DEF SendWaits, WokenSendWaits, WokenOfferWaits, WokenRecvWaits,
                  SpuriousWakeup, Goto, Wakened, Senders, At
    <3>3. CASE RecvWaits(t) \/ WokenSendThrows(t) \/ WokenRecvEnds(t)
      <4>1. /\ pc' \in [Threads -> Places] /\ pc'[t] \in {"idle", "recv_wait"}
            /\ pc[t] \in {"idle", "send_woken", "recv_woken"}
            /\ \A u \in Threads \ {t} :
                 \/ pc'[u] = pc[u]
                 \/ pc[u] = "send_wait" /\ pc'[u] = "send_woken"
                 \/ pc[u] = "recv_wait" /\ pc'[u] = "recv_woken"
        <5>1. CASE RecvWaits(t) /\ ongoing_
          BY <5>1, GotoMoves DEF RecvWaits, Places
        <5>2. CASE RecvWaits(t) /\ ~ongoing_
          BY <5>2, NotifyOneMoves DEF RecvWaits, Places, Wakened
        <5>3. CASE WokenSendThrows(t)
          BY <5>3, NotifyOneMoves DEF WokenSendThrows, Places, Wakened
        <5>4. CASE WokenRecvEnds(t)
          BY <5>4, NotifyOneMoves DEF WokenRecvEnds, Places, Wakened
        <5> QED
          BY <3>3, <5>1, <5>2, <5>3, <5>4
      <4> QED
        BY <4>1 DEF Senders, At
    <3> QED
      BY <2>7, <3>2, <3>3
  <2>8. ASSUME UNCHANGED vars PROVE UNCHANGED Abstract!vars
    BY <2>8 DEF vars, Abstract!vars, Senders, At
  <2> QED
    BY <1>2, <2>2, <2>3, <2>4, <2>5, <2>6, <2>7, <2>8
    DEF Next, SendStarts, SendGoesOn, RecvStarts, RecvGoesOn
<1> QED
  BY <1>1, <1>2, ChannelInvariant, PTL DEF Spec, RendezvousUnlessLeft
=============================================================================
