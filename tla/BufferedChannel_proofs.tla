----------------------- MODULE BufferedChannel_proofs -----------------------
(***************************************************************************)
(* The channel counts its callers, loses no wakeup, leaves nothing behind  *)
(* and implements the bounded FIFO queue, for every finite set of threads, *)
(* every set of values and every capacity.  The inductive invariant says   *)
(* in addition where end_ is, that the used cells of the ring hold values, *)
(* and that a sender has a value.                                          *)
(***************************************************************************)
EXTENDS BufferedChannel, SequenceTheorems, FiniteSetTheorems, TLAPS

Sending == {"counted", "send_wait", "send_woken"}
Receiving == {"recv_wait", "recv_woken"}
Places == {"idle", "checked", "counted", "send_wait", "send_woken",
           "recv_wait", "recv_woken"}

RingOK ==
  /\ end_ = Cell(size_ + 1)
  /\ \A i \in 1 .. size_ : data_[Cell(i)] \in Values
  /\ \A t \in Threads : pc[t] \in Sending \union {"checked"} => arg[t] \in Values

Inv == TypeOK /\ CallersCounted /\ NobodySleepsOverWork /\ RingOK

-----------------------------------------------------------------------------
(* Any group of threads can be counted.                                    *)
LEMMA GroupsAreFinite ==
  ASSUME NEW P
  PROVE  IsFiniteSet(At(P)) /\ Waiting(P) \in Nat
BY ChannelAssumption, FS_Subset, FS_CardinalityType DEF At, Waiting

(* What a critical section of t does to the places: t moves, others are at *)
(* most woken.                                                             *)
Moves(t, there) ==
  /\ pc' \in [Threads -> Places]
  /\ pc'[t] = there
  /\ \A u \in Threads \ {t} :
       \/ pc'[u] = pc[u]
       \/ pc[u] = "send_wait" /\ pc'[u] = "send_woken"
       \/ pc[u] = "recv_wait" /\ pc'[u] = "recv_woken"

(* A step that notifies nobody moves t alone.                              *)
LEMMA GotoMoves ==
  ASSUME pc \in [Threads -> Places], NEW t \in Threads, NEW there \in Places,
         Goto(t, there)
  PROVE  /\ Moves(t, there)
         /\ \A u \in Threads \ {t} : pc'[u] = pc[u]
BY DEF Goto, Moves

(* notify_one moves t, and one sleeper at most, out of its sleep.          *)
LEMMA NotifyOneMoves ==
  ASSUME pc \in [Threads -> Places], NEW t \in Threads, NEW there \in Places,
         pc[t] # "send_wait", there \notin {"send_wait", "send_woken"},
         pc[t] # "send_woken", NotifyOneSender(t, there)
  PROVE  /\ Moves(t, there)
         /\ \A u \in Threads \ {t} : pc'[u] = "recv_wait" => pc[u] = "recv_wait"
         /\ SendersAsleep' \subseteq SendersAsleep
         /\ \/ SendersAsleep' = {} /\ At({"send_woken"})' = At({"send_woken"})
            \/ \E w \in Threads \ At({"send_woken"}) :
                 At({"send_woken"})' = At({"send_woken"}) \union {w}
<1>1. CASE SendersAsleep = {}
  <2>1. Goto(t, there)
    BY <1>1 DEF NotifyOneSender
  <2> QED
    BY <1>1, <2>1 DEF Goto, Moves, SendersAsleep, At, Places
<1>2. CASE SendersAsleep # {}
  <2>1. PICK w \in SendersAsleep : pc' = [pc EXCEPT ![t] = there, ![w] = "send_woken"]
    BY <1>2 DEF NotifyOneSender
  <2>2. w \in Threads /\ pc[w] = "send_wait" /\ w # t
    BY <2>1 DEF SendersAsleep, At
  <2>3. Moves(t, there)
    BY <2>1, <2>2 DEF Moves, Places
  <2>4. /\ SendersAsleep' \subseteq SendersAsleep
        /\ w \notin At({"send_woken"})
        /\ At({"send_woken"})' = At({"send_woken"}) \union {w}
    BY <2>1, <2>2 DEF SendersAsleep, At, Places
  <2>5. \A u \in Threads \ {t} : pc'[u] = "recv_wait" => pc[u] = "recv_wait"
    BY <2>1, <2>2
  <2> QED
    BY <2>2, <2>3, <2>4, <2>5
<1> QED
  BY <1>1, <1>2

(* notify_all moves t and every sleeping receiver.                         *)
LEMMA NotifyReceiversMoves ==
  ASSUME pc \in [Threads -> Places], NEW t \in Threads,
         NotifyReceivers(t, "idle")
  PROVE  /\ Moves(t, "idle")
         /\ ReceiversAsleep' = {}
         /\ SendersAsleep' \subseteq SendersAsleep
         /\ At({"send_woken"})' = At({"send_woken"}) \ {t}
BY DEF NotifyReceivers, Moves, ReceiversAsleep, SendersAsleep, At, Places

(* The counted groups change by t alone. *)
LEMMA MovesCounted ==
  ASSUME pc \in [Threads -> Places], NEW t \in Threads, NEW there \in Places,
         Moves(t, there), NEW P \in {Sending, Receiving}
  PROVE  /\ pc[t] \in P /\ there \in P => Waiting(P)' = Waiting(P)
         /\ pc[t] \notin P /\ there \notin P => Waiting(P)' = Waiting(P)
         /\ pc[t] \notin P /\ there \in P => Waiting(P)' = Waiting(P) + 1
         /\ pc[t] \in P /\ there \notin P => Waiting(P)' = Waiting(P) - 1 /\ Waiting(P) > 0
<1>1. /\ there \in P => At(P)' = At(P) \union {t}
      /\ there \notin P => At(P)' = At(P) \ {t}
      /\ t \in At(P) <=> pc[t] \in P
  BY DEF Moves, At, Sending, Receiving, Places
<1>2. CASE pc[t] \in P /\ there \in P
  <2>1. At(P)' = At(P)
    BY <1>1, <1>2
  <2> QED
    BY <1>2, <2>1 DEF Waiting
<1>3. CASE pc[t] \notin P /\ there \notin P
  <2>1. At(P)' = At(P)
    BY <1>1, <1>3
  <2> QED
    BY <1>3, <2>1 DEF Waiting
<1>4. CASE pc[t] \notin P /\ there \in P
  <2>1. At(P)' = At(P) \union {t} /\ t \notin At(P)
    BY <1>1, <1>4
  <2>2. Cardinality(At(P) \union {t}) = Cardinality(At(P)) + 1
    BY <2>1, GroupsAreFinite, FS_AddElement
  <2> QED
    BY <1>4, <2>1, <2>2 DEF Waiting
<1>5. CASE pc[t] \in P /\ there \notin P
  <2>1. At(P)' = At(P) \ {t} /\ t \in At(P)
    BY <1>1, <1>5
  <2>2. Cardinality(At(P) \ {t}) = Cardinality(At(P)) - 1
    BY <2>1, GroupsAreFinite, FS_RemoveElement
  <2>3. Cardinality(At(P)) # 0 /\ Cardinality(At(P)) \in Nat
    BY <2>1, GroupsAreFinite, FS_EmptySet DEF Waiting
  <2> QED
    BY <1>5, <2>1, <2>2, <2>3 DEF Waiting
<1> QED
  BY <1>2, <1>3, <1>4, <1>5

-----------------------------------------------------------------------------
(* The cells of the ring.                                                  *)
LEMMA Cells ==
  ASSUME TypeOK
  PROVE  /\ \A i \in 1 .. size_ + 1 : Cell(i) \in 0 .. Capacity - 1
         /\ \A i, j \in 1 .. Capacity : Cell(i) = Cell(j) => i = j
         /\ Cell(1) = begin_
BY ChannelAssumption DEF TypeOK, Cell

(* Pushing appends to the queue.                                           *)
LEMMA PushAppends ==
  ASSUME TypeOK, RingOK, size_ # Capacity, NEW v \in Values, Push(v)
  PROVE  /\ Queue' = Append(Queue, v) /\ Queue \in Seq(Values) /\ Len(Queue) = size_
         /\ end_' = Cell(size_ + 1)' /\ end_' \in 0 .. Capacity - 1
         /\ data_' \in [0 .. Capacity - 1 -> Values \union {None}]
         /\ \A i \in 1 .. size_' : data_'[Cell(i)'] \in Values
         /\ size_' \in 0 .. Capacity /\ size_' = size_ + 1 /\ begin_' = begin_
<1>1. /\ size_ \in 0 .. Capacity - 1 /\ size_' = size_ + 1 /\ begin_' = begin_
      /\ size_' \in 0 .. Capacity
  BY ChannelAssumption DEF TypeOK, Push
<1>2. \A i : Cell(i)' = Cell(i)
  BY <1>1 DEF Cell
<1>3. /\ end_' = Cell(size_ + 1)' /\ end_' \in 0 .. Capacity - 1
  BY <1>1, ChannelAssumption DEF TypeOK, RingOK, Push, Around, Cell
<1>4. \A i \in 1 .. size_ : Cell(i) \in 0 .. Capacity - 1 /\ Cell(i) # end_
  BY <1>1, ChannelAssumption DEF TypeOK, RingOK, Cell
<1>5. /\ data_' \in [0 .. Capacity - 1 -> Values \union {None}]
      /\ data_'[end_] = v
      /\ \A i \in 1 .. size_ : data_'[Cell(i)] = data_[Cell(i)]
  BY <1>4 DEF TypeOK, Push
<1>6. \A i \in 1 .. size_' : data_'[Cell(i)'] = IF i <= size_ THEN data_[Cell(i)] ELSE v
  <2> SUFFICES ASSUME NEW i \in 1 .. size_'
               PROVE  data_'[Cell(i)'] = IF i <= size_ THEN data_[Cell(i)] ELSE v
    OBVIOUS
  <2>1. CASE i <= size_
    BY <1>1, <1>2, <1>5, <2>1
  <2>2. CASE i = size_ + 1
    BY <1>1, <1>2, <1>5, <2>2 DEF RingOK
  <2> QED
    BY <1>1, <2>1, <2>2
<1>7. \A i \in 1 .. size_' : data_'[Cell(i)'] \in Values
  BY <1>1, <1>6 DEF RingOK
<1>8. Queue \in Seq(Values) /\ Len(Queue) = size_
  BY <1>1 DEF Queue, RingOK
<1>9. Queue' = Append(Queue, v)
  <2>1. Queue' = [i \in 1 .. size_ + 1 |-> IF i <= size_ THEN data_[Cell(i)] ELSE v]
    BY <1>1, <1>6 DEF Queue
  <2>2. /\ Queue' \in Seq(Values) /\ Len(Queue') = size_ + 1
        /\ \A i \in 1 .. size_ + 1 : Queue'[i] = IF i <= size_ THEN Queue[i] ELSE v
    BY <1>1, <2>1 DEF Queue, RingOK
  <2> HIDE DEF Queue
  <2>3. /\ Append(Queue, v) \in Seq(Values) /\ Len(Append(Queue, v)) = size_ + 1
        /\ \A i \in 1 .. size_ + 1 :
             Append(Queue, v)[i] = IF i <= size_ THEN Queue[i] ELSE v
    BY <1>1, <1>8
  <2> QED
    BY <2>2, <2>3, SeqEqual
<1> QED
  BY <1>1, <1>3, <1>5, <1>7, <1>8, <1>9

(* Popping takes the head of the queue.                                    *)
LEMMA PopTakes ==
  ASSUME TypeOK, RingOK, size_ # 0, Pop
  PROVE  /\ Queue' = Tail(Queue) /\ taken' = Head(Queue) /\ Queue # <<>>
         /\ taken' \in Values
         /\ end_' = Cell(size_ + 1)' /\ begin_' \in 0 .. Capacity - 1
         /\ \A i \in 1 .. size_' : data_'[Cell(i)'] \in Values
         /\ size_' \in 0 .. Capacity /\ size_' = size_ - 1
<1>1. /\ size_ \in 1 .. Capacity /\ size_' = size_ - 1 /\ size_' \in 0 .. Capacity - 1
      /\ begin_' \in 0 .. Capacity - 1 /\ data_' = data_ /\ end_' = end_
  BY ChannelAssumption DEF TypeOK, Pop, Around
<1>2. \A i \in 1 .. size_ : Cell(i)' = Cell(i + 1)
  BY <1>1, ChannelAssumption DEF TypeOK, Pop, Around, Cell
<1>3. end_' = Cell(size_ + 1)'
  BY <1>1, <1>2 DEF RingOK
<1>4. \A i \in 1 .. size_' : data_'[Cell(i)'] = data_[Cell(i + 1)] /\ i + 1 \in 1 .. size_
  BY <1>1, <1>2
<1>5. \A i \in 1 .. size_' : data_'[Cell(i)'] \in Values
  BY <1>4 DEF RingOK
<1>6. Queue \in Seq(Values) /\ Len(Queue) = size_ /\ Queue # <<>>
  <2>1. Queue \in Seq(Values) /\ Len(Queue) = size_
    BY <1>1 DEF Queue, RingOK
  <2> QED
    BY <1>1, <2>1
<1>7. Queue' = Tail(Queue)
  <2>1. Queue' = [i \in 1 .. size_ - 1 |-> data_[Cell(i + 1)]]
    BY <1>1, <1>4 DEF Queue
  <2>2. /\ Queue' \in Seq(Values) /\ Len(Queue') = size_ - 1
        /\ \A i \in 1 .. size_ - 1 : Queue'[i] = Queue[i + 1]
    <3>1. \A i \in 1 .. size_ - 1 : data_[Cell(i + 1)] \in Values /\ i + 1 \in 1 .. size_
      BY <1>1 DEF RingOK
    <3> QED
      BY <1>1, <2>1, <3>1 DEF Queue
  <2>3. /\ Tail(Queue) \in Seq(Values) /\ Len(Tail(Queue)) = size_ - 1
        /\ \A i \in 1 .. size_ - 1 : Tail(Queue)[i] = Queue[i + 1]
    BY <1>6, HeadTailProperties
  <2> QED
    BY <2>2, <2>3, SeqEqual
<1>8. taken' = Head(Queue) /\ taken' \in Values
  <2>1. taken' = data_[Cell(1)]
    BY Cells DEF Pop
  <2>2. Head(Queue) = Queue[1] /\ Queue[1] = data_[Cell(1)]
    BY <1>1, <1>6 DEF Queue
  <2>3. data_[Cell(1)] \in Values
    BY <1>1 DEF RingOK
  <2> QED
    BY <2>1, <2>2, <2>3
<1>9. size_' \in 0 .. Capacity
  BY <1>1, ChannelAssumption
<1> QED
  BY <1>1, <1>3, <1>5, <1>6, <1>7, <1>8, <1>9
-----------------------------------------------------------------------------
(* The empty, open channel satisfies the invariant.                        *)
LEMMA InitInv == Init => Inv
<1> SUFFICES ASSUME Init PROVE Inv
  OBVIOUS
<1>1. \A P \in {Sending, Receiving, {"send_woken"}, {"recv_wait"}, {"send_wait"}} : At(P) = {}
  BY DEF Init, At, Sending, Receiving
<1>2. /\ Waiting(Sending) = 0 /\ Waiting(Receiving) = 0
      /\ SendersAsleep = {} /\ ReceiversAsleep = {}
  BY <1>1, FS_EmptySet DEF Waiting, SendersAsleep, ReceiversAsleep
<1>3. TypeOK
  <2>1. 0 \in 0 .. Capacity - 1 /\ 0 \in 0 .. Capacity
    BY ChannelAssumption
  <2>2. data_ \in [0 .. Capacity - 1 -> Values \union {None}]
    BY DEF Init
  <2> QED
    BY <2>1, <2>2 DEF Init, TypeOK
<1>4. CallersCounted
  BY <1>2 DEF Init, CallersCounted, Sending, Receiving
<1>5. NobodySleepsOverWork
  BY <1>2 DEF Init, NobodySleepsOverWork
<1>6. RingOK
  BY ChannelAssumption DEF Init, RingOK, Cell, Sending
<1> QED
  BY <1>3, <1>4, <1>5, <1>6 DEF Inv

(* What the senders' half of NobodySleepsOverWork needs of a step: there   *)
(* is at most as much more room as there are more woken senders.           *)
RoomKept ==
  \/ SendersAsleep' = {}
  \/ SendersAsleep # {} /\ Capacity - size_' - Waiting({"send_woken"})'
                          <= Capacity - size_ - Waiting({"send_woken"})
  \/ size_' = Capacity

(* If each step pays for the room it leaves, no sender is forgotten.       *)
LEMMA RoomKeptIsEnough ==
  ASSUME TypeOK, NobodySleepsOverWork, RoomKept,
         size_' \in 0 .. Capacity, size_' # 0 => ReceiversAsleep' = {}
  PROVE  NobodySleepsOverWork'
<1>1. /\ Waiting({"send_woken"}) \in Nat /\ Waiting({"send_woken"})' \in Nat
      /\ Capacity \in Nat /\ size_ \in 0 .. Capacity /\ size_' \in 0 .. Capacity
  <2>1. At({"send_woken"})' \subseteq Threads
    BY DEF At
  <2>2. Waiting({"send_woken"})' \in Nat
    BY <2>1, ChannelAssumption, FS_Subset, FS_CardinalityType DEF Waiting
  <2> QED
    BY <2>2, GroupsAreFinite, ChannelAssumption DEF TypeOK
<1>2. ASSUME SendersAsleep' # {} PROVE Capacity - size_' <= Waiting({"send_woken"})'
  <2>1. CASE size_' = Capacity
    BY <1>1, <2>1
  <2>2. CASE /\ SendersAsleep # {}
             /\ Capacity - size_' - Waiting({"send_woken"})'
                  <= Capacity - size_ - Waiting({"send_woken"})
    <3>1. Capacity - size_ <= Waiting({"send_woken"})
      BY <2>2 DEF NobodySleepsOverWork
    <3> QED
      BY <1>1, <2>2, <3>1
  <2> QED
    BY <1>2, <2>1, <2>2 DEF RoomKept
<1> QED
  BY <1>2 DEF NobodySleepsOverWork

(* A wakeup of a sleeping sender pays for the room one value leaves.       *)
LEMMA NotifyKeepsRoom ==
  ASSUME TypeOK, NEW t \in Threads, NEW there \in Places,
         pc[t] # "send_wait", there \notin {"send_wait", "send_woken"},
         pc[t] # "send_woken", NotifyOneSender(t, there),
         size_' \in 0 .. Capacity, size_' >= size_ - 1
  PROVE  RoomKept
<1>1. /\ SendersAsleep' \subseteq SendersAsleep
      /\ \/ SendersAsleep' = {}
         \/ \E w \in Threads \ At({"send_woken"}) :
              At({"send_woken"})' = At({"send_woken"}) \union {w}
  <2>1. pc \in [Threads -> Places]
    BY DEF TypeOK, Places
  <2> QED
    BY <2>1, NotifyOneMoves
<1>2. ASSUME NEW w \in Threads \ At({"send_woken"}),
             At({"send_woken"})' = At({"send_woken"}) \union {w}
      PROVE  Waiting({"send_woken"})' = Waiting({"send_woken"}) + 1
  <2>1. Cardinality(At({"send_woken"}) \union {w}) = Cardinality(At({"send_woken"})) + 1
    BY GroupsAreFinite, FS_AddElement
  <2> QED
    BY <1>2, <2>1 DEF Waiting
<1>3. Waiting({"send_woken"}) \in Nat /\ Capacity \in Nat /\ size_ \in 0 .. Capacity
  BY GroupsAreFinite, ChannelAssumption DEF TypeOK
<1>4. CASE SendersAsleep' = {}
  BY <1>4 DEF RoomKept
<1>5. CASE SendersAsleep' # {}
  <2>1. Waiting({"send_woken"})' = Waiting({"send_woken"}) + 1
    BY <1>1, <1>2, <1>5
  <2>2. SendersAsleep # {}
    BY <1>1, <1>5
  <2>3. Capacity - size_' - Waiting({"send_woken"})'
          <= Capacity - size_ - Waiting({"send_woken"})
    BY <1>3, <2>1
  <2> QED
    BY <2>2, <2>3 DEF RoomKept
<1> QED
  BY <1>4, <1>5

(* The woken senders, when t alone moves. *)
LEMMA WokenAfter ==
  ASSUME pc \in [Threads -> Places], NEW t \in Threads
  PROVE  /\ At({"send_woken"})' = At({"send_woken"}) \ {t} =>
              Waiting({"send_woken"})' >= Waiting({"send_woken"}) - 1
         /\ pc[t] # "send_woken" /\ At({"send_woken"})' = At({"send_woken"}) \ {t} =>
              Waiting({"send_woken"})' = Waiting({"send_woken"})
<1>1. CASE pc[t] # "send_woken"
  <2>1. At({"send_woken"}) \ {t} = At({"send_woken"})
    BY <1>1 DEF At
  <2> QED
    BY <1>1, <2>1, GroupsAreFinite DEF Waiting
<1>2. CASE pc[t] = "send_woken"
  <2>1. t \in At({"send_woken"})
    BY <1>2 DEF At
  <2>2. Cardinality(At({"send_woken"}) \ {t}) = Cardinality(At({"send_woken"})) - 1
    BY <2>1, GroupsAreFinite, FS_RemoveElement
  <2> QED
    BY <1>2, <2>2, GroupsAreFinite DEF Waiting
<1> QED
  BY <1>1, <1>2
-----------------------------------------------------------------------------
(* Steps that leave the buffer alone. *)
LEMMA BufferKept ==
  ASSUME RingOK, UNCHANGED buffer,
         \A u \in Threads : pc'[u] \in Sending \union {"checked"} => arg'[u] \in Values
  PROVE  RingOK'
<1>1. \A i : Cell(i)' = Cell(i)
  BY DEF buffer, Cell
<1> QED
  BY <1>1 DEF RingOK, buffer

(* Every step of Send, Recv and Close keeps the invariant.                 *)
LEMMA NextInv ==
  ASSUME Inv, [Next]_vars
  PROVE  Inv'
<1> USE DEF Inv
<1>0. /\ pc \in [Threads -> Places] /\ size_ \in 0 .. Capacity /\ Capacity \in Nat
      /\ waiting_send_cnt_ = Waiting(Sending) /\ waiting_recv_cnt_ >= Waiting(Receiving)
      /\ ~drained => waiting_recv_cnt_ = Waiting(Receiving)
      /\ waiting_recv_cnt_ \in Nat
      /\ Waiting(Sending) \in Nat /\ Waiting(Receiving) \in Nat
  BY GroupsAreFinite, ChannelAssumption
     DEF TypeOK, CallersCounted, Places, Sending, Receiving
<1>1. ASSUME NEW t \in Threads, NEW v \in Values, SendChecks(t, v) PROVE Inv'
  <2>1. Moves(t, "checked") /\ \A u \in Threads \ {t} : pc'[u] = pc[u]
    BY <1>0, <1>1, GotoMoves DEF SendChecks, Places
  <2>2. CallersCounted'
    <3>1. Waiting(Sending)' = Waiting(Sending) /\ Waiting(Receiving)' = Waiting(Receiving)
      BY <1>0, <1>1, <2>1, MovesCounted DEF SendChecks, Sending, Receiving, Places
    <3> QED
      BY <1>0, <1>1, <3>1 DEF CallersCounted, SendChecks, Sending, Receiving, history
  <2>3. NobodySleepsOverWork'
    <3>1. /\ SendersAsleep' = SendersAsleep /\ ReceiversAsleep' = ReceiversAsleep
          /\ At({"send_woken"})' = At({"send_woken"})
      BY <1>0, <1>1, <2>1 DEF Moves, SendChecks, SendersAsleep, ReceiversAsleep, At
    <3> QED
      BY <1>1, <3>1 DEF SendChecks, buffer, NobodySleepsOverWork, Waiting
  <2>4. RingOK'
    <3>1. UNCHANGED buffer /\ arg' = [arg EXCEPT ![t] = v] /\ arg \in [Threads -> Values \union {None}]
      BY <1>1 DEF SendChecks, TypeOK
    <3>2. \A u \in Threads : pc'[u] \in Sending \union {"checked"} => arg'[u] \in Values
      BY <2>1, <3>1 DEF RingOK
    <3> QED
      BY <3>1, <3>2, BufferKept
  <2>5. TypeOK'
    BY <1>1, <2>1 DEF SendChecks, TypeOK, buffer, history, Moves, Places
  <2> QED
    BY <2>2, <2>3, <2>4, <2>5
<1>2. ASSUME NEW t \in Threads, SendCounts(t) PROVE Inv'
  <2>1. Moves(t, "counted") /\ \A u \in Threads \ {t} : pc'[u] = pc[u]
    BY <1>0, <1>2, GotoMoves DEF SendCounts, Places
  <2>2. CallersCounted'
    <3>1. Waiting(Sending)' = Waiting(Sending) + 1 /\ Waiting(Receiving)' = Waiting(Receiving)
      BY <1>0, <1>2, <2>1, MovesCounted DEF SendCounts, Sending, Receiving, Places
    <3> QED
      BY <1>0, <1>2, <3>1 DEF CallersCounted, SendCounts, Sending, Receiving
  <2>3. NobodySleepsOverWork'
    <3>1. /\ SendersAsleep' = SendersAsleep /\ ReceiversAsleep' = ReceiversAsleep
          /\ At({"send_woken"})' = At({"send_woken"})
      BY <1>0, <1>2, <2>1 DEF Moves, SendCounts, SendersAsleep, ReceiversAsleep, At
    <3> QED
      BY <1>2, <3>1 DEF SendCounts, buffer, NobodySleepsOverWork, Waiting
  <2>4. RingOK'
    <3>1. UNCHANGED <<buffer, arg>> /\ pc[t] = "checked"
      BY <1>2 DEF SendCounts
    <3>2. \A u \in Threads : pc'[u] \in Sending \union {"checked"} => arg'[u] \in Values
      BY <2>1, <3>1 DEF RingOK
    <3> QED
      BY <3>1, <3>2, BufferKept
  <2>5. TypeOK'
    BY <1>2, <2>1 DEF SendCounts, TypeOK, buffer, Moves, Places
  <2> QED
    BY <2>2, <2>3, <2>4, <2>5
<1>3. ASSUME NEW t \in Threads, SendWaits(t) PROVE Inv'
  <2>1. Moves(t, "send_wait") /\ \A u \in Threads \ {t} : pc'[u] = pc[u]
    BY <1>0, <1>3, GotoMoves DEF SendWaits, Places
  <2>2. CallersCounted'
    <3>1. Waiting(Sending)' = Waiting(Sending) /\ Waiting(Receiving)' = Waiting(Receiving)
      BY <1>0, <1>3, <2>1, MovesCounted DEF SendWaits, Sending, Receiving, Places
    <3> QED
      BY <1>0, <1>3, <3>1 DEF CallersCounted, SendWaits, Sending, Receiving, history
  <2>3. NobodySleepsOverWork'
    <3>1. ReceiversAsleep' = ReceiversAsleep
      BY <1>0, <1>3, <2>1 DEF Moves, SendWaits, ReceiversAsleep, At
    <3>2. size_' = size_ /\ size_ = Capacity
      BY <1>3 DEF SendWaits, buffer
    <3>3. size_' # 0 => ReceiversAsleep' = {}
      BY <3>1, <3>2 DEF NobodySleepsOverWork
    <3>4. RoomKept
      BY <3>2 DEF RoomKept
    <3> QED
      BY <1>0, <3>2, <3>3, <3>4, RoomKeptIsEnough
  <2>4. RingOK'
    <3>1. UNCHANGED <<buffer, arg>> /\ pc[t] \in {"counted", "send_woken"}
      BY <1>3 DEF SendWaits
    <3>2. \A u \in Threads : pc'[u] \in Sending \union {"checked"} => arg'[u] \in Values
      BY <2>1, <3>1 DEF RingOK, Sending
    <3> QED
      BY <3>1, <3>2, BufferKept
  <2>5. TypeOK'
    BY <1>3, <2>1 DEF SendWaits, TypeOK, buffer, history, Moves, Places
  <2> QED
    BY <2>2, <2>3, <2>4, <2>5
<1>4. ASSUME NEW t \in Threads, SendPushes(t) PROVE Inv'
  <2>1. /\ Moves(t, "idle") /\ ReceiversAsleep' = {}
        /\ SendersAsleep' \subseteq SendersAsleep
        /\ At({"send_woken"})' = At({"send_woken"}) \ {t}
    BY <1>0, <1>4, NotifyReceiversMoves DEF SendPushes
  <2>2. /\ size_ # Capacity /\ Push(arg[t]) /\ pc[t] \in {"counted", "send_woken"}
        /\ arg' = [arg EXCEPT ![t] = None] /\ UNCHANGED <<closed_, waiting_recv_cnt_, history>>
        /\ waiting_send_cnt_' = waiting_send_cnt_ - 1
    BY <1>4 DEF SendPushes
  <2>3. arg[t] \in Values
    BY <2>2 DEF RingOK, Sending
  <2>4. /\ end_' = Cell(size_ + 1)' /\ end_' \in 0 .. Capacity - 1
        /\ data_' \in [0 .. Capacity - 1 -> Values \union {None}]
        /\ \A i \in 1 .. size_' : data_'[Cell(i)'] \in Values
        /\ size_' \in 0 .. Capacity /\ size_' = size_ + 1 /\ begin_' = begin_
    BY <2>2, <2>3, PushAppends
  <2>5. CallersCounted' /\ waiting_send_cnt_' \in Nat
    <3>1. /\ Waiting(Sending)' = Waiting(Sending) - 1 /\ Waiting(Sending) > 0
          /\ Waiting(Receiving)' = Waiting(Receiving)
      BY <1>0, <2>1, <2>2, MovesCounted DEF Sending, Receiving, Places
    <3> QED
      BY <1>0, <2>2, <3>1 DEF CallersCounted, Sending, Receiving, history
  <2>6. NobodySleepsOverWork'
    <3>1. Waiting({"send_woken"})' >= Waiting({"send_woken"}) - 1
      BY <1>0, <2>1, WokenAfter
    <3>2. Waiting({"send_woken"}) \in Nat /\ Waiting({"send_woken"})' \in Nat
      <4>1. At({"send_woken"})' \subseteq Threads
        BY DEF At
      <4> QED
        BY <4>1, GroupsAreFinite, ChannelAssumption, FS_Subset, FS_CardinalityType DEF Waiting
    <3>3. Capacity - size_' - Waiting({"send_woken"})' <= Capacity - size_ - Waiting({"send_woken"})
      BY <1>0, <2>4, <3>1, <3>2
    <3>4. RoomKept
      BY <2>1, <3>3 DEF RoomKept
    <3> QED
      BY <2>1, <2>4, <3>4, RoomKeptIsEnough
  <2>7. RingOK'
    <3>1. \A u \in Threads : pc'[u] \in Sending \union {"checked"} => arg'[u] \in Values
      BY <1>0, <2>1, <2>2 DEF RingOK, Moves, Sending, TypeOK
    <3> QED
      BY <2>4, <3>1 DEF RingOK
  <2>8. TypeOK'
    BY <2>1, <2>2, <2>4, <2>5 DEF TypeOK, history, Moves, Places
  <2> QED
    BY <2>5, <2>6, <2>7, <2>8
<1>5. ASSUME NEW t \in Threads, RecvEnds(t) PROVE Inv'
  <2>1. /\ UNCHANGED <<closed_, buffer, waiting_send_cnt_, waiting_recv_cnt_, pc, arg, taken, late>>
        /\ drained'
    BY <1>5 DEF RecvEnds
  <2>2. \A P : At(P)' = At(P) /\ Waiting(P)' = Waiting(P)
    BY <2>1 DEF At, Waiting
  <2>3. RingOK'
    BY <2>1, BufferKept DEF RingOK
  <2>4. CallersCounted'
    BY <2>1, <2>2 DEF CallersCounted
  <2>5. NobodySleepsOverWork'
    BY <2>1, <2>2 DEF NobodySleepsOverWork, SendersAsleep, ReceiversAsleep, buffer
  <2>6. TypeOK'
    BY <1>5 DEF RecvEnds, TypeOK, buffer
  <2> QED
    BY <2>3, <2>4, <2>5, <2>6
<1>6. ASSUME NEW t \in Threads, RecvWaits(t) PROVE Inv'
  <2>1. Moves(t, "recv_wait") /\ \A u \in Threads \ {t} : pc'[u] = pc[u]
    BY <1>0, <1>6, GotoMoves DEF RecvWaits, Places
  <2>2. CallersCounted'
    <3>1. Waiting(Sending)' = Waiting(Sending) /\ Waiting(Receiving)' = Waiting(Receiving) + 1
      BY <1>0, <1>6, <2>1, MovesCounted DEF RecvWaits, Sending, Receiving, Places
    <3> QED
      BY <1>0, <1>6, <3>1 DEF CallersCounted, RecvWaits, Sending, Receiving, history
  <2>3. NobodySleepsOverWork'
    <3>1. /\ SendersAsleep' = SendersAsleep /\ At({"send_woken"})' = At({"send_woken"})
      BY <1>0, <1>6, <2>1 DEF Moves, RecvWaits, SendersAsleep, At
    <3> QED
      BY <1>6, <3>1 DEF RecvWaits, buffer, NobodySleepsOverWork, Waiting
  <2>4. RingOK'
    <3>1. UNCHANGED <<buffer, arg>>
      BY <1>6 DEF RecvWaits
    <3>2. \A u \in Threads : pc'[u] \in Sending \union {"checked"} => arg'[u] \in Values
      BY <2>1, <3>1 DEF RingOK, Moves, Sending
    <3> QED
      BY <3>1, <3>2, BufferKept
  <2>5. TypeOK'
    BY <1>6, <2>1 DEF RecvWaits, TypeOK, buffer, history, Moves, Places
  <2> QED
    BY <2>2, <2>3, <2>4, <2>5
<1>7. ASSUME NEW t \in Threads, RecvTakes(t) \/ WokenTakes(t) PROVE Inv'
  <2>1. /\ size_ # 0 /\ Pop /\ NotifyOneSender(t, "idle")
        /\ UNCHANGED <<closed_, waiting_send_cnt_, arg, drained, late>>
        /\ \/ pc[t] = "idle" /\ waiting_recv_cnt_' = waiting_recv_cnt_
           \/ pc[t] = "recv_woken" /\ waiting_recv_cnt_' = waiting_recv_cnt_ - 1
    BY <1>7 DEF RecvTakes, WokenTakes
  <2>2. /\ Moves(t, "idle")
        /\ \A u \in Threads \ {t} : pc'[u] = "recv_wait" => pc[u] = "recv_wait"
    BY <1>0, <2>1, NotifyOneMoves DEF Places
  <2>3. /\ end_' = Cell(size_ + 1)' /\ begin_' \in 0 .. Capacity - 1
        /\ \A i \in 1 .. size_' : data_'[Cell(i)'] \in Values
        /\ taken' \in Values
        /\ size_' \in 0 .. Capacity /\ size_' = size_ - 1
    BY <2>1, PopTakes
  <2>4. CallersCounted' /\ waiting_recv_cnt_' \in Nat
    <3>1. Waiting(Sending)' = Waiting(Sending)
      BY <1>0, <2>1, <2>2, MovesCounted DEF Sending, Receiving, Places
    <3>2. CASE pc[t] = "idle" /\ waiting_recv_cnt_' = waiting_recv_cnt_
      <4>1. Waiting(Receiving)' = Waiting(Receiving)
        BY <1>0, <3>2, <2>2, MovesCounted DEF Sending, Receiving, Places
      <4> QED
        BY <1>0, <2>1, <3>1, <3>2, <4>1 DEF CallersCounted, Sending, Receiving
    <3>3. CASE pc[t] = "recv_woken" /\ waiting_recv_cnt_' = waiting_recv_cnt_ - 1
      <4>1. Waiting(Receiving)' = Waiting(Receiving) - 1 /\ Waiting(Receiving) > 0
        BY <1>0, <3>3, <2>2, MovesCounted DEF Sending, Receiving, Places
      <4> QED
        BY <1>0, <2>1, <3>1, <3>3, <4>1 DEF CallersCounted, Sending, Receiving
    <3> QED
      BY <2>1, <3>2, <3>3
  <2>5. NobodySleepsOverWork'
    <3>1. ReceiversAsleep' = {}
      BY <2>1, <2>2 DEF NobodySleepsOverWork, ReceiversAsleep, At, Moves
    <3>2. RoomKept
      <4>1. size_' >= size_ - 1
        BY <1>0, <2>3
      <4> QED
        BY <2>1, <2>3, <4>1, NotifyKeepsRoom DEF Places
    <3> QED
      BY <2>3, <3>1, <3>2, RoomKeptIsEnough
  <2>6. RingOK'
    <3>1. \A u \in Threads : pc'[u] \in Sending \union {"checked"} => arg'[u] \in Values
      BY <1>0, <2>1, <2>2 DEF RingOK, Moves, Sending
    <3> QED
      BY <2>3, <3>1 DEF RingOK
  <2>7. TypeOK'
    <3>1. UNCHANGED <<data_, end_>>
      BY <2>1 DEF Pop
    <3> QED
      BY <2>1, <2>2, <2>3, <2>4, <3>1 DEF TypeOK, Moves, Places
  <2> QED
    BY <2>4, <2>5, <2>6, <2>7
<1>8. ASSUME NEW t \in Threads, WokenWaits(t) \/ WokenEnds(t) PROVE Inv'
  <2>1. /\ size_ = 0 /\ pc[t] = "recv_woken" /\ (drained' = drained \/ drained')
        /\ UNCHANGED <<closed_, buffer, waiting_send_cnt_, waiting_recv_cnt_, arg, taken, late>>
        /\ drained' \in BOOLEAN
    BY <1>8 DEF WokenWaits, WokenEnds, history, TypeOK
  <2>2. PICK there \in {"recv_wait", "idle"} :
             Goto(t, there) /\ (there = "idle" => drained')
    BY <1>8 DEF WokenWaits, WokenEnds
  <2>3. Moves(t, there) /\ \A u \in Threads \ {t} : pc'[u] = pc[u]
    BY <1>0, <2>2, GotoMoves DEF Places
  <2>4. CallersCounted'
    <3>1. Waiting(Sending)' = Waiting(Sending)
      BY <1>0, <2>1, <2>3, MovesCounted DEF Sending, Receiving, Places
    <3>2. CASE there = "recv_wait"
      <4>1. Waiting(Receiving)' = Waiting(Receiving)
        BY <1>0, <2>1, <2>3, <3>2, MovesCounted DEF Sending, Receiving, Places
      <4> QED
        BY <1>0, <2>1, <3>1, <4>1 DEF CallersCounted, Sending, Receiving
    <3>3. CASE there = "idle"
      <4>1. Waiting(Receiving)' = Waiting(Receiving) - 1 /\ Waiting(Receiving) > 0
        BY <1>0, <2>1, <2>3, <3>3, MovesCounted DEF Sending, Receiving, Places
      <4> QED
        BY <1>0, <2>1, <2>2, <3>1, <3>3, <4>1 DEF CallersCounted, Sending, Receiving
    <3> QED
      BY <3>2, <3>3
  <2>5. NobodySleepsOverWork'
    <3>1. /\ SendersAsleep' = SendersAsleep /\ At({"send_woken"})' = At({"send_woken"})
      BY <1>0, <2>1, <2>3 DEF Moves, SendersAsleep, At
    <3> QED
      BY <2>1, <3>1 DEF buffer, NobodySleepsOverWork, Waiting
  <2>6. RingOK'
    <3>1. \A u \in Threads : pc'[u] \in Sending \union {"checked"} => arg'[u] \in Values
      BY <2>1, <2>3 DEF RingOK, Moves, Sending
    <3> QED
      BY <2>1, <3>1, BufferKept
  <2>7. TypeOK'
    BY <2>1, <2>3 DEF TypeOK, buffer, Moves, Places
  <2> QED
    BY <2>4, <2>5, <2>6, <2>7
<1>9. ASSUME NEW t \in Threads, WokenWaitsForSenders(t) PROVE Inv'
  <2>1. /\ size_ = 0 /\ pc[t] = "recv_woken" /\ NotifyOneSender(t, "recv_wait")
        /\ UNCHANGED <<closed_, buffer, waiting_send_cnt_, waiting_recv_cnt_, arg, history>>
    BY <1>9 DEF WokenWaitsForSenders
  <2>2. Moves(t, "recv_wait")
    BY <1>0, <2>1, NotifyOneMoves DEF Places
  <2>3. CallersCounted'
    <3>1. Waiting(Sending)' = Waiting(Sending) /\ Waiting(Receiving)' = Waiting(Receiving)
      BY <1>0, <2>1, <2>2, MovesCounted DEF Sending, Receiving, Places
    <3> QED
      BY <1>0, <2>1, <3>1 DEF CallersCounted, Sending, Receiving, history
  <2>4. NobodySleepsOverWork'
    <3>1. size_' = 0 /\ size_' \in 0 .. Capacity /\ size_' >= size_ - 1
      BY <1>0, <2>1 DEF buffer
    <3>2. RoomKept
      BY <2>1, <3>1, NotifyKeepsRoom DEF Places
    <3> QED
      BY <3>1, <3>2, RoomKeptIsEnough
  <2>5. RingOK'
    <3>1. \A u \in Threads : pc'[u] \in Sending \union {"checked"} => arg'[u] \in Values
      BY <1>0, <2>1, <2>2 DEF RingOK, Moves, Sending
    <3> QED
      BY <2>1, <3>1, BufferKept
  <2>6. TypeOK'
    BY <2>1, <2>2 DEF TypeOK, buffer, history, Moves, Places
  <2> QED
    BY <2>3, <2>4, <2>5, <2>6
<1>10. ASSUME Close PROVE Inv'
  <2>1. /\ UNCHANGED <<buffer, waiting_send_cnt_, waiting_recv_cnt_, arg, history>>
        /\ closed_' \in BOOLEAN /\ pc' = [u \in Threads |-> Wakened(u)]
    BY <1>10 DEF Close
  <2>2. /\ At(Sending)' = At(Sending) /\ At(Receiving)' = At(Receiving)
        /\ SendersAsleep' = {} /\ ReceiversAsleep' = {}
        /\ pc' \in [Threads -> Places]
    BY <1>0, <2>1 DEF Wakened, At, SendersAsleep, ReceiversAsleep, Sending, Receiving, Places
  <2>3. CallersCounted'
    BY <1>0, <2>1, <2>2 DEF CallersCounted, Waiting, Sending, Receiving, history
  <2>4. NobodySleepsOverWork'
    BY <2>2 DEF NobodySleepsOverWork
  <2>5. RingOK'
    <3>1. \A u \in Threads : pc'[u] \in Sending \union {"checked"} => arg'[u] \in Values
      BY <1>0, <2>1 DEF RingOK, Wakened, Sending
    <3> QED
      BY <2>1, <3>1, BufferKept
  <2>6. TypeOK'
    BY <2>1, <2>2 DEF TypeOK, buffer, history, Places
  <2> QED
    BY <2>3, <2>4, <2>5, <2>6
<1>11. ASSUME NEW t \in Threads, SpuriousWakeup(t) PROVE Inv'
  <2>1. /\ UNCHANGED <<closed_, buffer, waiting_send_cnt_, waiting_recv_cnt_, arg, history>>
        /\ \/ pc[t] = "send_wait" /\ pc' = [pc EXCEPT ![t] = "send_woken"]
           \/ pc[t] = "recv_wait" /\ pc' = [pc EXCEPT ![t] = "recv_woken"]
    BY <1>11 DEF SpuriousWakeup, SendersAsleep, ReceiversAsleep, At, Goto, Wakened
  <2>2. /\ At(Sending)' = At(Sending) /\ At(Receiving)' = At(Receiving)
        /\ ReceiversAsleep' \subseteq ReceiversAsleep
        /\ pc' \in [Threads -> Places]
    BY <1>0, <2>1 DEF At, ReceiversAsleep, Sending, Receiving, Places
  <2>3. CallersCounted'
    BY <1>0, <2>1, <2>2 DEF CallersCounted, Waiting, Sending, Receiving, history
  <2>4. NobodySleepsOverWork'
    <3>1. /\ SendersAsleep' \subseteq SendersAsleep
          /\ \/ At({"send_woken"})' = At({"send_woken"})
             \/ t \notin At({"send_woken"}) /\ At({"send_woken"})' = At({"send_woken"}) \union {t}
      BY <1>0, <2>1 DEF SendersAsleep, At
    <3>2. Cardinality(At({"send_woken"}) \union {t}) \in
            {Waiting({"send_woken"}), Waiting({"send_woken"}) + 1}
      BY GroupsAreFinite, FS_AddElement DEF Waiting
    <3>3. Waiting({"send_woken"})' >= Waiting({"send_woken"}) /\ Waiting({"send_woken"})' \in Nat
      <4>1. CASE At({"send_woken"})' = At({"send_woken"})
        BY <4>1, GroupsAreFinite DEF Waiting
      <4>2. CASE At({"send_woken"})' = At({"send_woken"}) \union {t}
        <5>1. Waiting({"send_woken"})' = Cardinality(At({"send_woken"}) \union {t})
          BY <4>2 DEF Waiting
        <5> QED
          BY <3>2, <5>1, GroupsAreFinite
      <4> QED
        BY <3>1, <4>1, <4>2
    <3>4. size_' = size_ /\ size_' \in 0 .. Capacity
      BY <1>0, <2>1 DEF buffer
    <3>5. Capacity - size_' - Waiting({"send_woken"})' <= Capacity - size_ - Waiting({"send_woken"})
      BY <1>0, <3>3, <3>4, GroupsAreFinite
    <3>6. RoomKept
      BY <3>1, <3>5 DEF RoomKept
    <3>7. size_' # 0 => ReceiversAsleep' = {}
      BY <2>2, <3>4 DEF NobodySleepsOverWork
    <3> QED
      BY <3>4, <3>6, <3>7, RoomKeptIsEnough
  <2>5. RingOK'
    <3>1. \A u \in Threads : pc'[u] \in Sending \union {"checked"} => arg'[u] \in Values
      BY <1>0, <2>1 DEF RingOK, Sending
    <3> QED
      BY <2>1, <3>1, BufferKept
  <2>6. TypeOK'
    BY <2>1, <2>2 DEF TypeOK, buffer, history, Places
  <2> QED
    BY <2>3, <2>4, <2>5, <2>6
<1>12. ASSUME UNCHANGED vars PROVE Inv'
  <2>1. \A P : At(P)' = At(P) /\ Waiting(P)' = Waiting(P)
    BY <1>12 DEF vars, At, Waiting
  <2>2. RingOK'
    BY <1>12, BufferKept DEF RingOK, vars
  <2>3. CallersCounted' /\ NobodySleepsOverWork'
    BY <1>12, <2>1 DEF vars, buffer, history, CallersCounted, NobodySleepsOverWork,
                      SendersAsleep, ReceiversAsleep
  <2>4. TypeOK'
    BY <1>12 DEF vars, buffer, history, TypeOK
  <2> QED
    BY <2>2, <2>3, <2>4
<1> QED
  BY <1>1, <1>2, <1>3, <1>4, <1>5, <1>6, <1>7, <1>8, <1>9, <1>10, <1>11, <1>12
  DEF Next, SendGoesOn, RecvStarts, RecvGoesOn

(* Once a Recv has said that the channel has ended, what is in the buffer  *)
(* and what counted senders bring is what receivers under way will take.   *)
OwedToReceivers ==
  ~late /\ drained => closed_ /\ waiting_send_cnt_ + size_ <= Waiting(Receiving)

LEMMA NextOwed ==
  ASSUME Inv, OwedToReceivers, [Next]_vars, Inv'
  PROVE  OwedToReceivers'
<1>0. /\ pc \in [Threads -> Places] /\ size_ \in Nat /\ waiting_send_cnt_ \in Nat
      /\ waiting_recv_cnt_ >= Waiting(Receiving)
      /\ ~drained => waiting_recv_cnt_ = Waiting(Receiving)
      /\ Waiting(Receiving) \in Nat
  BY GroupsAreFinite, ChannelAssumption DEF Inv, TypeOK, CallersCounted, Places, Receiving
<1> SUFFICES ASSUME ~late', drained'
             PROVE  closed_' /\ waiting_send_cnt_' + size_' <= Waiting(Receiving)'
  BY DEF OwedToReceivers
<1> DEFINE owed == waiting_send_cnt_ + size_
<1>1. ASSUME NEW t \in Threads, NEW v \in Values, SendChecks(t, v) PROVE FALSE
  BY <1>1 DEF SendChecks, OwedToReceivers, history
<1>2. ASSUME NEW t \in Threads, SendCounts(t) PROVE FALSE
  BY <1>2 DEF SendCounts, OwedToReceivers
<1>3. ASSUME NEW t \in Threads, SendWaits(t)
      PROVE  closed_' /\ waiting_send_cnt_' + size_' <= Waiting(Receiving)'
  <2>1. Moves(t, "send_wait") /\ pc[t] \in {"counted", "send_woken"}
    BY <1>0, <1>3, GotoMoves DEF SendWaits, Places
  <2>2. Waiting(Receiving)' = Waiting(Receiving)
    BY <1>0, <2>1, MovesCounted DEF Receiving, Places
  <2> QED
    BY <1>3, <2>2 DEF SendWaits, OwedToReceivers, history, buffer
<1>4. ASSUME NEW t \in Threads, SendPushes(t)
      PROVE  closed_' /\ waiting_send_cnt_' + size_' <= Waiting(Receiving)'
  <2>1. Moves(t, "idle") /\ pc[t] \in {"counted", "send_woken"}
    BY <1>0, <1>4, NotifyReceiversMoves DEF SendPushes
  <2>2. Waiting(Receiving)' = Waiting(Receiving)
    BY <1>0, <2>1, MovesCounted DEF Receiving, Places
  <2>3. closed_ /\ owed <= Waiting(Receiving) /\ closed_' = closed_
    BY <1>4 DEF SendPushes, OwedToReceivers, history
  <2>4. waiting_send_cnt_' + size_' = owed
    BY <1>0, <1>4 DEF SendPushes, Push
  <2> QED
    BY <2>2, <2>3, <2>4
<1>5. ASSUME NEW t \in Threads, RecvEnds(t)
      PROVE  closed_' /\ waiting_send_cnt_' + size_' <= Waiting(Receiving)'
  <2>1. /\ UNCHANGED <<closed_, buffer, waiting_send_cnt_, waiting_recv_cnt_, pc, late>>
        /\ NothingForMe
    BY <1>5 DEF RecvEnds
  <2>2. Waiting(Receiving)' = Waiting(Receiving) /\ waiting_send_cnt_' + size_' = owed
    BY <2>1 DEF At, Waiting, buffer
  <2>3. CASE drained
    BY <2>1, <2>2, <2>3 DEF OwedToReceivers
  <2>4. CASE ~drained
    <3>1. closed_ /\ (owed = 0 \/ owed = Waiting(Receiving))
      BY <1>0, <2>1, <2>4 DEF NothingForMe
    <3> QED
      BY <1>0, <2>1, <2>2, <3>1
  <2> QED
    BY <2>3, <2>4
<1>6. ASSUME NEW t \in Threads, RecvWaits(t)
      PROVE  closed_' /\ waiting_send_cnt_' + size_' <= Waiting(Receiving)'
  <2>1. Moves(t, "recv_wait") /\ pc[t] = "idle"
    BY <1>0, <1>6, GotoMoves DEF RecvWaits, Places
  <2>2. Waiting(Receiving)' = Waiting(Receiving) + 1
    BY <1>0, <2>1, MovesCounted DEF Receiving, Places
  <2> QED
    BY <1>0, <1>6, <2>2 DEF RecvWaits, OwedToReceivers, history, buffer
<1>7. ASSUME NEW t \in Threads, RecvTakes(t) \/ WokenTakes(t)
      PROVE  closed_' /\ waiting_send_cnt_' + size_' <= Waiting(Receiving)'
  <2>1. /\ NotifyOneSender(t, "idle") /\ size_ # 0
        /\ pc[t] \in {"idle", "recv_woken"}
        /\ size_' = size_ - 1
        /\ UNCHANGED <<closed_, waiting_send_cnt_, drained, late>>
    BY <1>7 DEF RecvTakes, WokenTakes, Pop
  <2>2. Moves(t, "idle")
    BY <1>0, <2>1, NotifyOneMoves DEF Places
  <2>3. Waiting(Receiving)' \in {Waiting(Receiving), Waiting(Receiving) - 1}
    BY <1>0, <2>1, <2>2, MovesCounted DEF Receiving, Places
  <2>4. closed_ /\ owed <= Waiting(Receiving)
    BY <2>1 DEF OwedToReceivers
  <2> QED
    BY <1>0, <2>1, <2>3, <2>4
<1>8. ASSUME NEW t \in Threads, WokenEnds(t)
      PROVE  closed_' /\ waiting_send_cnt_' + size_' <= Waiting(Receiving)'
  <2>1. waiting_send_cnt_' + size_' = 0 /\ closed_'
    BY <1>8 DEF WokenEnds, buffer
  <2>2. Waiting(Receiving)' \in Nat
    <3>1. At(Receiving)' \subseteq Threads
      BY DEF At
    <3> QED
      BY <3>1, ChannelAssumption, FS_Subset, FS_CardinalityType DEF Waiting
  <2> QED
    BY <2>1, <2>2
<1>9. ASSUME NEW t \in Threads, WokenWaits(t) PROVE FALSE
  BY <1>9 DEF WokenWaits, OwedToReceivers, history
<1>10. ASSUME NEW t \in Threads, WokenWaitsForSenders(t)
       PROVE  closed_' /\ waiting_send_cnt_' + size_' <= Waiting(Receiving)'
  <2>1. NotifyOneSender(t, "recv_wait") /\ pc[t] = "recv_woken"
    BY <1>10 DEF WokenWaitsForSenders
  <2>2. Moves(t, "recv_wait")
    BY <1>0, <2>1, NotifyOneMoves DEF Places
  <2>3. Waiting(Receiving)' = Waiting(Receiving)
    BY <1>0, <2>1, <2>2, MovesCounted DEF Receiving, Places
  <2> QED
    BY <1>10, <2>3 DEF WokenWaitsForSenders, OwedToReceivers, history, buffer
<1>11. ASSUME Close \/ \E t \in Threads : SpuriousWakeup(t)
       PROVE  closed_' /\ waiting_send_cnt_' + size_' <= Waiting(Receiving)'
  <2>1. /\ UNCHANGED <<buffer, waiting_send_cnt_, history>>
        /\ closed_ => closed_'
        /\ \/ pc' = [u \in Threads |-> Wakened(u)]
           \/ \E t \in Threads : pc' = [pc EXCEPT ![t] = Wakened(t)]
    BY <1>11 DEF Close, SpuriousWakeup, Goto
  <2>2. \A u \in Threads : pc'[u] \in Receiving <=> pc[u] \in Receiving
    BY <1>0, <2>1 DEF Wakened, Receiving
  <2>3. Waiting(Receiving)' = Waiting(Receiving)
    <3>1. At(Receiving)' = At(Receiving)
      BY <2>2 DEF At
    <3> QED
      BY <3>1 DEF Waiting
  <2> QED
    BY <2>1, <2>3 DEF OwedToReceivers, history, buffer
<1>12. ASSUME UNCHANGED vars
       PROVE  closed_' /\ waiting_send_cnt_' + size_' <= Waiting(Receiving)'
  BY <1>12 DEF vars, OwedToReceivers, history, buffer, At, Waiting
<1> QED
  BY <1>1, <1>2, <1>3, <1>4, <1>5, <1>6, <1>7, <1>8, <1>9, <1>10, <1>11, <1>12
  DEF Next, SendGoesOn, RecvStarts, RecvGoesOn

(* The invariant holds in every reachable state.                           *)
LEMMA ChannelInvariant == Spec => []Inv
<1>1. Inv /\ [Next]_vars => Inv'
  BY NextInv
<1> QED
  BY InitInv, <1>1, PTL DEF Spec

-----------------------------------------------------------------------------
(* For all threads, values and capacities: every value is of its type and  *)
(* the indices never leave the buffer.                                     *)
THEOREM ChannelTypeCorrect == Spec => []TypeOK
<1>1. Inv => TypeOK
  BY DEF Inv
<1> QED
  BY <1>1, ChannelInvariant, PTL

(* For all threads, values and capacities: the counters Recv decides by    *)
(* are the numbers of the callers.                                         *)
THEOREM ChannelCountsCallers == Spec => []CallersCounted
<1>1. Inv => CallersCounted
  BY DEF Inv
<1> QED
  BY <1>1, ChannelInvariant, PTL

(* For all threads, values and capacities: no wakeup is lost.              *)
THEOREM ChannelLosesNoWakeup == Spec => []NobodySleepsOverWork
<1>1. Inv => NobodySleepsOverWork
  BY DEF Inv
<1> QED
  BY <1>1, ChannelInvariant, PTL

(* For all threads, values and capacities: after a Recv has said that the  *)
(* channel has ended, and when all calls have returned, nothing is left in *)
(* the buffer, unless a Send went on after Close.                          *)
THEOREM ChannelLeavesNothingBehind == Spec => []NothingLeftBehind
<1>1. Init => OwedToReceivers
  BY DEF Init, OwedToReceivers
<1>2. Inv /\ Inv' /\ OwedToReceivers /\ [Next]_vars => OwedToReceivers'
  BY NextOwed
<1>3. Inv /\ OwedToReceivers => NothingLeftBehind
  <2> SUFFICES ASSUME Inv, OwedToReceivers, ~late, drained, At({"idle"}) = Threads
               PROVE  size_ = 0
    BY DEF NothingLeftBehind, EndIsFinal
  <2>1. At(Receiving) = {}
    BY DEF At, Receiving
  <2>2. Waiting(Receiving) = 0
    BY <2>1, FS_EmptySet DEF Waiting
  <2>3. size_ \in Nat /\ waiting_send_cnt_ \in Nat
    BY ChannelAssumption DEF Inv, TypeOK
  <2> QED
    BY <2>2, <2>3 DEF OwedToReceivers
<1> QED
  BY <1>1, <1>2, <1>3, ChannelInvariant, PTL DEF Spec

(* For all threads, values and capacities: each step of the channel is a   *)
(* step of the bounded FIFO queue or invisible to it.                      *)
THEOREM ChannelRefines == Spec => ImplementsFifoChannel
<1>1. Init => Abstract!Init
  <2> SUFFICES ASSUME Init PROVE Queue = <<>> /\ taken = None
    BY DEF Abstract!Init
  <2> QED
    BY DEF Init, Queue
<1>2. ASSUME Inv, [Next]_vars PROVE [Abstract!Next]_(Abstract!vars)
  <2> USE <1>2 DEF Inv
  <2>0. size_ \in 0 .. Capacity /\ Capacity \in Nat
    BY ChannelAssumption DEF TypeOK
  <2>1. ASSUME NEW t \in Threads, SendPushes(t) PROVE Abstract!Next
    <3>1. arg[t] \in Values /\ Push(arg[t]) /\ size_ # Capacity /\ taken' = taken
      BY <2>1 DEF SendPushes, RingOK, Sending, history
    <3>2. Queue' = Append(Queue, arg[t]) /\ Len(Queue) = size_
      BY <3>1, PushAppends
    <3> HIDE DEF Queue
    <3>3. Abstract!Put(arg[t])
      BY <2>0, <3>1, <3>2 DEF Abstract!Put
    <3> QED
      BY <3>1, <3>3 DEF Abstract!Next
  <2>2. ASSUME NEW t \in Threads, RecvTakes(t) \/ WokenTakes(t) PROVE Abstract!Next
    <3>1. size_ # 0 /\ Pop
      BY <2>2 DEF RecvTakes, WokenTakes
    <3>2. Queue' = Tail(Queue) /\ taken' = Head(Queue) /\ Queue # <<>>
      BY <3>1, PopTakes
    <3> QED
      BY <3>2 DEF Abstract!Take, Abstract!Next
  <2>3. ASSUME UNCHANGED <<buffer, taken>> PROVE UNCHANGED Abstract!vars
    <3>1. \A i : Cell(i)' = Cell(i)
      BY <2>3 DEF Cell, buffer
    <3>2. size_' = size_ /\ data_' = data_ /\ taken' = taken
      BY <2>3 DEF buffer
    <3>3. Queue' = Queue
      BY <3>1, <3>2 DEF Queue
    <3> QED
      BY <3>2, <3>3 DEF Abstract!vars
  <2>4. \/ \E t \in Threads : SendPushes(t) \/ RecvTakes(t) \/ WokenTakes(t)
        \/ UNCHANGED <<buffer, taken>>
    BY DEF Next, vars, history, SendGoesOn, RecvStarts, RecvGoesOn, SendChecks, SendCounts,
           SendWaits, RecvEnds, RecvWaits, WokenWaits, WokenWaitsForSenders, WokenEnds,
           Close, SpuriousWakeup
  <2> QED
    BY <2>1, <2>2, <2>3, <2>4
<1> QED
  BY <1>1, <1>2, ChannelInvariant, PTL DEF Spec, ImplementsFifoChannel, Abstract!Spec
=============================================================================
