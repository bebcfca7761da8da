-------------------------- MODULE MPSCStack_proofs --------------------------
(***************************************************************************)
(* The stack of nodes implements the atomic stack, and every node has one  *)
(* owner, for all producers, values and addresses.  The inductive          *)
(* invariant adds what the pointers say: from head_ the next_ pointers     *)
(* pass the linked nodes in their order, and a node that is being pushed   *)
(* points to what its thread expects at the head.                          *)
(***************************************************************************)
EXTENDS MPSCStack, Integers, FiniteSetTheorems, WellFoundedInduction, TLAPS

(* The address under the i-th of the linked nodes, the first one for 0.    *)
Below(i) == IF i < Len(linked) THEN linked[i + 1] ELSE Null

Chain ==
  /\ cpc # "destroyed" => head = Below(0)
  /\ \A i \in DOMAIN linked : next[linked[i]] = Below(i)

Pushers ==
  \A p \in Producers :
    pc[p] = "exchange" => new[p] \in Addresses /\ next[new[p]] = seen[p]

Consumer ==
  /\ cpc \in {"read", "exchange", "taken", "delete"} => expected \in Addresses
  /\ cpc = "destroyed" => linked = <<>>
  /\ cpc \in {"destroy", "destroyed"} => \A p \in Producers : pc[p] = "idle"

(* NodesOwnedOnce and ReadsLinkedNode, about the addresses that have been  *)
(* pushed and not popped.                                                  *)
Owned ==
  /\ ~(cpc = "destroy" /\ unwinding) => live = Linked \union BeingPushed \union Taken
  /\ \A i, j \in DOMAIN linked : linked[i] = linked[j] => i = j
  /\ \A p, q \in Producers :
       pc[p] = "exchange" /\ pc[q] = "exchange" /\ new[p] = new[q] => p = q
  /\ Linked \intersect BeingPushed = {}
  /\ Taken \intersect (Linked \union BeingPushed) = {}

ReadsLinked ==
  /\ cpc \in {"read", "exchange"} => expected \in Linked
  /\ cpc = "exchange" => after = next[expected]

(* Pop deletes one node.  The destructor goes down the linked nodes and    *)
(* comes back up, and when it comes back the nodes it is in are those that *)
(* exist.                                                                  *)
Deletes ==
  /\ cpc = "delete" => dying = <<expected>> /\ ~unwinding /\ next[expected] = Null
  /\ cpc = "destroy" =>
       /\ Len(dying) \in 1 .. Len(linked)
       /\ \A i \in DOMAIN dying : dying[i] = linked[Len(dying) + 1 - i]
       /\ unwinding => live = Dying
  /\ cpc \notin {"delete", "destroy"} => dying = <<>> /\ ~unwinding

Inv ==
  TypeOK /\ Owned /\ ReadsLinked /\ Chain /\ Pushers /\ Consumer /\ Deletes

(* What is left of a sequence when its first element is taken away.        *)
LEMMA TakenAway ==
  ASSUME NEW S, NEW s \in Seq(S), s # <<>>
  PROVE  /\ Tail(s) \in Seq(S)
         /\ Len(Tail(s)) = Len(s) - 1
         /\ DOMAIN Tail(s) = 1 .. Len(s) - 1
         /\ Len(s) \in Nat \ {0} /\ DOMAIN s = 1 .. Len(s)
         /\ \A i \in 1 .. Len(s) - 1 : Tail(s)[i] = s[i + 1]
OBVIOUS

(* The empty stack satisfies the invariant.                                *)
LEMMA InitInv == Init => Inv
<1> SUFFICES ASSUME Init PROVE Inv
  OBVIOUS
<1>1. TypeOK
  <2>1. next \in [Addresses -> Addresses \union {Null}] /\ linked \in Seq(Addresses)
    BY DEF Init
  <2>2. /\ pc \in [Producers -> {"idle", "exchange"}]
        /\ new \in [Producers -> Addresses \union {Null}]
        /\ seen \in [Producers -> Addresses \union {Null}]
    BY DEF Init
  <2> QED
    BY <2>1, <2>2 DEF Init, TypeOK
<1>2. Linked = {} /\ BeingPushed = {} /\ Taken = {}
  BY DEF Init, Linked, BeingPushed, Taken
<1>3. Owned /\ ReadsLinked
  BY <1>2 DEF Init, Owned, ReadsLinked
<1>4. Chain /\ Pushers /\ Consumer /\ Deletes
  BY DEF Init, Chain, Below, Pushers, Consumer, Deletes
<1> QED
  BY <1>1, <1>3, <1>4 DEF Inv

(* Push allocates a node that nobody else has.                             *)
LEMMA PushInv ==
  ASSUME Inv, NEW p \in Producers, NEW v \in Values, NEW a \in Addresses, Push(p, v, a)
  PROVE  Inv'
<1>0. TypeOK /\ Owned /\ ReadsLinked /\ Chain /\ Pushers /\ Consumer /\ Deletes
  BY DEF Inv
<1>12. cpc \notin {"destroy", "destroyed"}
  BY DEF Push
<1>1. TypeOK'
  BY <1>0 DEF Push, TypeOK, Goto, his, deletion
<1>2. Linked' = Linked /\ Taken' = Taken /\ a \notin live
  BY DEF Push, Linked, Taken, his
<1>3. BeingPushed' = BeingPushed \union {a}
  BY <1>0 DEF Push, Goto, TypeOK, BeingPushed
<1>4. Owned'
  <2>1. \A q \in Producers : pc[q] = "exchange" => new[q] \in live
    BY <1>0, <1>12 DEF Owned, BeingPushed
  <2>2. live' = live \union {a} /\ linked' = linked
    BY DEF Push
  <2>3. \A q, r \in Producers :
          pc'[q] = "exchange" /\ pc'[r] = "exchange" /\ new'[q] = new'[r] => q = r
    BY <1>0, <1>2, <2>1 DEF Push, Goto, TypeOK, Owned
  <2> QED
    BY <1>0, <1>2, <1>3, <1>12, <2>2, <2>3 DEF Owned
<1>5. \A b \in live : b # a /\ next'[b] = next[b]
  BY <1>0, <1>2 DEF Push, TypeOK
<1>6. \A i \in DOMAIN linked : linked[i] \in live
  BY <1>0, <1>12 DEF Owned, Linked
<1>7. ReadsLinked'
  <2>1. cpc = "exchange" => next'[expected] = next[expected]
    BY <1>0, <1>5 DEF ReadsLinked, Owned
  <2> QED
    BY <1>0, <1>2, <2>1 DEF Push, his, ReadsLinked
<1>8. Chain'
  BY <1>0, <1>5, <1>6 DEF Push, his, Chain, Below
<1>9. Pushers'
  <2>1. \A q \in Producers : q # p => pc'[q] = pc[q] /\ new'[q] = new[q] /\ seen'[q] = seen[q]
    BY <1>0 DEF Push, Goto, TypeOK
  <2>2. new'[p] = a /\ seen'[p] = Null /\ next'[a] = Null
    BY <1>0 DEF Push, TypeOK
  <2>3. \A q \in Producers : pc[q] = "exchange" => new[q] \in live
    BY <1>0, <1>12 DEF Owned, BeingPushed
  <2> QED
    BY <1>0, <1>5, <2>1, <2>2, <2>3 DEF Pushers
<1>10. Consumer'
  BY <1>0 DEF Push, his, Consumer
<1>11. Deletes'
  <2>1. UNCHANGED <<cpc, expected, dying, unwinding>> /\ cpc # "destroy"
    BY DEF Push, his, deletion
  <2>2. cpc = "delete" => expected \in live
    BY <1>0 DEF Owned, Taken
  <2> QED
    BY <1>0, <1>5, <2>1, <2>2 DEF Deletes
<1> QED
  BY <1>1, <1>4, <1>7, <1>8, <1>9, <1>10, <1>11 DEF Inv

(* A successful exchange puts the node on the stack: its next_ is the old  *)
(* head, whatever became of the nodes that it saw before.                  *)
LEMMA PushLinksInv ==
  ASSUME Inv, NEW p \in Producers, PushLinks(p)
  PROVE  Inv'
<1>0. TypeOK /\ Owned /\ ReadsLinked /\ Chain /\ Pushers /\ Consumer /\ Deletes
  BY DEF Inv
<1> DEFINE a == new[p]
<1>1. /\ a \in Addresses /\ next[a] = head /\ a \in BeingPushed /\ head' = a
      /\ linked' = <<a>> \o linked /\ linked \in Seq(Addresses)
      /\ cpc \notin {"destroy", "destroyed"} /\ UNCHANGED <<heap, new, seen, his, deletion>>
  BY <1>0 DEF PushLinks, Pushers, TypeOK, BeingPushed, Consumer
<1>2. /\ linked' \in Seq(Addresses) /\ Len(linked') = Len(linked) + 1
      /\ DOMAIN linked' = 1 .. Len(linked) + 1 /\ linked'[1] = a
      /\ \A i \in 1 .. Len(linked) : linked'[i + 1] = linked[i]
      /\ Linked' = {a} \union Linked
  <2>1. linked' \in Seq(Addresses) /\ Len(linked') = Len(linked) + 1 /\ Len(linked) \in Nat
    BY <1>1
  <2>2. DOMAIN linked' = 1 .. Len(linked) + 1 /\ DOMAIN linked = 1 .. Len(linked)
    BY <1>1, <2>1
  <2>3. linked'[1] = a /\ \A i \in 1 .. Len(linked) : linked'[i + 1] = linked[i]
    BY <1>1
  <2>4. ASSUME NEW i \in DOMAIN linked' PROVE linked'[i] \in {a} \union Linked
    <3>1. i = 1 \/ (i - 1 \in 1 .. Len(linked) /\ (i - 1) + 1 = i)
      BY <2>1, <2>2
    <3> QED
      BY <2>2, <2>3, <3>1 DEF Linked
  <2>5. a \in Linked'
    BY <2>1, <2>2, <2>3 DEF Linked
  <2>6. ASSUME NEW i \in DOMAIN linked PROVE linked[i] \in Linked'
    <3>1. i + 1 \in DOMAIN linked' /\ linked'[i + 1] = linked[i]
      BY <2>1, <2>2, <2>3
    <3> QED
      BY <3>1 DEF Linked
  <2>7. Linked' = {a} \union Linked
    BY <2>4, <2>5, <2>6 DEF Linked
  <2> QED
    BY <2>1, <2>2, <2>3, <2>7
<1>3. Len(linked) \in Nat /\ DOMAIN linked = 1 .. Len(linked)
  BY <1>1
<1>4. TypeOK'
  BY <1>0, <1>1, <1>2 DEF PushLinks, TypeOK, Goto, heap, his, deletion
<1>5. BeingPushed' = BeingPushed \ {a} /\ Taken' = Taken
  <2>1. Taken' = Taken
    BY <1>1 DEF his, Taken
  <2>2. \A q \in Producers : pc'[q] = IF q = p THEN "idle" ELSE pc[q]
    BY <1>0 DEF PushLinks, Goto, TypeOK
  <2>3. \A q \in Producers : q # p /\ pc[q] = "exchange" => new[q] # a
    BY <1>0 DEF Owned, PushLinks
  <2> QED
    BY <1>1, <2>1, <2>2, <2>3 DEF BeingPushed
<1>6. a \notin Linked /\ a \notin Taken
  BY <1>0, <1>1 DEF Owned
<1>7. \A i \in DOMAIN linked' : i = 1 \/ (i - 1 \in DOMAIN linked /\ linked'[i] = linked[i - 1])
  <2> TAKE i \in DOMAIN linked'
  <2>1. i # 1 => i - 1 \in 1 .. Len(linked) /\ (i - 1) + 1 = i
    BY <1>2, <1>3
  <2> QED
    BY <1>2, <1>3, <2>1
<1>8. Owned'
  <2>1. \A i, j \in DOMAIN linked' : linked'[i] = linked'[j] => i = j
    <3> TAKE i, j \in DOMAIN linked'
    <3>1. i \in Int /\ j \in Int
      BY <1>2
    <3>2. \A k \in DOMAIN linked : linked[k] # a
      BY <1>6 DEF Linked
    <3>3. CASE i = 1 \/ j = 1
      BY <1>2, <1>7, <3>2, <3>3
    <3>4. CASE i # 1 /\ j # 1
      <4>1. linked'[i] = linked'[j] => i - 1 = j - 1
        BY <1>0, <1>7, <3>4 DEF Owned
      <4> QED
        BY <4>1, <3>1
    <3> QED
      BY <3>3, <3>4
  <2>2. \A q, r \in Producers :
          pc'[q] = "exchange" /\ pc'[r] = "exchange" /\ new'[q] = new'[r] => q = r
    BY <1>0, <1>1 DEF PushLinks, Goto, TypeOK, Owned
  <2>3. live' = live
    BY <1>1 DEF heap
  <2> QED
    BY <1>0, <1>1, <1>2, <1>5, <1>6, <2>1, <2>2, <2>3 DEF Owned
<1>9. ReadsLinked'
  BY <1>0, <1>1, <1>2 DEF ReadsLinked, heap, his
<1>10. Chain'
  <2>1. head' = Below(0)'
    BY <1>1, <1>2, <1>3 DEF Below
  <2>2. ASSUME NEW i \in DOMAIN linked' PROVE next'[linked'[i]] = Below(i)'
    <3>1. CASE i = 1
      <4>1. head = Below(0)
        BY <1>0, <1>1 DEF Chain
      <4>2. CASE Len(linked) = 0
        BY <1>1, <1>2, <3>1, <4>1, <4>2 DEF Below, heap
      <4>3. CASE Len(linked) # 0
        <5>1. 1 \in 1 .. Len(linked) /\ 0 < Len(linked) /\ 1 < Len(linked') /\ 1 + 1 = 2
          BY <1>2, <1>3, <4>3
        <5>2. linked'[2] = linked[1]
          BY <1>2, <5>1
        <5> QED
          BY <1>1, <1>2, <3>1, <4>1, <5>1, <5>2 DEF Below, heap
      <4> QED
        BY <4>2, <4>3
    <3>2. CASE i # 1
      <4>1. i - 1 \in DOMAIN linked /\ linked'[i] = linked[i - 1] /\ i \in 2 .. Len(linked) + 1
        BY <1>2, <1>3, <1>7, <3>2
      <4>2. next'[linked'[i]] = Below(i - 1)
        BY <1>0, <1>1, <4>1 DEF Chain, heap
      <4>3. CASE i - 1 < Len(linked)
        <5>1. i \in 1 .. Len(linked) /\ i < Len(linked') /\ (i - 1) + 1 = i
          BY <1>2, <1>3, <4>1, <4>3
        <5>2. linked'[i + 1] = linked[i]
          BY <1>2, <5>1
        <5> QED
          BY <4>2, <4>3, <5>1, <5>2 DEF Below
      <4>4. CASE ~ (i - 1 < Len(linked))
        <5>1. ~ (i < Len(linked'))
          BY <1>2, <1>3, <4>1, <4>4
        <5> QED
          BY <4>2, <4>4, <5>1 DEF Below
      <4> QED
        BY <4>3, <4>4
    <3> QED
      BY <3>1, <3>2
  <2> QED
    BY <2>1, <2>2 DEF Chain
<1>11. Pushers'
  BY <1>0, <1>1 DEF PushLinks, Goto, TypeOK, Pushers, heap
<1>12. Consumer' /\ Deletes'
  BY <1>0, <1>1 DEF Consumer, Deletes, heap, his, deletion
<1> QED
  BY <1>4, <1>8, <1>9, <1>10, <1>11, <1>12 DEF Inv

(* A failed exchange makes the node point to the head that it found.       *)
LEMMA PushMissesInv ==
  ASSUME Inv, NEW p \in Producers, PushMisses(p)
  PROVE  Inv'
<1>0. TypeOK /\ Owned /\ ReadsLinked /\ Chain /\ Pushers /\ Consumer /\ Deletes
  BY DEF Inv
<1>1. /\ new[p] \in Addresses /\ new[p] \in BeingPushed
      /\ next' = [next EXCEPT ![new[p]] = head]
      /\ UNCHANGED <<head, value, live, pc, new, his, deletion, linked>>
  BY <1>0 DEF PushMisses, Pushers, BeingPushed
<1>2. TypeOK'
  BY <1>0 DEF PushMisses, TypeOK, his, deletion
<1>3. Linked' = Linked /\ BeingPushed' = BeingPushed /\ Taken' = Taken
  BY <1>1 DEF Linked, BeingPushed, Taken, his
<1>4. Owned'
  BY <1>0, <1>1, <1>3 DEF Owned, his, deletion
<1>5. \A b \in Linked : next'[b] = next[b]
  BY <1>0, <1>1 DEF Owned, TypeOK, Linked
<1>6. ReadsLinked'
  BY <1>0, <1>1, <1>3, <1>5 DEF ReadsLinked, his
<1>7. Chain'
  BY <1>0, <1>1, <1>5 DEF Chain, Below, Linked, his
<1>8. Pushers'
  <2>1. ASSUME NEW q \in Producers, pc[q] = "exchange", q # p
        PROVE  new[q] \in Addresses /\ next'[new[q]] = seen'[q]
    <3>1. new[q] # new[p]
      BY <1>0, <2>1 DEF Owned, PushMisses
    <3>2. seen'[q] = seen[q]
      BY <1>0, <2>1 DEF PushMisses, TypeOK
    <3> QED
      BY <1>0, <1>1, <2>1, <3>1, <3>2 DEF Pushers, TypeOK
  <2>2. next'[new[p]] = seen'[p]
    BY <1>0, <1>1 DEF PushMisses, TypeOK
  <2> QED
    BY <1>1, <2>1, <2>2 DEF Pushers
<1>9. Consumer' /\ Deletes'
  <2>1. UNCHANGED <<cpc, expected, dying, unwinding, linked, live>> /\ cpc # "destroy"
    BY <1>0, <1>1 DEF PushMisses, Consumer, his, deletion
  <2>2. cpc = "delete" => expected # new[p] /\ expected \in Addresses
    BY <1>0, <1>1 DEF Owned, Taken, Consumer
  <2> QED
    BY <1>0, <1>1, <2>1, <2>2 DEF Consumer, Deletes, TypeOK, his
<1> QED
  BY <1>2, <1>4, <1>6, <1>7, <1>8, <1>9 DEF Inv

(* The steps of the consumer that only look: at head_, and at the node.    *)
LEMMA LooksInv ==
  ASSUME Inv,
         \/ PopStarts \/ DequeueAllStarts \/ DequeueAllTests
         \/ PopLoads \/ PopReadsNext \/ PopMisses \/ PopMissesSpuriously
  PROVE  Inv'
<1>0. TypeOK /\ Owned /\ ReadsLinked /\ Chain /\ Pushers /\ Consumer /\ Deletes
  BY DEF Inv
<1>1. /\ UNCHANGED <<head, heap, mine, deletion, linked>>
      /\ cpc \notin {"taken", "delete", "destroy", "destroyed"}
      /\ cpc' \notin {"taken", "delete", "destroy", "destroyed"}
  BY DEF PopStarts, DequeueAllStarts, DequeueAllTests, PopLoads, PopReadsNext,
         PopMisses, PopMissesSpuriously, Sees, Returned
<1>2. /\ cpc' \in {"idle", "test", "load", "read", "exchange"}
      /\ expected' \in Addresses \union {Null}
      /\ after' \in Addresses \union {Null}
      /\ draining' \in BOOLEAN
      /\ reply' \in Values \union {Nothing}
  <2>1. CASE PopReadsNext
    BY <1>0, <2>1 DEF PopReadsNext, TypeOK, Consumer
  <2>2. CASE PopLoads \/ PopMisses
    BY <1>0, <2>2 DEF PopLoads, PopMisses, Sees, Returned, TypeOK
  <2>3. CASE PopStarts \/ DequeueAllStarts \/ DequeueAllTests \/ PopMissesSpuriously
    BY <1>0, <2>3 DEF PopStarts, DequeueAllStarts, DequeueAllTests, PopMissesSpuriously, TypeOK
  <2> QED
    BY <2>1, <2>2, <2>3
<1>3. TypeOK'
  BY <1>0, <1>1, <1>2 DEF TypeOK, heap, mine, deletion
<1>4. Linked' = Linked /\ BeingPushed' = BeingPushed /\ Taken' = Taken
  BY <1>1 DEF Linked, BeingPushed, Taken, mine
<1>5. Owned'
  BY <1>0, <1>1, <1>4 DEF Owned, heap, mine
<1>6. head # Null => head \in Linked
  BY <1>0, <1>1, StackAssumption DEF Chain, Below, Linked, TypeOK
<1>7. ReadsLinked' /\ (cpc' \in {"read", "exchange"} => expected' \in Addresses)
  <2>1. CASE PopLoads \/ PopMisses
    BY <1>0, <1>4, <1>6, <2>1 DEF PopLoads, PopMisses, Sees, Returned, ReadsLinked, TypeOK
  <2>2. CASE PopReadsNext \/ PopMissesSpuriously
    BY <1>0, <1>1, <1>4, <2>2
    DEF PopReadsNext, PopMissesSpuriously, ReadsLinked, Consumer, heap
  <2>3. CASE PopStarts \/ DequeueAllStarts \/ DequeueAllTests
    BY <2>3 DEF PopStarts, DequeueAllStarts, DequeueAllTests, ReadsLinked
  <2> QED
    BY <2>1, <2>2, <2>3
<1>8. Chain' /\ Pushers' /\ Consumer' /\ Deletes'
  BY <1>0, <1>1, <1>7 DEF Chain, Below, Pushers, Consumer, Deletes, heap, mine, deletion
<1> QED
  BY <1>3, <1>5, <1>7, <1>8 DEF Inv

(* The consumer's exchange takes the top node off the stack: the next_ it  *)
(* read before is what is under it.                                        *)
LEMMA PopTakesInv ==
  ASSUME Inv, PopTakes
  PROVE  Inv'
<1>0. TypeOK /\ Owned /\ ReadsLinked /\ Chain /\ Pushers /\ Consumer /\ Deletes
  BY DEF Inv
<1>1. /\ cpc = "exchange" /\ head = expected /\ head' = after /\ linked' = Tail(linked)
      /\ cpc' = "taken" /\ UNCHANGED <<heap, mine, expected, after, draining, reply, deletion>>
      /\ expected \in Addresses /\ expected \in Linked /\ after = next[expected]
  BY <1>0 DEF PopTakes, ReadsLinked, Consumer
<1>2. linked \in Seq(Addresses) /\ linked # <<>>
  BY <1>0, <1>1 DEF TypeOK, Linked
<1>3. /\ linked' \in Seq(Addresses) /\ Len(linked') = Len(linked) - 1
      /\ DOMAIN linked' = 1 .. Len(linked) - 1
      /\ Len(linked) \in Nat \ {0} /\ DOMAIN linked = 1 .. Len(linked)
      /\ \A i \in 1 .. Len(linked) - 1 : linked'[i] = linked[i + 1]
  BY <1>1, <1>2, TakenAway
<1>4. expected = linked[1] /\ after = Below(1)
  BY <1>0, <1>1, <1>3 DEF Chain, Below
<1>5. \A i \in 1 .. Len(linked) - 1 : i + 1 \in 1 .. Len(linked) /\ i + 1 # 1
  BY <1>3
<1>6. Linked' = Linked \ {expected}
  <2>1. ASSUME NEW i \in DOMAIN linked' PROVE linked'[i] \in Linked \ {expected}
    <3>1. i \in 1 .. Len(linked) - 1 /\ linked'[i] = linked[i + 1]
      BY <1>3, <2>1
    <3>2. i + 1 \in DOMAIN linked /\ 1 \in DOMAIN linked /\ i + 1 # 1
      BY <1>3, <3>1
    <3>3. linked[i + 1] # linked[1]
      BY <1>0, <3>2 DEF Owned
    <3> QED
      BY <1>4, <3>1, <3>2, <3>3 DEF Linked
  <2>2. ASSUME NEW i \in DOMAIN linked, linked[i] # expected PROVE linked[i] \in Linked'
    <3>1. i - 1 \in DOMAIN linked' /\ (i - 1) + 1 = i
      BY <1>3, <1>4, <2>2
    <3> QED
      BY <1>3, <3>1 DEF Linked
  <2> QED
    BY <2>1, <2>2 DEF Linked
<1>7. TypeOK'
  <2>1. /\ cpc' = "taken"
        /\ head' \in Addresses \union {Null} /\ linked' \in Seq(Addresses)
        /\ UNCHANGED <<value, next, live, pc, new, seen, expected, after, draining, reply>>
        /\ UNCHANGED <<dying, unwinding>>
    BY <1>0, <1>1, <1>3 DEF TypeOK, heap, mine, deletion
  <2> QED
    BY <1>0, <2>1 DEF TypeOK
<1>8. Owned'
  <2>1. BeingPushed' = BeingPushed /\ Taken = {} /\ Taken' = {expected} /\ live' = live
    BY <1>1 DEF BeingPushed, Taken, heap, mine
  <2>2. \A i, j \in DOMAIN linked' : linked'[i] = linked'[j] => i = j
    <3> TAKE i, j \in DOMAIN linked'
    <3>1. linked'[i] = linked'[j] => i + 1 = j + 1
      <4>1. /\ i + 1 \in DOMAIN linked /\ linked'[i] = linked[i + 1]
            /\ j + 1 \in DOMAIN linked /\ linked'[j] = linked[j + 1]
        BY <1>3, <1>5
      <4> QED
        BY <1>0, <4>1 DEF Owned
    <3>2. i \in Int /\ j \in Int
      BY <1>3
    <3> QED
      BY <3>1, <3>2
  <2> QED
    BY <1>0, <1>1, <1>6, <2>1, <2>2 DEF Owned, mine
<1>9. ReadsLinked'
  BY <1>1 DEF ReadsLinked
<1>10. Chain'
  <2>1. head' = Below(0)'
    BY <1>1, <1>3, <1>4 DEF Below
  <2>2. ASSUME NEW i \in DOMAIN linked' PROVE next'[linked'[i]] = Below(i)'
    <3>1. next'[linked'[i]] = Below(i + 1)
      BY <1>0, <1>1, <1>3, <1>5 DEF Chain, heap
    <3>2. CASE i < Len(linked')
      <4>1. i + 1 \in 1 .. Len(linked) - 1 /\ i + 1 < Len(linked)
        BY <1>3, <3>2
      <4> QED
        BY <1>3, <3>1, <3>2, <4>1 DEF Below
    <3>3. CASE ~ (i < Len(linked'))
      <4>1. ~ (i + 1 < Len(linked))
        BY <1>3, <3>3
      <4> QED
        BY <3>1, <3>3, <4>1 DEF Below
    <3> QED
      BY <3>2, <3>3
  <2> QED
    BY <2>1, <2>2 DEF Chain
<1>11. Pushers' /\ Consumer' /\ Deletes'
  BY <1>0, <1>1 DEF Pushers, Consumer, Deletes, heap, mine, deletion
<1> QED
  BY <1>7, <1>8, <1>9, <1>10, <1>11 DEF Inv

(* The node that the consumer took leads nowhere when it is deleted.       *)
LEMMA PopFinishesInv ==
  ASSUME Inv, PopFinishes
  PROVE  Inv'
<1>0. TypeOK /\ Owned /\ ReadsLinked /\ Chain /\ Pushers /\ Consumer /\ Deletes
  BY DEF Inv
<1>1. /\ cpc = "taken" /\ cpc' = "delete" /\ expected \in Addresses
      /\ reply' = value[expected] /\ next' = [next EXCEPT ![expected] = Null]
      /\ dying' = <<expected>> /\ ~unwinding
      /\ UNCHANGED <<head, value, live, mine, expected, after, draining, unwinding, linked>>
  BY <1>0 DEF PopFinishes, Consumer, Deletes
<1>2. TypeOK'
  BY <1>0, <1>1 DEF TypeOK, mine
<1>3. Linked' = Linked /\ BeingPushed' = BeingPushed /\ Taken = {expected} /\ Taken' = {expected}
  BY <1>1 DEF Linked, BeingPushed, Taken, mine
<1>4. Owned'
  BY <1>0, <1>1, <1>3 DEF Owned, mine
<1>5. \A b \in Linked \union BeingPushed : b # expected
  BY <1>0, <1>3 DEF Owned
<1>6. \A b \in Addresses : b # expected => next'[b] = next[b]
  BY <1>0, <1>1 DEF TypeOK
<1>7. Chain'
  <2>1. \A i \in DOMAIN linked : linked[i] \in Addresses /\ linked[i] # expected
    BY <1>0, <1>5 DEF TypeOK, Linked
  <2> QED
    BY <1>0, <1>1, <1>6, <2>1 DEF Chain, Below
<1>8. Pushers'
  BY <1>0, <1>1, <1>5, <1>6 DEF Pushers, BeingPushed, mine
<1>9. next'[expected] = Null
  BY <1>0, <1>1 DEF TypeOK
<1>10. ReadsLinked' /\ Consumer' /\ Deletes'
  BY <1>1, <1>9 DEF ReadsLinked, Consumer, Deletes
<1> QED
  BY <1>2, <1>4, <1>7, <1>8, <1>10 DEF Inv

(* The destructor begins with the head.                                    *)
LEMMA DestroyInv ==
  ASSUME Inv, Destroy
  PROVE  Inv'
<1>0. TypeOK /\ Owned /\ ReadsLinked /\ Chain /\ Pushers /\ Consumer /\ Deletes
  BY DEF Inv
<1>1. /\ cpc = "idle" /\ \A p \in Producers : pc[p] = "idle"
      /\ IF head = Null THEN cpc' = "destroyed" /\ dying' = dying
                        ELSE cpc' = "destroy" /\ dying' = <<head>>
      /\ UNCHANGED <<head, heap, mine, expected, after, draining, reply, unwinding, linked>>
  BY DEF Destroy
<1>2. TypeOK'
  <2>1. dying' \in Seq(Addresses) /\ cpc' \in {"destroy", "destroyed"}
    <3>1. head # Null => <<head>> \in Seq(Addresses)
      BY <1>0 DEF TypeOK
    <3> QED
      BY <1>0, <1>1, <3>1 DEF TypeOK
  <2> QED
    BY <1>0, <1>1, <2>1 DEF TypeOK, heap, mine
<1>3. Linked' = Linked /\ BeingPushed' = BeingPushed /\ Taken = {} /\ Taken' = {}
  BY <1>1 DEF Linked, BeingPushed, Taken, mine
<1>4. ~unwinding /\ dying = <<>>
  BY <1>0, <1>1 DEF Deletes
<1>5. linked \in Seq(Addresses) /\ head = Below(0)
  BY <1>0, <1>1 DEF TypeOK, Chain
<1>6. head = Null => linked = <<>>
  BY <1>5, StackAssumption DEF Below
<1>7. head # Null => Len(linked) >= 1 /\ head = linked[1]
  BY <1>5 DEF Below
<1>8. Owned' /\ ReadsLinked'
  BY <1>0, <1>1, <1>3, <1>4 DEF Owned, ReadsLinked, heap, mine
<1>9. Chain' /\ Pushers'
  BY <1>0, <1>1 DEF Chain, Below, Pushers, heap, mine
<1>10. Consumer'
  BY <1>0, <1>1, <1>6 DEF Consumer, mine
<1>11. Deletes'
  <2>1. CASE head = Null
    BY <1>1, <1>4, <2>1 DEF Deletes
  <2>2. CASE head # Null
    <3>1. cpc' = "destroy" /\ dying' = <<head>> /\ linked' = linked /\ ~unwinding'
      BY <1>1, <1>4, <2>2
    <3>2. Len(dying') = 1 /\ DOMAIN dying' = {1} /\ dying'[1] = linked[1]
      BY <1>7, <2>2, <3>1
    <3>3. Len(dying') \in 1 .. Len(linked)
      BY <1>5, <1>7, <2>2, <3>2
    <3>4. \A i \in DOMAIN dying' : dying'[i] = linked[Len(dying') + 1 - i]
      BY <3>2
    <3> QED
      BY <3>1, <3>3, <3>4 DEF Deletes
  <2> QED
    BY <2>1, <2>2
<1> QED
  BY <1>2, <1>8, <1>9, <1>10, <1>11 DEF Inv

(* What the nodes whose destructors run are: the node of Pop, or the first *)
(* ones on the stack.                                                      *)
LEMMA DyingAreLinked ==
  ASSUME Inv, Deleting
  PROVE  /\ dying \in Seq(Addresses) /\ dying # <<>> /\ Len(dying) \in Nat \ {0}
         /\ DOMAIN dying = 1 .. Len(dying) /\ Head(dying) = dying[1]
         /\ cpc = "destroy" =>
              /\ Len(dying) \in 1 .. Len(linked) /\ Len(linked) \in Nat
              /\ DOMAIN linked = 1 .. Len(linked)
              /\ Head(dying) = linked[Len(dying)]
              /\ next[Head(dying)] = Below(Len(dying))
              /\ \A i, j \in DOMAIN dying : dying[i] = dying[j] => i = j
<1>0. TypeOK /\ Owned /\ Chain /\ Deletes
  BY DEF Inv
<1>1. dying \in Seq(Addresses) /\ linked \in Seq(Addresses)
  BY <1>0 DEF TypeOK
<1>2. dying # <<>> /\ Len(dying) \in Nat \ {0}
  <2>1. CASE cpc = "delete"
    BY <1>0, <2>1 DEF Deletes
  <2>2. CASE cpc = "destroy"
    BY <1>0, <1>1, <2>2 DEF Deletes
  <2> QED
    BY <2>1, <2>2 DEF Deleting
<1>3. DOMAIN dying = 1 .. Len(dying) /\ Head(dying) = dying[1] /\ 1 \in DOMAIN dying
  BY <1>1, <1>2
<1>4. Len(linked) \in Nat /\ DOMAIN linked = 1 .. Len(linked)
  BY <1>1
<1>5. ASSUME cpc = "destroy"
      PROVE  /\ Len(dying) \in 1 .. Len(linked) /\ Head(dying) = linked[Len(dying)]
             /\ next[Head(dying)] = Below(Len(dying))
             /\ \A i, j \in DOMAIN dying : dying[i] = dying[j] => i = j
  <2>1. /\ Len(dying) \in 1 .. Len(linked)
        /\ \A i \in DOMAIN dying : dying[i] = linked[Len(dying) + 1 - i]
    BY <1>0, <1>5 DEF Deletes
  <2>2. (Len(dying) + 1) - 1 = Len(dying)
    BY <1>2
  <2>3. Head(dying) = linked[Len(dying)]
    BY <1>3, <2>1, <2>2
  <2>4. next[Head(dying)] = Below(Len(dying))
    BY <1>0, <1>4, <2>1, <2>3 DEF Chain
  <2>5. ASSUME NEW i \in DOMAIN dying, NEW j \in DOMAIN dying, dying[i] = dying[j]
        PROVE  i = j
    <3>1. Len(dying) + 1 - i \in DOMAIN linked /\ Len(dying) + 1 - j \in DOMAIN linked
      BY <1>2, <1>3, <1>4, <2>1
    <3>2. Len(dying) + 1 - i = Len(dying) + 1 - j
      BY <1>0, <2>1, <2>5, <3>1 DEF Owned
    <3> QED
      BY <1>2, <1>3, <3>2
  <2> QED
    BY <2>1, <2>3, <2>4, <2>5
<1> QED
  BY <1>1, <1>2, <1>3, <1>4, <1>5

(* ~Node goes down to the next linked node.                                *)
LEMMA DeletesNextInv ==
  ASSUME Inv, DeletesNext
  PROVE  Inv'
<1>0. TypeOK /\ Owned /\ ReadsLinked /\ Chain /\ Pushers /\ Consumer /\ Deletes
  BY DEF Inv
<1> DEFINE n == Len(dying)
<1>1. /\ dying' = <<next[Head(dying)]>> \o dying /\ ~unwinding /\ next[Head(dying)] # Null
      /\ UNCHANGED <<head, heap, mine, his, unwinding, linked>> /\ Deleting
  BY DEF DeletesNext, Innermost
<1>2. cpc = "destroy"
  BY <1>0, <1>1 DEF Deletes, Deleting
<1>3. /\ dying \in Seq(Addresses) /\ n \in Nat \ {0} /\ n \in 1 .. Len(linked)
      /\ Len(linked) \in Nat /\ DOMAIN dying = 1 .. n
      /\ next[Head(dying)] = Below(n)
  BY <1>1, <1>2, DyingAreLinked
<1>4. n < Len(linked) /\ next[Head(dying)] = linked[n + 1]
  BY <1>1, <1>3 DEF Below
<1>5. linked[n + 1] \in Addresses
  BY <1>0, <1>3, <1>4 DEF TypeOK
<1>6. dying' = <<linked[n + 1]>> \o dying
  BY <1>1, <1>4
<1>7. /\ dying' \in Seq(Addresses) /\ Len(dying') = n + 1 /\ DOMAIN dying' = 1 .. n + 1
      /\ dying'[1] = linked[n + 1]
      /\ \A i \in 2 .. n + 1 : dying'[i] = dying[i - 1]
  <2> HIDE <1>1
  <2>1. dying' \in Seq(Addresses) /\ Len(dying') = n + 1
    BY <1>3, <1>5, <1>6
  <2> QED
    BY <1>3, <1>5, <1>6, <2>1
<1>8. \A i \in DOMAIN dying' : dying'[i] = linked[Len(dying') + 1 - i]
  <2> TAKE i \in DOMAIN dying'
  <2>1. CASE i = 1
    <3>1. (n + 1) + 1 - 1 = n + 1
      BY <1>3
    <3> QED
      BY <1>7, <2>1, <3>1
  <2>2. CASE i # 1
    <3>1. i \in 2 .. n + 1 /\ i - 1 \in DOMAIN dying /\ n + 1 - (i - 1) = (n + 1) + 1 - i
      BY <1>3, <1>7, <2>2
    <3>2. dying[i - 1] = linked[n + 1 - (i - 1)]
      BY <1>0, <1>2, <3>1 DEF Deletes
    <3> QED
      BY <1>7, <3>1, <3>2
  <2> QED
    BY <2>1, <2>2
<1>9. Deletes'
  <2>1. Len(dying') \in 1 .. Len(linked')
    BY <1>1, <1>3, <1>4, <1>7
  <2> QED
    BY <1>1, <1>2, <1>8, <2>1 DEF Deletes, his
<1>10. TypeOK'
  BY <1>0, <1>1, <1>7 DEF TypeOK, heap, mine, his
<1>11. Linked' = Linked /\ BeingPushed' = BeingPushed /\ Taken' = Taken
  BY <1>1 DEF Linked, BeingPushed, Taken, mine, his
<1>12. Owned' /\ ReadsLinked'
  BY <1>0, <1>1, <1>11 DEF Owned, ReadsLinked, heap, mine, his
<1>13. Chain' /\ Pushers' /\ Consumer'
  BY <1>0, <1>1 DEF Chain, Below, Pushers, Consumer, heap, mine, his
<1> QED
  BY <1>9, <1>10, <1>12, <1>13 DEF Inv

(* A node that leads nowhere, or whose next one is deleted, is freed.      *)
LEMMA FreesNodeInv ==
  ASSUME Inv, FreesNode
  PROVE  Inv'
<1>0. TypeOK /\ Owned /\ ReadsLinked /\ Chain /\ Pushers /\ Consumer /\ Deletes
  BY DEF Inv
<1> DEFINE n == Len(dying)
<1>1. /\ Deleting /\ live' = live \ {Head(dying)} /\ dying' = Tail(dying)
      /\ unwinding' = (Tail(dying) # <<>>)
      /\ UNCHANGED <<head, value, next, mine, expected, after, draining, reply>>
  BY DEF FreesNode
<1>2. /\ dying \in Seq(Addresses) /\ dying # <<>> /\ n \in Nat \ {0} /\ DOMAIN dying = 1 .. n
      /\ Head(dying) = dying[1]
  BY <1>1, DyingAreLinked
<1>3. /\ dying' \in Seq(Addresses) /\ Len(dying') = n - 1 /\ DOMAIN dying' = 1 .. n - 1
      /\ \A i \in 1 .. n - 1 : dying'[i] = dying[i + 1]
  BY <1>1, <1>2, TakenAway
<1>4. CASE cpc = "delete"
  <2>1. dying = <<expected>>
    BY <1>0, <1>4 DEF Deletes
  <2>2. Head(dying) = expected /\ Tail(dying) = <<>>
    BY <2>1
  <2>3. /\ cpc' \in {"idle", "test"} /\ linked' = linked /\ dying' = <<>> /\ ~unwinding'
        /\ live' = live \ {expected}
    BY <1>1, <1>4, <2>2 DEF FreesNode, Returned
  <2>4. TypeOK'
    BY <1>0, <1>1, <1>3, <2>3 DEF TypeOK, mine
  <2>5. /\ Linked' = Linked /\ BeingPushed' = BeingPushed
        /\ Taken = {expected} /\ Taken' = {}
    BY <1>1, <1>4, <2>3 DEF Linked, BeingPushed, Taken, mine
  <2>6. Owned' /\ ReadsLinked'
    BY <1>0, <1>1, <1>4, <2>3, <2>5 DEF Owned, ReadsLinked, mine
  <2>7. Chain' /\ Pushers' /\ Consumer' /\ Deletes'
    BY <1>0, <1>1, <1>4, <2>3 DEF Chain, Below, Pushers, Consumer, Deletes, mine
  <2> QED
    BY <2>4, <2>6, <2>7 DEF Inv
<1>5. CASE cpc = "destroy"
  <2>1. /\ n \in 1 .. Len(linked) /\ Len(linked) \in Nat /\ DOMAIN linked = 1 .. Len(linked)
        /\ next[Head(dying)] = Below(n)
        /\ \A i, j \in DOMAIN dying : dying[i] = dying[j] => i = j
    BY <1>1, <1>5, DyingAreLinked
  <2>2. \A i \in DOMAIN dying : dying[i] = linked[n + 1 - i]
    BY <1>0, <1>5 DEF Deletes
  <2>3. \A p \in Producers : pc[p] = "idle" /\ pc'[p] = "idle"
    BY <1>0, <1>1, <1>5 DEF Consumer, mine
  <2>4. BeingPushed = {} /\ Taken = {}
    BY <1>5, <2>3 DEF BeingPushed, Taken
  <2>5. live = Dying
    <3>1. CASE unwinding
      BY <1>0, <1>5, <3>1 DEF Deletes
    <3>2. CASE ~unwinding
      <4>1. next[Head(dying)] = Null
        BY <3>2 DEF FreesNode, Innermost
      <4>2. n = Len(linked)
        <5>1. ASSUME n # Len(linked) PROVE FALSE
          <6>1. n + 1 \in DOMAIN linked /\ n < Len(linked)
            BY <2>1, <5>1
          <6>2. linked[n + 1] \in Addresses /\ linked[n + 1] = Null
            BY <1>0, <2>1, <4>1, <6>1 DEF TypeOK, Below
          <6> QED
            BY <6>2, StackAssumption
        <5> QED
          BY <5>1
      <4>3. Dying = Linked
        <5>1. ASSUME NEW i \in DOMAIN dying PROVE dying[i] \in Linked
          <6>1. n + 1 - i \in DOMAIN linked
            BY <1>2, <2>1
          <6> QED
            BY <2>2, <6>1 DEF Linked
        <5>2. ASSUME NEW i \in DOMAIN linked PROVE linked[i] \in Dying
          <6>1. n + 1 - i \in DOMAIN dying /\ n + 1 - (n + 1 - i) = i
            BY <1>2, <2>1, <4>2
          <6>2. dying[n + 1 - i] = linked[i]
            BY <2>2, <6>1
          <6> QED
            BY <6>1, <6>2 DEF Dying
        <5> QED
          BY <5>1, <5>2 DEF Dying, Linked
      <4> QED
        BY <1>0, <2>4, <3>2, <4>3 DEF Owned
    <3> QED
      BY <3>1, <3>2
  <2>6. \A i \in 1 .. n - 1 : i + 1 \in DOMAIN dying /\ i + 1 # 1
    BY <1>2
  <2>7. live' = Dying'
    <3>1. ASSUME NEW i \in DOMAIN dying' PROVE dying'[i] \in live'
      <4>1. dying'[i] = dying[i + 1] /\ i + 1 \in DOMAIN dying /\ i + 1 # 1 /\ 1 \in DOMAIN dying
        BY <1>2, <1>3, <2>6
      <4>2. dying[i + 1] # dying[1]
        BY <2>1, <4>1
      <4> QED
        BY <1>1, <1>2, <2>5, <4>1, <4>2 DEF Dying
    <3>2. ASSUME NEW a \in live' PROVE a \in Dying'
      <4>1. PICK i \in DOMAIN dying : a = dying[i] /\ a # dying[1]
        BY <1>1, <1>2, <2>5, <3>2 DEF Dying
      <4>2. i - 1 \in DOMAIN dying' /\ (i - 1) + 1 = i
        BY <1>2, <1>3, <4>1
      <4>3. dying'[i - 1] = a
        BY <1>3, <4>1, <4>2
      <4> QED
        BY <4>2, <4>3 DEF Dying
    <3> QED
      BY <3>1, <3>2 DEF Dying
  <2>8. CASE Tail(dying) = <<>>
    <3>1. /\ cpc' = "destroyed" /\ linked' = <<>> /\ dying' = <<>> /\ ~unwinding' /\ live' = {}
      <4>1. Dying' = {}
        BY <1>1, <2>8 DEF Dying
      <4> QED
        BY <1>1, <1>5, <2>7, <2>8, <4>1 DEF FreesNode
    <3>2. TypeOK'
      <4>1. linked' \in Seq(Addresses)
        BY <3>1
      <4> QED
        BY <1>0, <1>1, <1>3, <3>1, <4>1 DEF TypeOK, mine
    <3>3. Linked' = {} /\ BeingPushed' = {} /\ Taken' = {}
      BY <2>3, <3>1 DEF Linked, BeingPushed, Taken
    <3>4. Owned' /\ ReadsLinked'
      BY <1>0, <1>1, <3>1, <3>3 DEF Owned, ReadsLinked, mine
    <3>5. Chain' /\ Pushers' /\ Consumer' /\ Deletes'
      BY <1>0, <1>1, <2>3, <3>1 DEF Chain, Pushers, Consumer, Deletes, mine
    <3> QED
      BY <3>2, <3>4, <3>5 DEF Inv
  <2>9. CASE Tail(dying) # <<>>
    <3>1. cpc' = "destroy" /\ linked' = linked /\ unwinding'
      BY <1>1, <1>5, <2>9 DEF FreesNode
    <3>2. n - 1 \in 1 .. Len(linked) /\ Len(dying') = n - 1
      <4>1. dying' # <<>> /\ Len(dying') # 0
        BY <1>1, <1>3, <2>9
      <4> QED
        BY <1>2, <1>3, <2>1, <4>1
    <3>3. \A i \in DOMAIN dying' : dying'[i] = linked[Len(dying') + 1 - i]
      <4> TAKE i \in DOMAIN dying'
      <4>1. dying'[i] = dying[i + 1] /\ i + 1 \in DOMAIN dying /\ i \in Int
        BY <1>3, <2>6
      <4>2. n + 1 - (i + 1) = (n - 1) + 1 - i
        BY <1>2, <4>1
      <4> QED
        BY <2>2, <3>2, <4>1, <4>2
    <3>4. TypeOK'
      BY <1>0, <1>1, <1>3, <3>1 DEF TypeOK, mine
    <3>5. Linked' = Linked /\ BeingPushed' = BeingPushed /\ Taken' = Taken
      BY <1>1, <1>5, <3>1 DEF Linked, BeingPushed, Taken, mine
    <3>6. Owned' /\ ReadsLinked'
      BY <1>0, <1>1, <3>1, <3>5 DEF Owned, ReadsLinked, mine
    <3>7. Chain' /\ Pushers' /\ Consumer'
      BY <1>0, <1>1, <1>5, <3>1 DEF Chain, Below, Pushers, Consumer, mine
    <3>8. Deletes'
      BY <2>7, <3>1, <3>2, <3>3 DEF Deletes
    <3> QED
      BY <3>4, <3>6, <3>7, <3>8 DEF Inv
  <2> QED
    BY <2>8, <2>9
<1> QED
  BY <1>1, <1>4, <1>5 DEF Deleting

(* Every step preserves the invariant.                                     *)
LEMMA NextInv == Inv /\ [Next]_vars => Inv'
<1> SUFFICES ASSUME Inv, [Next]_vars PROVE Inv'
  OBVIOUS
<1>1. ASSUME NEW p \in Producers, Pushing(p) PROVE Inv'
  BY <1>1, PushLinksInv, PushMissesInv DEF Pushing
<1>2. ASSUME NEW p \in Producers, NEW v \in Values, NEW a \in Addresses, Push(p, v, a)
      PROVE  Inv'
  BY <1>2, PushInv
<1>3. CASE Consuming \/ PopStarts \/ DequeueAllStarts
  BY <1>3, LooksInv, PopTakesInv, PopFinishesInv, DeletesNextInv, FreesNodeInv DEF Consuming
<1>4. CASE Destroy
  BY <1>4, DestroyInv
<1>5. CASE UNCHANGED vars
  <2>1. Linked' = Linked /\ BeingPushed' = BeingPushed /\ Taken' = Taken
    BY <1>5 DEF vars, mine, his, Linked, BeingPushed, Taken
  <2>0. Dying' = Dying
    BY <1>5 DEF vars, deletion, Dying
  <2>2. TypeOK' /\ ReadsLinked' /\ Consumer'
    BY <1>5, <2>1 DEF Inv, vars, heap, mine, his, deletion, TypeOK, ReadsLinked, Consumer
  <2>3. Owned' /\ Chain' /\ Pushers'
    BY <1>5, <2>1 DEF Inv, vars, heap, mine, his, deletion, Owned, Chain, Below, Pushers
  <2>4. Deletes'
    BY <1>5, <2>0 DEF Inv, vars, heap, his, deletion, Deletes
  <2> QED
    BY <2>2, <2>3, <2>4 DEF Inv
<1> QED
  BY <1>1, <1>2, <1>3, <1>4, <1>5 DEF Next

(* The invariant holds in every reachable state.                           *)
LEMMA StackInvariant == Spec => []Inv
<1>1. Inv /\ [Next]_vars => Inv'
  BY NextInv
<1> QED
  BY InitInv, <1>1, PTL DEF Spec

-----------------------------------------------------------------------------
(* For all producers, values and addresses: every value is of its type.    *)
THEOREM StackTypeCorrect == Spec => []TypeOK
<1>1. Inv => TypeOK
  BY DEF Inv
<1> QED
  BY <1>1, StackInvariant, PTL

(* A set of places of a sequence that has a member has a first one.        *)
LEMMA FirstPlace ==
  ASSUME NEW S \in SUBSET Nat, S # {}
  PROVE  \E x \in S : \A y \in S : x =< y
<1> DEFINE upto(k) == 0 .. k
           T == {upto(k) : k \in S}
<1>1. T \subseteq FiniteSubsetsOf(Nat) /\ T # {}
  <2>1. \A k \in S : upto(k) \subseteq Nat /\ IsFiniteSet(upto(k))
    BY FS_Interval
  <2> QED
    BY <2>1 DEF FiniteSubsetsOf
<1>2. PICK a \in T : \A b \in T : ~ (<<b, a>> \in StrictSubsetOrdering(Nat))
  <2> HIDE DEF T
  <2> QED
    BY <1>1, FS_StrictSubsetOrderingWellFounded, WFMin
<1>3. PICK x \in S : a = upto(x)
  OBVIOUS
<1>4. \A y \in S : x =< y
  <2> SUFFICES ASSUME NEW y \in S, y < x PROVE FALSE
    OBVIOUS
  <2>1. upto(y) \subseteq upto(x) /\ x \in upto(x) /\ x \notin upto(y)
    OBVIOUS
  <2>2. upto(x) \in SUBSET Nat /\ upto(y) \in SUBSET Nat
    OBVIOUS
  <2>3. upto(y) \in T
    OBVIOUS
  <2> HIDE DEF upto
  <2> QED
    BY <1>2, <1>3, <2>1, <2>2, <2>3 DEF StrictSubsetOrdering
<1> QED
  BY <1>4

(* What head_ and next_ after next_ reach is what is linked: a set that    *)
(* holds the head and, with a node, the one after it, holds every linked   *)
(* node, since the first that it did not hold would come after one that it *)
(* holds.                                                                  *)
LEMMA ReachedAreLinked ==
  ASSUME Inv, cpc # "destroyed"
  PROVE  OnStack = Linked
<1>1. /\ linked \in Seq(Addresses) /\ Len(linked) \in Nat /\ DOMAIN linked = 1 .. Len(linked)
      /\ \A i \in DOMAIN linked : linked[i] \in Addresses /\ linked[i] # Null
  BY StackAssumption DEF Inv, TypeOK
<1>2. head = Below(0) /\ \A i \in DOMAIN linked : next[linked[i]] = Below(i)
  BY DEF Inv, Chain
<1>3. \A i \in 0 .. Len(linked) : Below(i) # Null => i + 1 \in DOMAIN linked /\ Below(i) = linked[i + 1]
  BY <1>1 DEF Below
<1>4. \A i \in DOMAIN linked : i \in 0 .. Len(linked)
  BY <1>1
<1>5. Linked \in SUBSET Addresses
  BY <1>1 DEF Linked
<1>6. Leads(Linked)
  <2>1. head # Null => head \in Linked
    BY <1>1, <1>2, <1>3 DEF Linked
  <2>2. ASSUME NEW i \in DOMAIN linked, next[linked[i]] # Null
        PROVE  next[linked[i]] \in Linked
    BY <1>2, <1>3, <1>4, <2>2 DEF Linked
  <2>3. \A a \in Linked : next[a] # Null => next[a] \in Linked
    BY <2>2 DEF Linked
  <2> QED
    BY <2>1, <2>3 DEF Leads
<1>7. OnStack \subseteq Linked
  BY <1>5, <1>6 DEF OnStack
<1>8. ASSUME NEW S \in SUBSET Addresses, Leads(S)
      PROVE  Linked \subseteq S
  <2> DEFINE missed == {i \in DOMAIN linked : linked[i] \notin S}
  <2>1. missed \in SUBSET Nat
    BY <1>1
  <2>2. ASSUME missed # {} PROVE FALSE
    <3>1. PICK i \in missed : \A j \in missed : i =< j
      <4> HIDE DEF missed
      <4> QED
        BY <2>1, <2>2, FirstPlace
    <3>2. i \in 1 .. Len(linked) /\ linked[i] \notin S
      BY <1>1
    <3>3. CASE i = 1
      <4>1. head = linked[1]
        BY <1>1, <1>2, <3>2, <3>3 DEF Below
      <4> QED
        BY <1>1, <1>8, <3>2, <3>3, <4>1 DEF Leads
    <3>4. CASE i # 1
      <4>1. i - 1 \in DOMAIN linked /\ (i - 1) + 1 = i /\ ~ (i =< i - 1) /\ i - 1 < Len(linked)
        BY <1>1, <3>2, <3>4
      <4>2. linked[i - 1] \in S
        BY <3>1, <4>1
      <4>3. next[linked[i - 1]] = linked[i]
        BY <1>2, <4>1 DEF Below
      <4> QED
        BY <1>1, <1>8, <3>2, <4>2, <4>3 DEF Leads
    <3> QED
      BY <3>3, <3>4
  <2> QED
    BY <2>2 DEF Linked
<1>9. Linked \subseteq OnStack
  BY <1>5, <1>8 DEF OnStack
<1> QED
  BY <1>7, <1>9

(* For all producers, values and addresses: what head_ and next_ reach is  *)
(* what was pushed and not popped, every node is in one place, and however *)
(* far ~Node follows next_, a node is deleted once and none is left.       *)
THEOREM StackNodesOwnedOnce == Spec => []NodesOwnedOnce
<1>1. ASSUME Inv PROVE NodesOwnedOnce
  <2>0. TypeOK /\ Owned /\ Consumer /\ Deletes
    BY <1>1 DEF Inv
  <2>1. cpc # "destroyed" => OnStack = Linked
    BY <1>1, ReachedAreLinked
  <2>2. cpc = "destroyed" => live = {} /\ BeingPushed = {} /\ Taken = {}
    <3>1. cpc = "destroyed" => Linked = {} /\ BeingPushed = {} /\ Taken = {}
      BY <2>0 DEF Consumer, Linked, BeingPushed, Taken
    <3> QED
      BY <2>0, <3>1 DEF Owned
  <2>3. Dying \subseteq live /\ \A i, j \in DOMAIN dying : dying[i] = dying[j] => i = j
    <3>1. CASE cpc = "delete"
      <4>1. dying = <<expected>> /\ expected \in live
        BY <2>0, <3>1 DEF Deletes, Owned, Taken
      <4> QED
        BY <4>1 DEF Dying
    <3>2. CASE cpc = "destroy"
      <4>1. /\ Len(dying) \in 1 .. Len(linked) /\ Len(linked) \in Nat
            /\ DOMAIN dying = 1 .. Len(dying) /\ DOMAIN linked = 1 .. Len(linked)
            /\ \A i, j \in DOMAIN dying : dying[i] = dying[j] => i = j
        BY <1>1, <3>2, DyingAreLinked DEF Deleting
      <4>2. ASSUME NEW i \in DOMAIN dying, ~unwinding PROVE dying[i] \in live
        <5>1. dying[i] = linked[Len(dying) + 1 - i] /\ Len(dying) + 1 - i \in DOMAIN linked
          BY <2>0, <3>2, <4>1 DEF Deletes
        <5> QED
          BY <2>0, <4>2, <5>1 DEF Owned, Linked
      <4>3. unwinding => live = Dying
        BY <2>0, <3>2 DEF Deletes
      <4> QED
        BY <4>1, <4>2, <4>3 DEF Dying
    <3>3. CASE cpc \notin {"delete", "destroy"}
      BY <2>0, <3>3 DEF Deletes, Dying
    <3> QED
      BY <3>1, <3>2, <3>3
  <2> QED
    BY <2>0, <2>1, <2>2, <2>3 DEF NodesOwnedOnce, Owned
<1> QED
  BY <1>1, StackInvariant, PTL

(* For all producers, values and addresses: the node that Pop reads is on  *)
(* the stack, and its next_ is still what Pop read.                        *)
THEOREM StackReadsLinkedNode == Spec => []ReadsLinkedNode
<1>1. ASSUME Inv PROVE ReadsLinkedNode
  BY <1>1, ReachedAreLinked DEF Inv, ReadsLinked, ReadsLinkedNode
<1> QED
  BY <1>1, StackInvariant, PTL

(* For all producers, values and addresses: the linked nodes are an atomic *)
(* stack, in which Push and Pop take effect at their exchange.             *)
THEOREM StackIsAtomic == Spec => ImplementsAtomicStack
<1> DEFINE stack == [i \in DOMAIN linked |-> value[linked[i]]]
           answer == IF cpc = "taken" THEN value[expected] ELSE reply
<1>1. Init => Abstract!Init
  BY DEF Init, Abstract!Init
<1>2. Inv /\ [Next]_vars => [Abstract!Next]_(Abstract!vars)
  <2> SUFFICES ASSUME Inv, [Next]_vars
               PROVE  Abstract!Next \/ UNCHANGED Abstract!vars
    OBVIOUS
  <2>0. /\ TypeOK /\ Owned /\ ReadsLinked /\ Chain /\ Pushers /\ Consumer /\ Deletes
        /\ linked \in Seq(Addresses) /\ DOMAIN linked = 1 .. Len(linked) /\ Len(linked) \in Nat
    BY DEF Inv, TypeOK
  <2>1. ASSUME NEW p \in Producers, NEW v \in Values, NEW a \in Addresses, Push(p, v, a)
        PROVE  UNCHANGED Abstract!vars
    <3>1. \A i \in DOMAIN linked : linked[i] # a /\ linked[i] \in Addresses
      BY <2>0, <2>1 DEF Owned, Linked, Push
    <3>2. \A i \in DOMAIN linked : value'[linked[i]] = value[linked[i]]
      BY <2>0, <2>1, <3>1 DEF Push, TypeOK
    <3>3. stack' = stack
      BY <2>1, <3>2 DEF Push
    <3>4. answer' = answer
      BY <2>0, <2>1 DEF Push, his, Owned, Taken, TypeOK, Consumer
    <3> QED
      BY <3>3, <3>4 DEF Abstract!vars
  <2>2. ASSUME NEW p \in Producers, PushLinks(p) PROVE Abstract!Next
    <3>1. /\ new[p] \in Addresses /\ value[new[p]] \in Values
          /\ linked' = <<new[p]>> \o linked /\ UNCHANGED <<value, cpc, expected, reply>>
      BY <2>0, <2>2 DEF PushLinks, Pushers, TypeOK, heap, his
    <3>2. stack' = <<value[new[p]]>> \o stack
      BY <2>0, <3>1
    <3>3. answer' = answer
      BY <3>1
    <3> QED
      BY <3>1, <3>2, <3>3 DEF Abstract!Next, Abstract!Push
  <2>3. CASE PopTakes
    <3>1. /\ linked' = Tail(linked) /\ linked # <<>> /\ expected = linked[1]
          /\ cpc # "taken" /\ cpc' = "taken" /\ UNCHANGED <<value, expected>>
      BY <2>0, <2>3 DEF PopTakes, heap, ReadsLinked, Linked, Chain, Below
    <3>2. stack # <<>> /\ Head(stack) = value[expected] /\ stack' = Tail(stack)
      BY <2>0, <3>1
    <3>3. answer' = value[expected]
      BY <3>1
    <3> QED
      BY <3>2, <3>3 DEF Abstract!Next, Abstract!Pop
  <2>4. CASE PopLoads \/ PopMisses
    <3>1. cpc # "taken" /\ cpc' # "taken" /\ UNCHANGED <<linked, value>>
      BY <2>4 DEF PopLoads, PopMisses, Sees, Returned, heap
    <3>2. CASE head = Null
      <4>1. reply' = Nothing
        BY <2>4, <3>2 DEF PopLoads, PopMisses, Sees
      <4>2. linked = <<>>
        BY <2>0, <2>4, <3>2, StackAssumption
        DEF PopLoads, PopMisses, Chain, Below, TypeOK
      <4> QED
        BY <3>1, <4>1, <4>2 DEF Abstract!Next, Abstract!PopOfNothing
    <3>3. CASE head # Null
      <4>1. reply' = reply
        BY <2>4, <3>3 DEF PopLoads, PopMisses, Sees
      <4> QED
        BY <3>1, <4>1 DEF Abstract!vars
    <3> QED
      BY <3>2, <3>3
  <2>5. CASE PopFinishes
    BY <2>5 DEF PopFinishes, Abstract!vars
  <2>6. CASE Destroy
    BY <2>6 DEF Destroy, heap, Abstract!vars
  <2>7. ASSUME NEW p \in Producers, PushMisses(p) PROVE UNCHANGED Abstract!vars
    BY <2>7 DEF PushMisses, his, Abstract!vars
  <2>8. CASE PopStarts \/ DequeueAllStarts \/ DequeueAllTests \/ PopReadsNext \/ PopMissesSpuriously
    BY <2>8 DEF PopStarts, DequeueAllStarts, DequeueAllTests, PopReadsNext,
                PopMissesSpuriously, heap, Abstract!vars
  <2>10. CASE DeletesNext
    BY <2>10 DEF DeletesNext, heap, his, Abstract!vars
  <2>11. CASE FreesNode
    <3>1. cpc # "taken" /\ cpc' # "taken" /\ UNCHANGED <<value, reply>>
      BY <2>11 DEF FreesNode, Deleting, Returned
    <3>2. linked' = linked \/ linked' = <<>>
      BY <2>11 DEF FreesNode
    <3> QED
      BY <3>1, <3>2 DEF Abstract!vars, Abstract!Next, Abstract!Destroy
  <2>9. CASE UNCHANGED vars
    BY <2>9 DEF vars, heap, his, Abstract!vars
  <2> QED
    BY <2>1, <2>2, <2>3, <2>4, <2>5, <2>6, <2>7, <2>8, <2>9, <2>10, <2>11
    DEF Next, Pushing, Consuming
<1> QED
  BY <1>1, <1>2, StackInvariant, PTL DEF Spec, ImplementsAtomicStack, Abstract!Spec
=============================================================================
