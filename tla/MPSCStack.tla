------------------------------ MODULE MPSCStack ------------------------------
(***************************************************************************)
(* lock-free/mpsc-stack: a stack of linked nodes with an atomic head, for  *)
(* many threads that push and one that pops.  Every access to head_ is one *)
(* step; so is the reading of expected->next_, which Pop does before it    *)
(* knows that the node will be its own.                                    *)
(*                                                                         *)
(* The allocator gives out any address that is free, one that was deleted  *)
(* a moment ago included.  compare_exchange_weak may fail spuriously: in   *)
(* Push this changes nothing, in Pop the node is read again.               *)
(***************************************************************************)
EXTENDS Sequences

CONSTANTS Producers, Values,
          Addresses,   \* where a node may be allocated
          Null,        \* nullptr
          Nothing      \* std::nullopt

ASSUME StackAssumption == Null \notin Addresses /\ Nothing \notin Values

VARIABLES head,         \* head_
          value, next,  \* value_ and next_ of the node at an address
          live,         \* the addresses of the nodes that exist
          pc, new,      \* of a producer: where it is, and new_head
          seen,         \* of a producer: expected
          cpc,          \* where the consumer is
          expected, after,   \* the consumer's expected, and expected->next_ as it read it
          draining,     \* the consumer is in DequeueAll
          reply,        \* what its last Pop answered
          dying,        \* the nodes whose ~Node has begun, the innermost first
          unwinding,    \* the innermost of them has returned
          linked        \* history: the addresses pushed and not popped, the last one first

heap == <<value, next, live>>
mine == <<pc, new, seen>>
his == <<cpc, expected, after, draining, reply>>
deletion == <<dying, unwinding>>
vars == <<head, heap, mine, his, deletion, linked>>

Goto(p, there) == pc' = [pc EXCEPT ![p] = there]

-----------------------------------------------------------------------------
Init ==
  /\ head = Null
  /\ value \in [Addresses -> Values]
  /\ next = [a \in Addresses |-> Null]
  /\ live = {}
  /\ pc = [p \in Producers |-> "idle"]
  /\ new = [p \in Producers |-> Null]
  /\ seen = [p \in Producers |-> Null]
  /\ cpc = "idle" /\ expected = Null /\ after = Null
  /\ draining = FALSE
  /\ reply = Nothing
  /\ dying = <<>> /\ unwinding = FALSE
  /\ linked = <<>>

(* Push: `expected` starts as nullptr whatever head_ is.                   *)
Push(p, v, a) ==
  /\ pc[p] = "idle" /\ cpc \notin {"destroy", "destroyed"}
  /\ a \notin live
  /\ live' = live \union {a}
  /\ value' = [value EXCEPT ![a] = v]
  /\ next' = [next EXCEPT ![a] = Null]
  /\ new' = [new EXCEPT ![p] = a]
  /\ seen' = [seen EXCEPT ![p] = Null]
  /\ Goto(p, "exchange")
  /\ UNCHANGED <<head, his, deletion, linked>>

PushLinks(p) ==
  /\ pc[p] = "exchange"
  /\ head = seen[p]
  /\ head' = new[p]
  /\ linked' = <<new[p]>> \o linked
  /\ Goto(p, "idle")
  /\ UNCHANGED <<heap, new, seen, his, deletion>>

BugPushMissesUnlinked(p) ==
  /\ pc[p] = "exchange"
  /\ head # seen[p]
  /\ seen' = [seen EXCEPT ![p] = head]
  /\ UNCHANGED <<head, heap, pc, new, his, deletion, linked>>
BugPushMissesUnseen(p) ==
  /\ pc[p] = "exchange"
  /\ head # seen[p]
  /\ next' = [next EXCEPT ![new[p]] = head]
  /\ UNCHANGED <<head, value, live, pc, new, seen, his, deletion, linked>>
PushMisses(p) ==
  /\ pc[p] = "exchange"
  /\ head # seen[p]
  /\ seen' = [seen EXCEPT ![p] = head]
  /\ next' = [next EXCEPT ![new[p]] = head]
  /\ UNCHANGED <<head, value, live, pc, new, his, deletion, linked>>

-----------------------------------------------------------------------------
(* Where the consumer goes when Pop returns.                               *)
Returned == cpc' = IF draining THEN "test" ELSE "idle"

PopStarts ==
  /\ cpc = "idle"
  /\ cpc' = "load"
  /\ UNCHANGED <<head, heap, mine, expected, after, draining, reply, deletion, linked>>

DequeueAllStarts ==
  /\ cpc = "idle"
  /\ cpc' = "test" /\ draining' = TRUE
  /\ UNCHANGED <<head, heap, mine, expected, after, reply, deletion, linked>>

DequeueAllTests ==
  /\ cpc = "test"
  /\ cpc' = IF head = Null THEN "idle" ELSE "load"
  /\ draining' = (head # Null)
  /\ UNCHANGED <<head, heap, mine, expected, after, reply, deletion, linked>>

(* Pop has found h at the head: nothing to pop, or a node to read.         *)
Sees(h) ==
  /\ expected' = h
  /\ IF h = Null THEN Returned /\ reply' = Nothing
     ELSE cpc' = "read" /\ UNCHANGED reply

PopLoads ==
  /\ cpc = "load"
  /\ Sees(head)
  /\ UNCHANGED <<head, heap, mine, after, draining, deletion, linked>>

PopReadsNext ==
  /\ cpc = "read"
  /\ after' = next[expected]
  /\ cpc' = "exchange"
  /\ UNCHANGED <<head, heap, mine, expected, draining, reply, deletion, linked>>

PopTakes ==
  /\ cpc = "exchange"
  /\ head = expected
  /\ head' = after
  /\ linked' = Tail(linked)
  /\ cpc' = "taken"
  /\ UNCHANGED <<heap, mine, expected, after, draining, reply, deletion>>

BugPopMisses ==
  /\ cpc = "exchange"
  /\ head # expected
  /\ expected' = head
  /\ UNCHANGED <<head, heap, mine, cpc, after, draining, reply, deletion, linked>>
PopMisses ==
  /\ cpc = "exchange"
  /\ head # expected
  /\ Sees(head)
  /\ UNCHANGED <<head, heap, mine, after, draining, deletion, linked>>

PopMissesSpuriously ==
  /\ cpc = "exchange"
  /\ head = expected
  /\ cpc' = "read"
  /\ UNCHANGED <<head, heap, mine, expected, after, draining, reply, deletion, linked>>

(* The node is the consumer's: it copies the value, clears next_ and       *)
(* begins to delete the node.                                              *)
BugPopFinishes ==
  /\ cpc = "taken"
  /\ reply' = value[expected]
  /\ dying' = <<expected>>
  /\ cpc' = "delete"
  /\ UNCHANGED <<head, heap, mine, expected, after, draining, unwinding, linked>>
PopFinishes ==
  /\ cpc = "taken"
  /\ reply' = value[expected]
  /\ next' = [next EXCEPT ![expected] = Null]
  /\ dying' = <<expected>>
  /\ cpc' = "delete"
  /\ UNCHANGED <<head, value, live, mine, expected, after, draining, unwinding, linked>>

(* The destructor, when nobody uses the stack any more.                    *)
Destroy ==
  /\ cpc = "idle" /\ \A p \in Producers : pc[p] = "idle"
  /\ IF head = Null
     THEN cpc' = "destroyed" /\ UNCHANGED dying
     ELSE cpc' = "destroy" /\ dying' = <<head>>
  /\ UNCHANGED <<head, heap, mine, expected, after, draining, reply, unwinding, linked>>

(* ~Node deletes the node at next_, if there is one, before its own node   *)
(* is freed.                                                               *)
Deleting == cpc \in {"delete", "destroy"}
Innermost == unwinding \/ next[Head(dying)] = Null

DeletesNext ==
  /\ Deleting /\ ~Innermost
  /\ dying' = <<next[Head(dying)]>> \o dying
  /\ UNCHANGED <<head, heap, mine, his, unwinding, linked>>

FreesNode ==
  /\ Deleting /\ Innermost
  /\ live' = live \ {Head(dying)}
  /\ dying' = Tail(dying)
  /\ unwinding' = (Tail(dying) # <<>>)
  /\ IF Tail(dying) # <<>> THEN UNCHANGED <<cpc, linked>>
     ELSE IF cpc = "delete" THEN Returned /\ UNCHANGED linked
     ELSE cpc' = "destroyed" /\ linked' = <<>>
  /\ UNCHANGED <<head, value, next, mine, expected, after, draining, reply>>

-----------------------------------------------------------------------------
Pushing(p) == PushLinks(p) \/ PushMisses(p)
Consuming ==
  \/ DequeueAllTests \/ PopLoads \/ PopReadsNext
  \/ PopTakes \/ PopMisses \/ PopMissesSpuriously \/ PopFinishes
  \/ DeletesNext \/ FreesNode

Next ==
  \/ \E p \in Producers :
       Pushing(p) \/ \E v \in Values, a \in Addresses : Push(p, v, a)
  \/ Consuming \/ PopStarts \/ DequeueAllStarts \/ Destroy

Spec == Init /\ [][Next]_vars

(* Every thread inside an operation is scheduled, and an exchange does not *)
(* fail spuriously for ever; nobody is obliged to begin an operation.      *)
Fairness ==
  /\ \A p \in Producers : WF_vars(Pushing(p))
  /\ WF_vars(Consuming)
  /\ SF_vars(PopTakes \/ PopMisses)

FairSpec == Spec /\ Fairness

-----------------------------------------------------------------------------
Linked == {linked[i] : i \in DOMAIN linked}
BeingPushed == {new[p] : p \in {p \in Producers : pc[p] = "exchange"}}
Taken == IF cpc \in {"taken", "delete"} THEN {expected} ELSE {}
Dying == {dying[i] : i \in DOMAIN dying}

(* The nodes on the stack: what head_ and then next_ after next_ reach.    *)
Leads(S) ==
  /\ head # Null => head \in S
  /\ \A a \in S : next[a] # Null => next[a] \in S
OnStack == {a \in Addresses : \A S \in SUBSET Addresses : Leads(S) => a \in S}

(* Every value is of its type.                                             *)
TypeOK ==
  /\ head \in Addresses \union {Null}
  /\ value \in [Addresses -> Values]
  /\ next \in [Addresses -> Addresses \union {Null}]
  /\ live \subseteq Addresses
  /\ pc \in [Producers -> {"idle", "exchange"}]
  /\ new \in [Producers -> Addresses \union {Null}]
  /\ seen \in [Producers -> Addresses \union {Null}]
  /\ cpc \in {"idle", "test", "load", "read", "exchange", "taken",
             "delete", "destroy", "destroyed"}
  /\ expected \in Addresses \union {Null}
  /\ after \in Addresses \union {Null}
  /\ draining \in BOOLEAN
  /\ reply \in Values \union {Nothing}
  /\ dying \in Seq(Addresses) /\ unwinding \in BOOLEAN
  /\ linked \in Seq(Addresses)

(* What head_ and next_ reach is what has been pushed and not popped: no   *)
(* node is cut off.  Every node that exists is in one place: on the stack, *)
(* with the thread that pushes it, or with the consumer that took it.  A   *)
(* node is deleted while it exists, and once, whatever ~Node follows; the  *)
(* destructor leaves none.                                                 *)
NodesOwnedOnce ==
  /\ cpc \notin {"destroy", "destroyed"} =>
       OnStack = Linked /\ live = OnStack \union BeingPushed \union Taken
  /\ \A p, q \in Producers :
       pc[p] = "exchange" /\ pc[q] = "exchange" /\ new[p] = new[q] => p = q
  /\ OnStack \intersect BeingPushed = {}
  /\ Taken \intersect (OnStack \union BeingPushed) = {}
  /\ Dying \subseteq live
  /\ \A i, j \in DOMAIN dying : dying[i] = dying[j] => i = j
  /\ cpc = "destroyed" => live = {}

(* The node that Pop reads before it owns it is still on the stack, and    *)
(* what it read there stays true until its exchange: a stale head makes    *)
(* the exchange fail, never succeed with a wrong next_.                    *)
ReadsLinkedNode ==
  /\ cpc \in {"read", "exchange"} => expected \in OnStack
  /\ cpc = "exchange" => after = next[expected]

(* Push and Pop implement the stack of AtomicStack, and take effect at     *)
(* their exchange.                                                         *)
Abstract == INSTANCE AtomicStack WITH
  stack <- [i \in DOMAIN linked |-> value[linked[i]]],
  reply <- IF cpc = "taken" THEN value[expected] ELSE reply
ImplementsAtomicStack == Abstract!Spec

(* Lock freedom: while threads are inside operations, operations keep      *)
(* being completed by somebody.                                            *)
FindsNothing == head = Null /\ (PopLoads \/ DequeueAllTests)
Completes == PopTakes \/ FindsNothing \/ \E p \in Producers : PushLinks(p)

LockFree ==
  \/ <>[](cpc \in {"idle", "destroyed"} /\ \A p \in Producers : pc[p] = "idle")
  \/ []<><<Completes>>_vars
=============================================================================
