-------------------------- MODULE ConcurrentHashMap --------------------------
(***************************************************************************)
(* baby-threads/hash-table: a hash table of lists with a fixed array of    *)
(* mutexes.  Mutex number hash % LockCount guards bucket number            *)
(* hash % bucket_cnt_; Clear and Rehash take all mutexes in order and give *)
(* them back in the reverse order.                                         *)
(*                                                                         *)
(* What is done under one mutex is one step.  Insert is several steps: it  *)
(* looks the key up under the mutex, takes the mutex again to push, and    *)
(* after that reads size_ and bucket_cnt_ without a mutex to decide        *)
(* whether to rehash.                                                      *)
(*                                                                         *)
(* MaxLoad and Growth stand for the two 3s of the code (an instance takes  *)
(* a smaller MaxLoad so that few elements make it rehash).                 *)
(***************************************************************************)
EXTENDS Integers, SequencesExt, FiniteSetsExt

CONSTANTS Threads, Keys, Values, None, Hash, LockCount, MaxLoad, Growth

ASSUME MapAssumption ==
  /\ Hash \in [Keys -> Nat]
  /\ LockCount \in Nat \ {0} /\ MaxLoad \in Nat \ {0} /\ Growth \in Nat \ {0}
  /\ None \notin Threads \union Values \union (Keys \X Values)

VARIABLES table_, lock_, size_, bucket_cnt_,
          pc,       \* where each thread is
          arg,      \* the pair an Insert is about to push
          num,      \* the size an Insert read, or the number of mutexes taken
          reply     \* history: the operation that was last, with its result

vars == <<table_, lock_, size_, bucket_cnt_, pc, arg, num, reply>>

Elements == [key : Keys, value : Values]

Goto(t, there) == pc' = [pc EXCEPT ![t] = there]
SetNum(t, n) == num' = [num EXCEPT ![t] = n]

(* The mutex of k can be locked.                                           *)
Lockable(k) == lock_[Hash[k] % LockCount] = None

Index(k) == Hash[k] % bucket_cnt_
Bucket(k) == table_[Index(k)]

Places(k) == {i \in DOMAIN Bucket(k) : Bucket(k)[i].key = k}

(* The first element with the key is the one that is found.                *)
LookUp(k) == IF Places(k) = {} THEN None ELSE Bucket(k)[Min(Places(k))].value

(* The cells of the table, a bucket and a place in it each, and cells in   *)
(* the order in which a walk through the table meets them.                 *)
Cells == UNION {{i} \X DOMAIN table_[i] : i \in DOMAIN table_}
At(c) == table_[c[1]][c[2]]

Precedes(c, d) == c[1] < d[1] \/ (c[1] = d[1] /\ c[2] < d[2])

InOrder(C) == [n \in 1 .. Cardinality(C) |->
  CHOOSE c \in C : Cardinality({d \in C : Precedes(d, c)}) = n - 1]

-----------------------------------------------------------------------------
Init ==
  /\ table_ = [i \in 0 .. LockCount - 1 |-> <<>>]
  /\ lock_ = [i \in 0 .. LockCount - 1 |-> None]
  /\ size_ = 0
  /\ bucket_cnt_ = LockCount
  /\ pc = [t \in Threads |-> "idle"]
  /\ arg = [t \in Threads |-> None]
  /\ num = [t \in Threads |-> 0]
  /\ reply = <<"none">>

InsertRefuses(t, k) ==
  /\ pc[t] = "idle" /\ Lockable(k)
  /\ LookUp(k) # None
  /\ reply' = <<"insert", k, FALSE>>
  /\ UNCHANGED <<table_, lock_, size_, bucket_cnt_, pc, arg, num>>

InsertMisses(t, k, v) ==
  /\ pc[t] = "idle" /\ Lockable(k)
  /\ LookUp(k) = None
  /\ Goto(t, "inserting")
  /\ arg' = [arg EXCEPT ![t] = <<k, v>>]
  /\ UNCHANGED <<table_, lock_, size_, bucket_cnt_, num, reply>>

BugInsertPushes(t) ==
  LET k == arg[t][1] IN
  /\ pc[t] = "inserting" /\ Lockable(k)
  /\ table_' = [table_ EXCEPT ![Hash[k] % LockCount] =
                  Append(@, [key |-> k, value |-> arg[t][2]])]
  /\ size_' = size_ + 1
  /\ Goto(t, "inserted")
  /\ arg' = [arg EXCEPT ![t] = None]
  /\ reply' = <<"insert", k, TRUE>>
  /\ UNCHANGED <<lock_, bucket_cnt_, num>>
InsertPushes(t) ==
  LET k == arg[t][1] IN
  /\ pc[t] = "inserting" /\ Lockable(k)
  /\ table_' = [table_ EXCEPT ![Index(k)] =
                  Append(@, [key |-> k, value |-> arg[t][2]])]
  /\ size_' = size_ + 1
  /\ Goto(t, "inserted")
  /\ arg' = [arg EXCEPT ![t] = None]
  /\ reply' = <<"insert", k, TRUE>>
  /\ UNCHANGED <<lock_, bucket_cnt_, num>>

InsertReadsSize(t) ==
  /\ pc[t] = "inserted"
  /\ SetNum(t, size_)
  /\ Goto(t, "sized")
  /\ UNCHANGED <<table_, lock_, size_, bucket_cnt_, arg, reply>>

InsertReturns(t) ==
  /\ pc[t] = "sized" /\ num[t] =< MaxLoad * bucket_cnt_
  /\ SetNum(t, 0)
  /\ Goto(t, "idle")
  /\ UNCHANGED <<table_, lock_, size_, bucket_cnt_, arg, reply>>

RehashStarts(t) ==
  /\ pc[t] = "sized" /\ num[t] > MaxLoad * bucket_cnt_
  /\ SetNum(t, 0)
  /\ Goto(t, "rehash")
  /\ UNCHANGED <<table_, lock_, size_, bucket_cnt_, arg, reply>>

Erase(t, k) ==
  /\ pc[t] = "idle" /\ Lockable(k)
  /\ reply' = <<"erase", k, LookUp(k) # None>>
  /\ IF LookUp(k) = None
     THEN UNCHANGED <<table_, size_>>
     ELSE /\ table_' = [table_ EXCEPT ![Index(k)] = RemoveAt(@, Min(Places(k)))]
          /\ size_' = size_ - 1
  /\ UNCHANGED <<lock_, bucket_cnt_, pc, arg, num>>

(* At is Find and an exception when the key is not there.                  *)
Find(t, k) ==
  /\ pc[t] = "idle" /\ Lockable(k)
  /\ reply' = <<"find", k, LookUp(k)>>
  /\ UNCHANGED <<table_, lock_, size_, bucket_cnt_, pc, arg, num>>

ClearStarts(t) ==
  /\ pc[t] = "idle"
  /\ Goto(t, "clear")
  /\ UNCHANGED <<table_, lock_, size_, bucket_cnt_, arg, num, reply>>

-----------------------------------------------------------------------------
(* All mutexes, one after the other.                                       *)
BugLockNext(t) ==
  /\ pc[t] \in {"clear", "rehash"} /\ num[t] < LockCount
  /\ \E i \in DOMAIN lock_ :
       lock_[i] = None /\ lock_' = [lock_ EXCEPT ![i] = t]
  /\ SetNum(t, num[t] + 1)
  /\ UNCHANGED <<table_, size_, bucket_cnt_, pc, arg, reply>>
LockNext(t) ==
  /\ pc[t] \in {"clear", "rehash"} /\ num[t] < LockCount
  /\ lock_[num[t]] = None
  /\ lock_' = [lock_ EXCEPT ![num[t]] = t]
  /\ SetNum(t, num[t] + 1)
  /\ UNCHANGED <<table_, size_, bucket_cnt_, pc, arg, reply>>

ClearAll(t) ==
  /\ pc[t] = "clear" /\ num[t] = LockCount
  /\ size_' = 0
  /\ table_' = [i \in DOMAIN table_ |-> <<>>]
  /\ reply' = <<"clear">>
  /\ Goto(t, "unlock")
  /\ UNCHANGED <<lock_, bucket_cnt_, arg, num>>

(* The elements of all buckets that belong into bucket j of n, in the      *)
(* order in which they come.                                               *)
Gathered(j, n) ==
  LET from == InOrder({c \in Cells : Hash[At(c).key] % n = j})
  IN [m \in DOMAIN from |-> At(from[m])]

BugRehashAll(t) ==
  LET n == Growth * bucket_cnt_ IN
  /\ pc[t] = "rehash" /\ num[t] = LockCount
  /\ table_' = [j \in 0 .. n - 1 |-> Gathered(j, bucket_cnt_)]
  /\ bucket_cnt_' = n
  /\ Goto(t, "unlock")
  /\ UNCHANGED <<lock_, size_, arg, num, reply>>
RehashAll(t) ==
  LET n == Growth * bucket_cnt_ IN
  /\ pc[t] = "rehash" /\ num[t] = LockCount
  /\ table_' = [j \in 0 .. n - 1 |-> Gathered(j, n)]
  /\ bucket_cnt_' = n
  /\ Goto(t, "unlock")
  /\ UNCHANGED <<lock_, size_, arg, num, reply>>

UnlockNext(t) ==
  /\ pc[t] = "unlock"
  /\ lock_' = [lock_ EXCEPT ![num[t] - 1] = None]
  /\ SetNum(t, num[t] - 1)
  /\ IF num[t] = 1 THEN Goto(t, "idle") ELSE UNCHANGED pc
  /\ UNCHANGED <<table_, size_, bucket_cnt_, arg, reply>>

-----------------------------------------------------------------------------
Starts(t) ==
  \/ \E k \in Keys : InsertRefuses(t, k) \/ Erase(t, k) \/ Find(t, k)
  \/ \E k \in Keys, v \in Values : InsertMisses(t, k, v)
  \/ ClearStarts(t)

GoesOn(t) ==
  \/ InsertPushes(t) \/ InsertReadsSize(t) \/ InsertReturns(t) \/ RehashStarts(t)
  \/ LockNext(t) \/ ClearAll(t) \/ RehashAll(t) \/ UnlockNext(t)

Next == \E t \in Threads : Starts(t) \/ GoesOn(t)

Spec == Init /\ [][Next]_vars

(* A thread in a call goes on; nobody has to start a call.                 *)
Fairness == \A t \in Threads : WF_vars(GoesOn(t))

FairSpec == Spec /\ Fairness

-----------------------------------------------------------------------------
(* The buckets grow under the mutexes, of which there are always as many   *)
(* as at first: still, keys that share a bucket share its mutex.           *)
MutexGuardsBucket ==
  \A j, k \in Keys : Index(j) = Index(k) => Hash[j] % LockCount = Hash[k] % LockCount

(* Each element is in the bucket where Find, Erase and Insert look for it, *)
(* however its Insert met a rehash.                                        *)
ElementsAreFound ==
  \A i \in DOMAIN table_ : \A p \in DOMAIN table_[i] : Index(table_[i][p].key) = i

(* size_ is unsigned and changed under different mutexes; it is always the *)
(* number of elements, so it never wraps below zero.                       *)
SizeCountsElements == size_ = Cardinality(Cells)

(* All together: whoever holds the mutex of a key has the only bucket in   *)
(* which the key can be, to itself, and keeps the count.                   *)
BucketsInOrder == MutexGuardsBucket /\ ElementsAreFound /\ SizeCountsElements

(* The mutexes do not deadlock: when all threads are in calls, one of them *)
(* returns.                                                                *)
SomebodyReturns ==
  (\A t \in Threads : pc[t] # "idle") ~> (\E t \in Threads : pc[t] = "idle")

(* The values that the table has for each key, in the order in which a     *)
(* look-up meets them: only the first is found, and erased.                *)
ValuesOf(k) ==
  LET from == InOrder({c \in Cells : At(c).key = k})
  IN [m \in DOMAIN from |-> At(from[m]).value]

Contents == [k \in Keys |-> ValuesOf(k)]

(* readme.md:4,26: a thread-safe map in which a key has a single value.    *)
(* The code breaks this where two Inserts have both seen the key absent.   *)
Abstract == INSTANCE ConcurrentMap WITH values <- Contents, size <- size_
ImplementsMap == Abstract!Spec

(* An Insert that saw its key absent pushes behind another's value.        *)
InsertsTwice == \E t \in Threads, k \in Keys, v \in Values :
  /\ pc[t] = "inserting" /\ arg[t] = <<k, v>>
  /\ Contents[k] # <<>>
  /\ Contents' = [Contents EXCEPT ![k] = Append(@, v)]
  /\ size_' = size_ + 1
  /\ reply' = <<"insert", k, TRUE>>

(* But for that step each operation is one step of the map: threads that   *)
(* insert, erase, clear and rehash at the same time lose, move and double  *)
(* nothing, and a second value, once there, is found after the first.      *)
MapUnlessTwice ==
  Abstract!Init /\ [][Abstract!Next \/ InsertsTwice]_(Abstract!vars)
=============================================================================
