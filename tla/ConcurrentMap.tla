---------------------------- MODULE ConcurrentMap ----------------------------
(***************************************************************************)
(* What baby-threads/hash-table promises (readme.md:4,26): a map with one  *)
(* value for a key, and its size.  Each operation is atomic.  Insert and   *)
(* Erase say whether they succeeded, and Insert does nothing when the key  *)
(* is there already.                                                       *)
(***************************************************************************)
EXTENDS Naturals, Sequences

CONSTANTS Keys, Values, None

VARIABLES values,     \* the values of each key: none or one
          size, reply \* reply: the operation that was last, with its result

vars == <<values, size, reply>>

Init ==
  /\ values = [k \in Keys |-> <<>>]
  /\ size = 0 /\ reply = <<"none">>

Insert(k, v) ==
  /\ values[k] = <<>>
  /\ values' = [values EXCEPT ![k] = Append(@, v)]
  /\ size' = size + 1
  /\ reply' = <<"insert", k, TRUE>>

Refuse(k) ==
  /\ values[k] # <<>>
  /\ reply' = <<"insert", k, FALSE>>
  /\ UNCHANGED <<values, size>>

Erase(k) ==
  /\ values[k] # <<>>
  /\ values' = [values EXCEPT ![k] = Tail(@)]
  /\ size' = size - 1
  /\ reply' = <<"erase", k, TRUE>>

EraseNothing(k) ==
  values[k] = <<>> /\ reply' = <<"erase", k, FALSE>> /\ UNCHANGED <<values, size>>

Find(k) ==
  /\ reply' = <<"find", k, IF values[k] = <<>> THEN None ELSE Head(values[k])>>
  /\ UNCHANGED <<values, size>>

Clear ==
  /\ values' = [k \in Keys |-> <<>>] /\ size' = 0
  /\ reply' = <<"clear">>

Next ==
  \/ \E k \in Keys :
       \/ Refuse(k) \/ Erase(k) \/ EraseNothing(k) \/ Find(k)
       \/ \E v \in Values : Insert(k, v)
  \/ Clear

Spec == Init /\ [][Next]_vars
=============================================================================
