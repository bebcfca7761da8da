------------------------- MODULE MCConcurrentHashMap -------------------------
(* Two threads, two keys and two values.  With two buckets k1 and k2 share *)
(* one, with six each has its own.  Both threads may insert a key at the   *)
(* same time; the third element, a second value, makes the table grow.     *)
EXTENDS ConcurrentHashMap

CONSTANTS t1, t2, k1, k2, v, w

TwoThreads == {t1, t2}
TwoKeys == {k1, k2}
TwoValues == {v, w}
MCHash == k1 :> 0 @@ k2 :> 4
=============================================================================
