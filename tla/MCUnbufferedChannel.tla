------------------------- MODULE MCUnbufferedChannel -------------------------
(* Four threads and two values.                                            *)
EXTENDS UnbufferedChannel
CONSTANTS t1, t2, t3, t4, v1, v2

FourThreads == {t1, t2, t3, t4}
TwoValues == {v1, v2}
=============================================================================
