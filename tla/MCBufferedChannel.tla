-------------------------- MODULE MCBufferedChannel --------------------------
(* Three threads, two values and room for two of them.                     *)
EXTENDS BufferedChannel
CONSTANTS t1, t2, t3, v1, v2

ThreeThreads == {t1, t2, t3}
TwoValues == {v1, v2}
=============================================================================
