---------------------------- MODULE MCTimerQueue ----------------------------
(* Two threads and two items.                                              *)
EXTENDS TimerQueue

CONSTANTS t1, t2, a, b
MCThreads == {t1, t2}
MCItems == {a, b}
=============================================================================
