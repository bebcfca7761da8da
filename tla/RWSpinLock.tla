----------------------------- MODULE RWSpinLock -----------------------------
(***************************************************************************)
(* lock-free/rw-spinlock: a readers-writer spinlock in one atomic word.    *)
(* The top bit of the word (LAST_BIT) is the writer's flag, the bits below *)
(* it count the readers.  Every atomic access of the code is one step.     *)
(*                                                                         *)
(* A user is one holder of the lock, which holds it at most once at        *)
(* a time; a program thread that nests read sections is several of them.   *)
(* The names differ from RWLock's: ReadersWriters_proofs extends both.     *)
(***************************************************************************)
EXTENDS Naturals, FiniteSets

CONSTANTS Users,     \* the users of the lock
          LastBit    \* the value of LAST_BIT, 2^63 in the code

\* The word has 2^63 reader values; fewer users than that can ever exist.
ASSUME ReadersFit ==
  /\ IsFiniteSet(Users)
  /\ LastBit \in Nat
  /\ Cardinality(Users) < LastBit

VARIABLES val,       \* val_, the atomic word
          place,     \* where each user is
          expected   \* LockRead's local `expected`

spin_vars == <<val, place, expected>>

Word == 0 .. 2 * LastBit - 1

ReadersInside == {t \in Users : place[t] = "reading"}
WritersInside == {t \in Users : place[t] = "writing"}

Moves(t, there) == place' = [place EXCEPT ![t] = there]

-----------------------------------------------------------------------------
SpinInit ==
  /\ val = 0
  /\ place = [t \in Users |-> "idle"]
  /\ expected = [t \in Users |-> 0]

(* What the words of the lock become: `& ~LAST_BIT` clears the top bit,    *)
(* fetch_sub wraps at the width of the word.                               *)
ReaderBits(v) == IF v >= LastBit THEN v - LastBit ELSE v

BugOneLess(v) == v
OneLess(v) == IF v = 0 THEN 2 * LastBit - 1 ELSE v - 1

WantsRead(t)  == place[t] = "idle" /\ Moves(t, "load") /\ UNCHANGED <<val, expected>>
WantsWrite(t) == place[t] = "idle" /\ Moves(t, "claim") /\ UNCHANGED <<val, expected>>

(* LockRead: load the word, drop the writer's flag, and try to replace the *)
(* word by one more reader; a failed exchange loads again.                 *)
LoadForRead(t) ==
  /\ place[t] = "load"
  /\ expected' = [expected EXCEPT ![t] = ReaderBits(val)]
  /\ Moves(t, "exchange")
  /\ UNCHANGED val

ReadEnters(t) ==
  /\ place[t] = "exchange"
  /\ val = expected[t]
  /\ val' = expected[t] + 1
  /\ Moves(t, "reading")
  /\ UNCHANGED expected

ReadRetries(t) ==
  /\ place[t] = "exchange"
  /\ val # expected[t]
  /\ Moves(t, "load")
  /\ UNCHANGED <<val, expected>>

UnlockRead(t) ==
  /\ place[t] = "reading"
  /\ val' = OneLess(val)
  /\ Moves(t, "idle")
  /\ UNCHANGED expected

(* LockWrite spins on exchanging 0 for LAST_BIT; a failed exchange leaves  *)
(* everything as it is.                                                    *)
BugWriteClaims(t) ==
  /\ place[t] = "claim"
  /\ ReaderBits(val) = 0
  /\ val' = LastBit
  /\ Moves(t, "writing")
  /\ UNCHANGED expected
WriteClaims(t) ==
  /\ place[t] = "claim"
  /\ val = 0
  /\ val' = LastBit
  /\ Moves(t, "writing")
  /\ UNCHANGED expected

UnlockWrite(t) ==
  /\ place[t] = "writing"
  /\ val' = 0
  /\ Moves(t, "idle")
  /\ UNCHANGED expected

-----------------------------------------------------------------------------
Acquire(t) == ReadEnters(t) \/ WriteClaims(t)
Locking(t) == LoadForRead(t) \/ ReadRetries(t) \/ Acquire(t)
Unlocking(t) == UnlockRead(t) \/ UnlockWrite(t)

SpinNext == \E t \in Users :
  WantsRead(t) \/ WantsWrite(t) \/ Locking(t) \/ Unlocking(t)

SpinSpec == SpinInit /\ [][SpinNext]_spin_vars

(* The scheduler runs every thread that spins or is in its section; nobody *)
(* is obliged to ask for the lock.                                         *)
SpinFairness == \A t \in Users :
  WF_spin_vars(LoadForRead(t) \/ ReadRetries(t) \/ ReadEnters(t))
    /\ WF_spin_vars(WriteClaims(t)) /\ WF_spin_vars(Unlocking(t))

FairSpinSpec == SpinSpec /\ SpinFairness

-----------------------------------------------------------------------------
(* Every value is of its type; in particular the word never leaves its     *)
(* width and an expected word never carries the writer's flag.             *)
SpinTypeOK ==
  /\ val \in Word
  /\ place \in [Users -> {"idle", "load", "exchange", "reading", "claim", "writing"}]
  /\ expected \in [Users -> 0 .. LastBit - 1]

(* The word tells the truth about who is inside, at every step: exactly    *)
(* the number of readers, or exactly LAST_BIT for a single writer with no  *)
(* reader.  UnlockWrite's blind store(0) and UnlockRead's blind            *)
(* fetch_sub(1) are right only because of this.                            *)
WordCountsHolders ==
  \/ WritersInside = {} /\ val = Cardinality(ReadersInside)
  \/ \E w \in Users : WritersInside = {w} /\ ReadersInside = {} /\ val = LastBit

(* A write section excludes every other section (readme.md: the write lock *)
(* is owned exclusively).                                                  *)
MutualExclusion ==
  \A t, u \in Users :
    t # u /\ place[t] = "writing" => place[u] \notin {"reading", "writing"}

(* LockRead and LockWrite implement the readers-writer exclusion: the      *)
(* successful exchange is the moment of entry.                             *)
Exclusion == INSTANCE RWExclusion
  WITH Threads <- Users, readers <- ReadersInside, writers <- WritersInside
SpinImplementsRWExclusion == Exclusion!Spec

(* Lock freedom: as long as somebody keeps asking for the lock, the lock   *)
(* keeps being acquired by somebody (single users may starve).             *)
LockFree ==
  \/ <>[](\A t \in Users : place[t] \notin {"load", "exchange", "claim"})
  \/ []<><<\E t \in Users : Acquire(t)>>_spin_vars
=============================================================================
