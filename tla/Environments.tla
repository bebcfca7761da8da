---------------------------- MODULE Environments ----------------------------
(***************************************************************************)
(* What names mean in a Scheme with syntactic scope.  A frame binds names  *)
(* to variables; the first frame is the global one, each running call of a *)
(* lambda has one more, that begins with what the lambda captured and its  *)
(* parameter.  A name means the variable that the frame of the running     *)
(* call binds it to, or else the global frame, or else a built-in          *)
(* function, which cannot be set; who called the lambda does not matter.   *)
(* A lambda captures the variables, not their values, that its frame binds *)
(* when it is made; the lambda that a define makes also knows itself by    *)
(* the variable that is defined.  An error ends all calls.  A variable     *)
(* lives as long as it can be reached.                                     *)
(***************************************************************************)
EXTENDS Naturals, Sequences

CONSTANTS Names, Builtins, Lambdas, Variables, None

VARIABLES frames,     \* sequence of bindings, Names -> Variables or None
          running,    \* the number of running calls
          closures,   \* what each lambda captured, None before it is made
          live,       \* the variables that live
          meaning     \* what this step looked up, or the lambda that it made

vars == <<frames, running, closures, live, meaning>>

NoBinding == [n \in Names |-> None]
Fresh == Variables \ live

Current == frames[Len(frames)]
Variable(n) == IF Current[n] # None THEN Current[n] ELSE frames[1][n]

(* What is bound or captured lives.                                        *)
Reachable ==
  {frames[i][n] : i \in DOMAIN frames, n \in Names}
    \union UNION {{closures[l][n] : n \in Names} : l \in {l \in Lambdas : closures[l] # None}}
AllLive == Reachable \ {None} \subseteq live

Init ==
  /\ frames = <<NoBinding>>
  /\ running = 0
  /\ closures = [l \in Lambdas |-> None]
  /\ live = {}
  /\ meaning = None

Make(l) ==
  /\ closures[l] = None
  /\ closures' = [closures EXCEPT ![l] = Current]
  /\ meaning' = l
  /\ UNCHANGED <<frames, running, live>>

Bind(n, v) ==
  /\ frames' = [frames EXCEPT ![Len(frames)][n] = v]
  /\ live' = live \union {v}
  /\ meaning' = None
  /\ UNCHANGED running

Define(n, v) == Bind(n, v) /\ UNCHANGED closures

DefineLambda(n, v, l) ==
  /\ meaning = l
  /\ Bind(n, v)
  /\ closures' = [closures EXCEPT ![l][n] = v]

Means(m) == meaning' = m /\ UNCHANGED <<frames, running, closures, live>>

Look(n) ==
  \/ Variable(n) # None /\ Means(Variable(n))
  \/ Variable(n) = None /\ n \in Builtins /\ Means("builtin")

Set(n) == Variable(n) # None /\ Means(Variable(n))

(* An error of any kind, or a name without a meaning.                      *)
Fail ==
  /\ \/ running > 0 /\ meaning' = None
     \/ meaning' = "NameError" /\ \E n \in Names : Variable(n) = None
  /\ frames' = <<frames[1]>>
  /\ running' = 0
  /\ live' \subseteq live
  /\ UNCHANGED closures

Enter(l) ==
  /\ meaning' = None
  /\ closures[l] # None
  /\ \/ frames' = Append(frames, closures[l]) /\ UNCHANGED live
     \/ \E p \in Names, v \in Fresh :
          frames' = Append(frames, [closures[l] EXCEPT ![p] = v]) /\ live' = live \union {v}
  /\ running' = running + 1
  /\ UNCHANGED closures

Leave ==
  /\ meaning' = None
  /\ running > 0
  /\ frames' = SubSeq(frames, 1, Len(frames) - 1)
  /\ running' = running - 1
  /\ live' \subseteq live
  /\ UNCHANGED closures

Restart ==
  /\ meaning' = None
  /\ frames' = <<NoBinding>>
  /\ running' = 0
  /\ closures' = [l \in Lambdas |-> None]
  /\ live' = {}

Next ==
  /\ \/ \E l \in Lambdas : Make(l) \/ Enter(l)
     \/ \E n \in Names, v \in Fresh :
          Define(n, v) \/ \E l \in Lambdas : DefineLambda(n, v, l)
     \/ \E n \in Names : Look(n) \/ Set(n)
     \/ Fail \/ Leave \/ Restart
  /\ AllLive'

Spec == Init /\ [][Next]_vars
=============================================================================
