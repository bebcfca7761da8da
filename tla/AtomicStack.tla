----------------------------- MODULE AtomicStack -----------------------------
(***************************************************************************)
(* What a stack shared by threads promises: a push and a pop happen at one *)
(* moment each, a pop answers the value pushed last of those still there,  *)
(* and says that there is none only when there is none.                    *)
(***************************************************************************)
EXTENDS Sequences

CONSTANTS Values, Nothing

VARIABLES stack,   \* the values, the top first
          reply    \* what the last pop answered

vars == <<stack, reply>>

Init == stack = <<>> /\ reply = Nothing

Push(v) ==
  /\ stack' = <<v>> \o stack
  /\ UNCHANGED reply

Pop ==
  /\ stack # <<>>
  /\ reply' = Head(stack)
  /\ stack' = Tail(stack)

PopOfNothing ==
  /\ stack = <<>>
  /\ reply' = Nothing
  /\ UNCHANGED stack

(* The stack is destroyed with what is in it.                              *)
Destroy ==
  /\ stack' = <<>>
  /\ UNCHANGED reply

Next == (\E v \in Values : Push(v)) \/ Pop \/ PopOfNothing \/ Destroy

Spec == Init /\ [][Next]_vars
=============================================================================
