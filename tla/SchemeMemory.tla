---------------------------- MODULE SchemeMemory ----------------------------
(***************************************************************************)
(* scheme/advanced: the variables of the interpreter.  One global Memory   *)
(* holds a stack of pointers to variables, in which a variable without a   *)
(* name marks where the scope of a call begins, and a counter for each     *)
(* name.  define pushes, set! and a look-up search from the top, a lambda  *)
(* copies the pointers of the current scope, a call pushes a mark, these   *)
(* pointers and its parameters, and its return pops to the mark.           *)
(*                                                                         *)
(* A program is any sequence of these operations: the expressions that     *)
(* lead to them, and the values of the variables, are left out.  So a      *)
(* lambda that was made is kept, and may be called or defined at any time  *)
(* until the Interpreter is destroyed, and an error may come at any point. *)
(* A variable whose last pointer goes is free.                             *)
(***************************************************************************)
EXTENDS Integers, SequencesExt, FiniteSetsExt

CONSTANTS Names, Builtins, Lambdas, Variables, None,
          MaxDepth,     \* bound on nested calls
          MaxStorage    \* bound on the length of storage_ when a call begins

ASSUME MemoryAssumption ==
  /\ Builtins \subseteq Names /\ None \notin Names \union Variables
  /\ None \notin Seq([name : Names, variable : Variables])
  /\ None \notin [Names -> Variables \union {None}]
  /\ {"builtin", "NameError"} \intersect (Variables \union {None}) = {}
  /\ MaxDepth \in Nat /\ MaxStorage \in Nat

VARIABLES storage_, defined_variables_counter_,
          context_,        \* the captured variables, None before MakeLambda
          lambda_params_,  \* at most one parameter
          live,            \* the variables that something points to
          calls,           \* for each running call the length of storage_ before it
          found            \* history: what this step looked up, or the lambda it made

vars == <<storage_, defined_variables_counter_, context_, lambda_params_, live, calls, found>>

Params == {<<>>} \union {<<n>> : n \in Names}
Entries == [name : Names, variable : Variables]
Entry(n, v) == [name |-> n, variable |-> v]
Mark == Entry(None, None)

Made == {l \in Lambdas : context_[l] # None}
Fresh == Variables \ live

(* The places of a name in a sequence of entries.                          *)
Places(s, n) == {i \in DOMAIN s : s[i].name = n}

(* What s and the contexts ctx point to.                                   *)
Pointed(s, ctx) ==
  ({s[i].variable : i \in DOMAIN s} \ {None})
    \union UNION {{ctx[l][i].variable : i \in DOMAIN ctx[l]} :
                    l \in {l \in Lambdas : ctx[l] # None}}

IsDefined(n) == defined_variables_counter_[n] # 0

(* The counter after Inc, or Dec, of the names of the entries s.           *)
Inc(s) == [n \in Names |-> defined_variables_counter_[n] + Cardinality(Places(s, n))]
BugDec(s) == [n \in Names |-> defined_variables_counter_[n]
                                - (IF Places(s, n) = {} THEN 0 ELSE 1)]
Dec(s) ==
  [n \in Names |-> Max({0, defined_variables_counter_[n] - Cardinality(Places(s, n))})]

(* Where the last scope begins: the place of its mark, 0 for the global    *)
(* one.                                                                    *)
IsEndOfScope(i) == i = 0 \/ storage_[i] = Mark
ScopeStart == Max({i \in 0 .. Len(storage_) : IsEndOfScope(i)})

(* The entries of the last scope.                                          *)
BugGetContext == Reverse(SubSeq(storage_, ScopeStart + 1, Len(storage_)))
GetContext == SubSeq(storage_, ScopeStart + 1, Len(storage_))

-----------------------------------------------------------------------------
Init ==
  /\ storage_ = <<>>
  /\ defined_variables_counter_ = [n \in Names |-> 0]
  /\ context_ = [l \in Lambdas |-> None]
  /\ lambda_params_ = [l \in Lambdas |-> <<>>]
  /\ live = {}
  /\ calls = <<>>
  /\ found = None

MakeLambda(l, params) ==
  /\ l \notin Made
  /\ context_' = [context_ EXCEPT ![l] = GetContext]
  /\ lambda_params_' = [lambda_params_ EXCEPT ![l] = params]
  /\ found' = l
  /\ UNCHANGED <<storage_, defined_variables_counter_, live, calls>>

DefineVariable(n, v) ==
  /\ storage_' = Append(storage_, Entry(n, v))
  /\ defined_variables_counter_' = Inc(<<Entry(n, v)>>)
  /\ found' = None

(* define with a value that is not a lambda.                               *)
Define(n, v) ==
  /\ DefineVariable(n, v)
  /\ live' = live \union {v}
  /\ UNCHANGED <<context_, lambda_params_, calls>>

(* define with a lambda, which gets a variable of its own with its name.   *)
DefineLambda(n, v, l, self) ==
  /\ l \in Made /\ self # v
  /\ context_' = [context_ EXCEPT ![l] = Append(@, Entry(n, self))]
  /\ DefineVariable(n, v)
  /\ live' = live \union {v, self}
  /\ UNCHANGED <<lambda_params_, calls>>

(* An error ends Run from whatever depth of calls, and no Pop is done.     *)
Throw ==
  /\ calls # <<>>
  /\ calls' = <<>>
  /\ found' = None
  /\ UNCHANGED <<storage_, defined_variables_counter_, context_, lambda_params_, live>>

(* Compute of a symbol, and set!, which does not ask IsDefined: NameError  *)
(* ends Run.                                                               *)
GetVariable(n) ==
  IF Places(storage_, n) = {} THEN "NameError"
  ELSE storage_[Max(Places(storage_, n))].variable

Meets(meaning) ==
  /\ found' = meaning
  /\ calls' = IF meaning = "NameError" THEN <<>> ELSE calls
  /\ UNCHANGED <<storage_, defined_variables_counter_, context_, lambda_params_, live>>

Compute(n) ==
  Meets(IF IsDefined(n) THEN GetVariable(n)
        ELSE IF n \in Builtins THEN "builtin" ELSE "NameError")

SetVariable(n) == Meets(GetVariable(n))

(* A lambda is called; the arguments are computed already.                 *)
Enters(l, locals) ==
  LET entries == context_[l] \o locals IN
  /\ storage_' = storage_ \o <<Mark>> \o entries
  /\ defined_variables_counter_' = Inc(entries)

Call(l) ==
  /\ l \in Made /\ Len(calls) < MaxDepth /\ Len(storage_) =< MaxStorage
  /\ \/ lambda_params_[l] = <<>> /\ Enters(l, <<>>) /\ UNCHANGED live
     \/ \E p \in Names, v \in Fresh :
          /\ lambda_params_[l] = <<p>>
          /\ Enters(l, <<Entry(p, v)>>)
          /\ live' = live \union {v}
  /\ calls' = Append(calls, Len(storage_))
  /\ found' = None
  /\ UNCHANGED <<context_, lambda_params_>>

(* The last instruction is computed: Pop.                                  *)
BugReturn ==
  /\ calls # <<>>
  /\ storage_' = SubSeq(storage_, 1, ScopeStart)
  /\ defined_variables_counter_' = Dec(GetContext)
  /\ live' = Pointed(storage_', context_)
  /\ calls' = Front(calls)
  /\ found' = None
  /\ UNCHANGED <<context_, lambda_params_>>
Return ==
  /\ calls # <<>>
  /\ storage_' = SubSeq(storage_, 1, ScopeStart - 1)
  /\ defined_variables_counter_' = Dec(GetContext)
  /\ live' = Pointed(storage_', context_)
  /\ calls' = Front(calls)
  /\ found' = None
  /\ UNCHANGED <<context_, lambda_params_>>

(* Interpreter::~Interpreter, outside of Run.                              *)
Clear ==
  /\ calls = <<>>
  /\ storage_' = <<>>
  /\ defined_variables_counter_' = [n \in Names |-> 0]
  /\ context_' = [l \in Lambdas |-> None]
  /\ lambda_params_' = [l \in Lambdas |-> <<>>]
  /\ live' = {}
  /\ found' = None
  /\ UNCHANGED calls

-----------------------------------------------------------------------------
Next ==
  \/ \E l \in Lambdas : Call(l) \/ \E params \in Params : MakeLambda(l, params)
  \/ \E n \in Names, v \in Fresh :
       Define(n, v) \/ \E l \in Lambdas, self \in Fresh : DefineLambda(n, v, l, self)
  \/ \E n \in Names : Compute(n) \/ SetVariable(n)
  \/ Return \/ Throw \/ Clear

Spec == Init /\ [][Next]_vars

-----------------------------------------------------------------------------
(* IsDefined tells what GetVariable will find: the counter of a name is    *)
(* the number of its variables on the stack, through calls, returns and    *)
(* errors.                                                                 *)
CounterCountsVariables ==
  \A n \in Names : defined_variables_counter_[n] = Cardinality(Places(storage_, n))

(* Each running call has its mark where it put it, and there is no other   *)
(* above the first of them; so a return ends the scope of its own call,    *)
(* also after errors that left scopes behind.                              *)
CallsOwnScopes ==
  calls # <<>> =>
    {i \in calls[1] + 1 .. Len(storage_) : storage_[i] = Mark} =
      {calls[d] + 1 : d \in DOMAIN calls}

LastOf(s, places) == IF places = {} THEN None ELSE s[Max(places)].variable

Bindings(s) == [n \in Names |-> LastOf(s, Places(s, n))]

\* The number of the scope that the place i of s is in, the global one is 1.
Scope(s, i) == Cardinality({j \in 1 .. i : s[j] = Mark}) + 1

Scopes(s) ==
  [k \in 1 .. Scope(s, Len(s)) |->
     [n \in Names |-> LastOf(s, {i \in Places(s, n) : Scope(s, i) = k})]]

Abstract == INSTANCE Environments WITH
  frames <- Scopes(storage_),
  running <- Len(calls),
  closures <- [l \in Lambdas |-> IF context_[l] = None THEN None ELSE Bindings(context_[l])],
  meaning <- found

(* A name that its own scope does not bind means what a scope between it   *)
(* and the global one says: one of a caller, or one that an error left.    *)
LooksPast(n) ==
  /\ \E k \in 2 .. Len(Scopes(storage_)) - 1 :
       /\ found' = Scopes(storage_)[k][n] /\ found' # None
       /\ \A m \in k + 1 .. Len(Scopes(storage_)) : Scopes(storage_)[m][n] = None
  /\ UNCHANGED <<storage_, context_, live, calls>>

(* An error leaves the scopes of the calls that it ends, and the last of   *)
(* them is the scope of what comes after.                                  *)
LeavesScopes ==
  /\ Len(Scopes(storage_)) > 1 /\ calls' = <<>>
  /\ found' = "NameError" => \E n \in Names : Abstract!Variable(n) = None
  /\ found' \in {None, "NameError"}
  /\ UNCHANGED <<storage_, context_, live>>

(* A define whose value is a lambda, made now or long ago, gives it        *)
(* another variable with the name, whatever the name meant in it.          *)
NamesItself(n, v, l, self) ==
  /\ Scopes(storage_)' = [Scopes(storage_) EXCEPT ![Len(Scopes(storage_))][n] = v]
  /\ found' = None
  /\ LET closure == Bindings(context_[l]) IN
     Bindings(context_'[l]) = [closure EXCEPT ![n] = self]
  /\ \A m \in Lambdas \ {l} : context_'[m] = context_[m]
  /\ live' = live \union {v, self} /\ UNCHANGED calls

(* The stack with marks, the copied contexts and the counter are the       *)
(* frames of syntactic scope: the entries of one scope are the bindings of *)
(* one frame, of several entries for a name the last counts, and a name    *)
(* means what its own frame or the global one says.  The steps that        *)
(* scheme/README.md:15 does not allow are these three.                     *)
EnvironmentsUnlessDynamic ==
  /\ Abstract!Init
  /\ [][ \/ Abstract!Next
         \/ /\ \/ \E n \in Names : LooksPast(n)
               \/ LeavesScopes
               \/ \E n \in Names, v, self \in Fresh, l \in Made : NamesItself(n, v, l, self)
            /\ Abstract!AllLive' ]_(Abstract!vars)
=============================================================================
