-------------------------- MODULE Sequential_proofs --------------------------
(***************************************************************************)
(* Programs of a single thread: the interpreter's memory implements        *)
(* Environments, the editor implements Document, the JPEG decoder makes    *)
(* pixels of the right samples, and the parser reads what SchemeGrammar    *)
(* says of a text.                                                         *)
(*                                                                         *)
(* The counter of the interpreter's memory agrees with its stack, and each *)
(* return ends the scope of its own call, for all names, lambdas,          *)
(* variables and depths, and whatever errors have left on the stack.  The  *)
(* inductive invariant adds to the two properties the types, that a        *)
(* captured context holds no mark, and that the calls lie on the stack in  *)
(* the order in which they were made.  From it follows that the memory     *)
(* implements Environments; for what lives PointersLive is added.          *)
(*                                                                         *)
(* The editor gives back what there was, for all characters and lengths:   *)
(* every command in its logs leads from one view of the history to the     *)
(* next, so Do and Undo meet the buffer that the command was made for.     *)
(*                                                                         *)
(* The decoder's Stats describe the image from the frame header on, and    *)
(* the blocks that were decoded are counted against them.                  *)
(*                                                                         *)
(* The parser's stack of calls stands at positions in the lexemes of its   *)
(* text.  The notation is unambiguous, so what a call has read is the only *)
(* thing it could have read; and a call that meets a lexeme it cannot use  *)
(* shows that no datum begins where it began, nor where its caller did.    *)
(***************************************************************************)
EXTENDS SchemeMemory, Editor, JpegDecoder, SchemeParser, SequenceTheorems, FiniteSetTheorems, WellFoundedInduction, TLAPS

-----------------------------------------------------------------------------
(* The interpreter's memory *)

Stacked == Entries \union {Mark}

TypeOK ==
  /\ storage_ \in Seq(Stacked)
  /\ defined_variables_counter_ \in [Names -> Nat]
  /\ context_ \in [Lambdas -> Seq(Entries) \union {None}]
  /\ lambda_params_ \in [Lambdas -> Seq(Names)]
  /\ calls \in Seq(Nat)

\* A call is above the calls it was made from, and its mark is there.
CallsInOrder ==
  \A d \in DOMAIN calls :
    /\ calls[d] < Len(storage_)
    /\ \A e \in DOMAIN calls : e < d => calls[e] < calls[d]

Inv == TypeOK /\ CallsInOrder /\ CallsOwnScopes /\ CounterCountsVariables

-----------------------------------------------------------------------------
(* A set of natural numbers up to n has a greatest one, and Max is it.     *)
LEMMA MaxIsGreatest ==
  ASSUME NEW n \in Nat, NEW S \in SUBSET (0 .. n), S # {}
  PROVE  Max(S) \in S /\ \A y \in S : Max(S) >= y
<1> DEFINE above(k) == k .. n
           T == {above(k) : k \in S}
<1>1. T \subseteq FiniteSubsetsOf(Nat) /\ T # {}
  <2>1. \A k \in S : above(k) \subseteq Nat /\ IsFiniteSet(above(k))
    BY FS_Interval
  <2> QED
    BY <2>1 DEF FiniteSubsetsOf
<1>2. PICK a \in T : \A b \in T : ~ (<<b, a>> \in StrictSubsetOrdering(Nat))
  <2> HIDE DEF T
  <2> QED
    BY <1>1, FS_StrictSubsetOrderingWellFounded, WFMin
<1>3. PICK x \in S : a = above(x)
  OBVIOUS
<1>4. \A y \in S : x >= y
  <2> SUFFICES ASSUME NEW y \in S, x < y PROVE FALSE
    OBVIOUS
  <2>1. above(y) \subseteq above(x) /\ x \in above(x) /\ x \notin above(y)
    OBVIOUS
  <2>2. above(x) \in SUBSET Nat /\ above(y) \in SUBSET Nat
    OBVIOUS
  <2>3. above(y) \in T
    OBVIOUS
  <2> HIDE DEF above
  <2> QED
    BY <1>2, <1>3, <2>1, <2>2, <2>3 DEF StrictSubsetOrdering
<1> QED
  BY <1>4 DEF Max

(* The greatest element is the maximum, whatever the set.                  *)
LEMMA GreatestIsMax ==
  ASSUME NEW S \in SUBSET Int, NEW x \in S, \A y \in S : x >= y
  PROVE  Max(S) = x
<1>1. Max(S) \in S /\ \A y \in S : Max(S) >= y
  BY DEF Max
<1>2. Max(S) \in Int /\ x \in Int /\ Max(S) >= x /\ x >= Max(S)
  BY <1>1
<1> QED
  BY <1>2

(* A mark is no entry, and the places of a name can be counted.            *)
LEMMA MarkIsNoEntry == Mark \notin Entries /\ \A n \in Names : Mark.name # n
BY MemoryAssumption DEF Mark, Entry, Entries

LEMMA PlacesAreFinite ==
  ASSUME NEW s \in Seq(Stacked), NEW n
  PROVE  /\ Places(s, n) \subseteq 1 .. Len(s)
         /\ IsFiniteSet(Places(s, n))
         /\ Cardinality(Places(s, n)) \in Nat
<1>1. Places(s, n) \subseteq 1 .. Len(s) /\ Len(s) \in Nat
  BY DEF Places
<1>2. IsFiniteSet(1 .. Len(s))
  BY <1>1, FS_Interval
<1> QED
  BY <1>1, <1>2, FS_Subset, FS_CardinalityType

(* What is put on top adds its places.                                     *)
LEMMA PlacesOfConcat ==
  ASSUME NEW s \in Seq(Stacked), NEW t \in Seq(Stacked), NEW n
  PROVE  Cardinality(Places(s \o t, n)) = Cardinality(Places(s, n)) + Cardinality(Places(t, n))
<1> DEFINE raised == {Len(s) + i : i \in Places(t, n)}
           f == [i \in Places(t, n) |-> Len(s) + i]
<1>1. Len(s) \in Nat /\ Len(t) \in Nat
  OBVIOUS
<1>2. Places(s, n) \subseteq 1 .. Len(s) /\ Places(t, n) \subseteq 1 .. Len(t)
  BY DEF Places
<1>3. f \in Bijection(Places(t, n), raised)
  BY <1>1, <1>2 DEF Bijection, Injection, Surjection, IsInjective
<1>4. IsFiniteSet(raised) /\ Cardinality(raised) = Cardinality(Places(t, n))
  <2>1. ExistsBijection(Places(t, n), raised)
    BY <1>3 DEF ExistsBijection
  <2>2. IsFiniteSet(Places(t, n))
    BY PlacesAreFinite
  <2> HIDE DEF raised
  <2> QED
    BY <2>1, <2>2, FS_Bijection
<1>5. Places(s \o t, n) = Places(s, n) \union raised
  <2>1. DOMAIN (s \o t) = 1 .. Len(s) + Len(t)
    OBVIOUS
  <2>2. \A i \in 1 .. Len(s) : (s \o t)[i] = s[i]
    OBVIOUS
  <2>3. \A i \in 1 .. Len(t) : (s \o t)[Len(s) + i] = t[i]
    OBVIOUS
  <2>4. \A j \in Len(s) + 1 .. Len(s) + Len(t) :
          j - Len(s) \in 1 .. Len(t) /\ j = Len(s) + (j - Len(s))
    BY <1>1
  <2>5. DOMAIN s = 1 .. Len(s) /\ DOMAIN t = 1 .. Len(t)
    OBVIOUS
  <2>6. Places(s \o t, n) \subseteq Places(s, n) \union raised
    <3> SUFFICES ASSUME NEW j \in Places(s \o t, n), j \notin Places(s, n)
                 PROVE  j \in raised
      OBVIOUS
    <3>1. j \in 1 .. Len(s) + Len(t) /\ (s \o t)[j].name = n
      BY <2>1 DEF Places
    <3>2. j \in Len(s) + 1 .. Len(s) + Len(t)
      BY <1>1, <2>2, <2>5, <3>1 DEF Places
    <3>3. j - Len(s) \in Places(t, n)
      BY <2>3, <2>4, <2>5, <3>1, <3>2 DEF Places
    <3> QED
      BY <2>4, <3>2, <3>3
  <2>7. Places(s, n) \union raised \subseteq Places(s \o t, n)
    BY <1>1, <2>1, <2>2, <2>3, <2>5 DEF Places
  <2> QED
    BY <2>6, <2>7
<1>6. Places(s, n) \intersect raised = {}
  BY <1>1, <1>2
<1>7. IsFiniteSet(Places(s, n)) /\ Cardinality(Places(s, n)) \in Nat
      /\ Cardinality(Places(t, n)) \in Nat
  BY PlacesAreFinite
<1>8. Cardinality(Places(s, n) \union raised)
        = Cardinality(Places(s, n)) + Cardinality(raised) - Cardinality({})
  <2> HIDE DEF raised
  <2> QED
    BY <1>4, <1>6, <1>7, FS_Union
<1> HIDE DEF raised
<1> QED
  BY <1>4, <1>5, <1>7, <1>8, FS_EmptySet

-----------------------------------------------------------------------------
(* The last scope begins at a mark, or is the global one, and holds none.  *)
LEMMA LastScope ==
  ASSUME TypeOK
  PROVE  /\ ScopeStart \in 0 .. Len(storage_) /\ IsEndOfScope(ScopeStart)
         /\ \A i \in ScopeStart + 1 .. Len(storage_) : storage_[i] \in Entries
         /\ GetContext \in Seq(Entries)
<1> DEFINE ends == {i \in 0 .. Len(storage_) : IsEndOfScope(i)}
<1>1. Len(storage_) \in Nat /\ DOMAIN storage_ = 1 .. Len(storage_)
  BY DEF TypeOK
<1>2. ends \in SUBSET (0 .. Len(storage_)) /\ 0 \in ends
  BY <1>1 DEF IsEndOfScope
<1>3. Max(ends) \in ends /\ \A i \in ends : Max(ends) >= i
  <2> HIDE DEF ends
  <2> QED
    BY <1>1, <1>2, MaxIsGreatest
<1>4. ScopeStart = Max(ends)
  BY DEF ScopeStart
<1>5. ScopeStart \in 0 .. Len(storage_) /\ IsEndOfScope(ScopeStart)
  BY <1>3, <1>4
<1>6. ASSUME NEW i \in ScopeStart + 1 .. Len(storage_)
      PROVE  storage_[i] \in Entries
  <2>1. i \in 1 .. Len(storage_) /\ ~ (ScopeStart >= i)
    BY <1>1, <1>5
  <2>2. i \notin ends
    BY <1>3, <1>4, <2>1
  <2>3. storage_[i] # Mark
    BY <1>1, <2>1, <2>2 DEF IsEndOfScope
  <2>4. storage_[i] \in Stacked
    BY <1>1, <2>1 DEF TypeOK
  <2> QED
    BY <2>3, <2>4 DEF Stacked
<1>7. GetContext \in Seq(Entries)
  BY <1>1, <1>5, <1>6, SubSeqProperties DEF GetContext
<1> QED
  BY <1>5, <1>6, <1>7

(* Entries that are put on top are counted as they come, and hide no mark. *)
LEMMA MarksOfConcat ==
  ASSUME NEW s \in Seq(Stacked), NEW t \in Seq(Entries), NEW k \in Nat
  PROVE  {i \in k + 1 .. Len(s \o t) : (s \o t)[i] = Mark}
           = {i \in k + 1 .. Len(s) : s[i] = Mark}
<1>1. Len(s) \in Nat /\ Len(t) \in Nat /\ Len(s \o t) = Len(s) + Len(t)
  OBVIOUS
<1>2. \A i \in 1 .. Len(s) : (s \o t)[i] = s[i]
  OBVIOUS
<1>3. ASSUME NEW i \in Len(s) + 1 .. Len(s) + Len(t)
      PROVE  (s \o t)[i] # Mark
  <2>1. i - Len(s) \in 1 .. Len(t) /\ (s \o t)[i] = t[i - Len(s)]
    BY <1>1
  <2>2. t[i - Len(s)] \in Entries
    BY <2>1
  <2> QED
    BY <2>1, <2>2, MarkIsNoEntry
<1> QED
  BY <1>1, <1>2, <1>3

LEMMA CountAfterInc ==
  ASSUME TypeOK, CounterCountsVariables, NEW t \in Seq(Entries),
         NEW s \in Seq(Stacked),
         \A n \in Names : Cardinality(Places(s, n)) = Cardinality(Places(storage_, n)),
         storage_' = s \o t,
         defined_variables_counter_' = Inc(t)
  PROVE  /\ storage_' \in Seq(Stacked)
         /\ defined_variables_counter_' \in [Names -> Nat]
         /\ CounterCountsVariables'
<1>1. t \in Seq(Stacked)
  BY SeqMonotonic DEF Stacked
<1>2. storage_' \in Seq(Stacked)
  BY <1>1, ConcatProperties
<1>3. ASSUME NEW n \in Names
      PROVE  /\ Inc(t)[n] = Cardinality(Places(storage_', n))
             /\ Inc(t)[n] \in Nat
  <2>1. Cardinality(Places(storage_', n))
          = Cardinality(Places(s, n)) + Cardinality(Places(t, n))
    BY <1>1, PlacesOfConcat
  <2>2. Cardinality(Places(s, n)) \in Nat /\ Cardinality(Places(t, n)) \in Nat
    BY <1>1, PlacesAreFinite
  <2>3. Inc(t)[n] = defined_variables_counter_[n] + Cardinality(Places(t, n))
    BY DEF Inc
  <2> QED
    BY <2>1, <2>2, <2>3 DEF CounterCountsVariables
<1>4. Inc(t) \in [Names -> Nat]
  BY <1>3 DEF Inc
<1> QED
  BY <1>2, <1>3, <1>4 DEF CounterCountsVariables

-----------------------------------------------------------------------------
LEMMA InitInv == Init => Inv
<1> SUFFICES ASSUME Init PROVE Inv
  OBVIOUS
<1>1. TypeOK
  BY DEF Init, TypeOK
<1>2. CallsInOrder /\ CallsOwnScopes
  BY DEF Init, CallsInOrder, CallsOwnScopes
<1>3. \A n : Places(storage_, n) = {}
  BY DEF Init, Places
<1>4. CounterCountsVariables
  BY <1>3, FS_EmptySet DEF Init, CounterCountsVariables
<1> QED
  BY <1>1, <1>2, <1>4 DEF Inv

(* A variable is defined in the scope that is on top.                      *)
LEMMA DefineKeepsInv ==
  ASSUME Inv, NEW n \in Names, NEW v \in Variables, DefineVariable(n, v),
         context_' \in [Lambdas -> Seq(Entries) \union {None}],
         UNCHANGED <<lambda_params_, calls>>
  PROVE  Inv'
<1> DEFINE t == <<Entry(n, v)>>
<1>1. t \in Seq(Entries)
  BY DEF Entry, Entries
<1>2. storage_' = storage_ \o t /\ Len(storage_') = Len(storage_) + 1 /\ Len(storage_) \in Nat
  BY DEF DefineVariable, Inv, TypeOK
<1>3. /\ storage_' \in Seq(Stacked)
      /\ defined_variables_counter_' \in [Names -> Nat]
      /\ CounterCountsVariables'
  <2> HIDE DEF t
  <2>1. defined_variables_counter_' = Inc(t)
    BY DEF DefineVariable, t
  <2> QED
    BY <1>1, <1>2, <2>1, CountAfterInc DEF Inv, TypeOK
<1>4. TypeOK'
  BY <1>3 DEF Inv, TypeOK
<1>5. CallsInOrder'
  BY <1>2 DEF Inv, TypeOK, CallsInOrder
<1>6. CallsOwnScopes'
  <2> SUFFICES ASSUME calls # <<>>
               PROVE  {i \in calls[1] + 1 .. Len(storage_') : storage_'[i] = Mark}
                        = {calls[d] + 1 : d \in DOMAIN calls}
    BY DEF CallsOwnScopes
  <2>1. calls[1] \in Nat /\ storage_ \in Seq(Stacked)
    BY DEF Inv, TypeOK
  <2> HIDE DEF t
  <2>2. {i \in calls[1] + 1 .. Len(storage_') : storage_'[i] = Mark}
          = {i \in calls[1] + 1 .. Len(storage_) : storage_[i] = Mark}
    BY <1>1, <1>2, <2>1, MarksOfConcat
  <2> QED
    BY <2>2 DEF Inv, CallsOwnScopes
<1> QED
  BY <1>3, <1>4, <1>5, <1>6 DEF Inv

(* A call puts its mark, the captured context and its parameter on top.    *)
LEMMA CallKeepsInv ==
  ASSUME Inv, NEW l \in Made, NEW locals \in Seq(Entries), Enters(l, locals),
         calls' = Append(calls, Len(storage_)),
         UNCHANGED <<context_, lambda_params_>>
  PROVE  Inv'
<1> DEFINE entries == context_[l] \o locals
           s == storage_ \o <<Mark>>
<1>1. /\ storage_ \in Seq(Stacked) /\ Len(storage_) \in Nat
      /\ calls \in Seq(Nat) /\ Len(calls) \in Nat
  BY DEF Inv, TypeOK
<1>2. entries \in Seq(Entries)
  <2>1. context_[l] \in Seq(Entries)
    BY DEF Inv, TypeOK, Made
  <2> QED
    BY <2>1, ConcatProperties
<1>3. <<Mark>> \in Seq(Stacked)
  BY DEF Stacked
<1>4. s \in Seq(Stacked) /\ Len(s) = Len(storage_) + 1
  BY <1>1, <1>3, ConcatProperties
<1>5. s[Len(storage_) + 1] = Mark /\ \A i \in 1 .. Len(storage_) : s[i] = storage_[i]
  BY <1>1, <1>3
<1>6. storage_' = s \o entries /\ Len(storage_') >= Len(s)
  <2>1. storage_' = s \o entries
    <3>1. storage_' = storage_ \o <<Mark>> \o entries
      BY DEF Enters
    <3> QED
      BY <3>1
  <2>2. entries \in Seq(Stacked)
    BY <1>2, SeqMonotonic DEF Stacked
  <2> HIDE DEF s, entries
  <2> QED
    BY <1>4, <2>1, <2>2, ConcatProperties
<1>7. ASSUME NEW n \in Names
      PROVE  Cardinality(Places(s, n)) = Cardinality(Places(storage_, n))
  <2>1. Places(<<Mark>>, n) = {}
    BY MarkIsNoEntry DEF Places
  <2>2. Cardinality(Places(storage_, n)) \in Nat
    BY <1>1, PlacesAreFinite
  <2>3. Cardinality(Places(s, n))
          = Cardinality(Places(storage_, n)) + Cardinality(Places(<<Mark>>, n))
    BY <1>1, <1>3, PlacesOfConcat
  <2>4. Cardinality(Places(<<Mark>>, n)) = 0
    BY <2>1, FS_EmptySet
  <2> HIDE DEF s
  <2> QED
    BY <2>2, <2>3, <2>4
<1>8. /\ storage_' \in Seq(Stacked)
      /\ defined_variables_counter_' \in [Names -> Nat]
      /\ CounterCountsVariables'
  <2>1. defined_variables_counter_' = Inc(entries)
    BY DEF Enters
  <2> HIDE DEF s, entries
  <2> QED
    BY <1>2, <1>4, <1>6, <1>7, <2>1, CountAfterInc DEF Inv
<1>9. TypeOK'
  BY <1>1, <1>8 DEF Inv, TypeOK
<1>10. /\ DOMAIN calls' = 1 .. Len(calls) + 1 /\ calls'[Len(calls) + 1] = Len(storage_)
       /\ \A d \in 1 .. Len(calls) : calls'[d] = calls[d] /\ calls[d] < Len(storage_)
  BY <1>1 DEF Inv, CallsInOrder
<1> HIDE DEF s, entries
<1>11. CallsInOrder'
  <2> SUFFICES ASSUME NEW d \in 1 .. Len(calls) + 1
               PROVE  /\ calls'[d] < Len(storage_')
                      /\ \A e \in 1 .. Len(calls) + 1 : e < d => calls'[e] < calls'[d]
    BY <1>10 DEF CallsInOrder
  <2>1. Len(storage_') > Len(storage_) /\ Len(storage_') \in Nat
    BY <1>1, <1>4, <1>6, <1>8
  <2>2. CASE d = Len(calls) + 1
    BY <1>1, <1>10, <2>1, <2>2
  <2>3. CASE d \in 1 .. Len(calls)
    <3>1. calls[d] \in Nat /\ \A e \in 1 .. Len(calls) : e < d => calls[e] < calls[d]
      BY <1>1, <2>3 DEF Inv, CallsInOrder
    <3>2. calls'[d] = calls[d] /\ calls[d] < Len(storage_)
      BY <1>10, <2>3
    <3>3. calls'[d] < Len(storage_')
      <4>1. Len(storage_) \in Nat
        BY <1>1
      <4> QED
        BY <2>1, <3>1, <3>2, <4>1
    <3>4. ASSUME NEW e \in 1 .. Len(calls) + 1, e < d
          PROVE  calls'[e] < calls'[d]
      <4>1. e \in 1 .. Len(calls)
        BY <1>1, <2>3, <3>4
      <4>2. calls'[e] = calls[e]
        BY <1>10, <4>1
      <4> QED
        BY <3>1, <3>2, <3>4, <4>1, <4>2
    <3> QED
      BY <3>3, <3>4
  <2> QED
    BY <1>1, <2>2, <2>3
<1>12. CallsOwnScopes'
  <2> DEFINE k == calls'[1]
  <2>1. k \in Nat /\ k <= Len(storage_)
    BY <1>1, <1>10
  <2>2. {i \in k + 1 .. Len(storage_') : storage_'[i] = Mark}
          = {i \in k + 1 .. Len(s) : s[i] = Mark}
    <3> HIDE DEF k
    <3> QED
      BY <1>2, <1>4, <1>6, <2>1, MarksOfConcat
  <2>3. {i \in k + 1 .. Len(s) : s[i] = Mark}
          = {i \in k + 1 .. Len(storage_) : storage_[i] = Mark} \union {Len(storage_) + 1}
    <3> HIDE DEF k
    <3>1. \A i \in k + 1 .. Len(s) :
            (i \in k + 1 .. Len(storage_) /\ s[i] = storage_[i]) \/ i = Len(storage_) + 1
      BY <1>1, <1>4, <1>5, <2>1
    <3>2. \A i \in k + 1 .. Len(storage_) : i \in k + 1 .. Len(s) /\ s[i] = storage_[i]
      BY <1>1, <1>4, <1>5, <2>1
    <3>3. Len(storage_) + 1 \in k + 1 .. Len(s) /\ s[Len(storage_) + 1] = Mark
      BY <1>1, <1>4, <1>5, <2>1
    <3> QED
      BY <3>1, <3>2, <3>3
  <2>4. {i \in k + 1 .. Len(storage_) : storage_[i] = Mark}
          = {calls[d] + 1 : d \in 1 .. Len(calls)}
    <3>1. CASE calls = <<>>
      BY <1>1, <1>10, <3>1
    <3>2. CASE calls # <<>>
      <4>1. k = calls[1] /\ DOMAIN calls = 1 .. Len(calls)
        BY <1>1, <1>10, <3>2
      <4> QED
        BY <3>2, <4>1 DEF Inv, CallsOwnScopes
    <3> QED
      BY <3>1, <3>2
  <2>5. {calls'[d] + 1 : d \in DOMAIN calls'}
          = {calls[d] + 1 : d \in 1 .. Len(calls)} \union {Len(storage_) + 1}
    <3>1. \A d \in DOMAIN calls' : d = Len(calls) + 1 \/ d \in 1 .. Len(calls)
      BY <1>1, <1>10
    <3>2. Len(calls) + 1 \in DOMAIN calls' /\ 1 .. Len(calls) \subseteq DOMAIN calls'
      BY <1>1, <1>10
    <3> QED
      BY <1>10, <3>1, <3>2
  <2> QED
    BY <2>2, <2>3, <2>4, <2>5 DEF CallsOwnScopes
<1> QED
  BY <1>8, <1>9, <1>11, <1>12 DEF Inv

(* The last mark is the one of the call that returns.                      *)
LEMMA ReturnEndsItsScope ==
  ASSUME Inv, calls # <<>>
  PROVE  LET own == calls[Len(calls)] IN
         /\ own \in Nat /\ own < Len(storage_)
         /\ storage_[own + 1] = Mark
         /\ ScopeStart = own + 1
<1> DEFINE own == calls[Len(calls)]
           ends == {i \in 0 .. Len(storage_) : IsEndOfScope(i)}
<1>1. /\ Len(storage_) \in Nat /\ Len(calls) \in Nat \ {0}
      /\ DOMAIN calls = 1 .. Len(calls)
      /\ \A d \in 1 .. Len(calls) : calls[d] \in Nat
  BY DEF Inv, TypeOK
<1>2. \A d \in 1 .. Len(calls) : calls[1] <= calls[d] /\ calls[d] <= own
  <2> SUFFICES ASSUME NEW d \in 1 .. Len(calls)
               PROVE  calls[1] <= calls[d] /\ calls[d] <= own
    OBVIOUS
  <2>1. (1 < d => calls[1] < calls[d]) /\ (d < Len(calls) => calls[d] < own)
    BY <1>1 DEF Inv, CallsInOrder
  <2> QED
    BY <1>1, <2>1
<1>3. own \in Nat /\ own < Len(storage_)
  BY <1>1 DEF Inv, CallsInOrder
<1>4. {i \in calls[1] + 1 .. Len(storage_) : storage_[i] = Mark}
        = {calls[d] + 1 : d \in 1 .. Len(calls)}
  BY <1>1 DEF Inv, CallsOwnScopes
<1>5. storage_[own + 1] = Mark
  <2>1. own + 1 \in {calls[d] + 1 : d \in 1 .. Len(calls)}
    BY <1>1
  <2> QED
    BY <1>4, <2>1
<1>6. own + 1 \in ends /\ ends \in SUBSET Int
  BY <1>1, <1>3, <1>5 DEF IsEndOfScope
<1>7. ASSUME NEW i \in ends PROVE own + 1 >= i
  <2> SUFFICES ASSUME i > own + 1 PROVE FALSE
    BY <1>1, <1>3
  <2>1. i \in calls[1] + 1 .. Len(storage_) /\ storage_[i] = Mark
    BY <1>1, <1>2, <1>3 DEF IsEndOfScope
  <2>2. PICK d \in 1 .. Len(calls) : i = calls[d] + 1
    BY <1>4, <2>1
  <2> QED
    BY <1>1, <1>2, <1>3, <2>2
<1>8. Max(ends) = own + 1
  <2> HIDE DEF ends, own
  <2> QED
    BY <1>6, <1>7, GreatestIsMax
<1> QED
  BY <1>3, <1>5, <1>8 DEF ScopeStart

LEMMA ReturnKeepsInv == Inv /\ Return => Inv'
<1> SUFFICES ASSUME Inv, Return PROVE Inv'
  OBVIOUS
<1> DEFINE own == calls[Len(calls)]
           marked == SubSeq(storage_, 1, own + 1)
<1>1. calls # <<>> /\ calls' = Front(calls) /\ UNCHANGED <<context_, lambda_params_>>
  BY DEF Return
<1>2. own \in Nat /\ own < Len(storage_) /\ storage_[own + 1] = Mark /\ ScopeStart = own + 1
  BY <1>1, ReturnEndsItsScope
<1>3. /\ storage_ \in Seq(Stacked) /\ Len(storage_) \in Nat
      /\ calls \in Seq(Nat) /\ Len(calls) \in Nat \ {0} /\ DOMAIN calls = 1 .. Len(calls)
  BY <1>1 DEF Inv, TypeOK
<1>4. storage_' = SubSeq(storage_, 1, own)
  <2>1. own + 1 - 1 = own
    BY <1>2
  <2> QED
    BY <1>2, <2>1 DEF Return
<1> HIDE DEF own
<1>5. /\ storage_' \in Seq(Stacked) /\ Len(storage_') = own
      /\ \A i \in 1 .. own : storage_'[i] = storage_[i]
  <2>1. \A i \in 1 .. own : storage_[i] \in Stacked
    BY <1>2, <1>3
  <2> QED
    BY <1>2, <1>4, <2>1, SubSeqProperties
<1>6. GetContext \in Seq(Entries) /\ GetContext \in Seq(Stacked)
  BY LastScope, SeqMonotonic DEF Inv, Stacked
<1>7. storage_ = (storage_' \o <<Mark>>) \o GetContext
  <2>1. marked = storage_' \o <<Mark>>
    <3>1. own + 1 \in 1 .. Len(storage_) /\ 1 \in 1 .. Len(storage_)
      BY <1>2, <1>3
    <3>2. SubSeq(storage_, 1, own + 1)
            = SubSeq(storage_, 1, own + 1 - 1) \o <<storage_[own + 1]>>
      BY <1>2, <1>3, <3>1, SubSeqRecursiveSecond
    <3>3. own + 1 - 1 = own
      BY <1>2
    <3> QED
      BY <1>2, <1>4, <3>2, <3>3
  <2>2. GetContext = SubSeq(storage_, own + 1 + 1, Len(storage_))
    BY <1>2 DEF GetContext
  <2>3. /\ 1 \in 1 .. Len(storage_) + 1 /\ own + 1 \in 1 - 1 .. Len(storage_)
        /\ Len(storage_) \in own + 1 .. Len(storage_)
    BY <1>2, <1>3
  <2>4. marked \o GetContext = SubSeq(storage_, 1, Len(storage_))
    BY <1>3, <2>2, <2>3, ConcatAdjacentSubSeq
  <2>5. SubSeq(storage_, 1, Len(storage_)) = storage_
    BY <1>3, SubSeqFull
  <2> QED
    BY <2>1, <2>4, <2>5
<1> HIDE DEF marked
<1>8. ASSUME NEW n \in Names
      PROVE  /\ Dec(GetContext)[n] = Cardinality(Places(storage_', n))
             /\ Dec(GetContext)[n] \in Nat
  <2> DEFINE below == Cardinality(Places(storage_', n))
             gone == Cardinality(Places(GetContext, n))
  <2>1. below \in Nat /\ gone \in Nat
    BY <1>5, <1>6, PlacesAreFinite
  <2>2. <<Mark>> \in Seq(Stacked) /\ storage_' \o <<Mark>> \in Seq(Stacked)
    BY <1>5, ConcatProperties DEF Stacked
  <2>3. Cardinality(Places(<<Mark>>, n)) = 0
    <3>1. Places(<<Mark>>, n) = {}
      BY MarkIsNoEntry DEF Places
    <3> QED
      BY <3>1, FS_EmptySet
  <2>4. Cardinality(Places(storage_' \o <<Mark>>, n))
          = below + Cardinality(Places(<<Mark>>, n))
    BY <1>5, <2>2, PlacesOfConcat
  <2>5. Cardinality(Places((storage_' \o <<Mark>>) \o GetContext, n))
          = Cardinality(Places(storage_' \o <<Mark>>, n)) + gone
    BY <1>6, <2>2, PlacesOfConcat
  <2>6. Cardinality(Places(storage_, n))
          = Cardinality(Places((storage_' \o <<Mark>>) \o GetContext, n))
    BY <1>7
  <2>7. defined_variables_counter_[n] = Cardinality(Places(storage_, n))
    BY DEF Inv, CounterCountsVariables
  <2> HIDE DEF below, gone
  <2>8. defined_variables_counter_[n] - gone = below
    BY <2>1, <2>3, <2>4, <2>5, <2>6, <2>7
  <2>9. Max({0, below}) = below
    BY <2>1, GreatestIsMax
  <2>10. Dec(GetContext)[n] = Max({0, below})
    BY <2>8 DEF Dec, gone
  <2> QED
    BY <2>1, <2>9, <2>10 DEF below
<1>9. defined_variables_counter_' \in [Names -> Nat] /\ CounterCountsVariables'
  <2>1. defined_variables_counter_' = Dec(GetContext)
    BY DEF Return
  <2>2. Dec(GetContext) \in [Names -> Nat]
    BY <1>8 DEF Dec
  <2> QED
    BY <1>8, <2>1, <2>2 DEF CounterCountsVariables
<1>10. /\ calls' \in Seq(Nat) /\ Len(calls') = Len(calls) - 1
       /\ DOMAIN calls' = 1 .. Len(calls) - 1
       /\ \A d \in 1 .. Len(calls) - 1 : calls'[d] = calls[d]
  <2>1. \A d \in 1 .. Len(calls) - 1 : calls[d] \in Nat
    BY <1>3
  <2> QED
    BY <1>1, <1>3, <2>1, SubSeqProperties DEF Front
<1>11. \A d \in 1 .. Len(calls) - 1 :
         /\ calls[d] \in Nat /\ calls[d] < own
         /\ \A e \in 1 .. Len(calls) - 1 : e < d => calls[e] < calls[d]
  <2> SUFFICES ASSUME NEW d \in 1 .. Len(calls) - 1
               PROVE  /\ calls[d] \in Nat /\ calls[d] < own
                      /\ \A e \in 1 .. Len(calls) - 1 : e < d => calls[e] < calls[d]
    OBVIOUS
  <2>1. d \in 1 .. Len(calls) /\ Len(calls) \in 1 .. Len(calls) /\ d < Len(calls)
    BY <1>3
  <2>2. \A e \in 1 .. Len(calls) - 1 : e \in 1 .. Len(calls)
    BY <1>3
  <2>3. \A b, c \in 1 .. Len(calls) : b < c => calls[b] < calls[c]
    BY <1>3 DEF Inv, CallsInOrder
  <2> QED
    BY <1>3, <2>1, <2>2, <2>3 DEF own
<1>12. CallsInOrder'
  BY <1>5, <1>10, <1>11 DEF CallsInOrder
<1>13. CallsOwnScopes'
  <2> SUFFICES ASSUME calls' # <<>>
               PROVE  {i \in calls'[1] + 1 .. Len(storage_') : storage_'[i] = Mark}
                        = {calls'[d] + 1 : d \in DOMAIN calls'}
    BY DEF CallsOwnScopes
  <2>1. Len(calls) > 1 /\ calls'[1] = calls[1] /\ calls[1] \in Nat
    BY <1>3, <1>10
  <2>2. {i \in calls[1] + 1 .. Len(storage_) : storage_[i] = Mark}
          = {calls[d] + 1 : d \in 1 .. Len(calls)}
    BY <1>1, <1>3 DEF Inv, CallsOwnScopes
  <2>3. \A i \in calls[1] + 1 .. own : i \in calls[1] + 1 .. Len(storage_) /\ i \in 1 .. own
    BY <1>2, <1>3, <2>1
  <2>4. ASSUME NEW i \in calls[1] + 1 .. own, storage_'[i] = Mark
        PROVE  \E d \in 1 .. Len(calls) - 1 : i = calls[d] + 1
    <3>1. PICK d \in 1 .. Len(calls) : i = calls[d] + 1
      BY <1>5, <2>2, <2>3, <2>4
    <3>2. d # Len(calls)
      BY <1>2, <2>1, <3>1 DEF own
    <3>3. d \in 1 .. Len(calls) - 1
      <4>1. Len(calls) \in Nat /\ d \in 1 .. Len(calls) /\ d # Len(calls)
        BY <1>3, <3>1, <3>2
      <4> QED
        BY <4>1
    <3> QED
      BY <3>1, <3>3
  <2>5. ASSUME NEW d \in 1 .. Len(calls) - 1
        PROVE  calls[d] + 1 \in calls[1] + 1 .. own /\ storage_'[calls[d] + 1] = Mark
    <3>1. d \in 1 .. Len(calls)
      BY <1>3
    <3>2. calls[d] + 1 \in calls[1] + 1 .. Len(storage_) /\ storage_[calls[d] + 1] = Mark
      BY <2>2, <3>1
    <3>3. calls[d] + 1 \in calls[1] + 1 .. own
      BY <1>2, <1>3, <1>11, <2>1, <3>2
    <3> QED
      BY <1>5, <2>3, <3>2, <3>3
  <2>6. {calls'[d] + 1 : d \in DOMAIN calls'} = {calls[d] + 1 : d \in 1 .. Len(calls) - 1}
    BY <1>10
  <2>7. {i \in calls[1] + 1 .. own : storage_'[i] = Mark}
          = {calls[d] + 1 : d \in 1 .. Len(calls) - 1}
    BY <2>4, <2>5
  <2> QED
    BY <1>5, <2>1, <2>6, <2>7
<1> QED
  BY <1>1, <1>5, <1>9, <1>10, <1>12, <1>13 DEF Inv, TypeOK

-----------------------------------------------------------------------------
(* What leaves the stack alone and drops the calls, or keeps them.         *)
LEMMA OthersKeepInv ==
  ASSUME Inv, UNCHANGED <<storage_, defined_variables_counter_>>,
         calls' \in {calls, <<>>},
         context_' \in [Lambdas -> Seq(Entries) \union {None}],
         lambda_params_' \in [Lambdas -> Seq(Names)]
  PROVE  Inv'
<1>1. TypeOK'
  <2>1. calls \in Seq(Nat) /\ <<>> \in Seq(Nat)
    BY DEF Inv, TypeOK
  <2> QED
    BY <2>1 DEF Inv, TypeOK
<1>2. CounterCountsVariables'
  BY DEF Inv, CounterCountsVariables, Places
<1>3. CallsInOrder' /\ CallsOwnScopes'
  <2>1. CASE calls' = calls
    BY <2>1 DEF Inv, CallsInOrder, CallsOwnScopes
  <2>2. CASE calls' = <<>>
    BY <2>2 DEF CallsInOrder, CallsOwnScopes
  <2> QED
    BY <2>1, <2>2
<1> QED
  BY <1>1, <1>2, <1>3 DEF Inv

LEMMA ParamsAreNames == Params \subseteq Seq(Names)
<1>1. <<>> \in Seq(Names) /\ \A n \in Names : <<n>> \in Seq(Names)
  OBVIOUS
<1> QED
  BY <1>1 DEF Params

LEMMA NextInv == Inv /\ [Next]_vars => Inv'
<1> SUFFICES ASSUME Inv, [Next]_vars PROVE Inv'
  OBVIOUS
<1>1. /\ context_ \in [Lambdas -> Seq(Entries) \union {None}]
      /\ lambda_params_ \in [Lambdas -> Seq(Names)]
      /\ \A l \in Made : l \in Lambdas /\ context_[l] \in Seq(Entries)
  BY DEF Inv, TypeOK, Made
<1>2. ASSUME NEW l \in Lambdas, Call(l) PROVE Inv'
  <2>1. /\ l \in Made /\ calls' = Append(calls, Len(storage_))
        /\ UNCHANGED <<context_, lambda_params_>>
    BY <1>2 DEF Call
  <2>2. <<>> \in Seq(Entries)
    OBVIOUS
  <2>3. CASE Enters(l, <<>>)
    BY <2>1, <2>2, <2>3, CallKeepsInv
  <2>4. ASSUME NEW n \in Names, NEW v \in Fresh, Enters(l, <<Entry(n, v)>>)
        PROVE  Inv'
    <3>1. <<Entry(n, v)>> \in Seq(Entries)
      BY DEF Fresh, Entry, Entries
    <3> QED
      BY <2>1, <2>4, <3>1, CallKeepsInv
  <2> QED
    BY <1>2, <2>3, <2>4 DEF Call
<1>3. ASSUME NEW l \in Lambdas, NEW params \in Params, MakeLambda(l, params) PROVE Inv'
  <2>1. GetContext \in Seq(Entries)
    BY LastScope DEF Inv
  <2>2. params \in Seq(Names)
    BY ParamsAreNames
  <2>3. /\ context_' = [context_ EXCEPT ![l] = GetContext]
        /\ lambda_params_' = [lambda_params_ EXCEPT ![l] = params]
        /\ UNCHANGED <<storage_, defined_variables_counter_, calls>>
    BY <1>3 DEF MakeLambda
  <2>4. /\ context_' \in [Lambdas -> Seq(Entries) \union {None}]
        /\ lambda_params_' \in [Lambdas -> Seq(Names)]
    BY <1>1, <2>1, <2>2, <2>3
  <2> QED
    BY <2>3, <2>4, OthersKeepInv
<1>4. ASSUME NEW n \in Names, NEW v \in Fresh, Define(n, v) PROVE Inv'
  BY <1>1, <1>4, DefineKeepsInv DEF Define, Fresh
<1>5. ASSUME NEW n \in Names, NEW v \in Fresh, NEW l \in Lambdas, NEW self \in Fresh,
             DefineLambda(n, v, l, self)
      PROVE  Inv'
  <2>1. /\ l \in Made /\ DefineVariable(n, v) /\ UNCHANGED <<lambda_params_, calls>>
        /\ context_' = [context_ EXCEPT ![l] = Append(context_[l], Entry(n, self))]
    BY <1>1, <1>5 DEF DefineLambda
  <2>2. Entry(n, self) \in Entries /\ v \in Variables
    BY DEF Fresh, Entry, Entries
  <2>3. Append(context_[l], Entry(n, self)) \in Seq(Entries)
    BY <1>1, <2>1, <2>2
  <2>4. context_' \in [Lambdas -> Seq(Entries) \union {None}]
    BY <1>1, <2>1, <2>3
  <2> QED
    BY <2>1, <2>2, <2>4, DefineKeepsInv
<1>6. ASSUME NEW n \in Names, Compute(n) \/ SetVariable(n) PROVE Inv'
  BY <1>1, <1>6, OthersKeepInv DEF Compute, SetVariable, Meets
<1>7. CASE Return
  BY <1>7, ReturnKeepsInv
<1>8. CASE Throw
  BY <1>1, <1>8, OthersKeepInv DEF Throw
<1>9. CASE Clear
  <2>1. /\ storage_' = <<>> /\ calls' = <<>>
        /\ defined_variables_counter_' = [n \in Names |-> 0]
    BY <1>9 DEF Clear
  <2>2. TypeOK'
    BY <1>9, <2>1 DEF Clear, TypeOK
  <2>3. CallsInOrder' /\ CallsOwnScopes'
    BY <2>1 DEF CallsInOrder, CallsOwnScopes
  <2>4. \A n : Places(storage_', n) = {}
    BY <2>1 DEF Places
  <2>5. CounterCountsVariables'
    BY <2>1, <2>4, FS_EmptySet DEF CounterCountsVariables
  <2> QED
    BY <2>2, <2>3, <2>5 DEF Inv
<1>10. CASE UNCHANGED vars
  BY <1>1, <1>10, OthersKeepInv DEF vars
<1> QED
  BY <1>2, <1>3, <1>4, <1>5, <1>6, <1>7, <1>8, <1>9, <1>10 DEF Next

LEMMA MemoryInvariant == Spec => []Inv
BY InitInv, NextInv, PTL DEF Spec

(* The stack holds variables with names and marks only, what a lambda has  *)
(* captured is variables with names, and the counter never goes below zero *)
(* (Memory::Dec caps it there), for all names, lambdas and depths.         *)
THEOREM MemoryTypeCorrect == Spec => []TypeOK
<1>1. Inv => TypeOK
  BY DEF Inv
<1> QED
  BY <1>1, MemoryInvariant, PTL

(* IsDefined, which asks the counter, says what GetVariable, which         *)
(* searches the stack, will find: through any nesting of calls, returns,   *)
(* errors that leave scopes behind, and the end of an Interpreter.         *)
THEOREM MemoryCountsVariables == Spec => []CounterCountsVariables
<1>1. Inv => CounterCountsVariables
  BY DEF Inv
<1> QED
  BY <1>1, MemoryInvariant, PTL

(* The mark that Pop finds is the one of the call that returns: no call    *)
(* ends the scope of another, nor what an error left on the stack.         *)
THEOREM MemoryCallsOwnScopes == Spec => []CallsOwnScopes
<1>1. Inv => CallsOwnScopes
  BY DEF Inv
<1> QED
  BY <1>1, MemoryInvariant, PTL

-----------------------------------------------------------------------------
(* Frames of bindings.  The proof cuts the stack at its last mark: a       *)
(* sequence without marks is one frame (OneScope), and a mark with entries *)
(* adds one (OneMoreScope).  All that define, a call, a capture and a      *)
(* return do to the frames follows from these two and from LastScopeOnTop. *)
Frame == [Names -> Variables \union {None}]

(* The marks up to a place can be counted, and their number grows.         *)
LEMMA ScopeNumbers ==
  ASSUME NEW s, NEW i \in Nat, NEW j \in Nat, i <= j
  PROVE  /\ IsFiniteSet({m \in 1 .. i : s[m] = Mark})
         /\ Scope(s, i) \in Nat \ {0}
         /\ Scope(s, i) <= Scope(s, j)
<1> DEFINE marks(k) == {m \in 1 .. k : s[m] = Mark}
<1>1. ASSUME NEW k \in Nat PROVE IsFiniteSet(marks(k)) /\ Cardinality(marks(k)) \in Nat
  <2>1. IsFiniteSet(1 .. k) /\ marks(k) \subseteq 1 .. k
    BY FS_Interval
  <2> HIDE DEF marks
  <2> QED
    BY <2>1, FS_Subset, FS_CardinalityType
<1>2. marks(i) \subseteq marks(j)
  OBVIOUS
<1>3. Cardinality(marks(i)) <= Cardinality(marks(j))
  <2> HIDE DEF marks
  <2> QED
    BY <1>1, <1>2, FS_Subset
<1>4. Scope(s, i) = Cardinality(marks(i)) + 1 /\ Scope(s, j) = Cardinality(marks(j)) + 1
  BY DEF Scope
<1> HIDE DEF marks
<1>5. IsFiniteSet(marks(i))
  BY <1>1
<1>6. Scope(s, i) \in Nat \ {0} /\ Scope(s, i) <= Scope(s, j)
  BY <1>1, <1>3, <1>4
<1> QED
  BY <1>5, <1>6 DEF marks

(* Of the places of a name the last one binds it.                          *)
LEMMA LastOfPlaces ==
  ASSUME NEW s \in Seq(Stacked), NEW n \in Names, NEW places \in SUBSET Places(s, n)
  PROVE  /\ LastOf(s, places) \in Variables \union {None}
         /\ places # {} =>
              /\ Max(places) \in places /\ \A i \in places : Max(places) >= i
              /\ LastOf(s, places) = s[Max(places)].variable
              /\ LastOf(s, places) \in Variables /\ LastOf(s, places) # None
<1>1. places \subseteq 1 .. Len(s) /\ Len(s) \in Nat
  BY DEF Places
<1>2. CASE places = {}
  BY <1>2 DEF LastOf
<1>3. CASE places # {}
  <2>1. Max(places) \in places /\ \A i \in places : Max(places) >= i
    <3>1. places \in SUBSET (0 .. Len(s))
      BY <1>1
    <3> QED
      BY <1>1, <1>3, <3>1, MaxIsGreatest
  <2>2. s[Max(places)].name = n /\ s[Max(places)] \in Stacked
    BY <1>1, <2>1 DEF Places
  <2>3. s[Max(places)] \in Entries
    BY <2>2, MarkIsNoEntry DEF Stacked
  <2>4. s[Max(places)].variable \in Variables
    BY <2>3 DEF Entries
  <2> QED
    BY <1>3, <2>1, <2>4, MemoryAssumption DEF LastOf
<1> QED
  BY <1>2, <1>3

LEMMA BindingsAreAFrame ==
  ASSUME NEW s \in Seq(Stacked)
  PROVE  Bindings(s) \in Frame
<1>1. \A n \in Names : LastOf(s, Places(s, n)) \in Variables \union {None}
  BY LastOfPlaces
<1> QED
  BY <1>1 DEF Bindings, Frame

LEMMA ScopesAreFrames ==
  ASSUME NEW s \in Seq(Stacked)
  PROVE  /\ Scopes(s) \in Seq(Frame)
         /\ Len(Scopes(s)) = Scope(s, Len(s))
         /\ Scope(s, Len(s)) \in Nat \ {0}
<1> DEFINE top == Scope(s, Len(s))
<1>1. top \in Nat \ {0}
  <2>1. Len(s) \in Nat /\ Len(s) <= Len(s)
    OBVIOUS
  <2> QED
    BY <2>1, ScopeNumbers
<1>2. ASSUME NEW k \in 1 .. top, NEW n \in Names
      PROVE  LastOf(s, {i \in Places(s, n) : Scope(s, i) = k}) \in Variables \union {None}
  BY LastOfPlaces
<1>3. Scopes(s) \in [1 .. top -> Frame]
  <2> HIDE DEF top
  <2>1. Scopes(s) = [k \in 1 .. top |->
                       [n \in Names |-> LastOf(s, {i \in Places(s, n) : Scope(s, i) = k})]]
    BY DEF Scopes, top
  <2> QED
    BY <1>2, <2>1 DEF Frame
<1> HIDE DEF top
<1>4. Scopes(s) \in Seq(Frame) /\ Len(Scopes(s)) = top
  BY <1>1, <1>3, SeqDef
<1> QED
  BY <1>1, <1>4 DEF top

(* A sequence without marks is one scope.                                  *)
LEMMA OneScope ==
  ASSUME NEW t \in Seq(Entries)
  PROVE  Scopes(t) = <<Bindings(t)>>
<1>1. t \in Seq(Stacked) /\ Len(t) \in Nat
  BY SeqMonotonic DEF Stacked
<1>2. ASSUME NEW i \in 0 .. Len(t) PROVE Scope(t, i) = 1
  <2>1. \A m \in 1 .. i : t[m] \in Entries
    BY <1>1
  <2>2. {m \in 1 .. i : t[m] = Mark} = {}
    BY <2>1, MarkIsNoEntry
  <2>3. Cardinality({m \in 1 .. i : t[m] = Mark}) = 0
    BY <2>2, FS_EmptySet
  <2> QED
    BY <2>3 DEF Scope
<1>3. \A n : {i \in Places(t, n) : Scope(t, i) = 1} = Places(t, n)
  BY <1>1, <1>2 DEF Places
<1>4. Scope(t, Len(t)) = 1
  BY <1>1, <1>2
<1>5. Scopes(t) = [k \in 1 .. 1 |-> [n \in Names |->
                     LastOf(t, {i \in Places(t, n) : Scope(t, i) = k})]]
  BY <1>4 DEF Scopes
<1>6. Scopes(t) = [k \in 1 .. 1 |-> Bindings(t)]
  <2>1. \A k \in 1 .. 1 : k = 1
    OBVIOUS
  <2>2. [n \in Names |-> LastOf(t, {i \in Places(t, n) : Scope(t, i) = 1})] = Bindings(t)
    BY <1>3 DEF Bindings
  <2> QED
    BY <1>5, <2>1, <2>2
<1>7. Scopes(t) \in Seq(Frame) /\ Len(Scopes(t)) = 1
  BY <1>1, <1>4, ScopesAreFrames
<1> QED
  BY <1>6, <1>7

(* A mark and entries on top are one more scope.                           *)
LEMMA OneMoreScope ==
  ASSUME NEW s \in Seq(Stacked), NEW t \in Seq(Entries)
  PROVE  Scopes((s \o <<Mark>>) \o t) = Append(Scopes(s), Bindings(t))
<1> DEFINE u == (s \o <<Mark>>) \o t
           top == Scope(s, Len(s))
           low == Len(s)
<1>1. t \in Seq(Stacked) /\ Len(t) \in Nat /\ low \in Nat
  BY SeqMonotonic DEF Stacked
<1>2. <<Mark>> \in Seq(Stacked)
  BY DEF Stacked
<1>3. /\ u \in Seq(Stacked) /\ Len(u) = low + 1 + Len(t)
      /\ \A i \in 1 .. low : u[i] = s[i]
      /\ u[low + 1] = Mark
      /\ \A i \in 1 .. Len(t) : u[low + 1 + i] = t[i]
      /\ \A i \in low + 2 .. Len(u) : i - (low + 1) \in 1 .. Len(t) /\ u[i] = t[i - (low + 1)]
  <2>1. (s \o <<Mark>>) \in Seq(Stacked) /\ Len(s \o <<Mark>>) = low + 1
    BY <1>1, <1>2, ConcatProperties
  <2>2. \A i \in 1 .. low : (s \o <<Mark>>)[i] = s[i]
    OBVIOUS
  <2>3. (s \o <<Mark>>)[low + 1] = Mark
    OBVIOUS
  <2>4. /\ u \in Seq(Stacked) /\ Len(u) = Len(s \o <<Mark>>) + Len(t)
        /\ \A i \in 1 .. low + 1 + Len(t) : u[i] =
             IF i <= low + 1 THEN (s \o <<Mark>>)[i] ELSE t[i - (low + 1)]
    <3> DEFINE sm == s \o <<Mark>>
    <3>1. u = sm \o t
      OBVIOUS
    <3> HIDE DEF sm, u
    <3> QED
      BY <1>1, <2>1, <3>1, ConcatProperties DEF sm
  <2> HIDE DEF u
  <2>5. \A i \in 1 .. Len(t) : low + 1 + i \in 1 .. low + 1 + Len(t) /\ ~ (low + 1 + i <= low + 1)
                               /\ low + 1 + i - (low + 1) = i
    BY <1>1
  <2>6. \A i \in low + 2 .. Len(u) :
          i - (low + 1) \in 1 .. Len(t) /\ i \in 1 .. low + 1 + Len(t) /\ ~ (i <= low + 1)
    BY <1>1, <2>1, <2>4
  <2> QED
    BY <1>1, <2>1, <2>2, <2>3, <2>4, <2>5, <2>6
<1> HIDE DEF u
<1>4. top \in Nat \ {0}
  BY ScopesAreFrames
<1>5. ASSUME NEW i \in 0 .. low PROVE Scope(u, i) = Scope(s, i) /\ Scope(u, i) \in 1 .. top
  <2>1. {m \in 1 .. i : u[m] = Mark} = {m \in 1 .. i : s[m] = Mark}
    BY <1>1, <1>3
  <2>2. i \in Nat /\ i <= low
    BY <1>1
  <2>3. Scope(s, i) \in Nat \ {0} /\ Scope(s, i) <= top
    BY <1>1, <2>2, ScopeNumbers
  <2>4. Scope(u, i) = Scope(s, i)
    BY <2>1 DEF Scope
  <2> QED
    BY <1>4, <2>3, <2>4
<1>6. ASSUME NEW i \in low + 1 .. Len(u) PROVE Scope(u, i) = top + 1
  <2> DEFINE marks == {m \in 1 .. low : s[m] = Mark}
  <2>1. {m \in 1 .. i : u[m] = Mark} = marks \union {low + 1}
    <3>1. ASSUME NEW m \in 1 .. i, u[m] = Mark PROVE m \in marks \union {low + 1}
      <4>1. CASE m <= low
        BY <1>1, <1>3, <3>1, <4>1
      <4>2. CASE m > low + 1
        <5>1. m \in low + 2 .. Len(u)
          BY <1>1, <1>3, <4>2
        <5>2. u[m] = t[m - (low + 1)] /\ t[m - (low + 1)] \in Entries
          BY <1>3, <5>1
        <5> QED
          BY <3>1, <5>2, MarkIsNoEntry
      <4> QED
        BY <1>1, <4>1, <4>2
    <3>2. marks \union {low + 1} \subseteq {m \in 1 .. i : u[m] = Mark}
      BY <1>1, <1>3
    <3> QED
      BY <3>1, <3>2
  <2>2. IsFiniteSet(marks) /\ low + 1 \notin marks
    <3>1. low \in Nat /\ low <= low
      BY <1>1
    <3>2. IsFiniteSet(marks)
      BY <3>1, ScopeNumbers
    <3> QED
      BY <1>1, <3>2
  <2>3. top = Cardinality(marks) + 1
    BY DEF Scope
  <2> HIDE DEF marks
  <2>4. Cardinality(marks \union {low + 1}) = Cardinality(marks) + 1
    BY <2>2, FS_AddElement
  <2> QED
    BY <2>1, <2>3, <2>4 DEF Scope
<1>7. Scope(u, Len(u)) = top + 1
  BY <1>1, <1>3, <1>6
<1>8. ASSUME NEW n \in Names, NEW k \in 1 .. top
      PROVE  LastOf(u, {i \in Places(u, n) : Scope(u, i) = k})
               = LastOf(s, {i \in Places(s, n) : Scope(s, i) = k})
  <2> DEFINE places == {i \in Places(s, n) : Scope(s, i) = k}
  <2>1. {i \in Places(u, n) : Scope(u, i) = k} = places
    <3>1. ASSUME NEW i \in Places(u, n), Scope(u, i) = k PROVE i \in places
      <4>1. i \in 1 .. Len(u) /\ u[i].name = n
        BY <1>3 DEF Places
      <4>2. i \in 1 .. low
        <5>1. ~ i \in low + 1 .. Len(u)
          <6>1. k # top + 1
            BY <1>4
          <6> QED
            BY <1>6, <3>1, <6>1
        <5>2. i \in Int /\ low \in Nat /\ Len(u) \in Nat
          BY <1>1, <1>3, <4>1
        <5> QED
          BY <4>1, <5>1, <5>2
      <4> QED
        BY <1>1, <1>3, <1>5, <3>1, <4>1, <4>2 DEF Places
    <3>2. ASSUME NEW i \in places PROVE i \in Places(u, n) /\ Scope(u, i) = k
      <4>1. i \in 1 .. low /\ s[i].name = n /\ Scope(s, i) = k
        BY DEF Places
      <4> QED
        BY <1>1, <1>3, <1>5, <4>1 DEF Places
    <3> QED
      BY <3>1, <3>2
  <2>2. places # {} => Max(places) \in places
    BY LastOfPlaces
  <2>3. places \subseteq 1 .. low
    BY DEF Places
  <2> HIDE DEF places
  <2>4. LastOf(u, places) = LastOf(s, places)
    BY <1>3, <2>2, <2>3 DEF LastOf
  <2> QED
    BY <2>1, <2>4 DEF places
<1>9. ASSUME NEW n \in Names
      PROVE  LastOf(u, {i \in Places(u, n) : Scope(u, i) = top + 1}) = Bindings(t)[n]
  <2> DEFINE places == Places(t, n)
             raised == {low + 1 + i : i \in places}
  <2>1. {i \in Places(u, n) : Scope(u, i) = top + 1} = raised
    <3>1. ASSUME NEW i \in Places(u, n), Scope(u, i) = top + 1 PROVE i \in raised
      <4>1. i \in 1 .. Len(u) /\ u[i].name = n
        BY <1>3 DEF Places
      <4>2. ~ (i <= low)
        BY <1>1, <1>3, <1>4, <1>5, <3>1, <4>1
      <4>3. i # low + 1
        BY <1>3, <4>1, MarkIsNoEntry
      <4>4. i - (low + 1) \in 1 .. Len(t) /\ low + 1 + (i - (low + 1)) = i
        BY <1>1, <1>3, <4>1, <4>2, <4>3
      <4>5. i - (low + 1) \in places
        BY <1>3, <4>1, <4>4 DEF Places
      <4> QED
        BY <4>4, <4>5
    <3>2. ASSUME NEW i \in places PROVE low + 1 + i \in Places(u, n) /\ Scope(u, low + 1 + i) = top + 1
      <4>1. i \in 1 .. Len(t) /\ t[i].name = n
        BY DEF Places
      <4>2. low + 1 + i \in low + 1 .. Len(u) /\ low + 1 + i \in 1 .. Len(u)
        BY <1>1, <1>3, <4>1
      <4>3. u[low + 1 + i].name = n
        BY <1>3, <4>1
      <4> QED
        BY <1>3, <1>6, <4>2, <4>3 DEF Places
    <3> QED
      BY <3>1, <3>2
  <2>2. CASE places = {}
    BY <2>1, <2>2 DEF LastOf, Bindings
  <2>3. CASE places # {}
    <3>1. Max(places) \in places /\ \A i \in places : Max(places) >= i
      BY <1>1, <2>3, LastOfPlaces
    <3>2. places \subseteq 1 .. Len(t)
      BY DEF Places
    <3> HIDE DEF places
    <3>3. Max(raised) = low + 1 + Max(places)
      <4>1. \A i \in places : i \in Int /\ low + 1 + i \in Int
        BY <1>1, <3>2
      <4>2. raised \in SUBSET Int /\ low + 1 + Max(places) \in raised
        BY <3>1, <4>1
      <4>3. \A i \in places : low + 1 + Max(places) >= low + 1 + i
        BY <1>1, <3>1, <4>1
      <4>4. \A i \in raised : low + 1 + Max(places) >= i
        BY <4>3
      <4> HIDE DEF raised
      <4> QED
        BY <4>2, <4>4, GreatestIsMax
    <3>4. LastOf(u, raised) = u[Max(raised)].variable /\ LastOf(t, places) = t[Max(places)].variable
      BY <2>3 DEF LastOf
    <3>5. u[Max(raised)] = t[Max(places)]
      BY <1>3, <3>1, <3>2, <3>3
    <3> QED
      BY <2>1, <3>4, <3>5 DEF Bindings, places
  <2> QED
    BY <2>2, <2>3
<1>10. /\ Scopes(s) \in Seq(Frame) /\ Len(Scopes(s)) = top
       /\ Scopes(u) \in Seq(Frame) /\ Len(Scopes(u)) = top + 1
       /\ Bindings(t) \in Frame
  BY <1>1, <1>3, <1>7, ScopesAreFrames, BindingsAreAFrame
<1>11. \A k \in 1 .. top : Scopes(u)[k] = Scopes(s)[k]
  <2> SUFFICES ASSUME NEW k \in 1 .. top PROVE Scopes(u)[k] = Scopes(s)[k]
    OBVIOUS
  <2>1. k \in 1 .. Scope(u, Len(u)) /\ k \in 1 .. Scope(s, Len(s))
    BY <1>4, <1>7
  <2> QED
    BY <1>8, <2>1 DEF Scopes
<1>12. Scopes(u)[top + 1] = Bindings(t)
  <2>1. top + 1 \in 1 .. Scope(u, Len(u))
    BY <1>4, <1>7
  <2>2. Bindings(t) = [n \in Names |-> Bindings(t)[n]]
    BY DEF Bindings
  <2> QED
    BY <1>9, <2>1, <2>2 DEF Scopes
<1> HIDE DEF top
<1>13. Scopes(u) = Append(Scopes(s), Bindings(t))
  <2> DEFINE a == Append(Scopes(s), Bindings(t))
  <2>1. /\ a \in Seq(Frame) /\ Len(a) = top + 1
        /\ \A k \in 1 .. top : a[k] = Scopes(s)[k]
        /\ a[top + 1] = Bindings(t)
    BY <1>10, AppendProperties
  <2>2. \A k \in 1 .. Len(a) : k \in 1 .. top \/ k = top + 1
    BY <1>4, <2>1 DEF top
  <2> HIDE DEF a
  <2>3. \A k \in 1 .. Len(a) : Scopes(u)[k] = a[k]
    BY <1>11, <1>12, <2>1, <2>2
  <2>4. Scopes(u) = a
    BY <1>10, <2>1, <2>3, SeqEqual
  <2> QED
    BY <2>4 DEF a
<1> QED
  BY <1>13 DEF u

(* One more entry binds its name anew.                                     *)
LEMMA BindingsOfAppend ==
  ASSUME NEW t \in Seq(Entries), NEW n \in Names, NEW v \in Variables
  PROVE  Bindings(Append(t, Entry(n, v))) = [Bindings(t) EXCEPT ![n] = v]
<1> DEFINE u == Append(t, Entry(n, v))
<1>1. /\ Entry(n, v) \in Entries /\ Entry(n, v).name = n /\ Entry(n, v).variable = v
      /\ Len(t) \in Nat
  BY DEF Entry, Entries
<1>2. /\ u \in Seq(Entries) /\ Len(u) = Len(t) + 1 /\ u[Len(t) + 1] = Entry(n, v)
      /\ \A i \in 1 .. Len(t) : u[i] = t[i]
  BY <1>1, AppendProperties
<1>3. t \in Seq(Stacked) /\ u \in Seq(Stacked)
  BY <1>2, SeqMonotonic DEF Stacked
<1> HIDE DEF u
<1>4. ASSUME NEW m \in Names
      PROVE  LastOf(u, Places(u, m)) = IF m = n THEN v ELSE LastOf(t, Places(t, m))
  <2>1. CASE m = n
    <3>1. /\ Len(t) + 1 \in Places(u, n) /\ Places(u, n) \in SUBSET Int
          /\ \A i \in Places(u, n) : Len(t) + 1 >= i
      BY <1>1, <1>2 DEF Places
    <3>2. Max(Places(u, n)) = Len(t) + 1
      BY <3>1, GreatestIsMax
    <3> QED
      BY <1>1, <1>2, <2>1, <3>1, <3>2 DEF LastOf
  <2>2. CASE m # n
    <3>1. \A i \in 1 .. Len(u) : i \in 1 .. Len(t) \/ i = Len(t) + 1
      BY <1>1, <1>2
    <3>2. Places(u, m) = Places(t, m)
      BY <1>1, <1>2, <2>2, <3>1 DEF Places
    <3>3. \A i \in Places(t, m) : u[i] = t[i]
      BY <1>2 DEF Places
    <3>4. Places(t, m) # {} => Max(Places(t, m)) \in Places(t, m)
      BY <1>3, LastOfPlaces
    <3> QED
      BY <2>2, <3>2, <3>3, <3>4 DEF LastOf
  <2> QED
    BY <2>1, <2>2
<1> QED
  BY <1>4 DEF Bindings, u

(* The stack is its last scope and what is below.                          *)
LEMMA LastScopeOnTop ==
  ASSUME TypeOK
  PROVE  LET below == SubSeq(storage_, 1, ScopeStart - 1) IN
         \/ ScopeStart = 0 /\ storage_ = GetContext
         \/ /\ ScopeStart # 0 /\ below \in Seq(Stacked)
            /\ storage_ = (below \o <<Mark>>) \o GetContext
<1>1. /\ storage_ \in Seq(Stacked) /\ Len(storage_) \in Nat
      /\ ScopeStart \in 0 .. Len(storage_) /\ IsEndOfScope(ScopeStart)
  BY LastScope DEF TypeOK
<1>2. CASE ScopeStart = 0
  <2>1. GetContext = SubSeq(storage_, 1, Len(storage_))
    BY <1>2 DEF GetContext
  <2> QED
    BY <1>1, <1>2, <2>1, SubSeqFull
<1>3. CASE ScopeStart # 0
  <2> DEFINE p == ScopeStart
             below == SubSeq(storage_, 1, p - 1)
  <2>1. p \in 1 .. Len(storage_) /\ storage_[p] = Mark
    BY <1>1, <1>3 DEF IsEndOfScope
  <2>2. below \in Seq(Stacked)
    <3>1. \A i \in 1 .. p - 1 : storage_[i] \in Stacked
      BY <1>1, <2>1
    <3> HIDE DEF p
    <3> QED
      BY <1>1, <2>1, <3>1, SubSeqProperties
  <2>3. SubSeq(storage_, 1, p) = below \o <<Mark>>
    <3>1. 1 \in 1 .. Len(storage_) /\ p \in 1 .. Len(storage_)
      BY <1>1, <2>1
    <3> HIDE DEF p
    <3> QED
      BY <1>1, <2>1, <3>1, SubSeqRecursiveSecond
  <2>4. SubSeq(storage_, 1, p) \o GetContext = SubSeq(storage_, 1, Len(storage_))
    <3>1. GetContext = SubSeq(storage_, p + 1, Len(storage_))
      BY DEF GetContext
    <3>2. /\ 1 \in 1 .. Len(storage_) + 1 /\ p \in 1 - 1 .. Len(storage_)
          /\ Len(storage_) \in p .. Len(storage_)
      BY <1>1, <2>1
    <3> HIDE DEF p
    <3> QED
      BY <1>1, <3>1, <3>2, ConcatAdjacentSubSeq
  <2>5. SubSeq(storage_, 1, Len(storage_)) = storage_
    BY <1>1, SubSeqFull
  <2> QED
    BY <1>3, <2>2, <2>3, <2>4, <2>5
<1> QED
  BY <1>2, <1>3

(* What is in the last scope is the last frame.                            *)
LEMMA LastFrame ==
  ASSUME TypeOK
  PROVE  /\ Scopes(storage_)[Len(Scopes(storage_))] = Bindings(GetContext)
         /\ ScopeStart # 0 =>
              /\ Len(Scopes(storage_)) > 1
              /\ Scopes(SubSeq(storage_, 1, ScopeStart - 1))
                   = SubSeq(Scopes(storage_), 1, Len(Scopes(storage_)) - 1)
<1> DEFINE below == SubSeq(storage_, 1, ScopeStart - 1)
           b == Bindings(GetContext)
<1>1. GetContext \in Seq(Entries) /\ GetContext \in Seq(Stacked)
  BY LastScope, SeqMonotonic DEF Stacked
<1>2. b \in Frame
  BY <1>1, BindingsAreAFrame
<1>3. CASE ScopeStart = 0 /\ storage_ = GetContext
  <2>1. Scopes(storage_) = <<b>>
    BY <1>1, <1>3, OneScope
  <2> QED
    BY <1>3, <2>1
<1>4. CASE /\ ScopeStart # 0 /\ below \in Seq(Stacked)
           /\ storage_ = (below \o <<Mark>>) \o GetContext
  <2> DEFINE f == Scopes(below)
  <2>1. Scopes(storage_) = Append(f, b)
    BY <1>1, <1>4, OneMoreScope
  <2>2. f \in Seq(Frame) /\ Len(f) \in Nat \ {0}
    BY <1>4, ScopesAreFrames
  <2> HIDE DEF f, b
  <2>3. Len(Append(f, b)) = Len(f) + 1 /\ Append(f, b)[Len(f) + 1] = b
    BY <1>2, <2>2
  <2>4. SubSeq(Append(f, b), 1, Len(f)) = f
    <3>1. Append(f, b) = f \o <<b>> /\ <<b>> \in Seq(Frame)
      BY <1>2, <2>2, AppendIsConcat
    <3>2. 1 \in 1 .. Len(f) /\ Len(f) \in 1 .. Len(f)
      BY <2>2
    <3>3. SubSeq(f \o <<b>>, 1, Len(f)) = SubSeq(f, 1, Len(f))
      BY <2>2, <3>1, <3>2, SubSeqOfConcat1
    <3> QED
      BY <2>2, <3>1, <3>3, SubSeqFull
  <2>5. Len(f) + 1 - 1 = Len(f) /\ Len(f) + 1 > 1
    BY <2>2
  <2> QED
    BY <2>1, <2>3, <2>4, <2>5 DEF f, b
<1> QED
  BY <1>3, <1>4, LastScopeOnTop

(* An entry on top binds a name in the last frame.                         *)
LEMMA DefineBindsInLastFrame ==
  ASSUME TypeOK, NEW n \in Names, NEW v \in Variables
  PROVE  Scopes(Append(storage_, Entry(n, v)))
           = [Scopes(storage_) EXCEPT ![Len(Scopes(storage_))][n] = v]
<1> DEFINE below == SubSeq(storage_, 1, ScopeStart - 1)
           t == GetContext
           u == Append(t, Entry(n, v))
           b == Bindings(t)
<1>1. t \in Seq(Entries) /\ t \in Seq(Stacked)
  BY LastScope, SeqMonotonic DEF Stacked
<1>2. Entry(n, v) \in Entries /\ Entry(n, v) \in Stacked
  BY DEF Entry, Entries, Stacked
<1>3. u \in Seq(Entries) /\ u \in Seq(Stacked) /\ Bindings(u) = [b EXCEPT ![n] = v]
  <2>1. u \in Seq(Entries) /\ u \in Seq(Stacked)
    <3> HIDE DEF t
    <3> QED
      BY <1>1, <1>2, AppendProperties
  <2> QED
    BY <1>1, <2>1, BindingsOfAppend
<1>4. b \in Frame /\ Bindings(u) \in Frame
  BY <1>1, <1>3, BindingsAreAFrame
<1>5. CASE ScopeStart = 0 /\ storage_ = t
  <2>1. Scopes(storage_) = <<b>> /\ Scopes(u) = <<Bindings(u)>>
    BY <1>1, <1>3, <1>5, OneScope
  <2> HIDE DEF b, u
  <2>2. [<<b>> EXCEPT ![Len(<<b>>)][n] = v] = << [b EXCEPT ![n] = v] >>
    BY <1>4
  <2>3. Append(storage_, Entry(n, v)) = u
    BY <1>5 DEF u
  <2> QED
    BY <1>3, <2>1, <2>2, <2>3
<1>6. CASE /\ ScopeStart # 0 /\ below \in Seq(Stacked)
           /\ storage_ = (below \o <<Mark>>) \o t
  <2> DEFINE f == Scopes(below)
             e == Entry(n, v)
             m == below \o <<Mark>>
  <2>1. m \in Seq(Stacked)
    <3>1. <<Mark>> \in Seq(Stacked)
      BY DEF Stacked
    <3> HIDE DEF below
    <3> QED
      BY <1>6, <3>1, ConcatProperties
  <2>2. Append(storage_, e) = m \o u
    <3> HIDE DEF m, t, e
    <3>1. storage_ = m \o t
      BY <1>6 DEF m
    <3>2. e \in Stacked /\ <<e>> \in Seq(Stacked) /\ storage_ \in Seq(Stacked)
      BY <1>2 DEF e, TypeOK
    <3>3. Append(storage_, e) = storage_ \o <<e>> /\ Append(t, e) = t \o <<e>>
      BY <1>1, <3>2, AppendIsConcat
    <3>4. (m \o t) \o <<e>> = m \o (t \o <<e>>)
      BY <1>1, <2>1, <3>2, ConcatAssociative
    <3> QED
      BY <3>1, <3>3, <3>4 DEF e
  <2>3. Scopes(storage_) = Append(f, b)
    BY <1>1, <1>6, OneMoreScope
  <2>4. Scopes(m \o u) = Append(f, Bindings(u))
    <3> HIDE DEF u, below
    <3> QED
      BY <1>3, <1>6, OneMoreScope
  <2>5. f \in Seq(Frame) /\ Len(f) \in Nat \ {0}
    BY <1>6, ScopesAreFrames
  <2> HIDE DEF f, b, u, m, e
  <2>6. /\ Len(Append(f, b)) = Len(f) + 1 /\ Append(f, b) \in Seq(Frame)
        /\ Append(f, b)[Len(f) + 1] = b /\ \A i \in 1 .. Len(f) : Append(f, b)[i] = f[i]
    BY <1>4, <2>5, AppendProperties
  <2>7. [Append(f, b) EXCEPT ![Len(f) + 1] = Bindings(u)] = Append(f, Bindings(u))
    <3> DEFINE a == Append(f, b)
               c == Bindings(u)
               last == Len(f) + 1
               g == [a EXCEPT ![last] = c]
               h == Append(f, c)
    <3>1. last \in 1 .. Len(a) /\ a \in Seq(Frame) /\ Len(a) = last /\ c \in Frame
      BY <1>4, <2>5, <2>6
    <3>2. /\ g \in Seq(Frame) /\ Len(g) = Len(f) + 1
          /\ \A i \in 1 .. Len(f) + 1 :
               g[i] = IF i = Len(f) + 1 THEN c ELSE Append(f, b)[i]
      <4> HIDE DEF a, c, last
      <4>1. /\ g \in Seq(Frame) /\ Len(g) = last
            /\ \A i \in 1 .. last : g[i] = IF i = last THEN c ELSE a[i]
        BY <3>1, ExceptSeq
      <4> QED
        BY <4>1 DEF a, last
    <3>3. /\ h \in Seq(Frame) /\ Len(h) = Len(f) + 1
          /\ h[Len(f) + 1] = Bindings(u) /\ \A i \in 1 .. Len(f) : h[i] = f[i]
      BY <1>4, <2>5, AppendProperties
    <3>4. \A i \in 1 .. Len(f) + 1 : i \in 1 .. Len(f) \/ i = Len(f) + 1
      BY <2>5
    <3> HIDE DEF g, h
    <3>5. \A i \in 1 .. Len(g) : g[i] = h[i]
      BY <2>6, <3>2, <3>3, <3>4
    <3>6. g = h
      BY <3>2, <3>3, <3>5, SeqEqual
    <3> QED
      BY <3>6 DEF g, h
  <2>8. [Append(f, b) EXCEPT ![Len(f) + 1][n] = v]
          = [Append(f, b) EXCEPT ![Len(f) + 1] = [b EXCEPT ![n] = v]]
    BY <2>6
  <2> QED
    BY <1>3, <2>2, <2>3, <2>4, <2>6, <2>7, <2>8 DEF e
<1> QED
  BY <1>5, <1>6, LastScopeOnTop

(* The last frame that binds a name binds it to the variable that a search *)
(* from the top of the stack finds.                                        *)
LEMMA LastBindingIsFound ==
  ASSUME TypeOK, NEW n \in Names
  PROVE  LET binding == {k \in DOMAIN Scopes(storage_) : Scopes(storage_)[k][n] # None}
             places == Places(storage_, n)
         IN  /\ binding = {} <=> places = {}
             /\ places # {} =>
                  Scopes(storage_)[Max(binding)][n] = storage_[Max(places)].variable
<1> DEFINE f == Scopes(storage_)
           top == Scope(storage_, Len(storage_))
           binding == {k \in DOMAIN f : f[k][n] # None}
           places == Places(storage_, n)
           of(k) == {i \in places : Scope(storage_, i) = k}
<1>1. storage_ \in Seq(Stacked) /\ Len(storage_) \in Nat
  BY DEF TypeOK
<1>2. f \in Seq(Frame) /\ Len(f) = top /\ top \in Nat \ {0}
  BY <1>1, ScopesAreFrames
<1>3. DOMAIN f = 1 .. top
  BY <1>2
<1>4. ASSUME NEW k \in 1 .. top PROVE f[k][n] = LastOf(storage_, of(k))
  BY DEF Scopes
<1>5. places \subseteq 1 .. Len(storage_)
  BY DEF Places
<1>6. ASSUME NEW i \in places PROVE Scope(storage_, i) \in 1 .. top
  <2>1. i \in Nat /\ i <= Len(storage_)
    BY <1>1, <1>5
  <2>2. Scope(storage_, i) \in Nat \ {0} /\ Scope(storage_, i) <= top
    BY <1>1, <2>1, ScopeNumbers
  <2> QED
    BY <1>2, <2>2
<1>7. ASSUME NEW k \in 1 .. top
      PROVE  /\ f[k][n] # None <=> of(k) # {}
             /\ of(k) # {} => /\ Max(of(k)) \in of(k) /\ \A i \in of(k) : Max(of(k)) >= i
                              /\ f[k][n] = storage_[Max(of(k))].variable
  <2>1. of(k) \in SUBSET Places(storage_, n)
    OBVIOUS
  <2>2. f[k][n] = LastOf(storage_, of(k))
    BY <1>4
  <2>3. of(k) = {} => LastOf(storage_, of(k)) = None
    BY DEF LastOf
  <2> HIDE DEF of, f
  <2> QED
    BY <1>1, <2>1, <2>2, <2>3, LastOfPlaces
<1>8. CASE places = {}
  BY <1>3, <1>7, <1>8
<1>9. CASE places # {}
  <2> DEFINE i == Max(places)
             k == Scope(storage_, i)
  <2>1. i \in places /\ \A j \in places : i >= j
    BY <1>1, <1>9, LastOfPlaces
  <2>2. k \in 1 .. top
    BY <1>6, <2>1
  <2>3. i \in of(k)
    BY <2>1
  <2>4. \A j \in of(k) : i >= j
    BY <2>1
  <2>5. Max(of(k)) = i
    <3>1. of(k) \in SUBSET Int
      BY <1>1, <1>5
    <3> HIDE DEF of, i, k
    <3> QED
      BY <2>3, <2>4, <3>1, GreatestIsMax
  <2>6. f[k][n] = storage_[i].variable /\ k \in binding
    <3> HIDE DEF f, of, i, k, top
    <3> QED
      BY <1>3, <1>7, <2>2, <2>3, <2>5
  <2>7. ASSUME NEW m \in binding PROVE k >= m
    <3>1. m \in 1 .. top /\ of(m) # {}
      <4> HIDE DEF f, of, top
      <4> QED
        BY <1>3, <1>7
    <3>2. PICK j \in places : Scope(storage_, j) = m
      BY <3>1
    <3>3. j \in Nat /\ i \in Nat /\ j <= i
      BY <1>1, <1>5, <2>1
    <3>4. Scope(storage_, j) <= Scope(storage_, i)
      BY <3>3, ScopeNumbers
    <3> QED
      BY <1>2, <2>2, <3>1, <3>2, <3>4
  <2>8. Max(binding) = k
    <3>1. binding \in SUBSET Int
      BY <1>2, <1>3
    <3> HIDE DEF binding, k
    <3> QED
      BY <2>6, <2>7, <3>1, GreatestIsMax
  <2> QED
    BY <1>9, <2>6, <2>8
<1> QED
  BY <1>8, <1>9

-----------------------------------------------------------------------------
PointsInto(s, variables) == \A i \in DOMAIN s : s[i].variable \in variables \union {None}

\* Whatever the stack or a lambda points to lives.
PointersLive == PointsInto(storage_, live) /\ \A l \in Made : PointsInto(context_[l], live)

Closures == [l \in Lambdas |-> IF context_[l] = None THEN None ELSE Bindings(context_[l])]

(* A closure is a frame once the lambda is made.                           *)
LEMMA ClosuresAreFrames ==
  ASSUME TypeOK, NEW l \in Lambdas
  PROVE  /\ l \in Made => /\ context_[l] \in Seq(Entries) /\ context_[l] \in Seq(Stacked)
                          /\ Closures[l] = Bindings(context_[l])
                          /\ Closures[l] \in Frame /\ Closures[l] # None
         /\ l \notin Made => Closures[l] = None
<1>1. CASE l \in Made
  <2>1. context_[l] \in Seq(Entries) /\ context_[l] # None
    BY <1>1 DEF TypeOK, Made
  <2>2. context_[l] \in Seq(Stacked)
    BY <2>1, SeqMonotonic DEF Stacked
  <2>3. Bindings(context_[l]) \in Frame
    BY <2>2, BindingsAreAFrame
  <2>4. None \notin Frame
    BY MemoryAssumption DEF Frame
  <2> QED
    BY <1>1, <2>1, <2>2, <2>3, <2>4 DEF Closures
<1>2. CASE l \notin Made
  BY <1>2 DEF Made, Closures
<1> QED
  BY <1>1, <1>2

(* What is bound lives.                                                    *)
LEMMA LastOfPointsInto ==
  ASSUME NEW s \in Seq(Stacked), NEW n \in Names, NEW places \in SUBSET Places(s, n),
         NEW variables, PointsInto(s, variables)
  PROVE  LastOf(s, places) \in variables \union {None}
<1>1. CASE places = {}
  BY <1>1 DEF LastOf
<1>2. CASE places # {}
  <2>1. Max(places) \in DOMAIN s /\ LastOf(s, places) = s[Max(places)].variable
    BY <1>2, LastOfPlaces DEF Places
  <2> QED
    BY <2>1 DEF PointsInto
<1> QED
  BY <1>1, <1>2

LEMMA ReachableLives == TypeOK /\ PointersLive => Abstract!AllLive
<1> SUFFICES ASSUME TypeOK, PointersLive, NEW v \in Abstract!Reachable, v # None
             PROVE  v \in live
  BY DEF Abstract!AllLive
<1> DEFINE f == Scopes(storage_)
<1>1. storage_ \in Seq(Stacked) /\ PointsInto(storage_, live)
  BY DEF TypeOK, PointersLive
<1>2. ASSUME NEW k \in DOMAIN f, NEW n \in Names PROVE f[k][n] \in live \union {None}
  <2> DEFINE places == {i \in Places(storage_, n) : Scope(storage_, i) = k}
  <2>1. f[k][n] = LastOf(storage_, places)
    BY DEF Scopes
  <2>2. places \in SUBSET Places(storage_, n)
    OBVIOUS
  <2> HIDE DEF places, f
  <2> QED
    BY <1>1, <2>1, <2>2, LastOfPointsInto
<1>3. ASSUME NEW l \in Lambdas, NEW n \in Names, Closures[l] # None
      PROVE  Closures[l][n] \in live \union {None}
  <2>1. l \in Made
    BY <1>3, ClosuresAreFrames
  <2>2. context_[l] \in Seq(Stacked) /\ Closures[l] = Bindings(context_[l])
    BY <2>1, ClosuresAreFrames
  <2>3. PointsInto(context_[l], live)
    BY <2>1 DEF PointersLive
  <2>4. Closures[l][n] = LastOf(context_[l], Places(context_[l], n))
    BY <2>2 DEF Bindings
  <2> QED
    BY <2>2, <2>3, <2>4, LastOfPointsInto
<1>4. \/ \E k \in DOMAIN f, n \in Names : v = f[k][n]
      \/ \E l \in Lambdas, n \in Names : Closures[l] # None /\ v = Closures[l][n]
  <2>1. Abstract!Reachable =
          {f[k][n] : k \in DOMAIN f, n \in Names}
            \union UNION {{Closures[l][n] : n \in Names} : l \in {l \in Lambdas : Closures[l] # None}}
    BY DEF Abstract!Reachable, Closures
  <2> HIDE DEF f
  <2>2. CASE v \in {f[k][n] : k \in DOMAIN f, n \in Names}
    BY <2>2
  <2>3. CASE v \in UNION {{Closures[l][n] : n \in Names} :
                           l \in {l \in Lambdas : Closures[l] # None}}
    <3>1. PICK l \in {l \in Lambdas : Closures[l] # None} : v \in {Closures[l][n] : n \in Names}
      BY <2>3
    <3> QED
      BY <3>1
  <2> QED
    BY <2>1, <2>2, <2>3
<1> HIDE DEF f
<1>5. CASE \E k \in DOMAIN f, n \in Names : v = f[k][n]
  BY <1>2, <1>5
<1>6. CASE \E l \in Lambdas, n \in Names : Closures[l] # None /\ v = Closures[l][n]
  BY <1>3, <1>6
<1> QED
  BY <1>4, <1>5, <1>6

(* Pointers stay good when sequences are joined or cut.                    *)
LEMMA ConcatPointsInto ==
  ASSUME NEW s \in Seq(Stacked), NEW t \in Seq(Stacked), NEW variables,
         PointsInto(s, variables), PointsInto(t, variables)
  PROVE  PointsInto(s \o t, variables)
<1>1. ASSUME NEW i \in 1 .. Len(s) + Len(t)
      PROVE  (s \o t)[i].variable \in variables \union {None}
  <2>1. CASE i <= Len(s)
    <3>1. (s \o t)[i] = s[i] /\ i \in DOMAIN s
      BY <2>1, ConcatProperties
    <3> QED
      BY <3>1 DEF PointsInto
  <2>2. CASE i > Len(s)
    <3>1. (s \o t)[i] = t[i - Len(s)] /\ i - Len(s) \in DOMAIN t
      BY <2>2, ConcatProperties
    <3> QED
      BY <3>1 DEF PointsInto
  <2> QED
    BY <2>1, <2>2
<1>2. DOMAIN (s \o t) = 1 .. Len(s) + Len(t)
  OBVIOUS
<1> DEFINE u == s \o t
<1> HIDE DEF u
<1>3. \A i \in DOMAIN u : u[i].variable \in variables \union {None}
  BY <1>1, <1>2 DEF u
<1> QED
  BY <1>3 DEF PointsInto, u

LEMMA SubSeqPointsInto ==
  ASSUME NEW s \in Seq(Stacked), NEW m \in Nat \ {0}, NEW n \in 0 .. Len(s), NEW variables,
         PointsInto(s, variables)
  PROVE  PointsInto(SubSeq(s, m, n), variables)
<1>1. \A i \in m .. n : i \in DOMAIN s /\ s[i] \in Stacked
  OBVIOUS
<1>2. /\ SubSeq(s, m, n) \in Seq(Stacked)
      /\ Len(SubSeq(s, m, n)) = IF m <= n THEN n - m + 1 ELSE 0
      /\ \A i \in 1 .. n - m + 1 : SubSeq(s, m, n)[i] = s[m + i - 1]
  BY <1>1, SubSeqProperties
<1>3. \A i \in DOMAIN SubSeq(s, m, n) : i \in 1 .. n - m + 1 /\ m + i - 1 \in m .. n
  BY <1>2
<1> QED
  BY <1>1, <1>2, <1>3 DEF PointsInto

(* Nothing else is pointed to.                                             *)
LEMMA PointedIsLive ==
  ASSUME NEW s, NEW ctx \in [Lambdas -> Seq(Entries) \union {None}], NEW variables,
         PointsInto(s, variables),
         \A l \in Lambdas : ctx[l] # None => PointsInto(ctx[l], variables)
  PROVE  Pointed(s, ctx) \subseteq variables
<1> SUFFICES ASSUME NEW v \in Pointed(s, ctx) PROVE v \in variables
  OBVIOUS
<1>1. CASE \E i \in DOMAIN s : v # None /\ v = s[i].variable
  BY <1>1 DEF PointsInto
<1>2. CASE \E l \in Lambdas : ctx[l] # None /\ \E i \in DOMAIN ctx[l] : v = ctx[l][i].variable
  <2>1. PICK l \in Lambdas : ctx[l] # None /\ \E i \in DOMAIN ctx[l] : v = ctx[l][i].variable
    BY <1>2
  <2>2. PICK i \in DOMAIN ctx[l] : v = ctx[l][i].variable
    BY <2>1
  <2>3. ctx[l] \in Seq(Entries)
    BY <2>1
  <2>4. ctx[l][i] \in Entries
    BY <2>2, <2>3
  <2>5. v \in Variables
    BY <2>2, <2>4 DEF Entries
  <2>6. v # None
    BY <2>5, MemoryAssumption
  <2> QED
    BY <2>1, <2>2, <2>6 DEF PointsInto
<1>3. \/ \E i \in DOMAIN s : v # None /\ v = s[i].variable
      \/ \E l \in Lambdas : ctx[l] # None /\ \E i \in DOMAIN ctx[l] : v = ctx[l][i].variable
  BY DEF Pointed
<1> QED
  BY <1>1, <1>2, <1>3

-----------------------------------------------------------------------------
LEMMA InitPointersLive == Init => PointersLive
<1> SUFFICES ASSUME Init PROVE PointersLive
  OBVIOUS
<1>1. DOMAIN storage_ = {} /\ \A l \in Lambdas : context_[l] = None
  BY DEF Init
<1> QED
  BY <1>1 DEF PointersLive, PointsInto, Made

(* A step points to what was pointed to before it and to what it makes     *)
(* live.                                                                   *)
LEMMA NextPointersLive == Inv /\ PointersLive /\ [Next]_vars => PointersLive'
<1> SUFFICES ASSUME Inv, PointersLive, [Next]_vars PROVE PointersLive'
  OBVIOUS
<1>1. /\ storage_ \in Seq(Stacked) /\ Len(storage_) \in Nat
      /\ context_ \in [Lambdas -> Seq(Entries) \union {None}]
      /\ \A l \in Made : /\ l \in Lambdas /\ context_[l] # None
                         /\ context_[l] \in Seq(Entries) /\ context_[l] \in Seq(Stacked)
  <2>1. \A t \in Seq(Entries) : t \in Seq(Stacked)
    BY SeqMonotonic DEF Stacked
  <2> QED
    BY <2>1 DEF Inv, TypeOK, Made
<1>2. TypeOK /\ TypeOK'
  BY NextInv DEF Inv
<1>3. PointsInto(storage_, live) /\ \A l \in Made : PointsInto(context_[l], live)
  BY DEF PointersLive
<1>4. \A s : PointsInto(s, live) /\ live \subseteq live' => PointsInto(s, live')
  BY DEF PointsInto
<1>5. ASSUME NEW n \in Names, NEW v \in Variables, v \in live'
      PROVE  /\ <<Entry(n, v)>> \in Seq(Stacked) /\ PointsInto(<<Entry(n, v)>>, live')
             /\ \A s \in Seq(Stacked) : Append(s, Entry(n, v)) = s \o <<Entry(n, v)>>
  <2>1. Entry(n, v) \in Entries /\ Entry(n, v).variable = v
    BY DEF Entry, Entries
  <2>2. Entry(n, v) \in Stacked
    BY <2>1 DEF Stacked
  <2> QED
    BY <1>5, <2>1, <2>2, AppendIsConcat DEF PointsInto
<1>6. <<Mark>> \in Seq(Stacked) /\ PointsInto(<<Mark>>, live')
  BY DEF Stacked, PointsInto, Mark, Entry
<1>7. ASSUME NEW l \in Lambdas, Call(l) PROVE PointersLive'
  <2>1. l \in Made /\ UNCHANGED context_ /\ live \subseteq live'
    BY <1>7 DEF Call
  <2>2. ASSUME NEW locals \in Seq(Stacked), PointsInto(locals, live'), Enters(l, locals)
        PROVE  PointsInto(storage_', live')
    <3> DEFINE sm == storage_ \o <<Mark>>
               entries == context_[l] \o locals
    <3>1. storage_' = sm \o entries
      BY <2>2 DEF Enters
    <3>2. context_[l] \in Seq(Stacked) /\ PointsInto(context_[l], live')
      BY <1>1, <1>3, <1>4, <2>1
    <3>3. entries \in Seq(Stacked) /\ PointsInto(entries, live')
      BY <2>2, <3>2, ConcatPointsInto, ConcatProperties
    <3>4. sm \in Seq(Stacked) /\ PointsInto(sm, live')
      BY <1>1, <1>3, <1>4, <1>6, <2>1, ConcatPointsInto, ConcatProperties
    <3> HIDE DEF sm, entries
    <3> QED
      BY <3>1, <3>3, <3>4, ConcatPointsInto
  <2>3. CASE Enters(l, <<>>)
    <3>1. <<>> \in Seq(Stacked) /\ PointsInto(<<>>, live')
      BY DEF PointsInto
    <3>2. PointsInto(storage_', live')
      BY <2>2, <2>3, <3>1
    <3> QED
      BY <1>3, <1>4, <2>1, <3>2 DEF PointersLive, Made
  <2>4. ASSUME NEW p \in Names, NEW v \in Fresh, Enters(l, <<Entry(p, v)>>), v \in live'
        PROVE  PointersLive'
    <3>1. v \in Variables
      BY DEF Fresh
    <3>2. PointsInto(storage_', live')
      BY <1>5, <2>2, <2>4, <3>1
    <3> QED
      BY <1>3, <1>4, <2>1, <3>2 DEF PointersLive, Made
  <2> QED
    BY <1>7, <2>3, <2>4 DEF Call
<1>8. ASSUME NEW l \in Lambdas, NEW params \in Params, MakeLambda(l, params)
      PROVE  PointersLive'
  <2>1. /\ context_' = [context_ EXCEPT ![l] = GetContext]
        /\ UNCHANGED <<storage_, live>>
    BY <1>8 DEF MakeLambda
  <2>2. PointsInto(GetContext, live)
    <3>1. ScopeStart + 1 \in Nat \ {0} /\ Len(storage_) \in 0 .. Len(storage_)
      BY <1>1, <1>2, LastScope
    <3> QED
      BY <1>1, <1>3, <3>1, SubSeqPointsInto DEF GetContext
  <2>3. \A m \in Lambdas : context_'[m] = IF m = l THEN GetContext ELSE context_[m]
    BY <1>1, <2>1
  <2> QED
    BY <1>3, <2>1, <2>2, <2>3 DEF PointersLive, Made
<1>9. ASSUME NEW n \in Names, NEW v \in Variables, v \in live', DefineVariable(n, v),
             live \subseteq live'
      PROVE  PointsInto(storage_', live')
  <2>1. storage_' = storage_ \o <<Entry(n, v)>>
    BY <1>1, <1>5, <1>9 DEF DefineVariable
  <2> QED
    BY <1>1, <1>3, <1>4, <1>5, <1>9, <2>1, ConcatPointsInto
<1>10. ASSUME NEW n \in Names, NEW v \in Fresh, Define(n, v) PROVE PointersLive'
  <2>1. DefineVariable(n, v) /\ live' = live \union {v} /\ UNCHANGED context_ /\ v \in Variables
    BY <1>10 DEF Define, Fresh
  <2>2. PointsInto(storage_', live')
    BY <1>9, <2>1
  <2> QED
    BY <1>3, <1>4, <2>1, <2>2 DEF PointersLive, Made
<1>11. ASSUME NEW n \in Names, NEW v \in Fresh, NEW l \in Lambdas, NEW self \in Fresh,
              DefineLambda(n, v, l, self)
       PROVE  PointersLive'
  <2>1. /\ DefineVariable(n, v) /\ live' = live \union {v, self} /\ l \in Made
        /\ v \in Variables /\ self \in Variables
        /\ context_' = [context_ EXCEPT ![l] = Append(context_[l], Entry(n, self))]
    BY <1>1, <1>11 DEF DefineLambda, Fresh
  <2>2. PointsInto(storage_', live')
    BY <1>9, <2>1
  <2>3. PointsInto(Append(context_[l], Entry(n, self)), live')
    BY <1>1, <1>3, <1>4, <1>5, <2>1, ConcatPointsInto
  <2>4. \A m \in Lambdas :
          context_'[m] = IF m = l THEN Append(context_[l], Entry(n, self)) ELSE context_[m]
    BY <1>1, <2>1
  <2>5. ASSUME NEW m \in Made' PROVE PointsInto(context_'[m], live')
    BY <1>3, <1>4, <2>1, <2>3, <2>4 DEF Made
  <2> QED
    BY <2>2, <2>5 DEF PointersLive
<1>12. CASE Return
  <2>1. UNCHANGED context_ /\ live' = Pointed(storage_', context_')
    BY <1>12 DEF Return
  <2>2. PointsInto(storage_', Pointed(storage_', context_'))
    BY DEF PointsInto, Pointed
  <2>3. \A l \in Made' : PointsInto(context_'[l], Pointed(storage_', context_'))
    BY DEF PointsInto, Pointed, Made
  <2> QED
    BY <2>1, <2>2, <2>3 DEF PointersLive
<1>13. CASE Clear
  <2>1. DOMAIN storage_' = {} /\ \A l \in Lambdas : context_'[l] = None
    BY <1>13 DEF Clear
  <2> QED
    BY <2>1 DEF PointersLive, PointsInto, Made
<1>14. ASSUME UNCHANGED <<storage_, context_, live>> PROVE PointersLive'
  BY <1>3, <1>14 DEF PointersLive, Made
<1>15. ASSUME NEW n \in Names, Compute(n) \/ SetVariable(n) PROVE PointersLive'
  BY <1>14, <1>15 DEF Compute, SetVariable, Meets
<1>16. CASE Throw
  BY <1>14, <1>16 DEF Throw
<1>17. CASE UNCHANGED vars
  BY <1>14, <1>17 DEF vars
<1> QED
  BY <1>7, <1>8, <1>10, <1>11, <1>12, <1>13, <1>15, <1>16, <1>17 DEF Next

-----------------------------------------------------------------------------
(* A call adds a frame with the captured bindings and the parameter's.     *)
LEMMA CallRefines ==
  ASSUME Inv, NEW l \in Lambdas, Call(l)
  PROVE  Abstract!Enter(l)
<1>1. /\ storage_ \in Seq(Stacked) /\ l \in Made /\ context_[l] \in Seq(Entries)
      /\ Closures[l] = Bindings(context_[l]) /\ Closures[l] # None
      /\ found' = None /\ Closures' = Closures
  BY ClosuresAreFrames DEF Inv, TypeOK, Call, Closures
<1>0. Len(calls') = Len(calls) + 1
  <2>1. calls \in Seq(Nat) /\ Len(storage_) \in Nat /\ calls' = Append(calls, Len(storage_))
    BY <1>1 DEF Inv, TypeOK, Call
  <2> QED
    BY <2>1
<1>2. ASSUME NEW locals \in Seq(Entries), Enters(l, locals)
      PROVE  Scopes(storage_)' = Append(Scopes(storage_), Bindings(context_[l] \o locals))
  <2> DEFINE entries == context_[l] \o locals
  <2>1. entries \in Seq(Entries)
    BY <1>1, ConcatProperties
  <2>2. storage_' = (storage_ \o <<Mark>>) \o entries
    BY <1>2 DEF Enters
  <2> HIDE DEF entries
  <2>3. Scopes((storage_ \o <<Mark>>) \o entries) = Append(Scopes(storage_), Bindings(entries))
    BY <1>1, <2>1, OneMoreScope
  <2> QED
    BY <2>2, <2>3 DEF entries
<1>3. CASE Enters(l, <<>>) /\ UNCHANGED live
  <2>1. context_[l] \o <<>> = context_[l]
    BY <1>1, ConcatEmptySeq
  <2>2. <<>> \in Seq(Entries)
    OBVIOUS
  <2>3. Scopes(storage_)' = Append(Scopes(storage_), Closures[l])
    BY <1>1, <1>2, <1>3, <2>1, <2>2
  <2> QED
    BY <1>0, <1>1, <1>3, <2>3 DEF Abstract!Enter, Closures
<1>4. ASSUME NEW p \in Names, NEW v \in Fresh, Enters(l, <<Entry(p, v)>>),
             live' = live \union {v}
      PROVE  Abstract!Enter(l)
  <2>1. v \in Variables /\ Entry(p, v) \in Entries /\ v \in Abstract!Fresh
    BY DEF Fresh, Abstract!Fresh, Entry, Entries
  <2>2. context_[l] \o <<Entry(p, v)>> = Append(context_[l], Entry(p, v))
    BY <1>1, <2>1, AppendIsConcat
  <2>3. Bindings(Append(context_[l], Entry(p, v))) = [Bindings(context_[l]) EXCEPT ![p] = v]
    BY <1>1, <2>1, BindingsOfAppend
  <2>4. <<Entry(p, v)>> \in Seq(Entries)
    BY <2>1
  <2>5. Scopes(storage_)' = Append(Scopes(storage_), [Closures[l] EXCEPT ![p] = v])
    BY <1>1, <1>2, <1>4, <2>2, <2>3, <2>4
  <2> QED
    BY <1>0, <1>1, <1>4, <2>1, <2>5 DEF Abstract!Enter, Closures
<1> QED
  BY <1>3, <1>4 DEF Call

(* A lambda captures the last frame.                                       *)
LEMMA MakeRefines ==
  ASSUME Inv, NEW l \in Lambdas, NEW params \in Params, MakeLambda(l, params)
  PROVE  Abstract!Make(l)
<1>1. /\ l \notin Made /\ context_' = [context_ EXCEPT ![l] = GetContext]
      /\ found' = l /\ UNCHANGED <<storage_, live, calls>> /\ TypeOK
  BY DEF MakeLambda, Inv
<1>2. context_ \in [Lambdas -> Seq(Entries) \union {None}]
  BY DEF Inv, TypeOK
<1>3. GetContext # None
  BY <1>1, LastScope, MemoryAssumption DEF Entries
<1>4. Closures[l] = None
  BY <1>1, ClosuresAreFrames
<1>5. \A m \in Lambdas : context_'[m] = IF m = l THEN GetContext ELSE context_[m]
  BY <1>1, <1>2
<1>6. Closures' = [Closures EXCEPT ![l] = Bindings(GetContext)]
  BY <1>3, <1>5 DEF Closures
<1>7. Scopes(storage_)[Len(Scopes(storage_))] = Bindings(GetContext)
  BY <1>1, LastFrame
<1>8. Scopes(storage_)' = Scopes(storage_)
  BY <1>1
<1> QED
  BY <1>1, <1>4, <1>6, <1>7, <1>8 DEF Abstract!Make, Abstract!Current, Closures

(* define binds in the last frame, and gives a lambda a variable of its    *)
(* own.                                                                    *)
LEMMA DefineRefines ==
  ASSUME Inv, NEW n \in Names, NEW v \in Fresh
  PROVE  /\ v \in Abstract!Fresh
         /\ Define(n, v) => Abstract!Define(n, v)
         /\ \A l \in Lambdas, self \in Fresh :
              DefineLambda(n, v, l, self) => l \in Made /\ NamesItself(n, v, l, self)
<1>1. v \in Variables /\ v \in Abstract!Fresh
  BY DEF Fresh, Abstract!Fresh
<1>2. ASSUME DefineVariable(n, v)
      PROVE  /\ Scopes(storage_)' = [Scopes(storage_) EXCEPT ![Len(Scopes(storage_))][n] = v]
             /\ found' = None
  <2>1. storage_' = Append(storage_, Entry(n, v)) /\ found' = None
    BY <1>2 DEF DefineVariable
  <2> QED
    BY <1>1, <2>1, DefineBindsInLastFrame DEF Inv
<1>3. ASSUME Define(n, v) PROVE Abstract!Define(n, v)
  <2>1. DefineVariable(n, v) /\ live' = live \union {v} /\ UNCHANGED <<context_, calls>>
    BY <1>3 DEF Define
  <2>2. Closures' = Closures
    BY <2>1 DEF Closures
  <2> QED
    BY <1>2, <2>1, <2>2 DEF Abstract!Define, Abstract!Bind, Closures
<1>4. ASSUME NEW l \in Lambdas, NEW self \in Fresh, DefineLambda(n, v, l, self)
      PROVE  l \in Made /\ NamesItself(n, v, l, self)
  <2>1. /\ DefineVariable(n, v) /\ live' = live \union {v, self} /\ l \in Made
        /\ UNCHANGED calls
        /\ context_' = [context_ EXCEPT ![l] = Append(context_[l], Entry(n, self))]
    BY <1>4 DEF DefineLambda, Inv, TypeOK
  <2>2. self \in Variables /\ context_ \in [Lambdas -> Seq(Entries) \union {None}]
    BY DEF Fresh, Inv, TypeOK
  <2>3. /\ context_[l] \in Seq(Entries) /\ Closures[l] = Bindings(context_[l])
        /\ Closures[l] # None
    BY <2>1, ClosuresAreFrames DEF Inv
  <2>4. Bindings(Append(context_[l], Entry(n, self))) = [Bindings(context_[l]) EXCEPT ![n] = self]
    BY <2>2, <2>3, BindingsOfAppend
  <2>5. \A m \in Lambdas :
          context_'[m] = IF m = l THEN Append(context_[l], Entry(n, self)) ELSE context_[m]
    BY <2>1, <2>2
  <2> QED
    BY <1>2, <2>1, <2>4, <2>5 DEF NamesItself
<1> QED
  BY <1>1, <1>3, <1>4

(* An error leaves the scopes, or there were none but the global one.      *)
LEMMA ErrorRefines ==
  ASSUME Inv, calls' = <<>>, UNCHANGED <<storage_, context_, live>>,
         \/ calls # <<>> /\ found' = None
         \/ found' = "NameError" /\ \E n \in Names : Abstract!Variable(n) = None
  PROVE  LeavesScopes \/ Abstract!Fail
<1> DEFINE f == Scopes(storage_)
<1>1. Len(f) \in Nat \ {0} /\ f \in Seq(Frame)
  BY ScopesAreFrames DEF Inv, TypeOK
<1>2. CASE Len(f) > 1
  <2>1. found' \in {None, "NameError"}
    OBVIOUS
  <2>2. found' = "NameError" => \E n \in Names : Abstract!Variable(n) = None
    <3>1. CASE found' = "NameError" /\ \E n \in Names : Abstract!Variable(n) = None
      BY <3>1
    <3>2. CASE calls # <<>> /\ found' = None
      BY <3>2, MemoryAssumption
    <3> QED
      BY <3>1, <3>2
  <2> QED
    BY <1>2, <2>1, <2>2 DEF LeavesScopes
<1>3. CASE Len(f) = 1
  <2>1. f = <<f[1]>>
    BY <1>1, <1>3
  <2>2. Len(calls') = 0
    OBVIOUS
  <2>3. \/ Len(calls) > 0 /\ found' = None
        \/ found' = "NameError" /\ \E n \in Names : Abstract!Variable(n) = None
    <3>1. calls \in Seq(Nat)
      BY DEF Inv, TypeOK
    <3>2. calls # <<>> => Len(calls) > 0
      BY <3>1
    <3> QED
      BY <3>2
  <2>4. f' = f /\ Closures' = Closures
    BY DEF Closures
  <2> HIDE DEF f
  <2> QED
    BY <2>1, <2>2, <2>3, <2>4 DEF Abstract!Fail, Closures, f
<1> QED
  BY <1>1, <1>2, <1>3

(* A name means what the last frame that binds it says: its own one, the   *)
(* global one, or one between them.                                        *)
LEMMA LookUpRefines ==
  ASSUME Inv, NEW n \in Names, Compute(n) \/ SetVariable(n)
  PROVE  \/ Abstract!Look(n) \/ Abstract!Set(n) \/ Abstract!Fail
         \/ LooksPast(n) \/ LeavesScopes
<1> DEFINE f == Scopes(storage_)
           binding == {k \in DOMAIN f : f[k][n] # None}
           places == Places(storage_, n)
           top == Max(binding)
<1>1. /\ binding = {} <=> places = {}
      /\ places # {} => f[top][n] = storage_[Max(places)].variable
  BY LastBindingIsFound DEF Inv
<1>2. IsDefined(n) <=> places # {}
  <2>1. defined_variables_counter_[n] = Cardinality(places)
    BY DEF Inv, CounterCountsVariables
  <2>2. IsFiniteSet(places)
    BY PlacesAreFinite DEF Inv, TypeOK
  <2> QED
    BY <2>1, <2>2, FS_EmptySet DEF IsDefined
<1>3. Len(f) \in Nat \ {0} /\ f \in Seq(Frame) /\ DOMAIN f = 1 .. Len(f)
  BY ScopesAreFrames DEF Inv, TypeOK
<1>4. PICK m : Meets(m) /\ m \in {GetVariable(n), "builtin", "NameError"}
               /\ (places # {} => m = GetVariable(n))
               /\ (places = {} /\ m = "builtin" => n \in Builtins /\ Compute(n))
  <2>1. CASE Compute(n)
    BY <1>2, <2>1 DEF Compute, GetVariable
  <2>2. CASE SetVariable(n)
    BY <2>2 DEF SetVariable, GetVariable
  <2> QED
    BY <2>1, <2>2
<1>5. found' = m /\ UNCHANGED <<storage_, context_, live>>
      /\ calls' = IF m = "NameError" THEN <<>> ELSE calls
  BY <1>4 DEF Meets
<1>6. f' = f /\ Closures' = Closures
  BY <1>5 DEF Closures
<1>7. CASE places # {}
  <2>1. binding # {} /\ binding \in SUBSET (0 .. Len(f))
    BY <1>1, <1>3, <1>7
  <2>2. top \in binding /\ \A k \in binding : top >= k
    <3> HIDE DEF binding
    <3> QED
      BY <1>3, <2>1, MaxIsGreatest
  <2>3. top \in 1 .. Len(f) /\ f[top][n] # None
    BY <1>3, <2>2
  <2>4. \A k \in top + 1 .. Len(f) : f[k][n] = None
    <3>1. ASSUME NEW k \in top + 1 .. Len(f), k \in binding PROVE FALSE
      <4>1. top >= k
        BY <2>2, <3>1
      <4> HIDE DEF top
      <4> QED
        BY <1>3, <2>3, <3>1, <4>1
    <3>2. \A k \in top + 1 .. Len(f) : k \in DOMAIN f
      <4> HIDE DEF top
      <4> QED
        BY <1>3, <2>3
    <3> QED
      BY <3>1, <3>2
  <2>5. m = f[top][n]
    BY <1>1, <1>4, <1>7 DEF GetVariable
  <2>6. f[top][n] \in Variables
    <3>1. f[top] \in Frame
      <4> HIDE DEF top, f
      <4> QED
        BY <1>3, <2>3
    <3> QED
      BY <2>3, <3>1 DEF Frame
  <2> HIDE DEF top, binding, places
  <2>7. CASE m # "NameError"
    <3>1. calls' = calls
      BY <1>5, <2>7
    <3>2. CASE top \in 2 .. Len(f) - 1
      BY <1>5, <2>3, <2>4, <2>5, <3>1, <3>2 DEF LooksPast
    <3>3. CASE top = Len(f)
      <4>1. Abstract!Variable(n) = m /\ m # None
        BY <2>3, <2>5, <3>3 DEF Abstract!Variable, Abstract!Current
      <4> QED
        BY <1>5, <1>6, <3>1, <4>1 DEF Abstract!Look, Abstract!Means, Closures
    <3>4. CASE top = 1 /\ Len(f) > 1
      <4>1. f[Len(f)][n] = None
        BY <1>3, <2>4, <3>4
      <4>2. Abstract!Variable(n) = m /\ m # None
        BY <2>3, <2>5, <3>4, <4>1 DEF Abstract!Variable, Abstract!Current
      <4> QED
        BY <1>5, <1>6, <3>1, <4>2 DEF Abstract!Look, Abstract!Means, Closures
    <3>5. top \in 2 .. Len(f) - 1 \/ top = Len(f) \/ (top = 1 /\ Len(f) > 1)
      <4>1. Len(f) \in Nat \ {0} /\ top \in 1 .. Len(f)
        BY <1>3, <2>3
      <4> HIDE DEF f
      <4> QED
        BY <4>1
    <3> QED
      BY <3>2, <3>3, <3>4, <3>5
  <2> QED
    BY <2>5, <2>6, <2>7, MemoryAssumption
<1>8. CASE places = {}
  <2>1. Abstract!Variable(n) = None
    <3>1. \A k \in 1 .. Len(f) : f[k][n] = None
      BY <1>1, <1>3, <1>8
    <3>2. 1 \in 1 .. Len(f) /\ Len(f) \in 1 .. Len(f)
      BY <1>3
    <3> QED
      BY <3>1, <3>2 DEF Abstract!Variable, Abstract!Current
  <2>2. GetVariable(n) = "NameError"
    BY <1>8 DEF GetVariable
  <2>3. CASE m = "NameError"
    <3>1. calls' = <<>> /\ found' = "NameError" /\ UNCHANGED <<storage_, context_, live>>
      BY <1>5, <2>3
    <3> QED
      BY <2>1, <3>1, ErrorRefines
  <2>4. CASE m = "builtin"
    <3>1. n \in Builtins /\ calls' = calls /\ found' = "builtin"
      BY <1>4, <1>5, <1>8, <2>4
    <3> QED
      BY <1>5, <1>6, <2>1, <3>1 DEF Abstract!Look, Abstract!Means, Closures
  <2> QED
    BY <1>4, <2>2, <2>3, <2>4
<1> QED
  BY <1>7, <1>8

(* A return drops the last frame.                                          *)
LEMMA ReturnRefines ==
  ASSUME Inv, PointersLive, Inv', Return
  PROVE  Abstract!Leave
<1>1. /\ calls # <<>> /\ storage_' = SubSeq(storage_, 1, ScopeStart - 1) /\ found' = None
      /\ live' = Pointed(storage_', context_) /\ UNCHANGED context_
  BY DEF Return
<1>2. ScopeStart \in Nat \ {0} /\ ScopeStart - 1 \in 0 .. Len(storage_)
  <2>1. /\ calls[Len(calls)] \in Nat /\ calls[Len(calls)] < Len(storage_)
        /\ ScopeStart = calls[Len(calls)] + 1
    BY <1>1, ReturnEndsItsScope
  <2>2. Len(storage_) \in Nat
    BY DEF Inv, TypeOK
  <2> QED
    BY <2>1, <2>2
<1>3. Scopes(storage_') = SubSeq(Scopes(storage_), 1, Len(Scopes(storage_)) - 1)
  BY <1>1, <1>2, LastFrame DEF Inv
<1>4. live' \subseteq live
  <2>1. /\ storage_ \in Seq(Stacked) /\ PointsInto(storage_, live)
        /\ context_ \in [Lambdas -> Seq(Entries) \union {None}]
        /\ \A l \in Lambdas : context_[l] # None => PointsInto(context_[l], live)
    BY DEF Inv, TypeOK, PointersLive, Made
  <2>2. PointsInto(storage_', live)
    BY <1>1, <1>2, <2>1, SubSeqPointsInto
  <2> QED
    BY <1>1, <2>1, <2>2, PointedIsLive
<1>5. Closures' = Closures
  BY <1>1 DEF Closures
<1>6. Len(calls) > 0 /\ Len(calls') = Len(calls) - 1
  <2> DEFINE rest == Len(calls) - 1
             short == SubSeq(calls, 1, rest)
  <2>1. calls \in Seq(Nat) /\ calls # <<>> /\ calls' = short
    BY DEF Return, Inv, TypeOK, Front
  <2>2. Len(calls) \in Nat \ {0}
    BY <2>1
  <2>3. rest \in Nat /\ \A i \in 1 .. rest : calls[i] \in Nat
    BY <2>1, <2>2
  <2>4. Len(short) = rest
    <3> HIDE DEF rest
    <3>1. Len(short) = IF 1 =< rest THEN rest - 1 + 1 ELSE 0
      BY <2>3, SubSeqProperties
    <3> HIDE DEF short
    <3> QED
      BY <2>3, <3>1
  <2> HIDE DEF short
  <2> QED
    BY <2>1, <2>2, <2>4
<1> QED
  BY <1>1, <1>3, <1>4, <1>5, <1>6 DEF Abstract!Leave, Closures

(* The empty stack is the global frame without bindings.                   *)
LEMMA NoEntryNoBinding == Scopes(<<>>) = <<[n \in Names |-> None]>>
<1>1. <<>> \in Seq(Entries)
  OBVIOUS
<1>2. \A n : Places(<<>>, n) = {}
  BY DEF Places
<1>3. Bindings(<<>>) = [n \in Names |-> None]
  BY <1>2 DEF Bindings, LastOf
<1> QED
  BY <1>1, <1>3, OneScope

LEMMA ClearRefines == Clear => Abstract!Restart
<1> SUFFICES ASSUME Clear PROVE Abstract!Restart
  OBVIOUS
<1>1. /\ storage_' = <<>> /\ context_' = [l \in Lambdas |-> None]
      /\ live' = {} /\ found' = None /\ Len(calls') = 0
  BY DEF Clear
<1>2. Closures' = [l \in Lambdas |-> None]
  BY <1>1 DEF Closures
<1>3. Scopes(storage_') = <<[n \in Names |-> None]>>
  BY <1>1, NoEntryNoBinding
<1> QED
  BY <1>1, <1>2, <1>3 DEF Abstract!Restart, Abstract!NoBinding, Closures

(* The stack of marked scopes, the copied contexts and the counter are the *)
(* frames of syntactic scope, for all names, lambdas, variables and        *)
(* depths, but for three steps: a name that its own scope does not bind    *)
(* may mean what a scope between it and the global one says, an error      *)
(* leaves the scopes of the calls it ends, and a define gives a lambda a   *)
(* variable of its own.  In every other step, and but for these effects, a *)
(* define binds in the scope of the running call, a lambda shares what it  *)
(* captured, a return drops its own scope, and what can be reached lives.  *)
THEOREM MemoryRefines == Spec => EnvironmentsUnlessDynamic
<1>1. Init => Abstract!Init
  <2> SUFFICES ASSUME Init PROVE Abstract!Init
    OBVIOUS
  <2>1. /\ storage_ = <<>> /\ context_ = [l \in Lambdas |-> None]
        /\ live = {} /\ found = None /\ Len(calls) = 0
    BY DEF Init
  <2>2. Closures = [l \in Lambdas |-> None]
    BY <2>1 DEF Closures
  <2>3. Scopes(storage_) = <<[n \in Names |-> None]>>
    BY <2>1, NoEntryNoBinding
  <2> QED
    BY <2>1, <2>2, <2>3 DEF Abstract!Init, Abstract!NoBinding, Closures
<1> DEFINE Past == \E n \in Names : LooksPast(n)
           Named == \E n \in Names, v, self \in Fresh, l \in Made : NamesItself(n, v, l, self)
           Step == \/ Abstract!Next
                   \/ (Past \/ LeavesScopes \/ Named) /\ Abstract!AllLive'
<1>2. Inv /\ PointersLive => Abstract!AllLive
  BY ReachableLives DEF Inv
<1>3. Inv /\ PointersLive /\ (Inv /\ PointersLive)' /\ Abstract!AllLive' /\ [Next]_vars
        => [Step]_(Abstract!vars)
  <2> SUFFICES ASSUME Inv, PointersLive, Inv', Abstract!AllLive', [Next]_vars
               PROVE  Step \/ UNCHANGED Abstract!vars
    OBVIOUS
  <2>1. ASSUME NEW l \in Lambdas, Call(l) PROVE Abstract!Next
    BY <2>1, CallRefines DEF Abstract!Next
  <2>2. ASSUME NEW l \in Lambdas, NEW params \in Params, MakeLambda(l, params)
        PROVE  Abstract!Next
    BY <2>2, MakeRefines DEF Abstract!Next
  <2>3. ASSUME NEW n \in Names, NEW v \in Fresh, Define(n, v) PROVE Abstract!Next
    BY <2>3, DefineRefines DEF Abstract!Next
  <2>4. ASSUME NEW n \in Names, NEW v \in Fresh, NEW l \in Lambdas, NEW self \in Fresh,
               DefineLambda(n, v, l, self)
        PROVE  Named
    BY <2>4, DefineRefines
  <2>5. ASSUME NEW n \in Names, Compute(n) \/ SetVariable(n)
        PROVE  Abstract!Next \/ Past \/ LeavesScopes
    <3>1. \/ Abstract!Look(n) \/ Abstract!Set(n) \/ Abstract!Fail
          \/ LooksPast(n) \/ LeavesScopes
      BY <2>5, LookUpRefines
    <3> QED
      BY <3>1 DEF Abstract!Next
  <2>6. CASE Return
    BY <2>6, ReturnRefines DEF Abstract!Next
  <2>7. CASE Clear
    BY <2>7, ClearRefines DEF Abstract!Next
  <2>8. CASE Throw
    <3>1. LeavesScopes \/ Abstract!Fail
      BY <2>8, ErrorRefines DEF Throw
    <3> QED
      BY <3>1 DEF Abstract!Next
  <2>9. CASE UNCHANGED vars
    BY <2>9 DEF vars, Abstract!vars
  <2> QED
    BY <2>1, <2>2, <2>3, <2>4, <2>5, <2>6, <2>7, <2>8, <2>9 DEF Next
<1>4. Spec => []PointersLive
  BY InitPointersLive, NextPointersLive, MemoryInvariant, PTL DEF Spec
<1> QED
  BY <1>1, <1>2, <1>3, <1>4, MemoryInvariant, PTL
  DEF Spec, EnvironmentsUnlessDynamic

-----------------------------------------------------------------------------
(* The editor *)

\* A view with the cursor in the text, as long as none is lost.
Views == {view \in [text : Seq(Chars), pos : Nat] :
            view.pos =< Len(view.text) /\ Len(view.text) =< MaxLength}

\* The command makes w of v, and undone, v of w.
Leads(command, v, w) == Do(command, v) = w /\ Undone(command, w) = v

\* The view after the i-th command of the past, before the i-th of the future.
After(views, i) == IF i = Len(views) THEN View ELSE views[i + 1]

\* The logs tell how the views of the history were got.
Kept ==
  /\ View \in Views /\ past \in Seq(Views) /\ future \in Seq(Views)
  /\ log_ \in Seq(Commands) /\ relog_ \in Seq(Commands)
  /\ Len(past) =< Len(log_) /\ Len(future) = Len(relog_)
  /\ \A i \in 1 .. Len(past) : Leads(log_[Len(log_) - Len(past) + i], past[i], After(past, i))
  /\ \A i \in 1 .. Len(future) : Leads(relog_[i], After(future, i), future[i])

\* Without a Redo all that is in the log is in the past.
Earlier == before \in Seq(Views) /\ (before = <<>> => Len(past) = Len(log_))

EditorInv == lost \in BOOLEAN /\ (lost \/ (Kept /\ Earlier))

-----------------------------------------------------------------------------
\* u is s with e put at place p.
IsWith(u, s, p, e) ==
  /\ Len(u) = Len(s) + 1
  /\ \A q \in 1 .. Len(s) + 1 : u[q] = IF q < p THEN s[q] ELSE IF q = p THEN e ELSE s[q - 1]

(* A text with a character more.                                           *)
LEMMA InsertedElement ==
  ASSUME NEW S, NEW s \in Seq(S), NEW p \in 1 .. Len(s) + 1, NEW e \in S
  PROVE  InsertAt(s, p, e) \in Seq(S) /\ IsWith(InsertAt(s, p, e), s, p, e)
<1> DEFINE a == SubSeq(s, 1, p - 1)
           b == SubSeq(s, p, Len(s))
<1>1. p \in Nat /\ Len(s) \in Nat
  OBVIOUS
<1>2. a \in Seq(S) /\ Len(a) = p - 1 /\ \A q \in 1 .. p - 1 : a[q] = s[q]
  BY <1>1, SubSeqProperties
<1>3. b \in Seq(S) /\ Len(b) = Len(s) - p + 1 /\ \A q \in 1 .. Len(s) - p + 1 : b[q] = s[p + q - 1]
  BY <1>1, SubSeqProperties
<1>4. InsertAt(s, p, e) = (a \o <<e>>) \o b
  BY DEF InsertAt
<1> HIDE DEF a, b
<1>5. /\ a \o <<e>> \in Seq(S) /\ Len(a \o <<e>>) = p
      /\ \A q \in 1 .. p : (a \o <<e>>)[q] = IF q < p THEN s[q] ELSE e
  <2>1. <<e>> \in Seq(S) /\ Len(<<e>>) = 1 /\ <<e>>[1] = e
    OBVIOUS
  <2>2. /\ a \o <<e>> \in Seq(S) /\ Len(a \o <<e>>) = Len(a) + 1
        /\ \A q \in 1 .. Len(a) + 1 :
             (a \o <<e>>)[q] = IF q <= Len(a) THEN a[q] ELSE <<e>>[q - Len(a)]
    BY <1>2, <2>1, ConcatProperties
  <2>3. Len(a) + 1 = p
    BY <1>1, <1>2
  <2>4. ASSUME NEW q \in 1 .. p PROVE (a \o <<e>>)[q] = IF q < p THEN s[q] ELSE e
    <3>1. (a \o <<e>>)[q] = IF q <= Len(a) THEN a[q] ELSE <<e>>[q - Len(a)]
      BY <2>2, <2>3
    <3>2. CASE q < p
      <4>1. q <= Len(a) /\ q \in 1 .. p - 1
        BY <1>1, <1>2, <3>2
      <4> QED
        BY <1>2, <3>1, <3>2, <4>1
    <3>3. CASE ~ (q < p)
      <4>1. ~ (q <= Len(a)) /\ q - Len(a) = 1
        BY <1>1, <1>2, <3>3
      <4> QED
        BY <2>1, <3>1, <3>3, <4>1
    <3> QED
      BY <3>2, <3>3
  <2> QED
    BY <2>2, <2>3, <2>4
<1> DEFINE c == a \o <<e>>
<1> HIDE DEF c
<1>6. c \in Seq(S) /\ Len(c) = p /\ \A q \in 1 .. p : c[q] = IF q < p THEN s[q] ELSE e
  BY <1>5 DEF c
<1>7. /\ c \o b \in Seq(S) /\ Len(c \o b) = Len(c) + Len(b)
      /\ \A q \in 1 .. Len(c) + Len(b) : (c \o b)[q] = IF q <= Len(c) THEN c[q] ELSE b[q - Len(c)]
  BY <1>3, <1>6, ConcatProperties
<1>8. Len(c) + Len(b) = Len(s) + 1
  BY <1>1, <1>3, <1>6
<1>9. ASSUME NEW q \in 1 .. Len(s) + 1
      PROVE  (c \o b)[q] = IF q < p THEN s[q] ELSE IF q = p THEN e ELSE s[q - 1]
  <2>1. CASE q <= p
    BY <1>1, <1>6, <1>7, <1>8, <2>1
  <2>2. CASE ~ (q <= p)
    <3>1. PICK r \in 1 .. Len(s) - p + 1 : r = q - p /\ p + r - 1 = q - 1
      BY <1>1, <2>2
    <3> QED
      BY <1>1, <1>3, <1>6, <1>7, <1>8, <2>2, <3>1
  <2> QED
    BY <2>1, <2>2
<1> QED
  BY <1>4, <1>7, <1>8, <1>9 DEF c, IsWith

(* A text with a character less.                                           *)
LEMMA RemovedElement ==
  ASSUME NEW S, NEW s \in Seq(S), NEW p \in 1 .. Len(s)
  PROVE  /\ RemoveAt(s, p) \in Seq(S) /\ Len(RemoveAt(s, p)) = Len(s) - 1
         /\ \A q \in 1 .. Len(s) - 1 : RemoveAt(s, p)[q] = IF q < p THEN s[q] ELSE s[q + 1]
<1> DEFINE a == SubSeq(s, 1, p - 1)
           b == SubSeq(s, p + 1, Len(s))
<1>1. p \in Nat /\ Len(s) \in Nat
  OBVIOUS
<1>2. a \in Seq(S) /\ Len(a) = p - 1 /\ \A q \in 1 .. p - 1 : a[q] = s[q]
  BY <1>1, SubSeqProperties
<1>3. b \in Seq(S) /\ Len(b) = Len(s) - p /\ \A q \in 1 .. Len(s) - p : b[q] = s[q + p]
  BY <1>1, SubSeqProperties
<1>4. RemoveAt(s, p) = a \o b
  BY DEF RemoveAt
<1> HIDE DEF a, b
<1>5. /\ a \o b \in Seq(S) /\ Len(a \o b) = Len(a) + Len(b)
      /\ \A q \in 1 .. Len(a) + Len(b) : (a \o b)[q] = IF q <= Len(a) THEN a[q] ELSE b[q - Len(a)]
  BY <1>2, <1>3, ConcatProperties
<1>6. Len(a) + Len(b) = Len(s) - 1
  BY <1>1, <1>2, <1>3
<1>7. ASSUME NEW q \in 1 .. Len(s) - 1
      PROVE  (a \o b)[q] = IF q < p THEN s[q] ELSE s[q + 1]
  <2>1. CASE q < p
    BY <1>1, <1>2, <1>5, <1>6, <2>1
  <2>2. CASE ~ (q < p)
    <3>1. PICK r \in 1 .. Len(s) - p : r = q - (p - 1) /\ r + p = q + 1
      BY <1>1, <2>2
    <3>2. ~ (q <= Len(a)) /\ q - Len(a) = r
      BY <1>1, <1>2, <2>2, <3>1
    <3>3. (a \o b)[q] = b[r]
      BY <1>5, <1>6, <3>2
    <3> QED
      BY <1>3, <2>2, <3>1, <3>3
  <2> QED
    BY <2>1, <2>2
<1> QED
  BY <1>4, <1>5, <1>6, <1>7

(* A character that is inserted and removed leaves the text as it was.     *)
LEMMA InsertThenRemove ==
  ASSUME NEW S, NEW s \in Seq(S), NEW p \in 1 .. Len(s) + 1, NEW e \in S
  PROVE  RemoveAt(InsertAt(s, p, e), p) = s
<1>1. InsertAt(s, p, e) \in Seq(S) /\ IsWith(InsertAt(s, p, e), s, p, e)
  BY InsertedElement
<1>2. PICK t \in Seq(S) :
        /\ t = InsertAt(s, p, e) /\ Len(t) = Len(s) + 1
        /\ \A q \in 1 .. Len(s) + 1 : t[q] = IF q < p THEN s[q] ELSE IF q = p THEN e ELSE s[q - 1]
  BY <1>1 DEF IsWith
<1>3. p \in 1 .. Len(t) /\ p \in Nat /\ Len(s) \in Nat
  BY <1>2
<1>4. /\ RemoveAt(t, p) \in Seq(S) /\ Len(RemoveAt(t, p)) = Len(t) - 1
      /\ \A q \in 1 .. Len(t) - 1 : RemoveAt(t, p)[q] = IF q < p THEN t[q] ELSE t[q + 1]
  BY <1>3, RemovedElement
<1>5. ASSUME NEW q \in 1 .. Len(s) PROVE RemoveAt(t, p)[q] = s[q]
  <2>1. q \in 1 .. Len(t) - 1 /\ q \in 1 .. Len(s) + 1 /\ q + 1 \in 1 .. Len(s) + 1
    BY <1>2, <1>3
  <2>2. RemoveAt(t, p)[q] = IF q < p THEN t[q] ELSE t[q + 1]
    BY <1>4, <2>1
  <2>3. q < p => t[q] = s[q]
    BY <1>2, <2>1
  <2>4. ~ (q < p) => t[q + 1] = s[q]
    BY <1>2, <1>3, <2>1
  <2> QED
    BY <2>2, <2>3, <2>4
<1>6. Len(RemoveAt(t, p)) = Len(s)
  BY <1>2, <1>3, <1>4
<1> QED
  BY <1>2, <1>4, <1>5, <1>6, SeqEqual

(* A character that is removed and inserted again is where it was.         *)
LEMMA RemoveThenInsert ==
  ASSUME NEW S, NEW s \in Seq(S), NEW p \in 1 .. Len(s)
  PROVE  InsertAt(RemoveAt(s, p), p, s[p]) = s
<1>1. PICK t \in Seq(S) :
        /\ t = RemoveAt(s, p) /\ Len(t) = Len(s) - 1
        /\ \A q \in 1 .. Len(s) - 1 : t[q] = IF q < p THEN s[q] ELSE s[q + 1]
  BY RemovedElement
<1>2. p \in 1 .. Len(t) + 1 /\ p \in Nat /\ Len(s) \in Nat /\ s[p] \in S
  BY <1>1
<1>3. PICK e \in S : e = s[p]
  BY <1>2
<1>4. /\ InsertAt(t, p, e) \in Seq(S) /\ Len(InsertAt(t, p, e)) = Len(t) + 1
      /\ \A q \in 1 .. Len(t) + 1 :
           InsertAt(t, p, e)[q] = IF q < p THEN t[q] ELSE IF q = p THEN e ELSE t[q - 1]
  <2>1. InsertAt(t, p, e) \in Seq(S) /\ IsWith(InsertAt(t, p, e), t, p, e)
    BY <1>2, InsertedElement
  <2> QED
    BY <2>1 DEF IsWith
<1>5. ASSUME NEW q \in 1 .. Len(s) PROVE InsertAt(t, p, e)[q] = s[q]
  <2>1. q \in 1 .. Len(t) + 1 /\ q \in Nat
    BY <1>1, <1>2
  <2>2. InsertAt(t, p, e)[q] = IF q < p THEN t[q] ELSE IF q = p THEN e ELSE t[q - 1]
    BY <1>4, <2>1
  <2>3. q < p => t[q] = s[q]
    BY <1>1, <1>2, <2>1
  <2>4. q > p => t[q - 1] = s[q]
    BY <1>1, <1>2, <2>1
  <2> QED
    BY <1>2, <1>3, <2>1, <2>2, <2>3, <2>4
<1>6. Len(InsertAt(t, p, e)) = Len(s)
  BY <1>1, <1>2, <1>4
<1> QED
  BY <1>1, <1>3, <1>4, <1>5, <1>6, SeqEqual

-----------------------------------------------------------------------------
(* A cursor in the text does not wrap.                                     *)
LEMMA Bounds ==
  /\ MaxLength \in Nat /\ PosRange \in Nat /\ PosRange > MaxLength + MaxLog /\ MaxLog \in Nat
  /\ \A n \in 0 .. MaxLength : Wrap(n) = n
BY EditorAssumption DEF Wrap

(* A view is not an error.                                                 *)
LEMMA ViewsAreNotErrors ==
  ASSUME NEW view \in Views
  PROVE  /\ view # Throws /\ view = [text |-> view.text, pos |-> view.pos]
         /\ view.text \in Seq(Chars) /\ Len(view.text) \in 0 .. MaxLength
         /\ view.pos \in 0 .. Len(view.text)
<1>1. view \in [text : Seq(Chars), pos : Nat] /\ view.pos =< Len(view.text) /\ Len(view.text) =< MaxLength
  BY DEF Views
<1>2. DOMAIN view = {"text", "pos"} /\ DOMAIN Throws = {"text"}
  BY <1>1 DEF Throws
<1>3. view # Throws
  BY <1>2
<1> QED
  BY <1>1, <1>3, Bounds

(* A text that is not too long and a cursor in it make a view.             *)
LEMMA MakesView ==
  ASSUME NEW text \in Seq(Chars), NEW pos \in Nat, pos =< Len(text), Len(text) =< MaxLength
  PROVE  [text |-> text, pos |-> pos] \in Views
BY DEF Views

(* What Type makes of a view, its command leads to and back from.          *)
LEMMA TypeLeads ==
  ASSUME NEW v \in Views, NEW c \in Chars, Len(v.text) < MaxLength
  PROVE  LET command == [kind |-> "type", c |-> c]
             w == [text |-> InsertAt(v.text, v.pos + 1, c), pos |-> v.pos + 1]
         IN  command \in Commands /\ w \in Views /\ Leads(command, v, w)
<1> DEFINE command == [kind |-> "type", c |-> c]
           w == [text |-> InsertAt(v.text, v.pos + 1, c), pos |-> v.pos + 1]
<1>1. /\ v.text \in Seq(Chars) /\ Len(v.text) \in Nat /\ v.pos \in Nat /\ v.pos =< Len(v.text)
      /\ v = [text |-> v.text, pos |-> v.pos] /\ MaxLength \in Nat
  BY ViewsAreNotErrors, Bounds
<1>2. v.pos + 1 \in 1 .. Len(v.text) + 1
  BY <1>1
<1>3. /\ InsertAt(v.text, v.pos + 1, c) \in Seq(Chars)
      /\ Len(InsertAt(v.text, v.pos + 1, c)) = Len(v.text) + 1
  <2>1. /\ InsertAt(v.text, v.pos + 1, c) \in Seq(Chars)
        /\ IsWith(InsertAt(v.text, v.pos + 1, c), v.text, v.pos + 1, c)
    BY <1>1, <1>2, InsertedElement
  <2> QED
    BY <2>1 DEF IsWith
<1>4. RemoveAt(InsertAt(v.text, v.pos + 1, c), v.pos + 1) = v.text
  BY <1>1, <1>2, InsertThenRemove
<1>5. w \in Views
  BY <1>1, <1>3, MakesView
<1>6. Wrap(v.pos + 1) = v.pos + 1 /\ Wrap(v.pos) = v.pos /\ (v.pos + 1) - 1 = v.pos
  BY <1>1, Bounds
<1>7. Do(command, v) = w
  BY <1>1, <1>6 DEF Do, Insert
<1>8. Undone(command, w) = v
  BY <1>1, <1>3, <1>4, <1>6 DEF Undone, Erase
<1>9. command \in Commands
  BY DEF Commands
<1> QED
  BY <1>5, <1>7, <1>8, <1>9 DEF Leads

(* The same for Backspace.                                                 *)
LEMMA BackspaceLeads ==
  ASSUME NEW v \in Views, v.pos # 0
  PROVE  LET command == [kind |-> "backspace", c |-> v.text[v.pos]]
             w == [text |-> RemoveAt(v.text, v.pos), pos |-> v.pos - 1]
         IN  command \in Commands /\ w \in Views /\ Leads(command, v, w)
<1> DEFINE command == [kind |-> "backspace", c |-> v.text[v.pos]]
           w == [text |-> RemoveAt(v.text, v.pos), pos |-> v.pos - 1]
<1>1. /\ v.text \in Seq(Chars) /\ Len(v.text) \in Nat /\ v.pos \in Nat /\ v.pos =< Len(v.text)
      /\ v = [text |-> v.text, pos |-> v.pos] /\ Len(v.text) =< MaxLength /\ MaxLength \in Nat
  BY ViewsAreNotErrors, Bounds
<1>2. v.pos \in 1 .. Len(v.text) /\ v.text[v.pos] \in Chars
  BY <1>1
<1>3. /\ RemoveAt(v.text, v.pos) \in Seq(Chars)
      /\ Len(RemoveAt(v.text, v.pos)) = Len(v.text) - 1
  BY <1>1, <1>2, RemovedElement
<1>4. InsertAt(RemoveAt(v.text, v.pos), v.pos, v.text[v.pos]) = v.text
  BY <1>1, <1>2, RemoveThenInsert
<1>5. v.pos - 1 \in Nat /\ v.pos - 1 =< Len(v.text) - 1 /\ Len(v.text) - 1 =< MaxLength /\ (v.pos - 1) + 1 = v.pos
  BY <1>1, <1>2
<1>6. w \in Views
  BY <1>3, <1>5, MakesView
<1>7. Wrap(v.pos) = v.pos
  BY <1>1, Bounds
<1>8. Do(command, v) = w
  BY <1>1, <1>2, <1>5 DEF Do, Erase
<1>9. Undone(command, w) = v
  BY <1>1, <1>3, <1>4, <1>5, <1>7 DEF Undone, Insert
<1>10. command \in Commands
  BY <1>2 DEF Commands
<1> QED
  BY <1>6, <1>8, <1>9, <1>10 DEF Leads

(* The same for ShiftLeft.                                                 *)
LEMMA LeftLeads ==
  ASSUME NEW v \in Views, v.pos # 0
  PROVE  LET command == [kind |-> "left"]
             w == [text |-> v.text, pos |-> v.pos - 1]
         IN  command \in Commands /\ w \in Views /\ Leads(command, v, w)
<1>1. /\ v.text \in Seq(Chars) /\ Len(v.text) \in Nat /\ v.pos \in Nat /\ v.pos =< Len(v.text)
      /\ v = [text |-> v.text, pos |-> v.pos] /\ Len(v.text) =< MaxLength /\ MaxLength \in Nat
  BY ViewsAreNotErrors, Bounds
<1>2. v.pos - 1 \in Nat /\ v.pos - 1 =< Len(v.text) /\ (v.pos - 1) + 1 = v.pos
  BY <1>1
<1>3. [text |-> v.text, pos |-> v.pos - 1] \in Views
  BY <1>1, <1>2, MakesView
<1>4. Wrap(v.pos) = v.pos
  BY <1>1, Bounds
<1>5. [v EXCEPT !.pos = v.pos - 1] = [text |-> v.text, pos |-> v.pos - 1]
  BY <1>1
<1> QED
  BY <1>1, <1>2, <1>3, <1>4, <1>5 DEF Leads, Do, Undone, Commands

(* The same for ShiftRight.                                                *)
LEMMA RightLeads ==
  ASSUME NEW v \in Views, v.pos # Len(v.text)
  PROVE  LET command == [kind |-> "right"]
             w == [text |-> v.text, pos |-> v.pos + 1]
         IN  command \in Commands /\ w \in Views /\ Leads(command, v, w)
<1>1. /\ v.text \in Seq(Chars) /\ Len(v.text) \in Nat /\ v.pos \in Nat /\ v.pos =< Len(v.text)
      /\ v = [text |-> v.text, pos |-> v.pos] /\ Len(v.text) =< MaxLength /\ MaxLength \in Nat
  BY ViewsAreNotErrors, Bounds
<1>2. v.pos + 1 \in Nat /\ v.pos + 1 =< Len(v.text) /\ (v.pos + 1) - 1 = v.pos
  BY <1>1
<1>3. [text |-> v.text, pos |-> v.pos + 1] \in Views
  BY <1>1, <1>2, MakesView
<1>4. Wrap(v.pos + 1) = v.pos + 1 /\ Wrap(v.pos) = v.pos
  BY <1>1, <1>2, Bounds
<1> QED
  BY <1>1, <1>2, <1>3, <1>4 DEF Leads, Do, Undone, Commands

-----------------------------------------------------------------------------
(* A log and its views are as well without the last command.               *)
LEMMA WithoutLast ==
  ASSUME NEW S, NEW s \in Seq(S), s # <<>>
  PROVE  /\ Front(s) \in Seq(S) /\ Len(Front(s)) = Len(s) - 1 /\ Last(s) \in S
         /\ Len(s) \in Nat \ {0} /\ Last(s) = s[Len(s)]
         /\ \A i \in 1 .. Len(s) - 1 : Front(s)[i] = s[i]
<1>1. Len(s) \in Nat \ {0} /\ Last(s) = s[Len(s)] /\ Last(s) \in S
  BY DEF Last
<1>2. \A i \in 1 .. Len(s) - 1 : s[i] \in S
  BY <1>1
<1>3. /\ SubSeq(s, 1, Len(s) - 1) \in Seq(S)
      /\ Len(SubSeq(s, 1, Len(s) - 1)) = IF 1 <= Len(s) - 1 THEN (Len(s) - 1) - 1 + 1 ELSE 0
      /\ \A i \in 1 .. (Len(s) - 1) - 1 + 1 : SubSeq(s, 1, Len(s) - 1)[i] = s[1 + i - 1]
  BY <1>1, <1>2, SubSeqProperties
<1>4. Len(Front(s)) = Len(s) - 1
  <2>1. CASE Len(s) = 1
    <3>1. ~ (1 <= Len(s) - 1) /\ Len(s) - 1 = 0
      BY <2>1
    <3>2. Len(SubSeq(s, 1, Len(s) - 1)) = 0
      BY <1>3, <3>1
    <3> QED
      BY <3>1, <3>2 DEF Front
  <2>2. CASE Len(s) # 1
    <3>1. 1 <= Len(s) - 1 /\ (Len(s) - 1) - 1 + 1 = Len(s) - 1
      BY <1>1, <2>2, SMTT(30)
    <3>2. Len(SubSeq(s, 1, Len(s) - 1)) = Len(s) - 1
      BY <1>3, <3>1
    <3> QED
      BY <3>2 DEF Front
  <2> QED
    BY <2>1, <2>2
<1>5. ASSUME NEW i \in 1 .. Len(s) - 1 PROVE Front(s)[i] = s[i]
  <2>1. i \in 1 .. (Len(s) - 1) - 1 + 1 /\ 1 + i - 1 = i
    BY <1>1
  <2>2. SubSeq(s, 1, Len(s) - 1)[i] = s[1 + i - 1]
    BY <1>3, <2>1
  <2> QED
    BY <2>1, <2>2 DEF Front
<1>6. Front(s) \in Seq(S)
  BY <1>3 DEF Front
<1> QED
  BY <1>1, <1>4, <1>5, <1>6

(* The end of two sequences is the end of the second.                      *)
LEMMA EndOfTwo ==
  ASSUME NEW S, NEW r \in Seq(S), NEW s \in Seq(S), s # <<>>
  PROVE  r \o s # <<>> /\ Last(r \o s) = Last(s) /\ Front(r \o s) = r \o Front(s)
<1>1. /\ Front(s) \in Seq(S) /\ Len(Front(s)) = Len(s) - 1 /\ Len(s) \in Nat \ {0}
      /\ Last(s) = s[Len(s)] /\ \A i \in 1 .. Len(s) - 1 : Front(s)[i] = s[i]
  BY WithoutLast
<1>2. /\ r \o s \in Seq(S) /\ Len(r \o s) = Len(r) + Len(s)
      /\ \A i \in 1 .. Len(r) + Len(s) : (r \o s)[i] = IF i <= Len(r) THEN r[i] ELSE s[i - Len(r)]
  BY ConcatProperties
<1>3. /\ r \o Front(s) \in Seq(S) /\ Len(r \o Front(s)) = Len(r) + Len(Front(s))
      /\ \A i \in 1 .. Len(r) + Len(Front(s)) :
           (r \o Front(s))[i] = IF i <= Len(r) THEN r[i] ELSE Front(s)[i - Len(r)]
  BY <1>1, ConcatProperties
<1>4. PICK m \in Nat, n \in Nat : Len(r) = m /\ Len(s) = n + 1
  <2>1. Len(r) \in Nat /\ Len(s) - 1 \in Nat /\ Len(s) = (Len(s) - 1) + 1
    BY <1>1
  <2> QED
    BY <2>1
<1>5. r \o s # <<>>
  BY <1>2, <1>4
<1>6. /\ Front(r \o s) \in Seq(S) /\ Len(Front(r \o s)) = m + n
      /\ Last(r \o s) = (r \o s)[m + n + 1]
      /\ \A i \in 1 .. m + n : Front(r \o s)[i] = (r \o s)[i]
  <2>1. PICK t \in Seq(S) : t = r \o s /\ t # <<>>
    BY <1>2, <1>5
  <2>2. Len(t) = m + n + 1 /\ Len(t) - 1 = m + n
    <3>1. Len(t) = Len(r) + Len(s)
      BY <1>2, <2>1
    <3> QED
      BY <1>4, <3>1
  <2>3. /\ Front(t) \in Seq(S) /\ Len(Front(t)) = Len(t) - 1 /\ Last(t) = t[Len(t)]
        /\ \A i \in 1 .. Len(t) - 1 : Front(t)[i] = t[i]
    BY <2>1, WithoutLast
  <2> QED
    BY <2>1, <2>2, <2>3
<1>7. Last(r \o s) = Last(s)
  <2>1. m + n + 1 \in 1 .. Len(r) + Len(s) /\ ~ (m + n + 1 <= m) /\ (m + n + 1) - m = n + 1
    BY <1>4
  <2>2. (r \o s)[m + n + 1] = s[n + 1]
    BY <1>2, <1>4, <2>1
  <2> QED
    BY <1>1, <1>4, <1>6, <2>2
<1>8. Len(r \o Front(s)) = m + n
  BY <1>1, <1>3, <1>4
<1>9. ASSUME NEW i \in 1 .. m + n PROVE Front(r \o s)[i] = (r \o Front(s))[i]
  <2>1. i \in 1 .. Len(r) + Len(s) /\ i \in 1 .. Len(r) + Len(Front(s))
    BY <1>1, <1>4
  <2>2. /\ Front(r \o s)[i] = IF i <= m THEN r[i] ELSE s[i - m]
        /\ (r \o Front(s))[i] = IF i <= m THEN r[i] ELSE Front(s)[i - m]
    BY <1>2, <1>3, <1>4, <1>6, <2>1
  <2>3. ~ (i <= m) => i - m \in 1 .. Len(s) - 1
    BY <1>4
  <2> QED
    BY <1>1, <2>2, <2>3
<1>10. Front(r \o s) = r \o Front(s)
  BY <1>3, <1>6, <1>8, <1>9, SeqEqual
<1> QED
  BY <1>5, <1>7, <1>10

(* An element more at the end of the second of two sequences.              *)
LEMMA OneMoreAtEnd ==
  ASSUME NEW S, NEW r \in Seq(S), NEW s \in Seq(S), NEW e \in S
  PROVE  r \o Append(s, e) = Append(r \o s, e) /\ Append(r \o s, e) \in Seq(S)
<1>1. /\ Append(s, e) \in Seq(S) /\ Append(s, e) # <<>>
      /\ Last(Append(s, e)) = e /\ Front(Append(s, e)) = s
  <2>1. /\ Append(s, e) \in Seq(S) /\ Len(Append(s, e)) = Len(s) + 1 /\ Append(s, e)[Len(s) + 1] = e
        /\ \A i \in 1 .. Len(s) : Append(s, e)[i] = s[i]
    BY AppendProperties
  <2>2. Len(s) \in Nat /\ Append(s, e) # <<>>
    BY <2>1
  <2>3. /\ Front(Append(s, e)) \in Seq(S) /\ Len(Front(Append(s, e))) = Len(Append(s, e)) - 1
        /\ Last(Append(s, e)) = Append(s, e)[Len(Append(s, e))]
        /\ \A i \in 1 .. Len(Append(s, e)) - 1 : Front(Append(s, e))[i] = Append(s, e)[i]
    BY <2>1, <2>2, WithoutLast
  <2>4. Len(Append(s, e)) - 1 = Len(s)
    BY <2>1, <2>2
  <2>5. Len(Front(Append(s, e))) = Len(s) /\ \A i \in 1 .. Len(s) : Front(Append(s, e))[i] = s[i]
    BY <2>1, <2>3, <2>4
  <2>6. Front(Append(s, e)) = s
    BY <2>3, <2>5, SeqEqual
  <2> QED
    BY <2>1, <2>2, <2>3, <2>6
<1>2. r \o s \in Seq(S) /\ r \o Append(s, e) \in Seq(S)
  BY <1>1, ConcatProperties
<1>3. /\ r \o Append(s, e) # <<>> /\ Last(r \o Append(s, e)) = e
      /\ Front(r \o Append(s, e)) = r \o s
  <2>1. PICK q \in Seq(S) : q = Append(s, e)
    BY <1>1
  <2>2. q # <<>> /\ Last(q) = e /\ Front(q) = s
    BY <1>1, <2>1
  <2>3. r \o q # <<>> /\ Last(r \o q) = Last(q) /\ Front(r \o q) = r \o Front(q)
    BY <2>2, EndOfTwo
  <2> QED
    BY <2>1, <2>2, <2>3
<1>4. PICK t \in Seq(S) : t = r \o Append(s, e)
  BY <1>2
<1>5. PICK u \in Seq(S) : u = r \o s
  BY <1>2
<1>6. /\ Len(u) = Len(t) - 1 /\ Len(t) \in Nat \ {0} /\ t[Len(t)] = e
      /\ \A i \in 1 .. Len(t) - 1 : u[i] = t[i]
  BY <1>3, <1>4, <1>5, WithoutLast
<1>7. /\ Append(u, e) \in Seq(S) /\ Len(Append(u, e)) = Len(u) + 1 /\ Append(u, e)[Len(u) + 1] = e
      /\ \A i \in 1 .. Len(u) : Append(u, e)[i] = u[i]
  BY AppendProperties
<1>8. PICK n \in Nat : Len(u) = n /\ Len(t) = n + 1
  BY <1>6
<1>9. ASSUME NEW i \in 1 .. n + 1 PROVE Append(u, e)[i] = t[i]
  <2>1. i = n + 1 \/ i \in 1 .. n
    BY <1>8
  <2> QED
    BY <1>6, <1>7, <1>8, <2>1
<1>10. Append(u, e) = t
  BY <1>7, <1>8, <1>9, SeqEqual
<1> QED
  BY <1>4, <1>5, <1>7, <1>10

(* The empty editor keeps its history.                                     *)
LEMMA InitKept == EditorInit => EditorInv
<1>e. EditorInit => Earlier
  BY DEF EditorInit, Earlier
<1> SUFFICES ASSUME EditorInit PROVE Kept /\ lost \in BOOLEAN
  BY <1>e DEF EditorInv
<1>1. View = [text |-> <<>>, pos |-> 0] /\ <<>> \in Seq(Chars) /\ Len(<<>>) = 0
  BY DEF EditorInit, View
<1>2. View \in Views
  <2>1. Len(<<>>) =< MaxLength /\ 0 =< Len(<<>>)
    BY <1>1, Bounds
  <2>2. [text |-> <<>>, pos |-> 0] \in [text : Seq(Chars), pos : Nat]
    BY <1>1
  <2> QED
    BY <1>1, <2>1, <2>2 DEF Views
<1>3. /\ past \in Seq(Views) /\ future \in Seq(Views) /\ log_ \in Seq(Commands) /\ relog_ \in Seq(Commands)
      /\ Len(past) = 0 /\ Len(future) = 0 /\ Len(log_) = 0 /\ Len(relog_) = 0
  BY DEF EditorInit
<1> QED
  <2>1. 1 .. Len(past) = {} /\ 1 .. Len(future) = {}
    <3>1. \A n : n = 0 => 1 .. n = {}
      OBVIOUS
    <3> QED
      BY <1>3, <3>1
  <2>2. Len(past) =< Len(log_) /\ Len(future) = Len(relog_) /\ lost \in BOOLEAN
    <3>1. lost \in BOOLEAN
      BY DEF EditorInit
    <3> QED
      BY <1>3, <3>1
  <2> QED
    BY <1>2, <1>3, <2>1, <2>2 DEF Kept

(* An action whose command leads from the view to another one.             *)
LEMMA PerformKeeps ==
  ASSUME Kept, ~ lost, NEW command \in Commands, NEW w \in Views, Leads(command, View, w),
         Perform(command)
  PROVE  /\ Kept' /\ lost' = lost /\ View' = w
         /\ past' = Append(past, View) /\ future' = <<>> /\ before' = before
         /\ Len(log_') = Len(log_) + 1
<1>1. /\ View \in Views /\ past \in Seq(Views) /\ log_ \in Seq(Commands) /\ Len(past) =< Len(log_)
      /\ \A i \in 1 .. Len(past) : Leads(log_[Len(log_) - Len(past) + i], past[i], After(past, i))
  BY DEF Kept
<1>2. relog_' = <<>> /\ log_' = Append(log_, command) /\ lost' = lost
  BY DEF Perform
<1>3. past' = Append(past, View) /\ future' = <<>> /\ before' = before
  BY <1>2 DEF Perform, Remembers
<1>4. Do(command, View) = w /\ w # Throws /\ w = [text |-> w.text, pos |-> w.pos]
  BY ViewsAreNotErrors DEF Leads
<1>5. buffer_' = w.text /\ pos_' = w.pos
  BY <1>4 DEF Perform
<1>6. View' = w
  BY <1>4, <1>5 DEF View
<1>7. PICK k \in Nat : k = Len(past)
  BY <1>1
<1>8. PICK n \in Nat : n = Len(log_) /\ k =< n
  BY <1>1, <1>7
<1>9. /\ past' \in Seq(Views) /\ Len(past') = k + 1 /\ past'[k + 1] = View
      /\ \A i \in 1 .. k : past'[i] = past[i]
  BY <1>1, <1>3, <1>7, AppendProperties
<1>10. /\ log_' \in Seq(Commands) /\ Len(log_') = n + 1 /\ log_'[n + 1] = command
       /\ \A i \in 1 .. n : log_'[i] = log_[i]
  BY <1>1, <1>2, <1>8, AppendProperties
<1>11. ASSUME NEW i \in 1 .. k + 1
       PROVE  Leads(log_'[(n + 1) - (k + 1) + i], past'[i], IF i = k + 1 THEN w ELSE past'[i + 1])
  <2>1. CASE i = k + 1
    <3>1. (n + 1) - (k + 1) + i = n + 1
      BY <1>7, <1>8, <2>1
    <3> QED
      BY <1>9, <1>10, <2>1, <3>1
  <2>2. CASE i # k + 1
    <3>1. i \in 1 .. k /\ (n + 1) - (k + 1) + i = n - k + i /\ n - k + i \in 1 .. n
      BY <1>7, <1>8, <2>2
    <3>2. Leads(log_[n - k + i], past[i], After(past, i))
      BY <1>1, <1>7, <1>8, <3>1
    <3>3. past'[i + 1] = After(past, i)
      <4>1. CASE i = k
        BY <1>7, <1>9, <4>1 DEF After
      <4>2. CASE i # k
        <5>1. i + 1 \in 1 .. k
          BY <1>7, <3>1, <4>2
        <5> QED
          BY <1>7, <1>9, <4>2, <5>1 DEF After
      <4> QED
        BY <4>1, <4>2
    <3>4. log_'[n - k + i] = log_[n - k + i] /\ past'[i] = past[i]
      BY <1>9, <1>10, <3>1
    <3> QED
      BY <2>2, <3>1, <3>2, <3>3, <3>4
  <2> QED
    BY <2>1, <2>2
<1>12. \A i \in 1 .. Len(past') : Leads(log_'[Len(log_') - Len(past') + i], past'[i], After(past, i)')
  BY <1>6, <1>9, <1>10, <1>11 DEF After
<1>13. k + 1 =< n + 1
  BY <1>8
<1>14. future' \in Seq(Views) /\ relog_' \in Seq(Commands) /\ Len(future') = 0 /\ Len(relog_') = 0
  BY <1>2, <1>3
<1> QED
  <2>1. View' \in Views
    BY <1>6
  <2>2. 1 .. Len(future') = {} /\ Len(future') = Len(relog_') /\ Len(past') =< Len(log_')
    BY <1>9, <1>10, <1>13, <1>14
  <2>3. Kept'
    BY <1>9, <1>10, <1>12, <1>14, <2>1, <2>2 DEF Kept
  <2> QED
    BY <1>2, <1>3, <1>6, <1>8, <1>10, <2>3

(* The four actions, and what the document sees of them.                   *)
LEMMA ActionsKeep ==
  ASSUME Kept, Earlier, ~ lost, (\E c \in Chars : Type(c)) \/ ShiftLeft \/ ShiftRight \/ Backspace
  PROVE  (Kept /\ Earlier)' /\ lost' = lost /\ Promised!Act
<1>1. View \in Views /\ View.text = buffer_ /\ View.pos = pos_
  BY DEF Kept, View
<1>2. /\ buffer_ \in Seq(Chars) /\ Len(buffer_) \in Nat /\ pos_ \in Nat /\ pos_ =< Len(buffer_)
      /\ past \in Seq(Views) /\ Len(past) \in Nat /\ log_ \in Seq(Commands) /\ Len(log_) \in Nat
  BY <1>1, ViewsAreNotErrors DEF Kept
<1>3. ASSUME NEW command \in Commands, NEW w \in Views, Leads(command, View, w), Perform(command),
             \/ Promised!Delete \/ Promised!Move \/ \E c \in Chars : Promised!Insert(c)
      PROVE  (Kept /\ Earlier)' /\ lost' = lost /\ Promised!Act
  <2>1. /\ Kept' /\ lost' = lost /\ past' = Append(past, View) /\ future' = <<>>
        /\ before' = before /\ Len(log_') = Len(log_) + 1
    BY <1>3, PerformKeeps
  <2>2. Len(past') = Len(past) + 1
    BY <1>1, <1>2, <2>1, AppendProperties
  <2>3. Earlier'
    BY <1>2, <2>1, <2>2 DEF Earlier
  <2>4. View = Promised!View
    BY DEF View, Promised!View
  <2>5. before' \o past' = Append(before \o past, View)
    BY <1>1, <1>2, <2>1, OneMoreAtEnd DEF Earlier
  <2>6. Promised!Act
    BY <1>3, <2>1, <2>4, <2>5 DEF Promised!Act
  <2> QED
    BY <2>1, <2>3, <2>6
<1>4. ASSUME NEW command \in Commands, NEW w \in Views, Leads(command, View, w), Perform(command)
      PROVE  buffer_' = w.text /\ pos_' = w.pos
  <2>1. View' = w
    BY <1>4, PerformKeeps
  <2> QED
    BY <2>1 DEF View
<1>5. ASSUME NEW c \in Chars, Type(c) PROVE (Kept /\ Earlier)' /\ lost' = lost /\ Promised!Act
  <2> DEFINE command == [kind |-> "type", c |-> c]
             w == [text |-> InsertAt(View.text, View.pos + 1, c), pos |-> View.pos + 1]
  <2>1. command \in Commands /\ w \in Views /\ Leads(command, View, w) /\ Perform(command)
    BY <1>1, <1>5, TypeLeads DEF Type
  <2>2. buffer_' = w.text /\ pos_' = w.pos
    BY <1>4, <2>1
  <2>3. Promised!Insert(c)
    BY <1>1, <2>2 DEF Promised!Insert, Promised!InsertAt, InsertAt
  <2> HIDE DEF command, w
  <2> QED
    BY <1>3, <2>1, <2>3
<1>6. ASSUME ShiftLeft PROVE (Kept /\ Earlier)' /\ lost' = lost /\ Promised!Act
  <2> DEFINE command == [kind |-> "left"]
             w == [text |-> View.text, pos |-> View.pos - 1]
  <2>1. command \in Commands /\ w \in Views /\ Leads(command, View, w) /\ Perform(command) /\ pos_ # 0
    BY <1>1, <1>6, LeftLeads DEF ShiftLeft
  <2>2. buffer_' = w.text /\ pos_' = w.pos
    BY <1>4, <2>1
  <2>3. Promised!Move
    BY <1>1, <1>2, <2>1, <2>2 DEF Promised!Move
  <2> HIDE DEF command, w
  <2> QED
    BY <1>3, <2>1, <2>3
<1>7. ASSUME ShiftRight PROVE (Kept /\ Earlier)' /\ lost' = lost /\ Promised!Act
  <2> DEFINE command == [kind |-> "right"]
             w == [text |-> View.text, pos |-> View.pos + 1]
  <2>1. command \in Commands /\ w \in Views /\ Leads(command, View, w) /\ Perform(command) /\ pos_ # Len(buffer_)
    BY <1>1, <1>7, RightLeads DEF ShiftRight
  <2>2. buffer_' = w.text /\ pos_' = w.pos
    BY <1>4, <2>1
  <2>3. Promised!Move
    BY <1>1, <1>2, <2>1, <2>2 DEF Promised!Move
  <2> HIDE DEF command, w
  <2> QED
    BY <1>3, <2>1, <2>3
<1>8. ASSUME Backspace PROVE (Kept /\ Earlier)' /\ lost' = lost /\ Promised!Act
  <2> DEFINE command == [kind |-> "backspace", c |-> View.text[View.pos]]
             w == [text |-> RemoveAt(View.text, View.pos), pos |-> View.pos - 1]
  <2>1. pos_ # 0 /\ pos_ - 1 < Len(buffer_)
    BY <1>2, <1>8 DEF Backspace
  <2>2. Perform(command)
    BY <1>1, <1>8, <2>1 DEF Backspace
  <2>3. command \in Commands /\ w \in Views /\ Leads(command, View, w)
    BY <1>1, <2>1, BackspaceLeads
  <2>4. buffer_' = w.text /\ pos_' = w.pos
    BY <1>4, <2>2, <2>3
  <2>5. Promised!Delete
    <3>1. Promised!RemoveAt(buffer_, pos_) = RemoveAt(buffer_, pos_)
      BY DEF Promised!RemoveAt, RemoveAt
    <3>2. pos_ > 0
      BY <1>2, <2>1
    <3> QED
      BY <1>1, <2>4, <3>1, <3>2 DEF Promised!Delete
  <2> HIDE DEF command, w
  <2> QED
    BY <1>3, <2>2, <2>3, <2>5
<1> QED
  BY <1>5, <1>6, <1>7, <1>8

(* Undo of a command of the history leads to the view before it, and the   *)
(* command can be redone.                                                  *)
LEMMA UndoKeeps ==
  ASSUME Kept, Earlier, lost \in BOOLEAN, ~ lost, Undo
  PROVE  \/ lost' /\ UndoesAnother
         \/ (Kept /\ Earlier)' /\ lost' = lost /\ Promised!Undo
<1>1. /\ View \in Views /\ past \in Seq(Views) /\ future \in Seq(Views)
      /\ log_ \in Seq(Commands) /\ relog_ \in Seq(Commands)
      /\ Len(past) =< Len(log_) /\ Len(future) = Len(relog_)
      /\ \A i \in 1 .. Len(past) : Leads(log_[Len(log_) - Len(past) + i], past[i], After(past, i))
      /\ \A i \in 1 .. Len(future) : Leads(relog_[i], After(future, i), future[i])
  BY DEF Kept
<1>2. /\ log_ # <<>>
      /\ lost' = (lost \/ past = <<>>)
  BY DEF Undo
<1>3. CASE past = <<>>
  <2>1. Len(log_) # Len(past)
    BY <1>1, <1>2, <1>3
  <2> QED
    BY <1>2, <1>3, <2>1 DEF UndoesAnother, Earlier
<1>4. CASE past # <<>>
  <2>1. /\ Front(past) \in Seq(Views) /\ Len(Front(past)) = Len(past) - 1 /\ Last(past) \in Views
        /\ Last(past) = past[Len(past)] /\ Len(past) \in Nat \ {0}
        /\ \A i \in 1 .. Len(past) - 1 : Front(past)[i] = past[i]
    BY <1>1, <1>4, WithoutLast
  <2>2. /\ Front(log_) \in Seq(Commands) /\ Len(Front(log_)) = Len(log_) - 1
        /\ Last(log_) \in Commands /\ Last(log_) = log_[Len(log_)] /\ Len(log_) \in Nat \ {0}
        /\ \A i \in 1 .. Len(log_) - 1 : Front(log_)[i] = log_[i]
    BY <1>1, <1>2, WithoutLast
  <2>3. PICK k \in Nat : Len(past) = k + 1
    <3>1. Len(past) - 1 \in Nat /\ Len(past) = (Len(past) - 1) + 1
      BY <2>1
    <3> QED
      BY <3>1
  <2>4. PICK n \in Nat : Len(log_) = n + 1 /\ k =< n
    <3>1. Len(log_) - 1 \in Nat /\ Len(log_) = (Len(log_) - 1) + 1 /\ k =< Len(log_) - 1
      BY <1>1, <2>3, <2>2
    <3> QED
      BY <3>1
  <2>5. PICK m \in Nat : Len(relog_) = m /\ Len(future) = m
    BY <1>1
  <2>6. PICK w \in Views : w = past[k + 1] /\ w = Last(past)
    BY <2>3, <2>1
  <2>7. PICK command \in Commands : command = log_[n + 1] /\ command = Last(log_)
    BY <2>4, <2>2
  <2>8. Leads(command, w, View)
    <3>1. k + 1 \in 1 .. Len(past) /\ Len(log_) - Len(past) + (k + 1) = n + 1
      BY <2>3, <2>4
    <3>2. Leads(log_[n + 1], past[k + 1], After(past, k + 1)) /\ After(past, k + 1) = View
      BY <1>1, <2>3, <3>1 DEF After
    <3> QED
      BY <2>6, <2>7, <3>2
  <2>9. Undone(command, View) = w /\ w # Throws /\ w = [text |-> w.text, pos |-> w.pos]
    BY <2>8, ViewsAreNotErrors DEF Leads
  <2>10. /\ buffer_' = w.text /\ pos_' = w.pos
        /\ log_' = Front(log_) /\ relog_' = Append(relog_, command)
        /\ lost' = lost /\ past' = Front(past) /\ future' = Append(future, View)
        /\ before' = before
    <3>1. lost' = lost /\ ~ lost'
      BY <1>2, <1>4
    <3>2. past' = Front(past) /\ future' = Append(future, View) /\ before' = before
      BY <3>1 DEF Undo, Remembers
    <3>3. Undone(Last(log_), View) = w /\ w # Throws
      BY <2>7, <2>9
    <3>4. buffer_' = w.text /\ pos_' = w.pos /\ log_' = Front(log_) /\ relog_' = Append(relog_, Last(log_))
      BY <3>3 DEF Undo
    <3> QED
      BY <2>7, <3>1, <3>2, <3>4
  <2>11. View' = w
    BY <2>9, <2>10 DEF View
  <2>12. /\ past' \in Seq(Views) /\ Len(past') = k /\ \A i \in 1 .. k : past'[i] = past[i]
    BY <2>3, <2>10, <2>1
  <2>13. /\ log_' \in Seq(Commands) /\ Len(log_') = n /\ \A i \in 1 .. n : log_'[i] = log_[i]
    BY <2>4, <2>10, <2>2
  <2>14. /\ future' \in Seq(Views) /\ Len(future') = m + 1 /\ future'[m + 1] = View
         /\ \A i \in 1 .. m : future'[i] = future[i]
    BY <1>1, <2>5, <2>10, AppendProperties
  <2>15. /\ relog_' \in Seq(Commands) /\ Len(relog_') = m + 1 /\ relog_'[m + 1] = command
         /\ \A i \in 1 .. m : relog_'[i] = relog_[i]
    BY <1>1, <2>5, <2>10, AppendProperties
  <2>16. ASSUME NEW i \in 1 .. k
         PROVE  Leads(log_'[n - k + i], past'[i], IF i = k THEN w ELSE past'[i + 1])
    <3>1. i \in 1 .. Len(past) /\ Len(log_) - Len(past) + i = n - k + i /\ n - k + i \in 1 .. n
      BY <2>3, <2>4
    <3>2. Leads(log_[n - k + i], past[i], past[i + 1])
      <4>1. Leads(log_[Len(log_) - Len(past) + i], past[i], After(past, i))
        BY <1>1, <3>1
      <4>2. i # Len(past)
        BY <2>3
      <4>3. After(past, i) = past[i + 1]
        BY <4>2 DEF After
      <4> QED
        BY <3>1, <4>1, <4>3
    <3>3. log_'[n - k + i] = log_[n - k + i] /\ past'[i] = past[i]
      BY <2>12, <2>13, <3>1
    <3>4. i # k => past'[i + 1] = past[i + 1]
      BY <2>12
    <3> QED
      BY <2>6, <3>2, <3>3, <3>4
  <2>17. ASSUME NEW i \in 1 .. m + 1
         PROVE  Leads(relog_'[i], IF i = m + 1 THEN w ELSE future'[i + 1], future'[i])
    <3>1. CASE i = m + 1
      BY <2>8, <2>14, <2>15, <3>1
    <3>2. CASE i # m + 1
      <4>1. i \in 1 .. m
        BY <3>2
      <4>2. Leads(relog_[i], After(future, i), future[i])
        BY <1>1, <2>5, <4>1
      <4>3. future'[i + 1] = After(future, i)
        <5>1. CASE i = m
          BY <2>5, <2>14, <5>1 DEF After
        <5>2. CASE i # m
          <6>1. i + 1 \in 1 .. m
            BY <4>1, <5>2
          <6> QED
            BY <2>5, <2>14, <5>2, <6>1 DEF After
        <5> QED
          BY <5>1, <5>2
      <4> QED
        BY <2>14, <2>15, <3>2, <4>1, <4>2, <4>3
    <3> QED
      BY <3>1, <3>2
  <2>18. Kept'
    <3>1. \A i \in 1 .. Len(past') : Leads(log_'[Len(log_') - Len(past') + i], past'[i], After(past, i)')
      BY <2>11, <2>12, <2>13, <2>16 DEF After
    <3>2. \A i \in 1 .. Len(future') : Leads(relog_'[i], After(future, i)', future'[i])
      BY <2>11, <2>14, <2>17 DEF After
    <3>3. View' \in Views /\ Len(past') =< Len(log_') /\ Len(future') = Len(relog_')
      BY <2>4, <2>11, <2>12, <2>13, <2>14, <2>15
    <3> QED
      BY <2>12, <2>13, <2>14, <2>15, <3>1, <3>2, <3>3 DEF Kept
  <2>19. Promised!Undo
    <3>1. /\ before \o past # <<>> /\ Last(before \o past) = w
          /\ before' \o past' = Front(before \o past)
      BY <1>1, <1>4, <2>6, <2>10, EndOfTwo DEF Earlier
    <3>2. /\ Promised!Last(before \o past) = w
          /\ before' \o past' = Promised!Front(before \o past)
      BY <3>1 DEF Promised!Last, Promised!Front, Last, Front
    <3>3. View = Promised!View
      BY DEF View, Promised!View
    <3> QED
      BY <2>10, <3>1, <3>2, <3>3 DEF Promised!Undo, Promised!GoTo
  <2>20. Earlier'
    <3>1. before = <<>> => k = n
      BY <2>3, <2>4 DEF Earlier
    <3> QED
      BY <2>10, <2>12, <2>13, <3>1 DEF Earlier
  <2> QED
    BY <2>10, <2>18, <2>19, <2>20
<1> QED
  BY <1>3, <1>4

(* Redo of a command of the history leads to the view before its Undo; as  *)
(* the command does not come back to the log, no command is known for what *)
(* was before.                                                             *)
LEMMA RedoKeeps ==
  ASSUME Kept, Earlier, ~ lost, Redo
  PROVE  (Kept /\ Earlier)' /\ lost' = lost /\ Promised!Redo
<1>1. /\ View \in Views /\ past \in Seq(Views) /\ future \in Seq(Views)
      /\ log_ \in Seq(Commands) /\ relog_ \in Seq(Commands)
      /\ Len(past) =< Len(log_) /\ Len(future) = Len(relog_)
      /\ \A i \in 1 .. Len(future) : Leads(relog_[i], After(future, i), future[i])
  BY DEF Kept
<1>2. relog_ # <<>> /\ log_' = log_ /\ lost' = lost
  BY DEF Redo
<1>3. PICK m \in Nat : Len(relog_) = m + 1 /\ Len(future) = m + 1
  <2>1. Len(relog_) \in Nat /\ Len(relog_) # 0
    BY <1>1, <1>2, EmptySeq
  <2>2. Len(relog_) - 1 \in Nat /\ Len(relog_) = (Len(relog_) - 1) + 1
    BY <2>1
  <2> QED
    BY <1>1, <2>2
<1>4. future # <<>>
  BY <1>3
<1>5. /\ Front(future) \in Seq(Views) /\ Len(Front(future)) = Len(future) - 1
      /\ Last(future) \in Views /\ Last(future) = future[Len(future)]
      /\ \A i \in 1 .. Len(future) - 1 : Front(future)[i] = future[i]
  BY <1>1, <1>4, WithoutLast
<1>6. /\ Front(relog_) \in Seq(Commands) /\ Len(Front(relog_)) = Len(relog_) - 1
      /\ Last(relog_) \in Commands /\ Last(relog_) = relog_[Len(relog_)]
      /\ \A i \in 1 .. Len(relog_) - 1 : Front(relog_)[i] = relog_[i]
  BY <1>1, <1>2, WithoutLast
<1>7. PICK w \in Views : w = future[m + 1] /\ w = Last(future)
  BY <1>3, <1>5
<1>8. PICK command \in Commands : command = relog_[m + 1] /\ command = Last(relog_)
  BY <1>3, <1>6
<1>9. Leads(command, View, w)
  <2>1. m + 1 \in 1 .. Len(future)
    BY <1>3
  <2>2. Leads(relog_[m + 1], After(future, m + 1), future[m + 1]) /\ After(future, m + 1) = View
    BY <1>1, <1>3, <2>1 DEF After
  <2> QED
    BY <1>7, <1>8, <2>2
<1>10. Do(command, View) = w /\ w # Throws /\ w = [text |-> w.text, pos |-> w.pos]
  BY <1>9, ViewsAreNotErrors DEF Leads
<1>11. /\ buffer_' = w.text /\ pos_' = w.pos /\ relog_' = Front(relog_)
      /\ before' = Append(before \o past, View) /\ past' = <<>> /\ future' = Front(future)
  BY <1>2, <1>8, <1>10 DEF Redo, Remembers
<1>12. View' = w
  BY <1>10, <1>11 DEF View
<1>13. /\ future' \in Seq(Views) /\ Len(future') = m /\ \A i \in 1 .. m : future'[i] = future[i]
  BY <1>3, <1>11, <1>5
<1>14. /\ relog_' \in Seq(Commands) /\ Len(relog_') = m /\ \A i \in 1 .. m : relog_'[i] = relog_[i]
  BY <1>3, <1>11, <1>6
<1>15. past' \in Seq(Views) /\ Len(past') = 0 /\ 1 .. Len(past') = {}
  BY <1>11
<1>16. ASSUME NEW i \in 1 .. m
       PROVE  Leads(relog_'[i], IF i = m THEN w ELSE future'[i + 1], future'[i])
  <2>1. i \in 1 .. Len(future) /\ i # Len(future)
    BY <1>3
  <2>2. Leads(relog_[i], future[i + 1], future[i])
    BY <1>1, <2>1 DEF After
  <2>3. i # m => future'[i + 1] = future[i + 1]
    BY <1>13
  <2> QED
    BY <1>7, <1>13, <1>14, <2>2, <2>3
<1>17. Kept'
  <2>1. \A i \in 1 .. Len(future') : Leads(relog_'[i], After(future, i)', future'[i])
    BY <1>12, <1>13, <1>16 DEF After
  <2>2. View' \in Views /\ log_' \in Seq(Commands) /\ Len(past') =< Len(log_') /\ Len(future') = Len(relog_')
    BY <1>1, <1>2, <1>12, <1>13, <1>14, <1>15
  <2> QED
    BY <1>13, <1>14, <1>15, <2>1, <2>2 DEF Kept
<1>18. /\ before' \in Seq(Views) /\ before' # <<>>
       /\ before' \o past' = Append(before \o past, View)
  <2>1. before \o past \in Seq(Views)
    BY <1>1, ConcatProperties DEF Earlier
  <2>2. before' \in Seq(Views) /\ before' # <<>>
    BY <1>1, <1>11, <2>1, AppendProperties
  <2>3. before' \o <<>> = before'
    BY <2>2, ConcatEmptySeq
  <2> QED
    BY <1>11, <2>2, <2>3
<1>19. Promised!Redo
  <2>1. Promised!Last(future) = w /\ future' = Promised!Front(future)
    BY <1>7, <1>11 DEF Promised!Last, Promised!Front, Last, Front
  <2>2. View = Promised!View
    BY DEF View, Promised!View
  <2> QED
    BY <1>4, <1>11, <1>18, <2>1, <2>2 DEF Promised!Redo, Promised!GoTo
<1> QED
  BY <1>2, <1>17, <1>18, <1>19 DEF Earlier

(* Every step is one of the document and keeps the history, until an Undo  *)
(* loses it.                                                               *)
LEMMA NextKeeps ==
  ASSUME EditorInv, EditorNext
  PROVE  EditorInv' /\ (lost \/ UndoesAnother \/ Promised!Next)
<1>1. lost \in BOOLEAN /\ (lost \/ (Kept /\ Earlier))
  BY DEF EditorInv
<1>2. CASE lost
  <2>1. lost'
    BY <1>2 DEF EditorNext, Type, ShiftLeft, ShiftRight, Backspace, Perform, Undo, Redo
  <2>2. lost' \in BOOLEAN
    BY <1>1, <1>2 DEF EditorNext, Type, ShiftLeft, ShiftRight, Backspace, Perform, Undo, Redo
  <2> QED
    BY <1>2, <2>1, <2>2 DEF EditorInv
<1>3. CASE ~ lost
  <2>1. lost' \in BOOLEAN
    BY <1>1, <1>3 DEF EditorNext, Type, ShiftLeft, ShiftRight, Backspace, Perform, Undo, Redo
  <2>2. Kept /\ Earlier
    BY <1>1, <1>3
  <2>3. CASE (\E c \in Chars : Type(c)) \/ ShiftLeft \/ ShiftRight \/ Backspace
    BY <1>3, <2>1, <2>2, <2>3, ActionsKeep DEF EditorInv, Promised!Next
  <2>4. CASE Undo
    BY <1>1, <1>3, <2>1, <2>2, <2>4, UndoKeeps DEF EditorInv, Promised!Next
  <2>5. CASE Redo
    BY <1>3, <2>1, <2>2, <2>5, RedoKeeps DEF EditorInv, Promised!Next
  <2> QED
    BY <2>3, <2>4, <2>5 DEF EditorNext
<1> QED
  BY <1>2, <1>3

(* The same for every step, the stuttering ones included.                  *)
LEMMA StepKeeps ==
  EditorInv /\ [EditorNext]_editor_vars
    => EditorInv' /\ [lost \/ UndoesAnother \/ Promised!Next]_(Promised!vars)
<1> SUFFICES ASSUME EditorInv, [EditorNext]_editor_vars
             PROVE  EditorInv' /\ [lost \/ UndoesAnother \/ Promised!Next]_(Promised!vars)
  OBVIOUS
<1>1. CASE EditorNext
  BY <1>1, NextKeeps
<1>2. CASE UNCHANGED editor_vars
  <2>1. /\ buffer_' = buffer_ /\ pos_' = pos_ /\ log_' = log_ /\ relog_' = relog_
        /\ before' = before /\ past' = past /\ future' = future /\ lost' = lost
    BY <1>2 DEF editor_vars, history
  <2>2. UNCHANGED Promised!vars
    BY <2>1 DEF Promised!vars
  <2>3. EditorInv'
    BY <2>1 DEF EditorInv, Kept, Earlier, View, After
  <2> QED
    BY <2>2, <2>3
<1> QED
  BY <1>1, <1>2

(* For every length of texts and logs: up to the first Undo right after a  *)
(* Redo, the text is not longer than its bound, the cursor is in it, and   *)
(* every command in the logs leads between the views of the history.       *)
THEOREM EditorKeepsHistory == EditorSpec => []EditorInv
BY InitKept, StepKeeps, PTL DEF EditorSpec

(* For every length of texts and logs: each operation of the editor is     *)
(* that of the document, until an Undo comes right after a Redo.           *)
THEOREM EditorRefines == EditorSpec => DocumentUntilLost
<1>1. EditorInit => Promised!Init
  <2> SUFFICES ASSUME EditorInit PROVE Promised!Init
    OBVIOUS
  <2>1. <<>> \in Seq(Views)
    OBVIOUS
  <2>2. <<>> \o <<>> = <<>>
    BY <2>1, ConcatEmptySeq
  <2> QED
    BY <2>2 DEF EditorInit, Promised!Init
<1> QED
  BY <1>1, InitKept, StepKeeps, PTL DEF EditorSpec, DocumentUntilLost

-----------------------------------------------------------------------------
(* The JPEG decoder *)

(* A sum over some of three indices.                                       *)
LEMMA SumOfThree ==
  ASSUME NEW fun, NEW S \in SUBSET {1, 2, 3}, \A n \in S : fun[n] \in Int
  PROVE  SumFunctionOnSet(fun, S)
           = (IF 1 \in S THEN fun[1] ELSE 0) + (IF 2 \in S THEN fun[2] ELSE 0)
               + (IF 3 \in S THEN fun[3] ELSE 0)
<1> DEFINE Sum(s) == (IF 1 \in s THEN fun[1] ELSE 0) + (IF 2 \in s THEN fun[2] ELSE 0)
                       + (IF 3 \in s THEN fun[3] ELSE 0)
           Solves(g) == g = [s \in SUBSET S |->
                               IF s = {} THEN 0
                               ELSE LET x == CHOOSE x \in s : TRUE IN fun[x] + g[s \ {x}]]
           iter == CHOOSE g : Solves(g)
<1>1. SumFunctionOnSet(fun, S) = iter[S]
  BY DEF SumFunctionOnSet, FoldFunctionOnSet, MapThenFoldSet
<1>2. \A s \in SUBSET S : \A x \in s : Sum(s) = fun[x] + Sum(s \ {x})
  <2> SUFFICES ASSUME NEW s \in SUBSET S, NEW x \in s PROVE Sum(s) = fun[x] + Sum(s \ {x})
    OBVIOUS
  <2>1. \A n \in s : fun[n] \in Int
    OBVIOUS
  <2>2. CASE x = 1
    BY <2>1, <2>2
  <2>3. CASE x = 2
    BY <2>1, <2>3
  <2>4. CASE x = 3
    BY <2>1, <2>4
  <2> QED
    BY <2>2, <2>3, <2>4
<1>3. Sum({}) = 0
  OBVIOUS
<1>4. Solves([s \in SUBSET S |-> Sum(s)])
  <2> HIDE DEF Sum
  <2> DEFINE g == [s \in SUBSET S |-> Sum(s)]
  <2>1. ASSUME NEW s \in SUBSET S, s # {}
        PROVE  Sum(s) = LET x == CHOOSE x \in s : TRUE IN fun[x] + g[s \ {x}]
    <3>1. PICK x \in s : x = CHOOSE z \in s : TRUE
      BY <2>1
    <3>2. g[s \ {x}] = Sum(s \ {x})
      OBVIOUS
    <3> QED
      BY <3>1, <3>2, <1>2
  <2> QED
    BY <2>1, <1>3
<1>5. Solves(iter)
  BY <1>4
<1> HIDE DEF Sum, iter
<1>6. iter[{}] = Sum({})
  BY <1>5, <1>3
<1>7. ASSUME NEW s \in SUBSET S, s # {}, \A x \in s : iter[s \ {x}] = Sum(s \ {x})
      PROVE  iter[s] = Sum(s)
  <2>1. PICK x \in s : x = CHOOSE z \in s : TRUE
    BY <1>7
  <2>2. iter[s] = fun[x] + iter[s \ {x}]
    BY <2>1, <1>5, <1>7
  <2> QED
    BY <2>2, <1>2, <1>7
<1>8. \A n \in S : iter[{n}] = Sum({n})
  <2> SUFFICES ASSUME NEW n \in S PROVE iter[{n}] = Sum({n})
    OBVIOUS
  <2>1. \A x \in {n} : {n} \ {x} = {}
    OBVIOUS
  <2> QED
    BY <2>1, <1>6, <1>7
<1>9. \A n, m \in S : iter[{n, m}] = Sum({n, m})
  <2> SUFFICES ASSUME NEW n \in S, NEW m \in S PROVE iter[{n, m}] = Sum({n, m})
    OBVIOUS
  <2>1. CASE n = m
    <3>1. {n, m} = {n}
      BY <2>1
    <3> QED
      BY <3>1, <1>8
  <2>2. CASE n # m
    <3>1. {n, m} \ {n} = {m} /\ {n, m} \ {m} = {n}
      BY <2>2
    <3>2. \A x \in {n, m} : iter[{n, m} \ {x}] = Sum({n, m} \ {x})
      BY <3>1, <1>8
    <3> QED
      BY <3>2, <1>7
  <2> QED
    BY <2>1, <2>2
<1>10. CASE S = {1, 2, 3}
  <2>1. S \ {1} = {2, 3} /\ S \ {2} = {1, 3} /\ S \ {3} = {1, 2}
    BY <1>10
  <2>2. \A x \in S : iter[S \ {x}] = Sum(S \ {x})
    BY <2>1, <1>9, <1>10
  <2> QED
    BY <2>2, <1>7, <1>1, <1>10 DEF Sum
<1>11. CASE S # {1, 2, 3}
  <2>1. S = {} \/ \E n, m \in S : S = {n, m}
    <3>1. S = {} \/ S = {1} \/ S = {2} \/ S = {3} \/ S = {1, 2} \/ S = {1, 3} \/ S = {2, 3}
      BY <1>11
    <3> QED
      BY <3>1
  <2>2. iter[S] = Sum(S)
    BY <2>1, <1>6, <1>9
  <2> QED
    BY <2>2, <1>1 DEF Sum
<1> QED
  BY <1>10, <1>11

(* Largest of a set that has a greatest member.                            *)
LEMMA MaxIs ==
  ASSUME NEW S \in SUBSET Int, NEW m \in S, \A x \in S : m >= x
  PROVE  Max(S) = m
<1>1. \A x, y \in Int : x >= y /\ y >= x => x = y
  OBVIOUS
<1> QED
  BY <1>1 DEF Max

(* A size_t is a natural number.                                           *)
LEMMA SizesAreNat ==
  ASSUME NEW n \in Int
  PROVE  ToSize(n) \in Nat /\ ToSize(n) < SizeLimit
<1>1. SizeLimit \in Nat \ {0}
  <2>1. Int16Limit \in Nat \ {0} /\ SizeLimit \in Nat /\ 16 * Int16Limit * Int16Limit =< SizeLimit
    BY SizeAssumption
  <2>2. 16 * Int16Limit * Int16Limit # 0 /\ 16 * Int16Limit * Int16Limit \in Nat
    BY <2>1
  <2> QED
    BY <2>1, <2>2
<1> QED
  BY <1>1 DEF ToSize

(* What fits a size_t is not changed by it.                                *)
LEMMA SizesFit ==
  ASSUME NEW n \in Nat, n =< 15 * Int16Limit * Int16Limit
  PROVE  ToSize(n) = n
<1>1. Int16Limit \in Nat \ {0} /\ SizeLimit \in Nat /\ 16 * Int16Limit * Int16Limit =< SizeLimit
  BY SizeAssumption
<1> DEFINE square == Int16Limit * Int16Limit
<1>2. square \in Nat /\ square > 0
  BY <1>1
<1>3. 15 * Int16Limit * Int16Limit = 15 * square /\ 16 * Int16Limit * Int16Limit = 16 * square
  BY <1>1
<1> HIDE DEF square
<1>4. n < SizeLimit
  BY <1>1, <1>2, <1>3
<1> QED
  BY <1>1, <1>4 DEF ToSize

LEMMA SideFits ==
  ASSUME NEW side \in 0 .. Int16Limit - 1
  PROVE  ToSize(side) = side /\ side \in Nat
<1>1. Int16Limit \in Nat \ {0}
  BY SizeAssumption
<1> DEFINE square == Int16Limit * Int16Limit
<1>2. PICK k \in Nat : Int16Limit = k + 1
  <2>1. Int16Limit - 1 \in Nat /\ Int16Limit = (Int16Limit - 1) + 1
    BY <1>1
  <2> QED
    BY <2>1
<1>3. square = k * Int16Limit + Int16Limit /\ k * Int16Limit \in Nat
  BY <1>1, <1>2
<1>4. 15 * Int16Limit * Int16Limit = 15 * square
  BY <1>1
<1> HIDE DEF square
<1>5. side \in Nat /\ side =< 15 * square
  <2>1. square \in Nat /\ Int16Limit =< square
    BY <1>1, <1>3
  <2> QED
    BY <1>1, <2>1
<1> QED
  BY <1>4, <1>5, SizesFit

(* A side in MCUs is the least number that holds the image.                *)
LEMMA McusAreLeast ==
  ASSUME NEW side \in 0 .. Int16Limit - 1, NEW factor \in {1, 2}
  PROVE  InMcus(side, factor) = LeastMcus(side, factor) /\ InMcus(side, factor) \in 0 .. side
<1> DEFINE n == InMcus(side, factor)
           Least(m) == m * 8 * factor >= side /\ (m - 1) * 8 * factor < side
<1>1. ToSize(side) = side /\ side \in Nat
  BY SideFits
<1>2. n = side \div (factor * 8) + (IF side % (factor * 8) # 0 THEN 1 ELSE 0)
  BY <1>1 DEF InMcus
<1>3. n \in 0 .. side /\ Least(n)
  <2> HIDE DEF n
  <2>1. CASE factor = 1
    BY <1>1, <1>2, <2>1
  <2>2. CASE factor = 2
    BY <1>1, <1>2, <2>2
  <2> QED
    BY <2>1, <2>2
<1>4. \A m, k \in 0 .. side : Least(m) /\ Least(k) => m = k
  <2>1. CASE factor = 1
    BY <1>1, <2>1
  <2>2. CASE factor = 2
    BY <1>1, <2>2
  <2> QED
    BY <2>1, <2>2
<1>5. LeastMcus(side, factor) = CHOOSE m \in 0 .. side : Least(m)
  BY DEF LeastMcus
<1> HIDE DEF n, Least
<1> QED
  BY <1>3, <1>4, <1>5 DEF n

LEMMA McusAreNat ==
  ASSUME NEW side \in Int, NEW factor \in {1, 2}
  PROVE  InMcus(side, factor) \in Nat
<1> DEFINE n == ToSize(side)
<1>1. n \in Nat /\ InMcus(side, factor) = n \div (factor * 8) + (IF n % (factor * 8) # 0 THEN 1 ELSE 0)
  BY SizesAreNat DEF InMcus
<1> HIDE DEF n
<1>2. CASE factor = 1
  BY <1>1, <1>2
<1>3. CASE factor = 2
  BY <1>1, <1>3
<1> QED
  BY <1>2, <1>3

(* The number of blocks does not wrap where the sides are not negative.    *)
LEMMA BlocksFit ==
  ASSUME NEW W \in 0 .. Int16Limit - 1, NEW H \in 0 .. Int16Limit - 1, NEW B \in 0 .. 12
  PROVE  ToSize(ToSize(W * H) * B) = W * H * B
<1>1. Int16Limit \in Nat \ {0} /\ W \in Nat /\ H \in Nat /\ B \in Nat
  BY SizeAssumption
<1> DEFINE square == Int16Limit * Int16Limit
           area == W * H
           restW == Int16Limit - W
           restH == Int16Limit - H
<1>2. restW \in Nat /\ restH \in Nat
  BY <1>1
<1>3. square = area + W * restH + restW * Int16Limit
  BY <1>1
<1>4. W * restH \in Nat /\ restW * Int16Limit \in Nat /\ area \in Nat /\ square \in Nat
  BY <1>1, <1>2
<1>5. 15 * Int16Limit * Int16Limit = 15 * square
  BY <1>1
<1> HIDE DEF square, area, restW, restH
<1>6. area =< square
  <2> DEFINE a == W * restH
             b == restW * Int16Limit
  <2>1. square = area + a + b /\ a \in Nat /\ b \in Nat
    BY <1>3, <1>4
  <2> HIDE DEF a, b
  <2> QED
    BY <1>4, <2>1
<1>7. area * B \in Nat /\ area * B =< 12 * square
  <2>1. \A n \in 0 .. 12 : area * n \in Nat /\ area * n =< 12 * square
    BY <1>4, <1>6
  <2> QED
    BY <2>1
<1>8. ToSize(area) = area
  <2>1. area =< 15 * square
    BY <1>4, <1>6
  <2> QED
    BY <1>4, <1>5, <2>1, SizesFit
<1> DEFINE all == area * B
<1>9. all \in Nat /\ all =< 15 * Int16Limit * Int16Limit
  <2> HIDE DEF all
  <2>1. all \in Nat /\ all =< 12 * square
    BY <1>7 DEF all
  <2> QED
    BY <1>4, <1>5, <2>1
<1>10. ToSize(all) = all
  <2> HIDE DEF all
  <2> QED
    BY <1>9, SizesFit
<1> QED
  BY <1>8, <1>10 DEF area

-----------------------------------------------------------------------------
(* The layouts of the frames that ReadStats takes.                         *)
Accepted(image) ==
  /\ DOMAIN image.components \in {{1}, {1, 2}, {1, 2, 3}}
  /\ \A c \in DOMAIN image.components :
       image.components[c].h \in {1, 2} /\ image.components[c].v \in {1, 2}

Widest(image) == Max({image.components[c].h : c \in DOMAIN image.components})
Tallest(image) == Max({image.components[c].v : c \in DOMAIN image.components})
BlocksIn(components) == [c \in DOMAIN components |-> components[c].h * components[c].v]

(* What ReadStats makes of the frame of an image.                          *)
StatsRead(stats, image) ==
  /\ stats.width_ = Signed(image.width) /\ stats.height_ = Signed(image.height)
  /\ stats.h_max_ = Widest(image) /\ stats.v_max_ = Tallest(image)
  /\ stats.mcu_block_cnt_ = SumFunction(BlocksIn(image.components))
  /\ stats.img_width_in_mcu_ = InMcus(Signed(image.width), Widest(image))
  /\ stats.img_block_cnt_
       = ToSize(ToSize(InMcus(Signed(image.width), Widest(image)) * InMcus(Signed(image.height), Tallest(image)))
                  * SumFunction(BlocksIn(image.components)))
  /\ \A c \in DOMAIN image.components :
       /\ stats.channels_[c].h = image.components[c].h
       /\ stats.channels_[c].v = image.components[c].v

(* The largest factors are those of a component.                           *)
LEMMA FactorsBound ==
  ASSUME NEW image, Accepted(image)
  PROVE  /\ Widest(image) \in {1, 2} /\ Tallest(image) \in {1, 2}
         /\ \A c \in DOMAIN image.components :
              image.components[c].h =< Widest(image) /\ image.components[c].v =< Tallest(image)
         /\ \E c \in DOMAIN image.components : image.components[c].h = Widest(image)
         /\ \E c \in DOMAIN image.components : image.components[c].v = Tallest(image)
<1>1. ASSUME NEW S \in SUBSET {1, 2}, S # {}
      PROVE  Max(S) \in S /\ \A x \in S : x =< Max(S)
  <2>1. \E m \in S : \A x \in S : m >= x
    <3>1. CASE 2 \in S
      BY <3>1
    <3>2. CASE 2 \notin S
      <4>1. S = {1}
        BY <1>1, <3>2
      <4> QED
        BY <4>1
    <3> QED
      BY <3>1, <3>2
  <2>2. PICK m \in S : \A x \in S : m >= x
    BY <2>1
  <2>3. Max(S) = m
    <3>1. S \in SUBSET Int
      OBVIOUS
    <3> QED
      BY <2>2, <3>1, MaxIs
  <2>4. \A x \in S : x =< m
    BY <2>2
  <2> QED
    BY <2>3, <2>4
<1> DEFINE D == DOMAIN image.components
           H == {image.components[c].h : c \in D}
           V == {image.components[c].v : c \in D}
<1>2. 1 \in D /\ \A c \in D : image.components[c].h \in {1, 2} /\ image.components[c].v \in {1, 2}
  BY DEF Accepted
<1>3. H \in SUBSET {1, 2} /\ V \in SUBSET {1, 2} /\ H # {} /\ V # {}
  BY <1>2
<1>4. \A c \in D : image.components[c].h \in H /\ image.components[c].v \in V
  OBVIOUS
<1>5. (\A x \in H : \E c \in D : x = image.components[c].h) /\ (\A x \in V : \E c \in D : x = image.components[c].v)
  OBVIOUS
<1>6. Widest(image) = Max(H) /\ Tallest(image) = Max(V)
  BY DEF Widest, Tallest
<1> HIDE DEF H, V
<1>7. /\ Max(H) \in H /\ \A x \in H : x =< Max(H)
      /\ Max(V) \in V /\ \A x \in V : x =< Max(V)
  BY <1>1, <1>3
<1> QED
  BY <1>3, <1>4, <1>5, <1>6, <1>7

(* Of a supported layout the largest factors are those of the luminance.   *)
LEMMA LargestFactors ==
  ASSUME NEW image, LayoutSupported(image)
  PROVE  /\ Accepted(image)
         /\ Widest(image) = image.components[1].h
         /\ Tallest(image) = image.components[1].v
<1>1. Accepted(image)
  BY DEF LayoutSupported, Accepted
<1>2. \A c \in DOMAIN image.components :
        /\ image.components[c].h \in {1, 2} /\ image.components[c].v \in {1, 2}
        /\ c # 1 => image.components[c].h = 1 /\ image.components[c].v = 1
  BY DEF LayoutSupported
<1>3. 1 \in DOMAIN image.components
  BY DEF LayoutSupported
<1>4. /\ Widest(image) \in {1, 2} /\ Tallest(image) \in {1, 2}
      /\ image.components[1].h =< Widest(image) /\ image.components[1].v =< Tallest(image)
      /\ \E c \in DOMAIN image.components : image.components[c].h = Widest(image)
      /\ \E c \in DOMAIN image.components : image.components[c].v = Tallest(image)
  BY <1>1, <1>3, FactorsBound
<1>5. image.components[1].h \in {1, 2} /\ image.components[1].v \in {1, 2}
  BY <1>2, <1>3
<1>6. Widest(image) = 2 => image.components[1].h = 2
  BY <1>2, <1>4
<1>7. Tallest(image) = 2 => image.components[1].v = 2
  BY <1>2, <1>4
<1> QED
  BY <1>1, <1>4, <1>5, <1>6, <1>7

(* How many blocks of an MCU belong to a set of components.                *)
LEMMA BlocksSummed ==
  ASSUME NEW image, Accepted(image), NEW S \in SUBSET DOMAIN image.components
  PROVE  /\ SumFunctionOnSet(BlocksIn(image.components), S)
              = (IF 1 \in S THEN image.components[1].h * image.components[1].v ELSE 0)
                  + (IF 2 \in S THEN image.components[2].h * image.components[2].v ELSE 0)
                  + (IF 3 \in S THEN image.components[3].h * image.components[3].v ELSE 0)
         /\ SumFunctionOnSet(BlocksIn(image.components), S) \in 0 .. 12
         /\ 1 \in S => SumFunctionOnSet(BlocksIn(image.components), S) > 0
<1> DEFINE B == BlocksIn(image.components)
<1>1. S \in SUBSET {1, 2, 3}
  BY DEF Accepted
<1>2. \A n \in S : B[n] = image.components[n].h * image.components[n].v /\ B[n] \in 1 .. 4
  <2> SUFFICES ASSUME NEW n \in S
               PROVE  B[n] = image.components[n].h * image.components[n].v /\ B[n] \in 1 .. 4
    OBVIOUS
  <2>1. image.components[n].h \in {1, 2} /\ image.components[n].v \in {1, 2}
    BY DEF Accepted
  <2> QED
    BY <2>1 DEF BlocksIn
<1> HIDE DEF B
<1>3. \A n \in S : B[n] \in Int
  BY <1>2
<1>4. SumFunctionOnSet(B, S)
        = (IF 1 \in S THEN B[1] ELSE 0) + (IF 2 \in S THEN B[2] ELSE 0) + (IF 3 \in S THEN B[3] ELSE 0)
  BY <1>1, <1>3, SumOfThree
<1>5. SumFunctionOnSet(B, S) \in 0 .. 12 /\ (1 \in S => SumFunctionOnSet(B, S) > 0)
  BY <1>2, <1>4
<1>6. /\ 1 \in S => B[1] = image.components[1].h * image.components[1].v
      /\ 2 \in S => B[2] = image.components[2].h * image.components[2].v
      /\ 3 \in S => B[3] = image.components[3].h * image.components[3].v
  BY <1>2
<1>7. SumFunctionOnSet(B, S)
        = (IF 1 \in S THEN image.components[1].h * image.components[1].v ELSE 0)
            + (IF 2 \in S THEN image.components[2].h * image.components[2].v ELSE 0)
            + (IF 3 \in S THEN image.components[3].h * image.components[3].v ELSE 0)
  BY <1>4, <1>6
<1> QED
  BY <1>5, <1>7 DEF B

(* An MCU has from one to twelve blocks.                                   *)
LEMMA McuBlocks ==
  ASSUME NEW image, Accepted(image)
  PROVE  SumFunction(BlocksIn(image.components)) \in 1 .. 12
<1>1. DOMAIN BlocksIn(image.components) = DOMAIN image.components /\ 1 \in DOMAIN image.components
  BY DEF BlocksIn, Accepted
<1> DEFINE n == SumFunctionOnSet(BlocksIn(image.components), DOMAIN image.components)
<1>2. n \in 0 .. 12 /\ n > 0
  BY <1>1, BlocksSummed
<1>3. SumFunction(BlocksIn(image.components)) = n
  BY <1>1 DEF SumFunction
<1> HIDE DEF n
<1> QED
  BY <1>2, <1>3

-----------------------------------------------------------------------------
(* The sides that an int16_t holds.                                        *)
SidesFit(image) == image.width \in 0 .. Int16Limit - 1 /\ image.height \in 0 .. Int16Limit - 1

(* A side that is not negative is the one in the file.                     *)
LEMMA SidesRead ==
  ASSUME NEW image, NEW stats, StatsRead(stats, image),
         image.width \in 0 .. 2 * Int16Limit - 1, image.height \in 0 .. 2 * Int16Limit - 1,
         stats.width_ >= 0, stats.height_ >= 0
  PROVE  SidesFit(image) /\ stats.width_ = image.width /\ stats.height_ = image.height
<1>1. Int16Limit \in Nat \ {0}
  BY SizeAssumption
<1>2. stats.width_ = Signed(image.width) /\ stats.height_ = Signed(image.height)
  BY DEF StatsRead
<1>3. ASSUME NEW side \in 0 .. 2 * Int16Limit - 1, Signed(side) >= 0
      PROVE  side \in 0 .. Int16Limit - 1 /\ Signed(side) = side
  BY <1>1, <1>3 DEF Signed
<1> QED
  BY <1>2, <1>3 DEF SidesFit

(* And then the blocks are as many as the MCUs hold.                       *)
LEMMA BlocksRead ==
  ASSUME NEW image, NEW stats, StatsRead(stats, image), Accepted(image), SidesFit(image)
  PROVE  LET W == InMcus(image.width, Widest(image))
             H == InMcus(image.height, Tallest(image)) IN
         /\ stats.img_width_in_mcu_ = W
         /\ stats.img_block_cnt_ = W * H * stats.mcu_block_cnt_
         /\ W \in Nat /\ H \in Nat
         /\ stats.mcu_block_cnt_ \in 1 .. 12
<1> DEFINE W == InMcus(image.width, Widest(image))
           H == InMcus(image.height, Tallest(image))
           B == SumFunction(BlocksIn(image.components))
<1>1. Int16Limit \in Nat \ {0}
  BY SizeAssumption
<1>2. Signed(image.width) = image.width /\ Signed(image.height) = image.height
  BY <1>1 DEF Signed, SidesFit
<1>3. /\ stats.img_width_in_mcu_ = W /\ stats.mcu_block_cnt_ = B
      /\ stats.img_block_cnt_ = ToSize(ToSize(W * H) * B)
  BY <1>2 DEF StatsRead
<1>4. B \in 1 .. 12
  BY McuBlocks
<1>5. W \in 0 .. image.width /\ H \in 0 .. image.height
  <2>1. Widest(image) \in {1, 2} /\ Tallest(image) \in {1, 2}
    BY FactorsBound
  <2> QED
    BY <2>1, McusAreLeast DEF SidesFit
<1> HIDE DEF W, H, B
<1>6. W \in 0 .. Int16Limit - 1 /\ H \in 0 .. Int16Limit - 1 /\ B \in 0 .. 12
  BY <1>1, <1>4, <1>5 DEF SidesFit
<1>7. stats.img_block_cnt_ = W * H * B
  BY <1>3, <1>6, BlocksFit
<1> QED
  BY <1>3, <1>4, <1>6, <1>7 DEF W, H

(* Where Stats describe the image, ConstructImage reads the samples that   *)
(* belong to a pixel.                                                      *)
LEMMA SamplesAreFound ==
  ASSUME LayoutSupported(file.image), StatsRead(stats_, file.image), SidesFit(file.image),
         NEW c \in DOMAIN file.image.components, NEW i \in Nat, NEW j \in Nat
  PROVE  PixelSource(c, i, j) = SampleOf(file.image, c, i, j)
<1> DEFINE image == file.image
           components == image.components
           h == components[1].h
           v == components[1].v
           mcus == InMcus(image.width, h)
           blocks == SumFunction(BlocksIn(components))
           mcu == (i \div (v * 8)) * mcus + j \div (h * 8)
<1>1. c \in 1 .. 3 /\ 1 \in DOMAIN components /\ h \in {1, 2} /\ v \in {1, 2}
  BY DEF LayoutSupported
<1>2. \A d \in DOMAIN components : d # 1 => components[d].h = 1 /\ components[d].v = 1
  BY DEF LayoutSupported
<1>3. /\ Accepted(image)
      /\ Max({components[d].h : d \in DOMAIN components}) = h
      /\ Max({components[d].v : d \in DOMAIN components}) = v
  BY LargestFactors DEF Widest, Tallest
<1>4. LeastMcus(image.width, h) = mcus /\ mcus \in Nat
  <2>1. image.width \in 0 .. Int16Limit - 1
    BY DEF SidesFit
  <2>2. LeastMcus(image.width, h) = mcus
    BY <2>1, <1>1, McusAreLeast
  <2>3. image.width \in Int
    BY <2>1, SizeAssumption
  <2> QED
    BY <2>2, <2>3, <1>1, McusAreNat
<1>5. ASSUME c # 1
      PROVE  SumFunctionOnSet(Blocks, 1 .. c - 1) = SumFunctionOnSet(BlocksIn(components), 1 .. c - 1)
  <2>1. (1 .. c - 1) \in SUBSET {1, 2, 3}
    BY <1>1
  <2>2. \A d \in 1 .. c - 1 : d \in DOMAIN components
    BY <1>1 DEF LayoutSupported
  <2>3. \A d \in 1 .. c - 1 : Blocks[d] = BlocksIn(components)[d] /\ Blocks[d] \in Int
    <3> SUFFICES ASSUME NEW d \in 1 .. c - 1
                 PROVE  Blocks[d] = BlocksIn(components)[d] /\ Blocks[d] \in Int
      OBVIOUS
    <3>1. d \in DOMAIN components /\ d \in Channels
      BY <2>2, <1>1 DEF Channels
    <3>2. stats_.channels_[d].h = components[d].h /\ stats_.channels_[d].v = components[d].v
      BY <3>1 DEF StatsRead
    <3>3. components[d].h \in {1, 2} /\ components[d].v \in {1, 2}
      BY <3>1 DEF LayoutSupported
    <3> QED
      BY <3>1, <3>2, <3>3 DEF Blocks, BlocksIn
  <2> HIDE DEF components
  <2>4. \A d \in 1 .. c - 1 : BlocksIn(components)[d] \in Int
    BY <2>3
  <2>5. SumFunctionOnSet(Blocks, 1 .. c - 1)
          = (IF 1 \in 1 .. c - 1 THEN Blocks[1] ELSE 0) + (IF 2 \in 1 .. c - 1 THEN Blocks[2] ELSE 0)
              + (IF 3 \in 1 .. c - 1 THEN Blocks[3] ELSE 0)
    BY <2>1, <2>3, SumOfThree
  <2> DEFINE B == BlocksIn(components)
  <2>6. SumFunctionOnSet(B, 1 .. c - 1)
          = (IF 1 \in 1 .. c - 1 THEN B[1] ELSE 0) + (IF 2 \in 1 .. c - 1 THEN B[2] ELSE 0)
              + (IF 3 \in 1 .. c - 1 THEN B[3] ELSE 0)
    <3> HIDE DEF B
    <3> QED
      BY <2>1, <2>4, SumOfThree DEF B
  <2> QED
    BY <2>3, <2>5, <2>6
<1>6. /\ stats_.v_max_ = v /\ stats_.h_max_ = h
      /\ stats_.img_width_in_mcu_ = mcus /\ stats_.mcu_block_cnt_ = blocks
      /\ \A d \in DOMAIN components :
           stats_.channels_[d].h = components[d].h /\ stats_.channels_[d].v = components[d].v
  <2>1. Widest(image) = h /\ Tallest(image) = v
    BY LargestFactors
  <2>2. stats_.img_width_in_mcu_ = InMcus(image.width, Widest(image))
    BY <1>3, BlocksRead
  <2> QED
    BY <2>1, <2>2 DEF StatsRead
<1> DEFINE first == SumFunctionOnSet(BlocksIn(components), 1 .. c - 1)
           y == (i * components[c].v) \div v
           x == (j * components[c].h) \div h
           inMcu == ((y \div 8) % components[c].v) * components[c].h + ((x \div 8) % components[c].h)
<1>7. SampleOf(image, c, i, j)
        = [block |-> ((y \div (8 * components[c].v)) * mcus + x \div (8 * components[c].h)) * blocks
                       + first + inMcu + 1,
           sample |-> ((y % 8) * 8) + (x % 8)]
  <2> DEFINE factors == Sampling(image)
  <2>1. /\ DOMAIN factors = DOMAIN components
        /\ \A d \in DOMAIN components : factors[d].h = components[d].h /\ factors[d].v = components[d].v
    <3>1. CASE DOMAIN components = {1}
      <4>1. factors = <<[h |-> 1, v |-> 1]>>
        BY <3>1 DEF Sampling
      <4>2. DOMAIN factors = {1} /\ factors[1].h = 1 /\ factors[1].v = 1
        BY <4>1
      <4>3. components[1].h = 1 /\ components[1].v = 1
        BY <3>1 DEF LayoutSupported
      <4> QED
        BY <3>1, <4>2, <4>3
    <3>2. CASE DOMAIN components # {1}
      BY <3>2 DEF Sampling
    <3> QED
      BY <3>1, <3>2
  <2> HIDE DEF factors
  <2>2. /\ {factors[d].v : d \in DOMAIN factors} = {components[d].v : d \in DOMAIN components}
        /\ {factors[d].h : d \in DOMAIN factors} = {components[d].h : d \in DOMAIN components}
        /\ [d \in DOMAIN factors |-> factors[d].h * factors[d].v]
             = [d \in DOMAIN components |-> components[d].h * components[d].v]
    BY <2>1
  <2>3. /\ Max({factors[d].v : d \in DOMAIN factors}) = v
        /\ Max({factors[d].h : d \in DOMAIN factors}) = h
        /\ [d \in DOMAIN factors |-> factors[d].h * factors[d].v] = BlocksIn(components)
        /\ factors[c].h = components[c].h /\ factors[c].v = components[c].v
    BY <1>3, <2>1, <2>2 DEF BlocksIn
  <2> DEFINE yy == (i * factors[c].v) \div Max({factors[d].v : d \in DOMAIN factors})
             xx == (j * factors[c].h) \div Max({factors[d].h : d \in DOMAIN factors})
             bb == [d \in DOMAIN factors |-> factors[d].h * factors[d].v]
             mm == (yy \div (8 * factors[c].v))
                      * LeastMcus(image.width, Max({factors[d].h : d \in DOMAIN factors}))
                    + xx \div (8 * factors[c].h)
             oo == ((yy \div 8) % factors[c].v) * factors[c].h + ((xx \div 8) % factors[c].h)
  <2>4. SampleOf(image, c, i, j)
          = [block |-> mm * SumFunction(bb) + SumFunctionOnSet(bb, 1 .. c - 1) + oo + 1,
             sample |-> ((yy % 8) * 8) + (xx % 8)]
    BY DEF SampleOf, factors
  <2>5. yy = y /\ xx = x
    BY <2>3
  <2>6. oo = inMcu
    BY <2>3, <2>5
  <2>7. mm = (y \div (8 * components[c].v)) * mcus + x \div (8 * components[c].h)
    BY <2>3, <2>5, <1>4
  <2>8. bb = BlocksIn(components)
    BY <2>3
  <2> HIDE DEF yy, xx, bb, mm, oo, y, x, inMcu, mcus
  <2> QED
    BY <2>4, <2>5, <2>6, <2>7, <2>8
<1> DEFINE sum(S) == SumFunctionOnSet(BlocksIn(components), S)
<1>8. \A S \in SUBSET DOMAIN components : sum(S) \in Int
  BY <1>3, BlocksSummed
<1>9. blocks \in Int /\ first \in Int
  <2>1. (1 .. c - 1) \in SUBSET DOMAIN components
    BY DEF LayoutSupported
  <2>2. DOMAIN BlocksIn(components) = DOMAIN components
    BY DEF BlocksIn
  <2> QED
    BY <2>1, <2>2, <1>8 DEF SumFunction
<1>10. mcu \in Int
  <2>1. i \div (v * 8) \in Int /\ j \div (h * 8) \in Int
    BY <1>1
  <2> HIDE DEF mcus, h, v
  <2> QED
    BY <2>1, <1>4
<1>11. inMcu \in Int
  <2>1. y \in Int /\ x \in Int
    BY <1>1, <1>2
  <2>2. components[c].h \in {1, 2} /\ components[c].v \in {1, 2}
    BY <1>1, <1>2
  <2> QED
    BY <2>1, <2>2
<1>12. CASE c = 1
  <2>1. y = i /\ x = j
    BY <1>12, <1>1
  <2>2. PixelSource(c, i, j)
          = [block |-> mcu * blocks + (((i \div 8) % v) * h + ((j \div 8) % h)) + 1,
             sample |-> (((i \div (v \div v)) % 8) * 8) + ((j \div (h \div h)) % 8)]
    BY <1>12, <1>6, <1>1 DEF PixelSource, Offset
  <2>3. first = 0
    <3>1. (1 .. c - 1) = {}
      BY <1>12
    <3> DEFINE B == BlocksIn(components)
    <3> HIDE DEF B
    <3>2. SumFunctionOnSet(B, {}) = 0
      BY SumOfThree
    <3> QED
      BY <3>1, <3>2 DEF B
  <2>4. v \div v = 1 /\ h \div h = 1 /\ i \div 1 = i /\ j \div 1 = j
    BY <1>1
  <2>5. (y \div (8 * components[c].v)) * mcus + x \div (8 * components[c].h) = mcu
    <3>1. 8 * components[c].v = v * 8 /\ 8 * components[c].h = h * 8
      BY <1>12, <1>1
    <3> HIDE DEF x, y, v, h, mcus
    <3> QED
      BY <2>1, <3>1
  <2>6. inMcu = ((i \div 8) % v) * h + ((j \div 8) % h)
    BY <2>1, <1>12
  <2> HIDE DEF inMcu, first, mcu, y, x, blocks, mcus
  <2> QED
    <3> DEFINE o == ((i \div 8) % v) * h + ((j \div 8) % h)
    <3>1. PixelSource(c, i, j) = [block |-> mcu * blocks + o + 1, sample |-> ((i % 8) * 8) + (j % 8)]
      BY <2>2, <2>4
    <3>2. SampleOf(image, c, i, j)
            = [block |-> mcu * blocks + first + inMcu + 1, sample |-> ((i % 8) * 8) + (j % 8)]
      BY <1>7, <2>1, <2>5
    <3>3. inMcu = o
      BY <2>6
    <3> HIDE DEF o
    <3> DEFINE b == mcu * blocks
    <3>4. b \in Int
      BY <1>9, <1>10
    <3> HIDE DEF b
    <3>5. b + first + inMcu + 1 = b + o + 1
      BY <1>11, <2>3, <3>3, <3>4
    <3> QED
      BY <3>1, <3>2, <3>5 DEF b
<1>13. CASE c # 1
  <2>1. 2 \in DOMAIN components /\ components[2].h = 1 /\ components[2].v = 1
    BY <1>13, <1>2 DEF LayoutSupported
  <2>2. components[c].h = 1 /\ components[c].v = 1
    BY <1>13, <1>2
  <2>3. PixelSource(c, i, j)
          = [block |-> mcu * blocks + first + 1,
             sample |-> (((i \div (v \div 1)) % 8) * 8) + ((j \div (h \div 1)) % 8)]
    BY <1>13, <1>5, <1>6, <2>1 DEF PixelSource, Offset
  <2>4. v \div 1 = v /\ h \div 1 = h /\ y = i \div v /\ x = j \div h
    <3>1. i * components[c].v = i /\ j * components[c].h = j
      BY <1>1, <2>2
    <3>2. v \div 1 = v /\ h \div 1 = h
      BY <1>1
    <3> HIDE DEF v, h
    <3> QED
      BY <3>1, <3>2
  <2>5. (i \div v) \div 8 = i \div (v * 8) /\ (j \div h) \div 8 = j \div (h * 8)
    <3>1. i \in Nat /\ j \in Nat /\ v \in {1, 2} /\ h \in {1, 2}
      BY <1>1
    <3> HIDE DEF v, h
    <3>2. ASSUME NEW m \in Nat
          PROVE  (m \div 1) \div 8 = m \div (1 * 8) /\ (m \div 2) \div 8 = m \div (2 * 8)
      OBVIOUS
    <3>3. (i \div v) \div 8 = i \div (v * 8)
      <4>1. CASE v = 1
        BY <3>1, <3>2, <4>1
      <4>2. CASE v = 2
        BY <3>1, <3>2, <4>2
      <4> QED
        BY <3>1, <4>1, <4>2
    <3>4. (j \div h) \div 8 = j \div (h * 8)
      <4>1. CASE h = 1
        BY <3>1, <3>2, <4>1
      <4>2. CASE h = 2
        BY <3>1, <3>2, <4>2
      <4> QED
        BY <3>1, <4>1, <4>2
    <3> QED
      BY <3>3, <3>4
  <2>6. (y \div (8 * components[c].v)) * mcus + x \div (8 * components[c].h) = mcu
    BY <2>2, <2>4, <2>5
  <2>7. inMcu = 0
    <3>1. y \in Int /\ x \in Int
      BY <2>4, <1>1
    <3> QED
      BY <2>2, <3>1
  <2> HIDE DEF inMcu, first, mcu, y, x, blocks, mcus
  <2> QED
    <3>1. PixelSource(c, i, j)
            = [block |-> mcu * blocks + first + 1, sample |-> ((y % 8) * 8) + (x % 8)]
      BY <2>3, <2>4
    <3>2. SampleOf(image, c, i, j)
            = [block |-> mcu * blocks + first + inMcu + 1, sample |-> ((y % 8) * 8) + (x % 8)]
      BY <1>7, <2>6
    <3> DEFINE b == mcu * blocks
    <3>3. b \in Int
      BY <1>9, <1>10
    <3> HIDE DEF b
    <3>4. b + first + inMcu + 1 = b + first + 1
      BY <1>9, <2>7, <3>3
    <3> QED
      BY <3>1, <3>2, <3>4 DEF b
<1> QED
  BY <1>12, <1>13

-----------------------------------------------------------------------------
(* Everything that a step of the scan or of ConstructImage relies on.      *)
IsSequence(s) == \E S : s \in Seq(S)

Fields == {"channels_", "width_", "height_", "h_max_", "v_max_", "mcu_block_cnt_",
           "img_width_in_mcu_", "img_block_cnt_"}

StatsSound ==
  /\ DOMAIN stats_ = Fields
  /\ DOMAIN stats_.channels_ = Channels
  /\ \A c \in Channels : DOMAIN stats_.channels_[c] = {"h", "v", "q", "dc", "ac"}
  /\ ~ was_in_sof => \A c \in Channels : stats_.channels_[c] = NoChannel
  /\ was_in_sof =>
       /\ Accepted(file.image) /\ StatsRead(stats_, file.image)
       /\ stats_.img_block_cnt_ \in Nat

ScanSound ==
  /\ phase \in {"header", "symbol", "bits", "end", "done", "failed"}
  /\ phase \in {"symbol", "bits", "end", "done"} =>
       was_in_sof /\ CheckFields(stats_.channels_)
  /\ IsSequence(output)
  /\ phase = "header" => output = <<>>
  /\ phase \in {"symbol", "bits"} => Len(output) < stats_.img_block_cnt_
  /\ phase \in {"end", "done"} => Len(output) = stats_.img_block_cnt_
  /\ phase = "done" => FitsImage

DecoderInv ==
  /\ file \in Files
  /\ was_in_sof \in BOOLEAN
  /\ read \in Nat
  /\ StatsSound
  /\ ScanSound

(* The invariant holds before anything is read.                            *)
LEMMA DecoderInitInv == DecoderInit => DecoderInv
<1> SUFFICES ASSUME DecoderInit PROVE DecoderInv
  OBVIOUS
<1>1. StatsSound
  BY DEF DecoderInit, StatsSound, Fields, NoChannel
<1>2. IsSequence(<<>>)
  BY DEF IsSequence
<1>3. ScanSound
  BY <1>2 DEF DecoderInit, ScanSound
<1> QED
  BY <1>1, <1>3 DEF DecoderInit, DecoderInv

(* The frame of an image gives the fields of Stats.                        *)
LEMMA FrameDescribes ==
  ASSUME NEW image, Accepted(image), NEW segment, Describes(segment, image),
         image.width \in 0 .. 2 * Int16Limit - 1, image.height \in 0 .. 2 * Int16Limit - 1,
         DOMAIN stats_.channels_ = Channels,
         \A c \in Channels : stats_.channels_[c] = NoChannel
  PROVE  LET stats == StatsOf(segment) IN
         /\ DOMAIN stats = Fields
         /\ DOMAIN stats.channels_ = Channels
         /\ \A c \in Channels : DOMAIN stats.channels_[c] = {"h", "v", "q", "dc", "ac"}
         /\ StatsRead(stats, image)
         /\ stats.img_block_cnt_ \in Nat
<1> DEFINE D == DOMAIN image.components
           stats == StatsOf(segment)
           Declared(id) == {c \in DOMAIN segment.components : segment.components[c].id = id}
<1>1. D \subseteq Channels /\ 1 \in D /\ DOMAIN segment.components = D
  BY DEF Accepted, Describes, Channels
<1>2. \A c \in D : /\ segment.components[c].id = c
                    /\ segment.components[c].h = image.components[c].h
                    /\ segment.components[c].v = image.components[c].v
  BY DEF Describes
<1>3. {segment.components[c].h : c \in DOMAIN segment.components} = {image.components[c].h : c \in D}
      /\ {segment.components[c].v : c \in DOMAIN segment.components} = {image.components[c].v : c \in D}
  BY <1>1, <1>2
<1>4. /\ Max({segment.components[c].h : c \in DOMAIN segment.components}) = Widest(image)
      /\ Max({segment.components[c].v : c \in DOMAIN segment.components}) = Tallest(image)
  BY <1>3 DEF Widest, Tallest
<1>5. [c \in DOMAIN segment.components |-> segment.components[c].h * segment.components[c].v]
        = BlocksIn(image.components)
  BY <1>1, <1>2 DEF BlocksIn
<1>6. \A c \in Channels : Declared(c) = IF c \in D THEN {c} ELSE {}
  BY <1>1, <1>2
<1>7. \A c \in Channels : Max({c}) = c
  BY DEF Max, Channels
<1>8. \A c \in Channels :
        stats.channels_[c] = IF c \in D
                             THEN [h |-> segment.components[c].h, v |-> segment.components[c].v,
                                   q |-> segment.components[c].q, dc |-> 0, ac |-> 0]
                             ELSE NoChannel
  <2> SUFFICES ASSUME NEW c \in Channels
               PROVE  stats.channels_[c]
                        = IF c \in D
                          THEN [h |-> segment.components[c].h, v |-> segment.components[c].v,
                                q |-> segment.components[c].q, dc |-> 0, ac |-> 0]
                          ELSE NoChannel
    OBVIOUS
  <2>1. stats.channels_[c]
          = IF Declared(c) = {} THEN stats_.channels_[c]
            ELSE LET d == segment.components[Max(Declared(c))] IN
                 [h |-> d.h, v |-> d.v, q |-> d.q, dc |-> 0, ac |-> 0]
    BY DEF StatsOf
  <2> HIDE DEF stats, Declared
  <2>2. CASE c \in D
    <3>1. Declared(c) = {c}
      BY <1>6, <2>2
    <3>2. Max(Declared(c)) = c
      BY <3>1, <1>7
    <3> QED
      BY <2>1, <2>2, <3>1, <3>2
  <2>3. CASE c \notin D
    <3>1. Declared(c) = {}
      BY <1>6, <2>3
    <3> QED
      BY <2>1, <2>3, <3>1
  <2> QED
    BY <2>2, <2>3
<1> DEFINE W == InMcus(Signed(segment.width), Widest(image))
           H == InMcus(Signed(segment.height), Tallest(image))
           B == SumFunction(BlocksIn(image.components))
<1>9. /\ DOMAIN stats = Fields
      /\ DOMAIN stats.channels_ = Channels
      /\ stats.width_ = Signed(segment.width) /\ stats.height_ = Signed(segment.height)
      /\ stats.h_max_ = Widest(image)
      /\ stats.v_max_ = Tallest(image)
      /\ stats.mcu_block_cnt_ = B
      /\ stats.img_width_in_mcu_ = W
      /\ stats.img_block_cnt_ = ToSize(ToSize(W * H) * B)
  BY <1>4, <1>5 DEF StatsOf, Fields
<1>10. segment.width = image.width /\ segment.height = image.height
  BY DEF Describes
<1>15. stats.img_block_cnt_ \in Nat
  <2>1. Int16Limit \in Nat \ {0}
    BY SizeAssumption
  <2>2. Signed(segment.width) \in Int /\ Signed(segment.height) \in Int
    BY <1>10, <2>1 DEF Signed
  <2>3. W \in Nat /\ H \in Nat
    BY <2>2, FactorsBound, McusAreNat
  <2>4. B \in Nat
    <3> HIDE DEF B
    <3>1. B \in 1 .. 12
      BY McuBlocks DEF B
    <3> QED
      BY <3>1
  <2> HIDE DEF W, H, B, stats
  <2>5. W * H \in Int
    BY <2>3
  <2> DEFINE mcus == ToSize(W * H)
  <2>6. mcus \in Nat
    BY <2>5, SizesAreNat
  <2> HIDE DEF mcus
  <2>7. mcus * B \in Int
    BY <2>4, <2>6
  <2>8. ToSize(mcus * B) \in Nat
    BY <2>7, SizesAreNat
  <2> QED
    BY <2>8, <1>9 DEF mcus
<1> HIDE DEF stats
<1>11. \A c \in Channels : DOMAIN stats.channels_[c] = {"h", "v", "q", "dc", "ac"}
  <2> SUFFICES ASSUME NEW c \in Channels PROVE DOMAIN stats.channels_[c] = {"h", "v", "q", "dc", "ac"}
    OBVIOUS
  <2>1. CASE c \in D
    <3>1. stats.channels_[c] = [h |-> segment.components[c].h, v |-> segment.components[c].v,
                                q |-> segment.components[c].q, dc |-> 0, ac |-> 0]
      BY <1>8, <2>1
    <3> QED
      BY <3>1
  <2>2. CASE c \notin D
    <3>1. stats.channels_[c] = NoChannel
      BY <1>8, <2>2
    <3> QED
      BY <3>1 DEF NoChannel
  <2> QED
    BY <2>1, <2>2
<1>12. \A c \in D : stats.channels_[c].h = image.components[c].h /\ stats.channels_[c].v = image.components[c].v
  <2> SUFFICES ASSUME NEW c \in D
               PROVE  /\ stats.channels_[c].h = image.components[c].h
                      /\ stats.channels_[c].v = image.components[c].v
    OBVIOUS
  <2>1. stats.channels_[c] = [h |-> segment.components[c].h, v |-> segment.components[c].v,
                              q |-> segment.components[c].q, dc |-> 0, ac |-> 0]
    BY <1>1, <1>8
  <2> QED
    BY <2>1, <1>2
<1>13. StatsRead(stats, image)
  BY <1>9, <1>10, <1>12 DEF StatsRead
<1> QED
  BY <1>9, <1>11, <1>13, <1>15 DEF stats

(* Steps that leave Stats alone.                                           *)
LEMMA StatsKept ==
  ASSUME DecoderInv, UNCHANGED <<file, was_in_sof, stats_>>, read' \in {read, read + 1}
  PROVE  file' \in Files /\ was_in_sof' \in BOOLEAN /\ read' \in Nat /\ StatsSound'
BY DEF DecoderInv, StatsSound, StatsRead

LEMMA AppendIsSequence ==
  ASSUME NEW s, IsSequence(s), NEW x
  PROVE  IsSequence(Append(s, x)) /\ Len(s) \in Nat /\ Len(Append(s, x)) = Len(s) + 1
<1>1. PICK S : s \in Seq(S)
  BY DEF IsSequence
<1>2. s \in Seq(S \union {x})
  BY <1>1
<1>3. Append(s, x) \in Seq(S \union {x}) /\ Len(Append(s, x)) = Len(s) + 1 /\ Len(s) \in Nat
  BY <1>2
<1> QED
  BY <1>3 DEF IsSequence

LEMMA RaisesKeepsInv ==
  ASSUME DecoderInv, Raises
  PROVE  DecoderInv'
<1>1. file' \in Files /\ was_in_sof' \in BOOLEAN /\ read' \in Nat /\ StatsSound'
  BY StatsKept DEF Raises, header
<1>2. ScanSound'
  BY DEF DecoderInv, ScanSound, Raises, header, decoded
<1> QED
  BY <1>1, <1>2 DEF DecoderInv

(* A step that leaves the header and the blocks alone.                     *)
LEMMA StaysInScan ==
  ASSUME DecoderInv, UNCHANGED <<file, header, output>>,
         \/ phase' = phase
         \/ phase \in {"symbol", "bits"} /\ phase' \in {"symbol", "bits", "failed"}
         \/ phase = "end" /\ phase' = "failed"
         \/ phase = "end" /\ phase' = "done" /\ FitsImage
  PROVE  DecoderInv'
<1>1. file' \in Files /\ was_in_sof' \in BOOLEAN /\ read' \in Nat /\ StatsSound'
  BY StatsKept DEF header
<1>2. CheckFields(stats_.channels_) = CheckFields(stats_.channels_)'
  BY DEF CheckFields, header
<1>3. ScanSound'
  BY <1>2 DEF DecoderInv, ScanSound, FitsImage, header
<1> QED
  BY <1>1, <1>3 DEF DecoderInv

(* What the invariant says of the frame once it was read.                  *)
LEMMA FrameRead ==
  ASSUME DecoderInv, was_in_sof
  PROVE  /\ Accepted(file.image) /\ StatsRead(stats_, file.image)
         /\ stats_.img_block_cnt_ \in Nat
         /\ FitsImage => /\ SidesFit(file.image)
                         /\ stats_.width_ = file.image.width /\ stats_.height_ = file.image.height
<1>1. /\ Accepted(file.image) /\ StatsRead(stats_, file.image)
      /\ stats_.img_block_cnt_ \in Nat
  BY DEF DecoderInv, StatsSound
<1>2. file.image.width \in 0 .. 2 * Int16Limit - 1 /\ file.image.height \in 0 .. 2 * Int16Limit - 1
  BY FilesAssumption DEF DecoderInv
<1>3. ASSUME FitsImage
      PROVE  /\ SidesFit(file.image)
             /\ stats_.width_ = file.image.width /\ stats_.height_ = file.image.height
  BY <1>1, <1>2, <1>3, SidesRead DEF FitsImage
<1> QED
  BY <1>1, <1>3

(* A block is appended to the output.                                      *)
LEMMA BlockDoneKeepsInv ==
  ASSUME DecoderInv, phase \in {"symbol", "bits"}, UNCHANGED <<file, header>>,
         NEW coefficients, BlockDone(coefficients)
  PROVE  DecoderInv'
<1>1. file' \in Files /\ was_in_sof' \in BOOLEAN /\ read' \in Nat /\ StatsSound'
  BY StatsKept DEF header
<1>2. CheckFields(stats_.channels_) = CheckFields(stats_.channels_)'
  BY DEF CheckFields, header
<1>3. IsSequence(output') /\ Len(output) \in Nat /\ Len(output') = Len(output) + 1
  <2>1. IsSequence(output)
    BY DEF DecoderInv, ScanSound
  <2> QED
    BY <2>1, AppendIsSequence DEF BlockDone
<1>4. was_in_sof' /\ CheckFields(stats_.channels_)'
  BY <1>2 DEF DecoderInv, ScanSound, header
<1>5. \/ Len(output') = stats_.img_block_cnt_ /\ phase' = "end"
      \/ Len(output') < stats_.img_block_cnt_ /\ phase' = "symbol"
  <2>1. Len(output) < stats_.img_block_cnt_
    BY DEF DecoderInv, ScanSound
  <2>2. stats_.img_block_cnt_ \in Int
    BY FrameRead DEF DecoderInv, ScanSound
  <2> QED
    BY <1>3, <2>1, <2>2 DEF BlockDone
<1>6. ScanSound'
  BY <1>1, <1>3, <1>4, <1>5 DEF ScanSound, header
<1> QED
  BY <1>1, <1>6 DEF DecoderInv

-----------------------------------------------------------------------------
(* The frame is read.                                                      *)
LEMMA ReadStatsKeepsInv ==
  ASSUME DecoderInv, ReadStats
  PROVE  DecoderInv'
<1>1. CASE Raises
  BY <1>1, RaisesKeepsInv
<1>2. CASE /\ ~ was_in_sof /\ SamplingSupported(Contents)
           /\ was_in_sof' = TRUE
           /\ stats_' = StatsOf(Contents)
           /\ Reads
           /\ UNCHANGED <<phase, hung, qtables_, dc_, ac_>>
  <2> DEFINE image == file.image
  <2>1. /\ Accepted(image) /\ Describes(Contents, image)
        /\ image.width \in 0 .. 2 * Int16Limit - 1 /\ image.height \in 0 .. 2 * Int16Limit - 1
    <3>1. file \in Files /\ read \in Nat
      BY DEF DecoderInv
    <3>2. read + 1 \in 1 .. Len(file.header)
      BY <3>1, FilesAssumption DEF ReadStats, Segment
    <3>3. Describes(Contents, image)
      BY <3>1, <3>2, <1>2, FilesAssumption DEF ReadStats, Segment, Contents
    <3>4. Accepted(image)
      BY <1>2, <3>3 DEF SamplingSupported, Describes, Accepted
    <3> QED
      BY <3>1, <3>3, <3>4, FilesAssumption
  <2>2. DOMAIN stats_.channels_ = Channels /\ \A c \in Channels : stats_.channels_[c] = NoChannel
    BY <1>2 DEF DecoderInv, StatsSound
  <2>3. /\ DOMAIN stats_' = Fields
        /\ DOMAIN stats_'.channels_ = Channels
        /\ \A c \in Channels : DOMAIN stats_'.channels_[c] = {"h", "v", "q", "dc", "ac"}
        /\ StatsRead(stats_', image)
        /\ stats_'.img_block_cnt_ \in Nat
    <3> HIDE DEF image
    <3> QED
      BY <2>1, <2>2, <1>2, FrameDescribes
  <2>4. file' = file /\ was_in_sof' = TRUE /\ read' \in Nat /\ file' \in Files
    BY <1>2 DEF Reads, DecoderInv
  <2>5. StatsSound'
    BY <2>1, <2>3, <2>4 DEF StatsSound, StatsRead
  <2>6. ScanSound'
    BY <1>2 DEF DecoderInv, ScanSound, ReadStats, Segment, Reads, decoded
  <2> QED
    BY <2>4, <2>5, <2>6 DEF DecoderInv
<1> QED
  BY <1>1, <1>2 DEF ReadStats

(* Segments of the header that leave the frame alone.                      *)
LEMMA HeaderStepsKeepInv ==
  ASSUME DecoderInv, phase = "header",
         UNCHANGED <<file, phase, was_in_sof, stats_, output>>, read' \in {read, read + 1}
  PROVE  DecoderInv'
<1>1. file' \in Files /\ was_in_sof' \in BOOLEAN /\ read' \in Nat /\ StatsSound'
  BY StatsKept
<1>2. ScanSound'
  BY DEF DecoderInv, ScanSound
<1> QED
  BY <1>1, <1>2 DEF DecoderInv

(* The scan begins: the channels get their tables.                         *)
LEMMA ReadStartOfScanKeepsInv ==
  ASSUME DecoderInv, ReadStartOfScan
  PROVE  DecoderInv'
<1>1. CASE Raises
  BY <1>1, RaisesKeepsInv
<1>2. CASE /\ was_in_sof /\ CheckFields(WithTables(Contents)) /\ stats_.img_block_cnt_ =< MaxBlocks
           /\ stats_' = [stats_ EXCEPT !.channels_ = WithTables(Contents)]
           /\ phase' = IF stats_.img_block_cnt_ = 0 THEN "end" ELSE "symbol"
           /\ Reads
           /\ UNCHANGED <<hung, was_in_sof, qtables_, dc_, ac_>>
  <2> DEFINE channels == WithTables(Contents)
  <2>1. /\ file' = file /\ file \in Files /\ was_in_sof /\ was_in_sof' /\ was_in_sof' = was_in_sof
        /\ read' \in Nat /\ output' = output
    BY <1>2 DEF DecoderInv, Reads, decoded
  <2>2. /\ DOMAIN stats_ = Fields /\ DOMAIN stats_.channels_ = Channels
        /\ \A c \in Channels : DOMAIN stats_.channels_[c] = {"h", "v", "q", "dc", "ac"}
        /\ Accepted(file.image) /\ StatsRead(stats_, file.image)
        /\ stats_.img_block_cnt_ \in Nat
    BY <2>1 DEF DecoderInv, StatsSound
  <2>3. DOMAIN channels = Channels
    BY DEF WithTables
  <2>4. \A c \in Channels :
          /\ DOMAIN channels[c] = {"h", "v", "q", "dc", "ac"}
          /\ channels[c].h = stats_.channels_[c].h
          /\ channels[c].v = stats_.channels_[c].v
    <3> SUFFICES ASSUME NEW c \in Channels
                 PROVE  /\ DOMAIN channels[c] = {"h", "v", "q", "dc", "ac"}
                        /\ channels[c].h = stats_.channels_[c].h
                        /\ channels[c].v = stats_.channels_[c].v
      OBVIOUS
    <3>1. channels[c] = stats_.channels_[c]
          \/ \E dc, ac : channels[c] = [stats_.channels_[c] EXCEPT !.dc = dc, !.ac = ac]
      BY DEF WithTables
    <3>2. DOMAIN stats_.channels_[c] = {"h", "v", "q", "dc", "ac"}
      BY <2>2
    <3> HIDE DEF channels
    <3>3. ASSUME NEW dc, NEW ac, channels[c] = [stats_.channels_[c] EXCEPT !.dc = dc, !.ac = ac]
          PROVE  /\ DOMAIN channels[c] = {"h", "v", "q", "dc", "ac"}
                 /\ channels[c].h = stats_.channels_[c].h
                 /\ channels[c].v = stats_.channels_[c].v
      BY <3>2, <3>3
    <3> QED
      BY <3>1, <3>2, <3>3
  <2>5. /\ DOMAIN stats_' = Fields /\ stats_'.channels_ = channels
        /\ \A field \in Fields \ {"channels_"} : stats_'[field] = stats_[field]
    BY <1>2, <2>2 DEF Fields
  <2>6. /\ stats_'.width_ = stats_.width_ /\ stats_'.height_ = stats_.height_
        /\ stats_'.h_max_ = stats_.h_max_ /\ stats_'.v_max_ = stats_.v_max_
        /\ stats_'.mcu_block_cnt_ = stats_.mcu_block_cnt_
        /\ stats_'.img_width_in_mcu_ = stats_.img_width_in_mcu_
        /\ stats_'.img_block_cnt_ = stats_.img_block_cnt_
    BY <2>5 DEF Fields
  <2> HIDE DEF channels
  <2>7. DOMAIN file.image.components \subseteq Channels
    BY <2>2 DEF Accepted, Channels
  <2>8. StatsRead(stats_', file.image)
    BY <2>2, <2>4, <2>5, <2>6, <2>7 DEF StatsRead
  <2>9. StatsSound'
    BY <2>1, <2>2, <2>3, <2>4, <2>5, <2>6, <2>8 DEF StatsSound, StatsRead
  <2>10. CheckFields(stats_.channels_)'
    <3>1. stats_'.channels_ = channels
      BY <2>5
    <3>2. CheckFields(channels)
      BY <1>2 DEF channels
    <3> QED
      BY <1>2, <3>1, <3>2 DEF CheckFields
  <2>11. stats_.img_block_cnt_ \in Nat
    BY <2>2
  <2>12. output = <<>> /\ IsSequence(output) /\ Len(output) = 0
    BY DEF DecoderInv, ScanSound, ReadStartOfScan, Segment
  <2>13. ScanSound'
    BY <1>2, <2>1, <2>6, <2>10, <2>11, <2>12 DEF ScanSound
  <2> QED
    BY <2>1, <2>9, <2>13 DEF DecoderInv
<1> QED
  BY <1>1, <1>2 DEF ReadStartOfScan

(* Every step of the decoder keeps the invariant.                          *)
LEMMA DecoderNextInv == DecoderInv /\ [DecoderNext]_decoder_vars => DecoderInv'
<1> SUFFICES ASSUME DecoderInv, [DecoderNext]_decoder_vars PROVE DecoderInv'
  OBVIOUS
<1>1. CASE ReadSkipped
  BY <1>1, HeaderStepsKeepInv DEF ReadSkipped, Segment, Reads, decoded
<1>2. CASE ReadQTable
  <2>1. CASE Raises
    BY <2>1, RaisesKeepsInv
  <2>2. CASE ~ Raises
    BY <1>2, <2>2, HeaderStepsKeepInv DEF ReadQTable, Segment, Reads, decoded
  <2> QED
    BY <2>1, <2>2
<1>3. CASE ReadStats
  BY <1>3, ReadStatsKeepsInv
<1>4. CASE ReadHuffman
  <2>1. CASE Raises
    BY <2>1, RaisesKeepsInv
  <2>2. CASE ~ Raises
    BY <1>4, <2>2, HeaderStepsKeepInv DEF ReadHuffman, Segment, decoded
  <2> QED
    BY <2>1, <2>2
<1>5. CASE HangsValue
  <2>1. CASE Raises
    BY <2>1, RaisesKeepsInv
  <2>2. CASE ~ Raises
    BY <1>5, <2>2, HeaderStepsKeepInv DEF HangsValue, Segment, decoded
  <2> QED
    BY <2>1, <2>2
<1>6. CASE HuffmanBuilt
  BY <1>6, HeaderStepsKeepInv DEF HuffmanBuilt, Segment, Reads, decoded
<1>7. CASE ReadStartOfScan
  BY <1>7, ReadStartOfScanKeepsInv
<1>8. CASE RefusesHeader \/ RunsOutOfBits \/ WalksOff
  BY <1>8, RaisesKeepsInv DEF RefusesHeader, RunsOutOfBits, WalksOff
<1>9. CASE Walks
  BY <1>9, StaysInScan DEF Walks, header, decoded
<1>10. CASE ReadsDcSymbol
  BY <1>10, StaysInScan DEF ReadsDcSymbol, CompletesSymbol, header, decoded
<1>11. CASE ReadsAcSymbol
  BY <1>11, StaysInScan DEF ReadsAcSymbol, CompletesSymbol, header
<1>12. CASE ReadsEndOfBlock
  BY <1>12, BlockDoneKeepsInv DEF ReadsEndOfBlock, CompletesSymbol
<1>13. CASE ReadsExtraBit
  BY <1>13, StaysInScan DEF ReadsExtraBit, header, decoded
<1>14. CASE StoresDc
  BY <1>14, StaysInScan DEF StoresDc, header
<1>15. CASE StoresAc
  <2> DEFINE stored == [block EXCEPT ![index] = Amplitude * Quantizer(index)]
  <2>1. CASE BlockDone(stored)
    BY <1>15, <2>1, BlockDoneKeepsInv DEF StoresAc
  <2>2. CASE phase' = "symbol" /\ UNCHANGED output
    BY <1>15, <2>2, StaysInScan DEF StoresAc, header
  <2> QED
    BY <1>15, <2>1, <2>2 DEF StoresAc
<1>16. CASE RunsOverBlock
  <2>1. CASE Raises
    BY <2>1, RaisesKeepsInv
  <2>2. CASE ~ Raises
    BY <1>16, <2>2, BlockDoneKeepsInv DEF RunsOverBlock
  <2> QED
    BY <2>1, <2>2
<1>17. CASE CheckEnd
  BY <1>17, StaysInScan DEF CheckEnd, header, decoded
<1>18. CASE UNCHANGED decoder_vars
  BY <1>18, StaysInScan DEF decoder_vars, header, decoded
<1> QED
  BY <1>1, <1>2, <1>3, <1>4, <1>5, <1>6, <1>7, <1>8, <1>9, <1>10, <1>11, <1>12, <1>13,
     <1>14, <1>15, <1>16, <1>17, <1>18 DEF DecoderNext

(* The invariant of the decoder.                                           *)
LEMMA DecoderInvariant == DecoderSpec => []DecoderInv
BY DecoderInitInv, DecoderNextInv, PTL DEF DecoderSpec

(* Every pixel is made of the samples that the encoder put there for it    *)
(* (ConstructImage), for images of every size that is decoded, gray of one *)
(* block in an MCU, or in colour with a luminance of one, two or four, in  *)
(* files whose header has its segments in any order, number and condition. *)
(* ReadStats takes other layouts too (a gray image with factors of 2, and  *)
(* colours with factors of 2): of their pixels this says nothing.          *)
THEOREM DecoderPixels == DecoderSpec => []PixelsFromTheirSamples
<1>1. DecoderInv => PixelsFromTheirSamples
  <2> SUFFICES ASSUME DecoderInv, phase = "done", LayoutSupported(file.image),
                      NEW c \in DOMAIN file.image.components, NEW i \in Height, NEW j \in Width
               PROVE  PixelSource(c, i, j) = SampleOf(file.image, c, i, j)
    BY DEF PixelsFromTheirSamples
  <2>1. StatsRead(stats_, file.image) /\ SidesFit(file.image)
    BY FrameRead DEF DecoderInv, ScanSound
  <2>2. i \in Nat /\ j \in Nat
    BY DEF Height, Width
  <2> QED
    BY <2>1, <2>2, SamplesAreFound
<1> QED
  BY <1>1, DecoderInvariant, PTL

-----------------------------------------------------------------------------
(* A place in a grid, row by row.                                          *)
LEMMA PlaceInGrid ==
  ASSUME NEW rows \in Nat, NEW columns \in Nat, NEW r \in Nat, NEW k \in Nat, r < rows, k < columns
  PROVE  r * columns + k \in Nat /\ r * columns + k < rows * columns
<1>1. PICK below \in Nat : rows = (r + 1) + below
  <2>1. rows - (r + 1) \in Nat /\ rows = (r + 1) + (rows - (r + 1))
    OBVIOUS
  <2> QED
    BY <2>1
<1>2. rows * columns = r * columns + columns + below * columns
  BY <1>1
<1>3. r * columns \in Nat /\ below * columns \in Nat
  OBVIOUS
<1> QED
  BY <1>2, <1>3

(* A pixel is in an MCU of the image.                                      *)
LEMMA McuInImage ==
  ASSUME NEW side \in 0 .. Int16Limit - 1, NEW factor \in {1, 2}, NEW i \in 0 .. side - 1
  PROVE  i \div (factor * 8) \in Nat /\ i \div (factor * 8) < InMcus(side, factor)
<1> DEFINE n == InMcus(side, factor)
<1>1. ToSize(side) = side /\ side \in Nat
  BY SideFits
<1>2. n = side \div (factor * 8) + (IF side % (factor * 8) # 0 THEN 1 ELSE 0)
  BY <1>1 DEF InMcus
<1> HIDE DEF n
<1>3. CASE factor = 1
  BY <1>1, <1>2, <1>3 DEF n
<1>4. CASE factor = 2
  BY <1>1, <1>2, <1>4 DEF n
<1> QED
  BY <1>3, <1>4

(* Every sample that ConstructImage reads is one of a block of output.     *)
SamplesExist ==
  phase = "done" =>
    \A c \in DOMAIN file.image.components, i \in Height, j \in Width :
      /\ PixelSource(c, i, j).block \in DOMAIN output
      /\ PixelSource(c, i, j).sample \in 0 .. 63

(* The blocks of a component in an MCU.                                    *)
LEMMA BlocksOfMcu ==
  ASSUME Accepted(file.image), StatsRead(stats_, file.image)
  PROVE  LET D == DOMAIN file.image.components
             b == BlocksIn(file.image.components) IN
         /\ \A n \in D : Blocks[n] = b[n] /\ b[n] \in 1 .. 4
         /\ \A n \in D : /\ file.image.components[n].h = 1 => b[n] = file.image.components[n].v
                         /\ file.image.components[n].h = 2 => b[n] = 2 * file.image.components[n].v
         /\ stats_.mcu_block_cnt_
              = (IF 1 \in D THEN b[1] ELSE 0) + (IF 2 \in D THEN b[2] ELSE 0) + (IF 3 \in D THEN b[3] ELSE 0)
<1> DEFINE components == file.image.components
           D == DOMAIN components
           b == BlocksIn(components)
<1>1. D \in SUBSET {1, 2, 3} /\ D \subseteq Channels /\ DOMAIN b = D
  BY DEF Accepted, Channels, BlocksIn
<1>2. ASSUME NEW n \in D
      PROVE  /\ Blocks[n] = b[n] /\ b[n] \in 1 .. 4
             /\ components[n].h = 1 => b[n] = components[n].v
             /\ components[n].h = 2 => b[n] = 2 * components[n].v
  <2>1. stats_.channels_[n].h = components[n].h /\ stats_.channels_[n].v = components[n].v
    BY DEF StatsRead
  <2>2. components[n].h \in {1, 2} /\ components[n].v \in {1, 2}
    BY DEF Accepted
  <2>3. b[n] = components[n].h * components[n].v
    BY DEF BlocksIn
  <2>4. Blocks[n] = b[n]
    BY <1>1, <2>1, <2>3 DEF Blocks
  <2> HIDE DEF b
  <2> QED
    BY <2>2, <2>3, <2>4
<1>3. stats_.mcu_block_cnt_ = SumFunctionOnSet(b, D)
  BY <1>1 DEF StatsRead, SumFunction
<1>4. \A n \in D : b[n] \in Int
  BY <1>2
<1> HIDE DEF b, D
<1>5. SumFunctionOnSet(b, D)
        = (IF 1 \in D THEN b[1] ELSE 0) + (IF 2 \in D THEN b[2] ELSE 0) + (IF 3 \in D THEN b[3] ELSE 0)
  BY <1>1, <1>4, SumOfThree
<1> QED
  BY <1>2, <1>3, <1>5 DEF b, D

(* A block of a component is in the MCU, of all layouts that ReadStats     *)
(* takes.                                                                  *)
LEMMA OffsetInMcu ==
  ASSUME Accepted(file.image), StatsRead(stats_, file.image),
         NEW c \in DOMAIN file.image.components, NEW i \in Nat, NEW j \in Nat
  PROVE  LET offset == Offset(c, (i \div 8) % stats_.v_max_, (j \div 8) % stats_.h_max_) IN
         offset \in Nat /\ offset < stats_.mcu_block_cnt_ /\ stats_.mcu_block_cnt_ \in Nat
<1> DEFINE components == file.image.components
           D == DOMAIN components
           b == BlocksIn(components)
           cnt == stats_.mcu_block_cnt_
           offset == Offset(c, (i \div 8) % stats_.v_max_, (j \div 8) % stats_.h_max_)
<1>1. D \in {{1}, {1, 2}, {1, 2, 3}} /\ 1 \in D
  BY DEF Accepted
<1>2. \A n \in D : components[n].h \in {1, 2} /\ components[n].v \in {1, 2}
  BY DEF Accepted
<1>3. /\ \A n \in D : Blocks[n] = b[n] /\ b[n] \in 1 .. 4
      /\ \A n \in D : /\ components[n].h = 1 => b[n] = components[n].v
                      /\ components[n].h = 2 => b[n] = 2 * components[n].v
      /\ cnt = (IF 1 \in D THEN b[1] ELSE 0) + (IF 2 \in D THEN b[2] ELSE 0) + (IF 3 \in D THEN b[3] ELSE 0)
  BY BlocksOfMcu
<1>4. cnt \in Nat /\ \A n \in D : b[n] =< cnt /\ (n # 1 => b[1] + b[n] =< cnt)
  <2> HIDE DEF b, cnt, D
  <2>1. \A n \in D : b[n] \in 1 .. 4
    BY <1>3
  <2> QED
    BY <1>1, <1>3, <2>1
<1>5. CASE c = 1
  <2> DEFINE r == (i \div 8) % stats_.v_max_
             k == (j \div 8) % stats_.h_max_
             h == components[1].h
  <2>1. /\ stats_.v_max_ \in {1, 2} /\ stats_.h_max_ \in {1, 2}
        /\ stats_.v_max_ = 2 => \E n \in D : components[n].v = 2
        /\ stats_.h_max_ = 2 => \E n \in D : components[n].h = 2
    BY FactorsBound DEF StatsRead
  <2>2. /\ r \in {0, 1} /\ k \in {0, 1}
        /\ r = 1 => stats_.v_max_ = 2
        /\ k = 1 => stats_.h_max_ = 2
    <3>1. i \div 8 \in Nat /\ j \div 8 \in Nat
      OBVIOUS
    <3>2. \A n \in Nat : n % 1 = 0 /\ n % 2 \in {0, 1}
      OBVIOUS
    <3> QED
      BY <2>1, <3>1, <3>2
  <2>3. offset = r * h + k
    <3>1. stats_.channels_[1].h = h
      BY <1>1 DEF StatsRead
    <3> QED
      BY <1>5, <3>1 DEF Offset
  <2>4. h \in {1, 2} /\ b[1] \in 1 .. 4 /\ (h = 1 => b[1] = components[1].v) /\ (h = 2 => b[1] = 2 * components[1].v)
        /\ components[1].v \in {1, 2}
    BY <1>1, <1>2, <1>3
  <2> HIDE DEF r, k, h, b, cnt, D
  <2>5. r * h = IF r = 0 THEN 0 ELSE h
    BY <2>2, <2>4
  <2>6. \A n \in D : components[n].h = 2 \/ components[n].v = 2 => b[n] >= 2
    BY <1>2, <1>3
  <2>7. cnt >= 1 /\ h =< b[1] /\ b[1] =< cnt
    BY <1>1, <1>4, <2>4
  <2>8. CASE r = 0 /\ k = 0
    BY <2>3, <2>5, <2>7, <2>8, <1>4 DEF cnt, offset
  <2>9. CASE r = 0 /\ k = 1
    <3>1. PICK n \in D : components[n].h = 2
      BY <2>1, <2>2, <2>9
    <3>2. cnt >= 2
      BY <3>1, <2>6, <1>3, <1>4
    <3> QED
      BY <2>3, <2>5, <2>9, <3>2, <1>4 DEF cnt, offset
  <2>10. CASE r = 1
    <3>1. PICK n \in D : components[n].v = 2
      BY <2>1, <2>2, <2>10
    <3>2. CASE n # 1
      <4>1. b[1] + b[n] =< cnt /\ b[n] >= 2 /\ b[n] \in Int
        BY <3>1, <3>2, <2>6, <1>3, <1>4
      <4>2. h + 2 =< cnt
        BY <4>1, <2>4, <2>7, <1>4
      <4> QED
        BY <2>2, <2>3, <2>4, <2>5, <2>10, <4>2, <1>4 DEF cnt, offset
    <3>3. CASE n = 1 /\ h = 2
      <4>1. cnt >= 4
        BY <3>1, <3>3, <2>4, <2>7, <1>4
      <4> QED
        BY <2>2, <2>3, <2>5, <2>10, <3>3, <4>1, <1>4 DEF cnt, offset
    <3>4. CASE n = 1 /\ h = 1
      <4>1. b[1] = 2
        BY <3>1, <3>4, <2>4
      <4>2. CASE k = 0
        BY <2>3, <2>5, <2>7, <2>10, <3>4, <4>1, <4>2, <1>4 DEF cnt, offset
      <4>3. CASE k = 1
        <5>1. PICK m \in D : components[m].h = 2
          BY <2>1, <2>2, <4>3
        <5>2. m # 1
          BY <5>1, <3>4 DEF h
        <5>3. b[1] + b[m] =< cnt /\ b[m] >= 2 /\ b[m] \in Int
          BY <5>1, <5>2, <2>6, <1>3, <1>4
        <5>4. cnt >= 4
          BY <5>3, <4>1, <1>4
        <5> QED
          BY <2>3, <2>5, <2>10, <3>4, <4>3, <5>4, <1>4 DEF cnt, offset
      <4> QED
        BY <2>2, <4>2, <4>3
    <3> QED
      BY <2>4, <3>2, <3>3, <3>4
  <2> QED
    BY <2>2, <2>8, <2>9, <2>10
<1>6. CASE c # 1
  <2>1. offset = SumFunctionOnSet(Blocks, 1 .. c - 1)
    BY <1>6 DEF Offset
  <2>2. (1 .. c - 1) \in SUBSET {1, 2, 3} /\ \A d \in 1 .. c - 1 : d \in D
    BY <1>1
  <2> HIDE DEF b, cnt, D
  <2>3. \A d \in 1 .. c - 1 : Blocks[d] \in Int
    BY <2>2, <1>3
  <2>4. SumFunctionOnSet(Blocks, 1 .. c - 1)
          = (IF 1 \in 1 .. c - 1 THEN Blocks[1] ELSE 0) + (IF 2 \in 1 .. c - 1 THEN Blocks[2] ELSE 0)
              + (IF 3 \in 1 .. c - 1 THEN Blocks[3] ELSE 0)
    BY <2>2, <2>3, SumOfThree
  <2>5. \A n \in D : Blocks[n] = b[n] /\ b[n] \in 1 .. 4
    BY <1>3
  <2> HIDE DEF offset
  <2>6. CASE c = 2
    <3>1. offset = b[1] /\ b[1] \in 1 .. 4 /\ b[2] \in 1 .. 4
      BY <1>1, <2>1, <2>4, <2>5, <2>6 DEF D
    <3>2. b[1] + b[2] =< cnt
      BY <1>4, <2>6 DEF D
    <3> QED
      BY <3>1, <3>2, <1>4 DEF offset, cnt
  <2>7. CASE c = 3
    <3>1. D = {1, 2, 3}
      BY <1>1, <2>7 DEF D
    <3>2. offset = b[1] + b[2] /\ b[1] \in 1 .. 4 /\ b[2] \in 1 .. 4 /\ b[3] \in 1 .. 4
      BY <3>1, <2>1, <2>4, <2>5, <2>7
    <3>3. cnt = b[1] + b[2] + b[3]
      BY <1>3, <3>1
    <3> QED
      BY <3>2, <3>3, <1>4 DEF offset, cnt
  <2>8. c = 2 \/ c = 3
    BY <1>1, <1>6 DEF D
  <2> QED
    BY <2>6, <2>7, <2>8
<1> QED
  BY <1>5, <1>6

(* ConstructImage never reads behind the decoded blocks (its at would      *)
(* throw): a scan that was decoded to the end has left a block for every   *)
(* pixel, the last and incomplete MCUs included, in all layouts that       *)
(* ReadStats takes.  A number of blocks that wrapped does not get here:    *)
(* it takes a negative side, and such an Image is not made.                *)
THEOREM DecoderReadsBlocks == DecoderSpec => []SamplesExist
<1>1. DecoderInv => SamplesExist
  <2> SUFFICES ASSUME DecoderInv, phase = "done",
                      NEW c \in DOMAIN file.image.components, NEW i \in Height, NEW j \in Width
               PROVE  /\ PixelSource(c, i, j).block \in DOMAIN output
                      /\ PixelSource(c, i, j).sample \in 0 .. 63
    BY DEF SamplesExist
  <2> DEFINE image == file.image
             h == Widest(image)
             v == Tallest(image)
             W == InMcus(image.width, h)
             H == InMcus(image.height, v)
             B == stats_.mcu_block_cnt_
             row == i \div (v * 8)
             column == j \div (h * 8)
             offset == Offset(c, (i \div 8) % stats_.v_max_, (j \div 8) % stats_.h_max_)
  <2>1. /\ Accepted(image) /\ StatsRead(stats_, image) /\ SidesFit(image)
        /\ stats_.width_ = image.width /\ stats_.height_ = image.height
    BY FrameRead DEF DecoderInv, ScanSound
  <2>2. /\ image.width \in 0 .. Int16Limit - 1 /\ image.height \in 0 .. Int16Limit - 1
        /\ h \in {1, 2} /\ v \in {1, 2}
        /\ stats_.h_max_ = h /\ stats_.v_max_ = v
    BY <2>1, FactorsBound DEF SidesFit, StatsRead
  <2>3. i \in 0 .. image.height - 1 /\ j \in 0 .. image.width - 1 /\ i \in Nat /\ j \in Nat
    <3>1. i \in 0 .. image.height - 1 /\ j \in 0 .. image.width - 1
      BY <2>1 DEF Height, Width
    <3> QED
      BY <3>1
  <2>4. /\ W \in Nat /\ H \in Nat
        /\ stats_.img_width_in_mcu_ = W /\ stats_.img_block_cnt_ = W * H * B
    BY <2>1, BlocksRead
  <2>5. /\ row \in Nat /\ row < H
        /\ column \in Nat /\ column < W
    BY <2>2, <2>3, McuInImage
  <2>6. offset \in Nat /\ offset < B /\ B \in Nat
    BY <2>1, <2>3, OffsetInMcu
  <2>7. PixelSource(c, i, j).block = (row * W + column) * B + offset + 1
    BY <2>2, <2>4 DEF PixelSource
  <2>8. Len(output) = W * H * B /\ DOMAIN output = 1 .. Len(output)
    <3>1. IsSequence(output) /\ Len(output) = stats_.img_block_cnt_
      BY DEF DecoderInv, ScanSound
    <3>2. DOMAIN output = 1 .. Len(output)
      BY <3>1, LenProperties DEF IsSequence
    <3> QED
      BY <3>1, <3>2, <2>4
  <2>9. (row * W + column) * B + offset \in Nat /\ (row * W + column) * B + offset < (H * W) * B
    <3> HIDE DEF W, H, B, row, column, offset
    <3>1. row * W + column \in Nat /\ row * W + column < H * W
      BY <2>4, <2>5, PlaceInGrid
    <3> DEFINE mcu == row * W + column
    <3>2. mcu \in Nat /\ mcu < H * W /\ H * W \in Nat
      BY <2>4, <3>1
    <3> DEFINE mcus == H * W
    <3> HIDE DEF mcu, mcus
    <3>3. mcu * B + offset \in Nat /\ mcu * B + offset < mcus * B
      BY <2>6, <3>2, PlaceInGrid DEF mcus
    <3> QED
      BY <3>3 DEF mcu, mcus
  <2>10. PixelSource(c, i, j).block \in DOMAIN output
    <3> HIDE DEF W, H, B, row, column, offset
    <3>1. W * H * B = (H * W) * B /\ W * H * B \in Nat
      BY <2>4, <2>6
    <3> QED
      BY <2>7, <2>8, <2>9, <3>1
  <2>11. PixelSource(c, i, j).sample \in 0 .. 63
    <3> DEFINE scaled == stats_.channels_[IF c = 1 THEN 1 ELSE 2]
               a == i \div (v \div scaled.v)
               b == j \div (h \div scaled.h)
    <3>1. PixelSource(c, i, j).sample = ((a % 8) * 8) + (b % 8)
      BY <2>2 DEF PixelSource
    <3>2. /\ scaled.v \in {1, 2} /\ scaled.v =< v
          /\ scaled.h \in {1, 2} /\ scaled.h =< h
      <4> DEFINE d == IF c = 1 THEN 1 ELSE 2
      <4>1. d \in DOMAIN image.components
        BY <2>1 DEF Accepted
      <4>2. scaled.v = image.components[d].v /\ scaled.h = image.components[d].h
        BY <2>1, <4>1 DEF StatsRead
      <4>3. image.components[d].h \in {1, 2} /\ image.components[d].v \in {1, 2}
        BY <2>1, <4>1 DEF Accepted
      <4>4. image.components[d].h =< h /\ image.components[d].v =< v
        BY <2>1, <4>1, FactorsBound
      <4> QED
        BY <4>2, <4>3, <4>4
    <3> HIDE DEF h, v, scaled
    <3>3. a \in Int /\ b \in Int
      <4>1. v \div scaled.v \in {1, 2} /\ h \div scaled.h \in {1, 2}
        BY <2>2, <3>2
      <4>2. \A n \in Nat : n \div 1 \in Int /\ n \div 2 \in Int
        OBVIOUS
      <4> QED
        BY <2>3, <4>1, <4>2
    <3> HIDE DEF a, b
    <3> QED
      BY <3>1, <3>3
  <2> QED
    BY <2>10, <2>11
<1> QED
  BY <1>1, DecoderInvariant, PTL

-----------------------------------------------------------------------------
(* A bit of the scan is read for a component of the image, whose tables    *)
(* are there.                                                              *)
TablesInUse ==
  phase \in {"symbol", "bits"} =>
    /\ Num \in DOMAIN file.image.components
    /\ qtables_[Channel.q] # NoQTable
    /\ dc_[Channel.dc] # NoTree
    /\ ac_[Channel.ac] # NoTree

(* The least of up to three numbers.                                       *)
LEMMA LeastOfThree ==
  ASSUME NEW S \in SUBSET {1, 2, 3}, S # {}
  PROVE  Min(S) \in S /\ \A x \in S : Min(S) =< x
<1>1. \E m \in S : \A x \in S : m =< x
  <2>1. CASE 1 \in S
    BY <2>1
  <2>2. CASE 1 \notin S /\ 2 \in S
    BY <2>2
  <2>3. CASE 1 \notin S /\ 2 \notin S
    <3>1. S = {3}
      BY <2>3
    <3> QED
      BY <3>1
  <2> QED
    BY <2>1, <2>2, <2>3
<1> QED
  BY <1>1 DEF Min

(* Scan never follows a table that is not there: CheckFields was passed,   *)
(* tables do not change any more, and ChannelNum answers with a component  *)
(* of the image for every block.                                           *)
THEOREM DecoderUsesTables == DecoderSpec => []TablesInUse
<1>1. DecoderInv => TablesInUse
  <2> SUFFICES ASSUME DecoderInv, phase \in {"symbol", "bits"}
               PROVE  /\ Num \in DOMAIN file.image.components
                      /\ qtables_[Channel.q] # NoQTable
                      /\ dc_[Channel.dc] # NoTree
                      /\ ac_[Channel.ac] # NoTree
    BY DEF TablesInUse
  <2> DEFINE components == file.image.components
             D == DOMAIN components
             n == Len(output)
             cnt == stats_.mcu_block_cnt_
             S == {c \in Channels : n % cnt < SumFunctionOnSet(Blocks, 1 .. c)}
  <2>1. Accepted(file.image) /\ StatsRead(stats_, file.image) /\ CheckFields(stats_.channels_)
    BY FrameRead DEF DecoderInv, ScanSound
  <2>2. n \in Nat
    <3>1. IsSequence(output)
      BY DEF DecoderInv, ScanSound
    <3> QED
      BY <3>1, AppendIsSequence
  <2>3. PICK last \in {1, 2, 3} : D = 1 .. last
    <3>1. D \in {{1}, {1, 2}, {1, 2, 3}}
      BY <2>1 DEF Accepted
    <3>2. {1} = 1 .. 1 /\ {1, 2} = 1 .. 2 /\ {1, 2, 3} = 1 .. 3
      OBVIOUS
    <3> QED
      BY <3>1, <3>2
  <2>4. \A d \in D : components[d].h \in {1, 2} /\ components[d].v \in {1, 2}
    BY <2>1 DEF Accepted
  <2>5. \A d \in D : Blocks[d] = BlocksIn(components)[d] /\ Blocks[d] \in Nat \ {0}
    <3> SUFFICES ASSUME NEW d \in D
                 PROVE  Blocks[d] = BlocksIn(components)[d] /\ Blocks[d] \in Nat \ {0}
      OBVIOUS
    <3>1. d \in Channels
      BY <2>3 DEF Channels
    <3>2. stats_.channels_[d].h = components[d].h /\ stats_.channels_[d].v = components[d].v
      BY <2>1 DEF StatsRead
    <3> QED
      BY <3>1, <3>2, <2>4 DEF Blocks, BlocksIn
  <2>6. cnt = SumFunctionOnSet(Blocks, 1 .. last) /\ cnt \in Nat \ {0}
    <3> DEFINE B == BlocksIn(components)
    <3>1. cnt = SumFunctionOnSet(B, 1 .. last)
      <4>1. DOMAIN B = D
        BY DEF BlocksIn
      <4> QED
        BY <4>1, <2>1, <2>3 DEF StatsRead, SumFunction
    <3>2. (1 .. last) \in SUBSET {1, 2, 3}
      OBVIOUS
    <3>3. \A d \in 1 .. last : Blocks[d] = B[d] /\ Blocks[d] \in Int /\ B[d] \in Int /\ Blocks[d] > 0
      BY <2>3, <2>5
    <3> HIDE DEF B, cnt
    <3>4. SumFunctionOnSet(B, 1 .. last)
            = (IF 1 \in 1 .. last THEN B[1] ELSE 0) + (IF 2 \in 1 .. last THEN B[2] ELSE 0)
                + (IF 3 \in 1 .. last THEN B[3] ELSE 0)
      BY <3>2, <3>3, SumOfThree
    <3>5. SumFunctionOnSet(Blocks, 1 .. last)
            = (IF 1 \in 1 .. last THEN Blocks[1] ELSE 0) + (IF 2 \in 1 .. last THEN Blocks[2] ELSE 0)
                + (IF 3 \in 1 .. last THEN Blocks[3] ELSE 0)
      BY <3>2, <3>3, SumOfThree
    <3> QED
      BY <3>1, <3>3, <3>4, <3>5
  <2>7. n % cnt < cnt
    BY <2>2, <2>6
  <2>8. last \in S
    BY <2>6, <2>7 DEF Channels
  <2>9. Min(S) \in S /\ Min(S) =< last
    <3>1. S \in SUBSET {1, 2, 3}
      BY DEF Channels
    <3> HIDE DEF S
    <3> QED
      BY <3>1, <2>8, LeastOfThree
  <2>10. Num = Min(S)
    BY DEF Num, ChannelNum
  <2>11. Num \in D /\ Num \in Channels
    <3>1. Min(S) \in Channels
      BY <2>9
    <3> HIDE DEF S
    <3>2. Min(S) \in 1 .. last
      BY <3>1, <2>9 DEF Channels
    <3> QED
      BY <3>1, <3>2, <2>10, <2>3
  <2>12. stats_.channels_[Num] # NoChannel
    <3>1. stats_.channels_[Num].h = components[Num].h
      BY <2>11, <2>1 DEF StatsRead
    <3>2. components[Num].h # 0
      BY <2>11, <2>4
    <3> QED
      BY <3>1, <3>2 DEF NoChannel
  <2> QED
    BY <2>1, <2>11, <2>12 DEF CheckFields, Channel
<1> QED
  BY <1>1, DecoderInvariant, PTL

(* A set of naturals has a least one.                                      *)
LEMMA LeastExists ==
  ASSUME NEW T \in SUBSET Nat, T # {}
  PROVE  \E x \in T : \A y \in T : x =< y
<1>1. PICK n \in T : TRUE
  OBVIOUS
<1> DEFINE S == {n - y : y \in {y \in T : y =< n}}
<1>2. S \in SUBSET (0 .. n) /\ n - n \in S
  <2>1. ASSUME NEW y \in T, y =< n
        PROVE  n - y \in 0 .. n
    BY <1>1, <2>1
  <2>2. S \subseteq 0 .. n
    BY <2>1
  <2>3. n =< n
    BY <1>1
  <2>4. n - n \in S
    BY <1>1, <2>3
  <2> QED
    BY <2>2, <2>4
<1>3. Max(S) \in S /\ \A z \in S : Max(S) >= z
  <2> HIDE DEF S
  <2> QED
    BY <1>1, <1>2, MaxIsGreatest
<1>4. PICK x \in T : x =< n /\ Max(S) = n - x
  BY <1>3
<1>5. \A y \in T : x =< y
  <2> SUFFICES ASSUME NEW y \in T, y < x PROVE FALSE
    BY <1>1
  <2>1. y =< n
    <3>1. x =< n
      BY <1>4
    <3> HIDE DEF S
    <3> QED
      BY <1>1, <3>1
  <2>2. n - y \in S
    BY <2>1
  <2>3. n - x >= n - y
    BY <1>3, <1>4, <2>2
  <2> QED
    BY <1>1, <2>3
<1> QED
  BY <1>5

(* Pieces of a sequence, and pieces of these.                              *)
LEMMA PieceOf ==
  ASSUME NEW S, NEW s \in Seq(S), NEW i \in 1 .. Len(s) + 1, NEW j \in i - 1 .. Len(s)
  PROVE  /\ SubSeq(s, i, j) \in Seq(S)
         /\ Len(SubSeq(s, i, j)) = j - i + 1
         /\ \A k \in 1 .. j - i + 1 : SubSeq(s, i, j)[k] = s[i + k - 1]
<1>1. Len(s) \in Nat /\ i \in Int /\ j \in Int
  BY LenProperties
<1>2. \A k \in i .. j : s[k] \in S
  BY <1>1, ElementOfSeq
<1> QED
  BY <1>1, <1>2, SubSeqProperties

LEMMA PieceOfPiece ==
  ASSUME NEW S, NEW s \in Seq(S), NEW i \in 1 .. Len(s) + 1, NEW j \in i - 1 .. Len(s),
         NEW m \in 1 .. j - i + 2, NEW n \in m - 1 .. j - i + 1
  PROVE  SubSeq(SubSeq(s, i, j), m, n) = SubSeq(s, i + m - 1, i + n - 1)
<1> DEFINE t == SubSeq(s, i, j)
<1>1. Len(s) \in Nat /\ i \in Int /\ j \in Int /\ m \in Int /\ n \in Int
  BY LenProperties
<1>2. t \in Seq(S) /\ Len(t) = j - i + 1 /\ \A k \in 1 .. j - i + 1 : t[k] = s[i + k - 1]
  BY PieceOf
<1>3. /\ SubSeq(t, m, n) \in Seq(S) /\ Len(SubSeq(t, m, n)) = n - m + 1
      /\ \A k \in 1 .. n - m + 1 : SubSeq(t, m, n)[k] = t[m + k - 1]
  <2> HIDE DEF t
  <2> QED
    BY <1>1, <1>2, PieceOf
<1> DEFINE u == SubSeq(s, i + m - 1, i + n - 1)
<1>4. i + m - 1 \in 1 .. Len(s) + 1 /\ i + n - 1 \in (i + m - 1) - 1 .. Len(s)
  BY <1>1
<1>5. /\ u \in Seq(S) /\ Len(u) = n - m + 1
      /\ \A k \in 1 .. n - m + 1 : u[k] = s[i + m - 1 + k - 1]
  <2>1. /\ u \in Seq(S) /\ Len(u) = (i + n - 1) - (i + m - 1) + 1
        /\ \A k \in 1 .. (i + n - 1) - (i + m - 1) + 1 : u[k] = s[(i + m - 1) + k - 1]
    BY <1>4, PieceOf
  <2> QED
    BY <2>1, <1>1
<1>6. \A k \in 1 .. n - m + 1 : SubSeq(t, m, n)[k] = u[k]
  <2> SUFFICES ASSUME NEW k \in 1 .. n - m + 1 PROVE SubSeq(t, m, n)[k] = u[k]
    OBVIOUS
  <2>1. m + k - 1 \in 1 .. j - i + 1
    BY <1>1
  <2>2. t[m + k - 1] = s[i + (m + k - 1) - 1] /\ i + (m + k - 1) - 1 = i + m - 1 + k - 1
    BY <1>1, <1>2, <2>1
  <2> QED
    BY <1>3, <1>5, <2>2
<1> HIDE DEF t, u
<1>7. SubSeq(t, m, n) = u
  BY <1>1, <1>3, <1>5, <1>6, SeqEqual
<1> QED
  BY <1>7 DEF t, u

LEMMA PieceInPiece ==
  ASSUME NEW S, NEW s \in Seq(S), NEW i \in 0 .. Len(s), NEW j \in i .. Len(s),
         NEW a \in 0 .. j - i, NEW b \in a .. j - i
  PROVE  SubSeq(SubSeq(s, i + 1, j), a + 1, b) = SubSeq(s, i + a + 1, i + b)
<1>1. Len(s) \in Nat /\ i \in Int /\ j \in Int /\ a \in Int /\ b \in Int
  BY LenProperties
<1> DEFINE x == i + 1
           y == a + 1
<1>2. /\ x \in 1 .. Len(s) + 1 /\ j \in x - 1 .. Len(s)
      /\ y \in 1 .. j - x + 2 /\ b \in y - 1 .. j - x + 1
  BY <1>1
<1>3. x + y - 1 = i + a + 1 /\ x + b - 1 = i + b
  BY <1>1
<1> HIDE DEF x, y
<1>4. SubSeq(SubSeq(s, x, j), y, b) = SubSeq(s, x + y - 1, x + b - 1)
  BY <1>2, PieceOfPiece
<1> QED
  BY <1>3, <1>4 DEF x, y

-----------------------------------------------------------------------------
(* The lexemes of a text.  The rule for them speaks of shorter texts only, *)
(* so there is one function that obeys it.                                 *)
Words == Seq(Characters)

LEMMA LongestIs ==
  ASSUME NEW s \in Seq(Characters), s # <<>>
  PROVE  /\ Longest(s) \in 1 .. Len(s)
         /\ \A n \in 1 .. Len(s) : IsLexeme(SubSeq(s, 1, n)) => n =< Longest(s)
         /\ Longest(s) = 1 \/ IsLexeme(SubSeq(s, 1, Longest(s)))
<1> DEFINE S == {1} \union {n \in 1 .. Len(s) : IsLexeme(SubSeq(s, 1, n))}
<1>1. Len(s) \in Nat /\ Len(s) >= 1
  BY EmptySeq, LenProperties
<1>2. S \in SUBSET (0 .. Len(s)) /\ S # {}
  BY <1>1
<1>3. Longest(s) = Max(S)
  BY DEF Longest
<1>4. Max(S) \in S /\ \A y \in S : Max(S) >= y
  <2> HIDE DEF S
  <2> QED
    BY <1>1, <1>2, MaxIsGreatest
<1>5. Longest(s) \in S /\ \A y \in S : Longest(s) >= y
  BY <1>3, <1>4
<1> QED
  BY <1>1, <1>5

LEMMA LexemesByDepends ==
  ASSUME NEW f, NEW g, NEW s \in Seq(Characters),
         \A r \in Seq(Characters) : Len(r) < Len(s) => f[r] = g[r] /\ f[r] \in Seq(Words)
  PROVE  LexemesBy(f, s) = LexemesBy(g, s) /\ LexemesBy(f, s) \in Seq(Words)
<1>1. CASE s = <<>>
  BY <1>1, EmptySeq DEF LexemesBy
<1>2. CASE s # <<>>
  <2>1. Len(s) \in Nat /\ Len(s) >= 1
    BY <1>2, EmptySeq, LenProperties
  <2>2. Tail(s) \in Seq(Characters) /\ Len(Tail(s)) < Len(s)
    BY <1>2, <2>1, HeadTailProperties
  <2>3. Longest(s) \in 1 .. Len(s)
    BY <1>2, LongestIs
  <2> DEFINE rest == SubSeq(s, Longest(s) + 1, Len(s))
             w == SubSeq(s, 1, Longest(s))
  <2>4. rest \in Seq(Characters) /\ Len(rest) < Len(s)
    <3>1. Longest(s) + 1 \in 1 .. Len(s) + 1 /\ Len(s) \in (Longest(s) + 1) - 1 .. Len(s)
      BY <2>1, <2>3
    <3> QED
      BY <2>1, <2>3, <3>1, PieceOf
  <2>5. w \in Words
    BY <2>1, <2>3, PieceOf DEF Words
  <2>6. <<FirstLexeme(s)>> \in Seq(Words)
    BY <2>5 DEF FirstLexeme
  <2>7. f[rest] = g[rest] /\ f[rest] \in Seq(Words) /\ f[Tail(s)] = g[Tail(s)] /\ f[Tail(s)] \in Seq(Words)
    BY <2>2, <2>4
  <2>8. <<FirstLexeme(s)>> \o f[rest] \in Seq(Words)
    <3> HIDE DEF rest
    <3> QED
      BY <2>6, <2>7, ConcatProperties
  <2> QED
    BY <1>2, <2>7, <2>8 DEF LexemesBy
<1> QED
  BY <1>1, <1>2

UpToLength(n) == {s \in Seq(Characters) : Len(s) =< n}
CutsUpTo(f, n) ==
  /\ f \in [UpToLength(n) -> Seq(Words)]
  /\ \A s \in UpToLength(n) : f[s] = LexemesBy(f, s)

LEMMA CutsAgree ==
  ASSUME NEW m \in Nat, NEW n \in Nat, NEW f, NEW g, CutsUpTo(f, m), CutsUpTo(g, n)
  PROVE  \A s \in Seq(Characters) : Len(s) =< m /\ Len(s) =< n => f[s] = g[s]
<1> DEFINE Differ == {s \in Seq(Characters) : Len(s) =< m /\ Len(s) =< n /\ f[s] # g[s]}
           T == {Len(s) : s \in Differ}
<1> SUFFICES ASSUME Differ # {} PROVE FALSE
  OBVIOUS
<1>1. T \in SUBSET Nat /\ T # {}
  <2>1. \A s \in Differ : Len(s) \in Nat
    BY LenProperties
  <2> HIDE DEF Differ
  <2> QED
    BY <2>1
<1>2. PICK l \in T : \A k \in T : l =< k
  <2> HIDE DEF T
  <2> QED
    BY <1>1, LeastExists
<1>3. PICK s \in Differ : Len(s) = l
  OBVIOUS
<1>4. \A r \in Seq(Characters) : Len(r) < Len(s) => f[r] = g[r] /\ f[r] \in Seq(Words)
  <2> SUFFICES ASSUME NEW r \in Seq(Characters), Len(r) < Len(s)
               PROVE  f[r] = g[r] /\ f[r] \in Seq(Words)
    OBVIOUS
  <2>1. Len(r) \in Nat /\ Len(s) \in Nat /\ Len(s) =< m /\ Len(s) =< n
    BY <1>3, LenProperties
  <2>2. Len(r) \notin T
    <3> HIDE DEF T
    <3> QED
      BY <1>1, <1>2, <1>3, <2>1
  <2>3. r \notin Differ
    <3> HIDE DEF Differ
    <3> QED
      BY <2>2
  <2> QED
    BY <2>1, <2>3 DEF CutsUpTo, UpToLength
<1>5. LexemesBy(f, s) = LexemesBy(g, s)
  BY <1>4, LexemesByDepends
<1>6. f[s] = LexemesBy(f, s) /\ g[s] = LexemesBy(g, s)
  BY DEF CutsUpTo, UpToLength
<1> QED
  BY <1>5, <1>6

LEMMA CutsExist ==
  ASSUME NEW n \in Nat
  PROVE  \E f : CutsUpTo(f, n)
<1> DEFINE Without == {m \in Nat : ~ \E f : CutsUpTo(f, m)}
<1> SUFFICES ASSUME Without # {} PROVE FALSE
  OBVIOUS
<1>1. PICK m \in Without : \A k \in Without : m =< k
  <2>1. Without \in SUBSET Nat
    OBVIOUS
  <2> HIDE DEF Without
  <2> QED
    BY <2>1, LeastExists
<1>2. m \in Nat /\ (m > 0 => m - 1 \in Nat /\ m - 1 \notin Without)
  BY <1>1
<1>3. PICK f : m > 0 => CutsUpTo(f, m - 1)
  BY <1>2
<1> DEFINE g == [s \in UpToLength(m) |-> LexemesBy(f, s)]
<1>4. \A s \in UpToLength(m) : LexemesBy(f, s) = LexemesBy(g, s) /\ LexemesBy(f, s) \in Seq(Words)
  <2> SUFFICES ASSUME NEW s \in UpToLength(m)
               PROVE  LexemesBy(f, s) = LexemesBy(g, s) /\ LexemesBy(f, s) \in Seq(Words)
    OBVIOUS
  <2>1. s \in Seq(Characters) /\ Len(s) \in Nat /\ Len(s) =< m
    BY LenProperties DEF UpToLength
  <2>2. ASSUME NEW r \in Seq(Characters), Len(r) < Len(s)
        PROVE  f[r] = g[r] /\ f[r] \in Seq(Words)
    <3>1. Len(r) \in Nat /\ Len(r) =< m - 1 /\ m > 0
      BY <1>2, <2>1, <2>2, LenProperties
    <3>2. r \in UpToLength(m - 1) /\ r \in UpToLength(m)
      BY <1>2, <3>1 DEF UpToLength
    <3>3. f[r] = LexemesBy(f, r) /\ f[r] \in Seq(Words)
      BY <1>3, <3>1, <3>2 DEF CutsUpTo
    <3> QED
      BY <3>2, <3>3
  <2> HIDE DEF g
  <2> QED
    BY <2>1, <2>2, LexemesByDepends
<1>5. CutsUpTo(g, m)
  BY <1>4 DEF CutsUpTo
<1> QED
  BY <1>1, <1>5

(* Lexemes obeys its rule.                                                 *)
LEMMA LexemesRule ==
  ASSUME NEW s \in Seq(Characters)
  PROVE  Lexemes[s] = LexemesBy(Lexemes, s) /\ Lexemes[s] \in Seq(Words)
<1> DEFINE f == [r \in Seq(Characters) |-> (CHOOSE h : CutsUpTo(h, Len(r)))[r]]
<1>1. ASSUME NEW r \in Seq(Characters)
      PROVE  f[r] = LexemesBy(f, r) /\ LexemesBy(f, r) \in Seq(Words)
  <2>1. Len(r) \in Nat
    BY LenProperties
  <2>2. PICK h : h = CHOOSE g : CutsUpTo(g, Len(r))
    OBVIOUS
  <2>3. CutsUpTo(h, Len(r))
    BY <2>1, <2>2, CutsExist
  <2>4. f[r] = h[r]
    BY <2>2
  <2>5. h[r] = LexemesBy(h, r)
    BY <2>1, <2>3 DEF CutsUpTo, UpToLength
  <2>6. ASSUME NEW q \in Seq(Characters), Len(q) < Len(r)
        PROVE  h[q] = f[q] /\ h[q] \in Seq(Words)
    <3>1. Len(q) \in Nat /\ Len(q) =< Len(r)
      BY <2>1, <2>6, LenProperties
    <3>2. PICK k : k = CHOOSE g : CutsUpTo(g, Len(q))
      OBVIOUS
    <3>3. CutsUpTo(k, Len(q))
      BY <3>1, <3>2, CutsExist
    <3>4. f[q] = k[q]
      BY <3>2
    <3>5. k[q] = h[q]
      BY <2>1, <2>3, <3>1, <3>3, CutsAgree
    <3>6. h[q] \in Seq(Words)
      BY <2>3, <3>1 DEF CutsUpTo, UpToLength
    <3> QED
      BY <3>4, <3>5, <3>6
  <2> HIDE DEF f
  <2>7. LexemesBy(h, r) = LexemesBy(f, r) /\ LexemesBy(h, r) \in Seq(Words)
    BY <2>6, LexemesByDepends
  <2> QED
    BY <2>4, <2>5, <2>7
<1>2. f = [r \in Seq(Characters) |-> LexemesBy(f, r)]
  <2>1. f = [r \in Seq(Characters) |-> f[r]]
    OBVIOUS
  <2> HIDE DEF f
  <2> QED
    BY <1>1, <2>1
<1>3. Lexemes = [r \in Seq(Characters) |-> LexemesBy(Lexemes, r)]
  <2> HIDE DEF f
  <2> QED
    BY <1>2 DEF Lexemes
<1>4. \A r \in Seq(Characters) : Lexemes[r] = LexemesBy(Lexemes, r)
  BY <1>3
<1> DEFINE Wrong == {r \in Seq(Characters) : Lexemes[r] \notin Seq(Words)}
           T == {Len(r) : r \in Wrong}
<1> SUFFICES ASSUME s \in Wrong PROVE FALSE
  BY <1>4
<1> HIDE DEF f
<1>5. T \in SUBSET Nat /\ T # {}
  <2>1. \A r \in Wrong : Len(r) \in Nat
    BY LenProperties
  <2> HIDE DEF Wrong
  <2> QED
    BY <2>1
<1>6. PICK l \in T : \A k \in T : l =< k
  <2> HIDE DEF T
  <2> QED
    BY <1>5, LeastExists
<1>7. PICK r \in Wrong : Len(r) = l
  OBVIOUS
<1>8. ASSUME NEW q \in Seq(Characters), Len(q) < Len(r)
      PROVE  Lexemes[q] \in Seq(Words)
  <2>1. Len(q) \in Nat /\ Len(r) \in Nat
    BY <1>7, LenProperties
  <2>2. Len(q) \notin T
    <3> HIDE DEF T
    <3> QED
      BY <1>5, <1>6, <1>7, <1>8, <2>1
  <2> QED
    BY <2>2
<1>9. LexemesBy(Lexemes, r) \in Seq(Words)
  BY <1>7, <1>8, LexemesByDepends
<1> QED
  BY <1>4, <1>7, <1>9

-----------------------------------------------------------------------------
(* The token that stands for a lexeme.                                     *)
TokenOf(w) ==
  IF w = <<"(">> THEN Open
  ELSE IF w = <<")">> THEN Close
  ELSE IF w = <<"'">> THEN Quote
  ELSE IF w = <<".">> THEN Dot
  ELSE IF IsNumeral(w) THEN Stoi(w) ELSE SymbolToken(w)

LEMMA DigitsAre ==
  Digits = {"0", "1", "2", "3", "4", "5", "6", "7", "8", "9"}
<1>1. DOMAIN DecimalDigits = 1 .. 10
  BY DEF DecimalDigits
<1>2. Digits = {DecimalDigits[i] : i \in 1 .. 10}
  BY <1>1 DEF Digits, Range
<1>3. \A i \in 1 .. 10 : i = 1 \/ i = 2 \/ i = 3 \/ i = 4 \/ i = 5 \/ i = 6 \/ i = 7 \/ i = 8 \/ i = 9 \/ i = 10
  OBVIOUS
<1>4. /\ DecimalDigits[1] = "0" /\ DecimalDigits[2] = "1" /\ DecimalDigits[3] = "2"
      /\ DecimalDigits[4] = "3" /\ DecimalDigits[5] = "4" /\ DecimalDigits[6] = "5"
      /\ DecimalDigits[7] = "6" /\ DecimalDigits[8] = "7" /\ DecimalDigits[9] = "8"
      /\ DecimalDigits[10] = "9"
  BY DEF DecimalDigits
<1>5. \A x \in Digits : x \in {"0", "1", "2", "3", "4", "5", "6", "7", "8", "9"}
  BY <1>2, <1>3, <1>4
<1>6. /\ 1 \in 1 .. 10 /\ 2 \in 1 .. 10 /\ 3 \in 1 .. 10 /\ 4 \in 1 .. 10 /\ 5 \in 1 .. 10
      /\ 6 \in 1 .. 10 /\ 7 \in 1 .. 10 /\ 8 \in 1 .. 10 /\ 9 \in 1 .. 10 /\ 10 \in 1 .. 10
  OBVIOUS
<1>7. \A x \in {"0", "1", "2", "3", "4", "5", "6", "7", "8", "9"} : x \in Digits
  BY <1>2, <1>4, <1>6
<1> QED
  BY <1>5, <1>7

(* No character can begin lexemes of two kinds.                            *)
LEMMA KindsDiffer ==
  /\ Digits \intersect Signs = {} /\ Digits \intersect Marks = {} /\ Signs \intersect Marks = {}
  /\ Letters \intersect Digits = {} /\ Letters \intersect Signs = {} /\ Letters \intersect Marks = {}
  /\ (UNION {Digits, Letters, Inside}) \intersect Blanks = {}
<1>1. /\ Digits \intersect Signs = {} /\ Digits \intersect Marks = {} /\ Signs \intersect Marks = {}
  BY DigitsAre DEF Signs, Marks
<1>2. Digits \intersect Blanks = {}
  BY DigitsAre DEF Blanks
<1>3. /\ \A x \in Letters : x \notin Digits /\ x \notin Signs /\ x \notin Marks /\ x \notin Blanks
      /\ \A x \in Inside : x \notin Blanks
  BY AlphabetAssumption
<1> QED
  BY <1>1, <1>2, <1>3

LEMMA DigitsAreCharacters ==
  Digits \subseteq Characters
  BY DEF Characters

(* A loop over peek takes the characters it wants, and no others.          *)
LEMMA TakenIs ==
  ASSUME NEW s \in Seq(Characters), NEW i \in 1 .. Len(s) + 1, NEW wanted
  PROVE  /\ Taken(s, i, wanted) \in 0 .. Len(s) + 1 - i
         /\ \A j \in i .. i + Taken(s, i, wanted) - 1 : s[j] \in wanted
         /\ i + Taken(s, i, wanted) =< Len(s) => s[i + Taken(s, i, wanted)] \notin wanted
<1> DEFINE S == {n \in i .. Len(s) : s[n] \notin wanted} \union {Len(s) + 1}
<1>1. Len(s) \in Nat /\ i \in Nat
  BY LenProperties
<1>2. S \in SUBSET Nat /\ S # {} /\ \A x \in S : x \in i .. Len(s) + 1
  BY <1>1
<1>3. PICK m \in S : \A y \in S : m =< y
  <2> HIDE DEF S
  <2> QED
    BY <1>2, LeastExists
<1>4. Min(S) = m
  <2> HIDE DEF S
  <2>1. Min(S) \in S /\ \A y \in S : Min(S) =< y
    BY <1>3 DEF Min
  <2>2. Min(S) =< m /\ m =< Min(S) /\ m \in Nat /\ Min(S) \in Nat
    BY <1>2, <1>3, <2>1
  <2> QED
    BY <2>2
<1>5. Taken(s, i, wanted) = m - i
  BY <1>4 DEF Taken
<1>6. m \in i .. Len(s) + 1
  BY <1>2
<1>7. \A j \in i .. m - 1 : s[j] \in wanted
  <2> SUFFICES ASSUME NEW j \in i .. m - 1, s[j] \notin wanted PROVE FALSE
    OBVIOUS
  <2>1. j \in S /\ j < m
    BY <1>1, <1>6
  <2> QED
    BY <1>3, <1>6, <2>1
<1>8. m =< Len(s) => s[m] \notin wanted
  BY <1>1, <1>3
<1>9. i + (m - i) = m /\ m - i \in 0 .. Len(s) + 1 - i
  BY <1>1, <1>6
<1> HIDE DEF S
<1> QED
  BY <1>5, <1>7, <1>8, <1>9

(* Which beginnings of a text are lexemes.                                 *)
LEMMA PrefixLexeme ==
  ASSUME NEW s \in Seq(Characters), NEW k \in 1 .. Len(s)
  PROVE  LET p == SubSeq(s, 1, k) IN
         /\ p \in Words /\ Len(p) = k
         /\ IsNumeral(p) <=> \/ \A j \in 1 .. k : s[j] \in Digits
                             \/ k > 1 /\ s[1] \in Signs /\ \A j \in 2 .. k : s[j] \in Digits
         /\ IsName(p) <=>
              \/ s[1] \in Letters /\ \A j \in 2 .. k : s[j] \in Letters \union Digits \union Inside
              \/ k = 1 /\ s[1] \in Signs
         /\ \A c : p = <<c>> <=> k = 1 /\ s[1] = c
<1> DEFINE p == SubSeq(s, 1, k)
<1>1. Len(s) \in Nat /\ k \in Nat /\ k >= 1
  BY LenProperties
<1>2. p \in Seq(Characters) /\ Len(p) = k /\ \A j \in 1 .. k : p[j] = s[j]
  <2>1. 1 \in 1 .. Len(s) + 1 /\ k \in 1 - 1 .. Len(s)
    BY <1>1
  <2>2. p \in Seq(Characters) /\ Len(p) = k - 1 + 1 /\ \A j \in 1 .. k - 1 + 1 : p[j] = s[1 + j - 1]
    BY <2>1, PieceOf
  <2>3. k - 1 + 1 = k /\ \A j \in 1 .. k : 1 + j - 1 = j
    BY <1>1
  <2> QED
    BY <2>2, <2>3
<1> HIDE DEF p
<1>3. DOMAIN p = 1 .. k /\ p # <<>>
  BY <1>1, <1>2, LenProperties, EmptySeq
<1>4. Head(p) = s[1]
  BY <1>1, <1>2, <1>3
<1>5. /\ Tail(p) \in Seq(Characters) /\ Len(Tail(p)) = k - 1 /\ DOMAIN Tail(p) = 1 .. k - 1
      /\ \A j \in 1 .. k - 1 : Tail(p)[j] = s[j + 1]
  <2>1. /\ Tail(p) \in Seq(Characters) /\ Len(Tail(p)) = Len(p) - 1
        /\ \A j \in 1 .. Len(Tail(p)) : Tail(p)[j] = p[j + 1]
    BY <1>2, <1>3, HeadTailProperties
  <2>2. DOMAIN Tail(p) = 1 .. Len(Tail(p))
    BY <2>1, LenProperties
  <2>3. \A j \in 1 .. k - 1 : j + 1 \in 1 .. k
    BY <1>1
  <2> QED
    BY <1>2, <2>1, <2>2, <2>3
<1>6. \A S : All(p, S) <=> \A j \in 1 .. k : s[j] \in S
  BY <1>2, <1>3 DEF All
<1>7. \A S : All(Tail(p), S) <=> \A j \in 2 .. k : s[j] \in S
  <2> SUFFICES ASSUME NEW S PROVE All(Tail(p), S) <=> \A j \in 2 .. k : s[j] \in S
    OBVIOUS
  <2>1. ASSUME All(Tail(p), S), NEW j \in 2 .. k PROVE s[j] \in S
    <3>1. j - 1 \in 1 .. k - 1 /\ (j - 1) + 1 = j
      BY <1>1
    <3>2. Tail(p)[j - 1] = s[j]
      BY <1>5, <3>1
    <3> QED
      BY <1>5, <2>1, <3>1, <3>2 DEF All
  <2>2. ASSUME \A j \in 2 .. k : s[j] \in S PROVE All(Tail(p), S)
    <3> SUFFICES ASSUME NEW j \in 1 .. k - 1 PROVE Tail(p)[j] \in S
      BY <1>5 DEF All
    <3>1. j + 1 \in 2 .. k
      BY <1>1
    <3> QED
      BY <1>5, <2>2, <3>1
  <2> QED
    BY <2>1, <2>2
<1>8. IsNumeral(p) <=> \/ \A j \in 1 .. k : s[j] \in Digits
                       \/ k > 1 /\ s[1] \in Signs /\ \A j \in 2 .. k : s[j] \in Digits
  BY <1>2, <1>4, <1>6, <1>7 DEF IsNumeral
<1>9. IsName(p) <=>
        \/ s[1] \in Letters /\ \A j \in 2 .. k : s[j] \in Letters \union Digits \union Inside
        \/ k = 1 /\ s[1] \in Signs
  BY <1>2, <1>4, <1>7 DEF IsName
<1>10. \A c : p = <<c>> <=> k = 1 /\ s[1] = c
  <2> SUFFICES ASSUME NEW c PROVE p = <<c>> <=> k = 1 /\ s[1] = c
    OBVIOUS
  <2>1. ASSUME p = <<c>> PROVE k = 1 /\ s[1] = c
    <3>1. Len(<<c>>) = 1 /\ Head(<<c>>) = c
      OBVIOUS
    <3> QED
      BY <1>2, <1>4, <2>1, <3>1
  <2>2. ASSUME k = 1, s[1] = c PROVE p = <<c>>
    <3>1. Len(<<c>>) = 1 /\ <<c>>[1] = c
      OBVIOUS
    <3>2. <<c>> \in Seq(Characters)
      BY <1>1, <2>2, ElementOfSeq
    <3>3. \A j \in 1 .. Len(p) : p[j] = <<c>>[j]
      BY <1>2, <2>2, <3>1
    <3> QED
      BY <1>2, <2>2, <3>1, <3>2, <3>3, SeqEqual
  <2> QED
    BY <2>1, <2>2
<1> QED
  BY <1>2, <1>8, <1>9, <1>10 DEF p, Words

LEMMA LongestUnique ==
  ASSUME NEW s \in Seq(Characters), NEW m \in 1 .. Len(s),
         m = 1 \/ IsLexeme(SubSeq(s, 1, m)),
         \A n \in 1 .. Len(s) : IsLexeme(SubSeq(s, 1, n)) => n =< m
  PROVE  Longest(s) = m
<1>1. Len(s) \in Nat /\ s # <<>>
  BY LenProperties, EmptySeq
<1>2. /\ Longest(s) \in 1 .. Len(s)
      /\ \A n \in 1 .. Len(s) : IsLexeme(SubSeq(s, 1, n)) => n =< Longest(s)
      /\ Longest(s) = 1 \/ IsLexeme(SubSeq(s, 1, Longest(s)))
  BY <1>1, LongestIs
<1> QED
  BY <1>1, <1>2

(* GetToken takes the first lexeme of what is left, and gives its token.   *)
LEMMA TokenIsLexeme ==
  ASSUME NEW s \in Seq(Characters), s # <<>>, IsLexeme(FirstLexeme(s))
  PROVE  TokenAt(s) = <<TokenOf(FirstLexeme(s)), Longest(s)>>
<1> DEFINE c == s[1]
           p(k) == SubSeq(s, 1, k)
<1>1. Len(s) \in Nat /\ Len(s) >= 1 /\ 1 \in 1 .. Len(s) /\ Head(s) = c /\ c \in Characters
  <2>1. Len(s) \in Nat /\ Len(s) >= 1
    BY LenProperties, EmptySeq
  <2> QED
    BY <2>1, ElementOfSeq
<1>2. \A k \in 1 .. Len(s) :
        /\ Len(p(k)) = k
        /\ IsNumeral(p(k)) <=> \/ \A j \in 1 .. k : s[j] \in Digits
                               \/ k > 1 /\ s[1] \in Signs /\ \A j \in 2 .. k : s[j] \in Digits
        /\ IsName(p(k)) <=>
             \/ s[1] \in Letters /\ \A j \in 2 .. k : s[j] \in Letters \union Digits \union Inside
             \/ k = 1 /\ s[1] \in Signs
        /\ \A x : p(k) = <<x>> <=> k = 1 /\ s[1] = x
  BY PrefixLexeme
<1> HIDE DEF p
<1>3. \A k \in 1 .. Len(s) : 1 \in 1 .. k
  OBVIOUS
<1>4. FirstLexeme(s) = p(Longest(s))
  BY DEF FirstLexeme, p
<1>5. \A m \in 1 .. Len(s) :
        /\ m = 1 \/ IsLexeme(p(m))
        /\ \A n \in 1 .. Len(s) : IsLexeme(p(n)) => n =< m
        => Longest(s) = m
  BY LongestUnique DEF p
<1>6. \A k \in 1 .. Len(s) : (\E x \in Marks : p(k) = <<x>>) => k = 1 /\ c \in Marks
  BY <1>2
<1>7. ASSUME c \in Marks
      PROVE  /\ Longest(s) = 1 /\ FirstLexeme(s) = <<c>> /\ IsLexeme(<<c>>)
             /\ TokenAt(s) = <<TokenOf(<<c>>), 1>>
  <2>1. c \notin Digits /\ c \notin Signs /\ c \notin Letters
    BY <1>7, KindsDiffer
  <2>2. \A k \in 1 .. Len(s) : IsLexeme(p(k)) => k = 1
    BY <1>2, <1>3, <1>6, <2>1 DEF IsLexeme
  <2>3. Longest(s) = 1
    BY <1>1, <1>5, <2>2
  <2>4. p(1) = <<c>>
    BY <1>1, <1>2
  <2>5. IsLexeme(<<c>>)
    BY <1>7 DEF IsLexeme
  <2>6. TokenAt(s) = <<TokenOf(<<c>>), 1>>
    <3>1. \A x, y : <<x>> = <<y>> => x = y
      OBVIOUS
    <3> HIDE DEF c
    <3>2. TokenAt(s) = IF c = "'" THEN <<Quote, 1>> ELSE IF c = "." THEN <<Dot, 1>>
                       ELSE IF c = "(" THEN <<Open, 1>> ELSE <<Close, 1>>
      BY <1>1, <1>7, <2>1 DEF TokenAt, Marks, IsNumber, IsPlusOrMinus, IsStartSymbol
    <3>3. TokenOf(<<c>>) = IF c = "'" THEN Quote ELSE IF c = "." THEN Dot
                           ELSE IF c = "(" THEN Open ELSE Close
      BY <1>7, <3>1 DEF TokenOf, Marks
    <3> QED
      BY <3>2, <3>3
  <2> QED
    BY <1>4, <2>3, <2>4, <2>5, <2>6
<1>8. ASSUME c \notin Marks
      PROVE  /\ \A k \in 1 .. Len(s) : IsLexeme(p(k)) <=> IsNumeral(p(k)) \/ IsName(p(k))
             /\ \A k \in 1 .. Len(s) :
                  TokenOf(p(k)) = IF IsNumeral(p(k)) THEN Stoi(p(k)) ELSE SymbolToken(p(k))
             /\ TokenAt(s) = IF c \in Digits \union Signs THEN ReadConstant(s)
                             ELSE IF c \in Letters THEN ReadSymbol(s)
                             ELSE <<ConstantToken(0), 1>>
  <2>1. \A k \in 1 .. Len(s) : IsLexeme(p(k)) <=> IsNumeral(p(k)) \/ IsName(p(k))
    BY <1>6, <1>8 DEF IsLexeme
  <2>2. \A k \in 1 .. Len(s) : p(k) # <<"(">> /\ p(k) # <<")">> /\ p(k) # <<"'">> /\ p(k) # <<".">>
    BY <1>6, <1>8 DEF Marks
  <2>3. c # "(" /\ c # ")" /\ c # "'" /\ c # "."
    BY <1>8 DEF Marks
  <2> HIDE DEF c
  <2>4. \A k \in 1 .. Len(s) :
          TokenOf(p(k)) = IF IsNumeral(p(k)) THEN Stoi(p(k)) ELSE SymbolToken(p(k))
    BY <2>2 DEF TokenOf
  <2>5. TokenAt(s) = IF c \in Digits \union Signs THEN ReadConstant(s)
                     ELSE IF c \in Letters THEN ReadSymbol(s)
                     ELSE <<ConstantToken(0), 1>>
    BY <1>1, <2>3, KindsDiffer DEF TokenAt, IsNumber, IsPlusOrMinus, IsStartSymbol
  <2> QED
    BY <2>1, <2>4, <2>5
<1> DEFINE n == Taken(s, 2, Digits)
<1>9. /\ n \in 0 .. Len(s) - 1 /\ n + 1 \in 1 .. Len(s)
      /\ \A j \in 2 .. n + 1 : s[j] \in Digits
      /\ n + 1 < Len(s) => s[n + 2] \notin Digits
  <2>1. 2 \in 1 .. Len(s) + 1
    BY <1>1
  <2>2. /\ n \in 0 .. Len(s) + 1 - 2
        /\ \A j \in 2 .. 2 + n - 1 : s[j] \in Digits
        /\ 2 + n =< Len(s) => s[2 + n] \notin Digits
    BY <2>1, TakenIs
  <2> HIDE DEF n
  <2> QED
    BY <1>1, <2>2
<1> HIDE DEF n
<1>10. \A k \in 1 .. Len(s) : (\A j \in 2 .. k : s[j] \in Digits) => k =< n + 1
  <2> SUFFICES ASSUME NEW k \in 1 .. Len(s), \A j \in 2 .. k : s[j] \in Digits, k > n + 1
               PROVE  FALSE
    BY <1>9
  <2>1. n + 2 \in 2 .. k /\ n + 1 < Len(s)
    BY <1>1, <1>9
  <2> QED
    BY <1>9, <2>1
<1>11. ASSUME c \in Digits
       PROVE  /\ Longest(s) = n + 1 /\ FirstLexeme(s) = p(n + 1) /\ IsLexeme(p(n + 1))
              /\ TokenAt(s) = <<TokenOf(p(n + 1)), n + 1>>
  <2>1. c \notin Marks /\ c \notin Signs /\ c \notin Letters
    BY <1>11, KindsDiffer
  <2>2. \A k \in 1 .. Len(s) : IsLexeme(p(k)) <=> IsNumeral(p(k)) \/ IsName(p(k))
    BY <1>8, <2>1
  <2>3. \A k \in 1 .. Len(s) : IsLexeme(p(k)) => \A j \in 2 .. k : s[j] \in Digits
    BY <1>2, <2>1, <2>2
  <2>4. IsNumeral(p(n + 1))
    <3>1. \A j \in 1 .. n + 1 : s[j] \in Digits
      <4>1. \A j \in 1 .. n + 1 : j = 1 \/ j \in 2 .. n + 1
        BY <1>9
      <4> QED
        BY <1>9, <1>11, <4>1
    <3> QED
      BY <1>2, <1>9, <3>1
  <2>5. Longest(s) = n + 1
    BY <1>5, <1>9, <1>10, <2>2, <2>3, <2>4
  <2>6. TokenAt(s) = <<Stoi(p(n + 1)), n + 1>>
    BY <1>1, <1>8, <1>11, <2>1 DEF ReadConstant, IsPlusOrMinus, n, p
  <2>7. TokenOf(p(n + 1)) = Stoi(p(n + 1))
    BY <1>8, <1>9, <2>1, <2>4
  <2> QED
    BY <1>4, <1>9, <2>2, <2>4, <2>5, <2>6, <2>7
<1>12. ASSUME c \in Signs
       PROVE  /\ Longest(s) = n + 1 /\ FirstLexeme(s) = p(n + 1) /\ IsLexeme(p(n + 1))
              /\ TokenAt(s) = <<TokenOf(p(n + 1)), n + 1>>
  <2>1. c \notin Marks /\ c \notin Digits /\ c \notin Letters
    BY <1>12, KindsDiffer
  <2>2. \A k \in 1 .. Len(s) : IsLexeme(p(k)) <=> IsNumeral(p(k)) \/ IsName(p(k))
    BY <1>8, <2>1
  <2>3. \A k \in 1 .. Len(s) : IsLexeme(p(k)) => \A j \in 2 .. k : s[j] \in Digits
    BY <1>2, <1>3, <2>1, <2>2
  <2>4. IsLexeme(p(n + 1)) /\ (IsNumeral(p(n + 1)) <=> n > 0)
    BY <1>2, <1>3, <1>9, <1>12, <2>1, <2>2
  <2>5. Longest(s) = n + 1
    BY <1>5, <1>9, <1>10, <2>3, <2>4
  <2>6. CASE n = 0
    <3>1. TokenAt(s) = <<SymbolToken(<<c>>), 1>>
      BY <1>1, <1>8, <1>12, <2>1, <2>6 DEF ReadConstant, IsPlusOrMinus, n
    <3>2. p(1) = <<c>>
      BY <1>1, <1>2
    <3>3. TokenOf(p(n + 1)) = SymbolToken(p(n + 1))
      BY <1>8, <1>9, <2>1, <2>4, <2>6
    <3> QED
      BY <1>4, <2>4, <2>5, <2>6, <3>1, <3>2, <3>3
  <2>7. CASE n # 0
    <3>1. TokenAt(s) = <<Stoi(p(n + 1)), n + 1>>
      BY <1>1, <1>8, <1>12, <2>1, <2>7 DEF ReadConstant, IsPlusOrMinus, n, p
    <3>2. TokenOf(p(n + 1)) = Stoi(p(n + 1))
      BY <1>8, <1>9, <2>1, <2>4, <2>7
    <3> QED
      BY <1>4, <2>4, <2>5, <3>1, <3>2
  <2> QED
    BY <2>6, <2>7
<1>13. ASSUME c \in Letters
       PROVE  /\ FirstLexeme(s) = p(Longest(s)) /\ IsLexeme(p(Longest(s)))
              /\ TokenAt(s) = <<TokenOf(p(Longest(s))), Longest(s)>>
  <2> DEFINE mid == {x \in Characters : IsMidSymbol(x)}
             m == Taken(s, 2, mid)
  <2>1. c \notin Marks /\ c \notin Digits /\ c \notin Signs
    BY <1>13, KindsDiffer
  <2>2. \A k \in 1 .. Len(s) : IsLexeme(p(k)) <=> IsNumeral(p(k)) \/ IsName(p(k))
    BY <1>8, <2>1
  <2>3. \A k \in 1 .. Len(s) : ~ IsNumeral(p(k))
    BY <1>2, <1>3, <2>1
  <2>4. mid = Letters \union Digits \union Inside
    BY DEF Characters, IsMidSymbol, IsStartSymbol, IsNumber
  <2>5. /\ m \in 0 .. Len(s) - 1 /\ m + 1 \in 1 .. Len(s)
        /\ \A j \in 2 .. m + 1 : s[j] \in mid
        /\ m + 1 < Len(s) => s[m + 2] \notin mid
    <3>1. 2 \in 1 .. Len(s) + 1
      BY <1>1
    <3> HIDE DEF mid
    <3>2. /\ m \in 0 .. Len(s) + 1 - 2
          /\ \A j \in 2 .. 2 + m - 1 : s[j] \in mid
          /\ 2 + m =< Len(s) => s[2 + m] \notin mid
      BY <3>1, TakenIs
    <3> HIDE DEF m
    <3> QED
      BY <1>1, <3>2
  <2>6. TokenAt(s) = <<SymbolToken(p(m + 1)), m + 1>>
    BY <1>8, <1>13, <2>1 DEF ReadSymbol, p
  <2> HIDE DEF mid, m
  <2>7. \A k \in 1 .. Len(s) : IsLexeme(p(k)) <=> \A j \in 2 .. k : s[j] \in mid
    BY <1>2, <1>13, <2>1, <2>2, <2>3, <2>4
  <2>8. \A k \in 1 .. Len(s) : IsLexeme(p(k)) => k =< m + 1
    <3> SUFFICES ASSUME NEW k \in 1 .. Len(s), IsLexeme(p(k)), k > m + 1 PROVE FALSE
      BY <2>5
    <3>1. m + 2 \in 2 .. k /\ m + 1 < Len(s)
      BY <1>1, <2>5
    <3> QED
      BY <2>5, <2>7, <3>1
  <2>9. IsLexeme(p(m + 1)) /\ Longest(s) = m + 1
    BY <1>5, <2>5, <2>7, <2>8
  <2>10. TokenOf(p(m + 1)) = SymbolToken(p(m + 1))
    BY <1>8, <2>1, <2>3, <2>5
  <2> QED
    BY <1>4, <2>6, <2>9, <2>10
<1>14. ASSUME c \notin Marks, c \notin Digits, c \notin Signs, c \notin Letters
       PROVE  FALSE
  <2>1. \A k \in 1 .. Len(s) : ~ IsLexeme(p(k))
    BY <1>2, <1>3, <1>8, <1>14
  <2>2. Longest(s) = 1
    BY <1>1, <1>5, <2>1
  <2> QED
    BY <1>1, <1>4, <2>1, <2>2
<1> HIDE DEF c
<1> QED
  BY <1>7, <1>11, <1>12, <1>13, <1>14

-----------------------------------------------------------------------------
(* Blanks before a text change nothing.                                    *)
LEMMA BlanksCutNothing ==
  ASSUME NEW s \in Seq(Characters), NEW b \in 0 .. Len(s), \A j \in 1 .. b : s[j] \in Blanks
  PROVE  Lexemes[s] = Lexemes[SubSeq(s, b + 1, Len(s))]
<1> DEFINE T == {k \in 0 .. b : Lexemes[s] # Lexemes[SubSeq(s, k + 1, Len(s))]}
<1> SUFFICES ASSUME Lexemes[s] # Lexemes[SubSeq(s, b + 1, Len(s))] PROVE FALSE
  OBVIOUS
<1>1. Len(s) \in Nat /\ b \in Nat /\ b =< Len(s)
  BY LenProperties
<1>2. PICK k \in T : \A l \in T : k =< l
  <2>1. T \in SUBSET Nat
    BY <1>1
  <2>2. b \in T
    BY <1>1
  <2> HIDE DEF T
  <2> QED
    BY <2>1, <2>2, LeastExists
<1>3. k \in 0 .. b /\ k # 0
  <2>1. SubSeq(s, 0 + 1, Len(s)) = s
    BY SubSeqFull
  <2> QED
    BY <2>1
<1>4. k - 1 \in 0 .. b /\ k - 1 \notin T
  <2>1. k - 1 \in 0 .. b /\ ~ k =< k - 1
    BY <1>1, <1>3
  <2> HIDE DEF T
  <2> QED
    BY <1>2, <2>1
<1> DEFINE r == SubSeq(s, k, Len(s))
<1>5. Lexemes[s] = Lexemes[r]
  <2>1. (k - 1) + 1 = k
    BY <1>1, <1>3
  <2> QED
    BY <1>4, <2>1
<1>6. /\ r \in Seq(Characters) /\ Len(r) = Len(s) - k + 1 /\ r # <<>> /\ Head(r) = s[k]
      /\ Tail(r) = SubSeq(s, k + 1, Len(s))
  <2>1. k \in 1 .. Len(s) + 1 /\ Len(s) \in k - 1 .. Len(s) /\ k \in 1 .. Len(s) /\ Len(s) \in k .. Len(s)
    BY <1>1, <1>3
  <2>2. r \in Seq(Characters) /\ Len(r) = Len(s) - k + 1
    BY <2>1, PieceOf
  <2>3. Head(r) = s[k] /\ Tail(r) = SubSeq(s, k + 1, Len(s))
    BY <2>1, HeadTailOfSubSeq
  <2> HIDE DEF r
  <2> QED
    BY <1>1, <2>1, <2>2, <2>3, EmptySeq
<1> HIDE DEF r
<1>7. Lexemes[r] = Lexemes[Tail(r)]
  <2>1. Head(r) \in Blanks
    BY <1>1, <1>3, <1>6
  <2> QED
    BY <1>6, <2>1, LexemesRule DEF LexemesBy
<1> QED
  BY <1>5, <1>6, <1>7

(* A text s may be cut after its n-th character and its k-th lexeme,       *)
(* wherever it ends.                                                       *)
CutAt(s, n, k) ==
  /\ n \in 0 .. Len(s) /\ k \in 0 .. Len(Lexemes[s])
  /\ \A m \in n .. Len(s) :
       Lexemes[SubSeq(s, 1, m)] = SubSeq(Lexemes[s], 1, k) \o Lexemes[SubSeq(s, n + 1, m)]

LEMMA CutAtStart ==
  ASSUME NEW s \in Seq(Characters)
  PROVE  CutAt(s, 0, 0)
<1>1. Len(s) \in Nat /\ Lexemes[s] \in Seq(Words) /\ Len(Lexemes[s]) \in Nat
  BY LexemesRule, LenProperties
<1>2. SubSeq(Lexemes[s], 1, 0) = <<>>
  BY SubSeqEmpty
<1>3. ASSUME NEW m \in 0 .. Len(s)
      PROVE  Lexemes[SubSeq(s, 1, m)] = SubSeq(Lexemes[s], 1, 0) \o Lexemes[SubSeq(s, 0 + 1, m)]
  <2>1. SubSeq(s, 1, m) \in Seq(Characters)
    <3>1. 1 \in 1 .. Len(s) + 1 /\ m \in 1 - 1 .. Len(s)
      BY <1>1
    <3> QED
      BY <3>1, PieceOf
  <2>2. Lexemes[SubSeq(s, 1, m)] \in Seq(Words)
    BY <2>1, LexemesRule
  <2> QED
    BY <1>2, <2>2, ConcatEmptySeq
<1> QED
  BY <1>1, <1>3 DEF CutAt

LEMMA CutThroughBlanks ==
  ASSUME NEW s \in Seq(Characters), NEW n, NEW k, CutAt(s, n, k),
         NEW p \in n .. Len(s), \A j \in n + 1 .. p : s[j] \in Blanks
  PROVE  CutAt(s, p, k)
<1>1. Len(s) \in Nat /\ n \in 0 .. Len(s) /\ k \in 0 .. Len(Lexemes[s]) /\ p \in Nat
  BY LenProperties DEF CutAt
<1>2. ASSUME NEW m \in p .. Len(s)
      PROVE  Lexemes[SubSeq(s, n + 1, m)] = Lexemes[SubSeq(s, p + 1, m)]
  <2> DEFINE r == SubSeq(s, n + 1, m)
  <2>1. n + 1 \in 1 .. Len(s) + 1 /\ m \in (n + 1) - 1 .. Len(s)
    BY <1>1
  <2>2. /\ r \in Seq(Characters) /\ Len(r) = m - (n + 1) + 1
        /\ \A j \in 1 .. m - (n + 1) + 1 : r[j] = s[(n + 1) + j - 1]
    BY <2>1, PieceOf
  <2>3. p - n \in 0 .. Len(r)
    BY <1>1, <2>2
  <2>4. \A j \in 1 .. p - n : r[j] \in Blanks
    <3> SUFFICES ASSUME NEW j \in 1 .. p - n PROVE r[j] \in Blanks
      OBVIOUS
    <3>1. j \in 1 .. m - (n + 1) + 1 /\ (n + 1) + j - 1 \in n + 1 .. p
      BY <1>1
    <3> HIDE DEF r
    <3> QED
      BY <2>2, <3>1
  <2>5. Lexemes[r] = Lexemes[SubSeq(r, (p - n) + 1, Len(r))]
    <3> HIDE DEF r
    <3> QED
      BY <2>2, <2>3, <2>4, BlanksCutNothing
  <2>6. SubSeq(r, (p - n) + 1, Len(r)) = SubSeq(s, p + 1, m)
    <3>1. n \in 0 .. Len(s) /\ m \in n .. Len(s) /\ p - n \in 0 .. m - n /\ m - n \in p - n .. m - n
      BY <1>1
    <3>2. SubSeq(SubSeq(s, n + 1, m), (p - n) + 1, m - n) = SubSeq(s, n + (p - n) + 1, n + (m - n))
      BY <3>1, PieceInPiece
    <3>3. n + (p - n) + 1 = p + 1 /\ n + (m - n) = m /\ Len(r) = m - n
      BY <1>1, <2>2
    <3> QED
      BY <3>2, <3>3
  <2> QED
    BY <2>5, <2>6
<1>3. p \in 0 .. Len(s) /\ \A m \in p .. Len(s) : m \in n .. Len(s)
  BY <1>1
<1>4. \A m \in p .. Len(s) :
        Lexemes[SubSeq(s, 1, m)] = SubSeq(Lexemes[s], 1, k) \o Lexemes[SubSeq(s, n + 1, m)]
  BY <1>3 DEF CutAt
<1> QED
  BY <1>1, <1>2, <1>3, <1>4 DEF CutAt

(* The lexeme that begins where a text may be cut is the next one, and the *)
(* text may be cut behind it.                                              *)
LEMMA CutNextLexeme ==
  ASSUME NEW s \in Seq(Characters), NEW n, NEW k, CutAt(s, n, k),
         n < Len(s), s[n + 1] \notin Blanks
  PROVE  LET r == SubSeq(s, n + 1, Len(s)) IN
         /\ r # <<>> /\ Longest(r) \in 1 .. Len(s) - n
         /\ k < Len(Lexemes[s]) /\ Lexemes[s][k + 1] = FirstLexeme(r)
         /\ CutAt(s, n + Longest(r), k + 1)
<1> DEFINE r == SubSeq(s, n + 1, Len(s))
           W == Lexemes[s]
           l == Longest(r)
           w == FirstLexeme(r)
           R(m) == SubSeq(s, n + 1, m)
<1>1. Len(s) \in Nat /\ n \in 0 .. Len(s) /\ k \in 0 .. Len(W) /\ W \in Seq(Words) /\ Len(W) \in Nat
  BY LexemesRule, LenProperties DEF CutAt
<1>2. ASSUME NEW m \in n + 1 .. Len(s)
      PROVE  /\ R(m) \in Seq(Characters) /\ Len(R(m)) = m - n /\ R(m) # <<>> /\ Head(R(m)) = s[n + 1]
             /\ \A j \in 0 .. m - n : SubSeq(R(m), 1, j) = SubSeq(s, n + 1, n + j)
             /\ \A j \in 0 .. m - n : SubSeq(R(m), j + 1, m - n) = SubSeq(s, n + j + 1, m)
  <2>1. n + 1 \in 1 .. Len(s) + 1 /\ m \in (n + 1) - 1 .. Len(s)
    BY <1>1
  <2>2. R(m) \in Seq(Characters) /\ Len(R(m)) = m - (n + 1) + 1
    BY <2>1, PieceOf
  <2>3. Head(R(m)) = s[n + 1]
    <3>1. n + 1 \in 1 .. Len(s) /\ m \in n + 1 .. Len(s)
      BY <1>1
    <3> QED
      BY <3>1, HeadTailOfSubSeq
  <2>4. ASSUME NEW j \in 0 .. m - n
        PROVE  /\ SubSeq(R(m), 1, j) = SubSeq(s, n + 1, n + j)
               /\ SubSeq(R(m), j + 1, m - n) = SubSeq(s, n + j + 1, m)
    <3>1. /\ n \in 0 .. Len(s) /\ m \in n .. Len(s) /\ 0 \in 0 .. m - n /\ j \in 0 .. m - n
          /\ m - n \in j .. m - n
      BY <1>1
    <3>2. SubSeq(R(m), 0 + 1, j) = SubSeq(s, n + 0 + 1, n + j)
      BY <3>1, PieceInPiece
    <3>3. SubSeq(R(m), j + 1, m - n) = SubSeq(s, n + j + 1, n + (m - n))
      BY <3>1, PieceInPiece
    <3>4. n + 0 + 1 = n + 1 /\ n + (m - n) = m /\ 0 + 1 = 1
      BY <1>1
    <3> HIDE DEF R
    <3> QED
      BY <3>2, <3>3, <3>4
  <2> HIDE DEF R
  <2>5. Len(R(m)) = m - n /\ R(m) # <<>>
    BY <1>1, <2>2, EmptySeq
  <2> QED
    BY <2>2, <2>3, <2>4, <2>5
<1>3. r = R(Len(s)) /\ Len(s) \in n + 1 .. Len(s)
  BY <1>1
<1> HIDE DEF R, r
<1>4. l \in 1 .. Len(s) - n
  <2>1. r \in Seq(Characters) /\ r # <<>> /\ Len(r) = Len(s) - n
    BY <1>2, <1>3
  <2> QED
    BY <2>1, LongestIs
<1>5. ASSUME NEW m \in n + l .. Len(s)
      PROVE  Longest(R(m)) = l /\ FirstLexeme(R(m)) = w
  <2>1. m \in n + 1 .. Len(s) /\ l \in 1 .. m - n
    BY <1>1, <1>4
  <2>2. \A j \in 1 .. m - n : SubSeq(R(m), 1, j) = SubSeq(r, 1, j)
    <3> SUFFICES ASSUME NEW j \in 1 .. m - n PROVE SubSeq(R(m), 1, j) = SubSeq(r, 1, j)
      OBVIOUS
    <3>1. j \in 0 .. m - n /\ j \in 0 .. Len(s) - n
      BY <1>1, <2>1
    <3>2. SubSeq(R(m), 1, j) = SubSeq(s, n + 1, n + j)
      BY <1>2, <2>1, <3>1
    <3>3. SubSeq(R(Len(s)), 1, j) = SubSeq(s, n + 1, n + j)
      BY <1>2, <1>3, <3>1
    <3> QED
      BY <1>3, <3>2, <3>3
  <2>3. /\ r \in Seq(Characters) /\ r # <<>> /\ Len(r) = Len(s) - n
        /\ R(m) \in Seq(Characters) /\ Len(R(m)) = m - n
    BY <1>2, <1>3, <2>1
  <2>4. /\ \A j \in 1 .. Len(r) : IsLexeme(SubSeq(r, 1, j)) => j =< l
        /\ l = 1 \/ IsLexeme(SubSeq(r, 1, l))
    BY <2>3, LongestIs
  <2>5. /\ \A j \in 1 .. Len(R(m)) : IsLexeme(SubSeq(R(m), 1, j)) => j =< l
        /\ l = 1 \/ IsLexeme(SubSeq(R(m), 1, l))
    <3>1. \A j \in 1 .. m - n : j \in 1 .. Len(r)
      BY <1>1, <2>1, <2>3
    <3> QED
      BY <2>1, <2>2, <2>3, <2>4, <3>1
  <2>6. Longest(R(m)) = l
    <3> HIDE DEF l
    <3> QED
      BY <2>1, <2>3, <2>5, LongestUnique
  <2>7. SubSeq(R(m), 1, l) = SubSeq(r, 1, l)
    BY <2>1, <2>2
  <2> QED
    BY <2>6, <2>7 DEF FirstLexeme
<1>6. w \in Words /\ <<w>> \in Seq(Words)
  <2>1. r \in Seq(Characters) /\ r # <<>> /\ Len(r) = Len(s) - n
    BY <1>2, <1>3
  <2>2. 1 \in 1 .. Len(r) + 1 /\ l \in 1 - 1 .. Len(r)
    BY <1>1, <1>4, <2>1
  <2>3. SubSeq(r, 1, l) \in Words
    BY <2>1, <2>2, PieceOf DEF Words
  <2> QED
    BY <2>3 DEF FirstLexeme
<1> HIDE DEF l, w
<1> DEFINE x(m) == Lexemes[SubSeq(s, n + l + 1, m)]
<1>7. ASSUME NEW m \in n + l .. Len(s)
      PROVE  Lexemes[R(m)] = <<w>> \o x(m) /\ x(m) \in Seq(Words)
  <2>1. m \in n + 1 .. Len(s) /\ l \in 0 .. m - n
    BY <1>1, <1>4
  <2>2. Lexemes[R(m)] = LexemesBy(Lexemes, R(m)) /\ R(m) # <<>> /\ Head(R(m)) \notin Blanks
    BY <1>2, <2>1, LexemesRule
  <2>3. SubSeq(R(m), Longest(R(m)) + 1, Len(R(m))) = SubSeq(s, n + l + 1, m)
    BY <1>2, <1>5, <2>1
  <2>4. SubSeq(s, n + l + 1, m) \in Seq(Characters)
    <3>1. n + l + 1 \in 1 .. Len(s) + 1 /\ m \in (n + l + 1) - 1 .. Len(s)
      BY <1>1, <1>4
    <3> QED
      BY <3>1, PieceOf
  <2>5. x(m) \in Seq(Words)
    BY <2>4, LexemesRule
  <2> QED
    BY <1>5, <2>2, <2>3, <2>5 DEF LexemesBy
<1> DEFINE front == SubSeq(W, 1, k)
<1>8. front \in Seq(Words) /\ Len(front) = k /\ \A j \in 1 .. k : front[j] = W[j]
  <2> HIDE DEF W
  <2>1. 1 \in 1 .. Len(W) + 1 /\ k \in 1 - 1 .. Len(W)
    BY <1>1
  <2>2. /\ front \in Seq(Words) /\ Len(front) = k - 1 + 1
        /\ \A j \in 1 .. k - 1 + 1 : front[j] = W[1 + j - 1]
    BY <1>1, <2>1, PieceOf
  <2>3. k - 1 + 1 = k /\ \A j \in 1 .. k : 1 + j - 1 = j
    BY <1>1
  <2> HIDE DEF front
  <2> QED
    BY <2>2, <2>3
<1>9. ASSUME NEW m \in n + l .. Len(s)
      PROVE  Lexemes[SubSeq(s, 1, m)] = (front \o <<w>>) \o x(m)
  <2>1. m \in n .. Len(s)
    BY <1>1, <1>4
  <2>2. Lexemes[SubSeq(s, 1, m)] = front \o Lexemes[R(m)]
    BY <2>1 DEF CutAt, R
  <2>3. Lexemes[SubSeq(s, 1, m)] = front \o (<<w>> \o x(m))
    BY <1>7, <2>2
  <2>4. x(m) \in Seq(Words)
    BY <1>7
  <2> DEFINE y == x(m)
             v == <<w>>
  <2>5. y \in Seq(Words) /\ v \in Seq(Words) /\ front \in Seq(Words)
    BY <1>6, <1>8, <2>4
  <2> HIDE DEF front, x, y, v
  <2>6. (front \o v) \o y = front \o (v \o y)
    BY <2>5, ConcatAssociative, SMTT(30)
  <2> QED
    BY <2>3, <2>6 DEF y, v
<1>10. W = (front \o <<w>>) \o x(Len(s))
  <2>1. Len(s) \in n + l .. Len(s)
    BY <1>1, <1>4
  <2> QED
    BY <1>9, <2>1, SubSeqFull
<1>11. /\ front \o <<w>> \in Seq(Words) /\ Len(front \o <<w>>) = k + 1
       /\ \A j \in 1 .. k : (front \o <<w>>)[j] = W[j]
       /\ (front \o <<w>>)[k + 1] = w
  <2> HIDE DEF front, W
  <2>1. Len(<<w>>) = 1 /\ <<w>>[1] = w
    OBVIOUS
  <2>2. /\ front \o <<w>> \in Seq(Words) /\ Len(front \o <<w>>) = Len(front) + Len(<<w>>)
        /\ \A j \in 1 .. Len(front) + Len(<<w>>) : (front \o <<w>>)[j] =
             IF j =< Len(front) THEN front[j] ELSE <<w>>[j - Len(front)]
    BY <1>6, <1>8, ConcatProperties
  <2>3. (k + 1) - k = 1 /\ ~ k + 1 =< k
    BY <1>1
  <2>4. \A j \in 1 .. k : j =< k /\ j \in 1 .. k + 1
    BY <1>1
  <2> DEFINE fw == front \o <<w>>
  <2>5. /\ fw \in Seq(Words) /\ Len(fw) = k + 1
        /\ \A j \in 1 .. k + 1 : fw[j] = IF j =< k THEN front[j] ELSE <<w>>[j - k]
    BY <1>8, <2>1, <2>2
  <2> HIDE DEF fw
  <2>6. \A j \in 1 .. k : fw[j] = W[j]
    BY <1>8, <2>4, <2>5
  <2>7. fw[k + 1] = w
    <3>1. k + 1 \in 1 .. k + 1
      BY <1>1
    <3> QED
      BY <2>1, <2>3, <2>5, <3>1
  <2> QED
    BY <2>5, <2>6, <2>7 DEF fw
<1>12. k + 1 =< Len(W) /\ \A j \in 1 .. k + 1 : W[j] = (front \o <<w>>)[j]
  <2>1. x(Len(s)) \in Seq(Words)
    <3>1. Len(s) \in n + l .. Len(s)
      BY <1>1, <1>4
    <3> QED
      BY <1>7, <3>1
  <2> DEFINE fw == front \o <<w>>
             y == x(Len(s))
  <2>2. W = fw \o y /\ fw \in Seq(Words) /\ y \in Seq(Words) /\ Len(fw) = k + 1
    BY <1>10, <1>11, <2>1
  <2> HIDE DEF fw, y, W
  <2>3. /\ Len(fw \o y) = Len(fw) + Len(y) /\ Len(y) \in Nat
        /\ \A j \in 1 .. Len(fw) + Len(y) : (fw \o y)[j] = IF j =< Len(fw) THEN fw[j] ELSE y[j - Len(fw)]
    BY <2>2, ConcatProperties, LenProperties
  <2>4. k + 1 =< Len(W) /\ \A j \in 1 .. k + 1 : W[j] = fw[j]
    BY <1>1, <2>2, <2>3
  <2> QED
    BY <2>4 DEF fw
<1>13. SubSeq(W, 1, k + 1) = front \o <<w>>
  <2> HIDE DEF front, W
  <2>1. 1 \in 1 .. Len(W) + 1 /\ k + 1 \in 1 - 1 .. Len(W)
    BY <1>1, <1>12
  <2>2. /\ SubSeq(W, 1, k + 1) \in Seq(Words) /\ Len(SubSeq(W, 1, k + 1)) = k + 1 - 1 + 1
        /\ \A j \in 1 .. k + 1 - 1 + 1 : SubSeq(W, 1, k + 1)[j] = W[1 + j - 1]
    BY <1>1, <2>1, PieceOf
  <2>3. k + 1 - 1 + 1 = k + 1 /\ \A j \in 1 .. k + 1 : 1 + j - 1 = j
    BY <1>1
  <2>4. \A j \in 1 .. k + 1 : SubSeq(W, 1, k + 1)[j] = (front \o <<w>>)[j]
    BY <1>12, <2>2, <2>3
  <2> DEFINE piece == SubSeq(W, 1, k + 1)
             fw == front \o <<w>>
  <2>5. /\ piece \in Seq(Words) /\ fw \in Seq(Words) /\ Len(piece) = k + 1 /\ Len(fw) = k + 1
        /\ \A j \in 1 .. k + 1 : piece[j] = fw[j]
    BY <1>11, <2>2, <2>3, <2>4
  <2> HIDE DEF piece, fw
  <2>6. piece = fw
    BY <2>5, SeqEqual
  <2> QED
    BY <2>6 DEF piece, fw
<1>14. CutAt(s, n + l, k + 1)
  <2>1. n + l \in 0 .. Len(s) /\ k + 1 \in 0 .. Len(W)
    BY <1>1, <1>4, <1>12
  <2> QED
    BY <1>9, <1>13, <2>1 DEF CutAt
<1>15. k < Len(W) /\ W[k + 1] = w
  <2> HIDE DEF W, front
  <2>1. k + 1 \in 1 .. k + 1
    BY <1>1
  <2> QED
    BY <1>1, <1>11, <1>12, <2>1
<1>16. r # <<>>
  BY <1>2, <1>3
<1> QED
  BY <1>4, <1>14, <1>15, <1>16 DEF r, l, w

(* When only blanks are left, all lexemes have been found.                 *)
LEMMA CutAtEnd ==
  ASSUME NEW s \in Seq(Characters), NEW n, NEW k, CutAt(s, n, k)
  PROVE  /\ Lexemes[SubSeq(s, 1, n)] = SubSeq(Lexemes[s], 1, k)
         /\ n = Len(s) => k = Len(Lexemes[s])
<1> DEFINE W == Lexemes[s]
<1>1. Len(s) \in Nat /\ n \in 0 .. Len(s) /\ k \in 0 .. Len(W) /\ W \in Seq(Words) /\ Len(W) \in Nat
  BY LexemesRule, LenProperties DEF CutAt
<1>2. SubSeq(s, n + 1, n) = <<>>
  BY <1>1, SubSeqEmpty
<1>3. Lexemes[<<>>] = <<>>
  BY LexemesRule, EmptySeq DEF LexemesBy
<1>4. SubSeq(W, 1, k) \in Seq(Words) /\ Len(SubSeq(W, 1, k)) = k
  <2> HIDE DEF W
  <2>1. 1 \in 1 .. Len(W) + 1 /\ k \in 1 - 1 .. Len(W)
    BY <1>1
  <2>2. SubSeq(W, 1, k) \in Seq(Words) /\ Len(SubSeq(W, 1, k)) = k - 1 + 1
    BY <1>1, <2>1, PieceOf
  <2>3. k - 1 + 1 = k
    BY <1>1
  <2> QED
    BY <2>2, <2>3
<1>5. Lexemes[SubSeq(s, 1, n)] = SubSeq(W, 1, k)
  <2>1. Lexemes[SubSeq(s, 1, n)] = SubSeq(W, 1, k) \o <<>>
    <3>1. n \in n .. Len(s)
      BY <1>1
    <3>2. Lexemes[SubSeq(s, 1, n)] = SubSeq(W, 1, k) \o Lexemes[SubSeq(s, n + 1, n)]
      BY <3>1 DEF CutAt
    <3> QED
      BY <1>2, <1>3, <3>2
  <2> QED
    BY <1>4, <2>1, ConcatEmptySeq
<1>6. ASSUME n = Len(s) PROVE k = Len(W)
  <2>1. W = SubSeq(W, 1, k)
    BY <1>5, <1>6, SubSeqFull
  <2> HIDE DEF W
  <2> QED
    BY <1>4, <2>1
<1> QED
  BY <1>5, <1>6

LEMMA LexemeEndsInNoBlank ==
  ASSUME NEW r \in Seq(Characters), r # <<>>, r[1] \notin Blanks
  PROVE  r[Longest(r)] \notin Blanks
<1> DEFINE l == Longest(r)
           w == SubSeq(r, 1, l)
<1>1. l \in 1 .. Len(r) /\ (l = 1 \/ IsLexeme(w))
  BY LongestIs
<1>2. Len(r) \in Nat
  BY LenProperties
<1> HIDE DEF l
<1>3. /\ IsNumeral(w) <=> \/ \A j \in 1 .. l : r[j] \in Digits
                          \/ l > 1 /\ r[1] \in Signs /\ \A j \in 2 .. l : r[j] \in Digits
      /\ IsName(w) <=>
           \/ r[1] \in Letters /\ \A j \in 2 .. l : r[j] \in Letters \union Digits \union Inside
           \/ l = 1 /\ r[1] \in Signs
      /\ \A c : w = <<c>> <=> l = 1 /\ r[1] = c
  BY <1>1, PrefixLexeme
<1> HIDE DEF w
<1>4. CASE l = 1
  BY <1>4 DEF l
<1>5. CASE l # 1
  <2>1. l \in 2 .. l /\ l \in 1 .. l
    BY <1>1, <1>2, <1>5
  <2>2. IsNumeral(w) \/ IsName(w)
    BY <1>1, <1>3, <1>5 DEF IsLexeme
  <2>3. r[l] \in UNION {Digits, Letters, Inside}
    BY <1>3, <1>5, <2>1, <2>2
  <2> QED
    BY <2>3, KindsDiffer DEF l
<1> QED
  BY <1>4, <1>5

LEMMA RestIs ==
  ASSUME NEW s \in Seq(Characters), NEW n \in 0 .. Len(s)
  PROVE  /\ SubSeq(s, n + 1, Len(s)) \in Seq(Characters)
         /\ Len(SubSeq(s, n + 1, Len(s))) = Len(s) - n
         /\ SubSeq(s, n + 1, Len(s)) = <<>> <=> n = Len(s)
         /\ \A j \in 1 .. Len(s) - n : SubSeq(s, n + 1, Len(s))[j] = s[n + j]
<1> DEFINE r == SubSeq(s, n + 1, Len(s))
<1>1. Len(s) \in Nat /\ n \in Nat /\ n =< Len(s)
  BY LenProperties
<1>2. n + 1 \in 1 .. Len(s) + 1 /\ Len(s) \in (n + 1) - 1 .. Len(s)
  BY <1>1
<1>3. /\ r \in Seq(Characters) /\ Len(r) = Len(s) - (n + 1) + 1
      /\ \A j \in 1 .. Len(s) - (n + 1) + 1 : r[j] = s[(n + 1) + j - 1]
  BY <1>2, PieceOf
<1>4. Len(s) - (n + 1) + 1 = Len(s) - n /\ \A j \in 1 .. Len(s) - n : (n + 1) + j - 1 = n + j
  BY <1>1
<1> HIDE DEF r
<1>5. r = <<>> <=> Len(r) = 0
  BY <1>3, EmptySeq
<1>6. r = <<>> <=> n = Len(s)
  BY <1>1, <1>3, <1>4, <1>5
<1> QED
  BY <1>3, <1>4, <1>6 DEF r

LEMMA BlanksSkipped ==
  ASSUME NEW s \in Seq(Characters), NEW n, NEW k, CutAt(s, n, k)
  PROVE  \E p \in n .. Len(s) :
           /\ WithoutBlanks(SubSeq(s, n + 1, Len(s))) = SubSeq(s, p + 1, Len(s))
           /\ CutAt(s, p, k)
           /\ p < Len(s) => s[p + 1] \notin Blanks
<1> DEFINE r == SubSeq(s, n + 1, Len(s))
           b == Taken(r, 1, Blanks)
<1>1. Len(s) \in Nat /\ n \in 0 .. Len(s)
  BY LenProperties DEF CutAt
<1>2. r \in Seq(Characters) /\ Len(r) = Len(s) - n /\ \A j \in 1 .. Len(s) - n : r[j] = s[n + j]
  BY <1>1, RestIs
<1>3. SubSeq(r, b + 1, Len(r)) = WithoutBlanks(r)
  BY DEF WithoutBlanks
<1>4. /\ b \in 0 .. Len(r) + 1 - 1 /\ \A j \in 1 .. 1 + b - 1 : r[j] \in Blanks
      /\ 1 + b =< Len(r) => r[1 + b] \notin Blanks
  <2>1. 1 \in 1 .. Len(r) + 1
    BY <1>1, <1>2
  <2> HIDE DEF r
  <2> QED
    BY <1>2, <2>1, TakenIs
<1>5. SubSeq(r, b + 1, Len(s) - n) = SubSeq(s, n + b + 1, n + (Len(s) - n))
  <2>1. /\ Len(s) \in n .. Len(s) /\ b \in 0 .. Len(s) - n /\ Len(s) - n \in b .. Len(s) - n
    BY <1>1, <1>2, <1>4
  <2> HIDE DEF b
  <2> QED
    BY <1>1, <2>1, PieceInPiece
<1> HIDE DEF r, b
<1>6. n + b \in n .. Len(s) /\ n + (Len(s) - n) = Len(s)
  BY <1>1, <1>2, <1>4
<1>7. \A j \in n + 1 .. n + b : s[j] \in Blanks
  <2> SUFFICES ASSUME NEW j \in n + 1 .. n + b PROVE s[j] \in Blanks
    OBVIOUS
  <2>1. j - n \in 1 .. 1 + b - 1 /\ j - n \in 1 .. Len(s) - n /\ n + (j - n) = j
    BY <1>1, <1>2, <1>4
  <2> QED
    BY <1>2, <1>4, <2>1
<1>8. CutAt(s, n + b, k)
  BY <1>6, <1>7, CutThroughBlanks
<1>9. n + b < Len(s) => s[n + b + 1] \notin Blanks
  <2>1. ASSUME n + b < Len(s) PROVE 1 + b \in 1 .. Len(s) - n /\ 1 + b =< Len(r) /\ n + (1 + b) = n + b + 1
    <3>1. Len(r) = Len(s) - n /\ b \in Nat
      BY <1>1, <1>2, <1>4
    <3>2. n \in Nat /\ 1 + b =< Len(s) - n
      BY <1>1, <2>1, <3>1
    <3> QED
      BY <1>1, <3>1, <3>2
  <2> QED
    BY <1>2, <1>4, <2>1
<1>10. WithoutBlanks(r) = SubSeq(s, n + b + 1, Len(s))
  BY <1>2, <1>3, <1>5, <1>6
<1> QED
  BY <1>6, <1>8, <1>9, <1>10 DEF r

(* GetToken finds the next lexeme, or that there is none.                  *)
LEMMA ScanIs ==
  ASSUME NEW s \in Seq(Characters), NEW n, NEW k, CutAt(s, n, k),
         \A i \in 1 .. Len(Lexemes[s]) : IsLexeme(Lexemes[s][i])
  PROVE  LET r == SubSeq(s, n + 1, Len(s))
             W == Lexemes[s]
         IN
         \/ /\ WithoutBlanks(r) = <<>> /\ k = Len(W)
            /\ Scan(r) = [token |-> ConstantToken(0), rest |-> <<>>]
         \/ /\ WithoutBlanks(r) # <<>> /\ k < Len(W) /\ IsLexeme(W[k + 1])
            /\ \E q \in 1 .. Len(s) :
                 /\ CutAt(s, q, k + 1) /\ s[q] \notin Blanks
                 /\ Scan(r) = [token |-> TokenOf(W[k + 1]), rest |-> SubSeq(s, q + 1, Len(s))]
<1> DEFINE r == SubSeq(s, n + 1, Len(s))
           W == Lexemes[s]
           u == WithoutBlanks(r)
<1>1. Len(s) \in Nat /\ n \in 0 .. Len(s)
  BY LenProperties DEF CutAt
<1>2. PICK p \in n .. Len(s) :
        u = SubSeq(s, p + 1, Len(s)) /\ CutAt(s, p, k) /\ (p < Len(s) => s[p + 1] \notin Blanks)
  BY BlanksSkipped
<1>3. /\ u \in Seq(Characters) /\ Len(u) = Len(s) - p /\ (u = <<>> <=> p = Len(s))
      /\ \A j \in 1 .. Len(s) - p : u[j] = s[p + j]
  <2>1. p \in 0 .. Len(s)
    BY <1>1, <1>2
  <2> HIDE DEF u
  <2> QED
    BY <1>2, <2>1, RestIs
<1>4. Scan(r) = [token |-> TokenAt(u)[1], rest |-> SubSeq(u, TokenAt(u)[2] + 1, Len(u))]
  BY DEF Scan
<1> HIDE DEF u
<1>5. CASE u = <<>>
  <2>1. k = Len(W)
    BY <1>2, <1>3, <1>5, CutAtEnd
  <2>2. TokenAt(u) = <<ConstantToken(0), 0>>
    BY <1>5 DEF TokenAt
  <2>3. SubSeq(u, 0 + 1, Len(u)) = <<>>
    BY <1>5, SubSeqFull
  <2>4. Scan(r) = [token |-> ConstantToken(0), rest |-> <<>>]
    BY <1>4, <2>2, <2>3
  <2> QED
    BY <1>5, <2>1, <2>4 DEF u
<1>6. CASE u # <<>>
  <2> DEFINE l == Longest(u)
             q == p + l
  <2>1. p < Len(s) /\ s[p + 1] \notin Blanks /\ p \in 0 .. Len(s)
    BY <1>1, <1>2, <1>3, <1>6
  <2>2. /\ l \in 1 .. Len(s) - p /\ k < Len(W) /\ W[k + 1] = FirstLexeme(u) /\ CutAt(s, q, k + 1)
    BY <1>2, <2>1, CutNextLexeme
  <2>3. TokenAt(u) = <<TokenOf(FirstLexeme(u)), l>> /\ IsLexeme(FirstLexeme(u))
    <3>1. k + 1 \in 1 .. Len(Lexemes[s])
      <4>1. Len(Lexemes[s]) \in Nat /\ k \in 0 .. Len(Lexemes[s])
        BY LexemesRule, LenProperties DEF CutAt
      <4> QED
        BY <2>2, <4>1
    <3>2. IsLexeme(FirstLexeme(u))
      BY <2>2, <3>1
    <3> QED
      BY <1>3, <1>6, <3>2, TokenIsLexeme
  <2>4. s[q] \notin Blanks
    <3>1. u[1] \notin Blanks
      BY <1>1, <1>3, <2>1
    <3>2. u[l] \notin Blanks
      BY <1>3, <1>6, <3>1, LexemeEndsInNoBlank
    <3> QED
      BY <1>3, <2>2, <3>2
  <2> HIDE DEF l
  <2>5. SubSeq(u, l + 1, Len(u)) = SubSeq(s, q + 1, Len(s))
    <3>1. Len(s) \in p .. Len(s) /\ l \in 0 .. Len(s) - p /\ Len(s) - p \in l .. Len(s) - p
      BY <1>1, <2>1, <2>2
    <3>2. SubSeq(u, l + 1, Len(s) - p) = SubSeq(s, p + l + 1, p + (Len(s) - p))
      BY <1>2, <2>1, <3>1, PieceInPiece
    <3>3. p + (Len(s) - p) = Len(s)
      BY <1>1, <2>1
    <3> QED
      BY <1>3, <3>2, <3>3
  <2>6. q \in 1 .. Len(s)
    BY <1>1, <2>1, <2>2
  <2>7. Scan(r) = [token |-> TokenOf(W[k + 1]), rest |-> SubSeq(s, q + 1, Len(s))]
    <3>1. TokenAt(u)[1] = TokenOf(FirstLexeme(u)) /\ TokenAt(u)[2] = l
      <4> DEFINE w == TokenOf(FirstLexeme(u))
      <4>1. TokenAt(u) = <<w, l>>
        BY <2>3
      <4> HIDE DEF w
      <4>2. TokenAt(u)[1] = w /\ TokenAt(u)[2] = l
        BY <4>1
      <4> QED
        BY <4>2 DEF w
    <3> HIDE DEF q, W, r
    <3> QED
      BY <1>4, <2>2, <2>5, <3>1
  <2>8. IsLexeme(W[k + 1])
    BY <2>2, <2>3
  <2> HIDE DEF q, W
  <2> QED
    BY <1>6, <2>2, <2>4, <2>6, <2>7, <2>8 DEF u, W
<1> QED
  BY <1>5, <1>6

-----------------------------------------------------------------------------
(* What a sequence of lexemes denotes depends on what the shorter ones do. *)
LEMMA DenotesByDepends ==
  ASSUME NEW f, NEW g, NEW ws \in Seq(Words),
         \A v \in Seq(Words) : Len(v) < Len(ws) => f[v] = g[v]
  PROVE  DenotesBy(f, ws) = DenotesBy(g, ws)
<1>1. Len(ws) \in Nat /\ (ws # <<>> => Len(ws) >= 1)
  BY EmptySeq, LenProperties
<1>2. ASSUME NEW i \in 1 .. Len(ws) + 1, NEW j \in i - 1 .. Len(ws), i > 1 \/ j < Len(ws), Len(ws) >= 1
      PROVE  f[SubSeq(ws, i, j)] = g[SubSeq(ws, i, j)]
  <2>1. SubSeq(ws, i, j) \in Seq(Words) /\ Len(SubSeq(ws, i, j)) = j - i + 1
    BY PieceOf
  <2>2. Len(SubSeq(ws, i, j)) < Len(ws)
    BY <1>1, <1>2, <2>1
  <2> QED
    BY <2>1, <2>2
<1>3. DatumBy(f, ws) = DatumBy(g, ws)
  <2>1. CASE ws = <<>>
    BY <2>1 DEF DatumBy
  <2>2. CASE Len(ws) = 1 /\ ws # <<>>
    BY <2>2 DEF DatumBy
  <2>3. CASE Len(ws) # 1 /\ ws # <<>>
    <3>1. Tail(ws) \in Seq(Words) /\ Len(Tail(ws)) < Len(ws)
      BY <1>1, <2>3, HeadTailProperties
    <3>2. f[Tail(ws)] = g[Tail(ws)]
      BY <3>1
    <3>3. f[SubSeq(ws, 2, Len(ws) - 1)] = g[SubSeq(ws, 2, Len(ws) - 1)]
      <4>1. 2 \in 1 .. Len(ws) + 1 /\ Len(ws) - 1 \in 2 - 1 .. Len(ws) /\ Len(ws) >= 1
        <5>1. Len(ws) >= 2
          <6> DEFINE l == Len(ws)
          <6>1. l \in Nat /\ l >= 1 /\ l # 1
            BY <1>1, <2>3
          <6> HIDE DEF l
          <6>2. l >= 2
            BY <6>1
          <6> QED
            BY <6>2 DEF l
        <5> QED
          BY <1>1, <5>1
      <4> QED
        BY <1>2, <4>1
    <3>4. ASSUME NEW d \in 3 .. Len(ws) - 1
          PROVE  /\ f[SubSeq(ws, 2, d - 1)] = g[SubSeq(ws, 2, d - 1)]
                 /\ f[SubSeq(ws, d + 1, Len(ws) - 1)] = g[SubSeq(ws, d + 1, Len(ws) - 1)]
      <4>1. /\ 2 \in 1 .. Len(ws) + 1 /\ d - 1 \in 2 - 1 .. Len(ws) /\ Len(ws) >= 1
            /\ d + 1 \in 1 .. Len(ws) + 1 /\ Len(ws) - 1 \in (d + 1) - 1 .. Len(ws) /\ d + 1 > 1 /\ 2 > 1
        BY <1>1
      <4> QED
        BY <1>2, <4>1
    <3>6. ListsBy(f, ws) = ListsBy(g, ws)
      <4> DEFINE D == {d \in 3 .. Len(ws) - 1 : ws[d] = <<".">>}
                 A(h) == {Cells(items, Null) : items \in h[SubSeq(ws, 2, Len(ws) - 1)]["data"]}
                 B(h, d) == {Cells(items, tail) :
                               items \in h[SubSeq(ws, 2, d - 1)]["data"],
                               tail \in h[SubSeq(ws, d + 1, Len(ws) - 1)]["datum"]}
      <4>1. A(f) = A(g)
        BY <3>3
      <4>2. \A d \in D : B(f, d) = B(g, d)
        BY <3>4
      <4>3. UNION {B(f, d) : d \in D} = UNION {B(g, d) : d \in D}
        <5> HIDE DEF B, D
        <5> QED
          BY <4>2
      <4>4. ListsBy(f, ws) = A(f) \union UNION {B(f, d) : d \in D}
        BY DEF ListsBy
      <4>5. ListsBy(g, ws) = A(g) \union UNION {B(g, d) : d \in D}
        BY DEF ListsBy
      <4> HIDE DEF A, B, D
      <4> QED
        BY <4>1, <4>3, <4>4, <4>5
    <3> QED
      BY <2>3, <3>2, <3>6 DEF DatumBy
  <2> QED
    BY <2>1, <2>2, <2>3
<1>4. DataBy(f, ws) = DataBy(g, ws)
  <2>1. CASE ws = <<>>
    BY <2>1 DEF DataBy
  <2>2. CASE ws # <<>>
    <3> DEFINE N(h) == {n \in 1 .. Len(ws) - 1 : h[SubSeq(ws, n + 1, Len(ws))]["datum"] # {}}
               B(h, n) == {Append(items, tree) :
                             items \in h[SubSeq(ws, 1, n)]["data"],
                             tree \in h[SubSeq(ws, n + 1, Len(ws))]["datum"]}
    <3>1. ASSUME NEW n \in 1 .. Len(ws) - 1
          PROVE  /\ f[SubSeq(ws, 1, n)] = g[SubSeq(ws, 1, n)]
                 /\ f[SubSeq(ws, n + 1, Len(ws))] = g[SubSeq(ws, n + 1, Len(ws))]
      <4>1. /\ 1 \in 1 .. Len(ws) + 1 /\ n \in 1 - 1 .. Len(ws) /\ n < Len(ws) /\ Len(ws) >= 1
            /\ n + 1 \in 1 .. Len(ws) + 1 /\ Len(ws) \in (n + 1) - 1 .. Len(ws) /\ n + 1 > 1
        BY <1>1, <2>2
      <4> QED
        BY <1>2, <4>1
    <3>2. N(f) = N(g) /\ \A n \in N(f) : B(f, n) = B(g, n)
      BY <3>1
    <3>3. UNION {B(f, n) : n \in N(f)} = UNION {B(g, n) : n \in N(g)}
      <4> HIDE DEF B, N
      <4> QED
        BY <3>2
    <3>4. DataBy(f, ws) = {<<tree>> : tree \in DatumBy(f, ws)} \union UNION {B(f, n) : n \in N(f)}
      BY <2>2 DEF DataBy
    <3>5. DataBy(g, ws) = {<<tree>> : tree \in DatumBy(g, ws)} \union UNION {B(g, n) : n \in N(g)}
      BY <2>2 DEF DataBy
    <3> HIDE DEF B, N
    <3> QED
      BY <1>3, <3>3, <3>4, <3>5
  <2> QED
    BY <2>1, <2>2
<1> QED
  BY <1>3, <1>4 DEF DenotesBy

UpToWords(n) == {ws \in Seq(Words) : Len(ws) =< n}
MeansUpTo(f, n) ==
  f = [ws \in UpToWords(n) |-> f[ws]] /\ \A ws \in UpToWords(n) : f[ws] = DenotesBy(f, ws)

LEMMA MeaningsAgree ==
  ASSUME NEW m \in Nat, NEW n \in Nat, NEW f, NEW g, MeansUpTo(f, m), MeansUpTo(g, n)
  PROVE  \A ws \in Seq(Words) : Len(ws) =< m /\ Len(ws) =< n => f[ws] = g[ws]
<1> DEFINE Differ == {ws \in Seq(Words) : Len(ws) =< m /\ Len(ws) =< n /\ f[ws] # g[ws]}
           T == {Len(ws) : ws \in Differ}
<1> SUFFICES ASSUME Differ # {} PROVE FALSE
  OBVIOUS
<1>1. T \in SUBSET Nat /\ T # {}
  <2>1. \A ws \in Differ : Len(ws) \in Nat
    BY LenProperties
  <2> HIDE DEF Differ
  <2> QED
    BY <2>1
<1>2. PICK l \in T : \A k \in T : l =< k
  <2> HIDE DEF T
  <2> QED
    BY <1>1, LeastExists
<1>3. PICK ws \in Differ : Len(ws) = l
  OBVIOUS
<1>4. \A v \in Seq(Words) : Len(v) < Len(ws) => f[v] = g[v]
  <2> SUFFICES ASSUME NEW v \in Seq(Words), Len(v) < Len(ws) PROVE f[v] = g[v]
    OBVIOUS
  <2>1. Len(v) \in Nat /\ Len(ws) \in Nat /\ Len(ws) =< m /\ Len(ws) =< n
    BY <1>3, LenProperties
  <2>2. Len(v) \notin T
    <3> HIDE DEF T
    <3> QED
      BY <1>1, <1>2, <1>3, <2>1
  <2>3. v \notin Differ
    <3> HIDE DEF Differ
    <3> QED
      BY <2>2
  <2> QED
    BY <2>1, <2>3
<1>5. DenotesBy(f, ws) = DenotesBy(g, ws)
  BY <1>4, DenotesByDepends
<1>6. f[ws] = DenotesBy(f, ws) /\ g[ws] = DenotesBy(g, ws)
  BY DEF MeansUpTo, UpToWords
<1> QED
  BY <1>5, <1>6

LEMMA MeaningsExist ==
  ASSUME NEW n \in Nat
  PROVE  \E f : MeansUpTo(f, n)
<1> DEFINE Without == {m \in Nat : ~ \E f : MeansUpTo(f, m)}
<1> SUFFICES ASSUME Without # {} PROVE FALSE
  OBVIOUS
<1>1. PICK m \in Without : \A k \in Without : m =< k
  <2>1. Without \in SUBSET Nat
    OBVIOUS
  <2> HIDE DEF Without
  <2> QED
    BY <2>1, LeastExists
<1>2. m \in Nat /\ (m > 0 => m - 1 \in Nat /\ m - 1 \notin Without)
  BY <1>1
<1>3. PICK f : m > 0 => MeansUpTo(f, m - 1)
  BY <1>2
<1> DEFINE g == [ws \in UpToWords(m) |-> DenotesBy(f, ws)]
<1>4. \A ws \in UpToWords(m) : DenotesBy(f, ws) = DenotesBy(g, ws)
  <2> SUFFICES ASSUME NEW ws \in UpToWords(m)
               PROVE  DenotesBy(f, ws) = DenotesBy(g, ws)
    OBVIOUS
  <2>1. ws \in Seq(Words) /\ Len(ws) \in Nat /\ Len(ws) =< m
    BY LenProperties DEF UpToWords
  <2>2. ASSUME NEW v \in Seq(Words), Len(v) < Len(ws)
        PROVE  f[v] = g[v]
    <3>1. Len(v) \in Nat /\ Len(v) =< m - 1 /\ m > 0
      BY <1>2, <2>1, <2>2, LenProperties
    <3>2. v \in UpToWords(m - 1) /\ v \in UpToWords(m)
      BY <1>2, <3>1 DEF UpToWords
    <3>3. f[v] = DenotesBy(f, v)
      BY <1>3, <3>1, <3>2 DEF MeansUpTo
    <3> QED
      BY <3>2, <3>3
  <2> HIDE DEF g
  <2> QED
    BY <2>1, <2>2, DenotesByDepends
<1>5. MeansUpTo(g, m)
  <2>1. \A ws \in UpToWords(m) : g[ws] = DenotesBy(f, ws)
    OBVIOUS
  <2>2. g = [ws \in UpToWords(m) |-> g[ws]]
    OBVIOUS
  <2> HIDE DEF g
  <2> QED
    BY <1>4, <2>1, <2>2 DEF MeansUpTo
<1> QED
  BY <1>1, <1>5

(* Denotes obeys its rule.                                                 *)
LEMMA DenotesRule ==
  ASSUME NEW ws \in Seq(Words)
  PROVE  Denoted(ws) = DatumBy(Denotes, ws) /\ Items(ws) = DataBy(Denotes, ws)
<1> DEFINE f == [v \in Seq(Words) |-> (CHOOSE g : MeansUpTo(g, Len(v)))[v]]
<1>1. ASSUME NEW r \in Seq(Words)
      PROVE  f[r] = DenotesBy(f, r)
  <2>1. Len(r) \in Nat
    BY LenProperties
  <2>2. PICK h : h = CHOOSE g : MeansUpTo(g, Len(r))
    OBVIOUS
  <2>3. MeansUpTo(h, Len(r))
    BY <2>1, <2>2, MeaningsExist
  <2>4. f[r] = h[r]
    BY <2>2
  <2>5. h[r] = DenotesBy(h, r)
    BY <2>1, <2>3 DEF MeansUpTo, UpToWords
  <2>6. ASSUME NEW q \in Seq(Words), Len(q) < Len(r)
        PROVE  h[q] = f[q]
    <3>1. Len(q) \in Nat /\ Len(q) =< Len(r)
      BY <2>1, <2>6, LenProperties
    <3>2. PICK k : k = CHOOSE g : MeansUpTo(g, Len(q))
      OBVIOUS
    <3>3. MeansUpTo(k, Len(q))
      BY <3>1, <3>2, MeaningsExist
    <3>4. f[q] = k[q]
      BY <3>2
    <3>5. k[q] = h[q]
      BY <2>1, <2>3, <3>1, <3>3, MeaningsAgree
    <3> QED
      BY <3>4, <3>5
  <2> HIDE DEF f
  <2>7. DenotesBy(h, r) = DenotesBy(f, r)
    BY <2>6, DenotesByDepends
  <2> QED
    BY <2>4, <2>5, <2>7
<1>2. f = [r \in Seq(Words) |-> DenotesBy(f, r)]
  <2>1. f = [r \in Seq(Words) |-> f[r]]
    OBVIOUS
  <2> HIDE DEF f
  <2> QED
    BY <1>1, <2>1
<1>3. Denotes = [r \in Seq(Words) |-> DenotesBy(Denotes, r)]
  <2> HIDE DEF f
  <2> QED
    BY <1>2 DEF Denotes, Words
<1>4. Denotes[ws] = DenotesBy(Denotes, ws)
  BY <1>3
<1> QED
  BY <1>4 DEF Denoted, Items, DenotesBy

-----------------------------------------------------------------------------
(* A sequence of lexemes W is fixed; (i, j] are those after the i-th, to   *)
(* the j-th.                                                               *)
DatumAt(W, i, j) == Denoted(SubSeq(W, i + 1, j))
ItemsAt(W, i, j) == Items(SubSeq(W, i + 1, j))

AtomOf(w) ==
  IF IsNumeral(w) THEN {Number(NumeralValue(w))} ELSE IF IsName(w) THEN {Symbol(w)} ELSE {}

LEMMA MarksAreNoAtoms ==
  ASSUME NEW c \in Marks
  PROVE  AtomOf(<<c>>) = {} /\ ~ IsNumeral(<<c>>) /\ ~ IsName(<<c>>)
<1> DEFINE w == <<c>>
<1>1. Len(w) = 1 /\ w[1] = c /\ Head(w) = c /\ DOMAIN w = {1}
  OBVIOUS
<1> HIDE DEF w
<1>2. c \notin Digits /\ c \notin Signs /\ c \notin Letters
  BY KindsDiffer
<1>3. ~ IsNumeral(w) /\ ~ IsName(w)
  BY <1>1, <1>2 DEF IsNumeral, IsName, All
<1> QED
  BY <1>3 DEF AtomOf, w

LEMMA RangeOf ==
  ASSUME NEW W \in Seq(Words), NEW i \in 0 .. Len(W), NEW j \in i .. Len(W)
  PROVE  LET ws == SubSeq(W, i + 1, j) IN
         /\ ws \in Seq(Words) /\ Len(ws) = j - i /\ \A m \in 1 .. j - i : ws[m] = W[i + m]
         /\ ws = <<>> <=> i = j
         /\ i < j => Head(ws) = W[i + 1] /\ Last(ws) = W[j] /\ Tail(ws) = SubSeq(W, i + 1 + 1, j)
         /\ \A a \in 0 .. j - i : \A b \in a .. j - i : SubSeq(ws, a + 1, b) = SubSeq(W, i + a + 1, i + b)
<1> DEFINE ws == SubSeq(W, i + 1, j)
<1>1. Len(W) \in Nat /\ i \in Nat /\ j \in Nat /\ i =< j /\ j =< Len(W)
  BY LenProperties
<1>2. /\ ws \in Seq(Words) /\ Len(ws) = j - (i + 1) + 1
      /\ \A m \in 1 .. j - (i + 1) + 1 : ws[m] = W[(i + 1) + m - 1]
  <2>1. i + 1 \in 1 .. Len(W) + 1 /\ j \in (i + 1) - 1 .. Len(W)
    BY <1>1
  <2> QED
    BY <2>1, PieceOf
<1>3. j - (i + 1) + 1 = j - i /\ \A m \in 1 .. j - i : (i + 1) + m - 1 = i + m
  BY <1>1
<1>4. \A a \in 0 .. j - i : \A b \in a .. j - i : SubSeq(ws, a + 1, b) = SubSeq(W, i + a + 1, i + b)
  BY PieceInPiece
<1>5. ASSUME i < j
      PROVE  Head(ws) = W[i + 1] /\ Tail(ws) = SubSeq(W, i + 1 + 1, j)
  <2>1. i + 1 \in 1 .. Len(W) /\ j \in i + 1 .. Len(W)
    BY <1>1, <1>5
  <2> QED
    BY <2>1, HeadTailOfSubSeq
<1> HIDE DEF ws
<1>6. Len(ws) = j - i /\ \A m \in 1 .. j - i : ws[m] = W[i + m]
  BY <1>2, <1>3
<1>7. ws = <<>> <=> i = j
  <2>1. ws = <<>> <=> Len(ws) = 0
    BY <1>2, EmptySeq
  <2> QED
    BY <1>1, <1>6, <2>1
<1>8. ASSUME i < j PROVE Last(ws) = W[j]
  <2>1. j - i \in 1 .. j - i /\ i + (j - i) = j
    BY <1>1, <1>8
  <2> QED
    BY <1>6, <2>1 DEF Last
<1> QED
  BY <1>2, <1>4, <1>5, <1>6, <1>7, <1>8 DEF ws

ListAt(W, i, j, t) ==
  \/ \E items \in ItemsAt(W, i + 1, j - 1) : t = Cells(items, Null)
  \/ \E d \in i + 3 .. j - 1 :
       /\ W[d] = <<".">>
       /\ \E items \in ItemsAt(W, i + 1, d - 1) : \E tail \in DatumAt(W, d, j - 1) :
            t = Cells(items, tail)

LEMMA ListsAtIs ==
  ASSUME NEW W \in Seq(Words), NEW i \in 0 .. Len(W), NEW j \in i .. Len(W), j > i + 1, NEW t
  PROVE  t \in ListsBy(Denotes, SubSeq(W, i + 1, j)) <=> ListAt(W, i, j, t)
<1> DEFINE ws == SubSeq(W, i + 1, j)
<1>1. Len(W) \in Nat /\ i \in Nat /\ j \in Nat /\ i =< j /\ j =< Len(W)
  BY LenProperties
<1>2. /\ Len(ws) = j - i /\ \A m \in 1 .. j - i : ws[m] = W[i + m]
      /\ \A a \in 0 .. j - i : \A b \in a .. j - i : SubSeq(ws, a + 1, b) = SubSeq(W, i + a + 1, i + b)
  BY RangeOf
<1> HIDE DEF ws
<1>3. SubSeq(ws, 2, Len(ws) - 1) = SubSeq(W, i + 1 + 1, j - 1)
  <2>1. 1 \in 0 .. j - i /\ j - i - 1 \in 1 .. j - i
    BY <1>1
  <2>2. SubSeq(ws, 1 + 1, j - i - 1) = SubSeq(W, i + 1 + 1, i + (j - i - 1))
    BY <1>2, <2>1
  <2>3. 1 + 1 = 2 /\ i + (j - i - 1) = j - 1
    BY <1>1
  <2> QED
    BY <1>2, <2>2, <2>3
<1>4. ASSUME NEW d \in 3 .. j - i - 1
      PROVE  /\ SubSeq(ws, 2, d - 1) = SubSeq(W, i + 1 + 1, i + d - 1)
             /\ SubSeq(ws, d + 1, j - i - 1) = SubSeq(W, i + d + 1, j - 1)
             /\ ws[d] = W[i + d]
  <2>1. /\ 1 \in 0 .. j - i /\ d - 1 \in 1 .. j - i /\ d \in 0 .. j - i /\ j - i - 1 \in d .. j - i
        /\ d \in 1 .. j - i
    BY <1>1
  <2>2. /\ SubSeq(ws, 1 + 1, d - 1) = SubSeq(W, i + 1 + 1, i + (d - 1))
        /\ SubSeq(ws, d + 1, j - i - 1) = SubSeq(W, i + d + 1, i + (j - i - 1))
    BY <1>2, <2>1
  <2>3. 1 + 1 = 2 /\ i + (j - i - 1) = j - 1 /\ i + (d - 1) = i + d - 1
    BY <1>1
  <2> QED
    BY <1>2, <2>1, <2>2, <2>3
<1> DEFINE Dotted(d, x) ==
             \E items \in Denotes[SubSeq(ws, 2, d - 1)]["data"] :
             \E tail \in Denotes[SubSeq(ws, d + 1, Len(ws) - 1)]["datum"] : x = Cells(items, tail)
<1>5. t \in ListsBy(Denotes, ws) <=>
        \/ \E items \in Denotes[SubSeq(ws, 2, Len(ws) - 1)]["data"] : t = Cells(items, Null)
        \/ \E d \in {d \in 3 .. Len(ws) - 1 : ws[d] = <<".">>} : Dotted(d, t)
  <2> DEFINE plain == {Cells(items, Null) : items \in Denotes[SubSeq(ws, 2, Len(ws) - 1)]["data"]}
             dotted(d) == {Cells(items, tail) : items \in Denotes[SubSeq(ws, 2, d - 1)]["data"],
                                                tail \in Denotes[SubSeq(ws, d + 1, Len(ws) - 1)]["datum"]}
             dots == {d \in 3 .. Len(ws) - 1 : ws[d] = <<".">>}
  <2>1. ListsBy(Denotes, ws) = plain \union UNION {dotted(d) : d \in dots}
    BY DEF ListsBy
  <2>2. t \in plain <=>
          \E items \in Denotes[SubSeq(ws, 2, Len(ws) - 1)]["data"] : t = Cells(items, Null)
    OBVIOUS
  <2>3. \A d : t \in dotted(d) <=> Dotted(d, t)
    OBVIOUS
  <2> HIDE DEF plain, dotted, dots, Dotted
  <2>4. t \in ListsBy(Denotes, ws) <=> t \in plain \/ \E d \in dots : t \in dotted(d)
    BY <2>1
  <2>5. t \in ListsBy(Denotes, ws) <=> t \in plain \/ \E d \in dots : Dotted(d, t)
    BY <2>3, <2>4
  <2> QED
    BY <2>2, <2>5 DEF dots
<1>6. ASSUME NEW d \in 3 .. j - i - 1
      PROVE  Dotted(d, t) <=> \E items \in ItemsAt(W, i + 1, i + d - 1) : \E tail \in DatumAt(W, i + d, j - 1) :
                                t = Cells(items, tail)
  BY <1>2, <1>4 DEF ItemsAt, DatumAt, Items, Denoted
<1> DEFINE DottedAt(d) ==
                /\ W[d] = <<".">>
                /\ \E items \in ItemsAt(W, i + 1, d - 1) : \E tail \in DatumAt(W, d, j - 1) :
                     t = Cells(items, tail)
<1> HIDE DEF Dotted
<1>7. (\E d \in {d \in 3 .. Len(ws) - 1 : ws[d] = <<".">>} : Dotted(d, t)) <=>
        \E d \in i + 3 .. j - 1 : DottedAt(d)
  <2>1. ASSUME NEW d \in 3 .. j - i - 1, ws[d] = <<".">>, Dotted(d, t)
        PROVE  i + d \in i + 3 .. j - 1 /\ DottedAt(i + d)
    <3>1. i + d \in i + 3 .. j - 1
      BY <1>1
    <3> QED
      BY <1>4, <1>6, <2>1, <3>1
  <2>2. ASSUME NEW d \in i + 3 .. j - 1, DottedAt(d)
        PROVE  d - i \in 3 .. j - i - 1 /\ ws[d - i] = <<".">> /\ Dotted(d - i, t)
    <3>1. d - i \in 3 .. j - i - 1 /\ i + (d - i) = d
      BY <1>1
    <3>2. /\ ws[d - i] = W[i + (d - i)]
          /\ Dotted(d - i, t) <=> \E items \in ItemsAt(W, i + 1, i + (d - i) - 1) :
                                  \E tail \in DatumAt(W, i + (d - i), j - 1) : t = Cells(items, tail)
      BY <1>4, <1>6, <3>1
    <3> QED
      BY <2>2, <3>1, <3>2
  <2> HIDE DEF DottedAt
  <2> QED
    BY <1>2, <2>1, <2>2
<1>8. (\E items \in Denotes[SubSeq(ws, 2, Len(ws) - 1)]["data"] : t = Cells(items, Null)) <=>
        \E items \in ItemsAt(W, i + 1, j - 1) : t = Cells(items, Null)
  BY <1>3 DEF ItemsAt, Items
<1> QED
  BY <1>5, <1>7, <1>8 DEF ws, ListAt

(* The rules for a datum.                                                  *)
LEMMA DatumAtIs ==
  ASSUME NEW W \in Seq(Words), NEW i \in 0 .. Len(W), NEW j \in i .. Len(W), NEW t
  PROVE  t \in DatumAt(W, i, j) <=>
           \/ j = i + 1 /\ t \in AtomOf(W[i + 1])
           \/ j > i + 1 /\ W[i + 1] = <<"'">> /\ \E u \in DatumAt(W, i + 1, j) : t = Quoted(u)
           \/ j > i + 1 /\ W[i + 1] = <<"(">> /\ W[j] = <<")">> /\ ListAt(W, i, j, t)
<1> DEFINE ws == SubSeq(W, i + 1, j)
<1>1. Len(W) \in Nat /\ i \in Nat /\ j \in Nat /\ i =< j /\ j =< Len(W)
  BY LenProperties
<1>2. /\ ws \in Seq(Words) /\ Len(ws) = j - i /\ \A m \in 1 .. j - i : ws[m] = W[i + m]
      /\ ws = <<>> <=> i = j
      /\ i < j => Head(ws) = W[i + 1] /\ Last(ws) = W[j] /\ Tail(ws) = SubSeq(W, i + 1 + 1, j)
  <2>1. ws \in Seq(Words) /\ Len(ws) = j - i
    BY RangeOf
  <2>2. \A m \in 1 .. j - i : ws[m] = W[i + m]
    BY RangeOf
  <2>3. ws = <<>> <=> i = j
    BY RangeOf
  <2>4. i < j => Head(ws) = W[i + 1] /\ Last(ws) = W[j] /\ Tail(ws) = SubSeq(W, i + 1 + 1, j)
    BY RangeOf
  <2> QED
    BY <2>1, <2>2, <2>3, <2>4
<1>3. DatumAt(W, i, j) = DatumBy(Denotes, ws)
  BY <1>2, DenotesRule DEF DatumAt
<1>4. j > i + 1 => (t \in ListsBy(Denotes, ws) <=> ListAt(W, i, j, t))
  BY ListsAtIs
<1>5. Denotes[Tail(ws)]["datum"] = IF i < j THEN DatumAt(W, i + 1, j) ELSE Denotes[Tail(ws)]["datum"]
  BY <1>2 DEF DatumAt, Denoted
<1>6. <<"'">> # <<"(">>
  OBVIOUS
<1> HIDE DEF ws
<1>7. CASE i = j
  BY <1>1, <1>2, <1>3, <1>7 DEF DatumBy
<1>8. CASE j = i + 1
  <2>1. ws # <<>> /\ Len(ws) = 1 /\ ws[1] = W[i + 1] /\ ~ j > i + 1
    BY <1>1, <1>2, <1>8
  <2>2. DatumBy(Denotes, ws) = AtomOf(W[i + 1])
    BY <2>1 DEF DatumBy, AtomOf
  <2> QED
    BY <1>3, <1>8, <2>1, <2>2
<1>9. CASE j > i + 1
  <2>1. ws # <<>> /\ Len(ws) # 1 /\ i < j /\ j # i + 1
    BY <1>1, <1>2, <1>9
  <2>2. DatumBy(Denotes, ws) =
          IF Head(ws) = <<"'">> THEN {Quoted(tree) : tree \in Denotes[Tail(ws)]["datum"]}
          ELSE IF Head(ws) = <<"(">> /\ Last(ws) = <<")">> THEN ListsBy(Denotes, ws) ELSE {}
    BY <2>1 DEF DatumBy
  <2> QED
    BY <1>2, <1>3, <1>4, <1>5, <1>6, <1>9, <2>1, <2>2
<1> QED
  BY <1>1, <1>7, <1>8, <1>9

(* The rules for data one after another.                                   *)
LEMMA ItemsAtIs ==
  ASSUME NEW W \in Seq(Words), NEW i \in 0 .. Len(W), NEW j \in i .. Len(W)
  PROVE  /\ i = j => ItemsAt(W, i, j) = {<<>>}
         /\ i < j => \A x : x \in ItemsAt(W, i, j) <=>
                       \E n \in i .. j - 1 : \E items \in ItemsAt(W, i, n) : \E t \in DatumAt(W, n, j) :
                         x = Append(items, t)
<1> DEFINE ws == SubSeq(W, i + 1, j)
<1>1. Len(W) \in Nat /\ i \in Nat /\ j \in Nat /\ i =< j /\ j =< Len(W)
  BY LenProperties
<1>2. /\ ws \in Seq(Words) /\ Len(ws) = j - i
      /\ ws = <<>> <=> i = j
      /\ \A a \in 0 .. j - i : \A b \in a .. j - i : SubSeq(ws, a + 1, b) = SubSeq(W, i + a + 1, i + b)
  <2>1. ws \in Seq(Words) /\ Len(ws) = j - i
    BY RangeOf
  <2>2. ws = <<>> <=> i = j
    BY RangeOf
  <2>3. \A a \in 0 .. j - i : \A b \in a .. j - i : SubSeq(ws, a + 1, b) = SubSeq(W, i + a + 1, i + b)
    BY RangeOf
  <2> QED
    BY <2>1, <2>2, <2>3
<1>3. ItemsAt(W, i, j) = DataBy(Denotes, ws) /\ DatumAt(W, i, j) = DatumBy(Denotes, ws)
  BY <1>2, DenotesRule DEF ItemsAt, DatumAt
<1> HIDE DEF ws
<1>4. ASSUME i = j PROVE ItemsAt(W, i, j) = {<<>>}
  BY <1>2, <1>3, <1>4 DEF DataBy
<1>5. ItemsAt(W, i, i) = {<<>>}
  <2>1. SubSeq(W, i + 1, i) = <<>> /\ <<>> \in Seq(Words)
    BY <1>1, SubSeqEmpty, EmptySeq
  <2>2. Items(<<>>) = DataBy(Denotes, <<>>)
    BY <2>1, DenotesRule
  <2>3. DataBy(Denotes, <<>>) = {<<>>}
    BY DEF DataBy
  <2> QED
    BY <2>1, <2>2, <2>3 DEF ItemsAt
<1>6. ASSUME NEW x, i < j
      PROVE  x \in ItemsAt(W, i, j) <=>
                       \E n \in i .. j - 1 : \E items \in ItemsAt(W, i, n) : \E t \in DatumAt(W, n, j) :
                         x = Append(items, t)
  <2> DEFINE two(n) == \E items \in Denotes[SubSeq(ws, 1, n)]["data"] :
                       \E t \in Denotes[SubSeq(ws, n + 1, Len(ws))]["datum"] : x = Append(items, t)
             at2(n) == \E items \in ItemsAt(W, i, n) : \E t \in DatumAt(W, n, j) : x = Append(items, t)
  <2>1. ws # <<>>
    BY <1>1, <1>2, <1>6
  <2>2. x \in DataBy(Denotes, ws) <=>
          \/ \E t \in DatumBy(Denotes, ws) : x = <<t>>
          \/ \E n \in {n \in 1 .. Len(ws) - 1 : Denotes[SubSeq(ws, n + 1, Len(ws))]["datum"] # {}} : two(n)
    <3> DEFINE A == {<<t>> : t \in DatumBy(Denotes, ws)}
               N == {n \in 1 .. Len(ws) - 1 : Denotes[SubSeq(ws, n + 1, Len(ws))]["datum"] # {}}
               B(n) == {Append(items, t) : items \in Denotes[SubSeq(ws, 1, n)]["data"],
                                           t \in Denotes[SubSeq(ws, n + 1, Len(ws))]["datum"]}
    <3>1. DataBy(Denotes, ws) = A \union UNION {B(n) : n \in N}
      BY <2>1 DEF DataBy
    <3>2. /\ x \in A <=> \E t \in DatumBy(Denotes, ws) : x = <<t>>
          /\ \A n : x \in B(n) <=> two(n)
      OBVIOUS
    <3> HIDE DEF A, B
    <3> HIDE DEF two
    <3> QED
      BY <3>1, <3>2
  <2>3. (\E n \in {n \in 1 .. Len(ws) - 1 : Denotes[SubSeq(ws, n + 1, Len(ws))]["datum"] # {}} : two(n))
        <=> \E n \in 1 .. Len(ws) - 1 : two(n)
    OBVIOUS
  <2>4. ASSUME NEW n \in 1 .. j - i - 1
        PROVE  two(n) <=> at2(i + n)
    <3>1. 0 \in 0 .. j - i /\ n \in 0 .. j - i /\ n \in 0 .. j - i /\ j - i \in n .. j - i
      BY <1>1
    <3>2. /\ SubSeq(ws, 0 + 1, n) = SubSeq(W, i + 0 + 1, i + n)
          /\ SubSeq(ws, n + 1, j - i) = SubSeq(W, i + n + 1, i + (j - i))
      BY <1>2, <3>1
    <3>3. 0 + 1 = 1 /\ i + 0 + 1 = i + 1 /\ i + (j - i) = j
      BY <1>1
    <3> QED
      BY <1>2, <3>2, <3>3 DEF ItemsAt, DatumAt, Items, Denoted
  <2>5. (\E t \in DatumBy(Denotes, ws) : x = <<t>>) <=> at2(i)
    <3>1. \A t : Append(<<>>, t) = <<t>>
      OBVIOUS
    <3> QED
      BY <1>3, <1>5, <3>1
  <2> HIDE DEF two, at2
  <2>6. (\E n \in 1 .. Len(ws) - 1 : two(n)) <=> \E n \in i + 1 .. j - 1 : at2(n)
    <3>1. ASSUME NEW n \in 1 .. Len(ws) - 1, two(n)
          PROVE  i + n \in i + 1 .. j - 1 /\ at2(i + n)
      <4>1. n \in 1 .. j - i - 1 /\ i + n \in i + 1 .. j - 1
        BY <1>1, <1>2
      <4> QED
        BY <2>4, <3>1, <4>1
    <3>2. ASSUME NEW n \in i + 1 .. j - 1, at2(n)
          PROVE  n - i \in 1 .. Len(ws) - 1 /\ two(n - i)
      <4>1. n - i \in 1 .. j - i - 1 /\ i + (n - i) = n
        BY <1>1
      <4>2. two(n - i) <=> at2(i + (n - i))
        BY <2>4, <4>1
      <4> QED
        BY <1>2, <3>2, <4>1, <4>2
    <3> QED
      BY <3>1, <3>2
  <2>7. (at2(i) \/ \E n \in i + 1 .. j - 1 : at2(n)) <=> \E n \in i .. j - 1 : at2(n)
    <3>1. \A n : n \in i .. j - 1 <=> n = i \/ n \in i + 1 .. j - 1
      BY <1>1, <1>6
    <3> QED
      BY <3>1
  <2>8. x \in ItemsAt(W, i, j) <=> \E n \in i .. j - 1 : at2(n)
    BY <1>3, <2>2, <2>3, <2>5, <2>6, <2>7
  <2> QED
    BY <2>8 DEF at2
<1> QED
  BY <1>4, <1>6

(* How a list ends: after its items comes its bracket, or a dot, the tail  *)
(* and the bracket.                                                        *)
EndsAt(W, i, j, t, e) ==
  \E items \in ItemsAt(W, i + 1, e) :
    \/ e = j - 1 /\ t = Cells(items, Null)
    \/ /\ e >= i + 2 /\ e + 1 < j /\ W[e + 1] = <<".">>
       /\ \E tail \in DatumAt(W, e + 1, j - 1) : t = Cells(items, tail)

LEMMA ListEnds ==
  ASSUME NEW W \in Seq(Words), NEW i \in 0 .. Len(W), NEW j \in i .. Len(W),
         NEW t \in DatumAt(W, i, j), W[i + 1] = <<"(">>
  PROVE  j > i + 1 /\ W[j] = <<")">> /\ \E e \in i + 1 .. j - 1 : EndsAt(W, i, j, t, e)
<1>1. Len(W) \in Nat /\ i \in Nat /\ j \in Nat /\ i =< j /\ j =< Len(W)
  BY LenProperties
<1>2. AtomOf(<<"(">>) = {} /\ <<"(">> # <<"'">>
  BY MarksAreNoAtoms DEF Marks
<1>3. j > i + 1 /\ W[j] = <<")">> /\ ListAt(W, i, j, t)
  BY <1>2, DatumAtIs
<1>4. CASE \E items \in ItemsAt(W, i + 1, j - 1) : t = Cells(items, Null)
  <2>1. j - 1 \in i + 1 .. j - 1
    BY <1>1, <1>3
  <2>2. EndsAt(W, i, j, t, j - 1)
    BY <1>4 DEF EndsAt
  <2> QED
    BY <1>3, <2>1, <2>2
<1>5. CASE \E d \in i + 3 .. j - 1 :
             /\ W[d] = <<".">>
             /\ \E items \in ItemsAt(W, i + 1, d - 1) : \E tail \in DatumAt(W, d, j - 1) :
                  t = Cells(items, tail)
  <2>1. PICK d \in i + 3 .. j - 1 :
             /\ W[d] = <<".">>
             /\ \E items \in ItemsAt(W, i + 1, d - 1) : \E tail \in DatumAt(W, d, j - 1) :
                  t = Cells(items, tail)
    BY <1>5
  <2> DEFINE e == d - 1
  <2>2. e \in i + 1 .. j - 1 /\ e >= i + 2 /\ e + 1 < j /\ e + 1 = d
    BY <1>1
  <2>3. \E items \in ItemsAt(W, i + 1, e) : \E tail \in DatumAt(W, d, j - 1) : t = Cells(items, tail)
    BY <2>1
  <2> HIDE DEF e
  <2>4. EndsAt(W, i, j, t, e)
    BY <2>1, <2>2, <2>3 DEF EndsAt
  <2> QED
    BY <1>3, <2>2, <2>4
<1> QED
  BY <1>3, <1>4, <1>5 DEF ListAt

LEMMA DatumBegins ==
  ASSUME NEW W \in Seq(Words), NEW i \in 0 .. Len(W), NEW j \in i .. Len(W), DatumAt(W, i, j) # {}
  PROVE  i < j /\ W[i + 1] # <<")">> /\ W[i + 1] # <<".">>
<1>1. Len(W) \in Nat /\ i \in Nat /\ j \in Nat /\ i =< j
  BY LenProperties
<1>2. PICK t \in DatumAt(W, i, j) : TRUE
  OBVIOUS
<1>3. /\ AtomOf(<<")">>) = {} /\ AtomOf(<<".">>) = {}
      /\ <<")">> # <<"(">> /\ <<")">> # <<"'">> /\ <<".">> # <<"(">> /\ <<".">> # <<"'">>
  BY MarksAreNoAtoms DEF Marks
<1>4. \/ j = i + 1 /\ t \in AtomOf(W[i + 1])
      \/ j > i + 1 /\ W[i + 1] = <<"'">>
      \/ j > i + 1 /\ W[i + 1] = <<"(">>
  BY <1>2, DatumAtIs
<1> QED
  BY <1>1, <1>3, <1>4

-----------------------------------------------------------------------------
(* The notation is unambiguous: no datum is the beginning of another, and  *)
(* a sequence of lexemes denotes at most one.                              *)
OneDatum(W, l) ==
  \A i \in 0 .. Len(W) : \A k \in i .. Len(W) : \A j \in k .. Len(W) :
    j - i = l => \A a \in DatumAt(W, i, k) : \A b \in DatumAt(W, i, j) : k = j /\ a = b
GoesOn(W, k, j) == \E m \in k + 1 .. j : DatumAt(W, k, m) # {}
OneList(W, l) ==
  \A i \in 0 .. Len(W) : \A k \in i .. Len(W) : \A j \in k .. Len(W) :
    j - i = l => \A x \in ItemsAt(W, i, k) : \A y \in ItemsAt(W, i, j) :
                   IF k = j THEN x = y ELSE GoesOn(W, k, j)

LEMMA NoDatumHere ==
  ASSUME NEW W \in Seq(Words), NEW k \in 0 .. Len(W), NEW j \in k .. Len(W), GoesOn(W, k, j)
  PROVE  W[k + 1] # <<")">> /\ W[k + 1] # <<".">>
<1>1. Len(W) \in Nat /\ k \in Nat /\ j \in Nat
  BY LenProperties
<1>2. PICK m \in k + 1 .. j : DatumAt(W, k, m) # {}
  BY DEF GoesOn
<1>3. m \in k .. Len(W)
  BY <1>1
<1> QED
  BY <1>2, <1>3, DatumBegins

LEMMA OneDatumStep ==
  ASSUME NEW W \in Seq(Words), NEW l \in Nat,
         \A m \in Nat : m < l => OneDatum(W, m) /\ OneList(W, m)
  PROVE  OneDatum(W, l)
<1> SUFFICES ASSUME NEW i \in 0 .. Len(W), NEW k \in i .. Len(W), NEW j \in k .. Len(W), j - i = l,
                    NEW a \in DatumAt(W, i, k), NEW b \in DatumAt(W, i, j)
             PROVE  k = j /\ a = b
  BY DEF OneDatum
<1>1. Len(W) \in Nat /\ i \in Nat /\ j \in Nat /\ k \in Nat /\ i =< k /\ k =< j /\ j =< Len(W)
  BY LenProperties
<1>2. j \in i .. Len(W)
  BY <1>1
<1>3. /\ \/ k = i + 1 /\ a \in AtomOf(W[i + 1])
         \/ k > i + 1 /\ W[i + 1] = <<"'">> /\ \E u \in DatumAt(W, i + 1, k) : a = Quoted(u)
         \/ k > i + 1 /\ W[i + 1] = <<"(">>
      /\ \/ j = i + 1 /\ b \in AtomOf(W[i + 1])
         \/ j > i + 1 /\ W[i + 1] = <<"'">> /\ \E u \in DatumAt(W, i + 1, j) : b = Quoted(u)
         \/ j > i + 1 /\ W[i + 1] = <<"(">>
  BY <1>2, DatumAtIs
<1>4. AtomOf(<<"'">>) = {} /\ AtomOf(<<"(">>) = {} /\ <<"(">> # <<"'">> /\ <<".">> # <<")">>
  BY MarksAreNoAtoms DEF Marks
<1>5. CASE W[i + 1] # <<"'">> /\ W[i + 1] # <<"(">>
  BY <1>3, <1>5 DEF AtomOf
<1>6. CASE W[i + 1] = <<"'">>
  <2>1. PICK u \in DatumAt(W, i + 1, k) : a = Quoted(u)
    BY <1>3, <1>4, <1>6
  <2>2. PICK v \in DatumAt(W, i + 1, j) : b = Quoted(v)
    BY <1>3, <1>4, <1>6
  <2>3. k > i + 1 /\ j > i + 1
    BY <1>3, <1>4, <1>6
  <2>4. i + 1 \in 0 .. Len(W) /\ k \in i + 1 .. Len(W) /\ j - (i + 1) \in Nat /\ j - (i + 1) < l
    BY <1>1, <2>3
  <2>5. OneDatum(W, j - (i + 1))
    BY <2>4
  <2>6. k = j /\ u = v
    BY <2>4, <2>5 DEF OneDatum
  <2> QED
    BY <2>1, <2>2, <2>6
<1>7. CASE W[i + 1] = <<"(">>
  <2>1. k > i + 1 /\ W[k] = <<")">> /\ \E e \in i + 1 .. k - 1 : EndsAt(W, i, k, a, e)
    BY <1>7, ListEnds
  <2>2. j > i + 1 /\ W[j] = <<")">> /\ \E e \in i + 1 .. j - 1 : EndsAt(W, i, j, b, e)
    BY <1>2, <1>7, ListEnds
  <2>3. PICK e \in i + 1 .. k - 1 : EndsAt(W, i, k, a, e)
    BY <2>1
  <2>4. PICK f \in i + 1 .. j - 1 : EndsAt(W, i, j, b, f)
    BY <2>2
  <2>5. PICK x \in ItemsAt(W, i + 1, e) :
    \/ e = k - 1 /\ a = Cells(x, Null)
    \/ /\ e >= i + 2 /\ e + 1 < k /\ W[e + 1] = <<".">>
       /\ \E tail \in DatumAt(W, e + 1, k - 1) : a = Cells(x, tail)
    BY <2>3 DEF EndsAt
  <2>6. PICK y \in ItemsAt(W, i + 1, f) :
    \/ f = j - 1 /\ b = Cells(y, Null)
    \/ /\ f >= i + 2 /\ f + 1 < j /\ W[f + 1] = <<".">>
       /\ \E tail \in DatumAt(W, f + 1, j - 1) : b = Cells(y, tail)
    BY <2>4 DEF EndsAt
  <2>7. /\ e \in Nat /\ f \in Nat /\ e \in 0 .. Len(W) /\ f \in 0 .. Len(W) /\ e >= i + 1 /\ f >= i + 1
        /\ e < k /\ f < j /\ i + 1 \in 0 .. Len(W) /\ k - 1 + 1 = k /\ j - 1 + 1 = j
    BY <1>1, <2>1, <2>2
  <2>8. /\ W[e + 1] = <<")">> \/ W[e + 1] = <<".">>
        /\ W[f + 1] = <<")">> \/ W[f + 1] = <<".">>
    BY <2>1, <2>2, <2>5, <2>6, <2>7
  <2>9. e = f
    <3>1. CASE e < f
      <4>1. f - (i + 1) \in Nat /\ f - (i + 1) < l /\ e \in i + 1 .. Len(W) /\ f \in e .. Len(W) /\ e # f
        BY <1>1, <2>7, <3>1
      <4>2. GoesOn(W, e, f)
        BY <2>7, <4>1 DEF OneList
      <4> QED
        BY <2>7, <2>8, <4>1, <4>2, NoDatumHere
    <3>2. CASE f < e
      <4>1. e - (i + 1) \in Nat /\ e - (i + 1) < l /\ f \in i + 1 .. Len(W) /\ e \in f .. Len(W) /\ e # f
        BY <1>1, <2>7, <3>2
      <4>2. GoesOn(W, f, e)
        BY <2>7, <4>1 DEF OneList
      <4> QED
        BY <2>7, <2>8, <4>1, <4>2, NoDatumHere
    <3> QED
      BY <2>7, <3>1, <3>2
  <2>10. x = y
    <3>1. f - (i + 1) \in Nat /\ f - (i + 1) < l /\ f \in i + 1 .. Len(W) /\ f \in f .. Len(W)
      BY <1>1, <2>7
    <3>2. OneList(W, f - (i + 1))
      BY <3>1
    <3>3. x \in ItemsAt(W, i + 1, f) /\ y \in ItemsAt(W, i + 1, f)
      BY <2>9
    <3>4. \A v \in ItemsAt(W, i + 1, f) : \A w \in ItemsAt(W, i + 1, f) : v = w
      BY <2>7, <3>1, <3>2 DEF OneList
    <3> QED
      BY <3>3, <3>4
  <2>11. CASE W[e + 1] = <<")">>
    <3>1. e = k - 1 /\ a = Cells(x, Null) /\ f = j - 1 /\ b = Cells(y, Null)
      BY <1>4, <2>5, <2>6, <2>9, <2>11
    <3>2. k = j
      BY <2>7, <2>9, <3>1
    <3> QED
      BY <2>10, <3>1, <3>2
  <2>12. CASE W[e + 1] # <<")">>
    <3>1. e + 1 < k /\ f + 1 < j
      BY <2>1, <2>2, <2>5, <2>6, <2>7, <2>9, <2>12
    <3>2. PICK u \in DatumAt(W, e + 1, k - 1) : a = Cells(x, u)
      BY <2>1, <2>5, <2>7, <2>12
    <3>3. PICK v \in DatumAt(W, e + 1, j - 1) : b = Cells(y, v)
      BY <2>2, <2>6, <2>7, <2>9, <2>12
    <3>4. /\ e + 1 \in 0 .. Len(W) /\ k - 1 \in e + 1 .. Len(W) /\ j - 1 \in k - 1 .. Len(W)
          /\ j - 1 - (e + 1) \in Nat /\ j - 1 - (e + 1) < l
      BY <1>1, <2>7, <3>1
    <3>5. OneDatum(W, j - 1 - (e + 1))
      BY <3>4
    <3>6. k - 1 = j - 1 /\ u = v
      BY <3>4, <3>5 DEF OneDatum
    <3> QED
      BY <1>1, <2>10, <3>2, <3>3, <3>6
  <2> QED
    BY <2>11, <2>12
<1> QED
  BY <1>5, <1>6, <1>7

LEMMA OneListStep ==
  ASSUME NEW W \in Seq(Words), NEW l \in Nat,
         \A m \in Nat : m =< l => OneDatum(W, m), \A m \in Nat : m < l => OneList(W, m)
  PROVE  OneList(W, l)
<1> SUFFICES ASSUME NEW i \in 0 .. Len(W), NEW k \in i .. Len(W), NEW j \in k .. Len(W), j - i = l,
                    NEW x \in ItemsAt(W, i, k), NEW y \in ItemsAt(W, i, j)
             PROVE  IF k = j THEN x = y ELSE GoesOn(W, k, j)
  BY DEF OneList
<1>1. /\ Len(W) \in Nat /\ i \in Nat /\ j \in Nat /\ k \in Nat /\ i =< k /\ k =< j /\ j =< Len(W)
      /\ i \in i .. Len(W) /\ j \in i .. Len(W)
  BY LenProperties
<1>2. ASSUME NEW n \in i .. j - 1, NEW h \in n + 1 .. j - 1, GoesOn(W, n, h), DatumAt(W, n, j) # {}
      PROVE  FALSE
  <2>1. PICK m \in n + 1 .. h : DatumAt(W, n, m) # {}
    BY <1>2 DEF GoesOn
  <2>2. /\ n \in 0 .. Len(W) /\ m \in n .. Len(W) /\ j \in m .. Len(W) /\ j - n \in Nat /\ j - n =< l
        /\ m # j
    BY <1>1
  <2>3. OneDatum(W, j - n)
    BY <2>2
  <2> QED
    BY <1>2, <2>1, <2>2, <2>3 DEF OneDatum
<1>3. ASSUME i < j
      PROVE  \E n \in i .. j - 1 : \E items \in ItemsAt(W, i, n) : \E t \in DatumAt(W, n, j) :
               y = Append(items, t)
  BY <1>1, <1>3, ItemsAtIs
<1>4. CASE k < j
  <2>1. PICK n \in i .. j - 1 : \E items \in ItemsAt(W, i, n) : \E t \in DatumAt(W, n, j) :
               y = Append(items, t)
    BY <1>1, <1>3, <1>4
  <2>2. PICK z \in ItemsAt(W, i, n) : DatumAt(W, n, j) # {}
    BY <2>1
  <2>3. n \in Nat /\ i =< n /\ n < j
    BY <1>1
  <2>4. CASE n = k
    <3>1. j \in k + 1 .. j
      BY <1>1, <1>4
    <3> QED
      BY <1>4, <2>2, <2>4, <3>1 DEF GoesOn
  <2>5. CASE k < n
    <3>1. n - i \in Nat /\ n - i < l /\ n \in k .. Len(W) /\ k # n
      BY <1>1, <2>3, <2>5
    <3>2. GoesOn(W, k, n)
      BY <2>2, <3>1 DEF OneList
    <3>3. \A m \in k + 1 .. n : m \in k + 1 .. j
      BY <1>1, <2>3
    <3> QED
      BY <1>1, <1>4, <3>2, <3>3 DEF GoesOn
  <2>6. CASE n < k
    <3>1. k - i \in Nat /\ k - i < l /\ n \in i .. Len(W) /\ k \in n .. Len(W) /\ k # n /\ k \in n + 1 .. j - 1
      BY <1>1, <1>4, <2>3, <2>6
    <3>2. GoesOn(W, n, k)
      BY <2>2, <3>1 DEF OneList
    <3> QED
      BY <1>2, <2>2, <3>1, <3>2
  <2> QED
    BY <1>1, <2>3, <2>4, <2>5, <2>6
<1>5. CASE k = j /\ i = j
  BY <1>1, <1>5, ItemsAtIs
<1>6. CASE k = j /\ i < j
  <2>1. PICK n \in i .. j - 1 : \E items \in ItemsAt(W, i, n) : \E t \in DatumAt(W, n, j) :
               y = Append(items, t)
    BY <1>3, <1>6
  <2>2. PICK y2 \in ItemsAt(W, i, n), t \in DatumAt(W, n, j) : y = Append(y2, t)
    BY <2>1
  <2>3. \E p \in i .. j - 1 : \E items \in ItemsAt(W, i, p) : \E s \in DatumAt(W, p, j) :
               x = Append(items, s)
    BY <1>1, <1>6, ItemsAtIs
  <2>4. PICK p \in i .. j - 1 : \E items \in ItemsAt(W, i, p) : \E s \in DatumAt(W, p, j) :
               x = Append(items, s)
    BY <2>3
  <2>5. PICK x2 \in ItemsAt(W, i, p), s \in DatumAt(W, p, j) : x = Append(x2, s)
    BY <2>4
  <2>6. n \in Nat /\ i =< n /\ n < j /\ p \in Nat /\ i =< p /\ p < j
    BY <1>1
  <2>7. CASE n < p
    <3>1. p - i \in Nat /\ p - i < l /\ n \in i .. Len(W) /\ p \in n .. Len(W) /\ p # n /\ p \in n + 1 .. j - 1
      BY <1>1, <2>6, <2>7
    <3>2. GoesOn(W, n, p)
      BY <2>2, <2>5, <3>1 DEF OneList
    <3> QED
      BY <1>2, <2>2, <3>1, <3>2
  <2>8. CASE p < n
    <3>1. n - i \in Nat /\ n - i < l /\ p \in i .. Len(W) /\ n \in p .. Len(W) /\ p # n /\ n \in p + 1 .. j - 1
      BY <1>1, <2>6, <2>8
    <3>2. GoesOn(W, p, n)
      BY <2>2, <2>5, <3>1 DEF OneList
    <3> QED
      BY <1>2, <2>5, <3>1, <3>2
  <2>9. CASE n = p
    <3>1. n - i \in Nat /\ n - i < l /\ n \in i .. Len(W) /\ n \in n .. Len(W)
      BY <1>1, <2>6
    <3>2. x2 = y2
      <4>1. OneList(W, n - i)
        BY <3>1
      <4>2. \A v \in ItemsAt(W, i, n) : \A w \in ItemsAt(W, i, n) : v = w
        BY <3>1, <4>1 DEF OneList
      <4>3. x2 \in ItemsAt(W, i, n) /\ y2 \in ItemsAt(W, i, n)
        BY <2>2, <2>5, <2>9
      <4> QED
        BY <4>2, <4>3
    <3>3. /\ j - n \in Nat /\ j - n =< l /\ n \in 0 .. Len(W) /\ j \in n .. Len(W) /\ j \in j .. Len(W)
      BY <1>1, <2>6
    <3>4. OneDatum(W, j - n)
      BY <3>3
    <3>5. s = t
      BY <2>2, <2>5, <2>9, <3>3, <3>4 DEF OneDatum
    <3> QED
      BY <1>6, <2>2, <2>5, <3>2, <3>5
  <2> QED
    BY <2>6, <2>7, <2>8, <2>9
<1> QED
  BY <1>1, <1>4, <1>5, <1>6

LEMMA OneMeaning ==
  ASSUME NEW W \in Seq(Words), NEW l \in Nat
  PROVE  OneDatum(W, l) /\ OneList(W, l)
<1> DEFINE T == {m \in Nat : ~ (OneDatum(W, m) /\ OneList(W, m))}
<1> SUFFICES ASSUME T # {} PROVE FALSE
  OBVIOUS
<1>1. PICK m \in T : \A n \in T : m =< n
  <2>1. T \in SUBSET Nat
    OBVIOUS
  <2> HIDE DEF T
  <2> QED
    BY <2>1, LeastExists
<1>2. m \in Nat /\ \A n \in Nat : n < m => OneDatum(W, n) /\ OneList(W, n)
  BY <1>1
<1>3. OneDatum(W, m)
  BY <1>2, OneDatumStep
<1>4. \A n \in Nat : n =< m => OneDatum(W, n)
  BY <1>2, <1>3
<1>5. OneList(W, m)
  BY <1>2, <1>4, OneListStep
<1> QED
  BY <1>3, <1>5

(* The same, without lengths.                                              *)
LEMMA Unambiguous ==
  ASSUME NEW W \in Seq(Words), NEW i \in 0 .. Len(W), NEW k \in i .. Len(W), NEW j \in k .. Len(W)
  PROVE  /\ \A a \in DatumAt(W, i, k) : \A b \in DatumAt(W, i, j) : k = j /\ a = b
         /\ \A x \in ItemsAt(W, i, k) : \A y \in ItemsAt(W, i, j) :
              IF k = j THEN x = y ELSE GoesOn(W, k, j)
<1>1. j - i \in Nat
  BY LenProperties
<1> QED
  BY <1>1, OneMeaning DEF OneDatum, OneList

(* Two trees are never denoted by one sequence of lexemes, nor does a      *)
(* datum begin with another one: the parser, which decides on the way,     *)
(* never had a choice.                                                     *)
THEOREM NotationIsUnambiguous ==
  ASSUME NEW ws \in Seq(Words), NEW n \in 0 .. Len(ws),
         NEW a \in Denoted(SubSeq(ws, 1, n)), NEW b \in Denoted(ws)
  PROVE  n = Len(ws) /\ a = b
<1>1. 0 \in 0 .. Len(ws) /\ n \in 0 .. Len(ws) /\ Len(ws) \in n .. Len(ws) /\ 0 + 1 = 1
  BY LenProperties
<1>2. a \in DatumAt(ws, 0, n)
  BY <1>1 DEF DatumAt
<1>3. b \in DatumAt(ws, 0, Len(ws))
  BY <1>1, SubSeqFull DEF DatumAt
<1> QED
  BY <1>1, <1>2, <1>3, Unambiguous

-----------------------------------------------------------------------------
(* No datum begins after the k-th lexeme.                                  *)
Stuck(W, k) == ~ GoesOn(W, k, Len(W))

LEMMA DataIs ==
  ASSUME NEW W \in Seq(Words), NEW f \in 0 .. Len(W), NEW x \in ItemsAt(W, 0, f), Stuck(W, f)
  PROVE  Data(W) = [trees |-> x, whole |-> f = Len(W)]
<1> DEFINE S == {n \in 0 .. Len(W) : Items(SubSeq(W, 1, n)) # {}}
<1>1. Len(W) \in Nat /\ f \in Nat /\ 0 \in 0 .. Len(W)
  BY LenProperties
<1>2. \A n : ItemsAt(W, 0, n) = Items(SubSeq(W, 1, n))
  <2>1. 0 + 1 = 1
    OBVIOUS
  <2> QED
    BY <2>1 DEF ItemsAt
<1>3. f \in S
  BY <1>2
<1>4. \A n \in S : f >= n
  <2> SUFFICES ASSUME NEW n \in 0 .. Len(W), ItemsAt(W, 0, n) # {}, n > f PROVE FALSE
    BY <1>1, <1>2
  <2>1. f \in 0 .. Len(W) /\ n \in f .. Len(W) /\ f # n
    BY <1>1
  <2>2. GoesOn(W, f, n)
    BY <1>1, <2>1, Unambiguous
  <2>3. \A m \in f + 1 .. n : m \in f + 1 .. Len(W)
    BY <1>1
  <2> QED
    BY <2>2, <2>3 DEF GoesOn, Stuck
<1>5. Max(S) = f
  <2>1. S \in SUBSET Int
    BY <1>1
  <2> HIDE DEF S
  <2> QED
    BY <1>1, <1>3, <1>4, <2>1, GreatestIsMax
<1>6. (CHOOSE items \in Items(SubSeq(W, 1, f)) : TRUE) = x
  <2>1. PICK y : y = CHOOSE items \in Items(SubSeq(W, 1, f)) : TRUE
    OBVIOUS
  <2>2. y \in ItemsAt(W, 0, f)
    BY <1>2, <2>1
  <2>3. y = x
    <3>1. f \in f .. Len(W)
      BY <1>1
    <3> QED
      BY <1>1, <2>2, <3>1, Unambiguous
  <2> QED
    BY <2>1, <2>3
<1> QED
  BY <1>5, <1>6 DEF Data

(* What a call that waits has read: it began after the f-th lexeme, and    *)
(* the Read it waits for began after the g-th.                             *)
Waits(W, call, f, g) ==
  /\ f \in 0 .. Len(W) - 1 /\ g \in f + 1 .. Len(W)
  /\ \/ call.in = "quote" /\ W[f + 1] = <<"'">> /\ g = f + 1
     \/ /\ call.in = "list" /\ W[f + 1] = <<"(">> /\ call.items \in ItemsAt(W, f + 1, g)
        /\ g < Len(W) => W[g + 1] # <<")">> /\ (g > f + 1 => W[g + 1] # <<".">>)
     \/ /\ call.in = "tail" /\ W[f + 1] = <<"(">> /\ g >= f + 3 /\ W[g] = <<".">>
        /\ call.items \in ItemsAt(W, f + 1, g - 1)

(* When the Read that a call waits for finds no datum, the call does not   *)
(* stand at the beginning of one either.                                   *)
LEMMA CallIsStuck ==
  ASSUME NEW W \in Seq(Words), NEW call, NEW f, NEW g, Waits(W, call, f, g),
         Stuck(W, g) \/ (call.in = "list" /\ g + 1 = Len(W))
  PROVE  Stuck(W, f)
<1> SUFFICES ASSUME NEW m \in f + 1 .. Len(W), NEW t \in DatumAt(W, f, m) PROVE FALSE
  BY DEF Stuck, GoesOn
<1>1. /\ Len(W) \in Nat /\ f \in Nat /\ g \in Nat /\ m \in Nat /\ f < g /\ g =< Len(W)
      /\ f \in 0 .. Len(W) /\ m \in f .. Len(W) /\ f + 1 \in 0 .. Len(W)
  BY LenProperties DEF Waits
<1>2. ASSUME NEW e \in g .. Len(W), GoesOn(W, g, e) PROVE ~ Stuck(W, g)
  <2>1. \A n \in g + 1 .. e : n \in g + 1 .. Len(W)
    BY <1>1
  <2> QED
    BY <1>2, <2>1 DEF GoesOn, Stuck
<1>3. AtomOf(<<"'">>) = {} /\ AtomOf(<<"(">>) = {} /\ <<"(">> # <<"'">>
  BY MarksAreNoAtoms DEF Marks
<1>4. CASE call.in = "quote" /\ W[f + 1] = <<"'">> /\ g = f + 1
  <2>1. m > f + 1 /\ \E u \in DatumAt(W, f + 1, m) : t = Quoted(u)
    BY <1>1, <1>3, <1>4, DatumAtIs, SMTT(30)
  <2>2. DatumAt(W, g, m) # {} /\ m \in g + 1 .. Len(W)
    BY <1>1, <1>4, <2>1
  <2> QED
    BY <1>4, <2>2 DEF Stuck, GoesOn
<1>5. ASSUME W[f + 1] = <<"(">>
      PROVE  /\ m > f + 1 /\ W[m] = <<")">>
             /\ \E e \in f + 1 .. m - 1 : EndsAt(W, f, m, t, e)
  BY <1>1, <1>5, ListEnds
<1>6. ASSUME NEW e \in f + 1 .. m - 1, EndsAt(W, f, m, t, e), W[m] = <<")">>, m > f + 1
      PROVE  /\ e \in 0 .. Len(W) /\ e + 1 =< Len(W) /\ e \in f + 1 .. Len(W)
             /\ \E items \in ItemsAt(W, f + 1, e) : TRUE
             /\ \/ W[e + 1] = <<")">>
                \/ W[e + 1] = <<".">> /\ e >= f + 2 /\ e + 1 < m /\ DatumAt(W, e + 1, m - 1) # {}
  <2>1. e \in 0 .. Len(W) /\ e + 1 =< Len(W) /\ e \in f + 1 .. Len(W) /\ m - 1 + 1 = m
    BY <1>1
  <2> QED
    BY <1>6, <2>1 DEF EndsAt
<1>7. CASE /\ call.in = "list" /\ W[f + 1] = <<"(">> /\ call.items \in ItemsAt(W, f + 1, g)
           /\ g < Len(W) => W[g + 1] # <<")">> /\ (g > f + 1 => W[g + 1] # <<".">>)
  <2>1. PICK e \in f + 1 .. m - 1 : EndsAt(W, f, m, t, e)
    BY <1>5, <1>7
  <2>2. /\ e \in 0 .. Len(W) /\ e + 1 =< Len(W) /\ e \in f + 1 .. Len(W)
        /\ \E items \in ItemsAt(W, f + 1, e) : TRUE
        /\ \/ W[e + 1] = <<")">>
           \/ W[e + 1] = <<".">> /\ e >= f + 2
    BY <1>5, <1>6, <1>7, <2>1
  <2>3. CASE e < g
    <3>1. g \in e .. Len(W) /\ e # g
      BY <1>1, <2>2, <2>3
    <3>2. GoesOn(W, e, g)
      BY <1>1, <1>7, <2>2, <3>1, Unambiguous
    <3> QED
      BY <2>2, <3>1, <3>2, NoDatumHere
  <2>4. CASE e = g
    <3>1. g < Len(W) /\ (e >= f + 2 => g > f + 1)
      BY <1>1, <2>2, <2>4
    <3> QED
      BY <1>7, <2>2, <2>4, <3>1
  <2>5. CASE e > g
    <3>1. g \in f + 1 .. Len(W) /\ e \in g .. Len(W) /\ e # g /\ g + 1 # Len(W)
      BY <1>1, <2>2, <2>5
    <3>2. GoesOn(W, g, e)
      BY <1>1, <1>7, <2>2, <3>1, Unambiguous
    <3> QED
      BY <1>2, <3>1, <3>2
  <2> QED
    BY <1>1, <2>2, <2>3, <2>4, <2>5
<1>8. CASE /\ call.in = "tail" /\ W[f + 1] = <<"(">> /\ g >= f + 3 /\ W[g] = <<".">>
           /\ call.items \in ItemsAt(W, f + 1, g - 1)
  <2>1. PICK e \in f + 1 .. m - 1 : EndsAt(W, f, m, t, e)
    BY <1>5, <1>8
  <2>2. /\ e \in 0 .. Len(W) /\ e + 1 =< Len(W) /\ e \in f + 1 .. Len(W)
        /\ \E items \in ItemsAt(W, f + 1, e) : TRUE
        /\ \/ W[e + 1] = <<")">>
           \/ W[e + 1] = <<".">> /\ e + 1 < m /\ DatumAt(W, e + 1, m - 1) # {}
    BY <1>5, <1>6, <1>8, <2>1
  <2>3. g - 1 \in f + 1 .. Len(W) /\ g - 1 \in 0 .. Len(W) /\ g - 1 + 1 = g
    BY <1>1, <1>8
  <2>4. CASE e < g - 1
    <3>1. g - 1 \in e .. Len(W) /\ e # g - 1
      BY <1>1, <2>2, <2>3, <2>4
    <3>2. GoesOn(W, e, g - 1)
      BY <1>1, <1>8, <2>2, <3>1, Unambiguous
    <3> QED
      BY <2>2, <3>1, <3>2, NoDatumHere
  <2>5. CASE e = g - 1
    <3>1. <<".">> # <<")">>
      OBVIOUS
    <3>2. e + 1 = g /\ g < m /\ DatumAt(W, g, m - 1) # {}
      BY <1>8, <2>2, <2>3, <2>5, <3>1
    <3>3. m - 1 \in g .. Len(W)
      BY <1>1, <3>2
    <3>4. g < m - 1
      BY <1>1, <3>2, <3>3, DatumBegins
    <3>5. m - 1 \in g + 1 .. Len(W)
      BY <1>1, <3>4
    <3> QED
      BY <1>8, <3>2, <3>5 DEF Stuck, GoesOn
  <2>6. CASE e > g - 1
    <3>1. e \in g - 1 .. Len(W) /\ e # g - 1
      BY <1>1, <2>2, <2>3, <2>6
    <3>2. GoesOn(W, g - 1, e)
      BY <1>1, <1>8, <2>2, <2>3, <3>1, Unambiguous
    <3> QED
      BY <1>8, <2>3, <3>1, <3>2, NoDatumHere
  <2> QED
    BY <1>1, <2>2, <2>3, <2>4, <2>5, <2>6
<1> QED
  BY <1>4, <1>7, <1>8 DEF Waits

(* The calls that wait, each in the next.                                  *)
StackFrom(W, stack, given, from, k) ==
  /\ \A i \in 1 .. Len(stack) + 1 : from[i] \in 0 .. Len(W)
  /\ \A i \in 1 .. Len(stack) : Waits(W, stack[i], from[i], from[i + 1])
  /\ given \in ItemsAt(W, 0, from[1])
  /\ k = from[Len(stack) + 1]
StackAt(W, stack, given, k) == \E from : StackFrom(W, stack, given, from, k)

LEMMA EmptyStack ==
  ASSUME NEW W, NEW given, NEW k
  PROVE  StackAt(W, <<>>, given, k) <=> k \in 0 .. Len(W) /\ given \in ItemsAt(W, 0, k)
<1>1. Len(<<>>) = 0 /\ 1 \in 1 .. 0 + 1 /\ 0 + 1 = 1 /\ \A i \in 1 .. 0 + 1 : i = 1
  OBVIOUS
<1>2. ASSUME StackAt(W, <<>>, given, k)
      PROVE  k \in 0 .. Len(W) /\ given \in ItemsAt(W, 0, k)
  BY <1>1, <1>2 DEF StackAt, StackFrom
<1>3. ASSUME k \in 0 .. Len(W), given \in ItemsAt(W, 0, k)
      PROVE  StackAt(W, <<>>, given, k)
  <2> DEFINE from == [i \in 1 .. 1 |-> k]
  <2>1. from[1] = k /\ \A i \in 1 .. 0 : FALSE
    OBVIOUS
  <2> HIDE DEF from
  <2>2. StackFrom(W, <<>>, given, from, k)
    BY <1>1, <1>3, <2>1 DEF StackFrom
  <2> QED
    BY <2>2 DEF StackAt
<1> QED
  BY <1>2, <1>3

LEMMA PushStack ==
  ASSUME NEW W, NEW S, NEW stack \in Seq(S), NEW given, NEW f, NEW g, NEW call,
         StackAt(W, stack, given, f), Waits(W, call, f, g), Len(W) \in Nat
  PROVE  StackAt(W, Append(stack, call), given, g)
<1>1. PICK from : StackFrom(W, stack, given, from, f)
  BY DEF StackAt
<1> DEFINE n == Len(stack)
           new == [i \in 1 .. n + 2 |-> IF i = n + 2 THEN g ELSE from[i]]
           more == Append(stack, call)
<1>2. n \in Nat /\ Len(more) = n + 1 /\ more[n + 1] = call /\ \A i \in 1 .. n : more[i] = stack[i]
  BY LenProperties, AppendProperties
<1>3. new[n + 2] = g /\ \A i \in 1 .. n + 1 : new[i] = from[i]
  BY <1>2
<1>4. g \in 0 .. Len(W)
  BY DEF Waits
<1>5. /\ \A i \in 1 .. n + 1 : from[i] \in 0 .. Len(W)
      /\ \A i \in 1 .. n : Waits(W, stack[i], from[i], from[i + 1])
      /\ given \in ItemsAt(W, 0, from[1])
      /\ f = from[n + 1]
  BY <1>1 DEF StackFrom
<1> HIDE DEF n, new, more
<1>6. \A i \in 1 .. (n + 1) + 1 : new[i] \in 0 .. Len(W)
  <2>1. \A i \in 1 .. (n + 1) + 1 : i \in 1 .. n + 1 \/ i = n + 2
    BY <1>2
  <2> QED
    BY <1>3, <1>4, <1>5, <2>1
<1>7. \A i \in 1 .. n + 1 : Waits(W, more[i], new[i], new[i + 1])
  <2>1. ASSUME NEW i \in 1 .. n PROVE Waits(W, more[i], new[i], new[i + 1])
    <3>1. i \in 1 .. n + 1 /\ i + 1 \in 1 .. n + 1
      BY <1>2
    <3> QED
      BY <1>2, <1>3, <1>5, <3>1
  <2>2. Waits(W, more[n + 1], new[n + 1], new[(n + 1) + 1])
    <3>1. n + 1 \in 1 .. n + 1 /\ (n + 1) + 1 = n + 2
      BY <1>2
    <3> QED
      BY <1>2, <1>3, <1>5, <3>1
  <2>3. \A i \in 1 .. n + 1 : i \in 1 .. n \/ i = n + 1
    BY <1>2
  <2> QED
    BY <2>1, <2>2, <2>3
<1>8. 1 \in 1 .. n + 1 /\ (n + 1) + 1 = n + 2
  BY <1>2
<1>9. StackFrom(W, more, given, new, g)
  BY <1>2, <1>3, <1>5, <1>6, <1>7, <1>8 DEF StackFrom
<1> QED
  BY <1>9 DEF StackAt, more

LEMMA PopStack ==
  ASSUME NEW W, NEW S, NEW stack \in Seq(S), NEW given, NEW g, stack # <<>>, StackAt(W, stack, given, g)
  PROVE  \E f : StackAt(W, Front(stack), given, f) /\ Waits(W, Last(stack), f, g)
<1>1. PICK from : StackFrom(W, stack, given, from, g)
  BY DEF StackAt
<1> DEFINE n == Len(stack)
           less == Front(stack)
<1>2. n \in Nat /\ n >= 1
  BY LenProperties, EmptySeq
<1>3. Len(less) = n - 1 /\ \A i \in 1 .. n - 1 : less[i] = stack[i]
  <2>1. 1 \in 1 .. Len(stack) + 1 /\ n - 1 \in 1 - 1 .. Len(stack)
    BY <1>2
  <2>2. /\ Len(SubSeq(stack, 1, n - 1)) = (n - 1) - 1 + 1
        /\ \A i \in 1 .. (n - 1) - 1 + 1 : SubSeq(stack, 1, n - 1)[i] = stack[1 + i - 1]
    BY <2>1, PieceOf
  <2>3. (n - 1) - 1 + 1 = n - 1 /\ \A i \in 1 .. n - 1 : 1 + i - 1 = i
    BY <1>2
  <2>4. less = SubSeq(stack, 1, n - 1)
    BY DEF Front
  <2> HIDE DEF less
  <2> QED
    BY <2>2, <2>3, <2>4
<1>4. /\ \A i \in 1 .. n + 1 : from[i] \in 0 .. Len(W)
      /\ \A i \in 1 .. n : Waits(W, stack[i], from[i], from[i + 1])
      /\ given \in ItemsAt(W, 0, from[1])
      /\ g = from[n + 1]
  BY <1>1 DEF StackFrom
<1>5. Last(stack) = stack[n]
  BY DEF Last
<1> HIDE DEF n, less
<1>6. /\ \A i \in 1 .. (n - 1) + 1 : i \in 1 .. n + 1
      /\ \A i \in 1 .. n - 1 : i \in 1 .. n
      /\ n \in 1 .. n /\ (n - 1) + 1 = n
  BY <1>2
<1>7. StackFrom(W, less, given, from, from[n])
  BY <1>3, <1>4, <1>6 DEF StackFrom
<1>8. Waits(W, Last(stack), from[n], g)
  BY <1>4, <1>5, <1>6
<1> QED
  BY <1>7, <1>8 DEF StackAt, less

(* When the innermost call finds no datum, none begins where the client    *)
(* began to read.                                                          *)
LEMMA StackIsStuck ==
  ASSUME NEW W \in Seq(Words), NEW S, NEW stack \in Seq(S), NEW given, NEW k,
         StackAt(W, stack, given, k), Stuck(W, k)
  PROVE  \E f \in 0 .. Len(W) :
           /\ given \in ItemsAt(W, 0, f) /\ Stuck(W, f)
           /\ f < Len(W) \/ (stack = <<>> /\ f = k)
<1>1. PICK from : StackFrom(W, stack, given, from, k)
  BY DEF StackAt
<1> DEFINE n == Len(stack)
           T == {i \in 1 .. n + 1 : Stuck(W, from[i])}
<1>2. n \in Nat /\ Len(W) \in Nat
  BY LenProperties
<1>3. /\ \A i \in 1 .. n + 1 : from[i] \in 0 .. Len(W)
      /\ \A i \in 1 .. n : Waits(W, stack[i], from[i], from[i + 1])
      /\ given \in ItemsAt(W, 0, from[1])
      /\ k = from[n + 1]
  BY <1>1 DEF StackFrom
<1> HIDE DEF n
<1>4. PICK i \in T : \A j \in T : i =< j
  <2>1. T \in SUBSET Nat /\ n + 1 \in T
    BY <1>2, <1>3
  <2> HIDE DEF T
  <2> QED
    BY <2>1, LeastExists
<1>5. i = 1
  <2> SUFFICES ASSUME i # 1 PROVE FALSE
    OBVIOUS
  <2>1. i - 1 \in 1 .. n /\ i - 1 \in 1 .. n + 1 /\ (i - 1) + 1 = i /\ ~ i =< i - 1
    BY <1>2
  <2>2. Waits(W, stack[i - 1], from[i - 1], from[i])
    BY <1>3, <2>1
  <2>3. Stuck(W, from[i - 1])
    <3>1. Stuck(W, from[i])
      BY <1>4
    <3> QED
      BY <2>2, <3>1, CallIsStuck
  <2>4. i - 1 \in T
    BY <2>1, <2>3
  <2> HIDE DEF T
  <2> QED
    BY <1>4, <2>1, <2>4
<1>6. Stuck(W, from[1]) /\ from[1] \in 0 .. Len(W)
  BY <1>3, <1>5
<1>7. CASE stack = <<>>
  <2>1. n = 0
    BY <1>7 DEF n
  <2> QED
    BY <1>3, <1>6, <1>7, <2>1
<1>8. CASE stack # <<>>
  <2>1. 1 \in 1 .. n
    <3>1. n # 0
      BY <1>8, EmptySeq DEF n
    <3> QED
      BY <1>2, <3>1
  <2>2. from[1] \in 0 .. Len(W) - 1
    BY <1>3, <2>1 DEF Waits
  <2>3. from[1] < Len(W)
    BY <1>2, <2>2
  <2> DEFINE f == from[1]
  <2>4. f \in 0 .. Len(W) /\ given \in ItemsAt(W, 0, f) /\ Stuck(W, f) /\ f < Len(W)
    BY <1>3, <1>6, <2>3
  <2> HIDE DEF f
  <2> QED
    BY <2>4
<1> QED
  BY <1>7, <1>8

-----------------------------------------------------------------------------
(* What a token says of its lexeme.                                        *)
LEMMA TokensAre ==
  ASSUME NEW w, IsLexeme(w)
  PROVE  /\ TokenOf(w) = Open <=> w = <<"(">>
         /\ TokenOf(w) = Close <=> w = <<")">>
         /\ TokenOf(w) = Quote <=> w = <<"'">>
         /\ TokenOf(w) = Dot <=> w = <<".">>
         /\ TokenOf(w).token = "Constant" => Number(TokenOf(w).value) \in AtomOf(w)
         /\ TokenOf(w).token = "Symbol" => Symbol(TokenOf(w).name) \in AtomOf(w)
         /\ TokenOf(w) = OutOfRange => IsNumeral(w) /\ NumeralValue(w) \notin -IntMax - 1 .. IntMax
<1>1. /\ Open.token = "OPEN" /\ Close.token = "CLOSE" /\ Quote.token = "Quote" /\ Dot.token = "Dot"
      /\ OutOfRange.token = "out_of_range"
      /\ \A n : ConstantToken(n).token = "Constant" /\ ConstantToken(n).value = n
      /\ \A n : SymbolToken(n).token = "Symbol" /\ SymbolToken(n).name = n
  BY DEF Open, Close, Quote, Dot, OutOfRange, ConstantToken, SymbolToken
<1>2. /\ <<"(">> # <<")">> /\ <<"(">> # <<"'">> /\ <<"(">> # <<".">>
      /\ <<")">> # <<"'">> /\ <<")">> # <<".">> /\ <<"'">> # <<".">>
  OBVIOUS
<1>3. CASE w = <<"(">> \/ w = <<")">> \/ w = <<"'">> \/ w = <<".">>
  BY <1>1, <1>2, <1>3 DEF TokenOf
<1>4. CASE ~ (w = <<"(">> \/ w = <<")">> \/ w = <<"'">> \/ w = <<".">>)
  <2>1. CASE IsNumeral(w)
    <3>1. TokenOf(w) = Stoi(w) /\ AtomOf(w) = {Number(NumeralValue(w))}
      BY <1>4, <2>1 DEF TokenOf, AtomOf
    <3>2. CASE NumeralValue(w) \in -IntMax - 1 .. IntMax
      <4>1. TokenOf(w) = ConstantToken(NumeralValue(w))
        BY <3>1, <3>2 DEF Stoi
      <4> QED
        BY <1>1, <1>4, <3>1, <4>1
    <3>3. CASE NumeralValue(w) \notin -IntMax - 1 .. IntMax
      <4>1. TokenOf(w) = OutOfRange
        BY <3>1, <3>3 DEF Stoi
      <4> QED
        BY <1>1, <1>4, <2>1, <3>3, <4>1
    <3> QED
      BY <3>2, <3>3
  <2>2. CASE ~ IsNumeral(w)
    <3>1. TokenOf(w) = SymbolToken(w)
      BY <1>4, <2>2 DEF TokenOf
    <3>2. IsName(w)
      BY <1>4, <2>2 DEF IsLexeme, Marks
    <3>3. AtomOf(w) = {Symbol(w)}
      BY <2>2, <3>2 DEF AtomOf
    <3> QED
      BY <1>1, <1>4, <3>1, <3>3
  <2> QED
    BY <2>1, <2>2
<1> QED
  BY <1>3, <1>4

(* Sequences, of whatever.                                                 *)
Listing(s) == \E S : s \in Seq(S)

LEMMA Listings ==
  ASSUME NEW s, Listing(s)
  PROVE  /\ \A x : Listing(Append(s, x)) /\ Append(s, x) # <<>> /\ Last(Append(s, x)) = x
         /\ s # <<>> => Listing(Front(s))
<1>1. PICK S : s \in Seq(S)
  BY DEF Listing
<1>2. ASSUME NEW x
      PROVE  Listing(Append(s, x)) /\ Append(s, x) # <<>> /\ Last(Append(s, x)) = x
  <2>1. s \in Seq(S \union {x}) /\ Len(s) \in Nat
    <3>1. Len(s) \in Nat /\ \A i \in 1 .. Len(s) : s[i] \in S
      BY <1>1, LenProperties, ElementOfSeq
    <3> QED
      BY <1>1, <3>1
  <2> DEFINE a == Append(s, x)
  <2>2. a \in Seq(S \union {x}) /\ Len(a) = Len(s) + 1 /\ a[Len(s) + 1] = x
    BY <2>1, AppendProperties
  <2> HIDE DEF a
  <2>3. a # <<>>
    BY <2>1, <2>2, EmptySeq
  <2>4. Last(a) = x
    BY <2>2 DEF Last
  <2>5. Listing(a)
    BY <2>2 DEF Listing
  <2> QED
    BY <2>3, <2>4, <2>5 DEF a
<1>3. ASSUME s # <<>> PROVE Listing(Front(s))
  <2>1. Len(s) \in Nat /\ Len(s) >= 1
    BY <1>1, <1>3, LenProperties, EmptySeq
  <2>2. 1 \in 1 .. Len(s) + 1 /\ Len(s) - 1 \in 1 - 1 .. Len(s)
    BY <2>1
  <2>3. SubSeq(s, 1, Len(s) - 1) \in Seq(S)
    BY <1>1, <2>2, PieceOf
  <2> QED
    BY <2>3 DEF Front, Listing
<1> QED
  BY <1>2, <1>3

(* A list of nothing.                                                      *)
LEMMA CellsOfNothing ==
  Cells(<<>>, Null) = Null
<1> DEFINE Solves(g) == g = [s \in SUBSET (DOMAIN <<>>) |->
                               IF s = {} THEN Null
                               ELSE LET x == Min(s) IN Cell(<<>>[x], g[s \ {x}])]
           iter == CHOOSE g : Solves(g)
<1>1. Cells(<<>>, Null) = iter[DOMAIN <<>>]
  BY DEF Cells, FoldRight, MapThenFoldSet
<1>2. DOMAIN <<>> = {} /\ \A s \in SUBSET {} : s = {}
  OBVIOUS
<1>3. Solves([s \in SUBSET (DOMAIN <<>>) |-> Null])
  BY <1>2
<1>4. Solves(iter)
  BY <1>3
<1> HIDE DEF iter
<1>5. iter[{}] = Null
  BY <1>2, <1>4
<1> QED
  BY <1>1, <1>2, <1>5

-----------------------------------------------------------------------------
(* Where the machine stands.  Lex are the lexemes of the text, k of them   *)
(* have been used; a token in hand is the next one.                        *)
Lex == Lexemes[source]
LeftAfter(n) == SubSeq(source, n + 1, Len(source))
EndsInLexeme(n) == n \in 1 .. Len(source) /\ source[n] \notin Blanks

NoneInHand(n, k) == ~ got_token_ /\ stream_ = LeftAfter(n) /\ CutAt(source, n, k)
OneInHand(n, k) ==
  /\ got_token_ /\ k \in Nat /\ k < Len(Lex) /\ IsLexeme(Lex[k + 1]) /\ current_token_ = TokenOf(Lex[k + 1])
  /\ stream_ = LeftAfter(n) /\ CutAt(source, n, k + 1)
ZeroInHand(k) ==
  got_token_ /\ k = Len(Lex) /\ current_token_ = ConstantToken(0) /\ stream_ = <<>>

InAList == waiting # <<>> /\ Last(waiting).in = "list"

AtRead ==
  \E n, k :
    /\ \/ NoneInHand(n, k)
       \/ InAList /\ (OneInHand(n, k) \/ ZeroInHand(k))
    /\ StackAt(Lex, waiting, trees, k)
    /\ waiting = <<>> /\ trees # <<>> => k < Len(Lex)
AtReadList ==
  \E n, f :
    /\ NoneInHand(n, f + 1) /\ f < Len(Lex) /\ Lex[f + 1] = <<"(">>
    /\ StackAt(Lex, waiting, trees, f)
AtReturn ==
  \E n, f, k :
    /\ NoneInHand(n, k)
    /\ InAList \/ EndsInLexeme(n)
    /\ k \in f .. Len(Lex) /\ return_object \in DatumAt(Lex, f, k)
    /\ StackAt(Lex, waiting, trees, f)
AtClosing ==
  \E n, f, k :
    /\ k \in f + 1 .. Len(Lex) /\ Lex[f + 1] = <<"(">>
    /\ StackAt(Lex, waiting, trees, f)
    /\ \/ /\ OneInHand(n, k) /\ Lex[k + 1] = <<")">> /\ EndsInLexeme(n)
          /\ \E items \in ItemsAt(Lex, f + 1, k) : return_object = Cells(items, Null)
       \/ /\ NoneInHand(n, k)
          /\ \E d \in f + 3 .. k :
               /\ Lex[d] = <<".">>
               /\ \E items \in ItemsAt(Lex, f + 1, d - 1) : \E tail \in DatumAt(Lex, d, k) :
                    return_object = Cells(items, tail)
AtEnd == trees \in ItemsAt(Lex, 0, Len(Lex)) /\ trees # <<>>
AtSyntaxError ==
  \E f \in 0 .. Len(Lex) :
    /\ trees \in ItemsAt(Lex, 0, f) /\ Stuck(Lex, f)
    /\ f < Len(Lex) \/ trees = <<>>

ReadingInv ==
  /\ source \in Seq(Characters) /\ Readable(source) /\ Listing(waiting) /\ Listing(trees)
  /\ \/ at = "Read" /\ AtRead
     \/ at = "ReadList" /\ AtReadList
     \/ at = "Return" /\ AtReturn
     \/ at = "Closing" /\ AtClosing
     \/ at = "end" /\ AtEnd
     \/ at = "SyntaxError" /\ AtSyntaxError

LEMMA LexIs ==
  ASSUME source \in Seq(Characters)
  PROVE  Lex \in Seq(Words) /\ Len(Lex) \in Nat
  BY LexemesRule, LenProperties DEF Lex

LEMMA AllLexemes ==
  ASSUME source \in Seq(Characters), Readable(source)
  PROVE  \A i \in 1 .. Len(Lex) : IsLexeme(Lex[i]) /\ Fits(Lex[i])
<1>1. Lex \in Seq(Words)
  BY LexIs
<1>2. \A i \in 1 .. Len(Lex) : Lex[i] \in Range(Lex)
  BY <1>1 DEF Range
<1> QED
  BY <1>2 DEF Readable, Lex

LEMMA CutBounds ==
  ASSUME NEW n, NEW k, CutAt(source, n, k)
  PROVE  n \in 0 .. Len(source) /\ k \in 0 .. Len(Lex)
  BY DEF CutAt, Lex

(* What GetToken finds.                                                    *)
LEMMA NextToken ==
  ASSUME source \in Seq(Characters), Readable(source), NEW n, NEW k, NoneInHand(n, k)
  PROVE  \/ /\ IsEnd /\ k = Len(Lex)
            /\ GetToken = [token |-> ConstantToken(0), rest |-> <<>>]
         \/ /\ ~ IsEnd /\ k < Len(Lex) /\ IsLexeme(Lex[k + 1])
            /\ \E q : /\ EndsInLexeme(q) /\ CutAt(source, q, k + 1)
                      /\ GetToken = [token |-> TokenOf(Lex[k + 1]), rest |-> LeftAfter(q)]
<1>1. stream_ = SubSeq(source, n + 1, Len(source)) /\ CutAt(source, n, k) /\ ~ got_token_
  BY DEF NoneInHand, LeftAfter
<1>2. GetToken = Scan(SubSeq(source, n + 1, Len(source)))
  BY <1>1 DEF GetToken
<1>3. IsEnd <=> WithoutBlanks(SubSeq(source, n + 1, Len(source))) = <<>>
  BY <1>1 DEF IsEnd
<1> QED
  BY <1>1, <1>2, <1>3, AllLexemes, ScanIs DEF Lex, EndsInLexeme, LeftAfter

LEMMA BlanksGone ==
  ASSUME source \in Seq(Characters), Readable(source), NEW n, NEW k, CutAt(source, n, k), stream_ = LeftAfter(n)
  PROVE  \E p : /\ WithoutBlanks(stream_) = LeftAfter(p) /\ CutAt(source, p, k)
                /\ IsEnd => k = Len(Lex)
                /\ ~ IsEnd => k < Len(Lex)
<1>1. PICK p \in n .. Len(source) :
           /\ WithoutBlanks(SubSeq(source, n + 1, Len(source))) = SubSeq(source, p + 1, Len(source))
           /\ CutAt(source, p, k)
           /\ p < Len(source) => source[p + 1] \notin Blanks
  BY BlanksSkipped
<1>2. WithoutBlanks(stream_) = LeftAfter(p)
  BY <1>1 DEF LeftAfter
<1>3. IsEnd => k = Len(Lex)
  BY AllLexemes, ScanIs DEF IsEnd, LeftAfter, Lex
<1>4. ~ IsEnd => k < Len(Lex)
  BY AllLexemes, ScanIs DEF IsEnd, LeftAfter, Lex
<1> QED
  BY <1>1, <1>2, <1>3, <1>4

LEMMA NothingIsBlank ==
  WithoutBlanks(<<>>) = <<>>
<1> DEFINE t == Taken(<<>>, 1, Blanks)
<1>1. t \in 0 .. Len(<<>>) + 1 - 1
  <2>1. <<>> \in Seq(Characters) /\ 1 \in 1 .. Len(<<>>) + 1
    OBVIOUS
  <2> QED
    BY <2>1, TakenIs
<1>2. t = 0
  BY <1>1
<1>3. SubSeq(<<>>, 0 + 1, Len(<<>>)) = <<>>
  BY SubSeqFull
<1> HIDE DEF t
<1>4. SubSeq(<<>>, t + 1, Len(<<>>)) = <<>>
  BY <1>2, <1>3
<1> QED
  BY <1>4 DEF WithoutBlanks, t

LEMMA NoItems ==
  ASSUME source \in Seq(Characters), NEW i \in 0 .. Len(Lex)
  PROVE  <<>> \in ItemsAt(Lex, i, i)
<1>1. i \in i .. Len(Lex)
  BY LexIs
<1> QED
  BY <1>1, LexIs, ItemsAtIs

LEMMA OneMoreItem ==
  ASSUME source \in Seq(Characters), NEW i \in 0 .. Len(Lex), NEW n \in i .. Len(Lex), NEW k \in n .. Len(Lex),
         NEW items \in ItemsAt(Lex, i, n), NEW t \in DatumAt(Lex, n, k)
  PROVE  n < k /\ Append(items, t) \in ItemsAt(Lex, i, k)
<1>1. Lex \in Seq(Words) /\ Len(Lex) \in Nat /\ n \in 0 .. Len(Lex)
  BY LexIs
<1>2. n < k
  BY <1>1, DatumBegins
<1>3. n \in i .. k - 1 /\ i < k /\ k \in i .. Len(Lex)
  BY <1>1, <1>2
<1> QED
  BY <1>1, <1>2, <1>3, ItemsAtIs

-----------------------------------------------------------------------------
LEMMA ReadingBegins ==
  ASSUME ParserInit, Readable(source)
  PROVE  ReadingInv
<1>1. source \in Seq(Characters)
  BY TextsAssumption DEF ParserInit
<1>2. Listing(<<>>)
  BY EmptySeq DEF Listing
<1>3. NoneInHand(0, 0)
  <2>1. SubSeq(source, 0 + 1, Len(source)) = source
    BY <1>1, SubSeqFull
  <2> QED
    BY <1>1, <2>1, CutAtStart DEF NoneInHand, ParserInit, LeftAfter
<1>4. StackAt(Lex, <<>>, <<>>, 0)
  <2>1. 0 \in 0 .. Len(Lex)
    BY <1>1, LexIs
  <2> QED
    BY <1>1, <2>1, NoItems, EmptyStack
<1>5. waiting = <<>> /\ trees = <<>> /\ at = "Read"
  BY DEF ParserInit
<1>6. AtRead
  BY <1>3, <1>4, <1>5 DEF AtRead
<1> QED
  BY <1>1, <1>2, <1>5, <1>6 DEF ReadingInv

(* When the innermost call is stuck, reading is.                           *)
LEMMA ErrorIsRight ==
  ASSUME source \in Seq(Characters), NEW stack, Listing(stack), NEW k \in 0 .. Len(Lex),
         StackAt(Lex, stack, trees, k), Stuck(Lex, k),
         k < Len(Lex) \/ stack # <<>> \/ trees = <<>>
  PROVE  AtSyntaxError
<1>1. PICK S : stack \in Seq(S)
  BY DEF Listing
<1>2. PICK f \in 0 .. Len(Lex) :
        /\ trees \in ItemsAt(Lex, 0, f) /\ Stuck(Lex, f)
        /\ f < Len(Lex) \/ (stack = <<>> /\ f = k)
  BY <1>1, LexIs, StackIsStuck
<1> QED
  BY <1>2 DEF AtSyntaxError

LEMMA StuckAtEnd ==
  ASSUME source \in Seq(Characters)
  PROVE  Stuck(Lex, Len(Lex))
<1>1. Len(Lex) \in Nat
  BY LexIs
<1>2. Len(Lex) + 1 .. Len(Lex) = {}
  BY <1>1
<1> QED
  BY <1>2 DEF Stuck, GoesOn

LEMMA PopCall ==
  ASSUME source \in Seq(Characters), Listing(waiting), waiting # <<>>, NEW k, StackAt(Lex, waiting, trees, k)
  PROVE  \E f : /\ f \in 0 .. Len(Lex) - 1 /\ k \in f + 1 .. Len(Lex)
                /\ StackAt(Lex, Front(waiting), trees, f) /\ Waits(Lex, Last(waiting), f, k)
<1>1. PICK S : waiting \in Seq(S)
  BY DEF Listing
<1>2. PICK f : StackAt(Lex, Front(waiting), trees, f) /\ Waits(Lex, Last(waiting), f, k)
  BY <1>1, PopStack
<1> QED
  BY <1>2 DEF Waits

LEMMA PushCall ==
  ASSUME source \in Seq(Characters), NEW stack, Listing(stack), NEW f, NEW g, NEW call,
         StackAt(Lex, stack, trees, f), Waits(Lex, call, f, g)
  PROVE  StackAt(Lex, Append(stack, call), trees, g)
<1>1. PICK S : stack \in Seq(S)
  BY DEF Listing
<1> QED
  BY <1>1, LexIs, PushStack

LEMMA ReadAtEndKeeps ==
  ASSUME ReadingInv, ReadAtEnd
  PROVE  ReadingInv'
<1>1. /\ at = "Read" /\ IsEnd /\ at' = "SyntaxError" /\ source' = source /\ waiting' = waiting
      /\ trees' = trees
  BY DEF ReadAtEnd
<1>2. source \in Seq(Characters) /\ Readable(source) /\ Listing(waiting) /\ Listing(trees) /\ AtRead
  BY <1>1 DEF ReadingInv
<1> SUFFICES AtSyntaxError
  BY <1>1, <1>2 DEF AtSyntaxError, Lex, ReadingInv
<1>3. PICK n, k :
        /\ \/ NoneInHand(n, k)
           \/ InAList /\ (OneInHand(n, k) \/ ZeroInHand(k))
        /\ StackAt(Lex, waiting, trees, k)
        /\ waiting = <<>> /\ trees # <<>> => k < Len(Lex)
  BY <1>2 DEF AtRead
<1>4. Len(Lex) \in Nat /\ Stuck(Lex, Len(Lex))
  BY <1>2, LexIs, StuckAtEnd
<1>5. CASE k = Len(Lex)
  <2>1. k \in 0 .. Len(Lex) /\ Stuck(Lex, k) /\ (waiting # <<>> \/ trees = <<>>)
    BY <1>3, <1>4, <1>5
  <2> QED
    BY <1>2, <1>3, <2>1, ErrorIsRight
<1>6. CASE NoneInHand(n, k)
  BY <1>1, <1>2, <1>5, <1>6, NextToken
<1>7. CASE ZeroInHand(k)
  BY <1>5, <1>7 DEF ZeroInHand
<1>8. CASE InAList /\ OneInHand(n, k)
  <2>1. k + 1 = Len(Lex)
    BY <1>1, <1>2, <1>8, BlanksGone DEF OneInHand
  <2>2. PICK f : /\ f \in 0 .. Len(Lex) - 1 /\ k \in f + 1 .. Len(Lex)
                 /\ StackAt(Lex, Front(waiting), trees, f) /\ Waits(Lex, Last(waiting), f, k)
    BY <1>2, <1>3, <1>8, PopCall DEF InAList
  <2>3. Stuck(Lex, f)
    BY <1>2, <1>8, <2>1, <2>2, LexIs, CallIsStuck DEF InAList
  <2>4. Listing(Front(waiting)) /\ f \in 0 .. Len(Lex) /\ f < Len(Lex)
    BY <1>2, <1>4, <1>8, <2>2, Listings DEF InAList
  <2> QED
    BY <1>2, <2>2, <2>3, <2>4, ErrorIsRight
<1> QED
  BY <1>3, <1>6, <1>7, <1>8

LEMMA TokenInHand ==
  ASSUME source \in Seq(Characters), Readable(source), NEW n, NEW k,
         NoneInHand(n, k) \/ OneInHand(n, k) \/ ZeroInHand(k)
  PROVE  \/ GetToken.token = ConstantToken(0)
         \/ /\ k \in 0 .. Len(Lex) - 1 /\ IsLexeme(Lex[k + 1])
            /\ GetToken.token = TokenOf(Lex[k + 1])
<1>1. Len(Lex) \in Nat
  BY LexIs
<1>2. CASE NoneInHand(n, k)
  <2>1. k \in 0 .. Len(Lex)
    BY <1>2, CutBounds DEF NoneInHand
  <2>2. CASE GetToken = [token |-> ConstantToken(0), rest |-> <<>>]
    BY <2>2
  <2>3. CASE /\ k < Len(Lex) /\ IsLexeme(Lex[k + 1])
             /\ \E q : GetToken = [token |-> TokenOf(Lex[k + 1]), rest |-> LeftAfter(q)]
    <3>1. k \in 0 .. Len(Lex) - 1
      BY <1>1, <2>1, <2>3
    <3> QED
      BY <2>3, <3>1
  <2> QED
    BY <1>2, <2>2, <2>3, NextToken
<1>3. CASE OneInHand(n, k)
  <2>1. k \in 0 .. Len(Lex) - 1
    BY <1>1, <1>3 DEF OneInHand
  <2> QED
    BY <1>3, <2>1 DEF OneInHand, GetToken
<1>4. CASE ZeroInHand(k)
  BY <1>4 DEF ZeroInHand, GetToken
<1> QED
  BY <1>2, <1>3, <1>4

(* std::stoi throws for no number of these texts.                          *)
LEMMA StoiKeepsQuiet ==
  ASSUME ReadingInv, StoiThrows
  PROVE  FALSE
<1>1. /\ at \in {"Read", "ReadList", "Closing", "Return"} /\ GetToken.token = OutOfRange
      /\ source \in Seq(Characters) /\ Readable(source)
  BY DEF StoiThrows, BackIn, ReadingInv
<1>2. \E n, k : NoneInHand(n, k) \/ OneInHand(n, k) \/ ZeroInHand(k)
  BY <1>1 DEF ReadingInv, AtRead, AtReadList, AtReturn, AtClosing
<1>3. PICK n, k : NoneInHand(n, k) \/ OneInHand(n, k) \/ ZeroInHand(k)
  BY <1>2
<1>4. GetToken.token # ConstantToken(0)
  BY <1>1 DEF OutOfRange, ConstantToken
<1>5. k \in 0 .. Len(Lex) - 1 /\ IsLexeme(Lex[k + 1]) /\ TokenOf(Lex[k + 1]) = OutOfRange
  BY <1>1, <1>3, <1>4, TokenInHand
<1>6. IsNumeral(Lex[k + 1]) /\ NumeralValue(Lex[k + 1]) \notin -IntMax - 1 .. IntMax
  BY <1>5, TokensAre
<1>7. k + 1 \in 1 .. Len(Lex)
  BY <1>1, <1>5, LexIs
<1>8. Fits(Lex[k + 1])
  BY <1>1, <1>7, AllLexemes
<1> QED
  BY <1>6, <1>8 DEF Fits

LEMMA ReadKeeps ==
  ASSUME ReadingInv, Read
  PROVE  ReadingInv'
<1> DEFINE got == [GetToken EXCEPT !.rest = IF got_token_ THEN WithoutBlanks(@) ELSE @]
           t == got.token
<1>1. /\ at = "Read" /\ ~ IsEnd /\ source' = source /\ trees' = trees
      /\ \/ /\ t.token \in {"Constant", "Symbol"}
            /\ return_object' = IF t.token = "Constant" THEN Number(t.value) ELSE Symbol(t.name)
            /\ Drop(got) /\ at' = "Return" /\ UNCHANGED waiting
         \/ /\ t = Quote /\ Drop(got)
            /\ waiting' = Append(waiting, InQuote) /\ UNCHANGED <<at, return_object>>
         \/ t = Open /\ Drop(got) /\ at' = "ReadList" /\ UNCHANGED <<waiting, return_object>>
         \/ t \in {Close, Dot} /\ at' = "SyntaxError" /\ UNCHANGED <<waiting, return_object>>
  BY DEF Read
<1>2. source \in Seq(Characters) /\ Readable(source) /\ Listing(waiting) /\ Listing(trees) /\ AtRead
  BY <1>1 DEF ReadingInv
<1>3. PICK n, k :
        /\ \/ NoneInHand(n, k)
           \/ InAList /\ (OneInHand(n, k) \/ ZeroInHand(k))
        /\ StackAt(Lex, waiting, trees, k)
        /\ waiting = <<>> /\ trees # <<>> => k < Len(Lex)
  BY <1>2 DEF AtRead
<1>4. Lex \in Seq(Words) /\ Len(Lex) \in Nat
  BY <1>2, LexIs
<1>5. \E q : /\ k \in 0 .. Len(Lex) - 1 /\ IsLexeme(Lex[k + 1]) /\ CutAt(source, q, k + 1)
             /\ t = TokenOf(Lex[k + 1]) /\ got.rest = LeftAfter(q)
             /\ InAList \/ EndsInLexeme(q)
  <2>1. CASE NoneInHand(n, k)
    <3>1. k \in 0 .. Len(Lex)
      BY <2>1, CutBounds DEF NoneInHand
    <3>2. /\ k < Len(Lex) /\ IsLexeme(Lex[k + 1])
          /\ \E q : /\ EndsInLexeme(q) /\ CutAt(source, q, k + 1)
                    /\ GetToken = [token |-> TokenOf(Lex[k + 1]), rest |-> LeftAfter(q)]
      BY <1>1, <1>2, <2>1, NextToken
    <3>3. k \in 0 .. Len(Lex) - 1
      BY <1>4, <3>1, <3>2
    <3>4. PICK q : /\ EndsInLexeme(q) /\ CutAt(source, q, k + 1)
                   /\ GetToken = [token |-> TokenOf(Lex[k + 1]), rest |-> LeftAfter(q)]
      BY <3>2
    <3>5. got.token = TokenOf(Lex[k + 1]) /\ got.rest = LeftAfter(q)
      BY <2>1, <3>4 DEF NoneInHand
    <3> HIDE DEF got
    <3> QED
      BY <3>2, <3>3, <3>4, <3>5
  <2>2. CASE InAList /\ OneInHand(n, k)
    <3>1. n \in 0 .. Len(source) /\ k + 1 \in 0 .. Len(Lex) /\ k < Len(Lex)
      BY <2>2, CutBounds DEF OneInHand
    <3>2. PICK q : WithoutBlanks(stream_) = LeftAfter(q) /\ CutAt(source, q, k + 1)
      BY <1>2, <2>2, BlanksGone DEF OneInHand
    <3>3. GetToken = [token |-> TokenOf(Lex[k + 1]), rest |-> stream_]
      BY <2>2 DEF OneInHand, GetToken
    <3>4. got.token = TokenOf(Lex[k + 1]) /\ got.rest = LeftAfter(q)
      BY <2>2, <3>2, <3>3 DEF OneInHand
    <3>5. k \in 0 .. Len(Lex) - 1
      BY <1>4, <2>2 DEF OneInHand
    <3> HIDE DEF got
    <3> QED
      BY <2>2, <3>2, <3>4, <3>5 DEF OneInHand
  <2>3. CASE ZeroInHand(k)
    BY <1>1, <2>3, NothingIsBlank DEF ZeroInHand, IsEnd
  <2> HIDE DEF got
  <2> QED
    BY <1>3, <2>1, <2>2, <2>3
<1>6. PICK q : /\ k \in 0 .. Len(Lex) - 1 /\ IsLexeme(Lex[k + 1]) /\ CutAt(source, q, k + 1)
               /\ t = TokenOf(Lex[k + 1]) /\ got.rest = LeftAfter(q)
               /\ InAList \/ EndsInLexeme(q)
  BY <1>5
<1> HIDE DEF got
<1>7. /\ k \in 0 .. Len(Lex) /\ k + 1 \in k .. Len(Lex) /\ k < Len(Lex) /\ k + 1 = k + 1
      /\ k + 1 \in k + 1 .. Len(Lex)
  BY <1>4, <1>6
<1>8. Drop(got) => NoneInHand(q, k + 1)'
  BY <1>1, <1>6 DEF Drop, NoneInHand, LeftAfter
<1>9. CASE /\ t.token \in {"Constant", "Symbol"}
           /\ return_object' = IF t.token = "Constant" THEN Number(t.value) ELSE Symbol(t.name)
           /\ Drop(got) /\ at' = "Return" /\ UNCHANGED waiting
  <2>1. return_object' \in AtomOf(Lex[k + 1])
    BY <1>6, <1>9, TokensAre
  <2>2. return_object' \in DatumAt(Lex, k, k + 1)
    BY <1>4, <1>7, <2>1, DatumAtIs
  <2>3. (InAList \/ EndsInLexeme(q))'
    BY <1>1, <1>6, <1>9 DEF InAList, EndsInLexeme
  <2>4. StackAt(Lex', waiting', trees', k) /\ Lex' = Lex
    BY <1>1, <1>3, <1>9 DEF Lex
  <2>5. AtReturn'
    BY <1>7, <1>8, <1>9, <2>2, <2>3, <2>4 DEF AtReturn
  <2> QED
    BY <1>1, <1>2, <1>9, <2>5 DEF ReadingInv
<1>10. CASE /\ t = Quote /\ Drop(got)
            /\ waiting' = Append(waiting, InQuote) /\ UNCHANGED <<at, return_object>>
  <2>1. Lex[k + 1] = <<"'">>
    BY <1>6, <1>10, TokensAre
  <2>2. Waits(Lex, InQuote, k, k + 1)
    BY <1>6, <1>7, <2>1 DEF Waits, InQuote
  <2>3. StackAt(Lex, waiting', trees, k + 1)
    BY <1>2, <1>3, <1>10, <2>2, PushCall
  <2>4. Listing(waiting') /\ waiting' # <<>> /\ Lex' = Lex
    BY <1>1, <1>2, <1>10, Listings DEF Lex
  <2>5. AtRead'
    BY <1>1, <1>8, <1>10, <2>3, <2>4 DEF AtRead
  <2> QED
    BY <1>1, <1>2, <1>10, <2>4, <2>5 DEF ReadingInv
<1>11. CASE t = Open /\ Drop(got) /\ at' = "ReadList" /\ UNCHANGED <<waiting, return_object>>
  <2>1. Lex[k + 1] = <<"(">> /\ Lex' = Lex
    BY <1>1, <1>6, <1>11, TokensAre DEF Lex
  <2>2. StackAt(Lex', waiting', trees', k)
    BY <1>1, <1>3, <1>11, <2>1
  <2>3. AtReadList'
    BY <1>7, <1>8, <1>11, <2>1, <2>2 DEF AtReadList
  <2> QED
    BY <1>1, <1>2, <1>11, <2>3 DEF ReadingInv
<1>12. CASE t \in {Close, Dot} /\ at' = "SyntaxError" /\ UNCHANGED <<waiting, return_object>>
  <2>1. Lex[k + 1] = <<")">> \/ Lex[k + 1] = <<".">>
    BY <1>6, <1>12, TokensAre
  <2>2. Stuck(Lex, k)
    <3>1. Len(Lex) \in k .. Len(Lex)
      BY <1>4, <1>7
    <3> QED
      BY <1>4, <1>7, <2>1, <3>1, NoDatumHere DEF Stuck
  <2>3. AtSyntaxError
    BY <1>2, <1>3, <1>7, <2>2, ErrorIsRight
  <2>4. AtSyntaxError'
    BY <1>1, <2>3 DEF AtSyntaxError, Lex
  <2> QED
    BY <1>1, <1>2, <1>12, <2>4 DEF ReadingInv
<1> QED
  BY <1>1, <1>9, <1>10, <1>11, <1>12

(* A token that was not taken stays in hand.                               *)
LEMMA KeptInHand ==
  ASSUME source \in Seq(Characters), Readable(source), source' = source, NEW n, NEW k, NoneInHand(n, k), Keep(GetToken)
  PROVE  \/ /\ k < Len(Lex) /\ IsLexeme(Lex[k + 1]) /\ GetToken.token = TokenOf(Lex[k + 1])
            /\ \E q : OneInHand(q, k)' /\ EndsInLexeme(q)
         \/ k = Len(Lex) /\ GetToken.token = ConstantToken(0) /\ ZeroInHand(k)'
<1>1. Len(Lex) \in Nat /\ k \in Nat /\ Lex' = Lex
  <2>1. Len(Lex) \in Nat /\ k \in 0 .. Len(Lex) /\ Lex' = Lex
    BY LexIs, CutBounds DEF NoneInHand, Lex
  <2> QED
    BY <2>1
<1>2. CASE k = Len(Lex) /\ GetToken = [token |-> ConstantToken(0), rest |-> <<>>]
  BY <1>1, <1>2 DEF Keep, ZeroInHand
<1>3. CASE /\ k < Len(Lex) /\ IsLexeme(Lex[k + 1])
           /\ \E q : /\ EndsInLexeme(q) /\ CutAt(source, q, k + 1)
                     /\ GetToken = [token |-> TokenOf(Lex[k + 1]), rest |-> LeftAfter(q)]
  <2>1. PICK q : /\ EndsInLexeme(q) /\ CutAt(source, q, k + 1)
                 /\ GetToken = [token |-> TokenOf(Lex[k + 1]), rest |-> LeftAfter(q)]
    BY <1>3
  <2>2. GetToken.token = TokenOf(Lex[k + 1]) /\ GetToken.rest = LeftAfter(q)
    BY <2>1
  <2>3. OneInHand(q, k)'
    BY <1>1, <1>3, <2>1, <2>2 DEF Keep, OneInHand, LeftAfter
  <2> QED
    BY <1>3, <2>1, <2>2, <2>3
<1> QED
  BY <1>2, <1>3, NextToken

LEMMA DroppedIs ==
  ASSUME source \in Seq(Characters), Readable(source), source' = source, NEW n, NEW k, NoneInHand(n, k), Drop(GetToken),
         GetToken.token \in {Close, Dot}
  PROVE  /\ k < Len(Lex) /\ Lex[k + 1] = IF GetToken.token = Close THEN <<")">> ELSE <<".">>
         /\ \E q : NoneInHand(q, k + 1)' /\ EndsInLexeme(q)
<1>1. GetToken.token # ConstantToken(0) /\ Close # Dot
  <2>1. GetToken.token.token \in {"CLOSE", "Dot"} /\ ConstantToken(0).token = "Constant" /\ Close.token # Dot.token
    BY DEF Close, Dot, ConstantToken
  <2> QED
    BY <2>1
<1>2. /\ k < Len(Lex) /\ IsLexeme(Lex[k + 1])
      /\ \E q : /\ EndsInLexeme(q) /\ CutAt(source, q, k + 1)
                /\ GetToken = [token |-> TokenOf(Lex[k + 1]), rest |-> LeftAfter(q)]
  BY <1>1, NextToken
<1>3. PICK q : /\ EndsInLexeme(q) /\ CutAt(source, q, k + 1)
               /\ GetToken = [token |-> TokenOf(Lex[k + 1]), rest |-> LeftAfter(q)]
  BY <1>2
<1>4. GetToken.token = TokenOf(Lex[k + 1]) /\ GetToken.rest = LeftAfter(q)
  BY <1>3
<1>5. Lex[k + 1] = IF GetToken.token = Close THEN <<")">> ELSE <<".">>
  BY <1>1, <1>2, <1>4, TokensAre
<1>6. NoneInHand(q, k + 1)'
  BY <1>3, <1>4 DEF Drop, NoneInHand, LeftAfter
<1> QED
  BY <1>2, <1>3, <1>5, <1>6

LEMMA ReadListKeeps ==
  ASSUME ReadingInv, ReadList
  PROVE  ReadingInv'
<1>1. /\ at = "ReadList" /\ source' = source /\ trees' = trees /\ Keep(GetToken)
      /\ \/ /\ GetToken.token = Close
            /\ return_object' = Null /\ at' = "Closing" /\ UNCHANGED waiting
         \/ /\ GetToken.token # Close
            /\ waiting' = Append(waiting, InList(<<>>)) /\ at' = "Read" /\ UNCHANGED return_object
  BY DEF ReadList
<1>2. source \in Seq(Characters) /\ Readable(source) /\ Listing(waiting) /\ Listing(trees) /\ AtReadList /\ Lex' = Lex
  BY <1>1 DEF ReadingInv, Lex
<1>3. PICK n, f :
        /\ NoneInHand(n, f + 1) /\ f < Len(Lex) /\ Lex[f + 1] = <<"(">>
        /\ StackAt(Lex, waiting, trees, f)
  BY <1>2 DEF AtReadList
<1>4. /\ Lex \in Seq(Words) /\ Len(Lex) \in Nat /\ f \in 0 .. Len(Lex) - 1
      /\ f + 1 \in 0 .. Len(Lex) /\ f + 1 \in f + 1 .. Len(Lex) /\ <<>> \in ItemsAt(Lex, f + 1, f + 1)
  <2>1. Lex \in Seq(Words) /\ Len(Lex) \in Nat
    BY <1>2, LexIs
  <2>2. f + 1 \in 0 .. Len(Lex)
    BY <1>3, CutBounds DEF NoneInHand
  <2>3. <<>> \in ItemsAt(Lex, f + 1, f + 1)
    BY <1>2, <2>2, NoItems
  <2>4. f \in 0 .. Len(Lex)
    BY <1>3 DEF StackAt, StackFrom
  <2> QED
    BY <1>3, <2>1, <2>2, <2>3, <2>4
<1>5. \/ /\ f + 1 < Len(Lex) /\ IsLexeme(Lex[f + 1 + 1]) /\ GetToken.token = TokenOf(Lex[f + 1 + 1])
         /\ \E q : OneInHand(q, f + 1)' /\ EndsInLexeme(q)
      \/ f + 1 = Len(Lex) /\ GetToken.token = ConstantToken(0) /\ ZeroInHand(f + 1)'
  BY <1>1, <1>2, <1>3, KeptInHand
<1>6. ConstantToken(0) # Close
  <2>1. Close.token = "CLOSE" /\ ConstantToken(0).token = "Constant"
    BY DEF Close, ConstantToken
  <2> QED
    BY <2>1
<1>7. CASE GetToken.token = Close /\ return_object' = Null /\ at' = "Closing" /\ UNCHANGED waiting
  <2>1. PICK q : OneInHand(q, f + 1)' /\ EndsInLexeme(q)
    BY <1>5, <1>6, <1>7
  <2>2. Lex[f + 1 + 1] = <<")">>
    BY <1>5, <1>6, <1>7, TokensAre
  <2>3. \E items \in ItemsAt(Lex', f + 1, f + 1) : return_object' = Cells(items, Null)
    BY <1>2, <1>4, <1>7, CellsOfNothing
  <2>4. EndsInLexeme(q)' /\ StackAt(Lex', waiting', trees', f)
    BY <1>1, <1>2, <1>3, <1>7, <2>1 DEF EndsInLexeme
  <2>5. AtClosing'
    BY <1>2, <1>3, <1>4, <2>1, <2>2, <2>3, <2>4 DEF AtClosing
  <2> QED
    BY <1>1, <1>2, <1>7, <2>5 DEF ReadingInv
<1>8. CASE /\ GetToken.token # Close
           /\ waiting' = Append(waiting, InList(<<>>)) /\ at' = "Read" /\ UNCHANGED return_object
  <2>1. \E q : OneInHand(q, f + 1)' \/ ZeroInHand(f + 1)'
    BY <1>5
  <2>2. f + 1 < Len(Lex) => Lex[f + 1 + 1] # <<")">>
    <3>1. ASSUME f + 1 < Len(Lex) PROVE Lex[f + 1 + 1] # <<")">>
      <4>1. IsLexeme(Lex[f + 1 + 1]) /\ GetToken.token = TokenOf(Lex[f + 1 + 1])
        BY <1>4, <1>5, <3>1
      <4> QED
        BY <1>8, <4>1, TokensAre
    <3> QED
      BY <3>1
  <2>3. Waits(Lex, InList(<<>>), f, f + 1)
    BY <1>3, <1>4, <2>2 DEF Waits, InList
  <2>4. StackAt(Lex, waiting', trees, f + 1)
    BY <1>2, <1>3, <1>8, <2>3, PushCall
  <2>5. Listing(waiting') /\ waiting' # <<>> /\ Last(waiting').in = "list"
    BY <1>2, <1>8, Listings DEF InList
  <2>6. AtRead'
    BY <1>1, <1>2, <2>1, <2>4, <2>5 DEF AtRead, InAList
  <2> QED
    BY <1>1, <1>2, <1>8, <2>5, <2>6 DEF ReadingInv
<1> QED
  BY <1>1, <1>7, <1>8

(* Back in a call that waits.                                              *)
LEMMA CallIsBack ==
  ASSUME ReadingInv, at = "Return", waiting # <<>>
  PROVE  /\ source \in Seq(Characters) /\ Readable(source) /\ Lex \in Seq(Words) /\ Len(Lex) \in Nat /\ Listing(waiting)
         /\ Listing(trees) /\ Listing(Front(waiting))
         /\ \E n, h, f, k :
              /\ h \in 0 .. Len(Lex) - 1 /\ f \in h + 1 .. Len(Lex) /\ k \in f + 1 .. Len(Lex)
              /\ NoneInHand(n, k)
              /\ InAList \/ EndsInLexeme(n)
              /\ return_object \in DatumAt(Lex, f, k)
              /\ StackAt(Lex, Front(waiting), trees, h) /\ Waits(Lex, Last(waiting), h, f)
<1>1. source \in Seq(Characters) /\ Readable(source) /\ Listing(waiting) /\ Listing(trees) /\ AtReturn
  BY DEF ReadingInv
<1>2. Lex \in Seq(Words) /\ Len(Lex) \in Nat /\ Listing(Front(waiting))
  BY <1>1, LexIs, Listings
<1>3. PICK n, f, k :
        /\ NoneInHand(n, k)
        /\ InAList \/ EndsInLexeme(n)
        /\ k \in f .. Len(Lex) /\ return_object \in DatumAt(Lex, f, k)
        /\ StackAt(Lex, waiting, trees, f)
  BY <1>1 DEF AtReturn
<1>4. PICK h : /\ h \in 0 .. Len(Lex) - 1 /\ f \in h + 1 .. Len(Lex)
               /\ StackAt(Lex, Front(waiting), trees, h) /\ Waits(Lex, Last(waiting), h, f)
  BY <1>1, <1>3, PopCall
<1>5. k \in f + 1 .. Len(Lex)
  <2>1. f \in 0 .. Len(Lex)
    BY <1>2, <1>4
  <2>2. f < k
    BY <1>2, <1>3, <2>1, DatumBegins
  <2> QED
    BY <1>2, <1>3, <2>1, <2>2
<1> QED
  BY <1>1, <1>2, <1>3, <1>4, <1>5

LEMMA ListGoesOnKeeps ==
  ASSUME ReadingInv, ListGoesOn
  PROVE  ReadingInv'
<1> DEFINE items == Append(Last(waiting).items, return_object)
<1>1. /\ at = "Return" /\ waiting # <<>> /\ Last(waiting).in = "list" /\ source' = source /\ trees' = trees
      /\ \/ /\ GetToken.token = Close /\ Keep(GetToken)
            /\ return_object' = Cells(items, Null)
            /\ waiting' = Front(waiting) /\ at' = "Closing"
         \/ /\ GetToken.token = Dot /\ Drop(GetToken)
            /\ waiting' = Append(Front(waiting), InTail(items)) /\ at' = "Read"
         \/ /\ GetToken.token \notin {Close, Dot} /\ Keep(GetToken)
            /\ waiting' = Append(Front(waiting), InList(items)) /\ at' = "Read"
  BY DEF ListGoesOn, BackIn
<1>2. /\ source \in Seq(Characters) /\ Readable(source) /\ Lex \in Seq(Words) /\ Len(Lex) \in Nat /\ Listing(waiting)
      /\ Listing(trees) /\ Listing(Front(waiting)) /\ Lex' = Lex
  BY <1>1, CallIsBack DEF Lex
<1>3. PICK n, h, f, k :
        /\ h \in 0 .. Len(Lex) - 1 /\ f \in h + 1 .. Len(Lex) /\ k \in f + 1 .. Len(Lex)
        /\ NoneInHand(n, k)
        /\ InAList \/ EndsInLexeme(n)
        /\ return_object \in DatumAt(Lex, f, k)
        /\ StackAt(Lex, Front(waiting), trees, h) /\ Waits(Lex, Last(waiting), h, f)
  BY <1>1, CallIsBack
<1>4. Lex[h + 1] = <<"(">> /\ Last(waiting).items \in ItemsAt(Lex, h + 1, f)
  BY <1>1, <1>3 DEF Waits
<1>5. items \in ItemsAt(Lex, h + 1, k)
  <2>1. h + 1 \in 0 .. Len(Lex) /\ k \in f .. Len(Lex)
    BY <1>2, <1>3
  <2> QED
    BY <1>2, <1>3, <1>4, <2>1, OneMoreItem
<1>6. /\ k \in h + 1 .. Len(Lex) /\ k >= h + 2 /\ k \in Nat /\ h \in Nat
  BY <1>2, <1>3
<1> HIDE DEF items
<1>7. CASE /\ GetToken.token = Close /\ Keep(GetToken)
           /\ return_object' = Cells(items, Null)
           /\ waiting' = Front(waiting) /\ at' = "Closing"
  <2>1. ConstantToken(0) # Close
    <3>1. Close.token = "CLOSE" /\ ConstantToken(0).token = "Constant"
      BY DEF Close, ConstantToken
    <3> QED
      BY <3>1
  <2>2. /\ k < Len(Lex) /\ IsLexeme(Lex[k + 1]) /\ GetToken.token = TokenOf(Lex[k + 1])
        /\ \E q : OneInHand(q, k)' /\ EndsInLexeme(q)
    BY <1>1, <1>2, <1>3, <1>7, <2>1, KeptInHand
  <2>3. PICK q : OneInHand(q, k)' /\ EndsInLexeme(q)
    BY <2>2
  <2>4. Lex[k + 1] = <<")">>
    BY <1>7, <2>2, TokensAre
  <2>5. EndsInLexeme(q)' /\ StackAt(Lex', waiting', trees', h)
    BY <1>1, <1>2, <1>3, <1>7, <2>3 DEF EndsInLexeme
  <2>6. AtClosing'
    BY <1>2, <1>4, <1>5, <1>6, <1>7, <2>3, <2>4, <2>5 DEF AtClosing
  <2> QED
    BY <1>1, <1>2, <1>7, <2>6 DEF ReadingInv
<1>8. CASE /\ GetToken.token = Dot /\ Drop(GetToken)
           /\ waiting' = Append(Front(waiting), InTail(items)) /\ at' = "Read"
  <2>1. Close # Dot
    <3>1. Close.token # Dot.token
      BY DEF Close, Dot
    <3> QED
      BY <3>1
  <2>2. k < Len(Lex) /\ Lex[k + 1] = <<".">> /\ \E q : NoneInHand(q, k + 1)'
    BY <1>1, <1>2, <1>3, <1>8, <2>1, DroppedIs
  <2>3. Waits(Lex, InTail(items), h, k + 1)
    <3>1. k + 1 \in h + 1 .. Len(Lex) /\ k + 1 >= h + 3 /\ (k + 1) - 1 = k
      BY <1>2, <1>6, <2>2
    <3> QED
      BY <1>3, <1>4, <1>5, <2>2, <3>1 DEF Waits, InTail
  <2>4. StackAt(Lex, waiting', trees, k + 1)
    BY <1>2, <1>3, <1>8, <2>3, PushCall
  <2>5. Listing(waiting') /\ waiting' # <<>>
    BY <1>2, <1>8, Listings
  <2>6. AtRead'
    BY <1>1, <1>2, <2>2, <2>4, <2>5 DEF AtRead
  <2> QED
    BY <1>1, <1>2, <1>8, <2>5, <2>6 DEF ReadingInv
<1>9. CASE /\ GetToken.token \notin {Close, Dot} /\ Keep(GetToken)
           /\ waiting' = Append(Front(waiting), InList(items)) /\ at' = "Read"
  <2>1. \/ /\ k < Len(Lex) /\ IsLexeme(Lex[k + 1]) /\ GetToken.token = TokenOf(Lex[k + 1])
           /\ \E q : OneInHand(q, k)' /\ EndsInLexeme(q)
        \/ k = Len(Lex) /\ GetToken.token = ConstantToken(0) /\ ZeroInHand(k)'
    BY <1>1, <1>2, <1>3, <1>9, KeptInHand
  <2>2. k < Len(Lex) => Lex[k + 1] # <<")">> /\ Lex[k + 1] # <<".">>
    <3>1. ASSUME k < Len(Lex) PROVE Lex[k + 1] # <<")">> /\ Lex[k + 1] # <<".">>
      <4>1. IsLexeme(Lex[k + 1]) /\ GetToken.token = TokenOf(Lex[k + 1])
        BY <1>2, <2>1, <3>1
      <4> QED
        BY <1>9, <4>1, TokensAre
    <3> QED
      BY <3>1
  <2>3. Waits(Lex, InList(items), h, k)
    BY <1>3, <1>4, <1>5, <1>6, <2>2 DEF Waits, InList
  <2>4. StackAt(Lex, waiting', trees, k)
    BY <1>2, <1>3, <1>9, <2>3, PushCall
  <2>5. Listing(waiting') /\ waiting' # <<>> /\ Last(waiting').in = "list"
    BY <1>2, <1>9, Listings DEF InList
  <2>6. AtRead'
    BY <1>1, <1>2, <2>1, <2>4, <2>5 DEF AtRead, InAList
  <2> QED
    BY <1>1, <1>2, <1>9, <2>5, <2>6 DEF ReadingInv
<1> QED
  BY <1>1, <1>7, <1>8, <1>9

LEMMA TailIsReadKeeps ==
  ASSUME ReadingInv, TailIsRead
  PROVE  ReadingInv'
<1>1. /\ at = "Return" /\ waiting # <<>> /\ Last(waiting).in = "tail" /\ source' = source /\ trees' = trees
      /\ return_object' = Cells(Last(waiting).items, return_object)
      /\ waiting' = Front(waiting) /\ at' = "Closing" /\ stream_' = stream_ /\ got_token_' = got_token_
  BY DEF TailIsRead, BackIn
<1>2. /\ source \in Seq(Characters) /\ Readable(source) /\ Lex \in Seq(Words) /\ Len(Lex) \in Nat
      /\ Listing(trees) /\ Listing(Front(waiting)) /\ Lex' = Lex
  BY <1>1, CallIsBack DEF Lex
<1>3. PICK n, h, f, k :
        /\ h \in 0 .. Len(Lex) - 1 /\ f \in h + 1 .. Len(Lex) /\ k \in f + 1 .. Len(Lex)
        /\ NoneInHand(n, k)
        /\ InAList \/ EndsInLexeme(n)
        /\ return_object \in DatumAt(Lex, f, k)
        /\ StackAt(Lex, Front(waiting), trees, h) /\ Waits(Lex, Last(waiting), h, f)
  BY <1>1, CallIsBack
<1>4. /\ Lex[h + 1] = <<"(">> /\ f >= h + 3 /\ Lex[f] = <<".">>
      /\ Last(waiting).items \in ItemsAt(Lex, h + 1, f - 1)
  BY <1>1, <1>3 DEF Waits
<1>5. k \in h + 1 .. Len(Lex) /\ f \in h + 3 .. k
  BY <1>2, <1>3, <1>4
<1>6. NoneInHand(n, k)'
  BY <1>1, <1>3 DEF NoneInHand, LeftAfter
<1>7. \E items \in ItemsAt(Lex', h + 1, f - 1) : \E tail \in DatumAt(Lex', f, k) :
         return_object' = Cells(items, tail)
  BY <1>1, <1>2, <1>3, <1>4
<1>8. StackAt(Lex', waiting', trees', h)
  BY <1>1, <1>2, <1>3
<1>9. AtClosing'
  BY <1>2, <1>4, <1>5, <1>6, <1>7, <1>8 DEF AtClosing
<1> QED
  BY <1>1, <1>2, <1>9 DEF ReadingInv

LEMMA QuoteIsReadKeeps ==
  ASSUME ReadingInv, QuoteIsRead
  PROVE  ReadingInv'
<1>1. /\ at = "Return" /\ waiting # <<>> /\ Last(waiting).in = "quote" /\ source' = source /\ trees' = trees
      /\ return_object' = Quoted(return_object)
      /\ waiting' = Front(waiting) /\ at' = "Return" /\ stream_' = stream_ /\ got_token_' = got_token_
  BY DEF QuoteIsRead, BackIn
<1>2. /\ source \in Seq(Characters) /\ Readable(source) /\ Lex \in Seq(Words) /\ Len(Lex) \in Nat
      /\ Listing(trees) /\ Listing(Front(waiting)) /\ Lex' = Lex
  BY <1>1, CallIsBack DEF Lex
<1>3. PICK n, h, f, k :
        /\ h \in 0 .. Len(Lex) - 1 /\ f \in h + 1 .. Len(Lex) /\ k \in f + 1 .. Len(Lex)
        /\ NoneInHand(n, k)
        /\ InAList \/ EndsInLexeme(n)
        /\ return_object \in DatumAt(Lex, f, k)
        /\ StackAt(Lex, Front(waiting), trees, h) /\ Waits(Lex, Last(waiting), h, f)
  BY <1>1, CallIsBack
<1>4. Lex[h + 1] = <<"'">> /\ f = h + 1
  BY <1>1, <1>3 DEF Waits
<1>5. /\ k > h + 1 /\ h \in 0 .. Len(Lex) /\ k \in h .. Len(Lex)
  BY <1>2, <1>3, <1>4
<1>6. return_object' \in DatumAt(Lex, h, k)
  BY <1>1, <1>2, <1>3, <1>4, <1>5, DatumAtIs
<1>7. NoneInHand(n, k)' /\ EndsInLexeme(n)'
  BY <1>1, <1>3 DEF NoneInHand, LeftAfter, InAList, EndsInLexeme
<1>8. StackAt(Lex', waiting', trees', h)
  BY <1>1, <1>2, <1>3
<1>9. AtReturn'
  BY <1>2, <1>5, <1>6, <1>7, <1>8 DEF AtReturn
<1> QED
  BY <1>1, <1>2, <1>9 DEF ReadingInv

(* A dotted list that is not closed after its tail is no list.             *)
LEMMA UnclosedIsStuck ==
  ASSUME NEW W \in Seq(Words), NEW f \in 0 .. Len(W), NEW k \in f + 1 .. Len(W), W[f + 1] = <<"(">>,
         NEW d \in f + 3 .. k, W[d] = <<".">>, NEW items \in ItemsAt(W, f + 1, d - 1),
         NEW tail \in DatumAt(W, d, k), k < Len(W) => W[k + 1] # <<")">>
  PROVE  Stuck(W, f)
<1> SUFFICES ASSUME NEW m \in f + 1 .. Len(W), NEW t \in DatumAt(W, f, m) PROVE FALSE
  BY DEF Stuck, GoesOn
<1>1. /\ Len(W) \in Nat /\ f \in Nat /\ k \in Nat /\ m \in Nat /\ d \in Nat /\ m \in f .. Len(W)
      /\ f + 1 \in 0 .. Len(W) /\ d - 1 \in 0 .. Len(W) /\ d - 1 \in f + 1 .. Len(W) /\ d - 1 + 1 = d
      /\ d \in 0 .. Len(W) /\ k \in d .. Len(W)
  BY LenProperties
<1>2. m > f + 1 /\ W[m] = <<")">> /\ \E e \in f + 1 .. m - 1 : EndsAt(W, f, m, t, e)
  BY <1>1, ListEnds
<1>3. PICK e \in f + 1 .. m - 1 : EndsAt(W, f, m, t, e)
  BY <1>2
<1>4. PICK x \in ItemsAt(W, f + 1, e) :
        \/ e = m - 1
        \/ e + 1 < m /\ W[e + 1] = <<".">> /\ DatumAt(W, e + 1, m - 1) # {}
  BY <1>3 DEF EndsAt
<1>5. e \in f + 1 .. Len(W) /\ e \in 0 .. Len(W) /\ e < m /\ m - 1 + 1 = m /\ <<".">> # <<")">>
  BY <1>1, <1>2
<1>6. W[e + 1] = <<")">> \/ W[e + 1] = <<".">>
  BY <1>2, <1>4, <1>5
<1>7. e = d - 1
  <2>1. CASE e < d - 1
    <3>1. d - 1 \in e .. Len(W) /\ e # d - 1
      BY <1>1, <1>5, <2>1
    <3>2. GoesOn(W, e, d - 1)
      BY <1>1, <1>5, <3>1, Unambiguous
    <3> QED
      BY <1>5, <1>6, <3>1, <3>2, NoDatumHere
  <2>2. CASE e > d - 1
    <3>1. e \in d - 1 .. Len(W) /\ e # d - 1
      BY <1>1, <1>5, <2>2
    <3>2. GoesOn(W, d - 1, e)
      BY <1>1, <1>5, <3>1, Unambiguous
    <3> QED
      BY <1>1, <3>1, <3>2, NoDatumHere
  <2> QED
    BY <1>1, <1>5, <2>1, <2>2
<1>8. d < m /\ DatumAt(W, d, m - 1) # {}
  BY <1>1, <1>2, <1>4, <1>5, <1>7
<1>9. m - 1 = k
  <2>1. m - 1 \in d .. Len(W) /\ (m - 1 \in k .. Len(W) \/ k \in m - 1 .. Len(W))
    BY <1>1, <1>8
  <2>2. PICK u \in DatumAt(W, d, m - 1) : TRUE
    BY <1>8
  <2>3. CASE m - 1 \in k .. Len(W)
    <3>1. \A a \in DatumAt(W, d, k) : \A b \in DatumAt(W, d, m - 1) : k = m - 1 /\ a = b
      BY <1>1, <2>3, Unambiguous
    <3> QED
      BY <2>2, <3>1
  <2>4. CASE k \in m - 1 .. Len(W)
    <3>1. \A a \in DatumAt(W, d, m - 1) : \A b \in DatumAt(W, d, k) : m - 1 = k /\ a = b
      BY <1>1, <2>1, <2>4, Unambiguous
    <3> QED
      BY <2>2, <3>1
  <2> QED
    BY <2>1, <2>3, <2>4
<1> QED
  BY <1>1, <1>2, <1>9

LEMMA ClosingKeeps ==
  ASSUME ReadingInv, Closing
  PROVE  ReadingInv'
<1>1. /\ at = "Closing" /\ source' = source /\ trees' = trees /\ waiting' = waiting
      /\ return_object' = return_object
      /\ \/ GetToken.token = Close /\ Drop(GetToken) /\ at' = "Return"
         \/ GetToken.token # Close /\ Keep(GetToken) /\ at' = "SyntaxError"
  BY DEF Closing
<1>2. source \in Seq(Characters) /\ Readable(source) /\ Listing(waiting) /\ Listing(trees) /\ AtClosing /\ Lex' = Lex
  BY <1>1 DEF ReadingInv, Lex
<1>3. PICK n, f, k :
    /\ k \in f + 1 .. Len(Lex) /\ Lex[f + 1] = <<"(">>
    /\ StackAt(Lex, waiting, trees, f)
    /\ \/ /\ OneInHand(n, k) /\ Lex[k + 1] = <<")">> /\ EndsInLexeme(n)
          /\ \E items \in ItemsAt(Lex, f + 1, k) : return_object = Cells(items, Null)
       \/ /\ NoneInHand(n, k)
          /\ \E d \in f + 3 .. k :
               /\ Lex[d] = <<".">>
               /\ \E items \in ItemsAt(Lex, f + 1, d - 1) : \E tail \in DatumAt(Lex, d, k) :
                    return_object = Cells(items, tail)
  BY <1>2 DEF AtClosing
<1>4. Lex \in Seq(Words) /\ Len(Lex) \in Nat /\ f \in 0 .. Len(Lex) /\ f < Len(Lex) /\ k \in Nat
  <2>1. Lex \in Seq(Words) /\ Len(Lex) \in Nat /\ f \in 0 .. Len(Lex)
    BY <1>2, <1>3, LexIs DEF StackAt, StackFrom
  <2> QED
    BY <1>3, <2>1
<1>5. CASE OneInHand(n, k) /\ Lex[k + 1] = <<")">> /\ EndsInLexeme(n)
           /\ \E items \in ItemsAt(Lex, f + 1, k) : return_object = Cells(items, Null)
  <2>1. GetToken.token = Close /\ GetToken.rest = stream_
    BY <1>5, TokensAre DEF OneInHand, GetToken
  <2>2. NoneInHand(n, k + 1)' /\ EndsInLexeme(n)' /\ at' = "Return"
    BY <1>1, <1>5, <2>1 DEF Drop, OneInHand, NoneInHand, LeftAfter, EndsInLexeme
  <2>3. /\ k + 1 \in f .. Len(Lex) /\ k + 1 > f + 1 /\ (k + 1) - 1 = k
    BY <1>3, <1>4, <1>5 DEF OneInHand
  <2>4. return_object \in DatumAt(Lex, f, k + 1)
    <3>1. ListAt(Lex, f, k + 1, return_object)
      BY <1>5, <2>3 DEF ListAt
    <3> QED
      BY <1>3, <1>4, <1>5, <2>3, <3>1, DatumAtIs
  <2>5. AtReturn'
    BY <1>1, <1>2, <1>3, <2>2, <2>3, <2>4 DEF AtReturn
  <2> QED
    BY <1>1, <1>2, <2>2, <2>5 DEF ReadingInv
<1>6. CASE /\ NoneInHand(n, k)
           /\ \E d \in f + 3 .. k :
                /\ Lex[d] = <<".">>
                /\ \E items \in ItemsAt(Lex, f + 1, d - 1) : \E tail \in DatumAt(Lex, d, k) :
                     return_object = Cells(items, tail)
  <2>1. CASE GetToken.token = Close /\ Drop(GetToken) /\ at' = "Return"
    <3>1. PICK q : NoneInHand(q, k + 1)' /\ EndsInLexeme(q)
      BY <1>1, <1>2, <1>6, <2>1, DroppedIs
    <3>2. k < Len(Lex) /\ Lex[k + 1] = <<")">>
      BY <1>1, <1>2, <1>6, <2>1, DroppedIs
    <3>3. k + 1 \in f .. Len(Lex) /\ k + 1 > f + 1 /\ (k + 1) - 1 = k
      BY <1>3, <1>4, <3>2
    <3>4. return_object \in DatumAt(Lex, f, k + 1)
      <4>1. ListAt(Lex, f, k + 1, return_object)
        BY <1>6, <3>3 DEF ListAt
      <4> QED
        BY <1>3, <1>4, <3>2, <3>3, <4>1, DatumAtIs
    <3>5. EndsInLexeme(q)'
      BY <1>1, <3>1 DEF EndsInLexeme
    <3>6. AtReturn'
      BY <1>1, <1>2, <1>3, <3>1, <3>3, <3>4, <3>5 DEF AtReturn
    <3> QED
      BY <1>1, <1>2, <2>1, <3>6 DEF ReadingInv
  <2>2. CASE GetToken.token # Close /\ Keep(GetToken) /\ at' = "SyntaxError"
    <3>1. k < Len(Lex) => Lex[k + 1] # <<")">>
      <4>1. \/ k < Len(Lex) /\ IsLexeme(Lex[k + 1]) /\ GetToken.token = TokenOf(Lex[k + 1])
            \/ k = Len(Lex)
        BY <1>1, <1>2, <1>6, <2>2, KeptInHand
      <4>2. ASSUME k < Len(Lex) PROVE Lex[k + 1] # <<")">>
        <5>1. IsLexeme(Lex[k + 1]) /\ GetToken.token = TokenOf(Lex[k + 1])
          BY <1>4, <4>1, <4>2
        <5> QED
          BY <2>2, <5>1, TokensAre
      <4> QED
        BY <4>2
    <3>2. Stuck(Lex, f)
      BY <1>3, <1>4, <1>6, <3>1, UnclosedIsStuck
    <3>3. AtSyntaxError
      BY <1>2, <1>3, <1>4, <3>2, ErrorIsRight
    <3> QED
      BY <1>1, <1>2, <2>2, <3>3 DEF ReadingInv, AtSyntaxError
  <2> QED
    BY <1>1, <2>1, <2>2
<1> QED
  BY <1>3, <1>5, <1>6

LEMMA ClientReadsKeeps ==
  ASSUME ReadingInv, ClientReads
  PROVE  ReadingInv'
<1>1. /\ at = "Return" /\ waiting = <<>> /\ trees' = Append(trees, return_object)
      /\ at' = (IF IsEnd THEN "end" ELSE "Read") /\ stream_' = WithoutBlanks(stream_)
      /\ got_token_' = got_token_ /\ waiting' = <<>> /\ source' = source
  BY DEF ClientReads
<1>2. source \in Seq(Characters) /\ Readable(source) /\ Listing(waiting) /\ Listing(trees) /\ AtReturn /\ Lex' = Lex
  BY <1>1 DEF ReadingInv, Lex
<1>3. PICK n, f, k :
        /\ NoneInHand(n, k)
        /\ InAList \/ EndsInLexeme(n)
        /\ k \in f .. Len(Lex) /\ return_object \in DatumAt(Lex, f, k)
        /\ StackAt(Lex, waiting, trees, f)
  BY <1>2 DEF AtReturn
<1>4. f \in 0 .. Len(Lex) /\ trees \in ItemsAt(Lex, 0, f) /\ Len(Lex) \in Nat
  BY <1>1, <1>2, <1>3, EmptyStack, LexIs
<1>5. trees' \in ItemsAt(Lex, 0, k) /\ k \in 0 .. Len(Lex)
  <2>1. 0 \in 0 .. Len(Lex) /\ f \in 0 .. Len(Lex) /\ k \in 0 .. Len(Lex)
    BY <1>3, <1>4
  <2> QED
    BY <1>1, <1>2, <1>3, <1>4, <2>1, OneMoreItem
<1>6. Listing(trees') /\ trees' # <<>>
  BY <1>1, <1>2, Listings
<1>7. PICK p : /\ WithoutBlanks(stream_) = LeftAfter(p) /\ CutAt(source, p, k)
               /\ IsEnd => k = Len(Lex)
               /\ ~ IsEnd => k < Len(Lex)
  BY <1>2, <1>3, BlanksGone DEF NoneInHand
<1>8. CASE IsEnd
  <2>1. AtEnd'
    BY <1>2, <1>5, <1>6, <1>7, <1>8 DEF AtEnd
  <2> QED
    BY <1>1, <1>2, <1>6, <1>8, <2>1 DEF ReadingInv
<1>9. CASE ~ IsEnd
  <2>1. NoneInHand(p, k)'
    BY <1>1, <1>3, <1>7 DEF NoneInHand, LeftAfter
  <2>2. StackAt(Lex', waiting', trees', k)
    BY <1>1, <1>2, <1>5, EmptyStack
  <2>3. AtRead'
    BY <1>2, <1>7, <1>9, <2>1, <2>2 DEF AtRead
  <2> QED
    BY <1>1, <1>2, <1>6, <1>9, <2>3 DEF ReadingInv
<1> QED
  BY <1>8, <1>9

LEMMA ReadingStep ==
  ASSUME ReadingInv, [ParserNext]_parser_vars
  PROVE  ReadingInv'
<1>1. CASE UNCHANGED parser_vars
  <2>1. /\ stream_' = stream_ /\ current_token_' = current_token_ /\ got_token_' = got_token_
        /\ waiting' = waiting /\ at' = at /\ return_object' = return_object
        /\ source' = source /\ trees' = trees
    BY <1>1 DEF parser_vars
  <2>2. AtRead => AtRead'
    BY <2>1 DEF AtRead, NoneInHand, OneInHand, ZeroInHand, InAList, EndsInLexeme, LeftAfter, Lex
  <2>3. AtReadList => AtReadList'
    BY <2>1 DEF AtReadList, NoneInHand, LeftAfter, Lex
  <2>4. AtReturn => AtReturn'
    BY <2>1 DEF AtReturn, NoneInHand, InAList, EndsInLexeme, LeftAfter, Lex
  <2>5. AtClosing => AtClosing'
    <3>1. ASSUME NEW n, NEW k
          PROVE  /\ NoneInHand(n, k) => NoneInHand(n, k)'
                 /\ OneInHand(n, k) => OneInHand(n, k)'
                 /\ EndsInLexeme(n) => EndsInLexeme(n)'
      BY <2>1 DEF NoneInHand, OneInHand, EndsInLexeme, LeftAfter, Lex
    <3>2. Lex' = Lex /\ return_object' = return_object /\ waiting' = waiting /\ trees' = trees
      BY <2>1 DEF Lex
    <3> QED
      BY <3>1, <3>2 DEF AtClosing
  <2>6. /\ AtEnd => AtEnd'
        /\ AtSyntaxError => AtSyntaxError'
    BY <2>1 DEF AtEnd, AtSyntaxError, Lex
  <2> QED
    BY <2>1, <2>2, <2>3, <2>4, <2>5, <2>6 DEF ReadingInv
<1>2. CASE ParserNext
  BY <1>2, ReadAtEndKeeps, ReadKeeps, StoiKeepsQuiet, ReadListKeeps, ListGoesOnKeeps, TailIsReadKeeps,
     ClosingKeeps, QuoteIsReadKeeps, ClientReadsKeeps DEF ParserNext
<1> QED
  BY <1>1, <1>2

(* The text stays as it is.                                                *)
LEMMA ReadingGoesOn ==
  (Readable(source) => ReadingInv) /\ [ParserNext]_parser_vars => (Readable(source) => ReadingInv)'
<1>1. [ParserNext]_parser_vars => source' = source
  BY DEF ParserNext, parser_vars, ReadAtEnd, Read, StoiThrows, ReadList, ListGoesOn, TailIsRead, Closing,
         QuoteIsRead, ClientReads
<1> QED
  BY <1>1, ReadingStep

(* What Read has read of a readable text is what it means, and nothing     *)
(* else than a SyntaxError is thrown, which the text is to blame for.      *)
THEOREM ParserReadsGrammar == ParserSpec => []ReadsTheGrammar
<1>1. (Readable(source) => ReadingInv) => ReadsTheGrammar
  <2> SUFFICES ASSUME Readable(source), ReadingInv PROVE ReadsTheGrammar
    BY DEF ReadsTheGrammar
  <2>1. source \in Seq(Characters) /\ Lex \in Seq(Words) /\ Len(Lex) \in Nat /\ Len(Lex) \in 0 .. Len(Lex)
    <3>1. source \in Seq(Characters)
      BY DEF ReadingInv
    <3>2. Lex \in Seq(Words) /\ Len(Lex) \in Nat
      BY <3>1, LexIs
    <3> QED
      BY <3>1, <3>2
  <2>2. Meaning = Data(Lex)
    BY DEF Meaning, Lex
  <2>3. ASSUME at = "end"
        PROVE  trees = Meaning.trees /\ Meaning.whole /\ trees # <<>>
    <3>1. trees \in ItemsAt(Lex, 0, Len(Lex)) /\ trees # <<>>
      BY <2>3 DEF ReadingInv, AtEnd
    <3>2. Data(Lex) = [trees |-> trees, whole |-> Len(Lex) = Len(Lex)]
      BY <2>1, <3>1, StuckAtEnd, DataIs
    <3> DEFINE all == Len(Lex) = Len(Lex)
    <3>3. Data(Lex).trees = trees
      BY <3>2
    <3>4. Data(Lex).whole = all
      <4>1. Data(Lex) = [trees |-> trees, whole |-> all]
        BY <3>2, Zenon
      <4> HIDE DEF all
      <4> QED
        BY <4>1
    <3>5. Data(Lex).whole
      BY <3>4, Zenon
    <3> QED
      BY <2>2, <3>1, <3>3, <3>5, Zenon
  <2>4. ASSUME at = "SyntaxError"
        PROVE  trees = Meaning.trees /\ (Meaning.whole => trees = <<>>)
    <3>1. PICK f \in 0 .. Len(Lex) :
            /\ trees \in ItemsAt(Lex, 0, f) /\ Stuck(Lex, f)
            /\ f < Len(Lex) \/ trees = <<>>
      BY <2>4 DEF ReadingInv, AtSyntaxError
    <3>2. Data(Lex) = [trees |-> trees, whole |-> f = Len(Lex)]
      BY <2>1, <3>1, DataIs
    <3> DEFINE all == f = Len(Lex)
    <3>3. Data(Lex).trees = trees
      BY <3>2
    <3>4. Data(Lex).whole = all
      <4>1. Data(Lex) = [trees |-> trees, whole |-> all]
        BY <3>2, Zenon
      <4> HIDE DEF all
      <4> QED
        BY <4>1
    <3>5. f = Len(Lex) => trees = <<>>
      BY <2>1, <3>1
    <3> QED
      BY <2>2, <3>3, <3>4, <3>5, Zenon
  <2>5. at # "out_of_range"
    BY DEF ReadingInv
  <2> QED
    BY <2>3, <2>4, <2>5 DEF ReadsTheGrammar, Ended
<1>2. ParserInit => (Readable(source) => ReadingInv)
  BY ReadingBegins
<1> QED
  BY <1>1, <1>2, ReadingGoesOn, PTL DEF ParserSpec

(* When Read returns to its client, it has taken its datum from the stream *)
(* and nothing more.                                                       *)
THEOREM ParserTakesDatum == ParserSpec => []TakesOnlyItsDatum
<1>1. (Readable(source) => ReadingInv) => TakesOnlyItsDatum
  <2> DEFINE consumed == SubSeq(source, 1, Len(source) - Len(stream_))
  <2> SUFFICES ASSUME Readable(source), ReadingInv, at = "Return", waiting = <<>>
               PROVE  /\ ~ got_token_ /\ Last(consumed) \notin Blanks
                      /\ Data(Lexemes[consumed]) = [trees |-> Append(trees, return_object), whole |-> TRUE]
    BY DEF TakesOnlyItsDatum
  <2>1. source \in Seq(Characters) /\ Lex \in Seq(Words) /\ Len(Lex) \in Nat /\ Len(source) \in Nat /\ AtReturn
    <3>1. source \in Seq(Characters) /\ AtReturn
      BY DEF ReadingInv
    <3> QED
      BY <3>1, LexIs, LenProperties
  <2>2. PICK n, f, k :
          /\ NoneInHand(n, k)
          /\ InAList \/ EndsInLexeme(n)
          /\ k \in f .. Len(Lex) /\ return_object \in DatumAt(Lex, f, k)
          /\ StackAt(Lex, waiting, trees, f)
    BY <2>1 DEF AtReturn
  <2>3. n \in 1 .. Len(source) /\ source[n] \notin Blanks
    BY <2>2 DEF InAList, EndsInLexeme
  <2>4. ~ got_token_ /\ stream_ = SubSeq(source, n + 1, Len(source)) /\ CutAt(source, n, k)
    BY <2>2 DEF NoneInHand, LeftAfter
  <2>5. consumed = SubSeq(source, 1, n)
    <3>1. Len(stream_) = Len(source) - n
      <4>1. n \in 0 .. Len(source)
        BY <2>1, <2>3
      <4> QED
        BY <2>1, <2>4, <4>1, RestIs
    <3>2. Len(source) - Len(stream_) = n
      BY <2>1, <2>3, <3>1
    <3> QED
      BY <3>2
  <2>6. Last(consumed) = source[n]
    <3>1. 1 \in 1 .. Len(source) + 1 /\ n \in 1 - 1 .. Len(source)
      BY <2>1, <2>3
    <3>2. /\ Len(SubSeq(source, 1, n)) = n - 1 + 1
          /\ \A j \in 1 .. n - 1 + 1 : SubSeq(source, 1, n)[j] = source[1 + j - 1]
      BY <2>1, <3>1, PieceOf
    <3>3. n - 1 + 1 = n /\ 1 + n - 1 = n /\ n \in 1 .. n
      BY <2>1, <2>3
    <3> HIDE DEF consumed
    <3> QED
      BY <2>5, <3>2, <3>3 DEF Last
  <2> DEFINE V == SubSeq(Lex, 1, k)
             given == Append(trees, return_object)
  <2>7. Lexemes[consumed] = V
    <3>1. Lexemes[SubSeq(source, 1, n)] = SubSeq(Lexemes[source], 1, k)
      BY <2>1, <2>4, CutAtEnd
    <3> HIDE DEF consumed
    <3> QED
      BY <2>5, <3>1 DEF Lex
  <2>8. f \in 0 .. Len(Lex) /\ trees \in ItemsAt(Lex, 0, f) /\ k \in 0 .. Len(Lex)
    <3>1. f \in 0 .. Len(Lex) /\ trees \in ItemsAt(Lex, 0, f)
      BY <2>2, EmptyStack
    <3> QED
      BY <2>1, <2>2, <3>1
  <2>9. given \in ItemsAt(Lex, 0, k)
    <3>1. 0 \in 0 .. Len(Lex)
      BY <2>1
    <3> QED
      BY <2>1, <2>2, <2>8, <3>1, OneMoreItem
  <2>10. V \in Seq(Words) /\ Len(V) = k
    <3>1. 1 \in 1 .. Len(Lex) + 1 /\ k \in 1 - 1 .. Len(Lex) /\ k - 1 + 1 = k
      BY <2>1, <2>8
    <3>2. SubSeq(Lex, 1, k) \in Seq(Words) /\ Len(SubSeq(Lex, 1, k)) = k - 1 + 1
      BY <2>1, <3>1, PieceOf
    <3> QED
      BY <3>1, <3>2
  <2>11. ItemsAt(V, 0, k) = ItemsAt(Lex, 0, k)
    <3>1. SubSeq(V, 1, k) = V /\ 0 + 1 = 1
      BY <2>10, SubSeqFull
    <3> QED
      BY <3>1 DEF ItemsAt
  <2> HIDE DEF V, given
  <2>12. Stuck(V, k)
    <3>1. k + 1 .. k = {}
      BY <2>1, <2>8
    <3> QED
      BY <2>10, <3>1 DEF Stuck, GoesOn
  <2>13. Data(V) = [trees |-> given, whole |-> k = Len(V)]
    <3>1. k \in 0 .. Len(V) /\ given \in ItemsAt(V, 0, k)
      BY <2>8, <2>9, <2>10, <2>11
    <3> QED
      BY <2>10, <2>12, <3>1, DataIs
  <2> QED
    BY <2>3, <2>4, <2>6, <2>7, <2>10, <2>13 DEF given
<1>2. ParserInit => (Readable(source) => ReadingInv)
  BY ReadingBegins
<1> QED
  BY <1>1, <1>2, ReadingGoesOn, PTL DEF ParserSpec
=============================================================================
