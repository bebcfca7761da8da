----------------------- MODULE ConcurrentHashMap_proofs -----------------------
(***************************************************************************)
(* The hash map keeps its elements findable and counted and implements     *)
(* ConcurrentMap, for every number of threads, keys, values and mutexes,   *)
(* every hash function, load and growth.                                   *)
(*                                                                         *)
(* The inductive invariant MapInv says that the number of buckets is a     *)
(* multiple of the number of mutexes (so that keys of one bucket have one  *)
(* mutex), that elements are in the bucket of their key, and that a thread *)
(* in Clear or Rehash holds exactly the mutexes below its number.  What a  *)
(* key's values are is a matter of the order in which the cells of the     *)
(* table are met: a step that moves cells and keeps their order keeps the  *)
(* values (MovedElementsKeepValues), and an Erase, a push and a rehash are *)
(* such moves but for the one element that goes or comes.                  *)
(***************************************************************************)
EXTENDS ConcurrentHashMap, FiniteSetTheorems, SequenceTheorems, TLAPS

-----------------------------------------------------------------------------
(* Division with remainder, and what is left of a remainder by a multiple. *)
LEMMA Division ==
  ASSUME NEW a \in Nat, NEW b \in Nat \ {0}
  PROVE  /\ a \div b \in Nat /\ a % b \in 0 .. b - 1
         /\ a = (b * (a \div b)) + (a % b)
OBVIOUS

(* There is one remainder only.                                            *)
LEMMA Remainder ==
  ASSUME NEW a \in Nat, NEW b \in Nat \ {0}, NEW q \in Int, NEW r \in 0 .. b - 1,
         a = (b * q) + r
  PROVE  a % b = r
OBVIOUS

(* What the solver is told about products.                                 *)
LEMMA Products ==
  ASSUME NEW a \in Int, NEW b \in Int, NEW c \in Int
  PROVE  (a * b) * c = b * (a * c) /\ a * (b + c) = (a * b) + (a * c)
OBVIOUS

(* The remainder by L is that of the remainder by a multiple of L.         *)
LEMMA RemainderOfRemainder ==
  ASSUME NEW a \in Nat, NEW L \in Nat \ {0}, NEW m \in Nat \ {0}
  PROVE  a % L = (a % (m * L)) % L
<1>1. m * L \in Nat \ {0}
  OBVIOUS
<1>2. PICK n \in Nat \ {0} : n = m * L
  BY <1>1
<1>3. PICK q \in Nat, r \in Nat : a = (n * q) + r /\ r = a % n
  <2>1. a \div n \in Nat /\ a % n \in Nat /\ a = (n * (a \div n)) + (a % n)
    BY Division
  <2> QED
    BY <2>1
<1>4. PICK p \in Nat, s \in 0 .. L - 1 : r = (L * p) + s /\ s = r % L
  <2>1. r \div L \in Nat /\ r % L \in 0 .. L - 1 /\ r = (L * (r \div L)) + (r % L)
    BY Division
  <2> QED
    BY <2>1
<1>5. (m * q) \in Int /\ (m * q) + p \in Int
  OBVIOUS
<1>6. a = (L * ((m * q) + p)) + s
  <2>1. (m * L) * q = L * (m * q)
    BY Products
  <2>2. L * ((m * q) + p) = (L * (m * q)) + (L * p)
    BY <1>5, Products
  <2>3. PICK x \in Int, y \in Int : x = L * (m * q) /\ y = L * p
    BY <1>5
  <2>4. a = x + r /\ r = y + s
    BY <1>2, <1>3, <1>4, <2>1, <2>3
  <2>5. L * ((m * q) + p) = x + y
    BY <2>2, <2>3
  <2> HIDE <1>2, <1>3, <1>4
  <2> QED
    BY <2>4, <2>5
<1>7. a % L = s
  BY <1>5, <1>6, Remainder
<1> QED
  BY <1>2, <1>3, <1>4, <1>7

-----------------------------------------------------------------------------
Pairs == Nat \X Nat

Rank(C, c) == Cardinality({d \in C : Precedes(d, c)})

(* The order of the cells is strict and total.                             *)
LEMMA PrecedesIsAnOrder ==
  ASSUME NEW c \in Pairs, NEW d \in Pairs, NEW e \in Pairs
  PROVE  /\ ~ Precedes(c, c)
         /\ (Precedes(c, d) /\ Precedes(d, e) => Precedes(c, e))
         /\ (c = d \/ Precedes(c, d) \/ Precedes(d, c))
         /\ ~ (Precedes(c, d) /\ Precedes(d, c))
BY DEF Pairs, Precedes

(* Of finitely many cells, each has as many before it as its place says.   *)
LEMMA RanksAreNumbers ==
  ASSUME NEW C \in SUBSET Pairs, IsFiniteSet(C)
  PROVE  /\ Cardinality(C) \in Nat
         /\ \A c \in C : Rank(C, c) \in 0 .. Cardinality(C) - 1
         /\ \A c, d \in C : Precedes(c, d) => Rank(C, c) < Rank(C, d)
<1>1. Cardinality(C) \in Nat
  BY FS_CardinalityType
<1>2. ASSUME NEW c \in C
      PROVE  Rank(C, c) \in 0 .. Cardinality(C) - 1
  <2> DEFINE below == {d \in C : Precedes(d, c)}
  <2>1. below \subseteq C /\ c \notin below
    BY PrecedesIsAnOrder
  <2>2. Rank(C, c) = Cardinality(below)
    BY DEF Rank
  <2> HIDE DEF below
  <2>3. IsFiniteSet(below) /\ Cardinality(below) <= Cardinality(C)
        /\ (Cardinality(C) = Cardinality(below) => C = below)
    BY <2>1, FS_Subset
  <2>4. Cardinality(below) \in Nat
    BY <2>3, FS_CardinalityType
  <2> QED
    BY <1>1, <2>1, <2>2, <2>3, <2>4
<1>3. ASSUME NEW c \in C, NEW d \in C, Precedes(c, d)
      PROVE  Rank(C, c) < Rank(C, d)
  <2> DEFINE before == {e \in C : Precedes(e, c)}
             below == {e \in C : Precedes(e, d)}
  <2>1. before \subseteq below /\ below \subseteq C /\ c \in below /\ c \notin before
    BY <1>3, PrecedesIsAnOrder
  <2>2. Rank(C, c) = Cardinality(before) /\ Rank(C, d) = Cardinality(below)
    BY DEF Rank
  <2> HIDE DEF before, below
  <2>3. IsFiniteSet(below)
    BY <2>1, FS_Subset
  <2>4. Cardinality(before) <= Cardinality(below)
        /\ (Cardinality(below) = Cardinality(before) => below = before)
    BY <2>1, <2>3, FS_Subset
  <2> QED
    BY <1>2, <2>1, <2>2, <2>4
<1> QED
  BY <1>1, <1>2, <1>3

(* InOrder lists each of finitely many cells once, in their order.         *)
LEMMA InOrderLists ==
  ASSUME NEW C \in SUBSET Pairs, IsFiniteSet(C)
  PROVE  /\ InOrder(C) \in Seq(C) /\ Len(InOrder(C)) = Cardinality(C)
         /\ \A n \in DOMAIN InOrder(C) : Rank(C, InOrder(C)[n]) = n - 1
         /\ \A c \in C : \E n \in DOMAIN InOrder(C) : InOrder(C)[n] = c
<1> DEFINE N == Cardinality(C)
           rank == [c \in C |-> Rank(C, c) + 1]
<1>1. N \in Nat
  BY RanksAreNumbers
<1>2. rank \in [C -> 1 .. N] /\ \A c, d \in C : rank[c] = rank[d] => c = d
  <2>1. \A c \in C : Rank(C, c) \in 0 .. N - 1
    BY RanksAreNumbers
  <2>2. rank \in [C -> 1 .. N]
    BY <1>1, <2>1
  <2>3. ASSUME NEW c \in C, NEW d \in C, rank[c] = rank[d], c # d
        PROVE  FALSE
    <3>1. Precedes(c, d) \/ Precedes(d, c)
      BY <2>3, PrecedesIsAnOrder
    <3>2. Rank(C, c) < Rank(C, d) \/ Rank(C, d) < Rank(C, c)
      BY <3>1, RanksAreNumbers
    <3> QED
      BY <2>1, <2>3, <3>2
  <2> QED
    BY <2>2, <2>3
<1> HIDE DEF rank, N
<1>3. IsFiniteSet(1 .. N) /\ Cardinality(1 .. N) = N
  BY <1>1, FS_Interval
<1>4. rank \in Injection(C, 1 .. N)
  BY <1>2 DEF Injection, IsInjective
<1>5. rank \in Surjection(C, 1 .. N)
  BY <1>3, <1>4, FS_Injection DEF N
<1>6. \A n \in 1 .. N : \E c \in C : Rank(C, c) = n - 1
  <2> TAKE n \in 1 .. N
  <2>1. PICK c \in C : rank[c] = n
    BY <1>5 DEF Surjection
  <2>2. Rank(C, c) \in 0 .. Cardinality(C) - 1
    BY RanksAreNumbers
  <2>3. Rank(C, c) \in Int /\ rank[c] = Rank(C, c) + 1
    BY <2>2 DEF rank
  <2>4. Rank(C, c) = n - 1
    BY <2>1, <2>3
  <2> QED
    BY <2>4
<1>7. InOrder(C) = [n \in 1 .. N |-> CHOOSE c \in C : Rank(C, c) = n - 1]
  BY DEF InOrder, Rank, N
<1>8. \A n \in 1 .. N : InOrder(C)[n] \in C /\ Rank(C, InOrder(C)[n]) = n - 1
  BY <1>6, <1>7
<1>9. InOrder(C) \in [1 .. N -> C]
  BY <1>7, <1>8
<1>10. InOrder(C) \in Seq(C) /\ Len(InOrder(C)) = N
  BY <1>1, <1>9, SeqDef
<1>11. ASSUME NEW c \in C
       PROVE  \E n \in 1 .. N : InOrder(C)[n] = c
  <2>1. PICK n \in 1 .. N : n = rank[c]
    BY <1>2
  <2>2. PICK d \in C : d = InOrder(C)[n] /\ Rank(C, d) = n - 1
    BY <1>8
  <2>3. rank[d] = n
    BY <1>1, <2>2 DEF rank
  <2> QED
    BY <1>2, <2>1, <2>2, <2>3
<1>12. DOMAIN InOrder(C) = 1 .. N
  BY <1>9
<1> QED
  BY <1>8, <1>10, <1>11, <1>12 DEF N

(* A list that has each of the cells, in their order, is theirs.           *)
LEMMA OnlyOneOrder ==
  ASSUME NEW C \in SUBSET Pairs, NEW N \in Nat, NEW s \in [1 .. N -> C],
         \A m, n \in 1 .. N : m < n => Precedes(s[m], s[n]),
         \A c \in C : \E n \in 1 .. N : s[n] = c
  PROVE  IsFiniteSet(C) /\ InOrder(C) = s
<1>1. s \in Bijection(1 .. N, C)
  <2>1. ASSUME NEW m \in 1 .. N, NEW n \in 1 .. N, s[m] = s[n], m # n
        PROVE  FALSE
    <3>1. Precedes(s[m], s[m])
      <4>1. m < n \/ n < m
        BY <2>1
      <4> QED
        BY <2>1, <4>1
    <3> QED
      BY <3>1, PrecedesIsAnOrder
  <2> QED
    BY <2>1 DEF Bijection, Injection, Surjection, IsInjective
<1>2. IsFiniteSet(1 .. N) /\ Cardinality(1 .. N) = N
  BY FS_Interval
<1>3. ExistsBijection(1 .. N, C)
  BY <1>1 DEF ExistsBijection
<1>4. IsFiniteSet(C) /\ Cardinality(C) = N
  BY <1>2, <1>3, FS_Bijection
<1>5. ASSUME NEW n \in 1 .. N
      PROVE  Rank(C, s[n]) = n - 1
  <2> DEFINE below == {d \in C : Precedes(d, s[n])}
             first == [m \in 1 .. n - 1 |-> s[m]]
  <2>1. \A m \in 1 .. N : Precedes(s[m], s[n]) <=> m < n
    <3> TAKE m \in 1 .. N
    <3>1. m < n \/ m = n \/ n < m
      OBVIOUS
    <3> QED
      BY <3>1, PrecedesIsAnOrder
  <2>2. first \in [1 .. n - 1 -> below]
    BY <2>1
  <2>3. \A d \in below : \E m \in 1 .. n - 1 : first[m] = d
    BY <2>1
  <2>4. \A m, k \in 1 .. n - 1 : first[m] = first[k] => m = k
    BY <1>1 DEF Bijection, Injection, IsInjective
  <2>5. Rank(C, s[n]) = Cardinality(below)
    BY DEF Rank
  <2> HIDE DEF below, first
  <2>6. first \in Bijection(1 .. n - 1, below)
    BY <2>2, <2>3, <2>4 DEF Bijection, Injection, Surjection, IsInjective
  <2>7. IsFiniteSet(1 .. n - 1) /\ Cardinality(1 .. n - 1) = n - 1
    BY FS_Interval
  <2>8. Cardinality(below) = n - 1
    BY <2>6, <2>7, FS_Bijection DEF ExistsBijection
  <2> QED
    BY <2>5, <2>8
<1>6. InOrder(C) \in Seq(C) /\ Len(InOrder(C)) = N
      /\ \A n \in DOMAIN InOrder(C) : Rank(C, InOrder(C)[n]) = n - 1
  BY <1>4, InOrderLists
<1>7. ASSUME NEW n \in 1 .. N
      PROVE  InOrder(C)[n] = s[n]
  <2>1. InOrder(C)[n] \in C /\ Rank(C, InOrder(C)[n]) = n - 1
    <3>1. n \in DOMAIN InOrder(C) /\ n \in 1 .. Len(InOrder(C))
      BY <1>6
    <3>2. Rank(C, InOrder(C)[n]) = n - 1
      BY <1>6, <3>1
    <3> QED
      BY <1>6, <3>1, <3>2, ElementOfSeq
  <2>2. PICK m \in 1 .. N : s[m] = InOrder(C)[n]
    BY <2>1
  <2>3. Rank(C, s[m]) = m - 1
    BY <1>5
  <2>4. m = n
    BY <2>1, <2>2, <2>3
  <2> QED
    BY <2>2, <2>4
<1>8. InOrder(C) \in [1 .. N -> C]
  BY <1>6
<1> QED
  BY <1>4, <1>7, <1>8

(* The later in the list, the later in the order.                          *)
LEMMA InOrderAscends ==
  ASSUME NEW C \in SUBSET Pairs, IsFiniteSet(C),
         NEW m \in DOMAIN InOrder(C), NEW n \in DOMAIN InOrder(C)
  PROVE  m < n <=> Precedes(InOrder(C)[m], InOrder(C)[n])
<1> DEFINE c == InOrder(C)[m]
           d == InOrder(C)[n]
<1>1. m \in Nat /\ n \in Nat /\ c \in C /\ d \in C /\ Rank(C, c) = m - 1 /\ Rank(C, d) = n - 1
  BY InOrderLists
<1> HIDE DEF c, d
<1>2. Precedes(c, d) => m < n
  BY <1>1, RanksAreNumbers
<1>3. m < n => Precedes(c, d)
  <2>1. Precedes(d, c) => n < m
    BY <1>1, RanksAreNumbers
  <2>2. c = d \/ Precedes(c, d) \/ Precedes(d, c)
    BY <1>1, PrecedesIsAnOrder
  <2> QED
    BY <1>1, <2>1, <2>2
<1> QED
  BY <1>2, <1>3 DEF c, d

(* Cells that move and keep their order are listed as before.              *)
LEMMA MovedCellsInOrder ==
  ASSUME NEW C \in SUBSET Pairs, IsFiniteSet(C), NEW D \in SUBSET Pairs,
         NEW f \in [C -> D],
         \A c, d \in C : Precedes(c, d) => Precedes(f[c], f[d]),
         \A d \in D : \E c \in C : f[c] = d
  PROVE  IsFiniteSet(D) /\ InOrder(D) = [m \in 1 .. Cardinality(C) |-> f[InOrder(C)[m]]]
<1> DEFINE N == Cardinality(C)
           s == InOrder(C)
           moved == [m \in 1 .. N |-> f[s[m]]]
<1>1. N \in Nat /\ s \in [1 .. N -> C]
  <2>1. s \in Seq(C) /\ Len(s) = N
    BY InOrderLists
  <2> QED
    BY <2>1
<1>2. \A m, n \in 1 .. N : m < n => Precedes(s[m], s[n])
  BY <1>1, InOrderAscends
<1>3. \A c \in C : \E n \in 1 .. N : s[n] = c
  <2>1. DOMAIN s = 1 .. N
    BY <1>1
  <2>2. \A c \in C : \E n \in DOMAIN s : s[n] = c
    BY InOrderLists
  <2> HIDE DEF s, N
  <2> QED
    BY <2>1, <2>2
<1> HIDE DEF N, s
<1>4. moved \in [1 .. N -> D]
  BY <1>1
<1>5. \A m, n \in 1 .. N : m < n => Precedes(moved[m], moved[n])
  BY <1>1, <1>2
<1>6. ASSUME NEW d \in D
      PROVE  \E n \in 1 .. N : moved[n] = d
  <2>1. PICK c \in C : f[c] = d
    OBVIOUS
  <2>2. PICK n \in 1 .. N : s[n] = c
    BY <1>3
  <2> QED
    BY <2>1, <2>2
<1> HIDE DEF moved
<1>7. IsFiniteSet(D) /\ InOrder(D) = moved
  <2>1. N \in Nat
    BY <1>1
  <2>2. \A d \in D : \E n \in 1 .. N : moved[n] = d
    BY <1>6
  <2> QED
    BY <1>4, <1>5, <2>1, <2>2, OnlyOneOrder
<1> QED
  BY <1>7 DEF moved, N, s

(* A cell after all others is listed last.                                 *)
LEMMA LastCellInOrder ==
  ASSUME NEW C \in SUBSET Pairs, IsFiniteSet(C), NEW c \in Pairs,
         \A d \in C : Precedes(d, c)
  PROVE  InOrder(C \union {c}) = Append(InOrder(C), c)
<1> DEFINE N == Cardinality(C)
           s == InOrder(C)
           D == C \union {c}
           longer == Append(s, c)
<1>1. N \in Nat /\ s \in Seq(C) /\ Len(s) = N
  BY InOrderLists, FS_CardinalityType
<1>2. \A m, n \in 1 .. N : m < n => Precedes(s[m], s[n])
  BY <1>1, InOrderAscends
<1>3. \A d \in C : \E n \in 1 .. N : s[n] = d
  <2>1. DOMAIN s = 1 .. N
    BY <1>1
  <2>2. \A d \in C : \E n \in DOMAIN s : s[n] = d
    BY InOrderLists
  <2> HIDE DEF s, N
  <2> QED
    BY <2>1, <2>2
<1>4. D \in SUBSET Pairs /\ C \subseteq D /\ c \in D
  OBVIOUS
<1> HIDE DEF N, s, D
<1>5. s \in Seq(D) /\ longer \in Seq(D) /\ Len(longer) = N + 1
      /\ longer[N + 1] = c /\ \A n \in 1 .. N : longer[n] = s[n] /\ s[n] \in C
  <2>1. s \in Seq(D)
    BY <1>1, <1>4, SeqMonotonic
  <2>2. \A n \in 1 .. N : s[n] \in C
    BY <1>1
  <2> QED
    BY <1>1, <1>4, <2>1, <2>2, AppendProperties
<1> HIDE DEF longer
<1>6. longer \in [1 .. N + 1 -> D] /\ N + 1 \in Nat
  BY <1>1, <1>5
<1>7. \A m, n \in 1 .. N + 1 : m < n => Precedes(longer[m], longer[n])
  <2> SUFFICES ASSUME NEW m \in 1 .. N + 1, NEW n \in 1 .. N + 1, m < n
               PROVE  Precedes(longer[m], longer[n])
    OBVIOUS
  <2>1. CASE n = N + 1
    BY <1>1, <1>5, <2>1
  <2>2. CASE n # N + 1
    BY <1>1, <1>2, <1>5, <2>2
  <2> QED
    BY <2>1, <2>2
<1>8. ASSUME NEW d \in D
      PROVE  \E n \in 1 .. N + 1 : longer[n] = d
  <2>1. CASE d = c
    BY <1>1, <1>5, <2>1
  <2>2. CASE d # c
    <3>1. PICK n \in 1 .. N : s[n] = d
      BY <1>3, <2>2 DEF D
    <3> QED
      BY <1>1, <1>5, <3>1
  <2> QED
    BY <2>1, <2>2
<1>9. InOrder(D) = longer
  BY <1>4, <1>6, <1>7, <1>8, OnlyOneOrder
<1> QED
  BY <1>9 DEF D, longer, s

(* The cell that is first in the list is the one before all others; without *)
(* it the list is the rest.                                                *)
LEMMA FirstCellInOrder ==
  ASSUME NEW C \in SUBSET Pairs, IsFiniteSet(C), NEW c \in C,
         \A d \in C : ~ Precedes(d, c)
  PROVE  /\ InOrder(C) # <<>> /\ InOrder(C)[1] = c
         /\ InOrder(C \ {c}) = Tail(InOrder(C))
<1> DEFINE N == Cardinality(C)
           s == InOrder(C)
           D == C \ {c}
           rest == Tail(s)
<1>1. N \in Nat /\ s \in Seq(C) /\ Len(s) = N
  BY InOrderLists, FS_CardinalityType
<1>2. \A m, n \in 1 .. N : m < n <=> Precedes(s[m], s[n])
  BY <1>1, InOrderAscends
<1>3. \A d \in C : \E n \in 1 .. N : s[n] = d
  <2>1. DOMAIN s = 1 .. N
    BY <1>1
  <2>2. \A d \in C : \E n \in DOMAIN s : s[n] = d
    BY InOrderLists
  <2> HIDE DEF s, N
  <2> QED
    BY <2>1, <2>2
<1>4. D \in SUBSET Pairs
  OBVIOUS
<1> HIDE DEF N, s
<1>5. 1 \in 1 .. N /\ s[1] = c
  <2>1. PICK n \in 1 .. N : s[n] = c
    BY <1>3
  <2>2. 1 \in 1 .. N /\ s[1] \in C
    BY <1>1, <2>1
  <2>3. ~ Precedes(s[1], s[n])
    BY <2>1, <2>2
  <2>4. n = 1
    BY <1>2, <2>2, <2>3
  <2> QED
    BY <2>1, <2>4
<1>6. s # <<>>
  BY <1>1, <1>5
<1>7. rest \in Seq(C) /\ Len(rest) = N - 1 /\ \A n \in 1 .. N - 1 : rest[n] = s[n + 1]
  BY <1>1, <1>6, HeadTailProperties
<1> HIDE DEF rest
<1>8. \A n \in 1 .. N - 1 : rest[n] \in D
  <2> SUFFICES ASSUME NEW n \in 1 .. N - 1
               PROVE  rest[n] \in D
    OBVIOUS
  <2>1. n + 1 \in 1 .. N /\ rest[n] = s[n + 1] /\ 1 < n + 1
    BY <1>1, <1>7
  <2>2. s[n + 1] \in C /\ Precedes(s[1], s[n + 1])
    BY <1>1, <1>2, <1>5, <2>1
  <2>3. s[n + 1] # c
    BY <1>5, <2>2, PrecedesIsAnOrder
  <2> QED
    BY <2>1, <2>2, <2>3
<1> HIDE DEF D
<1>9. rest \in [1 .. N - 1 -> D] /\ N - 1 \in Nat
  BY <1>1, <1>5, <1>7, <1>8
<1>10. \A m, n \in 1 .. N - 1 : m < n => Precedes(rest[m], rest[n])
  <2> SUFFICES ASSUME NEW m \in 1 .. N - 1, NEW n \in 1 .. N - 1, m < n
               PROVE  Precedes(rest[m], rest[n])
    OBVIOUS
  <2>1. m + 1 \in 1 .. N /\ n + 1 \in 1 .. N /\ m + 1 < n + 1
    BY <1>1
  <2> QED
    BY <1>2, <1>7, <2>1
<1>11. ASSUME NEW d \in D
       PROVE  \E n \in 1 .. N - 1 : rest[n] = d
  <2>1. PICK n \in 1 .. N : s[n] = d
    BY <1>3 DEF D
  <2>2. n # 1
    BY <1>5, <2>1 DEF D
  <2>3. n - 1 \in 1 .. N - 1 /\ rest[n - 1] = s[n]
    BY <1>1, <1>7, <2>2
  <2> QED
    BY <2>1, <2>3
<1>12. InOrder(D) = rest
  BY <1>4, <1>9, <1>10, <1>11, OnlyOneOrder
<1> QED
  BY <1>5, <1>6, <1>12 DEF D, rest, s

-----------------------------------------------------------------------------
(* The same operators for any table.                                       *)
CellsOf(table) == UNION {{i} \X DOMAIN table[i] : i \in DOMAIN table}
CellsWith(table, k) == {c \in CellsOf(table) : table[c[1]][c[2]].key = k}
ValuesIn(table, k) ==
  [m \in DOMAIN InOrder(CellsWith(table, k)) |->
     table[InOrder(CellsWith(table, k))[m][1]][InOrder(CellsWith(table, k))[m][2]].value]

ElementsIn(table) == Cardinality(CellsOf(table))

Tables(n) == [0 .. n - 1 -> Seq(Elements)]

(* The cells of a table are finitely many pairs, one for each element.     *)
LEMMA CellsAreFinite ==
  ASSUME NEW n \in Nat, NEW table \in Tables(n)
  PROVE  /\ CellsOf(table) \in SUBSET Pairs /\ IsFiniteSet(CellsOf(table))
         /\ \A i, p : <<i, p>> \in CellsOf(table) <=> i \in 0 .. n - 1 /\ p \in 1 .. Len(table[i])
         /\ \A c \in Pairs : c \in CellsOf(table) <=> c[1] \in 0 .. n - 1 /\ c[2] \in 1 .. Len(table[c[1]])
         /\ \A c \in CellsOf(table) :
              /\ c = <<c[1], c[2]>> /\ c[1] \in 0 .. n - 1 /\ c[2] \in 1 .. Len(table[c[1]])
              /\ table[c[1]][c[2]] \in Elements
<1> DEFINE rows == {{i} \X DOMAIN table[i] : i \in 0 .. n - 1}
           row == [i \in 0 .. n - 1 |-> {i} \X DOMAIN table[i]]
<1>1. CellsOf(table) = UNION rows
  BY DEF CellsOf, Tables
<1>2. ASSUME NEW i \in 0 .. n - 1
      PROVE  table[i] \in Seq(Elements) /\ DOMAIN table[i] = 1 .. Len(table[i]) /\ Len(table[i]) \in Nat
  BY DEF Tables
<1>3. ASSUME NEW i \in 0 .. n - 1
      PROVE  IsFiniteSet({i} \X DOMAIN table[i])
  <2>1. IsFiniteSet({i})
    BY FS_Singleton
  <2>2. IsFiniteSet(DOMAIN table[i])
    <3>1. PICK m \in Nat : DOMAIN table[i] = 1 .. m
      BY <1>2
    <3>2. IsFiniteSet(1 .. m)
      BY FS_Interval
    <3> QED
      BY <3>1, <3>2
  <2> QED
    BY <2>1, <2>2, FS_Product
<1>4. IsFiniteSet(rows)
  <2>1. row \in Surjection(0 .. n - 1, rows)
    <3>1. row \in [0 .. n - 1 -> rows]
      OBVIOUS
    <3>2. \A r \in rows : \E i \in 0 .. n - 1 : row[i] = r
      OBVIOUS
    <3> QED
      BY <3>1, <3>2 DEF Surjection
  <2>2. IsFiniteSet(0 .. n - 1)
    BY FS_Interval
  <2> HIDE DEF row, rows
  <2> QED
    BY <2>1, <2>2, FS_Surjection
<1>5. IsFiniteSet(UNION rows)
  <2>1. \A T \in rows : IsFiniteSet(T)
    BY <1>3
  <2> HIDE DEF rows
  <2> QED
    BY <1>4, <2>1, FS_UNION
<1>6. ASSUME NEW i, NEW p
      PROVE  <<i, p>> \in UNION rows <=> i \in 0 .. n - 1 /\ p \in 1 .. Len(table[i])
  BY <1>2
<1>7. ASSUME NEW c \in UNION rows
      PROVE  /\ c = <<c[1], c[2]>> /\ c[1] \in 0 .. n - 1 /\ c[2] \in 1 .. Len(table[c[1]])
             /\ table[c[1]][c[2]] \in Elements /\ c \in Pairs
  <2>1. PICK i \in 0 .. n - 1 : c \in {i} \X DOMAIN table[i]
    OBVIOUS
  <2>2. c = <<c[1], c[2]>> /\ c[1] = i /\ c[2] \in 1 .. Len(table[i])
    BY <1>2, <2>1
  <2>3. table[i][c[2]] \in Elements
    BY <1>2, <2>2
  <2> QED
    BY <2>2, <2>3 DEF Pairs
<1>8. ASSUME NEW c \in Pairs
      PROVE  c \in UNION rows <=> c[1] \in 0 .. n - 1 /\ c[2] \in 1 .. Len(table[c[1]])
  <2>1. c = <<c[1], c[2]>>
    BY DEF Pairs
  <2> QED
    BY <1>6, <2>1
<1> HIDE DEF rows
<1> QED
  BY <1>1, <1>5, <1>6, <1>7, <1>8

(* So are those with the key k, which can be put in order.                 *)
LEMMA CellsWithAreFinite ==
  ASSUME NEW n \in Nat, NEW table \in Tables(n), NEW k
  PROVE  /\ CellsWith(table, k) \in SUBSET Pairs /\ IsFiniteSet(CellsWith(table, k))
         /\ InOrder(CellsWith(table, k)) \in Seq(CellsWith(table, k))
         /\ ValuesIn(table, k) \in Seq(Values)
         /\ Len(ValuesIn(table, k)) = Len(InOrder(CellsWith(table, k)))
<1>1. CellsWith(table, k) \subseteq CellsOf(table)
  BY DEF CellsWith
<1>2. CellsWith(table, k) \in SUBSET Pairs /\ IsFiniteSet(CellsWith(table, k))
  BY <1>1, CellsAreFinite, FS_Subset
<1> DEFINE s == InOrder(CellsWith(table, k))
<1>3. s \in Seq(CellsWith(table, k))
  BY <1>2, InOrderLists
<1>4. ValuesIn(table, k) = [m \in DOMAIN s |-> table[s[m][1]][s[m][2]].value]
  BY DEF ValuesIn
<1> HIDE DEF s
<1>5. Len(s) \in Nat /\ DOMAIN s = 1 .. Len(s)
  BY <1>3, LenProperties
<1>6. ASSUME NEW m \in DOMAIN s
      PROVE  table[s[m][1]][s[m][2]].value \in Values
  <2>1. s[m] \in CellsOf(table)
    BY <1>1, <1>3, <1>5
  <2>2. table[s[m][1]][s[m][2]] \in Elements
    BY <2>1, CellsAreFinite
  <2> QED
    BY <2>2 DEF Elements
<1>7. ValuesIn(table, k) \in [1 .. Len(s) -> Values]
  BY <1>4, <1>5, <1>6
<1>8. ValuesIn(table, k) \in Seq(Values) /\ Len(ValuesIn(table, k)) = Len(s)
  BY <1>5, <1>7, SeqDef
<1> QED
  BY <1>2, <1>3, <1>8 DEF s

(* When the elements of a key move and keep their order, the key keeps its *)
(* values.                                                                 *)
LEMMA MovedElementsKeepValues ==
  ASSUME NEW n \in Nat, NEW table \in Tables(n), NEW n2 \in Nat, NEW table2 \in Tables(n2), NEW k,
         NEW f \in [CellsWith(table, k) -> CellsWith(table2, k)],
         \A c, d \in CellsWith(table, k) : Precedes(c, d) => Precedes(f[c], f[d]),
         \A d \in CellsWith(table2, k) : \E c \in CellsWith(table, k) : f[c] = d,
         \A c \in CellsWith(table, k) : table2[f[c][1]][f[c][2]].value = table[c[1]][c[2]].value
  PROVE  ValuesIn(table2, k) = ValuesIn(table, k)
<1> DEFINE C == CellsWith(table, k)
           D == CellsWith(table2, k)
           s == InOrder(C)
<1>1. C \in SUBSET Pairs /\ IsFiniteSet(C) /\ D \in SUBSET Pairs
  BY CellsWithAreFinite
<1>2. s \in Seq(C) /\ Len(s) = Cardinality(C)
  BY <1>1, InOrderLists
<1>3. InOrder(D) = [m \in 1 .. Cardinality(C) |-> f[InOrder(C)[m]]]
  <2> HIDE DEF C, D
  <2> QED
    BY <1>1, MovedCellsInOrder DEF C, D
<1>4. ValuesIn(table, k) = [m \in DOMAIN s |-> table[s[m][1]][s[m][2]].value]
  BY DEF ValuesIn
<1>5. ValuesIn(table2, k) = [m \in DOMAIN InOrder(D) |-> table2[InOrder(D)[m][1]][InOrder(D)[m][2]].value]
  BY DEF ValuesIn
<1>6. DOMAIN s = 1 .. Cardinality(C)
  BY <1>2
<1>7. \A c \in C : table2[f[c][1]][f[c][2]].value = table[c[1]][c[2]].value
  OBVIOUS
<1> HIDE DEF C, D, s
<1>8. DOMAIN InOrder(D) = DOMAIN s /\ \A m \in DOMAIN s : InOrder(D)[m] = f[s[m]] /\ s[m] \in C
  BY <1>2, <1>3, <1>6 DEF s
<1> QED
  BY <1>4, <1>5, <1>7, <1>8

-----------------------------------------------------------------------------
(* Every element is in the bucket of its key.                              *)
InPlace(n, table) ==
  \A c \in CellsOf(table) : Hash[table[c[1]][c[2]].key] % n = c[1]

PlacesIn(n, table, k) ==
  {p \in DOMAIN table[Hash[k] % n] : table[Hash[k] % n][p].key = k}

(* The hash of a key leads to a bucket.                                    *)
LEMMA KeyHasBucket ==
  ASSUME NEW n \in Nat \ {0}, NEW k \in Keys
  PROVE  Hash[k] \in Nat /\ Hash[k] % n \in 0 .. n - 1
<1>1. Hash[k] \in Nat
  BY MapAssumption
<1> QED
  BY <1>1, Division

(* In a table where elements are found, all those with a key are in the    *)
(* bucket of the key.                                                      *)
LEMMA CellsOfKey ==
  ASSUME NEW n \in Nat \ {0}, NEW table \in Tables(n), InPlace(n, table), NEW k \in Keys
  PROVE  /\ \A c \in CellsWith(table, k) : c = <<Hash[k] % n, c[2]>> /\ c[2] \in PlacesIn(n, table, k)
         /\ \A p \in PlacesIn(n, table, k) : <<Hash[k] % n, p>> \in CellsWith(table, k)
<1>1. ASSUME NEW c \in CellsWith(table, k)
      PROVE  c = <<Hash[k] % n, c[2]>> /\ c[2] \in PlacesIn(n, table, k)
  <2>1. c \in CellsOf(table) /\ table[c[1]][c[2]].key = k
    BY DEF CellsWith
  <2>2. c = <<c[1], c[2]>> /\ c[1] \in 0 .. n - 1 /\ c[2] \in 1 .. Len(table[c[1]])
    BY <2>1, CellsAreFinite
  <2>3. Hash[k] % n = c[1]
    BY <2>1 DEF InPlace
  <2>4. DOMAIN table[c[1]] = 1 .. Len(table[c[1]])
    BY <2>2 DEF Tables
  <2> QED
    BY <2>1, <2>2, <2>3, <2>4 DEF PlacesIn
<1>2. ASSUME NEW p \in PlacesIn(n, table, k)
      PROVE  <<Hash[k] % n, p>> \in CellsWith(table, k)
  <2>1. PICK i \in 0 .. n - 1 : i = Hash[k] % n
    BY KeyHasBucket
  <2>2. p \in 1 .. Len(table[i]) /\ table[i][p].key = k
    BY <2>1 DEF PlacesIn, Tables
  <2>3. <<i, p>> \in CellsOf(table)
    BY <2>2, CellsAreFinite
  <2> QED
    BY <2>1, <2>2, <2>3 DEF CellsWith
<1> QED
  BY <1>1, <1>2

(* The first place in the bucket has the key's first value.                *)
LEMMA FirstPlaceHasFirstValue ==
  ASSUME NEW n \in Nat \ {0}, NEW table \in Tables(n), InPlace(n, table), NEW k \in Keys
  PROVE  LET i == Hash[k] % n
             p == Min(PlacesIn(n, table, k))
         IN  /\ PlacesIn(n, table, k) = {} => ValuesIn(table, k) = <<>>
             /\ PlacesIn(n, table, k) # {} =>
                  /\ p \in PlacesIn(n, table, k) /\ p \in 1 .. Len(table[i])
                  /\ \A q \in PlacesIn(n, table, k) : p <= q
                  /\ ValuesIn(table, k) # <<>>
                  /\ Head(ValuesIn(table, k)) = table[i][p].value
                  /\ table[i][p].value \in Values
                  /\ InOrder(CellsWith(table, k) \ {<<i, p>>}) = Tail(InOrder(CellsWith(table, k)))
<1> DEFINE i == Hash[k] % n
           P == PlacesIn(n, table, k)
           C == CellsWith(table, k)
           s == InOrder(C)
<1>1. i \in 0 .. n - 1
  BY KeyHasBucket
<1>2. table[i] \in Seq(Elements) /\ P \subseteq 1 .. Len(table[i]) /\ Len(table[i]) \in Nat
  BY <1>1 DEF Tables, PlacesIn
<1>3. C \in SUBSET Pairs /\ IsFiniteSet(C) /\ s \in Seq(C)
  BY CellsWithAreFinite
<1>4. /\ \A c \in C : c = <<i, c[2]>> /\ c[2] \in P
      /\ \A p \in P : <<i, p>> \in C
  BY CellsOfKey
<1>5. ValuesIn(table, k) = [m \in DOMAIN s |-> table[s[m][1]][s[m][2]].value]
  BY DEF ValuesIn
<1>6. CASE P = {}
  <2>1. C = {}
    BY <1>4, <1>6
  <2>2. s = <<>>
    BY <1>3, <2>1
  <2>3. ValuesIn(table, k) \in Seq(Values) /\ Len(ValuesIn(table, k)) = Len(s)
    BY CellsWithAreFinite
  <2>4. ValuesIn(table, k) = <<>>
    <3> HIDE DEF s
    <3> QED
      BY <2>2, <2>3
  <2> QED
    BY <1>6, <2>4
<1>7. CASE P # {}
  <2> DEFINE p == Min(P)
  <2>1. p \in P /\ \A q \in P : p <= q
    <3>1. \E x \in P : \A y \in P : x <= y
      <4>1. PICK q \in P : <<i, q>> \in C
        BY <1>4, <1>7
      <4>2. PICK m \in DOMAIN s : s[m] = <<i, q>>
        BY <1>3, <4>1, InOrderLists
      <4>3. 1 \in DOMAIN s /\ s[1] \in C /\ m >= 1
        <5>1. DOMAIN s = 1 .. Len(s) /\ Len(s) \in Nat
          BY <1>3, LenProperties
        <5>2. 1 \in DOMAIN s /\ m >= 1
          BY <4>2, <5>1
        <5> HIDE DEF s, C
        <5> QED
          BY <1>3, <5>1, <5>2, ElementOfSeq
      <4>4. ASSUME NEW y \in P
            PROVE  s[1][2] <= y
        <5>1. <<i, y>> \in C
          BY <1>4
        <5>2. PICK o \in DOMAIN s : s[o] = <<i, y>>
          BY <1>3, <5>1, InOrderLists
        <5>3. o \in Nat /\ 1 <= o
          BY <1>3, <5>2, LenProperties
        <5>4. ~ Precedes(<<i, y>>, s[1])
          <6>1. o < 1 <=> Precedes(s[o], s[1])
            BY <1>3, <4>3, InOrderAscends
          <6> QED
            BY <5>2, <5>3, <6>1
        <5>5. PICK z \in P : s[1] = <<i, z>>
          BY <1>4, <4>3
        <5>6. ~ (y < z)
          BY <5>4, <5>5 DEF Precedes
        <5>7. y \in Nat /\ z \in Nat
          BY <1>2
        <5> QED
          BY <5>5, <5>6, <5>7
      <4>5. s[1][2] \in P
        BY <1>4, <4>3
      <4> QED
        BY <4>4, <4>5
    <3> QED
      BY <3>1 DEF Min
  <2> HIDE DEF p
  <2>2. p \in 1 .. Len(table[i])
    BY <1>2, <2>1
  <2>3. table[i][p] \in Elements
    BY <1>2, <2>2
  <2>4. <<i, p>> \in C
    BY <1>4, <2>1
  <2>5. ASSUME NEW d \in C
        PROVE  ~ Precedes(d, <<i, p>>)
    <3>1. d = <<i, d[2]>> /\ d[2] \in P /\ p <= d[2]
      BY <1>4, <2>1
    <3>2. d[1] = i
      BY <3>1
    <3> QED
      BY <1>1, <1>2, <2>2, <3>1, <3>2 DEF Precedes
  <2>6. s # <<>> /\ s[1] = <<i, p>> /\ InOrder(C \ {<<i, p>>}) = Tail(s)
    <3> HIDE DEF C, i
    <3> QED
      BY <1>3, <2>4, <2>5, FirstCellInOrder
  <2>7. ValuesIn(table, k) \in Seq(Values) /\ Len(ValuesIn(table, k)) = Len(s)
    BY CellsWithAreFinite
  <2>8. Len(s) \in Nat /\ Len(s) # 0 /\ DOMAIN s = 1 .. Len(s)
    <3> HIDE DEF s, C
    <3> QED
      BY <1>3, <2>6
  <2>9. ValuesIn(table, k)[1] = table[i][p].value
    <3> HIDE DEF s, C
    <3> QED
      BY <1>5, <2>6, <2>8
  <2>10. ValuesIn(table, k) # <<>> /\ Head(ValuesIn(table, k)) = table[i][p].value
    <3> HIDE DEF s, C, i
    <3> QED
      BY <2>7, <2>8, <2>9
  <2>11. table[i][p].value \in Values
    BY <2>3 DEF Elements
  <2> QED
    BY <1>7, <2>1, <2>2, <2>6, <2>10, <2>11 DEF p
<1> QED
  BY <1>6, <1>7

-----------------------------------------------------------------------------
(* The m-th value of a key is in its m-th cell.                            *)
LEMMA ValueAt ==
  ASSUME NEW table, NEW k, NEW m \in DOMAIN InOrder(CellsWith(table, k)), NEW c,
         c = InOrder(CellsWith(table, k))[m]
  PROVE  ValuesIn(table, k)[m] = table[c[1]][c[2]].value
BY DEF ValuesIn

(* Cells that stay, with what is in them.                                  *)
LEMMA SameCellsSameValues ==
  ASSUME NEW n \in Nat, NEW table \in Tables(n), NEW n2 \in Nat, NEW table2 \in Tables(n2), NEW k,
         CellsWith(table2, k) = CellsWith(table, k),
         \A c \in CellsWith(table, k) : table2[c[1]][c[2]].value = table[c[1]][c[2]].value
  PROVE  ValuesIn(table2, k) = ValuesIn(table, k)
<1> DEFINE f == [c \in CellsWith(table, k) |-> c]
<1>1. f \in [CellsWith(table, k) -> CellsWith(table2, k)]
  OBVIOUS
<1>2. \A c \in CellsWith(table, k) : f[c] = c
  OBVIOUS
<1> HIDE DEF f
<1> QED
  BY <1>1, <1>2, MovedElementsKeepValues

(* An element at the end of its key's bucket is the key's last value.      *)
LEMMA PushedElement ==
  ASSUME NEW n \in Nat \ {0}, NEW table \in Tables(n), InPlace(n, table),
         NEW k \in Keys, NEW v \in Values, NEW table2 \in Tables(n),
         table2[Hash[k] % n] = Append(table[Hash[k] % n], [key |-> k, value |-> v]),
         \A j \in 0 .. n - 1 : j # Hash[k] % n => table2[j] = table[j]
  PROVE  /\ InPlace(n, table2)
         /\ ValuesIn(table2, k) = Append(ValuesIn(table, k), v)
         /\ \A j \in Keys \ {k} : ValuesIn(table2, j) = ValuesIn(table, j)
         /\ ElementsIn(table2) = ElementsIn(table) + 1
<1> DEFINE e == [key |-> k, value |-> v]
<1>1. PICK i \in 0 .. n - 1 : i = Hash[k] % n
  BY KeyHasBucket
<1>2. e \in Elements /\ e.key = k /\ e.value = v
  BY DEF Elements
<1>3. /\ table2[i] = Append(table[i], e)
      /\ \A j \in 0 .. n - 1 : j # i => table2[j] = table[j]
  BY <1>1
<1> HIDE DEF e
<1>4. PICK z \in Nat : z = Len(table[i]) + 1
  BY DEF Tables
<1>5. /\ Append(table[i], e) \in Seq(Elements) /\ Len(Append(table[i], e)) = z
      /\ Append(table[i], e)[z] = e
      /\ \A p \in 1 .. Len(table[i]) : Append(table[i], e)[p] = table[i][p]
      /\ 1 .. z = (1 .. Len(table[i])) \union {z} /\ z \notin 1 .. Len(table[i])
  <2>1. table[i] \in Seq(Elements) /\ Len(table[i]) \in Nat
    BY DEF Tables
  <2>2. 1 .. z = (1 .. Len(table[i])) \union {z} /\ z \notin 1 .. Len(table[i])
    BY <1>4, <2>1
  <2> QED
    BY <1>2, <1>4, <2>1, <2>2, AppendProperties
<1>6. n \in Nat
  OBVIOUS
<1>7. CellsOf(table2) = CellsOf(table) \union {<<i, z>>} /\ <<i, z>> \notin CellsOf(table)
  <2>1. \A c \in Pairs : c \in CellsOf(table) <=> c[1] \in 0 .. n - 1 /\ c[2] \in 1 .. Len(table[c[1]])
    BY CellsAreFinite
  <2>2. \A c \in Pairs : c \in CellsOf(table2) <=> c[1] \in 0 .. n - 1 /\ c[2] \in 1 .. Len(table2[c[1]])
    BY <1>6, CellsAreFinite
  <2>3. CellsOf(table) \subseteq Pairs /\ CellsOf(table2) \subseteq Pairs /\ <<i, z>> \in Pairs
    BY <1>6, CellsAreFinite DEF Pairs
  <2>4. ASSUME NEW c \in Pairs
        PROVE  c \in CellsOf(table2) <=> c \in CellsOf(table) \/ c = <<i, z>>
    <3>1. CASE c[1] = i
      <4>1. c = <<i, c[2]>>
        BY <3>1 DEF Pairs
      <4>2. c \in CellsOf(table2) <=> c[2] \in 1 .. z
        BY <1>5, <1>3, <2>2, <3>1
      <4>3. c \in CellsOf(table) <=> c[2] \in 1 .. Len(table[i])
        BY <2>1, <3>1
      <4> QED
        BY <1>5, <4>1, <4>2, <4>3
    <3>2. CASE c[1] # i
      <4>1. c # <<i, z>>
        BY <3>2
      <4>2. c[1] \in 0 .. n - 1 => table2[c[1]] = table[c[1]]
        BY <1>3, <3>2
      <4> QED
        BY <2>1, <2>2, <4>1, <4>2
    <3> QED
      BY <3>1, <3>2
  <2>5. <<i, z>> \notin CellsOf(table)
    <3>1. <<i, z>>[1] = i /\ <<i, z>>[2] = z
      OBVIOUS
    <3> QED
      BY <1>5, <2>1, <2>3, <3>1
  <2> QED
    BY <2>3, <2>4, <2>5
<1>8. /\ table2[i][z] = e
      /\ \A c \in CellsOf(table) : table2[c[1]][c[2]] = table[c[1]][c[2]]
  <2>1. ASSUME NEW c \in CellsOf(table)
        PROVE  table2[c[1]][c[2]] = table[c[1]][c[2]]
    <3>1. c[1] \in 0 .. n - 1 /\ c[2] \in 1 .. Len(table[c[1]])
      BY CellsAreFinite
    <3>2. CASE c[1] = i
      BY <1>5, <1>3, <3>1, <3>2
    <3>3. CASE c[1] # i
      BY <1>3, <3>1, <3>3
    <3> QED
      BY <3>2, <3>3
  <2> QED
    BY <1>5, <1>3, <2>1
<1> DEFINE new == <<i, z>>
<1> /\ new[1] = i /\ new[2] = z
  OBVIOUS
<1> HIDE DEF new
<1>9. CellsOf(table2) = CellsOf(table) \union {new} /\ new \notin CellsOf(table)
  BY <1>7 DEF new
<1>10. InPlace(n, table2)
  <2> SUFFICES ASSUME NEW c \in CellsOf(table2)
               PROVE  Hash[table2[c[1]][c[2]].key] % n = c[1]
    BY DEF InPlace
  <2>1. CASE c = new
    BY <1>1, <1>2, <1>8, <2>1
  <2>2. CASE c \in CellsOf(table)
    BY <1>8, <2>2 DEF InPlace
  <2> QED
    BY <1>9, <2>1, <2>2
<1>11. \A j : CellsWith(table2, j) = CellsWith(table, j) \union (IF j = k THEN {new} ELSE {})
  <2> SUFFICES ASSUME NEW j
               PROVE  CellsWith(table2, j) = CellsWith(table, j) \union (IF j = k THEN {new} ELSE {})
    OBVIOUS
  <2>1. \A c : c \in CellsWith(table2, j) <=> c \in CellsOf(table2) /\ table2[c[1]][c[2]].key = j
    BY DEF CellsWith
  <2>2. \A c : c \in CellsWith(table, j) <=> c \in CellsOf(table) /\ table[c[1]][c[2]].key = j
    BY DEF CellsWith
  <2>3. table2[new[1]][new[2]].key = k
    BY <1>2, <1>8
  <2>4. \A c \in CellsOf(table) : table2[c[1]][c[2]].key = table[c[1]][c[2]].key
    BY <1>8
  <2>5. \A c : c \in CellsWith(table2, j) <=> c \in CellsWith(table, j) \/ (c = new /\ j = k)
    BY <1>9, <2>1, <2>2, <2>3, <2>4
  <2> QED
    BY <2>5
<1>12. CellsWith(table2, k) = CellsWith(table, k) \union {<<i, z>>}
  BY <1>11 DEF new
<1>13. ASSUME NEW j \in Keys \ {k}
       PROVE  ValuesIn(table2, j) = ValuesIn(table, j)
  <2>1. CellsWith(table2, j) = CellsWith(table, j)
    BY <1>11
  <2>2. CellsWith(table, j) \subseteq CellsOf(table)
    BY DEF CellsWith
  <2> QED
    <3>1. \A c \in CellsWith(table, j) : table2[c[1]][c[2]].value = table[c[1]][c[2]].value
      BY <1>8, <2>2
    <3>2. n \in Nat /\ table \in Tables(n) /\ table2 \in Tables(n)
      BY <1>6
    <3> QED
      BY <2>1, <3>1, <3>2, SameCellsSameValues
<1>14. ValuesIn(table2, k) = Append(ValuesIn(table, k), v)
  <2> DEFINE C == CellsWith(table, k)
             s == InOrder(C)
             s2 == InOrder(C \union {<<i, z>>})
  <2>1. C \in SUBSET Pairs /\ IsFiniteSet(C) /\ s \in Seq(C) /\ C \subseteq CellsOf(table)
    <3>1. C \in SUBSET Pairs /\ IsFiniteSet(C) /\ s \in Seq(C)
      BY CellsWithAreFinite
    <3>2. C \subseteq CellsOf(table)
      BY DEF CellsWith
    <3> QED
      BY <3>1, <3>2
  <2>2. <<i, z>> \in Pairs /\ z \in Nat
    BY DEF Pairs
  <2>3. ASSUME NEW d \in C
        PROVE  Precedes(d, <<i, z>>)
    <3>1. d = <<i, d[2]>>
      BY <1>1, CellsOfKey
    <3>2. d[1] = i /\ d[2] \in 1 .. Len(table[i])
      BY <2>1, <3>1, CellsAreFinite
    <3>3. d[2] < z
      BY <1>4, <3>2
    <3> QED
      BY <3>2, <3>3 DEF Precedes
  <2> HIDE DEF C
  <2>4. s2 = Append(s, <<i, z>>)
    BY <2>1, <2>2, <2>3, LastCellInOrder
  <2>5. s = InOrder(CellsWith(table, k)) /\ s2 = InOrder(CellsWith(table2, k))
    BY <1>12 DEF C
  <2>6. ValuesIn(table, k) \in Seq(Values) /\ ValuesIn(table2, k) \in Seq(Values)
        /\ Len(ValuesIn(table, k)) = Len(s) /\ Len(ValuesIn(table2, k)) = Len(s2)
    BY <1>6, <2>5, CellsWithAreFinite
  <2> HIDE DEF s, s2
  <2>7. Len(s) \in Nat /\ DOMAIN s = 1 .. Len(s) /\ \A m \in 1 .. Len(s) : s[m] \in C
    BY <2>1
  <2>8. /\ DOMAIN s2 = 1 .. Len(s) + 1
        /\ s2[Len(s) + 1] = <<i, z>>
        /\ \A m \in 1 .. Len(s) : s2[m] = s[m]
    <3>1. s \in Seq(Pairs)
      BY <2>1, SeqMonotonic
    <3> QED
      BY <2>2, <2>4, <3>1, AppendProperties
  <2>9. Len(ValuesIn(table2, k)) = Len(s) + 1
    <3>1. s \in Seq(Pairs)
      BY <2>1, SeqMonotonic
    <3> QED
      BY <2>2, <2>4, <2>6, <3>1, AppendProperties
  <2>10. ValuesIn(table2, k)[Len(s) + 1] = v
    <3>1. Len(s) + 1 \in DOMAIN s2 /\ new = s2[Len(s) + 1]
      BY <2>7, <2>8 DEF new
    <3>2. ValuesIn(table2, k)[Len(s) + 1] = table2[new[1]][new[2]].value
      BY <2>5, <3>1, ValueAt
    <3> QED
      BY <1>2, <1>8, <3>2
  <2>11. ASSUME NEW m \in 1 .. Len(s)
         PROVE  ValuesIn(table2, k)[m] = ValuesIn(table, k)[m]
    <3>1. PICK c \in CellsOf(table) : c = s[m]
      BY <2>1, <2>7
    <3>2. m \in DOMAIN s /\ m \in DOMAIN s2 /\ s2[m] = c
      BY <2>7, <2>8, <3>1
    <3>3. ValuesIn(table2, k)[m] = table2[c[1]][c[2]].value
      BY <2>5, <3>1, <3>2, ValueAt
    <3>4. ValuesIn(table, k)[m] = table[c[1]][c[2]].value
      BY <2>5, <3>1, <3>2, ValueAt
    <3> QED
      BY <1>8, <3>3, <3>4
  <2> DEFINE old == ValuesIn(table, k)
             now == ValuesIn(table2, k)
  <2>12. old \in Seq(Values) /\ now \in Seq(Values) /\ Len(now) = Len(old) + 1
         /\ now[Len(old) + 1] = v /\ \A m \in 1 .. Len(old) : now[m] = old[m]
    BY <2>6, <2>9, <2>10, <2>11
  <2> HIDE DEF old, now
  <2>13. /\ Append(old, v) \in Seq(Values) /\ Len(Append(old, v)) = Len(old) + 1
         /\ Append(old, v)[Len(old) + 1] = v
         /\ \A m \in 1 .. Len(old) : Append(old, v)[m] = old[m]
    BY <2>12, AppendProperties
  <2>14. \A m \in 1 .. Len(now) : now[m] = Append(old, v)[m]
    <3>1. \A m \in 1 .. Len(old) + 1 : m \in 1 .. Len(old) \/ m = Len(old) + 1
      BY <2>12
    <3> QED
      BY <2>12, <2>13, <3>1
  <2>15. now = Append(old, v)
    BY <2>12, <2>13, <2>14, SeqEqual
  <2> QED
    BY <2>15 DEF old, now
<1>15. ElementsIn(table2) = ElementsIn(table) + 1
  <2>1. IsFiniteSet(CellsOf(table))
    BY <1>6, CellsAreFinite
  <2>2. Cardinality(CellsOf(table) \union {new}) = Cardinality(CellsOf(table)) + 1
    BY <1>9, <2>1, FS_AddElement
  <2> QED
    BY <1>9, <2>2 DEF ElementsIn
<1> QED
  BY <1>15, <1>10, <1>13, <1>14

-----------------------------------------------------------------------------
(* When the element at place p of bucket i goes, those behind it move up.  *)
MovesUp(i, p, c) == IF c[1] = i /\ c[2] > p THEN <<i, c[2] - 1>> ELSE c

(* What a sequence is without one of its elements.                         *)
LEMMA RemovedElement ==
  ASSUME NEW s \in Seq(Elements), NEW p \in 1 .. Len(s)
  PROVE  /\ RemoveAt(s, p) \in Seq(Elements) /\ Len(RemoveAt(s, p)) = Len(s) - 1
         /\ \A q \in 1 .. Len(s) - 1 : RemoveAt(s, p)[q] = IF q < p THEN s[q] ELSE s[q + 1]
<1> DEFINE a == SubSeq(s, 1, p - 1)
           b == SubSeq(s, p + 1, Len(s))
<1>1. p \in Nat /\ Len(s) \in Nat
  OBVIOUS
<1>2. a \in Seq(Elements) /\ Len(a) = p - 1 /\ \A q \in 1 .. p - 1 : a[q] = s[q]
  BY <1>1, SubSeqProperties
<1>3. b \in Seq(Elements) /\ Len(b) = Len(s) - p /\ \A q \in 1 .. Len(s) - p : b[q] = s[q + p]
  BY <1>1, SubSeqProperties
<1>4. RemoveAt(s, p) = a \o b
  BY DEF RemoveAt
<1> HIDE DEF a, b
<1>5. /\ a \o b \in Seq(Elements) /\ Len(a \o b) = Len(s) - 1
      /\ \A q \in 1 .. Len(s) - 1 : (a \o b)[q] = IF q <= p - 1 THEN a[q] ELSE b[q - (p - 1)]
  <2>1. Len(a) + Len(b) = Len(s) - 1
    BY <1>1, <1>2, <1>3
  <2>2. /\ a \o b \in Seq(Elements) /\ Len(a \o b) = Len(a) + Len(b)
        /\ \A q \in 1 .. Len(a) + Len(b) : (a \o b)[q] = IF q <= Len(a) THEN a[q] ELSE b[q - Len(a)]
    BY <1>2, <1>3, ConcatProperties
  <2> QED
    BY <1>2, <2>1, <2>2
<1>6. ASSUME NEW q \in 1 .. Len(s) - 1
      PROVE  (a \o b)[q] = IF q < p THEN s[q] ELSE s[q + 1]
  <2>1. CASE q < p
    BY <1>1, <1>2, <1>5, <2>1
  <2>2. CASE ~ (q < p)
    <3>1. PICK r \in 1 .. Len(s) - p : r = q - (p - 1) /\ r + p = q + 1
      BY <1>1, <2>2
    <3> QED
      BY <1>1, <1>3, <1>5, <2>2, <3>1
  <2> QED
    BY <2>1, <2>2
<1> QED
  BY <1>4, <1>5, <1>6

(* Erasing an element moves the others to cells of their own, in the same  *)
(* order.                                                                  *)
LEMMA ElementsMoveUp ==
  ASSUME NEW n \in Nat, NEW table \in Tables(n), NEW table2 \in Tables(n),
         NEW i \in 0 .. n - 1, NEW p \in 1 .. Len(table[i]),
         table2[i] = RemoveAt(table[i], p),
         \A j \in 0 .. n - 1 : j # i => table2[j] = table[j]
  PROVE  /\ \A c \in CellsOf(table) \ {<<i, p>>} :
              LET d == MovesUp(i, p, c)
              IN  d \in CellsOf(table2) /\ table2[d[1]][d[2]] = table[c[1]][c[2]]
         /\ \A d \in CellsOf(table2) : \E c \in CellsOf(table) \ {<<i, p>>} : MovesUp(i, p, c) = d
         /\ \A c, d \in CellsOf(table) \ {<<i, p>>} :
              Precedes(c, d) => Precedes(MovesUp(i, p, c), MovesUp(i, p, d))
<1>1. /\ table[i] \in Seq(Elements) /\ Len(table[i]) \in Nat /\ p \in Nat
      /\ Len(table2[i]) = Len(table[i]) - 1
      /\ \A q \in 1 .. Len(table[i]) - 1 : table2[i][q] = IF q < p THEN table[i][q] ELSE table[i][q + 1]
  <2>1. table[i] \in Seq(Elements)
    BY DEF Tables
  <2>2. p \in Nat /\ Len(table[i]) \in Nat
    BY <2>1
  <2>3. /\ Len(RemoveAt(table[i], p)) = Len(table[i]) - 1
        /\ \A q \in 1 .. Len(table[i]) - 1 :
             RemoveAt(table[i], p)[q] = IF q < p THEN table[i][q] ELSE table[i][q + 1]
    BY <2>1, RemovedElement
  <2> QED
    BY <2>1, <2>2, <2>3
<1>2. \A c \in Pairs : c \in CellsOf(table) <=> c[1] \in 0 .. n - 1 /\ c[2] \in 1 .. Len(table[c[1]])
  BY CellsAreFinite
<1>3. \A c \in Pairs : c \in CellsOf(table2) <=> c[1] \in 0 .. n - 1 /\ c[2] \in 1 .. Len(table2[c[1]])
  BY CellsAreFinite
<1>4. CellsOf(table) \subseteq Pairs /\ CellsOf(table2) \subseteq Pairs
  BY CellsAreFinite
<1>5. \A c \in Pairs : c = <<c[1], c[2]>> /\ c[1] \in Nat /\ c[2] \in Nat
  BY DEF Pairs
<1>6. \A a, b \in Nat : <<a, b>> \in Pairs /\ <<a, b>>[1] = a /\ <<a, b>>[2] = b
  BY DEF Pairs
<1>7. ASSUME NEW c \in CellsOf(table) \ {<<i, p>>}
      PROVE  LET d == MovesUp(i, p, c)
             IN  d \in CellsOf(table2) /\ table2[d[1]][d[2]] = table[c[1]][c[2]]
  <2>1. c \in Pairs /\ c[1] \in 0 .. n - 1 /\ c[2] \in 1 .. Len(table[c[1]]) /\ c[2] \in Nat
    BY <1>2, <1>4, <1>5
  <2>2. CASE c[1] = i /\ c[2] > p
    <3>1. PICK q \in Nat : q = c[2] - 1
      BY <1>1, <2>1, <2>2
    <3>2. MovesUp(i, p, c) = <<i, q>>
      BY <2>2, <3>1 DEF MovesUp
    <3>3. q \in 1 .. Len(table2[i]) /\ table2[i][q] = table[i][c[2]]
      BY <1>1, <2>1, <2>2, <3>1
    <3>4. i \in Nat
      OBVIOUS
    <3>5. <<i, q>> \in CellsOf(table2)
      BY <1>3, <1>6, <3>3, <3>4
    <3> QED
      BY <1>6, <2>2, <3>2, <3>3, <3>4, <3>5
  <2>3. CASE c[1] = i /\ ~ (c[2] > p)
    <3>1. MovesUp(i, p, c) = c
      BY <2>3 DEF MovesUp
    <3>2. c[2] # p
      BY <1>5, <2>1, <2>3
    <3>3. c[2] \in 1 .. Len(table2[i]) /\ table2[i][c[2]] = table[i][c[2]]
      BY <1>1, <2>1, <2>3, <3>2
    <3> QED
      BY <1>3, <2>1, <2>3, <3>1, <3>3
  <2>4. CASE c[1] # i
    <3>1. MovesUp(i, p, c) = c
      BY <2>4 DEF MovesUp
    <3>2. table2[c[1]] = table[c[1]]
      BY <2>1, <2>4
    <3> QED
      BY <1>3, <2>1, <3>1, <3>2
  <2> QED
    BY <2>2, <2>3, <2>4
<1>8. ASSUME NEW d \in CellsOf(table2)
      PROVE  \E c \in CellsOf(table) \ {<<i, p>>} : MovesUp(i, p, c) = d
  <2>1. d \in Pairs /\ d[1] \in 0 .. n - 1 /\ d[2] \in 1 .. Len(table2[d[1]]) /\ d[2] \in Nat
        /\ d = <<d[1], d[2]>>
    BY <1>3, <1>4, <1>5
  <2>2. CASE d[1] = i /\ d[2] >= p
    <3>1. PICK q \in Nat : q = d[2] + 1
      BY <2>1
    <3>2. q \in 1 .. Len(table[i]) /\ q > p /\ q - 1 = d[2]
      BY <1>1, <2>1, <2>2, <3>1
    <3>3. i \in Nat
      OBVIOUS
    <3>4. <<i, q>> \in CellsOf(table) /\ <<i, q>> # <<i, p>>
      BY <1>1, <1>2, <1>6, <3>2, <3>3
    <3>5. MovesUp(i, p, <<i, q>>) = <<i, d[2]>>
      BY <1>6, <3>2, <3>3 DEF MovesUp
    <3> QED
      BY <2>1, <2>2, <3>4, <3>5
  <2>3. CASE d[1] = i /\ ~ (d[2] >= p)
    <3>1. d[2] \in 1 .. Len(table[i]) /\ ~ (d[2] > p)
      BY <1>1, <2>1, <2>3
    <3>2. d \in CellsOf(table) /\ d # <<i, p>>
      <4>1. d # <<i, p>>
        BY <1>1, <2>1, <2>3
      <4> QED
        BY <1>2, <2>1, <2>3, <3>1, <4>1
    <3>3. MovesUp(i, p, d) = d
      BY <3>1 DEF MovesUp
    <3> QED
      BY <3>2, <3>3
  <2>4. CASE d[1] # i
    <3>1. MovesUp(i, p, d) = d
      BY <2>4 DEF MovesUp
    <3>2. table2[d[1]] = table[d[1]]
      BY <2>1, <2>4
    <3>3. d # <<i, p>>
      BY <2>4
    <3> QED
      BY <1>2, <2>1, <3>1, <3>2, <3>3
  <2> QED
    BY <2>2, <2>3, <2>4
<1>9. ASSUME NEW c \in CellsOf(table) \ {<<i, p>>}, NEW d \in CellsOf(table) \ {<<i, p>>},
             Precedes(c, d)
      PROVE  Precedes(MovesUp(i, p, c), MovesUp(i, p, d))
  <2>1. PICK a \in Nat, b \in Nat : c = <<a, b>>
    BY <1>4 DEF Pairs
  <2>2. PICK x \in Nat, y \in Nat : d = <<x, y>>
    BY <1>4 DEF Pairs
  <2>3. a = i => b # p
    BY <2>1
  <2>4. x = i => y # p
    BY <2>2
  <2> HIDE <1>1, <1>2, <1>3, <1>5, <1>6, <1>7, <1>8
  <2> QED
    BY <1>9, <2>1, <2>2, <2>3, <2>4, <1>1 DEF Precedes, MovesUp
<1> QED
  BY <1>7, <1>8, <1>9

-----------------------------------------------------------------------------
(* The first element of a key that goes is the key's first value, and no   *)
(* other key notices.                                                      *)
LEMMA ErasedElement ==
  ASSUME NEW n \in Nat \ {0}, NEW table \in Tables(n), InPlace(n, table), NEW k \in Keys,
         PlacesIn(n, table, k) # {}, NEW table2 \in Tables(n),
         table2[Hash[k] % n] = RemoveAt(table[Hash[k] % n], Min(PlacesIn(n, table, k))),
         \A j \in 0 .. n - 1 : j # Hash[k] % n => table2[j] = table[j]
  PROVE  /\ InPlace(n, table2)
         /\ ValuesIn(table2, k) = Tail(ValuesIn(table, k))
         /\ \A j \in Keys \ {k} : ValuesIn(table2, j) = ValuesIn(table, j)
         /\ ElementsIn(table2) = ElementsIn(table) - 1
<1>1. PICK i \in 0 .. n - 1 : i = Hash[k] % n
  BY KeyHasBucket
<1>2. PICK p \in 1 .. Len(table[i]) : p = Min(PlacesIn(n, table, k)) /\ p \in PlacesIn(n, table, k)
  BY <1>1, FirstPlaceHasFirstValue
<1>3. n \in Nat
  OBVIOUS
<1> DEFINE gone == <<i, p>>
           all == CellsOf(table) \ {gone}
           up(c) == MovesUp(i, p, c)
<1>4. /\ \A c \in all : up(c) \in CellsOf(table2) /\ table2[up(c)[1]][up(c)[2]] = table[c[1]][c[2]]
      /\ \A d \in CellsOf(table2) : \E c \in all : up(c) = d
      /\ \A c, d \in all : Precedes(c, d) => Precedes(up(c), up(d))
  BY <1>1, <1>2, <1>3, ElementsMoveUp
<1>5. \A c \in all : up(c)[1] = c[1]
  BY DEF MovesUp
<1>6. table[i][p].key = k /\ gone[1] = i /\ gone[2] = p
  BY <1>1, <1>2 DEF PlacesIn
<1> HIDE DEF gone, all, up
<1>7. InPlace(n, table2)
  <2> SUFFICES ASSUME NEW d \in CellsOf(table2)
               PROVE  Hash[table2[d[1]][d[2]].key] % n = d[1]
    BY DEF InPlace
  <2>1. PICK c \in all : up(c) = d
    BY <1>4
  <2>2. table2[d[1]][d[2]] = table[c[1]][c[2]] /\ d[1] = c[1]
    BY <1>4, <1>5, <2>1
  <2>3. c \in CellsOf(table)
    BY DEF all
  <2> QED
    BY <2>2, <2>3 DEF InPlace
<1>8. ASSUME NEW j \in Keys
      PROVE  /\ \A c \in CellsWith(table, j) \ {gone} :
                  up(c) \in CellsWith(table2, j) /\ table2[up(c)[1]][up(c)[2]] = table[c[1]][c[2]]
             /\ \A d \in CellsWith(table2, j) : \E c \in CellsWith(table, j) \ {gone} : up(c) = d
             /\ CellsWith(table, j) \ {gone} \subseteq all
  <2>1. ASSUME NEW c \in CellsWith(table, j) \ {gone}
        PROVE  /\ up(c) \in CellsWith(table2, j) /\ table2[up(c)[1]][up(c)[2]] = table[c[1]][c[2]]
               /\ c \in all
    <3>1. c \in all /\ table[c[1]][c[2]].key = j
      BY DEF CellsWith, all
    <3> QED
      BY <1>4, <3>1 DEF CellsWith
  <2>2. ASSUME NEW d \in CellsWith(table2, j)
        PROVE  \E c \in CellsWith(table, j) \ {gone} : up(c) = d
    <3>1. d \in CellsOf(table2) /\ table2[d[1]][d[2]].key = j
      BY DEF CellsWith
    <3>2. PICK c \in all : up(c) = d
      BY <1>4, <3>1
    <3>3. table[c[1]][c[2]].key = j
      BY <1>4, <3>1, <3>2
    <3>4. c \in CellsWith(table, j) \ {gone}
      BY <3>3 DEF CellsWith, all
    <3> QED
      BY <3>2, <3>4
  <2> QED
    BY <2>1, <2>2
<1>9. ASSUME NEW j \in Keys \ {k}
      PROVE  ValuesIn(table2, j) = ValuesIn(table, j)
  <2> DEFINE C == CellsWith(table, j)
             D == CellsWith(table2, j)
             f == [c \in C |-> up(c)]
  <2>1. C \ {gone} = C
    BY <1>6 DEF CellsWith
  <2> HIDE DEF C, D
  <2>2. f \in [C -> D] /\ \A c \in C : f[c] = up(c) /\ c \in all
    BY <1>8, <2>1 DEF C, D
  <2>3. \A d \in D : \E c \in C : f[c] = d
    BY <1>8, <2>1, <2>2 DEF C, D
  <2>4. \A c \in C : table2[f[c][1]][f[c][2]].value = table[c[1]][c[2]].value
    BY <1>8, <2>1, <2>2 DEF C, D
  <2> HIDE DEF f
  <2>5. \A c, d \in C : Precedes(c, d) => Precedes(f[c], f[d])
    BY <1>4, <2>2
  <2> QED
    BY <1>3, <2>2, <2>3, <2>4, <2>5, MovedElementsKeepValues DEF C, D
<1>10. ValuesIn(table2, k) = Tail(ValuesIn(table, k))
  <2> DEFINE C == CellsWith(table, k)
             A == C \ {gone}
             D == CellsWith(table2, k)
             f == [c \in A |-> up(c)]
             s == InOrder(C)
             s2 == InOrder(D)
             old == ValuesIn(table, k)
             now == ValuesIn(table2, k)
  <2>1. InOrder(A) = Tail(s) /\ old # <<>>
    BY <1>1, <1>2, FirstPlaceHasFirstValue DEF gone
  <2>2. /\ C \in SUBSET Pairs /\ IsFiniteSet(C) /\ D \in SUBSET Pairs
        /\ s \in Seq(C) /\ s2 \in Seq(D)
        /\ old \in Seq(Values) /\ now \in Seq(Values) /\ Len(old) = Len(s) /\ Len(now) = Len(s2)
    BY <1>3, CellsWithAreFinite
  <2>3. /\ \A m \in DOMAIN s : old[m] = table[s[m][1]][s[m][2]].value
        /\ \A m \in DOMAIN s2 : now[m] = table2[s2[m][1]][s2[m][2]].value
    BY ValueAt
  <2> HIDE DEF C, D, s, s2, old, now
  <2>4. f \in [A -> D] /\ \A c \in A : f[c] = up(c) /\ c \in all
    BY <1>8 DEF C, D
  <2>5. \A d \in D : \E c \in A : f[c] = d
    BY <1>8, <2>4 DEF C, D
  <2>6. \A c \in A : table2[up(c)[1]][up(c)[2]].value = table[c[1]][c[2]].value
    BY <1>8 DEF C, D
  <2> HIDE DEF f
  <2>7. \A c, d \in A : Precedes(c, d) => Precedes(f[c], f[d])
    BY <1>4, <2>4
  <2>8. A \in SUBSET Pairs /\ IsFiniteSet(A)
    BY <2>2, FS_Subset
  <2> HIDE DEF A
  <2>9. InOrder(A) \in Seq(A) /\ Len(InOrder(A)) = Cardinality(A)
    BY <2>8, InOrderLists
  <2>10. s2 = [m \in 1 .. Cardinality(A) |-> f[InOrder(A)[m]]]
    <3>1. /\ A \in SUBSET Pairs /\ IsFiniteSet(A) /\ D \in SUBSET Pairs /\ f \in [A -> D]
          /\ \A c, d \in A : Precedes(c, d) => Precedes(f[c], f[d])
          /\ \A d \in D : \E c \in A : f[c] = d
      BY <2>2, <2>4, <2>5, <2>7, <2>8
    <3>2. InOrder(D) = [m \in 1 .. Cardinality(A) |-> f[InOrder(A)[m]]]
      BY <3>1, MovedCellsInOrder
    <3> QED
      BY <3>2 DEF s2
  <2>11. Len(s) \in Nat /\ Len(s) # 0 /\ DOMAIN s = 1 .. Len(s)
    BY <2>1, <2>2
  <2>12. Len(Tail(s)) = Len(s) - 1 /\ \A m \in 1 .. Len(s) - 1 : Tail(s)[m] = s[m + 1]
    <3>1. s # <<>>
      BY <2>11
    <3> QED
      BY <2>2, <2>11, <3>1, HeadTailProperties
  <2>13. Cardinality(A) = Len(s) - 1
    BY <2>1, <2>9, <2>12
  <2>14. DOMAIN s2 = 1 .. Len(s) - 1 /\ Len(now) = Len(s) - 1
    <3>1. DOMAIN s2 = 1 .. Len(s) - 1
      BY <2>10, <2>13
    <3> QED
      BY <2>2, <2>11, <3>1, LenProperties
  <2>15. ASSUME NEW m \in 1 .. Len(s) - 1
         PROVE  now[m] = old[m + 1]
    <3>1. PICK c \in A : c = InOrder(A)[m] /\ c = s[m + 1]
      BY <2>1, <2>9, <2>12, <2>13
    <3>2. s2[m] = up(c) /\ m \in DOMAIN s2
      BY <2>4, <2>10, <2>13, <2>14, <3>1
    <3>3. now[m] = table2[up(c)[1]][up(c)[2]].value
      BY <2>3, <3>2
    <3>4. m + 1 \in DOMAIN s
      BY <2>11
    <3>5. old[m + 1] = table[c[1]][c[2]].value
      BY <2>3, <3>1, <3>4
    <3> QED
      BY <2>6, <3>3, <3>5
  <2>16. Tail(old) \in Seq(Values) /\ Len(Tail(old)) = Len(s) - 1
         /\ \A m \in 1 .. Len(s) - 1 : Tail(old)[m] = old[m + 1]
    BY <2>1, <2>2, <2>11, HeadTailProperties
  <2>17. now = Tail(old)
    <3> DEFINE rest == Tail(old)
    <3>1. /\ now \in Seq(Values) /\ rest \in Seq(Values) /\ Len(now) = Len(rest)
          /\ \A m \in 1 .. Len(now) : now[m] = rest[m]
      BY <2>2, <2>14, <2>15, <2>16
    <3> HIDE DEF rest
    <3>2. now = rest
      BY <3>1, SeqEqual
    <3> QED
      BY <3>2 DEF rest
  <2> QED
    BY <2>17 DEF now, old
<1>11. ElementsIn(table2) = ElementsIn(table) - 1
  <2> DEFINE f == [c \in all |-> up(c)]
  <2>1. IsFiniteSet(CellsOf(table)) /\ CellsOf(table) \in SUBSET Pairs /\ all \in SUBSET Pairs
    BY <1>3, CellsAreFinite DEF all
  <2>2. gone \in CellsOf(table)
    <3>1. i \in 0 .. n - 1 /\ p \in 1 .. Len(table[i])
      OBVIOUS
    <3> QED
      BY <1>3, <3>1, CellsAreFinite DEF gone
  <2>3. IsFiniteSet(all) /\ Cardinality(all) = Cardinality(CellsOf(table)) - 1
    BY <2>1, <2>2, FS_RemoveElement DEF all
  <2>4. ASSUME NEW c \in all, NEW d \in all, up(c) = up(d)
        PROVE  c = d
    <3>1. up(c) \in Pairs /\ ~ Precedes(up(c), up(d)) /\ ~ Precedes(up(d), up(c))
      <4>1. CellsOf(table2) \in SUBSET Pairs
        BY <1>3, CellsAreFinite
      <4> QED
        BY <1>4, <2>4, <4>1, PrecedesIsAnOrder
    <3>2. ~ Precedes(c, d) /\ ~ Precedes(d, c)
      BY <1>4, <3>1
    <3> QED
      BY <2>1, <3>2, PrecedesIsAnOrder
  <2>5. f \in [all -> CellsOf(table2)] /\ \A c \in all : f[c] = up(c)
    BY <1>4
  <2> HIDE DEF f
  <2>6. f \in Bijection(all, CellsOf(table2))
    BY <1>4, <2>4, <2>5 DEF Bijection, Injection, Surjection, IsInjective
  <2>7. ExistsBijection(all, CellsOf(table2))
    BY <2>6 DEF ExistsBijection
  <2>8. Cardinality(CellsOf(table2)) = Cardinality(all)
    BY <2>3, <2>7, FS_Bijection
  <2> QED
    BY <2>3, <2>8 DEF ElementsIn
<1> QED
  BY <1>11, <1>7, <1>9, <1>10

-----------------------------------------------------------------------------
(* The cells that a rehash to m buckets empties into bucket j.             *)
CellsFor(table, m, j) == {c \in CellsOf(table) : Hash[table[c[1]][c[2]].key] % m = j}

(* Each cell comes once in the order.                                      *)
LEMMA ListedOnce ==
  ASSUME NEW C \in SUBSET Pairs, IsFiniteSet(C),
         NEW x \in DOMAIN InOrder(C), NEW y \in DOMAIN InOrder(C), InOrder(C)[x] = InOrder(C)[y]
  PROVE  x = y
<1>1. InOrder(C) \in Seq(C)
  BY InOrderLists
<1>2. x \in Nat /\ y \in Nat /\ InOrder(C)[x] \in Pairs
  BY <1>1, LenProperties
<1>3. ~ (x < y) /\ ~ (y < x)
  BY <1>2, InOrderAscends, PrecedesIsAnOrder
<1> QED
  BY <1>2, <1>3

(* The rehashed table is one, and what is in it comes from the cells it    *)
(* was gathered from.                                                      *)
LEMMA RehashedTable ==
  ASSUME NEW n \in Nat \ {0}, NEW table \in Tables(n), NEW m \in Nat \ {0}, NEW table2,
         table2 = [j \in 0 .. m - 1 |->
                     [x \in DOMAIN InOrder(CellsFor(table, m, j)) |->
                        table[InOrder(CellsFor(table, m, j))[x][1]][InOrder(CellsFor(table, m, j))[x][2]]]]
  PROVE  /\ table2 \in Tables(m)
         /\ \A j \in 0 .. m - 1 :
              /\ DOMAIN table2[j] = DOMAIN InOrder(CellsFor(table, m, j))
              /\ Len(table2[j]) = Len(InOrder(CellsFor(table, m, j)))
              /\ \A x \in DOMAIN table2[j] : \A c :
                   c = InOrder(CellsFor(table, m, j))[x] => table2[j][x] = table[c[1]][c[2]]
<1> DEFINE from(j) == InOrder(CellsFor(table, m, j))
           new(j) == [x \in DOMAIN from(j) |-> table[from(j)[x][1]][from(j)[x][2]]]
<1>1. n \in Nat
  OBVIOUS
<1>2. ASSUME NEW j \in 0 .. m - 1
      PROVE  new(j) \in Seq(Elements) /\ Len(new(j)) = Len(from(j)) /\ DOMAIN new(j) = DOMAIN from(j)
  <2>1. CellsFor(table, m, j) \subseteq CellsOf(table)
    BY DEF CellsFor
  <2>2. CellsFor(table, m, j) \in SUBSET Pairs /\ IsFiniteSet(CellsFor(table, m, j))
    <3>1. CellsOf(table) \in SUBSET Pairs /\ IsFiniteSet(CellsOf(table))
      BY <1>1, CellsAreFinite
    <3> QED
      BY <2>1, <3>1, FS_Subset
  <2>3. from(j) \in Seq(CellsFor(table, m, j))
    BY <2>2, InOrderLists
  <2>4. DOMAIN new(j) = DOMAIN from(j)
    OBVIOUS
  <2>5. ASSUME NEW x \in DOMAIN from(j)
        PROVE  new(j)[x] \in Elements
    <3>1. from(j)[x] \in CellsOf(table)
      BY <2>1, <2>3, LenProperties
    <3>2. table[from(j)[x][1]][from(j)[x][2]] \in Elements
      BY <1>1, <3>1, CellsAreFinite
    <3> QED
      BY <3>2
  <2>6. new(j) \in [DOMAIN from(j) -> Elements]
    BY <2>5
  <2> HIDE DEF new
  <2>7. DOMAIN from(j) = 1 .. Len(from(j)) /\ Len(from(j)) \in Nat
    BY <2>3, LenProperties
  <2> HIDE DEF from
  <2>8. new(j) \in Seq(Elements) /\ Len(new(j)) = Len(from(j))
    BY <2>6, <2>7, SeqDef
  <2> QED
    BY <2>4, <2>8
<1>3. table2 = [j \in 0 .. m - 1 |-> new(j)]
  OBVIOUS
<1>4. \A j \in 0 .. m - 1 : \A x \in DOMAIN from(j) : \A c : c = from(j)[x] => new(j)[x] = table[c[1]][c[2]]
  OBVIOUS
<1> HIDE DEF new, from
<1>5. table2 \in Tables(m)
  BY <1>2, <1>3 DEF Tables
<1>6. ASSUME NEW j \in 0 .. m - 1
      PROVE  /\ DOMAIN table2[j] = DOMAIN from(j) /\ Len(table2[j]) = Len(from(j))
             /\ \A x \in DOMAIN table2[j] : \A c : c = from(j)[x] => table2[j][x] = table[c[1]][c[2]]
  <2>1. table2[j] = new(j)
    BY <1>3
  <2> QED
    BY <1>2, <1>4, <2>1, SMTT(30)
<1> QED
  BY <1>5, <1>6 DEF from

(* Every element moves to the bucket of its key, and those of one key keep *)
(* their order.                                                            *)
LEMMA RehashedElements ==
  ASSUME NEW n \in Nat \ {0}, NEW table \in Tables(n), NEW m \in Nat \ {0}, NEW table2 \in Tables(m),
         \A j \in 0 .. m - 1 :
           /\ DOMAIN table2[j] = DOMAIN InOrder(CellsFor(table, m, j))
           /\ Len(table2[j]) = Len(InOrder(CellsFor(table, m, j)))
           /\ \A x \in DOMAIN table2[j] : \A c :
                c = InOrder(CellsFor(table, m, j))[x] => table2[j][x] = table[c[1]][c[2]]
  PROVE  /\ InPlace(m, table2) /\ \A k \in Keys : ValuesIn(table2, k) = ValuesIn(table, k)
         /\ ElementsIn(table2) = ElementsIn(table)
<1> DEFINE from(j) == InOrder(CellsFor(table, m, j))
<1>1. n \in Nat /\ m \in Nat
  OBVIOUS
<1>2. ASSUME NEW j \in 0 .. m - 1
      PROVE  /\ CellsFor(table, m, j) \in SUBSET Pairs /\ IsFiniteSet(CellsFor(table, m, j))
             /\ from(j) \in Seq(CellsFor(table, m, j))
             /\ DOMAIN from(j) = DOMAIN table2[j] /\ DOMAIN from(j) = 1 .. Len(table2[j])
             /\ \A x \in DOMAIN from(j) : from(j)[x] \in CellsFor(table, m, j)
  <2>1. CellsFor(table, m, j) \subseteq CellsOf(table)
    BY DEF CellsFor
  <2>2. CellsOf(table) \in SUBSET Pairs /\ IsFiniteSet(CellsOf(table))
    BY <1>1, CellsAreFinite
  <2>3. CellsFor(table, m, j) \in SUBSET Pairs /\ IsFiniteSet(CellsFor(table, m, j))
    BY <2>1, <2>2, FS_Subset
  <2>4. from(j) \in Seq(CellsFor(table, m, j))
    BY <2>3, InOrderLists
  <2>5. DOMAIN from(j) = DOMAIN table2[j] /\ Len(table2[j]) = Len(from(j))
    OBVIOUS
  <2> HIDE DEF from
  <2>6. DOMAIN from(j) = 1 .. Len(from(j)) /\ \A x \in DOMAIN from(j) : from(j)[x] \in CellsFor(table, m, j)
    BY <2>4, LenProperties
  <2> QED
    BY <2>3, <2>4, <2>5, <2>6
<1>3. \A j \in 0 .. m - 1 : \A x \in DOMAIN from(j) : \A c : c = from(j)[x] => table2[j][x] = table[c[1]][c[2]]
  BY <1>2
<1>4. \A j \in 0 .. m - 1 : \A c \in CellsFor(table, m, j) : \E x \in DOMAIN from(j) : from(j)[x] = c
  BY <1>2, InOrderLists
<1>5. \A j \in 0 .. m - 1 : \A x, y \in DOMAIN from(j) : x < y <=> Precedes(from(j)[x], from(j)[y])
  BY <1>2, InOrderAscends
<1>6. \A j \in 0 .. m - 1 : \A x, y \in DOMAIN from(j) : from(j)[x] = from(j)[y] => x = y
  BY <1>2, ListedOnce
<1> HIDE DEF from
<1>7. \A d \in CellsOf(table2) : d = <<d[1], d[2]>> /\ d[1] \in 0 .. m - 1 /\ d[2] \in DOMAIN from(d[1])
  BY <1>1, <1>2, CellsAreFinite
<1>8. ASSUME NEW d \in CellsOf(table2)
      PROVE  /\ from(d[1])[d[2]] \in CellsOf(table)
             /\ Hash[table2[d[1]][d[2]].key] % m = d[1]
             /\ \A c : c = from(d[1])[d[2]] => table2[d[1]][d[2]] = table[c[1]][c[2]]
  <2>1. PICK c \in CellsFor(table, m, d[1]) : c = from(d[1])[d[2]]
    BY <1>2, <1>7
  <2>2. table2[d[1]][d[2]] = table[c[1]][c[2]]
    BY <1>3, <1>7, <2>1
  <2> QED
    BY <2>1, <2>2 DEF CellsFor
<1>9. InPlace(m, table2)
  BY <1>8 DEF InPlace
<1>10. ASSUME NEW k \in Keys
       PROVE  ValuesIn(table2, k) = ValuesIn(table, k)
  <2> DEFINE C == CellsWith(table, k)
             D == CellsWith(table2, k)
  <2>1. PICK j \in 0 .. m - 1 : j = Hash[k] % m
    BY KeyHasBucket
  <2> DEFINE place(c) == CHOOSE x \in DOMAIN from(j) : from(j)[x] = c
             f == [c \in C |-> <<j, place(c)>>]
  <2>2. C \subseteq CellsFor(table, m, j)
    BY <2>1 DEF CellsFor, CellsWith
  <2>3. \A c \in C : place(c) \in DOMAIN from(j) /\ from(j)[place(c)] = c
    BY <1>4, <2>2
  <2> HIDE DEF place
  <2>4. ASSUME NEW c \in C
        PROVE  /\ <<j, place(c)>> \in D
               /\ table2[j][place(c)].value = table[c[1]][c[2]].value
    <3>1. table2[j][place(c)] = table[c[1]][c[2]]
      BY <1>3, <2>3
    <3>2. <<j, place(c)>> \in CellsOf(table2)
      BY <1>1, <1>2, <2>3, CellsAreFinite
    <3> QED
      BY <3>1, <3>2 DEF CellsWith
  <2>5. \A c \in C : f[c][1] = j /\ f[c][2] = place(c)
    OBVIOUS
  <2>6. f \in [C -> D]
    BY <2>4
  <2>7. ASSUME NEW d \in D
        PROVE  \E c \in C : f[c] = d
    <3>1. d \in CellsOf(table2) /\ table2[d[1]][d[2]].key = k
      BY DEF CellsWith
    <3>2. d[1] = j
      BY <1>8, <2>1, <3>1
    <3>3. PICK c \in CellsOf(table) : c = from(j)[d[2]] /\ table2[d[1]][d[2]] = table[c[1]][c[2]]
      BY <1>8, <3>1, <3>2
    <3>4. c \in C
      BY <3>1, <3>3 DEF CellsWith
    <3>5. place(c) = d[2]
      BY <1>6, <1>7, <2>3, <3>1, <3>2, <3>3, <3>4
    <3>6. d = <<j, d[2]>>
      BY <1>7, <3>1, <3>2
    <3> QED
      BY <3>4, <3>5, <3>6
  <2>8. ASSUME NEW c \in C, NEW d \in C, Precedes(c, d)
        PROVE  Precedes(f[c], f[d])
    <3>1. place(c) < place(d)
      BY <1>5, <2>3, <2>8
    <3> QED
      BY <2>5, <3>1 DEF Precedes
  <2>9. \A c \in C : table2[f[c][1]][f[c][2]].value = table[c[1]][c[2]].value
    BY <2>4, <2>5
  <2> HIDE DEF f
  <2> QED
    BY <1>1, <2>6, <2>7, <2>8, <2>9, MovedElementsKeepValues
<1>11. ElementsIn(table2) = ElementsIn(table)
  <2> DEFINE old(d) == from(d[1])[d[2]]
             f == [d \in CellsOf(table2) |-> old(d)]
  <2>1. f \in [CellsOf(table2) -> CellsOf(table)] /\ \A d \in CellsOf(table2) : f[d] = old(d)
    BY <1>8
  <2>2. ASSUME NEW c \in CellsOf(table)
        PROVE  \E d \in CellsOf(table2) : old(d) = c
    <3>1. table[c[1]][c[2]] \in Elements
      BY <1>1, CellsAreFinite
    <3>2. PICK j \in 0 .. m - 1 : j = Hash[table[c[1]][c[2]].key] % m
      BY <3>1, KeyHasBucket DEF Elements
    <3>3. c \in CellsFor(table, m, j)
      BY <3>2 DEF CellsFor
    <3>4. PICK x \in DOMAIN from(j) : from(j)[x] = c
      BY <1>4, <3>3
    <3>5. <<j, x>> \in CellsOf(table2)
      <4>1. x \in 1 .. Len(table2[j])
        BY <1>1, <1>2, <3>4
      <4> QED
        BY <1>1, <1>2, <4>1, CellsAreFinite
    <3>6. old(<<j, x>>) = c
      BY <3>4
    <3> QED
      BY <3>5, <3>6
  <2>3. ASSUME NEW c \in CellsOf(table2), NEW d \in CellsOf(table2), old(c) = old(d)
        PROVE  c = d
    <3>1. table2[c[1]][c[2]] = table2[d[1]][d[2]]
      BY <1>8, <2>3
    <3>2. c[1] = d[1]
      BY <1>8, <3>1
    <3>3. c[2] = d[2]
      BY <1>6, <1>7, <2>3, <3>2
    <3>4. c = <<c[1], c[2]>> /\ d = <<d[1], d[2]>>
      BY <1>7
    <3> QED
      BY <3>2, <3>3, <3>4
  <2> HIDE DEF f, old
  <2>4. f \in Bijection(CellsOf(table2), CellsOf(table))
    BY <2>1, <2>2, <2>3 DEF Bijection, Injection, Surjection, IsInjective
  <2>5. IsFiniteSet(CellsOf(table2)) /\ ExistsBijection(CellsOf(table2), CellsOf(table))
    BY <1>1, <2>4, CellsAreFinite DEF ExistsBijection
  <2> QED
    BY <2>5, FS_Bijection DEF ElementsIn
<1> QED
  BY <1>11, <1>9, <1>10

(* An empty table has no values.                                           *)
LEMMA EmptyTable ==
  ASSUME NEW n \in Nat, NEW table, table = [i \in 0 .. n - 1 |-> <<>>]
  PROVE  /\ table \in Tables(n) /\ InPlace(n, table)
         /\ \A k : ValuesIn(table, k) = <<>>
         /\ ElementsIn(table) = 0
<1>1. <<>> \in Seq(Elements) /\ Len(<<>>) = 0
  BY EmptySeq
<1>2. table \in Tables(n)
  BY <1>1 DEF Tables
<1>3. CellsOf(table) = {}
  <2>1. \A c \in CellsOf(table) : c[1] \in 0 .. n - 1 /\ c[2] \in 1 .. Len(table[c[1]])
    BY <1>2, CellsAreFinite
  <2> QED
    BY <1>1, <2>1
<1>4. ASSUME NEW k
      PROVE  ValuesIn(table, k) = <<>>
  <2>1. CellsWith(table, k) = {}
    BY <1>3 DEF CellsWith
  <2>2. InOrder(CellsWith(table, k)) \in Seq({})
    BY <1>2, <2>1, CellsWithAreFinite
  <2>3. Len(InOrder(CellsWith(table, k))) = 0
    BY <2>2
  <2>4. ValuesIn(table, k) \in Seq(Values) /\ Len(ValuesIn(table, k)) = 0
    BY <1>2, <2>3, CellsWithAreFinite
  <2> QED
    BY <2>4, EmptySeq
<1>5. ElementsIn(table) = 0
  BY <1>3, FS_EmptySet DEF ElementsIn
<1> QED
  BY <1>5, <1>2, <1>3, <1>4 DEF InPlace

-----------------------------------------------------------------------------
(* The table always has bucket_cnt_ buckets, and an Insert that missed a   *)
(* key carries a pair.                                                     *)
TypesAgree ==
  /\ bucket_cnt_ \in Nat \ {0}
  /\ table_ \in Tables(bucket_cnt_)
  /\ lock_ \in [0 .. LockCount - 1 -> Threads \union {None}]
  /\ size_ \in Int
  /\ pc \in [Threads -> {"idle", "inserting", "inserted", "sized", "clear", "rehash", "unlock"}]
  /\ arg \in [Threads -> (Keys \X Values) \union {None}]
  /\ num \in [Threads -> Int]
  /\ \A t \in Threads : pc[t] = "inserting" => arg[t] \in Keys \X Values

(* The number of buckets is a multiple of the number of mutexes.           *)
BucketsForMutexes == \E m \in Nat \ {0} : bucket_cnt_ = m * LockCount

(* A thread that clears or rehashes has the first num mutexes, nobody else *)
(* keeps one between two steps.                                            *)
Taken(t) == IF pc[t] \in {"clear", "rehash", "unlock"} THEN num[t] ELSE 0

MutexesInOrder ==
  \A t \in Threads :
    /\ Taken(t) \in 0 .. LockCount
    /\ \A i \in 0 .. LockCount - 1 : lock_[i] = t <=> i < Taken(t)
    /\ pc[t] = "unlock" => num[t] # 0
    /\ pc[t] \in {"idle", "inserting", "inserted"} => num[t] = 0

MapInv == TypesAgree /\ BucketsForMutexes /\ ElementsAreFound /\ MutexesInOrder

-----------------------------------------------------------------------------
(* The operators of the model are those of its table.                      *)
LEMMA ModelTable ==
  /\ \A k : ValuesOf(k) = ValuesIn(table_, k)
  /\ (\A k : ValuesOf(k) = ValuesIn(table_, k))'
  /\ \A k : Places(k) = PlacesIn(bucket_cnt_, table_, k)
  /\ \A j, n : Gathered(j, n) =
       [x \in DOMAIN InOrder(CellsFor(table_, n, j)) |->
          table_[InOrder(CellsFor(table_, n, j))[x][1]][InOrder(CellsFor(table_, n, j))[x][2]]]
<1>1. \A k : ValuesOf(k) = ValuesIn(table_, k)
  BY DEF ValuesOf, ValuesIn, CellsWith, CellsOf, Cells, At
<1>2. (\A k : ValuesOf(k) = ValuesIn(table_, k))'
  BY DEF ValuesOf, ValuesIn, CellsWith, CellsOf, Cells, At
<1>3. \A k : Places(k) = PlacesIn(bucket_cnt_, table_, k)
  BY DEF Places, PlacesIn, Bucket, Index
<1>4. \A j, n : Gathered(j, n) =
       [x \in DOMAIN InOrder(CellsFor(table_, n, j)) |->
          table_[InOrder(CellsFor(table_, n, j))[x][1]][InOrder(CellsFor(table_, n, j))[x][2]]]
  BY DEF Gathered, CellsFor, CellsOf, Cells, At
<1> QED
  BY <1>1, <1>2, <1>3, <1>4

(* Being in place, cell by cell or bucket by bucket.                       *)
LEMMA FoundInPlace ==
  ASSUME NEW n \in Nat, NEW table \in Tables(n)
  PROVE  InPlace(n, table) <=>
           \A i \in DOMAIN table : \A p \in DOMAIN table[i] : Hash[table[i][p].key] % n = i
<1>1. DOMAIN table = 0 .. n - 1 /\ \A i \in 0 .. n - 1 : DOMAIN table[i] = 1 .. Len(table[i])
  BY DEF Tables
<1>2. ASSUME InPlace(n, table), NEW i \in DOMAIN table, NEW p \in DOMAIN table[i]
      PROVE  Hash[table[i][p].key] % n = i
  <2>1. <<i, p>> \in CellsOf(table)
    BY <1>1, CellsAreFinite
  <2>2. \A c \in CellsOf(table) : Hash[table[c[1]][c[2]].key] % n = c[1]
    BY <1>2 DEF InPlace
  <2>3. <<i, p>>[1] = i /\ <<i, p>>[2] = p
    OBVIOUS
  <2> QED
    BY <2>1, <2>2, <2>3
<1>3. ASSUME \A i \in DOMAIN table : \A p \in DOMAIN table[i] : Hash[table[i][p].key] % n = i,
             NEW c \in CellsOf(table)
      PROVE  Hash[table[c[1]][c[2]].key] % n = c[1]
  <2>1. c[1] \in DOMAIN table /\ c[2] \in DOMAIN table[c[1]]
    BY <1>1, CellsAreFinite
  <2> QED
    BY <1>3, <2>1
<1> QED
  BY <1>2, <1>3 DEF InPlace

(* ElementsAreFound is being in place, before and after a step.            *)
LEMMA FoundIsInPlace ==
  /\ TypesAgree => (ElementsAreFound <=> InPlace(bucket_cnt_, table_))
  /\ (TypesAgree => (ElementsAreFound <=> InPlace(bucket_cnt_, table_)))'
<1>1. TypesAgree => (ElementsAreFound <=> InPlace(bucket_cnt_, table_))
  BY FoundInPlace DEF TypesAgree, ElementsAreFound, Index
<1>2. (TypesAgree => (ElementsAreFound <=> InPlace(bucket_cnt_, table_)))'
  BY FoundInPlace DEF TypesAgree, ElementsAreFound, Index
<1> QED
  BY <1>1, <1>2

(* A key is found when it has a value, and then with its first.            *)
LEMMA LooksUpFirstValue ==
  ASSUME MapInv, NEW k \in Keys
  PROVE  /\ LookUp(k) = IF ValuesIn(table_, k) = <<>> THEN None ELSE Head(ValuesIn(table_, k))
         /\ LookUp(k) = None <=> ValuesIn(table_, k) = <<>>
         /\ ValuesIn(table_, k) # <<>> => Places(k) # {} /\ Min(Places(k)) \in Places(k)
<1> DEFINE n == bucket_cnt_
<1>1. n \in Nat \ {0} /\ table_ \in Tables(n) /\ InPlace(n, table_)
  BY FoundIsInPlace DEF MapInv, TypesAgree
<1>2. Places(k) = PlacesIn(n, table_, k)
  BY ModelTable
<1>3. Places(k) = {} => ValuesIn(table_, k) = <<>>
  BY <1>1, <1>2, FirstPlaceHasFirstValue
<1>4. Places(k) # {} =>
        /\ ValuesIn(table_, k) # <<>> /\ Min(Places(k)) \in Places(k)
        /\ Head(ValuesIn(table_, k)) = table_[Hash[k] % n][Min(Places(k))].value
        /\ table_[Hash[k] % n][Min(Places(k))].value \in Values
  BY <1>1, <1>2, FirstPlaceHasFirstValue
<1>5. None \notin Values
  BY MapAssumption
<1>6. LookUp(k) = IF Places(k) = {} THEN None ELSE table_[Hash[k] % n][Min(Places(k))].value
  BY DEF LookUp, Bucket, Index
<1> QED
  BY <1>3, <1>4, <1>5, <1>6

-----------------------------------------------------------------------------
(* What the steps that change the table do to the values of the keys.      *)
LEMMA PushChangesValues ==
  ASSUME MapInv, NEW t \in Threads, InsertPushes(t)
  PROVE  \E k \in Keys, v \in Values :
           /\ arg[t] = <<k, v>> /\ reply' = <<"insert", k, TRUE>>
           /\ table_' \in Tables(bucket_cnt_) /\ InPlace(bucket_cnt_, table_')
           /\ ValuesIn(table_', k) = Append(ValuesIn(table_, k), v)
           /\ \A j \in Keys \ {k} : ValuesIn(table_', j) = ValuesIn(table_, j)
           /\ ElementsIn(table_') = ElementsIn(table_) + 1
<1>1. PICK n \in Nat \ {0} : n = bucket_cnt_
  BY DEF MapInv, TypesAgree
<1>2. table_ \in Tables(n) /\ InPlace(n, table_)
  BY <1>1, FoundIsInPlace DEF MapInv, TypesAgree
<1>3. PICK k \in Keys, v \in Values : arg[t] = <<k, v>>
  BY DEF MapInv, TypesAgree, InsertPushes
<1>4. table_' = [table_ EXCEPT ![Hash[k] % n] = Append(@, [key |-> k, value |-> v])]
      /\ reply' = <<"insert", k, TRUE>>
  BY <1>1, <1>3 DEF InsertPushes, Index
<1>5. PICK i \in 0 .. n - 1 : i = Hash[k] % n
  BY KeyHasBucket
<1>6. [key |-> k, value |-> v] \in Elements
  BY DEF Elements
<1> DEFINE e == [key |-> k, value |-> v]
<1> HIDE DEF e
<1>7. Append(table_[i], e) \in Seq(Elements)
  <2>1. table_[i] \in Seq(Elements)
    BY <1>2 DEF Tables
  <2> QED
    BY <1>6, <2>1, AppendProperties DEF e
<1>8. table_' = [table_ EXCEPT ![i] = Append(table_[i], e)]
  BY <1>4, <1>5 DEF e
<1>9. table_' \in Tables(n) /\ table_'[i] = Append(table_[i], e)
      /\ \A j \in 0 .. n - 1 : j # i => table_'[j] = table_[j]
  BY <1>2, <1>7, <1>8 DEF Tables
<1>10. PICK table2 \in Tables(n) : table2 = table_'
  BY <1>9
<1>11. /\ table2[Hash[k] % n] = Append(table_[Hash[k] % n], [key |-> k, value |-> v])
       /\ \A j \in 0 .. n - 1 : j # Hash[k] % n => table2[j] = table_[j]
  BY <1>5, <1>9, <1>10 DEF e
<1>12. /\ InPlace(n, table2)
       /\ ValuesIn(table2, k) = Append(ValuesIn(table_, k), v)
       /\ \A j \in Keys \ {k} : ValuesIn(table2, j) = ValuesIn(table_, j)
       /\ ElementsIn(table2) = ElementsIn(table_) + 1
  <2> HIDE <1>4, <1>8, <1>9, <1>10
  <2>1. PICK table \in Tables(n) : table = table_
    BY <1>2
  <2>2. /\ n \in Nat \ {0} /\ InPlace(n, table)
        /\ table2[Hash[k] % n] = Append(table[Hash[k] % n], [key |-> k, value |-> v])
        /\ \A j \in 0 .. n - 1 : j # Hash[k] % n => table2[j] = table[j]
    BY <1>2, <1>11, <2>1
  <2>3. /\ InPlace(n, table2)
        /\ ValuesIn(table2, k) = Append(ValuesIn(table, k), v)
        /\ \A j \in Keys \ {k} : ValuesIn(table2, j) = ValuesIn(table, j)
        /\ ElementsIn(table2) = ElementsIn(table) + 1
    BY <2>2, PushedElement
  <2> QED
    BY <2>1, <2>3
<1> QED
  BY <1>1, <1>3, <1>4, <1>9, <1>10, <1>12

(* Erase takes the first value of its key and no other.                    *)
LEMMA EraseChangesValues ==
  ASSUME MapInv, NEW t \in Threads, NEW k \in Keys, Erase(t, k), LookUp(k) # None
  PROVE  /\ table_' \in Tables(bucket_cnt_) /\ InPlace(bucket_cnt_, table_')
         /\ ValuesIn(table_', k) = Tail(ValuesIn(table_, k))
         /\ \A j \in Keys \ {k} : ValuesIn(table_', j) = ValuesIn(table_, j)
         /\ ElementsIn(table_') = ElementsIn(table_) - 1
<1>1. PICK n \in Nat \ {0} : n = bucket_cnt_
  BY DEF MapInv, TypesAgree
<1>2. table_ \in Tables(n) /\ InPlace(n, table_)
  BY <1>1, FoundIsInPlace DEF MapInv, TypesAgree
<1>3. PICK i \in 0 .. n - 1 : i = Hash[k] % n
  BY KeyHasBucket
<1>4. Places(k) = PlacesIn(n, table_, k) /\ Places(k) # {}
  BY <1>1, LooksUpFirstValue, ModelTable
<1>5. PICK p \in 1 .. Len(table_[i]) : p = Min(Places(k))
  BY <1>2, <1>3, <1>4, FirstPlaceHasFirstValue
<1>6. RemoveAt(table_[i], p) \in Seq(Elements)
  <2>1. table_[i] \in Seq(Elements)
    BY <1>2 DEF Tables
  <2> QED
    BY <2>1, RemovedElement
<1>7. table_' = [table_ EXCEPT ![i] = RemoveAt(table_[i], p)]
  BY <1>1, <1>3, <1>5 DEF Erase, Index
<1>8. table_' \in Tables(n) /\ table_'[i] = RemoveAt(table_[i], p)
      /\ \A j \in 0 .. n - 1 : j # i => table_'[j] = table_[j]
  BY <1>2, <1>6, <1>7 DEF Tables
<1>9. PICK table2 \in Tables(n) : table2 = table_'
  BY <1>8
<1>10. /\ table2[Hash[k] % n] = RemoveAt(table_[Hash[k] % n], Min(PlacesIn(n, table_, k)))
       /\ \A j \in 0 .. n - 1 : j # Hash[k] % n => table2[j] = table_[j]
  BY <1>3, <1>4, <1>5, <1>8, <1>9
<1>11. /\ InPlace(n, table2)
       /\ ValuesIn(table2, k) = Tail(ValuesIn(table_, k))
       /\ \A j \in Keys \ {k} : ValuesIn(table2, j) = ValuesIn(table_, j)
       /\ ElementsIn(table2) = ElementsIn(table_) - 1
  <2>1. PlacesIn(n, table_, k) # {}
    BY <1>4
  <2> HIDE <1>7, <1>8, <1>9
  <2> QED
    BY <1>2, <1>10, <2>1, ErasedElement
<1> QED
  BY <1>1, <1>8, <1>9, <1>11

(* A rehash changes neither the values of a key nor their order nor their  *)
(* number.                                                                 *)
LEMMA RehashKeepsValues ==
  ASSUME MapInv, NEW t \in Threads, RehashAll(t)
  PROVE  /\ bucket_cnt_' \in Nat \ {0}
         /\ table_' \in Tables(bucket_cnt_') /\ InPlace(bucket_cnt_', table_')
         /\ \A k \in Keys : ValuesIn(table_', k) = ValuesIn(table_, k)
         /\ ElementsIn(table_') = ElementsIn(table_)
<1>1. PICK n \in Nat \ {0} : n = bucket_cnt_
  BY DEF MapInv, TypesAgree
<1>2. table_ \in Tables(n)
  BY <1>1 DEF MapInv, TypesAgree
<1>3. Growth * n \in Nat \ {0}
  BY MapAssumption
<1>4. PICK m \in Nat \ {0} : m = Growth * n
  BY <1>3
<1>5. bucket_cnt_' = m /\ table_' = [j \in 0 .. m - 1 |-> Gathered(j, m)]
  BY <1>1, <1>4 DEF RehashAll
<1>6. table_' = [j \in 0 .. m - 1 |->
         [x \in DOMAIN InOrder(CellsFor(table_, m, j)) |->
            table_[InOrder(CellsFor(table_, m, j))[x][1]][InOrder(CellsFor(table_, m, j))[x][2]]]]
  BY <1>5, ModelTable
<1>7. /\ table_' \in Tables(m)
      /\ \A j \in 0 .. m - 1 :
              /\ DOMAIN table_'[j] = DOMAIN InOrder(CellsFor(table_, m, j))
              /\ Len(table_'[j]) = Len(InOrder(CellsFor(table_, m, j)))
              /\ \A x \in DOMAIN table_'[j] : \A c :
                   c = InOrder(CellsFor(table_, m, j))[x] => table_'[j][x] = table_[c[1]][c[2]]
  BY <1>2, <1>6, RehashedTable
<1>8. /\ InPlace(m, table_') /\ \A k \in Keys : ValuesIn(table_', k) = ValuesIn(table_, k)
      /\ ElementsIn(table_') = ElementsIn(table_)
  <2> HIDE <1>5, <1>6
  <2> QED
    BY <1>2, <1>7, RehashedElements
<1> QED
  BY <1>5, <1>7, <1>8

(* After Clear no key has a value.                                         *)
LEMMA ClearEmptiesValues ==
  ASSUME MapInv, NEW t \in Threads, ClearAll(t)
  PROVE  /\ table_' \in Tables(bucket_cnt_) /\ InPlace(bucket_cnt_, table_')
         /\ \A k : ValuesIn(table_', k) = <<>>
         /\ ElementsIn(table_') = 0
<1>1. PICK n \in Nat \ {0} : n = bucket_cnt_ /\ table_ \in Tables(n)
  BY DEF MapInv, TypesAgree
<1>2. table_' = [i \in 0 .. n - 1 |-> <<>>]
  BY <1>1 DEF ClearAll, Tables
<1>3. n \in Nat
  OBVIOUS
<1> QED
  BY <1>1, <1>2, <1>3, EmptyTable

-----------------------------------------------------------------------------
(* The table of a constructor satisfies the invariant.                     *)
LEMMA InitMapInv == Init => MapInv
<1> SUFFICES ASSUME Init PROVE MapInv
  OBVIOUS
<1>1. LockCount \in Nat \ {0} /\ LockCount \in Nat /\ None \notin Threads
  BY MapAssumption
<1>2. table_ \in Tables(LockCount) /\ InPlace(LockCount, table_) /\ bucket_cnt_ = LockCount
  BY <1>1, EmptyTable DEF Init
<1>3. TypesAgree
  BY <1>1, <1>2 DEF Init, TypesAgree
<1>4. BucketsForMutexes
  <2>1. bucket_cnt_ = 1 * LockCount /\ 1 \in Nat \ {0}
    BY <1>1, <1>2
  <2> QED
    BY <2>1 DEF BucketsForMutexes
<1>5. ElementsAreFound
  BY <1>2, <1>3, FoundIsInPlace
<1>6. MutexesInOrder
  <2> SUFFICES ASSUME NEW t \in Threads
               PROVE  /\ Taken(t) \in 0 .. LockCount
                      /\ \A i \in 0 .. LockCount - 1 : lock_[i] = t <=> i < Taken(t)
                      /\ pc[t] = "unlock" => num[t] # 0
                      /\ pc[t] \in {"idle", "inserting", "inserted"} => num[t] = 0
    BY DEF MutexesInOrder
  <2>1. pc[t] = "idle" /\ num[t] = 0 /\ Taken(t) = 0
    BY DEF Init, Taken
  <2>2. \A i \in 0 .. LockCount - 1 : lock_[i] = None
    BY DEF Init
  <2> QED
    BY <1>1, <2>1, <2>2
<1> QED
  BY <1>3, <1>4, <1>5, <1>6 DEF MapInv

(* Every step keeps the types.                                             *)
LEMMA NextTypesAgree ==
  ASSUME MapInv, Next
  PROVE  TypesAgree'
<1> USE DEF MapInv, TypesAgree, Goto, SetNum
<1>1. PICK t \in Threads : Starts(t) \/ GoesOn(t)
  BY DEF Next
<1>2. ASSUME NEW k \in Keys, InsertRefuses(t, k) \/ Find(t, k)
      PROVE  TypesAgree'
  BY <1>2 DEF InsertRefuses, Find
<1>3. ASSUME NEW k \in Keys, NEW v \in Values, InsertMisses(t, k, v)
      PROVE  TypesAgree'
  BY <1>3 DEF InsertMisses
<1>4. ASSUME NEW k \in Keys, Erase(t, k)
      PROVE  TypesAgree'
  <2>1. CASE LookUp(k) = None
    BY <1>4, <2>1 DEF Erase
  <2>2. CASE LookUp(k) # None
    <3>1. table_' \in Tables(bucket_cnt_)
      BY <1>4, <2>2, EraseChangesValues
    <3> QED
      BY <1>4, <2>2, <3>1 DEF Erase
  <2> QED
    BY <2>1, <2>2
<1>5. CASE InsertPushes(t)
  <2>1. table_' \in Tables(bucket_cnt_)
    BY <1>5, PushChangesValues
  <2>2. bucket_cnt_' = bucket_cnt_ /\ lock_' = lock_ /\ size_' = size_ + 1 /\ num' = num
        /\ pc' = [pc EXCEPT ![t] = "inserted"] /\ arg' = [arg EXCEPT ![t] = None]
    BY <1>5 DEF InsertPushes
  <2> QED
    BY <2>1, <2>2
<1>6. CASE InsertReadsSize(t) \/ InsertReturns(t) \/ RehashStarts(t) \/ ClearStarts(t)
  BY <1>6, SMTT(30) DEF InsertReadsSize, InsertReturns, RehashStarts, ClearStarts
<1>7. CASE LockNext(t)
  <2>1. bucket_cnt_' = bucket_cnt_ /\ table_' = table_ /\ size_' = size_ /\ pc' = pc /\ arg' = arg
    BY <1>7 DEF LockNext
  <2> PICK x \in Int : x = num[t]
    OBVIOUS
  <2>2. lock_' = [lock_ EXCEPT ![x] = t] /\ num' = [num EXCEPT ![t] = x + 1]
    BY <1>7 DEF LockNext
  <2>3. lock_' \in [0 .. LockCount - 1 -> Threads \union {None}]
    BY <2>2
  <2>4. num' \in [Threads -> Int]
    BY <2>2
  <2> QED
    BY <2>1, <2>3, <2>4
<1>8. CASE ClearAll(t)
  <2>1. table_' \in Tables(bucket_cnt_)
    BY <1>8, ClearEmptiesValues
  <2> QED
    BY <1>8, <2>1 DEF ClearAll
<1>9. CASE RehashAll(t)
  <2>1. bucket_cnt_' \in Nat \ {0} /\ table_' \in Tables(bucket_cnt_')
    BY <1>9, RehashKeepsValues
  <2>2. lock_' = lock_ /\ size_' = size_ /\ arg' = arg /\ num' = num
        /\ pc' = [pc EXCEPT ![t] = "unlock"]
    BY <1>9 DEF RehashAll
  <2> QED
    BY <2>1, <2>2
<1>10. CASE UnlockNext(t)
  <2>1. bucket_cnt_' = bucket_cnt_ /\ table_' = table_ /\ size_' = size_ /\ arg' = arg
    BY <1>10 DEF UnlockNext
  <2> PICK x \in Int : x = num[t]
    OBVIOUS
  <2>2. lock_' = [lock_ EXCEPT ![x - 1] = None] /\ num' = [num EXCEPT ![t] = x - 1]
    BY <1>10 DEF UnlockNext
  <2>3. lock_' \in [0 .. LockCount - 1 -> Threads \union {None}]
    BY <2>2
  <2>4. num' \in [Threads -> Int]
    BY <2>2
  <2>5. pc' = pc \/ pc' = [pc EXCEPT ![t] = "idle"]
    BY <1>10 DEF UnlockNext
  <2> QED
    BY <2>1, <2>3, <2>5, <2>4
<1> QED
  BY <1>1, <1>2, <1>3, <1>4, <1>5, <1>6, <1>7, <1>8, <1>9, <1>10 DEF Starts, GoesOn

(* Every step leaves elements where they are looked for, and the number of *)
(* buckets a multiple of that of the mutexes.                              *)
LEMMA NextElementsAreFound ==
  ASSUME MapInv, Next
  PROVE  ElementsAreFound' /\ BucketsForMutexes'
<1>1. PICK t \in Threads : Starts(t) \/ GoesOn(t)
  BY DEF Next
<1>2. ASSUME UNCHANGED <<table_, bucket_cnt_>>
      PROVE  ElementsAreFound' /\ BucketsForMutexes'
  BY <1>2 DEF MapInv, ElementsAreFound, BucketsForMutexes, Index
<1>3. ASSUME bucket_cnt_' = bucket_cnt_, InPlace(bucket_cnt_, table_')
      PROVE  ElementsAreFound' /\ BucketsForMutexes'
  <2>1. InPlace(bucket_cnt_, table_)'
    BY <1>3 DEF InPlace, CellsOf
  <2>2. ElementsAreFound'
    BY <2>1, FoundIsInPlace, NextTypesAgree
  <2>3. BucketsForMutexes'
    BY <1>3 DEF MapInv, BucketsForMutexes
  <2> QED
    BY <2>2, <2>3
<1>4. CASE RehashAll(t)
  <2>1. InPlace(bucket_cnt_', table_')
    BY <1>4, RehashKeepsValues
  <2>2. InPlace(bucket_cnt_, table_)'
    BY <2>1 DEF InPlace, CellsOf
  <2>3. ElementsAreFound'
    BY <2>2, FoundIsInPlace, NextTypesAgree
  <2>4. BucketsForMutexes'
    <3>1. PICK m \in Nat \ {0} : bucket_cnt_ = m * LockCount
      BY DEF MapInv, BucketsForMutexes
    <3>2. bucket_cnt_' = Growth * (m * LockCount)
      BY <1>4, <3>1 DEF RehashAll
    <3>3. Growth \in Nat \ {0} /\ LockCount \in Nat \ {0}
      BY MapAssumption
    <3>4. Growth * (m * LockCount) = (m * Growth) * LockCount
      BY <3>3, Products
    <3>5. m * Growth \in Nat \ {0}
      BY <3>3
    <3> QED
      BY <3>2, <3>4, <3>5 DEF BucketsForMutexes
  <2> QED
    BY <2>3, <2>4
<1>5. CASE InsertPushes(t)
  <2>1. InPlace(bucket_cnt_, table_')
    BY <1>5, PushChangesValues
  <2>2. bucket_cnt_' = bucket_cnt_
    BY <1>5 DEF InsertPushes
  <2> QED
    BY <1>3, <2>1, <2>2
<1>6. ASSUME NEW k \in Keys, Erase(t, k)
      PROVE  ElementsAreFound' /\ BucketsForMutexes'
  <2>1. CASE LookUp(k) = None
    BY <1>2, <1>6, <2>1 DEF Erase
  <2>2. CASE LookUp(k) # None
    <3>1. InPlace(bucket_cnt_, table_')
      BY <1>6, <2>2, EraseChangesValues
    <3>2. bucket_cnt_' = bucket_cnt_
      BY <1>6 DEF Erase
    <3> QED
      BY <1>3, <3>1, <3>2
  <2> QED
    BY <2>1, <2>2
<1>7. CASE ClearAll(t)
  <2>1. InPlace(bucket_cnt_, table_')
    BY <1>7, ClearEmptiesValues
  <2>2. bucket_cnt_' = bucket_cnt_
    BY <1>7 DEF ClearAll
  <2> QED
    BY <1>3, <2>1, <2>2
<1>8. ASSUME \/ \E k \in Keys : InsertRefuses(t, k) \/ Find(t, k)
             \/ \E k \in Keys, v \in Values : InsertMisses(t, k, v)
             \/ ClearStarts(t) \/ InsertReadsSize(t) \/ InsertReturns(t) \/ RehashStarts(t)
             \/ LockNext(t) \/ UnlockNext(t)
      PROVE  ElementsAreFound' /\ BucketsForMutexes'
  <2>1. UNCHANGED <<table_, bucket_cnt_>>
    BY <1>8 DEF InsertRefuses, Find, InsertMisses, ClearStarts, InsertReadsSize,
                InsertReturns, RehashStarts, LockNext, UnlockNext
  <2> QED
    BY <1>2, <2>1
<1> QED
  BY <1>1, <1>4, <1>5, <1>6, <1>7, <1>8 DEF Starts, GoesOn

(* Every step keeps the mutexes taken in order: a thread holds those below *)
(* its number, and no other thread does.                                   *)
LEMMA NextMutexesInOrder ==
  ASSUME MapInv, Next
  PROVE  MutexesInOrder'
<1> USE DEF MapInv, TypesAgree, MutexesInOrder, Taken, Goto, SetNum
<1>1. PICK t \in Threads : Starts(t) \/ GoesOn(t)
  BY DEF Next
<1>2. LockCount \in Nat \ {0} /\ None \notin Threads
  BY MapAssumption
<1>3. ASSUME NEW x, NEW y, lock_' = lock_,
             pc' = [pc EXCEPT ![t] = x], num' = [num EXCEPT ![t] = y],
             (IF x \in {"clear", "rehash", "unlock"} THEN y ELSE 0) = Taken(t),
             x = "unlock" => y # 0,
             x \in {"idle", "inserting", "inserted"} => y = 0
      PROVE  MutexesInOrder'
  <2>1. \A u \in Threads : u # t => pc'[u] = pc[u] /\ num'[u] = num[u]
    BY <1>3
  <2>2. pc'[t] = x /\ num'[t] = y
    BY <1>3
  <2>3. \A u \in Threads : Taken(u)' = Taken(u)
    BY <1>3, <2>1, <2>2
  <2> QED
    BY <1>3, <2>1, <2>2, <2>3
<1>4. pc = [pc EXCEPT ![t] = pc[t]] /\ num = [num EXCEPT ![t] = num[t]]
  OBVIOUS
<1>5. pc[t] = "idle" => num[t] = 0 /\ Taken(t) = 0
  OBVIOUS
<1>6. ASSUME NEW k \in Keys, InsertRefuses(t, k) \/ Find(t, k) \/ Erase(t, k)
       PROVE  MutexesInOrder'
  <2>1. lock_' = lock_ /\ pc' = [pc EXCEPT ![t] = "idle"] /\ num' = [num EXCEPT ![t] = 0] /\ pc[t] = "idle"
    BY <1>4, <1>5, <1>6 DEF InsertRefuses, Find, Erase
  <2> QED
    BY <1>3, <1>5, <2>1
<1>7. ASSUME NEW k \in Keys, NEW v \in Values, InsertMisses(t, k, v)
       PROVE  MutexesInOrder'
  <2>1. lock_' = lock_ /\ pc' = [pc EXCEPT ![t] = "inserting"] /\ num' = [num EXCEPT ![t] = 0] /\ pc[t] = "idle"
    BY <1>4, <1>5, <1>7 DEF InsertMisses
  <2> QED
    BY <1>3, <1>5, <2>1
<1>8. CASE InsertPushes(t)
  <2>1. pc[t] = "inserting" /\ num[t] = 0 /\ Taken(t) = 0
    BY <1>8 DEF InsertPushes
  <2>2. lock_' = lock_ /\ pc' = [pc EXCEPT ![t] = "inserted"] /\ num' = [num EXCEPT ![t] = 0]
    BY <1>4, <1>8, <2>1 DEF InsertPushes
  <2> QED
    BY <1>3, <2>1, <2>2
<1>9. CASE InsertReadsSize(t)
  <2>1. lock_' = lock_ /\ pc' = [pc EXCEPT ![t] = "sized"] /\ num' = [num EXCEPT ![t] = size_]
        /\ Taken(t) = 0
    BY <1>9 DEF InsertReadsSize
  <2> QED
    BY <1>3, <2>1
<1>10. ASSUME InsertReturns(t) \/ RehashStarts(t)
       PROVE  MutexesInOrder'
  <2>1. PICK x \in {"idle", "rehash"} : pc' = [pc EXCEPT ![t] = x]
    BY <1>10 DEF InsertReturns, RehashStarts
  <2>2. lock_' = lock_ /\ num' = [num EXCEPT ![t] = 0] /\ Taken(t) = 0
    BY <1>10 DEF InsertReturns, RehashStarts
  <2> QED
    BY <1>3, <2>1, <2>2
<1>11. CASE ClearStarts(t)
  <2>1. lock_' = lock_ /\ pc' = [pc EXCEPT ![t] = "clear"] /\ num' = [num EXCEPT ![t] = 0] /\ Taken(t) = 0
    BY <1>4, <1>5, <1>11 DEF ClearStarts
  <2> QED
    BY <1>3, <2>1
<1>12. ASSUME ClearAll(t) \/ RehashAll(t)
       PROVE  MutexesInOrder'
  <2>1. lock_' = lock_ /\ pc' = [pc EXCEPT ![t] = "unlock"] /\ num' = num
        /\ num[t] = LockCount /\ Taken(t) = LockCount
    BY <1>12 DEF ClearAll, RehashAll
  <2>2. num' = [num EXCEPT ![t] = LockCount]
    BY <1>4, <2>1
  <2> QED
    BY <1>2, <1>3, <2>1, <2>2
<1>13. CASE LockNext(t)
  <2>1. pc[t] \in {"clear", "rehash"} /\ num[t] < LockCount
    BY <1>13 DEF LockNext
  <2>2. num[t] \in 0 .. LockCount - 1 /\ lock_[num[t]] = None
        /\ lock_' = [lock_ EXCEPT ![num[t]] = t] /\ num' = [num EXCEPT ![t] = num[t] + 1] /\ pc' = pc
        /\ pc[t] \in {"clear", "rehash"}
    <3>1. num[t] \in 0 .. LockCount - 1
      BY <1>2, <2>1
    <3> QED
      BY <1>13, <2>1, <3>1 DEF LockNext
  <2>3. /\ Taken(t) = num[t] /\ Taken(t)' = num[t] + 1
        /\ \A u \in Threads : u # t => Taken(u)' = Taken(u) /\ pc'[u] = pc[u] /\ num'[u] = num[u]
    BY <2>2
  <2>4. \A i \in 0 .. LockCount - 1 : lock_'[i] = IF i = num[t] THEN t ELSE lock_[i]
    BY <2>2
  <2> SUFFICES ASSUME NEW u \in Threads
               PROVE  /\ Taken(u)' \in 0 .. LockCount
                      /\ \A i \in 0 .. LockCount - 1 : lock_'[i] = u <=> i < Taken(u)'
                      /\ pc'[u] = "unlock" => num'[u] # 0
                      /\ pc'[u] \in {"idle", "inserting", "inserted"} => num'[u] = 0
    OBVIOUS
  <2> HIDE DEF Taken
  <2>5. CASE u = t
    BY <1>2, <2>2, <2>3, <2>4, <2>5
  <2>6. CASE u # t
    BY <1>2, <2>2, <2>3, <2>4, <2>6
  <2> QED
    BY <2>5, <2>6
<1>14. CASE UnlockNext(t)
  <2>1. num[t] \in 1 .. LockCount /\ pc[t] = "unlock"
        /\ lock_' = [lock_ EXCEPT ![num[t] - 1] = None] /\ num' = [num EXCEPT ![t] = num[t] - 1]
    BY <1>14 DEF UnlockNext
  <2>2. lock_[num[t] - 1] = t
    BY <1>2, <2>1
  <2>3. CASE num[t] = 1
    BY <1>2, <1>14, <2>1, <2>2, <2>3 DEF UnlockNext
  <2>4. CASE num[t] # 1
    BY <1>2, <1>14, <2>1, <2>2, <2>4 DEF UnlockNext
  <2> QED
    BY <2>3, <2>4
<1> QED
  BY <1>1, <1>13, <1>14, <1>6, <1>7, <1>8, <1>9, <1>10, <1>11, <1>12 DEF Starts, GoesOn

-----------------------------------------------------------------------------
(* Nothing changes when nothing changes.                                   *)
LEMMA StutterMapInv == MapInv /\ UNCHANGED vars => MapInv'
<1> SUFFICES ASSUME MapInv, UNCHANGED vars PROVE MapInv'
  OBVIOUS
<1> USE DEF vars, MapInv
<1>1. TypesAgree'
  BY DEF TypesAgree, Tables
<1>2. BucketsForMutexes'
  BY DEF BucketsForMutexes
<1>3. ElementsAreFound'
  BY DEF ElementsAreFound, Index
<1>4. MutexesInOrder'
  BY DEF MutexesInOrder, Taken
<1> QED
  BY <1>1, <1>2, <1>3, <1>4

(* For every number of threads, keys and mutexes: the invariant holds in   *)
(* every reachable state.                                                  *)
LEMMA MapInvariant == Spec => []MapInv
<1>1. MapInv /\ [Next]_vars => MapInv'
  <2> SUFFICES ASSUME MapInv, [Next]_vars PROVE MapInv'
    OBVIOUS
  <2>1. CASE Next
    BY <2>1, NextTypesAgree, NextElementsAreFound, NextMutexesInOrder DEF MapInv
  <2>2. CASE UNCHANGED vars
    BY <2>2, StutterMapInv
  <2> QED
    BY <2>1, <2>2
<1> QED
  BY <1>1, InitMapInv, PTL DEF Spec

(* Insert counts its element, Erase uncounts the one it takes, Clear        *)
(* counts none and Rehash loses none.                                      *)
LEMMA NextSizeCountsElements ==
  ASSUME MapInv, SizeCountsElements, Next
  PROVE  SizeCountsElements'
<1>1. SizeCountsElements <=> size_ = ElementsIn(table_)
  BY DEF SizeCountsElements, ElementsIn, CellsOf, Cells
<1>2. SizeCountsElements' <=> size_' = ElementsIn(table_')
  BY DEF SizeCountsElements, ElementsIn, CellsOf, Cells
<1>3. PICK t \in Threads : Starts(t) \/ GoesOn(t)
  BY DEF Next
<1>4. ASSUME size_' = size_, table_' = table_
      PROVE  SizeCountsElements'
  BY <1>1, <1>2, <1>4
<1>5. CASE InsertPushes(t)
  BY <1>1, <1>2, <1>5, PushChangesValues DEF InsertPushes
<1>6. ASSUME NEW k \in Keys, Erase(t, k)
      PROVE  SizeCountsElements'
  <2>1. CASE LookUp(k) = None
    BY <1>4, <1>6, <2>1 DEF Erase
  <2>2. CASE LookUp(k) # None
    BY <1>1, <1>2, <1>6, <2>2, EraseChangesValues DEF Erase
  <2> QED
    BY <2>1, <2>2
<1>7. CASE ClearAll(t)
  BY <1>2, <1>7, ClearEmptiesValues DEF ClearAll
<1>8. CASE RehashAll(t)
  BY <1>1, <1>2, <1>8, RehashKeepsValues DEF RehashAll
<1>9. ASSUME \/ \E k \in Keys : InsertRefuses(t, k) \/ Find(t, k)
             \/ \E k \in Keys, v \in Values : InsertMisses(t, k, v)
             \/ ClearStarts(t) \/ InsertReadsSize(t) \/ InsertReturns(t) \/ RehashStarts(t)
             \/ LockNext(t) \/ UnlockNext(t)
      PROVE  SizeCountsElements'
  <2>1. size_' = size_ /\ table_' = table_
    BY <1>9 DEF InsertRefuses, Find, InsertMisses, ClearStarts, InsertReadsSize,
                InsertReturns, RehashStarts, LockNext, UnlockNext
  <2> QED
    BY <1>4, <2>1
<1> QED
  BY <1>3, <1>5, <1>6, <1>7, <1>8, <1>9 DEF Starts, GoesOn

(* The count is right in every reachable state.                            *)
LEMMA SizeInvariant == Spec => []SizeCountsElements
<1>1. Init => SizeCountsElements
  <2> SUFFICES ASSUME Init PROVE SizeCountsElements
    OBVIOUS
  <2>1. ElementsIn(table_) = 0 /\ size_ = 0
    BY MapAssumption, EmptyTable DEF Init
  <2> QED
    BY <2>1 DEF SizeCountsElements, ElementsIn, CellsOf, Cells
<1>2. MapInv /\ SizeCountsElements /\ [Next]_vars => SizeCountsElements'
  <2> SUFFICES ASSUME MapInv, SizeCountsElements, [Next]_vars PROVE SizeCountsElements'
    OBVIOUS
  <2>1. CASE Next
    BY <2>1, NextSizeCountsElements
  <2>2. CASE UNCHANGED vars
    BY <2>2 DEF vars, SizeCountsElements, Cells
  <2> QED
    BY <2>1, <2>2
<1> QED
  BY <1>1, <1>2, MapInvariant, PTL DEF Spec

(* For all keys, hashes, numbers of mutexes and growths: keys that share a *)
(* bucket share its mutex, every element is in the bucket where it is      *)
(* looked for, whatever rehash its Insert met, and size_ counts them.      *)
THEOREM MapBucketsInOrder == Spec => []BucketsInOrder
<1>1. MapInv /\ SizeCountsElements => BucketsInOrder
  <2> SUFFICES ASSUME MapInv, SizeCountsElements PROVE BucketsInOrder
    OBVIOUS
  <2>1. ASSUME NEW j \in Keys, NEW k \in Keys, Index(j) = Index(k)
        PROVE  Hash[j] % LockCount = Hash[k] % LockCount
    <3>1. PICK m \in Nat \ {0} : bucket_cnt_ = m * LockCount
      BY DEF MapInv, BucketsForMutexes
    <3>2. Hash[j] \in Nat /\ Hash[k] \in Nat /\ LockCount \in Nat \ {0}
      BY MapAssumption
    <3>3. Hash[j] % (m * LockCount) = Hash[k] % (m * LockCount)
      BY <2>1, <3>1 DEF Index
    <3>4. /\ Hash[j] % LockCount = (Hash[j] % (m * LockCount)) % LockCount
          /\ Hash[k] % LockCount = (Hash[k] % (m * LockCount)) % LockCount
      BY <3>2, RemainderOfRemainder
    <3> QED
      BY <3>3, <3>4
  <2> QED
    BY <2>1 DEF MapInv, BucketsInOrder, MutexGuardsBucket
<1> QED
  BY <1>1, MapInvariant, SizeInvariant, PTL

(* A thread that holds all mutexes to empty or rehash the table leaves no  *)
(* key that another could lock.                                            *)
LocksEveryKey ==
  \A t \in Threads :
    pc[t] \in {"clear", "rehash"} /\ num[t] = LockCount => \A k \in Keys : ~ Lockable(k)

(* For every number of threads, keys and mutexes: while a thread empties   *)
(* or rehashes the table nobody can lock any key, so that what the code    *)
(* does there bucket by bucket may be one step.                            *)
THEOREM MapChangesAllAlone == Spec => []LocksEveryKey
<1>1. MapInv => LocksEveryKey
  <2> SUFFICES ASSUME MapInv, NEW t \in Threads, pc[t] \in {"clear", "rehash"}, num[t] = LockCount,
                      NEW k \in Keys
               PROVE  ~ Lockable(k)
    BY DEF LocksEveryKey
  <2>1. LockCount \in Nat \ {0} /\ None \notin Threads
    BY MapAssumption
  <2>2. PICK i \in 0 .. LockCount - 1 : i = Hash[k] % LockCount
    BY <2>1, KeyHasBucket
  <2>3. lock_[i] = t
    BY <2>1, <2>2 DEF MapInv, MutexesInOrder, Taken
  <2> QED
    BY <2>1, <2>2, <2>3 DEF Lockable
<1> QED
  BY <1>1, MapInvariant, PTL

-----------------------------------------------------------------------------
(* The empty table is the empty map.                                       *)
LEMMA InitRefines == Init => Abstract!Init
<1> SUFFICES ASSUME Init PROVE Abstract!Init
  OBVIOUS
<1>1. \A k \in Keys : ValuesOf(k) = <<>>
  BY MapAssumption, ModelTable, EmptyTable DEF Init
<1> QED
  BY <1>1 DEF Init, Abstract!Init, Contents

(* A step that leaves the values of all keys as they are.                  *)
LEMMA SameValues ==
  ASSUME \A k \in Keys : ValuesIn(table_', k) = ValuesIn(table_, k)
  PROVE  Contents' = Contents
BY ModelTable DEF Contents

(* A step that leaves the table alone leaves the map alone.                *)
LEMMA SameTableSameValues ==
  ASSUME table_' = table_
  PROVE  Contents' = Contents
BY SameValues

(* Every step is one of the map, invisible to it, or the named exception.  *)
LEMMA NextRefines ==
  ASSUME MapInv, Next
  PROVE  [Abstract!Next \/ InsertsTwice]_(Abstract!vars)
<1>1. PICK t \in Threads : Starts(t) \/ GoesOn(t)
  BY DEF Next
<1>2. /\ \A k \in Keys : Contents[k] = ValuesIn(table_, k)
      /\ \A k \in Keys : Contents'[k] = ValuesIn(table_', k)
  BY ModelTable DEF Contents
<1>3. pc \in [Threads -> {"idle", "inserting", "inserted", "sized", "clear", "rehash", "unlock"}]
      /\ arg \in [Threads -> (Keys \X Values) \union {None}]
  BY DEF MapInv, TypesAgree
<1>4. ASSUME NEW k \in Keys, InsertRefuses(t, k)
      PROVE  Abstract!Refuse(k)
  <2>1. ValuesIn(table_, k) # <<>>
    BY <1>4, LooksUpFirstValue DEF InsertRefuses
  <2>2. Contents' = Contents /\ size_' = size_ /\ reply' = <<"insert", k, FALSE>>
    BY <1>4, SameTableSameValues DEF InsertRefuses
  <2> QED
    BY <1>2, <2>1, <2>2 DEF Abstract!Refuse
<1>5. ASSUME NEW k \in Keys, NEW v \in Values, InsertMisses(t, k, v)
      PROVE  UNCHANGED Abstract!vars
  <2>1. Contents' = Contents /\ size_' = size_ /\ reply' = reply
    BY <1>5, SameTableSameValues DEF InsertMisses
  <2> QED
    BY <2>1 DEF Abstract!vars
<1>6. ASSUME NEW k \in Keys, Find(t, k)
      PROVE  Abstract!Find(k)
  <2>1. reply' = <<"find", k, IF Contents[k] = <<>> THEN None ELSE Head(Contents[k])>>
    BY <1>2, <1>6, LooksUpFirstValue DEF Find
  <2>2. Contents' = Contents /\ size_' = size_
    BY <1>6, SameTableSameValues DEF Find
  <2> QED
    BY <2>1, <2>2 DEF Abstract!Find
<1>7. ASSUME NEW k \in Keys, Erase(t, k)
      PROVE  Abstract!Erase(k) \/ Abstract!EraseNothing(k)
  <2>2. CASE LookUp(k) = None
    <3>1. Contents[k] = <<>> /\ Contents' = Contents /\ size_' = size_
      BY <1>2, <1>7, <2>2, LooksUpFirstValue, SameTableSameValues DEF Erase
    <3>2. (LookUp(k) # None) = FALSE
      BY <2>2
    <3>3. reply' = <<"erase", k, FALSE>>
      BY <1>7, <3>2 DEF Erase
    <3> QED
      BY <3>1, <3>3 DEF Abstract!EraseNothing
  <2>3. CASE LookUp(k) # None
    <3>1. Contents[k] # <<>>
      BY <1>2, <2>3, LooksUpFirstValue
    <3>2. Contents' = [Contents EXCEPT ![k] = Tail(Contents[k])]
      <4>1. /\ Contents'[k] = Tail(Contents[k])
            /\ \A j \in Keys \ {k} : Contents'[j] = Contents[j]
        BY <1>2, <1>7, <2>3, EraseChangesValues
      <4>2. DOMAIN Contents = Keys /\ DOMAIN Contents' = Keys
            /\ Contents = [j \in Keys |-> Contents[j]] /\ Contents' = [j \in Keys |-> Contents'[j]]
        BY DEF Contents
      <4> HIDE <1>2
      <4> QED
        BY <4>1, <4>2
    <3>3. (LookUp(k) # None) = TRUE
      BY <2>3
    <3>4. reply' = <<"erase", k, TRUE>> /\ size_' = size_ - 1
      BY <1>7, <2>3, <3>3 DEF Erase
    <3> QED
      BY <3>1, <3>2, <3>4 DEF Abstract!Erase
  <2> QED
    BY <2>2, <2>3
<1>8. CASE InsertPushes(t)
  <2>1. PICK k \in Keys, v \in Values :
           /\ arg[t] = <<k, v>> /\ reply' = <<"insert", k, TRUE>>
           /\ ValuesIn(table_', k) = Append(ValuesIn(table_, k), v)
           /\ \A j \in Keys \ {k} : ValuesIn(table_', j) = ValuesIn(table_, j)
    BY <1>8, PushChangesValues
  <2>2. Contents' = [Contents EXCEPT ![k] = Append(Contents[k], v)]
    <3>1. /\ Contents'[k] = Append(Contents[k], v)
          /\ \A j \in Keys \ {k} : Contents'[j] = Contents[j]
      BY <1>2, <2>1
    <3>2. DOMAIN Contents = Keys /\ DOMAIN Contents' = Keys
          /\ Contents = [j \in Keys |-> Contents[j]] /\ Contents' = [j \in Keys |-> Contents'[j]]
      BY DEF Contents
    <3> HIDE <1>2
    <3> QED
      BY <3>1, <3>2
  <2>3. size_' = size_ + 1 /\ reply' = <<"insert", k, TRUE>> /\ pc[t] = "inserting"
    BY <1>8, <2>1 DEF InsertPushes
  <2>4. CASE Contents[k] = <<>>
    <3>1. Abstract!Insert(k, v)
      BY <2>2, <2>3, <2>4 DEF Abstract!Insert
    <3> QED
      BY <3>1 DEF Abstract!Next
  <2>5. CASE Contents[k] # <<>>
    <3>1. /\ pc[t] = "inserting" /\ arg[t] = <<k, v>>
          /\ Contents[k] # <<>>
          /\ Contents' = [Contents EXCEPT ![k] = Append(Contents[k], v)]
          /\ size_' = size_ + 1
          /\ reply' = <<"insert", k, TRUE>>
      BY <2>1, <2>2, <2>3, <2>5
    <3> QED
      BY ONLY <3>1, t \in Threads, k \in Keys, v \in Values DEF InsertsTwice
  <2> QED
    BY <2>4, <2>5
<1>9. ASSUME InsertReadsSize(t) \/ InsertReturns(t) \/ RehashStarts(t) \/ ClearStarts(t)
              \/ LockNext(t) \/ UnlockNext(t)
       PROVE  UNCHANGED Abstract!vars
  <2>1. table_' = table_ /\ size_' = size_ /\ reply' = reply
    BY <1>9 DEF InsertReadsSize, InsertReturns, RehashStarts, ClearStarts, LockNext, UnlockNext
  <2>2. Contents' = Contents
    BY <2>1, SameTableSameValues
  <2> QED
    BY <2>1, <2>2 DEF Abstract!vars
<1>10. CASE RehashAll(t)
  <2>1. Contents' = Contents
    BY <1>10, RehashKeepsValues, SameValues
  <2>2. size_' = size_ /\ reply' = reply
    BY <1>10 DEF RehashAll
  <2> QED
    BY <2>1, <2>2 DEF Abstract!vars
<1>11. CASE ClearAll(t)
  <2>1. Contents' = [k \in Keys |-> <<>>]
    BY <1>11, ClearEmptiesValues, ModelTable DEF Contents
  <2>2. size_' = 0 /\ reply' = <<"clear">>
    BY <1>11 DEF ClearAll
  <2>3. Abstract!Clear
    BY <2>1, <2>2 DEF Abstract!Clear
  <2> QED
    BY <2>3 DEF Abstract!Next
<1>12. ASSUME Starts(t)
       PROVE  [Abstract!Next \/ InsertsTwice]_(Abstract!vars)
  <2>1. CASE ClearStarts(t)
    BY <1>9, <2>1
  <2>2. CASE \E k \in Keys : InsertRefuses(t, k) \/ Erase(t, k) \/ Find(t, k)
    BY <1>4, <1>6, <1>7, <2>2 DEF Abstract!Next
  <2>3. CASE \E k \in Keys, v \in Values : InsertMisses(t, k, v)
    BY <1>5, <2>3
  <2> QED
    BY <1>12, <2>1, <2>2, <2>3 DEF Starts
<1> QED
  BY <1>1, <1>8, <1>9, <1>10, <1>11, <1>12 DEF GoesOn

(* For all keys, hashes, tables and threads: Insert, Erase, Find, Clear    *)
(* and Rehash are the atomic operations of a map with one value a key,     *)
(* but for the Insert that pushes behind a value which came after it had   *)
(* seen its key absent.                                                    *)
THEOREM MapRefines == Spec => MapUnlessTwice
<1>1. MapInv /\ [Next]_vars => [Abstract!Next \/ InsertsTwice]_(Abstract!vars)
  <2> SUFFICES ASSUME MapInv, [Next]_vars PROVE [Abstract!Next \/ InsertsTwice]_(Abstract!vars)
    OBVIOUS
  <2>1. CASE Next
    BY <2>1, NextRefines
  <2>2. CASE UNCHANGED vars
    <3>1. Contents' = Contents
      BY <2>2, SameTableSameValues DEF vars
    <3>2. size_' = size_ /\ reply' = reply
      BY <2>2 DEF vars
    <3> QED
      BY <3>1, <3>2 DEF Abstract!vars
  <2> QED
    BY <2>1, <2>2
<1>2. Spec => Abstract!Init /\ [][Abstract!Next \/ InsertsTwice]_(Abstract!vars)
  BY <1>1, InitRefines, MapInvariant, PTL DEF Spec
<1> QED
  BY <1>2 DEF MapUnlessTwice
=============================================================================
