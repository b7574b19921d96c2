------------------------------ MODULE Counting ------------------------------
(***************************************************************************)
(* How many threads are in a given place.  The code keeps such numbers in  *)
(* plain counters (in_flight, busy, waiting, ...); the models keep, next   *)
(* to the counter, a function from threads to places, and the invariants   *)
(* say that the counter is the count.                                      *)
(*                                                                         *)
(* The lemmas say what moving one thread from a place to another does to   *)
(* the counts.  The update is given pointwise (g is f except at c), which  *)
(* the provers match more easily than an EXCEPT.                           *)
(***************************************************************************)
EXTENDS Integers, FiniteSets, FiniteSetTheorems, TLAPS

\* The members of P that f puts in place s, and their number.
In(P, f, s) == {x \in P : f[x] = s}
Count(P, f, s) == Cardinality(In(P, f, s))
-----------------------------------------------------------------------------
\* The members of a finite set that are in a place are finitely many; a
\* counter that equals a count is a natural number.
LEMMA CountType ==
  ASSUME NEW P, IsFiniteSet(P), NEW f, NEW s
  PROVE  /\ IsFiniteSet(In(P, f, s))
         /\ Count(P, f, s) \in Nat
<1>1. In(P, f, s) \in SUBSET P
  BY DEF In
<1>2. IsFiniteSet(In(P, f, s))
  BY <1>1, FS_Subset
<1> QED
  BY <1>2, FS_CardinalityType DEF Count

\* A count is zero exactly when nobody is in the place.
LEMMA CountZero ==
  ASSUME NEW P, IsFiniteSet(P), NEW f, NEW s
  PROVE  Count(P, f, s) = 0 <=> \A x \in P : f[x] # s
<1>1. IsFiniteSet(In(P, f, s))
  BY CountType
<1>2. Count(P, f, s) = 0 <=> In(P, f, s) = {}
  BY <1>1, FS_EmptySet DEF Count
<1> QED
  BY <1>2 DEF In

\* A thread in the place makes the count positive.
LEMMA CountPositive ==
  ASSUME NEW P, IsFiniteSet(P), NEW f, NEW s, NEW c \in P, f[c] = s
  PROVE  Count(P, f, s) > 0
BY CountZero, CountType

\* Moving a thread into a place it was not in adds one to the count.
LEMMA CountEnter ==
  ASSUME NEW P, IsFiniteSet(P), NEW f, NEW g, NEW c \in P, NEW s,
         \A x \in P : x # c => g[x] = f[x],
         f[c] # s, g[c] = s
  PROVE  Count(P, g, s) = Count(P, f, s) + 1
<1>1. In(P, g, s) = In(P, f, s) \cup {c}
  BY DEF In
<1>2. c \notin In(P, f, s)
  BY DEF In
<1>3. IsFiniteSet(In(P, f, s))
  BY CountType
<1> QED
  BY <1>1, <1>2, <1>3, FS_AddElement DEF Count

\* Moving a thread out of a place takes one from the count.
LEMMA CountLeave ==
  ASSUME NEW P, IsFiniteSet(P), NEW f, NEW g, NEW c \in P, NEW s,
         \A x \in P : x # c => g[x] = f[x],
         f[c] = s, g[c] # s
  PROVE  Count(P, g, s) = Count(P, f, s) - 1
<1>1. In(P, g, s) = In(P, f, s) \ {c}
  BY DEF In
<1>2. c \in In(P, f, s)
  BY DEF In
<1>3. IsFiniteSet(In(P, f, s))
  BY CountType
<1> QED
  BY <1>1, <1>2, <1>3, FS_RemoveElement DEF Count

\* Moving a thread between two other places leaves the count alone.
LEMMA CountSame ==
  ASSUME NEW P, NEW f, NEW g, NEW c \in P, NEW s,
         \A x \in P : x # c => g[x] = f[x],
         f[c] = s <=> g[c] = s
  PROVE  Count(P, g, s) = Count(P, f, s)
<1>1. In(P, g, s) = In(P, f, s)
  BY DEF In
<1> QED
  BY <1>1 DEF Count

\* The three cases at once: what the step of one thread does to a count.
LEMMA CountMove ==
  ASSUME NEW P, IsFiniteSet(P), NEW f, NEW g, NEW c \in P, NEW s,
         \A x \in P : x # c => g[x] = f[x]
  PROVE  Count(P, g, s) = Count(P, f, s) + (IF g[c] = s THEN 1 ELSE 0)
                                         - (IF f[c] = s THEN 1 ELSE 0)
<1>1. Count(P, f, s) \in Nat
  BY CountType
<1>2. CASE f[c] # s /\ g[c] = s
  <2>1. Count(P, g, s) = Count(P, f, s) + 1
    BY <1>2, CountEnter
  <2> QED
    BY <1>1, <1>2, <2>1
<1>3. CASE f[c] = s /\ g[c] # s
  <2>1. Count(P, g, s) = Count(P, f, s) - 1
    BY <1>3, CountLeave
  <2> QED
    BY <1>1, <1>3, <2>1
<1>4. CASE f[c] = s <=> g[c] = s
  <2>1. Count(P, g, s) = Count(P, f, s)
    BY <1>4, CountSame
  <2> QED
    BY <1>1, <1>4, <2>1
<1> QED
  BY <1>2, <1>3, <1>4

\* The same for those that are in one of the places V.
InGroup(P, f, V) == {x \in P : f[x] \in V}

LEMMA GroupMove ==
  ASSUME NEW P, IsFiniteSet(P), NEW f, NEW g, NEW c \in P, NEW V,
         \A x \in P : x # c => g[x] = f[x]
  PROVE  Cardinality(InGroup(P, g, V)) = Cardinality(InGroup(P, f, V))
           + (IF g[c] \in V THEN 1 ELSE 0) - (IF f[c] \in V THEN 1 ELSE 0)
<1> DEFINE F == [x \in P |-> IF f[x] \in V THEN 1 ELSE 0]
           G == [x \in P |-> IF g[x] \in V THEN 1 ELSE 0]
<1>1. InGroup(P, g, V) = In(P, G, 1) /\ InGroup(P, f, V) = In(P, F, 1)
  BY DEF In, InGroup
<1>2. \A x \in P : x # c => G[x] = F[x]
  OBVIOUS
<1>4. /\ G[c] = IF g[c] \in V THEN 1 ELSE 0
      /\ F[c] = IF f[c] \in V THEN 1 ELSE 0
  OBVIOUS
<1> HIDE DEF F, G
<1>3. Count(P, G, 1) = Count(P, F, 1) + (IF G[c] = 1 THEN 1 ELSE 0)
                                      - (IF F[c] = 1 THEN 1 ELSE 0)
  BY <1>2, CountMove
<1> QED
  BY <1>1, <1>3, <1>4 DEF Count

LEMMA GroupEnter ==
  ASSUME NEW P, IsFiniteSet(P), NEW f, NEW g, NEW c \in P, NEW V,
         \A x \in P : x # c => g[x] = f[x],
         f[c] \notin V, g[c] \in V
  PROVE  Cardinality(InGroup(P, g, V)) = Cardinality(InGroup(P, f, V)) + 1
<1>1. InGroup(P, g, V) = InGroup(P, f, V) \cup {c} /\ c \notin InGroup(P, f, V)
  BY DEF InGroup
<1>2. InGroup(P, f, V) \in SUBSET P
  BY DEF InGroup
<1>3. IsFiniteSet(InGroup(P, f, V))
  BY <1>2, FS_Subset
<1> QED
  BY <1>1, <1>3, FS_AddElement
LEMMA GroupLeave ==
  ASSUME NEW P, IsFiniteSet(P), NEW f, NEW g, NEW c \in P, NEW V,
         \A x \in P : x # c => g[x] = f[x],
         f[c] \in V, g[c] \notin V
  PROVE  Cardinality(InGroup(P, g, V)) = Cardinality(InGroup(P, f, V)) - 1
<1>1. InGroup(P, g, V) = InGroup(P, f, V) \ {c} /\ c \in InGroup(P, f, V)
  BY DEF InGroup
<1>2. InGroup(P, f, V) \in SUBSET P
  BY DEF InGroup
<1>3. IsFiniteSet(InGroup(P, f, V))
  BY <1>2, FS_Subset
<1> QED
  BY <1>1, <1>3, FS_RemoveElement
LEMMA GroupSame ==
  ASSUME NEW P, NEW f, NEW g, NEW c \in P, NEW V,
         \A x \in P : x # c => g[x] = f[x],
         f[c] \in V <=> g[c] \in V
  PROVE  InGroup(P, g, V) = InGroup(P, f, V)
  BY DEF InGroup

-----------------------------------------------------------------------------
\* What is left of a finite set's cardinality when some of its members are in
\* another: all of it, all but one, or all and one more.
LEMMA SubsetKept ==
  ASSUME NEW A, NEW B, IsFiniteSet(A), IsFiniteSet(B), A \subseteq B
  PROVE  /\ Cardinality(A) \in Nat /\ Cardinality(B) \in Nat
         /\ Cardinality(A) <= Cardinality(B)
<1>1. A \in SUBSET B
  OBVIOUS
<1> QED
  BY <1>1, FS_Subset, FS_CardinalityType

LEMMA SubsetLost ==
  ASSUME NEW A, NEW B, NEW c, IsFiniteSet(A), IsFiniteSet(B), A \ {c} \subseteq B
  PROVE  /\ Cardinality(A) \in Nat /\ Cardinality(B) \in Nat
         /\ Cardinality(A) - 1 <= Cardinality(B)
<1>1. IsFiniteSet(A \ {c})
  BY FS_RemoveElement
<1>2. Cardinality(A \ {c}) <= Cardinality(B) /\ Cardinality(A \ {c}) \in Nat
  BY <1>1, SubsetKept
<1>3. Cardinality(A \ {c}) = IF c \in A THEN Cardinality(A) - 1 ELSE Cardinality(A)
  BY FS_RemoveElement
<1>4. Cardinality(A) \in Nat /\ Cardinality(B) \in Nat
  BY FS_CardinalityType
<1> QED
  BY <1>2, <1>3, <1>4

LEMMA SubsetGained ==
  ASSUME NEW A, NEW B, NEW d, IsFiniteSet(A), IsFiniteSet(B),
         d \notin A, A \cup {d} \subseteq B
  PROVE  /\ Cardinality(A) \in Nat /\ Cardinality(B) \in Nat
         /\ Cardinality(A) + 1 <= Cardinality(B)
<1>1. IsFiniteSet(A \cup {d}) /\ Cardinality(A \cup {d}) = Cardinality(A) + 1
  BY FS_AddElement
<1>2. Cardinality(A \cup {d}) <= Cardinality(B)
  BY <1>1, SubsetKept
<1>3. Cardinality(A) \in Nat /\ Cardinality(B) \in Nat
  BY FS_CardinalityType
<1> QED
  BY <1>1, <1>2, <1>3
=============================================================================
