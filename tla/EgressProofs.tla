---------------------------- MODULE EgressProofs ----------------------------
(***************************************************************************)
(* The egress of a link for every set of lanes, every credit, every set of *)
(* payload sizes and every limit: credit is conserved, what the kernel     *)
(* reads stays in place, credit that a waiting lane could have is never    *)
(* idle, and whoever has credit finds storage and a send buffer.           *)
(***************************************************************************)
EXTENDS Egress, FiniteSetTheorems, NaturalsInduction, SequenceTheorems, WellFoundedInduction, TLAPS

(* Induction, for sets instead of predicates.                              *)

\* A set of naturals that is not empty has a least element.
LEMMA LeastExists ==
  ASSUME NEW T \in SUBSET Nat, T # {}
  PROVE  \E x \in T : \A y \in T : x <= y
<1> DEFINE R == OpToRel(LAMBDA a, b : a < b, Nat)
<1>1. IsWellFoundedOn(R, Nat)
  BY NatLessThanWellFounded
<1>2. \A a, b : <<a, b>> \in R <=> a \in Nat /\ b \in Nat /\ a < b
  BY DEF OpToRel
<1> HIDE DEF R
<1>3. PICK x \in T : \A y \in T : ~(<<y, x>> \in R)
  BY <1>1, WFMin
<1>4. \A y \in T : ~(y < x)
  BY <1>2, <1>3
<1> QED BY <1>4

\* What holds of 0 and of a successor holds of all.
LEMMA Upwards ==
  ASSUME NEW S, 0 \in S, \A n \in Nat : n \in S => n + 1 \in S
  PROVE  \A n \in Nat : n \in S
<1> DEFINE T == {n \in Nat : n \notin S}
<1>1. SUFFICES ASSUME T # {} PROVE FALSE
  OBVIOUS
<1>2. PICK x \in T : \A y \in T : x <= y
  BY <1>1, LeastExists
<1>3. x # 0 /\ x - 1 \in Nat
  OBVIOUS
<1>4. x - 1 \in S
  BY <1>2, <1>3
<1> QED BY <1>3, <1>4

\* What holds of a set as soon as it holds of the set without any one of its
\* elements holds of a finite set.
LEMMA Growth ==
  ASSUME NEW S, IsFiniteSet(S), NEW P,
         \A s \in SUBSET S : (\A x \in s : s \ {x} \in P) => s \in P
  PROVE  \A s \in SUBSET S : s \in P
<1> DEFINE C == {n \in Nat : \A s \in SUBSET S : Cardinality(s) = n => s \in P}
<1>0. \A s \in SUBSET S : IsFiniteSet(s) /\ Cardinality(s) \in Nat
  BY FS_Subset, FS_CardinalityType
<1>1. 0 \in C
  <2>1. \A s \in SUBSET S : Cardinality(s) = 0 => s = {}
    BY <1>0, FS_EmptySet
  <2> QED BY <2>1
<1>2. ASSUME NEW n \in Nat, n \in C PROVE n + 1 \in C
  <2>1. SUFFICES ASSUME NEW s \in SUBSET S, Cardinality(s) = n + 1, NEW x \in s
                 PROVE  s \ {x} \in P
    OBVIOUS
  <2>2. Cardinality(s \ {x}) = n
    BY <1>0, <2>1, FS_RemoveElement
  <2> QED BY <1>2, <2>2
<1> HIDE DEF C
<1>3. \A n \in Nat : n \in C
  BY <1>1, <1>2, Upwards
<1> QED BY <1>0, <1>3 DEF C
-----------------------------------------------------------------------------
(* Sums.                                                                   *)

\* g sums f over the subsets of S, in whatever order.
IsSum(g, f, S) ==
  /\ g \in [SUBSET S -> Nat] /\ g[{}] = 0
  /\ \A s \in SUBSET S : \A x \in s : g[s] = f[x] + g[s \ {x}]

Pick(s) == CHOOSE x \in s : TRUE

\* g sums f over the subsets of S of at most n elements, in the order of
\* SumFunctionOnSet.
Small(S, n) == {s \in SUBSET S : Cardinality(s) <= n}
Partial(g, f, S, n) ==
  g = [s \in Small(S, n) |-> IF s = {} THEN 0 ELSE f[Pick(s)] + g[s \ {Pick(s)}]]

Iterates(g, f, S) ==
  g = [s \in SUBSET S |-> IF s = {} THEN 0 ELSE f[Pick(s)] + g[s \ {Pick(s)}]]

LEMMA PickIn == ASSUME NEW s, s # {} PROVE Pick(s) \in s
BY DEF Pick

\* The function that SumFunctionOnSet defines exists.
LEMMA IterExists ==
  ASSUME NEW S, IsFiniteSet(S), NEW f
  PROVE  \E g : Iterates(g, f, S)
<1>0. \A s \in SUBSET S : IsFiniteSet(s) /\ Cardinality(s) \in Nat /\ Cardinality(s) <= Cardinality(S)
  BY FS_Subset, FS_CardinalityType
<1>1. Cardinality({}) = 0 /\ \A s \in SUBSET S : Cardinality(s) = 0 <=> s = {}
  BY <1>0, FS_EmptySet
<1>2. \A s \in SUBSET S : s # {} =>
          Pick(s) \in s /\ Cardinality(s \ {Pick(s)}) = Cardinality(s) - 1
  BY <1>0, PickIn, FS_RemoveElement
<1> DEFINE C == {n \in Nat : \E g : Partial(g, f, S, n)}
<1>3. 0 \in C
  <2>1. \A s : s \in Small(S, 0) <=> s = {}
    BY <1>0, <1>1 DEF Small
  <2>2. [s \in Small(S, 0) |-> 0]
          = [s \in Small(S, 0) |-> IF s = {} THEN 0
              ELSE f[Pick(s)] + [t \in Small(S, 0) |-> 0][s \ {Pick(s)}]]
    BY <2>1
  <2>3. Partial([s \in Small(S, 0) |-> 0], f, S, 0)
    BY <2>2 DEF Partial
  <2> QED BY <2>3
<1>4. ASSUME NEW n \in Nat, n \in C PROVE n + 1 \in C
  <2>1. PICK g : Partial(g, f, S, n)
    BY <1>4
  <2> DEFINE h == [s \in Small(S, n + 1) |->
                     IF s = {} THEN 0 ELSE f[Pick(s)] + g[s \ {Pick(s)}]]
  <2>2. \A s \in Small(S, n) : s \in Small(S, n + 1) /\ h[s] = g[s]
    <3>1. \A s \in Small(S, n) : s \in Small(S, n + 1)
      BY <1>0 DEF Small
    <3>2. \A s \in Small(S, n) :
            g[s] = IF s = {} THEN 0 ELSE f[Pick(s)] + g[s \ {Pick(s)}]
      BY <2>1 DEF Partial
    <3> QED BY <3>1, <3>2
  <2>3. \A s \in Small(S, n + 1) : s # {} => s \ {Pick(s)} \in Small(S, n)
    BY <1>0, <1>2 DEF Small
  <2>4. \A s \in Small(S, n + 1) :
            h[s] = IF s = {} THEN 0 ELSE f[Pick(s)] + h[s \ {Pick(s)}]
    BY <2>2, <2>3
  <2>5. h = [s \in Small(S, n + 1) |-> h[s]]
    OBVIOUS
  <2> HIDE DEF h
  <2>6. Partial(h, f, S, n + 1)
    BY <2>4, <2>5 DEF Partial
  <2> QED BY <2>6
<1> HIDE DEF C
<1>5. Cardinality(S) \in C
  BY <1>0, <1>3, <1>4, Upwards
<1>6. PICK g : Partial(g, f, S, Cardinality(S))
  BY <1>5 DEF C
<1>7. Small(S, Cardinality(S)) = SUBSET S
  BY <1>0 DEF Small
<1> QED BY <1>6, <1>7 DEF Partial, Iterates

Iter(f, S) == CHOOSE g : Iterates(g, f, S)

Over(f, S) == FoldFunctionOnSet(LAMBDA x, n : x + n, 0, f, S)

LEMMA OverIsIter ==
  ASSUME NEW S, NEW f
  PROVE  Over(f, S) = Iter(f, S)[S]
BY DEF Over, FoldFunctionOnSet, MapThenFoldSet, Pick, Iter, Iterates

\* The fold of Total computes such a sum.
LEMMA OverIsSum ==
  ASSUME NEW S, IsFiniteSet(S), NEW f, \A x \in S : f[x] \in Nat
  PROVE  \E g : IsSum(g, f, S) /\ Over(f, S) = g[S]
<1> DEFINE g == Iter(f, S)
<1>1. g = [s \in SUBSET S |-> IF s = {} THEN 0 ELSE f[Pick(s)] + g[s \ {Pick(s)}]]
  <2>1. Iterates(g, f, S)
    BY IterExists DEF Iter
  <2> HIDE DEF g
  <2> QED BY <2>1 DEF Iterates
<1>2. Over(f, S) = g[S]
  BY OverIsIter
<1> HIDE DEF g
<1>3. g[{}] = 0
  BY <1>1
<1>4. \A s \in SUBSET S : s # {} => Pick(s) \in s /\ g[s] = f[Pick(s)] + g[s \ {Pick(s)}]
  BY <1>1, PickIn
<1> DEFINE P == {s \in SUBSET S : /\ g[s] \in Nat
                                  /\ \A x \in s : g[s] = f[x] + g[s \ {x}] /\ g[s \ {x}] \in Nat}
<1>5. ASSUME NEW s \in SUBSET S, \A y \in s : s \ {y} \in P PROVE s \in P
  <2>0. CASE s = {}
    BY <1>3, <2>0
  <2>1. CASE s # {}
    <3> DEFINE c == Pick(s)
    <3>1. c \in s /\ g[s] = f[c] + g[s \ {c}]
      BY <1>4, <2>1
    <3> HIDE DEF c
    <3>2. \A y \in s : g[s \ {y}] \in Nat /\ f[y] \in Nat
      BY <1>5
    <3>3. ASSUME NEW y \in s PROVE g[s] = f[y] + g[s \ {y}]
      <4>1. CASE y = c
        BY <3>1, <4>1
      <4>2. CASE y # c
        <5>1. y \in s \ {c} /\ c \in s \ {y}
          BY <3>1, <4>2
        <5>2. g[s \ {c}] = f[y] + g[(s \ {c}) \ {y}] /\ g[(s \ {c}) \ {y}] \in Nat
          BY <1>5, <3>1, <5>1
        <5>3. g[s \ {y}] = f[c] + g[(s \ {y}) \ {c}]
          BY <1>5, <5>1
        <5>4. (s \ {y}) \ {c} = (s \ {c}) \ {y}
          OBVIOUS
        <5>5. \A a, b, m \in Nat : a + (b + m) = b + (a + m)
          OBVIOUS
        <5>6. f[c] + (f[y] + g[(s \ {c}) \ {y}]) = f[y] + (f[c] + g[(s \ {c}) \ {y}])
          BY <3>1, <3>2, <5>2, <5>5
        <5> QED BY <3>1, <5>2, <5>3, <5>4, <5>6
      <4> QED BY <4>1, <4>2
    <3>4. g[s] \in Nat
      BY <3>1, <3>2
    <3> QED BY <3>2, <3>3, <3>4
  <2> QED BY <2>0, <2>1
<1> HIDE DEF P
<1>6. \A s \in SUBSET S : s \in P
  BY <1>5, Growth
<1>7. g \in [SUBSET S -> Nat]
  <2>1. \A s \in SUBSET S : g[s] \in Nat
    BY <1>6 DEF P
  <2> QED BY <1>1, <2>1
<1>8. \A s \in SUBSET S : \A x \in s : g[s] = f[x] + g[s \ {x}]
  BY <1>6 DEF P
<1>9. IsSum(g, f, S)
  BY <1>3, <1>7, <1>8 DEF IsSum
<1> QED BY <1>2, <1>9

\* A sum depends on the summands only.
LEMMA SumAgree ==
  ASSUME NEW S, IsFiniteSet(S), NEW T, NEW f, NEW h, NEW g, NEW k,
         IsSum(g, f, S), IsSum(k, h, T), S \subseteq T, \A x \in S : f[x] = h[x]
  PROVE  g[S] = k[S]
<1> DEFINE P == {s \in SUBSET S : g[s] = k[s]}
<1>1. ASSUME NEW s \in SUBSET S, \A x \in s : s \ {x} \in P PROVE s \in P
  <2>1. CASE s = {}
    BY <2>1 DEF IsSum
  <2>2. CASE s # {}
    <3>1. PICK x : x \in s
      BY <2>2
    <3>2. g[s] = f[x] + g[s \ {x}] /\ k[s] = h[x] + k[s \ {x}] /\ g[s \ {x}] = k[s \ {x}]
      BY <1>1, <3>1 DEF IsSum
    <3> QED BY <3>1, <3>2
  <2> QED BY <2>1, <2>2
<1> HIDE DEF P
<1>2. \A s \in SUBSET S : s \in P
  BY <1>1, Growth
<1> QED BY <1>2 DEF P

\* The sum over nothing, and what one element adds to a sum.
LEMMA OverEmpty == ASSUME NEW f PROVE Over(f, {}) = 0
<1>1. IsFiniteSet({}) /\ \A x \in {} : f[x] \in Nat
  BY FS_EmptySet
<1> QED BY <1>1, OverIsSum DEF IsSum

LEMMA OverSame ==
  ASSUME NEW S, IsFiniteSet(S), NEW f, NEW h, \A x \in S : f[x] \in Nat /\ f[x] = h[x]
  PROVE  Over(f, S) = Over(h, S)
<1>1. PICK g : IsSum(g, f, S) /\ Over(f, S) = g[S]
  BY OverIsSum
<1>2. PICK k : IsSum(k, h, S) /\ Over(h, S) = k[S]
  BY OverIsSum
<1> QED BY <1>1, <1>2, SumAgree

LEMMA OverSplit ==
  ASSUME NEW S, IsFiniteSet(S), NEW f, \A x \in S : f[x] \in Nat
  PROVE  /\ Over(f, S) \in Nat
         /\ \A x \in S : Over(f, S) = f[x] + Over(f, S \ {x})
<1>1. PICK g : IsSum(g, f, S) /\ Over(f, S) = g[S]
  BY OverIsSum
<1>2. ASSUME NEW x \in S PROVE Over(f, S) = f[x] + Over(f, S \ {x})
  <2>1. IsFiniteSet(S \ {x})
    BY FS_RemoveElement
  <2>2. PICK k : IsSum(k, f, S \ {x}) /\ Over(f, S \ {x}) = k[S \ {x}]
    BY <2>1, OverIsSum
  <2>3. k[S \ {x}] = g[S \ {x}]
    BY <1>1, <2>1, <2>2, SumAgree
  <2>4. g[S] = f[x] + g[S \ {x}]
    BY <1>1 DEF IsSum
  <2> QED BY <1>1, <2>2, <2>3, <2>4
<1>3. g[S] \in Nat
  BY <1>1 DEF IsSum
<1> QED BY <1>1, <1>2, <1>3

\* One summand changes.
LEMMA OverOne ==
  ASSUME NEW S, IsFiniteSet(S), NEW f, NEW h, NEW x \in S,
         \A y \in S : f[y] \in Nat /\ h[y] \in Nat,
         \A y \in S \ {x} : f[y] = h[y]
  PROVE  Over(h, S) + f[x] = Over(f, S) + h[x]
<1>1. IsFiniteSet(S \ {x})
  BY FS_RemoveElement
<1>2. Over(f, S \ {x}) = Over(h, S \ {x}) /\ Over(f, S \ {x}) \in Nat
  BY <1>1, OverSame, OverSplit
<1>3. Over(f, S) = f[x] + Over(f, S \ {x}) /\ Over(h, S) = h[x] + Over(h, S \ {x})
  BY OverSplit
<1>4. \A a, b, m \in Nat : (b + m) + a = (a + m) + b
  OBVIOUS
<1> QED BY <1>2, <1>3, <1>4

\* A sum of sums.
LEMMA OverPlus ==
  ASSUME NEW S, IsFiniteSet(S), NEW f, NEW g, NEW h,
         \A x \in S : f[x] \in Nat /\ g[x] \in Nat /\ h[x] = f[x] + g[x]
  PROVE  Over(h, S) = Over(f, S) + Over(g, S)
<1> DEFINE P == {s \in SUBSET S : Over(h, s) = Over(f, s) + Over(g, s)}
<1>1. ASSUME NEW s \in SUBSET S, \A x \in s : s \ {x} \in P PROVE s \in P
  <2>1. CASE s = {}
    BY <2>1, OverEmpty
  <2>2. CASE s # {}
    <3>1. PICK x : x \in s
      BY <2>2
    <3> DEFINE u == s \ {x}
    <3>2. IsFiniteSet(s) /\ IsFiniteSet(u) /\ u \in SUBSET S
      BY FS_Subset
    <3>3. /\ Over(f, s) = f[x] + Over(f, u) /\ Over(g, s) = g[x] + Over(g, u)
          /\ Over(h, s) = h[x] + Over(h, u)
      <4>1. \A y \in s : f[y] \in Nat /\ g[y] \in Nat /\ h[y] \in Nat
        OBVIOUS
      <4> QED BY <3>1, <3>2, <4>1, OverSplit
    <3>4. Over(f, u) \in Nat /\ Over(g, u) \in Nat
      BY <3>2, OverSplit
    <3>5. Over(h, u) = Over(f, u) + Over(g, u)
      BY <1>1, <3>1
    <3>6. f[x] \in Nat /\ g[x] \in Nat /\ h[x] = f[x] + g[x]
      BY <3>1
    <3> HIDE DEF u
    <3>7. \A a, b, m, n \in Nat : (a + b) + (m + n) = (a + m) + (b + n)
      OBVIOUS
    <3> QED BY <3>3, <3>4, <3>5, <3>6, <3>7
  <2> QED BY <2>1, <2>2
<1> HIDE DEF P
<1>2. \A s \in SUBSET S : s \in P
  BY <1>1, Growth
<1> QED BY <1>2 DEF P

\* A sum of larger summands is larger.
LEMMA OverLeq ==
  ASSUME NEW S, IsFiniteSet(S), NEW f, NEW h,
         \A x \in S : f[x] \in Nat /\ h[x] \in Nat /\ f[x] <= h[x]
  PROVE  Over(f, S) <= Over(h, S)
<1> DEFINE d == [x \in S |-> h[x] - f[x]]
<1>1. \A x \in S : f[x] \in Nat /\ d[x] \in Nat /\ h[x] = f[x] + d[x]
  OBVIOUS
<1> HIDE DEF d
<1>2. Over(h, S) = Over(f, S) + Over(d, S)
  BY <1>1, OverPlus
<1>3. Over(f, S) \in Nat /\ Over(d, S) \in Nat
  BY <1>1, OverSplit
<1> QED BY <1>2, <1>3

\* Equal summands.
LEMMA OverConst ==
  ASSUME NEW S, IsFiniteSet(S), NEW c \in Nat, NEW f, \A x \in S : f[x] = c
  PROVE  Over(f, S) = Cardinality(S) * c
<1> DEFINE P == {s \in SUBSET S : Over(f, s) = Cardinality(s) * c}
<1>0. \A n \in Nat : 0 * c = 0 /\ (n + 1) * c = c + n * c
  OBVIOUS
<1>1. ASSUME NEW s \in SUBSET S, \A x \in s : s \ {x} \in P PROVE s \in P
  <2>1. CASE s = {}
    BY <1>0, <2>1, OverEmpty, FS_EmptySet
  <2>2. CASE s # {}
    <3>1. PICK x : x \in s
      BY <2>2
    <3> DEFINE u == s \ {x}
    <3>2. IsFiniteSet(s) /\ IsFiniteSet(u) /\ Cardinality(u) \in Nat
          /\ Cardinality(s) = Cardinality(u) + 1
      BY <3>1, FS_Subset, FS_RemoveElement, FS_CardinalityType
    <3>3. Over(f, s) = c + Over(f, u)
      BY <3>1, <3>2, OverSplit
    <3>4. Over(f, u) = Cardinality(u) * c
      BY <1>1, <3>1
    <3> HIDE DEF u
    <3> QED BY <1>0, <3>2, <3>3, <3>4
  <2> QED BY <2>1, <2>2
<1> HIDE DEF P
<1>2. \A s \in SUBSET S : s \in P
  BY <1>1, Growth
<1> QED BY <1>2 DEF P

\* A part of the set, with summands of at least one each.
LEMMA OverCovers ==
  ASSUME NEW S, IsFiniteSet(S), NEW f, \A x \in S : f[x] \in Nat,
         NEW T \in SUBSET S, \A x \in T : f[x] >= 1
  PROVE  Cardinality(T) <= Over(f, S)
<1> DEFINE h == [x \in S |-> IF x \in T THEN 1 ELSE 0]
<1>1. Over(h, S) <= Over(f, S)
  BY OverLeq
<1> DEFINE P == {s \in SUBSET S : Over(h, s) = Cardinality(s \cap T)}
<1>2. ASSUME NEW s \in SUBSET S, \A x \in s : s \ {x} \in P PROVE s \in P
  <2>1. CASE s = {}
    <3>1. s \cap T = {}
      BY <2>1
    <3> QED BY <2>1, <3>1, OverEmpty, FS_EmptySet
  <2>2. CASE s # {}
    <3>1. PICK x : x \in s
      BY <2>2
    <3> DEFINE u == s \ {x}
    <3>2. IsFiniteSet(s) /\ IsFiniteSet(s \cap T) /\ IsFiniteSet(u \cap T)
      BY FS_Subset
    <3>3. Over(h, s) = h[x] + Over(h, u)
      <4>1. \A y \in s : h[y] \in Nat
        OBVIOUS
      <4> HIDE DEF h
      <4> QED BY <3>1, <3>2, <4>1, OverSplit
    <3>4. Over(h, u) = Cardinality(u \cap T)
      BY <1>2, <3>1
    <3>5. CASE x \in T
      <4>1. u \cap T = (s \cap T) \ {x} /\ x \in s \cap T /\ h[x] = 1
        BY <3>1, <3>5
      <4> HIDE DEF u, h
      <4> DEFINE w == s \cap T
      <4>2. x \in w /\ IsFiniteSet(w) /\ u \cap T = w \ {x}
        BY <3>2, <4>1
      <4> HIDE DEF w
      <4>3. Cardinality(u \cap T) = Cardinality(w) - 1 /\ Cardinality(w) \in Nat
        BY <4>2, FS_RemoveElement, FS_CardinalityType
      <4> QED BY <3>3, <3>4, <4>1, <4>3 DEF w
    <3>6. CASE x \notin T
      <4>1. u \cap T = s \cap T /\ h[x] = 0
        BY <3>1, <3>6
      <4>2. Cardinality(s \cap T) \in Nat
        BY <3>2, FS_CardinalityType
      <4> HIDE DEF u, h
      <4> QED BY <3>3, <3>4, <4>1, <4>2
    <3> QED BY <3>5, <3>6
  <2> QED BY <2>1, <2>2
<1> HIDE DEF P
<1>3. \A s \in SUBSET S : s \in P
  BY <1>2, Growth
<1>4. S \cap T = T
  OBVIOUS
<1>5. Over(h, S) = Cardinality(T)
  BY <1>3, <1>4 DEF P
<1> QED BY <1>1, <1>5
-----------------------------------------------------------------------------
(* Sums of sequences.                                                      *)

LEMMA TotalOver == ASSUME NEW f PROVE Total(f) = Over(f, DOMAIN f)
BY DEF Total, FoldFunction, Over

LEMMA TotalSeq ==
  ASSUME NEW s \in Seq(Nat)
  PROVE  Total(s) = Over(s, 1 .. Len(s)) /\ Total(s) \in Nat
<1>1. DOMAIN s = 1 .. Len(s) /\ Len(s) \in Nat /\ \A i \in 1 .. Len(s) : s[i] \in Nat
  OBVIOUS
<1>2. IsFiniteSet(1 .. Len(s))
  BY <1>1, FS_Interval
<1> QED BY <1>1, <1>2, TotalOver, OverSplit

LEMMA TotalEmpty == Total(<<>>) = 0
<1>1. DOMAIN <<>> = {}
  OBVIOUS
<1> QED BY <1>1, TotalOver, OverEmpty

\* The last summand of a range.
LEMMA OverLast ==
  ASSUME NEW k \in Nat, NEW f, \A i \in 1 .. (k + 1) : f[i] \in Nat
  PROVE  Over(f, 1 .. (k + 1)) = f[k + 1] + Over(f, 1 .. k) /\ Over(f, 1 .. k) \in Nat
<1> DEFINE S == 1 .. (k + 1)
           x == k + 1
<1>1. S \ {x} = 1 .. k /\ x \in S /\ \A i \in 1 .. k : f[i] \in Nat
  OBVIOUS
<1>2. IsFiniteSet(S) /\ IsFiniteSet(1 .. k)
  BY FS_Interval
<1> HIDE DEF S, x
<1>3. \A i \in S : f[i] \in Nat
  BY DEF S
<1>4. Over(f, S) = f[x] + Over(f, S \ {x})
  BY <1>1, <1>2, <1>3, OverSplit
<1>5. Over(f, 1 .. k) \in Nat
  BY <1>1, <1>2, OverSplit
<1> QED BY <1>1, <1>4, <1>5 DEF S, x

\* The sum of two sequences, one after the other.
LEMMA TotalConcat ==
  ASSUME NEW s \in Seq(Nat), NEW t \in Seq(Nat)
  PROVE  Total(s \o t) = Total(s) + Total(t)
<1> DEFINE n == Len(s)
           c == s \o t
           C == {j \in Nat : j <= Len(t) => Over(c, 1 .. (n + j)) = Over(s, 1 .. n) + Over(t, 1 .. j)}
<1>1. /\ n \in Nat /\ Len(t) \in Nat /\ c \in Seq(Nat) /\ Len(c) = n + Len(t)
      /\ \A i \in 1 .. n : s[i] \in Nat /\ c[i] = s[i]
      /\ \A i \in 1 .. Len(t) : t[i] \in Nat /\ c[n + i] = t[i]
      /\ \A i \in 1 .. (n + Len(t)) : c[i] \in Nat
  OBVIOUS
<1> HIDE DEF n, c
<1>2. \A k \in Nat : IsFiniteSet(1 .. k)
  BY FS_Interval
<1>3. Over(s, 1 .. n) \in Nat
  BY <1>1, <1>2, OverSplit
<1>4. 0 \in C
  <2>1. n + 0 = n /\ 1 .. 0 = {}
    BY <1>1
  <2>2. Over(c, 1 .. n) = Over(s, 1 .. n)
    BY <1>1, <1>2, OverSame
  <2> QED BY <1>3, <2>1, <2>2, OverEmpty
<1>5. ASSUME NEW j \in Nat, j \in C PROVE j + 1 \in C
  <2>1. SUFFICES ASSUME j + 1 <= Len(t)
        PROVE Over(c, 1 .. (n + (j + 1))) = Over(s, 1 .. n) + Over(t, 1 .. (j + 1))
    OBVIOUS
  <2>2. Over(c, 1 .. (n + j)) = Over(s, 1 .. n) + Over(t, 1 .. j)
    BY <1>1, <1>5, <2>1
  <2>3. n + (j + 1) = (n + j) + 1 /\ n + j \in Nat
    BY <1>1
  <2>4. /\ \A i \in 1 .. ((n + j) + 1) : c[i] \in Nat
        /\ \A i \in 1 .. (j + 1) : t[i] \in Nat
        /\ c[(n + j) + 1] = t[j + 1] /\ t[j + 1] \in Nat
    <3> DEFINE m == Len(t)
    <3>1. /\ m \in Nat /\ n \in Nat /\ j + 1 <= m /\ \A i \in 1 .. m : t[i] \in Nat /\ c[n + i] = t[i]
          /\ \A i \in 1 .. (n + m) : c[i] \in Nat
      BY <1>1, <2>1
    <3> HIDE DEF m
    <3>2. \A i \in 1 .. ((n + j) + 1) : i \in 1 .. (n + m)
      BY <3>1
    <3>3. j + 1 \in 1 .. m /\ \A i \in 1 .. (j + 1) : i \in 1 .. m
      BY <3>1
    <3>4. c[n + (j + 1)] = t[j + 1] /\ t[j + 1] \in Nat
      BY <3>1, <3>3
    <3> QED BY <2>3, <3>1, <3>2, <3>3, <3>4
  <2>5. Over(c, 1 .. ((n + j) + 1)) = c[(n + j) + 1] + Over(c, 1 .. (n + j))
    BY <2>3, <2>4, OverLast
  <2>6. Over(t, 1 .. (j + 1)) = t[j + 1] + Over(t, 1 .. j) /\ Over(t, 1 .. j) \in Nat
    BY <2>4, OverLast
  <2>8. \A a, b, d \in Nat : d + (a + b) = a + (d + b)
    OBVIOUS
  <2> QED BY <1>3, <2>2, <2>3, <2>4, <2>5, <2>6, <2>8
<1> HIDE DEF C
<1>6. Len(t) \in C
  BY <1>1, <1>4, <1>5, Upwards
<1>7. Over(c, 1 .. (n + Len(t))) = Over(s, 1 .. n) + Over(t, 1 .. Len(t))
  BY <1>1, <1>6 DEF C
<1>8. Total(c) = Over(c, 1 .. Len(c)) /\ Total(s) = Over(s, 1 .. n) /\ Total(t) = Over(t, 1 .. Len(t))
  BY <1>1, TotalSeq DEF n
<1> QED BY <1>1, <1>7, <1>8 DEF c

LEMMA TotalOne == ASSUME NEW x \in Nat PROVE Total(<<x>>) = x
<1>1. DOMAIN <<x>> = {1} /\ <<x>>[1] = x
  OBVIOUS
<1>2. {1} \ {1} = {}
  OBVIOUS
<1>3. IsFiniteSet({1})
  BY FS_Singleton
<1>4. Over(<<x>>, {1}) = <<x>>[1] + Over(<<x>>, {1} \ {1})
  BY <1>1, <1>3, OverSplit
<1>5. Over(<<x>>, {1} \ {1}) = 0
  BY <1>2, OverEmpty
<1>6. Total(<<x>>) = Over(<<x>>, {1})
  BY <1>1, TotalOver
<1>7. Over(<<x>>, {1}) = x + 0
  BY <1>1, <1>4, <1>5
<1> QED BY <1>6, <1>7
-----------------------------------------------------------------------------
(* The pool.                                                               *)

RecForm(x) == x = [kind |-> x.kind, live |-> x.live, amount |-> x.amount, demand |-> x.demand,
                   bypasses |-> x.bypasses, ticket |-> x.ticket]

RecOK(x) ==
  /\ RecForm(x)
  /\ x.kind \in {"idle", "waiting", "granted"}
  /\ x.amount \in Amounts /\ x.demand \in Amounts /\ x.ticket \in Nat

PoolForm(p) ==
  /\ p = [shared |-> p.shared, held |-> p.held, rec |-> p.rec, ticket |-> p.ticket,
          pending |-> p.pending]
  /\ p.held = [l \in Lanes |-> p.held[l]]
  /\ p.rec = [l \in Lanes |-> p.rec[l]]

GrantOf(x) == IF x.kind = "granted" THEN x.amount ELSE Zero
Need(h, a) == Less(Above(Plus(h, a)), Above(h))

\* A lane holds h, waits with x and queues what costs c.
LaneOK(h, x, c) ==
  /\ h \in Amounts /\ c \in Amounts /\ RecOK(x)
  /\ h = Plus(c, GrantOf(x))
  /\ x.kind = "waiting" => x.demand = Need(h, x.amount)

AboveE(held) == [l \in Lanes |-> Above(held[l]).e]
AboveR(held) == [l \in Lanes |-> Above(held[l]).r]

\* A pool is exact for lanes whose queues cost c.
Exact(p, c) ==
  /\ PoolForm(p) /\ p.shared \in Amounts /\ p.ticket \in Nat
  /\ Shared.e = p.shared.e + Total(AboveE(p.held))
  /\ Shared.r = p.shared.r + Total(AboveR(p.held))
  /\ \A l \in Lanes : LaneOK(p.held[l], p.rec[l], c[l])

\* Records that say the same of a lane's credit.
Like(x, y) == RecOK(x) /\ x.kind = y.kind /\ x.amount = y.amount /\ x.demand = y.demand

\* From p to q only lane l changes, and what it returns to the pool or
\* takes from it is what it holds less or more.
Moves(p, q, l, c, d) ==
  /\ PoolForm(q) /\ q.shared \in Amounts /\ q.ticket \in Nat
  /\ \A k \in Lanes \ {l} : q.held[k] = p.held[k] /\ Like(q.rec[k], p.rec[k]) /\ d[k] = c[k]
  /\ LaneOK(q.held[l], q.rec[l], d[l])
  /\ q.shared.e + Above(q.held[l]).e = p.shared.e + Above(p.held[l]).e
  /\ q.shared.r + Above(q.held[l]).r = p.shared.r + Above(p.held[l]).r

LEMMA AboveNat ==
  ASSUME NEW h \in Amounts
  PROVE  Above(h).e \in Nat /\ Above(h).r \in Nat
BY CreditAssumption DEF Above, Amounts

\* Such a step keeps the pool exact.
LEMMA MovesExact ==
  ASSUME NEW p, NEW q, NEW l \in Lanes, NEW c, NEW d, Exact(p, c), Moves(p, q, l, c, d)
  PROVE  Exact(q, d)
<1>1. IsFiniteSet(Lanes) /\ Shared.e \in Nat /\ Shared.r \in Nat
  BY CreditAssumption DEF Amounts
<1>2. \A k \in Lanes : p.held[k] \in Amounts /\ q.held[k] \in Amounts
  BY DEF Exact, Moves, LaneOK
<1>3. ASSUME NEW k \in Lanes PROVE LaneOK(q.held[k], q.rec[k], d[k])
  <2>1. CASE k = l
    BY <2>1 DEF Moves
  <2>2. CASE k # l
    <3>1. LaneOK(p.held[k], p.rec[k], c[k])
      BY DEF Exact
    <3>2. q.held[k] = p.held[k] /\ Like(q.rec[k], p.rec[k]) /\ d[k] = c[k]
      BY <2>2 DEF Moves
    <3> QED BY <3>1, <3>2 DEF LaneOK, Like, GrantOf
  <2> QED BY <2>1, <2>2
<1>4. \A k \in Lanes : /\ AboveE(p.held)[k] = Above(p.held[k]).e /\ AboveE(q.held)[k] = Above(q.held[k]).e
                       /\ AboveR(p.held)[k] = Above(p.held[k]).r /\ AboveR(q.held)[k] = Above(q.held[k]).r
  BY DEF AboveE, AboveR
<1>5. \A k \in Lanes : /\ AboveE(p.held)[k] \in Nat /\ AboveE(q.held)[k] \in Nat
                       /\ AboveR(p.held)[k] \in Nat /\ AboveR(q.held)[k] \in Nat
  BY <1>2, <1>4, AboveNat
<1>6. \A k \in Lanes \ {l} : /\ AboveE(p.held)[k] = AboveE(q.held)[k]
                             /\ AboveR(p.held)[k] = AboveR(q.held)[k]
  BY <1>4 DEF Moves
<1> DEFINE pe == Over(AboveE(p.held), Lanes)
           qe == Over(AboveE(q.held), Lanes)
           pr == Over(AboveR(p.held), Lanes)
           qr == Over(AboveR(q.held), Lanes)
<1>7. /\ qe + Above(p.held[l]).e = pe + Above(q.held[l]).e
      /\ qr + Above(p.held[l]).r = pr + Above(q.held[l]).r
  <2>1. /\ qe + AboveE(p.held)[l] = pe + AboveE(q.held)[l]
        /\ qr + AboveR(p.held)[l] = pr + AboveR(q.held)[l]
    BY <1>1, <1>5, <1>6, OverOne
  <2> QED BY <1>4, <2>1
<1>8. pe \in Nat /\ qe \in Nat /\ pr \in Nat /\ qr \in Nat
  BY <1>1, <1>5, OverSplit
<1>9. /\ Total(AboveE(p.held)) = pe /\ Total(AboveE(q.held)) = qe
      /\ Total(AboveR(p.held)) = pr /\ Total(AboveR(q.held)) = qr
  <2>1. \A h : DOMAIN AboveE(h) = Lanes /\ DOMAIN AboveR(h) = Lanes
    BY DEF AboveE, AboveR
  <2> QED BY <2>1, TotalOver
<1> HIDE DEF pe, qe, pr, qr
<1>10. /\ q.shared.e + Above(q.held[l]).e = p.shared.e + Above(p.held[l]).e
       /\ q.shared.r + Above(q.held[l]).r = p.shared.r + Above(p.held[l]).r
       /\ q.shared \in Amounts /\ p.shared \in Amounts
  BY DEF Moves, Exact
<1>11. Shared.e = p.shared.e + pe /\ Shared.r = p.shared.r + pr
  BY <1>9 DEF Exact
<1>12. /\ q.shared.e \in Nat /\ p.shared.e \in Nat /\ q.shared.r \in Nat /\ p.shared.r \in Nat
       /\ Above(p.held[l]).e \in Nat /\ Above(q.held[l]).e \in Nat
       /\ Above(p.held[l]).r \in Nat /\ Above(q.held[l]).r \in Nat
  BY <1>2, <1>10, AboveNat DEF Amounts
<1>14. Shared.e = q.shared.e + qe
  <2> DEFINE s0 == p.shared.e
             s1 == q.shared.e
             a0 == Above(p.held[l]).e
             a1 == Above(q.held[l]).e
             all == Shared.e
  <2>1. /\ {s0, s1, a0, a1, pe, qe} \subseteq Nat
        /\ s1 + a1 = s0 + a0 /\ qe + a0 = pe + a1 /\ all = s0 + pe
    BY <1>7, <1>8, <1>10, <1>11, <1>12
  <2> HIDE DEF s0, s1, a0, a1, all
  <2>2. all = s1 + qe
    BY <2>1
  <2> QED BY <2>2 DEF s1, all
<1>15. Shared.r = q.shared.r + qr
  <2> DEFINE s0 == p.shared.r
             s1 == q.shared.r
             a0 == Above(p.held[l]).r
             a1 == Above(q.held[l]).r
             all == Shared.r
  <2>1. /\ {s0, s1, a0, a1, pr, qr} \subseteq Nat
        /\ s1 + a1 = s0 + a0 /\ qr + a0 = pr + a1 /\ all = s0 + pr
    BY <1>7, <1>8, <1>10, <1>11, <1>12
  <2> HIDE DEF s0, s1, a0, a1, all
  <2>2. all = s1 + qr
    BY <2>1
  <2> QED BY <2>2 DEF s1, all
<1> QED BY <1>3, <1>9, <1>14, <1>15 DEF Exact, Moves

\* No credit is idle in p.
Restless(p) == p.pending \/ Waiting(p) = {} \/ ~Selectable(p)

\* Pools with the same books.
SameBooks(p, q) ==
  /\ PoolForm(q) /\ q.shared = p.shared /\ q.held = p.held /\ q.rec = p.rec /\ q.ticket = p.ticket

LEMMA SameExact ==
  ASSUME NEW p, NEW q, NEW c, Exact(p, c), SameBooks(p, q)
  PROVE  Exact(q, c)
BY DEF Exact, SameBooks

LEMMA FlagForm ==
  ASSUME NEW p, PoolForm(p)
  PROVE  SameBooks(p, Flag(p)) /\ Restless(Flag(p))
<1> DEFINE w == Waiting(p) # {}
           q == Flag(p)
<1>1. q = [p EXCEPT !.pending = w]
  BY DEF Flag
<1>2. p = [shared |-> p.shared, held |-> p.held, rec |-> p.rec, ticket |-> p.ticket,
           pending |-> p.pending]
  BY DEF PoolForm
<1> HIDE DEF w, q
<1>3. q = [shared |-> p.shared, held |-> p.held, rec |-> p.rec, ticket |-> p.ticket, pending |-> w]
  BY <1>1, <1>2
<1>4. /\ q.shared = p.shared /\ q.held = p.held /\ q.rec = p.rec /\ q.ticket = p.ticket
      /\ q.pending = w
  BY <1>3
<1>5. q = [shared |-> q.shared, held |-> q.held, rec |-> q.rec, ticket |-> q.ticket,
           pending |-> q.pending]
  BY <1>3, <1>4
<1>6. PoolForm(q)
  BY <1>4, <1>5 DEF PoolForm
<1>7. Waiting(q) = Waiting(p)
  BY <1>4 DEF Waiting
<1>8. q.pending \/ Waiting(q) = {}
  BY <1>4, <1>7, Zenon DEF w
<1>9. Restless(q)
  BY <1>8, Zenon DEF Restless
<1> QED BY <1>4, <1>6, <1>9 DEF SameBooks, q

\* The parts of a pool after a step at lane l: shared credit sh, what the
\* lane holds h, its record x and the counter t.
Becomes(p, q, l, sh, h, x, t) ==
  /\ PoolForm(q) /\ q.shared = sh /\ q.ticket = t
  /\ q.held[l] = h /\ q.rec[l] = x
  /\ \A k \in Lanes \ {l} : q.held[k] = p.held[k] /\ q.rec[k] = p.rec[k]

\* The records of the other lanes stay.
Apart(p, q, l) == \A k \in Lanes \ {l} : q.rec[k] = p.rec[k]

LEMMA ChargeForm ==
  ASSUME NEW p, PoolForm(p), NEW l \in Lanes, NEW a
  PROVE  /\ Becomes(p, Charge(p, l, a), l, Less(p.shared, Need(p.held[l], a)),
                    Plus(p.held[l], a), p.rec[l], p.ticket)
         /\ Charge(p, l, a).rec = p.rec
         /\ Charge(p, l, a).pending = p.pending
<1> DEFINE h == Plus(p.held[l], a)
           sh == Less(p.shared, Need(p.held[l], a))
           q == Charge(p, l, a)
           hs == [p.held EXCEPT ![l] = h]
<1>1. q = [p EXCEPT !.held = hs, !.shared = sh]
  BY DEF Charge, Demand, Need
<1>2. p = [shared |-> p.shared, held |-> p.held, rec |-> p.rec, ticket |-> p.ticket,
           pending |-> p.pending]
  BY DEF PoolForm
<1>3. hs[l] = h /\ hs = [k \in Lanes |-> hs[k]] /\ \A k \in Lanes \ {l} : hs[k] = p.held[k]
  BY DEF PoolForm
<1> HIDE DEF h, sh, q, hs
<1>4. q = [shared |-> sh, held |-> hs, rec |-> p.rec, ticket |-> p.ticket, pending |-> p.pending]
  BY <1>1, <1>2
<1>5. /\ q.shared = sh /\ q.held = hs /\ q.rec = p.rec /\ q.ticket = p.ticket
      /\ q.pending = p.pending
  BY <1>4
<1>6. q = [shared |-> q.shared, held |-> q.held, rec |-> q.rec, ticket |-> q.ticket,
           pending |-> q.pending]
  BY <1>4, <1>5
<1>7. PoolForm(q)
  BY <1>3, <1>5, <1>6 DEF PoolForm
<1> QED BY <1>3, <1>5, <1>7 DEF Becomes, h, sh, q

LEMMA RefundForm ==
  ASSUME NEW p, PoolForm(p), NEW l \in Lanes, NEW a
  PROVE  Becomes(p, Refund(p, l, a), l,
           Plus(p.shared, Less(Above(p.held[l]), Above(Less(p.held[l], a)))),
           Less(p.held[l], a), p.rec[l], p.ticket)
<1> DEFINE h == Less(p.held[l], a)
           sh == Plus(p.shared, Less(Above(p.held[l]), Above(Less(p.held[l], a))))
           q == Refund(p, l, a)
           hs == [p.held EXCEPT ![l] = h]
<1>1. q = [p EXCEPT !.held = hs, !.shared = sh]
  BY DEF Refund
<1>2. p = [shared |-> p.shared, held |-> p.held, rec |-> p.rec, ticket |-> p.ticket,
           pending |-> p.pending]
  BY DEF PoolForm
<1>3. hs[l] = h /\ hs = [k \in Lanes |-> hs[k]] /\ \A k \in Lanes \ {l} : hs[k] = p.held[k]
  BY DEF PoolForm
<1> HIDE DEF h, sh, q, hs
<1>4. q = [shared |-> sh, held |-> hs, rec |-> p.rec, ticket |-> p.ticket, pending |-> p.pending]
  BY <1>1, <1>2
<1>5. q.shared = sh /\ q.held = hs /\ q.rec = p.rec /\ q.ticket = p.ticket
  BY <1>4
<1>6. q = [shared |-> q.shared, held |-> q.held, rec |-> q.rec, ticket |-> q.ticket,
           pending |-> q.pending]
  BY <1>4, <1>5
<1>7. PoolForm(q)
  BY <1>3, <1>5, <1>6 DEF PoolForm
<1> QED BY <1>3, <1>5, <1>7 DEF Becomes, h, sh, q

LEMMA RecordForm ==
  ASSUME NEW p, PoolForm(p), NEW l \in Lanes, NEW x
  PROVE  /\ Becomes(p, [p EXCEPT !.rec[l] = x], l, p.shared, p.held[l], x, p.ticket)
         /\ [p EXCEPT !.rec[l] = x].held = p.held
         /\ [p EXCEPT !.rec[l] = x].pending = p.pending
<1> DEFINE q == [p EXCEPT !.rec[l] = x]
           xs == [p.rec EXCEPT ![l] = x]
<1>1. q = [p EXCEPT !.rec = xs]
  OBVIOUS
<1>2. p = [shared |-> p.shared, held |-> p.held, rec |-> p.rec, ticket |-> p.ticket,
           pending |-> p.pending]
  BY DEF PoolForm
<1>3. xs[l] = x /\ xs = [k \in Lanes |-> xs[k]] /\ \A k \in Lanes \ {l} : xs[k] = p.rec[k]
  BY DEF PoolForm
<1> HIDE DEF q, xs
<1>4. q = [shared |-> p.shared, held |-> p.held, rec |-> xs, ticket |-> p.ticket, pending |-> p.pending]
  BY <1>1, <1>2
<1>5. /\ q.shared = p.shared /\ q.held = p.held /\ q.rec = xs /\ q.ticket = p.ticket
      /\ q.pending = p.pending
  BY <1>4
<1>6. q = [shared |-> q.shared, held |-> q.held, rec |-> q.rec, ticket |-> q.ticket,
           pending |-> q.pending]
  BY <1>4, <1>5
<1>7. PoolForm(q)
  BY <1>3, <1>5, <1>6 DEF PoolForm
<1> QED BY <1>3, <1>5, <1>7 DEF Becomes, q

\* Credit that leaves the lane goes to the pool, and the other way round.
Balance(sh0, h0, sh, h) ==
  /\ sh \in Amounts
  /\ sh.e + Above(h).e = sh0.e + Above(h0).e
  /\ sh.r + Above(h).r = sh0.r + Above(h0).r

LEMMA BecomesExact ==
  ASSUME NEW p, NEW q, NEW l \in Lanes, NEW c, NEW d, NEW sh, NEW h, NEW x, NEW t \in Nat,
         Exact(p, c), Becomes(p, q, l, sh, h, x, t), Balance(p.shared, p.held[l], sh, h),
         LaneOK(h, x, d[l]), \A k \in Lanes \ {l} : d[k] = c[k]
  PROVE  Exact(q, d)
<1>1. ASSUME NEW k \in Lanes \ {l} PROVE Like(q.rec[k], p.rec[k])
  BY DEF Becomes, Like, Exact, LaneOK
<1>2. Moves(p, q, l, c, d)
  BY <1>1 DEF Moves, Becomes, Balance
<1> QED BY <1>2, MovesExact

LEMMA BecomesThen ==
  ASSUME NEW p, NEW q, NEW r, NEW l \in Lanes, NEW sh, NEW h, NEW x, NEW t,
         NEW sh2, NEW h2, NEW x2, NEW t2,
         Becomes(p, q, l, sh, h, x, t), Becomes(q, r, l, sh2, h2, x2, t2)
  PROVE  Becomes(p, r, l, sh2, h2, x2, t2)
BY DEF Becomes

LEMMA BecomesSame ==
  ASSUME NEW p, NEW q, NEW r, NEW l \in Lanes, NEW sh, NEW h, NEW x, NEW t,
         Becomes(p, q, l, sh, h, x, t), SameBooks(q, r)
  PROVE  Becomes(p, r, l, sh, h, x, t)
BY DEF Becomes, SameBooks

\* The arithmetic of the accounts.
LEMMA Parts ==
  ASSUME NEW a \in Amounts
  PROVE  a.e \in Nat /\ a.r \in Nat /\ a = [e |-> a.e, r |-> a.r]
BY DEF Amounts

LEMMA PlusAmount ==
  ASSUME NEW a \in Amounts, NEW b \in Amounts
  PROVE  /\ Plus(a, b) \in Amounts /\ Plus(a, Zero) = a /\ Zero \in Amounts
         /\ Less(a, Zero) = a /\ Less(Plus(a, b), b) = a
         /\ Plus(a, b) = Plus(b, a)
BY DEF Amounts, Plus, Less, Zero

LEMMA PlusThree ==
  ASSUME NEW a \in Amounts, NEW b \in Amounts, NEW d \in Amounts
  PROVE  Plus(Plus(a, b), d) = Plus(Plus(a, d), b)
BY DEF Amounts, Plus

LEMMA LessAmount ==
  ASSUME NEW a \in Amounts, NEW b \in Amounts, Covers(a, b)
  PROVE  Less(a, b) \in Amounts
BY DEF Amounts, Less, Covers

LEMMA LessThree ==
  ASSUME NEW a \in Amounts, NEW b \in Amounts, NEW d \in Amounts, Covers(a, b)
  PROVE  /\ Covers(Plus(a, d), b)
         /\ Less(Plus(a, d), b) = Plus(Less(a, b), d)
BY DEF Amounts, Plus, Less, Covers

LEMMA NeedAmount ==
  ASSUME NEW h \in Amounts, NEW a \in Amounts
  PROVE  Need(h, a) \in Amounts
<1>1. \A x, y, z \in Nat : (IF x + y > z THEN (x + y) - z ELSE 0) - (IF x > z THEN x - z ELSE 0) \in Nat
  OBVIOUS
<1>2. h.e \in Nat /\ h.r \in Nat /\ a.e \in Nat /\ a.r \in Nat /\ Protected.e \in Nat /\ Protected.r \in Nat
  BY CreditAssumption DEF Amounts
<1> QED BY <1>1, <1>2 DEF Need, Less, Above, Plus, Amounts

LEMMA ChargeBalance ==
  ASSUME NEW sh \in Amounts, NEW h \in Amounts, NEW a \in Amounts, Covers(sh, Need(h, a))
  PROVE  Balance(sh, h, Less(sh, Need(h, a)), Plus(h, a))
<1> DEFINE n == Need(h, a)
           u == Above(h)
           v == Above(Plus(h, a))
<1>1. n \in Amounts /\ Less(sh, n) \in Amounts /\ Plus(h, a) \in Amounts
  BY NeedAmount, LessAmount, PlusAmount
<1>2. u.e \in Nat /\ u.r \in Nat /\ v.e \in Nat /\ v.r \in Nat
  BY <1>1, AboveNat
<1>3. n.e = v.e - u.e /\ n.r = v.r - u.r
  BY DEF Need, Less
<1>4. Less(sh, n).e = sh.e - n.e /\ Less(sh, n).r = sh.r - n.r /\ sh.e \in Nat /\ sh.r \in Nat
  BY DEF Less, Amounts
<1> HIDE DEF n, u, v
<1>5. Less(sh, n).e + v.e = sh.e + u.e /\ Less(sh, n).r + v.r = sh.r + u.r
  BY <1>2, <1>3, <1>4
<1> QED BY <1>1, <1>5 DEF Balance, n, u, v

LEMMA RefundBalance ==
  ASSUME NEW sh \in Amounts, NEW h \in Amounts, NEW a \in Amounts, Covers(h, a)
  PROVE  /\ Less(h, a) \in Amounts
         /\ Balance(sh, h, Plus(sh, Less(Above(h), Above(Less(h, a)))), Less(h, a))
<1> DEFINE g == Less(h, a)
           u == Above(h)
           v == Above(g)
           w == Plus(sh, Less(u, v))
<1>1. g \in Amounts
  BY LessAmount
<1>2. u.e \in Nat /\ u.r \in Nat /\ v.e \in Nat /\ v.r \in Nat
  BY <1>1, AboveNat
<1>3. v.e <= u.e /\ v.r <= u.r
  <2>1. \A x, y, z \in Nat : y <= x =>
          (IF x - y > z THEN (x - y) - z ELSE 0) <= (IF x > z THEN x - z ELSE 0)
    OBVIOUS
  <2>2. h.e \in Nat /\ h.r \in Nat /\ a.e \in Nat /\ a.r \in Nat /\ Protected.e \in Nat
        /\ Protected.r \in Nat /\ a.e <= h.e /\ a.r <= h.r
    BY CreditAssumption DEF Amounts, Covers
  <2> QED BY <2>1, <2>2 DEF Less, Above
<1>4. w = [e |-> sh.e + (u.e - v.e), r |-> sh.r + (u.r - v.r)] /\ sh.e \in Nat /\ sh.r \in Nat
  BY DEF Less, Plus, Amounts
<1> HIDE DEF g, u, v, w
<1>5. w \in Amounts /\ w.e + v.e = sh.e + u.e /\ w.r + v.r = sh.r + u.r
  BY <1>2, <1>3, <1>4 DEF Amounts
<1> QED BY <1>1, <1>5 DEF Balance, g, u, v, w
-----------------------------------------------------------------------------
(* The operations of the pool.                                             *)

LEMMA ExactParts ==
  ASSUME NEW p, NEW c, Exact(p, c), NEW l \in Lanes
  PROVE  /\ PoolForm(p) /\ p.shared \in Amounts /\ p.ticket \in Nat
         /\ LaneOK(p.held[l], p.rec[l], c[l])
         /\ p.held[l] \in Amounts /\ c[l] \in Amounts /\ RecOK(p.rec[l])
         /\ p.rec[l].amount \in Amounts
BY DEF Exact, LaneOK, RecOK

LEMMA IdleOK ==
  ASSUME NEW h \in Amounts
  PROVE  RecOK(Idle) /\ GrantOf(Idle) = Zero /\ LaneOK(h, Idle, h)
<1>1. Zero \in Amounts
  BY DEF Zero, Amounts
<1>2. RecOK(Idle) /\ Idle.kind = "idle" /\ GrantOf(Idle) = Zero
  BY <1>1 DEF RecOK, RecForm, Idle, GrantOf
<1>3. h = Plus(h, Zero)
  BY <1>1, PlusAmount
<1> QED BY <1>2, <1>3 DEF LaneOK

\* Ready::try_acquire and the charge of a grant.
LEMMA ChargeExact ==
  ASSUME NEW p, NEW c \in [Lanes -> Amounts], Exact(p, c), NEW l \in Lanes, NEW a \in Amounts,
         p.rec[l].kind = "idle", Covers(p.shared, Need(p.held[l], a))
  PROVE  Exact(Charge(p, l, a), [c EXCEPT ![l] = Plus(c[l], a)])
<1> DEFINE d == [c EXCEPT ![l] = Plus(c[l], a)]
           h == p.held[l]
           x == p.rec[l]
<1>1. /\ PoolForm(p) /\ p.shared \in Amounts /\ p.ticket \in Nat
      /\ LaneOK(h, x, c[l]) /\ h \in Amounts /\ c[l] \in Amounts
  BY ExactParts
<1>2. Balance(p.shared, h, Less(p.shared, Need(h, a)), Plus(h, a))
  BY <1>1, ChargeBalance
<1>3. Becomes(p, Charge(p, l, a), l, Less(p.shared, Need(h, a)), Plus(h, a), x, p.ticket)
  BY <1>1, ChargeForm
<1>4. d[l] = Plus(c[l], a) /\ \A k \in Lanes \ {l} : d[k] = c[k]
  OBVIOUS
<1>5. LaneOK(Plus(h, a), x, Plus(c[l], a))
  <2>1. h = Plus(c[l], Zero) /\ x.kind = "idle" /\ RecOK(x) /\ GrantOf(x) = Zero
    BY <1>1 DEF LaneOK, GrantOf
  <2>2. h = c[l]
    BY <1>1, <2>1, PlusAmount
  <2>3. Plus(c[l], a) \in Amounts /\ Plus(h, a) = Plus(Plus(c[l], a), Zero)
    BY <1>1, <2>2, PlusAmount
  <2> QED BY <2>1, <2>2, <2>3 DEF LaneOK
<1> HIDE DEF d
<1>6. LaneOK(Plus(h, a), x, d[l])
  BY <1>4, <1>5
<1>7. Exact(Charge(p, l, a), d)
  BY <1>1, <1>2, <1>3, <1>4, <1>6, BecomesExact
<1> QED BY <1>7 DEF d

\* Ready::release.
LEMMA ReleaseExact ==
  ASSUME NEW p, NEW c \in [Lanes -> Amounts], Exact(p, c), NEW l \in Lanes, NEW a \in Amounts,
         Covers(c[l], a)
  PROVE  /\ Exact(Release(p, l, a), [c EXCEPT ![l] = Less(c[l], a)])
         /\ Restless(Release(p, l, a))
         /\ Release(p, l, a).rec[l].kind = p.rec[l].kind
         /\ Apart(p, Release(p, l, a), l)
<1> DEFINE d == [c EXCEPT ![l] = Less(c[l], a)]
           h == p.held[l]
           x == p.rec[l]
           m == Less(h, a)
           sh == Plus(p.shared, Less(Above(h), Above(m)))
           q == Refund(p, l, a)
           r == Refresh(q, l)
<1>1. /\ PoolForm(p) /\ p.shared \in Amounts /\ p.ticket \in Nat
      /\ LaneOK(h, x, c[l]) /\ h \in Amounts /\ c[l] \in Amounts /\ RecOK(x)
  BY ExactParts
<1>2. GrantOf(x) \in Amounts /\ h = Plus(c[l], GrantOf(x))
  BY <1>1 DEF LaneOK, GrantOf, RecOK, Zero, Amounts
<1>3. Covers(h, a) /\ m = Plus(Less(c[l], a), GrantOf(x)) /\ Less(c[l], a) \in Amounts
  BY <1>1, <1>2, LessThree, LessAmount
<1>4. m \in Amounts /\ Balance(p.shared, h, sh, m)
  BY <1>1, <1>3, RefundBalance
<1>5. Becomes(p, q, l, sh, m, x, p.ticket)
  BY <1>1, RefundForm
<1>6. d[l] = Less(c[l], a) /\ \A k \in Lanes \ {l} : d[k] = c[k]
  OBVIOUS
<1> HIDE DEF d, m, sh, q
<1>7. \E y : Becomes(p, r, l, sh, m, y, p.ticket) /\ LaneOK(m, y, Less(c[l], a)) /\ y.kind = x.kind
  <2>1. PoolForm(q) /\ q.rec[l] = x /\ q.held[l] = m /\ q.shared = sh /\ q.ticket = p.ticket
    BY <1>5 DEF Becomes
  <2>2. CASE x.kind # "waiting"
    <3>1. r = q
      BY <2>1, <2>2 DEF Refresh
    <3>2. LaneOK(m, x, Less(c[l], a))
      BY <1>1, <1>3, <1>4, <2>2 DEF LaneOK
    <3> QED BY <1>5, <3>1, <3>2
  <2>3. CASE x.kind = "waiting"
    <3> DEFINE n == Need(m, x.amount)
               y == [x EXCEPT !.demand = n]
    <3>1. n \in Amounts
      BY <1>1, <1>4, NeedAmount DEF RecOK
    <3>2. r = [q EXCEPT !.rec[l] = y]
      BY <2>1, <2>3 DEF Refresh, Demand, Need
    <3>3. /\ y.kind = x.kind /\ y.amount = x.amount /\ y.demand = n /\ RecOK(y)
      <4>1. x = [kind |-> x.kind, live |-> x.live, amount |-> x.amount, demand |-> x.demand,
                 bypasses |-> x.bypasses, ticket |-> x.ticket]
        BY <1>1 DEF RecOK, RecForm
      <4> HIDE DEF n
      <4>2. y = [kind |-> x.kind, live |-> x.live, amount |-> x.amount, demand |-> n,
                 bypasses |-> x.bypasses, ticket |-> x.ticket]
        BY <4>1
      <4> HIDE DEF y
      <4>3. /\ y.kind = x.kind /\ y.live = x.live /\ y.amount = x.amount /\ y.demand = n
            /\ y.bypasses = x.bypasses /\ y.ticket = x.ticket
        BY <4>2
      <4> QED BY <1>1, <3>1, <4>2, <4>3 DEF RecOK, RecForm
    <3> HIDE DEF y
    <3>4. Becomes(q, r, l, sh, m, y, p.ticket)
      BY <2>1, <3>2, RecordForm
    <3>5. Becomes(p, r, l, sh, m, y, p.ticket)
      BY <1>5, <3>4, BecomesThen
    <3>6. GrantOf(y) = GrantOf(x)
      BY <3>3 DEF GrantOf
    <3>7. LaneOK(m, y, Less(c[l], a))
      BY <1>3, <1>4, <3>3, <3>6 DEF LaneOK
    <3> QED BY <3>3, <3>5, <3>7
  <2> QED BY <2>2, <2>3
<1> HIDE DEF r
<1>8. PICK y : Becomes(p, r, l, sh, m, y, p.ticket) /\ LaneOK(m, y, d[l]) /\ y.kind = x.kind
  BY <1>6, <1>7
<1>9. Exact(r, d)
  BY <1>1, <1>4, <1>6, <1>8, BecomesExact
<1>10. PoolForm(r)
  BY <1>8 DEF Becomes
<1>11. SameBooks(r, Flag(r)) /\ Restless(Flag(r))
  BY <1>10, FlagForm
<1>12. Exact(Flag(r), d) /\ Flag(r).rec[l].kind = x.kind /\ Apart(p, Flag(r), l)
  <2>1. r.rec[l] = y /\ Apart(p, r, l)
    BY <1>8 DEF Becomes, Apart
  <2>2. Flag(r).rec = r.rec
    BY <1>11 DEF SameBooks
  <2>3. Apart(p, Flag(r), l)
    BY <2>1, <2>2 DEF Apart
  <2> QED BY <1>8, <1>9, <1>11, <2>1, <2>2, <2>3, SameExact
<1>13. Release(p, l, a) = Flag(r)
  BY DEF Release, r, q
<1> QED BY <1>11, <1>12, <1>13 DEF d

\* A grant that nobody took goes back.
LEMMA DropsExact ==
  ASSUME NEW p, NEW c, Exact(p, c), NEW l \in Lanes, p.rec[l].kind = "granted"
  PROVE  /\ Exact([Refund(p, l, p.rec[l].amount) EXCEPT !.rec[l] = Idle], c)
         /\ [Refund(p, l, p.rec[l].amount) EXCEPT !.rec[l] = Idle].rec[l] = Idle
         /\ Apart(p, [Refund(p, l, p.rec[l].amount) EXCEPT !.rec[l] = Idle], l)
<1> DEFINE h == p.held[l]
           x == p.rec[l]
           a == x.amount
           m == Less(h, a)
           sh == Plus(p.shared, Less(Above(h), Above(m)))
           q == Refund(p, l, a)
           r == [q EXCEPT !.rec[l] = Idle]
<1>1. /\ PoolForm(p) /\ p.shared \in Amounts /\ p.ticket \in Nat
      /\ LaneOK(h, x, c[l]) /\ h \in Amounts /\ c[l] \in Amounts /\ RecOK(x) /\ a \in Amounts
  BY ExactParts
<1>2. h = Plus(c[l], a)
  BY <1>1 DEF LaneOK, GrantOf
<1>3. m = c[l] /\ Covers(h, a)
  <2>1. m = c[l]
    BY <1>1, <1>2, PlusAmount
  <2>2. Covers(h, a)
    BY <1>1, <1>2 DEF Covers, Plus, Amounts
  <2> QED BY <2>1, <2>2
<1>4. Balance(p.shared, h, sh, m)
  BY <1>1, <1>3, RefundBalance
<1>5. Becomes(p, q, l, sh, m, x, p.ticket)
  BY <1>1, RefundForm
<1> HIDE DEF q, m, sh
<1>6. Becomes(q, r, l, q.shared, q.held[l], Idle, q.ticket) /\ q.shared = sh /\ q.held[l] = m
      /\ q.ticket = p.ticket
  BY <1>5, RecordForm DEF Becomes
<1> HIDE DEF r
<1>7. Becomes(p, r, l, sh, m, Idle, p.ticket)
  BY <1>5, <1>6, BecomesThen
<1>8. LaneOK(m, Idle, c[l])
  BY <1>1, <1>3, IdleOK
<1>9. Exact(r, c)
  BY <1>1, <1>4, <1>7, <1>8, BecomesExact
<1>10. r.rec[l] = Idle /\ Apart(p, r, l)
  BY <1>7 DEF Becomes, Apart
<1> QED BY <1>9, <1>10 DEF r, q

\* Ready::cancel.
LEMMA CancelExact ==
  ASSUME NEW p, NEW c, Exact(p, c), NEW l \in Lanes
  PROVE  /\ Exact(Cancel(p, l), c) /\ Cancel(p, l).rec[l].kind = "idle"
         /\ Restless(p) => Restless(Cancel(p, l))
         /\ Apart(p, Cancel(p, l), l)
<1> DEFINE h == p.held[l]
           x == p.rec[l]
<1>1. /\ PoolForm(p) /\ p.shared \in Amounts /\ p.ticket \in Nat
      /\ LaneOK(h, x, c[l]) /\ h \in Amounts /\ c[l] \in Amounts /\ RecOK(x) /\ x.amount \in Amounts
  BY ExactParts
<1>2. CASE x.kind = "idle"
  <2>1. Cancel(p, l) = p
    BY <1>2 DEF Cancel
  <2> QED BY <1>2, <2>1 DEF Apart
<1>3. CASE x.kind = "waiting"
  <2> DEFINE r == [p EXCEPT !.rec[l] = Idle]
  <2>1. Cancel(p, l) = Flag(r)
    BY <1>3 DEF Cancel
  <2>2. Becomes(p, r, l, p.shared, h, Idle, p.ticket)
    BY <1>1, RecordForm
  <2>3. h = c[l]
    BY <1>1, <1>3, PlusAmount DEF LaneOK, GrantOf
  <2>4. LaneOK(h, Idle, c[l])
    BY <1>1, <2>3, IdleOK
  <2>5. Balance(p.shared, h, p.shared, h)
    BY <1>1 DEF Balance
  <2> HIDE DEF r
  <2>6. Exact(r, c)
    BY <1>1, <2>2, <2>4, <2>5, BecomesExact
  <2>7. PoolForm(r) /\ r.rec[l] = Idle /\ Apart(p, r, l)
    BY <2>2 DEF Becomes, Apart
  <2>8. SameBooks(r, Flag(r)) /\ Restless(Flag(r))
    BY <2>7, FlagForm
  <2>9. Flag(r).rec[l].kind = "idle" /\ Apart(p, Flag(r), l)
    BY <2>7, <2>8 DEF SameBooks, Idle, Apart
  <2> QED BY <2>1, <2>6, <2>8, <2>9, SameExact
<1>4. CASE x.kind = "granted"
  <2> DEFINE r == [Refund(p, l, x.amount) EXCEPT !.rec[l] = Idle]
  <2>1. Cancel(p, l) = Flag(r)
    BY <1>4 DEF Cancel
  <2>2. Exact(r, c) /\ r.rec[l] = Idle /\ PoolForm(r) /\ Apart(p, r, l)
    BY <1>4, DropsExact, ExactParts
  <2> HIDE DEF r
  <2>3. SameBooks(r, Flag(r)) /\ Restless(Flag(r))
    BY <2>2, FlagForm
  <2>4. Flag(r).rec[l].kind = "idle" /\ Apart(p, Flag(r), l)
    BY <2>2, <2>3 DEF SameBooks, Idle, Apart
  <2> QED BY <2>1, <2>2, <2>3, <2>4, SameExact
<1> QED BY <1>1, <1>2, <1>3, <1>4 DEF RecOK

LEMMA TicketForm ==
  ASSUME NEW p, PoolForm(p), NEW l \in Lanes, NEW t
  PROVE  Becomes(p, [p EXCEPT !.ticket = t], l, p.shared, p.held[l], p.rec[l], t)
<1> DEFINE q == [p EXCEPT !.ticket = t]
<1>1. p = [shared |-> p.shared, held |-> p.held, rec |-> p.rec, ticket |-> p.ticket,
           pending |-> p.pending]
  BY DEF PoolForm
<1>2. q = [shared |-> p.shared, held |-> p.held, rec |-> p.rec, ticket |-> t, pending |-> p.pending]
  BY <1>1
<1> HIDE DEF q
<1>3. /\ q.shared = p.shared /\ q.held = p.held /\ q.rec = p.rec /\ q.ticket = t
      /\ q.pending = p.pending
  BY <1>2
<1>4. q = [shared |-> q.shared, held |-> q.held, rec |-> q.rec, ticket |-> q.ticket,
           pending |-> q.pending]
  BY <1>2, <1>3
<1>5. PoolForm(q)
  BY <1>3, <1>4 DEF PoolForm
<1> QED BY <1>3, <1>5 DEF Becomes, q

\* A poll either takes the amount for the queue of the lane or leaves the
\* lane with what it holds, and no credit is idle afterwards.
PollGood(v, p, c, l, a) ==
  /\ Restless(v.pool) /\ Apart(p, v.pool, l)
  /\ v.out = "granted" => Exact(v.pool, [c EXCEPT ![l] = Plus(c[l], a)])
  /\ v.out # "granted" => Exact(v.pool, c)

LEMMA WaitParts ==
  ASSUME NEW a \in Amounts, NEW n \in Amounts, NEW b, NEW t \in Nat
  PROVE  LET y == Wait(a, n, b, t) IN RecOK(y) /\ y.kind = "waiting" /\ y.amount = a /\ y.demand = n
BY DEF Wait, RecOK, RecForm

LEMMA GrantParts ==
  ASSUME NEW a \in Amounts
  PROVE  RecOK(Grant(a)) /\ Grant(a).kind = "granted" /\ Grant(a).amount = a
<1>1. Zero \in Amounts
  BY DEF Zero, Amounts
<1> QED BY <1>1 DEF Grant, RecOK, RecForm

LEMMA ResultParts ==
  ASSUME NEW p, NEW o
  PROVE  Result(p, o).pool = p /\ Result(p, o).out = o
BY DEF Result

LEMMA FlagExact ==
  ASSUME NEW p, NEW c, Exact(p, c)
  PROVE  Exact(Flag(p), c) /\ Restless(Flag(p)) /\ Flag(p).rec = p.rec
<1>1. PoolForm(p)
  BY DEF Exact
<1>2. SameBooks(p, Flag(p)) /\ Restless(Flag(p))
  BY <1>1, FlagForm
<1> QED BY <1>2, SameExact DEF SameBooks

LEMMA StaysBalanced ==
  ASSUME NEW p, NEW c, Exact(p, c), NEW l \in Lanes
  PROVE  Balance(p.shared, p.held[l], p.shared, p.held[l])
BY DEF Balance, Exact

\* Vacant::poll.
LEMMA VacantGood ==
  ASSUME NEW p, NEW c \in [Lanes -> Amounts], Exact(p, c), NEW l \in Lanes, NEW a \in Amounts,
         p.rec[l].kind = "idle"
  PROVE  PollGood(Vacant(p, l, a), p, c, l, a)
<1> DEFINE n == Need(p.held[l], a)
           first == Waiting(p) = {}
           t == IF first THEN 0 ELSE p.ticket
           v == Vacant(p, l, a)
           y == Wait(a, n, 0, t)
<1>1. /\ PoolForm(p) /\ p.shared \in Amounts /\ p.ticket \in Nat
      /\ LaneOK(p.held[l], p.rec[l], c[l]) /\ p.held[l] \in Amounts /\ c[l] \in Amounts
  BY ExactParts
<1>2. n = Demand(p, l, a) /\ n \in Amounts /\ t \in Nat
  BY <1>1, NeedAmount DEF Demand, Need
<1>3. CASE n = Zero \/ (first /\ Covers(p.shared, n))
  <2>1. v = Result(Flag(Charge(p, l, a)), "granted")
    BY <1>2, <1>3 DEF Vacant
  <2>2. Covers(p.shared, n)
    BY <1>1, <1>3 DEF Covers, Zero, Amounts
  <2>3. Exact(Charge(p, l, a), [c EXCEPT ![l] = Plus(c[l], a)])
    BY <2>2, ChargeExact
  <2>4. Flag(Charge(p, l, a)).rec = p.rec
    BY <1>1, <2>3, FlagExact, ChargeForm
  <2> QED BY <2>1, <2>3, <2>4, FlagExact, ResultParts DEF PollGood, Apart
<1>4. CASE ~(n = Zero \/ (first /\ Covers(p.shared, n))) /\ t = LastTicket
  <2> DEFINE q == [p EXCEPT !.ticket = t]
  <2>1. v = Result(Flag(q), "tickets")
    BY <1>2, <1>4 DEF Vacant
  <2>2. Becomes(p, q, l, p.shared, p.held[l], p.rec[l], t)
    BY <1>1, TicketForm
  <2> HIDE DEF q, t
  <2>3. Exact(q, c)
    BY <1>1, <1>2, <2>2, StaysBalanced, BecomesExact
  <2> QED BY <2>1, <2>2, <2>3, FlagExact, ResultParts DEF PollGood, Apart, Becomes
<1>5. CASE ~(n = Zero \/ (first /\ Covers(p.shared, n))) /\ t # LastTicket
  <2> DEFINE q == [p EXCEPT !.ticket = t + 1]
             r == [q EXCEPT !.rec[l] = y]
  <2>1. v = Result(Flag([p EXCEPT !.ticket = t + 1, !.rec[l] = y]), "waits")
    BY <1>2, <1>5 DEF Vacant
  <2>2. [p EXCEPT !.ticket = t + 1, !.rec[l] = y] = r
    OBVIOUS
  <2>3. RecOK(y) /\ y.kind = "waiting" /\ y.amount = a /\ y.demand = n
    BY <1>2, WaitParts
  <2> HIDE DEF y, t
  <2>4. Becomes(p, q, l, p.shared, p.held[l], p.rec[l], t + 1)
    BY <1>1, TicketForm
  <2> HIDE DEF q
  <2>5. Becomes(q, r, l, p.shared, p.held[l], y, t + 1)
    <3>1. PoolForm(q) /\ q.shared = p.shared /\ q.held[l] = p.held[l] /\ q.ticket = t + 1
      BY <2>4 DEF Becomes
    <3> QED BY <3>1, RecordForm
  <2> HIDE DEF r
  <2>6. Becomes(p, r, l, p.shared, p.held[l], y, t + 1)
    BY <2>4, <2>5, BecomesThen
  <2>7. LaneOK(p.held[l], y, c[l])
    <3>1. GrantOf(y) = Zero /\ GrantOf(p.rec[l]) = Zero
      BY <2>3 DEF GrantOf
    <3> QED BY <1>1, <2>3, <3>1 DEF LaneOK
  <2>8. t + 1 \in Nat
    BY <1>2
  <2>9. Exact(r, c)
    BY <1>1, <2>6, <2>7, <2>8, StaysBalanced, BecomesExact
  <2>10. Exact(Flag(r), c) /\ Restless(Flag(r)) /\ Flag(r).rec = r.rec
    BY <2>9, FlagExact
  <2>11. Apart(p, Flag(r), l)
    BY <2>6, <2>10 DEF Apart, Becomes
  <2>12. v.pool = Flag(r) /\ v.out = "waits"
    BY <2>1, <2>2, ResultParts
  <2> HIDE DEF v
  <2>13. PollGood(v, p, c, l, a)
    BY <2>10, <2>11, <2>12 DEF PollGood
  <2> QED BY <2>13 DEF v
<1> QED BY <1>3, <1>4, <1>5

\* Ready::poll.
LEMMA PollIsGood ==
  ASSUME NEW p, NEW c \in [Lanes -> Amounts], Exact(p, c), Restless(p), NEW l \in Lanes,
         NEW a \in Amounts, NEW same
  PROVE  PollGood(Poll(p, l, a, same), p, c, l, a)
<1> DEFINE x == p.rec[l]
           h == p.held[l]
           match == same /\ x.amount = a
           v == Poll(p, l, a, same)
<1>1. /\ PoolForm(p) /\ p.shared \in Amounts /\ p.ticket \in Nat
      /\ LaneOK(h, x, c[l]) /\ h \in Amounts /\ c[l] \in Amounts /\ RecOK(x)
  BY ExactParts
<1>2. CASE x.kind = "idle"
  <2>1. v = Vacant(p, l, a)
    BY <1>2 DEF Poll
  <2> QED BY <1>2, <2>1, VacantGood
<1>3. CASE x.kind = "waiting" /\ match
  <2>1. v = Result(p, "waits")
    BY <1>3 DEF Poll
  <2> QED BY <2>1, ResultParts DEF PollGood, Apart
<1>4. CASE x.kind = "waiting" /\ ~match
  <2> DEFINE n == Need(h, a)
             y == Wait(a, n, x.bypasses, x.ticket)
             r == [p EXCEPT !.rec[l] = y]
  <2>1. v = Result(Flag(r), "waits")
    BY <1>4 DEF Poll, Demand, Need
  <2>2. n \in Amounts /\ x.ticket \in Nat
    BY <1>1, NeedAmount DEF RecOK
  <2>3. RecOK(y) /\ y.kind = "waiting" /\ y.amount = a /\ y.demand = n
    BY <2>2, WaitParts
  <2> HIDE DEF y
  <2>4. Becomes(p, r, l, p.shared, h, y, p.ticket)
    BY <1>1, RecordForm
  <2>5. LaneOK(h, y, c[l])
    <3>1. GrantOf(y) = Zero /\ GrantOf(x) = Zero
      BY <1>4, <2>3 DEF GrantOf
    <3> QED BY <1>1, <2>3, <3>1 DEF LaneOK
  <2> HIDE DEF r
  <2>6. Exact(r, c)
    BY <1>1, <2>4, <2>5, StaysBalanced, BecomesExact
  <2> QED BY <2>1, <2>4, <2>6, FlagExact, ResultParts DEF PollGood, Apart, Becomes
<1>5. CASE x.kind = "granted" /\ match
  <2> DEFINE r == [p EXCEPT !.rec[l] = Idle]
             d == [c EXCEPT ![l] = Plus(c[l], a)]
  <2>1. v = Result(Flag(r), "granted")
    BY <1>5 DEF Poll
  <2>2. Becomes(p, r, l, p.shared, h, Idle, p.ticket)
    BY <1>1, RecordForm
  <2>3. h = Plus(c[l], a)
    BY <1>1, <1>5 DEF LaneOK, GrantOf
  <2>4. d[l] = h /\ \A k \in Lanes \ {l} : d[k] = c[k]
    BY <2>3
  <2> HIDE DEF r, d
  <2>5. LaneOK(h, Idle, d[l])
    BY <1>1, <2>4, IdleOK
  <2>6. Exact(r, d)
    BY <1>1, <2>2, <2>4, <2>5, StaysBalanced, BecomesExact
  <2> QED BY <2>1, <2>2, <2>6, FlagExact, ResultParts DEF PollGood, Apart, Becomes, d
<1>6. CASE x.kind = "granted" /\ ~match
  <2> DEFINE r == [Refund(p, l, x.amount) EXCEPT !.rec[l] = Idle]
  <2>1. v = Vacant(r, l, a)
    BY <1>6 DEF Poll
  <2>2. Exact(r, c) /\ r.rec[l] = Idle /\ Apart(p, r, l)
    BY <1>6, DropsExact
  <2> HIDE DEF r
  <2>3. r.rec[l].kind = "idle"
    BY <2>2 DEF Idle
  <2>4. PollGood(v, r, c, l, a)
    BY <2>1, <2>2, <2>3, VacantGood
  <2> QED BY <2>2, <2>4 DEF PollGood, Apart
<1> QED BY <1>1, <1>2, <1>3, <1>4, <1>5, <1>6 DEF RecOK
-----------------------------------------------------------------------------
(* Selection.                                                              *)

\* Selection looks at the shared credit and at what the records say of
\* kind, demand, bypasses and ticket.
Alike(p, q) ==
  /\ q.shared = p.shared
  /\ \A l \in Lanes : /\ q.rec[l].kind = p.rec[l].kind /\ q.rec[l].demand = p.rec[l].demand
                      /\ q.rec[l].bypasses = p.rec[l].bypasses
                      /\ q.rec[l].ticket = p.rec[l].ticket

LEMMA FirstIn ==
  ASSUME NEW p, NEW c, Exact(p, c), NEW S \in SUBSET Lanes, S # {}
  PROVE  First(p, S) \in S
<1> DEFINE t == [l \in Lanes |-> p.rec[l].ticket]
           T == {t[l] : l \in S}
<1>1. \A l \in Lanes : t[l] \in Nat
  BY DEF Exact, LaneOK, RecOK
<1> HIDE DEF t
<1>2. T \in SUBSET Nat /\ T # {}
  BY <1>1
<1>3. PICK m \in T : \A n \in T : m <= n
  BY <1>2, LeastExists
<1>4. \E l \in S : \A k \in S : t[l] <= t[k]
  BY <1>3
<1>5. Earliest(t, S) \in S
  BY <1>4 DEF Earliest
<1> QED BY <1>5 DEF First, t

LEMMA AlikeSelectable ==
  ASSUME NEW p, NEW c, Exact(p, c), NEW q, Alike(p, q)
  PROVE  Waiting(q) = Waiting(p) /\ Selectable(q) = Selectable(p)
<1>1. Waiting(q) = Waiting(p)
  BY DEF Alike, Waiting
<1>2. Eligible(q) = Eligible(p)
  BY <1>1 DEF Alike, Eligible, Waiting
<1>3. [l \in Lanes |-> q.rec[l].ticket] = [l \in Lanes |-> p.rec[l].ticket]
  BY DEF Alike
<1>4. \A S : First(q, S) = First(p, S)
  BY <1>3 DEF First
<1>5. CASE Waiting(p) = {}
  <2>1. Eligible(p) = {}
    BY <1>5 DEF Eligible
  <2> QED BY <1>1, <1>2, <2>1 DEF Selectable
<1>6. CASE Waiting(p) # {}
  <2>1. Waiting(p) \in SUBSET Lanes
    BY DEF Waiting
  <2>2. Oldest(q) = Oldest(p) /\ Oldest(p) \in Lanes
    BY <1>1, <1>4, <1>6, <2>1, FirstIn DEF Oldest
  <2>3. MayBypass(q) = MayBypass(p)
    BY <2>2 DEF MayBypass, Alike
  <2> QED BY <1>1, <1>2, <1>4, <2>2, <2>3 DEF Selectable
<1> QED BY <1>5, <1>6

\* Pool::maintain.
LEMMA MaintainGood ==
  ASSUME NEW p, NEW c, Exact(p, c)
  PROVE  /\ Exact(Maintain(p), c) /\ Restless(Maintain(p))
         /\ \A k \in Lanes : p.rec[k].kind = "idle" => Maintain(p).rec[k].kind = "idle"
<1>0. PoolForm(p)
  BY DEF Exact
<1>1. CASE ~Selectable(p)
  <2> DEFINE no == FALSE
             q == [p EXCEPT !.pending = no]
  <2>1. Maintain(p) = q
    BY <1>1 DEF Maintain
  <2>2. p = [shared |-> p.shared, held |-> p.held, rec |-> p.rec, ticket |-> p.ticket,
             pending |-> p.pending]
    BY <1>0 DEF PoolForm
  <2> HIDE DEF no
  <2>3. q = [shared |-> p.shared, held |-> p.held, rec |-> p.rec, ticket |-> p.ticket, pending |-> no]
    BY <2>2
  <2> HIDE DEF q
  <2>4. /\ q.shared = p.shared /\ q.held = p.held /\ q.rec = p.rec /\ q.ticket = p.ticket
        /\ q.pending = no
    BY <2>3
  <2>5. q = [shared |-> q.shared, held |-> q.held, rec |-> q.rec, ticket |-> q.ticket,
             pending |-> q.pending]
    BY <2>3, <2>4
  <2>6. SameBooks(p, q)
    BY <1>0, <2>4, <2>5 DEF SameBooks, PoolForm
  <2>7. Alike(p, q)
    BY <2>4 DEF Alike
  <2>8. Restless(q)
    BY <1>1, <2>7, AlikeSelectable DEF Restless
  <2> QED BY <2>1, <2>4, <2>6, <2>8, SameExact
<1>2. CASE Selectable(p)
  <2> DEFINE l == First(p, Eligible(p))
             old == Oldest(p)
             x == p.rec[l]
             b == p.rec[old].bypasses + 1
             q == IF l = old THEN p ELSE [p EXCEPT !.rec[old].bypasses = b]
             a == x.amount
             g == Grant(a)
             r == IF x.live THEN [Charge(q, l, a) EXCEPT !.rec[l] = g]
                  ELSE [q EXCEPT !.rec[l] = Idle]
  <2>1. Maintain(p) = Flag(r)
    BY <1>2 DEF Maintain
  <2>2. /\ l \in Lanes /\ x.kind = "waiting" /\ Covers(p.shared, x.demand)
        /\ old \in Lanes
    <3>1. Eligible(p) # {} /\ Eligible(p) \in SUBSET Lanes /\ Waiting(p) \in SUBSET Lanes
          /\ Eligible(p) \subseteq Waiting(p)
      BY <1>2 DEF Selectable, Eligible, Waiting
    <3>2. l \in Eligible(p) /\ old \in Waiting(p)
      BY <3>1, FirstIn DEF Oldest
    <3> QED BY <3>2 DEF Eligible, Waiting
  <2> HIDE DEF l, old
  <2>3. /\ p.shared \in Amounts /\ p.ticket \in Nat
        /\ LaneOK(p.held[l], x, c[l]) /\ p.held[l] \in Amounts /\ c[l] \in Amounts
        /\ RecOK(x) /\ x.amount \in Amounts
    BY <2>2, ExactParts
  <2>4. /\ Exact(q, c) /\ q.held = p.held /\ q.rec[l] = x /\ q.shared = p.shared
        /\ \A k \in Lanes : q.rec[k].kind = p.rec[k].kind
    <3>1. CASE l = old
      BY <3>1
    <3>2. CASE l # old
      <4> DEFINE z == p.rec[old]
                 y == [z EXCEPT !.bypasses = b]
      <4>1. q = [p EXCEPT !.rec[old] = y]
        BY <3>2
      <4>2. LaneOK(p.held[old], z, c[old]) /\ RecOK(z)
        BY <2>2, ExactParts
      <4>3. Like(y, z)
        <5>1. z = [kind |-> z.kind, live |-> z.live, amount |-> z.amount, demand |-> z.demand,
                   bypasses |-> z.bypasses, ticket |-> z.ticket]
          BY <4>2 DEF RecOK, RecForm
        <5> HIDE DEF b
        <5>2. y = [kind |-> z.kind, live |-> z.live, amount |-> z.amount, demand |-> z.demand,
                   bypasses |-> b, ticket |-> z.ticket]
          BY <5>1
        <5> HIDE DEF y
        <5>3. /\ y.kind = z.kind /\ y.live = z.live /\ y.amount = z.amount /\ y.demand = z.demand
              /\ y.bypasses = b /\ y.ticket = z.ticket
          BY <5>2
        <5> QED BY <4>2, <5>2, <5>3 DEF RecOK, RecForm, Like
      <4> HIDE DEF q
      <4>4. Becomes(p, q, old, p.shared, p.held[old], y, p.ticket) /\ q.held = p.held
        BY <1>0, <2>2, <4>1, RecordForm
      <4>5. LaneOK(p.held[old], y, c[old])
        BY <4>2, <4>3 DEF LaneOK, Like, GrantOf
      <4> HIDE DEF y
      <4>6. Exact(q, c)
        BY <2>2, <2>3, <4>4, <4>5, StaysBalanced, BecomesExact
      <4>7. \A k \in Lanes : q.rec[k].kind = p.rec[k].kind
        BY <4>3, <4>4 DEF Becomes, Like
      <4> QED BY <2>2, <3>2, <4>4, <4>6, <4>7 DEF Becomes
    <3> QED BY <3>1, <3>2
  <2> HIDE DEF q
  <2>5. PoolForm(q) /\ q.ticket \in Nat
    BY <2>4 DEF Exact
  <2>6. Exact(r, c) /\ Apart(q, r, l)
    <3>1. CASE x.live
      <4> DEFINE h == p.held[l]
                 n == Need(h, a)
                 u == Charge(q, l, a)
                 sh == Less(q.shared, n)
                 m == Plus(h, a)
      <4>1. Becomes(q, u, l, sh, m, x, q.ticket)
        BY <2>2, <2>4, <2>5, ChargeForm
      <4>2. Covers(q.shared, n)
        BY <2>2, <2>3, <2>4 DEF LaneOK
      <4>3. Balance(q.shared, q.held[l], sh, m) /\ m \in Amounts
        BY <2>3, <2>4, <4>2, ChargeBalance, PlusAmount
      <4>4. RecOK(g) /\ g.kind = "granted" /\ g.amount = a
        BY <2>3, GrantParts
      <4>5. LaneOK(m, g, c[l])
        <5>1. h = c[l]
          BY <2>2, <2>3, PlusAmount DEF LaneOK, GrantOf
        <5> QED BY <2>3, <4>3, <4>4, <5>1 DEF LaneOK, GrantOf
      <4> DEFINE rr == [u EXCEPT !.rec[l] = g]
      <4>6. r = rr
        BY <3>1
      <4> HIDE DEF u, g, sh, m, r
      <4>7. Becomes(u, rr, l, sh, m, g, q.ticket)
        <5>1. PoolForm(u) /\ u.shared = sh /\ u.held[l] = m /\ u.ticket = q.ticket
          BY <4>1 DEF Becomes
        <5> QED BY <2>2, <5>1, RecordForm
      <4> HIDE DEF rr
      <4>8. Becomes(q, rr, l, sh, m, g, q.ticket)
        BY <2>2, <4>1, <4>7, BecomesThen
      <4>9. Exact(rr, c)
        BY <2>2, <2>4, <2>5, <4>3, <4>5, <4>8, BecomesExact
      <4> QED BY <4>6, <4>8, <4>9 DEF Becomes, Apart
    <3>2. CASE ~x.live
      <4> DEFINE rr == [q EXCEPT !.rec[l] = Idle]
      <4>1. r = rr
        BY <3>2
      <4>2. Becomes(q, rr, l, q.shared, q.held[l], Idle, q.ticket)
        BY <2>2, <2>5, RecordForm
      <4>3. q.held[l] = c[l]
        BY <2>2, <2>3, <2>4, PlusAmount DEF LaneOK, GrantOf
      <4>4. LaneOK(q.held[l], Idle, c[l])
        BY <2>3, <4>3, IdleOK
      <4> HIDE DEF rr, r
      <4>5. Exact(rr, c)
        BY <2>2, <2>4, <2>5, <4>2, <4>4, StaysBalanced, BecomesExact
      <4> QED BY <4>1, <4>2, <4>5 DEF Becomes, Apart
    <3> QED BY <3>1, <3>2
  <2> HIDE DEF r
  <2>7. \A k \in Lanes : p.rec[k].kind = "idle" => r.rec[k].kind = "idle"
    BY <2>2, <2>4, <2>6 DEF Apart
  <2> QED BY <2>1, <2>6, <2>7, FlagExact
<1> QED BY <1>1, <1>2

\* A charge by a lane that may acquire leaves no credit idle: while lanes
\* wait it takes none of the shared credit.
LEMMA AcquireGood ==
  ASSUME NEW p, NEW c, Exact(p, c), NEW l \in Lanes, NEW a \in Amounts, MayAcquire(p, l, a)
  PROVE  /\ p.rec[l].kind = "idle" /\ Covers(p.shared, Need(p.held[l], a))
         /\ Restless(p) => Restless(Charge(p, l, a))
<1> DEFINE n == Need(p.held[l], a)
           q == Charge(p, l, a)
<1>1. PoolForm(p) /\ p.shared \in Amounts /\ n = Demand(p, l, a)
  BY ExactParts DEF Need, Demand
<1>2. p.rec[l].kind = "idle" /\ Covers(p.shared, n)
  BY <1>1 DEF MayAcquire, Busy, Covers, Zero, Amounts
<1>3. q.rec = p.rec /\ q.pending = p.pending /\ q.shared = Less(p.shared, n)
  BY <1>1, ChargeForm DEF Becomes
<1> HIDE DEF q
<1>4. CASE Waiting(p) = {}
  <2>1. Waiting(q) = {}
    BY <1>3, <1>4 DEF Waiting
  <2> QED BY <1>2, <2>1 DEF Restless, q
<1>5. CASE Waiting(p) # {}
  <2>1. n = Zero
    BY <1>1, <1>5 DEF MayAcquire
  <2>2. q.shared = p.shared
    BY <1>1, <1>3, <2>1, PlusAmount
  <2>3. Alike(p, q)
    BY <1>3, <2>2 DEF Alike
  <2>4. Waiting(q) = Waiting(p) /\ Selectable(q) = Selectable(p)
    BY <2>3, AlikeSelectable
  <2>5. Restless(p) => Restless(q)
    BY <1>3, <2>4 DEF Restless
  <2> QED BY <1>2, <2>5 DEF q
<1> QED BY <1>4, <1>5

\* The ready key of a record goes away.
LEMMA ForgetGood ==
  ASSUME NEW p, NEW c, Exact(p, c), NEW l \in Lanes
  PROVE  LET q == [p EXCEPT !.rec[l].live = FALSE]
         IN  /\ Exact(q, c)
             /\ Restless(p) => Restless(q)
             /\ Apart(p, q, l) /\ q.rec[l].kind = p.rec[l].kind
<1> DEFINE no == FALSE
           x == p.rec[l]
           y == [x EXCEPT !.live = no]
           q == [p EXCEPT !.rec[l].live = no]
           r == [p EXCEPT !.rec[l] = y]
<1>1. q = r
  OBVIOUS
<1>2. /\ PoolForm(p) /\ p.shared \in Amounts /\ p.ticket \in Nat
      /\ LaneOK(p.held[l], x, c[l]) /\ RecOK(x)
  BY ExactParts
<1>3. Like(y, x) /\ y.bypasses = x.bypasses /\ y.ticket = x.ticket
  <2>1. x = [kind |-> x.kind, live |-> x.live, amount |-> x.amount, demand |-> x.demand,
             bypasses |-> x.bypasses, ticket |-> x.ticket]
    BY <1>2 DEF RecOK, RecForm
  <2> HIDE DEF no, x
  <2>2. y = [kind |-> x.kind, live |-> no, amount |-> x.amount, demand |-> x.demand,
             bypasses |-> x.bypasses, ticket |-> x.ticket]
    BY <2>1
  <2> HIDE DEF y
  <2>3. /\ y.kind = x.kind /\ y.live = no /\ y.amount = x.amount /\ y.demand = x.demand
        /\ y.bypasses = x.bypasses /\ y.ticket = x.ticket
    BY <2>2
  <2> QED BY <1>2, <2>2, <2>3 DEF RecOK, RecForm, Like
<1>4. Becomes(p, r, l, p.shared, p.held[l], y, p.ticket) /\ r.pending = p.pending
  BY <1>2, RecordForm
<1> HIDE DEF y, r
<1>5. LaneOK(p.held[l], y, c[l])
  BY <1>2, <1>3 DEF LaneOK, Like, GrantOf
<1>6. Exact(r, c)
  BY <1>2, <1>4, <1>5, StaysBalanced, BecomesExact
<1>7. Alike(p, r)
  BY <1>3, <1>4 DEF Alike, Becomes, Like
<1>8. Restless(p) => Restless(r)
  BY <1>4, <1>7, AlikeSelectable DEF Restless
<1>9. Apart(p, r, l) /\ r.rec[l].kind = x.kind
  BY <1>3, <1>4 DEF Apart, Becomes, Like
<1> HIDE DEF q
<1>10. Exact(q, c) /\ (Restless(p) => Restless(q)) /\ Apart(p, q, l) /\ q.rec[l].kind = p.rec[l].kind
  BY <1>1, <1>6, <1>8, <1>9
<1> QED BY <1>10 DEF q, no
-----------------------------------------------------------------------------
(* Queues.                                                                 *)

Payloads == [left : Nat \ {0}, size : Nat]

Lefts(q) == [i \in DOMAIN q |-> q[i].left]
Sizings(q) == [i \in DOMAIN q |-> q[i].size]

LEMMA SeqParts ==
  ASSUME NEW q \in Seq(Payloads)
  PROVE  /\ Lefts(q) \in Seq(Nat) /\ Sizings(q) \in Seq(Nat)
         /\ Len(Lefts(q)) = Len(q) /\ Len(Sizings(q)) = Len(q) /\ Len(q) \in Nat
         /\ \A i \in 1 .. Len(q) : /\ Lefts(q)[i] = q[i].left /\ Sizings(q)[i] = q[i].size
                                   /\ q[i] \in Payloads /\ q[i].left \in Nat /\ q[i].size \in Nat
<1>1. Len(q) \in Nat /\ DOMAIN q = 1 .. Len(q) /\ \A i \in 1 .. Len(q) : q[i] \in Payloads
  BY LenProperties
<1>2. \A i \in 1 .. Len(q) : q[i].left \in Nat /\ q[i].size \in Nat
  BY <1>1 DEF Payloads
<1>3. Lefts(q) \in [1 .. Len(q) -> Nat] /\ Sizings(q) \in [1 .. Len(q) -> Nat]
  BY <1>1, <1>2 DEF Lefts, Sizings
<1>4. Lefts(q) \in Seq(Nat) /\ Sizings(q) \in Seq(Nat)
  <2>1. Seq(Nat) = UNION {[1 .. n -> Nat] : n \in Nat}
    BY SeqDef
  <2>2. \A f : f \in [1 .. Len(q) -> Nat] => f \in Seq(Nat)
    BY <1>1, <2>1
  <2> QED BY <1>3, <2>2
<1>5. DOMAIN Lefts(q) = 1 .. Len(q) /\ DOMAIN Sizings(q) = 1 .. Len(q)
  BY <1>3
<1>6. Len(Lefts(q)) = Len(q) /\ Len(Sizings(q)) = Len(q)
  BY <1>1, <1>4, <1>5, LenProperties
<1>7. \A i \in 1 .. Len(q) : Lefts(q)[i] = q[i].left /\ Sizings(q)[i] = q[i].size
  BY <1>1 DEF Lefts, Sizings
<1> QED BY <1>1, <1>2, <1>4, <1>6, <1>7

LEMMA Measures ==
  ASSUME NEW q \in Seq(Payloads)
  PROVE  /\ Bytes(q) = Total(Lefts(q)) /\ Bytes(q) \in Nat
         /\ Cost(q) = [e |-> Len(q), r |-> Total(Sizings(q))] /\ Cost(q) \in Amounts
<1>1. Total(Lefts(q)) \in Nat /\ Total(Sizings(q)) \in Nat /\ Len(q) \in Nat
  BY SeqParts, TotalSeq
<1>2. Bytes(q) = Total(Lefts(q)) /\ Cost(q) = [e |-> Len(q), r |-> Total(Sizings(q))]
  BY DEF Bytes, Cost, Lefts, Sizings
<1> QED BY <1>1, <1>2 DEF Amounts

LEMMA EmptyMeasures == Bytes(<<>>) = 0 /\ Cost(<<>>) = Zero /\ <<>> \in Seq(Payloads)
<1>1. Lefts(<<>>) = <<>> /\ Sizings(<<>>) = <<>> /\ <<>> \in Seq(Payloads)
  BY DEF Lefts, Sizings
<1> QED BY <1>1, Measures, TotalEmpty DEF Zero

LEMMA OneMeasures ==
  ASSUME NEW x \in Payloads
  PROVE  /\ <<x>> \in Seq(Payloads) /\ Bytes(<<x>>) = x.left
         /\ Cost(<<x>>) = [e |-> 1, r |-> x.size]
<1>1. Lefts(<<x>>) = <<x.left>> /\ Sizings(<<x>>) = <<x.size>> /\ <<x>> \in Seq(Payloads)
  BY DEF Lefts, Sizings
<1>2. x.left \in Nat /\ x.size \in Nat
  BY DEF Payloads
<1> QED BY <1>1, <1>2, Measures, TotalOne

LEMMA ConcatMeasures ==
  ASSUME NEW q \in Seq(Payloads), NEW r \in Seq(Payloads)
  PROVE  /\ q \o r \in Seq(Payloads)
         /\ Bytes(q \o r) = Bytes(q) + Bytes(r) /\ Cost(q \o r) = Plus(Cost(q), Cost(r))
<1> DEFINE c == q \o r
<1>1. c \in Seq(Payloads) /\ Len(c) = Len(q) + Len(r)
      /\ \A i \in 1 .. (Len(q) + Len(r)) : c[i] = IF i <= Len(q) THEN q[i] ELSE r[i - Len(q)]
  BY ConcatProperties
<1> HIDE DEF c
<1>0. Len(q) \in Nat /\ Len(r) \in Nat
  BY LenProperties
<1>2. Lefts(c) = Lefts(q) \o Lefts(r)
  <2> DEFINE s == Lefts(c)
             t == Lefts(q) \o Lefts(r)
  <2>1. s \in Seq(Nat) /\ Len(s) = Len(q) + Len(r)
    BY <1>1, SeqParts
  <2>2. /\ t \in Seq(Nat) /\ Len(t) = Len(q) + Len(r)
        /\ \A i \in 1 .. (Len(q) + Len(r)) :
             t[i] = IF i <= Len(q) THEN Lefts(q)[i] ELSE Lefts(r)[i - Len(q)]
    <3> DEFINE u == Lefts(q)
               v == Lefts(r)
    <3>1. u \in Seq(Nat) /\ v \in Seq(Nat) /\ Len(u) = Len(q) /\ Len(v) = Len(r)
      BY SeqParts
    <3> HIDE DEF u, v
    <3>2. /\ u \o v \in Seq(Nat) /\ Len(u \o v) = Len(u) + Len(v)
          /\ \A i \in 1 .. Len(u) + Len(v) :
               (u \o v)[i] = IF i <= Len(u) THEN u[i] ELSE v[i - Len(u)]
      BY <3>1, ConcatProperties
    <3> QED BY <3>1, <3>2 DEF u, v
  <2>3. ASSUME NEW i \in 1 .. (Len(q) + Len(r)) PROVE s[i] = t[i]
    <3>1. s[i] = c[i].left
      BY <1>1, SeqParts
    <3>2. CASE i <= Len(q)
      <4>1. i \in 1 .. Len(q)
        BY <1>0, <3>2
      <4> QED BY <1>1, <2>2, <3>1, <3>2, <4>1, SeqParts
    <3>3. CASE ~(i <= Len(q))
      <4>1. i - Len(q) \in 1 .. Len(r)
        BY <1>0, <3>3
      <4> QED BY <1>1, <2>2, <3>1, <3>3, <4>1, SeqParts
    <3> QED BY <3>2, <3>3
  <2> HIDE DEF s, t
  <2>4. s = t
    BY <2>1, <2>2, <2>3, SeqEqual
  <2> QED BY <2>4 DEF s, t
<1>3. Sizings(c) = Sizings(q) \o Sizings(r)
  <2> DEFINE s == Sizings(c)
             t == Sizings(q) \o Sizings(r)
  <2>1. s \in Seq(Nat) /\ Len(s) = Len(q) + Len(r)
    BY <1>1, SeqParts
  <2>2. /\ t \in Seq(Nat) /\ Len(t) = Len(q) + Len(r)
        /\ \A i \in 1 .. (Len(q) + Len(r)) :
             t[i] = IF i <= Len(q) THEN Sizings(q)[i] ELSE Sizings(r)[i - Len(q)]
    <3> DEFINE u == Sizings(q)
               v == Sizings(r)
    <3>1. u \in Seq(Nat) /\ v \in Seq(Nat) /\ Len(u) = Len(q) /\ Len(v) = Len(r)
      BY SeqParts
    <3> HIDE DEF u, v
    <3>2. /\ u \o v \in Seq(Nat) /\ Len(u \o v) = Len(u) + Len(v)
          /\ \A i \in 1 .. Len(u) + Len(v) :
               (u \o v)[i] = IF i <= Len(u) THEN u[i] ELSE v[i - Len(u)]
      BY <3>1, ConcatProperties
    <3> QED BY <3>1, <3>2 DEF u, v
  <2>3. ASSUME NEW i \in 1 .. (Len(q) + Len(r)) PROVE s[i] = t[i]
    <3>1. s[i] = c[i].size
      BY <1>1, SeqParts
    <3>2. CASE i <= Len(q)
      <4>1. i \in 1 .. Len(q)
        BY <1>0, <3>2
      <4> QED BY <1>1, <2>2, <3>1, <3>2, <4>1, SeqParts
    <3>3. CASE ~(i <= Len(q))
      <4>1. i - Len(q) \in 1 .. Len(r)
        BY <1>0, <3>3
      <4> QED BY <1>1, <2>2, <3>1, <3>3, <4>1, SeqParts
    <3> QED BY <3>2, <3>3
  <2> HIDE DEF s, t
  <2>4. s = t
    BY <2>1, <2>2, <2>3, SeqEqual
  <2> QED BY <2>4 DEF s, t
<1>4. /\ Total(Lefts(q) \o Lefts(r)) = Total(Lefts(q)) + Total(Lefts(r))
      /\ Total(Sizings(q) \o Sizings(r)) = Total(Sizings(q)) + Total(Sizings(r))
  BY SeqParts, TotalConcat
<1>5. Bytes(c) = Bytes(q) + Bytes(r)
  BY <1>1, <1>2, <1>4, Measures
<1>6. Cost(c) = Plus(Cost(q), Cost(r))
  <2>1. Total(Sizings(c)) = Total(Sizings(q)) + Total(Sizings(r))
    BY <1>3, <1>4
  <2>2. /\ Cost(c) = [e |-> Len(c), r |-> Total(Sizings(c))]
        /\ Cost(q) = [e |-> Len(q), r |-> Total(Sizings(q))]
        /\ Cost(r) = [e |-> Len(r), r |-> Total(Sizings(r))]
    BY <1>1, Measures
  <2> QED BY <1>1, <2>1, <2>2 DEF Plus
<1> QED BY <1>1, <1>5, <1>6 DEF c

\* A queue is its first k payloads and the others.
LEMMA Cut ==
  ASSUME NEW q \in Seq(Payloads), NEW k \in 0 .. Len(q)
  PROVE  LET pre == SubSeq(q, 1, k)
             rest == SubSeq(q, k + 1, Len(q))
         IN  /\ pre \in Seq(Payloads) /\ rest \in Seq(Payloads) /\ q = pre \o rest
             /\ Len(pre) = k /\ Len(rest) = Len(q) - k
             /\ Bytes(q) = Bytes(pre) + Bytes(rest) /\ Cost(q) = Plus(Cost(pre), Cost(rest))
<1> DEFINE pre == SubSeq(q, 1, k)
           rest == SubSeq(q, k + 1, Len(q))
<1>1. Len(q) \in Nat /\ \A i \in 1 .. Len(q) : q[i] \in Payloads
  BY LenProperties
<1>2. pre \in Seq(Payloads) /\ Len(pre) = k
  <2>1. 1 \in Int /\ k \in Int /\ \A i \in 1 .. k : q[i] \in Payloads
    BY <1>1
  <2>2. pre \in Seq(Payloads) /\ Len(pre) = IF 1 <= k THEN k - 1 + 1 ELSE 0
    BY <2>1, SubSeqProperties
  <2> QED BY <2>1, <2>2
<1>3. rest \in Seq(Payloads) /\ Len(rest) = Len(q) - k
  <2>1. k + 1 \in Int /\ Len(q) \in Int /\ \A i \in (k + 1) .. Len(q) : q[i] \in Payloads
    BY <1>1
  <2>2. rest \in Seq(Payloads)
        /\ Len(rest) = IF k + 1 <= Len(q) THEN Len(q) - (k + 1) + 1 ELSE 0
    BY <2>1, SubSeqProperties
  <2> QED BY <1>1, <2>1, <2>2
<1>4. q = pre \o rest
  <2>1. 1 \in 1 .. Len(q) + 1 /\ k \in 1 - 1 .. Len(q) /\ Len(q) \in k .. Len(q)
    BY <1>1
  <2>2. pre \o rest = SubSeq(q, 1, Len(q))
    BY <2>1, ConcatAdjacentSubSeq
  <2> QED BY <2>2, SubSeqFull
<1> HIDE DEF pre, rest
<1>5. Bytes(q) = Bytes(pre) + Bytes(rest) /\ Cost(q) = Plus(Cost(pre), Cost(rest))
  BY <1>2, <1>3, <1>4, ConcatMeasures
<1>6. /\ pre \in Seq(Payloads) /\ rest \in Seq(Payloads) /\ q = pre \o rest
      /\ Len(pre) = k /\ Len(rest) = Len(q) - k
      /\ Bytes(q) = Bytes(pre) + Bytes(rest) /\ Cost(q) = Plus(Cost(pre), Cost(rest))
  BY <1>2, <1>3, <1>4, <1>5
<1> QED BY <1>6 DEF pre, rest

LEMMA MaxIn ==
  ASSUME NEW N \in Nat, NEW S \in SUBSET (0 .. N), S # {}
  PROVE  Max(S) \in S /\ \A y \in S : Max(S) >= y
<1> DEFINE T == {N - i : i \in S}
<1>1. T \in SUBSET Nat /\ T # {}
  <2>1. \A i \in S : N - i \in Nat
    OBVIOUS
  <2>2. PICK i : i \in S
    OBVIOUS
  <2>3. N - i \in T
    BY <2>2
  <2> QED BY <2>1, <2>3
<1>2. PICK m \in T : \A n \in T : m <= n
  BY <1>1, LeastExists
<1>3. PICK x \in S : m = N - x
  BY <1>2
<1>4. ASSUME NEW y \in S PROVE x >= y
  <2>1. N - y \in T
    OBVIOUS
  <2>2. N - x <= N - y
    BY <1>2, <1>3, <2>1
  <2>3. x \in Int /\ y \in Int
    OBVIOUS
  <2> QED BY <2>2, <2>3
<1>5. \E z \in S : \A y \in S : z >= y
  BY <1>4
<1> QED BY <1>5 DEF Max

\* The payload after the first k.
LEMMA NextPayload ==
  ASSUME NEW q \in Seq(Payloads), NEW k \in 0 .. (Len(q) - 1)
  PROVE  /\ k + 1 \in 1 .. Len(q) /\ q[k + 1] \in Payloads
         /\ Bytes(SubSeq(q, 1, k + 1)) = Bytes(SubSeq(q, 1, k)) + q[k + 1].left
<1>1. Len(q) \in Nat /\ k + 1 \in 1 .. Len(q) /\ k \in 0 .. Len(q) /\ q[k + 1] \in Payloads
  BY LenProperties
<1>2. SubSeq(q, 1, k + 1) = SubSeq(q, 1, k) \o <<q[k + 1]>>
  <2>1. 1 \in 1 .. Len(q) /\ k + 1 \in 1 .. Len(q) /\ (k + 1) - 1 = k
    BY <1>1
  <2> QED BY <2>1, SubSeqRecursiveSecond
<1>3. SubSeq(q, 1, k) \in Seq(Payloads)
  BY <1>1, Cut
<1> QED BY <1>1, <1>2, <1>3, OneMeasures, ConcatMeasures

\* The first payload loses n of its bytes.
LEMMA CutFirst ==
  ASSUME NEW q \in Seq(Payloads), q # <<>>, NEW n \in Nat, n < q[1].left
  PROVE  LET r == [q EXCEPT ![1].left = @ - n]
         IN  r \in Seq(Payloads) /\ Len(r) = Len(q) /\ Cost(r) = Cost(q) /\ Bytes(r) = Bytes(q) - n
<1> DEFINE x == q[1]
           y == [left |-> x.left - n, size |-> x.size]
           r == [q EXCEPT ![1] = y]
<1>1. Len(q) \in Nat /\ 1 \in 1 .. Len(q) /\ x \in Payloads
  BY EmptySeq, LenProperties
<1>2. x = [left |-> x.left, size |-> x.size] /\ x.left \in Nat \ {0} /\ x.size \in Nat
  BY <1>1 DEF Payloads
<1>3. [x EXCEPT !.left = x.left - n] = y
  <2> DEFINE m == x.left - n
  <2> HIDE DEF x, m
  <2>1. [x EXCEPT !.left = m] = [left |-> m, size |-> x.size]
    BY <1>2
  <2> QED BY <2>1 DEF m
<1>4. [q EXCEPT ![1].left = @ - n] = r
  BY <1>3
<1>5. y \in Payloads
  BY <1>2 DEF Payloads
<1> HIDE DEF x, y
<1>6. /\ r \in Seq(Payloads) /\ Len(r) = Len(q)
      /\ \A j \in 1 .. Len(q) : r[j] = IF j = 1 THEN y ELSE q[j]
  BY <1>1, <1>5, ExceptSeq
<1> HIDE DEF r
<1>7. \A j \in 2 .. Len(q) : r[j] = q[j]
  BY <1>1, <1>6
<1>8. \A j \in 1 .. Len(q) : r[j].size = q[j].size
  BY <1>1, <1>6 DEF x, y
<1>9. Sizings(r) = Sizings(q)
  <2>1. \A j \in 1 .. Len(q) : Sizings(r)[j] = Sizings(q)[j]
    BY <1>6, <1>8, SeqParts
  <2>2. /\ Sizings(r) \in Seq(Nat) /\ Sizings(q) \in Seq(Nat)
        /\ Len(Sizings(r)) = Len(q) /\ Len(Sizings(q)) = Len(q)
    BY <1>6, SeqParts
  <2> QED BY <2>1, <2>2, SeqEqual
<1>10. Cost(r) = Cost(q)
  BY <1>6, <1>9, Measures
<1>11. Bytes(r) = Bytes(q) - n
  <2> DEFINE S == 1 .. Len(q)
  <2>1. IsFiniteSet(S)
    BY <1>1, FS_Interval
  <2>2. /\ \A j \in S : Lefts(q)[j] \in Nat /\ Lefts(r)[j] \in Nat
        /\ Lefts(q)[1] = x.left /\ Lefts(r)[1] = x.left - n
        /\ \A j \in S \ {1} : Lefts(q)[j] = Lefts(r)[j]
    <3>1. \A j \in S : Lefts(q)[j] = q[j].left /\ Lefts(r)[j] = r[j].left /\ q[j].left \in Nat
                       /\ r[j].left \in Nat
      BY <1>6, SeqParts
    <3>2. y.left = x.left - n
      BY DEF y
    <3>3. \A j \in S \ {1} : j \in 2 .. Len(q)
      BY <1>1
    <3>4. r[1] = y /\ 1 \in S
      BY <1>1, <1>6
    <3>5. Lefts(q)[1] = x.left /\ Lefts(r)[1] = y.left
      BY <3>1, <3>4 DEF x
    <3>6. \A j \in S \ {1} : r[j] = q[j]
      BY <1>7, <3>3
    <3> HIDE DEF S
    <3>7. \A j \in S \ {1} : Lefts(q)[j] = Lefts(r)[j]
      BY <3>1, <3>6
    <3> QED BY <3>1, <3>2, <3>5, <3>7
  <2>3. /\ Bytes(q) = Over(Lefts(q), S) /\ Bytes(r) = Over(Lefts(r), S)
        /\ Bytes(q) \in Nat /\ Bytes(r) \in Nat
    <3>1. Bytes(q) = Total(Lefts(q)) /\ Bytes(r) = Total(Lefts(r)) /\ Bytes(q) \in Nat /\ Bytes(r) \in Nat
      BY <1>6, Measures
    <3>2. Total(Lefts(q)) = Over(Lefts(q), 1 .. Len(Lefts(q))) /\ Len(Lefts(q)) = Len(q)
      BY SeqParts, TotalSeq
    <3>3. Total(Lefts(r)) = Over(Lefts(r), 1 .. Len(Lefts(r))) /\ Len(Lefts(r)) = Len(q)
      BY <1>6, SeqParts, TotalSeq
    <3> QED BY <3>1, <3>2, <3>3
  <2> HIDE DEF S
  <2>4. Over(Lefts(r), S) + Lefts(q)[1] = Over(Lefts(q), S) + Lefts(r)[1]
    <3>1. 1 \in S
      BY <1>1 DEF S
    <3> DEFINE f == Lefts(q)
               h == Lefts(r)
    <3>2. /\ \A j \in S : f[j] \in Nat /\ h[j] \in Nat
          /\ \A j \in S \ {1} : f[j] = h[j]
      BY <2>2
    <3> HIDE DEF f, h
    <3>3. Over(h, S) + f[1] = Over(f, S) + h[1]
      BY <2>1, <3>1, <3>2, OverOne
    <3> QED BY <3>3 DEF f, h
  <2>5. Bytes(r) + x.left = Bytes(q) + (x.left - n)
    BY <2>2, <2>3, <2>4
  <2> QED BY <1>2, <2>3, <2>5
<1> HIDE DEF r
<1>12. r \in Seq(Payloads) /\ Len(r) = Len(q) /\ Cost(r) = Cost(q) /\ Bytes(r) = Bytes(q) - n
  BY <1>6, <1>10, <1>11
<1> QED BY <1>4, <1>12

\* Released::consume: the payloads that leave and those that stay.
LEMMA ConsumeGood ==
  ASSUME NEW q \in Seq(Payloads), NEW n \in Nat, n <= Bytes(q)
  PROVE  LET rest == Consume(q, n)
             gone == SubSeq(q, 1, Len(q) - Len(rest))
         IN  /\ rest \in Seq(Payloads) /\ gone \in Seq(Payloads)
             /\ Bytes(rest) = Bytes(q) - n /\ Cost(q) = Plus(Cost(gone), Cost(rest))
<1> DEFINE S == {i \in 0 .. Len(q) : Bytes(SubSeq(q, 1, i)) <= n}
           k == Max(S)
           pre == SubSeq(q, 1, k)
           tail == SubSeq(q, k + 1, Len(q))
           cut == n - Bytes(pre)
           rest == Consume(q, n)
           gone == SubSeq(q, 1, Len(q) - Len(rest))
<1>1. Len(q) \in Nat
  BY LenProperties
<1>2. 0 \in S
  <2>1. SubSeq(q, 1, 0) = <<>>
    BY SubSeqEmpty
  <2>2. Bytes(SubSeq(q, 1, 0)) = 0
    BY <2>1, EmptyMeasures
  <2>3. 0 \in 0 .. Len(q) /\ 0 <= n
    BY <1>1
  <2> QED BY <2>2, <2>3
<1>3. k \in S /\ \A y \in S : k >= y
  <2>1. S \in SUBSET (0 .. Len(q)) /\ S # {}
    BY <1>2
  <2> HIDE DEF S
  <2> QED BY <1>1, <2>1, MaxIn
<1>4. rest = IF cut = 0 THEN tail ELSE [tail EXCEPT ![1].left = @ - cut]
  BY DEF Consume
<1> HIDE DEF k, rest
<1>5. k \in 0 .. Len(q) /\ Bytes(pre) <= n
  BY <1>3
<1>6. /\ pre \in Seq(Payloads) /\ tail \in Seq(Payloads)
      /\ Len(pre) = k /\ Len(tail) = Len(q) - k
      /\ Bytes(q) = Bytes(pre) + Bytes(tail) /\ Cost(q) = Plus(Cost(pre), Cost(tail))
  BY <1>5, Cut
<1>7. Bytes(pre) \in Nat /\ Bytes(tail) \in Nat /\ Bytes(q) \in Nat /\ cut \in Nat
  <2>1. Bytes(pre) \in Nat /\ Bytes(tail) \in Nat /\ Bytes(q) \in Nat
    BY <1>6, Measures
  <2> QED BY <1>5, <2>1
<1>8. rest \in Seq(Payloads) /\ Len(rest) = Len(tail) /\ Cost(rest) = Cost(tail)
      /\ Bytes(rest) = Bytes(tail) - cut
  <2>1. CASE cut = 0
    BY <1>4, <1>6, <1>7, <2>1
  <2>2. CASE cut # 0
    <3>1. k \in 0 .. (Len(q) - 1)
      <4>1. CASE k = Len(q)
        <5>1. Len(tail) = 0
          BY <1>1, <1>6, <4>1
        <5>2. tail = <<>>
          BY <1>6, <5>1, EmptySeq
        <5>3. Bytes(tail) = 0
          BY <5>2, EmptyMeasures
        <5> HIDE DEF pre, tail
        <5> QED BY <1>5, <1>6, <1>7, <2>2, <5>3
      <4> QED BY <1>1, <1>5, <4>1
    <3>2. /\ k + 1 \in 1 .. Len(q) /\ q[k + 1] \in Payloads
          /\ Bytes(SubSeq(q, 1, k + 1)) = Bytes(pre) + q[k + 1].left
      BY <3>1, NextPayload
    <3>3. ~(Bytes(SubSeq(q, 1, k + 1)) <= n)
      <4>1. SUFFICES ASSUME Bytes(SubSeq(q, 1, k + 1)) <= n PROVE FALSE
        OBVIOUS
      <4>2. k + 1 \in S
        BY <1>1, <3>2, <4>1
      <4> QED BY <1>3, <3>1, <4>2
    <3>4. tail # <<>> /\ tail[1] = q[k + 1]
      <4>1. Head(tail) = q[k + 1] /\ Len(tail) > 0
        <5>1. k + 1 \in 1 .. Len(q) /\ Len(q) \in (k + 1) .. Len(q)
          BY <1>1, <3>2
        <5>2. Head(tail) = q[k + 1]
          BY <5>1, HeadTailOfSubSeq
        <5> QED BY <1>1, <1>6, <3>1, <5>2
      <4> HIDE DEF tail
      <4>2. tail # <<>>
        <5>1. Len(<<>>) = 0
          OBVIOUS
        <5> QED BY <4>1, <5>1
      <4>3. Head(tail) = tail[1]
        BY <1>6, <4>2
      <4> QED BY <4>1, <4>2, <4>3
    <3>5. q[k + 1].left \in Nat
      BY <3>2 DEF Payloads
    <3>6. cut < tail[1].left
      <4> DEFINE w == q[k + 1].left
                 b == Bytes(pre)
      <4>1. ~(b + w <= n) /\ w \in Nat /\ b \in Nat /\ cut = n - b
        BY <1>7, <3>2, <3>3, <3>5
      <4> HIDE DEF w, b, cut
      <4>2. cut < w
        BY <4>1
      <4> QED BY <3>4, <4>2 DEF w
    <3> HIDE DEF cut, tail
    <3> QED BY <1>4, <1>6, <1>7, <2>2, <3>4, <3>6, CutFirst
  <2> QED BY <2>1, <2>2
<1>9. gone = pre
  <2>1. Len(q) - Len(rest) = k
    BY <1>1, <1>5, <1>6, <1>8
  <2> QED BY <2>1
<1>10. Bytes(rest) = Bytes(q) - n
  <2> DEFINE b == Bytes(pre)
             t == Bytes(tail)
  <2>1. b \in Nat /\ t \in Nat /\ Bytes(q) = b + t /\ Bytes(rest) = t - (n - b)
    BY <1>6, <1>7, <1>8
  <2> HIDE DEF b, t
  <2> QED BY <2>1
<1>11. /\ rest \in Seq(Payloads) /\ gone \in Seq(Payloads)
       /\ Bytes(rest) = Bytes(q) - n /\ Cost(q) = Plus(Cost(gone), Cost(rest))
  BY <1>6, <1>8, <1>9, <1>10
<1> QED BY <1>11 DEF rest
-----------------------------------------------------------------------------
(* The inductive invariant.                                                *)

\* A lane with queue q, lease s, connection c and o bytes owed.
LinkOK(q, s, c, o) ==
  /\ q \in Seq(Payloads) /\ s \in Seq(Payloads) /\ c \in {"free", "open", "closing"}
  /\ Len(s) <= Len(q) /\ s = SubSeq(q, 1, Len(s))
  /\ o = Bytes(q)
  /\ c = "free" => q = <<>>

LanesInv ==
  /\ queue = [l \in Lanes |-> queue[l]] /\ lease = [l \in Lanes |-> lease[l]]
  /\ conn = [l \in Lanes |-> conn[l]] /\ owed = [l \in Lanes |-> owed[l]]
  /\ \A l \in Lanes : LinkOK(queue[l], lease[l], conn[l], owed[l])

Costs == [l \in Lanes |-> Cost(queue[l])]

PoolInv ==
  /\ Exact(pool, Costs) /\ Restless(pool)
  /\ \A l \in Lanes : conn[l] = "free" => pool.rec[l].kind = "idle"

IInv == LanesInv /\ PoolInv

LEMMA CostsForm ==
  ASSUME LanesInv
  PROVE  Costs \in [Lanes -> Amounts] /\ \A l \in Lanes : Costs[l] = Cost(queue[l])
<1>1. \A l \in Lanes : Cost(queue[l]) \in Amounts
  BY Measures DEF LanesInv, LinkOK
<1> QED BY <1>1 DEF Costs

\* One lane changes, with its queue.
LEMMA CostsChange ==
  ASSUME LanesInv, NEW l \in Lanes, NEW q, queue' = [queue EXCEPT ![l] = q]
  PROVE  Costs' = [Costs EXCEPT ![l] = Cost(q)]
<1>1. queue'[l] = q /\ \A k \in Lanes \ {l} : queue'[k] = queue[k]
  BY DEF LanesInv
<1>2. \A k \in Lanes : Cost(queue'[k]) = IF k = l THEN Cost(q) ELSE Cost(queue[k])
  BY <1>1
<1> QED BY <1>2 DEF Costs

LEMMA LanesChange ==
  ASSUME LanesInv, NEW l \in Lanes, NEW q, NEW s, NEW c, NEW o,
         queue' = [queue EXCEPT ![l] = q], lease' = [lease EXCEPT ![l] = s],
         conn' = [conn EXCEPT ![l] = c], owed' = [owed EXCEPT ![l] = o],
         LinkOK(q, s, c, o)
  PROVE  LanesInv'
<1>1. /\ queue' = [k \in Lanes |-> queue'[k]] /\ lease' = [k \in Lanes |-> lease'[k]]
      /\ conn' = [k \in Lanes |-> conn'[k]] /\ owed' = [k \in Lanes |-> owed'[k]]
  BY DEF LanesInv
<1>2. queue'[l] = q /\ lease'[l] = s /\ conn'[l] = c /\ owed'[l] = o
  BY DEF LanesInv
<1>3. \A k \in Lanes \ {l} : /\ queue'[k] = queue[k] /\ lease'[k] = lease[k]
                             /\ conn'[k] = conn[k] /\ owed'[k] = owed[k]
  BY DEF LanesInv
<1>4. \A k \in Lanes : LinkOK(queue'[k], lease'[k], conn'[k], owed'[k])
  BY <1>2, <1>3 DEF LanesInv
<1> QED BY <1>1, <1>4 DEF LanesInv

\* What does not change is changed to itself.
LEMMA Itself ==
  ASSUME LanesInv, NEW l \in Lanes
  PROVE  /\ queue = [queue EXCEPT ![l] = queue[l]] /\ lease = [lease EXCEPT ![l] = lease[l]]
         /\ conn = [conn EXCEPT ![l] = conn[l]] /\ owed = [owed EXCEPT ![l] = owed[l]]
         /\ LinkOK(queue[l], lease[l], conn[l], owed[l])
BY DEF LanesInv

LEMMA PrefixGrows ==
  ASSUME NEW q \in Seq(Payloads), NEW r \in Seq(Payloads), NEW n \in 0 .. Len(q)
  PROVE  SubSeq(q \o r, 1, n) = SubSeq(q, 1, n)
<1> DEFINE c == q \o r
<1>1. /\ c \in Seq(Payloads) /\ Len(c) = Len(q) + Len(r) /\ Len(q) \in Nat /\ Len(r) \in Nat
      /\ \A i \in 1 .. Len(q) + Len(r) : c[i] = IF i <= Len(q) THEN q[i] ELSE r[i - Len(q)]
  BY ConcatProperties, LenProperties
<1> HIDE DEF c
<1>2. \A i \in 1 .. n : c[i] = q[i] /\ q[i] \in Payloads
  BY <1>1, LenProperties
<1>3. /\ SubSeq(c, 1, n) \in Seq(Payloads) /\ Len(SubSeq(c, 1, n)) = n
      /\ \A i \in 1 .. n : SubSeq(c, 1, n)[i] = c[i]
  <2>1. /\ SubSeq(c, 1, n) \in Seq(Payloads)
        /\ Len(SubSeq(c, 1, n)) = IF 1 <= n THEN n - 1 + 1 ELSE 0
        /\ \A i \in 1 .. n - 1 + 1 : SubSeq(c, 1, n)[i] = c[1 + i - 1]
    BY <1>2, SubSeqProperties
  <2> QED BY <2>1
<1>4. /\ SubSeq(q, 1, n) \in Seq(Payloads) /\ Len(SubSeq(q, 1, n)) = n
      /\ \A i \in 1 .. n : SubSeq(q, 1, n)[i] = q[i]
  <2>1. /\ SubSeq(q, 1, n) \in Seq(Payloads)
        /\ Len(SubSeq(q, 1, n)) = IF 1 <= n THEN n - 1 + 1 ELSE 0
        /\ \A i \in 1 .. n - 1 + 1 : SubSeq(q, 1, n)[i] = q[1 + i - 1]
    BY <1>2, SubSeqProperties
  <2> QED BY <2>1
<1>5. SubSeq(c, 1, n) = SubSeq(q, 1, n)
  BY <1>2, <1>3, <1>4, SeqEqual
<1> QED BY <1>5 DEF c

LEMMA LoadParts ==
  ASSUME NEW q \in Loads
  PROVE  /\ q.entries \in Seq(Payloads) /\ q.bytes = Bytes(q.entries) /\ q.cost = Cost(q.entries)
         /\ q.cost \in Amounts
<1>1. \A n \in Sizes : Payload(n) \in Payloads
  BY EgressAssumption DEF Payload, Payloads
<1>2. PICK u \in Seq(Payloads) : q = [entries |-> u, bytes |-> Bytes(u), cost |-> Cost(u)]
  <2>1. CASE \E n \in Sizes : LET u == <<Payload(n)>> IN q = [entries |-> u, bytes |-> Bytes(u), cost |-> Cost(u)]
    <3>1. PICK n \in Sizes : LET u == <<Payload(n)>> IN q = [entries |-> u, bytes |-> Bytes(u), cost |-> Cost(u)]
      BY <2>1
    <3>2. <<Payload(n)>> \in Seq(Payloads)
      BY <1>1
    <3> QED BY <3>1, <3>2
  <2>2. CASE \E n, m \in Sizes : LET u == <<Payload(n), Payload(m)>>
                                 IN  q = [entries |-> u, bytes |-> Bytes(u), cost |-> Cost(u)]
    <3>1. PICK n, m \in Sizes : LET u == <<Payload(n), Payload(m)>>
                                IN  q = [entries |-> u, bytes |-> Bytes(u), cost |-> Cost(u)]
      BY <2>2
    <3>2. <<Payload(n), Payload(m)>> \in Seq(Payloads)
      BY <1>1
    <3> QED BY <3>1, <3>2
  <2> QED BY <2>1, <2>2 DEF Loads
<1>3. q.entries = u /\ q.bytes = Bytes(u) /\ q.cost = Cost(u)
  BY <1>2
<1> QED BY <1>3, Measures

\* A load is published on a lane.
LEMMA PublishedKeeps ==
  ASSUME LanesInv, NEW l \in Lanes, conn[l] # "free", NEW q \in Loads, Published(l, q),
         UNCHANGED <<lease, conn>>
  PROVE  /\ LanesInv'
         /\ Costs' = [Costs EXCEPT ![l] = Plus(Costs[l], q.cost)]
<1> DEFINE u == queue[l]
           e == q.entries
           w == u \o e
<1>1. u \in Seq(Payloads) /\ e \in Seq(Payloads) /\ q.bytes = Bytes(e) /\ q.cost = Cost(e)
      /\ LinkOK(u, lease[l], conn[l], owed[l])
  BY LoadParts DEF LanesInv, LinkOK
<1>2. w \in Seq(Payloads) /\ Bytes(w) = Bytes(u) + Bytes(e) /\ Cost(w) = Plus(Cost(u), Cost(e))
  BY <1>1, ConcatMeasures
<1>3. queue' = [queue EXCEPT ![l] = w] /\ owed' = [owed EXCEPT ![l] = owed[l] + q.bytes]
      /\ lease' = [lease EXCEPT ![l] = lease[l]] /\ conn' = [conn EXCEPT ![l] = conn[l]]
  BY Itself DEF Published
<1>4. LinkOK(w, lease[l], conn[l], owed[l] + q.bytes)
  <2> DEFINE s == lease[l]
  <2>1. s \in Seq(Payloads) /\ Len(s) <= Len(u) /\ s = SubSeq(u, 1, Len(s)) /\ owed[l] = Bytes(u)
    BY <1>1 DEF LinkOK
  <2>2. Len(s) \in Nat /\ Len(u) \in Nat /\ Len(e) \in Nat /\ Len(w) = Len(u) + Len(e)
    BY <1>1, <2>1, LenProperties, ConcatProperties
  <2> HIDE DEF w, s
  <2>3. Len(s) \in 0 .. Len(u) /\ Len(s) <= Len(w)
    <3> DEFINE i == Len(s)
               j == Len(u)
               k == Len(w)
               m == Len(e)
    <3>1. i \in Nat /\ j \in Nat /\ m \in Nat /\ i <= j /\ k = j + m
      BY <2>1, <2>2
    <3> HIDE DEF i, j, k, m
    <3>2. i \in 0 .. j /\ i <= k
      BY <3>1
    <3> QED BY <3>2 DEF i, j, k
  <2>4. SubSeq(w, 1, Len(s)) = SubSeq(u, 1, Len(s))
    BY <1>1, <2>3, PrefixGrows DEF w
  <2> QED BY <1>1, <1>2, <2>1, <2>3, <2>4 DEF LinkOK, s
<1> HIDE DEF w
<1>5. LanesInv'
  BY <1>3, <1>4, LanesChange
<1>6. Costs' = [Costs EXCEPT ![l] = Cost(w)]
  BY <1>3, CostsChange
<1>7. Costs[l] = Cost(u)
  BY CostsForm
<1> QED BY <1>1, <1>2, <1>5, <1>6, <1>7
-----------------------------------------------------------------------------
(* The actions.                                                            *)

\* The pool after a step at lane l.
PoolStep(l) ==
  /\ Exact(pool', Costs') /\ Restless(pool') /\ Apart(pool, pool', l)
  /\ \A k \in Lanes \ {l} : conn'[k] = conn[k]
  /\ conn'[l] = "free" => pool'.rec[l].kind = "idle"

LEMMA PoolStepKeeps ==
  ASSUME PoolInv, NEW l \in Lanes, PoolStep(l)
  PROVE  PoolInv'
<1>1. ASSUME NEW k \in Lanes, conn'[k] = "free" PROVE pool'.rec[k].kind = "idle"
  <2>1. CASE k = l
    BY <1>1, <2>1 DEF PoolStep
  <2>2. CASE k # l
    <3>1. conn[k] = "free" /\ pool'.rec[k] = pool.rec[k]
      BY <1>1, <2>2 DEF PoolStep, Apart
    <3> QED BY <3>1 DEF PoolInv
  <2> QED BY <2>1, <2>2
<1> QED BY <1>1 DEF PoolInv, PoolStep

LEMMA StandStill ==
  ASSUME IInv, UNCHANGED <<queue, lease, conn, owed>>
  PROVE  LanesInv' /\ Costs' = Costs
<1>1. LanesInv'
  BY DEF IInv, LanesInv
<1>2. Costs' = Costs
  BY DEF Costs
<1> QED BY <1>1, <1>2

LEMMA OpenKeeps ==
  ASSUME IInv, NEW l \in Lanes, Open(l)
  PROVE  IInv'
<1>1. /\ queue' = [queue EXCEPT ![l] = queue[l]] /\ lease' = [lease EXCEPT ![l] = lease[l]]
      /\ conn' = [conn EXCEPT ![l] = "open"] /\ owed' = [owed EXCEPT ![l] = owed[l]]
  BY Itself DEF Open, IInv
<1>2. LinkOK(queue[l], lease[l], "open", owed[l])
  BY DEF IInv, LanesInv, LinkOK
<1>3. LanesInv'
  BY <1>1, <1>2, LanesChange DEF IInv
<1>4. conn'[l] = "open" /\ \A k \in Lanes \ {l} : conn'[k] = conn[k]
  BY <1>1 DEF IInv, LanesInv
<1>5. Costs' = Costs /\ pool' = pool
  BY DEF Open, Costs
<1>6. PoolStep(l)
  BY <1>4, <1>5 DEF PoolStep, IInv, PoolInv, Apart
<1> QED BY <1>3, <1>6, PoolStepKeeps DEF IInv

LEMMA EnqueueKeeps ==
  ASSUME IInv, NEW l \in Lanes, NEW q \in Loads, Enqueue(l, q)
  PROVE  IInv'
<1>1. /\ conn[l] # "free" /\ MayAcquire(pool, l, q.cost) /\ pool' = Charge(pool, l, q.cost)
      /\ Published(l, q) /\ UNCHANGED <<lease, conn>> /\ LanesInv
      /\ Exact(pool, Costs) /\ Restless(pool)
  BY DEF Enqueue, IInv, PoolInv
<1>2. LanesInv' /\ Costs' = [Costs EXCEPT ![l] = Plus(Costs[l], q.cost)]
  BY <1>1, PublishedKeeps
<1>3. q.cost \in Amounts /\ Costs \in [Lanes -> Amounts] /\ PoolForm(pool)
  BY <1>1, LoadParts, CostsForm DEF Exact
<1>4. /\ pool.rec[l].kind = "idle" /\ Covers(pool.shared, Need(pool.held[l], q.cost))
      /\ Restless(pool')
  BY <1>1, <1>3, AcquireGood
<1>5. Exact(pool', Costs')
  BY <1>1, <1>2, <1>3, <1>4, ChargeExact
<1>6. pool'.rec = pool.rec
  BY <1>1, <1>3, ChargeForm
<1>7. PoolStep(l)
  BY <1>1, <1>4, <1>5, <1>6 DEF PoolStep, Apart
<1> QED BY <1>2, <1>7, PoolStepKeeps DEF IInv

\* A charge that is released leaves the costs as they were.
LEMMA BackAgain ==
  ASSUME NEW c \in [Lanes -> Amounts], NEW l \in Lanes, NEW a \in Amounts
  PROVE  LET d == [c EXCEPT ![l] = Plus(c[l], a)]
         IN  /\ d \in [Lanes -> Amounts] /\ Covers(d[l], a)
             /\ [d EXCEPT ![l] = Less(d[l], a)] = c
<1> DEFINE d == [c EXCEPT ![l] = Plus(c[l], a)]
<1>1. c[l] \in Amounts /\ Plus(c[l], a) \in Amounts /\ Less(Plus(c[l], a), a) = c[l]
  BY PlusAmount
<1>2. d \in [Lanes -> Amounts] /\ d[l] = Plus(c[l], a) /\ \A k \in Lanes \ {l} : d[k] = c[k]
  BY <1>1
<1>3. Covers(d[l], a)
  BY <1>1, <1>2 DEF Covers, Plus, Amounts
<1> HIDE DEF d
<1>4. [d EXCEPT ![l] = Less(d[l], a)] = c
  BY <1>1, <1>2
<1>5. d \in [Lanes -> Amounts] /\ Covers(d[l], a) /\ [d EXCEPT ![l] = Less(d[l], a)] = c
  BY <1>2, <1>3, <1>4
<1> QED BY <1>5 DEF d

LEMMA AbandonKeeps ==
  ASSUME IInv, NEW l \in Lanes, NEW q \in Loads, Abandon(l, q)
  PROVE  IInv'
<1> DEFINE a == q.cost
           p == Charge(pool, l, a)
           d == [Costs EXCEPT ![l] = Plus(Costs[l], a)]
<1>1. /\ conn[l] # "free" /\ MayAcquire(pool, l, a) /\ pool' = Release(p, l, a)
      /\ UNCHANGED <<queue, lease, conn, owed>> /\ LanesInv
      /\ Exact(pool, Costs) /\ Restless(pool)
  BY DEF Abandon, IInv, PoolInv
<1>2. a \in Amounts /\ Costs \in [Lanes -> Amounts] /\ PoolForm(pool)
  BY <1>1, LoadParts, CostsForm DEF Exact
<1>3. pool.rec[l].kind = "idle" /\ Covers(pool.shared, Need(pool.held[l], a))
  BY <1>1, <1>2, AcquireGood
<1>4. Exact(p, d) /\ p.rec = pool.rec
  BY <1>1, <1>2, <1>3, ChargeExact, ChargeForm
<1>5. d \in [Lanes -> Amounts] /\ Covers(d[l], a) /\ [d EXCEPT ![l] = Less(d[l], a)] = Costs
  BY <1>2, BackAgain
<1> HIDE DEF a, p, d
<1>6. Exact(pool', Costs) /\ Restless(pool') /\ Apart(p, pool', l)
  BY <1>1, <1>2, <1>4, <1>5, ReleaseExact
<1>7. LanesInv' /\ Costs' = Costs
  BY <1>1, StandStill
<1>8. PoolStep(l)
  BY <1>1, <1>4, <1>6, <1>7 DEF PoolStep, Apart
<1> QED BY <1>7, <1>8, PoolStepKeeps DEF IInv

LEMMA PollReserveKeeps ==
  ASSUME IInv, NEW l \in Lanes, NEW q \in Loads, NEW same \in BOOLEAN, PollReserve(l, q, same)
  PROVE  IInv'
<1> DEFINE a == q.cost
           got == Poll(pool, l, a, same)
           d == [Costs EXCEPT ![l] = Plus(Costs[l], a)]
<1>1. /\ conn[l] # "free" /\ UNCHANGED <<lease, conn>> /\ LanesInv
      /\ Exact(pool, Costs) /\ Restless(pool)
  BY DEF PollReserve, IInv, PoolInv
<1>2. a \in Amounts /\ Costs \in [Lanes -> Amounts]
  BY <1>1, LoadParts, CostsForm
<1>3. PollGood(got, pool, Costs, l, a)
  BY <1>1, <1>2, PollIsGood
<1>4. \/ got.out # "granted" /\ pool' = got.pool /\ UNCHANGED <<queue, owed>>
      \/ got.out = "granted" /\ pool' = got.pool /\ Published(l, q)
      \/ got.out = "granted" /\ pool' = Release(got.pool, l, a) /\ UNCHANGED <<queue, owed>>
  BY DEF PollReserve
<1> HIDE DEF got
<1>5. CASE got.out # "granted" /\ pool' = got.pool /\ UNCHANGED <<queue, owed>>
  <2>1. LanesInv' /\ Costs' = Costs
    BY <1>1, <1>5, StandStill
  <2>2. PoolStep(l)
    BY <1>1, <1>3, <1>5, <2>1 DEF PoolStep, PollGood
  <2> QED BY <2>1, <2>2, PoolStepKeeps DEF IInv
<1>6. CASE got.out = "granted" /\ pool' = got.pool /\ Published(l, q)
  <2>1. LanesInv' /\ Costs' = d
    BY <1>1, <1>6, PublishedKeeps
  <2> HIDE DEF d, a
  <2>2. Exact(got.pool, d) /\ Restless(got.pool) /\ Apart(pool, got.pool, l)
    BY <1>3, <1>6 DEF PollGood, d
  <2>3. PoolStep(l)
    BY <1>1, <1>6, <2>1, <2>2 DEF PoolStep
  <2> QED BY <2>1, <2>3, PoolStepKeeps DEF IInv
<1>7. CASE got.out = "granted" /\ pool' = Release(got.pool, l, a) /\ UNCHANGED <<queue, owed>>
  <2>1. LanesInv' /\ Costs' = Costs
    BY <1>1, <1>7, StandStill
  <2>2. Exact(got.pool, d) /\ Apart(pool, got.pool, l)
    BY <1>3, <1>7 DEF PollGood
  <2>3. d \in [Lanes -> Amounts] /\ Covers(d[l], a) /\ [d EXCEPT ![l] = Less(d[l], a)] = Costs
    BY <1>2, BackAgain
  <2> HIDE DEF a, d
  <2>4. Exact(pool', Costs) /\ Restless(pool') /\ Apart(got.pool, pool', l)
    BY <1>2, <1>7, <2>2, <2>3, ReleaseExact
  <2>5. PoolStep(l)
    BY <1>1, <2>1, <2>2, <2>4 DEF PoolStep, Apart
  <2> QED BY <2>1, <2>5, PoolStepKeeps DEF IInv
<1> QED BY <1>4, <1>5, <1>6, <1>7

LEMMA CancelWaitKeeps ==
  ASSUME IInv, NEW l \in Lanes, CancelWait(l)
  PROVE  IInv'
<1>1. /\ pool' = Cancel(pool, l) /\ UNCHANGED <<queue, lease, conn, owed>>
      /\ Exact(pool, Costs) /\ Restless(pool)
  BY DEF CancelWait, IInv, PoolInv
<1>2. LanesInv' /\ Costs' = Costs
  BY <1>1, StandStill
<1>3. /\ Exact(pool', Costs) /\ Restless(pool') /\ Apart(pool, pool', l)
      /\ pool'.rec[l].kind = "idle"
  BY <1>1, CancelExact
<1>4. PoolStep(l)
  BY <1>1, <1>2, <1>3 DEF PoolStep
<1> QED BY <1>2, <1>4, PoolStepKeeps DEF IInv

LEMMA ForgetKeeps ==
  ASSUME IInv, NEW l \in Lanes, Forget(l)
  PROVE  IInv'
<1>1. /\ pool' = [pool EXCEPT !.rec[l].live = FALSE] /\ UNCHANGED <<queue, lease, conn, owed>>
      /\ Exact(pool, Costs) /\ Restless(pool)
  BY DEF Forget, IInv, PoolInv
<1>2. LanesInv' /\ Costs' = Costs
  BY <1>1, StandStill
<1>3. /\ Exact(pool', Costs) /\ Restless(pool') /\ Apart(pool, pool', l)
      /\ pool'.rec[l].kind = pool.rec[l].kind
  BY <1>1, ForgetGood
<1>4. conn'[l] = "free" => pool'.rec[l].kind = "idle"
  BY <1>1, <1>3 DEF IInv, PoolInv
<1>5. PoolStep(l)
  BY <1>1, <1>2, <1>3, <1>4 DEF PoolStep
<1> QED BY <1>2, <1>5, PoolStepKeeps DEF IInv

LEMMA CreditStepKeeps ==
  ASSUME IInv, CreditStep
  PROVE  IInv'
<1>1. /\ pool' = Maintain(pool) /\ UNCHANGED <<queue, lease, conn, owed>>
      /\ Exact(pool, Costs) /\ Restless(pool)
  BY DEF CreditStep, IInv, PoolInv
<1>2. LanesInv' /\ Costs' = Costs
  BY <1>1, StandStill
<1>3. /\ Exact(pool', Costs) /\ Restless(pool')
      /\ \A k \in Lanes : pool.rec[k].kind = "idle" => pool'.rec[k].kind = "idle"
  BY <1>1, MaintainGood
<1>4. \A l \in Lanes : conn'[l] = "free" => pool'.rec[l].kind = "idle"
  BY <1>1, <1>3 DEF IInv, PoolInv
<1> QED BY <1>2, <1>3, <1>4 DEF IInv, PoolInv

\* A send that is over.
LEMMA LeaseEnds ==
  ASSUME NEW q \in Seq(Payloads), NEW c \in {"free", "open", "closing"}, c = "free" => q = <<>>
  PROVE  LinkOK(q, <<>>, c, Bytes(q))
<1>1. <<>> \in Seq(Payloads) /\ Len(<<>>) = 0 /\ Len(q) \in Nat
  BY LenProperties, EmptyMeasures
<1>2. SubSeq(q, 1, 0) = <<>>
  BY SubSeqEmpty
<1> QED BY <1>1, <1>2 DEF LinkOK

\* The pool and the queues stay, and a connection that is not free changes.
LEMMA PoolStands ==
  ASSUME IInv, NEW l \in Lanes, NEW c \in {"open", "closing"}, conn' = [conn EXCEPT ![l] = c],
         UNCHANGED <<pool, queue>>
  PROVE  PoolInv'
<1>1. conn'[l] = c /\ \A k \in Lanes \ {l} : conn'[k] = conn[k]
  BY DEF IInv, LanesInv
<1>2. Costs' = Costs
  BY DEF Costs
<1>3. PoolStep(l)
  BY <1>1, <1>2 DEF PoolStep, IInv, PoolInv, Apart
<1> QED BY <1>3, PoolStepKeeps DEF IInv

LEMMA SubmitKeeps ==
  ASSUME IInv, NEW l \in Lanes, Submit(l)
  PROVE  IInv'
<1> DEFINE q == queue[l]
           n == IF Len(q) < Iov THEN Len(q) ELSE Iov
           s == SubSeq(q, 1, n)
<1>0. lease' = [lease EXCEPT ![l] = s] /\ LanesInv
  BY DEF Submit, Prefix, IInv
<1>1. conn[l] = "open" /\ UNCHANGED <<pool, queue, conn, owed>>
  BY DEF Submit
<1>2. /\ queue' = [queue EXCEPT ![l] = q] /\ conn' = [conn EXCEPT ![l] = conn[l]]
      /\ owed' = [owed EXCEPT ![l] = owed[l]] /\ LinkOK(q, lease[l], conn[l], owed[l])
  BY <1>0, <1>1, Itself
<1>3. q \in Seq(Payloads) /\ Len(q) \in Nat
  BY <1>2, LenProperties DEF LinkOK
<1>4. n \in 0 .. Len(q)
  BY <1>3, EgressAssumption
<1> HIDE DEF n
<1>5. s \in Seq(Payloads) /\ Len(s) = n /\ n <= Len(q)
  BY <1>3, <1>4, Cut
<1>6. LinkOK(q, s, conn[l], owed[l])
  BY <1>2, <1>5 DEF LinkOK
<1> HIDE DEF s, q
<1>7. LanesInv'
  BY <1>0, <1>2, <1>6, LanesChange
<1>8. PoolInv'
  BY <1>1, <1>2, PoolStands
<1> QED BY <1>7, <1>8 DEF IInv

LEMMA DiscardKeeps ==
  ASSUME IInv, NEW l \in Lanes, Discard(l)
  PROVE  IInv'
<1>1. UNCHANGED <<pool, queue, lease, owed>> /\ LanesInv
  BY DEF Discard, IInv
<1>0. conn' = [conn EXCEPT ![l] = "closing"] /\ LanesInv
  BY DEF Discard, IInv
<1>2. /\ queue' = [queue EXCEPT ![l] = queue[l]] /\ lease' = [lease EXCEPT ![l] = lease[l]]
      /\ owed' = [owed EXCEPT ![l] = owed[l]] /\ LinkOK(queue[l], lease[l], conn[l], owed[l])
  BY <1>1, Itself
<1>3. LinkOK(queue[l], lease[l], "closing", owed[l])
  BY <1>2 DEF LinkOK
<1>4. LanesInv'
  BY <1>0, <1>2, <1>3, LanesChange
<1>5. PoolInv'
  BY <1>0, <1>1, PoolStands
<1> QED BY <1>4, <1>5 DEF IInv

LEMMA FailKeeps ==
  ASSUME IInv, NEW l \in Lanes, Fail(l)
  PROVE  IInv'
<1>1. /\ conn' = [conn EXCEPT ![l] = "closing"] /\ lease' = [lease EXCEPT ![l] = <<>>]
      /\ UNCHANGED <<pool, queue, owed>> /\ LanesInv
  BY DEF Fail, IInv
<1>2. /\ queue' = [queue EXCEPT ![l] = queue[l]] /\ owed' = [owed EXCEPT ![l] = owed[l]]
      /\ LinkOK(queue[l], lease[l], conn[l], owed[l])
  BY <1>1, Itself
<1>3. LinkOK(queue[l], <<>>, "closing", owed[l])
  BY <1>2, LeaseEnds DEF LinkOK
<1>4. LanesInv'
  BY <1>1, <1>2, <1>3, LanesChange
<1>5. PoolInv'
  BY <1>1, PoolStands
<1> QED BY <1>4, <1>5 DEF IInv

\* What leaves a queue costs no more than the queue.
LEMMA LeavesCovered ==
  ASSUME NEW c \in Amounts, NEW a \in Amounts, NEW b \in Amounts, c = Plus(a, b)
  PROVE  Covers(c, a) /\ Less(c, a) = b /\ (a = Zero => c = b)
<1>1. a.e \in Nat /\ a.r \in Nat /\ b.e \in Nat /\ b.r \in Nat /\ b = [e |-> b.e, r |-> b.r]
  BY DEF Amounts
<1>2. c.e = a.e + b.e /\ c.r = a.r + b.r /\ c = [e |-> a.e + b.e, r |-> a.r + b.r]
  BY DEF Plus
<1>3. a.e + b.e - a.e = b.e /\ a.r + b.r - a.r = b.r /\ a.e <= a.e + b.e /\ a.r <= a.r + b.r
  BY <1>1
<1>4. a = Zero => c = b
  BY <1>1, <1>2 DEF Zero
<1> QED BY <1>1, <1>2, <1>3, <1>4 DEF Covers, Less

\* Payloads leave a lane that is not free, and their credit comes back.
LEMMA LeaveKeeps ==
  ASSUME NEW p, NEW c \in [Lanes -> Amounts], Exact(p, c), NEW l \in Lanes,
         NEW a \in Amounts, NEW b \in Amounts, c[l] = Plus(a, b)
  PROVE  /\ Exact(Release(p, l, a), [c EXCEPT ![l] = b])
         /\ Restless(Release(p, l, a)) /\ Apart(p, Release(p, l, a), l)
<1>1. Covers(c[l], a) /\ Less(c[l], a) = b
  BY LeavesCovered
<1> QED BY <1>1, ReleaseExact

LEMMA SettleKeeps ==
  ASSUME IInv, NEW l \in Lanes, NEW n \in 1 .. Bytes(lease[l]), Settle(l, n)
  PROVE  IInv'
<1> DEFINE q == queue[l]
           s == lease[l]
<1>1. /\ lease' = [lease EXCEPT ![l] = <<>>] /\ UNCHANGED conn /\ LanesInv /\ s # <<>>
      /\ Exact(pool, Costs) /\ Restless(pool)
  BY DEF Settle, IInv, PoolInv
<1>2. /\ conn' = [conn EXCEPT ![l] = conn[l]] /\ LinkOK(q, s, conn[l], owed[l])
      /\ queue = [queue EXCEPT ![l] = q] /\ owed = [owed EXCEPT ![l] = owed[l]]
  BY <1>1, Itself
<1>3. /\ q \in Seq(Payloads) /\ s \in Seq(Payloads) /\ Len(q) \in Nat /\ Len(s) \in Nat
      /\ Len(s) <= Len(q) /\ s = SubSeq(q, 1, Len(s)) /\ owed[l] = Bytes(q)
      /\ Bytes(s) \in Nat /\ Bytes(q) \in Nat /\ Cost(q) \in Amounts
  BY <1>2, LenProperties, Measures DEF LinkOK
<1>4. conn[l] \in {"open", "closing"}
  <2>1. q # <<>>
    <3>1. CASE q = <<>>
      <4>1. Len(q) = 0
        BY <3>1
      <4>2. Len(s) = 0
        BY <1>3, <4>1
      <4> QED BY <1>1, <1>3, <4>2, EmptySeq
    <3> QED BY <3>1
  <2> QED BY <1>2, <2>1 DEF LinkOK
<1>5. Bytes(s) <= Bytes(q)
  <2> DEFINE k == Len(s)
  <2>1. k \in 0 .. Len(q)
    BY <1>3
  <2> DEFINE rest == SubSeq(q, k + 1, Len(q))
  <2>2. rest \in Seq(Payloads) /\ Bytes(q) = Bytes(SubSeq(q, 1, k)) + Bytes(rest)
    BY <1>3, <2>1, Cut
  <2>3. Bytes(rest) \in Nat /\ Bytes(q) = Bytes(s) + Bytes(rest)
    BY <1>3, <2>2, Measures
  <2> HIDE DEF rest
  <2> QED BY <1>3, <2>3
<1>6. n \in Nat /\ n <= Bytes(q)
  BY <1>3, <1>5
<1>7. CASE conn[l] = "closing"
  <2>1. UNCHANGED <<pool, queue, owed>>
    BY <1>7 DEF Settle
  <2>2. LinkOK(q, <<>>, conn[l], owed[l])
    BY <1>3, <1>7, LeaseEnds
  <2>3. queue' = [queue EXCEPT ![l] = q] /\ owed' = [owed EXCEPT ![l] = owed[l]]
    BY <1>2, <2>1
  <2>4. conn' = [conn EXCEPT ![l] = conn[l]] /\ lease' = [lease EXCEPT ![l] = <<>>] /\ LanesInv
    BY <1>1, <1>2
  <2>5. LanesInv'
    BY <2>2, <2>3, <2>4, LanesChange
  <2>6. PoolInv'
    BY <1>4, <2>1, <2>4, PoolStands
  <2> QED BY <2>5, <2>6 DEF IInv
<1>8. CASE conn[l] # "closing"
  <2> DEFINE rest == Consume(q, n)
             gone == SubSeq(q, 1, Len(q) - Len(rest))
  <2>1. /\ queue' = [queue EXCEPT ![l] = rest] /\ owed' = [owed EXCEPT ![l] = owed[l] - n]
        /\ pool' = IF gone = <<>> THEN pool ELSE Release(pool, l, Cost(gone))
    BY <1>8 DEF Settle
  <2>2. /\ rest \in Seq(Payloads) /\ gone \in Seq(Payloads)
        /\ Bytes(rest) = Bytes(q) - n /\ Cost(q) = Plus(Cost(gone), Cost(rest))
    BY <1>3, <1>6, ConsumeGood
  <2> HIDE DEF rest, gone
  <2>3. LinkOK(rest, <<>>, conn[l], owed[l] - n)
    BY <1>3, <1>4, <2>2, LeaseEnds
  <2>4. LanesInv'
    BY <1>1, <1>2, <2>1, <2>3, LanesChange
  <2>5. Cost(rest) \in Amounts /\ Cost(gone) \in Amounts
    BY <2>2, Measures
  <2>6. Costs \in [Lanes -> Amounts] /\ Costs[l] = Cost(q) /\ Costs' = [Costs EXCEPT ![l] = Cost(rest)]
    BY <1>1, <2>1, CostsForm, CostsChange
  <2>7. Exact(pool', Costs') /\ Restless(pool') /\ Apart(pool, pool', l)
    <3>1. CASE gone = <<>>
      <4>1. Cost(rest) = Costs[l]
        BY <1>3, <2>2, <2>5, <2>6, <3>1, EmptyMeasures, LeavesCovered
      <4>2. Costs' = Costs /\ pool' = pool
        BY <2>1, <2>6, <3>1, <4>1
      <4> QED BY <1>1, <4>2 DEF Apart
    <3>2. CASE gone # <<>>
      BY <1>1, <2>1, <2>2, <2>5, <2>6, <3>2, LeaveKeeps
    <3> QED BY <3>1, <3>2
  <2>8. conn'[l] # "free" /\ \A k \in Lanes \ {l} : conn'[k] = conn[k]
    BY <1>1, <1>4
  <2>9. PoolStep(l)
    BY <2>7, <2>8 DEF PoolStep
  <2> QED BY <2>4, <2>9, PoolStepKeeps DEF IInv
<1> QED BY <1>7, <1>8

\* The first payload of a queue and the others.
LEMMA HeadAndTail ==
  ASSUME NEW q \in Seq(Payloads), q # <<>>
  PROVE  /\ q[1] \in Payloads /\ Tail(q) \in Seq(Payloads)
         /\ Cost(q) = Plus([e |-> 1, r |-> q[1].size], Cost(Tail(q)))
         /\ Bytes(Tail(q)) = Bytes(q) - q[1].left
<1>1. /\ Head(q) = q[1] /\ Tail(q) \in Seq(Payloads) /\ q = <<q[1]>> \o Tail(q) /\ q[1] \in Payloads
  BY HeadTailProperties, ConcatProperties
<1> DEFINE x == q[1]
           t == Tail(q)
<1>2. <<x>> \in Seq(Payloads) /\ Bytes(<<x>>) = x.left /\ Cost(<<x>>) = [e |-> 1, r |-> x.size]
  BY <1>1, OneMeasures
<1>3. t \in Seq(Payloads) /\ q = <<x>> \o t
  BY <1>1
<1> HIDE DEF x, t
<1>4. Bytes(q) = Bytes(<<x>>) + Bytes(t) /\ Cost(q) = Plus(Cost(<<x>>), Cost(t))
  BY <1>2, <1>3, ConcatMeasures
<1>5. Bytes(t) \in Nat /\ Bytes(<<x>>) \in Nat
  BY <1>2, <1>3, Measures
<1>6. Bytes(t) = Bytes(q) - x.left
  BY <1>2, <1>4, <1>5
<1> QED BY <1>1, <1>2, <1>4, <1>6 DEF x, t

LEMMA ClearKeeps ==
  ASSUME IInv, NEW l \in Lanes, Clear(l)
  PROVE  IInv'
<1> DEFINE q == queue[l]
           p == Cancel(pool, l)
<1>1. LanesInv /\ Exact(pool, Costs) /\ Restless(pool)
  BY DEF IInv, PoolInv
<1>2. conn[l] = "closing" /\ lease[l] = <<>> /\ UNCHANGED lease
  BY DEF Clear, MayClear
<1>3. /\ queue = [queue EXCEPT ![l] = q] /\ lease' = [lease EXCEPT ![l] = <<>>]
      /\ conn = [conn EXCEPT ![l] = "closing"] /\ owed = [owed EXCEPT ![l] = owed[l]]
      /\ LinkOK(q, <<>>, "closing", owed[l])
  BY <1>1, <1>2, Itself
<1>4. q \in Seq(Payloads) /\ owed[l] = Bytes(q)
  BY <1>3 DEF LinkOK
<1>5. /\ Exact(p, Costs) /\ p.rec[l].kind = "idle" /\ Restless(p) /\ Apart(pool, p, l)
  BY <1>1, CancelExact
<1>6. \/ /\ q = <<>> /\ pool' = p /\ conn' = [conn EXCEPT ![l] = "free"]
         /\ owed' = [owed EXCEPT ![l] = 0] /\ UNCHANGED queue
      \/ /\ q # <<>> /\ queue' = [queue EXCEPT ![l] = Tail(q)]
         /\ pool' = Release(p, l, [e |-> 1, r |-> q[1].size])
         /\ owed' = [owed EXCEPT ![l] = owed[l] - q[1].left] /\ UNCHANGED conn
      \/ pool' = p /\ UNCHANGED <<queue, conn, owed>>
  BY DEF Clear
<1> HIDE DEF p
<1>7. CASE /\ q = <<>> /\ pool' = p /\ conn' = [conn EXCEPT ![l] = "free"]
           /\ owed' = [owed EXCEPT ![l] = 0] /\ UNCHANGED queue
  <2>1. LinkOK(q, <<>>, "free", 0)
    BY <1>4, <1>7, EmptyMeasures, LeaseEnds
  <2>2. queue' = [queue EXCEPT ![l] = q]
    BY <1>3, <1>7
  <2>3. LanesInv'
    BY <1>1, <1>3, <1>7, <2>1, <2>2, LanesChange
  <2>4. Costs' = Costs /\ \A k \in Lanes \ {l} : conn'[k] = conn[k]
    BY <1>1, <1>7 DEF Costs, LanesInv
  <2>5. PoolStep(l)
    BY <1>5, <1>7, <2>4 DEF PoolStep
  <2> QED BY <2>3, <2>5, PoolStepKeeps DEF IInv
<1>8. CASE /\ q # <<>> /\ queue' = [queue EXCEPT ![l] = Tail(q)]
           /\ pool' = Release(p, l, [e |-> 1, r |-> q[1].size])
           /\ owed' = [owed EXCEPT ![l] = owed[l] - q[1].left] /\ UNCHANGED conn
  <2> DEFINE t == Tail(q)
             a == [e |-> 1, r |-> q[1].size]
  <2>1. /\ q[1] \in Payloads /\ t \in Seq(Payloads) /\ Cost(q) = Plus(a, Cost(t))
        /\ Bytes(t) = Bytes(q) - q[1].left
    BY <1>4, <1>8, HeadAndTail
  <2>2. a \in Amounts /\ Cost(t) \in Amounts
    BY <2>1, Measures DEF Payloads, Amounts
  <2> HIDE DEF t, a
  <2>3. LinkOK(t, <<>>, "closing", owed[l] - q[1].left)
    BY <1>4, <2>1, LeaseEnds
  <2>4. /\ queue' = [queue EXCEPT ![l] = t] /\ conn' = [conn EXCEPT ![l] = "closing"]
        /\ owed' = [owed EXCEPT ![l] = owed[l] - q[1].left]
    BY <1>3, <1>8 DEF t
  <2>5. LanesInv'
    BY <1>1, <1>3, <2>3, <2>4, LanesChange
  <2>6. Costs \in [Lanes -> Amounts] /\ Costs[l] = Cost(q) /\ Costs' = [Costs EXCEPT ![l] = Cost(t)]
    BY <1>1, <2>4, CostsForm, CostsChange
  <2>7. pool' = Release(p, l, a)
    BY <1>8 DEF a
  <2>8. Exact(pool', Costs') /\ Restless(pool') /\ Apart(p, pool', l)
    BY <1>5, <2>1, <2>2, <2>6, <2>7, LeaveKeeps
  <2>9. conn' = conn /\ conn[l] # "free"
    BY <1>2, <1>8
  <2>10. PoolStep(l)
    BY <1>5, <2>8, <2>9 DEF PoolStep, Apart
  <2> QED BY <2>5, <2>10, PoolStepKeeps DEF IInv
<1>9. CASE pool' = p /\ UNCHANGED <<queue, conn, owed>>
  <2>1. LanesInv' /\ Costs' = Costs
    BY <1>2, <1>9, StandStill
  <2>2. PoolStep(l)
    BY <1>2, <1>5, <1>9, <2>1 DEF PoolStep
  <2> QED BY <2>1, <2>2, PoolStepKeeps DEF IInv
<1> QED BY <1>6, <1>7, <1>8, <1>9
-----------------------------------------------------------------------------
(* The theorems.                                                           *)

LEMMA NewPoolIsExact ==
  ASSUME NEW c, \A l \in Lanes : c[l] = Zero
  PROVE  /\ Exact(NewPool, c) /\ Restless(NewPool)
         /\ \A l \in Lanes : NewPool.rec[l].kind = "idle"
<1> DEFINE p == NewPool
           h == [l \in Lanes |-> Zero]
           r == [l \in Lanes |-> Idle]
<1>1. /\ p.shared = Shared /\ p.held = h /\ p.rec = r /\ p.ticket = 0 /\ PoolForm(p)
      /\ \A l \in Lanes : p.held[l] = Zero /\ p.rec[l] = Idle
  BY DEF NewPool, PoolForm
<1>2. Zero \in Amounts /\ Shared \in Amounts /\ Idle.kind = "idle"
  BY CreditAssumption DEF Zero, Amounts, Idle
<1>3. Above(Zero).e = 0 /\ Above(Zero).r = 0
  BY CreditAssumption DEF Above, Zero, Amounts
<1> HIDE DEF p, h, r
<1>4. \A l \in Lanes : LaneOK(p.held[l], p.rec[l], c[l])
  BY <1>1, <1>2, IdleOK
<1>5. Total(AboveE(p.held)) = 0 /\ Total(AboveR(p.held)) = 0
  <2> DEFINE u == AboveE(p.held)
             v == AboveR(p.held)
  <2>1. DOMAIN u = Lanes /\ DOMAIN v = Lanes /\ \A l \in Lanes : u[l] = 0 /\ v[l] = 0
    BY <1>1, <1>3 DEF AboveE, AboveR
  <2>2. IsFiniteSet(Lanes) /\ Cardinality(Lanes) \in Nat
    BY CreditAssumption, FS_CardinalityType
  <2> HIDE DEF u, v
  <2>3. Over(u, Lanes) = Cardinality(Lanes) * 0 /\ Over(v, Lanes) = Cardinality(Lanes) * 0
    BY <2>1, <2>2, OverConst
  <2>4. Over(u, Lanes) = 0 /\ Over(v, Lanes) = 0
    BY <2>2, <2>3
  <2>5. Total(u) = 0 /\ Total(v) = 0
    BY <2>1, <2>4, TotalOver
  <2> QED BY <2>5 DEF u, v
<1>6. Shared.e = p.shared.e + Total(AboveE(p.held)) /\ Shared.r = p.shared.r + Total(AboveR(p.held))
  BY <1>1, <1>2, <1>5 DEF Amounts
<1>7. Exact(p, c)
  BY <1>1, <1>2, <1>4, <1>6 DEF Exact
<1>8. Waiting(p) = {} /\ \A l \in Lanes : p.rec[l].kind = "idle"
  BY <1>1, <1>2 DEF Waiting
<1> QED BY <1>7, <1>8 DEF Restless, p

LEMMA InitHolds ==
  ASSUME Init
  PROVE  IInv
<1>1. \A l \in Lanes : /\ queue[l] = <<>> /\ lease[l] = <<>> /\ conn[l] = "free" /\ owed[l] = 0
                       /\ Cost(queue[l]) = Zero
  BY EmptyMeasures DEF Init
<1>2. LinkOK(<<>>, <<>>, "free", 0)
  BY EmptyMeasures, LeaseEnds
<1>3. /\ queue = [l \in Lanes |-> queue[l]] /\ lease = [l \in Lanes |-> lease[l]]
      /\ conn = [l \in Lanes |-> conn[l]] /\ owed = [l \in Lanes |-> owed[l]]
  BY DEF Init
<1>4. LanesInv
  BY <1>1, <1>2, <1>3 DEF LanesInv
<1>5. \A l \in Lanes : Costs[l] = Zero
  BY <1>1 DEF Costs
<1>6. pool = NewPool
  BY DEF Init
<1>7. PoolInv
  BY <1>5, <1>6, NewPoolIsExact DEF PoolInv
<1> QED BY <1>4, <1>7 DEF IInv

LEMMA NextKeeps ==
  ASSUME IInv, [Next]_vars
  PROVE  IInv'
<1>1. CASE CreditStep
  BY <1>1, CreditStepKeeps
<1>2. CASE \E l \in Lanes : \/ Open(l) \/ CancelWait(l) \/ Forget(l) \/ Submit(l) \/ Discard(l)
                            \/ Fail(l) \/ Clear(l)
  BY <1>2, OpenKeeps, CancelWaitKeeps, ForgetKeeps, SubmitKeeps, DiscardKeeps, FailKeeps, ClearKeeps
<1>3. CASE \E l \in Lanes : \E q \in Loads : Enqueue(l, q) \/ Abandon(l, q)
  BY <1>3, EnqueueKeeps, AbandonKeeps
<1>4. CASE \E l \in Lanes : \E q \in Loads, same \in BOOLEAN : PollReserve(l, q, same)
  BY <1>4, PollReserveKeeps
<1>5. CASE \E l \in Lanes : \E n \in 1 .. Bytes(lease[l]) : Settle(l, n)
  BY <1>5, SettleKeeps
<1>6. CASE UNCHANGED vars
  <2>1. pool' = pool /\ UNCHANGED <<queue, lease, conn, owed>>
    BY <1>6 DEF vars
  <2>2. LanesInv' /\ Costs' = Costs
    BY <2>1, StandStill
  <2> QED BY <2>1, <2>2 DEF IInv, PoolInv
<1> QED BY <1>1, <1>2, <1>3, <1>4, <1>5, <1>6 DEF Next

LEMMA Invariance == Spec => []IInv
<1>1. Init => IInv
  BY InitHolds
<1>2. IInv /\ [Next]_vars => IInv'
  BY NextKeeps
<1> QED BY <1>1, <1>2, PTL DEF Spec

\* What the invariant says of one lane.
LEMMA LaneParts ==
  ASSUME IInv, NEW l \in Lanes
  PROVE  /\ queue[l] \in Seq(Payloads) /\ Len(queue[l]) \in Nat
         /\ Cost(queue[l]) \in Amounts /\ Cost(queue[l]).e = Len(queue[l])
         /\ pool.held[l] \in Amounts /\ RecOK(pool.rec[l])
         /\ Granted(l) = GrantOf(pool.rec[l]) /\ Granted(l) \in Amounts
         /\ pool.held[l] = Plus(Cost(queue[l]), Granted(l))
         /\ pool.held[l].e = Len(queue[l]) + Granted(l).e
<1>1. queue[l] \in Seq(Payloads)
  BY DEF IInv, LanesInv, LinkOK
<1>2. Len(queue[l]) \in Nat /\ Cost(queue[l]) \in Amounts /\ Cost(queue[l]).e = Len(queue[l])
  BY <1>1, LenProperties, Measures
<1>3. LaneOK(pool.held[l], pool.rec[l], Cost(queue[l]))
  BY DEF IInv, PoolInv, Exact, Costs
<1>4. Granted(l) = GrantOf(pool.rec[l])
  BY DEF Granted, GrantOf
<1>5. Granted(l) \in Amounts
  BY <1>3, <1>4 DEF LaneOK, RecOK, GrantOf, Zero, Amounts
<1>6. pool.held[l] = Plus(Cost(queue[l]), Granted(l)) /\ pool.held[l] \in Amounts /\ RecOK(pool.rec[l])
  BY <1>3, <1>4 DEF LaneOK
<1>7. pool.held[l].e = Cost(queue[l]).e + Granted(l).e
  BY <1>6 DEF Plus
<1> QED BY <1>1, <1>2, <1>4, <1>5, <1>6, <1>7

(* Send credit is neither lost nor minted: whatever try_acquire, poll,     *)
(* release, cancel and maintain do, a lane holds what its queue and its    *)
(* untaken grant cost, the pool has the rest, and the demand in the search *)
(* tree is the lane's present one.                                         *)
THEOREM CreditIsKept == Spec => []CreditIsExact
<1>1. ASSUME IInv PROVE CreditIsExact
  <2>1. /\ pool.shared \in Amounts
        /\ Shared.e = pool.shared.e + Total(AboveE(pool.held))
        /\ Shared.r = pool.shared.r + Total(AboveR(pool.held))
    BY <1>1 DEF IInv, PoolInv, Exact
  <2>2. Shared = Plus(pool.shared, [e |-> Total([l \in Lanes |-> Above(pool.held[l]).e]),
                                    r |-> Total([l \in Lanes |-> Above(pool.held[l]).r])])
    <3> DEFINE te == Total(AboveE(pool.held))
               tr == Total(AboveR(pool.held))
               sh == pool.shared
    <3>1. Shared = [e |-> Shared.e, r |-> Shared.r]
      BY CreditAssumption DEF Amounts
    <3>2. Shared.e = sh.e + te /\ Shared.r = sh.r + tr
      BY <2>1
    <3> HIDE DEF te, tr, sh
    <3>3. Shared = Plus(sh, [e |-> te, r |-> tr])
      BY <3>1, <3>2 DEF Plus
    <3> QED BY <3>3 DEF te, tr, sh, AboveE, AboveR
  <2>3. ASSUME NEW l \in Lanes, l \in Waiting(pool)
        PROVE  pool.rec[l].demand = Demand(pool, l, pool.rec[l].amount)
    <3>1. LaneOK(pool.held[l], pool.rec[l], Costs[l]) /\ pool.rec[l].kind = "waiting"
      BY <1>1, <2>3 DEF IInv, PoolInv, Exact, Waiting
    <3> QED BY <3>1 DEF LaneOK, Need, Demand
  <2>4. \A l \in Lanes : pool.held[l] = Plus(Cost(queue[l]), Granted(l))
    BY <1>1, LaneParts
  <2> QED BY <2>1, <2>2, <2>3, <2>4 DEF CreditIsExact
<1> QED BY <1>1, Invariance, PTL

(* Pool::maintain puts the pending flag down only when select would choose *)
(* nobody, and every operation that could change this raises the flag: the *)
(* owner of the pool never parks on credit that a waiting lane could have. *)
THEOREM CreditIsNeverIdle == Spec => []NoIdleCredit
<1>1. ASSUME IInv PROVE NoIdleCredit
  BY <1>1 DEF IInv, PoolInv, Restless, NoIdleCredit
<1> QED BY <1>1, Invariance, PTL

(* The payloads that Sender::run lends to the kernel stay the first ones   *)
(* of the lane until Settlement::run, no accepted byte is lost or sent     *)
(* twice by Released::consume, and Storage::clear leaves a lane without    *)
(* payloads, credit or a wait to its next connection.                      *)
THEOREM SendsAreOwned == Spec => []SendIsOwned
<1>1. ASSUME IInv, NEW l \in Lanes
      PROVE  /\ IsPrefix(lease[l], queue[l]) /\ owed[l] = Bytes(queue[l])
             /\ conn[l] = "free" => queue[l] = <<>> /\ pool.held[l] = Zero /\ ~Busy(pool, l)
  <2> DEFINE s == lease[l]
             q == queue[l]
  <2>1. /\ s \in Seq(Payloads) /\ Len(s) <= Len(q) /\ s = SubSeq(q, 1, Len(s))
        /\ owed[l] = Bytes(q) /\ (conn[l] = "free" => q = <<>>)
    BY <1>1 DEF IInv, LanesInv, LinkOK
  <2>2. SubSeq(s, 1, Len(s)) = s
    BY <2>1, SubSeqFull
  <2>3. IsPrefix(s, q)
    BY <2>1, <2>2 DEF IsPrefix
  <2>4. ASSUME conn[l] = "free" PROVE pool.held[l] = Zero /\ ~Busy(pool, l)
    <3>1. pool.rec[l].kind = "idle" /\ Cost(q) = Zero
      BY <1>1, <2>1, <2>4, EmptyMeasures DEF IInv, PoolInv
    <3>2. Granted(l) = Zero /\ pool.held[l] = Plus(Cost(q), Granted(l))
      BY <1>1, <3>1, LaneParts DEF Granted
    <3>3. Plus(Zero, Zero) = Zero
      BY DEF Plus, Zero
    <3> QED BY <3>1, <3>2, <3>3 DEF Busy
  <2> QED BY <2>1, <2>3, <2>4
<1>2. ASSUME IInv PROVE SendIsOwned
  BY <1>1, <1>2 DEF SendIsOwned
<1> QED BY <1>2, Invariance, PTL

\* The entries that are stored, granted and left fit the store.
LEMMA EntriesFit ==
  ASSUME IInv
  PROVE  /\ Stored + Total([l \in Lanes |-> Granted(l).e]) + pool.shared.e <= Storage
         /\ Stored <= Storage
<1> DEFINE f == [l \in Lanes |-> Len(queue[l])]
           g == [l \in Lanes |-> Granted(l).e]
           h == [l \in Lanes |-> pool.held[l].e]
           u == AboveE(pool.held)
           v == [l \in Lanes |-> Protected.e]
           w == [l \in Lanes |-> u[l] + v[l]]
           n == Cardinality(Lanes) * Protected.e
<1>1. IsFiniteSet(Lanes) /\ Protected.e \in Nat /\ Shared.e \in Nat /\ Cardinality(Lanes) \in Nat
  BY CreditAssumption, FS_CardinalityType DEF Amounts
<1>2. \A l \in Lanes : /\ f[l] \in Nat /\ g[l] \in Nat /\ h[l] \in Nat
                       /\ h[l] = f[l] + g[l]
  BY LaneParts DEF Amounts
<1>3. \A l \in Lanes : u[l] \in Nat /\ v[l] \in Nat /\ v[l] = Protected.e /\ w[l] = u[l] + v[l]
                       /\ u[l] = Above(pool.held[l]).e
  BY <1>1, LaneParts, AboveNat DEF AboveE
<1>4. \A l \in Lanes : h[l] <= w[l] /\ w[l] \in Nat
  <2>1. ASSUME NEW l \in Lanes PROVE h[l] <= Above(pool.held[l]).e + Protected.e
    BY <1>1, <1>2 DEF Above
  <2> QED BY <1>3, <2>1
<1>5. /\ Total(f) = Over(f, Lanes) /\ Total(g) = Over(g, Lanes) /\ Total(u) = Over(u, Lanes)
  <2>1. DOMAIN f = Lanes /\ DOMAIN g = Lanes /\ DOMAIN u = Lanes
    BY DEF AboveE
  <2> QED BY <2>1, TotalOver
<1>6. pool.shared.e \in Nat /\ Shared.e = pool.shared.e + Total(u)
  BY DEF IInv, PoolInv, Exact, Amounts
<1>7. Storage \in Nat /\ Shared.e + n <= Storage
  BY EgressAssumption
<1> HIDE DEF f, g, h, u, v, w
<1>8. Over(h, Lanes) = Over(f, Lanes) + Over(g, Lanes)
  BY <1>1, <1>2, OverPlus
<1>9. Over(w, Lanes) = Over(u, Lanes) + Over(v, Lanes)
  BY <1>1, <1>3, OverPlus
<1>10. Over(h, Lanes) <= Over(w, Lanes)
  BY <1>1, <1>2, <1>4, OverLeq
<1>11. Over(v, Lanes) = n
  BY <1>1, <1>3, OverConst
<1>12. /\ Over(f, Lanes) \in Nat /\ Over(g, Lanes) \in Nat /\ Over(u, Lanes) \in Nat
       /\ Over(v, Lanes) \in Nat
  BY <1>1, <1>2, <1>3, OverSplit
<1>13. Total(f) + Total(g) + pool.shared.e <= Storage /\ Total(f) <= Storage
  <2> DEFINE of == Over(f, Lanes)
             og == Over(g, Lanes)
             ou == Over(u, Lanes)
             oh == Over(h, Lanes)
             ow == Over(w, Lanes)
             sh == pool.shared.e
             all == Shared.e
  <2>1. /\ of \in Nat /\ og \in Nat /\ ou \in Nat /\ n \in Nat /\ sh \in Nat /\ all = sh + ou
        /\ oh = of + og /\ ow = ou + n /\ oh <= ow /\ all + n <= Storage /\ Storage \in Nat
    BY <1>5, <1>6, <1>7, <1>8, <1>9, <1>10, <1>11, <1>12
  <2> HIDE DEF of, og, ou, oh, ow, sh, all, n
  <2>2. of + og + sh <= Storage /\ of <= Storage
    BY <2>1
  <2> QED BY <1>5, <2>2 DEF of, og, sh
<1> QED BY <1>13 DEF f, g, Stored

(* Credit is all that a producer waits for: the entries that the lanes     *)
(* store, have been granted and may still take never exceed the metadata   *)
(* store, and Config::flights leaves a send buffer to every lane that has  *)
(* something to send, so neither refusal happens, for any number of lanes  *)
(* and any split of the credit into shared and protected.                  *)
THEOREM CreditIsEnough == Spec => []CreditSuffices
<1>1. ASSUME IInv, NEW l \in Lanes \ Sending, queue[l] # <<>>
      PROVE  Cardinality(Sending) < Flights
  <2> DEFINE T == Sending \cup {l}
             f == [k \in Lanes |-> Len(queue[k])]
  <2>1. IsFiniteSet(Lanes) /\ T \in SUBSET Lanes /\ Sending \in SUBSET Lanes
    BY CreditAssumption DEF Sending
  <2>2. IsFiniteSet(Sending) /\ IsFiniteSet(T)
    BY <2>1, FS_Subset
  <2>3. Cardinality(T) = Cardinality(Sending) + 1 /\ Cardinality(Sending) \in Nat
    BY <2>2, FS_AddElement, FS_CardinalityType
  <2>4. Cardinality(T) <= Cardinality(Lanes) /\ Cardinality(Lanes) \in Nat
    BY <2>1, FS_Subset, FS_CardinalityType
  <2>5. ASSUME NEW k \in T PROVE f[k] >= 1
    <3>1. queue[k] \in Seq(Payloads) /\ Len(queue[k]) \in Nat /\ f[k] = Len(queue[k])
      BY <1>1, <2>1, LaneParts
    <3>2. queue[k] # <<>>
      <4>1. CASE k = l
        BY <1>1, <4>1
      <4>2. CASE k \in Sending
        <5>1. lease[k] # <<>> /\ lease[k] \in Seq(Payloads) /\ Len(lease[k]) <= Len(queue[k])
          BY <1>1, <4>2 DEF Sending, IInv, LanesInv, LinkOK
        <5>2. Len(lease[k]) \in Nat /\ Len(lease[k]) # 0
          BY <5>1, EmptySeq, LenProperties
        <5>3. Len(queue[k]) # 0
          BY <3>1, <5>1, <5>2
        <5> QED BY <5>3
      <4> QED BY <4>1, <4>2
    <3>3. Len(queue[k]) # 0
      BY <3>1, <3>2, EmptySeq
    <3> QED BY <3>1, <3>3
  <2>6. \A k \in Lanes : f[k] \in Nat
    BY <1>1, LaneParts
  <2>7. Stored = Over(f, Lanes)
    <3>1. DOMAIN f = Lanes
      OBVIOUS
    <3>2. Stored = Total(f)
      BY DEF Stored
    <3> QED BY <3>1, <3>2, TotalOver
  <2> HIDE DEF f, T
  <2>8. Cardinality(T) <= Stored /\ Stored <= Storage /\ Stored \in Nat /\ Storage \in Nat
    BY <1>1, <2>1, <2>5, <2>6, <2>7, OverCovers, OverSplit, EntriesFit, EgressAssumption
  <2> QED BY <2>3, <2>4, <2>8 DEF Flights
<1>2. ASSUME IInv PROVE CreditSuffices
  BY <1>1, <1>2, EntriesFit DEF CreditSuffices
<1> QED BY <1>2, Invariance, PTL
=============================================================================
