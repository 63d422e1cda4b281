------------------------------ MODULE SumFacts ------------------------------
(***************************************************************************)
(* What a proof needs to know of SumOver: it adds up in any order, so      *)
(* taking one element out takes its value out.                             *)
(* The induction over finite sets is by smallest counterexample: among the *)
(* sets where a fact fails, one of least cardinality (theorem WFMin on the *)
(* natural numbers) has a smaller part where the fact holds.               *)
(***************************************************************************)
EXTENDS Sums, Integers, FiniteSets, FiniteSetTheorems, WellFoundedInduction, TLAPS

-----------------------------------------------------------------------------
(* Smallest counterexamples.                                               *)

\* A nonempty collection of finite sets has a member of least size.
LEMMA SmallestMember ==
  ASSUME NEW C, C # {}, \A T \in C : IsFiniteSet(T)
  PROVE  \E T \in C : \A U \in C : ~(Cardinality(U) < Cardinality(T))
<1> DEFINE N == {Cardinality(T) : T \in C}
<1>1. N \subseteq Nat /\ N # {}
  BY FS_CardinalityType
<1>2. \E n \in N : \A m \in N : ~(<<m, n>> \in OpToRel(<, Nat))
  <2> HIDE DEF N
  <2> QED
    BY <1>1, NatLessThanWellFounded, WFMin
<1>3. PICK n \in N : \A m \in N : ~(m < n)
  BY <1>1, <1>2 DEF OpToRel
<1> QED
  BY <1>3

\* Without one of its elements a finite set is smaller.
LEMMA SmallerWithout ==
  ASSUME NEW S, IsFiniteSet(S), NEW x \in S
  PROVE  IsFiniteSet(S \ {x}) /\ Cardinality(S \ {x}) < Cardinality(S)
<1>1. IsFiniteSet(S \ {x}) /\ Cardinality(S \ {x}) = Cardinality(S) - 1
  BY FS_RemoveElement
<1>2. Cardinality(S) \in Nat
  BY FS_CardinalityType
<1> QED
  BY <1>1, <1>2

\* A finite set of numbers has a greatest element.
LEMMA GreatestNumber ==
  ASSUME NEW N, IsFiniteSet(N), N \subseteq Nat, N # {}
  PROVE  \E n \in N : \A m \in N : m <= n
<1> DEFINE C == {T \in SUBSET N : T # {} /\ ~\E n \in T : \A m \in T : m <= n}
<1>1. SUFFICES ASSUME C # {} PROVE FALSE
  OBVIOUS
<1>2. \A T \in C : IsFiniteSet(T)
  BY FS_Subset
<1>3. PICK T \in C : \A U \in C : ~(Cardinality(U) < Cardinality(T))
  <2> HIDE DEF C
  <2> QED
    BY <1>1, <1>2, SmallestMember
<1>4. PICK x \in T : TRUE
  OBVIOUS
<1> DEFINE P == T \ {x}
<1>5. P \in SUBSET N /\ P \notin C
  BY <1>2, <1>3, <1>4, SmallerWithout
<1>6. CASE P = {}
  <2>1. \A m \in T : m = x
    BY <1>6
  <2> QED
    BY <1>3, <1>4, <2>1
<1>7. CASE P # {}
  <2>1. PICK n \in P : \A m \in P : m <= n
    BY <1>5, <1>7
  <2>2. n \in T /\ n \in Nat /\ x \in Nat
    BY <1>3, <1>4, <2>1
  <2>3. CASE x <= n
    BY <1>3, <2>1, <2>2, <2>3
  <2>4. CASE n <= x
    <3>1. \A m \in T : m \in Nat
      BY <1>3
    <3>2. \A m \in T : m <= x
      BY <2>1, <2>2, <2>4, <3>1
    <3> QED
      BY <1>3, <1>4, <3>2
  <2> QED
    BY <2>2, <2>3, <2>4
<1> QED
  BY <1>6, <1>7

-----------------------------------------------------------------------------
(* The fold that SumOver is.                                                 *)

Pick(s) == CHOOSE x \in s : TRUE

\* g holds, for every part of S, the sum of f over it.
Adds(g, f, S) ==
  g = [s \in SUBSET S |-> IF s = {} THEN 0 ELSE f[Pick(s)] + g[s \ {Pick(s)}]]

\* What is picked from a set is in it.
LEMMA PickIn == ASSUME NEW s, s # {} PROVE Pick(s) \in s
BY DEF Pick

\* The fold's equation has one solution.
LEMMA AddsUnique ==
  ASSUME NEW S, IsFiniteSet(S), NEW f, NEW g, NEW h, Adds(g, f, S), Adds(h, f, S)
  PROVE  g = h
<1> DEFINE C == {s \in SUBSET S : g[s] # h[s]}
<1>1. SUFFICES ASSUME C # {} PROVE FALSE
  BY DEF Adds
<1>2. \A T \in C : IsFiniteSet(T)
  BY FS_Subset
<1>3. PICK s \in C : \A U \in C : ~(Cardinality(U) < Cardinality(s))
  <2> HIDE DEF C
  <2> QED
    BY <1>1, <1>2, SmallestMember
<1>4. s # {}
  BY <1>3 DEF Adds
<1>5. Pick(s) \in s /\ Cardinality(s \ {Pick(s)}) < Cardinality(s)
  BY <1>2, <1>4, PickIn, SmallerWithout
<1>6. g[s \ {Pick(s)}] = h[s \ {Pick(s)}]
  BY <1>3, <1>5
<1> QED
  BY <1>4, <1>6 DEF Adds

\* A solution over S gives one over each part of S.
LEMMA AddsPart ==
  ASSUME NEW S, NEW T \in SUBSET S, NEW f, NEW g, Adds(g, f, S),
         NEW h, h = [s \in SUBSET T |-> g[s]]
  PROVE  Adds(h, f, T)
<1>1. ASSUME NEW s \in SUBSET T
      PROVE  g[s] = IF s = {} THEN 0 ELSE f[Pick(s)] + h[s \ {Pick(s)}]
  <2>1. s \in SUBSET S /\ s \ {Pick(s)} \in SUBSET T
    OBVIOUS
  <2>2. g[s] = IF s = {} THEN 0 ELSE f[Pick(s)] + g[s \ {Pick(s)}]
    BY <2>1 DEF Adds
  <2> QED
    BY <2>1, <2>2
<1> QED
  BY <1>1 DEF Adds

\* The fold's equation has a solution over every finite set.
LEMMA AddsExists ==
  ASSUME NEW S, IsFiniteSet(S), NEW f
  PROVE  \E g : Adds(g, f, S)
<1> DEFINE C == {T \in SUBSET S : ~\E g : Adds(g, f, T)}
<1>1. SUFFICES ASSUME C # {} PROVE FALSE
  OBVIOUS
<1>2. \A T \in C : IsFiniteSet(T)
  BY FS_Subset
<1>3. PICK T \in C : \A U \in C : ~(Cardinality(U) < Cardinality(T))
  <2> HIDE DEF C
  <2> QED
    BY <1>1, <1>2, SmallestMember
<1> DEFINE G(x) == CHOOSE g : Adds(g, f, T \ {x})
           h == [s \in SUBSET T |->
                   IF s = {} THEN 0 ELSE f[Pick(s)] + G(Pick(s))[s \ {Pick(s)}]]
<1>4. ASSUME NEW x \in T PROVE Adds(G(x), f, T \ {x}) /\ IsFiniteSet(T \ {x})
  <2>1. IsFiniteSet(T \ {x}) /\ Cardinality(T \ {x}) < Cardinality(T)
    BY <1>2, SmallerWithout
  <2>2. \E g : Adds(g, f, T \ {x})
    BY <1>3, <2>1
  <2> QED
    BY <2>1, <2>2
<1>5. ASSUME NEW x \in T, NEW y \in T, NEW s \in SUBSET (T \ {x, y})
      PROVE  G(x)[s] = G(y)[s]
  <2> DEFINE P == T \ {x, y}
             gx == [u \in SUBSET P |-> G(x)[u]]
             gy == [u \in SUBSET P |-> G(y)[u]]
  <2>1. P \in SUBSET (T \ {x}) /\ P \in SUBSET (T \ {y}) /\ IsFiniteSet(P)
    BY <1>2, FS_Subset
  <2>2. Adds(G(x), f, T \ {x}) /\ Adds(G(y), f, T \ {y})
    BY <1>4
  <2> HIDE DEF G, P
  <2>3. gx = [u \in SUBSET P |-> G(x)[u]] /\ gy = [u \in SUBSET P |-> G(y)[u]]
    OBVIOUS
  <2> HIDE DEF gx, gy
  <2>4. Adds(gx, f, P) /\ Adds(gy, f, P)
    <3>1. Adds(gx, f, P)
      <4> DEFINE A == T \ {x}
                 ga == G(x)
      <4>1. P \in SUBSET A /\ Adds(ga, f, A) /\ gx = [u \in SUBSET P |-> ga[u]]
        BY <2>1, <2>2, <2>3
      <4> HIDE DEF A, ga
      <4> QED BY <4>1, AddsPart
    <3>2. Adds(gy, f, P)
      <4> DEFINE B == T \ {y}
                 gb == G(y)
      <4>1. P \in SUBSET B /\ Adds(gb, f, B) /\ gy = [u \in SUBSET P |-> gb[u]]
        BY <2>1, <2>2, <2>3
      <4> HIDE DEF B, gb
      <4> QED BY <4>1, AddsPart
    <3> QED BY <3>1, <3>2
  <2>5. gx = gy
    BY <2>1, <2>4, AddsUnique
  <2> QED
    BY <2>5 DEF gx, gy, P
<1>6. ASSUME NEW x \in T, NEW s \in SUBSET (T \ {x}) PROVE h[s] = G(x)[s]
  <2>1. Adds(G(x), f, T \ {x})
    BY <1>4
  <2> HIDE DEF G
  <2>2. G(x)[s] = IF s = {} THEN 0 ELSE f[Pick(s)] + G(x)[s \ {Pick(s)}]
    BY <2>1 DEF Adds
  <2>3. CASE s # {}
    <3>1. Pick(s) \in s /\ Pick(s) \in T /\ s \ {Pick(s)} \in SUBSET (T \ {x, Pick(s)})
      BY <2>3, PickIn
    <3>2. G(x)[s \ {Pick(s)}] = G(Pick(s))[s \ {Pick(s)}]
      BY <1>5, <3>1
    <3> QED
      BY <2>2, <2>3, <3>2
  <2> QED
    BY <2>2, <2>3
<1>7. ASSUME NEW s \in SUBSET T
      PROVE  h[s] = IF s = {} THEN 0 ELSE f[Pick(s)] + h[s \ {Pick(s)}]
  <2>1. CASE s # {}
    <3>1. Pick(s) \in T /\ s \ {Pick(s)} \in SUBSET (T \ {Pick(s)})
      BY <2>1, PickIn
    <3>2. h[s \ {Pick(s)}] = G(Pick(s))[s \ {Pick(s)}]
      BY <1>6, <3>1
    <3> HIDE DEF G
    <3> QED
      BY <2>1, <3>2
  <2> QED
    BY <2>1
<1>8. Adds(h, f, T)
  <2>1. h = [s \in SUBSET T |-> h[s]]
    OBVIOUS
  <2> HIDE DEF h
  <2> QED
    BY <1>7, <2>1 DEF Adds
<1> QED
  BY <1>3, <1>8

\* SumOver is the value of that solution.
LEMMA SumOverIs ==
  ASSUME NEW S, IsFiniteSet(S), NEW f, NEW g, Adds(g, f, S)
  PROVE  SumOver(f, S) = g[S]
<1> DEFINE it == CHOOSE i : Adds(i, f, S)
<1>1. Adds(it, f, S)
  OBVIOUS
<1>2. it = g
  BY <1>1, AddsUnique
<1>3. SumOver(f, S) = it[S]
  BY DEF SumOver, MapThenSumSet, MapThenFoldSet, Adds, Pick
<1> QED
  BY <1>2, <1>3

-----------------------------------------------------------------------------
(* Facts about SumOver.                                                      *)

\* The sum over nothing is 0.
LEMMA SumOverEmpty == \A f : SumOver(f, {}) = 0
<1> SUFFICES ASSUME NEW f PROVE SumOver(f, {}) = 0
  OBVIOUS
<1>1. IsFiniteSet({})
  BY FS_EmptySet
<1>2. PICK g : Adds(g, f, {})
  BY <1>1, AddsExists
<1>3. SumOver(f, {}) = g[{}]
  BY <1>1, <1>2, SumOverIs
<1>4. g[{}] = 0
  BY <1>2 DEF Adds
<1> QED
  BY <1>3, <1>4

\* The fold takes out the element it picks.
LEMMA SumOverPick ==
  ASSUME NEW S, IsFiniteSet(S), S # {}, NEW f
  PROVE  SumOver(f, S) = f[Pick(S)] + SumOver(f, S \ {Pick(S)})
<1> DEFINE P == S \ {Pick(S)}
<1>1. PICK g : Adds(g, f, S)
  BY AddsExists
<1>2. P \in SUBSET S /\ IsFiniteSet(P)
  BY FS_Subset
<1>3. PICK h : h = [s \in SUBSET P |-> g[s]]
  OBVIOUS
<1>4. SumOver(f, P) = h[P] /\ h[P] = g[P]
  <2> HIDE DEF P
  <2>1. Adds(h, f, P)
    BY <1>1, <1>2, <1>3, AddsPart
  <2> QED
    BY <1>2, <1>3, <2>1, SumOverIs
<1>5. SumOver(f, S) = g[S]
  BY <1>1, SumOverIs
<1>6. g[S] = f[Pick(S)] + g[S \ {Pick(S)}]
  <2>1. \A s \in SUBSET S : g[s] = IF s = {} THEN 0 ELSE f[Pick(s)] + g[s \ {Pick(s)}]
    BY <1>1 DEF Adds
  <2>2. S \in SUBSET S
    OBVIOUS
  <2> QED
    BY <2>1, <2>2
<1> QED
  BY <1>4, <1>5, <1>6

\* Integers add up to an integer.
LEMMA SumOverInt ==
  ASSUME NEW S, IsFiniteSet(S), NEW f, \A x \in S : f[x] \in Int
  PROVE  SumOver(f, S) \in Int
<1> DEFINE C == {T \in SUBSET S : SumOver(f, T) \notin Int}
<1>1. SUFFICES ASSUME C # {} PROVE FALSE
  OBVIOUS
<1>2. \A T \in C : IsFiniteSet(T)
  BY FS_Subset
<1>3. PICK T \in C : \A U \in C : ~(Cardinality(U) < Cardinality(T))
  <2> HIDE DEF C
  <2> QED
    BY <1>1, <1>2, SmallestMember
<1>4. T # {}
  BY <1>3, SumOverEmpty
<1>5. Pick(T) \in T /\ T \ {Pick(T)} \notin C
  BY <1>2, <1>3, <1>4, PickIn, SmallerWithout
<1>6. f[Pick(T)] \in Int /\ SumOver(f, T \ {Pick(T)}) \in Int
  BY <1>3, <1>5
<1>7. SumOver(f, T) = f[Pick(T)] + SumOver(f, T \ {Pick(T)})
  BY <1>2, <1>3, <1>4, SumOverPick
<1> QED
  BY <1>3, <1>6, <1>7

\* Natural numbers add up to a natural number.
LEMMA SumOverNat ==
  ASSUME NEW S, IsFiniteSet(S), NEW f, \A x \in S : f[x] \in Nat
  PROVE  SumOver(f, S) \in Nat
<1> DEFINE C == {T \in SUBSET S : SumOver(f, T) \notin Nat}
<1>1. SUFFICES ASSUME C # {} PROVE FALSE
  OBVIOUS
<1>2. \A T \in C : IsFiniteSet(T)
  BY FS_Subset
<1>3. PICK T \in C : \A U \in C : ~(Cardinality(U) < Cardinality(T))
  <2> HIDE DEF C
  <2> QED
    BY <1>1, <1>2, SmallestMember
<1>4. T # {}
  BY <1>3, SumOverEmpty
<1>5. Pick(T) \in T /\ T \ {Pick(T)} \notin C
  BY <1>2, <1>3, <1>4, PickIn, SmallerWithout
<1>6. f[Pick(T)] \in Nat /\ SumOver(f, T \ {Pick(T)}) \in Nat
  BY <1>3, <1>5
<1>7. SumOver(f, T) = f[Pick(T)] + SumOver(f, T \ {Pick(T)})
  BY <1>2, <1>3, <1>4, SumOverPick
<1> QED
  BY <1>3, <1>6, <1>7

\* Two functions that agree on S have the same sum over S.
LEMMA SumOverSame ==
  ASSUME NEW S, IsFiniteSet(S), NEW f, NEW g, \A x \in S : f[x] = g[x]
  PROVE  SumOver(f, S) = SumOver(g, S)
<1> DEFINE C == {T \in SUBSET S : SumOver(f, T) # SumOver(g, T)}
<1>1. SUFFICES ASSUME C # {} PROVE FALSE
  OBVIOUS
<1>2. \A T \in C : IsFiniteSet(T)
  BY FS_Subset
<1>3. PICK T \in C : \A U \in C : ~(Cardinality(U) < Cardinality(T))
  <2> HIDE DEF C
  <2> QED
    BY <1>1, <1>2, SmallestMember
<1>4. T # {}
  BY <1>3, SumOverEmpty
<1>5. Pick(T) \in T /\ T \ {Pick(T)} \notin C
  BY <1>2, <1>3, <1>4, PickIn, SmallerWithout
<1> QED
  BY <1>2, <1>3, <1>4, <1>5, SumOverPick

\* Any element may be taken out of the sum, not only the one the fold picks.
LEMMA SumOverElement ==
  ASSUME NEW S, IsFiniteSet(S), NEW f, \A x \in S : f[x] \in Int, NEW e \in S
  PROVE  SumOver(f, S) = f[e] + SumOver(f, S \ {e})
<1> DEFINE C == {T \in SUBSET S : \E x \in T : SumOver(f, T) # f[x] + SumOver(f, T \ {x})}
<1>1. SUFFICES ASSUME C # {} PROVE FALSE
  OBVIOUS
<1>2. \A T \in C : IsFiniteSet(T)
  BY FS_Subset
<1>3. PICK T \in C : \A U \in C : ~(Cardinality(U) < Cardinality(T))
  <2> HIDE DEF C
  <2> QED
    BY <1>1, <1>2, SmallestMember
<1>4. PICK x \in T : SumOver(f, T) # f[x] + SumOver(f, T \ {x})
  BY <1>3
<1> DEFINE y == Pick(T)
<1>5. y \in T /\ SumOver(f, T) = f[y] + SumOver(f, T \ {y})
  BY <1>2, <1>4, PickIn, SumOverPick
<1>6. x # y
  BY <1>4, <1>5
<1> HIDE DEF y
<1>7. /\ IsFiniteSet(T \ {x}) /\ Cardinality(T \ {x}) < Cardinality(T)
      /\ IsFiniteSet(T \ {y}) /\ Cardinality(T \ {y}) < Cardinality(T)
  BY <1>2, <1>5, SmallerWithout
<1>8. T \ {x} \notin C /\ T \ {y} \notin C
  BY <1>3, <1>7
<1>9. /\ SumOver(f, T \ {x}) = f[y] + SumOver(f, (T \ {x}) \ {y})
      /\ SumOver(f, T \ {y}) = f[x] + SumOver(f, (T \ {y}) \ {x})
  BY <1>5, <1>6, <1>8
<1>10. (T \ {x}) \ {y} = (T \ {y}) \ {x}
  OBVIOUS
<1>11. SumOver(f, (T \ {x}) \ {y}) \in Int
  <2>1. IsFiniteSet((T \ {x}) \ {y})
    BY <1>7, FS_Subset
  <2> QED
    BY <2>1, SumOverInt
<1>12. f[x] \in Int /\ f[y] \in Int
  BY <1>5
<1>13. SumOver(f, T) = f[y] + (f[x] + SumOver(f, (T \ {x}) \ {y}))
  BY <1>5, <1>9, <1>10
<1>14. SumOver(f, T) = f[x] + (f[y] + SumOver(f, (T \ {x}) \ {y}))
  <2>1. \A i, j, k \in Int : i + (j + k) = j + (i + k)
    OBVIOUS
  <2> QED
    BY <1>11, <1>12, <1>13, <2>1
<1> QED
  BY <1>4, <1>9, <1>14

\* An element that joins the set adds its value, the others keeping theirs.
LEMMA SumOverJoin ==
  ASSUME NEW S, IsFiniteSet(S), NEW f, NEW g, NEW e, e \notin S, g[e] \in Int,
         \A x \in S : f[x] \in Int /\ g[x] = f[x]
  PROVE  SumOver(g, S \cup {e}) = SumOver(f, S) + g[e] /\ SumOver(f, S) \in Int
<1> DEFINE P == S \cup {e}
<1>1. IsFiniteSet(P) /\ e \in P /\ P \ {e} = S /\ \A x \in P : g[x] \in Int
  BY FS_AddElement
<1>2. SumOver(g, S) = SumOver(f, S)
  BY SumOverSame
<1>3. SumOver(f, S) \in Int
  BY SumOverInt
<1> SUFFICES SumOver(g, P) = SumOver(f, S) + g[e]
  BY <1>3
<1> HIDE DEF P
<1>4. SumOver(g, P) = g[e] + SumOver(g, S)
  BY <1>1, SumOverElement
<1> QED
  BY <1>2, <1>3, <1>4

\* An element that leaves takes its value with it.
LEMMA SumOverLeave ==
  ASSUME NEW S, IsFiniteSet(S), NEW f, NEW g, NEW e \in S, \A x \in S : f[x] \in Int,
         \A x \in S \ {e} : g[x] = f[x]
  PROVE  SumOver(f, S) = SumOver(g, S \ {e}) + f[e] /\ SumOver(g, S \ {e}) \in Int
<1>1. IsFiniteSet(S \ {e})
  BY FS_Subset
<1>2. SumOver(f, S) = f[e] + SumOver(f, S \ {e}) /\ f[e] \in Int
  BY SumOverElement
<1>3. SumOver(g, S \ {e}) = SumOver(f, S \ {e})
  BY <1>1, SumOverSame
<1>4. SumOver(f, S \ {e}) \in Int
  BY <1>1, SumOverInt
<1> QED
  BY <1>2, <1>3, <1>4

\* Elements whose value is 0 do not count.
LEMMA SumOverZeros ==
  ASSUME NEW S, IsFiniteSet(S), NEW f, \A x \in S : f[x] \in Int,
         NEW Z, Z \subseteq S, \A x \in S \ Z : f[x] = 0
  PROVE  SumOver(f, S) = SumOver(f, Z)
<1> DEFINE C == {T \in SUBSET S : Z \subseteq T /\ SumOver(f, T) # SumOver(f, Z)}
<1>1. SUFFICES ASSUME C # {} PROVE FALSE
  OBVIOUS
<1>2. \A T \in C : IsFiniteSet(T)
  BY FS_Subset
<1>3. PICK T \in C : \A U \in C : ~(Cardinality(U) < Cardinality(T))
  <2> HIDE DEF C
  <2> QED
    BY <1>1, <1>2, SmallestMember
<1>4. PICK x \in T : x \notin Z
  BY <1>3
<1>5. T \ {x} \notin C
  BY <1>2, <1>3, SmallerWithout
<1>6. SumOver(f, T \ {x}) = SumOver(f, Z)
  BY <1>3, <1>4, <1>5
<1>7. SumOver(f, T) = f[x] + SumOver(f, T \ {x})
  BY <1>2, <1>3, SumOverElement
<1>8. f[x] = 0 /\ SumOver(f, T \ {x}) \in Int
  <2>1. IsFiniteSet(T \ {x})
    BY <1>2, FS_Subset
  <2> QED
    BY <1>3, <1>4, <2>1, SumOverInt
<1> QED
  BY <1>3, <1>6, <1>7, <1>8
=============================================================================
