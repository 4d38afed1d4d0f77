---------------------------- MODULE CommonProofs ----------------------------
(***************************************************************************)
(* Lemmas about operators, which the proofs of several components cite: the *)
(* laws of finite sums; the exact counters of an epoch; one LRU level, for  *)
(* every set of lines and geometry; and what one reference does to the      *)
(* private levels and to the shared level (cache_hierarchy.hpp).            *)
(***************************************************************************)
EXTENDS CachePath, PageCounters, FiniteSetTheorems, SequenceTheorems, WellFoundedInduction,
        TLAPS

-----------------------------------------------------------------------------
(***************************************************************************)
(* SumFunctionOnSet over a finite set of keys whose counts are natural      *)
(* numbers.  The library's definition is a recursion over subsets, and each *)
(* law is proved from a smallest counterexample.                            *)
(***************************************************************************)
\* A set of natural numbers that is not empty has a least element.
LEMMA LeastOfNat ==
    ASSUME NEW S, S \subseteq Nat, S # {}
    PROVE  \E m \in S : \A x \in S : m <= x
  <1>1. PICK m \in S : \A y \in S : ~ (<<y, m>> \in OpToRel(<, Nat))
    BY NatLessThanWellFounded, WFMin
  <1>2. ASSUME NEW y \in S PROVE m <= y
    <2>1. y \in Nat /\ m \in Nat
      OBVIOUS
    <2>2. <<y, m>> \in Nat \X Nat /\ <<y, m>>[1] = y /\ <<y, m>>[2] = m
      BY <2>1
    <2>3. y < m => <<y, m>> \in OpToRel(<, Nat)
      BY <2>2, Zenon DEF OpToRel
    <2>4. ~ (y < m)
      BY <1>1, <2>3, Zenon
    <2> QED
      BY <2>1, <2>4
  <1> QED
    BY <1>2

\* A set of finite sets that is not empty has a smallest member.
LEMMA SmallestMember ==
    ASSUME NEW F, F # {}, \A s \in F : IsFiniteSet(s)
    PROVE  \E s \in F : \A t \in F : Cardinality(s) <= Cardinality(t)
  <1>1. \A s \in F : Cardinality(s) \in Nat
    BY FS_CardinalityType
  <1> DEFINE N == {Cardinality(s) : s \in F}
  <1>2. N \subseteq Nat /\ N # {}
    BY <1>1
  <1>3. PICK m \in N : \A x \in N : m <= x
    BY <1>2, LeastOfNat
  <1> QED
    BY <1>3

\* A finite set has finitely many images.
LEMMA FiniteImage ==
    ASSUME NEW S, IsFiniteSet(S), NEW g
    PROVE  IsFiniteSet({g[x] : x \in S})
  <1>1. PICK h : h = [x \in S |-> g[x]]
    OBVIOUS
  <1>2. h \in Surjection(S, {g[x] : x \in S})
    BY <1>1 DEF Surjection
  <1> QED
    BY <1>2, FS_Surjection

One(s) == CHOOSE x \in s : TRUE

\* g is the recursion of the sum of f over the sets in F.
Sums(f, g, F) ==
    g = [s \in F |-> IF s = {} THEN 0 ELSE f[One(s)] + g[s \ {One(s)}]]

\* The non-empty sets have an element to leave out, and are smaller without it.
LEMMA LeaveOne ==
    ASSUME NEW s, IsFiniteSet(s), s # {}
    PROVE  /\ One(s) \in s /\ IsFiniteSet(s \ {One(s)})
           /\ Cardinality(s \ {One(s)}) = Cardinality(s) - 1
           /\ Cardinality(s) \in Nat \ {0}
  BY FS_RemoveElement, FS_CardinalityType, FS_EmptySet DEF One

\* The sets of at most n elements, which the recursion reaches before larger ones.
PartsUpTo(S, n) == {s \in SUBSET S : Cardinality(s) <= n}

\* The recursion has a solution on the sets of up to n elements, for every n.
LEMMA SumsExist ==
    ASSUME NEW f, NEW S, IsFiniteSet(S), NEW n \in Nat
    PROVE  \E g : Sums(f, g, PartsUpTo(S, n))
  <1>1. \A s \in SUBSET S : IsFiniteSet(s) /\ Cardinality(s) \in Nat
    BY FS_Subset, FS_CardinalityType
  <1> DEFINE Bad == {m \in Nat : ~ \E g : Sums(f, g, PartsUpTo(S, m))}
  <1>2. SUFFICES ASSUME Bad # {} PROVE FALSE
    BY <1>2
  <1>3. PICK m \in Bad : \A x \in Bad : m <= x
    BY <1>2, LeastOfNat
  <1>4. CASE m = 0
    <2> DEFINE g == [s \in PartsUpTo(S, 0) |-> 0]
    <2>1. \A s \in PartsUpTo(S, 0) : s = {}
      BY <1>1, FS_EmptySet DEF PartsUpTo
    <2>2. Sums(f, g, PartsUpTo(S, 0))
      BY <2>1 DEF Sums
    <2> QED
      BY <1>4, <2>2
  <1>5. CASE m # 0
    <2>1. m \in Nat /\ m - 1 \in Nat /\ m - 1 < m
      BY <1>5
    <2>2. PICK g : Sums(f, g, PartsUpTo(S, m - 1))
      BY <1>3, <2>1
    <2> DEFINE next(s) == IF s = {} THEN 0 ELSE f[One(s)] + g[s \ {One(s)}]
    <2> DEFINE h == [s \in PartsUpTo(S, m) |-> next(s)]
    <2>3. \A s \in PartsUpTo(S, m - 1) : g[s] = next(s)
      BY <2>2 DEF Sums
    <2>4. PartsUpTo(S, m - 1) \subseteq PartsUpTo(S, m)
      BY <1>1, <2>1 DEF PartsUpTo
    <2>5. ASSUME NEW s \in PartsUpTo(S, m), s # {} PROVE s \ {One(s)} \in PartsUpTo(S, m - 1)
      BY <1>1, <2>1, <2>5, LeaveOne DEF PartsUpTo
    <2>6. \A s \in PartsUpTo(S, m) : s # {} => h[s \ {One(s)}] = g[s \ {One(s)}]
      BY <2>3, <2>4, <2>5
    <2>7. Sums(f, h, PartsUpTo(S, m))
      <3>1. \A s \in PartsUpTo(S, m) : next(s) = IF s = {} THEN 0 ELSE f[One(s)] + h[s \ {One(s)}]
        BY <2>6
      <3> QED
        BY <3>1 DEF Sums
    <2> QED
      BY <2>7
  <1> QED
    BY <1>4, <1>5

\* Two solutions agree on what both cover.
LEMMA SumsAgree ==
    ASSUME NEW f, NEW S, NEW T \in SUBSET S, IsFiniteSet(S), NEW g, NEW h,
           Sums(f, g, SUBSET S), Sums(f, h, SUBSET T)
    PROVE  \A s \in SUBSET T : g[s] = h[s]
  <1> DEFINE Bad == {s \in SUBSET T : g[s] # h[s]}
  <1>1. SUFFICES ASSUME Bad # {} PROVE FALSE
    OBVIOUS
  <1>2. \A s \in SUBSET S : IsFiniteSet(s)
    BY FS_Subset
  <1>3. PICK s \in Bad : \A t \in Bad : Cardinality(s) <= Cardinality(t)
    BY <1>1, <1>2, SmallestMember
  <1>4. s \in SUBSET T /\ s \in SUBSET S /\ g[s] # h[s]
    OBVIOUS
  <1> DEFINE of(k, r) == IF r = {} THEN 0 ELSE f[One(r)] + k[r \ {One(r)}]
  <1>a. g[s] = of(g, s)
    BY <1>4 DEF Sums
  <1>b. h[s] = of(h, s)
    BY <1>4 DEF Sums
  <1>5. s # {} /\ IsFiniteSet(s)
    BY <1>2, <1>4, <1>a, <1>b
  <1>c. One(s) \in s /\ Cardinality(s \ {One(s)}) = Cardinality(s) - 1 /\ Cardinality(s) \in Nat
    BY <1>5, LeaveOne
  <1> DEFINE t == s \ {One(s)}
  <1>6. t \in SUBSET T /\ t \in SUBSET S
    BY <1>4
  <1>7. ~ (Cardinality(s) <= Cardinality(t))
    BY <1>c
  <1>8. g[t] = h[t]
    BY <1>3, <1>6, <1>7
  <1>9. g[s] = f[One(s)] + g[t] /\ h[s] = f[One(s)] + h[t]
    BY <1>5, <1>a, <1>b
  <1> QED
    BY <1>4, <1>8, <1>9

\* So it has one on all parts of a finite set.
LEMMA SumsExistOn ==
    ASSUME NEW f, NEW S, IsFiniteSet(S)
    PROVE  \E g : Sums(f, g, SUBSET S)
  <1>1. \A s \in SUBSET S : Cardinality(s) <= Cardinality(S)
    BY FS_Subset
  <1>2. PartsUpTo(S, Cardinality(S)) = SUBSET S
    BY <1>1 DEF PartsUpTo
  <1>3. Cardinality(S) \in Nat
    BY FS_CardinalityType
  <1>4. \E g : Sums(f, g, PartsUpTo(S, Cardinality(S)))
    BY <1>3, SumsExist
  <1> QED
    BY <1>2, <1>4

\* What the library's definition says.
LEMMA SumUnfolds ==
    ASSUME NEW f, NEW S
    PROVE  SumFunctionOnSet(f, S) = (CHOOSE h : Sums(f, h, SUBSET S))[S]
  BY DEF SumFunctionOnSet, FoldFunctionOnSet, MapThenFoldSet, Sums, One

\* On a finite set it is any solution of the recursion.
LEMMA SumIs ==
    ASSUME NEW f, NEW S, IsFiniteSet(S), NEW T \in SUBSET S, NEW g, Sums(f, g, SUBSET S)
    PROVE  SumFunctionOnSet(f, T) = g[T]
  <1>1. IsFiniteSet(T)
    BY FS_Subset
  <1>3. \E h : Sums(f, h, SUBSET T)
    BY <1>1, SumsExistOn
  <1>4. PICK k : Sums(f, k, SUBSET T) /\ SumFunctionOnSet(f, T) = k[T]
    BY <1>3, SumUnfolds
  <1>5. Sums(f, k, SUBSET T)
    BY <1>4
  <1>6. \A s \in SUBSET T : g[s] = k[s]
    BY <1>5, SumsAgree
  <1>7. g[T] = k[T]
    BY <1>6
  <1> QED
    BY <1>4, <1>7

\* The sum of no counts.
LEMMA SumOfNone == ASSUME NEW f PROVE SumFunctionOnSet(f, {}) = 0
  <1>1. IsFiniteSet({})
    BY FS_EmptySet
  <1>3. PICK g : Sums(f, g, SUBSET {})
    BY <1>1, SumsExistOn
  <1>4. g[{}] = 0
    BY <1>3 DEF Sums
  <1>5. {} \in SUBSET {}
    OBVIOUS
  <1>6. SumFunctionOnSet(f, {}) = g[{}]
    BY <1>1, <1>3, <1>5, SumIs, Zenon
  <1> QED
    BY <1>4, <1>6

\* The sum with the element left out first taken off, and of natural numbers.
LEMMA SumTakesOne ==
    ASSUME NEW f, NEW S, IsFiniteSet(S), S # {}
    PROVE  SumFunctionOnSet(f, S) = f[One(S)] + SumFunctionOnSet(f, S \ {One(S)})
  <1>3. PICK g : Sums(f, g, SUBSET S)
    BY SumsExistOn
  <1>4. g[S] = f[One(S)] + g[S \ {One(S)}]
    BY <1>3 DEF Sums
  <1>5. SumFunctionOnSet(f, S) = g[S]
    BY <1>3, SumIs
  <1>6. SumFunctionOnSet(f, S \ {One(S)}) = g[S \ {One(S)}]
    BY <1>3, SumIs
  <1> QED
    BY <1>4, <1>5, <1>6
(***************************************************************************)
(* The sum of counts that are natural numbers is one, and any element can   *)
(* be taken off first.                                                      *)
(***************************************************************************)
LEMMA SumInNat ==
    ASSUME NEW f, NEW S, IsFiniteSet(S), \A x \in S : f[x] \in Nat
    PROVE  SumFunctionOnSet(f, S) \in Nat
  <1> DEFINE Bad == {s \in SUBSET S : SumFunctionOnSet(f, s) \notin Nat}
  <1>1. SUFFICES ASSUME Bad # {} PROVE FALSE
    OBVIOUS
  <1>2. \A s \in SUBSET S : IsFiniteSet(s)
    BY FS_Subset
  <1>3. PICK s \in Bad : \A t \in Bad : Cardinality(s) <= Cardinality(t)
    BY <1>1, <1>2, SmallestMember
  <1>4. s # {}
    BY SumOfNone
  <1>8. One(s) \in s /\ Cardinality(s \ {One(s)}) = Cardinality(s) - 1 /\ Cardinality(s) \in Nat
    BY <1>2, <1>4, LeaveOne
  <1>5. One(s) \in s /\ ~ (Cardinality(s) <= Cardinality(s \ {One(s)}))
    BY <1>8
  <1>6. SumFunctionOnSet(f, s \ {One(s)}) \in Nat
    BY <1>3, <1>5
  <1>7. SumFunctionOnSet(f, s) = f[One(s)] + SumFunctionOnSet(f, s \ {One(s)})
    BY <1>2, <1>4, SumTakesOne
  <1> QED
    BY <1>5, <1>6, <1>7

LEMMA SumTakesAny ==
    ASSUME NEW f, NEW S, IsFiniteSet(S), \A x \in S : f[x] \in Nat, NEW x \in S
    PROVE  SumFunctionOnSet(f, S) = f[x] + SumFunctionOnSet(f, S \ {x})
  <1> DEFINE Off(s, y) == SumFunctionOnSet(f, s) = f[y] + SumFunctionOnSet(f, s \ {y})
  <1> DEFINE Bad == {s \in SUBSET S : \E y \in s : ~ Off(s, y)}
  <1>1. SUFFICES ASSUME Bad # {} PROVE FALSE
    OBVIOUS
  <1>2. \A s \in SUBSET S : IsFiniteSet(s)
    BY FS_Subset
  <1>3. PICK s \in Bad : \A t \in Bad : Cardinality(s) <= Cardinality(t)
    BY <1>1, <1>2, SmallestMember
  <1>4. PICK y \in s : ~ Off(s, y)
    BY <1>3
  <1> DEFINE z == One(s)
  <1>5. z \in s
    BY <1>2, <1>4, LeaveOne
  <1>6. Off(s, z)
    BY <1>2, <1>4, SumTakesOne
  <1>7. y # z
    BY <1>4, <1>6
  <1> HIDE DEF z
  <1>13. IsFiniteSet(s) /\ Cardinality(s) \in Nat
    BY <1>2, FS_CardinalityType
  <1>8. ASSUME NEW w \in s, NEW v \in s \ {w} PROVE Off(s \ {w}, v)
    <2>1. Cardinality(s \ {w}) = Cardinality(s) - 1
      BY <1>13, FS_RemoveElement
    <2>2. s \ {w} \notin Bad
      BY <1>3, <1>13, <2>1
    <2> QED
      BY <2>2
  <1>9. Off(s \ {z}, y)
    BY <1>4, <1>5, <1>7, <1>8
  <1>10. Off(s \ {y}, z)
    BY <1>4, <1>5, <1>7, <1>8
  <1> DEFINE rest == (s \ {z}) \ {y}
  <1>11. rest = (s \ {y}) \ {z}
    OBVIOUS
  <1>12. IsFiniteSet(rest) /\ rest \subseteq S
    BY <1>2
  <1>14. SumFunctionOnSet(f, rest) \in Nat
    BY <1>12, SumInNat
  <1>15. f[y] \in Nat /\ f[z] \in Nat
    BY <1>4, <1>5
  <1>16. SumFunctionOnSet(f, s \ {z}) = f[y] + SumFunctionOnSet(f, rest)
    BY <1>9
  <1>17. SumFunctionOnSet(f, s \ {y}) = f[z] + SumFunctionOnSet(f, rest)
    BY <1>10, <1>11
  <1>18. SumFunctionOnSet(f, s) = f[z] + SumFunctionOnSet(f, s \ {z})
    BY <1>6
  <1> HIDE DEF rest
  <1>19. SumFunctionOnSet(f, s) = f[y] + SumFunctionOnSet(f, s \ {y})
    BY <1>14, <1>15, <1>16, <1>17, <1>18
  <1> QED
    BY <1>4, <1>19

\* One more key.
LEMMA SumWith ==
    ASSUME NEW f, NEW S, IsFiniteSet(S), NEW x, x \notin S,
           f[x] \in Nat, \A y \in S : f[y] \in Nat
    PROVE  SumFunctionOnSet(f, S \cup {x}) = SumFunctionOnSet(f, S) + f[x]
  <1> DEFINE Sm(s) == SumFunctionOnSet(f, s)
  <1>1. PICK T : T = S \cup {x}
    OBVIOUS
  <1>2. IsFiniteSet(T)
    BY <1>1, FS_AddElement
  <1>3. x \in T /\ T \ {x} = S /\ \A y \in T : f[y] \in Nat
    BY <1>1
  <1>4. Sm(T) = f[x] + Sm(T \ {x})
    BY <1>2, <1>3, SumTakesAny
  <1>5. Sm(S) \in Nat
    BY SumInNat
  <1>6. Sm(T) = f[x] + Sm(S)
    BY <1>3, <1>4
  <1> HIDE DEF Sm
  <1>7. Sm(T) = Sm(S) + f[x]
    BY <1>5, <1>6
  <1> QED
    BY <1>1, <1>7 DEF Sm

(***************************************************************************)
(* Sums of counts compared key by key.                                      *)
(***************************************************************************)
LEMMA SumMonotonic ==
    ASSUME NEW S, IsFiniteSet(S), NEW f, NEW g,
           \A x \in S : f[x] \in Nat /\ g[x] \in Nat /\ f[x] <= g[x]
    PROVE  SumFunctionOnSet(f, S) <= SumFunctionOnSet(g, S)
  <1> DEFINE Bad == {s \in SUBSET S : ~ (SumFunctionOnSet(f, s) <= SumFunctionOnSet(g, s))}
  <1>1. SUFFICES ASSUME Bad # {} PROVE FALSE
    OBVIOUS
  <1>2. \A s \in SUBSET S : IsFiniteSet(s)
    BY FS_Subset
  <1>3. PICK s \in Bad : \A t \in Bad : Cardinality(s) <= Cardinality(t)
    BY <1>1, <1>2, SmallestMember
  <1>4. s # {}
    BY SumOfNone
  <1>5. PICK x \in s : TRUE
    BY <1>4
  <1>6. IsFiniteSet(s) /\ Cardinality(s) \in Nat
    BY <1>2, FS_CardinalityType
  <1>7. Cardinality(s \ {x}) = Cardinality(s) - 1
    BY <1>6, FS_RemoveElement
  <1>8. SumFunctionOnSet(f, s \ {x}) <= SumFunctionOnSet(g, s \ {x})
    BY <1>3, <1>6, <1>7
  <1>9. SumFunctionOnSet(f, s) = f[x] + SumFunctionOnSet(f, s \ {x})
    BY <1>6, SumTakesAny
  <1>10. SumFunctionOnSet(g, s) = g[x] + SumFunctionOnSet(g, s \ {x})
    BY <1>6, SumTakesAny
  <1>11. IsFiniteSet(s \ {x})
    BY <1>2
  <1>12. SumFunctionOnSet(f, s \ {x}) \in Nat /\ SumFunctionOnSet(g, s \ {x}) \in Nat
    BY <1>11, SumInNat
  <1> QED
    BY <1>8, <1>9, <1>10, <1>12

LEMMA SumSame ==
    ASSUME NEW S, IsFiniteSet(S), NEW f, NEW g,
           \A x \in S : f[x] \in Nat /\ g[x] = f[x]
    PROVE  SumFunctionOnSet(f, S) = SumFunctionOnSet(g, S)
  <1>1. SumFunctionOnSet(f, S) <= SumFunctionOnSet(g, S)
    BY SumMonotonic
  <1>2. SumFunctionOnSet(g, S) <= SumFunctionOnSet(f, S)
    BY SumMonotonic
  <1>3. SumFunctionOnSet(f, S) \in Nat /\ SumFunctionOnSet(g, S) \in Nat
    BY SumInNat
  <1> QED
    BY <1>1, <1>2, <1>3

\* One count changed.
LEMMA SumChanged ==
    ASSUME NEW S, IsFiniteSet(S), NEW f, NEW g, NEW x \in S, NEW n \in Nat,
           \A y \in S : f[y] \in Nat,
           g[x] = f[x] + n, \A y \in S \ {x} : g[y] = f[y]
    PROVE  SumFunctionOnSet(g, S) = SumFunctionOnSet(f, S) + n
  <1>1. IsFiniteSet(S \ {x})
    BY FS_Subset
  <1>2. SumFunctionOnSet(f, S \ {x}) = SumFunctionOnSet(g, S \ {x})
    BY <1>1, SumSame
  <1>3. SumFunctionOnSet(f, S) = f[x] + SumFunctionOnSet(f, S \ {x})
    BY SumTakesAny
  <1>4. \A y \in S : g[y] \in Nat
    OBVIOUS
  <1>5. SumFunctionOnSet(g, S) = g[x] + SumFunctionOnSet(g, S \ {x})
    BY <1>4, SumTakesAny
  <1>6. SumFunctionOnSet(f, S \ {x}) \in Nat
    BY <1>1, SumInNat
  <1> QED
    BY <1>2, <1>3, <1>5, <1>6

\* Keys that count nothing may be left out.
LEMMA SumOfZeros ==
    ASSUME NEW S, IsFiniteSet(S), NEW f, \A x \in S : f[x] = 0
    PROVE  SumFunctionOnSet(f, S) = 0
  <1> DEFINE Bad == {s \in SUBSET S : SumFunctionOnSet(f, s) # 0}
  <1>1. SUFFICES ASSUME Bad # {} PROVE FALSE
    OBVIOUS
  <1>2. \A s \in SUBSET S : IsFiniteSet(s)
    BY FS_Subset
  <1>3. PICK s \in Bad : \A t \in Bad : Cardinality(s) <= Cardinality(t)
    BY <1>1, <1>2, SmallestMember
  <1>4. PICK x \in s : TRUE
    BY SumOfNone
  <1>6. IsFiniteSet(s) /\ Cardinality(s) \in Nat
    BY <1>2, FS_CardinalityType
  <1>7. Cardinality(s \ {x}) = Cardinality(s) - 1
    BY <1>6, FS_RemoveElement
  <1>8. SumFunctionOnSet(f, s \ {x}) = 0
    BY <1>3, <1>6, <1>7
  <1>9. SumFunctionOnSet(f, s) = f[x] + SumFunctionOnSet(f, s \ {x})
    BY <1>6, SumTakesAny
  <1> QED
    BY <1>8, <1>9

\* A set of n keys that count m each.
LEMMA SumOfConstant ==
    ASSUME NEW S, IsFiniteSet(S), NEW m \in Nat, NEW f, \A x \in S : f[x] = m
    PROVE  SumFunctionOnSet(f, S) = m * Cardinality(S)
  <1> DEFINE Bad == {s \in SUBSET S : SumFunctionOnSet(f, s) # m * Cardinality(s)}
  <1>1. SUFFICES ASSUME Bad # {} PROVE FALSE
    OBVIOUS
  <1>2. \A s \in SUBSET S : IsFiniteSet(s)
    BY FS_Subset
  <1>3. PICK s \in Bad : \A t \in Bad : Cardinality(s) <= Cardinality(t)
    BY <1>1, <1>2, SmallestMember
  <1>4. s # {}
    BY SumOfNone, FS_EmptySet
  <1>5. PICK x \in s : TRUE
    BY <1>4
  <1>6. PICK n : n = Cardinality(s)
    OBVIOUS
  <1>7. IsFiniteSet(s) /\ n \in Nat
    BY <1>2, <1>6, FS_CardinalityType
  <1>8. Cardinality(s \ {x}) = n - 1
    BY <1>6, <1>7, FS_RemoveElement
  <1>9. SumFunctionOnSet(f, s \ {x}) = m * (n - 1)
    BY <1>3, <1>6, <1>7, <1>8
  <1>10. SumFunctionOnSet(f, s) = m + SumFunctionOnSet(f, s \ {x})
    BY <1>7, SumTakesAny
  <1>11. m * (n - 1) + m = m * n
    BY <1>7
  <1>12. m * (n - 1) \in Int
    BY <1>7
  <1>13. m + m * (n - 1) = m * n
    BY <1>11, <1>12
  <1> QED
    BY <1>3, <1>6, <1>9, <1>10, <1>13

\* Bounds of the counts bound the sum.
LEMMA SumAtLeast ==
    ASSUME NEW S, IsFiniteSet(S), NEW m \in Nat, NEW f, \A x \in S : f[x] \in Nat /\ m <= f[x]
    PROVE  m * Cardinality(S) <= SumFunctionOnSet(f, S)
  <1>1. PICK g : g = [x \in S |-> m]
    OBVIOUS
  <1>2. \A x \in S : g[x] \in Nat /\ f[x] \in Nat /\ g[x] <= f[x] /\ g[x] = m
    BY <1>1
  <1>3. SumFunctionOnSet(g, S) <= SumFunctionOnSet(f, S)
    BY <1>2, SumMonotonic
  <1>4. SumFunctionOnSet(g, S) = m * Cardinality(S)
    BY <1>2, SumOfConstant
  <1> QED
    BY <1>3, <1>4

LEMMA SumAtMost ==
    ASSUME NEW S, IsFiniteSet(S), NEW m \in Nat, NEW f, \A x \in S : f[x] \in Nat /\ f[x] <= m
    PROVE  SumFunctionOnSet(f, S) <= m * Cardinality(S)
  <1>1. PICK g : g = [x \in S |-> m]
    OBVIOUS
  <1>2. \A x \in S : g[x] \in Nat /\ f[x] \in Nat /\ f[x] <= g[x] /\ g[x] = m
    BY <1>1
  <1>3. SumFunctionOnSet(f, S) <= SumFunctionOnSet(g, S)
    BY <1>2, SumMonotonic
  <1>4. SumFunctionOnSet(g, S) = m * Cardinality(S)
    BY <1>2, SumOfConstant
  <1> QED
    BY <1>3, <1>4
\* The sum over two sets without a common key.
LEMMA SumOfUnion ==
    ASSUME NEW S, IsFiniteSet(S), NEW T, IsFiniteSet(T), S \cap T = {},
           NEW f, \A x \in S \cup T : f[x] \in Nat
    PROVE  SumFunctionOnSet(f, S \cup T) = SumFunctionOnSet(f, S) + SumFunctionOnSet(f, T)
  <1> DEFINE Sm(s) == SumFunctionOnSet(f, s)
  <1> DEFINE Bad == {s \in SUBSET T : Sm(S \cup s) # Sm(S) + Sm(s)}
  <1>1. SUFFICES ASSUME Bad # {} PROVE FALSE
    OBVIOUS
  <1>2. \A s \in SUBSET T : IsFiniteSet(s)
    BY FS_Subset
  <1>3. PICK s \in Bad : \A t \in Bad : Cardinality(s) <= Cardinality(t)
    BY <1>1, <1>2, SmallestMember
  <1>0. Sm(S) \in Nat
    BY SumInNat
  <1>4. s # {}
    <2>1. Sm({}) = 0 /\ S \cup {} = S
      BY SumOfNone
    <2> QED
      BY <1>0, <2>1
  <1>5. PICK x \in s : TRUE
    BY <1>4
  <1> DEFINE r == s \ {x}
  <1>6. IsFiniteSet(s) /\ Cardinality(s) \in Nat /\ IsFiniteSet(r) /\ IsFiniteSet(S \cup r)
    BY <1>2, FS_CardinalityType, FS_Union
  <1>7. Cardinality(r) = Cardinality(s) - 1
    BY <1>6, FS_RemoveElement
  <1>8. Sm(S \cup r) = Sm(S) + Sm(r)
    BY <1>3, <1>6, <1>7
  <1>9. x \notin r /\ x \notin S \cup r /\ r \cup {x} = s /\ (S \cup r) \cup {x} = S \cup s
    BY <1>5
  <1>10. f[x] \in Nat /\ (\A y \in r : f[y] \in Nat) /\ (\A y \in S \cup r : f[y] \in Nat)
    BY <1>5
  <1>11. Sm(r) \in Nat
    BY <1>6, <1>10, SumInNat
  <1> HIDE DEF r
  <1>12. Sm(r \cup {x}) = Sm(r) + f[x]
    BY <1>6, <1>9, <1>10, SumWith
  <1>13. Sm((S \cup r) \cup {x}) = Sm(S \cup r) + f[x]
    BY <1>6, <1>9, <1>10, SumWith
  <1>14. Sm(s) = Sm(r) + f[x] /\ Sm(S \cup s) = Sm(S \cup r) + f[x]
    BY <1>9, <1>12, <1>13
  <1>15. Sm(S \cup s) # Sm(S) + Sm(s)
    BY <1>3
  <1> HIDE DEF Sm
  <1> QED
    BY <1>0, <1>8, <1>10, <1>11, <1>14, <1>15

\* A list of counts that grows by one.
LEMMA SumAppend ==
    ASSUME NEW s \in Seq(Nat), NEW n \in Nat
    PROVE  /\ SumFunction(s) \in Nat
           /\ SumFunction(Append(s, n)) = SumFunction(s) + n
  <1> DEFINE m == Len(s)
             t == Append(s, n)
  <1>1. /\ m \in Nat /\ DOMAIN s = 1..m /\ \A i \in 1..m : s[i] \in Nat
        /\ DOMAIN t = 1..(m + 1) /\ t[m + 1] = n
        /\ \A i \in 1..m : t[i] = s[i]
    BY LenProperties, AppendProperties, ElementOfSeq
  <1> HIDE DEF m, t
  <1>2. IsFiniteSet(1..m)
    BY <1>1, FS_Interval
  <1>3. SumFunctionOnSet(s, 1..m) = SumFunctionOnSet(t, 1..m)
    BY <1>1, <1>2, SumSame
  <1>4. SumFunctionOnSet(s, 1..m) \in Nat
    BY <1>1, <1>2, SumInNat
  <1>5. m + 1 \notin 1..m /\ (1..m) \cup {m + 1} = 1..(m + 1)
    BY <1>1
  <1>6. SumFunctionOnSet(t, (1..m) \cup {m + 1}) = SumFunctionOnSet(t, 1..m) + t[m + 1]
    <2>1. PICK S : S = 1..m
      OBVIOUS
    <2>2. PICK k : k = m + 1
      OBVIOUS
    <2>3. IsFiniteSet(S) /\ k \notin S /\ t[k] \in Nat /\ \A i \in S : t[i] \in Nat
      BY <1>1, <1>2, <2>1, <2>2
    <2>4. SumFunctionOnSet(t, S \cup {k}) = SumFunctionOnSet(t, S) + t[k]
      BY <2>3, SumWith
    <2> QED
      BY <2>1, <2>2, <2>4
  <1>7. SumFunction(s) = SumFunctionOnSet(s, 1..m) /\ SumFunction(t) = SumFunctionOnSet(t, 1..(m + 1))
    BY <1>1 DEF SumFunction
  <1> QED
    BY <1>1, <1>3, <1>4, <1>5, <1>6, <1>7 DEF t

\* t is the list s with e at its end, and d the list c with n at its end.
OneLonger(s, t, e, c, d, n) ==
    /\ \E R : t \in Seq(R)
    /\ d \in Seq(Nat) /\ d = [i \in DOMAIN t |-> d[i]]
    /\ \A i \in DOMAIN t :
          \/ i \in DOMAIN s /\ t[i] = s[i] /\ d[i] = c[i]
          \/ t[i] = e /\ d[i] = n
    /\ SumFunction(c) \in Nat /\ SumFunction(d) = SumFunction(c) + n

\* A list s of records and the list c of a number each of them holds, both one
\* longer.
LEMMA CountsGrow ==
    ASSUME NEW S, NEW s \in Seq(S), NEW e, NEW c \in Seq(Nat), DOMAIN c = DOMAIN s,
           NEW n \in Nat
    PROVE  OneLonger(s, Append(s, e), e, c, Append(c, n), n)
  <1> DEFINE m == Len(s)
             t == Append(s, e)
             d == Append(c, n)
  <1>1. s \in Seq(S \cup {e}) /\ e \in S \cup {e}
    BY SeqMonotonic
  <1>2. /\ m \in Nat /\ DOMAIN s = 1..m /\ DOMAIN t = 1..(m + 1) /\ t[m + 1] = e
        /\ t \in Seq(S \cup {e})
        /\ \A i \in 1..m : t[i] = s[i]
    BY <1>1, LenProperties, AppendProperties
  <1>3. Len(c) = m
    BY <1>2, LenProperties
  <1>4. /\ d \in Seq(Nat) /\ DOMAIN d = 1..(m + 1) /\ d[m + 1] = n
        /\ \A i \in 1..m : d[i] = c[i]
    BY <1>2, <1>3, LenProperties, AppendProperties
  <1>5. SumFunction(c) \in Nat /\ SumFunction(d) = SumFunction(c) + n
    BY SumAppend
  <1> HIDE DEF t, d, m
  <1>6. d = [i \in DOMAIN t |-> d[i]]
    BY <1>2, <1>4
  <1>7. \A i \in DOMAIN t :
           \/ i \in DOMAIN s /\ t[i] = s[i] /\ d[i] = c[i]
           \/ t[i] = e /\ d[i] = n
    <2>1. \A i \in 1..(m + 1) : i \in 1..m \/ i = m + 1
      BY <1>2
    <2> QED
      BY <1>2, <1>4, <2>1
  <1>8. \E R : t \in Seq(R)
    BY <1>2
  <1>9. OneLonger(s, t, e, c, d, n)
    BY <1>4, <1>5, <1>6, <1>7, <1>8 DEF OneLonger
  <1> QED
    BY <1>9 DEF t, d

-----------------------------------------------------------------------------
(***************************************************************************)
(* The exact counters of an epoch (PageCounters).                           *)
(***************************************************************************)
Touched(c) == {l \in Lines : c.word[l] # 0}
PageTotals(c) == [p \in Pages |-> PageTotal(c, p)]

\* Pages of lines are pages.
LEMMA PageOfLine == \A l \in Lines : PageOf(l) \in Pages
  BY DEF Pages

\* The touched pages are the pages of the touched words.
LEMMA PagesOfWords ==
    \A c : TouchedPages(c) = {p \in Pages : \E l \in Touched(c) : PageOf(l) = p}
  BY DEF TouchedPages, WordsTouched, Touched

\* An access is counted once in all, once for its page, and at most once for its
\* line, which it touches even when the line's counter is full.
LEMMA CountAccessFacts ==
    ASSUME NEW c \in Counters, NEW line \in Lines, NEW type \in AccessType
    PROVE  LET n == CountAccess(c, line, type)
           IN  /\ n \in Counters /\ n.total = c.total + 1
               /\ PageTotals(c) \in [Pages -> Nat] /\ PageTotals(n) \in [Pages -> Nat]
               /\ \A p \in Pages :
                     PageTotals(n)[p] = PageTotals(c)[p] + (IF p = PageOf(line) THEN 1 ELSE 0)
               /\ c.word \in [Lines -> Nat] /\ n.word \in [Lines -> Nat]
               /\ \A l \in Lines : n.word[l] <= c.word[l] + (IF l = line THEN 1 ELSE 0)
               /\ Touched(n) = Touched(c) \cup {line}
  <1> DEFINE n == CountAccess(c, line, type)
             page == PageOf(line)
             full == c.word[line] = WordMax
  <1>1. page \in Pages
    BY DEF Pages
  <1>2. /\ c.word \in [Lines -> 0..WordMax] /\ c.reads \in [Pages -> Nat]
        /\ c.writes \in [Pages -> Nat] /\ c.total \in Nat /\ c.saturations \in Nat
    BY DEF Counters
  <1>3. /\ PlusOne(c.reads, page) \in [Pages -> Nat]
        /\ PlusOne(c.writes, page) \in [Pages -> Nat]
        /\ \A p \in Pages :
              /\ PlusOne(c.reads, page)[p] = c.reads[p] + (IF p = page THEN 1 ELSE 0)
              /\ PlusOne(c.writes, page)[p] = c.writes[p] + (IF p = page THEN 1 ELSE 0)
    BY <1>1, <1>2 DEF PlusOne
  <1>4. WordMax \in Nat \ {0}
    BY CounterAssumption
  <1>5. ~ full => /\ PlusOne(c.word, line) \in [Lines -> 0..WordMax]
                  /\ \A l \in Lines :
                        PlusOne(c.word, line)[l] = c.word[l] + (IF l = line THEN 1 ELSE 0)
    BY <1>2, <1>4 DEF PlusOne
  <1>6. /\ n = [word |-> n.word, reads |-> n.reads, writes |-> n.writes,
                total |-> n.total, saturations |-> n.saturations]
        /\ n.word = IF full THEN c.word ELSE PlusOne(c.word, line)
        /\ n.reads = IF type = "read" THEN PlusOne(c.reads, page) ELSE c.reads
        /\ n.writes = IF type = "write" THEN PlusOne(c.writes, page) ELSE c.writes
        /\ n.total = c.total + 1
        /\ n.saturations = IF full THEN c.saturations + 1 ELSE c.saturations
    BY DEF CountAccess
  <1> HIDE DEF n, page
  <1>7. /\ n.word \in [Lines -> 0..WordMax]
        /\ \A l \in Lines : /\ n.word[l] <= c.word[l] + (IF l = line THEN 1 ELSE 0)
                            /\ n.word[l] # 0 <=> c.word[l] # 0 \/ l = line
    BY <1>2, <1>4, <1>5, <1>6
  <1>8. n.reads \in [Pages -> Nat] /\ n.writes \in [Pages -> Nat]
    BY <1>2, <1>3, <1>6
  <1>9. \A p \in Pages : n.reads[p] + n.writes[p]
                          = c.reads[p] + c.writes[p] + (IF p = page THEN 1 ELSE 0)
    <2>1. CASE type = "read"
      BY <1>2, <1>3, <1>6, <2>1
    <2>2. CASE type = "write"
      BY <1>2, <1>3, <1>6, <2>2
    <2> QED
      BY <2>1, <2>2 DEF AccessType
  <1>10. n \in Counters
    BY <1>2, <1>6, <1>7, <1>8 DEF Counters
  <1>11. /\ PageTotals(c) \in [Pages -> Nat] /\ PageTotals(n) \in [Pages -> Nat]
         /\ \A p \in Pages : /\ PageTotals(c)[p] = c.reads[p] + c.writes[p]
                             /\ PageTotals(n)[p] = n.reads[p] + n.writes[p]
    BY <1>2, <1>8 DEF PageTotals, PageTotal
  <1>12. c.word \in [Lines -> Nat] /\ n.word \in [Lines -> Nat]
    BY <1>2, <1>4, <1>7
  <1>13. Touched(n) = Touched(c) \cup {line}
    BY <1>7 DEF Touched
  <1>14. n.total = c.total + 1
    BY <1>6
  <1> QED
    BY <1>7, <1>9, <1>10, <1>11, <1>12, <1>13, <1>14 DEF n, page

(***************************************************************************)
(* Counters that fit together: finitely many pages are touched, they are    *)
(* those with an access, and their accesses make up the total.              *)
(***************************************************************************)
Whole(c) ==
    /\ c \in Counters
    /\ IsFiniteSet(TouchedPages(c))
    /\ \A p \in Pages : PageTotals(c)[p] # 0 <=> p \in TouchedPages(c)
    /\ AccessesIn(c) = c.total

LEMMA AccessesAre ==
    ASSUME NEW c \in Counters, IsFiniteSet(TouchedPages(c))
    PROVE  /\ AccessesIn(c) = SumFunctionOnSet(PageTotals(c), TouchedPages(c))
           /\ \A p \in TouchedPages(c) : PageTotals(c)[p] \in Nat
  <1> DEFINE f == [p \in TouchedPages(c) |-> PageTotal(c, p)]
  <1>1. DOMAIN f = TouchedPages(c)
    OBVIOUS
  <1>2. AccessesIn(c) = SumFunctionOnSet(f, TouchedPages(c))
    BY <1>1 DEF AccessesIn, SumFunction
  <1>3. TouchedPages(c) \subseteq Pages
    BY DEF TouchedPages
  <1>4. c.reads \in [Pages -> Nat] /\ c.writes \in [Pages -> Nat]
    BY DEF Counters
  <1>5. \A p \in TouchedPages(c) : f[p] \in Nat /\ PageTotals(c)[p] = f[p]
    BY <1>3, <1>4 DEF PageTotals, PageTotal
  <1> HIDE DEF f
  <1> QED
    BY <1>2, <1>5, SumSame

LEMMA CountAccessWhole ==
    ASSUME NEW c, Whole(c), NEW line \in Lines, NEW type \in AccessType
    PROVE  Whole(CountAccess(c, line, type))
  <1> DEFINE n == CountAccess(c, line, type)
             page == PageOf(line)
  <1>1. c \in Counters
    BY DEF Whole
  <1>2. /\ n \in Counters /\ n.total = c.total + 1 /\ page \in Pages
        /\ PageTotals(c) \in [Pages -> Nat] /\ PageTotals(n) \in [Pages -> Nat]
        /\ \A p \in Pages : PageTotals(n)[p] = PageTotals(c)[p] + (IF p = page THEN 1 ELSE 0)
        /\ Touched(n) = Touched(c) \cup {line}
    BY <1>1, CountAccessFacts, PageOfLine
  <1> HIDE DEF n, page
  <1>3. TouchedPages(n) = TouchedPages(c) \cup {page}
    BY <1>2, PagesOfWords DEF page
  <1>4. IsFiniteSet(TouchedPages(c)) /\ IsFiniteSet(TouchedPages(n))
    BY <1>3, FS_AddElement DEF Whole
  <1>5. TouchedPages(c) \subseteq Pages
    BY DEF TouchedPages
  <1> DEFINE f == PageTotals(c)
             g == PageTotals(n)
             S == TouchedPages(c)
  <1>6. AccessesIn(c) = SumFunctionOnSet(f, S) /\ SumFunctionOnSet(f, S) = c.total
    BY <1>1, <1>4, AccessesAre DEF Whole
  <1>7. AccessesIn(n) = SumFunctionOnSet(g, S \cup {page})
    BY <1>2, <1>3, <1>4, AccessesAre
  <1>8. \A p \in Pages : f[p] # 0 <=> p \in S
    BY DEF Whole
  <1> HIDE DEF f, g, S
  <1>9. SumFunctionOnSet(g, S \cup {page}) = SumFunctionOnSet(f, S) + 1
    <2>1. IsFiniteSet(S) /\ S \subseteq Pages
      BY <1>4, <1>5 DEF S
    <2>2. /\ \A p \in Pages : f[p] \in Nat /\ g[p] \in Nat
          /\ \A p \in Pages : g[p] = f[p] + (IF p = page THEN 1 ELSE 0)
      BY <1>2 DEF f, g
    <2>3. \A p \in S : f[p] \in Nat /\ g[p] \in Nat
      BY <2>1, <2>2
    <2>4. CASE page \in S
      <3>1. g[page] = f[page] + 1 /\ \A p \in S \ {page} : g[p] = f[p]
        BY <2>1, <2>2, <2>4
      <3>2. SumFunctionOnSet(g, S) = SumFunctionOnSet(f, S) + 1
        BY <2>1, <2>3, <2>4, <3>1, SumChanged
      <3>3. S \cup {page} = S
        BY <2>4
      <3> QED
        BY <3>2, <3>3
    <2>5. CASE page \notin S
      <3>1. f[page] = 0 /\ g[page] = 1
        BY <1>2, <1>8, <2>2, <2>5
      <3>2. \A p \in S : g[p] = f[p]
        BY <2>1, <2>2, <2>5
      <3>3. SumFunctionOnSet(f, S) = SumFunctionOnSet(g, S)
        BY <2>1, <2>3, <3>2, SumSame
      <3>4. SumFunctionOnSet(g, S \cup {page}) = SumFunctionOnSet(g, S) + g[page]
        BY <2>1, <2>3, <2>5, <3>1, SumWith
      <3> QED
        BY <3>1, <3>3, <3>4
    <2> QED
      BY <2>4, <2>5
  <1>10. \A p \in Pages : PageTotals(n)[p] # 0 <=> p \in TouchedPages(n)
    BY <1>2, <1>3, <1>8 DEF f, S
  <1>11. AccessesIn(n) = n.total
    BY <1>2, <1>6, <1>7, <1>9
  <1>12. Whole(n)
    BY <1>2, <1>4, <1>10, <1>11 DEF Whole
  <1> QED
    BY <1>12 DEF n

\* The cleared counters fit together.
LEMMA EmptyWhole ==
    /\ Whole(EmptyCounters) /\ EmptyCounters.total = 0
    /\ Touched(EmptyCounters) = {} /\ TouchedPages(EmptyCounters) = {}
  <1>1. EmptyCounters \in Counters /\ EmptyCounters.total = 0
    BY CounterAssumption DEF EmptyCounters, Counters
  <1>2. Touched(EmptyCounters) = {} /\ TouchedPages(EmptyCounters) = {}
    BY DEF EmptyCounters, Touched, TouchedPages, WordsTouched
  <1>3. IsFiniteSet(TouchedPages(EmptyCounters))
    BY <1>2, FS_EmptySet
  <1>4. AccessesIn(EmptyCounters) = 0
    BY <1>1, <1>2, <1>3, AccessesAre, SumOfNone
  <1>5. \A p \in Pages : PageTotals(EmptyCounters)[p] = 0
    BY DEF EmptyCounters, PageTotals, PageTotal
  <1> QED
    BY <1>1, <1>2, <1>3, <1>4, <1>5 DEF Whole

\* Nothing was counted exactly if nothing was touched.
LEMMA UntouchedIsEmpty ==
    ASSUME NEW c, Whole(c)
    PROVE  c.total \in Nat /\ (c.total = 0 <=> TouchedPages(c) = {})
  <1>1. c \in Counters /\ IsFiniteSet(TouchedPages(c)) /\ c.total \in Nat
    BY DEF Whole, Counters
  <1>2. /\ c.total = SumFunctionOnSet(PageTotals(c), TouchedPages(c))
        /\ \A p \in TouchedPages(c) : PageTotals(c)[p] \in Nat
    BY <1>1, AccessesAre DEF Whole
  <1>3. TouchedPages(c) = {} => c.total = 0
    BY <1>2, SumOfNone
  <1>4. ASSUME NEW p \in TouchedPages(c)
        PROVE  c.total # 0
    <2>1. PageTotals(c)[p] \in Nat \ {0}
      BY <1>2 DEF Whole, TouchedPages
    <2>2. PICK T : T = TouchedPages(c) \ {p}
      OBVIOUS
    <2>3. IsFiniteSet(T) /\ \A q \in T : PageTotals(c)[q] \in Nat
      BY <1>1, <1>2, <2>2, FS_Subset
    <2>4. SumFunctionOnSet(PageTotals(c), T) \in Nat
      BY <2>3, SumInNat
    <2>5. c.total = PageTotals(c)[p] + SumFunctionOnSet(PageTotals(c), T)
      BY <1>1, <1>2, <2>2, SumTakesAny
    <2> QED
      BY <2>1, <2>4, <2>5
  <1> QED
    BY <1>1, <1>3, <1>4

-----------------------------------------------------------------------------
(***************************************************************************)
(* One LRU level, and one reference's way through the levels.               *)
(***************************************************************************)
\* The two access types.
LEMMA AccessTypes == "read" \in AccessType /\ "write" \in AccessType
  BY DEF AccessType

\* The level every run starts with is well formed.
LEMMA EmptyWellFormed ==
    ASSUME NEW g \in Geometry
    PROVE  WellFormed(g, EmptyLevel) /\ Resident(EmptyLevel) = {}
  BY DEF WellFormed, EmptyLevel, Level, Resident, Geometry

\* A miss displaces at most one line, and a hit none.
LEMMA OneVictim ==
    ASSUME NEW g \in Geometry, NEW c, WellFormed(g, c), NEW line \in Lines,
           NEW l \in Victims(g, c, line), NEW m \in Victims(g, c, line)
    PROVE  l = m
  BY LinesAssumption
     DEF Victims, Peers, WellFormed, Resident, Geometry, Level, SetIndex

(***************************************************************************)
(* After an access the level holds what it held, without the victim, and    *)
(* the accessed line.                                                       *)
(***************************************************************************)
LEMMA AccessResident ==
    ASSUME NEW g \in Geometry, NEW c, WellFormed(g, c), NEW line \in Lines,
           NEW type \in AccessType
    PROVE  Resident(Access(g, c, line, type).level)
             = (Resident(c) \ Victims(g, c, line)) \cup {line}
  <1> DEFINE after == RankAfter(g, c, line)
  <1>1. c.rank \in [Lines -> Nat]
    BY DEF WellFormed, Level
  <1>2. \A l \in Lines : after[l] # 0 <=>
            (l = line \/ (c.rank[l] # 0 /\ l \notin Victims(g, c, line)))
    BY <1>1 DEF RankAfter, Victims, Overtaken, Peers
  <1>3. Access(g, c, line, type).level.rank = after
    BY DEF Access
  <1>4. Resident(Access(g, c, line, type).level) = {l \in Lines : after[l] # 0}
    BY <1>3 DEF Resident
  <1>5. Victims(g, c, line) \subseteq Lines
    BY DEF Victims, Peers
  <1> QED
    BY <1>2, <1>4, <1>5 DEF Resident

(***************************************************************************)
(* The dirty lines: only a dirty line is written back; the only line whose  *)
(* dirty bit goes away is the one written back; a store, and nothing else,  *)
(* makes its own line dirty.                                                *)
(***************************************************************************)
LEMMA AccessDirty ==
    ASSUME NEW g \in Geometry, NEW c, WellFormed(g, c), NEW line \in Lines,
           NEW type \in AccessType
    PROVE  LET o == Access(g, c, line, type)
           IN  /\ o.wb \in Lines \cup {NoLine}
               /\ o.wb # NoLine => o.wb \in c.dirty /\ o.wb # line
               /\ c.dirty \subseteq o.level.dirty \cup {o.wb}
               /\ o.level.dirty \subseteq c.dirty \cup {line}
               /\ type = "write" => line \in o.level.dirty
               /\ type = "read" => o.level.dirty \subseteq c.dirty
  <1> DEFINE o == Access(g, c, line, type)
             dv == DirtyVictims(g, c, line)
  <1>1. c.dirty \subseteq Resident(c) /\ c.dirty \subseteq Lines
    BY DEF WellFormed, Level
  <1>2. o.level.dirty = DirtyAfter(g, c, line, type)
    BY DEF Access
  <1>3. dv \subseteq c.dirty /\ line \notin dv
    BY DEF DirtyVictims, Victims, Peers
  <1>4. \A l \in dv : \A m \in dv : l = m
    BY OneVictim DEF DirtyVictims
  <1>5. o.wb = IF dv = {} THEN NoLine ELSE CHOOSE l \in dv : TRUE
    BY DEF Access
  <1>6. dv # {} => o.wb \in dv /\ dv = {o.wb}
    <2>1. dv # {} => (CHOOSE l \in dv : TRUE) \in dv
      OBVIOUS
    <2> QED
      BY <2>1, <1>4, <1>5
  <1>7. o.wb # NoLine => o.wb \in dv
    BY <1>5, <1>6
  <1>8. c.rank[line] = 0 => line \notin c.dirty
    BY <1>1 DEF Resident
  <1>9. c.dirty \ dv \subseteq o.level.dirty
    BY <1>2, <1>8 DEF DirtyAfter, DirtyVictims
  <1>10. o.level.dirty \subseteq c.dirty \cup {line}
         /\ (type = "write" => line \in o.level.dirty)
         /\ (type = "read" => o.level.dirty \subseteq c.dirty)
    BY <1>2 DEF DirtyAfter
  <1>11. c.dirty \subseteq o.level.dirty \cup {o.wb}
    BY <1>6, <1>9
  <1>12. o.wb \in Lines \cup {NoLine}
    BY <1>1, <1>3, <1>7
  <1>13. o.wb # NoLine => o.wb \in c.dirty /\ o.wb # line
    BY <1>3, <1>7
  <1> QED
    BY <1>10, <1>11, <1>12, <1>13

\* An access leaves the level well formed.
LEMMA AccessWellFormed ==
    ASSUME NEW g \in Geometry, NEW c, WellFormed(g, c), NEW line \in Lines,
           NEW type \in AccessType
    PROVE  WellFormed(g, Access(g, c, line, type).level)
  <1> DEFINE o == Access(g, c, line, type)
             r == RankAfter(g, c, line)
             vs == Victims(g, c, line)
             ov == Overtaken(g, c, line)
  <1>1. /\ c.rank \in [Lines -> Nat] /\ c.dirty \subseteq Resident(c)
        /\ \A l \in Lines : c.rank[l] <= g.assoc
        /\ g.assoc \in Nat \ {0} /\ g.sets \in Nat \ {0}
    BY DEF WellFormed, Level, Geometry
  <1>2. /\ o.level = [rank |-> r, dirty |-> DirtyAfter(g, c, line, type)]
        /\ o.level.rank = r /\ o.level.dirty = DirtyAfter(g, c, line, type)
    BY DEF Access
  <1>3. r \in [Lines -> Nat]
    BY <1>1 DEF RankAfter
  <1>4. o.level.dirty \subseteq Lines
    BY <1>1, <1>2 DEF DirtyAfter, Resident
  <1>5. o.level \in Level
    BY <1>2, <1>3, <1>4 DEF Level
  <1>6. o.level.dirty \subseteq Resident(o.level)
    <2>1. Resident(o.level) = (Resident(c) \ vs) \cup {line}
      BY AccessResident
    <2>2. DirtyAfter(g, c, line, type) \subseteq (c.dirty \ vs) \cup {line}
      BY DEF DirtyAfter
    <2> QED
      BY <1>1, <1>2, <2>1, <2>2
  <1> DEFINE inSet(x) == SetIndex(g, x) = SetIndex(g, line)
  <1>7. \A x \in Lines : x \in vs <=>
            x # line /\ inSet(x) /\ c.rank[line] = 0 /\ c.rank[x] = g.assoc
    BY DEF Victims, Peers
  <1>8. \A x \in Lines : x \in ov <=>
            /\ x # line /\ inSet(x) /\ c.rank[x] # 0
            /\ c.rank[line] = 0 \/ c.rank[x] < c.rank[line]
    BY DEF Overtaken, Peers
  <1>9. \A x \in Lines : r[x] = IF x = line THEN 1 ELSE IF x \in vs THEN 0
                                ELSE IF x \in ov THEN c.rank[x] + 1
                                ELSE c.rank[x]
    BY DEF RankAfter
  <1> HIDE DEF o, r, vs, ov, inSet
  <1>10. \A l \in Lines : r[l] <= g.assoc
    <2> TAKE l \in Lines
    <2>1. c.rank[l] \in Nat /\ c.rank[line] \in Nat /\ g.assoc \in Nat \ {0}
          /\ c.rank[l] <= g.assoc /\ c.rank[line] <= g.assoc
      BY <1>1
    <2>2. CASE l = line
      BY <1>9, <2>1, <2>2
    <2>3. CASE l # line /\ l \in vs
      BY <1>9, <2>1, <2>3
    <2>4. CASE l # line /\ l \notin vs /\ l \in ov
      BY <1>7, <1>8, <1>9, <2>1, <2>4
    <2>5. CASE l # line /\ l \notin vs /\ l \notin ov
      BY <1>9, <2>1, <2>5
    <2> QED
      BY <2>2, <2>3, <2>4, <2>5
  <1>11. ASSUME NEW l \in Lines, NEW m \in Lines, r[l] # 0, r[m] # 0,
               SetIndex(g, l) = SetIndex(g, m), r[l] = r[m]
        PROVE  l = m
    <2>1. c.rank[l] # 0 /\ c.rank[m] # 0 /\ c.rank[l] = c.rank[m] => l = m
      BY <1>11 DEF WellFormed, Resident, inSet
    <2>2. c.rank[line] # 0 /\ inSet(l) /\ c.rank[l] = c.rank[line] => l = line
      BY <1>11 DEF WellFormed, Resident, inSet
    <2>3. c.rank[line] # 0 /\ inSet(m) /\ c.rank[m] = c.rank[line] => m = line
      BY <1>11 DEF WellFormed, Resident, inSet
    <2>4. inSet(l) <=> inSet(m)
      BY <1>11 DEF inSet
    <2>5. CASE l = line \/ m = line
      BY <2>5, <1>7, <1>8, <1>9, <2>2, <2>3, <2>4, <1>1, <1>11 DEF inSet
    <2>6. CASE l # line /\ m # line
      BY <2>6, <1>7, <1>8, <1>9, <2>1, <2>2, <2>3, <2>4, <1>1, <1>11 DEF inSet
    <2> QED
      BY <2>5, <2>6
  <1> QED
    BY <1>2, <1>5, <1>6, <1>10, <1>11 DEF WellFormed, Resident, o

--------------------------------------------------------------------------------
(* The private and the shared levels.                                         *)

\* The writeback of L1's or L2's victim, if there is one, into a lower level.
LEMMA WriteBackFacts ==
    ASSUME NEW g \in Geometry, NEW c, WellFormed(g, c), NEW wb \in LineOrNone
    PROVE  LET o == WriteBack(g, c, wb)
           IN  /\ WellFormed(g, o.level)
               /\ Resident(o.level) \subseteq Resident(c) \cup ({wb} \ {NoLine})
               /\ o.wb \in LineOrNone
               /\ o.wb # NoLine => o.wb \in c.dirty
               /\ c.dirty \subseteq o.level.dirty \cup {o.wb}
               /\ o.level.dirty \subseteq c.dirty \cup ({wb} \ {NoLine})
               /\ wb # NoLine => wb \in o.level.dirty
  <1>1. CASE wb = NoLine
    BY <1>1 DEF WriteBack, LineOrNone
  <1>2. CASE wb # NoLine
    <2>1. wb \in Lines
      BY <1>2 DEF LineOrNone
    <2>2. WriteBack(g, c, wb) = Access(g, c, wb, "write")
      BY <1>2 DEF WriteBack
    <2>3. WellFormed(g, Access(g, c, wb, "write").level)
      BY <2>1, AccessTypes, AccessWellFormed
    <2>4. Resident(Access(g, c, wb, "write").level) \subseteq Resident(c) \cup {wb}
      BY <2>1, AccessTypes, AccessResident
    <2> QED
      BY <1>2, <2>1, <2>2, <2>3, <2>4, AccessTypes, AccessDirty DEF LineOrNone
  <1> QED
    BY <1>1, <1>2

(***************************************************************************)
(* accessPrivate keeps both levels well formed, brings in only the demanded *)
(* line, reports a hit only for a line one of them held, and hands down     *)
(* every dirty line that leaves them.                                       *)
(***************************************************************************)
LEMMA PrivateFacts ==
    ASSUME NEW c1, WellFormed(GeomL1, c1), NEW c2, WellFormed(GeomL2, c2),
           NEW line \in Lines, NEW type \in AccessType
    PROVE  LET p == AccessPrivate(c1, c2, line, type)
               out == {p.r.eviction, p.r.demand} \ {NoLine}
           IN  /\ WellFormed(GeomL1, p.l1) /\ WellFormed(GeomL2, p.l2)
               /\ p.r \in PrivateResult
               /\ Resident(p.l1) \subseteq Resident(c1) \cup {line}
               /\ Resident(p.l2) \subseteq Resident(c1) \cup Resident(c2) \cup {line}
               /\ out \subseteq Resident(c1) \cup Resident(c2)
               /\ ~p.r.miss => line \in Resident(c1) \cup Resident(c2)
               /\ c1.dirty \cup c2.dirty \subseteq p.l1.dirty \cup p.l2.dirty \cup out
               /\ out \subseteq c1.dirty \cup c2.dirty
  <1> DEFINE first    == Access(GeomL1, c1, line, type)
             eviction == WriteBack(GeomL2, c2, first.wb)
             demand   == Access(GeomL2, eviction.level, line, "read")
             p        == AccessPrivate(c1, c2, line, type)
  <1>0. GeomL1 \in Geometry /\ GeomL2 \in Geometry /\ GeomLLC \in Geometry
    BY GeometryAssumption
  <1>1. /\ WellFormed(GeomL1, first.level)
        /\ Resident(first.level) \subseteq Resident(c1) \cup {line}
    BY <1>0, AccessTypes, AccessWellFormed, AccessResident
  <1>2. /\ first.wb \in LineOrNone
        /\ first.wb # NoLine => first.wb \in c1.dirty
        /\ c1.dirty \subseteq first.level.dirty \cup {first.wb}
    BY <1>0, AccessTypes, AccessDirty DEF LineOrNone
  <1>3. /\ c1.dirty \subseteq Resident(c1) /\ c2.dirty \subseteq Resident(c2)
        /\ NoLine \notin c1.dirty /\ NoLine \notin c2.dirty
        /\ NoLine \notin Lines
    BY LinesAssumption DEF WellFormed, Resident, NoLine
  <1>4. first.hit => line \in Resident(c1)
    BY DEF Access, Resident
  <1>5. /\ WellFormed(GeomL2, eviction.level)
        /\ Resident(eviction.level) \subseteq Resident(c2) \cup ({first.wb} \ {NoLine})
        /\ eviction.wb \in LineOrNone
        /\ eviction.wb # NoLine => eviction.wb \in c2.dirty
        /\ c2.dirty \subseteq eviction.level.dirty \cup {eviction.wb}
        /\ eviction.level.dirty \subseteq c2.dirty \cup ({first.wb} \ {NoLine})
        /\ first.wb # NoLine => first.wb \in eviction.level.dirty
    BY <1>0, <1>2, WriteBackFacts
  <1>6. /\ WellFormed(GeomL2, demand.level)
        /\ Resident(demand.level) \subseteq Resident(eviction.level) \cup {line}
    BY <1>0, <1>5, AccessTypes, AccessWellFormed, AccessResident
  <1>7. /\ demand.wb \in LineOrNone
        /\ demand.wb # NoLine => demand.wb \in eviction.level.dirty
        /\ eviction.level.dirty \subseteq demand.level.dirty \cup {demand.wb}
    BY <1>0, <1>5, AccessTypes, AccessDirty DEF LineOrNone
  <1>8. demand.hit => line \in Resident(eviction.level)
    BY DEF Access, Resident
  <1>9. p = IF first.hit
            THEN [l1 |-> first.level, l2 |-> c2, r |-> NoResult]
            ELSE [l1 |-> first.level, l2 |-> demand.level,
                  r  |-> [eviction |-> eviction.wb, demand |-> demand.wb,
                          miss |-> ~demand.hit]]
    BY DEF AccessPrivate
  <1>10. demand.hit \in BOOLEAN /\ first.hit \in BOOLEAN
    BY DEF Access
  <1> HIDE DEF first, eviction, demand, p
  <1>11. CASE first.hit
    <2>1. /\ p.l1 = first.level /\ p.l2 = c2 /\ p.r = NoResult
          /\ p.r.eviction = NoLine /\ p.r.demand = NoLine /\ p.r.miss = FALSE
      BY <1>9, <1>11 DEF NoResult
    <2>2. p.r \in PrivateResult
      BY <2>1 DEF NoResult, PrivateResult, LineOrNone
    <2>3. first.wb = NoLine
      <3>1. line \in Resident(c1)
        BY <1>4, <1>11
      <3>2. Victims(GeomL1, c1, line) = {}
        BY <3>1 DEF Victims, Resident
      <3> QED
        BY <3>2 DEF first, Access, DirtyVictims
    <2> QED
      BY <1>1, <1>2, <1>3, <1>4, <1>11, <2>1, <2>2, <2>3 DEF p
  <1>12. CASE ~first.hit
    <2>1. /\ p.l1 = first.level /\ p.l2 = demand.level
          /\ p.r.eviction = eviction.wb /\ p.r.demand = demand.wb
          /\ p.r.miss = ~demand.hit
          /\ p.r \in PrivateResult
      BY <1>5, <1>7, <1>9, <1>10, <1>12 DEF PrivateResult
    <2>2. first.wb # NoLine => first.wb \in Resident(c1)
      BY <1>2, <1>3
    <2> DEFINE out == {p.r.eviction, p.r.demand} \ {NoLine}
    <2>3. out \subseteq c1.dirty \cup c2.dirty
      BY <1>2, <1>5, <1>7, <2>1
    <2>4. c1.dirty \cup c2.dirty \subseteq p.l1.dirty \cup p.l2.dirty \cup out
      <3> SUFFICES ASSUME NEW l \in c1.dirty \cup c2.dirty
                   PROVE  l \in p.l1.dirty \cup p.l2.dirty \cup out
        OBVIOUS
      <3>1. l # NoLine
        BY <1>3
      <3>2. l \in {eviction.wb, demand.wb} => l \in out
        BY <2>1, <3>1
      <3> HIDE DEF out
      <3> QED
        BY <1>2, <1>5, <1>7, <2>1, <3>1, <3>2
    <2>5. Resident(p.l2) \subseteq Resident(c1) \cup Resident(c2) \cup {line}
      BY <1>5, <1>6, <2>1, <2>2
    <2>6. ~p.r.miss => line \in Resident(c1) \cup Resident(c2)
      BY <1>5, <1>8, <1>10, <2>1, <2>2
    <2>7. out \subseteq Resident(c1) \cup Resident(c2)
      BY <1>3, <2>3
    <2> HIDE DEF out
    <2> QED
      BY <1>1, <1>6, <2>1, <2>3, <2>4, <2>5, <2>6, <2>7 DEF p, out
  <1> QED
    BY <1>10, <1>11, <1>12

(***************************************************************************)
(* accessShared brings into the LLC only lines it was handed or demanded;   *)
(* it fills exactly when neither level below held the line; every dirty     *)
(* line that leaves it is written to memory, and only such lines are.       *)
(***************************************************************************)
LEMMA SharedFacts ==
    ASSUME NEW c, WellFormed(GeomLLC, c), NEW line \in Lines,
           NEW r \in PrivateResult
    PROVE  LET s == AccessShared(c, line, r)
               in == {r.eviction, r.demand} \ {NoLine}
               out == {s.writes[i] : i \in 1..3} \ {NoLine}
           IN  /\ WellFormed(GeomLLC, s.llc)
               /\ Resident(s.llc) \subseteq Resident(c) \cup in
                        \cup (IF r.miss THEN {line} ELSE {})
               /\ s.writes \in [1..3 -> LineOrNone]
               /\ s.fill \in {line, NoLine}
               /\ s.fill = line => r.miss
               /\ s.fill = NoLine /\ r.miss => line \in Resident(c) \cup in
               /\ c.dirty \cup in \subseteq s.llc.dirty \cup out
               /\ out \subseteq c.dirty \cup in
  <1> DEFINE first  == WriteBack(GeomLLC, c, r.eviction)
             second == WriteBack(GeomLLC, first.level, r.demand)
             fill   == IF r.miss THEN Access(GeomLLC, second.level, line, "read")
                       ELSE [level |-> second.level, hit |-> TRUE, wb |-> NoLine]
             s      == AccessShared(c, line, r)
  <1>0. /\ GeomLLC \in Geometry
        /\ r.eviction \in LineOrNone /\ r.demand \in LineOrNone /\ r.miss \in BOOLEAN
        /\ NoLine \notin Lines
    BY GeometryAssumption, LinesAssumption DEF PrivateResult, NoLine
  <1>1. /\ WellFormed(GeomLLC, first.level)
        /\ Resident(first.level) \subseteq Resident(c) \cup ({r.eviction} \ {NoLine})
        /\ first.wb \in LineOrNone
        /\ first.wb # NoLine => first.wb \in c.dirty
        /\ c.dirty \subseteq first.level.dirty \cup {first.wb}
        /\ first.level.dirty \subseteq c.dirty \cup ({r.eviction} \ {NoLine})
        /\ r.eviction # NoLine => r.eviction \in first.level.dirty
    BY <1>0, WriteBackFacts
  <1>2. /\ WellFormed(GeomLLC, second.level)
        /\ Resident(second.level) \subseteq
               Resident(first.level) \cup ({r.demand} \ {NoLine})
        /\ second.wb \in LineOrNone
        /\ second.wb # NoLine => second.wb \in first.level.dirty
        /\ first.level.dirty \subseteq second.level.dirty \cup {second.wb}
        /\ second.level.dirty \subseteq first.level.dirty \cup ({r.demand} \ {NoLine})
        /\ r.demand # NoLine => r.demand \in second.level.dirty
    BY <1>0, <1>1, WriteBackFacts
  <1>3. /\ WellFormed(GeomLLC, fill.level)
        /\ Resident(fill.level) \subseteq
               Resident(second.level) \cup (IF r.miss THEN {line} ELSE {})
        /\ fill.wb \in LineOrNone
        /\ fill.wb # NoLine => fill.wb \in second.level.dirty
        /\ second.level.dirty \subseteq fill.level.dirty \cup {fill.wb}
        /\ fill.level.dirty \subseteq second.level.dirty
        /\ fill.hit /\ r.miss => line \in Resident(second.level)
        /\ ~r.miss => fill.hit
    <2>1. CASE r.miss
      <3> DEFINE o == Access(GeomLLC, second.level, line, "read")
      <3>1. fill = o
        BY <2>1
      <3>2. WellFormed(GeomLLC, o.level)
            /\ Resident(o.level) \subseteq Resident(second.level) \cup {line}
        BY <1>0, <1>2, AccessTypes, AccessWellFormed, AccessResident
      <3>3. /\ o.wb \in LineOrNone
            /\ o.wb # NoLine => o.wb \in second.level.dirty
            /\ second.level.dirty \subseteq o.level.dirty \cup {o.wb}
            /\ o.level.dirty \subseteq second.level.dirty
        BY <1>0, <1>2, AccessTypes, AccessDirty DEF LineOrNone
      <3>4. o.hit => line \in Resident(second.level)
        BY DEF Access, Resident
      <3> HIDE DEF o, fill
      <3> QED
        BY <2>1, <3>1, <3>2, <3>3, <3>4
    <2>2. CASE ~r.miss
      <3>1. fill.level = second.level /\ fill.hit = TRUE /\ fill.wb = NoLine
        BY <2>2
      <3> HIDE DEF fill
      <3> QED
        BY <2>2, <3>1, <1>2 DEF LineOrNone
    <2> QED
      BY <2>1, <2>2
  <1>4. /\ s.llc = fill.level
        /\ s.writes = <<first.wb, second.wb, fill.wb>>
        /\ s.fill = IF fill.hit THEN NoLine ELSE line
    BY DEF AccessShared
  <1> HIDE DEF first, second, fill, s
  <1>5. /\ s.writes[1] = first.wb /\ s.writes[2] = second.wb /\ s.writes[3] = fill.wb
        /\ s.writes \in [1..3 -> LineOrNone]
    BY <1>1, <1>2, <1>3, <1>4
  <1>6. {s.writes[i] : i \in 1..3} = {first.wb, second.wb, fill.wb}
    BY <1>5
  <1> DEFINE in == {r.eviction, r.demand} \ {NoLine}
             out == {s.writes[i] : i \in 1..3} \ {NoLine}
  <1>7. out = {first.wb, second.wb, fill.wb} \ {NoLine}
    BY <1>6
  <1>8. Resident(s.llc) \subseteq Resident(c) \cup in
                        \cup (IF r.miss THEN {line} ELSE {})
    BY <1>1, <1>2, <1>3, <1>4
  <1>9. NoLine \notin c.dirty
    BY <1>0 DEF WellFormed, Resident
  <1>10. c.dirty \cup in \subseteq s.llc.dirty \cup out
    <2> SUFFICES ASSUME NEW l \in c.dirty \cup in PROVE l \in s.llc.dirty \cup out
      OBVIOUS
    <2>1. l # NoLine
      BY <1>9
    <2>2. l \in {first.wb, second.wb, fill.wb} => l \in out
      BY <1>7, <2>1
    <2> HIDE DEF out
    <2> QED
      BY <1>1, <1>2, <1>3, <1>4, <2>1, <2>2
  <1>11. out \subseteq c.dirty \cup in
    BY <1>1, <1>2, <1>3, <1>7
  <1>12. s.fill \in {line, NoLine} /\ (s.fill = line => r.miss)
    BY <1>0, <1>3, <1>4
  <1>13. s.fill = NoLine /\ r.miss => line \in Resident(c) \cup in
    BY <1>0, <1>1, <1>2, <1>3, <1>4
  <1> HIDE DEF in, out
  <1> QED
    BY <1>3, <1>4, <1>5, <1>8, <1>10, <1>11, <1>12, <1>13 DEF in, out, s
=============================================================================
