------------------------- MODULE VerificationProofs -------------------------
(***************************************************************************)
(* Proofs about the verification of a solution, for every problem and      *)
(* every solution that its schema lets through: it tells what solves the   *)
(* problem from what does not.  The sums, orders, folds and distances that *)
(* the models are built from come first.                                   *)
(***************************************************************************)
EXTENDS SolveService, FiniteSetTheorems, NaturalsInduction, SequenceTheorems,
        WellFoundedInduction, TLAPS

-----------------------------------------------------------------------------
(* Sums over finite sets: they do not depend on the order in which the     *)
(* elements are taken.                                                     *)

(* A set of naturals has a least element.                                  *)
LEMMA LeastNatural ==
    ASSUME NEW S, S \subseteq Nat, S # {}
    PROVE  \E n \in S : \A m \in S : n <= m
PROOF
  <1>1. \E n \in S : \A m \in S : ~(<<m, n>> \in OpToRel(<, Nat))
    BY NatLessThanWellFounded, WFMin
  <1>2. PICK n \in S : \A m \in S : ~(<<m, n>> \in OpToRel(<, Nat))
    BY <1>1
  <1>3. ASSUME NEW m \in S PROVE n <= m
    <2>1. <<m, n>> \notin OpToRel(<, Nat)
      BY <1>2
    <2>2. n \in Nat /\ m \in Nat
      OBVIOUS
    <2>3. ~(m < n)
      BY <2>1, <2>2 DEF OpToRel
    <2> QED
      BY <2>2, <2>3
  <1> QED
    BY <1>3

(* Of the subsets of a finite set that have a property, one has no proper  *)
(* subset that has it too.                                                 *)
LEMMA SmallestSubset ==
    ASSUME NEW S, IsFiniteSet(S), NEW Bad, Bad \subseteq SUBSET S, Bad # {}
    PROVE  \E T \in Bad : \A U \in SUBSET T : U # T => U \notin Bad
PROOF
  <1>1. \A T \in Bad : IsFiniteSet(T) /\ Cardinality(T) \in Nat
    BY FS_Subset, FS_CardinalityType
  <1>2. {Cardinality(T) : T \in Bad} \subseteq Nat /\ {Cardinality(T) : T \in Bad} # {}
    BY <1>1
  <1>3. PICK n \in {Cardinality(T) : T \in Bad} : \A m \in {Cardinality(T) : T \in Bad} : n <= m
    BY <1>2, LeastNatural, Zenon
  <1>4. PICK T \in Bad : \A U \in Bad : Cardinality(T) <= Cardinality(U)
    BY <1>3
  <1>5. ASSUME NEW U \in SUBSET T, U # T PROVE U \notin Bad
    <2>1. Cardinality(U) <= Cardinality(T) /\ Cardinality(U) # Cardinality(T)
      BY <1>1, <1>5, FS_Subset
    <2> QED
      BY <1>1, <1>4, <2>1
  <1> QED
    BY <1>4, <1>5

(* A set of naturals that has 0 and, with a natural, the next one, has all *)
(* of them.                                                                *)
LEMMA AllNaturals ==
    ASSUME NEW Good, 0 \in Good, \A n \in Nat : n \in Good => n + 1 \in Good
    PROVE  Nat \subseteq Good
PROOF
  <1>1. SUFFICES ASSUME Nat \ Good # {} PROVE FALSE
    OBVIOUS
  <1>2. PICK n \in Nat \ Good : \A m \in Nat \ Good : n <= m
    BY <1>1, LeastNatural
  <1>3. n - 1 \in Nat /\ n - 1 \in Good
    BY <1>2
  <1> QED
    BY <1>2, <1>3

-----------------------------------------------------------------------------
(* The function from which a sum is read.                                  *)
IsSum(sum, f, S) ==
    sum = [T \in SUBSET S |-> IF T = {} THEN 0
                              ELSE f[CHOOSE x \in T : TRUE] + sum[T \ {CHOOSE x \in T : TRUE}]]

(* The library's sum over a set is one of these.                           *)
LEMMA SumDef ==
    ASSUME NEW f, NEW S
    PROVE  SumFunctionOnSet(f, S) = (CHOOSE sum : IsSum(sum, f, S))[S]
BY DEF SumFunctionOnSet, FoldFunctionOnSet, MapThenFoldSet, IsSum

(* There is such a function: it is built up by the size of the subsets.    *)
LEMMA SumExists ==
    ASSUME NEW f, NEW S, IsFiniteSet(S)
    PROVE  \E sum : IsSum(sum, f, S)
PROOF
  <1> DEFINE Small(n) == {T \in SUBSET S : Cardinality(T) <= n}
             First(T) == CHOOSE x \in T : TRUE
             SumsUp(sum, n) == sum = [T \in Small(n) |-> IF T = {} THEN 0 ELSE f[First(T)] + sum[T \ {First(T)}]]
             Good == {n \in Nat : \E sum : SumsUp(sum, n)}
  <1>1. \A T \in SUBSET S : /\ IsFiniteSet(T) /\ Cardinality(T) \in Nat
                            /\ Cardinality(T) = 0 <=> T = {}
                            /\ Cardinality(T) <= Cardinality(S)
    BY FS_Subset, FS_CardinalityType, FS_EmptySet
  <1>2. ASSUME NEW T \in SUBSET S, T # {}
        PROVE  T \ {First(T)} \in SUBSET S /\ Cardinality(T \ {First(T)}) = Cardinality(T) - 1
    <2>1. First(T) \in T
      BY <1>2
    <2> QED
      BY <1>1, <2>1, FS_RemoveElement
  <1>3. 0 \in Good
    <2>1. SumsUp([T \in Small(0) |-> 0], 0)
      <3>1. \A T \in Small(0) : T = {}
        BY <1>1
      <3> QED
        BY <3>1
    <2> QED
      BY <2>1
  <1>4. ASSUME NEW n \in Nat, n \in Good PROVE n + 1 \in Good
    <2>1. PICK sum : SumsUp(sum, n)
      BY <1>4
    <2> DEFINE more == [T \in Small(n + 1) |-> IF T = {} THEN 0 ELSE f[First(T)] + sum[T \ {First(T)}]]
    <2>2. ASSUME NEW T \in Small(n + 1), T # {} PROVE T \ {First(T)} \in Small(n)
      BY <1>1, <1>2, <2>2
    <2>3. ASSUME NEW T \in Small(n) PROVE T \in Small(n + 1) /\ more[T] = sum[T]
      <3>1. T \in Small(n + 1)
        BY <1>1
      <3> QED
        BY <2>1, <3>1
    <2>4. SumsUp(more, n + 1)
      <3>1. \A T \in Small(n + 1) : T # {} => more[T \ {First(T)}] = sum[T \ {First(T)}]
        BY <2>2, <2>3
      <3> HIDE DEF First, Small
      <3> QED
        BY <3>1
    <2> HIDE DEF SumsUp
    <2> QED
      BY <2>4
  <1>5. Cardinality(S) \in Nat
    BY FS_CardinalityType
  <1>6. Cardinality(S) \in Good
    <2> HIDE DEF Good
    <2> QED
      BY <1>3, <1>4, <1>5, AllNaturals
  <1>7. Small(Cardinality(S)) = SUBSET S
    BY <1>1
  <1>8. PICK sum : SumsUp(sum, Cardinality(S))
    BY <1>6
  <1> QED
    BY <1>7, <1>8 DEF IsSum

(* The sums of functions that agree are the same, whatever else they have. *)
LEMMA SumsAgree ==
    ASSUME NEW f, NEW S, NEW sum, IsSum(sum, f, S),
           NEW g, NEW R, NEW rest, IsSum(rest, g, R),
           NEW T, IsFiniteSet(T), T \subseteq S, T \subseteq R, \A x \in T : f[x] = g[x]
    PROVE  sum[T] = rest[T]
PROOF
  <1> DEFINE Bad == {U \in SUBSET T : sum[U] # rest[U]}
  <1>1. SUFFICES ASSUME Bad # {} PROVE FALSE
    OBVIOUS
  <1>2. PICK U \in Bad : \A V \in SUBSET U : V # U => V \notin Bad
    <2> HIDE DEF Bad
    <2>1. Bad \subseteq SUBSET T
      BY DEF Bad
    <2> QED
      BY <1>1, <2>1, SmallestSubset
  <1>3. U # {}
    BY DEF IsSum
  <1>4. PICK c : c = (CHOOSE x \in U : TRUE)
    OBVIOUS
  <1>5. c \in U
    BY <1>3, <1>4
  <1>6. sum[U] = f[c] + sum[U \ {c}] /\ rest[U] = g[c] + rest[U \ {c}]
    BY <1>3, <1>4, SMTT(30) DEF IsSum
  <1>7. sum[U \ {c}] = rest[U \ {c}]
    BY <1>2, <1>5
  <1> QED
    BY <1>2, <1>5, <1>6, <1>7

(* Any element may be taken first.                                         *)
LEMMA SumSteps ==
    ASSUME NEW S, IsFiniteSet(S), NEW f, \A x \in S : f[x] \in Int, NEW sum, IsSum(sum, f, S),
           NEW T \in SUBSET S
    PROVE  sum[T] \in Int /\ \A x \in T : sum[T] = f[x] + sum[T \ {x}]
PROOF
  <1> DEFINE Bad == {U \in SUBSET S : ~(sum[U] \in Int /\ \A x \in U : sum[U] = f[x] + sum[U \ {x}])}
  <1>1. SUFFICES ASSUME Bad # {} PROVE FALSE
    OBVIOUS
  <1>2. PICK U \in Bad : \A V \in SUBSET U : V # U => V \notin Bad
    <2> HIDE DEF Bad
    <2>1. Bad \subseteq SUBSET S
      BY DEF Bad
    <2> QED
      BY <1>1, <2>1, SmallestSubset
  <1>3. U # {}
    <2>1. U = {} => sum[U] = 0
      BY DEF IsSum
    <2> QED
      BY <1>2, <2>1
  <1>4. PICK c : c = (CHOOSE x \in U : TRUE)
    OBVIOUS
  <1>5. c \in U /\ U \subseteq S
    BY <1>3, <1>4
  <1>6. sum[U] = f[c] + sum[U \ {c}]
    BY <1>3, <1>4, <1>5 DEF IsSum
  <1>7. \A V \in SUBSET U : V # U => sum[V] \in Int /\ \A x \in V : sum[V] = f[x] + sum[V \ {x}]
    BY <1>2, <1>5
  <1>8. sum[U \ {c}] \in Int /\ f[c] \in Int
    BY <1>5, <1>7
  <1>9. ASSUME NEW x \in U, x # c PROVE sum[U] = f[x] + sum[U \ {x}]
    <2>1. sum[U \ {c}] = f[x] + sum[(U \ {c}) \ {x}]
      BY <1>5, <1>7, <1>9
    <2>2. sum[U \ {x}] = f[c] + sum[(U \ {x}) \ {c}]
      BY <1>5, <1>7, <1>9
    <2>3. (U \ {c}) \ {x} = (U \ {x}) \ {c}
      OBVIOUS
    <2>4. sum[(U \ {x}) \ {c}] \in Int /\ f[x] \in Int
      BY <1>5, <1>7, <1>9
    <2>5. sum[U \ {c}] = f[x] + sum[(U \ {x}) \ {c}]
      BY <2>1, <2>3
    <2> QED
      BY <1>6, <1>8, <2>2, <2>4, <2>5
  <1>10. \A x \in U : sum[U] = f[x] + sum[U \ {x}]
    BY <1>6, <1>9
  <1>11. sum[U] \in Int
    BY <1>6, <1>8
  <1> QED
    BY <1>2, <1>10, <1>11

-----------------------------------------------------------------------------
(* What holds of the empty set and still holds when an element is added to *)
(* a subset holds of every subset of a finite set.                         *)
LEMMA SetInduction ==
    ASSUME NEW S, IsFiniteSet(S), NEW Good, {} \in Good,
           \A T \in SUBSET S : \A x \in S \ T : T \in Good => T \cup {x} \in Good
    PROVE  SUBSET S \subseteq Good
PROOF
  <1> DEFINE Bad == (SUBSET S) \ Good
  <1>1. SUFFICES ASSUME Bad # {} PROVE FALSE
    OBVIOUS
  <1>2. PICK T \in Bad : \A U \in SUBSET T : U # T => U \notin Bad
    <2>1. Bad \subseteq SUBSET S
      OBVIOUS
    <2> HIDE DEF Bad
    <2> QED
      BY <1>1, <2>1, SmallestSubset
  <1>3. PICK x \in T : TRUE
    BY <1>2
  <1>4. T \ {x} \in Good
    BY <1>2, <1>3
  <1>5. (T \ {x}) \cup {x} = T /\ T \ {x} \in SUBSET S /\ x \in S \ (T \ {x})
    BY <1>2, <1>3
  <1> QED
    BY <1>2, <1>4, <1>5

(* Nothing sums up to 0.                                                   *)
LEMMA SumOfNothing ==
    ASSUME NEW f
    PROVE  SumFunctionOnSet(f, {}) = 0
PROOF
  <1>1. IsSum((CHOOSE sum : IsSum(sum, f, {})), f, {})
    BY SumExists, FS_EmptySet
  <1> QED
    BY <1>1, SumDef DEF IsSum

(* Only the summands of the set count.                                     *)
LEMMA SumAgrees ==
    ASSUME NEW S, IsFiniteSet(S), NEW f, NEW g, \A x \in S : f[x] = g[x]
    PROVE  SumFunctionOnSet(f, S) = SumFunctionOnSet(g, S)
PROOF
  <1>1. IsSum((CHOOSE sum : IsSum(sum, f, S)), f, S) /\ IsSum((CHOOSE sum : IsSum(sum, g, S)), g, S)
    BY SumExists
  <1> QED
    BY <1>1, SumDef, SumsAgree

(* A sum of integers is one, and any of them may be taken first.           *)
LEMMA SumTakes ==
    ASSUME NEW S, IsFiniteSet(S), NEW f, \A x \in S : f[x] \in Int
    PROVE  /\ SumFunctionOnSet(f, S) \in Int
           /\ \A x \in S : SumFunctionOnSet(f, S) = f[x] + SumFunctionOnSet(f, S \ {x})
PROOF
  <1> DEFINE sum == CHOOSE sum : IsSum(sum, f, S)
  <1>1. IsSum(sum, f, S)
    BY SumExists
  <1>2. SumFunctionOnSet(f, S) = sum[S]
    BY SumDef
  <1>3. ASSUME NEW x \in S PROVE SumFunctionOnSet(f, S \ {x}) = sum[S \ {x}]
    <2>1. IsFiniteSet(S \ {x})
      BY FS_Subset
    <2>2. IsSum((CHOOSE rest : IsSum(rest, f, S \ {x})), f, S \ {x})
      BY <2>1, SumExists
    <2> HIDE DEF sum
    <2>3. (CHOOSE rest : IsSum(rest, f, S \ {x}))[S \ {x}] = sum[S \ {x}]
      BY <1>1, <2>1, <2>2, SumsAgree
    <2> QED
      BY <2>3, SumDef
  <1> HIDE DEF sum
  <1>4. S \in SUBSET S
    OBVIOUS
  <1>5. \A T \in SUBSET S : sum[T] \in Int /\ \A x \in T : sum[T] = f[x] + sum[T \ {x}]
    BY <1>1, SumSteps
  <1>6. sum[S] \in Int /\ \A x \in S : sum[S] = f[x] + sum[S \ {x}]
    BY <1>4, <1>5
  <1> QED
    BY <1>2, <1>3, <1>6

(* One more summand adds to the sum.                                       *)
LEMMA SumAdds ==
    ASSUME NEW S, IsFiniteSet(S), NEW x, x \notin S, NEW f, \A y \in S \cup {x} : f[y] \in Int
    PROVE  SumFunctionOnSet(f, S \cup {x}) = f[x] + SumFunctionOnSet(f, S)
PROOF
  <1>1. IsFiniteSet(S \cup {x}) /\ x \in S \cup {x} /\ (S \cup {x}) \ {x} = S
    BY FS_AddElement
  <1> QED
    BY <1>1, SumTakes

(* Amounts that are no smaller give a sum that is none.                    *)
LEMMA SumsCompare ==
    ASSUME NEW S, IsFiniteSet(S), NEW f, NEW g,
           \A x \in S : f[x] \in Int /\ g[x] \in Int /\ f[x] <= g[x]
    PROVE  SumFunctionOnSet(f, S) <= SumFunctionOnSet(g, S)
PROOF
  <1> DEFINE Good == {T \in SUBSET S : SumFunctionOnSet(f, T) <= SumFunctionOnSet(g, T)}
  <1>1. {} \in Good
    BY SumOfNothing
  <1>2. ASSUME NEW T \in SUBSET S, NEW x \in S \ T, T \in Good PROVE T \cup {x} \in Good
    <2>1. IsFiniteSet(T)
      BY FS_Subset
    <2>2. /\ SumFunctionOnSet(f, T \cup {x}) = f[x] + SumFunctionOnSet(f, T)
          /\ SumFunctionOnSet(g, T \cup {x}) = g[x] + SumFunctionOnSet(g, T)
      BY <2>1, SumAdds
    <2>3. SumFunctionOnSet(f, T) \in Int /\ SumFunctionOnSet(g, T) \in Int
      BY <2>1, SumTakes
    <2>4. f[x] \in Int /\ g[x] \in Int /\ f[x] <= g[x] /\ SumFunctionOnSet(f, T) <= SumFunctionOnSet(g, T)
      BY <1>2
    <2> QED
      BY <2>2, <2>3, <2>4
  <1>3. SUBSET S \subseteq Good
    <2> HIDE DEF Good
    <2> QED
      BY <1>1, <1>2, SetInduction
  <1> QED
    BY <1>3

(* What does not count may be left out.                                    *)
LEMMA SumSkips ==
    ASSUME NEW S, IsFiniteSet(S), NEW f, \A x \in S : f[x] \in Int,
           NEW R \in SUBSET S, \A x \in S \ R : f[x] = 0
    PROVE  SumFunctionOnSet(f, S) = SumFunctionOnSet(f, R)
PROOF
  <1> DEFINE Good == {T \in SUBSET S : SumFunctionOnSet(f, T) = SumFunctionOnSet(f, T \cap R)}
  <1>1. {} \in Good
    <2>1. {} \cap R = {}
      OBVIOUS
    <2> QED
      BY <2>1
  <1>2. ASSUME NEW T \in SUBSET S, NEW x \in S \ T, T \in Good PROVE T \cup {x} \in Good
    <2>1. IsFiniteSet(T) /\ IsFiniteSet(T \cap R)
      BY FS_Subset
    <2>2. SumFunctionOnSet(f, T \cup {x}) = f[x] + SumFunctionOnSet(f, T)
      BY <2>1, SumAdds
    <2>3. SumFunctionOnSet(f, T) \in Int /\ SumFunctionOnSet(f, T) = SumFunctionOnSet(f, T \cap R)
      BY <1>2, <2>1, SumTakes
    <2>4. CASE x \in R
      <3>1. (T \cup {x}) \cap R = (T \cap R) \cup {x} /\ x \notin T \cap R
        BY <2>4
      <3>2. SumFunctionOnSet(f, (T \cap R) \cup {x}) = f[x] + SumFunctionOnSet(f, T \cap R)
        BY <2>1, <3>1, SumAdds
      <3> QED
        BY <2>2, <2>3, <3>1, <3>2
    <2>5. CASE x \notin R
      <3>1. (T \cup {x}) \cap R = T \cap R /\ f[x] = 0
        BY <2>5
      <3>2. SumFunctionOnSet(f, T \cup {x}) = SumFunctionOnSet(f, T)
        BY <2>2, <2>3, <3>1
      <3> QED
        BY <2>3, <3>1, <3>2
    <2> QED
      BY <2>4, <2>5
  <1>3. SUBSET S \subseteq Good
    <2> HIDE DEF Good
    <2> QED
      BY <1>1, <1>2, SetInduction
  <1>4. S \in Good /\ S \cap R = R
    BY <1>3
  <1> QED
    BY <1>4

(* The sum of the sums of two is the sum of both sums.                     *)
LEMMA SumOfSums ==
    ASSUME NEW S, IsFiniteSet(S), NEW f, NEW g, NEW h,
           \A x \in S : f[x] \in Int /\ g[x] \in Int /\ h[x] = f[x] + g[x]
    PROVE  SumFunctionOnSet(h, S) = SumFunctionOnSet(f, S) + SumFunctionOnSet(g, S)
PROOF
  <1> DEFINE Good == {T \in SUBSET S :
                 SumFunctionOnSet(h, T) = SumFunctionOnSet(f, T) + SumFunctionOnSet(g, T)}
  <1>1. {} \in Good
    BY SumOfNothing
  <1>2. ASSUME NEW T \in SUBSET S, NEW x \in S \ T, T \in Good PROVE T \cup {x} \in Good
    <2>1. IsFiniteSet(T)
      BY FS_Subset
    <2>2. /\ SumFunctionOnSet(f, T \cup {x}) = f[x] + SumFunctionOnSet(f, T)
          /\ SumFunctionOnSet(g, T \cup {x}) = g[x] + SumFunctionOnSet(g, T)
          /\ SumFunctionOnSet(h, T \cup {x}) = h[x] + SumFunctionOnSet(h, T)
      <3>1. \A y \in S : h[y] \in Int
        OBVIOUS
      <3> QED
        BY <2>1, <3>1, SumAdds
    <2>3. SumFunctionOnSet(f, T) \in Int /\ SumFunctionOnSet(g, T) \in Int
      BY <2>1, SumTakes
    <2>4. /\ f[x] \in Int /\ g[x] \in Int /\ h[x] = f[x] + g[x]
          /\ SumFunctionOnSet(h, T) = SumFunctionOnSet(f, T) + SumFunctionOnSet(g, T)
      BY <1>2
    <2> QED
      BY <2>2, <2>3, <2>4
  <1>3. SUBSET S \subseteq Good
    <2> HIDE DEF Good
    <2> QED
      BY <1>1, <1>2, SetInduction
  <1> QED
    BY <1>3

(* A common factor is a factor of the sum.                                 *)
LEMMA SumOfMultiples ==
    ASSUME NEW S, IsFiniteSet(S), NEW n \in Int, NEW f, NEW g,
           \A x \in S : f[x] \in Int /\ g[x] = n * f[x]
    PROVE  SumFunctionOnSet(g, S) = n * SumFunctionOnSet(f, S)
PROOF
  <1> DEFINE Good == {T \in SUBSET S : SumFunctionOnSet(g, T) = n * SumFunctionOnSet(f, T)}
  <1>1. {} \in Good
    BY SumOfNothing
  <1>2. ASSUME NEW T \in SUBSET S, NEW x \in S \ T, T \in Good PROVE T \cup {x} \in Good
    <2>1. IsFiniteSet(T)
      BY FS_Subset
    <2>2. /\ SumFunctionOnSet(f, T \cup {x}) = f[x] + SumFunctionOnSet(f, T)
          /\ SumFunctionOnSet(g, T \cup {x}) = g[x] + SumFunctionOnSet(g, T)
      <3>1. \A y \in S : g[y] \in Int
        OBVIOUS
      <3> QED
        BY <2>1, <3>1, SumAdds
    <2>3. SumFunctionOnSet(f, T) \in Int
      BY <2>1, SumTakes
    <2>4. f[x] \in Int /\ g[x] = n * f[x] /\ SumFunctionOnSet(g, T) = n * SumFunctionOnSet(f, T)
      BY <1>2
    <2>5. \A a, b \in Int : n * a + n * b = n * (a + b)
      OBVIOUS
    <2> QED
      BY <2>2, <2>3, <2>4, <2>5
  <1>3. SUBSET S \subseteq Good
    <2> HIDE DEF Good
    <2> QED
      BY <1>1, <1>2, SetInduction
  <1> QED
    BY <1>3

(* The order of two sums does not matter.                                  *)
LEMMA SumsExchange ==
    ASSUME NEW S, IsFiniteSet(S), NEW R, IsFiniteSet(R), NEW f,
           \A x \in S, y \in R : f[x][y] \in Int
    PROVE  SumFunctionOnSet([x \in S |-> SumFunctionOnSet([y \in R |-> f[x][y]], R)], S)
           = SumFunctionOnSet([y \in R |-> SumFunctionOnSet([x \in S |-> f[x][y]], S)], R)
PROOF
  <1> DEFINE row(x) == [y \in R |-> f[x][y]]
             column(T, y) == SumFunctionOnSet([x \in T |-> f[x][y]], T)
             rows(T) == SumFunctionOnSet([x \in T |-> SumFunctionOnSet(row(x), R)], T)
             columns(T) == [y \in R |-> column(T, y)]
             Good == {T \in SUBSET S : rows(T) = SumFunctionOnSet(columns(T), R)}
  <1>1. \A x \in S : SumFunctionOnSet(row(x), R) \in Int
    BY SumTakes
  <1>2. {} \in Good
    <2>1. rows({}) = 0
      BY SumOfNothing
    <2>2. \A y \in R : columns({})[y] = 0
      BY SumOfNothing
    <2>3. SumFunctionOnSet(columns({}), R) = SumFunctionOnSet(columns({}), {})
      <3> HIDE DEF columns
      <3> QED
        BY <2>2, SumSkips
    <2> QED
      BY <2>1, <2>3, SumOfNothing
  <1>3. ASSUME NEW T \in SUBSET S, NEW x \in S \ T, T \in Good PROVE T \cup {x} \in Good
    <2>1. IsFiniteSet(T) /\ IsFiniteSet(T \cup {x})
      BY FS_Subset
    <2>2. rows(T \cup {x}) = SumFunctionOnSet(row(x), R) + rows(T)
      <3> DEFINE more == [z \in T \cup {x} |-> SumFunctionOnSet(row(z), R)]
                 less == [z \in T |-> SumFunctionOnSet(row(z), R)]
      <3>1. \A z \in T \cup {x} : more[z] = SumFunctionOnSet(row(z), R) /\ more[z] \in Int
        BY <1>1
      <3>2. \A z \in T : more[z] = less[z]
        OBVIOUS
      <3> HIDE DEF more, less, row
      <3>3. SumFunctionOnSet(more, T \cup {x}) = more[x] + SumFunctionOnSet(more, T)
        BY <2>1, <3>1, SumAdds
      <3>4. SumFunctionOnSet(more, T) = SumFunctionOnSet(less, T)
        BY <2>1, <3>2, SumAgrees
      <3> QED
        BY <3>1, <3>3, <3>4 DEF more, less
    <2>3. \A y \in R : column(T, y) \in Int /\ column(T \cup {x}, y) = f[x][y] + column(T, y)
      <3>1. SUFFICES ASSUME NEW y \in R
                     PROVE  column(T, y) \in Int /\ column(T \cup {x}, y) = f[x][y] + column(T, y)
        OBVIOUS
      <3> DEFINE more == [z \in T \cup {x} |-> f[z][y]]
                 less == [z \in T |-> f[z][y]]
      <3>2. \A z \in T \cup {x} : more[z] = f[z][y] /\ more[z] \in Int
        OBVIOUS
      <3>3. \A z \in T : more[z] = less[z] /\ less[z] \in Int
        OBVIOUS
      <3> HIDE DEF more, less
      <3>4. SumFunctionOnSet(more, T \cup {x}) = more[x] + SumFunctionOnSet(more, T)
        BY <2>1, <3>2, SumAdds
      <3>5. SumFunctionOnSet(more, T) = SumFunctionOnSet(less, T) /\ SumFunctionOnSet(less, T) \in Int
        BY <2>1, <3>3, SumAgrees, SumTakes
      <3> QED
        BY <3>2, <3>4, <3>5 DEF more, less
    <2>4. SumFunctionOnSet(columns(T \cup {x}), R) = SumFunctionOnSet(row(x), R) + SumFunctionOnSet(columns(T), R)
      <3>1. \A y \in R : /\ row(x)[y] \in Int /\ columns(T)[y] \in Int
                         /\ columns(T \cup {x})[y] = row(x)[y] + columns(T)[y]
        BY <2>3
      <3> HIDE DEF row, columns
      <3> QED
        BY <3>1, SumOfSums
    <2>5. rows(T) = SumFunctionOnSet(columns(T), R)
      BY <1>3
    <2> HIDE DEF rows, columns, row
    <2> QED
      BY <2>2, <2>4, <2>5
  <1>4. SUBSET S \subseteq Good
    <2> HIDE DEF Good
    <2> QED
      BY <1>2, <1>3, SetInduction
  <1>5. S \in Good
    BY <1>4
  <1> QED
    BY <1>5

(* A sum over what is counted once by each of another set's elements.      *)
LEMMA SumThrough ==
    ASSUME NEW S, IsFiniteSet(S), NEW way, \A x, y \in S : way[x] = way[y] => x = y,
           NEW f, \A x \in S : f[way[x]] \in Int
    PROVE  SumFunctionOnSet([x \in S |-> f[way[x]]], S) = SumFunctionOnSet(f, {way[x] : x \in S})
PROOF
  <1> DEFINE image(T) == {way[x] : x \in T}
             along == [x \in S |-> f[way[x]]]
             Good == {T \in SUBSET S : /\ IsFiniteSet(image(T))
                                       /\ SumFunctionOnSet(along, T) = SumFunctionOnSet(f, image(T))}
  <1>1. {} \in Good
    <2>1. image({}) = {}
      OBVIOUS
    <2> QED
      BY <2>1, SumOfNothing, FS_EmptySet
  <1>2. ASSUME NEW T \in SUBSET S, NEW x \in S \ T, T \in Good PROVE T \cup {x} \in Good
    <2>1. IsFiniteSet(T) /\ IsFiniteSet(image(T))
      BY <1>2, FS_Subset
    <2>2. image(T \cup {x}) = image(T) \cup {way[x]} /\ way[x] \notin image(T)
      OBVIOUS
    <2>3. \A y \in T \cup {x} : along[y] = f[way[y]] /\ along[y] \in Int
      OBVIOUS
    <2>4. \A z \in image(T) \cup {way[x]} : f[z] \in Int
      OBVIOUS
    <2>5. SumFunctionOnSet(along, T) = SumFunctionOnSet(f, image(T))
      BY <1>2
    <2> HIDE DEF along, image
    <2>6. SumFunctionOnSet(along, T \cup {x}) = along[x] + SumFunctionOnSet(along, T)
      BY <2>1, <2>3, SumAdds
    <2>7. SumFunctionOnSet(f, image(T) \cup {way[x]}) = f[way[x]] + SumFunctionOnSet(f, image(T))
      BY <2>1, <2>2, <2>4, SumAdds
    <2>8. IsFiniteSet(image(T) \cup {way[x]})
      BY <2>1, FS_AddElement
    <2>9. SumFunctionOnSet(along, T \cup {x}) = SumFunctionOnSet(f, image(T) \cup {way[x]})
      BY <2>3, <2>5, <2>6, <2>7
    <2>10. /\ IsFiniteSet(image(T \cup {x}))
           /\ SumFunctionOnSet(along, T \cup {x}) = SumFunctionOnSet(f, image(T \cup {x}))
      BY <2>2, <2>8, <2>9, Zenon
    <2> QED
      BY <2>10
  <1>3. SUBSET S \subseteq Good
    <2> HIDE DEF Good
    <2> QED
      BY <1>1, <1>2, SetInduction
  <1> QED
    BY <1>3

(* The greater one of two numbers.                                         *)
LEMMA MaxOfTwo ==
    ASSUME NEW x \in Int, NEW y \in Int
    PROVE  Max({x, y}) = IF x >= y THEN x ELSE y
PROOF
  <1>1. \A m \in {x, y} : (\A z \in {x, y} : m >= z) <=> m = IF x >= y THEN x ELSE y
    OBVIOUS
  <1> QED
    BY <1>1 DEF Max

(* A finite set of numbers has a maximum.                                  *)
LEMMA MaxOfFinite ==
    ASSUME NEW S, IsFiniteSet(S), S \subseteq Int, S # {}
    PROVE  Max(S) \in S /\ \A x \in S : x <= Max(S)
PROOF
  <1> DEFINE Good == {T \in SUBSET S : T # {} => \E m \in T : \A x \in T : m >= x}
  <1>1. {} \in Good
    OBVIOUS
  <1>2. ASSUME NEW T \in SUBSET S, NEW x \in S \ T, T \in Good PROVE T \cup {x} \in Good
    <2>1. CASE T = {}
      <3>1. T \cup {x} = {x} /\ x \in Int
        BY <2>1
      <3>2. \E m \in T \cup {x} : \A y \in T \cup {x} : m >= y
        BY <3>1
      <3> QED
        BY <3>2
    <2>2. CASE T # {}
      <3>1. PICK m \in T : \A y \in T : m >= y
        BY <1>2, <2>2
      <3>2. m \in Int /\ x \in Int /\ T \subseteq Int
        OBVIOUS
      <3>3. \E k \in T \cup {x} : \A y \in T \cup {x} : k >= y
        <4>1. CASE m >= x
          BY <3>1, <3>2, <4>1
        <4>2. CASE ~(m >= x)
          BY <3>1, <3>2, <4>2
        <4> QED
          BY <4>1, <4>2
      <3> QED
        BY <3>3
    <2> QED
      BY <2>1, <2>2
  <1>3. S \in Good
    <2> HIDE DEF Good
    <2> QED
      BY <1>1, <1>2, SetInduction
  <1>4. \E m \in S : \A x \in S : m >= x
    BY <1>3
  <1>5. Max(S) \in S /\ \A x \in S : Max(S) >= x
    BY <1>4 DEF Max
  <1> QED
    BY <1>5

(* It has a minimum.                                                       *)
LEMMA MinOfFinite ==
    ASSUME NEW S, IsFiniteSet(S), S \subseteq Int, S # {}
    PROVE  Min(S) \in S /\ \A x \in S : Min(S) <= x
PROOF
  <1> DEFINE Good == {T \in SUBSET S : T # {} => \E m \in T : \A x \in T : m <= x}
  <1>1. {} \in Good
    OBVIOUS
  <1>2. ASSUME NEW T \in SUBSET S, NEW x \in S \ T, T \in Good PROVE T \cup {x} \in Good
    <2>1. CASE T = {}
      <3>1. T \cup {x} = {x} /\ x \in Int
        BY <2>1
      <3>2. \E m \in T \cup {x} : \A y \in T \cup {x} : m <= y
        BY <3>1
      <3> QED
        BY <3>2
    <2>2. CASE T # {}
      <3>1. PICK m \in T : \A y \in T : m <= y
        BY <1>2, <2>2
      <3>2. m \in Int /\ x \in Int /\ T \subseteq Int
        OBVIOUS
      <3>3. \E k \in T \cup {x} : \A y \in T \cup {x} : k <= y
        <4>1. CASE m <= x
          BY <3>1, <3>2, <4>1
        <4>2. CASE ~(m <= x)
          BY <3>1, <3>2, <4>2
        <4> QED
          BY <4>1, <4>2
      <3> QED
        BY <3>3
    <2> QED
      BY <2>1, <2>2
  <1>3. S \in Good
    <2> HIDE DEF Good
    <2> QED
      BY <1>1, <1>2, SetInduction
  <1>4. \E m \in S : \A x \in S : m <= x
    BY <1>3
  <1> QED
    BY <1>4 DEF Min

(* What a sequence over a set has is in the set.                           *)
LEMMA ElementOf ==
    ASSUME NEW S, NEW s \in Seq(S), NEW i \in DOMAIN s
    PROVE  s[i] \in S
OBVIOUS

(* The elements of a sequence are finitely many.                           *)
LEMMA RangeOfSequence ==
    ASSUME NEW s, NEW S, s \in Seq(S)
    PROVE  /\ Len(s) \in Nat /\ DOMAIN s = 1..Len(s) /\ IsFiniteSet(DOMAIN s) /\ Cardinality(DOMAIN s) = Len(s)
           /\ Range(s) \subseteq S /\ IsFiniteSet(Range(s))
           /\ Cardinality(Range(s)) \in Nat /\ Cardinality(Range(s)) <= Len(s)
           /\ Cardinality(Range(s)) = Len(s) <=> \A i, j \in DOMAIN s : s[i] = s[j] => i = j
PROOF
  <1>1. Len(s) \in Nat /\ DOMAIN s = 1..Len(s) /\ s \in [1..Len(s) -> S]
    OBVIOUS
  <1>2. IsFiniteSet(1..Len(s)) /\ Cardinality(1..Len(s)) = Len(s)
    BY <1>1, FS_Interval
  <1>3. s \in Surjection(1..Len(s), Range(s))
    BY <1>1 DEF Surjection, Range
  <1>4. /\ IsFiniteSet(Range(s)) /\ Cardinality(Range(s)) <= Len(s)
        /\ Cardinality(Range(s)) = Len(s) <=> s \in Injection(1..Len(s), Range(s))
    BY <1>2, <1>3, FS_Surjection
  <1>5. s \in Injection(1..Len(s), Range(s)) <=> \A i, j \in DOMAIN s : s[i] = s[j] => i = j
    BY <1>1, <1>3 DEF Injection, IsInjective, Surjection
  <1>6. Range(s) \subseteq S
    BY <1>1 DEF Range
  <1> QED
    BY <1>1, <1>2, <1>4, <1>5, <1>6, FS_CardinalityType

(* A sum of one summand.                                                   *)
LEMMA SumOfOne ==
    ASSUME NEW S, IsFiniteSet(S), NEW f, NEW x \in S, f[x] \in Int, \A y \in S \ {x} : f[y] = 0
    PROVE  SumFunctionOnSet(f, S) = f[x]
PROOF
  <1>1. \A y \in S : f[y] \in Int
    OBVIOUS
  <1>2. SumFunctionOnSet(f, S) = SumFunctionOnSet(f, {x})
    BY <1>1, SumSkips
  <1>3. IsFiniteSet({}) /\ {} \cup {x} = {x}
    BY FS_EmptySet
  <1>4. SumFunctionOnSet(f, {} \cup {x}) = f[x] + SumFunctionOnSet(f, {})
    BY <1>3, SumAdds
  <1> QED
    BY <1>2, <1>3, <1>4, SumOfNothing

(* Zeros sum up to 0.                                                      *)
LEMMA SumOfZeros ==
    ASSUME NEW S, IsFiniteSet(S), NEW f, \A y \in S : f[y] = 0
    PROVE  SumFunctionOnSet(f, S) = 0
PROOF
  <1>1. SumFunctionOnSet(f, S) = SumFunctionOnSet(f, {})
    BY SumSkips
  <1> QED
    BY <1>1, SumOfNothing

(* Two summands.                                                           *)
LEMMA SumOfTwo ==
    ASSUME NEW S, IsFiniteSet(S), NEW f, NEW x \in S, NEW z \in S, x # z,
           f[x] \in Int, f[z] \in Int, \A y \in S \ {x, z} : f[y] = 0
    PROVE  SumFunctionOnSet(f, S) = f[x] + f[z]
PROOF
  <1>1. \A y \in S : f[y] \in Int
    OBVIOUS
  <1>2. SumFunctionOnSet(f, S) = f[x] + SumFunctionOnSet(f, S \ {x})
    BY <1>1, SumTakes
  <1>3. IsFiniteSet(S \ {x}) /\ z \in S \ {x} /\ \A y \in (S \ {x}) \ {z} : f[y] = 0
    BY FS_RemoveElement
  <1>4. SumFunctionOnSet(f, S \ {x}) = f[z]
    BY <1>3, SumOfOne
  <1> QED
    BY <1>2, <1>4

-----------------------------------------------------------------------------
(* Lists, orders and folds.                                                *)

(* The values of a function on a finite set are finite in number.          *)
LEMMA FiniteImage ==
    ASSUME NEW S, IsFiniteSet(S), NEW f, NEW T, \A y \in T : \E x \in S : y = f[x]
    PROVE  IsFiniteSet(T)
PROOF
  <1> DEFINE R == {x \in S : f[x] \in T}
             g == [x \in R |-> f[x]]
  <1>1. IsFiniteSet(R)
    BY FS_Subset
  <1>2. g \in Surjection(R, T)
    BY DEF Surjection
  <1> HIDE DEF g, R
  <1> QED
    BY <1>1, <1>2, FS_Surjection

(* There are finitely many functions from a finite set to a finite set.    *)
LEMMA FiniteFunctions ==
    ASSUME NEW A, NEW B, IsFiniteSet(A), IsFiniteSet(B)
    PROVE  IsFiniteSet([A -> B])
PROOF
  <1> DEFINE G == SUBSET (A \X B)
             f == [g \in G |-> [a \in A |-> CHOOSE b \in B : <<a, b>> \in g]]
  <1>1. IsFiniteSet(G)
    BY FS_Product, FS_SUBSET
  <1>2. ASSUME NEW h \in [A -> B] PROVE \E g \in G : h = f[g]
    <2> DEFINE g == {<<a, h[a]>> : a \in A}
    <2>1. g \in G
      OBVIOUS
    <2>2. \A a \in A : h[a] \in B /\ \A b : <<a, b>> \in g <=> b = h[a]
      OBVIOUS
    <2>3. f[g] = [a \in A |-> CHOOSE b \in B : <<a, b>> \in g]
      BY <2>1
    <2> HIDE DEF g
    <2>4. \A a \in A : (CHOOSE b \in B : <<a, b>> \in g) = h[a]
      BY <2>2
    <2>5. h = [a \in A |-> h[a]]
      OBVIOUS
    <2>6. f[g] = h
      <3> HIDE DEF f
      <3> QED
        BY <2>3, <2>4, <2>5
    <2> QED
      BY <2>1, <2>6
  <1> HIDE DEF f, G
  <1> QED
    BY <1>1, <1>2, FiniteImage

-----------------------------------------------------------------------------
(* A strict total order of a set, as a set of pairs.                       *)
IsOrder(R, S) ==
    /\ \A x \in S : <<x, x>> \notin R
    /\ \A x, y \in S : x # y => <<x, y>> \in R \/ <<y, x>> \in R
    /\ \A x, y, z \in S : <<x, y>> \in R /\ <<y, z>> \in R => <<x, z>> \in R

(* A finite set has a least element.                                       *)
LEMMA LeastOfOrder ==
    ASSUME NEW S, IsFiniteSet(S), S # {}, NEW R, IsOrder(R, S)
    PROVE  \E x \in S : \A y \in S \ {x} : <<x, y>> \in R
PROOF
  <1> DEFINE Good == {T \in SUBSET S : T # {} => \E x \in T : \A y \in T \ {x} : <<x, y>> \in R}
  <1>1. {} \in Good
    OBVIOUS
  <1>2. ASSUME NEW T \in SUBSET S, NEW x \in S \ T, T \in Good PROVE T \cup {x} \in Good
    <2>1. CASE T = {}
      <3>1. \A y \in (T \cup {x}) \ {x} : <<x, y>> \in R
        BY <2>1
      <3> QED
        BY <3>1
    <2>2. CASE T # {}
      <3>1. PICK m \in T : \A y \in T \ {m} : <<m, y>> \in R
        BY <1>2, <2>2
      <3>2. m \in S /\ x # m
        BY <1>2
      <3>3. CASE <<m, x>> \in R
        <4>1. \A y \in (T \cup {x}) \ {m} : <<m, y>> \in R
          BY <3>1, <3>3
        <4> QED
          BY <4>1
      <3>4. CASE <<x, m>> \in R
        <4>1. \A y \in (T \cup {x}) \ {x} : <<x, y>> \in R
          BY <3>1, <3>2, <3>4 DEF IsOrder
        <4> QED
          BY <4>1
      <3> QED
        BY <3>2, <3>3, <3>4 DEF IsOrder
    <2> QED
      BY <2>1, <2>2
  <1>3. SUBSET S \subseteq Good
    <2> HIDE DEF Good
    <2> QED
      BY <1>1, <1>2, SetInduction
  <1> QED
    BY <1>3

(* A sequence lists a set: everything in it once, and nothing else.        *)
Lists(s, S) ==
    /\ s \in [1..Cardinality(S) -> S]
    /\ \A x \in S : \E i \in 1..Cardinality(S) : s[i] = x
    /\ \A i, j \in 1..Cardinality(S) : s[i] = s[j] => i = j

(* A finite set can be listed.                                             *)
LEMMA SomeList ==
    ASSUME NEW S, IsFiniteSet(S)
    PROVE  Cardinality(S) \in Nat /\ \E s : Lists(s, S)
PROOF
  <1>1. Cardinality(S) \in Nat /\ ExistsBijection(1..Cardinality(S), S)
    BY FS_CardinalityType
  <1>2. PICK s : s \in Bijection(1..Cardinality(S), S)
    BY <1>1 DEF ExistsBijection
  <1>3. Lists(s, S)
    BY <1>2 DEF Lists, Bijection, Injection, Surjection, IsInjective
  <1> QED
    BY <1>1, <1>3

(* The library's SetToSeq lists a finite set.                              *)
LEMMA SetToSeqLists ==
    ASSUME NEW S, IsFiniteSet(S)
    PROVE  Lists(SetToSeq(S), S)
PROOF
  <1> DEFINE n == Cardinality(S)
  <1>1. PICK s : Lists(s, S)
    BY SomeList
  <1>2. s \in [1..n -> S] /\ IsInjective(s)
    BY <1>1 DEF Lists, IsInjective
  <1>3. SetToSeq(S) \in [1..n -> S] /\ IsInjective(SetToSeq(S))
    BY <1>2 DEF SetToSeq
  <1>4. IsFiniteSet(1..n) /\ Cardinality(1..n) = n
    BY SomeList, FS_Interval
  <1>5. SetToSeq(S) \in Injection(1..n, S)
    BY <1>3 DEF Injection, IsInjective
  <1>6. SetToSeq(S) \in Surjection(1..n, S)
    BY <1>4, <1>5, FS_Injection
  <1> QED
    BY <1>3, <1>5, <1>6 DEF Lists, Injection, Surjection, IsInjective

(* So it has a greatest one.                                               *)
LEMMA GreatestOfOrder ==
    ASSUME NEW S, IsFiniteSet(S), S # {}, NEW R, IsOrder(R, S)
    PROVE  \E x \in S : \A y \in S \ {x} : <<y, x>> \in R
PROOF
  <1> DEFINE B == {xy \in S \X S : <<xy[2], xy[1]>> \in R}
  <1>1. \A x, y \in S : <<x, y>> \in B <=> <<y, x>> \in R
    OBVIOUS
  <1> HIDE DEF B
  <1>2. IsOrder(B, S)
    BY <1>1 DEF IsOrder
  <1>3. PICK x \in S : \A y \in S \ {x} : <<x, y>> \in B
    BY <1>2, LeastOfOrder
  <1> QED
    BY <1>1, <1>3

(* A list in the order.                                                    *)
Sorted(s, S, R) ==
    \A i, j \in 1..Cardinality(S) : i < j => <<s[i], s[j]>> \in R

(* A finite set can be listed in the order of an order on it.              *)
LEMMA SomeSortedList ==
    ASSUME NEW S, IsFiniteSet(S), NEW R, IsOrder(R, S)
    PROVE  \E s : Lists(s, S) /\ Sorted(s, S, R)
PROOF
  <1> DEFINE Bad == {T \in SUBSET S : ~\E s : Lists(s, T) /\ Sorted(s, T, R)}
  <1>1. SUFFICES ASSUME Bad # {} PROVE FALSE
    OBVIOUS
  <1>2. PICK T \in Bad : \A U \in SUBSET T : U # T => U \notin Bad
    <2>1. Bad \subseteq SUBSET S
      OBVIOUS
    <2> HIDE DEF Bad
    <2> QED
      BY <1>1, <2>1, SmallestSubset
  <1>3. T \in SUBSET S /\ IsFiniteSet(T)
    BY FS_Subset
  <1>4. T # {}
    <2>1. SUFFICES ASSUME T = {} PROVE FALSE
      OBVIOUS
    <2>2. Cardinality(T) = 0
      BY <2>1, FS_EmptySet
    <2>3. Lists(<<>>, T) /\ Sorted(<<>>, T, R)
      BY <2>1, <2>2 DEF Lists, Sorted
    <2> QED
      BY <2>3
  <1>5. IsOrder(R, T)
    BY <1>3 DEF IsOrder
  <1>6. PICK x \in T : \A y \in T \ {x} : <<y, x>> \in R
    BY <1>3, <1>4, <1>5, GreatestOfOrder
  <1> DEFINE U == T \ {x}
             n == Cardinality(U)
  <1>7. PICK s : Lists(s, U) /\ Sorted(s, U, R)
    <2>1. U \in SUBSET T /\ U # T
      OBVIOUS
    <2>2. U \in SUBSET S
      BY <1>3
    <2> HIDE DEF U
    <2> QED
      BY <1>2, <2>1, <2>2
  <1>8. n \in Nat /\ Cardinality(T) = n + 1
    <2>1. Cardinality(T) \in Nat /\ Cardinality(U) = Cardinality(T) - 1 /\ Cardinality(U) \in Nat
      BY <1>3, FS_RemoveElement, FS_CardinalityType
    <2> QED
      BY <2>1
  <1> DEFINE t == [i \in 1..(n + 1) |-> IF i = n + 1 THEN x ELSE s[i]]
  <1>9. \A i \in 1..(n + 1) : i = n + 1 \/ i \in 1..n
    BY <1>8
  <1>10. /\ \A i \in 1..n : i \in 1..(n + 1) /\ i # n + 1 /\ t[i] = s[i] /\ s[i] \in U
         /\ n + 1 \in 1..(n + 1) /\ t[n + 1] = x
    <2>1. \A i \in 1..n : s[i] \in U
      <3> HIDE DEF U
      <3> QED
        BY <1>7 DEF Lists
    <2>3. \A i \in 1..n : i \in 1..(n + 1) /\ i # n + 1
      <3> HIDE DEF n
      <3> QED
        BY <1>8
    <2>2. n + 1 \in 1..(n + 1)
      BY <1>8
    <2> HIDE DEF n, U
    <2> QED
      BY <2>1, <2>2, <2>3
  <1>11. t \in [1..(n + 1) -> T]
    <2>1. t = [i \in 1..(n + 1) |-> t[i]]
      OBVIOUS
    <2>2. \A i \in 1..(n + 1) : t[i] \in T
      <3> HIDE DEF t, n
      <3> QED
        BY <1>9, <1>10
    <2> HIDE DEF t, n
    <2> QED
      BY <2>1, <2>2
  <1>12. Lists(s, U) <=> /\ s \in [1..n -> U]
                         /\ \A y \in U : \E i \in 1..n : s[i] = y
                         /\ \A i, j \in 1..n : s[i] = s[j] => i = j
    BY DEF Lists
  <1>13. \A y \in T : y = x \/ y \in U
    OBVIOUS
  <1>14. x \notin U
    OBVIOUS
  <1> HIDE DEF t, U
  <1>15. Lists(t, T)
    <2>1. \A y \in T : \E i \in 1..(n + 1) : t[i] = y
      <3>1. SUFFICES ASSUME NEW y \in U PROVE \E i \in 1..(n + 1) : t[i] = y
        BY <1>10, <1>13
      <3>2. PICK i \in 1..n : s[i] = y
        BY <1>7, <1>12
      <3> HIDE DEF n
      <3> QED
        BY <1>10, <3>2
    <2>2. ASSUME NEW i \in 1..(n + 1), NEW j \in 1..(n + 1), t[i] = t[j] PROVE i = j
      <3> HIDE DEF n
      <3> QED
        BY <1>7, <1>9, <1>10, <1>12, <1>14, <2>2
    <2> HIDE DEF n
    <2> QED
      BY <1>8, <1>11, <2>1, <2>2 DEF Lists
  <1>16. Sorted(t, T, R)
    <2>1. \A i, j \in 1..n : i < j => <<s[i], s[j]>> \in R
      BY <1>7 DEF Sorted
    <2>2. \A y \in U : <<y, x>> \in R
      BY <1>6 DEF U
    <2>3. ASSUME NEW i \in 1..(n + 1), NEW j \in 1..(n + 1), i < j PROVE <<t[i], t[j]>> \in R
      <3>1. i \in 1..n
        BY <1>8, <2>3
      <3> HIDE DEF n
      <3> QED
        BY <1>9, <1>10, <2>1, <2>2, <2>3, <3>1
    <2> HIDE DEF n
    <2> QED
      BY <1>8, <2>3 DEF Sorted
  <1> QED
    BY <1>15, <1>16

(* The elements of a finite set, each at the place that the number of the  *)
(* elements before it gives.                                               *)
IsRanked(t, S, R) ==
    t = [i \in 1..Cardinality(S) |-> CHOOSE x \in S : Cardinality({y \in S : <<y, x>> \in R}) = i - 1]

(* Placing everything by how many come before it is such a list.           *)
LEMMA ArrangedList ==
    ASSUME NEW S, IsFiniteSet(S), NEW R, IsOrder(R, S), NEW t, IsRanked(t, S, R)
    PROVE  Lists(t, S) /\ Sorted(t, S, R)
PROOF
  <1> DEFINE n == Cardinality(S)
             below(x) == {y \in S : <<y, x>> \in R}
  <1>1. PICK s : Lists(s, S) /\ Sorted(s, S, R)
    BY SomeSortedList
  <1>2. /\ n \in Nat /\ s \in [1..n -> S]
        /\ \A x \in S : \E i \in 1..n : s[i] = x
        /\ \A i, j \in 1..n : s[i] = s[j] => i = j
        /\ \A i, j \in 1..n : i < j => <<s[i], s[j]>> \in R
    BY <1>1, SomeList DEF Lists, Sorted
  <1>3. ASSUME NEW i \in 1..n PROVE Cardinality(below(s[i])) = i - 1
    <2> DEFINE f == [j \in 1..(i - 1) |-> s[j]]
    <2> HIDE DEF n
    <2>1. i - 1 \in Nat /\ \A j \in 1..(i - 1) : j \in 1..n /\ j < i
      BY <1>2
    <2>2. \A j \in 1..n : s[j] \in below(s[i]) <=> j < i
      <3>1. \A x \in S : <<x, x>> \notin R
        BY DEF IsOrder
      <3>2. \A x, y \in S : ~(<<x, y>> \in R /\ <<y, x>> \in R)
        BY DEF IsOrder
      <3>3. ASSUME NEW j \in 1..n PROVE s[j] \in below(s[i]) <=> j < i
        <4>1. s[i] \in S /\ s[j] \in S
          BY <1>2
        <4>2. j < i \/ j = i \/ i < j
          BY <1>2
        <4> QED
          BY <1>2, <3>1, <3>2, <4>1, <4>2
      <3> QED
        BY <3>3
    <2>3. f \in Bijection(1..(i - 1), below(s[i]))
      <3>1. f \in [1..(i - 1) -> below(s[i])]
        BY <2>1, <2>2
      <3>2. \A x \in below(s[i]) : \E j \in 1..(i - 1) : f[j] = x
        <4>1. SUFFICES ASSUME NEW x \in below(s[i]) PROVE \E j \in 1..(i - 1) : f[j] = x
          OBVIOUS
        <4>2. PICK j \in 1..n : s[j] = x
          BY <1>2
        <4>3. j < i
          BY <2>2, <4>2
        <4> QED
          BY <1>2, <4>2, <4>3
      <3>3. \A j, k \in 1..(i - 1) : f[j] = f[k] => j = k
        BY <1>2, <2>1
      <3> HIDE DEF f, below
      <3> QED
        BY <3>1, <3>2, <3>3 DEF Bijection, Injection, Surjection, IsInjective
    <2>4. IsFiniteSet(1..(i - 1)) /\ Cardinality(1..(i - 1)) = i - 1
      BY <2>1, FS_Interval
    <2> HIDE DEF f, below
    <2> QED
      BY <2>3, <2>4, FS_Bijection DEF ExistsBijection
  <1>4. ASSUME NEW i \in 1..n PROVE t[i] = s[i]
    <2>1. t[i] = CHOOSE x \in S : Cardinality(below(x)) = i - 1
      BY DEF IsRanked
    <2> HIDE DEF n, below
    <2>2. s[i] \in S /\ Cardinality(below(s[i])) = i - 1
      BY <1>2, <1>3
    <2>3. t[i] \in S /\ Cardinality(below(t[i])) = i - 1
      BY <2>1, <2>2
    <2>4. PICK j \in 1..n : s[j] = t[i]
      BY <1>2, <2>3
    <2>5. Cardinality(below(t[i])) = j - 1
      BY <1>3, <2>4
    <2>6. i = j
      BY <1>2, <2>3, <2>5
    <2> QED
      BY <2>4, <2>6
  <1>5. t = s
    <2> DEFINE pick(i) == CHOOSE x \in S : Cardinality(below(x)) = i - 1
    <2>3. t = [i \in 1..n |-> pick(i)]
      BY DEF IsRanked
    <2> HIDE DEF n, pick
    <2>1. t = [i \in 1..n |-> t[i]] /\ s = [i \in 1..n |-> s[i]]
      BY <1>2, <2>3
    <2> QED
      BY <1>4, <2>1
  <1> QED
    BY <1>1, <1>5

(* A set of numbers in order.                                              *)
LEMMA NumbersRanked ==
    ASSUME NEW S, IsFiniteSet(S), S \subseteq Int
    PROVE  /\ Lists(Arranged(S, <), S)
           /\ \A i, j \in 1..Cardinality(S) : i < j => Arranged(S, <)[i] < Arranged(S, <)[j]
PROOF
  <1> DEFINE n == Cardinality(S)
             R == {xy \in S \X S : xy[1] < xy[2]}
             s == Arranged(S, <)
  <1>1. \A x, y \in S : <<x, y>> \in R <=> x < y
    OBVIOUS
  <1>2. s = [i \in 1..n |-> CHOOSE x \in S : Cardinality({y \in S : y < x}) = i - 1]
    BY DEF Arranged
  <1> HIDE DEF R, s
  <1>3. IsOrder(R, S)
    BY <1>1 DEF IsOrder
  <1>4. \A x \in S : {y \in S : y < x} = {y \in S : <<y, x>> \in R}
    BY <1>1
  <1> DEFINE low(x) == {y \in S : y < x}
             below(x) == {y \in S : <<y, x>> \in R}
  <1>8. \A x \in S : low(x) = below(x)
    BY <1>4
  <1>9. s = [i \in 1..n |-> CHOOSE x \in S : Cardinality(low(x)) = i - 1]
    BY <1>2
  <1>5. s = [i \in 1..n |-> CHOOSE x \in S : Cardinality(below(x)) = i - 1]
    <2> HIDE DEF low, below
    <2>1. \A i : (CHOOSE x \in S : Cardinality(low(x)) = i - 1) = CHOOSE x \in S : Cardinality(below(x)) = i - 1
      BY <1>8
    <2> QED
      BY <1>9, <2>1
  <1>6. Lists(s, S) /\ Sorted(s, S, R)
    <2>1. IsRanked(s, S, R)
      BY <1>5 DEF IsRanked
    <2> QED
      BY <1>3, <2>1, ArrangedList
  <1>7. \A i, j \in 1..n : i < j => s[i] < s[j]
    BY <1>1, <1>6 DEF Lists, Sorted
  <1> QED
    BY <1>6, <1>7 DEF s

-----------------------------------------------------------------------------
(* A fold over a sequence of n elements, from which FoldLeft reads: its    *)
(* value for the first k of them is what the next step makes of the one    *)
(* for k - 1.                                                              *)
IsFold(fold, n, base, next) ==
    fold = [T \in SUBSET (1..n) |-> IF T = {} THEN base ELSE next[Max(T)][fold[T \ {Max(T)}]]]

(* The greatest number up to k, and those before it.                       *)
LEMMA MaxOfInterval ==
    ASSUME NEW n \in Nat, NEW k \in 1..n
    PROVE  /\ Max(1..k) = k /\ (1..k) \ {k} = 1..(k - 1) /\ 1..k \in SUBSET (1..n) /\ 1..k # {}
           /\ 1..(k - 1) \in SUBSET (1..n)
PROOF
  <1>1. k \in 1..k /\ \A x \in 1..k : k >= x
    OBVIOUS
  <1>2. \A m \in 1..k : (\A x \in 1..k : m >= x) => m = k
    OBVIOUS
  <1>3. Max(1..k) = k
    BY <1>1, <1>2 DEF Max
  <1> QED
    BY <1>1, <1>3

(* A fold over the first n numbers has a function that computes it.        *)
LEMMA FoldExists ==
    ASSUME NEW n \in Nat, NEW X, NEW base \in X, NEW next \in [1..n -> [X -> X]]
    PROVE  \E fold \in [SUBSET (1..n) -> X] : IsFold(fold, n, base, next)
PROOF
  <1> DEFINE Some(m) == \E fold : fold \in [SUBSET (1..m) -> X] /\ IsFold(fold, m, base, next)
             Good == {m \in Nat : m <= n => Some(m)}
  <1>1. 0 \in Good
    <2> DEFINE f == [T \in SUBSET (1..0) |-> base]
    <2>1. \A T \in SUBSET (1..0) : T = {}
      OBVIOUS
    <2>2. f = [T \in SUBSET (1..0) |-> IF T = {} THEN base ELSE next[Max(T)][f[T \ {Max(T)}]]]
      BY <2>1
    <2>3. f \in [SUBSET (1..0) -> X] /\ IsFold(f, 0, base, next)
      BY <2>2 DEF IsFold
    <2> QED
      BY <2>3
  <1>2. ASSUME NEW m \in Nat, m \in Good PROVE m + 1 \in Good
    <2>1. SUFFICES ASSUME m + 1 <= n PROVE Some(m + 1)
      <3> HIDE DEF Some
      <3> QED
        OBVIOUS
    <2>13. Some(m)
      <3> HIDE DEF Some
      <3> QED
        BY <1>2, <2>1
    <2>2. PICK f : f \in [SUBSET (1..m) -> X] /\ IsFold(f, m, base, next)
      BY <2>13
    <2> DEFINE low(T) == T \ {m + 1}
               g == [T \in SUBSET (1..(m + 1)) |-> IF m + 1 \in T THEN next[m + 1][f[low(T)]] ELSE f[T]]
    <2>3. \A T \in SUBSET (1..(m + 1)) : low(T) \in SUBSET (1..m) /\ (m + 1 \notin T => T \in SUBSET (1..m))
      <3>1. \A i \in 1..(m + 1) : i = m + 1 \/ i \in 1..m
        OBVIOUS
      <3> QED
        BY <3>1
    <2>4. \A T \in SUBSET (1..m) : T \in SUBSET (1..(m + 1)) /\ m + 1 \notin T
      <3>1. \A i \in 1..m : i \in 1..(m + 1) /\ i # m + 1
        OBVIOUS
      <3> QED
        BY <3>1
    <2>5. m + 1 \in 1..n
      BY <2>1
    <2>6. ASSUME NEW T \in SUBSET (1..(m + 1)), m + 1 \in T
          PROVE  Max(T) = m + 1 /\ g[T] = next[m + 1][g[low(T)]] /\ g[T] \in X
      <3>1. \A i \in T : m + 1 >= i /\ i \in Int
        OBVIOUS
      <3>2. \A x \in T : (\A y \in T : x >= y) => x = m + 1
        BY <2>6, <3>1
      <3>3. Max(T) = m + 1
        BY <2>6, <3>1, <3>2 DEF Max
      <3>4. low(T) \in SUBSET (1..m) /\ f[low(T)] \in X
        BY <2>2, <2>3
      <3>5. g[low(T)] = f[low(T)]
        <4> HIDE DEF low
        <4> QED
          BY <2>4, <3>4
      <3>6. g[T] = next[m + 1][f[low(T)]]
        BY <2>6
      <3> HIDE DEF g, low
      <3> QED
        BY <2>5, <3>3, <3>4, <3>5, <3>6
    <2>7. ASSUME NEW T \in SUBSET (1..(m + 1)), m + 1 \notin T, T # {}
          PROVE  g[T] = next[Max(T)][g[T \ {Max(T)}]] /\ g[T] \in X
      <3>1. T \in SUBSET (1..m) /\ T \ {Max(T)} \in SUBSET (1..m)
        BY <2>3, <2>7
      <3>2. f[T] = next[Max(T)][f[T \ {Max(T)}]] /\ f[T] \in X
        BY <2>2, <2>7, <3>1 DEF IsFold
      <3>3. g[T] = f[T] /\ g[T \ {Max(T)}] = f[T \ {Max(T)}]
        BY <2>4, <3>1
      <3> QED
        BY <3>2, <3>3
    <2>8. g[{}] = base
      <3>1. {} \in SUBSET (1..m) /\ f[{}] = base
        BY <2>2 DEF IsFold
      <3> QED
        BY <2>4, <3>1
    <2>9. g = [T \in SUBSET (1..(m + 1)) |-> g[T]]
      OBVIOUS
    <2> HIDE DEF g
    <2>10. \A T \in SUBSET (1..(m + 1)) :
               g[T] \in X /\ g[T] = IF T = {} THEN base ELSE next[Max(T)][g[T \ {Max(T)}]]
      BY <2>6, <2>7, <2>8
    <2>11. g \in [SUBSET (1..(m + 1)) -> X]
      BY <2>9, <2>10
    <2>12. IsFold(g, m + 1, base, next)
      BY <2>9, <2>10 DEF IsFold
    <2> QED
      BY <2>11, <2>12
  <1>3. Nat \subseteq Good
    <2> HIDE DEF Good
    <2> QED
      BY <1>1, <1>2, AllNaturals
  <1>4. Some(n)
    <2> HIDE DEF Some
    <2> QED
      BY <1>3
  <1> QED
    BY <1>4

-----------------------------------------------------------------------------
(* A function follows a recursion that ends at some elements, and leads    *)
(* from every other one to a successor.                                    *)
Descends(f, S, Halts, base, succ, after) ==
    \A s \in S : f[s] = IF s \in Halts THEN base[s] ELSE after[s][f[succ[s]]]

(* So has a recursion along a measure that falls.                          *)
LEMMA DescentExists ==
    ASSUME NEW S, NEW X, NEW n \in Nat, NEW measure, \A s \in S : measure[s] \in 0..n,
           NEW Halts, NEW base \in [S -> X], NEW succ \in [S -> S], NEW after \in [S -> [X -> X]],
           \A s \in S \ Halts : measure[succ[s]] < measure[s]
    PROVE  \E f \in [S -> X] : Descends(f, S, Halts, base, succ, after)
PROOF
  <1> DEFINE Begun(f, m) == /\ f \in [S -> X]
                            /\ \A s \in S : measure[s] < m =>
                                   f[s] = IF s \in Halts THEN base[s] ELSE after[s][f[succ[s]]]
             Some(m) == \E f : Begun(f, m)
             Good == {m \in Nat : Some(m)}
  <1>1. 0 \in Good
    <2>1. Begun(base, 0)
      OBVIOUS
    <2> QED
      BY <2>1
  <1>2. ASSUME NEW m \in Nat, m \in Good PROVE m + 1 \in Good
    <2>1. PICK f : Begun(f, m)
      BY <1>2
    <2> DEFINE g == [s \in S |-> IF measure[s] < m THEN f[s]
                                 ELSE IF s \in Halts THEN base[s] ELSE after[s][f[succ[s]]]]
    <2>2. g \in [S -> X]
      BY <2>1
    <2>3. ASSUME NEW s \in S, measure[s] < m + 1
          PROVE  g[s] = IF s \in Halts THEN base[s] ELSE after[s][g[succ[s]]]
      <3>1. g[s] = IF s \in Halts THEN base[s] ELSE after[s][f[succ[s]]]
        BY <2>1
      <3>2. s \notin Halts => g[succ[s]] = f[succ[s]]
        <4>1. s \notin Halts => measure[succ[s]] < m /\ succ[s] \in S
          BY <2>3
        <4> QED
          BY <4>1
      <3> HIDE DEF g
      <3> QED
        BY <3>1, <3>2
    <2>4. Begun(g, m + 1)
      <3> HIDE DEF g
      <3> QED
        BY <2>2, <2>3
    <2>5. Some(m + 1)
      <3> HIDE DEF Begun, g
      <3> QED
        BY <2>4
    <2> HIDE DEF Some
    <2> QED
      BY <2>5
  <1>3. Nat \subseteq Good
    <2> HIDE DEF Good
    <2> QED
      BY <1>1, <1>2, AllNaturals
  <1>6. Some(n + 1)
    <2> HIDE DEF Some
    <2> QED
      BY <1>3
  <1>4. PICK f : Begun(f, n + 1)
    BY <1>6
  <1>5. f \in [S -> X] /\ Descends(f, S, Halts, base, succ, after)
    BY <1>4 DEF Descends
  <1> QED
    BY <1>5

(* What holds at its end and is kept by every step holds everywhere.       *)
LEMMA DescentKeeps ==
    ASSUME NEW S, NEW measure, \A s \in S : measure[s] \in Nat, NEW succ, NEW Good,
           \A s \in S : s \in Good \/ (succ[s] \in S /\ measure[succ[s]] < measure[s] /\ (succ[s] \in Good => s \in Good))
    PROVE  S \subseteq Good
PROOF
  <1>1. SUFFICES ASSUME S \ Good # {} PROVE FALSE
    OBVIOUS
  <1> DEFINE M == {measure[s] : s \in S \ Good}
  <1>2. M \subseteq Nat /\ M # {}
    BY <1>1
  <1>3. PICK k \in M : \A m \in M : k <= m
    <2> HIDE DEF M
    <2> QED
      BY <1>2, LeastNatural
  <1>4. PICK s \in S \ Good : measure[s] = k
    OBVIOUS
  <1>5. succ[s] \in S \ Good /\ measure[succ[s]] < measure[s]
    OBVIOUS
  <1>6. k <= measure[succ[s]]
    BY <1>3, <1>5
  <1> QED
    BY <1>2, <1>4, <1>5, <1>6

(* What a value that a fold passes through keeps.                          *)
LEMMA FoldKeeps ==
    ASSUME NEW n \in Nat, NEW it, NEW G, it[1..0] \in G[0],
           \A k \in 1..n : it[1..(k - 1)] \in G[k - 1] => it[1..k] \in G[k]
    PROVE  \A k \in 0..n : it[1..k] \in G[k]
PROOF
  <1> DEFINE Good == {k \in Nat : k <= n => it[1..k] \in G[k]}
  <1>1. 0 \in Good
    OBVIOUS
  <1>2. ASSUME NEW k \in Nat, k \in Good PROVE k + 1 \in Good
    <2>1. SUFFICES ASSUME k + 1 <= n PROVE it[1..(k + 1)] \in G[k + 1]
      OBVIOUS
    <2> DEFINE m == k + 1
    <2>2. m \in 1..n /\ m - 1 = k /\ it[1..k] \in G[k]
      BY <1>2, <2>1
    <2> HIDE DEF m
    <2>3. it[1..m] \in G[m]
      BY <2>2
    <2> QED
      BY <2>3 DEF m
  <1>3. Nat \subseteq Good
    <2> HIDE DEF Good
    <2> QED
      BY <1>1, <1>2, AllNaturals
  <1> QED
    BY <1>3

(* The greatest of some of the first n numbers is one of them.             *)
LEMMA MaxIsIn ==
    ASSUME NEW n \in Nat, NEW T \in SUBSET (1..n), T # {}
    PROVE  Max(T) \in 1..n
PROOF
  <1>1. IsFiniteSet(1..n)
    BY FS_Interval
  <1>4. T \subseteq Int
    OBVIOUS
  <1>2. IsFiniteSet(T)
    BY <1>1, FS_Subset
  <1>3. Max(T) \in T
    BY <1>2, <1>4, MaxOfFinite
  <1> QED
    BY <1>3

(* A list of a set is a sequence of its elements.                          *)
LEMMA ListIsSequence ==
    ASSUME NEW S, IsFiniteSet(S), NEW s, Lists(s, S), NEW T, S \subseteq T
    PROVE  s \in Seq(T) /\ Len(s) = Cardinality(S) /\ Range(s) = S /\ DOMAIN s = 1..Cardinality(S)
PROOF
  <1> DEFINE n == Cardinality(S)
  <1>1. n \in Nat /\ s \in [1..n -> S] /\ \A x \in S : \E i \in 1..n : s[i] = x
    BY FS_CardinalityType DEF Lists
  <1> HIDE DEF n
  <1>2. s \in Seq(S)
    BY <1>1
  <1>3. s \in Seq(T)
    BY <1>2
  <1>4. Len(s) = n /\ DOMAIN s = 1..n
    BY <1>1, <1>2
  <1>5. Range(s) = S
    <2>1. \A x \in Range(s) : x \in S
      BY <1>1 DEF Range
    <2>2. \A x \in S : x \in Range(s)
      BY <1>1 DEF Range
    <2> QED
      BY <2>1, <2>2
  <1> QED
    BY <1>3, <1>4, <1>5 DEF n

(* The values of a function on a finite set, when they are numbers.        *)
LEMMA FiniteNumbers ==
    ASSUME NEW S, IsFiniteSet(S), NEW f, \A x \in S : f[x] \in Int
    PROVE  IsFiniteSet({f[x] : x \in S}) /\ {f[x] : x \in S} \subseteq Int
PROOF
  <1> DEFINE T == {f[x] : x \in S}
  <1>1. T \subseteq Int
    OBVIOUS
  <1>2. \A y \in T : \E x \in S : y = f[x]
    OBVIOUS
  <1> HIDE DEF T
  <1>3. IsFiniteSet(T)
    BY <1>2, FiniteImage
  <1> QED
    BY <1>1, <1>3 DEF T

(* A fold over the numbers up to n, told by its steps alone.               *)
FoldsOver(it, n, X, base, next) ==
    /\ it[{}] = base
    /\ \A T \in SUBSET (1..n) : T # {} /\ it[T \ {Max(T)}] \in X => it[T] = next[Max(T)][it[T \ {Max(T)}]]

(* The values of a fold over sequences, one after the other.               *)
LEMMA FoldAlong ==
    ASSUME NEW n \in Nat, NEW X, NEW base \in X, NEW next \in [1..n -> [X -> X]],
           NEW it, FoldsOver(it, n, X, base, next)
    PROVE  /\ it[1..0] = base /\ \A k \in 0..n : it[1..k] \in X
           /\ \A k \in 1..n : it[1..k] = next[k][it[1..(k - 1)]]
PROOF
  <1>1. it[1..0] = base
    <2>1. 1..0 = {}
      OBVIOUS
    <2> QED
      BY <2>1 DEF FoldsOver
  <1>2. ASSUME NEW k \in 1..n, it[1..(k - 1)] \in X
        PROVE  it[1..k] = next[k][it[1..(k - 1)]] /\ it[1..k] \in X
    <2> DEFINE T == 1..k
    <2>1. Max(T) = k /\ T \ {k} = 1..(k - 1) /\ T \in SUBSET (1..n) /\ T # {}
      BY MaxOfInterval
    <2> HIDE DEF T
    <2>2. it[T] = next[k][it[1..(k - 1)]]
      BY <1>2, <2>1 DEF FoldsOver
    <2>3. next[k][it[1..(k - 1)]] \in X
      BY <1>2
    <2> QED
      BY <2>2, <2>3 DEF T
  <1>3. \A k \in 0..n : it[1..k] \in X
    <2> DEFINE G == [k \in 0..n |-> X]
    <2>1. it[1..0] \in G[0]
      BY <1>1
    <2>2. \A k \in 1..n : it[1..(k - 1)] \in G[k - 1] => it[1..k] \in G[k]
      <3>1. \A k \in 1..n : k - 1 \in 0..n /\ k \in 0..n
        OBVIOUS
      <3>2. \A k \in 1..n : G[k - 1] = X /\ G[k] = X
        BY <3>1
      <3> HIDE DEF G
      <3> QED
        BY <1>2, <3>2
    <2>3. \A k \in 0..n : it[1..k] \in G[k]
      <3> HIDE DEF G
      <3> QED
        BY <2>1, <2>2, FoldKeeps
    <2> QED
      BY <2>3
  <1>4. \A k \in 1..n : k - 1 \in 0..n
    OBVIOUS
  <1> QED
    BY <1>1, <1>2, <1>3, <1>4

-----------------------------------------------------------------------------
(* Distances: Floyd and Warshall.                                          *)

(* A function follows a recursion over the first n naturals.               *)
Follows(f, n, x0, after) == f[0] = x0 /\ \A k \in 1..n : f[k] = after[k][f[k - 1]]

(* A recursion over the first n naturals has a function that follows it.   *)
LEMMA RecursionExists ==
    ASSUME NEW n \in Nat, NEW X, NEW x0 \in X, NEW after \in [1..n -> [X -> X]]
    PROVE  \E f \in [0..n -> X] : Follows(f, n, x0, after)
PROOF
  <1> DEFINE Begins(f, m) == /\ f \in [0..m -> X]
                              /\ \A k \in 0..m : f[k] = IF k = 0 THEN x0 ELSE after[k][f[k - 1]]
             Good == {m \in Nat : m <= n => \E f : Begins(f, m)}
  <1>1. 0 \in Good
    <2>1. Begins([k \in 0..0 |-> x0], 0)
      OBVIOUS
    <2> QED
      BY <2>1
  <1>2. ASSUME NEW m \in Nat, m \in Good PROVE m + 1 \in Good
    <2>1. SUFFICES ASSUME m + 1 <= n PROVE \E f : Begins(f, m + 1)
      OBVIOUS
    <2>2. PICK f : Begins(f, m)
      BY <1>2, <2>1
    <2> DEFINE g == [k \in 0..(m + 1) |-> IF k = m + 1 THEN after[k][f[m]] ELSE f[k]]
    <2>3. \A k \in 0..m : k \in 0..(m + 1) /\ g[k] = f[k] /\ f[k] \in X
      BY <2>2
    <2>4. m + 1 \in 1..n /\ g[m + 1] = after[m + 1][f[m]] /\ f[m] \in X
      BY <2>1, <2>2
    <2>5. g[m + 1] \in X
      BY <2>4
    <2>6. \A k \in 0..(m + 1) : k = m + 1 \/ k \in 0..m
      OBVIOUS
    <2>7. \A k \in 0..(m + 1) : g[k] \in X
      BY <2>3, <2>5, <2>6
    <2>8. g \in [0..(m + 1) -> X]
      <3>1. g = [k \in 0..(m + 1) |-> g[k]]
        OBVIOUS
      <3> HIDE DEF g
      <3> QED
        BY <2>7, <3>1
    <2>9. ASSUME NEW k \in 0..(m + 1) PROVE g[k] = IF k = 0 THEN x0 ELSE after[k][g[k - 1]]
      <3>1. CASE k = m + 1
        <4>1. m \in 0..m /\ g[m] = f[m]
          BY <2>3
        <4> QED
          BY <2>4, <3>1, <4>1
      <3>2. CASE k \in 0..m
        <4>1. f[k] = IF k = 0 THEN x0 ELSE after[k][f[k - 1]]
          BY <2>2, <3>2
        <4>2. k = 0 \/ k - 1 \in 0..m
          BY <3>2
        <4> HIDE DEF g
        <4> QED
          BY <2>3, <3>2, <4>1, <4>2
      <3> QED
        BY <2>6, <3>1, <3>2
    <2>10. Begins(g, m + 1)
      BY <2>8, <2>9
    <2> QED
      BY <2>10
  <1>3. n \in Good
    <2>1. Nat \subseteq Good
      <3> HIDE DEF Good
      <3> QED
        BY <1>1, <1>2, AllNaturals
    <2> QED
      BY <2>1
  <1>4. PICK f : Begins(f, n)
    BY <1>3
  <1>5. f \in [0..n -> X] /\ Follows(f, n, x0, after)
    BY <1>4 DEF Follows
  <1> QED
    BY <1>5

-----------------------------------------------------------------------------
(* What a walk along a sequence of nodes has taken at each of them.        *)
Taken(u, w, cost) ==
    /\ u \in [1..Len(w) -> Nat]
    /\ u[1] = 0
    /\ \A i \in 1..(Len(w) - 1) :
           /\ cost[<<w[i], w[i + 1]>>] \in Nat
           /\ u[i + 1] = u[i] + cost[<<w[i], w[i + 1]>>]

(* The total of a sequence of nodes is what the walk along it takes, and   *)
(* None if there is no such walk.                                          *)
LEMMA TotalOfWalk ==
    ASSUME NEW nodes, NEW w \in Seq(nodes), w # <<>>,
           NEW cost, \A a, b \in nodes : cost[<<a, b>>] \in Nat \cup {None}
    PROVE  /\ \A u : Taken(u, w, cost) => PathTotal(w, cost) = u[Len(w)]
           /\ PathTotal(w, cost) # None => \E u : Taken(u, w, cost)
PROOF
  <1> DEFINE n == Len(w)
             legs == [i \in 1..(n - 1) |-> cost[<<w[i], w[i + 1]>>]]
             before == [i \in 1..n |-> SumFunctionOnSet(legs, 1..(i - 1))]
  <1>1. n \in Nat /\ n >= 1 /\ \A i \in 1..n : w[i] \in nodes
    OBVIOUS
  <1>2. \A i \in 1..(n - 1) : legs[i] \in Nat \cup {None} /\ legs[i] = cost[<<w[i], w[i + 1]>>]
    BY <1>1
  <1>3. /\ PathTotal(w, cost) = IF None \in Range(legs) THEN None ELSE SumFunction(legs)
        /\ SumFunction(legs) = SumFunctionOnSet(legs, 1..(n - 1))
        /\ None \in Range(legs) <=> \E i \in 1..(n - 1) : legs[i] = None
    BY DEF PathTotal, SumFunction, Range
  <1>4. None \notin Nat
    BY NoneAssumption
  <1> HIDE DEF legs
  <1>5. ASSUME \A i \in 1..(n - 1) : legs[i] \in Nat
        PROVE  /\ before[1] = 0 /\ before[n] = SumFunctionOnSet(legs, 1..(n - 1))
               /\ \A i \in 1..(n - 1) : before[i + 1] = before[i] + legs[i] /\ before[i + 1] \in Int
    <2>1. before[1] = SumFunctionOnSet(legs, {}) /\ before[n] = SumFunctionOnSet(legs, 1..(n - 1))
      <3>1. 1..(1 - 1) = {}
        OBVIOUS
      <3> QED
        BY <1>1, <3>1
    <2>2. ASSUME NEW i \in 1..(n - 1)
          PROVE  before[i + 1] = before[i] + legs[i] /\ before[i + 1] \in Int
      <3>1. /\ i \in 1..n /\ i + 1 \in 1..n
            /\ 1..((i + 1) - 1) = (1..(i - 1)) \cup {i} /\ i \notin 1..(i - 1)
        BY <1>1
      <3>2. IsFiniteSet(1..(i - 1)) /\ IsFiniteSet((1..(i - 1)) \cup {i})
        <4>1. 1 \in Int /\ i - 1 \in Int
          BY <1>1
        <4> QED
          BY <4>1, FS_Interval, FS_AddElement
      <3>3. \A y \in (1..(i - 1)) \cup {i} : legs[y] \in Int
        BY <1>1, <1>5
      <3>4. SumFunctionOnSet(legs, (1..(i - 1)) \cup {i}) = legs[i] + SumFunctionOnSet(legs, 1..(i - 1))
        BY <3>1, <3>2, <3>3, SumAdds
      <3>5. SumFunctionOnSet(legs, 1..(i - 1)) \in Int /\ SumFunctionOnSet(legs, (1..(i - 1)) \cup {i}) \in Int
        BY <3>2, <3>3, SumTakes
      <3>6. before[i + 1] = SumFunctionOnSet(legs, (1..(i - 1)) \cup {i})
            /\ before[i] = SumFunctionOnSet(legs, 1..(i - 1))
        BY <3>1
      <3> HIDE DEF before
      <3> QED
        BY <3>3, <3>4, <3>5, <3>6
    <2> QED
      BY <2>1, <2>2, SumOfNothing
  <1> HIDE DEF before
  <1>6. ASSUME NEW u, Taken(u, w, cost) PROVE PathTotal(w, cost) = u[n]
    <2>1. /\ \A i \in 1..n : u[i] \in Nat
          /\ u[1] = 0 /\ \A i \in 1..(n - 1) : legs[i] \in Nat /\ u[i + 1] = u[i] + legs[i]
      <3>1. u \in [1..n -> Nat] /\ u[1] = 0
        BY <1>6 DEF Taken
      <3>2. ASSUME NEW i \in 1..(n - 1) PROVE legs[i] \in Nat /\ u[i + 1] = u[i] + legs[i]
        <4>1. cost[<<w[i], w[i + 1]>>] \in Nat /\ u[i + 1] = u[i] + cost[<<w[i], w[i + 1]>>]
          BY <1>6 DEF Taken
        <4> QED
          BY <1>2, <4>1
      <3> QED
        BY <3>1, <3>2
    <2>2. PathTotal(w, cost) = before[n]
      BY <1>3, <1>4, <1>5, <2>1
    <2> DEFINE Good == {i \in Nat : i + 1 \in 1..n => u[i + 1] = before[i + 1]}
    <2>3. 0 \in Good
      BY <1>5, <2>1
    <2>4. ASSUME NEW i \in Nat, i \in Good PROVE i + 1 \in Good
      <3>1. SUFFICES ASSUME (i + 1) + 1 \in 1..n PROVE u[(i + 1) + 1] = before[(i + 1) + 1]
        OBVIOUS
      <3>2. i + 1 \in 1..(n - 1) /\ u[i + 1] = before[i + 1]
        BY <1>1, <2>4, <3>1
      <3> QED
        BY <1>5, <2>1, <3>2
    <2>5. Nat \subseteq Good
      <3> HIDE DEF Good
      <3> QED
        BY <2>3, <2>4, AllNaturals
    <2>6. n - 1 \in Nat /\ (n - 1) + 1 = n
      BY <1>1
    <2>7. u[(n - 1) + 1] = before[(n - 1) + 1]
      BY <1>1, <2>5, <2>6
    <2> QED
      BY <2>2, <2>6, <2>7
  <1>7. ASSUME PathTotal(w, cost) # None PROVE \E u : Taken(u, w, cost)
    <2>1. \A i \in 1..(n - 1) : legs[i] \in Nat
      BY <1>2, <1>3, <1>7
    <2>2. /\ before[1] = 0
          /\ \A i \in 1..(n - 1) : before[i + 1] = before[i] + legs[i]
      BY <1>5, <2>1
    <2> DEFINE Good == {i \in Nat : i + 1 \in 1..n => before[i + 1] \in Nat}
    <2>3. 0 \in Good
      BY <2>2
    <2>4. ASSUME NEW i \in Nat, i \in Good PROVE i + 1 \in Good
      <3>1. SUFFICES ASSUME (i + 1) + 1 \in 1..n PROVE before[(i + 1) + 1] \in Nat
        OBVIOUS
      <3>2. i + 1 \in 1..(n - 1) /\ before[i + 1] \in Nat
        BY <1>1, <2>4, <3>1
      <3> QED
        BY <2>1, <2>2, <3>2
    <2>5. Nat \subseteq Good
      <3> HIDE DEF Good
      <3> QED
        BY <2>3, <2>4, AllNaturals
    <2>6. ASSUME NEW i \in 1..n PROVE before[i] \in Nat
      <3>1. i - 1 \in Nat /\ (i - 1) + 1 = i
        OBVIOUS
      <3>2. i - 1 \in Good
        BY <2>5, <3>1
      <3> QED
        BY <3>1, <3>2
    <2>7. before \in [1..n -> Nat]
      <3>1. before = [i \in 1..n |-> before[i]]
        BY DEF before
      <3> QED
        BY <2>6, <3>1
    <2>8. Taken(before, w, cost)
      BY <1>2, <2>1, <2>2, <2>7 DEF Taken
    <2> QED
      BY <2>8
  <1> QED
    BY <1>6, <1>7

(* What has been taken up to a place only grows along a walk.              *)
LEMMA TakenGrows ==
    ASSUME NEW w, Len(w) \in Nat, NEW cost, NEW y, Taken(y, w, cost), NEW j \in 1..Len(w), NEW l \in j..Len(w)
    PROVE  y[j] <= y[l]
PROOF
  <1>1. /\ \A m \in 1..Len(w) : y[m] \in Nat
        /\ \A m \in 1..(Len(w) - 1) :
               cost[<<w[m], w[m + 1]>>] \in Nat /\ y[m + 1] = y[m] + cost[<<w[m], w[m + 1]>>]
    BY DEF Taken
  <1> DEFINE Good == {m \in Nat : j + m \in j..Len(w) => y[j] <= y[j + m]}
  <1>2. 0 \in Good
    <2>1. j + 0 = j /\ y[j] \in Nat
      BY <1>1
    <2> QED
      BY <2>1
  <1>3. ASSUME NEW m \in Nat, m \in Good PROVE m + 1 \in Good
    <2>1. SUFFICES ASSUME j + (m + 1) \in j..Len(w) PROVE y[j] <= y[j + (m + 1)]
      OBVIOUS
    <2>2. /\ j + m \in 1..(Len(w) - 1) /\ j + m \in 1..Len(w) /\ j + m \in j..Len(w)
          /\ (j + m) + 1 = j + (m + 1)
      BY <2>1
    <2>3. /\ y[(j + m) + 1] = y[j + m] + cost[<<w[j + m], w[(j + m) + 1]>>]
          /\ cost[<<w[j + m], w[(j + m) + 1]>>] \in Nat
      BY <1>1, <2>2
    <2>4. y[j] <= y[j + m] /\ y[j] \in Nat /\ y[j + m] \in Nat
      BY <1>1, <1>3, <2>2
    <2>5. y[(j + m) + 1] >= y[j + m]
      BY <2>3, <2>4
    <2> QED
      BY <2>2, <2>3, <2>4, <2>5
  <1>4. Nat \subseteq Good
    <2> HIDE DEF Good
    <2> QED
      BY <1>2, <1>3, AllNaturals
  <1>5. l - j \in Nat /\ j + (l - j) = l
    OBVIOUS
  <1> QED
    BY <1>4, <1>5

(* Two walks that meet, the first up to where they do and then the second. *)
Glued(w, i, v, j) == [m \in 1..(i + (Len(v) - j)) |-> IF m <= i THEN w[m] ELSE v[(m - i) + j]]

(* A walk that takes what the one took up to i, and the other from j on.   *)
IsGlued(g, nodes, w, i, v, j, x, y, cost) ==
    /\ g \in Seq(nodes) /\ Len(g) = i + (Len(v) - j) /\ Len(g) >= 1
    /\ g[1] = w[1] /\ g[Len(g)] = v[Len(v)]
    /\ \E z : Taken(z, g, cost) /\ z[Len(g)] = x[i] + (y[Len(v)] - y[j])

(* It is a walk, and takes what its two parts take. *)
LEMMA GluedWalk ==
    ASSUME NEW nodes, NEW w \in Seq(nodes), NEW v \in Seq(nodes),
           NEW i \in 1..Len(w), NEW j \in 1..Len(v), w[i] = v[j],
           NEW cost, NEW x, Taken(x, w, cost), NEW y, Taken(y, v, cost)
    PROVE  IsGlued(Glued(w, i, v, j), nodes, w, i, v, j, x, y, cost)
PROOF
  <1> DEFINE n == Len(v)
             size == i + (n - j)
             g == Glued(w, i, v, j)
             z == [m \in 1..size |-> IF m <= i THEN x[m] ELSE x[i] + (y[(m - i) + j] - y[j])]
  <1>1. /\ Len(w) \in Nat /\ n \in Nat /\ i \in Nat /\ j \in Nat /\ 1 <= i /\ i <= Len(w) /\ 1 <= j /\ j <= n
        /\ size \in Nat /\ i <= size /\ \A m \in 1..Len(w) : w[m] \in nodes
        /\ \A m \in 1..n : v[m] \in nodes
    OBVIOUS
  <1>2. /\ \A m \in 1..Len(w) : x[m] \in Nat
        /\ x[1] = 0
        /\ \A m \in 1..(Len(w) - 1) :
               cost[<<w[m], w[m + 1]>>] \in Nat /\ x[m + 1] = x[m] + cost[<<w[m], w[m + 1]>>]
    BY DEF Taken
  <1>3. /\ \A m \in 1..n : y[m] \in Nat
        /\ \A m \in 1..(n - 1) :
               cost[<<v[m], v[m + 1]>>] \in Nat /\ y[m + 1] = y[m] + cost[<<v[m], v[m + 1]>>]
    BY DEF Taken
  <1>4. /\ \A m \in 1..i : g[m] = w[m] /\ z[m] = x[m]
        /\ \A m \in j..n : (m - j) + i \in 1..size /\ g[(m - j) + i] = v[m] /\ z[(m - j) + i] = x[i] + (y[m] - y[j])
    <2>1. ASSUME NEW m \in 1..i PROVE g[m] = w[m] /\ z[m] = x[m]
      BY <1>1 DEF Glued
    <2>2. ASSUME NEW m \in j..n
          PROVE  (m - j) + i \in 1..size /\ g[(m - j) + i] = v[m] /\ z[(m - j) + i] = x[i] + (y[m] - y[j])
      <3>1. (m - j) + i \in 1..size /\ ((m - j) + i <= i <=> m = j) /\ (((m - j) + i) - i) + j = m
        BY <1>1
      <3>2. CASE m = j
        <4>1. (m - j) + i = i
          BY <1>1, <3>2
        <4>2. x[i] \in Nat /\ y[j] \in Nat
          BY <1>1, <1>2, <1>3
        <4>3. x[i] + (y[j] - y[j]) = x[i]
          BY <4>2
        <4>4. i \in 1..i /\ g[i] = w[i] /\ z[i] = x[i]
          <5>1. i \in 1..i
            BY <1>1
          <5> HIDE DEF g, z
          <5> QED
            BY <2>1, <5>1
        <4> HIDE DEF g, z
        <4>5. g[(m - j) + i] = v[m] /\ z[(m - j) + i] = x[i] + (y[m] - y[j])
          BY <3>2, <4>1, <4>3, <4>4
        <4> QED
          BY <3>1, <4>5
      <3>3. CASE m # j
        <4>1. ~((m - j) + i <= i)
          BY <3>1, <3>3
        <4> QED
          BY <3>1, <4>1 DEF Glued
      <3> QED
        BY <3>2, <3>3
    <2> QED
      BY <2>1, <2>2
  <1>5. \A m \in 1..size : m \in 1..i \/ \E l \in (j + 1)..n : m = (l - j) + i
    <2>1. ASSUME NEW m \in 1..size, m \notin 1..i PROVE (m - i) + j \in (j + 1)..n /\ m = (((m - i) + j) - j) + i
      BY <1>1, <2>1
    <2> QED
      BY <2>1
  <1>6. \A m \in 1..size : g[m] \in nodes /\ z[m] \in Nat
    <2>1. ASSUME NEW m \in 1..i PROVE g[m] \in nodes /\ z[m] \in Nat
      <3>1. m \in 1..Len(w)
        BY <1>1
      <3> HIDE DEF g, z
      <3> QED
        BY <1>1, <1>2, <1>4, <3>1
    <2>3. ASSUME NEW l \in (j + 1)..n PROVE g[(l - j) + i] \in nodes /\ z[(l - j) + i] \in Nat
      <3>1. l \in j..n /\ l \in 1..n /\ l - j \in Nat /\ j + (l - j) = l
        BY <1>1
      <3>2. y[j] <= y[l]
        BY <1>1, <3>1, TakenGrows
      <3>3. g[(l - j) + i] = v[l] /\ z[(l - j) + i] = x[i] + (y[l] - y[j])
        BY <1>4, <3>1
      <3>4. y[j] \in Nat /\ y[l] \in Nat /\ x[i] \in Nat
        BY <1>1, <1>2, <1>3, <3>1
      <3>5. x[i] + (y[l] - y[j]) \in Nat
        BY <3>2, <3>4
      <3> HIDE DEF g, z
      <3> QED
        BY <1>1, <3>1, <3>3, <3>5
    <2> HIDE DEF g, z, size
    <2> QED
      BY <1>5, <2>1, <2>3
  <1>7. g \in Seq(nodes) /\ Len(g) = size
    <2>1. g = [m \in 1..size |-> g[m]]
      BY DEF Glued
    <2> HIDE DEF g
    <2>2. size \in Nat /\ g \in [1..size -> nodes]
      BY <1>1, <1>6, <2>1
    <2> HIDE DEF size
    <2> QED
      BY <2>2
  <1>8. z \in [1..size -> Nat]
    <2>1. z = [m \in 1..size |-> z[m]]
      OBVIOUS
    <2> HIDE DEF z
    <2> QED
      BY <1>6, <2>1
  <1> HIDE DEF g, z
  <1>9. g[1] = w[1] /\ z[1] = 0
    BY <1>1, <1>2, <1>4
  <1>10. g[size] = v[n] /\ z[size] = x[i] + (y[n] - y[j])
    <2>1. n \in j..n /\ (n - j) + i = size
      BY <1>1
    <2> QED
      BY <1>4, <2>1
  <1>11. ASSUME NEW m \in 1..(size - 1)
         PROVE  cost[<<g[m], g[m + 1]>>] \in Nat /\ z[m + 1] = z[m] + cost[<<g[m], g[m + 1]>>]
    <2>1. CASE m < i
      <3>1. m \in 1..i /\ m + 1 \in 1..i /\ m \in 1..(Len(w) - 1)
        BY <1>1, <2>1
      <3> QED
        BY <1>2, <1>4, <3>1
    <2>2. CASE m >= i
      <3> DEFINE l == (m - i) + j
      <3>1. /\ l \in j..n /\ l + 1 \in j..n /\ l \in 1..(n - 1) /\ l \in 1..n /\ l + 1 \in 1..n
            /\ (l - j) + i = m /\ ((l + 1) - j) + i = m + 1
        BY <1>1, <2>2
      <3> HIDE DEF l
      <3>2. /\ g[m] = v[l] /\ g[m + 1] = v[l + 1]
            /\ z[m] = x[i] + (y[l] - y[j]) /\ z[m + 1] = x[i] + (y[l + 1] - y[j])
        BY <1>4, <3>1
      <3>3. /\ cost[<<v[l], v[l + 1]>>] \in Nat /\ y[l + 1] = y[l] + cost[<<v[l], v[l + 1]>>]
            /\ x[i] \in Nat /\ y[l] \in Nat /\ y[j] \in Nat
        BY <1>1, <1>2, <1>3, <3>1
      <3>4. cost[<<g[m], g[m + 1]>>] = cost[<<v[l], v[l + 1]>>]
        BY <3>2
      <3> DEFINE c == cost[<<v[l], v[l + 1]>>]
                 b == x[i]
                 d == y[l]
                 e == y[j]
      <3>5. c \in Nat /\ b \in Nat /\ d \in Nat /\ e \in Nat /\ z[m] = b + (d - e) /\ z[m + 1] = b + ((d + c) - e)
        BY <3>2, <3>3
      <3>6. cost[<<g[m], g[m + 1]>>] = c
        BY <3>4
      <3> HIDE DEF c, b, d, e
      <3> QED
        BY <3>5, <3>6
    <2> QED
      BY <1>1, <2>1, <2>2
  <1>12. Taken(z, g, cost)
    BY <1>7, <1>8, <1>9, <1>11 DEF Taken
  <1>13. Len(g) >= 1
    BY <1>1, <1>7
  <1> QED
    BY <1>7, <1>9, <1>10, <1>12, <1>13 DEF g, IsGlued

-----------------------------------------------------------------------------
(* Weights, of which None is the greatest.                                 *)
AtMostAs(x, y) == y = None \/ (x # None /\ x <= y)
(* The sum of two weights, None if one of them is.                         *)
Plus(x, y) == IF None \in {x, y} THEN None ELSE x + y

(* The total of two steps, one after the other.                            *)
LEMMA TotalOfThree ==
    ASSUME NEW cost, NEW a, NEW b, NEW c,
           cost[<<a, b>>] \in Nat \cup {None}, cost[<<b, c>>] \in Nat \cup {None}
    PROVE  PathTotal(<<a, b, c>>, cost) = Plus(cost[<<a, b>>], cost[<<b, c>>])
PROOF
  <1> DEFINE w == <<a, b, c>>
             legs == [i \in 1..(Len(w) - 1) |-> cost[<<w[i], w[i + 1]>>]]
  <1>1. DOMAIN legs = {1, 2} /\ legs[1] = cost[<<a, b>>] /\ legs[2] = cost[<<b, c>>]
    OBVIOUS
  <1>2. PathTotal(w, cost) = IF None \in Range(legs) THEN None ELSE SumFunctionOnSet(legs, DOMAIN legs)
    BY DEF PathTotal, SumFunction
  <1> HIDE DEF legs
  <1>3. None \in Range(legs) <=> None \in {cost[<<a, b>>], cost[<<b, c>>]}
    BY <1>1 DEF Range
  <1>4. ASSUME None \notin {cost[<<a, b>>], cost[<<b, c>>]}
        PROVE  SumFunctionOnSet(legs, {1, 2}) = cost[<<a, b>>] + cost[<<b, c>>]
    <2>1. IsFiniteSet({1, 2})
      <3>1. {1, 2} = {1} \cup {2}
        OBVIOUS
      <3>2. IsFiniteSet({1})
        BY FS_Singleton
      <3> QED
        BY <3>1, <3>2, FS_AddElement
    <2>2. legs[1] \in Int /\ legs[2] \in Int /\ \A y \in {1, 2} \ {1, 2} : legs[y] = 0
      BY <1>1, <1>4
    <2>3. SumFunctionOnSet(legs, {1, 2}) = legs[1] + legs[2]
      BY <2>1, <2>2, SumOfTwo
    <2> QED
      BY <1>1, <2>3
  <1> QED
    BY <1>1, <1>2, <1>3, <1>4 DEF Plus

(* The table before any node is passed through, and after the k-th.        *)
Arcs(n, arcs) ==
    [ab \in (1..n) \X (1..n) |->
        IF ab[1] = ab[2] THEN 0
        ELSE IF {arc.weight : arc \in {x \in arcs : x.from = ab[1] /\ x.to = ab[2]}} = {} THEN None
        ELSE Min({arc.weight : arc \in {x \in arcs : x.from = ab[1] /\ x.to = ab[2]}})]

(* The way from a to b by node k.                                          *)
By(dist, k, ab) == PathTotal(<<ab[1], k, ab[2]>>, dist)

(* The table once node k may be passed through.                            *)
NextTable(dist, k) ==
    [ab \in DOMAIN dist |-> IF Cheaper(By(dist, k, ab), dist[ab]) THEN By(dist, k, ab) ELSE dist[ab]]

(* The first table has weights, or None.                                   *)
LEMMA ArcsAreWeights ==
    ASSUME NEW n \in Nat, NEW arcs, \A arc \in arcs : arc.weight \in Nat
    PROVE  Arcs(n, arcs) \in [(1..n) \X (1..n) -> Nat \cup {None}]
PROOF
  <1>1. ASSUME NEW S, S \subseteq Nat, S # {} PROVE Min(S) \in Nat
    <2>1. \E x \in S : \A y \in S : x <= y
      BY <1>1, LeastNatural
    <2> QED
      BY <1>1, <2>1 DEF Min
  <1>2. ASSUME NEW ab \in (1..n) \X (1..n) PROVE Arcs(n, arcs)[ab] \in Nat \cup {None}
    <2> DEFINE S == {arc.weight : arc \in {x \in arcs : x.from = ab[1] /\ x.to = ab[2]}}
    <2>1. S \subseteq Nat
      OBVIOUS
    <2>2. Arcs(n, arcs)[ab] = IF ab[1] = ab[2] THEN 0 ELSE IF S = {} THEN None ELSE Min(S)
      BY DEF Arcs
    <2> HIDE DEF S
    <2>3. S # {} => Min(S) \in Nat
      BY <1>1, <2>1
    <2> QED
      BY <2>2, <2>3
  <1>3. Arcs(n, arcs) = [ab \in (1..n) \X (1..n) |-> Arcs(n, arcs)[ab]]
    BY DEF Arcs
  <1> QED
    BY <1>2, <1>3

(* So have the next ones, which take the better one of two ways.           *)
LEMMA NextTableIs ==
    ASSUME NEW n \in Nat, NEW dist \in [(1..n) \X (1..n) -> Nat \cup {None}], NEW k \in 1..n
    PROVE  /\ NextTable(dist, k) \in [(1..n) \X (1..n) -> Nat \cup {None}]
           /\ \A a, b \in 1..n :
                  LET through == Plus(dist[<<a, k>>], dist[<<k, b>>])
                  IN  NextTable(dist, k)[<<a, b>>] = IF AtMostAs(dist[<<a, b>>], through) THEN dist[<<a, b>>]
                                                     ELSE through
PROOF
  <1>1. ASSUME NEW a \in 1..n, NEW b \in 1..n
        PROVE  /\ NextTable(dist, k)[<<a, b>>] =
                      IF AtMostAs(dist[<<a, b>>], Plus(dist[<<a, k>>], dist[<<k, b>>])) THEN dist[<<a, b>>]
                      ELSE Plus(dist[<<a, k>>], dist[<<k, b>>])
               /\ NextTable(dist, k)[<<a, b>>] \in Nat \cup {None}
    <2>1. /\ dist[<<a, b>>] \in Nat \cup {None} /\ dist[<<a, k>>] \in Nat \cup {None}
          /\ dist[<<k, b>>] \in Nat \cup {None} /\ <<a, b>> \in DOMAIN dist
      OBVIOUS
    <2>2. By(dist, k, <<a, b>>) = Plus(dist[<<a, k>>], dist[<<k, b>>])
      BY <2>1, TotalOfThree DEF By
    <2>3. NextTable(dist, k)[<<a, b>>] = IF Cheaper(By(dist, k, <<a, b>>), dist[<<a, b>>])
                                         THEN By(dist, k, <<a, b>>) ELSE dist[<<a, b>>]
      BY <2>1 DEF NextTable
    <2>4. Plus(dist[<<a, k>>], dist[<<k, b>>]) \in Nat \cup {None}
      BY <2>1 DEF Plus
    <2>5. None \notin Nat
      BY NoneAssumption
    <2>6. Cheaper(By(dist, k, <<a, b>>), dist[<<a, b>>])
          <=> ~AtMostAs(dist[<<a, b>>], Plus(dist[<<a, k>>], dist[<<k, b>>]))
      BY <2>1, <2>2, <2>4, <2>5 DEF Cheaper, AtMostAs
    <2> QED
      BY <2>1, <2>2, <2>3, <2>4, <2>6
  <1>2. \A ab \in (1..n) \X (1..n) : NextTable(dist, k)[ab] \in Nat \cup {None}
    <2> SUFFICES ASSUME NEW ab \in (1..n) \X (1..n) PROVE NextTable(dist, k)[ab] \in Nat \cup {None}
      OBVIOUS
    <2>1. PICK a \in 1..n, b \in 1..n : ab = <<a, b>>
      OBVIOUS
    <2> QED
      BY <1>1, <2>1
  <1>3. NextTable(dist, k) = [ab \in (1..n) \X (1..n) |-> NextTable(dist, k)[ab]]
    BY DEF NextTable
  <1> QED
    BY <1>1, <1>2, <1>3

(* The tables there are one after another, the last of which is the result.*)
LEMMA TablesAre ==
    ASSUME NEW n \in Nat, NEW arcs, \A arc \in arcs : arc.weight \in Nat
    PROVE  \E tables \in [0..n -> [(1..n) \X (1..n) -> Nat \cup {None}]] :
               /\ tables[0] = Arcs(n, arcs)
               /\ \A k \in 1..n : tables[k] = NextTable(tables[k - 1], k)
               /\ FloydWarshall(n, arcs) = tables[n]
PROOF
  <1> DEFINE X == [(1..n) \X (1..n) -> Nat \cup {None}]
             after == [k \in 1..n |-> [dist \in X |-> NextTable(dist, k)]]
             Follow(f) == f = [k \in 0..n |-> IF k = 0 THEN Arcs(n, arcs) ELSE NextTable(f[k - 1], k)]
             ways == CHOOSE f : Follow(f)
  <1>1. FloydWarshall(n, arcs) = ways[n]
    BY ZenonT(40) DEF FloydWarshall, Arcs, NextTable, By
  <1>2. \E f \in [0..n -> X] : Follow(f)
    <2>1. Arcs(n, arcs) \in X
      BY ArcsAreWeights
    <2>2. after \in [1..n -> [X -> X]]
      BY NextTableIs
    <2>3. PICK f \in [0..n -> X] : Follows(f, n, Arcs(n, arcs), after)
      <3> HIDE DEF after, X
      <3> QED
        BY <2>1, <2>2, RecursionExists
    <2>4. \A k \in 1..n : after[k][f[k - 1]] = NextTable(f[k - 1], k)
      <3>1. \A k \in 1..n : k - 1 \in 0..n
        OBVIOUS
      <3> HIDE DEF X
      <3> QED
        BY <3>1
    <2>5. Follow(f)
      <3>1. f = [k \in 0..n |-> f[k]]
        OBVIOUS
      <3>2. \A k \in 0..n : k = 0 \/ k \in 1..n
        OBVIOUS
      <3> HIDE DEF after, X
      <3>3. \A k \in 0..n : f[k] = IF k = 0 THEN Arcs(n, arcs) ELSE NextTable(f[k - 1], k)
        BY <2>3, <2>4, <3>2 DEF Follows
      <3> QED
        BY <3>1, <3>3
    <2> QED
      BY <2>5
  <1>3. Follow(ways)
    <2> HIDE DEF Follow
    <2> QED
      BY <1>2
  <1>4. /\ ways[0] = Arcs(n, arcs) /\ \A k \in 1..n : ways[k] = NextTable(ways[k - 1], k)
        /\ ways = [k \in 0..n |-> ways[k]]
    <2> HIDE DEF ways
    <2> QED
      BY <1>3
  <1> HIDE DEF ways
  <1>5. \A k \in 0..n : ways[k] \in X
    <2> DEFINE Good == {k \in Nat : k <= n => ways[k] \in X}
    <2>1. 0 \in Good
      <3>1. Arcs(n, arcs) \in X
        BY ArcsAreWeights
      <3>2. ways[0] = Arcs(n, arcs)
        BY <1>4
      <3> HIDE DEF X
      <3> QED
        BY <3>1, <3>2
    <2>2. ASSUME NEW k \in Nat, k \in Good PROVE k + 1 \in Good
      <3>1. SUFFICES ASSUME k + 1 <= n PROVE ways[k + 1] \in X
        <4> HIDE DEF X
        <4> QED
          OBVIOUS
      <3>2. ways[k] \in X /\ k + 1 \in 1..n /\ (k + 1) - 1 = k
        BY <2>2, <3>1
      <3>3. ways[k + 1] = NextTable(ways[k], k + 1)
        BY <1>4, <3>2
      <3>4. \A dist \in X : NextTable(dist, k + 1) \in X
        BY <3>2, NextTableIs
      <3> HIDE DEF X
      <3> QED
        BY <3>2, <3>3, <3>4
    <2>3. Nat \subseteq Good
      <3> HIDE DEF Good
      <3> QED
        BY <2>1, <2>2, AllNaturals
    <2> HIDE DEF X
    <2> QED
      BY <2>3
  <1>6. ways \in [0..n -> X]
    BY <1>4, <1>5
  <1> QED
    BY <1>1, <1>4, <1>6

-----------------------------------------------------------------------------
(* A table of weights between nodes 1..n in which no way through one of    *)
(* the first k is lighter, and every weight is that of a walk.             *)
IsWay(cost, n, w, u, a, b, weight) ==
    /\ w \in Seq(1..n) /\ w # <<>> /\ Taken(u, w, cost)
    /\ w[1] = a /\ w[Len(w)] = b /\ u[Len(w)] = weight

(* No step, and no way through a node up to k, is better than what the     *)
(* table has.                                                              *)
Underbids(t, n, k, cost) ==
    /\ \A a \in 1..n : t[<<a, a>>] = 0
    /\ \A a, b \in 1..n : AtMostAs(t[<<a, b>>], cost[<<a, b>>])
    /\ \A j \in 1..k : \A a, b \in 1..n : AtMostAs(t[<<a, b>>], Plus(t[<<a, j>>], t[<<j, b>>]))

(* Every weight that the table has was taken by a walk.                    *)
IsWalked(t, n, cost) ==
    \A a, b \in 1..n : t[<<a, b>>] # None => \E w, u : IsWay(cost, n, w, u, a, b, t[<<a, b>>])

(* With one node more to pass through, a table underbids every walk        *)
(* through the nodes up to it.                                             *)
LEMMA NextUnderbids ==
    ASSUME NEW n \in Nat, NEW k \in 1..n, NEW t \in [(1..n) \X (1..n) -> Nat \cup {None}],
           NEW cost \in [(1..n) \X (1..n) -> Nat \cup {None}], Underbids(t, n, k - 1, cost)
    PROVE  Underbids(NextTable(t, k), n, k, cost)
PROOF
  <1> DEFINE next == NextTable(t, k)
             way(a, b) == Plus(t[<<a, k>>], t[<<k, b>>])
  <1>1. /\ \A a, b \in 1..n : t[<<a, b>>] \in Nat \cup {None} /\ cost[<<a, b>>] \in Nat \cup {None}
        /\ None \notin Nat
    BY NoneAssumption
  <1>2. \A a, b \in 1..n : next[<<a, b>>] = IF AtMostAs(t[<<a, b>>], way(a, b)) THEN t[<<a, b>>] ELSE way(a, b)
    BY NextTableIs
  <1>3. \A a \in 1..n : t[<<a, a>>] = 0
    BY DEF Underbids
  <1>4. \A a \in 1..n : next[<<a, k>>] = t[<<a, k>>] /\ next[<<k, a>>] = t[<<k, a>>]
    <2>1. ASSUME NEW a \in 1..n PROVE AtMostAs(t[<<a, k>>], way(a, k)) /\ AtMostAs(t[<<k, a>>], way(k, a))
      BY <1>1, <1>3 DEF AtMostAs, Plus
    <2> HIDE DEF way, next
    <2> QED
      BY <1>2, <2>1
  <1>5. \A a, b \in 1..n : way(a, b) \in Nat \cup {None}
    BY <1>1 DEF Plus
  <1> HIDE DEF next
  <1>6. \A a, b \in 1..n : /\ AtMostAs(next[<<a, b>>], t[<<a, b>>])
                           /\ AtMostAs(next[<<a, b>>], way(a, b))
                           /\ next[<<a, b>>] \in {t[<<a, b>>], way(a, b)}
    <2>1. ASSUME NEW x \in Nat \cup {None}, NEW y \in Nat \cup {None}, NEW z,
                 z = IF AtMostAs(x, y) THEN x ELSE y
          PROVE  AtMostAs(z, x) /\ AtMostAs(z, y) /\ z \in {x, y}
      BY <1>1, <2>1 DEF AtMostAs
    <2>2. ASSUME NEW a \in 1..n, NEW b \in 1..n
          PROVE  /\ AtMostAs(next[<<a, b>>], t[<<a, b>>])
                 /\ AtMostAs(next[<<a, b>>], way(a, b))
                 /\ next[<<a, b>>] \in {t[<<a, b>>], way(a, b)}
      <3>1. t[<<a, b>>] \in Nat \cup {None} /\ way(a, b) \in Nat \cup {None}
            /\ next[<<a, b>>] = IF AtMostAs(t[<<a, b>>], way(a, b)) THEN t[<<a, b>>] ELSE way(a, b)
        BY <1>1, <1>2, <1>5
      <3> HIDE DEF way
      <3> QED
        BY <2>1, <3>1
    <2> QED
      BY <2>2
  <1>7. ASSUME NEW a \in 1..n PROVE next[<<a, a>>] = 0
    <2>1. AtMostAs(0, way(a, a))
      BY <1>1, <1>5 DEF AtMostAs
    <2> QED
      BY <1>2, <1>3, <2>1
  <1>8. ASSUME NEW a \in 1..n, NEW b \in 1..n PROVE AtMostAs(next[<<a, b>>], cost[<<a, b>>])
    <2>1. AtMostAs(t[<<a, b>>], cost[<<a, b>>])
      BY DEF Underbids
    <2>2. AtMostAs(next[<<a, b>>], t[<<a, b>>]) /\ next[<<a, b>>] \in Nat \cup {None}
      BY <1>1, <1>5, <1>6
    <2> QED
      BY <1>1, <2>1, <2>2 DEF AtMostAs
  <1>9. ASSUME NEW j \in 1..k, NEW a \in 1..n, NEW b \in 1..n
        PROVE  AtMostAs(next[<<a, b>>], Plus(next[<<a, j>>], next[<<j, b>>]))
    <2>1. CASE j = k
      BY <1>4, <1>6, <2>1
    <2>2. CASE j # k
      <3>1. j \in 1..(k - 1) /\ j \in 1..n
        BY <2>2
      <3>2. /\ AtMostAs(t[<<a, b>>], Plus(t[<<a, j>>], t[<<j, b>>]))
            /\ AtMostAs(t[<<a, k>>], Plus(t[<<a, j>>], t[<<j, k>>]))
            /\ AtMostAs(t[<<k, b>>], Plus(t[<<k, j>>], t[<<j, b>>]))
        BY <3>1 DEF Underbids
      <3>3. /\ t[<<a, b>>] \in Nat \cup {None} /\ t[<<a, j>>] \in Nat \cup {None}
            /\ t[<<j, b>>] \in Nat \cup {None} /\ t[<<a, k>>] \in Nat \cup {None}
            /\ t[<<k, b>>] \in Nat \cup {None} /\ t[<<j, k>>] \in Nat \cup {None}
            /\ t[<<k, j>>] \in Nat \cup {None} /\ next[<<a, b>>] \in Nat \cup {None}
        BY <1>1, <1>5, <1>6, <3>1
      <3>4. AtMostAs(next[<<a, b>>], t[<<a, b>>]) /\ AtMostAs(next[<<a, b>>], Plus(t[<<a, k>>], t[<<k, b>>]))
        BY <1>6
      <3>5. /\ next[<<a, j>>] \in {t[<<a, j>>], Plus(t[<<a, k>>], t[<<k, j>>])}
            /\ next[<<j, b>>] \in {t[<<j, b>>], Plus(t[<<j, k>>], t[<<k, b>>])}
        BY <1>6, <3>1
      <3>6. ASSUME NEW x \in Nat \cup {None}, NEW y \in Nat \cup {None}, NEW z \in Nat \cup {None},
                   AtMostAs(x, y), AtMostAs(y, z)
            PROVE  AtMostAs(x, z)
        BY <1>1, <3>6 DEF AtMostAs
      <3>7. CASE next[<<a, j>>] = t[<<a, j>>] /\ next[<<j, b>>] = t[<<j, b>>]
        BY <1>1, <3>2, <3>3, <3>4, <3>7 DEF AtMostAs, Plus
      <3>8. CASE next[<<a, j>>] = Plus(t[<<a, k>>], t[<<k, j>>]) /\ next[<<j, b>>] = t[<<j, b>>]
        BY <1>1, <3>2, <3>3, <3>4, <3>8 DEF AtMostAs, Plus
      <3>9. CASE next[<<a, j>>] = t[<<a, j>>] /\ next[<<j, b>>] = Plus(t[<<j, k>>], t[<<k, b>>])
        BY <1>1, <3>2, <3>3, <3>4, <3>9 DEF AtMostAs, Plus
      <3>10. CASE /\ next[<<a, j>>] = Plus(t[<<a, k>>], t[<<k, j>>])
                  /\ next[<<j, b>>] = Plus(t[<<j, k>>], t[<<k, b>>])
        BY <1>1, <3>2, <3>3, <3>4, <3>10 DEF AtMostAs, Plus
      <3> QED
        BY <3>5, <3>7, <3>8, <3>9, <3>10
    <2> QED
      BY <2>1, <2>2
  <1> QED
    BY <1>7, <1>8, <1>9 DEF Underbids, next

(* Whatever a table has was walked.                                        *)
LEMMA NextIsWalked ==
    ASSUME NEW n \in Nat, NEW k \in 1..n, NEW t \in [(1..n) \X (1..n) -> Nat \cup {None}],
           NEW cost, IsWalked(t, n, cost)
    PROVE  IsWalked(NextTable(t, k), n, cost)
PROOF
  <1>1. SUFFICES ASSUME NEW a \in 1..n, NEW b \in 1..n, NextTable(t, k)[<<a, b>>] # None
                 PROVE  \E w, u : IsWay(cost, n, w, u, a, b, NextTable(t, k)[<<a, b>>])
    BY DEF IsWalked
  <1>2. NextTable(t, k)[<<a, b>>] = IF AtMostAs(t[<<a, b>>], Plus(t[<<a, k>>], t[<<k, b>>])) THEN t[<<a, b>>]
                                    ELSE Plus(t[<<a, k>>], t[<<k, b>>])
    BY NextTableIs
  <1>3. CASE NextTable(t, k)[<<a, b>>] = t[<<a, b>>]
    BY <1>1, <1>3 DEF IsWalked
  <1>4. CASE NextTable(t, k)[<<a, b>>] = Plus(t[<<a, k>>], t[<<k, b>>])
    <2>1. /\ t[<<a, k>>] # None /\ t[<<k, b>>] # None
          /\ NextTable(t, k)[<<a, b>>] = t[<<a, k>>] + t[<<k, b>>]
      BY <1>1, <1>4 DEF Plus
    <2>2. PICK w, x : IsWay(cost, n, w, x, a, k, t[<<a, k>>])
      BY <2>1 DEF IsWalked
    <2>3. PICK v, y : IsWay(cost, n, v, y, k, b, t[<<k, b>>])
      BY <2>1 DEF IsWalked
    <2>4. /\ w \in Seq(1..n) /\ v \in Seq(1..n) /\ Len(w) \in 1..Len(w) /\ 1 \in 1..Len(v)
          /\ w[Len(w)] = v[1] /\ Taken(x, w, cost) /\ Taken(y, v, cost)
          /\ w[1] = a /\ v[Len(v)] = b /\ x[Len(w)] = t[<<a, k>>] /\ y[Len(v)] = t[<<k, b>>] /\ y[1] = 0
      BY <2>2, <2>3, SMTT(30) DEF IsWay, Taken
    <2> DEFINE g == Glued(w, Len(w), v, 1)
               i == Len(w)
               j == 1
               nodes == 1..n
    <2>8. /\ w \in Seq(nodes) /\ v \in Seq(nodes)
          /\ i \in 1..Len(w) /\ j \in 1..Len(v) /\ w[i] = v[j] /\ Taken(x, w, cost) /\ Taken(y, v, cost)
      BY <2>4
    <2> HIDE DEF i, j, nodes
    <2>9. IsGlued(Glued(w, i, v, j), nodes, w, i, v, j, x, y, cost)
      BY <2>8, GluedWalk
    <2>5. /\ g \in Seq(1..n) /\ Len(g) >= 1 /\ g[1] = a /\ g[Len(g)] = b
          /\ \E z : Taken(z, g, cost) /\ z[Len(g)] = x[Len(w)] + (y[Len(v)] - y[1])
      BY <2>4, <2>9 DEF i, j, nodes, IsGlued
    <2>6. x[Len(w)] + (y[Len(v)] - y[1]) = NextTable(t, k)[<<a, b>>]
      BY <2>1, <2>4, t[<<a, k>>] \in Nat \cup {None}, t[<<k, b>>] \in Nat \cup {None}
    <2>7. g # <<>>
      BY <2>5
    <2> HIDE DEF g
    <2> QED
      BY <2>5, <2>6, <2>7 DEF IsWay
  <1> QED
    BY <1>2, <1>3, <1>4

(* The first table underbids the walks of one step.                        *)
LEMMA ArcsUnderbid ==
    ASSUME NEW n \in Nat, NEW cost \in [(1..n) \X (1..n) -> Nat \cup {None}], \A a \in 1..n : cost[<<a, a>>] = 0
    PROVE  Underbids(cost, n, 0, cost) /\ IsWalked(cost, n, cost)
PROOF
  <1>1. \A a, b \in 1..n : cost[<<a, b>>] \in Nat \cup {None} /\ AtMostAs(cost[<<a, b>>], cost[<<a, b>>])
    BY NoneAssumption DEF AtMostAs
  <1>2. ASSUME NEW a \in 1..n, NEW b \in 1..n, cost[<<a, b>>] # None
        PROVE  \E w, u : IsWay(cost, n, w, u, a, b, cost[<<a, b>>])
    <2>1. CASE a = b
      <3> DEFINE w == <<a>>
                 u == [i \in 1..1 |-> 0]
      <3>1. w \in Seq(1..n) /\ w # <<>> /\ Len(w) = 1 /\ w[1] = a /\ u[1] = 0 /\ u \in [1..1 -> Nat]
        OBVIOUS
      <3>2. 1..(1 - 1) = {}
        OBVIOUS
      <3> HIDE DEF w, u
      <3>3. Taken(u, w, cost)
        BY <3>1, <3>2 DEF Taken
      <3>4. IsWay(cost, n, w, u, a, b, cost[<<a, b>>])
        BY <2>1, <3>1, <3>3 DEF IsWay
      <3> QED
        BY <3>4
    <2>2. CASE a # b
      <3> DEFINE w == <<a, b>>
                 u == [i \in 1..2 |-> IF i = 1 THEN 0 ELSE cost[<<a, b>>]]
      <3>1. w \in Seq(1..n) /\ w # <<>> /\ Len(w) = 2 /\ w[1] = a /\ w[2] = b
        OBVIOUS
      <3>2. cost[<<a, b>>] \in Nat
        BY <1>1, <1>2
      <3>3. u[1] = 0 /\ u[2] = cost[<<a, b>>] /\ u \in [1..2 -> Nat]
        BY <3>2
      <3> HIDE DEF w, u
      <3>4. ASSUME NEW i \in 1..(Len(w) - 1)
            PROVE  cost[<<w[i], w[i + 1]>>] \in Nat /\ u[i + 1] = u[i] + cost[<<w[i], w[i + 1]>>]
        <4>1. i = 1 /\ i + 1 = 2
          BY <3>1
        <4>2. w[i] = a /\ w[i + 1] = b /\ u[i] = 0 /\ u[i + 1] = cost[<<a, b>>]
          BY <3>1, <3>3, <4>1
        <4> QED
          BY <3>2, <4>2
      <3>5. Taken(u, w, cost)
        BY <3>1, <3>3, <3>4 DEF Taken
      <3>6. IsWay(cost, n, w, u, a, b, cost[<<a, b>>])
        BY <3>1, <3>3, <3>5 DEF IsWay
      <3> QED
        BY <3>6
    <2> QED
      BY <2>1, <2>2
  <1>3. \A j \in 1..0 : FALSE
    OBVIOUS
  <1> QED
    BY <1>1, <1>2, <1>3 DEF Underbids, IsWalked

(* The result underbids every way through any node, and is walked.         *)
LEMMA ResultUnderbids ==
    ASSUME NEW n \in Nat, NEW arcs, \A arc \in arcs : arc.weight \in Nat
    PROVE  /\ FloydWarshall(n, arcs) \in [(1..n) \X (1..n) -> Nat \cup {None}]
           /\ Underbids(FloydWarshall(n, arcs), n, n, Arcs(n, arcs))
           /\ IsWalked(FloydWarshall(n, arcs), n, Arcs(n, arcs))
PROOF
  <1> DEFINE X == [(1..n) \X (1..n) -> Nat \cup {None}]
             cost == Arcs(n, arcs)
  <1>1. PICK tables \in [0..n -> X] :
            /\ tables[0] = Arcs(n, arcs)
            /\ \A k \in 1..n : tables[k] = NextTable(tables[k - 1], k)
            /\ FloydWarshall(n, arcs) = tables[n]
    BY TablesAre
  <1>2. cost \in X /\ \A a \in 1..n : cost[<<a, a>>] = 0
    <2>1. cost \in X
      BY ArcsAreWeights
    <2>2. \A a \in 1..n : cost[<<a, a>>] = 0
      BY DEF Arcs
    <2> QED
      BY <2>1, <2>2
  <1> HIDE DEF cost
  <1> DEFINE Good == {k \in Nat : k <= n => Underbids(tables[k], n, k, cost) /\ IsWalked(tables[k], n, cost)}
  <1>3. 0 \in Good
    <2>1. tables[0] = cost
      BY <1>1 DEF cost
    <2>2. Underbids(cost, n, 0, cost) /\ IsWalked(cost, n, cost)
      BY <1>2, ArcsUnderbid
    <2> QED
      BY <2>1, <2>2
  <1>4. ASSUME NEW k \in Nat, k \in Good PROVE k + 1 \in Good
    <2>1. SUFFICES ASSUME k + 1 <= n
                   PROVE  Underbids(tables[k + 1], n, k + 1, cost) /\ IsWalked(tables[k + 1], n, cost)
      OBVIOUS
    <2>2. /\ Underbids(tables[k], n, k, cost) /\ IsWalked(tables[k], n, cost) /\ tables[k] \in X
          /\ k + 1 \in 1..n /\ (k + 1) - 1 = k
      <3>1. k \in 0..n /\ k + 1 \in 1..n /\ (k + 1) - 1 = k
        BY <2>1
      <3> HIDE DEF X
      <3> QED
        BY <1>1, <1>4, <3>1
    <2>3. tables[k + 1] = NextTable(tables[k], k + 1)
      BY <1>1, <2>2
    <2>4. Underbids(NextTable(tables[k], k + 1), n, k + 1, cost)
      <3>1. Underbids(tables[k], n, (k + 1) - 1, cost)
        BY <2>2
      <3> QED
        BY <1>2, <2>2, <3>1, NextUnderbids
    <2>5. IsWalked(NextTable(tables[k], k + 1), n, cost)
      BY <2>2, NextIsWalked
    <2> QED
      BY <2>3, <2>4, <2>5
  <1>5. Nat \subseteq Good
    <2> HIDE DEF Good
    <2> QED
      BY <1>3, <1>4, AllNaturals
  <1>6. Underbids(tables[n], n, n, cost) /\ IsWalked(tables[n], n, cost) /\ tables[n] \in X
    <2>1. n \in 0..n /\ n \in Good
      <3> HIDE DEF Good
      <3> QED
        BY <1>5
    <2> HIDE DEF X
    <2> QED
      BY <1>1, <2>1
  <1> QED
    BY <1>1, <1>6 DEF cost

(* Tables of weights between n nodes.                                      *)
Tables(n) == [(1..n) \X (1..n) -> Nat \cup {None}]

(* No walk takes less than the table says.                                 *)
LEMMA NoWalkTakesLess ==
    ASSUME NEW n \in Nat, NEW t \in Tables(n), NEW cost, Underbids(t, n, n, cost),
           NEW w \in Seq(1..n), w # <<>>, NEW u, Taken(u, w, cost)
    PROVE  AtMostAs(t[<<w[1], w[Len(w)]>>], u[Len(w)])
PROOF
  <1>1. /\ Len(w) \in Nat /\ Len(w) >= 1 /\ \A i \in 1..Len(w) : w[i] \in 1..n
        /\ \A a, b \in 1..n : t[<<a, b>>] \in Nat \cup {None}
        /\ None \notin Nat
    BY NoneAssumption DEF Tables
  <1>2. /\ \A i \in 1..Len(w) : u[i] \in Nat
        /\ u[1] = 0
        /\ \A i \in 1..(Len(w) - 1) :
               cost[<<w[i], w[i + 1]>>] \in Nat /\ u[i + 1] = u[i] + cost[<<w[i], w[i + 1]>>]
    BY DEF Taken
  <1> DEFINE Good == {i \in Nat : i + 1 <= Len(w) => AtMostAs(t[<<w[1], w[i + 1]>>], u[i + 1])}
  <1>3. 0 \in Good
    <2>1. t[<<w[1], w[1]>>] = 0
      BY <1>1 DEF Underbids
    <2> QED
      BY <1>1, <1>2, <2>1 DEF AtMostAs
  <1>4. ASSUME NEW i \in Nat, i \in Good PROVE i + 1 \in Good
    <2>1. SUFFICES ASSUME (i + 1) + 1 <= Len(w) PROVE AtMostAs(t[<<w[1], w[(i + 1) + 1]>>], u[(i + 1) + 1])
      OBVIOUS
    <2> DEFINE j == i + 1
    <2>2. j \in 1..(Len(w) - 1) /\ j \in 1..Len(w) /\ j + 1 \in 1..Len(w) /\ 1 \in 1..Len(w)
      BY <1>1, <2>1
    <2>3. AtMostAs(t[<<w[1], w[j]>>], u[j])
      BY <1>4, <2>2
    <2> HIDE DEF j
    <2>4. w[1] \in 1..n /\ w[j] \in 1..n /\ w[j + 1] \in 1..n
      BY <1>1, <2>2
    <2>5. /\ AtMostAs(t[<<w[1], w[j + 1]>>], Plus(t[<<w[1], w[j]>>], t[<<w[j], w[j + 1]>>]))
          /\ AtMostAs(t[<<w[j], w[j + 1]>>], cost[<<w[j], w[j + 1]>>])
      BY <2>4 DEF Underbids
    <2>6. /\ cost[<<w[j], w[j + 1]>>] \in Nat /\ u[j + 1] = u[j] + cost[<<w[j], w[j + 1]>>] /\ u[j] \in Nat
          /\ t[<<w[1], w[j]>>] \in Nat \cup {None} /\ t[<<w[j], w[j + 1]>>] \in Nat \cup {None}
          /\ t[<<w[1], w[j + 1]>>] \in Nat \cup {None}
      BY <1>1, <1>2, <2>2, <2>4
    <2>7. AtMostAs(t[<<w[1], w[j + 1]>>], u[j + 1])
      <3>1. /\ t[<<w[1], w[j]>>] \in Nat /\ t[<<w[1], w[j]>>] <= u[j]
            /\ t[<<w[j], w[j + 1]>>] \in Nat /\ t[<<w[j], w[j + 1]>>] <= cost[<<w[j], w[j + 1]>>]
        BY <1>1, <2>3, <2>5, <2>6 DEF AtMostAs
      <3>2. Plus(t[<<w[1], w[j]>>], t[<<w[j], w[j + 1]>>]) = t[<<w[1], w[j]>>] + t[<<w[j], w[j + 1]>>]
        BY <1>1, <3>1 DEF Plus
      <3>3. /\ t[<<w[1], w[j + 1]>>] # None
            /\ t[<<w[1], w[j + 1]>>] <= t[<<w[1], w[j]>>] + t[<<w[j], w[j + 1]>>]
        <4>1. t[<<w[1], w[j]>>] + t[<<w[j], w[j + 1]>>] \in Nat
          BY <3>1
        <4> QED
          BY <1>1, <2>5, <3>2, <4>1 DEF AtMostAs
      <3>4. t[<<w[1], w[j + 1]>>] <= u[j] + cost[<<w[j], w[j + 1]>>]
        <4> DEFINE A == t[<<w[1], w[j + 1]>>]
                   B == t[<<w[1], w[j]>>]
                   C == t[<<w[j], w[j + 1]>>]
                   E == cost[<<w[j], w[j + 1]>>]
                   v == u[j]
        <4>1. /\ A \in Nat \cup {None} /\ A # None /\ A <= B + C
              /\ B \in Nat /\ B <= v /\ C \in Nat /\ C <= E /\ E \in Nat /\ v \in Nat
          BY <2>6, <3>1, <3>3
        <4> HIDE DEF A, B, C, E, v
        <4>2. A <= v + E
          BY <4>1
        <4> QED
          BY <4>2 DEF A, E, v
      <3> QED
        BY <2>6, <3>3, <3>4 DEF AtMostAs
    <2> QED
      BY <2>7 DEF j
  <1>5. Len(w) - 1 \in Good
    <2>1. Nat \subseteq Good
      <3> HIDE DEF Good
      <3> QED
        BY <1>3, <1>4, AllNaturals
    <2>2. Len(w) - 1 \in Nat
      BY <1>1
    <2> HIDE DEF Good
    <2> QED
      BY <2>1, <2>2
  <1>6. (Len(w) - 1) + 1 = Len(w)
    BY <1>1
  <1> QED
    BY <1>1, <1>5, <1>6

(* A walk that takes what the table says and is as short as any such one   *)
(* comes to no node twice.                                                 *)
LEMMA ShortestWalkIsSimple ==
    ASSUME NEW n \in Nat, NEW t \in Tables(n), NEW cost,
           Underbids(t, n, n, cost), IsWalked(t, n, cost), NEW a \in 1..n, NEW b \in 1..n, t[<<a, b>>] # None
    PROVE  \E w, u : /\ IsWay(cost, n, w, u, a, b, t[<<a, b>>])
                     /\ \A i, j \in 1..Len(w) : w[i] = w[j] => i = j
PROOF
  <1> DEFINE S == {m \in Nat : \E w, u : IsWay(cost, n, w, u, a, b, t[<<a, b>>]) /\ Len(w) = m}
  <1>1. \E w, u : IsWay(cost, n, w, u, a, b, t[<<a, b>>])
    BY DEF IsWalked
  <1>2. \A w, u : IsWay(cost, n, w, u, a, b, t[<<a, b>>]) => Len(w) \in Nat
    BY DEF IsWay
  <1>3. S # {} /\ S \subseteq Nat
    BY <1>1, <1>2
  <1>4. PICK m \in S : \A k \in S : m <= k
    <2> HIDE DEF S
    <2> QED
      BY <1>3, LeastNatural
  <1>5. PICK w, u : IsWay(cost, n, w, u, a, b, t[<<a, b>>]) /\ Len(w) = m
    OBVIOUS
  <1>6. ASSUME NEW v, NEW x, IsWay(cost, n, v, x, a, b, t[<<a, b>>]) PROVE Len(w) <= Len(v)
    BY <1>2, <1>4, <1>5, <1>6
  <1>7. /\ w \in Seq(1..n) /\ Taken(u, w, cost) /\ w[1] = a /\ w[Len(w)] = b /\ u[Len(w)] = t[<<a, b>>]
        /\ Len(w) \in Nat /\ \A k \in 1..Len(w) : u[k] \in Nat
    BY <1>5 DEF IsWay, Taken
  <1>8. ASSUME NEW i \in 1..Len(w), NEW j \in 1..Len(w), w[i] = w[j], i < j PROVE FALSE
    <2> DEFINE g == Glued(w, i, w, j)
    <2>1. /\ g \in Seq(1..n) /\ Len(g) = i + (Len(w) - j) /\ Len(g) >= 1
          /\ g[1] = w[1] /\ g[Len(g)] = w[Len(w)]
          /\ \E z : Taken(z, g, cost) /\ z[Len(g)] = u[i] + (u[Len(w)] - u[j])
      <3> DEFINE nodes == 1..n
      <3>1. w \in Seq(nodes) /\ i \in 1..Len(w) /\ j \in 1..Len(w) /\ w[i] = w[j] /\ Taken(u, w, cost)
        BY <1>7, <1>8
      <3> HIDE DEF nodes
      <3>2. IsGlued(Glued(w, i, w, j), nodes, w, i, w, j, u, u, cost)
        BY <3>1, GluedWalk
      <3> QED
        BY <3>2 DEF nodes, IsGlued
    <2> HIDE DEF g
    <2>2. PICK z : Taken(z, g, cost) /\ z[Len(g)] = u[i] + (u[Len(w)] - u[j])
      BY <2>1
    <2>3. g # <<>>
      BY <2>1
    <2>4. AtMostAs(t[<<a, b>>], z[Len(g)])
      <3>1. AtMostAs(t[<<g[1], g[Len(g)]>>], z[Len(g)])
        BY <2>1, <2>2, <2>3, NoWalkTakesLess
      <3> QED
        BY <1>7, <2>1, <3>1
    <2>5. u[i] <= u[j]
      <3>1. Len(w) \in Nat /\ Taken(u, w, cost) /\ i \in 1..Len(w) /\ j \in i..Len(w)
        BY <1>7, <1>8
      <3> QED
        BY <3>1, TakenGrows
    <2>6. z[Len(g)] = t[<<a, b>>]
      <3>1. Len(g) \in 1..Len(g) /\ Len(w) \in 1..Len(w)
        BY <1>7, <1>8, <2>1
      <3>2. z \in [1..Len(g) -> Nat]
        BY <2>2 DEF Taken
      <3>3. z[Len(g)] \in Nat
        BY <3>1, <3>2
      <3>4. u[i] \in Nat /\ u[j] \in Nat /\ t[<<a, b>>] \in Nat /\ u[Len(w)] = t[<<a, b>>]
        BY <1>7, <3>1 DEF Tables
      <3>5. t[<<a, b>>] <= z[Len(g)]
        BY <2>4, <3>3, NoneAssumption DEF AtMostAs
      <3>6. z[Len(g)] = u[i] + (t[<<a, b>>] - u[j])
        BY <2>2, <3>4
      <3> QED
        BY <2>5, <3>3, <3>4, <3>5, <3>6, SMTT(30)
    <2>7. IsWay(cost, n, g, z, a, b, t[<<a, b>>])
      BY <1>7, <2>1, <2>2, <2>3, <2>6 DEF IsWay
    <2>8. Len(w) <= Len(g)
      BY <1>6, <2>7
    <2> QED
      BY <1>7, <1>8, <2>1, <2>8
  <1>9. \A i, j \in 1..Len(w) : w[i] = w[j] => i = j
    <2>1. \A i, j \in 1..Len(w) : i = j \/ i < j \/ j < i
      BY <1>7
    <2> QED
      BY <1>8, <2>1
  <1> QED
    BY <1>5, <1>9

-----------------------------------------------------------------------------
(* The lightest of some weights is one of them that none underbids.        *)
LEMMA LightestIs ==
    ASSUME NEW W, W \subseteq Nat \cup {None}, NEW x \in Nat \cup {None}, x # None => x \in W,
           \A y \in W : AtMostAs(x, y)
    PROVE  Lightest(W) = x
PROOF
  <1>1. None \notin Nat
    BY NoneAssumption
  <1>2. CASE x = None
    <2>1. W \subseteq {None}
      BY <1>2 DEF AtMostAs
    <2> QED
      BY <1>2, <2>1 DEF Lightest
  <1>3. CASE x # None
    <2>1. x \in W \ {None} /\ W \ {None} \subseteq Nat /\ ~(W \subseteq {None})
      BY <1>3
    <2>2. \A y \in W \ {None} : x <= y
      BY DEF AtMostAs
    <2>3. \A y \in W \ {None} : (\A z \in W \ {None} : y <= z) => y = x
      BY <2>1, <2>2
    <2>4. Min(W \ {None}) = x
      BY <2>1, <2>2, <2>3 DEF Min
    <2> QED
      BY <2>1, <2>4 DEF Lightest
  <1> QED
    BY <1>2, <1>3

(* The simple paths from a to b, as sequences of nodes.                    *)
Simple(w) == \A i, j \in 1..Len(w) : w[i] = w[j] => i = j

(* A walk from a to b that visits no node twice.                           *)
IsPath(w, n, a, b) ==
    w \in Seq(1..n) /\ Len(w) >= 2 /\ w[1] = a /\ w[Len(w)] = b /\ Simple(w)

(* A path that visits no node twice is one of those in between.            *)
LEMMA PathsBetween ==
    ASSUME NEW n \in Nat, NEW a \in 1..n, NEW b \in 1..n, a # b, NEW w
    PROVE  w \in {<<a>> \o m \o <<b>> : m \in SetToAllKPermutations((1..n) \ {a, b})} <=> IsPath(w, n, a, b)
PROOF
  <1> DEFINE rest == (1..n) \ {a, b}
  <1>1. \A S \in SUBSET rest : IsFiniteSet(S) /\ Cardinality(S) \in Nat
    <2>1. IsFiniteSet(1..n)
      BY FS_Interval
    <2>2. \A S \in SUBSET rest : S \subseteq 1..n
      OBVIOUS
    <2> QED
      BY <2>1, <2>2, FS_Subset, FS_CardinalityType
  <1>2. ASSUME NEW S \in SUBSET rest, NEW m \in SetToSeqs(S), w = <<a>> \o m \o <<b>>
        PROVE  IsPath(w, n, a, b)
    <2> DEFINE c == Cardinality(S)
    <2>1. c \in Nat /\ m \in [1..c -> S] /\ \A i, j \in 1..c : i # j => m[i] # m[j]
      BY <1>1 DEF SetToSeqs
    <2> HIDE DEF c
    <2>2. m \in Seq(S) /\ Len(m) = c
      BY <2>1
    <2>3. \A i \in 1..c : m[i] \in 1..n /\ m[i] # a /\ m[i] # b
      BY <2>1
    <2>4. m \in Seq(1..n)
      BY <2>1, <2>3
    <2>5. /\ w \in Seq(1..n) /\ Len(w) = c + 2 /\ w[1] = a /\ w[c + 2] = b
          /\ \A i \in 1..c : w[i + 1] = m[i]
      BY <1>2, <2>1, <2>2, <2>4
    <2>6. \A i \in 1..Len(w) : i = 1 \/ i = c + 2 \/ (i - 1 \in 1..c /\ w[i] = m[i - 1])
      <3>1. ASSUME NEW i \in 1..Len(w), i # 1, i # c + 2 PROVE i - 1 \in 1..c /\ (i - 1) + 1 = i
        BY <2>1, <2>5, <3>1
      <3> QED
        BY <2>5, <3>1
    <2>7. Simple(w)
      <3>1. SUFFICES ASSUME NEW i \in 1..Len(w), NEW j \in 1..Len(w), w[i] = w[j] PROVE i = j
        BY DEF Simple
      <3>2. /\ i = 1 \/ i = c + 2 \/ (i - 1 \in 1..c /\ w[i] = m[i - 1])
            /\ j = 1 \/ j = c + 2 \/ (j - 1 \in 1..c /\ w[j] = m[j - 1])
        BY <2>6
      <3>3. i \in Int /\ j \in Int /\ (i - 1 = j - 1 => i = j)
        BY <2>1, <2>5
      <3>4. CASE i - 1 \in 1..c /\ w[i] = m[i - 1] /\ j - 1 \in 1..c /\ w[j] = m[j - 1]
        BY <2>1, <3>1, <3>3, <3>4
      <3>5. CASE i - 1 \in 1..c /\ w[i] = m[i - 1] /\ (j = 1 \/ j = c + 2)
        BY <2>3, <2>5, <3>1, <3>5
      <3>6. CASE j - 1 \in 1..c /\ w[j] = m[j - 1] /\ (i = 1 \/ i = c + 2)
        BY <2>3, <2>5, <3>1, <3>6
      <3>7. CASE (i = 1 \/ i = c + 2) /\ (j = 1 \/ j = c + 2)
        BY <2>5, <3>1, <3>7
      <3> QED
        BY <3>2, <3>4, <3>5, <3>6, <3>7
    <2> QED
      BY <2>1, <2>5, <2>7 DEF IsPath
  <1>3. ASSUME IsPath(w, n, a, b)
        PROVE  \E S \in SUBSET rest : \E m \in SetToSeqs(S) : w = <<a>> \o m \o <<b>>
    <2> DEFINE c == Len(w) - 2
               m == [i \in 1..c |-> w[i + 1]]
               S == {m[i] : i \in 1..c}
    <2>1. /\ w \in Seq(1..n) /\ Len(w) = c + 2 /\ c \in Nat /\ w[1] = a /\ w[c + 2] = b
          /\ \A i \in 1..(c + 2) : w[i] \in 1..n
          /\ \A i, j \in 1..(c + 2) : w[i] = w[j] => i = j
      BY <1>3 DEF IsPath, Simple
    <2> HIDE DEF c
    <2>2. \A i \in 1..c : /\ i + 1 \in 1..(c + 2) /\ 1 \in 1..(c + 2) /\ c + 2 \in 1..(c + 2)
                          /\ i + 1 # 1 /\ i + 1 # c + 2
      BY <2>1
    <2>3. \A i \in 1..c : m[i] \in rest
      BY <2>1, <2>2
    <2>4. \A i, j \in 1..c : m[i] = m[j] => i = j
      <3>1. SUFFICES ASSUME NEW i \in 1..c, NEW j \in 1..c, m[i] = m[j] PROVE i = j
        OBVIOUS
      <3>2. i + 1 = j + 1
        BY <2>1, <2>2, <3>1
      <3> QED
        BY <2>1, <3>2
    <2>5. m \in Seq(rest) /\ Len(m) = c /\ DOMAIN m = 1..c /\ m \in [1..c -> S]
      <3>1. m = [i \in 1..c |-> m[i]] /\ \A i \in 1..c : m[i] \in S
        OBVIOUS
      <3>2. c \in Nat
        BY <2>1
      <3> HIDE DEF m, S, rest
      <3>3. m \in [1..c -> S] /\ m \in [1..c -> rest]
        BY <2>3, <3>1
      <3> QED
        BY <3>2, <3>3
    <2>6. S = Range(m)
      BY <2>5 DEF Range
    <2> HIDE DEF m, S
    <2>7. Cardinality(S) = c
      BY <2>4, <2>5, <2>6, RangeOfSequence
    <2>8. S \in SUBSET rest
      BY <2>5, <2>6, RangeOfSequence
    <2>9. m \in SetToSeqs(S)
      BY <2>4, <2>5, <2>7 DEF SetToSeqs
    <2>10. w = <<a>> \o m \o <<b>>
      <3> DEFINE v == <<a>> \o m \o <<b>>
      <3>1. m \in Seq(1..n)
        BY <2>3, <2>5 DEF m
      <3>2. /\ v \in Seq(1..n) /\ Len(v) = c + 2 /\ v[1] = a /\ v[c + 2] = b
            /\ \A i \in 1..c : v[i + 1] = m[i]
        <4>1. c \in Nat /\ Len(m) = c
          BY <2>1, <2>5
        <4> QED
          BY <3>1, <4>1
      <3> HIDE DEF v
      <3>3. \A i \in 1..c : m[i] = w[i + 1]
        BY DEF m
      <3>4. \A i \in 1..(c + 2) : v[i] = w[i]
        <4>1. \A i \in 1..(c + 2) : i = 1 \/ i = c + 2 \/ (i - 1 \in 1..c /\ (i - 1) + 1 = i)
          BY <2>1
        <4>2. SUFFICES ASSUME NEW i \in 1..(c + 2), i # 1, i # c + 2 PROVE v[i] = w[i]
          BY <2>1, <3>2
        <4>3. i - 1 \in 1..c /\ (i - 1) + 1 = i
          BY <4>1, <4>2
        <4>4. v[(i - 1) + 1] = w[(i - 1) + 1]
          BY <3>2, <3>3, <4>3
        <4> QED
          BY <4>3, <4>4
      <3>5. v = w
        BY <2>1, <3>2, <3>4
      <3> QED
        BY <3>5 DEF v
    <2> QED
      BY <2>8, <2>9, <2>10
  <1>4. w \in {<<a>> \o m \o <<b>> : m \in SetToAllKPermutations(rest)}
        <=> \E S \in SUBSET rest : \E m \in SetToSeqs(S) : w = <<a>> \o m \o <<b>>
    BY DEF SetToAllKPermutations
  <1> QED
    BY <1>2, <1>3, <1>4

(* The total of a path over the steps is that over the arcs of the table,  *)
(* and no less than the table says.                                        *)
LEMMA TotalOfPath ==
    ASSUME NEW n \in Nat, NEW t \in Tables(n),
           NEW cost \in Tables(n), Underbids(t, n, n, cost),
           NEW step, \A a, b \in 1..n : a # b => step[<<a, b>>] = cost[<<a, b>>],
           NEW a \in 1..n, NEW b \in 1..n, NEW w, IsPath(w, n, a, b)
    PROVE  /\ PathTotal(w, step) = PathTotal(w, cost)
           /\ PathTotal(w, step) \in Nat \cup {None}
           /\ AtMostAs(t[<<a, b>>], PathTotal(w, step))
           /\ \A u : Taken(u, w, cost) => PathTotal(w, step) = u[Len(w)]
PROOF
  <1>1. /\ w \in Seq(1..n) /\ Len(w) \in Nat /\ Len(w) >= 2 /\ w # <<>> /\ w[1] = a /\ w[Len(w)] = b
        /\ \A i \in 1..Len(w) : w[i] \in 1..n
        /\ \A i, j \in 1..Len(w) : w[i] = w[j] => i = j
    BY DEF IsPath, Simple
  <1>2. ASSUME NEW i \in 1..(Len(w) - 1) PROVE step[<<w[i], w[i + 1]>>] = cost[<<w[i], w[i + 1]>>]
    <2>1. i \in 1..Len(w) /\ i + 1 \in 1..Len(w) /\ i # i + 1
      BY <1>1
    <2>2. w[i] \in 1..n /\ w[i + 1] \in 1..n /\ w[i] # w[i + 1]
      BY <1>1, <2>1
    <2> QED
      BY <2>2
  <1>3. PathTotal(w, step) = PathTotal(w, cost)
    <2>1. [i \in 1..(Len(w) - 1) |-> step[<<w[i], w[i + 1]>>]]
          = [i \in 1..(Len(w) - 1) |-> cost[<<w[i], w[i + 1]>>]]
      BY <1>2
    <2> QED
      BY <2>1 DEF PathTotal
  <1>4. /\ \A u : Taken(u, w, cost) => PathTotal(w, cost) = u[Len(w)]
        /\ PathTotal(w, cost) # None => \E u : Taken(u, w, cost)
    <2> DEFINE nodes == 1..n
    <2>1. w \in Seq(nodes) /\ \A x, y \in nodes : cost[<<x, y>>] \in Nat \cup {None}
      BY <1>1 DEF Tables
    <2> HIDE DEF nodes
    <2> QED
      BY <1>1, <2>1, TotalOfWalk
  <1>5. CASE PathTotal(w, cost) = None
    BY <1>3, <1>4, <1>5 DEF AtMostAs
  <1>6. CASE PathTotal(w, cost) # None
    <2>1. PICK u : Taken(u, w, cost)
      BY <1>4, <1>6
    <2>2. PathTotal(w, cost) = u[Len(w)] /\ u[Len(w)] \in Nat
      <3>1. Len(w) \in 1..Len(w)
        BY <1>1
      <3> QED
        BY <1>4, <2>1, <3>1 DEF Taken
    <2>3. AtMostAs(t[<<w[1], w[Len(w)]>>], u[Len(w)])
      BY <1>1, <2>1, NoWalkTakesLess
    <2> QED
      BY <1>1, <1>3, <1>4, <2>2, <2>3
  <1> QED
    BY <1>5, <1>6

(* The steps from a to b along simple paths, of which the table has the    *)
(* least total.                                                            *)
Between(n, a, b) ==
    IF a = b THEN {<<a>>} ELSE {<<a>> \o m \o <<b>> : m \in SetToAllKPermutations((1..n) \ {a, b})}

(* What those walks take altogether.                                       *)
Totals(n, step, a, b) == {PathTotal(w, step) : w \in Between(n, a, b)}

(* The least total of the paths without a repeated node is what a table    *)
(* has that underbids all walks and was walked.                            *)
LEMMA LeastTotal ==
    ASSUME NEW n \in Nat, NEW t \in Tables(n),
           NEW cost \in Tables(n),
           Underbids(t, n, n, cost), IsWalked(t, n, cost),
           NEW step, \A a, b \in 1..n : a # b => step[<<a, b>>] = cost[<<a, b>>],
           NEW a \in 1..n, NEW b \in 1..n
    PROVE  Lightest(Totals(n, step, a, b)) = t[<<a, b>>]
PROOF
  <1>1. t[<<a, b>>] \in Nat \cup {None}
    BY DEF Tables
  <1>2. CASE a = b
    <2>1. PathTotal(<<a>>, step) = 0
      <3> DEFINE legs == [i \in 1..(Len(<<a>>) - 1) |-> step[<<(<<a>>)[i], (<<a>>)[i + 1]>>]]
      <3>1. DOMAIN legs = {}
        OBVIOUS
      <3>2. PathTotal(<<a>>, step) = IF None \in Range(legs) THEN None ELSE SumFunctionOnSet(legs, DOMAIN legs)
        BY DEF PathTotal, SumFunction
      <3> HIDE DEF legs
      <3>3. None \notin Range(legs)
        BY <3>1 DEF Range
      <3> QED
        BY <3>1, <3>2, <3>3, SumOfNothing
    <2>2. Totals(n, step, a, b) = {0}
      BY <1>2, <2>1 DEF Totals, Between
    <2>3. t[<<a, b>>] = 0
      BY <1>2 DEF Underbids
    <2>4. AtMostAs(0, 0)
      BY NoneAssumption DEF AtMostAs
    <2>5. Lightest({0}) = 0
      BY <2>4, LightestIs
    <2> QED
      BY <2>2, <2>3, <2>5
  <1>3. CASE a # b
    <2>1. \A w : w \in Between(n, a, b) <=> IsPath(w, n, a, b)
      BY <1>3, PathsBetween DEF Between
    <2>2. \A w : IsPath(w, n, a, b) =>
              /\ PathTotal(w, step) \in Nat \cup {None}
              /\ AtMostAs(t[<<a, b>>], PathTotal(w, step))
              /\ \A u : Taken(u, w, cost) => PathTotal(w, step) = u[Len(w)]
      <3>1. SUFFICES ASSUME NEW w, IsPath(w, n, a, b)
                     PROVE  /\ PathTotal(w, step) \in Nat \cup {None}
                            /\ AtMostAs(t[<<a, b>>], PathTotal(w, step))
                            /\ \A u : Taken(u, w, cost) => PathTotal(w, step) = u[Len(w)]
        BY Zenon
      <3> QED
        BY <3>1, TotalOfPath
    <2>3. Totals(n, step, a, b) \subseteq Nat \cup {None} /\ \A y \in Totals(n, step, a, b) : AtMostAs(t[<<a, b>>], y)
      BY <2>1, <2>2 DEF Totals
    <2>4. ASSUME t[<<a, b>>] # None PROVE t[<<a, b>>] \in Totals(n, step, a, b)
      <3>1. PICK w, u : IsWay(cost, n, w, u, a, b, t[<<a, b>>]) /\ Simple(w)
        <4>1. \E w, u : /\ IsWay(cost, n, w, u, a, b, t[<<a, b>>])
                        /\ \A i, j \in 1..Len(w) : w[i] = w[j] => i = j
          BY <2>4, ShortestWalkIsSimple
        <4> QED
          BY <4>1 DEF Simple
      <3>2. /\ w \in Seq(1..n) /\ w # <<>> /\ Taken(u, w, cost) /\ w[1] = a /\ w[Len(w)] = b
            /\ u[Len(w)] = t[<<a, b>>]
        BY <3>1 DEF IsWay
      <3>3. Len(w) \in Nat /\ Len(w) # 0 /\ Len(w) # 1
        <4>1. Len(w) \in Nat /\ Len(w) # 0
          BY <3>2
        <4>2. Len(w) = 1 => a = b
          BY <3>2
        <4> QED
          BY <1>3, <4>1, <4>2
      <3>4. IsPath(w, n, a, b)
        <4>1. \A m \in Nat : m # 0 /\ m # 1 => m >= 2
          OBVIOUS
        <4> QED
          BY <3>1, <3>2, <3>3, <4>1 DEF IsPath
      <3>5. PathTotal(w, step) = t[<<a, b>>] /\ w \in Between(n, a, b)
        BY <2>1, <2>2, <3>2, <3>4
      <3> QED
        BY <3>5 DEF Totals
    <2> QED
      BY <1>1, <2>3, <2>4, LightestIs
  <1> QED
    BY <1>2, <1>3

(* The tables of all pairs are the least totals of simple paths, whatever  *)
(* a step from a node to itself is said to weigh.                          *)
THEOREM FloydWarshallFindsDistances ==
    ASSUME NEW n \in Nat, NEW arcs, \A arc \in arcs : arc.weight \in Nat,
           NEW step, \A a, b \in 1..n : a # b => step[<<a, b>>] = Arcs(n, arcs)[<<a, b>>]
    PROVE  FloydWarshall(n, arcs) = DistancesOver(1..n, step)
PROOF
  <1> DEFINE t == FloydWarshall(n, arcs)
             cost == Arcs(n, arcs)
  <1>1. DistancesOver(1..n, step) = [ab \in (1..n) \X (1..n) |-> Lightest(Totals(n, step, ab[1], ab[2]))]
    BY DEF DistancesOver, Totals, Between
  <1>2. /\ t \in Tables(n) /\ cost \in Tables(n)
        /\ Underbids(t, n, n, cost) /\ IsWalked(t, n, cost)
    BY ResultUnderbids, ArcsAreWeights DEF Tables
  <1>3. \A a, b \in 1..n : a # b => step[<<a, b>>] = cost[<<a, b>>]
    OBVIOUS
  <1> HIDE DEF t, cost
  <1>4. ASSUME NEW a \in 1..n, NEW b \in 1..n PROVE Lightest(Totals(n, step, a, b)) = t[<<a, b>>]
    BY <1>2, <1>3, LeastTotal
  <1>5. t = [ab \in (1..n) \X (1..n) |-> t[ab]]
    BY <1>2 DEF Tables
  <1>6. \A ab \in (1..n) \X (1..n) : t[ab] = Lightest(Totals(n, step, ab[1], ab[2]))
    <2>1. \A ab \in (1..n) \X (1..n) : ab = <<ab[1], ab[2]>> /\ ab[1] \in 1..n /\ ab[2] \in 1..n
      OBVIOUS
    <2> QED
      BY <1>4, <2>1
  <1>7. t = [ab \in (1..n) \X (1..n) |-> Lightest(Totals(n, step, ab[1], ab[2]))]
    BY <1>5, <1>6
  <1> QED
    BY <1>1, <1>7 DEF t

-----------------------------------------------------------------------------

(* The lightest of some weights is one of them, None if there is none.     *)
LEMMA LightestOfNaturals ==
    ASSUME NEW W, W \subseteq Nat
    PROVE  Lightest(W) = IF W = {} THEN None ELSE Min(W)
PROOF
  <1>1. None \notin W
    <2>1. None \notin Nat
      BY NoneAssumption
    <2> QED
      BY <2>1
  <1>2. W \subseteq {None} <=> W = {}
    BY <1>1
  <1>3. W \ {None} = W
    BY <1>1
  <1> QED
    BY <1>2, <1>3 DEF Lightest

(* What the schema of travel problems lets through.                        *)
LEMMA TravelTypes ==
    ASSUME NEW p, IsTravelData(p)
    PROVE  /\ Places(p) = 1..Len(p.places) /\ Len(p.places) \in Nat /\ IsFiniteSet(Places(p))
           /\ \A x \in Places(p) :
                  /\ p.places[x].cost \in Nat /\ p.places[x].time \in Nat /\ Utility(p, x) \in Int
                  /\ p.places[x].value \in Int /\ p.places[x].liking \in Int
           /\ \A leg \in Range(p.legs) :
                  leg.a \in Places(p) /\ leg.b \in Places(p) /\ leg.cost \in Nat /\ leg.time \in Nat
PROOF
  <1> DEFINE places == [value : Int, liking : Int, cost : Nat, time : Nat]
             legs == [a : Places(p), b : Places(p), cost : Nat, time : Nat]
  <1>1. p.places \in Seq(places) /\ p.legs \in Seq(legs)
    BY DEF IsTravelData, Places
  <1>2. /\ DOMAIN p.places = 1..Len(p.places) /\ Len(p.places) \in Nat /\ IsFiniteSet(DOMAIN p.places)
        /\ \A x \in DOMAIN p.places : p.places[x] \in places
    <2> HIDE DEF places
    <2> QED
      BY <1>1, RangeOfSequence, ElementOf
  <1>3. Range(p.legs) \subseteq legs
    <2> HIDE DEF legs
    <2> QED
      BY <1>1, RangeOfSequence
  <1>4. \A x \in Places(p) :
            /\ p.places[x].cost \in Nat /\ p.places[x].time \in Nat
            /\ p.places[x].value \in Int /\ p.places[x].liking \in Int
    BY <1>2 DEF Places
  <1>5. \A x \in Places(p) : Utility(p, x) \in Int
    BY <1>4 DEF Utility
  <1> QED
    BY <1>2, <1>3, <1>4, <1>5 DEF Places

(* The tables of a travel plan are the distances along its legs.           *)
LEMMA WaysAreDistances ==
    ASSUME NEW p, IsTravelData(p), NEW field \in {"cost", "time"}
    PROVE  Ways(p)[field] = LegDistances(p, field)
PROOF
  <1> DEFINE n == Len(p.places)
             arcs == LegArcs(p, field)
             step == [ab \in Places(p) \X Places(p) |->
                         Lightest({leg[field] : leg \in {l \in Range(p.legs) : {l.a, l.b} = {ab[1], ab[2]}}})]
  <1>1. Places(p) = 1..n /\ n \in Nat
    BY TravelTypes
  <1>2. \A leg \in Range(p.legs) : leg[field] \in Nat
    BY TravelTypes
  <1>3. \A arc \in arcs : arc.weight \in Nat
    BY <1>2 DEF LegArcs
  <1>4. ASSUME NEW a \in 1..n, NEW b \in 1..n, a # b PROVE step[<<a, b>>] = Arcs(n, arcs)[<<a, b>>]
    <2> DEFINE W == {leg[field] : leg \in {l \in Range(p.legs) : {l.a, l.b} = {a, b}}}
               S == {arc.weight : arc \in {x \in arcs : x.from = a /\ x.to = b}}
    <2>1. step[<<a, b>>] = Lightest(W)
      BY <1>1
    <2>2. Arcs(n, arcs)[<<a, b>>] = IF S = {} THEN None ELSE Min(S)
      BY <1>4 DEF Arcs
    <2>3. \A l : {l.a, l.b} = {a, b} <=> (l.a = a /\ l.b = b) \/ (l.b = a /\ l.a = b)
      BY <1>4
    <2>4. ASSUME NEW w \in W PROVE w \in S
      <3>1. PICK l \in Range(p.legs) : w = l[field] /\ {l.a, l.b} = {a, b}
        OBVIOUS
      <3> DEFINE x == [from |-> l.a, to |-> l.b, weight |-> l[field]]
                 y == [from |-> l.b, to |-> l.a, weight |-> l[field]]
      <3>2. x \in arcs /\ y \in arcs
        BY DEF LegArcs
      <3>3. x.from = l.a /\ x.to = l.b /\ x.weight = w /\ y.from = l.b /\ y.to = l.a /\ y.weight = w
        BY <3>1
      <3> HIDE DEF x, y, arcs
      <3> QED
        BY <2>3, <3>1, <3>2, <3>3
    <2>5. ASSUME NEW w \in S PROVE w \in W
      <3>1. PICK arc \in arcs : w = arc.weight /\ arc.from = a /\ arc.to = b
        OBVIOUS
      <3>2. PICK l \in Range(p.legs) : \/ arc = [from |-> l.a, to |-> l.b, weight |-> l[field]]
                                       \/ arc = [from |-> l.b, to |-> l.a, weight |-> l[field]]
        BY DEF LegArcs
      <3>3. w = l[field] /\ {l.a, l.b} = {a, b}
        BY <2>3, <3>1, <3>2
      <3> QED
        BY <3>3
    <2>6. W \subseteq Nat /\ W = S
      BY <1>2, <2>4, <2>5
    <2>7. Lightest(W) = IF W = {} THEN None ELSE Min(W)
      <3> HIDE DEF W
      <3> QED
        BY <2>6, LightestOfNaturals
    <2> HIDE DEF W, S, step
    <2> QED
      BY <2>1, <2>2, <2>6, <2>7
  <1> HIDE DEF step
  <1>5. FloydWarshall(n, arcs) = DistancesOver(1..n, step)
    <2> HIDE DEF n, arcs
    <2> QED
      BY <1>1, <1>3, <1>4, FloydWarshallFindsDistances
  <1>6. LegDistances(p, field) = DistancesOver(1..n, step)
    BY <1>1 DEF LegDistances, step
  <1>7. Ways(p)[field] = FloydWarshall(n, arcs)
    BY DEF Ways
  <1> QED
    BY <1>5, <1>6, <1>7

(* The rest of what the tables are: weights, of which a node is 0 from     *)
(* itself.                                                                 *)
LEMMA WaysAreWeights ==
    ASSUME NEW p, IsTravelData(p), NEW field \in {"cost", "time"}
    PROVE  /\ \A a, b \in Places(p) : Ways(p)[field][<<a, b>>] \in Nat \cup {None}
           /\ \A a \in Places(p) : Ways(p)[field][<<a, a>>] = 0
PROOF
  <1> DEFINE n == Len(p.places)
             arcs == LegArcs(p, field)
             t == FloydWarshall(n, arcs)
  <1>1. Places(p) = 1..n /\ n \in Nat
    BY TravelTypes
  <1>2. \A leg \in Range(p.legs) : leg[field] \in Nat
    BY TravelTypes
  <1>3. \A arc \in arcs : arc.weight \in Nat
    BY <1>2 DEF LegArcs
  <1>4. Ways(p)[field] = t
    BY DEF Ways
  <1>5. t \in Tables(n) /\ Underbids(t, n, n, Arcs(n, arcs))
    <2> HIDE DEF n, arcs
    <2> QED
      BY <1>1, <1>3, ResultUnderbids DEF Tables
  <1> HIDE DEF t
  <1> QED
    BY <1>1, <1>4, <1>5 DEF Tables, Underbids

(* What stays take, along an order without repetition, is what its places  *)
(* take.                                                                   *)
LEMMA SumOverOrder ==
    ASSUME NEW S, NEW order \in Seq(S), IsInjective(order), NEW f, \A x \in S : f[x] \in Int
    PROVE  SumFunctionOnSet([i \in DOMAIN order |-> f[order[i]]], DOMAIN order)
           = SumFunctionOnSet(f, Range(order))
PROOF
  <1>1. IsFiniteSet(DOMAIN order) /\ \A i \in DOMAIN order : order[i] \in S
    BY RangeOfSequence, ElementOf
  <1>2. \A i, j \in DOMAIN order : order[i] = order[j] => i = j
    BY DEF IsInjective
  <1>3. Range(order) = {order[i] : i \in DOMAIN order}
    BY DEF Range
  <1> DEFINE D == DOMAIN order
  <1>4. IsFiniteSet(D) /\ (\A i, j \in D : order[i] = order[j] => i = j) /\ \A i \in D : f[order[i]] \in Int
    BY <1>1, <1>2
  <1> HIDE DEF D
  <1>5. SumFunctionOnSet([i \in D |-> f[order[i]]], D) = SumFunctionOnSet(f, {order[i] : i \in D})
    BY <1>4, SumThrough
  <1> QED
    BY <1>3, <1>5 DEF D

(* The verification adds up the utilities and the times as they are.       *)
LEMMA UtilityIsValue ==
    ASSUME NEW p, IsTravelData(p), NEW order \in Seq(Places(p)), IsInjective(order)
    PROVE  TotalUtility(p, order) = ValueOf(p, Range(order))
PROOF
  <1> DEFINE f == [x \in Places(p) |-> Utility(p, x)]
             g == [x \in Range(order) |-> Utility(p, x)]
             h == [i \in DOMAIN order |-> Utility(p, order[i])]
  <1>1. \A x \in Places(p) : f[x] \in Int
    BY TravelTypes
  <1>2. IsFiniteSet(Range(order)) /\ Range(order) \subseteq Places(p) /\ \A i \in DOMAIN order : order[i] \in Places(p)
    BY RangeOfSequence, ElementOf
  <1>3. h = [i \in DOMAIN order |-> f[order[i]]]
    BY <1>2
  <1>4. \A x \in Range(order) : f[x] = g[x]
    BY <1>2
  <1>5. TotalUtility(p, order) = SumFunctionOnSet(h, DOMAIN order) /\ ValueOf(p, Range(order)) = SumFunctionOnSet(g, Range(order))
    BY DEF TotalUtility, ValueOf, SumFunction
  <1> HIDE DEF f, g, h
  <1>6. SumFunctionOnSet(h, DOMAIN order) = SumFunctionOnSet(f, Range(order))
    BY <1>1, <1>3, SumOverOrder
  <1> QED
    BY <1>2, <1>4, <1>5, <1>6, SumAgrees

(* Around a single place there and back is two places.                     *)
LEMMA OnceAround ==
    ASSUME NEW S, NEW order \in Seq(S), Len(order) = 1
    PROVE  LET w == Append(order, order[1]) IN Len(w) = 2 /\ w[1] = order[1] /\ w[2] = order[1]
PROOF
  <1>1. order[1] \in S
    OBVIOUS
  <1>2. ASSUME NEW e \in S
        PROVE  Len(Append(order, e)) = 2 /\ Append(order, e)[2] = e /\ Append(order, e)[1] = order[1]
    BY SMTT(30)
  <1> QED
    BY <1>1, <1>2

(* What the verification finds a tour to take is what it takes.            *)
LEMMA TourTakes ==
    ASSUME NEW p, IsTravelData(p), NEW field \in {"cost", "time"},
           NEW order \in Seq(Places(p)), IsInjective(order)
    PROVE  TourCost(p, order, field, Ways(p)) = Takes(p, order, field, LegDistances(p, field))
PROOF
  <1> DEFINE dist == Ways(p)[field]
             f == [x \in Places(p) |-> p.places[x][field]]
             g == [x \in Range(order) |-> p.places[x][field]]
             h == [i \in DOMAIN order |-> p.places[order[i]][field]]
             round == PathTotal(Append(order, order[1]), dist)
             stays == SumFunctionOnSet(h, DOMAIN order)
  <1>1. LegDistances(p, field) = dist
    BY WaysAreDistances
  <1>2. \A x \in Places(p) : f[x] \in Int
    BY TravelTypes
  <1>3. /\ IsFiniteSet(Range(order)) /\ Range(order) \subseteq Places(p)
        /\ \A i \in DOMAIN order : order[i] \in Places(p)
    BY RangeOfSequence, ElementOf
  <1>4. /\ h = [i \in DOMAIN order |-> f[order[i]]]
        /\ \A x \in Range(order) : f[x] = g[x]
    BY <1>3
  <1>5. DOMAIN order = {i \in DOMAIN order : order[i] \in Places(p)} /\ DOMAIN h = DOMAIN order /\ DOMAIN g = Range(order)
    BY <1>3
  <1>6. /\ TourCost(p, order, field, Ways(p))
           = IF (IF Len(order) <= 1 THEN 0 ELSE round) = None THEN None
             ELSE stays + (IF Len(order) <= 1 THEN 0 ELSE round)
    BY <1>5 DEF TourCost, SumFunction
  <1>7. /\ Takes(p, order, field, dist)
           = IF (IF order = <<>> THEN 0 ELSE round) = None THEN None
             ELSE (IF order = <<>> THEN 0 ELSE round) + SumFunctionOnSet(g, Range(order))
    BY DEF Takes, SumFunction
  <1>8. stays = SumFunctionOnSet(g, Range(order)) /\ stays \in Int
    <2> HIDE DEF f, g, h
    <2>1. SumFunctionOnSet(h, DOMAIN order) = SumFunctionOnSet(f, Range(order))
      BY <1>2, <1>4, SumOverOrder
    <2>2. SumFunctionOnSet(f, Range(order)) = SumFunctionOnSet(g, Range(order))
      BY <1>3, <1>4, SumAgrees
    <2>3. SumFunctionOnSet(f, Range(order)) \in Int
      BY <1>2, <1>3, SumTakes
    <2> QED
      BY <2>1, <2>2, <2>3
  <1>9. 0 # None
    BY NoneAssumption
  <1>10. Len(order) \in Nat /\ (order = <<>> <=> Len(order) = 0)
    OBVIOUS
  <1>11. CASE order = <<>>
    <2> HIDE DEF stays, g, dist, round
    <2> QED
      BY <1>1, <1>6, <1>7, <1>8, <1>9, <1>10, <1>11
  <1>12. CASE Len(order) = 1
    <2>1. round = 0
      <3> DEFINE w == Append(order, order[1])
                 legs == [i \in 1..(Len(w) - 1) |-> dist[<<w[i], w[i + 1]>>]]
      <3>1. order[1] \in Places(p)
        BY <1>3, <1>12
      <3>2. dist[<<order[1], order[1]>>] = 0
        BY <3>1, WaysAreWeights
      <3>3. DOMAIN legs = {1} /\ legs[1] = 0
        <4>1. Len(w) = 2 /\ w[1] = order[1] /\ w[2] = order[1]
          <5> DEFINE S == Places(p)
          <5>1. order \in Seq(S) /\ order[1] \in S
            BY <3>1
          <5> HIDE DEF S
          <5> QED
            BY <1>12, <5>1, OnceAround
        <4> HIDE DEF w
        <4> QED
          BY <3>2, <4>1
      <3>4. PathTotal(w, dist) = IF None \in Range(legs) THEN None ELSE SumFunctionOnSet(legs, DOMAIN legs)
        BY DEF PathTotal, SumFunction
      <3> HIDE DEF legs
      <3>5. None \notin Range(legs)
        BY <1>9, <3>3 DEF Range
      <3>6. IsFiniteSet({1})
        BY FS_Singleton
      <3>7. SumFunctionOnSet(legs, {1}) = 0
        BY <3>3, <3>6, SumOfZeros
      <3> QED
        BY <3>3, <3>4, <3>5, <3>7
    <2> HIDE DEF stays, g, dist, round
    <2> QED
      BY <1>1, <1>6, <1>7, <1>8, <1>9, <1>10, <1>12, <2>1
  <1>13. CASE Len(order) > 1
    <2>1. round \in Nat \cup {None}
      <3> DEFINE w == Append(order, order[1])
                 nodes == Places(p)
      <3>1. order[1] \in Places(p)
        BY <1>3, <1>13
      <3>2. w \in Seq(nodes) /\ w # <<>> /\ Len(w) \in 1..Len(w)
        BY <3>1
      <3>3. \A a, b \in nodes : dist[<<a, b>>] \in Nat \cup {None}
        BY WaysAreWeights
      <3> HIDE DEF nodes, w, dist
      <3>4. /\ \A u : Taken(u, w, dist) => PathTotal(w, dist) = u[Len(w)]
            /\ PathTotal(w, dist) # None => \E u : Taken(u, w, dist)
        BY <3>2, <3>3, TotalOfWalk
      <3>5. \A u : Taken(u, w, dist) => u[Len(w)] \in Nat
        BY <3>2 DEF Taken
      <3> QED
        BY <3>4, <3>5 DEF w
    <2>2. order # <<>> /\ ~(Len(order) <= 1)
      BY <1>10, <1>13
    <2> HIDE DEF stays, g, dist, round
    <2> QED
      BY <1>1, <1>6, <1>7, <1>8, <2>1, <2>2
  <1>14. Len(order) = 0 \/ Len(order) = 1 \/ Len(order) > 1
    <2>1. \A m \in Nat : m = 0 \/ m = 1 \/ m > 1
      OBVIOUS
    <2> QED
      BY <1>10, <2>1
  <1> HIDE DEF stays, g, dist, round
  <1> QED
    BY <1>10, <1>11, <1>12, <1>13, <1>14

(* The verification of a travel plan (verification.py, _check_travel)      *)
(* finds something if and only if the plan is none: it visits the places   *)
(* selected once each, in an order whose legs there are, and has the cost, *)
(* the time and the value it says, within the budget and the time.         *)
THEOREM TravelVerificationIsRight ==
    ASSUME NEW p, IsTravelData(p), NEW a, IsTravelSolution(a), p.start # None => a.visit # <<>> /\ a.visit[1] = p.start
    PROVE  TravelStructure(p, a) = IF IsPlan(p, a) THEN {} ELSE {Hard("travel_structure")}
PROOF
  <1> DEFINE right == /\ Range(a.selected) \subseteq Places(p)
                      /\ Range(a.visit) = Range(a.selected)
                      /\ IsInjective(a.visit)
                      /\ a.value = TotalUtility(p, a.visit)
                      /\ a.cost <= p.budget /\ a.time <= p.time
                      /\ a.cost = TourCost(p, a.visit, "cost", Ways(p))
                      /\ a.time = TourCost(p, a.visit, "time", Ways(p))
  <1>1. TravelStructure(p, a) = IF right THEN {} ELSE {Hard("travel_structure")}
    BY DEF TravelStructure
  <1>2. ASSUME Range(a.visit) \subseteq Places(p), IsInjective(a.visit)
        PROVE  /\ TotalUtility(p, a.visit) = ValueOf(p, Range(a.visit))
               /\ TourCost(p, a.visit, "cost", Ways(p)) = Takes(p, a.visit, "cost", LegDistances(p, "cost"))
               /\ TourCost(p, a.visit, "time", Ways(p)) = Takes(p, a.visit, "time", LegDistances(p, "time"))
    <2>1. a.visit \in Seq(Nat)
      BY DEF IsTravelSolution
    <2>2. a.visit \in Seq(Range(a.visit))
      BY <2>1 DEF Range
    <2>3. a.visit \in Seq(Places(p))
      BY <1>2, <2>1, <2>2
    <2>4. "cost" \in {"cost", "time"} /\ "time" \in {"cost", "time"}
      OBVIOUS
    <2>5. TotalUtility(p, a.visit) = ValueOf(p, Range(a.visit))
      BY <1>2, <2>3, UtilityIsValue
    <2> QED
      BY <1>2, <2>3, <2>4, <2>5, TourTakes
  <1>3. right <=> IsPlan(p, a)
    BY <1>2 DEF IsPlan
  <1> QED
    BY <1>1, <1>3

-----------------------------------------------------------------------------

(* One sequence after the other has what both have.                        *)
LEMMA RangeOfBoth ==
    ASSUME NEW S, NEW s \in Seq(S), NEW t \in Seq(S)
    PROVE  s \o t \in Seq(S) /\ Len(s \o t) = Len(s) + Len(t) /\ Range(s \o t) = Range(s) \cup Range(t)
PROOF
  <1>1. s \o t \in Seq(S) /\ Len(s \o t) = Len(s) + Len(t) /\ Len(s) \in Nat /\ Len(t) \in Nat
    OBVIOUS
  <1>2. /\ DOMAIN s = 1..Len(s) /\ DOMAIN t = 1..Len(t) /\ DOMAIN (s \o t) = 1..(Len(s) + Len(t))
    BY <1>1
  <1>3. /\ \A i \in 1..Len(s) : (s \o t)[i] = s[i]
        /\ \A i \in 1..Len(t) : (s \o t)[Len(s) + i] = t[i]
    OBVIOUS
  <1> DEFINE b == s \o t
             m == Len(s)
             n == Len(t)
  <1>4. /\ DOMAIN s = 1..m /\ DOMAIN t = 1..n /\ DOMAIN b = 1..(m + n)
        /\ \A i \in 1..m : b[i] = s[i]
        /\ \A i \in 1..n : b[m + i] = t[i]
        /\ m \in Nat /\ n \in Nat
    BY <1>1, <1>2, <1>3
  <1> HIDE DEF b, m, n
  <1>5. /\ \A i \in 1..m : i \in 1..(m + n)
        /\ \A i \in 1..n : m + i \in 1..(m + n)
        /\ \A i \in 1..(m + n) : i \in 1..m \/ (i - m \in 1..n /\ m + (i - m) = i)
    BY <1>4
  <1>6. Range(b) = Range(s) \cup Range(t)
    <2>1. ASSUME NEW x \in Range(b) PROVE x \in Range(s) \cup Range(t)
      <3>1. PICK i \in 1..(m + n) : x = b[i]
        BY <1>4 DEF Range
      <3>2. CASE i \in 1..m
        BY <1>4, <3>1, <3>2 DEF Range
      <3>3. CASE i - m \in 1..n /\ m + (i - m) = i
        <4>1. b[m + (i - m)] = t[i - m]
          BY <1>4, <3>3
        <4> QED
          BY <1>4, <3>1, <3>3, <4>1 DEF Range
      <3> QED
        BY <1>5, <3>2, <3>3
    <2>2. ASSUME NEW x \in Range(s) PROVE x \in Range(b)
      BY <1>4, <1>5, <2>2 DEF Range
    <2>3. ASSUME NEW x \in Range(t) PROVE x \in Range(b)
      <3>1. PICK i \in 1..n : x = t[i]
        BY <1>4, <2>3 DEF Range
      <3>2. m + i \in 1..(m + n) /\ b[m + i] = x
        BY <1>4, <1>5, <3>1
      <3> QED
        BY <1>4, <3>2 DEF Range
    <2> QED
      BY <2>1, <2>2, <2>3
  <1> QED
    BY <1>1, <1>6 DEF b

(* Some sequences one after the other have what any of them has.           *)
LEMMA Flattened ==
    ASSUME NEW S, NEW seqs \in Seq(Seq(S))
    PROVE  /\ FlattenSeq(seqs) \in Seq(S)
           /\ \A x : x \in Range(FlattenSeq(seqs)) <=> \E i \in DOMAIN seqs : x \in Range(seqs[i])
PROOF
  <1> DEFINE n == Len(seqs)
             X == Seq(S)
             Flat(g) == g = [i \in 1..n |-> IF i = 1 THEN seqs[i] ELSE g[i - 1] \o seqs[i]]
             flat == CHOOSE g : Flat(g)
  <1>1. n \in Nat /\ DOMAIN seqs = 1..n /\ \A i \in 1..n : seqs[i] \in X
    <2> HIDE DEF X
    <2>1. seqs \in Seq(X)
      BY DEF X
    <2> QED
      BY <2>1
  <1>2. CASE n = 0
    <2>1. seqs = <<>>
      BY <1>2
    <2>2. FlattenSeq(seqs) = <<>>
      BY <1>2, <2>1 DEF FlattenSeq
    <2>3. DOMAIN seqs = {} /\ Range(<<>>) = {}
      BY <2>1 DEF Range
    <2> QED
      BY <2>2, <2>3
  <1>3. CASE n # 0
    <2>1. FlattenSeq(seqs) = flat[n]
      BY <1>3 DEF FlattenSeq
    <2> DEFINE after == [k \in 1..n |-> [x \in X |-> x \o seqs[k]]]
    <2>2. <<>> \in X
      OBVIOUS
    <2>3. \A s, t \in X : s \o t \in X
      OBVIOUS
    <2>4. \A s \in X : <<>> \o s = s
      OBVIOUS
    <2> HIDE DEF X
    <2>5. after \in [1..n -> [X -> X]]
      BY <1>1, <2>3
    <2>6. PICK f \in [0..n -> X] : Follows(f, n, <<>>, after)
      <3> HIDE DEF after, n
      <3> QED
        BY <1>1, <2>2, <2>5, RecursionExists
    <2>7. \E g : Flat(g)
      <3> DEFINE g == [i \in 1..n |-> f[i]]
      <3>1. ASSUME NEW i \in 1..n PROVE f[i] = IF i = 1 THEN seqs[i] ELSE g[i - 1] \o seqs[i]
        <4>1. i - 1 \in 0..n /\ f[i - 1] \in X /\ (i # 1 => i - 1 \in 1..n)
          <5> HIDE DEF n, after, g
          <5>1. i - 1 \in 0..n /\ (i # 1 => i - 1 \in 1..n)
            BY <1>1
          <5> QED
            BY <2>6, <5>1
        <4>2. f[i] = f[i - 1] \o seqs[i]
          <5>1. f[i] = after[i][f[i - 1]]
            BY <2>6 DEF Follows
          <5> QED
            BY <4>1, <5>1
        <4>3. CASE i = 1
          <5>1. f[i - 1] = <<>>
            BY <2>6, <4>3 DEF Follows
          <5> QED
            BY <1>1, <2>4, <4>2, <4>3, <5>1
        <4>4. CASE i # 1
          BY <4>1, <4>2, <4>4
        <4> QED
          BY <4>3, <4>4
      <3>2. g = [i \in 1..n |-> IF i = 1 THEN seqs[i] ELSE g[i - 1] \o seqs[i]]
        <4> DEFINE h == [i \in 1..n |-> IF i = 1 THEN seqs[i] ELSE g[i - 1] \o seqs[i]]
        <4>1. \A i \in 1..n : g[i] = h[i]
          BY <3>1
        <4>2. g = [i \in 1..n |-> g[i]] /\ h = [i \in 1..n |-> h[i]]
          OBVIOUS
        <4> HIDE DEF g, h
        <4>3. g = h
          BY <4>1, <4>2
        <4> QED
          BY <4>3 DEF h
      <3> QED
        BY <3>2
    <2>8. Flat(flat)
      <3> HIDE DEF Flat
      <3> QED
        BY <2>7
    <2>9. \A i \in 1..n : flat[i] = IF i = 1 THEN seqs[i] ELSE flat[i - 1] \o seqs[i]
      <3> HIDE DEF flat
      <3> QED
        BY <2>8
    <2> HIDE DEF flat, Flat
    <2> DEFINE Has(k) == /\ flat[k] \in X
                         /\ \A x : x \in Range(flat[k]) <=> \E i \in 1..k : x \in Range(seqs[i])
               Good == {k \in Nat : k + 1 <= n => Has(k + 1)}
    <2>10. 0 \in Good
      <3>1. 1 \in 1..n /\ flat[1] = seqs[1] /\ 0 + 1 = 1
        BY <1>1, <1>3, <2>9
      <3>2. \A i : i \in 1..1 <=> i = 1
        OBVIOUS
      <3>3. Has(1)
        BY <1>1, <3>1, <3>2
      <3> HIDE DEF Has
      <3> QED
        BY <3>1, <3>3
    <2>11. ASSUME NEW k \in Nat, k \in Good PROVE k + 1 \in Good
      <3>1. SUFFICES ASSUME (k + 1) + 1 <= n PROVE Has((k + 1) + 1)
        <4> HIDE DEF Has
        <4> QED
          OBVIOUS
      <3> DEFINE j == k + 1
      <3>2. j \in Nat /\ j + 1 \in 1..n /\ j + 1 # 1 /\ (j + 1) - 1 = j /\ Has(j)
        <4> HIDE DEF Has
        <4> QED
          BY <1>1, <2>11, <3>1
      <3> HIDE DEF j
      <3>3. flat[j + 1] = flat[j] \o seqs[j + 1]
        BY <2>9, <3>2
      <3>4. flat[j] \in X /\ seqs[j + 1] \in X
        BY <1>1, <3>2
      <3>5. /\ flat[j + 1] \in X
            /\ Range(flat[j + 1]) = Range(flat[j]) \cup Range(seqs[j + 1])
        BY <3>3, <3>4, RangeOfBoth DEF X
      <3>6. \A i : i \in 1..(j + 1) <=> i \in 1..j \/ i = j + 1
        BY <3>2
      <3>7. Has(j + 1)
        BY <3>2, <3>5, <3>6
      <3> HIDE DEF Has
      <3> QED
        BY <3>7 DEF j
    <2>12. Nat \subseteq Good
      <3> HIDE DEF Good
      <3> QED
        BY <2>10, <2>11, AllNaturals
    <2>13. Has(n)
      <3>1. n - 1 \in Nat /\ (n - 1) + 1 = n
        BY <1>1, <1>3
      <3>2. n - 1 \in Good /\ (n - 1) + 1 <= n
        <4> HIDE DEF Good, n
        <4> QED
          BY <1>1, <2>12, <3>1
      <3> HIDE DEF Has
      <3> QED
        BY <3>1, <3>2
    <2> QED
      BY <1>1, <2>1, <2>13 DEF X
  <1> QED
    BY <1>2, <1>3

-----------------------------------------------------------------------------
(* The arcs of a network of edges, one for each way an edge may be passed. *)
ArcOf(p, e, u, v) == [edge |-> e, from |-> u, to |-> v, weight |-> p.edges[e].weight]

(* The arcs of an edge at a node.                                          *)
ArcsOf(p, u, e) ==
    IF e \in ForbiddenItems(p) THEN <<>>
    ELSE (IF p.edges[e].source = u THEN <<ArcOf(p, e, u, p.edges[e].target)>> ELSE <<>>)
         \o (IF p.edges[e].target = u /\ ~p.edges[e].directed
             THEN <<ArcOf(p, e, u, p.edges[e].source)>> ELSE <<>>)

(* The arcs that there can be.                                             *)
ArcSet == [edge : Nat, from : Nat, to : Nat, weight : Int]

(* One of the arcs from a node.                                            *)
IsArc(p, x, u) ==
    \E e \in DOMAIN p.edges \ ForbiddenItems(p) : \E v \in Nat : x = ArcOf(p, e, u, v) /\ Passable(p, e, u, v)

(* The edges of a delivery problem are roads between nodes.                *)
LEMMA EdgeTypes ==
    ASSUME NEW p, IsRouteData(p)
    PROVE  /\ DOMAIN p.edges = 1..Len(p.edges) /\ Len(p.edges) \in Nat /\ IsFiniteSet(DOMAIN p.edges)
           /\ \A e \in DOMAIN p.edges :
                  /\ p.edges[e].source \in Nat /\ p.edges[e].target \in Nat
                  /\ p.edges[e].weight \in Int /\ p.edges[e].directed \in BOOLEAN
PROOF
  <1> DEFINE edges == [source : Nat, target : Nat, weight : Int, directed : BOOLEAN]
  <1>1. p.edges \in Seq(edges)
    BY DEF IsRouteData
  <1>2. /\ DOMAIN p.edges = 1..Len(p.edges) /\ Len(p.edges) \in Nat /\ IsFiniteSet(DOMAIN p.edges)
        /\ \A e \in DOMAIN p.edges : p.edges[e] \in edges
    <2> HIDE DEF edges
    <2> QED
      BY <1>1, RangeOfSequence, ElementOf
  <1> QED
    BY <1>2

(* An edge leads where it says, and back unless it is directed.            *)
LEMMA ArcsOfAre ==
    ASSUME NEW p, IsRouteData(p), NEW u \in Nat, NEW e \in DOMAIN p.edges
    PROVE  /\ ArcsOf(p, u, e) \in Seq(ArcSet)
           /\ \A x : x \in Range(ArcsOf(p, u, e)) <=>
                         /\ e \notin ForbiddenItems(p)
                         /\ \E v \in Nat : x = ArcOf(p, e, u, v) /\ Passable(p, e, u, v)
PROOF
  <1> DEFINE there == IF p.edges[e].source = u THEN <<ArcOf(p, e, u, p.edges[e].target)>> ELSE <<>>
             back == IF p.edges[e].target = u /\ ~p.edges[e].directed
                     THEN <<ArcOf(p, e, u, p.edges[e].source)>> ELSE <<>>
  <1>1. /\ p.edges[e].source \in Nat /\ p.edges[e].target \in Nat /\ p.edges[e].weight \in Int
        /\ e \in Nat /\ p.edges[e].directed \in BOOLEAN
    BY EdgeTypes
  <1>2. \A v \in Nat : ArcOf(p, e, u, v) \in ArcSet
    BY <1>1 DEF ArcOf, ArcSet
  <1>3. \A x : Range(<<x>>) = {x}
    BY DEF Range
  <1>4. Range(<<>>) = {}
    BY DEF Range
  <1>5. there \in Seq(ArcSet) /\ back \in Seq(ArcSet)
    BY <1>1, <1>2
  <1>6. /\ \A x : x \in Range(there) <=> p.edges[e].source = u /\ x = ArcOf(p, e, u, p.edges[e].target)
        /\ \A x : x \in Range(back) <=> /\ p.edges[e].target = u /\ ~p.edges[e].directed
                                        /\ x = ArcOf(p, e, u, p.edges[e].source)
    BY <1>3, <1>4
  <1>7. ArcsOf(p, u, e) = IF e \in ForbiddenItems(p) THEN <<>> ELSE there \o back
    BY DEF ArcsOf
  <1> HIDE DEF there, back
  <1>8. there \o back \in Seq(ArcSet) /\ Range(there \o back) = Range(there) \cup Range(back)
    BY <1>5, RangeOfBoth
  <1>9. \A v \in Nat : Passable(p, e, u, v) <=> \/ p.edges[e].source = u /\ p.edges[e].target = v
                                                \/ /\ p.edges[e].target = u /\ ~p.edges[e].directed
                                                   /\ p.edges[e].source = v
    BY DEF Passable
  <1>10. CASE e \in ForbiddenItems(p)
    BY <1>4, <1>7, <1>10
  <1>11. CASE e \notin ForbiddenItems(p)
    <2>1. \A x : x \in Range(there \o back) <=>
                     \/ p.edges[e].source = u /\ x = ArcOf(p, e, u, p.edges[e].target)
                     \/ /\ p.edges[e].target = u /\ ~p.edges[e].directed
                        /\ x = ArcOf(p, e, u, p.edges[e].source)
      BY <1>6, <1>8
    <2>2. \A x : x \in Range(there \o back) <=> \E v \in Nat : x = ArcOf(p, e, u, v) /\ Passable(p, e, u, v)
      BY <1>1, <1>9, <2>1
    <2> QED
      BY <1>7, <1>8, <1>11, <2>2
  <1> QED
    BY <1>10, <1>11

(* The arcs from a node are those of its edges.                            *)
LEMMA ArcsFromAre ==
    ASSUME NEW p, IsRouteData(p), NEW u \in Nat
    PROVE  /\ ArcsFrom(p, u) \in Seq(ArcSet)
           /\ \A x : x \in Range(ArcsFrom(p, u)) <=> IsArc(p, x, u)
PROOF
  <1> DEFINE seqs == [e \in DOMAIN p.edges |-> ArcsOf(p, u, e)]
             X == Seq(ArcSet)
             n == Len(p.edges)
  <1>1. ArcsFrom(p, u) = FlattenSeq(seqs)
    BY DEF ArcsFrom, ArcsOf, ArcOf
  <1>2. DOMAIN p.edges = 1..n /\ n \in Nat
    BY EdgeTypes
  <1>3. \A e \in DOMAIN p.edges : ArcsOf(p, u, e) \in X
    BY ArcsOfAre
  <1>4. DOMAIN seqs = DOMAIN p.edges /\ \A e \in DOMAIN p.edges : seqs[e] = ArcsOf(p, u, e)
    OBVIOUS
  <1>5. seqs \in [1..n -> X]
    <2> HIDE DEF X, n
    <2> QED
      BY <1>2, <1>3
  <1> HIDE DEF seqs, X, n
  <1>6. seqs \in Seq(X)
    BY <1>2, <1>5
  <1>7. /\ FlattenSeq(seqs) \in Seq(ArcSet)
        /\ \A x : x \in Range(FlattenSeq(seqs)) <=> \E e \in DOMAIN seqs : x \in Range(seqs[e])
    BY <1>6, Flattened DEF X
  <1>8. \A x : \A e \in DOMAIN p.edges : x \in Range(ArcsOf(p, u, e)) <=>
                         /\ e \notin ForbiddenItems(p)
                         /\ \E v \in Nat : x = ArcOf(p, e, u, v) /\ Passable(p, e, u, v)
    BY ArcsOfAre
  <1>9. \A x : x \in Range(FlattenSeq(seqs)) <=> IsArc(p, x, u)
    <2> SUFFICES ASSUME NEW x PROVE x \in Range(FlattenSeq(seqs)) <=> IsArc(p, x, u)
      OBVIOUS
    <2>1. x \in Range(FlattenSeq(seqs)) <=> \E e \in DOMAIN p.edges : x \in Range(ArcsOf(p, u, e))
      BY <1>4, <1>7
    <2> QED
      BY <1>8, <2>1 DEF IsArc
  <1> QED
    BY <1>1, <1>7, <1>9

(* All of the arcs are those from some node.                               *)
LEMMA AllArcsAre ==
    ASSUME NEW p, IsRouteData(p), p.nodes \in Nat
    PROVE  /\ AllArcs(p) \in Seq(ArcSet)
           /\ \A x : x \in Range(AllArcs(p)) <=> \E u \in Nodes(p) : IsArc(p, x, u)
PROOF
  <1> DEFINE n == p.nodes
             seqs == [u \in 1..n |-> ArcsFrom(p, u)]
             X == Seq(ArcSet)
  <1>1. AllArcs(p) = FlattenSeq(seqs) /\ Nodes(p) = 1..n
    BY DEF AllArcs, Nodes
  <1>2. \A u \in 1..n : ArcsFrom(p, u) \in X /\ \A x : x \in Range(ArcsFrom(p, u)) <=> IsArc(p, x, u)
    BY ArcsFromAre
  <1>3. DOMAIN seqs = 1..n /\ \A u \in 1..n : seqs[u] = ArcsFrom(p, u)
    OBVIOUS
  <1>4. seqs \in [1..n -> X] /\ n \in Nat
    <2> HIDE DEF X
    <2> QED
      BY <1>2
  <1> HIDE DEF seqs, X, n
  <1>5. seqs \in Seq(X)
    BY <1>4
  <1>6. /\ FlattenSeq(seqs) \in Seq(ArcSet)
        /\ \A x : x \in Range(FlattenSeq(seqs)) <=> \E u \in DOMAIN seqs : x \in Range(seqs[u])
    BY <1>5, Flattened DEF X
  <1> QED
    BY <1>1, <1>2, <1>3, <1>6

-----------------------------------------------------------------------------
(* What the schema of delivery problems lets through.                      *)
LEMMA LogisticsTypes ==
    ASSUME NEW p, IsLogisticsData(p)
    PROVE  /\ IsRouteData(p) /\ p.nodes \in Nat /\ Nodes(p) = 1..p.nodes /\ p.depot \in Nodes(p)
           /\ \A e \in DOMAIN p.edges : p.edges[e].weight \in Nat
           /\ Vehicles(p) = 1..Len(p.vehicles) /\ Len(p.vehicles) \in Nat
           /\ \A v \in Vehicles(p) : p.vehicles[v].weight \in Nat /\ p.vehicles[v].volume \in Nat
           /\ Deliveries(p) = 1..Len(p.deliveries) /\ Len(p.deliveries) \in Nat /\ IsFiniteSet(Deliveries(p))
           /\ \A d \in Deliveries(p) :
                  /\ p.deliveries[d].node \in Nodes(p)
                  /\ p.deliveries[d].weight \in Nat /\ p.deliveries[d].volume \in Nat
PROOF
  <1> DEFINE N == 1..p.nodes
             edges == [source : N, target : N, weight : Nat, directed : BOOLEAN]
             wider == [source : Nat, target : Nat, weight : Int, directed : BOOLEAN]
             vehicles == [weight : Nat, volume : Nat]
             deliveries == [node : N, weight : Nat, volume : Nat]
  <1>1. /\ p.edges \in Seq(edges) /\ p.vehicles \in Seq(vehicles) /\ p.deliveries \in Seq(deliveries)
        /\ p.nodes \in Nat /\ p.depot \in N
    BY DEF IsLogisticsData
  <1>2. edges \subseteq wider
    OBVIOUS
  <1>3. p.edges \in Seq(wider) /\ \A e \in DOMAIN p.edges : p.edges[e] \in edges
    <2> HIDE DEF edges, wider
    <2> QED
      BY <1>1, <1>2, ElementOf
  <1>4. /\ DOMAIN p.vehicles = 1..Len(p.vehicles) /\ Len(p.vehicles) \in Nat
        /\ \A v \in DOMAIN p.vehicles : p.vehicles[v] \in vehicles
    <2> HIDE DEF vehicles
    <2> QED
      BY <1>1, RangeOfSequence, ElementOf
  <1>5. /\ DOMAIN p.deliveries = 1..Len(p.deliveries) /\ Len(p.deliveries) \in Nat /\ IsFiniteSet(DOMAIN p.deliveries)
        /\ \A d \in DOMAIN p.deliveries : p.deliveries[d] \in deliveries
    <2> HIDE DEF deliveries
    <2> QED
      BY <1>1, RangeOfSequence, ElementOf
  <1>6. IsRouteData(p)
    BY <1>3 DEF IsRouteData
  <1>7. Nodes(p) = N /\ Vehicles(p) = DOMAIN p.vehicles /\ Deliveries(p) = DOMAIN p.deliveries
    BY DEF Nodes, Vehicles, Deliveries
  <1>8. \A e \in DOMAIN p.edges : p.edges[e].weight \in Nat
    BY <1>3
  <1>9. \A v \in DOMAIN p.vehicles : p.vehicles[v].weight \in Nat /\ p.vehicles[v].volume \in Nat
    BY <1>4
  <1>10. \A d \in DOMAIN p.deliveries :
            /\ p.deliveries[d].node \in N
            /\ p.deliveries[d].weight \in Nat /\ p.deliveries[d].volume \in Nat
    BY <1>5
  <1> QED
    BY <1>1, <1>4, <1>5, <1>6, <1>7, <1>8, <1>9, <1>10

(* The tables of deliveries are the distances along the edges.             *)
LEMMA RoadsAreDistances ==
    ASSUME NEW p, IsLogisticsData(p)
    PROVE  RoadDistances(p) = Distances(p)
PROOF
  <1> DEFINE n == p.nodes
             arcs == Roads(p)
             step == Step(p)
  <1>1. n \in Nat /\ Nodes(p) = 1..n /\ IsRouteData(p)
    BY LogisticsTypes
  <1>2. \A x : x \in arcs <=> \E u \in Nodes(p) : IsArc(p, x, u)
    BY <1>1, AllArcsAre DEF Roads
  <1>3. \A arc \in arcs : arc.weight \in Nat
    BY <1>2, LogisticsTypes DEF IsArc, ArcOf
  <1>4. ASSUME NEW a \in 1..n, NEW b \in 1..n, a # b PROVE step[<<a, b>>] = Arcs(n, arcs)[<<a, b>>]
    <2> DEFINE E == {e \in DOMAIN p.edges \ ForbiddenItems(p) : Passable(p, e, a, b)}
               W == {p.edges[e].weight : e \in E}
               S == {arc.weight : arc \in {x \in arcs : x.from = a /\ x.to = b}}
    <2>1. step[<<a, b>>] = Lightest(W)
      BY <1>1 DEF Step
    <2>2. Arcs(n, arcs)[<<a, b>>] = IF S = {} THEN None ELSE Min(S)
      BY <1>4 DEF Arcs
    <2>3. ASSUME NEW w \in W PROVE w \in S
      <3>1. PICK e \in E : w = p.edges[e].weight
        OBVIOUS
      <3> DEFINE x == ArcOf(p, e, a, b)
      <3>2. x \in arcs
        BY <1>1, <1>2 DEF IsArc
      <3>3. x.from = a /\ x.to = b /\ x.weight = w
        BY <3>1 DEF ArcOf
      <3> HIDE DEF x, arcs
      <3> QED
        BY <3>2, <3>3
    <2>4. ASSUME NEW w \in S PROVE w \in W
      <3>1. PICK arc \in arcs : w = arc.weight /\ arc.from = a /\ arc.to = b
        OBVIOUS
      <3>2. PICK u \in Nodes(p), e \in DOMAIN p.edges \ ForbiddenItems(p), v \in Nat :
                arc = ArcOf(p, e, u, v) /\ Passable(p, e, u, v)
        BY <1>2 DEF IsArc
      <3>3. arc.weight = p.edges[e].weight /\ u = a /\ v = b
        BY <3>1, <3>2 DEF ArcOf
      <3> QED
        BY <3>1, <3>2, <3>3
    <2>5. W \subseteq Nat /\ W = S
      BY <2>3, <2>4, LogisticsTypes
    <2>6. Lightest(W) = IF W = {} THEN None ELSE Min(W)
      <3> HIDE DEF W
      <3> QED
        BY <2>5, LightestOfNaturals
    <2> HIDE DEF W, S, step
    <2> QED
      BY <2>1, <2>2, <2>5, <2>6
  <1>5. RoadDistances(p) = FloydWarshall(n, arcs) /\ Distances(p) = DistancesOver(1..n, step)
    BY <1>1 DEF RoadDistances, Distances
  <1> HIDE DEF step, n, arcs
  <1> QED
    BY <1>1, <1>3, <1>4, <1>5, FloydWarshallFindsDistances

-----------------------------------------------------------------------------

(* Some sequences name each element of a set once altogether, and nothing  *)
(* else, if and only if each element is in just one of them and none of    *)
(* them repeats itself.                                                    *)
Everywhere(K, w) == [ij \in UNION {{i} \X DOMAIN w[i] : i \in K} |-> w[ij[1]][ij[2]]]

(* Each element of D is named once altogether if and only if it is in just *)
(* one of the sequences, they name nothing else, and none of them repeats  *)
(* itself.                                                                 *)
LEMMA EachOnce ==
    ASSUME NEW K, IsFiniteSet(K), NEW w, \A i \in K : w[i] \in Seq(Nat), NEW D
    PROVE  (IsInjective(Everywhere(K, w)) /\ Range(Everywhere(K, w)) = D)
           <=> /\ \A d \in D : Cardinality({i \in K : d \in Range(w[i])}) = 1
               /\ \A i \in K : Range(w[i]) \subseteq D /\ Cardinality(Range(w[i])) = Len(w[i])
PROOF
  <1> DEFINE P == UNION {{i} \X DOMAIN w[i] : i \in K}
             f == Everywhere(K, w)
             T(d) == {i \in K : d \in Range(w[i])}
  <1>1. DOMAIN f = P /\ \A ij \in P : f[ij] = w[ij[1]][ij[2]]
    BY DEF Everywhere
  <1>2. /\ \A i \in K : \A j \in DOMAIN w[i] : <<i, j>> \in P /\ f[<<i, j>>] = w[i][j]
        /\ \A ij \in P : \E i \in K : \E j \in DOMAIN w[i] : ij = <<i, j>>
    BY <1>1
  <1>3. \A i \in K : Cardinality(Range(w[i])) = Len(w[i]) <=> \A j, k \in DOMAIN w[i] : w[i][j] = w[i][k] => j = k
    BY RangeOfSequence
  <1>4. \A d : Cardinality(T(d)) = 1 <=> \E i : T(d) = {i}
    <2> SUFFICES ASSUME NEW d PROVE Cardinality(T(d)) = 1 <=> \E i : T(d) = {i}
      OBVIOUS
    <2>1. IsFiniteSet(T(d))
      BY FS_Subset
    <2> HIDE DEF T
    <2> QED
      BY <2>1, FS_Singleton
  <1>5. \A i \in K : Range(w[i]) = {w[i][j] : j \in DOMAIN w[i]}
    BY DEF Range
  <1>6. Range(f) = {f[ij] : ij \in P}
    BY <1>1 DEF Range
  <1> HIDE DEF P, f
  <1>10. /\ \A i \in K : \A j \in DOMAIN w[i] : w[i][j] \in Range(f)
         /\ \A x \in Range(f) : \E i \in K : x \in Range(w[i])
    <2>1. ASSUME NEW i \in K, NEW j \in DOMAIN w[i] PROVE w[i][j] \in Range(f)
      <3>1. <<i, j>> \in P /\ f[<<i, j>>] = w[i][j]
        BY <1>2
      <3> QED
        BY <1>6, <3>1
    <2>2. ASSUME NEW x \in Range(f) PROVE \E i \in K : x \in Range(w[i])
      <3>1. PICK ij \in P : x = f[ij]
        BY <1>6
      <3>2. PICK i \in K : \E j \in DOMAIN w[i] : ij = <<i, j>>
        BY <1>2
      <3>3. PICK j \in DOMAIN w[i] : ij = <<i, j>>
        BY <3>2
      <3>4. x = w[i][j]
        BY <1>2, <3>1, <3>3
      <3> QED
        BY <1>5, <3>4
    <2> QED
      BY <2>1, <2>2
  <1>7. ASSUME IsInjective(f), Range(f) = D
        PROVE  /\ \A d \in D : \E i : T(d) = {i}
               /\ \A i \in K : Range(w[i]) \subseteq D /\ \A j, k \in DOMAIN w[i] : w[i][j] = w[i][k] => j = k
    <2>1. ASSUME NEW i \in K PROVE Range(w[i]) \subseteq D
      <3>1. \A x \in Range(w[i]) : \E j \in DOMAIN w[i] : x = w[i][j]
        BY <1>5
      <3> HIDE DEF T
      <3> QED
        BY <1>7, <1>10, <3>1
    <2>2. ASSUME NEW i \in K, NEW j \in DOMAIN w[i], NEW k \in DOMAIN w[i], w[i][j] = w[i][k] PROVE j = k
      <3>1. <<i, j>> \in DOMAIN f /\ <<i, k>> \in DOMAIN f /\ f[<<i, j>>] = f[<<i, k>>]
        BY <1>1, <1>2, <2>2
      <3>2. <<i, j>> = <<i, k>>
        BY <1>7, <3>1 DEF IsInjective
      <3> QED
        BY <3>2
    <2>3. ASSUME NEW d \in D PROVE \E i : T(d) = {i}
      <3>0. PICK ij \in P : d = f[ij]
        BY <1>6, <1>7
      <3>5. PICK i \in K : \E j \in DOMAIN w[i] : ij = <<i, j>>
        BY <1>2
      <3>1. PICK j \in DOMAIN w[i] : d = w[i][j]
        BY <1>2, <3>0, <3>5
      <3>2. ASSUME NEW m \in T(d) PROVE m = i
        <4>1. PICK k \in DOMAIN w[m] : d = w[m][k]
          BY <1>5
        <4>2. <<i, j>> \in DOMAIN f /\ <<m, k>> \in DOMAIN f /\ f[<<i, j>>] = f[<<m, k>>]
          BY <1>1, <1>2, <3>1, <4>1
        <4>3. <<i, j>> = <<m, k>>
          BY <1>7, <4>2 DEF IsInjective
        <4> QED
          BY <4>3
      <3>3. i \in T(d)
        BY <1>5, <3>1
      <3>4. T(d) = {i}
        <4> HIDE DEF T
        <4> QED
          BY <3>2, <3>3
      <3> QED
        BY <3>4
    <2> QED
      BY <2>1, <2>2, <2>3
  <1>8. ASSUME \A d \in D : \E i : T(d) = {i},
               \A i \in K : Range(w[i]) \subseteq D /\ \A j, k \in DOMAIN w[i] : w[i][j] = w[i][k] => j = k
        PROVE  IsInjective(f) /\ Range(f) = D
    <2>1. ASSUME NEW x \in P, NEW y \in P, f[x] = f[y] PROVE x = y
      <3>6. PICK i \in K : \E j \in DOMAIN w[i] : x = <<i, j>>
        BY <1>2
      <3>7. PICK m \in K : \E k \in DOMAIN w[m] : y = <<m, k>>
        BY <1>2
      <3>1. PICK j \in DOMAIN w[i] : x = <<i, j>>
        BY <3>6
      <3>2. PICK k \in DOMAIN w[m] : y = <<m, k>>
        BY <3>7
      <3> DEFINE d == w[i][j]
      <3>3. w[m][k] = d /\ d \in D
        <4>1. f[x] = w[i][j] /\ f[y] = w[m][k]
          BY <1>2, <3>1, <3>2
        <4>2. w[i][j] \in Range(w[i])
          BY <1>5
        <4> QED
          BY <1>8, <2>1, <4>1, <4>2
      <3>4. i \in T(d) /\ m \in T(d)
        BY <1>5, <3>3
      <3>5. i = m
        <4> HIDE DEF T, d
        <4> QED
          BY <1>8, <3>3, <3>4
      <3> QED
        BY <1>8, <3>1, <3>2, <3>3, <3>5
    <2>2. Range(f) \subseteq D
      BY <1>8, <1>10
    <2>3. ASSUME NEW d \in D PROVE d \in Range(f)
      <3>1. PICK i : T(d) = {i}
        BY <1>8
      <3>2. i \in K /\ d \in Range(w[i])
        BY <3>1
      <3>3. PICK j \in DOMAIN w[i] : d = w[i][j]
        BY <1>5, <3>2
      <3> QED
        BY <1>2, <1>6, <3>2, <3>3
    <2> QED
      BY <1>1, <2>1, <2>2, <2>3 DEF IsInjective
  <1> HIDE DEF T
  <1>9. (IsInjective(f) /\ Range(f) = D)
        <=> /\ \A d \in D : Cardinality(T(d)) = 1
            /\ \A i \in K : Range(w[i]) \subseteq D /\ Cardinality(Range(w[i])) = Len(w[i])
    BY <1>3, <1>4, <1>7, <1>8
  <1> QED
    BY <1>9 DEF f, T

(* The capacity check of a vehicle sums up what its stops weigh.           *)
LEMMA CapacityIsFit ==
    ASSUME NEW p, IsLogisticsData(p), NEW v \in Vehicles(p),
           NEW stops \in Seq(Deliveries(p)), IsInjective(stops)
    PROVE  CapacityOk(p, v, stops) <=> Fit(p, v, Range(stops))
PROOF
  <1>1. /\ IsFiniteSet(Range(stops)) /\ Range(stops) \subseteq Deliveries(p)
        /\ \A i \in DOMAIN stops : stops[i] \in Deliveries(p)
    BY RangeOfSequence, ElementOf
  <1>2. ASSUME NEW field \in {"weight", "volume"}
        PROVE  SumFunction([i \in {i \in DOMAIN stops : stops[i] \in Deliveries(p)} |->
                               p.deliveries[stops[i]][field]])
               = SumFunction([d \in Range(stops) |-> p.deliveries[d][field]])
    <2> DEFINE f == [d \in Deliveries(p) |-> p.deliveries[d][field]]
               g == [d \in Range(stops) |-> p.deliveries[d][field]]
               h == [i \in DOMAIN stops |-> p.deliveries[stops[i]][field]]
    <2>1. \A d \in Deliveries(p) : f[d] \in Int
      BY LogisticsTypes
    <2>2. {i \in DOMAIN stops : stops[i] \in Deliveries(p)} = DOMAIN stops
      BY <1>1
    <2>3. h = [i \in DOMAIN stops |-> f[stops[i]]] /\ \A d \in Range(stops) : f[d] = g[d]
      BY <1>1
    <2>4. SumFunction(h) = SumFunctionOnSet(h, DOMAIN stops) /\ SumFunction(g) = SumFunctionOnSet(g, Range(stops))
      BY DEF SumFunction
    <2> HIDE DEF f, g, h
    <2>5. SumFunctionOnSet(h, DOMAIN stops) = SumFunctionOnSet(f, Range(stops))
      BY <2>1, <2>3, SumOverOrder
    <2>6. SumFunctionOnSet(f, Range(stops)) = SumFunctionOnSet(g, Range(stops))
      BY <1>1, <2>3, SumAgrees
    <2> QED
      BY <2>2, <2>4, <2>5, <2>6 DEF g, h
  <1> QED
    BY <1>2 DEF CapacityOk, Fit

(* A vehicle without stops does not drive.                                 *)
LEMMA RoundIsDriven ==
    ASSUME NEW p, IsLogisticsData(p), NEW stops \in Seq(Nat)
    PROVE  RouteDistance(p, [i \in DOMAIN stops |-> p.deliveries[stops[i]].node], RoadDistances(p))
           = Drives(p, stops, Distances(p))
PROOF
  <1> DEFINE nodes == [i \in DOMAIN stops |-> p.deliveries[stops[i]].node]
             dist == RoadDistances(p)
             w == <<p.depot>> \o nodes \o <<p.depot>>
  <1>1. Distances(p) = dist
    BY RoadsAreDistances
  <1>2. Drives(p, stops, dist) = PathTotal(w, dist)
    BY DEF Drives
  <1>3. RouteDistance(p, nodes, dist) = IF nodes = <<>> THEN 0 ELSE PathTotal(w, dist)
    BY DEF RouteDistance
  <1>4. ASSUME nodes = <<>> PROVE PathTotal(w, dist) = 0
    <2>1. w = <<p.depot, p.depot>>
      <3>1. ASSUME NEW x PROVE <<x>> \o <<>> = <<x>> /\ <<x>> \o <<x>> = <<x, x>>
        <4>1. <<x>> \in Seq({x}) /\ <<x, x>> \in Seq({x})
          OBVIOUS
        <4>2. <<x>> \o <<>> = <<x>>
          BY <4>1
        <4>3. <<x>> \o <<x>> = <<x, x>>
          <5> DEFINE c == <<x>> \o <<x>>
                     d == <<x, x>>
          <5>1. c \in Seq({x}) /\ Len(c) = 2 /\ d \in Seq({x}) /\ Len(d) = 2
            BY <4>1
          <5> HIDE DEF c, d
          <5>2. \A i \in 1..2 : c[i] = x /\ d[i] = x
            BY <5>1, ElementOf
          <5>3. c = d
            BY <5>1, <5>2, SeqEqual
          <5> QED
            BY <5>3 DEF c, d
        <4> QED
          BY <4>2, <4>3
      <3> QED
        BY <1>4, <3>1
    <2>2. dist[<<p.depot, p.depot>>] = 0
      <3> DEFINE n == p.nodes
                 arcs == Roads(p)
      <3>1. n \in Nat /\ p.depot \in 1..n /\ Nodes(p) = 1..n
        BY LogisticsTypes
      <3>2. \A arc \in arcs : arc.weight \in Nat
        BY LogisticsTypes, AllArcsAre DEF Roads, IsArc, ArcOf
      <3>3. dist = FloydWarshall(n, arcs)
        BY DEF RoadDistances
      <3> HIDE DEF n, arcs
      <3>4. Underbids(dist, n, n, Arcs(n, arcs))
        BY <3>1, <3>2, <3>3, ResultUnderbids
      <3> QED
        BY <3>1, <3>4 DEF Underbids
    <2> DEFINE v == <<p.depot, p.depot>>
               legs == [i \in 1..(Len(v) - 1) |-> dist[<<v[i], v[i + 1]>>]]
    <2>3. PathTotal(v, dist) = IF None \in Range(legs) THEN None ELSE SumFunctionOnSet(legs, DOMAIN legs)
      BY DEF PathTotal, SumFunction
    <2>4. DOMAIN legs = {1} /\ legs[1] = 0
      BY <2>2
    <2> HIDE DEF legs
    <2>5. None \notin Range(legs)
      BY <2>4, NoneAssumption DEF Range
    <2>6. IsFiniteSet({1})
      BY FS_Singleton
    <2>7. SumFunctionOnSet(legs, {1}) = 0
      BY <2>4, <2>6, SumOfZeros
    <2> QED
      BY <2>1, <2>3, <2>4, <2>5, <2>7
  <1> QED
    BY <1>1, <1>2, <1>3, <1>4

(* The verification of deliveries finds a hard violation exactly in what   *)
(* is no delivery.                                                         *)
THEOREM LogisticsVerificationIsRight ==
    ASSUME NEW p, IsLogisticsData(p), NEW a, IsLogisticsSolution(a)
    PROVE  /\ IsDelivery(p, a) <=> LogisticsStructure(p, a) = {}
           /\ LogisticsStructure(p, a) \subseteq {Hard("logistics_structure"), Hard("logistics_capacity")}
PROOF
  <1> DEFINE K == DOMAIN a.routes
             D == Deliveries(p)
             dist == RoadDistances(p)
             w == [i \in K |-> a.routes[i].stops]
             nodes(r) == [i \in DOMAIN r.stops |-> p.deliveries[r.stops[i]].node]
             vehicles == [i \in K |-> a.routes[i].vehicle]
             stops == [ij \in UNION {{i} \X DOMAIN a.routes[i].stops : i \in K} |->
                           a.routes[ij[1]].stops[ij[2]]]
             summed == a.total = SumFunction([i \in K |-> a.routes[i].distance])
             right == /\ IsInjective(vehicles) /\ Range(vehicles) \subseteq Vehicles(p)
                      /\ IsInjective(stops) /\ Range(stops) = D
                      /\ summed
                      /\ \A r \in Range(a.routes) : r.distance = RouteDistance(p, nodes(r), dist)
             overloaded(r) == r.vehicle \in Vehicles(p) /\ ~CapacityOk(p, r.vehicle, r.stops)
  <1>1. LogisticsStructure(p, a)
        = (IF right THEN {} ELSE {Hard("logistics_structure")})
          \cup IF \E r \in Range(a.routes) : overloaded(r) THEN {Hard("logistics_capacity")} ELSE {}
    BY DEF LogisticsStructure
  <1>2. IsFiniteSet(K) /\ \A i \in K : a.routes[i] \in [vehicle : Nat, stops : Seq(Nat), distance : Int]
    <2> DEFINE R == [vehicle : Nat, stops : Seq(Nat), distance : Int]
    <2>1. a.routes \in Seq(R)
      BY DEF IsLogisticsSolution
    <2> HIDE DEF R
    <2>2. IsFiniteSet(K) /\ \A i \in K : a.routes[i] \in R
      BY <2>1, RangeOfSequence, ElementOf
    <2> QED
      BY <2>2 DEF R
  <1>3. (\A r \in Range(a.routes) : \E i \in K : r = a.routes[i]) /\ \A i \in K : a.routes[i] \in Range(a.routes)
    BY DEF Range
  <1>4. \A i \in K : w[i] = a.routes[i].stops /\ w[i] \in Seq(Nat)
    BY <1>2
  <1>5. (IsInjective(stops) /\ Range(stops) = D)
        <=> /\ \A d \in D : Cardinality({i \in K : d \in Range(a.routes[i].stops)}) = 1
            /\ \A i \in K : Range(w[i]) \subseteq D /\ Cardinality(Range(w[i])) = Len(w[i])
    <2>1. stops = Everywhere(K, w)
      <3>1. \A i \in K : DOMAIN w[i] = DOMAIN a.routes[i].stops
        OBVIOUS
      <3>2. UNION {{i} \X DOMAIN w[i] : i \in K} = UNION {{i} \X DOMAIN a.routes[i].stops : i \in K}
        BY <3>1
      <3>3. \A ij \in UNION {{i} \X DOMAIN w[i] : i \in K} : w[ij[1]][ij[2]] = a.routes[ij[1]].stops[ij[2]]
        OBVIOUS
      <3> QED
        BY <3>2, <3>3 DEF Everywhere
    <2>2. \A d : {i \in K : d \in Range(a.routes[i].stops)} = {i \in K : d \in Range(w[i])}
      OBVIOUS
    <2> HIDE DEF stops, w, K, D
    <2>3. (IsInjective(Everywhere(K, w)) /\ Range(Everywhere(K, w)) = D)
          <=> /\ \A d \in D : Cardinality({i \in K : d \in Range(w[i])}) = 1
              /\ \A i \in K : Range(w[i]) \subseteq D /\ Cardinality(Range(w[i])) = Len(w[i])
      <3>1. IsFiniteSet(K) /\ \A i \in K : w[i] \in Seq(Nat)
        BY <1>2, <1>4
      <3> QED
        BY <3>1, EachOnce, Zenon
    <2> QED
      BY <2>1, <2>2, <2>3
  <1>6. /\ IsInjective(vehicles) <=> \A i, j \in K : a.routes[i].vehicle = a.routes[j].vehicle => i = j
        /\ Range(vehicles) \subseteq Vehicles(p) <=> \A i \in K : a.routes[i].vehicle \in Vehicles(p)
    BY DEF IsInjective, Range
  <1>7. \A i \in K : RouteDistance(p, nodes(a.routes[i]), dist) = Drives(p, a.routes[i].stops, Distances(p))
    BY <1>2, RoundIsDriven
  <1>8. ASSUME NEW i \in K, a.routes[i].vehicle \in Vehicles(p), Range(w[i]) \subseteq D, Cardinality(Range(w[i])) = Len(w[i])
        PROVE  CapacityOk(p, a.routes[i].vehicle, a.routes[i].stops)
               <=> Fit(p, a.routes[i].vehicle, Range(a.routes[i].stops))
    <2>1. w[i] \in Seq(D)
      <3> HIDE DEF w, D
      <3>1. w[i] \in Seq(Nat) /\ w[i] \in Seq(Range(w[i]))
        BY <1>4 DEF Range
      <3> QED
        BY <1>8, <3>1
    <2>2. IsInjective(w[i])
      BY <1>4, <1>8, RangeOfSequence DEF IsInjective
    <2> QED
      BY <1>4, <1>8, <2>1, <2>2, CapacityIsFit
  <1>9. IsDelivery(p, a)
        <=> /\ \A i, j \in K : a.routes[i].vehicle = a.routes[j].vehicle => i = j
            /\ \A d \in D : Cardinality({i \in K : d \in Range(a.routes[i].stops)}) = 1
            /\ \A i \in K :
                   /\ a.routes[i].vehicle \in Vehicles(p) /\ Range(w[i]) \subseteq D
                   /\ Cardinality(Range(w[i])) = Len(w[i])
                   /\ Fit(p, a.routes[i].vehicle, Range(a.routes[i].stops))
                   /\ a.routes[i].distance = Drives(p, a.routes[i].stops, Distances(p))
            /\ summed
    <2> DEFINE kept(r) == /\ r.vehicle \in Vehicles(p) /\ Range(r.stops) \subseteq D
                          /\ Cardinality(Range(r.stops)) = Len(r.stops)
                          /\ Fit(p, r.vehicle, Range(r.stops))
                          /\ r.distance = Drives(p, r.stops, Distances(p))
               alone == /\ \A i, j \in K : a.routes[i].vehicle = a.routes[j].vehicle => i = j
                        /\ \A d \in D : Cardinality({i \in K : d \in Range(a.routes[i].stops)}) = 1
    <2>1. IsDelivery(p, a) <=> alone /\ (\A r \in Range(a.routes) : kept(r)) /\ summed
      BY DEF IsDelivery
    <2>2. \A i \in K : kept(a.routes[i])
              <=> /\ a.routes[i].vehicle \in Vehicles(p) /\ Range(w[i]) \subseteq D
                  /\ Cardinality(Range(w[i])) = Len(w[i])
                  /\ Fit(p, a.routes[i].vehicle, Range(a.routes[i].stops))
                  /\ a.routes[i].distance = Drives(p, a.routes[i].stops, Distances(p))
      BY <1>4
    <2> HIDE DEF kept, K
    <2>3. (\A r \in Range(a.routes) : kept(r)) <=> \A i \in K : kept(a.routes[i])
      BY <1>3
    <2> HIDE DEF summed, D, w
    <2> QED
      BY <2>1, <2>2, <2>3
  <1>10. right <=> /\ IsInjective(vehicles) /\ Range(vehicles) \subseteq Vehicles(p)
                   /\ IsInjective(stops) /\ Range(stops) = D
                   /\ summed
                   /\ \A i \in K : a.routes[i].distance = RouteDistance(p, nodes(a.routes[i]), dist)
    BY <1>3
  <1>11. (\E r \in Range(a.routes) : overloaded(r)) <=> \E i \in K : overloaded(a.routes[i])
    BY <1>3
  <1> HIDE DEF right, stops, vehicles, summed, w, dist, nodes, D, K
  <1>12. IsDelivery(p, a) <=> right /\ ~\E i \in K : overloaded(a.routes[i])
    BY <1>5, <1>6, <1>7, <1>8, <1>9, <1>10
  <1> HIDE DEF overloaded
  <1>13. /\ IsDelivery(p, a) <=> LogisticsStructure(p, a) = {}
         /\ LogisticsStructure(p, a) \subseteq {Hard("logistics_structure"), Hard("logistics_capacity")}
    BY <1>1, <1>11, <1>12
  <1> QED
    BY <1>13

-----------------------------------------------------------------------------
(* A verified solution, field by field.                                    *)

Fields == {"status", "violations", "assignments", "metrics"}

(* What the verification finds in a solution.                              *)
FoundIn(p, s) == ViolationsOf(p, s.assignments, CheckedMetrics(p, s))

(* The fields of a verified solution.                                      *)
LEMMA VerifiedFields ==
    ASSUME NEW p, NEW s, DOMAIN s = Fields, s.status # "infeasible"
    PROVE  /\ Verified(p, s).assignments = s.assignments
           /\ Verified(p, s).violations = FoundIn(p, s)
           /\ Verified(p, s).metrics =
                  Updated(CheckedMetrics(p, s), [soft_penalty |-> SoftPenalty(p, FoundIn(p, s))])
           /\ Verified(p, s).status =
                  IF \E v \in FoundIn(p, s) : v.severity = "hard" THEN "invalid" ELSE s.status
BY DEF Verified, Judged, FoundIn, Fields

(* The bounds are judged by the same figures as the reference has.         *)
LEMMA SameFigures ==
    ASSUME NEW p, NEW a, NEW m, NEW n, NEW c,
           c.kind = "numeric_bound" =>
               /\ c.field \in DOMAIN m <=> c.field \in DOMAIN n
               /\ c.field \in DOMAIN m => m[c.field] = n[c.field]
    PROVE  Violates(p, a, m, c) <=> Violates(p, a, n, c)
BY DEF Violates, Breaks

(* What is claimed of a solution is what it is, where it matters.          *)
Truthful(p, s) ==
    \A f \in DOMAIN Truth(p, s.assignments) :
        f \in DOMAIN CheckedMetrics(p, s) /\ CheckedMetrics(p, s)[f] = Truth(p, s.assignments)[f]

(* The figures that bounds are checked against are those of the verified   *)
(* solution.                                                               *)
LEMMA FiguresAreChecked ==
    ASSUME NEW p, NEW s, DOMAIN s = Fields, s.status # "infeasible",
           strategy # "client" \/ p.type = "shift_scheduling" => Truthful(p, s),
           NEW f, f # "soft_penalty"
    PROVE  /\ f \in DOMAIN CheckedMetrics(p, s) <=> f \in DOMAIN Figures(p, Verified(p, s))
           /\ f \in DOMAIN CheckedMetrics(p, s) =>
                  CheckedMetrics(p, s)[f] = Figures(p, Verified(p, s))[f]
PROOF
  <1> DEFINE penalty == SoftPenalty(p, FoundIn(p, s))
             checked == CheckedMetrics(p, s)
             claimed == [g \in DOMAIN Verified(p, s).metrics \ {"soft_penalty"} |-> Verified(p, s).metrics[g]]
             truth == Truth(p, s.assignments)
  <1>1. /\ Verified(p, s).assignments = s.assignments
        /\ Verified(p, s).metrics = Updated(checked, [soft_penalty |-> penalty])
    BY VerifiedFields
  <1>2. Figures(p, Verified(p, s)) = IF strategy # "client" \/ p.type = "shift_scheduling"
                                     THEN Updated(claimed, truth) ELSE claimed
    BY <1>1 DEF Figures
  <1>3. Truthful(p, s) <=> \A g \in DOMAIN truth : g \in DOMAIN checked /\ checked[g] = truth[g]
    BY DEF Truthful
  <1> HIDE DEF penalty, checked, truth
  <1>4. /\ DOMAIN Verified(p, s).metrics = {"soft_penalty"} \cup DOMAIN checked
        /\ f \in DOMAIN checked => Verified(p, s).metrics[f] = checked[f]
    BY <1>1 DEF Updated
  <1>5. /\ f \in DOMAIN claimed <=> f \in DOMAIN checked
        /\ f \in DOMAIN checked => claimed[f] = checked[f]
    BY <1>4
  <1> HIDE DEF claimed
  <1>6. /\ DOMAIN Updated(claimed, truth) = DOMAIN truth \cup DOMAIN claimed
        /\ f \in DOMAIN truth \cup DOMAIN claimed =>
               Updated(claimed, truth)[f] = IF f \in DOMAIN truth THEN truth[f] ELSE claimed[f]
    BY DEF Updated
  <1>7. /\ f \in DOMAIN checked <=> f \in DOMAIN Figures(p, Verified(p, s))
        /\ f \in DOMAIN checked => checked[f] = Figures(p, Verified(p, s))[f]
    BY <1>2, <1>3, <1>5, <1>6
  <1> QED
    BY <1>7 DEF checked

(* The constraints that the verification finds violated are those that the *)
(* solution does not respect, but for the days off.                        *)
LEMMA ViolatedAsJudged ==
    ASSUME NEW p, NEW s, DOMAIN s = Fields, s.status # "infeasible",
           strategy # "client" \/ p.type = "shift_scheduling" => Truthful(p, s),
           ~BoundsPenalty(p), NEW c \in Range(p.constraints)
    PROVE  Violates(p, s.assignments, CheckedMetrics(p, s), c)
           <=> Violates(p, s.assignments, Figures(p, Verified(p, s)), c)
PROOF
  <1>1. c.kind = "numeric_bound" => c.field # "soft_penalty"
    BY DEF BoundsPenalty, OfKind
  <1>2. c.kind = "numeric_bound" =>
            /\ c.field \in DOMAIN CheckedMetrics(p, s) <=> c.field \in DOMAIN Figures(p, Verified(p, s))
            /\ c.field \in DOMAIN CheckedMetrics(p, s) =>
                   CheckedMetrics(p, s)[c.field] = Figures(p, Verified(p, s))[c.field]
    BY <1>1, FiguresAreChecked
  <1> QED
    BY <1>2, SameFigures
(* Somebody works on a day off that was asked for.                         *)
OnDayOff(p, a) ==
    p.type = "shift_scheduling" /\ \E r \in Requests(p) : WorksOn(p, a, r[1], r[2])

(* What the verdict rests on: the solution has the fields of a candidate,  *)
(* the structural verification finds a hard violation just where the       *)
(* reference does, unless units are split, and it reports a soft one for   *)
(* the days off.                                                           *)
StructureIsRight(p, a) ==
    /\ IsAnswer(p, a) => \A v \in Structure(p, a) : v.severity # "hard"
    /\ (\A v \in Structure(p, a) : v.severity # "hard") => IsAnswer(p, a) \/ SplitsUnits(p, a)
    /\ \A v \in Structure(p, a) : v.severity = "soft" => v.kind = "respect_days_off"
    /\ OnDayOff(p, a) <=> \E v \in Structure(p, a) : v.severity = "soft"

(* What a verdict can be passed on: a solution with the figures it has.    *)
Judgeable(p, s) ==
    /\ DOMAIN s = Fields /\ s.status \in {"valid", "invalid"}
    /\ p.constraints \in Seq(Range(p.constraints))
    /\ \A c \in Range(p.constraints) : IsConstraint(c)
    /\ ~BoundsPenalty(p)
    /\ strategy # "client" \/ p.type = "shift_scheduling" => Truthful(p, s)
    /\ StructureIsRight(p, s.assignments)

(* What the verification finds: what breaks the constraints, and what is   *)
(* wrong with the structure.                                               *)
LEMMA FoundAre ==
    ASSUME NEW p, NEW s
    PROVE  /\ \A v \in Structure(p, s.assignments) : v \in FoundIn(p, s)
           /\ \A c \in Range(p.constraints) : Violates(p, s.assignments, CheckedMetrics(p, s), c) =>
                  \E v \in FoundIn(p, s) : v.kind = c.kind /\ v.severity = c.severity
           /\ \A v \in FoundIn(p, s) :
                  \/ v \in Structure(p, s.assignments)
                  \/ \E c \in Range(p.constraints) :
                         /\ Violates(p, s.assignments, CheckedMetrics(p, s), c)
                         /\ v.kind = c.kind /\ v.severity = c.severity
PROOF
  <1> DEFINE broken == {c \in Range(p.constraints) : Violates(p, s.assignments, CheckedMetrics(p, s), c)}
             structure == Structure(p, s.assignments)
  <1>1. FoundIn(p, s) = structure \cup {ViolationOf(c) : c \in broken}
    BY DEF FoundIn, ViolationsOf
  <1>2. \A c : c \in broken <=> c \in Range(p.constraints) /\ Violates(p, s.assignments, CheckedMetrics(p, s), c)
    OBVIOUS
  <1>3. \A c : ViolationOf(c).kind = c.kind /\ ViolationOf(c).severity = c.severity
    BY DEF ViolationOf
  <1> HIDE DEF broken, structure
  <1>4. \A v : v \in FoundIn(p, s) <=> v \in structure \/ \E c \in broken : v = ViolationOf(c)
    BY <1>1
  <1> QED
    BY <1>2, <1>3, <1>4 DEF structure

(* A hard violation is found only if the solution solves nothing, and then *)
(* unless it splits units.                                                 *)
LEMMA HardViolations ==
    ASSUME NEW p, NEW s, Judgeable(p, s)
    PROVE  LET refused == \E v \in FoundIn(p, s) : v.severity = "hard"
           IN  /\ Solves(p, Verified(p, s)) => ~refused
               /\ Solves(p, Verified(p, s)) \/ refused \/ SplitsUnits(p, s.assignments)
PROOF
  <1> DEFINE judged == Verified(p, s)
  <1>1. judged.assignments = s.assignments
    BY VerifiedFields DEF Judgeable
  <1>2. \A c \in Range(p.constraints) :
            Violates(p, s.assignments, CheckedMetrics(p, s), c)
            <=> Violates(p, s.assignments, Figures(p, judged), c)
    BY ViolatedAsJudged DEF Judgeable
  <1> HIDE DEF judged
  <1>3. \A c \in Range(p.constraints) : c.severity = "hard" =>
            (Respects(p, judged, c) <=> ~Violates(p, s.assignments, CheckedMetrics(p, s), c))
    BY <1>1, <1>2 DEF Respects
  <1>4. ~(\E v \in FoundIn(p, s) : v.severity = "hard")
        <=> /\ \A v \in Structure(p, s.assignments) : v.severity # "hard"
            /\ \A c \in Range(p.constraints) :
                   Violates(p, s.assignments, CheckedMetrics(p, s), c) => c.severity # "hard"
    BY FoundAre
  <1>5. Solves(p, judged)
        <=> /\ IsAnswer(p, s.assignments)
            /\ \A c \in Range(p.constraints) : c.severity = "hard" => Respects(p, judged, c)
    BY <1>1 DEF Solves
  <1>6. /\ IsAnswer(p, s.assignments) => \A v \in Structure(p, s.assignments) : v.severity # "hard"
        /\ (\A v \in Structure(p, s.assignments) : v.severity # "hard") =>
               IsAnswer(p, s.assignments) \/ SplitsUnits(p, s.assignments)
    BY DEF Judgeable, StructureIsRight
  <1> QED
    BY <1>3, <1>4, <1>5, <1>6 DEF judged

(* The kinds of which a soft violation is found are those of which a soft  *)
(* constraint is not respected, and the days off.                          *)
SoftKinds(p, s) == {v.kind : v \in {v \in FoundIn(p, s) : v.severity = "soft"}}

(* The kinds that are violated softly are those of the soft constraints,   *)
(* and days off.                                                           *)
LEMMA SoftViolations ==
    ASSUME NEW p, NEW s, Judgeable(p, s), NEW c \in Range(p.constraints), c.severity = "soft"
    PROVE  /\ ~Respects(p, Verified(p, s), c) => c.kind \in SoftKinds(p, s)
           /\ c.kind \in SoftKinds(p, s) =>
                  \E d \in Range(p.constraints) :
                      d.kind = c.kind /\ d.severity = "soft" /\ ~Respects(p, Verified(p, s), d)
PROOF
  <1> DEFINE judged == Verified(p, s)
  <1>1. judged.assignments = s.assignments
    BY VerifiedFields DEF Judgeable
  <1>2. \A d \in Range(p.constraints) :
            Violates(p, s.assignments, CheckedMetrics(p, s), d)
            <=> Violates(p, s.assignments, Figures(p, judged), d)
    BY ViolatedAsJudged DEF Judgeable
  <1> HIDE DEF judged
  <1>3. \A d \in Range(p.constraints) : d.severity = "soft" =>
            (Respects(p, judged, d) <=> /\ ~Violates(p, s.assignments, CheckedMetrics(p, s), d)
                                        /\ d.kind = "respect_days_off" => ~OnDayOff(p, s.assignments))
    BY <1>1, <1>2 DEF Respects, OnDayOff
  <1>4. \A k : k \in SoftKinds(p, s)
            <=> \/ \E v \in Structure(p, s.assignments) : v.severity = "soft" /\ v.kind = k
                \/ \E d \in Range(p.constraints) :
                       /\ Violates(p, s.assignments, CheckedMetrics(p, s), d)
                       /\ d.severity = "soft" /\ d.kind = k
    <2>1. \A k : k \in SoftKinds(p, s) <=> \E v \in FoundIn(p, s) : v.severity = "soft" /\ v.kind = k
      BY DEF SoftKinds
    <2> QED
      BY <2>1, FoundAre
  <1>5. \A k : (\E v \in Structure(p, s.assignments) : v.severity = "soft" /\ v.kind = k)
            <=> k = "respect_days_off" /\ OnDayOff(p, s.assignments)
    BY DEF Judgeable, StructureIsRight
  <1>6. \A k : k \in SoftKinds(p, s)
            <=> \/ k = "respect_days_off" /\ OnDayOff(p, s.assignments)
                \/ \E d \in Range(p.constraints) :
                       /\ Violates(p, s.assignments, CheckedMetrics(p, s), d)
                       /\ d.severity = "soft" /\ d.kind = k
    BY <1>4, <1>5
  <1>7. ~Respects(p, judged, c) => c.kind \in SoftKinds(p, s)
    BY <1>3, <1>6
  <1>8. ASSUME c.kind \in SoftKinds(p, s)
        PROVE  \E d \in Range(p.constraints) :
                   d.kind = c.kind /\ d.severity = "soft" /\ ~Respects(p, judged, d)
    BY <1>3, <1>6, <1>8
  <1> QED
    BY <1>7, <1>8 DEF judged

(* The penalty is that of the soft constraints that are not respected, or  *)
(* more.                                                                   *)
LEMMA PenaltyIsRight ==
    ASSUME NEW p, NEW s, Judgeable(p, s)
    PROVE  LET v == Verified(p, s)
           IN  /\ (\A c \in Range(p.constraints) : c.penalty >= 0) => v.metrics.soft_penalty >= Penalty(p, v)
               /\ KindsAgree(p, v) => v.metrics.soft_penalty = Penalty(p, v)
PROOF
  <1> DEFINE judged == Verified(p, s)
             S == DOMAIN p.constraints
             kinds == SoftKinds(p, s)
             charged(c) == IF c.severity = "soft" /\ c.kind \in kinds THEN c.penalty ELSE 0
             due(c) == IF c.severity = "soft" /\ ~Respects(p, judged, c) THEN c.penalty ELSE 0
             charges == [i \in S |-> charged(p.constraints[i])]
             dues == [i \in S |-> due(p.constraints[i])]
  <1>1. judged.metrics = Updated(CheckedMetrics(p, s), [soft_penalty |-> SoftPenalty(p, FoundIn(p, s))])
    BY VerifiedFields DEF Judgeable
  <1>2. judged.metrics.soft_penalty = SumFunctionOnSet(charges, S)
    <2>1. judged.metrics.soft_penalty = SoftPenalty(p, FoundIn(p, s))
      <3> HIDE DEF judged
      <3> QED
        BY <1>1 DEF Updated
    <2>2. SoftPenalty(p, FoundIn(p, s)) = SumFunctionOnSet(charges, S)
      BY DEF SoftPenalty, SumFunction, SoftKinds
    <2> QED
      BY <2>1, <2>2
  <1>3. Penalty(p, judged) = SumFunctionOnSet(dues, S)
    BY DEF Penalty, SumFunction
  <1>4. IsFiniteSet(S)
    <2>1. S = 1..Len(p.constraints) /\ Len(p.constraints) \in Nat
      BY DEF Judgeable
    <2> QED
      BY <2>1, FS_Interval
  <1>5. \A i \in S : p.constraints[i] \in Range(p.constraints)
    BY DEF Range
  <1>6. \A c \in Range(p.constraints) : c.penalty \in Int
    BY DEF Judgeable, IsConstraint
  <1>7. \A c \in Range(p.constraints) : c.severity = "soft" =>
            /\ ~Respects(p, judged, c) => c.kind \in kinds
            /\ c.kind \in kinds => \E d \in Range(p.constraints) :
                   d.kind = c.kind /\ d.severity = "soft" /\ ~Respects(p, judged, d)
    BY SoftViolations
  <1> HIDE DEF judged, kinds
  <1>8. ASSUME \A c \in Range(p.constraints) : c.penalty >= 0
        PROVE  judged.metrics.soft_penalty >= Penalty(p, judged)
    <2>1. \A i \in S : dues[i] \in Int /\ charges[i] \in Int /\ dues[i] <= charges[i]
      BY <1>5, <1>6, <1>7, <1>8
    <2>2. SumFunctionOnSet(dues, S) <= SumFunctionOnSet(charges, S)
      <3> HIDE DEF dues, charges, S
      <3> QED
        BY <1>4, <2>1, SumsCompare
    <2>3. SumFunctionOnSet(dues, S) \in Int /\ SumFunctionOnSet(charges, S) \in Int
      <3> HIDE DEF dues, charges, S
      <3> QED
        BY <1>4, <2>1, SumTakes
    <2> QED
      BY <1>2, <1>3, <2>2, <2>3
  <1>9. ASSUME KindsAgree(p, judged)
        PROVE  judged.metrics.soft_penalty = Penalty(p, judged)
    <2>1. \A c \in Range(p.constraints) : c.severity = "soft" /\ c.kind \in kinds => ~Respects(p, judged, c)
      BY <1>7, <1>9 DEF KindsAgree
    <2>2. \A i \in S : dues[i] = charges[i]
      BY <1>5, <1>7, <2>1
    <2>3. SumFunctionOnSet(dues, S) = SumFunctionOnSet(charges, S)
      <3> HIDE DEF dues, charges, S
      <3> QED
        BY <1>4, <2>2, SumAgrees
    <2> QED
      BY <1>2, <1>3, <2>3
  <1> QED
    BY <1>8, <1>9 DEF judged

(* The verdict is right on what can be judged.                             *)
LEMMA VerdictFollows ==
    ASSUME NEW p, NEW s, Judgeable(p, s), strategy # "client" => s.status = "valid"
    PROVE  LET v == Verified(p, s)
               solves == Solves(p, v)
               refused == \E x \in v.violations : x.severity = "hard"
           IN  /\ solves => ~refused
               /\ solves \/ refused \/ SplitsUnits(p, v.assignments)
               /\ v.status = "valid" => ~refused
               /\ solves /\ strategy # "client" => v.status = "valid"
               /\ (\A c \in Range(p.constraints) : c.penalty >= 0) => v.metrics.soft_penalty >= Penalty(p, v)
               /\ KindsAgree(p, v) => v.metrics.soft_penalty = Penalty(p, v)
PROOF
  <1>1. /\ Verified(p, s).violations = FoundIn(p, s) /\ Verified(p, s).assignments = s.assignments
        /\ Verified(p, s).status =
               IF \E v \in FoundIn(p, s) : v.severity = "hard" THEN "invalid" ELSE s.status
    BY VerifiedFields DEF Judgeable
  <1>2. LET refused == \E v \in FoundIn(p, s) : v.severity = "hard"
        IN  /\ Solves(p, Verified(p, s)) => ~refused
            /\ Solves(p, Verified(p, s)) \/ refused \/ SplitsUnits(p, s.assignments)
    BY HardViolations
  <1>3. s.status \in {"valid", "invalid"}
    BY DEF Judgeable
  <1> QED
    BY <1>1, <1>2, <1>3, PenaltyIsRight
-----------------------------------------------------------------------------
(* Routes.                                                                 *)

(* The verification of a route (verification.py, _check_route) refuses     *)
(* what is none, and nothing else.                                         *)
LEMMA RouteStructureIsRight ==
    ASSUME NEW p, p.type = "route_planning", NEW a, ~Backwards(p, a)
    PROVE  StructureIsRight(p, a)
PROOF
  <1>1. Structure(p, a) = RouteStructure(p, a) /\ (IsAnswer(p, a) <=> IsRoute(p, a)) /\ ~OnDayOff(p, a)
    BY DEF Structure, IsAnswer, OnDayOff
  <1>2. ASSUME Len(a.edges) = Len(a.nodes) - 1
        PROVE  /\ Range(a.edges) \subseteq DOMAIN p.edges
               /\ \A i \in DOMAIN a.edges : Connects(p.edges[a.edges[i]], a.nodes[i], a.nodes[i + 1])
               <=> \A i \in DOMAIN a.edges : Passable(p, a.edges[i], a.nodes[i], a.nodes[i + 1])
    <2>1. ASSUME NEW i \in DOMAIN a.edges, a.edges[i] \in DOMAIN p.edges
          PROVE  Connects(p.edges[a.edges[i]], a.nodes[i], a.nodes[i + 1])
                 <=> Passable(p, a.edges[i], a.nodes[i], a.nodes[i + 1])
      <3>1. ~(/\ ~Passable(p, a.edges[i], a.nodes[i], a.nodes[i + 1])
              /\ Passable(p, a.edges[i], a.nodes[i + 1], a.nodes[i]))
        BY <1>2, <2>1 DEF Backwards
      <3> DEFINE e == p.edges[a.edges[i]]
                 x == a.nodes[i]
                 y == a.nodes[i + 1]
      <3>2. Passable(p, a.edges[i], x, y) <=> \/ e.source = x /\ e.target = y
                                              \/ ~e.directed /\ e.source = y /\ e.target = x
        BY <2>1 DEF Passable
      <3>3. Passable(p, a.edges[i], y, x) <=> \/ e.source = y /\ e.target = x
                                              \/ ~e.directed /\ e.source = x /\ e.target = y
        BY <2>1 DEF Passable
      <3>4. Connects(e, x, y) <=> \/ {e.source, e.target} = {x, y}
                                  \/ e.directed /\ e.source = x /\ e.target = y
        BY DEF Connects
      <3>5. {e.source, e.target} = {x, y}
            <=> \/ e.source = x /\ e.target = y
                \/ e.source = y /\ e.target = x
        OBVIOUS
      <3> QED
        BY <3>1, <3>2, <3>3, <3>4, <3>5
    <2>2. Range(a.edges) \subseteq DOMAIN p.edges <=> \A i \in DOMAIN a.edges : a.edges[i] \in DOMAIN p.edges
      BY DEF Range
    <2>3. \A i \in DOMAIN a.edges :
              Passable(p, a.edges[i], a.nodes[i], a.nodes[i + 1]) => a.edges[i] \in DOMAIN p.edges
      BY DEF Passable
    <2> QED
      BY <2>1, <2>2, <2>3
  <1>3. IsRoute(p, a) <=> RouteStructure(p, a) = {}
    BY <1>2 DEF IsRoute, RouteStructure
  <1>4. RouteStructure(p, a) # {} => RouteStructure(p, a) = {Hard("route_structure")}
    BY DEF RouteStructure
  <1>5. Hard("route_structure").severity = "hard"
    BY DEF Hard
  <1> QED
    BY <1>1, <1>3, <1>4, <1>5 DEF StructureIsRight
-----------------------------------------------------------------------------
(* Networks.                                                               *)

(* What spreads until it is closed ends with the least closed set, however *)
(* it steps: `more` gives every part of U what it leads to.                *)

IsSpread(spread, U, more) ==
    spread = [R \in SUBSET U |-> IF more[R] \subseteq R THEN R ELSE spread[R \cup more[R]]]

(* A greater set leads to more.                                            *)
Monotone(U, more) ==
    /\ \A R \in SUBSET U : more[R] \subseteq U
    /\ \A R, D \in SUBSET U : R \subseteq D => more[R] \subseteq more[D]

(* Something spreads until it is closed, and ends.                         *)
LEMMA SpreadExists ==
    ASSUME NEW U, NEW more, Monotone(U, more)
    PROVE  \E spread : IsSpread(spread, U, more)
PROOF
  <1> DEFINE least(R) == {x \in U : \A D \in SUBSET U : R \subseteq D /\ more[D] \subseteq D => x \in D}
             f == [R \in SUBSET U |-> least(R)]
  <1>1. ASSUME NEW R \in SUBSET U
        PROVE  f[R] = IF more[R] \subseteq R THEN R ELSE f[R \cup more[R]]
    <2>1. CASE more[R] \subseteq R
      <3>1. least(R) = R
        BY <2>1
      <3> QED
        BY <2>1, <3>1
    <2>2. CASE ~(more[R] \subseteq R)
      <3>1. R \cup more[R] \in SUBSET U
        BY DEF Monotone
      <3>2. \A D \in SUBSET U : more[D] \subseteq D => (R \subseteq D <=> R \cup more[R] \subseteq D)
        BY DEF Monotone
      <3>3. least(R) = least(R \cup more[R])
        BY <3>2
      <3> QED
        BY <2>2, <3>1, <3>3
    <2> QED
      BY <2>1, <2>2
  <1>2. f = [R \in SUBSET U |-> f[R]]
    OBVIOUS
  <1> HIDE DEF f
  <1>3. f = [R \in SUBSET U |-> IF more[R] \subseteq R THEN R ELSE f[R \cup more[R]]]
    BY <1>1, <1>2
  <1> QED
    BY <1>3 DEF IsSpread

(* What has spread is closed.                                              *)
LEMMA SpreadCloses ==
    ASSUME NEW U, IsFiniteSet(U), NEW more, Monotone(U, more),
           NEW spread, IsSpread(spread, U, more), NEW R \in SUBSET U
    PROVE  /\ R \subseteq spread[R] /\ spread[R] \subseteq U
           /\ more[spread[R]] \subseteq spread[R]
           /\ \A D \in SUBSET U : R \subseteq D /\ more[D] \subseteq D => spread[R] \subseteq D
PROOF
  <1> DEFINE Closes(Q) == /\ Q \subseteq spread[Q] /\ spread[Q] \subseteq U
                          /\ more[spread[Q]] \subseteq spread[Q]
                          /\ \A D \in SUBSET U : Q \subseteq D /\ more[D] \subseteq D => spread[Q] \subseteq D
             Bad == {U \ Q : Q \in {Q \in SUBSET U : ~Closes(Q)}}
  <1>1. SUFFICES ASSUME Bad # {} PROVE FALSE
    <2>1. ~Closes(R) => U \ R \in Bad
      OBVIOUS
    <2> QED
      BY <2>1
  <1>2. PICK T \in Bad : \A V \in SUBSET T : V # T => V \notin Bad
    <2>1. Bad \subseteq SUBSET U
      OBVIOUS
    <2> HIDE DEF Bad
    <2> QED
      BY <1>1, <2>1, SmallestSubset
  <1>3. PICK Q \in SUBSET U : ~Closes(Q) /\ T = U \ Q
    BY <1>2
  <1>4. spread[Q] = IF more[Q] \subseteq Q THEN Q ELSE spread[Q \cup more[Q]]
    BY DEF IsSpread
  <1>5. ~(more[Q] \subseteq Q)
    <2>1. more[Q] \subseteq Q => Closes(Q)
      BY <1>4
    <2> QED
      BY <1>3, <2>1
  <1>6. Q \cup more[Q] \in SUBSET U
    BY DEF Monotone
  <1>7. Closes(Q \cup more[Q])
    <2>1. U \ (Q \cup more[Q]) \in SUBSET T /\ U \ (Q \cup more[Q]) # T
      BY <1>3, <1>5, <1>6
    <2>2. U \ (Q \cup more[Q]) \notin Bad
      BY <1>2, <2>1
    <2> QED
      BY <1>6, <2>2
  <1>8. \A D \in SUBSET U : Q \subseteq D /\ more[D] \subseteq D => Q \cup more[Q] \subseteq D
    BY DEF Monotone
  <1>9. Closes(Q)
    BY <1>4, <1>5, <1>7, <1>8
  <1> QED
    BY <1>3, <1>9
(* The sites at the ends of links.                                         *)
EndsOf(p, links) == UNION {{p.links[l].a, p.links[l].b} : l \in links}

(* What the links lead to from a set of sites is the least set around it   *)
(* that no link leaves.                                                    *)
LEMMA SpreadIsLeast ==
    ASSUME NEW p, NEW links, NEW start, IsFiniteSet(start \cup EndsOf(p, links))
    PROVE  LET reached == Spread(p, links, start)
           IN  /\ start \subseteq reached /\ reached \subseteq start \cup EndsOf(p, links)
               /\ \A l \in links : p.links[l].a \in reached <=> p.links[l].b \in reached
               /\ \A D : /\ start \subseteq D
                         /\ \A l \in links : p.links[l].a \in D <=> p.links[l].b \in D
                         => reached \subseteq D
PROOF
  <1> DEFINE U == start \cup EndsOf(p, links)
             touched(R) == EndsOf(p, {l \in links : {p.links[l].a, p.links[l].b} \cap R # {}})
             more == [R \in SUBSET U |-> touched(R)]
             spread == CHOOSE f : f = [R \in SUBSET U |-> IF touched(R) \subseteq R THEN R ELSE f[R \cup touched(R)]]
  <1>1. Spread(p, links, start) = spread[start]
    BY DEF Spread, EndsOf
  <1>2. \A R, x : x \in touched(R) <=> \E l \in links : /\ x \in {p.links[l].a, p.links[l].b}
                                                      /\ {p.links[l].a, p.links[l].b} \cap R # {}
    BY DEF EndsOf
  <1>3. \A x : x \in EndsOf(p, links) <=> \E l \in links : x \in {p.links[l].a, p.links[l].b}
    BY DEF EndsOf
  <1> HIDE DEF touched, U
  <1>4. Monotone(U, more)
    <2>1. \A R : touched(R) \subseteq U
      BY <1>2, <1>3 DEF U
    <2>2. \A R, D : R \subseteq D => touched(R) \subseteq touched(D)
      BY <1>2
    <2> QED
      BY <2>1, <2>2 DEF Monotone
  <1>5. IsSpread(spread, U, more)
    <2>1. \A f : IsSpread(f, U, more)
               <=> f = [R \in SUBSET U |-> IF touched(R) \subseteq R THEN R ELSE f[R \cup touched(R)]]
      <3>1. ASSUME NEW f
            PROVE  [R \in SUBSET U |-> IF more[R] \subseteq R THEN R ELSE f[R \cup more[R]]]
                   = [R \in SUBSET U |-> IF touched(R) \subseteq R THEN R ELSE f[R \cup touched(R)]]
        OBVIOUS
      <3> QED
        BY <3>1 DEF IsSpread
    <2>2. \E f : IsSpread(f, U, more)
      BY <1>4, SpreadExists
    <2> HIDE DEF more
    <2> QED
      BY <2>1, <2>2
  <1>6. start \in SUBSET U /\ IsFiniteSet(U)
    BY DEF U
  <1> HIDE DEF spread
  <1>7. /\ start \subseteq spread[start] /\ spread[start] \subseteq U
        /\ touched(spread[start]) \subseteq spread[start]
        /\ \A D \in SUBSET U : start \subseteq D /\ touched(D) \subseteq D => spread[start] \subseteq D
    <2>1. \A R \in SUBSET U : more[R] = touched(R)
      OBVIOUS
    <2> HIDE DEF more
    <2> QED
      BY <1>4, <1>5, <1>6, <2>1, SpreadCloses
  <1>8. \A D : touched(D) \subseteq D <=> \A l \in links : p.links[l].a \in D <=> p.links[l].b \in D
    <2>1. ASSUME NEW D, touched(D) \subseteq D, NEW l \in links
          PROVE  p.links[l].a \in D <=> p.links[l].b \in D
      BY <1>2, <2>1
    <2>2. ASSUME NEW D, \A l \in links : p.links[l].a \in D <=> p.links[l].b \in D
          PROVE  touched(D) \subseteq D
      BY <1>2, <2>2
    <2> QED
      BY <2>1, <2>2
  <1>9. ASSUME NEW D, start \subseteq D, \A l \in links : p.links[l].a \in D <=> p.links[l].b \in D
        PROVE  spread[start] \subseteq D
    <2>1. touched(D) \subseteq D
      BY <1>8, <1>9
    <2>2. touched(D \cap U) \subseteq D \cap U
      <3>1. touched(D \cap U) \subseteq touched(D)
        BY <1>2
      <3>2. touched(D \cap U) \subseteq U
        BY <1>2, <1>3 DEF U
      <3> QED
        BY <2>1, <3>1, <3>2
    <2> QED
      BY <1>6, <1>7, <1>9, <2>2
  <1> QED
    BY <1>1, <1>7, <1>8, <1>9 DEF U

(* The sites of a network are finitely many.                               *)
LEMMA SitesAreFinite ==
    ASSUME NEW p, p.nodes \in Nat
    PROVE  IsFiniteSet(Sites(p)) /\ Cardinality(Sites(p)) = p.nodes
BY FS_Interval DEF Sites

(* All nodes are reached over links if and only if every cut is crossed.   *)
LEMMA ConnectedAsCuts ==
    ASSUME NEW p, p.nodes \in Nat, p.nodes > 1,
           NEW t, \A l \in t : p.links[l].a \in Sites(p) /\ p.links[l].b \in Sites(p)
    PROVE  Sites(p) \subseteq Spread(p, t, {1})
           <=> \A part \in (SUBSET Sites(p)) \ {{}, Sites(p)} : \E l \in t : Crosses(p, l, part)
PROOF
  <1> DEFINE reached == Spread(p, t, {1})
  <1>1. 1 \in Sites(p)
    BY DEF Sites
  <1>2. {1} \cup EndsOf(p, t) \subseteq Sites(p)
    BY <1>1 DEF EndsOf
  <1>3. IsFiniteSet({1} \cup EndsOf(p, t))
    BY <1>2, SitesAreFinite, FS_Subset
  <1>4. /\ 1 \in reached /\ reached \subseteq Sites(p)
        /\ \A l \in t : p.links[l].a \in reached <=> p.links[l].b \in reached
        /\ \A D : 1 \in D /\ (\A l \in t : p.links[l].a \in D <=> p.links[l].b \in D) => reached \subseteq D
    BY <1>2, <1>3, SpreadIsLeast
  <1> HIDE DEF reached
  <1>5. \A part, l : Crosses(p, l, part) <=> ~(p.links[l].a \in part <=> p.links[l].b \in part)
    BY DEF Crosses
  <1>6. ASSUME Sites(p) \subseteq reached, NEW part \in (SUBSET Sites(p)) \ {{}, Sites(p)},
               \A l \in t : ~Crosses(p, l, part)
        PROVE  FALSE
    <2>1. \A l \in t : p.links[l].a \in part <=> p.links[l].b \in part
      BY <1>5, <1>6
    <2>2. CASE 1 \in part
      BY <1>4, <1>6, <2>1, <2>2
    <2>3. CASE 1 \notin part
      <3> DEFINE D == Sites(p) \ part
      <3>1. \A l \in t : p.links[l].a \in D <=> p.links[l].b \in D
        BY <2>1
      <3>2. reached \subseteq D
        BY <1>1, <1>4, <2>3, <3>1
      <3> QED
        BY <1>6, <3>2
    <2> QED
      BY <2>2, <2>3
  <1>7. ASSUME ~(Sites(p) \subseteq reached)
        PROVE  \E part \in (SUBSET Sites(p)) \ {{}, Sites(p)} : \A l \in t : ~Crosses(p, l, part)
    <2>1. reached \in (SUBSET Sites(p)) \ {{}, Sites(p)}
      BY <1>4, <1>7
    <2> QED
      BY <1>4, <1>5, <2>1
  <1> QED
    BY <1>6, <1>7 DEF reached

(* Links that cross every cut are at least as many as it takes.            *)
LEMMA CutsNeedLinks ==
    ASSUME NEW p, p.nodes \in Nat, p.nodes > 0,
           NEW t, IsFiniteSet(t), \A l \in t : p.links[l].a \in Sites(p) /\ p.links[l].b \in Sites(p),
           \A part \in (SUBSET Sites(p)) \ {{}, Sites(p)} : \E l \in t : Crosses(p, l, part)
    PROVE  Cardinality(t) >= p.nodes - 1
PROOF
  <1> DEFINE Spans(links, part, k) == /\ part # {} /\ Cardinality(part) = k + 1 /\ Cardinality(links) = k
                                      /\ \A l \in links : p.links[l].a \in part /\ p.links[l].b \in part
             Good == {k \in Nat : k <= p.nodes - 1 =>
                                  \E links \in SUBSET t, part \in SUBSET Sites(p) : Spans(links, part, k)}
  <1>1. 0 \in Good
    <2>1. Spans({}, {1}, 0)
      BY FS_EmptySet, FS_Singleton
    <2>2. {} \in SUBSET t /\ {1} \in SUBSET Sites(p)
      BY DEF Sites
    <2> HIDE DEF Spans
    <2> QED
      BY <2>1, <2>2
  <1>2. ASSUME NEW k \in Nat, k \in Good PROVE k + 1 \in Good
    <2>1. SUFFICES ASSUME k + 1 <= p.nodes - 1
                   PROVE  \E links \in SUBSET t, part \in SUBSET Sites(p) : Spans(links, part, k + 1)
      OBVIOUS
    <2>2. k <= p.nodes - 1
      BY <2>1
    <2>3. PICK links \in SUBSET t, part \in SUBSET Sites(p) : Spans(links, part, k)
      <3> HIDE DEF Spans
      <3> QED
        BY <1>2, <2>2
    <2>4. part # Sites(p)
      BY <2>1, <2>3, SitesAreFinite
    <2>5. PICK l \in t : Crosses(p, l, part)
      BY <2>3, <2>4
    <2>6. PICK x \in {p.links[l].a, p.links[l].b} : x \notin part
      BY <2>5 DEF Crosses
    <2>7. l \notin links
      BY <2>3, <2>6
    <2>8. IsFiniteSet(part) /\ IsFiniteSet(links)
      BY FS_Subset, SitesAreFinite
    <2>9. Cardinality(part \cup {x}) = k + 2 /\ Cardinality(links \cup {l}) = k + 1
      <3>1. Cardinality(part \cup {x}) = Cardinality(part) + 1
        BY <2>6, <2>8, FS_AddElement
      <3>2. Cardinality(links \cup {l}) = Cardinality(links) + 1
        BY <2>7, <2>8, FS_AddElement
      <3>3. Cardinality(part) = k + 1 /\ Cardinality(links) = k
        BY <2>3
      <3> QED
        BY <3>1, <3>2, <3>3
    <2>10. p.links[l].a \in part \cup {x} /\ p.links[l].b \in part \cup {x}
      BY <2>5, <2>6 DEF Crosses
    <2>11. \A m \in links \cup {l} : p.links[m].a \in part \cup {x} /\ p.links[m].b \in part \cup {x}
      BY <2>3, <2>10
    <2>12. Spans(links \cup {l}, part \cup {x}, k + 1)
      BY <2>9, <2>11
    <2>13. links \cup {l} \in SUBSET t /\ part \cup {x} \in SUBSET Sites(p)
      OBVIOUS
    <2> HIDE DEF Spans
    <2> QED
      BY <2>12, <2>13
  <1>3. p.nodes - 1 \in Good
    <2>1. Nat \subseteq Good
      <3> HIDE DEF Good
      <3> QED
        BY <1>1, <1>2, AllNaturals
    <2> QED
      BY <2>1
  <1>4. PICK links \in SUBSET t, part \in SUBSET Sites(p) : Spans(links, part, p.nodes - 1)
    <2> HIDE DEF Spans
    <2> QED
      BY <1>3
  <1>5. Cardinality(links) <= Cardinality(t) /\ Cardinality(t) \in Nat
    BY FS_Subset, FS_CardinalityType
  <1> QED
    BY <1>4, <1>5
(* The verification of a network (verification.py, _check_network) refuses *)
(* what spans no tree of the sites, and nothing else.                      *)
LEMMA NetworkStructureIsRight ==
    ASSUME NEW p, p.type = "network_design", IsNetworkData(p), NEW a, IsNetworkSolution(a)
    PROVE  StructureIsRight(p, a)
PROOF
  <1> DEFINE t == Range(a.links)
             n == Needed(p)
             weight == [l \in Links(p) |-> p.links[l].weight]
             sum == SumFunction([i \in DOMAIN a.links |-> p.links[a.links[i]].weight])
             within == t \subseteq Links(p) /\ \A l \in t : {p.links[l].a, p.links[l].b} \subseteq Sites(p)
             cut == \A part \in (SUBSET Sites(p)) \ {{}, Sites(p)} : \E l \in t : Crosses(p, l, part)
  <1>1. Structure(p, a) = NetworkStructure(p, a) /\ ~OnDayOff(p, a)
    BY DEF Structure, OnDayOff
  <1>2. p.nodes \in Nat /\ p.links \in Seq([a : Nat, b : Nat, weight : Int]) /\ a.links \in Seq(Nat)
    BY DEF IsNetworkData, IsNetworkSolution
  <1>3. n = IF p.nodes > 0 THEN p.nodes - 1 ELSE 0
    <2>1. p.nodes - 1 \in Int /\ 0 \in Int
      BY <1>2
    <2>2. Max({p.nodes - 1, 0}) = IF p.nodes - 1 >= 0 THEN p.nodes - 1 ELSE 0
      BY <2>1, MaxOfTwo
    <2> QED
      BY <1>2, <2>2 DEF Needed
  <1>4. /\ IsFiniteSet(t) /\ Cardinality(t) \in Nat /\ Cardinality(t) <= Len(a.links)
        /\ Cardinality(t) = Len(a.links) <=> \A i, j \in DOMAIN a.links : a.links[i] = a.links[j] => i = j
        /\ IsFiniteSet(DOMAIN a.links) /\ Len(a.links) \in Nat
    BY <1>2, RangeOfSequence
  <1>5. ASSUME within PROVE AllConnected(p, t) <=> cut
    <2>1. CASE p.nodes > 1
      <3>1. \A l \in t : p.links[l].a \in Sites(p) /\ p.links[l].b \in Sites(p)
        BY <1>5
      <3>2. cut <=> Sites(p) \subseteq Spread(p, t, {1})
        BY <1>2, <2>1, <3>1, ConnectedAsCuts
      <3> QED
        BY <1>2, <2>1, <3>2 DEF AllConnected
    <2>2. CASE p.nodes <= 1
      <3>1. Sites(p) = {} \/ Sites(p) = {1}
        BY <1>2, <2>2 DEF Sites
      <3>2. (SUBSET Sites(p)) \ {{}, Sites(p)} = {}
        BY <3>1
      <3> QED
        BY <2>2, <3>2 DEF AllConnected
    <2>3. p.nodes > 1 \/ p.nodes <= 1
      BY <1>2
    <2> QED
      BY <2>1, <2>2, <2>3
  <1>6. ASSUME within, cut, Len(a.links) = n
        PROVE  Cardinality(t) = n
    <2>1. CASE p.nodes > 0
      <3>1. \A l \in t : p.links[l].a \in Sites(p) /\ p.links[l].b \in Sites(p)
        BY <1>6
      <3>2. Cardinality(t) >= p.nodes - 1
        BY <1>2, <1>4, <1>6, <2>1, <3>1, CutsNeedLinks
      <3> QED
        BY <1>2, <1>3, <1>4, <1>6, <2>1, <3>2
    <2>2. CASE ~(p.nodes > 0)
      BY <1>3, <1>4, <1>6, <2>2
    <2> QED
      BY <2>1, <2>2
  <1>7. ASSUME t \subseteq Links(p), Cardinality(t) = n, Len(a.links) = n
        PROVE  sum = TreeWeight(p, t)
    <2>1. \A i, j \in DOMAIN a.links : a.links[i] = a.links[j] => i = j
      BY <1>4, <1>7
    <2>2. \A i \in DOMAIN a.links : a.links[i] \in Links(p)
      BY <1>7 DEF Range
    <2>3. \A l \in Links(p) : p.links[l].weight \in Int
      <3>1. \A l \in DOMAIN p.links : p.links[l] \in [a : Nat, b : Nat, weight : Int]
        BY <1>2, ElementOf
      <3> QED
        BY <3>1 DEF Links
    <2>4. \A i \in DOMAIN a.links : weight[a.links[i]] = p.links[a.links[i]].weight /\ weight[a.links[i]] \in Int
      BY <2>2, <2>3
    <2> DEFINE along == [i \in DOMAIN a.links |-> weight[a.links[i]]]
    <2>5. [i \in DOMAIN a.links |-> p.links[a.links[i]].weight] = along
      BY <2>4
    <2>6. sum = SumFunctionOnSet(along, DOMAIN a.links)
      BY <2>5 DEF SumFunction
    <2>7. SumFunctionOnSet(along, DOMAIN a.links) = SumFunctionOnSet(weight, {a.links[i] : i \in DOMAIN a.links})
      <3> HIDE DEF weight
      <3> QED
        BY <1>4, <2>1, <2>4, SumThrough, SMTT(30)
    <2>8. {a.links[i] : i \in DOMAIN a.links} = t
      BY DEF Range
    <2> DEFINE ofTree == [l \in t |-> p.links[l].weight]
    <2>9. \A l \in t : weight[l] = ofTree[l]
      BY <1>7
    <2>10. SumFunctionOnSet(weight, t) = SumFunctionOnSet(ofTree, t)
      <3> HIDE DEF weight, ofTree, t
      <3> QED
        BY <1>4, <2>9, SumAgrees
    <2>11. TreeWeight(p, t) = SumFunctionOnSet(ofTree, t)
      BY DEF TreeWeight, SumFunction
    <2> QED
      BY <2>6, <2>7, <2>8, <2>10, <2>11
  <1>8. IsAnswer(p, a) <=> /\ within /\ Cardinality(t) = n /\ cut
                           /\ Len(a.links) = n /\ a.weight = TreeWeight(p, t)
    <2>1. IsAnswer(p, a) <=> /\ IsTree(p, t) /\ Len(a.links) = n
                             /\ a.weight = TreeWeight(p, t)
      BY DEF IsAnswer
    <2>2. IsTree(p, t) <=> within /\ Cardinality(t) = n /\ cut
      BY DEF IsTree
    <2> QED
      BY <2>1, <2>2
  <1>9. NetworkStructure(p, a) = IF /\ within /\ Len(a.links) = n
                                    /\ a.weight = sum /\ AllConnected(p, t)
                                 THEN {} ELSE {Hard("network_structure")}
    BY DEF NetworkStructure, FormsSpanningTree
  <1> HIDE DEF cut, sum, n
  <1>10. IsAnswer(p, a) <=> NetworkStructure(p, a) = {}
    BY <1>5, <1>6, <1>7, <1>8, <1>9
  <1>11. NetworkStructure(p, a) \subseteq {Hard("network_structure")}
    BY <1>9
  <1>12. Hard("network_structure").severity = "hard"
    BY DEF Hard
  <1> QED
    BY <1>1, <1>10, <1>11, <1>12 DEF StructureIsRight
-----------------------------------------------------------------------------
(* Rosters.                                                                *)

IsRun(run, days) == run = [d \in days |-> IF d - 1 \in days THEN run[d - 1] + 1 ELSE 1]

(* The lengths of the runs of consecutive days can be counted.             *)
LEMMA RunExists ==
    ASSUME NEW days, IsFiniteSet(days), days \subseteq Int
    PROVE  \E run : IsRun(run, days)
PROOF
  <1> DEFINE IsLen(d, k) == k \in Nat /\ k >= 1 /\ d - k \notin days /\ \A j \in 1..(k - 1) : d - j \in days
             run == [d \in days |-> CHOOSE k : IsLen(d, k)]
  <1>1. ASSUME NEW d \in days PROVE \E k : IsLen(d, k)
    <2> DEFINE S == {k \in Nat : k >= 1 /\ d - k \notin days}
    <2>1. Min(days) \in Int /\ Min(days) <= d /\ Min(days) - 1 \notin days
      <3>1. Min(days) \in days /\ \A x \in days : Min(days) <= x
        BY MinOfFinite
      <3>2. Min(days) \in Int /\ d \in Int
        BY <3>1
      <3>3. ~(Min(days) <= Min(days) - 1)
        BY <3>2
      <3> QED
        BY <3>1, <3>2, <3>3
    <2>2. d - Min(days) + 1 \in Nat /\ d - Min(days) + 1 >= 1 /\ d - (d - Min(days) + 1) = Min(days) - 1
      BY <2>1
    <2>3. S # {} /\ S \subseteq Nat
      BY <2>1, <2>2
    <2>4. PICK k \in S : \A m \in S : k <= m
      <3> HIDE DEF S
      <3> QED
        BY <2>3, LeastNatural
    <2>5. IsLen(d, k)
      BY <2>4
    <2> QED
      BY <2>5
  <1>2. ASSUME NEW d \in days, NEW k, NEW m, IsLen(d, k), IsLen(d, m) PROVE k = m
    <2>1. ~(k < m) /\ ~(m < k)
      BY <1>2
    <2> QED
      BY <1>2, <2>1
  <1>3. \A d \in days : IsLen(d, run[d])
    BY <1>1
  <1>4. ASSUME NEW d \in days
        PROVE  run[d] = IF d - 1 \in days THEN run[d - 1] + 1 ELSE 1
    <2>1. CASE d - 1 \in days
      <3>1. IsLen(d, run[d]) /\ IsLen(d - 1, run[d - 1])
        BY <1>3, <2>1
      <3> DEFINE m == run[d - 1]
      <3>2. IsLen(d - 1, m)
        BY <3>1
      <3> HIDE DEF m, run
      <3>3. d \in Int /\ m \in Nat /\ m >= 1
        BY <3>2
      <3>4. d - (m + 1) \notin days
        BY <3>2, <3>3
      <3>5. \A j \in 1..((m + 1) - 1) : d - j \in days
        <4> TAKE j \in 1..((m + 1) - 1)
        <4>1. j = 1 \/ j - 1 \in 1..(m - 1)
          BY <3>3
        <4>2. d - 1 - (j - 1) = d - j
          BY <3>3
        <4> QED
          BY <2>1, <3>2, <4>1, <4>2
      <3>6. IsLen(d, m + 1)
        BY <3>3, <3>4, <3>5
      <3>7. run[d] = m + 1
        BY <1>2, <3>1, <3>6
      <3> QED
        BY <2>1, <3>7 DEF m
    <2>2. CASE d - 1 \notin days
      <3>1. IsLen(d, 1)
        BY <2>2
      <3>2. IsLen(d, run[d])
        BY <1>3
      <3> HIDE DEF run
      <3> QED
        BY <1>2, <2>2, <3>1, <3>2
    <2> QED
      BY <2>1, <2>2
  <1>5. run = [d \in days |-> run[d]]
    OBVIOUS
  <1> HIDE DEF run
  <1>6. run = [d \in days |-> IF d - 1 \in days THEN run[d - 1] + 1 ELSE 1]
    BY <1>4, <1>5
  <1> QED
    BY <1>6 DEF IsRun

(* A run is at least k days long where the k days up to it are among them. *)
LEMMA RunCounts ==
    ASSUME NEW days, IsFiniteSet(days), days \subseteq Int, NEW run, IsRun(run, days)
    PROVE  /\ \A d \in days : run[d] \in Nat /\ run[d] >= 1
           /\ \A k \in Nat \ {0} : \A d \in days :
                  run[d] >= k <=> \A x \in (d - k + 1)..d : x \in days
PROOF
  <1>1. \A d \in days : run[d] = IF d - 1 \in days THEN run[d - 1] + 1 ELSE 1
    BY DEF IsRun
  <1>2. ASSUME NEW d \in days PROVE run[d] \in Nat /\ run[d] >= 1
    <2> DEFINE Bad == {x \in days : ~(run[x] \in Nat /\ run[x] >= 1)}
    <2>1. SUFFICES ASSUME Bad # {} PROVE FALSE
      OBVIOUS
    <2>2. Bad \subseteq Int /\ IsFiniteSet(Bad)
      BY FS_Subset
    <2>3. Min(Bad) \in Bad /\ \A x \in Bad : Min(Bad) <= x
      <3> HIDE DEF Bad
      <3> QED
        BY <2>1, <2>2, MinOfFinite
    <2> DEFINE x == Min(Bad)
    <2>4. x - 1 \notin Bad /\ x \in days
      <3> HIDE DEF Bad
      <3>1. x \in Int
        BY <2>2, <2>3
      <3>2. ~(x <= x - 1)
        BY <3>1
      <3> QED
        BY <2>3, <3>2 DEF Bad
    <2>5. run[x] = IF x - 1 \in days THEN run[x - 1] + 1 ELSE 1
      BY <1>1, <2>4
    <2>6. x - 1 \in days => run[x - 1] \in Nat /\ run[x - 1] >= 1
      BY <2>4
    <2>7. run[x] \in Nat /\ run[x] >= 1
      BY <2>5, <2>6
    <2> QED
      BY <2>3, <2>7
  <1> DEFINE Good == {n \in Nat : \A d \in days : run[d] >= n + 1 <=> \A x \in (d - n)..d : x \in days}
  <1>3. 0 \in Good
    BY <1>2
  <1>4. ASSUME NEW n \in Nat, n \in Good PROVE n + 1 \in Good
    <2>1. ASSUME NEW d \in days
          PROVE  run[d] >= n + 2 <=> \A x \in (d - (n + 1))..d : x \in days
      <3>1. d \in Int /\ run[d] \in Nat
        BY <1>2
      <3>2. CASE d - 1 \in days
        <4>1. run[d] = run[d - 1] + 1 /\ run[d - 1] \in Nat
          BY <1>1, <1>2, <3>2
        <4>2. run[d - 1] >= n + 1 <=> \A x \in (d - 1 - n)..(d - 1) : x \in days
          BY <1>4, <3>2
        <4>3. (\A x \in (d - (n + 1))..d : x \in days) <=> \A x \in (d - 1 - n)..(d - 1) : x \in days
          BY <3>1
        <4> QED
          BY <4>1, <4>2, <4>3
      <3>3. CASE d - 1 \notin days
        <4>1. run[d] = 1
          BY <1>1, <3>3
        <4>2. d - 1 \in (d - (n + 1))..d
          BY <3>1
        <4> QED
          BY <3>3, <4>1, <4>2
      <3> QED
        BY <3>2, <3>3
    <2> QED
      BY <2>1
  <1>5. Nat \subseteq Good
    <2> HIDE DEF Good
    <2> QED
      BY <1>3, <1>4, AllNaturals
  <1>6. ASSUME NEW k \in Nat \ {0}, NEW d \in days
        PROVE  run[d] >= k <=> \A x \in (d - k + 1)..d : x \in days
    <2>1. k - 1 \in Nat
      OBVIOUS
    <2>2. k - 1 \in Good
      BY <1>5, <2>1
    <2>3. run[d] >= k - 1 + 1 <=> \A x \in (d - (k - 1))..d : x \in days
      BY <2>2
    <2>4. k - 1 + 1 = k /\ d - (k - 1) = d - k + 1
      OBVIOUS
    <2> QED
      BY <2>3, <2>4
  <1> QED
    BY <1>2, <1>6

(* No run is longer than m if and only if no m + 1 days in a row are days. *)
LEMMA LongestRunIs ==
    ASSUME NEW days, IsFiniteSet(days), days \subseteq Int, days # {}, NEW m \in Int
    PROVE  LongestRun(days) <= m <=> \A x \in days : \E d \in x..(x + m) : d \notin days
PROOF
  <1> DEFINE run == CHOOSE f : IsRun(f, days)
  <1>1. IsRun(run, days)
    BY RunExists
  <1>2. LongestRun(days) = Max({0} \cup Range(run))
    BY DEF LongestRun, IsRun
  <1> HIDE DEF run
  <1>3. /\ \A d \in days : run[d] \in Nat /\ run[d] >= 1
        /\ \A k \in Nat \ {0} : \A d \in days : run[d] >= k <=> \A x \in (d - k + 1)..d : x \in days
    BY <1>1, RunCounts
  <1>4. Range(run) = {run[d] : d \in days}
    BY <1>1 DEF IsRun, Range
  <1> DEFINE S == {0} \cup Range(run)
  <1>5. S # {} /\ S \subseteq Int /\ IsFiniteSet(S)
    <2>1. IsFiniteSet({run[d] : d \in days})
      <3>1. run \in Surjection(days, {run[d] : d \in days})
        BY <1>1 DEF IsRun, Surjection
      <3> QED
        BY <3>1, FS_Surjection
    <2>2. IsFiniteSet({0} \cup Range(run))
      BY <1>4, <2>1, FS_Union, FS_Singleton
    <2> QED
      BY <1>3, <1>4, <2>2
  <1>6. Max(S) \in S /\ \A x \in S : x <= Max(S)
    <2> HIDE DEF S
    <2> QED
      BY <1>5, MaxOfFinite
  <1>7. LongestRun(days) <= m <=> \A d \in days : run[d] <= m
    <2>1. Max(S) \in Int
      BY <1>5, <1>6
    <2>2. ASSUME Max(S) <= m, NEW d \in days PROVE run[d] <= m
      <3>1. run[d] <= Max(S) /\ run[d] \in Nat
        BY <1>3, <1>4, <1>6
      <3> HIDE DEF S
      <3> QED
        BY <2>1, <2>2, <3>1
    <2>3. ASSUME \A d \in days : run[d] <= m PROVE Max(S) <= m
      <3>1. PICK d \in days : TRUE
        OBVIOUS
      <3>2. 0 <= m
        BY <1>3, <2>3, <3>1
      <3>3. \A x \in S : x <= m
        BY <1>4, <2>3, <3>2
      <3> QED
        BY <1>6, <3>3
    <2> QED
      BY <1>2, <2>2, <2>3
  <1>8. CASE m >= 0
    <2>1. \A d \in days : run[d] <= m <=> \E x \in (d - m)..d : x \notin days
      <3> TAKE d \in days
      <3>1. run[d] >= m + 1 <=> \A x \in (d - (m + 1) + 1)..d : x \in days
        BY <1>3, <1>8
      <3>2. d - (m + 1) + 1 = d - m
        OBVIOUS
      <3>3. run[d] <= m <=> ~(run[d] >= m + 1)
        BY <1>3
      <3> QED
        BY <3>1, <3>2, <3>3
    <2>2. ASSUME \A d \in days : \E x \in (d - m)..d : x \notin days, NEW x \in days
          PROVE  \E d \in x..(x + m) : d \notin days
      <3>1. CASE x + m \in days
        <4>1. PICK y \in (x + m - m)..(x + m) : y \notin days
          BY <2>2, <3>1
        <4> QED
          BY <4>1
      <3>2. CASE x + m \notin days
        BY <1>8, <3>2
      <3> QED
        BY <3>1, <3>2
    <2>3. ASSUME \A x \in days : \E d \in x..(x + m) : d \notin days, NEW d \in days
          PROVE  \E x \in (d - m)..d : x \notin days
      <3>1. CASE d - m \in days
        <4>1. PICK y \in (d - m)..(d - m + m) : y \notin days
          BY <2>3, <3>1
        <4> QED
          BY <4>1
      <3>2. CASE d - m \notin days
        BY <1>8, <3>2
      <3> QED
        BY <3>1, <3>2
    <2> QED
      BY <1>7, <2>1, <2>2, <2>3
  <1>9. CASE m < 0
    <2>1. PICK x \in days : TRUE
      OBVIOUS
    <2>2. ~(run[x] <= m)
      BY <1>3, <1>9
    <2>3. x..(x + m) = {}
      BY <1>9, <2>1
    <2> QED
      BY <1>7, <2>2, <2>3
  <1> QED
    BY <1>8, <1>9

(* The slots that a person works are those of the reference.               *)
LEMMA SlotsOfAre ==
    ASSUME NEW p, IsShiftData(p), NEW a, NEW s
    PROVE  /\ SlotsOf(p, a, s) = {l \in Slots(p) : Works(p, a, s, l)}
           /\ IsFiniteSet(Slots(p)) /\ IsFiniteSet(Staff(p))
           /\ \A l \in Slots(p) : Hours(p, l) \in Int /\ p.slots[l].day \in Int
           /\ \A t \in Staff(p) : p.staff[t].wage \in Int
PROOF
  <1> DEFINE staff == [wage : Nat, available : SUBSET Nat, skills : SUBSET STRING, daysOff : SUBSET Int]
             slots == [day : Int, hours : Nat \ {0}, headcount : Nat \ {0}, skills : SUBSET STRING]
  <1>1. p.staff \in Seq(staff) /\ p.slots \in Seq(slots)
    BY DEF IsShiftData
  <1>2. Slots(p) = 1..Len(p.slots) /\ Len(p.slots) \in Nat /\ Staff(p) = 1..Len(p.staff) /\ Len(p.staff) \in Nat
    BY <1>1 DEF Slots, Staff
  <1>3. IsFiniteSet(Slots(p)) /\ IsFiniteSet(Staff(p))
    BY <1>2, FS_Interval, SMTT(30)
  <1>4. ASSUME NEW l \in Slots(p) PROVE Hours(p, l) \in Int /\ p.slots[l].day \in Int
    <2>1. p.slots[l] \in slots
      BY <1>1, ElementOf DEF Slots
    <2> QED
      BY <2>1 DEF Hours
  <1>5. ASSUME NEW t \in Staff(p) PROVE p.staff[t].wage \in Int
    <2>1. p.staff[t] \in staff
      BY <1>1, ElementOf DEF Staff
    <2> QED
      BY <2>1
  <1>6. SlotsOf(p, a, s) = {l \in Slots(p) : Works(p, a, s, l)}
    BY DEF SlotsOf, Works
  <1> QED
    BY <1>3, <1>4, <1>5, <1>6

(* So are the hours of a week.                                             *)
LEMMA HoursAreWorked ==
    ASSUME NEW p, IsShiftData(p), NEW a, NEW s
    PROVE  WeeklyHours(p, a, s) = HoursWorked(p, a, s) /\ HoursWorked(p, a, s) \in Int
PROOF
  <1> DEFINE S == Slots(p)
             R == SlotsOf(p, a, s)
             all == [l \in S |-> IF Works(p, a, s, l) THEN Hours(p, l) ELSE 0]
             some == [l \in R |-> Hours(p, l)]
  <1>1. R = {l \in S : Works(p, a, s, l)} /\ IsFiniteSet(S) /\ \A l \in S : Hours(p, l) \in Int
    BY SlotsOfAre
  <1>2. /\ \A l \in S : all[l] \in Int
        /\ \A l \in S \ R : all[l] = 0
        /\ \A l \in R : all[l] = some[l]
        /\ R \in SUBSET S
    BY <1>1
  <1>3. IsFiniteSet(R)
    BY <1>1, <1>2, FS_Subset
  <1>4. WeeklyHours(p, a, s) = SumFunctionOnSet(some, R) /\ HoursWorked(p, a, s) = SumFunctionOnSet(all, S)
    BY DEF WeeklyHours, HoursWorked, SumFunction
  <1> HIDE DEF S, R, all, some
  <1>5. SumFunctionOnSet(all, S) = SumFunctionOnSet(all, R)
    BY <1>1, <1>2, SumSkips
  <1>6. SumFunctionOnSet(all, R) = SumFunctionOnSet(some, R)
    BY <1>2, <1>3, SumAgrees
  <1>7. SumFunctionOnSet(all, S) \in Int
    BY <1>1, <1>2, SumTakes
  <1> QED
    BY <1>4, <1>5, <1>6, <1>7

(* And the days, and how many of them in a row.                            *)
LEMMA DaysAreWorked ==
    ASSUME NEW p, IsShiftData(p), NEW a, NEW s
    PROVE  /\ \A d : d \in WorkingDays(p, a, s) <=> WorksOn(p, a, s, d)
           /\ (WorkingDays(p, a, s) # {} => LongestRun(WorkingDays(p, a, s)) <= p.maxRun)
              <=> \A l \in {l \in Slots(p) : Works(p, a, s, l)} :
                      \E d \in p.slots[l].day .. p.slots[l].day + p.maxRun : ~WorksOn(p, a, s, d)
PROOF
  <1> DEFINE days == WorkingDays(p, a, s)
             R == SlotsOf(p, a, s)
             S == Slots(p)
             day == [l \in R |-> p.slots[l].day]
             m == p.maxRun
  <1>1. R = {l \in S : Works(p, a, s, l)} /\ IsFiniteSet(S) /\ \A l \in S : p.slots[l].day \in Int
    BY SlotsOfAre
  <1>2. days = {p.slots[l].day : l \in R}
    BY DEF WorkingDays
  <1>3. \A d : d \in days <=> WorksOn(p, a, s, d)
    BY <1>1, <1>2 DEF WorksOn
  <1>4. IsFiniteSet(days) /\ days \subseteq Int
    <2>1. IsFiniteSet(R)
      BY <1>1, FS_Subset
    <2>2. day \in Surjection(R, days)
      BY <1>2 DEF Surjection
    <2> HIDE DEF day, R, days
    <2>3. IsFiniteSet(days)
      BY <2>1, <2>2, FS_Surjection
    <2> QED
      BY <1>1, <1>2, <2>3
  <1>5. m \in Int
    BY DEF IsShiftData
  <1>6. (\A x \in days : \E d \in x..(x + m) : d \notin days)
        <=> \A l \in R : \E d \in p.slots[l].day .. p.slots[l].day + m : ~WorksOn(p, a, s, d)
    <2> HIDE DEF days, R, m
    <2> QED
      BY <1>2, <1>3
  <1>7. (days # {} => LongestRun(days) <= m) <=> \A x \in days : \E d \in x..(x + m) : d \notin days
    <2> HIDE DEF days, m
    <2>1. CASE days = {}
      BY <2>1
    <2>2. CASE days # {}
      BY <1>4, <1>5, <2>2, LongestRunIs
    <2> QED
      BY <2>1, <2>2
  <1>8. (days # {} => LongestRun(days) <= m)
        <=> \A l \in {l \in S : Works(p, a, s, l)} :
                \E d \in p.slots[l].day .. p.slots[l].day + m : ~WorksOn(p, a, s, d)
    <2> HIDE DEF days, m, R, S
    <2> QED
      BY <1>1, <1>6, <1>7
  <1> QED
    BY <1>3, <1>8

(* A roster is refused if and only if it is no part of a right one.        *)
LEMMA ShiftStructureIsRight ==
    ASSUME NEW p, p.type = "shift_scheduling", IsShiftData(p), NEW a
    PROVE  StructureIsRight(p, a)
PROOF
  <1> DEFINE named == UNION {Range(a[l]) : l \in DOMAIN a}
             eligible == \A l \in DOMAIN a : \A s \in Range(a[l]) : IsEligible(p, l, s)
             limits == \A s \in Staff(p) :
                           /\ WeeklyHours(p, a, s) <= p.maxHours
                           /\ WorkingDays(p, a, s) # {} => LongestRun(WorkingDays(p, a, s)) <= p.maxRun
             right == DOMAIN a \subseteq Slots(p) /\ named \subseteq Staff(p) /\ eligible /\ limits
             onDayOff == \E r \in Requests(p) : r[2] \in WorkingDays(p, a, r[1])
             soft == [kind |-> "respect_days_off", severity |-> "soft"]
  <1>1. /\ Structure(p, a) = ShiftStructure(p, a)
        /\ IsAnswer(p, a) <=> IsPartOfRoster(p, a)
        /\ OnDayOff(p, a) <=> \E r \in Requests(p) : WorksOn(p, a, r[1], r[2])
    BY DEF Structure, IsAnswer, OnDayOff
  <1>2. ShiftStructure(p, a) = (IF right THEN {} ELSE {Hard("shift_structure")})
                               \cup IF onDayOff THEN {soft} ELSE {}
    BY DEF ShiftStructure
  <1>3. onDayOff <=> OnDayOff(p, a)
    BY <1>1, DaysAreWorked
  <1>4. limits <=> /\ \A s \in Staff(p) : HoursWorked(p, a, s) <= p.maxHours
                   /\ \A s \in Staff(p) : \A l \in {l \in Slots(p) : Works(p, a, s, l)} :
                          \E d \in p.slots[l].day .. p.slots[l].day + p.maxRun : ~WorksOn(p, a, s, d)
    BY HoursAreWorked, DaysAreWorked
  <1>5. named \subseteq Staff(p) /\ eligible
        <=> \A l \in DOMAIN a : \A s \in Range(a[l]) :
                /\ s \in Staff(p)
                /\ l \in p.staff[s].available /\ p.slots[l].skills \subseteq p.staff[s].skills
    BY DEF IsEligible
  <1> HIDE DEF named, eligible, limits
  <1>6. right <=> IsPartOfRoster(p, a)
    BY <1>4, <1>5 DEF IsPartOfRoster
  <1> HIDE DEF right, onDayOff
  <1>7. Hard("shift_structure").severity = "hard"
    BY DEF Hard
  <1>8. \A v \in Structure(p, a) : \/ v = Hard("shift_structure") /\ ~right
                                   \/ v = soft /\ onDayOff
    BY <1>1, <1>2
  <1>9. /\ ~right => Hard("shift_structure") \in Structure(p, a)
        /\ onDayOff => soft \in Structure(p, a)
    BY <1>1, <1>2
  <1>10. soft.severity = "soft" /\ soft.kind = "respect_days_off"
    OBVIOUS
  <1> HIDE DEF soft
  <1> QED
    BY <1>1, <1>3, <1>6, <1>7, <1>8, <1>9, <1>10 DEF StructureIsRight

(* The labour cost that the verification computes slot by slot is what the *)
(* staff are paid for their hours.                                         *)
LEMMA LaborIsPaid ==
    ASSUME NEW p, IsShiftData(p), NEW a
    PROVE  LaborCost(p, a) = PaidWages(p, a)
PROOF
  <1> DEFINE S == Staff(p)
             R == Slots(p)
             D == DOMAIN a \cap R
             pay == [s \in S |-> [l \in R |-> IF Works(p, a, s, l) THEN p.staff[s].wage * Hours(p, l) ELSE 0]]
             earned == [s \in S |-> SumFunctionOnSet([l \in R |-> pay[s][l]], R)]
             spent == [l \in R |-> SumFunctionOnSet([s \in S |-> pay[s][l]], S)]
             wages == [s \in S |-> p.staff[s].wage * HoursWorked(p, a, s)]
             labor == [l \in D |-> Wages(p, l, Range(a[l]) \cap S)]
  <1>1. /\ IsFiniteSet(S) /\ IsFiniteSet(R)
        /\ \A l \in R : Hours(p, l) \in Int
        /\ \A s \in S : p.staff[s].wage \in Int
    BY SlotsOfAre
  <1>2. \A s \in S, l \in R : pay[s][l] \in Int
    BY <1>1
  <1>3. SumFunctionOnSet(earned, S) = SumFunctionOnSet(spent, R)
    <2> HIDE DEF S, R, pay
    <2> QED
      BY <1>1, <1>2, SumsExchange
  <1>4. ASSUME NEW s \in S PROVE earned[s] = wages[s]
    <2> DEFINE hours == [l \in R |-> IF Works(p, a, s, l) THEN Hours(p, l) ELSE 0]
               row == [l \in R |-> pay[s][l]]
               n == p.staff[s].wage
    <2>1. n \in Int /\ \A l \in R : hours[l] \in Int /\ row[l] = n * hours[l]
      BY <1>1
    <2>2. HoursWorked(p, a, s) = SumFunctionOnSet(hours, R)
      BY DEF HoursWorked, SumFunction
    <2>3. SumFunctionOnSet(row, R) = n * SumFunctionOnSet(hours, R)
      <3> HIDE DEF row, hours, n, R
      <3> QED
        BY <1>1, <2>1, SumOfMultiples
    <2> QED
      BY <2>2, <2>3
  <1>5. ASSUME NEW l \in R PROVE spent[l] = IF l \in D THEN labor[l] ELSE 0
    <2> DEFINE T == IF l \in D THEN Range(a[l]) \cap S ELSE {}
               column == [s \in S |-> pay[s][l]]
               paid == [s \in T |-> p.staff[s].wage * Hours(p, l)]
    <2>1. T \in SUBSET S
      OBVIOUS
    <2>2. IsFiniteSet(T)
      BY <1>1, <2>1, FS_Subset
    <2>3. /\ \A s \in S : column[s] \in Int
          /\ \A s \in S \ T : column[s] = 0
          /\ \A s \in T : column[s] = paid[s]
      <3>1. \A s \in S : Works(p, a, s, l) <=> s \in T
        BY <1>5 DEF Works
      <3> QED
        BY <1>2, <3>1
    <2>4. l \in D => labor[l] = SumFunctionOnSet(paid, T)
      BY DEF Wages, SumFunction
    <2> HIDE DEF column, paid, S
    <2>5. SumFunctionOnSet(column, S) = SumFunctionOnSet(column, T)
      <3> HIDE DEF T
      <3> QED
        BY <1>1, <2>1, <2>3, SumSkips
    <2>6. SumFunctionOnSet(column, T) = SumFunctionOnSet(paid, T)
      <3> HIDE DEF T
      <3> QED
        BY <2>2, <2>3, SumAgrees
    <2>7. l \notin D => SumFunctionOnSet(paid, T) = 0
      BY SumOfNothing
    <2>8. spent[l] = SumFunctionOnSet(column, S)
      BY DEF column, S
    <2> QED
      BY <2>4, <2>5, <2>6, <2>7, <2>8
  <1>6. PaidWages(p, a) = SumFunctionOnSet(wages, S) /\ LaborCost(p, a) = SumFunctionOnSet(labor, D)
    BY DEF PaidWages, LaborCost, SumFunction
  <1>7. \A l \in R : spent[l] \in Int
    <2>1. ASSUME NEW l \in R PROVE spent[l] \in Int
      <3> DEFINE column == [s \in S |-> pay[s][l]]
      <3>1. \A s \in S : column[s] \in Int
        BY <1>2
      <3>2. SumFunctionOnSet(column, S) \in Int
        <4> HIDE DEF column, S
        <4> QED
          BY <1>1, <3>1, SumTakes
      <3> QED
        BY <3>2
    <2> QED
      BY <2>1
  <1>8. D \in SUBSET R /\ IsFiniteSet(D)
    BY <1>1, FS_Subset
  <1> HIDE DEF wages, labor, earned, spent, S, R, D
  <1>9. SumFunctionOnSet(wages, S) = SumFunctionOnSet(earned, S)
    BY <1>1, <1>4, SumAgrees
  <1>10. SumFunctionOnSet(spent, R) = SumFunctionOnSet(spent, D)
    BY <1>1, <1>5, <1>7, <1>8, SumSkips
  <1>11. SumFunctionOnSet(spent, D) = SumFunctionOnSet(labor, D)
    BY <1>5, <1>8, SumAgrees
  <1> QED
    BY <1>3, <1>6, <1>9, <1>10, <1>11

(* The days off that are asked for are finitely many.                      *)
LEMMA RequestsAreFinite ==
    ASSUME NEW p, IsShiftData(p)
    PROVE  IsFiniteSet(Requests(p))
PROOF
  <1> DEFINE off(s) == {<<s, d>> : d \in p.staff[s].daysOff}
             all == [s \in Staff(p) |-> off(s)]
  <1>1. ASSUME NEW s \in Staff(p) PROVE IsFiniteSet(off(s))
    <2>1. IsFiniteSet(p.staff[s].daysOff)
      BY DEF IsShiftData, Staff, Range
    <2> DEFINE f == [d \in p.staff[s].daysOff |-> <<s, d>>]
    <2>2. \A y \in off(s) : \E d \in p.staff[s].daysOff : y = f[d]
      OBVIOUS
    <2> HIDE DEF f, off
    <2> QED
      BY <2>1, <2>2, FiniteImage
  <1>2. IsFiniteSet(Staff(p))
    BY SlotsOfAre
  <1>3. IsFiniteSet({off(s) : s \in Staff(p)})
    <2>1. \A y \in {off(s) : s \in Staff(p)} : \E s \in Staff(p) : y = all[s]
      OBVIOUS
    <2> HIDE DEF all, off
    <2> QED
      BY <1>2, <2>1, FiniteImage
  <1>4. Requests(p) = UNION {off(s) : s \in Staff(p)}
    BY DEF Requests
  <1>5. \A T \in {off(s) : s \in Staff(p)} : IsFiniteSet(T)
    BY <1>1
  <1> HIDE DEF off
  <1> QED
    BY <1>3, <1>4, <1>5, FS_UNION

(* Those that are kept are those on which nobody who asked works.          *)
LEMMA DaysOffAreKept ==
    ASSUME NEW p, IsShiftData(p), NEW a
    PROVE  DayOffUnits(p, a) = DaysOffKept(p, a)
PROOF
  <1> DEFINE asked == Requests(p)
             kept == {r \in asked : r[2] \notin WorkingDays(p, a, r[1])}
             worked == {r \in asked : WorksOn(p, a, r[1], r[2])}
             share == Unit(p) \div Cardinality(asked)
  <1>1. IsFiniteSet(asked)
    BY RequestsAreFinite
  <1>2. kept = asked \ worked /\ worked \subseteq asked
    BY DaysAreWorked
  <1>3. /\ DayOffUnits(p, a) = IF asked = {} THEN Unit(p) ELSE Cardinality(kept) * share
        /\ DaysOffKept(p, a) = IF Cardinality(asked) = 0 THEN Unit(p)
                               ELSE (Cardinality(asked) - Cardinality(worked)) * share
    BY DEF DayOffUnits, DaysOffKept
  <1> HIDE DEF asked, kept, worked, share
  <1>4. Cardinality(asked) = 0 <=> asked = {}
    BY <1>1, FS_EmptySet
  <1>5. Cardinality(kept) = Cardinality(asked) - Cardinality(worked)
    <2>1. IsFiniteSet(worked) /\ asked \cap worked = worked
      BY <1>1, <1>2, FS_Subset
    <2>2. Cardinality(asked \ worked) = Cardinality(asked) - Cardinality(asked \cap worked)
      BY <1>1, FS_Difference
    <2> QED
      BY <1>2, <2>1, <2>2
  <1> QED
    BY <1>3, <1>4, <1>5

-----------------------------------------------------------------------------
(* Schedules.                                                              *)

(* A quotient is what is left of a number when its remainder is taken      *)
(* away.                                                                   *)
LEMMA QuotientIs ==
    ASSUME NEW x \in Int, NEW w \in Nat \ {0}
    PROVE  /\ x \div w \in Int
           /\ w * (x \div w) <= x /\ x < w * (x \div w) + w
           /\ x % w = x - w * (x \div w)
OBVIOUS

(* Multiples of a number compare as what they are multiples of.           *)
LEMMA MultiplesCompare ==
    ASSUME NEW a \in Int, NEW b \in Int, NEW w \in Nat \ {0}
    PROVE  /\ w * a \in Int /\ w * (a + 1) = w * a + w
           /\ a <= b <=> w * a <= w * b
OBVIOUS

(* What is cut off leaves a whole number no less than those below it.      *)
LEMMA TruncIsBelow ==
    ASSUME NEW x \in Int, NEW i \in Nat
    PROVE  /\ Trunc(x) \in Int
           /\ Trunc(x) <= i <=> x <= Whole * (i + 1) - 1
PROOF
  <1>1. Whole \in Nat \ {0}
    BY WholeAssumption
  <1>2. CASE x >= 0
    <2> DEFINE q == x \div Whole
    <2>1. q \in Int /\ Whole * q <= x /\ x < Whole * q + Whole /\ Trunc(x) = q
      BY <1>1, <1>2, QuotientIs DEF Trunc
    <2> HIDE DEF q
    <2>2. /\ Whole * q \in Int /\ Whole * i \in Int
          /\ Whole * (i + 1) = Whole * i + Whole
          /\ Whole * (i + 1) <= Whole * q <=> i + 1 <= q
          /\ q <= i <=> Whole * q <= Whole * i
      BY <1>1, <2>1, MultiplesCompare
    <2>3. CASE q <= i
      BY <1>1, <2>1, <2>2, <2>3
    <2>4. CASE i + 1 <= q
      BY <1>1, <2>1, <2>2, <2>4
    <2> QED
      BY <2>1, <2>3, <2>4
  <1>3. CASE x < 0
    <2> DEFINE q == (-x) \div Whole
    <2>1. q \in Int /\ Whole * q <= -x /\ -x < Whole * q + Whole /\ Trunc(x) = -q
      <3>1. -x \in Int
        OBVIOUS
      <3> QED
        BY <1>1, <1>3, <3>1, QuotientIs DEF Trunc
    <2> HIDE DEF q
    <2>2. /\ Whole * (-1) \in Int /\ Whole * ((-1) + 1) = Whole * (-1) + Whole
          /\ Whole * q \in Int /\ q <= -1 <=> Whole * q <= Whole * (-1)
      BY <1>1, <2>1, MultiplesCompare
    <2>5. -1 < q
      <3>1. ~(q <= -1)
        BY <1>1, <1>3, <2>1, <2>2
      <3> QED
        BY <2>1, <3>1
    <2>3. /\ Whole * i \in Int /\ Whole * (i + 1) = Whole * i + Whole
          /\ Whole * 0 \in Int /\ 0 <= i <=> Whole * 0 <= Whole * i
      BY <1>1, MultiplesCompare
    <2>4. Whole * 0 = 0
      BY <1>1
    <2> QED
      BY <1>1, <1>3, <2>1, <2>3, <2>4, <2>5
  <1> QED
    BY <1>2, <1>3
(* The running sum of the changes is, at each point, the sum of what the   *)
(* ranges that have the point add.                                         *)
Added(u, i) == IF u.left <= i /\ i < u.right THEN u.delta ELSE 0

(* Adding up the differences of range updates gives each index the sum of  *)
(* the updates that cover it.                                              *)
LEMMA RangesAdd ==
    ASSUME NEW size \in Nat, NEW updates, IsFiniteSet(DOMAIN updates),
           \A k \in DOMAIN updates : /\ updates[k].left \in Int
                                     /\ updates[k].right \in Int
                                     /\ updates[k].delta \in Int
    PROVE  /\ DOMAIN RangeAdd(size, updates) = 0..(size - 1)
           /\ \A i \in 0..(size - 1) :
                  RangeAdd(size, updates)[i]
                  = SumFunctionOnSet([k \in DOMAIN updates |-> Added(updates[k], i)], DOMAIN updates)
PROOF
  <1> DEFINE l(u) == Max({u.left, 0})
             r(u) == Min({u.right, size})
             change(i, u) == IF l(u) >= r(u) THEN 0 ELSE IF i = l(u) THEN u.delta ELSE IF i = r(u) THEN -u.delta ELSE 0
             K == DOMAIN updates
             diff == [i \in 0..size |-> SumFunctionOnSet([k \in K |-> change(i, updates[k])], K)]
  <1>1. RangeAdd(size, updates) = [i \in 0..(size - 1) |-> SumFunctionOnSet(diff, 0..i)]
    BY DEF RangeAdd, SumFunction
  <1>2. ASSUME NEW k \in K
        PROVE  /\ l(updates[k]) = IF updates[k].left >= 0 THEN updates[k].left ELSE 0
               /\ r(updates[k]) = IF updates[k].right <= size THEN updates[k].right ELSE size
    <2> DEFINE A == {updates[k].left, 0}
               B == {updates[k].right, size}
    <2>1. A # {} /\ A \subseteq Int /\ IsFiniteSet(A) /\ B # {} /\ B \subseteq Int /\ IsFiniteSet(B)
      <3>1. IsFiniteSet(A) /\ IsFiniteSet(B)
        <4>1. \A x, y : IsFiniteSet({x, y})
          <5> TAKE x, y
          <5>1. {x, y} = {x} \cup {y} /\ IsFiniteSet({x})
            BY FS_Singleton
          <5> QED
            BY <5>1, FS_AddElement
        <4> QED
          BY <4>1
      <3> QED
        BY <3>1
    <2>2. Max(A) \in A /\ \A x \in A : x <= Max(A)
      <3> HIDE DEF A
      <3> QED
        BY <2>1, MaxOfFinite
    <2>3. Min(B) \in B /\ \A x \in B : Min(B) <= x
      <3> HIDE DEF B
      <3> QED
        BY <2>1, MinOfFinite
    <2> QED
      BY <2>2, <2>3
  <1> HIDE DEF l, r
  <1>3. ASSUME NEW i \in 0..(size - 1), NEW k \in K
        PROVE  SumFunctionOnSet([j \in 0..i |-> change(j, updates[k])], 0..i) = Added(updates[k], i)
    <2> DEFINE u == updates[k]
               row == [j \in 0..i |-> change(j, u)]
    <2>1. /\ u.left \in Int /\ u.right \in Int /\ u.delta \in Int
          /\ l(u) = (IF u.left >= 0 THEN u.left ELSE 0)
          /\ r(u) = (IF u.right <= size THEN u.right ELSE size)
          /\ l(u) \in Int /\ r(u) \in Int
      BY <1>2
    <2>2. IsFiniteSet(0..i)
      BY FS_Interval
    <2>3. \A j \in 0..i : row[j] = IF l(u) >= r(u) THEN 0 ELSE IF j = l(u) THEN u.delta
                                   ELSE IF j = r(u) THEN -u.delta ELSE 0
      OBVIOUS
    <2> HIDE DEF row, u
    <2>4. CASE l(u) >= r(u) \/ i < l(u)
      <3>1. \A j \in 0..i : row[j] = 0
        BY <2>1, <2>3, <2>4
      <3>2. Added(u, i) = 0
        BY <2>1, <2>4 DEF Added
      <3>3. SumFunctionOnSet(row, 0..i) = 0
        BY <2>2, <3>1, SumOfZeros
      <3> QED
        BY <3>2, <3>3 DEF row, u
    <2>5. CASE l(u) < r(u) /\ l(u) <= i /\ i < r(u)
      <3>1. l(u) \in 0..i /\ row[l(u)] = u.delta /\ \A j \in (0..i) \ {l(u)} : row[j] = 0
        BY <2>1, <2>3, <2>5
      <3>2. Added(u, i) = u.delta
        BY <2>1, <2>5 DEF Added
      <3>3. SumFunctionOnSet(row, 0..i) = u.delta
        BY <2>1, <2>2, <3>1, SumOfOne
      <3> QED
        BY <3>2, <3>3 DEF row, u
    <2>6. CASE l(u) < r(u) /\ r(u) <= i
      <3>1. /\ l(u) \in 0..i /\ r(u) \in 0..i /\ l(u) # r(u)
            /\ row[l(u)] = u.delta /\ row[r(u)] = -u.delta /\ -u.delta \in Int
            /\ \A j \in (0..i) \ {l(u), r(u)} : row[j] = 0
        BY <2>1, <2>3, <2>6
      <3>2. Added(u, i) = 0
        BY <2>1, <2>6 DEF Added
      <3>3. SumFunctionOnSet(row, 0..i) = u.delta + -u.delta
        <4> DEFINE x == l(u)
                   z == r(u)
                   S == 0..i
        <4>1. /\ IsFiniteSet(S) /\ x \in S /\ z \in S /\ x # z
              /\ row[x] \in Int /\ row[z] \in Int /\ \A y \in S \ {x, z} : row[y] = 0
          BY <2>1, <2>2, <3>1
        <4> HIDE DEF x, z, S
        <4>2. SumFunctionOnSet(row, S) = row[x] + row[z]
          BY <4>1, SumOfTwo
        <4> QED
          BY <3>1, <4>2 DEF x, z, S
      <3>4. SumFunctionOnSet(row, 0..i) = 0
        BY <2>1, <3>3
      <3> QED
        BY <3>2, <3>4 DEF row, u
    <2>7. \/ l(u) >= r(u) \/ i < l(u)
          \/ l(u) < r(u) /\ l(u) <= i /\ i < r(u)
          \/ l(u) < r(u) /\ r(u) <= i
      BY <2>1
    <2> QED
      BY <2>4, <2>5, <2>6, <2>7
  <1>4. \A j \in Int, k \in K : change(j, updates[k]) \in Int
    OBVIOUS
  <1>k. IsFiniteSet(K)
    OBVIOUS
  <1> HIDE DEF change, K
  <1>5. ASSUME NEW i \in 0..(size - 1)
        PROVE  SumFunctionOnSet(diff, 0..i) = SumFunctionOnSet([k \in K |-> Added(updates[k], i)], K)
    <2> DEFINE cell == [j \in 0..i |-> [k \in K |-> change(j, updates[k])]]
               cells == [j \in 0..i |-> SumFunctionOnSet([k \in K |-> cell[j][k]], K)]
               rows == [k \in K |-> SumFunctionOnSet([j \in 0..i |-> cell[j][k]], 0..i)]
               adds == [k \in K |-> Added(updates[k], i)]
    <2>1. IsFiniteSet(0..i) /\ \A j \in 0..i : j \in 0..size
      BY FS_Interval
    <2>2. \A j \in 0..i, k \in K : cell[j][k] = change(j, updates[k]) /\ cell[j][k] \in Int
      BY <1>4
    <2>3. \A j \in 0..i : diff[j] = cells[j]
      BY <2>1
    <2>4. \A k \in K : rows[k] = adds[k]
      BY <1>3
    <2>5. SumFunctionOnSet(cells, 0..i) = SumFunctionOnSet(rows, K)
      <3> DEFINE S == 0..i
      <3>1. IsFiniteSet(S) /\ \A j \in S, k \in K : cell[j][k] \in Int
        BY <2>1, <2>2
      <3> HIDE DEF cell, S
      <3>2. SumFunctionOnSet([j \in S |-> SumFunctionOnSet([k \in K |-> cell[j][k]], K)], S)
            = SumFunctionOnSet([k \in K |-> SumFunctionOnSet([j \in S |-> cell[j][k]], S)], K)
        BY <1>k, <3>1, SumsExchange
      <3> QED
        BY <3>2 DEF S
    <2> HIDE DEF cells, rows, adds, diff
    <2>6. SumFunctionOnSet(diff, 0..i) = SumFunctionOnSet(cells, 0..i)
      BY <2>1, <2>3, SumAgrees
    <2>7. SumFunctionOnSet(rows, K) = SumFunctionOnSet(adds, K)
      BY <1>k, <2>4, SumAgrees
    <2> QED
      BY <2>5, <2>6, <2>7 DEF adds
  <1> QED
    BY <1>1, <1>5 DEF K

(* A schedule with one entry for each task, as long as the task.           *)
OneForEach(p, a) ==
    /\ {s.task : s \in Range(a.schedule)} = Tasks(p)
    /\ Len(a.schedule) = Len(p.tasks)
    /\ \A s \in Range(a.schedule) : s.finish = s.start + Whole * Duration(p, s.task)

(* The entry of a task in a schedule.                                      *)
EntryOf(p, a, t) == CHOOSE k \in DOMAIN a.schedule : a.schedule[k].task = t

(* The index of a task's last entry, 0 if it has none.                     *)
LastEntry(a, t) ==
    LET I == {i \in 1..Len(a.schedule) : a.schedule[i].task = t}
    IN  IF I # {} THEN Max(I) ELSE 0

(* What the schema of projects lets through.                               *)
LEMMA ProjectTypes ==
    ASSUME NEW p, IsProjectData(p), NEW a, IsProjectSolution(a)
    PROVE  /\ Tasks(p) = 1..Len(p.tasks) /\ Len(p.tasks) \in Nat /\ IsFiniteSet(Tasks(p))
           /\ \A t \in Tasks(p) : Duration(p, t) \in Nat \ {0} /\ p.tasks[t].resource \in Nat
           /\ DOMAIN a.schedule = 1..Len(a.schedule) /\ Len(a.schedule) \in Nat
           /\ IsFiniteSet(DOMAIN a.schedule)
           /\ \A k \in DOMAIN a.schedule :
                  /\ a.schedule[k].task \in Nat /\ a.schedule[k].start \in Int
                  /\ a.schedule[k].finish \in Int /\ a.schedule[k].slack \in Int
PROOF
  <1> DEFINE tasks == [duration : Nat \ {0}, resource : Nat]
             entries == [task : Nat, start : Int, finish : Int, slack : Int]
  <1>1. p.tasks \in Seq(tasks) /\ a.schedule \in Seq(entries)
    BY DEF IsProjectData, IsProjectSolution
  <1>2. /\ Tasks(p) = 1..Len(p.tasks) /\ Len(p.tasks) \in Nat
        /\ DOMAIN a.schedule = 1..Len(a.schedule) /\ Len(a.schedule) \in Nat
    BY <1>1 DEF Tasks
  <1>3. IsFiniteSet(Tasks(p)) /\ IsFiniteSet(DOMAIN a.schedule)
    BY <1>2, FS_Interval, SMTT(30)
  <1>4. ASSUME NEW t \in Tasks(p) PROVE Duration(p, t) \in Nat \ {0} /\ p.tasks[t].resource \in Nat
    <2>1. p.tasks[t] \in tasks
      BY <1>1, ElementOf DEF Tasks
    <2> QED
      BY <2>1 DEF Duration
  <1>5. ASSUME NEW k \in DOMAIN a.schedule
        PROVE  /\ a.schedule[k].task \in Nat /\ a.schedule[k].start \in Int
               /\ a.schedule[k].finish \in Int /\ a.schedule[k].slack \in Int
    <2>1. a.schedule[k] \in entries
      BY <1>1, ElementOf
    <2> QED
      BY <2>1
  <1> QED
    BY <1>2, <1>3, <1>4, <1>5

(* The one entry of a task is the last, and the one from which the         *)
(* reference takes its start.                                              *)
LEMMA EntriesAre ==
    ASSUME NEW p, IsProjectData(p), NEW a, IsProjectSolution(a), OneForEach(p, a)
    PROVE  /\ \A k, m \in DOMAIN a.schedule : a.schedule[k].task = a.schedule[m].task => k = m
           /\ \A k \in DOMAIN a.schedule : a.schedule[k].task \in Tasks(p)
           /\ \A t \in Tasks(p) :
                  /\ EntryOf(p, a, t) \in DOMAIN a.schedule
                  /\ a.schedule[EntryOf(p, a, t)].task = t
                  /\ \A k \in DOMAIN a.schedule : a.schedule[k].task = t => k = EntryOf(p, a, t)
                  /\ LastEntry(a, t) = EntryOf(p, a, t)
                  /\ StartsOf(p, a)[t] = a.schedule[EntryOf(p, a, t)].start
                  /\ Ends(p, StartsOf(p, a), t) = a.schedule[EntryOf(p, a, t)].finish
PROOF
  <1> DEFINE D == DOMAIN a.schedule
             task == [k \in D |-> a.schedule[k].task]
  <1>1. /\ Tasks(p) = 1..Len(p.tasks) /\ D = 1..Len(a.schedule) /\ IsFiniteSet(D)
        /\ Len(p.tasks) = Len(a.schedule)
    BY ProjectTypes DEF OneForEach
  <1>2. Range(a.schedule) = {a.schedule[k] : k \in D}
    BY DEF Range
  <1>3. /\ \A k \in D : task[k] \in Tasks(p)
        /\ \A t \in Tasks(p) : \E k \in D : task[k] = t
    BY <1>2 DEF OneForEach
  <1>4. task \in Surjection(D, Tasks(p))
    BY <1>3 DEF Surjection
  <1>5. task \in Injection(D, Tasks(p))
    <2>1. Cardinality(D) = Cardinality(Tasks(p))
      BY <1>1
    <2> HIDE DEF task, D
    <2> QED
      BY <1>1, <1>4, <2>1, FS_Surjection
  <1>6. \A k, m \in D : task[k] = task[m] => k = m
    BY <1>5 DEF Injection, IsInjective
  <1>7. ASSUME NEW t \in Tasks(p)
        PROVE  /\ EntryOf(p, a, t) \in D
               /\ a.schedule[EntryOf(p, a, t)].task = t
               /\ \A k \in D : a.schedule[k].task = t => k = EntryOf(p, a, t)
    <2>1. \E k \in D : a.schedule[k].task = t
      BY <1>3
    <2>2. EntryOf(p, a, t) \in D /\ a.schedule[EntryOf(p, a, t)].task = t
      BY <2>1 DEF EntryOf
    <2> QED
      BY <1>6, <2>2
  <1>8. ASSUME NEW t \in Tasks(p)
        PROVE  LastEntry(a, t) = EntryOf(p, a, t)
    <2> DEFINE I == {i \in 1..Len(a.schedule) : a.schedule[i].task = t}
               e == EntryOf(p, a, t)
    <2>1. I = {e} /\ e \in Int
      BY <1>1, <1>7
    <2>2. Max(I) = e
      <3>1. IsFiniteSet({e}) /\ {e} # {} /\ {e} \subseteq Int
        BY <2>1, FS_Singleton
      <3>2. Max({e}) \in {e}
        BY <3>1, MaxOfFinite
      <3> QED
        BY <2>1, <3>2
    <2>3. LastEntry(a, t) = IF I # {} THEN Max(I) ELSE 0
      BY DEF LastEntry
    <2> QED
      BY <2>1, <2>2, <2>3
  <1>9. ASSUME NEW t \in Tasks(p)
        PROVE  /\ StartsOf(p, a)[t] = a.schedule[EntryOf(p, a, t)].start
               /\ Ends(p, StartsOf(p, a), t) = a.schedule[EntryOf(p, a, t)].finish
    <2> DEFINE e == a.schedule[EntryOf(p, a, t)]
    <2>1. e \in Range(a.schedule) /\ e.task = t /\ \A s \in Range(a.schedule) : s.task = t => s = e
      BY <1>2, <1>7
    <2>2. (CHOOSE s \in Range(a.schedule) : s.task = t) = e
      <3> HIDE DEF e
      <3> QED
        BY <2>1
    <2>3. StartsOf(p, a)[t] = e.start
      BY <2>2 DEF StartsOf
    <2>4. e.finish = e.start + Whole * Duration(p, t)
      BY <2>1 DEF OneForEach
    <2> QED
      BY <2>3, <2>4 DEF Ends
  <1> QED
    BY <1>3, <1>6, <1>7, <1>8, <1>9

(* The same, from an entry to its task.                                    *)
LEMMA EntryAt ==
    ASSUME NEW p, IsProjectData(p), NEW a, IsProjectSolution(a), OneForEach(p, a),
           NEW k \in DOMAIN a.schedule, NEW t, t = a.schedule[k].task
    PROVE  /\ t \in Tasks(p)
           /\ StartsOf(p, a)[t] = a.schedule[k].start
           /\ Ends(p, StartsOf(p, a), t) = a.schedule[k].finish
PROOF
  <1>1. t \in Tasks(p)
    BY EntriesAre
  <1>2. k = EntryOf(p, a, t)
    BY <1>1, EntriesAre
  <1>3. /\ StartsOf(p, a)[t] = a.schedule[EntryOf(p, a, t)].start
        /\ Ends(p, StartsOf(p, a), t) = a.schedule[EntryOf(p, a, t)].finish
    BY <1>1, EntriesAre
  <1> QED
    BY <1>1, <1>2, <1>3

(* And from a task to its entry.                                           *)
LEMMA EntryFor ==
    ASSUME NEW p, IsProjectData(p), NEW a, IsProjectSolution(a), OneForEach(p, a), NEW t \in Tasks(p)
    PROVE  \E k \in DOMAIN a.schedule :
               /\ a.schedule[k].task = t /\ EntryOf(p, a, t) = k
               /\ LastEntry(a, t) = k
               /\ \A m \in DOMAIN a.schedule : a.schedule[m].task = t => m = k
PROOF
  <1>1. /\ EntryOf(p, a, t) \in DOMAIN a.schedule
        /\ a.schedule[EntryOf(p, a, t)].task = t
        /\ \A k \in DOMAIN a.schedule : a.schedule[k].task = t => k = EntryOf(p, a, t)
        /\ LastEntry(a, t) = EntryOf(p, a, t)
    BY EntriesAre
  <1> QED
    BY <1>1

(* What the reference finds in use at a time.                              *)
InUse(p, starts, t, x) == IF starts[t] <= x /\ x < Ends(p, starts, t) THEN p.tasks[t].resource ELSE 0

(* The usage at a time sums up the tasks under way.                        *)
LEMMA UsageIs ==
    ASSUME NEW p, IsProjectData(p), NEW a, IsProjectSolution(a), NEW starts, NEW x
    PROVE  Usage(p, starts, x) = SumFunctionOnSet([t \in Tasks(p) |-> InUse(p, starts, t, x)], Tasks(p))
PROOF
  <1> DEFINE S == Tasks(p)
             R == {u \in S : starts[u] <= x /\ x < Ends(p, starts, u)}
             all == [t \in S |-> InUse(p, starts, t, x)]
             some == [u \in R |-> p.tasks[u].resource]
  <1>1. IsFiniteSet(S) /\ \A t \in S : p.tasks[t].resource \in Int
    BY ProjectTypes
  <1>2. R \in SUBSET S /\ IsFiniteSet(R)
    BY <1>1, FS_Subset
  <1>3. /\ \A t \in S : all[t] \in Int
        /\ \A t \in S \ R : all[t] = 0
        /\ \A t \in R : all[t] = some[t]
    BY <1>1 DEF InUse
  <1>4. Usage(p, starts, x) = SumFunctionOnSet(some, R)
    BY DEF Usage, SumFunction
  <1> HIDE DEF S, R, all, some
  <1>5. SumFunctionOnSet(all, S) = SumFunctionOnSet(all, R)
    BY <1>1, <1>2, <1>3, SumSkips
  <1>6. SumFunctionOnSet(all, R) = SumFunctionOnSet(some, R)
    BY <1>2, <1>3, SumAgrees
  <1> QED
    BY <1>4, <1>5, <1>6 DEF all, S

(* A task starts before it ends.                                           *)
LEMMA TimesAre ==
    ASSUME NEW p, IsProjectData(p), NEW a, IsProjectSolution(a), OneForEach(p, a), NEW t \in Tasks(p)
    PROVE  LET starts == StartsOf(p, a)
           IN  /\ starts[t] \in Int /\ Ends(p, starts, t) \in Int /\ starts[t] < Ends(p, starts, t)
               /\ Ends(p, starts, t) = starts[t] + Whole * Duration(p, t)
PROOF
  <1> DEFINE starts == StartsOf(p, a)
             d == Duration(p, t)
             length == Whole * d
  <1>1. starts[t] \in Int
    <2>1. starts[t] = a.schedule[EntryOf(p, a, t)].start /\ EntryOf(p, a, t) \in DOMAIN a.schedule
      BY EntriesAre
    <2> HIDE DEF starts
    <2> QED
      BY <2>1, ProjectTypes
  <1>2. Ends(p, starts, t) = starts[t] + length
    BY DEF Ends
  <1>3. length \in Int /\ length > 0
    <2>1. d \in Nat \ {0}
      BY ProjectTypes
    <2> HIDE DEF d
    <2> QED
      BY <2>1, WholeAssumption
  <1> HIDE DEF length, starts
  <1>4. /\ starts[t] \in Int /\ Ends(p, starts, t) \in Int /\ starts[t] < Ends(p, starts, t)
        /\ Ends(p, starts, t) = starts[t] + length
    BY <1>1, <1>2, <1>3
  <1> QED
    BY <1>4 DEF length, starts

(* What is in use is no less at a time at which no fewer tasks are under   *)
(* way.                                                                    *)
LEMMA UsageGrows ==
    ASSUME NEW p, IsProjectData(p), NEW a, IsProjectSolution(a), OneForEach(p, a), NEW x \in Int, NEW y \in Int,
           \A t \in Tasks(p) : LET first == StartsOf(p, a)[t]
                                  last == Ends(p, StartsOf(p, a), t)
                              IN  first <= x /\ x < last => first <= y /\ y < last
    PROVE  /\ Usage(p, StartsOf(p, a), x) \in Int /\ Usage(p, StartsOf(p, a), y) \in Int
           /\ 0 <= Usage(p, StartsOf(p, a), x) /\ Usage(p, StartsOf(p, a), x) <= Usage(p, StartsOf(p, a), y)
PROOF
  <1> DEFINE S == Tasks(p)
             starts == StartsOf(p, a)
             u == [t \in S |-> InUse(p, starts, t, x)]
             v == [t \in S |-> InUse(p, starts, t, y)]
             zero == [t \in S |-> 0]
  <1>1. Usage(p, starts, x) = SumFunctionOnSet(u, S) /\ Usage(p, starts, y) = SumFunctionOnSet(v, S)
    BY UsageIs
  <1>2. IsFiniteSet(S) /\ \A t \in S : p.tasks[t].resource \in Nat
    BY ProjectTypes
  <1>3. ASSUME NEW t \in S
        PROVE  /\ zero[t] = 0 /\ u[t] \in Int /\ v[t] \in Int
               /\ zero[t] <= u[t] /\ u[t] <= v[t]
    <2>1. /\ u[t] = IF starts[t] <= x /\ x < Ends(p, starts, t) THEN p.tasks[t].resource ELSE 0
          /\ v[t] = IF starts[t] <= y /\ y < Ends(p, starts, t) THEN p.tasks[t].resource ELSE 0
          /\ zero[t] = 0
      BY DEF InUse
    <2> HIDE DEF u, v, zero
    <2> QED
      BY <1>2, <2>1
  <1> HIDE DEF u, v, zero, S
  <1>4. SumFunctionOnSet(zero, S) = 0
    BY <1>2, <1>3, SumOfZeros
  <1>5. SumFunctionOnSet(zero, S) <= SumFunctionOnSet(u, S)
    <2>1. \A t \in S : zero[t] \in Int /\ u[t] \in Int /\ zero[t] <= u[t]
      BY <1>3
    <2> QED
      BY <1>2, <2>1, SumsCompare
  <1>6. SumFunctionOnSet(u, S) <= SumFunctionOnSet(v, S)
    BY <1>2, <1>3, SumsCompare
  <1>7. SumFunctionOnSet(u, S) \in Int /\ SumFunctionOnSet(v, S) \in Int
    BY <1>2, <1>3, SumTakes
  <1> QED
    BY <1>1, <1>4, <1>5, <1>6, <1>7 DEF starts

(* No more is in use than at time 0 or when a task starts.                 *)
LEMMA UsagePeaksAtStarts ==
    ASSUME NEW p, IsProjectData(p), NEW a, IsProjectSolution(a), OneForEach(p, a), NEW c \in Int,
           NEW H \in Nat, \A t \in Tasks(p) : Ends(p, StartsOf(p, a), t) <= H
    PROVE  (\A x \in {0} \cup {StartsOf(p, a)[t] : t \in Tasks(p)} : x >= 0 => Usage(p, StartsOf(p, a), x) <= c)
           <=> 0 <= c /\ \A i \in 0..(H - 1) : Usage(p, StartsOf(p, a), i) <= c
PROOF
  <1> DEFINE S == Tasks(p)
             starts == StartsOf(p, a)
             ends(t) == Ends(p, starts, t)
  <1>1. /\ IsFiniteSet(S)
        /\ \A t \in S : /\ p.tasks[t].resource \in Nat
                        /\ starts[t] \in Int /\ ends(t) \in Int /\ starts[t] < ends(t) /\ ends(t) <= H
    BY ProjectTypes, TimesAre
  <1>2. ASSUME NEW x \in Int, NEW y \in Int,
               \A t \in S : starts[t] <= x /\ x < ends(t) => starts[t] <= y /\ y < ends(t)
        PROVE  Usage(p, starts, x) <= Usage(p, starts, y)
    BY <1>2, UsageGrows
  <1>3. \A x \in Int : Usage(p, starts, x) \in Int /\ Usage(p, starts, x) >= 0
    <2>1. ASSUME NEW x \in Int PROVE Usage(p, starts, x) \in Int /\ Usage(p, starts, x) >= 0
      BY UsageGrows
    <2> QED
      BY <2>1
  <1>4. \A x \in Int : (\A t \in S : ~(starts[t] <= x /\ x < ends(t))) => Usage(p, starts, x) = 0
    <2>1. ASSUME NEW x \in Int, \A t \in S : ~(starts[t] <= x /\ x < ends(t)) PROVE Usage(p, starts, x) = 0
      <3> DEFINE u == [t \in S |-> InUse(p, starts, t, x)]
      <3>1. Usage(p, starts, x) = SumFunctionOnSet(u, S)
        BY UsageIs
      <3>2. \A t \in S : u[t] = 0
        BY <2>1 DEF InUse
      <3> HIDE DEF u
      <3> QED
        BY <1>1, <3>1, <3>2, SumOfZeros
    <2> QED
      BY <2>1
  <1> HIDE DEF starts, ends
  <1>5. ASSUME \A x \in {0} \cup {starts[t] : t \in S} : x >= 0 => Usage(p, starts, x) <= c
        PROVE  0 <= c /\ \A i \in 0..(H - 1) : Usage(p, starts, i) <= c
    <2>1. Usage(p, starts, 0) <= c
      BY <1>5
    <2>2. 0 <= c
      BY <1>3, <2>1
    <2>3. ASSUME NEW i \in 0..(H - 1) PROVE Usage(p, starts, i) <= c
      <3> DEFINE active == {t \in S : starts[t] <= i /\ i < ends(t)}
                 begun == {0} \cup {starts[t] : t \in active}
      <3>1. begun # {} /\ begun \subseteq Int /\ IsFiniteSet(begun)
        <4> DEFINE st == [t \in active |-> starts[t]]
        <4>1. IsFiniteSet(active)
          BY <1>1, FS_Subset
        <4>2. st \in Surjection(active, {starts[t] : t \in active})
          BY DEF Surjection
        <4>3. IsFiniteSet({starts[t] : t \in active})
          <5> HIDE DEF st, active
          <5> QED
            BY <4>1, <4>2, FS_Surjection
        <4>4. IsFiniteSet({0} \cup {starts[t] : t \in active})
          <5> HIDE DEF active
          <5> QED
            BY <4>3, FS_Union, FS_Singleton
        <4> QED
          BY <1>1, <4>4
      <3> DEFINE y == Max(begun)
      <3>2. y \in begun /\ \A x \in begun : x <= y
        <4> HIDE DEF begun
        <4> QED
          BY <3>1, MaxOfFinite
      <3> HIDE DEF y
      <3>3. y \in Int /\ 0 <= y /\ y <= i /\ \A t \in active : starts[t] <= y
        <4>1. y = 0 \/ \E t \in active : y = starts[t]
          BY <3>2
        <4>2. y \in Int
          BY <1>1, <4>1
        <4>3. y <= i
          BY <4>1, <4>2
        <4> QED
          BY <3>2, <4>2, <4>3
      <3>4. \A t \in S : starts[t] <= i /\ i < ends(t) => starts[t] <= y /\ y < ends(t)
        BY <1>1, <3>3
      <3>5. Usage(p, starts, i) <= Usage(p, starts, y)
        BY <1>2, <3>3, <3>4
      <3>6. y \in {0} \cup {starts[t] : t \in S}
        BY <3>2
      <3>7. Usage(p, starts, y) <= c
        BY <1>5, <3>3, <3>6
      <3> QED
        BY <1>3, <3>3, <3>5, <3>7
    <2> QED
      BY <2>2, <2>3
  <1>6. ASSUME 0 <= c /\ \A i \in 0..(H - 1) : Usage(p, starts, i) <= c,
               NEW x \in {0} \cup {starts[t] : t \in S}, x >= 0
        PROVE  Usage(p, starts, x) <= c
    <2>1. x \in Int
      BY <1>1
    <2>2. CASE x < H
      <3>1. x \in 0..(H - 1)
        BY <1>6, <2>1, <2>2
      <3> QED
        BY <1>6, <3>1
    <2>3. CASE x >= H
      <3>1. \A t \in S : ~(starts[t] <= x /\ x < ends(t))
        BY <1>1, <2>1, <2>3
      <3> QED
        BY <1>4, <1>6, <2>1, <3>1
    <2> QED
      BY <2>1, <2>2, <2>3
  <1> QED
    BY <1>5, <1>6 DEF starts, S

(* A unit that begins by a time before a whole number of units also ends   *)
(* before it.                                                              *)
LEMMA UnitEnds ==
    ASSUME NEW j \in Nat, NEW m \in Int, j < Whole * m
    PROVE  LET q == j \div Whole
               y == Whole * (q + 1) - 1
           IN  q \in Nat /\ y \in Nat /\ j <= y /\ y < Whole * m
PROOF
  <1> DEFINE q == j \div Whole
  <1>1. Whole \in Nat \ {0}
    BY WholeAssumption
  <1>2. q \in Nat /\ Whole * q <= j /\ j < Whole * q + Whole
    BY <1>1, QuotientIs
  <1> HIDE DEF q
  <1>3. /\ Whole * q \in Int /\ Whole * m \in Int
        /\ Whole * (q + 1) = Whole * q + Whole
        /\ m <= q <=> Whole * m <= Whole * q
        /\ q + 1 <= m <=> Whole * (q + 1) <= Whole * m
    BY <1>1, <1>2, MultiplesCompare
  <1>4. ~(m <= q)
    BY <1>1, <1>2, <1>3
  <1>5. Whole * (q + 1) <= Whole * m
    BY <1>2, <1>3, <1>4
  <1>6. /\ q \in Nat /\ Whole * (q + 1) - 1 \in Nat
        /\ j <= Whole * (q + 1) - 1 /\ Whole * (q + 1) - 1 < Whole * m
    BY <1>1, <1>2, <1>3, <1>5
  <1> QED
    BY <1>6 DEF q

(* If a task starts with a unit, it ends with one.                         *)
LEMMA EndsWithUnit ==
    ASSUME NEW x \in Int, x % Whole = 0, NEW d \in Nat
    PROVE  \E m \in Int : x + Whole * d = Whole * m
PROOF
  <1> DEFINE q == x \div Whole
  <1>1. Whole \in Nat \ {0}
    BY WholeAssumption
  <1>2. q \in Int /\ x % Whole = x - Whole * q /\ Whole * q \in Int
    BY <1>1, QuotientIs
  <1> HIDE DEF q
  <1>3. x = Whole * q
    BY <1>2
  <1>4. Whole * (q + d) = Whole * q + Whole * d
    BY <1>1, <1>2
  <1>5. q + d \in Int /\ x + Whole * d = Whole * (q + d)
    BY <1>2, <1>3, <1>4
  <1> QED
    BY <1>5

(* The profile has at each place what is in use at the end of that unit.   *)
(* Its peak stays within a capacity if the usage does at time 0 and        *)
(* whenever a task starts; and only then, if all tasks start with a unit.  *)
LEMMA PeakIsKept ==
    ASSUME NEW p, IsProjectData(p), NEW a, IsProjectSolution(a), OneForEach(p, a), NEW c \in Int
    PROVE  LET starts == StartsOf(p, a)
               kept == \A x \in {0} \cup {starts[t] : t \in Tasks(p)} : x >= 0 => Usage(p, starts, x) <= c
           IN  /\ PeakResource(p, a.schedule) \in Int
               /\ kept => PeakResource(p, a.schedule) <= c
               /\ PeakResource(p, a.schedule) <= c => kept \/ \E s \in Range(a.schedule) : s.start % Whole # 0
PROOF
  <1> DEFINE K == DOMAIN a.schedule
             S == Tasks(p)
             starts == StartsOf(p, a)
             finishes == {0} \cup {s.finish : s \in Range(a.schedule)}
             H == Max(finishes)
             size == Trunc(H)
             last(i) == Whole * (i + 1) - 1
             kept == \A x \in {0} \cup {starts[t] : t \in S} : x >= 0 => Usage(p, starts, x) <= c
             whole == \A s \in Range(a.schedule) : ~(s.start % Whole # 0)
             demand(s) == IF s.task \in S THEN p.tasks[s.task].resource ELSE 0
             updates == [k \in K |-> [left |-> Trunc(a.schedule[k].start), right |-> Trunc(a.schedule[k].finish),
                                      delta |-> demand(a.schedule[k])]]
             profile == RangeAdd(size, updates)
  <1>1. PeakResource(p, a.schedule) = Max({0} \cup Range(profile))
    BY DEF PeakResource, Highest
  <1>2. /\ IsFiniteSet(K) /\ IsFiniteSet(S)
        /\ \A k \in K : /\ a.schedule[k].start \in Int /\ a.schedule[k].finish \in Int
                        /\ a.schedule[k].task \in S
        /\ \A t \in S : p.tasks[t].resource \in Int
    <2>1. \A k \in K : a.schedule[k].task \in S
      BY EntriesAre
    <2> QED
      BY <2>1, ProjectTypes
  <1>3. H \in Nat /\ (H = 0 \/ \E k \in K : H = a.schedule[k].finish) /\ \A k \in K : a.schedule[k].finish <= H
    <2> DEFINE fin == [k \in K |-> a.schedule[k].finish]
    <2>1. finishes = {0} \cup {a.schedule[k].finish : k \in K}
      BY DEF Range
    <2>2. fin \in Surjection(K, {a.schedule[k].finish : k \in K})
      BY DEF Surjection
    <2>3. IsFiniteSet({a.schedule[k].finish : k \in K})
      <3> HIDE DEF fin, K
      <3> QED
        BY <1>2, <2>2, FS_Surjection
    <2>4. IsFiniteSet(finishes) /\ finishes # {} /\ finishes \subseteq Int
      <3>1. IsFiniteSet({0} \cup {a.schedule[k].finish : k \in K})
        <4> HIDE DEF K
        <4> QED
          BY <2>3, FS_Union, FS_Singleton
      <3>2. {a.schedule[k].finish : k \in K} \subseteq Int
        BY <1>2
      <3> HIDE DEF finishes, K
      <3> QED
        BY <2>1, <3>1, <3>2
    <2>5. H \in finishes /\ \A x \in finishes : x <= H
      <3> HIDE DEF finishes
      <3> QED
        BY <2>4, MaxOfFinite
    <2>6. H \in Int /\ 0 <= H
      BY <2>4, <2>5
    <2>7. \A k \in K : a.schedule[k].finish \in finishes
      <3> HIDE DEF finishes
      <3> QED
        BY <2>1
    <2> HIDE DEF H, finishes, K
    <2>8. H \in Nat /\ (H = 0 \/ \E k \in K : H = a.schedule[k].finish)
      BY <2>1, <2>5, <2>6
    <2>9. \A k \in K : a.schedule[k].finish <= H
      BY <2>5, <2>7
    <2> QED
      BY <2>8, <2>9
  <1>4. /\ DOMAIN updates = K
        /\ \A k \in K : /\ updates[k].left = Trunc(a.schedule[k].start)
                        /\ updates[k].right = Trunc(a.schedule[k].finish)
                        /\ updates[k].delta = p.tasks[a.schedule[k].task].resource
                        /\ updates[k].left \in Int /\ updates[k].right \in Int /\ updates[k].delta \in Int
    <2>1. \A k \in K : Trunc(a.schedule[k].start) \in Int /\ Trunc(a.schedule[k].finish) \in Int
      <3>1. ASSUME NEW x \in Int PROVE Trunc(x) \in Int
        <4>1. 0 \in Nat
          OBVIOUS
        <4> QED
          BY <4>1, TruncIsBelow
      <3> QED
        BY <1>2, <3>1
    <2> QED
      BY <1>2, <2>1
  <1> HIDE DEF updates, H
  <1>5. Whole \in Nat \ {0}
    BY WholeAssumption
  <1>6. size \in Nat
    <2>1. H \div Whole \in Nat
      BY <1>3, <1>5
    <2> QED
      BY <1>3, <2>1 DEF Trunc
  <1>7. ASSUME NEW i \in Nat
        PROVE  /\ last(i) \in Nat
               /\ \A x \in Int : Trunc(x) <= i <=> x <= last(i)
    <2>1. Whole * (i + 1) \in Nat \ {0}
      BY <1>5
    <2>2. \A x \in Int : Trunc(x) <= i <=> x <= last(i)
      BY TruncIsBelow
    <2> QED
      BY <2>1, <2>2
  <1>8. ASSUME NEW i \in 0..(size - 1) PROVE i \in Nat /\ last(i) \in 0..(H - 1)
    <2>1. i \in Nat /\ ~(size <= i)
      BY <1>6
    <2>2. last(i) \in Nat /\ (size <= i <=> H <= last(i))
      BY <1>3, <1>7, <2>1
    <2> HIDE DEF last, size
    <2> QED
      BY <1>3, <2>1, <2>2
  <1> HIDE DEF size
  <1>9. /\ DOMAIN profile = 0..(size - 1)
        /\ \A i \in 0..(size - 1) :
               profile[i] = SumFunctionOnSet([k \in K |-> Added(updates[k], i)], K)
    <2> HIDE DEF K
    <2> QED
      BY <1>2, <1>6, <1>4, RangesAdd
  <1>10. ASSUME NEW i \in 0..(size - 1) PROVE profile[i] = Usage(p, starts, last(i))
    <2> DEFINE use == [t \in S |-> InUse(p, starts, t, last(i))]
               way == [k \in K |-> a.schedule[k].task]
               along == [k \in K |-> use[way[k]]]
               adds == [k \in K |-> Added(updates[k], i)]
    <2>1. /\ \A k, m \in K : way[k] = way[m] => k = m
          /\ \A k \in K : way[k] \in S
          /\ {way[k] : k \in K} = S
      <3>1. \A k, m \in K : way[k] = way[m] => k = m
        BY EntriesAre
      <3>2. Range(a.schedule) = {a.schedule[k] : k \in K}
        BY DEF Range
      <3>3. \A t \in S : \E k \in K : a.schedule[k].task = t
        BY <3>2 DEF OneForEach
      <3>4. \A k \in K : way[k] = a.schedule[k].task
        OBVIOUS
      <3> HIDE DEF way, K, S
      <3> QED
        BY <1>2, <3>1, <3>3, <3>4
    <2>2. \A k \in K : adds[k] = along[k] /\ along[k] \in Int
      <3>1. ASSUME NEW k \in K PROVE adds[k] = use[way[k]] /\ use[way[k]] \in Int
        <4> DEFINE t == a.schedule[k].task
        <4>1. t \in S
          BY <1>2
        <4>2. starts[t] = a.schedule[k].start /\ Ends(p, starts, t) = a.schedule[k].finish
          BY EntryAt
        <4>3. use[t] = InUse(p, starts, t, last(i)) /\ way[k] = t /\ adds[k] = Added(updates[k], i)
          BY <4>1
        <4> HIDE DEF use, way, adds, starts
        <4>4. InUse(p, starts, t, last(i)) = Added(updates[k], i)
          <5>1. /\ a.schedule[k].start \in Int /\ a.schedule[k].finish \in Int
                /\ updates[k].left \in Int /\ updates[k].right \in Int
                /\ updates[k].left = Trunc(a.schedule[k].start)
                /\ updates[k].right = Trunc(a.schedule[k].finish)
                /\ updates[k].delta = p.tasks[t].resource
            BY <1>2, <1>4
          <5>2. i \in Nat /\ last(i) \in Nat
            BY <1>7, <1>8
          <5>3. updates[k].left <= i <=> starts[t] <= last(i)
            BY <1>7, <4>2, <5>1, <5>2
          <5>4. updates[k].right <= i <=> Ends(p, starts, t) <= last(i)
            BY <1>7, <4>2, <5>1, <5>2
          <5> HIDE DEF last, t
          <5>5. i < updates[k].right <=> last(i) < Ends(p, starts, t)
            BY <4>2, <5>1, <5>2, <5>4
          <5> QED
            BY <5>1, <5>3, <5>5 DEF InUse, Added
        <4>5. InUse(p, starts, t, last(i)) \in Int
          BY <1>2, <4>1 DEF InUse
        <4> QED
          BY <4>3, <4>4, <4>5
      <3> QED
        BY <3>1
    <2>3. SumFunctionOnSet(along, K) = SumFunctionOnSet(use, {way[k] : k \in K})
      <3>1. \A k \in K : use[way[k]] \in Int
        BY <2>2
      <3> HIDE DEF use, way, K
      <3> QED
        BY <1>2, <2>1, <3>1, SumThrough
    <2>4. SumFunctionOnSet(adds, K) = SumFunctionOnSet(along, K)
      <3> HIDE DEF adds, along, K
      <3> QED
        BY <1>2, <2>2, SumAgrees
    <2>5. Usage(p, starts, last(i)) = SumFunctionOnSet(use, S)
      BY UsageIs
    <2> QED
      BY <1>9, <2>1, <2>3, <2>4, <2>5
  <1>11. \A i \in 0..(size - 1) : profile[i] \in Int
    <2>1. \A i \in 0..(size - 1) : \A k \in K : Added(updates[k], i) \in Int
      BY <1>4 DEF Added
    <2>2. ASSUME NEW i \in 0..(size - 1) PROVE SumFunctionOnSet([k \in K |-> Added(updates[k], i)], K) \in Int
      <3> DEFINE f == [k \in K |-> Added(updates[k], i)]
      <3>1. \A k \in K : f[k] \in Int
        BY <2>1
      <3> HIDE DEF f, K
      <3>2. SumFunctionOnSet(f, K) \in Int
        BY <1>2, <3>1, SumTakes
      <3> QED
        BY <3>2 DEF f
    <2> HIDE DEF profile
    <2> QED
      BY <1>9, <2>2
  <1> HIDE DEF profile
  <1>12. /\ PeakResource(p, a.schedule) \in Int
         /\ PeakResource(p, a.schedule) <= c <=> 0 <= c /\ \A i \in 0..(size - 1) : profile[i] <= c
    <2> DEFINE values == {0} \cup Range(profile)
    <2>1. Range(profile) = {profile[i] : i \in 0..(size - 1)}
      BY <1>9 DEF Range
    <2>2. IsFiniteSet(Range(profile))
      <3>1. profile \in Surjection(0..(size - 1), Range(profile))
        <4>1. profile = [i \in 0..(size - 1) |-> profile[i]]
          BY <1>9 DEF profile, RangeAdd
        <4> QED
          BY <2>1, <4>1 DEF Surjection
      <3>2. IsFiniteSet(0..(size - 1))
        BY <1>6, FS_Interval
      <3> QED
        BY <3>1, <3>2, FS_Surjection
    <2>3. IsFiniteSet(values) /\ values # {} /\ values \subseteq Int
      <3>1. IsFiniteSet({0})
        BY FS_Singleton
      <3>2. IsFiniteSet({0} \cup Range(profile))
        BY <2>2, <3>1, FS_Union
      <3> QED
        BY <1>11, <2>1, <3>2
    <2>4. Max(values) \in values /\ \A x \in values : x <= Max(values)
      <3> HIDE DEF values
      <3> QED
        BY <2>3, MaxOfFinite
    <2>5. Max(values) \in Int
      BY <2>3, <2>4
    <2>6. Max(values) <= c <=> \A x \in values : x <= c
      <3> HIDE DEF values
      <3> QED
        BY <2>3, <2>4, <2>5
    <2>7. (\A x \in values : x <= c) <=> 0 <= c /\ \A i \in 0..(size - 1) : profile[i] <= c
      BY <2>1
    <2> QED
      BY <1>1, <2>5, <2>6, <2>7
  <1>13. \A t \in S : Ends(p, starts, t) <= H
    <2>1. ASSUME NEW t \in S PROVE Ends(p, starts, t) <= H
      <3>1. PICK k \in K : a.schedule[k].task = t
        BY EntryFor
      <3>2. Ends(p, starts, t) = a.schedule[k].finish
        BY <3>1, EntryAt
      <3> QED
        BY <1>3, <3>2
    <2> QED
      BY <2>1
  <1>14. kept <=> 0 <= c /\ \A i \in 0..(H - 1) : Usage(p, starts, i) <= c
    BY <1>3, <1>13, UsagePeaksAtStarts
  <1>15. ASSUME kept PROVE PeakResource(p, a.schedule) <= c
    <2>1. \A i \in 0..(size - 1) : profile[i] <= c
      <3> HIDE DEF kept, last
      <3> QED
        BY <1>10, <1>14, <1>15, <1>8
    <2> QED
      BY <1>12, <1>14, <1>15, <2>1
  <1>16. ASSUME PeakResource(p, a.schedule) <= c, whole PROVE kept
    <2>1. 0 <= c /\ \A i \in 0..(size - 1) : profile[i] <= c
      <3> HIDE DEF whole
      <3> QED
        BY <1>12, <1>16
    <2>2. ASSUME NEW t \in S PROVE \E m \in Int : Ends(p, starts, t) = Whole * m
      <3>1. PICK k \in K : a.schedule[k].task = t
        BY EntryFor
      <3>2. starts[t] = a.schedule[k].start
        BY <3>1, EntryAt
      <3>3. a.schedule[k].start % Whole = 0 /\ a.schedule[k].start \in Int
        BY <1>2, <1>16 DEF Range
      <3>4. Ends(p, starts, t) = starts[t] + Whole * Duration(p, t)
        BY TimesAre
      <3>5. Duration(p, t) \in Nat
        BY ProjectTypes
      <3> HIDE DEF starts
      <3> QED
        BY <3>2, <3>3, <3>4, <3>5, EndsWithUnit
    <2>3. \E m \in Int : H = Whole * m
      <3>1. CASE H = 0
        <4>1. H = Whole * 0 /\ 0 \in Int
          BY <1>5, <3>1
        <4> QED
          BY <4>1
      <3>2. ASSUME NEW k \in K, H = a.schedule[k].finish PROVE \E m \in Int : H = Whole * m
        <4> DEFINE t == a.schedule[k].task
        <4>1. t \in S /\ Ends(p, starts, t) = a.schedule[k].finish
          BY EntryAt
        <4> QED
          BY <2>2, <3>2, <4>1
      <3> QED
        BY <1>3, <3>1, <3>2
    <2>4. ASSUME NEW j \in 0..(H - 1) PROVE Usage(p, starts, j) <= c
      <3> DEFINE q == j \div Whole
                 y == last(q)
      <3>1. PICK h \in Int : H = Whole * h
        BY <2>3
      <3>2. j \in Nat /\ j < Whole * h
        BY <1>3, <2>4, <3>1
      <3>3. q \in Nat /\ y \in Nat /\ j <= y /\ y < H
        BY <3>1, <3>2, UnitEnds
      <3>4. q \in 0..(size - 1)
        <4>1. size <= q <=> H <= y
          BY <1>3, <1>7, <3>3 DEF size
        <4> HIDE DEF q, y
        <4> QED
          BY <1>3, <1>6, <3>3, <4>1
      <3>5. ASSUME NEW t \in S, starts[t] <= j, j < Ends(p, starts, t)
            PROVE  starts[t] <= y /\ y < Ends(p, starts, t)
        <4>1. PICK m \in Int : Ends(p, starts, t) = Whole * m
          BY <2>2
        <4>2. y < Whole * m
          BY <3>2, <3>5, <4>1, UnitEnds
        <4>3. starts[t] \in Int
          BY TimesAre
        <4> HIDE DEF y, q, starts
        <4> QED
          BY <3>2, <3>3, <3>5, <4>1, <4>2, <4>3
      <3>6. Usage(p, starts, j) \in Int /\ Usage(p, starts, y) \in Int /\ Usage(p, starts, j) <= Usage(p, starts, y)
        <4> HIDE DEF y, q
        <4>1. j \in Int /\ y \in Int
          BY <3>2, <3>3
        <4>2. \A t \in Tasks(p) : LET first == StartsOf(p, a)[t]
                                     end == Ends(p, StartsOf(p, a), t)
                                 IN  first <= j /\ j < end => first <= y /\ y < end
          BY <3>5
        <4> QED
          BY <4>1, <4>2, UsageGrows
      <3>7. Usage(p, starts, y) <= c
        <4> HIDE DEF q
        <4>1. profile[q] <= c
          BY <2>1, <3>4
        <4>2. profile[q] = Usage(p, starts, y)
          BY <1>10, <3>4
        <4> QED
          BY <4>1, <4>2
      <3> HIDE DEF y, q
      <3> QED
        BY <3>6, <3>7
    <2> HIDE DEF kept
    <2> QED
      BY <1>14, <2>4, <2>1
  <1> HIDE DEF kept, whole
  <1>17. /\ PeakResource(p, a.schedule) \in Int
         /\ kept => PeakResource(p, a.schedule) <= c
         /\ PeakResource(p, a.schedule) <= c => kept \/ ~whole
    BY <1>12, <1>15, <1>16
  <1> QED
    BY <1>17 DEF kept, whole

(* A schedule is refused only if it is none, and then if it splits no      *)
(* units.                                                                  *)
LEMMA ProjectStructureIsRight ==
    ASSUME NEW p, p.type = "project_scheduling", IsProjectData(p), NEW a, IsProjectSolution(a)
    PROVE  StructureIsRight(p, a)
PROOF
  <1> DEFINE scheduled == {s.task : s \in Range(a.schedule)}
             entry(t) == a.schedule[LastEntry(a, t)]
             ordered == Range(a.order) = Tasks(p) /\ Len(a.order) = Len(p.tasks)
             kept == \A d \in Range(p.dependencies) : entry(d[2]).start >= entry(d[1]).finish
             tight == \A t \in Range(a.critical) \cap scheduled : entry(t).slack = 0
             spans == a.schedule # <<>> => a.makespan = Max({s.finish : s \in Range(a.schedule)})
             right == /\ ordered
                      /\ scheduled = Tasks(p) /\ Len(a.schedule) = Len(p.tasks)
                      /\ \A s \in Range(a.schedule) : s.finish = s.start + Whole * Duration(p, s.task)
                      /\ kept /\ tight /\ spans
             over == p.capacity # None /\ PeakResource(p, a.schedule) > p.capacity
             loose == \A s \in Range(a.schedule) : s.task \in Range(a.critical) => s.slack = 0
  <1>1. /\ Structure(p, a) = ProjectStructure(p, a)
        /\ IsAnswer(p, a) <=> IsSchedule(p, a) /\ ordered /\ loose
        /\ ~OnDayOff(p, a)
        /\ p.type = "project_scheduling"
    BY DEF Structure, IsAnswer, OnDayOff
  <1>2. ProjectStructure(p, a) = (IF right THEN {} ELSE {Hard("project_structure")})
                                 \cup IF over THEN {Hard("project_resource")} ELSE {}
    BY DEF ProjectStructure, SelectLastInSeq, LastEntry
  <1>3. right <=> ordered /\ OneForEach(p, a) /\ kept /\ tight /\ spans
    BY DEF OneForEach
  <1>4. IsSchedule(p, a) <=> /\ OneForEach(p, a) /\ KeepsDependencies(p, StartsOf(p, a))
                             /\ KeepsCapacity(p, StartsOf(p, a)) /\ spans
    BY DEF IsSchedule, OneForEach
  <1>5. ASSUME OneForEach(p, a)
        PROVE  /\ kept <=> KeepsDependencies(p, StartsOf(p, a))
               /\ tight <=> loose
               /\ KeepsCapacity(p, StartsOf(p, a)) => ~over
               /\ ~over => KeepsCapacity(p, StartsOf(p, a)) \/ SplitsUnits(p, a)
    <2>1. \A t \in Tasks(p) : /\ entry(t) = a.schedule[EntryOf(p, a, t)]
                              /\ entry(t).start = StartsOf(p, a)[t]
                              /\ entry(t).finish = Ends(p, StartsOf(p, a), t)
                              /\ entry(t) \in Range(a.schedule) /\ entry(t).task = t
                              /\ \A s \in Range(a.schedule) : s.task = t => s = entry(t)
      <3>1. ASSUME NEW t \in Tasks(p)
            PROVE  /\ entry(t) = a.schedule[EntryOf(p, a, t)]
                   /\ entry(t).start = StartsOf(p, a)[t]
                   /\ entry(t).finish = Ends(p, StartsOf(p, a), t)
                   /\ entry(t) \in Range(a.schedule) /\ entry(t).task = t
                   /\ \A s \in Range(a.schedule) : s.task = t => s = entry(t)
        <4>1. PICK k \in DOMAIN a.schedule :
                  /\ a.schedule[k].task = t /\ EntryOf(p, a, t) = k
                  /\ LastEntry(a, t) = k
                  /\ \A m \in DOMAIN a.schedule : a.schedule[m].task = t => m = k
          BY <1>5, EntryFor
        <4>2. entry(t) = a.schedule[k]
          BY <4>1
        <4>3. a.schedule[k].start = StartsOf(p, a)[t] /\ a.schedule[k].finish = Ends(p, StartsOf(p, a), t)
          BY <1>5, <4>1, EntryAt
        <4>4. Range(a.schedule) = {a.schedule[m] : m \in DOMAIN a.schedule}
          BY DEF Range
        <4> HIDE DEF entry
        <4> QED
          BY <4>1, <4>2, <4>3, <4>4
      <3> QED
        BY <3>1
    <2>2. \A d \in Range(p.dependencies) : d[1] \in Tasks(p) /\ d[2] \in Tasks(p)
      <3>1. p.dependencies \in Seq((DOMAIN p.tasks) \X (DOMAIN p.tasks))
        BY DEF IsProjectData
      <3>2. \A i \in DOMAIN p.dependencies : p.dependencies[i] \in (DOMAIN p.tasks) \X (DOMAIN p.tasks)
        BY <3>1, ElementOf
      <3> QED
        BY <3>2 DEF Range, Tasks
    <2>3. \A t \in Tasks(p) : entry(t).start \in Int /\ entry(t).finish \in Int
      <3>1. \A t \in Tasks(p) : EntryOf(p, a, t) \in DOMAIN a.schedule
        BY <1>5, EntriesAre
      <3> HIDE DEF entry
      <3> QED
        BY <2>1, <3>1, ProjectTypes
    <2>4. scheduled = Tasks(p)
      BY <1>5 DEF OneForEach
    <2> HIDE DEF entry, scheduled
    <2>5. kept <=> KeepsDependencies(p, StartsOf(p, a))
      BY <2>1, <2>2, <2>3 DEF KeepsDependencies
    <2>6. \A s \in Range(a.schedule) : s.task \in scheduled
      BY DEF scheduled
    <2>7. tight <=> loose
      BY <2>1, <2>4, <2>6
    <2>8. CASE p.capacity = None
      BY <2>5, <2>7, <2>8 DEF KeepsCapacity
    <2>9. CASE p.capacity # None
      <3>1. p.capacity \in Int
        BY <2>9 DEF IsProjectData
      <3>2. /\ KeepsCapacity(p, StartsOf(p, a)) => PeakResource(p, a.schedule) <= p.capacity
            /\ PeakResource(p, a.schedule) <= p.capacity => KeepsCapacity(p, StartsOf(p, a)) \/ SplitsUnits(p, a)
        BY <1>1, <1>5, <2>9, <3>1, PeakIsKept DEF KeepsCapacity, SplitsUnits
      <3>3. PeakResource(p, a.schedule) \in Int
        BY <1>5, PeakIsKept
      <3>4. over <=> ~(PeakResource(p, a.schedule) <= p.capacity)
        BY <2>9, <3>1, <3>3
      <3> QED
        BY <2>5, <2>7, <3>2, <3>4
    <2> QED
      BY <2>8, <2>9
  <1> HIDE DEF ordered, kept, tight, spans, over, loose, right, scheduled
  <1>6. /\ IsAnswer(p, a) => right /\ ~over
        /\ right /\ ~over => IsAnswer(p, a) \/ SplitsUnits(p, a)
    BY <1>1, <1>3, <1>4, <1>5
  <1>7. Hard("project_structure").severity = "hard" /\ Hard("project_resource").severity = "hard"
    BY DEF Hard
  <1>8. \A v \in Structure(p, a) : v.severity = "hard"
    BY <1>1, <1>2, <1>7
  <1>9. Structure(p, a) = {} <=> right /\ ~over
    BY <1>1, <1>2
  <1> QED
    BY <1>1, <1>6, <1>8, <1>9 DEF StructureIsRight

-----------------------------------------------------------------------------
(* The verdict.                                                            *)

(* A travel plan is refused if and only if it is none.                     *)
LEMMA TravelStructureIsRight ==
    ASSUME NEW p, p.type = "travel_planning", IsTravelData(p), NEW a, IsTravelSolution(a), ~StartsElsewhere(p, a)
    PROVE  StructureIsRight(p, a)
PROOF
  <1>1. Structure(p, a) = TravelStructure(p, a) /\ (IsAnswer(p, a) <=> IsPlan(p, a)) /\ ~OnDayOff(p, a)
    BY DEF Structure, IsAnswer, OnDayOff
  <1>2. p.start # None => a.visit # <<>> /\ a.visit[1] = p.start
    BY DEF StartsElsewhere
  <1>3. TravelStructure(p, a) = IF IsPlan(p, a) THEN {} ELSE {Hard("travel_structure")}
    BY <1>2, TravelVerificationIsRight
  <1>4. Hard("travel_structure").severity = "hard"
    BY DEF Hard
  <1> QED
    BY <1>1, <1>3, <1>4 DEF StructureIsRight

(* So are deliveries.                                                      *)
LEMMA LogisticsStructureIsRight ==
    ASSUME NEW p, p.type = "logistics_planning", IsLogisticsData(p), NEW a, IsLogisticsSolution(a)
    PROVE  StructureIsRight(p, a)
PROOF
  <1>1. Structure(p, a) = LogisticsStructure(p, a) /\ (IsAnswer(p, a) <=> IsDelivery(p, a)) /\ ~OnDayOff(p, a)
    BY DEF Structure, IsAnswer, OnDayOff
  <1>2. /\ IsDelivery(p, a) <=> LogisticsStructure(p, a) = {}
        /\ LogisticsStructure(p, a) \subseteq {Hard("logistics_structure"), Hard("logistics_capacity")}
    BY LogisticsVerificationIsRight
  <1>3. Hard("logistics_structure").severity = "hard" /\ Hard("logistics_capacity").severity = "hard"
    BY DEF Hard
  <1> QED
    BY <1>1, <1>2, <1>3 DEF StructureIsRight

(* The structural verification tells what solves a problem from what does  *)
(* not, for problems of every type, unless it uses an edge backwards or is *)
(* a plan that begins elsewhere; and a schedule that splits units may pass *)
(* without solving it.                                                     *)
THEOREM StructureIsVerified ==
    ASSUME NEW p, IsProblem(p), NEW a, IsSolutionFor(p.type, a), ~Backwards(p, a), ~StartsElsewhere(p, a)
    PROVE  StructureIsRight(p, a)
PROOF
  <1>1. CASE p.type = "route_planning"
    BY <1>1, RouteStructureIsRight
  <1>2. CASE p.type = "network_design" /\ IsNetworkData(p)
    BY <1>2, NetworkStructureIsRight DEF IsSolutionFor
  <1>3. CASE p.type = "project_scheduling" /\ IsProjectData(p)
    BY <1>3, ProjectStructureIsRight DEF IsSolutionFor
  <1>4. CASE p.type = "shift_scheduling" /\ IsShiftData(p)
    BY <1>4, ShiftStructureIsRight DEF IsSolutionFor
  <1>5. CASE p.type = "travel_planning" /\ IsTravelData(p)
    BY <1>5, TravelStructureIsRight DEF IsSolutionFor
  <1>6. CASE p.type = "logistics_planning" /\ IsLogisticsData(p)
    BY <1>6, LogisticsStructureIsRight DEF IsSolutionFor
  <1> QED
    BY <1>1, <1>2, <1>3, <1>4, <1>5, <1>6 DEF IsProblem

-----------------------------------------------------------------------------
(* The request: what is answered, and to which problem.                    *)

Chosen(p, st) == Integrity(p) /\ Feasible(p) /\ st \in Range(Registered(p.type)) \cup {Preferred(p)}

(* What a request may carry: what a client sent, or what a chosen strategy *)
(* answered.                                                               *)
Given(p, st, s) ==
    \/ st = "client" /\ IsCandidate(p.type, s)
    \/ Chosen(p, st) /\ s \in Answers(p, st)

(* A verified solution is what the verification made of a given one.       *)
RequestIsKept ==
    /\ IsProblem(problem)
    /\ phase = "validated" => Integrity(problem) /\ Feasible(problem)
    /\ phase = "selected" => Chosen(problem, strategy)
    /\ phase = "computed" => Given(problem, strategy, solution)
    /\ phase = "verified" =>
           \E s : Given(problem, strategy, s) /\ ~Unverifiable(problem, s) /\ solution = Verified(problem, s)
    /\ phase = "failed" =>
           \/ \E s : Given(problem, strategy, s) /\ Unverifiable(problem, s)
           \/ Chosen(problem, strategy) /\ Answers(problem, strategy) = {}

(* A request keeps the problem it came with, and what it carries on is     *)
(* what its strategy answered or the client sent.                          *)
THEOREM RequestsAreKept == Spec => []RequestIsKept
PROOF
  <1>1. Init => RequestIsKept
    <2> SUFFICES ASSUME Init PROVE RequestIsKept
      OBVIOUS
    <2>1. CASE problem \in Problems /\ phase = "received"
      BY <2>1, ProblemsAssumption DEF RequestIsKept
    <2>2. CASE \E offer \in Offers : /\ problem = offer.problem
                                     /\ phase = "computed"
                                     /\ strategy = "client"
                                     /\ solution = offer.solution
      <3>1. IsProblem(problem) /\ IsCandidate(problem.type, solution)
        BY <2>2, OffersAssumption
      <3> QED
        BY <3>1, <2>2 DEF RequestIsKept, Given
    <2> QED
      BY <2>1, <2>2 DEF Init
  <1>2. RequestIsKept /\ [Next]_vars => RequestIsKept'
    <2> SUFFICES ASSUME RequestIsKept, [Next]_vars PROVE RequestIsKept'
      OBVIOUS
    <2>1. CASE Validate
      BY <2>1 DEF RequestIsKept, Validate
    <2>2. CASE Select
      BY <2>2 DEF RequestIsKept, Select, Chosen
    <2>3. CASE Compute
      BY <2>3 DEF RequestIsKept, Compute, Given
    <2>4. CASE Verify
      BY <2>4 DEF RequestIsKept, Verify
    <2>5. CASE Raise
      BY <2>5 DEF RequestIsKept, Raise
    <2>6. CASE UNCHANGED vars
      BY <2>6 DEF RequestIsKept, vars
    <2> QED
      BY <2>1, <2>2, <2>3, <2>4, <2>5, <2>6 DEF Next
  <1> QED
    BY <1>1, <1>2, PTL DEF Spec

(* A strategy is none of the clients.                                      *)
LEMMA NoClient ==
    ASSUME NEW p, IsProblem(p), NEW st, Chosen(p, st)
    PROVE  st # "client"
PROOF
  <1> SUFFICES ASSUME "client" \in Range(Registered(p.type)) \cup {Preferred(p)} PROVE FALSE
    BY DEF Chosen
  <1>1. CASE p.type = "route_planning"
    BY <1>1 DEF Registered, Preferred, Range
  <1>2. CASE p.type = "network_design"
    BY <1>2 DEF Registered, Preferred, Range
  <1>3. CASE p.type = "project_scheduling"
    BY <1>3 DEF Registered, Preferred, Range
  <1>4. CASE p.type = "shift_scheduling"
    BY <1>4 DEF Registered, Preferred, Range
  <1>5. CASE p.type = "travel_planning"
    BY <1>5 DEF Registered, Preferred, Range
  <1>6. CASE p.type = "logistics_planning"
    BY <1>6 DEF Registered, Preferred, Range
  <1> QED
    BY <1>1, <1>2, <1>3, <1>4, <1>5, <1>6 DEF IsProblem

(* What a strategy may answer: that there is no solution, or a valid one   *)
(* with the figures it has.                                                *)
IsSound(p, s) ==
    \/ s.status = "infeasible"
    \/ /\ DOMAIN s = Fields /\ s.status = "valid"
       /\ p.type \in {"route_planning", "shift_scheduling"} \/ IsSolutionFor(p.type, s.assignments)
       /\ Truthful(p, s)

(* Answers are sound if all of them are.                                   *)
AreSound(p, answers) ==
    /\ \A s \in answers : IsSound(p, s)
    /\ answers = {} \/ (\E s \in answers : Unverifiable(p, s)) =>
           p.type = "travel_planning" /\ ~(RequiredItems(p) \subseteq Places(p))

(* The figures of a roster are computed, whatever came with it.            *)
LEMMA ShiftsAreTruthful ==
    ASSUME NEW p, p.type = "shift_scheduling", IsShiftData(p), NEW s
    PROVE  Truthful(p, s)
PROOF
  <1> DEFINE a == s.assignments
             figures == [labor_cost |-> PaidWages(p, a),
                         day_off_satisfaction |-> DaysOffKept(p, a),
                         hour_variance |-> Variance(p, [c \in Crew(p, a) |-> HoursWorked(p, a, c)])]
  <1>1. Variance(p, [c \in Crew(p, a) |-> HoursWorked(p, a, c)]) = VarianceUnits(p, a)
    <2>1. [c \in Crew(p, a) |-> HoursWorked(p, a, c)] = [c \in Crew(p, a) |-> WeeklyHours(p, a, c)]
      BY HoursAreWorked
    <2> QED
      BY <2>1 DEF VarianceUnits
  <1>2. ShiftMetrics(p, a) = figures
    BY <1>1, LaborIsPaid, DaysOffAreKept DEF ShiftMetrics
  <1>3. Truth(p, a) = figures
    BY DEF Truth
  <1>4. CheckedMetrics(p, s) = Updated(s.metrics, figures)
    BY <1>2 DEF CheckedMetrics
  <1> HIDE DEF figures
  <1> QED
    BY <1>3, <1>4 DEF Truthful, Updated

(* What was given for a problem can be judged.                             *)
LEMMA VerdictOnGiven ==
    ASSUME IsProblem(problem), NEW s, Given(problem, strategy, s), s.status # "infeasible",
           strategy # "client" => IsSound(problem, s),
           ~BoundsPenalty(problem),
           ~Backwards(problem, s.assignments), ~StartsElsewhere(problem, s.assignments)
    PROVE  Judgeable(problem, s) /\ (strategy # "client" => s.status = "valid")
PROOF
  <1>1. strategy = "client" => IsCandidate(problem.type, s)
    BY NoClient DEF Given
  <1>2. /\ DOMAIN s = Fields /\ s.status \in {"valid", "invalid"}
        /\ problem.type \in {"route_planning", "shift_scheduling"} \/ IsSolutionFor(problem.type, s.assignments)
        /\ strategy # "client" => s.status = "valid" /\ Truthful(problem, s)
    BY <1>1 DEF IsCandidate, IsSound, Fields
  <1>3. problem.type = "shift_scheduling" => Truthful(problem, s)
    BY ShiftsAreTruthful DEF IsProblem
  <1>4. StructureIsRight(problem, s.assignments)
    BY <1>2, StructureIsVerified, RouteStructureIsRight, ShiftStructureIsRight DEF IsProblem
  <1>5. /\ problem.constraints \in Seq(Range(problem.constraints))
        /\ \A c \in Range(problem.constraints) : IsConstraint(c)
    BY DEF IsProblem
  <1> QED
    BY <1>2, <1>3, <1>4, <1>5 DEF Judgeable

(* If strategies answer soundly, the verdict is right.                     *)
LEMMA VerdictFromSoundness ==
    ASSUME RequestIsKept, strategy # "client" /\ Chosen(problem, strategy) => AreSound(problem, Answers(problem, strategy))
    PROVE  VerdictIsRight
PROOF
  <1>1. ASSUME NEW s, Given(problem, strategy, s), strategy # "client"
        PROVE  IsSound(problem, s)
    BY <1>1 DEF Given, AreSound
  <1>2. ASSUME phase = "verified", solution.status # "infeasible", ~BoundsPenalty(problem),
               ~Backwards(problem, solution.assignments), ~StartsElsewhere(problem, solution.assignments)
        PROVE  LET solves == Solves(problem, solution)
                   refused == \E v \in solution.violations : v.severity = "hard"
               IN  /\ solves => ~refused
                   /\ solves \/ refused \/ SplitsUnits(problem, solution.assignments)
                   /\ solution.status = "valid" => ~refused
                   /\ solves /\ strategy # "client" => solution.status = "valid"
                   /\ (\A c \in Range(problem.constraints) : c.penalty >= 0) =>
                          solution.metrics.soft_penalty >= Penalty(problem, solution)
                   /\ KindsAgree(problem, solution) =>
                          solution.metrics.soft_penalty = Penalty(problem, solution)
    <2>1. PICK s : Given(problem, strategy, s) /\ solution = Verified(problem, s)
      BY <1>2 DEF RequestIsKept
    <2>2. s.status # "infeasible"
      BY <1>2, <2>1 DEF Verified
    <2>3. DOMAIN s = Fields
      <3>1. strategy = "client" => IsCandidate(problem.type, s)
        BY <2>1, NoClient DEF Given, RequestIsKept
      <3> QED
        BY <3>1, <1>1, <2>1, <2>2 DEF IsCandidate, IsSound, Fields
    <2>4. solution.assignments = s.assignments
      BY <2>1, <2>2, <2>3, VerifiedFields
    <2>5. Judgeable(problem, s) /\ (strategy # "client" => s.status = "valid")
      BY <1>1, <1>2, <2>1, <2>2, <2>4, VerdictOnGiven DEF RequestIsKept
    <2> QED
      BY <2>1, <2>5, VerdictFollows
  <1>3. ASSUME phase = "failed"
        PROVE  /\ problem.type = "travel_planning"
               /\ ~(RequiredItems(problem) \subseteq Places(problem)) \/ strategy = "client"
    <2>1. CASE \E s : Given(problem, strategy, s) /\ Unverifiable(problem, s)
      <3>1. problem.type = "travel_planning"
        BY <2>1 DEF Unverifiable
      <3>2. ASSUME strategy # "client" PROVE ~(RequiredItems(problem) \subseteq Places(problem))
        BY <2>1, <3>2 DEF Given, AreSound
      <3> QED
        BY <3>1, <3>2
    <2>2. CASE Chosen(problem, strategy) /\ Answers(problem, strategy) = {}
      BY <2>2, NoClient DEF AreSound, RequestIsKept
    <2> QED
      BY <1>3, <2>1, <2>2 DEF RequestIsKept
  <1> QED
    BY <1>2, <1>3 DEF VerdictIsRight
=============================================================================
