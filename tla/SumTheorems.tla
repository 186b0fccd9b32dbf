---------------------------- MODULE SumTheorems ----------------------------
(***************************************************************************)
(* Sums of integers over finite sets, which the risk limits, the reports   *)
(* and the forecasts are all built from.                                   *)
(*                                                                         *)
(* The library's induction theorems take an operator as a parameter. Here  *)
(* induction is stated about a set instead: of naturals, that holds 0 and  *)
(* every successor, or of subsets of a finite set, that holds the empty    *)
(* one and stays closed when an element is added.                          *)
(***************************************************************************)
EXTENDS Integers, FiniteSets, Functions, FiniteSetTheorems,
        WellFoundedInduction, TLAPS

(* Induction *)

LEMMA SmallestOf ==
  ASSUME NEW T \in SUBSET Nat, T # {}
  PROVE  \E n \in T : \A k \in T : n <= k
<1>1. PICK n \in T : \A k \in T : <<k, n>> \notin OpToRel(<, Nat)
  BY NatLessThanWellFounded, WFMin
<1>2. \A k \in T : ~(k < n)
  BY <1>1 DEF OpToRel
<1> QED
  BY <1>2

\* Induction over the naturals.
LEMMA AllNaturals ==
  ASSUME NEW T, 0 \in T, \A n \in Nat : n \in T => n + 1 \in T
  PROVE  Nat \subseteq T
<1> SUFFICES ASSUME Nat \ T # {} PROVE FALSE
  OBVIOUS
<1>1. PICK n \in Nat \ T : \A k \in Nat \ T : n <= k
  BY SmallestOf
<1>2. n # 0 /\ n - 1 \in Nat /\ (n - 1) + 1 = n
  BY <1>1
<1>3. n - 1 \in T
  BY <1>1, <1>2
<1> QED
  BY <1>1, <1>2, <1>3

\* Induction over a finite set.
LEMMA AllSubsets ==
  ASSUME NEW S, IsFiniteSet(S), NEW Good, {} \in Good,
         \A A \in SUBSET S, x \in S : A \in Good /\ x \notin A => A \cup {x} \in Good
  PROVE  S \in Good
<1> DEFINE T == {n \in Nat : \A A \in SUBSET S : Cardinality(A) = n => A \in Good}
<1>1. \A A \in SUBSET S : IsFiniteSet(A) /\ Cardinality(A) \in Nat
  BY FS_Subset, FS_CardinalityType
<1>2. 0 \in T
  BY <1>1, FS_EmptySet
<1>3. ASSUME NEW n \in Nat, n \in T PROVE n + 1 \in T
  <2> SUFFICES ASSUME NEW A \in SUBSET S, Cardinality(A) = n + 1 PROVE A \in Good
    OBVIOUS
  <2>0. \A B \in SUBSET S : Cardinality(B) = n => B \in Good
    BY <1>3
  <2> HIDE DEF T
  <2>1. A # {}
    <3> SUFFICES ASSUME A = {} PROVE FALSE
      OBVIOUS
    <3>1. Cardinality({}) = 0
      BY FS_EmptySet
    <3>2. Cardinality({}) = n + 1
      OBVIOUS
    <3> QED
      BY <3>1, <3>2
  <2>2. PICK x \in A : TRUE
    BY <2>1
  <2>3. Cardinality(A \ {x}) = n
    <3>1. IsFiniteSet(A)
      BY <1>1
    <3>2. Cardinality(A \ {x}) = Cardinality(A) - 1
      BY <2>2, <3>1, FS_RemoveElement
    <3> QED
      BY <3>2
  <2>4. A \ {x} \in Good
    BY <2>0, <2>3
  <2>5. (A \ {x}) \cup {x} \in Good
    BY <2>2, <2>4
  <2> QED
    BY <2>2, <2>5, (A \ {x}) \cup {x} = A
<1>4. Nat \subseteq T
  <2> HIDE DEF T
  <2> QED
    BY <1>2, <1>3, AllNaturals
<1> QED
  BY <1>1, <1>4

-----------------------------------------------------------------------------
(* The sum is well defined *)

\* sums[A] is what is added up when the chosen element of A comes first.
Sums(f, S, sums) ==
  sums = [A \in SUBSET S |-> IF A = {} THEN 0
                             ELSE f[CHOOSE x \in A : TRUE] + sums[A \ {CHOOSE x \in A : TRUE}]]

LEMMA SumsExist ==
  ASSUME NEW f, NEW S, IsFiniteSet(S)
  PROVE  \E sums : Sums(f, S, sums)
<1> DEFINE first(A) == CHOOSE x \in A : TRUE
           upTo(n) == {A \in SUBSET S : Cardinality(A) <= n}
           Built(n, sums) == sums = [A \in upTo(n) |->
             IF A = {} THEN 0 ELSE f[first(A)] + sums[A \ {first(A)}]]
           T == {n \in Nat : \E sums : Built(n, sums)}
<1>1. \A A \in SUBSET S : IsFiniteSet(A) /\ Cardinality(A) \in Nat
  BY FS_Subset, FS_CardinalityType
<1>2. \A A \in SUBSET S : A # {} => Cardinality(A \ {first(A)}) = Cardinality(A) - 1
  <2>1. \A A \in SUBSET S : A # {} => first(A) \in A
    OBVIOUS
  <2> QED
    BY <1>1, <2>1, FS_RemoveElement
<1> HIDE DEF first
<1>3. 0 \in T
  <2>1. \A A \in upTo(0) : A = {}
    BY <1>1, FS_EmptySet
  <2>2. Built(0, [A \in upTo(0) |-> 0])
    BY <2>1
  <2> QED
    BY <2>2
<1>4. ASSUME NEW n \in Nat, n \in T PROVE n + 1 \in T
  <2>1. PICK sums : Built(n, sums)
    BY <1>4
  <2> DEFINE more == [A \in upTo(n + 1) |->
                        IF A = {} THEN 0 ELSE f[first(A)] + sums[A \ {first(A)}]]
  <2>2. ASSUME NEW A \in upTo(n + 1), A # {}
        PROVE  more[A \ {first(A)}] = sums[A \ {first(A)}]
    <3>1. A \ {first(A)} \in upTo(n)
      BY <1>1, <1>2, <2>2
    <3>2. upTo(n) \subseteq upTo(n + 1)
      BY <1>1
    <3> QED
      BY <2>1, <3>1, <3>2
  <2>3. Built(n + 1, more)
    BY <2>2
  <2> HIDE DEF Built
  <2> QED
    BY <2>3
<1>5. Cardinality(S) \in T
  <2> HIDE DEF T
  <2>1. Nat \subseteq T
    BY <1>3, <1>4, AllNaturals
  <2> QED
    BY <1>1, <2>1
<1>6. upTo(Cardinality(S)) = SUBSET S
  BY FS_Subset, <1>1
<1> HIDE DEF upTo
<1> QED
  BY <1>5, <1>6 DEF Sums, first

LEMMA SumIsSums ==
  ASSUME NEW f, NEW S, IsFiniteSet(S)
  PROVE  \E sums : Sums(f, S, sums) /\ SumFunctionOnSet(f, S) = sums[S]
<1>1. Sums(f, S, CHOOSE sums : Sums(f, S, sums))
  BY SumsExist
<1>2. SumFunctionOnSet(f, S) = (CHOOSE sums : Sums(f, S, sums))[S]
  BY DEF Sums, SumFunctionOnSet, FoldFunctionOnSet, MapThenFoldSet
<1> QED
  BY <1>1, <1>2

\* Two such tables agree where both are defined.
LEMMA SumsAgree ==
  ASSUME NEW f, NEW S, IsFiniteSet(S), NEW A \in SUBSET S,
         NEW wide, Sums(f, S, wide), NEW narrow, Sums(f, A, narrow)
  PROVE  \A B \in SUBSET A : wide[B] = narrow[B]
<1> DEFINE first(B) == CHOOSE x \in B : TRUE
           T == {n \in Nat : \A B \in SUBSET A : Cardinality(B) <= n => wide[B] = narrow[B]}
<1>1. \A B \in SUBSET A : IsFiniteSet(B) /\ Cardinality(B) \in Nat
  BY FS_Subset, FS_CardinalityType
<1>2. \A B \in SUBSET A : B # {} => Cardinality(B \ {first(B)}) = Cardinality(B) - 1
  <2>1. \A B \in SUBSET A : B # {} => first(B) \in B
    OBVIOUS
  <2> QED
    BY <1>1, <2>1, FS_RemoveElement
<1>3. \A B \in SUBSET A :
        /\ wide[B] = IF B = {} THEN 0 ELSE f[first(B)] + wide[B \ {first(B)}]
        /\ narrow[B] = IF B = {} THEN 0 ELSE f[first(B)] + narrow[B \ {first(B)}]
  BY DEF Sums
<1> HIDE DEF first
<1>4. 0 \in T
  <2>1. \A B \in SUBSET A : Cardinality(B) <= 0 => B = {}
    BY <1>1, FS_EmptySet
  <2> QED
    BY <1>3, <2>1
<1>5. ASSUME NEW n \in Nat, n \in T PROVE n + 1 \in T
  <2> SUFFICES ASSUME NEW B \in SUBSET A, Cardinality(B) <= n + 1, B # {}
               PROVE  wide[B] = narrow[B]
    BY <1>3
  <2>1. Cardinality(B \ {first(B)}) <= n
    BY <1>1, <1>2
  <2>2. wide[B \ {first(B)}] = narrow[B \ {first(B)}]
    BY <1>5, <2>1
  <2> QED
    BY <1>3, <2>2
<1> HIDE DEF T
<1>6. Nat \subseteq T
  BY <1>4, <1>5, AllNaturals
<1> QED
  BY <1>1, <1>6 DEF T

LEMMA SumOfNone ==
  ASSUME NEW f
  PROVE  SumFunctionOnSet(f, {}) = 0
<1>1. PICK sums : Sums(f, {}, sums) /\ SumFunctionOnSet(f, {}) = sums[{}]
  BY FS_EmptySet, SumIsSums
<1> QED
  BY <1>1 DEF Sums

LEMMA SumFirst ==
  ASSUME NEW f, NEW S, IsFiniteSet(S), S # {}
  PROVE  \E x \in S : SumFunctionOnSet(f, S) = f[x] + SumFunctionOnSet(f, S \ {x})
<1> DEFINE x == CHOOSE x \in S : TRUE
<1>1. x \in S
  OBVIOUS
<1> HIDE DEF x
<1>2. IsFiniteSet(S \ {x}) /\ S \ {x} \in SUBSET S
  BY FS_RemoveElement
<1>3. PICK wide : Sums(f, S, wide) /\ SumFunctionOnSet(f, S) = wide[S]
  BY SumIsSums
<1>4. PICK narrow : /\ Sums(f, S \ {x}, narrow)
                    /\ SumFunctionOnSet(f, S \ {x}) = narrow[S \ {x}]
  BY <1>2, SumIsSums
<1>5. wide[S] = f[x] + wide[S \ {x}]
  BY <1>3 DEF Sums, x
<1>6. wide[S \ {x}] = narrow[S \ {x}]
  BY <1>2, <1>3, <1>4, SumsAgree
<1> QED
  BY <1>1, <1>3, <1>4, <1>5, <1>6

\* Whichever element is taken first, the sum is the same integer.
LEMMA SumAnyFirst ==
  ASSUME NEW f, NEW S, IsFiniteSet(S), \A i \in S : f[i] \in Int
  PROVE  /\ SumFunctionOnSet(f, S) \in Int
         /\ \A x \in S : SumFunctionOnSet(f, S) = f[x] + SumFunctionOnSet(f, S \ {x})
<1> DEFINE sum(A) == SumFunctionOnSet(f, A)
           Fine(A) == sum(A) \in Int /\ \A x \in A : sum(A) = f[x] + sum(A \ {x})
           T == {n \in Nat : \A A \in SUBSET S : Cardinality(A) <= n => Fine(A)}
<1>1. \A A \in SUBSET S : IsFiniteSet(A) /\ Cardinality(A) \in Nat
  BY FS_Subset, FS_CardinalityType
<1>2. \A A \in SUBSET S : \A x \in A : Cardinality(A \ {x}) = Cardinality(A) - 1
  BY <1>1, FS_RemoveElement
<1>3. \A A \in SUBSET S : A # {} => \E x \in A : sum(A) = f[x] + sum(A \ {x})
  BY <1>1, SumFirst
<1>4. sum({}) = 0
  BY SumOfNone
<1> HIDE DEF sum
<1>4a. Fine({})
  BY <1>4
<1> HIDE DEF Fine
<1>5. 0 \in T
  <2>1. \A A \in SUBSET S : Cardinality(A) <= 0 => A = {}
    BY <1>1, FS_EmptySet
  <2> QED
    BY <1>4a, <2>1
<1>6. ASSUME NEW n \in Nat, n \in T PROVE n + 1 \in T
  <2>1. \A A \in SUBSET S : Cardinality(A) <= n => Fine(A)
    BY <1>6
  <2> SUFFICES ASSUME NEW A \in SUBSET S, Cardinality(A) <= n + 1, A # {}
               PROVE  Fine(A)
    BY <1>4a
  <2>2. PICK x \in A : sum(A) = f[x] + sum(A \ {x})
    BY <1>3
  <2>3. \A y \in A : Fine(A \ {y})
    <3> TAKE y \in A
    <3>1. Cardinality(A \ {y}) = Cardinality(A) - 1 /\ Cardinality(A) \in Nat
      BY <1>1, <1>2
    <3> QED
      BY <2>1, <3>1
  <2>4. f[x] \in Int /\ sum(A \ {x}) \in Int
    BY <2>3 DEF Fine
  <2>5. ASSUME NEW y \in A, y # x PROVE sum(A) = f[y] + sum(A \ {y})
    <3>1. y \in A \ {x} /\ x \in A \ {y} /\ (A \ {x}) \ {y} = (A \ {y}) \ {x}
      BY <2>5
    <3>2. sum(A \ {x}) = f[y] + sum((A \ {x}) \ {y})
      BY <2>3, <3>1 DEF Fine
    <3>3. sum(A \ {y}) = f[x] + sum((A \ {x}) \ {y})
      BY <2>3, <3>1 DEF Fine
    <3>4. /\ (A \ {x}) \ {y} \in SUBSET S
          /\ Cardinality((A \ {x}) \ {y}) <= n
      <4>1. A \ {x} \in SUBSET S
        OBVIOUS
      <4>2. Cardinality((A \ {x}) \ {y}) = Cardinality(A \ {x}) - 1
        BY <1>2, <3>1, <4>1
      <4>3. Cardinality(A \ {x}) = Cardinality(A) - 1 /\ Cardinality(A) \in Nat
        BY <1>1, <1>2
      <4> QED
        BY <4>1, <4>2, <4>3
    <3>5. f[y] \in Int /\ sum((A \ {x}) \ {y}) \in Int
      BY <2>1, <3>4 DEF Fine
    <3> QED
      BY <2>2, <2>4, <3>2, <3>3, <3>5
  <2> QED
    BY <2>2, <2>4, <2>5 DEF Fine
<1> HIDE DEF T
<1>7. Nat \subseteq T
  BY <1>5, <1>6, AllNaturals
<1>8. Fine(S)
  BY <1>1, <1>7 DEF T
<1> QED
  BY <1>8 DEF Fine, sum

-----------------------------------------------------------------------------
(* Comparing sums *)

LEMMA SumInt ==
  ASSUME NEW f, NEW S, IsFiniteSet(S), \A i \in S : f[i] \in Int
  PROVE  SumFunctionOnSet(f, S) \in Int
  BY SumAnyFirst

LEMMA SumAdd ==
  ASSUME NEW f, NEW S, IsFiniteSet(S), NEW x, x \notin S,
         \A i \in S : f[i] \in Int, f[x] \in Int
  PROVE  SumFunctionOnSet(f, S \cup {x}) = f[x] + SumFunctionOnSet(f, S)
<1>1. IsFiniteSet(S \cup {x}) /\ x \in S \cup {x} /\ (S \cup {x}) \ {x} = S
  BY FS_AddElement
<1>2. \A i \in S \cup {x} : f[i] \in Int
  OBVIOUS
<1>3. SumFunctionOnSet(f, S \cup {x}) = f[x] + SumFunctionOnSet(f, (S \cup {x}) \ {x})
  BY <1>1, <1>2, SumAnyFirst
<1> QED
  BY <1>1, <1>3

\* The sum of the differences is the difference of the sums.
LEMMA SumDifference ==
  ASSUME NEW f, NEW g, NEW h, NEW S, IsFiniteSet(S),
         \A i \in S : f[i] \in Int /\ g[i] \in Int /\ h[i] = f[i] + g[i]
  PROVE  SumFunctionOnSet(h, S) = SumFunctionOnSet(f, S) + SumFunctionOnSet(g, S)
<1> DEFINE F(A) == SumFunctionOnSet(f, A)
           G(A) == SumFunctionOnSet(g, A)
           H(A) == SumFunctionOnSet(h, A)
           Good == {A \in SUBSET S : H(A) = F(A) + G(A)}
<1>1. F({}) = 0 /\ G({}) = 0 /\ H({}) = 0
  BY SumOfNone
<1>2. ASSUME NEW A \in SUBSET S, NEW x \in S, A \in Good, x \notin A
      PROVE  A \cup {x} \in Good
  <2>1. IsFiniteSet(A) /\ A \cup {x} \in SUBSET S
    BY FS_Subset
  <2>2. \A i \in A : f[i] \in Int /\ g[i] \in Int /\ h[i] \in Int
    OBVIOUS
  <2>3. F(A) \in Int /\ G(A) \in Int
    BY <2>1, <2>2, SumInt
  <2>4. f[x] \in Int /\ g[x] \in Int /\ h[x] \in Int /\ h[x] = f[x] + g[x]
    OBVIOUS
  <2>5. F(A \cup {x}) = f[x] + F(A) /\ G(A \cup {x}) = g[x] + G(A) /\ H(A \cup {x}) = h[x] + H(A)
    BY <1>2, <2>1, <2>2, <2>4, SumAdd
  <2>6. H(A) = F(A) + G(A)
    BY <1>2
  <2> HIDE DEF F, G, H
  <2>7. H(A \cup {x}) = F(A \cup {x}) + G(A \cup {x})
    BY <2>3, <2>4, <2>5, <2>6
  <2> QED
    BY <2>1, <2>7
<1>3. {} \in Good
  <2> HIDE DEF F, G, H
  <2> QED
    BY <1>1
<1> HIDE DEF Good
<1>4. S \in Good
  BY <1>2, <1>3, AllSubsets
<1> QED
  BY <1>4 DEF Good

LEMMA SumNat ==
  ASSUME NEW f, NEW S, IsFiniteSet(S), \A i \in S : f[i] \in Nat
  PROVE  SumFunctionOnSet(f, S) \in Nat
<1> DEFINE F(A) == SumFunctionOnSet(f, A)
           Good == {A \in SUBSET S : F(A) \in Nat}
<1>1. F({}) = 0
  BY SumOfNone
<1>2. ASSUME NEW A \in SUBSET S, NEW x \in S, A \in Good, x \notin A
      PROVE  A \cup {x} \in Good
  <2>1. IsFiniteSet(A) /\ A \cup {x} \in SUBSET S
    BY FS_Subset
  <2>2. (\A i \in A : f[i] \in Int) /\ f[x] \in Int /\ f[x] \in Nat
    OBVIOUS
  <2>3. F(A \cup {x}) = f[x] + F(A)
    BY <1>2, <2>1, <2>2, SumAdd
  <2> HIDE DEF F
  <2> QED
    BY <1>2, <2>1, <2>2, <2>3
<1>3. {} \in Good
  BY <1>1
<1> HIDE DEF Good
<1>4. S \in Good
  BY <1>2, <1>3, AllSubsets
<1> QED
  BY <1>4 DEF Good

LEMMA SumAtMost ==
  ASSUME NEW f, NEW g, NEW S, IsFiniteSet(S),
         \A i \in S : f[i] \in Int /\ g[i] \in Int /\ f[i] <= g[i]
  PROVE  SumFunctionOnSet(f, S) <= SumFunctionOnSet(g, S)
<1> DEFINE gap == [i \in S |-> g[i] - f[i]]
<1>1. \A i \in S : gap[i] \in Nat /\ gap[i] \in Int /\ g[i] = f[i] + gap[i]
  OBVIOUS
<1> HIDE DEF gap
<1>2. SumFunctionOnSet(g, S) = SumFunctionOnSet(f, S) + SumFunctionOnSet(gap, S)
  BY <1>1, SumDifference
<1>3. SumFunctionOnSet(gap, S) \in Nat
  BY <1>1, SumNat
<1>4. SumFunctionOnSet(f, S) \in Int
  BY SumInt
<1> QED
  BY <1>2, <1>3, <1>4

LEMMA SumSame ==
  ASSUME NEW f, NEW g, NEW S, IsFiniteSet(S),
         \A i \in S : f[i] \in Int /\ g[i] = f[i]
  PROVE  SumFunctionOnSet(f, S) = SumFunctionOnSet(g, S)
<1>1. SumFunctionOnSet(f, S) <= SumFunctionOnSet(g, S)
  BY SumAtMost
<1>2. SumFunctionOnSet(g, S) <= SumFunctionOnSet(f, S)
  BY SumAtMost
<1>3. SumFunctionOnSet(f, S) \in Int /\ SumFunctionOnSet(g, S) \in Int
  BY SumInt
<1> QED
  BY <1>1, <1>2, <1>3

\* A sum over fewer indices leaves out only what is not negative.
LEMMA SumOfSubset ==
  ASSUME NEW f, NEW S, IsFiniteSet(S), NEW A \in SUBSET S, \A i \in S : f[i] \in Nat
  PROVE  SumFunctionOnSet(f, A) <= SumFunctionOnSet(f, S)
<1> DEFINE F(B) == SumFunctionOnSet(f, B)
           Good == {B \in SUBSET S : F(A) <= F(A \cup B)}
<1>1. F(A) \in Nat
  BY FS_Subset, SumNat
<1>2. {} \in Good
  <2>1. A \cup {} = A
    OBVIOUS
  <2> HIDE DEF F
  <2> QED
    BY <1>1, <2>1
<1>3. ASSUME NEW B \in SUBSET S, NEW x \in S, B \in Good, x \notin B
      PROVE  B \cup {x} \in Good
  <2>1. A \cup B \in SUBSET S /\ B \cup {x} \in SUBSET S
    OBVIOUS
  <2>2. F(A) <= F(A \cup B)
    BY <1>3
  <2>3. CASE x \in A
    <3>1. A \cup (B \cup {x}) = A \cup B
      BY <2>3
    <3> HIDE DEF F
    <3> QED
      BY <2>1, <2>2, <3>1
  <2>4. CASE x \notin A
    <3>1. A \cup (B \cup {x}) = (A \cup B) \cup {x} /\ x \notin A \cup B
      BY <1>3, <2>4
    <3>2. IsFiniteSet(A \cup B)
      BY <2>1, FS_Subset
    <3>3. (\A i \in A \cup B : f[i] \in Int /\ f[i] \in Nat) /\ f[x] \in Int /\ f[x] \in Nat
      BY <2>1
    <3>4. F((A \cup B) \cup {x}) = f[x] + F(A \cup B)
      BY <3>1, <3>2, <3>3, SumAdd
    <3>5. F(A \cup B) \in Nat
      BY <3>2, <3>3, SumNat
    <3> HIDE DEF F
    <3>6. F(A) <= F((A \cup B) \cup {x})
      BY <1>1, <2>2, <3>3, <3>4, <3>5
    <3> QED
      BY <2>1, <3>1, <3>6
  <2> QED
    BY <2>3, <2>4
<1> HIDE DEF Good
<1>4. S \in Good
  BY <1>2, <1>3, AllSubsets
<1>5. A \cup S = S
  OBVIOUS
<1> QED
  BY <1>4, <1>5 DEF Good

\* Each term at most `each' (a step of its own keeps the product linear).
LEMMA SumOfEqualBound ==
  ASSUME NEW f, NEW S, IsFiniteSet(S), NEW each \in Nat,
         \A i \in S : f[i] \in Int /\ f[i] <= each
  PROVE  SumFunctionOnSet(f, S) <= Cardinality(S) * each
<1> DEFINE F(A) == SumFunctionOnSet(f, A)
           Good == {A \in SUBSET S : F(A) <= Cardinality(A) * each}
<1>1. {} \in Good
  <2>1. F({}) = 0 /\ Cardinality({}) = 0 /\ 0 * each = 0
    BY SumOfNone, FS_EmptySet
  <2> HIDE DEF F
  <2> QED
    BY <2>1
<1>2. ASSUME NEW A \in SUBSET S, NEW x \in S, A \in Good, x \notin A
      PROVE  A \cup {x} \in Good
  <2>1. IsFiniteSet(A) /\ A \cup {x} \in SUBSET S
    BY FS_Subset
  <2>2. (\A i \in A : f[i] \in Int) /\ f[x] \in Int /\ f[x] <= each
    OBVIOUS
  <2>3. F(A \cup {x}) = f[x] + F(A) /\ F(A) \in Int
    BY <1>2, <2>1, <2>2, SumAdd, SumInt
  <2>4. Cardinality(A \cup {x}) = Cardinality(A) + 1 /\ Cardinality(A) \in Nat
    BY <1>2, <2>1, FS_AddElement, FS_CardinalityType
  <2>5. \A n \in Nat : (n + 1) * each = n * each + each /\ n * each \in Int
    OBVIOUS
  <2>6. F(A) <= Cardinality(A) * each
    BY <1>2
  <2> HIDE DEF F
  <2>7. /\ (Cardinality(A) + 1) * each = Cardinality(A) * each + each
        /\ Cardinality(A) * each \in Int
    BY <2>4, <2>5
  <2>8. F(A \cup {x}) <= (Cardinality(A) + 1) * each
    BY <2>2, <2>3, <2>6, <2>7
  <2> QED
    BY <2>1, <2>4, <2>8
<1> HIDE DEF Good
<1>3. S \in Good
  BY <1>1, <1>2, AllSubsets
<1> QED
  BY <1>3 DEF Good

\* Leaving indices out is counting them as nothing.
LEMMA SumMasked ==
  ASSUME NEW f, NEW S, IsFiniteSet(S), NEW A \in SUBSET S, NEW masked,
         \A i \in S : f[i] \in Int /\ masked[i] = IF i \in A THEN f[i] ELSE 0
  PROVE  SumFunctionOnSet(masked, S) = SumFunctionOnSet(f, A)
<1> DEFINE F(B) == SumFunctionOnSet(f, B)
           M(B) == SumFunctionOnSet(masked, B)
           Good == {B \in SUBSET S : M(B) = F(A \cap B)}
<1>1. {} \in Good
  <2>1. F({}) = 0 /\ M({}) = 0 /\ A \cap {} = {}
    BY SumOfNone
  <2> HIDE DEF F, M
  <2> QED
    BY <2>1
<1>2. ASSUME NEW B \in SUBSET S, NEW x \in S, B \in Good, x \notin B
      PROVE  B \cup {x} \in Good
  <2>1. IsFiniteSet(B) /\ IsFiniteSet(A \cap B) /\ B \cup {x} \in SUBSET S
    BY FS_Subset
  <2>2. /\ \A i \in B : masked[i] \in Int
        /\ \A i \in A \cap B : f[i] \in Int
        /\ f[x] \in Int /\ masked[x] \in Int
    OBVIOUS
  <2>3. M(B \cup {x}) = masked[x] + M(B)
    BY <1>2, <2>1, <2>2, SumAdd
  <2>4. M(B) = F(A \cap B) /\ M(B) \in Int
    BY <1>2, <2>1, <2>2, SumInt
  <2>5. CASE x \in A
    <3>1. A \cap (B \cup {x}) = (A \cap B) \cup {x} /\ x \notin A \cap B /\ masked[x] = f[x]
      BY <1>2, <2>5
    <3>2. F((A \cap B) \cup {x}) = f[x] + F(A \cap B)
      BY <2>1, <2>2, <3>1, SumAdd
    <3> HIDE DEF F, M
    <3>3. M(B \cup {x}) = F(A \cap (B \cup {x}))
      BY <2>3, <2>4, <3>1, <3>2
    <3> QED
      BY <2>1, <3>3
  <2>6. CASE x \notin A
    <3>1. A \cap (B \cup {x}) = A \cap B /\ masked[x] = 0
      BY <2>6
    <3> HIDE DEF F, M
    <3>2. M(B \cup {x}) = F(A \cap (B \cup {x}))
      BY <2>3, <2>4, <3>1
    <3> QED
      BY <2>1, <3>2
  <2> QED
    BY <2>5, <2>6
<1> HIDE DEF Good
<1>3. S \in Good
  BY <1>1, <1>2, AllSubsets
<1>4. A \cap S = A
  OBVIOUS
<1> QED
  BY <1>3, <1>4 DEF Good

\* The sum over disjoint sets.
LEMMA SumUnion ==
  ASSUME NEW f, NEW S, IsFiniteSet(S), NEW A \in SUBSET S, NEW B \in SUBSET S,
         A \cap B = {}, \A i \in S : f[i] \in Int
  PROVE  SumFunctionOnSet(f, A \cup B) = SumFunctionOnSet(f, A) + SumFunctionOnSet(f, B)
<1> DEFINE left  == [i \in S |-> IF i \in A THEN f[i] ELSE 0]
           right == [i \in S |-> IF i \in B THEN f[i] ELSE 0]
           both  == [i \in S |-> IF i \in A \cup B THEN f[i] ELSE 0]
<1>1. /\ \A i \in S : left[i] \in Int /\ left[i] = IF i \in A THEN f[i] ELSE 0
      /\ \A i \in S : right[i] \in Int /\ right[i] = IF i \in B THEN f[i] ELSE 0
      /\ \A i \in S : both[i] = IF i \in A \cup B THEN f[i] ELSE 0
  OBVIOUS
<1>2. \A i \in S : both[i] = left[i] + right[i]
  BY <1>1
<1> HIDE DEF left, right, both
<1>3. SumFunctionOnSet(both, S) = SumFunctionOnSet(left, S) + SumFunctionOnSet(right, S)
  BY <1>1, <1>2, SumDifference
<1>4. SumFunctionOnSet(left, S) = SumFunctionOnSet(f, A)
  BY <1>1, SumMasked
<1>5. SumFunctionOnSet(right, S) = SumFunctionOnSet(f, B)
  BY <1>1, SumMasked
<1>6. SumFunctionOnSet(both, S) = SumFunctionOnSet(f, A \cup B)
  <2>1. A \cup B \in SUBSET S
    OBVIOUS
  <2> QED
    BY <1>1, <2>1, SumMasked
<1> QED
  BY <1>3, <1>4, <1>5, <1>6

\* What adds nothing may be left out.
LEMMA SumOfNothings ==
  ASSUME NEW f, NEW S, IsFiniteSet(S), NEW A \in SUBSET S,
         \A i \in S : f[i] \in Int, \A i \in S \ A : f[i] = 0
  PROVE  SumFunctionOnSet(f, S) = SumFunctionOnSet(f, A)
<1>1. \A i \in S : f[i] \in Int /\ f[i] = IF i \in A THEN f[i] ELSE 0
  OBVIOUS
<1> QED
  BY <1>1, SumMasked

\* The indices of one group.
GroupOf(group, S, k) == {i \in S : group[i] = k}

\* The total of the totals of the groups.
LEMMA SumOverGroups ==
  ASSUME NEW f, NEW S, IsFiniteSet(S), \A i \in S : f[i] \in Int,
         NEW G, IsFiniteSet(G), NEW group, \A i \in S : group[i] \in G,
         NEW total,
         \A k \in G : total[k] = SumFunctionOnSet(f, GroupOf(group, S, k))
  PROVE  SumFunctionOnSet(total, G) = SumFunctionOnSet(f, S)
<1> DEFINE In(H) == {i \in S : group[i] \in H}
           One(k) == GroupOf(group, S, k)
           Good == {H \in SUBSET G : SumFunctionOnSet(total, H) = SumFunctionOnSet(f, In(H))}
<1>1. \A k \in G : total[k] \in Int
  <2> TAKE k \in G
  <2>1. IsFiniteSet(One(k)) /\ \A i \in One(k) : f[i] \in Int
    BY FS_Subset DEF GroupOf
  <2>2. SumFunctionOnSet(f, One(k)) \in Int
    BY <2>1, SumInt
  <2> QED
    BY <2>2
<1>2. {} \in Good
  <2>1. In({}) = {} /\ SumFunctionOnSet(total, {}) = 0 /\ SumFunctionOnSet(f, {}) = 0
    BY SumOfNone
  <2> QED
    BY <2>1
<1>3. ASSUME NEW H \in SUBSET G, NEW k \in G, H \in Good, k \notin H
      PROVE  H \cup {k} \in Good
  <2>1. IsFiniteSet(H) /\ (\A j \in H : total[j] \in Int) /\ total[k] \in Int
    BY <1>1, FS_Subset
  <2>2. SumFunctionOnSet(total, H \cup {k}) = total[k] + SumFunctionOnSet(total, H)
    BY <1>3, <2>1, SumAdd
  <2>3. In(H \cup {k}) = In(H) \cup One(k) /\ In(H) \cap One(k) = {}
    BY <1>3 DEF GroupOf
  <2>4. In(H) \in SUBSET S /\ One(k) \in SUBSET S
    BY DEF GroupOf
  <2>5. SumFunctionOnSet(f, In(H) \cup One(k))
          = SumFunctionOnSet(f, In(H)) + SumFunctionOnSet(f, One(k))
    <3>1. \A A, B \in SUBSET S : A \cap B = {} =>
            SumFunctionOnSet(f, A \cup B) = SumFunctionOnSet(f, A) + SumFunctionOnSet(f, B)
      BY SumUnion
    <3> HIDE DEF In, One
    <3> QED
      BY <2>3, <2>4, <3>1
  <2>6. total[k] = SumFunctionOnSet(f, One(k))
    OBVIOUS
  <2>7. SumFunctionOnSet(total, H) = SumFunctionOnSet(f, In(H))
    BY <1>3
  <2>8. SumFunctionOnSet(total, H) \in Int
    BY <2>1, SumInt
  <2>9. SumFunctionOnSet(f, In(H \cup {k})) = SumFunctionOnSet(f, In(H) \cup One(k))
    BY <2>3, Zenon
  <2>10. SumFunctionOnSet(total, H \cup {k}) = SumFunctionOnSet(f, In(H \cup {k}))
    <3> HIDE DEF In, One
    <3> QED
      BY <1>1, <2>2, <2>5, <2>6, <2>7, <2>8, <2>9
  <2> QED
    BY <2>10 DEF Good
<1> HIDE DEF Good
<1>4. G \in Good
  BY <1>2, <1>3, AllSubsets
<1>5. In(G) = S
  OBVIOUS
<1> QED
  BY <1>4, <1>5 DEF Good

\* A common factor.
LEMMA SumScaled ==
  ASSUME NEW f, NEW g, NEW S, IsFiniteSet(S), NEW c \in Int,
         \A i \in S : f[i] \in Int /\ g[i] = c * f[i]
  PROVE  SumFunctionOnSet(g, S) = c * SumFunctionOnSet(f, S)
<1> DEFINE F(A) == SumFunctionOnSet(f, A)
           G(A) == SumFunctionOnSet(g, A)
           Good == {A \in SUBSET S : G(A) = c * F(A)}
<1>0. \A i \in S : g[i] \in Int
  OBVIOUS
<1>1. {} \in Good
  <2>1. F({}) = 0 /\ G({}) = 0 /\ c * 0 = 0
    BY SumOfNone
  <2> HIDE DEF F, G
  <2> QED
    BY <2>1
<1>2. ASSUME NEW A \in SUBSET S, NEW x \in S, A \in Good, x \notin A
      PROVE  A \cup {x} \in Good
  <2>1. IsFiniteSet(A) /\ A \cup {x} \in SUBSET S
    BY FS_Subset
  <2>2. F(A \cup {x}) = f[x] + F(A) /\ F(A) \in Int
    BY <1>2, <2>1, SumAdd, SumInt
  <2>3. G(A \cup {x}) = g[x] + G(A)
    BY <1>0, <1>2, <2>1, SumAdd
  <2>4. G(A) = c * F(A) /\ g[x] = c * f[x] /\ f[x] \in Int
    BY <1>2
  <2>5. \A a, b \in Int : c * (a + b) = c * a + c * b
    OBVIOUS
  <2> HIDE DEF F, G
  <2>6. G(A \cup {x}) = c * F(A \cup {x})
    BY <2>2, <2>3, <2>4, <2>5
  <2> QED
    BY <2>1, <2>6
<1> HIDE DEF Good
<1>3. S \in Good
  BY <1>1, <1>2, AllSubsets
<1> QED
  BY <1>3 DEF Good

\* The lengths of intervals that lie apart, all under a bound, sum up to the
\* bound at most.
LEMMA SumApart ==
  ASSUME NEW S, IsFiniteSet(S), NEW from, NEW to, NEW length,
         \A i \in S : /\ from[i] \in Nat /\ to[i] \in Nat /\ from[i] < to[i]
                      /\ length[i] = to[i] - from[i],
         \A i, j \in S : i # j => to[i] <= from[j] \/ to[j] <= from[i],
         NEW bound \in Nat, \A i \in S : to[i] <= bound
  PROVE  SumFunctionOnSet(length, S) <= bound
<1> DEFINE L(A) == SumFunctionOnSet(length, A)
           Upto(A, u) == \A i \in A : to[i] <= u
           T == {t \in Nat : \A u \in 0..t : \A A \in SUBSET S : Upto(A, u) => L(A) <= u}
<1>1. \A i \in S : length[i] \in Int
  OBVIOUS
<1>2. \A A \in SUBSET S : L(A) \in Int
  BY <1>1, FS_Subset, SumInt
<1>3. 0 \in T
  <2> SUFFICES ASSUME NEW u \in 0..0, NEW A \in SUBSET S, Upto(A, u) PROVE L(A) <= u
    OBVIOUS
  <2>1. A = {} /\ u = 0
    OBVIOUS
  <2>2. L({}) = 0
    BY SumOfNone
  <2> HIDE DEF L
  <2> QED
    BY <2>1, <2>2
<1>4. ASSUME NEW t \in Nat, t \in T PROVE t + 1 \in T
  <2> SUFFICES ASSUME NEW A \in SUBSET S, Upto(A, t + 1) PROVE L(A) <= t + 1
    <3>1. \A u \in 0..(t + 1) : u \in 0..t \/ u = t + 1
      OBVIOUS
    <3>2. \A u \in 0..t : \A A \in SUBSET S : Upto(A, u) => L(A) <= u
      BY <1>4
    <3> HIDE DEF L, Upto
    <3> QED
      BY <3>1, <3>2
  <2>1. \A u \in 0..t : \A B \in SUBSET S : Upto(B, u) => L(B) <= u
    BY <1>4
  <2> HIDE DEF T
  <2>2. CASE Upto(A, t)
    <3>1. L(A) <= t
      <4> HIDE DEF L, Upto
      <4> QED
        BY <2>1, <2>2
    <3> HIDE DEF L
    <3> QED
      BY <1>2, <3>1
  <2>3. CASE ~Upto(A, t)
    <3>1. PICK top \in A : to[top] = t + 1
      BY <2>3
    <3> DEFINE B == A \ {top}
    <3>2. B \in SUBSET S /\ IsFiniteSet(B) /\ A = B \cup {top} /\ top \notin B
      BY FS_Subset
    <3>3. from[top] \in 0..t /\ Upto(B, from[top])
      <4>1. from[top] \in 0..t
        BY <3>1
      <4>2. ASSUME NEW i \in B PROVE to[i] <= from[top]
        <5>1. i \in S /\ i # top /\ to[i] <= t + 1 /\ from[i] < to[i]
          OBVIOUS
        <5>2. ~(to[top] <= from[i])
          BY <3>1, <5>1
        <5> QED
          BY <5>1, <5>2
      <4> QED
        BY <4>1, <4>2
    <3>4. L(B) <= from[top]
      <4> HIDE DEF L, Upto, B
      <4> QED
        BY <2>1, <3>2, <3>3
    <3>5. L(B \cup {top}) = length[top] + L(B)
      <4> HIDE DEF B
      <4> QED
        BY <1>1, <3>2, SumAdd
    <3>6. length[top] = t + 1 - from[top] /\ from[top] \in Int /\ L(B) \in Int
      BY <1>2, <3>1, <3>2
    <3> HIDE DEF L, B
    <3> QED
      BY <3>2, <3>4, <3>5, <3>6
  <2> QED
    BY <2>2, <2>3
<1> HIDE DEF T
<1>5. bound \in T
  BY <1>3, <1>4, AllNaturals
<1>6. Upto(S, bound) /\ bound \in 0..bound
  OBVIOUS
<1> HIDE DEF L, Upto
<1>7. L(S) <= bound
  BY <1>5, <1>6 DEF T
<1> QED
  BY <1>7 DEF L
=============================================================================
