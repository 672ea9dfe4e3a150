------------------------ MODULE PortfolioReplayProofs ------------------------
(* Theorems about PortfolioReplay: what the replay computes for a ledger of *)
(* any length, any amounts and any market.                                  *)
(*                                                                          *)
(* The replay and the sums are folds.  What a fold computes is shown by the *)
(* smallest counterexample: the set of the lengths, or of the subsets, for  *)
(* which a statement fails has a least element, or is empty.                *)
EXTENDS PortfolioReplay, FiniteSetTheorems, WellFoundedInduction, TLAPS

-----------------------------------------------------------------------------
(* Least elements. *)

Below == {p \in Nat \X Nat : p[1] < p[2]}

LEMMA LeastNumber ==
    ASSUME NEW T, T \subseteq Nat, T # {}
    PROVE  \E n \in T : \A m \in T : n <= m
<1>1. IsWellFoundedOn(Below, Nat)
  BY NatLessThanWellFounded DEF OpToRel, Below
<1>2. PICK n \in T : \A m \in T : ~(<<m, n>> \in Below)
  BY <1>1, WFMin
<1>3. ASSUME NEW m \in T, m < n PROVE FALSE
  <2>1. <<m, n>> \in Nat \X Nat /\ <<m, n>>[1] < <<m, n>>[2]
    BY <1>3
  <2>. QED BY <1>2, <2>1 DEF Below
<1>. QED BY <1>3

(* Induction, over the numbers and over the prefixes of a sequence.         *)
LEMMA AllNumbers ==
    ASSUME NEW T, T \subseteq Nat, 0 \in T, \A n \in T : n + 1 \in T
    PROVE  T = Nat
<1>. SUFFICES ASSUME Nat \ T # {} PROVE FALSE
  OBVIOUS
<1>1. PICK n \in Nat \ T : \A m \in Nat \ T : n <= m
  <2>1. Nat \ T \subseteq Nat
    OBVIOUS
  <2>. QED BY <2>1, LeastNumber
<1>2. n - 1 \in Nat /\ ~(n <= n - 1)
  BY <1>1
<1>3. n - 1 \in T /\ n = (n - 1) + 1
  BY <1>1, <1>2
<1>. QED BY <1>1, <1>3

LEMMA AllPrefixes ==
    ASSUME NEW length \in Nat, NEW T, 0 \in T,
           \A n \in 1 .. length : n - 1 \in T => n \in T
    PROVE  0 .. length \subseteq T
<1>. DEFINE U == {n \in Nat : n <= length => n \in T}
<1>1. ASSUME NEW n \in U PROVE n + 1 \in U
  <2>1. CASE n + 1 <= length
    <3>1. n + 1 \in 1 .. length /\ (n + 1) - 1 = n /\ n \in T
      BY <2>1
    <3>. QED BY <3>1
  <2>2. CASE ~(n + 1 <= length)
    BY <2>2
  <2>. QED BY <2>1, <2>2
<1>2. U = Nat
  <2>1. U \subseteq Nat /\ 0 \in U
    OBVIOUS
  <2>. HIDE DEF U
  <2>. QED BY <1>1, <2>1, AllNumbers
<1>. QED BY <1>2

LEMMA SmallestSet ==
    ASSUME NEW S, IsFiniteSet(S), NEW F, F \subseteq SUBSET S, F # {}
    PROVE  \E T \in F : \A U \in F : U \subseteq T => U = T
<1>1. IsWellFoundedOn(StrictSubsetOrdering(S), SUBSET S)
  BY FS_StrictSubsetOrderingWellFounded, FS_FiniteSubsetsOfFinite
<1>2. PICK T \in F : \A U \in F : ~(<<U, T>> \in StrictSubsetOrdering(S))
  BY <1>1, WFMin
<1>3. ASSUME NEW U \in F, U \subseteq T, U # T PROVE FALSE
  <2>1. <<U, T>> \in (SUBSET S) \X (SUBSET S)
    BY <1>3
  <2>. QED BY <1>2, <1>3, <2>1 DEF StrictSubsetOrdering
<1>. QED BY <1>3

-----------------------------------------------------------------------------
(* Sums over finite sets: the order in which a fold takes the elements does *)
(* not matter.                                                              *)

SomeOf(S) == CHOOSE x \in S : TRUE

AddsAt(g, f, s) == g[s] = IF s = {} THEN 0 ELSE f[SomeOf(s)] + g[s \ {SomeOf(s)}]

Adds(g, f, S) ==
    g = [s \in SUBSET S |-> IF s = {} THEN 0 ELSE f[SomeOf(s)] + g[s \ {SomeOf(s)}]]

SumOn(f, S) == SumOf([x \in S |-> f[x]])

LEMMA Smaller ==
    ASSUME NEW S, IsFiniteSet(S), S # {}
    PROVE  /\ SomeOf(S) \in S /\ IsFiniteSet(S \ {SomeOf(S)})
           /\ Cardinality(S \ {SomeOf(S)}) = Cardinality(S) - 1 /\ Cardinality(S) \in Nat
  BY FS_RemoveElement, FS_CardinalityType DEF SomeOf

LEMMA AddsExists ==
    ASSUME NEW f, NEW S, IsFiniteSet(S)
    PROVE  \E g : Adds(g, f, S)
<1>. DEFINE Partial(k) == \E g : \A s \in SUBSET S : Cardinality(s) <= k => AddsAt(g, f, s)
            Full == {k \in Nat : Partial(k)}
<1>1. \A s \in SUBSET S : IsFiniteSet(s) /\ Cardinality(s) \in Nat
                          /\ Cardinality(s) <= Cardinality(S)
  BY FS_Subset, FS_CardinalityType
<1>2. Partial(0)
  <2>. DEFINE g == [s \in SUBSET S |-> 0]
  <2>1. \A s \in SUBSET S : Cardinality(s) <= 0 => s = {}
    BY <1>1, FS_EmptySet
  <2>2. \A s \in SUBSET S : Cardinality(s) <= 0 => AddsAt(g, f, s)
    BY <2>1 DEF AddsAt
  <2>. QED BY <2>2
<1>3. ASSUME NEW k \in Nat, Partial(k) PROVE Partial(k + 1)
  <2>1. PICK g : \A s \in SUBSET S : Cardinality(s) <= k => AddsAt(g, f, s)
    BY <1>3
  <2>. DEFINE h == [s \in SUBSET S |-> IF s = {} THEN 0 ELSE f[SomeOf(s)] + g[s \ {SomeOf(s)}]]
  <2>2. \A s \in SUBSET S : Cardinality(s) <= k => h[s] = g[s]
    BY <2>1 DEF AddsAt
  <2>3. ASSUME NEW s \in SUBSET S, Cardinality(s) <= k + 1, s # {}
        PROVE  h[s] = f[SomeOf(s)] + h[s \ {SomeOf(s)}]
    <3>1. s \ {SomeOf(s)} \in SUBSET S /\ Cardinality(s \ {SomeOf(s)}) <= k
      BY <1>1, <2>3, Smaller
    <3>. QED BY <2>2, <2>3, <3>1
  <2>. QED BY <2>3 DEF AddsAt
<1>4. Full = Nat
  <2>. HIDE DEF Partial
  <2>1. Full \subseteq Nat /\ 0 \in Full /\ \A k \in Full : k + 1 \in Full
    BY <1>2, <1>3
  <2>. HIDE DEF Full
  <2>. QED BY <2>1, AllNumbers
<1>5. Partial(Cardinality(S))
  BY <1>4, FS_CardinalityType
<1>6. PICK g : \A s \in SUBSET S : AddsAt(g, f, s)
  BY <1>1, <1>5
<1>. DEFINE h == [s \in SUBSET S |-> g[s]]
<1>7. Adds(h, f, S)
  BY <1>6 DEF Adds, AddsAt
<1>. QED BY <1>7

LEMMA AddsUnique ==
    ASSUME NEW f, NEW S, IsFiniteSet(S), NEW T \in SUBSET S,
           NEW g, Adds(g, f, S), NEW h, Adds(h, f, T)
    PROVE  h[T] = g[T]
<1>. DEFINE Bad == {U \in SUBSET T : h[U] # g[U]}
<1>. SUFFICES ASSUME Bad # {} PROVE FALSE
  OBVIOUS
<1>1. IsFiniteSet(T)
  BY FS_Subset
<1>2. PICK U \in Bad : \A V \in Bad : V \subseteq U => V = U
  <2>1. Bad \subseteq SUBSET T
    OBVIOUS
  <2>. HIDE DEF Bad
  <2>. QED BY <1>1, <2>1, SmallestSet
<1>3. CASE U = {}
  BY <1>2, <1>3 DEF Adds
<1>4. CASE U # {}
  <2>1. SomeOf(U) \in U /\ U \ {SomeOf(U)} \in SUBSET T /\ U \ {SomeOf(U)} # U
    BY <1>1, <1>4, Smaller, FS_Subset
  <2>2. h[U \ {SomeOf(U)}] = g[U \ {SomeOf(U)}]
    BY <1>2, <2>1
  <2>. QED BY <1>2, <1>4, <2>1, <2>2 DEF Adds
<1>. QED BY <1>3, <1>4

LEMMA SumIsFold ==
    ASSUME NEW f, NEW S, IsFiniteSet(S)
    PROVE  \E g : Adds(g, f, S) /\ SumOn(f, S) = g[S]
<1>. DEFINE e == [x \in S |-> f[x]]
<1>1. \A g : Adds(g, e, S) <=> Adds(g, f, S)
  <2>1. \A s \in SUBSET S : s # {} => e[SomeOf(s)] = f[SomeOf(s)]
    BY DEF SomeOf
  <2>. QED BY <2>1 DEF Adds
<1>2. SumOf(e) = (CHOOSE g : Adds(g, e, S))[S]
  BY DEF SumOf, FoldFunction, FoldFunctionOnSet, MapThenFoldSet, Adds, SomeOf
<1>3. \E g : Adds(g, e, S)
  BY AddsExists
<1>. QED BY <1>1, <1>2, <1>3 DEF SumOn

LEMMA SumUnfolds ==
    ASSUME NEW f, NEW S, IsFiniteSet(S)
    PROVE  SumOn(f, S) = IF S = {} THEN 0 ELSE f[SomeOf(S)] + SumOn(f, S \ {SomeOf(S)})
<1>1. PICK g : Adds(g, f, S) /\ SumOn(f, S) = g[S]
  BY SumIsFold
<1>2. ASSUME S # {} PROVE g[S \ {SomeOf(S)}] = SumOn(f, S \ {SomeOf(S)})
  <2>1. IsFiniteSet(S \ {SomeOf(S)})
    BY <1>2, Smaller
  <2>2. PICK h : Adds(h, f, S \ {SomeOf(S)}) /\ SumOn(f, S \ {SomeOf(S)}) = h[S \ {SomeOf(S)}]
    BY <2>1, SumIsFold
  <2>. QED BY <1>1, <2>2, AddsUnique
<1>. QED BY <1>1, <1>2 DEF Adds

LEMMA SumOfNothing == ASSUME NEW f PROVE SumOn(f, {}) = 0
  BY SumUnfolds, FS_EmptySet

LEMMA SumIsInt ==
    ASSUME NEW S, IsFiniteSet(S), NEW f, \A x \in S : f[x] \in Int
    PROVE  SumOn(f, S) \in Int
<1>. DEFINE Bad == {U \in SUBSET S : SumOn(f, U) \notin Int}
<1>. SUFFICES ASSUME Bad # {} PROVE FALSE
  OBVIOUS
<1>1. PICK U \in Bad : \A V \in Bad : V \subseteq U => V = U
  <2>1. Bad \subseteq SUBSET S
    OBVIOUS
  <2>. HIDE DEF Bad
  <2>. QED BY <2>1, SmallestSet
<1>2. IsFiniteSet(U)
  BY FS_Subset
<1>3. CASE U = {}
  BY <1>1, <1>3, SumOfNothing
<1>4. CASE U # {}
  <2>1. SomeOf(U) \in U /\ U \ {SomeOf(U)} # U
    BY <1>2, <1>4, Smaller
  <2>2. SumOn(f, U \ {SomeOf(U)}) \in Int
    BY <1>1, <2>1
  <2>. QED BY <1>1, <1>2, <1>4, <2>1, <2>2, SumUnfolds
<1>. QED BY <1>3, <1>4

(* Whichever element is taken out first.                                    *)
LEMMA SumTakesOut ==
    ASSUME NEW S, IsFiniteSet(S), NEW f, \A x \in S : f[x] \in Int, NEW y \in S
    PROVE  SumOn(f, S) = f[y] + SumOn(f, S \ {y})
<1>. DEFINE Bad == {U \in SUBSET S : \E z \in U : SumOn(f, U) # f[z] + SumOn(f, U \ {z})}
<1>. SUFFICES ASSUME Bad # {} PROVE FALSE
  OBVIOUS
<1>1. PICK U \in Bad : \A V \in Bad : V \subseteq U => V = U
  <2>1. Bad \subseteq SUBSET S
    OBVIOUS
  <2>. HIDE DEF Bad
  <2>. QED BY <2>1, SmallestSet
<1>2. PICK z \in U : SumOn(f, U) # f[z] + SumOn(f, U \ {z})
  BY <1>1
<1>3. PICK c : c = SomeOf(U)
  OBVIOUS
<1>4. U \subseteq S /\ IsFiniteSet(U) /\ c \in U
  BY <1>2, <1>3, FS_Subset, Smaller
<1>5. SumOn(f, U) = f[c] + SumOn(f, U \ {c})
  BY <1>2, <1>3, <1>4, SumUnfolds
<1>6. c # z
  BY <1>2, <1>5
<1>7. ASSUME NEW x \in U, NEW t \in U, x # t
      PROVE  SumOn(f, U \ {x}) = f[t] + SumOn(f, (U \ {x}) \ {t})
  <2>1. U \ {x} \in SUBSET S /\ U \ {x} # U /\ U \ {x} \subseteq U /\ t \in U \ {x}
    BY <1>4, <1>7
  <2>. QED BY <1>1, <2>1
<1>8. /\ SumOn(f, U \ {c}) = f[z] + SumOn(f, (U \ {c}) \ {z})
      /\ SumOn(f, U \ {z}) = f[c] + SumOn(f, (U \ {z}) \ {c})
  BY <1>2, <1>4, <1>6, <1>7
<1>9. (U \ {c}) \ {z} = (U \ {z}) \ {c}
  OBVIOUS
<1>10. SumOn(f, (U \ {z}) \ {c}) \in Int
  BY <1>4, FS_Subset, SumIsInt
<1>11. f[c] \in Int /\ f[z] \in Int
  BY <1>4
<1>12. PICK a, b, total, less : /\ a = f[c] /\ b = f[z] /\ total = SumOn(f, U)
                                /\ less = SumOn(f, U \ {z})
  OBVIOUS
<1>13. PICK rest \in Int : rest = SumOn(f, (U \ {z}) \ {c})
  BY <1>10
<1>14. total = a + (b + rest) /\ less = a + rest
  BY <1>5, <1>8, <1>9, <1>12, <1>13
<1>15. total = b + less
  BY <1>11, <1>12, <1>13, <1>14
<1>. QED BY <1>2, <1>12, <1>15

(* Elements that count for nothing may be left out.                         *)
LEMMA SumOfSupport ==
    ASSUME NEW S, IsFiniteSet(S), NEW f, \A x \in S : f[x] \in Int,
           NEW T \in SUBSET S, \A x \in S \ T : f[x] = 0
    PROVE  SumOn(f, S) = SumOn(f, T)
<1>. DEFINE Bad == {U \in SUBSET S : SumOn(f, U) # SumOn(f, U \cap T)}
<1>1. Bad = {}
  <2>. SUFFICES ASSUME Bad # {} PROVE FALSE
    OBVIOUS
  <2>1. PICK U \in Bad : \A V \in Bad : V \subseteq U => V = U
    <3>1. Bad \subseteq SUBSET S
      OBVIOUS
    <3>. HIDE DEF Bad
    <3>. QED BY <3>1, SmallestSet
  <2>2. U \subseteq S /\ IsFiniteSet(U) /\ IsFiniteSet(U \cap T)
    BY FS_Subset
  <2>3. PICK x \in U : x \notin T
    <3>1. ASSUME U \subseteq T PROVE FALSE
      <4>1. U \cap T = U
        BY <3>1
      <4>. QED BY <2>1, <4>1
    <3>. QED BY <3>1
  <2>4. SumOn(f, U) = f[x] + SumOn(f, U \ {x})
    BY <2>2, <2>3, SumTakesOut
  <2>5. SumOn(f, U \ {x}) = SumOn(f, (U \ {x}) \cap T)
    BY <2>1, <2>3
  <2>6. (U \ {x}) \cap T = U \cap T /\ f[x] = 0
    BY <2>2, <2>3
  <2>7. SumOn(f, U \cap T) \in Int
    BY <2>2, SumIsInt
  <2>. QED BY <2>1, <2>4, <2>5, <2>6, <2>7
<1>2. S \cap T = T
  OBVIOUS
<1>. QED BY <1>1, <1>2

(* Terms that are near each other have sums that are, by the number of      *)
(* terms: b * w[x] is k * v[x] but for half of b.                           *)
LEMMA SumsNear ==
    ASSUME NEW S, IsFiniteSet(S), NEW v, NEW w, NEW b \in Int, NEW k \in Int,
           \A x \in S : /\ v[x] \in Int /\ w[x] \in Int
                        /\ 2 * (b * w[x]) - 2 * (k * v[x]) <= b
                        /\ 2 * (k * v[x]) - 2 * (b * w[x]) <= b
    PROVE  /\ 2 * (b * SumOn(w, S)) - 2 * (k * SumOn(v, S)) <= b * Cardinality(S)
           /\ 2 * (k * SumOn(v, S)) - 2 * (b * SumOn(w, S)) <= b * Cardinality(S)
<1>. DEFINE Good(U) ==
        /\ 2 * (b * SumOn(w, U)) - 2 * (k * SumOn(v, U)) <= b * Cardinality(U)
        /\ 2 * (k * SumOn(v, U)) - 2 * (b * SumOn(w, U)) <= b * Cardinality(U)
      Bad == {U \in SUBSET S : ~Good(U)}
<1>1. Bad = {}
  <2>. SUFFICES ASSUME Bad # {} PROVE FALSE
    OBVIOUS
  <2>1. PICK U \in Bad : \A V \in Bad : V \subseteq U => V = U
    <3>1. Bad \subseteq SUBSET S
      OBVIOUS
    <3>. HIDE DEF Bad
    <3>. QED BY <3>1, SmallestSet
  <2>2. U \subseteq S /\ IsFiniteSet(U)
    BY FS_Subset
  <2>3. CASE U = {}
    <3>1. SumOn(v, U) = 0 /\ SumOn(w, U) = 0 /\ Cardinality(U) = 0
      BY <2>3, SumOfNothing, FS_EmptySet
    <3>2. b * 0 = 0 /\ k * 0 = 0
      OBVIOUS
    <3>. QED BY <2>1, <3>1, <3>2
  <2>4. CASE U # {}
    <3>1. PICK x \in U : TRUE
      BY <2>4
    <3>2. PICK V : V = U \ {x}
      OBVIOUS
    <3>3. V \subseteq S /\ IsFiniteSet(V) /\ V # U /\ V \subseteq U
      BY <2>2, <3>1, <3>2, FS_Subset
    <3>4. Good(V)
      BY <2>1, <3>3
    <3>5. /\ SumOn(v, U) = v[x] + SumOn(v, V)
          /\ SumOn(w, U) = w[x] + SumOn(w, V)
      BY <2>2, <3>1, <3>2, SumTakesOut
    <3>6. PICK n \in Int : n = Cardinality(V) /\ Cardinality(U) = n + 1
      <4>1. Cardinality(V) \in Nat /\ Cardinality(U) \in Nat
        BY <2>2, <3>3, FS_CardinalityType
      <4>2. Cardinality(V) = Cardinality(U) - 1
        BY <2>2, <3>1, <3>2, FS_RemoveElement
      <4>. QED BY <4>1, <4>2
    <3>7. PICK sv \in Int, sw \in Int : sv = SumOn(v, V) /\ sw = SumOn(w, V)
      <4>1. SumOn(v, V) \in Int
        BY <3>3, SumIsInt
      <4>2. SumOn(w, V) \in Int
        BY <3>3, SumIsInt
      <4>. QED BY <4>1, <4>2
    <3>8. PICK p \in Int, q \in Int : p = v[x] /\ q = w[x]
      <4>1. v[x] \in Int /\ w[x] \in Int
        BY <2>2, <3>1
      <4>. QED BY <4>1
    <3>9. /\ 2 * (b * q) - 2 * (k * p) <= b
          /\ 2 * (k * p) - 2 * (b * q) <= b
      BY <2>2, <3>1, <3>8
    <3>10. /\ b * (q + sw) = b * q + b * sw
           /\ k * (p + sv) = k * p + k * sv
           /\ b * (n + 1) = b * n + b
      OBVIOUS
    <3>11. /\ b * q \in Int /\ b * sw \in Int /\ k * p \in Int /\ k * sv \in Int
           /\ b * n \in Int
      OBVIOUS
    <3>12. /\ 2 * (b * sw) - 2 * (k * sv) <= b * n
           /\ 2 * (k * sv) - 2 * (b * sw) <= b * n
      BY <3>4, <3>6, <3>7
    <3>13. Good(U)
      <4>1. /\ 2 * (b * (q + sw)) - 2 * (k * (p + sv)) <= b * (n + 1)
            /\ 2 * (k * (p + sv)) - 2 * (b * (q + sw)) <= b * (n + 1)
        BY <3>9, <3>10, <3>11, <3>12
      <4>. QED BY <3>5, <3>6, <3>7, <3>8, <4>1
    <3>. QED BY <2>1, <3>13
  <2>. QED BY <2>3, <2>4
<1>. QED BY <1>1

-----------------------------------------------------------------------------
(* Arithmetic. *)

LEMMA Division ==
    ASSUME NEW n \in Nat, NEW d \in Nat \ {0}
    PROVE  /\ n \div d \in Nat
           /\ d * (n \div d) <= n /\ n < d * (n \div d) + d
  OBVIOUS

(* What is rounded off is at most half of the divisor.                      *)
LEMMA RoundedOff ==
    ASSUME NEW n \in Int, NEW d \in Nat \ {0}
    PROVE  /\ DivideRound(n, d) \in Int
           /\ n >= 0 => DivideRound(n, d) \in Nat
           /\ 2 * (d * DivideRound(n, d)) - 2 * n <= d
           /\ 2 * n - 2 * (d * DivideRound(n, d)) <= d
<1>1. PICK a \in Nat : a = Abs(n)
  BY DEF Abs
<1>2. PICK m \in Nat, e \in Nat \ {0} : m = 2 * a + d /\ e = 2 * d
  OBVIOUS
<1>3. PICK q \in Nat : q = m \div e /\ e * q <= m /\ m < e * q + e
  BY Division
<1>4. e * q = 2 * (d * q)
  BY <1>2
<1>5. 2 * (d * q) <= 2 * a + d /\ 2 * a + d < 2 * (d * q) + 2 * d
  BY <1>2, <1>3, <1>4
<1>6. DivideRound(n, d) = IF n < 0 THEN -q ELSE q
  BY <1>1, <1>2, <1>3 DEF DivideRound
<1>7. d * (-q) = -(d * q) /\ d * q \in Int
  OBVIOUS
<1>8. CASE n < 0
  <2>1. a = -n
    BY <1>1, <1>8 DEF Abs
  <2>. QED BY <1>5, <1>6, <1>7, <1>8, <2>1
<1>9. CASE n >= 0
  <2>1. a = n
    BY <1>1, <1>9 DEF Abs
  <2>. QED BY <1>3, <1>5, <1>6, <1>7, <1>9, <2>1
<1>. QED BY <1>8, <1>9

-----------------------------------------------------------------------------
(* What is posted. *)

Amount == (Nat \ {0}) \cup {Nothing}

(* An event the replay can read: nothing it requires is missing.            *)
EventOK(e) ==
    /\ e.type \in OperationType
    /\ e.cash \in Nat
    /\ e.quantity \in Amount /\ e.relatedQuantity \in Amount /\ e.rate \in Amount
    /\ e.asset \in Assets \cup {Nothing} /\ e.related \in Assets \cup {Nothing}
    /\ Nothing \notin Required(e)

LEMMA KeptDecimal ==
    ASSUME NEW x \in Int \cup {Nothing}, PositiveDecimal(x), PositiveDecimal(Kept(x))
    PROVE  Kept(x) \in Amount /\ (Kept(x) = Nothing <=> x = Nothing)
<1>1. CASE x = Nothing
  BY <1>1 DEF Kept, Absent, Amount
<1>2. CASE x # Nothing
  <2>1. x \in Nat
    BY <1>2 DEF PositiveDecimal, Present
  <2>2. PICK m \in Nat, d \in Nat \ {0} : m = 2 * x + Precision /\ d = 2 * Precision
    BY <2>1, OperationRulesAssumptions
  <2>3. Kept(x) = m \div d
    BY <1>2, <2>2 DEF Kept, Absent
  <2>4. Kept(x) \in Nat
    BY <2>3, Division
  <2>. QED BY <1>2, <2>4, PortfolioReplayAssumptions DEF PositiveDecimal, Present, Amount
<1>. QED BY <1>1, <1>2

(* What the columns do to a request. *)
LEMMA StoredFields ==
    ASSUME NEW q, q = [field \in Fields |-> q[field]]
    PROVE  LET r == Stored(q)
           IN  /\ r.quantity = Kept(q.quantity) /\ r.relatedQuantity = Kept(q.relatedQuantity)
               /\ r.rate = Kept(q.rate)
               /\ r.type = q.type /\ r.asset = q.asset /\ r.related = q.related
               /\ r.cash = q.cash /\ r.currency = q.currency
  BY DEF Stored, Fields

LEMMA CandidateFields ==
    ASSUME NEW q \in Payloads
    PROVE  LET c == Candidate(q)
           IN  /\ c = [field \in Fields |-> c[field]] /\ c.type \in OperationType
               /\ c.cash \in Int
               /\ {c.quantity, c.relatedQuantity, c.rate} \subseteq Int \cup {Nothing}
  BY PortfolioReplayAssumptions DEF Candidate, Fields, OperationType, FreeForm

LEMMA AcceptedEventOK ==
    ASSUME NEW q \in Payloads, Accepted(q)
    PROVE  EventOK(Event(q))
<1>1. PICK c : c = Candidate(q)
  OBVIOUS
<1>2. /\ c = [field \in Fields |-> c[field]] /\ c.type \in OperationType
      /\ c.cash \in Int
      /\ c.quantity \in Int \cup {Nothing} /\ c.relatedQuantity \in Int \cup {Nothing}
      /\ c.rate \in Int \cup {Nothing}
  BY <1>1, CandidateFields
<1>3. PICK r : r = Stored(c)
  OBVIOUS
<1>4. /\ r.quantity = Kept(c.quantity) /\ r.relatedQuantity = Kept(c.relatedQuantity)
      /\ r.rate = Kept(c.rate)
      /\ r.type = c.type /\ r.asset = c.asset /\ r.related = c.related
      /\ r.cash = c.cash /\ r.currency = c.currency
  BY <1>2, <1>3, StoredFields
<1>5. ServiceAccepts(c) /\ TableAccepts(r)
  BY <1>1, <1>3 DEF Accepted
<1>6. CommonRules(c) /\ TypeRules(c) /\ ValidReferences(c) /\ ChecksOnValues(r)
  BY <1>5 DEF ServiceAccepts, ValidPayload, TableAccepts
<1>7. r.quantity \in Amount /\ (r.quantity = Nothing <=> c.quantity = Nothing)
  BY <1>2, <1>4, <1>6, KeptDecimal DEF CommonRules, ChecksOnValues
<1>8. /\ r.relatedQuantity \in Amount
      /\ r.relatedQuantity = Nothing <=> c.relatedQuantity = Nothing
  BY <1>2, <1>4, <1>6, KeptDecimal DEF CommonRules, ChecksOnValues
<1>9. r.rate \in Amount
  BY <1>2, <1>4, <1>6, KeptDecimal DEF CommonRules, ChecksOnValues
<1>10. r.cash \in Nat /\ r.type \in OperationType
  BY <1>2, <1>4, <1>6 DEF CommonRules
<1>11. r.asset \in Assets \cup {Nothing} /\ r.related \in Assets \cup {Nothing}
  BY <1>4, <1>6, OperationRulesAssumptions
  DEF ValidReferences, ActiveReference, Present
<1>12. PICK e : e = Event(q)
  OBVIOUS
<1>13. /\ e.type = r.type /\ e.asset = r.asset /\ e.related = r.related
       /\ e.quantity = r.quantity /\ e.relatedQuantity = r.relatedQuantity
       /\ e.cash = r.cash /\ e.rate = r.rate
  BY <1>1, <1>3, <1>12 DEF Event
<1>14. Nothing \notin Required(e)
  <2>1. CASE e.type \in Trades \cup {"split"}
    BY <1>4, <1>6, <1>7, <1>13, <2>1
    DEF TypeRules, Required, Trades, Corporate, RequiredDecimal, Present
  <2>2. CASE e.type = "spin_off"
    BY <1>4, <1>6, <1>8, <1>13, <2>2
    DEF TypeRules, Required, Trades, RequiredDecimal, Present
  <2>3. CASE e.type = "symbol_change"
    BY <1>4, <1>6, <1>7, <1>13, <2>3
    DEF TypeRules, Required, Trades, Corporate, RequiredDecimal, Present
  <2>4. CASE e.type \notin Trades \cup {"split", "spin_off", "symbol_change"}
    BY <2>4 DEF Required
  <2>. QED BY <2>1, <2>2, <2>3, <2>4
<1>. QED BY <1>7, <1>8, <1>9, <1>10, <1>11, <1>12, <1>13, <1>14 DEF EventOK

-----------------------------------------------------------------------------
(* What the table refuses of what the service accepts. *)

(* A value that the type has no use for, and the service does not look at.  *)
Stray(q) ==
    /\ q.type \notin FreeForm
    /\ \/ Present(q.related) /\ q.type \notin {"spin_off", "symbol_change"}
       \/ Present(q.quantity) /\ q.type \notin Trades \cup Corporate
       \/ Present(q.relatedQuantity) /\ q.type # "spin_off"
       \/ Present(q.price) /\ q.type \notin Trades

(* A decimal that the column rounds to zero. *)
Vanishes(decimal) == Present(decimal) /\ 2 * decimal < Precision

Refused(q) ==
    Stray(q) \/ Vanishes(q.quantity) \/ Vanishes(q.relatedQuantity) \/ Vanishes(q.rate)

LEMMA KeptOrVanished ==
    ASSUME NEW x \in Int \cup {Nothing}, PositiveDecimal(x)
    PROVE  /\ Present(Kept(x)) <=> Present(x)
           /\ PositiveDecimal(Kept(x)) <=> ~Vanishes(x)
<1>1. CASE x = Nothing
  BY <1>1 DEF Kept, Absent, Present, PositiveDecimal, Vanishes
<1>2. CASE x # Nothing
  <2>1. x \in Nat /\ Precision \in Nat \ {0}
    BY <1>2, OperationRulesAssumptions DEF PositiveDecimal, Present
  <2>2. PICK m \in Nat, d \in Nat \ {0} : m = 2 * x + Precision /\ d = 2 * Precision
    BY <2>1
  <2>3. Kept(x) = m \div d
    BY <1>2, <2>2 DEF Kept, Absent
  <2>4. PICK k \in Nat : k = m \div d /\ d * k <= m /\ m < d * k + d
    BY Division
  <2>5. k > 0 <=> m >= d
    <3>1. CASE k = 0
      BY <2>4, <3>1
    <3>2. CASE k > 0
      <4>1. PICK j \in Nat : k = j + 1
        BY <2>4, <3>2
      <4>2. d * k = d * j + d /\ d * j \in Nat
        BY <4>1
      <4>. QED BY <2>4, <3>2, <4>2
    <3>. QED BY <2>4, <3>1, <3>2
  <2>6. m >= d <=> ~(2 * x < Precision)
    BY <2>1, <2>2
  <2>7. k # Nothing
    BY <2>4, PortfolioReplayAssumptions
  <2>. QED BY <1>2, <2>3, <2>4, <2>5, <2>6, <2>7 DEF Present, PositiveDecimal, Vanishes
<1>. QED BY <1>1, <1>2

LEMMA RefusedFields ==
    ASSUME NEW q, q = [field \in Fields |-> q[field]]
    PROVE  /\ Stored(q).price = q.price /\ Stored(q).gross = q.gross
           /\ Stored(q).corrects = q.corrects
  BY DEF Stored, Fields

(* The CHECK constraints are a second validation, and this is all that they *)
(* add to the service's: of the requests that it accepts, those fail, with  *)
(* an internal error for an answer, that carry a value which their type has *)
(* no use for (a quantity with a deposit) or a decimal that the column      *)
(* rounds to zero.                                                          *)
THEOREM TableRefusesExactly ==
    ASSUME NEW q \in Payloads, ServiceAccepts(Candidate(q))
    PROVE  Accepted(q) <=> ~Refused(Candidate(q))
<1>1. PICK c : c = Candidate(q)
  OBVIOUS
<1>2. /\ c = [field \in Fields |-> c[field]] /\ c.type \in OperationType
      /\ c.cash \in Int
      /\ c.quantity \in Int \cup {Nothing} /\ c.relatedQuantity \in Int \cup {Nothing}
      /\ c.rate \in Int \cup {Nothing}
  BY <1>1, CandidateFields
<1>3. PICK r : r = Stored(c)
  OBVIOUS
<1>4. /\ r.quantity = Kept(c.quantity) /\ r.relatedQuantity = Kept(c.relatedQuantity)
      /\ r.rate = Kept(c.rate)
      /\ r.type = c.type /\ r.asset = c.asset /\ r.related = c.related /\ r.cash = c.cash
      /\ r.price = c.price /\ r.gross = c.gross /\ r.corrects = c.corrects
  BY <1>2, <1>3, StoredFields, RefusedFields
<1>5. CommonRules(c) /\ TypeRules(c)
  BY <1>1 DEF ServiceAccepts, ValidPayload
<1>6. /\ PositiveDecimal(c.quantity) /\ PositiveDecimal(c.relatedQuantity) /\ PositiveDecimal(c.rate)
      /\ NonNegative(c.price) /\ NonNegative(c.gross) /\ c.cash >= 0
      /\ Present(c.corrects) => c.type = "adjustment"
  BY <1>5 DEF CommonRules
<1>7. /\ Present(r.quantity) <=> Present(c.quantity)
      /\ Present(r.relatedQuantity) <=> Present(c.relatedQuantity)
  BY <1>2, <1>4, <1>6, KeptOrVanished
<1>8. ChecksOnValues(r) <=>
          ~Vanishes(c.quantity) /\ ~Vanishes(c.relatedQuantity) /\ ~Vanishes(c.rate)
  <2>1. /\ PositiveDecimal(r.quantity) <=> ~Vanishes(c.quantity)
        /\ PositiveDecimal(r.relatedQuantity) <=> ~Vanishes(c.relatedQuantity)
        /\ PositiveDecimal(r.rate) <=> ~Vanishes(c.rate)
    BY <1>2, <1>4, <1>6, KeptOrVanished
  <2>. QED BY <1>4, <1>6, <2>1 DEF ChecksOnValues
<1>9. ChecksOnPresence(r) <=> ~Stray(c)
  <2>. USE <1>2, <1>4, <1>5, <1>7
  <2>1. CASE c.type \in FreeForm
    BY <2>1 DEF ChecksOnPresence, Stray
  <2>2. CASE c.type \in Trades
    BY <2>2 DEF ChecksOnPresence, Stray, TypeRules, Trades, CashOnly, Corporate, FreeForm,
                PositiveAmount, RequiredAmount, RequiredDecimal, Present, Absent
  <2>3. CASE c.type \in CashOnly \cup {"dividend"}
    BY <2>3 DEF ChecksOnPresence, Stray, TypeRules, Trades, CashOnly, Corporate, FreeForm,
                PositiveAmount, RequiredAmount, RequiredDecimal, Present, Absent
  <2>4. CASE c.type \in Corporate
    BY <2>4 DEF ChecksOnPresence, Stray, TypeRules, Trades, CashOnly, Corporate, FreeForm,
                PositiveAmount, RequiredAmount, RequiredDecimal, Present, Absent
  <2>. QED BY <2>1, <2>2, <2>3, <2>4 DEF OperationType
<1>. QED BY <1>1, <1>3, <1>8, <1>9 DEF Accepted, TableAccepts, Refused

-----------------------------------------------------------------------------
(* What is posted can be read. *)

LEMMA PostedEventOK == \A e \in PostedEvents : EventOK(e)
<1>1. \A e \in AcceptedEvents : EventOK(e)
  BY AcceptedEventOK DEF AcceptedEvents
<1>2. ASSUME NEW d \in AcceptedEvents PROVE EventOK([d EXCEPT !.rate = Nothing])
  <2>1. PICK q \in Payloads : d = Event(q)
    BY DEF AcceptedEvents
  <2>2. PICK e : e = [d EXCEPT !.rate = Nothing]
    OBVIOUS
  <2>3. /\ e.type = d.type /\ e.asset = d.asset /\ e.related = d.related
        /\ e.quantity = d.quantity /\ e.relatedQuantity = d.relatedQuantity
        /\ e.cash = d.cash /\ e.rate = Nothing
    BY <2>1, <2>2 DEF Event
  <2>. QED BY <1>1, <2>2, <2>3 DEF EventOK, Required, Amount
<1>. QED BY <1>1, <1>2 DEF PostedEvents

-----------------------------------------------------------------------------
(* States of the replay. *)

Positions == [quantity : Nat, invested : Nat]

PositionsOK(positions) ==
    /\ positions = [a \in DOMAIN positions |-> positions[a]]
    /\ IsFiniteSet(DOMAIN positions) /\ DOMAIN positions \subseteq Assets
    /\ \A a \in DOMAIN positions : positions[a] \in Positions

(* No position is ever below zero, nor what was invested in it; the only    *)
(* error is a sale of more than there is.                                   *)
StateOK(s) ==
    /\ s \in [cash : Int, invested : Int, estimated : BOOLEAN, error : {"none", "oversell"},
               positions : {s.positions}]
    /\ PositionsOK(s.positions)

LEMMA InitialStateOK == StateOK(InitialState)
<1>1. PositionsOK(InitialState.positions)
  BY FS_EmptySet DEF PositionsOK, InitialState
<1>. QED BY <1>1 DEF StateOK, InitialState

LEMMA LargerType ==
    ASSUME NEW m \in Int, NEW n \in Int
    PROVE  Larger(m, n) \in Int /\ Larger(m, n) >= m /\ Larger(m, n) >= n
  BY DEF Larger

(* The steps that move cash or set a flag.                                  *)
LEMMA CashSteps ==
    ASSUME NEW s, StateOK(s), NEW c \in Int
    PROVE  /\ StateOK(Receive(s, c)) /\ StateOK(Pay(s, c))
           /\ StateOK(Contribute(s, c)) /\ StateOK(Withdraw(s, c))
           /\ StateOK(Estimated(s)) /\ StateOK(Failed(s, "oversell"))
           /\ Receive(s, c).cash = s.cash + c /\ Pay(s, c).cash = s.cash - c
           /\ Contribute(s, c).cash = s.cash /\ Withdraw(s, c).cash = s.cash
           /\ Estimated(s).cash = s.cash /\ Failed(s, "oversell").cash = s.cash
           /\ Receive(s, c).estimated = s.estimated /\ Pay(s, c).estimated = s.estimated
           /\ Contribute(s, c).estimated = s.estimated /\ Withdraw(s, c).estimated = s.estimated
           /\ Estimated(s).estimated /\ Failed(s, "oversell").estimated = s.estimated
<1>1. s.cash \in Int /\ s.invested \in Int /\ s.invested - c \in Int
  BY DEF StateOK
<1>2. PICK w \in Int : w = Larger(s.invested - c, 0)
  BY <1>1 DEF Larger
<1>3. /\ StateOK([s EXCEPT !.invested = w]) /\ [s EXCEPT !.invested = w].cash = s.cash
      /\ [s EXCEPT !.invested = w].estimated = s.estimated
  BY DEF StateOK
<1>4. Withdraw(s, c) = [s EXCEPT !.invested = w]
  BY <1>2 DEF Withdraw
<1>5. /\ StateOK(Receive(s, c)) /\ Receive(s, c).cash = s.cash + c
      /\ Receive(s, c).estimated = s.estimated
  BY <1>1 DEF StateOK, Receive
<1>6. /\ StateOK(Pay(s, c)) /\ Pay(s, c).cash = s.cash - c
      /\ Pay(s, c).estimated = s.estimated
  BY <1>1 DEF StateOK, Pay
<1>7. /\ StateOK(Contribute(s, c)) /\ Contribute(s, c).cash = s.cash
      /\ Contribute(s, c).estimated = s.estimated
  BY <1>1 DEF StateOK, Contribute
<1>8. /\ StateOK(Estimated(s)) /\ Estimated(s).cash = s.cash /\ Estimated(s).estimated
      /\ StateOK(Failed(s, "oversell")) /\ Failed(s, "oversell").cash = s.cash
      /\ Failed(s, "oversell").estimated = s.estimated
  BY DEF StateOK, Estimated, Failed
<1>. QED BY <1>3, <1>4, <1>5, <1>6, <1>7, <1>8

(* A step that leaves cash and flag alone.                                  *)
Neutral(s, t) == StateOK(t) /\ t.cash = s.cash /\ t.estimated = s.estimated

LEMMA WithPositionOK ==
    ASSUME NEW s, StateOK(s), NEW a \in Assets, NEW position \in Positions
    PROVE  Neutral(s, WithPosition(s, a, position))
<1>1. PICK old, new :
          /\ old = s.positions
          /\ new = [b \in {a} \cup DOMAIN old |-> IF b = a THEN position ELSE old[b]]
  OBVIOUS
<1>2. PositionsOK(old) /\ s.positions = old
  BY <1>1 DEF StateOK
<1>3. PositionsOK(new)
  <2>1. IsFiniteSet({a} \cup DOMAIN old)
    BY <1>2, FS_AddElement DEF PositionsOK
  <2>. QED BY <1>1, <1>2, <2>1 DEF PositionsOK
<1>4. WithPosition(s, a, position) = [s EXCEPT !.positions = new]
  BY <1>1 DEF WithPosition, StateOK
<1>5. StateOK([s EXCEPT !.positions = new])
  BY <1>3 DEF StateOK
<1>. QED BY <1>4, <1>5 DEF Neutral, StateOK

LEMMA PositionType ==
    ASSUME NEW s, StateOK(s), NEW a PROVE Position(s, a) \in Positions
  BY DEF StateOK, PositionsOK, Position, Positions, NoPosition

LEMMA IncreaseOK ==
    ASSUME NEW s, StateOK(s), NEW a \in Assets, NEW n \in Nat, NEW cost \in Int
    PROVE  Neutral(s, IncreasePosition(s, a, n, cost))
<1>1. Position(s, a) \in Positions
  BY PositionType
<1>2. Larger(cost, 0) \in Nat
  BY LargerType
<1>3. [quantity |-> Position(s, a).quantity + n,
       invested |-> Position(s, a).invested + Larger(cost, 0)] \in Positions
  BY <1>1, <1>2 DEF Positions
<1>. QED BY <1>3, WithPositionOK DEF IncreasePosition

LEMMA CostReductionType ==
    ASSUME NEW position \in Positions, NEW n \in Nat
    PROVE  CostReduction(position, n) \in Int
<1>1. PICK q \in Nat, i \in Nat : q = position.quantity /\ i = position.invested
  BY DEF Positions
<1>2. i * n \in Int
  OBVIOUS
<1>3. q > 0 => DivideRound(i * n, q) \in Int
  BY <1>2, RoundedOff
<1>. QED BY <1>1, <1>3 DEF CostReduction

LEMMA ReduceOK ==
    ASSUME NEW s, StateOK(s), NEW a, NEW n \in Nat
    PROVE  Neutral(s, ReducePosition(s, a, n))
<1>1. CASE ~CanReduce(s, a, n)
  BY <1>1, CashSteps DEF ReducePosition, Neutral
<1>2. CASE CanReduce(s, a, n)
  <2>1. PICK old \in Positions : old = s.positions[a]
    BY <1>2 DEF CanReduce, StateOK, PositionsOK
  <2>2. a \in Assets /\ old.quantity >= n
    BY <1>2, <2>1 DEF CanReduce, StateOK, PositionsOK
  <2>3. CostReduction(old, n) \in Int
    BY CostReductionType
  <2>4. Larger(old.invested - CostReduction(old, n), 0) \in Nat
    <3>1. old.invested - CostReduction(old, n) \in Int
      BY <2>3 DEF Positions
    <3>. QED BY <3>1 DEF Larger
  <2>5. old.quantity - n \in Nat
    BY <2>2 DEF Positions
  <2>6. [quantity |-> old.quantity - n,
         invested |-> Larger(old.invested - CostReduction(old, n), 0)] \in Positions
    BY <2>4, <2>5 DEF Positions
  <2>. QED BY <1>2, <2>1, <2>2, <2>6, WithPositionOK DEF ReducePosition
<1>. QED BY <1>1, <1>2

LEMMA OptionalLegs ==
    ASSUME NEW s, StateOK(s), NEW a \in Assets \cup {Nothing}, NEW n \in Amount,
           NEW cost \in Int
    PROVE  /\ Neutral(s, IncreaseIfGiven(s, a, n, cost))
           /\ Neutral(s, ReduceIfGiven(s, a, n))
<1>1. Neutral(s, s)
  BY DEF Neutral
<1>2. Present(n) => n \in Nat
  BY DEF Present, Amount
<1>. QED BY <1>1, <1>2, IncreaseOK, ReduceOK DEF IncreaseIfGiven, ReduceIfGiven, Present

LEMMA NeutralTwice ==
    ASSUME NEW s, NEW t, NEW u, Neutral(s, t), Neutral(t, u) PROVE Neutral(s, u)
  BY DEF Neutral

LEMMA SymbolChangeOK ==
    ASSUME NEW s, StateOK(s), NEW e, EventOK(e), e.type = "symbol_change"
    PROVE  Neutral(s, SymbolChange(s, e))
<1>1. /\ e.asset \in Assets /\ e.related \in Assets /\ e.quantity \in Nat
  BY DEF EventOK, Required, Trades, Amount
<1>2. CASE ~CanReduce(s, e.asset, e.quantity)
  BY <1>2, CashSteps DEF SymbolChange, Neutral
<1>3. CASE CanReduce(s, e.asset, e.quantity)
  <2>1. s.positions[e.asset] \in Positions
    BY <1>3 DEF CanReduce, StateOK, PositionsOK
  <2>2. CostReduction(s.positions[e.asset], e.quantity) \in Int
    BY <1>1, <2>1, CostReductionType
  <2>3. PICK t : t = ReducePosition(s, e.asset, e.quantity)
    OBVIOUS
  <2>4. Neutral(s, t) /\ StateOK(t)
    BY <1>1, <2>3, ReduceOK DEF Neutral
  <2>5. Neutral(t, IncreasePosition(t, e.related, e.quantity,
                       CostReduction(s.positions[e.asset], e.quantity)))
    BY <1>1, <2>2, <2>4, IncreaseOK
  <2>6. Neutral(s, IncreasePosition(t, e.related, e.quantity,
                       CostReduction(s.positions[e.asset], e.quantity)))
    BY <2>4, <2>5, NeutralTwice
  <2>. QED BY <1>3, <2>3, <2>6 DEF SymbolChange
<1>. QED BY <1>2, <1>3

(* What an operation does to the cash, and when it is an estimate.          *)
Moves(e, c) ==
    IF e.type \in Inflow THEN c ELSE IF e.type \in Outflow THEN -c ELSE 0

LEMMA ApplyLegsOK ==
    ASSUME NEW s, StateOK(s), NEW e, EventOK(e), NEW c \in Int
    PROVE  LET t == ApplyLegs(s, e, c)
           IN  /\ StateOK(t) /\ t.cash = s.cash + Moves(e, c)
               /\ t.estimated = (s.estimated \/ e.type \in {"split", "spin_off"})
<1>. DEFINE Good(t) == /\ StateOK(t) /\ t.cash = s.cash + Moves(e, c)
                       /\ t.estimated = (s.estimated \/ e.type \in {"split", "spin_off"})
<1>1. /\ e.asset \in Assets \cup {Nothing} /\ e.related \in Assets \cup {Nothing}
      /\ e.quantity \in Amount /\ e.relatedQuantity \in Amount
      /\ e.type \in Trades \cup {"split", "symbol_change"} =>
            e.asset \in Assets /\ e.quantity \in Nat
      /\ e.type = "spin_off" => e.related \in Assets /\ e.relatedQuantity \in Nat
  BY DEF EventOK, Required, Trades, Amount
<1>2. s.cash \in Int /\ s.estimated \in BOOLEAN
  BY DEF StateOK
<1>3. PICK r, p, gained, spent : /\ r = Receive(s, c) /\ p = Pay(s, c)
                                 /\ gained = Contribute(r, c) /\ spent = Withdraw(p, c)
  OBVIOUS
<1>4. /\ StateOK(r) /\ r.cash = s.cash + c /\ r.estimated = s.estimated
      /\ StateOK(p) /\ p.cash = s.cash - c /\ p.estimated = s.estimated
  BY <1>3, CashSteps
<1>5. /\ StateOK(gained) /\ gained.cash = s.cash + c /\ gained.estimated = s.estimated
      /\ StateOK(spent) /\ spent.cash = s.cash - c /\ spent.estimated = s.estimated
  BY <1>3, <1>4, CashSteps
<1>. SUFFICES Good(ApplyLegs(s, e, c))
  OBVIOUS
<1>6. CASE e.type = "deposit"
  BY <1>2, <1>3, <1>5, <1>6 DEF ApplyLegs, Moves, Inflow
<1>7. CASE e.type = "withdrawal"
  BY <1>2, <1>3, <1>5, <1>7 DEF ApplyLegs, Moves, Inflow, Outflow
<1>8. CASE e.type = "buy"
  <2>1. PICK t : t = IncreasePosition(s, e.asset, e.quantity, c)
    OBVIOUS
  <2>2. Neutral(s, t)
    BY <1>1, <1>8, <2>1, IncreaseOK DEF Trades
  <2>3. StateOK(Pay(t, c)) /\ Pay(t, c).cash = t.cash - c /\ Pay(t, c).estimated = t.estimated
    BY <2>2, CashSteps DEF Neutral
  <2>4. ApplyLegs(s, e, c) = Pay(t, c)
    BY <1>8, <2>1 DEF ApplyLegs
  <2>. QED BY <1>2, <1>8, <2>2, <2>3, <2>4 DEF Neutral, Moves, Inflow, Outflow
<1>9. CASE e.type = "sell"
  <2>1. PICK t : t = ReducePosition(s, e.asset, e.quantity)
    OBVIOUS
  <2>2. Neutral(s, t)
    BY <1>1, <1>9, <2>1, ReduceOK DEF Trades
  <2>3. /\ StateOK(Receive(t, c)) /\ Receive(t, c).cash = t.cash + c
        /\ Receive(t, c).estimated = t.estimated
    BY <2>2, CashSteps DEF Neutral
  <2>4. ApplyLegs(s, e, c) = Receive(t, c)
    BY <1>9, <2>1 DEF ApplyLegs
  <2>. QED BY <1>2, <1>9, <2>2, <2>3, <2>4 DEF Neutral, Moves, Inflow
<1>10. CASE e.type \in {"dividend", "interest"}
  BY <1>2, <1>3, <1>4, <1>10 DEF ApplyLegs, Moves, Inflow
<1>11. CASE e.type \in {"fee", "tax"}
  BY <1>2, <1>3, <1>4, <1>11 DEF ApplyLegs, Moves, Inflow, Outflow
<1>12. CASE e.type = "transfer_in"
  <2>1. PICK t : t = IncreaseIfGiven(gained, e.asset, e.quantity, c)
    OBVIOUS
  <2>2. Neutral(gained, t)
    BY <1>1, <1>5, <2>1, OptionalLegs
  <2>3. ApplyLegs(s, e, c) = t
    BY <1>3, <1>12, <2>1 DEF ApplyLegs
  <2>. QED BY <1>2, <1>5, <1>12, <2>2, <2>3 DEF Neutral, Moves, Inflow
<1>13. CASE e.type = "transfer_out"
  <2>1. PICK t : t = ReduceIfGiven(spent, e.asset, e.quantity)
    OBVIOUS
  <2>2. Neutral(spent, t)
    BY <1>1, <1>5, <2>1, OptionalLegs
  <2>3. ApplyLegs(s, e, c) = t
    BY <1>3, <1>13, <2>1 DEF ApplyLegs
  <2>. QED BY <1>2, <1>5, <1>13, <2>2, <2>3 DEF Neutral, Moves, Inflow, Outflow
<1>14. CASE e.type = "split"
  <2>1. PICK t : t = IncreasePosition(s, e.asset, e.quantity, 0)
    OBVIOUS
  <2>2. Neutral(s, t)
    BY <1>1, <1>14, <2>1, IncreaseOK
  <2>3. StateOK(Estimated(t)) /\ Estimated(t).cash = t.cash /\ Estimated(t).estimated = TRUE
    BY <2>2, CashSteps DEF Neutral, StateOK
  <2>4. ApplyLegs(s, e, c) = Estimated(t)
    BY <1>14, <2>1 DEF ApplyLegs
  <2>5. Moves(e, c) = 0 /\ s.cash + 0 = s.cash
    BY <1>2, <1>14 DEF Moves, Inflow, Outflow
  <2>6. (s.estimated \/ e.type \in {"split", "spin_off"}) = TRUE
    BY <1>2, <1>14
  <2>. QED BY <2>2, <2>3, <2>4, <2>5, <2>6 DEF Neutral
<1>15. CASE e.type = "spin_off"
  <2>1. PICK t : t = IncreasePosition(s, e.related, e.relatedQuantity, 0)
    OBVIOUS
  <2>2. Neutral(s, t)
    BY <1>1, <1>15, <2>1, IncreaseOK
  <2>3. StateOK(Estimated(t)) /\ Estimated(t).cash = t.cash /\ Estimated(t).estimated = TRUE
    BY <2>2, CashSteps DEF Neutral, StateOK
  <2>4. ApplyLegs(s, e, c) = Estimated(t)
    BY <1>15, <2>1 DEF ApplyLegs
  <2>5. Moves(e, c) = 0 /\ s.cash + 0 = s.cash
    BY <1>2, <1>15 DEF Moves, Inflow, Outflow
  <2>6. (s.estimated \/ e.type \in {"split", "spin_off"}) = TRUE
    BY <1>2, <1>15
  <2>. QED BY <2>2, <2>3, <2>4, <2>5, <2>6 DEF Neutral
<1>16. CASE e.type = "symbol_change"
  <2>1. Neutral(s, SymbolChange(s, e))
    BY <1>16, SymbolChangeOK
  <2>2. ApplyLegs(s, e, c) = SymbolChange(s, e)
    BY <1>16 DEF ApplyLegs
  <2>. QED BY <1>2, <1>16, <2>1, <2>2 DEF Neutral, Moves, Inflow, Outflow
<1>17. CASE e.type = "adjustment"
  <2>1. PICK t, u : /\ t = IncreaseIfGiven(r, e.asset, e.quantity, c)
                    /\ u = ReduceIfGiven(t, e.related, e.relatedQuantity)
    OBVIOUS
  <2>2. Neutral(r, t)
    BY <1>1, <1>4, <2>1, OptionalLegs
  <2>3. Neutral(t, u)
    BY <1>1, <2>1, <2>2, OptionalLegs DEF Neutral
  <2>4. ApplyLegs(s, e, c) = u
    BY <1>3, <1>17, <2>1 DEF ApplyLegs
  <2>. QED BY <1>2, <1>4, <1>17, <2>2, <2>3, <2>4 DEF Neutral, Moves, Inflow
<1>. QED BY <1>6, <1>7, <1>8, <1>9, <1>10, <1>11, <1>12, <1>13, <1>14, <1>15, <1>16, <1>17
     DEF EventOK, OperationType, Trades, CashOnly, Corporate, FreeForm

LEMMA ConvertedCashType ==
    ASSUME NEW e, EventOK(e) PROVE ConvertedCash(e) \in Int
<1>1. Present(e.rate) => e.cash * e.rate \in Int
  BY DEF EventOK, Amount, Present
<1>2. Present(e.rate) => DivideRound(e.cash * e.rate, RateUnit) \in Int
  BY <1>1, RoundedOff, PortfolioReplayAssumptions
<1>. QED BY <1>2 DEF ConvertedCash, EventOK, Present, Absent

(* One step of the replay.                                                  *)
LEMMA ApplyOK ==
    ASSUME NEW s, StateOK(s), NEW e, EventOK(e)
    PROVE  LET t == Apply(s, e)
           IN  /\ StateOK(t)
               /\ t.error = "none" =>
                     /\ s.error = "none"
                     /\ t.cash = s.cash + Moves(e, ConvertedCash(e))
                     /\ t.estimated = (s.estimated \/ ~Converts(e)
                                       \/ e.type \in {"split", "spin_off"})
<1>1. CASE s.error # "none"
  BY <1>1 DEF Apply
<1>2. CASE s.error = "none"
  <2>1. PICK u : u = [s EXCEPT !.estimated = @ \/ ~Converts(e)]
    OBVIOUS
  <2>2. /\ StateOK(u) /\ u.cash = s.cash
        /\ u.estimated = (s.estimated \/ ~Converts(e))
    BY <2>1 DEF StateOK
  <2>3. Apply(s, e) = ApplyLegs(u, e, ConvertedCash(e))
    BY <1>2, <2>1 DEF Apply, EventOK
  <2>8. PICK c \in Int : c = ConvertedCash(e)
    BY ConvertedCashType
  <2>4. PICK t : c = ConvertedCash(e) /\ t = ApplyLegs(u, e, c)
    BY <2>8
  <2>5. /\ StateOK(t) /\ t.cash = u.cash + Moves(e, c)
        /\ t.estimated = (u.estimated \/ e.type \in {"split", "spin_off"})
    BY <2>2, <2>4, ApplyLegsOK
  <2>6. Apply(s, e) = t
    BY <2>3, <2>4
  <2>7. t.estimated = (s.estimated \/ ~Converts(e) \/ e.type \in {"split", "spin_off"})
    BY <2>2, <2>5
  <2>. QED BY <1>2, <2>2, <2>4, <2>5, <2>6, <2>7
<1>. QED BY <1>1, <1>2

-----------------------------------------------------------------------------
(* The replay as a sequence of states. *)

LEMMA MaxOfPrefix ==
    ASSUME NEW n \in Nat \ {0} PROVE Max(1 .. n) = n /\ (1 .. n) \ {n} = 1 .. (n - 1)
<1>1. n \in 1 .. n /\ \A m \in 1 .. n : n >= m
  OBVIOUS
<1>2. \A x \in 1 .. n : (\A m \in 1 .. n : x >= m) => x = n
  OBVIOUS
<1>. QED BY <1>1, <1>2 DEF Max

LEMMA MaxIsElement ==
    ASSUME NEW n \in Nat, NEW s \in SUBSET (1 .. n), s # {} PROVE Max(s) \in s
<1>. DEFINE T == {n - x : x \in s}
<1>1. T \subseteq Nat /\ T # {}
  <2>1. \A x \in s : x \in Int /\ n - x \in Nat
    OBVIOUS
  <2>. QED BY <2>1
<1>2. PICK t \in T : \A m \in T : t <= m
  <2>. HIDE DEF T
  <2>. QED BY <1>1, LeastNumber
<1>3. PICK x \in s : t = n - x
  BY <1>2
<1>4. ASSUME NEW y \in s PROVE x >= y
  <2>1. n - x <= n - y
    BY <1>2, <1>3
  <2>2. x \in Int /\ y \in Int
    OBVIOUS
  <2>. QED BY <2>1, <2>2
<1>. QED BY <1>3, <1>4 DEF Max

ReplaysAt(g, events, s) ==
    g[s] = IF s = {} THEN InitialState ELSE Apply(g[s \ {Max(s)}], events[Max(s)])

Replays(g, events, D) ==
    g = [s \in SUBSET D |->
            IF s = {} THEN InitialState ELSE Apply(g[s \ {Max(s)}], events[Max(s)])]

LEMMA ReplaysExists ==
    ASSUME NEW events, NEW n \in Nat
    PROVE  \E g : Replays(g, events, 1 .. n)
<1>. DEFINE D == 1 .. n
            Partial(k) ==
                \E g : \A s \in SUBSET D : Cardinality(s) <= k => ReplaysAt(g, events, s)
            Full == {k \in Nat : Partial(k)}
<1>1. /\ IsFiniteSet(D)
      /\ \A s \in SUBSET D : IsFiniteSet(s) /\ Cardinality(s) \in Nat
                             /\ Cardinality(s) <= Cardinality(D)
  <2>1. IsFiniteSet(D)
    BY FS_Interval
  <2>. HIDE DEF D
  <2>. QED BY <2>1, FS_Subset, FS_CardinalityType
<1>2. Partial(0)
  <2>. DEFINE g == [s \in SUBSET D |-> InitialState]
  <2>1. \A s \in SUBSET D : Cardinality(s) <= 0 => s = {}
    BY <1>1, FS_EmptySet
  <2>2. \A s \in SUBSET D : Cardinality(s) <= 0 => ReplaysAt(g, events, s)
    BY <2>1 DEF ReplaysAt
  <2>. QED BY <2>2
<1>3. ASSUME NEW k \in Nat, Partial(k) PROVE Partial(k + 1)
  <2>1. PICK g : \A s \in SUBSET D : Cardinality(s) <= k => ReplaysAt(g, events, s)
    BY <1>3
  <2>. DEFINE h == [s \in SUBSET D |->
                        IF s = {} THEN InitialState
                        ELSE Apply(g[s \ {Max(s)}], events[Max(s)])]
  <2>2. \A s \in SUBSET D : Cardinality(s) <= k => h[s] = g[s]
    BY <2>1 DEF ReplaysAt
  <2>3. ASSUME NEW s \in SUBSET D, Cardinality(s) <= k + 1, s # {}
        PROVE  h[s] = Apply(h[s \ {Max(s)}], events[Max(s)])
    <3>1. Max(s) \in s
      BY <2>3, MaxIsElement
    <3>2. PICK x : x = Max(s)
      OBVIOUS
    <3>3. Cardinality(s \ {x}) = Cardinality(s) - 1 /\ Cardinality(s) \in Nat
      BY <1>1, <3>1, <3>2, FS_RemoveElement
    <3>4. Cardinality(s \ {x}) <= k
      <4>1. PICK m \in Nat : m = Cardinality(s) /\ m <= k + 1
        BY <2>3, <3>3
      <4>. QED BY <3>3, <4>1
    <3>5. s \ {Max(s)} \in SUBSET D /\ Cardinality(s \ {Max(s)}) <= k
      BY <3>2, <3>4
    <3>. QED BY <2>2, <2>3, <3>5
  <2>. QED BY <2>3 DEF ReplaysAt
<1>4. Full = Nat
  <2>. HIDE DEF Partial
  <2>1. Full \subseteq Nat /\ 0 \in Full /\ \A k \in Full : k + 1 \in Full
    BY <1>2, <1>3
  <2>. HIDE DEF Full
  <2>. QED BY <2>1, AllNumbers
<1>5. Partial(Cardinality(D))
  BY <1>1, <1>4
<1>6. PICK g : \A s \in SUBSET D : ReplaysAt(g, events, s)
  BY <1>1, <1>5
<1>. DEFINE h == [s \in SUBSET D |-> g[s]]
<1>7. Replays(h, events, D)
  <2>1. ASSUME NEW s \in SUBSET D, s # {} PROVE g[s \ {Max(s)}] = h[s \ {Max(s)}]
    OBVIOUS
  <2>. QED BY <1>6, <2>1 DEF Replays, ReplaysAt
<1>. QED BY <1>7

(* state[n] is the state after the first n events.                          *)
StatesOf(state, events) ==
    /\ state[0] = InitialState
    /\ \A n \in 1 .. Len(events) : state[n] = Apply(state[n - 1], events[n])
    /\ Replayed(events) = state[Len(events)]

LEMMA ReplayHasStates ==
    ASSUME NEW events, Len(events) \in Nat, DOMAIN events = 1 .. Len(events)
    PROVE  \E state : StatesOf(state, events)
<1>1. PICK length \in Nat : length = Len(events)
  OBVIOUS
<1>2. \E g : Replays(g, events, 1 .. length)
  BY ReplaysExists
<1>3. Replayed(events) = (CHOOSE g : Replays(g, events, 1 .. length))[1 .. length]
  BY <1>1 DEF Replayed, FoldLeft, MapThenFoldSet, Replays
<1>4. PICK g : Replays(g, events, 1 .. length) /\ Replayed(events) = g[1 .. length]
  BY <1>2, <1>3
<1>5. PICK state : state = [n \in 0 .. length |-> g[1 .. n]]
  OBVIOUS
<1>6. state[0] = InitialState
  <2>1. 1 .. 0 = {} /\ {} \in SUBSET (1 .. length) /\ 0 \in 0 .. length
    OBVIOUS
  <2>2. state[0] = g[{}]
    BY <1>5, <2>1
  <2>. QED BY <1>4, <2>1, <2>2 DEF Replays
<1>7. ASSUME NEW n \in 1 .. length PROVE state[n] = Apply(state[n - 1], events[n])
  <2>1. 1 .. n \in SUBSET (1 .. length) /\ 1 .. n # {} /\ n \in Nat \ {0}
    <3>1. n \in Nat \ {0} /\ n <= length /\ n \in 1 .. n
      OBVIOUS
    <3>2. \A m \in 1 .. n : m \in 1 .. length
      BY <3>1
    <3>. QED BY <3>1, <3>2
  <2>2. g[1 .. n] = Apply(g[(1 .. n) \ {Max(1 .. n)}], events[Max(1 .. n)])
    BY <1>4, <2>1 DEF Replays
  <2>3. g[1 .. n] = Apply(g[1 .. (n - 1)], events[n])
    BY <2>1, <2>2, MaxOfPrefix
  <2>. QED BY <1>5, <2>3
<1>8. state[length] = g[1 .. length]
  BY <1>5
<1>. QED BY <1>1, <1>4, <1>6, <1>7, <1>8 DEF StatesOf

LEMMA StatesOK ==
    ASSUME NEW events \in Seq(PostedEvents), NEW state, StatesOf(state, events)
    PROVE  \A n \in 0 .. Len(events) : StateOK(state[n])
<1>. DEFINE T == {n \in 0 .. Len(events) : StateOK(state[n])}
<1>1. Len(events) \in Nat
  OBVIOUS
<1>2. 0 \in T
  BY InitialStateOK DEF StatesOf
<1>3. ASSUME NEW n \in 1 .. Len(events), n - 1 \in T PROVE n \in T
  <2>1. EventOK(events[n])
    BY PostedEventOK
  <2>2. StateOK(Apply(state[n - 1], events[n]))
    BY <1>3, <2>1, ApplyOK
  <2>. QED BY <2>2 DEF StatesOf
<1>4. 0 .. Len(events) \subseteq T
  <2>. HIDE DEF T
  <2>. QED BY <1>1, <1>2, <1>3, AllPrefixes
<1>. QED BY <1>4

-----------------------------------------------------------------------------
(* The cash. *)

CashOfEach(events) == [i \in 1 .. Len(events) |-> ConvertedCash(events[i])]

OfTypes(events, types, n) == {j \in 1 .. n : events[j].type \in types}

CashFlow(events, types, n) == SumOn(CashOfEach(events), OfTypes(events, types, n))

LEMMA CashFlowGrows ==
    ASSUME NEW events \in Seq(PostedEvents), NEW types, NEW n \in 1 .. Len(events)
    PROVE  /\ CashFlow(events, types, n - 1) \in Int
           /\ CashFlow(events, types, n) =
                 CashFlow(events, types, n - 1)
                     + IF events[n].type \in types THEN ConvertedCash(events[n]) ELSE 0
<1>. DEFINE f == CashOfEach(events)
            before == OfTypes(events, types, n - 1)
            now == OfTypes(events, types, n)
<1>1. \A i \in 1 .. Len(events) : f[i] \in Int
  BY PostedEventOK, ConvertedCashType DEF CashOfEach
<1>2. before \subseteq 1 .. Len(events) /\ now \subseteq 1 .. Len(events)
  BY DEF OfTypes
<1>3. IsFiniteSet(before) /\ IsFiniteSet(now)
  <2>1. IsFiniteSet(1 .. Len(events))
    BY FS_Interval
  <2>. HIDE DEF before, now
  <2>. QED BY <1>2, <2>1, FS_Subset
<1>4. SumOn(f, before) \in Int
  <2>. HIDE DEF f, before
  <2>. QED BY <1>1, <1>2, <1>3, SumIsInt
<1>5. f[n] = ConvertedCash(events[n])
  BY DEF CashOfEach
<1>6. CASE events[n].type \in types
  <2>1. n \in now /\ now \ {n} = before
    BY <1>6 DEF OfTypes
  <2>2. SumOn(f, now) = f[n] + SumOn(f, now \ {n})
    <3>. HIDE DEF f, now
    <3>. QED BY <1>1, <1>2, <1>3, <2>1, SumTakesOut
  <2>3. SumOn(f, now) = SumOn(f, before) + f[n]
    <3>1. f[n] \in Int
      BY <1>1
    <3>2. SumOn(f, now) = f[n] + SumOn(f, before)
      BY <2>1, <2>2
    <3>. HIDE DEF f, now, before
    <3>. QED BY <1>4, <3>1, <3>2
  <2>. QED BY <1>4, <1>5, <1>6, <2>3 DEF CashFlow
<1>7. CASE events[n].type \notin types
  <2>1. now = before
    BY <1>7 DEF OfTypes
  <2>2. SumOn(f, before) + 0 = SumOn(f, before)
    BY <1>4
  <2>. QED BY <1>4, <1>7, <2>1, <2>2 DEF CashFlow
<1>. QED BY <1>6, <1>7

LEMMA CashOfStates ==
    ASSUME NEW events \in Seq(PostedEvents), Replayed(events).error = "none"
    PROVE  Replayed(events).cash = CashFlow(events, Inflow, Len(events))
                                   - CashFlow(events, Outflow, Len(events))
<1>. DEFINE In(n) == CashFlow(events, Inflow, n)
            Out(n) == CashFlow(events, Outflow, n)
<1>1. Len(events) \in Nat /\ DOMAIN events = 1 .. Len(events)
  OBVIOUS
<1>2. PICK state : StatesOf(state, events)
  BY <1>1, ReplayHasStates
<1>. DEFINE T == {n \in 0 .. Len(events) :
                    state[n].error = "none" => state[n].cash = In(n) - Out(n)}
<1>3. 0 \in T
  <2>1. \A types : OfTypes(events, types, 0) = {}
    BY DEF OfTypes
  <2>2. In(0) = 0 /\ Out(0) = 0
    BY <2>1, SumOfNothing DEF CashFlow
  <2>3. state[0].cash = 0
    BY <1>2 DEF StatesOf, InitialState
  <2>4. 0 \in 0 .. Len(events)
    BY <1>1
  <2>. HIDE DEF In, Out
  <2>. QED BY <2>2, <2>3, <2>4
<1>4. ASSUME NEW n \in 1 .. Len(events), n - 1 \in T PROVE n \in T
  <2>. SUFFICES ASSUME state[n].error = "none" PROVE state[n].cash = In(n) - Out(n)
    OBVIOUS
  <2>1. EventOK(events[n]) /\ StateOK(state[n - 1])
    BY <1>2, PostedEventOK, StatesOK
  <2>2. PICK c \in Int : c = ConvertedCash(events[n])
    BY <2>1, ConvertedCashType
  <2>3. state[n] = Apply(state[n - 1], events[n])
    BY <1>2 DEF StatesOf
  <2>4. state[n - 1].error = "none" /\ state[n].cash = state[n - 1].cash + Moves(events[n], c)
    BY <2>1, <2>2, <2>3, ApplyOK
  <2>5. PICK i \in Int, o \in Int : i = In(n - 1) /\ o = Out(n - 1)
    BY CashFlowGrows
  <2>6. state[n - 1].cash = i - o
    BY <1>4, <2>4, <2>5
  <2>7. /\ In(n) = i + IF events[n].type \in Inflow THEN c ELSE 0
        /\ Out(n) = o + IF events[n].type \in Outflow THEN c ELSE 0
    BY <2>2, <2>5, CashFlowGrows
  <2>8. events[n].type \in Inflow => events[n].type \notin Outflow
    BY DEF Inflow, Outflow
  <2>. HIDE DEF In, Out
  <2>. QED BY <2>4, <2>6, <2>7, <2>8 DEF Moves
<1>5. 0 .. Len(events) \subseteq T
  <2>. HIDE DEF T
  <2>. QED BY <1>1, <1>3, <1>4, AllPrefixes
<1>6. Len(events) \in T
  <2>. HIDE DEF T
  <2>. QED BY <1>1, <1>5
<1>. QED BY <1>2, <1>6 DEF StatesOf

-----------------------------------------------------------------------------
(* The estimates. *)

ExactlyConverted(e) == Converts(e) /\ e.type \notin {"split", "spin_off"}

LEMMA ExactStates ==
    ASSUME NEW events \in Seq(PostedEvents),
           Replayed(events).error = "none", ~Replayed(events).estimated
    PROVE  \A i \in 1 .. Len(events) : ExactlyConverted(events[i])
<1>1. Len(events) \in Nat /\ DOMAIN events = 1 .. Len(events)
  OBVIOUS
<1>2. PICK state : StatesOf(state, events)
  BY <1>1, ReplayHasStates
<1>. DEFINE T == {n \in 0 .. Len(events) :
                    state[n].error = "none" /\ ~state[n].estimated =>
                        \A i \in 1 .. n : ExactlyConverted(events[i])}
<1>3. 0 \in T
  BY <1>1
<1>4. ASSUME NEW n \in 1 .. Len(events), n - 1 \in T PROVE n \in T
  <2>. SUFFICES ASSUME state[n].error = "none", ~state[n].estimated
                PROVE  \A i \in 1 .. n : ExactlyConverted(events[i])
    OBVIOUS
  <2>1. EventOK(events[n]) /\ StateOK(state[n - 1])
    BY <1>2, PostedEventOK, StatesOK
  <2>2. state[n] = Apply(state[n - 1], events[n])
    BY <1>2 DEF StatesOf
  <2>3. /\ state[n - 1].error = "none"
        /\ state[n].estimated = (state[n - 1].estimated \/ ~Converts(events[n])
                                 \/ events[n].type \in {"split", "spin_off"})
    BY <2>1, <2>2, ApplyOK
  <2>4. ~state[n - 1].estimated /\ ExactlyConverted(events[n])
    BY <2>3 DEF ExactlyConverted
  <2>5. \A i \in 1 .. (n - 1) : ExactlyConverted(events[i])
    BY <1>4, <2>3, <2>4
  <2>6. \A i \in 1 .. n : i = n \/ i \in 1 .. (n - 1)
    OBVIOUS
  <2>. QED BY <2>4, <2>5, <2>6
<1>5. 0 .. Len(events) \subseteq T
  <2>. HIDE DEF T
  <2>. QED BY <1>1, <1>3, <1>4, AllPrefixes
<1>6. Len(events) \in T
  <2>. HIDE DEF T
  <2>. QED BY <1>1, <1>5
<1>. QED BY <1>2, <1>6 DEF StatesOf

-----------------------------------------------------------------------------
(* The weights. *)

QuotesOK(quotes) == \A a \in Assets : Present(quotes[a]) => quotes[a].price \in Nat

LEMMA MarketValueType ==
    ASSUME NEW position \in Positions, NEW quote, Present(quote) => quote.price \in Nat
    PROVE  MarketValue(position, quote) \in Nat
<1>1. PICK q \in Nat, i \in Nat : q = position.quantity /\ i = position.invested
  BY DEF Positions
<1>2. ASSUME Priced(quote) PROVE DivideRound(quote.price * q, QuantityUnit) \in Nat
  <2>1. PICK n \in Nat : n = quote.price * q
    BY <1>2 DEF Priced
  <2>. QED BY <2>1, RoundedOff, PortfolioReplayAssumptions
<1>. QED BY <1>1, <1>2 DEF MarketValue

LEMMA PercentageNear ==
    ASSUME NEW value \in Nat, NEW total \in Nat \ {0}
    PROVE  LET p == Percentage(value, total)
           IN  /\ p \in Int
               /\ 2 * (total * p) - 2 * ((100 * PctUnit) * value) <= total
               /\ 2 * ((100 * PctUnit) * value) - 2 * (total * p) <= total
<1>1. PICK n \in Int : n = value * 100 * PctUnit
  BY PortfolioReplayAssumptions
<1>2. n = (100 * PctUnit) * value
  BY <1>1, PortfolioReplayAssumptions
<1>. QED BY <1>1, <1>2, RoundedOff DEF Percentage

(* Shares of a total that is their sum.                                     *)
LEMMA SharesAddUp ==
    ASSUME NEW S, IsFiniteSet(S), NEW v, \A a \in S : v[a] \in Nat,
           NEW T \in SUBSET S, \A a \in S : a \in T <=> v[a] > 0,
           NEW total \in Nat \ {0}, total = SumOn(v, S),
           NEW w, \A a \in T : w[a] = Percentage(v[a], total)
    PROVE  2 * Abs(SumOn(w, T) - 100 * PctUnit) <= Cardinality(T)
<1>1. PICK k \in Int : k = 100 * PctUnit
  BY PortfolioReplayAssumptions
<1>2. \A a \in S \ T : v[a] = 0
  OBVIOUS
<1>3. SumOn(v, T) = total
  BY <1>2, SumOfSupport
<1>4. IsFiniteSet(T) /\ Cardinality(T) \in Nat
  BY FS_Subset, FS_CardinalityType
<1>5. \A a \in T : /\ v[a] \in Int /\ w[a] \in Int
                   /\ 2 * (total * w[a]) - 2 * (k * v[a]) <= total
                   /\ 2 * (k * v[a]) - 2 * (total * w[a]) <= total
  BY <1>1, PercentageNear
<1>6. PICK n \in Nat, sum \in Int : n = Cardinality(T) /\ sum = SumOn(w, T)
  <2>1. SumOn(w, T) \in Int
    BY <1>4, <1>5, SumIsInt
  <2>. QED BY <1>4, <2>1
<1>7. /\ 2 * (total * sum) - 2 * (k * total) <= total * n
      /\ 2 * (k * total) - 2 * (total * sum) <= total * n
  BY <1>3, <1>4, <1>5, <1>6, SumsNear
<1>8. /\ total * (2 * (sum - k)) = 2 * (total * sum) - 2 * (k * total)
      /\ total * (2 * (k - sum)) = 2 * (k * total) - 2 * (total * sum)
  OBVIOUS
<1>9. ASSUME NEW x \in Int, total * x <= total * n PROVE x <= n
  <2>. SUFFICES ASSUME x >= n + 1 PROVE FALSE
    OBVIOUS
  <2>1. total * x >= total * (n + 1) /\ total * (n + 1) = total * n + total
    OBVIOUS
  <2>. QED BY <1>9, <2>1
<1>10. 2 * (sum - k) <= n /\ 2 * (k - sum) <= n
  BY <1>7, <1>8, <1>9
<1>11. 2 * Abs(sum - k) <= n
  BY <1>10 DEF Abs
<1>. QED BY <1>1, <1>6, <1>11

LEMMA WeightsOfState ==
    ASSUME NEW s, StateOK(s), NEW quotes, QuotesOK(quotes)
    PROVE  LET holdings == Finalized(s, quotes).holdings
               weighted == {a \in DOMAIN holdings : Present(holdings[a].weight)}
           IN  weighted # {} =>
                 2 * Abs(SumOf([a \in weighted |-> holdings[a].weight]) - 100 * PctUnit)
                     <= Cardinality(weighted)
<1>. DEFINE O == Open(s)
            plain == [a \in O |-> Holding(s.positions[a], quotes[a])]
            base == WeightBase(s, plain)
            holdings == Finalized(s, quotes).holdings
            v == [a \in O |-> plain[a].value]
            w == [a \in O |-> holdings[a].weight]
            weighted == {a \in DOMAIN holdings : Present(holdings[a].weight)}
<1>1. holdings = [a \in O |-> [plain[a] EXCEPT !.weight = Weight(plain[a], base)]]
  BY DEF Finalized
<1>2. /\ O \subseteq Assets /\ IsFiniteSet(O)
      /\ \A a \in O : s.positions[a] \in Positions
  BY FS_Subset DEF Open, StateOK, PositionsOK
<1>3. \A a \in O : /\ plain[a].value = MarketValue(s.positions[a], quotes[a])
                   /\ holdings[a].weight = Weight(plain[a], base)
  <2>. SUFFICES ASSUME NEW a \in O
                PROVE  /\ plain[a].value = MarketValue(s.positions[a], quotes[a])
                       /\ holdings[a].weight = Weight(plain[a], base)
    OBVIOUS
  <2>1. PICK h, x : h = plain[a] /\ x = Weight(plain[a], base)
    OBVIOUS
  <2>2. h = Holding(s.positions[a], quotes[a])
    BY <2>1
  <2>3. h.value = MarketValue(s.positions[a], quotes[a]) /\ [h EXCEPT !.weight = x].weight = x
    BY <2>2 DEF Holding
  <2>4. holdings[a] = [h EXCEPT !.weight = x]
    BY <1>1, <2>1
  <2>. QED BY <2>1, <2>3, <2>4
<1>4. \A a \in O : v[a] \in Nat
  <2>1. \A a \in O : MarketValue(s.positions[a], quotes[a]) \in Nat
    BY <1>2, MarketValueType DEF QuotesOK
  <2>. QED BY <1>3, <2>1
<1>5. base = SumOn(v, O)
  <2>1. [a \in DOMAIN plain |-> plain[a].value] = [a \in O |-> v[a]]
    OBVIOUS
  <2>. QED BY <2>1 DEF WeightBase, HoldingsValue, SumOn
<1>6. base \in Int
  <2>. HIDE DEF v, O, base
  <2>. QED BY <1>2, <1>4, <1>5, SumIsInt
<1>7. \A a \in O : v[a] = plain[a].value /\ w[a] = Weight(plain[a], base)
  BY <1>3
<1>8. weighted = {a \in O : base > 0 /\ v[a] > 0}
  <2>1. ASSUME NEW a \in O PROVE Present(holdings[a].weight) <=> base > 0 /\ v[a] > 0
    <3>1. base > 0 /\ v[a] > 0 => Percentage(v[a], base) \in Int
      BY <1>4, <1>6, PercentageNear
    <3>. HIDE DEF v, base, holdings, plain
    <3>. QED BY <1>3, <1>7, <3>1, PortfolioReplayAssumptions DEF Weight, Present
  <2>2. DOMAIN holdings = O
    BY <1>1
  <2>. HIDE DEF v, base, holdings, plain, O
  <2>. QED BY <2>1, <2>2
<1>9. ASSUME weighted # {}
      PROVE  2 * Abs(SumOn(w, weighted) - 100 * PctUnit) <= Cardinality(weighted)
  <2>1. base \in Nat \ {0}
    <3>. HIDE DEF v, base, holdings, weighted, O
    <3>. QED BY <1>6, <1>8, <1>9
  <2>2. weighted \in SUBSET O /\ \A a \in O : a \in weighted <=> v[a] > 0
    <3>. HIDE DEF v, base, holdings, weighted, O
    <3>. QED BY <1>8, <2>1
  <2>3. \A a \in weighted : w[a] = Percentage(v[a], base)
    <3>. HIDE DEF v, base, holdings, plain, w, O
    <3>. QED BY <1>7, <1>8 DEF Weight
  <2>. HIDE DEF v, base, holdings, plain, w, O, weighted
  <2>. QED BY <1>2, <1>4, <1>5, <2>1, <2>2, <2>3, SharesAddUp
<1>10. [a \in weighted |-> holdings[a].weight] = [a \in weighted |-> w[a]]
  BY <1>1
<1>. QED BY <1>9, <1>10 DEF SumOn

-----------------------------------------------------------------------------
(* The theorems. *)

LedgerOK == ledger \in Seq(PostedEvents) /\ market \in Markets

LEMMA LedgerAlwaysOK == Spec => []LedgerOK
<1>1. Init => LedgerOK
  BY DEF Init, LedgerOK
<1>2. LedgerOK /\ [Next]_vars => LedgerOK'
  <2>. SUFFICES ASSUME LedgerOK, [Next]_vars PROVE LedgerOK'
    OBVIOUS
  <2>1. ASSUME NEW e \in PostedEvents, Post(e) PROVE LedgerOK'
    <3>1. PICK i \in 1 .. Len(ledger) + 1 : ledger' = InsertAt(ledger, i, e)
      BY <2>1 DEF Post
    <3>2. /\ SubSeq(ledger, 1, i - 1) \in Seq(PostedEvents)
          /\ SubSeq(ledger, i, Len(ledger)) \in Seq(PostedEvents)
          /\ <<e>> \in Seq(PostedEvents)
      BY DEF LedgerOK
    <3>3. ledger' \in Seq(PostedEvents)
      BY <3>1, <3>2 DEF InsertAt
    <3>. QED BY <2>1, <3>3 DEF Post, LedgerOK
  <2>2. CASE UNCHANGED vars
    BY <2>2 DEF vars, LedgerOK
  <2>. QED BY <2>1, <2>2 DEF Next
<1>. QED BY <1>1, <1>2, PTL DEF Spec

LEMMA ReplayedOK == ASSUME LedgerOK PROVE StateOK(Replayed(ledger))
<1>1. Len(ledger) \in Nat /\ DOMAIN ledger = 1 .. Len(ledger)
  BY DEF LedgerOK
<1>2. PICK state : StatesOf(state, ledger)
  BY <1>1, ReplayHasStates
<1>3. Len(ledger) \in 0 .. Len(ledger)
  BY <1>1
<1>. QED BY <1>2, <1>3, StatesOK DEF LedgerOK, StatesOf

(* Whatever is posted, at whatever dates: the replay keeps every position   *)
(* and what was invested in it at or above zero, or ends with an oversell.  *)
THEOREM PositionsNeverNegative == Spec => []StateOK(Replayed(ledger))
<1>1. LedgerOK => StateOK(Replayed(ledger))
  BY ReplayedOK
<1>. QED BY <1>1, LedgerAlwaysOK, PTL

(* The worker never meets a posted row that lacks what the replay requires: *)
(* the rules of kushim-api and the CHECKs see to it.                        *)
THEOREM PostedIsReadable == Spec => []AcceptedIsWellFormed
<1>1. LedgerOK => AcceptedIsWellFormed
  <2>. SUFFICES ASSUME LedgerOK PROVE AcceptedIsWellFormed
    OBVIOUS
  <2>1. Replayed(ledger).error \in {"none", "oversell"}
    BY ReplayedOK DEF StateOK
  <2>. QED BY <2>1 DEF AcceptedIsWellFormed, Outcome
<1>. QED BY <1>1, LedgerAlwaysOK, PTL

(* The cash of any ledger that can be replayed is what came in less what    *)
(* went out: the order of the operations does not matter.                   *)
THEOREM CashAddsUp == Spec => []CashIsTheSumOfFlows
<1>1. LedgerOK => CashIsTheSumOfFlows
  <2>. SUFFICES ASSUME LedgerOK, Replayed(ledger).error = "none"
                PROVE  Replayed(ledger).cash = Flows(Inflow) - Flows(Outflow)
    BY DEF CashIsTheSumOfFlows
  <2>1. ASSUME NEW types PROVE Flows(types) = CashFlow(ledger, types, Len(ledger))
    <3>1. DOMAIN ledger = 1 .. Len(ledger)
      BY DEF LedgerOK
    <3>. QED BY <3>1 DEF Flows, CashFlow, SumOn, CashOfEach, OfTypes
  <2>2. Replayed(ledger).cash = CashFlow(ledger, Inflow, Len(ledger))
                                - CashFlow(ledger, Outflow, Len(ledger))
    BY CashOfStates DEF LedgerOK
  <2>. QED BY <2>1, <2>2
<1>. QED BY <1>1, LedgerAlwaysOK, PTL

(* The weights add up to 100% but for half a unit each, for any number of   *)
(* holdings, any prices and any units.                                      *)
THEOREM WeightsAlwaysAddUp == Spec => []WeightsAddUp
<1>1. LedgerOK => WeightsAddUp
  <2>. SUFFICES ASSUME LedgerOK PROVE WeightsAddUp
    OBVIOUS
  <2>1. StateOK(Replayed(ledger)) /\ QuotesOK(market)
    BY ReplayedOK, PortfolioReplayAssumptions DEF LedgerOK, QuotesOK
  <2>. QED BY <2>1, WeightsOfState DEF WeightsAddUp, Weighted, Rebuilt
<1>. QED BY <1>1, LedgerAlwaysOK, PTL

(* A summary without the estimated flag has converted every amount, has no  *)
(* split or spin-off behind it and no holding without a price.              *)
THEOREM ExactIsExact == Spec => []ExactMeansExact
<1>1. LedgerOK => ExactMeansExact
  <2>. SUFFICES ASSUME LedgerOK, Outcome(ledger, market) = "rebuilt",
                       ~Rebuilt.summary.estimated
                PROVE  /\ \A i \in DOMAIN ledger : ExactlyConverted(ledger[i])
                       /\ \A a \in DOMAIN Rebuilt.holdings : Priced(market[a])
    BY DEF ExactMeansExact, ExactlyConverted
  <2>1. PICK s : s = Replayed(ledger)
    OBVIOUS
  <2>2. s.error = "none"
    BY <2>1, ReplayedOK DEF Outcome, StateOK
  <2>3. PICK holdings : holdings = [a \in Open(s) |-> Holding(s.positions[a], market[a])]
    OBVIOUS
  <2>4. /\ Rebuilt.summary.estimated
              = (s.estimated \/ \E a \in DOMAIN holdings : holdings[a].estimated)
        /\ DOMAIN Rebuilt.holdings = Open(s) /\ DOMAIN holdings = Open(s)
    BY <2>1, <2>3 DEF Rebuilt, Finalized, Summary
  <2>5. ~s.estimated /\ \A a \in Open(s) : ~holdings[a].estimated
    BY <2>4
  <2>6. \A a \in Open(s) : Priced(market[a])
    BY <2>3, <2>5 DEF Holding
  <2>7. \A i \in 1 .. Len(ledger) : ExactlyConverted(ledger[i])
    BY <2>1, <2>2, <2>5, ExactStates DEF LedgerOK
  <2>8. DOMAIN ledger = 1 .. Len(ledger)
    BY DEF LedgerOK
  <2>. QED BY <2>4, <2>6, <2>7, <2>8
<1>. QED BY <1>1, LedgerAlwaysOK, PTL

==============================================================================
