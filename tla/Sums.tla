-------------------------------- MODULE Sums --------------------------------
(***************************************************************************)
(* Lemmas about sums over finite sets (SumFunctionOnSet of Functions), in  *)
(* which the models state that money is conserved.  The operator is a      *)
(* recursive function on the subsets; that the recursion is well founded,  *)
(* and that the order of the summands does not matter, is shown here, by   *)
(* induction over finite sets with a set in the place of the predicate.    *)
(***************************************************************************)
EXTENDS Functions, FiniteSetTheorems, TLAPS

\* Strong induction over the subsets of a finite set: G is the set of those for which the
\* claim holds.
LEMMA FiniteInduction ==
  ASSUME NEW S, IsFiniteSet(S), NEW G \in SUBSET (SUBSET S),
         \A T \in SUBSET S : (\A U \in SUBSET T : U # T => U \in G) => T \in G
  PROVE  \A T \in SUBSET S : T \in G
<1> DEFINE Bad == (SUBSET S) \ G
<1> SUFFICES ASSUME Bad # {} PROVE FALSE
  OBVIOUS
<1>1. Bad \subseteq FiniteSubsetsOf(S)
  BY FS_Subset DEF FiniteSubsetsOf
<1>2. IsWellFoundedOn(StrictSubsetOrdering(S), FiniteSubsetsOf(S))
  BY FS_StrictSubsetOrderingWellFounded
<1>3. PICK T \in Bad : \A U \in Bad : <<U, T>> \notin StrictSubsetOrdering(S)
  <2> HIDE DEF Bad
  <2> QED BY <1>1, <1>2, WFMin
<1>4. ASSUME NEW U \in SUBSET T, U # T PROVE U \in G
  <2>1. <<U, T>> \in StrictSubsetOrdering(S)
    BY <1>3, <1>4 DEF StrictSubsetOrdering
  <2> QED BY <1>3, <2>1
<1> QED BY <1>3, <1>4

\* Induction over the natural numbers, likewise.
LEMMA NumberInduction ==
  ASSUME NEW G \in SUBSET Nat, 0 \in G, \A n \in G : n + 1 \in G
  PROVE  \A n \in Nat : n \in G
<1> DEFINE Bad == Nat \ G
<1> SUFFICES ASSUME Bad # {} PROVE FALSE
  OBVIOUS
<1>1. PICK n \in Bad : \A m \in Bad : <<m, n>> \notin OpToRel(<, Nat)
  <2>1. Bad \subseteq Nat /\ IsWellFoundedOn(OpToRel(<, Nat), Nat)
    BY NatLessThanWellFounded
  <2> HIDE DEF Bad
  <2> QED BY <2>1, WFMin
<1>2. \A m \in Bad : ~(m < n)
  BY <1>1 DEF OpToRel
<1>3. n \in Nat /\ n \notin G /\ n # 0
  BY <1>1
<1>4. n - 1 \in Nat /\ n - 1 < n /\ (n - 1) + 1 = n
  BY <1>3
<1>5. n - 1 \in G
  BY <1>2, <1>4
<1>6. (n - 1) + 1 \in G
  BY <1>5
<1> QED BY <1>3, <1>4, <1>6
-----------------------------------------------------------------------------
(* The recursion *)

Pick(T) == CHOOSE x \in T : TRUE
LEMMA PickIn == ASSUME NEW T, T # {} PROVE Pick(T) \in T
  BY DEF Pick

\* g gives each subset of S its sum.
Sums(g, f, S) ==
  g = [T \in SUBSET S |-> IF T = {} THEN 0 ELSE f[Pick(T)] + g[T \ {Pick(T)}]]

LEMMA SumUnfold ==
  ASSUME NEW f, NEW S PROVE SumFunctionOnSet(f, S) = (CHOOSE g : Sums(g, f, S))[S]
  BY DEF SumFunctionOnSet, FoldFunctionOnSet, MapThenFoldSet, Sums, Pick

LEMMA SumsUnique ==
  ASSUME NEW S, IsFiniteSet(S), NEW f, NEW g, NEW h, Sums(g, f, S), Sums(h, f, S)
  PROVE  g = h
<1> DEFINE G == {T \in SUBSET S : g[T] = h[T]}
<1>1. ASSUME NEW T \in SUBSET S, \A U \in SUBSET T : U # T => U \in G PROVE T \in G
  <2> DEFINE U == T \ {Pick(T)}
  <2>1. T # {} => U \in SUBSET T /\ U # T
    BY PickIn
  <2>2. T # {} => g[U] = h[U]
    BY <1>1, <2>1
  <2> HIDE DEF U
  <2>3. g[T] = IF T = {} THEN 0 ELSE f[Pick(T)] + g[U]
    BY DEF Sums, U
  <2>4. h[T] = IF T = {} THEN 0 ELSE f[Pick(T)] + h[U]
    BY DEF Sums, U
  <2> QED BY <2>2, <2>3, <2>4
<1>2. \A T \in SUBSET S : T \in G
  <2>1. G \in SUBSET (SUBSET S)
    OBVIOUS
  <2> HIDE DEF G
  <2> QED BY <1>1, <2>1, FiniteInduction
<1>3. g = [T \in SUBSET S |-> g[T]] /\ h = [T \in SUBSET S |-> h[T]]
  BY DEF Sums
<1> QED BY <1>2, <1>3

\* The function that CHOOSE stands for exists: the recursion equation holds.
LEMMA SumEquation ==
  ASSUME NEW S, IsFiniteSet(S), NEW f
  PROVE  SumFunctionOnSet(f, S) =
           IF S = {} THEN 0 ELSE f[Pick(S)] + SumFunctionOnSet(f, S \ {Pick(S)})
<1> DEFINE Sum(T) == SumFunctionOnSet(f, T)
           Equation(T) == IF T = {} THEN 0 ELSE f[Pick(T)] + Sum(T \ {Pick(T)})
           G == {T \in SUBSET S : Sum(T) = Equation(T)}
<1>1. ASSUME NEW T \in SUBSET S, \A U \in SUBSET T : U # T => U \in G PROVE T \in G
  <2> DEFINE g == [U \in SUBSET T |-> Equation(U)]
  <2>1. \A U \in SUBSET T : U # T => g[U] = Sum(U)
    BY <1>1
  <2>2. ASSUME NEW U \in SUBSET T, U # {} PROVE g[U] = f[Pick(U)] + g[U \ {Pick(U)}]
    <3>1. U \ {Pick(U)} \in SUBSET T /\ U \ {Pick(U)} # T
      BY <2>2, PickIn
    <3>2. g[U \ {Pick(U)}] = Sum(U \ {Pick(U)})
      BY <2>1, <3>1
    <3> QED BY <2>2, <3>2
  <2>3. Sums(g, f, T)
    BY <2>2 DEF Sums
  <2>4. (CHOOSE h : Sums(h, f, T)) = g
    <3>1. IsFiniteSet(T)
      BY FS_Subset
    <3>2. Sums(CHOOSE h : Sums(h, f, T), f, T)
      BY <2>3
    <3> QED BY <2>3, <3>1, <3>2, SumsUnique
  <2>5. Sum(T) = g[T]
    BY <2>4, SumUnfold
  <2> QED BY <2>5
<1>2. S \in G
  <2>1. G \in SUBSET (SUBSET S)
    OBVIOUS
  <2> HIDE DEF G
  <2> QED BY <1>1, <2>1, FiniteInduction
<1> QED BY <1>2
-----------------------------------------------------------------------------
(* What the proofs cite *)

LEMMA SumEmpty == ASSUME NEW f PROVE SumFunctionOnSet(f, {}) = 0
  BY SumEquation, FS_EmptySet

\* Any summand can be taken out.
LEMMA SumTakeOut ==
  ASSUME NEW S, IsFiniteSet(S), NEW f, \A x \in S : f[x] \in Int
  PROVE  /\ SumFunctionOnSet(f, S) \in Int
         /\ \A y \in S : SumFunctionOnSet(f, S) = f[y] + SumFunctionOnSet(f, S \ {y})
<1> DEFINE Sum(T) == SumFunctionOnSet(f, T)
           Ok(T) == Sum(T) \in Int /\ \A y \in T : Sum(T) = f[y] + Sum(T \ {y})
           G == {T \in SUBSET S : Ok(T)}
<1>1. ASSUME NEW T \in SUBSET S, \A U \in SUBSET T : U # T => U \in G PROVE T \in G
  <2>0. IsFiniteSet(T)
    BY FS_Subset
  <2>1. CASE T = {}
    BY <2>1, SumEmpty
  <2>2. CASE T # {}
    <3> DEFINE x == Pick(T)
    <3>1. x \in T /\ Sum(T) = f[x] + Sum(T \ {x}) /\ f[x] \in Int
      BY <2>0, <2>2, SumEquation, PickIn
    <3> HIDE DEF x
    <3>2. Ok(T \ {x})
      BY <3>1, <1>1
    <3>3. ASSUME NEW y \in T, y # x PROVE Sum(T) = f[y] + Sum(T \ {y})
      <4>1. Sum(T \ {x}) = f[y] + Sum((T \ {x}) \ {y})
        BY <3>2, <3>3
      <4>2. Ok(T \ {y}) /\ x \in T \ {y} /\ f[y] \in Int
        BY <3>1, <3>3, <1>1
      <4>3. Sum(T \ {y}) = f[x] + Sum((T \ {y}) \ {x})
        BY <4>2
      <4>4. (T \ {y}) \ {x} = (T \ {x}) \ {y}
        OBVIOUS
      <4>5. Ok((T \ {x}) \ {y})
        BY <1>1, <3>1
      <4> DEFINE s == Sum((T \ {x}) \ {y})
      <4>6. s \in Int /\ Sum(T) = f[x] + (f[y] + s) /\ Sum(T \ {y}) = f[x] + s
        BY <3>1, <4>1, <4>3, <4>4, <4>5
      <4> HIDE DEF s
      <4> QED BY <3>1, <4>2, <4>6
    <3>4. Sum(T) \in Int
      BY <3>1, <3>2
    <3>5. \A y \in T : Sum(T) = f[y] + Sum(T \ {y})
      BY <3>1, <3>3
    <3> QED BY <3>4, <3>5
  <2> QED BY <2>1, <2>2
<1>2. S \in G
  <2>1. G \in SUBSET (SUBSET S)
    OBVIOUS
  <2> HIDE DEF G
  <2> QED BY <1>1, <2>1, FiniteInduction
<1> QED BY <1>2

\* A sum depends on the summands alone.
LEMMA SumSame ==
  ASSUME NEW S, IsFiniteSet(S), NEW f, NEW g, \A x \in S : f[x] = g[x]
  PROVE  SumFunctionOnSet(f, S) = SumFunctionOnSet(g, S)
<1> DEFINE G == {T \in SUBSET S : SumFunctionOnSet(f, T) = SumFunctionOnSet(g, T)}
<1>1. ASSUME NEW T \in SUBSET S, \A U \in SUBSET T : U # T => U \in G PROVE T \in G
  <2>0. IsFiniteSet(T)
    BY FS_Subset
  <2>1. CASE T = {}
    BY <2>1, SumEmpty
  <2>2. CASE T # {}
    <3> DEFINE x == Pick(T)
    <3>1. /\ x \in T /\ SumFunctionOnSet(f, T) = f[x] + SumFunctionOnSet(f, T \ {x})
          /\ SumFunctionOnSet(g, T) = g[x] + SumFunctionOnSet(g, T \ {x})
      BY <2>0, <2>2, SumEquation, PickIn
    <3> HIDE DEF x
    <3>2. T \ {x} \in G
      BY <3>1, <1>1
    <3> QED BY <3>1, <3>2
  <2> QED BY <2>1, <2>2
<1>2. S \in G
  <2>1. G \in SUBSET (SUBSET S)
    OBVIOUS
  <2> HIDE DEF G
  <2> QED BY <1>1, <2>1, FiniteInduction
<1> QED BY <1>2

\* One more summand.
LEMMA SumAdd ==
  ASSUME NEW S, IsFiniteSet(S), NEW x, x \notin S, NEW f, \A y \in S \cup {x} : f[y] \in Int
  PROVE  SumFunctionOnSet(f, S \cup {x}) = SumFunctionOnSet(f, S) + f[x]
<1>1. IsFiniteSet(S \cup {x}) /\ (S \cup {x}) \ {x} = S
  BY FS_AddElement
<1>2. SumFunctionOnSet(f, S \cup {x}) = f[x] + SumFunctionOnSet(f, S)
  BY <1>1, SumTakeOut
<1>3. SumFunctionOnSet(f, S) \in Int /\ f[x] \in Int
  BY SumTakeOut
<1> QED BY <1>2, <1>3

\* One summand that changes.
LEMMA SumChange ==
  ASSUME NEW S, IsFiniteSet(S), NEW x \in S, NEW f, NEW g,
         \A y \in S : f[y] \in Int, g[x] \in Int, \A y \in S \ {x} : g[y] = f[y]
  PROVE  SumFunctionOnSet(g, S) = SumFunctionOnSet(f, S) + (g[x] - f[x])
<1> DEFINE rest == SumFunctionOnSet(f, S \ {x})
<1>1. IsFiniteSet(S \ {x}) /\ \A y \in S : g[y] \in Int
  BY FS_RemoveElement
<1>2. SumFunctionOnSet(g, S \ {x}) = rest
  BY <1>1, SumSame
<1>3. SumFunctionOnSet(f, S) = f[x] + rest /\ SumFunctionOnSet(g, S) = g[x] + rest /\ rest \in Int
  BY <1>1, <1>2, SumTakeOut
<1> HIDE DEF rest
<1> QED BY <1>3

LEMMA SumZero ==
  ASSUME NEW S, IsFiniteSet(S), NEW f, \A x \in S : f[x] = 0
  PROVE  SumFunctionOnSet(f, S) = 0
<1> DEFINE G == {T \in SUBSET S : SumFunctionOnSet(f, T) = 0}
<1>1. ASSUME NEW T \in SUBSET S, \A U \in SUBSET T : U # T => U \in G PROVE T \in G
  <2>1. T # {} => SumFunctionOnSet(f, T) = f[Pick(T)] + SumFunctionOnSet(f, T \ {Pick(T)})
    BY FS_Subset, SumEquation
  <2>2. T # {} => Pick(T) \in T /\ T \ {Pick(T)} \in G
    BY <1>1, PickIn
  <2> QED BY <2>1, <2>2, SumEmpty
<1>2. S \in G
  <2>1. G \in SUBSET (SUBSET S)
    OBVIOUS
  <2> HIDE DEF G
  <2> QED BY <1>1, <2>1, FiniteInduction
<1> QED BY <1>2

\* The same for a function and its whole domain.
LEMMA SumFunctionAdd ==
  ASSUME NEW S, IsFiniteSet(S), NEW f \in [S -> Int], NEW x \in S, NEW n \in Int
  PROVE  /\ SumFunction(f) \in Int
         /\ SumFunction([f EXCEPT ![x] = f[x] + n]) = SumFunction(f) + n
<1> DEFINE g == [f EXCEPT ![x] = f[x] + n]
<1>1. DOMAIN f = S /\ DOMAIN g = S /\ g[x] = f[x] + n /\ \A y \in S \ {x} : g[y] = f[y]
  OBVIOUS
<1>2. SumFunction(f) = SumFunctionOnSet(f, S) /\ SumFunction(g) = SumFunctionOnSet(g, S)
  BY <1>1 DEF SumFunction
<1>3. f[x] \in Int /\ g[x] \in Int /\ \A y \in S : f[y] \in Int
  BY <1>1
<1> HIDE DEF g
<1>4. SumFunctionOnSet(f, S) \in Int
  BY <1>3, SumTakeOut
<1>5. SumFunctionOnSet(g, S) = SumFunctionOnSet(f, S) + (g[x] - f[x])
  BY <1>1, <1>3, SumChange
<1>6. g[x] - f[x] = n
  BY <1>1, <1>3
<1> QED BY <1>2, <1>4, <1>5, <1>6 DEF g

LEMMA SumFunctionInt ==
  ASSUME NEW S, IsFiniteSet(S), NEW f \in [S -> Int] PROVE SumFunction(f) \in Int
<1>1. SumFunction(f) = SumFunctionOnSet(f, S) /\ \A x \in S : f[x] \in Int
  BY DEF SumFunction
<1> QED BY <1>1, SumTakeOut

LEMMA SumFunctionChange ==
  ASSUME NEW S, IsFiniteSet(S), NEW f \in [S -> Int], NEW g \in [S -> Int], NEW x \in S,
         NEW n \in Int, g[x] = f[x] + n, \A y \in S \ {x} : g[y] = f[y]
  PROVE  SumFunction(g) = SumFunction(f) + n
<1>1. g = [f EXCEPT ![x] = f[x] + n]
  <2> DEFINE h == [f EXCEPT ![x] = f[x] + n]
  <2>1. \A y \in S : g[y] = h[y]
    OBVIOUS
  <2>2. h = [y \in S |-> h[y]] /\ g = [y \in S |-> g[y]]
    OBVIOUS
  <2> QED BY <2>1, <2>2
<1>2. SumFunction([f EXCEPT ![x] = f[x] + n]) = SumFunction(f) + n
  BY SumFunctionAdd
<1> QED BY <1>1, <1>2

LEMMA SumFunctionZero ==
  ASSUME NEW S, IsFiniteSet(S) PROVE SumFunction([x \in S |-> 0]) = 0
<1> DEFINE f == [x \in S |-> 0]
<1>1. SumFunction(f) = SumFunctionOnSet(f, S) /\ \A x \in S : f[x] = 0
  BY DEF SumFunction
<1> HIDE DEF f
<1>2. SumFunctionOnSet(f, S) = 0
  BY <1>1, SumZero
<1> QED BY <1>1, <1>2 DEF f

\* A sum over a list that gets one more element.
LEMMA SumFunctionAppend ==
  ASSUME NEW k \in Nat, NEW f \in [1 .. k -> Int], NEW g \in [1 .. k + 1 -> Int],
         \A i \in 1 .. k : g[i] = f[i]
  PROVE  SumFunction(g) = SumFunction(f) + g[k + 1]
<1>1. /\ 1 .. k + 1 = (1 .. k) \cup {k + 1} /\ k + 1 \notin 1 .. k
      /\ DOMAIN f = 1 .. k /\ DOMAIN g = 1 .. k + 1
  OBVIOUS
<1>2. IsFiniteSet(1 .. k)
  BY FS_Interval
<1>3. \A y \in (1 .. k) \cup {k + 1} : g[y] \in Int
  BY <1>1
<1>4. SumFunction(g) = SumFunctionOnSet(g, (1 .. k) \cup {k + 1})
      /\ SumFunction(f) = SumFunctionOnSet(f, 1 .. k)
  BY <1>1 DEF SumFunction
<1>5. SumFunctionOnSet(g, (1 .. k) \cup {k + 1}) = SumFunctionOnSet(g, 1 .. k) + g[k + 1]
  BY <1>1, <1>2, <1>3, SumAdd
<1>6. SumFunctionOnSet(g, 1 .. k) = SumFunctionOnSet(f, 1 .. k)
  BY <1>2, SumSame
<1> QED BY <1>4, <1>5, <1>6
-----------------------------------------------------------------------------
(* Sums of a beginning *)

Prefix(f, n) == SumFunctionOnSet(f, 0 .. n - 1)

LEMMA PrefixStep ==
  ASSUME NEW f, NEW n \in Nat, \A a \in 0 .. n : f[a] \in Int
  PROVE  Prefix(f, n + 1) = Prefix(f, n) + f[n]
<1>1. 0 .. (n + 1) - 1 = (0 .. n - 1) \cup {n} /\ n \notin 0 .. n - 1
  OBVIOUS
<1>2. IsFiniteSet(0 .. n - 1)
  BY FS_Interval
<1>3. \A a \in (0 .. n - 1) \cup {n} : f[a] \in Int
  OBVIOUS
<1> QED BY <1>1, <1>2, <1>3, SumAdd DEF Prefix

LEMMA PrefixNone == ASSUME NEW f PROVE Prefix(f, 0) = 0
<1>1. 0 .. 0 - 1 = {}
  OBVIOUS
<1> QED BY <1>1, SumEmpty DEF Prefix

LEMMA PrefixNat ==
  ASSUME NEW f, NEW n \in Nat, \A a \in 0 .. n - 1 : f[a] \in Nat
  PROVE  Prefix(f, n) \in Nat
<1> DEFINE G == {k \in Nat : k <= n => Prefix(f, k) \in Nat}
<1>1. 0 \in G
  BY PrefixNone
<1>2. ASSUME NEW k \in G PROVE k + 1 \in G
  <2>1. CASE k + 1 <= n
    <3>1. \A a \in 0 .. k : f[a] \in Int
      BY <2>1
    <3>2. Prefix(f, k + 1) = Prefix(f, k) + f[k]
      BY <3>1, PrefixStep
    <3> QED BY <2>1, <3>2
  <2>2. CASE ~(k + 1 <= n)
    BY <2>2
  <2> QED BY <2>1, <2>2
<1> HIDE DEF G
<1>3. \A k \in Nat : k \in G
  <2>1. G \in SUBSET Nat
    BY DEF G
  <2> QED BY <1>1, <1>2, <2>1, NumberInduction
<1> QED BY <1>3 DEF G

\* What was at a is at a + 1, and 0 begins.
LEMMA PrefixShift ==
  ASSUME NEW f, NEW g, NEW n \in Nat, g[0] = 0,
         \A a \in 0 .. n - 1 : f[a] \in Int /\ g[a + 1] = f[a]
  PROVE  Prefix(g, n + 1) = Prefix(f, n)
<1> DEFINE G == {k \in Nat : k <= n => Prefix(g, k + 1) = Prefix(f, k)}
<1>1. 0 \in G
  <2>1. \A a \in 0 .. 0 : g[a] \in Int
    OBVIOUS
  <2>2. Prefix(g, 0 + 1) = Prefix(g, 0) + g[0]
    BY <2>1, PrefixStep
  <2> QED BY <2>2, PrefixNone
<1>2. ASSUME NEW k \in G PROVE k + 1 \in G
  <2>1. CASE k + 1 <= n
    <3>1. (\A a \in 0 .. k : f[a] \in Int) /\ g[k + 1] = f[k]
      BY <2>1
    <3>2. \A a \in 0 .. k + 1 : g[a] \in Int
      <4> TAKE a \in 0 .. k + 1
      <4>1. CASE a = 0
        BY <4>1
      <4>2. CASE a # 0
        <5>1. a - 1 \in 0 .. n - 1 /\ (a - 1) + 1 = a
          BY <4>2, <2>1
        <5> QED BY <5>1
      <4> QED BY <4>1, <4>2
    <3>3. Prefix(f, k + 1) = Prefix(f, k) + f[k]
      BY <3>1, PrefixStep
    <3>4. Prefix(g, (k + 1) + 1) = Prefix(g, k + 1) + g[k + 1]
      BY <3>2, PrefixStep
    <3> QED BY <2>1, <3>1, <3>3, <3>4
  <2>2. CASE ~(k + 1 <= n)
    BY <2>2
  <2> QED BY <2>1, <2>2
<1> HIDE DEF G
<1>3. \A k \in Nat : k \in G
  <2>1. G \in SUBSET Nat
    BY DEF G
  <2> QED BY <1>1, <1>2, <2>1, NumberInduction
<1> QED BY <1>3 DEF G

\* A change at the beginning.
LEMMA PrefixChange ==
  ASSUME NEW f, NEW g, NEW n \in Nat \ {0}, NEW d \in Int, g[0] = f[0] + d,
         \A a \in 0 .. n - 1 : f[a] \in Int /\ (a # 0 => g[a] = f[a])
  PROVE  Prefix(g, n) = Prefix(f, n) + d
<1>1. IsFiniteSet(0 .. n - 1) /\ 0 \in 0 .. n - 1
  BY FS_Interval
<1>2. \A y \in 0 .. n - 1 : f[y] \in Int
  OBVIOUS
<1>3. g[0] \in Int /\ g[0] - f[0] = d
  BY <1>1, <1>2
<1>4. \A y \in (0 .. n - 1) \ {0} : g[y] = f[y]
  OBVIOUS
<1>5. SumFunctionOnSet(g, 0 .. n - 1) = SumFunctionOnSet(f, 0 .. n - 1) + (g[0] - f[0])
  <2> DEFINE S == 0 .. n - 1
  <2>1. IsFiniteSet(S) /\ 0 \in S /\ (\A y \in S : f[y] \in Int) /\ (\A y \in S \ {0} : g[y] = f[y])
    BY <1>1, <1>2, <1>4
  <2> HIDE DEF S
  <2>2. SumFunctionOnSet(g, S) = SumFunctionOnSet(f, S) + (g[0] - f[0])
    BY <2>1, <1>3, SumChange
  <2> QED BY <2>2 DEF S
<1> QED BY <1>3, <1>5 DEF Prefix
=============================================================================
