------------------------ MODULE OrchestrationProofs ------------------------
(***************************************************************************)
(* What holds of every workflow, however large and however it is run.      *)
(* First the sort: that Kahn's algorithm, layer by layer, ends, puts no    *)
(* node into two layers, and puts everything that a node depends on into   *)
(* layers before its own.  Then the invariant of an execution.             *)
(***************************************************************************)
EXTENDS Orchestration, Sums

\* A function on the numbers that is given by its first value and a step exists.
Iterates(f, a, b) == f[0] = a /\ \A k \in Nat : f[k + 1] = b[f[k]]
LEMMA Iteration ==
  ASSUME NEW D, NEW a \in D, NEW b \in [D -> D]
  PROVE  \E f \in [Nat -> D] : Iterates(f, a, b)
<1> DEFINE Path(h, n) == h[0] = a /\ \A k \in 0 .. n - 1 : h[k + 1] = b[h[k]]
           Paths(n) == {h \in [0 .. n -> D] : Path(h, n)}
           G == {n \in Nat : Paths(n) # {}}
           U == {k \in Nat : \A m, n \in Nat : k <= m /\ k <= n =>
                               \A h \in Paths(m), i \in Paths(n) : h[k] = i[k]}
<1>1. \A n \in Nat : n \in G
  <2>1. [k \in 0 .. 0 |-> a] \in Paths(0)
    OBVIOUS
  <2>2. ASSUME NEW n \in Nat, n \in G PROVE n + 1 \in G
    <3>1. PICK h \in Paths(n) : TRUE
      BY <2>2
    <3> DEFINE i == [k \in 0 .. n + 1 |-> IF k = n + 1 THEN b[h[n]] ELSE h[k]]
    <3>2. \A k \in 0 .. n : i[k] = h[k] /\ i[k] \in D
      BY <3>1
    <3>3. i[n + 1] = b[i[n]] /\ i[n + 1] \in D
      BY <3>2
    <3>4. i \in [0 .. n + 1 -> D]
      BY <3>2, <3>3
    <3>5. \A k \in 0 .. (n + 1) - 1 : i[k + 1] = b[i[k]]
      BY <3>1, <3>2, <3>3
    <3>6. i[0] = a
      BY <3>1, <3>2
    <3> HIDE DEF i
    <3> QED BY <3>4, <3>5, <3>6
  <2>3. G \in SUBSET Nat /\ 0 \in G
    BY <2>1
  <2> HIDE DEF G
  <2> QED BY <2>2, <2>3, NumberInduction
<1>2. \A k \in Nat : k \in U
  <2>1. 0 \in U
    OBVIOUS
  <2>2. ASSUME NEW k \in Nat, k \in U PROVE k + 1 \in U
    <3>1. ASSUME NEW m \in Nat, NEW n \in Nat, k + 1 <= m, k + 1 <= n,
                 NEW h \in Paths(m), NEW i \in Paths(n)
          PROVE  h[k + 1] = i[k + 1]
      <4>1. h[k] = i[k]
        <5>1. k <= m /\ k <= n
          BY <3>1
        <5> HIDE DEF Paths
        <5> QED BY <2>2, <3>1, <5>1
      <4>2. k \in 0 .. m - 1 /\ k \in 0 .. n - 1
        BY <3>1
      <4> QED BY <3>1, <4>1, <4>2
    <3> HIDE DEF Paths
    <3> QED BY <3>1
  <2>3. U \in SUBSET Nat
    OBVIOUS
  <2> HIDE DEF U
  <2> QED BY <2>1, <2>2, <2>3, NumberInduction
<1> DEFINE P(n) == CHOOSE h \in Paths(n) : TRUE
           f == [k \in Nat |-> P(k)[k]]
<1>3. \A n \in Nat : P(n) \in Paths(n)
  <2> HIDE DEF Paths
  <2> QED BY <1>1
<1>4. f \in [Nat -> D]
  <2>1. ASSUME NEW k \in Nat PROVE P(k)[k] \in D
    <3>1. P(k) \in [0 .. k -> D]
      BY <1>3
    <3> QED BY <3>1
  <2> QED BY <2>1
<1>5. f[0] = a
  BY <1>3
<1>6. ASSUME NEW k \in Nat PROVE f[k + 1] = b[f[k]]
  <2>0. P(k + 1) \in Paths(k + 1) /\ P(k) \in Paths(k)
    <3>1. k + 1 \in Nat
      OBVIOUS
    <3> HIDE DEF P, Paths
    <3> QED BY <1>3, <3>1
  <2>1. P(k + 1)[k + 1] = b[P(k + 1)[k]]
    <3>1. k \in 0 .. (k + 1) - 1
      OBVIOUS
    <3> HIDE DEF P
    <3> QED BY <2>0, <3>1
  <2>2. P(k + 1)[k] = P(k)[k]
    <3>1. k <= k + 1 /\ k <= k /\ k + 1 \in Nat
      OBVIOUS
    <3>2. k \in U
      BY <1>2
    <3> HIDE DEF P, Paths
    <3> QED BY <2>0, <3>1, <3>2
  <2> QED BY <2>1, <2>2
<1> QED BY <1>4, <1>5, <1>6 DEF Iterates
-----------------------------------------------------------------------------
(* The sort *)

\* What n depends on in g.
Needs(g, n) == {m \in Nodes : <<m, n>> \in g.edges} \cup g.deps[n]

LEMMA GraphTypes ==
  ASSUME OrchestrationAssumption, NEW g \in Workflows, NEW n \in Nodes, NEW S \in SUBSET Nodes
  PROVE  /\ IsFiniteSet(S) /\ IsFiniteSet({m \in S : <<m, n>> \in g.edges})
         /\ IsFiniteSet(g.deps[n] \cap S) /\ g.deps[n] \subseteq Nodes /\ Needs(g, n) \subseteq Nodes
<1>1. g.deps \in [Nodes -> SUBSET Nodes] /\ IsFiniteSet(Nodes)
  BY DEF OrchestrationAssumption
<1>2. \A T \in SUBSET Nodes : IsFiniteSet(T)
  BY <1>1, FS_Subset
<1> QED BY <1>1, <1>2 DEF Needs

LEMMA ArrowsNat ==
  ASSUME OrchestrationAssumption, NEW g \in Workflows, NEW n \in Nodes, NEW S \in SUBSET Nodes
  PROVE  /\ Arrows(g, S, n) \in Nat
         /\ Arrows(g, S, n) = 0 <=> S \cap Needs(g, n) = {}
<1> DEFINE E == {m \in S : <<m, n>> \in g.edges}
           F == g.deps[n] \cap S
<1>1. /\ IsFiniteSet(E) /\ IsFiniteSet(F)
  BY GraphTypes
<1>2. Arrows(g, S, n) = Cardinality(E) + Cardinality(F)
  BY DEF Arrows
<1>3. S \cap Needs(g, n) = E \cup F
  BY DEF Needs
<1> HIDE DEF E, F
<1>4. Cardinality(E) \in Nat /\ Cardinality(F) \in Nat
  BY <1>1, FS_CardinalityType
<1>5. (Cardinality(E) = 0 <=> E = {}) /\ (Cardinality(F) = 0 <=> F = {})
  BY <1>1, FS_EmptySet
<1>6. Cardinality(E) + Cardinality(F) = 0 <=> Cardinality(E) = 0 /\ Cardinality(F) = 0
  BY <1>4
<1>7. Cardinality(E) + Cardinality(F) \in Nat
  BY <1>4
<1> QED BY <1>2, <1>3, <1>5, <1>6, <1>7

LEMMA ArrowsSplit ==
  ASSUME OrchestrationAssumption, NEW g \in Workflows, NEW n \in Nodes,
         NEW S \in SUBSET Nodes, NEW T \in SUBSET Nodes, S \cap T = {}
  PROVE  Arrows(g, S \cup T, n) = Arrows(g, S, n) + Arrows(g, T, n)
<1> DEFINE E(X) == {m \in X : <<m, n>> \in g.edges}
           F(X) == g.deps[n] \cap X
<1>1. \A X \in SUBSET Nodes : IsFiniteSet(E(X)) /\ IsFiniteSet(F(X))
  BY GraphTypes
<1>2. \A X \in SUBSET Nodes : Arrows(g, X, n) = Cardinality(E(X)) + Cardinality(F(X))
  BY DEF Arrows
<1>3. /\ E(S \cup T) = E(S) \cup E(T) /\ E(S) \cap E(T) = {}
      /\ F(S \cup T) = F(S) \cup F(T) /\ F(S) \cap F(T) = {}
  OBVIOUS
<1>4. S \cup T \in SUBSET Nodes
  OBVIOUS
<1> HIDE DEF E, F
<1>5. /\ Cardinality(E(S \cup T)) = Cardinality(E(S)) + Cardinality(E(T)) - Cardinality({})
      /\ Cardinality(F(S \cup T)) = Cardinality(F(S)) + Cardinality(F(T)) - Cardinality({})
  <2>1. /\ IsFiniteSet(E(S)) /\ IsFiniteSet(E(T)) /\ IsFiniteSet(F(S)) /\ IsFiniteSet(F(T))
    BY <1>1
  <2>2. Cardinality(E(S) \cup E(T)) = Cardinality(E(S)) + Cardinality(E(T)) - Cardinality(E(S) \cap E(T))
    BY <2>1, FS_Union
  <2>3. Cardinality(F(S) \cup F(T)) = Cardinality(F(S)) + Cardinality(F(T)) - Cardinality(F(S) \cap F(T))
    BY <2>1, FS_Union
  <2> QED BY <1>3, <2>2, <2>3
<1>6. Cardinality({}) = 0
  BY FS_EmptySet
<1>7. /\ Cardinality(E(S)) \in Nat /\ Cardinality(E(T)) \in Nat
      /\ Cardinality(F(S)) \in Nat /\ Cardinality(F(T)) \in Nat
  BY <1>1, FS_CardinalityType
<1>8. /\ Arrows(g, S \cup T, n) = Cardinality(E(S \cup T)) + Cardinality(F(S \cup T))
      /\ Arrows(g, S, n) = Cardinality(E(S)) + Cardinality(F(S))
      /\ Arrows(g, T, n) = Cardinality(E(T)) + Cardinality(F(T))
  BY <1>2, <1>4
<1> QED BY <1>5, <1>6, <1>7, <1>8

\* The recursion of Rounds, as an equation: the front of a round is a function of the last.
Fronts == [left : [Nodes -> Int], queue : SUBSET Nodes]
First(g) ==
  LET deg == [n \in Nodes |-> Arrows(g, Nodes, n)]
  IN  [left |-> deg, queue |-> {n \in Nodes : deg[n] = 0}]
Follow(g, before) ==
  LET hit == {n \in Nodes : Arrows(g, before.queue, n) > 0}
      left == [n \in Nodes |-> before.left[n] - Arrows(g, before.queue, n)]
  IN  [left |-> left, queue |-> {n \in hit : Ripe(left, n)}]
AreRounds(g, R) == R = [k \in Nat |-> IF k = 0 THEN First(g) ELSE Follow(g, R[k - 1])]

LEMMA RoundsUnfold == ASSUME NEW g PROVE Rounds(g) = CHOOSE R : AreRounds(g, R)
  BY DEF Rounds, AreRounds, First, Follow

LEMMA RoundsEquation ==
  ASSUME OrchestrationAssumption, NEW g \in Workflows
  PROVE  /\ Rounds(g)[0] = First(g)
         /\ \A k \in Nat : Rounds(g)[k] \in Fronts /\ Rounds(g)[k + 1] = Follow(g, Rounds(g)[k])
<1>1. First(g) \in Fronts
  <2>1. Nodes \in SUBSET Nodes /\ \A n \in Nodes : Arrows(g, Nodes, n) \in Int
    BY ArrowsNat
  <2> QED BY <2>1 DEF First, Fronts
<1>2. \A s \in Fronts : Follow(g, s) \in Fronts
  <2>1. ASSUME NEW s \in Fronts PROVE Follow(g, s) \in Fronts
    <3>1. \A n \in Nodes : Arrows(g, s.queue, n) \in Int /\ s.left[n] \in Int
      BY ArrowsNat DEF Fronts
    <3>2. \A n \in Nodes : s.left[n] - Arrows(g, s.queue, n) \in Int
      BY <3>1
    <3> QED BY <3>2 DEF Follow, Fronts
  <2> QED BY <2>1
<1> DEFINE b == [s \in Fronts |-> Follow(g, s)]
<1>3. b \in [Fronts -> Fronts] /\ \A s \in Fronts : b[s] = Follow(g, s)
  BY <1>2
<1> HIDE DEF b
<1>4. PICK f \in [Nat -> Fronts] : Iterates(f, First(g), b)
  <2>1. b \in [Fronts -> Fronts]
    BY <1>3
  <2> QED BY <1>1, <2>1, Iteration
<1>5. f[0] = First(g) /\ \A k \in Nat : f[k + 1] = Follow(g, f[k])
  BY <1>3, <1>4 DEF Iterates
<1>6. AreRounds(g, f)
  <2> DEFINE h == [k \in Nat |-> IF k = 0 THEN First(g) ELSE Follow(g, f[k - 1])]
  <2>1. ASSUME NEW k \in Nat PROVE f[k] = h[k]
    <3>1. CASE k = 0
      BY <1>5, <3>1
    <3>2. CASE k # 0
      <4>1. k - 1 \in Nat /\ (k - 1) + 1 = k
        BY <3>2
      <4>2. f[(k - 1) + 1] = Follow(g, f[k - 1])
        BY <1>5, <4>1
      <4> QED BY <3>2, <4>1, <4>2
    <3> QED BY <3>1, <3>2
  <2>2. f = [k \in Nat |-> f[k]] /\ h = [k \in Nat |-> h[k]]
    OBVIOUS
  <2>3. f = h
    <3> HIDE DEF h
    <3> QED BY <2>1, <2>2
  <2> QED BY <2>3 DEF AreRounds
<1>7. AreRounds(g, Rounds(g))
  BY <1>6, RoundsUnfold
<1> DEFINE R == Rounds(g)
<1> HIDE DEF R
<1>8. R = [k \in Nat |-> IF k = 0 THEN First(g) ELSE Follow(g, R[k - 1])]
  BY <1>7 DEF AreRounds, R
<1>9. R[0] = First(g) /\ \A k \in Nat : R[k + 1] = Follow(g, R[k])
  <2>1. ASSUME NEW k \in Nat PROVE R[k + 1] = Follow(g, R[k])
    <3>1. k + 1 \in Nat /\ k + 1 # 0 /\ (k + 1) - 1 = k
      OBVIOUS
    <3>2. R[k + 1] = IF k + 1 = 0 THEN First(g) ELSE Follow(g, R[(k + 1) - 1])
      BY <1>8, <3>1
    <3> QED BY <3>1, <3>2
  <2>2. R[0] = First(g)
    BY <1>8
  <2> QED BY <2>1, <2>2
<1>10. \A k \in Nat : R[k] \in Fronts
  <2> DEFINE G == {k \in Nat : R[k] \in Fronts}
  <2>1. G \in SUBSET Nat /\ 0 \in G /\ \A k \in G : k + 1 \in G
    BY <1>1, <1>2, <1>9
  <2>2. \A k \in Nat : k \in G
    <3> HIDE DEF G
    <3> QED BY <2>1, NumberInduction
  <2> QED BY <2>2
<1> QED BY <1>9, <1>10 DEF R

\* What was in a queue before round k, and what was not.
Done(g, k) == UNION {Rounds(g)[j].queue : j \in 0 .. k - 1}
Rest(g, k) == Nodes \ Done(g, k)

LEMMA DoneGrows ==
  ASSUME OrchestrationAssumption, NEW g \in Workflows, NEW k \in Nat
  PROVE  /\ Done(g, 0) = {} /\ Done(g, k) \subseteq Nodes
         /\ Done(g, k + 1) = Done(g, k) \cup Rounds(g)[k].queue
         /\ \A j \in 0 .. k : Done(g, j) \subseteq Done(g, k)
<1>1. 0 .. (k + 1) - 1 = (0 .. k - 1) \cup {k}
  OBVIOUS
<1>2. Done(g, k + 1) = Done(g, k) \cup Rounds(g)[k].queue
  BY <1>1 DEF Done
<1>3. \A j \in 0 .. k : 0 .. j - 1 \subseteq 0 .. k - 1
  OBVIOUS
<1>4. \A j \in 0 .. k : Done(g, j) \subseteq Done(g, k)
  BY <1>3 DEF Done
<1>5. \A j \in Nat : Rounds(g)[j].queue \subseteq Nodes
  BY RoundsEquation DEF Fronts
<1>6. Done(g, k) \subseteq Nodes
  BY <1>5 DEF Done
<1>7. Done(g, 0) = {}
  BY DEF Done
<1> QED BY <1>2, <1>4, <1>6, <1>7

\* The in-degrees that are left count the arrows from nodes that were in no queue yet; a
\* node enters a queue once, when nothing points to it from those.
Kahn(g, k) ==
  /\ \A n \in Nodes : Rounds(g)[k].left[n] = Arrows(g, Rest(g, k), n)
  /\ Rounds(g)[k].queue \subseteq Rest(g, k)
  /\ \A n \in Rounds(g)[k].queue : Rest(g, k) \cap Needs(g, n) = {}
  /\ \A n \in Rest(g, k) : Rest(g, k) \cap Needs(g, n) = {} => n \in Rounds(g)[k].queue

LEMMA KahnHolds ==
  ASSUME OrchestrationAssumption, NEW g \in Workflows PROVE \A k \in Nat : Kahn(g, k)
<1> DEFINE Q(k) == Rounds(g)[k].queue
           L(k) == Rounds(g)[k].left
           G == {k \in Nat : \A j \in 0 .. k : Kahn(g, j)}
<1>1. Kahn(g, 0)
  <2>1. Rest(g, 0) = Nodes
    BY DoneGrows DEF Rest
  <2>2. /\ \A n \in Nodes : L(0)[n] = Arrows(g, Nodes, n)
        /\ Q(0) = {n \in Nodes : Arrows(g, Nodes, n) = 0}
    <3>1. Rounds(g)[0] = First(g)
      BY RoundsEquation
    <3>2. L(0) = [n \in Nodes |-> Arrows(g, Nodes, n)]
      BY <3>1 DEF First
    <3>3. Q(0) = {n \in Nodes : L(0)[n] = 0}
      BY <3>1 DEF First
    <3> QED BY <3>2, <3>3
  <2>3. \A n \in Nodes : n \in Q(0) <=> Nodes \cap Needs(g, n) = {}
    BY <2>2, ArrowsNat
  <2> QED BY <2>1, <2>2, <2>3 DEF Kahn
<1>2. ASSUME NEW k \in Nat, \A j \in 0 .. k : Kahn(g, j) PROVE Kahn(g, k + 1)
  <2> DEFINE Old == Rest(g, k)
             New == Rest(g, k + 1)
  <2>1. /\ Q(k) \subseteq Nodes /\ Q(k + 1) \subseteq Nodes
        /\ Rounds(g)[k + 1] = Follow(g, Rounds(g)[k])
    BY RoundsEquation DEF Fronts
  <2>2. /\ \A n \in Nodes : L(k + 1)[n] = L(k)[n] - Arrows(g, Q(k), n)
        /\ Q(k + 1) = {n \in Nodes : Arrows(g, Q(k), n) > 0 /\ L(k + 1)[n] = 0}
    BY <2>1 DEF Follow, Ripe
  <2>3. Kahn(g, k) /\ Q(k) \subseteq Old
    BY <1>2 DEF Kahn
  <2>4. Old = New \cup Q(k) /\ New \cap Q(k) = {} /\ New \subseteq Nodes /\ Old \subseteq Nodes
    BY <2>1, <2>3, DoneGrows DEF Rest
  <2>5. ASSUME NEW n \in Nodes PROVE L(k + 1)[n] = Arrows(g, New, n)
    <3>1. L(k)[n] = Arrows(g, Old, n)
      BY <2>3 DEF Kahn
    <3>2. Arrows(g, Old, n) = Arrows(g, New, n) + Arrows(g, Q(k), n)
      BY <2>1, <2>4, ArrowsSplit
    <3>3. Arrows(g, New, n) \in Nat /\ Arrows(g, Q(k), n) \in Nat
      BY <2>1, <2>4, ArrowsNat
    <3>4. L(k + 1)[n] = L(k)[n] - Arrows(g, Q(k), n)
      BY <2>2
    <3> QED BY <3>1, <3>2, <3>3, <3>4
  <2>6. \A n \in Q(k + 1) : New \cap Needs(g, n) = {}
    BY <2>2, <2>4, <2>5, ArrowsNat
  <2>7. ASSUME NEW n \in Q(k + 1), n \in Done(g, k + 1) PROVE FALSE
    <3>1. PICK m \in Q(k) : m \in Needs(g, n)
      <4>1. Arrows(g, Q(k), n) > 0 /\ n \in Nodes
        BY <2>2
      <4>2. Arrows(g, Q(k), n) # 0
        BY <4>1
      <4> QED BY <2>1, <4>1, <4>2, ArrowsNat
    <3>2. PICK j \in 0 .. k : n \in Q(j)
      <4>1. 0 .. (k + 1) - 1 = 0 .. k
        OBVIOUS
      <4> QED BY <2>7, <4>1 DEF Done
    <3>3. Rest(g, j) \cap Needs(g, n) = {}
      BY <1>2, <3>2 DEF Kahn
    <3>4. m \in Rest(g, j)
      BY <2>3, <3>1, <3>2, DoneGrows DEF Rest
    <3> QED BY <3>1, <3>3, <3>4
  <2>8. Q(k + 1) \subseteq New
    BY <2>1, <2>7 DEF Rest
  <2>9. ASSUME NEW n \in New, New \cap Needs(g, n) = {} PROVE n \in Q(k + 1)
    <3>1. n \in Nodes /\ n \in Old /\ n \notin Q(k)
      BY <2>4
    <3>2. Q(k) \cap Needs(g, n) # {}
      BY <2>3, <2>4, <2>9, <3>1 DEF Kahn
    <3>3. Arrows(g, Q(k), n) \in Nat /\ Arrows(g, Q(k), n) # 0
      BY <2>1, <3>1, <3>2, ArrowsNat
    <3>4. L(k + 1)[n] = 0
      BY <2>4, <2>5, <2>9, <3>1, ArrowsNat
    <3> QED BY <2>2, <3>1, <3>3, <3>4
  <2> QED BY <2>5, <2>6, <2>8, <2>9 DEF Kahn
<1>3. G \in SUBSET Nat /\ 0 \in G
  BY <1>1
<1>4. ASSUME NEW k \in G PROVE k + 1 \in G
  <2>1. k \in Nat /\ (\A j \in 0 .. k : Kahn(g, j)) /\ 0 .. k + 1 = (0 .. k) \cup {k + 1}
    BY <1>4
  <2> QED BY <1>2, <2>1
<1>5. \A k \in Nat : k \in G
  <2> HIDE DEF G
  <2> QED BY <1>3, <1>4, NumberInduction
<1>6. \A k \in Nat : k \in 0 .. k
  OBVIOUS
<1> QED BY <1>5, <1>6

\* Some queue is empty: each queue before it takes a node at least.
LEMMA DepthExists ==
  ASSUME OrchestrationAssumption, NEW g \in Workflows
  PROVE  /\ Depth(g) \in 0 .. Cardinality(Nodes)
         /\ \A j \in 0 .. Depth(g) - 1 : Rounds(g)[j].queue # {}
         /\ Rounds(g)[Depth(g)].queue = {}
<1> DEFINE Q(k) == Rounds(g)[k].queue
           N == Cardinality(Nodes)
           Ends(k) == Q(k) = {} /\ \A j \in 0 .. k - 1 : Q(j) # {}
           Full(k) == (\A j \in 0 .. k - 1 : Q(j) # {}) /\ Cardinality(Done(g, k)) >= k
           G == {k \in Nat : k <= N + 1 => Full(k)}
<1>1. IsFiniteSet(Nodes) /\ N \in Nat
  BY FS_CardinalityType DEF OrchestrationAssumption
<1>2. ASSUME \A k \in 0 .. N : ~Ends(k) PROVE FALSE
  <2>1. 0 \in G
    <3>1. Cardinality(Done(g, 0)) = 0
      BY DoneGrows, FS_EmptySet
    <3> QED BY <3>1
  <2>2. ASSUME NEW k \in Nat, k \in G PROVE k + 1 \in G
    <3>1. SUFFICES ASSUME k + 1 <= N + 1 PROVE Full(k + 1)
      BY <2>2
    <3>2. Full(k) /\ k \in 0 .. N
      BY <1>1, <2>2, <3>1
    <3>3. Q(k) # {}
      BY <1>2, <3>2
    <3>4. \A j \in 0 .. (k + 1) - 1 : Q(j) # {}
      <4>1. 0 .. (k + 1) - 1 = (0 .. k - 1) \cup {k}
        OBVIOUS
      <4> QED BY <3>2, <3>3, <4>1
    <3>5. PICK x \in Q(k) : x \notin Done(g, k)
      BY <3>3, KahnHolds DEF Kahn, Rest
    <3>6. /\ IsFiniteSet(Done(g, k)) /\ IsFiniteSet(Done(g, k + 1))
          /\ Done(g, k) \cup {x} \in SUBSET Done(g, k + 1)
      <4>1. k + 1 \in Nat
        OBVIOUS
      <4>2. Done(g, k) \in SUBSET Nodes /\ Done(g, k + 1) \in SUBSET Nodes
        BY <4>1, DoneGrows
      <4>3. Done(g, k) \cup {x} \in SUBSET Done(g, k + 1)
        BY <3>5, DoneGrows
      <4> QED BY <1>1, <4>2, <4>3, FS_Subset
    <3>7. Cardinality(Done(g, k) \cup {x}) = Cardinality(Done(g, k)) + 1
      BY <3>5, <3>6, FS_AddElement
    <3>8. Cardinality(Done(g, k) \cup {x}) <= Cardinality(Done(g, k + 1))
      BY <3>6, FS_Subset
    <3>9. Cardinality(Done(g, k)) \in Nat /\ Cardinality(Done(g, k + 1)) \in Nat
      BY <3>6, FS_CardinalityType
    <3>10. Cardinality(Done(g, k)) >= k
      BY <3>2
    <3>11. Cardinality(Done(g, k + 1)) >= k + 1
      BY <3>7, <3>8, <3>9, <3>10
    <3> QED BY <3>4, <3>11
  <2>3. N + 1 \in G
    <3>1. G \in SUBSET Nat /\ N + 1 \in Nat
      BY <1>1
    <3> HIDE DEF G
    <3> QED BY <2>1, <2>2, <3>1, NumberInduction
  <2>4. Cardinality(Done(g, N + 1)) >= N + 1
    BY <1>1, <2>3
  <2>5. Done(g, N + 1) \in SUBSET Nodes
    BY <1>1, DoneGrows
  <2>6. Cardinality(Done(g, N + 1)) <= N /\ Cardinality(Done(g, N + 1)) \in Nat
    BY <1>1, <2>5, FS_Subset, FS_CardinalityType
  <2> QED BY <1>1, <2>4, <2>6
<1>3. Depth(g) = CHOOSE k \in 0 .. N : Ends(k)
  BY DEF Depth
<1>4. Depth(g) \in 0 .. N /\ Ends(Depth(g))
  <2> HIDE DEF Ends
  <2> QED BY <1>2, <1>3
<1> QED BY <1>4

\* The layers hold different nodes, and what a node depends on is in layers before its own.
Layered(g, ls) ==
  /\ ls \in Seq((SUBSET Nodes) \ {{}})
  /\ \A i, j \in 1 .. Len(ls) : i # j => ls[i] \cap ls[j] = {}
  /\ \A i \in 1 .. Len(ls) : \A n \in ls[i] : \A m \in Needs(g, n) : \E j \in 1 .. i - 1 : m \in ls[j]

\* What the sort promises, of every graph: the layers are disjoint, and whatever a node
\* depends on stands in a layer before its own (_topological_sort_layers).
THEOREM SortIsSound ==
  ASSUME OrchestrationAssumption, NEW g \in Workflows PROVE Layered(g, Layers(g))
<1> DEFINE Q(k) == Rounds(g)[k].queue
           ls == Layers(g)
           d == Depth(g)
<1>0. d \in Nat /\ \A i \in 1 .. d : i - 1 \in 0 .. d - 1 /\ i - 1 \in Nat
  BY DepthExists, FS_CardinalityType DEF OrchestrationAssumption
<1>1. ls = [i \in 1 .. d |-> Q(i - 1)]
  BY DEF Layers
<1>2. \A i \in 1 .. d : ls[i] = Q(i - 1) /\ Q(i - 1) \in (SUBSET Nodes) \ {{}}
  BY <1>0, <1>1, DepthExists, RoundsEquation DEF Fronts
<1>3. ls \in Seq((SUBSET Nodes) \ {{}}) /\ Len(ls) = d
  <2> DEFINE S == (SUBSET Nodes) \ {{}}
  <2> HIDE DEF d, Q, ls, S
  <2>1. ls \in [1 .. d -> S]
    BY <1>1, <1>2 DEF S
  <2> QED BY <1>0, <2>1 DEF S
<1>4. \A i \in 1 .. d, j \in 1 .. d : i < j => ls[i] \cap ls[j] = {}
  <2> SUFFICES ASSUME NEW i \in 1 .. d, NEW j \in 1 .. d, i < j PROVE ls[i] \cap ls[j] = {}
    OBVIOUS
  <2>1. i - 1 \in 0 .. (j - 1) - 1
    BY <1>0
  <2>2. Q(i - 1) \subseteq Done(g, j - 1)
    BY <2>1 DEF Done
  <2>3. Q(j - 1) \cap Done(g, j - 1) = {}
    BY <1>0, KahnHolds DEF Kahn, Rest
  <2> QED BY <1>2, <2>2, <2>3
<1>5. ASSUME NEW i \in 1 .. d, NEW n \in ls[i], NEW m \in Needs(g, n)
      PROVE  \E j \in 1 .. i - 1 : m \in ls[j]
  <2>1. n \in Q(i - 1) /\ n \in Nodes
    BY <1>2
  <2>2. m \in Nodes /\ m \notin Rest(g, i - 1)
    <3>1. Needs(g, n) \subseteq Nodes
      BY <2>1, GraphTypes
    <3> QED BY <1>0, <2>1, <3>1, KahnHolds DEF Kahn
  <2>3. PICK j \in 0 .. (i - 1) - 1 : m \in Q(j)
    BY <2>2 DEF Rest, Done
  <2>4. j + 1 \in 1 .. i - 1 /\ j + 1 \in 1 .. d /\ (j + 1) - 1 = j
    BY <1>0
  <2>5. ls[j + 1] = Q((j + 1) - 1)
    BY <1>2, <2>4
  <2> QED BY <2>3, <2>4, <2>5
<1> HIDE DEF ls, d
<1>6. \A i, j \in 1 .. Len(ls) : i # j => ls[i] \cap ls[j] = {}
  <2> SUFFICES ASSUME NEW i \in 1 .. d, NEW j \in 1 .. d, i # j PROVE ls[i] \cap ls[j] = {}
    BY <1>3
  <2>1. i < j \/ j < i
    BY <1>0
  <2>2. ls[i] \cap ls[j] = ls[j] \cap ls[i]
    OBVIOUS
  <2> QED BY <1>4, <2>1, <2>2
<1> QED BY <1>3, <1>5, <1>6 DEF Layered, ls

\* And it refuses cycles alone: a node that is in no layer depends on another that is in none.
THEOREM OnlyCyclesAreRefused ==
  ASSUME OrchestrationAssumption, NEW g \in Workflows,
         NEW n \in Nodes \ UNION {Layers(g)[i] : i \in DOMAIN Layers(g)}
  PROVE  \E m \in Needs(g, n) : m \in Nodes \ UNION {Layers(g)[i] : i \in DOMAIN Layers(g)}
<1> DEFINE d == Depth(g)
           All == UNION {Layers(g)[i] : i \in DOMAIN Layers(g)}
<1>1. d \in Nat
  BY DepthExists, FS_CardinalityType DEF OrchestrationAssumption
<1>2. \A i \in 1 .. d : Layers(g)[i] = Rounds(g)[i - 1].queue
  BY DEF Layers
<1>3. DOMAIN Layers(g) = 1 .. d
  BY DEF Layers
<1>4. ASSUME NEW m PROVE m \in All <=> m \in Done(g, d)
  <2>1. ASSUME m \in All PROVE m \in Done(g, d)
    <3>1. PICK i \in 1 .. d : m \in Layers(g)[i]
      BY <1>3, <2>1
    <3>2. i - 1 \in 0 .. d - 1
      BY <1>1
    <3> QED BY <1>2, <3>1, <3>2 DEF Done
  <2>2. ASSUME m \in Done(g, d) PROVE m \in All
    <3>1. PICK j \in 0 .. d - 1 : m \in Rounds(g)[j].queue
      BY <2>2 DEF Done
    <3>2. j + 1 \in 1 .. d /\ (j + 1) - 1 = j
      BY <1>1
    <3>3. Layers(g)[j + 1] = Rounds(g)[(j + 1) - 1].queue
      BY <1>2, <3>2
    <3> QED BY <1>3, <3>1, <3>2, <3>3
  <2> QED BY <2>1, <2>2
<1>5. n \in Rest(g, d)
  BY <1>4 DEF Rest
<1>6. Kahn(g, d) /\ Rounds(g)[d].queue = {}
  BY <1>1, KahnHolds, DepthExists
<1>7. PICK m \in Rest(g, d) : m \in Needs(g, n)
  BY <1>5, <1>6 DEF Kahn
<1> QED BY <1>4, <1>7 DEF Rest
-----------------------------------------------------------------------------
(* The execution *)

Past == UNION {layers[i] : i \in 1 .. at - 1}
Moved(n) == node[n] # "none"

\* The layers are those of the sort; the runner is in one of them, or has passed them all.
Plan ==
  /\ pc = "created" => layers = <<>> /\ at = 1
  /\ pc # "created" => Layered(workflow, layers)
  /\ pc \in {"refresh", "layer"} => AllScheduled(layers)
  /\ pc = "layer" => at <= Len(layers)

\* Nodes move in the layer in turn, those of the layers before it have completed, those
\* behind it have not begun.
InTurn ==
  /\ \A n \in Past : node[n] = "completed"
  /\ \A n \in Nodes : Moved(n) => n \in Past \/ (pc \notin {"created", "refresh"} /\ at <= Len(layers) /\ n \in layers[at])
  /\ \A n \in Nodes : node[n] \in {"running", "asked"} => pc = "layer"

\* Every failure is known to the runner, and so is every limit that was reached.
Known ==
  /\ \A n \in Nodes : node[n] = "failed" => raised
  /\ pc \in {"created", "refresh"} => ~raised
  /\ ~raised => SpentOn(Nodes) < HardLimit

\* "completed" is written once, at the end.
Ended ==
  "completed" \in {status, own} => /\ pc = "done"
                                   /\ \A n \in Nodes : node[n] = "completed"
                                   /\ SpentOn(Nodes) < HardLimit

\* An approval that was asked for stops the runner behind its layer: until somebody resumes
\* the execution, its status is one that the next refresh leaves at.
Held(h) == h \in Approvals /\ node[h] \in {"asked", "completed"} /\ ~resumed
Gate ==
  /\ pc = "layer" /\ own = "paused" => status \in Stopped \/ resumed
  /\ \A h \in Nodes : Held(h) =>
       /\ pc \in {"refresh", "layer"} => status \in Stopped
       /\ pc = "layer" => h \in layers[at]
       /\ \A i, j \in 1 .. Len(layers) : \A n \in layers[j] : Moved(n) /\ h \in layers[i] => j <= i

RunInv == TypeOK /\ Plan /\ InTurn /\ Known /\ OverspendIsOneLayer /\ Ended /\ Gate

LEMMA InitRun == OrchestrationAssumption /\ Init => RunInv
<1> SUFFICES ASSUME OrchestrationAssumption, Init PROVE RunInv
  OBVIOUS
<1>1. TypeOK
  <2>1. layers \in Seq((SUBSET Nodes) \ {{}}) /\ at \in 1 .. Len(layers) + 1
    BY DEF Init
  <2>2. calls \in 0 .. MaxCalls
    BY DEF OrchestrationAssumption, Init
  <2>3. seen \in [Callers -> DOMAIN Allowed \cup {None}]
    BY DEF Init
  <2> QED BY <2>1, <2>2, <2>3 DEF Init, TypeOK
<1>2. Past = {} /\ SpentOn(Nodes) = 0
  <2>1. 1 .. at - 1 = {} /\ {n \in Nodes : node[n] = "completed"} = {}
    BY DEF Init
  <2> QED BY <2>1, SumEmpty DEF Past, SpentOn
<1>3. SpentOn(Nodes) < HardLimit
  BY <1>2 DEF Init, HardLimit, OrchestrationAssumption
<1>4. \A n \in Nodes : node[n] = "none"
  BY DEF Init
<1> QED BY <1>1, <1>2, <1>3, <1>4
        DEF Init, RunInv, Plan, InTurn, Known, OverspendIsOneLayer, Ended, Gate, Moved, Held

\* What is known of the layer in turn, in which the nodes move.
NodeStates == {"none", "running", "asked", "completed", "failed"}
InHand(n) == node[n] \in {"running", "asked"} \/ (pc = "layer" /\ n \in layers[at])
LEMMA InLayer ==
  ASSUME RunInv, NEW n \in Nodes, InHand(n)
  PROVE  pc = "layer" /\ at \in 1 .. Len(layers) /\ n \in layers[at] /\ n \notin Past
<1>1. pc = "layer" /\ at \in 1 .. Len(layers)
  BY DEF RunInv, TypeOK, Plan, InTurn, InHand
<1>2. n \in layers[at]
  BY <1>1 DEF RunInv, InTurn, Moved, InHand
<1>3. \A i \in 1 .. at - 1 : i \in 1 .. Len(layers) /\ i # at
  BY <1>1
<1>4. n \notin Past
  BY <1>1, <1>2, <1>3 DEF RunInv, Plan, Layered, Past
<1> QED BY <1>1, <1>2, <1>4

\* The money spent, over a step of one node.
LEMMA SpentUnmoved ==
  ASSUME NEW S, \A n \in S : node[n] = "completed" <=> node'[n] = "completed"
  PROVE  SpentOn(S)' = SpentOn(S)
<1>1. {n \in S : node[n] = "completed"} = {n \in S : node'[n] = "completed"}
  OBVIOUS
<1> QED BY <1>1 DEF SpentOn

LEMMA SpentMore ==
  ASSUME OrchestrationAssumption, NEW n \in Nodes, node \in [Nodes -> NodeStates], node[n] # "completed",
         node' = [node EXCEPT ![n] = "completed"]
  PROVE  SpentOn(Nodes)' = SpentOn(Nodes) + Cost[n]
<1> DEFINE S == {m \in Nodes : node[m] = "completed"}
<1>1. {m \in Nodes : node'[m] = "completed"} = S \cup {n}
  OBVIOUS
<1>2. S \in SUBSET Nodes /\ n \notin S /\ IsFiniteSet(S) /\ \A m \in S \cup {n} : Cost[m] \in Int
  <2>1. S \in SUBSET Nodes /\ n \notin S
    OBVIOUS
  <2>2. \A m \in Nodes : Cost[m] \in Int
    BY DEF OrchestrationAssumption
  <2> HIDE DEF S
  <2> QED BY <2>1, <2>2, FS_Subset DEF OrchestrationAssumption
<1>3. SpentOn(Nodes) = SumFunctionOnSet(Cost, S) /\ SpentOn(Nodes)' = SumFunctionOnSet(Cost, S \cup {n})
  BY <1>1 DEF SpentOn
<1> HIDE DEF S
<1> QED BY <1>2, <1>3, SumAdd
-----------------------------------------------------------------------------
(* The steps *)

USE OrchestrationAssumption

LEMMA StartRun == RunInv /\ Start => RunInv'
<1> SUFFICES ASSUME RunInv, Start PROVE RunInv'
  OBVIOUS
<1>1. Layered(workflow, layers') /\ layers' = Layers(workflow)
  BY SortIsSound DEF RunInv, TypeOK, Start
<1>2. at = 1 /\ Past = {} /\ Past' = {}
  <2>1. at = 1 /\ at' = 1 /\ 1 .. at - 1 = {} /\ 1 .. at' - 1 = {}
    BY DEF RunInv, Plan, Start
  <2> QED BY <2>1 DEF Past
<1>3. \A n \in Nodes : ~Moved(n)
  BY <1>2 DEF RunInv, InTurn, Start
<1>4. pc' \in {"refresh", "abort"} /\ pc = "created" /\ ~raised /\ node' = node /\ raised' = raised
  BY DEF RunInv, Known, Start
<1>5. TypeOK'
  <2>1. layers' \in Seq((SUBSET Nodes) \ {{}}) /\ at' \in 1 .. Len(layers') + 1
    <3>1. layers' \in Seq((SUBSET Nodes) \ {{}})
      BY <1>1 DEF Layered
    <3>2. Len(layers') \in Nat
      BY <3>1
    <3> QED BY <1>2, <3>1, <3>2 DEF Start
  <2> QED BY <1>4, <2>1 DEF RunInv, TypeOK, Start, Write
<1>6. Plan'
  BY <1>1, <1>4 DEF Plan, Start, AllScheduled
<1>7. InTurn'
  BY <1>2, <1>3, <1>4 DEF InTurn, Moved
<1>8. Known'
  BY <1>3, <1>4 DEF RunInv, Known, Moved, Start, SpentOn, HardLimit
<1>9. OverspendIsOneLayer' /\ Ended' /\ Gate'
  BY <1>3, <1>4 DEF RunInv, OverspendIsOneLayer, Ended, Gate, Held, Moved, Start, Write
<1> QED BY <1>5, <1>6, <1>7, <1>8, <1>9 DEF RunInv

LEMMA RefreshRun == RunInv /\ Refresh => RunInv'
<1> SUFFICES ASSUME RunInv, Refresh PROVE RunInv'
  OBVIOUS
<1>1. /\ pc = "refresh" /\ at <= Len(layers) /\ own' = status
      /\ pc' = (IF status \in Stopped THEN "done" ELSE "layer")
      /\ UNCHANGED <<workflow, status, layers, at, node, raised, seen, resumed, calls>>
  BY DEF Refresh
<1>2. TypeOK'
  BY <1>1 DEF RunInv, TypeOK
<1>3. Plan'
  BY <1>1 DEF RunInv, Plan, AllScheduled
<1>4. \A n \in Nodes : Moved(n) => n \in Past /\ node[n] = "completed"
  BY <1>1 DEF RunInv, InTurn
<1>5. InTurn'
  BY <1>1, <1>4 DEF RunInv, InTurn, Moved, Past
<1>6. Known'
  BY <1>1 DEF RunInv, Known, SpentOn, HardLimit
<1>7. OverspendIsOneLayer'
  <2>1. Past' = Past /\ Past \subseteq Nodes
    <3>1. \A i \in 1 .. at - 1 : layers[i] \subseteq Nodes
      BY <1>1 DEF RunInv, TypeOK
    <3> QED BY <1>1, <3>1 DEF Past
  <2>2. {n \in Past : node[n] = "completed"} = {n \in Nodes : node[n] = "completed"}
    BY <1>4, <2>1 DEF Moved
  <2>3. SpentOn(Past)' = SpentOn(Nodes) /\ HardLimit' = HardLimit
    BY <1>1, <2>1, <2>2 DEF SpentOn, HardLimit
  <2>4. SpentOn(Nodes) < HardLimit
    BY <1>1 DEF RunInv, Known
  <2> QED BY <2>3, <2>4 DEF OverspendIsOneLayer, Past
<1>8. Ended'
  BY <1>1 DEF RunInv, Ended
<1>9. Gate'
  BY <1>1 DEF RunInv, Gate, Held, Moved, Stopped
<1> QED BY <1>2, <1>3, <1>5, <1>6, <1>7, <1>8, <1>9 DEF RunInv

LEMMA StartNodeRun == ASSUME NEW n \in Nodes PROVE RunInv /\ StartNode(n) => RunInv'
<1> SUFFICES ASSUME RunInv, StartNode(n) PROVE RunInv'
  OBVIOUS
<1>1. /\ pc = "layer" /\ n \in layers[at] /\ node[n] = "none"
      /\ node' = [node EXCEPT ![n] = "running"]
      /\ UNCHANGED <<workflow, status, own, pc, layers, at, raised, seen, resumed, calls>>
  BY DEF StartNode
<1>2. TypeOK'
  BY <1>1 DEF RunInv, TypeOK
<1>3. at \in 1 .. Len(layers) /\ n \notin Past /\ Past' = Past /\ node \in [Nodes -> NodeStates]
  <2>1. at \in 1 .. Len(layers) /\ n \notin Past
    <3>1. InHand(n)
      BY <1>1 DEF InHand
    <3> QED BY <3>1, InLayer
  <2>2. Past' = Past
    BY <1>1 DEF Past
  <2>3. node \in [Nodes -> NodeStates]
    BY DEF RunInv, TypeOK, NodeStates
  <2> QED BY <2>1, <2>2, <2>3
<1>4. Plan'
  BY <1>1 DEF RunInv, Plan, AllScheduled
<1>5. InTurn'
  BY <1>1, <1>3 DEF RunInv, InTurn, Moved
<1>6. SpentOn(Nodes)' = SpentOn(Nodes) /\ SpentOn(Past)' = SpentOn(Past) /\ HardLimit' = HardLimit
  <2>1. \A m : m # n => (node[m] = "completed" <=> node'[m] = "completed")
    BY <1>1
  <2>2. \A m \in Nodes : node[m] = "completed" <=> node'[m] = "completed"
    BY <1>1, <1>3
  <2>3. \A m \in Past : node[m] = "completed" <=> node'[m] = "completed"
    BY <1>3, <2>1
  <2> QED BY <1>1, <1>3, <2>2, <2>3, SpentUnmoved DEF HardLimit
<1>7. Known'
  BY <1>1, <1>3, <1>6 DEF RunInv, Known
<1>8. OverspendIsOneLayer'
  BY <1>1, <1>3, <1>6 DEF RunInv, OverspendIsOneLayer, Past
<1>9. Ended'
  BY <1>1 DEF RunInv, Ended
<1>10. Gate'
  <2>1. ASSUME NEW h \in Nodes, Held(h)', NEW i \in 1 .. Len(layers), NEW j \in 1 .. Len(layers),
               NEW m \in layers[j], Moved(m)', h \in layers[i]
        PROVE  j <= i
    <3>1. Held(h)
      BY <1>1, <1>3, <2>1 DEF Held
    <3>2. CASE m # n
      BY <1>1, <1>3, <2>1, <3>1, <3>2 DEF RunInv, Gate, Moved
    <3>3. CASE m = n
      <4>1. h \in layers[at]
        BY <1>1, <3>1 DEF RunInv, Gate
      <4>2. i = at /\ j = at
        BY <1>1, <1>3, <2>1, <3>3, <4>1 DEF RunInv, Plan, Layered
      <4> QED BY <4>2
    <3> QED BY <3>2, <3>3
  <2>2. \A h \in Nodes : Held(h)' => Held(h)
    BY <1>1, <1>3 DEF Held
  <2> QED BY <1>1, <2>1, <2>2 DEF RunInv, Gate
<1> QED BY <1>2, <1>4, <1>5, <1>7, <1>8, <1>9, <1>10 DEF RunInv

LEMMA AskRun == ASSUME NEW n \in Nodes PROVE RunInv /\ Ask(n) => RunInv'
<1> SUFFICES ASSUME RunInv, Ask(n) PROVE RunInv'
  OBVIOUS
<1>1. /\ n \in Approvals /\ node[n] = "running" /\ node' = [node EXCEPT ![n] = "asked"]
      /\ own' = "paused" /\ status' = (IF own = "paused" THEN status ELSE "paused")
      /\ UNCHANGED <<workflow, pc, layers, at, raised, seen, resumed, calls>>
  BY DEF Ask, Write
<1>2. TypeOK'
  BY <1>1 DEF RunInv, TypeOK
<1>3. /\ pc = "layer" /\ at \in 1 .. Len(layers) /\ n \in layers[at] /\ n \notin Past
      /\ Past' = Past /\ node \in [Nodes -> NodeStates]
  <2>1. pc = "layer" /\ at \in 1 .. Len(layers) /\ n \in layers[at] /\ n \notin Past
    <3>1. InHand(n)
      BY <1>1 DEF InHand
    <3> QED BY <3>1, InLayer
  <2>2. Past' = Past
    BY <1>1 DEF Past
  <2>3. node \in [Nodes -> NodeStates]
    BY DEF RunInv, TypeOK, NodeStates
  <2> QED BY <2>1, <2>2, <2>3
<1>4. Plan'
  BY <1>1 DEF RunInv, Plan, AllScheduled
<1>5. InTurn'
  BY <1>1, <1>3 DEF RunInv, InTurn, Moved
<1>6. SpentOn(Nodes)' = SpentOn(Nodes) /\ SpentOn(Past)' = SpentOn(Past) /\ HardLimit' = HardLimit
  <2>1. \A m : m # n => (node[m] = "completed" <=> node'[m] = "completed")
    BY <1>1
  <2>2. \A m \in Nodes : node[m] = "completed" <=> node'[m] = "completed"
    BY <1>1, <1>3
  <2>3. \A m \in Past : node[m] = "completed" <=> node'[m] = "completed"
    BY <1>3, <2>1
  <2> QED BY <1>1, <1>3, <2>2, <2>3, SpentUnmoved DEF HardLimit
<1>7. Known'
  BY <1>1, <1>3, <1>6 DEF RunInv, Known
<1>8. OverspendIsOneLayer'
  BY <1>1, <1>3, <1>6 DEF RunInv, OverspendIsOneLayer, Past
<1>9. Ended'
  BY <1>1, <1>3 DEF RunInv, Ended
<1>10. Gate'
  <2>1. status' \in Stopped \/ resumed'
    BY <1>1, <1>3 DEF RunInv, Gate, Stopped
  <2>2. ASSUME NEW h \in Nodes, Held(h)', NEW i \in 1 .. Len(layers), NEW j \in 1 .. Len(layers),
               NEW m \in layers[j], Moved(m)', h \in layers[i]
        PROVE  j <= i
    <3>1. Moved(m)
      BY <1>1, <1>3, <2>2 DEF Moved
    <3>2. CASE h # n
      <4>1. Held(h)
        BY <1>1, <1>3, <2>2, <3>2 DEF Held
      <4> QED BY <1>1, <2>2, <3>1, <4>1 DEF RunInv, Gate
    <3>3. CASE h = n
      <4>1. i = at
        BY <1>3, <2>2, <3>3 DEF RunInv, Plan, Layered
      <4>2. m \in Past \/ m \in layers[at]
        <5>1. m \in Nodes
          BY <2>2 DEF RunInv, TypeOK
        <5> QED BY <3>1, <5>1 DEF RunInv, InTurn
      <4>3. PICK k \in 1 .. at : m \in layers[k]
        BY <1>3, <4>2 DEF Past
      <4>4. k = j
        <5>1. k \in 1 .. Len(layers)
          BY <1>3
        <5>2. pc # "created"
          BY <1>3
        <5>3. Layered(workflow, layers)
          BY <5>2 DEF RunInv, Plan
        <5> QED BY <2>2, <4>3, <5>1, <5>3 DEF Layered
      <4> QED BY <1>3, <4>1, <4>3, <4>4
    <3> QED BY <3>2, <3>3
  <2>3. \A h \in Nodes : Held(h)' => h = n \/ Held(h)
    BY <1>1, <1>3 DEF Held
  <2>4. \A h \in Nodes : Held(h)' => h \in layers[at]
    BY <1>3, <2>3 DEF RunInv, Gate
  <2>5. \A h \in Nodes : Held(h)' => status' \in Stopped
    BY <2>1 DEF Held
  <2> QED BY <1>1, <1>3, <2>1, <2>2, <2>4, <2>5 DEF Gate
<1> QED BY <1>2, <1>4, <1>5, <1>7, <1>8, <1>9, <1>10 DEF RunInv

\* A node returns or raises: what both have in common.
LEMMA LeaveRun ==
  ASSUME NEW n \in Nodes, RunInv, node[n] \in {"running", "asked"},
         NEW v \in {"completed", "failed"}, node' = [node EXCEPT ![n] = v],
         v = "completed" => Returning(n), raised' \in BOOLEAN,
         v = "failed" => raised', raised => raised',
         ~raised' => SpentOn(Nodes)' < HardLimit,
         UNCHANGED <<workflow, status, own, pc, layers, at, seen, resumed, calls>>
  PROVE  RunInv'
<1>2. TypeOK'
  BY DEF RunInv, TypeOK
<1>3. /\ pc = "layer" /\ at \in 1 .. Len(layers) /\ n \in layers[at] /\ n \notin Past
      /\ Past' = Past /\ node \in [Nodes -> NodeStates]
  <2>1. pc = "layer" /\ at \in 1 .. Len(layers) /\ n \in layers[at] /\ n \notin Past
    <3>1. InHand(n)
      BY DEF InHand
    <3> QED BY <3>1, InLayer
  <2>2. Past' = Past
    BY DEF Past
  <2>3. node \in [Nodes -> NodeStates]
    BY DEF RunInv, TypeOK, NodeStates
  <2> QED BY <2>1, <2>2, <2>3
<1>4. Plan'
  BY DEF RunInv, Plan, AllScheduled
<1>5. InTurn'
  BY <1>3 DEF RunInv, InTurn, Moved
<1>6. SpentOn(Past)' = SpentOn(Past) /\ HardLimit' = HardLimit
  <2>1. \A m \in Past : node[m] = "completed" <=> node'[m] = "completed"
    BY <1>3
  <2> QED BY <1>3, <2>1, SpentUnmoved DEF HardLimit
<1>7. Known'
  BY <1>3, <1>6 DEF RunInv, Known
<1>8. OverspendIsOneLayer'
  BY <1>3, <1>6 DEF RunInv, OverspendIsOneLayer, Past
<1>9. Ended'
  BY <1>3 DEF RunInv, Ended
<1>10. Gate'
  <2>1. \A h \in Nodes : Held(h)' => Held(h)
    BY <1>3 DEF Held, Returning
  <2>2. \A m : Moved(m)' => Moved(m)
    BY <1>3 DEF Moved
  <2> QED BY <2>1, <2>2 DEF RunInv, Gate
<1> QED BY <1>2, <1>4, <1>5, <1>7, <1>8, <1>9, <1>10 DEF RunInv

LEMMA EndNodeRun == ASSUME NEW n \in Nodes PROVE RunInv /\ EndNode(n) => RunInv'
<1> SUFFICES ASSUME RunInv, EndNode(n) PROVE RunInv'
  OBVIOUS
<1>1. /\ Returning(n) /\ node' = [node EXCEPT ![n] = "completed"]
      /\ raised' \in {raised \/ Exhausts(n), TRUE}
      /\ UNCHANGED <<workflow, status, own, pc, layers, at, seen, resumed, calls>>
  BY DEF EndNode
<1>2. node[n] \in {"running", "asked"} /\ node \in [Nodes -> NodeStates] /\ raised \in BOOLEAN
  BY <1>1 DEF Returning, RunInv, TypeOK, NodeStates
<1>3. SpentOn(Nodes)' = SpentOn(Nodes) + Cost[n]
  BY <1>1, <1>2, SpentMore
<1>4. SpentOn(Nodes) \in Int /\ Cost[n] \in Int /\ HardLimit \in Int
  <2>1. workflow.budget \in Nat /\ DefaultHard \in Nat
    BY DEF RunInv, TypeOK, OrchestrationAssumption
  <2>2. HardLimit \in Int
    BY <2>1 DEF HardLimit
  <2> DEFINE S == {m \in Nodes : node[m] = "completed"}
  <2>3. S \in SUBSET Nodes /\ IsFiniteSet(Nodes) /\ \A m \in Nodes : Cost[m] \in Int
    BY DEF OrchestrationAssumption
  <2> HIDE DEF S
  <2>4. SumFunctionOnSet(Cost, S) \in Int
    BY <2>3, FS_Subset, SumTakeOut
  <2> QED BY <2>2, <2>3, <2>4 DEF SpentOn, S
<1>5. raised' \in BOOLEAN /\ (raised => raised') /\ (Exhausts(n) => raised')
  BY <1>1, <1>2 DEF Exhausts
<1>6. ~raised' => SpentOn(Nodes)' < HardLimit
  <2>1. ~raised' => ~(SpentOn(Nodes) + Cost[n] >= HardLimit)
    BY <1>5 DEF Exhausts
  <2> QED BY <1>3, <1>4, <2>1
<1> QED BY <1>1, <1>2, <1>5, <1>6, LeaveRun

LEMMA FailNodeRun == ASSUME NEW n \in Nodes PROVE RunInv /\ FailNode(n) => RunInv'
<1> SUFFICES ASSUME RunInv, FailNode(n) PROVE RunInv'
  OBVIOUS
<1>1. /\ node[n] \in {"running", "asked"} /\ node' = [node EXCEPT ![n] = "failed"]
      /\ raised' = TRUE
      /\ UNCHANGED <<workflow, status, own, pc, layers, at, seen, resumed, calls>>
  BY DEF FailNode
<1> QED BY <1>1, LeaveRun

LEMMA SettleRun == RunInv /\ Settle => RunInv'
<1> SUFFICES ASSUME RunInv, Settle PROVE RunInv'
  OBVIOUS
<1>1. /\ pc = "layer" /\ LayerEnded
      /\ UNCHANGED <<workflow, status, own, layers, node, raised, seen, resumed, calls>>
  BY DEF Settle
<1>2. at \in 1 .. Len(layers) /\ Layered(workflow, layers) /\ at' \in {at, at + 1}
      /\ \A i \in 1 .. Len(layers) : layers[i] \subseteq Nodes
  BY <1>1 DEF RunInv, TypeOK, Plan, Settle
<1>3. CASE raised \/ OverBudget
  <2>1. pc' = "abort" /\ at' = at
    BY <1>3 DEF Settle
  <2>2. TypeOK'
    BY <1>1, <2>1 DEF RunInv, TypeOK
  <2>3. Plan'
    BY <1>1, <2>1 DEF RunInv, Plan
  <2>4. \A n \in Nodes : node[n] \notin {"running", "asked"}
    BY <1>1 DEF RunInv, InTurn, LayerEnded, Moved, Past
  <2>5. InTurn'
    BY <1>1, <1>2, <2>1, <2>4 DEF RunInv, InTurn, Moved, Past
  <2>6. Known' /\ OverspendIsOneLayer' /\ Ended'
    BY <1>1, <2>1 DEF RunInv, Known, OverspendIsOneLayer, Ended, SpentOn, HardLimit
  <2>7. Gate'
    BY <1>1, <2>1 DEF RunInv, Gate, Held, Moved
  <2> QED BY <2>2, <2>3, <2>5, <2>6, <2>7 DEF RunInv
<1>4. CASE ~(raised \/ OverBudget)
  <2>1. pc' = "refresh" /\ at' = at + 1 /\ ~raised
    BY <1>4 DEF Settle
  <2>2. TypeOK'
    <3>1. at' \in 1 .. Len(layers') + 1
      BY <1>1, <1>2, <2>1
    <3> QED BY <1>1, <2>1, <3>1 DEF RunInv, TypeOK
  <2>3. Plan'
    BY <1>1, <2>1 DEF RunInv, Plan, AllScheduled
  <2>4. Past' = Past \cup layers[at]
    <3>1. 1 .. at' - 1 = (1 .. at - 1) \cup {at}
      BY <1>2, <2>1
    <3> QED BY <1>1, <3>1 DEF Past
  <2>5. \A n \in layers[at] : node[n] = "completed"
    BY <1>1, <1>2, <2>1 DEF LayerEnded, RunInv, Known
  <2>6. InTurn'
    BY <1>1, <2>1, <2>4, <2>5 DEF RunInv, InTurn, Moved
  <2>7. Known' /\ OverspendIsOneLayer' /\ Ended'
    BY <1>1, <2>1 DEF RunInv, Known, OverspendIsOneLayer, Ended, SpentOn, HardLimit
  <2>8. Gate'
    BY <1>1, <2>1 DEF RunInv, Gate, Held, Moved
  <2> QED BY <2>2, <2>3, <2>6, <2>7, <2>8 DEF RunInv
<1> QED BY <1>3, <1>4

\* When every layer has been passed, every node has completed.
LEMMA AllPassed ==
  ASSUME RunInv, pc = "refresh", at > Len(layers)
  PROVE  \A n \in Nodes : node[n] = "completed"
<1>1. Len(layers) \in Nat /\ at = Len(layers) + 1 /\ DOMAIN layers = 1 .. Len(layers)
  BY DEF RunInv, TypeOK
<1>2. 1 .. at - 1 = DOMAIN layers
  BY <1>1
<1>3. Past = Nodes
  BY <1>2 DEF RunInv, Plan, AllScheduled, Past
<1> QED BY <1>3 DEF RunInv, InTurn

LEMMA FinishRun ==
  ASSUME RunInv, NEW v \in {"failed", "completed"}, Finish(v), pc \in {"abort", "refresh"},
         v = "completed" => pc = "refresh" /\ at > Len(layers)
  PROVE  RunInv'
<1>1. /\ pc' = "done" /\ own' = v /\ status' = (IF own = v THEN status ELSE v)
      /\ UNCHANGED <<workflow, layers, at, node, raised, seen, resumed, calls>>
  BY DEF Finish, Write
<1>2. TypeOK'
  BY <1>1 DEF RunInv, TypeOK
<1>3. Plan'
  BY <1>1 DEF RunInv, Plan
<1>4. InTurn'
  BY <1>1 DEF RunInv, InTurn, Moved, Past
<1>5. Known' /\ OverspendIsOneLayer'
  BY <1>1 DEF RunInv, Known, OverspendIsOneLayer, SpentOn, HardLimit
<1>6. Ended'
  <2>1. "completed" \notin {status, own}
    BY DEF RunInv, Ended
  <2>2. CASE v = "failed"
    BY <1>1, <2>1, <2>2 DEF Ended
  <2>3. CASE v = "completed"
    <3>1. \A n \in Nodes : node[n] = "completed"
      BY <2>3, AllPassed
    <3>2. SpentOn(Nodes) < HardLimit
      BY <2>3 DEF RunInv, Known
    <3> QED BY <1>1, <3>1, <3>2 DEF Ended, SpentOn, HardLimit
  <2> QED BY <2>2, <2>3
<1>7. Gate'
  BY <1>1 DEF RunInv, Gate, Held, Moved
<1> QED BY <1>2, <1>3, <1>4, <1>5, <1>6, <1>7 DEF RunInv

LEMMA ReadRun ==
  ASSUME NEW c \in Callers, NEW op \in DOMAIN Allowed PROVE RunInv /\ Read(c, op) => RunInv'
<1> SUFFICES ASSUME RunInv, Read(c, op) PROVE RunInv'
  OBVIOUS
<1>1. /\ calls < MaxCalls /\ calls' = calls + 1 /\ seen' = [seen EXCEPT ![c] = op]
      /\ UNCHANGED <<workflow, status, own, pc, layers, at, node, raised, resumed>>
  BY DEF Read
<1>2. TypeOK'
  <2>1. calls' \in 0 .. MaxCalls
    BY <1>1 DEF RunInv, TypeOK, OrchestrationAssumption
  <2>2. seen' \in [Callers -> DOMAIN Allowed \cup {None}]
    BY <1>1 DEF RunInv, TypeOK
  <2> QED BY <1>1, <2>1, <2>2 DEF RunInv, TypeOK
<1>3. Plan' /\ InTurn' /\ Known' /\ OverspendIsOneLayer' /\ Ended' /\ Gate'
  BY <1>1 DEF RunInv, Plan, InTurn, Known, OverspendIsOneLayer, Ended, Gate, Held, Moved, Past,
              SpentOn, HardLimit
<1> QED BY <1>2, <1>3 DEF RunInv

LEMMA CommitRun == ASSUME NEW c \in Callers PROVE RunInv /\ Commit(c) => RunInv'
<1> SUFFICES ASSUME RunInv, Commit(c) PROVE RunInv'
  OBVIOUS
<1>1. /\ seen[c] # None /\ status' = Target[seen[c]]
      /\ resumed' = (resumed \/ seen[c] = "resume") /\ seen' = [seen EXCEPT ![c] = None]
      /\ UNCHANGED <<workflow, own, pc, layers, at, node, raised, calls>>
  BY DEF Commit
<1>2. seen[c] \in {"pause", "resume", "cancel"} /\ resumed \in BOOLEAN
  BY <1>1 DEF RunInv, TypeOK, Allowed
<1>3. status' \in {"paused", "running", "cancelled"} /\ (status' \in Stopped \/ resumed')
  <2>1. Target["pause"] = "paused" /\ Target["resume"] = "running" /\ Target["cancel"] = "cancelled"
    BY DEF Target
  <2>2. CASE seen[c] = "pause"
    BY <1>1, <2>1, <2>2 DEF Stopped
  <2>3. CASE seen[c] = "resume"
    BY <1>1, <2>1, <2>3
  <2>4. CASE seen[c] = "cancel"
    BY <1>1, <2>1, <2>4 DEF Stopped
  <2> QED BY <1>2, <2>2, <2>3, <2>4
<1>4. TypeOK'
  BY <1>1, <1>3 DEF RunInv, TypeOK
<1>5. Plan' /\ InTurn' /\ Known' /\ OverspendIsOneLayer'
  BY <1>1 DEF RunInv, Plan, InTurn, Known, OverspendIsOneLayer, Moved, Past, SpentOn, HardLimit
<1>6. Ended'
  BY <1>1, <1>3 DEF RunInv, Ended, SpentOn, HardLimit
<1>7. Gate'
  <2>1. \A h \in Nodes : Held(h)' => Held(h) /\ status' \in Stopped
    BY <1>1, <1>3 DEF Held
  <2> QED BY <1>1, <1>3, <2>1 DEF RunInv, Gate, Moved
<1> QED BY <1>4, <1>5, <1>6, <1>7 DEF RunInv

LEMMA RunInvariant == Spec => []RunInv
<1>1. Init => RunInv
  BY InitRun
<1>2. RunInv /\ [Next]_vars => RunInv'
  <2> SUFFICES ASSUME RunInv, [Next]_vars PROVE RunInv'
    OBVIOUS
  <2>1. CASE Runner
    <3>1. CASE Start \/ Refresh \/ Settle
      BY <3>1, StartRun, RefreshRun, SettleRun
    <3>2. CASE Abort
      BY <3>2, FinishRun DEF Abort
    <3>3. CASE Complete
      BY <3>3, FinishRun DEF Complete
    <3> QED BY <2>1, <3>1, <3>2, <3>3 DEF Runner
  <2>2. ASSUME NEW n \in Nodes, NodeStep(n) PROVE RunInv'
    BY <2>2, StartNodeRun, AskRun, EndNodeRun, FailNodeRun DEF NodeStep
  <2>3. ASSUME NEW c \in Callers, Commit(c) \/ \E op \in DOMAIN Allowed : Read(c, op) PROVE RunInv'
    BY <2>3, CommitRun, ReadRun
  <2>4. CASE UNCHANGED vars
    <3>1. TypeOK'
      BY <2>4 DEF RunInv, TypeOK, vars
    <3>2. Plan' /\ InTurn' /\ Known' /\ OverspendIsOneLayer' /\ Ended' /\ Gate'
      BY <2>4 DEF vars, RunInv, Plan, InTurn, Known, OverspendIsOneLayer, Ended, Gate, Held, Moved,
                  Past, SpentOn, HardLimit
    <3> QED BY <3>1, <3>2 DEF RunInv
  <2> QED BY <2>1, <2>2, <2>3, <2>4 DEF Next
<1> QED BY <1>1, <1>2, PTL DEF Spec
-----------------------------------------------------------------------------
(* The properties *)

\* Every variable keeps to its type in every execution of every workflow.
THEOREM RunTypes == Spec => []TypeOK
<1>1. RunInv => TypeOK
  BY DEF RunInv
<1> QED BY <1>1, RunInvariant, PTL

\* A node starts only after everything it depends on has completed, in every graph, whatever
\* pauses, cancellations and failures the execution meets (_run_dag).
THEOREM DependenciesComeFirst == Spec => []DependenciesFirst
<1>1. RunInv => DependenciesFirst
  <2> SUFFICES ASSUME RunInv, NEW n \in Nodes, Moved(n), NEW m \in Before(n) PROVE node[m] = "completed"
    BY DEF DependenciesFirst, Moved
  <2>1. m \in Needs(workflow, n)
    BY DEF Before, Needs
  <2>2. at \in 1 .. Len(layers) + 1 /\ Len(layers) \in Nat
    BY DEF RunInv, TypeOK
  <2>3. Layered(workflow, layers)
    <3>1. CASE pc = "created"
      <4>1. Past = {}
        <5>1. 1 .. at - 1 = {}
          BY <3>1 DEF RunInv, Plan
        <5> QED BY <5>1 DEF Past
      <4> QED BY <3>1, <4>1 DEF RunInv, InTurn
    <3> QED BY <3>1 DEF RunInv, Plan
  <2>4. PICK i \in 1 .. Len(layers) : i <= at /\ n \in layers[i]
    <3>1. CASE n \in Past
      <4>1. PICK i \in 1 .. at - 1 : n \in layers[i]
        BY <3>1 DEF Past
      <4> QED BY <2>2, <4>1
    <3>2. CASE at <= Len(layers) /\ n \in layers[at]
      BY <2>2, <3>2
    <3> QED BY <3>1, <3>2 DEF RunInv, InTurn
  <2>5. PICK j \in 1 .. i - 1 : m \in layers[j]
    BY <2>1, <2>3, <2>4 DEF Layered
  <2>6. j \in 1 .. at - 1
    BY <2>2, <2>4
  <2> QED BY <2>5, <2>6 DEF RunInv, InTurn, Past
<1> QED BY <1>1, RunInvariant, PTL

\* An execution that is shown as completed has run every node and stayed within its limit
\* (_run_dag, the budget tracker).
THEOREM CompletedRanAll == Spec => []CompletedMeansAllRan
<1>1. RunInv => CompletedMeansAllRan
  BY DEF RunInv, Ended, CompletedMeansAllRan
<1> QED BY <1>1, RunInvariant, PTL

\* The limit is passed within one layer alone: no layer begins when the money is spent.
THEOREM OverspendBounded == Spec => []OverspendIsOneLayer
<1>1. RunInv => OverspendIsOneLayer
  BY DEF RunInv
<1> QED BY <1>1, RunInvariant, PTL

\* Nothing behind a human approval starts before somebody has resumed the execution, although
\* the approval itself waits for nobody (_execute_human_approval).
THEOREM ApprovalsHold == Spec => []ApprovalGate
<1>1. RunInv => ApprovalGate
  <2> SUFFICES ASSUME RunInv, NEW h \in Approvals, NEW n \in Nodes, node[h] = "completed", Moved(n),
                      LayerOf(n) > LayerOf(h), ~resumed
               PROVE  FALSE
    BY DEF ApprovalGate, Moved
  <2>1. h \in Nodes /\ Held(h) /\ Moved(h)
    BY DEF Held, Moved, OrchestrationAssumption
  <2>2. Len(layers) \in Nat /\ DOMAIN layers = 1 .. Len(layers) /\ at \in 1 .. Len(layers) + 1
    BY DEF RunInv, TypeOK
  <2>3. ASSUME NEW x \in Nodes, Moved(x) PROVE LayerOf(x) \in 1 .. Len(layers) /\ x \in layers[LayerOf(x)]
    <3>1. \E i \in 1 .. Len(layers) : x \in layers[i]
      <4>1. CASE x \in Past
        <5>1. PICK i \in 1 .. at - 1 : x \in layers[i]
          BY <4>1 DEF Past
        <5> QED BY <2>2, <5>1
      <4>2. CASE at <= Len(layers) /\ x \in layers[at]
        BY <2>2, <4>2
      <4> QED BY <2>3, <4>1, <4>2 DEF RunInv, InTurn
    <3> QED BY <2>2, <3>1 DEF LayerOf
  <2>4. /\ LayerOf(h) \in 1 .. Len(layers) /\ h \in layers[LayerOf(h)]
        /\ LayerOf(n) \in 1 .. Len(layers) /\ n \in layers[LayerOf(n)]
    BY <2>1, <2>3
  <2>5. LayerOf(n) <= LayerOf(h)
    BY <2>1, <2>4 DEF RunInv, Gate
  <2> QED BY <2>4, <2>5
<1> QED BY <1>1, RunInvariant, PTL
=============================================================================
