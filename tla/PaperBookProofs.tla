---------------------------- MODULE PaperBookProofs ----------------------------
(***************************************************************************)
(* Safety of the paper portfolio for any bots, candles and decisions, any  *)
(* size of the book and any number of crashes.                             *)
(*                                                                         *)
(* Most of the work is about sums over sets of positions.  The fold of the *)
(* community modules takes elements in an order of its own; that a sum can *)
(* be taken in any order, split, and is a number at all is proved with a   *)
(* least counterexample (SmallestSet), where one would use induction.      *)
(***************************************************************************)
EXTENDS PaperBook, FiniteSetTheorems, WellFoundedInduction, TLAPS

\* The induction the proofs below use: of any family of finite sets that is not
\* empty, one has no other of the family inside it.
LEMMA SmallestSet ==
  ASSUME NEW F, F # {}, \A T \in F : IsFiniteSet(T)
  PROVE  \E T \in F : \A U \in F : U \subseteq T => U = T
<1> DEFINE S == UNION F
<1>1. F \subseteq FiniteSubsetsOf(S)
  BY DEF FiniteSubsetsOf
<1>2. IsWellFoundedOn(StrictSubsetOrdering(S), FiniteSubsetsOf(S))
  BY FS_StrictSubsetOrderingWellFounded
<1>3. \E T \in F : \A U \in F : <<U, T>> \notin StrictSubsetOrdering(S)
  BY <1>1, <1>2, WFMin
<1>4. \A T, U \in F : U \subseteq T /\ U # T => <<U, T>> \in StrictSubsetOrdering(S)
  BY DEF StrictSubsetOrdering
<1>5. QED
  BY <1>3, <1>4

LEMMA SmallestNumber ==
  ASSUME NEW N, N # {}, N \subseteq Nat
  PROVE  \E n \in N : \A m \in N : n <= m
<1> DEFINE F == {1..n : n \in N}
<1>1. /\ F # {}
      /\ \A T \in F : IsFiniteSet(T)
  <2>1. \A n \in N : IsFiniteSet(1..n)
    BY FS_Interval
  <2>2. QED
    BY <2>1
<1> HIDE DEF F
<1>a. \E T \in F : \A U \in F : U \subseteq T => U = T
  BY <1>1, SmallestSet
<1>2. PICK n \in N : \A U \in F : U \subseteq 1..n => U = 1..n
  BY <1>a DEF F
<1>3. n \in Nat
  BY <1>2
<1>4. ASSUME NEW m \in N, m < n PROVE FALSE
  <2>1. m \in Nat
    OBVIOUS
  <2>2. 1..m \subseteq 1..n
    BY <1>3, <1>4, <2>1
  <2>3. 1..m \in F
    BY DEF F
  <2>4. n \in 1..n /\ n \notin 1..m
    BY <1>3, <1>4, <2>1
  <2>5. QED
    BY <2>2, <2>3, <2>4, <1>2
<1>5. QED
  BY <1>3, <1>4

\* The element the folds take next.
Pick(s) == CHOOSE x \in s : TRUE

\* f is what the folds of the community modules compute, for every subset of S.
IsSum(f, w, S) ==
  /\ f \in [SUBSET S -> Int]
  /\ f[{}] = 0
  /\ \A s \in SUBSET S : s # {} => f[s] = w[Pick(s)] + f[s \ {Pick(s)}]

\* g does so as far as T goes, wherever else it is defined.
Follows(g, w, T) ==
  /\ g[{}] = 0
  /\ \A s \in SUBSET T : s # {} => g[s] = w[Pick(s)] + g[s \ {Pick(s)}]

LEMMA Picked == \A s : s # {} => Pick(s) \in s
BY DEF Pick

LEMMA SumExists ==
  ASSUME NEW S, IsFiniteSet(S), NEW w \in [S -> Int]
  PROVE  \E f : IsSum(f, w, S)
<1> DEFINE Upto(f, n) ==
             /\ f \in [SUBSET S -> Int]
             /\ f[{}] = 0
             /\ \A s \in SUBSET S : s # {} /\ Cardinality(s) <= n => f[s] = w[Pick(s)] + f[s \ {Pick(s)}]
           N == {n \in Nat : ~\E f : Upto(f, n)}
<1> HIDE DEF Upto, N
<1>1. ASSUME NEW s \in SUBSET S PROVE IsFiniteSet(s) /\ Cardinality(s) \in Nat
  BY FS_Subset, FS_CardinalityType
<1>2. ASSUME NEW s \in SUBSET S, s # {}
      PROVE  /\ Pick(s) \in S /\ s \ {Pick(s)} \in SUBSET S
             /\ Cardinality(s) > 0 /\ Cardinality(s \ {Pick(s)}) = Cardinality(s) - 1
  <2>1. Pick(s) \in s
    BY <1>2, Picked
  <2>2. Cardinality(s) # 0
    BY <1>1, <1>2, FS_EmptySet
  <2>3. Cardinality(s \ {Pick(s)}) = Cardinality(s) - 1
    BY <1>1, <2>1, FS_RemoveElement
  <2>4. QED
    BY <2>1, <2>2, <2>3, <1>1
<1>3. 0 \notin N
  <2> DEFINE f == [s \in SUBSET S |-> 0]
  <2>1. ASSUME NEW s \in SUBSET S, s # {} PROVE ~(Cardinality(s) <= 0)
    <3>1. Cardinality(s) \in Nat
      BY <1>1
    <3>2. Cardinality(s) > 0
      BY <1>2, <2>1
    <3>3. QED
      BY <3>1, <3>2
  <2>2. Upto(f, 0)
    BY <2>1 DEF Upto
  <2> HIDE DEF f
  <2>3. QED
    BY <2>2 DEF N
<1>4. ASSUME NEW n \in Nat, n > 0, n - 1 \notin N PROVE n \notin N
  <2>1. \E f : Upto(f, n - 1)
    BY <1>4 DEF N
  <2>2. PICK f : Upto(f, n - 1)
    BY <2>1
  <2> DEFINE g == [s \in SUBSET S |->
                     IF s # {} /\ Cardinality(s) = n THEN w[Pick(s)] + f[s \ {Pick(s)}] ELSE f[s]]
  <2>3. ASSUME NEW s \in SUBSET S, s # {}
        PROVE  w[Pick(s)] \in Int /\ f[s \ {Pick(s)}] \in Int
    BY <2>2, <2>3, <1>2 DEF Upto
  <2>4. g \in [SUBSET S -> Int]
    BY <2>2, <2>3 DEF Upto
  <2>5. g[{}] = 0
    BY <2>2 DEF Upto
  <2>6. ASSUME NEW s \in SUBSET S, s # {}, Cardinality(s) <= n
        PROVE  g[s] = w[Pick(s)] + g[s \ {Pick(s)}]
    <3>1. Cardinality(s \ {Pick(s)}) # n /\ s \ {Pick(s)} \in SUBSET S
      BY <2>6, <1>1, <1>2
    <3>2. g[s \ {Pick(s)}] = f[s \ {Pick(s)}]
      BY <3>1
    <3>3. CASE Cardinality(s) = n
      BY <3>2, <3>3, <2>6
    <3>4. CASE Cardinality(s) # n
      <4>1. Cardinality(s) <= n - 1
        BY <3>4, <2>6, <1>1
      <4>2. f[s] = w[Pick(s)] + f[s \ {Pick(s)}]
        BY <4>1, <2>2, <2>6 DEF Upto
      <4>3. QED
        BY <4>2, <3>2, <3>4
    <3>5. QED
      BY <3>3, <3>4
  <2> HIDE DEF g
  <2>7. Upto(g, n)
    BY <2>4, <2>5, <2>6 DEF Upto
  <2>8. QED
    BY <2>7 DEF N
<1>5. N = {}
  <2>1. SUFFICES ASSUME N # {} PROVE FALSE
    OBVIOUS
  <2>2. N \subseteq Nat
    BY DEF N
  <2>3. PICK n \in N : \A m \in N : n <= m
    BY <2>1, <2>2, SmallestNumber
  <2>4. n \in Nat /\ n > 0
    BY <2>2, <2>3, <1>3
  <2>5. n - 1 \notin N
    BY <2>3, <2>4
  <2>6. QED
    BY <2>3, <2>4, <2>5, <1>4
<1>6. Cardinality(S) \in Nat
  BY FS_CardinalityType
<1>7. \E f : Upto(f, Cardinality(S))
  BY <1>5, <1>6 DEF N
<1>8. PICK f : Upto(f, Cardinality(S))
  BY <1>7
<1>9. \A s \in SUBSET S : Cardinality(s) <= Cardinality(S)
  BY FS_Subset
<1>10. IsSum(f, w, S)
  BY <1>8, <1>9 DEF IsSum, Upto
<1>11. QED
  BY <1>10

\* The order in which a fold takes the elements does not matter.
LEMMA SumTakes ==
  ASSUME NEW S, IsFiniteSet(S), NEW w \in [S -> Int], NEW f, IsSum(f, w, S),
         NEW T \in SUBSET S, NEW x \in T
  PROVE  f[T] = w[x] + f[T \ {x}]
<1> DEFINE Bad == {t \in SUBSET S : \E y \in t : f[t] # w[y] + f[t \ {y}]}
<1>1. ASSUME NEW t \in Bad, \A u \in Bad : u \subseteq t => u = t
      PROVE  FALSE
  <2>1. t \in SUBSET S
    OBVIOUS
  <2>2. PICK y \in t : f[t] # w[y] + f[t \ {y}]
    OBVIOUS
  <2> DEFINE z == Pick(t)
  <2>3. z \in t /\ f[t] = w[z] + f[t \ {z}]
    BY <2>2, Picked DEF IsSum
  <2> HIDE DEF z
  <2>4. y # z /\ y \in S /\ z \in S
    BY <2>1, <2>2, <2>3
  <2> DEFINE u == t \ {z}
             v == t \ {y}
  <2>5. u \in SUBSET S /\ v \in SUBSET S /\ u \notin Bad /\ v \notin Bad
    <3>1. u # t /\ v # t /\ u \subseteq t /\ v \subseteq t
      BY <2>2, <2>3
    <3> HIDE DEF u, v, Bad
    <3>2. QED
      BY <1>1, <2>1, <3>1
  <2>6. y \in u /\ z \in v
    BY <2>2, <2>3, <2>4
  <2> HIDE DEF u, v
  <2>7. f[u] = w[y] + f[u \ {y}]
    BY <2>5, <2>6
  <2>8. f[v] = w[z] + f[v \ {z}]
    BY <2>5, <2>6
  <2>9. u \ {y} = v \ {z} /\ u \ {y} \in SUBSET S
    BY <2>1 DEF u, v
  <2>10. w[y] \in Int /\ w[z] \in Int /\ f[u \ {y}] \in Int
    BY <2>4, <2>9 DEF IsSum
  <2>11. f[t] = w[z] + f[u] /\ f[t] # w[y] + f[v]
    BY <2>2, <2>3 DEF u, v
  <2>12. QED
    <3> DEFINE r == f[u \ {y}]
    <3>1. f[u] = w[y] + r /\ f[v] = w[z] + r /\ r \in Int
      BY <2>7, <2>8, <2>9, <2>10
    <3> HIDE DEF r
    <3>2. QED
      BY <3>1, <2>10, <2>11
<1>2. \A t \in Bad : IsFiniteSet(t)
  BY FS_Subset
<1> HIDE DEF Bad
<1>3. Bad = {}
  BY <1>1, <1>2, SmallestSet
<1>4. QED
  BY <1>3 DEF Bad

\* A sum over a part of S is that over the part itself.
LEMMA SumAgrees ==
  ASSUME NEW S, IsFiniteSet(S), NEW w \in [S -> Int], NEW f, IsSum(f, w, S),
         NEW T \in SUBSET S, NEW g, Follows(g, w, T)
  PROVE  \A s \in SUBSET T : g[s] = f[s]
<1> DEFINE Bad == {t \in SUBSET T : g[t] # f[t]}
<1>1. ASSUME NEW t \in Bad, \A u \in Bad : u \subseteq t => u = t
      PROVE  FALSE
  <2>1. t \in SUBSET T /\ t \in SUBSET S /\ g[t] # f[t]
    OBVIOUS
  <2>2. t # {}
    BY <2>1 DEF IsSum, Follows
  <2> DEFINE z == Pick(t)
  <2>3. z \in t
    BY <2>2, Picked
  <2>4. f[t] = w[z] + f[t \ {z}] /\ g[t] = w[z] + g[t \ {z}]
    BY <2>1, <2>2 DEF IsSum, Follows
  <2> HIDE DEF z
  <2> DEFINE u == t \ {z}
  <2>5. u \in SUBSET T /\ u \subseteq t /\ u # t
    BY <2>1, <2>3
  <2> HIDE DEF u
  <2>6. u \notin Bad
    <3> HIDE DEF Bad
    <3>1. QED
      BY <1>1, <2>5
  <2>7. g[u] = f[u]
    BY <2>5, <2>6
  <2>8. QED
    <3>1. g[t \ {z}] = f[t \ {z}]
      BY <2>7 DEF u
    <3>2. g[t] = f[t]
      BY <2>4, <3>1
    <3>3. QED
      BY <2>1, <3>2
<1>2. \A t \in Bad : IsFiniteSet(t)
  BY FS_Subset
<1> HIDE DEF Bad
<1>3. Bad = {}
  BY <1>1, <1>2, SmallestSet
<1>4. QED
  BY <1>3 DEF Bad

-----------------------------------------------------------------------------
(* The sums of the model.                                                  *)

MarginSum(S) ==
  CHOOSE f : f = [s \in SUBSET S |-> IF s = {} THEN 0 ELSE Pick(s).margin + f[s \ {Pick(s)}]]
WorthSum(S) ==
  CHOOSE f : f = [s \in SUBSET S |-> IF s = {} THEN 0 ELSE Unrealized(Pick(s), Pick(s).mark) + f[s \ {Pick(s)}]]
WonSum(X) ==
  CHOOSE f : f = [s \in SUBSET X |-> IF s = {} THEN 0 ELSE Unrealized(Pick(s).pos, Pick(s).price) + f[s \ {Pick(s)}]]

Won(X) == MapThenSumSet(LAMBDA x : Unrealized(x.pos, x.price), X)

LEMMA SumsExpanded ==
  \A S : /\ Locked(S) = MarginSum(S)[S]
         /\ MapThenSumSet(LAMBDA p : Unrealized(p, p.mark), S) = WorthSum(S)[S]
         /\ Won(S) = WonSum(S)[S]
BY DEF Locked, Won, MapThenSumSet, MapThenFoldSet, MarginSum, WorthSum, WonSum, Pick

LEMMA SumSolved ==
  ASSUME NEW S, NEW w, NEW f, IsSum(f, w, S)
  PROVE  f = [s \in SUBSET S |-> IF s = {} THEN 0 ELSE w[Pick(s)] + f[s \ {Pick(s)}]]
<1>1. f \in [SUBSET S -> Int]
  BY DEF IsSum
<1>2. \A s \in SUBSET S : f[s] = IF s = {} THEN 0 ELSE w[Pick(s)] + f[s \ {Pick(s)}]
  BY DEF IsSum
<1>3. QED
  BY <1>1, <1>2

LEMMA MarginSumIs ==
  ASSUME NEW S, IsFiniteSet(S), NEW w \in [S -> Int], \A x \in S : w[x] = x.margin
  PROVE  Follows(MarginSum(S), w, S)
<1>1. PICK f : IsSum(f, w, S)
  BY SumExists
<1>2. \A s \in SUBSET S : s # {} => Pick(s) \in S
  BY Picked
<1>3. f = [s \in SUBSET S |-> IF s = {} THEN 0 ELSE w[Pick(s)] + f[s \ {Pick(s)}]]
  BY <1>1, SumSolved
<1>4. f = [s \in SUBSET S |-> IF s = {} THEN 0 ELSE Pick(s).margin + f[s \ {Pick(s)}]]
  BY <1>2, <1>3
<1> DEFINE g == MarginSum(S)
<1>5. g = [s \in SUBSET S |-> IF s = {} THEN 0 ELSE Pick(s).margin + g[s \ {Pick(s)}]]
  BY <1>4 DEF MarginSum
<1> HIDE DEF g
<1>6. QED
  BY <1>2, <1>5 DEF g, Follows

LEMMA WorthSumIs ==
  ASSUME NEW S, IsFiniteSet(S), NEW w \in [S -> Int], \A x \in S : w[x] = Unrealized(x, x.mark)
  PROVE  Follows(WorthSum(S), w, S)
<1>1. PICK f : IsSum(f, w, S)
  BY SumExists
<1>2. \A s \in SUBSET S : s # {} => Pick(s) \in S
  BY Picked
<1>3. f = [s \in SUBSET S |-> IF s = {} THEN 0 ELSE w[Pick(s)] + f[s \ {Pick(s)}]]
  BY <1>1, SumSolved
<1>4. f = [s \in SUBSET S |-> IF s = {} THEN 0 ELSE Unrealized(Pick(s), Pick(s).mark) + f[s \ {Pick(s)}]]
  BY <1>2, <1>3
<1> DEFINE g == WorthSum(S)
<1>5. g = [s \in SUBSET S |-> IF s = {} THEN 0 ELSE Unrealized(Pick(s), Pick(s).mark) + g[s \ {Pick(s)}]]
  BY <1>4 DEF WorthSum
<1> HIDE DEF g
<1>6. QED
  BY <1>2, <1>5 DEF g, Follows

LEMMA WonSumIs ==
  ASSUME NEW S, IsFiniteSet(S), NEW w \in [S -> Int], \A x \in S : w[x] = Unrealized(x.pos, x.price)
  PROVE  Follows(WonSum(S), w, S)
<1>1. PICK f : IsSum(f, w, S)
  BY SumExists
<1>2. \A s \in SUBSET S : s # {} => Pick(s) \in S
  BY Picked
<1>3. f = [s \in SUBSET S |-> IF s = {} THEN 0 ELSE w[Pick(s)] + f[s \ {Pick(s)}]]
  BY <1>1, SumSolved
<1>4. f = [s \in SUBSET S |-> IF s = {} THEN 0 ELSE Unrealized(Pick(s).pos, Pick(s).price) + f[s \ {Pick(s)}]]
  BY <1>2, <1>3
<1> DEFINE g == WonSum(S)
<1>5. g = [s \in SUBSET S |-> IF s = {} THEN 0 ELSE Unrealized(Pick(s).pos, Pick(s).price) + g[s \ {Pick(s)}]]
  BY <1>4 DEF WonSum
<1> HIDE DEF g
<1>6. QED
  BY <1>2, <1>5 DEF g, Follows


\* Margins add up.
LEMMA LockedTakes ==
  ASSUME NEW P, IsFiniteSet(P), \A p \in P : p.margin \in Int
  PROVE  /\ Locked({}) = 0
         /\ \A T \in SUBSET P : Locked(T) \in Int
         /\ \A T \in SUBSET P : \A x \in T : Locked(T) = x.margin + Locked(T \ {x})
<1> DEFINE w == [p \in P |-> p.margin]
<1>1. w \in [P -> Int] /\ \A p \in P : w[p] = p.margin
  OBVIOUS
<1> HIDE DEF w
<1>2. PICK f : IsSum(f, w, P)
  BY <1>1, SumExists
<1>3. ASSUME NEW T \in SUBSET P PROVE Locked(T) = f[T]
  <2> DEFINE v == [p \in T |-> p.margin]
             g == MarginSum(T)
  <2>1. v \in [T -> Int] /\ \A p \in T : v[p] = p.margin
    OBVIOUS
  <2> HIDE DEF v
  <2>2. IsFiniteSet(T)
    BY FS_Subset
  <2>3. Follows(g, v, T)
    BY <2>1, <2>2, MarginSumIs
  <2> HIDE DEF g
  <2>4. \A s \in SUBSET T : s # {} => v[Pick(s)] = w[Pick(s)]
    BY <1>1, <2>1, Picked
  <2>5. Follows(g, w, T)
    BY <2>3, <2>4 DEF Follows
  <2>6. \A s \in SUBSET T : g[s] = f[s]
    BY <1>1, <1>2, <2>3, <2>5, SumAgrees
  <2>7. QED
    BY <2>6, SumsExpanded DEF g
<1>4. \A T \in SUBSET P : f[T] \in Int
  BY <1>2 DEF IsSum
<1>5. f[{}] = 0
  BY <1>2 DEF IsSum
<1>6. ASSUME NEW T \in SUBSET P, NEW x \in T PROVE f[T] = w[x] + f[T \ {x}]
  BY <1>1, <1>2, SumTakes
<1>7. \A T \in SUBSET P : \A x \in T : T \ {x} \in SUBSET P /\ w[x] = x.margin
  BY <1>1
<1>8. Locked({}) = 0
  BY <1>3, <1>5
<1>9. \A T \in SUBSET P : \A x \in T : Locked(T) = x.margin + Locked(T \ {x})
  BY <1>3, <1>6, <1>7
<1>10. QED
  BY <1>3, <1>4, <1>8, <1>9

LEMMA WorthIsInt ==
  ASSUME NEW P, IsFiniteSet(P), \A p \in P : Unrealized(p, p.mark) \in Int
  PROVE  WorthSum(P)[P] \in Int
<1> DEFINE w == [p \in P |-> Unrealized(p, p.mark)]
           g == WorthSum(P)
<1>0. w \in [P -> Int]
  OBVIOUS
<1>1. \A p \in P : w[p] = Unrealized(p, p.mark)
  OBVIOUS
<1> HIDE DEF w
<1>2. PICK f : IsSum(f, w, P)
  BY <1>0, SumExists
<1>3. Follows(g, w, P)
  BY <1>0, <1>1, WorthSumIs
<1> HIDE DEF g
<1>4. g[P] = f[P]
  <2>1. P \in SUBSET P
    OBVIOUS
  <2>2. \A s \in SUBSET P : g[s] = f[s]
    BY <2>1, <1>0, <1>2, <1>3, SumAgrees
  <2>3. QED
    BY <2>1, <2>2
<1>5. f[P] \in Int
  BY <1>2 DEF IsSum
<1>6. QED
  BY <1>4, <1>5 DEF g

LEMMA WonIsInt ==
  ASSUME NEW X, IsFiniteSet(X), \A x \in X : Unrealized(x.pos, x.price) \in Int
  PROVE  Won(X) \in Int
<1> DEFINE w == [x \in X |-> Unrealized(x.pos, x.price)]
           g == WonSum(X)
<1>0. w \in [X -> Int]
  OBVIOUS
<1>1. \A x \in X : w[x] = Unrealized(x.pos, x.price)
  OBVIOUS
<1> HIDE DEF w
<1>2. PICK f : IsSum(f, w, X)
  BY <1>0, SumExists
<1>3. Follows(g, w, X)
  BY <1>0, <1>1, WonSumIs
<1> HIDE DEF g
<1>4. g[X] = f[X]
  <2>1. X \in SUBSET X
    OBVIOUS
  <2>2. \A s \in SUBSET X : g[s] = f[s]
    BY <2>1, <1>0, <1>2, <1>3, SumAgrees
  <2>3. QED
    BY <2>1, <2>2
<1>5. f[X] \in Int
  BY <1>2 DEF IsSum
<1>6. QED
  BY <1>4, <1>5, SumsExpanded DEF g

\* What is taken out of a set of positions and what is left of it.
LEMMA LockedSplits ==
  ASSUME NEW P, IsFiniteSet(P), \A p \in P : p.margin \in Int, NEW T \in SUBSET P
  PROVE  Locked(P) = Locked(T) + Locked(P \ T)
<1> DEFINE Bad == {t \in SUBSET P : Locked(P) # Locked(t) + Locked(P \ t)}
<1>1. ASSUME NEW t \in Bad, \A u \in Bad : u \subseteq t => u = t
      PROVE  FALSE
  <2>1. t \in SUBSET P /\ Locked(P) # Locked(t) + Locked(P \ t)
    OBVIOUS
  <2>2. t # {}
    <3>1. Locked({}) = 0 /\ Locked(P) \in Int
      BY LockedTakes
    <3>2. CASE t = {}
      <4> DEFINE r == P \ t
      <4>1. Locked(t) = 0 /\ r = P
        BY <3>1, <3>2
      <4>2. Locked(P) # Locked(t) + Locked(r)
        BY <2>1
      <4> HIDE DEF r
      <4>3. QED
        BY <3>1, <4>1, <4>2
    <3>3. QED
      BY <3>2
  <2>3. PICK x \in t : TRUE
    BY <2>2
  <2> DEFINE u == t \ {x}
  <2>4. u \in SUBSET P /\ u \subseteq t /\ u # t
    BY <2>1, <2>3
  <2>5. Locked(P) = Locked(u) + Locked(P \ u)
    <3> HIDE DEF u, Bad
    <3>1. u \notin Bad
      BY <1>1, <2>4
    <3>2. QED
      BY <2>4, <3>1 DEF Bad
  <2>6. P \ u \in SUBSET P /\ x \in P \ u /\ (P \ u) \ {x} = P \ t /\ P \ t \in SUBSET P
    BY <2>1, <2>3
  <2>7. x.margin \in Int /\ Locked(u) \in Int /\ Locked(P \ t) \in Int
    BY <2>4, <2>6, LockedTakes
  <2>8. Locked(t) = x.margin + Locked(u)
    BY <2>1, <2>3, LockedTakes
  <2> HIDE DEF u
  <2>9. Locked(P \ u) = x.margin + Locked(P \ t)
    BY <2>6, LockedTakes
  <2>10. QED
    BY <2>1, <2>5, <2>7, <2>8, <2>9
<1>2. \A t \in Bad : IsFiniteSet(t)
  BY FS_Subset
<1> HIDE DEF Bad
<1>3. Bad = {}
  BY <1>1, <1>2, SmallestSet
<1>4. QED
  BY <1>3 DEF Bad

-----------------------------------------------------------------------------
(* What the sums are about: accounts whose positions are distinct rows.    *)

Positions ==
  [id : Nat, instrument : {InstrumentOf[b] : b \in Bots}, side : {1, -1}, units : Int, entry : Int,
   margin : Int, stop : Nat, target : Nat, mark : Int]

Accounts ==
  [cash : Int, halted : BOOLEAN, peak : Int, positions : SUBSET Positions, realized : Int, nextId : Nat, gap : Int]

Sound(a) ==
  /\ a \in Accounts
  /\ IsFiniteSet(a.positions)
  /\ \A p \in a.positions : p.id < a.nextId
  /\ \A p, q \in a.positions : p.id = q.id => p = q

Balanced(a) ==
  a.cash + Locked(a.positions) = StartingBalance + a.realized - Commission * (a.nextId - 1) + a.gap

\* A bot that deliberates holds a quote.
Awaiting ==
  /\ phase \in [Bots -> {"idle", "context", "thinking"}]
  /\ quote \in [Bots -> Nat]
  /\ \A b \in Bots : phase[b] # "idle" => quote[b] > 0

\* The inductive invariant.
IInv == Sound(account) /\ Balanced(account) /\ Awaiting

Sane(a) == Sound(a) /\ Balanced(a)

LEMMA Constants ==
  /\ StartingBalance \in Nat /\ Commission \in Nat /\ SpreadPaid \in Nat /\ MaxPositions \in Nat
  /\ RiskPct \in Nat /\ AllocationPct \in Nat /\ Leverage \in Nat /\ Leverage > 0
  /\ \A k \in Bars : k.open \in Nat /\ k.close \in Nat /\ k.close > 0
  /\ \A l \in Levels : l \in Nat
  /\ \A r \in Requests : r \in Nat
BY BookAssumption

LEMMA UnrealizedIsInt ==
  ASSUME NEW p \in Positions, NEW price \in Int
  PROVE  Unrealized(p, price) \in Int
<1>1. p.side \in Int /\ p.entry \in Int /\ p.units \in Int
  BY DEF Positions
<1>2. QED
  BY <1>1 DEF Unrealized

LEMMA MarginsAreInts ==
  ASSUME NEW a, Sound(a)
  PROVE  /\ a.positions \subseteq Positions
         /\ \A p \in a.positions : p.margin \in Int
BY DEF Sound, Accounts, Positions

LEMMA EquityIsInt ==
  ASSUME NEW a, Sound(a)
  PROVE  Equity(a) \in Int
<1>1. a.positions \subseteq Positions /\ IsFiniteSet(a.positions) /\ a.cash \in Int
  BY MarginsAreInts DEF Sound, Accounts
<1>2. \A p \in a.positions : p.mark \in Int
  BY <1>1 DEF Positions
<1>3. \A p \in a.positions : Unrealized(p, p.mark) \in Int
  BY <1>1, <1>2, UnrealizedIsInt
<1>4. WorthSum(a.positions)[a.positions] \in Int
  BY <1>1, <1>3, WorthIsInt
<1>5. Locked(a.positions) \in Int
  <2>1. a.positions \in SUBSET a.positions
    OBVIOUS
  <2>2. QED
    BY <2>1, <1>1, MarginsAreInts, LockedTakes
<1>6. Equity(a) = a.cash + Locked(a.positions) + WorthSum(a.positions)[a.positions]
  BY DEF Equity, MapThenSumSet, MapThenFoldSet, WorthSum, Pick
<1>7. QED
  BY <1>1, <1>4, <1>5, <1>6

\* Positions of a that leave at a price.
Exits(a, X) ==
  /\ IsFiniteSet(X)
  /\ \A x \in X : x.pos \in a.positions /\ x.price \in Int

\* closeInDb moves the margin and the result of each exit to the cash.
LEMMA CloseAllSane ==
  ASSUME NEW a, Sound(a), NEW X, Exits(a, X)
  PROVE  /\ Sound(CloseAll(a, X))
         /\ Balanced(a) => Balanced(CloseAll(a, X))
         /\ CloseAll(a, X).positions \subseteq a.positions
         /\ CloseAll(a, X).nextId = a.nextId
<1> DEFINE closed == {x.pos : x \in X}
           won == WonSum(X)[X]
           lost == Locked(closed)
           c == [a EXCEPT !.cash = @ + lost + won, !.realized = @ + won, !.positions = @ \ closed]
<1>1. CloseAll(a, X) = c
  BY DEF CloseAll, MapThenSumSet, MapThenFoldSet, WonSum, Pick
<1>2. \A x \in X : Unrealized(x.pos, x.price) \in Int
  BY MarginsAreInts, UnrealizedIsInt DEF Exits
<1>3. won \in Int
  BY <1>2, WonIsInt, SumsExpanded DEF Exits
<1>4. closed \in SUBSET a.positions
  BY DEF Exits
<1> HIDE DEF closed, won
<1>5. IsFiniteSet(a.positions)
  BY DEF Sound
<1>6. lost \in Int /\ Locked(a.positions \ closed) \in Int
      /\ Locked(a.positions) = lost + Locked(a.positions \ closed)
  <2>1. a.positions \ closed \in SUBSET a.positions
    OBVIOUS
  <2>2. QED
    BY <1>4, <1>5, <2>1, MarginsAreInts, LockedTakes, LockedSplits
<1> HIDE DEF lost
<1>7. /\ c \in Accounts /\ c.cash = a.cash + lost + won /\ c.realized = a.realized + won
      /\ c.positions = a.positions \ closed /\ c.nextId = a.nextId /\ c.gap = a.gap
  <2>1. a \in Accounts
    BY DEF Sound
  <2>2. a.cash + lost + won \in Int /\ a.realized + won \in Int /\ a.positions \ closed \in SUBSET Positions
    BY <2>1, <1>3, <1>6 DEF Accounts
  <2>3. /\ c.cash = a.cash + lost + won /\ c.realized = a.realized + won
        /\ c.positions = a.positions \ closed /\ c.nextId = a.nextId /\ c.gap = a.gap
    BY <2>1 DEF Accounts
  <2>4. c \in Accounts
    BY <2>1, <2>2 DEF Accounts
  <2>5. QED
    BY <2>3, <2>4
<1> HIDE DEF c
<1>8. IsFiniteSet(c.positions)
  <2>1. a.positions \ closed \in SUBSET a.positions
    OBVIOUS
  <2>2. IsFiniteSet(a.positions \ closed)
    BY <1>5, <2>1, FS_Subset
  <2>3. QED
    BY <1>7, <2>2
<1>9. Sound(c)
  BY <1>7, <1>8 DEF Sound
<1>10. ASSUME Balanced(a) PROVE Balanced(c)
  <2> DEFINE fees == Commission * (a.nextId - 1)
             left == Locked(a.positions \ closed)
  <2>1. a.cash + Locked(a.positions) = StartingBalance + a.realized - fees + a.gap
    BY <1>10 DEF Balanced
  <2>2. Balanced(c) <=> c.cash + left = StartingBalance + c.realized - fees + c.gap
    BY <1>7 DEF Balanced
  <2>3. fees \in Int /\ a.cash \in Int /\ a.realized \in Int /\ a.gap \in Int /\ StartingBalance \in Int
    BY Constants DEF Sound, Accounts
  <2>4. Locked(a.positions) = lost + left /\ left \in Int
    BY <1>6
  <2> HIDE DEF fees, left
  <2>5. QED
    BY <2>1, <2>2, <2>3, <2>4, <1>3, <1>6, <1>7
<1>11. QED
  BY <1>1, <1>7, <1>9, <1>10

\* Exits are as many as the positions that leave.
LEMMA ExitsAreFinite ==
  ASSUME NEW Q, IsFiniteSet(Q), NEW f, NEW X, X = {[pos |-> p, price |-> f[p]] : p \in Q}
  PROVE  IsFiniteSet(X)
<1> DEFINE g == [p \in Q |-> [pos |-> p, price |-> f[p]]]
<1>1. g \in Surjection(Q, X)
  BY DEF Surjection
<1>2. QED
  BY <1>1, FS_Surjection

LEMMA OnInstrumentIs ==
  ASSUME NEW a, Sound(a), NEW b
  PROVE  OnInstrument(a, b) \in SUBSET a.positions /\ IsFiniteSet(OnInstrument(a, b))
<1>1. OnInstrument(a, b) \in SUBSET a.positions
  BY DEF OnInstrument
<1>2. QED
  BY <1>1, FS_Subset DEF Sound

LEMMA FillsAreExits ==
  ASSUME NEW a, Sound(a), NEW b \in Bots, NEW k \in Bars
  PROVE  Exits(a, Fills(a, b, k))
<1> DEFINE Q == {q \in OnInstrument(a, b) : StopHit(q, Worst(q, k)) \/ TargetHit(q, Best(q, k))}
           f == [p \in Q |-> FillPrice(p, k)]
<1>1. Q \in SUBSET a.positions
  BY OnInstrumentIs
<1>2. Fills(a, b, k) = {[pos |-> p, price |-> f[p]] : p \in Q}
  BY DEF Fills
<1>3. ASSUME NEW p \in a.positions PROVE FillPrice(p, k) \in Int
  <2>1. p.stop \in Int /\ p.target \in Int /\ k.open \in Int
    BY MarginsAreInts, Constants DEF Positions
  <2>2. QED
    BY <2>1 DEF FillPrice
<1>4. \A p \in Q : f[p] \in Int
  BY <1>1, <1>3
<1> HIDE DEF Q, f
<1>5. IsFiniteSet(Q)
  BY <1>1, FS_Subset DEF Sound
<1>6. IsFiniteSet(Fills(a, b, k))
  BY <1>2, <1>5, ExitsAreFinite
<1>7. \A x \in Fills(a, b, k) : x.pos \in a.positions /\ x.price \in Int
  BY <1>1, <1>2, <1>4
<1>8. QED
  BY <1>6, <1>7 DEF Exits

\* A mark changes no margin.
At(P, m) == {[p EXCEPT !.mark = m] : p \in P}

LEMMA AtIs ==
  ASSUME NEW P \in SUBSET Positions, IsFiniteSet(P), NEW m \in Int
  PROVE  At(P, m) \in SUBSET Positions /\ IsFiniteSet(At(P, m))
<1>1. At(P, m) \in SUBSET Positions
  BY DEF At, Positions
<1> DEFINE g == [p \in P |-> [p EXCEPT !.mark = m]]
<1>2. g \in Surjection(P, At(P, m))
  BY DEF Surjection, At
<1>3. QED
  BY <1>1, <1>2, FS_Surjection

LEMMA MarksKeepMargins ==
  ASSUME NEW P \in SUBSET Positions, IsFiniteSet(P), \A p, q \in P : p.id = q.id => p = q,
         NEW m \in Int
  PROVE  Locked(At(P, m)) = Locked(P)
<1> DEFINE Bad == {t \in SUBSET P : Locked(At(t, m)) # Locked(t)}
<1>0. \A p \in Positions : p.margin \in Int
  BY DEF Positions
<1>1. ASSUME NEW t \in Bad, \A u \in Bad : u \subseteq t => u = t
      PROVE  FALSE
  <2>1. t \in SUBSET P /\ Locked(At(t, m)) # Locked(t)
    OBVIOUS
  <2>2. t # {}
    <3>1. CASE t = {}
      <4>1. At(t, m) = t
        BY <3>1 DEF At
      <4>2. QED
        BY <2>1, <4>1
    <3>2. QED
      BY <3>1
  <2>3. PICK x \in t : TRUE
    BY <2>2
  <2> DEFINE u == t \ {x}
             y == [x EXCEPT !.mark = m]
  <2>4. u \in SUBSET P /\ u \subseteq t /\ u # t
    BY <2>1, <2>3
  <2>5. Locked(At(u, m)) = Locked(u)
    <3> HIDE DEF u, Bad
    <3>1. u \notin Bad
      BY <1>1, <2>4
    <3>2. QED
      BY <2>4, <3>1 DEF Bad
  <2>6. x \in P /\ x \in Positions
    BY <2>1, <2>3
  <2>7. y.id = x.id /\ y.margin = x.margin
    BY <2>6 DEF Positions
  <2>8. ASSUME NEW p \in u PROVE p.id # x.id /\ [p EXCEPT !.mark = m].id = p.id
    <3>1. p \in P /\ p # x /\ p \in Positions
      BY <2>4
    <3>2. [p EXCEPT !.mark = m].id = p.id
      BY <3>1 DEF Positions
    <3>3. QED
      BY <3>1, <3>2, <2>6
  <2>9. y \in At(t, m)
    BY <2>3 DEF At
  <2>10. At(t, m) \ {y} = At(u, m)
    <3> HIDE DEF y
    <3>1. ASSUME NEW q \in At(u, m) PROVE q.id # y.id /\ q \in At(t, m)
      <4>1. PICK p \in u : q = [p EXCEPT !.mark = m]
        BY DEF At
      <4>2. q.id # y.id
        BY <4>1, <2>7, <2>8
      <4>3. q \in At(t, m)
        BY <4>1, <2>4 DEF At
      <4>4. QED
        BY <4>2, <4>3
    <3>2. \A q \in At(t, m) : q # y => q \in At(u, m)
      BY DEF At, y
    <3>3. QED
      BY <3>1, <3>2
  <2> HIDE DEF u, y
  <2>11. IsFiniteSet(P) /\ IsFiniteSet(t) /\ t \in SUBSET Positions
    BY <2>1, FS_Subset
  <2>12. At(t, m) \in SUBSET Positions /\ IsFiniteSet(At(t, m))
    BY <2>11, AtIs
  <2>13. Locked(t) = x.margin + Locked(u)
    BY <2>1, <2>3, <1>0, LockedTakes DEF u
  <2>14. Locked(At(t, m)) = y.margin + Locked(At(u, m))
    <3> DEFINE A == At(t, m)
    <3>1. A \in SUBSET A /\ y \in A /\ IsFiniteSet(A) /\ \A p \in A : p.margin \in Int
      BY <2>9, <2>12, <1>0
    <3>2. Locked(A) = y.margin + Locked(A \ {y})
      <4> HIDE DEF A
      <4>1. QED
        BY <3>1, LockedTakes
    <3>3. QED
      BY <3>2, <2>10
  <2>15. QED
    BY <2>1, <2>5, <2>7, <2>13, <2>14
<1>2. \A t \in Bad : IsFiniteSet(t)
  BY FS_Subset
<1> HIDE DEF Bad
<1>3. Bad = {}
  BY <1>1, <1>2, SmallestSet
<1>4. QED
  BY <1>3 DEF Bad

LEMMA RemarkSane ==
  ASSUME NEW a, Sound(a), NEW b \in Bots, NEW k \in Bars
  PROVE  /\ Sound(Remark(a, b, k))
         /\ Balanced(a) => Balanced(Remark(a, b, k))
         /\ Exits(Remark(a, b, k), MarkExits(a, b, k))
         /\ Remark(a, b, k).nextId = a.nextId
<1> DEFINE on == OnInstrument(a, b)
           off == a.positions \ on
           new == Marked(a, b, k)
           all == off \cup new
           c == Remark(a, b, k)
<1>1. /\ a \in Accounts /\ a.positions \subseteq Positions /\ IsFiniteSet(a.positions)
      /\ on \in SUBSET a.positions /\ IsFiniteSet(on)
      /\ \A p \in a.positions : p.id < a.nextId
      /\ \A p, q \in a.positions : p.id = q.id => p = q
  BY MarginsAreInts, OnInstrumentIs DEF Sound
<1>2. k.close \in Int
  BY Constants
<1>3. new = At(on, k.close)
  BY DEF Marked, At
<1> HIDE DEF on, new
<1>4. on \in SUBSET Positions /\ \A p, q \in on : p.id = q.id => p = q
  BY <1>1
<1>5. new \in SUBSET Positions /\ IsFiniteSet(new) /\ Locked(new) = Locked(on)
  BY <1>1, <1>2, <1>3, <1>4, AtIs, MarksKeepMargins
<1>6. ASSUME NEW q \in new PROVE \E p \in on : p.id = q.id /\ q = [p EXCEPT !.mark = k.close]
  <2>1. PICK p \in on : q = [p EXCEPT !.mark = k.close]
    BY <1>3 DEF At
  <2>2. q.id = p.id
    BY <2>1, <1>4 DEF Positions
  <2>3. QED
    BY <2>1, <2>2
<1>7. \A q \in new : q.id < a.nextId
  BY <1>1, <1>6
<1>8. ASSUME NEW p \in off, NEW q \in new PROVE p.id # q.id
  BY <1>1, <1>6
<1>9. ASSUME NEW p \in new, NEW q \in new, p.id = q.id PROVE p = q
  <2>1. PICK v \in on : v.id = p.id /\ p = [v EXCEPT !.mark = k.close]
    BY <1>6
  <2>2. PICK w \in on : w.id = q.id /\ q = [w EXCEPT !.mark = k.close]
    BY <1>6
  <2>3. v = w
    BY <2>1, <2>2, <1>9, <1>4
  <2>4. QED
    BY <2>1, <2>2, <2>3
<1>10. off \in SUBSET a.positions /\ IsFiniteSet(off)
  <2>1. off \in SUBSET a.positions
    OBVIOUS
  <2>2. QED
    BY <2>1, <1>1, FS_Subset
<1>11. all \in SUBSET Positions /\ IsFiniteSet(all)
  BY <1>1, <1>5, <1>10, FS_Union
<1>12. c = [a EXCEPT !.positions = all]
  BY DEF Remark, on, new
<1>13. /\ c \in Accounts /\ c.positions = all /\ c.cash = a.cash /\ c.realized = a.realized
       /\ c.nextId = a.nextId /\ c.gap = a.gap
  BY <1>1, <1>11, <1>12 DEF Accounts
<1> HIDE DEF c
<1>14. Sound(c)
  <2>1. \A p \in all : p.id < c.nextId
    BY <1>1, <1>7, <1>10, <1>13
  <2>2. \A p, q \in all : p.id = q.id => p = q
    BY <1>1, <1>8, <1>9, <1>10
  <2>3. QED
    BY <2>1, <2>2, <1>11, <1>13 DEF Sound
<1>15. Locked(all) = Locked(a.positions)
  <2>1. \A p \in all : p.margin \in Int
    BY <1>11 DEF Positions
  <2>2. \A p \in a.positions : p.margin \in Int
    BY MarginsAreInts
  <2>3. Locked(a.positions) = Locked(on) + Locked(off)
    BY <1>1, <2>2, LockedSplits
  <2>4. all \ new = off /\ new \in SUBSET all
    BY <1>8
  <2>5. Locked(all) = Locked(new) + Locked(off)
    <3> DEFINE rest == all \ new
    <3>1. rest = off /\ new \in SUBSET all
      BY <2>4
    <3> HIDE DEF off, all
    <3>2. Locked(all) = Locked(new) + Locked(rest)
      BY <1>11, <2>1, <3>1, LockedSplits
    <3> HIDE DEF rest
    <3>3. QED
      BY <3>1, <3>2
  <2> HIDE DEF off, all
  <2>6. QED
    BY <2>3, <2>5, <1>5
<1>16. Balanced(a) => Balanced(c)
  BY <1>13, <1>15 DEF Balanced
<1>17. Exits(c, MarkExits(a, b, k))
  <2> DEFINE Q == {q \in new : Unrealized(q, k.close) <= -q.margin \/ StopHit(q, k.close) \/ TargetHit(q, k.close)}
             f == [p \in Q |-> k.close]
  <2>1. MarkExits(a, b, k) = {[pos |-> p, price |-> f[p]] : p \in Q}
    BY DEF MarkExits, new
  <2>2. Q \in SUBSET new /\ Q \in SUBSET all /\ \A p \in Q : f[p] \in Int
    BY <1>2
  <2> HIDE DEF Q, f
  <2>3. IsFiniteSet(Q)
    BY <2>2, <1>5, FS_Subset
  <2>4. IsFiniteSet(MarkExits(a, b, k))
    BY <2>1, <2>3, ExitsAreFinite
  <2>5. \A x \in MarkExits(a, b, k) : x.pos \in all /\ x.price \in Int
    BY <2>1, <2>2
  <2>6. QED
    BY <2>4, <2>5, <1>13 DEF Exits
<1>18. QED
  BY <1>13, <1>14, <1>16, <1>17 DEF c

\* What changes neither money nor positions.
SameMoney(a, c) ==
  /\ c \in Accounts /\ c.positions = a.positions /\ c.cash = a.cash /\ c.realized = a.realized
  /\ c.nextId = a.nextId /\ c.gap = a.gap

LEMMA FlagsSane ==
  ASSUME NEW a, Sound(a), NEW c, SameMoney(a, c)
  PROVE  /\ Sound(c)
         /\ Balanced(a) => Balanced(c)
         /\ c.nextId = a.nextId
<1>1. Sound(c)
  BY DEF Sound, SameMoney
<1>2. Balanced(a) => Balanced(c)
  BY DEF Balanced, SameMoney
<1>3. QED
  BY <1>1, <1>2 DEF SameMoney

LEMMA HaltedSane ==
  ASSUME NEW a, Sound(a), NEW c, c = [a EXCEPT !.halted = TRUE]
  PROVE  /\ Sound(c)
         /\ Balanced(a) => Balanced(c)
         /\ c.nextId = a.nextId
<1>1. SameMoney(a, c)
  BY DEF Sound, Accounts, SameMoney
<1>2. QED
  BY <1>1, FlagsSane

LEMMA LargerOfTwo ==
  ASSUME NEW m \in Int, NEW n \in Int
  PROVE  Max({m, n}) \in Int /\ Min({m, n}) \in {m, n} /\ Min({m, n}) <= m /\ Min({m, n}) <= n
<1>1. \E x \in {m, n} : \A y \in {m, n} : x >= y
  OBVIOUS
<1>2. \E x \in {m, n} : \A y \in {m, n} : x <= y
  OBVIOUS
<1>3. Max({m, n}) \in {m, n}
  BY <1>1 DEF Max
<1>4. Min({m, n}) \in {m, n} /\ \A y \in {m, n} : Min({m, n}) <= y
  BY <1>2 DEF Min
<1>5. QED
  BY <1>3, <1>4

LEMMA KillSwitchSane ==
  ASSUME NEW a, Sound(a)
  PROVE  /\ Sound(KillSwitch(a))
         /\ Balanced(a) => Balanced(KillSwitch(a))
         /\ KillSwitch(a).nextId = a.nextId
<1> DEFINE peak == Max({a.peak, Equity(a)})
           over == peak > 0 /\ (peak - Equity(a)) * 100 > KillSwitchPct * peak
           h == a.halted \/ over
<1>1. a.peak \in Int /\ Equity(a) \in Int
  BY EquityIsInt DEF Sound, Accounts
<1>2. peak \in Int
  BY <1>1, LargerOfTwo
<1>3. KillSwitch(a) = [a EXCEPT !.halted = h, !.peak = peak]
  BY DEF KillSwitch, Sound, Accounts
<1>4. h \in BOOLEAN
  OBVIOUS
<1> DEFINE c == KillSwitch(a)
<1>5. c = [a EXCEPT !.halted = h, !.peak = peak]
  BY <1>3
<1> HIDE DEF h, peak, c
<1>6. h = TRUE \/ h = FALSE
  BY <1>4
<1>7. SameMoney(a, c)
  <2>1. CASE h = TRUE
    <3>1. c = [a EXCEPT !.halted = TRUE, !.peak = peak]
      BY <1>5, <2>1, Zenon
    <3>2. QED
      BY <1>2, <3>1 DEF Sound, Accounts, SameMoney
  <2>2. CASE h = FALSE
    <3>1. c = [a EXCEPT !.halted = FALSE, !.peak = peak]
      BY <1>5, <2>2, Zenon
    <3>2. QED
      BY <1>2, <3>1 DEF Sound, Accounts, SameMoney
  <2>3. QED
    BY <1>6, <2>1, <2>2
<1>8. QED
  BY <1>7, FlagsSane DEF c

LEMMA HaltResetSane ==
  ASSUME NEW a, Sound(a)
  PROVE  /\ Sound(HaltReset(a))
         /\ Balanced(a) => Balanced(HaltReset(a))
         /\ HaltReset(a).nextId = a.nextId
<1>1. CASE a.halted
  <2>1. HaltReset(a) = [a EXCEPT !.halted = FALSE, !.peak = Equity(a)]
    BY <1>1 DEF HaltReset
  <2>2. SameMoney(a, HaltReset(a))
    <3> DEFINE e == Equity(a)
    <3>1. e \in Int /\ a \in Accounts
      BY EquityIsInt DEF Sound
    <3>2. HaltReset(a) = [a EXCEPT !.halted = FALSE, !.peak = e]
      BY <2>1
    <3> HIDE DEF e
    <3>3. QED
      BY <3>1, <3>2 DEF Accounts, SameMoney
  <2>3. QED
    BY <2>2, FlagsSane
<1>2. CASE ~a.halted
  BY <1>2 DEF HaltReset
<1>3. QED
  BY <1>1, <1>2

LEMMA MarkToMarketSane ==
  ASSUME NEW a, Sound(a), NEW b \in Bots, NEW k \in Bars
  PROVE  /\ Sound(MarkToMarket(a, b, k))
         /\ Balanced(a) => Balanced(MarkToMarket(a, b, k))
         /\ MarkToMarket(a, b, k).nextId = a.nextId
<1> DEFINE marked == Remark(a, b, k)
           after == CloseAll(marked, MarkExits(a, b, k))
           f == [p \in after.positions |-> p.mark]
           X == {[pos |-> p, price |-> p.mark] : p \in after.positions}
           none == CloseAll(after, X)
<1>1. Sound(marked) /\ (Balanced(a) => Balanced(marked)) /\ marked.nextId = a.nextId
      /\ Exits(marked, MarkExits(a, b, k))
  BY RemarkSane
<1>2. Sound(after) /\ (Balanced(marked) => Balanced(after)) /\ after.nextId = marked.nextId
  <2> HIDE DEF marked
  <2>1. QED
    BY <1>1, CloseAllSane
<1>3. MarkToMarket(a, b, k) = IF Equity(after) <= 0 /\ ~after.halted THEN [none EXCEPT !.halted = TRUE] ELSE after
  BY DEF MarkToMarket
<1> HIDE DEF after
<1>4. Exits(after, X)
  <2>1. after.positions \subseteq Positions /\ IsFiniteSet(after.positions)
    BY <1>2, MarginsAreInts DEF Sound
  <2>2. X = {[pos |-> p, price |-> f[p]] : p \in after.positions}
    OBVIOUS
  <2>3. \A x \in X : x.pos \in after.positions /\ x.price \in Int
    BY <2>1 DEF Positions
  <2> HIDE DEF X, f
  <2>4. IsFiniteSet(X)
    BY <2>1, <2>2, ExitsAreFinite
  <2>5. QED
    BY <2>3, <2>4 DEF Exits
<1>5. Sound(none) /\ (Balanced(after) => Balanced(none)) /\ none.nextId = after.nextId
  <2> HIDE DEF X
  <2>1. QED
    BY <1>2, <1>4, CloseAllSane
<1> HIDE DEF none, marked
<1> DEFINE c == [none EXCEPT !.halted = TRUE]
<1>6. Sound(c) /\ (Balanced(none) => Balanced(c)) /\ c.nextId = none.nextId
  BY <1>5, HaltedSane
<1> HIDE DEF c
<1>7. MarkToMarket(a, b, k) \in {c, after}
  BY <1>3 DEF c
<1>8. QED
  BY <1>1, <1>2, <1>5, <1>6, <1>7

-----------------------------------------------------------------------------
(* The steps.  nextId' = nextId, but where a position is opened.           *)

LEMMA InitInv == BookInit => IInv
<1> SUFFICES ASSUME BookInit PROVE IInv
  OBVIOUS
<1>1. account = NewAccount /\ account \in Accounts /\ account.positions = {} /\ account.cash = StartingBalance
      /\ account.realized = 0 /\ account.nextId = 1 /\ account.gap = 0
  BY Constants DEF BookInit, NewAccount, Accounts
<1>2. Sound(account)
  BY <1>1, FS_EmptySet DEF Sound
<1>3. Locked({}) = 0
  <2>1. IsFiniteSet({}) /\ \A p \in {} : p.margin \in Int
    BY FS_EmptySet
  <2>2. QED
    BY <2>1, LockedTakes
<1>4. Balanced(account)
  BY <1>1, <1>3, Constants DEF Balanced
<1>5. Awaiting
  BY DEF BookInit, Awaiting
<1>6. QED
  BY <1>2, <1>4, <1>5 DEF IInv

LEMMA RestartsAwaits ==
  ASSUME Restarts PROVE Awaiting'
BY DEF Restarts, Awaiting

LEMMA AnsweredAwaits ==
  ASSUME Awaiting, NEW b \in Bots, Answered(b) PROVE Awaiting'
BY DEF Answered, Awaiting

LEMMA ResetInv ==
  ASSUME IInv, ResetHalt PROVE IInv' /\ account'.nextId = account.nextId
<1>1. Sound(account) /\ Balanced(account) /\ Awaiting
  BY DEF IInv
<1> DEFINE c == HaltReset(account)
<1>2. Sound(c) /\ Balanced(c) /\ c.nextId = account.nextId
  BY <1>1, HaltResetSane
<1>3. account' = c
  BY DEF ResetHalt
<1> HIDE DEF c
<1>4. Sound(account)' /\ Balanced(account)'
  BY <1>2, <1>3 DEF Sound, Balanced
<1>5. Awaiting'
  BY <1>1 DEF ResetHalt, Awaiting
<1>6. QED
  BY <1>2, <1>3, <1>4, <1>5 DEF IInv

\* What one cycle makes of the account a it begins with.
LEMMA CycleSane ==
  ASSUME NEW a, Sound(a), Balanced(a), NEW b \in Bots, NEW k \in Bars
  PROVE  LET done == KillSwitch(MarkToMarket(SimulateFills(a, b, k), b, k))
         IN  Sound(done) /\ Balanced(done) /\ done.nextId = a.nextId
<1> DEFINE filled == SimulateFills(a, b, k)
           marked == MarkToMarket(filled, b, k)
           done == KillSwitch(marked)
<1>1. Sound(filled) /\ Balanced(filled) /\ filled.nextId = a.nextId
  BY FillsAreExits, CloseAllSane DEF SimulateFills
<1> HIDE DEF filled
<1>2. Sound(marked) /\ Balanced(marked) /\ marked.nextId = a.nextId
  BY <1>1, MarkToMarketSane
<1> HIDE DEF marked
<1>3. Sound(done) /\ Balanced(done) /\ done.nextId = a.nextId
  BY <1>2, KillSwitchSane
<1>4. QED
  BY <1>3 DEF marked, filled

LEMMA CycleInv ==
  ASSUME IInv, NEW b \in Bots, Cycle(b) PROVE IInv' /\ account'.nextId = account.nextId
<1>1. Sound(account) /\ Balanced(account) /\ Awaiting
  BY DEF IInv
<1>2. PICK k \in Bars, reset \in BOOLEAN, event \in BOOLEAN :
        LET begun == IF reset THEN HaltReset(account) ELSE account
            done == KillSwitch(MarkToMarket(SimulateFills(begun, b, k), b, k))
        IN  /\ account' = done
            /\ phase' = IF event THEN [phase EXCEPT ![b] = "context"] ELSE phase
            /\ quote' = IF event THEN [quote EXCEPT ![b] = k.close] ELSE quote
  BY DEF Cycle
<1> DEFINE begun == IF reset THEN HaltReset(account) ELSE account
           done == KillSwitch(MarkToMarket(SimulateFills(begun, b, k), b, k))
<1>3. Sound(begun) /\ Balanced(begun) /\ begun.nextId = account.nextId
  BY <1>1, HaltResetSane
<1> HIDE DEF begun
<1>4. Sound(done) /\ Balanced(done) /\ done.nextId = account.nextId
  BY <1>3, CycleSane
<1>5. account' = done
  BY <1>2 DEF begun
<1> HIDE DEF done
<1>6. Sound(account)' /\ Balanced(account)'
  BY <1>4, <1>5 DEF Sound, Balanced
<1>7. Awaiting'
  <2>1. k.close \in Nat /\ k.close > 0
    BY Constants
  <2>2. CASE event
    BY <1>1, <1>2, <2>1, <2>2 DEF Awaiting
  <2>3. CASE ~event
    BY <1>1, <1>2, <2>3 DEF Awaiting
  <2>4. QED
    BY <2>2, <2>3
<1>8. QED
  BY <1>4, <1>5, <1>6, <1>7 DEF IInv

LEMMA Divided ==
  ASSUME NEW n \in Int, NEW l \in Nat, l > 0
  PROVE  n \div l \in Int /\ l * (n \div l) <= n
OBVIOUS

LEMMA DividedBelow ==
  ASSUME NEW n \in Int, NEW l \in Nat, l > 0, NEW m \in Int, n <= l * m
  PROVE  n \div l <= m
<1> DEFINE q == n \div l
<1>1. q \in Int /\ l * q <= n
  BY Divided
<1> HIDE DEF q
<1>2. l * q <= l * m
  BY <1>1
<1>3. q <= m
  BY <1>1, <1>2
<1>4. QED
  BY <1>3 DEF q

\* openPosition: a new row, with no more margin than the limits of now leave.
LEMMA PositionIs ==
  ASSUME NEW a, Sound(a), Awaiting, NEW b \in Bots, phase[b] = "thinking", NEW d \in Decisions(b)
  PROVE  LET p == Position(a, b, d)
         IN  /\ p \in Positions /\ p.id = a.nextId /\ p.instrument = InstrumentOf[b]
             /\ 100 * (Locked(OnInstrument(a, b)) + p.margin) <= AllocationPct * Equity(a)
<1> DEFINE e == Equity(a)
           on == Locked(OnInstrument(a, b))
           risk == (RiskPct * e) \div 100
           free == (AllocationPct * e) \div 100
           most == MaxMargin(a, b)
           notional == Min({d.notional, Leverage * most})
           margin == notional \div Leverage
           p == Position(a, b, d)
<1>1. e \in Int
  BY EquityIsInt
<1>2. on \in Int
  BY OnInstrumentIs, MarginsAreInts, LockedTakes DEF Sound
<1>3. most = Min({risk, free - on})
  BY DEF MaxMargin
<1>4. p = [id |-> a.nextId, instrument |-> InstrumentOf[b], side |-> d.side, units |-> notional \div quote[b],
           entry |-> quote[b] + d.side * SpreadPaid, margin |-> margin,
           stop |-> d.stop, target |-> d.target, mark |-> quote[b]]
  BY DEF Position
<1> HIDE DEF e, on, most, p
<1>5. risk \in Int /\ free \in Int /\ 100 * free <= AllocationPct * e
  <2>1. RiskPct * e \in Int /\ AllocationPct * e \in Int
    BY <1>1, Constants
  <2> DEFINE x == RiskPct * e
             y == AllocationPct * e
  <2> HIDE DEF x, y
  <2>2. x \div 100 \in Int /\ y \div 100 \in Int /\ 100 * (y \div 100) <= y
    BY <2>1, Divided DEF x, y
  <2>3. QED
    BY <2>2 DEF x, y
<1> HIDE DEF risk, free
<1>6. most \in Int /\ most <= free - on
  <2> DEFINE x == free - on
  <2>1. x \in Int
    BY <1>2, <1>5
  <2>2. most = Min({risk, x})
    BY <1>3
  <2> HIDE DEF x
  <2>3. Min({risk, x}) \in {risk, x} /\ Min({risk, x}) <= x
    BY <1>5, <2>1, LargerOfTwo
  <2>4. most \in Int /\ most <= x
    BY <1>5, <2>1, <2>2, <2>3
  <2>5. QED
    BY <2>4 DEF x
<1>7. d.notional \in Int /\ Leverage * most \in Int
  BY <1>6, Constants DEF Decisions
<1>8. notional \in Int /\ notional <= Leverage * most
  <2> DEFINE x == Leverage * most
  <2>1. x \in Int
    BY <1>7
  <2> HIDE DEF x
  <2>2. Min({d.notional, x}) \in {d.notional, x} /\ Min({d.notional, x}) <= x
    BY <1>7, <2>1, LargerOfTwo
  <2>3. QED
    BY <2>1, <2>2, <1>7 DEF x
<1> HIDE DEF notional
<1>9. margin \in Int /\ margin <= most
  BY <1>6, <1>8, Constants, Divided, DividedBelow
<1> HIDE DEF margin
<1>10. quote[b] \in Nat /\ quote[b] > 0
  BY DEF Awaiting
<1>11. notional \div quote[b] \in Int
  BY <1>8, <1>10, Divided
<1>12. d.side \in {1, -1} /\ d.stop \in Nat /\ d.target \in Nat
  BY Constants DEF Decisions
<1>13. quote[b] + d.side * SpreadPaid \in Int
  BY <1>10, <1>12, Constants
<1>14. a.nextId \in Nat
  BY DEF Sound, Accounts
<1>15. p \in Positions
  BY <1>4, <1>9, <1>10, <1>11, <1>12, <1>13, <1>14 DEF Positions
<1>16. p.id = a.nextId /\ p.instrument = InstrumentOf[b] /\ p.margin = margin
  BY <1>4
<1>17. 100 * (on + margin) <= AllocationPct * e
  <2>1. AllocationPct * e \in Int
    BY <1>1, Constants
  <2>2. on + margin <= free
    BY <1>2, <1>5, <1>6, <1>9
  <2>3. QED
    BY <2>1, <2>2, <1>2, <1>5, <1>9
<1>18. QED
  BY <1>15, <1>16, <1>17 DEF e, on, p

Opened(a, p) ==
  [a EXCEPT !.cash = @ - p.margin - Commission, !.positions = @ \cup {p}, !.nextId = @ + 1]

\* An opening moves the margin out of the cash, the commission out of the book.
LEMMA OpenSane ==
  ASSUME NEW a, Sound(a), NEW p \in Positions, p.id = a.nextId
  PROVE  /\ Sound(Opened(a, p))
         /\ Balanced(a) => Balanced(Opened(a, p))
<1> DEFINE c == Opened(a, p)
<1>0. c = [a EXCEPT !.cash = @ - p.margin - Commission, !.positions = @ \cup {p}, !.nextId = @ + 1]
  BY DEF Opened
<1> HIDE DEF c
<1>1. a \in Accounts /\ IsFiniteSet(a.positions) /\ a.cash \in Int /\ a.realized \in Int /\ a.gap \in Int
      /\ a.nextId \in Nat /\ a.positions \in SUBSET Positions
  BY DEF Sound, Accounts
<1>2. p.margin \in Int /\ p.id \in Nat
  BY DEF Positions
<1> DEFINE all == a.positions \cup {p}
<1>3. all \in SUBSET Positions /\ IsFiniteSet(all) /\ p \in all
  BY <1>1, FS_AddElement
<1>4. p \notin a.positions
  BY <1>1 DEF Sound
<1>5. all \ {p} = a.positions
  BY <1>4
<1> HIDE DEF all
<1>6. /\ c \in Accounts /\ c.cash = a.cash - p.margin - Commission /\ c.positions = all
      /\ c.nextId = a.nextId + 1 /\ c.realized = a.realized /\ c.gap = a.gap
  <2>1. a.cash - p.margin - Commission \in Int
    BY <1>1, <1>2, Constants
  <2>2. c.cash = a.cash - p.margin - Commission /\ c.positions = all
        /\ c.nextId = a.nextId + 1 /\ c.realized = a.realized /\ c.gap = a.gap
    BY <1>0, <1>1 DEF Accounts, all
  <2>3. c = [a EXCEPT !.cash = @ - p.margin - Commission, !.positions = all, !.nextId = @ + 1]
    BY <1>0 DEF all
  <2>4. a.nextId + 1 \in Nat
    BY <1>1
  <2>5. c \in Accounts
    BY <1>1, <1>3, <2>1, <2>3, <2>4 DEF Accounts
  <2>6. QED
    BY <2>2, <2>5
<1>7. Sound(c)
  <2>1. \A q \in a.positions : q.id < a.nextId /\ q.id \in Nat
    BY <1>1 DEF Sound, Positions
  <2>2. \A q \in all : q \in a.positions \/ q = p
    BY DEF all
  <2>3. \A q \in all : q.id < c.nextId
    BY <1>1, <1>6, <2>1, <2>2
  <2>4. \A q, v \in all : q.id = v.id => q = v
    BY <1>1, <2>1, <2>2 DEF Sound
  <2>5. QED
    BY <1>3, <1>6, <2>3, <2>4 DEF Sound
<1>8. Locked(all) = p.margin + Locked(a.positions) /\ Locked(a.positions) \in Int
  <2>1. \A q \in all : q.margin \in Int
    BY <1>3 DEF Positions
  <2>2. all \in SUBSET all /\ a.positions \in SUBSET all
    BY <1>5
  <2> DEFINE rest == all \ {p}
  <2>3. rest = a.positions
    BY <1>5
  <2> HIDE DEF rest
  <2>4. Locked(all) = p.margin + Locked(rest)
    BY <1>3, <2>1, <2>2, LockedTakes DEF rest
  <2>5. Locked(a.positions) \in Int
    BY <1>3, <2>1, <2>2, LockedTakes
  <2>6. QED
    BY <2>3, <2>4, <2>5
<1>9. ASSUME Balanced(a) PROVE Balanced(c)
  <2>1. Commission * ((a.nextId + 1) - 1) = Commission * (a.nextId - 1) + Commission
    BY <1>1, Constants
  <2>2. a.cash + Locked(a.positions) = StartingBalance + a.realized - Commission * (a.nextId - 1) + a.gap
    BY <1>9 DEF Balanced
  <2>3. Balanced(c) <=> c.cash + Locked(all) = StartingBalance + a.realized - Commission * ((a.nextId + 1) - 1) + a.gap
    BY <1>6 DEF Balanced
  <2> DEFINE fees == Commission * (a.nextId - 1)
             more == Commission * ((a.nextId + 1) - 1)
  <2>4. fees \in Int /\ more = fees + Commission
    BY <2>1, <1>1, Constants
  <2>5. a.cash + Locked(a.positions) = StartingBalance + a.realized - fees + a.gap
        /\ (Balanced(c) <=> c.cash + Locked(all) = StartingBalance + a.realized - more + a.gap)
    BY <2>2, <2>3
  <2> HIDE DEF fees, more
  <2>6. QED
    BY <2>4, <2>5, <1>1, <1>2, <1>6, <1>8, Constants
<1>10. QED
  BY <1>7, <1>9 DEF c

\* A half-done closing: what it moved without a row is the gap.
LEMMA HalfClosedSane ==
  ASSUME NEW a, Sound(a), Balanced(a), NEW x, x.pos \in Positions, x.price \in Int, NEW recorded \in BOOLEAN
  PROVE  /\ Sound(HalfClosed(a, x, recorded))
         /\ Balanced(HalfClosed(a, x, recorded))
         /\ HalfClosed(a, x, recorded).nextId = a.nextId
<1> DEFINE won == Unrealized(x.pos, x.price)
           moved == x.pos.margin
           realized == IF recorded THEN a.realized + won ELSE a.realized
           gap == IF recorded THEN a.gap + moved ELSE a.gap + moved + won
           c == HalfClosed(a, x, recorded)
<1>1. won \in Int
  BY UnrealizedIsInt
<1>2. moved \in Int
  BY DEF Positions
<1>3. /\ a \in Accounts /\ a.cash \in Int /\ a.realized \in Int /\ a.gap \in Int /\ a.nextId \in Nat
      /\ IsFiniteSet(a.positions)
  BY DEF Sound, Accounts
<1>4. c = [a EXCEPT !.cash = a.cash + moved + won, !.realized = realized, !.gap = gap]
  BY DEF HalfClosed
<1>5. realized \in Int /\ gap \in Int /\ realized + gap = a.realized + a.gap + moved + won
  <2> HIDE DEF won, moved
  <2>1. QED
    BY <1>1, <1>2, <1>3
<1> HIDE DEF won, moved, realized, gap, c
<1>6. a.cash + moved + won \in Int
  BY <1>1, <1>2, <1>3
<1>7. /\ c \in Accounts /\ c.cash = a.cash + moved + won /\ c.realized = realized /\ c.gap = gap
      /\ c.nextId = a.nextId /\ c.positions = a.positions
  BY <1>3, <1>4, <1>5, <1>6 DEF Accounts
<1>8. Sound(c)
  BY <1>3, <1>7 DEF Sound
<1>9. Balanced(c)
  <2> DEFINE fees == Commission * (a.nextId - 1)
             locked == Locked(a.positions)
  <2>1. a.cash + locked = StartingBalance + a.realized - fees + a.gap
    BY DEF Balanced
  <2>2. Balanced(c) <=> c.cash + locked = StartingBalance + c.realized - fees + c.gap
    BY <1>7 DEF Balanced
  <2>3. fees \in Int /\ StartingBalance \in Int
    BY <1>3, Constants
  <2>4. locked \in Int
    <3>1. a.positions \in SUBSET a.positions
      OBVIOUS
    <3>2. QED
      BY <3>1, <1>3, MarginsAreInts, LockedTakes
  <2> HIDE DEF fees, locked
  <2>5. /\ a.cash + moved + won + locked = StartingBalance + a.realized - fees + a.gap + moved + won
        /\ c.realized + c.gap = a.realized + a.gap + moved + won
    BY <2>1, <2>3, <2>4, <1>1, <1>2, <1>3, <1>5, <1>7
  <2>6. c.cash \in Int /\ c.realized \in Int /\ c.gap \in Int
    BY <1>5, <1>6, <1>7
  <2>7. c.cash + locked = StartingBalance + c.realized - fees + c.gap
    BY <2>3, <2>4, <2>5, <2>6, <1>1, <1>2, <1>3, <1>7
  <2>8. QED
    BY <2>2, <2>7
<1>10. QED
  BY <1>7, <1>8, <1>9 DEF c

\* The exits before the torn one are whole.
LEMMA TornExitSane ==
  ASSUME NEW a, Sound(a), Balanced(a), NEW X, Exits(a, X), TornExit(a, X)
  PROVE  Sound(account)' /\ Balanced(account)' /\ account'.nextId = a.nextId
<1>1. PICK x \in X, recorded \in BOOLEAN :
        account' = HalfClosed(CloseAll(a, {y \in X : y.pos.id < x.pos.id}), x, recorded)
  BY DEF TornExit
<1> DEFINE Y == {y \in X : y.pos.id < x.pos.id}
           whole == CloseAll(a, Y)
           c == HalfClosed(whole, x, recorded)
<1>2. Y \in SUBSET X
  OBVIOUS
<1> HIDE DEF Y
<1>3. Exits(a, Y)
  BY <1>2, FS_Subset DEF Exits
<1>4. Sound(whole) /\ Balanced(whole) /\ whole.nextId = a.nextId
  BY <1>3, CloseAllSane
<1>5. x.pos \in Positions /\ x.price \in Int
  BY MarginsAreInts DEF Exits
<1> HIDE DEF whole
<1>6. Sound(c) /\ Balanced(c) /\ c.nextId = whole.nextId
  BY <1>4, <1>5, HalfClosedSane
<1>7. account' = c
  BY <1>1 DEF whole, Y
<1> HIDE DEF c
<1>8. QED
  BY <1>4, <1>6, <1>7 DEF Sound, Balanced

LEMMA ReadBookInv ==
  ASSUME IInv, NEW b \in Bots, ReadBook(b) PROVE IInv' /\ account'.nextId = account.nextId
<1>1. Sound(account)' /\ Balanced(account)' /\ account'.nextId = account.nextId
  BY DEF IInv, ReadBook, Sound, Balanced
<1>2. Awaiting'
  BY DEF IInv, ReadBook, Awaiting
<1>3. QED
  BY <1>1, <1>2 DEF IInv

LEMMA HoldInv ==
  ASSUME IInv, NEW b \in Bots, Hold(b) PROVE IInv' /\ account'.nextId = account.nextId
<1>1. Sound(account)' /\ Balanced(account)' /\ account'.nextId = account.nextId
  BY DEF IInv, Hold, Sound, Balanced
<1>2. Awaiting'
  BY AnsweredAwaits DEF IInv, Hold
<1>3. QED
  BY <1>1, <1>2 DEF IInv

LEMMA CrashInv ==
  ASSUME IInv, Crash PROVE IInv' /\ account'.nextId = account.nextId
<1>1. Sound(account)' /\ Balanced(account)' /\ account'.nextId = account.nextId
  BY DEF IInv, Crash, Sound, Balanced
<1>2. Awaiting'
  BY RestartsAwaits DEF Crash
<1>3. QED
  BY <1>1, <1>2 DEF IInv

LEMMA StutterInv ==
  ASSUME IInv, UNCHANGED bookVars PROVE IInv' /\ account'.nextId = account.nextId
<1>1. Sound(account)' /\ Balanced(account)' /\ account'.nextId = account.nextId
  BY DEF IInv, bookVars, Sound, Balanced
<1>2. Awaiting'
  BY DEF IInv, bookVars, Awaiting
<1>3. QED
  BY <1>1, <1>2 DEF IInv

LEMMA CloseInv ==
  ASSUME IInv, NEW b \in Bots, Close(b) PROVE IInv' /\ account'.nextId = account.nextId
<1>1. Sound(account) /\ Balanced(account) /\ Awaiting
  BY DEF IInv
<1>2. PICK p \in account.positions : account' = CloseAll(account, {[pos |-> p, price |-> quote[b]]})
  BY DEF Close
<1> DEFINE X == {[pos |-> p, price |-> quote[b]]}
           c == CloseAll(account, X)
<1>3. IsFiniteSet(X)
  BY FS_Singleton
<1>4. quote[b] \in Int
  BY <1>1 DEF Awaiting
<1>5. Exits(account, X)
  BY <1>3, <1>4 DEF Exits
<1> HIDE DEF X
<1>6. Sound(c) /\ Balanced(c) /\ c.nextId = account.nextId
  BY <1>1, <1>5, CloseAllSane
<1>7. account' = c
  BY <1>2 DEF X
<1> HIDE DEF c
<1>8. Sound(account)' /\ Balanced(account)'
  BY <1>6, <1>7 DEF Sound, Balanced
<1>9. Awaiting'
  BY <1>1, AnsweredAwaits DEF Close
<1>10. QED
  BY <1>6, <1>7, <1>8, <1>9 DEF IInv

LEMMA TornCloseInv ==
  ASSUME IInv, NEW b \in Bots, TornClose(b) PROVE IInv' /\ account'.nextId = account.nextId
<1>1. Sound(account) /\ Balanced(account) /\ Awaiting
  BY DEF IInv
<1>2. PICK p \in account.positions, recorded \in BOOLEAN :
        account' = HalfClosed(account, [pos |-> p, price |-> quote[b]], recorded)
  BY DEF TornClose
<1> DEFINE x == [pos |-> p, price |-> quote[b]]
           c == HalfClosed(account, x, recorded)
<1>3. x.pos \in Positions /\ x.price \in Int
  BY <1>1, MarginsAreInts DEF Awaiting
<1> HIDE DEF x
<1>4. Sound(c) /\ Balanced(c) /\ c.nextId = account.nextId
  BY <1>1, <1>3, HalfClosedSane
<1>5. account' = c
  BY <1>2 DEF x
<1> HIDE DEF c
<1>6. Sound(account)' /\ Balanced(account)'
  BY <1>4, <1>5 DEF Sound, Balanced
<1>7. Awaiting'
  BY RestartsAwaits DEF TornClose
<1>8. QED
  BY <1>4, <1>5, <1>6, <1>7 DEF IInv

LEMMA TornCycleInv ==
  ASSUME IInv, NEW b \in Bots, TornCycle(b) PROVE IInv' /\ account'.nextId = account.nextId
<1>1. Sound(account) /\ Balanced(account) /\ Awaiting
  BY DEF IInv
<1>2. PICK k \in Bars :
        LET filled == SimulateFills(account, b, k) IN
        TornExit(account, Fills(account, b, k)) \/ TornExit(Remark(filled, b, k), MarkExits(filled, b, k))
  BY DEF TornCycle
<1> DEFINE filled == SimulateFills(account, b, k)
           marked == Remark(filled, b, k)
<1>3. Exits(account, Fills(account, b, k))
  BY <1>1, FillsAreExits
<1>4. Sound(filled) /\ Balanced(filled) /\ filled.nextId = account.nextId
  BY <1>1, <1>3, CloseAllSane DEF SimulateFills
<1>5. TornExit(account, Fills(account, b, k)) \/ TornExit(marked, MarkExits(filled, b, k))
  BY <1>2
<1> HIDE DEF filled
<1>6. Sound(marked) /\ Balanced(marked) /\ marked.nextId = filled.nextId /\ Exits(marked, MarkExits(filled, b, k))
  BY <1>4, RemarkSane
<1> HIDE DEF marked
<1>7. Sound(account)' /\ Balanced(account)' /\ account'.nextId = account.nextId
  <2>1. CASE TornExit(account, Fills(account, b, k))
    BY <2>1, <1>1, <1>3, TornExitSane
  <2>2. CASE TornExit(marked, MarkExits(filled, b, k))
    <3>1. Sound(account)' /\ Balanced(account)' /\ account'.nextId = marked.nextId
      BY <2>2, <1>6, TornExitSane
    <3>2. QED
      BY <3>1, <1>4, <1>6
  <2>3. QED
    BY <2>1, <2>2, <1>5
<1>8. Awaiting'
  BY RestartsAwaits DEF TornCycle
<1>9. QED
  BY <1>7, <1>8 DEF IInv

\* What of an opening is there after a crash between its two statements.
LEMMA TornOpenInv ==
  ASSUME IInv, NEW b \in Bots, TornOpen(b) PROVE IInv' /\ account'.nextId = account.nextId
<1>1. Sound(account) /\ Balanced(account) /\ Awaiting /\ phase[b] = "thinking"
  BY DEF IInv, TornOpen
<1>2. PICK d \in Decisions(b) :
        LET p == Position(account, b, d) IN
        account' = [account EXCEPT !.cash = @ - p.margin - Commission, !.gap = @ - p.margin - Commission]
  BY DEF TornOpen
<1> DEFINE m == Position(account, b, d).margin
           a == account
           c == [account EXCEPT !.cash = @ - m - Commission, !.gap = @ - m - Commission]
<1>3. m \in Int
  BY <1>1, PositionIs DEF Positions
<1>4. account' = c
  BY <1>2
<1> HIDE DEF m
<1>5. account \in Accounts /\ a.cash \in Int /\ a.gap \in Int /\ a.nextId \in Nat /\ a.realized \in Int
  BY <1>1 DEF Sound, Accounts
<1>6. a.cash - m - Commission \in Int /\ a.gap - m - Commission \in Int /\ Commission \in Int /\ StartingBalance \in Int
  BY <1>3, <1>5, Constants
<1>7. /\ c \in Accounts /\ c.cash = a.cash - m - Commission /\ c.gap = a.gap - m - Commission
      /\ c.positions = a.positions /\ c.nextId = a.nextId /\ c.realized = a.realized
  BY <1>5, <1>6 DEF Accounts
<1> HIDE DEF c
<1>8. Sound(c)
  BY <1>1, <1>7 DEF Sound
<1>9. Balanced(c)
  <2> DEFINE fees == Commission * (a.nextId - 1)
             locked == Locked(a.positions)
  <2>1. a.cash + locked = StartingBalance + a.realized - fees + a.gap
    BY <1>1 DEF Balanced
  <2>2. Balanced(c) <=> c.cash + locked = StartingBalance + a.realized - fees + c.gap
    BY <1>7 DEF Balanced
  <2>3. fees \in Int
    BY <1>5, <1>6
  <2>4. locked \in Int
    <3>1. a.positions \in SUBSET a.positions /\ IsFiniteSet(a.positions)
      BY <1>1 DEF Sound
    <3>2. QED
      BY <3>1, <1>1, MarginsAreInts, LockedTakes
  <2> HIDE DEF fees, locked
  <2>5. QED
    BY <2>1, <2>2, <2>3, <2>4, <1>3, <1>5, <1>6, <1>7
<1>10. Sound(account)' /\ Balanced(account)'
  BY <1>4, <1>8, <1>9 DEF Sound, Balanced
<1>11. Awaiting'
  BY RestartsAwaits DEF TornOpen
<1>12. QED
  BY <1>4, <1>7, <1>10, <1>11 DEF IInv

LEMMA OpenInv ==
  ASSUME IInv, NEW b \in Bots, Open(b) PROVE IInv'
<1>1. Sound(account) /\ Balanced(account) /\ Awaiting /\ phase[b] = "thinking"
  BY DEF IInv, Open
<1>2. PICK d \in Decisions(b) :
        LET p == Position(account, b, d) IN
        account' = [account EXCEPT !.cash = @ - p.margin - Commission, !.positions = @ \cup {p}, !.nextId = @ + 1]
  BY DEF Open
<1> DEFINE p == Position(account, b, d)
           c == Opened(account, p)
<1>3. p \in Positions /\ p.id = account.nextId
  BY <1>1, PositionIs
<1>4. account' = c
  BY <1>2 DEF Opened
<1> HIDE DEF p
<1>5. Sound(c) /\ Balanced(c)
  BY <1>1, <1>3, OpenSane
<1> HIDE DEF c
<1>6. Sound(account)' /\ Balanced(account)'
  BY <1>4, <1>5 DEF Sound, Balanced
<1>7. Awaiting'
  BY <1>1, AnsweredAwaits DEF Open
<1>8. QED
  BY <1>6, <1>7 DEF IInv

\* The limits hold in the book the position is added to.
OpeningStep ==
  /\ ~account.halted
  /\ Cardinality(account'.positions) <= MaxPositions
  /\ \A b \in Bots : phase[b] = "thinking" /\ phase'[b] = "idle" =>
       100 * Locked(OnInstrument(account', b)) <= AllocationPct * Equity(account)

LEMMA OpenIsWithinLimits ==
  ASSUME IInv, NEW b \in Bots, Open(b) PROVE OpeningStep
<1>1. Sound(account) /\ Awaiting /\ phase[b] = "thinking"
  BY DEF IInv, Open
<1>2. PICK d \in Decisions(b) :
        LET p == Position(account, b, d) IN
        /\ MayOpen(account, b, p)
        /\ account' = [account EXCEPT !.cash = @ - p.margin - Commission, !.positions = @ \cup {p}, !.nextId = @ + 1]
  BY DEF Open
<1> DEFINE p == Position(account, b, d)
           on == OnInstrument(account, b)
           all == on \cup {p}
<1>3. /\ p \in Positions /\ p.id = account.nextId /\ p.instrument = InstrumentOf[b]
      /\ 100 * (Locked(on) + p.margin) <= AllocationPct * Equity(account)
  BY <1>1, PositionIs
<1>4. account'.positions = account.positions \cup {p}
  BY <1>1, <1>2 DEF Sound, Accounts
<1>5. ~account.halted /\ Cardinality(account.positions) < MaxPositions
  BY <1>2 DEF MayOpen
<1> HIDE DEF p
<1>6. p \notin account.positions /\ IsFiniteSet(account.positions)
  BY <1>1, <1>3 DEF Sound, Accounts
<1>7. Cardinality(account'.positions) <= MaxPositions
  <2>1. Cardinality(account.positions) \in Nat
    BY <1>6, FS_CardinalityType
  <2>2. Cardinality(account.positions \cup {p}) = Cardinality(account.positions) + 1
    BY <1>6, FS_AddElement
  <2>3. QED
    BY <2>1, <2>2, <1>4, <1>5, Constants
<1>8. OnInstrument(account', b) = all
  BY <1>3, <1>4 DEF OnInstrument
<1>9. on \in SUBSET account.positions /\ IsFiniteSet(on) /\ on \in SUBSET Positions
  BY <1>1, OnInstrumentIs, MarginsAreInts
<1>10. Locked(all) = p.margin + Locked(on) /\ Locked(on) \in Int /\ p.margin \in Int
  <2> DEFINE rest == all \ {p}
  <2> HIDE DEF on
  <2>1. p \notin on
    BY <1>6, <1>9
  <2>2. rest = on /\ on \in SUBSET all
    BY <2>1
  <2>3. IsFiniteSet(all) /\ p \in all /\ all \in SUBSET Positions
    BY <1>3, <1>9, FS_AddElement
  <2>4. \A q \in all : q.margin \in Int
    BY <2>3 DEF Positions
  <2>5. all \in SUBSET all
    OBVIOUS
  <2> HIDE DEF all
  <2>6. Locked(all) = p.margin + Locked(rest)
    BY <2>3, <2>4, <2>5, LockedTakes DEF rest
  <2> HIDE DEF rest
  <2>7. Locked(on) \in Int
    BY <2>2, <2>3, <2>4, LockedTakes
  <2>8. QED
    BY <2>2, <2>3, <2>4, <2>6, <2>7
<1>11. 100 * Locked(OnInstrument(account', b)) <= AllocationPct * Equity(account)
  <2>1. Locked(OnInstrument(account', b)) = Locked(all)
    BY <1>8
  <2> HIDE DEF all, on
  <2>2. Locked(all) = Locked(on) + p.margin
    BY <1>10
  <2>3. QED
    BY <2>1, <2>2, <1>3
<1>12. \A v \in Bots : phase[v] = "thinking" /\ phase'[v] = "idle" => v = b
  BY <1>1 DEF Open, Answered, Awaiting
<1> HIDE DEF all, on
<1>13. QED
  BY <1>5, <1>7, <1>11, <1>12 DEF OpeningStep

LEMMA NextInv ==
  ASSUME IInv, [BookNext]_bookVars
  PROVE  IInv' /\ (account'.nextId > account.nextId => OpeningStep)
<1>1. account.nextId \in Int
  BY DEF IInv, Sound, Accounts
<1>2. CASE \E b \in Bots : Open(b)
  BY <1>2, OpenInv, OpenIsWithinLimits
<1>3. CASE ~\E b \in Bots : Open(b)
  <2>1. IInv' /\ account'.nextId = account.nextId
    <3>1. CASE ResetHalt
      BY <3>1, ResetInv
    <3>2. ASSUME NEW b \in Bots, Cycle(b) \/ ReadBook(b) \/ Hold(b) \/ Open(b) \/ Close(b)
          PROVE  IInv' /\ account'.nextId = account.nextId
      BY <3>2, <1>3, CycleInv, ReadBookInv, HoldInv, CloseInv
    <3>3. CASE Crash
      BY <3>3, CrashInv
    <3>4. ASSUME NEW b \in Bots, TornOpen(b) \/ TornCycle(b) \/ TornClose(b)
          PROVE  IInv' /\ account'.nextId = account.nextId
      BY <3>4, TornOpenInv, TornCycleInv, TornCloseInv
    <3>5. CASE UNCHANGED bookVars
      BY <3>5, StutterInv
    <3>6. QED
      BY <3>1, <3>2, <3>3, <3>4, <3>5 DEF BookNext
  <2>2. ~(account'.nextId > account.nextId)
    BY <2>1, <1>1
  <2>3. QED
    BY <2>1, <2>2
<1>4. QED
  BY <1>2, <1>3

\* Bots that cycle, answer, trade one book and crash in any order keep its rows
\* apart, its sums defined and its money accounted for.
THEOREM Inductive == BookSpec => []IInv
<1>1. BookInit => IInv
  BY InitInv
<1>2. IInv /\ [BookNext]_bookVars => IInv'
  BY NextInv
<1>3. QED
  BY <1>1, <1>2, PTL DEF BookSpec

\* Cash and margin are what was paid in, won and paid for commissions, and
\* after crashes inside trades, off by exactly what those moved.
THEOREM MoneyIsAccountedFor == BookSpec => []BooksBalance
<1>1. IInv => BooksBalance
  BY DEF IInv, Balanced, BooksBalance
<1>2. QED
  BY <1>1, Inductive, PTL

\* However long the model thought and whatever the other bots did meanwhile,
\* openPosition opens only in a book that is not halted, below the number of
\* positions, and with no more margin on the instrument than its share of the
\* equity of that moment.
THEOREM OpeningsAreWithinLimits == BookSpec => OpensWithinLimits
<1>1. IInv /\ [BookNext]_bookVars => [account'.nextId > account.nextId => OpeningStep]_bookVars
  BY NextInv
<1>2. [][account'.nextId > account.nextId => OpeningStep]_bookVars => OpensWithinLimits
  BY DEF OpeningStep, OpensWithinLimits
<1>3. BookSpec => [][account'.nextId > account.nextId => OpeningStep]_bookVars
  BY <1>1, Inductive, PTL DEF BookSpec
<1>4. QED
  BY <1>2, <1>3
=============================================================================
