--------------------------- MODULE AnalysisProofs ---------------------------
(***************************************************************************)
(* Proofs about module Analysis: what a finished report says of an author  *)
(* does not depend on the order of the files, and every sign of suspicion  *)
(* it counts is one it shows, for all exports and all reports of JPlag.    *)
(*                                                                         *)
(* What the loops compute is proved by induction, in terms of sets of      *)
(* numbers and of sets; a remark about a minority needs Chebyshev's        *)
(* argument, with sums over the finite set of the solvers of a problem.    *)
(***************************************************************************)
EXTENDS Analysis, FiniteSetTheorems, WellFoundedInduction, TLAPS

-----------------------------------------------------------------------------
(* Induction, with sets of numbers in the place of predicates              *)

\* A set of numbers that is not empty has a least element.
LEMMA Least ==
    ASSUME NEW T, T \subseteq Nat, T # {}
    PROVE  \E x \in T : \A y \in T : x <= y
<1> DEFINE R == OpToRel(<, Nat)
<1>1. \A x, y \in Nat : <<x, y>> \in R <=> x < y
  BY DEF OpToRel
<1>2. IsWellFoundedOn(R, Nat)
  BY NatLessThanWellFounded
<1> HIDE DEF R
<1>3. PICK x \in T : \A y \in T : ~ (<<y, x>> \in R)
  BY <1>2, WFMin
<1>4. ASSUME NEW y \in T PROVE x <= y
  <2>1. x \in Nat /\ y \in Nat /\ ~ (y < x)
    BY <1>1, <1>3
  <2>2. QED
    BY <2>1
<1>5. QED
  BY <1>4

\* A set that holds 0 and goes up to n step by step holds the numbers up to n.
LEMMA UpTo ==
    ASSUME NEW n \in Nat, NEW P, 0 \in P,
           \A i \in 1 .. n : i - 1 \in P => i \in P
    PROVE  \A i \in 0 .. n : i \in P
<1> SUFFICES ASSUME \E i \in 0 .. n : i \notin P PROVE FALSE
  OBVIOUS
<1> DEFINE T == {i \in 0 .. n : i \notin P}
<1>1. T \subseteq Nat /\ T # {}
  OBVIOUS
<1>2. PICK x \in T : \A y \in T : x <= y
  BY <1>1, Least
<1>3. QED
  BY <1>2

\* f[i] is what a loop over 1 .. n keeps after turn i, from a.
IsRun(f, n, A, a, step) ==
    /\ f \in [0 .. n -> A]
    /\ f[0] = a
    /\ \A i \in 1 .. n : f[i] = step[i][f[i - 1]]

\* A loop over 1 .. n whose body is a function has a run.
LEMMA Iterates ==
    ASSUME NEW n \in Nat, NEW A, NEW a \in A, NEW step \in [1 .. n -> [A -> A]]
    PROVE  \E f : IsRun(f, n, A, a, step)
<1> DEFINE Runs(f, m) == f[0] = a /\ \A i \in 1 .. m : f[i] = step[i][f[i - 1]]
           P == {m \in 0 .. n : \E f \in [0 .. m -> A] : Runs(f, m)}
<1>1. 0 \in P
  <2> DEFINE f == [i \in 0 .. 0 |-> a]
  <2>1. f \in [0 .. 0 -> A] /\ f[0] = a
    OBVIOUS
  <2>2. Runs(f, 0)
    BY <2>1
  <2> HIDE DEF f
  <2>3. QED
    BY <2>1, <2>2
<1>2. ASSUME NEW m \in 1 .. n, m - 1 \in P
      PROVE  m \in P
  <2>1. PICK f \in [0 .. m - 1 -> A] : Runs(f, m - 1)
    BY <1>2
  <2> DEFINE last == step[m][f[m - 1]]
             g == [i \in 0 .. m |-> IF i = m THEN last ELSE f[i]]
  <2>2. last \in A
    BY m - 1 \in 0 .. m - 1
  <2> HIDE DEF last
  <2>3. /\ g \in [0 .. m -> A]
        /\ g[m] = last
        /\ \A i \in 0 .. m - 1 : g[i] = f[i]
    BY <2>2
  <2> HIDE DEF g
  <2>4. g[0] = a
    BY <2>1, <2>3
  <2>5. ASSUME NEW i \in 1 .. m PROVE g[i] = step[i][g[i - 1]]
    <3>0. g[i - 1] = f[i - 1]
      BY <2>3
    <3>1. CASE i = m
      BY <3>0, <3>1, <2>3 DEF last
    <3>2. CASE i # m
      <4>1. g[i] = f[i] /\ i \in 1 .. m - 1
        BY <3>2, <2>3
      <4>2. QED
        BY <2>1, <3>0, <4>1
    <3>3. QED
      BY <3>1, <3>2
  <2>6. Runs(g, m)
    BY <2>4, <2>5
  <2> HIDE DEF Runs
  <2>7. QED
    BY <2>3, <2>6
<1>3. n \in P
  BY <1>1, <1>2, UpTo, n \in 0 .. n
<1>4. QED
  BY <1>3 DEF IsRun

-----------------------------------------------------------------------------
(* The loop Scan                                                           *)

\* The loop ends with the first of the positions with the largest value.
LEMMA ScanFinds ==
    ASSUME NEW n \in Nat, NEW C, C \subseteq 1 .. n, NEW value \in [C -> Int]
    PROVE  /\ Scan(n, value) \in C \cup {0}
           /\ C # {} => Scan(n, value) \in C
           /\ \A j \in C : value[j] <= value[Scan(n, value)]
           /\ \A j \in C : j < Scan(n, value) => value[j] < value[Scan(n, value)]
<1> DEFINE Pos == 0 .. n
           Turn(i, b) == IF i \in C /\ (b = 0 \/ value[i] > value[b]) THEN i ELSE b
           step == [i \in 1 .. n |-> [b \in Pos |-> Turn(i, b)]]
<1>1. step \in [1 .. n -> [Pos -> Pos]]
  OBVIOUS
<1>2. \A i \in 1 .. n, b \in Pos : step[i][b] = Turn(i, b)
  OBVIOUS
<1>3. 0 \in Pos /\ n \in Pos /\ \A i \in 1 .. n : i \in Pos /\ i - 1 \in Pos
  OBVIOUS
<1>4. DOMAIN value = C
  OBVIOUS
<1> HIDE DEF step, Turn
<1>5. \E f \in [Pos -> Pos] : f = [i \in Pos |-> IF i = 0 THEN 0 ELSE Turn(i, f[i - 1])]
  <2> HIDE DEF Pos
  <2>1. PICK f : IsRun(f, n, Pos, 0, step)
    BY <1>1, <1>3, Iterates
  <2>2. f \in [Pos -> Pos] /\ f[0] = 0 /\ \A i \in 1 .. n : f[i] = Turn(i, f[i - 1])
    BY <1>2, <1>3, <2>1 DEF IsRun, Pos
  <2>3. f = [i \in Pos |-> IF i = 0 THEN 0 ELSE Turn(i, f[i - 1])]
    BY <2>2 DEF Pos
  <2>4. QED
    BY <2>2, <2>3
<1>6. PICK g : /\ g = [i \in Pos |-> IF i = 0 THEN 0 ELSE Turn(i, g[i - 1])]
               /\ Scan(n, value) = g[n]
  BY <1>4, <1>5 DEF Scan, Turn
<1>7. g[0] = 0 /\ \A i \in 1 .. n : g[i] = Turn(i, g[i - 1])
  <2> HIDE DEF Pos
  <2>1. \A i \in Pos : g[i] = IF i = 0 THEN 0 ELSE Turn(i, g[i - 1])
    BY <1>6
  <2>2. QED
    BY <1>3, <2>1
<1> DEFINE Found(i, b) ==
        /\ b \in C \cup {0} /\ b <= i
        /\ \A j \in C : j <= i =>
              /\ b # 0 /\ value[j] <= value[b]
              /\ j < b => value[j] < value[b]
           P == {i \in Pos : Found(i, g[i])}
<1>8. 0 \in P
  BY <1>7
<1>9. ASSUME NEW i \in 1 .. n, i - 1 \in P
      PROVE  i \in P
  <2>1. Found(i - 1, g[i - 1])
    BY <1>9
  <2>2. g[i] = Turn(i, g[i - 1])
    BY <1>7
  <2>3. ASSUME NEW b, Found(i - 1, b), NEW c, c = Turn(i, b)
        PROVE  Found(i, c)
    <3>1. CASE i \in C /\ (b = 0 \/ value[i] > value[b])
      <4>1. c = i
        BY <2>3, <3>1 DEF Turn
      <4>2. ASSUME NEW j \in C, j <= i, j # i
            PROVE  value[j] < value[i]
        <5>1. j <= i - 1
          BY <4>2
        <5>2. b # 0 /\ b \in C /\ value[j] <= value[b]
          BY <2>3, <4>2, <5>1
        <5>3. value[i] > value[b] /\ value[j] \in Int /\ value[b] \in Int /\ value[i] \in Int
          BY <3>1, <5>2
        <5>4. QED
          BY <5>2, <5>3
      <4>3. value[i] \in Int
        BY <3>1
      <4>4. QED
        BY <3>1, <4>1, <4>2, <4>3
    <3>2. CASE ~ (i \in C /\ (b = 0 \/ value[i] > value[b]))
      <4>1. c = b
        BY <2>3, <3>2 DEF Turn
      <4>2. ASSUME i \in C
            PROVE  b # 0 /\ b \in C /\ value[i] <= value[b]
        <5>1. b # 0 /\ b \in C /\ ~ (value[i] > value[b])
          BY <2>3, <3>2, <4>2
        <5>2. value[i] \in Int /\ value[b] \in Int
          BY <4>2, <5>1
        <5>3. QED
          BY <5>1, <5>2
      <4>3. ASSUME NEW j \in C, j <= i
            PROVE  b # 0 /\ value[j] <= value[b] /\ (j < b => value[j] < value[b])
        <5>1. CASE j = i
          BY <2>3, <4>2, <5>1
        <5>2. CASE j # i
          <6>1. j <= i - 1
            BY <4>3, <5>2
          <6>2. QED
            BY <2>3, <6>1
        <5>3. QED
          BY <5>1, <5>2
      <4>4. QED
        BY <2>3, <4>1, <4>3
    <3>3. QED
      BY <3>1, <3>2
  <2> HIDE DEF Found
  <2>4. QED
    BY <2>1, <2>2, <2>3
<1>10. Found(n, g[n])
  <2> HIDE DEF Found
  <2>1. QED
    BY <1>8, <1>9, UpTo, <1>3
<1>11. ASSUME NEW b, Found(n, b)
       PROVE  /\ b \in C \cup {0}
              /\ C # {} => b \in C
              /\ \A j \in C : value[j] <= value[b]
              /\ \A j \in C : j < b => value[j] < value[b]
  <2>1. \A j \in C : j <= n
    OBVIOUS
  <2>2. QED
    BY <1>11, <2>1
<1> HIDE DEF Found
<1>12. QED
  BY <1>6, <1>10, <1>11

-----------------------------------------------------------------------------
(* Sums over a finite set                                                  *)

\* Induction over the subsets of a finite set: if the empty set belongs to P,
\* and a set does whenever it does without any one of its elements, S belongs.
LEMMA BySize ==
    ASSUME NEW S, IsFiniteSet(S), NEW P, {} \in P,
           \A T \in SUBSET S : T # {} /\ (\A k \in T : T \ {k} \in P) => T \in P
    PROVE  S \in P
<1> DEFINE n == Cardinality(S)
           Q == {m \in 0 .. n : \A T \in SUBSET S : Cardinality(T) <= m => T \in P}
<1>1. n \in Nat
  BY FS_CardinalityType
<1>2. \A T \in SUBSET S : /\ IsFiniteSet(T) /\ Cardinality(T) \in 0 .. n
                          /\ Cardinality(T) = 0 <=> T = {}
  BY <1>1, FS_Subset, FS_CardinalityType, FS_EmptySet
<1> HIDE DEF n
<1>3. 0 \in Q
  <2>1. ASSUME NEW T \in SUBSET S, Cardinality(T) <= 0 PROVE T \in P
    <3>1. T = {}
      BY <1>1, <1>2, <2>1
    <3>2. QED
      BY <3>1
  <2>2. QED
    BY <1>1, <2>1
<1>4. ASSUME NEW m \in 1 .. n, m - 1 \in Q
      PROVE  m \in Q
  <2>1. ASSUME NEW T \in SUBSET S, Cardinality(T) <= m, T # {}
        PROVE  T \in P
    <3>1. ASSUME NEW k \in T PROVE T \ {k} \in P
      <4>1. Cardinality(T \ {k}) = Cardinality(T) - 1
        BY <1>2, FS_RemoveElement
      <4>2. Cardinality(T \ {k}) <= m - 1 /\ T \ {k} \in SUBSET S
        BY <1>1, <1>2, <2>1, <4>1
      <4>3. QED
        BY <1>4, <4>2
    <3>2. QED
      BY <2>1, <3>1
  <2>2. \A T \in SUBSET S : Cardinality(T) <= m => T \in P
    BY <2>1
  <2>3. QED
    BY <1>1, <2>2
<1>5. n \in Q
  BY <1>1, <1>3, <1>4, UpTo, n \in 0 .. n
<1>6. QED
  BY <1>1, <1>2, <1>5 DEF n

\* The element that SumFunction takes out of a set of indices, and the sums
\* over all sets of indices.
Taken(T) == CHOOSE k \in T : TRUE

IsSum(F, x) ==
    /\ F \in [SUBSET DOMAIN x -> Int]
    /\ F[{}] = 0
    /\ \A T \in SUBSET DOMAIN x : T # {} => F[T] = x[Taken(T)] + F[T \ {Taken(T)}]

\* The sums over all subsets of a finite set of indices exist.
LEMMA SumsExist ==
    ASSUME NEW S, IsFiniteSet(S), NEW x \in [S -> Int]
    PROVE  \E F : IsSum(F, x)
<1> DEFINE n == Cardinality(S)
           Small(m) == {T \in SUBSET S : Cardinality(T) <= m}
           Sums(F, m) ==
              /\ F \in [Small(m) -> Int]
              /\ F[{}] = 0
              /\ \A T \in Small(m) : T # {} => F[T] = x[Taken(T)] + F[T \ {Taken(T)}]
           P == {m \in 0 .. n : \E F : Sums(F, m)}
<1>1. n \in Nat
  BY FS_CardinalityType
<1>2. \A T \in SUBSET S : /\ IsFiniteSet(T) /\ Cardinality(T) \in 0 .. n
                          /\ Cardinality(T) = 0 <=> T = {}
  BY <1>1, FS_Subset, FS_CardinalityType, FS_EmptySet
<1> HIDE DEF n
<1>3. \A T \in SUBSET S : T # {} => /\ Taken(T) \in T
                                    /\ Cardinality(T \ {Taken(T)}) = Cardinality(T) - 1
  BY <1>2, FS_RemoveElement DEF Taken
<1>4. 0 \in P
  <2> DEFINE F == [T \in Small(0) |-> 0]
  <2>1. \A T \in Small(0) : T = {}
    BY <1>1, <1>2
  <2>2. {} \in Small(0)
    BY <1>2
  <2> HIDE DEF Small
  <2>3. F \in [Small(0) -> Int] /\ F[{}] = 0
    BY <2>2
  <2> HIDE DEF F
  <2>4. Sums(F, 0)
    BY <2>1, <2>3
  <2> HIDE DEF Sums
  <2>5. QED
    BY <1>1, <2>4
<1>5. ASSUME NEW m \in 1 .. n, m - 1 \in P
      PROVE  m \in P
  <2>1. PICK F : Sums(F, m - 1)
    BY <1>5
  <2> DEFINE G == [T \in Small(m) |->
                      IF T = {} THEN 0 ELSE x[Taken(T)] + F[T \ {Taken(T)}]]
  <2>2. {} \in Small(m) /\ \A T \in Small(m - 1) : T \in Small(m)
    BY <1>1, <1>2
  <2>3. \A T \in Small(m) : T # {} =>
           /\ Taken(T) \in S
           /\ T \ {Taken(T)} \in Small(m - 1)
    BY <1>1, <1>2, <1>3
  <2> HIDE DEF Small
  <2>4. G \in [Small(m) -> Int]
    BY <2>1, <2>3
  <2>5. G[{}] = 0 /\ \A T \in Small(m) : T # {} => G[T] = x[Taken(T)] + F[T \ {Taken(T)}]
    BY <2>2
  <2> HIDE DEF G
  <2>6. \A T \in Small(m - 1) : G[T] = F[T]
    BY <2>1, <2>2, <2>5
  <2>7. Sums(G, m)
    BY <2>3, <2>4, <2>5, <2>6
  <2> HIDE DEF Sums
  <2>8. QED
    BY <1>1, <2>7
<1> HIDE DEF P
<1>6. n \in P
  BY <1>1, <1>4, <1>5, UpTo, n \in 0 .. n
<1>7. PICK F : Sums(F, n)
  BY <1>6 DEF P
<1>8. Small(n) = SUBSET S
  BY <1>2
<1> HIDE DEF Small
<1>9. QED
  BY <1>7, <1>8 DEF IsSum

\* SumFunction is the last of these sums.
LEMMA SumIsSum ==
    ASSUME NEW S, IsFiniteSet(S), NEW x \in [S -> Int], NEW F, IsSum(F, x)
    PROVE  SumFunction(x) = F[S]
<1>0. DOMAIN x = S
  OBVIOUS
<1>1. F = [T \in SUBSET DOMAIN x |->
             IF T = {} THEN 0 ELSE x[Taken(T)] + F[T \ {Taken(T)}]]
  BY DEF IsSum
<1>2. PICK G : /\ G = [T \in SUBSET DOMAIN x |->
                         IF T = {} THEN 0 ELSE x[Taken(T)] + G[T \ {Taken(T)}]]
               /\ SumFunction(x) = G[DOMAIN x]
  BY <1>1 DEF SumFunction, SumFunctionOnSet, FoldFunctionOnSet, MapThenFoldSet, Taken
<1> DEFINE P == {T \in SUBSET S : G[T] = F[T]}
<1>3. {} \in P
  BY <1>0, <1>1, <1>2
<1>4. ASSUME NEW T \in SUBSET S, T # {}, \A k \in T : T \ {k} \in P
      PROVE  T \in P
  <2>1. Taken(T) \in T
    BY <1>4 DEF Taken
  <2>2. G[T \ {Taken(T)}] = F[T \ {Taken(T)}]
    BY <1>4, <2>1
  <2>3. QED
    BY <1>0, <1>1, <1>2, <1>4, <2>2
<1> HIDE DEF P
<1>5. S \in P
  BY <1>3, <1>4, BySize
<1>6. QED
  BY <1>0, <1>2, <1>5 DEF P

LEMMA SumIsInt ==
    ASSUME NEW S, IsFiniteSet(S), NEW x \in [S -> Int]
    PROVE  SumFunction(x) \in Int
<1>1. PICK F : IsSum(F, x)
  BY SumsExist
<1>2. SumFunction(x) = F[S]
  BY <1>1, SumIsSum
<1>3. QED
  BY <1>1, <1>2 DEF IsSum

\* Two facts of arithmetic that the solver finds in steps only.
LEMMA Square ==
    ASSUME NEW a \in Int, NEW b \in Int, 0 <= b, b <= a
    PROVE  b * b <= a * a
<1>1. b * b <= a * b
  <2>1. (a - b) * b >= 0
    OBVIOUS
  <2>2. QED
    BY <2>1
<1>2. a * b <= a * a
  <2>1. a * (a - b) >= 0
    OBVIOUS
  <2>2. QED
    BY <2>1
<1>3. QED
  BY <1>1, <1>2

LEMMA Cancel ==
    ASSUME NEW a \in Int, NEW b \in Int, NEW c \in Int, c > 0, a * c <= b * c
    PROVE  a <= b
<1>1. (b - a) * c >= 0
  OBVIOUS
<1>2. QED
  BY <1>1

\* At most half of n numbers lie below their mean by more than 201/200 of the
\* standard deviation: with t for n times the smallest of these distances,
\* (t + s - n x)^2 sums up to n (t^2 + n q - s^2) < 2 n t^2, and every one of
\* them contributes 4 t^2.
LEMMA FewFarBelow ==
    ASSUME NEW S, IsFiniteSet(S), NEW x \in [S -> Int], NEW F, F \subseteq S,
           NEW n, n = Cardinality(S), NEW s, s = SumFunction(x),
           NEW q, q = SumFunction([k \in S |-> x[k] * x[k]]),
           \A k \in F : /\ n * x[k] - s < 0
                        /\ (n * x[k] - s) * (n * x[k] - s) * 200 * 200
                             > 201 * 201 * (n * q - s * s)
    PROVE  2 * Cardinality(F) <= n
<1> DEFINE y == [k \in S |-> x[k] * x[k]]
<1>1. DOMAIN x = S /\ y \in [S -> Int] /\ DOMAIN y = S /\ \A k \in S : y[k] = x[k] * x[k]
  OBVIOUS
<1> HIDE DEF y
<1>2. PICK X : IsSum(X, x)
  BY SumsExist
<1>3. PICK Q : IsSum(Q, y)
  BY <1>1, SumsExist
<1>4. s = X[S] /\ q = Q[S]
  BY <1>1, <1>2, <1>3, SumIsSum DEF y
<1>5. n \in Nat /\ s \in Int /\ q \in Int
  BY <1>1, <1>2, <1>3, <1>4, FS_CardinalityType DEF IsSum
<1>6. IsFiniteSet(F) /\ Cardinality(F) \in Nat
  BY FS_Subset, FS_CardinalityType
<1>7. CASE F = {}
  BY <1>5, <1>7, FS_EmptySet
<1>8. CASE F # {}
  <2> DEFINE d(k) == s - n * x[k]
             D == {d(k) : k \in F}
  <2>1. D \subseteq Nat /\ D # {}
    BY <1>1, <1>5, <1>8
  <2>2. PICK t \in D : \A u \in D : t <= u
    BY <2>1, Least
  <2>3. PICK k0 \in F : t = d(k0)
    BY <2>2
  <2>4. t \in Nat /\ t > 0 /\ \A k \in F : d(k) \in Nat /\ t <= d(k)
    BY <1>1, <1>5, <2>1, <2>2, <2>3
  <2>5. n * q - s * s < t * t
    <3> DEFINE v == n * q - s * s
               e == n * x[k0] - s
    <3>1. v \in Int /\ e \in Int /\ e = 0 - t
      BY <1>1, <1>5, <2>3, <2>4
    <3>2. e * e = t * t /\ t * t > 0
      BY <3>1, <2>4
    <3>3. e * e * 200 * 200 > 201 * 201 * v
      OBVIOUS
    <3> HIDE DEF v, e
    <3>4. (t * t) * 40000 > 40401 * v
      BY <3>1, <3>2, <3>3
    <3>5. v < t * t
      BY <3>1, <3>2, <3>4
    <3>6. QED
      BY <3>5 DEF v
  <2> DEFINE w == t + s
             c(T) == Cardinality(T)
             m(T) == Cardinality(F \cap T)
             R(T) == c(T) * (w * w) - 2 * (w * n) * X[T] + (n * n) * Q[T]
             P == {T \in SUBSET S : 4 * (t * t) * m(T) <= R(T)}
  <2>6. w \in Int
    BY <1>5, <2>4
  <2>7. \A T \in SUBSET S : c(T) \in Nat /\ m(T) \in Nat /\ X[T] \in Int /\ Q[T] \in Int
    BY <1>1, <1>2, <1>3, FS_Subset, FS_CardinalityType DEF IsSum
  <2>8. {} \in P
    <3>1. c({}) = 0 /\ m({}) = 0 /\ X[{}] = 0 /\ Q[{}] = 0
      BY <1>2, <1>3, FS_EmptySet DEF IsSum
    <3>2. QED
      BY <1>5, <2>4, <2>6, <3>1
  <2>9. ASSUME NEW T \in SUBSET S, T # {}, \A k \in T : T \ {k} \in P
        PROVE  T \in P
    <3> DEFINE k == Taken(T)
               U == T \ {k}
    <3>1. k \in T /\ k \in S /\ U \in P /\ U \in SUBSET S
      BY <2>9 DEF Taken
    <3>2. X[T] = x[k] + X[U] /\ Q[T] = x[k] * x[k] + Q[U]
      BY <1>1, <1>2, <1>3, <2>9, <3>1 DEF IsSum
    <3>3. c(T) = c(U) + 1
      <4>1. IsFiniteSet(T)
        BY FS_Subset
      <4>2. c(U) = c(T) - 1
        BY <3>1, <4>1, FS_RemoveElement
      <4>3. c(T) \in Nat
        BY <2>7
      <4> HIDE DEF c, U
      <4>4. QED
        BY <4>2, <4>3
    <3>4. m(T) = IF k \in F THEN m(U) + 1 ELSE m(U)
      <4>1. F \cap U = (F \cap T) \ {k}
        OBVIOUS
      <4>2. CASE k \in F
        <5>1. IsFiniteSet(F \cap T) /\ k \in F \cap T
          BY <1>6, <3>1, <4>2, FS_Subset
        <5>2. Cardinality((F \cap T) \ {k}) = m(T) - 1
          BY <5>1, FS_RemoveElement
        <5>3. m(U) = m(T) - 1 /\ m(T) \in Nat
          BY <2>7, <4>1, <5>2
        <5> HIDE DEF m, U
        <5>4. QED
          BY <4>2, <5>3
      <4>3. CASE k \notin F
        BY <4>1, <4>3
      <4>4. QED
        BY <4>2, <4>3
    <3> DEFINE z == w - n * x[k]
    <3>5. x[k] \in Int /\ z \in Int
      BY <1>5, <2>6, <3>1
    <3>6. R(T) = R(U) + z * z
      <4>1. c(U) \in Int /\ X[U] \in Int /\ Q[U] \in Int
        BY <2>7, <3>1
      <4> HIDE DEF w, U, k, c
      <4>2. R(T) = (c(U) + 1) * (w * w) - 2 * (w * n) * (x[k] + X[U])
                     + (n * n) * (x[k] * x[k] + Q[U])
        BY <3>2, <3>3
      <4> DEFINE c0 == c(U)
                 X0 == X[U]
                 Q0 == Q[U]
                 x0 == x[k]
      <4>3. c0 \in Int /\ X0 \in Int /\ Q0 \in Int /\ x0 \in Int
        BY <3>5, <4>1
      <4> HIDE DEF c0, X0, Q0, x0
      <4>4. (c0 + 1) * (w * w) - 2 * (w * n) * (x0 + X0) + (n * n) * (x0 * x0 + Q0)
              = (c0 * (w * w) - 2 * (w * n) * X0 + (n * n) * Q0) + (w - n * x0) * (w - n * x0)
        BY <1>5, <2>6, <4>3
      <4>5. QED
        BY <4>2, <4>4 DEF c0, X0, Q0, x0
    <3>7. z * z >= 0
      BY <3>5
    <3>8. k \in F => z * z >= 4 * (t * t)
      <4> SUFFICES ASSUME k \in F PROVE z * z >= 4 * (t * t)
        OBVIOUS
      <4>1. z = t + d(k) /\ d(k) \in Nat /\ t <= d(k)
        BY <1>5, <2>4, <3>5
      <4> HIDE DEF z, d
      <4>2. 0 <= 2 * t /\ 2 * t <= z
        BY <2>4, <4>1
      <4> DEFINE b == 2 * t
      <4>3. b \in Int
        BY <2>4
      <4> HIDE DEF b
      <4>4. b * b <= z * z
        BY <3>5, <4>2, <4>3, Square DEF b
      <4>5. b * b = 4 * (t * t)
        BY <2>4 DEF b
      <4>6. QED
        BY <4>4, <4>5
    <3>9. 4 * (t * t) * m(U) <= R(U) /\ R(U) \in Int /\ m(U) \in Nat
      BY <1>5, <2>6, <2>7, <3>1
    <3> HIDE DEF R, m, U, z, k
    <3>10. 4 * (t * t) * m(T) <= R(T)
      <4> DEFINE a == t * t
                 b == z * z
      <4>1. a \in Nat /\ b \in Int
        BY <2>4, <3>5
      <4>2. b >= 0 /\ (k \in F => b >= 4 * a) /\ R(T) = R(U) + b /\ 4 * a * m(U) <= R(U)
        BY <3>6, <3>7, <3>8, <3>9
      <4> HIDE DEF a, b
      <4>3. CASE k \in F
        <5>1. m(T) = m(U) + 1
          BY <3>4, <4>3
        <5>2. 4 * a * (m(U) + 1) = 4 * a * m(U) + 4 * a
          BY <3>9, <4>1
        <5>3. QED
          BY <3>9, <4>1, <4>2, <4>3, <5>1, <5>2 DEF a
      <4>4. CASE k \notin F
        BY <3>4, <3>9, <4>1, <4>2, <4>4 DEF a
      <4>5. QED
        BY <4>3, <4>4
    <3>11. QED
      BY <3>10
  <2> HIDE DEF P
  <2>10. S \in P
    BY <2>8, <2>9, BySize
  <2>11. 4 * (t * t) * Cardinality(F) <= n * (w * w) - 2 * (w * n) * s + (n * n) * q
    <3>1. F \cap S = F
      OBVIOUS
    <3>2. QED
      BY <1>4, <2>10, <3>1 DEF P
  <2>12. n * (w * w) - 2 * (w * n) * s + (n * n) * q = n * (t * t + (n * q - s * s))
    BY <1>5, <2>4
  <2>13. n > 0
    BY <1>8, <1>5, FS_EmptySet
  <2> DEFINE a == t * t
             v == n * q - s * s
  <2>14. a \in Nat /\ a > 0 /\ v \in Int /\ v < a
    BY <1>5, <2>4, <2>5
  <2>15. 4 * a * Cardinality(F) <= n * (a + v)
    BY <2>11, <2>12
  <2> HIDE DEF a, v
  <2>16. n * (a + v) <= n * (2 * a)
    BY <1>5, <2>13, <2>14
  <2>17. (2 * Cardinality(F)) * (2 * a) <= n * (2 * a)
    BY <1>5, <1>6, <2>14, <2>15, <2>16
  <2> DEFINE a2 == 2 * a
             m2 == 2 * Cardinality(F)
  <2>18. a2 \in Int /\ a2 > 0 /\ m2 \in Int
    BY <1>6, <2>14
  <2> HIDE DEF a2, m2
  <2>19. m2 * a2 <= n * a2
    BY <2>17 DEF a2, m2
  <2>20. m2 <= n
    BY <1>5, <2>18, <2>19, Cancel, n \in Int, Zenon
  <2>21. QED
    BY <2>20 DEF m2
<1>9. QED
  BY <1>7, <1>8

-----------------------------------------------------------------------------
(* The loops of timing.py and jplag.py                                     *)

\* An export is a sequence of files with numbers and truth values in them.
LEMMA ExportShape ==
    ASSUME subs \in Exports
    PROVE  /\ Len(subs) \in Nat /\ DOMAIN subs = 1 .. Len(subs)
           /\ \A s : s \in Files <=> \E i \in DOMAIN subs : s = subs[i]
           /\ \A s \in Files : /\ s.attempt \in Nat /\ s.dt \in Nat
                               /\ s.ac \in BOOLEAN /\ s.commented \in BOOLEAN
           /\ subs # <<>> => Files # {}
<1>1. subs \in Seq(ToSet(subs))
  BY AnalysisAssumption
<1>2. Len(subs) \in Nat /\ DOMAIN subs = 1 .. Len(subs)
  BY <1>1
<1>3. \A s : s \in Files <=> \E i \in DOMAIN subs : s = subs[i]
  BY DEF Files, ToSet
<1>4. subs # <<>> => 1 \in DOMAIN subs
  BY <1>1, <1>2
<1>5. QED
  BY <1>2, <1>3, <1>4, AnalysisAssumption DEF Files

\* FirstAc finds an accepted file with the lowest number.
LEMMA FirstAcFinds ==
    ASSUME subs \in Exports, NEW k
    PROVE  /\ FirstAc(k) # 0 <=> Accepted(k) # {}
           /\ FirstAc(k) # 0 => FirstAc(k) \in Accepted(k)
           /\ \A j \in Accepted(k) : subs[FirstAc(k)].attempt <= subs[j].attempt
<1> DEFINE C == Accepted(k)
           value == [i \in C |-> -subs[i].attempt]
<1>1. C \subseteq 1 .. Len(subs) /\ Len(subs) \in Nat /\ \A i \in C : subs[i].attempt \in Nat
  BY ExportShape DEF Accepted
<1>2. value \in [C -> Int] /\ FirstAc(k) = Scan(Len(subs), value)
  BY <1>1 DEF FirstAc
<1> HIDE DEF C, value
<1> DEFINE i == Scan(Len(subs), value)
<1>3. /\ i \in C \cup {0}
      /\ C # {} => i \in C
      /\ \A j \in C : value[j] <= value[i]
  BY <1>1, <1>2, ScanFinds
<1> HIDE DEF i
<1>4. ASSUME NEW j \in C PROVE subs[i].attempt <= subs[j].attempt
  <2>1. i \in C
    BY <1>3
  <2>2. value[i] = -subs[i].attempt /\ value[j] = -subs[j].attempt
    BY <2>1 DEF value
  <2>3. QED
    BY <1>1, <1>3, <2>1, <2>2
<1>5. 0 \notin C
  BY <1>1
<1>6. FirstAc(k) = i
  BY <1>2 DEF i
<1>7. QED
  BY <1>3, <1>4, <1>5, <1>6 DEF C

\* FirstTs finds an earliest file of its user.
LEMMA FirstTsFinds ==
    ASSUME subs \in Exports, NEW s \in Files
    PROVE  /\ FirstTs(s.user) \in DOMAIN subs
           /\ subs[FirstTs(s.user)].user = s.user
           /\ \A t \in Files : t.user = s.user => subs[FirstTs(s.user)].dt <= t.dt
<1> DEFINE u == s.user
           C == {j \in DOMAIN subs : subs[j].user = u}
           value == [i \in C |-> -subs[i].dt]
<1>1. C \subseteq 1 .. Len(subs) /\ Len(subs) \in Nat /\ \A i \in C : subs[i].dt \in Nat
  BY ExportShape
<1>2. value \in [C -> Int] /\ FirstTs(u) = Scan(Len(subs), value)
  BY <1>1 DEF FirstTs
<1>3. C # {} /\ \A t \in Files : t.user = u => \E j \in C : t = subs[j]
  BY ExportShape
<1> HIDE DEF C, value
<1> DEFINE i == Scan(Len(subs), value)
<1>4. i \in C /\ \A j \in C : value[j] <= value[i]
  BY <1>1, <1>2, <1>3, ScanFinds
<1> HIDE DEF i
<1>5. ASSUME NEW j \in C PROVE subs[i].dt <= subs[j].dt
  <2>1. value[i] = -subs[i].dt /\ value[j] = -subs[j].dt
    BY <1>4 DEF value
  <2>2. QED
    BY <1>1, <1>4, <2>1
<1>6. FirstTs(u) = i
  BY <1>2 DEF i
<1>7. QED
  BY <1>3, <1>4, <1>5, <1>6 DEF C

\* Best finds a latest one of the files of a user that JPlag may get.
LEMMA BestFinds ==
    ASSUME subs \in Exports, NEW g, NEW u
    PROVE  /\ Best(g, u) # 0 <=> Offered(g, u) # {}
           /\ Best(g, u) # 0 => Best(g, u) \in Offered(g, u)
           /\ \A j \in Offered(g, u) : subs[j].dt <= subs[Best(g, u)].dt
<1> DEFINE C == Offered(g, u)
           value == [i \in C |-> subs[i].dt]
<1>1. C \subseteq 1 .. Len(subs) /\ Len(subs) \in Nat /\ \A i \in C : subs[i].dt \in Nat
  BY ExportShape DEF Offered
<1>2. value \in [C -> Int] /\ Best(g, u) = Scan(Len(subs), value)
  BY <1>1 DEF Best
<1> HIDE DEF C, value
<1> DEFINE i == Scan(Len(subs), value)
<1>3. /\ i \in C \cup {0}
      /\ C # {} => i \in C
      /\ \A j \in C : value[j] <= value[i]
  BY <1>1, <1>2, ScanFinds
<1> HIDE DEF i
<1>4. \A j \in C : subs[j].dt <= subs[i].dt
  BY <1>1, <1>3 DEF value
<1>5. 0 \notin C
  BY <1>1
<1>6. Best(g, u) = i
  BY <1>2 DEF i
<1>7. QED
  BY <1>3, <1>4, <1>5, <1>6 DEF C

\* BestPair finds a pair of k with the largest similarity.
LEMMA BestPairFinds ==
    ASSUME Len(pairs) \in Nat, DOMAIN pairs = 1 .. Len(pairs),
           \A i \in DOMAIN pairs : pairs[i].similitud \in Nat, NEW k
    PROVE  /\ BestPair(k) # 0 <=> PairsWith(k) # {}
           /\ BestPair(k) # 0 => BestPair(k) \in PairsWith(k)
           /\ \A j \in PairsWith(k) : pairs[j].similitud <= pairs[BestPair(k)].similitud
<1> DEFINE C == PairsWith(k)
           value == [i \in C |-> pairs[i].similitud]
<1>1. C \subseteq 1 .. Len(pairs) /\ \A i \in C : pairs[i].similitud \in Nat
  BY DEF PairsWith
<1>2. value \in [C -> Int] /\ BestPair(k) = Scan(Len(pairs), value)
  BY <1>1 DEF BestPair
<1> HIDE DEF C, value
<1> DEFINE i == Scan(Len(pairs), value)
<1>3. /\ i \in C \cup {0}
      /\ C # {} => i \in C
      /\ \A j \in C : value[j] <= value[i]
  BY <1>1, <1>2, ScanFinds
<1> HIDE DEF i
<1>4. \A j \in C : pairs[j].similitud <= pairs[i].similitud
  BY <1>1, <1>3 DEF value
<1>5. 0 \notin C
  BY <1>1
<1>6. BestPair(k) = i
  BY <1>2 DEF i
<1>7. QED
  BY <1>3, <1>4, <1>5, <1>6 DEF C

-----------------------------------------------------------------------------
(* What a row says                                                         *)

\* Who solved what: the loop finds an accepted file where there is one.
LEMMA SolvedIsAccepted ==
    ASSUME subs \in Exports
    PROVE  /\ Solved = {KeyOf(s) : s \in {t \in Files : t.ac}}
           /\ IsFiniteSet(Solved)
<1>1. \A k : k \in Solved <=> \E s \in Files : KeyOf(s) = k /\ FirstAc(k) # 0
  BY DEF Solved
<1>2. \A k : FirstAc(k) # 0 <=> \E s \in Files : KeyOf(s) = k /\ s.ac
  BY ExportShape, FirstAcFinds DEF Accepted
<1>3. Solved = {KeyOf(s) : s \in {t \in Files : t.ac}}
  BY <1>1, <1>2
<1> DEFINE keys == {KeyOf(s) : s \in Files}
           f == [i \in 1 .. Len(subs) |-> KeyOf(subs[i])]
<1>4. f \in Surjection(1 .. Len(subs), keys)
  BY ExportShape DEF Surjection
<1> HIDE DEF f, keys
<1>5. IsFiniteSet(keys)
  BY <1>4, ExportShape, FS_Interval, FS_Surjection, 1 \in Int, Len(subs) \in Int
<1>6. Solved \subseteq keys
  BY DEF Solved, keys
<1>7. QED
  BY <1>3, <1>5, <1>6, FS_Subset

\* The file and the time a row is about.
LEMMA SolvedRow ==
    ASSUME subs \in Exports, NEW k \in Solved
    PROVE  LET s == subs[FirstAc(k)] IN
           /\ s \in Files /\ KeyOf(s) = k /\ s.user = k[1] /\ s.ac
           /\ \A t \in Files : KeyOf(t) = k /\ t.ac => s.attempt <= t.attempt
           /\ Seconds(k) \in Int
           /\ \E t \in Files : t.user = s.user /\ Seconds(k) = s.dt - t.dt
           /\ \A t \in Files : t.user = s.user => Seconds(k) >= s.dt - t.dt
<1> DEFINE s == subs[FirstAc(k)]
           t0 == subs[FirstTs(k[1])]
<1>1. FirstAc(k) \in Accepted(k)
  BY FirstAcFinds DEF Solved
<1>2. s \in Files /\ KeyOf(s) = k /\ s.user = k[1] /\ s.ac
  BY <1>1, ExportShape DEF Accepted, KeyOf
<1>3. \A t \in Files : KeyOf(t) = k /\ t.ac => s.attempt <= t.attempt
  BY ExportShape, FirstAcFinds DEF Accepted
<1>4. t0 \in Files /\ t0.user = s.user /\ \A t \in Files : t.user = s.user => t0.dt <= t.dt
  BY <1>2, ExportShape, FirstTsFinds
<1>5. Seconds(k) = s.dt - t0.dt
  BY DEF Seconds
<1>6. \A t \in Files : t.dt \in Nat
  BY ExportShape
<1> HIDE DEF s, t0
<1>7. /\ Seconds(k) \in Int
      /\ \E t \in Files : t.user = s.user /\ Seconds(k) = s.dt - t.dt
      /\ \A t \in Files : t.user = s.user => Seconds(k) >= s.dt - t.dt
  BY <1>2, <1>4, <1>5, <1>6
<1>8. QED
  BY <1>2, <1>3, <1>7 DEF s

\* At most half of the solvers of a problem are fast, and those who are not
\* were slower.
LEMMA FastIsFew ==
    ASSUME subs \in Exports, NEW k \in Solved
    PROVE  /\ 2 * Cardinality({i \in Group(k[2]) : Fast(i)}) <= Cardinality(Group(k[2]))
           /\ \A j \in Group(k[2]) : Fast(k) /\ ~Fast(j) => Seconds(k) < Seconds(j)
<1> DEFINE p == k[2]
           g == Group(p)
           x == Times(p)
           n == Cardinality(g)
           s == SumFunction(x)
           y == [i \in g |-> x[i] * x[i]]
           q == SumFunction(y)
           F == {i \in g : Fast(i)}
<1>1. IsFiniteSet(g)
  BY SolvedIsAccepted, FS_Subset DEF Group
<1>2. \A i \in g : i[2] = p /\ Seconds(i) \in Int /\ x[i] = Seconds(i)
  BY SolvedRow DEF Group, Times
<1>3. x \in [g -> Int]
  BY <1>2 DEF Times
<1>4. \A i \in g : /\ Off(i) = n * x[i] - s
                   /\ Spread(i[2]) = n * q - s * s
  BY <1>2 DEF Off, Spread
<1>5. \A i \in g : Fast(i) <=> /\ n > 2
                               /\ n * x[i] - s < 0
                               /\ (n * x[i] - s) * (n * x[i] - s) * 200 * 200
                                    > 201 * 201 * (n * q - s * s)
  BY <1>2, <1>4 DEF Fast
<1>6. /\ n = Cardinality(g) /\ s = SumFunction(x)
      /\ q = SumFunction([i \in g |-> x[i] * x[i]])
      /\ F \subseteq g
      /\ \A i \in F : /\ n * x[i] - s < 0
                      /\ (n * x[i] - s) * (n * x[i] - s) * 200 * 200
                           > 201 * 201 * (n * q - s * s)
  BY <1>5
<1>7. 2 * Cardinality(F) <= n
  <2> HIDE DEF p, g, x, n, s, q, F
  <2>1. QED
    BY <1>1, <1>3, <1>6, FewFarBelow
<1>8. ASSUME NEW j \in g, Fast(k), ~Fast(j)
      PROVE  Seconds(k) < Seconds(j)
  <2> SUFFICES ASSUME Seconds(j) <= Seconds(k)
               PROVE  FALSE
    BY <1>2, SolvedRow DEF g, Group
  <2> DEFINE a == n * x[k] - s
             b == n * x[j] - s
  <2>1. k \in g
    BY DEF Group
  <2>2. n \in Nat /\ s \in Int /\ x[j] \in Int /\ x[k] \in Int /\ x[j] <= x[k]
    BY <1>1, <1>2, <1>3, <2>1, FS_CardinalityType, SumIsInt
  <2>3. n * x[j] <= n * x[k]
    <3>1. n * (x[k] - x[j]) >= 0
      BY <2>2
    <3>2. QED
      BY <2>2, <3>1
  <2>4. a \in Int /\ b \in Int /\ a < 0 /\ b <= a
    <3>1. a < 0
      BY <1>5, <1>8, <2>1
    <3> DEFINE c == n * x[k]
               d == n * x[j]
    <3>2. c \in Int /\ d \in Int /\ d <= c
      BY <2>2, <2>3
    <3> HIDE DEF c, d
    <3>3. a = c - s /\ b = d - s
      BY DEF c, d
    <3>4. QED
      BY <2>2, <3>1, <3>2, <3>3
  <2>5. a * a <= b * b
    <3> HIDE DEF a, b
    <3>1. (0 - a) * (0 - a) <= (0 - b) * (0 - b)
      BY <2>4, Square
    <3>2. QED
      BY <2>4, <3>1
  <2> DEFINE v == n * q - s * s
  <2>6. /\ a * a * 200 * 200 > 201 * 201 * v
        /\ ~ (b * b * 200 * 200 > 201 * 201 * v)
    BY <1>5, <1>8, <2>1, <2>4
  <2>7. v \in Int
    BY <2>2, <1>1, <1>2, SumIsInt
  <2> HIDE DEF a, b, v
  <2>8. QED
    BY <2>4, <2>5, <2>6, <2>7
<1>9. QED
  BY <1>7, <1>8

-----------------------------------------------------------------------------
(* Type correctness                                                        *)

Authors  == {s.user : s \in Files}
Groups   == {s.problem : s \in Files} \X {s.lang : s \in Files}

Row == [seconds : Int, single : BOOLEAN, fast : BOOLEAN, noted : BOOLEAN,
        score : Nat, similarity : Int, partner : {<<>>} \cup {<<u>> : u \in Authors}]

Comparison == [group : Groups, a : Authors, b : Authors, sim : Similarities]

Pair == [problem : {s.problem : s \in Files}, lang : {s.lang : s \in Files},
         a : Authors, b : Authors, similitud : Nat]

TypeInv ==
    /\ subs \in Exports
    /\ soloAc \in BOOLEAN
    /\ stage \in {"timing", "prepare", "jplag", "done", "raised"}
    /\ rows \in [DOMAIN rows -> Row]
    /\ sent \in [DOMAIN sent -> SUBSET Files]
    /\ DOMAIN sent \subseteq Groups
    /\ queue \subseteq DOMAIN sent
    /\ unread \subseteq Comparison
    /\ pairs \in Seq(Pair)

LEMMA PairsShape ==
    ASSUME TypeInv
    PROVE  /\ Len(pairs) \in Nat /\ DOMAIN pairs = 1 .. Len(pairs)
           /\ \A i \in DOMAIN pairs : pairs[i] \in Pair
           /\ \A i \in DOMAIN pairs : pairs[i].similitud \in Nat
<1>1. /\ Len(pairs) \in Nat /\ DOMAIN pairs = 1 .. Len(pairs)
      /\ \A i \in DOMAIN pairs : pairs[i] \in Pair
  BY DEF TypeInv
<1>2. QED
  BY <1>1 DEF Pair

\* The parts of a pair that a row shows.
LEMMA BestPairRow ==
    ASSUME TypeInv, NEW k, BestPair(k) # 0
    PROVE  LET best == pairs[BestPair(k)] IN
           /\ best \in Pair /\ best.similitud \in Nat
           /\ best.a \in Authors /\ best.b \in Authors
  BY PairsShape, BestPairFinds DEF PairsWith, Pair

\* A sign counts for one.
LEMMA OneIsNat == ASSUME NEW b \in BOOLEAN PROVE One(b) \in {0, 1}
  BY DEF One

LEMMA TypeInit == Init => TypeInv
<1> SUFFICES ASSUME Init PROVE TypeInv
  OBVIOUS
<1>1. rows \in [DOMAIN rows -> Row] /\ sent \in [DOMAIN sent -> SUBSET Files] /\ DOMAIN sent = {}
  BY DEF Init
<1>2. QED
  BY <1>1 DEF Init, TypeInv

LEMMA TimingTyped ==
    ASSUME TypeInv, AnalyzeTimingStyle
    PROVE  rows' \in [Solved -> Row]
<1> SUFFICES ASSUME NEW k \in Solved
             PROVE  rows'[k] \in Row
  BY DEF AnalyzeTimingStyle
<1> DEFINE single == subs[FirstAc(k)].attempt - 1 = 0
           fast   == Fast(k)
           noted  == subs[FirstAc(k)].commented
<1>1. rows'[k] = [seconds |-> Seconds(k), single |-> single, fast |-> fast, noted |-> noted,
                  score |-> One(single) + One(fast) + One(noted),
                  similarity |-> -1, partner |-> <<>>]
  BY DEF AnalyzeTimingStyle
<1>2. single \in BOOLEAN /\ fast \in BOOLEAN /\ noted \in BOOLEAN /\ Seconds(k) \in Int
  BY SolvedRow, ExportShape DEF TypeInv, Fast
<1> HIDE DEF single, fast, noted
<1>3. One(single) + One(fast) + One(noted) \in Nat
  BY <1>2, OneIsNat
<1>4. QED
  BY <1>1, <1>2, <1>3 DEF Row

LEMMA MergeTyped ==
    ASSUME TypeInv, MergeJplagIntoMain
    PROVE  rows' \in [DOMAIN rows -> Row]
<1> SUFFICES ASSUME NEW k \in DOMAIN rows
             PROVE  rows'[k] \in Row
  BY DEF MergeJplagIntoMain
<1>1. rows[k] \in Row
  BY DEF TypeInv
<1>2. CASE BestPair(k) = 0
  BY <1>1, <1>2 DEF MergeJplagIntoMain
<1>3. CASE BestPair(k) # 0
  <2> DEFINE best == pairs[BestPair(k)]
             other == IF k[1] = best.a THEN best.b ELSE best.a
             plus == One(best.similitud >= 700)
  <2>1. rows'[k] = [rows[k] EXCEPT !.similarity = best.similitud,
                                   !.partner = <<other>>, !.score = @ + plus]
    BY <1>3 DEF MergeJplagIntoMain
  <2>2. best.similitud \in Nat /\ other \in Authors
    BY <1>3, BestPairRow
  <2>3. plus \in Nat
    BY DEF One
  <2> HIDE DEF best, other, plus
  <2>4. <<other>> \in {<<u>> : u \in Authors} /\ rows[k].score + plus \in Nat
    BY <1>1, <2>2, <2>3 DEF Row
  <2> DEFINE partner == <<other>>
  <2> HIDE DEF partner
  <2>5. rows'[k] = [rows[k] EXCEPT !.similarity = best.similitud,
                                   !.partner = partner, !.score = rows[k].score + plus]
    BY <2>1 DEF partner
  <2>6. partner \in {<<>>} \cup {<<u>> : u \in Authors}
    BY <2>4 DEF partner
  <2>7. best.similitud \in Int
    BY <2>2
  <2>8. QED
    BY <1>1, <2>4, <2>5, <2>6, <2>7 DEF Row
<1>4. QED
  BY <1>2, <1>3

LEMMA TypeStep == TypeInv /\ [Next]_vars => TypeInv'
<1> SUFFICES ASSUME TypeInv, [Next]_vars PROVE TypeInv'
  OBVIOUS
<1>0. subs' = subs /\ soloAc' = soloAc
  BY DEF Next, vars, NoSubmissions, AnalyzeTimingStyle, PrepareJplagInput, WithoutJplag,
         JplagTimesOut, RunJplag, ParseComparison, ReportUnreadable, MergeJplagIntoMain, Ended
<1>1. Files' = Files /\ Authors' = Authors /\ Groups' = Groups
      /\ Row' = Row /\ Comparison' = Comparison /\ Pair' = Pair
  BY <1>0 DEF Files, Authors, Groups, Row, Comparison, Pair
<1>2. CASE NoSubmissions
  BY <1>1, <1>2 DEF NoSubmissions, TypeInv
<1>3. CASE AnalyzeTimingStyle
  BY <1>1, <1>3, TimingTyped DEF AnalyzeTimingStyle, TypeInv
<1>4. CASE PrepareJplagInput
  <2> DEFINE groups  == {GroupOf(s) : s \in {t \in Files : Usable(t)}}
             authors == {s.user : s \in Files}
             S(g) == {subs[i] : i \in {Best(g, u) : u \in authors} \ {0}}
  <2>1. sent' = [g \in groups |-> S(g)]
    BY <1>4 DEF PrepareJplagInput
  <2>2. groups \subseteq Groups
    BY DEF Groups, GroupOf
  <2>3. \A g : S(g) \subseteq Files
    BY BestFinds, ExportShape DEF TypeInv, Offered
  <2> HIDE DEF groups, S
  <2>4. sent' \in [groups -> SUBSET Files] /\ DOMAIN sent' = groups
    BY <2>1, <2>3
  <2>5. queue' \subseteq groups
    BY <1>4 DEF PrepareJplagInput, groups
  <2>6. QED
    BY <1>1, <1>4, <2>2, <2>4, <2>5 DEF PrepareJplagInput, TypeInv
<1>5. CASE WithoutJplag
  BY <1>1, <1>5 DEF WithoutJplag, TypeInv
<1>6. CASE JplagTimesOut
  BY <1>1, <1>6 DEF JplagTimesOut, TypeInv
<1>7. ASSUME NEW g \in queue, RunJplag(g)
      PROVE  TypeInv'
  <2>1. PICK sim \in [PairsOf(sent[g]) -> Similarities] :
          unread' = unread \cup {[group |-> g, a |-> x[1].user, b |-> x[2].user, sim |-> sim[x]] :
                                    x \in PairsOf(sent[g])}
    BY <1>7 DEF RunJplag
  <2>2. g \in Groups /\ sent[g] \subseteq Files
    BY DEF TypeInv
  <2>3. \A x \in PairsOf(sent[g]) : x[1].user \in Authors /\ x[2].user \in Authors
    BY <2>2 DEF PairsOf, Authors
  <2>4. unread' \subseteq Comparison
    BY <2>1, <2>2, <2>3 DEF Comparison, TypeInv
  <2>5. QED
    BY <1>1, <1>7, <2>4 DEF RunJplag, TypeInv
<1>8. ASSUME NEW c \in unread, ParseComparison(c)
      PROVE  TypeInv'
  <2> DEFINE r == [problem |-> c.group[1], lang |-> c.group[2],
                   a |-> c.a, b |-> c.b, similitud |-> (c.sim + 5) \div 10]
  <2>1. c \in Comparison
    BY DEF TypeInv
  <2>2. c.sim \in Nat
    BY <2>1, AnalysisAssumption DEF Comparison
  <2>3. (c.sim + 5) \div 10 \in Nat
    BY <2>2
  <2>4. r \in Pair
    BY <2>1, <2>3 DEF Comparison, Pair, Groups
  <2>5. pairs' = pairs \/ pairs' = Append(pairs, r)
    BY <1>8 DEF ParseComparison
  <2> HIDE DEF r
  <2>6. pairs' \in Seq(Pair)
    BY <2>4, <2>5 DEF TypeInv
  <2>7. QED
    BY <1>1, <1>8, <2>6 DEF ParseComparison, TypeInv
<1>9. ASSUME NEW c \in unread, ReportUnreadable(c.group)
      PROVE  TypeInv'
  BY <1>1, <1>9 DEF ReportUnreadable, TypeInv
<1>10. CASE MergeJplagIntoMain
  BY <1>1, <1>10, MergeTyped DEF MergeJplagIntoMain, TypeInv
<1>11. CASE UNCHANGED vars
  BY <1>1, <1>11 DEF vars, TypeInv
<1>12. QED
  BY <1>2, <1>3, <1>4, <1>5, <1>6, <1>7, <1>8, <1>9, <1>10, <1>11 DEF Next, Ended

\* The analysis keeps files, rows, comparisons and pairs in their types, for any
\* exports and any reports of JPlag.
THEOREM TypeCorrect == Spec => []TypeInv
  BY TypeInit, TypeStep, PTL DEF Spec

-----------------------------------------------------------------------------
(* The rows                                                                *)

\* Only the timing and the merge write rows.
LEMMA RowsStep ==
    ASSUME [Next]_vars
    PROVE  /\ subs' = subs
           /\ \/ /\ rows' = rows
                 /\ stage = "timing" => stage' = "timing" \/ subs = <<>>
                 /\ stage = "done" => stage' = "done"
                 /\ stage' = "done" => stage = "done" /\ pairs' = pairs
              \/ AnalyzeTimingStyle
              \/ MergeJplagIntoMain
  BY DEF Next, vars, NoSubmissions, PrepareJplagInput, WithoutJplag, JplagTimesOut,
         RunJplag, ParseComparison, ReportUnreadable, Ended, AnalyzeTimingStyle,
         MergeJplagIntoMain

\* The row of the timing.
LEMMA TimingRow ==
    ASSUME TypeInv, AnalyzeTimingStyle, NEW k \in Solved
    PROVE  /\ rows'[k].seconds = Seconds(k)
           /\ rows'[k].single <=> subs[FirstAc(k)].attempt = 1
           /\ rows'[k].noted = subs[FirstAc(k)].commented
           /\ rows'[k].fast = Fast(k)
           /\ rows'[k].partner = <<>>
           /\ rows'[k].score = One(rows'[k].single) + One(rows'[k].fast) + One(rows'[k].noted)
<1> DEFINE single == subs[FirstAc(k)].attempt - 1 = 0
           fast   == Fast(k)
           noted  == subs[FirstAc(k)].commented
<1>1. rows'[k] = [seconds |-> Seconds(k), single |-> single, fast |-> fast, noted |-> noted,
                  score |-> One(single) + One(fast) + One(noted),
                  similarity |-> -1, partner |-> <<>>]
  BY DEF AnalyzeTimingStyle
<1>2. single <=> subs[FirstAc(k)].attempt = 1
  BY SolvedRow, ExportShape DEF TypeInv
<1> HIDE DEF single, fast, noted
<1>3. QED
  BY <1>1, <1>2 DEF fast, noted

\* What the merge changes in a row.
LEMMA MergedRow ==
    ASSUME TypeInv, MergeJplagIntoMain
    PROVE  /\ DOMAIN rows' = DOMAIN rows
           /\ \A k \in DOMAIN rows :
                 /\ rows'[k].seconds = rows[k].seconds /\ rows'[k].single = rows[k].single
                 /\ rows'[k].fast = rows[k].fast /\ rows'[k].noted = rows[k].noted
                 /\ BestPair(k) = 0 => rows'[k] = rows[k]
                 /\ BestPair(k) # 0 =>
                      LET best == pairs[BestPair(k)] IN
                      /\ rows'[k].similarity = best.similitud
                      /\ rows'[k].partner = <<IF k[1] = best.a THEN best.b ELSE best.a>>
                      /\ rows'[k].score = rows[k].score + One(best.similitud >= 700)
<1>1. DOMAIN rows' = DOMAIN rows
  BY DEF MergeJplagIntoMain
<1>2. ASSUME NEW k \in DOMAIN rows, BestPair(k) = 0 PROVE rows'[k] = rows[k]
  BY <1>2 DEF MergeJplagIntoMain
<1>3. ASSUME NEW k \in DOMAIN rows, BestPair(k) # 0
      PROVE  LET best == pairs[BestPair(k)] IN
             /\ rows'[k].seconds = rows[k].seconds /\ rows'[k].single = rows[k].single
             /\ rows'[k].fast = rows[k].fast /\ rows'[k].noted = rows[k].noted
             /\ rows'[k].similarity = best.similitud
             /\ rows'[k].partner = <<IF k[1] = best.a THEN best.b ELSE best.a>>
             /\ rows'[k].score = rows[k].score + One(best.similitud >= 700)
  <2> DEFINE best == pairs[BestPair(k)]
             partner == <<IF k[1] = best.a THEN best.b ELSE best.a>>
             plus == One(best.similitud >= 700)
             sim == best.similitud
  <2>1. rows'[k] = [rows[k] EXCEPT !.similarity = sim, !.partner = partner, !.score = @ + plus]
    BY <1>3 DEF MergeJplagIntoMain
  <2>2. rows[k] \in Row
    BY DEF TypeInv
  <2> HIDE DEF partner, plus, sim
  <2>3. /\ rows'[k].seconds = rows[k].seconds /\ rows'[k].single = rows[k].single
        /\ rows'[k].fast = rows[k].fast /\ rows'[k].noted = rows[k].noted
        /\ rows'[k].similarity = sim /\ rows'[k].partner = partner
        /\ rows'[k].score = rows[k].score + plus
    BY <2>1, <2>2 DEF Row
  <2>4. QED
    BY <2>3 DEF partner, plus, sim
<1>4. QED
  BY <1>1, <1>2, <1>3

LEMMA RowsStay == TypeInv /\ RowsByDefinition /\ [Next]_vars => RowsByDefinition'
<1> SUFFICES ASSUME TypeInv, RowsByDefinition, [Next]_vars, stage' # "timing", subs' # <<>>
             PROVE  /\ DOMAIN rows' = {KeyOf(s) : s \in {t \in Files : t.ac}}
                    /\ \A k \in DOMAIN rows' : \E s \in Files :
                          /\ KeyOf(s) = k /\ s.ac
                          /\ \A t \in Files : KeyOf(t) = k /\ t.ac => s.attempt <= t.attempt
                          /\ rows'[k].single <=> s.attempt = 1
                          /\ rows'[k].noted <=> s.commented
                          /\ \E t \in Files : t.user = s.user /\ rows'[k].seconds = s.dt - t.dt
                          /\ \A t \in Files : t.user = s.user => rows'[k].seconds >= s.dt - t.dt
  BY RowsStep DEF RowsByDefinition, Files, KeyOf
<1>1. CASE rows' = rows /\ (stage = "timing" => stage' = "timing" \/ subs = <<>>)
  BY <1>1, RowsStep DEF RowsByDefinition
<1>2. CASE AnalyzeTimingStyle
  <2>1. subs \in Exports /\ DOMAIN rows' = Solved
    BY <1>2 DEF AnalyzeTimingStyle, TypeInv
  <2>2. \A k \in Solved : LET s == subs[FirstAc(k)] IN
           /\ s \in Files /\ KeyOf(s) = k /\ s.ac
           /\ \A t \in Files : KeyOf(t) = k /\ t.ac => s.attempt <= t.attempt
           /\ rows'[k].single <=> s.attempt = 1
           /\ rows'[k].noted <=> s.commented
           /\ \E t \in Files : t.user = s.user /\ rows'[k].seconds = s.dt - t.dt
           /\ \A t \in Files : t.user = s.user => rows'[k].seconds >= s.dt - t.dt
    BY <1>2, <2>1, SolvedRow, TimingRow
  <2>3. QED
    BY <2>1, <2>2, SolvedIsAccepted
<1>3. CASE MergeJplagIntoMain
  <2>1. stage # "timing" /\ subs # <<>>
    BY <1>3, RowsStep DEF MergeJplagIntoMain
  <2>2. QED
    BY <1>3, <2>1, MergedRow DEF RowsByDefinition
<1>4. QED
  BY <1>1, <1>2, <1>3, RowsStep

\* However the directories list the files, there is a row for who solved a
\* problem, made of one solution with the lowest number: its number, comments,
\* and time since the first file of its user (analyze_timing_style).
THEOREM RowsByDefinitionHolds == Spec => []RowsByDefinition
<1>1. Init => RowsByDefinition
  BY DEF Init, RowsByDefinition
<1>2. QED
  BY <1>1, RowsStay, TypeCorrect, PTL DEF Spec

LEMMA FewStay == TypeInv /\ FastAreFew /\ [Next]_vars => FastAreFew'
<1> SUFFICES ASSUME TypeInv, FastAreFew, [Next]_vars PROVE FastAreFew'
  OBVIOUS
<1>1. CASE rows' = rows
  BY <1>1 DEF FastAreFew
<1>2. CASE AnalyzeTimingStyle
  <2>1. subs \in Exports /\ DOMAIN rows' = Solved
    BY <1>2 DEF AnalyzeTimingStyle, TypeInv
  <2>2. \A k \in Solved : rows'[k].fast = Fast(k) /\ rows'[k].seconds = Seconds(k)
    BY <1>2, TimingRow
  <2> SUFFICES ASSUME NEW k \in Solved, NEW j \in Solved, Fast(k)
               PROVE  LET group == {i \in Solved : i[2] = k[2]} IN
                      /\ 2 * Cardinality({i \in group : rows'[i].fast}) <= Cardinality(group)
                      /\ j \in group /\ ~Fast(j) => Seconds(k) < Seconds(j)
    BY <2>1, <2>2 DEF FastAreFew
  <2>3. {i \in Group(k[2]) : rows'[i].fast} = {i \in Group(k[2]) : Fast(i)}
    BY <2>2 DEF Group
  <2>4. QED
    BY <2>1, <2>3, FastIsFew DEF Group
<1>3. CASE MergeJplagIntoMain
  <2>1. DOMAIN rows' = DOMAIN rows /\ \A k \in DOMAIN rows :
           rows'[k].fast = rows[k].fast /\ rows'[k].seconds = rows[k].seconds
    BY <1>3, MergedRow
  <2>2. \A k : {i \in {i2 \in DOMAIN rows : i2[2] = k[2]} : rows'[i].fast}
                 = {i \in {i2 \in DOMAIN rows : i2[2] = k[2]} : rows[i].fast}
    BY <2>1
  <2>3. QED
    BY <2>1, <2>2 DEF FastAreFew
<1>4. QED
  BY <1>1, <1>2, <1>3, RowsStep

\* At most half of the solvers of a problem are marked as fast, and each of them
\* was faster than all who are not (the z-score of analyze_timing_style).
THEOREM FastAreFewHolds == Spec => []FastAreFew
<1>1. Init => FastAreFew
  BY DEF Init, FastAreFew
<1>2. QED
  BY <1>1, FewStay, TypeCorrect, PTL DEF Spec

-----------------------------------------------------------------------------
(* The input of JPlag                                                      *)

LEMMA SentStay == TypeInv /\ SentIsLatest /\ [Next]_vars => SentIsLatest'
<1> SUFFICES ASSUME TypeInv, SentIsLatest, [Next]_vars PROVE SentIsLatest'
  OBVIOUS
<1>1. subs' = subs /\ soloAc' = soloAc /\ (sent' = sent \/ PrepareJplagInput)
  BY DEF Next, vars, NoSubmissions, AnalyzeTimingStyle, WithoutJplag, JplagTimesOut,
         RunJplag, ParseComparison, ReportUnreadable, MergeJplagIntoMain, Ended, PrepareJplagInput
<1>2. CASE sent' = sent
  BY <1>1, <1>2 DEF SentIsLatest, Files, GroupOf, Usable
<1>3. CASE PrepareJplagInput
  <2> DEFINE groups  == {GroupOf(s) : s \in {t \in Files : Usable(t)}}
             authors == {s.user : s \in Files}
             S(g) == {subs[i] : i \in {Best(g, u) : u \in authors} \ {0}}
  <2>1. sent' = [g \in groups |-> S(g)]
    BY <1>3 DEF PrepareJplagInput
  <2>2. ASSUME NEW g, NEW s \in Files, GroupOf(s) = g, Usable(s)
        PROVE  \E t \in S(g) : /\ t.user = s.user /\ t.dt >= s.dt
                               /\ \A r \in S(g) : r.user = s.user => r = t
    <3> DEFINE t == subs[Best(g, s.user)]
    <3>1. PICK j \in DOMAIN subs : s = subs[j]
      BY ExportShape DEF TypeInv
    <3>2. j \in Offered(g, s.user)
      BY <2>2, <3>1 DEF Offered
    <3>3. /\ Best(g, s.user) # 0 /\ Best(g, s.user) \in Offered(g, s.user)
          /\ s.dt <= t.dt
      BY <3>1, <3>2, BestFinds DEF TypeInv
    <3>4. t \in S(g) /\ t.user = s.user /\ t \in Files
      BY <3>3, ExportShape DEF TypeInv, Offered
    <3>5. ASSUME NEW r \in S(g), r.user = s.user PROVE r = t
      <4>1. PICK u \in authors : Best(g, u) # 0 /\ r = subs[Best(g, u)]
        OBVIOUS
      <4>2. r.user = u
        BY <4>1, BestFinds DEF TypeInv, Offered
      <4>3. QED
        BY <3>5, <4>1, <4>2
    <3>6. t.dt \in Nat /\ s.dt \in Nat
      BY <3>4, ExportShape DEF TypeInv
    <3> HIDE DEF t, S
    <3>7. QED
      BY <3>3, <3>4, <3>5, <3>6
  <2> HIDE DEF S
  <2>3. \A g \in groups : sent'[g] = S(g)
    BY <2>1
  <2>4. DOMAIN sent' = groups
    BY <2>1
  <2> HIDE DEF groups, authors
  <2>5. \A g \in DOMAIN sent' : \A s \in Files :
          GroupOf(s) = g /\ Usable(s) =>
            \E t \in sent'[g] : /\ t.user = s.user /\ t.dt >= s.dt
                                /\ \A r \in sent'[g] : r.user = s.user => r = t
    BY <2>2, <2>3, <2>4
  <2>6. QED
    BY <1>1, <2>5 DEF SentIsLatest, Files, GroupOf, Usable
<1>4. QED
  BY <1>1, <1>2, <1>3

\* JPlag gets one file per user, problem and language, and it is one of the
\* latest usable ones (prepare_jplag_input).
THEOREM SentIsLatestHolds == Spec => []SentIsLatest
<1>1. Init => SentIsLatest
  BY DEF Init, SentIsLatest
<1>2. QED
  BY <1>1, SentStay, TypeCorrect, PTL DEF Spec

-----------------------------------------------------------------------------
(* The merge                                                               *)

\* Before the merge a row counts its own signs and names no partner.
Unmerged ==
    stage # "done" => \A k \in DOMAIN rows :
        /\ rows[k].partner = <<>>
        /\ rows[k].score = One(rows[k].single) + One(rows[k].fast) + One(rows[k].noted)

ScoreInv == Unmerged /\ ScoreExplained

\* The part of ScoreExplained about one row, whatever the state.
Explained(k, row, all) ==
    LET mine == {r \in all : r.problem = k[2] /\ k[1] \in {r.a, r.b}}
    IN  /\ mine = {} <=> row.partner = <<>>
        /\ \A r \in mine : r.similitud <= row.similarity
        /\ mine # {} => \E r \in mine : /\ r.similitud = row.similarity
                                        /\ {r.a, r.b} = {k[1], row.partner[1]}
        /\ row.score = One(row.single) + One(row.fast) + One(row.noted)
                       + One(\E r \in mine : r.similitud >= 700)

\* The merge makes every row explain its score.
LEMMA MergeExplains ==
    ASSUME TypeInv, Unmerged, MergeJplagIntoMain
    PROVE  ScoreExplained'
<1> SUFFICES ASSUME NEW k \in DOMAIN rows
             PROVE  Explained(k, rows'[k], ToSet(pairs))
  <2>1. pairs' = pairs /\ DOMAIN rows' = DOMAIN rows
    BY MergedRow DEF MergeJplagIntoMain
  <2>2. QED
    BY <2>1 DEF ScoreExplained, Explained
<1> DEFINE mine == {r \in ToSet(pairs) : r.problem = k[2] /\ k[1] \in {r.a, r.b}}
<1>1. \A r : r \in mine <=> \E i \in PairsWith(k) : r = pairs[i]
  BY DEF PairsWith, ToSet
<1> HIDE DEF mine
<1>2. /\ rows[k] \in Row /\ rows[k].partner = <<>>
      /\ rows[k].score = One(rows[k].single) + One(rows[k].fast) + One(rows[k].noted)
  BY DEF TypeInv, Unmerged, MergeJplagIntoMain
<1>3. CASE BestPair(k) = 0
  <2>1. mine = {}
    BY <1>1, <1>3, PairsShape, BestPairFinds
  <2>2. rows'[k] = rows[k]
    BY <1>3, MergedRow
  <2> DEFINE more == One(\E r \in mine : r.similitud >= 700)
  <2>3. more = 0
    BY <2>1 DEF One
  <2> DEFINE own == One(rows[k].single) + One(rows[k].fast) + One(rows[k].noted)
  <2>4. own \in Nat
    BY DEF One
  <2> HIDE DEF own, more
  <2>5. own = own + more
    BY <2>3, <2>4
  <2>6. rows'[k].score = One(rows'[k].single) + One(rows'[k].fast) + One(rows'[k].noted)
                         + One(\E r \in mine : r.similitud >= 700)
    BY <1>2, <2>2, <2>5 DEF own, more
  <2>7. QED
    BY <1>2, <2>1, <2>2, <2>6 DEF mine, Explained
<1>4. CASE BestPair(k) # 0
  <2> DEFINE best == pairs[BestPair(k)]
             other == IF k[1] = best.a THEN best.b ELSE best.a
             row == rows'[k]
  <2>1. /\ BestPair(k) \in PairsWith(k)
        /\ \A j \in PairsWith(k) : pairs[j].similitud <= best.similitud
    BY <1>4, PairsShape, BestPairFinds
  <2>2. best \in mine /\ \A r \in mine : r.similitud <= best.similitud
    BY <1>1, <2>1
  <2>3. {best.a, best.b} = {k[1], other}
    BY <2>2 DEF mine
  <2>4. /\ row.similarity = best.similitud /\ row.partner = <<other>>
        /\ row.single = rows[k].single /\ row.fast = rows[k].fast /\ row.noted = rows[k].noted
        /\ row.score = rows[k].score + One(best.similitud >= 700)
    BY <1>4, MergedRow
  <2>5. \A r \in mine : r.similitud \in Nat
    BY <1>1, PairsShape DEF PairsWith
  <2>6. (\E r \in mine : r.similitud >= 700) <=> best.similitud >= 700
    BY <2>2, <2>5
  <2>7. One(\E r \in mine : r.similitud >= 700) = One(best.similitud >= 700)
    BY <2>6 DEF One
  <2>8. <<other>> # <<>> /\ <<other>>[1] = other
    OBVIOUS
  <2> HIDE DEF best, other, row
  <2>9. /\ mine # {} /\ row.partner # <<>>
        /\ \A r \in mine : r.similitud <= row.similarity
        /\ best.similitud = row.similarity /\ {best.a, best.b} = {k[1], row.partner[1]}
    BY <2>2, <2>3, <2>4, <2>8
  <2>10. row.score = One(row.single) + One(row.fast) + One(row.noted)
                     + One(\E r \in mine : r.similitud >= 700)
    BY <1>2, <2>4, <2>7
  <2>11. QED
    BY <2>2, <2>9, <2>10 DEF mine, row, Explained
<1>5. QED
  BY <1>3, <1>4

LEMMA ScoreStay == TypeInv /\ ScoreInv /\ [Next]_vars => ScoreInv'
<1> SUFFICES ASSUME TypeInv, ScoreInv, [Next]_vars PROVE ScoreInv'
  OBVIOUS
<1>1. CASE /\ rows' = rows
           /\ stage = "done" => stage' = "done"
           /\ stage' = "done" => stage = "done" /\ pairs' = pairs
  <2>1. CASE stage' # "done"
    BY <1>1, <2>1 DEF ScoreInv, Unmerged, ScoreExplained
  <2>2. CASE stage' = "done"
    <3>1. stage = "done" /\ pairs' = pairs /\ rows' = rows
      BY <1>1, <2>2
    <3>2. ScoreExplained'
      <4>1. \A k \in DOMAIN rows : Explained(k, rows[k], ToSet(pairs))
        BY <3>1 DEF ScoreInv, ScoreExplained, Explained
      <4>2. \A k \in DOMAIN rows' : Explained(k, rows'[k], ToSet(pairs'))
        BY <3>1, <4>1
      <4>3. QED
        BY <4>2 DEF ScoreExplained, Explained
    <3>3. QED
      BY <2>2, <3>2 DEF ScoreInv, Unmerged
  <2>3. QED
    BY <2>1, <2>2
<1>2. CASE AnalyzeTimingStyle
  <2>1. DOMAIN rows' = Solved /\ stage' = "prepare"
    BY <1>2 DEF AnalyzeTimingStyle
  <2>2. QED
    BY <1>2, <2>1, TimingRow DEF ScoreInv, Unmerged, ScoreExplained
<1>3. CASE MergeJplagIntoMain
  <2>1. stage' = "done"
    BY <1>3 DEF MergeJplagIntoMain
  <2>2. QED
    BY <1>3, <2>1, MergeExplains DEF ScoreInv, Unmerged
<1>4. QED
  BY <1>1, <1>2, <1>3, RowsStep

\* A row of a finished report shows the largest similarity of its user in any
\* language, with a partner that reaches it, and its score counts exactly the
\* signs it shows (merge_jplag_into_main).
THEOREM ScoreExplainedHolds == Spec => []ScoreExplained
<1>1. Init => ScoreInv
  BY DEF Init, ScoreInv, Unmerged, ScoreExplained
<1>2. QED
  BY <1>1, ScoreStay, TypeCorrect, PTL DEF Spec, ScoreInv

=============================================================================
