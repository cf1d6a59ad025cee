---------------------------- MODULE InductionLemmas ----------------------------
(***************************************************************************)
(* Induction over data for the proofs of the other modules.  The induction *)
(* theorems of the library take an operator as their parameter; here the   *)
(* statement to prove is a set of numbers, and a step is a function.       *)
(***************************************************************************)
EXTENDS Integers, FiniteSetsExt, WellFoundedInduction, TLAPS

(* A set of numbers that is not empty has a least one.                     *)
LEMMA LeastNumber ==
    ASSUME NEW T \in SUBSET Nat, T # {}
    PROVE  \E x \in T : \A y \in T : x <= y
<1> DEFINE R == {mn \in Nat \X Nat : mn[1] < mn[2]}
<1>1. IsWellFoundedOn(R, Nat)
  BY NatLessThanWellFounded DEF OpToRel
<1>2. PICK x \in T : \A y \in T : ~(<<y, x>> \in R)
  BY <1>1, WFMin, Zenon
<1>3. \A m, n \in Nat : <<m, n>> \in R <=> m < n
  OBVIOUS
<1> HIDE DEF R
<1>4. ASSUME NEW y \in T PROVE x <= y
  <2>1. x \in Nat /\ y \in Nat
    OBVIOUS
  <2>2. ~(y < x)
    BY <1>2, <1>3, <2>1, Zenon
  <2> QED BY <2>1, <2>2
<1> QED BY <1>4

(* The least number of a set of numbers.                                   *)
LEMMA MinIsLeast ==
    ASSUME NEW T \in SUBSET Nat, T # {}
    PROVE  Min(T) \in T /\ \A x \in T : Min(T) <= x
BY LeastNumber DEF Min

(* Induction: a set with 0 and with the successors of its members is Nat.  *)
LEMMA SetInduction ==
    ASSUME NEW T \in SUBSET Nat, 0 \in T, \A n \in T : n + 1 \in T
    PROVE  T = Nat
<1> SUFFICES ASSUME NEW m \in Nat, m \notin T PROVE FALSE
  OBVIOUS
<1>1. PICK x \in Nat \ T : \A y \in Nat \ T : x <= y
  BY LeastNumber
<1>2. x # 0 /\ x - 1 \in Nat
  BY <1>1
<1>3. x - 1 \in T
  BY <1>1, <1>2
<1> QED BY <1>1, <1>2, <1>3

(* The runs of a loop from state s0: step[n] is its n-th iteration.        *)
Runs(S, s0, step) ==
    {f \in [Nat -> S] : f[0] = s0 /\ \A n \in Nat : f[n + 1] = step[n + 1][f[n]]}

(* Every loop has one.                                                     *)
LEMMA Iteration ==
    ASSUME NEW S, NEW s0 \in S, NEW step \in [Nat -> [S -> S]]
    PROVE  Runs(S, s0, step) # {}
<1> DEFINE Follows(n, g) == /\ g[0] = s0
                            /\ \A i \in Nat : i < n => g[i + 1] = step[i + 1][g[i]]
<1> DEFINE Reached == {n \in Nat : \E g \in [Nat -> S] : Follows(n, g)}
<1>1. 0 \in Reached
  <2>1. [i \in Nat |-> s0] \in [Nat -> S] /\ Follows(0, [i \in Nat |-> s0])
    OBVIOUS
  <2> QED BY <2>1
<1>2. ASSUME NEW n \in Reached PROVE n + 1 \in Reached
  <2>1. PICK g \in [Nat -> S] : Follows(n, g)
    OBVIOUS
  <2> DEFINE h == [i \in Nat |-> IF i = n + 1 THEN step[n + 1][g[n]] ELSE g[i]]
  <2>2. h \in [Nat -> S]
    OBVIOUS
  <2>3. Follows(n + 1, h)
    <3>1. h[0] = s0
      BY <2>1
    <3>2. ASSUME NEW i \in Nat, i < n + 1 PROVE h[i + 1] = step[i + 1][h[i]]
      <4>1. h[i] = g[i]
        BY <3>2
      <4>2. CASE i = n
        BY <4>1, <4>2
      <4>3. CASE i < n
        BY <4>1, <4>3, <2>1
      <4> QED BY <3>2, <4>2, <4>3
    <3> QED BY <3>1, <3>2
  <2> HIDE DEF h, Follows
  <2> QED BY <2>2, <2>3
<1>3. Reached = Nat
  <2> HIDE DEF Reached
  <2>1. Reached \in SUBSET Nat
    BY DEF Reached
  <2> QED BY <1>1, <1>2, <2>1, SetInduction
<1>4. ASSUME NEW n \in Nat, NEW g \in [Nat -> S], NEW h \in [Nat -> S],
             Follows(n, g), Follows(n, h)
      PROVE  g[n] = h[n]
  <2> DEFINE Same == {i \in Nat : i <= n => g[i] = h[i]}
  <2>1. 0 \in Same
    BY <1>4
  <2>2. ASSUME NEW i \in Same PROVE i + 1 \in Same
    BY <1>4
  <2>3. Same = Nat
    BY <2>1, <2>2, SetInduction
  <2> QED BY <2>3
<1> DEFINE a == [n \in Nat |-> CHOOSE g \in [Nat -> S] : Follows(n, g)]
<1>5. ASSUME NEW n \in Nat PROVE a[n] \in [Nat -> S] /\ Follows(n, a[n])
  <2> HIDE DEF Follows
  <2>1. \E g \in [Nat -> S] : Follows(n, g)
    BY <1>3
  <2> QED BY <2>1
<1> DEFINE f == [n \in Nat |-> a[n][n]]
<1> HIDE DEF a, Reached
<1>6. f \in [Nat -> S]
  <2> HIDE DEF Follows
  <2> QED BY <1>5
<1>7. f[0] = s0
  BY <1>5
<1>8. ASSUME NEW n \in Nat PROVE f[n + 1] = step[n + 1][f[n]]
  <2>1. /\ a[n + 1] \in [Nat -> S] /\ a[n] \in [Nat -> S] 
        /\ Follows(n + 1, a[n + 1]) /\ Follows(n, a[n])
    BY <1>5, n + 1 \in Nat
  <2>2. Follows(n, a[n + 1])
    BY <2>1
  <2>3. a[n + 1][n] = a[n][n]
    <3> HIDE DEF Follows
    <3> QED BY <2>1, <2>2, <1>4
  <2>4. a[n + 1][n + 1] = step[n + 1][a[n + 1][n]]
    BY <2>1
  <2> QED BY <2>3, <2>4
<1> HIDE DEF f
<1> QED BY <1>6, <1>7, <1>8 DEF Runs

(* A definition F of functions from O to S looks at f only below the depth *)
(* of x to define f[x].                                                    *)
LooksBelow(F, O, S, depth) ==
    /\ depth \in [O -> Nat]
    /\ F \in [[O -> S] -> [O -> S]]
    /\ \A f, g \in [O -> S] : \A x \in O :
        (\A y \in O : depth[y] < depth[x] => f[y] = g[y]) => F[f][x] = F[g][x]

Solutions(F, O, S) == {f \in [O -> S] : f = F[f]}

(* Recursion: such a definition has a solution.                            *)
LEMMA DepthRecursion ==
    ASSUME NEW O, NEW S, NEW s0 \in S, NEW depth, NEW F, LooksBelow(F, O, S, depth)
    PROVE  Solutions(F, O, S) # {}
<1> USE DEF LooksBelow
<1> DEFINE G == [O -> S]
           g0 == [x \in O |-> s0]
           step == [n \in Nat |-> F]
<1>1. PICK r \in Runs(G, g0, step) : TRUE
  <2>1. g0 \in G /\ step \in [Nat -> [G -> G]]
    OBVIOUS
  <2> HIDE DEF G, g0, step
  <2>2. Runs(G, g0, step) # {}
    BY <2>1, Iteration, Zenon
  <2> QED BY <2>2
<1>2. /\ \A n \in Nat : r[n] \in [O -> S]
      /\ \A n \in Nat : r[n + 1] = F[r[n]]
  BY <1>1 DEF Runs
<1> HIDE DEF G, g0, step
<1> DEFINE Stable == {n \in Nat : \A x \in O : depth[x] < n => r[n][x] = r[n + 1][x]}
<1>3. Stable = Nat
  <2>1. 0 \in Stable
    OBVIOUS
  <2>2. ASSUME NEW n \in Stable PROVE n + 1 \in Stable
    <3> SUFFICES ASSUME NEW x \in O, depth[x] < n + 1 PROVE r[n + 1][x] = r[(n + 1) + 1][x]
      OBVIOUS
    <3>1. \A y \in O : depth[y] < depth[x] => r[n][y] = r[n + 1][y]
      OBVIOUS
    <3>2. F[r[n]][x] = F[r[n + 1]][x]
      BY <3>1, <1>2, n + 1 \in Nat
    <3> QED BY <3>2, <1>2, n + 1 \in Nat
  <2>3. Stable \in SUBSET Nat
    OBVIOUS
  <2> HIDE DEF Stable
  <2> QED BY <2>1, <2>2, <2>3, SetInduction
<1> DEFINE f == [x \in O |-> r[depth[x] + 1][x]]
           Limit == {n \in Nat : \A x \in O : depth[x] < n => r[n][x] = f[x]}
<1>4. Limit = Nat
  <2>1. 0 \in Limit
    OBVIOUS
  <2>2. ASSUME NEW n \in Limit PROVE n + 1 \in Limit
    <3> SUFFICES ASSUME NEW x \in O, depth[x] < n + 1 PROVE r[n + 1][x] = f[x]
      OBVIOUS
    <3>1. CASE depth[x] = n
      BY <3>1
    <3>2. CASE depth[x] < n
      <4>1. n \in Stable
        BY <1>3
      <4> QED BY <3>2, <4>1
    <3> QED BY <3>1, <3>2
  <2>3. Limit \in SUBSET Nat
    OBVIOUS
  <2> HIDE DEF Limit
  <2> QED BY <2>1, <2>2, <2>3, SetInduction
<1>5. f \in [O -> S]
  <2> SUFFICES ASSUME NEW x \in O PROVE r[depth[x] + 1][x] \in S
    OBVIOUS
  <2> QED BY <1>2, depth[x] + 1 \in Nat
<1>6. ASSUME NEW x \in O PROVE f[x] = F[f][x]
  <2>1. \A y \in O : depth[y] < depth[x] => r[depth[x]][y] = f[y]
    BY <1>4, depth[x] \in Nat
  <2>2. f[x] = F[r[depth[x]]][x]
    BY <1>2, depth[x] \in Nat
  <2>3. F[r[depth[x]]][x] = F[f][x]
    <3> HIDE DEF f
    <3> QED BY <2>1, <1>2, <1>5, depth[x] \in Nat
  <2> QED BY <2>2, <2>3
<1>7. F[f] \in [O -> S]
  <2> HIDE DEF f
  <2> QED BY <1>5
<1> HIDE DEF f
<1>8. f = F[f]
  BY <1>5, <1>6, <1>7
<1> QED BY <1>5, <1>8 DEF Solutions
===============================================================================
