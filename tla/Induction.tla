----------------------------- MODULE Induction ------------------------------
(***************************************************************************)
(* Induction and recursion on a measure, in a form first-order provers can *)
(* use: what is proved by induction is membership in a set, and the step   *)
(* of a recursion is a function.                                           *)
(***************************************************************************)
EXTENDS Integers, TLAPS, WellFoundedInduction

\* A set with 0 and the successor of each of its numbers holds every number.
LEMMA SetInduction ==
  ASSUME NEW S, 0 \in S, \A n \in Nat : n \in S => n + 1 \in S
  PROVE  Nat \subseteq S
<1> SUFFICES ASSUME Nat \ S # {} PROVE FALSE
  OBVIOUS
<1>1. IsWellFoundedOn(OpToRel(<, Nat), Nat)
  BY NatLessThanWellFounded
<1> DEFINE T == Nat \ S
<1>2. T \subseteq Nat /\ T # {}
  OBVIOUS
<1>3. \E x \in T : \A y \in T : ~ (<<y, x>> \in OpToRel(<, Nat))
  <2> HIDE DEF T
  <2> QED BY <1>1, <1>2, WFMin
<1>4. PICK x \in T : \A y \in T : ~ (<<y, x>> \in OpToRel(<, Nat))
  BY <1>3
<1>5. x \in Nat /\ x # 0
  OBVIOUS
<1>6. x - 1 \in Nat /\ x - 1 < x
  BY <1>5
<1>7. <<x-1, x>> \in OpToRel(<, Nat)
  BY <1>5, <1>6 DEF OpToRel
<1>8. x - 1 \in S
  BY <1>4, <1>6, <1>7
<1>9. x - 1 + 1 \in S
  BY <1>6, <1>8
<1> QED BY <1>5, <1>9

\* A set that holds an element of D whenever it holds all those of smaller
\* measure holds all of D.
LEMMA MeasureInduction ==
  ASSUME NEW D, NEW S, NEW mu \in [D -> Nat],
         \A x \in D : (\A y \in D : mu[y] < mu[x] => y \in S) => x \in S
  PROVE  D \subseteq S
<1> DEFINE L == {n \in Nat : \A y \in D : mu[y] < n => y \in S}
<1>1. 0 \in L
  OBVIOUS
<1>2. ASSUME NEW n \in Nat, n \in L PROVE n + 1 \in L
  <2> SUFFICES ASSUME NEW y \in D, mu[y] < n + 1 PROVE y \in S
    OBVIOUS
  <2>1. \A z \in D : mu[z] < mu[y] => mu[z] < n
    OBVIOUS
  <2> QED BY <1>2, <2>1
<1>3. Nat \subseteq L
  <2> HIDE DEF L
  <2> QED BY <1>1, <1>2, SetInduction
<1> SUFFICES ASSUME NEW x \in D PROVE x \in S
  OBVIOUS
<1>4. mu[x] + 1 \in L /\ mu[x] < mu[x] + 1
  BY <1>3
<1> QED BY <1>4

\* The functions that obey the recursion on the elements of measure below n.
Approximation(D, A, mu, Basis, b, p, g, n) ==
  {f \in [{x \in D : mu[x] < n} -> A] :
     \A x \in D : mu[x] < n =>
       f[x] = IF x \in Basis THEN b[x] ELSE g[<<f[p[x]], x>>]}

\* Approximations agree where both are defined.
LEMMA ApproximationUnique ==
  ASSUME NEW D, NEW A, NEW mu \in [D -> Nat],
         NEW Basis \in SUBSET D, NEW b \in [Basis -> A],
         NEW p, \A x \in D \ Basis : p[x] \in D /\ mu[p[x]] < mu[x],
         NEW g \in [A \X D -> A]
  PROVE  \A m, n \in Nat :
           \A f \in Approximation(D, A, mu, Basis, b, p, g, m),
              h \in Approximation(D, A, mu, Basis, b, p, g, n) :
             \A x \in D : mu[x] < m /\ mu[x] < n => f[x] = h[x]
<1> SUFFICES ASSUME NEW m \in Nat, NEW n \in Nat,
                    NEW f \in Approximation(D, A, mu, Basis, b, p, g, m),
                    NEW h \in Approximation(D, A, mu, Basis, b, p, g, n),
                    NEW x \in D, mu[x] < m, mu[x] < n
             PROVE  f[x] = h[x]
  OBVIOUS
<1> DEFINE S == {y \in D : mu[y] < m /\ mu[y] < n => f[y] = h[y]}
<1>1. ASSUME NEW y \in D, \A z \in D : mu[z] < mu[y] => z \in S PROVE y \in S
  <2> SUFFICES ASSUME mu[y] < m, mu[y] < n PROVE f[y] = h[y]
    OBVIOUS
  <2>1. CASE y \in Basis
    BY <2>1 DEF Approximation
  <2>2. CASE y \notin Basis
    <3>1. p[y] \in D /\ mu[p[y]] < mu[y]
      BY <2>2
    <3>2. mu[p[y]] < m /\ mu[p[y]] < n
      BY <3>1
    <3>3. f[p[y]] = h[p[y]]
      BY <1>1, <3>1, <3>2
    <3> QED BY <2>2, <3>3 DEF Approximation
  <2> QED BY <2>1, <2>2
<1>2. D \subseteq S
  <2> HIDE DEF S
  <2> QED BY <1>1, MeasureInduction
<1> QED BY <1>2

LEMMA ApproximationExists ==
  ASSUME NEW D, NEW A, NEW mu \in [D -> Nat],
         NEW Basis \in SUBSET D, NEW b \in [Basis -> A],
         NEW p, \A x \in D \ Basis : p[x] \in D /\ mu[p[x]] < mu[x],
         NEW g \in [A \X D -> A]
  PROVE  \A n \in Nat : Approximation(D, A, mu, Basis, b, p, g, n) # {}
<1> DEFINE Ap(n) == Approximation(D, A, mu, Basis, b, p, g, n)
           S == {n \in Nat : Ap(n) # {}}
<1>1. 0 \in S
  <2> DEFINE f == [x \in {y \in D : mu[y] < 0} |-> b[x]]
  <2>1. f \in Ap(0)
    BY DEF Approximation
  <2> QED BY <2>1
<1>2. ASSUME NEW n \in Nat, n \in S PROVE n + 1 \in S
  <2>1. PICK f : f \in Ap(n)
    BY <1>2
  <2> DEFINE E == {x \in D : mu[x] < n + 1}
             h == [x \in E |-> IF x \in Basis THEN b[x] ELSE g[<<f[p[x]], x>>]]
  <2>2. ASSUME NEW x \in E, x \notin Basis
        PROVE  p[x] \in D /\ mu[p[x]] < n /\ f[p[x]] \in A
    <3>1. p[x] \in D /\ mu[p[x]] < n
      BY <2>2
    <3> QED BY <2>1, <3>1 DEF Approximation
  <2>3. h \in [E -> A]
    BY <2>2
  <2>4. ASSUME NEW x \in D, mu[x] < n PROVE h[x] = f[x]
    BY <2>1, <2>4 DEF Approximation
  <2>5. ASSUME NEW x \in E, x \notin Basis PROVE h[x] = g[<<h[p[x]], x>>]
    BY <2>2, <2>4, <2>5
  <2>6. h \in Ap(n + 1)
    <3> HIDE DEF h
    <3>1. \A x \in E : x \in Basis => h[x] = b[x]
      BY DEF h
    <3> QED BY <2>3, <2>5, <3>1 DEF Approximation
  <2> QED BY <2>6
<1>3. Nat \subseteq S
  <2> HIDE DEF S
  <2> QED BY <1>1, <1>2, SetInduction
<1> QED BY <1>3

\* A recursion on D: b is its value on the basis; everywhere else it calls
\* itself, through g, at an argument of smaller measure.
IsRecursion(D, A, mu, Basis, b, p, g) ==
  /\ mu \in [D -> Nat]
  /\ Basis \in SUBSET D
  /\ b \in [Basis -> A]
  /\ \A x \in D \ Basis : p[x] \in D /\ mu[p[x]] < mu[x]
  /\ g \in [A \X D -> A]

Recursive(f, D, A, Basis, b, p, g) ==
  /\ f \in [D -> A]
  /\ f = [x \in D |-> IF x \in Basis THEN b[x] ELSE g[<<f[p[x]], x>>]]

\* A recursion has a function that obeys it.
LEMMA Recursion ==
  ASSUME NEW D, NEW A, NEW mu, NEW Basis, NEW b, NEW p, NEW g,
         IsRecursion(D, A, mu, Basis, b, p, g)
  PROVE  \E f : Recursive(f, D, A, Basis, b, p, g)
<1> USE DEF IsRecursion
<1> DEFINE Ap(n) == Approximation(D, A, mu, Basis, b, p, g, n)
           a == [n \in Nat |-> CHOOSE f : f \in Ap(n)]
           f == [x \in D |-> a[mu[x] + 1][x]]
<1>1. ASSUME NEW n \in Nat PROVE a[n] \in Ap(n)
  <2>1. Ap(n) # {}
    BY ApproximationExists
  <2> HIDE DEF Ap
  <2> QED BY <2>1
<1>2. ASSUME NEW x \in D, NEW n \in Nat, mu[x] < n PROVE f[x] = a[n][x]
  <2>1. mu[x] + 1 \in Nat /\ mu[x] < mu[x] + 1
    OBVIOUS
  <2>2. a[mu[x] + 1] \in Ap(mu[x] + 1) /\ a[n] \in Ap(n)
    BY <1>1, <2>1
  <2>3. a[mu[x] + 1][x] = a[n][x]
    <3>1. \A k, l \in Nat : \A e \in Ap(k), h \in Ap(l) :
             \A y \in D : mu[y] < k /\ mu[y] < l => e[y] = h[y]
      BY ApproximationUnique
    <3> HIDE DEF Ap, a
    <3> QED BY <1>2, <2>1, <2>2, <3>1
  <2> QED BY <2>3
<1>3. ASSUME NEW x \in D
      PROVE  /\ f[x] \in A
             /\ f[x] = IF x \in Basis THEN b[x] ELSE g[<<f[p[x]], x>>]
  <2>1. mu[x] + 1 \in Nat /\ mu[x] < mu[x] + 1
    OBVIOUS
  <2>2. f[x] = a[mu[x] + 1][x] /\ a[mu[x] + 1] \in Ap(mu[x] + 1)
    BY <1>1, <2>1
  <2>3. x \notin Basis => f[p[x]] = a[mu[x] + 1][p[x]]
    <3> HIDE DEF f, a
    <3> QED BY <1>2, <2>1
  <2> HIDE DEF f, a
  <2> QED BY <2>1, <2>2, <2>3 DEF Approximation
<1>4. f \in [D -> A]
  BY <1>3
<1>5. f = [x \in D |-> IF x \in Basis THEN b[x] ELSE g[<<f[p[x]], x>>]]
  <2>1. f = [x \in D |-> f[x]]
    OBVIOUS
  <2> HIDE DEF f
  <2> QED BY <1>3, <2>1
<1> HIDE DEF f
<1> QED BY <1>4, <1>5 DEF Recursive

=============================================================================
