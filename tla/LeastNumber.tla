---------------------------- MODULE LeastNumber ----------------------------
(***************************************************************************)
(* Induction over the natural numbers, as facts about sets of numbers, and  *)
(* what follows for recursive functions and for loops that search; division. *)
(***************************************************************************)
EXTENDS Integers, WellFoundedInduction, TLAPS

\* A set of natural numbers that has an element has a least one.
LEMMA LeastElement ==
    ASSUME NEW T \in SUBSET Nat, T # {}
    PROVE  \E x \in T : \A y \in T : x =< y
  <1>1. PICK x \in T : \A y \in T : ~ (<<y, x>> \in OpToRel(<, Nat))
    BY NatLessThanWellFounded, WFMin
  <1>2. ASSUME NEW y \in T PROVE x =< y
    <2>1. <<y, x>> \in Nat \X Nat /\ x \in Nat /\ y \in Nat
      OBVIOUS
    <2>2. y < x => <<y, x>> \in OpToRel(<, Nat)
      BY <2>1 DEF OpToRel
    <2>3. ~(y < x)
      BY <1>1, <2>2, Zenon
    <2> QED
      BY <2>1, <2>3
  <1> QED
    BY <1>2

\* A set that holds 0 and, with every number, the next one, holds them all.
LEMMA SetInduction ==
    ASSUME NEW S, 0 \in S, \A n \in Nat : n \in S => n + 1 \in S
    PROVE  Nat \subseteq S
  <1> SUFFICES ASSUME Nat \ S # {} PROVE FALSE
    OBVIOUS
  <1>1. PICK x \in Nat \ S : \A y \in Nat \ S : x =< y
    BY LeastElement
  <1>2. x - 1 \in Nat /\ x - 1 + 1 = x
    OBVIOUS
  <1>3. x - 1 \in S
    BY <1>1, <1>2
  <1> QED
    BY <1>1, <1>2, <1>3

-----------------------------------------------------------------------------
(* Functions defined by recursion over the natural numbers. *)

\* f follows the recursion from a with step G for n steps.
Follows(f, S, a, G, n) ==
    /\ f \in [0 .. n -> S] /\ f[0] = a
    /\ \A k \in 0 .. n - 1 : f[k + 1] = G[<<k, f[k]>>]

\* It can be followed for any number of steps ...
LEMMA FollowsExists ==
    ASSUME NEW S, NEW a \in S, NEW G \in [Nat \X S -> S]
    PROVE  \A n \in Nat : \E f : Follows(f, S, a, G, n)
  <1> DEFINE T == {n \in Nat : \E f : Follows(f, S, a, G, n)}
  <1>1. 0 \in T
    <2> DEFINE f == [k \in 0 .. 0 |-> a]
    <2>1. f \in [0 .. 0 -> S] /\ f[0] = a /\ 0 .. 0 - 1 = {}
      OBVIOUS
    <2>2. Follows(f, S, a, G, 0)
      BY <2>1 DEF Follows
    <2> HIDE DEF f
    <2> QED  BY <2>2
  <1>2. ASSUME NEW n \in Nat, n \in T
        PROVE  n + 1 \in T
    <2>1. PICK f : Follows(f, S, a, G, n)
      BY <1>2
    <2> DEFINE v == G[<<n, f[n]>>]
               g == [k \in 0 .. n + 1 |-> IF k = n + 1 THEN v ELSE f[k]]
    <2>2. f \in [0 .. n -> S] /\ f[0] = a
      BY <2>1 DEF Follows
    <2>3. v \in S
      BY <2>2
    <2> HIDE DEF v
    <2>4. g \in [0 .. n + 1 -> S] /\ g[0] = a
      BY <2>2, <2>3
    <2>5. \A k \in 0 .. n : g[k] = f[k]
      OBVIOUS
    <2>6. g[n + 1] = v
      OBVIOUS
    <2> HIDE DEF g
    <2>7. ASSUME NEW k \in 0 .. n + 1 - 1
          PROVE  g[k + 1] = G[<<k, g[k]>>]
      <3>1. CASE k = n
        BY <3>1, <2>5, <2>6 DEF v
      <3>2. CASE k # n
        <4>1. k \in 0 .. n - 1 /\ k + 1 \in 0 .. n /\ k \in 0 .. n
          BY <3>2
        <4>2. f[k + 1] = G[<<k, f[k]>>]
          BY <4>1, <2>1 DEF Follows
        <4> QED  BY <4>1, <4>2, <2>5
      <3> QED  BY <3>1, <3>2
    <2>8. Follows(g, S, a, G, n + 1)
      BY <2>4, <2>7 DEF Follows
    <2> QED  BY <2>8
  <1> HIDE DEF T
  <1>3. Nat \subseteq T
    BY <1>1, <1>2, SetInduction
  <1> QED
    BY <1>3 DEF T

\* ... in one way only.
LEMMA FollowsUnique ==
    ASSUME NEW S, NEW a, NEW G, NEW n \in Nat, NEW m \in Nat, n =< m, NEW f, NEW g,
           Follows(f, S, a, G, n), Follows(g, S, a, G, m)
    PROVE  \A k \in 0 .. n : f[k] = g[k]
  <1> DEFINE T == {k \in Nat : k =< n => f[k] = g[k]}
  <1>1. 0 \in T
    BY DEF Follows
  <1>2. ASSUME NEW k \in Nat, k \in T
        PROVE  k + 1 \in T
    <2>1. CASE k + 1 =< n
      <3>1. k \in 0 .. n - 1 /\ k \in 0 .. m - 1
        BY <2>1
      <3>2. f[k + 1] = G[<<k, f[k]>>] /\ g[k + 1] = G[<<k, g[k]>>]
        BY <3>1 DEF Follows
      <3>3. f[k] = g[k]
        BY <1>2, <2>1
      <3> QED  BY <3>2, <3>3
    <2>2. CASE ~(k + 1 =< n)
      BY <2>2
    <2> QED  BY <2>1, <2>2
  <1> HIDE DEF T
  <1>3. Nat \subseteq T
    BY <1>1, <1>2, SetInduction
  <1> QED
    BY <1>3 DEF T

\* h satisfies the recursion from a with step G.
Recurses(h, S, a, G) ==
    h \in [Nat -> S] /\ h[0] = a /\ \A n \in Nat : h[n + 1] = G[<<n, h[n]>>]

\* A recursion over the natural numbers has a function that satisfies it.
LEMMA Recursion ==
    ASSUME NEW S, NEW a \in S, NEW G \in [Nat \X S -> S]
    PROVE  \E h : Recurses(h, S, a, G)
  <1> DEFINE at(n) == CHOOSE f : Follows(f, S, a, G, n)
             h == [n \in Nat |-> at(n)[n]]
  <1>1. \A n \in Nat : Follows(at(n), S, a, G, n)
    BY FollowsExists, Zenon
  <1> HIDE DEF at
  <1>2. h \in [Nat -> S]
    <2>1. ASSUME NEW n \in Nat PROVE at(n)[n] \in S
      BY <1>1 DEF Follows
    <2> QED  BY <2>1
  <1>3. h[0] = a
    BY <1>1 DEF Follows
  <1>4. ASSUME NEW n \in Nat
        PROVE  h[n + 1] = G[<<n, h[n]>>]
    <2>1. Follows(at(n + 1), S, a, G, n + 1) /\ Follows(at(n), S, a, G, n)
      BY <1>1
    <2>2. n \in 0 .. n + 1 - 1 /\ n \in 0 .. n /\ n =< n + 1 /\ n + 1 \in Nat
      OBVIOUS
    <2>3. at(n + 1)[n + 1] = G[<<n, at(n + 1)[n]>>]
      BY <2>1, <2>2 DEF Follows
    <2>4. at(n)[n] = at(n + 1)[n]
      BY <2>1, <2>2, FollowsUnique
    <2> QED  BY <2>2, <2>3, <2>4
  <1> HIDE DEF h
  <1> QED
    BY <1>2, <1>3, <1>4 DEF Recurses

-----------------------------------------------------------------------------
(* Loops that stop at the first number of a set. *)

\* f[k] is v at the first element of D from k on.
Searches(f, dom, D, v) == f = [k \in dom |-> IF k \in D THEN v[k] ELSE f[k + 1]]

\* Such a function exists if the search never leaves its domain.
LEMMA SearchExists ==
    ASSUME NEW dom, dom \subseteq Nat, NEW D, \A k \in dom : k \notin D => k + 1 \in dom, NEW v
    PROVE  \E f : Searches(f, dom, D, v)
  <1> DEFINE R(k) == {j \in Nat : j \in D /\ j >= k /\ \A n \in Nat : k <= n /\ n < j => n \notin D}
             f == [k \in dom |-> IF R(k) = {} THEN 0 ELSE v[CHOOSE j : j \in R(k)]]
  <1>1. ASSUME NEW k \in dom, k \in D
        PROVE  R(k) = {k}
    <2>1. k \in Nat
      OBVIOUS
    <2>2. k \in R(k)
      BY <1>1, <2>1
    <2>3. ASSUME NEW j \in R(k) PROVE j = k
      BY <1>1, <2>1
    <2> QED  BY <2>2, <2>3
  <1>2. ASSUME NEW k \in dom, k \notin D
        PROVE  R(k) = R(k + 1)
    <2>1. k \in Nat
      OBVIOUS
    <2>2. ASSUME NEW j \in R(k) PROVE j \in R(k + 1)
      <3>1. j # k
        BY <1>2
      <3> QED  BY <2>1, <3>1
    <2>3. ASSUME NEW j \in R(k + 1) PROVE j \in R(k)
      <3>1. \A n \in Nat : k <= n /\ n < j => n = k \/ k + 1 <= n
        BY <2>1
      <3> QED  BY <1>2, <2>1, <3>1
    <2> QED  BY <2>2, <2>3
  <1> HIDE DEF R
  <1>3. ASSUME NEW k \in dom
        PROVE  f[k] = IF k \in D THEN v[k] ELSE f[k + 1]
    <2>1. CASE k \in D
      <3>1. R(k) = {k} /\ R(k) # {}
        BY <1>1, <2>1
      <3>2. (CHOOSE j : j \in R(k)) = k
        BY <3>1
      <3> QED  BY <2>1, <3>1, <3>2
    <2>2. CASE k \notin D
      <3>1. k + 1 \in dom /\ R(k) = R(k + 1)
        BY <1>2, <2>2
      <3> QED  BY <2>2, <3>1
    <2> QED  BY <2>1, <2>2
  <1>4. f = [k \in dom |-> f[k]]
    OBVIOUS
  <1> HIDE DEF f
  <1>5. Searches(f, dom, D, v)
    BY <1>3, <1>4 DEF Searches
  <1> QED
    BY <1>5

\* What any such function finds.
LEMMA SearchFinds ==
    ASSUME NEW dom, NEW D, NEW v, NEW f, Searches(f, dom, D, v),
           NEW k \in Nat, NEW j \in Nat, j >= k, j \in D,
           \A n \in k .. j : n \in dom, \A n \in k .. j - 1 : n \notin D
    PROVE  f[k] = v[j]
  <1> DEFINE T == {m \in Nat : m <= j - k => f[j - m] = v[j]}
  <1>1. \A n \in dom : f[n] = IF n \in D THEN v[n] ELSE f[n + 1]
    BY DEF Searches
  <1>2. 0 \in T
    <2>1. j \in dom /\ j - 0 = j
      OBVIOUS
    <2> QED  BY <1>1, <2>1
  <1>3. ASSUME NEW m \in Nat, m \in T
        PROVE  m + 1 \in T
    <2>1. CASE m + 1 <= j - k
      <3>1. PICK n \in Nat : n = j - (m + 1) /\ n + 1 = j - m /\ n \in k .. j - 1 /\ n \in k .. j
        BY <2>1
      <3>2. f[n] = f[n + 1]
        BY <1>1, <3>1
      <3>3. f[j - m] = v[j]
        BY <1>3, <2>1
      <3> QED  BY <3>1, <3>2, <3>3
    <2>2. CASE ~(m + 1 <= j - k)
      BY <2>2
    <2> QED  BY <2>1, <2>2
  <1> HIDE DEF T
  <1>4. Nat \subseteq T
    BY <1>2, <1>3, SetInduction
  <1>5. j - k \in T /\ j - (j - k) = k /\ j - k <= j - k
    BY <1>4
  <1> QED
    BY <1>5 DEF T

\* The first element of a set of numbers from k on.
LEMMA FirstFrom ==
    ASSUME NEW D, NEW k \in Nat, NEW e \in Nat, e >= k, e \in D
    PROVE  \E j \in k .. e : j \in D /\ \A n \in k .. j - 1 : n \notin D
  <1> DEFINE S == {n \in k .. e : n \in D}
  <1>1. S \subseteq Nat /\ e \in S
    OBVIOUS
  <1>2. PICK j \in S : \A n \in S : j =< n
    BY <1>1, LeastElement
  <1>3. j \in k .. e /\ j \in D
    OBVIOUS
  <1>4. ASSUME NEW n \in k .. j - 1, n \in D
        PROVE  FALSE
    <2>1. n \in S /\ n < j
      BY <1>3, <1>4
    <2> QED  BY <1>2, <1>3, <2>1
  <1> QED
    BY <1>3, <1>4

\* A search from k that has e in D before it ends where D begins.
LEMMA SearchEnds ==
    ASSUME NEW dom, NEW D, NEW v, NEW f, Searches(f, dom, D, v),
           NEW k \in Nat, NEW e \in Nat, e >= k, e \in D, \A n \in k .. e : n \in dom
    PROVE  \E j \in k .. e : j \in D /\ (\A n \in k .. j - 1 : n \notin D) /\ f[k] = v[j]
  <1>1. PICK j \in k .. e : j \in D /\ \A n \in k .. j - 1 : n \notin D
    BY FirstFrom
  <1>2. j \in Nat /\ j >= k /\ \A n \in k .. j : n \in dom
    OBVIOUS
  <1>3. f[k] = v[j]
    BY <1>1, <1>2, SearchFinds
  <1> QED
    BY <1>1, <1>3

\* Division is determined by its quotient and remainder.
LEMMA Quotient ==
    ASSUME NEW d \in Nat \ {0}, NEW q \in Nat, NEW r \in 0 .. d - 1
    PROVE  (d * q + r) \div d = q
  <1>1. PICK n \in Nat : n = d * q + r
    OBVIOUS
  <1>2. PICK k \in Int : k = n \div d
    OBVIOUS
  <1>3. d * k <= n /\ n < d * k + d
    BY <1>2
  <1>4. ~(k <= q - 1)
    <2> SUFFICES ASSUME k <= q - 1 PROVE FALSE
      OBVIOUS
    <2>1. PICK j \in Nat : q = k + 1 + j
      <3>1. q - k - 1 \in Nat /\ q = k + 1 + (q - k - 1)
        OBVIOUS
      <3> QED  BY <3>1
    <2>2. d * q = d * k + d + d * j
      BY <2>1
    <2>3. d * j \in Nat
      BY <2>1
    <2>4. \A a \in Int, b \in Int, c \in Nat : a = b + d + c /\ a + r < b + d => FALSE
      OBVIOUS
    <2>5. d * q \in Int /\ d * k \in Int /\ d * q + r < d * k + d
      BY <1>1, <1>3
    <2> QED  BY <2>2, <2>3, <2>4, <2>5
  <1>5. ~(k >= q + 1)
    <2> SUFFICES ASSUME k >= q + 1 PROVE FALSE
      OBVIOUS
    <2>1. PICK j \in Nat : k = q + 1 + j
      <3>1. k - q - 1 \in Nat /\ k = q + 1 + (k - q - 1)
        OBVIOUS
      <3> QED  BY <3>1
    <2>2. d * k = d * q + d + d * j
      BY <2>1
    <2>3. d * j \in Nat
      BY <2>1
    <2>4. \A a \in Int, b \in Int, c \in Nat : b = a + d + c /\ b <= a + r => FALSE
      OBVIOUS
    <2>5. d * q \in Int /\ d * k \in Int /\ d * k <= d * q + r
      BY <1>1, <1>3
    <2> QED  BY <2>2, <2>3, <2>4, <2>5
  <1> QED
    BY <1>1, <1>2, <1>4, <1>5

\* Dividing by s and then by f is dividing by f * s.
LEMMA DivDiv ==
    ASSUME NEW v \in Nat, NEW f \in Nat \ {0}, NEW s \in Nat \ {0}
    PROVE  v \div (f * s) = (v \div s) \div f
  <1>1. PICK q \in Nat, r \in 0 .. s - 1 : v = s * q + r /\ q = v \div s
    <2>1. v \div s \in Nat /\ v % s \in 0 .. s - 1 /\ v = s * (v \div s) + (v % s)
      OBVIOUS
    <2> QED  BY <2>1
  <1>2. PICK a \in Nat, b \in 0 .. f - 1 : q = f * a + b /\ a = q \div f
    <2>1. q \div f \in Nat /\ q % f \in 0 .. f - 1 /\ q = f * (q \div f) + (q % f)
      OBVIOUS
    <2> QED  BY <2>1
  <1>3. PICK d \in Nat \ {0} : d = f * s
    OBVIOUS
  <1>4. PICK c \in Nat : c = s * b + r
    OBVIOUS
  <1>5. v = d * a + c
    <2>1. PICK e \in Nat : e = f * a
      OBVIOUS
    <2>2. s * (e + b) = s * e + s * b
      OBVIOUS
    <2>3. s * (f * a) = (f * s) * a
      OBVIOUS
    <2> QED  BY <1>1, <1>2, <1>3, <1>4, <2>1, <2>2, <2>3
  <1>6. c < d
    <2>1. PICK j \in Nat : f = b + 1 + j
      <3>1. f - b - 1 \in Nat /\ f = b + 1 + (f - b - 1)
        OBVIOUS
      <3> QED  BY <3>1
    <2>2. f * s = s * b + s + j * s /\ j * s \in Nat /\ s * b \in Nat
      BY <2>1
    <2>3. \A x, y \in Nat : x + r < x + s + y
      OBVIOUS
    <2> QED  BY <1>3, <1>4, <2>2, <2>3
  <1>7. v \div d = a
    <2>1. c \in 0 .. d - 1
      BY <1>6
    <2> QED  BY <2>1, <1>5, Quotient
  <1> QED
    BY <1>1, <1>2, <1>3, <1>7

=============================================================================
