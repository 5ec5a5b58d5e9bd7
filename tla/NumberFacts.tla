---------------------------- MODULE NumberFacts -----------------------------
(***************************************************************************)
(* Facts about numbers that the proofs need.  Induction is about sets of   *)
(* numbers: the library states it about predicates, which the provers      *)
(* cannot instantiate.  It rests on strict inclusion of finite sets being  *)
(* well founded.                                                           *)
(***************************************************************************)
EXTENDS Integers, FiniteSetTheorems, WellFoundedInduction, TLAPS

\* A set of natural numbers that is not empty has a least element.
THEOREM LeastNumber ==
  ASSUME NEW T \in SUBSET Nat, T # {}
  PROVE  \E x \in T : \A y \in T : x <= y
<1> DEFINE R == StrictSubsetOrdering(Nat)
           UpTo(x) == 0 .. x
           U == {UpTo(x) : x \in T}
<1>1. IsWellFoundedOn(R, FiniteSubsetsOf(Nat))
  BY FS_StrictSubsetOrderingWellFounded
<1>2. U \subseteq FiniteSubsetsOf(Nat) /\ U # {}
  <2>1. \A x \in T : IsFiniteSet(UpTo(x)) /\ UpTo(x) \subseteq Nat
    <3> TAKE x \in T
    <3>1. IsFiniteSet(0 .. x)
      BY FS_Interval
    <3> QED
      BY <3>1
  <2> QED
    BY <2>1 DEF FiniteSubsetsOf
<1>3. PICK u \in U : \A v \in U : ~ (<<v, u>> \in R)
  <2> HIDE DEF R, U
  <2> QED
    BY <1>1, <1>2, WFMin
<1>4. PICK x \in T : u = UpTo(x)
  OBVIOUS
<1>5. ASSUME NEW y \in T, y < x
      PROVE  FALSE
  <2>1. UpTo(y) \in U /\ UpTo(y) \subseteq UpTo(x) /\ x \in UpTo(x) /\ x \notin UpTo(y)
    BY <1>5
  <2>2. UpTo(y) \in SUBSET Nat /\ UpTo(x) \in SUBSET Nat
    OBVIOUS
  <2>3. <<UpTo(y), UpTo(x)>> \in R
    <3> HIDE DEF UpTo
    <3> QED
      BY <2>1, <2>2 DEF StrictSubsetOrdering
  <2> QED
    BY <2>1, <2>3, <1>3, <1>4
<1> QED
  BY <1>5

\* A set with 0 and with the successor of each of its elements holds every number.
THEOREM InductionOverNat ==
  ASSUME NEW S, 0 \in S, \A n \in Nat : n \in S => n + 1 \in S
  PROVE  \A n \in Nat : n \in S
<1> SUFFICES ASSUME Nat \ S # {}
             PROVE  FALSE
  OBVIOUS
<1>1. PICK m \in Nat \ S : \A k \in Nat \ S : m <= k
  BY LeastNumber
<1>2. m # 0 /\ m - 1 \in Nat
  OBVIOUS
<1>3. m - 1 \in S
  BY <1>1, <1>2
<1> QED
  BY <1>2, <1>3

\* f has a value at 0, and each value from the one before.
FollowsFrom(f, base, step) ==
  f[0] = base /\ \A n \in Nat : f[n + 1] = step[<<n, f[n]>>]

\* A function of the natural numbers can be defined by recursion.
THEOREM RecursionOverNat ==
  ASSUME NEW D, NEW base \in D, NEW step \in [Nat \X D -> D]
  PROVE  \E f \in [Nat -> D] : FollowsFrom(f, base, step)
<1> DEFINE Start(n, g) ==
             /\ g \in [0 .. n -> D] /\ g[0] = base
             /\ \A i \in 0 .. n - 1 : g[i + 1] = step[<<i, g[i]>>]
\* Two starts agree where both are defined.
<1>1. ASSUME NEW m \in Nat, NEW n \in Nat, NEW g, NEW h, Start(m, g), Start(n, h)
      PROVE  \A i \in Nat : i <= m /\ i <= n => g[i] = h[i]
  <2> DEFINE S == {i \in Nat : i <= m /\ i <= n => g[i] = h[i]}
  <2>1. 0 \in S
    BY <1>1
  <2>2. ASSUME NEW i \in Nat, i \in S
        PROVE  i + 1 \in S
    <3> SUFFICES ASSUME i + 1 <= m, i + 1 <= n
                 PROVE  g[i + 1] = h[i + 1]
      OBVIOUS
    <3>1. i \in 0 .. m - 1 /\ i \in 0 .. n - 1 /\ g[i] = h[i]
      BY <2>2
    <3> QED
      BY <1>1, <3>1
  <2> HIDE DEF S
  <2>3. \A i \in Nat : i \in S
    BY <2>1, <2>2, InductionOverNat
  <2> QED
    BY <2>3 DEF S
\* There is a start of every length.
<1>2. \A n \in Nat : \E g : Start(n, g)
  <2> DEFINE S == {n \in Nat : \E g : Start(n, g)}
  <2>1. 0 \in S
    <3>1. Start(0, [i \in 0 .. 0 |-> base])
      OBVIOUS
    <3> QED
      BY <3>1
  <2>2. ASSUME NEW n \in Nat, n \in S
        PROVE  n + 1 \in S
    <3>1. PICK g : Start(n, g)
      BY <2>2
    <3> DEFINE h == [i \in 0 .. n + 1 |-> IF i = n + 1 THEN step[<<n, g[n]>>] ELSE g[i]]
    <3>2. step[<<n, g[n]>>] \in D
      BY <3>1
    <3>3. h \in [0 .. n + 1 -> D]
      <4>1. \A i \in 0 .. n + 1 : i # n + 1 => i \in 0 .. n
        OBVIOUS
      <4> QED
        BY <3>1, <3>2, <4>1
    <3>4. h[0] = base
      BY <3>1
    <3>5. ASSUME NEW i \in 0 .. (n + 1) - 1
          PROVE  h[i + 1] = step[<<i, h[i]>>]
      <4>1. i \in 0 .. n + 1 /\ i + 1 \in 0 .. n + 1 /\ i # n + 1 /\ h[i] = g[i]
        OBVIOUS
      <4>2. CASE i = n
        BY <4>1, <4>2
      <4>3. CASE i # n
        <5>1. i \in 0 .. n - 1 /\ i + 1 # n + 1
          BY <4>3
        <5> QED
          BY <3>1, <4>1, <5>1
      <4> QED
        BY <4>2, <4>3
    <3> HIDE DEF h
    <3>6. Start(n + 1, h)
      BY <3>3, <3>4, <3>5
    <3> QED
      BY <3>6
  <2> HIDE DEF S
  <2>3. \A n \in Nat : n \in S
    BY <2>1, <2>2, InductionOverNat
  <2> QED
    BY <2>3 DEF S
<1> DEFINE G(n) == CHOOSE g : Start(n, g)
           f == [n \in Nat |-> G(n)[n]]
<1>3. \A n \in Nat : Start(n, G(n))
  <2> HIDE DEF Start
  <2> QED
    BY <1>2
<1>4. \A n \in Nat : G(n)[n] \in D
  <2> TAKE n \in Nat
  <2> HIDE DEF G
  <2>1. Start(n, G(n)) /\ n \in 0 .. n
    BY <1>3
  <2> QED
    BY <2>1
<1>5. f \in [Nat -> D]
  <2> HIDE DEF G
  <2> QED
    BY <1>4
<1>6. f[0] = base
  <2> HIDE DEF G
  <2>1. Start(0, G(0))
    BY <1>3
  <2> QED
    BY <2>1
<1>7. ASSUME NEW n \in Nat
      PROVE  f[n + 1] = step[<<n, f[n]>>]
  <2> HIDE DEF G
  <2>1. Start(n, G(n)) /\ Start(n + 1, G(n + 1))
    BY <1>3
  <2>2. G(n + 1)[n] = G(n)[n]
    <3> HIDE DEF Start
    <3>1. n + 1 \in Nat /\ n <= n /\ n <= n + 1
      OBVIOUS
    <3>2. \A i \in Nat : i <= n + 1 /\ i <= n => G(n + 1)[i] = G(n)[i]
      BY <1>1, <2>1, <3>1
    <3> QED
      BY <3>1, <3>2
  <2>3. n \in 0 .. (n + 1) - 1
    OBVIOUS
  <2>4. G(n + 1)[n + 1] = step[<<n, G(n + 1)[n]>>]
    BY <2>1, <2>3
  <2> QED
    BY <2>2, <2>4
<1> HIDE DEF f
<1> QED
  BY <1>5, <1>6, <1>7 DEF FollowsFrom
-----------------------------------------------------------------------------
(***************************************************************************)
(* Remainders, of which the SMT solver knows little when the divisor is    *)
(* not a number.                                                           *)
(***************************************************************************)
\* What division and remainder are.
LEMMA DivMod ==
  ASSUME NEW a \in Int, NEW c \in Nat \ {0}
  PROVE  /\ a \div c \in Int /\ a % c \in 0 .. c - 1
         /\ a = c * (a \div c) + (a % c)
<1>1. a \div c \in Int
  OBVIOUS
<1>2. a % c \in 0 .. c - 1
  OBVIOUS
<1>3. a = c * (a \div c) + (a % c)
  OBVIOUS
<1> QED
  BY <1>1, <1>2, <1>3

\* Multiples of c are at least c apart.
LEMMA MonoMul ==
  ASSUME NEW c \in Nat \ {0}, NEW p \in Int, NEW q \in Int, p < q
  PROVE  c * p + c <= c * q
<1>1. p + 1 <= q
  OBVIOUS
<1>2. c * (p + 1) <= c * q
  BY <1>1
<1>3. c * (p + 1) = c * p + c
  OBVIOUS
<1> QED
  BY <1>2, <1>3

\* There is one remainder only.
LEMMA ModIs ==
  ASSUME NEW c \in Nat \ {0}, NEW q \in Int, NEW r \in 0 .. c - 1
  PROVE  (c * q + r) % c = r
<1> DEFINE a == c * q + r
           p == a \div c
           s == a % c
<1>0. a \in Int /\ a = c * q + r
  OBVIOUS
<1>1. p \in Int /\ s \in 0 .. c - 1 /\ a = c * p + s
  BY <1>0, DivMod
<1> HIDE DEF p, a, s
<1>2. ~(p < q)
  <2> SUFFICES ASSUME p < q
               PROVE  FALSE
    OBVIOUS
  <2>1. c * p + c <= c * q
    BY <1>1, MonoMul
  <2> DEFINE cp == c * p
             cq == c * q
  <2>2. cp \in Int /\ cq \in Int
    BY <1>1
  <2>3. cp + c <= cq /\ a = cp + s /\ a = cq + r
    BY <2>1, <1>1, <1>0
  <2> HIDE DEF cp, cq
  <2> QED
    BY <1>1, <2>2, <2>3
<1>3. ~(q < p)
  <2> SUFFICES ASSUME q < p
               PROVE  FALSE
    OBVIOUS
  <2>1. c * q + c <= c * p
    BY <1>1, MonoMul
  <2> DEFINE cp == c * p
             cq == c * q
  <2>2. cp \in Int /\ cq \in Int
    BY <1>1
  <2>3. cq + c <= cp /\ a = cp + s /\ a = cq + r
    BY <2>1, <1>1, <1>0
  <2> HIDE DEF cp, cq
  <2> QED
    BY <1>1, <2>2, <2>3
<1>4. p = q
  BY <1>1, <1>2, <1>3
<1>5. s = r
  <2> DEFINE cq == c * q
  <2>1. cq \in Int /\ a = cq + s /\ a = cq + r
    BY <1>0, <1>1, <1>4
  <2> HIDE DEF cq
  <2> QED
    BY <1>1, <2>1
<1> QED
  BY <1>5 DEF s, a
\* Counting on: the remainder counts on too, and starts again at the divisor.
LEMMA ModSuccessor ==
  ASSUME NEW c \in Nat \ {0}, NEW a \in Int
  PROVE  (a + 1) % c = IF (a % c) + 1 = c THEN 0 ELSE (a % c) + 1
<1> DEFINE q == a \div c
           r == a % c
<1>1. q \in Int /\ r \in 0 .. c - 1 /\ a = c * q + r
  BY DivMod
<1> HIDE DEF q, r
<1>2. CASE r + 1 = c
  <2>1. a + 1 = c * (q + 1) + 0
    <3>1. c * (q + 1) = c * q + c
      BY <1>1
    <3> DEFINE cq == c * q
    <3>2. cq \in Int /\ a = cq + r /\ c * (q + 1) = cq + c
      BY <1>1, <3>1
    <3> HIDE DEF cq
    <3> QED
      BY <1>1, <1>2, <3>2
  <2>2. (c * (q + 1) + 0) % c = 0
    <3>1. q + 1 \in Int /\ 0 \in 0 .. c - 1
      BY <1>1
    <3> QED
      BY <3>1, ModIs
  <2> QED
    BY <1>2, <2>1, <2>2 DEF r
<1>3. CASE r + 1 # c
  <2>1. a + 1 = c * q + (r + 1)
    <3> DEFINE cq == c * q
    <3>1. cq \in Int /\ a = cq + r
      BY <1>1
    <3> HIDE DEF cq
    <3>2. a + 1 = cq + (r + 1)
      BY <1>1, <3>1
    <3> QED
      BY <3>2 DEF cq
  <2>2. r + 1 \in 0 .. c - 1
    BY <1>1, <1>3
  <2>3. (c * q + (r + 1)) % c = r + 1
    BY <1>1, <2>2, ModIs
  <2> QED
    BY <1>3, <2>1, <2>3 DEF r
<1> QED
  BY <1>2, <1>3

\* Two counters, the size of one a multiple of the other's.
LEMMA NestedSuccessor ==
  ASSUME NEW c \in Nat \ {0}, NEW n \in Nat \ {0}, n % c = 0, NEW x \in 0 .. n - 1
  PROVE  /\ (x % c) + 1 = c => ((x + 1) % n) % c = 0
         /\ (x % c) + 1 # c => ((x + 1) % n) % c = (x % c) + 1
<1>1. (x + 1) % c = IF (x % c) + 1 = c THEN 0 ELSE (x % c) + 1
  <2>1. x \in Int
    OBVIOUS
  <2> QED
    BY <2>1, ModSuccessor
<1>2. CASE x + 1 = n
  <2>1. (x + 1) % n = 0
    <3>1. n * 1 + 0 = n /\ 0 \in 0 .. n - 1
      OBVIOUS
    <3>2. (n * 1 + 0) % n = 0
      BY <3>1, ModIs
    <3> QED
      BY <1>2, <3>1, <3>2
  <2>2. 0 % c = 0
    <3>1. c * 0 + 0 = 0 /\ 0 \in 0 .. c - 1
      OBVIOUS
    <3>2. (c * 0 + 0) % c = 0
      BY <3>1, ModIs
    <3> QED
      BY <3>1, <3>2
  <2>3. (x + 1) % c = 0
    BY <1>2
  <2> QED
    BY <1>1, <2>1, <2>2, <2>3
<1>3. CASE x + 1 # n
  <2>1. n * 0 + (x + 1) = x + 1 /\ x + 1 \in 0 .. n - 1
    BY <1>3
  <2>2. (n * 0 + (x + 1)) % n = x + 1
    BY <2>1, ModIs
  <2> QED
    BY <1>1, <2>1, <2>2
<1> QED
  BY <1>2, <1>3
=============================================================================
