------------------------ MODULE FrameExchange_proofs -------------------------
(***************************************************************************)
(* Theorems about what goes over the wire.  First the checksum, for        *)
(* messages of any bytes and of every length up to the largest total       *)
(* length of a packet; then, with it, the frames: for any stations,        *)
(* addresses, mask, size of the ping and content of the heap.              *)
(*                                                                         *)
(* A frame is a buffer of which each Store() sets some bytes and keeps the *)
(* others.  Message says what is in it when the ICMP message is complete,  *)
(* Packet when sendFrame() is done with it, and PacketRead what those who  *)
(* receive a frame with a Packet in it read and decide.                    *)
(***************************************************************************)
EXTENDS SealedMessages, FrameExchange, SequenceTheorems, NumberFacts

(***************************************************************************)
(* Sums.                                                                   *)
(***************************************************************************)
\* s[i] is the sum of the first i of n numbers.
Summing(f, n, s) ==
  /\ s \in [0 .. n -> Nat] /\ s[0] = 0
  /\ \A i \in 0 .. n - 1 : s[i + 1] = s[i] + f[i]

\* SumOf() is what such sums arrive at.
LEMMA SumIs ==
  ASSUME NEW n \in Nat, NEW f \in [0 .. n - 1 -> Nat]
  PROVE  \E s : Summing(f, n, s) /\ SumOf(f, n) = s[n]
<1> DEFINE step == [p \in Nat \X Nat |-> IF p[1] \in 0 .. n - 1 THEN p[2] + f[p[1]] ELSE p[2]]
           Def(h) == [i \in 0 .. n |-> IF i = 0 THEN 0 ELSE h[i - 1] + f[i - 1]]
           s == CHOOSE h : h = Def(h)
<1>1. PICK g \in [Nat -> Nat] : g[0] = 0 /\ \A i \in Nat : g[i + 1] = step[<<i, g[i]>>]
  <2>1. step \in [Nat \X Nat -> Nat]
    OBVIOUS
  <2> HIDE DEF step
  <2>2. \E g \in [Nat -> Nat] : FollowsFrom(g, 0, step)
    BY <2>1, RecursionOverNat
  <2> QED
    BY <2>2 DEF FollowsFrom
<1>2. \A i \in 0 .. n - 1 : g[i + 1] = g[i] + f[i]
  <2> TAKE i \in 0 .. n - 1
  <2>1. i \in Nat
    OBVIOUS
  <2>3. g[i] \in Nat
    BY <1>1, <2>1
  <2>2. g[i + 1] = step[<<i, g[i]>>]
    BY <1>1, <2>1
  <2>4. step[<<i, g[i]>>] = g[i] + f[i]
    BY <2>1, <2>3
  <2> QED
    BY <2>2, <2>4
<1> HIDE DEF step
<1>3. \E h : h = Def(h)
  <2> DEFINE h == [i \in 0 .. n |-> g[i]]
  <2>1. ASSUME NEW i \in 0 .. n
        PROVE  h[i] = Def(h)[i]
    <3>1. CASE i = 0
      BY <3>1, <1>1
    <3>2. CASE i # 0
      <4>1. i - 1 \in 0 .. n - 1 /\ i - 1 \in 0 .. n /\ (i - 1) + 1 = i
        BY <3>2
      <4>2. g[(i - 1) + 1] = g[i - 1] + f[i - 1]
        BY <4>1, <1>2
      <4> QED
        BY <3>2, <4>1, <4>2
    <3> QED
      BY <3>1, <3>2
  <2>2. h = Def(h)
    BY <2>1
  <2> QED
    BY <2>2
<1>4. s = Def(s)
  <2> HIDE DEF Def
  <2> QED
    BY <1>3
<1>5. SumOf(f, n) = s[n]
  BY DEF SumOf
<1> HIDE DEF s
<1>6. DOMAIN s = 0 .. n /\ s[0] = 0 /\ s = [i \in 0 .. n |-> s[i]]
  BY <1>4
<1>7. \A i \in 0 .. n - 1 : s[i + 1] = s[i] + f[i]
  <2> TAKE i \in 0 .. n - 1
  <2>1. i + 1 \in 0 .. n /\ i + 1 # 0 /\ (i + 1) - 1 = i
    OBVIOUS
  <2>2. Def(s)[i + 1] = s[(i + 1) - 1] + f[(i + 1) - 1]
    BY <2>1
  <2> HIDE DEF Def
  <2> QED
    BY <1>4, <2>1, <2>2
<1>8. \A i \in 0 .. n : s[i] \in Nat
  <2> DEFINE S == {i \in Nat : i <= n => s[i] \in Nat}
  <2>1. 0 \in S
    BY <1>6
  <2>2. ASSUME NEW i \in Nat, i \in S
        PROVE  i + 1 \in S
    <3> SUFFICES ASSUME i + 1 <= n
                 PROVE  s[i + 1] \in Nat
      OBVIOUS
    <3>1. i \in 0 .. n - 1 /\ s[i] \in Nat
      BY <2>2
    <3>2. f[i] \in Nat /\ s[i + 1] = s[i] + f[i]
      BY <3>1, <1>7
    <3> DEFINE x == s[i]
               y == f[i]
    <3>3. x \in Nat /\ y \in Nat /\ s[i + 1] = x + y
      BY <3>1, <3>2
    <3> HIDE DEF x, y
    <3> QED
      BY <3>3
  <2> HIDE DEF S
  <2>3. \A i \in Nat : i \in S
    BY <2>1, <2>2, InductionOverNat
  <2> QED
    BY <2>3 DEF S
<1> QED
  BY <1>5, <1>6, <1>7, <1>8 DEF Summing

\* The sum of n numbers is a number, and at most n times the largest of them.
LEMMA SumBound ==
  ASSUME NEW n \in Nat, NEW f \in [0 .. n - 1 -> Nat], NEW m \in Nat,
         \A i \in 0 .. n - 1 : f[i] <= m
  PROVE  SumOf(f, n) \in Nat /\ SumOf(f, n) <= n * m
<1>2. PICK s : Summing(f, n, s) /\ SumOf(f, n) = s[n]
  BY SumIs
<1> DEFINE S == {i \in Nat : i <= n => s[i] \in Nat /\ s[i] <= i * m}
<1>3. 0 \in S
  BY <1>2 DEF Summing
<1>4. ASSUME NEW i \in Nat, i \in S
      PROVE  i + 1 \in S
  <2> SUFFICES ASSUME i + 1 <= n
               PROVE  s[i + 1] \in Nat /\ s[i + 1] <= (i + 1) * m
    OBVIOUS
  <2>1. i \in 0 .. n - 1 /\ s[i] \in Nat /\ s[i] <= i * m
    BY <1>4
  <2>2. s[i + 1] = s[i] + f[i] /\ f[i] \in Nat /\ f[i] <= m
    BY <1>2, <2>1 DEF Summing
  <2> DEFINE x == s[i]
             y == f[i]
             z == i * m
  <2>3. /\ x \in Nat /\ y \in Nat /\ z \in Nat /\ (i + 1) * m = z + m
        /\ x <= z /\ y <= m /\ s[i + 1] = x + y
    BY <2>1, <2>2
  <2> HIDE DEF x, y, z
  <2> QED
    BY <2>3
<1> HIDE DEF S
<1>5. \A i \in Nat : i \in S
  BY <1>3, <1>4, InductionOverNat
<1> QED
  BY <1>2, <1>5 DEF S

\* Where one number differs, the sums differ by as much.
LEMMA SumDiffer ==
  ASSUME NEW n \in Nat, NEW f \in [0 .. n - 1 -> Nat], NEW g \in [0 .. n - 1 -> Nat],
         NEW k \in 0 .. n - 1, \A i \in 0 .. n - 1 : i # k => f[i] = g[i]
  PROVE  SumOf(f, n) + g[k] = SumOf(g, n) + f[k]
<1>1. PICK s : Summing(f, n, s) /\ SumOf(f, n) = s[n]
  BY SumIs
<1>2. PICK t : Summing(g, n, t) /\ SumOf(g, n) = t[n]
  BY SumIs
<1> DEFINE S == {i \in Nat : i <= n => IF i <= k THEN s[i] = t[i]
                                                 ELSE s[i] + g[k] = t[i] + f[k]}
<1>3. 0 \in S
  BY <1>1, <1>2 DEF Summing
<1>4. ASSUME NEW i \in Nat, i \in S
      PROVE  i + 1 \in S
  <2> SUFFICES ASSUME i + 1 <= n
               PROVE  IF i + 1 <= k THEN s[i + 1] = t[i + 1]
                                    ELSE s[i + 1] + g[k] = t[i + 1] + f[k]
    OBVIOUS
  <2>1. i \in 0 .. n - 1 /\ i \in 0 .. n
        /\ IF i <= k THEN s[i] = t[i] ELSE s[i] + g[k] = t[i] + f[k]
    BY <1>4
  <2>2. s[i + 1] = s[i] + f[i] /\ t[i + 1] = t[i] + g[i]
    BY <1>1, <1>2, <2>1 DEF Summing
  <2>3. s[i] \in Nat /\ t[i] \in Nat /\ f[i] \in Nat /\ g[i] \in Nat
        /\ f[k] \in Nat /\ g[k] \in Nat
    BY <1>1, <1>2, <2>1 DEF Summing
  <2>4. CASE i = k
    BY <2>1, <2>2, <2>3, <2>4
  <2>5. CASE i < k
    <3>1. f[i] = g[i] /\ i + 1 <= k /\ s[i] = t[i]
      BY <2>5, <2>1
    <3> QED
      BY <3>1, <2>2
  <2>6. CASE i > k
    <3>1. f[i] = g[i] /\ ~(i + 1 <= k) /\ s[i] + g[k] = t[i] + f[k]
      BY <2>6, <2>1
    <3> DEFINE x == s[i]
               y == t[i]
               v == f[i]
               p == f[k]
               q == g[k]
    <3>2. /\ x \in Nat /\ y \in Nat /\ v \in Nat /\ p \in Nat /\ q \in Nat
          /\ x + q = y + p /\ s[i + 1] = x + v /\ t[i + 1] = y + v
      BY <3>1, <2>2, <2>3
    <3> HIDE DEF x, y, v, p, q
    <3>3. s[i + 1] + q = t[i + 1] + p
      BY <3>2
    <3> QED
      BY <3>1, <3>3 DEF p, q
  <2> QED
    BY <2>1, <2>4, <2>5, <2>6
<1> HIDE DEF S
<1>5. n \in S
  BY <1>3, <1>4, InductionOverNat
<1> QED
  BY <1>1, <1>2, <1>5 DEF S
-------------------------------------------------------------------------------
(***************************************************************************)
(* Folding.                                                                *)
(***************************************************************************)
\* The end-around sum has 16 bits, and is 0 for 0 only.
LEMMA EndAroundBounds ==
  ASSUME NEW t \in Nat
  PROVE  /\ EndAround(t) \in Nat /\ EndAround(t) <= 65535
         /\ EndAround(t) = 0 <=> t = 0
BY DEF EndAround

\* It differs from the sum by a multiple of 65535.
LEMMA EndAroundIs ==
  ASSUME NEW t \in Nat
  PROVE  \E q \in Nat : t = 65535 * q + EndAround(t)
<1>1. CASE t = 0
  BY <1>1 DEF EndAround
<1>2. CASE t # 0
  <2> DEFINE q == (t - 1) \div 65535
             r == (t - 1) % 65535
  <2>1. q \in Nat /\ r \in Nat /\ t - 1 = 65535 * q + r
    BY <1>2
  <2>2. EndAround(t) = r + 1
    BY <1>2 DEF EndAround
  <2> HIDE DEF q, r
  <2> QED
    BY <2>1, <2>2
<1> QED
  BY <1>1, <1>2

\* There is one such number only.
LEMMA EndAroundOnly ==
  ASSUME NEW t \in Nat, NEW q \in Nat, NEW r \in Nat, r <= 65535, r = 0 <=> t = 0,
         t = 65535 * q + r
  PROVE  EndAround(t) = r
<1>1. PICK p \in Nat : t = 65535 * p + EndAround(t)
  BY EndAroundIs
<1>2. EndAround(t) \in Nat /\ EndAround(t) <= 65535 /\ (EndAround(t) = 0 <=> t = 0)
  BY EndAroundBounds
<1> DEFINE e == EndAround(t)
<1> HIDE DEF e
<1>3. /\ e \in Nat /\ e <= 65535 /\ (e = 0 <=> t = 0) /\ t = 65535 * p + e
  BY <1>1, <1>2 DEF e
<1>4. e = r
  BY <1>3
<1> QED
  BY <1>4 DEF e

\* A number of 16 bits is folded already, and folding a larger one once makes it
\* smaller and keeps its end-around sum.
LEMMA FoldStep ==
  ASSUME NEW t \in Nat
  PROVE  /\ t \div 65536 = 0 => EndAround(t) = t
         /\ t \div 65536 # 0 =>
              /\ FoldOnce(t) \in Nat /\ FoldOnce(t) < t
              /\ EndAround(FoldOnce(t)) = EndAround(t)
<1> DEFINE q == t \div 65536
           r == t % 65536
<1>1. q \in Nat /\ r \in Nat /\ r <= 65535 /\ t = 65536 * q + r
  OBVIOUS
<1> HIDE DEF q, r
<1>2. ASSUME q = 0
      PROVE  EndAround(t) = t
  <2>1. t = 65535 * 0 + t /\ t <= 65535
    BY <1>1, <1>2
  <2> QED
    BY <2>1, EndAroundOnly
<1>3. ASSUME q # 0
      PROVE  r + q \in Nat /\ r + q < t /\ EndAround(r + q) = EndAround(t)
  <2>1. r + q \in Nat /\ r + q < t /\ r + q # 0 /\ t # 0
    BY <1>1, <1>3
  <2> DEFINE e == EndAround(r + q)
  <2>2. PICK p \in Nat : r + q = 65535 * p + e
    BY <2>1, EndAroundIs
  <2>3. e \in Nat /\ e <= 65535 /\ e # 0
    BY <2>1, EndAroundBounds
  <2> HIDE DEF e
  <2>4. p + q \in Nat /\ t = 65535 * (p + q) + e
    BY <1>1, <2>2, <2>3
  <2>5. EndAround(t) = e
    BY <2>1, <2>3, <2>4, EndAroundOnly
  <2> QED
    BY <2>1, <2>5 DEF e
<1> QED
  BY <1>2, <1>3 DEF q, r, FoldOnce

\* Folding until there are 16 bits arrives at the end-around sum.
LEMMA FoldIs ==
  ASSUME NEW t \in Nat
  PROVE  Fold(t) = EndAround(t)
<1> DEFINE Def(h) == [n \in Nat |-> IF n \div 65536 = 0 THEN n ELSE h[FoldOnce(n)]]
           fold == CHOOSE h : h = Def(h)
<1>1. \E h : h = Def(h)
  <2> DEFINE h == [n \in Nat |-> EndAround(n)]
  <2>1. ASSUME NEW n \in Nat
        PROVE  h[n] = Def(h)[n]
    <3>1. CASE n \div 65536 = 0
      <4>1. EndAround(n) = n
        BY <3>1, FoldStep
      <4> QED
        BY <3>1, <4>1
    <3>2. CASE n \div 65536 # 0
      <4>1. FoldOnce(n) \in Nat /\ EndAround(FoldOnce(n)) = EndAround(n)
        BY <3>2, FoldStep
      <4> QED
        BY <3>2, <4>1
    <3> QED
      BY <3>1, <3>2
  <2>2. h = Def(h)
    BY <2>1
  <2> HIDE DEF h, Def
  <2> QED
    BY <2>2
<1>2. fold = Def(fold)
  <2> HIDE DEF Def
  <2> QED
    BY <1>1
<1>3. Fold(t) = fold[t]
  BY DEF Fold
<1> HIDE DEF fold
<1>4. \A n \in Nat : fold[n] = IF n \div 65536 = 0 THEN n ELSE fold[FoldOnce(n)]
  <2> TAKE n \in Nat
  <2>1. Def(fold)[n] = IF n \div 65536 = 0 THEN n ELSE fold[FoldOnce(n)]
    OBVIOUS
  <2> HIDE DEF Def
  <2> QED
    BY <1>2, <2>1
<1> HIDE DEF Def
<1> DEFINE Wrong == {n \in Nat : fold[n] # EndAround(n)}
<1>5. ASSUME Wrong # {}
      PROVE  FALSE
  <2>1. PICK n \in Wrong : \A m \in Wrong : n <= m
    <3>1. Wrong \in SUBSET Nat
      OBVIOUS
    <3> HIDE DEF Wrong
    <3> QED
      BY <1>5, <3>1, LeastNumber
  <2>2. n \in Nat /\ fold[n] # EndAround(n)
    OBVIOUS
  <2>3. n \div 65536 # 0
    <3>1. n \div 65536 = 0 => EndAround(n) = n
      BY <2>2, FoldStep
    <3> QED
      BY <2>2, <1>4, <3>1
  <2>4. FoldOnce(n) \in Nat /\ FoldOnce(n) < n /\ EndAround(FoldOnce(n)) = EndAround(n)
    BY <2>2, <2>3, FoldStep
  <2>5. fold[n] = fold[FoldOnce(n)]
    BY <2>2, <2>3, <1>4
  <2>6. FoldOnce(n) \notin Wrong
    <3> DEFINE m == FoldOnce(n)
    <3>1. m \in Nat /\ m < n /\ n \in Nat /\ \A k \in Wrong : n <= k
      BY <2>1, <2>2, <2>4
    <3> HIDE DEF m, Wrong
    <3>2. m \notin Wrong
      BY <3>1
    <3> QED
      BY <3>2 DEF m
  <2> QED
    BY <2>2, <2>4, <2>5, <2>6
<1> QED
  BY <1>3, <1>5

\* The checksum is a number of 16 bits.
LEMMA ComplementIs ==
  ASSUME NEW t \in Nat
  PROVE  65535 - EndAround(t) \in Nat /\ 65535 - EndAround(t) <= 65535
<1> DEFINE e == EndAround(t)
<1>1. e \in Nat /\ e <= 65535
  BY EndAroundBounds
<1> HIDE DEF e
<1>2. 65535 - e \in Nat /\ 65535 - e <= 65535
  BY <1>1
<1> QED
  BY <1>2 DEF e

\* A sum and the complement of its end-around sum add up to all ones.
LEMMA ComplementAddsUp ==
  ASSUME NEW t \in Nat
  PROVE  EndAround(t + (65535 - EndAround(t))) = 65535
<1>1. PICK q \in Nat : t = 65535 * q + EndAround(t)
  BY EndAroundIs
<1>2. EndAround(t) \in Nat /\ EndAround(t) <= 65535 /\ (EndAround(t) = 0 <=> t = 0)
  BY EndAroundBounds
<1> DEFINE e == EndAround(t)
<1>3. t = 65535 * q + e /\ e \in Nat /\ e <= 65535 /\ (e = 0 <=> t = 0)
  BY <1>1, <1>2
<1> HIDE DEF e
<1>4. /\ t + (65535 - e) \in Nat /\ t + (65535 - e) # 0
      /\ t + (65535 - e) = 65535 * q + 65535
  BY <1>3
<1>5. EndAround(t + (65535 - e)) = 65535
  BY <1>4, EndAroundOnly
<1> QED
  BY <1>5 DEF e

\* Sums that differ, by less than 65535, have different end-around sums.
LEMMA EndAroundDiffers ==
  ASSUME NEW t \in Nat, NEW u \in Nat, t # u, t < u + 65535, u < t + 65535
  PROVE  EndAround(t) # EndAround(u)
<1> SUFFICES ASSUME EndAround(t) = EndAround(u)
             PROVE  FALSE
  OBVIOUS
<1> DEFINE e == EndAround(t)
<1>1. PICK p \in Nat : t = 65535 * p + e
  BY EndAroundIs
<1>2. PICK q \in Nat : u = 65535 * q + e
  BY EndAroundIs
<1>3. e \in Nat
  BY EndAroundBounds
<1> HIDE DEF e
<1> QED
  BY <1>1, <1>2, <1>3
-------------------------------------------------------------------------------
(***************************************************************************)
(* Messages.                                                               *)
(***************************************************************************)
WordCount(b) == Len(b) \div 2

\* Where the bytes of a word are, and the byte that is left over.
LEMMA Places ==
  ASSUME NEW b \in Seq(Byte)
  PROVE  /\ Len(b) \in Nat /\ WordCount(b) \in Nat
         /\ Len(b) = 2 * WordCount(b) \/ Len(b) = 2 * WordCount(b) + 1
         /\ Len(b) % 2 = 1 <=> Len(b) = 2 * WordCount(b) + 1
         /\ \A k \in 0 .. WordCount(b) - 1 :
              2 * k + 1 \in 1 .. Len(b) /\ 2 * k + 2 \in 1 .. Len(b)
<1>1. Len(b) \in Nat
  BY LenProperties
<1> DEFINE n == Len(b)
           h == n \div 2
<1>2. n \in Nat
  BY <1>1
<1> HIDE DEF n
<1>3. h \in Nat /\ (n = 2 * h \/ n = 2 * h + 1) /\ (n % 2 = 1 <=> n = 2 * h + 1)
  BY <1>2
<1> HIDE DEF h
<1>4. \A k \in 0 .. h - 1 : 2 * k + 1 \in 1 .. n /\ 2 * k + 2 \in 1 .. n
  BY <1>2, <1>3
<1> QED
  BY <1>2, <1>3, <1>4 DEF n, h, WordCount

\* A word has 16 bits.
LEMMA WordIs ==
  ASSUME NEW b \in Seq(Byte), NEW k \in 0 .. WordCount(b) - 1
  PROVE  /\ b[2 * k + 1] \in Byte /\ b[2 * k + 2] \in Byte
         /\ LoadBig16(b, k) \in Nat /\ LoadBig16(b, k) <= 65535
<1>1. 2 * k + 1 \in 1 .. Len(b) /\ 2 * k + 2 \in 1 .. Len(b)
  BY Places
<1>2. b[2 * k + 1] \in Byte /\ b[2 * k + 2] \in Byte
  BY <1>1, ElementOfSeq
<1> DEFINE hi == b[2 * k + 1]
           lo == b[2 * k + 2]
<1>3. hi \in 0 .. 255 /\ lo \in 0 .. 255 /\ LoadBig16(b, k) = hi * 256 + lo
  BY <1>2 DEF Byte, LoadBig16
<1> HIDE DEF hi, lo
<1>4. hi * 256 + lo \in Nat /\ hi * 256 + lo <= 65535
  BY <1>3
<1> QED
  BY <1>2, <1>3, <1>4

\* What is loaded after a store.
LEMMA StoredIs ==
  ASSUME NEW b \in Seq(Byte), NEW k \in 0 .. WordCount(b) - 1,
         NEW w \in Nat, w <= 65535
  PROVE  LET c == StoreBig16(b, k, w)
         IN  /\ c \in Seq(Byte) /\ Len(c) = Len(b)
             /\ \A i \in 1 .. Len(b) : i \notin {2 * k + 1, 2 * k + 2} => c[i] = b[i]
             /\ LoadBig16(c, k) = w
<1> DEFINE c == StoreBig16(b, k, w)
           hi == w \div 256
           lo == w % 256
<1>1. hi \in Byte /\ lo \in Byte /\ hi * 256 + lo = w
  BY DEF Byte
<1>2. k \in Nat /\ 2 * k + 1 \in 1 .. Len(b) /\ 2 * k + 2 \in 1 .. Len(b) /\ 2 * k + 1 # 2 * k + 2
  BY Places
<1>3. c = [b EXCEPT ![2 * k + 1] = hi, ![2 * k + 2] = lo]
  BY DEF StoreBig16
<1> SUFFICES /\ c \in Seq(Byte) /\ Len(c) = Len(b)
             /\ \A i \in 1 .. Len(b) : i \notin {2 * k + 1, 2 * k + 2} => c[i] = b[i]
             /\ LoadBig16(c, k) = w
  OBVIOUS
<1> HIDE DEF c, hi, lo
<1> DEFINE d == [b EXCEPT ![2 * k + 1] = hi]
<1>4. d \in Seq(Byte) /\ Len(d) = Len(b)
      /\ \A i \in 1 .. Len(b) : d[i] = IF i = 2 * k + 1 THEN hi ELSE b[i]
  BY <1>1, <1>2, ExceptSeq
<1>5. c = [d EXCEPT ![2 * k + 2] = lo]
  BY <1>3
<1> HIDE DEF d
<1>6. c \in Seq(Byte) /\ Len(c) = Len(d)
      /\ \A i \in 1 .. Len(d) : c[i] = IF i = 2 * k + 2 THEN lo ELSE d[i]
  BY <1>1, <1>2, <1>4, <1>5, ExceptSeq
<1>7. c[2 * k + 1] = hi /\ c[2 * k + 2] = lo
  BY <1>2, <1>4, <1>6
<1>8. LoadBig16(c, k) = w
  BY <1>1, <1>7 DEF LoadBig16
<1> QED
  BY <1>4, <1>6, <1>8

\* The numbers that are added.
LEMMA WordsAre ==
  ASSUME NEW b \in Seq(Byte), NEW skip16
  PROVE  /\ Words(b, skip16) \in [0 .. WordCount(b) - 1 -> Nat]
         /\ \A k \in 0 .. WordCount(b) - 1 : Words(b, skip16)[k] <= 65535
<1>1. \A k \in 0 .. WordCount(b) - 1 : LoadBig16(b, k) \in Nat /\ LoadBig16(b, k) <= 65535
  BY WordIs
<1>2. Words(b, skip16) = [k \in 0 .. WordCount(b) - 1 |->
                            IF k = skip16 THEN 0 ELSE LoadBig16(b, k)]
  BY DEF Words, WordCount
<1>3. \A k \in 0 .. WordCount(b) - 1 :
        Words(b, skip16)[k] = IF k = skip16 THEN 0 ELSE LoadBig16(b, k)
  BY <1>2
<1>4. \A k \in 0 .. WordCount(b) - 1 :
        Words(b, skip16)[k] \in Nat /\ Words(b, skip16)[k] <= 65535
  BY <1>1, <1>3
<1> QED
  BY <1>2, <1>4

\* The left-over byte.
LeftOver(b) == IF Len(b) % 2 = 1 THEN b[Len(b)] ELSE 0

LEMMA LeftOverIs ==
  ASSUME NEW b \in Seq(Byte)
  PROVE  LeftOver(b) \in Byte
<1>1. CASE Len(b) % 2 = 1
  <2>1. Len(b) \in 1 .. Len(b)
    BY <1>1, Places
  <2>2. b[Len(b)] \in Byte
    BY <2>1, ElementOfSeq
  <2> QED
    BY <1>1, <2>2 DEF LeftOver
<1>2. CASE Len(b) % 2 # 1
  BY <1>2 DEF LeftOver, Byte
<1> QED
  BY <1>1, <1>2

\* The sum of a message of 65535 bytes fits into 31 bits.
LEMMA Sum32Is ==
  ASSUME NEW b \in Seq(Byte), NEW skip16
  PROVE  /\ Sum32(b, skip16) = SumOf(Words(b, skip16), WordCount(b)) + LeftOver(b)
         /\ SumOf(Words(b, skip16), WordCount(b)) \in Nat
         /\ Sum32(b, skip16) \in Nat
         /\ Len(b) <= 65535 => Sum32(b, skip16) <= 2147483647
<1> DEFINE s == SumOf(Words(b, skip16), WordCount(b))
           l == LeftOver(b)
           n == WordCount(b)
<1>1. s \in Nat /\ s <= n * 65535
  <2> DEFINE m == 65535
  <2>1. /\ WordCount(b) \in Nat /\ m \in Nat
        /\ Words(b, skip16) \in [0 .. WordCount(b) - 1 -> Nat]
        /\ \A k \in 0 .. WordCount(b) - 1 : Words(b, skip16)[k] <= m
    BY Places, WordsAre
  <2> HIDE DEF m
  <2>2. s \in Nat /\ s <= n * m
    BY <2>1, SumBound
  <2> QED
    BY <2>2 DEF m
<1>2. l \in Nat /\ l <= 255
  <2>1. \A x \in Byte : x \in Nat /\ x <= 255
    BY DEF Byte
  <2>2. l \in Byte
    BY LeftOverIs
  <2> HIDE DEF l
  <2> QED
    BY <2>1, <2>2
<1>3. Sum32(b, skip16) = s + l
  BY DEF Sum32, LeftOver, WordCount
<1>4. n \in Nat /\ (Len(b) <= 65535 => n <= 32767)
  BY Places
<1> HIDE DEF s, l, n
<1>5. s + l \in Nat /\ (n <= 32767 => s + l <= 2147483647)
  BY <1>1, <1>2, <1>4
<1> QED
  BY <1>1, <1>3, <1>4, <1>5 DEF s, l, n

LEMMA ChecksumIs ==
  ASSUME NEW b \in Seq(Byte), NEW skip16
  PROVE  /\ Checksum(b, skip16) = 65535 - EndAround(Sum32(b, skip16))
         /\ Checksum(b, skip16) \in Nat /\ Checksum(b, skip16) <= 65535
<1>1. Sum32(b, skip16) \in Nat
  BY Sum32Is
<1>2. Checksum(b, skip16) = 65535 - EndAround(Sum32(b, skip16))
  BY <1>1, FoldIs DEF Checksum
<1> QED
  BY <1>1, <1>2, ComplementIs

\* Two messages that differ in one word at most, word k, have the same sum of
\* all else.
LEMMA AllButOneWord ==
  ASSUME NEW b \in Seq(Byte), NEW c \in Seq(Byte), Len(c) = Len(b),
         NEW k \in 0 .. WordCount(b) - 1,
         \A i \in 1 .. Len(b) : i \notin {2 * k + 1, 2 * k + 2} => c[i] = b[i]
  PROVE  /\ \A j \in 0 .. WordCount(b) - 1 : j # k => LoadBig16(c, j) = LoadBig16(b, j)
         /\ LeftOver(c) = LeftOver(b)
         /\ Words(c, k) = Words(b, k)
         /\ Checksum(c, k) = Checksum(b, k)
<1>1. WordCount(c) = WordCount(b) /\ k \in Nat
  BY DEF WordCount
<1>2. ASSUME NEW j \in 0 .. WordCount(b) - 1, j # k
      PROVE  LoadBig16(c, j) = LoadBig16(b, j)
  <2>1. /\ 2 * j + 1 \in 1 .. Len(b) /\ 2 * j + 2 \in 1 .. Len(b)
        /\ 2 * j + 1 \notin {2 * k + 1, 2 * k + 2} /\ 2 * j + 2 \notin {2 * k + 1, 2 * k + 2}
    BY <1>2, Places
  <2>2. c[2 * j + 1] = b[2 * j + 1] /\ c[2 * j + 2] = b[2 * j + 2]
    BY <2>1
  <2> QED
    BY <2>2 DEF LoadBig16
<1>3. LeftOver(c) = LeftOver(b)
  <2>1. ASSUME Len(b) % 2 = 1
        PROVE  c[Len(b)] = b[Len(b)]
    <3>1. Len(b) \in 1 .. Len(b) /\ Len(b) \notin {2 * k + 1, 2 * k + 2}
      BY <2>1, Places
    <3> QED
      BY <3>1
  <2> QED
    BY <2>1 DEF LeftOver
<1>4. Words(c, k) = Words(b, k)
  <2>1. \A j \in 0 .. WordCount(b) - 1 :
          (IF j = k THEN 0 ELSE LoadBig16(c, j)) = (IF j = k THEN 0 ELSE LoadBig16(b, j))
    BY <1>2
  <2>2. /\ Words(c, k) = [j \in 0 .. WordCount(b) - 1 |-> IF j = k THEN 0 ELSE LoadBig16(c, j)]
        /\ Words(b, k) = [j \in 0 .. WordCount(b) - 1 |-> IF j = k THEN 0 ELSE LoadBig16(b, j)]
    BY <1>1 DEF Words, WordCount
  <2> QED
    BY <2>1, <2>2
<1>5. Sum32(c, k) = Sum32(b, k)
  BY <1>1, <1>3, <1>4, Sum32Is
<1>6. Checksum(c, k) = Checksum(b, k)
  BY <1>5, ChecksumIs
<1> QED
  BY <1>2, <1>3, <1>4, <1>6

\* A sealed message: its word k is the checksum of all else.
LEMMA SealIs ==
  ASSUME NEW b \in Seq(Byte), NEW k \in 0 .. WordCount(b) - 1
  PROVE  LET c == Seal(b, k)
         IN  /\ c \in Seq(Byte) /\ Len(c) = Len(b)
             /\ \A i \in 1 .. Len(b) : i \notin {2 * k + 1, 2 * k + 2} => c[i] = b[i]
             /\ LoadBig16(c, k) = Checksum(b, k)
             /\ IsSealed(c, k)
<1> DEFINE c == Seal(b, k)
           w == Checksum(b, k)
<1>1. w \in Nat /\ w <= 65535
  BY ChecksumIs
<1>2. c = StoreBig16(b, k, w)
  BY DEF Seal
<1> HIDE DEF c, w
<1>3. /\ c \in Seq(Byte) /\ Len(c) = Len(b)
      /\ \A i \in 1 .. Len(b) : i \notin {2 * k + 1, 2 * k + 2} => c[i] = b[i]
      /\ LoadBig16(c, k) = w
  BY <1>1, <1>2, StoredIs
<1>4. Checksum(c, k) = w
  <2>1. Checksum(c, k) = Checksum(b, k)
    BY <1>3, AllButOneWord
  <2> QED
    BY <2>1 DEF w
<1>5. IsSealed(c, k)
  BY <1>3, <1>4 DEF IsSealed
<1> QED
  BY <1>3, <1>5 DEF c, w
-------------------------------------------------------------------------------
(***************************************************************************)
(* Agreement with the reference.                                           *)
(***************************************************************************)
\* The reference adds all words of a message of even length.
LEMMA ReferenceIs ==
  ASSUME NEW b \in Seq(Byte), Len(b) % 2 = 0, NEW none, none \notin 0 .. WordCount(b) - 1
  PROVE  /\ ReferenceSum(b) = EndAround(SumOf(Words(b, none), WordCount(b)))
         /\ Words(b, none) = [k \in 0 .. WordCount(b) - 1 |-> LoadBig16(b, k)]
<1>1. \A k \in 0 .. WordCount(b) - 1 :
        (IF k = none THEN 0 ELSE LoadBig16(b, k)) = LoadBig16(b, k)
  OBVIOUS
<1>2. Words(b, none) = [k \in 0 .. WordCount(b) - 1 |->
                          IF k = none THEN 0 ELSE LoadBig16(b, k)]
  BY DEF Words, WordCount
<1>3. Words(b, none) = [k \in 0 .. WordCount(b) - 1 |-> LoadBig16(b, k)]
  BY <1>1, <1>2
<1>4. ReferenceSum(b) =
        EndAround(SumOf([k \in 0 .. WordCount(b) - 1 |-> b[2 * k + 1] * 256 + b[2 * k + 2]],
                        WordCount(b)))
  <2>1. Padded(b) = b
    BY DEF Padded
  <2> QED
    BY <2>1 DEF ReferenceSum, WordCount
<1>5. Words(b, none) = [k \in 0 .. WordCount(b) - 1 |-> b[2 * k + 1] * 256 + b[2 * k + 2]]
  BY <1>3 DEF LoadBig16
<1> QED
  BY <1>3, <1>4, <1>5

\* Nothing is left over.
LEMMA EvenSum ==
  ASSUME NEW b \in Seq(Byte), Len(b) % 2 = 0, NEW skip16
  PROVE  Sum32(b, skip16) = SumOf(Words(b, skip16), WordCount(b))
<1>1. LeftOver(b) = 0
  BY DEF LeftOver
<1> DEFINE s == SumOf(Words(b, skip16), WordCount(b))
<1>2. s \in Nat /\ Sum32(b, skip16) = s + LeftOver(b)
  BY Sum32Is
<1> HIDE DEF s
<1>3. Sum32(b, skip16) = s
  BY <1>1, <1>2
<1> QED
  BY <1>3 DEF s

LEMMA EvenChecksum ==
  ASSUME NEW b \in Seq(Byte), Len(b) % 2 = 0
  PROVE  /\ \A none : none \notin 0 .. WordCount(b) - 1 => Checksum(b, none) = Reference(b)
         /\ \A k \in 0 .. WordCount(b) - 1 :
              Checksum(b, k) = Reference(StoreBig16(b, k, 0))
<1>1. ASSUME NEW none, none \notin 0 .. WordCount(b) - 1
      PROVE  Checksum(b, none) = Reference(b)
  BY <1>1, ReferenceIs, EvenSum, ChecksumIs DEF Reference
<1>2. ASSUME NEW k \in 0 .. WordCount(b) - 1
      PROVE  Checksum(b, k) = Reference(StoreBig16(b, k, 0))
  <2> DEFINE c == StoreBig16(b, k, 0)
             none == WordCount(b)
  <2>1. /\ c \in Seq(Byte) /\ Len(c) = Len(b) /\ LoadBig16(c, k) = 0
        /\ \A i \in 1 .. Len(b) : i \notin {2 * k + 1, 2 * k + 2} => c[i] = b[i]
    <3>1. 0 \in Nat /\ 0 <= 65535
      OBVIOUS
    <3> QED
      BY <3>1, StoredIs
  <2> HIDE DEF c
  <2>2. WordCount(c) = WordCount(b) /\ none \notin 0 .. WordCount(b) - 1
    BY <2>1, Places DEF WordCount
  <2> HIDE DEF none
  <2>3. \A j \in 0 .. WordCount(b) - 1 : j # k => LoadBig16(c, j) = LoadBig16(b, j)
    BY <2>1, AllButOneWord
  <2>4. Words(c, none) = [j \in 0 .. WordCount(b) - 1 |-> LoadBig16(c, j)]
    BY <2>1, <2>2, ReferenceIs
  <2>5. Words(b, k) = [j \in 0 .. WordCount(b) - 1 |-> IF j = k THEN 0 ELSE LoadBig16(b, j)]
    BY DEF Words, WordCount
  <2>6. Words(c, none) = Words(b, k)
    BY <2>1, <2>3, <2>4, <2>5
  <2>7. ReferenceSum(c) = EndAround(Sum32(b, k))
    BY <2>1, <2>2, <2>6, ReferenceIs, EvenSum
  <2> QED
    BY <2>7, ChecksumIs DEF Reference, c
<1> QED
  BY <1>1, <1>2

\* All of a sealed message adds up to all ones.
LEMMA SealedAddsUp ==
  ASSUME NEW b \in Seq(Byte), Len(b) % 2 = 0, NEW k \in 0 .. WordCount(b) - 1
  PROVE  AcceptedElsewhere(Seal(b, k))
<1> DEFINE c == Seal(b, k)
           n == WordCount(b)
           f == Words(b, k)
           g == Words(c, n)
           t == SumOf(f, n)
<1>1. /\ c \in Seq(Byte) /\ Len(c) = Len(b) /\ LoadBig16(c, k) = Checksum(b, k)
      /\ \A i \in 1 .. Len(b) : i \notin {2 * k + 1, 2 * k + 2} => c[i] = b[i]
  BY SealIs
<1> HIDE DEF c
<1>2. WordCount(c) = n /\ n \in Nat /\ n \notin 0 .. n - 1
  BY <1>1, Places DEF WordCount
<1>3. \A j \in 0 .. n - 1 : j # k => LoadBig16(c, j) = LoadBig16(b, j)
  BY <1>1, AllButOneWord
<1>4. f = [j \in 0 .. n - 1 |-> IF j = k THEN 0 ELSE LoadBig16(b, j)]
  BY DEF Words, WordCount
<1>5. g = [j \in 0 .. n - 1 |-> LoadBig16(c, j)] /\ ReferenceSum(c) = EndAround(SumOf(g, n))
  BY <1>1, <1>2, ReferenceIs
<1>6. f \in [0 .. n - 1 -> Nat] /\ g \in [0 .. n - 1 -> Nat]
  BY <1>1, <1>2, WordsAre
<1>7. t = Sum32(b, k) /\ t \in Nat
  BY EvenSum, Sum32Is
<1>8. f[k] = 0 /\ g[k] = 65535 - EndAround(t)
  BY <1>1, <1>4, <1>5, <1>7, ChecksumIs
<1>9. \A j \in 0 .. n - 1 : j # k => f[j] = g[j]
  BY <1>3, <1>4, <1>5
<1> HIDE DEF n, f, g
<1>10. t + g[k] = SumOf(g, n) + f[k]
  <2>1. n \in Nat /\ k \in 0 .. n - 1
    BY <1>2 DEF n
  <2> QED
    BY <2>1, <1>6, <1>9, SumDiffer
<1>11. SumOf(g, n) = t + (65535 - EndAround(t))
  <2>1. SumOf(g, n) \in Nat
    BY <1>1, <1>2, Sum32Is DEF n, g
  <2> DEFINE u == SumOf(g, n)
  <2>2. u \in Nat /\ t + g[k] = u + 0
    BY <1>8, <1>10, <2>1
  <2> HIDE DEF u, t
  <2>3. t + g[k] = u
    BY <2>2
  <2> QED
    BY <2>3, <1>8 DEF u
<1> HIDE DEF t
<1>12. ReferenceSum(c) = 65535
  BY <1>5, <1>7, <1>11, ComplementAddsUp
<1> QED
  BY <1>12 DEF AcceptedElsewhere, c
-------------------------------------------------------------------------------
(***************************************************************************)
(* Damage: c is sealed, d is c with another byte at i.                     *)
(***************************************************************************)
\* Two numbers that differ, but by less than 65535.
Near(a, b) == a # b /\ a < b + 65535 /\ b < a + 65535

\* Checksums differ if the sums differ, by less than 65535.
LEMMA ChecksumDiffers ==
  ASSUME NEW c \in Seq(Byte), NEW d \in Seq(Byte), NEW k,
         Near(Sum32(c, k), Sum32(d, k))
  PROVE  Checksum(c, k) # Checksum(d, k)
<1> DEFINE x == EndAround(Sum32(c, k))
           y == EndAround(Sum32(d, k))
<1>1. Sum32(c, k) \in Nat /\ Sum32(d, k) \in Nat
  BY Sum32Is
<1>2. x \in Nat /\ y \in Nat
  BY <1>1, EndAroundBounds
<1>3. x # y
  BY <1>1, EndAroundDiffers DEF Near
<1>4. Checksum(c, k) = 65535 - x /\ Checksum(d, k) = 65535 - y
  BY ChecksumIs
<1> HIDE DEF x, y
<1>5. 65535 - x # 65535 - y
  BY <1>2, <1>3
<1> QED
  BY <1>4, <1>5

\* A word with one byte changed is another word.
LEMMA WordDiffers ==
  ASSUME NEW c \in Seq(Byte), NEW d \in Seq(Byte), Len(d) = Len(c),
         NEW j \in 0 .. WordCount(c) - 1, NEW i \in {2 * j + 1, 2 * j + 2},
         d[i] # c[i], \A l \in 1 .. Len(c) : l # i => d[l] = c[l]
  PROVE  Near(LoadBig16(c, j), LoadBig16(d, j))
<1> DEFINE p == c[2 * j + 1]
           q == c[2 * j + 2]
           r == d[2 * j + 1]
           s == d[2 * j + 2]
<1>1. WordCount(d) = WordCount(c)
  BY DEF WordCount
<1>2. /\ p \in Byte /\ q \in Byte /\ r \in Byte /\ s \in Byte
      /\ 2 * j + 1 \in 1 .. Len(c) /\ 2 * j + 2 \in 1 .. Len(c)
  BY <1>1, WordIs, Places
<1>3. (p # r /\ q = s) \/ (p = r /\ q # s)
  <2>1. 2 * j + 1 # 2 * j + 2
    OBVIOUS
  <2> QED
    BY <1>2, <2>1
<1>4. LoadBig16(c, j) = p * 256 + q /\ LoadBig16(d, j) = r * 256 + s
  BY DEF LoadBig16
<1> HIDE DEF p, q, r, s
<1>5. Near(p * 256 + q, r * 256 + s)
  BY <1>2, <1>3 DEF Byte, Near
<1> QED
  BY <1>4, <1>5

LEMMA DamageShows ==
  ASSUME NEW c \in Seq(Byte), NEW k \in 0 .. WordCount(c) - 1, IsSealed(c, k),
         NEW i \in 1 .. Len(c), NEW x \in Byte, x # c[i]
  PROVE  ~IsSealed([c EXCEPT ![i] = x], k)
<1> DEFINE d == [c EXCEPT ![i] = x]
           n == WordCount(c)
<1>1. d \in Seq(Byte) /\ Len(d) = Len(c) /\ d[i] # c[i]
      /\ \A l \in 1 .. Len(c) : l # i => d[l] = c[l]
  BY ExceptSeq
<1> SUFFICES ~IsSealed(d, k)
  OBVIOUS
<1> HIDE DEF d
<1>2. WordCount(d) = n /\ n \in Nat
  BY <1>1, Places DEF WordCount
<1>3. ASSUME LoadBig16(d, k) # LoadBig16(c, k), Checksum(d, k) = Checksum(c, k)
      PROVE  ~IsSealed(d, k)
  BY <1>3 DEF IsSealed
<1>4. ASSUME LoadBig16(d, k) = LoadBig16(c, k), Checksum(d, k) # Checksum(c, k)
      PROVE  ~IsSealed(d, k)
  BY <1>4 DEF IsSealed
<1>5. PICK j \in Nat : i = 2 * j + 1 \/ i = 2 * j + 2
  <2> DEFINE h == (i - 1) \div 2
  <2>1. i \in Nat /\ i # 0
    BY Places
  <2>2. h \in Nat /\ (i = 2 * h + 1 \/ i = 2 * h + 2)
    BY <2>1
  <2> HIDE DEF h
  <2> QED
    BY <2>2
\* The checksum itself is damaged.
<1>6. CASE j = k
  <2>1. LoadBig16(d, k) # LoadBig16(c, k)
    <3>1. k \in 0 .. WordCount(c) - 1 /\ i \in {2 * k + 1, 2 * k + 2}
      BY <1>5, <1>6
    <3> HIDE DEF n
    <3>2. Near(LoadBig16(c, k), LoadBig16(d, k))
      BY <1>1, <3>1, WordDiffers
    <3> QED
      BY <3>2 DEF Near
  <2>2. \A l \in 1 .. Len(c) : l \notin {2 * k + 1, 2 * k + 2} => d[l] = c[l]
    BY <1>1, <1>5, <1>6
  <2>3. Checksum(d, k) = Checksum(c, k)
    BY <1>1, <2>2, AllButOneWord
  <2> QED
    BY <1>3, <2>1, <2>3
\* Another word is.
<1>7. CASE j # k /\ j < n
  <2> DEFINE f == Words(c, k)
             g == Words(d, k)
             s == SumOf(f, n)
             t == SumOf(g, n)
             u == LeftOver(c)
  <2>0. j \in 0 .. n - 1 /\ k \in 0 .. n - 1
    BY <1>2, <1>5, <1>7
  <2>1. \A l \in 1 .. Len(c) : l \notin {2 * j + 1, 2 * j + 2} => d[l] = c[l]
    BY <1>1, <1>5
  <2>2. /\ \A l \in 0 .. n - 1 : l # j => LoadBig16(d, l) = LoadBig16(c, l)
        /\ LeftOver(d) = u
    BY <1>1, <2>0, <2>1, AllButOneWord
  <2>3. /\ f = [l \in 0 .. n - 1 |-> IF l = k THEN 0 ELSE LoadBig16(c, l)]
        /\ g = [l \in 0 .. n - 1 |-> IF l = k THEN 0 ELSE LoadBig16(d, l)]
    BY <1>2 DEF Words, WordCount
  <2>4. f \in [0 .. n - 1 -> Nat] /\ g \in [0 .. n - 1 -> Nat]
    BY <1>1, <1>2, WordsAre
  <2>5. f[j] = LoadBig16(c, j) /\ g[j] = LoadBig16(d, j)
    BY <2>0, <2>3, <1>7
  <2>6. \A l \in 0 .. n - 1 : l # j => f[l] = g[l]
    BY <2>2, <2>3
  <2>7. f[j] \in Nat /\ g[j] \in Nat /\ Near(f[j], g[j])
    <3>1. f[j] \in Nat /\ g[j] \in Nat
      BY <2>0, <2>4
    <3>2. Near(LoadBig16(c, j), LoadBig16(d, j))
      <4>1. j \in 0 .. WordCount(c) - 1 /\ i \in {2 * j + 1, 2 * j + 2}
        BY <2>0, <1>5
      <4> HIDE DEF n, f, g, s, t, u
      <4> QED
        BY <4>1, <1>1, WordDiffers
    <3> QED
      BY <3>1, <3>2, <2>5
  <2>8. u \in Nat /\ s \in Nat /\ t \in Nat
        /\ Sum32(c, k) = s + u /\ Sum32(d, k) = t + u
    <3>1. \A y \in Byte : y \in Nat
      BY DEF Byte
    <3>2. u \in Nat
      BY <3>1, LeftOverIs
    <3> QED
      BY <1>1, <1>2, <2>2, <3>2, Sum32Is
  <2> HIDE DEF f, g
  <2>9. s + g[j] = t + f[j]
    BY <1>2, <2>0, <2>4, <2>6, SumDiffer
  <2> HIDE DEF s, t, u
  <2>10. Near(s + u, t + u)
    <3> DEFINE p == f[j]
               q == g[j]
    <3>1. p \in Nat /\ q \in Nat /\ Near(p, q) /\ s + q = t + p
      BY <2>7, <2>9
    <3> HIDE DEF p, q
    <3> QED
      BY <2>8, <3>1 DEF Near
  <2>11. Checksum(c, k) # Checksum(d, k)
    BY <1>1, <2>8, <2>10, ChecksumDiffers
  <2> QED
    BY <1>4, <2>0, <2>2, <2>11, <1>7
\* The left-over byte is.
<1>8. CASE j >= n
  <2>1. i = Len(c) /\ Len(c) % 2 = 1 /\ j = n
    BY <1>2, <1>5, <1>8, Places
  <2>2. \A l \in 0 .. n - 1 : LoadBig16(d, l) = LoadBig16(c, l)
    <3> TAKE l \in 0 .. n - 1
    <3>1. 2 * l + 1 \in 1 .. Len(c) /\ 2 * l + 2 \in 1 .. Len(c)
      BY Places
    <3>3. 2 * l + 1 # i /\ 2 * l + 2 # i
      BY <1>2, <1>5, <2>1
    <3>2. d[2 * l + 1] = c[2 * l + 1] /\ d[2 * l + 2] = c[2 * l + 2]
      BY <1>1, <3>1, <3>3
    <3> QED
      BY <3>2 DEF LoadBig16
  <2> DEFINE f == Words(c, k)
             s == SumOf(f, n)
             u == LeftOver(c)
             v == LeftOver(d)
  <2>3. Words(d, k) = f
    <3>1. \A l \in 0 .. n - 1 : (IF l = k THEN 0 ELSE LoadBig16(c, l))
                                  = (IF l = k THEN 0 ELSE LoadBig16(d, l))
      BY <2>2
    <3>2. /\ f = [l \in 0 .. n - 1 |-> IF l = k THEN 0 ELSE LoadBig16(c, l)]
          /\ Words(d, k) = [l \in 0 .. n - 1 |-> IF l = k THEN 0 ELSE LoadBig16(d, l)]
      BY <1>2 DEF Words, WordCount
    <3> QED
      BY <3>1, <3>2
  <2>4. u \in Byte /\ v \in Byte /\ u # v
    <3>1. u = c[i] /\ v = d[i]
      BY <1>1, <2>1 DEF LeftOver
    <3> QED
      BY <1>1, <3>1, LeftOverIs
  <2>5. s \in Nat /\ Sum32(c, k) = s + u /\ Sum32(d, k) = s + v
    BY <1>1, <1>2, <2>3, Sum32Is
  <2> HIDE DEF s, u, v
  <2>6. Near(s + u, s + v)
    BY <2>4, <2>5 DEF Byte, Near
  <2>7. Checksum(c, k) # Checksum(d, k)
    BY <1>1, <2>5, <2>6, ChecksumDiffers
  <2> QED
    BY <1>4, <2>2, <2>7
<1> QED
  BY <1>2, <1>5, <1>6, <1>7, <1>8
-------------------------------------------------------------------------------
(***************************************************************************)
(* The theorems about messages.                                            *)
(***************************************************************************)
\* A message is bytes, and not too long.
IInv == bytes \in Seq(Byte) /\ Len(bytes) <= MaxLength

LEMMA Invariance == MessageSpec => []IInv
<1>1. NoMessage => IInv
  <2>1. <<>> \in Seq(Byte) /\ Len(<<>>) = 0 /\ 0 <= MaxLength
    BY MessageAssumption, EmptySeq
  <2> QED
    BY <2>1 DEF NoMessage, IInv
<1>2. ASSUME IInv, [GrowMessage]_bytes
      PROVE  IInv'
  <2>1. CASE GrowMessage
    <3>1. PICK b \in Bytes : bytes' = Append(bytes, b)
      BY <2>1 DEF GrowMessage
    <3>2. b \in Byte
      BY MessageAssumption
    <3>3. bytes' \in Seq(Byte) /\ Len(bytes') = Len(bytes) + 1
      BY <1>2, <3>1, <3>2, AppendProperties DEF IInv
    <3> DEFINE l == Len(bytes)
               m == Len(bytes')
    <3>4. l \in Nat /\ l < MaxLength /\ m = l + 1 /\ MaxLength \in Nat
      BY <1>2, <2>1, <3>3, LenProperties, MessageAssumption DEF IInv, GrowMessage
    <3> HIDE DEF l, m
    <3>5. m <= MaxLength
      BY <3>4
    <3> QED
      BY <3>3, <3>5 DEF IInv, m
  <2>2. CASE UNCHANGED bytes
    BY <1>2, <2>2 DEF IInv
  <2> QED
    BY <1>2, <2>1, <2>2
<1> QED
  BY <1>1, <1>2, PTL DEF MessageSpec

\* The signed 32-bit sum of checksum() does not overflow, whatever message of
\* up to 65535 bytes it is taken over and whichever word it leaves out.
THEOREM NoOverflow == MessageSpec => [](\A k : Sum32(bytes, k) <= 2147483647)
<1>1. IInv => \A k : Sum32(bytes, k) <= 2147483647
  <2> SUFFICES ASSUME IInv
               PROVE  \A k : Sum32(bytes, k) <= 2147483647
    OBVIOUS
  <2>1. bytes \in Seq(Byte) /\ Len(bytes) \in Nat /\ Len(bytes) <= MaxLength
    BY LenProperties DEF IInv
  <2> DEFINE l == Len(bytes)
  <2>2. l \in Nat /\ l <= MaxLength
    BY <2>1
  <2> HIDE DEF l
  <2>3. l <= 65535
    BY <2>2, MessageAssumption
  <2> QED
    BY <2>1, <2>3, Sum32Is DEF l
<1> QED
  BY <1>1, Invariance, PTL

\* Over an even number of bytes checksum() is the Internet checksum, and leaving
\* a word out is the same as having zero there.
THEOREM EvenIsInternet == MessageSpec => []EvenIsReference
<1>1. IInv => EvenIsReference
  <2> SUFFICES ASSUME IInv, Len(bytes) % 2 = 0
               PROVE  /\ Checksum(bytes, MaxLength) = Reference(bytes)
                      /\ \A k \in CheckWords :
                           Checksum(bytes, k) = Reference(StoreBig16(bytes, k, 0))
    BY DEF EvenIsReference
  <2>1. bytes \in Seq(Byte)
    BY DEF IInv
  <2>2. MaxLength \notin 0 .. WordCount(bytes) - 1
    <3> DEFINE n == WordCount(bytes)
               l == Len(bytes)
    <3>1. n \in Nat /\ l \in Nat /\ l >= 2 * n /\ l <= MaxLength /\ MaxLength \in Nat
      BY <2>1, Places, MessageAssumption DEF IInv
    <3> HIDE DEF n, l
    <3>2. MaxLength \notin 0 .. n - 1
      BY <3>1
    <3> QED
      BY <3>2 DEF n
  <2>3. CheckWords = 0 .. WordCount(bytes) - 1
    BY DEF CheckWords, WordCount
  <2> QED
    BY <2>1, <2>2, <2>3, EvenChecksum
<1> QED
  BY <1>1, Invariance, PTL

\* A sealed message is found sealed by this program, whatever its length, and by
\* all other hosts if its length is even.
THEOREM SealingIsSound == MessageSpec => []SealedIsValid
<1>1. IInv => SealedIsValid
  <2> SUFFICES ASSUME IInv, NEW k \in CheckWords
               PROVE  /\ IsSealed(Seal(bytes, k), k)
                      /\ Len(bytes) % 2 = 0 => AcceptedElsewhere(Seal(bytes, k))
    BY DEF SealedIsValid
  <2>1. bytes \in Seq(Byte) /\ k \in 0 .. WordCount(bytes) - 1
    BY DEF IInv, CheckWords, WordCount
  <2> QED
    BY <2>1, SealIs, SealedAddsUp
<1> QED
  BY <1>1, Invariance, PTL

\* No damage of one byte goes unnoticed, over an odd number of bytes either.
THEOREM DamageIsNoticed == MessageSpec => []DamageNoticed
<1>1. IInv => DamageNoticed
  <2> SUFFICES ASSUME IInv, NEW k \in CheckWords, NEW i \in 1 .. Len(bytes),
                      NEW b \in Bytes, b # Seal(bytes, k)[i]
               PROVE  ~IsSealed([Seal(bytes, k) EXCEPT ![i] = b], k)
    BY DEF DamageNoticed
  <2> DEFINE c == Seal(bytes, k)
  <2>1. bytes \in Seq(Byte) /\ k \in 0 .. WordCount(bytes) - 1 /\ b \in Byte
    BY MessageAssumption DEF IInv, CheckWords, WordCount
  <2>2. c \in Seq(Byte) /\ Len(c) = Len(bytes) /\ IsSealed(c, k)
    BY <2>1, SealIs
  <2>3. b # c[i]
    OBVIOUS
  <2> SUFFICES ~IsSealed([c EXCEPT ![i] = b], k)
    OBVIOUS
  <2> HIDE DEF c
  <2>4. k \in 0 .. WordCount(c) - 1 /\ i \in 1 .. Len(c)
    BY <2>1, <2>2 DEF WordCount
  <2> QED
    BY <2>1, <2>2, <2>3, <2>4, DamageShows
<1> QED
  BY <1>1, Invariance, PTL
-------------------------------------------------------------------------------
(***************************************************************************)
(* Buffers.                                                                *)
(***************************************************************************)
\* Buffers of n bytes.
Buffers(n) == {b \in Seq(Byte) : Len(b) = n}

LEMMA BufferIs ==
  ASSUME NEW n \in Nat, NEW b \in Buffers(n)
  PROVE  b \in Seq(Byte) /\ Len(b) = n /\ \A i \in 1 .. n : b[i] \in Byte
<1>1. b \in Seq(Byte) /\ Len(b) = n
  BY DEF Buffers
<1> QED
  BY <1>1, ElementOfSeq

LEMMA BuffersEqual ==
  ASSUME NEW n \in Nat, NEW b \in Buffers(n), NEW c \in Buffers(n),
         \A i \in 1 .. n : b[i] = c[i]
  PROVE  b = c
<1>1. b \in Seq(Byte) /\ Len(b) = n /\ c \in Seq(Byte) /\ Len(c) = n
  BY BufferIs
<1> QED
  BY <1>1, SeqEqual

\* Functions are buffers: addresses are.
LEMMA FunctionIs ==
  ASSUME NEW n \in Nat, NEW a \in [1 .. n -> Byte]
  PROVE  a \in Buffers(n)
<1>1. a \in Seq(Byte)
  BY SeqDef
<1>2. Len(a) \in Nat /\ DOMAIN a = 1 .. Len(a) /\ DOMAIN a = 1 .. n
  BY <1>1, LenProperties
<1> QED
  BY <1>1, <1>2 DEF Buffers

LEMMA BufferIsFunction ==
  ASSUME NEW n \in Nat, NEW a \in Buffers(n)
  PROVE  a \in [1 .. n -> Byte]
<1>1. a \in Seq(Byte) /\ Len(a) = n
  BY BufferIs
<1>2. a \in [1 .. Len(a) -> Byte]
  BY <1>1, LenProperties
<1> QED
  BY <1>1, <1>2

LEMMA OneByte ==
  ASSUME NEW x \in Byte
  PROVE  <<x>> \in Buffers(1) /\ <<x>>[1] = x
<1>1. <<x>> \in [1 .. 1 -> Byte]
  OBVIOUS
<1> QED
  BY <1>1, FunctionIs

LEMMA TwoBytes ==
  ASSUME NEW x \in Byte, NEW y \in Byte
  PROVE  <<x, y>> \in Buffers(2) /\ <<x, y>>[1] = x /\ <<x, y>>[2] = y
<1>1. <<x, y>> \in [1 .. 2 -> Byte]
  OBVIOUS
<1> QED
  BY <1>1, FunctionIs

\* One buffer behind another.
Joined(c, m, a, n, b) ==
  c \in Buffers(n) /\ \A i \in 1 .. n : c[i] = IF i <= m THEN a[i] ELSE b[i - m]

LEMMA JoinIs ==
  ASSUME NEW m \in Nat, NEW n \in Nat, m <= n, NEW a \in Buffers(m), NEW b \in Buffers(n - m)
  PROVE  Joined(a \o b, m, a, n, b)
<1>1. a \in Seq(Byte) /\ b \in Seq(Byte) /\ Len(a) = m /\ Len(b) = n - m
  BY BufferIs
<1>2. /\ a \o b \in Seq(Byte) /\ Len(a \o b) = Len(a) + Len(b)
      /\ \A i \in 1 .. Len(a) + Len(b) :
           (a \o b)[i] = IF i <= Len(a) THEN a[i] ELSE b[i - Len(a)]
  <2>1. a \in Seq(Byte) /\ b \in Seq(Byte)
    BY <1>1
  <2> QED
    BY <2>1, ConcatProperties
<1>3. m + (n - m) = n
  OBVIOUS
<1> QED
  BY <1>1, <1>2, <1>3 DEF Buffers, Joined

\* The bytes copied.
LEMMA CopyIs ==
  ASSUME NEW n \in Nat, NEW b \in Buffers(n), NEW p \in Nat, NEW m \in Nat, p + m <= n
  PROVE  /\ Copy(b, p, m) \in Buffers(m)
         /\ \A i \in 1 .. m : Copy(b, p, m)[i] = b[p + i]
<1>1. \A i \in p + 1 .. p + m : b[i] \in Byte
  <2>1. \A i \in p + 1 .. p + m : i \in 1 .. n
    OBVIOUS
  <2> QED
    BY <2>1, BufferIs
<1>2. p + 1 \in Int /\ p + m \in Int /\ (p + m) - (p + 1) + 1 = m
      /\ \A i \in 1 .. m : (p + 1) + i - 1 = p + i
      /\ (IF p + 1 <= p + m THEN m ELSE 0) = m
  OBVIOUS
<1> DEFINE x == p + 1
           y == p + m
<1> HIDE DEF x, y
<1>3. /\ SubSeq(b, x, y) \in Seq(Byte)
      /\ Len(SubSeq(b, x, y)) = IF x <= y THEN y - x + 1 ELSE 0
      /\ \A i \in 1 .. y - x + 1 : SubSeq(b, x, y)[i] = b[x + i - 1]
  <2>1. x \in Int /\ y \in Int /\ \A i \in x .. y : b[i] \in Byte
    BY <1>1, <1>2 DEF x, y
  <2> QED
    BY <2>1, SubSeqProperties
<1>4. Copy(b, p, m) = SubSeq(b, x, y)
  BY DEF Copy, x, y
<1> QED
  BY <1>2, <1>3, <1>4 DEF x, y, Buffers

\* A part of a buffer that holds certain bytes is them.
LEMMA CopyOf ==
  ASSUME NEW n \in Nat, NEW b \in Buffers(n), NEW p \in Nat, NEW m \in Nat, p + m <= n,
         NEW s \in Buffers(m), \A i \in 1 .. m : b[p + i] = s[i]
  PROVE  Copy(b, p, m) = s
<1>1. /\ Copy(b, p, m) \in Buffers(m)
      /\ \A i \in 1 .. m : Copy(b, p, m)[i] = b[p + i]
  BY CopyIs
<1>2. \A i \in 1 .. m : Copy(b, p, m)[i] = s[i]
  BY <1>1
<1> QED
  BY <1>1, <1>2, BuffersEqual

\* Two buffers have the same bytes at p + 1 .. q.
Same(b, c, p, q) == \A i \in Nat : p < i /\ i <= q => c[i] = b[i]

\* A part of a buffer depends on its bytes only.
LEMMA CopySame ==
  ASSUME NEW n \in Nat, NEW b \in Buffers(n), NEW l \in Nat, NEW c \in Buffers(l),
         NEW p \in Nat, NEW m \in Nat, p + m <= n, p + m <= l, Same(b, c, p, p + m)
  PROVE  Copy(c, p, m) = Copy(b, p, m)
<1>1. /\ Copy(b, p, m) \in Buffers(m)
      /\ \A i \in 1 .. m : Copy(b, p, m)[i] = b[p + i]
  BY CopyIs
<1>2. ASSUME NEW i \in 1 .. m
      PROVE  c[p + i] = b[p + i]
  <2>1. p + i \in Nat /\ p < p + i /\ p + i <= p + m
    OBVIOUS
  <2> QED
    BY <2>1 DEF Same
<1>3. \A i \in 1 .. m : c[p + i] = Copy(b, p, m)[i]
  BY <1>1, <1>2
<1> QED
  BY <1>1, <1>3, CopyOf

\* What storing m bytes at p does to a buffer of n bytes.
Stored(n, b, p, m, c) ==
  c \in Buffers(n) /\ \A i \in 1 .. n : i <= p \/ p + m < i => c[i] = b[i]

\* What is at p: m bytes s, a byte, a word.
Holds(c, p, m, s) == Copy(c, p, m) = s /\ \A i \in 1 .. m : c[p + i] = s[i]
HoldsByte(c, p, x) == c[p + 1] = x
HoldsWord(c, p, w) ==
  Load16(c, p) = w /\ c[p + 1] = w \div 256 /\ c[p + 2] = w % 256

LEMMA StoreIs ==
  ASSUME NEW n \in Nat, NEW b \in Buffers(n), NEW p \in Nat, NEW m \in Nat, p + m <= n,
         NEW s \in Buffers(m), NEW c, c = b ++ Store(p, s)
  PROVE  Stored(n, b, p, m, c) /\ Holds(c, p, m, s)
<1> DEFINE x == Copy(b, 0, p)
           y == Copy(b, p + m, n - (p + m))
<1>1. Len(b) = n /\ Len(s) = m
  <2>1. Len(b) = n
    BY DEF Buffers
  <2>2. Len(s) = m
    BY DEF Buffers
  <2> QED
    BY <2>1, <2>2
<1>2. c = x \o s \o y
  <2>1. Store(p, s).at = p /\ Store(p, s).bytes = s
    BY DEF Store
  <2> QED
    BY <1>1, <2>1, Zenon DEF ++
<1>3. x \in Buffers(p) /\ \A i \in 1 .. p : x[i] = b[i]
  <2>1. 0 + p <= n /\ \A i \in 1 .. p : 0 + i = i
    OBVIOUS
  <2>2. x \in Buffers(p) /\ \A i \in 1 .. p : x[i] = b[0 + i]
    BY <2>1, CopyIs
  <2> QED
    BY <2>1, <2>2
<1>4. n - (p + m) \in Nat /\ p + m \in Nat /\ (p + m) + (n - (p + m)) = n
  OBVIOUS
<1>5. y \in Buffers(n - (p + m)) /\ \A i \in 1 .. n - (p + m) : y[i] = b[(p + m) + i]
  <2>1. (p + m) + (n - (p + m)) <= n
    OBVIOUS
  <2> QED
    BY <1>4, <2>1, CopyIs
<1> DEFINE z == x \o s
<1> HIDE DEF x, y
<1>6. z \in Buffers(p + m) /\ \A i \in 1 .. p + m : z[i] = IF i <= p THEN x[i] ELSE s[i - p]
  <2>1. (p + m) - p = m /\ p <= p + m
    OBVIOUS
  <2>2. Joined(z, p, x, p + m, s)
    BY <1>3, <1>4, <2>1, JoinIs
  <2> QED
    BY <2>2 DEF Joined
<1>7. c = z \o y
  BY <1>2
<1> HIDE DEF z
<1>8. c \in Buffers(n) /\ \A i \in 1 .. n : c[i] = IF i <= p + m THEN z[i] ELSE y[i - (p + m)]
  <2>1. Joined(z \o y, p + m, z, n, y)
    BY <1>4, <1>5, <1>6, JoinIs
  <2> QED
    BY <1>7, <2>1 DEF Joined
<1>9. ASSUME NEW i \in 1 .. m
      PROVE  c[p + i] = s[i]
  <2>1. p + i \in 1 .. n /\ p + i \in 1 .. p + m /\ ~(p + i <= p) /\ (p + i) - p = i
    OBVIOUS
  <2> QED
    BY <2>1, <1>6, <1>8
<1>10. ASSUME NEW i \in 1 .. n, i <= p \/ p + m < i
       PROVE  c[i] = b[i]
  <2>1. CASE i <= p
    <3>1. i \in 1 .. p + m /\ i \in 1 .. p /\ i <= p + m
      BY <2>1
    <3> QED
      BY <2>1, <3>1, <1>3, <1>6, <1>8
  <2>2. CASE p + m < i
    <3>1. i - (p + m) \in 1 .. n - (p + m) /\ (p + m) + (i - (p + m)) = i /\ ~(i <= p + m)
      BY <2>2
    <3> QED
      BY <3>1, <1>5, <1>8
  <2> QED
    BY <1>10, <2>1, <2>2
<1>11. Stored(n, b, p, m, c)
  BY <1>8, <1>10 DEF Stored
<1>12. Copy(c, p, m) = s
  BY <1>8, <1>9, CopyOf
<1> QED
  BY <1>9, <1>11, <1>12 DEF Holds

\* Elsewhere everything stays.
LEMMA StoredSame ==
  ASSUME NEW n \in Nat, NEW b, NEW p \in Nat, NEW m \in Nat, NEW c, Stored(n, b, p, m, c),
         NEW l \in Nat, NEW k \in Nat, k <= n, k <= p \/ p + m <= l
  PROVE  Same(b, c, l, k)
<1> SUFFICES ASSUME NEW i \in Nat, l < i, i <= k
             PROVE  c[i] = b[i]
  BY DEF Same
<1>1. i \in 1 .. n /\ (i <= p \/ p + m < i)
  OBVIOUS
<1> QED
  BY <1>1 DEF Stored

LEMMA WordBytes ==
  ASSUME NEW w \in Word
  PROVE  w \div 256 \in Byte /\ w % 256 \in Byte /\ 256 * (w \div 256) + (w % 256) = w
BY DEF Word, Byte

\* A word stored is the word loaded.
LEMMA StoreWord ==
  ASSUME NEW n \in Nat, NEW b \in Buffers(n), NEW p \in Nat, p + 2 <= n, NEW w \in Word,
         NEW c, c = b ++ Store(p, Big16(w))
  PROVE  Stored(n, b, p, 2, c) /\ HoldsWord(c, p, w)
<1> DEFINE x == w \div 256
           y == w % 256
           s == <<x, y>>
<1>1. x \in Byte /\ y \in Byte /\ 256 * x + y = w
  BY WordBytes
<1>2. c = b ++ Store(p, s)
  BY DEF Big16
<1> HIDE DEF x, y
<1>3. s \in Buffers(2) /\ s[1] = x /\ s[2] = y
  BY <1>1, TwoBytes
<1> HIDE DEF s
<1>4. Stored(n, b, p, 2, c) /\ Holds(c, p, 2, s)
  <2>1. s \in Buffers(2)
    BY <1>3
  <2> QED
    BY <1>2, <2>1, StoreIs
<1>5. c[p + 1] = s[1] /\ c[p + 2] = s[2]
  BY <1>4 DEF Holds
<1>6. Load16(c, p) = 256 * c[p + 1] + c[p + 2]
  BY p + 1 + 1 = p + 2 DEF Load16, Load8
<1> QED
  BY <1>1, <1>3, <1>4, <1>5, <1>6 DEF x, y, HoldsWord

LEMMA StoreByte ==
  ASSUME NEW n \in Nat, NEW b \in Buffers(n), NEW p \in Nat, p + 1 <= n, NEW x \in Byte,
         NEW c, c = b ++ Store(p, <<x>>)
  PROVE  Stored(n, b, p, 1, c) /\ HoldsByte(c, p, x)
<1> DEFINE s == <<x>>
<1>1. s \in Buffers(1) /\ s[1] = x
  BY OneByte
<1>2. c = b ++ Store(p, s)
  OBVIOUS
<1> HIDE DEF s
<1>3. Stored(n, b, p, 1, c) /\ Holds(c, p, 1, s)
  <2>1. s \in Buffers(1)
    BY <1>1
  <2> QED
    BY <1>2, <2>1, StoreIs
<1>4. c[p + 1] = s[1]
  BY <1>3 DEF Holds
<1> QED
  BY <1>1, <1>3, <1>4 DEF HoldsByte

------------------------------------------------------------------------------
(***************************************************************************)
(* What is loaded.                                                         *)
(***************************************************************************)
LEMMA Load16Same ==
  ASSUME NEW b, NEW c, NEW p \in Nat, Same(b, c, p, p + 2)
  PROVE  Load16(c, p) = Load16(b, p)
<1>1. p + 1 \in Nat /\ p + 2 \in Nat /\ p < p + 1 /\ p + 1 <= p + 2 /\ p < p + 2 /\ p + 1 + 1 = p + 2
  OBVIOUS
<1>2. c[p + 1] = b[p + 1] /\ c[p + 2] = b[p + 2]
  BY <1>1 DEF Same
<1> QED
  BY <1>1, <1>2 DEF Load16, Load8

LEMMA SamePart ==
  ASSUME NEW b, NEW c, NEW p \in Nat, NEW q \in Nat, Same(b, c, p, q),
         NEW k \in Nat, NEW l \in Nat, p <= k, l <= q
  PROVE  Same(b, c, k, l)
BY DEF Same

LEMMA Load32Same ==
  ASSUME NEW b, NEW c, NEW p \in Nat, Same(b, c, p, p + 4)
  PROVE  Load32(c, p) = Load32(b, p)
<1>1. p + 2 \in Nat /\ p + 4 \in Nat /\ p <= p + 2 /\ p + 2 <= p + 4 /\ p + 2 + 2 = p + 4 /\ p <= p
      /\ p + 4 <= p + 4
  OBVIOUS
<1>2. Same(b, c, p, p + 2)
  BY <1>1, SamePart
<1>3. Same(b, c, p + 2, p + 2 + 2)
  BY <1>1, SamePart
<1>4. Load16(c, p) = Load16(b, p)
  BY <1>2, Load16Same
<1>5. Load16(c, p + 2) = Load16(b, p + 2)
  BY <1>1, <1>3, Load16Same
<1> QED
  BY <1>4, <1>5 DEF Load32
------------------------------------------------------------------------------
(***************************************************************************)
(* Checksums in frames.                                                    *)
(***************************************************************************)
\* The l bytes at p of the buffer b carry their checksum as word k.
Sealed(b, p, l, k) == Load16(b, p + 2 * k) = Checksum(Copy(b, p, l), k)

LEMMA ChecksumIsWord ==
  ASSUME NEW n \in Nat, NEW b \in Buffers(n), NEW k
  PROVE  Checksum(b, k) \in Word
<1>1. b \in Seq(Byte)
  BY BufferIs
<1> DEFINE x == Checksum(b, k)
<1>2. x \in Nat /\ x <= 65535
  BY <1>1, ChecksumIs
<1> HIDE DEF x
<1>3. x \in Word
  BY <1>2 DEF Word
<1> QED
  BY <1>3 DEF x

\* A checksum stored in its place seals the bytes.
LEMMA StoreSeal ==
  ASSUME NEW n \in Nat, NEW b \in Buffers(n), NEW p \in Nat, NEW l \in Nat, p + l <= n,
         NEW k \in Nat, 2 * k + 2 <= l, NEW at, at = p + 2 * k,
         NEW w, w = Checksum(Copy(b, p, l), k),
         NEW c, c = b ++ Store(at, Big16(w))
  PROVE  Stored(n, b, at, 2, c) /\ Sealed(c, p, l, k)
<1> DEFINE x == Copy(b, p, l)
           y == Copy(c, p, l)
<1>1. x \in Buffers(l) /\ \A i \in 1 .. l : x[i] = b[p + i]
  BY CopyIs
<1>2. w \in Word
  BY <1>1, ChecksumIsWord
<1>3. at \in Nat /\ at + 2 <= n
  OBVIOUS
<1>4. Stored(n, b, at, 2, c) /\ HoldsWord(c, at, w)
  BY <1>2, <1>3, StoreWord
<1>5. c \in Buffers(n) /\ \A i \in 1 .. n : i <= at \/ at + 2 < i => c[i] = b[i]
  BY <1>4 DEF Stored
<1>6. y \in Buffers(l) /\ \A i \in 1 .. l : y[i] = c[p + i]
  BY <1>5, CopyIs
<1> HIDE DEF x, y
<1>7. ASSUME NEW i \in 1 .. l, i \notin {2 * k + 1, 2 * k + 2}
      PROVE  y[i] = x[i]
  <2>1. p + i \in 1 .. n /\ (p + i <= at \/ at + 2 < p + i)
    BY <1>7
  <2> QED
    BY <2>1, <1>1, <1>5, <1>6
<1>8. x \in Seq(Byte) /\ Len(x) = l /\ y \in Seq(Byte) /\ Len(y) = l
  BY <1>1, <1>6, BufferIs
<1>9. k \in 0 .. WordCount(x) - 1
  <2> DEFINE v == WordCount(x)
  <2>1. v \in Nat /\ (Len(x) = 2 * v \/ Len(x) = 2 * v + 1)
    BY <1>8, Places
  <2> HIDE DEF v
  <2>2. k \in 0 .. v - 1
    BY <1>8, <2>1
  <2> QED
    BY <2>2 DEF v
<1>10. Checksum(y, k) = Checksum(x, k)
  <2>1. Len(y) = Len(x) /\ \A i \in 1 .. Len(x) : i \notin {2 * k + 1, 2 * k + 2} => y[i] = x[i]
    BY <1>7, <1>8
  <2>2. x \in Seq(Byte) /\ y \in Seq(Byte)
    BY <1>8
  <2> QED
    BY <1>9, <2>1, <2>2, AllButOneWord
<1> QED
  BY <1>4, <1>10 DEF x, y, HoldsWord, Sealed

\* What is sealed stays so while its bytes stay.
LEMMA SealedSame ==
  ASSUME NEW n \in Nat, NEW b \in Buffers(n), NEW m \in Nat, NEW c \in Buffers(m),
         NEW p \in Nat, NEW l \in Nat, p + l <= n, p + l <= m,
         NEW k \in Nat, 2 * k + 2 <= l, Same(b, c, p, p + l), Sealed(b, p, l, k)
  PROVE  Sealed(c, p, l, k)
<1>1. Copy(c, p, l) = Copy(b, p, l)
  BY CopySame
<1>2. Load16(c, p + 2 * k) = Load16(b, p + 2 * k)
  <2> DEFINE at == p + 2 * k
             q == p + l
  <2>1. at \in Nat /\ q \in Nat /\ at + 2 \in Nat /\ p <= at /\ at + 2 <= q
    OBVIOUS
  <2>2. Same(b, c, p, q)
    OBVIOUS
  <2> HIDE DEF at, q
  <2>3. Same(b, c, at, at + 2)
    BY <2>1, <2>2, SamePart
  <2>4. Load16(c, at) = Load16(b, at)
    BY <2>1, <2>3, Load16Same
  <2> QED
    BY <2>4 DEF at
<1> QED
  BY <1>1, <1>2 DEF Sealed

------------------------------------------------------------------------------
(***************************************************************************)
(* Echo messages.                                                          *)
(***************************************************************************)
LEMMA StoreDoubleWord ==
  ASSUME NEW n \in Nat, NEW b \in Buffers(n), NEW p \in Nat, p + 4 <= n, NEW q \in Word \X Word,
         NEW c, c = b ++ Store(p, Big32(q))
  PROVE  Stored(n, b, p, 4, c) /\ Load32(c, p) = q
<1> DEFINE x == Big16(q[1])
           y == Big16(q[2])
           s == x \o y
<1>1. q[1] \in Word /\ q[2] \in Word /\ q = <<q[1], q[2]>>
  OBVIOUS
<1>2. /\ x \in Buffers(2) /\ 256 * x[1] + x[2] = q[1]
      /\ y \in Buffers(2) /\ 256 * y[1] + y[2] = q[2]
  <2>1. \A w \in Word : Big16(w) \in Buffers(2) /\ 256 * Big16(w)[1] + Big16(w)[2] = w
    <3> TAKE w \in Word
    <3> DEFINE u == w \div 256
               v == w % 256
    <3>1. u \in Byte /\ v \in Byte /\ 256 * u + v = w
      BY WordBytes
    <3>2. Big16(w) = <<u, v>>
      BY DEF Big16
    <3> HIDE DEF u, v
    <3>3. <<u, v>> \in Buffers(2) /\ <<u, v>>[1] = u /\ <<u, v>>[2] = v
      BY <3>1, TwoBytes
    <3> QED
      BY <3>1, <3>2, <3>3
  <2> QED
    BY <1>1, <2>1
<1>3. c = b ++ Store(p, s)
  BY DEF Big32
<1> HIDE DEF x, y
<1>4. Joined(s, 2, x, 4, y)
  BY <1>2, 4 - 2 = 2, JoinIs
<1> HIDE DEF s
<1>5. s \in Buffers(4) /\ s[1] = x[1] /\ s[2] = x[2] /\ s[3] = y[1] /\ s[4] = y[2]
  BY <1>4 DEF Joined
<1>6. Stored(n, b, p, 4, c) /\ Holds(c, p, 4, s)
  <2>1. s \in Buffers(4)
    BY <1>5
  <2> QED
    BY <1>3, <2>1, StoreIs
<1>7. c[p + 1] = x[1] /\ c[p + 2] = x[2] /\ c[p + 3] = y[1] /\ c[p + 4] = y[2]
  BY <1>5, <1>6 DEF Holds
<1>8. Load16(c, p) = 256 * c[p + 1] + c[p + 2]
  BY p + 1 + 1 = p + 2 DEF Load16, Load8
<1>9. Load16(c, p + 2) = 256 * c[p + 3] + c[p + 4]
  BY p + 2 + 1 = p + 3, p + 2 + 1 + 1 = p + 4 DEF Load16, Load8
<1>10. Load16(c, p) = q[1] /\ Load16(c, p + 2) = q[2]
  BY <1>2, <1>7, <1>8, <1>9
<1> QED
  BY <1>1, <1>6, <1>10 DEF Load32

\* An echo message in m of n bytes: what the IP layer has yet to fill in is missing.
Message(n, m, type, quench, payload, dest) ==
  /\ m \in Buffers(n)
  /\ m[15] = 69 /\ Load16(m, 16) = n - 18 /\ Load16(m, 20) = 0
  /\ m[24] = ProtoICMP /\ Copy(m, 30, 4) = dest
  /\ m[35] = type /\ Load32(m, 38) = quench
  /\ \A i \in 1 .. Len(payload) : m[42 + i] = payload[i]
  /\ Sealed(m, 34, n - 38, 1)

\* The frames this program builds: with a payload of at least the two words of an
\* ICMP header, and of no more than 65535 bytes.
FrameLengths == {n \in Nat : 46 <= n /\ n - 18 <= 65535}

LEMMA MessageIs ==
  ASSUME NEW n \in FrameLengths, NEW h \in Buffers(n), NEW type \in Byte, NEW ttl \in Byte,
         NEW quench \in Word \X Word, NEW k \in Nat, 46 + k <= n, NEW payload \in Buffers(k),
         NEW dest \in IPAddresses
  PROVE  Message(n, EchoMessage(h, type, quench, payload, dest, ttl), type, quench, payload, dest)
<1>0. n \in Nat /\ 46 <= n /\ 17664 \in Word /\ 0 \in Word /\ n - 18 \in Word /\ n - 18 \in Nat /\ Len(h) = n /\ Len(payload) = k
  BY BufferIs DEF FrameLengths, Word
<1> DEFINE b1 == h ++ Store(14, Big16(17664))
           b2 == b1 ++ Store(16, Big16(n - 18))
           b3 == b2 ++ Store(20, Big16(0))
           b4 == b3 ++ Store(34, <<type>>)
           b5 == b4 ++ Store(38, Big32(quench))
           b6 == b5 ++ Store(42, payload)
           w  == Checksum(Copy(b6, 34, n - 38), 1)
           b7 == b6 ++ Store(36, Big16(w))
           b8 == b7 ++ Store(30, dest)
           b9 == b8 ++ Store(23, <<ProtoICMP>>)
           m  == b9 ++ Store(22, <<ttl>>)
<1>1. Stored(n, h, 14, 2, b1) /\ HoldsWord(b1, 14, 17664)
  BY <1>0, StoreWord
<1>2. Stored(n, b1, 16, 2, b2) /\ HoldsWord(b2, 16, n - 18)
  <2>1. b1 \in Buffers(n)
    BY <1>1 DEF Stored
  <2> HIDE DEF b1
  <2> QED
    BY <1>0, <2>1, StoreWord
<1>3. Stored(n, b2, 20, 2, b3) /\ HoldsWord(b3, 20, 0)
  <2>1. b2 \in Buffers(n)
    BY <1>2 DEF Stored
  <2> HIDE DEF b2
  <2> QED
    BY <1>0, <2>1, StoreWord
<1>4. Stored(n, b3, 34, 1, b4) /\ HoldsByte(b4, 34, type)
  <2>1. b3 \in Buffers(n)
    BY <1>3 DEF Stored
  <2> HIDE DEF b3
  <2> QED
    BY <1>0, <2>1, StoreByte
<1>5. Stored(n, b4, 38, 4, b5) /\ Load32(b5, 38) = quench
  <2>1. b4 \in Buffers(n)
    BY <1>4 DEF Stored
  <2> HIDE DEF b4
  <2> QED
    BY <1>0, <2>1, StoreDoubleWord
<1>6. Stored(n, b5, 42, k, b6) /\ Holds(b6, 42, k, payload)
  <2>1. b5 \in Buffers(n)
    BY <1>5 DEF Stored
  <2> HIDE DEF b5
  <2> QED
    BY <1>0, <2>1, StoreIs
<1>7. Stored(n, b6, 36, 2, b7) /\ Sealed(b7, 34, n - 38, 1)
  <2>1. b6 \in Buffers(n)
    BY <1>6 DEF Stored
  <2> DEFINE l  == n - 38
             p  == 34
             k1 == 1
             at == 36
  <2>2. /\ l \in Nat /\ p \in Nat /\ k1 \in Nat /\ p + l <= n /\ 2 * k1 + 2 <= l
        /\ at = p + 2 * k1
        /\ w = Checksum(Copy(b6, p, l), k1) /\ b7 = b6 ++ Store(at, Big16(w))
    BY <1>0
  <2> HIDE DEF b6, b7, w, l, p, k1, at
  <2>3. Stored(n, b6, at, 2, b7) /\ Sealed(b7, p, l, k1)
    BY <1>0, <2>1, <2>2, StoreSeal
  <2> QED
    BY <2>3 DEF l, p, k1, at
<1>8. Stored(n, b7, 30, 4, b8) /\ Holds(b8, 30, 4, dest)
  <2>1. b7 \in Buffers(n)
    BY <1>7 DEF Stored
  <2>2. dest \in Buffers(4)
    BY FunctionIs DEF IPAddresses
  <2> HIDE DEF b7
  <2> QED
    BY <1>0, <2>1, <2>2, StoreIs
<1>9. Stored(n, b8, 23, 1, b9) /\ HoldsByte(b9, 23, ProtoICMP)
  <2>1. b8 \in Buffers(n)
    BY <1>8 DEF Stored
  <2>2. ProtoICMP \in Byte
    BY DEF ProtoICMP, Byte
  <2> HIDE DEF b8
  <2> QED
    BY <1>0, <2>1, <2>2, StoreByte
<1>10. Stored(n, b9, 22, 1, m) /\ HoldsByte(m, 22, ttl)
  <2>1. b9 \in Buffers(n)
    BY <1>9 DEF Stored
  <2> HIDE DEF b9
  <2> QED
    BY <1>0, <2>1, StoreByte
<1>11. EchoMessage(h, type, quench, payload, dest, ttl) = m
  <2> DEFINE ip == EthernetPayload(h)
             icmp == [at |-> 34, size |-> n - 38]
  <2>1. ip = [at |-> 14, size |-> n - 18]
    BY <1>0 DEF EthernetPayload, EthernetOverhead
  <2>2. ip.at = 14 /\ ip.size = n - 18 /\ icmp.at = 34 /\ icmp.size = n - 38
    BY <2>1
  <2>3. IPv4Headers(h, ip) = b3
    BY <2>2, 14 + 2 = 16, 14 + 6 = 20 DEF IPv4Headers
  <2>4. b3[15] = 69 /\ Load16(b3, 16) = n - 18
    <3> HIDE DEF b1, b2, b3
    <3>1. b1[15] = 69 /\ 15 \in 1 .. n /\ 14 + 1 = 15
      BY <1>0, <1>1 DEF HoldsWord
    <3>2. b3[15] = 69
      BY <1>2, <1>3, <3>1 DEF Stored
    <3>3. Same(b2, b3, 16, 16 + 2)
      BY <1>0, <1>3 DEF Stored, Same
    <3>4. Load16(b3, 16) = Load16(b2, 16)
      BY <3>3, Load16Same
    <3> QED
      BY <1>2, <3>2, <3>4 DEF HoldsWord
  <2> HIDE DEF b3, ip, icmp
  <2>5. HeaderLength(b3, ip) = 20 /\ TotalLength(b3, ip) = n - 18
    BY <2>2, <2>4, 14 + 1 = 15, 14 + 2 = 16, 69 % 16 = 5 DEF HeaderLength, TotalLength, Load8
  <2>6. IPv4Payload(b3, ip) = icmp
    BY <1>0, <2>2, <2>5 DEF IPv4Payload, icmp
  <2>7. ICMPChecksum(b6, icmp) = w
    BY <2>2 DEF ICMPChecksum
  <2> DEFINE f1 == b3 ++ Store(icmp.at, <<type>>)
             f2 == f1 ++ Store(icmp.at + 4, Big32(quench))
             f3 == f2 ++ Store(icmp.at + 8, payload)
             g1 == f3 ++ Store(icmp.at + 2, Big16(ICMPChecksum(f3, icmp)))
             g2 == g1 ++ Store(ip.at + 16, dest)
             g3 == g2 ++ Store(ip.at + 9, <<ProtoICMP>>)
             g4 == g3 ++ Store(ip.at + 8, <<ttl>>)
  <2>8. f3 = b6
    BY <2>2, 34 + 4 = 38, 34 + 8 = 42
  <2>9. g1 = b7
    <3> HIDE DEF f3, b6, w
    <3> QED
      BY <2>2, <2>7, <2>8, 34 + 2 = 36
  <2>10. g4 = m
    <3> HIDE DEF g1, b7
    <3> QED
      BY <2>2, <2>9, 14 + 16 = 30, 14 + 9 = 23, 14 + 8 = 22
  <2>11. EchoMessage(h, type, quench, payload, dest, ttl) = g4
    BY <2>3, <2>6 DEF EchoMessage, ICMPOverhead, ip
  <2> HIDE DEF g4, m
  <2> QED
    BY <2>10, <2>11
<1> HIDE DEF b1, b2, b3, b4, b5, b6, b7, b8, b9, m
<1>12. m \in Buffers(n)
  BY <1>10 DEF Stored
<1>13. m[15] = 69
  <2>1. b1[15] = 69 /\ 15 \in 1 .. n
    BY <1>0, <1>1, 14 + 1 = 15 DEF HoldsWord
  <2> QED
    BY <1>0, <1>2, <1>3, <1>4, <1>5, <1>6, <1>7, <1>8, <1>9, <1>10, <2>1 DEF Stored
<1>14. Load16(m, 16) = n - 18
  <2>1. Same(b2, m, 16, 16 + 2)
    <3> SUFFICES ASSUME NEW i \in Nat, 16 < i, i <= 16 + 2
                 PROVE  m[i] = b2[i]
      BY DEF Same
    <3>1. i \in 1 .. n /\ i <= 23
      BY <1>0
    <3> QED
      BY <1>3, <1>4, <1>5, <1>6, <1>7, <1>8, <1>9, <1>10, <3>1 DEF Stored
  <2> QED
    BY <1>2, <2>1, Load16Same DEF HoldsWord
<1>15. Load16(m, 20) = 0
  <2>1. Same(b3, m, 20, 20 + 2)
    <3> SUFFICES ASSUME NEW i \in Nat, 20 < i, i <= 20 + 2
                 PROVE  m[i] = b3[i]
      BY DEF Same
    <3>1. i \in 1 .. n /\ i <= 23
      BY <1>0
    <3> QED
      BY <1>4, <1>5, <1>6, <1>7, <1>8, <1>9, <1>10, <3>1 DEF Stored
  <2> QED
    BY <1>3, <2>1, Load16Same DEF HoldsWord
<1>16. m[35] = type
  <2>1. b4[35] = type /\ 35 \in 1 .. n
    BY <1>0, <1>4, 34 + 1 = 35 DEF HoldsByte
  <2> QED
    BY <1>0, <1>5, <1>6, <1>7, <1>8, <1>9, <1>10, <2>1 DEF Stored
<1>17. Load32(m, 38) = quench
  <2>1. Same(b5, m, 38, 38 + 4)
    <3> SUFFICES ASSUME NEW i \in Nat, 38 < i, i <= 38 + 4
                 PROVE  m[i] = b5[i]
      BY DEF Same
    <3>1. i \in 1 .. n /\ i <= 42
      BY <1>0
    <3> QED
      BY <1>6, <1>7, <1>8, <1>9, <1>10, <3>1 DEF Stored
  <2> QED
    BY <1>5, <2>1, Load32Same
<1>18. ASSUME NEW i \in 1 .. Len(payload)
       PROVE  m[42 + i] = payload[i]
  <2>1. i \in 1 .. k /\ 42 + i \in 1 .. n /\ 42 < 42 + i
    BY <1>0
  <2>2. b6[42 + i] = payload[i]
    BY <1>6, <2>1 DEF Holds
  <2> QED
    BY <1>0, <1>7, <1>8, <1>9, <1>10, <2>1, <2>2 DEF Stored
<1>19. Sealed(m, 34, n - 38, 1)
  <2> DEFINE l  == n - 38
             p  == 34
             k1 == 1
  <2>1. /\ l \in Nat /\ p \in Nat /\ k1 \in Nat /\ p + l <= n /\ 2 * k1 + 2 <= l
        /\ b7 \in Buffers(n)
    BY <1>0, <1>7 DEF Stored
  <2>2. Same(b7, m, p, p + l)
    BY <1>0, <1>8, <1>9, <1>10 DEF Stored, Same
  <2>3. Sealed(b7, p, l, k1)
    BY <1>7
  <2> HIDE DEF l, p, k1
  <2>4. Sealed(m, p, l, k1)
    BY <1>0, <1>12, <2>1, <2>2, <2>3, SealedSame
  <2> QED
    BY <2>4 DEF l, p, k1
<1>20. Copy(m, 30, 4) = dest
  <2>1. Same(b8, m, 30, 30 + 4)
    BY <1>0, <1>9, <1>10 DEF Stored, Same
  <2>2. b8 \in Buffers(n) /\ 30 + 4 <= n
    BY <1>0, <1>8 DEF Stored
  <2>3. Copy(m, 30, 4) = Copy(b8, 30, 4)
    BY <1>0, <1>12, <2>1, <2>2, CopySame
  <2> QED
    BY <1>8, <2>3 DEF Holds
<1>21. m[24] = ProtoICMP
  <2>1. b9[24] = ProtoICMP /\ 24 \in 1 .. n
    BY <1>0, <1>9, 23 + 1 = 24 DEF HoldsByte
  <2> QED
    BY <1>0, <1>10, <2>1 DEF Stored
<1> QED
  BY <1>11, <1>12, <1>13, <1>14, <1>15, <1>16, <1>17, <1>18, <1>19, <1>20, <1>21 DEF Message
------------------------------------------------------------------------------
(***************************************************************************)
(* Packets.                                                                *)
(***************************************************************************)
\* A packet of n bytes with the CRC, without padding, at the start of b.
Packet(n, b, hop, type, quench, source, dest) ==
  /\ Copy(b, 0, 6) = hop /\ Load16(b, 12) = TypeIPv4
  /\ b[15] = 69 /\ Load16(b, 16) = n - 18 /\ Load16(b, 20) = 0
  /\ b[24] = ProtoICMP /\ Copy(b, 26, 4) = source /\ Copy(b, 30, 4) = dest
  /\ b[35] = type /\ Load32(b, 38) = quench
  /\ Sealed(b, 14, 20, 5) /\ Sealed(b, 34, n - 38, 1)

LEMMA StationIs ==
  ASSUME NEW s \in Stations
  PROVE  s.mac \in Buffers(6) /\ s.ip \in Buffers(4)
<1>1. s.mac \in [1 .. 6 -> Byte] /\ s.ip \in [1 .. 4 -> Byte]
  BY DEF Stations, MacAddresses, IPAddresses
<1> QED
  BY <1>1, FunctionIs

\* The IP and the Ethernet layer complete a message.
LEMMA SentIs ==
  ASSUME NEW n \in FrameLengths, NEW type \in Byte, NEW quench, NEW payload, NEW dest,
         NEW b, Message(n, b, type, quench, payload, dest),
         NEW my \in Stations, NEW ident \in Nat, NEW hop \in MacAddresses
  PROVE  /\ SendFrame(b, my, ident, hop) \in Buffers(n)
         /\ Packet(n, SendFrame(b, my, ident, hop), hop, type, quench, my.ip, dest)
         /\ Same(b, SendFrame(b, my, ident, hop), 42, n)
<1>0. n \in Nat /\ 46 <= n /\ Len(b) = n /\ b \in Buffers(n) /\ b[15] = 69
  BY BufferIs DEF FrameLengths, Message
<1> DEFINE v  == ident % 256
           b1 == b ++ Store(18, Big16(v))
           b2 == b1 ++ Store(26, my.ip)
           w  == Checksum(Copy(b2, 14, 20), 5)
           b3 == b2 ++ Store(24, Big16(w))
           b4 == b3 ++ Store(12, Big16(TypeIPv4))
           b5 == b4 ++ Store(0, hop)
           m  == b5 ++ Store(6, my.mac)
<1>1. Stored(n, b, 18, 2, b1)
  <2>1. v \in Word
    BY DEF Word
  <2> HIDE DEF v
  <2> QED
    BY <1>0, <2>1, StoreWord
<1>2. Stored(n, b1, 26, 4, b2) /\ Holds(b2, 26, 4, my.ip)
  <2>1. b1 \in Buffers(n)
    BY <1>1 DEF Stored
  <2>2. my.ip \in Buffers(4)
    BY StationIs
  <2> DEFINE x == my.ip
  <2> HIDE DEF b1, x
  <2> QED
    BY <1>0, <2>1, <2>2, StoreIs DEF x
<1>3. Stored(n, b2, 24, 2, b3) /\ Sealed(b3, 14, 20, 5)
  <2>1. b2 \in Buffers(n)
    BY <1>2 DEF Stored
  <2> DEFINE l  == 20
             p  == 14
             k1 == 5
             at == 24
  <2>2. /\ l \in Nat /\ p \in Nat /\ k1 \in Nat /\ p + l <= n /\ 2 * k1 + 2 <= l
        /\ at = p + 2 * k1
        /\ w = Checksum(Copy(b2, p, l), k1) /\ b3 = b2 ++ Store(at, Big16(w))
    BY <1>0
  <2> HIDE DEF b2, b3, w, l, p, k1, at
  <2>3. Stored(n, b2, at, 2, b3) /\ Sealed(b3, p, l, k1)
    BY <1>0, <2>1, <2>2, StoreSeal
  <2> QED
    BY <2>3 DEF l, p, k1, at
<1>4. Stored(n, b3, 12, 2, b4) /\ HoldsWord(b4, 12, TypeIPv4)
  <2>1. b3 \in Buffers(n)
    BY <1>3 DEF Stored
  <2>2. TypeIPv4 \in Word
    BY DEF TypeIPv4, Word
  <2> HIDE DEF b3
  <2> QED
    BY <1>0, <2>1, <2>2, StoreWord
<1>5. Stored(n, b4, 0, 6, b5) /\ Holds(b5, 0, 6, hop)
  <2>1. b4 \in Buffers(n)
    BY <1>4 DEF Stored
  <2>2. hop \in Buffers(6)
    BY FunctionIs DEF MacAddresses
  <2> HIDE DEF b4
  <2> QED
    BY <1>0, <2>1, <2>2, StoreIs
<1>6. Stored(n, b5, 6, 6, m)
  <2>1. b5 \in Buffers(n)
    BY <1>5 DEF Stored
  <2>2. my.mac \in Buffers(6)
    BY StationIs
  <2> DEFINE x == my.mac
             p == 6
  <2>3. m = b5 ++ Store(p, x) /\ p \in Nat /\ p + 6 <= n /\ x \in Buffers(6)
    BY <1>0, <2>2
  <2> HIDE DEF b5, m, x, p
  <2>4. Stored(n, b5, p, 6, m)
    BY <1>0, <2>1, <2>3, StoreIs
  <2> QED
    BY <2>4 DEF p
<1>7. SendFrame(b, my, ident, hop) = m
  <2> DEFINE ip == EthernetPayload(b)
             f1 == b ++ Store(ip.at + 4, Big16(ident % 256))
             f2 == f1 ++ Store(ip.at + 12, my.ip)
             f3 == f2 ++ Store(ip.at + 10, Big16(IPv4Checksum(f2, ip)))
  <2>1. ip.at = 14
    BY DEF EthernetPayload
  <2> HIDE DEF ip
  <2>2. f2 = b2
    BY <2>1, 14 + 4 = 18, 14 + 12 = 26
  <2> HIDE DEF f2, b2
  <2>3. b2[15] = 69
    <3>1. 15 \in 1 .. n
      BY <1>0
    <3> QED
      BY <1>0, <1>1, <1>2, <3>1 DEF Stored
  <2>4. HeaderLength(b2, ip) = 20
    BY <2>1, <2>3, 14 + 1 = 15, 69 % 16 = 5 DEF HeaderLength, Load8
  <2>5. IPv4Checksum(f2, ip) = w
    BY <2>1, <2>2, <2>4 DEF IPv4Checksum
  <2>6. f3 = b3
    <3> HIDE DEF w
    <3> QED
      BY <2>1, <2>2, <2>5, 14 + 10 = 24
  <2>7. SendFrame(b, my, ident, hop) = EthernetHeader(f3, hop, my.mac, TypeIPv4)
    BY DEF SendFrame, f2, ip
  <2> HIDE DEF f3, b3
  <2> QED
    BY <2>6, <2>7 DEF EthernetHeader
<1> HIDE DEF b1, b2, b3, b4, b5, m
<1>8. m \in Buffers(n)
  BY <1>6 DEF Stored
<1>9. Copy(m, 0, 6) = hop
  <2>1. Same(b5, m, 0, 0 + 6)
    BY <1>0, <1>6 DEF Stored, Same
  <2>2. b5 \in Buffers(n) /\ 0 + 6 <= n
    BY <1>0, <1>5 DEF Stored
  <2>3. Copy(m, 0, 6) = Copy(b5, 0, 6)
    BY <1>0, <1>8, <2>1, <2>2, CopySame
  <2> QED
    BY <1>5, <2>3 DEF Holds
<1>10. Load16(m, 12) = TypeIPv4
  <2>1. Same(b4, m, 12, 12 + 2)
    BY <1>0, <1>5, <1>6 DEF Stored, Same
  <2> QED
    BY <1>4, <2>1, Load16Same DEF HoldsWord
<1>11. Sealed(m, 14, 20, 5)
  <2> DEFINE l  == 20
             p  == 14
             k1 == 5
  <2>1. /\ l \in Nat /\ p \in Nat /\ k1 \in Nat /\ p + l <= n /\ 2 * k1 + 2 <= l
        /\ b3 \in Buffers(n)
    BY <1>0, <1>3 DEF Stored
  <2>2. Same(b3, m, p, p + l)
    BY <1>0, <1>4, <1>5, <1>6 DEF Stored, Same
  <2>3. Sealed(b3, p, l, k1)
    BY <1>3
  <2> HIDE DEF l, p, k1
  <2>4. Sealed(m, p, l, k1)
    BY <1>0, <1>8, <2>1, <2>2, <2>3, SealedSame
  <2> QED
    BY <2>4 DEF l, p, k1
<1>12. Copy(m, 26, 4) = my.ip
  <2>1. Same(b2, m, 26, 26 + 4)
    BY <1>0, <1>3, <1>4, <1>5, <1>6 DEF Stored, Same
  <2>2. b2 \in Buffers(n) /\ 26 + 4 <= n
    BY <1>0, <1>2 DEF Stored
  <2>3. Copy(m, 26, 4) = Copy(b2, 26, 4)
    BY <1>0, <1>8, <2>1, <2>2, CopySame
  <2> QED
    BY <1>2, <2>3 DEF Holds
\* Between the IP header's new fields and behind them nothing changes.
<1>13. ASSUME NEW i \in 1 .. n, i > 14, i <= 18 \/ (20 < i /\ i <= 24) \/ 30 < i
       PROVE  m[i] = b[i]
  BY <1>1, <1>2, <1>3, <1>4, <1>5, <1>6, <1>13 DEF Stored
<1>14. m[15] = 69 /\ m[24] = b[24] /\ m[35] = b[35]
  BY <1>0, <1>13
<1>15. Load16(m, 16) = Load16(b, 16)
  <2>1. Same(b, m, 16, 16 + 2)
    BY <1>0, <1>13 DEF Same
  <2> QED
    BY <2>1, Load16Same
<1>16. Load16(m, 20) = Load16(b, 20)
  <2>1. Same(b, m, 20, 20 + 2)
    BY <1>0, <1>13 DEF Same
  <2> QED
    BY <2>1, Load16Same
<1>17. Load32(m, 38) = Load32(b, 38)
  <2>1. Same(b, m, 38, 38 + 4)
    BY <1>0, <1>13 DEF Same
  <2> QED
    BY <2>1, Load32Same
<1>18. Copy(m, 30, 4) = Copy(b, 30, 4)
  <2>1. Same(b, m, 30, 30 + 4) /\ 30 + 4 <= n
    BY <1>0, <1>13 DEF Same
  <2> QED
    BY <1>0, <1>8, <2>1, CopySame
<1>19. Sealed(m, 34, n - 38, 1)
  <2> DEFINE l  == n - 38
             p  == 34
             k1 == 1
  <2>1. l \in Nat /\ p \in Nat /\ k1 \in Nat /\ p + l <= n /\ 2 * k1 + 2 <= l
    BY <1>0
  <2>2. Same(b, m, p, p + l)
    BY <1>0, <1>13 DEF Same
  <2>3. Sealed(b, p, l, k1)
    BY DEF Message
  <2> HIDE DEF l, p, k1
  <2>4. Sealed(m, p, l, k1)
    BY <1>0, <1>8, <2>1, <2>2, <2>3, SealedSame
  <2> QED
    BY <2>4 DEF l, p, k1
<1>20. Same(b, m, 42, n)
  BY <1>0, <1>13 DEF Same
<1>21. Packet(n, m, hop, type, quench, my.ip, dest)
  BY <1>9, <1>10, <1>11, <1>12, <1>14, <1>15, <1>16, <1>17, <1>18, <1>19 DEF Packet, Message
<1> QED
  BY <1>7, <1>8, <1>20, <1>21

\* A frame on the wire begins with all of the buffer but the place of the CRC.
WireLength(n) == IF n < 64 THEN 64 ELSE n

LEMMA OnWireIs ==
  ASSUME NEW n \in Nat, 4 <= n, NEW b \in Buffers(n)
  PROVE  OnWire(b) \in Buffers(WireLength(n)) /\ Same(b, OnWire(b), 0, n - 4)
<1> DEFINE k == n - 4
           x == Copy(b, 0, k)
           l == IF 60 - k > 0 THEN 60 - k ELSE 0
           y == Filled(l, 0)
           z == x \o y
           w == z \o CRC
<1>1. k \in Nat /\ l \in Nat /\ k + l \in Nat /\ k <= k + l /\ (k + l) - k = l
      /\ WireLength(n) = k + l + 4 /\ k + l + 4 \in Nat /\ k + l <= k + l + 4 /\ 4 = (k + l + 4) - (k + l)
      /\ 0 + k <= n /\ \A i \in 1 .. k : 0 + i = i
  BY DEF WireLength
<1>2. x \in Buffers(k) /\ \A i \in 1 .. k : x[i] = b[i]
  <2> HIDE DEF k
  <2>1. x \in Buffers(k) /\ \A i \in 1 .. k : x[i] = b[0 + i]
    BY <1>1, CopyIs
  <2> QED
    BY <1>1, <2>1
<1>3. y \in Buffers(l)
  <2> HIDE DEF l
  <2>1. y \in [1 .. l -> Byte]
    BY DEF Filled, Byte
  <2> QED
    BY <1>1, <2>1, FunctionIs
<1>4. CRC \in Buffers(4)
  <2>1. CRC \in [1 .. 4 -> Byte]
    BY DEF CRC, Byte
  <2> QED
    BY <2>1, FunctionIs
<1>5. OnWire(b) = w
  <2>1. Len(b) = n /\ Len(x) = k
    BY <1>1, <1>2, BufferIs
  <2>2. OnWire(b) = x \o Filled(IF 60 - Len(x) > 0 THEN 60 - Len(x) ELSE 0, 0) \o CRC
    BY <2>1 DEF OnWire
  <2> QED
    BY <2>1, <2>2
<1> HIDE DEF k, x, l, y
<1>6. Joined(z, k, x, k + l, y)
  BY <1>1, <1>2, <1>3, JoinIs
<1>7. z \in Buffers(k + l)
  BY <1>6 DEF Joined
<1>8. Joined(w, k + l, z, k + l + 4, CRC)
  <2> DEFINE p == k + l
             q == k + l + 4
  <2>1. p \in Nat /\ q \in Nat /\ p <= q /\ q - p = 4 /\ z \in Buffers(p) /\ CRC \in Buffers(q - p)
    BY <1>1, <1>4, <1>7
  <2> HIDE DEF p, q, z
  <2>2. Joined(w, p, z, q, CRC)
    BY <2>1, JoinIs
  <2> QED
    BY <2>2 DEF p, q
<1> HIDE DEF z, w
<1>9. w \in Buffers(WireLength(n))
  BY <1>1, <1>8 DEF Joined
<1>10. Same(b, w, 0, k)
  <2> SUFFICES ASSUME NEW i \in Nat, 0 < i, i <= k
               PROVE  w[i] = b[i]
    BY DEF Same
  <2>1. i \in 1 .. k /\ i \in 1 .. k + l /\ i \in 1 .. k + l + 4 /\ i <= k + l
    BY <1>1
  <2> QED
    BY <1>2, <1>6, <1>8, <2>1 DEF Joined
<1> QED
  BY <1>5, <1>9, <1>10 DEF k

\* A packet is no more than its bytes.
LEMMA PacketSame ==
  ASSUME NEW n \in FrameLengths, NEW k \in Nat, NEW b \in Buffers(k), NEW l \in Nat, NEW c \in Buffers(l),
         n - 4 <= k, n - 4 <= l, Same(b, c, 0, n - 4),
         NEW hop, NEW type, NEW quench, NEW source, NEW dest,
         Packet(n, b, hop, type, quench, source, dest)
  PROVE  Packet(n, c, hop, type, quench, source, dest)
<1>0. n \in Nat /\ 46 <= n
  BY DEF FrameLengths
<1>1. \A i \in Nat : 0 < i /\ i <= n - 4 => c[i] = b[i]
  BY DEF Same
<1>2. c[15] = b[15] /\ c[24] = b[24] /\ c[35] = b[35]
  BY <1>0, <1>1
<1>3. \A p \in Nat, q \in Nat : q <= n - 4 => Same(b, c, p, q)
  BY <1>0, <1>1 DEF Same
<1>4. Load16(c, 12) = Load16(b, 12) /\ Load16(c, 16) = Load16(b, 16) /\ Load16(c, 20) = Load16(b, 20)
  <2>1. Same(b, c, 12, 12 + 2) /\ Same(b, c, 16, 16 + 2) /\ Same(b, c, 20, 20 + 2)
    BY <1>0, <1>3
  <2> QED
    BY <2>1, Load16Same
<1>5. Load32(c, 38) = Load32(b, 38)
  <2>1. Same(b, c, 38, 38 + 4)
    BY <1>0, <1>3
  <2> QED
    BY <2>1, Load32Same
<1>6. ASSUME NEW p \in Nat, NEW m \in Nat, p + m <= n - 4
      PROVE  Copy(c, p, m) = Copy(b, p, m)
  <2>1. p + m \in Nat /\ p + m <= k /\ p + m <= l
    BY <1>0, <1>6
  <2>2. Same(b, c, p, p + m)
    BY <1>3, <1>6, <2>1
  <2> QED
    BY <2>1, <2>2, CopySame
<1>7. Copy(c, 0, 6) = Copy(b, 0, 6) /\ Copy(c, 26, 4) = Copy(b, 26, 4) /\ Copy(c, 30, 4) = Copy(b, 30, 4)
  BY <1>0, <1>6
<1>8. ASSUME NEW p \in Nat, NEW m \in Nat, p + m <= n - 4, NEW j \in Nat, 2 * j + 2 <= m, Sealed(b, p, m, j)
      PROVE  Sealed(c, p, m, j)
  <2>1. p + m \in Nat /\ p + m <= k /\ p + m <= l
    BY <1>0, <1>8
  <2>2. Same(b, c, p, p + m)
    BY <1>3, <1>8, <2>1
  <2> QED
    BY <1>8, <2>1, <2>2, SealedSame
<1>9. Sealed(b, 14, 20, 5) => Sealed(c, 14, 20, 5)
  <2> DEFINE p == 14
             m == 20
             j == 5
  <2>1. p \in Nat /\ m \in Nat /\ j \in Nat /\ p + m <= n - 4 /\ 2 * j + 2 <= m
    BY <1>0
  <2> HIDE DEF p, m, j
  <2>2. Sealed(b, p, m, j) => Sealed(c, p, m, j)
    BY <1>8, <2>1
  <2> QED
    BY <2>2 DEF p, m, j
<1>10. Sealed(b, 34, n - 38, 1) => Sealed(c, 34, n - 38, 1)
  <2> DEFINE p == 34
             m == n - 38
             j == 1
  <2>1. p \in Nat /\ m \in Nat /\ j \in Nat /\ p + m <= n - 4 /\ 2 * j + 2 <= m
    BY <1>0
  <2> HIDE DEF p, m, j
  <2>2. Sealed(b, p, m, j) => Sealed(c, p, m, j)
    BY <1>8, <2>1
  <2> QED
    BY <2>2 DEF p, m, j
<1> QED
  BY <1>2, <1>4, <1>5, <1>7, <1>9, <1>10 DEF Packet

\* Which IPv4 packets are accepted.
LEMMA AcceptedIs ==
  ASSUME NEW n \in Nat, 46 <= n, NEW l \in Nat, NEW b \in Buffers(l), NEW my,
         Load16(b, 12) = TypeIPv4, b[15] = 69, Load16(b, 16) = n - 18, Sealed(b, 14, 20, 5)
  PROVE  IPv4Accepts(b, my) <=>
           n <= l /\ Load16(b, 20) \in {0, 16384} /\ Copy(b, 30, 4) \in {IPv4Broadcast, my.ip}
<1> DEFINE ip == EthernetPayload(b)
<1>1. ip.at = 14 /\ ip.size = l - 18
  BY BufferIs DEF EthernetPayload, EthernetOverhead
<1> HIDE DEF ip
<1>2. HeaderLength(b, ip) = 20
  BY <1>1, 14 + 1 = 15, 69 % 16 = 5 DEF HeaderLength, Load8
<1>3. Load16(b, ip.at + 10) = IPv4Checksum(b, ip)
  BY <1>1, <1>2, 14 + 10 = 24, 14 + 2 * 5 = 24 DEF IPv4Checksum, Sealed
<1>4. Complete(b, ip) <=> n <= l
  BY <1>1, 14 + 2 = 16 DEF Complete, TotalLength
<1>5. Unfragmented(b, ip) <=> Load16(b, 20) \in {0, 16384}
  BY <1>1, 14 + 6 = 20 DEF Unfragmented, Fragment
<1>6. Destination(b, ip) = Copy(b, 30, 4)
  BY <1>1, 14 + 16 = 30 DEF Destination
<1>7. IPv4Valid(b, ip) <=> Complete(b, ip) /\ Unfragmented(b, ip)
  BY <1>2, <1>3 DEF IPv4Valid
<1>8. IPv4Accepts(b, my) <=> IPv4Valid(b, ip) /\ Destination(b, ip) \in {IPv4Broadcast, my.ip}
  BY DEF IPv4Accepts, EtherType, ip
<1> QED
  BY <1>4, <1>5, <1>6, <1>7, <1>8

\* What a station reads in a packet, padded or not.
LEMMA PacketRead ==
  ASSUME NEW n \in FrameLengths, NEW l \in Nat, n <= l, NEW b \in Buffers(l),
         NEW hop, NEW type, NEW quench, NEW source, NEW dest,
         Packet(n, b, hop, type, quench, source, dest)
  PROVE  /\ EthernetDestination(b) = hop
         /\ \A my : IPv4Accepts(b, my) <=> dest \in {IPv4Broadcast, my.ip}
         /\ TotalLength(b, EthernetPayload(b)) = n - 18
         /\ Source(b, EthernetPayload(b)) = source
         /\ ICMPFrame(b) = [at |-> 34, size |-> n - 38]
         /\ ICMPAccepts(b)
         /\ ICMPType(b, ICMPFrame(b)) = type /\ Quench(b, ICMPFrame(b)) = quench
         /\ ICMPPayload(b, ICMPFrame(b)) = Copy(b, 42, n - 46)
<1>0. n \in Nat /\ 46 <= n
  BY DEF FrameLengths
<1> DEFINE ip == EthernetPayload(b)
           icmp == ICMPFrame(b)
<1>1. ip.at = 14
  BY DEF EthernetPayload
<1>2. EthernetDestination(b) = hop
  BY DEF EthernetDestination, Packet
<1>3. ASSUME NEW my
      PROVE  IPv4Accepts(b, my) <=> dest \in {IPv4Broadcast, my.ip}
  <2>1. /\ Load16(b, 12) = TypeIPv4 /\ b[15] = 69 /\ Load16(b, 16) = n - 18 /\ Sealed(b, 14, 20, 5)
        /\ Load16(b, 20) = 0 /\ Copy(b, 30, 4) = dest
    BY DEF Packet
  <2>2. IPv4Accepts(b, my) <=>
          n <= l /\ Load16(b, 20) \in {0, 16384} /\ Copy(b, 30, 4) \in {IPv4Broadcast, my.ip}
    BY <1>0, <2>1, AcceptedIs
  <2> QED
    BY <2>1, <2>2
<1> HIDE DEF ip
<1>4. TotalLength(b, ip) = n - 18
  BY <1>1, 14 + 2 = 16 DEF TotalLength, Packet
<1>5. Source(b, ip) = source
  BY <1>1, 14 + 12 = 26 DEF Source, Packet
<1>6. HeaderLength(b, ip) = 20
  BY <1>1, 14 + 1 = 15, 69 % 16 = 5 DEF HeaderLength, Load8, Packet
<1>7. icmp = [at |-> 34, size |-> n - 38]
  <2>1. icmp = [at |-> 14 + 20, size |-> n - 18 - 20]
    BY <1>1, <1>4, <1>6 DEF ICMPFrame, IPv4Payload, ip
  <2> QED
    BY <1>0, <2>1
<1>8. icmp.at = 34 /\ icmp.size = n - 38
  BY <1>7
<1> HIDE DEF icmp
<1>9. ICMPAccepts(b)
  <2>1. ICMPValid(b, icmp)
    BY <1>8, 34 + 2 = 36, 34 + 2 * 1 = 36 DEF ICMPValid, ICMPChecksum, Packet, Sealed
  <2>2. Protocol(b, ip) = ProtoICMP
    BY <1>1, 14 + 9 = 23, 23 + 1 = 24 DEF Protocol, Load8, Packet
  <2> QED
    BY <2>1, <2>2 DEF ICMPAccepts, ip, icmp
<1>10. ICMPType(b, icmp) = type /\ Quench(b, icmp) = quench
  BY <1>8, 34 + 1 = 35, 34 + 4 = 38 DEF ICMPType, Quench, Load8, Packet
<1>11. ICMPPayload(b, icmp) = Copy(b, 42, n - 46)
  <2>1. 34 + 8 = 42 /\ n - 38 - 8 = n - 46
    BY <1>0
  <2> QED
    BY <1>8, <2>1 DEF ICMPPayload, ICMPOverhead
<1> QED
  BY <1>2, <1>3, <1>4, <1>5, <1>7, <1>9, <1>10, <1>11 DEF ip, icmp
------------------------------------------------------------------------------
(***************************************************************************)
(* Masks.                                                                  *)
(***************************************************************************)
\* A byte is the sum of its bits.
LEMMA BitsOf ==
  ASSUME NEW x \in Byte
  PROVE  x = (x % 2) + 2 * ((x \div 2) % 2) + 4 * ((x \div 4) % 2) + 8 * ((x \div 8) % 2)
               + 16 * ((x \div 16) % 2) + 32 * ((x \div 32) % 2) + 64 * ((x \div 64) % 2)
               + 128 * ((x \div 128) % 2)
<1> DEFINE a == x \div 2
           b == x \div 4
           c == x \div 8
           d == x \div 16
           e == x \div 32
           f == x \div 64
           g == x \div 128
<1>0. x \in 0 .. 255
  BY DEF Byte
<1>1. a \in Nat /\ x = 2 * a + (x % 2) /\ x % 2 \in Nat
  BY <1>0
<1>2. b \in Nat /\ a = 2 * b + (a % 2) /\ a % 2 \in Nat
  BY <1>0
<1>3. c \in Nat /\ b = 2 * c + (b % 2) /\ b % 2 \in Nat
  BY <1>0
<1>4. d \in Nat /\ c = 2 * d + (c % 2) /\ c % 2 \in Nat
  BY <1>0
<1>5. e \in Nat /\ d = 2 * e + (d % 2) /\ d % 2 \in Nat
  BY <1>0
<1>6. f \in Nat /\ e = 2 * f + (e % 2) /\ e % 2 \in Nat
  BY <1>0
<1>7. g \in Nat /\ f = 2 * g + (f % 2) /\ f % 2 \in Nat
  BY <1>0
<1>8. g = g % 2
  BY <1>0
<1> HIDE DEF a, b, c, d, e, f, g
<1> DEFINE p == x % 2
           q == a % 2
           r == b % 2
           s == c % 2
           t == d % 2
           u == e % 2
           v == f % 2
           w == g % 2
<1>9. /\ p \in Nat /\ q \in Nat /\ r \in Nat /\ s \in Nat /\ t \in Nat /\ u \in Nat /\ v \in Nat
      /\ a \in Nat /\ b \in Nat /\ c \in Nat /\ d \in Nat /\ e \in Nat /\ f \in Nat /\ g \in Nat
      /\ x = 2 * a + p /\ a = 2 * b + q /\ b = 2 * c + r /\ c = 2 * d + s /\ d = 2 * e + t
      /\ e = 2 * f + u /\ f = 2 * g + v /\ g = w
  BY <1>1, <1>2, <1>3, <1>4, <1>5, <1>6, <1>7, <1>8
<1> HIDE DEF p, q, r, s, t, u, v, w
<1>10. x = p + 2 * q + 4 * r + 8 * s + 16 * t + 32 * u + 64 * v + 128 * w
  BY <1>9
<1> QED
  BY <1>10 DEF a, b, c, d, e, f, g, p, q, r, s, t, u, v, w

LEMMA SumOfEight ==
  ASSUME NEW f \in [0 .. 7 -> Nat]
  PROVE  SumOf(f, 8) = f[0] + f[1] + f[2] + f[3] + f[4] + f[5] + f[6] + f[7]
<1>1. 8 \in Nat /\ f \in [0 .. 8 - 1 -> Nat]
  OBVIOUS
<1>2. PICK s : Summing(f, 8, s) /\ SumOf(f, 8) = s[8]
  BY <1>1, SumIs
<1>3. \A i \in 0 .. 7 : s[i] \in Nat /\ f[i] \in Nat /\ s[i + 1] = s[i] + f[i]
  BY <1>2 DEF Summing
<1>4. /\ s[1] = f[0] /\ s[2] = s[1] + f[1] /\ s[3] = s[2] + f[2] /\ s[4] = s[3] + f[3]
      /\ s[5] = s[4] + f[4] /\ s[6] = s[5] + f[5] /\ s[7] = s[6] + f[6] /\ s[8] = s[7] + f[7]
  <2>1. s[0] = 0
    BY <1>2 DEF Summing
  <2>2. s[0 + 1] = s[0] + f[0] /\ f[0] \in Nat
    BY <1>3
  <2>3. s[1] = f[0]
    BY <2>1, <2>2
  <2> QED
    BY <1>3, <2>3
<1> QED
  BY <1>2, <1>4

\* The mask's octets leave an octet or clear it.
LEMMA AndIs ==
  ASSUME NEW x \in Byte
  PROVE  And(x, 255) = x /\ And(x, 0) = 0
<1> DEFINE F(y) == [k \in 0 .. 7 |-> Bits[k + 1] * ((x \div Bits[k + 1]) % 2)
                                        * ((y \div Bits[k + 1]) % 2)]
<1>0. x \in 0 .. 255
  BY DEF Byte
<1>1. /\ Bits[0 + 1] = 1 /\ Bits[1 + 1] = 2 /\ Bits[2 + 1] = 4 /\ Bits[3 + 1] = 8
      /\ Bits[4 + 1] = 16 /\ Bits[5 + 1] = 32 /\ Bits[6 + 1] = 64 /\ Bits[7 + 1] = 128
  BY DEF Bits
<1>2. ASSUME NEW y \in {0, 255}
      PROVE  /\ F(y) \in [0 .. 7 -> Nat]
             /\ F(y)[0] = 1 * ((x \div 1) % 2) * ((y \div 1) % 2)
             /\ F(y)[1] = 2 * ((x \div 2) % 2) * ((y \div 2) % 2)
             /\ F(y)[2] = 4 * ((x \div 4) % 2) * ((y \div 4) % 2)
             /\ F(y)[3] = 8 * ((x \div 8) % 2) * ((y \div 8) % 2)
             /\ F(y)[4] = 16 * ((x \div 16) % 2) * ((y \div 16) % 2)
             /\ F(y)[5] = 32 * ((x \div 32) % 2) * ((y \div 32) % 2)
             /\ F(y)[6] = 64 * ((x \div 64) % 2) * ((y \div 64) % 2)
             /\ F(y)[7] = 128 * ((x \div 128) % 2) * ((y \div 128) % 2)
  <2>1. ASSUME NEW k \in 0 .. 7
        PROVE  Bits[k + 1] * ((x \div Bits[k + 1]) % 2) * ((y \div Bits[k + 1]) % 2) \in Nat
    <3>1. k \in {0, 1, 2, 3, 4, 5, 6, 7}
      OBVIOUS
    <3>2. Bits[k + 1] \in Nat \ {0}
      BY <1>1, <3>1
    <3> DEFINE c == Bits[k + 1]
               u == (x \div c) % 2
               v == (y \div c) % 2
    <3>3. c \in Nat /\ u \in Nat /\ v \in Nat
      BY <1>0, <3>2
    <3> HIDE DEF c, u, v
    <3>4. c * u * v \in Nat
      BY <3>3
    <3> QED
      BY <3>4 DEF c, u, v
  <2>2. F(y) \in [0 .. 7 -> Nat]
    BY <2>1
  <2> QED
    BY <1>1, <2>2
<1>3. And(x, 255) = SumOf(F(255), 8) /\ And(x, 0) = SumOf(F(0), 8)
  BY DEF And
<1> DEFINE f == F(255)
           g == F(0)
<1>4. /\ f \in [0 .. 7 -> Nat]
      /\ f[0] = x % 2 /\ f[1] = 2 * ((x \div 2) % 2) /\ f[2] = 4 * ((x \div 4) % 2)
      /\ f[3] = 8 * ((x \div 8) % 2) /\ f[4] = 16 * ((x \div 16) % 2)
      /\ f[5] = 32 * ((x \div 32) % 2) /\ f[6] = 64 * ((x \div 64) % 2)
      /\ f[7] = 128 * ((x \div 128) % 2)
  <2> HIDE DEF F
  <2> QED
    BY <1>0, <1>2
<1>5. /\ g \in [0 .. 7 -> Nat] /\ g[0] = 0 /\ g[1] = 0 /\ g[2] = 0 /\ g[3] = 0
      /\ g[4] = 0 /\ g[5] = 0 /\ g[6] = 0 /\ g[7] = 0
  <2> HIDE DEF F
  <2> QED
    BY <1>0, <1>2
<1>6. And(x, 255) = SumOf(f, 8) /\ And(x, 0) = SumOf(g, 8)
  BY <1>3
<1> HIDE DEF f, g, F
<1>7. SumOf(f, 8) = f[0] + f[1] + f[2] + f[3] + f[4] + f[5] + f[6] + f[7]
  BY <1>4, SumOfEight
<1>8. SumOf(g, 8) = 0
  <2>1. SumOf(g, 8) = g[0] + g[1] + g[2] + g[3] + g[4] + g[5] + g[6] + g[7]
    BY <1>5, SumOfEight
  <2> QED
    BY <1>5, <2>1
<1>9. SumOf(f, 8) = x
  BY <1>4, <1>7, BitsOf
<1> QED
  BY <1>6, <1>8, <1>9

\* Two addresses are equal behind the mask when the octets of the network are.
LEMMA MaskedIs ==
  ASSUME NEW a \in IPAddresses, NEW b \in IPAddresses
  PROVE  Masked(a, Mask) = Masked(b, Mask) <=> \A i \in 1 .. NetworkOctets : a[i] = b[i]
<1>0. NetworkOctets \in 0 .. 4
  BY StationAssumption
<1>1. \A i \in 1 .. 4 : a[i] \in Byte /\ b[i] \in Byte
  BY DEF IPAddresses
<1>2. \A i \in 1 .. 4 : Mask[i] = IF i <= NetworkOctets THEN 255 ELSE 0
  BY DEF Mask
<1>3. /\ Masked(a, Mask) = [i \in 1 .. 4 |-> And(a[i], Mask[i])]
      /\ Masked(b, Mask) = [i \in 1 .. 4 |-> And(b[i], Mask[i])]
  BY DEF Masked
<1>4. Masked(a, Mask) = Masked(b, Mask) <=> \A i \in 1 .. 4 : And(a[i], Mask[i]) = And(b[i], Mask[i])
  BY <1>3
<1>5. ASSUME NEW i \in 1 .. 4
      PROVE  And(a[i], Mask[i]) = And(b[i], Mask[i]) <=> (i <= NetworkOctets => a[i] = b[i])
  <2>1. And(a[i], 255) = a[i] /\ And(a[i], 0) = 0 /\ And(b[i], 255) = b[i] /\ And(b[i], 0) = 0
    BY <1>1, AndIs
  <2> QED
    BY <1>2, <2>1
<1> QED
  BY <1>0, <1>4, <1>5

LEMMA OnNetworkIs ==
  ASSUME NEW dest \in IPAddresses
  PROVE  OnNetwork(dest) <=> \A i \in 1 .. NetworkOctets : dest[i] = My.ip[i]
<1>0. NetworkOctets \in 0 .. 4 /\ My.ip \in IPAddresses
  BY StationAssumption DEF Stations
<1> DEFINE k == NetworkOctets
           x == Copy(dest, 0, k)
           y == Copy(My.ip, 0, k)
<1>1. k \in Nat /\ 0 + k <= 4 /\ 0 + 1 = 1 /\ 0 + k = k /\ \A i \in 1 .. k : 0 + i = i
  BY <1>0
<1>2. dest \in Buffers(4) /\ My.ip \in Buffers(4)
  BY <1>0, FunctionIs DEF IPAddresses
<1>3. OnNetwork(dest) <=> x = y
  BY <1>1 DEF OnNetwork, Copy
<1> HIDE DEF k
<1>4. x \in Buffers(k) /\ \A i \in 1 .. k : x[i] = dest[0 + i]
  BY <1>1, <1>2, CopyIs
<1>5. y \in Buffers(k) /\ \A i \in 1 .. k : y[i] = My.ip[0 + i]
  BY <1>1, <1>2, CopyIs
<1> HIDE DEF x, y
<1>6. (\A i \in 1 .. k : x[i] = y[i]) => x = y
  BY <1>1, <1>4, <1>5, BuffersEqual
<1>7. x = y <=> \A i \in 1 .. k : dest[i] = My.ip[i]
  BY <1>1, <1>4, <1>5, <1>6
<1> QED
  BY <1>3, <1>7 DEF k
------------------------------------------------------------------------------
(***************************************************************************)
(* Pings.                                                                  *)
(***************************************************************************)
\* What a part of the heap holds is a buffer.
LEMMA NewIs ==
  ASSUME NEW heap \in Heaps, NEW n \in Nat,
         n <= EchoSize(28) \/ \E size \in Sizes : n = EchoSize(size)
  PROVE  New(heap, n) \in Buffers(n)
<1>1. heap \in Seq(Byte) /\ n <= Len(heap)
  <2>1. EchoSize(28) = 74 /\ \A size \in Sizes : EchoSize(size) \in Int
    <3>1. \A size \in Sizes : size \in Nat
      BY FieldAssumption
    <3> QED
      BY <3>1 DEF EchoSize, ICMPOverhead, IPv4Overhead, EthernetOverhead
  <2>2. heap \in Seq(Byte) /\ Len(heap) >= EchoSize(28) /\ \A size \in Sizes : Len(heap) >= EchoSize(size)
    BY HeapAssumption
  <2>3. Len(heap) \in Nat
    BY <2>2, LenProperties
  <2> QED
    BY <2>1, <2>2, <2>3
<1> DEFINE l == Len(heap)
<1>2. l \in Nat /\ heap \in Buffers(l)
  BY <1>1, LenProperties DEF Buffers
<1>3. 0 + n <= l /\ 0 + 1 = 1 /\ 0 + n = n
  BY <1>1
<1>4. New(heap, n) = Copy(heap, 0, n)
  BY <1>3 DEF New, Copy
<1> HIDE DEF l
<1>5. Copy(heap, 0, n) \in Buffers(n)
  BY <1>2, <1>3, CopyIs
<1> QED
  BY <1>4, <1>5

LEMMA PingIs ==
  ASSUME NEW p \in Pings
  PROVE  /\ p.size \in Sizes /\ p.size \in Nat /\ EchoSize(p.size) = p.size + 46
         /\ EchoSize(p.size) \in FrameLengths
         /\ p.quench \in Quenches /\ p.ident \in Nat /\ p.ttl \in Byte
         /\ p.host \in Hosts /\ p.host \in Stations /\ p.host.ip \in IPAddresses
         /\ p.host.ip \notin {My.ip, IPv4Broadcast}
         /\ p.to \in {"host", "broadcast"} /\ p.heap \in Heaps /\ p.hostHeap \in Heaps
         /\ My \in Stations /\ My.ip \in IPAddresses /\ My.mac \in MacAddresses /\ Router \in Stations
         /\ Dest(p) \in IPAddresses /\ HopMac(p) \in MacAddresses
<1>1. /\ p.size \in Sizes /\ p.quench \in Quenches /\ p.ident \in Idents /\ p.ttl \in TTLs
      /\ p.host \in Hosts /\ p.to \in {"host", "broadcast"} /\ p.heap \in Heaps /\ p.hostHeap \in Heaps
  BY DEF Pings
<1>2. p.size \in Nat /\ p.size + 8 + 20 \in Word
  BY <1>1, FieldAssumption DEF ICMPOverhead, IPv4Overhead
<1>3. p.size \in Nat /\ EchoSize(p.size) = p.size + 46
  BY <1>2 DEF EchoSize, ICMPOverhead, IPv4Overhead, EthernetOverhead
<1>4. EchoSize(p.size) \in FrameLengths
  <2>1. 46 <= p.size + 46 /\ (p.size + 46) - 18 <= 65535
    BY <1>2 DEF Word
  <2> QED
    BY <1>2, <1>3, <2>1 DEF FrameLengths
<1>5. /\ My \in Stations /\ Router \in Stations /\ p.host \in Stations
      /\ p.host.ip \notin {My.ip, IPv4Broadcast} /\ GatewayMac \in MacAddresses
  BY <1>1, StationAssumption
<1>6. /\ My.ip \in IPAddresses /\ My.mac \in MacAddresses
      /\ p.host.ip \in IPAddresses /\ p.host.mac \in MacAddresses
  BY <1>5 DEF Stations
<1>7. IPv4Broadcast \in IPAddresses
  BY DEF IPv4Broadcast, IPAddresses, Byte
<1>8. Dest(p) \in IPAddresses /\ HopMac(p) \in MacAddresses
  BY <1>5, <1>6, <1>7 DEF Dest, HopMac
<1>9. p.ident \in Nat /\ p.ttl \in Byte
  BY <1>1, FieldAssumption
<1> QED
  BY <1>1, <1>3, <1>4, <1>5, <1>6, <1>8, <1>9

LEMMA QuenchIs ==
  ASSUME NEW q \in Quenches
  PROVE  q \in Word \X Word
BY FieldAssumption

\* From the new buffer to the frame on the wire.
LEMMA WireIs ==
  ASSUME NEW n \in FrameLengths, NEW h \in Buffers(n), NEW type \in Byte, NEW ttl \in Byte,
         NEW quench \in Word \X Word, NEW k \in Nat, 46 + k <= n, NEW payload \in Buffers(k),
         NEW dest \in IPAddresses, NEW my \in Stations, NEW ident \in Nat, NEW hop \in MacAddresses,
         NEW w, w = OnWire(SendFrame(EchoMessage(h, type, quench, payload, dest, ttl), my, ident, hop))
  PROVE  /\ WireLength(n) \in Nat /\ n <= WireLength(n) /\ w \in Buffers(WireLength(n))
         /\ Packet(n, w, hop, type, quench, my.ip, dest)
         /\ Holds(w, 42, k, payload)
<1> DEFINE m == EchoMessage(h, type, quench, payload, dest, ttl)
           s == SendFrame(m, my, ident, hop)
           l == WireLength(n)
<1>0. n \in Nat /\ 46 <= n /\ 4 <= n
  BY DEF FrameLengths
<1>1. l \in Nat /\ n <= l
  BY <1>0 DEF WireLength
<1>2. Message(n, m, type, quench, payload, dest)
  BY MessageIs
<1>3. w = OnWire(s)
  OBVIOUS
<1> HIDE DEF m
<1>4. s \in Buffers(n) /\ Packet(n, s, hop, type, quench, my.ip, dest) /\ Same(m, s, 42, n)
  BY <1>2, SentIs
<1> HIDE DEF s
<1>5. w \in Buffers(l) /\ Same(s, w, 0, n - 4)
  BY <1>0, <1>3, <1>4, OnWireIs
<1> HIDE DEF l
<1>6. Packet(n, w, hop, type, quench, my.ip, dest)
  <2>1. n - 4 <= n /\ n - 4 <= l
    BY <1>0, <1>1
  <2> QED
    BY <1>0, <1>1, <1>4, <1>5, <2>1, PacketSame
<1>7. ASSUME NEW i \in 1 .. k
      PROVE  w[42 + i] = payload[i]
  <2>1. 42 + i \in Nat /\ 0 < 42 + i /\ 42 < 42 + i /\ 42 + i <= n - 4 /\ 42 + i <= n
    BY <1>0
  <2>2. w[42 + i] = s[42 + i] /\ s[42 + i] = m[42 + i]
    BY <1>4, <1>5, <2>1 DEF Same
  <2>3. Len(payload) = k
    BY BufferIs
  <2>4. m[42 + i] = payload[i]
    BY <1>2, <2>3 DEF Message
  <2> QED
    BY <2>2, <2>4
<1>8. Copy(w, 42, k) = payload
  <2>1. 42 + k <= l
    BY <1>0, <1>1
  <2> QED
    BY <1>1, <1>5, <1>7, <2>1, CopyOf
<1> QED
  BY <1>1, <1>5, <1>6, <1>7, <1>8 DEF l, Holds

LEMMA RequestIs ==
  ASSUME NEW p \in Pings, NEW n, n = EchoSize(p.size), NEW l, l = WireLength(n)
  PROVE  /\ l \in Nat /\ n <= l /\ RequestOf(p) \in Buffers(l)
         /\ Packet(n, RequestOf(p), HopMac(p), EchoRequest, p.quench, My.ip, Dest(p))
<1> DEFINE h == New(p.heap, n)
           none == <<>>
           w == RequestOf(p)
<1>1. /\ n \in FrameLengths /\ n \in Nat /\ 46 <= n /\ p.heap \in Heaps /\ p.quench \in Quenches
      /\ p.ttl \in Byte /\ p.ident \in Nat
      /\ My \in Stations /\ Dest(p) \in IPAddresses /\ HopMac(p) \in MacAddresses
  BY PingIs DEF FrameLengths
<1>2. h \in Buffers(n)
  <2>1. p.size \in Sizes
    BY PingIs
  <2> QED
    BY <1>1, <2>1, NewIs
<1>3. none \in Buffers(0) /\ 0 \in Nat /\ 46 + 0 <= n
  BY <1>1, EmptySeq DEF Buffers
<1>4. EchoRequest \in Byte
  BY DEF EchoRequest, Byte
<1>5. p.quench \in Word \X Word
  BY <1>1, QuenchIs
<1>6. w = OnWire(SendFrame(EchoMessage(h, EchoRequest, p.quench, none, Dest(p), p.ttl),
                           My, p.ident, HopMac(p)))
  BY DEF RequestOf, PingMessage
<1> DEFINE dest == Dest(p)
           hop == HopMac(p)
           k == 0
<1> HIDE DEF h, none, w, dest, hop, k
<1>7. k \in Nat /\ none \in Buffers(k) /\ 46 + k <= n
  BY <1>3 DEF k
<1>8. /\ WireLength(n) \in Nat /\ n <= WireLength(n) /\ w \in Buffers(WireLength(n))
      /\ Packet(n, w, hop, EchoRequest, p.quench, My.ip, dest)
  BY <1>1, <1>2, <1>4, <1>5, <1>6, <1>7, WireIs DEF dest, hop
<1> QED
  BY <1>8 DEF w, dest, hop

LEMMA ReplyIs ==
  ASSUME NEW p \in Pings, NEW n, n = EchoSize(p.size), NEW l, l = WireLength(n)
  PROVE  /\ ReplyTo(p) \in Buffers(l)
         /\ Packet(n, ReplyTo(p), My.mac, EchoReply, p.quench, p.host.ip, My.ip)
         /\ Copy(ReplyTo(p), 42, n - 46) = Copy(RequestOf(p), 42, n - 46)
<1> DEFINE b == RequestOf(p)
           h == New(p.hostHeap, n)
           k == n - 46
           payload == Copy(b, 42, k)
           w == ReplyTo(p)
<1>1. /\ n \in FrameLengths /\ n \in Nat /\ 46 <= n /\ p.hostHeap \in Heaps
      /\ p.ident \in Nat /\ p.host \in Stations /\ My.ip \in IPAddresses /\ My.mac \in MacAddresses
  BY PingIs DEF FrameLengths
<1>2. /\ l \in Nat /\ n <= l /\ b \in Buffers(l)
      /\ Packet(n, b, HopMac(p), EchoRequest, p.quench, My.ip, Dest(p))
  BY RequestIs
<1> HIDE DEF b
<1>3. /\ Source(b, EthernetPayload(b)) = My.ip /\ ICMPFrame(b) = [at |-> 34, size |-> n - 38]
      /\ Quench(b, ICMPFrame(b)) = p.quench
      /\ ICMPPayload(b, ICMPFrame(b)) = Copy(b, 42, n - 46)
  <2> DEFINE hop == HopMac(p)
             dest == Dest(p)
             type == EchoRequest
  <2>1. Packet(n, b, hop, type, p.quench, My.ip, dest)
    BY <1>2
  <2> HIDE DEF hop, dest, type
  <2> QED
    BY <1>1, <1>2, <2>1, PacketRead
<1>4. h \in Buffers(n)
  <2>1. p.size \in Sizes
    BY PingIs
  <2> QED
    BY <1>1, <2>1, NewIs
<1>5. k \in Nat /\ 46 + k <= n /\ 42 + k <= l
  BY <1>1, <1>2
<1>6. payload \in Buffers(k)
  <2> HIDE DEF k
  <2> QED
    BY <1>2, <1>5, CopyIs
<1>7. EchoReply \in Byte /\ 64 \in Byte
  BY DEF EchoReply, Byte
<1>8. p.quench \in Word \X Word
  <2>1. p.quench \in Quenches
    BY PingIs
  <2> QED
    BY <2>1, QuenchIs
<1>9. ReplySize(b) = n
  <2>1. ICMPFrame(b).size = n - 38
    BY <1>3
  <2> QED
    BY <1>1, <2>1 DEF ReplySize, IPv4Overhead, EthernetOverhead
<1> DEFINE ident == p.ident + 1
<1>10. ident \in Nat
  BY <1>1
<1>11. ReplyMessage(h, b) = EchoMessage(h, EchoReply, p.quench, payload, My.ip, 64)
  <2> HIDE DEF h
  <2> QED
    BY <1>3 DEF ReplyMessage
<1>12. w = OnWire(SendFrame(EchoMessage(h, EchoReply, p.quench, payload, My.ip, 64),
                            p.host, ident, My.mac))
  <2>1. w = OnWire(SendFrame(ReplyMessage(New(p.hostHeap, ReplySize(b)), b), p.host, p.ident + 1, My.mac))
    BY DEF ReplyTo, b
  <2> QED
    BY <1>9, <1>11, <2>1
<1> DEFINE my == p.host
           hop == My.mac
           ttl == 64
           dest == My.ip
<1> HIDE DEF h, k, payload, w, ident, my, hop, ttl, dest
<1>13. /\ WireLength(n) \in Nat /\ n <= WireLength(n) /\ w \in Buffers(WireLength(n))
       /\ Packet(n, w, hop, EchoReply, p.quench, my.ip, dest)
       /\ Holds(w, 42, k, payload)
  <2>1. /\ ttl \in Byte /\ my \in Stations /\ hop \in MacAddresses /\ dest \in IPAddresses
        /\ w = OnWire(SendFrame(EchoMessage(h, EchoReply, p.quench, payload, dest, ttl),
                                my, ident, hop))
    BY <1>1, <1>7, <1>12 DEF ttl, my, hop, dest
  <2> QED
    BY <1>1, <1>4, <1>5, <1>6, <1>7, <1>8, <1>10, <2>1, WireIs
<1> QED
  BY <1>13 DEF Holds, w, payload, k, b, my, hop, dest

\* The quoted bytes: the header with another time to live, and eight bytes more.
LEMMA QuoteIs ==
  ASSUME NEW l \in Nat, NEW b \in Buffers(l), 46 <= l
  PROVE  /\ Quote(b) \in Buffers(28)
         /\ \A i \in 1 .. 28 : i # 9 => Quote(b)[i] = b[14 + i]
<1> DEFINE c == Copy(b, 14, 28)
<1>1. c \in Buffers(28) /\ \A i \in 1 .. 28 : c[i] = b[14 + i]
  <2> DEFINE k == 28
             p == 14
  <2>1. k \in Nat /\ p \in Nat /\ p + k <= l
    OBVIOUS
  <2> HIDE DEF k, p
  <2>2. Copy(b, p, k) \in Buffers(k) /\ \A i \in 1 .. k : Copy(b, p, k)[i] = b[p + i]
    BY <2>1, CopyIs
  <2> QED
    BY <2>2 DEF k, p
<1> HIDE DEF c
<1>2. c \in [1 .. 28 -> Byte]
  BY <1>1, BufferIsFunction
<1>3. Quote(b) = [c EXCEPT ![9] = 0]
  BY DEF Quote, c
<1>4. Quote(b) \in [1 .. 28 -> Byte] /\ \A i \in 1 .. 28 : i # 9 => Quote(b)[i] = c[i]
  BY <1>2, <1>3 DEF Byte
<1>5. Quote(b) \in Buffers(28)
  BY <1>4, FunctionIs
<1> QED
  BY <1>1, <1>4, <1>5

LEMMA ErrorIs ==
  ASSUME NEW p \in Pings, NEW type \in {Unreachable, TTLExceeded}
  PROVE  /\ ErrorAbout(p, type) \in Buffers(74)
         /\ Packet(74, ErrorAbout(p, type), My.mac, type, <<0, 0>>, Router.ip, My.ip)
         /\ Holds(ErrorAbout(p, type), 42, 28, Quote(RequestOf(p)))
<1> DEFINE b == RequestOf(p)
           n == EchoSize(28)
           h == New(p.hostHeap, n)
           k == 28
           payload == Quote(b)
           w == ErrorAbout(p, type)
           q == <<0, 0>>
           my == Router
           hop == My.mac
           ttl == 64
           dest == My.ip
           ident == p.ident
<1>1. /\ p.hostHeap \in Heaps /\ ident \in Nat /\ my \in Stations /\ dest \in IPAddresses
      /\ hop \in MacAddresses
  BY PingIs
<1>2. n = 74
  BY DEF EchoSize, ICMPOverhead, IPv4Overhead, EthernetOverhead
<1>3. n \in FrameLengths /\ k \in Nat /\ 46 + k <= n
  BY <1>2 DEF FrameLengths
<1>4. h \in Buffers(n)
  <2>1. n \in Nat /\ n <= EchoSize(28)
    BY <1>2
  <2> QED
    BY <1>1, <2>1, NewIs
<1>5. payload \in Buffers(k)
  <2> DEFINE m == EchoSize(p.size)
             l == WireLength(m)
  <2>1. m \in FrameLengths
    BY PingIs
  <2> HIDE DEF m
  <2>2. 46 <= m /\ m \in Nat
    BY <2>1 DEF FrameLengths
  <2>3. l \in Nat /\ m <= l /\ b \in Buffers(l)
    BY RequestIs DEF m
  <2> HIDE DEF l, b
  <2>4. 46 <= l
    BY <2>2, <2>3
  <2> QED
    BY <2>3, <2>4, QuoteIs
<1>6. type \in Byte /\ ttl \in Byte
  BY DEF Unreachable, TTLExceeded, Byte
<1>7. q \in Word \X Word
  BY DEF Word
<1>8. w = OnWire(SendFrame(EchoMessage(h, type, q, payload, dest, ttl), my, ident, hop))
  BY DEF ErrorAbout
<1> HIDE DEF b, n, h, k, payload, w, q, my, hop, ttl, dest, ident
<1>9. /\ w \in Buffers(WireLength(n))
      /\ Packet(n, w, hop, type, q, my.ip, dest)
      /\ Holds(w, 42, k, payload)
  BY <1>1, <1>3, <1>4, <1>5, <1>6, <1>7, <1>8, WireIs
<1>10. WireLength(n) = 74
  BY <1>2 DEF WireLength
<1> QED
  BY <1>2, <1>9, <1>10 DEF w, hop, q, my, dest, k, payload, b
------------------------------------------------------------------------------
(***************************************************************************)
(* The theorems about frames.                                              *)
(***************************************************************************)
LEMMA Chosen == ExchangeSpec => [](ping # NoPing => ping \in Pings)
<1> DEFINE Inv == ping # NoPing => ping \in Pings
<1>1. Quiet => Inv
  BY DEF Quiet
<1>2. Inv /\ [ChoosePing]_ping => Inv'
  BY DEF ChoosePing
<1> QED
  BY <1>1, <1>2, PTL DEF ExchangeSpec

\* The requests of echoClient() and the replies of ICMPEchoServer, of any size, to
\* any host and in whatever memory: sent the way the routing table says, accepted by
\* the host they are for, and the answer to this ping and to no other.
THEOREM PingsComeBack == ExchangeSpec => []PingRoundTrip
<1>1. (ping # NoPing => ping \in Pings) => PingRoundTrip
  <2> SUFFICES ASSUME ping # NoPing, ping \in Pings
               PROVE  PingRoundTrip
    BY DEF PingRoundTrip
  <2> DEFINE p == ping
             b == RequestOf(ping)
             r == ReplyTo(ping)
             n == EchoSize(ping.size)
             l == WireLength(n)
             dest == Dest(ping)
             hop == HopMac(ping)
  <2>1. /\ n \in FrameLengths /\ n \in Nat /\ 46 <= n /\ n = ping.size + 46 /\ ping.size \in Nat
        /\ ping.host \in Stations /\ ping.host.ip \notin {My.ip, IPv4Broadcast}
        /\ My.ip \in IPAddresses /\ dest \in IPAddresses
        /\ dest \in {ping.host.ip, IPv4Broadcast} /\ (ping.to = "host" => dest = ping.host.ip)
    BY PingIs DEF FrameLengths, Dest
  <2>2. /\ l \in Nat /\ n <= l /\ b \in Buffers(l)
        /\ Packet(n, b, hop, EchoRequest, ping.quench, My.ip, dest)
    BY RequestIs
  <2>3. /\ r \in Buffers(l)
        /\ Packet(n, r, My.mac, EchoReply, ping.quench, ping.host.ip, My.ip)
        /\ Copy(r, 42, n - 46) = Copy(b, 42, n - 46)
    BY ReplyIs
  <2>4. hop = IF OnNetwork(dest) \/ Gateway = dest THEN ping.host.mac ELSE GatewayMac
    <3>1. My.ip \in IPAddresses
      BY <2>1
    <3>2. OnNetwork(dest) <=> Masked(dest, Mask) = Masked(My.ip, Mask)
      BY <2>1, MaskedIs, OnNetworkIs
    <3> QED
      BY <3>2 DEF HopMac, NextHop
  <2> HIDE DEF b, r, n, l, dest, hop
  <2>5. /\ EthernetDestination(b) = hop
        /\ \A my : IPv4Accepts(b, my) <=> dest \in {IPv4Broadcast, my.ip}
        /\ ICMPFrame(b) = [at |-> 34, size |-> n - 38]
        /\ ICMPAccepts(b)
        /\ ICMPType(b, ICMPFrame(b)) = EchoRequest
        /\ ICMPPayload(b, ICMPFrame(b)) = Copy(b, 42, n - 46)
    BY <2>1, <2>2, PacketRead
  <2>6. /\ \A my : IPv4Accepts(r, my) <=> My.ip \in {IPv4Broadcast, my.ip}
        /\ Source(r, EthernetPayload(r)) = ping.host.ip
        /\ ICMPAccepts(r)
        /\ ICMPType(r, ICMPFrame(r)) = EchoReply /\ Quench(r, ICMPFrame(r)) = ping.quench
        /\ ICMPPayload(r, ICMPFrame(r)) = Copy(r, 42, n - 46)
    <3> DEFINE mac == My.mac
               ip == My.ip
               host == ping.host.ip
    <3>1. Packet(n, r, mac, EchoReply, ping.quench, host, ip)
      BY <2>3
    <3> HIDE DEF mac, ip, host
    <3>2. /\ \A my : IPv4Accepts(r, my) <=> ip \in {IPv4Broadcast, my.ip}
          /\ Source(r, EthernetPayload(r)) = host
          /\ ICMPAccepts(r)
          /\ ICMPType(r, ICMPFrame(r)) = EchoReply /\ Quench(r, ICMPFrame(r)) = ping.quench
          /\ ICMPPayload(r, ICMPFrame(r)) = Copy(r, 42, n - 46)
      BY <2>1, <2>2, <2>3, <3>1, PacketRead
    <3> QED
      BY <3>2 DEF ip, host
  <2>7. ASSUME NEW my \in Hosts \union {My, Router}
        PROVE  /\ IPv4Accepts(b, my) <=> dest \in {my.ip, IPv4Broadcast}
               /\ IPv4Accepts(r, my) <=> my.ip = My.ip
    BY <2>5, <2>6, StationAssumption
  <2>8. Len(ICMPPayload(b, ICMPFrame(b))) = ping.size
    <3> DEFINE k == n - 46
    <3>1. k \in Nat /\ 42 + k <= l /\ k = ping.size
      BY <2>1, <2>2
    <3> HIDE DEF k
    <3>2. Copy(b, 42, k) \in Buffers(k)
      BY <2>2, <3>1, CopyIs
    <3>3. Len(Copy(b, 42, k)) = k
      BY <3>1, <3>2, BufferIs
    <3> QED
      BY <2>5, <3>1, <3>3 DEF k
  <2>9. ASSUME NEW q \in Quenches
        PROVE  Answers(r, q) <=> q = ping.quench
    BY <2>6 DEF Answers, EchoReply, Unreachable, TTLExceeded
  <2>10. ICMPPayload(r, ICMPFrame(r)) = ICMPPayload(b, ICMPFrame(b))
    BY <2>3, <2>5, <2>6
  <2> QED
    BY <2>4, <2>5, <2>6, <2>7, <2>8, <2>9, <2>10 DEF PingRoundTrip, b, r, dest
<1> QED
  BY <1>1, Chosen, PTL

\* EchoReplyListener finds in an error message the quench of the ping it is about,
\* behind the header of the message and the header that it quotes.
THEOREM ErrorsFindPings == ExchangeSpec => []ErrorFindsPing
<1>1. (ping # NoPing => ping \in Pings) => ErrorFindsPing
  <2> SUFFICES ASSUME ping # NoPing, ping \in Pings, NEW type \in {Unreachable, TTLExceeded}
               PROVE  /\ IPv4Accepts(ErrorAbout(ping, type), My) /\ ICMPAccepts(ErrorAbout(ping, type))
                      /\ \A q \in Quenches : Answers(ErrorAbout(ping, type), q) <=> q = ping.quench
    BY DEF ErrorFindsPing
  <2> DEFINE b == RequestOf(ping)
             e == ErrorAbout(ping, type)
             n == EchoSize(ping.size)
             l == WireLength(n)
             hop == HopMac(ping)
             dest == Dest(ping)
             k == 74
  <2>1. n \in FrameLengths /\ n \in Nat /\ 46 <= n
    BY PingIs DEF FrameLengths
  <2>2. /\ l \in Nat /\ n <= l /\ b \in Buffers(l)
        /\ Packet(n, b, hop, EchoRequest, ping.quench, My.ip, dest)
    BY RequestIs
  <2>3. /\ e \in Buffers(k)
        /\ Packet(k, e, My.mac, type, <<0, 0>>, Router.ip, My.ip)
        /\ Holds(e, 42, 28, Quote(b))
    BY ErrorIs
  <2> HIDE DEF b, e, n, l, hop, dest
  <2>4. /\ IPv4Accepts(e, My) /\ ICMPAccepts(e)
        /\ ICMPType(e, ICMPFrame(e)) = type /\ ICMPFrame(e) = [at |-> 34, size |-> 74 - 38]
    <3> DEFINE mac == My.mac
               ip == My.ip
               router == Router.ip
               q == <<0, 0>>
    <3>1. Packet(k, e, mac, type, q, router, ip) /\ k \in FrameLengths /\ k <= k /\ k \in Nat
      BY <2>3 DEF FrameLengths
    <3> HIDE DEF mac, ip, router, q, k
    <3>2. /\ \A my : IPv4Accepts(e, my) <=> ip \in {IPv4Broadcast, my.ip}
          /\ ICMPAccepts(e) /\ ICMPType(e, ICMPFrame(e)) = type
          /\ ICMPFrame(e) = [at |-> 34, size |-> k - 38]
      BY <2>3, <3>1, PacketRead
    <3> QED
      BY <3>2 DEF ip, k
\* What it quotes.
  <2>5. \A i \in 15 .. 42 : i # 23 => e[28 + i] = b[i]
    <3>1. 46 <= l
      BY <2>1, <2>2
    <3>2. \A i \in 1 .. 28 : i # 9 => Quote(b)[i] = b[14 + i]
      BY <2>2, <3>1, QuoteIs
    <3>3. \A i \in 1 .. 28 : e[42 + i] = Quote(b)[i]
      BY <2>3 DEF Holds
    <3> SUFFICES ASSUME NEW i \in 15 .. 42, i # 23
                 PROVE  e[28 + i] = b[i]
      OBVIOUS
    <3> DEFINE j == i - 14
    <3>4. j \in 1 .. 28 /\ j # 9 /\ 42 + j = 28 + i /\ 14 + j = i
      OBVIOUS
    <3> HIDE DEF j
    <3> QED
      BY <3>2, <3>3, <3>4
  <2> DEFINE quoted == Quoted(e)
             inner == IPv4Payload(e, quoted)
  <2>6. quoted.at = 42
    BY <2>4 DEF Quoted, ICMPOverhead
  <2> HIDE DEF quoted
  <2>7. b[15] = 69 /\ b[24] = ProtoICMP /\ b[35] = EchoRequest /\ Load32(b, 38) = ping.quench
    BY <2>2 DEF Packet
  <2>8. e[43] = 69 /\ e[52] = ProtoICMP /\ e[63] = EchoRequest
    BY <2>5, <2>7, 28 + 15 = 43, 28 + 24 = 52, 28 + 35 = 63
  <2>9. inner.at = 62
    BY <2>6, <2>8, 42 + 1 = 43, 69 % 16 = 5 DEF IPv4Payload, HeaderLength, Load8
  <2>10. Protocol(e, quoted) = ProtoICMP
    BY <2>6, <2>8, 42 + 9 + 1 = 52 DEF Protocol, Load8
  <2> HIDE DEF inner
  <2>11. ICMPType(e, inner) = EchoRequest
    BY <2>8, <2>9, 62 + 1 = 63 DEF ICMPType, Load8
  <2>12. Quench(e, inner) = ping.quench
    <3>1. e[67] = b[39] /\ e[68] = b[40] /\ e[69] = b[41] /\ e[70] = b[42]
      BY <2>5, 28 + 39 = 67, 28 + 40 = 68, 28 + 41 = 69, 28 + 42 = 70
    <3>2. Quench(e, inner) = <<256 * e[67] + e[68], 256 * e[69] + e[70]>>
      BY <2>9, 62 + 4 + 1 = 67, 62 + 4 + 1 + 1 = 68, 62 + 4 + 2 + 1 = 69, 62 + 4 + 2 + 1 + 1 = 70
         DEF Quench, Load32, Load16, Load8
    <3>3. Load32(b, 38) = <<256 * b[39] + b[40], 256 * b[41] + b[42]>>
      BY 38 + 1 = 39, 38 + 1 + 1 = 40, 38 + 2 + 1 = 41, 38 + 2 + 1 + 1 = 42 DEF Load32, Load16, Load8
    <3> QED
      BY <2>7, <3>1, <3>2, <3>3
  <2>13. ASSUME NEW q \in Quenches
         PROVE  Answers(e, q) <=> q = ping.quench
    <3>1. type # EchoReply
      BY DEF EchoReply, Unreachable, TTLExceeded
    <3> QED
      BY <2>4, <2>10, <2>11, <2>12, <3>1 DEF Answers, inner, quoted
  <2> QED
    BY <2>4, <2>13 DEF e
<1> QED
  BY <1>1, Chosen, PTL

\* Which fragment fields say that there is one fragment only.
LEMMA WholeIs ==
  ASSUME NEW f \in Word
  PROVE  f \in {0, 16384} <=> f % 16384 = 0 /\ f < 32768
BY DEF Word

\* IPv4Frame::isValid refuses fragments, whichever they are, and frames that were
\* cut short, though their checksum is right.
THEOREM PartsAreRefused == ExchangeSpec => []PartsRefused
<1>1. (ping # NoPing => ping \in Pings) => PartsRefused
  <2> SUFFICES ASSUME ping # NoPing, ping \in Pings
               PROVE  PartsRefused
    BY DEF PartsRefused
  <2> DEFINE a == RequestOf(ping)
             ip == EthernetPayload(a)
             n == EchoSize(ping.size)
             l == WireLength(n)
             hop == HopMac(ping)
             dest == Dest(ping)
  <2>1. /\ n \in FrameLengths /\ n \in Nat /\ 46 <= n
        /\ dest \in {ping.host.ip, IPv4Broadcast}
    BY PingIs DEF FrameLengths, Dest
  <2>2. /\ l \in Nat /\ n <= l /\ a \in Buffers(l)
        /\ Packet(n, a, hop, EchoRequest, ping.quench, My.ip, dest)
    BY RequestIs
  <2>3. ip.at = 14
    BY DEF EthernetPayload
  <2> HIDE DEF a, ip, n, l, hop, dest
  <2>4. /\ Load16(a, 12) = TypeIPv4 /\ a[15] = 69 /\ Load16(a, 16) = n - 18
        /\ Copy(a, 30, 4) = dest /\ Sealed(a, 14, 20, 5)
    BY <2>2 DEF Packet
  <2>5. ASSUME NEW f \in Fragments, NEW b, b = a ++ Store(ip.at + 6, Big16(f)),
               NEW r, r = b ++ Store(ip.at + 10, Big16(IPv4Checksum(b, ip)))
        PROVE  IPv4Accepts(r, ping.host) <=> f % 16384 = 0 /\ f < 32768
    <3>1. f \in Word
      BY FieldAssumption
    <3>2. b = a ++ Store(20, Big16(f))
      BY <2>3, <2>5, 14 + 6 = 20
    <3>3. Stored(l, a, 20, 2, b) /\ HoldsWord(b, 20, f)
      BY <2>1, <2>2, <3>1, <3>2, StoreWord
    <3>4. b \in Buffers(l) /\ b[15] = 69
      BY <2>1, <2>2, <2>4, <3>3 DEF Stored
    <3>5. IPv4Checksum(b, ip) = Checksum(Copy(b, 14, 20), 5)
      <4>1. HeaderLength(b, ip) = 20
        BY <2>3, <3>4, 14 + 1 = 15, 69 % 16 = 5 DEF HeaderLength, Load8
      <4> QED
        BY <2>3, <4>1 DEF IPv4Checksum
    <3>6. Stored(l, b, 24, 2, r) /\ Sealed(r, 14, 20, 5)
      <4> DEFINE m  == 20
                 p  == 14
                 k1 == 5
                 at == 24
                 w  == Checksum(Copy(b, p, m), k1)
      <4>1. /\ m \in Nat /\ p \in Nat /\ k1 \in Nat /\ p + m <= l /\ 2 * k1 + 2 <= m
            /\ at = p + 2 * k1
        BY <2>1, <2>2
      <4>2. r = b ++ Store(at, Big16(w))
        BY <2>3, <2>5, <3>5, 14 + 10 = 24
      <4>3. w = Checksum(Copy(b, p, m), k1)
        OBVIOUS
      <4> HIDE DEF w, m, p, k1, at
      <4>4. Stored(l, b, at, 2, r) /\ Sealed(r, p, m, k1)
        BY <2>2, <3>4, <4>1, <4>2, <4>3, StoreSeal
      <4> QED
        BY <4>4 DEF m, p, k1, at
    <3>7. r \in Buffers(l)
      BY <3>6 DEF Stored
    <3>8. \A i \in 1 .. l : i \notin {21, 22, 25, 26} => r[i] = a[i]
      BY <3>3, <3>6 DEF Stored
    <3>9. r[15] = 69
      BY <2>1, <2>2, <2>4, <3>8
    <3>10. Load16(r, 12) = TypeIPv4 /\ Load16(r, 16) = n - 18
      <4>1. Same(a, r, 12, 12 + 2)
        BY <2>1, <2>2, <3>8 DEF Same
      <4>2. Same(a, r, 16, 16 + 2)
        BY <2>1, <2>2, <3>8 DEF Same
      <4> QED
        BY <2>4, <4>1, <4>2, Load16Same
    <3>11. Load16(r, 20) = f
      <4>1. Same(b, r, 20, 20 + 2)
        BY <2>1, <2>2, <3>6 DEF Stored, Same
      <4> QED
        BY <3>3, <4>1, Load16Same DEF HoldsWord
    <3>12. Copy(r, 30, 4) = dest
      <4>1. Same(a, r, 30, 30 + 4) /\ 30 + 4 <= l
        BY <2>1, <2>2, <3>8 DEF Same
      <4> QED
        BY <2>2, <2>4, <3>7, <4>1, CopySame
    <3>13. IPv4Accepts(r, ping.host) <=>
             n <= l /\ Load16(r, 20) \in {0, 16384} /\ Copy(r, 30, 4) \in {IPv4Broadcast, ping.host.ip}
      BY <2>1, <2>2, <3>6, <3>7, <3>9, <3>10, AcceptedIs
    <3> QED
      BY <2>1, <2>2, <3>1, <3>11, <3>12, <3>13, WholeIs
\* A frame that was cut short.
  <2> DEFINE c == Copy(a, 0, (14 + TotalLength(a, ip)) - 1) \o CRC
  <2>6. ~IPv4Accepts(c, ping.host)
    <3> DEFINE k == n - 5
               m == n - 1
               x == Copy(a, 0, k)
    <3>1. k \in Nat /\ m \in Nat /\ k <= m /\ m - k = 4 /\ 0 + k <= l /\ 41 <= k /\ k = (14 + (n - 18)) - 1
          /\ ~(n <= m) /\ \A i \in 1 .. k : 0 + i = i
      BY <2>1, <2>2
    <3>2. TotalLength(a, ip) = n - 18
      BY <2>3, <2>4, 14 + 2 = 16 DEF TotalLength
    <3>3. c = x \o CRC
      BY <3>1, <3>2
    <3> HIDE DEF c
    <3>4. CRC \in Buffers(4)
      <4>1. CRC \in [1 .. 4 -> Byte]
        BY DEF CRC, Byte
      <4> QED
        BY <4>1, FunctionIs
    <3> HIDE DEF k, m
    <3>5. x \in Buffers(k) /\ \A i \in 1 .. k : x[i] = a[0 + i]
      BY <2>2, <3>1, CopyIs
    <3> HIDE DEF x
    <3>6. Joined(c, k, x, m, CRC)
      BY <3>1, <3>3, <3>4, <3>5, JoinIs
    <3>7. c \in Buffers(m)
      BY <3>6 DEF Joined
    <3>8. Same(a, c, 0, k)
      <4> SUFFICES ASSUME NEW i \in Nat, 0 < i, i <= k
                   PROVE  c[i] = a[i]
        BY DEF Same
      <4>1. i \in 1 .. k /\ i \in 1 .. m
        BY <3>1
      <4> QED
        BY <3>1, <3>5, <3>6, <4>1 DEF Joined
    <3>9. \A i \in Nat : 0 < i /\ i <= 41 => c[i] = a[i]
      BY <3>1, <3>8 DEF Same
    <3>10. c[15] = 69
      BY <2>4, <3>9
    <3>11. Load16(c, 12) = TypeIPv4 /\ Load16(c, 16) = n - 18
      <4>1. Same(a, c, 12, 12 + 2)
        BY <3>9 DEF Same
      <4>2. Same(a, c, 16, 16 + 2)
        BY <3>9 DEF Same
      <4> QED
        BY <2>4, <4>1, <4>2, Load16Same
    <3>12. Sealed(c, 14, 20, 5)
      <4> DEFINE s  == 20
                 p  == 14
                 k1 == 5
      <4>1. s \in Nat /\ p \in Nat /\ k1 \in Nat /\ p + s <= l /\ p + s <= m /\ 2 * k1 + 2 <= s
        BY <2>1, <2>2, <3>1
      <4>2. Same(a, c, p, p + s)
        BY <3>9 DEF Same
      <4>3. Sealed(a, p, s, k1)
        BY <2>4
      <4> HIDE DEF s, p, k1
      <4>4. Sealed(c, p, s, k1)
        BY <2>2, <3>1, <3>7, <4>1, <4>2, <4>3, SealedSame
      <4> QED
        BY <4>4 DEF s, p, k1
    <3>13. IPv4Accepts(c, ping.host) <=>
             n <= m /\ Load16(c, 20) \in {0, 16384} /\ Copy(c, 30, 4) \in {IPv4Broadcast, ping.host.ip}
      BY <2>1, <3>1, <3>7, <3>10, <3>11, <3>12, AcceptedIs
    <3> QED
      BY <3>1, <3>13
  <2>7. \A f \in Fragments :
           LET b == a ++ Store(ip.at + 6, Big16(f))
               r == b ++ Store(ip.at + 10, Big16(IPv4Checksum(b, ip)))
           IN  IPv4Accepts(r, ping.host) <=> f % 16384 = 0 /\ f < 32768
    BY <2>5
  <2>8. LET whole == 14 + TotalLength(a, ip)
        IN  ~IPv4Accepts(Copy(a, 0, whole - 1) \o CRC, ping.host)
    BY <2>6, Zenon
  <2> HIDE DEF c
  <2> QED
    BY <2>7, <2>8 DEF PartsRefused, a, ip
<1> QED
  BY <1>1, Chosen, PTL

\* The buffer of an ARP frame.
LEMMA ARPSent ==
  ASSUME NEW h \in Buffers(46), NEW target \in MacAddresses, NEW ip \in IPAddresses,
         NEW oper \in {1, 2}, NEW b, b = SendARP(h, My, target, ip, oper)
  PROVE  /\ b \in Buffers(46)
         /\ Copy(b, 0, 6) = target /\ Load16(b, 12) = TypeARP
         /\ Load16(b, 14) = 1 /\ Load16(b, 16) = TypeIPv4 /\ b[19] = 6 /\ b[20] = 4
         /\ Load16(b, 20) = oper
         /\ Copy(b, 22, 6) = My.mac /\ Copy(b, 28, 4) = My.ip
         /\ Copy(b, 32, 6) = target /\ Copy(b, 38, 4) = ip
<1> DEFINE n   == 46
           mac == My.mac
           me  == My.ip
           b1  == h ++ Store(12, Big16(TypeARP))
           b2  == b1 ++ Store(0, target)
           b3  == b2 ++ Store(6, mac)
           b4  == b3 ++ Store(14, Big16(1))
           b5  == b4 ++ Store(16, Big16(TypeIPv4))
           b6  == b5 ++ Store(18, <<6, 4>>)
           b7  == b6 ++ Store(20, Big16(oper))
           b8  == b7 ++ Store(32, target)
           b9  == b8 ++ Store(38, ip)
           b10 == b9 ++ Store(22, mac)
           m   == b10 ++ Store(28, me)
<1>0. /\ n \in Nat /\ 46 <= n /\ h \in Buffers(n)
      /\ 1 \in Word /\ oper \in Word /\ TypeARP \in Word /\ TypeIPv4 \in Word
      /\ target \in Buffers(6) /\ mac \in Buffers(6) /\ ip \in Buffers(4) /\ me \in Buffers(4)
  <2>1. target \in Buffers(6) /\ ip \in Buffers(4)
    BY FunctionIs DEF MacAddresses, IPAddresses
  <2>2. mac \in Buffers(6) /\ me \in Buffers(4)
    BY StationAssumption, StationIs
  <2> QED
    BY <2>1, <2>2 DEF Word, TypeARP, TypeIPv4
<1>01. /\ <<6, 4>> \in Buffers(2) /\ <<6, 4>>[1] = 6 /\ <<6, 4>>[2] = 4
  <2>1. 6 \in Byte /\ 4 \in Byte
    BY DEF Byte
  <2> QED
    BY <2>1, TwoBytes
<1>02. SendARP(h, My, target, ip, oper) = m
  <2>1. EthernetPayload(h).at = 14
    BY DEF EthernetPayload
  <2>2. SendARP(h, My, target, ip, oper) =
          h ++ Store(12, Big16(TypeARP)) ++ Store(0, target) ++ Store(6, My.mac)
            ++ Store(14, Big16(1)) ++ Store(14 + 2, Big16(TypeIPv4)) ++ Store(14 + 4, <<6, 4>>)
            ++ Store(14 + 6, Big16(oper)) ++ Store(14 + 18, target) ++ Store(14 + 24, ip)
            ++ Store(14 + 8, My.mac) ++ Store(14 + 14, My.ip)
    BY <2>1 DEF SendARP, ARPHeaders, EthernetHeader
  <2> QED
    BY <2>2, 14 + 2 = 16, 14 + 4 = 18, 14 + 6 = 20, 14 + 18 = 32, 14 + 24 = 38, 14 + 8 = 22, 14 + 14 = 28
<1> DEFINE lengths == <<6, 4>>
<1>03. b6 = b5 ++ Store(18, lengths) /\ lengths \in Buffers(2) /\ lengths[1] = 6 /\ lengths[2] = 4
  BY <1>01
<1> HIDE DEF n, mac, me, lengths
<1>1. Stored(n, h, 12, 2, b1) /\ HoldsWord(b1, 12, TypeARP)
  BY <1>0, StoreWord
<1>2. Stored(n, b1, 0, 6, b2) /\ Holds(b2, 0, 6, target)
  <2>1. b1 \in Buffers(n)
    BY <1>1 DEF Stored
  <2> HIDE DEF b1
  <2> QED
    BY <1>0, <2>1, StoreIs
<1>3. Stored(n, b2, 6, 6, b3)
  <2>1. b2 \in Buffers(n)
    BY <1>2 DEF Stored
  <2> DEFINE p == 6
  <2>2. p \in Nat /\ p + 6 <= n /\ b3 = b2 ++ Store(p, mac)
    BY <1>0
  <2> HIDE DEF b2, b3, p
  <2>3. Stored(n, b2, p, 6, b3)
    BY <1>0, <2>1, <2>2, StoreIs
  <2> QED
    BY <2>3 DEF p
<1>4. Stored(n, b3, 14, 2, b4) /\ HoldsWord(b4, 14, 1)
  <2>1. b3 \in Buffers(n)
    BY <1>3 DEF Stored
  <2> HIDE DEF b3
  <2> QED
    BY <1>0, <2>1, StoreWord
<1>5. Stored(n, b4, 16, 2, b5) /\ HoldsWord(b5, 16, TypeIPv4)
  <2>1. b4 \in Buffers(n)
    BY <1>4 DEF Stored
  <2> HIDE DEF b4
  <2> QED
    BY <1>0, <2>1, StoreWord
<1>6. Stored(n, b5, 18, 2, b6) /\ Holds(b6, 18, 2, lengths)
  <2>1. b5 \in Buffers(n)
    BY <1>5 DEF Stored
  <2> HIDE DEF b5, b6
  <2> QED
    BY <1>0, <1>03, <2>1, StoreIs
<1>7. Stored(n, b6, 20, 2, b7) /\ HoldsWord(b7, 20, oper)
  <2>1. b6 \in Buffers(n)
    BY <1>6 DEF Stored
  <2> HIDE DEF b6
  <2> QED
    BY <1>0, <2>1, StoreWord
<1>8. Stored(n, b7, 32, 6, b8) /\ Holds(b8, 32, 6, target)
  <2>1. b7 \in Buffers(n)
    BY <1>7 DEF Stored
  <2> HIDE DEF b7
  <2> QED
    BY <1>0, <2>1, StoreIs
<1>9. Stored(n, b8, 38, 4, b9) /\ Holds(b9, 38, 4, ip)
  <2>1. b8 \in Buffers(n)
    BY <1>8 DEF Stored
  <2> HIDE DEF b8
  <2> QED
    BY <1>0, <2>1, StoreIs
<1>10. Stored(n, b9, 22, 6, b10) /\ Holds(b10, 22, 6, mac)
  <2>1. b9 \in Buffers(n)
    BY <1>9 DEF Stored
  <2> HIDE DEF b9
  <2> QED
    BY <1>0, <2>1, StoreIs
<1>11. Stored(n, b10, 28, 4, m) /\ Holds(m, 28, 4, me)
  <2>1. b10 \in Buffers(n)
    BY <1>10 DEF Stored
  <2> HIDE DEF b10
  <2> QED
    BY <1>0, <2>1, StoreIs
<1> HIDE DEF b1, b2, b3, b4, b5, b6, b7, b8, b9, b10, m
<1>12. m \in Buffers(n)
  BY <1>11 DEF Stored
\* What is where, at last.
<1>13. Copy(m, 0, 6) = target
  <2>1. Same(b2, m, 0, 0 + 6)
    <3> SUFFICES ASSUME NEW i \in Nat, 0 < i, i <= 0 + 6
                 PROVE  m[i] = b2[i]
      BY DEF Same
    <3>1. i \in 1 .. n /\ i <= 6
      BY <1>0
    <3> QED
      BY <1>3, <1>4, <1>5, <1>6, <1>7, <1>8, <1>9, <1>10, <1>11, <3>1 DEF Stored
  <2>2. b2 \in Buffers(n) /\ 0 + 6 <= n
    BY <1>0, <1>2 DEF Stored
  <2>3. Copy(m, 0, 6) = Copy(b2, 0, 6)
    BY <1>0, <1>12, <2>1, <2>2, CopySame
  <2> QED
    BY <1>2, <2>3 DEF Holds
<1>14. Load16(m, 12) = TypeARP
  <2>1. Same(b1, m, 12, 12 + 2)
    <3> SUFFICES ASSUME NEW i \in Nat, 12 < i, i <= 12 + 2
                 PROVE  m[i] = b1[i]
      BY DEF Same
    <3>1. i \in 1 .. n /\ i <= 14
      BY <1>0
    <3> QED
      BY <1>2, <1>3, <1>4, <1>5, <1>6, <1>7, <1>8, <1>9, <1>10, <1>11, <3>1 DEF Stored
  <2> QED
    BY <1>1, <2>1, Load16Same DEF HoldsWord
<1>15. Load16(m, 14) = 1
  <2>1. Same(b4, m, 14, 14 + 2)
    <3> SUFFICES ASSUME NEW i \in Nat, 14 < i, i <= 14 + 2
                 PROVE  m[i] = b4[i]
      BY DEF Same
    <3>1. i \in 1 .. n /\ i <= 16
      BY <1>0
    <3> QED
      BY <1>5, <1>6, <1>7, <1>8, <1>9, <1>10, <1>11, <3>1 DEF Stored
  <2> QED
    BY <1>4, <2>1, Load16Same DEF HoldsWord
<1>16. Load16(m, 16) = TypeIPv4
  <2>1. Same(b5, m, 16, 16 + 2)
    <3> SUFFICES ASSUME NEW i \in Nat, 16 < i, i <= 16 + 2
                 PROVE  m[i] = b5[i]
      BY DEF Same
    <3>1. i \in 1 .. n /\ i <= 18
      BY <1>0
    <3> QED
      BY <1>6, <1>7, <1>8, <1>9, <1>10, <1>11, <3>1 DEF Stored
  <2> QED
    BY <1>5, <2>1, Load16Same DEF HoldsWord
<1>17. m[19] = 6 /\ m[20] = 4
  <2>1. b6[18 + 1] = lengths[1] /\ b6[18 + 2] = lengths[2]
    BY <1>6 DEF Holds
  <2>2. b6[19] = 6 /\ b6[20] = 4 /\ 19 \in 1 .. n /\ 20 \in 1 .. n
    BY <1>0, <1>03, <2>1, 18 + 1 = 19, 18 + 2 = 20
  <2> QED
    BY <1>7, <1>8, <1>9, <1>10, <1>11, <2>2 DEF Stored
<1>18. Load16(m, 20) = oper
  <2>1. Same(b7, m, 20, 20 + 2)
    <3> SUFFICES ASSUME NEW i \in Nat, 20 < i, i <= 20 + 2
                 PROVE  m[i] = b7[i]
      BY DEF Same
    <3>1. i \in 1 .. n /\ i <= 22
      BY <1>0
    <3> QED
      BY <1>8, <1>9, <1>10, <1>11, <3>1 DEF Stored
  <2> QED
    BY <1>7, <2>1, Load16Same DEF HoldsWord
<1>19. Copy(m, 22, 6) = mac
  <2>1. Same(b10, m, 22, 22 + 6)
    BY <1>0, <1>11 DEF Stored, Same
  <2>2. b10 \in Buffers(n) /\ 22 + 6 <= n
    BY <1>0, <1>10 DEF Stored
  <2>3. Copy(m, 22, 6) = Copy(b10, 22, 6)
    BY <1>0, <1>12, <2>1, <2>2, CopySame
  <2> QED
    BY <1>10, <2>3 DEF Holds
<1>20. Copy(m, 28, 4) = me
  BY <1>11 DEF Holds
<1>21. Copy(m, 32, 6) = target
  <2>1. Same(b8, m, 32, 32 + 6)
    BY <1>0, <1>9, <1>10, <1>11 DEF Stored, Same
  <2>2. b8 \in Buffers(n) /\ 32 + 6 <= n
    BY <1>0, <1>8 DEF Stored
  <2>3. Copy(m, 32, 6) = Copy(b8, 32, 6)
    BY <1>0, <1>12, <2>1, <2>2, CopySame
  <2> QED
    BY <1>8, <2>3 DEF Holds
<1>22. Copy(m, 38, 4) = ip
  <2>1. Same(b9, m, 38, 38 + 4)
    BY <1>0, <1>10, <1>11 DEF Stored, Same
  <2>2. b9 \in Buffers(n) /\ 38 + 4 <= n
    BY <1>0, <1>9 DEF Stored
  <2>3. Copy(m, 38, 4) = Copy(b9, 38, 4)
    BY <1>0, <1>12, <2>1, <2>2, CopySame
  <2> QED
    BY <1>9, <2>3 DEF Holds
<1>23. b = m
  BY <1>02
<1> QED
  BY <1>12, <1>13, <1>14, <1>15, <1>16, <1>17, <1>18, <1>19, <1>20, <1>21, <1>22, <1>23 DEF n, mac, me

\* What ARP_Handler::sendARP puts into a frame is what the handler of another board
\* reads from it, padded or not, and IPv4_Handler leaves it alone.
THEOREM ARPIsUnderstood == ExchangeSpec => []ARPRoundTrip
<1>1. (ping # NoPing => ping \in Pings) => ARPRoundTrip
  <2> SUFFICES ASSUME ping # NoPing, ping \in Pings, NEW oper \in {1, 2},
                      NEW target \in {EthernetBroadcast, ping.host.mac},
                      NEW frame, frame = OnWire(SendARP(New(ping.heap, ARPSize + EthernetOverhead),
                                                        My, target, ping.host.ip, oper))
               PROVE  /\ EtherType(frame) = TypeARP /\ ARPValid(frame)
                      /\ EthernetDestination(frame) = target
                      /\ ARPFields(frame) = [oper |-> oper, smac |-> My.mac, sip |-> My.ip,
                                             tmac |-> target, tip |-> ping.host.ip]
                      /\ ~IPv4Accepts(frame, ping.host)
    BY DEF ARPRoundTrip
  <2> DEFINE n  == 46
             h  == New(ping.heap, n)
             ip == ping.host.ip
             b  == SendARP(h, My, target, ip, oper)
             l  == WireLength(n)
  <2>1. ping.heap \in Heaps /\ ping.host \in Stations /\ ip \in IPAddresses /\ target \in MacAddresses
    <3>1. ping.heap \in Heaps /\ ping.host \in Stations
      BY PingIs
    <3>2. EthernetBroadcast \in MacAddresses
      BY DEF EthernetBroadcast, MacAddresses, Byte
    <3> QED
      BY <3>1, <3>2 DEF Stations
  <2>2. h \in Buffers(n)
    <3>1. n \in Nat /\ n <= EchoSize(28)
      BY DEF EchoSize, ICMPOverhead, IPv4Overhead, EthernetOverhead
    <3> QED
      BY <2>1, <3>1, NewIs
  <2>3. frame = OnWire(b)
    BY DEF ARPSize, EthernetOverhead
  <2> HIDE DEF h, ip, b
  <2>4. /\ b \in Buffers(46)
        /\ Copy(b, 0, 6) = target /\ Load16(b, 12) = TypeARP
        /\ Load16(b, 14) = 1 /\ Load16(b, 16) = TypeIPv4 /\ b[19] = 6 /\ b[20] = 4
        /\ Load16(b, 20) = oper
        /\ Copy(b, 22, 6) = My.mac /\ Copy(b, 28, 4) = My.ip
        /\ Copy(b, 32, 6) = target /\ Copy(b, 38, 4) = ip
    BY <2>1, <2>2, ARPSent DEF b
  <2> HIDE DEF n, l
  <2>5. n \in Nat /\ 4 <= n /\ n = 46 /\ l = 64 /\ l \in Nat
    BY DEF n, l, WireLength
  <2>6. frame \in Buffers(l) /\ Same(b, frame, 0, n - 4)
    <3>1. b \in Buffers(n)
      BY <2>4, <2>5
    <3> QED
      BY <2>3, <2>5, <3>1, OnWireIs DEF l
  <2>7. \A i \in Nat : 0 < i /\ i <= 42 => frame[i] = b[i]
    BY <2>5, <2>6 DEF Same
  <2>8. \A p \in Nat, q \in Nat : q <= 42 => Same(b, frame, p, q)
    BY <2>7 DEF Same
  <2>9. frame[19] = 6 /\ frame[20] = 4
    BY <2>4, <2>7
  <2>10. /\ Load16(frame, 12) = TypeARP /\ Load16(frame, 14) = 1 /\ Load16(frame, 16) = TypeIPv4
         /\ Load16(frame, 20) = oper
    <3>1. /\ Same(b, frame, 12, 12 + 2) /\ Same(b, frame, 14, 14 + 2) /\ Same(b, frame, 16, 16 + 2)
          /\ Same(b, frame, 20, 20 + 2)
      BY <2>8
    <3> QED
      BY <2>4, <3>1, Load16Same
  <2>11. ASSUME NEW p \in Nat, NEW m \in Nat, p + m <= 42
         PROVE  Copy(frame, p, m) = Copy(b, p, m)
    <3>1. p + m \in Nat /\ p + m <= n /\ p + m <= l
      BY <2>5, <2>11
    <3>2. Same(b, frame, p, p + m)
      BY <2>8, <2>11, <3>1
    <3>3. b \in Buffers(n)
      BY <2>4, <2>5
    <3> QED
      BY <2>5, <2>6, <3>1, <3>2, <3>3, CopySame
  <2>12. /\ Copy(frame, 0, 6) = target /\ Copy(frame, 22, 6) = My.mac /\ Copy(frame, 28, 4) = My.ip
         /\ Copy(frame, 32, 6) = target /\ Copy(frame, 38, 4) = ip
    <3>1. /\ Copy(frame, 0, 6) = Copy(b, 0, 6) /\ Copy(frame, 22, 6) = Copy(b, 22, 6)
          /\ Copy(frame, 28, 4) = Copy(b, 28, 4) /\ Copy(frame, 32, 6) = Copy(b, 32, 6)
          /\ Copy(frame, 38, 4) = Copy(b, 38, 4)
      BY <2>11
    <3> QED
      BY <2>4, <3>1
  <2>13. EthernetPayload(frame).at = 14
    BY DEF EthernetPayload
  <2>14. ARPFields(frame) = [oper |-> oper, smac |-> My.mac, sip |-> My.ip,
                             tmac |-> target, tip |-> ip]
    BY <2>10, <2>12, <2>13, 14 + 6 = 20, 14 + 8 = 22, 14 + 14 = 28, 14 + 18 = 32, 14 + 24 = 38
       DEF ARPFields
  <2>15. ARPValid(frame)
    <3>1. ARPFields(frame).oper \in {1, 2}
      BY <2>14
    <3> QED
      BY <2>9, <2>10, <2>13, <3>1, 14 + 2 = 16, 14 + 4 = 18, 14 + 5 = 19, 18 + 1 = 19, 19 + 1 = 20
         DEF ARPValid, Load8
  <2>16. ~IPv4Accepts(frame, ping.host)
    BY <2>10 DEF IPv4Accepts, EtherType, TypeARP, TypeIPv4
  <2>17. EtherType(frame) = TypeARP /\ EthernetDestination(frame) = target
    BY <2>10, <2>12 DEF EtherType, EthernetDestination
  <2> QED
    BY <2>14, <2>15, <2>16, <2>17 DEF ip
<1> QED
  BY <1>1, Chosen, PTL
==============================================================================
