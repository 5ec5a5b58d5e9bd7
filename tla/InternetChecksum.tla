-------------------------- MODULE InternetChecksum --------------------------
(***************************************************************************)
(* IP::checksum, the checksum of IPv4 headers (over an even number of      *)
(* bytes) and of ICMP messages (over any number), and what it is meant to  *)
(* be: the complement of the one's complement sum of the 16-bit words      *)
(* (RFC 1071).                                                             *)
(***************************************************************************)
EXTENDS Naturals, Sequences

Byte == 0 .. 255

\* loadBig16 at word k (from 0) of the bytes b.
LoadBig16(b, k) == b[2 * k + 1] * 256 + b[2 * k + 2]

\* The sum of f[0], f[1], ..., f[n - 1].
SumOf(f, n) ==
  LET sum[i \in 0 .. n] == IF i = 0 THEN 0 ELSE sum[i - 1] + f[i - 1]
  IN  sum[n]

\* Mutant of Words: the inner loop stops one word early.
FewerWords(b, skip16) ==
  [k \in 0 .. Len(b) \div 2 - 1 |->
     IF k \in {skip16, Len(b) \div 2 - 1} THEN 0 ELSE LoadBig16(b, k)]

\* What the rounds of the inner loop add: the words, but for word skip16.
Words(b, skip16) ==
  [k \in 0 .. Len(b) \div 2 - 1 |-> IF k = skip16 THEN 0 ELSE LoadBig16(b, k)]

\* The 32-bit sum, left-over byte included.
Sum32(b, skip16) ==
  SumOf(Words(b, skip16), Len(b) \div 2)
    + (IF Len(b) % 2 = 1 THEN b[Len(b)] ELSE 0)

\* sum = (sum & 0xffff) + (sum >> 16)
FoldOnce(sum) == (sum % 65536) + (sum \div 65536)

\* "Fold 32-bit sum to 16 bits"
Fold(sum) ==
  LET fold[s \in Nat] == IF s \div 65536 = 0 THEN s ELSE fold[FoldOnce(s)]
  IN  fold[sum]

\* ~sum as uint16_t; skip16 = -1 in the code, which skips nothing, is any
\* number that is not the number of a word.
Checksum(b, skip16) == 65535 - Fold(Sum32(b, skip16))

\* Mutant of StoreBig16: the bytes are swapped.
StoreLittle16(b, k, w) ==
  [b EXCEPT ![2 * k + 1] = w % 256, ![2 * k + 2] = w \div 256]

\* storeBig16 at word k.
StoreBig16(b, k, w) ==
  [b EXCEPT ![2 * k + 1] = w \div 256, ![2 * k + 2] = w % 256]

\* setChecksum( computeChecksum() ) with the checksum at word k.
Seal(b, k) == StoreBig16(b, k, Checksum(b, k))

\* getChecksum() == computeChecksum()
IsSealed(b, k) == LoadBig16(b, k) = Checksum(b, k)
------------------------------------------------------------------------------
(***************************************************************************)
(* The reference: the sum of all words in the arithmetic modulo 65535 that *)
(* has 65535 for zero unless all words are zero; a last odd byte is the    *)
(* upper half of a word.                                                   *)
(***************************************************************************)
EndAround(total) == IF total = 0 THEN 0 ELSE ((total - 1) % 65535) + 1

Padded(b) == IF Len(b) % 2 = 1 THEN Append(b, 0) ELSE b

ReferenceSum(b) ==
  LET n == Len(Padded(b)) \div 2
  IN  EndAround(SumOf([k \in 0 .. n - 1 |-> Padded(b)[2 * k + 1] * 256
                                              + Padded(b)[2 * k + 2]], n))

Reference(b) == 65535 - ReferenceSum(b)

\* How any other host checks a message that carries its checksum: the sum of
\* all of it, checksum included, is all ones.
AcceptedElsewhere(b) == ReferenceSum(b) = 65535
==============================================================================
