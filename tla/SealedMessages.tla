---------------------------- MODULE SealedMessages ----------------------------
(***************************************************************************)
(* What the checksum of InternetChecksum promises: for every message of    *)
(* bytes, wherever in it the checksum is.  The messages grow byte by byte, *)
(* as payloads come in every size.                                         *)
(***************************************************************************)
EXTENDS InternetChecksum

CONSTANTS
  Bytes,      \* the bytes of messages
  MaxLength   \* bound on the length of a message

\* The total length of a packet has 16 bits.
ASSUME MessageAssumption ==
  Bytes \subseteq Byte /\ MaxLength \in Nat /\ MaxLength <= 65535

VARIABLE bytes   \* a message

NoMessage == bytes = <<>>

GrowMessage ==
  /\ Len(bytes) < MaxLength
  /\ \E b \in Bytes : bytes' = Append(bytes, b)

MessageSpec == NoMessage /\ [][GrowMessage]_bytes
-------------------------------------------------------------------------------
CheckWords == 0 .. Len(bytes) \div 2 - 1

\* Over an even number of bytes, as in every IPv4 header, checksum() is the
\* Internet checksum, whatever carries the words produce; leaving a word out
\* is the same as having zero there.
EvenIsReference ==
  Len(bytes) % 2 = 0 =>
    /\ Checksum(bytes, MaxLength) = Reference(bytes)
    /\ \A k \in CheckWords :
         Checksum(bytes, k) = Reference(StoreBig16(bytes, k, 0))

\* What this program seals another board finds sealed, for even and odd lengths
\* and wherever the checksum is; a message of even length is accepted by every
\* host that checks by the book.
SealedIsValid ==
  \A k \in CheckWords :
    LET sealed == Seal(bytes, k)
    IN  /\ IsSealed(sealed, k)
        /\ Len(bytes) % 2 = 0 => AcceptedElsewhere(sealed)

\* One damaged byte, in the checksum or elsewhere, is always noticed.
DamageNoticed ==
  \A k \in CheckWords :
    LET sealed == Seal(bytes, k)
    IN  \A i \in 1 .. Len(bytes), b \in Bytes :
          b # sealed[i] => ~IsSealed([sealed EXCEPT ![i] = b], k)

\* Compute Internet Checksum for "count" bytes, for every count.
IsInternetChecksum == Checksum(bytes, MaxLength) = Reference(bytes)
===============================================================================
