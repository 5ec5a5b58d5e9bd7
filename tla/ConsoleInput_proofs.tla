------------------------- MODULE ConsoleInput_proofs -------------------------
(***************************************************************************)
(* Theorems about ConsoleInput, for every number of octets, every limit    *)
(* and every width of the number.                                          *)
(***************************************************************************)
EXTENDS ConsoleInput, TLAPS

\* What is read now agrees with the screen, and what is not read is empty.
Shown ==
  /\ octets = shownIP
  /\ ~AskingIP => octets = NoOctets /\ octet = 1 /\ chars = FALSE
  /\ ~AskingNumber => tmp = 0 /\ shown = 0 /\ dotted = FALSE
  /\ ~dotted => tmp = shown /\ tmp <= NumberMax

IInv == TypeOK /\ Shown

\* A byte takes one more digit that fits and stays a byte.
LEMMA OctetFits ==
  ASSUME NEW n \in 0 .. 255, NEW c \in Digits, FitsOctet(n, c)
  PROVE  (10 * n + c) % 256 = 10 * n + c /\ 10 * n + c \in 0 .. 255
  BY DEF Digits, FitsOctet

LEMMA Limits ==
  /\ NumberMax \in Nat /\ NumberWidth \in Nat
  /\ NumberMax < NumberWidth /\ 9 < NumberWidth
  BY ConsoleAssumption DEF NumberMax, NumberWidth, TtlMax, TtlWidth

\* A number within its limit takes one more digit that fits and stays within.
LEMMA DigitFits ==
  ASSUME tmp \in Nat, NEW c \in Digits, FitsNumber(c)
  PROVE  10 * tmp + c \in 0 .. NumberMax
<1> DEFINE max == NumberMax
           md == max \div 10
           mm == max % 10
<1>1. max \in Nat /\ max = 10 * md + mm /\ mm \in 0 .. 9 /\ md \in Nat
  BY Limits
<1>2. c \in 0 .. 9 /\ c % NumberWidth = c
  BY Limits DEF Digits
<1>3. tmp < md \/ (tmp = md /\ c <= mm)
  BY <1>2 DEF FitsNumber
<1> HIDE DEF max, md, mm
<1>4. 10 * tmp + c \in 0 .. max
  BY <1>1, <1>2, <1>3
<1> QED
  BY <1>4 DEF max

LEMMA GetKey ==
  ASSUME TypeOK, NEW c, GetC(c)
  PROVE  c \in Keys /\ box' \in Seq(Keys) /\ Len(box') <= BoxSize
<1>1. box \in Seq(Keys) /\ box # <<>> /\ Len(box) <= BoxSize
  BY DEF TypeOK, GetC
<1>2. Head(box) \in Keys /\ Tail(box) \in Seq(Keys) /\ Len(Tail(box)) = Len(box) - 1
      /\ Len(box) \in Nat
  BY <1>1
<1> QED
  BY <1>1, <1>2, ConsoleAssumption DEF GetC

LEMMA InputStep ==
  ASSUME IInv, [Next]_vars
  PROVE  IInv'
<1> DEFINE BoxOK == box \in Seq(Keys) /\ Len(box) <= BoxSize
<1>1. TypeOK /\ Shown
  BY DEF IInv
<1>2. ASSUME NEW c \in Keys, Type(c)
      PROVE  IInv'
  <2>1. BoxOK'
    BY <1>1, <1>2, ConsoleAssumption DEF Type, TypeOK
  <2> QED
    BY <1>1, <1>2, <2>1
    DEF Type, IInv, TypeOK, Shown, AskingIP, AskingNumber, NumberMax, ipVars, numberVars
<1>3. CASE Menu
  <2>1. PICK c \in Keys : /\ GetC(c)
                          /\ \/ prompt' \in {"Resolve", "EchoIP"}
                             \/ UNCHANGED prompt
    BY <1>3 DEF Menu
  <2>2. BoxOK'
    BY <1>1, <2>1, GetKey
  <2>3. prompt = "Menu" /\ UNCHANGED <<ipVars, numberVars>>
    BY <1>3 DEF Menu
  <2> QED
    BY <1>1, <2>1, <2>2, <2>3, ConsoleAssumption
    DEF IInv, TypeOK, Shown, AskingIP, AskingNumber, NumberMax, TtlMax, ipVars, numberVars
<1>4. CASE IPDigit
  <2>1. PICK c \in Keys \intersect Digits :
          /\ GetC(c)
          /\ IF FitsOctet(octets[octet], c)
               THEN /\ octets' = [octets EXCEPT ![octet] = (10 * @ + c) % 256]
                    /\ shownIP' = [shownIP EXCEPT ![octet] = 10 * @ + c]
                    /\ chars' = TRUE
               ELSE UNCHANGED <<octets, shownIP, chars>>
    BY <1>4 DEF IPDigit
  <2>2. BoxOK'
    BY <1>1, <2>1, GetKey
  <2>3. /\ AskingIP /\ UNCHANGED <<prompt, octet, numberVars>>
        /\ octets = shownIP
    BY <1>1, <1>4 DEF IPDigit, Shown
  <2> DEFINE n == octets[octet]
  <2>4. n \in 0 .. 255
    BY <1>1 DEF TypeOK
  <2>5. /\ octets' = shownIP' /\ chars' \in BOOLEAN
        /\ octets' \in [1 .. Octets -> 0 .. 255]
        /\ shownIP' \in [1 .. Octets -> Nat]
    <3>1. CASE FitsOctet(n, c)
      <4>1. /\ (10 * octets[octet] + c) % 256 = 10 * octets[octet] + c
            /\ 10 * octets[octet] + c \in 0 .. 255
        <5>1. FitsOctet(n, c)
          BY <3>1
        <5> HIDE DEF n
        <5>2. (10 * n + c) % 256 = 10 * n + c /\ 10 * n + c \in 0 .. 255
          BY <2>4, <5>1, OctetFits, Zenon
        <5> QED
          BY <5>2 DEF n
      <4> DEFINE v == 10 * octets[octet] + c
      <4>2. /\ octets' = [octets EXCEPT ![octet] = v]
            /\ shownIP' = [shownIP EXCEPT ![octet] = v] /\ chars' = TRUE
        BY <2>1, <2>3, <3>1, <4>1
      <4>3. v \in 0 .. 255 /\ v \in Nat
        BY <4>1
      <4> HIDE DEF v
      <4> QED
        BY <1>1, <2>3, <4>2, <4>3 DEF TypeOK
    <3>2. CASE ~FitsOctet(octets[octet], c)
      <4>1. UNCHANGED <<octets, shownIP, chars>>
        BY <2>1, <3>2
      <4>2. /\ octets = shownIP /\ chars \in BOOLEAN
            /\ octets \in [1 .. Octets -> 0 .. 255] /\ shownIP \in [1 .. Octets -> Nat]
        BY <1>1, <2>3, Zenon DEF TypeOK
      <4> QED
        BY <4>1, <4>2, Zenon
    <3> QED
      BY <3>1, <3>2
  <2> QED
    BY <1>1, <2>2, <2>3, <2>5
    DEF IInv, TypeOK, Shown, AskingIP, AskingNumber, NumberMax, numberVars
<1>5. CASE IPDot
  <2>1. BoxOK'
    BY <1>1, <1>5, GetKey DEF IPDot
  <2>2. octet' \in 1 .. Octets /\ chars' \in BOOLEAN
    <3>1. octet \in 1 .. Octets /\ chars \in BOOLEAN /\ Octets \in Nat
      BY <1>1, ConsoleAssumption DEF TypeOK
    <3>2. \/ octet < Octets /\ octet' = octet + 1 /\ chars' = FALSE
          \/ octet' = octet /\ chars' = chars
      BY <1>5 DEF IPDot
    <3>3. octet' \in 1 .. Octets
      BY <3>1, <3>2
    <3>4. chars' \in BOOLEAN
      BY <3>1, <3>2, Zenon
    <3> QED
      BY <3>3, <3>4
  <2>3. AskingIP /\ UNCHANGED <<prompt, octets, shownIP, numberVars>>
    BY <1>5 DEF IPDot
  <2>4. TypeOK'
    BY <1>1, <2>1, <2>2, <2>3 DEF TypeOK, numberVars
  <2>5. Shown'
    BY <1>1, <2>3 DEF Shown, AskingIP, AskingNumber, NumberMax, numberVars
  <2> QED
    BY <2>4, <2>5 DEF IInv
<1>6. CASE IPEnter
  <2>1. BoxOK'
    BY <1>1, <1>6, GetKey DEF IPEnter
  <2>2. CASE UNCHANGED <<prompt, ipVars>>
    BY <1>1, <1>6, <2>1, <2>2
    DEF IPEnter, IInv, TypeOK, Shown, AskingIP, AskingNumber, NumberMax, ipVars, numberVars
  <2>3. CASE prompt' \in {"Busy", "Size"} /\ EndIP
    <3>1. 1 \in 1 .. Octets /\ NoOctets \in [1 .. Octets -> 0 .. 255]
          /\ NoOctets \in [1 .. Octets -> Nat]
      BY ConsoleAssumption DEF NoOctets
    <3>2. AskingIP /\ UNCHANGED numberVars
      BY <1>6 DEF IPEnter
    <3>3. tmp = 0 /\ shown = 0 /\ dotted = FALSE
      BY <1>1, <3>2 DEF Shown, AskingIP, AskingNumber
    <3>4. NumberMax' \in Nat
      BY ConsoleAssumption DEF NumberMax, TtlMax
    <3>5. /\ octets' = NoOctets /\ octet' = 1 /\ chars' = FALSE /\ shownIP' = NoOctets
          /\ tmp' = 0 /\ shown' = 0 /\ dotted' = FALSE
      BY <2>3, <3>2, <3>3 DEF EndIP, numberVars
    <3>6. TypeOK'
      BY <2>1, <2>3, <3>1, <3>5 DEF TypeOK
    <3>7. Shown'
      BY <3>4, <3>5 DEF Shown
    <3> QED
      BY <3>6, <3>7 DEF IInv
  <2> QED
    BY <1>6, <2>2, <2>3 DEF IPEnter
<1>7. CASE Skip
  <2>1. BoxOK'
    BY <1>1, <1>7, GetKey DEF Skip
  <2> QED
    BY <1>1, <1>7, <2>1
    DEF Skip, IInv, TypeOK, Shown, AskingIP, AskingNumber, NumberMax, ipVars, numberVars
<1>8. CASE NumberDigit
  <2>1. PICK c \in Keys \intersect (Digits \union {Dot}) :
          /\ GetC(c)
          /\ IF FitsNumber(c)
               THEN /\ tmp' = (10 * tmp + c) % NumberWidth
                    /\ shown' = IF c = Dot \/ dotted THEN shown ELSE 10 * shown + c
                    /\ dotted' = (dotted \/ c = Dot)
               ELSE UNCHANGED numberVars
    BY <1>8 DEF NumberDigit
  <2>2. BoxOK'
    BY <1>1, <2>1, GetKey
  <2>3. /\ AskingNumber /\ UNCHANGED <<prompt, ipVars>>
        /\ tmp \in Nat /\ shown \in Nat /\ dotted \in BOOLEAN
    BY <1>1, <1>8 DEF NumberDigit, TypeOK
  <2>4. NumberMax' = NumberMax /\ NumberWidth' = NumberWidth
    BY <2>3 DEF NumberMax, NumberWidth
  <2>5. /\ tmp' \in Nat /\ shown' \in Nat /\ dotted' \in BOOLEAN
        /\ ~dotted' => tmp' = shown' /\ tmp' <= NumberMax
    <3>1. CASE ~FitsNumber(c)
      BY <1>1, <2>1, <2>3, <3>1 DEF numberVars, Shown
    <3>2. CASE FitsNumber(c) /\ (c = Dot \/ dotted)
      <4>1. 10 * tmp + c \in Int
        BY <2>3 DEF Digits, Dot
      <4>2. (10 * tmp + c) % NumberWidth \in Nat
        BY <4>1, Limits
      <4>3. shown' \in Nat /\ dotted' = TRUE
        <5>1. dotted' = TRUE
          BY <2>1, <2>3, <3>2
        <5>2. shown' = shown
          BY <2>1, <3>2
        <5> QED
          BY <2>3, <5>1, <5>2
      <4> QED
        BY <2>1, <3>2, <4>2, <4>3
    <3>3. CASE FitsNumber(c) /\ c # Dot /\ ~dotted
      <4>1. c \in Digits /\ tmp = shown
        BY <1>1, <3>3 DEF Shown
      <4>2. 10 * tmp + c \in 0 .. NumberMax
        BY <2>3, <3>3, <4>1, DigitFits
      <4>3. (10 * tmp + c) % NumberWidth = 10 * tmp + c
        BY <4>2, Limits
      <4>4. tmp' = 10 * tmp + c /\ shown' = 10 * tmp + c /\ dotted' = (dotted \/ c = Dot)
        BY <2>1, <3>3, <4>1, <4>3
      <4>5. dotted' \in BOOLEAN
        BY <4>4
      <4> QED
        BY <4>2, <4>4, <4>5, Limits
    <3> QED
      BY <3>1, <3>2, <3>3
  <2> QED
    BY <1>1, <2>2, <2>3, <2>4, <2>5
    DEF IInv, TypeOK, Shown, AskingIP, AskingNumber, ipVars
<1>9. CASE NumberEnter
  <2>1. BoxOK'
    BY <1>1, <1>9, GetKey DEF NumberEnter
  <2>2. NumberMax' \in Nat
    BY ConsoleAssumption DEF NumberMax, TtlMax
  <2>3. prompt' \in {"TTL", "Busy"} /\ ~AskingIP /\ ~AskingIP'
    BY <1>9 DEF NumberEnter, AskingNumber, AskingIP
  <2>4. /\ octets' = octets /\ octet' = octet /\ chars' = chars /\ shownIP' = shownIP
        /\ tmp' = 0 /\ shown' = 0 /\ dotted' = FALSE
    BY <1>9 DEF NumberEnter, EndNumber, ipVars
  <2>5. octets = shownIP /\ octets = NoOctets /\ octet = 1 /\ chars = FALSE
    BY <1>1, <2>3 DEF Shown
  <2>6. TypeOK'
    BY <1>1, <2>1, <2>3, <2>4 DEF TypeOK
  <2>7. Shown'
    BY <2>2, <2>4, <2>5 DEF Shown
  <2> QED
    BY <2>6, <2>7 DEF IInv
<1>10. CASE Done
  <2>1. NumberMax' \in Nat
    BY ConsoleAssumption DEF NumberMax, TtlMax
  <2> QED
    BY <1>1, <1>10, <2>1
    DEF Done, IInv, TypeOK, Shown, AskingIP, AskingNumber, ipVars, numberVars
<1>11. CASE UNCHANGED vars
  BY <1>1, <1>11
  DEF vars, IInv, TypeOK, Shown, AskingIP, AskingNumber, NumberMax, ipVars, numberVars
<1> QED
  BY <1>2, <1>3, <1>4, <1>5, <1>6, <1>7, <1>8, <1>9, <1>10, <1>11 DEF Next, UserThread

LEMMA InputInit ==
  ASSUME Init
  PROVE  IInv
<1>1. 1 \in 1 .. Octets /\ NoOctets \in [1 .. Octets -> 0 .. 255]
      /\ NoOctets \in [1 .. Octets -> Nat]
  BY ConsoleAssumption DEF NoOctets
<1>2. <<>> \in Seq(Keys) /\ Len(<<>>) <= BoxSize
  BY ConsoleAssumption
<1>3. NumberMax \in Nat
  BY Limits
<1>4. TypeOK
  BY <1>1, <1>2 DEF Init, TypeOK
<1>5. Shown
  BY <1>3 DEF Init, Shown
<1> QED
  BY <1>4, <1>5 DEF IInv

LEMMA InputInvariant == Spec => []IInv
<1>1. IInv /\ [Next]_vars => IInv'
  BY InputStep
<1> QED
  BY <1>1, InputInit, PTL DEF Spec

\* Every variable keeps its type: octets are bytes and no number falls below zero.
THEOREM TypeCorrect == Spec => []TypeOK
<1>1. IInv => TypeOK
  BY DEF IInv
<1> QED
  BY <1>1, InputInvariant, PTL

\* readIP() returns what is on the screen.
THEOREM ReadsAddressShown == Spec => []AddressAsShown
<1>1. IInv => AddressAsShown
  BY DEF IInv, Shown, AddressAsShown
<1> QED
  BY <1>1, InputInvariant, PTL

\* readNumber() returns what is on the screen, within its limit, if no '.' was typed.
THEOREM ReadsNumberShown == Spec => []NumberAsShown
<1>1. IInv => NumberAsShown
  BY DEF IInv, Shown, NumberAsShown
<1> QED
  BY <1>1, InputInvariant, PTL
==============================================================================
