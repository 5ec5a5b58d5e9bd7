---------------------------- MODULE ConsoleInput ----------------------------
(***************************************************************************)
(* What userThread reads from the console: the menu, readIP() and          *)
(* readNumber(), fed by the UART interrupt through a mailbox.              *)
(*                                                                         *)
(* A character stands for its distance from '0', so that a digit is its    *)
(* value.  printf() shows what is accepted: `shown` and `shownIP` are what *)
(* a reader of the screen takes the number and the address for.            *)
(***************************************************************************)
EXTENDS Integers, Sequences

Dot == 0 - 2          \* '.' - '0'
Enter == 0 - 35       \* '\r' - '0', which is treated like '\n'
Digits == 0 .. 9

CONSTANTS
  Keys,        \* characters the user types
  BoxSize,     \* places in the UART driver's mailbox; 8 in the code
  Octets,      \* octets of an address; 4 in the code
  SizeMax,     \* largest echo size; 1000 in the code
  SizeWidth    \* numbers in an unsigned

TtlMax == 255
TtlWidth == 256       \* numbers in a uint8_t

ASSUME KeyAssumption ==
  Keys \subseteq Int /\ {Dot, Enter} \subseteq Keys
ASSUME ConsoleAssumption ==
  /\ BoxSize \in Nat \ {0} /\ Octets \in Nat \ {0}
  /\ SizeMax \in Nat /\ SizeWidth \in Nat /\ SizeMax < SizeWidth /\ 9 < SizeWidth

VARIABLES
  box,       \* characters received and not yet read
  prompt,    \* what userThread is reading, "Busy" when it reads nothing
  octets,    \* readIP(): the octets so far
  octet,     \* the octet being read, from 1
  chars,     \* has that octet a digit (chars > 0)?
  tmp,       \* readNumber(): the number so far
  shownIP,   \* the octets shown
  shown,     \* the number shown
  dotted     \* has a '.' been shown in the number?

ipVars == <<octets, octet, chars, shownIP>>
numberVars == <<tmp, shown, dotted>>
vars == <<box, prompt, ipVars, numberVars>>

NoOctets == [i \in 1 .. Octets |-> 0]

Init ==
  /\ box = <<>>
  /\ prompt = "Menu"
  /\ octets = NoOctets /\ octet = 1 /\ chars = FALSE /\ shownIP = NoOctets
  /\ tmp = 0 /\ shown = 0 /\ dotted = FALSE

\* UART1_Driver::irq_handler: box.send( 0, &tmp ), a character more than the
\* mailbox holds is dropped.
Type(c) ==
  /\ box' = IF Len(box) < BoxSize THEN Append(box, c) ELSE box
  /\ UNCHANGED <<prompt, ipVars, numberVars>>

\* getC()
GetC(c) == box # <<>> /\ c = Head(box) /\ box' = Tail(box)
-----------------------------------------------------------------------------
\* A function returns: the next call begins with locals of its own.
EndIP ==
  octets' = NoOctets /\ octet' = 1 /\ chars' = FALSE /\ shownIP' = NoOctets
EndNumber == tmp' = 0 /\ shown' = 0 /\ dotted' = FALSE

\* The menu: 1 and 4 ask for an address, 2, 3 and 5 are done at once.
Menu ==
  /\ prompt = "Menu"
  /\ \E c \in Keys :
       /\ GetC(c)
       /\ \/ /\ c \in {1, 4}
             /\ prompt' = IF c = 1 THEN "Resolve" ELSE "EchoIP"
          \/ /\ c \notin {1, 4}
             /\ UNCHANGED prompt
  /\ UNCHANGED <<ipVars, numberVars>>

\* Mutant of FitsOctet: 259 fits as well.
FitsLoosely(n, c) == n <= 25

\* (octets[octet] == 25 && ch <= '5') || octets[octet] < 25
FitsOctet(n, c) == (n = 25 /\ c <= 5) \/ n < 25

AskingIP == prompt \in {"Resolve", "EchoIP"}

IPDigit ==
  /\ AskingIP
  /\ \E c \in Keys \intersect Digits :
       /\ GetC(c)
       /\ IF FitsOctet(octets[octet], c)
            THEN /\ octets' = [octets EXCEPT ![octet] = (10 * @ + c) % 256]
                 /\ shownIP' = [shownIP EXCEPT ![octet] = 10 * @ + c]
                 /\ chars' = TRUE
            ELSE UNCHANGED <<octets, shownIP, chars>>
  /\ UNCHANGED <<prompt, octet, numberVars>>

IPDot ==
  /\ AskingIP
  /\ GetC(Dot)
  /\ IF octet < Octets /\ chars
       THEN octet' = octet + 1 /\ chars' = FALSE
       ELSE UNCHANGED <<octet, chars>>
  /\ UNCHANGED <<prompt, octets, shownIP, numberVars>>

\* Only the last octet may be left out; it is 0 then.
IPEnter ==
  /\ AskingIP
  /\ GetC(Enter)
  /\ IF octet = Octets
       THEN prompt' = (IF prompt = "Resolve" THEN "Busy" ELSE "Size") /\ EndIP
       ELSE UNCHANGED <<prompt, ipVars>>
  /\ UNCHANGED numberVars

\* ch is outside of what readIP() and readNumber() look at.
Skip ==
  /\ prompt \notin {"Menu", "Busy"}
  /\ \E c \in Keys \ (Digits \union {Dot, Enter}) : GetC(c)
  /\ UNCHANGED <<prompt, ipVars, numberVars>>
-----------------------------------------------------------------------------
NumberMax == IF prompt = "Size" THEN SizeMax ELSE TtlMax
NumberWidth == IF prompt = "Size" THEN SizeWidth ELSE TtlWidth

\* Mutant of FitsNumber: the last digit is not looked at.
FitsNumberLoosely(c) == tmp <= NumberMax \div 10

\* (tmp == md10 && chnum <= mm10) || tmp < md10
FitsNumber(c) ==
  \/ tmp = NumberMax \div 10 /\ c % NumberWidth <= NumberMax % 10
  \/ tmp < NumberMax \div 10

AskingNumber == prompt \in {"Size", "TTL"}

\* A digit, or a '.', which readNumber() lets through and takes for -2.
NumberDigit ==
  /\ AskingNumber
  /\ \E c \in Keys \intersect (Digits \union {Dot}) :
       /\ GetC(c)
       /\ IF FitsNumber(c)
            THEN /\ tmp' = (10 * tmp + c) % NumberWidth
                 /\ shown' = IF c = Dot \/ dotted THEN shown ELSE 10 * shown + c
                 /\ dotted' = (dotted \/ c = Dot)
            ELSE UNCHANGED numberVars
  /\ UNCHANGED <<prompt, ipVars>>

NumberEnter ==
  /\ AskingNumber
  /\ GetC(Enter)
  /\ prompt' = IF prompt = "Size" THEN "TTL" ELSE "Busy"
  /\ EndNumber
  /\ UNCHANGED ipVars

\* Resolving or pinging comes to an end.
Done ==
  /\ prompt = "Busy"
  /\ prompt' = "Menu"
  /\ UNCHANGED <<box, ipVars, numberVars>>

UserThread ==
  \/ Menu \/ IPDigit \/ IPDot \/ IPEnter \/ Skip
  \/ NumberDigit \/ NumberEnter \/ Done

Next == (\E c \in Keys : Type(c)) \/ UserThread

Spec == Init /\ [][Next]_vars
-----------------------------------------------------------------------------
(***************************************************************************)
(* Properties.                                                             *)
(***************************************************************************)
TypeOK ==
  /\ box \in Seq(Keys) /\ Len(box) <= BoxSize
  /\ prompt \in {"Menu", "Resolve", "EchoIP", "Size", "TTL", "Busy"}
  /\ octets \in [1 .. Octets -> 0 .. 255]
  /\ octet \in 1 .. Octets
  /\ chars \in BOOLEAN /\ dotted \in BOOLEAN
  /\ shownIP \in [1 .. Octets -> Nat]
  /\ tmp \in Nat /\ shown \in Nat

\* The address that readIP() returns is the one on the screen, digit for digit,
\* and no octet runs over.
AddressAsShown == AskingIP => octets = shownIP

\* The number that readNumber() returns is the one on the screen and within its
\* limit, in spite of the width of T; unless a '.' was typed.
NumberAsShown ==
  AskingNumber /\ ~dotted => tmp = shown /\ tmp <= NumberMax
=============================================================================
