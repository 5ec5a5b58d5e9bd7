--------------------------- MODULE EchoReflector ---------------------------
(***************************************************************************)
(* What the echo server promises the hosts that ping the board: a request  *)
(* may be lost, but what comes back is a reply to a request that was taken,*)
(* to the host that sent it, at most once and in the order of the          *)
(* requests; and it remembers a bounded number of them.                    *)
(***************************************************************************)
EXTENDS Naturals, Sequences, SequencesExt

CONSTANTS
  Requests,   \* what is reflected: [host, quench]
  Room,       \* the most requests it remembers
  Own         \* any frame of the board that is no echo reply

VARIABLES
  pending,    \* requests taken and neither reflected nor lost
  out         \* the frame on the wire last, Own to begin with

vars == <<pending, out>>

Init == pending = <<>> /\ out = Own

Take(m) ==
  /\ Len(pending) < Room
  /\ pending' = Append(pending, m)
  /\ UNCHANGED out

Lose(i) ==
  /\ pending' = RemoveAt(pending, i)
  /\ UNCHANGED out

Reflect ==
  /\ pending # <<>>
  /\ out' = Head(pending)
  /\ pending' = Tail(pending)

OwnFrame == out' = Own /\ UNCHANGED pending

Next ==
  \/ \E m \in Requests : Take(m)
  \/ \E i \in 1 .. Len(pending) : Lose(i)
  \/ Reflect \/ OwnFrame

Spec == Init /\ [][Next]_vars
=============================================================================
