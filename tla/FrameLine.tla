------------------------------ MODULE FrameLine ------------------------------
(***************************************************************************)
(* What Ethernet_Handler::sendFrame promises the threads that call it: a   *)
(* frame joins the line when it is accepted, frames reach the wire in that *)
(* order, each of them once and as it was when it was offered, and the     *)
(* caller gets its buffer back after that copy is made.                    *)
(***************************************************************************)
EXTENDS Sequences

CONSTANTS
  Senders,    \* threads that call sendFrame()
  Payloads,   \* contents of a frame
  None        \* no content: the buffer is not (or no longer) a frame

VARIABLES
  stage,      \* [Senders -> {"Idle", "Offered", "Accepted"}]
  offered,    \* [Senders -> content of the caller's buffer]
  line,       \* frames accepted and not yet transmitted
  wire        \* the frame transmitted last

vars == <<stage, offered, line, wire>>

Init ==
  /\ stage = [s \in Senders |-> "Idle"]
  /\ offered = [s \in Senders |-> None]
  /\ line = <<>>
  /\ wire = None

Offer(s, p) ==
  /\ stage[s] = "Idle"
  /\ stage' = [stage EXCEPT ![s] = "Offered"]
  /\ offered' = [offered EXCEPT ![s] = p]
  /\ UNCHANGED <<line, wire>>

Accept(s) ==
  /\ stage[s] = "Offered"
  /\ stage' = [stage EXCEPT ![s] = "Accepted"]
  /\ line' = Append(line, offered[s])
  /\ UNCHANGED <<offered, wire>>

Transmit ==
  /\ line # <<>>
  /\ wire' = Head(line)
  /\ line' = Tail(line)
  /\ UNCHANGED <<stage, offered>>

Return(s) ==
  /\ stage[s] = "Accepted"
  /\ stage' = [stage EXCEPT ![s] = "Idle"]
  /\ offered' = [offered EXCEPT ![s] = None]
  /\ UNCHANGED <<line, wire>>

Next ==
  \/ \E s \in Senders :
       (\E p \in Payloads : Offer(s, p)) \/ Accept(s) \/ Return(s)
  \/ Transmit

Spec == Init /\ [][Next]_vars
==============================================================================
