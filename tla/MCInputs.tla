------------------------------ MODULE MCInputs ------------------------------
(***************************************************************************)
(* Three sequential parts of the program, in one run: a message is sealed  *)
(* (see SealedMessages), a frame is built and read by others (see          *)
(* FrameExchange), or the user types (see ConsoleInput).  They share no    *)
(* state; which of them the behaviour is about is `subject`.               *)
(***************************************************************************)
EXTENDS SealedMessages, FrameExchange, ConsoleInput

VARIABLE subject    \* "Message", "Frame" or "Console"

mcVars == <<subject, bytes, ping, vars>>

MCInit ==
  /\ subject \in {"Message", "Frame", "Console"}
  /\ NoMessage
  /\ Quiet
  /\ Init

UseMessage ==
  /\ subject = "Message"
  /\ GrowMessage
  /\ UNCHANGED <<subject, ping, vars>>

UseFrame ==
  /\ subject = "Frame"
  /\ ChoosePing
  /\ UNCHANGED <<subject, bytes, vars>>

UseConsole ==
  /\ subject = "Console"
  /\ Next
  /\ UNCHANGED <<subject, bytes, ping>>

MCNext == UseMessage \/ UseFrame \/ UseConsole

MCSpec == MCInit /\ [][MCNext]_mcVars
-----------------------------------------------------------------------------
MCKeys == {1, 2, 4, 5, 6, 20, Dot, Enter}

\* The board of main.cpp, another one next to it, and one beyond the gateway.
MCMy == [mac |-> <<0, 17, 34, 51, 68, 85>>, ip |-> <<192, 168, 0, 13>>]
MCGateway == <<192, 168, 0, 1>>
MCGatewayMac == <<6, 6, 6, 6, 6, 6>>
Neighbour == [mac |-> <<2, 3, 5, 7, 11, 13>>, ip |-> <<192, 168, 0, 123>>]
Far == [mac |-> <<254, 1, 0, 0, 0, 9>>, ip |-> <<10, 168, 0, 13>>]
MCHosts == {Neighbour, Far}

MCQuenches == {<<0, 1>>, <<0, 257>>, <<32768, 1>>}
MCHeaps == {[i \in 1 .. 1046 |-> 0], [i \in 1 .. 1046 |-> (7 * i + 165) % 256]}
=============================================================================
