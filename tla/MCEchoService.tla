--------------------------- MODULE MCEchoService ---------------------------
(***************************************************************************)
(* A broadcast ping from the board's own network and one from beyond the   *)
(* gateway, three buffers for up to five users of one.                     *)
(***************************************************************************)
EXTENDS EchoService, TLC

CONSTANTS near, far, b1, b2, b3

MCBlocks == {b1, b2, b3}
MCLocalHosts == {near}
MCFarHosts == {far}
MCRequests == {[from |-> near, to |-> Broadcast, quench |-> 1],
               [from |-> far, to |-> MyIP, quench |-> 1]}
MCPinged == {near}

\* wire is history: no action reads it.
WithoutWire == <<enabled, heap, posting, replies, pc, buffer, identVars, arpVars,
                 stage, offered, line>>
BlockSymmetry == Permutations(MCBlocks)
=============================================================================
