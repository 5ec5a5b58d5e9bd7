--------------------------- MODULE MCArpResolution ---------------------------
(***************************************************************************)
(* ArpResolution on small instances.                                       *)
(***************************************************************************)
EXTENDS ArpResolution, TLC

\* Any host may announce any hardware address.
HostFrames == [hsender : Macs, psender : Addresses]

\* Addresses are interchangeable, and so are hardware addresses.
MCSymmetry == Permutations(Addresses) \union Permutations(Macs)

\* The state without the history that only the action properties read: what is
\* left is enough for the invariants and the refinement.
WithoutHistory ==
  <<now, caller, addr, box, requestQueue, recieveVars, entries, pending,
    requestVars, latest>>
==============================================================================
