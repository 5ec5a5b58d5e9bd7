-------------------------- MODULE AddressResolution --------------------------
(***************************************************************************)
(* What ARP_Handler::request promises its callers, with nothing of how the *)
(* ARP threads, the cache or the wire do it.  A caller asks for an address *)
(* and is answered exactly once: with the hardware address most recently   *)
(* advertised for it, or with NoMac, "all zeros if resolution failed".     *)
(***************************************************************************)

CONSTANTS
  Requesters,   \* threads that call request()
  Addresses,    \* protocol addresses a caller may ask for
  Macs,         \* hardware addresses hosts advertise
  NoIP,         \* IPv4_UNCONFIGURED
  NoMac,        \* ETHERNET_UNCONFIGURED, the answer "unreachable"
  Empty         \* an answer or an advertisement that is not there yet

VARIABLES
  asking,       \* [Requesters -> BOOLEAN]: is the thread inside request()?
  addr,         \* [Requesters -> address asked for, NoIP outside a call]
  answer,       \* [Requesters -> answer given and not yet picked up]
  latest        \* [Addresses  -> hardware address last advertised]

vars == <<asking, addr, answer, latest>>

Init ==
  /\ asking = [r \in Requesters |-> FALSE]
  /\ addr   = [r \in Requesters |-> NoIP]
  /\ answer = [r \in Requesters |-> Empty]
  /\ latest = [a \in Addresses |-> Empty]

Unanswered(r) == asking[r] /\ answer[r] = Empty

Ask(r, a) ==
  /\ ~asking[r]
  /\ asking' = [asking EXCEPT ![r] = TRUE]
  /\ addr' = [addr EXCEPT ![r] = a]
  /\ UNCHANGED <<answer, latest>>

\* Answer r from what is known of its address.
Resolve(r) ==
  /\ Unanswered(r)
  /\ latest[addr[r]] # Empty
  /\ answer' = [answer EXCEPT ![r] = latest[addr[r]]]
  /\ UNCHANGED <<asking, addr, latest>>

GiveUp(r) ==
  /\ Unanswered(r)
  /\ answer' = [answer EXCEPT ![r] = NoMac]
  /\ UNCHANGED <<asking, addr, latest>>

\* A host advertises m for a; some of the callers asking for a learn of it.
Advertise(a, m, told) ==
  /\ \A r \in told : Unanswered(r) /\ addr[r] = a
  /\ latest' = [latest EXCEPT ![a] = m]
  /\ answer' = [r \in Requesters |-> IF r \in told THEN m ELSE answer[r]]
  /\ UNCHANGED <<asking, addr>>

Return(r) ==
  /\ asking[r] /\ answer[r] # Empty
  /\ asking' = [asking EXCEPT ![r] = FALSE]
  /\ addr' = [addr EXCEPT ![r] = NoIP]
  /\ answer' = [answer EXCEPT ![r] = Empty]
  /\ UNCHANGED latest

Next ==
  \/ \E r \in Requesters :
       \/ \E a \in Addresses : Ask(r, a)
       \/ Resolve(r) \/ GiveUp(r) \/ Return(r)
  \/ \E a \in Addresses, m \in Macs, told \in SUBSET Requesters :
       Advertise(a, m, told)

Spec == Init /\ [][Next]_vars
==============================================================================
