---------------------------- MODULE MCArpLiveness ----------------------------
(***************************************************************************)
(* Liveness of ArpResolution.  Behaviours are infinite and so is srostime, *)
(* but the threads only ever compare times: once the clock is at MaxTime,  *)
(* a tick shifts the stored times one tick into the past instead.  A time  *)
(* that falls to 1 is long expired and stays there; 0 is "none".  The      *)
(* shift waits until requestThread is at its queue, where it holds neither *)
(* the clock nor a notification, so that no comparison changes its result. *)
(***************************************************************************)
EXTENDS ArpResolution

\* A host that probes for an address has no sender address yet.
AllFrames == [hsender : Macs, psender : Addresses \union {NoIP}]

Earlier(time) == IF time > 1 THEN time - 1 ELSE time

Shift ==
  /\ now = MaxTime
  /\ rt = "Recv"
  /\ entries' = [i \in Slots |-> [entries[i] EXCEPT !.time = Earlier(@)]]
  /\ pending' = {[n EXCEPT !.time = Earlier(@)] : n \in pending}
  /\ wake' = Earlier(wake)
  /\ expiry' = Earlier(expiry)
  /\ heard' = [a \in Addresses |-> Earlier(heard[a])]
  /\ stamped' = Earlier(stamped)
  /\ UNCHANGED <<now, callerVars, box, requestQueue, recieveQueue, prt, rx,
                 rt, msg, t, hand, latest, learnt>>

\* The clock never stops: strong fairness, for requestThread may come back to
\* its queue again and again within one tick.
MCSpec ==
  /\ Init /\ [][Next \/ Shift]_vars
  /\ ThreadFairness
  /\ SF_vars(Tick \/ Shift)
==============================================================================
