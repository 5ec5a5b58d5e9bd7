---------------------------- MODULE EthernetStart ----------------------------
(***************************************************************************)
(* Init_EMAC, which the sender thread runs before it sends, together with  *)
(* the receive side that it brings up: reset of MAC and PHY, negotiation,  *)
(* configuration, descriptor rings, interrupts, reception.                 *)
(*                                                                         *)
(* The PHY, the cable and what answers at its other end change at any      *)
(* moment; MII operations end in time.  Nothing looks at the PHY after     *)
(* start-up.  The counts of the three waiting loops are Tries.             *)
(***************************************************************************)
EXTENDS EthernetRx

CONSTANTS
  Statuses,   \* PHY_REG_STS: [link, ten, full]
  Tries       \* rounds of a waiting loop

ASSUME StatusAssumption ==
  /\ Statuses \subseteq [link : BOOLEAN, ten : BOOLEAN, full : BOOLEAN]
  /\ Statuses # {}
  /\ Tries \in Nat \ {0}

VARIABLES
  stage,     \* where Init_EMAC is; "Running" when it has returned
  tout,      \* its loop counter
  regv,      \* the status it read last
  phy,       \* the PHY: [resetting, negotiated, status]
  mac,       \* the MAC: [full, ten, rings, intEnable, receive]
  up         \* history: the statuses with link on since negotiation began

startVars == <<stage, tout, regv, phy, mac, up>>

\* Registers after MAC1_SOFT_RES and CR_REG_RES: half duplex, SUPP is 0.
ResetMac ==
  [full |-> FALSE, ten |-> TRUE, rings |-> FALSE, intEnable |-> FALSE, receive |-> FALSE]

StartInit ==
  /\ Init
  /\ stage = "MacReset" /\ tout = 0
  /\ regv \in Statuses
  /\ \E s \in Statuses :
       phy = [resetting |-> FALSE, negotiated |-> FALSE, status |-> s]
  /\ mac = ResetMac
  /\ up = {}
------------------------------------------------------------------------------
(***************************************************************************)
(* Init_EMAC.                                                              *)
(***************************************************************************)
MacReset ==
  /\ stage = "MacReset"
  /\ mac' = ResetMac
  /\ stage' = "PhyReset"
  /\ UNCHANGED <<vars, tout, regv, phy, up>>

\* write_PHY (PHY_REG_BMCR, 0x8000)
PhyReset ==
  /\ stage = "PhyReset"
  /\ phy' = [phy EXCEPT !.resetting = TRUE]
  /\ stage' = "WaitReset" /\ tout' = 0
  /\ UNCHANGED <<vars, regv, mac, up>>

\* for (tout = 0; tout < ...; tout++) { ...; if (done) break; }
Wait(done, next) ==
  IF done \/ tout + 1 = Tries THEN stage' = next /\ tout' = 0
                              ELSE stage' = stage /\ tout' = tout + 1

WaitReset ==
  /\ stage = "WaitReset"
  /\ Wait(~phy.resetting, "Identify")
  /\ UNCHANGED <<vars, regv, phy, mac, up>>

\* A DP83848C is made to negotiate, another PHY is left alone.
Identify ==
  /\ stage = "Identify"
  /\ \/ /\ phy' = [phy EXCEPT !.negotiated = FALSE]
        /\ stage' = "WaitNegotiation"
     \/ /\ stage' = "WaitLink"
        /\ UNCHANGED phy
  /\ up' = IF phy.status.link THEN {phy.status} ELSE {}
  /\ UNCHANGED <<vars, tout, regv, mac>>

WaitNegotiation ==
  /\ stage = "WaitNegotiation"
  /\ Wait(phy.negotiated, "WaitLink")
  /\ UNCHANGED <<vars, regv, phy, mac, up>>

\* Mutant of WaitLink: no cable, no end.
WaitLinkForever ==
  /\ stage = "WaitLink"
  /\ regv' = phy.status
  /\ stage' = IF phy.status.link THEN "Configure" ELSE "WaitLink"
  /\ UNCHANGED <<vars, tout, phy, mac, up>>

WaitLink ==
  /\ stage = "WaitLink"
  /\ regv' = phy.status
  /\ Wait(phy.status.link, "Configure")
  /\ UNCHANGED <<vars, phy, mac, up>>

\* Mutant of Configure: the status is read again for the speed.
ConfigureReread ==
  /\ stage = "Configure"
  /\ mac' = [mac EXCEPT !.full = regv.full, !.ten = phy.status.ten]
  /\ stage' = "Rings"
  /\ UNCHANGED <<vars, tout, regv, phy, up>>

\* Duplex mode (MAC2, COMMAND and IPGT) and speed, from one reading.
Configure ==
  /\ stage = "Configure"
  /\ mac' = [mac EXCEPT !.full = regv.full, !.ten = regv.ten]
  /\ stage' = "Rings"
  /\ UNCHANGED <<vars, tout, regv, phy, up>>

\* rx_descr_init(), tx_descr_init()
Rings ==
  /\ stage = "Rings"
  /\ consume' = 0
  /\ mac' = [mac EXCEPT !.rings = TRUE]
  /\ stage' = "IntEnable"
  /\ UNCHANGED <<desc, produce, irqVars, semRecv, receiverVars, seen, tout, regv, phy, up>>

\* Mutant of IntEnable: reception is switched on before the interrupts are reset.
IntEnableReceive ==
  /\ stage = "IntEnable"
  /\ mac' = [mac EXCEPT !.intEnable = TRUE, !.receive = TRUE]
  /\ stage' = "IntClear"
  /\ UNCHANGED <<vars, tout, regv, phy, up>>

\* MAC_INTENABLE = 0xFF
IntEnable ==
  /\ stage = "IntEnable"
  /\ mac' = [mac EXCEPT !.intEnable = TRUE]
  /\ stage' = "IntClear"
  /\ UNCHANGED <<vars, tout, regv, phy, up>>

\* MAC_INTCLEAR = 0xFFFF
IntClear ==
  /\ stage = "IntClear"
  /\ rxDone' = FALSE
  /\ stage' = "Enable"
  /\ UNCHANGED <<ringVars, isr, semRecv, receiverVars, seen, tout, regv, phy, mac, up>>

\* CR_RX_EN and MAC1_REC_EN
Enable ==
  /\ stage = "Enable"
  /\ mac' = [mac EXCEPT !.receive = TRUE]
  /\ stage' = "Running"
  /\ UNCHANGED <<vars, tout, regv, phy, up>>

InitEmac ==
  \/ MacReset \/ PhyReset \/ WaitReset \/ Identify \/ WaitNegotiation \/ WaitLink
  \/ Configure \/ Rings \/ IntEnable \/ IntClear \/ Enable
------------------------------------------------------------------------------
(***************************************************************************)
(* The hardware, and the receive side.  Threads, the one that runs         *)
(* Init_EMAC too, stand still while the interrupt handler runs.            *)
(***************************************************************************)
PhyDone ==
  /\ stage # "Running"
  /\ \/ phy' = [phy EXCEPT !.resetting = FALSE]
     \/ phy' = [phy EXCEPT !.negotiated = TRUE]
  /\ UNCHANGED <<vars, stage, tout, regv, mac, up>>

Cable(s) ==
  /\ stage # "Running"
  /\ phy' = [phy EXCEPT !.status = s]
  /\ up' = IF s.link THEN up \union {s} ELSE up
  /\ UNCHANGED <<vars, stage, tout, regv, mac>>

Arrive(f) == mac.receive /\ MacReceive(f) /\ UNCHANGED startVars
Interrupt == mac.intEnable /\ IrqHandler /\ UNCHANGED startVars
Receive == Receiver /\ UNCHANGED startVars

StartNext ==
  \/ isr = "Idle" /\ InitEmac
  \/ PhyDone
  \/ \E s \in Statuses : Cable(s)
  \/ \E f \in Frames : Arrive(f)
  \/ Interrupt \/ Receive

allVars == <<vars, startVars>>
StartSpec == StartInit /\ [][StartNext]_allVars

(***************************************************************************)
(* The thread that runs Init_EMAC goes on; interrupts are served, and the  *)
(* receiver thread runs although the handler holds it up again and again.  *)
(***************************************************************************)
StartFairSpec ==
  /\ StartSpec
  /\ SF_allVars(isr = "Idle" /\ InitEmac)
  /\ WF_allVars(Interrupt) /\ SF_allVars(Receive)
------------------------------------------------------------------------------
(***************************************************************************)
(* Properties.                                                             *)
(***************************************************************************)
StartTypeOK ==
  /\ TypeOK
  /\ stage \in {"MacReset", "PhyReset", "WaitReset", "Identify", "WaitNegotiation",
                "WaitLink", "Configure", "Rings", "IntEnable", "IntClear", "Enable",
                "Running"}
  /\ tout \in 0 .. Tries - 1
  /\ regv \in Statuses
  /\ phy \in [resetting : BOOLEAN, negotiated : BOOLEAN, status : Statuses]
  /\ mac \in [full : BOOLEAN, ten : BOOLEAN, rings : BOOLEAN, intEnable : BOOLEAN,
              receive : BOOLEAN]
  /\ up \subseteq Statuses

\* Duplex mode and speed are those that the link had at one moment since it began
\* to negotiate, if there was a link.
ConfiguredAsSeen ==
  stage \in {"Rings", "IntEnable", "IntClear", "Enable", "Running"} /\ regv.link =>
    \E s \in up : mac.full = s.full /\ mac.ten = s.ten

\* Start-up comes to an end, with or without a cable or a working PHY.
InitEnds == <>(stage = "Running")
==============================================================================
