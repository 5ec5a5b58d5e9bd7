--------------------------- MODULE MCEthernetStart ---------------------------
(***************************************************************************)
(* No link, or a link of one of two kinds that differ in speed and duplex. *)
(* Nothing reads the PHY, the last status or the MAC's mode when start-up  *)
(* is over: WithoutPhy counts states that differ in them only as one.      *)
(***************************************************************************)
EXTENDS EthernetStart

MCStatuses ==
  {[link |-> FALSE, ten |-> TRUE, full |-> FALSE],
   [link |-> TRUE,  ten |-> TRUE, full |-> FALSE],
   [link |-> TRUE,  ten |-> FALSE, full |-> TRUE]}

WithoutPhy ==
  <<vars, stage, tout, IF stage = "Running" THEN <<>> ELSE <<regv, phy, mac, up>>>>
==============================================================================
