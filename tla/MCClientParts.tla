----------------------------- MODULE MCClientParts -----------------------------
(***************************************************************************)
(* Two parts of the client that share no state, side by side: a behaviour  *)
(* is one of the images that are sent to it or one of path visualisation.  *)
(***************************************************************************)
EXTENDS FrameDelivery, VectorPacketManager

VARIABLE part

(* Values for the constants of FrameDelivery that are functions.           *)
MCCoarsePrecision == [b \in Buffer |-> "RUNTIME_DECISION"]
MCFinePrecision == [b \in Buffer |-> IF b = HeatMap THEN "F32" ELSE "H16"]
MCImageValue == [b \in Buffer |-> {NoValue, HdrValue}]

(* The packets: with and without clipped lines at either end.              *)
Clip == [start |-> NoPoint, end |-> NoPoint]
FromStart == [start |-> 1, end |-> NoPoint]
ToEnd == [start |-> NoPoint, end |-> 3]
Whole == [start |-> 0, end |-> 2]

MCPacket ==
    [r \in RankId |-> IF r = 0 THEN {<<Clip, FromStart, Clip, Whole>>, <<ToEnd, Clip, Whole>>}
                              ELSE {<<Whole, ToEnd>>}]

PartsInit ==
    /\ part \in {"delivery", "pathVis"}
    /\ DeliveryInit
    /\ PathVisInit

PartsNext ==
    /\ UNCHANGED part
    /\ \/ part = "delivery" /\ DeliveryNext /\ UNCHANGED pathVisVars
       \/ part = "pathVis" /\ PathVisNext /\ UNCHANGED deliveryVars

PartsSpec == PartsInit /\ [][PartsNext]_<<part, deliveryVars, pathVisVars>>
===============================================================================
