------------------------------- MODULE MCNet -------------------------------
(* Packets long and short in turn, so that the length of one does not fit another; a sender gives *)
(* a length that is too short, another the longest one, and the callback one that is too long.    *)
EXTENDS NetTx

ThreePackets == <<2, 1, 2>>
SomeLengths == [bsp |-> {60}, ap |-> {1522}, callback |-> {100, 1523}]
=============================================================================
