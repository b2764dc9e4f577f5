------------------------------- MODULE MCReader -------------------------------
(***************************************************************************)
(* Reader on an input of ten packets with a keyframe every fourth one,     *)
(* some of them without a timestamp, and a tolerance of two errors.        *)
(***************************************************************************)
EXTENDS Reader

AllRequests == {"Software", "Auto", "D3D11VA", "VideoToolbox"}
EveryFourth == {k \in Packet : k % 4 = 0}
SomeUntimed == {0, 4}
===============================================================================
