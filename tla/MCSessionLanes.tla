---------------------------- MODULE MCSessionLanes ----------------------------
(* Instances of SessionLanes for TLC: sessions of one plugin, so that an import *)
(* may link and unlink any of them and a chain can be longer than MaxDepth.    *)
EXTENDS SessionLanes, TLC

CONSTANTS s1, s2, s3, pluginA

MCOnePlugin == [s \in Sessions |-> pluginA]
===============================================================================
