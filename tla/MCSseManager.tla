----------------------------- MODULE MCSseManager -----------------------------
(* Two connection ids and both attachment modes, each set of them symmetric.    *)
EXTENDS SseManager, TLC

Symmetric == Permutations(Conns) \cup Permutations(Modes)
===============================================================================
