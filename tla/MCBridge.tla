------------------------------- MODULE MCBridge -------------------------------
(* Two upstream connections and two controllers, one after the other, and the *)
(* SDK share a transport and its request ids.                                 *)
EXTENDS Bridge, TLC

Symmetric == Permutations(Ups) \cup Permutations(Ctls)
=============================================================================
