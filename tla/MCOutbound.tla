----------------------------- MODULE MCOutbound -----------------------------
(***************************************************************************)
(* A small instance of Outbound for TLC: one client behind each hub, and   *)
(* messages of one or two bytes, alone or in a batch of two.               *)
(***************************************************************************)
EXTENDS Outbound

CONSTANTS debug, cdp

TwoClients == <<debug, cdp>>

OneClient == <<cdp>>

SmallBatches == {<<1>>, <<2>>, <<1, 1>>}
=============================================================================
