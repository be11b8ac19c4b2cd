------------------------------ MODULE Correlator ------------------------------
(***************************************************************************)
(* The pending-request table of internal/cdp: requests that have been sent *)
(* to the mini program and wait for a response.  A request belongs to the  *)
(* exact connection generation that sent it; the table is bounded.         *)
(*                                                                         *)
(* The operators compute the table after an operation.  Every operation of *)
(* the code first prunes the entries whose deadline has passed, so an      *)
(* entry that expires is never seen again and a user of this module models *)
(* expiry as the removal of one entry at any time.                         *)
(***************************************************************************)
EXTENDS Naturals, FiniteSets

CONSTANT MaxPending   \* CorrelatorOptions.MaxPending

ASSUME CorrelatorAssumption == MaxPending \in Nat \ {0}

\* pendingKey; the request body does not matter to any decision.
Entry(o, g, i) == [owner |-> o, gen |-> g, id |-> i]

\* DrainFor: the requests of one exact owner generation.
OfScope(table, o, g) == {e \in table : e.owner = o /\ e.gen = g}

IdsOf(entries) == {e.id : e \in entries}

\* TryAddFor: an id that is pending in its scope is replaced, a new one needs
\* room.
Admits(table, e) == e \in table \/ Cardinality(table) < MaxPending

\* ResolveFor and CancelFor touch the exact entry only.
Without(table, e) == table \ {e}
=============================================================================
