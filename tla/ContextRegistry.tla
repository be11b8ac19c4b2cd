--------------------------- MODULE ContextRegistry ---------------------------
(***************************************************************************)
(* The registry of JavaScript contexts (src/internal/context/registry.go)  *)
(* as a value: a record and one operator per method.  Every method runs    *)
(* inside the registry's own lock, so a use of an operator is one step; a  *)
(* method that returns an error or false leaves the registry as it is.     *)
(*                                                                         *)
(* A context is its ID and its target name.  Names are told apart only by  *)
(* who announced them.                                                     *)
(***************************************************************************)
EXTENDS Naturals, Sequences, FiniteSets

CONSTANTS
  Ids,       \* IDs of contexts
  NoId,      \* the empty ID: nothing is selected
  Capacity   \* contexts a registry takes

ASSUME RegistryAssumption == NoId \notin Ids /\ Capacity \in Nat \ {0}

NewRegistry == [items |-> [i \in {} |-> 0], order |-> <<>>, selected |-> NoId,
                generation |-> 0, active |-> FALSE]

Registered(r) == DOMAIN r.items

(* The owner of the registry is generation g; generation 0 (a replay) uses *)
(* the methods that do not ask.                                            *)
Matches(r, g) == g = 0 \/ (r.active /\ r.generation = g)

\* upsertLocked: an update is taken at capacity, a new context is not.
Accepts(r, id) == id \in Registered(r) \/ Cardinality(Registered(r)) < Capacity

Upsert(r, id, target) ==
  IF ~Accepts(r, id) THEN r
  ELSE [r EXCEPT
         !.items = [i \in Registered(r) \union {id} |-> IF i = id THEN target ELSE r.items[i]],
         !.order = IF id \in Registered(r) THEN @ ELSE Append(@, id),
         !.selected = IF @ = NoId THEN id ELSE @]

Place(order, id) == CHOOSE i \in 1..Len(order) : order[i] = id

Without(order, id) ==
  LET at == Place(order, id)
  IN [i \in 1..(Len(order) - 1) |-> order[IF i < at THEN i ELSE i + 1]]

\* Mutant of Remove: a selected context that goes leaves nothing selected.
RemoveLeavesNone(r, id) ==
  IF id \notin Registered(r) THEN r
  ELSE [r EXCEPT !.items = [i \in Registered(r) \ {id} |-> r.items[i]],
                 !.order = Without(@, id),
                 !.selected = IF @ = id THEN NoId ELSE @]

\* removeLocked: the first of those that are left takes over.
Remove(r, id) ==
  IF id \notin Registered(r) THEN r
  ELSE LET order == Without(r.order, id)
       IN [r EXCEPT !.items = [i \in Registered(r) \ {id} |-> r.items[i]],
                    !.order = order,
                    !.selected = IF @ # id THEN @
                                 ELSE IF order = <<>> THEN NoId ELSE order[1]]

Select(r, id) == IF id \in Registered(r) THEN [r EXCEPT !.selected = id] ELSE r

Clear(r) == [r EXCEPT !.items = [i \in {} |-> 0], !.order = <<>>, !.selected = NoId]

BeginGeneration(r, g) ==
  IF r.active /\ r.generation = g THEN r
  ELSE [Clear(r) EXCEPT !.generation = g, !.active = TRUE]

EndGeneration(r, g) ==
  IF r.active /\ r.generation = g THEN [Clear(r) EXCEPT !.active = FALSE] ELSE r

-----------------------------------------------------------------------------
(* Registry is coherent: the order lists each context once, no more than   *)
(* the capacity are registered, and as long as there is one, one of them   *)
(* is selected (registry.go, upsertLocked, removeLocked, selectLocked).    *)
Coherent(r) ==
  /\ r.order \in Seq(Ids)
  /\ \A i, j \in 1..Len(r.order) : r.order[i] = r.order[j] => i = j
  /\ Registered(r) = {r.order[i] : i \in 1..Len(r.order)}
  /\ Len(r.order) <= Capacity
  /\ IF r.order = <<>> THEN r.selected = NoId ELSE r.selected \in Registered(r)
=============================================================================
