---------------------------- MODULE ContextsProofs ----------------------------
(***************************************************************************)
(* What holds of the contexts for any IDs, capacity, replays, calls and    *)
(* subscriptions.  Every method of the registry keeps it coherent, so      *)
(* every step does, whoever takes it: what has to be known of a section    *)
(* under dispatchMu is only that it registers real IDs.                    *)
(***************************************************************************)
EXTENDS Contexts, SequenceTheorems, FiniteSetTheorems, FunctionTheorems, TLAPS

ItemMaps == UNION {[S -> Nat] : S \in SUBSET Ids}

Registries == [items : ItemMaps, order : Seq(Ids), selected : Ids \union {NoId},
               generation : Nat, active : BOOLEAN]

Good(r) == r \in Registries /\ Coherent(r)

-----------------------------------------------------------------------------
(***************************************************************************)
(* The methods of the registry.                                            *)
(***************************************************************************)

\* Function updates stay in ItemMaps.
LEMMA ItemMapsClosed ==
  ASSUME NEW f \in ItemMaps
  PROVE  /\ DOMAIN f \subseteq Ids
         /\ \A i \in DOMAIN f : f[i] \in Nat
         /\ \A id \in Ids, t \in Nat :
              [i \in DOMAIN f \union {id} |-> IF i = id THEN t ELSE f[i]] \in ItemMaps
         /\ \A id : [i \in DOMAIN f \ {id} |-> f[i]] \in ItemMaps
         /\ [i \in {} |-> 0] \in ItemMaps
<1>1. PICK S \in SUBSET Ids : f \in [S -> Nat]
  BY DEF ItemMaps
<1>2. \A T \in SUBSET Ids : \A g \in [T -> Nat] : g \in ItemMaps
  BY DEF ItemMaps
<1>3. ASSUME NEW id \in Ids, NEW t \in Nat
      PROVE  [i \in DOMAIN f \union {id} |-> IF i = id THEN t ELSE f[i]] \in ItemMaps
  <2>1. [i \in DOMAIN f \union {id} |-> IF i = id THEN t ELSE f[i]] \in [S \union {id} -> Nat]
    BY <1>1
  <2> QED
    BY <2>1, <1>1, <1>2
<1>4. ASSUME NEW id PROVE [i \in DOMAIN f \ {id} |-> f[i]] \in ItemMaps
  <2>1. [i \in DOMAIN f \ {id} |-> f[i]] \in [S \ {id} -> Nat]
    BY <1>1
  <2> QED
    BY <2>1, <1>1, <1>2
<1>5. [i \in {} |-> 0] \in ItemMaps
  <2>1. [i \in {} |-> 0] \in [{} -> Nat]
    OBVIOUS
  <2> QED
    BY <2>1, <1>2
<1> QED
  BY <1>1, <1>3, <1>4, <1>5

\* The registry of no contexts.
LEMMA EmptyMap == [i \in {} |-> 0] \in ItemMaps /\ DOMAIN [i \in {} |-> 0] = {}
<1>1. [i \in {} |-> 0] \in [{} -> Nat]
  OBVIOUS
<1> QED
  BY <1>1 DEF ItemMaps

\* A coherent registry counts its contexts by its order.
LEMMA OrderCounts ==
  ASSUME NEW r, Coherent(r)
  PROVE  Cardinality(Registered(r)) = Len(r.order) /\ IsFiniteSet(Registered(r))
<1>1. r.order \in [1..Len(r.order) -> Registered(r)]
  BY DEF Coherent
<1>2. r.order \in Bijection(1..Len(r.order), Registered(r))
  <2>1. \A i, j \in 1..Len(r.order) : r.order[i] = r.order[j] => i = j
    BY DEF Coherent
  <2>2. \A t \in Registered(r) : \E i \in 1..Len(r.order) : r.order[i] = t
    BY DEF Coherent
  <2> QED
    BY <1>1, <2>1, <2>2, Fun_IsBij
<1>3. Len(r.order) \in Nat
  BY DEF Coherent
<1>4. IsFiniteSet(1..Len(r.order)) /\ Cardinality(1..Len(r.order)) = Len(r.order)
  BY <1>3, FS_Interval
<1>5. ExistsBijection(1..Len(r.order), Registered(r))
  BY <1>2 DEF ExistsBijection
<1> QED
  BY <1>4, <1>5, FS_Bijection

LEMMA NewIsGood == Good(NewRegistry)
<1>1. NewRegistry \in Registries
  BY EmptyMap DEF NewRegistry, Registries
<1>2. Coherent(NewRegistry)
  <2>1. Registered(NewRegistry) = {} /\ NewRegistry.order = <<>> /\ NewRegistry.selected = NoId
    BY EmptyMap DEF NewRegistry, Registered
  <2> QED
    BY <2>1, RegistryAssumption DEF Coherent
<1> QED
  BY <1>1, <1>2 DEF Good

LEMMA UpsertGood ==
  ASSUME NEW r, Good(r), NEW id \in Ids, NEW t \in Nat
  PROVE  Good(Upsert(r, id, t))
<1>1. CASE ~Accepts(r, id)
  BY <1>1 DEF Upsert
<1>2. CASE id \in Registered(r)
  <2> DEFINE items == [i \in Registered(r) \union {id} |-> IF i = id THEN t ELSE r.items[i]]
             s == Upsert(r, id, t)
  <2>1. r.items \in ItemMaps /\ r.order \in Seq(Ids) /\ r \in Registries
    BY DEF Good, Registries
  <2>2. items \in ItemMaps /\ DOMAIN items = Registered(r)
    BY <1>2, <2>1, ItemMapsClosed DEF Registered
  <2>3. r.order # <<>>
    BY <1>2 DEF Good, Coherent
  <2>4. r.selected # NoId /\ r.selected \in Registered(r) /\ r.selected \in Ids
    BY <2>1, <2>3, ItemMapsClosed, RegistryAssumption DEF Good, Coherent, Registered
  <2>5. s = [r EXCEPT !.items = items, !.order = r.order, !.selected = r.selected]
    BY <1>2, <2>1, <2>4 DEF Upsert, Accepts, Registries
  <2>6. s.items = items /\ s.order = r.order /\ s.selected = r.selected /\ s \in Registries
    <3> HIDE DEF items, s
    <3> QED
      BY <2>1, <2>2, <2>4, <2>5 DEF Registries
  <2>7. Registered(s) = Registered(r)
    BY <2>2, <2>6 DEF Registered
  <2> HIDE DEF items, s
  <2>8. Coherent(s)
    BY <2>6, <2>7 DEF Good, Coherent
  <2> QED
    BY <2>6, <2>8 DEF Good, s
<1>3. CASE Accepts(r, id) /\ id \notin Registered(r)
  <2> DEFINE order == Append(r.order, id)
             n == Len(r.order)
  <2>1. n < Capacity /\ n \in Nat
    <3>1. Cardinality(Registered(r)) = n
      BY OrderCounts DEF Good
    <3>2. Cardinality(Registered(r)) < Capacity
      BY <1>3 DEF Accepts
    <3>3. r.order \in Seq(Ids)
      BY DEF Good, Coherent
    <3> QED
      BY <3>1, <3>2, <3>3
  <2>2. /\ order \in Seq(Ids) /\ Len(order) = n + 1
        /\ \A i \in 1..n : order[i] = r.order[i]
        /\ order[n + 1] = id
    BY DEF Good, Registries
  <2>3. \A i \in 1..n : r.order[i] # id
    BY <1>3 DEF Good, Coherent
  <2>4. \A i, j \in 1..(n + 1) : order[i] = order[j] => i = j
    BY <2>1, <2>2, <2>3 DEF Good, Coherent
  <2>5. {order[i] : i \in 1..(n + 1)} = Registered(r) \union {id}
    BY <2>1, <2>2 DEF Good, Coherent
  <2> DEFINE items == [i \in Registered(r) \union {id} |-> IF i = id THEN t ELSE r.items[i]]
             selected == IF r.selected = NoId THEN id ELSE r.selected
             s == Upsert(r, id, t)
  <2>6. r \in Registries /\ r.items \in ItemMaps
    BY DEF Good, Registries
  <2>7. items \in ItemMaps /\ DOMAIN items = Registered(r) \union {id}
    BY <2>6, ItemMapsClosed DEF Registered
  <2>8. selected \in Registered(r) \union {id} /\ selected \in Ids
    BY <2>6, ItemMapsClosed DEF Good, Coherent, Registered
  <2>9. s = [r EXCEPT !.items = items, !.order = order, !.selected = selected]
    BY <1>3, <2>6 DEF Upsert, Registries
  <2>10. order # <<>> /\ n + 1 <= Capacity
    BY <2>1, <2>2, RegistryAssumption
  <2> HIDE DEF order, n, items, selected, s
  <2>11. s.items = items /\ s.order = order /\ s.selected = selected /\ s \in Registries
    BY <2>2, <2>6, <2>7, <2>8, <2>9 DEF Registries
  <2>12. Registered(s) = Registered(r) \union {id}
    BY <2>7, <2>11 DEF Registered
  <2>13. Coherent(s)
    BY <2>2, <2>4, <2>5, <2>8, <2>10, <2>11, <2>12 DEF Coherent
  <2> QED
    BY <2>11, <2>13 DEF Good, s
<1> QED
  BY <1>1, <1>2, <1>3 DEF Accepts

\* The order without one of its members.
LEMMA WithoutOrder ==
  ASSUME NEW r, Good(r), NEW id \in Registered(r)
  PROVE  LET order == Without(r.order, id)
         IN /\ order \in Seq(Ids)
            /\ Len(order) = Len(r.order) - 1
            /\ \A i, j \in 1..Len(order) : order[i] = order[j] => i = j
            /\ {order[i] : i \in 1..Len(order)} = Registered(r) \ {id}
<1> DEFINE n == Len(r.order)
           at == Place(r.order, id)
           order == Without(r.order, id)
<1>1. n \in Nat /\ r.order \in [1..n -> Ids]
  BY DEF Good, Coherent
<1>2. at \in 1..n /\ r.order[at] = id
  <2>1. \E i \in 1..n : r.order[i] = id
    BY DEF Good, Coherent
  <2> QED
    BY <2>1 DEF Place
<1>3. n - 1 \in Nat
  BY <1>1, <1>2
<1>4. order = [i \in 1..(n - 1) |-> r.order[IF i < at THEN i ELSE i + 1]]
  BY DEF Without
<1>5. \A i \in 1..(n - 1) : (IF i < at THEN i ELSE i + 1) \in 1..n
  BY <1>1, <1>2
<1>6. order \in [1..(n - 1) -> Ids]
  BY <1>1, <1>4, <1>5
<1>7. order \in Seq(Ids) /\ Len(order) = n - 1
  <2>1. order \in Seq(Ids)
    BY <1>3, <1>6, IsASeq
  <2>2. Len(order) \in Nat /\ DOMAIN order = 1..Len(order)
    BY <2>1
  <2> QED
    BY <2>1, <2>2, <1>3, <1>6
<1>8. \A i, j \in 1..n : r.order[i] = r.order[j] => i = j
  BY DEF Good, Coherent
<1>9. \A i \in 1..(n - 1) : order[i] = r.order[IF i < at THEN i ELSE i + 1]
  BY <1>4
<1> HIDE DEF n, at, order
<1>10. \A i, j \in 1..(n - 1) : order[i] = order[j] => i = j
  <2> SUFFICES ASSUME NEW i \in 1..(n - 1), NEW j \in 1..(n - 1), order[i] = order[j]
               PROVE  i = j
    OBVIOUS
  <2>1. (IF i < at THEN i ELSE i + 1) = (IF j < at THEN j ELSE j + 1)
    BY <1>5, <1>8, <1>9
  <2> QED
    BY <2>1, <1>1, <1>2
<1>11. ASSUME NEW x PROVE x \in {order[i] : i \in 1..(n - 1)} <=> x \in Registered(r) \ {id}
  <2>1. x \in Registered(r) <=> \E i \in 1..n : r.order[i] = x
    BY DEF Good, Coherent, n
  <2>2. ASSUME NEW i \in 1..(n - 1), order[i] = x PROVE x \in Registered(r) \ {id}
    <3> DEFINE k == IF i < at THEN i ELSE i + 1
    <3>1. k \in 1..n /\ r.order[k] = x /\ k # at
      BY <2>2, <1>1, <1>2, <1>5, <1>9
    <3> QED
      BY <3>1, <2>1, <1>2, <1>8
  <2>3. ASSUME x \in Registered(r) \ {id} PROVE \E i \in 1..(n - 1) : order[i] = x
    <3>1. PICK k \in 1..n : r.order[k] = x
      BY <2>1, <2>3
    <3>2. k # at
      BY <3>1, <2>3, <1>2
    <3>3. CASE k < at
      BY <3>1, <3>3, <1>1, <1>2, <1>9
    <3>4. CASE k > at
      <4>1. k - 1 \in 1..(n - 1) /\ ~(k - 1 < at) /\ (k - 1) + 1 = k
        BY <3>4, <1>1, <1>2
      <4> QED
        BY <4>1, <3>1, <1>9
    <3> QED
      BY <3>2, <3>3, <3>4, <1>1, <1>2
  <2> QED
    BY <2>2, <2>3
<1>12. {order[i] : i \in 1..(n - 1)} = Registered(r) \ {id}
  BY <1>11
<1> QED
  BY <1>7, <1>10, <1>12 DEF order, n

LEMMA RemoveGood ==
  ASSUME NEW r, Good(r), NEW id
  PROVE  Good(Remove(r, id))
<1>1. CASE id \notin Registered(r)
  BY <1>1 DEF Remove
<1>2. CASE id \in Registered(r)
  <2> DEFINE order == Without(r.order, id)
             s == Remove(r, id)
  <2>1. /\ order \in Seq(Ids) /\ Len(order) = Len(r.order) - 1
        /\ \A i, j \in 1..Len(order) : order[i] = order[j] => i = j
        /\ {order[i] : i \in 1..Len(order)} = Registered(r) \ {id}
    BY <1>2, WithoutOrder
  <2> DEFINE items == [i \in Registered(r) \ {id} |-> r.items[i]]
             selected == IF r.selected # id THEN r.selected
                         ELSE IF order = <<>> THEN NoId ELSE order[1]
  <2>2. r \in Registries /\ r.items \in ItemMaps /\ Registered(r) \subseteq Ids
    BY ItemMapsClosed DEF Good, Registries, Registered
  <2>3. items \in ItemMaps /\ DOMAIN items = Registered(r) \ {id}
    BY <2>2, ItemMapsClosed DEF Registered
  <2>4. s = [r EXCEPT !.items = items, !.order = order, !.selected = selected]
    BY <1>2, <2>2 DEF Remove, Registries
  <2>5. order # <<>> => order[1] \in Registered(r) \ {id}
    BY <2>1
  <2>6. order # <<>> \/ Registered(r) \ {id} = {}
    <3>1. ASSUME order = <<>> PROVE {order[i] : i \in 1..Len(order)} = {}
      BY <3>1
    <3> QED
      BY <2>1, <3>1
  <2>7. r.selected \in Registered(r)
    BY <1>2 DEF Good, Coherent
  <2>8. IF order = <<>> THEN selected = NoId ELSE selected \in Registered(r) \ {id}
    BY <2>5, <2>6, <2>7
  <2>9. Len(order) <= Capacity
    BY <2>1, RegistryAssumption DEF Good, Coherent
  <2> HIDE DEF order, items, selected, s
  <2>10. s.items = items /\ s.order = order /\ s.selected = selected /\ s \in Registries
    BY <2>1, <2>2, <2>3, <2>4, <2>8 DEF Registries
  <2>11. Registered(s) = Registered(r) \ {id}
    BY <2>3, <2>10 DEF Registered
  <2>12. Coherent(s)
    BY <2>1, <2>8, <2>9, <2>10, <2>11 DEF Coherent
  <2> QED
    BY <2>10, <2>12 DEF Good, s
<1> QED
  BY <1>1, <1>2

LEMMA SelectGood ==
  ASSUME NEW r, Good(r), NEW id
  PROVE  Good(Select(r, id)) /\ Registered(Select(r, id)) = Registered(r)
<1>1. CASE id \notin Registered(r)
  BY <1>1 DEF Select
<1>2. CASE id \in Registered(r)
  <2>1. r \in Registries /\ r.items \in ItemMaps /\ id \in Ids
    BY <1>2, ItemMapsClosed DEF Good, Registries, Registered
  <2> DEFINE s == Select(r, id)
  <2>2. s.items = r.items /\ s.order = r.order /\ s.selected = id /\ s \in Registries
    BY <1>2, <2>1 DEF Select, Registries
  <2>3. Registered(s) = Registered(r) /\ r.order # <<>>
    BY <1>2, <2>2 DEF Registered, Good, Coherent
  <2> HIDE DEF s
  <2>4. Coherent(s)
    BY <1>2, <2>2, <2>3 DEF Good, Coherent
  <2> QED
    BY <2>2, <2>3, <2>4 DEF Good, s
<1> QED
  BY <1>1, <1>2

LEMMA EmptyIsGood ==
  ASSUME NEW s \in Registries,
         s.items = [i \in {} |-> 0], s.order = <<>>, s.selected = NoId
  PROVE  Good(s)
<1>1. Registered(s) = {}
  BY EmptyMap DEF Registered
<1> QED
  BY <1>1, RegistryAssumption DEF Good, Coherent

LEMMA GenerationGood ==
  ASSUME NEW r, Good(r), NEW g \in Nat
  PROVE  Good(BeginGeneration(r, g)) /\ Good(EndGeneration(r, g))
<1>1. r \in Registries
  BY DEF Good
<1>2. Clear(r) \in Registries /\ Clear(r).items = [i \in {} |-> 0]
      /\ Clear(r).order = <<>> /\ Clear(r).selected = NoId
  <2>1. [i \in {} |-> 0] \in ItemMaps /\ <<>> \in Seq(Ids) /\ NoId \in Ids \union {NoId}
    BY EmptyMap
  <2> QED
    BY <1>1, <2>1 DEF Clear, Registries
<1> DEFINE b == [Clear(r) EXCEPT !.generation = g, !.active = TRUE]
           e == [Clear(r) EXCEPT !.active = FALSE]
<1>3. /\ b \in Registries /\ b.items = Clear(r).items /\ b.order = Clear(r).order
      /\ b.selected = Clear(r).selected
      /\ e \in Registries /\ e.items = Clear(r).items /\ e.order = Clear(r).order
      /\ e.selected = Clear(r).selected
  BY <1>2 DEF Registries
<1> HIDE DEF b, e
<1>4. Good(b) /\ Good(e)
  BY <1>2, <1>3, EmptyIsGood
<1> QED
  BY <1>4 DEF BeginGeneration, EndGeneration, b, e

-----------------------------------------------------------------------------
(***************************************************************************)
(* The steps.                                                              *)
(***************************************************************************)
Steps == {"begin", "end", "upsert", "remove", "select", "added", "removed", "selected"}

Items == {x \in [do : Steps, id : Ids \union {NoId}, target : Nat] :
            x.do = "upsert" => x.id \in Ids}

\* What a section under dispatchMu has yet to do registers real IDs.
AgendaInv == /\ agenda \in Seq(Items)
             /\ holder = NoOne <=> agenda = <<>>
             /\ generation \in Nat

RegInv == Good(reg) /\ AgendaInv

LEMMA DoIsItem ==
  ASSUME NEW id \in Ids \union {NoId}
  PROVE  /\ Do("begin", id) \in Items /\ Do("end", id) \in Items
         /\ Do("remove", id) \in Items /\ Do("select", id) \in Items
         /\ Do("added", id) \in Items /\ Do("removed", id) \in Items
         /\ Do("selected", id) \in Items
  BY DEF Do, Items, Steps

LEMMA TakeKeeps ==
  ASSUME NEW who, who # NoOne, NEW steps \in Seq(Items), Take(who, steps), generation' \in Nat
  PROVE  AgendaInv'
  BY DEF Take, AgendaInv

LEMMA DoneKeeps ==
  ASSUME AgendaInv, Done, UNCHANGED generation
  PROVE  AgendaInv'
<1>1. agenda' \in Seq(Items)
  BY HeadTailProperties DEF AgendaInv, Done
<1> QED
  BY <1>1 DEF AgendaInv, Done

LEMMA FrameKeeps ==
  ASSUME RegInv, NEW who, who # NoOne, NEW g \in Nat, Frame(who, g), UNCHANGED generation
  PROVE  RegInv'
<1>1. reg \in Registries /\ \A i \in 1..Len(reg.order) : reg.order[i] \in Ids
  BY DEF RegInv, Good, Registries
<1> USE DEF RegInv, AgendaInv
<1>2. ASSUME NEW id \in Ids, NEW private \in BOOLEAN, Added(who, g, id, private) PROVE RegInv'
  <2>1. Good(reg')
    BY <1>2, UpsertGood DEF Added
  <2>2. <<Do("added", id)>> \in Seq(Items) /\ <<>> \in Seq(Items)
    BY DoIsItem
  <2> QED
    BY <1>2, <2>1, <2>2, TakeKeeps DEF Added
<1>3. ASSUME NEW id \in Ids, Removed(who, g, id) PROVE RegInv'
  <2>1. Good(reg')
    BY <1>3, RemoveGood DEF Removed
  <2>2. <<Do("removed", id)>> \in Seq(Items) /\ <<>> \in Seq(Items)
    BY DoIsItem
  <2> QED
    BY <1>3, <2>1, <2>2, TakeKeeps DEF Removed
<1>4. ASSUME NEW id \in Ids, Connected(who, g, id) PROVE RegInv'
  <2>1. Good(reg')
    BY <1>4, UpsertGood DEF Connected
  <2>2. <<Do("select", id), Do("selected", id)>> \in Seq(Items) /\ <<>> \in Seq(Items)
    BY DoIsItem
  <2> QED
    BY <1>4, <2>1, <2>2, TakeKeeps DEF Connected
<1>5. ASSUME Cleared(who, g) PROVE RegInv'
  <2> DEFINE steps == [i \in 1..(2 * Len(reg.order)) |->
                         IF i % 2 = 1 THEN Do("remove", reg.order[(i + 1) \div 2])
                                      ELSE Do("removed", reg.order[i \div 2])]
  <2>1. Len(reg.order) \in Nat
    BY <1>1 DEF Registries
  <2>2. ASSUME NEW i \in 1..(2 * Len(reg.order)) PROVE steps[i] \in Items
    <3>1. CASE i % 2 = 1
      <4>1. (i + 1) \div 2 \in 1..Len(reg.order)
        BY <2>1, <3>1
      <4>2. Do("remove", reg.order[(i + 1) \div 2]) \in Items
        BY <4>1, <1>1, DoIsItem
      <4> QED
        BY <3>1, <4>2
    <3>2. CASE i % 2 # 1
      <4>1. i \div 2 \in 1..Len(reg.order)
        BY <2>1, <3>2
      <4>2. Do("removed", reg.order[i \div 2]) \in Items
        BY <4>1, <1>1, DoIsItem
      <4> QED
        BY <3>2, <4>2
    <3> QED
      BY <3>1, <3>2
  <2>3. steps \in Seq(Items)
    <3>1. 2 * Len(reg.order) \in Nat
      BY <2>1
    <3>2. steps \in [1..(2 * Len(reg.order)) -> Items]
      BY <2>2
    <3> HIDE DEF steps
    <3> QED
      BY <3>1, <3>2, IsASeq
  <2>4. Take(who, steps) /\ UNCHANGED reg
    BY <1>5 DEF Cleared
  <2> HIDE DEF steps
  <2> QED
    BY <2>3, <2>4, TakeKeeps
<1> QED
  BY <1>2, <1>3, <1>4, <1>5 DEF Frame

LEMMA RegistryStepKeeps ==
  ASSUME RegInv, RegistryStep
  PROVE  RegInv'
<1>1. Done /\ UNCHANGED generation
  BY DEF RegistryStep, Step, linkVars
<1>2. AgendaInv'
  BY <1>1, DoneKeeps DEF RegInv
<1>3. agenda[1] \in Items /\ generation \in Nat
  BY <1>1 DEF RegInv, AgendaInv, Done
<1>4. Good(reg')
  <2>1. CASE Step("upsert") /\ reg' = Upsert(reg, agenda[1].id, agenda[1].target)
    <3>1. agenda[1].id \in Ids /\ agenda[1].target \in Nat
      BY <1>3, <2>1 DEF Items, Step
    <3> QED
      BY <2>1, <3>1, UpsertGood DEF RegInv
  <2>2. CASE reg' = Remove(reg, agenda[1].id)
    BY <2>2, RemoveGood DEF RegInv
  <2>3. CASE reg' = Select(reg, agenda[1].id)
    BY <2>3, SelectGood DEF RegInv
  <2>4. CASE reg' = BeginGeneration(reg, generation) \/ reg' = EndGeneration(reg, generation)
    BY <1>3, <2>4, GenerationGood DEF RegInv
  <2> QED
    BY <2>1, <2>2, <2>3, <2>4 DEF RegistryStep
<1> QED
  BY <1>2, <1>4 DEF RegInv

LEMMA InstallKeeps ==
  ASSUME RegInv, InstallOwner
  PROVE  RegInv'
<1> DEFINE begin == <<Do("begin", NoId)>>
           seed == [i \in 1..Len(reg.order) |->
                     [do |-> "upsert", id |-> reg.order[i], target |-> reg.items[reg.order[i]]]]
           choose == IF reg.selected = NoId THEN <<>> ELSE <<Do("select", reg.selected)>>
<1>1. reg \in Registries /\ Coherent(reg)
  BY DEF RegInv, Good
<1>2. begin \in Seq(Items) /\ choose \in Seq(Items)
  BY <1>1, DoIsItem DEF Registries
<1>3. seed \in Seq(Items)
  <2>1. Len(reg.order) \in Nat
    BY <1>1 DEF Registries
  <2>2. ASSUME NEW i \in 1..Len(reg.order) PROVE seed[i] \in Items
    <3>1. reg.order[i] \in Ids /\ reg.order[i] \in DOMAIN reg.items
      BY <1>1 DEF Registries, Coherent, Registered
    <3>2. reg.items[reg.order[i]] \in Nat
      BY <1>1, <3>1, ItemMapsClosed DEF Registries
    <3> QED
      BY <3>1, <3>2 DEF Items, Steps
  <2>3. seed \in [1..Len(reg.order) -> Items]
    BY <2>2
  <2> HIDE DEF seed
  <2> QED
    BY <2>1, <2>3, IsASeq
<1>4. Take(Upstream, begin \o seed \o choose) /\ UNCHANGED reg /\ generation' = generation + 1
  BY DEF InstallOwner
<1> HIDE DEF begin, seed, choose
<1>5. begin \o seed \o choose \in Seq(Items)
  BY <1>2, <1>3, ConcatProperties
<1>6. Upstream # NoOne /\ generation' \in Nat
  BY <1>4, ContextsAssumption DEF RegInv, AgendaInv
<1>7. AgendaInv'
  BY <1>4, <1>5, <1>6, TakeKeeps
<1> QED
  BY <1>4, <1>7 DEF RegInv

LEMMA EndOwnerKeepsGood ==
  ASSUME RegInv, EndOwner
  PROVE  RegInv'
<1>1. reg \in Registries /\ Len(reg.order) \in Nat
  BY DEF RegInv, Good, Registries
<1>2. Announce("removed", reg.order) \in Seq(Items)
  <2>1. ASSUME NEW i \in 1..Len(reg.order) PROVE Do("removed", reg.order[i]) \in Items
    <3>1. reg.order[i] \in Ids
      BY <1>1 DEF Registries
    <3> QED
      BY <3>1, DoIsItem
  <2>2. Announce("removed", reg.order) \in [1..Len(reg.order) -> Items]
    BY <2>1 DEF Announce
  <2> QED
    BY <1>1, <2>2, IsASeq
<1>3. <<Do("end", NoId)>> \in Seq(Items)
  BY DoIsItem
<1>4. <<Do("end", NoId)>> \o Announce("removed", reg.order) \in Seq(Items)
  BY <1>2, <1>3, ConcatProperties
<1> QED
  BY <1>4, TakeKeeps, ContextsAssumption DEF EndOwner, RegInv, AgendaInv

LEMMA RegInitially == Init => RegInv
  BY NewIsGood DEF Init, RegInv, AgendaInv

LEMMA RegStepwise == RegInv /\ [Next]_vars => RegInv'
<1> SUFFICES ASSUME RegInv, [Next]_vars PROVE RegInv'
  OBVIOUS
<1>1. CASE UpstreamFrame
  BY <1>1, FrameKeeps, ContextsAssumption DEF UpstreamFrame, RegInv, AgendaInv
<1>2. CASE RegistryStep
  BY <1>2, RegistryStepKeeps
<1>3. CASE AnnounceStep
  <2>1. Done /\ UNCHANGED <<reg, generation>>
    BY <1>3 DEF AnnounceStep, Step, linkVars
  <2> QED
    BY <2>1, DoneKeeps DEF RegInv
<1>4. CASE InstallOwner
  BY <1>4, InstallKeeps
<1>5. CASE EndOwner
  BY <1>5, EndOwnerKeepsGood
<1>6. ASSUME NEW r \in Replays, ReplayFrame(r) PROVE RegInv'
  BY <1>6, FrameKeeps, ContextsAssumption DEF ReplayFrame, linkVars
<1>7. ASSUME NEW s \in Selectors, NEW id \in Ids, SelectChoose(s, id) PROVE RegInv'
  BY <1>7, SelectGood DEF SelectChoose, linkVars, RegInv, AgendaInv
<1>8. CASE UNCHANGED <<dispatchVars, generation>>
  BY <1>8 DEF dispatchVars, RegInv, AgendaInv
<1>9. ASSUME NEW r \in Replays, ReplayStart(r) \/ ReplayGivenUp(r) \/ ReplayTakes(r) \/ ReplayEnd(r)
      PROVE  UNCHANGED <<dispatchVars, generation>>
  BY <1>9 DEF ReplayStart, ReplayGivenUp, ReplayTakes, ReplayEnd, linkVars
<1>10. ASSUME NEW s \in Selectors, SelectGet(s) \/ SelectPublish(s)
       PROVE  UNCHANGED <<dispatchVars, generation>>
  BY <1>10 DEF SelectGet, SelectPublish, linkVars
<1>11. ASSUME NEW s \in Subscribers, Receive(s) \/ Unsubscribe(s)
       PROVE  UNCHANGED <<dispatchVars, generation>>
  BY <1>11 DEF Receive, Unsubscribe, linkVars
<1>12. ASSUME CloseBegin \/ CloseCancels \/ CloseEnd \/ CloseBus
       PROVE  UNCHANGED <<dispatchVars, generation>>
  BY <1>12 DEF CloseBegin, CloseCancels, CloseEnd, CloseBus, linkVars
<1>13. CASE UNCHANGED vars
  BY <1>13, <1>8 DEF vars, linkVars
<1> QED
  BY <1>1, <1>2, <1>3, <1>4, <1>5, <1>6, <1>7, <1>8, <1>9, <1>10, <1>11, <1>12, <1>13 DEF Next

(* The registry stays coherent whatever registers, removes, selects or     *)
(* replays, and in whatever order (registry.go, upsertLocked,              *)
(* removeLocked, selectLocked, clearLocked).                               *)
THEOREM RegistryAlwaysCoherent == Spec => []RegistryCoherent
<1>1. RegInv => RegistryCoherent
  BY DEF RegInv, Good, RegistryCoherent
<1> QED
  BY <1>1, RegInitially, RegStepwise, PTL DEF Spec

-----------------------------------------------------------------------------
(***************************************************************************)
(* Replays: a frame is late only if the replay was cancelled between its   *)
(* reading the frame and submitting it, and then it reads no other.        *)
(***************************************************************************)
ReplayInv ==
  /\ replay \in [Replays -> [at : {"idle", "reading", "frame", "ended"},
                             cancelled : BOOLEAN, left : Int]]
  /\ late \in [Replays -> {0, 1}]
  /\ \A r \in Replays :
       late[r] = 1 => replay[r].at = "ended" \/ (replay[r].at = "reading" /\ replay[r].cancelled)

LEMMA CancelledKeeps ==
  ASSUME ReplayInv, NEW rs
  PROVE  /\ Cancelled(rs) \in [Replays -> [at : {"idle", "reading", "frame", "ended"},
                                           cancelled : BOOLEAN, left : Int]]
         /\ \A r \in Replays : /\ Cancelled(rs)[r].at = replay[r].at
                               /\ replay[r].cancelled => Cancelled(rs)[r].cancelled
  BY DEF ReplayInv, Cancelled

LEMMA ReplayInitially == Init => ReplayInv
  BY ContextsAssumption DEF Init, ReplayInv

LEMMA ReplayStepwise == ReplayInv /\ [Next]_vars => ReplayInv'
<1> SUFFICES ASSUME ReplayInv, [Next]_vars PROVE ReplayInv'
  OBVIOUS
<1>1. ASSUME NEW r \in Replays, ReplayStart(r) PROVE ReplayInv'
  <2>1. CASE close # "open"
    <3>1. /\ replay' = [replay EXCEPT ![r] = [at |-> "ended", cancelled |-> FALSE, left |-> 0]]
          /\ late' = late
      BY <1>1, <2>1 DEF ReplayStart
    <3>2. [at |-> "ended", cancelled |-> FALSE, left |-> 0] \in
            [at : {"idle", "reading", "frame", "ended"}, cancelled : BOOLEAN, left : Int]
      OBVIOUS
    <3> QED
      BY <3>1, <3>2 DEF ReplayInv
  <2>2. CASE close = "open"
    <3>1. /\ replay[r].at = "idle" /\ late' = late
          /\ replay' = [Cancelled({current}) EXCEPT ![r].at = "reading"]
      BY <1>1, <2>2 DEF ReplayStart
    <3>2. late[r] = 0
      BY <3>1 DEF ReplayInv
    <3> QED
      BY <3>1, <3>2, CancelledKeeps DEF ReplayInv
  <2> QED
    BY <2>1, <2>2
<1>2. ASSUME NEW r \in Replays, ReplayGivenUp(r) PROVE ReplayInv'
  <2>1. replay' = Cancelled({r}) /\ late' = late
    BY <1>2 DEF ReplayGivenUp
  <2> QED
    BY <2>1, CancelledKeeps DEF ReplayInv
<1>3. ASSUME NEW r \in Replays, ReplayTakes(r) PROVE ReplayInv'
  BY <1>3 DEF ReplayTakes, ReplayInv
<1>4. ASSUME NEW r \in Replays, ReplayFrame(r) PROVE ReplayInv'
  BY <1>4 DEF ReplayFrame, ReplayInv
<1>5. ASSUME NEW r \in Replays, ReplayEnd(r) PROVE ReplayInv'
  BY <1>5 DEF ReplayEnd, ReplayInv
<1>6. CASE CloseCancels
  <2>1. replay' = Cancelled({current}) /\ late' = late
    BY <1>6 DEF CloseCancels
  <2> QED
    BY <2>1, CancelledKeeps DEF ReplayInv
<1>7. CASE UNCHANGED <<replay, late>>
  BY <1>7 DEF ReplayInv
<1>8. ASSUME \/ UpstreamFrame \/ RegistryStep \/ AnnounceStep \/ InstallOwner \/ EndOwner
             \/ CloseBegin \/ CloseEnd \/ CloseBus
      PROVE  UNCHANGED <<replay, late>>
  BY <1>8 DEF UpstreamFrame, RegistryStep, AnnounceStep, InstallOwner, EndOwner, CloseBegin,
              CloseEnd, CloseBus, replayVars
<1>9. ASSUME NEW s \in Selectors,
             (\E id \in Ids : SelectChoose(s, id)) \/ SelectGet(s) \/ SelectPublish(s)
      PROVE  UNCHANGED <<replay, late>>
  BY <1>9 DEF SelectChoose, SelectGet, SelectPublish, replayVars
<1>10. ASSUME NEW s \in Subscribers, Receive(s) \/ Unsubscribe(s)
       PROVE  UNCHANGED <<replay, late>>
  BY <1>10 DEF Receive, Unsubscribe, replayVars
<1>11. CASE UNCHANGED vars
  BY <1>7, <1>11 DEF vars, replayVars
<1> QED
  BY <1>1, <1>2, <1>3, <1>4, <1>5, <1>6, <1>7, <1>8, <1>9, <1>10, <1>11 DEF Next

(* However a replay is cancelled, at most one of its frames is submitted   *)
(* afterwards (app.go, ReplayContext; capture.go, replaySnapshotContext).  *)
THEOREM AtMostOneLateAlways == Spec => []AtMostOneLate
<1>1. ReplayInv => AtMostOneLate
  BY DEF ReplayInv, AtMostOneLate
<1> QED
  BY <1>1, ReplayInitially, ReplayStepwise, PTL DEF Spec

-----------------------------------------------------------------------------
(***************************************************************************)
(* After App.Close nobody is left who could begin a section.               *)
(***************************************************************************)
ClosedInv ==
  close \in {"closed", "released"} =>
    /\ ~upstream /\ agenda = <<>>
    /\ \A r \in Replays : replay[r].at \in {"idle", "ended"}

LEMMA ClosedStepwise ==
  ASSUME RegInv, ReplayInv, ClosedInv, [Next]_vars
  PROVE  /\ ClosedInv'
         /\ (close \in {"closed", "released"}) =>
              (agenda' = agenda /\ Registered(reg') = Registered(reg))
<1> DEFINE Goal == /\ ClosedInv'
                   /\ (close \in {"closed", "released"}) =>
                        (agenda' = agenda /\ Registered(reg') = Registered(reg))
<1> SUFFICES Goal
  OBVIOUS
<1> USE DEF ClosedInv
<1>1. CASE CloseEnd
  BY <1>1 DEF CloseEnd, dispatchVars, linkVars, replayVars, RegInv, AgendaInv
<1>2. CASE CloseBegin \/ CloseCancels
  BY <1>2 DEF CloseBegin, CloseCancels, dispatchVars
<1>3. CASE CloseBus
  BY <1>3 DEF CloseBus, dispatchVars, linkVars, replayVars
<1>4. CASE UpstreamFrame \/ EndOwner
  BY <1>4 DEF UpstreamFrame, EndOwner
<1>5. CASE InstallOwner
  BY <1>5 DEF InstallOwner
<1>6. CASE RegistryStep \/ AnnounceStep
  BY <1>6 DEF RegistryStep, AnnounceStep, Step, Done
<1>7. ASSUME NEW r \in Replays, ReplayStart(r) PROVE Goal
  BY <1>7 DEF ReplayStart, dispatchVars, linkVars, ReplayInv
<1>8. ASSUME NEW r \in Replays, ReplayGivenUp(r) \/ ReplayTakes(r) \/ ReplayFrame(r) \/ ReplayEnd(r)
      PROVE  Goal
  BY <1>8 DEF ReplayGivenUp, ReplayTakes, ReplayFrame, ReplayEnd
<1>9. ASSUME NEW s \in Selectors, NEW id \in Ids, SelectChoose(s, id) PROVE Goal
  BY <1>9, SelectGood DEF SelectChoose, linkVars, replayVars, RegInv
<1>10. CASE UNCHANGED <<dispatchVars, linkVars, replayVars, close>>
  BY <1>10 DEF dispatchVars, linkVars, replayVars
<1>11. ASSUME NEW s \in Selectors, SelectGet(s) \/ SelectPublish(s) PROVE Goal
  BY <1>10, <1>11 DEF SelectGet, SelectPublish
<1>12. ASSUME NEW s \in Subscribers, Receive(s) \/ Unsubscribe(s) PROVE Goal
  BY <1>10, <1>12 DEF Receive, Unsubscribe
<1>13. CASE UNCHANGED vars
  BY <1>10, <1>13 DEF vars
<1> QED
  BY <1>1, <1>2, <1>3, <1>4, <1>5, <1>6, <1>7, <1>8, <1>9, <1>11, <1>12, <1>13 DEF Next

(* Nothing is dispatched once App.Close has ended: it has waited for the   *)
(* reader and for every replay, and whoever comes later is refused under   *)
(* the lock it asks closing under (app.go, ReplayContext, Close).          *)
THEOREM NothingAfterCloseEver == Spec => NothingAfterClose
<1>1. Init => ClosedInv
  BY DEF Init, ClosedInv
<1>2. RegInv /\ ReplayInv /\ ClosedInv /\ [Next]_vars =>
        /\ ClosedInv'
        /\ [(close \in {"closed", "released"}) =>
              (agenda' = agenda /\ Registered(reg') = Registered(reg))]_vars
  BY ClosedStepwise
<1> QED
  BY <1>1, <1>2, RegInitially, RegStepwise, ReplayInitially, ReplayStepwise, PTL
  DEF Spec, NothingAfterClose

-----------------------------------------------------------------------------
(***************************************************************************)
(* Generations.  While the registry has an owner it is the last generation *)
(* installed, and only that one's contexts, and those of replays, are in   *)
(* it; a connection that goes leaves the end of its generation as the      *)
(* first thing to do.                                                      *)
(***************************************************************************)
AgendaOf(steps, up) ==
  /\ \A k \in 1..Len(steps) : /\ steps[k].do = "upsert" => steps[k].target = 0
                              /\ k # 1 => steps[k].do \notin {"begin", "end"}
  /\ steps # <<>> /\ steps[1].do = "begin" => up

Pending(step, steps) == steps # <<>> /\ steps[1].do = step

OwnedBy(r, g) ==
  /\ r.active => r.generation = g
  /\ \A i \in Registered(r) : r.items[i] = 0 \/ (r.active /\ r.items[i] = g)

GenInv ==
  /\ AgendaOf(agenda, upstream)
  /\ OwnedBy(reg, generation)
  /\ reg.active => upstream \/ Pending("end", agenda)

\* A context is registered for the owner, or by a replay.
LEMMA UpsertOwned ==
  ASSUME NEW r \in Registries, NEW g, OwnedBy(r, g), NEW id, NEW t,
         t = 0 \/ (r.active /\ t = g)
  PROVE  OwnedBy(Upsert(r, id, t), g) /\ Upsert(r, id, t).active = r.active
<1>1. CASE ~Accepts(r, id)
  BY <1>1 DEF Upsert
<1>2. CASE Accepts(r, id)
  <2> DEFINE s == Upsert(r, id, t)
             items == [i \in Registered(r) \union {id} |-> IF i = id THEN t ELSE r.items[i]]
  <2>1. s.items = items /\ s.active = r.active /\ s.generation = r.generation
    BY <1>2 DEF Upsert, Registries
  <2>2. ASSUME NEW i \in Registered(s)
        PROVE  (i = id /\ s.items[i] = t) \/ (i \in Registered(r) /\ s.items[i] = r.items[i])
    BY <2>1, <2>2 DEF Registered
  <2> HIDE DEF s, items
  <2>3. OwnedBy(s, g)
    BY <2>1, <2>2 DEF OwnedBy
  <2> QED
    BY <2>1, <2>3 DEF s
<1> QED
  BY <1>1, <1>2

LEMMA RemoveOwned ==
  ASSUME NEW r \in Registries, NEW g, OwnedBy(r, g), NEW id
  PROVE  OwnedBy(Remove(r, id), g) /\ Remove(r, id).active = r.active
<1>1. CASE id \notin Registered(r)
  BY <1>1 DEF Remove
<1>2. CASE id \in Registered(r)
  <2> DEFINE s == Remove(r, id)
             items == [i \in Registered(r) \ {id} |-> r.items[i]]
  <2>1. s.items = items /\ s.active = r.active /\ s.generation = r.generation
    BY <1>2 DEF Remove, Registries
  <2>2. ASSUME NEW i \in Registered(s)
        PROVE  i \in Registered(r) /\ s.items[i] = r.items[i]
    BY <2>1, <2>2 DEF Registered
  <2> HIDE DEF s, items
  <2>3. OwnedBy(s, g)
    BY <2>1, <2>2 DEF OwnedBy
  <2> QED
    BY <2>1, <2>3 DEF s
<1> QED
  BY <1>1, <1>2

LEMMA SelectOwned ==
  ASSUME NEW r \in Registries, NEW g, OwnedBy(r, g), NEW id
  PROVE  OwnedBy(Select(r, id), g) /\ Select(r, id).active = r.active
  BY DEF OwnedBy, Select, Registered, Registries

LEMMA GenerationOwned ==
  ASSUME NEW r \in Registries, NEW g \in Nat, OwnedBy(r, g)
  PROVE  /\ OwnedBy(BeginGeneration(r, g), g)
         /\ OwnedBy(EndGeneration(r, g), g) /\ ~EndGeneration(r, g).active
<1> DEFINE b == [Clear(r) EXCEPT !.generation = g, !.active = TRUE]
           e == [Clear(r) EXCEPT !.active = FALSE]
<1>1. Clear(r) \in Registries /\ Clear(r).items = [i \in {} |-> 0]
  <2>1. [i \in {} |-> 0] \in ItemMaps /\ <<>> \in Seq(Ids) /\ NoId \in Ids \union {NoId}
    BY EmptyMap
  <2> QED
    BY <2>1 DEF Clear, Registries
<1>2. /\ b.generation = g /\ b.items = Clear(r).items
      /\ e.active = FALSE /\ e.items = Clear(r).items
  BY <1>1 DEF Registries
<1>3. Registered(b) = {} /\ Registered(e) = {}
  BY <1>1, <1>2, EmptyMap DEF Registered
<1> HIDE DEF b, e
<1>4. OwnedBy(b, g) /\ OwnedBy(e, g)
  BY <1>2, <1>3 DEF OwnedBy
<1>5. BeginGeneration(r, g) = (IF r.active /\ r.generation = g THEN r ELSE b)
  BY DEF BeginGeneration, b
<1>6. EndGeneration(r, g) = (IF r.active /\ r.generation = g THEN e ELSE r)
  BY DEF EndGeneration, e
<1> QED
  BY <1>2, <1>4, <1>5, <1>6 DEF OwnedBy

LEMMA FrameOwned ==
  ASSUME RegInv, GenInv, NEW who, NEW g, g \in {0, generation}, Frame(who, g),
         UNCHANGED <<generation, upstream>>
  PROVE  GenInv'
<1>1. reg \in Registries
  BY DEF RegInv, Good
<1>2. holder = NoOne
  BY DEF Frame, Added, Removed, Connected, Cleared, Take
<1>3. reg.active => upstream
  BY <1>2 DEF GenInv, RegInv, AgendaInv, Pending
<1>4. OwnedBy(reg, generation)
  BY DEF GenInv
<1>5. Matches(reg, g) => g = 0 \/ (reg.active /\ g = generation)
  BY DEF Matches
<1>6. SUFFICES /\ AgendaOf(agenda', upstream)
               /\ OwnedBy(reg', generation)
               /\ reg'.active = reg.active
  BY <1>3, <1>6 DEF GenInv
<1>7. ASSUME NEW id \in Ids, NEW private \in BOOLEAN, Added(who, g, id, private)
      PROVE  AgendaOf(agenda', upstream) /\ OwnedBy(reg', generation) /\ reg'.active = reg.active
  <2>1. OwnedBy(reg', generation) /\ reg'.active = reg.active
    BY <1>1, <1>4, <1>5, <1>7, UpsertOwned DEF Added
  <2>2. agenda' \in {<<>>, <<Do("added", id)>>}
    BY <1>7 DEF Added, Take
  <2> QED
    BY <2>1, <2>2 DEF AgendaOf, Do
<1>8. ASSUME NEW id \in Ids, Removed(who, g, id)
      PROVE  AgendaOf(agenda', upstream) /\ OwnedBy(reg', generation) /\ reg'.active = reg.active
  <2>1. OwnedBy(reg', generation) /\ reg'.active = reg.active
    BY <1>1, <1>4, <1>8, RemoveOwned DEF Removed
  <2>2. agenda' \in {<<>>, <<Do("removed", id)>>}
    BY <1>8 DEF Removed, Take
  <2> QED
    BY <2>1, <2>2 DEF AgendaOf, Do
<1>9. ASSUME NEW id \in Ids, Connected(who, g, id)
      PROVE  AgendaOf(agenda', upstream) /\ OwnedBy(reg', generation) /\ reg'.active = reg.active
  <2>1. OwnedBy(reg', generation) /\ reg'.active = reg.active
    BY <1>1, <1>4, <1>5, <1>9, UpsertOwned DEF Connected
  <2>2. agenda' \in {<<>>, <<Do("select", id), Do("selected", id)>>}
    BY <1>9 DEF Connected, Take
  <2> QED
    BY <2>1, <2>2 DEF AgendaOf, Do
<1>10. ASSUME Cleared(who, g)
       PROVE  AgendaOf(agenda', upstream) /\ OwnedBy(reg', generation) /\ reg'.active = reg.active
  <2>1. reg' = reg
    BY <1>10 DEF Cleared
  <2>2. agenda' = [i \in 1..(2 * Len(reg.order)) |->
                    IF i % 2 = 1 THEN Do("remove", reg.order[(i + 1) \div 2])
                                 ELSE Do("removed", reg.order[i \div 2])]
    BY <1>10 DEF Cleared, Take
  <2>3. Len(agenda') = 2 * Len(reg.order) /\ Len(reg.order) \in Nat
    <3>1. Len(reg.order) \in Nat
      BY <1>1 DEF Registries
    <3>2. 2 * Len(reg.order) \in Nat
      BY <3>1
    <3> QED
      BY <2>2, <3>1, <3>2
  <2>4. \A k \in 1..Len(agenda') : agenda'[k].do \in {"remove", "removed"}
    BY <2>2, <2>3 DEF Do
  <2>5. agenda' # <<>> => 1 \in 1..Len(agenda')
    BY <2>2, <2>3
  <2> QED
    BY <1>4, <2>1, <2>4, <2>5 DEF AgendaOf
<1> QED
  BY <1>7, <1>8, <1>9, <1>10 DEF Frame

LEMMA GenInitially == Init => GenInv
  BY EmptyMap
  DEF Init, GenInv, AgendaOf, OwnedBy, Pending, NewRegistry, Registered

\* What is left of a section after its first step.
LEMMA DoneOwned ==
  ASSUME RegInv, GenInv, Done
  PROVE  AgendaOf(agenda', upstream) /\ ~Pending("end", agenda') /\ ~Pending("begin", agenda')
<1>1. /\ agenda \in Seq(Items) /\ agenda # <<>> /\ agenda' = Tail(agenda)
  BY DEF RegInv, AgendaInv, Done
<1>2. /\ Len(agenda') = Len(agenda) - 1
      /\ \A k \in 1..Len(agenda') : agenda'[k] = agenda[k + 1] /\ k + 1 \in 1..Len(agenda)
      /\ agenda' # <<>> => 1 \in 1..Len(agenda')
  BY <1>1, HeadTailProperties
<1>3. \A k \in 1..Len(agenda') : /\ agenda'[k].do = "upsert" => agenda'[k].target = 0
                                 /\ agenda'[k].do \notin {"begin", "end"}
  BY <1>2 DEF GenInv, AgendaOf
<1> QED
  BY <1>2, <1>3 DEF AgendaOf, Pending

LEMMA StepOwned ==
  ASSUME RegInv, GenInv, RegistryStep
  PROVE  GenInv'
<1>1. Done /\ UNCHANGED <<generation, upstream>>
  BY DEF RegistryStep, Step, linkVars
<1>2. reg \in Registries /\ generation \in Nat /\ OwnedBy(reg, generation)
  BY DEF RegInv, Good, AgendaInv, GenInv
<1>3. AgendaOf(agenda', upstream)
  BY <1>1, DoneOwned
<1>4. agenda \in Seq(Items) /\ agenda # <<>> /\ 1 \in 1..Len(agenda)
  BY <1>1 DEF RegInv, AgendaInv, Done
<1>5. OwnedBy(reg', generation) /\ (reg'.active => upstream)
  <2>1. CASE Step("upsert") /\ reg' = Upsert(reg, agenda[1].id, agenda[1].target)
    <3>1. agenda[1].target = 0 /\ ~Pending("end", agenda)
      BY <1>4, <2>1 DEF Step, GenInv, AgendaOf, Pending
    <3> QED
      BY <1>2, <2>1, <3>1, UpsertOwned DEF GenInv
  <2>2. CASE Step("remove") /\ reg' = Remove(reg, agenda[1].id)
    BY <1>2, <2>2, RemoveOwned DEF GenInv, Step, Pending
  <2>3. CASE Step("select") /\ reg' = Select(reg, agenda[1].id)
    BY <1>2, <2>3, SelectOwned DEF GenInv, Step, Pending
  <2>4. CASE Step("begin") /\ reg' = BeginGeneration(reg, generation)
    BY <1>2, <1>4, <2>4, GenerationOwned DEF GenInv, AgendaOf, Step
  <2>5. CASE Step("end") /\ reg' = EndGeneration(reg, generation)
    BY <1>2, <2>5, GenerationOwned
  <2> QED
    BY <2>1, <2>2, <2>3, <2>4, <2>5 DEF RegistryStep
<1> QED
  BY <1>1, <1>3, <1>5 DEF GenInv

\* The steps that announce a new owner come in three parts, the first a single step.
LEMMA ConcatThree ==
  ASSUME NEW S, NEW a \in Seq(S), NEW b \in Seq(S), NEW c \in Seq(S), Len(a) = 1
  PROVE  /\ Len(a \o b \o c) = 1 + Len(b) + Len(c)
         /\ \A k \in 1..(1 + Len(b) + Len(c)) :
              (a \o b \o c)[k] = IF k <= 1 THEN a[k]
                                 ELSE IF k <= 1 + Len(b) THEN b[k - 1]
                                 ELSE c[k - (1 + Len(b))]
<1>1. PICK ab \in Seq(S) : ab = a \o b
  BY ConcatProperties
<1>2. /\ Len(ab) = 1 + Len(b)
      /\ \A k \in 1..(1 + Len(b)) : ab[k] = IF k <= 1 THEN a[k] ELSE b[k - 1]
  <2>1. /\ Len(a \o b) = Len(a) + Len(b)
        /\ \A k \in 1..(Len(a) + Len(b)) :
             (a \o b)[k] = IF k <= Len(a) THEN a[k] ELSE b[k - Len(a)]
    BY ConcatProperties, Zenon
  <2> QED
    BY <1>1, <2>1
<1>3. /\ Len(ab \o c) = 1 + Len(b) + Len(c)
      /\ \A k \in 1..(1 + Len(b) + Len(c)) :
           (ab \o c)[k] = IF k <= 1 + Len(b) THEN ab[k] ELSE c[k - (1 + Len(b))]
  <2>1. /\ Len(ab \o c) = Len(ab) + Len(c)
        /\ \A k \in 1..(Len(ab) + Len(c)) :
             (ab \o c)[k] = IF k <= Len(ab) THEN ab[k] ELSE c[k - Len(ab)]
    BY ConcatProperties, Zenon
  <2> QED
    BY <1>2, <2>1
<1>4. Len(b) \in Nat /\ Len(c) \in Nat
  OBVIOUS
<1>5. ASSUME NEW k \in 1..(1 + Len(b) + Len(c))
      PROVE  (ab \o c)[k] = IF k <= 1 THEN a[k]
                            ELSE IF k <= 1 + Len(b) THEN b[k - 1]
                            ELSE c[k - (1 + Len(b))]
  BY <1>2, <1>3, <1>4, <1>5
<1> QED
  BY <1>1, <1>3, <1>5

\* An item of a section names this step and this context.
Listed(step, steps, i) ==
  \E k \in 1..Len(steps) : steps[k].do = step /\ steps[k].id = i

\* A new owner begins its generation and registers again what is registered.
LEMMA InstallAgenda ==
  ASSUME RegInv, InstallOwner
  PROVE  /\ agenda = <<>> /\ ~upstream /\ upstream' /\ UNCHANGED <<reg, open, told, raced, selector>>
         /\ agenda' # <<>> /\ agenda'[1].do = "begin"
         /\ \A k \in 1..Len(agenda') : k # 1 =>
              /\ agenda'[k].do \in {"upsert", "select"}
              /\ agenda'[k].do = "upsert" => /\ agenda'[k].id \in Registered(reg)
                                             /\ agenda'[k].target = reg.items[agenda'[k].id]
         /\ \A i \in Registered(reg) : Listed("upsert", agenda', i)
<1> DEFINE begin == <<Do("begin", NoId)>>
           seed == [i \in 1..Len(reg.order) |->
                     [do |-> "upsert", id |-> reg.order[i], target |-> reg.items[reg.order[i]]]]
           choose == IF reg.selected = NoId THEN <<>> ELSE <<Do("select", reg.selected)>>
           Later == {x \in Items : /\ x.do \in {"upsert", "select"}
                                   /\ x.do = "upsert" => /\ x.id \in Registered(reg)
                                                         /\ x.target = reg.items[x.id]}
<1>1. reg \in Registries /\ Coherent(reg) /\ Len(reg.order) \in Nat
  BY DEF RegInv, Good, Registries
<1>2. /\ agenda = <<>> /\ ~upstream /\ upstream' /\ UNCHANGED <<reg, open, told, raced, selector>>
      /\ agenda' = begin \o seed \o choose
  BY DEF InstallOwner, Take, RegInv, AgendaInv, busVars
<1>3. Len(begin) = 1 /\ begin[1].do = "begin" /\ begin \in Seq(Items)
  <2>1. Do("begin", NoId) \in Items /\ Do("begin", NoId).do = "begin"
    BY DoIsItem DEF Do
  <2> HIDE DEF Do, Items
  <2> QED
    BY <2>1
<1>4. seed \in Seq(Later)
  <2>1. ASSUME NEW i \in 1..Len(reg.order) PROVE seed[i] \in Later
    <3>1. reg.order[i] \in Ids /\ reg.order[i] \in Registered(reg)
      BY <1>1 DEF Registries, Coherent
    <3>2. reg.items[reg.order[i]] \in Nat
      BY <1>1, <3>1, ItemMapsClosed DEF Registries, Registered
    <3> QED
      BY <3>1, <3>2 DEF Items, Steps
  <2>2. seed \in [1..Len(reg.order) -> Later]
    BY <2>1
  <2> HIDE DEF seed, Later
  <2> QED
    BY <1>1, <2>2, IsASeq
<1>5. /\ Len(seed) = Len(reg.order)
      /\ \A i \in 1..Len(reg.order) : seed[i].do = "upsert" /\ seed[i].id = reg.order[i]
  BY <1>1
<1>6. choose \in Seq(Later)
  <2>1. reg.selected \in Ids \union {NoId}
    BY <1>1 DEF Registries
  <2>2. Do("select", reg.selected) \in Later
    BY <2>1 DEF Do, Items, Steps
  <2> HIDE DEF Later
  <2> QED
    BY <2>2
<1> HIDE DEF begin, seed, choose
<1>7. seed \in Seq(Items) /\ choose \in Seq(Items)
  BY <1>4, <1>6
<1> HIDE DEF Later
<1>8. Len(seed) \in Nat /\ Len(choose) \in Nat
  BY <1>4, <1>6
<1>9. /\ Len(agenda') = 1 + Len(seed) + Len(choose)
      /\ \A k \in 1..(1 + Len(seed) + Len(choose)) :
            agenda'[k] = IF k <= 1 THEN begin[k]
                         ELSE IF k <= 1 + Len(seed) THEN seed[k - 1]
                         ELSE choose[k - (1 + Len(seed))]
  <2> HIDE DEF Items
  <2> begin \in Seq(Items)
    BY <1>3
  <2> seed \in Seq(Items)
    BY <1>7
  <2> choose \in Seq(Items)
    BY <1>7
  <2> Len(begin) = 1
    BY <1>3
  <2>1. /\ Len(begin \o seed \o choose) = 1 + Len(seed) + Len(choose)
        /\ \A k \in 1..(1 + Len(seed) + Len(choose)) :
              (begin \o seed \o choose)[k] = IF k <= 1 THEN begin[k]
                                             ELSE IF k <= 1 + Len(seed) THEN seed[k - 1]
                                             ELSE choose[k - (1 + Len(seed))]
    BY ConcatThree, SMTT(60)
  <2>2. agenda' = begin \o seed \o choose
    BY <1>2
  <2> QED
    BY <2>1, <2>2, Zenon
<1>10. agenda'[1] = begin[1] /\ agenda' # <<>>
  <2>1. agenda' # <<>>
    BY <1>8, <1>9
  <2> QED
    BY <1>8, <1>9, <2>1
<1>11. ASSUME NEW k \in 1..Len(agenda'), k # 1 PROVE agenda'[k] \in Later
  <2>1. CASE k <= 1 + Len(seed)
    <3>1. agenda'[k] = seed[k - 1] /\ k - 1 \in 1..Len(seed)
      BY <1>8, <1>9, <1>11, <2>1
    <3> QED
      BY <1>4, <3>1
  <2>2. CASE k > 1 + Len(seed)
    <3>1. agenda'[k] = choose[k - (1 + Len(seed))] /\ k - (1 + Len(seed)) \in 1..Len(choose)
      BY <1>8, <1>9, <1>11, <2>2
    <3> QED
      BY <1>6, <3>1
  <2> QED
    BY <1>8, <1>9, <2>1, <2>2
<1>12. ASSUME NEW i \in Registered(reg) PROVE Listed("upsert", agenda', i)
  <2>1. PICK n \in 1..Len(reg.order) : reg.order[n] = i
    BY <1>1 DEF Coherent
  <2>2. n + 1 \in 1..Len(agenda') /\ agenda'[n + 1] = seed[n]
    <3>1. n + 1 \in 1..(1 + Len(seed) + Len(choose)) /\ ~(n + 1 <= 1) /\ n + 1 <= 1 + Len(seed)
          /\ (n + 1) - 1 = n
      BY <1>5, <1>8
    <3> QED
      BY <1>9, <3>1
  <2> QED
    BY <1>5, <2>1, <2>2 DEF Listed
<1> QED
  BY <1>2, <1>3, <1>10, <1>11, <1>12 DEF Later

LEMMA InstallOwned ==
  ASSUME RegInv, GenInv, InstallOwner
  PROVE  GenInv'
<1>1. ~reg.active /\ \A i \in Registered(reg) : reg.items[i] = 0
  BY InstallAgenda DEF GenInv, OwnedBy, Pending
<1>2. AgendaOf(agenda', upstream')
  <2> SUFFICES ASSUME NEW k \in 1..Len(agenda')
               PROVE  /\ agenda'[k].do = "upsert" => agenda'[k].target = 0
                      /\ k # 1 => agenda'[k].do \notin {"begin", "end"}
    BY InstallAgenda DEF AgendaOf
  <2> QED
    BY <1>1, InstallAgenda
<1> QED
  BY <1>1, <1>2, InstallAgenda DEF GenInv, OwnedBy

\* What the clean-up of a connection has to do.
LEMMA EndAgenda ==
  ASSUME RegInv, EndOwner
  PROVE  /\ agenda'[1].do = "end" /\ agenda' # <<>>
         /\ \A k \in 1..Len(agenda') : k # 1 => agenda'[k].do = "removed"
         /\ \A i \in 1..Len(reg.order) : i + 1 \in 1..Len(agenda')
                                         /\ agenda'[i + 1] = Do("removed", reg.order[i])
         /\ UNCHANGED <<reg, generation>>
<1>1. reg \in Registries /\ Len(reg.order) \in Nat
  BY DEF RegInv, Good, Registries
<1>2. agenda' = <<Do("end", NoId)>> \o Announce("removed", reg.order)
      /\ UNCHANGED <<reg, generation>>
  BY DEF EndOwner, Take
<1>3. /\ Announce("removed", reg.order) \in Seq(Items)
      /\ Len(Announce("removed", reg.order)) = Len(reg.order)
      /\ \A k \in 1..Len(reg.order) : Announce("removed", reg.order)[k].do = "removed"
  <2>1. ASSUME NEW i \in 1..Len(reg.order) PROVE Do("removed", reg.order[i]) \in Items
    <3>1. reg.order[i] \in Ids
      BY <1>1 DEF Registries
    <3> QED
      BY <3>1, DoIsItem
  <2>2. Announce("removed", reg.order) \in [1..Len(reg.order) -> Items]
    BY <2>1 DEF Announce
  <2>3. Announce("removed", reg.order) \in Seq(Items)
    BY <1>1, <2>2, IsASeq
  <2>4. \A k \in 1..Len(reg.order) : Announce("removed", reg.order)[k].do = "removed"
    BY DEF Announce, Do
  <2> QED
    BY <1>1, <2>2, <2>3, <2>4
<1> DEFINE end == <<Do("end", NoId)>>
           rest == Announce("removed", reg.order)
<1>4. end \in Seq(Items) /\ Len(end) = 1 /\ end[1].do = "end"
  <2>1. Do("end", NoId) \in Items /\ Do("end", NoId).do = "end"
    BY DoIsItem DEF Do
  <2> HIDE DEF Do, Items
  <2> QED
    BY <2>1
<1>5. /\ Len(agenda') = 1 + Len(reg.order)
      /\ \A k \in 1..(1 + Len(reg.order)) :
           agenda'[k] = IF k <= 1 THEN end[k] ELSE rest[k - 1]
  <2>1. agenda' = end \o rest /\ rest \in Seq(Items) /\ Len(rest) = Len(reg.order)
    BY <1>2, <1>3
  <2> HIDE DEF end, rest, Items
  <2>2. /\ Len(end \o rest) = Len(end) + Len(rest)
        /\ \A k \in 1..(Len(end) + Len(rest)) :
             (end \o rest)[k] = IF k <= Len(end) THEN end[k] ELSE rest[k - Len(end)]
    <3>1. end \in Seq(Items) /\ rest \in Seq(Items)
      BY <1>4, <2>1
    <3> QED
      BY <3>1, ConcatProperties
  <2> QED
    BY <1>4, <2>1, <2>2
<1> QED
  <2>1. \A k \in 1..Len(reg.order) : rest[k].do = "removed"
    BY <1>3
  <2>4. \A i \in 1..Len(reg.order) : rest[i] = Do("removed", reg.order[i])
    BY DEF Announce
  <2> HIDE DEF end, rest
  <2>2. agenda'[1] = end[1] /\ agenda' # <<>>
    BY <1>1, <1>4, <1>5
  <2>5. ASSUME NEW i \in 1..Len(reg.order)
        PROVE  i + 1 \in 1..Len(agenda') /\ agenda'[i + 1] = Do("removed", reg.order[i])
    <3>1. i + 1 \in 1..(1 + Len(reg.order)) /\ ~(i + 1 <= 1) /\ (i + 1) - 1 = i
      BY <1>1
    <3> QED
      BY <1>5, <2>4, <3>1
  <2>3. ASSUME NEW k \in 1..Len(agenda'), k # 1 PROVE agenda'[k].do = "removed"
    <3>1. agenda'[k] = rest[k - 1] /\ k - 1 \in 1..Len(reg.order)
      BY <1>1, <1>5, <2>3
    <3> QED
      BY <2>1, <3>1
  <2> QED
    BY <1>2, <1>4, <2>2, <2>3, <2>5

LEMMA EndOwned ==
  ASSUME RegInv, GenInv, EndOwner
  PROVE  GenInv'
<1>1. AgendaOf(agenda', upstream')
  BY EndAgenda DEF AgendaOf
<1> QED
  BY <1>1, EndAgenda DEF GenInv, Pending

LEMMA GenStepwise == RegInv /\ GenInv /\ [Next]_vars => GenInv'
<1> SUFFICES ASSUME RegInv, GenInv, [Next]_vars PROVE GenInv'
  OBVIOUS
<1>1. CASE UpstreamFrame
  BY <1>1, FrameOwned DEF UpstreamFrame
<1>2. CASE RegistryStep
  BY <1>2, StepOwned
<1>3. CASE AnnounceStep
  <2>1. Done /\ UNCHANGED <<reg, generation, upstream>> /\ ~Pending("end", agenda)
    BY <1>3 DEF AnnounceStep, Step, linkVars, Pending
  <2> QED
    BY <2>1, DoneOwned DEF GenInv
<1>4. CASE InstallOwner
  BY <1>4, InstallOwned
<1>5. CASE EndOwner
  BY <1>5, EndOwned
<1>6. ASSUME NEW r \in Replays, ReplayFrame(r) PROVE GenInv'
  BY <1>6, FrameOwned DEF ReplayFrame, linkVars
<1>7. ASSUME NEW s \in Selectors, NEW id \in Ids, SelectChoose(s, id) PROVE GenInv'
  BY <1>7, SelectOwned DEF SelectChoose, linkVars, RegInv, Good, GenInv
<1>8. CASE UNCHANGED <<dispatchVars, generation, upstream>>
  BY <1>8 DEF dispatchVars, GenInv
<1>9. ASSUME NEW r \in Replays, ReplayStart(r) \/ ReplayGivenUp(r) \/ ReplayTakes(r) \/ ReplayEnd(r)
      PROVE  UNCHANGED <<dispatchVars, generation, upstream>>
  BY <1>9 DEF ReplayStart, ReplayGivenUp, ReplayTakes, ReplayEnd, linkVars
<1>10. ASSUME NEW s \in Selectors, SelectGet(s) \/ SelectPublish(s)
       PROVE  UNCHANGED <<dispatchVars, generation, upstream>>
  BY <1>10 DEF SelectGet, SelectPublish, linkVars
<1>11. ASSUME NEW s \in Subscribers, Receive(s) \/ Unsubscribe(s)
       PROVE  UNCHANGED <<dispatchVars, generation, upstream>>
  BY <1>11 DEF Receive, Unsubscribe, linkVars
<1>12. ASSUME CloseBegin \/ CloseCancels \/ CloseEnd \/ CloseBus
       PROVE  UNCHANGED <<dispatchVars, generation, upstream>>
  BY <1>12 DEF CloseBegin, CloseCancels, CloseEnd, CloseBus, linkVars
<1>13. CASE UNCHANGED vars
  BY <1>13, <1>8 DEF vars, linkVars
<1> QED
  BY <1>1, <1>2, <1>3, <1>4, <1>5, <1>6, <1>7, <1>8, <1>9, <1>10, <1>11, <1>12, <1>13 DEF Next

(* Between two sections the registry has no context of a connection that   *)
(* has gone (app.go, readDebug; registry.go, EndGeneration).               *)
THEOREM EndedGenerationsAlwaysGone == Spec => []EndedGenerationsGone
<1>1. GenInv => EndedGenerationsGone
  BY DEF GenInv, OwnedBy, Pending, EndedGenerationsGone
<1> QED
  BY <1>1, RegInitially, RegStepwise, GenInitially, GenStepwise, PTL DEF Spec

-----------------------------------------------------------------------------
(***************************************************************************)
(* What subscribers know.  A registered context is known, or is still to   *)
(* be announced in the section that registered it.  What is still to be    *)
(* withdrawn is not registered, or will be removed before; what a new      *)
(* generation is seeded with is known already.                             *)
(***************************************************************************)
AnnouncedIn(steps, id) ==
  \E k \in 1..Len(steps) : steps[k].do \in {"added", "selected"} /\ steps[k].id = id

Ends(item, id) == item.do = "end" \/ (item.do = "remove" /\ item.id = id)

\* The announcements a section has yet to make agree with its registry steps.
AgendaTells(steps, r) ==
  \A k \in 1..Len(steps) :
    /\ steps[k].do = "upsert" => \A s \in open : steps[k].id \in told[s]
    /\ steps[k].do = "removed" =>
         /\ steps[k].id \notin Registered(r) \/ \E j \in 1..(k - 1) : Ends(steps[j], steps[k].id)
         /\ \A j \in 1..Len(steps) : steps[j].do \in {"end", "remove", "removed"}

Known(r, steps) ==
  \A s \in open : \A i \in Registered(r) : i \in told[s] \/ AnnouncedIn(steps, i)

BusInv == open \subseteq Subscribers /\ DOMAIN told = Subscribers

OwnerInv ==
  /\ Pending("end", agenda) => ~upstream
  /\ upstream \/ Pending("end", agenda) => Pending("begin", agenda) \/ reg.active

TellInv == BusInv /\ OwnerInv /\ Known(reg, agenda) /\ AgendaTells(agenda, reg)

LEMMA TellInitially == Init => TellInv
<1> SUFFICES ASSUME Init PROVE TellInv
  OBVIOUS
<1>1. Registered(reg) = {} /\ agenda = <<>> /\ ~upstream
  BY EmptyMap DEF Init, NewRegistry, Registered
<1>2. BusInv
  BY DEF Init, BusInv
<1> QED
  BY <1>1, <1>2 DEF TellInv, OwnerInv, Known, AgendaTells, Pending

\* How the methods of the registry change the set of registered contexts.
LEMMA UpsertAdds ==
  ASSUME NEW r \in Registries, NEW id, NEW t
  PROVE  /\ Registered(Upsert(r, id, t)) = IF Accepts(r, id) THEN Registered(r) \union {id}
                                           ELSE Registered(r)
         /\ Upsert(r, id, t).active = r.active
  BY DEF Upsert, Registered, Registries

LEMMA RemoveTakes ==
  ASSUME NEW r \in Registries, NEW id
  PROVE  /\ Registered(Remove(r, id)) = Registered(r) \ {id}
         /\ Remove(r, id).active = r.active
  BY DEF Remove, Registered, Registries

LEMMA SelectLeaves ==
  ASSUME NEW r \in Registries, NEW id
  PROVE  Registered(Select(r, id)) = Registered(r) /\ Select(r, id).active = r.active
  BY DEF Select, Registered, Registries

LEMMA GenerationClears ==
  ASSUME NEW r \in Registries, NEW g
  PROVE  /\ Registered(BeginGeneration(r, g)) \in {Registered(r), {}}
         /\ BeginGeneration(r, g).active
         /\ r.active /\ r.generation = g => Registered(EndGeneration(r, g)) = {}
         /\ Registered(EndGeneration(r, g)) \in {Registered(r), {}}
  BY EmptyMap DEF BeginGeneration, EndGeneration, Clear, Registered, Registries

LEMMA FrameTells ==
  ASSUME RegInv, GenInv, TellInv, NEW who, NEW g, Frame(who, g),
         UNCHANGED <<upstream, open, told>>
  PROVE  TellInv'
<1>1. reg \in Registries /\ Len(reg.order) \in Nat /\ \A i \in 1..Len(reg.order) : reg.order[i] \in Ids
  BY DEF RegInv, Good, Registries
<1>2. agenda = <<>>
  BY DEF Frame, Added, Removed, Connected, Cleared, Take, RegInv, AgendaInv
<1>3. /\ \A s \in open : \A i \in Registered(reg) : i \in told[s]
      /\ upstream => reg.active
  BY <1>2 DEF TellInv, Known, AnnouncedIn, OwnerInv, Pending
<1> DEFINE Goal == Known(reg', agenda') /\ AgendaTells(agenda', reg') /\ reg'.active = reg.active
                   /\ ~Pending("end", agenda')
<1>4. ASSUME NEW id \in Ids, NEW private \in BOOLEAN, Added(who, g, id, private) PROVE Goal
  <2>1. CASE reg' = reg /\ agenda' \in {<<>>, <<Do("added", id)>>}
    BY <1>3, <2>1 DEF Known, AgendaTells, Pending, Do
  <2>2. CASE reg' = Upsert(reg, id, g) /\ Accepts(reg, id) /\ agenda' = <<Do("added", id)>>
    <3>1. Registered(reg') = Registered(reg) \union {id} /\ reg'.active = reg.active
      BY <1>1, <2>2, UpsertAdds
    <3>2. AnnouncedIn(agenda', id)
      BY <2>2 DEF AnnouncedIn, Do
    <3>3. Known(reg', agenda')
      BY <1>3, <3>1, <3>2 DEF Known
    <3> QED
      BY <2>2, <3>1, <3>3 DEF AgendaTells, Pending, Do
  <2> QED
    BY <1>4, <2>1, <2>2 DEF Added, Take, Upsert
<1>5. ASSUME NEW id \in Ids, Removed(who, g, id) PROVE Goal
  <2>1. CASE reg' = reg /\ agenda' = <<>>
    BY <1>3, <2>1 DEF Known, AgendaTells, Pending
  <2>2. CASE reg' = Remove(reg, id) /\ agenda' = <<Do("removed", id)>>
    <3>1. Registered(reg') = Registered(reg) \ {id} /\ reg'.active = reg.active
      BY <1>1, <2>2, RemoveTakes
    <3>2. Known(reg', agenda')
      BY <1>3, <3>1 DEF Known
    <3> QED
      BY <2>2, <3>1, <3>2 DEF AgendaTells, Pending, Do
  <2> QED
    BY <1>5, <2>1, <2>2 DEF Removed, Take
<1>6. ASSUME NEW id \in Ids, Connected(who, g, id) PROVE Goal
  <2>1. /\ agenda' \in {<<>>, <<Do("select", id), Do("selected", id)>>}
        /\ reg' = reg \/ (reg' = Upsert(reg, id, g) /\ Matches(reg, g) /\ id \notin Registered(reg))
        /\ Matches(reg, g) /\ Accepts(reg, id) => agenda' # <<>>
    BY <1>6 DEF Connected, Take
  <2>2. Registered(reg') = Registered(reg)
        \/ (Registered(reg') = Registered(reg) \union {id} /\ agenda' # <<>>)
    BY <1>1, <2>1, UpsertAdds
  <2>3. reg'.active = reg.active
    BY <1>1, <2>1, UpsertAdds
  <2>4. agenda' # <<>> => AnnouncedIn(agenda', id)
    <3>1. ASSUME agenda' = <<Do("select", id), Do("selected", id)>> PROVE AnnouncedIn(agenda', id)
      <4>1. 2 \in 1..Len(agenda') /\ agenda'[2] = Do("selected", id)
        BY <3>1
      <4> QED
        BY <4>1 DEF AnnouncedIn, Do
    <3> QED
      BY <2>1, <3>1
  <2>5. Known(reg', agenda')
    BY <1>3, <2>2, <2>4 DEF Known
  <2> QED
    BY <2>1, <2>3, <2>5 DEF AgendaTells, Pending, Do
<1>7. ASSUME Cleared(who, g) PROVE Goal
  <2>1. reg' = reg /\ agenda' = [i \in 1..(2 * Len(reg.order)) |->
                    IF i % 2 = 1 THEN Do("remove", reg.order[(i + 1) \div 2])
                                 ELSE Do("removed", reg.order[i \div 2])]
    BY <1>7 DEF Cleared, Take
  <2>2. Len(agenda') = 2 * Len(reg.order)
    <3>1. 2 * Len(reg.order) \in Nat
      BY <1>1
    <3> QED
      BY <2>1, <3>1
  <2>3. \A k \in 1..Len(agenda') : agenda'[k].do \in {"remove", "removed"}
    BY <2>1, <2>2 DEF Do
  <2>4. ASSUME NEW k \in 1..Len(agenda'), agenda'[k].do = "removed"
        PROVE  \E j \in 1..(k - 1) : Ends(agenda'[j], agenda'[k].id)
    <3>1. k % 2 # 1 /\ agenda'[k].id = reg.order[k \div 2]
      BY <2>1, <2>2, <2>4 DEF Do
    <3>2. k - 1 \in 1..(k - 1) /\ (k - 1) % 2 = 1 /\ ((k - 1) + 1) \div 2 = k \div 2
          /\ k - 1 \in 1..Len(agenda')
      BY <1>1, <2>2, <3>1
    <3>3. agenda'[k - 1] = Do("remove", reg.order[k \div 2])
      BY <2>1, <2>2, <3>2
    <3>4. Ends(agenda'[k - 1], agenda'[k].id)
      BY <3>1, <3>3 DEF Ends, Do
    <3> QED
      BY <3>2, <3>4
  <2>5. agenda' # <<>> => 1 \in 1..Len(agenda')
    BY <1>1, <2>1, <2>2
  <2>6. AgendaTells(agenda', reg')
    BY <2>3, <2>4 DEF AgendaTells
  <2>7. Known(reg', agenda') /\ reg'.active = reg.active
    BY <1>3, <2>1 DEF Known
  <2> QED
    BY <2>3, <2>5, <2>6, <2>7 DEF Pending
<1>8. Goal
  BY <1>4, <1>5, <1>6, <1>7 DEF Frame
<1> HIDE DEF Goal
<1>9. Known(reg, agenda)' /\ AgendaTells(agenda, reg)'
  BY <1>8 DEF Goal, Known, AgendaTells
<1>10. OwnerInv' /\ BusInv'
  BY <1>3, <1>8 DEF Goal, OwnerInv, BusInv, TellInv, Pending
<1> QED
  BY <1>9, <1>10 DEF TellInv

\* Positions in what is left of a section.
LEMMA TailIndex ==
  ASSUME RegInv, Done
  PROVE  /\ Len(agenda) \in Nat /\ 1 \in 1..Len(agenda) /\ agenda[1] \in Items
         /\ Len(agenda') = Len(agenda) - 1
         /\ \A k \in 1..Len(agenda') : agenda'[k] = agenda[k + 1] /\ k + 1 \in 1..Len(agenda)
         /\ \A k \in 1..Len(agenda) : k # 1 => k - 1 \in 1..Len(agenda') /\ agenda'[k - 1] = agenda[k]
<1>1. agenda \in Seq(Items) /\ agenda # <<>> /\ agenda' = Tail(agenda)
  BY DEF RegInv, AgendaInv, Done
<1>2. /\ Len(agenda) \in Nat /\ 1 \in 1..Len(agenda) /\ agenda[1] \in Items
      /\ Len(agenda') = Len(agenda) - 1
      /\ \A k \in 1..Len(agenda') : agenda'[k] = agenda[k + 1]
  BY <1>1, HeadTailProperties
<1>3. \A k \in 1..Len(agenda) : k # 1 => k - 1 \in 1..Len(agenda') /\ (k - 1) + 1 = k
  BY <1>2
<1> QED
  BY <1>2, <1>3

\* What is left of the announcements after a first step that keeps the promises
\* for the rest.
LEMMA RestTells ==
  ASSUME RegInv, TellInv, Done, NEW r,
         Registered(r) \subseteq Registered(reg) \/ agenda[1].do = "upsert",
         \A i : Ends(agenda[1], i) => i \notin Registered(r)
  PROVE  AgendaTells(agenda', r)
<1> SUFFICES ASSUME NEW k \in 1..Len(agenda')
             PROVE  /\ agenda'[k].do = "upsert" => \A s \in open : agenda'[k].id \in told[s]
                    /\ agenda'[k].do = "removed" =>
                         /\ agenda'[k].id \notin Registered(r)
                            \/ \E j \in 1..(k - 1) : Ends(agenda'[j], agenda'[k].id)
                         /\ \A j \in 1..Len(agenda') : agenda'[j].do \in {"end", "remove", "removed"}
  BY DEF AgendaTells
<1>1. agenda'[k] = agenda[k + 1] /\ k + 1 \in 1..Len(agenda)
  BY TailIndex
<1>2. agenda'[k].do = "upsert" => \A s \in open : agenda'[k].id \in told[s]
  BY <1>1 DEF TellInv, AgendaTells
<1>3. ASSUME agenda'[k].do = "removed"
      PROVE  /\ agenda'[k].id \notin Registered(r)
                \/ \E j \in 1..(k - 1) : Ends(agenda'[j], agenda'[k].id)
             /\ \A j \in 1..Len(agenda') : agenda'[j].do \in {"end", "remove", "removed"}
  <2>1. /\ agenda[k + 1].id \notin Registered(reg) \/ \E j \in 1..k : Ends(agenda[j], agenda[k + 1].id)
        /\ \A j \in 1..Len(agenda) : agenda[j].do \in {"end", "remove", "removed"}
    <3>1. (k + 1) - 1 = k
      OBVIOUS
    <3> QED
      BY <1>1, <1>3, <3>1 DEF TellInv, AgendaTells
  <2>2. \A j \in 1..Len(agenda') : agenda'[j].do \in {"end", "remove", "removed"}
    BY <2>1, TailIndex
  <2>3. Registered(r) \subseteq Registered(reg)
    BY <2>1, TailIndex
  <2>4. ASSUME NEW j \in 1..k, Ends(agenda[j], agenda[k + 1].id)
        PROVE  agenda'[k].id \notin Registered(r)
               \/ \E l \in 1..(k - 1) : Ends(agenda'[l], agenda'[k].id)
    <3>1. CASE j = 1
      BY <1>1, <2>4, <3>1
    <3>2. CASE j # 1
      <4>1. j - 1 \in 1..(k - 1) /\ j \in 1..Len(agenda)
        BY <1>1, <3>2, TailIndex
      <4>2. agenda'[j - 1] = agenda[j]
        BY <3>2, <4>1, TailIndex
      <4> QED
        BY <1>1, <2>4, <4>1, <4>2
    <3> QED
      BY <3>1, <3>2
  <2> QED
    BY <1>1, <2>1, <2>2, <2>3, <2>4
<1> QED
  BY <1>2, <1>3

LEMMA StepTells ==
  ASSUME RegInv, GenInv, TellInv, RegistryStep
  PROVE  TellInv'
<1>1. Done /\ UNCHANGED <<generation, upstream, open, told>>
  BY DEF RegistryStep, Step, linkVars, busVars
<1>2. reg \in Registries /\ generation \in Nat /\ OwnedBy(reg, generation)
  BY DEF RegInv, Good, AgendaInv, GenInv
<1>3. /\ 1 \in 1..Len(agenda) /\ agenda # <<>>
      /\ agenda[1].do \notin {"added", "selected"}
      /\ \A k \in 1..Len(agenda) : k # 1 => k - 1 \in 1..Len(agenda') /\ agenda'[k - 1] = agenda[k]
  BY <1>1, TailIndex DEF RegistryStep, Step, Done
<1>4. \A i : AnnouncedIn(agenda, i) => AnnouncedIn(agenda', i)
  BY <1>3 DEF AnnouncedIn
<1>5. ~Pending("end", agenda') /\ ~Pending("begin", agenda')
  BY <1>1, DoneOwned
<1> DEFINE Goal == /\ Known(reg', agenda')
                   /\ Registered(reg') \subseteq Registered(reg) \/ agenda[1].do = "upsert"
                   /\ \A i : Ends(agenda[1], i) => i \notin Registered(reg')
                   /\ upstream => reg'.active
<1>6. Known(reg, agenda) /\ AgendaTells(agenda, reg) /\ OwnerInv
  BY DEF TellInv
<1>7. upstream /\ agenda[1].do # "begin" => reg.active
  BY <1>6 DEF OwnerInv, Pending
<1>8. ASSUME Step("upsert") /\ reg' = Upsert(reg, agenda[1].id, agenda[1].target)
      PROVE  Goal
  <2>1. Registered(reg') \subseteq Registered(reg) \union {agenda[1].id} /\ reg'.active = reg.active
    BY <1>2, <1>8, UpsertAdds
  <2>2. \A s \in open : agenda[1].id \in told[s]
    BY <1>3, <1>6, <1>8 DEF Step, AgendaTells
  <2>3. Known(reg', agenda')
    BY <1>4, <1>6, <2>1, <2>2 DEF Known
  <2>4. agenda[1].do = "upsert"
    BY <1>8 DEF Step
  <2>5. \A i : Ends(agenda[1], i) => i \notin Registered(reg')
    BY <2>1, <2>4 DEF Ends
  <2> QED
    BY <1>7, <2>1, <2>3, <2>4, <2>5
<1>9. ASSUME Step("remove") /\ reg' = Remove(reg, agenda[1].id)
      PROVE  Goal
  <2>1. Registered(reg') = Registered(reg) \ {agenda[1].id} /\ reg'.active = reg.active
    BY <1>2, <1>9, RemoveTakes
  <2>2. Known(reg', agenda')
    BY <1>4, <1>6, <2>1 DEF Known
  <2>3. agenda[1].do = "remove"
    BY <1>9 DEF Step
  <2>4. \A i : Ends(agenda[1], i) => i \notin Registered(reg')
    BY <2>1, <2>3 DEF Ends
  <2> QED
    BY <1>7, <2>1, <2>2, <2>3, <2>4
<1>10. ASSUME Step("select") /\ reg' = Select(reg, agenda[1].id)
      PROVE  Goal
  <2>1. Registered(reg') = Registered(reg) /\ reg'.active = reg.active
    BY <1>2, <1>10, SelectLeaves
  <2>2. Known(reg', agenda')
    BY <1>4, <1>6, <2>1 DEF Known
  <2>3. agenda[1].do = "select"
    BY <1>10 DEF Step
  <2>4. \A i : Ends(agenda[1], i) => i \notin Registered(reg')
    BY <2>1, <2>3 DEF Ends
  <2> QED
    BY <1>7, <2>1, <2>2, <2>3, <2>4
<1>11. ASSUME Step("begin") /\ reg' = BeginGeneration(reg, generation)
      PROVE  Goal
  <2>1. Registered(reg') \subseteq Registered(reg) /\ reg'.active
    BY <1>2, <1>11, GenerationClears
  <2>2. Known(reg', agenda')
    BY <1>4, <1>6, <2>1 DEF Known
  <2>3. agenda[1].do = "begin"
    BY <1>11 DEF Step
  <2>4. \A i : Ends(agenda[1], i) => i \notin Registered(reg')
    BY <2>1, <2>3 DEF Ends
  <2> QED
    BY <2>1, <2>2, <2>3, <2>4
<1>12. ASSUME Step("end") /\ reg' = EndGeneration(reg, generation)
      PROVE  Goal
  <2>1. Pending("end", agenda) /\ ~Pending("begin", agenda)
    BY <1>3, <1>12 DEF Step, Pending
  <2>2. ~upstream /\ reg.active /\ reg.generation = generation
    BY <1>2, <1>6, <2>1 DEF OwnerInv, OwnedBy
  <2>3. Registered(reg') = {}
    BY <1>2, <1>12, <2>2, GenerationClears
  <2>4. Known(reg', agenda')
    BY <2>3 DEF Known
  <2> QED
    BY <2>2, <2>3, <2>4
<1>13. Goal
  BY <1>8, <1>9, <1>10, <1>11, <1>12 DEF RegistryStep
<1>14. AgendaTells(agenda', reg')
  BY <1>1, <1>13, RestTells
<1> HIDE DEF Goal
<1>15. Known(reg, agenda)' /\ AgendaTells(agenda, reg)'
  BY <1>1, <1>13, <1>14 DEF Goal, Known, AgendaTells
<1>16. OwnerInv' /\ BusInv'
  BY <1>1, <1>5, <1>13 DEF Goal, OwnerInv, BusInv, TellInv, Pending
<1> QED
  BY <1>15, <1>16 DEF TellInv

\* What a subscriber that is still served knows after an event.
LEMMA PublishTells ==
  ASSUME BusInv, NEW kind, NEW id, Publish(kind, id)
  PROVE  /\ BusInv' /\ open' \subseteq open
         /\ \A s \in open' : told'[s] = Learn(told[s], kind, id)
  BY DEF BusInv, Publish

LEMMA AnnounceTells ==
  ASSUME RegInv, GenInv, TellInv, AnnounceStep
  PROVE  TellInv'
<1>1. PICK kind \in {"added", "selected", "removed"}, found \in Ids \union {NoId} :
        /\ Step(kind) /\ Publish(kind, found)
        /\ found = IF kind = "selected" /\ agenda[1].id \notin Registered(reg) THEN NoId
                   ELSE agenda[1].id
        /\ UNCHANGED <<reg, generation, upstream>>
  <2>1. agenda # <<>> => agenda[1] \in Items
    BY DEF RegInv, AgendaInv
  <2> QED
    BY <2>1 DEF AnnounceStep, Step, Done, Items, linkVars
<1>2. Done /\ agenda[1].do = kind /\ agenda # <<>>
  BY <1>1 DEF Step, Done
<1>3. BusInv' /\ open' \subseteq open /\ \A s \in open' : told'[s] = Learn(told[s], kind, found)
  BY <1>1, PublishTells DEF TellInv
<1>4. reg \in Registries /\ Registered(reg) \subseteq Ids /\ NoId \notin Ids
  BY RegistryAssumption, ItemMapsClosed DEF RegInv, Good, Registries, Registered
<1>5. ~Pending("end", agenda') /\ ~Pending("begin", agenda') /\ ~Pending("begin", agenda)
  BY <1>2, DoneOwned DEF Pending
<1>6. Known(reg, agenda) /\ AgendaTells(agenda, reg) /\ OwnerInv
  BY DEF TellInv
<1>7. /\ 1 \in 1..Len(agenda)
      /\ \A k \in 1..Len(agenda) : k # 1 => k - 1 \in 1..Len(agenda') /\ agenda'[k - 1] = agenda[k]
      /\ \A k \in 1..Len(agenda') : agenda'[k] = agenda[k + 1] /\ k + 1 \in 1..Len(agenda)
  BY <1>2, TailIndex
<1>8. kind = "removed" => /\ agenda[1].id \notin Registered(reg)
                          /\ \A k \in 1..Len(agenda) : agenda[k].do # "upsert"
  BY <1>2, <1>6, <1>7 DEF AgendaTells
<1>9. Known(reg, agenda)'
  <2> SUFFICES ASSUME NEW s \in open', NEW i \in Registered(reg)
               PROVE  i \in told'[s] \/ AnnouncedIn(agenda', i)
    BY <1>1 DEF Known, AnnouncedIn
  <2>1. i # NoId /\ s \in open /\ (i \in told[s] \/ AnnouncedIn(agenda, i))
    BY <1>3, <1>4, <1>6 DEF Known
  <2>2. CASE i \in told[s]
    <3>1. kind = "removed" => found # i
      BY <1>1, <1>8
    <3> QED
      BY <1>3, <2>1, <2>2, <3>1 DEF Learn
  <2>3. CASE AnnouncedIn(agenda, i)
    <3>1. PICK k \in 1..Len(agenda) : agenda[k].do \in {"added", "selected"} /\ agenda[k].id = i
      BY <2>3 DEF AnnouncedIn
    <3>2. CASE k = 1
      <4>1. kind # "removed" /\ found = i
        BY <1>1, <1>2, <3>1, <3>2
      <4> QED
        BY <1>3, <2>1, <4>1 DEF Learn
    <3>3. CASE k # 1
      BY <1>7, <3>1, <3>3 DEF AnnouncedIn
    <3> QED
      BY <3>2, <3>3
  <2> QED
    BY <2>1, <2>2, <2>3
<1>10. AgendaTells(agenda, reg)'
  <2>1. AgendaTells(agenda', reg)
    BY <1>1, <1>2, RestTells DEF Ends
  <2>2. ASSUME NEW k \in 1..Len(agenda'), agenda'[k].do = "upsert", NEW s \in open'
        PROVE  agenda'[k].id \in told'[s]
    <3>1. agenda'[k].id \in told[s] /\ kind # "removed"
      BY <1>3, <1>7, <1>8, <2>1, <2>2 DEF AgendaTells
    <3>2. agenda'[k].id # NoId
      <4>1. agenda \in Seq(Items) /\ k + 1 \in 1..Len(agenda)
        BY <1>7 DEF RegInv, AgendaInv
      <4>2. agenda'[k] \in Items
        BY <1>7, <4>1
      <4> QED
        BY <1>4, <2>2, <4>2 DEF Items
    <3> QED
      BY <1>3, <2>2, <3>1, <3>2 DEF Learn
  <2> QED
    BY <1>1, <2>1, <2>2 DEF AgendaTells
<1>11. OwnerInv'
  BY <1>1, <1>5, <1>6 DEF OwnerInv, Pending
<1> QED
  BY <1>3, <1>9, <1>10, <1>11 DEF TellInv

LEMMA InstallTells ==
  ASSUME RegInv, GenInv, TellInv, InstallOwner
  PROVE  TellInv'
<1>1. agenda = <<>> /\ agenda' # <<>> /\ agenda'[1].do = "begin" /\ UNCHANGED <<reg, open, told>>
  BY InstallAgenda
<1>2. \A k \in 1..Len(agenda') : /\ agenda'[k].do \in {"begin", "upsert", "select"}
                                 /\ agenda'[k].do = "upsert" => agenda'[k].id \in Registered(reg)
  BY InstallAgenda
<1>3. \A s \in open : \A i \in Registered(reg) : i \in told[s]
  BY <1>1 DEF TellInv, Known, AnnouncedIn
<1>4. Known(reg, agenda)' /\ AgendaTells(agenda, reg)'
  BY <1>1, <1>2, <1>3 DEF Known, AgendaTells
<1>5. OwnerInv'
  BY <1>1 DEF OwnerInv, Pending
<1> QED
  BY <1>1, <1>4, <1>5 DEF TellInv, BusInv

LEMMA EndTells ==
  ASSUME RegInv, GenInv, TellInv, EndOwner
  PROVE  TellInv'
<1>1. agenda = <<>> /\ upstream /\ ~upstream' /\ UNCHANGED <<reg, open, told>>
  BY DEF EndOwner, Take, RegInv, AgendaInv, busVars
<1>2. /\ agenda'[1].do = "end" /\ agenda' # <<>>
      /\ \A k \in 1..Len(agenda') : k # 1 => agenda'[k].do = "removed"
  BY EndAgenda
<1>3. reg.active /\ \A s \in open : \A i \in Registered(reg) : i \in told[s]
  BY <1>1 DEF TellInv, Known, AnnouncedIn, OwnerInv, Pending
<1>4. \A k \in 1..Len(agenda') : k # 1 => 1 \in 1..(k - 1)
  <2>1. Len(agenda') \in Nat
    BY EndOwnerKeepsGood DEF RegInv, AgendaInv
  <2> QED
    BY <2>1
<1>5. Known(reg, agenda)' /\ AgendaTells(agenda, reg)'
  BY <1>1, <1>2, <1>3, <1>4 DEF Known, AgendaTells, Ends
<1> QED
  BY <1>1, <1>2, <1>3, <1>5 DEF TellInv, BusInv, OwnerInv, Pending

LEMMA TellStepwise == RegInv /\ GenInv /\ TellInv /\ [Next]_vars => TellInv'
<1> SUFFICES ASSUME RegInv, GenInv, TellInv, [Next]_vars PROVE TellInv'
  OBVIOUS
<1>1. CASE UpstreamFrame
  BY <1>1, FrameTells DEF UpstreamFrame, busVars
<1>2. CASE RegistryStep
  BY <1>2, StepTells
<1>3. CASE AnnounceStep
  BY <1>3, AnnounceTells
<1>4. CASE InstallOwner
  BY <1>4, InstallTells
<1>5. CASE EndOwner
  BY <1>5, EndTells
<1>6. ASSUME NEW r \in Replays, ReplayFrame(r) PROVE TellInv'
  BY <1>6, FrameTells DEF ReplayFrame, linkVars, busVars
<1>7. ASSUME NEW s \in Selectors, NEW id \in Ids, SelectChoose(s, id) PROVE TellInv'
  <2>1. Registered(reg') = Registered(reg) /\ reg'.active = reg.active
    BY <1>7, SelectLeaves DEF SelectChoose, RegInv, Good
  <2> QED
    BY <1>7, <2>1
    DEF SelectChoose, linkVars, busVars, TellInv, Known, AgendaTells, OwnerInv, BusInv, Pending, AnnouncedIn
<1>8. ASSUME NEW s \in Selectors, SelectPublish(s) PROVE TellInv'
  <2>1. Publish("selected", selector[s].found) /\ UNCHANGED <<reg, agenda, upstream>>
    BY <1>8 DEF SelectPublish, dispatchVars, linkVars
  <2>2. BusInv' /\ open' \subseteq open
        /\ \A t \in open' : told'[t] = Learn(told[t], "selected", selector[s].found)
    BY <2>1, PublishTells DEF TellInv
  <2>3. \A t \in open' : told[t] \ {NoId} \subseteq told'[t]
    BY <2>2 DEF Learn
  <2>4. NoId \notin Registered(reg) /\ agenda \in Seq(Items) /\ NoId \notin Ids
    BY RegistryAssumption, ItemMapsClosed DEF RegInv, Good, Registries, Registered, AgendaInv
  <2>5. Known(reg, agenda)'
    BY <2>1, <2>2, <2>3, <2>4 DEF TellInv, Known, AnnouncedIn
  <2>6. \A k \in 1..Len(agenda) : agenda[k].do = "upsert" => agenda[k].id # NoId
    <3>1. \A k \in 1..Len(agenda) : agenda[k] \in Items
      <4> HIDE DEF Items
      <4> QED
        BY <2>4
    <3> QED
      BY <2>4, <3>1 DEF Items
  <2>7. AgendaTells(agenda, reg)'
    BY <2>1, <2>2, <2>3, <2>6 DEF TellInv, AgendaTells
  <2> QED
    BY <2>1, <2>2, <2>5, <2>7 DEF TellInv, OwnerInv, Pending
<1>9. ASSUME NEW s \in Subscribers, Unsubscribe(s) PROVE TellInv'
  <2>1. /\ UNCHANGED <<reg, agenda, upstream>> /\ open' \subseteq open /\ BusInv'
        /\ \A t \in open' : told'[t] = told[t]
    BY <1>9 DEF Unsubscribe, dispatchVars, linkVars, TellInv, BusInv
  <2> QED
    BY <2>1 DEF TellInv, Known, AgendaTells, OwnerInv, Pending, AnnouncedIn
<1>10. CASE CloseBus
  <2>1. UNCHANGED <<reg, agenda, upstream>> /\ open' = {} /\ BusInv'
    BY <1>10 DEF CloseBus, dispatchVars, linkVars, BusInv
  <2> QED
    BY <2>1 DEF TellInv, Known, AgendaTells, OwnerInv, Pending
<1>11. CASE UNCHANGED <<reg, agenda, upstream, open, told>>
  BY <1>11 DEF TellInv, Known, AgendaTells, OwnerInv, BusInv, Pending, AnnouncedIn
<1>12. ASSUME NEW r \in Replays, ReplayStart(r) \/ ReplayGivenUp(r) \/ ReplayTakes(r) \/ ReplayEnd(r)
       PROVE  UNCHANGED <<reg, agenda, upstream, open, told>>
  BY <1>12 DEF ReplayStart, ReplayGivenUp, ReplayTakes, ReplayEnd, dispatchVars, linkVars, busVars
<1>13. ASSUME NEW s \in Selectors, SelectGet(s)
       PROVE  UNCHANGED <<reg, agenda, upstream, open, told>>
  BY <1>13 DEF SelectGet, dispatchVars, linkVars, busVars
<1>14. ASSUME NEW s \in Subscribers, Receive(s)
       PROVE  UNCHANGED <<reg, agenda, upstream, open, told>>
  BY <1>14 DEF Receive, dispatchVars, linkVars
<1>15. ASSUME CloseBegin \/ CloseCancels \/ CloseEnd
       PROVE  UNCHANGED <<reg, agenda, upstream, open, told>>
  BY <1>15 DEF CloseBegin, CloseCancels, CloseEnd, dispatchVars, linkVars, busVars
<1>16. CASE UNCHANGED vars
  BY <1>16, <1>11 DEF vars, dispatchVars, linkVars, busVars
<1> QED
  BY <1>1, <1>2, <1>3, <1>4, <1>5, <1>6, <1>7, <1>8, <1>9, <1>10, <1>11, <1>12, <1>13, <1>14,
     <1>15, <1>16
  DEF Next

(* A subscriber that is still served has been told of every registered     *)
(* context, whatever frames, connections, replays and calls of             *)
(* SelectContext there are and however small its channel (service.go,      *)
(* eventBus.publish; app.go, the announcements under dispatchMu).          *)
THEOREM NoContextMissedEver == Spec => []NoContextMissed
<1>1. TellInv => NoContextMissed
  BY DEF TellInv, Known, AnnouncedIn, NoContextMissed
<1> QED
  BY <1>1, RegInitially, RegStepwise, GenInitially, GenStepwise, TellInitially, TellStepwise, PTL
  DEF Spec

-----------------------------------------------------------------------------
(***************************************************************************)
(* What subscribers believe beyond the registry.  A context that is known  *)
(* and not registered was announced unregistered, is still to be withdrawn *)
(* in this section, or is still to be registered by the seeding of a new   *)
(* generation.  Nothing leaves the registry but into the announcements of  *)
(* the section that removes it; and what is seeded was registered when the *)
(* section began, so the registry has room for it.                         *)
(***************************************************************************)
Explained(r, steps) ==
  \A s \in open : \A i \in told[s] :
    i \in Registered(r) \/ i \in raced \/ Listed("removed", steps, i) \/ Listed("upsert", steps, i)

RemovalsFollow(steps) ==
  \A k \in 1..Len(steps) : steps[k].do = "remove" =>
    \E j \in 1..Len(steps) : j > k /\ steps[j].do = "removed" /\ steps[j].id = steps[k].id

\* What a step that empties the registry leaves to say, or to register again.
Accounted(r, steps) ==
  /\ Pending("end", steps) => \A i \in Registered(r) : Listed("removed", steps, i)
  /\ Pending("begin", steps) => \A i \in Registered(r) : Listed("upsert", steps, i)

Fits(r, steps) ==
  \E F \in SUBSET Ids :
    /\ IsFiniteSet(F) /\ Cardinality(F) <= Capacity /\ Registered(r) \subseteq F
    /\ \A k \in 1..Len(steps) : steps[k].do = "upsert" => steps[k].id \in F

SelectorInv ==
  selector \in [Selectors -> [at : {"idle", "get", "publish", "done"},
                              id : Ids \union {NoId}, found : Ids \union {NoId}]]

ExceedInv == /\ Explained(reg, agenda) /\ RemovalsFollow(agenda)
             /\ Accounted(reg, agenda) /\ Fits(reg, agenda)
             /\ SelectorInv

\* The registry itself fits.
LEMMA FitsAlone ==
  ASSUME NEW r, Good(r), NEW steps,
         \A k \in 1..Len(steps) : steps[k].do = "upsert" => steps[k].id \in Registered(r)
  PROVE  Fits(r, steps)
<1>1. Registered(r) \subseteq Ids
  BY ItemMapsClosed DEF Good, Registries, Registered
<1>2. IsFiniteSet(Registered(r)) /\ Cardinality(Registered(r)) <= Capacity
  <2>1. Coherent(r) /\ Len(r.order) <= Capacity
    BY DEF Good, Coherent
  <2> QED
    BY <2>1, OrderCounts
<1> QED
  BY <1>1, <1>2 DEF Fits

\* What fits is accepted.
LEMMA FitsAccepts ==
  ASSUME NEW r, NEW F \in SUBSET Ids, IsFiniteSet(F), Cardinality(F) <= Capacity,
         Registered(r) \subseteq F, NEW id \in F
  PROVE  Accepts(r, id)
<1>1. CASE id \in Registered(r)
  BY <1>1 DEF Accepts
<1>2. CASE id \notin Registered(r)
  <2>1. /\ IsFiniteSet(Registered(r)) /\ Cardinality(Registered(r)) <= Cardinality(F)
        /\ Cardinality(Registered(r)) # Cardinality(F)
    BY <1>2, FS_Subset
  <2>2. Cardinality(Registered(r)) \in Nat /\ Cardinality(F) \in Nat /\ Capacity \in Nat
    BY <2>1, FS_CardinalityType, RegistryAssumption
  <2> QED
    BY <2>1, <2>2 DEF Accepts
<1> QED
  BY <1>1, <1>2

LEMMA ExceedInitially == Init => ExceedInv
<1> SUFFICES ASSUME Init PROVE ExceedInv
  OBVIOUS
<1>1. agenda = <<>> /\ \A s \in open : told[s] = {}
  BY DEF Init
<1>2. Good(reg)
  BY RegInitially DEF RegInv
<1>3. Fits(reg, agenda)
  BY <1>1, <1>2, FitsAlone
<1>4. SelectorInv
  BY DEF Init, SelectorInv
<1> QED
  BY <1>1, <1>3, <1>4 DEF ExceedInv, Explained, RemovalsFollow, Accounted, Pending

LEMMA FrameExceeds ==
  ASSUME RegInv, RegInv', ExceedInv, NEW who, NEW g, Frame(who, g),
         UNCHANGED <<selector, open, told, raced>>
  PROVE  ExceedInv'
<1>1. reg \in Registries /\ Len(reg.order) \in Nat /\ Coherent(reg) /\ Good(reg')
  BY DEF RegInv, Good, Registries
<1>2. agenda = <<>>
  BY DEF Frame, Added, Removed, Connected, Cleared, Take, RegInv, AgendaInv
<1>3. \A s \in open : \A i \in told[s] : i \in Registered(reg) \/ i \in raced
  BY <1>2 DEF ExceedInv, Explained, Listed
<1> DEFINE Goal == /\ \A i \in Registered(reg) : i \in Registered(reg') \/ Listed("removed", agenda', i)
                   /\ \A k \in 1..Len(agenda') : agenda'[k].do \notin {"begin", "end", "upsert"}
                   /\ agenda' # <<>> => 1 \in 1..Len(agenda')
                   /\ RemovalsFollow(agenda')
<1>4. ASSUME NEW id \in Ids, NEW private \in BOOLEAN, Added(who, g, id, private) PROVE Goal
  <2>1. agenda' \in {<<>>, <<Do("added", id)>>} /\ (reg' = reg \/ reg' = Upsert(reg, id, g))
    BY <1>4 DEF Added, Take
  <2>2. Registered(reg) \subseteq Registered(reg')
    BY <1>1, <2>1, UpsertAdds
  <2> QED
    BY <2>1, <2>2 DEF RemovalsFollow, Do
<1>5. ASSUME NEW id \in Ids, Removed(who, g, id) PROVE Goal
  <2>1. CASE reg' = reg /\ agenda' = <<>>
    BY <2>1 DEF RemovalsFollow
  <2>2. CASE reg' = Remove(reg, id) /\ agenda' = <<Do("removed", id)>>
    <3>1. Registered(reg') = Registered(reg) \ {id}
      BY <1>1, <2>2, RemoveTakes
    <3>2. Listed("removed", agenda', id)
      BY <2>2 DEF Listed, Do
    <3> QED
      BY <2>2, <3>1, <3>2 DEF RemovalsFollow, Do
  <2> QED
    BY <1>5, <2>1, <2>2 DEF Removed, Take
<1>6. ASSUME NEW id \in Ids, Connected(who, g, id) PROVE Goal
  <2>1. /\ agenda' \in {<<>>, <<Do("select", id), Do("selected", id)>>}
        /\ reg' = reg \/ reg' = Upsert(reg, id, g)
    BY <1>6 DEF Connected, Take
  <2>2. Registered(reg) \subseteq Registered(reg')
    BY <1>1, <2>1, UpsertAdds
  <2> QED
    BY <2>1, <2>2 DEF RemovalsFollow, Do
<1>7. ASSUME Cleared(who, g) PROVE Goal
  <2>1. reg' = reg /\ agenda' = [i \in 1..(2 * Len(reg.order)) |->
                    IF i % 2 = 1 THEN Do("remove", reg.order[(i + 1) \div 2])
                                 ELSE Do("removed", reg.order[i \div 2])]
    BY <1>7 DEF Cleared, Take
  <2>2. Len(agenda') = 2 * Len(reg.order)
    <3>1. 2 * Len(reg.order) \in Nat
      BY <1>1
    <3> QED
      BY <2>1, <3>1
  <2>3. \A k \in 1..Len(agenda') : agenda'[k].do \in {"remove", "removed"}
    BY <2>1, <2>2 DEF Do
  <2>4. ASSUME NEW k \in 1..Len(agenda'), agenda'[k].do = "remove"
        PROVE  \E j \in 1..Len(agenda') : /\ j > k /\ agenda'[j].do = "removed"
                                          /\ agenda'[j].id = agenda'[k].id
    <3>1. k % 2 = 1 /\ agenda'[k].id = reg.order[(k + 1) \div 2]
      BY <2>1, <2>2, <2>4 DEF Do
    <3>2. k + 1 \in 1..Len(agenda') /\ (k + 1) % 2 # 1 /\ k + 1 > k
      BY <1>1, <2>2, <3>1
    <3>3. agenda'[k + 1] = Do("removed", reg.order[(k + 1) \div 2])
      BY <2>1, <2>2, <3>2
    <3>4. agenda'[k + 1].do = "removed" /\ agenda'[k + 1].id = agenda'[k].id
      BY <3>1, <3>3 DEF Do
    <3> QED
      BY <3>2, <3>4
  <2>5. agenda' # <<>> => 1 \in 1..Len(agenda')
    BY <1>1, <2>1, <2>2
  <2> QED
    BY <2>1, <2>3, <2>4, <2>5 DEF RemovalsFollow
<1>8. Goal
  BY <1>4, <1>5, <1>6, <1>7 DEF Frame
<1> HIDE DEF Goal
<1>9. Fits(reg', agenda')
  BY <1>1, <1>8, FitsAlone DEF Goal
<1>10. Explained(reg', agenda')
  BY <1>3, <1>8 DEF Goal, Explained
<1>11. Accounted(reg', agenda') /\ RemovalsFollow(agenda')
  BY <1>8 DEF Goal, Accounted, Pending
<1> QED
  BY <1>9, <1>10, <1>11 DEF ExceedInv, Explained, Fits, Accounted, RemovalsFollow, SelectorInv, Listed

\* What is listed for later, and what follows, stays so.
LEMMA RestExceeds ==
  ASSUME RegInv, Done
  PROVE  /\ \A step, i : Listed(step, agenda, i) =>
              Listed(step, agenda', i) \/ (agenda[1].do = step /\ agenda[1].id = i)
         /\ RemovalsFollow(agenda) =>
              /\ RemovalsFollow(agenda')
              /\ agenda[1].do = "remove" => Listed("removed", agenda', agenda[1].id)
         /\ \A F : (\A k \in 1..Len(agenda) : agenda[k].do = "upsert" => agenda[k].id \in F)
              => \A k \in 1..Len(agenda') : agenda'[k].do = "upsert" => agenda'[k].id \in F
<1>1. /\ 1 \in 1..Len(agenda) /\ Len(agenda) \in Nat /\ Len(agenda') = Len(agenda) - 1
      /\ \A k \in 1..Len(agenda') : agenda'[k] = agenda[k + 1] /\ k + 1 \in 1..Len(agenda)
      /\ \A k \in 1..Len(agenda) : k # 1 => k - 1 \in 1..Len(agenda') /\ agenda'[k - 1] = agenda[k]
  BY TailIndex
<1>2. ASSUME NEW step, NEW i, Listed(step, agenda, i)
      PROVE  Listed(step, agenda', i) \/ (agenda[1].do = step /\ agenda[1].id = i)
  BY <1>1, <1>2 DEF Listed
<1>3. ASSUME RemovalsFollow(agenda) PROVE RemovalsFollow(agenda')
  <2> SUFFICES ASSUME NEW k \in 1..Len(agenda'), agenda'[k].do = "remove"
               PROVE  \E j \in 1..Len(agenda') : /\ j > k /\ agenda'[j].do = "removed"
                                                 /\ agenda'[j].id = agenda'[k].id
    BY DEF RemovalsFollow
  <2>1. agenda'[k] = agenda[k + 1] /\ k + 1 \in 1..Len(agenda)
    BY <1>1
  <2>2. PICK j \in 1..Len(agenda) : /\ j > k + 1 /\ agenda[j].do = "removed"
                                    /\ agenda[j].id = agenda[k + 1].id
    BY <1>3, <2>1 DEF RemovalsFollow
  <2>3. j # 1 /\ j - 1 > k
    BY <2>2
  <2>4. j - 1 \in 1..Len(agenda') /\ agenda'[j - 1] = agenda[j]
    BY <1>1, <2>3
  <2> QED
    BY <2>1, <2>2, <2>3, <2>4
<1>4. ASSUME RemovalsFollow(agenda), agenda[1].do = "remove"
      PROVE  Listed("removed", agenda', agenda[1].id)
  <2>1. PICK j \in 1..Len(agenda) : /\ j > 1 /\ agenda[j].do = "removed"
                                    /\ agenda[j].id = agenda[1].id
    BY <1>1, <1>4 DEF RemovalsFollow
  <2>2. j - 1 \in 1..Len(agenda') /\ agenda'[j - 1] = agenda[j]
    BY <1>1, <2>1
  <2> QED
    BY <2>1, <2>2 DEF Listed
<1>5. ASSUME NEW F, \A k \in 1..Len(agenda) : agenda[k].do = "upsert" => agenda[k].id \in F,
             NEW k \in 1..Len(agenda'), agenda'[k].do = "upsert"
      PROVE  agenda'[k].id \in F
  BY <1>1, <1>5
<1> QED
  BY <1>2, <1>3, <1>4, <1>5

LEMMA StepExceeds ==
  ASSUME RegInv, GenInv, ExceedInv, RegistryStep
  PROVE  ExceedInv'
<1>1. Done /\ UNCHANGED <<selector, open, told, raced>>
  BY DEF RegistryStep, Step, busVars
<1>2. reg \in Registries
  BY DEF RegInv, Good
<1>3. 1 \in 1..Len(agenda) /\ agenda # <<>> /\ agenda[1].do \notin {"added", "selected", "removed"}
  BY <1>1, TailIndex DEF RegistryStep, Step, Done
<1>4. Explained(reg, agenda) /\ RemovalsFollow(agenda) /\ Accounted(reg, agenda)
  BY DEF ExceedInv
<1>5. PICK F \in SUBSET Ids :
        /\ IsFiniteSet(F) /\ Cardinality(F) <= Capacity /\ Registered(reg) \subseteq F
        /\ \A k \in 1..Len(agenda) : agenda[k].do = "upsert" => agenda[k].id \in F
  BY DEF ExceedInv, Fits
<1>6. /\ \A step, i : Listed(step, agenda, i) =>
              Listed(step, agenda', i) \/ (agenda[1].do = step /\ agenda[1].id = i)
      /\ RemovalsFollow(agenda')
      /\ agenda[1].do = "remove" => Listed("removed", agenda', agenda[1].id)
      /\ \A k \in 1..Len(agenda') : agenda'[k].do = "upsert" => agenda'[k].id \in F
  BY <1>1, <1>4, <1>5, RestExceeds
<1> DEFINE Said(i) == Listed("removed", agenda', i) \/ Listed("upsert", agenda', i)
           Goal == /\ \A i \in Registered(reg) : i \in Registered(reg') \/ Said(i)
                   /\ agenda[1].do = "upsert" => agenda[1].id \in Registered(reg')
                   /\ Registered(reg') \subseteq F
<1>7. ASSUME Step("upsert") /\ reg' = Upsert(reg, agenda[1].id, agenda[1].target)
      PROVE  Goal
  <2>1. agenda[1].id \in F
    BY <1>3, <1>5, <1>7 DEF Step
  <2>2. Accepts(reg, agenda[1].id)
    BY <1>5, <2>1, FitsAccepts
  <2>3. Registered(reg') = Registered(reg) \union {agenda[1].id}
    BY <1>2, <1>7, <2>2, UpsertAdds
  <2> QED
    BY <1>5, <2>1, <2>3
<1>8. ASSUME Step("remove") /\ reg' = Remove(reg, agenda[1].id)
      PROVE  Goal
  <2>1. Registered(reg') = Registered(reg) \ {agenda[1].id} /\ agenda[1].do = "remove"
    BY <1>2, <1>8, RemoveTakes DEF Step
  <2> QED
    BY <1>5, <1>6, <2>1
<1>9. ASSUME Step("select") /\ reg' = Select(reg, agenda[1].id)
      PROVE  Goal
  <2>1. Registered(reg') = Registered(reg) /\ agenda[1].do = "select"
    BY <1>2, <1>9, SelectLeaves DEF Step
  <2> QED
    BY <1>5, <2>1
<1>10. ASSUME Step("begin") /\ reg' = BeginGeneration(reg, generation)
      PROVE  Goal
  <2>1. Registered(reg') \subseteq Registered(reg) /\ agenda[1].do = "begin"
    BY <1>2, <1>10, GenerationClears DEF Step
  <2>2. \A i \in Registered(reg) : Listed("upsert", agenda, i)
    BY <1>3, <1>4, <2>1 DEF Accounted, Pending
  <2>3. \A i \in Registered(reg) : Said(i)
    BY <1>6, <2>1, <2>2
  <2> QED
    BY <1>5, <2>1, <2>3
<1>11. ASSUME Step("end") /\ reg' = EndGeneration(reg, generation)
      PROVE  Goal
  <2>1. Registered(reg') \subseteq Registered(reg) /\ agenda[1].do = "end"
    BY <1>2, <1>11, GenerationClears DEF Step
  <2>2. \A i \in Registered(reg) : Listed("removed", agenda, i)
    BY <1>3, <1>4, <2>1 DEF Accounted, Pending
  <2>3. \A i \in Registered(reg) : Said(i)
    BY <1>6, <2>1, <2>2
  <2> QED
    BY <1>5, <2>1, <2>3
<1>12. Goal
  BY <1>7, <1>8, <1>9, <1>10, <1>11 DEF RegistryStep
<1>13. Explained(reg', agenda')
  <2> SUFFICES ASSUME NEW s \in open, NEW i \in told[s]
               PROVE  i \in Registered(reg') \/ i \in raced \/ Said(i)
    BY DEF Explained
  <2>1. i \in Registered(reg) \/ i \in raced \/ Listed("removed", agenda, i) \/ Listed("upsert", agenda, i)
    BY <1>4 DEF Explained
  <2>2. Listed("removed", agenda, i) => Said(i)
    BY <1>3, <1>6
  <2>3. Listed("upsert", agenda, i) => Said(i) \/ (agenda[1].do = "upsert" /\ agenda[1].id = i)
    BY <1>6
  <2> HIDE DEF Said
  <2> QED
    BY <1>12, <2>1, <2>2, <2>3
<1>14. Fits(reg', agenda')
  BY <1>5, <1>6, <1>12 DEF Fits
<1>15. Accounted(reg', agenda')
  BY <1>1, DoneOwned DEF Accounted
<1>16. (Explained(reg, agenda) /\ RemovalsFollow(agenda) /\ Accounted(reg, agenda) /\ Fits(reg, agenda))'
  BY <1>1, <1>6, <1>13, <1>14, <1>15 DEF Explained, RemovalsFollow, Accounted, Fits
<1> QED
  BY <1>1, <1>16 DEF ExceedInv, SelectorInv

LEMMA AnnounceExceeds ==
  ASSUME RegInv, GenInv, TellInv, ExceedInv, AnnounceStep
  PROVE  ExceedInv'
<1>1. PICK kind \in {"added", "selected", "removed"}, found \in Ids \union {NoId} :
        /\ Step(kind) /\ Publish(kind, found)
        /\ found = IF kind = "selected" /\ agenda[1].id \notin Registered(reg) THEN NoId
                   ELSE agenda[1].id
        /\ raced' = IF kind = "added" /\ agenda[1].id \notin Registered(reg)
                    THEN raced \union {agenda[1].id} ELSE raced \ {found}
        /\ UNCHANGED <<reg, selector>>
  <2>1. agenda # <<>> => agenda[1] \in Items
    BY DEF RegInv, AgendaInv
  <2> QED
    BY <2>1 DEF AnnounceStep, Step, Done, Items
<1>2. Done /\ agenda[1].do = kind /\ agenda # <<>>
  BY <1>1 DEF Step, Done
<1>3. open' \subseteq open /\ \A s \in open' : told'[s] = Learn(told[s], kind, found)
  BY <1>1, PublishTells DEF TellInv
<1>4. NoId \notin Registered(reg)
  BY RegistryAssumption, ItemMapsClosed DEF RegInv, Good, Registries, Registered
<1>5. Explained(reg, agenda) /\ RemovalsFollow(agenda) /\ Fits(reg, agenda) /\ SelectorInv
  BY DEF ExceedInv
<1>6. PICK F \in SUBSET Ids :
        /\ IsFiniteSet(F) /\ Cardinality(F) <= Capacity /\ Registered(reg) \subseteq F
        /\ \A k \in 1..Len(agenda) : agenda[k].do = "upsert" => agenda[k].id \in F
  BY <1>5 DEF Fits
<1>7. /\ \A step, i : Listed(step, agenda, i) =>
              Listed(step, agenda', i) \/ (agenda[1].do = step /\ agenda[1].id = i)
      /\ RemovalsFollow(agenda')
      /\ \A k \in 1..Len(agenda') : agenda'[k].do = "upsert" => agenda'[k].id \in F
  BY <1>2, <1>5, <1>6, RestExceeds
<1> DEFINE Said(i) == Listed("removed", agenda', i) \/ Listed("upsert", agenda', i)
<1>8. ASSUME NEW s \in open', NEW i \in told'[s]
      PROVE  i \in Registered(reg) \/ i \in raced' \/ Said(i)
  <2>1. CASE i = found /\ kind # "removed" /\ found # NoId
    <3>1. kind = "selected" => found \in Registered(reg)
      BY <1>1, <2>1
    <3>2. kind = "added" => found = agenda[1].id
      BY <1>1
    <3>3. kind = "added" => i \in Registered(reg) \/ i \in raced'
      BY <1>1, <2>1, <3>2
    <3> QED
      BY <2>1, <3>1, <3>3
  <2>2. CASE ~(i = found /\ kind # "removed" /\ found # NoId)
    <3>1. i \in told[s] /\ i # found /\ s \in open
      <4>1. told'[s] = Learn(told[s], kind, found) /\ i \in told'[s] /\ s \in open
        BY <1>3, <1>8
      <4>2. i \in told[s] /\ i # found
        BY <2>2, <4>1 DEF Learn
      <4> QED
        BY <4>1, <4>2
    <3>2. i \in Registered(reg) \/ i \in raced \/ Listed("removed", agenda, i) \/ Listed("upsert", agenda, i)
      BY <1>5, <3>1 DEF Explained
    <3>3. i \in raced => i \in raced'
      BY <1>1, <3>1
    <3>4. agenda[1].do # "upsert" /\ ~(agenda[1].do = "removed" /\ agenda[1].id = i)
      BY <1>1, <1>2, <3>1
    <3>5. /\ Listed("removed", agenda, i) => Listed("removed", agenda', i)
          /\ Listed("upsert", agenda, i) => Listed("upsert", agenda', i)
      BY <1>7, <3>4
    <3> QED
      BY <3>2, <3>3, <3>5
  <2> QED
    BY <2>1, <2>2
<1>9. Explained(reg, agenda)'
  BY <1>1, <1>8 DEF Explained
<1>10. Fits(reg, agenda)'
  BY <1>1, <1>6, <1>7 DEF Fits
<1>11. Accounted(reg, agenda)'
  <2>1. ~Pending("end", agenda') /\ ~Pending("begin", agenda')
    BY <1>2, DoneOwned
  <2> QED
    BY <2>1 DEF Accounted, Pending
<1>12. RemovalsFollow(agenda)' /\ SelectorInv'
  BY <1>1, <1>5, <1>7 DEF RemovalsFollow, SelectorInv
<1> QED
  BY <1>9, <1>10, <1>11, <1>12 DEF ExceedInv

LEMMA InstallExceeds ==
  ASSUME RegInv, ExceedInv, InstallOwner
  PROVE  ExceedInv'
<1>1. /\ agenda = <<>> /\ agenda' # <<>> /\ agenda'[1].do = "begin"
      /\ UNCHANGED <<reg, selector, open, told, raced>>
  BY InstallAgenda
<1>2. \A k \in 1..Len(agenda') : /\ agenda'[k].do \in {"begin", "upsert", "select"}
                                 /\ agenda'[k].do = "upsert" => agenda'[k].id \in Registered(reg)
  BY InstallAgenda
<1>3. Fits(reg, agenda')
  BY <1>2, FitsAlone DEF RegInv
<1>4. \A s \in open : \A i \in told[s] : i \in Registered(reg) \/ i \in raced
  BY <1>1 DEF ExceedInv, Explained, Listed
<1>5. Explained(reg, agenda)' /\ Fits(reg, agenda)'
  BY <1>1, <1>3, <1>4 DEF Explained, Fits
<1>6. RemovalsFollow(agenda)'
  BY <1>2 DEF RemovalsFollow
<1>7. \A i \in Registered(reg) : Listed("upsert", agenda', i)
  BY InstallAgenda
<1>8. Accounted(reg, agenda)'
  BY <1>1, <1>7 DEF Accounted, Pending, Listed
<1> QED
  BY <1>1, <1>5, <1>6, <1>8 DEF ExceedInv, SelectorInv

LEMMA EndExceeds ==
  ASSUME RegInv, ExceedInv, EndOwner
  PROVE  ExceedInv'
<1>1. agenda = <<>> /\ UNCHANGED <<reg, selector, open, told, raced>>
  BY DEF EndOwner, Take, RegInv, AgendaInv, busVars
<1>2. /\ agenda'[1].do = "end" /\ agenda' # <<>>
      /\ \A k \in 1..Len(agenda') : k # 1 => agenda'[k].do = "removed"
      /\ \A i \in 1..Len(reg.order) : i + 1 \in 1..Len(agenda')
                                      /\ agenda'[i + 1] = Do("removed", reg.order[i])
  BY EndAgenda
<1>3. \A k \in 1..Len(agenda') : agenda'[k].do \in {"end", "removed"}
  BY <1>2
<1>4. Fits(reg, agenda')
  BY <1>3, FitsAlone DEF RegInv
<1>5. \A s \in open : \A i \in told[s] : i \in Registered(reg) \/ i \in raced
  BY <1>1 DEF ExceedInv, Explained, Listed
<1>6. Explained(reg, agenda)' /\ Fits(reg, agenda)'
  BY <1>1, <1>4, <1>5 DEF Explained, Fits
<1>7. RemovalsFollow(agenda)'
  BY <1>3 DEF RemovalsFollow
<1>8. \A i \in Registered(reg) : Listed("removed", agenda', i)
  <2> SUFFICES ASSUME NEW i \in Registered(reg) PROVE Listed("removed", agenda', i)
    OBVIOUS
  <2>1. PICK n \in 1..Len(reg.order) : reg.order[n] = i
    BY DEF RegInv, Good, Coherent
  <2>2. n + 1 \in 1..Len(agenda') /\ agenda'[n + 1] = Do("removed", i)
    BY <1>2, <2>1
  <2>3. Do("removed", i).do = "removed" /\ Do("removed", i).id = i
    BY DEF Do
  <2> QED
    BY <2>2, <2>3 DEF Listed
<1>9. Accounted(reg, agenda)'
  BY <1>1, <1>2, <1>8 DEF Accounted, Pending, Listed
<1> QED
  BY <1>1, <1>6, <1>7, <1>9 DEF ExceedInv, SelectorInv

LEMMA SelectorStepwise ==
  ASSUME RegInv, SelectorInv, [Next]_vars
  PROVE  SelectorInv'
<1> USE DEF SelectorInv
<1>1. Registered(reg) \subseteq Ids
  BY ItemMapsClosed DEF RegInv, Good, Registries, Registered
<1>2. ASSUME NEW s \in Selectors, NEW id \in Ids, SelectChoose(s, id) PROVE SelectorInv'
  BY <1>2 DEF SelectChoose
<1>3. ASSUME NEW s \in Selectors, SelectGet(s) PROVE SelectorInv'
  BY <1>3 DEF SelectGet
<1>4. ASSUME NEW s \in Selectors, SelectPublish(s) PROVE SelectorInv'
  BY <1>4 DEF SelectPublish
<1>5. ASSUME NEW r \in Replays, \/ ReplayStart(r) \/ ReplayGivenUp(r) \/ ReplayTakes(r)
                                \/ ReplayFrame(r) \/ ReplayEnd(r)
      PROVE  UNCHANGED selector
  BY <1>5 DEF ReplayStart, ReplayGivenUp, ReplayTakes, ReplayFrame, ReplayEnd
<1>6. ASSUME NEW s \in Subscribers, Receive(s) \/ Unsubscribe(s) PROVE UNCHANGED selector
  BY <1>6 DEF Receive, Unsubscribe
<1>7. ASSUME \/ UpstreamFrame \/ RegistryStep \/ AnnounceStep \/ InstallOwner \/ EndOwner
             \/ CloseBegin \/ CloseCancels \/ CloseEnd \/ CloseBus \/ UNCHANGED vars
      PROVE  UNCHANGED selector
  BY <1>7 DEF UpstreamFrame, RegistryStep, AnnounceStep, InstallOwner, EndOwner,
              CloseBegin, CloseCancels, CloseEnd, CloseBus, vars
<1> QED
  BY <1>2, <1>3, <1>4, <1>5, <1>6, <1>7 DEF Next

\* A context announced by SelectContext is registered, or remembered as raced.
LEMMA SelectExceeds ==
  ASSUME RegInv, TellInv, ExceedInv, NEW s \in Selectors, SelectPublish(s)
  PROVE  Explained(reg, agenda)'
<1> DEFINE id == selector[s].found
<1>1. /\ Publish("selected", id) /\ UNCHANGED <<reg, agenda>>
      /\ raced' = IF id \in Ids \ Registered(reg) THEN raced \union {id} ELSE raced
  BY DEF SelectPublish, dispatchVars
<1>2. id \in Ids \union {NoId}
  BY DEF ExceedInv, SelectorInv
<1> HIDE DEF id
<1>3. open' \subseteq open /\ \A t \in open' : told'[t] = Learn(told[t], "selected", id)
  BY <1>1, PublishTells DEF TellInv
<1>4. ASSUME NEW t \in open', NEW i \in told'[t]
      PROVE  i \in Registered(reg) \/ i \in raced'
             \/ Listed("removed", agenda, i) \/ Listed("upsert", agenda, i)
  <2>1. told'[t] = Learn(told[t], "selected", id) /\ i \in told'[t] /\ t \in open
    BY <1>3, <1>4
  <2>2. i \in told[t] \/ (i = id /\ id # NoId)
    BY <2>1 DEF Learn
  <2>3. raced \subseteq raced'
    BY <1>1
  <2>4. CASE i \in told[t]
    BY <2>1, <2>3, <2>4 DEF ExceedInv, Explained
  <2>5. CASE i = id /\ id # NoId
    BY <1>1, <1>2, <2>5
  <2> QED
    BY <2>2, <2>4, <2>5
<1> QED
  BY <1>1, <1>4 DEF Explained, Listed

LEMMA ExceedStepwise ==
  RegInv /\ RegInv' /\ GenInv /\ TellInv /\ ExceedInv /\ [Next]_vars => ExceedInv'
<1> SUFFICES ASSUME RegInv, RegInv', GenInv, TellInv, ExceedInv, [Next]_vars PROVE ExceedInv'
  OBVIOUS
<1> DEFINE Quiet == /\ RemovalsFollow(agenda) /\ Accounted(reg, agenda) /\ Fits(reg, agenda)
<1>1. Explained(reg, agenda) /\ Quiet /\ SelectorInv
  BY DEF ExceedInv
<1>2. SelectorInv'
  BY <1>1, SelectorStepwise
<1>3. ASSUME UNCHANGED agenda, Registered(reg') = Registered(reg) PROVE Quiet'
  BY <1>1, <1>3 DEF RemovalsFollow, Accounted, Fits, Pending, Listed
<1>4. ASSUME UNCHANGED agenda, Registered(reg') = Registered(reg), open' \subseteq open,
             \A t \in open' : told'[t] = told[t], UNCHANGED raced
      PROVE  ExceedInv'
  <2>1. Explained(reg, agenda)'
    BY <1>1, <1>4 DEF Explained, Listed
  <2> QED
    BY <1>2, <1>3, <1>4, <2>1 DEF ExceedInv
<1>5. CASE UpstreamFrame
  BY <1>5, FrameExceeds DEF UpstreamFrame, busVars
<1>6. CASE RegistryStep
  BY <1>6, StepExceeds
<1>7. CASE AnnounceStep
  BY <1>7, AnnounceExceeds
<1>8. CASE InstallOwner
  BY <1>8, InstallExceeds
<1>9. CASE EndOwner
  BY <1>9, EndExceeds
<1>10. ASSUME NEW r \in Replays, ReplayFrame(r) PROVE ExceedInv'
  BY <1>10, FrameExceeds DEF ReplayFrame, busVars
<1>11. ASSUME NEW s \in Selectors, NEW id \in Ids, SelectChoose(s, id) PROVE ExceedInv'
  <2>1. Registered(reg') = Registered(reg)
    BY <1>11, SelectLeaves DEF SelectChoose, RegInv, Good
  <2> QED
    BY <1>4, <1>11, <2>1 DEF SelectChoose, busVars
<1>12. ASSUME NEW s \in Selectors, SelectPublish(s) PROVE ExceedInv'
  <2>1. UNCHANGED <<reg, agenda>>
    BY <1>12 DEF SelectPublish, dispatchVars
  <2>2. Quiet'
    BY <1>3, <2>1
  <2> QED
    BY <1>2, <1>12, <2>2, SelectExceeds DEF ExceedInv
<1>13. ASSUME NEW s \in Subscribers, Unsubscribe(s) PROVE ExceedInv'
  <2>1. /\ UNCHANGED <<reg, agenda, raced>> /\ open' \subseteq open
        /\ \A t \in open' : told'[t] = told[t]
    BY <1>13 DEF Unsubscribe, dispatchVars, TellInv, BusInv
  <2> QED
    BY <1>4, <2>1
<1>14. CASE CloseBus
  <2>1. UNCHANGED <<reg, agenda, raced>> /\ open' = {}
    BY <1>14 DEF CloseBus, dispatchVars
  <2> QED
    BY <1>4, <2>1
<1>15. CASE UNCHANGED <<reg, agenda, open, told, raced>>
  BY <1>4, <1>15
<1>16. ASSUME NEW r \in Replays, ReplayStart(r) \/ ReplayGivenUp(r) \/ ReplayTakes(r) \/ ReplayEnd(r)
       PROVE  UNCHANGED <<reg, agenda, open, told, raced>>
  BY <1>16 DEF ReplayStart, ReplayGivenUp, ReplayTakes, ReplayEnd, dispatchVars, busVars
<1>17. ASSUME NEW s \in Selectors, SelectGet(s)
       PROVE  UNCHANGED <<reg, agenda, open, told, raced>>
  BY <1>17 DEF SelectGet, dispatchVars, busVars
<1>18. ASSUME NEW s \in Subscribers, Receive(s)
       PROVE  UNCHANGED <<reg, agenda, open, told, raced>>
  BY <1>18 DEF Receive, dispatchVars
<1>19. ASSUME CloseBegin \/ CloseCancels \/ CloseEnd \/ UNCHANGED vars
       PROVE  UNCHANGED <<reg, agenda, open, told, raced>>
  BY <1>19 DEF CloseBegin, CloseCancels, CloseEnd, vars, dispatchVars, busVars
<1> QED
  BY <1>5, <1>6, <1>7, <1>8, <1>9, <1>10, <1>11, <1>12, <1>13, <1>14, <1>15, <1>16, <1>17, <1>18,
     <1>19
  DEF Next

(* What a subscriber that is still served believes to be there beyond the  *)
(* registry was announced though it was not registered: by SelectContext,  *)
(* without dispatchMu, or by a replay that the full registry refused.  No  *)
(* removal, clearing or end of a generation is ever withheld (app.go, the  *)
(* announcements under dispatchMu; service.go, SelectContext).             *)
THEOREM ExceedsOnlyByRaceEver == Spec => []ExceedsOnlyByRace
<1>1. ExceedInv => ExceedsOnlyByRace
  BY DEF ExceedInv, Explained, Listed, ExceedsOnlyByRace
<1> QED
  BY <1>1, RegInitially, RegStepwise, GenInitially, GenStepwise, TellInitially, TellStepwise,
     ExceedInitially, ExceedStepwise, PTL DEF Spec
=============================================================================
