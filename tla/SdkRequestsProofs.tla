-------------------------- MODULE SdkRequestsProofs --------------------------
(***************************************************************************)
(* Proofs about SdkRequests, for every number of calls, ids and upstream   *)
(* connections and every limit: the table of pending calls and the calls   *)
(* agree, the limit holds, and responses reach the calls they answer.      *)
(***************************************************************************)
EXTENDS SdkRequests, FiniteSetTheorems, TLAPS

-----------------------------------------------------------------------------
(* The inductive invariant.                                                *)

\* A call has an id from its registration on, and no result before.
StartedInv ==
    /\ \A a \in Calls : call[a] \in Active => idOf[a] \in Ids
    /\ \A a \in Calls : call[a] = "idle" => idOf[a] = NoId /\ channel[a] = Empty
    /\ \A a \in Calls : idOf[a] = NoId => channel[a] = Empty
    /\ \A a \in wire : idOf[a] \in Ids

\* Whoever keeps s.mu is giving up.
KeeperInv == \A a \in Calls : smu = a => call[a] = "cancelling"

BoundInv == IsFiniteSet(Occupants) /\ Cardinality(Occupants) <= PendingLimit

IInv ==
    /\ TypeOK
    /\ StartedInv
    /\ KeeperInv
    /\ IsFiniteSet(Occupants)
    /\ PendingIsLive
    /\ WaiterIsPending
    /\ ResponseToAsker

\* Entries are only removed, so the limit still holds.
LEMMA OccupantsShrink ==
    ASSUME BoundInv, \A i \in Ids : pending'[i] # NoCall => pending[i] # NoCall
    PROVE  BoundInv'
<1>1. Occupants' \subseteq Occupants
    BY DEF Occupants
<1>2. IsFiniteSet(Occupants') /\ Cardinality(Occupants') <= Cardinality(Occupants)
    BY <1>1, FS_Subset DEF BoundInv
<1>3. Cardinality(Occupants') \in Nat /\ Cardinality(Occupants) \in Nat
    BY <1>2, FS_CardinalityType DEF BoundInv
<1>4. QED
    BY <1>2, <1>3, SdkAssumption DEF BoundInv

\* The check of len(s.pending) keeps the limit when a call registers.
LEMMA OccupantsGrow ==
    ASSUME BoundInv, NEW a \in Calls, NEW i \in Ids, Register(a, i),
           pending \in [Ids -> Calls \cup {NoCall}]
    PROVE  BoundInv'
<1>1. Occupants' = Occupants \cup {i} /\ i \notin Occupants
    BY SdkAssumption DEF Register, Refusal, Occupants
<1>2. IsFiniteSet(Occupants') /\ Cardinality(Occupants') = Cardinality(Occupants) + 1
    BY <1>1, FS_AddElement DEF BoundInv
<1>3. Cardinality(Occupants) \in Nat /\ ~(Cardinality(Occupants) >= PendingLimit)
    BY FS_CardinalityType DEF BoundInv, Register, Refusal
<1>4. QED
    BY <1>2, <1>3, SdkAssumption DEF BoundInv

\* The results of a call tell themselves apart.
LEMMA KindsDiffer ==
    /\ Empty.kind = "empty" /\ Lost.kind = "lost" /\ Closed.kind = "closed"
    /\ \A b : ResponseTo(b).kind = "response" /\ ResponseTo(b).of = b
  BY DEF Empty, Lost, Closed, ResponseTo

\* The initial state satisfies the invariant.
LEMMA InitIInv == Init => IInv
<1> SUFFICES ASSUME Init PROVE IInv
    OBVIOUS
<1>1. Occupants = {}
    BY DEF Init, Occupants
<1>2. IsFiniteSet(Occupants) /\ Cardinality(Occupants) = 0
    BY <1>1, FS_EmptySet
<1>3. TypeOK
  <2>1. Cardinality(Occupants) <= PendingLimit
    BY <1>2, SdkAssumption
  <2>2. channel \in [Calls -> Results]
    BY DEF Init, Results
  <2>3. QED
    BY <2>1, <2>2, LinkAssumption DEF Init, TypeOK, LinkInit, LinkTypeOK, Links, AppStages
<1>4. StartedInv
    BY SdkAssumption DEF Init, StartedInv, Active
<1>5. PendingIsLive
    BY DEF Init, PendingIsLive
<1>6. WaiterIsPending
    BY DEF Init, WaiterIsPending, Active
<1>7. ResponseToAsker
    BY KindsDiffer DEF Init, ResponseToAsker
<1>8. KeeperInv
    BY SdkAssumption DEF Init, KeeperInv
<1>9. QED
    BY <1>2, <1>3, <1>4, <1>5, <1>6, <1>7, <1>8 DEF IInv

\* The calls, their ids and results, and the table of pending calls agree.
Agree == StartedInv /\ PendingIsLive /\ WaiterIsPending /\ ResponseToAsker

\* TypeOK without the limit.
Shape ==
    /\ pending \in [Ids -> Calls \cup {NoCall}]
    /\ call \in [Calls -> {"idle", "cancelling", "done"} \cup Active]
    /\ idOf \in [Calls -> Ids \cup {NoId}]
    /\ channel \in [Calls -> Results]
    /\ wire \subseteq Calls

\* TypeOK implies its part without the limit.
LEMMA ShapeHolds == TypeOK => Shape
  BY DEF TypeOK, Shape

\* Steps of the endpoint and of shutdown only take requests off the wire.
LEMMA QuietStep ==
    ASSUME Agree, UNCHANGED callVars, wire' \subseteq wire
    PROVE  Agree'
<1>1. StartedInv'
    BY DEF Agree, StartedInv, callVars
<1>2. PendingIsLive'
    BY DEF Agree, PendingIsLive, callVars
<1>3. WaiterIsPending'
    BY DEF Agree, WaiterIsPending, Alone, callVars
<1>4. ResponseToAsker'
    BY DEF Agree, ResponseToAsker, Alone, callVars
<1>5. QED
    BY <1>1, <1>2, <1>3, <1>4 DEF Agree

\* Steps that only move a call on: it is refused, admitted, sent, ends with the
\* result it has or has cancelled its request.
LEMMA MoveStep ==
    ASSUME Agree, Shape, NEW a \in Calls, NEW p, UNCHANGED <<pending, idOf, channel>>,
           call' = [call EXCEPT ![a] = p],
           \/ call[a] \in {"idle", "cancelling"} /\ p = "done"
           \/ call[a] \in Active /\ channel[a] # Empty /\ p = "done"
           \/ call[a] \in Active /\ p \in Active,
           wire' \subseteq wire \cup {a},
           a \in wire' => a \in wire \/ call[a] \in Active
    PROVE  Agree'
<1>1. StartedInv'
    BY DEF Agree, Shape, StartedInv, Active
<1>2. PendingIsLive'
  <2> SUFFICES ASSUME NEW i \in Ids, pending[i] # NoCall
               PROVE  /\ call'[pending[i]] \in Active
                      /\ idOf[pending[i]] = i /\ channel[pending[i]] = Empty
    BY DEF PendingIsLive
  <2>1. /\ call[pending[i]] \in Active /\ idOf[pending[i]] = i
        /\ channel[pending[i]] = Empty /\ pending[i] \in Calls
    BY DEF Agree, PendingIsLive, Shape
  <2>2. QED
    BY <2>1 DEF Shape, Active
<1>3. WaiterIsPending'
    BY DEF Agree, WaiterIsPending, Alone, Shape, Active
<1>4. ResponseToAsker'
    BY DEF Agree, ResponseToAsker, Alone
<1>5. QED
    BY <1>1, <1>2, <1>3, <1>4 DEF Agree

\* A call registers under an id nobody is pending under.
LEMMA RegisterStep ==
    ASSUME Agree, Shape, NEW a \in Calls, NEW i \in Ids, Register(a, i)
    PROVE  Agree'
<1> USE SdkAssumption DEF Register, appVars
<1>1. StartedInv'
    BY DEF Agree, Shape, StartedInv, Active
<1>2. PendingIsLive'
    BY DEF Agree, Shape, StartedInv, PendingIsLive, Active
<1>3. ASSUME NEW b \in Calls, b # a, idOf[b] \in Ids, Alone(b)' PROVE Alone(b)
    BY <1>3 DEF Alone, Agree, StartedInv, Shape
<1>4. WaiterIsPending'
    BY <1>3 DEF Agree, Shape, StartedInv, WaiterIsPending, Alone, Active
<1>5. ResponseToAsker'
  <2> SUFFICES ASSUME NEW b \in Calls, channel[b].kind = "response"
               PROVE  /\ idOf'[channel[b].of] = idOf'[b]
                      /\ Alone(b)' => channel[b].of = b
    BY DEF ResponseToAsker
  <2>1. channel[b] # Empty /\ b # a /\ idOf[b] \in Ids
    BY KindsDiffer DEF Agree, Shape, StartedInv
  <2>2. channel[b].of \in Calls /\ idOf[channel[b].of] = idOf[b]
    BY KindsDiffer DEF Agree, Shape, Results, ResponseToAsker
  <2>3. channel[b].of # a
    BY <2>1, <2>2 DEF Agree, StartedInv
  <2>4. QED
    BY <1>3, <2>1, <2>2, <2>3 DEF Agree, ResponseToAsker, Shape
<1>6. QED
    BY <1>1, <1>2, <1>4, <1>5 DEF Agree

\* A call that gives up frees its id.
LEMMA GiveUpStep ==
    ASSUME Agree, Shape, NEW a \in Calls, call[a] \in Active, GiveUp(a)
    PROVE  Agree'
<1> USE SdkAssumption DEF GiveUp, appVars
<1>1. StartedInv'
    BY DEF Agree, Shape, StartedInv, Active
<1>2. PendingIsLive'
    BY DEF Agree, Shape, StartedInv, PendingIsLive, Active
<1>3. WaiterIsPending'
    BY DEF Agree, Shape, StartedInv, WaiterIsPending, Alone, Active
<1>4. ResponseToAsker'
    BY DEF Agree, ResponseToAsker, Alone
<1>5. QED
    BY <1>1, <1>2, <1>3, <1>4 DEF Agree

\* A response takes the waiter of its id out of the table.
LEMMA RespondStep ==
    ASSUME Agree, Shape, NEW a \in Calls, Respond(a)
    PROVE  Agree'
<1> DEFINE b == pending[idOf[a]]
<1>1. idOf[a] \in Ids /\ a \in wire
    BY DEF Agree, StartedInv, Respond
<1>2. b # NoCall => /\ b \in Calls /\ call[b] \in Active
                    /\ idOf[b] = idOf[a] /\ channel[b] = Empty
    BY <1>1 DEF Agree, PendingIsLive, Shape
<1>3. /\ UNCHANGED <<call, idOf>> /\ wire' \subseteq wire
      /\ pending' = [pending EXCEPT ![idOf[a]] = NoCall]
      /\ channel' = IF b = NoCall THEN channel ELSE [channel EXCEPT ![b] = ResponseTo(a)]
    BY DEF Respond
<1>4. ResponseTo(a) # Empty /\ ResponseTo(a).kind = "response" /\ ResponseTo(a).of = a
    BY KindsDiffer
<1> HIDE DEF b
<1>5. StartedInv'
    BY <1>1, <1>2, <1>3, SdkAssumption DEF Agree, Shape, StartedInv, Active
<1>6. PendingIsLive'
  <2> SUFFICES ASSUME NEW i \in Ids, pending'[i] # NoCall
               PROVE  /\ call[pending'[i]] \in Active
                      /\ idOf[pending'[i]] = i /\ channel'[pending'[i]] = Empty
    BY <1>3 DEF PendingIsLive
  <2>1. i # idOf[a] /\ pending'[i] = pending[i] /\ pending[i] \in Calls
    BY <1>1, <1>3 DEF Shape
  <2>2. call[pending[i]] \in Active /\ idOf[pending[i]] = i /\ channel[pending[i]] = Empty
    BY <2>1 DEF Agree, PendingIsLive
  <2>3. b # NoCall => pending[i] # b
    BY <1>2, <2>1, <2>2
  <2>4. QED
    BY <1>3, <2>1, <2>2, <2>3 DEF Shape
<1>7. WaiterIsPending'
  <2> SUFFICES ASSUME NEW c \in Calls, call[c] \in Active, channel'[c] = Empty, Alone(c)
               PROVE  pending'[idOf[c]] = c
    BY <1>3 DEF WaiterIsPending, Alone
  <2>1. channel[c] = Empty
    BY <1>2, <1>3, <1>4 DEF Shape
  <2>2. pending[idOf[c]] = c /\ idOf[c] \in Ids
    BY <2>1 DEF Agree, StartedInv, WaiterIsPending
  <2>3. idOf[c] # idOf[a]
    <3> SUFFICES ASSUME idOf[c] = idOf[a] PROVE FALSE
        OBVIOUS
    <3>1. b = c
        BY <2>2 DEF b
    <3>2. c # NoCall
        BY SdkAssumption
    <3>3. QED
        BY <1>3, <1>4, <3>1, <3>2 DEF Shape
  <2>4. QED
    BY <1>3, <2>2, <2>3 DEF Shape
<1>8. ResponseToAsker'
  <2> SUFFICES ASSUME NEW c \in Calls, channel'[c].kind = "response"
               PROVE  /\ idOf[channel'[c].of] = idOf[c]
                      /\ Alone(c) => channel'[c].of = c
    BY <1>3 DEF ResponseToAsker, Alone
  <2>1. CASE b # NoCall /\ c = b
    <3>1. channel'[c] = ResponseTo(a)
        BY <1>3, <2>1 DEF Shape
    <3>2. QED
        BY <1>2, <1>4, <2>1, <3>1 DEF Alone
  <2>2. CASE ~(b # NoCall /\ c = b)
    <3>1. channel'[c] = channel[c]
        BY <1>3, <2>2 DEF Shape
    <3>2. QED
        BY <3>1 DEF Agree, ResponseToAsker
  <2>3. QED
    BY <2>1, <2>2
<1>9. QED
    BY <1>5, <1>6, <1>7, <1>8 DEF Agree

\* Every pending call is failed at once.
LEMMA FailStep ==
    ASSUME Agree, Shape, NEW r, r # Empty, r.kind # "response", FailAll(r),
           UNCHANGED <<call, idOf, wire>>
    PROVE  Agree'
<1>1. \A c \in Calls : c \in Range(pending) =>
        call[c] \in Active /\ idOf[c] \in Ids
    BY SdkAssumption DEF Range, Agree, PendingIsLive, Shape
<1>2. StartedInv'
    BY <1>1, SdkAssumption DEF FailAll, Agree, StartedInv, Active
<1>3. PendingIsLive'
    BY DEF FailAll, PendingIsLive
<1>4. WaiterIsPending'
    BY DEF FailAll, Range, Agree, StartedInv, WaiterIsPending, Alone, Shape
<1>5. ResponseToAsker'
    BY DEF FailAll, Agree, ResponseToAsker, Alone
<1>6. QED
    BY <1>2, <1>3, <1>4, <1>5 DEF Agree

\* Every step keeps the two tables and the calls in agreement.
LEMMA AgreeNext == Agree /\ Shape /\ KeeperInv /\ [Next]_vars => Agree'
<1> SUFFICES ASSUME Agree, Shape, KeeperInv, [Next]_vars PROVE Agree'
    OBVIOUS
<1>1. ASSUME NEW a \in Calls, NEW i \in Ids, Refuse(a, i) PROVE Agree'
    BY <1>1, MoveStep DEF Refuse, appVars
<1>2. ASSUME NEW a \in Calls, NEW i \in Ids, Register(a, i) PROVE Agree'
    BY <1>2, RegisterStep
<1>3. ASSUME NEW a \in Calls, Admit(a) PROVE Agree'
    BY <1>3, MoveStep DEF Admit, appVars, Active
<1>4. ASSUME NEW a \in Calls, SendFails(a) PROVE Agree'
    BY <1>4, GiveUpStep DEF SendFails, Active
<1>5. ASSUME NEW a \in Calls, Dispatch(a) PROVE Agree'
  <2>1. wire' \subseteq wire \cup {a} /\ (a \in wire' => a \in wire \/ call[a] \in Active)
    BY <1>5 DEF Dispatch, Active
  <2>2. QED
    BY <1>5, <2>1, MoveStep DEF Dispatch, Active
<1>6. ASSUME NEW a \in Calls, TakeResult(a) PROVE Agree'
    BY <1>6, MoveStep DEF TakeResult, appVars, Active
<1>7. ASSUME NEW a \in Calls, TimeOut(a) PROVE Agree'
    BY <1>7, GiveUpStep DEF TimeOut, Active
<1>8. ASSUME NEW a \in Calls, Respond(a) PROVE Agree'
    BY <1>8, RespondStep
<1>9. ASSUME NEW u \in Ups, \/ Install(u) \/ ObserveConnected(u) \/ HubDrop(u)
                            \/ Lose(u) \/ CountClients(u)
      PROVE  Agree'
  <2>1. UNCHANGED callVars /\ wire' \subseteq wire
    BY <1>9 DEF Install, ObserveConnected, HubDrop, Lose, CountClients, appVars
  <2>2. QED
    BY <2>1, QuietStep
<1>10. ASSUME NEW u \in Ups, ObserveLost(u) PROVE Agree'
  <2>1. CASE FailAll(Lost)
    BY <1>10, <2>1, FailStep, KindsDiffer DEF ObserveLost
  <2>2. CASE UNCHANGED <<channel, pending, table>>
    BY <1>10, <2>2, QuietStep DEF ObserveLost, callVars
  <2>3. QED
    BY <1>10, <2>1, <2>2 DEF ObserveLost
<1>11. ASSUME FailPending PROVE Agree'
    BY <1>11, FailStep, KindsDiffer DEF FailPending
<1>12. ASSUME BeginClose \/ CloseApp \/ FinishApp PROVE Agree'
    BY <1>12, QuietStep DEF BeginClose, CloseApp, FinishApp, appVars
<1>13. ASSUME UNCHANGED vars PROVE Agree'
    BY <1>13, QuietStep DEF vars, appVars
<1>14. ASSUME NEW a \in Calls, Cancel(a) PROVE Agree'
    BY <1>14, MoveStep DEF Cancel, KeeperInv
<1>15. QED
    BY <1>1, <1>2, <1>3, <1>4, <1>5, <1>6, <1>7, <1>8, <1>9, <1>10, <1>11, <1>12, <1>13,
       <1>14 DEF Next

\* Nobody but the call that gives up takes s.mu for longer than a step, and its
\* next step is to give it back.
LEMMA KeeperNext == KeeperInv /\ Shape /\ [Next]_vars => KeeperInv'
<1> SUFFICES ASSUME KeeperInv, Shape, [Next]_vars PROVE KeeperInv'
    OBVIOUS
<1> USE SdkAssumption DEF KeeperInv, Shape, SmuFree
<1>1. ASSUME NEW a \in Calls, NEW i \in Ids, Refuse(a, i) \/ Register(a, i) PROVE KeeperInv'
    BY <1>1 DEF Refuse, Register
<1>2. ASSUME NEW a \in Calls, SendFails(a) \/ TimeOut(a) PROVE KeeperInv'
    BY <1>2 DEF SendFails, TimeOut, GiveUp
<1>3. ASSUME NEW a \in Calls, Cancel(a) PROVE KeeperInv'
    BY <1>3 DEF Cancel
<1>4. ASSUME NEW a \in Calls, Admit(a) \/ Dispatch(a) \/ TakeResult(a) PROVE KeeperInv'
    BY <1>4 DEF Admit, Dispatch, TakeResult
<1>5. ASSUME UNCHANGED <<smu, call>> PROVE KeeperInv'
    BY <1>5
<1>6. ASSUME NEW a \in Calls, Respond(a) PROVE UNCHANGED <<smu, call>>
    BY <1>6 DEF Respond
<1>7. ASSUME NEW u \in Ups, \/ Install(u) \/ ObserveConnected(u) \/ HubDrop(u)
                            \/ Lose(u) \/ CountClients(u) \/ ObserveLost(u)
      PROVE  UNCHANGED <<smu, call>>
    BY <1>7 DEF Install, ObserveConnected, HubDrop, Lose, CountClients, ObserveLost, callVars
<1>8. ASSUME BeginClose \/ FailPending \/ CloseApp \/ FinishApp \/ UNCHANGED vars
      PROVE  UNCHANGED <<smu, call>>
    BY <1>8 DEF BeginClose, FailPending, CloseApp, FinishApp, vars, callVars
<1>9. QED
    BY <1>1, <1>2, <1>3, <1>4, <1>5, <1>6, <1>7, <1>8 DEF Next

\* Every step keeps the limit on pending calls.
LEMMA BoundNext == BoundInv /\ Shape /\ Agree /\ [Next]_vars => BoundInv'
<1> SUFFICES ASSUME BoundInv, Shape, Agree, [Next]_vars PROVE BoundInv'
    OBVIOUS
<1>1. ASSUME NEW a \in Calls, NEW i \in Ids, Register(a, i) PROVE BoundInv'
    BY <1>1, OccupantsGrow DEF Shape
<1>2. ASSUME NEW a \in Calls, SendFails(a) \/ TimeOut(a) \/ Respond(a) PROVE BoundInv'
  <2>1. pending' = [pending EXCEPT ![idOf[a]] = NoCall]
    BY <1>2 DEF SendFails, TimeOut, Respond, GiveUp
  <2>2. \A i \in Ids : pending'[i] # NoCall => pending[i] # NoCall
    BY <2>1 DEF Shape
  <2>3. QED
    BY <2>2, OccupantsShrink
<1>3. ASSUME NEW u \in Ups, ObserveLost(u) PROVE BoundInv'
    BY <1>3, OccupantsShrink DEF ObserveLost, FailAll
<1>4. ASSUME FailPending PROVE BoundInv'
    BY <1>4, OccupantsShrink DEF FailPending, FailAll
<1>5. ASSUME UNCHANGED pending PROVE BoundInv'
    BY <1>5, OccupantsShrink
<1>6. ASSUME NEW a \in Calls, NEW i \in Ids, Refuse(a, i) PROVE UNCHANGED pending
    BY <1>6 DEF Refuse
<1>7. ASSUME NEW a \in Calls, Admit(a) \/ Dispatch(a) \/ TakeResult(a) \/ Cancel(a)
      PROVE  UNCHANGED pending
    BY <1>7 DEF Admit, Dispatch, TakeResult, Cancel
<1>8. ASSUME NEW u \in Ups, \/ Install(u) \/ ObserveConnected(u) \/ HubDrop(u)
                            \/ Lose(u) \/ CountClients(u)
      PROVE  UNCHANGED pending
    BY <1>8 DEF Install, ObserveConnected, HubDrop, Lose, CountClients, callVars
<1>9. ASSUME BeginClose \/ CloseApp \/ FinishApp \/ UNCHANGED vars PROVE UNCHANGED pending
    BY <1>9 DEF BeginClose, CloseApp, FinishApp, vars, callVars
<1>10. QED
    BY <1>1, <1>2, <1>3, <1>4, <1>5, <1>6, <1>7, <1>8, <1>9 DEF Next

\* Every step keeps the types; the limit is BoundNext.
LEMMA TypeNext == TypeOK /\ BoundInv' /\ Agree /\ [Next]_vars => TypeOK'
<1> SUFFICES ASSUME TypeOK, BoundInv', Agree, [Next]_vars PROVE TypeOK'
    OBVIOUS
<1> USE DEF TypeOK, BoundInv, callVars, appVars, LinkTypeOK, linkVars, Links, AppStages, Active
<1>1. ASSUME NEW a \in Calls, NEW i \in Ids, Refuse(a, i) PROVE TypeOK'
    BY <1>1 DEF Refuse
<1>2. ASSUME NEW a \in Calls, NEW i \in Ids, Register(a, i) PROVE TypeOK'
    BY <1>2 DEF Register
<1>3. ASSUME NEW a \in Calls, Admit(a) PROVE TypeOK'
    BY <1>3 DEF Admit
<1>4. ASSUME NEW a \in Calls, SendFails(a) PROVE TypeOK'
    BY <1>4 DEF SendFails, GiveUp
<1>5. ASSUME NEW a \in Calls, Dispatch(a) PROVE TypeOK'
  <2>1. idOf[a] \in Ids
    BY <1>5 DEF Dispatch, Agree, StartedInv
  <2>2. CASE hub = NoConn
    BY <1>5, <2>1, <2>2 DEF Dispatch
  <2>3. CASE hub # NoConn
    BY <1>5, <2>1, <2>3 DEF Dispatch
  <2>4. QED
    BY <2>2, <2>3
<1>6. ASSUME NEW a \in Calls, TakeResult(a) PROVE TypeOK'
    BY <1>6 DEF TakeResult
<1>7. ASSUME NEW a \in Calls, TimeOut(a) PROVE TypeOK'
    BY <1>7 DEF TimeOut, GiveUp
<1>8. ASSUME NEW a \in Calls, Respond(a) PROVE TypeOK'
  <2>1. channel' \in [Calls -> Results]
    BY <1>8 DEF Respond, Results
  <2>2. QED
    BY <1>8, <2>1 DEF Respond
<1>9. ASSUME NEW u \in Ups, Install(u) \/ ObserveConnected(u) \/ HubDrop(u) PROVE TypeOK'
    BY <1>9 DEF Install, ObserveConnected, HubDrop, LinkInstall, LinkConnected, LinkDrop
<1>10. ASSUME NEW u \in Ups, Lose(u) \/ CountClients(u) PROVE TypeOK'
    BY <1>10 DEF Lose, CountClients, LinkLose, LinkCount
<1>11. ASSUME NEW u \in Ups, ObserveLost(u) PROVE TypeOK'
  <2>1. pending' \in [Ids -> Calls \cup {NoCall}] /\ channel' \in [Calls -> Results]
        /\ table' \subseteq Ids
    BY <1>11 DEF ObserveLost, FailAll, Results
  <2>2. QED
    BY <1>11, <2>1 DEF ObserveLost, LinkObserved
<1>12. ASSUME FailPending PROVE TypeOK'
  <2>1. pending' \in [Ids -> Calls \cup {NoCall}] /\ channel' \in [Calls -> Results]
        /\ table' \subseteq Ids
    BY <1>12 DEF FailPending, FailAll, Results
  <2>2. QED
    BY <1>12, <2>1 DEF FailPending
<1>13. ASSUME BeginClose \/ CloseApp \/ FinishApp PROVE TypeOK'
    BY <1>13 DEF BeginClose, CloseApp, FinishApp, LinkCloses, LinkBeginsClose, LinkLocks,
                 LinkUnlocks, LinkClosed
<1>14. ASSUME UNCHANGED vars PROVE TypeOK'
    BY <1>14 DEF vars, Occupants
<1>15. ASSUME NEW a \in Calls, Cancel(a) PROVE TypeOK'
    BY <1>15 DEF Cancel
<1>16. QED
    BY <1>1, <1>2, <1>3, <1>4, <1>5, <1>6, <1>7, <1>8, <1>9, <1>10, <1>11, <1>12, <1>13,
       <1>14, <1>15 DEF Next

-----------------------------------------------------------------------------
(* The theorems.                                                           *)

\* The invariant holds in every state of every behaviour.
THEOREM Invariance == SafetySpec => []IInv
<1>1. Init => IInv
    BY InitIInv
<1>2. IInv /\ [Next]_vars => IInv'
  <2> SUFFICES ASSUME IInv, [Next]_vars PROVE IInv'
    OBVIOUS
  <2>1. Agree /\ Shape /\ BoundInv
    BY ShapeHolds DEF IInv, Agree, BoundInv, TypeOK
  <2>2. Agree' /\ BoundInv' /\ KeeperInv'
    BY <2>1, AgreeNext, BoundNext, KeeperNext DEF IInv
  <2>3. TypeOK'
    BY <2>1, <2>2, TypeNext DEF IInv
  <2>4. QED
    BY <2>2, <2>3 DEF IInv, Agree, BoundInv
<1>3. QED
    BY <1>1, <1>2, PTL DEF SafetySpec

\* sendPayload, observeCDP, observeConnection and shutdown keep every field in
\* its range and the number of pending calls within Options.PendingLimit.
THEOREM LimitKept == SafetySpec => []TypeOK
  BY Invariance, PTL DEF IInv

\* s.pending never leads to a call that is over or has its result already, so
\* observeCDP never blocks on a result channel.
THEOREM OnlyLiveCallsPending == SafetySpec => []PendingIsLive
  BY Invariance, PTL DEF IInv

\* A call under way without a result stays reachable for whatever would end it.
THEOREM WaitersReachable == SafetySpec => []WaiterIsPending
  BY Invariance, PTL DEF IInv

\* So s.pending and the calls under way match, for any number of calls.
THEOREM PendingMatches == SafetySpec => []PendingMatchesCalls
  BY OnlyLiveCallsPending, WaitersReachable, PTL DEF PendingMatchesCalls

\* observeCDP hands a response to a call with its id, and to the very call it
\* answers if the id was not reused.
THEOREM ResponsesReachAskers == SafetySpec => []ResponseToAsker
  BY Invariance, PTL DEF IInv

-----------------------------------------------------------------------------
(* Losses.                                                                 *)

\* Only a connection in use is in the hub, so no request goes to a transport
\* whose loss has been observed already.
HubInv ==
    /\ link \in [Ups -> Links] /\ hub \in Ups \cup {NoConn}
    /\ sentOn \in [Calls -> Ups \cup {NoConn}]
    /\ hub # NoConn => link[hub] \in {"installed", "serving"}
    /\ \A a \in Calls : call[a] \in {"idle", "registered", "admitted"} => sentOn[a] = NoConn

Sent == {"waiting", "cancelling", "done"}

LossInv == HubInv /\ LossIsTold

LEMMA LossInit == Init => LossInv
  BY DEF Init, LinkInit, LossInv, HubInv, LossIsTold, Links

\* The steps that neither touch the endpoint nor send anything: what a call
\* waits for, nobody takes back.
LEMMA LossKept ==
    ASSUME Shape, StartedInv, LossInv, UNCHANGED <<linkVars, sentOn>>,
           \A a \in Calls : /\ call'[a] = "waiting" => call[a] = "waiting"
                            /\ call[a] \in Sent => call'[a] \in Sent
                            /\ channel'[a] = Empty => channel[a] = Empty
                            /\ idOf'[a] = idOf[a] \/ idOf[a] = NoId,
           Shape', state' = "running" => state = "running"
    PROVE  LossInv'
<1>1. HubInv'
    BY DEF LossInv, HubInv, linkVars, Shape, Active, Sent
<1>2. ASSUME NEW a \in Calls, call'[a] = "waiting", Alone(a)' PROVE Alone(a)
  <2>1. idOf[a] \in Ids /\ idOf'[a] = idOf[a]
    BY <1>2, SdkAssumption DEF StartedInv, Active
  <2>2. QED
    BY <1>2, <2>1, SdkAssumption DEF Alone
<1>3. LossIsTold'
    BY <1>2 DEF LossInv, LossIsTold, linkVars
<1>4. QED
    BY <1>1, <1>3 DEF LossInv

\* Every step of the endpoint but the observation of a loss: no connection
\* comes to its end, and none is counted again.
LEMMA LinkSteps ==
    ASSUME LossInv, NEW u \in Ups,
           \/ Install(u) \/ ObserveConnected(u) \/ HubDrop(u) \/ Lose(u) \/ CountClients(u)
    PROVE  LossInv'
<1> USE DEF LossInv, HubInv, Links, callVars
<1>1. CASE Install(u)
    BY <1>1, LinkAssumption DEF Install, LinkInstall, LossIsTold, Alone, appVars
<1>2. CASE ObserveConnected(u)
    BY <1>2 DEF ObserveConnected, LinkConnected, LossIsTold, Alone, appVars
<1>3. CASE HubDrop(u)
    BY <1>3 DEF HubDrop, LinkDrop, LossIsTold, Alone, appVars
<1>4. CASE Lose(u)
    BY <1>4 DEF Lose, LinkLose, LossIsTold, Alone
<1>5. CASE CountClients(u)
  <2>1. ASSUME NEW v \in Ups, link'[v] = "gone" PROVE link[v] = "gone" /\ counted'[v] = counted[v]
    BY <1>5, <2>1 DEF CountClients, LinkCount
  <2>2. QED
    BY <1>5, <2>1 DEF CountClients, LinkCount, LossIsTold, Alone, appVars
<1>6. QED
    BY <1>1, <1>2, <1>3, <1>4, <1>5

\* The observer of a loss tells every call that can be found, which is every
\* call that waits without a result.
LEMMA LossObserved ==
    ASSUME Agree, Shape, LossInv, NEW u \in Ups, ObserveLost(u) PROVE LossInv'
<1>1. HubInv'
    BY DEF LossInv, HubInv, ObserveLost, LinkObserved, Links
<1>2. ASSUME NEW a \in Calls, NEW v \in Ups,
             call[a] = "waiting", channel'[a] = Empty, Alone(a), state = "running",
             sentOn[a] = v, link'[v] = "gone"
      PROVE  counted'[v]
  <2>1. CASE counted[u]
    BY <1>2, <2>1 DEF ObserveLost, LinkObserved, LossInv, HubInv, LossIsTold
  <2>2. CASE ~counted[u]
    <3>1. FailAll(Lost)
        BY <1>2, <2>2 DEF ObserveLost
    <3>2. a \notin Range(pending) /\ channel[a] = Empty
        BY <1>2, <3>1, KindsDiffer DEF FailAll, Shape
    <3>3. pending[idOf[a]] = a /\ idOf[a] \in Ids
        BY <1>2, <3>2 DEF Agree, WaiterIsPending, StartedInv, Active
    <3>4. QED
        BY <3>2, <3>3 DEF Range, Shape
  <2>3. QED
    BY <2>1, <2>2
<1>3. LossIsTold'
    BY <1>2 DEF LossIsTold, Alone, ObserveLost
<1>4. QED
    BY <1>1, <1>3 DEF LossInv

\* A request goes to the connection in the hub, whose loss is still to come.
LEMMA DispatchStep ==
    ASSUME LossInv, Shape, NEW a \in Calls, Dispatch(a) PROVE LossInv'
<1>1. /\ call' = [call EXCEPT ![a] = "waiting"] /\ call[a] = "admitted"
      /\ UNCHANGED <<idOf, channel, state, link, counted, hub>>
      /\ \A b \in Calls \ {a} : sentOn'[b] = sentOn[b]
    BY DEF Dispatch, LossInv, HubInv, linkVars
<1>2. sentOn' \in [Calls -> Ups \cup {NoConn}] /\ (hub # NoConn => sentOn'[a] = hub)
    BY DEF Dispatch, LossInv, HubInv
<1>3. hub = NoConn => sentOn'[a] = sentOn[a]
    BY DEF Dispatch
<1>4. HubInv'
    BY <1>1, <1>2 DEF LossInv, HubInv, Shape
<1>5. LossIsTold'
  <2> SUFFICES ASSUME NEW b \in Calls, NEW u \in Ups,
                      call'[b] = "waiting", channel[b] = Empty, Alone(b), state = "running",
                      sentOn'[b] = u, link[u] = "gone"
               PROVE  counted[u]
    BY <1>1 DEF LossIsTold, Alone
  <2>1. CASE b = a
    BY <1>1, <1>2, <1>3, <2>1, LinkAssumption DEF LossInv, HubInv
  <2>2. CASE b # a
    BY <1>1, <2>2 DEF LossInv, LossIsTold, Shape
  <2>3. QED
    BY <2>1, <2>2
<1>6. QED
    BY <1>4, <1>5 DEF LossInv

\* Every step keeps it.
LEMMA LossNext == Agree /\ Shape /\ Shape' /\ LossInv /\ [Next]_vars => LossInv'
<1> SUFFICES ASSUME Agree, Shape, Shape', LossInv, [Next]_vars PROVE LossInv'
    OBVIOUS
<1>0. StartedInv
    BY DEF Agree
<1>1. ASSUME NEW a \in Calls, NEW i \in Ids, Refuse(a, i) PROVE LossInv'
    BY <1>0, <1>1, LossKept DEF Refuse, appVars, Shape, Sent
<1>2. ASSUME NEW a \in Calls, NEW i \in Ids, Register(a, i) PROVE LossInv'
    BY <1>0, <1>2, LossKept DEF Register, appVars, Shape, StartedInv, Sent
<1>3. ASSUME NEW a \in Calls, Admit(a) \/ TakeResult(a) PROVE LossInv'
    BY <1>0, <1>3, LossKept DEF Admit, TakeResult, appVars, Shape, Sent
<1>4. ASSUME NEW a \in Calls, SendFails(a) \/ TimeOut(a) PROVE LossInv'
    BY <1>0, <1>4, LossKept DEF SendFails, TimeOut, GiveUp, appVars, Shape, Sent
<1>5. ASSUME NEW a \in Calls, Dispatch(a) PROVE LossInv'
    BY <1>5, DispatchStep
<1>6. ASSUME NEW a \in Calls, Respond(a) PROVE LossInv'
  <2>1. \A b \in Calls : channel'[b] = Empty => channel[b] = Empty
    BY <1>6, KindsDiffer DEF Respond, Shape
  <2>2. QED
    BY <1>0, <1>6, <2>1, LossKept DEF Respond
<1>7. ASSUME NEW u \in Ups, \/ Install(u) \/ ObserveConnected(u) \/ HubDrop(u)
                            \/ Lose(u) \/ CountClients(u)
      PROVE  LossInv'
    BY <1>7, LinkSteps
<1>8. ASSUME NEW u \in Ups, ObserveLost(u) PROVE LossInv'
    BY <1>8, LossObserved
<1>9. ASSUME FailPending PROVE LossInv'
  <2>1. \A b \in Calls : channel'[b] = Empty => channel[b] = Empty
    BY <1>9, KindsDiffer DEF FailPending, FailAll, Shape
  <2>2. QED
    BY <1>0, <1>9, <2>1, LossKept DEF FailPending
<1>10. ASSUME BeginClose \/ UNCHANGED vars PROVE LossInv'
    BY <1>0, <1>10, LossKept DEF BeginClose, vars, appVars, callVars
<1>11. ASSUME CloseApp \/ FinishApp PROVE LossInv'
  <2>1. /\ UNCHANGED <<link, counted, callVars, sentOn, state>>
        /\ hub' = hub \/ hub' = NoConn
    BY <1>11 DEF CloseApp, FinishApp, LinkCloses, LinkBeginsClose, LinkLocks, LinkUnlocks,
                 LinkClosed, linkVars, appVars
  <2>2. QED
    BY <2>1 DEF callVars, LossInv, HubInv, LossIsTold, Alone
<1>12. ASSUME NEW a \in Calls, Cancel(a) PROVE LossInv'
    BY <1>0, <1>12, LossKept DEF Cancel, Shape, Sent
<1>13. QED
    BY <1>1, <1>2, <1>3, <1>4, <1>5, <1>6, <1>7, <1>8, <1>9, <1>10, <1>11, <1>12 DEF Next

\* observeConnection fails the pending calls of a lost transport: whoever still
\* waits on it has the next connection, which had been there when the loss was
\* counted, and so is not forgotten by the SDK.
THEOREM LossesAreTold == SafetySpec => []LossIsTold
<1>1. IInv /\ IInv' => Agree /\ Shape /\ Shape'
    BY ShapeHolds DEF IInv, Agree, TypeOK, Shape
<1>2. Init => LossInv
    BY LossInit
<1>3. Agree /\ Shape /\ Shape' /\ LossInv /\ [Next]_vars => LossInv'
    BY LossNext
<1>4. LossInv => LossIsTold
    BY DEF LossInv
<1>5. QED
    BY <1>1, <1>2, <1>3, <1>4, Invariance, PTL DEF SafetySpec
=============================================================================
