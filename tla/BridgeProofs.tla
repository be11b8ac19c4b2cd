----------------------------- MODULE BridgeProofs -----------------------------
(***************************************************************************)
(* Proofs about Bridge, for every set of connections and ids and every     *)
(* limit: the endpoints keep following Ownership while requests, losses    *)
(* and full queues act on them, and no request or fence outlives what it   *)
(* belongs to.                                                             *)
(***************************************************************************)
EXTENDS Bridge, SequenceTheorems, FunctionTheorems, FiniteSetTheorems, TLAPS

\* The theorems of Ownership for both endpoints.
UP == INSTANCE OwnershipProofs
       WITH Conns <- Ups, owner <- dOwner, claimed <- dClaimed, generation <- dGen,
            connGen <- dConnGen, phase <- dPhase, hub <- dHub, down <- dDown,
            closeStage <- "open"
CP == INSTANCE OwnershipProofs
       WITH Conns <- Ctls, owner <- cOwner, claimed <- cClaimed, generation <- cGen,
            connGen <- cConnGen, phase <- cPhase, hub <- cHub, down <- cDown,
            closeStage <- "open"

-----------------------------------------------------------------------------
(* Both endpoints follow Ownership.                                        *)

EndpointInv == UP!IInv /\ CP!IInv

\* Initially both endpoints satisfy the invariant of Ownership.
LEMMA EndpointInit == U!Init /\ C!Init => EndpointInv
<1>1. U!Init => UP!IInv
    <2>1. U!Init => UP!Init
        BY DEF U!Init, UP!Init
    <2>2. QED
        BY <2>1, UP!InitIInv, BridgeAssumption
<1>2. C!Init => CP!IInv
    <2>1. C!Init => CP!Init
        BY DEF C!Init, CP!Init
    <2>2. QED
        BY <2>1, CP!InitIInv, BridgeAssumption
<1>3. QED
    BY <1>1, <1>2 DEF EndpointInv

\* A step of either endpoint preserves the endpoint's invariant.
LEMMA EndpointNext ==
    EndpointInv /\ [U!Next]_debugVars /\ [C!Next]_cdpVars => EndpointInv'
<1> SUFFICES ASSUME EndpointInv, [U!Next]_debugVars, [C!Next]_cdpVars PROVE EndpointInv'
    OBVIOUS
<1>1. UP!IInv'
    <2>1. U!Next => UP!Next
        BY DEF
           U!Next, UP!Next, U!Handler, UP!Handler, U!Reader, UP!Reader,
           U!Closer, UP!Closer, U!Reject, UP!Reject, U!Reserve, UP!Reserve,
           U!UpgradeFailed, UP!UpgradeFailed, U!InstallRefused,
           UP!InstallRefused, U!Install, UP!Install, U!StartReader,
           UP!StartReader, U!TransportFails, UP!TransportFails, U!HubDrop,
           UP!HubDrop, U!Release, UP!Release, U!FinishRelease,
           UP!FinishRelease, U!BeginClose, UP!BeginClose, U!CloseClients,
           UP!CloseClients, U!FinishClose, UP!FinishClose, U!MoveTo,
           UP!MoveTo, U!Occupied, UP!Occupied, U!closing, UP!closing,
           U!Current, UP!Current, U!ConnectionsDone, UP!ConnectionsDone,
           U!slotVars, UP!slotVars, U!ClientsClosed, UP!ClientsClosed,
           U!ConnMuFree, UP!ConnMuFree
    <2>2. [UP!Next]_UP!vars
        BY <2>1 DEF debugVars, UP!vars
    <2>3. QED
        BY <2>2, UP!NextIInv, BridgeAssumption DEF EndpointInv
<1>2. CP!IInv'
    <2>1. C!Next => CP!Next
        BY DEF
           C!Next, CP!Next, C!Handler, CP!Handler, C!Reader, CP!Reader,
           C!Closer, CP!Closer, C!Reject, CP!Reject, C!Reserve, CP!Reserve,
           C!UpgradeFailed, CP!UpgradeFailed, C!InstallRefused,
           CP!InstallRefused, C!Install, CP!Install, C!StartReader,
           CP!StartReader, C!TransportFails, CP!TransportFails, C!HubDrop,
           CP!HubDrop, C!Release, CP!Release, C!FinishRelease,
           CP!FinishRelease, C!BeginClose, CP!BeginClose, C!CloseClients,
           CP!CloseClients, C!FinishClose, CP!FinishClose, C!MoveTo,
           CP!MoveTo, C!Occupied, CP!Occupied, C!closing, CP!closing,
           C!Current, CP!Current, C!ConnectionsDone, CP!ConnectionsDone,
           C!slotVars, CP!slotVars, C!ClientsClosed, CP!ClientsClosed,
           C!ConnMuFree, CP!ConnMuFree
    <2>2. [CP!Next]_CP!vars
        BY <2>1 DEF cdpVars, CP!vars
    <2>3. QED
        BY <2>2, CP!NextIInv, BridgeAssumption DEF EndpointInv
<1>3. QED
    BY <1>1, <1>2 DEF EndpointInv

\* What the invariant says about an owner and its reader.
LEMMA UpstreamFacts ==
    ASSUME EndpointInv
    PROVE  /\ dHub \subseteq Ups /\ dOwner \in Ups \cup {NoConn}
           /\ \A u \in Ups : dPhase[u] \in {"installed", "serving"} <=> dOwner = u
  BY DEF EndpointInv, UP!IInv, UP!TypeOK, UP!OwnerInv, UP!Live

\* The same for the controller endpoint.
LEMMA ControllerFacts ==
    ASSUME EndpointInv
    PROVE  /\ cHub \subseteq Ctls /\ cOwner \in Ctls \cup {NoConn}
           /\ \A d \in Ctls : cPhase[d] \in {"installed", "serving"} <=> cOwner = d
           /\ cOwner # NoConn => cConnGen[cOwner] = cGen
  BY DEF EndpointInv, UP!IInv, CP!IInv, CP!TypeOK, CP!OwnerInv, CP!GenerationInv, CP!Live

\* A full queue of the upstream is a step of its endpoint.
LEMMA TransmitStep ==
    ASSUME EndpointInv, NEW a, NEW i, Transmit(a, i) PROVE [U!Next]_debugVars
<1>1. \A u \in dHub : U!HubDrop(u) => U!Next
    BY UpstreamFacts DEF U!Next, U!Reader
<1>2. QED
    BY <1>1 DEF Transmit

\* So is a full queue of the controller.
LEMMA ForwardStep ==
    ASSUME EndpointInv, NEW r, Forward(r) PROVE [C!Next]_cdpVars
<1>1. \A d \in cHub : C!HubDrop(d) => C!Next
    BY ControllerFacts DEF C!Next, C!Reader
<1>2. QED
    BY <1>1 DEF Forward

\* Failing the controller's requests is a step of its endpoint, too.
LEMMA FailStep ==
    ASSUME EndpointInv, FailController PROVE [C!Next]_cdpVars
<1>1. CASE UNCHANGED cdpVars
    BY <1>1
<1>2. CASE /\ cOwner # NoConn
           /\ cDown' = cDown \cup {cOwner}
           /\ UNCHANGED <<cOwner, cClaimed, cGen, cConnGen, cPhase, cHub>>
    <2>1. cOwner \in Ctls /\ cPhase[cOwner] \in {"installed", "serving"}
        BY <1>2, ControllerFacts
    <2>2. CASE cOwner \in cDown
        BY <1>2, <2>2 DEF cdpVars
    <2>3. CASE cOwner \notin cDown
        <3>1. C!TransportFails(cOwner)
            BY <1>2, <2>1, <2>3 DEF C!TransportFails
        <3>2. QED
            BY <2>1, <3>1 DEF C!Next, C!Reader
    <2>4. QED
        BY <2>2, <2>3
<1>3. QED
    BY <1>1, <1>2 DEF FailController

\* Every step of the bridge is a step of each endpoint, or leaves it alone.
LEMMA EndpointSteps ==
    EndpointInv /\ [Next]_vars => [U!Next]_debugVars /\ [C!Next]_cdpVars
<1> SUFFICES ASSUME EndpointInv, [Next]_vars PROVE [U!Next]_debugVars /\ [C!Next]_cdpVars
    OBVIOUS
<1>1. ASSUME NEW u \in Ups, UpstreamStep(u) \/ InstallUpstream(u) \/ StartUpstream(u)
      PROVE  [U!Next]_debugVars /\ UNCHANGED cdpVars
    BY <1>1 DEF UpstreamStep, InstallUpstream, StartUpstream, U!Next, U!Handler, U!Reader
<1>2. ASSUME NEW u \in Ups, Bootstrap(u)
      PROVE  [U!Next]_debugVars /\ UNCHANGED cdpVars
    BY <1>2, TransmitStep DEF Bootstrap
<1>3. ASSUME NEW u \in Ups, ReleaseUpstream(u)
      PROVE  [U!Next]_debugVars /\ [C!Next]_cdpVars
    BY <1>3, FailStep DEF ReleaseUpstream, U!Next, U!Reader
<1>4. ASSUME NEW d \in Ctls, CdpStep(d) \/ ControllerRefused(d) \/ ReleaseController(d)
      PROVE  [C!Next]_cdpVars /\ UNCHANGED debugVars
    BY <1>4 DEF CdpStep, ControllerRefused, ReleaseController, C!Next, C!Handler, C!Reader
<1>5. ASSUME NEW d \in Ctls, NEW i \in Ids, ControllerSend(d, i)
      PROVE  [U!Next]_debugVars /\ UNCHANGED cdpVars
    BY <1>5, TransmitStep DEF ControllerSend
<1>6. ASSUME NEW i \in Ids, SdkSend(i) \/ SdkGiveUp(i)
      PROVE  [U!Next]_debugVars /\ UNCHANGED cdpVars
    BY <1>6, TransmitStep DEF SdkSend, SdkGiveUp
<1>7. ASSUME NEW e \in pending, Expire(e)
      PROVE  UNCHANGED debugVars /\ UNCHANGED cdpVars
    BY <1>7 DEF Expire
<1>8. ASSUME NEW k \in 1..MaxInflight, Respond(k)
      PROVE  UNCHANGED debugVars /\ [C!Next]_cdpVars
    BY <1>8, ForwardStep DEF Respond, Drop
<1>9. CASE UNCHANGED vars
    BY <1>9 DEF vars
<1>10. QED
    BY <1>1, <1>2, <1>3, <1>4, <1>5, <1>6, <1>7, <1>8, <1>9 DEF Next

\* So the invariant of Ownership holds for both throughout.
LEMMA EndpointInvariance == Spec => []EndpointInv
<1>1. Init => EndpointInv
    BY EndpointInit DEF Init
<1>2. EndpointInv /\ [Next]_vars => EndpointInv'
    BY EndpointSteps, EndpointNext
<1>3. QED
    BY <1>1, <1>2, PTL DEF Spec

\* readDebug and readCDP, as they run among requests, losses and full queues,
\* are faithful instances of the endpoint protocol: everything proved of
\* Ownership holds of both endpoints of the bridge.
THEOREM EndpointsFollowOwnership == Spec => EndpointsOwned
<1>1. Init => U!Init /\ C!Init
    BY DEF Init
<1>2. EndpointInv /\ [Next]_vars => [U!Next]_debugVars /\ [C!Next]_cdpVars
    BY EndpointSteps
<1>3. [U!Next]_debugVars => [U!Next]_U!vars
    BY DEF debugVars, U!vars
<1>4. [C!Next]_cdpVars => [C!Next]_C!vars
    BY DEF cdpVars, C!vars
<1>5. QED
    BY <1>1, <1>2, <1>3, <1>4, EndpointInvariance, PTL
       DEF Spec, EndpointsOwned, U!SafetySpec, C!SafetySpec

-----------------------------------------------------------------------------
(* Requests and fences belong to somebody.                                 *)

RouteInv == PendingOwned /\ FencesNeedUpstream /\ FencedNeverReused

\* Endpoint steps that install or release nobody change no owner.
LEMMA UpstreamQuiet ==
    ASSUME NEW u, UpstreamStep(u) \/ StartUpstream(u) PROVE UNCHANGED <<dOwner, dGen>>
  BY DEF UpstreamStep, StartUpstream, U!Reject, U!Reserve, U!UpgradeFailed, U!TransportFails,
         U!FinishRelease, U!StartReader

\* Nor does sending to the upstream.
LEMMA TransmitQuiet ==
    ASSUME NEW a, NEW i, Transmit(a, i) PROVE UNCHANGED <<dOwner, dGen>>
  BY DEF Transmit, debugVars, U!HubDrop

\* Nor does a response that is forwarded.
LEMMA ForwardQuiet ==
    ASSUME NEW r, Forward(r) \/ FailController \/ Drop PROVE UNCHANGED <<cOwner, cGen>>
  BY DEF Forward, FailController, Drop, cdpVars, C!HubDrop

\* A step of the controller endpoint leaves its generation alone, or starts one
\* while nobody owns the endpoint.
LEMMA CdpOwner ==
    ASSUME NEW d, CdpStep(d) PROVE cOwner = NoConn \/ UNCHANGED <<cOwner, cGen>>
  BY DEF CdpStep, C!Reject, C!Reserve, C!UpgradeFailed, C!TransportFails, C!FinishRelease,
         C!StartReader, C!Install

\* Every step keeps requests and fences with their owners.
LEMMA RouteNext == EndpointInv /\ RouteInv /\ [Next]_vars => RouteInv'
<1> SUFFICES ASSUME EndpointInv, RouteInv, [Next]_vars PROVE RouteInv'
    OBVIOUS
<1> USE DEF RouteInv, PendingOwned, FencesNeedUpstream, FencedNeverReused, Fenced
<1>1. ASSUME NEW u \in Ups, UpstreamStep(u) \/ StartUpstream(u) PROVE RouteInv'
    <2>1. UNCHANGED <<dOwner, dGen>>
        BY <1>1, UpstreamQuiet
    <2>2. UNCHANGED <<cOwner, cGen, pending, fences, blocked>>
        BY <1>1 DEF UpstreamStep, StartUpstream, cdpVars, requestVars
    <2>3. QED
        BY <2>1, <2>2
<1>2. ASSUME NEW u \in Ups, InstallUpstream(u) PROVE RouteInv'
    <2>1. dOwner' # NoConn
        BY <1>2, BridgeAssumption DEF InstallUpstream, U!Install
    <2>2. QED
        BY <1>2, <2>1 DEF InstallUpstream, ClearFences, cdpVars
<1>3. ASSUME NEW u \in Ups, Bootstrap(u) PROVE RouteInv'
    <2>1. dOwner = u /\ u # NoConn
        BY <1>3, UpstreamFacts, BridgeAssumption DEF Bootstrap
    <2>2. UNCHANGED <<dOwner, cOwner, cGen, fences, blocked>>
        BY <1>3, TransmitQuiet DEF Bootstrap, cdpVars, debugVars
    <2>3. pending' \subseteq pending \cup {BootEntry(bootSeq + 1)}
        BY <1>3 DEF Bootstrap
    <2>4. BootEntry(bootSeq + 1).owner = "bootstrap"
        BY DEF BootEntry, Entry, Boot
    <2>5. QED
        BY <2>1, <2>2, <2>3, <2>4
<1>4. ASSUME NEW u \in Ups, ReleaseUpstream(u) PROVE RouteInv'
    BY <1>4 DEF ReleaseUpstream, ClearFences
<1>5. ASSUME NEW d \in Ctls, CdpStep(d) \/ ControllerRefused(d) PROVE RouteInv'
    <2>1. cOwner = NoConn \/ UNCHANGED <<cOwner, cGen>>
        BY <1>5, CdpOwner DEF ControllerRefused, cdpVars
    <2>2. UNCHANGED <<dOwner, pending, fences, blocked>>
        BY <1>5 DEF CdpStep, ControllerRefused, debugVars, requestVars
    <2>3. QED
        BY <2>1, <2>2
<1>6. ASSUME NEW d \in Ctls, NEW i \in Ids, ControllerSend(d, i) PROVE RouteInv'
    <2>1. cOwner # NoConn
        BY <1>6, ControllerFacts, BridgeAssumption DEF ControllerSend, MaySend
    <2>2. UNCHANGED <<dOwner, cOwner, cGen, fences, blocked>>
        BY <1>6, TransmitQuiet DEF ControllerSend, cdpVars
    <2>3. pending' = pending \cup {ControllerEntry(i)} /\ dOwner # NoConn /\ ~Fenced(i)
        BY <1>6 DEF ControllerSend, MaySend
    <2>4. ControllerEntry(i).gen = cGen /\ ControllerEntry(i).id = i
        BY DEF ControllerEntry, Entry
    <2>5. QED
        BY <2>1, <2>2, <2>3, <2>4
<1>7. ASSUME NEW i \in Ids, SdkSend(i) PROVE RouteInv'
    <2>1. UNCHANGED <<dOwner, cOwner, cGen, fences, blocked>>
        BY <1>7, TransmitQuiet DEF SdkSend, cdpVars, debugVars
    <2>2. pending' \subseteq pending \cup {UnscopedEntry(i)}
        BY <1>7 DEF SdkSend
    <2>3. UnscopedEntry(i).owner = ""
        BY DEF UnscopedEntry, Entry
    <2>4. QED
        BY <2>1, <2>2, <2>3
<1>8. ASSUME NEW i \in Ids, SdkGiveUp(i) PROVE RouteInv'
    BY <1>8 DEF SdkGiveUp, Without, cdpVars, debugVars
<1>9. ASSUME NEW e \in pending, Expire(e) PROVE RouteInv'
    BY <1>9 DEF Expire, cdpVars, debugVars
<1>10. ASSUME NEW k \in 1..MaxInflight, Respond(k) PROVE RouteInv'
    <2>1. UNCHANGED <<dOwner, cOwner, cGen, blocked>>
        BY <1>10, ForwardQuiet DEF Respond, Drop, debugVars, cdpVars
    <2>2. pending' \subseteq pending /\ fences' \subseteq fences
        BY <1>10 DEF Respond, Consumed
    <2>3. QED
        BY <2>1, <2>2
<1>11. ASSUME NEW d \in Ctls, ReleaseController(d) PROVE RouteInv'
    <2> DEFINE drained == OfScope(pending, "controller", cConnGen[d])
    <2>1. cOwner = d /\ cConnGen[d] = cGen
        BY <1>11, ControllerFacts, BridgeAssumption DEF ReleaseController, C!Release
    <2>2. \A e \in pending' : e \in pending /\ e.owner # "controller"
        BY <1>11, <2>1 DEF ReleaseController, OfScope
    <2>3. drained # {} => dOwner # NoConn
        BY DEF OfScope
    <2>4. (fences' # {} \/ blocked') => (fences # {} \/ blocked \/ drained # {})
        BY <1>11 DEF ReleaseController, AddFences
    <2>5. UNCHANGED dOwner
        BY <1>11 DEF ReleaseController, debugVars
    <2>6. QED
        BY <2>2, <2>3, <2>4, <2>5
<1>12. CASE UNCHANGED vars
    BY <1>12 DEF vars, debugVars, cdpVars, requestVars
<1>13. QED
    BY <1>1, <1>2, <1>3, <1>4, <1>5, <1>6, <1>7, <1>8, <1>9, <1>10, <1>11, <1>12 DEF Next

\* The invariant about requests holds in every state of every behaviour.
LEMMA RouteInvariance == Spec => []RouteInv
<1>1. Init => RouteInv
    BY DEF Init, RouteInv, PendingOwned, FencesNeedUpstream, FencedNeverReused
<1>2. QED
    BY <1>1, RouteNext, EndpointInvariance, PTL DEF Spec

\* readDebug, readCDP and the guards of sendCDPToContextLocked leave no request
\* behind that nobody can answer or nobody waits for.
THEOREM RequestsOwned == Spec => []PendingOwned
  BY RouteInvariance, PTL DEF RouteInv

\* addCDPResponseFencesLocked never fences for a transport that is gone.
THEOREM FencesOwned == Spec => []FencesNeedUpstream
  BY RouteInvariance, PTL DEF RouteInv

\* The check of cdpResponseFencedLocked keeps fenced ids out of the table for
\* as long as the fence stands.
THEOREM FencedKeptOut == Spec => []FencedNeverReused
  BY RouteInvariance, PTL DEF RouteInv

\* Nobody but its reader ends an upstream connection.
LEMMA OnlyRelease ==
    ASSUME EndpointInv, [Next]_vars, dOwner # NoConn, dOwner' = NoConn
    PROVE  \E u \in Ups : ReleaseUpstream(u)
<1>1. \A u \in Ups : UpstreamStep(u) \/ StartUpstream(u) => dOwner' = dOwner
    BY UpstreamQuiet
<1>2. \A u \in Ups : InstallUpstream(u) => dOwner' # NoConn
    BY BridgeAssumption DEF InstallUpstream, U!Install
<1>3. \A u \in Ups : Bootstrap(u) => dOwner' = dOwner
    BY TransmitQuiet DEF Bootstrap, debugVars
<1>4. \A d \in Ctls : CdpStep(d) \/ ControllerRefused(d) \/ ReleaseController(d) => dOwner' = dOwner
    BY DEF CdpStep, ControllerRefused, ReleaseController, debugVars
<1>5. \A d \in Ctls, i \in Ids : ControllerSend(d, i) => dOwner' = dOwner
    BY TransmitQuiet DEF ControllerSend
<1>6. \A i \in Ids : SdkSend(i) \/ SdkGiveUp(i) => dOwner' = dOwner
    BY TransmitQuiet DEF SdkSend, SdkGiveUp, debugVars
<1>7. \A e \in pending : Expire(e) => dOwner' = dOwner
    BY DEF Expire, debugVars
<1>8. \A k \in 1..MaxInflight : Respond(k) => dOwner' = dOwner
    BY DEF Respond, debugVars
<1>9. UNCHANGED vars => dOwner' = dOwner
    BY DEF vars, debugVars
<1>10. QED
    BY <1>1, <1>2, <1>3, <1>4, <1>5, <1>6, <1>7, <1>8, <1>9 DEF Next

\* readDebug's cleanup tells the controller about every request it waits for, or
\* closes it: a request of a controller has a controller (PendingOwned).
THEOREM LossesReported == Spec => LossReported
<1> DEFINE Told == LET lost == IdsOf(ControllerPending)
                   IN  lost # {} => out' = Failed(cOwner, lost) \/ cOwner \in cDown'
<1>1. EndpointInv /\ RouteInv /\ [Next]_vars
        => [dOwner # NoConn /\ dOwner' = NoConn => Told]_vars
    <2> SUFFICES ASSUME EndpointInv, RouteInv, [Next]_vars, dOwner # NoConn, dOwner' = NoConn,
                        IdsOf(ControllerPending) # {}
                 PROVE  out' = Failed(cOwner, IdsOf(ControllerPending)) \/ cOwner \in cDown'
        OBVIOUS
    <2>1. PICK u \in Ups : ReleaseUpstream(u)
        BY OnlyRelease
    <2>2. ControllerPending # {} /\ cOwner # NoConn
        BY DEF IdsOf, ControllerPending, OfScope, RouteInv, PendingOwned
    <2>3. QED
        BY <2>1, <2>2 DEF ReleaseUpstream, FailController
<1>2. QED
    BY <1>1, EndpointInvariance, RouteInvariance, PTL DEF Spec, LossReported

-----------------------------------------------------------------------------
(* Who waits for what is on the transport.                                 *)

\* The table is finite, keeps its limit, and its entries are those the code
\* makes: only those of a controller have a generation.
TableInv ==
    /\ pending \subseteq [owner : ScopeTags, gen : Nat, id : Nat]
    /\ \A e \in pending : e.owner # "controller" => e.gen = 0
    /\ IsFiniteSet(pending) /\ Cardinality(pending) <= MaxPending
    /\ bootSeq \in Nat

\* The transport is that of the connection.
TransportInv ==
    /\ inflight \in Seq([asker : Askers, id : Nat])
    /\ dOwner = NoConn => inflight = <<>>

\* The requests of the bridge and of a controller that wait under an id, and
\* the places of an id in a sequence of requests.
Waits(i) == {e \in pending : e.id = i /\ e.owner # ""}
Places(s, i) == {k \in 1..Len(s) : s[k].id = i}

MatchInv ==
    dOwner \in dHub /\ ~blocked =>
        \A i : CountPending(i) + CountFence(i) <= CountInflight(i)

\* What is known of a request on the transport whose id is unambiguous.
Answerable(r) ==
    /\ r.asker = Boot => BootEntry(r.id) \in pending
    /\ r.asker \in Ctls =>
         /\ r.id \notin sdkWait
         /\ (cOwner = r.asker /\ ControllerEntry(r.id) \in pending) \/ Fenced(r.id)

AskerInv ==
    /\ \A j, k \in 1..Len(inflight) :
         inflight[j].id = inflight[k].id /\ inflight[j].id \notin mixed => j = k
    /\ \A k \in 1..Len(inflight) : inflight[k].id \notin mixed => Answerable(inflight[k])

\* An element leaves a sequence.
LEMMA Removed ==
    ASSUME NEW S, NEW s \in Seq(S), NEW k \in 1..Len(s)
    PROVE  /\ RemoveAt(s, k) \in Seq(S)
           /\ Len(RemoveAt(s, k)) = Len(s) - 1
           /\ \A j \in 1..(Len(s) - 1) :
                RemoveAt(s, k)[j] = IF j < k THEN s[j] ELSE s[j + 1]
<1> DEFINE front == SubSeq(s, 1, k - 1)
           rest == SubSeq(s, k + 1, Len(s))
<1>1. Len(s) \in Nat /\ k \in Int /\ 1 <= k /\ k <= Len(s) /\ \A j \in 1..Len(s) : s[j] \in S
    OBVIOUS
<1>2. /\ front \in Seq(S) /\ Len(front) = k - 1
      /\ \A j \in 1..(k - 1) : front[j] = s[j]
    <2>1. 1 \in Int /\ k - 1 \in Int /\ \A j \in 1..(k - 1) : s[j] \in S
        BY <1>1
    <2>2. /\ front \in Seq(S) /\ Len(front) = IF 1 <= k - 1 THEN (k - 1) - 1 + 1 ELSE 0
          /\ \A j \in 1..((k - 1) - 1 + 1) : front[j] = s[1 + j - 1]
        BY <2>1, SubSeqProperties
    <2>3. QED
        BY <1>1, <2>2
<1>3. /\ rest \in Seq(S) /\ Len(rest) = Len(s) - k
      /\ \A j \in 1..(Len(s) - k) : rest[j] = s[k + j]
    <2>1. k + 1 \in Int /\ Len(s) \in Int /\ \A j \in (k + 1)..Len(s) : s[j] \in S
        BY <1>1
    <2>2. /\ rest \in Seq(S)
          /\ Len(rest) = IF k + 1 <= Len(s) THEN Len(s) - (k + 1) + 1 ELSE 0
          /\ \A j \in 1..(Len(s) - (k + 1) + 1) : rest[j] = s[(k + 1) + j - 1]
        BY <2>1, SubSeqProperties
    <2>3. \A j \in 1..(Len(s) - k) : (k + 1) + j - 1 = k + j
        BY <1>1
    <2>4. QED
        BY <1>1, <2>2, <2>3
<1>4. RemoveAt(s, k) = front \o rest
    BY DEF RemoveAt
<1> HIDE DEF front, rest
<1>5. /\ front \o rest \in Seq(S) /\ Len(front \o rest) = Len(front) + Len(rest)
      /\ \A j \in 1..(Len(front) + Len(rest)) :
           (front \o rest)[j] = IF j <= Len(front) THEN front[j] ELSE rest[j - Len(front)]
    BY <1>2, <1>3, ConcatProperties
<1>6. ASSUME NEW j \in 1..(Len(s) - 1)
      PROVE  (front \o rest)[j] = IF j < k THEN s[j] ELSE s[j + 1]
    <2>1. CASE j < k
        BY <1>1, <1>2, <1>3, <1>5, <2>1
    <2>2. CASE ~(j < k)
        <3>1. ~(j <= Len(front)) /\ j - Len(front) \in 1..(Len(s) - k)
              /\ k + (j - Len(front)) = j + 1 /\ j \in 1..(Len(front) + Len(rest))
            BY <1>1, <1>2, <1>3, <2>2
        <3>2. QED
            BY <1>3, <1>5, <2>2, <3>1
    <2>3. QED
        BY <2>1, <2>2
<1>7. QED
    BY <1>1, <1>2, <1>3, <1>4, <1>5, <1>6

\* A set of places in a sequence can be counted.
LEMMA PlacesFinite ==
    ASSUME NEW n \in Nat, NEW P \in SUBSET (1..n)
    PROVE  IsFiniteSet(P) /\ Cardinality(P) \in Nat
<1>1. IsFiniteSet(1..n)
    BY FS_Interval, 1 \in Int, n \in Int
<1>2. QED
    BY <1>1, FS_Subset, FS_CardinalityType

\* Counting the places of an id when a request is sent, and when one is answered.
LEMMA CountSent ==
    ASSUME NEW S, NEW s \in Seq(S), NEW r \in S, NEW i
    PROVE  /\ Cardinality(Places(s, i)) \in Nat
           /\ Cardinality(Places(Append(s, r), i))
                = IF r.id = i THEN Cardinality(Places(s, i)) + 1 ELSE Cardinality(Places(s, i))
<1> DEFINE P == Places(s, i)
<1>1. Places(Append(s, r), i) = IF r.id = i THEN P \cup {Len(s) + 1} ELSE P
    BY DEF Places
<1>2. Len(s) + 1 \notin P
    BY DEF Places
<1>3. IsFiniteSet(P) /\ Cardinality(P) \in Nat
    BY PlacesFinite, Len(s) \in Nat DEF Places
<1>4. QED
    BY <1>1, <1>2, <1>3, FS_AddElement

LEMMA CountAnswered ==
    ASSUME NEW S, NEW s \in Seq(S), NEW k \in 1..Len(s), NEW i
    PROVE  /\ Cardinality(Places(s, i)) \in Nat
           /\ Cardinality(Places(RemoveAt(s, k), i)) \in Nat
           /\ Cardinality(Places(RemoveAt(s, k), i))
                >= IF s[k].id = i THEN Cardinality(Places(s, i)) - 1 ELSE Cardinality(Places(s, i))
<1> USE DEF Places
<1> DEFINE P == Places(s, i)
           Q == Places(RemoveAt(s, k), i)
           back == [j \in P \ {k} |-> IF j < k THEN j ELSE j - 1]
<1>1. Len(s) \in Nat /\ Len(s) - 1 \in Nat /\ k \in Nat
    OBVIOUS
<1>2. IsFiniteSet(P) /\ IsFiniteSet(Q) /\ Cardinality(P) \in Nat /\ Cardinality(Q) \in Nat
    BY <1>1, PlacesFinite, Removed
<1>3. /\ Len(RemoveAt(s, k)) = Len(s) - 1
      /\ \A j \in 1..(Len(s) - 1) : RemoveAt(s, k)[j] = IF j < k THEN s[j] ELSE s[j + 1]
    BY Removed
<1>4. ASSUME NEW j \in P \ {k} PROVE back[j] \in Q
    <2>1. CASE j < k
        <3>1. j \in 1..(Len(s) - 1) /\ RemoveAt(s, k)[j] = s[j]
            BY <1>1, <1>3, <2>1
        <3>2. QED
            BY <1>3, <2>1, <3>1
    <2>2. CASE j > k
        <3>1. j - 1 \in 1..(Len(s) - 1) /\ ~(j - 1 < k) /\ (j - 1) + 1 = j /\ ~(j < k)
            BY <1>1, <2>2
        <3>2. RemoveAt(s, k)[j - 1] = s[j]
            BY <1>3, <3>1
        <3>3. QED
            BY <1>3, <3>1, <3>2
    <2>3. QED
        BY <1>1, <2>1, <2>2
<1>5. Cardinality(P \ {k}) <= Cardinality(Q)
    <2>1. back \in [P \ {k} -> Q]
        BY <1>4
    <2>2. \A a, b \in P \ {k} : back[a] = back[b] => a = b
        BY <1>1
    <2> HIDE DEF P, Q, back
    <2>3. back \in Injection(P \ {k}, Q)
        BY <2>1, <2>2, Fun_IsInj
    <2>4. QED
        BY <1>2, <2>3, FS_Injection
<1>6. Cardinality(P \ {k}) = IF s[k].id = i THEN Cardinality(P) - 1 ELSE Cardinality(P)
    BY <1>2, FS_RemoveElement
<1>7. QED
    BY <1>2, <1>5, <1>6

\* Only the owner of an endpoint is in its hub.
LEMMA Hubs ==
    ASSUME EndpointInv
    PROVE  /\ dHub \subseteq {dOwner} /\ NoConn \notin dHub
           /\ cHub \subseteq {cOwner} /\ cGen \in Nat
<1>1. dHub \subseteq {dOwner} /\ NoConn \notin dHub
    BY BridgeAssumption DEF EndpointInv, UP!IInv, UP!TypeOK, UP!HubInv, UP!OwnerInv, UP!Live
<1>2. cHub \subseteq {cOwner} /\ cGen \in Nat
    BY DEF EndpointInv, CP!IInv, CP!TypeOK, CP!HubInv, CP!OwnerInv, CP!Live
<1>3. QED
    BY <1>1, <1>2

\* The kinds of entries.
LEMMA Entries ==
    /\ \A i \in Nat : BootEntry(i) \in [owner : ScopeTags, gen : Nat, id : Nat]
    /\ \A i \in Nat : UnscopedEntry(i) \in [owner : ScopeTags, gen : Nat, id : Nat]
    /\ cGen \in Nat => \A i \in Nat : ControllerEntry(i) \in [owner : ScopeTags, gen : Nat, id : Nat]
    /\ \A i : BootEntry(i).owner = "bootstrap" /\ BootEntry(i).gen = 0 /\ BootEntry(i).id = i
    /\ \A i : UnscopedEntry(i).owner = "" /\ UnscopedEntry(i).gen = 0 /\ UnscopedEntry(i).id = i
    /\ \A i : /\ ControllerEntry(i).owner = "controller" /\ ControllerEntry(i).gen = cGen
              /\ ControllerEntry(i).id = i
  BY DEF BootEntry, ControllerEntry, UnscopedEntry, Entry, Boot, ScopeTags

\* The table with one entry more, and with fewer.
LEMMA TableGrows ==
    ASSUME TableInv, NEW e \in [owner : ScopeTags, gen : Nat, id : Nat],
           e.owner # "controller" => e.gen = 0, Admits(pending, e),
           pending' = pending \cup {e}, bootSeq' \in Nat
    PROVE  TableInv'
<1>1. IsFiniteSet(pending) /\ Cardinality(pending) \in Nat /\ MaxPending \in Nat
    BY FS_CardinalityType, CorrelatorAssumption DEF TableInv
<1>2. /\ IsFiniteSet(pending \cup {e})
      /\ Cardinality(pending \cup {e})
           = IF e \in pending THEN Cardinality(pending) ELSE Cardinality(pending) + 1
    BY <1>1, FS_AddElement
<1>3. Cardinality(pending \cup {e}) <= MaxPending
    BY <1>1, <1>2 DEF TableInv, Admits
<1>4. /\ pending \cup {e} \subseteq [owner : ScopeTags, gen : Nat, id : Nat]
      /\ \A x \in pending \cup {e} : x.owner # "controller" => x.gen = 0
    BY DEF TableInv
<1>5. ScopeTags' = ScopeTags
    BY DEF ScopeTags
<1>6. QED
    BY <1>2, <1>3, <1>4, <1>5 DEF TableInv

LEMMA TableShrinks ==
    ASSUME TableInv, pending' \subseteq pending, bootSeq' \in Nat
    PROVE  TableInv'
<1>1. IsFiniteSet(pending) /\ Cardinality(pending) \in Nat /\ MaxPending \in Nat
    BY FS_CardinalityType, CorrelatorAssumption DEF TableInv
<1>2. IsFiniteSet(pending') /\ Cardinality(pending') <= Cardinality(pending)
    BY <1>1, FS_Subset
<1>3. Cardinality(pending') <= MaxPending
    BY <1>1, <1>2, FS_CardinalityType DEF TableInv
<1>4. ScopeTags' = ScopeTags
    BY DEF ScopeTags
<1>5. QED
    BY <1>2, <1>3, <1>4 DEF TableInv

\* Every step keeps the table within its limit.
LEMMA TableNext == EndpointInv /\ TableInv /\ [Next]_vars => TableInv'
<1> SUFFICES ASSUME EndpointInv, TableInv, [Next]_vars PROVE TableInv'
    OBVIOUS
<1>0. bootSeq \in Nat /\ cGen \in Nat
    BY Hubs DEF TableInv
<1>1. ASSUME NEW u \in Ups, Bootstrap(u) PROVE TableInv'
    <2>1. bootSeq' = bootSeq + 1
        BY <1>1 DEF Bootstrap
    <2>2. BootEntry(bootSeq + 1) \in [owner : ScopeTags, gen : Nat, id : Nat]
        <3>1. bootSeq + 1 \in Nat
            BY <1>0
        <3>2. QED
            BY <3>1, Entries
    <2>3. BootEntry(bootSeq + 1).gen = 0
        BY Entries
    <2>4. CASE Admits(pending, BootEntry(bootSeq + 1))
        BY <1>0, <1>1, <2>1, <2>2, <2>3, <2>4, TableGrows DEF Bootstrap
    <2>5. CASE ~Admits(pending, BootEntry(bootSeq + 1))
        BY <1>0, <1>1, <2>1, <2>5, TableShrinks DEF Bootstrap
    <2>6. QED
        BY <2>4, <2>5
<1>2. ASSUME NEW d \in Ctls, NEW i \in Ids, ControllerSend(d, i) PROVE TableInv'
    <2>1. ControllerEntry(i) \in [owner : ScopeTags, gen : Nat, id : Nat]
        BY <1>0, Entries, BridgeAssumption
    <2>2. ControllerEntry(i).owner = "controller"
        BY Entries
    <2>3. QED
        BY <1>0, <1>2, <2>1, <2>2, TableGrows DEF ControllerSend, MaySend
<1>3. ASSUME NEW i \in Ids, SdkSend(i) PROVE TableInv'
    <2>1. UnscopedEntry(i) \in [owner : ScopeTags, gen : Nat, id : Nat]
        BY Entries, BridgeAssumption
    <2>2. UnscopedEntry(i).gen = 0
        BY Entries
    <2>3. CASE Admits(pending, UnscopedEntry(i))
        BY <1>0, <1>3, <2>1, <2>2, <2>3, TableGrows DEF SdkSend
    <2>4. CASE ~Admits(pending, UnscopedEntry(i))
        BY <1>0, <1>3, <2>4, TableShrinks DEF SdkSend
    <2>5. QED
        BY <2>3, <2>4
<1>4. CASE pending' \subseteq pending /\ bootSeq' = bootSeq
    BY <1>0, <1>4, TableShrinks
<1>5. ASSUME NEW u \in Ups, UpstreamStep(u) \/ InstallUpstream(u) \/ StartUpstream(u)
                              \/ ReleaseUpstream(u)
      PROVE  pending' \subseteq pending /\ bootSeq' = bootSeq
    BY <1>5 DEF UpstreamStep, InstallUpstream, StartUpstream, ReleaseUpstream, requestVars
<1>6. ASSUME NEW d \in Ctls, CdpStep(d) \/ ControllerRefused(d) \/ ReleaseController(d)
      PROVE  pending' \subseteq pending /\ bootSeq' = bootSeq
    BY <1>6 DEF CdpStep, ControllerRefused, ReleaseController, requestVars
<1>7. ASSUME NEW i \in Ids, SdkGiveUp(i) PROVE pending' \subseteq pending /\ bootSeq' = bootSeq
    BY <1>7 DEF SdkGiveUp, Without
<1>8. ASSUME NEW e \in pending, Expire(e) PROVE pending' \subseteq pending /\ bootSeq' = bootSeq
    BY <1>8 DEF Expire
<1>9. ASSUME NEW k \in 1..MaxInflight, Respond(k)
      PROVE  pending' \subseteq pending /\ bootSeq' = bootSeq
    BY <1>9 DEF Respond
<1>10. CASE UNCHANGED vars
    BY <1>4, <1>10 DEF vars, requestVars
<1>11. QED
    BY <1>1, <1>2, <1>3, <1>4, <1>5, <1>6, <1>7, <1>8, <1>9, <1>10 DEF Next

\* A request is sent, or the owner dropped, or there is none.
LEMMA Sent ==
    ASSUME EndpointInv, TransportInv, NEW a \in Askers, NEW i \in Nat, Transmit(a, i)
    PROVE  /\ dOwner' = dOwner /\ dHub' \subseteq dHub
           /\ \/ inflight' = inflight /\ dHub' = {}
              \/ dOwner # NoConn /\ inflight' = Append(inflight, [asker |-> a, id |-> i])
<1>1. dHub \subseteq {dOwner} /\ NoConn \notin dHub
    BY Hubs
<1>2. CASE dHub = {}
    BY <1>2 DEF Transmit, debugVars
<1>3. CASE dHub # {} /\ inflight' = Append(inflight, [asker |-> a, id |-> i]) /\ UNCHANGED debugVars
    BY <1>1, <1>3 DEF debugVars
<1>4. ASSUME NEW u \in dHub, U!HubDrop(u), UNCHANGED inflight
      PROVE  /\ dOwner' = dOwner /\ dHub' \subseteq dHub
             /\ inflight' = inflight /\ dHub' = {}
    BY <1>1, <1>4 DEF U!HubDrop
<1>5. QED
    BY <1>2, <1>3, <1>4 DEF Transmit

\* Every step keeps the transport with its connection.
LEMMA TransportNext == EndpointInv /\ TableInv /\ TransportInv /\ [Next]_vars => TransportInv'
<1> SUFFICES ASSUME EndpointInv, TableInv, TransportInv, [Next]_vars PROVE TransportInv'
    OBVIOUS
<1> USE DEF TransportInv
<1>0. Askers' = Askers /\ Ids \subseteq Nat /\ bootSeq \in Nat
    BY BridgeAssumption DEF Askers, TableInv
<1>1. CASE UNCHANGED <<dOwner, inflight>>
    BY <1>0, <1>1
<1>2. ASSUME NEW a \in Askers, NEW i \in Nat, Transmit(a, i) PROVE TransportInv'
    <2>1. [asker |-> a, id |-> i] \in [asker : Askers, id : Nat]
        OBVIOUS
    <2>2. CASE inflight' = inflight /\ dOwner' = dOwner
        BY <1>1, <2>2
    <2>3. CASE /\ dOwner # NoConn /\ dOwner' = dOwner
               /\ inflight' = Append(inflight, [asker |-> a, id |-> i])
        BY <1>0, <2>1, <2>3
    <2>4. QED
        BY <1>2, <2>2, <2>3, Sent
<1>3. ASSUME NEW u \in Ups, UpstreamStep(u) \/ StartUpstream(u) PROVE TransportInv'
    <2>1. UNCHANGED <<dOwner, inflight>>
        BY <1>3, UpstreamQuiet DEF UpstreamStep, StartUpstream, requestVars
    <2>2. QED
        BY <1>1, <2>1
<1>4. ASSUME NEW u \in Ups, InstallUpstream(u) PROVE TransportInv'
    <2>1. inflight' = inflight /\ dOwner' = u
        BY <1>4 DEF InstallUpstream, U!Install
    <2>2. QED
        BY <1>0, <2>1, BridgeAssumption
<1>5. ASSUME NEW u \in Ups, Bootstrap(u) PROVE TransportInv'
    <2>1. bootSeq + 1 \in Nat /\ Boot \in Askers
        BY <1>0 DEF Askers
    <2>2. CASE Transmit(Boot, bootSeq + 1)
        BY <1>2, <2>1, <2>2
    <2>3. CASE UNCHANGED <<debugVars, inflight>>
        BY <1>1, <2>3 DEF debugVars
    <2>4. QED
        BY <1>5, <2>2, <2>3 DEF Bootstrap
<1>6. ASSUME NEW u \in Ups, ReleaseUpstream(u) PROVE TransportInv'
    BY <1>0, <1>6 DEF ReleaseUpstream
<1>7. ASSUME NEW d \in Ctls, CdpStep(d) \/ ControllerRefused(d) \/ ReleaseController(d)
      PROVE  TransportInv'
    BY <1>1, <1>7 DEF CdpStep, ControllerRefused, ReleaseController, requestVars, debugVars
<1>8. ASSUME NEW d \in Ctls, NEW i \in Ids, ControllerSend(d, i) PROVE TransportInv'
    BY <1>0, <1>2, <1>8 DEF ControllerSend, Askers
<1>9. ASSUME NEW i \in Ids, SdkSend(i) PROVE TransportInv'
    <2>1. CASE Transmit(Sdk, i)
        BY <1>0, <1>2, <2>1 DEF Askers
    <2>2. CASE UNCHANGED <<debugVars, inflight>>
        BY <1>1, <2>2 DEF debugVars
    <2>3. QED
        BY <1>9, <2>1, <2>2 DEF SdkSend
<1>10. ASSUME NEW i \in Ids, SdkGiveUp(i) PROVE TransportInv'
    BY <1>1, <1>10 DEF SdkGiveUp, debugVars
<1>11. ASSUME NEW e \in pending, Expire(e) PROVE TransportInv'
    BY <1>1, <1>11 DEF Expire, debugVars
<1>12. ASSUME NEW k \in 1..MaxInflight, Respond(k) PROVE TransportInv'
    <2>1. k \in 1..Len(inflight) /\ inflight' = RemoveAt(inflight, k) /\ dOwner # NoConn
          /\ dOwner' = dOwner
        BY <1>12 DEF Respond, debugVars
    <2>2. QED
        BY <1>0, <2>1, Removed
<1>13. CASE UNCHANGED vars
    BY <1>1, <1>13 DEF vars, requestVars, debugVars
<1>14. QED
    BY <1>3, <1>4, <1>5, <1>6, <1>7, <1>8, <1>9, <1>10, <1>11, <1>12, <1>13 DEF Next

-----------------------------------------------------------------------------
(* Every wait is matched.                                                  *)

\* The counts are numbers.
LEMMA Counts ==
    ASSUME TableInv, TransportInv, NEW i
    PROVE  /\ CountPending(i) = Cardinality(Waits(i)) /\ IsFiniteSet(Waits(i))
           /\ CountPending(i) \in Nat /\ CountInflight(i) \in Nat /\ CountFence(i) \in {0, 1}
<1>1. Waits(i) \subseteq pending /\ IsFiniteSet(pending)
    BY DEF Waits, TableInv
<1>2. IsFiniteSet(Waits(i)) /\ Cardinality(Waits(i)) \in Nat
    BY <1>1, FS_Subset, FS_CardinalityType
<1>3. Len(inflight) \in Nat
    BY DEF TransportInv
<1>4. CountInflight(i) \in Nat
    BY <1>3, PlacesFinite DEF CountInflight
<1>5. QED
    BY <1>2, <1>4 DEF CountPending, Waits, CountFence

\* The entry that a response resolves is one of those that wait for it.
LEMMA ResolvedWaits ==
    ASSUME TableInv, RouteInv, NEW i, Waits(i) # {}
    PROVE  Resolved(i) \in Waits(i)
<1>1. PICK e \in pending : e.id = i /\ e.owner # ""
    BY DEF Waits
<1>2. e \in [owner : {"controller", "bootstrap", ""}, gen : Nat, id : Nat]
    BY DEF TableInv, ScopeTags, Boot
<1>3. CASE e.owner = "bootstrap"
    <2>1. e = BootEntry(i)
        BY <1>1, <1>2, <1>3 DEF TableInv, BootEntry, Entry, Boot
    <2>2. QED
        BY <1>1, <2>1 DEF Resolved, Waits
<1>4. CASE e.owner = "controller"
    <2>1. cOwner # NoConn /\ e.gen = cGen
        BY <1>1, <1>4 DEF RouteInv, PendingOwned
    <2>2. e = ControllerEntry(i)
        BY <1>1, <1>2, <1>4, <2>1 DEF ControllerEntry, Entry
    <2>3. CASE BootEntry(i) \in pending
        BY <2>3, Entries DEF Resolved, Waits
    <2>4. CASE BootEntry(i) \notin pending
        BY <1>1, <2>1, <2>2, <2>4, Entries DEF Resolved, Waits
    <2>5. QED
        BY <2>3, <2>4
<1>5. QED
    BY <1>1, <1>2, <1>3, <1>4

\* A step that makes no entry and no fence, and answers nothing.
LEMMA MatchKept ==
    ASSUME TableInv, TransportInv, MatchInv, pending' \subseteq pending,
           UNCHANGED <<dOwner, fences, blocked, inflight>>, dHub' \subseteq dHub
    PROVE  MatchInv'
<1> SUFFICES ASSUME dOwner \in dHub, ~blocked, NEW i
             PROVE  CountPending(i)' + CountFence(i)' <= CountInflight(i)'
    BY DEF MatchInv
<1>1. CountFence(i)' = CountFence(i) /\ CountInflight(i)' = CountInflight(i)
    BY DEF CountFence, CountInflight
<1>2. Waits(i)' \subseteq Waits(i)
    BY DEF Waits
<1>3. CountPending(i)' \in Nat /\ CountPending(i)' <= CountPending(i)
    BY <1>2, Counts, FS_Subset, FS_CardinalityType DEF CountPending, Waits
<1>4. QED
    BY <1>1, <1>3, Counts DEF MatchInv

\* A request is sent: its entry and its place on the transport come together.
LEMMA MatchSent ==
    ASSUME EndpointInv, TableInv, TransportInv, MatchInv, NEW a \in Askers, NEW i \in Nat,
           Transmit(a, i), NEW e, e.id = i, pending' \subseteq pending \cup {e},
           UNCHANGED <<fences, blocked>>
    PROVE  MatchInv'
<1> SUFFICES ASSUME dOwner' \in dHub', ~blocked', NEW j
             PROVE  CountPending(j)' + CountFence(j)' <= CountInflight(j)'
    BY DEF MatchInv
<1>1. dOwner \in dHub /\ ~blocked /\ inflight' = Append(inflight, [asker |-> a, id |-> i])
    BY Sent
<1>2. CountFence(j)' = CountFence(j)
    BY DEF CountFence
<1>3. CountInflight(j)' = IF j = i THEN CountInflight(j) + 1 ELSE CountInflight(j)
    <2>1. [asker |-> a, id |-> i] \in [asker : Askers, id : Nat]
        OBVIOUS
    <2>2. /\ CountInflight(j) = Cardinality(Places(inflight, j))
          /\ CountInflight(j)' = Cardinality(Places(inflight', j))
        BY DEF CountInflight, Places
    <2>3. Cardinality(Places(Append(inflight, [asker |-> a, id |-> i]), j))
            = IF i = j THEN Cardinality(Places(inflight, j)) + 1
                       ELSE Cardinality(Places(inflight, j))
        <3>1. PICK r \in [asker : Askers, id : Nat] : r = [asker |-> a, id |-> i]
            BY <2>1
        <3>2. r.id = i /\ inflight \in Seq([asker : Askers, id : Nat])
            BY <3>1 DEF TransportInv
        <3>3. Cardinality(Places(Append(inflight, r), j))
                = IF r.id = j THEN Cardinality(Places(inflight, j)) + 1
                              ELSE Cardinality(Places(inflight, j))
            BY <3>2, CountSent
        <3>4. QED
            BY <3>1, <3>2, <3>3
    <2>4. QED
        BY <1>1, <2>2, <2>3
<1>4. /\ CountPending(j)' \in Nat
      /\ CountPending(j)' <= IF j = i THEN CountPending(j) + 1 ELSE CountPending(j)
    <2>1. CASE j = i
        <3>1. Waits(j)' \subseteq Waits(j) \cup {e}
            BY <2>1 DEF Waits
        <3>2. /\ IsFiniteSet(Waits(j) \cup {e})
              /\ Cardinality(Waits(j) \cup {e}) <= Cardinality(Waits(j)) + 1
            <4>1. IsFiniteSet(Waits(j)) /\ Cardinality(Waits(j)) \in Nat
                BY Counts
            <4>2. /\ IsFiniteSet(Waits(j) \cup {e})
                  /\ \/ Cardinality(Waits(j) \cup {e}) = Cardinality(Waits(j))
                     \/ Cardinality(Waits(j) \cup {e}) = Cardinality(Waits(j)) + 1
                BY <4>1, FS_AddElement
            <4>3. QED
                BY <4>1, <4>2
        <3>3. /\ Cardinality(Waits(j)') \in Nat
              /\ Cardinality(Waits(j)') <= Cardinality(Waits(j) \cup {e})
              /\ Cardinality(Waits(j) \cup {e}) \in Nat
            BY <3>1, <3>2, FS_Subset, FS_CardinalityType
        <3>4. CountPending(j)' = Cardinality(Waits(j)')
            BY DEF CountPending, Waits
        <3>5. CountPending(j) = Cardinality(Waits(j)) /\ CountPending(j) \in Nat
            BY Counts
        <3>6. QED
            BY <2>1, <3>2, <3>3, <3>4, <3>5
    <2>2. CASE j # i
        <3>1. Waits(j)' \subseteq Waits(j)
            BY <2>2 DEF Waits
        <3>2. CountPending(j)' = Cardinality(Waits(j)')
            BY DEF CountPending, Waits
        <3>3. /\ CountPending(j) = Cardinality(Waits(j)) /\ CountPending(j) \in Nat
              /\ IsFiniteSet(Waits(j))
            BY Counts
        <3>4. Cardinality(Waits(j)') \in Nat /\ Cardinality(Waits(j)') <= Cardinality(Waits(j))
            BY <3>1, <3>3, FS_Subset, FS_CardinalityType
        <3>5. QED
            BY <2>2, <3>2, <3>3, <3>4
    <2>3. QED
        BY <2>1, <2>2
<1>5. QED
    BY <1>1, <1>2, <1>3, <1>4, Counts DEF MatchInv

\* A response takes an entry, or a fence, with it.
LEMMA MatchAnswered ==
    ASSUME TableInv, TransportInv, RouteInv, MatchInv, NEW k, Respond(k)
    PROVE  MatchInv'
<1> SUFFICES ASSUME dOwner' \in dHub', ~blocked', NEW i
             PROVE  CountPending(i)' + CountFence(i)' <= CountInflight(i)'
    BY DEF MatchInv
<1> DEFINE r == inflight[k]
<1>1. /\ dOwner \in dHub /\ ~blocked /\ k \in 1..Len(inflight)
      /\ inflight' = RemoveAt(inflight, k)
    BY DEF Respond, debugVars
<1>2. CountPending(i) + CountFence(i) <= CountInflight(i)
    BY <1>1 DEF MatchInv
<1>3. /\ CountInflight(i)' \in Nat
      /\ CountInflight(i)' >= IF r.id = i THEN CountInflight(i) - 1 ELSE CountInflight(i)
    <2>1. /\ CountInflight(i) = Cardinality(Places(inflight, i))
          /\ CountInflight(i)' = Cardinality(Places(RemoveAt(inflight, k), i))
        BY <1>1 DEF CountInflight, Places
    <2>2. inflight \in Seq([asker : Askers, id : Nat])
        BY DEF TransportInv
    <2>3. /\ Cardinality(Places(RemoveAt(inflight, k), i)) \in Nat
          /\ Cardinality(Places(RemoveAt(inflight, k), i))
               >= IF inflight[k].id = i THEN Cardinality(Places(inflight, i)) - 1
                                        ELSE Cardinality(Places(inflight, i))
        BY <1>1, <2>2, CountAnswered
    <2>4. QED
        BY <2>1, <2>3
<1>4. Waits(i)' \subseteq Waits(i) /\ CountFence(i)' <= CountFence(i) /\ CountFence(i)' \in {0, 1}
    <2>1. pending' \subseteq pending /\ fences' \subseteq fences
        BY DEF Respond, Consumed
    <2>2. Waits(i)' \subseteq Waits(i)
        BY <2>1 DEF Waits
    <2>3. CountFence(i)' <= CountFence(i) /\ CountFence(i)' \in {0, 1}
        BY <2>1 DEF CountFence
    <2>4. QED
        BY <2>2, <2>3
<1>5. CountPending(i)' \in Nat /\ CountPending(i)' <= CountPending(i)
    BY <1>4, Counts, FS_Subset, FS_CardinalityType DEF CountPending, Waits
<1>6. CASE r.id # i
    BY <1>2, <1>3, <1>4, <1>5, <1>6, Counts
<1>7. CASE r.id = i /\ Fenced(i)
    <2>1. CountFence(i) = 1 /\ CountFence(i)' = 0
        BY <1>1, <1>7 DEF Respond, CountFence, Consumed, Fenced
    <2>2. QED
        BY <1>2, <1>3, <1>5, <1>7, <2>1, Counts
<1>8. CASE r.id = i /\ ~Fenced(i)
    <2>1. CountFence(i)' = 0 /\ pending' = pending \ {Resolved(i)}
        BY <1>8 DEF Respond, CountFence, Fenced
    <2>2. CASE Waits(i) = {}
        <3>1. CountPending(i)' = 0
            BY <1>4, <2>2, FS_EmptySet DEF CountPending, Waits
        <3>2. QED
            BY <1>3, <2>1, <3>1
    <2>3. CASE Waits(i) # {}
        <3>1. Waits(i)' \subseteq Waits(i) \ {Resolved(i)} /\ Resolved(i) \in Waits(i)
            BY <2>1, <2>3, ResolvedWaits DEF Waits
        <3>2. /\ IsFiniteSet(Waits(i) \ {Resolved(i)})
              /\ Cardinality(Waits(i) \ {Resolved(i)}) = Cardinality(Waits(i)) - 1
            BY <3>1, Counts, FS_RemoveElement
        <3>3. Cardinality(Waits(i)') <= Cardinality(Waits(i) \ {Resolved(i)})
            BY <3>1, <3>2, FS_Subset
        <3>4. CountPending(i)' <= CountPending(i) - 1
            BY <3>2, <3>3, Counts DEF CountPending, Waits
        <3>5. QED
            BY <1>2, <1>3, <1>5, <1>8, <2>1, <3>4, Counts
    <2>4. QED
        BY <2>2, <2>3
<1>9. QED
    BY <1>6, <1>7, <1>8

\* The cleanup of a controller turns entries into fences.
LEMMA MatchFenced ==
    ASSUME EndpointInv, TableInv, TransportInv, MatchInv, NEW d, ReleaseController(d)
    PROVE  MatchInv'
<1> DEFINE drained == OfScope(pending, "controller", cConnGen[d])
<1> SUFFICES ASSUME dOwner' \in dHub', ~blocked', NEW i
             PROVE  CountPending(i)' + CountFence(i)' <= CountInflight(i)'
    BY DEF MatchInv
<1>1. dOwner \in dHub /\ inflight' = inflight /\ pending' = pending \ drained
    BY DEF ReleaseController, debugVars
<1>2. AddFences(drained)
    BY DEF ReleaseController
<1>3. ~blocked
    BY <1>2 DEF AddFences
<1>4. fences' = fences \cup IdsOf(drained)
    <2>1. IdsOf({}) = {}
        BY DEF IdsOf
    <2>2. QED
        BY <1>2, <1>3, <2>1 DEF AddFences
<1>5. CountPending(i) + CountFence(i) <= CountInflight(i) /\ CountInflight(i)' = CountInflight(i)
    BY <1>1, <1>3 DEF MatchInv, CountInflight
<1>6. CASE i \in IdsOf(drained)
    <2>1. PICK e \in drained : e.id = i
        BY <1>6 DEF IdsOf
    <2>2. e \in Waits(i)
        BY <2>1 DEF OfScope, Waits
    <2>3. Waits(i)' \subseteq Waits(i) \ {e}
        BY <1>1, <2>1 DEF Waits
    <2>4. /\ IsFiniteSet(Waits(i) \ {e})
          /\ Cardinality(Waits(i) \ {e}) = Cardinality(Waits(i)) - 1
        BY <2>2, Counts, FS_RemoveElement
    <2>5. Cardinality(Waits(i)') \in Nat /\ Cardinality(Waits(i)') <= Cardinality(Waits(i) \ {e})
        BY <2>3, <2>4, FS_Subset, FS_CardinalityType
    <2>6. CountPending(i)' \in Nat /\ CountPending(i)' <= CountPending(i) - 1
        BY <2>4, <2>5, Counts DEF CountPending, Waits
    <2>7. CountFence(i)' = 1
        BY <1>4, <1>6 DEF CountFence
    <2>8. QED
        BY <1>5, <2>6, <2>7, Counts
<1>7. CASE i \notin IdsOf(drained)
    <2>1. CountFence(i)' = CountFence(i)
        BY <1>4, <1>7 DEF CountFence
    <2>2. Waits(i)' \subseteq Waits(i)
        BY <1>1 DEF Waits
    <2>3. CountPending(i)' \in Nat /\ CountPending(i)' <= CountPending(i)
        BY <2>2, Counts, FS_Subset, FS_CardinalityType DEF CountPending, Waits
    <2>4. QED
        BY <1>5, <2>1, <2>3, Counts
<1>8. QED
    BY <1>6, <1>7

\* Every step keeps the balance.
LEMMA MatchNext ==
    EndpointInv /\ RouteInv /\ TableInv /\ TransportInv /\ MatchInv /\ [Next]_vars => MatchInv'
<1> SUFFICES ASSUME EndpointInv, RouteInv, TableInv, TransportInv, MatchInv, [Next]_vars
             PROVE  MatchInv'
    OBVIOUS
<1> DEFINE Kept == /\ pending' \subseteq pending
                   /\ UNCHANGED <<dOwner, fences, blocked, inflight>> /\ dHub' \subseteq dHub
<1>0. /\ (Kept => MatchInv')
      /\ Ids \subseteq Nat /\ bootSeq + 1 \in Nat /\ Boot \in Askers /\ Sdk \in Askers
      /\ Ctls \subseteq Askers
    BY MatchKept, BridgeAssumption DEF Askers, TableInv
<1>1. ASSUME NEW u \in Ups, UpstreamStep(u) \/ StartUpstream(u) PROVE Kept
    <2>1. dHub' \subseteq dHub
        BY <1>1 DEF UpstreamStep, StartUpstream, U!Reject, U!Reserve, U!UpgradeFailed,
                    U!TransportFails, U!FinishRelease, U!StartReader
    <2>2. QED
        BY <1>1, <2>1, UpstreamQuiet DEF UpstreamStep, StartUpstream, requestVars
<1>2. ASSUME NEW u \in Ups, InstallUpstream(u) PROVE MatchInv'
    <2>1. dOwner = NoConn /\ pending' = pending /\ fences' = {} /\ inflight' = inflight
        BY <1>2 DEF InstallUpstream, ClearFences, U!Install
    <2>2. ASSUME NEW i PROVE CountPending(i)' + CountFence(i)' <= CountInflight(i)'
        <3>1. Waits(i)' = {}
            BY <2>1 DEF Waits, RouteInv, PendingOwned
        <3>2. CountPending(i)' = 0
            BY <3>1, FS_EmptySet DEF CountPending, Waits
        <3>3. CountFence(i)' = 0
            BY <2>1 DEF CountFence
        <3>4. CountInflight(i)' = CountInflight(i)
            BY <2>1 DEF CountInflight
        <3>5. QED
            BY <3>2, <3>3, <3>4, Counts
    <2>3. QED
        BY <2>2 DEF MatchInv
<1>3. ASSUME NEW u \in Ups, Bootstrap(u) PROVE MatchInv'
    <2>1. BootEntry(bootSeq + 1).id = bootSeq + 1
        BY Entries
    <2>2. CASE Transmit(Boot, bootSeq + 1) /\ pending' = pending \cup {BootEntry(bootSeq + 1)}
        BY <1>0, <1>3, <2>1, <2>2, MatchSent DEF Bootstrap
    <2>3. CASE UNCHANGED <<pending, debugVars, inflight>>
        BY <1>0, <1>3, <2>3 DEF Bootstrap, debugVars
    <2>4. QED
        BY <1>3, <2>2, <2>3 DEF Bootstrap
<1>4. ASSUME NEW u \in Ups, ReleaseUpstream(u) PROVE MatchInv'
    <2>1. dOwner' = NoConn \/ dOwner' = dOwner
        BY <1>4 DEF ReleaseUpstream, U!Release
    <2>2. pending' = {} /\ fences' = {} /\ inflight' = <<>>
        BY <1>4 DEF ReleaseUpstream, ClearFences
    <2>3. ASSUME NEW i PROVE CountPending(i)' + CountFence(i)' <= CountInflight(i)'
        <3>1. CountPending(i)' = 0
            BY <2>2, FS_EmptySet DEF CountPending
        <3>2. CountFence(i)' = 0
            BY <2>2 DEF CountFence
        <3>3. CountInflight(i)' \in Nat
            <4>1. CountInflight(i)' = Cardinality(Places(inflight', i)) /\ Len(inflight') = 0
                BY <2>2 DEF CountInflight, Places
            <4>2. QED
                BY <4>1, PlacesFinite DEF Places
        <3>4. QED
            BY <3>1, <3>2, <3>3
    <2>4. QED
        BY <2>3 DEF MatchInv
<1>5. ASSUME NEW d \in Ctls, CdpStep(d) \/ ControllerRefused(d) PROVE Kept
    BY <1>5 DEF CdpStep, ControllerRefused, requestVars, debugVars
<1>6. ASSUME NEW d \in Ctls, ReleaseController(d) PROVE MatchInv'
    BY <1>6, MatchFenced
<1>7. ASSUME NEW d \in Ctls, NEW i \in Ids, ControllerSend(d, i) PROVE MatchInv'
    <2>1. ControllerEntry(i).id = i /\ d \in Askers /\ i \in Nat
        BY <1>0, Entries
    <2>2. QED
        BY <1>7, <2>1, MatchSent DEF ControllerSend
<1>8. ASSUME NEW i \in Ids, SdkSend(i) PROVE MatchInv'
    <2>1. UnscopedEntry(i).id = i /\ i \in Nat
        BY <1>0, Entries
    <2>2. CASE Transmit(Sdk, i) /\ pending' = pending \cup {UnscopedEntry(i)}
        BY <1>0, <1>8, <2>1, <2>2, MatchSent DEF SdkSend
    <2>3. CASE UNCHANGED <<pending, debugVars, inflight>>
        BY <1>0, <1>8, <2>3 DEF SdkSend, debugVars
    <2>4. QED
        BY <1>8, <2>2, <2>3 DEF SdkSend
<1>9. ASSUME NEW i \in Ids, SdkGiveUp(i) PROVE Kept
    BY <1>9 DEF SdkGiveUp, Without, debugVars
<1>10. ASSUME NEW e \in pending, Expire(e) PROVE Kept
    BY <1>10 DEF Expire, debugVars
<1>11. ASSUME NEW k \in 1..MaxInflight, Respond(k) PROVE MatchInv'
    BY <1>11, MatchAnswered
<1>12. CASE UNCHANGED vars
    BY <1>0, <1>12 DEF vars, requestVars, debugVars
<1> HIDE DEF Kept
<1>13. QED
    BY <1>0, <1>1, <1>2, <1>3, <1>4, <1>5, <1>6, <1>7, <1>8, <1>9, <1>10, <1>11, <1>12 DEF Next

\* The table, the transport and their balance in every state of every behaviour.
LEMMA MatchInvariance == Spec => [](TableInv /\ TransportInv /\ MatchInv)
<1>1. Init => TableInv /\ TransportInv /\ MatchInv
    <2> SUFFICES ASSUME Init PROVE TableInv /\ TransportInv /\ MatchInv
        OBVIOUS
    <2>1. pending = {} /\ bootSeq = 0 /\ inflight = <<>> /\ dHub = {}
        BY DEF Init, U!Init
    <2>2. IsFiniteSet({}) /\ Cardinality({}) = 0
        BY FS_EmptySet
    <2>3. QED
        BY <2>1, <2>2, CorrelatorAssumption DEF TableInv, TransportInv, MatchInv
<1>2. EndpointInv /\ RouteInv /\ TableInv /\ TransportInv /\ MatchInv /\ [Next]_vars
        => TableInv' /\ TransportInv' /\ MatchInv'
    BY TableNext, TransportNext, MatchNext
<1>3. QED
    BY <1>1, <1>2, EndpointInvariance, RouteInvariance, PTL DEF Spec

\* TryAddFor refuses what would exceed MaxPending: whatever is sent, expires,
\* is answered or drained, the correlator's table keeps its limit.
THEOREM TableLimited == Spec => [](Cardinality(pending) <= MaxPending)
<1>1. TableInv => Cardinality(pending) <= MaxPending
    BY DEF TableInv
<1>2. QED
    BY <1>1, MatchInvariance, PTL

\* While the transport is healthy, what the bridge and the controller wait for
\* and what the fences hold off is still to come: requests, entries and fences
\* are made and dropped in pairs.
THEOREM WaitsMatched == Spec => []EveryWaitMatched
<1>1. MatchInv => EveryWaitMatched
    BY DEF MatchInv, EveryWaitMatched
<1>2. QED
    BY <1>1, MatchInvariance, PTL

-----------------------------------------------------------------------------
(* A response reaches the client that asked.                               *)

\* A step that sends and answers nothing, as far as the requests on the
\* transport can tell.
LEMMA AskerKept ==
    ASSUME TransportInv, AskerInv, UNCHANGED inflight, mixed \subseteq mixed',
           \A r \in [asker : Askers, id : Nat] :
             (\E k \in 1..Len(inflight) : inflight[k] = r) /\ r.id \notin mixed' /\ Answerable(r)
               => Answerable(r)'
    PROVE  AskerInv'
<1>1. ASSUME NEW k \in 1..Len(inflight), inflight[k].id \notin mixed'
      PROVE  Answerable(inflight[k])'
    <2>0. inflight[k] \in [asker : Askers, id : Nat]
        BY ElementOfSeq, inflight \in Seq([asker : Askers, id : Nat]) DEF TransportInv
    <2>1. PICK r \in [asker : Askers, id : Nat] : r = inflight[k]
        BY <2>0
    <2>2. Answerable(inflight[k])
        BY <1>1 DEF AskerInv
    <2>3. Answerable(r)
        BY <2>1, <2>2
    <2>4. Answerable(r)'
        BY <1>1, <2>1, <2>3
    <2>5. r = inflight'[k]
        BY <2>1
    <2>6. QED
        BY <2>4, <2>5 DEF Answerable, Fenced, BootEntry, ControllerEntry
<1>2. \A j, k \in 1..Len(inflight) :
        inflight[j].id = inflight[k].id /\ inflight[j].id \notin mixed' => j = k
    BY DEF AskerInv
<1>3. QED
    BY <1>1, <1>2 DEF AskerInv

\* A request is sent; if its id was in use, the id is ambiguous from now on.
LEMMA AskerSent ==
    ASSUME TransportInv, AskerInv, NEW a \in Askers, NEW i \in Nat,
           inflight' = Append(inflight, [asker |-> a, id |-> i]), Note(i),
           pending \subseteq pending', sdkWait \subseteq sdkWait', sdkWait' \subseteq sdkWait \cup {i},
           UNCHANGED <<cOwner, cGen, fences, blocked>>,
           a = Boot => BootEntry(i) \in pending',
           a \in Ctls => cOwner = a /\ ControllerEntry(i) \in pending' /\ sdkWait' = sdkWait
    PROVE  AskerInv'
<1>1. PICK r \in [asker : Askers, id : Nat] : r = [asker |-> a, id |-> i]
    OBVIOUS
<1>2. /\ r.asker = a /\ r.id = i /\ inflight \in Seq([asker : Askers, id : Nat])
      /\ mixed \subseteq mixed' /\ (InUse(i) => i \in mixed')
    BY <1>1 DEF TransportInv, Note
<1>3. /\ Len(inflight) \in Nat /\ Len(inflight') = Len(inflight) + 1
      /\ inflight'[Len(inflight) + 1] = r
      /\ \A k \in 1..Len(inflight) : inflight'[k] = inflight[k]
    BY <1>1, <1>2
<1>4. ASSUME NEW k \in 1..Len(inflight), inflight[k].id \notin mixed'
      PROVE  inflight[k].id # i /\ inflight[k].id \notin mixed
    BY <1>2, <1>4 DEF InUse
<1>5. ASSUME NEW k \in 1..(Len(inflight) + 1), inflight'[k].id \notin mixed'
      PROVE  Answerable(inflight[k])'
    <2>1. CASE k \in 1..Len(inflight)
        <3>0. inflight[k] \in [asker : Askers, id : Nat] /\ inflight[k] = inflight'[k]
            <4>1. inflight[k] \in [asker : Askers, id : Nat]
                BY <1>2, <2>1, ElementOfSeq
            <4>2. QED
                BY <1>3, <2>1, <4>1
        <3>1. PICK q \in [asker : Askers, id : Nat] : q = inflight[k] /\ q = inflight'[k]
            BY <3>0
        <3>2. q.id # i /\ Answerable(inflight[k])
            BY <1>4, <1>5, <2>1, <3>1 DEF AskerInv
        <3>3. Answerable(q)
            BY <3>1, <3>2
        <3>4. Answerable(q)'
            BY <3>2, <3>3 DEF Answerable, Fenced, BootEntry, ControllerEntry
        <3>5. QED
            BY <3>1, <3>4 DEF Answerable, Fenced, BootEntry, ControllerEntry
    <2>2. CASE k = Len(inflight) + 1
        <3>1. inflight'[k] = r /\ i \notin sdkWait
            BY <1>2, <1>3, <1>5, <2>2 DEF InUse
        <3>2. Answerable(r)'
            BY <1>2, <3>1 DEF Answerable, BootEntry, ControllerEntry
        <3>3. QED
            BY <3>1, <3>2 DEF Answerable, Fenced, BootEntry, ControllerEntry
    <2>3. QED
        BY <1>3, <2>1, <2>2
<1>6. ASSUME NEW j \in 1..(Len(inflight) + 1), NEW k \in 1..(Len(inflight) + 1),
             inflight'[j].id = inflight'[k].id, inflight'[j].id \notin mixed'
      PROVE  j = k
    <2>1. CASE j \in 1..Len(inflight) /\ k \in 1..Len(inflight)
        BY <1>3, <1>4, <1>6, <2>1 DEF AskerInv
    <2>2. CASE j \in 1..Len(inflight) /\ k = Len(inflight) + 1
        BY <1>2, <1>3, <1>4, <1>6, <2>2
    <2>3. CASE j = Len(inflight) + 1 /\ k \in 1..Len(inflight)
        BY <1>2, <1>3, <1>4, <1>6, <2>3
    <2>4. QED
        BY <1>3, <2>1, <2>2, <2>3
<1>7. QED
    BY <1>3, <1>5, <1>6 DEF AskerInv

\* A request is answered: nothing that is known of the others changes.
LEMMA AskerAnswered ==
    ASSUME EndpointInv, TransportInv, AskerInv, NEW k, Respond(k)
    PROVE  AskerInv'
<1> DEFINE r == inflight[k]
<1>1. /\ k \in 1..Len(inflight) /\ inflight' = RemoveAt(inflight, k)
      /\ mixed' = mixed /\ blocked' = blocked
      /\ inflight \in Seq([asker : Askers, id : Nat]) /\ Len(inflight) \in Nat
    BY DEF Respond, TransportInv
<1>2. /\ Len(inflight') = Len(inflight) - 1
      /\ \A j \in 1..(Len(inflight) - 1) :
           inflight'[j] = IF j < k THEN inflight[j] ELSE inflight[j + 1]
    BY <1>1, Removed
<1>3. UNCHANGED <<cOwner, cGen>>
    BY ForwardQuiet DEF Respond, Drop
<1>4. ASSUME NEW q \in [asker : Askers, id : Nat], q.id # r.id, Answerable(q)
      PROVE  Answerable(q)'
    <2>1. Resolved(r.id).id = r.id
        BY Entries DEF Resolved
    <2>2. /\ pending \ {Resolved(r.id)} \subseteq pending' /\ sdkWait' \subseteq sdkWait
          /\ fences \ {r.id} \subseteq fences'
        BY DEF Respond, Drop, Forward, Consumed
    <2>3. BootEntry(q.id).id = q.id /\ ControllerEntry(q.id).id = q.id
        BY Entries
    <2>4. BootEntry(q.id) \in pending => BootEntry(q.id) \in pending'
        BY <1>4, <2>1, <2>2, <2>3
    <2>5. ControllerEntry(q.id) \in pending => ControllerEntry(q.id) \in pending'
        BY <1>4, <2>1, <2>2, <2>3
    <2>6. Fenced(q.id) => Fenced(q.id)'
        BY <1>1, <1>4, <2>2 DEF Fenced
    <2>7. ControllerEntry(q.id)' = ControllerEntry(q.id) /\ BootEntry(q.id)' = BootEntry(q.id)
        BY <1>3 DEF ControllerEntry, BootEntry
    <2>8. QED
        BY <1>3, <1>4, <2>2, <2>4, <2>5, <2>6, <2>7 DEF Answerable
<1> DEFINE place(j) == IF j < k THEN j ELSE j + 1
<1>5. ASSUME NEW j \in 1..(Len(inflight) - 1)
      PROVE  place(j) \in 1..Len(inflight) /\ place(j) # k /\ inflight'[j] = inflight[place(j)]
    BY <1>1, <1>2
<1>6. \A i, j \in 1..(Len(inflight) - 1) : place(i) = place(j) => i = j
    BY <1>1
<1> HIDE DEF place
<1>7. ASSUME NEW j \in 1..(Len(inflight) - 1), inflight'[j].id \notin mixed'
      PROVE  Answerable(inflight[j])'
    <2>0. inflight[place(j)] \in [asker : Askers, id : Nat] /\ inflight[place(j)] = inflight'[j]
        BY <1>1, <1>5, ElementOfSeq
    <2>1. PICK q \in [asker : Askers, id : Nat] : q = inflight[place(j)] /\ q = inflight'[j]
        BY <2>0
    <2>2. q.id # r.id
        BY <1>1, <1>5, <1>7, <2>1 DEF AskerInv
    <2>3. Answerable(inflight[place(j)])
        BY <1>1, <1>5, <1>7, <2>1 DEF AskerInv
    <2>4. Answerable(q)
        BY <2>1, <2>3
    <2>5. Answerable(q)'
        BY <1>4, <2>2, <2>4
    <2>6. QED
        BY <2>1, <2>5 DEF Answerable, Fenced, BootEntry, ControllerEntry
<1>8. ASSUME NEW i \in 1..(Len(inflight) - 1), NEW j \in 1..(Len(inflight) - 1),
             inflight'[i].id = inflight'[j].id, inflight'[i].id \notin mixed'
      PROVE  i = j
    <2>1. place(i) = place(j)
        BY <1>1, <1>5, <1>8 DEF AskerInv
    <2>2. QED
        BY <1>6, <2>1
<1>9. QED
    BY <1>2, <1>7, <1>8 DEF AskerInv

\* A request is tried that does not reach the transport.
LEMMA AskerUnsent ==
    ASSUME TransportInv, AskerInv, NEW i, UNCHANGED inflight, Note(i),
           pending \subseteq pending', sdkWait' \subseteq sdkWait \cup {i},
           UNCHANGED <<cOwner, cGen, fences, blocked>>
    PROVE  AskerInv'
<1>1. mixed \subseteq mixed' /\ (InUse(i) => i \in mixed')
    BY DEF Note
<1>2. ASSUME NEW r \in [asker : Askers, id : Nat], NEW k \in 1..Len(inflight), inflight[k] = r,
             r.id \notin mixed', Answerable(r)
      PROVE  Answerable(r)'
    <2>1. r.id # i
        BY <1>1, <1>2 DEF InUse
    <2>2. QED
        BY <1>2, <2>1 DEF Answerable, Fenced, BootEntry, ControllerEntry
<1>3. QED
    BY <1>1, <1>2, AskerKept

\* The cleanup of a controller: what it waited for is held off from then on.
LEMMA AskerReleased ==
    ASSUME EndpointInv, TransportInv, AskerInv, NEW d \in Ctls, ReleaseController(d)
    PROVE  AskerInv'
<1> DEFINE drained == OfScope(pending, "controller", cConnGen[d])
<1>1. cOwner = d /\ cConnGen[d] = cGen
    BY ControllerFacts, BridgeAssumption DEF ReleaseController, C!Release
<1>2. /\ pending' = pending \ drained /\ AddFences(drained)
      /\ UNCHANGED <<inflight, sdkWait, mixed>>
    BY DEF ReleaseController
<1>3. ASSUME NEW i, Fenced(i) \/ i \in IdsOf(drained) PROVE Fenced(i)'
    <2>1. CASE blocked \/ drained = {}
        BY <1>2, <1>3, <2>1 DEF AddFences, Fenced, IdsOf
    <2>2. CASE ~(blocked \/ drained = {})
        <3>1. i \in fences \cup IdsOf(drained)
            BY <1>3, <2>2 DEF Fenced
        <3> HIDE DEF drained
        <3>2. QED
            BY <1>2, <2>2, <3>1, Zenon DEF AddFences, Fenced
    <2>3. QED
        BY <2>1, <2>2
<1>4. ASSUME NEW r \in [asker : Askers, id : Nat], Answerable(r) PROVE Answerable(r)'
    <2>1. BootEntry(r.id) \in pending => BootEntry(r.id) \in pending'
        <3>1. BootEntry(r.id).owner = "bootstrap"
            BY Entries
        <3>2. \A e \in drained : e.owner = "controller"
            BY DEF OfScope
        <3>3. BootEntry(r.id) \notin drained
            <4> HIDE DEF drained
            <4>1. QED
                BY <3>1, <3>2
        <3> HIDE DEF drained
        <3>4. QED
            BY <1>2, <3>3
    <2>2. BootEntry(r.id)' = BootEntry(r.id)
        BY DEF BootEntry
    <2>3. ControllerEntry(r.id) \in pending => r.id \in IdsOf(drained)
        <3>1. /\ ControllerEntry(r.id).owner = "controller" /\ ControllerEntry(r.id).gen = cGen
              /\ ControllerEntry(r.id).id = r.id
            BY Entries
        <3>2. ControllerEntry(r.id) \in pending => ControllerEntry(r.id) \in drained
            BY <1>1, <3>1 DEF OfScope
        <3> HIDE DEF drained
        <3>3. QED
            BY <3>1, <3>2 DEF IdsOf
    <2>4. QED
        BY <1>2, <1>3, <1>4, <2>1, <2>2, <2>3 DEF Answerable
<1>5. QED
    BY <1>2, <1>4, AskerKept

\* Every step keeps what is known of the requests on the transport.
LEMMA AskerNext ==
    EndpointInv /\ TableInv /\ TransportInv /\ AskerInv /\ [Next]_vars => AskerInv'
<1> SUFFICES ASSUME EndpointInv, TableInv, TransportInv, AskerInv, [Next]_vars PROVE AskerInv'
    OBVIOUS
<1>0. /\ Ids \subseteq Nat /\ bootSeq + 1 \in Nat /\ Boot \in Askers /\ Sdk \in Askers
      /\ Ctls \subseteq Askers /\ Boot \notin Ctls /\ Sdk \notin Ctls /\ Boot # Sdk
      /\ \A d \in Ctls : d # Boot
    BY BridgeAssumption DEF Askers, TableInv, Boot, Sdk
<1>1. CASE UNCHANGED <<pending, cOwner, cGen, fences, blocked, inflight, sdkWait, mixed>>
    BY <1>1, AskerKept DEF Answerable, Fenced, BootEntry, ControllerEntry
<1>2. ASSUME NEW u \in Ups, UpstreamStep(u) \/ StartUpstream(u) PROVE AskerInv'
    BY <1>1, <1>2 DEF UpstreamStep, StartUpstream, cdpVars, requestVars
<1>3. ASSUME NEW u \in Ups, InstallUpstream(u) \/ ReleaseUpstream(u) PROVE AskerInv'
    <2>1. inflight' = <<>>
        BY <1>3 DEF InstallUpstream, U!Install, TransportInv, ReleaseUpstream
    <2>2. QED
        BY <2>1 DEF AskerInv
<1>4. ASSUME NEW u \in Ups, Bootstrap(u) PROVE AskerInv'
    <2>1. /\ Note(bootSeq + 1) /\ pending \subseteq pending' /\ sdkWait' = sdkWait
          /\ UNCHANGED <<cOwner, cGen, fences, blocked>>
        BY <1>4 DEF Bootstrap, cdpVars
    <2>2. CASE inflight' = inflight
        BY <2>1, <2>2, AskerUnsent
    <2>3. CASE /\ inflight' = Append(inflight, [asker |-> Boot, id |-> bootSeq + 1])
               /\ BootEntry(bootSeq + 1) \in pending'
        BY <1>0, <2>1, <2>3, AskerSent
    <2>4. QED
        BY <1>0, <1>4, <2>2, <2>3, Sent DEF Bootstrap
<1>5. ASSUME NEW d \in Ctls, CdpStep(d) PROVE AskerInv'
    <2>1. /\ cOwner = NoConn \/ UNCHANGED <<cOwner, cGen>>
          /\ UNCHANGED <<pending, fences, blocked, inflight, sdkWait, mixed>>
        BY <1>5, CdpOwner DEF CdpStep, requestVars
    <2>2. ASSUME NEW r \in [asker : Askers, id : Nat], Answerable(r) PROVE Answerable(r)'
        BY <2>1, <2>2, BridgeAssumption DEF Answerable, Fenced, BootEntry, ControllerEntry
    <2>3. QED
        BY <2>1, <2>2, AskerKept
<1>6. ASSUME NEW d \in Ctls, ControllerRefused(d) PROVE AskerInv'
    BY <1>1, <1>6 DEF ControllerRefused, cdpVars, requestVars
<1>7. ASSUME NEW d \in Ctls, ReleaseController(d) PROVE AskerInv'
    BY <1>7, AskerReleased
<1>8. ASSUME NEW d \in Ctls, NEW i \in Ids, ControllerSend(d, i) PROVE AskerInv'
    <2>1. /\ Note(i) /\ pending \subseteq pending' /\ sdkWait' = sdkWait
          /\ UNCHANGED <<cOwner, cGen, fences, blocked>> /\ ControllerEntry(i) \in pending'
        BY <1>8 DEF ControllerSend, cdpVars
    <2>2. cOwner = d
        BY <1>8, ControllerFacts DEF ControllerSend, MaySend
    <2>3. CASE inflight' = inflight
        BY <2>1, <2>3, AskerUnsent
    <2>4. CASE inflight' = Append(inflight, [asker |-> d, id |-> i])
        BY <1>0, <2>1, <2>2, <2>4, AskerSent
    <2>5. QED
        BY <1>0, <1>8, <2>3, <2>4, Sent DEF ControllerSend
<1>9. ASSUME NEW i \in Ids, SdkSend(i) PROVE AskerInv'
    <2>1. /\ Note(i) /\ pending \subseteq pending' /\ sdkWait' = sdkWait \cup {i}
          /\ UNCHANGED <<cOwner, cGen, fences, blocked>>
        BY <1>9 DEF SdkSend, cdpVars
    <2>2. CASE inflight' = inflight
        BY <2>1, <2>2, AskerUnsent
    <2>3. CASE inflight' = Append(inflight, [asker |-> Sdk, id |-> i])
        BY <1>0, <2>1, <2>3, AskerSent
    <2>4. QED
        BY <1>0, <1>9, <2>2, <2>3, Sent DEF SdkSend
<1>10. ASSUME NEW i \in Ids, SdkGiveUp(i) PROVE AskerInv'
    <2>1. /\ pending' = pending \ {CancelTarget(i)} /\ sdkWait' \subseteq sdkWait
          /\ mixed \subseteq mixed' /\ (ControllerEntry(i) \in pending \ pending' => i \in mixed')
          /\ UNCHANGED <<cOwner, cGen, fences, blocked, inflight>>
        BY <1>10 DEF SdkGiveUp, Without, cdpVars
    <2>2. CancelTarget(i).owner # "bootstrap" /\ CancelTarget(i).id = i
        BY Entries DEF CancelTarget
    <2>3. ASSUME NEW r \in [asker : Askers, id : Nat], r.id \notin mixed', Answerable(r)
          PROVE  Answerable(r)'
        <3>1. BootEntry(r.id) \in pending => BootEntry(r.id) \in pending'
            BY <2>1, <2>2, Entries
        <3>2. ControllerEntry(r.id) \in pending => ControllerEntry(r.id) \in pending'
            <4>1. ControllerEntry(r.id).id = r.id
                BY Entries
            <4>2. CASE ControllerEntry(r.id) = CancelTarget(i)
                <5>1. r.id = i
                    BY <2>2, <4>1, <4>2
                <5>2. QED
                    BY <2>1, <2>3, <5>1
            <4>3. QED
                BY <2>1, <4>2
        <3>3. BootEntry(r.id)' = BootEntry(r.id) /\ ControllerEntry(r.id)' = ControllerEntry(r.id)
            BY <2>1 DEF BootEntry, ControllerEntry
        <3>4. QED
            BY <2>1, <2>3, <3>1, <3>2, <3>3 DEF Answerable, Fenced
    <2>4. QED
        BY <2>1, <2>3, AskerKept
<1>11. ASSUME NEW e \in pending, Expire(e) PROVE AskerInv'
    <2>1. /\ pending' = pending \ {e} /\ mixed \subseteq mixed'
          /\ (e.owner # "" => e.id \in mixed')
          /\ UNCHANGED <<cOwner, cGen, fences, blocked, inflight, sdkWait>>
        BY <1>11 DEF Expire, cdpVars
    <2>2. ASSUME NEW r \in [asker : Askers, id : Nat], r.id \notin mixed', Answerable(r)
          PROVE  Answerable(r)'
        <3>1. BootEntry(r.id) \in pending => BootEntry(r.id) \in pending'
            BY <2>1, <2>2, Entries
        <3>2. ControllerEntry(r.id) \in pending => ControllerEntry(r.id) \in pending'
            BY <2>1, <2>2, Entries
        <3>3. BootEntry(r.id)' = BootEntry(r.id) /\ ControllerEntry(r.id)' = ControllerEntry(r.id)
            BY <2>1 DEF BootEntry, ControllerEntry
        <3>4. QED
            BY <2>1, <2>2, <3>1, <3>2, <3>3 DEF Answerable, Fenced
    <2>3. QED
        BY <2>1, <2>2, AskerKept
<1>12. ASSUME NEW k \in 1..MaxInflight, Respond(k) PROVE AskerInv'
    BY <1>12, AskerAnswered
<1>13. CASE UNCHANGED vars
    BY <1>1, <1>13 DEF vars, cdpVars, requestVars
<1>14. QED
    BY <1>2, <1>3, <1>4, <1>5, <1>6, <1>7, <1>8, <1>9, <1>10, <1>11, <1>12, <1>13 DEF Next

\* So it holds of every request in every state of every behaviour.
LEMMA AskerInvariance == Spec => []AskerInv
<1>1. Init => AskerInv
    BY DEF Init, AskerInv
<1>2. QED
    BY <1>1, AskerNext, EndpointInvariance, MatchInvariance, PTL DEF Spec

\* Only a response that no fence holds off, and that is not the bridge's own, is
\* forwarded.
LEMMA ForwardedWhen ==
    ASSUME NEW k, Respond(k), out'.kind = "forwarded"
    PROVE  LET r == inflight[k]
           IN  /\ ~Fenced(r.id) /\ BootEntry(r.id) \notin pending
               /\ k \in 1..Len(inflight) /\ mixed' = mixed
               /\ out' = Forwarded(r, cHub, Waiters(r.id))
<1>1. Drop => out'.kind = "none"
    BY DEF Drop, Quiet
<1>2. QED
    BY <1>1 DEF Respond, Forward

\* Nothing else forwards.
LEMMA OnlyRespond ==
    ASSUME [Next]_vars, ~UNCHANGED vars, out'.kind = "forwarded"
    PROVE  \E k \in 1..MaxInflight : Respond(k)
<1>1. Quiet.kind # "forwarded"
    BY DEF Quiet
<1>2. \A d : Refused(d).kind # "forwarded"
    BY DEF Refused
<1>3. \A d, ids : Failed(d, ids).kind # "forwarded"
    BY DEF Failed
<1>4. FailController => out'.kind # "forwarded"
    BY <1>1, <1>3 DEF FailController
<1>5. \A u \in Ups : UpstreamStep(u) \/ InstallUpstream(u) \/ Bootstrap(u) \/ StartUpstream(u)
                       => out' = Quiet
    BY DEF UpstreamStep, InstallUpstream, Bootstrap, StartUpstream
<1>6. \A u \in Ups : ReleaseUpstream(u) => FailController
    BY DEF ReleaseUpstream
<1>7. \A d \in Ctls : /\ CdpStep(d) \/ ReleaseController(d) => out' = Quiet
                      /\ ControllerRefused(d) => out' = Refused(d)
    BY DEF CdpStep, ReleaseController, ControllerRefused
<1>8. \A d \in Ctls, i \in Ids : ControllerSend(d, i) => out' = Quiet
    BY DEF ControllerSend
<1>9. \A i \in Ids : SdkSend(i) \/ SdkGiveUp(i) => out' = Quiet
    BY DEF SdkSend, SdkGiveUp
<1>10. \A e \in pending : Expire(e) => out' = Quiet
    BY DEF Expire
<1>11. QED
    BY <1>1, <1>2, <1>4, <1>5, <1>6, <1>7, <1>8, <1>9, <1>10 DEF Next

\* resolveCDPResponse and the fences send a response to the client that asked,
\* as long as its id was not used twice at a time: what is known of a request
\* (AskerInv) is known of it when its response arrives.
THEOREM RecipientsRight == Spec => []RightRecipient
<1>1. Init => RightRecipient
    <2>1. Quiet.kind = "none"
        BY DEF Quiet
    <2>2. QED
        BY <2>1 DEF Init, RightRecipient
<1>2. /\ EndpointInv /\ TransportInv /\ AskerInv /\ RightRecipient /\ [Next]_vars
      => RightRecipient'
    <2> SUFFICES ASSUME EndpointInv, TransportInv, AskerInv, RightRecipient, [Next]_vars,
                        out'.kind = "forwarded", out'.id \notin mixed'
                 PROVE  /\ out'.asker # Boot
                        /\ out'.asker \in Ctls
                             => out'.to \subseteq {out'.asker} /\ Sdk \notin out'.waiters
        BY DEF RightRecipient
    <2>1. CASE UNCHANGED vars
        BY <2>1 DEF vars, requestVars, RightRecipient
    <2>2. CASE ~UNCHANGED vars
        <3>1. PICK k \in 1..MaxInflight : Respond(k)
            BY <2>2, OnlyRespond
        <3>2. PICK r \in [asker : Askers, id : Nat] : r = inflight[k]
            <4>1. k \in 1..Len(inflight) /\ inflight \in Seq([asker : Askers, id : Nat])
                BY <3>1 DEF Respond, TransportInv
            <4>2. inflight[k] \in [asker : Askers, id : Nat]
                BY <4>1, ElementOfSeq
            <4>3. QED
                BY <4>2
        <3>3. /\ ~Fenced(r.id) /\ BootEntry(r.id) \notin pending /\ mixed' = mixed
              /\ k \in 1..Len(inflight) /\ out' = Forwarded(r, cHub, Waiters(r.id))
            BY <3>1, <3>2, ForwardedWhen
        <3>4. /\ out'.asker = r.asker /\ out'.id = r.id /\ out'.to = cHub
              /\ out'.waiters = Waiters(r.id)
            BY <3>3 DEF Forwarded
        <3>5. Answerable(inflight[k])
            BY <3>2, <3>3, <3>4 DEF AskerInv
        <3>6. Answerable(r)
            BY <3>2, <3>5
        <3>7. r.asker # Boot
            BY <3>3, <3>6 DEF Answerable
        <3>8. ASSUME r.asker \in Ctls PROVE cHub \subseteq {r.asker} /\ Sdk \notin Waiters(r.id)
            <4>1. r.id \notin sdkWait /\ cOwner = r.asker
                BY <3>3, <3>6, <3>8 DEF Answerable
            <4>2. QED
                BY <4>1, Hubs DEF Waiters
        <3>9. QED
            BY <3>4, <3>7, <3>8
    <2>3. QED
        BY <2>1, <2>2
<1>3. QED
    BY <1>1, <1>2, EndpointInvariance, MatchInvariance, AskerInvariance, PTL DEF Spec
=============================================================================
