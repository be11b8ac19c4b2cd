------------------------------- MODULE Bridge -------------------------------
(***************************************************************************)
(* Request routing of internal/app between the mini program (upstream),    *)
(* one CDP controller at a time, and the SDK of the embedding process.     *)
(*                                                                         *)
(* Both endpoints follow Ownership.  Requests of the controller, of the    *)
(* SDK and the bridge's own Runtime.enable share one upstream transport;   *)
(* a response carries nothing but a request id.  Who it belongs to is      *)
(* decided by the correlator, and late responses of a controller that has  *)
(* gone are held off by response fences.                                   *)
(*                                                                         *)
(* Every action that touches requests, fences or the upstream transport is *)
(* one critical section of dispatchMu.  A reader checks ownerCurrent       *)
(* before it takes dispatchMu; nobody but the reader itself releases its   *)
(* connection, so check and handling are one action.  The bridge is open   *)
(* throughout (App.Close is in Ownership).                                 *)
(***************************************************************************)
EXTENDS Correlator, Sequences

CONSTANTS
    Ups, Ctls,      \* connections to the upstream and to the CDP endpoint
    NoConn,
    Ids,            \* request ids of controllers and of the SDK
    MaxFences,      \* maxCDPResponseFences
    MaxInflight,    \* bound of the model: requests on the upstream transport
    FifoUpstream    \* the mini program answers in the order of the requests

Sdk == "sdk"
Boot == "bootstrap"

ASSUME BridgeAssumption ==
    /\ NoConn \notin Ups \cup Ctls /\ {Sdk, Boot} \cap Ctls = {}
    /\ Ids \subseteq Nat \ {0}
    /\ MaxFences \in Nat \ {0} /\ MaxInflight \in Nat \ {0}
    /\ FifoUpstream \in BOOLEAN

VARIABLES
    dOwner, dClaimed, dGen, dConnGen, dPhase, dHub, dDown,   \* upstream endpoint
    cOwner, cClaimed, cGen, cConnGen, cPhase, cHub, cDown,   \* CDP endpoint
    pending,    \* Requests: the correlator's table
    fences,     \* cdpResponseFences
    blocked,    \* cdpResponseFenceBlocked
    bootGen,    \* bootstrapGeneration
    bootSeq,    \* bootstrapSeq
    inflight,   \* requests on the upstream transport, each with its asker
    sdkWait,    \* ids some SDK call waits for
    out,        \* what the last step sent to clients
    mixed       \* history: ids that were ambiguous on this upstream transport

debugVars == <<dOwner, dClaimed, dGen, dConnGen, dPhase, dHub, dDown>>
cdpVars == <<cOwner, cClaimed, cGen, cConnGen, cPhase, cHub, cDown>>
requestVars == <<pending, fences, blocked, bootGen, bootSeq, inflight, sdkWait, mixed>>
vars == <<debugVars, cdpVars, requestVars, out>>

U == INSTANCE Ownership
       WITH Conns <- Ups, owner <- dOwner, claimed <- dClaimed, generation <- dGen,
            connGen <- dConnGen, phase <- dPhase, hub <- dHub, down <- dDown,
            closeStage <- "open"
C == INSTANCE Ownership
       WITH Conns <- Ctls, owner <- cOwner, claimed <- cClaimed, generation <- cGen,
            connGen <- cConnGen, phase <- cPhase, hub <- cHub, down <- cDown,
            closeStage <- "open"

Askers == Ctls \cup {Sdk, Boot}

ControllerEntry(i) == Entry("controller", cGen, i)
BootEntry(i) == Entry(Boot, 0, i)
UnscopedEntry(i) == Entry("", 0, i)

\* Nothing was sent; a response was forwarded (its waiters are the client kinds
\* that have a request with its id); a request was refused; the controller was
\* told that the upstream has gone.
Quiet == [kind |-> "none"]
Forwarded(r, to, waiters) ==
    [kind |-> "forwarded", id |-> r.id, asker |-> r.asker, to |-> to, waiters |-> waiters]
Refused(d) == [kind |-> "refused", to |-> d]
Failed(d, ids) == [kind |-> "failed", to |-> d, ids |-> ids]

Init ==
    /\ U!Init /\ C!Init
    /\ pending = {} /\ fences = {} /\ blocked = FALSE
    /\ bootGen = 0 /\ bootSeq = 0
    /\ inflight = <<>> /\ sdkWait = {}
    /\ out = Quiet /\ mixed = {}

-----------------------------------------------------------------------------
(* Connections come and go.                                                *)

\* A step of the CDP endpoint that involves no requests.
CdpStep(d) ==
    /\ \/ C!Reject(d) \/ C!Reserve(d) \/ C!UpgradeFailed(d) \/ C!Install(d)
       \/ C!StartReader(d) \/ C!TransportFails(d) \/ C!FinishRelease(d)
    /\ out' = Quiet
    /\ UNCHANGED <<debugVars, requestVars>>

\* A step of the upstream endpoint that involves no requests.
UpstreamStep(u) ==
    /\ \/ U!Reject(u) \/ U!Reserve(u) \/ U!UpgradeFailed(u)
       \/ U!TransportFails(u) \/ U!FinishRelease(u)
    /\ out' = Quiet
    /\ UNCHANGED <<cdpVars, requestVars>>

ClearFences == fences' = {} /\ blocked' = FALSE

\* installOwner("upstream"): the fences of the old transport go.
InstallUpstream(u) ==
    /\ U!Install(u)
    /\ ClearFences
    /\ out' = Quiet
    /\ UNCHANGED <<cdpVars, pending, bootGen, bootSeq, inflight, sdkWait, mixed>>

\* The handler starts the reader after the bootstrap.
StartUpstream(u) ==
    /\ bootGen = dGen
    /\ U!StartReader(u)
    /\ out' = Quiet
    /\ UNCHANGED <<cdpVars, requestVars>>

-----------------------------------------------------------------------------
(* Requests.                                                               *)

\* DebugHub.Broadcast: the frame is queued for the owner, or the queue is full
\* and the owner is dropped from the hub and closed, or there is no owner.
Transmit(asker, i) ==
    IF dHub = {}
    THEN UNCHANGED <<debugVars, inflight>>
    ELSE \/ /\ Len(inflight) < MaxInflight
            /\ inflight' = Append(inflight, [asker |-> asker, id |-> i])
            /\ UNCHANGED debugVars
         \/ /\ \E u \in dHub : U!HubDrop(u)
            /\ UNCHANGED inflight

\* History: somebody starts to use an id that is already in use.
InUse(i) == i \in sdkWait \/ \E k \in 1..Len(inflight) : inflight[k].id = i
Note(i) == mixed' = IF InUse(i) THEN mixed \cup {i} ELSE mixed

\* bootstrapUpstreamDomains; with a full table nothing is sent.
Bootstrap(u) ==
    /\ dPhase[u] = "installed" /\ bootGen # dGen
    /\ bootGen' = dGen
    /\ bootSeq' = bootSeq + 1
    /\ IF Admits(pending, BootEntry(bootSeq + 1))
       THEN /\ pending' = pending \cup {BootEntry(bootSeq + 1)}
            /\ Transmit(Boot, bootSeq + 1)
       ELSE UNCHANGED <<pending, debugVars, inflight>>
    /\ Note(bootSeq + 1)
    /\ out' = Quiet
    /\ UNCHANGED <<cdpVars, fences, blocked, sdkWait>>

\* The controller's request is answered with an error and goes no further:
\* no upstream, an ambiguous id, a full table, or the limit of
\* trackSubscriptionLocked (whose table has no other effect on a request).
ControllerRefused(d) ==
    /\ cPhase[d] = "serving"
    /\ out' = Refused(d)
    /\ UNCHANGED <<debugVars, cdpVars, requestVars>>

Fenced(i) == blocked \/ i \in fences

\* Mutant of MaySend: an id that is fenced is used again.
MaySendFenced(d, i) ==
    /\ cPhase[d] = "serving" /\ dOwner # NoConn
    /\ Admits(pending, ControllerEntry(i))

MaySend(d, i) ==
    /\ cPhase[d] = "serving" /\ dOwner # NoConn
    /\ ~Fenced(i) /\ Admits(pending, ControllerEntry(i))

\* handleCDPFrame and sendCDPToContextLocked for a request with an id.
ControllerSend(d, i) ==
    /\ MaySend(d, i)
    /\ pending' = pending \cup {ControllerEntry(i)}
    /\ Transmit(d, i)
    /\ Note(i)
    /\ out' = Quiet
    /\ UNCHANGED <<cdpVars, fences, blocked, bootGen, bootSeq, sdkWait>>

\* SendCDPRoute on behalf of an SDK call, which is never fenced; with a full
\* table the request is dropped and the call keeps waiting.
SdkSend(i) ==
    /\ i \notin sdkWait /\ dGen > 0
    /\ sdkWait' = sdkWait \cup {i}
    /\ IF Admits(pending, UnscopedEntry(i))
       THEN /\ pending' = pending \cup {UnscopedEntry(i)}
            /\ Transmit(Sdk, i)
       ELSE UNCHANGED <<pending, debugVars, inflight>>
    /\ Note(i)
    /\ out' = Quiet
    /\ UNCHANGED <<cdpVars, fences, blocked, bootGen, bootSeq>>

\* An SDK call gives up (timeout, or it was told that the upstream has gone)
\* and cancels its request: CancelCDPRequest.
CancelTarget(i) == IF cOwner # NoConn THEN ControllerEntry(i) ELSE UnscopedEntry(i)

SdkGiveUp(i) ==
    /\ i \in sdkWait
    /\ sdkWait' = sdkWait \ {i}
    /\ pending' = Without(pending, CancelTarget(i))
    /\ mixed' = IF ControllerEntry(i) \in pending \ pending' THEN mixed \cup {i} ELSE mixed
    /\ out' = Quiet
    /\ UNCHANGED <<debugVars, cdpVars, fences, blocked, bootGen, bootSeq, inflight>>

\* The deadline of a pending request passes.
Expire(e) ==
    /\ e \in pending
    /\ pending' = pending \ {e}
    /\ mixed' = IF e.owner = "" THEN mixed ELSE mixed \cup {e.id}
    /\ out' = Quiet
    /\ UNCHANGED <<debugVars, cdpVars, fences, blocked, bootGen, bootSeq, inflight, sdkWait>>

-----------------------------------------------------------------------------
(* Responses.                                                              *)

RemoveAt(s, k) == SubSeq(s, 1, k - 1) \o SubSeq(s, k + 1, Len(s))

Drop == UNCHANGED <<cdpVars, sdkWait>> /\ out' = Quiet

Waiters(i) ==
    {a \in {Sdk, "controller"} :
        IF a = Sdk THEN i \in sdkWait
                   ELSE cOwner # NoConn /\ ControllerEntry(i) \in pending}

\* CDPHub.Broadcast and the SDK's observer: everybody connected sees the
\* response, a controller whose queue is full is dropped.
Forward(r) ==
    /\ \/ UNCHANGED cdpVars
       \/ \E d \in cHub : C!HubDrop(d)
    /\ sdkWait' = sdkWait \ {r.id}
    /\ out' = Forwarded(r, cHub, Waiters(r.id))

\* The entry resolveCDPResponse resolves, the unscoped one last.
Resolved(i) ==
    IF BootEntry(i) \in pending THEN BootEntry(i)
    ELSE IF cOwner # NoConn /\ ControllerEntry(i) \in pending THEN ControllerEntry(i)
    ELSE UnscopedEntry(i)

\* Mutant of Consumed: a fence holds off every later response as well.
NotConsumed(i) == fences

\* consumeCDPResponseFenceLocked; a blocked transport stays blocked.
Consumed(i) == fences \ {i}

\* A ChromeDevtoolsResult with an id: a fence swallows it; else it resolves
\* one entry and is forwarded, unless the entry was the bridge's own.
Respond(k) ==
    /\ k \in 1..Len(inflight) /\ (FifoUpstream => k = 1)
    /\ dOwner # NoConn /\ dPhase[dOwner] = "serving"
    /\ LET r == inflight[k] IN
         /\ inflight' = RemoveAt(inflight, k)
         /\ IF Fenced(r.id)
            THEN /\ fences' = Consumed(r.id)
                 /\ UNCHANGED pending
                 /\ Drop
            ELSE /\ pending' = pending \ {Resolved(r.id)}
                 /\ UNCHANGED fences
                 /\ IF BootEntry(r.id) \in pending THEN Drop ELSE Forward(r)
    /\ UNCHANGED <<debugVars, blocked, bootGen, bootSeq, mixed>>

-----------------------------------------------------------------------------
(* Readers clean up.  Current(c) holds for every live reader, so the       *)
(* branch of the code for a stale client is not taken                      *)
(* (OwnershipProofs!LiveReaderCurrent).                                    *)

ControllerPending == OfScope(pending, "controller", cGen)

\* Mutant of FailController: the controller is not told.
FailNobody == out' = Quiet /\ UNCHANGED cdpVars

\* The requests of the current controller are failed in one batch; a batch that
\* does not fit its queue closes the controller instead.
FailController ==
    IF cOwner # NoConn /\ ControllerPending # {}
    THEN \/ /\ out' = Failed(cOwner, IdsOf(ControllerPending))
            /\ UNCHANGED cdpVars
         \/ /\ out' = Quiet
            /\ cDown' = cDown \cup {cOwner}
            /\ UNCHANGED <<cOwner, cClaimed, cGen, cConnGen, cPhase, cHub>>
    ELSE /\ out' = Quiet
         /\ UNCHANGED cdpVars

\* readDebug's cleanup: the table, the fences and everything on the transport
\* go.
ReleaseUpstream(u) ==
    /\ U!Release(u)
    /\ FailController
    /\ pending' = {}
    /\ ClearFences
    /\ inflight' = <<>> /\ mixed' = {}
    /\ UNCHANGED <<bootGen, bootSeq, sdkWait>>

\* Mutant of AddFences: late responses are not held off.
AddNoFence(drained) == UNCHANGED <<fences, blocked>>

\* When the fences overflow, every response with an id is held off from then
\* on.
AddFences(drained) ==
    LET all == fences \cup IdsOf(drained)
        overflow == Cardinality(all) > MaxFences
    IN  IF blocked \/ drained = {}
        THEN UNCHANGED <<fences, blocked>>
        ELSE /\ fences' = IF overflow THEN {} ELSE all
             /\ blocked' = overflow

\* readCDP's cleanup: the ids the controller still waits for are fenced.
ReleaseController(d) ==
    LET drained == OfScope(pending, "controller", cConnGen[d])
    IN  /\ C!Release(d)
        /\ pending' = pending \ drained
        /\ AddFences(drained)
        /\ out' = Quiet
        /\ UNCHANGED <<debugVars, bootGen, bootSeq, inflight, sdkWait, mixed>>

-----------------------------------------------------------------------------

Next ==
    \/ \E u \in Ups : \/ UpstreamStep(u) \/ InstallUpstream(u) \/ Bootstrap(u)
                      \/ StartUpstream(u) \/ ReleaseUpstream(u)
    \/ \E d \in Ctls : CdpStep(d) \/ ControllerRefused(d) \/ ReleaseController(d)
    \/ \E d \in Ctls, i \in Ids : ControllerSend(d, i)
    \/ \E i \in Ids : SdkSend(i) \/ SdkGiveUp(i)
    \/ \E e \in pending : Expire(e)
    \/ \E k \in 1..MaxInflight : Respond(k)

Spec == Init /\ [][Next]_vars

-----------------------------------------------------------------------------
(* Properties.                                                             *)

ScopeTags == {"controller", Boot, ""}
RequestIds == Ids \cup 1..Cardinality(Ups)

\* Every field is in its range, and the tables respect their limits.
TypeOK ==
    /\ U!TypeOK /\ C!TypeOK
    /\ pending \subseteq [owner : ScopeTags, gen : 0..cGen, id : RequestIds]
    /\ Cardinality(pending) <= MaxPending
    /\ fences \subseteq Ids /\ Cardinality(fences) <= MaxFences
    /\ blocked \in BOOLEAN
    /\ bootGen \in 0..dGen /\ bootSeq \in 0..dGen
    /\ inflight \in Seq([asker : Askers, id : RequestIds]) /\ Len(inflight) <= MaxInflight
    /\ sdkWait \subseteq Ids /\ mixed \subseteq RequestIds

\* Both endpoints keep following Ownership while requests, losses and full
\* queues act on them.
EndpointsOwned == U!SafetySpec /\ C!SafetySpec

\* A scoped entry has somebody to answer to and somebody to answer it: a
\* controller's request belongs to the controller connected now, and nothing
\* but unscoped SDK requests is pending while the mini program is away.
PendingOwned ==
    \A e \in pending :
        /\ e.owner = "controller" => cOwner # NoConn /\ e.gen = cGen
        /\ e.owner # "" => dOwner # NoConn

\* Fences exist only while the transport they guard against is connected: the
\* fences readCDP adds "even when the upstream owner is already absent" are
\* none.
FencesNeedUpstream == (fences # {} \/ blocked) => dOwner # NoConn

\* The id of a fenced request is never pending for the present controller, so
\* a late response cannot resolve the request of somebody else.
FencedNeverReused ==
    \A e \in pending : e.owner = "controller" => ~Fenced(e.id)

\* While the transport is healthy, every fence and every request the bridge or
\* the controller waits for is matched by a request on the transport: nobody
\* waits for a response that cannot come, and no fence outlives its response.
\* (Once the fences overflow every response is held off until the next
\* upstream, and only the bridge's own enable can still be waiting.)
CountPending(i) == Cardinality({e \in pending : e.id = i /\ e.owner # ""})
CountFence(i) == IF i \in fences THEN 1 ELSE 0
CountInflight(i) == Cardinality({k \in 1..Len(inflight) : inflight[k].id = i})

EveryWaitMatched ==
    dOwner \in dHub /\ ~blocked =>
        \A i \in RequestIds : CountPending(i) + CountFence(i) <= CountInflight(i)

\* As long as an id is unambiguous on the transport (not used twice at a time,
\* no entry expired or cancelled), a response reaches the client that asked:
\* never another controller generation, never an SDK call that did not ask,
\* and the bridge's own enable is never seen by any client.
RightRecipient ==
    out.kind = "forwarded" /\ out.id \notin mixed =>
        /\ out.asker # Boot
        /\ out.asker \in Ctls => out.to \subseteq {out.asker} /\ Sdk \notin out.waiters

\* When the upstream goes away, the controller is told about every request it
\* waits for, or its connection is closed; none is forgotten silently.
LossReported ==
    [][dOwner # NoConn /\ dOwner' = NoConn =>
         LET lost == IdsOf(ControllerPending)
         IN  lost # {} => out' = Failed(cOwner, lost) \/ cOwner \in cDown']_vars

-----------------------------------------------------------------------------
(* What the code's comments promise without the condition on ids.          *)

\* bootstrapUpstreamDomains: "its response is resolved and then swallowed by
\* the bridge, so it can never satisfy (or be confused with) an SDK or raw CDP
\* request that reuses the same request id".
BootstrapPrivate == out.kind = "forwarded" /\ out.asker = Boot => out.waiters = {}

\* An SDK call that gives up removes the request it registered, not one of
\* another owner.
GiveUpIsExact ==
    [][\A i \in Ids : SdkGiveUp(i) => pending' = pending \ {UnscopedEntry(i)}]_vars
=============================================================================
