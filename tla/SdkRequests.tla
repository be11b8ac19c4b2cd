---------------------------- MODULE SdkRequests ----------------------------
(***************************************************************************)
(* Request calls of the SDK (Service.Send, SendRaw) between the goroutine  *)
(* of the caller, the observers that internal/app calls, and shutdown.     *)
(*                                                                         *)
(* A call registers a waiter under s.mu, hands its request to internal/app *)
(* outside s.mu, and then waits for a result or its deadline.  Each action *)
(* is one critical section of s.mu or dispatchMu; the results it decides   *)
(* to send are in their channels when it ends.  Only a call that gives up  *)
(* keeps s.mu longer than that, because it waits for connMu.               *)
(*                                                                         *)
(* The upstream endpoint is that of UpstreamLink; no controller is         *)
(* connected, the bridge's own Runtime.enable is left to Bridge and what   *)
(* observers do about health to Health.                                    *)
(***************************************************************************)
EXTENDS Naturals, FiniteSets, Functions, UpstreamLink

CONSTANTS
    Calls,          \* calls of Send, each made once
    Ids,            \* request ids; SendRaw lets callers choose them
    NoCall, NoId,
    PendingLimit    \* Options.PendingLimit

ASSUME SdkAssumption ==
    /\ NoCall \notin Calls /\ NoId \notin Ids
    /\ PendingLimit \in Nat \ {0}

VARIABLES
    state,      \* s.state: running or stopping
    failed,     \* shutdown has failed the pending calls
    online,     \* s.upstreamOnline
    smu,        \* the call that keeps s.mu while it cancels its request
    pending,    \* s.pending: the call that waits for each id
    call,       \* where each call is
    idOf,       \* its request id
    channel,    \* its result channel, of capacity one
    table,      \* unscoped ids in the correlator
    wire,       \* calls whose request is on a transport
    sentOn      \* history: the transport a request went to

callVars == <<smu, pending, call, idOf, channel>>
appVars == <<table, wire, sentOn>>
vars == <<state, failed, online, callVars, linkVars, appVars, appStage>>

Empty == [kind |-> "empty"]
ResponseTo(b) == [kind |-> "response", of |-> b]
Lost == [kind |-> "lost"]        \* ErrUpstreamDisconnected
Closed == [kind |-> "closed"]    \* ErrClosed

Active == {"registered", "admitted", "waiting"}

SmuFree == smu = NoCall

Init ==
    /\ state = "running" /\ smu = NoCall /\ failed = FALSE /\ online = FALSE
    /\ pending = [i \in Ids |-> NoCall]
    /\ call = [a \in Calls |-> "idle"]
    /\ idOf = [a \in Calls |-> NoId]
    /\ channel = [a \in Calls |-> Empty]
    /\ LinkInit
    /\ table = {} /\ wire = {}
    /\ sentOn = [a \in Calls |-> NoConn]

Occupants == {i \in Ids : pending[i] # NoCall}

-----------------------------------------------------------------------------
(* A call.                                                                 *)

\* Mutant of Refusal: a call is accepted while the service stops.
RefusalWhileStopping(i) ==
    \/ ~online /\ hub = NoConn
    \/ pending[i] # NoCall
    \/ Cardinality(Occupants) >= PendingLimit

\* ErrNotRunning, ErrNoUpstream, ErrDuplicateID or ErrTooManyPending.
Refusal(i) ==
    \/ state # "running"
    \/ ~online /\ hub = NoConn
    \/ pending[i] # NoCall
    \/ Cardinality(Occupants) >= PendingLimit

Refuse(a, i) ==
    /\ SmuFree /\ call[a] = "idle" /\ Refusal(i)
    /\ call' = [call EXCEPT ![a] = "done"]
    /\ UNCHANGED <<state, smu, failed, online, pending, idOf, channel, linkVars, appVars, appStage>>

Register(a, i) ==
    /\ SmuFree /\ call[a] = "idle" /\ ~Refusal(i)
    /\ call' = [call EXCEPT ![a] = "registered"]
    /\ idOf' = [idOf EXCEPT ![a] = i]
    /\ pending' = [pending EXCEPT ![i] = a]
    /\ UNCHANGED <<state, smu, failed, online, channel, linkVars, appVars, appStage>>

\* SendCDPRoute looks at closing before it takes dispatchMu.
Admit(a) ==
    /\ call[a] = "registered" /\ appStage = "open"
    /\ call' = [call EXCEPT ![a] = "admitted"]
    /\ UNCHANGED <<state, smu, failed, online, pending, idOf, channel, linkVars, appVars, appStage>>

\* A call ends without a result: it removes the entry of its id, whoever's that
\* is, and keeps s.mu ...
GiveUp(a) ==
    /\ SmuFree
    /\ smu' = a
    /\ pending' = [pending EXCEPT ![idOf[a]] = NoCall]
    /\ call' = [call EXCEPT ![a] = "cancelling"]
    /\ UNCHANGED <<state, failed, online, idOf, channel, linkVars, appVars, appStage>>

\* ... until CancelCDPRequest has had connMu and removed the id from the correlator.
Cancel(a) ==
    /\ smu = a /\ appStage # "locked"
    /\ smu' = NoCall
    /\ table' = table \ {idOf[a]}
    /\ call' = [call EXCEPT ![a] = "done"]
    /\ UNCHANGED <<state, failed, online, pending, idOf, channel, linkVars, wire, sentOn, appStage>>

\* The app is closing, or the explicit context of the request is unknown.
SendFails(a) ==
    /\ \/ call[a] = "registered" /\ appStage # "open"
       \/ call[a] = "admitted"
    /\ GiveUp(a)

\* The request enters the correlator and goes to the upstream, if there is one.
Dispatch(a) ==
    /\ call[a] = "admitted"
    /\ call' = [call EXCEPT ![a] = "waiting"]
    /\ table' = table \cup {idOf[a]}
    /\ IF hub = NoConn
       THEN UNCHANGED <<wire, sentOn>>
       ELSE wire' = wire \cup {a} /\ sentOn' = [sentOn EXCEPT ![a] = hub]
    /\ UNCHANGED <<state, smu, failed, online, pending, idOf, channel, linkVars, appStage>>

TakeResult(a) ==
    /\ call[a] = "waiting" /\ channel[a] # Empty
    /\ call' = [call EXCEPT ![a] = "done"]
    /\ UNCHANGED <<state, smu, failed, online, pending, idOf, channel, linkVars, appVars, appStage>>

\* The deadline passes; select may prefer it to a result that is there.
TimeOut(a) == call[a] = "waiting" /\ GiveUp(a)

-----------------------------------------------------------------------------
(* The upstream endpoint and its observers.                                *)

Install(u) ==
    /\ LinkInstall(u)
    /\ UNCHANGED <<state, failed, online, callVars, appVars>>

\* observeConnection for a new connection.
ObserveConnected(u) ==
    /\ SmuFree /\ LinkConnected(u)
    /\ online' = TRUE
    /\ UNCHANGED <<state, failed, callVars, appVars>>

HubDrop(u) ==
    /\ LinkDrop(u)
    /\ UNCHANGED <<state, failed, online, callVars, appVars>>

\* Mutant of Respond: the oldest waiter takes it.
RespondToAny(a) ==
    /\ SmuFree /\ a \in wire /\ link[sentOn[a]] = "serving"
    /\ wire' = wire \ {a}
    /\ table' = table \ {idOf[a]}
    /\ pending' = [pending EXCEPT ![idOf[a]] = NoCall]
    /\ \E b \in Range(pending) \cap Calls : channel' = [channel EXCEPT ![b] = ResponseTo(a)]
    /\ UNCHANGED <<state, smu, failed, online, call, idOf, linkVars, sentOn, appStage>>

\* A response reaches observeCDP; the waiter of its id takes it, whoever that
\* is now.
Respond(a) ==
    /\ SmuFree /\ a \in wire /\ link[sentOn[a]] = "serving"
    /\ wire' = wire \ {a}
    /\ table' = table \ {idOf[a]}
    /\ pending' = [pending EXCEPT ![idOf[a]] = NoCall]
    /\ channel' = LET b == pending[idOf[a]] IN
                  IF b = NoCall THEN channel ELSE [channel EXCEPT ![b] = ResponseTo(a)]
    /\ UNCHANGED <<state, smu, failed, online, call, idOf, linkVars, sentOn, appStage>>

\* readDebug's cleanup: the correlator's table goes with the transport.
Lose(u) ==
    /\ LinkLose(u)
    /\ table' = {}
    /\ wire' = {a \in wire : sentOn[a] # u}
    /\ UNCHANGED <<state, failed, online, callVars, sentOn>>

CountClients(u) ==
    /\ LinkCount(u)
    /\ UNCHANGED <<state, failed, online, callVars, appVars>>

\* FailAll(r): every pending call gets the result r, and both tables forget it.
FailAll(r) ==
    /\ channel' = [a \in Calls |-> IF a \in Range(pending) THEN r ELSE channel[a]]
    /\ pending' = [i \in Ids |-> NoCall]
    /\ table' = table \ Occupants

\* Mutant of ObserveLost: the callers are not told.
ObserveLostQuietly(u) ==
    /\ SmuFree /\ LinkObserved(u)
    /\ online' = counted[u]
    /\ UNCHANGED <<state, failed, callVars, appVars>>

\* observeConnection for a loss: if no client was counted, the calls fail.
ObserveLost(u) ==
    /\ SmuFree /\ LinkObserved(u)
    /\ online' = counted[u]
    /\ IF state = "running" /\ ~counted[u]
       THEN FailAll(Lost)
       ELSE UNCHANGED <<channel, pending, table>>
    /\ UNCHANGED <<state, smu, failed, call, idOf, wire, sentOn>>

-----------------------------------------------------------------------------
(* Shutdown.                                                               *)

BeginClose ==
    /\ SmuFree /\ state = "running"
    /\ state' = "stopping"
    /\ UNCHANGED <<failed, online, callVars, linkVars, appVars, appStage>>

\* Mutant of FailPending: the waiters are forgotten but not told.
DropPending ==
    /\ SmuFree /\ state = "stopping" /\ ~failed
    /\ failed' = TRUE
    /\ pending' = [i \in Ids |-> NoCall]
    /\ table' = table \ Occupants
    /\ UNCHANGED <<state, smu, online, call, idOf, channel, linkVars, wire, sentOn, appStage>>

FailPending ==
    /\ SmuFree /\ state = "stopping" /\ ~failed
    /\ failed' = TRUE
    /\ FailAll(Closed)
    /\ UNCHANGED <<state, smu, online, call, idOf, linkVars, wire, sentOn, appStage>>

\* App.Close; why its writers may keep it in CloseAll is in Outbound.
CloseApp ==
    /\ failed /\ LinkCloses
    /\ UNCHANGED <<state, failed, online, callVars, appVars>>

\* When all readers and observers are through, App.Close clears the table.
FinishApp ==
    /\ LinkClosed
    /\ table' = {}
    /\ UNCHANGED <<state, failed, online, callVars, wire, sentOn>>

-----------------------------------------------------------------------------

Next ==
    \/ \E a \in Calls, i \in Ids : Refuse(a, i) \/ Register(a, i)
    \/ \E a \in Calls : \/ Admit(a) \/ SendFails(a) \/ Dispatch(a)
                        \/ TakeResult(a) \/ TimeOut(a) \/ Cancel(a) \/ Respond(a)
    \/ \E u \in Ups : \/ Install(u) \/ ObserveConnected(u) \/ HubDrop(u)
                      \/ Lose(u) \/ CountClients(u) \/ ObserveLost(u)
    \/ BeginClose \/ FailPending \/ CloseApp \/ FinishApp

\* App.Close gets out of CloseAll if no call keeps s.mu meanwhile, which is all
\* that Outbound shows of it.
LeaveCloseAll == SmuFree /\ LinkUnlocks /\ CloseApp

\* A call and shutdown go on when they can; a call cannot pass the hub while
\* CloseAll is at it.  Deadlines, responses and observers are not relied on.
Fairness ==
    /\ \A a \in Calls : /\ WF_vars(Admit(a) \/ SendFails(a))
                        /\ WF_vars(appStage # "locked" /\ Dispatch(a))
                        /\ WF_vars(TakeResult(a))
                        /\ WF_vars(Cancel(a))
    /\ WF_vars(FailPending) /\ WF_vars(LeaveCloseAll)

SafetySpec == Init /\ [][Next]_vars
Spec == SafetySpec /\ Fairness

-----------------------------------------------------------------------------
(* Properties.                                                             *)

Results == {Empty, Lost, Closed} \cup {ResponseTo(b) : b \in Calls}

\* Every field is in its range, what is on the wire went to a transport, and
\* the limit on pending calls is respected.
TypeOK ==
    /\ state \in {"running", "stopping"} /\ failed \in BOOLEAN /\ online \in BOOLEAN
    /\ pending \in [Ids -> Calls \cup {NoCall}]
    /\ Cardinality(Occupants) <= PendingLimit
    /\ call \in [Calls -> {"idle", "cancelling", "done"} \cup Active]
    /\ smu \in Calls \cup {NoCall}
    /\ idOf \in [Calls -> Ids \cup {NoId}]
    /\ channel \in [Calls -> Results]
    /\ table \subseteq Ids /\ wire \subseteq {a \in Calls : sentOn[a] # NoConn}
    /\ sentOn \in [Calls -> Ups \cup {NoConn}]
    /\ LinkTypeOK

Alone(a) == \A b \in Calls \ {a} : idOf[b] # idOf[a]

\* A pending entry always leads to a call that is under way, carries that id
\* and has no result yet: a response is never handed to a call that is over,
\* and sending on a result channel never blocks an observer.
PendingIsLive ==
    \A i \in Ids : pending[i] # NoCall =>
        LET a == pending[i]
        IN  call[a] \in Active /\ idOf[a] = i /\ channel[a] = Empty

\* A call without a result can be found by whatever would end it, through all
\* the races of responses, losses, deadlines and shutdown; its id must not be
\* used by another call (a deadline removes the entry of its id unseen).
WaiterIsPending ==
    \A a \in Calls : call[a] \in Active /\ channel[a] = Empty /\ Alone(a) =>
        pending[idOf[a]] = a

\* s.pending and the calls under way match, in both directions.
PendingMatchesCalls == PendingIsLive /\ WaiterIsPending

\* A response goes to a call with its id, and to the very call it answers if
\* no other used that id.
ResponseToAsker ==
    \A a \in Calls : channel[a].kind = "response" =>
        /\ idOf[channel[a].of] = idOf[a]
        /\ Alone(a) => channel[a].of = a

\* A call that waits for a lost transport is told as soon as the loss has been
\* observed, unless the next connection was there before the loss was counted.
LossIsTold ==
    \A a \in Calls, u \in Ups :
        call[a] = "waiting" /\ channel[a] = Empty /\ Alone(a) /\ state = "running"
        /\ sentOn[a] = u /\ link[u] = "gone" => counted[u]

\* App.Close is in CloseAll with connMu, and a call that gives up waits for it
\* with s.mu.
Crossed == appStage = "locked" /\ ~SmuFree

\* Once shutdown has begun every call under way ends without the help of a
\* deadline, because no call can register behind the step that fails them all;
\* unless a call that gives up and App.Close cross for ever, which also holds up
\* every other call that needs s.mu.
CloseEndsCalls ==
    \A a \in Calls : (state = "stopping" /\ call[a] # "idle" /\ Alone(a))
                       ~> (call[a] = "done" \/ []Crossed)

\* docs/sdk.md: "Pending waiters are terminated with ErrUpstreamDisconnected or
\* ErrClosed when the connection/service ends."
WaitersTerminated ==
    \A a \in Calls, u \in Ups :
        call[a] = "waiting" /\ channel[a] = Empty /\ Alone(a) /\ state = "running"
        /\ sentOn[a] = u => link[u] # "gone"
=============================================================================
