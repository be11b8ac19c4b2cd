------------------------------- MODULE Contexts -------------------------------
(***************************************************************************)
(* JavaScript contexts, from the frames that announce them to the          *)
(* subscribers of the SDK: the dispatcher of src/internal/app/app.go, the  *)
(* frames a replay feeds into it, the upstream connection that begins and  *)
(* ends a generation, SelectContext (src/sdk/service.go), and the bus of   *)
(* context events.                                                         *)
(*                                                                         *)
(* A section under dispatchMu is a few steps on the registry and on the    *)
(* bus, each inside a lock of its own: what is left of the section is its  *)
(* agenda, and dispatchMu is free when there is none.  SelectContext takes *)
(* part without dispatchMu.                                                *)
(***************************************************************************)
EXTENDS ContextRegistry

CONSTANTS
  Replays,        \* calls of ReplayContext
  ReplayLength,   \* frames in a capture
  Selectors,      \* calls of SelectContext
  Subscribers,    \* subscriptions, each made before the first event
  BufferSize,     \* capacity of a subscription's channel
  MaxGeneration,  \* bound: upstream connections
  MaxFrames,      \* bound: frames from upstream
  NoOne           \* nobody holds dispatchMu; no replay is registered

Upstream == "upstream"

ASSUME ContextsAssumption ==
  /\ {ReplayLength, BufferSize, MaxGeneration, MaxFrames} \subseteq Nat
  /\ Upstream \notin Replays
  /\ NoOne \notin Replays \union {Upstream}

VARIABLES
  reg,         \* Contexts
  holder,      \* who is inside dispatchMu
  agenda,      \* what the holder has yet to do
  generation,  \* debugGeneration
  upstream,    \* an upstream connection is installed
  frames,      \* frames read from upstream
  replay,      \* each replay: [at, cancelled, left]
  current,     \* the replay replayCancel belongs to
  late,        \* history: frames a replay submitted after it was cancelled
  selector,    \* each SelectContext: [at, id, found]
  close,       \* where App.Close is
  open,        \* the subscriptions the bus still serves
  waiting,     \* events in the channel of each of them
  told,        \* history: the contexts each knows of once its channel is read out
  raced        \* history: contexts announced though they were not registered

dispatchVars == <<reg, holder, agenda>>
linkVars == <<generation, upstream, frames>>
replayVars == <<replay, current, late>>
busVars == <<open, waiting, told, raced>>
vars == <<dispatchVars, linkVars, replayVars, selector, close, busVars>>

Init ==
  /\ reg = NewRegistry
  /\ holder = NoOne
  /\ agenda = <<>>
  /\ generation = 0
  /\ upstream = FALSE
  /\ frames = 0
  /\ replay = [r \in Replays |-> [at |-> "idle", cancelled |-> FALSE, left |-> ReplayLength]]
  /\ current = NoOne
  /\ late = [r \in Replays |-> 0]
  /\ selector = [s \in Selectors |-> [at |-> "idle", id |-> NoId, found |-> NoId]]
  /\ close = "open"
  /\ open = Subscribers
  /\ waiting = [s \in Subscribers |-> 0]
  /\ told = [s \in Subscribers |-> {}]
  /\ raced = {}

-----------------------------------------------------------------------------
(***************************************************************************)
(* The bus.  publish offers the event to every subscription and drops the  *)
(* one whose channel is full.                                              *)
(***************************************************************************)
Learn(known, kind, id) ==
  IF kind = "removed" \/ id = NoId THEN known \ {id} ELSE known \union {id}

Full == {s \in open : waiting[s] = BufferSize}

\* Mutant of Publish: an event that finds a full channel is lost and the subscription
\* goes on.
PublishSkipsFull(kind, id) ==
  /\ waiting' = [s \in Subscribers |-> IF s \in open \ Full THEN waiting[s] + 1 ELSE waiting[s]]
  /\ told' = [s \in Subscribers |-> IF s \in open \ Full THEN Learn(told[s], kind, id) ELSE told[s]]
  /\ UNCHANGED open

Publish(kind, id) ==
  /\ open' = open \ Full
  /\ waiting' = [s \in Subscribers |-> IF s \in open' THEN waiting[s] + 1 ELSE 0]
  /\ told' = [s \in Subscribers |-> IF s \in open' THEN Learn(told[s], kind, id) ELSE {}]

Receive(s) ==
  /\ waiting[s] > 0
  /\ waiting' = [waiting EXCEPT ![s] = @ - 1]
  /\ UNCHANGED <<dispatchVars, linkVars, replayVars, selector, close, open, told, raced>>

Unsubscribe(s) ==
  /\ s \in open
  /\ open' = open \ {s}
  /\ waiting' = [waiting EXCEPT ![s] = 0]
  /\ told' = [told EXCEPT ![s] = {}]
  /\ UNCHANGED <<dispatchVars, linkVars, replayVars, selector, close, raced>>

-----------------------------------------------------------------------------
(***************************************************************************)
(* The handlers of frames: the first step of a section and what it leaves  *)
(* to do.  A frame of generation 0 comes from a replay.                    *)
(***************************************************************************)
Do(step, id) == [do |-> step, id |-> id, target |-> 0]

Announce(kind, ids) == [i \in 1..Len(ids) |-> Do(kind, ids[i])]

Take(who, steps) ==
  /\ holder = NoOne
  /\ holder' = IF steps = <<>> THEN NoOne ELSE who
  /\ agenda' = steps

(* addJsContext, and Runtime.executionContextCreated.  A replayed          *)
(* addJsContext is announced even if the registry is full; the event of    *)
(* the Runtime domain is not.                                              *)
Added(who, g, id, private) ==
  /\ reg' = IF Matches(reg, g) THEN Upsert(reg, id, g) ELSE reg
  /\ Take(who, IF Matches(reg, g) /\ (Accepts(reg, id) \/ (g = 0 /\ private))
               THEN <<Do("added", id)>> ELSE <<>>)

\* Mutant of Removed: the removal is announced only when it changes the selection.
RemovedIfSelected(who, g, id) ==
  LET removed == Matches(reg, g) /\ id \in Registered(reg)
  IN /\ reg' = IF removed THEN Remove(reg, id) ELSE reg
     /\ Take(who, IF removed /\ reg.selected = id THEN <<Do("removed", id)>> ELSE <<>>)

\* removeJsContext and Runtime.executionContextDestroyed.
Removed(who, g, id) ==
  LET removed == Matches(reg, g) /\ id \in Registered(reg)
  IN /\ reg' = IF removed THEN Remove(reg, id) ELSE reg
     /\ Take(who, IF removed THEN <<Do("removed", id)>> ELSE <<>>)

(* connectJsContext: an unknown context is registered without being        *)
(* announced, then selected and announced as selected.                     *)
Connected(who, g, id) ==
  /\ reg' = IF Matches(reg, g) /\ id \notin Registered(reg) THEN Upsert(reg, id, g) ELSE reg
  /\ Take(who, IF Matches(reg, g) /\ (g = 0 \/ Accepts(reg, id))
               THEN <<Do("select", id), Do("selected", id)>> ELSE <<>>)

(* Runtime.executionContextsCleared: one by one, each removed and then     *)
(* announced.                                                              *)
Cleared(who, g) ==
  /\ Matches(reg, g)
  /\ Take(who, [i \in 1..(2 * Len(reg.order)) |->
                 IF i % 2 = 1 THEN Do("remove", reg.order[(i + 1) \div 2])
                              ELSE Do("removed", reg.order[i \div 2])])
  /\ UNCHANGED reg

Frame(who, g) ==
  \/ \E id \in Ids : \/ \E private \in BOOLEAN : Added(who, g, id, private)
                     \/ Removed(who, g, id)
                     \/ Connected(who, g, id)
  \/ Cleared(who, g)

UpstreamFrame ==
  /\ upstream
  /\ frames < MaxFrames
  /\ frames' = frames + 1
  /\ Frame(Upstream, generation)
  /\ UNCHANGED <<generation, upstream, replayVars, selector, close, busVars>>

-----------------------------------------------------------------------------
(***************************************************************************)
(* The steps that are left of a section.                                   *)
(***************************************************************************)
Done ==
  /\ agenda # <<>>
  /\ agenda' = Tail(agenda)
  /\ holder' = IF agenda' = <<>> THEN NoOne ELSE holder

Step(do) == Done /\ agenda[1].do = do

(* The registry's part of a section.                                       *)
RegistryStep ==
  /\ \/ Step("upsert") /\ reg' = Upsert(reg, agenda[1].id, agenda[1].target)
     \/ Step("remove") /\ reg' = Remove(reg, agenda[1].id)
     \/ Step("select") /\ reg' = Select(reg, agenda[1].id)
     \/ Step("begin") /\ reg' = BeginGeneration(reg, generation)
     \/ Step("end") /\ reg' = EndGeneration(reg, generation)
  /\ UNCHANGED <<linkVars, replayVars, selector, close, busVars>>

(* An announcement.  A selected context is looked up in the registry once  *)
(* more; a replayed one that was refused is announced without its ID.      *)
AnnounceStep ==
  /\ \E kind \in {"added", "selected", "removed"} :
       LET id == agenda[1].id
           found == IF kind = "selected" /\ id \notin Registered(reg) THEN NoId ELSE id
       IN /\ Step(kind)
          /\ Publish(kind, found)
          /\ raced' = IF kind = "added" /\ id \notin Registered(reg)
                      THEN raced \union {id} ELSE raced \ {found}
  /\ UNCHANGED <<reg, linkVars, replayVars, selector, close>>

-----------------------------------------------------------------------------
(***************************************************************************)
(* The upstream connection.  A new generation starts with the contexts and *)
(* the selection it finds, those of replays; the end of one removes all.   *)
(***************************************************************************)
InstallOwner ==
  /\ ~upstream
  /\ close = "open"
  /\ generation < MaxGeneration
  /\ generation' = generation + 1
  /\ upstream' = TRUE
  /\ Take(Upstream, <<Do("begin", NoId)>>
             \o [i \in 1..Len(reg.order) |->
                  [do |-> "upsert", id |-> reg.order[i], target |-> reg.items[reg.order[i]]]]
             \o (IF reg.selected = NoId THEN <<>> ELSE <<Do("select", reg.selected)>>))
  /\ UNCHANGED <<reg, frames, replayVars, selector, close, busVars>>

\* Mutant of EndOwner: the contexts of the connection stay until the next one is installed.
EndOwnerKeeps ==
  /\ upstream
  /\ upstream' = FALSE
  /\ Take(Upstream, Announce("removed", reg.order))
  /\ UNCHANGED <<reg, generation, frames, replayVars, selector, close, busVars>>

(* The reader's clean-up: the list is taken, the generation is ended, and  *)
(* each context is announced as removed.                                   *)
EndOwner ==
  /\ upstream
  /\ upstream' = FALSE
  /\ Take(Upstream, <<Do("end", NoId)>> \o Announce("removed", reg.order))
  /\ UNCHANGED <<reg, generation, frames, replayVars, selector, close, busVars>>

-----------------------------------------------------------------------------
(***************************************************************************)
(* ReplayContext.  The previous replay is cancelled, not awaited.          *)
(***************************************************************************)
Cancelled(rs) == [r \in Replays |-> IF r \in rs THEN [replay[r] EXCEPT !.cancelled = TRUE]
                                                ELSE replay[r]]

\* Mutant of ReplayStart: closing is not looked at inside replayMu.
ReplayStartUnchecked(r) ==
  /\ replay[r].at = "idle"
  /\ replay' = [Cancelled({current}) EXCEPT ![r].at = "reading"]
  /\ current' = r
  /\ UNCHANGED <<dispatchVars, linkVars, late, selector, close, busVars>>

ReplayStart(r) ==
  /\ replay[r].at = "idle"
  /\ IF close # "open"
     THEN /\ replay' = [replay EXCEPT ![r] = [at |-> "ended", cancelled |-> FALSE, left |-> 0]]
          /\ UNCHANGED current
     ELSE /\ replay' = [Cancelled({current}) EXCEPT ![r].at = "reading"]
          /\ current' = r
  /\ UNCHANGED <<dispatchVars, linkVars, late, selector, close, busVars>>

\* The caller gives up.
ReplayGivenUp(r) ==
  /\ replay[r].at \in {"reading", "frame"}
  /\ ~replay[r].cancelled
  /\ replay' = Cancelled({r})
  /\ UNCHANGED <<dispatchVars, linkVars, current, late, selector, close, busVars>>

\* Mutant of ReplayTakes: the context is looked at before the first frame only.
ReplayTakesBlindly(r) ==
  /\ replay[r].at = "reading"
  /\ holder # r
  /\ replay[r].left > 0
  /\ replay[r].cancelled => replay[r].left < ReplayLength
  /\ replay' = [replay EXCEPT ![r].at = "frame"]
  /\ UNCHANGED <<dispatchVars, linkVars, current, late, selector, close, busVars>>

(* The next frame is read; the context is looked at here, and not again    *)
(* before the frame has waited for dispatchMu and is handled.              *)
ReplayTakes(r) ==
  /\ replay[r].at = "reading"
  /\ holder # r
  /\ replay[r].left > 0
  /\ ~replay[r].cancelled
  /\ replay' = [replay EXCEPT ![r].at = "frame"]
  /\ UNCHANGED <<dispatchVars, linkVars, current, late, selector, close, busVars>>

ReplayFrame(r) ==
  /\ replay[r].at = "frame"
  /\ replay' = [replay EXCEPT ![r].at = "reading", ![r].left = @ - 1]
  /\ late' = IF replay[r].cancelled THEN [late EXCEPT ![r] = @ + 1] ELSE late
  /\ Frame(r, 0)
  /\ UNCHANGED <<linkVars, current, selector, close, busVars>>

\* At the end of the file, cancelled, or before the first frame if the file is no capture.
ReplayEnd(r) ==
  /\ replay[r].at = "reading"
  /\ holder # r
  /\ replay[r].cancelled \/ replay[r].left \in {0, ReplayLength}
  /\ replay' = [replay EXCEPT ![r] = [at |-> "ended", cancelled |-> FALSE, left |-> 0]]
  /\ current' = IF current = r THEN NoOne ELSE current
  /\ UNCHANGED <<dispatchVars, linkVars, late, selector, close, busVars>>

-----------------------------------------------------------------------------
(***************************************************************************)
(* SelectContext: the context is selected, looked up and announced, in     *)
(* three steps.  The state of the service was read before the first, at    *)
(* any time the service was open.                                          *)
(***************************************************************************)
SelectChoose(s, id) ==
  /\ selector[s].at = "idle"
  /\ reg' = Select(reg, id)
  /\ selector' = [selector EXCEPT ![s] = IF id \in Registered(reg)
                                         THEN [@ EXCEPT !.at = "get", !.id = id]
                                         ELSE [@ EXCEPT !.at = "done"]]
  /\ UNCHANGED <<holder, agenda, linkVars, replayVars, close, busVars>>

SelectGet(s) ==
  /\ selector[s].at = "get"
  /\ selector' = [selector EXCEPT ![s].at = "publish",
                    ![s].found = IF selector[s].id \in Registered(reg) THEN selector[s].id ELSE NoId]
  /\ UNCHANGED <<dispatchVars, linkVars, replayVars, close, busVars>>

SelectPublish(s) ==
  LET id == selector[s].found
  IN /\ selector[s].at = "publish"
     /\ selector' = [selector EXCEPT ![s] = [at |-> "done", id |-> NoId, found |-> NoId]]
     /\ Publish("selected", id)
     /\ raced' = IF id \in Ids \ Registered(reg) THEN raced \union {id} ELSE raced
     /\ UNCHANGED <<dispatchVars, linkVars, replayVars, close>>

-----------------------------------------------------------------------------
(***************************************************************************)
(* App.Close, and the bus closed after it.                                 *)
(***************************************************************************)
CloseBegin ==
  /\ close = "open"
  /\ close' = "closing"
  /\ UNCHANGED <<dispatchVars, linkVars, replayVars, selector, busVars>>

CloseCancels ==
  /\ close = "closing"
  /\ close' = "waiting"
  /\ replay' = Cancelled({current})
  /\ UNCHANGED <<dispatchVars, linkVars, current, late, selector, busVars>>

\* connectionWG, replayWG, and dispatchMu once more.
CloseEnd ==
  /\ close = "waiting"
  /\ ~upstream
  /\ \A r \in Replays : replay[r].at \in {"idle", "ended"}
  /\ holder = NoOne
  /\ close' = "closed"
  /\ UNCHANGED <<dispatchVars, linkVars, replayVars, selector, busVars>>

CloseBus ==
  /\ close = "closed"
  /\ close' = "released"
  /\ open' = {}
  /\ waiting' = [s \in Subscribers |-> 0]
  /\ told' = [s \in Subscribers |-> {}]
  /\ UNCHANGED <<dispatchVars, linkVars, replayVars, selector, raced>>

Next ==
  \/ UpstreamFrame \/ RegistryStep \/ AnnounceStep
  \/ InstallOwner \/ EndOwner
  \/ \E r \in Replays : \/ ReplayStart(r) \/ ReplayGivenUp(r) \/ ReplayTakes(r)
                        \/ ReplayFrame(r) \/ ReplayEnd(r)
  \/ \E s \in Selectors : \/ \E id \in Ids : SelectChoose(s, id)
                          \/ SelectGet(s) \/ SelectPublish(s)
  \/ \E s \in Subscribers : Receive(s) \/ Unsubscribe(s)
  \/ CloseBegin \/ CloseCancels \/ CloseEnd \/ CloseBus

Spec == Init /\ [][Next]_vars

-----------------------------------------------------------------------------
(* The type of the variables.                                              *)
AgendaItem == [do : {"begin", "end", "upsert", "remove", "select", "added", "removed", "selected"},
          id : Ids \union {NoId}, target : 0..MaxGeneration]

TypeOK ==
  /\ DOMAIN reg.items \subseteq Ids
  /\ \A i \in DOMAIN reg.items : reg.items[i] \in 0..MaxGeneration
  /\ reg.generation \in 0..MaxGeneration /\ reg.active \in BOOLEAN
  /\ agenda \in Seq(AgendaItem)
  /\ holder \in Replays \union {Upstream, NoOne} /\ (holder = NoOne <=> agenda = <<>>)
  /\ generation \in 0..MaxGeneration /\ frames \in 0..MaxFrames /\ upstream \in BOOLEAN
  /\ replay \in [Replays -> [at : {"idle", "reading", "frame", "ended"},
                              cancelled : BOOLEAN, left : 0..ReplayLength]]
  /\ current \in Replays \union {NoOne}
  /\ selector \in [Selectors -> [at : {"idle", "get", "publish", "done"},
                                  id : Ids \union {NoId}, found : Ids \union {NoId}]]
  /\ close \in {"open", "closing", "waiting", "closed", "released"}
  /\ open \subseteq Subscribers
  /\ waiting \in [Subscribers -> 0..BufferSize]
  /\ told \in [Subscribers -> SUBSET Ids] /\ raced \subseteq Ids

(* However frames, replays, connections and SelectContext interleave, the  *)
(* order lists each registered context once, within the capacity, and as   *)
(* long as there is one, one is selected: the routes of routeContextID     *)
(* (app.go) never lead to a context that is gone.                          *)
RegistryCoherent == Coherent(reg)

(* A subscription that still serves its subscriber has told it of every    *)
(* registered context: an event is never lost in silence, and a removal    *)
(* never overtakes a later registration (service.go, eventBus.publish).    *)
NoContextMissed ==
  agenda = <<>> => \A s \in open : Registered(reg) \subseteq told[s]

(* What a subscriber believes to be there beyond the registry was          *)
(* announced by a SelectContext that a removal overtook, or by a replay    *)
(* that the full registry refused; every other removal reaches it.         *)
ExceedsOnlyByRace ==
  agenda = <<>> => \A s \in open : told[s] \subseteq Registered(reg) \union raced

(* Between two sections no context of a generation that has ended is       *)
(* registered: what is there comes from a replay or from the connection    *)
(* that is installed (app.go, the clean-up of readDebug).                  *)
EndedGenerationsGone ==
  agenda = <<>> =>
    \A i \in Registered(reg) : reg.items[i] = 0 \/ (upstream /\ reg.items[i] = generation)

(* A replay that has been cancelled, by its caller, by a later replay or   *)
(* by Close, submits at most the one frame it had already read.            *)
AtMostOneLate == \A r \in Replays : late[r] <= 1

(* Once App.Close has come to its end nothing is dispatched any more.      *)
NothingAfterClose ==
  [][(close \in {"closed", "released"}) =>
       (agenda' = agenda /\ Registered(reg') = Registered(reg))]_vars

(* "Selected and removed context events retain both the context ID and     *)
(* target name" (src/docs/sdk.md:99-100): what SelectContext announces is  *)
(* the context it selected.                                                *)
SelectedKeepsIdentity ==
  \A s \in Selectors : selector[s].at = "publish" => selector[s].found = selector[s].id
=============================================================================
