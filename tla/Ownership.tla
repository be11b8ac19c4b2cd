------------------------------ MODULE Ownership ------------------------------
(***************************************************************************)
(* The single-owner protocol of one WebSocket endpoint of internal/app:    *)
(* the upstream (mini-program) endpoint and the CDP controller endpoint    *)
(* run the same code with different fields.                                *)
(*                                                                         *)
(* A handler goroutine reserves the endpoint, performs the WebSocket       *)
(* upgrade outside every lock, installs its client as the owner and starts *)
(* the reader goroutine; the reader releases the endpoint in two steps     *)
(* around its cleanup.  Each action is one critical section of connMu.     *)
(* A connection is used once: a reconnecting peer is another element of    *)
(* Conns.  Peers that are refused before reserveOwner (loopback and Origin *)
(* checks) never touch this state.                                         *)
(***************************************************************************)
EXTENDS Naturals, FiniteSets

CONSTANTS Conns,   \* connections that ever reach the endpoint
          NoConn   \* "no owner": a nil *wsClient

ASSUME OwnershipAssumption == NoConn \notin Conns

VARIABLES
    owner,       \* debugOwner / cdpOwner
    claimed,     \* debugClaimed / cdpClaimed
    generation,  \* debugGeneration / cdpGeneration
    connGen,     \* wsClient.generation of each connection, 0 until installed
    phase,       \* where the goroutines serving the connection are
    hub,         \* members of DebugHub / CDPHub
    down,        \* connections whose transport has failed or was closed
    closeStage   \* progress of App.Close

slotVars == <<owner, claimed, generation, connGen, phase, hub, down>>
vars == <<owner, claimed, generation, connGen, phase, hub, down, closeStage>>

Phases == {"idle", "reserved", "installed", "serving", "draining", "gone"}
CloseStages == {"open", "closing", "locked", "clientsClosed", "closed"}

\* a.closing is stored before the first lock App.Close takes.
closing == closeStage # "open"

\* App.Close keeps connMu while CloseAll waits for the writers of the clients.
ConnMuFree == closeStage # "locked"

Init ==
    /\ owner = NoConn
    /\ claimed = FALSE
    /\ generation = 0
    /\ connGen = [c \in Conns |-> 0]
    /\ phase = [c \in Conns |-> "idle"]
    /\ hub = {}
    /\ down = {}
    /\ closeStage = "open"

MoveTo(c, p) == phase' = [phase EXCEPT ![c] = p]

-----------------------------------------------------------------------------
(* The HTTP handler of one connection.                                     *)

Occupied == closing \/ claimed \/ owner # NoConn

\* 503 while closing, 409 when the endpoint is taken.
Reject(c) ==
    /\ ConnMuFree
    /\ phase[c] = "idle" /\ Occupied
    /\ MoveTo(c, "gone")
    /\ UNCHANGED <<owner, claimed, generation, connGen, hub, down, closeStage>>

Reserve(c) ==
    /\ ConnMuFree
    /\ phase[c] = "idle" /\ ~Occupied
    /\ claimed' = TRUE
    /\ MoveTo(c, "reserved")
    /\ UNCHANGED <<owner, generation, connGen, hub, down, closeStage>>

\* The upgrade failed: releaseReservation.
UpgradeFailed(c) ==
    /\ ConnMuFree
    /\ phase[c] = "reserved"
    /\ claimed' = FALSE
    /\ MoveTo(c, "gone")
    /\ UNCHANGED <<owner, generation, connGen, hub, down, closeStage>>

\* Mutant of Install: closing is not looked at again after the upgrade.
InstallWhileClosing(c) ==
    /\ ConnMuFree
    /\ phase[c] = "reserved" /\ owner = NoConn
    /\ claimed' = FALSE
    /\ owner' = c
    /\ generation' = generation + 1
    /\ connGen' = [connGen EXCEPT ![c] = generation + 1]
    /\ hub' = hub \cup {c}
    /\ MoveTo(c, "installed")
    /\ UNCHANGED <<down, closeStage>>

\* installOwner gives the reservation up and refuses; the handler then closes
\* the fresh transport.
InstallRefused(c) ==
    /\ ConnMuFree
    /\ phase[c] = "reserved" /\ (closing \/ owner # NoConn)
    /\ claimed' = FALSE
    /\ MoveTo(c, "gone")
    /\ UNCHANGED <<owner, generation, connGen, hub, down, closeStage>>

\* installOwner makes the client the owner of a new generation.
Install(c) ==
    /\ ConnMuFree
    /\ phase[c] = "reserved" /\ ~closing /\ owner = NoConn
    /\ claimed' = FALSE
    /\ owner' = c
    /\ generation' = generation + 1
    /\ connGen' = [connGen EXCEPT ![c] = generation + 1]
    /\ hub' = hub \cup {c}
    /\ MoveTo(c, "installed")
    /\ UNCHANGED <<down, closeStage>>

\* `go readDebug(client)` / `go readCDP(client)`.
StartReader(c) ==
    /\ phase[c] = "installed"
    /\ MoveTo(c, "serving")
    /\ UNCHANGED <<owner, claimed, generation, connGen, hub, down, closeStage>>

-----------------------------------------------------------------------------
(* Transports fail, and readers clean up after them.                       *)

\* The peer goes away, or the client's writer fails and closes the transport.
TransportFails(c) ==
    /\ phase[c] \in {"installed", "serving"} /\ c \notin down
    /\ down' = down \cup {c}
    /\ UNCHANGED <<owner, claimed, generation, connGen, phase, hub, closeStage>>

\* Hub.Broadcast could not enqueue: the client leaves the hub and is closed.
HubDrop(c) ==
    /\ c \in hub
    /\ hub' = hub \ {c}
    /\ down' = down \cup {c}
    /\ UNCHANGED <<owner, claimed, generation, connGen, phase, closeStage>>

Current(c) == owner = c /\ generation = connGen[c]

\* Mutant of Release: the endpoint is free while the cleanup still runs.
ReleaseUnclaimed(c) ==
    /\ ConnMuFree
    /\ phase[c] = "serving" /\ c \in down
    /\ hub' = hub \ {c}
    /\ owner' = IF Current(c) THEN NoConn ELSE owner
    /\ MoveTo(c, "draining")
    /\ UNCHANGED <<claimed, generation, connGen, down, closeStage>>

\* The reader's deferred cleanup, releaseOwner: the endpoint stays claimed
\* until everything that belonged to the generation is cleaned up.
Release(c) ==
    /\ ConnMuFree
    /\ phase[c] = "serving" /\ c \in down
    /\ hub' = hub \ {c}
    /\ claimed' = IF Current(c) THEN TRUE ELSE claimed
    /\ owner' = IF Current(c) THEN NoConn ELSE owner
    /\ MoveTo(c, "draining")
    /\ UNCHANGED <<generation, connGen, down, closeStage>>

\* finishOwnerRelease; the goroutine then leaves connectionWG.
FinishRelease(c) ==
    /\ ConnMuFree
    /\ phase[c] = "draining"
    /\ claimed' = IF owner = NoConn /\ generation = connGen[c] THEN FALSE ELSE claimed
    /\ MoveTo(c, "gone")
    /\ UNCHANGED <<owner, generation, connGen, hub, down, closeStage>>

-----------------------------------------------------------------------------
(* App.Close.                                                              *)

BeginClose ==
    /\ closeStage = "open"
    /\ closeStage' = "closing"
    /\ UNCHANGED slotVars

\* Mutant of CloseClients: the clients are forgotten but not closed.
ForgetClients ==
    /\ closeStage = "closing"
    /\ closeStage' = "locked"
    /\ hub' = {}
    /\ UNCHANGED <<owner, claimed, generation, connGen, phase, down>>

\* connMu is taken, and CloseAll closes and forgets every member of the hub.
CloseClients ==
    /\ closeStage = "closing"
    /\ closeStage' = "locked"
    /\ down' = down \cup hub
    /\ hub' = {}
    /\ UNCHANGED <<owner, claimed, generation, connGen, phase>>

\* The writers have ended, and connMu is released.  Outbound shows what they wait
\* for: they need not end.
ClientsClosed ==
    /\ closeStage = "locked"
    /\ closeStage' = "clientsClosed"
    /\ UNCHANGED slotVars

\* connectionWG counts from installOwner to the end of the reader.
ConnectionsDone == \A c \in Conns : phase[c] \notin {"installed", "serving", "draining"}

FinishClose ==
    /\ closeStage = "clientsClosed" /\ ConnectionsDone
    /\ closeStage' = "closed"
    /\ UNCHANGED slotVars

-----------------------------------------------------------------------------

Handler(c) == Reject(c) \/ Reserve(c) \/ UpgradeFailed(c) \/ InstallRefused(c)
                \/ Install(c) \/ StartReader(c)
Reader(c) == TransportFails(c) \/ HubDrop(c) \/ Release(c) \/ FinishRelease(c)
Closer == BeginClose \/ CloseClients \/ ClientsClosed \/ FinishClose

Next == (\E c \in Conns : Handler(c) \/ Reader(c)) \/ Closer

\* Once started, a handler returns (the upgrade has a timeout), a reader whose
\* transport is gone gets an error, and App.Close goes on.  Nothing is owed while
\* CloseAll waits, ClientsClosed included: a handler that tells the SDK of its
\* connection may then be held up as well.
Fairness ==
    /\ \A c \in Conns : /\ WF_vars(UpgradeFailed(c) \/ InstallRefused(c) \/ Install(c))
                        /\ WF_vars(ConnMuFree /\ StartReader(c))
                        /\ WF_vars(Release(c))
                        /\ WF_vars(FinishRelease(c))
    /\ WF_vars(CloseClients) /\ WF_vars(FinishClose)

SafetySpec == Init /\ [][Next]_vars
Spec == SafetySpec /\ Fairness

-----------------------------------------------------------------------------
(* Properties.                                                             *)

Holding == {"reserved", "installed", "serving", "draining"}

\* The fields stay in their ranges; no client carries a generation that the
\* endpoint has not reached.
TypeOK ==
    /\ owner \in Conns \cup {NoConn}
    /\ claimed \in BOOLEAN
    /\ generation \in Nat
    /\ connGen \in [Conns -> 0..generation]
    /\ phase \in [Conns -> Phases]
    /\ hub \subseteq Conns
    /\ down \subseteq Conns
    /\ closeStage \in CloseStages

\* From its reservation to the end of its cleanup a connection has the
\* endpoint to itself: no upgrade, ownership or cleanup overlaps another's.
OneHolder ==
    \A c, d \in Conns : phase[c] \in Holding /\ phase[d] \in Holding => c = d

\* A connection whose goroutines run is the owner and has the newest
\* generation, so ownerCurrent and releaseOwner succeed for it: nothing a live
\* reader does is ever dropped as stale.
ReaderIsCurrent ==
    \A c \in Conns : phase[c] \in {"installed", "serving"} => Current(c)

\* After CloseAll no transport is open: a handler still upgrading when
\* App.Close ran cannot slip a client in behind it.
NoClientAfterCloseAll ==
    closeStage \in {"clientsClosed", "closed"} =>
        /\ hub = {}
        /\ \A c \in Conns : phase[c] \in {"installed", "serving"} => c \in down

\* What a connection with a running reader can rely on: it is the current owner
\* as long as the endpoint is open, and its transport is closed afterwards.
LiveConnections == ReaderIsCurrent /\ NoClientAfterCloseAll

\* The abstract endpoint, read off the code's own fields.
Role ==
    IF owner # NoConn THEN "owner"
    ELSE IF ~claimed THEN "free"
    ELSE IF \E c \in Conns : phase[c] = "reserved" THEN "joining"
    ELSE "leaving"

Holder ==
    IF owner # NoConn THEN owner
    ELSE IF claimed THEN CHOOSE c \in Conns : phase[c] \in {"reserved", "draining"}
    ELSE NoConn

Slot == INSTANCE OwnerSlot
          WITH holder <- Holder, role <- Role, epoch <- generation, accepting <- ~closing

\* The fields claimed, owner and generation implement the one-holder endpoint
\* of OwnerSlot: joining, owning and leaving never overlap.
ImplementsSlot == Slot!Spec

\* App.Close returns, unless the writers it waits for in CloseAll hold it for ever
\* (Outbound says when they do): no connection in any phase can, be it upgrading,
\* installed, read or cleaned up when App.Close comes.
CloseCompletes ==
    (closeStage = "closing") ~> (closeStage = "closed" \/ [](closeStage = "locked"))
=============================================================================
