---------------------------- MODULE UpstreamLink ----------------------------
(***************************************************************************)
(* The upstream endpoint as the SDK's observers see it: what Ownership     *)
(* proves of it is that one connection at a time is there, the next one    *)
(* not before the previous one has been released.  What observeConnection  *)
(* does about a loss comes after the release and may overlap with the next *)
(* connection.                                                             *)
(*                                                                         *)
(* The modules that extend this one say what else happens in each step.    *)
(***************************************************************************)
CONSTANTS Ups,      \* connections to the upstream endpoint
          NoConn

ASSUME LinkAssumption == NoConn \notin Ups

VARIABLES
    link,       \* where the goroutines of each connection are
    counted,    \* the local `online` of observeConnection
    hub,        \* the member of DebugHub
    appStage    \* progress of App.Close

linkVars == <<link, counted, hub>>

AppStages == {"open", "closing", "locked", "waiting", "closed"}

Links == {"idle", "installed", "serving", "lost", "counted", "gone"}

LinkInit ==
    /\ link = [u \in Ups |-> "idle"]
    /\ counted = [u \in Ups |-> FALSE]
    /\ hub = NoConn
    /\ appStage = "open"

LinkTypeOK ==
    /\ link \in [Ups -> Links] /\ counted \in [Ups -> BOOLEAN]
    /\ hub \in Ups \cup {NoConn}
    /\ appStage \in AppStages

\* Connections differ by their order only: the next one is any that has not come.
NextUp == CHOOSE u \in Ups : link[u] = "idle"

LinkInstall(u) ==
    /\ link[u] = "idle" /\ u = NextUp /\ appStage = "open"
    /\ \A v \in Ups : link[v] \notin {"installed", "serving"}
    /\ link' = [link EXCEPT ![u] = "installed"]
    /\ hub' = u
    /\ UNCHANGED <<counted, appStage>>

\* The handler of the connection tells the observers, then starts the reader.
LinkConnected(u) ==
    /\ link[u] = "installed"
    /\ link' = [link EXCEPT ![u] = "serving"]
    /\ UNCHANGED <<counted, hub, appStage>>

\* Broadcast drops an owner whose queue is full.
LinkDrop(u) ==
    /\ hub = u
    /\ hub' = NoConn
    /\ UNCHANGED <<link, counted, appStage>>

\* readDebug's cleanup, which needs connMu.
LinkLose(u) ==
    /\ link[u] = "serving" /\ appStage # "locked"
    /\ link' = [link EXCEPT ![u] = "lost"]
    /\ hub' = IF hub = u THEN NoConn ELSE hub
    /\ UNCHANGED <<counted, appStage>>

\* observeConnection counts the clients before it takes s.mu ...
LinkCount(u) ==
    /\ link[u] = "lost"
    /\ link' = [link EXCEPT ![u] = "counted"]
    /\ counted' = [counted EXCEPT ![u] = hub # NoConn]
    /\ UNCHANGED <<hub, appStage>>

\* ... and acts on the number afterwards.
LinkObserved(u) ==
    /\ link[u] = "counted"
    /\ link' = [link EXCEPT ![u] = "gone"]
    /\ UNCHANGED <<counted, hub, appStage>>

\* App.Close stores closing before it takes the first lock ...
LinkBeginsClose ==
    /\ appStage = "open"
    /\ appStage' = "closing"
    /\ UNCHANGED linkVars

\* ... takes connMu and closes the clients ...
LinkLocks ==
    /\ appStage = "closing"
    /\ appStage' = "locked"
    /\ hub' = NoConn
    /\ UNCHANGED <<link, counted>>

\* ... keeps connMu until their writers have ended ...
LinkUnlocks ==
    /\ appStage = "locked"
    /\ appStage' = "waiting"
    /\ UNCHANGED linkVars

\* ... and waits for every reader and its observer.
LinkClosed ==
    /\ appStage = "waiting"
    /\ \A u \in Ups : link[u] \in {"idle", "gone"}
    /\ appStage' = "closed"
    /\ UNCHANGED linkVars

LinkCloses == LinkBeginsClose \/ LinkLocks \/ LinkUnlocks
=============================================================================
