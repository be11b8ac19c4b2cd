------------------------------- MODULE Health -------------------------------
(***************************************************************************)
(* What a Service reports about itself: the health state that observers of *)
(* the upstream, runtime errors, the recovery goroutines and the lifecycle *)
(* write under s.mu.  The upstream endpoint is that of UpstreamLink.       *)
(*                                                                         *)
(* A recovery goroutine does not reconnect anything (the mini program does *)
(* that): it waits with growing delays and gives up after a number of      *)
(* attempts.  Delays are abstracted: a timer fires at any time.            *)
(***************************************************************************)
EXTENDS Naturals, FiniteSets, UpstreamLink

CONSTANTS
    MaxAttempts,   \* Options.RecoveryAttempts
    MaxErrors      \* bound of the model: runtime errors reported

ASSUME HealthAssumption ==
    IsFiniteSet(Ups) /\ MaxAttempts \in Nat \ {0} /\ MaxErrors \in Nat

VARIABLES
    state,          \* s.state
    health,         \* s.health.State
    online, seen,   \* s.upstreamOnline, s.upstreamSeen
    listenerFailed, \* s.listenerFailed
    recovering,     \* s.recoveryActive
    recoveryGen,    \* s.recoveryGeneration
    stopped,        \* generations whose context is cancelled
    tries,          \* recovery goroutines: the attempt each waits for, 0 if none
    attempts,       \* s.health.RecoveryAttempts
    stopRequested,  \* s.stopRequested, while the service starts
    ended,          \* the lifetime context has ended
    errors,         \* runtime errors reported so far
    lostEarly       \* history: a loss was observed while the service started

recoveryVars == <<recovering, recoveryGen, stopped, tries, attempts>>
flags == <<online, seen, listenerFailed>>
lifeVars == <<stopRequested, ended>>
history == <<errors, lostEarly>>
vars == <<state, health, flags, recoveryVars, lifeVars, history, linkVars, appStage>>

\* A connection, a loss or a runtime error starts a new generation.
Gens == 1..(2 * Cardinality(Ups) + MaxErrors)

Init ==
    /\ LinkInit
    /\ state = "starting" /\ health = "starting"
    /\ online = FALSE /\ seen = FALSE /\ listenerFailed = FALSE
    /\ recovering = FALSE /\ recoveryGen = 0 /\ stopped = {}
    /\ tries = [g \in Gens |-> 0]
    /\ attempts = 0 /\ errors = 0 /\ lostEarly = FALSE
    /\ stopRequested = FALSE /\ ended = FALSE

-----------------------------------------------------------------------------
(* The functions of the code that run under s.mu.                          *)

\* Mutant of HealthOf: a failed listener does not matter while the upstream is
\* connected.
HealthIgnoringListener(on, sn, lf) ==
    IF on THEN "ready" ELSE IF lf THEN "failed" ELSE IF sn THEN "reconnecting" ELSE "starting"

\* refreshRunningHealthLocked; listeners and native are ready in a running
\* service.
HealthOf(on, sn, lf) ==
    IF lf THEN "failed" ELSE IF on THEN "ready" ELSE IF sn THEN "reconnecting" ELSE "starting"

\* stopUpstreamRecoveryLocked.
StopRecovery ==
    /\ recovering' = FALSE
    /\ stopped' = IF recovering THEN stopped \cup {recoveryGen} ELSE stopped
    /\ recoveryGen' = recoveryGen + 1
    /\ UNCHANGED <<tries, attempts>>

\* startUpstreamRecoveryLocked; with one attempt the goroutine does not wait.
StartRecovery ==
    IF recovering THEN UNCHANGED recoveryVars
    ELSE /\ attempts' = attempts + 1
         /\ recoveryGen' = recoveryGen + 1 /\ recovering' = TRUE
         /\ tries' = [tries EXCEPT ![recoveryGen + 1] = IF MaxAttempts = 1 THEN 1 ELSE 2]
         /\ UNCHANGED stopped

-----------------------------------------------------------------------------
(* Observers.                                                              *)

Refreshed ==
    IF state = "running" THEN health' = HealthOf(online', seen', listenerFailed)
                         ELSE UNCHANGED health

ObserveConnected(u) ==
    /\ LinkConnected(u)
    /\ online' = TRUE /\ seen' = TRUE
    /\ StopRecovery /\ Refreshed
    /\ UNCHANGED <<state, listenerFailed, lifeVars, history>>

\* A loss; `online` is what was counted before s.mu was taken.
ObserveLost(u) ==
    /\ LinkObserved(u)
    /\ online' = counted[u]
    /\ seen' = (seen \/ counted[u])
    /\ IF counted[u] THEN StopRecovery
       ELSE IF state = "running" /\ seen THEN StartRecovery
       ELSE UNCHANGED recoveryVars
    /\ lostEarly' = (lostEarly \/ state = "starting")
    /\ Refreshed
    /\ UNCHANGED <<state, listenerFailed, lifeVars, errors>>

\* Steps of the endpoint nobody is told about.
LinkStep(u) ==
    /\ LinkInstall(u) \/ LinkDrop(u) \/ LinkLose(u) \/ LinkCount(u)
    /\ UNCHANGED <<state, health, flags, recoveryVars, lifeVars, history>>

\* observeRuntimeError for a listener ...
ListenerFails ==
    /\ state \notin {"stopping", "stopped"} /\ errors < MaxErrors
    /\ errors' = errors + 1
    /\ listenerFailed' = TRUE
    /\ StopRecovery
    /\ health' = "failed"
    /\ UNCHANGED <<state, online, seen, lifeVars, lostEarly, linkVars, appStage>>

\* ... and for another component.
ComponentFails ==
    /\ state \notin {"stopping", "stopped"} /\ errors < MaxErrors
    /\ errors' = errors + 1
    /\ health' = IF state = "running" THEN "degraded" ELSE health
    /\ UNCHANGED <<state, flags, recoveryVars, lifeVars, lostEarly, linkVars, appStage>>

-----------------------------------------------------------------------------
(* The recovery goroutine of generation g.                                 *)

RecoveryKept == UNCHANGED <<state, flags, recoveryGen, stopped, lifeVars, history, linkVars,
                            appStage>>

\* Its context is cancelled: by stopUpstreamRecoveryLocked, or with s.ctx.
RecoveryEnds(g) ==
    /\ tries[g] > 1 /\ (g \in stopped \/ ended \/ state # "running")
    /\ tries' = [tries EXCEPT ![g] = 0]
    /\ UNCHANGED <<health, recovering, attempts>> /\ RecoveryKept

\* Mutant of MayAttempt: the upstream may have come back meanwhile.
MayAttemptBlind(g) == state = "running"

MayAttempt(g) == g = recoveryGen /\ state = "running" /\ ~online

Exhausted(g) == tries[g] = MaxAttempts

\* Mutant of Outcome: the last attempt is reported like the others.
OutcomeNeverFailed(exhausted) == "reconnecting"

Outcome(exhausted) == IF exhausted THEN "failed" ELSE "reconnecting"

\* The timer fires: finishUpstreamRecoveryAttempt.
Attempt(g) ==
    /\ tries[g] > 0
    /\ LET exhausted == Exhausted(g)
       IN  IF ~MayAttempt(g)
           THEN /\ tries' = [tries EXCEPT ![g] = 0]
                /\ UNCHANGED <<health, recovering, attempts>>
           ELSE /\ tries' = [tries EXCEPT ![g] = IF exhausted THEN 0 ELSE @ + 1]
                /\ recovering' = ~exhausted
                /\ attempts' = IF attempts < MaxAttempts THEN attempts + 1 ELSE attempts
                /\ health' = Outcome(exhausted)
    /\ RecoveryKept

-----------------------------------------------------------------------------
(* The lifecycle.                                                          *)

LifeKept == UNCHANGED <<flags, recoveryVars, history>>

\* rollbackStart closes the app while the service is still starting.
RollBack ==
    /\ state = "starting"
    /\ LinkCloses \/ LinkClosed
    /\ UNCHANGED <<state, health, lifeVars>> /\ LifeKept

\* The start succeeds, has failed and is rolled back, or a Close was requested
\* (which may have come too late for a rollback).
StartEnds ==
    /\ state = "starting"
    /\ \/ /\ stopRequested /\ appStage \in {"open", "closed"}
          /\ state' = "stopped" /\ health' = "stopped"
       \/ /\ ~stopRequested /\ appStage = "closed"
          /\ state' = "failed" /\ health' = "failed"
       \/ /\ ~stopRequested /\ appStage = "open"
          /\ state' = "running" /\ health' = HealthOf(online, seen, listenerFailed)
    /\ UNCHANGED <<lifeVars, linkVars, appStage>> /\ LifeKept

LifetimeEnds ==
    /\ state = "running" /\ ~ended
    /\ ended' = TRUE
    /\ UNCHANGED <<state, health, stopRequested, linkVars, appStage>> /\ LifeKept

CloseStarting ==
    /\ state = "starting" /\ ~stopRequested
    /\ stopRequested' = TRUE /\ health' = "stopping"
    /\ UNCHANGED <<state, ended, linkVars, appStage>> /\ LifeKept

BeginClose ==
    /\ state \in {"running", "failed"}
    /\ state' = "stopping" /\ health' = "stopping"
    /\ UNCHANGED <<lifeVars, linkVars, appStage>> /\ LifeKept

\* shutdown waits for the recovery goroutines before it closes the app.
CloseApp ==
    /\ state = "stopping" /\ \A g \in Gens : tries[g] = 0
    /\ LinkCloses \/ LinkClosed
    /\ UNCHANGED <<state, health, lifeVars>> /\ LifeKept

EndClose ==
    /\ state = "stopping" /\ appStage = "closed"
    /\ state' = "stopped" /\ health' = "stopped"
    /\ UNCHANGED <<lifeVars, linkVars, appStage>> /\ LifeKept

-----------------------------------------------------------------------------

Next ==
    \/ \E u \in Ups : ObserveConnected(u) \/ ObserveLost(u) \/ LinkStep(u)
    \/ ListenerFails \/ ComponentFails
    \/ \E g \in Gens : RecoveryEnds(g) \/ Attempt(g)
    \/ RollBack \/ StartEnds \/ LifetimeEnds \/ CloseStarting \/ BeginClose \/ CloseApp
    \/ EndClose

\* A recovery goes on when its timer fires or its context is cancelled, and a
\* service whose lifetime has ended begins to close.  How far the close gets does
\* not matter here.
Fairness ==
    /\ \A g \in Gens : WF_vars(Attempt(g) \/ RecoveryEnds(g))
    /\ WF_vars(ended /\ BeginClose)

SafetySpec == Init /\ [][Next]_vars
Spec == SafetySpec /\ Fairness

-----------------------------------------------------------------------------
(* Properties.                                                             *)

\* Every field is in its range; the generations of the model suffice.
TypeOK ==
    /\ LinkTypeOK
    /\ state \in {"starting", "running", "failed", "stopping", "stopped"}
    /\ health \in {"starting", "ready", "degraded", "reconnecting", "failed", "stopping",
                   "stopped"}
    /\ online \in BOOLEAN /\ seen \in BOOLEAN /\ listenerFailed \in BOOLEAN
    /\ recovering \in BOOLEAN /\ stopRequested \in BOOLEAN /\ ended \in BOOLEAN
    /\ recoveryGen \in Gens \cup {0} /\ stopped \subseteq Gens
    /\ tries \in [Gens -> 0..MaxAttempts]
    /\ attempts \in Nat /\ errors \in 0..MaxErrors /\ lostEarly \in BOOLEAN

\* "Ready" is only reported by a running service with working listeners, while
\* the upstream counts as connected; and if it counts as connected, it is, or
\* its loss is still to be observed, or the next connection had been there when
\* some loss was counted.
ReadyIsBacked ==
    health = "ready" =>
        /\ state = "running" /\ ~listenerFailed /\ online
        /\ \E u \in Ups : link[u] \in {"serving", "lost", "counted"} \/ counted[u]

\* A service that reports "reconnecting" has no upstream and a recovery that
\* will report its failure; the losses that were observed before it ran are the
\* exception.
ReconnectingIsTried ==
    health = "reconnecting" => ~online /\ (recovering \/ lostEarly \/ ended)

\* Reconnecting ends: in success, in failure or because something else fails.
RecoveryGivesUp == (health = "reconnecting" /\ ~lostEarly) ~> (health # "reconnecting")
=============================================================================
