------------------------------ MODULE Service ------------------------------
(***************************************************************************)
(* The lifecycle of an SDK Service: who acquires and who releases the      *)
(* listeners (internal/app), the native session and the recorder when      *)
(* Start, Close, StartRecording and StopRecording are called concurrently, *)
(* contexts are cancelled and steps of the startup fail.                   *)
(*                                                                         *)
(* Each action is what a goroutine does between two points where others    *)
(* can interfere: a critical section of s.mu, or of resourceMu when nothing*)
(* inside it is seen from outside.  What App.Close may wait for, also for  *)
(* ever, is in Outbound; requests are in SdkRequests, health in Health.    *)
(***************************************************************************)
EXTENDS Naturals, FiniteSets

CONSTANTS
    Starters, Closers,   \* calls of Start and of Close
    Life,                \* the goroutine that closes when the lifetime ends
    Tapes,               \* calls of StartRecording, each with its recorder
    Option,              \* the recorder of Options.RecordPath
    Stoppers,            \* calls of StopRecording
    NoTape, Nobody

ASSUME ServiceAssumption ==
    /\ Life \notin Closers
    /\ NoTape \notin Tapes \cup {Option} /\ Option \notin Tapes
    /\ Nobody \notin Tapes \cup Stoppers \cup Closers \cup {Life}
    /\ Tapes \cap (Closers \cup {Life}) = {} /\ Stoppers \cap (Closers \cup {Life}) = {}
    /\ Tapes \cap Stoppers = {}

VARIABLES
    recordPath, hasNative,   \* the options: recording at start, native support
    state,          \* s.state
    stopRequested,  \* s.stopRequested
    cancelled,      \* cancelled contexts: "lifetime" (of Start's caller), "startup"
    start,          \* progress of the one call that starts
    startErr,       \* what that call returns: "none" until known
    starter,        \* each call of Start
    closer,         \* each call of Close, and Life
    shut,           \* the shutdown goroutine a call of Close has started
    listeners,      \* App.Start has opened the listeners
    appClosed,      \* App.Close has run (closeOnce)
    session,        \* the native session is open
    tape,           \* App.Recorder
    open,           \* recorders that are not closed
    recording,      \* s.status.Recording.Active
    taping,         \* each call of StartRecording
    stopper,        \* each call of StopRecording
    old,            \* the recorder such a call has taken out of the app
    resource        \* holder of resourceMu

options == <<recordPath, hasNative>>
startVars == <<start, startErr>>
resVars == <<listeners, appClosed, session>>
tapeVars == <<tape, open, recording>>
recVars == <<taping, old, stopper, resource>>
vars == <<options, state, stopRequested, cancelled, startVars, starter, closer, shut,
          resVars, tapeVars, recVars>>

AllClosers == Closers \cup {Life}

Init ==
    /\ recordPath \in BOOLEAN /\ hasNative \in BOOLEAN
    /\ state = "new" /\ stopRequested = FALSE /\ cancelled = {}
    /\ start = "none" /\ startErr = "none"
    /\ starter = [c \in Starters |-> "idle"]
    /\ closer = [c \in AllClosers |-> "idle"]
    /\ shut = [c \in AllClosers |-> "none"]
    /\ listeners = FALSE /\ appClosed = FALSE /\ session = FALSE
    /\ tape = NoTape /\ open = {} /\ recording = FALSE
    /\ taping = [t \in Tapes |-> "idle"]
    /\ old = [t \in Tapes \cup Stoppers |-> NoTape]
    /\ stopper = [p \in Stoppers |-> "idle"]
    /\ resource = Nobody

-----------------------------------------------------------------------------
(* Start.                                                                  *)

\* The first call starts; calls after a start return at once; calls during a
\* start wait for its result.
CallStart(c) ==
    /\ starter[c] = "idle"
    /\ starter' = [starter EXCEPT ![c] =
            CASE state = "new"      -> "owner"
              [] state = "running"  -> "ok"
              [] state = "starting" -> "waiting"
              [] OTHER              -> "closed"]
    /\ IF state = "new"
       THEN state' = "starting" /\ start' = "listen" /\ stopRequested' = FALSE
       ELSE UNCHANGED <<state, start, stopRequested>>
    /\ UNCHANGED <<options, cancelled, startErr, closer, shut, resVars, tapeVars, recVars>>

\* A waiting call takes the result, or its own context ends.
StartWaited(c) ==
    /\ starter[c] = "waiting"
    /\ \E r \in {"gaveUp"} \cup (IF start = "done" THEN {startErr} ELSE {}) :
         starter' = [starter EXCEPT ![c] = r]
    /\ UNCHANGED <<options, state, stopRequested, cancelled, startVars, closer, shut,
                   resVars, tapeVars, recVars>>

\* The caller of Start cancels the lifetime context.
CancelLifetime ==
    /\ start # "none" /\ "lifetime" \notin cancelled
    /\ cancelled' = cancelled \cup {"lifetime"}
    /\ UNCHANGED <<options, state, stopRequested, startVars, starter, closer, shut,
                   resVars, tapeVars, recVars>>

StartVarsKept == UNCHANGED <<options, state, stopRequested, cancelled, starter, closer, shut, recVars>>

Listen ==
    /\ start = "listen"
    /\ \/ start' = "rollback" /\ UNCHANGED listeners   \* cancelled, or a port is taken
       \/ cancelled = {} /\ start' = "checkRecord" /\ listeners' = TRUE
    /\ UNCHANGED <<startErr, appClosed, session, tapeVars>> /\ StartVarsKept

\* Is the option-backed recording still to be opened?
CheckRecord ==
    /\ start = "checkRecord"
    /\ start' = IF cancelled # {} THEN "rollback"
                ELSE IF recordPath /\ ~recording THEN "record" ELSE "native"
    /\ UNCHANGED <<startErr, resVars, tapeVars>> /\ StartVarsKept

\* SetRecorder, which forgets the recorder that was there.
OpenRecord ==
    /\ start = "record"
    /\ \/ start' = "rollback" /\ UNCHANGED <<tape, open>>
       \/ start' = "markRecord" /\ tape' = Option /\ open' = open \cup {Option}
    /\ UNCHANGED <<startErr, resVars, recording>> /\ StartVarsKept

MarkRecord ==
    /\ start = "markRecord"
    /\ recording' = TRUE /\ start' = "native"
    /\ UNCHANGED <<startErr, resVars, tape, open>> /\ StartVarsKept

\* The native starter succeeds, or it fails and leaves nothing open.
StartNative ==
    /\ start = "native"
    /\ \/ start' = "check" /\ session' = hasNative
       \/ hasNative /\ start' = "rollback" /\ UNCHANGED session
    /\ UNCHANGED <<startErr, listeners, appClosed, tapeVars>> /\ StartVarsKept

\* The last look at the context.
LastCheck ==
    /\ start = "check"
    /\ start' = IF cancelled # {} THEN "rollback" ELSE "replay"
    /\ UNCHANGED <<startErr, resVars, tapeVars>> /\ StartVarsKept

\* The replay of Options.ReplayPath may fail, and a native path without a
\* native starter is an error.
Replay ==
    /\ start = "replay"
    /\ start' \in {"rollback", "decide"}
    /\ UNCHANGED <<startErr, resVars, tapeVars>> /\ StartVarsKept

\* Mutant of AppClose: the recorder is taken but not closed.
AppDropsTape ==
    /\ appClosed' = TRUE
    /\ IF appClosed
       THEN UNCHANGED <<listeners, tape, open>>
       ELSE listeners' = FALSE /\ tape' = NoTape /\ UNCHANGED open

\* App.Close: at its first call everything of the app is released.
AppClose ==
    /\ appClosed' = TRUE
    /\ IF appClosed
       THEN UNCHANGED <<listeners, tape, open>>
       ELSE listeners' = FALSE /\ tape' = NoTape /\ open' = open \ {tape}

\* Mutant of RollbackApp: only the recorder is closed.
RollbackTapeOnly ==
    /\ start = "rollback" /\ resource = Nobody
    /\ tape' = NoTape /\ open' = open \ {tape} /\ recording' = FALSE
    /\ start' = "rollbackNative"
    /\ UNCHANGED <<startErr, listeners, appClosed, session>> /\ StartVarsKept

\* rollbackStart: closeApp, under resourceMu ...
RollbackApp ==
    /\ start = "rollback" /\ resource = Nobody
    /\ AppClose /\ recording' = FALSE
    /\ start' = "rollbackNative"
    /\ UNCHANGED <<startErr, session>> /\ StartVarsKept

\* ... and closeNative.
RollbackNative ==
    /\ start = "rollbackNative"
    /\ session' = FALSE
    /\ start' = "decide" /\ startErr' = "error"
    /\ UNCHANGED <<listeners, appClosed, tapeVars>> /\ StartVarsKept

\* Mutant of Decide: a Close that came during the start is overlooked.
DecideRunning ==
    /\ start = "decide"
    /\ LET err == IF startErr # "none" THEN startErr ELSE "ok"
       IN  /\ startErr' = err
           /\ state' = IF err = "ok" THEN "running" ELSE "failed"
           /\ starter' = [c \in Starters |-> IF starter[c] = "owner" THEN err ELSE starter[c]]
    /\ start' = "done"
    /\ UNCHANGED <<options, stopRequested, cancelled, closer, shut, resVars, tapeVars, recVars>>

\* The end of Start, under s.mu: was a Close requested meanwhile?
Decide ==
    /\ start = "decide"
    /\ LET err == IF startErr # "none" THEN startErr
                  ELSE IF stopRequested THEN "closed" ELSE "ok"
       IN  /\ startErr' = err
           /\ state' = IF stopRequested THEN "stopped"
                       ELSE IF err = "ok" THEN "running" ELSE "failed"
           /\ starter' = [c \in Starters |-> IF starter[c] = "owner" THEN err ELSE starter[c]]
    /\ start' = "done"
    /\ UNCHANGED <<options, stopRequested, cancelled, closer, shut, resVars, tapeVars, recVars>>

-----------------------------------------------------------------------------
(* Close.                                                                  *)

\* The state in which a call of Close goes on to shut down.
MayShut == state \in {"new", "running", "failed"}

\* Life calls Close when the lifetime of a running service has ended.
Calls(c) ==
    /\ closer[c] \in {"idle", "again"}
    /\ c = Life => startErr = "ok" /\ ("lifetime" \in cancelled \/ stopRequested)

CloseKept == UNCHANGED <<options, cancelled, startVars, starter, resVars, tapeVars, recVars>>

\* Mutant of CloseStopped: wait for a shutdown although none was begun.
CloseStoppedWaits(c) ==
    /\ Calls(c) /\ state = "stopped"
    /\ closer' = [closer EXCEPT ![c] = "waiting"]
    /\ UNCHANGED <<state, stopRequested, shut>> /\ CloseKept

CloseStopped(c) ==
    /\ Calls(c) /\ state = "stopped"
    /\ closer' = [closer EXCEPT ![c] = IF \A d \in AllClosers : shut[d] = "none"
                                       THEN "closed" ELSE "waiting"]
    /\ UNCHANGED <<state, stopRequested, shut>> /\ CloseKept

CloseStarting(c) ==
    /\ Calls(c) /\ state = "starting"
    /\ stopRequested' = TRUE
    /\ closer' = [closer EXCEPT ![c] = "cancels"]
    /\ UNCHANGED <<state, shut>> /\ CloseKept

\* The startup context is cancelled outside s.mu.
CancelStartup(c) ==
    /\ closer[c] = "cancels"
    /\ cancelled' = cancelled \cup {"startup"}
    /\ closer' = [closer EXCEPT ![c] = "waitsStart"]
    /\ UNCHANGED <<options, state, stopRequested, startVars, starter, shut, resVars,
                   tapeVars, recVars>>

StartDone(c) ==
    /\ closer[c] = "waitsStart" /\ start = "done"
    /\ closer' = [closer EXCEPT ![c] = "again"]
    /\ UNCHANGED <<state, stopRequested, shut>> /\ CloseKept

CloseStopping(c) ==
    /\ Calls(c) /\ state = "stopping"
    /\ closer' = [closer EXCEPT ![c] = "waiting"]
    /\ UNCHANGED <<state, stopRequested, shut>> /\ CloseKept

CloseBegins(c) ==
    /\ Calls(c) /\ MayShut
    /\ state' = "stopping" /\ stopRequested' = TRUE
    /\ closer' = [closer EXCEPT ![c] = "waiting"]
    /\ shut' = [shut EXCEPT ![c] = "begun"]
    /\ CloseKept

\* The context of a caller ends its wait, not the shutdown.
CloseGivesUp(c) ==
    /\ c # Life /\ closer[c] \in {"waitsStart", "waiting"}
    /\ closer' = [closer EXCEPT ![c] = "gaveUp"]
    /\ UNCHANGED <<state, stopRequested, shut>> /\ CloseKept

CloseReturns(c) ==
    /\ closer[c] = "waiting" /\ \E d \in AllClosers : shut[d] = "done"
    /\ closer' = [closer EXCEPT ![c] = "closed"]
    /\ UNCHANGED <<state, stopRequested, shut>> /\ CloseKept

\* shutdown: from here on it holds resourceMu.
ShutLock(c) ==
    /\ shut[c] = "begun" /\ resource = Nobody
    /\ resource' = c
    /\ shut' = [shut EXCEPT ![c] = "locked"]
    /\ UNCHANGED <<options, state, stopRequested, cancelled, startVars, starter, closer,
                   resVars, tapeVars, taping, old, stopper>>

ShutApp(c) ==
    /\ shut[c] = "locked"
    /\ AppClose
    /\ shut' = [shut EXCEPT ![c] = "appClosed"]
    /\ UNCHANGED <<options, state, stopRequested, cancelled, startVars, starter, closer,
                   session, recording, recVars>>

ShutNative(c) ==
    /\ shut[c] = "appClosed"
    /\ session' = FALSE /\ recording' = FALSE
    /\ shut' = [shut EXCEPT ![c] = "released"]
    /\ UNCHANGED <<options, state, stopRequested, cancelled, startVars, starter, closer,
                   listeners, appClosed, tape, open, recVars>>

ShutDone(c) ==
    /\ shut[c] = "released"
    /\ state' = "stopped"
    /\ resource' = Nobody
    /\ shut' = [shut EXCEPT ![c] = "done"]
    /\ UNCHANGED <<options, stopRequested, cancelled, startVars, starter, closer, resVars,
                   tapeVars, taping, old, stopper>>

-----------------------------------------------------------------------------
(* StartRecording and StopRecording, under resourceMu.                     *)

RecordKept == UNCHANGED <<options, state, stopRequested, cancelled, startVars, starter,
                          closer, shut, resVars>>

RecordBegins(t) ==
    /\ taping[t] = "idle" /\ resource = Nobody
    /\ IF state \in {"stopping", "stopped", "failed"}
       THEN taping' = [taping EXCEPT ![t] = "done"] /\ UNCHANGED resource
       ELSE taping' = [taping EXCEPT ![t] = "checked"] /\ resource' = t
    /\ UNCHANGED <<tapeVars, old, stopper>> /\ RecordKept

\* The file cannot be opened, or the new recorder replaces the present one.
RecordSwaps(t) ==
    /\ taping[t] = "checked"
    /\ \/ /\ taping' = [taping EXCEPT ![t] = "done"] /\ resource' = Nobody
          /\ UNCHANGED <<tape, open, old>>
       \/ /\ taping' = [taping EXCEPT ![t] = "swapped"]
          /\ old' = [old EXCEPT ![t] = tape]
          /\ tape' = t /\ open' = open \cup {t}
          /\ UNCHANGED resource
    /\ UNCHANGED <<recording, stopper>> /\ RecordKept

RecordEnds(t) ==
    /\ taping[t] = "swapped"
    /\ taping' = [taping EXCEPT ![t] = "done"]
    /\ recording' = TRUE /\ resource' = Nobody
    /\ open' = open \ {old[t]}
    /\ old' = [old EXCEPT ![t] = NoTape]
    /\ UNCHANGED <<tape, stopper>> /\ RecordKept

\* TakeRecorder, whatever the state of the service is ...
StopTakes(p) ==
    /\ stopper[p] = "idle" /\ resource = Nobody
    /\ stopper' = [stopper EXCEPT ![p] = "taken"]
    /\ old' = [old EXCEPT ![p] = tape]
    /\ tape' = NoTape /\ resource' = p
    /\ UNCHANGED <<open, recording, taping>> /\ RecordKept

\* ... and close it.
StopEnds(p) ==
    /\ stopper[p] = "taken"
    /\ stopper' = [stopper EXCEPT ![p] = "done"]
    /\ open' = open \ {old[p]} /\ recording' = FALSE
    /\ old' = [old EXCEPT ![p] = NoTape] /\ resource' = Nobody
    /\ UNCHANGED <<tape, taping>> /\ RecordKept

-----------------------------------------------------------------------------

StartStep == Listen \/ CheckRecord \/ OpenRecord \/ MarkRecord \/ StartNative \/ LastCheck
               \/ Replay \/ RollbackApp \/ RollbackNative \/ Decide
CloseStep(c) == CloseStopped(c) \/ CloseStarting(c) \/ CancelStartup(c) \/ StartDone(c)
                  \/ CloseStopping(c) \/ CloseBegins(c) \/ CloseReturns(c)
ShutOthers(c) == ShutLock(c) \/ ShutNative(c) \/ ShutDone(c)
ShutStep(c) == ShutApp(c) \/ ShutOthers(c)
RecordStep(t) == RecordBegins(t) \/ RecordSwaps(t) \/ RecordEnds(t)

Next ==
    \/ \E c \in Starters : CallStart(c) \/ StartWaited(c)
    \/ CancelLifetime \/ StartStep
    \/ \E c \in AllClosers : CloseStep(c) \/ CloseGivesUp(c) \/ ShutStep(c)
    \/ \E t \in Tapes : RecordStep(t)
    \/ \E p \in Stoppers : StopTakes(p) \/ StopEnds(p)

\* Goroutines run, and a call that has been made goes on; nobody has to call.
\* (Weak fairness is enough for resourceMu: each call takes it once.)  App.Close
\* need not end once the service has run: a writer it waits for may wait for
\* s.mu, which a call that gives up keeps while it waits for connMu (Outbound).
\* Nobody keeps s.mu that long before, as calls need a running service.
Fairness ==
    /\ WF_vars(StartStep)
    /\ \A c \in AllClosers :
         /\ WF_vars(closer[c] # "idle" /\ CloseStep(c))
         /\ WF_vars(ShutOthers(c)) /\ WF_vars(startErr # "ok" /\ ShutApp(c))
    /\ WF_vars(CloseStep(Life))
    /\ \A t \in Tapes : WF_vars(taping[t] # "idle" /\ RecordStep(t))
    /\ \A p \in Stoppers : WF_vars(StopEnds(p))

SafetySpec == Init /\ [][Next]_vars
Spec == SafetySpec /\ Fairness

-----------------------------------------------------------------------------
(* Properties.                                                             *)

AllTapes == Tapes \cup {Option}
ShutAll == \E c \in AllClosers : shut[c] = "done"

\* Every field is in its range, and the app never writes to a closed recorder.
TypeOK ==
    /\ recordPath \in BOOLEAN /\ hasNative \in BOOLEAN /\ stopRequested \in BOOLEAN
    /\ state \in {"new", "starting", "running", "failed", "stopping", "stopped"}
    /\ cancelled \subseteq {"lifetime", "startup"}
    /\ start \in {"none", "listen", "checkRecord", "record", "markRecord", "native", "check",
                  "replay", "rollback", "rollbackNative", "decide", "done"}
    /\ startErr \in {"none", "ok", "error", "closed"}
    /\ starter \in [Starters -> {"idle", "owner", "waiting", "ok", "error", "closed", "gaveUp"}]
    /\ closer \in [AllClosers -> {"idle", "cancels", "waitsStart", "again", "waiting",
                                  "gaveUp", "closed"}]
    /\ shut \in [AllClosers -> {"none", "begun", "locked", "appClosed", "released", "done"}]
    /\ listeners \in BOOLEAN /\ appClosed \in BOOLEAN /\ session \in BOOLEAN
    /\ tape \in open \cup {NoTape} /\ open \subseteq AllTapes /\ recording \in BOOLEAN
    /\ taping \in [Tapes -> {"idle", "checked", "swapped", "done"}]
    /\ old \in [Tapes \cup Stoppers -> AllTapes \cup {NoTape}]
    /\ stopper \in [Stoppers -> {"idle", "taken", "done"}]
    /\ resource \in Tapes \cup Stoppers \cup AllClosers \cup {Nobody}

\* A running service has the listeners and the native session it was started
\* for, and a start that failed has given them back.  (The recorder is in
\* TapesAccounted.)
StartIsAllOrNothing ==
    /\ state = "running" => listeners /\ session = hasNative /\ ~appClosed
    /\ state = "failed" => ~listeners /\ ~session

\* However many calls of Close there are, one shutdown runs; it never overlaps
\* with the start, and after it nothing of the service is left.
OneShutdown ==
    /\ \A c, d \in AllClosers : shut[c] # "none" /\ shut[d] # "none" => c = d
    /\ \A c \in AllClosers : shut[c] # "none" => start \in {"none", "done"}
    /\ ShutAll => state = "stopped" /\ ~listeners /\ ~session

\* A Close that was called before the start was over is never ignored: the
\* service does not run after it.
CloseNotOverlooked ==
    \A c \in Closers : closer[c] \in {"waitsStart", "again", "closed"} => state # "running"

\* Without Options.RecordPath no recorder gets lost: an open one is the
\* current one, or the caller that took it out is about to close it.
TapesAccounted ==
    ~recordPath => \A t \in open : t = tape \/ \E u \in Tapes \cup Stoppers : old[u] = t

\* The shutdown of a service that has run is inside App.Close.
HeldUp == startErr = "ok" /\ \E c \in AllClosers : shut[c] = "locked"

\* A call of Close ends without the help of its context, unless App.Close does
\* not return for the writers it waits for.
CloseEnds ==
    \A c \in Closers :
      (closer[c] # "idle") ~> (closer[c] \in {"closed", "gaveUp"} \/ []HeldUp)

\* The end of the lifetime context stops a running service, on the same condition.
LifetimeEnds ==
    (state = "running" /\ "lifetime" \in cancelled) ~> (state = "stopped" \/ []HeldUp)

\* Who asks for the end of the service gets it, unless App.Close is held up.
ShutdownComes == CloseEnds /\ LifetimeEnds

\* The public-go-sdk specification: a cancelled start "rolls back all resources
\* it has acquired", and Close is safe while a start is under way.
CloseReleases ==
    \A c \in Closers : closer[c] = "closed" => ~listeners /\ ~session
=============================================================================
