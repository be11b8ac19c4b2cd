--------------------------- MODULE ServiceProofs ---------------------------
(***************************************************************************)
(* Proofs about Service, for any number of calls of Start, Close,          *)
(* StartRecording and StopRecording: a start acquires all or nothing, one  *)
(* shutdown runs, no Close is overlooked and no recorder is lost.          *)
(***************************************************************************)
EXTENDS Service, TLAPS

-----------------------------------------------------------------------------
(* The inductive invariant.                                                *)

\* The step of the start and the state of the service go together.
StageInv ==
    /\ state = "starting" <=> start \notin {"none", "done"}
    /\ start = "none" => state \in {"new", "stopping", "stopped"}
    /\ state = "new" => start = "none"
    /\ start \notin {"decide", "done"} => startErr = "none"
    /\ start = "done" => startErr # "none"
    /\ start = "decide" => startErr \in {"none", "error"}
    /\ state \in {"new", "running", "failed"} => ~stopRequested
    /\ start \in {"record", "markRecord"} => recordPath

Acquired == listeners /\ session = hasNative /\ ~appClosed
Released == ~listeners /\ ~session

\* What each step of the start has acquired or given back.
AcquireInv ==
    /\ appClosed => ~listeners
    /\ start \in {"none", "listen"} => Released
    /\ state = "new" \/ start = "listen" => ~appClosed
    /\ start \in {"checkRecord", "record", "markRecord", "native"} =>
         listeners /\ ~session /\ ~appClosed
    /\ start \in {"check", "replay"} => Acquired
    /\ start = "rollbackNative" => ~listeners
    /\ start = "decide" => IF startErr = "none" THEN Acquired ELSE Released
    /\ StartIsAllOrNothing

\* Only a service that stops or has stopped has a shutdown, and only one.
ShutInv ==
    /\ \A c \in AllClosers :
         /\ shut[c] # "none" => state \in {"stopping", "stopped"}
         /\ shut[c] = "done" => state = "stopped"
         /\ shut[c] \in {"appClosed", "released", "done"} => ~listeners
         /\ shut[c] \in {"released", "done"} => ~session
    /\ \A c, d \in AllClosers : shut[c] # "none" /\ shut[d] # "none" => c = d

\* A call of Close that met the start is on record, or the service has stopped.
HeardInv ==
    \A c \in AllClosers : closer[c] \in {"cancels", "waitsStart", "again", "closed"} =>
        /\ state \notin {"new", "running"}
        /\ state = "starting" => stopRequested

\* A recorder nobody has installed yet.
Unused(t) == tape # t /\ \A u \in Tapes \cup Stoppers : old[u] # t

\* A call holds a recorder only between taking and closing it, and never the
\* current one; each recorder is installed once.
TapeInv ==
    /\ \A t \in Tapes : taping[t] # "swapped" => old[t] = NoTape
    /\ \A p \in Stoppers : stopper[p] # "taken" => old[p] = NoTape
    /\ \A t \in Tapes : taping[t] \in {"idle", "checked"} => Unused(t)
    /\ start \in {"none", "listen", "checkRecord", "record"} => Unused(Option)
    /\ \A u \in Tapes \cup Stoppers : old[u] # NoTape => old[u] # tape
    /\ TapesAccounted

IInv == TypeOK /\ StageInv /\ AcquireInv /\ ShutInv /\ HeardInv /\ TapeInv

-----------------------------------------------------------------------------

\* The flags of the service.
TypeFlags ==
    /\ recordPath \in BOOLEAN /\ hasNative \in BOOLEAN /\ stopRequested \in BOOLEAN
    /\ listeners \in BOOLEAN /\ appClosed \in BOOLEAN /\ session \in BOOLEAN
    /\ recording \in BOOLEAN

\* The range of every other field.
TypeRest ==
    /\ state \in {"new", "starting", "running", "failed", "stopping", "stopped"}
    /\ cancelled \subseteq {"lifetime", "startup"}
    /\ start \in {"none", "listen", "checkRecord", "record", "markRecord", "native", "check",
                  "replay", "rollback", "rollbackNative", "decide", "done"}
    /\ startErr \in {"none", "ok", "error", "closed"}
    /\ starter \in [Starters -> {"idle", "owner", "waiting", "ok", "error", "closed", "gaveUp"}]
    /\ closer \in [AllClosers -> {"idle", "cancels", "waitsStart", "again", "waiting",
                                  "gaveUp", "closed"}]
    /\ shut \in [AllClosers -> {"none", "begun", "locked", "appClosed", "released", "done"}]
    /\ tape \in open \cup {NoTape} /\ open \subseteq AllTapes
    /\ taping \in [Tapes -> {"idle", "checked", "swapped", "done"}]
    /\ old \in [Tapes \cup Stoppers -> AllTapes \cup {NoTape}]
    /\ stopper \in [Stoppers -> {"idle", "taken", "done"}]
    /\ resource \in Tapes \cup Stoppers \cup AllClosers \cup {Nobody}

\* The type invariant in two parts: flags, which need propositional reasoning, and the rest.
LEMMA TypeParts == TypeOK <=> TypeFlags /\ TypeRest
BY DEF TypeOK, TypeFlags, TypeRest

\* The flags stay Boolean.
LEMMA FlagsStep ==
  ASSUME TypeFlags, [Next]_vars PROVE TypeFlags'
<1> USE DEF StartVarsKept, CloseKept, RecordKept, options, startVars, resVars, tapeVars, recVars,
          TypeFlags
<1>1. ASSUME NEW c \in Starters, CallStart(c) PROVE TypeFlags'
  BY <1>1 DEF CallStart
<1>2. ASSUME NEW c \in Starters, StartWaited(c) PROVE TypeFlags'
  BY <1>2 DEF StartWaited
<1>3. CASE CancelLifetime
  BY <1>3 DEF CancelLifetime
<1>4. CASE Listen
  BY <1>4 DEF Listen
<1>5. CASE CheckRecord
  BY <1>5 DEF CheckRecord
<1>6. CASE OpenRecord
  BY <1>6 DEF OpenRecord
<1>7. CASE MarkRecord
  BY <1>7 DEF MarkRecord
<1>8. CASE StartNative
  BY <1>8 DEF StartNative
<1>9. CASE LastCheck
  BY <1>9 DEF LastCheck
<1>10. CASE Replay
  BY <1>10 DEF Replay
<1>11. CASE RollbackApp
  BY <1>11 DEF RollbackApp, AppClose
<1>12. CASE RollbackNative
  BY <1>12 DEF RollbackNative
<1>13. CASE Decide
  BY <1>13 DEF Decide
<1>14. ASSUME NEW c \in AllClosers, CloseStopped(c) PROVE TypeFlags'
  BY <1>14 DEF CloseStopped, Calls
<1>15. ASSUME NEW c \in AllClosers, CloseStarting(c) PROVE TypeFlags'
  BY <1>15 DEF CloseStarting, Calls
<1>16. ASSUME NEW c \in AllClosers, CancelStartup(c) PROVE TypeFlags'
  BY <1>16 DEF CancelStartup
<1>17. ASSUME NEW c \in AllClosers, StartDone(c) PROVE TypeFlags'
  BY <1>17 DEF StartDone
<1>18. ASSUME NEW c \in AllClosers, CloseStopping(c) PROVE TypeFlags'
  BY <1>18 DEF CloseStopping, Calls
<1>19. ASSUME NEW c \in AllClosers, CloseBegins(c) PROVE TypeFlags'
  BY <1>19 DEF CloseBegins, Calls, MayShut
<1>20. ASSUME NEW c \in AllClosers, CloseReturns(c) PROVE TypeFlags'
  BY <1>20 DEF CloseReturns
<1>21. ASSUME NEW c \in AllClosers, CloseGivesUp(c) PROVE TypeFlags'
  BY <1>21 DEF CloseGivesUp
<1>22. ASSUME NEW c \in AllClosers, ShutLock(c) PROVE TypeFlags'
  BY <1>22 DEF ShutLock
<1>23. ASSUME NEW c \in AllClosers, ShutApp(c) PROVE TypeFlags'
  BY <1>23 DEF ShutApp, AppClose
<1>24. ASSUME NEW c \in AllClosers, ShutNative(c) PROVE TypeFlags'
  BY <1>24 DEF ShutNative
<1>25. ASSUME NEW c \in AllClosers, ShutDone(c) PROVE TypeFlags'
  BY <1>25 DEF ShutDone
<1>26. ASSUME NEW t \in Tapes, RecordBegins(t) PROVE TypeFlags'
  BY <1>26 DEF RecordBegins
<1>27. ASSUME NEW t \in Tapes, RecordSwaps(t) PROVE TypeFlags'
  BY <1>27 DEF RecordSwaps
<1>28. ASSUME NEW t \in Tapes, RecordEnds(t) PROVE TypeFlags'
  BY <1>28 DEF RecordEnds
<1>29. ASSUME NEW p \in Stoppers, StopTakes(p) PROVE TypeFlags'
  BY <1>29 DEF StopTakes
<1>30. ASSUME NEW p \in Stoppers, StopEnds(p) PROVE TypeFlags'
  BY <1>30 DEF StopEnds
<1>31. CASE UNCHANGED vars
  BY <1>31 DEF vars
<1> QED
  BY <1>1, <1>2, <1>3, <1>4, <1>5, <1>6, <1>7, <1>8, <1>9, <1>10, <1>11, <1>12,
     <1>13, <1>14, <1>15, <1>16, <1>17, <1>18, <1>19, <1>20, <1>21, <1>22, <1>23, <1>24,
     <1>25, <1>26, <1>27, <1>28, <1>29, <1>30, <1>31
  DEF Next, StartStep, CloseStep, ShutStep, ShutOthers, RecordStep

\* The other fields stay in range: what a Close or a StopRecording closes
\* is never the recorder the app writes to.
LEMMA TypeStep ==
  ASSUME TypeRest, StageInv, TapeInv, [Next]_vars PROVE TypeRest'
<1> USE ServiceAssumption
      DEF StartVarsKept, CloseKept, RecordKept, options, startVars, resVars, tapeVars, recVars,
          TypeRest, StageInv, TapeInv, Unused, AllTapes
<1>1. ASSUME NEW c \in Starters, CallStart(c) PROVE TypeRest'
  <2>1. starter' \in [Starters -> {"idle", "owner", "waiting", "ok", "error", "closed", "gaveUp"}]
    <3>1. CASE state = "new"
      <4>1. starter' = [starter EXCEPT ![c] = "owner"]
        BY <1>1, <3>1, Zenon DEF CallStart
      <4> QED
        BY <4>1
    <3>2. CASE state # "new"
      <4>1. \E v \in {"ok", "waiting", "closed"} : starter' = [starter EXCEPT ![c] = v]
        BY <1>1, <3>2, Zenon DEF CallStart
      <4> QED
        BY <4>1
    <3> QED
      BY <3>1, <3>2
  <2>2. state' \in {state, "starting"} /\ start' \in {start, "listen"} /\ stopRequested' \in {stopRequested, FALSE}
    BY <1>1 DEF CallStart
  <2>3. UNCHANGED <<options, cancelled, startErr, closer, shut, resVars, tapeVars, recVars>>
    BY <1>1 DEF CallStart
  <2> QED
    BY <2>1, <2>2, <2>3
<1>2. ASSUME NEW c \in Starters, StartWaited(c) PROVE TypeRest'
  <2>1. PICK r \in {"gaveUp"} \cup (IF start = "done" THEN {startErr} ELSE {}) :
          starter' = [starter EXCEPT ![c] = r]
    BY <1>2 DEF StartWaited
  <2>2. r \in {"gaveUp", "ok", "error", "closed"}
    BY <2>1
  <2> QED
    BY <1>2, <2>1, <2>2 DEF StartWaited
<1>3. CASE CancelLifetime
  BY <1>3 DEF CancelLifetime
<1>4. CASE Listen
  BY <1>4 DEF Listen
<1>5. CASE CheckRecord
  BY <1>5 DEF CheckRecord
<1>6. CASE OpenRecord
  BY <1>6 DEF OpenRecord
<1>7. CASE MarkRecord
  BY <1>7 DEF MarkRecord
<1>8. CASE StartNative
  BY <1>8 DEF StartNative
<1>9. CASE LastCheck
  BY <1>9 DEF LastCheck
<1>10. CASE Replay
  BY <1>10 DEF Replay
<1>11. CASE RollbackApp
  BY <1>11 DEF RollbackApp, AppClose
<1>12. CASE RollbackNative
  BY <1>12 DEF RollbackNative
<1>13. CASE Decide
  BY <1>13 DEF Decide
<1>14. ASSUME NEW c \in AllClosers, CloseStopped(c) PROVE TypeRest'
  BY <1>14 DEF CloseStopped, Calls
<1>15. ASSUME NEW c \in AllClosers, CloseStarting(c) PROVE TypeRest'
  BY <1>15 DEF CloseStarting, Calls
<1>16. ASSUME NEW c \in AllClosers, CancelStartup(c) PROVE TypeRest'
  BY <1>16 DEF CancelStartup
<1>17. ASSUME NEW c \in AllClosers, StartDone(c) PROVE TypeRest'
  BY <1>17 DEF StartDone
<1>18. ASSUME NEW c \in AllClosers, CloseStopping(c) PROVE TypeRest'
  BY <1>18 DEF CloseStopping, Calls
<1>19. ASSUME NEW c \in AllClosers, CloseBegins(c) PROVE TypeRest'
  BY <1>19 DEF CloseBegins, Calls, MayShut
<1>20. ASSUME NEW c \in AllClosers, CloseReturns(c) PROVE TypeRest'
  BY <1>20 DEF CloseReturns
<1>21. ASSUME NEW c \in AllClosers, CloseGivesUp(c) PROVE TypeRest'
  BY <1>21 DEF CloseGivesUp
<1>22. ASSUME NEW c \in AllClosers, ShutLock(c) PROVE TypeRest'
  BY <1>22 DEF ShutLock
<1>23. ASSUME NEW c \in AllClosers, ShutApp(c) PROVE TypeRest'
  BY <1>23 DEF ShutApp, AppClose
<1>24. ASSUME NEW c \in AllClosers, ShutNative(c) PROVE TypeRest'
  BY <1>24 DEF ShutNative
<1>25. ASSUME NEW c \in AllClosers, ShutDone(c) PROVE TypeRest'
  BY <1>25 DEF ShutDone
<1>26. ASSUME NEW t \in Tapes, RecordBegins(t) PROVE TypeRest'
  BY <1>26 DEF RecordBegins
<1>27. ASSUME NEW t \in Tapes, RecordSwaps(t) PROVE TypeRest'
  BY <1>27 DEF RecordSwaps
<1>28. ASSUME NEW t \in Tapes, RecordEnds(t) PROVE TypeRest'
  BY <1>28 DEF RecordEnds
<1>29. ASSUME NEW p \in Stoppers, StopTakes(p) PROVE TypeRest'
  BY <1>29 DEF StopTakes
<1>30. ASSUME NEW p \in Stoppers, StopEnds(p) PROVE TypeRest'
  BY <1>30 DEF StopEnds
<1>31. CASE UNCHANGED vars
  BY <1>31 DEF vars
<1> QED
  BY <1>1, <1>2, <1>3, <1>4, <1>5, <1>6, <1>7, <1>8, <1>9, <1>10, <1>11, <1>12,
     <1>13, <1>14, <1>15, <1>16, <1>17, <1>18, <1>19, <1>20, <1>21, <1>22, <1>23, <1>24,
     <1>25, <1>26, <1>27, <1>28, <1>29, <1>30, <1>31
  DEF Next, StartStep, CloseStep, ShutStep, ShutOthers, RecordStep

\* The start and the state of the service stay in step.
LEMMA StageStep ==
  ASSUME TypeOK, StageInv, ShutInv, [Next]_vars PROVE StageInv'
<1> USE DEF StartVarsKept, CloseKept, RecordKept, options, startVars, resVars, tapeVars, recVars,
          TypeOK, StageInv, ShutInv
<1>1. ASSUME NEW c \in Starters, CallStart(c) PROVE StageInv'
  BY <1>1 DEF CallStart
<1>2. ASSUME NEW c \in Starters, StartWaited(c) PROVE StageInv'
  BY <1>2 DEF StartWaited
<1>3. CASE CancelLifetime
  BY <1>3 DEF CancelLifetime
<1>4. CASE Listen
  BY <1>4 DEF Listen
<1>5. CASE CheckRecord
  BY <1>5 DEF CheckRecord
<1>6. CASE OpenRecord
  BY <1>6 DEF OpenRecord
<1>7. CASE MarkRecord
  BY <1>7 DEF MarkRecord
<1>8. CASE StartNative
  BY <1>8 DEF StartNative
<1>9. CASE LastCheck
  BY <1>9 DEF LastCheck
<1>10. CASE Replay
  BY <1>10 DEF Replay
<1>11. CASE RollbackApp
  BY <1>11 DEF RollbackApp, AppClose
<1>12. CASE RollbackNative
  BY <1>12 DEF RollbackNative
<1>13. CASE Decide
  BY <1>13 DEF Decide
<1>14. ASSUME NEW c \in AllClosers, CloseStopped(c) PROVE StageInv'
  BY <1>14 DEF CloseStopped, Calls
<1>15. ASSUME NEW c \in AllClosers, CloseStarting(c) PROVE StageInv'
  BY <1>15 DEF CloseStarting, Calls
<1>16. ASSUME NEW c \in AllClosers, CancelStartup(c) PROVE StageInv'
  BY <1>16 DEF CancelStartup
<1>17. ASSUME NEW c \in AllClosers, StartDone(c) PROVE StageInv'
  BY <1>17 DEF StartDone
<1>18. ASSUME NEW c \in AllClosers, CloseStopping(c) PROVE StageInv'
  BY <1>18 DEF CloseStopping, Calls
<1>19. ASSUME NEW c \in AllClosers, CloseBegins(c) PROVE StageInv'
  BY <1>19 DEF CloseBegins, Calls, MayShut
<1>20. ASSUME NEW c \in AllClosers, CloseReturns(c) PROVE StageInv'
  BY <1>20 DEF CloseReturns
<1>21. ASSUME NEW c \in AllClosers, CloseGivesUp(c) PROVE StageInv'
  BY <1>21 DEF CloseGivesUp
<1>22. ASSUME NEW c \in AllClosers, ShutLock(c) PROVE StageInv'
  BY <1>22 DEF ShutLock
<1>23. ASSUME NEW c \in AllClosers, ShutApp(c) PROVE StageInv'
  BY <1>23 DEF ShutApp, AppClose
<1>24. ASSUME NEW c \in AllClosers, ShutNative(c) PROVE StageInv'
  BY <1>24 DEF ShutNative
<1>25. ASSUME NEW c \in AllClosers, ShutDone(c) PROVE StageInv'
  BY <1>25 DEF ShutDone
<1>26. ASSUME NEW t \in Tapes, RecordBegins(t) PROVE StageInv'
  BY <1>26 DEF RecordBegins
<1>27. ASSUME NEW t \in Tapes, RecordSwaps(t) PROVE StageInv'
  BY <1>27 DEF RecordSwaps
<1>28. ASSUME NEW t \in Tapes, RecordEnds(t) PROVE StageInv'
  BY <1>28 DEF RecordEnds
<1>29. ASSUME NEW p \in Stoppers, StopTakes(p) PROVE StageInv'
  BY <1>29 DEF StopTakes
<1>30. ASSUME NEW p \in Stoppers, StopEnds(p) PROVE StageInv'
  BY <1>30 DEF StopEnds
<1>31. CASE UNCHANGED vars
  BY <1>31 DEF vars
<1> QED
  BY <1>1, <1>2, <1>3, <1>4, <1>5, <1>6, <1>7, <1>8, <1>9, <1>10, <1>11, <1>12,
     <1>13, <1>14, <1>15, <1>16, <1>17, <1>18, <1>19, <1>20, <1>21, <1>22, <1>23, <1>24,
     <1>25, <1>26, <1>27, <1>28, <1>29, <1>30, <1>31
  DEF Next, StartStep, CloseStep, ShutStep, ShutOthers, RecordStep

\* Every step of the start or of a shutdown accounts for what it acquires
\* or releases.
LEMMA AcquireStep ==
  ASSUME TypeOK, StageInv, AcquireInv, ShutInv, [Next]_vars PROVE AcquireInv'
<1> USE DEF StartVarsKept, CloseKept, RecordKept, options, startVars, resVars, tapeVars, recVars,
          TypeOK, StageInv, AcquireInv, ShutInv, Acquired, Released, StartIsAllOrNothing
<1>1. ASSUME NEW c \in Starters, CallStart(c) PROVE AcquireInv'
  BY <1>1 DEF CallStart
<1>2. ASSUME NEW c \in Starters, StartWaited(c) PROVE AcquireInv'
  BY <1>2 DEF StartWaited
<1>3. CASE CancelLifetime
  BY <1>3 DEF CancelLifetime
<1>4. CASE Listen
  BY <1>4 DEF Listen
<1>5. CASE CheckRecord
  BY <1>5 DEF CheckRecord
<1>6. CASE OpenRecord
  BY <1>6 DEF OpenRecord
<1>7. CASE MarkRecord
  BY <1>7 DEF MarkRecord
<1>8. CASE StartNative
  BY <1>8 DEF StartNative
<1>9. CASE LastCheck
  BY <1>9 DEF LastCheck
<1>10. CASE Replay
  BY <1>10 DEF Replay
<1>11. CASE RollbackApp
  BY <1>11 DEF RollbackApp, AppClose
<1>12. CASE RollbackNative
  BY <1>12 DEF RollbackNative
<1>13. CASE Decide
  BY <1>13 DEF Decide
<1>14. ASSUME NEW c \in AllClosers, CloseStopped(c) PROVE AcquireInv'
  BY <1>14 DEF CloseStopped, Calls
<1>15. ASSUME NEW c \in AllClosers, CloseStarting(c) PROVE AcquireInv'
  BY <1>15 DEF CloseStarting, Calls
<1>16. ASSUME NEW c \in AllClosers, CancelStartup(c) PROVE AcquireInv'
  BY <1>16 DEF CancelStartup
<1>17. ASSUME NEW c \in AllClosers, StartDone(c) PROVE AcquireInv'
  BY <1>17 DEF StartDone
<1>18. ASSUME NEW c \in AllClosers, CloseStopping(c) PROVE AcquireInv'
  BY <1>18 DEF CloseStopping, Calls
<1>19. ASSUME NEW c \in AllClosers, CloseBegins(c) PROVE AcquireInv'
  BY <1>19 DEF CloseBegins, Calls, MayShut
<1>20. ASSUME NEW c \in AllClosers, CloseReturns(c) PROVE AcquireInv'
  BY <1>20 DEF CloseReturns
<1>21. ASSUME NEW c \in AllClosers, CloseGivesUp(c) PROVE AcquireInv'
  BY <1>21 DEF CloseGivesUp
<1>22. ASSUME NEW c \in AllClosers, ShutLock(c) PROVE AcquireInv'
  BY <1>22 DEF ShutLock
<1>23. ASSUME NEW c \in AllClosers, ShutApp(c) PROVE AcquireInv'
  BY <1>23 DEF ShutApp, AppClose
<1>24. ASSUME NEW c \in AllClosers, ShutNative(c) PROVE AcquireInv'
  BY <1>24 DEF ShutNative
<1>25. ASSUME NEW c \in AllClosers, ShutDone(c) PROVE AcquireInv'
  BY <1>25 DEF ShutDone
<1>26. ASSUME NEW t \in Tapes, RecordBegins(t) PROVE AcquireInv'
  BY <1>26 DEF RecordBegins
<1>27. ASSUME NEW t \in Tapes, RecordSwaps(t) PROVE AcquireInv'
  BY <1>27 DEF RecordSwaps
<1>28. ASSUME NEW t \in Tapes, RecordEnds(t) PROVE AcquireInv'
  BY <1>28 DEF RecordEnds
<1>29. ASSUME NEW p \in Stoppers, StopTakes(p) PROVE AcquireInv'
  BY <1>29 DEF StopTakes
<1>30. ASSUME NEW p \in Stoppers, StopEnds(p) PROVE AcquireInv'
  BY <1>30 DEF StopEnds
<1>31. CASE UNCHANGED vars
  BY <1>31 DEF vars
<1> QED
  BY <1>1, <1>2, <1>3, <1>4, <1>5, <1>6, <1>7, <1>8, <1>9, <1>10, <1>11, <1>12,
     <1>13, <1>14, <1>15, <1>16, <1>17, <1>18, <1>19, <1>20, <1>21, <1>22, <1>23, <1>24,
     <1>25, <1>26, <1>27, <1>28, <1>29, <1>30, <1>31
  DEF Next, StartStep, CloseStep, ShutStep, ShutOthers, RecordStep

\* No second shutdown begins.
LEMMA ShutdownStep ==
  ASSUME TypeOK, StageInv, AcquireInv, ShutInv, [Next]_vars PROVE ShutInv'
<1> USE DEF StartVarsKept, CloseKept, RecordKept, options, startVars, resVars, tapeVars, recVars,
          TypeOK, StageInv, AcquireInv, Released, Acquired, ShutInv
<1>1. ASSUME NEW c \in Starters, CallStart(c) PROVE ShutInv'
  BY <1>1 DEF CallStart
<1>2. ASSUME NEW c \in Starters, StartWaited(c) PROVE ShutInv'
  BY <1>2 DEF StartWaited
<1>3. CASE CancelLifetime
  BY <1>3 DEF CancelLifetime
<1>4. CASE Listen
  BY <1>4 DEF Listen
<1>5. CASE CheckRecord
  BY <1>5 DEF CheckRecord
<1>6. CASE OpenRecord
  BY <1>6 DEF OpenRecord
<1>7. CASE MarkRecord
  BY <1>7 DEF MarkRecord
<1>8. CASE StartNative
  BY <1>8 DEF StartNative
<1>9. CASE LastCheck
  BY <1>9 DEF LastCheck
<1>10. CASE Replay
  BY <1>10 DEF Replay
<1>11. CASE RollbackApp
  BY <1>11 DEF RollbackApp, AppClose
<1>12. CASE RollbackNative
  BY <1>12 DEF RollbackNative
<1>13. CASE Decide
  BY <1>13 DEF Decide
<1>14. ASSUME NEW c \in AllClosers, CloseStopped(c) PROVE ShutInv'
  BY <1>14 DEF CloseStopped, Calls
<1>15. ASSUME NEW c \in AllClosers, CloseStarting(c) PROVE ShutInv'
  BY <1>15 DEF CloseStarting, Calls
<1>16. ASSUME NEW c \in AllClosers, CancelStartup(c) PROVE ShutInv'
  BY <1>16 DEF CancelStartup
<1>17. ASSUME NEW c \in AllClosers, StartDone(c) PROVE ShutInv'
  BY <1>17 DEF StartDone
<1>18. ASSUME NEW c \in AllClosers, CloseStopping(c) PROVE ShutInv'
  BY <1>18 DEF CloseStopping, Calls
<1>19. ASSUME NEW c \in AllClosers, CloseBegins(c) PROVE ShutInv'
  BY <1>19 DEF CloseBegins, Calls, MayShut
<1>20. ASSUME NEW c \in AllClosers, CloseReturns(c) PROVE ShutInv'
  BY <1>20 DEF CloseReturns
<1>21. ASSUME NEW c \in AllClosers, CloseGivesUp(c) PROVE ShutInv'
  BY <1>21 DEF CloseGivesUp
<1>22. ASSUME NEW c \in AllClosers, ShutLock(c) PROVE ShutInv'
  BY <1>22 DEF ShutLock
<1>23. ASSUME NEW c \in AllClosers, ShutApp(c) PROVE ShutInv'
  BY <1>23 DEF ShutApp, AppClose
<1>24. ASSUME NEW c \in AllClosers, ShutNative(c) PROVE ShutInv'
  BY <1>24 DEF ShutNative
<1>25. ASSUME NEW c \in AllClosers, ShutDone(c) PROVE ShutInv'
  BY <1>25 DEF ShutDone
<1>26. ASSUME NEW t \in Tapes, RecordBegins(t) PROVE ShutInv'
  BY <1>26 DEF RecordBegins
<1>27. ASSUME NEW t \in Tapes, RecordSwaps(t) PROVE ShutInv'
  BY <1>27 DEF RecordSwaps
<1>28. ASSUME NEW t \in Tapes, RecordEnds(t) PROVE ShutInv'
  BY <1>28 DEF RecordEnds
<1>29. ASSUME NEW p \in Stoppers, StopTakes(p) PROVE ShutInv'
  BY <1>29 DEF StopTakes
<1>30. ASSUME NEW p \in Stoppers, StopEnds(p) PROVE ShutInv'
  BY <1>30 DEF StopEnds
<1>31. CASE UNCHANGED vars
  BY <1>31 DEF vars
<1> QED
  BY <1>1, <1>2, <1>3, <1>4, <1>5, <1>6, <1>7, <1>8, <1>9, <1>10, <1>11, <1>12,
     <1>13, <1>14, <1>15, <1>16, <1>17, <1>18, <1>19, <1>20, <1>21, <1>22, <1>23, <1>24,
     <1>25, <1>26, <1>27, <1>28, <1>29, <1>30, <1>31
  DEF Next, StartStep, CloseStep, ShutStep, ShutOthers, RecordStep

\* No step makes a service run that a Close has stopped.
LEMMA HeardStep ==
  ASSUME TypeOK, StageInv, ShutInv, HeardInv, [Next]_vars PROVE HeardInv'
<1> USE DEF StartVarsKept, CloseKept, RecordKept, options, startVars, resVars, tapeVars, recVars,
          TypeOK, StageInv, ShutInv, HeardInv
<1>1. ASSUME NEW c \in Starters, CallStart(c) PROVE HeardInv'
  BY <1>1 DEF CallStart
<1>2. ASSUME NEW c \in Starters, StartWaited(c) PROVE HeardInv'
  BY <1>2 DEF StartWaited
<1>3. CASE CancelLifetime
  BY <1>3 DEF CancelLifetime
<1>4. CASE Listen
  BY <1>4 DEF Listen
<1>5. CASE CheckRecord
  BY <1>5 DEF CheckRecord
<1>6. CASE OpenRecord
  BY <1>6 DEF OpenRecord
<1>7. CASE MarkRecord
  BY <1>7 DEF MarkRecord
<1>8. CASE StartNative
  BY <1>8 DEF StartNative
<1>9. CASE LastCheck
  BY <1>9 DEF LastCheck
<1>10. CASE Replay
  BY <1>10 DEF Replay
<1>11. CASE RollbackApp
  BY <1>11 DEF RollbackApp, AppClose
<1>12. CASE RollbackNative
  BY <1>12 DEF RollbackNative
<1>13. CASE Decide
  BY <1>13 DEF Decide
<1>14. ASSUME NEW c \in AllClosers, CloseStopped(c) PROVE HeardInv'
  BY <1>14 DEF CloseStopped, Calls
<1>15. ASSUME NEW c \in AllClosers, CloseStarting(c) PROVE HeardInv'
  BY <1>15 DEF CloseStarting, Calls
<1>16. ASSUME NEW c \in AllClosers, CancelStartup(c) PROVE HeardInv'
  BY <1>16 DEF CancelStartup
<1>17. ASSUME NEW c \in AllClosers, StartDone(c) PROVE HeardInv'
  BY <1>17 DEF StartDone
<1>18. ASSUME NEW c \in AllClosers, CloseStopping(c) PROVE HeardInv'
  BY <1>18 DEF CloseStopping, Calls
<1>19. ASSUME NEW c \in AllClosers, CloseBegins(c) PROVE HeardInv'
  BY <1>19 DEF CloseBegins, Calls, MayShut
<1>20. ASSUME NEW c \in AllClosers, CloseReturns(c) PROVE HeardInv'
  BY <1>20 DEF CloseReturns
<1>21. ASSUME NEW c \in AllClosers, CloseGivesUp(c) PROVE HeardInv'
  BY <1>21 DEF CloseGivesUp
<1>22. ASSUME NEW c \in AllClosers, ShutLock(c) PROVE HeardInv'
  BY <1>22 DEF ShutLock
<1>23. ASSUME NEW c \in AllClosers, ShutApp(c) PROVE HeardInv'
  BY <1>23 DEF ShutApp, AppClose
<1>24. ASSUME NEW c \in AllClosers, ShutNative(c) PROVE HeardInv'
  BY <1>24 DEF ShutNative
<1>25. ASSUME NEW c \in AllClosers, ShutDone(c) PROVE HeardInv'
  BY <1>25 DEF ShutDone
<1>26. ASSUME NEW t \in Tapes, RecordBegins(t) PROVE HeardInv'
  BY <1>26 DEF RecordBegins
<1>27. ASSUME NEW t \in Tapes, RecordSwaps(t) PROVE HeardInv'
  BY <1>27 DEF RecordSwaps
<1>28. ASSUME NEW t \in Tapes, RecordEnds(t) PROVE HeardInv'
  BY <1>28 DEF RecordEnds
<1>29. ASSUME NEW p \in Stoppers, StopTakes(p) PROVE HeardInv'
  BY <1>29 DEF StopTakes
<1>30. ASSUME NEW p \in Stoppers, StopEnds(p) PROVE HeardInv'
  BY <1>30 DEF StopEnds
<1>31. CASE UNCHANGED vars
  BY <1>31 DEF vars
<1> QED
  BY <1>1, <1>2, <1>3, <1>4, <1>5, <1>6, <1>7, <1>8, <1>9, <1>10, <1>11, <1>12,
     <1>13, <1>14, <1>15, <1>16, <1>17, <1>18, <1>19, <1>20, <1>21, <1>22, <1>23, <1>24,
     <1>25, <1>26, <1>27, <1>28, <1>29, <1>30, <1>31
  DEF Next, StartStep, CloseStep, ShutStep, ShutOthers, RecordStep

\* No step loses a recorder.
LEMMA TapeStep ==
  ASSUME TypeOK, StageInv, TapeInv, [Next]_vars PROVE TapeInv'
<1> USE ServiceAssumption
      DEF StartVarsKept, CloseKept, RecordKept, options, startVars, resVars, tapeVars, recVars,
          TypeOK, StageInv, TapeInv, Unused, TapesAccounted, AllTapes
<1>1. ASSUME NEW c \in Starters, CallStart(c) PROVE TapeInv'
  BY <1>1 DEF CallStart
<1>2. ASSUME NEW c \in Starters, StartWaited(c) PROVE TapeInv'
  BY <1>2 DEF StartWaited
<1>3. CASE CancelLifetime
  BY <1>3 DEF CancelLifetime
<1>4. CASE Listen
  BY <1>4 DEF Listen
<1>5. CASE CheckRecord
  BY <1>5 DEF CheckRecord
<1>6. CASE OpenRecord
  BY <1>6 DEF OpenRecord
<1>7. CASE MarkRecord
  BY <1>7 DEF MarkRecord
<1>8. CASE StartNative
  BY <1>8 DEF StartNative
<1>9. CASE LastCheck
  BY <1>9 DEF LastCheck
<1>10. CASE Replay
  BY <1>10 DEF Replay
<1>11. CASE RollbackApp
  BY <1>11 DEF RollbackApp, AppClose
<1>12. CASE RollbackNative
  BY <1>12 DEF RollbackNative
<1>13. CASE Decide
  BY <1>13 DEF Decide
<1>14. ASSUME NEW c \in AllClosers, CloseStopped(c) PROVE TapeInv'
  BY <1>14 DEF CloseStopped, Calls
<1>15. ASSUME NEW c \in AllClosers, CloseStarting(c) PROVE TapeInv'
  BY <1>15 DEF CloseStarting, Calls
<1>16. ASSUME NEW c \in AllClosers, CancelStartup(c) PROVE TapeInv'
  BY <1>16 DEF CancelStartup
<1>17. ASSUME NEW c \in AllClosers, StartDone(c) PROVE TapeInv'
  BY <1>17 DEF StartDone
<1>18. ASSUME NEW c \in AllClosers, CloseStopping(c) PROVE TapeInv'
  BY <1>18 DEF CloseStopping, Calls
<1>19. ASSUME NEW c \in AllClosers, CloseBegins(c) PROVE TapeInv'
  BY <1>19 DEF CloseBegins, Calls, MayShut
<1>20. ASSUME NEW c \in AllClosers, CloseReturns(c) PROVE TapeInv'
  BY <1>20 DEF CloseReturns
<1>21. ASSUME NEW c \in AllClosers, CloseGivesUp(c) PROVE TapeInv'
  BY <1>21 DEF CloseGivesUp
<1>22. ASSUME NEW c \in AllClosers, ShutLock(c) PROVE TapeInv'
  BY <1>22 DEF ShutLock
<1>23. ASSUME NEW c \in AllClosers, ShutApp(c) PROVE TapeInv'
  BY <1>23 DEF ShutApp, AppClose
<1>24. ASSUME NEW c \in AllClosers, ShutNative(c) PROVE TapeInv'
  BY <1>24 DEF ShutNative
<1>25. ASSUME NEW c \in AllClosers, ShutDone(c) PROVE TapeInv'
  BY <1>25 DEF ShutDone
<1>26. ASSUME NEW t \in Tapes, RecordBegins(t) PROVE TapeInv'
  BY <1>26 DEF RecordBegins
<1>27. ASSUME NEW t \in Tapes, RecordSwaps(t) PROVE TapeInv'
  BY <1>27 DEF RecordSwaps
<1>28. ASSUME NEW t \in Tapes, RecordEnds(t) PROVE TapeInv'
  BY <1>28 DEF RecordEnds
<1>29. ASSUME NEW p \in Stoppers, StopTakes(p) PROVE TapeInv'
  BY <1>29 DEF StopTakes
<1>30. ASSUME NEW p \in Stoppers, StopEnds(p) PROVE TapeInv'
  BY <1>30 DEF StopEnds
<1>31. CASE UNCHANGED vars
  BY <1>31 DEF vars
<1> QED
  BY <1>1, <1>2, <1>3, <1>4, <1>5, <1>6, <1>7, <1>8, <1>9, <1>10, <1>11, <1>12,
     <1>13, <1>14, <1>15, <1>16, <1>17, <1>18, <1>19, <1>20, <1>21, <1>22, <1>23, <1>24,
     <1>25, <1>26, <1>27, <1>28, <1>29, <1>30, <1>31
  DEF Next, StartStep, CloseStep, ShutStep, ShutOthers, RecordStep

\* The invariant holds before anybody has called.
LEMMA InitInv == Init => IInv
<1> SUFFICES ASSUME Init PROVE IInv
  OBVIOUS
<1> USE ServiceAssumption
<1>1. TypeOK
  BY DEF Init, TypeOK, AllTapes
<1>2. StageInv /\ AcquireInv /\ ShutInv /\ HeardInv
  BY DEF Init, StageInv, AcquireInv, ShutInv, HeardInv, Released, StartIsAllOrNothing
<1>3. TapeInv
  BY DEF Init, TapeInv, Unused, TapesAccounted
<1> QED
  BY <1>1, <1>2, <1>3 DEF IInv

\* Every step preserves the invariant.
LEMMA StepInv == IInv /\ [Next]_vars => IInv'
<1> SUFFICES ASSUME IInv, [Next]_vars PROVE IInv'
  OBVIOUS
<1>1. TypeOK /\ TypeFlags /\ TypeRest /\ StageInv /\ AcquireInv /\ ShutInv /\ HeardInv /\ TapeInv
  BY TypeParts DEF IInv
<1>2. TypeFlags' /\ TypeRest'
  BY <1>1, FlagsStep, TypeStep
<1>3. TypeOK'
  BY <1>2 DEF TypeOK, TypeFlags, TypeRest
<1>4. StageInv' /\ AcquireInv' /\ ShutInv' /\ HeardInv' /\ TapeInv'
  BY <1>1, StageStep, AcquireStep, ShutdownStep, HeardStep, TapeStep
<1> QED
  BY <1>3, <1>4 DEF IInv

\* The invariant holds throughout.
LEMMA Invariance == SafetySpec => []IInv
<1> QED
  BY InitInv, StepInv, PTL DEF SafetySpec

\* Every field is in its range, and App.Recorder is never a closed one.
THEOREM TypeCorrect == Spec => []TypeOK
<1>1. IInv => TypeOK
  BY DEF IInv
<1> QED
  BY Invariance, <1>1, PTL DEF Spec

\* Whatever steps of Start fail and whoever calls Close meanwhile, a service
\* that runs holds the listeners and the native session, one that failed neither.
THEOREM StartsAllOrNothing == Spec => []StartIsAllOrNothing
<1>1. IInv => StartIsAllOrNothing
  BY DEF IInv, AcquireInv
<1> QED
  BY Invariance, <1>1, PTL DEF Spec

\* The invariant implies that one shutdown runs.
LEMMA ShutdownAlone == IInv => OneShutdown
<1> SUFFICES ASSUME IInv PROVE OneShutdown
  OBVIOUS
<1>1. ShutInv /\ StageInv /\ TypeOK
  BY DEF IInv
<1>2. \A c \in AllClosers : shut[c] # "none" => start \in {"none", "done"}
  BY <1>1 DEF ShutInv, StageInv
<1>3. ShutAll => state = "stopped" /\ ~listeners /\ ~session
  BY <1>1 DEF ShutAll, ShutInv
<1> QED
  BY <1>1, <1>2, <1>3 DEF OneShutdown, ShutInv

\* However many calls of Close there are, one shutdown runs, never beside a
\* start, and nothing is left after it.
THEOREM ShutsDownOnce == Spec => []OneShutdown
<1> QED
  BY Invariance, ShutdownAlone, PTL DEF Spec

\* A Close that came during Start is heard: the service does not run after it.
THEOREM NoCloseOverlooked == Spec => []CloseNotOverlooked
<1>1. IInv => CloseNotOverlooked
  BY DEF IInv, HeardInv, CloseNotOverlooked, AllClosers
<1> QED
  BY Invariance, <1>1, PTL DEF Spec

\* StartRecording, StopRecording and shutdown never lose an open recorder.
THEOREM NoTapeLost == Spec => []TapesAccounted
<1>1. IInv => TapesAccounted
  BY DEF IInv, TapeInv
<1> QED
  BY Invariance, <1>1, PTL DEF Spec
=============================================================================
