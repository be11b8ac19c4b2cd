---------------------------- MODULE HealthProofs ----------------------------
(***************************************************************************)
(* What holds of the health a Service reports, for any number of           *)
(* connections, attempts and runtime errors.  The argument: a generation   *)
(* that has been stopped is older than the present one, so there is one    *)
(* recovery at a time, and the one that is recorded as active is there and *)
(* goes on until it reports its failure or the connection is back.         *)
(***************************************************************************)
EXTENDS Health, FiniteSetTheorems, TLAPS

-----------------------------------------------------------------------------
(* Generations.                                                            *)

\* Connections that have been observed, and losses.
Heard == {u \in Ups : link[u] \notin {"idle", "installed"}}
Gone == {u \in Ups : link[u] = "gone"}

\* Each observation and each error starts one generation at most, so the ones
\* of the model suffice.
GenInv == recoveryGen <= Cardinality(Heard) + Cardinality(Gone) + errors

\* One recovery at a time: a goroutine that has not been stopped is that of the
\* present generation, and no goroutine is stopped before it exists.
RecoveryInv ==
    /\ \A g \in stopped : g < recoveryGen
    /\ recovering => recoveryGen # 0 /\ ~online /\ state # "starting"
    /\ \A g \in Gens : tries[g] > 0 /\ g \notin stopped => recovering /\ g = recoveryGen
    /\ recovering /\ state = "running" /\ ~ended => tries[recoveryGen] > 0

\* Where the upstream may be while it counts as connected.
BackedInv ==
    online => \E u \in Ups : link[u] \in {"serving", "lost", "counted"} \/ counted[u]

\* What the health says by the state of the service.
HealthInv ==
    /\ health = "ready" => state = "running" /\ ~listenerFailed /\ online
    /\ health = "reconnecting" => state = "running" /\ ~online /\ (recovering \/ lostEarly)
    /\ state = "starting" /\ seen /\ ~online => lostEarly
    /\ health = "ready" => ~recovering

IInv == TypeOK /\ GenInv /\ RecoveryInv /\ BackedInv /\ HealthInv

\* A service that reports "reconnecting" has a goroutine that goes on: that of
\* the present generation, which nobody has stopped.
ReconnectingIsLive ==
    health = "reconnecting" /\ ~lostEarly /\ ~ended =>
        recoveryGen \in Gens /\ tries[recoveryGen] > 0 /\ recoveryGen \notin stopped

\* Sets of connections can be counted.
LEMMA UpsCounted ==
  ASSUME NEW S \in SUBSET Ups
  PROVE  /\ IsFiniteSet(S) /\ Cardinality(S) \in Nat
         /\ Cardinality(Ups) \in Nat /\ Cardinality(S) <= Cardinality(Ups)
  BY FS_Subset, FS_CardinalityType, HealthAssumption

\* ... and so can those that were heard of and those that are gone.
LEMMA GensFinite ==
  /\ IsFiniteSet(Heard) /\ IsFiniteSet(Gone)
  /\ Cardinality(Heard) \in Nat /\ Cardinality(Gone) \in Nat
  /\ Cardinality(Heard) <= Cardinality(Ups) /\ Cardinality(Gone) <= Cardinality(Ups)
  /\ Cardinality(Ups) \in Nat
  BY UpsCounted DEF Heard, Gone

\* The numbers of generations that the model has.
LEMMA GensBound ==
  ASSUME GenInv, errors \in 0..MaxErrors, recoveryGen \in Nat
  PROVE  recoveryGen \in Gens \cup {0}
  BY GensFinite, HealthAssumption DEF GenInv, Gens

\* A step that hears of no connection.
LEMMA SameCounts ==
  ASSUME GenInv, link' = link, errors' = errors, recoveryGen' = recoveryGen
  PROVE  GenInv'
  BY DEF GenInv, Heard, Gone

\* The observation of a connection.
LEMMA HeardGrows ==
  ASSUME TypeOK, NEW u \in Ups, LinkConnected(u)
  PROVE  /\ Cardinality(Heard') = Cardinality(Heard) + 1 /\ Gone' = Gone
<1>1. Heard' = Heard \cup {u} /\ u \notin Heard /\ Gone' = Gone
  BY DEF LinkConnected, Heard, Gone, TypeOK, LinkTypeOK
<1>2. QED
  BY <1>1, GensFinite, FS_AddElement

\* The observation of a loss.
LEMMA GoneGrows ==
  ASSUME TypeOK, NEW u \in Ups, LinkObserved(u)
  PROVE  /\ Cardinality(Gone') = Cardinality(Gone) + 1 /\ Heard' = Heard
<1>1. Gone' = Gone \cup {u} /\ u \notin Gone /\ Heard' = Heard
  BY DEF LinkObserved, Heard, Gone, TypeOK, LinkTypeOK
<1>2. QED
  BY <1>1, GensFinite, FS_AddElement

\* The steps nobody hears of.
LEMMA LinkStepCounts ==
  ASSUME TypeOK, NEW u \in Ups, LinkInstall(u) \/ LinkDrop(u) \/ LinkLose(u) \/ LinkCount(u)
  PROVE  Heard' = Heard /\ Gone' = Gone
  BY DEF LinkInstall, LinkDrop, LinkLose, LinkCount, Heard, Gone, TypeOK, LinkTypeOK

\* App.Close forgets the member of the hub and touches no goroutine of a connection.
LEMMA LinkEnds ==
  ASSUME LinkCloses \/ LinkClosed
  PROVE  /\ UNCHANGED <<link, counted>> /\ (hub' = hub \/ hub' = NoConn)
         /\ appStage' \in AppStages
  BY DEF LinkCloses, LinkBeginsClose, LinkLocks, LinkUnlocks, LinkClosed, linkVars, AppStages

\* Every step starts as many generations as it hears of connections and errors.
LEMMA GenNext == TypeOK /\ GenInv /\ [Next]_vars => GenInv'
<1> SUFFICES ASSUME TypeOK, GenInv, [Next]_vars PROVE GenInv'
  OBVIOUS
<1>0. recoveryGen \in Nat /\ errors \in Nat
  BY DEF TypeOK, Gens
<1>1. ASSUME NEW u \in Ups, ObserveConnected(u) PROVE GenInv'
  BY <1>0, <1>1, HeardGrows, GensFinite DEF ObserveConnected, StopRecovery, GenInv, history
<1>2. ASSUME NEW u \in Ups, ObserveLost(u) PROVE GenInv'
  <2>1. recoveryGen' \in {recoveryGen, recoveryGen + 1} /\ errors' = errors
    BY <1>2 DEF ObserveLost, StopRecovery, StartRecovery, recoveryVars
  <2>2. QED
    BY <1>0, <1>2, <2>1, GoneGrows, GensFinite DEF ObserveLost, GenInv
<1>3. ASSUME NEW u \in Ups, LinkStep(u) PROVE GenInv'
  BY <1>3, LinkStepCounts DEF LinkStep, GenInv, recoveryVars, history
<1>4. CASE ListenerFails
  BY <1>0, <1>4, GensFinite DEF ListenerFails, StopRecovery, GenInv, Heard, Gone, linkVars
<1>5. CASE ComponentFails
  BY <1>0, <1>5, GensFinite DEF ComponentFails, GenInv, Heard, Gone, linkVars, recoveryVars
<1>6. ASSUME NEW g \in Gens, RecoveryEnds(g) \/ Attempt(g) PROVE GenInv'
  BY <1>6, SameCounts DEF RecoveryEnds, Attempt, RecoveryKept, linkVars, history
<1>7. CASE \/ RollBack \/ StartEnds \/ LifetimeEnds \/ CloseStarting \/ BeginClose \/ CloseApp
           \/ EndClose
  BY <1>7, SameCounts, LinkEnds DEF RollBack, StartEnds, LifetimeEnds, CloseStarting, BeginClose,
     CloseApp, EndClose, LifeKept, history, recoveryVars, linkVars
<1>8. CASE UNCHANGED vars
  BY <1>8, SameCounts DEF vars, linkVars, history, recoveryVars
<1>9. QED
  BY <1>1, <1>2, <1>3, <1>4, <1>5, <1>6, <1>7, <1>8 DEF Next

\* Every step keeps the types; that the generations of the model suffice is
\* GensBound.
LEMMA TypeNext == TypeOK /\ GenInv /\ RecoveryInv /\ GenInv' /\ [Next]_vars => TypeOK'
<1> SUFFICES ASSUME TypeOK, GenInv, RecoveryInv, GenInv', [Next]_vars PROVE TypeOK'
  OBVIOUS
<1>0. recoveryGen \in Nat /\ Gens' = Gens
  BY DEF TypeOK, Gens
<1> DEFINE LifeOK ==
             /\ state \in {"starting", "running", "failed", "stopping", "stopped"}
             /\ health \in {"starting", "ready", "degraded", "reconnecting", "failed", "stopping",
                            "stopped"}
             /\ online \in BOOLEAN /\ seen \in BOOLEAN /\ listenerFailed \in BOOLEAN
             /\ stopRequested \in BOOLEAN /\ ended \in BOOLEAN
             /\ errors \in 0..MaxErrors /\ lostEarly \in BOOLEAN
           RecoveryOK ==
             /\ recovering \in BOOLEAN /\ recoveryGen \in Nat /\ stopped \subseteq Gens
             /\ tries \in [Gens -> 0..MaxAttempts] /\ attempts \in Nat
<1>1. LifeOK /\ RecoveryOK /\ LinkTypeOK
  BY <1>0 DEF TypeOK
<1>2. LifeOK'
  <2> USE <1>1 DEF LifeOK
  <2>1. ASSUME NEW u \in Ups, ObserveConnected(u) \/ ObserveLost(u) PROVE LifeOK'
    BY <2>1 DEF ObserveConnected, ObserveLost, Refreshed, HealthOf, lifeVars, history, LinkTypeOK
  <2>2. ASSUME NEW u \in Ups, LinkStep(u) PROVE LifeOK'
    BY <2>2 DEF LinkStep, flags, lifeVars, history
  <2>3. CASE ListenerFails \/ ComponentFails
    <3>1. errors' \in 0..MaxErrors
      BY <2>3, HealthAssumption DEF ListenerFails, ComponentFails
    <3>2. QED
      BY <2>3, <3>1 DEF ListenerFails, ComponentFails, flags, lifeVars
  <2>4. ASSUME NEW g \in Gens, RecoveryEnds(g) \/ Attempt(g) PROVE LifeOK'
    <3>1. health' \in {health, "failed", "reconnecting"}
      BY <2>4 DEF RecoveryEnds, Attempt, Outcome
    <3>2. UNCHANGED <<state, flags, lifeVars, history>>
      BY <2>4 DEF RecoveryEnds, Attempt, RecoveryKept
    <3>3. QED
      BY <3>1, <3>2 DEF flags, lifeVars, history
  <2>5. CASE \/ RollBack \/ StartEnds \/ LifetimeEnds \/ CloseStarting \/ BeginClose \/ CloseApp
             \/ EndClose
    <3>1. UNCHANGED <<flags, history>>
      BY <2>5 DEF RollBack, StartEnds, LifetimeEnds, CloseStarting, BeginClose, CloseApp,
         EndClose, LifeKept
    <3>2. /\ state' \in {state, "running", "failed", "stopping", "stopped"}
          /\ health' \in {health, HealthOf(online, seen, listenerFailed), "failed", "stopping",
                         "stopped"}
      BY <2>5 DEF RollBack, StartEnds, LifetimeEnds, CloseStarting, BeginClose, CloseApp,
         EndClose
    <3>3. stopRequested' \in BOOLEAN /\ ended' \in BOOLEAN
      BY <2>5 DEF RollBack, StartEnds, LifetimeEnds, CloseStarting, BeginClose, CloseApp,
         EndClose, lifeVars
    <3>4. HealthOf(online, seen, listenerFailed) \in {"failed", "ready", "reconnecting", "starting"}
      BY DEF HealthOf
    <3>5. QED
      BY <3>1, <3>2, <3>3, <3>4 DEF flags, history
  <2>6. CASE UNCHANGED vars
    BY <2>6 DEF vars, flags, lifeVars, history
  <2> HIDE DEF LifeOK
  <2>7. QED
    BY <2>1, <2>2, <2>3, <2>4, <2>5, <2>6 DEF Next
<1>3. LinkTypeOK'
  <2> USE <1>1 DEF LinkTypeOK, Links, AppStages
  <2>1. ASSUME NEW u \in Ups, ObserveConnected(u) \/ ObserveLost(u) \/ LinkStep(u)
        PROVE  LinkTypeOK'
    BY <2>1 DEF ObserveConnected, ObserveLost, LinkStep, LinkConnected, LinkObserved,
       LinkInstall, LinkDrop, LinkLose, LinkCount
  <2>2. CASE \/ ListenerFails \/ ComponentFails \/ StartEnds \/ LifetimeEnds \/ CloseStarting
             \/ BeginClose \/ EndClose
    BY <2>2 DEF ListenerFails, ComponentFails, StartEnds, LifetimeEnds, CloseStarting,
       BeginClose, EndClose, linkVars
  <2>3. CASE RollBack \/ CloseApp
    BY <2>3, LinkEnds DEF RollBack, CloseApp
  <2>4. ASSUME NEW g \in Gens, RecoveryEnds(g) \/ Attempt(g) PROVE LinkTypeOK'
    BY <2>4 DEF RecoveryEnds, Attempt, RecoveryKept, linkVars
  <2>5. CASE UNCHANGED vars
    BY <2>5 DEF vars, linkVars
  <2>6. QED
    BY <2>1, <2>2, <2>3, <2>4, <2>5 DEF Next
<1>4. RecoveryOK'
  <2> USE <1>0
  <2>1. CASE StopRecovery
    <3>1. recovering => recoveryGen \in Gens \cup {0}
      BY <1>1, GensBound
    <3>2. recovering => recoveryGen # 0
      BY DEF RecoveryInv
    <3>3. stopped' \subseteq Gens
      BY <1>1, <2>1, <3>1, <3>2 DEF StopRecovery
    <3>4. tries' \in [Gens -> 0..MaxAttempts] /\ attempts' \in Nat
      BY <1>1, <2>1, <3>1, <3>2 DEF StopRecovery
    <3>5. recovering' \in BOOLEAN
      BY <2>1 DEF StopRecovery
    <3>6. recoveryGen' \in Nat
      BY <1>1, <2>1 DEF StopRecovery
    <3>7. QED
      BY <3>3, <3>4, <3>5, <3>6 DEF Gens
  <2>2. CASE StartRecovery
    <3>1. recovering' \in BOOLEAN
      BY <1>1, <2>2 DEF StartRecovery, recoveryVars
    <3>2. /\ stopped' \subseteq Gens /\ tries' \in [Gens -> 0..MaxAttempts]
          /\ attempts' \in Nat /\ recoveryGen' \in Nat
      BY <1>1, <2>2, HealthAssumption DEF StartRecovery, recoveryVars
    <3>3. QED
      BY <3>1, <3>2 DEF Gens
  <2>3. CASE UNCHANGED recoveryVars
    BY <1>1, <2>3 DEF recoveryVars
  <2>4. ASSUME NEW g \in Gens, RecoveryEnds(g) PROVE RecoveryOK'
    BY <1>1, <2>4, HealthAssumption DEF RecoveryEnds, RecoveryKept
  <2>5. ASSUME NEW g \in Gens, Attempt(g) PROVE RecoveryOK'
    <3>1. recovering' \in BOOLEAN
      BY <1>1, <2>5 DEF Attempt
    <3>2. /\ stopped' \subseteq Gens /\ tries' \in [Gens -> 0..MaxAttempts]
          /\ attempts' \in Nat /\ recoveryGen' \in Nat
      BY <1>1, <2>5, HealthAssumption DEF Attempt, RecoveryKept, Exhausted
    <3>3. QED
      BY <3>1, <3>2 DEF Gens
  <2>6. QED
    BY <2>1, <2>2, <2>3, <2>4, <2>5 DEF Next, ObserveConnected, ObserveLost, LinkStep,
       ListenerFails, ComponentFails, RollBack, StartEnds, LifetimeEnds, CloseStarting, BeginClose,
       CloseApp, EndClose, LifeKept, vars
<1>5. QED
  <2>1. recoveryGen' \in Gens \cup {0}
    <3>1. Heard' \subseteq Ups /\ Gone' \subseteq Ups
      BY DEF Heard, Gone
    <3>2. QED
      BY <1>0, <1>2, <1>4, <3>1, UpsCounted, HealthAssumption DEF GenInv, Gens
  <2>2. QED
    BY <1>0, <1>2, <1>3, <1>4, <2>1 DEF TypeOK

\* A generation starts, unless one is active.
LEMMA RecoveryStarts ==
  ASSUME TypeOK, RecoveryInv, recoveryGen' \in Gens \cup {0}, StartRecovery,
         ~online', state = "running", UNCHANGED <<ended, state>>
  PROVE  RecoveryInv'
<1>0. recoveryGen \in Nat /\ Gens' = Gens /\ stopped \subseteq Nat
  BY DEF TypeOK, Gens
<1>1. CASE recovering
  <2>1. UNCHANGED <<recovering, recoveryGen, stopped, tries>>
    BY <1>1 DEF StartRecovery, recoveryVars
  <2>2. QED
    BY <1>0, <2>1 DEF RecoveryInv
<1>2. CASE ~recovering
  <2>1. /\ recovering' /\ recoveryGen' = recoveryGen + 1 /\ stopped' = stopped
        /\ tries' = [tries EXCEPT ![recoveryGen + 1] = IF MaxAttempts = 1 THEN 1 ELSE 2]
    BY <1>2 DEF StartRecovery
  <2>2. recoveryGen + 1 \in Gens /\ tries'[recoveryGen + 1] > 0
    BY <1>0, <2>1, HealthAssumption DEF TypeOK
  <2>3. \A g \in Gens : g # recoveryGen + 1 => tries'[g] = tries[g]
    BY <2>1 DEF TypeOK
  <2>4. \A g \in Gens : tries[g] > 0 /\ g \notin stopped => FALSE
    BY <1>2 DEF RecoveryInv
  <2>5. \A g \in stopped' : g < recoveryGen'
    BY <1>0, <2>1 DEF RecoveryInv
  <2>6. \A g \in Gens' : tries'[g] > 0 /\ g \notin stopped' => recovering' /\ g = recoveryGen'
    BY <1>0, <2>1, <2>3, <2>4
  <2>7. recoveryGen' # 0
    BY <1>0, <2>1
  <2>8. QED
    BY <2>1, <2>2, <2>5, <2>6, <2>7 DEF RecoveryInv
<1>3. QED
  BY <1>1, <1>2

\* The active generation is stopped.
LEMMA RecoveryStops ==
  ASSUME TypeOK, RecoveryInv, StopRecovery PROVE RecoveryInv'
<1>0. recoveryGen \in Nat /\ Gens' = Gens /\ stopped \subseteq Nat
  BY DEF TypeOK, Gens
<1>1. /\ ~recovering' /\ recoveryGen' = recoveryGen + 1 /\ tries' = tries
      /\ stopped' = IF recovering THEN stopped \cup {recoveryGen} ELSE stopped
  BY DEF StopRecovery
<1>2. \A g \in stopped' : g < recoveryGen'
  BY <1>0, <1>1 DEF RecoveryInv
<1>3. \A g \in Gens' : ~(tries'[g] > 0 /\ g \notin stopped')
  BY <1>0, <1>1 DEF RecoveryInv
<1>4. QED
  BY <1>1, <1>2, <1>3 DEF RecoveryInv

\* A service that leaves "running" does not come back to it, and recovers
\* nothing before.
LEMMA RecoveryGoesOn ==
  ASSUME TypeOK, RecoveryInv, UNCHANGED recoveryVars, recovering => ~online',
         state' \in {"running", "starting"} => state \in {state', "starting"},
         ~ended' => ~ended
  PROVE  RecoveryInv'
<1>1. Gens' = Gens /\ UNCHANGED <<recovering, recoveryGen, stopped, tries>>
  BY DEF Gens, recoveryVars
<1>2. QED
  BY <1>1 DEF RecoveryInv

\* The goroutine of a generation takes a step.
LEMMA RecoverySteps ==
  ASSUME TypeOK, RecoveryInv, NEW g \in Gens, RecoveryEnds(g) \/ Attempt(g)
  PROVE  RecoveryInv'
<1>0. /\ Gens' = Gens /\ recoveryGen \in Nat /\ tries \in [Gens -> 0..MaxAttempts]
      /\ stopped \subseteq Nat /\ g \in Nat \ {0}
  BY DEF Gens, TypeOK
<1>1. UNCHANGED <<state, online, recoveryGen, stopped, ended>> /\ tries[g] > 0
  BY <1>0, HealthAssumption DEF RecoveryEnds, Attempt, RecoveryKept, flags, lifeVars
<1>2. \A h \in Gens \ {g} : tries'[h] = tries[h]
  BY <1>0 DEF RecoveryEnds, Attempt
<1>3. CASE UNCHANGED recovering /\ tries' = [tries EXCEPT ![g] = 0]
           /\ (g # recoveryGen \/ ended \/ state # "running" \/ ~recovering)
  <2>1. tries'[g] = 0
    BY <1>0, <1>3
  <2>2. \A h \in Gens' : tries'[h] > 0 /\ h \notin stopped' => recovering' /\ h = recoveryGen'
    BY <1>0, <1>1, <1>2, <1>3, <2>1 DEF RecoveryInv
  <2>3. recovering' /\ state' = "running" /\ ~ended' => tries'[recoveryGen'] > 0
    <3>1. recovering /\ state = "running" /\ ~ended => recoveryGen \in Gens /\ recoveryGen # g
      BY <1>0, <1>3 DEF RecoveryInv, TypeOK
    <3>2. QED
      BY <1>1, <1>2, <1>3, <3>1 DEF RecoveryInv
  <2>4. QED
    BY <1>1, <1>3, <2>2, <2>3 DEF RecoveryInv
<1>4. CASE Attempt(g) /\ MayAttempt(g)
  <2>1. /\ g = recoveryGen /\ ~online /\ state = "running"
        /\ tries' = [tries EXCEPT ![g] = IF Exhausted(g) THEN 0 ELSE @ + 1]
        /\ recovering' = ~Exhausted(g)
    BY <1>4 DEF Attempt, MayAttempt
  <2>2. g \notin stopped
    BY <1>0, <2>1 DEF RecoveryInv
  <2>3. tries'[g] = IF Exhausted(g) THEN 0 ELSE tries[g] + 1
    BY <1>0, <2>1
  <2>4. recovering' => tries'[g] > 0
    <3>1. tries[g] \in Nat
      BY <1>0, HealthAssumption
    <3>2. ~Exhausted(g) => tries'[g] > 0
      BY <2>3, <3>1
    <3>3. QED
      BY <2>1, <3>2
  <2>5. \A h \in Gens' : tries'[h] > 0 /\ h \notin stopped' => h = recoveryGen'
    BY <1>0, <1>1, <1>2, <2>1 DEF RecoveryInv
  <2>6. tries'[g] > 0 => recovering'
    <3>1. Exhausted(g) => ~(tries'[g] > 0)
      BY <2>3
    <3>2. QED
      BY <2>1, <3>1
  <2>7. \A h \in Gens' : tries'[h] > 0 /\ h \notin stopped' => recovering' /\ h = recoveryGen'
    BY <1>1, <2>1, <2>5, <2>6
  <2>8. /\ \A h \in stopped' : h < recoveryGen'
        /\ recoveryGen' # 0 /\ ~online' /\ state' # "starting"
    BY <1>0, <1>1, <2>1 DEF RecoveryInv
  <2>9. recovering' => tries'[recoveryGen'] > 0
    BY <1>1, <2>1, <2>4
  <2>10. QED
    BY <2>7, <2>8, <2>9 DEF RecoveryInv
<1>5. QED
  <2>1. CASE RecoveryEnds(g)
    <3>1. UNCHANGED recovering /\ tries' = [tries EXCEPT ![g] = 0]
      BY <2>1 DEF RecoveryEnds
    <3>2. g # recoveryGen \/ ended \/ state # "running"
      BY <1>0, <2>1 DEF RecoveryEnds, RecoveryInv
    <3>3. QED
      BY <1>3, <3>1, <3>2
  <2>2. CASE Attempt(g) /\ ~MayAttempt(g)
    <3>1. UNCHANGED recovering /\ tries' = [tries EXCEPT ![g] = 0]
      BY <2>2 DEF Attempt
    <3>2. g # recoveryGen \/ state # "running" \/ online
      BY <2>2 DEF MayAttempt
    <3>3. online => ~recovering
      BY DEF RecoveryInv
    <3>4. QED
      BY <1>3, <3>1, <3>2, <3>3
  <2>3. QED
    BY <1>4, <2>1, <2>2

\* Every step keeps the recoveries in order.
LEMMA RecoveryNext ==
  TypeOK /\ RecoveryInv /\ recoveryGen' \in Gens \cup {0} /\ [Next]_vars => RecoveryInv'
<1> SUFFICES ASSUME TypeOK, RecoveryInv, recoveryGen' \in Gens \cup {0}, [Next]_vars
             PROVE  RecoveryInv'
  OBVIOUS
<1>0. recovering => ~online
  BY DEF RecoveryInv
<1>1. ASSUME NEW u \in Ups, ObserveConnected(u) PROVE RecoveryInv'
  BY <1>1, RecoveryStops DEF ObserveConnected
<1>2. ASSUME NEW u \in Ups, ObserveLost(u) PROVE RecoveryInv'
  <2>1. CASE counted[u]
    BY <1>2, <2>1, RecoveryStops DEF ObserveLost
  <2>2. CASE ~counted[u] /\ state = "running" /\ seen
    BY <1>2, <2>2, RecoveryStarts DEF ObserveLost, lifeVars
  <2>3. CASE ~counted[u] /\ ~(state = "running" /\ seen)
    BY <1>2, <2>3, RecoveryGoesOn DEF ObserveLost, lifeVars
  <2>4. QED
    BY <2>1, <2>2, <2>3
<1>3. ASSUME NEW u \in Ups, LinkStep(u) PROVE RecoveryInv'
  BY <1>0, <1>3, RecoveryGoesOn DEF LinkStep, flags, lifeVars
<1>4. CASE ListenerFails
  BY <1>4, RecoveryStops DEF ListenerFails
<1>5. CASE ComponentFails
  BY <1>0, <1>5, RecoveryGoesOn DEF ComponentFails, flags, lifeVars
<1>6. ASSUME NEW g \in Gens, RecoveryEnds(g) \/ Attempt(g) PROVE RecoveryInv'
  BY <1>6, RecoverySteps
<1>7. CASE RollBack \/ StartEnds \/ LifetimeEnds \/ CloseStarting \/ BeginClose \/ CloseApp
           \/ EndClose
  BY <1>0, <1>7, RecoveryGoesOn DEF RollBack, StartEnds, LifetimeEnds, CloseStarting, BeginClose,
     CloseApp, EndClose, LifeKept, flags, lifeVars
<1>8. CASE UNCHANGED vars
  BY <1>0, <1>8, RecoveryGoesOn DEF vars, flags, lifeVars
<1>9. QED
  BY <1>1, <1>2, <1>3, <1>4, <1>5, <1>6, <1>7, <1>8 DEF Next

-----------------------------------------------------------------------------
(* What is reported.                                                       *)

\* The endpoint and what the service thinks of it.
LEMMA BackedNext == TypeOK /\ BackedInv /\ [Next]_vars => BackedInv'
<1> SUFFICES ASSUME TypeOK, BackedInv, [Next]_vars PROVE BackedInv'
  OBVIOUS
<1> DEFINE Backs(u) == link[u] \in {"serving", "lost", "counted"} \/ counted[u]
<1>0. link \in [Ups -> Links] /\ counted \in [Ups -> BOOLEAN]
  BY DEF TypeOK, LinkTypeOK
<1>1. ASSUME NEW u \in Ups, ObserveConnected(u) PROVE BackedInv'
  BY <1>0, <1>1 DEF ObserveConnected, LinkConnected, BackedInv
<1>2. ASSUME NEW u \in Ups, ObserveLost(u) PROVE BackedInv'
  BY <1>0, <1>2 DEF ObserveLost, LinkObserved, BackedInv
<1>3. ASSUME NEW u \in Ups, LinkStep(u) PROVE BackedInv'
  <2>1. UNCHANGED online
    BY <1>3 DEF LinkStep, flags
  <2>2. \A w \in Ups : Backs(w) => Backs(w)'
    BY <1>0, <1>3 DEF LinkStep, LinkInstall, LinkDrop, LinkLose, LinkCount
  <2>3. QED
    BY <2>1, <2>2 DEF BackedInv
<1>4. CASE ListenerFails \/ ComponentFails \/ StartEnds \/ LifetimeEnds \/ CloseStarting
           \/ BeginClose \/ EndClose \/ UNCHANGED vars
  BY <1>4 DEF ListenerFails, ComponentFails, StartEnds, LifetimeEnds, CloseStarting, BeginClose,
     EndClose, LifeKept, BackedInv, vars, flags, linkVars
<1>5. CASE RollBack \/ CloseApp
  <2>1. UNCHANGED <<online, counted>>
    BY <1>5, LinkEnds DEF RollBack, CloseApp, LifeKept, flags
  <2>2. \A w \in Ups : Backs(w) => Backs(w)'
    BY <1>0, <1>5, LinkEnds DEF RollBack, CloseApp
  <2>3. QED
    BY <2>1, <2>2 DEF BackedInv
<1>6. ASSUME NEW g \in Gens, RecoveryEnds(g) \/ Attempt(g) PROVE BackedInv'
  BY <1>6 DEF RecoveryEnds, Attempt, RecoveryKept, BackedInv, flags, linkVars
<1>7. QED
  BY <1>1, <1>2, <1>3, <1>4, <1>5, <1>6 DEF Next

\* The health follows what it reports.
LEMMA HealthNext == TypeOK /\ RecoveryInv /\ HealthInv /\ [Next]_vars => HealthInv'
<1> SUFFICES ASSUME TypeOK, RecoveryInv, HealthInv, [Next]_vars PROVE HealthInv'
  OBVIOUS
<1> USE DEF HealthInv
<1>1. ASSUME NEW u \in Ups, ObserveConnected(u) PROVE HealthInv'
  BY <1>1 DEF ObserveConnected, StopRecovery, Refreshed, HealthOf
<1>2. ASSUME NEW u \in Ups, ObserveLost(u) PROVE HealthInv'
  BY <1>2 DEF ObserveLost, StopRecovery, StartRecovery, Refreshed, HealthOf, recoveryVars
<1>3. ASSUME NEW u \in Ups, LinkStep(u) PROVE HealthInv'
  BY <1>3 DEF LinkStep, flags, recoveryVars, history
<1>4. CASE ListenerFails \/ ComponentFails
  BY <1>4 DEF ListenerFails, ComponentFails, StopRecovery, flags, recoveryVars
<1>5. ASSUME NEW g \in Gens, RecoveryEnds(g) \/ Attempt(g) PROVE HealthInv'
  <2>1. UNCHANGED <<state, online, seen, listenerFailed, lostEarly>>
    BY <1>5 DEF RecoveryEnds, Attempt, RecoveryKept, flags, history
  <2>2. CASE UNCHANGED <<health, recovering>>
    BY <2>1, <2>2
  <2>3. CASE Attempt(g) /\ MayAttempt(g)
    <3>1. /\ state = "running" /\ ~online
          /\ \/ ~Exhausted(g) /\ recovering' /\ health' = "reconnecting"
             \/ Exhausted(g) /\ ~recovering' /\ health' = "failed"
      BY <2>3 DEF Attempt, MayAttempt, Outcome
    <3>2. QED
      BY <2>1, <3>1
  <2>4. QED
    BY <1>5, <2>2, <2>3 DEF RecoveryEnds, Attempt
<1>6. CASE \/ RollBack \/ StartEnds \/ LifetimeEnds \/ CloseStarting \/ BeginClose \/ CloseApp
           \/ EndClose \/ UNCHANGED vars
  BY <1>6 DEF RollBack, StartEnds, LifetimeEnds, CloseStarting, BeginClose, CloseApp, EndClose,
     LifeKept, vars, flags, recoveryVars, history, HealthOf, RecoveryInv
<1>7. QED
  BY <1>1, <1>2, <1>3, <1>4, <1>5, <1>6 DEF Next

\* Every reachable state satisfies the invariant.
THEOREM Invariance == SafetySpec => []IInv
<1>1. Init => IInv
  <2> SUFFICES ASSUME Init PROVE IInv
    OBVIOUS
  <2>1. TypeOK
    <3>1. /\ 0 \in 0..MaxAttempts /\ errors \in 0..MaxErrors /\ attempts \in Nat
          /\ recoveryGen \in Gens \cup {0} /\ stopped \subseteq Gens
      BY HealthAssumption DEF Init
    <3>2. tries \in [Gens -> 0..MaxAttempts]
      BY <3>1 DEF Init
    <3>3. /\ online \in BOOLEAN /\ seen \in BOOLEAN /\ listenerFailed \in BOOLEAN
          /\ recovering \in BOOLEAN /\ stopRequested \in BOOLEAN /\ ended \in BOOLEAN
          /\ lostEarly \in BOOLEAN
      BY DEF Init
    <3>4. LinkTypeOK
      BY DEF Init, LinkInit, LinkTypeOK, Links, AppStages
    <3>5. QED
      BY <3>1, <3>2, <3>3, <3>4 DEF Init, TypeOK
  <2>2. RecoveryInv /\ BackedInv /\ HealthInv
    BY DEF Init, RecoveryInv, BackedInv, HealthInv
  <2>3. GenInv
    BY GensFinite DEF Init, GenInv
  <2>4. QED
    BY <2>1, <2>2, <2>3 DEF IInv
<1>2. IInv /\ [Next]_vars => IInv'
  <2> SUFFICES ASSUME IInv, [Next]_vars PROVE IInv'
    OBVIOUS
  <2>1. GenInv'
    BY GenNext DEF IInv
  <2>2. TypeOK'
    BY <2>1, TypeNext DEF IInv
  <2>3. recoveryGen' \in Gens \cup {0}
    <3>1. Gens' = Gens
      BY DEF Gens
    <3>2. QED
      BY <2>2, <3>1 DEF TypeOK
  <2>4. RecoveryInv' /\ BackedInv' /\ HealthInv'
    BY <2>3, RecoveryNext, BackedNext, HealthNext DEF IInv
  <2>5. QED
    BY <2>1, <2>2, <2>4 DEF IInv
<1>3. QED
  BY <1>1, <1>2, PTL DEF SafetySpec

\* The fields stay in their ranges, and the numbers of generations that the model
\* has are enough for any number of connections and errors.
THEOREM TypeCorrect == SafetySpec => []TypeOK
BY Invariance, PTL DEF IInv

\* "Ready" is backed by a connection, or by one whose loss is still to be observed.
THEOREM ReadyAlwaysBacked == SafetySpec => []ReadyIsBacked
<1>1. IInv => ReadyIsBacked
  BY DEF IInv, HealthInv, BackedInv, ReadyIsBacked
<1>2. QED
  BY <1>1, Invariance, PTL

\* "Reconnecting" is not reported while the upstream is connected or nobody tries.
THEOREM ReconnectingAlwaysTried == SafetySpec => []ReconnectingIsTried
<1>1. IInv => ReconnectingIsTried
  BY DEF IInv, HealthInv, ReconnectingIsTried
<1>2. QED
  BY <1>1, Invariance, PTL

\* More than recoveryActive says: the goroutine of the present generation exists
\* and has not been cancelled.
THEOREM ReconnectingAlwaysLive == SafetySpec => []ReconnectingIsLive
<1>1. IInv => ReconnectingIsLive
  <2> SUFFICES ASSUME IInv, health = "reconnecting", ~lostEarly, ~ended
               PROVE  recoveryGen \in Gens /\ tries[recoveryGen] > 0 /\ recoveryGen \notin stopped
    BY DEF ReconnectingIsLive
  <2>1. recovering /\ state = "running"
    BY DEF IInv, HealthInv
  <2>2. recoveryGen \in Gens /\ tries[recoveryGen] > 0 /\ \A g \in stopped : g < recoveryGen
    BY <2>1 DEF IInv, RecoveryInv, TypeOK
  <2>3. recoveryGen \in Nat
    BY DEF IInv, TypeOK, Gens
  <2>4. QED
    BY <2>2, <2>3
<1>2. QED
  BY <1>1, Invariance, PTL
=============================================================================
