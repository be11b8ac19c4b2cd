---------------------------- MODULE WriterProofs ----------------------------
(***************************************************************************)
(* Proofs about the goroutines that write what others hand them.           *)
(* SegmentedCapture, for any number of recorders, writers and crashes, any *)
(* queue and file sizes: the lock file keeps recorders of one path apart,  *)
(* the lock of the queue keeps writers off a closed one, a replay finds    *)
(* every recorder's frames in order without a gap, and a Close without     *)
(* error has them all on disk.  Outbound, at the end, for any clients,     *)
(* batches and limits: batches go out whole and in order, and a closed     *)
(* client is quiet.                                                        *)
(***************************************************************************)
EXTENDS SegmentedCapture, Outbound, FiniteSetTheorems, WellFoundedInduction, SequenceTheorems, TLAPS

-----------------------------------------------------------------------------
(* The lock file.                                                          *)

\* The goroutine of a recorder is somewhere.
RunInv == DOMAIN run = Recorders

LockInv == RunInv /\ OneWriter

\* A step of r's goroutine that keeps the lock leaves the set of those alive
\* as it is.
LEMMA StaysAlive ==
    ASSUME LockInv, NEW r \in Recorders, r \in Alive, NEW s \in Stages,
           Go(r, s), lock' = lock
    PROVE  LockInv'
<1>1. Alive' = Alive /\ RunInv'
    BY DEF LockInv, RunInv, Alive, Go
<1>2. QED
    BY <1>1 DEF LockInv, OneWriter

\* Steps of the callers do not touch it.
LEMMA LockKept ==
    ASSUME LockInv, run' = run, lock' = lock
    PROVE  LockInv'
  BY DEF LockInv, RunInv, OneWriter, Alive

\* Each stage of the goroutine leads to another one, only Unlock ends it.
LEMMA RunStepLock == ASSUME LockInv, NEW r \in Recorders, RunStep(r) PROVE LockInv'
<1>1. CASE Take(r)
    <2>1. lock' = lock
        BY <1>1 DEF Take, diskVars
    <2>2. CASE r \in err
        BY <1>1, <2>1, <2>2, LockKept DEF Take
    <2>3. CASE r \notin err
        <3>1. r \in Alive /\ Go(r, Destination(r)) /\ Destination(r) \in Stages
            BY <1>1, <2>3 DEF Take, Alive, Stages, Destination
        <3>2. QED
            BY <2>1, <3>1, StaysAlive
    <2>4. QED
        BY <2>2, <2>3
<1>2. CASE StepFails(r)
    <2>1. r \in Alive /\ Go(r, "idle") /\ lock' = lock /\ "idle" \in Stages
        BY <1>2 DEF StepFails, Alive, Stages, diskVars
    <2>2. QED
        BY <2>1, StaysAlive
<1>3. CASE Rotate(r)
    <2>1. r \in Alive /\ lock' = lock /\ (Go(r, "retain") \/ Go(r, "idle"))
        BY <1>3 DEF Rotate, Publish, Alive, Stages
    <2>2. QED
        BY <2>1, StaysAlive DEF Stages
<1>4. CASE Retain(r)
    <2>1. r \in Alive /\ lock' = lock /\ (Go(r, "open") \/ Go(r, "unlock") \/ Go(r, "idle"))
        BY <1>4 DEF Retain, Alive, Stages
    <2>2. QED
        BY <2>1, StaysAlive DEF Stages
<1>5. CASE Open(r)
    <2>1. r \in Alive /\ Go(r, "write") /\ lock' = lock /\ "write" \in Stages
        BY <1>5 DEF Open, Alive, Stages, diskVars
    <2>2. QED
        BY <2>1, StaysAlive
<1>6. CASE Write(r)
    <2>1. r \in Alive /\ Go(r, "idle") /\ lock' = lock /\ "idle" \in Stages
        BY <1>6 DEF Write, Alive, Stages, diskVars
    <2>2. QED
        BY <2>1, StaysAlive
<1>7. CASE Finish(r)
    <2>1. r \in Alive /\ lock' = lock /\ (Go(r, "retain") \/ Go(r, "unlock"))
        BY <1>7 DEF Finish, Publish, Alive, Stages
    <2>2. QED
        BY <2>1, StaysAlive DEF Stages
<1>8. CASE Unlock(r)
    <2>1. r \in Alive /\ run' = [run EXCEPT ![r] = "done"]
        BY <1>8 DEF Unlock, Alive, Stages, Go
    <2>2. Alive' = {} /\ RunInv'
        BY <2>1 DEF LockInv, OneWriter, RunInv, Alive, Stages
    <2>3. QED
        BY <2>2 DEF LockInv, OneWriter
<1>9. QED
    BY <1>1, <1>2, <1>3, <1>4, <1>5, <1>6, <1>7, <1>8 DEF RunStep

\* Initially nobody works on the path, and every step keeps recorders apart.
LEMMA LockInit == Init => LockInv
  BY DEF Init, LockInv, RunInv, OneWriter, Alive, Stages

LEMMA LockNext == LockInv /\ [Next]_vars => LockInv'
<1> SUFFICES ASSUME LockInv, [Next]_vars PROVE LockInv'
    OBVIOUS
<1>1. CASE UNCHANGED vars
    BY <1>1, LockKept DEF vars, diskVars
<1>2. ASSUME NEW r \in Recorders, Start(r) PROVE LockInv'
    <2>1. Alive = {} /\ lock'
        BY <1>2 DEF Start, LockInv, OneWriter
    <2>2. Alive' = {r} /\ RunInv'
        BY <1>2, <2>1 DEF Start, Go, LockInv, RunInv, Alive, Stages
    <2>3. QED
        BY <2>1, <2>2 DEF LockInv, OneWriter
<1>3. ASSUME NEW r \in Recorders, CloseBegins(r) \/ CloseReturns(r) \/ CloseTimesOut(r)
      PROVE  LockInv'
    BY <1>3, LockKept DEF CloseBegins, CloseReturns, CloseTimesOut, diskVars
<1>4. ASSUME NEW r \in Recorders, RunStep(r) PROVE LockInv'
    BY <1>4, RunStepLock
<1>5. ASSUME NEW w \in Writers, WriteSends(w) PROVE LockInv'
    BY <1>5, LockKept DEF WriteSends, diskVars
<1>6. ASSUME NEW w \in Writers, NEW r \in Recorders, WriteBegins(w, r) PROVE LockInv'
    BY <1>6, LockKept DEF WriteBegins, diskVars
<1>7. CASE Crash
    <2>1. Alive' = {} /\ RunInv'
        BY <1>7 DEF Crash, LockInv, RunInv, Alive, Stages
    <2>2. QED
        BY <2>1 DEF LockInv, OneWriter
<1>8. CASE RemoveLock
    <2>1. Alive' = {} /\ RunInv'
        BY <1>8 DEF RemoveLock, LockInv, RunInv, Alive
    <2>2. QED
        BY <2>1 DEF LockInv, OneWriter
<1>9. QED
    BY <1>1, <1>2, <1>3, <1>4, <1>5, <1>6, <1>7, <1>8 DEF Next

\* StartSegmented and the deferred function of run: at most one goroutine works
\* on a path, and the lock file is there as long as it does, also after a Close
\* that gave up and after crashes.
THEOREM PathExclusive == SafetySpec => []OneWriter
<1>1. LockInv => OneWriter
    BY DEF LockInv
<1>2. QED
    BY <1>1, LockInit, LockNext, PTL DEF SafetySpec

-----------------------------------------------------------------------------
(* The queue.                                                              *)

QueueInv ==
    /\ DOMAIN writer = Writers
    /\ closing \subseteq Recorders
    /\ NoSendOnClosed

\* A step that leaves writers and closed channels alone.
LEMMA QueueKept == QueueInv /\ UNCHANGED <<writer, closing>> => QueueInv'
  BY DEF QueueInv, NoSendOnClosed

LEMMA QueueInit == Init => QueueInv
  BY CaptureAssumption DEF Init, QueueInv, NoSendOnClosed

LEMMA QueueNext == QueueInv /\ [Next]_vars => QueueInv'
<1> SUFFICES ASSUME QueueInv, [Next]_vars PROVE QueueInv'
    OBVIOUS
<1>1. CASE UNCHANGED vars
    BY <1>1, QueueKept DEF vars, callVars
<1>2. ASSUME NEW r \in Recorders, CloseBegins(r) PROVE QueueInv'
    BY <1>2 DEF CloseBegins, MayClose, QueueInv, NoSendOnClosed
<1>3. ASSUME NEW w \in Writers, NEW r \in Recorders, WriteBegins(w, r) PROVE QueueInv'
    BY <1>3 DEF WriteBegins, QueueInv, NoSendOnClosed
<1>4. ASSUME NEW w \in Writers, WriteSends(w) PROVE QueueInv'
    BY <1>4, CaptureAssumption DEF WriteSends, QueueInv, NoSendOnClosed
<1>5. CASE Crash
    BY <1>5, CaptureAssumption DEF Crash, QueueInv, NoSendOnClosed
<1>6. ASSUME NEW r \in Recorders, Start(r) \/ CloseReturns(r) \/ CloseTimesOut(r)
      PROVE  QueueInv'
    BY <1>6, QueueKept DEF Start, CloseReturns, CloseTimesOut, callVars
<1>7. ASSUME NEW r \in Recorders, RunStep(r) PROVE QueueInv'
    BY <1>7, QueueKept
    DEF RunStep, Take, StepFails, Rotate, Retain, Open, Write, Finish, Unlock, RunKept, callVars
<1>8. CASE RemoveLock
    BY <1>8, QueueKept DEF RemoveLock, callVars
<1>9. QED
    BY <1>1, <1>2, <1>3, <1>4, <1>5, <1>6, <1>7, <1>8 DEF Next

\* WriteFrame and Close under queueMu: however many writers there are, none
\* sends on a channel that Close has closed.
THEOREM SendsAreSafe == SafetySpec => []NoSendOnClosed
<1>1. QueueInv => NoSendOnClosed
    BY DEF QueueInv
<1>2. QED
    BY <1>1, QueueInit, QueueNext, PTL DEF SafetySpec

-----------------------------------------------------------------------------
(***************************************************************************)
(* What a replay finds.  A file holds a strip: consecutive frames of one   *)
(* recorder.  The files are a shelf, and what a recorder has published is  *)
(* kept there up to the last frame, but for the oldest.                    *)
(***************************************************************************)
By(s) == s[1][1]
From(s) == s[1][2]
To(s) == From(s) + Len(s) - 1

Strip(s) ==
  /\ s \in Seq(Frames) /\ s # <<>>
  /\ \A i \in 1..Len(s) : s[i] = <<By(s), From(s) + i - 1>>

IsTop(fs, n) == n \in DOMAIN fs /\ \A m \in DOMAIN fs : m <= n

\* Strip t goes on where strip s ends; it comes later.
Continues(s, t) == \/ By(s) = By(t) /\ From(t) = To(s) + 1
                   \/ By(s) < By(t) /\ From(t) = 1

Below(s, t) == By(s) < By(t) \/ (By(s) = By(t) /\ To(s) < From(t))

Adjacent(fs, m, n) == m < n /\ \A k \in DOMAIN fs : k <= m \/ n <= k

Shelf(fs) ==
  /\ IsFiniteSet(DOMAIN fs) /\ DOMAIN fs \subseteq Nat \ {0}
  /\ DOMAIN fs # {} => \E n \in DOMAIN fs : IsTop(fs, n)
  /\ \A n \in DOMAIN fs : Strip(fs[n])
  /\ \A m, n \in DOMAIN fs : m < n => Below(fs[m], fs[n])
  /\ \A m, n \in DOMAIN fs : Adjacent(fs, m, n) => Continues(fs[m], fs[n])

\* Frame y of r goes on where the shelf ends.
Follows(fs, r, y) ==
  /\ DOMAIN fs = {} => y = 1
  /\ \A n \in DOMAIN fs : IsTop(fs, n) =>
       \/ By(fs[n]) = r /\ y = To(fs[n]) + 1
       \/ By(fs[n]) < r /\ y = 1

Covered(fs, r, y) == \E n \in DOMAIN fs : By(fs[n]) = r /\ From(fs[n]) <= y /\ y <= To(fs[n])

\* Of the frames 1..p of r the newest are there, all of them unless files were removed.
Kept(fs, r, p) ==
  /\ \A y \in Nat : Covered(fs, r, y) => y <= p
  /\ \A y, z \in Nat : Covered(fs, r, y) /\ y <= z /\ z <= p => Covered(fs, r, z)
  /\ p > 0 /\ ~Covered(fs, r, 1) => Cardinality(DOMAIN fs) >= RetainSegments

LEMMA StripEnds ==
  ASSUME NEW s, Strip(s)
  PROVE  /\ By(s) \in Recorders /\ By(s) \in Nat /\ From(s) \in Nat \ {0} /\ To(s) \in Nat
         /\ From(s) <= To(s) /\ Len(s) \in Nat \ {0}
         /\ Head(s) = <<By(s), From(s)>> /\ Last(s) = <<By(s), To(s)>>
<1>1. s \in Seq(Frames) /\ s # <<>> /\ Len(s) \in Nat \ {0}
  BY EmptySeq DEF Strip
<1>2. s[1] \in Frames /\ s[1] = <<By(s), From(s) + 1 - 1>> /\ Head(s) = s[1]
  BY <1>1 DEF Strip
<1>3. By(s) \in Recorders /\ From(s) \in Nat \ {0}
  BY <1>2 DEF Frames, By, From
<1>4. By(s) \in Nat
  BY <1>3, CaptureAssumption
<1>5. Last(s) = <<By(s), From(s) + Len(s) - 1>>
  BY <1>1 DEF Last, Strip
<1>6. Head(s) = <<By(s), From(s)>>
  BY <1>2, <1>3
<1> QED
  BY <1>1, <1>3, <1>4, <1>5, <1>6 DEF To

\* The first frame of a file.
LEMMA StripBegins ==
  ASSUME NEW r \in Recorders, NEW y \in Nat \ {0}
  PROVE  /\ Strip(Append(<<>>, <<r, y>>)) /\ By(Append(<<>>, <<r, y>>)) = r
         /\ From(Append(<<>>, <<r, y>>)) = y
<1>1. PICK f \in Frames : f = <<r, y>>
  BY DEF Frames
<1>2. PICK s : s = Append(<<>>, f)
  OBVIOUS
<1>3. s \in Seq(Frames) /\ s # <<>> /\ Len(s) = 1 /\ s[1] = f
  <2>1. <<>> \in Seq(Frames) /\ Len(<<>>) = 0
    BY EmptySeq
  <2> QED
    BY <1>2, <2>1, AppendProperties
<1>4. By(s) = r /\ From(s) = y
  BY <1>1, <1>3 DEF By, From
<1>5. ASSUME NEW i \in 1..Len(s) PROVE s[i] = <<By(s), From(s) + i - 1>>
  <2>1. i = 1 /\ y + i - 1 = y
    BY <1>3
  <2> QED
    BY <1>1, <1>3, <1>4, <2>1
<1>6. Strip(s)
  BY <1>3, <1>5 DEF Strip
<1> QED
  BY <1>1, <1>2, <1>4, <1>6

\* The next frame of a file.
LEMMA StripGrows ==
  ASSUME NEW s, Strip(s)
  PROVE  /\ Strip(Append(s, <<By(s), To(s) + 1>>)) /\ By(Append(s, <<By(s), To(s) + 1>>)) = By(s)
         /\ From(Append(s, <<By(s), To(s) + 1>>)) = From(s)
<1>1. /\ By(s) \in Recorders /\ From(s) \in Nat \ {0} /\ To(s) \in Nat /\ Len(s) \in Nat \ {0}
      /\ s \in Seq(Frames)
  BY StripEnds DEF Strip
<1>2. PICK f \in Frames : f = <<By(s), To(s) + 1>>
  <2>1. To(s) + 1 \in Nat \ {0}
    BY <1>1
  <2> QED
    BY <1>1, <2>1 DEF Frames
<1>3. PICK t : t = Append(s, f)
  OBVIOUS
<1>4. /\ t \in Seq(Frames) /\ Len(t) = Len(s) + 1 /\ t[Len(s) + 1] = f
      /\ \A i \in 1..Len(s) : t[i] = s[i]
  BY <1>1, <1>3, AppendProperties
<1>5. t[1] = s[1]
  BY <1>1, <1>4
<1>6. By(t) = By(s) /\ From(t) = From(s)
  BY <1>5 DEF By, From
<1>7. ASSUME NEW i \in 1..Len(t) PROVE t[i] = <<By(t), From(t) + i - 1>>
  <2>1. CASE i = Len(s) + 1
    <3>1. From(t) + i - 1 = To(s) + 1
      BY <1>1, <1>6, <2>1 DEF To
    <3> QED
      BY <1>2, <1>4, <1>6, <2>1, <3>1
  <2>2. CASE i # Len(s) + 1
    <3>1. i \in 1..Len(s)
      BY <1>1, <1>4, <2>2
    <3>2. s[i] = <<By(s), From(s) + i - 1>>
      BY <3>1 DEF Strip
    <3> QED
      BY <1>4, <1>6, <3>1, <3>2
  <2> QED
    BY <2>1, <2>2
<1>8. t # <<>>
  BY <1>1, <1>4
<1>9. Strip(t)
  BY <1>4, <1>7, <1>8 DEF Strip
<1> QED
  BY <1>2, <1>3, <1>6, <1>9

-----------------------------------------------------------------------------
(* A shelf, when a file is added and when the oldest are removed.          *)

LEMMA ShelfStrips ==
  ASSUME NEW fs, Shelf(fs), NEW n \in DOMAIN fs
  PROVE  /\ n \in Nat \ {0} /\ By(fs[n]) \in Nat /\ From(fs[n]) \in Nat \ {0} /\ To(fs[n]) \in Nat
         /\ From(fs[n]) <= To(fs[n])
  BY StripEnds DEF Shelf

\* The files fs, and s as number i.
Placed(fs, i, s) == [n \in DOMAIN fs \cup {i} |-> IF n = i THEN s ELSE fs[n]]

LEMMA AddKeepsShelf ==
  ASSUME NEW fs, Shelf(fs), NEW s, Strip(s), Follows(fs, By(s), From(s)),
         NEW i \in Nat \ {0}, \A n \in DOMAIN fs : n < i
  PROVE  /\ Shelf(Placed(fs, i, s)) /\ Follows(Placed(fs, i, s), By(s), To(s) + 1)
         /\ IsTop(Placed(fs, i, s), i)
<1>0. PICK gs : gs = Placed(fs, i, s)
  OBVIOUS
<1>1. /\ DOMAIN gs = DOMAIN fs \cup {i} /\ gs[i] = s
      /\ \A n \in DOMAIN fs : n # i /\ gs[n] = fs[n]
  BY <1>0 DEF Shelf, Placed
<1>2. By(s) \in Nat /\ From(s) \in Nat \ {0} /\ To(s) \in Nat /\ From(s) <= To(s)
  BY StripEnds
<1>3. \A n \in DOMAIN fs : n \in Nat \ {0}
  BY DEF Shelf
<1>4. IsTop(gs, i)
  BY <1>1, <1>3 DEF IsTop
<1>5. ASSUME NEW n, IsTop(gs, n) PROVE n = i
  BY <1>1, <1>3, <1>5 DEF IsTop
<1>6. Follows(gs, By(s), To(s) + 1)
  BY <1>1, <1>5 DEF Follows
<1>7. IsFiniteSet(DOMAIN gs) /\ DOMAIN gs \subseteq Nat \ {0}
  BY <1>1, <1>3, FS_AddElement DEF Shelf
<1>8. \A n \in DOMAIN gs : Strip(gs[n])
  BY <1>1 DEF Shelf
<1>9. ASSUME NEW m \in DOMAIN fs, IsTop(fs, m) PROVE Continues(fs[m], s) /\ Below(fs[m], s)
  <2>1. \/ By(fs[m]) = By(s) /\ From(s) = To(fs[m]) + 1
        \/ By(fs[m]) < By(s) /\ From(s) = 1
    BY <1>9 DEF Follows
  <2>2. To(fs[m]) \in Nat
    BY ShelfStrips
  <2> QED
    BY <2>1, <2>2 DEF Continues, Below
<1>10. ASSUME NEW m \in DOMAIN fs PROVE Below(fs[m], s)
  <2>1. PICK t \in DOMAIN fs : IsTop(fs, t)
    BY DEF Shelf
  <2>2. CASE m = t
    BY <1>9, <2>1, <2>2
  <2>3. CASE m # t
    <3>1. m < t
      BY <1>3, <2>1, <2>3 DEF IsTop
    <3>2. Below(fs[m], fs[t]) /\ Below(fs[t], s)
      BY <1>9, <2>1, <3>1 DEF Shelf
    <3>3. /\ By(fs[m]) \in Nat /\ From(fs[m]) \in Nat /\ To(fs[m]) \in Nat
          /\ By(fs[t]) \in Nat /\ From(fs[t]) \in Nat /\ To(fs[t]) \in Nat
          /\ From(fs[t]) <= To(fs[t])
      BY ShelfStrips
    <3> QED
      BY <1>2, <3>2, <3>3 DEF Below
  <2> QED
    BY <2>2, <2>3
<1>11. ASSUME NEW m \in DOMAIN gs, NEW n \in DOMAIN gs, m < n PROVE Below(gs[m], gs[n])
  <2>1. m \in DOMAIN fs
    BY <1>1, <1>3, <1>11
  <2>2. CASE n = i
    BY <1>1, <1>10, <2>1, <2>2
  <2>3. CASE n # i
    BY <1>1, <1>11, <2>1, <2>3 DEF Shelf
  <2> QED
    BY <2>2, <2>3
<1>12. ASSUME NEW m \in DOMAIN gs, NEW n \in DOMAIN gs, Adjacent(gs, m, n)
       PROVE  Continues(gs[m], gs[n])
  <2>1. m \in DOMAIN fs
    BY <1>1, <1>3, <1>12 DEF Adjacent
  <2>2. CASE n = i
    <3>1. IsTop(fs, m)
      BY <1>1, <1>3, <1>12, <2>1, <2>2 DEF Adjacent, IsTop
    <3> QED
      BY <1>1, <1>9, <2>1, <2>2, <3>1
  <2>3. CASE n # i
    <3>1. n \in DOMAIN fs /\ Adjacent(fs, m, n)
      BY <1>1, <1>12, <2>3 DEF Adjacent
    <3> QED
      BY <1>1, <2>1, <3>1 DEF Shelf
  <2> QED
    BY <2>2, <2>3
<1>13. Shelf(gs)
  BY <1>1, <1>4, <1>7, <1>8, <1>11, <1>12 DEF Shelf
<1> QED
  BY <1>0, <1>4, <1>6, <1>13

\* Others keep what they had, the recorder has what it has published.
LEMMA AddKeeps ==
  ASSUME NEW fs, Shelf(fs), NEW s, Strip(s), Follows(fs, By(s), From(s)),
         NEW i \in Nat \ {0}, \A n \in DOMAIN fs : n < i
  PROVE  /\ \A r, p : r # By(s) /\ Kept(fs, r, p) => Kept(Placed(fs, i, s), r, p)
         /\ Kept(fs, By(s), From(s) - 1) => Kept(Placed(fs, i, s), By(s), To(s))
<1>0. PICK gs : gs = Placed(fs, i, s)
  OBVIOUS
<1>1. /\ DOMAIN gs = DOMAIN fs \cup {i} /\ gs[i] = s
      /\ \A n \in DOMAIN fs : n # i /\ gs[n] = fs[n]
  BY <1>0 DEF Shelf, Placed
<1>2. By(s) \in Nat /\ From(s) \in Nat \ {0} /\ To(s) \in Nat /\ From(s) <= To(s)
  BY StripEnds
<1>3. \A r, y : Covered(gs, r, y) <=> \/ Covered(fs, r, y)
                                      \/ r = By(s) /\ From(s) <= y /\ y <= To(s)
  BY <1>1 DEF Covered
<1>4. /\ Cardinality(DOMAIN gs) >= Cardinality(DOMAIN fs)
      /\ Cardinality(DOMAIN fs) \in Nat /\ Cardinality(DOMAIN gs) \in Nat
  <2>1. IsFiniteSet(DOMAIN fs) /\ i \notin DOMAIN fs
    BY <1>1 DEF Shelf
  <2>2. /\ IsFiniteSet(DOMAIN fs \cup {i})
        /\ Cardinality(DOMAIN fs \cup {i}) = Cardinality(DOMAIN fs) + 1
    BY <2>1, FS_AddElement
  <2>3. Cardinality(DOMAIN fs) \in Nat
    BY <2>1, FS_CardinalityType
  <2> QED
    BY <1>1, <2>2, <2>3
<1>5. RetainSegments \in Nat \ {0}
  BY CaptureAssumption
<1>6. ASSUME NEW r, NEW p, r # By(s), Kept(fs, r, p) PROVE Kept(gs, r, p)
  <2>1. \A y : Covered(gs, r, y) <=> Covered(fs, r, y)
    BY <1>3, <1>6
  <2> QED
    BY <1>4, <1>5, <1>6, <2>1 DEF Kept
<1>7. ASSUME Kept(fs, By(s), From(s) - 1) PROVE Kept(gs, By(s), To(s))
  <2>1. ASSUME NEW y \in Nat, Covered(gs, By(s), y) PROVE y <= To(s)
    <3>1. Covered(fs, By(s), y) => y <= From(s) - 1
      BY <1>7 DEF Kept
    <3> QED
      BY <1>2, <1>3, <2>1, <3>1
  <2>2. ASSUME NEW y \in Nat, NEW z \in Nat, Covered(gs, By(s), y), y <= z, z <= To(s)
        PROVE  Covered(gs, By(s), z)
    <3>1. CASE z >= From(s)
      BY <1>3, <2>2, <3>1
    <3>2. CASE z < From(s)
      <4>1. z <= From(s) - 1 /\ Covered(fs, By(s), y)
        BY <1>2, <1>3, <2>2, <3>2
      <4>2. Covered(fs, By(s), z)
        BY <1>7, <2>2, <4>1 DEF Kept
      <4> QED
        BY <1>3, <4>2
    <3> QED
      BY <1>2, <3>1, <3>2
  <2>3. ASSUME ~Covered(gs, By(s), 1) PROVE Cardinality(DOMAIN gs) >= RetainSegments
    <3>1. From(s) - 1 > 0 /\ ~Covered(fs, By(s), 1)
      BY <1>2, <1>3, <2>3
    <3>2. Cardinality(DOMAIN fs) >= RetainSegments
      BY <1>7, <3>1 DEF Kept
    <3> QED
      BY <1>4, <1>5, <3>2
  <2> QED
    BY <2>1, <2>2, <2>3 DEF Kept
<1> QED
  BY <1>0, <1>6, <1>7

LEMMA HasLeast ==
  ASSUME NEW S \in SUBSET Nat, S # {}
  PROVE  \E x \in S : \A y \in S : x <= y
<1>1. PICK R : R = OpToRel(<, Nat)
  OBVIOUS
<1>2. \A x, y \in Nat : x < y => <<x, y>> \in R
  BY <1>1 DEF OpToRel
<1>3. IsWellFoundedOn(R, Nat)
  BY <1>1, NatLessThanWellFounded
<1>4. PICK u \in S : \A v \in S : ~(<<v, u>> \in R)
  BY <1>3, WFMin
<1>5. ASSUME NEW v \in S PROVE u <= v
  <2>1. u \in Nat /\ v \in Nat /\ ~(<<v, u>> \in R)
    BY <1>4
  <2>2. ~(v < u)
    BY <1>2, <2>1
  <2> QED
    BY <2>1, <2>2
<1> QED
  BY <1>5

LEMMA HasGreatest ==
  ASSUME NEW S \in SUBSET Nat, S # {}, NEW b \in Nat, \A x \in S : x <= b
  PROVE  \E x \in S : \A y \in S : y <= x
<1>1. PICK u \in Nat : (\A x \in S : x <= u) /\ \A v \in Nat : (\A x \in S : x <= v) => u <= v
  <2>1. PICK B : B = {v \in Nat : \A x \in S : x <= v}
    OBVIOUS
  <2>2. B \in SUBSET Nat /\ B # {}
    BY <2>1
  <2>3. PICK u \in B : \A v \in B : u <= v
    BY <2>2, HasLeast
  <2>4. u \in Nat /\ (\A x \in S : x <= u) /\ \A v \in Nat : (\A x \in S : x <= v) => v \in B
    BY <2>1, <2>2, <2>3
  <2> QED
    BY <2>3, <2>4
<1>2. CASE u \in S
  BY <1>1, <1>2
<1>3. CASE u \notin S
  <2>1. \A x \in S : x \in Nat /\ x < u
    BY <1>1, <1>3
  <2>2. u - 1 \in Nat /\ \A x \in S : x <= u - 1
    <3>1. PICK y \in S : y \in Nat /\ y < u
      BY <2>1
    <3>2. u - 1 \in Nat
      BY <3>1
    <3> QED
      BY <2>1, <3>2
  <2>3. u <= u - 1
    BY <1>1, <2>2
  <2> QED
    BY <2>3
<1> QED
  BY <1>2, <1>3

\* The files that stay, of those of fs.
Younger(fs, n) == {m \in DOMAIN fs : m > n}
Staying(fs, k) == {n \in DOMAIN fs : Cardinality(Younger(fs, n)) < k}

\* Who stays keeps the younger ones, and if anybody goes, k stay.
LEMMA StayingAreNewest ==
  ASSUME NEW fs, Shelf(fs), NEW k \in Nat \ {0}
  PROVE  /\ \A n \in Staying(fs, k), m \in DOMAIN fs : n < m => m \in Staying(fs, k)
         /\ \A n : IsTop(fs, n) => n \in Staying(fs, k)
         /\ IsFiniteSet(Staying(fs, k))
         /\ Staying(fs, k) # DOMAIN fs => Cardinality(Staying(fs, k)) >= k
<1>1. DOMAIN fs \subseteq Nat /\ IsFiniteSet(DOMAIN fs)
  BY DEF Shelf
<1>2. ASSUME NEW n PROVE /\ IsFiniteSet(Younger(fs, n)) /\ Cardinality(Younger(fs, n)) \in Nat
  <2>1. Younger(fs, n) \in SUBSET DOMAIN fs
    BY DEF Younger
  <2> QED
    BY <1>1, <2>1, FS_Subset, FS_CardinalityType
<1>3. ASSUME NEW n \in Staying(fs, k), NEW m \in DOMAIN fs, n < m PROVE m \in Staying(fs, k)
  <2>1. Younger(fs, m) \in SUBSET Younger(fs, n)
    BY <1>1, <1>3 DEF Younger, Staying
  <2>2. Cardinality(Younger(fs, m)) <= Cardinality(Younger(fs, n))
    BY <1>2, <2>1, FS_Subset
  <2>3. Cardinality(Younger(fs, n)) < k
    BY <1>3 DEF Staying
  <2>4. Cardinality(Younger(fs, m)) < k
    BY <1>2, <2>2, <2>3
  <2> QED
    BY <2>4 DEF Staying
<1>4. ASSUME NEW n, IsTop(fs, n) PROVE n \in Staying(fs, k)
  <2>1. Younger(fs, n) = {} /\ n \in DOMAIN fs
    BY <1>1, <1>4 DEF Younger, IsTop
  <2> QED
    BY <2>1, FS_EmptySet DEF Staying
<1>5. IsFiniteSet(Staying(fs, k))
  <2>1. Staying(fs, k) \in SUBSET DOMAIN fs
    BY DEF Staying
  <2> QED
    BY <1>1, <2>1, FS_Subset
<1>6. ASSUME Staying(fs, k) # DOMAIN fs PROVE Cardinality(Staying(fs, k)) >= k
  <2>1. PICK gone : gone = DOMAIN fs \ Staying(fs, k)
    OBVIOUS
  <2>2. gone \in SUBSET Nat /\ gone # {}
    BY <1>1, <1>6, <2>1 DEF Staying
  <2>3. PICK t \in DOMAIN fs : IsTop(fs, t)
    BY <2>1, <2>2 DEF Shelf
  <2>4. t \in Nat /\ \A x \in gone : x <= t
    BY <1>1, <2>1, <2>3 DEF IsTop
  <2>5. PICK x \in gone : \A y \in gone : y <= x
    BY <2>2, <2>4, HasGreatest
  <2>6. Younger(fs, x) \in SUBSET Staying(fs, k)
    BY <1>1, <2>1, <2>5 DEF Younger
  <2>7. Cardinality(Younger(fs, x)) <= Cardinality(Staying(fs, k))
    BY <1>5, <2>6, FS_Subset
  <2>8. ~(Cardinality(Younger(fs, x)) < k)
    BY <2>1, <2>5 DEF Staying
  <2>9. Cardinality(Staying(fs, k)) \in Nat
    BY <1>5, FS_CardinalityType
  <2> QED
    BY <1>2, <2>7, <2>8, <2>9
<1> QED
  BY <1>3, <1>4, <1>5, <1>6

LEMMA TrimKeeps ==
  ASSUME NEW fs, Shelf(fs), NEW k \in Nat, k >= RetainSegments,
         NEW gs, gs = [n \in Staying(fs, k) |-> fs[n]]
  PROVE  /\ Shelf(gs) /\ DOMAIN gs \subseteq DOMAIN fs /\ \A n \in DOMAIN gs : gs[n] = fs[n]
         /\ \A r, y : Follows(fs, r, y) => Follows(gs, r, y)
         /\ \A r, p : Kept(fs, r, p) => Kept(gs, r, p)
<1>1. RetainSegments \in Nat \ {0} /\ k \in Nat \ {0}
  BY CaptureAssumption
<1>2. /\ DOMAIN gs = Staying(fs, k) /\ DOMAIN gs \subseteq DOMAIN fs
      /\ \A n \in DOMAIN gs : gs[n] = fs[n]
  BY DEF Staying
<1>3. \A n \in DOMAIN fs : n \in Nat \ {0}
  BY DEF Shelf
<1>4. /\ \A n \in DOMAIN gs, m \in DOMAIN fs : n < m => m \in DOMAIN gs
      /\ \A n : IsTop(fs, n) => n \in DOMAIN gs
      /\ IsFiniteSet(DOMAIN gs)
      /\ DOMAIN gs # DOMAIN fs => Cardinality(DOMAIN gs) >= k
  BY <1>1, <1>2, StayingAreNewest
<1>5. DOMAIN fs # {} => \E n \in DOMAIN gs : IsTop(fs, n)
  BY <1>4 DEF Shelf
<1>6. \A n : IsTop(gs, n) <=> IsTop(fs, n)
  <2>1. ASSUME NEW n, IsTop(fs, n) PROVE IsTop(gs, n)
    BY <1>2, <1>4, <2>1 DEF IsTop
  <2>2. ASSUME NEW n, IsTop(gs, n) PROVE IsTop(fs, n)
    <3>1. PICK t \in DOMAIN gs : IsTop(fs, t)
      BY <1>2, <1>5, <2>2 DEF IsTop
    <3>2. t <= n /\ n <= t /\ t \in Nat /\ n \in Nat
      BY <1>2, <1>3, <2>2, <3>1 DEF IsTop
    <3>3. t = n
      BY <3>2
    <3> QED
      BY <3>1, <3>3
  <2> QED
    BY <2>1, <2>2
<1>7. ASSUME NEW m \in DOMAIN gs, NEW n \in DOMAIN gs, Adjacent(gs, m, n) PROVE Adjacent(fs, m, n)
  <2>1. ASSUME NEW j \in DOMAIN fs PROVE j <= m \/ n <= j
    <3>1. CASE j \in DOMAIN gs
      BY <1>7, <3>1 DEF Adjacent
    <3>2. CASE j \notin DOMAIN gs
      <4>1. ~(m < j)
        BY <1>4, <3>2
      <4> QED
        BY <1>2, <1>3, <4>1
    <3> QED
      BY <3>1, <3>2
  <2> QED
    BY <1>7, <2>1 DEF Adjacent
<1>8. Shelf(gs)
  <2>1. IsFiniteSet(DOMAIN gs) /\ DOMAIN gs \subseteq Nat \ {0}
    BY <1>2, <1>3, <1>4
  <2>2. DOMAIN gs # {} => \E n \in DOMAIN gs : IsTop(gs, n)
    BY <1>2, <1>5, <1>6
  <2>3. \A n \in DOMAIN gs : Strip(gs[n])
    BY <1>2 DEF Shelf
  <2>4. \A m, n \in DOMAIN gs : m < n => Below(gs[m], gs[n])
    BY <1>2 DEF Shelf
  <2>5. \A m, n \in DOMAIN gs : Adjacent(gs, m, n) => Continues(gs[m], gs[n])
    BY <1>2, <1>7 DEF Shelf
  <2> QED
    BY <2>1, <2>2, <2>3, <2>4, <2>5 DEF Shelf
<1>9. ASSUME NEW r, NEW y, Follows(fs, r, y) PROVE Follows(gs, r, y)
  <2>1. DOMAIN gs = {} => DOMAIN fs = {}
    BY <1>5
  <2> QED
    BY <1>2, <1>6, <1>9, <2>1 DEF Follows
<1>10. \A r, y : Covered(gs, r, y) => Covered(fs, r, y)
  BY <1>2 DEF Covered
<1>11. ASSUME NEW r, NEW p, Kept(fs, r, p) PROVE Kept(gs, r, p)
  <2>1. ASSUME NEW y \in Nat, NEW z \in Nat, Covered(gs, r, y), y <= z, z <= p
        PROVE  Covered(gs, r, z)
    <3>1. PICK n \in DOMAIN gs : By(gs[n]) = r /\ From(gs[n]) <= y
      BY <2>1 DEF Covered
    <3>2. PICK m \in DOMAIN fs : By(fs[m]) = r /\ From(fs[m]) <= z /\ z <= To(fs[m])
      <4>1. Covered(fs, r, z)
        BY <1>10, <1>11, <2>1 DEF Kept
      <4> QED
        BY <4>1 DEF Covered
    <3>3. CASE m \in DOMAIN gs
      BY <1>2, <3>2, <3>3 DEF Covered
    <3>4. CASE m \notin DOMAIN gs
      <4>1. m < n /\ n \in DOMAIN fs
        BY <1>2, <1>3, <1>4, <3>4
      <4>2. Below(fs[m], fs[n]) /\ By(fs[n]) = r /\ From(fs[n]) <= y
        BY <1>2, <3>1, <4>1 DEF Shelf
      <4>3. r \in Nat /\ To(fs[m]) \in Nat /\ From(fs[n]) \in Nat
        BY <3>2, <4>1, ShelfStrips
      <4>4. To(fs[m]) < From(fs[n])
        BY <3>2, <4>2, <4>3 DEF Below
      <4> QED
        BY <2>1, <3>2, <4>2, <4>3, <4>4
    <3> QED
      BY <3>3, <3>4
  <2>2. ASSUME p > 0, ~Covered(gs, r, 1) PROVE Cardinality(DOMAIN gs) >= RetainSegments
    <3>1. CASE DOMAIN gs = DOMAIN fs
      <4>1. ~Covered(fs, r, 1)
        BY <1>2, <2>2, <3>1 DEF Covered
      <4> QED
        BY <1>11, <2>2, <3>1, <4>1 DEF Kept
    <3>2. CASE DOMAIN gs # DOMAIN fs
      <4>1. Cardinality(DOMAIN gs) >= k /\ Cardinality(DOMAIN gs) \in Nat
        BY <1>4, <3>2, FS_CardinalityType
      <4> QED
        BY <1>1, <4>1
    <3> QED
      BY <3>1, <3>2
  <2>3. \A y \in Nat : Covered(gs, r, y) => y <= p
    BY <1>10, <1>11 DEF Kept
  <2> QED
    BY <2>1, <2>2, <2>3 DEF Kept
<1> QED
  BY <1>2, <1>8, <1>9, <1>11

-----------------------------------------------------------------------------
(***************************************************************************)
(* Where the frames of a recorder are.  The last ones it has accepted are  *)
(* in the queue; unless it has failed, the one before them is held or in   *)
(* the temporary file, that file goes on where the shelf ends, and all     *)
(* before it has been published.                                           *)
(***************************************************************************)
Taken(r) == accepted[r] - Len(queue[r])
Written(r) == IF held[r] = NoFrame THEN Taken(r) ELSE Taken(r) - 1
Published(r) == Written(r) - Len(temp[r])

\* What a stage of the goroutine tells.
PlaceInv(r) ==
  /\ run[r] \in {"none", "idle", "unlock", "done", "crashed"} => held[r] = NoFrame
  /\ run[r] \in {"rotate", "open", "write"} => held[r] # NoFrame
  /\ run[r] \in {"rotate", "open", "write", "retain"} => r \notin err
  /\ run[r] \notin {"idle", "rotate", "write"} => temp[r] = <<>>
  /\ run[r] = "rotate" => temp[r] # <<>>
  /\ run[r] = "write" => Len(temp[r]) < SegmentMax
  /\ run[r] \in {"unlock", "done"} \/ (run[r] = "retain" /\ held[r] = NoFrame) =>
       r \in closing /\ queue[r] = <<>>
  /\ run[r] = "none" => accepted[r] = 0 /\ queue[r] = <<>> /\ r \notin err /\ r \notin closing
  /\ \A w \in Writers : writer[w] = r => run[r] \in Stages
  /\ closer[r] = "ok" => run[r] = "done" /\ r \notin err

\* q holds the last of a frames of r.
LastOf(q, r, a) == Len(q) <= a /\ \A i \in 1..Len(q) : q[i] = <<r, a - Len(q) + i>>

Sound(r) == r \notin err /\ run[r] \in Stages \cup {"done"}

CountInv(r) ==
  Sound(r) => /\ Published(r) \in Nat
              /\ held[r] # NoFrame => held[r] = <<r, Taken(r)>>
              /\ temp[r] # <<>> => From(temp[r]) = Published(r) + 1
              /\ Kept(files, r, Published(r))
              /\ run[r] \in Stages => Follows(files, r, Published(r) + 1)

TempInv(r) ==
  temp[r] # <<>> => Strip(temp[r]) /\ By(temp[r]) = r /\ Follows(files, r, From(temp[r]))

IndexInv(r) ==
  run[r] \in Stages => /\ \A n \in Numbers : n <= index[r]
                       /\ temp[r] # <<>> \/ run[r] = "write" => index[r] \notin Numbers \cup {0}

Recorder(r) ==
  PlaceInv(r) /\ LastOf(queue[r], r, accepted[r]) /\ CountInv(r) /\ TempInv(r) /\ IndexInv(r)

\* Recorders start in their order, and only who has started has files.
StartInv ==
  /\ \A n \in Numbers : run[By(files[n])] # "none"
  /\ \A q, r \in Recorders : run[r] # "none" /\ q < r => run[q] # "none"

TapeInv == TypeOK /\ Shelf(files) /\ StartInv /\ \A r \in Recorders : Recorder(r)

CapInv == LockInv /\ QueueInv /\ TapeInv

\* A recorder that nobody touches, and if it is at work, whose files nobody touches.
LEMMA RecorderStays ==
  ASSUME CapInv, NEW q \in Recorders,
         run'[q] = run[q], held'[q] = held[q], queue'[q] = queue[q], temp'[q] = temp[q],
         accepted'[q] = accepted[q], closer'[q] = closer[q],
         q \in closing' <=> q \in closing, q \in err' <=> q \in err,
         \A w \in Writers : writer'[w] = q => writer[w] = q,
         \/ files' = files /\ index'[q] = index[q]
         \/ q \notin Alive /\ \A p : Kept(files, q, p) => Kept(files', q, p)
  PROVE  Recorder(q)'
<1>1. Recorder(q)
  BY DEF CapInv, TapeInv
<1>2. PlaceInv(q)' /\ LastOf(queue'[q], q, accepted'[q])
  BY <1>1 DEF Recorder, PlaceInv
<1>3. Published(q)' = Published(q) /\ Taken(q)' = Taken(q) /\ (Sound(q)' <=> Sound(q))
  BY DEF Published, Written, Taken, Sound
<1>4. CASE files' = files /\ index'[q] = index[q]
  <2>1. CountInv(q)'
    BY <1>1, <1>3, <1>4 DEF Recorder, CountInv
  <2>2. TempInv(q)' /\ IndexInv(q)'
    BY <1>1, <1>4 DEF Recorder, TempInv, IndexInv, Numbers
  <2> QED
    BY <1>2, <2>1, <2>2 DEF Recorder
<1>5. CASE q \notin Alive /\ \A p : Kept(files, q, p) => Kept(files', q, p)
  <2>1. run[q] \notin Stages /\ temp[q] = <<>>
    BY <1>1, <1>5 DEF Alive, Recorder, PlaceInv, Stages
  <2>2. CountInv(q)'
    BY <1>1, <1>3, <1>5, <2>1 DEF Recorder, CountInv
  <2>3. TempInv(q)' /\ IndexInv(q)'
    BY <2>1 DEF TempInv, IndexInv
  <2> QED
    BY <1>2, <2>2, <2>3 DEF Recorder
<1> QED
  BY <1>4, <1>5

-----------------------------------------------------------------------------
(* The goroutine of a recorder.                                            *)

\* What a step of r's goroutine leaves behind.
Moves(r, s, h, q, t, i) ==
  /\ run' = [run EXCEPT ![r] = s] /\ held' = [held EXCEPT ![r] = h]
  /\ queue' = [queue EXCEPT ![r] = q] /\ temp' = [temp EXCEPT ![r] = t]
  /\ index' = [index EXCEPT ![r] = i]
  /\ err' = err \/ err' = err \cup {r}
  /\ lock' \in BOOLEAN
  /\ UNCHANGED <<callVars, crashes>>

LEMMA Moved ==
  ASSUME TypeOK, NEW r \in Recorders, NEW s, NEW h, NEW q, NEW t, NEW i, Moves(r, s, h, q, t, i)
  PROVE  /\ run'[r] = s /\ held'[r] = h /\ queue'[r] = q /\ temp'[r] = t /\ index'[r] = i
         /\ accepted'[r] = accepted[r] /\ closing' = closing /\ closer' = closer /\ writer' = writer
         /\ r \in err => r \in err'
  BY DEF TypeOK, Moves, callVars

LEMMA StepKeeps ==
  ASSUME CapInv, NEW r \in Recorders, r \in Alive,
         NEW s \in Stages \cup {"done"}, NEW h \in Frames \cup {NoFrame},
         NEW q \in Seq(Frames), Len(q) <= QueueDepth, NEW t \in Seq(Frames), Len(t) <= SegmentMax,
         NEW i \in Nat, Moves(r, s, h, q, t, i), Shelf(files'),
         \A n \in DOMAIN files' : \/ n \in Numbers /\ files'[n] = files[n]
                                  \/ /\ By(files'[n]) = r /\ n \in Nat \ {0}
                                     /\ files'[n] \in Seq(Frames)
                                     /\ Len(files'[n]) \in 1..SegmentMax,
         \A x, p : x # r /\ Kept(files, x, p) => Kept(files', x, p),
         Recorder(r)'
  PROVE  TapeInv'
<1>1. TypeOK /\ StartInv /\ LockInv
  BY DEF CapInv, TapeInv
<1>2. TypeOK'
  <2>1. /\ run' \in [Recorders -> Stages \cup {"none", "done", "crashed"}]
        /\ held' \in [Recorders -> Frames \cup {NoFrame}]
        /\ {queue', temp'} \subseteq [Recorders -> Seq(Frames)]
        /\ {index', accepted'} \subseteq [Recorders -> Nat]
    BY <1>1 DEF TypeOK, Moves, callVars
  <2>2. \A x \in Recorders : Len(queue'[x]) <= QueueDepth /\ Len(temp'[x]) <= SegmentMax
    BY <1>1 DEF TypeOK, Moves
  <2>3. \A n \in DOMAIN files' :
          n \in Nat \ {0} /\ files'[n] \in Seq(Frames) /\ Len(files'[n]) \in 1..SegmentMax
    BY <1>1 DEF TypeOK, Numbers
  <2>4. closing' \subseteq Recorders /\ err' \subseteq Recorders /\ lock' \in BOOLEAN
    BY <1>1 DEF TypeOK, Moves, callVars
  <2>5. /\ writer' \in [Writers -> Recorders \cup {NoRecorder}]
        /\ closer' \in [Recorders -> {"none", "waiting", "ok", "failed", "timeout", "crashed"}]
        /\ crashes' \in 0..MaxCrashes
    BY <1>1 DEF TypeOK, Moves, callVars
  <2> QED
    BY <2>1, <2>2, <2>3, <2>4, <2>5 DEF TypeOK, Numbers
<1>3. ASSUME NEW x \in Recorders, x # r PROVE Recorder(x)'
  <2>1. x \notin Alive
    BY <1>1, <1>3 DEF LockInv, OneWriter
  <2>2. /\ run'[x] = run[x] /\ held'[x] = held[x] /\ queue'[x] = queue[x] /\ temp'[x] = temp[x]
        /\ accepted'[x] = accepted[x] /\ closer'[x] = closer[x]
        /\ (x \in closing' <=> x \in closing) /\ (x \in err' <=> x \in err) /\ writer' = writer
    BY <1>1, <1>3 DEF TypeOK, Moves, callVars
  <2> QED
    BY <1>3, <2>1, <2>2, RecorderStays
<1>4. /\ \A x \in Recorders : run'[x] # "none" <=> run[x] # "none"
      /\ run'[r] # "none"
  BY <1>1 DEF TypeOK, Moves, Alive, Stages
<1>5. StartInv'
  <2>1. ASSUME NEW n \in DOMAIN files' PROVE run'[By(files'[n])] # "none"
    <3>1. CASE By(files'[n]) = r
      BY <1>4, <3>1
    <3>2. CASE n \in Numbers /\ files'[n] = files[n]
      <4>1. run[By(files[n])] # "none" /\ By(files[n]) \in Recorders
        BY <1>1, <3>2, StripEnds DEF StartInv, CapInv, TapeInv, Shelf, Numbers
      <4> QED
        BY <1>4, <3>2, <4>1
    <3> QED
      BY <3>1, <3>2
  <2>2. \A x, y \in Recorders : run'[y] # "none" /\ x < y => run'[x] # "none"
    BY <1>1, <1>4 DEF StartInv
  <2> QED
    BY <2>1, <2>2 DEF StartInv, Numbers
<1> QED
  BY <1>2, <1>3, <1>5 DEF TapeInv

\* A step that leaves the files alone.
LEMMA StepKeepsFiles ==
  ASSUME CapInv, NEW r \in Recorders, r \in Alive,
         NEW s \in Stages \cup {"done"}, NEW h \in Frames \cup {NoFrame},
         NEW q \in Seq(Frames), Len(q) <= QueueDepth, NEW t \in Seq(Frames), Len(t) <= SegmentMax,
         NEW i \in Nat, Moves(r, s, h, q, t, i), files' = files, Recorder(r)'
  PROVE  TapeInv'
<1>1. Shelf(files') /\ \A n \in DOMAIN files' : n \in Numbers /\ files'[n] = files[n]
  BY DEF CapInv, TapeInv, Numbers
<1>2. \A x, p : x # r /\ Kept(files, x, p) => Kept(files', x, p)
  OBVIOUS
<1> QED
  BY <1>1, <1>2, StepKeeps

\* What is known of a recorder.
Known(r) ==
  /\ Recorder(r) /\ TypeOK /\ Shelf(files)
  /\ held[r] \in Frames \cup {NoFrame} /\ NoFrame \notin Frames
  /\ queue[r] \in Seq(Frames) /\ Len(queue[r]) \in Nat /\ Len(queue[r]) <= QueueDepth
  /\ temp[r] \in Seq(Frames) /\ Len(temp[r]) \in Nat /\ Len(temp[r]) <= SegmentMax
  /\ index[r] \in Nat /\ accepted[r] \in Nat /\ lock \in BOOLEAN
  /\ run[r] \in Stages \cup {"none", "done", "crashed"}
  /\ QueueDepth \in Nat /\ SegmentMax \in Nat \ {0}
  /\ run[r] \in Stages => r \in Alive

LEMMA AtWork == ASSUME CapInv, NEW r \in Recorders PROVE Known(r)
<1>1. /\ queue \in [Recorders -> Seq(Frames)] /\ temp \in [Recorders -> Seq(Frames)]
      /\ index \in [Recorders -> Nat] /\ accepted \in [Recorders -> Nat]
  BY DEF CapInv, TapeInv, TypeOK
<1>2. Recorder(r) /\ TypeOK /\ Shelf(files)
  BY DEF CapInv, TapeInv
<1>3. NoFrame \notin Frames
  BY CaptureAssumption DEF Frames
<1>4. queue[r] \in Seq(Frames) /\ temp[r] \in Seq(Frames)
  BY <1>1
<1>5. Len(queue[r]) \in Nat /\ Len(temp[r]) \in Nat
  BY <1>4
<1>6. /\ held[r] \in Frames \cup {NoFrame} /\ run[r] \in Stages \cup {"none", "done", "crashed"}
      /\ lock \in BOOLEAN /\ Len(queue[r]) <= QueueDepth /\ Len(temp[r]) <= SegmentMax
  BY <1>2 DEF TypeOK
<1>7. run[r] \in Stages => r \in Alive
  BY DEF Alive
<1> QED
  BY <1>1, <1>2, <1>3, <1>4, <1>5, <1>6, <1>7, CaptureAssumption DEF Known

\* The first of a queue goes.
LEMMA TailOfQueue ==
  ASSUME NEW q \in Seq(Frames), q # <<>>, NEW r, NEW a \in Nat, LastOf(q, r, a)
  PROVE  /\ Tail(q) \in Seq(Frames) /\ Len(Tail(q)) = Len(q) - 1 /\ Head(q) \in Frames
         /\ Head(q) = <<r, a - Len(Tail(q))>> /\ LastOf(Tail(q), r, a)
<1>1. /\ Tail(q) \in Seq(Frames) /\ Len(Tail(q)) = Len(q) - 1 /\ Head(q) \in Frames
      /\ \A j \in 1..Len(Tail(q)) : Tail(q)[j] = q[j + 1]
      /\ Len(q) \in Nat \ {0} /\ Head(q) = q[1]
  BY HeadTailProperties, EmptySeq
<1>2. Head(q) = <<r, a - Len(Tail(q))>>
  <2>1. q[1] = <<r, a - Len(q) + 1>> /\ a - Len(q) + 1 = a - Len(Tail(q))
    BY <1>1 DEF LastOf
  <2> QED
    BY <1>1, <2>1
<1>3. ASSUME NEW j \in 1..Len(Tail(q)) PROVE Tail(q)[j] = <<r, a - Len(Tail(q)) + j>>
  <2>1. j + 1 \in 1..Len(q) /\ a - Len(q) + (j + 1) = a - Len(Tail(q)) + j
    BY <1>1
  <2>2. q[j + 1] = <<r, a - Len(q) + (j + 1)>>
    BY <2>1 DEF LastOf
  <2> QED
    BY <1>1, <2>1, <2>2
<1>4. Len(Tail(q)) <= a
  BY <1>1 DEF LastOf
<1> QED
  BY <1>1, <1>2, <1>3, <1>4 DEF LastOf

LEMMA TakeKeeps == ASSUME CapInv, NEW r \in Recorders, Take(r) PROVE TapeInv'
<1>1. Known(r)
  BY AtWork
<1>2. PICK q : q = Tail(queue[r])
  OBVIOUS
<1>3. run[r] = "idle" /\ queue[r] # <<>> /\ held[r] = NoFrame /\ r \in Alive
  BY <1>1 DEF Take, Known, Recorder, PlaceInv, Alive, Stages
<1>4. /\ q \in Seq(Frames) /\ Len(q) = Len(queue[r]) - 1 /\ Head(queue[r]) \in Frames
      /\ Head(queue[r]) = <<r, accepted[r] - Len(q)>> /\ LastOf(q, r, accepted[r])
  BY <1>1, <1>2, <1>3, TailOfQueue DEF Known, Recorder
<1>5. Len(q) \in Nat /\ Len(q) <= QueueDepth
  BY <1>1, <1>4 DEF Known
<1>6. CASE r \in err
  <2>1. Moves(r, "idle", NoFrame, q, temp[r], index[r]) /\ files' = files
    BY <1>1, <1>2, <1>3, <1>6 DEF Known, Take, Moves, TypeOK, RunKept, diskVars
  <2>2. /\ run'[r] = "idle" /\ held'[r] = NoFrame /\ queue'[r] = q /\ temp'[r] = temp[r]
        /\ index'[r] = index[r] /\ accepted'[r] = accepted[r] /\ closing' = closing
        /\ closer' = closer /\ writer' = writer /\ r \in err'
    BY <1>1, <1>6, <2>1, Moved DEF Known
  <2>3. PlaceInv(r)'
    BY <1>1, <1>3, <2>2 DEF Known, Recorder, PlaceInv, Stages
  <2>4. CountInv(r)'
    BY <2>2 DEF CountInv, Sound
  <2>5. TempInv(r)' /\ IndexInv(r)'
    BY <1>1, <1>3, <2>1, <2>2 DEF Known, TempInv, IndexInv, Recorder, Numbers, Stages
  <2>6. Recorder(r)'
    BY <1>4, <2>2, <2>3, <2>4, <2>5 DEF Recorder
  <2>7. "idle" \in Stages
    BY DEF Stages
  <2> QED
    BY <1>1, <1>3, <1>4, <1>5, <2>1, <2>6, <2>7, StepKeepsFiles DEF Known
<1>7. CASE r \notin err
  <2>1. PICK s : s = Destination(r)
    OBVIOUS
  <2>2. PICK h \in Frames : h = Head(queue[r])
    BY <1>4
  <2>3. Moves(r, s, h, q, temp[r], index[r]) /\ files' = files /\ err' = err
    BY <1>1, <1>2, <1>3, <1>7, <2>1, <2>2
    DEF Known, Take, Go, Moves, TypeOK, RunKept, diskVars
  <2>4. /\ run'[r] = s /\ held'[r] = h /\ queue'[r] = q /\ temp'[r] = temp[r]
        /\ index'[r] = index[r] /\ accepted'[r] = accepted[r] /\ closing' = closing
        /\ closer' = closer /\ writer' = writer
    BY <1>1, <2>3, Moved DEF Known
  <2>5. /\ s \in {"open", "rotate", "write"}
        /\ s = "open" => temp[r] = <<>>
        /\ s \in {"rotate", "write"} => temp[r] # <<>>
        /\ s = "write" => Len(temp[r]) < SegmentMax
    BY <1>1, <2>1 DEF Known, Destination
  <2>6. h # NoFrame
    BY <1>1 DEF Known
  <2>7. PlaceInv(r)'
    BY <1>1, <1>3, <1>7, <2>3, <2>4, <2>5, <2>6 DEF Known, Recorder, PlaceInv, Stages
  <2>8. /\ Taken(r)' = accepted[r] - Len(q) /\ Published(r)' = Published(r)
        /\ Sound(r) /\ run[r] \in Stages
    <3>1. Taken(r)' = accepted[r] - Len(q) /\ Taken(r) = accepted[r] - Len(queue[r])
      BY <2>4 DEF Taken
    <3>2. Taken(r)' = Taken(r) + 1 /\ Taken(r) \in Int
      BY <1>1, <1>4, <1>5, <3>1 DEF Known
    <3>3. Written(r)' = Taken(r)' - 1 /\ Written(r) = Taken(r)
      BY <1>3, <2>4, <2>6 DEF Written
    <3>4. Written(r)' = Written(r)
      BY <3>2, <3>3
    <3>5. Published(r)' = Published(r)
      BY <2>4, <3>4 DEF Published
    <3>6. Sound(r) /\ run[r] \in Stages
      BY <1>3, <1>7 DEF Sound, Stages
    <3> QED
      BY <3>1, <3>5, <3>6
  <2>9. CountInv(r)'
    BY <1>1, <1>4, <2>2, <2>3, <2>4, <2>8 DEF Known, Recorder, CountInv
  <2>10. TempInv(r)' /\ IndexInv(r)'
    BY <1>1, <1>3, <2>3, <2>4, <2>5 DEF Known, TempInv, IndexInv, Recorder, Numbers, Stages
  <2>11. Recorder(r)'
    BY <1>4, <2>4, <2>7, <2>9, <2>10 DEF Recorder
  <2>12. s \in Stages
    BY <2>5 DEF Stages
  <2> QED
    BY <1>1, <1>3, <1>4, <1>5, <2>3, <2>11, <2>12, StepKeepsFiles DEF Known
<1> QED
  BY <1>6, <1>7

\* A recorder that fails keeps at most its temporary file.
LEMMA Failed ==
  ASSUME CapInv, NEW r \in Recorders, r \in Alive, NEW s \in {"idle", "unlock", "done"},
         NEW t \in {temp[r], <<>>}, NEW i \in Nat, Moves(r, s, NoFrame, queue[r], t, i), r \in err',
         s # "idle" => r \in closing /\ queue[r] = <<>> /\ t = <<>>,
         DOMAIN files' \subseteq Numbers, \A n \in Numbers : n <= i,
         t # <<>> => i \notin Numbers \cup {0},
         \A y : Follows(files, r, y) => Follows(files', r, y)
  PROVE  Recorder(r)'
<1>1. Known(r)
  BY AtWork
<1>2. /\ run'[r] = s /\ held'[r] = NoFrame /\ queue'[r] = queue[r] /\ temp'[r] = t
      /\ index'[r] = i /\ accepted'[r] = accepted[r] /\ closing' = closing
      /\ closer' = closer /\ writer' = writer
  BY <1>1, Moved DEF Known
<1>3. \A w \in Writers : writer[w] = r => r \notin closing
  BY DEF CapInv, QueueInv, NoSendOnClosed
<1>4. run[r] \in Stages /\ closer[r] # "ok"
  BY <1>1 DEF Alive, Known, Recorder, PlaceInv, Stages
<1>5. PlaceInv(r)'
  BY <1>2, <1>3, <1>4 DEF PlaceInv, Stages
<1>6. CountInv(r)'
  BY DEF CountInv, Sound
<1>7. TempInv(r)'
  BY <1>1, <1>2 DEF Known, Recorder, TempInv
<1>8. IndexInv(r)'
  BY <1>2 DEF IndexInv, Numbers
<1> QED
  BY <1>1, <1>2, <1>5, <1>6, <1>7, <1>8 DEF Known, Recorder

LEMMA StepFailsKeeps == ASSUME CapInv, NEW r \in Recorders, StepFails(r) PROVE TapeInv'
<1>1. Known(r)
  BY AtWork
<1>2. PICK i \in {index[r], index[r] + 1} :
        index' = [index EXCEPT ![r] = i] /\ (i # index[r] => run[r] = "open")
  <2>1. index \in [Recorders -> Nat]
    BY <1>1 DEF Known, TypeOK
  <2> QED
    BY <2>1 DEF StepFails
<1>3. Moves(r, "idle", NoFrame, queue[r], temp[r], i) /\ files' = files /\ r \in err'
  BY <1>1, <1>2 DEF Known, StepFails, Go, Fail, Moves, TypeOK, RunKept, diskVars
<1>4. r \in Alive /\ run[r] \in Stages /\ i \in Nat
  BY <1>1, <1>2 DEF StepFails, Known, Alive, Stages
<1>5. (\A n \in Numbers : n <= i) /\ (temp[r] # <<>> => i \notin Numbers \cup {0})
  <2>1. /\ \A n \in Numbers : n \in Nat /\ n <= index[r]
        /\ temp[r] # <<>> => index[r] \notin Numbers \cup {0}
    BY <1>1, <1>4 DEF Known, Recorder, IndexInv, TypeOK
  <2>2. i = index[r] \/ (i = index[r] + 1 /\ temp[r] = <<>>)
    BY <1>1, <1>2 DEF Known, Recorder, PlaceInv
  <2> QED
    BY <1>1, <2>1, <2>2 DEF Known
<1>6. Recorder(r)'
  BY <1>3, <1>4, <1>5, Failed DEF Numbers
<1>7. "idle" \in Stages
  BY DEF Stages
<1> QED
  BY <1>1, <1>3, <1>4, <1>6, <1>7, StepKeepsFiles DEF Known

LEMMA OpenKeeps == ASSUME CapInv, NEW r \in Recorders, Open(r) PROVE TapeInv'
<1>1. Known(r)
  BY AtWork
<1>2. /\ Moves(r, "write", held[r], queue[r], temp[r], index[r] + 1) /\ files' = files /\ err' = err
      /\ run[r] = "open"
  BY <1>1 DEF Known, Open, Go, Moves, TypeOK, RunKept, diskVars
<1>3. r \in Alive /\ run[r] \in Stages /\ "write" \in Stages /\ index[r] + 1 \in Nat
  BY <1>1, <1>2 DEF Known, Stages
<1>4. /\ run'[r] = "write" /\ held'[r] = held[r] /\ queue'[r] = queue[r] /\ temp'[r] = temp[r]
      /\ index'[r] = index[r] + 1 /\ accepted'[r] = accepted[r] /\ closing' = closing
      /\ closer' = closer /\ writer' = writer
  BY <1>1, <1>2, Moved DEF Known
<1>5. temp[r] = <<>> /\ Len(temp[r]) = 0
  BY <1>1, <1>2 DEF Known, Recorder, PlaceInv
<1>6. PlaceInv(r)'
  BY <1>1, <1>2, <1>4, <1>5 DEF Known, Recorder, PlaceInv, Stages
<1>7. Published(r)' = Published(r) /\ Taken(r)' = Taken(r) /\ (Sound(r)' <=> Sound(r))
  BY <1>2, <1>3, <1>4 DEF Published, Written, Taken, Sound
<1>8. CountInv(r)' /\ TempInv(r)'
  BY <1>1, <1>2, <1>3, <1>4, <1>7 DEF Known, Recorder, CountInv, TempInv
<1>9. \A n \in Numbers : n \in Nat /\ n <= index[r]
  BY <1>1, <1>3 DEF Known, Recorder, IndexInv, TypeOK
<1>10. IndexInv(r)'
  BY <1>1, <1>2, <1>4, <1>9 DEF Known, IndexInv, Numbers
<1>11. Recorder(r)'
  BY <1>1, <1>4, <1>6, <1>8, <1>10 DEF Known, Recorder
<1> QED
  BY <1>1, <1>2, <1>3, <1>11, StepKeepsFiles DEF Known

LEMMA WriteKeeps == ASSUME CapInv, NEW r \in Recorders, Write(r) PROVE TapeInv'
<1>1. Known(r)
  BY AtWork
<1>2. PICK t : t = Append(temp[r], held[r])
  OBVIOUS
<1>3. /\ Moves(r, "idle", NoFrame, queue[r], t, index[r]) /\ files' = files /\ err' = err
      /\ run[r] = "write"
  BY <1>1, <1>2 DEF Known, Write, Go, Moves, TypeOK, RunKept, diskVars
<1>4. r \in Alive /\ run[r] \in Stages /\ "idle" \in Stages
  BY <1>1, <1>3 DEF Known, Stages
<1>5. /\ run'[r] = "idle" /\ held'[r] = NoFrame /\ queue'[r] = queue[r] /\ temp'[r] = t
      /\ index'[r] = index[r] /\ accepted'[r] = accepted[r] /\ closing' = closing
      /\ closer' = closer /\ writer' = writer
  BY <1>1, <1>3, Moved DEF Known
<1>6. held[r] # NoFrame /\ r \notin err /\ Len(temp[r]) < SegmentMax /\ Sound(r)
  BY <1>1, <1>3, <1>4 DEF Known, Recorder, PlaceInv, Sound
<1>7. /\ t \in Seq(Frames) /\ Len(t) = Len(temp[r]) + 1 /\ t # <<>> /\ Len(t) <= SegmentMax
      /\ Len(t) \in Nat
  <2>1. t \in Seq(Frames) /\ Len(t) = Len(temp[r]) + 1
    BY <1>1, <1>2, <1>6, AppendProperties DEF Known
  <2> QED
    BY <1>1, <1>6, <2>1 DEF Known
<1>8. /\ Published(r) \in Nat /\ held[r] = <<r, Taken(r)>> /\ Taken(r) \in Int
      /\ temp[r] # <<>> => From(temp[r]) = Published(r) + 1
      /\ Follows(files, r, Published(r) + 1)
  BY <1>1, <1>4, <1>6 DEF Known, Recorder, CountInv, Taken
<1>9. Published(r) = Taken(r) - 1 - Len(temp[r])
  BY <1>6 DEF Published, Written
<1>10. Strip(t) /\ By(t) = r /\ From(t) = Published(r) + 1
  <2>1. CASE temp[r] = <<>>
    <3>1. Taken(r) = Published(r) + 1
      BY <1>8, <1>9, <2>1
    <3> QED
      BY <1>2, <1>8, <2>1, <3>1, StripBegins
  <2>2. CASE temp[r] # <<>>
    <3>1. Strip(temp[r]) /\ By(temp[r]) = r /\ From(temp[r]) = Published(r) + 1
      BY <1>1, <1>8, <2>2 DEF Known, Recorder, TempInv
    <3>2. Taken(r) = To(temp[r]) + 1
      <4>1. To(temp[r]) = Published(r) + 1 + Len(temp[r]) - 1 /\ Len(temp[r]) \in Nat
        BY <1>1, <3>1 DEF To, Known
      <4> QED
        BY <1>8, <1>9, <4>1
    <3> QED
      BY <1>2, <1>8, <3>1, <3>2, StripGrows
  <2> QED
    BY <2>1, <2>2
<1>11. PlaceInv(r)'
  BY <1>1, <1>3, <1>5 DEF Known, Recorder, PlaceInv, Stages
<1>12. Published(r)' = Published(r) /\ Taken(r)' = Taken(r) /\ (Sound(r)' <=> Sound(r))
  <2>1. Taken(r)' = Taken(r)
    BY <1>5 DEF Taken
  <2>2. Published(r)' = Taken(r) - Len(t)
    BY <1>5, <2>1 DEF Published, Written
  <2>3. Sound(r)' <=> Sound(r)
    BY <1>3, <1>4, <1>5 DEF Sound
  <2> QED
    BY <1>1, <1>7, <1>8, <1>9, <2>1, <2>2, <2>3 DEF Known
<1>13. CountInv(r)'
  BY <1>1, <1>3, <1>4, <1>5, <1>10, <1>12 DEF Known, Recorder, CountInv
<1>14. TempInv(r)'
  BY <1>3, <1>5, <1>8, <1>10 DEF TempInv
<1>15. IndexInv(r)'
  BY <1>1, <1>3, <1>4, <1>5 DEF Known, Recorder, IndexInv, Numbers
<1>16. Recorder(r)'
  BY <1>1, <1>5, <1>11, <1>13, <1>14, <1>15 DEF Known, Recorder
<1> QED
  BY <1>1, <1>3, <1>4, <1>7, <1>16, StepKeepsFiles DEF Known

\* A full or last file goes onto the shelf.
LEMMA PublishKeeps ==
  ASSUME CapInv, NEW r \in Recorders, r \in Alive, temp[r] # <<>>, r \notin err,
         Moves(r, "retain", held[r], queue[r], <<>>, index[r]), err' = err,
         files' = [n \in Numbers \cup {index[r]} |-> IF n = index[r] THEN temp[r] ELSE files[n]],
         held[r] = NoFrame => r \in closing /\ queue[r] = <<>>
  PROVE  TapeInv'
<1>1. Known(r)
  BY AtWork
<1>2. PICK t : t = temp[r]
  OBVIOUS
<1>3. PICK i : i = index[r]
  OBVIOUS
<1>4. Strip(t) /\ By(t) = r /\ Follows(files, r, From(t)) /\ t \in Seq(Frames)
  BY <1>1, <1>2 DEF Known, Recorder, TempInv
<1>5. run[r] \in Stages /\ Sound(r) /\ "retain" \in Stages
  BY DEF Alive, Sound, Stages
<1>6. i \in Nat \ {0} /\ \A n \in DOMAIN files : n < i
  <2>1. \A n \in DOMAIN files : n \in Nat /\ n <= i /\ n # i
    BY <1>1, <1>3, <1>5 DEF Known, Recorder, IndexInv, TypeOK, Numbers
  <2>2. i \in Nat /\ i # 0
    BY <1>1, <1>3, <1>5 DEF Known, Recorder, IndexInv
  <2> QED
    BY <2>1, <2>2
<1>7. files' = Placed(files, i, t)
  BY <1>2, <1>3 DEF Numbers, Placed
<1>8. Shelf(files') /\ Follows(files', r, To(t) + 1) /\ IsTop(files', i)
  <2>1. Shelf(files) /\ Follows(files, By(t), From(t))
    BY <1>1, <1>4 DEF Known
  <2>2. /\ Shelf(Placed(files, i, t)) /\ Follows(Placed(files, i, t), By(t), To(t) + 1)
        /\ IsTop(Placed(files, i, t), i)
    BY <1>4, <1>6, <2>1, AddKeepsShelf
  <2> QED
    BY <1>4, <1>7, <2>2
<1>9. /\ \A x, p : x # r /\ Kept(files, x, p) => Kept(files', x, p)
      /\ Kept(files, r, From(t) - 1) => Kept(files', r, To(t))
  <2>1. Shelf(files) /\ Follows(files, By(t), From(t))
    BY <1>1, <1>4 DEF Known
  <2>2. /\ \A x, p : x # By(t) /\ Kept(files, x, p) => Kept(Placed(files, i, t), x, p)
        /\ Kept(files, By(t), From(t) - 1) => Kept(Placed(files, i, t), By(t), To(t))
    BY <1>4, <1>6, <2>1, AddKeeps
  <2> QED
    BY <1>4, <1>7, <2>2
<1>10. /\ Published(r) \in Nat /\ From(t) = Published(r) + 1 /\ Kept(files, r, Published(r))
       /\ held[r] # NoFrame => held[r] = <<r, Taken(r)>>
  BY <1>1, <1>2, <1>5 DEF Known, Recorder, CountInv
<1>11. /\ run'[r] = "retain" /\ held'[r] = held[r] /\ queue'[r] = queue[r] /\ temp'[r] = <<>>
       /\ index'[r] = i /\ accepted'[r] = accepted[r] /\ closing' = closing
       /\ closer' = closer /\ writer' = writer
  BY <1>1, <1>3, Moved DEF Known
<1>12. Taken(r)' = Taken(r) /\ Published(r)' = To(t)
  <2>1. Taken(r)' = Taken(r) /\ Written(r)' = Written(r)
    BY <1>11 DEF Taken, Written
  <2>2. Written(r) \in Int /\ Published(r) = Written(r) - Len(t) /\ Len(t) \in Nat
    BY <1>1, <1>2 DEF Known, Written, Taken, Published
  <2>3. Published(r)' = Written(r)
    BY <1>11, <2>1, <2>2, EmptySeq DEF Published
  <2>4. To(t) = Published(r) + 1 + Len(t) - 1
    BY <1>10 DEF To
  <2> QED
    BY <1>10, <2>1, <2>2, <2>3, <2>4
<1>13. PlaceInv(r)'
  BY <1>1, <1>5, <1>11 DEF Known, Recorder, PlaceInv, Stages
<1>14. CountInv(r)'
  <2>1. From(t) - 1 = Published(r) /\ To(t) \in Nat
    BY <1>4, <1>10, StripEnds
  <2>2. Kept(files', r, To(t))
    BY <1>9, <1>10, <2>1
  <2> QED
    BY <1>8, <1>10, <1>11, <1>12, <2>1, <2>2 DEF CountInv
<1>15. TempInv(r)' /\ IndexInv(r)'
  BY <1>8, <1>11 DEF TempInv, IndexInv, IsTop, Numbers
<1>16. Recorder(r)'
  BY <1>1, <1>11, <1>13, <1>14, <1>15 DEF Known, Recorder
<1>17. ASSUME NEW n \in DOMAIN files'
       PROVE  \/ n \in Numbers /\ files'[n] = files[n]
              \/ /\ By(files'[n]) = r /\ n \in Nat \ {0}
                 /\ files'[n] \in Seq(Frames) /\ Len(files'[n]) \in 1..SegmentMax
  <2>1. CASE n = i
    <3>1. files'[n] = t
      BY <1>7, <2>1 DEF Placed
    <3>2. Len(t) \in 1..SegmentMax
      BY <1>1, <1>2, EmptySeq DEF Known
    <3> QED
      BY <1>4, <1>6, <2>1, <3>1, <3>2
  <2>2. CASE n # i
    BY <1>7, <2>2 DEF Placed, Numbers
  <2> QED
    BY <2>1, <2>2
<1>18. /\ <<>> \in Seq(Frames) /\ Len(<<>>) <= SegmentMax /\ held[r] \in Frames \cup {NoFrame}
       /\ queue[r] \in Seq(Frames) /\ Len(queue[r]) <= QueueDepth /\ index[r] \in Nat
       /\ "retain" \in Stages \cup {"done"}
  BY <1>1, <1>5, EmptySeq DEF Known
<1> QED
  BY <1>8, <1>9, <1>16, <1>17, <1>18, StepKeeps

\* Publishing fails.
LEMMA PublishFails ==
  ASSUME CapInv, NEW r \in Recorders, r \in Alive, NEW s \in {"idle", "unlock"},
         Moves(r, s, NoFrame, queue[r], <<>>, index[r]), files' = files, r \in err',
         s # "idle" => r \in closing /\ queue[r] = <<>>
  PROVE  TapeInv'
<1>1. Known(r)
  BY AtWork
<1>2. \A n \in Numbers : n <= index[r]
  BY <1>1 DEF Alive, Known, Recorder, IndexInv
<1>3. /\ s \in Stages /\ s \in {"idle", "unlock", "done"}
      /\ <<>> \in Seq(Frames) /\ Len(<<>>) <= SegmentMax
  BY <1>1, EmptySeq DEF Known, Stages
<1>4. Recorder(r)'
  BY <1>1, <1>2, <1>3, Failed DEF Known, Numbers
<1> QED
  BY <1>1, <1>3, <1>4, StepKeepsFiles DEF Known

\* finishSegment publishes the file or gives it up.
LEMMA EitherWay ==
  ASSUME NEW r \in Recorders, Known(r), Publish(r), r \notin err,
         UNCHANGED <<queue, index, lock>>, RunKept
  PROVE  \/ /\ Moves(r, "retain", held[r], queue[r], <<>>, index[r]) /\ err' = err
            /\ files' = [n \in Numbers \cup {index[r]} |->
                           IF n = index[r] THEN temp[r] ELSE files[n]]
         \/ /\ Moves(r, IF run[r] = "rotate" THEN "idle" ELSE "unlock", NoFrame, queue[r], <<>>,
                     index[r])
            /\ files' = files /\ r \in err'
  BY DEF Known, TypeOK, Publish, Go, Fail, Moves, RunKept, callVars

LEMMA RotateKeeps == ASSUME CapInv, NEW r \in Recorders, Rotate(r) PROVE TapeInv'
<1>1. Known(r) /\ run[r] = "rotate" /\ r \in Alive
  BY AtWork DEF Rotate, Alive, Stages
<1>2. held[r] # NoFrame /\ r \notin err /\ temp[r] # <<>>
  BY <1>1 DEF Known, Recorder, PlaceInv
<1>3. \/ /\ Moves(r, "retain", held[r], queue[r], <<>>, index[r]) /\ err' = err
         /\ files' = [n \in Numbers \cup {index[r]} |->
                        IF n = index[r] THEN temp[r] ELSE files[n]]
      \/ Moves(r, "idle", NoFrame, queue[r], <<>>, index[r]) /\ files' = files /\ r \in err'
  BY <1>1, <1>2, EitherWay DEF Rotate
<1> QED
  BY <1>1, <1>2, <1>3, PublishKeeps, PublishFails

LEMMA FinishKeeps == ASSUME CapInv, NEW r \in Recorders, Finish(r) PROVE TapeInv'
<1>1. Known(r) /\ run[r] = "idle" /\ r \in Alive /\ r \in closing /\ queue[r] = <<>>
  BY AtWork DEF Finish, Alive, Stages
<1>2. held[r] = NoFrame
  BY <1>1 DEF Known, Recorder, PlaceInv
<1>3. CASE r \notin err /\ temp[r] # <<>>
  <2>1. \/ /\ Moves(r, "retain", held[r], queue[r], <<>>, index[r]) /\ err' = err
           /\ files' = [n \in Numbers \cup {index[r]} |->
                          IF n = index[r] THEN temp[r] ELSE files[n]]
        \/ Moves(r, "unlock", NoFrame, queue[r], <<>>, index[r]) /\ files' = files /\ r \in err'
    BY <1>1, <1>3, EitherWay DEF Finish
  <2> QED
    BY <1>1, <1>3, <2>1, PublishKeeps, PublishFails
<1>4. CASE ~(r \notin err /\ temp[r] # <<>>)
  <2>1. /\ Moves(r, "unlock", NoFrame, queue[r], <<>>, index[r]) /\ files' = files /\ err' = err
    BY <1>1, <1>2, <1>4 DEF Known, TypeOK, Finish, Go, Moves, RunKept, callVars
  <2>2. CASE r \in err
    BY <1>1, <2>1, <2>2, PublishFails
  <2>3. CASE r \notin err
    <3>1. temp[r] = <<>>
      BY <1>4, <2>3
    <3>2. /\ run'[r] = "unlock" /\ held'[r] = NoFrame /\ queue'[r] = queue[r] /\ temp'[r] = temp[r]
          /\ index'[r] = index[r] /\ accepted'[r] = accepted[r] /\ closing' = closing
          /\ closer' = closer /\ writer' = writer
      BY <1>1, <2>1, <3>1, Moved DEF Known
    <3>3. PlaceInv(r)'
      BY <1>1, <3>1, <3>2 DEF Known, Recorder, PlaceInv, Stages
    <3>4. Published(r)' = Published(r) /\ Taken(r)' = Taken(r) /\ (Sound(r)' <=> Sound(r))
      BY <1>1, <1>2, <2>1, <3>2 DEF Published, Written, Taken, Sound, Stages
    <3>5. CountInv(r)'
      BY <1>1, <2>1, <3>2, <3>4 DEF Known, Recorder, CountInv, Stages
    <3>6. TempInv(r)' /\ IndexInv(r)'
      BY <1>1, <2>1, <3>1, <3>2 DEF Known, Recorder, TempInv, IndexInv, Numbers, Stages
    <3>7. Recorder(r)'
      BY <1>1, <3>2, <3>3, <3>5, <3>6 DEF Known, Recorder
    <3>8. "unlock" \in Stages
      BY DEF Stages
    <3> QED
      BY <1>1, <1>2, <2>1, <3>1, <3>7, <3>8, StepKeepsFiles DEF Known
  <2> QED
    BY <2>2, <2>3
<1> QED
  BY <1>3, <1>4

LEMMA UnlockKeeps == ASSUME CapInv, NEW r \in Recorders, Unlock(r) PROVE TapeInv'
<1>1. Known(r) /\ run[r] = "unlock" /\ r \in Alive
  BY AtWork DEF Unlock, Alive, Stages
<1>2. held[r] = NoFrame /\ temp[r] = <<>> /\ r \in closing /\ queue[r] = <<>> /\ closer[r] # "ok"
  BY <1>1 DEF Known, Recorder, PlaceInv
<1>3. /\ Moves(r, "done", NoFrame, queue[r], <<>>, index[r]) /\ files' = files
      /\ r \in err' \/ err' = err
  BY <1>1, <1>2 DEF Known, TypeOK, Unlock, Go, Fail, Moves, RunKept, callVars
<1>4. \A n \in Numbers : n <= index[r]
  BY <1>1 DEF Alive, Known, Recorder, IndexInv
<1>5. CASE r \in err'
  <2>1. Recorder(r)'
    BY <1>1, <1>2, <1>3, <1>4, <1>5, Failed DEF Known, Numbers
  <2> QED
    BY <1>1, <1>2, <1>3, <2>1, StepKeepsFiles DEF Known
<1>6. CASE r \notin err'
  <2>1. /\ run'[r] = "done" /\ held'[r] = NoFrame /\ queue'[r] = queue[r] /\ temp'[r] = temp[r]
        /\ index'[r] = index[r] /\ accepted'[r] = accepted[r] /\ closing' = closing
        /\ closer' = closer /\ writer' = writer /\ err' = err /\ r \notin err
    BY <1>1, <1>2, <1>3, <1>6, Moved DEF Known
  <2>2. \A w \in Writers : writer[w] # r
    BY <1>2 DEF CapInv, QueueInv, NoSendOnClosed
  <2>3. PlaceInv(r)'
    BY <1>2, <2>1, <2>2 DEF PlaceInv
  <2>4. Published(r)' = Published(r) /\ Taken(r)' = Taken(r) /\ Sound(r)
    BY <1>1, <1>2, <2>1 DEF Published, Written, Taken, Sound, Stages
  <2>5. CountInv(r)'
    BY <1>1, <1>3, <2>1, <2>4 DEF Known, Recorder, CountInv, Stages
  <2>6. TempInv(r)' /\ IndexInv(r)'
    BY <1>2, <2>1 DEF TempInv, IndexInv, Stages
  <2>7. Recorder(r)'
    BY <1>1, <2>1, <2>3, <2>5, <2>6 DEF Known, Recorder
  <2> QED
    BY <1>1, <1>2, <1>3, <2>7, StepKeepsFiles DEF Known
<1> QED
  BY <1>5, <1>6

\* Retention takes the oldest files; the last thing a goroutine does may be that it fails there.
LEMMA RetainKeeps == ASSUME CapInv, NEW r \in Recorders, Retain(r) PROVE TapeInv'
<1>1. Known(r) /\ run[r] = "retain" /\ r \in Alive /\ run[r] \in Stages
  BY AtWork DEF Retain, Alive, Stages
<1>2. /\ temp[r] = <<>> /\ r \notin err /\ closer[r] # "ok"
      /\ held[r] = NoFrame => r \in closing /\ queue[r] = <<>>
  BY <1>1 DEF Known, Recorder, PlaceInv
<1>3. PICK k \in RetainSegments..(Cardinality(Numbers) + RetainSegments) :
        /\ files' = [n \in Newest(k) |-> files[n]]
        /\ \/ /\ Go(r, IF held[r] # NoFrame THEN "open" ELSE "unlock")
              /\ UNCHANGED <<err, held>>
           \/ /\ Fail(r) /\ Go(r, IF held[r] # NoFrame THEN "idle" ELSE "unlock")
              /\ held' = [held EXCEPT ![r] = NoFrame]
  BY DEF Retain
<1>4. PICK s : s = IF held[r] # NoFrame THEN "open" ELSE "unlock"
  OBVIOUS
<1>5. PICK z : z = IF held[r] # NoFrame THEN "idle" ELSE "unlock"
  OBVIOUS
<1>6. \/ Moves(r, s, held[r], queue[r], <<>>, index[r]) /\ err' = err
      \/ Moves(r, z, NoFrame, queue[r], <<>>, index[r]) /\ r \in err'
  BY <1>1, <1>2, <1>3, <1>4, <1>5 DEF Known, TypeOK, Retain, Go, Fail, Moves, RunKept, callVars
<1>7. Staying(files, k) = Newest(k)
  BY DEF Staying, Younger, Newest, Numbers
<1>8. k \in Nat /\ k >= RetainSegments
  <2>1. RetainSegments \in Nat
    BY CaptureAssumption
  <2> QED
    BY <1>3, <2>1
<1>9. /\ Shelf(files') /\ DOMAIN files' \subseteq Numbers
      /\ \A n \in DOMAIN files' : files'[n] = files[n]
      /\ \A x, y : Follows(files, x, y) => Follows(files', x, y)
      /\ \A x, p : Kept(files, x, p) => Kept(files', x, p)
  <2>1. PICK gs : gs = [n \in Staying(files, k) |-> files[n]]
    OBVIOUS
  <2>2. Shelf(files) /\ files' = gs
    BY <1>1, <1>3, <1>7, <2>1 DEF Known
  <2>3. /\ Shelf(gs) /\ DOMAIN gs \subseteq DOMAIN files /\ \A n \in DOMAIN gs : gs[n] = files[n]
        /\ \A x, y : Follows(files, x, y) => Follows(gs, x, y)
        /\ \A x, p : Kept(files, x, p) => Kept(gs, x, p)
    BY <1>8, <2>1, <2>2, TrimKeeps
  <2> QED
    BY <2>2, <2>3 DEF Numbers
<1>10. /\ <<>> \in Seq(Frames) /\ Len(<<>>) <= SegmentMax /\ held[r] \in Frames \cup {NoFrame}
       /\ queue[r] \in Seq(Frames) /\ Len(queue[r]) <= QueueDepth /\ index[r] \in Nat
       /\ s \in Stages \cup {"done"} /\ z \in Stages \cup {"done"} /\ s \in {"open", "unlock"}
       /\ z \in {"idle", "unlock", "done"} /\ (s = "unlock" <=> held[r] = NoFrame)
       /\ (z # "idle" => held[r] = NoFrame)
  BY <1>1, <1>4, <1>5, EmptySeq DEF Known, Stages
<1>11. \A n \in Numbers : n <= index[r]
  BY <1>1 DEF Known, Recorder, IndexInv
<1>12. CASE Moves(r, s, held[r], queue[r], <<>>, index[r]) /\ err' = err
  <2>1. /\ run'[r] = s /\ held'[r] = held[r] /\ queue'[r] = queue[r] /\ temp'[r] = temp[r]
        /\ index'[r] = index[r] /\ accepted'[r] = accepted[r] /\ closing' = closing
        /\ closer' = closer /\ writer' = writer
    BY <1>1, <1>2, <1>12, Moved DEF Known
  <2>2. PlaceInv(r)'
    BY <1>1, <1>2, <1>10, <1>12, <2>1 DEF Known, Recorder, PlaceInv, Stages
  <2>3. Published(r)' = Published(r) /\ Taken(r)' = Taken(r) /\ Sound(r)
    BY <1>1, <1>2, <2>1 DEF Published, Written, Taken, Sound
  <2>4. CountInv(r)'
    BY <1>1, <1>2, <1>9, <2>1, <2>3 DEF Known, Recorder, CountInv
  <2>5. TempInv(r)' /\ IndexInv(r)'
    BY <1>2, <1>9, <1>10, <1>11, <2>1 DEF TempInv, IndexInv, Numbers
  <2>6. Recorder(r)'
    BY <1>1, <2>1, <2>2, <2>4, <2>5 DEF Known, Recorder
  <2> QED
    BY <1>1, <1>9, <1>10, <1>12, <2>6, StepKeeps
<1>13. CASE Moves(r, z, NoFrame, queue[r], <<>>, index[r]) /\ r \in err'
  <2>1. Recorder(r)'
    BY <1>1, <1>2, <1>9, <1>10, <1>11, <1>13, Failed
  <2> QED
    BY <1>1, <1>9, <1>10, <1>13, <2>1, StepKeeps
<1> QED
  BY <1>6, <1>12, <1>13

LEMMA RunStepKeeps == ASSUME CapInv, NEW r \in Recorders, RunStep(r) PROVE TapeInv'
  BY TakeKeeps, StepFailsKeeps, RotateKeeps, RetainKeeps, OpenKeeps, WriteKeeps, FinishKeeps,
     UnlockKeeps DEF RunStep

-----------------------------------------------------------------------------
(* The callers, a crash, and what follows from all steps.                  *)

LEMMA CallKeeps ==
  ASSUME CapInv, TypeOK', files' = files,
         \A q \in Recorders : run'[q] = "none" <=> run[q] = "none",
         \A q \in Recorders : Recorder(q)'
  PROVE  TapeInv'
<1>1. StartInv /\ Shelf(files)
  BY DEF CapInv, TapeInv
<1>2. \A n \in Numbers : By(files[n]) \in Recorders
  BY <1>1, StripEnds DEF Shelf, Numbers
<1>3. StartInv'
  BY <1>1, <1>2 DEF StartInv, Numbers
<1> QED
  BY <1>1, <1>3 DEF TapeInv

LEMMA StartKeeps == ASSUME CapInv, NEW r \in Recorders, Start(r) PROVE TapeInv'
<1>1. Known(r) /\ StartInv /\ run[r] = "none" /\ r \in Nat
  BY AtWork, CaptureAssumption DEF Start, CapInv, TapeInv
<1>2. PICK l : l = Latest
  OBVIOUS
<1>3. l \in Nat /\ \A n \in Numbers : n <= l
  <2>1. CASE Numbers = {}
    BY <1>2, <2>1 DEF Latest
  <2>2. CASE Numbers # {}
    <3>1. \E n \in Numbers : \A m \in Numbers : m <= n
      BY <1>1, <2>2 DEF Known, Shelf, IsTop, Numbers
    <3>2. l \in Numbers /\ \A m \in Numbers : m <= l
      BY <1>2, <2>2, <3>1 DEF Latest
    <3> QED
      BY <1>1, <3>2 DEF Known, Shelf, Numbers
  <2> QED
    BY <2>1, <2>2
<1>4. /\ run' = [run EXCEPT ![r] = "idle"] /\ index' = [index EXCEPT ![r] = l]
      /\ UNCHANGED <<held, queue, err, temp, callVars, files, crashes>> /\ lock' = TRUE
  BY <1>2 DEF Start, Go
<1>5. TypeOK'
  BY <1>1, <1>3, <1>4 DEF Known, TypeOK, callVars, Stages, Numbers
<1>6. ASSUME NEW q \in Recorders, q # r PROVE Recorder(q)'
  <2>1. run'[q] = run[q] /\ index'[q] = index[q]
    BY <1>1, <1>4, <1>6 DEF Known, TypeOK
  <2> QED
    BY <1>4, <2>1, RecorderStays DEF callVars
<1>7. run'[r] = "idle" /\ index'[r] = l
  BY <1>1, <1>4 DEF Known, TypeOK
<1>8. PlaceInv(r)'
  BY <1>1, <1>4, <1>7 DEF Known, Recorder, PlaceInv, callVars, Stages
<1>9. /\ held[r] = NoFrame /\ temp[r] = <<>> /\ queue[r] = <<>> /\ accepted[r] = 0
      /\ Len(temp[r]) = 0 /\ Len(queue[r]) = 0
  BY <1>1 DEF Known, Recorder, PlaceInv
<1>10. \A n \in Numbers : By(files[n]) \in Recorders /\ By(files[n]) \in Nat /\ By(files[n]) < r
  <2>1. ASSUME NEW n \in Numbers
        PROVE  By(files[n]) \in Recorders /\ By(files[n]) \in Nat /\ By(files[n]) < r
    <3>1. By(files[n]) \in Recorders /\ By(files[n]) \in Nat /\ run[By(files[n])] # "none"
      BY <1>1, StripEnds DEF Known, Shelf, StartInv, Numbers
    <3>2. ~(r < By(files[n])) /\ By(files[n]) # r
      BY <1>1, <3>1 DEF StartInv
    <3> QED
      BY <1>1, <3>1, <3>2
  <2> QED
    BY <2>1
<1>11. Follows(files, r, 1) /\ \A y : ~Covered(files, r, y)
  BY <1>1, <1>10 DEF Follows, Covered, Numbers, IsTop
<1>12. CountInv(r)'
  <2>0. held'[r] = NoFrame /\ temp'[r] = <<>> /\ files' = files
    BY <1>4, <1>9 DEF callVars
  <2>1. Published(r)' = 0
    <3>1. accepted'[r] = 0 /\ Len(queue'[r]) = 0 /\ Len(temp'[r]) = 0
      BY <1>4, <1>9 DEF callVars
    <3>2. Taken(r)' = 0
      BY <3>1 DEF Taken
    <3>3. Written(r)' = 0
      BY <2>0, <3>2 DEF Written
    <3> QED
      BY <3>1, <3>3 DEF Published
  <2>2. Kept(files, r, 0)
    BY <1>11 DEF Kept
  <2> QED
    BY <1>11, <2>0, <2>1, <2>2 DEF CountInv
<1>13. TempInv(r)' /\ IndexInv(r)'
  BY <1>3, <1>4, <1>7, <1>9 DEF TempInv, IndexInv, Numbers
<1>14. Recorder(r)'
  BY <1>1, <1>4, <1>8, <1>12, <1>13 DEF Known, Recorder, callVars
<1>15. StartInv'
  <2>1. \A q \in Recorders : run[q] # "none" => run'[q] # "none"
    BY <1>1, <1>4 DEF Known, TypeOK
  <2>2. \A q \in Recorders : q # r => run'[q] = run[q]
    BY <1>1, <1>4 DEF Known, TypeOK
  <2>3. \A n \in DOMAIN files' : run'[By(files'[n])] # "none"
    BY <1>1, <1>4, <1>10, <2>1 DEF StartInv, Numbers
  <2>4. \A x, y \in Recorders : run'[y] # "none" /\ x < y => run'[x] # "none"
    BY <1>1, <2>1, <2>2 DEF StartInv, Start
  <2> QED
    BY <2>3, <2>4 DEF StartInv, Numbers
<1>16. Shelf(files')
  BY <1>1, <1>4 DEF Known
<1> QED
  BY <1>5, <1>6, <1>14, <1>15, <1>16 DEF TapeInv

LEMMA WriteBeginsKeeps ==
  ASSUME CapInv, NEW w \in Writers, NEW r \in Recorders, WriteBegins(w, r)
  PROVE  TapeInv'
<1>1. Known(r)
  BY AtWork
<1>2. /\ writer' = [writer EXCEPT ![w] = r]
      /\ UNCHANGED <<run, held, queue, err, temp, index, closer, closing, accepted, diskVars,
                     crashes>>
  BY DEF WriteBegins
<1>3. TypeOK'
  BY <1>1, <1>2 DEF Known, TypeOK, diskVars, Numbers
<1>4. run[r] \in Stages
  BY <1>1 DEF Known, Recorder, PlaceInv, WriteBegins
<1>5. ASSUME NEW q \in Recorders, q # r PROVE Recorder(q)'
  <2>1. \A x \in Writers : writer'[x] = q => writer[x] = q
    BY <1>1, <1>2, <1>5 DEF Known, TypeOK
  <2> QED
    BY <1>2, <2>1, RecorderStays DEF diskVars
<1>6. Recorder(r)'
  <2>1. PlaceInv(r)'
    BY <1>1, <1>2, <1>4 DEF Known, Recorder, PlaceInv
  <2>2. CountInv(r)' /\ TempInv(r)' /\ IndexInv(r)'
    BY <1>1, <1>2 DEF Known, Recorder, CountInv, TempInv, IndexInv, Numbers, diskVars, Sound,
                     Published, Written, Taken
  <2> QED
    BY <1>1, <1>2, <2>1, <2>2 DEF Known, Recorder
<1> QED
  BY <1>2, <1>3, <1>5, <1>6, CallKeeps DEF diskVars

\* A frame more at the end of a queue.
LEMMA QueueGrows ==
  ASSUME NEW q \in Seq(Frames), NEW r \in Recorders, NEW a \in Nat, LastOf(q, r, a)
  PROVE  /\ Append(q, <<r, a + 1>>) \in Seq(Frames) /\ LastOf(Append(q, <<r, a + 1>>), r, a + 1)
         /\ Len(Append(q, <<r, a + 1>>)) = Len(q) + 1
<1>1. PICK f \in Frames : f = <<r, a + 1>>
  <2>1. a + 1 \in Nat \ {0}
    OBVIOUS
  <2> QED
    BY <2>1 DEF Frames
<1>2. PICK s : s = Append(q, f)
  OBVIOUS
<1>3. /\ s \in Seq(Frames) /\ Len(s) = Len(q) + 1 /\ s[Len(q) + 1] = f
      /\ \A i \in 1..Len(q) : s[i] = q[i]
  BY <1>2, AppendProperties
<1>4. Len(q) \in Nat /\ Len(q) <= a
  BY DEF LastOf
<1>5. ASSUME NEW i \in 1..Len(s) PROVE s[i] = <<r, a + 1 - Len(s) + i>>
  <2>1. CASE i = Len(q) + 1
    <3>1. a + 1 - Len(s) + i = a + 1
      BY <1>3, <1>4, <2>1
    <3> QED
      BY <1>1, <1>3, <2>1, <3>1
  <2>2. CASE i # Len(q) + 1
    <3>1. i \in 1..Len(q) /\ a + 1 - Len(s) + i = a - Len(q) + i
      BY <1>3, <1>4, <2>2
    <3>2. q[i] = <<r, a - Len(q) + i>>
      BY <3>1 DEF LastOf
    <3> QED
      BY <1>3, <3>1, <3>2
  <2> QED
    BY <2>1, <2>2
<1>6. LastOf(s, r, a + 1)
  BY <1>3, <1>4, <1>5 DEF LastOf
<1> QED
  BY <1>1, <1>2, <1>3, <1>6

LEMMA WriteSendsKeeps == ASSUME CapInv, NEW w \in Writers, WriteSends(w) PROVE TapeInv'
<1>1. TypeOK
  BY DEF CapInv, TapeInv
<1>2. PICK r \in Recorders : r = writer[w]
  BY <1>1 DEF TypeOK, WriteSends
<1>3. Known(r) /\ NoRecorder \notin Recorders
  BY AtWork, CaptureAssumption
<1>4. run[r] \in Stages /\ r \notin closing
  BY <1>2, <1>3 DEF Known, Recorder, PlaceInv, CapInv, QueueInv, NoSendOnClosed
<1>5. PICK q : q = Append(queue[r], <<r, accepted[r] + 1>>)
  OBVIOUS
<1>6. q \in Seq(Frames) /\ LastOf(q, r, accepted[r] + 1) /\ Len(q) = Len(queue[r]) + 1
  BY <1>3, <1>5, QueueGrows DEF Known, Recorder
<1>7. /\ writer' = [writer EXCEPT ![w] = NoRecorder]
      /\ UNCHANGED <<run, held, err, temp, index, closer, closing, files, lock, crashes>>
      /\ \/ /\ Len(queue[r]) < QueueDepth /\ queue' = [queue EXCEPT ![r] = q]
            /\ accepted' = [accepted EXCEPT ![r] = accepted[r] + 1]
         \/ queue' = queue /\ accepted' = accepted
  BY <1>1, <1>2, <1>5 DEF WriteSends, diskVars, TypeOK
<1>8. ASSUME NEW x \in Writers, NEW y \in Recorders, writer'[x] = y PROVE writer[x] = y
  BY <1>1, <1>3, <1>7, <1>8 DEF TypeOK
<1>9. CASE queue' = queue /\ accepted' = accepted
  <2>1. TypeOK'
    BY <1>1, <1>7, <1>9 DEF TypeOK, Numbers
  <2>2. \A x \in Recorders : Recorder(x)'
    BY <1>7, <1>8, <1>9, RecorderStays
  <2> QED
    BY <1>7, <2>1, <2>2, CallKeeps
<1>10. CASE /\ Len(queue[r]) < QueueDepth /\ queue' = [queue EXCEPT ![r] = q]
            /\ accepted' = [accepted EXCEPT ![r] = accepted[r] + 1]
  <2>1. Len(q) <= QueueDepth
    BY <1>3, <1>6, <1>10 DEF Known
  <2>2. TypeOK'
    BY <1>1, <1>3, <1>6, <1>7, <1>10, <2>1 DEF Known, TypeOK, Numbers
  <2>3. ASSUME NEW x \in Recorders, x # r PROVE Recorder(x)'
    <3>1. queue'[x] = queue[x] /\ accepted'[x] = accepted[x]
      BY <1>1, <1>10, <2>3 DEF TypeOK
    <3> QED
      BY <1>7, <1>8, <3>1, RecorderStays
  <2>4. queue'[r] = q /\ accepted'[r] = accepted[r] + 1
    BY <1>1, <1>10 DEF TypeOK
  <2>5. PlaceInv(r)'
    <3>1. /\ run[r] \notin {"none", "unlock", "done"} /\ ~(run[r] = "retain" /\ held[r] = NoFrame)
          /\ closer[r] # "ok"
      BY <1>3, <1>4 DEF Known, Recorder, PlaceInv, Stages
    <3>2. PlaceInv(r)
      BY <1>3 DEF Known, Recorder
    <3>3. /\ run'[r] = run[r] /\ held'[r] = held[r] /\ temp'[r] = temp[r] /\ err' = err
          /\ closing' = closing /\ closer'[r] = closer[r]
      BY <1>7
    <3>4. \A x \in Writers : writer'[x] = r => run'[r] \in Stages
      BY <1>4, <3>3
    <3> QED
      BY <3>1, <3>2, <3>3, <3>4 DEF PlaceInv
  <2>6. Taken(r)' = Taken(r) /\ Published(r)' = Published(r) /\ (Sound(r)' <=> Sound(r))
    <3>0. accepted[r] \in Nat /\ Len(q) \in Nat
      BY <1>3, <1>6 DEF Known
    <3>1. Taken(r)' = accepted[r] + 1 - Len(q)
      BY <2>4, <3>0 DEF Taken
    <3>2. Taken(r)' = Taken(r)
      BY <1>3, <1>6, <3>1 DEF Taken, Known
    <3> QED
      BY <1>7, <3>2 DEF Published, Written, Sound
  <2>7. CountInv(r)'
    BY <1>3, <1>7, <2>6 DEF Known, Recorder, CountInv
  <2>8. TempInv(r)' /\ IndexInv(r)'
    BY <1>3, <1>7 DEF Known, Recorder, TempInv, IndexInv, Numbers
  <2>9. Recorder(r)'
    BY <1>6, <2>4, <2>5, <2>7, <2>8 DEF Recorder
  <2> QED
    BY <1>7, <2>2, <2>3, <2>9, CallKeeps
<1> QED
  BY <1>7, <1>9, <1>10

\* Close and what its callers are told.
LEMMA CloseKeeps ==
  ASSUME CapInv, NEW r \in Recorders, CloseBegins(r) \/ CloseReturns(r) \/ CloseTimesOut(r)
  PROVE  TapeInv'
<1>1. Known(r)
  BY AtWork
<1>2. UNCHANGED <<run, held, queue, err, temp, index, writer, accepted, files, lock, crashes>>
  BY DEF CloseBegins, CloseReturns, CloseTimesOut, diskVars
<1>3. /\ closing' \subseteq Recorders /\ closing \subseteq closing'
      /\ \A q \in Recorders \ {r} : (q \in closing' <=> q \in closing) /\ closer'[q] = closer[q]
  BY <1>1 DEF Known, TypeOK, CloseBegins, CloseReturns, CloseTimesOut
<1>4. closer' \in [Recorders -> {"none", "waiting", "ok", "failed", "timeout", "crashed"}]
  BY <1>1 DEF Known, TypeOK, CloseBegins, CloseReturns, CloseTimesOut
<1>5. TypeOK'
  BY <1>1, <1>2, <1>3, <1>4 DEF Known, TypeOK, Numbers
<1>6. ASSUME NEW q \in Recorders, q # r PROVE Recorder(q)'
  BY <1>2, <1>3, <1>6, RecorderStays
<1>7. /\ run[r] = "none" => closing' = closing
      /\ closer'[r] = "ok" => run[r] = "done" /\ r \notin err
  BY <1>1 DEF Known, TypeOK, CloseBegins, CloseReturns, CloseTimesOut, Stages, Recorder, PlaceInv
<1>8. Recorder(r)'
  <2>1. PlaceInv(r)'
    BY <1>1, <1>2, <1>3, <1>7 DEF Known, Recorder, PlaceInv
  <2>2. CountInv(r)' /\ TempInv(r)' /\ IndexInv(r)'
    BY <1>1, <1>2 DEF Known, Recorder, CountInv, TempInv, IndexInv, Numbers, Sound,
                     Published, Written, Taken
  <2> QED
    BY <1>1, <1>2, <2>1, <2>2 DEF Known, Recorder
<1> QED
  BY <1>2, <1>5, <1>6, <1>8, CallKeeps

\* Who had nothing to do has lost nothing.
LEMMA CrashKeeps == ASSUME CapInv, Crash PROVE TapeInv'
<1>1. TypeOK /\ NoRecorder \notin Recorders
  BY CaptureAssumption DEF CapInv, TapeInv
<1>2. /\ UNCHANGED <<err, index, closing, accepted, files, lock>> /\ crashes' \in 0..MaxCrashes
      /\ writer' = [w \in Writers |-> NoRecorder]
  <2>1. crashes \in Nat /\ MaxCrashes \in Nat
    BY <1>1, CaptureAssumption DEF TypeOK
  <2> QED
    BY <2>1 DEF Crash, diskVars
<1>3. \A q \in Recorders :
        /\ run'[q] = IF q \in Alive THEN "crashed" ELSE run[q]
        /\ closer'[q] = IF q \in Alive THEN "crashed" ELSE closer[q]
        /\ held'[q] = NoFrame /\ queue'[q] = <<>> /\ temp'[q] = <<>>
  BY DEF Crash
<1>4. <<>> \in Seq(Frames) /\ Len(<<>>) = 0
  BY EmptySeq
<1>5. TypeOK'
  <2>1. /\ run' \in [Recorders -> Stages \cup {"none", "done", "crashed"}]
        /\ closer' \in [Recorders -> {"none", "waiting", "ok", "failed", "timeout", "crashed"}]
    BY <1>1 DEF Crash, TypeOK
  <2>2. /\ held' \in [Recorders -> Frames \cup {NoFrame}]
        /\ {queue', temp'} \subseteq [Recorders -> Seq(Frames)]
    BY <1>4 DEF Crash
  <2>3. QueueDepth \in Nat /\ SegmentMax \in Nat
    BY CaptureAssumption
  <2>4. \A q \in Recorders : Len(queue'[q]) <= QueueDepth /\ Len(temp'[q]) <= SegmentMax
    BY <1>3, <1>4, <2>3
  <2>5. \A n \in DOMAIN files' :
          n \in Nat \ {0} /\ files'[n] \in Seq(Frames) /\ Len(files'[n]) \in 1..SegmentMax
    BY <1>1, <1>2 DEF TypeOK, Numbers
  <2>6. /\ closing' \subseteq Recorders /\ err' \subseteq Recorders
        /\ {index', accepted'} \subseteq [Recorders -> Nat] /\ lock' \in BOOLEAN
        /\ writer' \in [Writers -> Recorders \cup {NoRecorder}]
    BY <1>1, <1>2 DEF TypeOK
  <2> QED
    BY <1>2, <2>1, <2>2, <2>4, <2>5, <2>6 DEF TypeOK, Numbers
<1>6. ASSUME NEW q \in Recorders PROVE Recorder(q)'
  <2>1. Known(q)
    BY AtWork
  <2>2. \A w \in Writers : writer'[w] # q
    BY <1>1, <1>2
  <2>3. CASE run[q] \in {"none", "done"}
    <3>1. /\ q \notin Alive /\ held[q] = NoFrame /\ queue[q] = <<>> /\ temp[q] = <<>>
      BY <2>1, <2>3 DEF Known, Recorder, PlaceInv, Alive, Stages
    <3>2. /\ run'[q] = run[q] /\ held'[q] = held[q] /\ queue'[q] = queue[q] /\ temp'[q] = temp[q]
          /\ closer'[q] = closer[q]
      BY <1>3, <3>1
    <3> QED
      BY <1>2, <2>2, <3>2, RecorderStays
  <2>4. CASE run[q] \notin {"none", "done"}
    <3>1. /\ run'[q] = "crashed" /\ held'[q] = NoFrame /\ queue'[q] = <<>> /\ temp'[q] = <<>>
          /\ closer'[q] # "ok" /\ accepted'[q] = accepted[q]
      BY <1>2, <1>3, <2>1, <2>4 DEF Known, Recorder, PlaceInv, Alive
    <3>2. PlaceInv(q)'
      BY <2>2, <3>1 DEF PlaceInv
    <3>3. LastOf(queue'[q], q, accepted'[q])
      <4>1. LastOf(<<>>, q, accepted[q])
        BY <1>4, <2>1 DEF Known, LastOf
      <4> QED
        BY <3>1, <4>1
    <3>4. CountInv(q)' /\ TempInv(q)' /\ IndexInv(q)'
      BY <3>1 DEF CountInv, Sound, TempInv, IndexInv, Stages
    <3> QED
      BY <3>2, <3>3, <3>4 DEF Recorder
  <2> QED
    BY <2>3, <2>4
<1>7. \A q \in Recorders : run'[q] = "none" <=> run[q] = "none"
  BY <1>3 DEF Alive, Stages
<1> QED
  BY <1>2, <1>5, <1>6, <1>7, CallKeeps

\* Steps that touch no recorder.
LEMMA OthersKeep == ASSUME CapInv, RemoveLock \/ UNCHANGED vars PROVE TapeInv'
<1>1. /\ UNCHANGED <<run, held, queue, err, temp, index, writer, closer, closing, accepted, files,
                     crashes>>
      /\ lock' \in BOOLEAN
  BY DEF RemoveLock, vars, callVars, diskVars, CapInv, TapeInv, TypeOK
<1>2. TypeOK'
  BY <1>1 DEF CapInv, TapeInv, TypeOK, Numbers
<1>3. \A q \in Recorders : Recorder(q)'
  BY <1>1, RecorderStays
<1> QED
  BY <1>1, <1>2, <1>3, CallKeeps

LEMMA CapInit == Init => CapInv
<1> SUFFICES ASSUME Init PROVE CapInv
  OBVIOUS
<1>1. <<>> \in Seq(Frames) /\ Len(<<>>) = 0 /\ DOMAIN <<>> = {}
  BY EmptySeq
<1>2. DOMAIN files = {}
  BY <1>1 DEF Init
<1>3. /\ QueueDepth \in Nat /\ SegmentMax \in Nat /\ MaxCrashes \in Nat
      /\ NoRecorder \notin Recorders /\ Recorders \subseteq Nat
  BY CaptureAssumption
<1>4. TypeOK
  <2>1. /\ run \in [Recorders -> Stages \cup {"none", "done", "crashed"}]
        /\ held \in [Recorders -> Frames \cup {NoFrame}]
        /\ {queue, temp} \subseteq [Recorders -> Seq(Frames)]
    BY <1>1 DEF Init
  <2>2. \A r \in Recorders : Len(queue[r]) <= QueueDepth /\ Len(temp[r]) <= SegmentMax
    <3>1. \A r \in Recorders : queue[r] = <<>> /\ temp[r] = <<>>
      BY DEF Init
    <3>2. \A r \in Recorders : Len(queue[r]) = 0 /\ Len(temp[r]) = 0
      BY <1>1, <3>1
    <3> QED
      BY <1>3, <3>2
  <2>3. closing \subseteq Recorders /\ err \subseteq Recorders /\ lock \in BOOLEAN
    BY DEF Init
  <2>4. {index, accepted} \subseteq [Recorders -> Nat]
    BY DEF Init
  <2>5. writer \in [Writers -> Recorders \cup {NoRecorder}]
    BY DEF Init
  <2>6. closer \in [Recorders -> {"none", "waiting", "ok", "failed", "timeout", "crashed"}]
    BY DEF Init
  <2>7. crashes \in 0..MaxCrashes
    BY <1>3 DEF Init
  <2> QED
    BY <1>2, <2>1, <2>2, <2>3, <2>4, <2>5, <2>6, <2>7 DEF TypeOK, Numbers
<1>5. Shelf(files)
  BY <1>2, FS_EmptySet DEF Shelf
<1>6. StartInv
  BY <1>2 DEF Init, StartInv, Numbers
<1>7. ASSUME NEW r \in Recorders PROVE Recorder(r)
  <2>1. /\ run[r] = "none" /\ held[r] = NoFrame /\ temp[r] = <<>> /\ queue[r] = <<>>
        /\ accepted[r] = 0 /\ r \notin err /\ r \notin closing /\ closer[r] = "none"
        /\ \A w \in Writers : writer[w] # r
    BY <1>3 DEF Init
  <2>2. PlaceInv(r)
    BY <2>1 DEF PlaceInv
  <2>3. CountInv(r) /\ TempInv(r) /\ IndexInv(r)
    BY <2>1 DEF CountInv, Sound, TempInv, IndexInv, Stages
  <2>4. LastOf(queue[r], r, accepted[r])
    <3>1. LastOf(<<>>, r, 0)
      BY <1>1 DEF LastOf
    <3> QED
      BY <2>1, <3>1
  <2> QED
    BY <2>2, <2>3, <2>4 DEF Recorder
<1> QED
  BY <1>4, <1>5, <1>6, <1>7, LockInit, QueueInit DEF CapInv, TapeInv

LEMMA CapNext == CapInv /\ [Next]_vars => CapInv'
<1> SUFFICES ASSUME CapInv, [Next]_vars PROVE CapInv'
  OBVIOUS
<1>1. LockInv' /\ QueueInv'
  BY LockNext, QueueNext DEF CapInv
<1>2. TapeInv'
  BY StartKeeps, WriteBeginsKeeps, WriteSendsKeeps, CloseKeeps, RunStepKeeps, CrashKeeps, OthersKeep
     DEF Next
<1> QED
  BY <1>1, <1>2 DEF CapInv

\* What a recorder writes to its file, what it has published and what waits in its queue go on
\* from one another, whatever failed and whenever the process crashed (run in
\* internal/capture/segmented.go).
LEMMA CapAlways == SafetySpec => []CapInv
<1>1. QED
  BY CapInit, CapNext, PTL DEF SafetySpec

\* Every field is in its range; no file outgrows SegmentMax and no queue its depth
\* (writeRequest and WriteFrame in internal/capture/segmented.go).
THEOREM TapeWellTyped == SafetySpec => []TypeOK
<1>1. CapInv => TypeOK
  BY DEF CapInv, TapeInv
<1>2. QED
  BY <1>1, CapAlways, PTL

\* Replaying the files in the order of their numbers yields each recorder's frames in the order
\* it accepted them, without a gap, after rotation, retention, failures and crashes
\* (finishSegment, retainSegments and latestSegmentIndex in internal/capture/segmented.go).
THEOREM ReplaysInOrder == SafetySpec => []ReplayInOrder
<1>1. ASSUME CapInv PROVE ReplayInOrder
  <2>1. Shelf(files) /\ \A n \in Numbers : Strip(files[n])
    BY <1>1 DEF CapInv, TapeInv, Shelf, Numbers
  <2>2. ASSUME NEW n \in Numbers, NEW i \in 1..(Len(files[n]) - 1)
        PROVE  files[n][i + 1] = After(files[n][i])
    <3>1. Strip(files[n]) /\ Len(files[n]) \in Nat /\ From(files[n]) \in Nat
      BY <2>1, StripEnds
    <3>2. /\ i \in 1..Len(files[n]) /\ i + 1 \in 1..Len(files[n])
          /\ From(files[n]) + (i + 1) - 1 = From(files[n]) + i - 1 + 1
      BY <3>1
    <3>3. /\ files[n][i] = <<By(files[n]), From(files[n]) + i - 1>>
          /\ files[n][i + 1] = <<By(files[n]), From(files[n]) + (i + 1) - 1>>
      BY <3>1, <3>2 DEF Strip
    <3> QED
      BY <3>2, <3>3 DEF After
  <2>3. ASSUME NEW m \in Numbers, NEW n \in Numbers, m < n, \A k \in Numbers : k <= m \/ n <= k
        PROVE  \/ Head(files[n]) = After(Last(files[m]))
               \/ Last(files[m])[1] < Head(files[n])[1] /\ Head(files[n])[2] = 1
    <3>1. Continues(files[m], files[n])
      BY <2>1, <2>3 DEF Shelf, Adjacent, Numbers
    <3>2. /\ Head(files[n]) = <<By(files[n]), From(files[n])>>
          /\ Last(files[m]) = <<By(files[m]), To(files[m])>>
      BY <2>1, StripEnds
    <3> QED
      BY <3>1, <3>2 DEF Continues, After
  <2>4. ASSUME NEW r \in Recorders, temp[r] # <<>>,
               NEW n \in Numbers, Last(files[n])[1] = r, n = Latest
        PROVE  Head(temp[r]) = After(Last(files[n]))
    <3>1. Strip(temp[r]) /\ By(temp[r]) = r /\ Follows(files, r, From(temp[r]))
      BY <1>1, <2>4 DEF CapInv, TapeInv, Recorder, TempInv
    <3>2. \E t \in Numbers : \A m \in Numbers : m <= t
      BY <2>1, <2>4 DEF Shelf, IsTop, Numbers
    <3>3. IsTop(files, n)
      BY <2>4, <3>2 DEF Latest, IsTop, Numbers
    <3>4. Last(files[n]) = <<By(files[n]), To(files[n])>> /\ By(files[n]) \in Nat
      BY <2>1, StripEnds
    <3>5. By(files[n]) = r
      BY <2>4, <3>4
    <3>6. From(temp[r]) = To(files[n]) + 1
      BY <3>1, <3>3, <3>4, <3>5 DEF Follows, Numbers
    <3>7. Head(temp[r]) = <<r, From(temp[r])>>
      BY <3>1, StripEnds
    <3> QED
      BY <3>4, <3>5, <3>6, <3>7 DEF After
  <2> QED
    BY <2>2, <2>3, <2>4 DEF ReplayInOrder
<1>2. QED
  BY <1>1, CapAlways, PTL

\* The numbers of the frames of r in the files.
LEMMA RecordedIsCovered ==
  ASSUME Shelf(files), NEW r
  PROVE  \A y : y \in Recorded(r) <=> y \in Nat \ {0} /\ Covered(files, r, y)
<1>1. ASSUME NEW n \in Numbers
      PROVE  /\ Len(files[n]) \in Nat /\ From(files[n]) \in Nat \ {0} /\ To(files[n]) \in Nat
             /\ \A i \in 1..Len(files[n]) : files[n][i] = <<By(files[n]), From(files[n]) + i - 1>>
  <2>1. Strip(files[n])
    BY DEF Shelf, Numbers
  <2> QED
    BY <2>1, StripEnds DEF Strip
<1>2. ASSUME NEW y, y \in Recorded(r) PROVE y \in Nat \ {0} /\ Covered(files, r, y)
  <2>1. PICK f \in Stored : f[1] = r /\ y = f[2]
    BY <1>2 DEF Recorded
  <2>2. PICK n \in Numbers : \E i \in 1..Len(files[n]) : f = files[n][i]
    BY DEF Stored
  <2>3. PICK i \in 1..Len(files[n]) : f = <<By(files[n]), From(files[n]) + i - 1>>
    BY <1>1, <2>2
  <2>4. y \in Nat \ {0} /\ From(files[n]) <= y /\ y <= To(files[n])
    BY <1>1, <2>1, <2>3 DEF To
  <2> QED
    BY <2>1, <2>3, <2>4 DEF Covered, Numbers
<1>3. ASSUME NEW y \in Nat, Covered(files, r, y) PROVE y \in Recorded(r)
  <2>1. PICK n \in Numbers : By(files[n]) = r /\ From(files[n]) <= y /\ y <= To(files[n])
    BY <1>3 DEF Covered, Numbers
  <2>2. PICK i : i = y - From(files[n]) + 1
    OBVIOUS
  <2>3. i \in 1..Len(files[n]) /\ From(files[n]) + i - 1 = y
    BY <1>1, <2>1, <2>2 DEF To
  <2>4. files[n][i] = <<r, y>>
    BY <1>1, <2>1, <2>3
  <2>5. <<r, y>> \in Stored
    BY <2>3, <2>4 DEF Stored
  <2> QED
    BY <2>5 DEF Recorded
<1> QED
  BY <1>2, <1>3

\* When Close has returned no error, what the recorder accepted is in the files from some frame
\* to the last one, and from the first unless retention has removed files (Close, run and
\* retainSegments in internal/capture/segmented.go).
THEOREM ClosesDurably == SafetySpec => []CloseIsDurable
<1>1. ASSUME CapInv PROVE CloseIsDurable
  <2> SUFFICES ASSUME NEW r \in Recorders, closer[r] = "ok"
               PROVE  \E k \in 1..(accepted[r] + 1) :
                        /\ Recorded(r) = k..accepted[r]
                        /\ k > 1 => Cardinality(Numbers) >= RetainSegments
    BY DEF CloseIsDurable
  <2>1. Known(r)
    BY <1>1, AtWork
  <2>2. PICK a \in Nat : a = accepted[r]
    BY <2>1 DEF Known
  <2>3. /\ run[r] = "done" /\ r \notin err /\ held[r] = NoFrame /\ temp[r] = <<>> /\ queue[r] = <<>>
    BY <2>1 DEF Known, Recorder, PlaceInv
  <2>4. Published(r) = a
    <3>1. Len(queue[r]) = 0 /\ Len(temp[r]) = 0
      BY <2>3, EmptySeq
    <3>2. Taken(r) = a
      BY <2>2, <3>1 DEF Taken
    <3>3. Written(r) = a
      BY <2>3, <3>2 DEF Written
    <3> QED
      BY <3>1, <3>3 DEF Published
  <2>5. Kept(files, r, a) /\ Shelf(files)
    BY <2>1, <2>3, <2>4 DEF Known, Recorder, CountInv, Sound
  <2>6. \A y : y \in Recorded(r) <=> y \in Nat \ {0} /\ Covered(files, r, y)
    BY <2>5, RecordedIsCovered
  <2>7. PICK k \in Nat : /\ k \in 1..(a + 1) /\ \A y \in Nat : y \in k..a <=> y \in Recorded(r)
                         /\ k > 1 => a > 0 /\ ~Covered(files, r, 1)
    <3>1. CASE Recorded(r) = {}
      <4>1. a + 1 \in Nat /\ \A y \in Nat : y \notin (a + 1)..a
        OBVIOUS
      <4>2. ~Covered(files, r, 1)
        BY <2>6, <3>1
      <4> QED
        BY <3>1, <4>1, <4>2
    <3>2. CASE Recorded(r) # {}
      <4>1. Recorded(r) \in SUBSET Nat
        BY <2>6
      <4>2. PICK k \in Recorded(r) : \A y \in Recorded(r) : k <= y
        BY <3>2, <4>1, HasLeast
      <4>3. k \in Nat /\ k >= 1 /\ k <= a /\ Covered(files, r, k)
        BY <2>5, <2>6, <4>2 DEF Kept
      <4>4. ASSUME NEW y \in Nat PROVE y \in k..a <=> y \in Recorded(r)
        <5>1. y \in Recorded(r) => k <= y /\ y <= a
          BY <2>5, <2>6, <4>2 DEF Kept
        <5>2. k <= y /\ y <= a => Covered(files, r, y)
          BY <2>5, <4>3 DEF Kept
        <5>3. k <= y => y \in Nat \ {0}
          BY <4>3
        <5> QED
          BY <2>6, <4>3, <5>1, <5>2, <5>3
      <4>5. k > 1 => a > 0 /\ ~Covered(files, r, 1)
        BY <2>6, <4>2, <4>3
      <4>6. k \in 1..(a + 1) /\ \A y \in Nat : y \in k..a <=> y \in Recorded(r)
        BY <4>3, <4>4
      <4> QED
        BY <4>3, <4>5, <4>6
    <3> QED
      BY <3>1, <3>2
  <2>8. Recorded(r) = k..a
    <3>1. \A y \in k..a : y \in Nat
      BY <2>7
    <3>2. \A y \in Recorded(r) : y \in Nat
      BY <2>6
    <3> QED
      BY <2>7, <3>1, <3>2
  <2>9. k > 1 => Cardinality(Numbers) >= RetainSegments
    BY <2>5, <2>7 DEF Kept, Numbers
  <2> QED
    BY <2>2, <2>7, <2>8, <2>9
<1>2. QED
  BY <1>1, CapAlways, PTL

-----------------------------------------------------------------------------
(***************************************************************************)
(* The outbound queue of a client.  The batches in the channel continue    *)
(* each other and end where the accepted messages end; the writer's batch  *)
(* comes right before them, and the wire right before what is left of it.  *)
(***************************************************************************)
Sized == [id : Nat, sizes : Seq(Nat)]

InHand == [id : Nat, sizes : Seq(Nat), next : Nat \ {0}]

Mail == Nat \X Nat

Places == {"poll", "wait", "write", "failed", "unplugged", "report", "stop", "transport", "exit"}

CloseStages ==
  {"idle", "skipped", "reading", "release", "finish", "stop", "transport", "wait", "done"}

ClientTypes ==
  /\ outbound \in [Clients -> Seq(Sized)]
  /\ hand \in [Clients -> InHand]
  /\ due \in [Clients -> Seq(Mail)] /\ wire \in [Clients -> Seq(Mail)]
  /\ loop \in [Clients -> Places] /\ closed \in [Clients -> BOOLEAN]
  /\ ender \in [Closers -> [Clients -> CloseStages]]

\* The messages of a batch stand where its id says.
Stands(b, a) ==
  \A i \in 1..Len(b.sizes) : b.id + i \in 1..Len(a) /\ a[b.id + i] = <<b.id, i>>

Ends(b) == b.id + Len(b.sizes)

\* The batches of a channel continue each other, up to the last message accepted.
InLine(q, a) ==
  /\ \A k \in 1..Len(q) : Stands(q[k], a)
  /\ \A k \in 1..Len(q) : IF k = Len(q) THEN Ends(q[k]) = Len(a) ELSE q[k + 1].id = Ends(q[k])

\* Where the first message of the channel stands, less one.
Upcoming(q, a) == IF q = <<>> THEN Len(a) ELSE q[1].id

\* What has been written is the beginning of what is due.
Begins(w, a) == Len(w) <= Len(a) /\ \A i \in 1..Len(w) : w[i] = a[i]

\* Where the writer is in what is due.
Reached(place, h, q, a, w) ==
  /\ place \in {"poll", "wait"} => Len(w) = Upcoming(q, a)
  /\ place = "write" => /\ Stands(h, a) /\ Ends(h) = Upcoming(q, a)
                        /\ Len(w) + 1 = h.id + h.next /\ h.next <= Len(h.sizes) + 1

Ordered(c) ==
  /\ InLine(outbound[c], due[c])
  /\ Begins(wire[c], due[c])
  /\ Reached(loop[c], hand[c], outbound[c], due[c], wire[c])

\* Who has closed a client has stopped it; who has returned has seen its writer end.
EndInv ==
  \A k \in Closers, c \in Clients :
    /\ ender[k][c] \in {"transport", "wait", "done"} => closed[c]
    /\ ender[k][c] = "done" => loop[c] = "exit"

Lines == \A c \in Clients : Ordered(c)

OutInv == ClientTypes /\ EndInv /\ Lines

-----------------------------------------------------------------------------
(* Sequences of messages.                                                  *)

\* What accepting a batch appends.
LEMMA AcceptAppends ==
  ASSUME NEW a \in Seq(Mail), NEW sizes \in Seq(Nat), NEW b, b = [id |-> Len(a), sizes |-> sizes]
  PROVE  /\ a \o Messages(b) \in Seq(Mail)
         /\ Len(a \o Messages(b)) = Len(a) + Len(sizes)
         /\ \A i \in 1..Len(a) : (a \o Messages(b))[i] = a[i]
         /\ \A i \in 1..Len(sizes) : (a \o Messages(b))[Len(a) + i] = <<Len(a), i>>
<1>1. Len(a) \in Nat /\ Len(sizes) \in Nat
  OBVIOUS
<1>2. /\ Messages(b) \in Seq(Mail) /\ Len(Messages(b)) = Len(sizes)
      /\ \A i \in 1..Len(sizes) : Messages(b)[i] = <<Len(a), i>>
  <2>1. \A i \in 1..Len(sizes) : <<Len(a), i>> \in Mail
    BY <1>1 DEF Mail
  <2> QED
    BY <1>1, <2>1 DEF Messages
<1> DEFINE m == Messages(b)
<1> HIDE DEF m
<1>3. m \in Seq(Mail) /\ Len(m) = Len(sizes) /\ \A i \in 1..Len(sizes) : m[i] = <<Len(a), i>>
  BY <1>2 DEF m
<1>4. /\ a \o m \in Seq(Mail) /\ Len(a \o m) = Len(a) + Len(m)
      /\ \A i \in 1..(Len(a) + Len(m)) : (a \o m)[i] = IF i <= Len(a) THEN a[i] ELSE m[i - Len(a)]
  BY <1>3, ConcatProperties
<1>5. \A i \in 1..Len(a) : (a \o m)[i] = a[i]
  BY <1>1, <1>3, <1>4
<1>6. ASSUME NEW i \in 1..Len(sizes) PROVE (a \o m)[Len(a) + i] = <<Len(a), i>>
  <2>1. Len(a) + i \in 1..(Len(a) + Len(m)) /\ ~(Len(a) + i <= Len(a)) /\ (Len(a) + i) - Len(a) = i
    BY <1>1, <1>3
  <2> QED
    BY <1>3, <1>4, <2>1
<1> QED
  BY <1>3, <1>4, <1>5, <1>6 DEF m

\* A beginning is a prefix, and as long as the whole it is the whole.
LEMMA BeginIsPrefix ==
  ASSUME NEW w \in Seq(Mail), NEW a \in Seq(Mail), Begins(w, a)
  PROVE  IsPrefix(w, a) /\ (Len(w) = Len(a) => w = a)
<1>1. Len(w) \in Nat /\ Len(a) \in Nat /\ Len(w) <= Len(a) /\ \A i \in 1..Len(w) : w[i] = a[i]
  BY DEF Begins
<1>2. SubSeq(w, 1, Len(w)) = SubSeq(a, 1, Len(w))
  <2>1. /\ SubSeq(w, 1, Len(w)) \in Seq(Mail) /\ Len(SubSeq(w, 1, Len(w))) = Len(w)
        /\ \A i \in 1..Len(w) : SubSeq(w, 1, Len(w))[i] = w[i]
    BY <1>1
  <2>2. /\ SubSeq(a, 1, Len(w)) \in Seq(Mail) /\ Len(SubSeq(a, 1, Len(w))) = Len(w)
        /\ \A i \in 1..Len(w) : SubSeq(a, 1, Len(w))[i] = a[i]
    BY <1>1
  <2> QED
    BY <1>1, <2>1, <2>2, SeqEqual
<1>3. Len(w) = Len(a) => w = a
  BY <1>1, SeqEqual
<1> QED
  BY <1>1, <1>2, <1>3 DEF IsPrefix

\* A batch that is accepted joins the line, and what was there stays where it was.
LEMMA LineGrows ==
  ASSUME NEW a \in Seq(Mail), NEW q \in Seq(Sized), NEW sizes \in Seq(Nat), InLine(q, a),
         NEW b, b = [id |-> Len(a), sizes |-> sizes]
  PROVE  LET all == a \o Messages(b)
         IN  /\ InLine(Append(q, b), all) /\ Upcoming(Append(q, b), all) = Upcoming(q, a)
             /\ \A h : Stands(h, a) => Stands(h, all)
             /\ \A w \in Seq(Mail) : Begins(w, a) => Begins(w, all)
<1> DEFINE all == a \o Messages(b)
<1>1. /\ Len(all) = Len(a) + Len(sizes)
      /\ \A i \in 1..Len(a) : all[i] = a[i]
      /\ \A i \in 1..Len(sizes) : all[Len(a) + i] = <<Len(a), i>>
  BY AcceptAppends
<1>2. b \in Sized /\ b.id = Len(a) /\ b.sizes = sizes /\ Len(a) \in Nat /\ Len(sizes) \in Nat
  BY DEF Sized
<1> HIDE DEF all
<1>3. ASSUME NEW h, Stands(h, a) PROVE Stands(h, all)
  <2>1. \A x \in 1..Len(a) : x \in 1..Len(all) /\ all[x] = a[x]
    BY <1>1, <1>2
  <2>2. ASSUME NEW i \in 1..Len(h.sizes)
        PROVE  h.id + i \in 1..Len(all) /\ all[h.id + i] = <<h.id, i>>
    <3>1. h.id + i \in 1..Len(a) /\ a[h.id + i] = <<h.id, i>>
      BY <1>3 DEF Stands
    <3> QED
      BY <2>1, <3>1
  <2> QED
    BY <2>2 DEF Stands
<1>4. ASSUME NEW w \in Seq(Mail), Begins(w, a) PROVE Begins(w, all)
  BY <1>1, <1>2, <1>4 DEF Begins
<1>5. Stands(b, all) /\ Ends(b) = Len(all)
  BY <1>1, <1>2 DEF Stands, Ends
<1>6. PICK line : line = Append(q, b)
  OBVIOUS
<1>7. /\ Len(q) \in Nat /\ Len(line) = Len(q) + 1
      /\ \A k \in 1..Len(q) : line[k] = q[k]
      /\ line[Len(q) + 1] = b
  BY <1>2, <1>6, AppendProperties
<1>8. /\ \A k \in 1..Len(q) : Stands(q[k], a)
      /\ \A k \in 1..Len(q) : IF k = Len(q) THEN Ends(q[k]) = Len(a) ELSE q[k + 1].id = Ends(q[k])
  BY DEF InLine
<1>9. ASSUME NEW k \in 1..Len(line)
      PROVE  /\ Stands(line[k], all)
             /\ IF k = Len(line) THEN Ends(line[k]) = Len(all) ELSE line[k + 1].id = Ends(line[k])
  <2>1. CASE k = Len(q) + 1
    BY <1>5, <1>7, <2>1
  <2>2. CASE k # Len(q) + 1
    <3>1. k \in 1..Len(q) /\ line[k] = q[k] /\ k # Len(line) /\ k + 1 \in 1..Len(line)
      BY <1>7, <2>2
    <3>2. Stands(line[k], all)
      BY <1>3, <1>8, <3>1
    <3>3. CASE k = Len(q)
      BY <1>2, <1>7, <1>8, <3>1, <3>2, <3>3
    <3>4. CASE k # Len(q)
      <4>1. k + 1 \in 1..Len(q)
        BY <1>7, <3>1, <3>4
      <4>2. line[k + 1] = q[k + 1] /\ q[k + 1].id = Ends(q[k])
        BY <1>7, <1>8, <3>1, <3>4, <4>1
      <4> QED
        BY <3>1, <3>2, <4>2
    <3> QED
      BY <3>3, <3>4
  <2> QED
    BY <2>1, <2>2
<1>10. InLine(line, all)
  BY <1>9 DEF InLine
<1>11. Upcoming(line, all) = Upcoming(q, a)
  <2>1. line # <<>>
    BY <1>7
  <2>2. CASE q = <<>>
    <3>1. Len(q) = 0
      BY <2>2
    <3> QED
      BY <1>2, <1>7, <2>1, <2>2, <3>1 DEF Upcoming
  <2>3. CASE q # <<>>
    <3>1. 1 \in 1..Len(q)
      BY <2>3, <1>7
    <3> QED
      BY <1>7, <2>1, <2>3, <3>1 DEF Upcoming
  <2> QED
    BY <2>2, <2>3
<1> QED
  BY <1>3, <1>4, <1>6, <1>10, <1>11 DEF all

\* The writer takes the batch that comes next.
LEMMA LineShrinks ==
  ASSUME NEW a \in Seq(Mail), NEW q \in Seq(Sized), InLine(q, a), q # <<>>
  PROVE  /\ InLine(Tail(q), a) /\ Upcoming(Tail(q), a) = Ends(Head(q))
         /\ Stands(Head(q), a) /\ Head(q).id = Upcoming(q, a) /\ Head(q) \in Sized
<1>1. PICK rest : rest = Tail(q)
  OBVIOUS
<1>2. /\ Len(q) \in Nat /\ Len(q) # 0 /\ Head(q) = q[1] /\ 1 \in 1..Len(q) /\ Head(q) \in Sized
      /\ Len(rest) = Len(q) - 1
      /\ \A k \in 1..Len(rest) : rest[k] = q[k + 1] /\ k + 1 \in 1..Len(q)
      /\ rest = <<>> <=> Len(rest) = 0
  <2>1. rest \in Seq(Sized) /\ Len(rest) = Len(q) - 1 /\ \A k \in 1..Len(rest) : rest[k] = q[k + 1]
    BY <1>1, HeadTailProperties
  <2>2. Len(q) \in Nat /\ Len(q) # 0 /\ Head(q) = q[1] /\ 1 \in 1..Len(q) /\ Head(q) \in Sized
    BY HeadTailProperties
  <2>3. rest = <<>> <=> Len(rest) = 0
    BY <2>1, EmptySeq
  <2> QED
    BY <2>1, <2>2, <2>3
<1>3. /\ \A k \in 1..Len(q) : Stands(q[k], a)
      /\ \A k \in 1..Len(q) : IF k = Len(q) THEN Ends(q[k]) = Len(a) ELSE q[k + 1].id = Ends(q[k])
  BY DEF InLine
<1>4. ASSUME NEW k \in 1..Len(rest)
      PROVE  /\ Stands(rest[k], a)
             /\ IF k = Len(rest) THEN Ends(rest[k]) = Len(a) ELSE rest[k + 1].id = Ends(rest[k])
  <2>1. rest[k] = q[k + 1] /\ k + 1 \in 1..Len(q) /\ (k = Len(rest) <=> k + 1 = Len(q))
    BY <1>2
  <2>2. k # Len(rest) => rest[k + 1] = q[(k + 1) + 1]
    BY <1>2
  <2> QED
    BY <1>3, <2>1, <2>2
<1>5. InLine(rest, a)
  BY <1>4 DEF InLine
<1>6. Upcoming(rest, a) = Ends(q[1])
  <2>1. CASE rest = <<>>
    <3>1. 1 = Len(q)
      BY <1>2, <2>1
    <3> QED
      BY <1>2, <1>3, <2>1, <3>1 DEF Upcoming
  <2>2. CASE rest # <<>>
    <3>1. 1 \in 1..Len(rest) /\ 1 # Len(q)
      BY <1>2, <2>2
    <3>2. rest[1] = q[1 + 1] /\ q[1 + 1].id = Ends(q[1])
      BY <1>2, <1>3, <3>1
    <3> QED
      BY <2>2, <3>2 DEF Upcoming
  <2> QED
    BY <2>1, <2>2
<1> QED
  BY <1>1, <1>2, <1>3, <1>5, <1>6 DEF Upcoming

\* The next message of the batch in hand is the next one due.
LEMMA NextIsDue ==
  ASSUME NEW a \in Seq(Mail), NEW w \in Seq(Mail),
         NEW h \in InHand,
         Begins(w, a), Stands(h, a), Len(w) + 1 = h.id + h.next, h.next <= Len(h.sizes)
  PROVE  Begins(Append(w, <<h.id, h.next>>), a) /\ Len(Append(w, <<h.id, h.next>>)) = Len(w) + 1
<1>1. /\ h.id \in Nat /\ h.next \in Nat /\ h.next \in 1..Len(h.sizes)
      /\ Len(w) \in Nat /\ Len(a) \in Nat
  BY DEF Stands, InHand
<1>2. Len(w) + 1 \in 1..Len(a) /\ a[Len(w) + 1] = <<h.id, h.next>>
  BY <1>1 DEF Stands
<1>3. PICK m \in Mail : m = <<h.id, h.next>>
  <2>1. <<h.id, h.next>> \in Mail
    BY <1>1 DEF Mail
  <2> QED
    BY <2>1
<1>4. PICK all : all = Append(w, m)
  OBVIOUS
<1>5. /\ Len(all) = Len(w) + 1 /\ all[Len(w) + 1] = m
      /\ \A i \in 1..Len(w) : all[i] = w[i]
  BY <1>3, <1>4, AppendProperties
<1>6. ASSUME NEW i \in 1..Len(all) PROVE all[i] = a[i]
  <2>1. CASE i = Len(w) + 1
    BY <1>2, <1>3, <1>5, <2>1
  <2>2. CASE i # Len(w) + 1
    <3>1. i \in 1..Len(w)
      BY <1>1, <1>5, <2>2
    <3>2. w[i] = a[i]
      BY <3>1 DEF Begins
    <3> QED
      BY <1>5, <3>1, <3>2
  <2> QED
    BY <2>1, <2>2
<1>7. Len(all) <= Len(a)
  BY <1>1, <1>2, <1>5
<1> QED
  BY <1>3, <1>4, <1>5, <1>6, <1>7 DEF Begins

-----------------------------------------------------------------------------
(* The steps of the queue and its writer.                                  *)

\* The clients other than c are not concerned.
Others(c) ==
  \A d \in Clients \ {c} :
    /\ outbound'[d] = outbound[d] /\ due'[d] = due[d] /\ wire'[d] = wire[d]
    /\ loop'[d] = loop[d] /\ hand'[d] = hand[d]

LEMMA OthersKept ==
  ASSUME Lines, NEW c \in Clients, Others(c), Ordered(c)'
  PROVE  Lines'
<1>1. ASSUME NEW d \in Clients, d # c PROVE Ordered(d)'
  BY <1>1 DEF Lines, Others, Ordered
<1> QED
  BY <1>1 DEF Lines

LEMMA LinesKept == Lines /\ UNCHANGED <<outbound, due, wire, loop, hand>> => Lines'
  BY DEF Lines, Ordered

\* SendBatch accepts.
LEMMA EnqueueKeeps ==
  ASSUME ClientTypes, Lines, NEW c \in Clients, NEW sizes \in Seq(Nat), Enqueue(c, sizes),
         UNCHANGED <<loop, hand, wire, closed>>
  PROVE  Lines' /\ outbound' \in [Clients -> Seq(Sized)] /\ due' \in [Clients -> Seq(Mail)]
<1>1. PICK b : b = [id |-> Len(due[c]), sizes |-> sizes]
  OBVIOUS
<1>2. /\ outbound' = [outbound EXCEPT ![c] = Append(@, b)]
      /\ due' = [due EXCEPT ![c] = @ \o Messages(b)]
  BY <1>1 DEF Enqueue, Batch
<1>3. /\ outbound[c] \in Seq(Sized) /\ due[c] \in Seq(Mail) /\ wire[c] \in Seq(Mail)
      /\ hand[c] \in InHand /\ Len(due[c]) \in Nat
  BY DEF ClientTypes
<1>4. b \in Sized
  BY <1>1, <1>3 DEF Sized
<1>5. outbound'[c] = Append(outbound[c], b) /\ due'[c] = due[c] \o Messages(b)
  BY <1>2 DEF ClientTypes
<1>6. Append(outbound[c], b) \in Seq(Sized) /\ due[c] \o Messages(b) \in Seq(Mail)
  BY <1>1, <1>3, <1>4, AcceptAppends, AppendProperties
<1>7. outbound' \in [Clients -> Seq(Sized)] /\ due' \in [Clients -> Seq(Mail)]
  BY <1>2, <1>6 DEF ClientTypes
<1>8. Others(c)
  BY <1>2 DEF Others, ClientTypes
<1>9. /\ InLine(outbound[c], due[c]) /\ Begins(wire[c], due[c])
      /\ Reached(loop[c], hand[c], outbound[c], due[c], wire[c])
  BY DEF Lines, Ordered
<1>10. /\ InLine(outbound'[c], due'[c])
       /\ Upcoming(outbound'[c], due'[c]) = Upcoming(outbound[c], due[c])
       /\ \A h : Stands(h, due[c]) => Stands(h, due'[c])
       /\ \A w \in Seq(Mail) : Begins(w, due[c]) => Begins(w, due'[c])
  BY <1>1, <1>3, <1>5, <1>9, LineGrows
<1>11. Reached(loop[c], hand[c], outbound'[c], due'[c], wire[c])
  BY <1>9, <1>10 DEF Reached
<1>12. Ordered(c)'
  BY <1>3, <1>9, <1>10, <1>11 DEF Ordered
<1> QED
  BY <1>7, <1>8, <1>12, OthersKept

\* What a step of the writer of c has to show: it goes from one place to another.
LEMMA WriterMoves ==
  ASSUME OutInv, NEW c \in Clients, loop[c] # "exit", NEW place \in Places,
         loop' = [loop EXCEPT ![c] = place], Others(c), Ordered(c)',
         outbound' \in [Clients -> Seq(Sized)], hand' \in [Clients -> InHand],
         wire' \in [Clients -> Seq(Mail)], closed' \in [Clients -> BOOLEAN],
         \A d \in Clients : closed[d] => closed'[d], UNCHANGED <<due, ender>>
  PROVE  OutInv'
<1>1. Lines'
  BY OthersKept DEF OutInv
<1>2. EndInv'
  BY DEF EndInv, OutInv, ClientTypes
<1>3. ClientTypes'
  BY DEF ClientTypes, OutInv
<1> QED
  BY <1>1, <1>2, <1>3 DEF OutInv

\* It is done with writing, and does not look at the line.
LEMMA WriterLeaves ==
  ASSUME OutInv, NEW c \in Clients, loop[c] # "exit",
         NEW place \in {"failed", "unplugged", "report", "stop", "transport", "exit"},
         loop' = [loop EXCEPT ![c] = place], Others(c), hand' \in [Clients -> InHand],
         closed' \in [Clients -> BOOLEAN], \A d \in Clients : closed[d] => closed'[d],
         UNCHANGED <<outbound, wire, due, ender>>
  PROVE  OutInv'
<1>1. loop'[c] = place /\ InLine(outbound[c], due[c]) /\ Begins(wire[c], due[c])
  BY DEF OutInv, ClientTypes, Lines, Ordered
<1>2. Reached(loop'[c], hand'[c], outbound[c], due[c], wire[c])
  BY <1>1 DEF Reached
<1>3. Ordered(c)'
  BY <1>1, <1>2 DEF Ordered
<1>4. place \in Places
  BY DEF Places
<1> QED
  BY <1>3, <1>4, WriterMoves DEF OutInv, ClientTypes

LEMMA EmptyHand == [id |-> 0, sizes |-> <<>>, next |-> 1] \in InHand
  BY DEF InHand

LEMMA WriteLoopKeeps ==
  ASSUME OutInv, NEW c \in Clients, WriteLoop(c)
  PROVE  OutInv'
<1> USE DEF AtWriter
<1>1. /\ outbound[c] \in Seq(Sized) /\ due[c] \in Seq(Mail) /\ wire[c] \in Seq(Mail)
      /\ hand[c] \in InHand /\ loop[c] \in Places
  BY DEF OutInv, ClientTypes
<1>2. ClientTypes /\ \A d \in Clients : closed[d] \in BOOLEAN
  BY DEF OutInv, ClientTypes
<1>3. /\ InLine(outbound[c], due[c]) /\ Begins(wire[c], due[c])
      /\ Reached(loop[c], hand[c], outbound[c], due[c], wire[c])
  BY DEF OutInv, Lines, Ordered
<1>4. ASSUME Poll(c) \/ EndWait(c) PROVE OutInv'
  <2>1. PICK place \in {"wait", "exit"} : loop' = [loop EXCEPT ![c] = place]
    BY <1>4 DEF Poll, EndWait
  <2>2. loop[c] \in {"poll", "wait"} /\ UNCHANGED <<outbound, due, wire, hand, closed, ender>>
    BY <1>4 DEF Poll, EndWait
  <2>3. Others(c) /\ loop'[c] = place
    BY <1>2, <2>1, <2>2 DEF Others, ClientTypes
  <2>4. Reached(place, hand[c], outbound[c], due[c], wire[c])
    BY <1>3, <2>2 DEF Reached
  <2>5. Ordered(c)'
    BY <1>3, <2>2, <2>3, <2>4 DEF Ordered
  <2>6. place \in Places
    BY DEF Places
  <2> QED
    BY <1>2, <2>1, <2>2, <2>3, <2>5, <2>6, WriterMoves DEF ClientTypes
<1>5. ASSUME Receive(c) PROVE OutInv'
  <2>1. PICK q : q = outbound[c]
    OBVIOUS
  <2>2. PICK b : b = Head(q)
    OBVIOUS
  <2>3. PICK h : h = [id |-> b.id, sizes |-> b.sizes, next |-> 1]
    OBVIOUS
  <2>4. /\ loop[c] = "wait" /\ q # <<>> /\ UNCHANGED <<due, wire, closed, ender>>
        /\ loop' = [loop EXCEPT ![c] = "write"] /\ hand' = [hand EXCEPT ![c] = h]
        /\ outbound' = [outbound EXCEPT ![c] = Tail(q)]
    BY <1>5, <2>1, <2>2, <2>3 DEF Receive
  <2>5. /\ InLine(Tail(q), due[c]) /\ Upcoming(Tail(q), due[c]) = Ends(b)
        /\ Stands(b, due[c]) /\ b.id = Upcoming(q, due[c]) /\ b \in Sized
    BY <1>1, <1>3, <2>1, <2>2, <2>4, LineShrinks
  <2>6. b.id \in Nat /\ b.sizes \in Seq(Nat) /\ Len(b.sizes) \in Nat
    BY <2>5 DEF Sized
  <2>7. /\ h \in InHand /\ h.id = b.id /\ h.sizes = b.sizes /\ h.next = 1
        /\ Stands(h, due[c]) /\ Ends(h) = Ends(b)
    BY <2>3, <2>5, <2>6 DEF InHand, Stands, Ends
  <2>8. Len(wire[c]) = Upcoming(q, due[c])
    BY <1>3, <2>1, <2>4 DEF Reached
  <2>9. Reached("write", h, Tail(q), due[c], wire[c])
    BY <2>5, <2>6, <2>7, <2>8 DEF Reached
  <2>10. /\ loop'[c] = "write" /\ hand'[c] = h /\ outbound'[c] = Tail(q)
         /\ Others(c)
    BY <1>2, <2>4 DEF Others, ClientTypes
  <2>11. Ordered(c)'
    BY <1>3, <2>4, <2>5, <2>9, <2>10 DEF Ordered
  <2>12. Tail(q) \in Seq(Sized)
    BY <1>1, <2>1, <2>4, HeadTailProperties
  <2>13. /\ outbound' \in [Clients -> Seq(Sized)] /\ hand' \in [Clients -> InHand]
         /\ wire' \in [Clients -> Seq(Mail)] /\ closed' \in [Clients -> BOOLEAN]
    BY <1>2, <2>4, <2>7, <2>12 DEF ClientTypes
  <2>14. "write" \in Places /\ loop[c] # "exit"
    BY <2>4 DEF Places
  <2> QED
    BY <2>4, <2>10, <2>11, <2>13, <2>14, WriterMoves
<1>6. ASSUME WriteMessage(c) PROVE OutInv'
  <2>1. PICK h : h = hand[c]
    OBVIOUS
  <2>2. PICK w : w = wire[c]
    OBVIOUS
  <2>3. /\ loop[c] = "write" /\ h.next <= Len(h.sizes) /\ UNCHANGED <<outbound, due, closed, ender>>
        /\ loop' = [loop EXCEPT ![c] = "write"]
        /\ hand' = [hand EXCEPT ![c] = [h EXCEPT !.next = @ + 1]]
        /\ wire' = [wire EXCEPT ![c] = Append(w, <<h.id, h.next>>)]
    BY <1>6, <2>1, <2>2 DEF WriteMessage
  <2>4. PICK m : m = [h EXCEPT !.next = @ + 1]
    OBVIOUS
  <2>5. /\ h.id \in Nat /\ h.next \in Nat /\ h.sizes \in Seq(Nat) /\ Len(h.sizes) \in Nat
        /\ m \in InHand /\ m.id = h.id /\ m.sizes = h.sizes /\ m.next = h.next + 1
    <3>1. h \in [id : Nat, sizes : Seq(Nat), next : Nat \ {0}]
      BY <1>1, <2>1 DEF InHand
    <3>2. h.id \in Nat /\ h.next \in Nat /\ h.sizes \in Seq(Nat) /\ h.next + 1 \in Nat \ {0}
      BY <3>1
    <3>3. m.id = h.id /\ m.sizes = h.sizes /\ m.next = h.next + 1
      BY <2>4, <3>1
    <3>4. m \in InHand
      BY <2>4, <3>1, <3>2 DEF InHand
    <3> QED
      BY <3>2, <3>3, <3>4
  <2>6. /\ Stands(h, due[c]) /\ Ends(h) = Upcoming(outbound[c], due[c])
        /\ Len(w) + 1 = h.id + h.next
    BY <1>3, <2>1, <2>2, <2>3 DEF Reached
  <2>7. PICK all : all = Append(w, <<h.id, h.next>>)
    OBVIOUS
  <2>8. Begins(all, due[c]) /\ Len(all) = Len(w) + 1
    BY <1>1, <1>3, <2>1, <2>2, <2>3, <2>6, <2>7, NextIsDue
  <2>9. Stands(m, due[c]) /\ Ends(m) = Ends(h)
    BY <2>5, <2>6 DEF Stands, Ends
  <2>10. Len(w) \in Nat
    BY <1>1, <2>2
  <2>11. Len(all) + 1 = m.id + m.next /\ m.next <= Len(m.sizes) + 1
    BY <2>3, <2>5, <2>6, <2>8, <2>10
  <2>12. Reached("write", m, outbound[c], due[c], all)
    BY <2>6, <2>9, <2>11 DEF Reached
  <2>13. loop'[c] = "write" /\ hand'[c] = m /\ wire'[c] = all /\ Others(c)
    BY <1>2, <2>3, <2>4, <2>7 DEF Others, ClientTypes
  <2>14. Ordered(c)'
    BY <1>3, <2>3, <2>8, <2>12, <2>13 DEF Ordered
  <2>15. all \in Seq(Mail)
    <3>1. <<h.id, h.next>> \in Mail
      BY <2>5 DEF Mail
    <3> QED
      BY <1>1, <2>2, <2>7, <3>1, AppendProperties
  <2>16. /\ outbound' \in [Clients -> Seq(Sized)] /\ hand' \in [Clients -> InHand]
         /\ wire' \in [Clients -> Seq(Mail)] /\ closed' \in [Clients -> BOOLEAN]
    BY <1>2, <2>3, <2>4, <2>5, <2>7, <2>15 DEF ClientTypes
  <2>17. "write" \in Places /\ loop[c] # "exit"
    BY <2>3 DEF Places
  <2> QED
    BY <2>3, <2>13, <2>14, <2>16, <2>17, WriterMoves
<1>7. ASSUME Account(c), hand[c].next > Len(hand[c].sizes), loop[c] = "write",
             loop' = [loop EXCEPT ![c] = "poll"]
      PROVE  OutInv'
  <2>1. PICK h : h = hand[c]
    OBVIOUS
  <2>2. PICK e : e = [id |-> 0, sizes |-> <<>>, next |-> 1]
    OBVIOUS
  <2>3. /\ UNCHANGED <<outbound, due, wire, closed, ender>>
        /\ hand' = [hand EXCEPT ![c] = e]
    BY <1>7, <2>2 DEF Account
  <2>4. h.id \in Nat /\ h.next \in Nat /\ Len(h.sizes) \in Nat /\ Len(wire[c]) \in Nat
    BY <1>1, <2>1 DEF InHand
  <2>5. /\ Ends(h) = Upcoming(outbound[c], due[c])
        /\ Len(wire[c]) + 1 = h.id + h.next /\ h.next <= Len(h.sizes) + 1
    BY <1>3, <1>7, <2>1 DEF Reached
  <2>6. Len(wire[c]) = Upcoming(outbound[c], due[c])
    BY <1>7, <2>1, <2>4, <2>5 DEF Ends
  <2>7. Reached("poll", e, outbound[c], due[c], wire[c])
    BY <2>6 DEF Reached
  <2>8. loop'[c] = "poll" /\ hand'[c] = e /\ Others(c)
    BY <1>2, <1>7, <2>3 DEF Others, ClientTypes
  <2>9. Ordered(c)'
    BY <1>3, <2>3, <2>7, <2>8 DEF Ordered
  <2>10. /\ outbound' \in [Clients -> Seq(Sized)] /\ hand' \in [Clients -> InHand]
         /\ wire' \in [Clients -> Seq(Mail)] /\ closed' \in [Clients -> BOOLEAN]
    BY <1>2, <2>2, <2>3, EmptyHand DEF ClientTypes
  <2>11. "poll" \in Places /\ loop[c] # "exit"
    BY <1>7 DEF Places
  <2> QED
    BY <1>7, <2>3, <2>8, <2>9, <2>10, <2>11, WriterMoves
<1>8. ASSUME Account(c), NEW place \in {"report", "stop"}, loop[c] \in {"failed", "unplugged"},
             loop' = [loop EXCEPT ![c] = place]
      PROVE  OutInv'
  <2>1. /\ UNCHANGED <<outbound, due, wire, closed, ender>>
        /\ hand' = [hand EXCEPT ![c] = [id |-> 0, sizes |-> <<>>, next |-> 1]]
    BY <1>8 DEF Account
  <2>2. Others(c) /\ hand' \in [Clients -> InHand]
    BY <1>2, <1>8, <2>1, EmptyHand DEF Others, ClientTypes
  <2> QED
    BY <1>2, <1>8, <2>1, <2>2, WriterLeaves DEF ClientTypes
<1>9. ASSUME Account(c) PROVE OutInv'
  BY <1>7, <1>8, <1>9 DEF Account
<1>10. ASSUME WriteFails(c) \/ Report(c) \/ WriterDone(c) PROVE OutInv'
  <2>1. PICK place \in {"failed", "unplugged", "stop", "exit"} : loop' = [loop EXCEPT ![c] = place]
    BY <1>10 DEF WriteFails, Report, WriterDone
  <2>2. loop[c] # "exit" /\ UNCHANGED <<outbound, due, wire, hand, closed, ender>>
    BY <1>10 DEF WriteFails, Report, WriterDone
  <2>3. Others(c)
    BY <1>2, <2>1, <2>2 DEF Others, ClientTypes
  <2> QED
    BY <1>2, <2>1, <2>2, <2>3, WriterLeaves DEF ClientTypes
<1>11. ASSUME WriterStops(c) PROVE OutInv'
  <2>1. /\ loop[c] # "exit" /\ loop' = [loop EXCEPT ![c] = "transport"]
        /\ UNCHANGED <<outbound, due, wire, hand, ender>>
        /\ closed' = [closed EXCEPT ![c] = TRUE]
    BY <1>11 DEF WriterStops
  <2>2. Others(c)
    BY <1>2, <2>1 DEF Others, ClientTypes
  <2>3. closed' \in [Clients -> BOOLEAN] /\ \A d \in Clients : closed[d] => closed'[d]
    BY <1>2, <2>1 DEF ClientTypes
  <2> QED
    BY <1>2, <2>1, <2>2, <2>3, WriterLeaves DEF ClientTypes
<1> QED
  BY <1>4, <1>5, <1>6, <1>9, <1>10, <1>11 DEF WriteLoop

-----------------------------------------------------------------------------
(* The steps of those who send to the client and close it.                 *)

LEMMA OutInitially == OutboundInit => OutInv
<1> SUFFICES ASSUME OutboundInit PROVE OutInv
  OBVIOUS
<1> USE DEF OutboundInit
<1>1. ClientTypes
  <2>1. <<>> \in Seq(Sized) /\ <<>> \in Seq(Mail)
    OBVIOUS
  <2>2. "poll" \in Places
    BY DEF Places
  <2>3. "reading" \in CloseStages /\ "idle" \in CloseStages
    BY DEF CloseStages
  <2> QED
    BY <2>1, <2>2, <2>3, EmptyHand DEF ClientTypes
<1>2. EndInv
  BY DEF EndInv
<1>3. Lines
  BY DEF Lines, Ordered, InLine, Begins, Reached, Upcoming
<1> QED
  BY <1>1, <1>2, <1>3 DEF OutInv

\* A step of a goroutine that closes c.
LEMMA CloserKeeps ==
  ASSUME OutInv, NEW k \in Closers, NEW c \in Clients, NEW to \in CloseStages,
         ender' = [ender EXCEPT ![k][c] = to],
         to \in {"transport", "wait", "done"} => closed'[c],
         to = "done" => loop[c] = "exit",
         closed' \in [Clients -> BOOLEAN], \A d \in Clients : closed[d] => closed'[d],
         UNCHANGED <<outbound, due, wire, loop, hand>>
  PROVE  OutInv'
<1>1. Lines'
  BY LinesKept DEF OutInv
<1>2. ClientTypes'
  BY DEF ClientTypes, OutInv
<1>3. EndInv'
  <2> SUFFICES ASSUME NEW j \in Closers, NEW d \in Clients
               PROVE  /\ ender'[j][d] \in {"transport", "wait", "done"} => closed'[d]
                      /\ ender'[j][d] = "done" => loop[d] = "exit"
    BY DEF EndInv
  <2>1. ender'[j][d] = IF j = k /\ d = c THEN to ELSE ender[j][d]
    BY DEF OutInv, ClientTypes
  <2>2. /\ ender[j][d] \in {"transport", "wait", "done"} => closed[d]
        /\ ender[j][d] = "done" => loop[d] = "exit"
    BY DEF OutInv, EndInv
  <2> QED
    BY <2>1, <2>2
<1> QED
  BY <1>1, <1>2, <1>3 DEF OutInv

LEMMA CloseClientKeeps ==
  ASSUME OutInv, NEW k \in Closers, NEW c \in Clients, CloseClient(k, c)
  PROVE  OutInv'
<1> USE DEF AtCloser
<1>1. ClientTypes /\ \A d \in Clients : closed[d] \in BOOLEAN
  BY DEF OutInv, ClientTypes
<1>2. ASSUME Stop(k, c) PROVE OutInv'
  <2>1. /\ ender' = [ender EXCEPT ![k][c] = "transport"] /\ closed' = [closed EXCEPT ![c] = TRUE]
        /\ UNCHANGED <<outbound, due, wire, loop, hand>>
    BY <1>2 DEF Stop
  <2>2. closed' \in [Clients -> BOOLEAN] /\ \A d \in Clients : closed[d] => closed'[d]
    BY <1>1, <2>1 DEF ClientTypes
  <2>3. closed'[c]
    BY <1>1, <2>1 DEF ClientTypes
  <2>4. "transport" \in CloseStages /\ "transport" # "done"
    BY DEF CloseStages
  <2> QED
    BY <2>1, <2>2, <2>3, <2>4, CloserKeeps
<1>3. ASSUME CloseTransport(k, c) \/ AwaitWriter(k, c) PROVE OutInv'
  <2>1. PICK to \in {"wait", "done"} : ender' = [ender EXCEPT ![k][c] = to]
                                       /\ (to = "done" => loop[c] = "exit")
    BY <1>3 DEF CloseTransport, AwaitWriter
  <2>2. /\ ender[k][c] \in {"transport", "wait"}
        /\ UNCHANGED <<outbound, due, wire, loop, hand, closed>>
    BY <1>3 DEF CloseTransport, AwaitWriter
  <2>3. closed[c] /\ closed \in [Clients -> BOOLEAN]
    BY <1>1, <2>2 DEF OutInv, EndInv, ClientTypes
  <2>4. closed'[c] /\ closed' \in [Clients -> BOOLEAN]
        /\ \A d \in Clients : closed[d] => closed'[d]
    BY <2>2, <2>3
  <2>5. to \in CloseStages
    BY DEF CloseStages
  <2> QED
    BY <2>1, <2>2, <2>4, <2>5, CloserKeeps
<1> QED
  BY <1>2, <1>3 DEF CloseClient

\* A batch, from either of those who send, is accepted, or the client is to be closed.
LEMMA SendKeeps ==
  ASSUME OutInv, NEW c \in Clients, NEW sizes \in Seq(Nat), NEW k \in Closers,
         \/ Enqueue(c, sizes) /\ UNCHANGED ender
         \/ ender' = [ender EXCEPT ![k][c] = "stop"] /\ UNCHANGED <<outbound, due>>,
         UNCHANGED <<loop, hand, wire, closed>>
  PROVE  OutInv'
<1>1. CASE Enqueue(c, sizes) /\ UNCHANGED ender
  <2>1. Lines' /\ outbound' \in [Clients -> Seq(Sized)] /\ due' \in [Clients -> Seq(Mail)]
    BY <1>1, EnqueueKeeps DEF OutInv
  <2>2. ClientTypes'
    BY <1>1, <2>1 DEF ClientTypes, OutInv
  <2>3. EndInv'
    BY <1>1 DEF EndInv, OutInv
  <2> QED
    BY <2>1, <2>2, <2>3 DEF OutInv
<1>2. CASE ender' = [ender EXCEPT ![k][c] = "stop"] /\ UNCHANGED <<outbound, due>>
  <2>1. closed' \in [Clients -> BOOLEAN] /\ \A d \in Clients : closed[d] => closed'[d]
    BY DEF OutInv, ClientTypes
  <2>2. "stop" \in CloseStages /\ "stop" \notin {"transport", "wait", "done"} /\ "stop" # "done"
    BY DEF CloseStages
  <2> QED
    BY <1>2, <2>1, <2>2, CloserKeeps
<1> QED
  BY <1>1, <1>2

LEMMA OutKept ==
  OutInv /\ UNCHANGED <<outbound, due, wire, loop, hand, closed, ender>> => OutInv'
<1> SUFFICES ASSUME OutInv, UNCHANGED <<outbound, due, wire, loop, hand, closed, ender>>
             PROVE  OutInv'
  OBVIOUS
<1>1. Lines'
  BY LinesKept DEF OutInv
<1> QED
  BY <1>1 DEF OutInv, ClientTypes, EndInv

LEMMA OutStepwise ==
  ASSUME OutInv, [OutboundNext]_outboundVars
  PROVE  OutInv'
<1> USE DEF AtCloser
<1>1. /\ Controller \in Clients /\ Batches \subseteq Seq(Nat)
      /\ {"app", "hub", "requests", "reader"} = Closers
  BY LimitsAssumption, CloseOrderAssumption DEF Closers
<1>2. closed \in [Clients -> BOOLEAN]
  BY DEF OutInv, ClientTypes
<1>3. ASSUME NEW c \in Clients, CountBytes(c) PROVE OutInv'
  BY <1>3, OutKept DEF CountBytes
<1>4. ASSUME NEW c \in Clients, WriteLoop(c) PROVE OutInv'
  BY <1>4, WriteLoopKeeps
<1>5. ASSUME NEW c \in Clients,
             PeerGoes(c) \/ ReleaseOwner(c) \/ FinishRelease(c)
      PROVE  OutInv'
  <2>1. PICK to \in {"release", "finish", "stop"} : ender' = [ender EXCEPT !["reader"][c] = to]
    BY <1>5 DEF PeerGoes, ReleaseOwner, FinishRelease
  <2>2. UNCHANGED <<outbound, due, wire, loop, hand, closed>>
    BY <1>5 DEF PeerGoes, ReleaseOwner, FinishRelease
  <2>3. closed' \in [Clients -> BOOLEAN] /\ \A d \in Clients : closed[d] => closed'[d]
    BY <1>2, <2>2
  <2>4. to \in CloseStages /\ to \notin {"transport", "wait", "done"} /\ to # "done"
    BY DEF CloseStages
  <2>5. "reader" \in Closers
    BY <1>1
  <2> QED
    BY <2>1, <2>2, <2>3, <2>4, <2>5, CloserKeeps
<1>6. ASSUME NEW c \in Clients, NEW k \in Closers, CloseClient(k, c) PROVE OutInv'
  BY <1>6, CloseClientKeeps
<1>7. ASSUME NEW c \in Clients, NEW b \in Batches, Len(b) = 1, Broadcast(c, b[1])
      PROVE  OutInv'
  <2>1. <<b[1]>> \in Seq(Nat)
    <3>1. b \in Seq(Nat)
      BY <1>1
    <3>2. b[1] \in Nat
      BY <1>7, <3>1
    <3> QED
      BY <3>2
  <2> QED
    BY <1>1, <1>7, <2>1, SendKeeps DEF Broadcast
<1>8. ASSUME NEW b \in Batches, SendErrors(b) PROVE OutInv'
  <2>1. b \in Seq(Nat)
    BY <1>1
  <2> QED
    BY <1>1, <1>8, <2>1, SendKeeps DEF SendErrors
<1>9. CASE CloseAll
  <2>1. PICK c : c = CloseOrder[at]
    OBVIOUS
  <2>2. PICK to \in {"stop", "skipped"} : ender' = [ender EXCEPT !["app"][c] = to]
    BY <1>9, <2>1 DEF CloseAll
  <2>3. UNCHANGED <<outbound, due, wire, loop, hand, closed>>
    BY <1>9 DEF CloseAll, clientVars
  <2>4. CASE c \in Clients
    <3>1. closed' \in [Clients -> BOOLEAN] /\ \A d \in Clients : closed[d] => closed'[d]
      BY <1>2, <2>3
    <3>2. to \in CloseStages /\ to \notin {"transport", "wait", "done"} /\ to # "done"
      BY DEF CloseStages
    <3>3. "app" \in Closers
      BY <1>1
    <3> QED
      BY <2>2, <2>3, <2>4, <3>1, <3>2, <3>3, CloserKeeps
  <2>5. CASE c \notin Clients
    <3>1. ender' = ender
      BY <1>1, <2>2, <2>5 DEF OutInv, ClientTypes
    <3> QED
      BY <2>3, <3>1, OutKept
  <2> QED
    BY <2>4, <2>5
<1>10. CASE \/ AppBegins \/ LockConnMu \/ HubClosed \/ AppEnds \/ UNCHANGED outboundVars
            \/ \E x \in Calls : \/ CallWaits(x) \/ CallAnswered(x)
                                \/ CallGivesUp(x) \/ CancelCDPRequest(x)
  BY <1>10, OutKept
  DEF AppBegins, LockConnMu, HubClosed, AppEnds, outboundVars, clientVars,
      CallWaits, CallAnswered, CallGivesUp, CancelCDPRequest
<1> QED
  BY <1>3, <1>4, <1>5, <1>6, <1>7, <1>8, <1>9, <1>10 DEF OutboundNext, AppClose

LEMMA OutInvariance ==
  OutboundSpec => []OutInv
<1>1. OutInv /\ [OutboundNext]_outboundVars => OutInv'
  BY OutStepwise
<1> QED
  BY <1>1, OutInitially, PTL DEF OutboundSpec

\* wsClient.SendBatch and writeLoop: for any clients, batches and limits, what
\* the peer has received is the beginning of what was accepted, in order, and a
\* writer with nothing left to take has written all of it.
THEOREM BatchesGoWhole ==
  OutboundSpec => []WholeBatches
<1>1. OutInv => WholeBatches
  <2> SUFFICES ASSUME OutInv, NEW c \in Clients
               PROVE  /\ IsPrefix(wire[c], due[c])
                      /\ loop[c] = "wait" /\ outbound[c] = <<>> => wire[c] = due[c]
    BY DEF WholeBatches
  <2>1. wire[c] \in Seq(Mail) /\ due[c] \in Seq(Mail)
    BY DEF OutInv, ClientTypes
  <2>2. Begins(wire[c], due[c]) /\ Reached(loop[c], hand[c], outbound[c], due[c], wire[c])
    BY DEF OutInv, Lines, Ordered
  <2>3. loop[c] = "wait" /\ outbound[c] = <<>> => Len(wire[c]) = Len(due[c])
    BY <2>2 DEF Reached, Upcoming
  <2> QED
    BY <2>1, <2>2, <2>3, BeginIsPrefix
<1> QED
  BY <1>1, OutInvariance, PTL

\* A closed client whose writer has ended accepts nothing and writes nothing.
LEMMA EndedIsQuiet ==
  ASSUME OutInv, [OutboundNext]_outboundVars, NEW c \in Clients,
         closed[c], loop[c] = "exit"
  PROVE  UNCHANGED <<loop[c], wire[c], due[c]>>
<1> USE DEF AtCloser, AtWriter
<1>1. /\ loop \in [Clients -> Places] /\ wire \in [Clients -> Seq(Mail)]
      /\ due \in [Clients -> Seq(Mail)]
  BY DEF OutInv, ClientTypes
<1>2. ASSUME NEW d \in Clients, WriteLoop(d) PROVE UNCHANGED <<loop[c], wire[c], due[c]>>
  <2>1. d # c
    BY <1>2 DEF WriteLoop, Poll, EndWait, Receive, WriteMessage, WriteFails,
                Account, Report, WriterStops, WriterDone
  <2>2. /\ \E to : loop' = [loop EXCEPT ![d] = to]
        /\ UNCHANGED wire \/ \E w : wire' = [wire EXCEPT ![d] = w]
        /\ UNCHANGED due
    BY <1>2 DEF WriteLoop, Poll, EndWait, Receive, WriteMessage, WriteFails,
                Account, Report, WriterStops, WriterDone
  <2> QED
    BY <1>1, <2>1, <2>2
<1>3. ASSUME NEW d \in Clients, NEW sizes, Enqueue(d, sizes) \/ UNCHANGED due,
             UNCHANGED <<loop, wire>>
      PROVE  UNCHANGED <<loop[c], wire[c], due[c]>>
  <2>1. CASE UNCHANGED due
    BY <1>3, <2>1
  <2>2. CASE Enqueue(d, sizes)
    <3>1. d # c /\ \E a : due' = [due EXCEPT ![d] = a]
      BY <2>2 DEF Enqueue, Fits
    <3> QED
      BY <1>1, <1>3, <3>1
  <2> QED
    BY <1>3, <2>1, <2>2
<1>4. ASSUME NEW d \in Clients, NEW b \in Batches, Broadcast(d, b[1])
      PROVE  UNCHANGED <<loop[c], wire[c], due[c]>>
  BY <1>3, <1>4 DEF Broadcast
<1>5. ASSUME NEW b \in Batches, SendErrors(b)
      PROVE  UNCHANGED <<loop[c], wire[c], due[c]>>
  BY <1>3, <1>5, CloseOrderAssumption DEF SendErrors
<1>6. ASSUME NEW d \in Clients, NEW k \in Closers,
             \/ CountBytes(d) \/ PeerGoes(d) \/ ReleaseOwner(d) \/ FinishRelease(d)
             \/ CloseClient(k, d)
      PROVE  UNCHANGED <<loop, wire, due>>
  BY <1>6 DEF CountBytes, PeerGoes, ReleaseOwner, FinishRelease, CloseClient,
              Stop, CloseTransport, AwaitWriter
<1>7. CASE \/ AppBegins \/ AppClose \/ UNCHANGED outboundVars
           \/ \E x \in Calls : \/ CallWaits(x) \/ CallAnswered(x)
                               \/ CallGivesUp(x) \/ CancelCDPRequest(x)
  BY <1>7
  DEF AppBegins, AppClose, LockConnMu, CloseAll, HubClosed, AppEnds,
      outboundVars, clientVars, CallWaits, CallAnswered, CallGivesUp,
      CancelCDPRequest
<1>8. "app" \in Closers
  BY DEF Closers
<1> QED
  BY <1>2, <1>4, <1>5, <1>6, <1>7, <1>8 DEF OutboundNext

\* wsClient.Close: once it has returned to anyone, the client accepts nothing more
\* and its writer is no more, whoever else closes it and whoever still sends.
THEOREM QuietAfterCloseAlways ==
  OutboundSpec => QuietAfterClose
<1>1. OutInv /\ [OutboundNext]_outboundVars =>
        [\A c \in Clients : (\E k \in Closers : ender[k][c] = "done")
           => UNCHANGED <<loop[c], wire[c], due[c]>>]_outboundVars
  <2> SUFFICES ASSUME OutInv, [OutboundNext]_outboundVars,
                      NEW c \in Clients, NEW k \in Closers, ender[k][c] = "done"
               PROVE  UNCHANGED <<loop[c], wire[c], due[c]>>
    OBVIOUS
  <2>1. closed[c] /\ loop[c] = "exit"
    BY DEF OutInv, EndInv
  <2> QED
    BY <2>1, EndedIsQuiet
<1> QED
  BY <1>1, OutInvariance, PTL DEF OutboundSpec, QuietAfterClose
=============================================================================
