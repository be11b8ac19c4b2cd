-------------------------- MODULE SegmentedCapture --------------------------
(***************************************************************************)
(* The recorder of internal/capture/segmented.go: callers put frames in a  *)
(* bounded queue, one goroutine per recorder writes them to a temporary    *)
(* file and publishes a file when it is full or the recorder is closed.    *)
(* Recorders of one path follow each other, also after a crash.            *)
(*                                                                         *)
(* A file is the sequence of its frames; every frame takes one place of    *)
(* the SegmentMax a file has.  Any step that touches the disk may fail,    *)
(* whatever the reason: a frame too large for a file, no space, no access. *)
(***************************************************************************)
EXTENDS Naturals, Sequences, SequencesExt, FiniteSets

CONSTANTS
    Recorders,      \* calls of StartSegmented, numbered in their order
    Writers,        \* goroutines that call WriteFrame
    NoFrame, NoRecorder,
    QueueDepth, SegmentMax, RetainSegments,   \* SegmentOptions
    MaxFrames,      \* bound of the model: no WriteFrame begins after so many accepted frames
    MaxCrashes      \* bound of the model: crashes of the process

ASSUME CaptureAssumption ==
    /\ Recorders \subseteq Nat
    /\ NoFrame \notin Recorders \X Nat /\ NoRecorder \notin Recorders
    /\ QueueDepth \in Nat \ {0} /\ SegmentMax \in Nat \ {0} /\ RetainSegments \in Nat \ {0}
    /\ MaxFrames \in Nat /\ MaxCrashes \in Nat

VARIABLES
    run,        \* the goroutine of each recorder
    held,       \* the frame it has taken from the queue
    queue,      \* each recorder's channel
    closing,    \* recorders whose channel is closed
    err,        \* recorders with a sticky error
    temp,       \* the frames in each recorder's temporary file
    index,      \* each recorder's number of the last file
    accepted,   \* number of frames WriteFrame has accepted, by recorder
    writer,     \* the recorder a writer holds queueMu of, checks passed
    closer,     \* what callers of Close have been told, by recorder
    files,      \* the published files by their number
    lock,       \* the .lock file exists
    crashes

callVars == <<writer, closer, closing, accepted>>
diskVars == <<files, lock>>
vars == <<run, held, queue, err, temp, index, callVars, diskVars, crashes>>

Stages == {"idle", "rotate", "retain", "open", "write", "unlock"}
Alive == {r \in Recorders : run[r] \in Stages}
Numbers == DOMAIN files

Go(r, stage) == run' = [run EXCEPT ![r] = stage]
Fail(r) == err' = err \cup {r}

Init ==
    /\ run = [r \in Recorders |-> "none"]
    /\ held = [r \in Recorders |-> NoFrame]
    /\ queue = [r \in Recorders |-> <<>>]
    /\ closing = {} /\ err = {}
    /\ temp = [r \in Recorders |-> <<>>]
    /\ index = [r \in Recorders |-> 0]
    /\ accepted = [r \in Recorders |-> 0]
    /\ writer = [w \in Writers |-> NoRecorder]
    /\ closer = [r \in Recorders |-> "none"]
    /\ files = <<>> /\ lock = FALSE /\ crashes = 0

-----------------------------------------------------------------------------
(* Callers.                                                                *)

\* latestSegmentIndex.
Latest == IF Numbers = {} THEN 0 ELSE CHOOSE n \in Numbers : \A m \in Numbers : m <= n

\* StartSegmented; with the lock file there, it is ErrCaptureInUse.
Start(r) ==
    /\ run[r] = "none" /\ \A q \in Recorders : q < r => run[q] # "none"
    /\ ~lock
    /\ lock' = TRUE
    /\ index' = [index EXCEPT ![r] = Latest]
    /\ Go(r, "idle")
    /\ UNCHANGED <<held, queue, err, temp, callVars, files, crashes>>

\* WriteFrame takes queueMu for reading and checks the state of the recorder ...
WriteBegins(w, r) ==
    /\ writer[w] = NoRecorder /\ run[r] \in Stages \cup {"done"}
    /\ r \notin closing \cup err /\ accepted[r] < MaxFrames
    /\ writer' = [writer EXCEPT ![w] = r]
    /\ UNCHANGED <<run, held, queue, err, temp, index, closer, closing, accepted, diskVars,
                   crashes>>

\* ... and sends, or returns ErrCaptureBackpressure.
WriteSends(w) ==
    /\ writer[w] # NoRecorder
    /\ LET r == writer[w]
           room == Len(queue[r]) < QueueDepth
       IN  /\ queue' = [queue EXCEPT ![r] = IF room THEN Append(@, <<r, accepted[r] + 1>>) ELSE @]
           /\ accepted' = [accepted EXCEPT ![r] = IF room THEN @ + 1 ELSE @]
    /\ writer' = [writer EXCEPT ![w] = NoRecorder]
    /\ UNCHANGED <<run, held, err, temp, index, closer, closing, diskVars, crashes>>

\* Mutant of MayClose: Close does not take queueMu.
MayCloseAnyTime(r) == TRUE

\* queueMu is free for writing.
MayClose(r) == \A w \in Writers : writer[w] # r

\* Close, which may be called again after a timeout; once closes the channel.
CloseBegins(r) ==
    /\ run[r] \in Stages /\ closer[r] \in {"none", "timeout"}
    /\ r \notin closing => MayClose(r)
    /\ closing' = closing \cup {r}
    /\ closer' = [closer EXCEPT ![r] = "waiting"]
    /\ UNCHANGED <<run, held, queue, err, temp, index, writer, accepted, diskVars, crashes>>

CloseReturns(r) ==
    /\ closer[r] = "waiting" /\ run[r] = "done"
    /\ closer' = [closer EXCEPT ![r] = IF r \in err THEN "failed" ELSE "ok"]
    /\ UNCHANGED <<run, held, queue, err, temp, index, writer, closing, accepted, diskVars,
                   crashes>>

\* ErrCloseDrainTimeout; the goroutine goes on.
CloseTimesOut(r) ==
    /\ closer[r] = "waiting" /\ run[r] # "done"
    /\ closer' = [closer EXCEPT ![r] = "timeout"]
    /\ UNCHANGED <<run, held, queue, err, temp, index, writer, closing, accepted, diskVars,
                   crashes>>

-----------------------------------------------------------------------------
(* The goroutine of a recorder.                                            *)

RunKept == UNCHANGED <<callVars, crashes>>

\* Where a frame leads: rotation, a new file, or the open one.
Destination(r) ==
    IF temp[r] = <<>> THEN "open" ELSE IF Len(temp[r]) = SegmentMax THEN "rotate" ELSE "write"

\* Mutant of Take: a failed recorder does not empty its queue.
TakeUnlessFailed(r) ==
    /\ run[r] = "idle" /\ queue[r] # <<>> /\ r \notin err
    /\ queue' = [queue EXCEPT ![r] = Tail(@)]
    /\ held' = [held EXCEPT ![r] = Head(queue[r])]
    /\ Go(r, Destination(r))
    /\ UNCHANGED <<err, temp, index, diskVars>> /\ RunKept

\* Mutant of Take: the error is not sticky.
TakeRegardless(r) ==
    /\ run[r] = "idle" /\ queue[r] # <<>>
    /\ queue' = [queue EXCEPT ![r] = Tail(@)]
    /\ held' = [held EXCEPT ![r] = Head(queue[r])]
    /\ Go(r, Destination(r))
    /\ UNCHANGED <<err, temp, index, diskVars>> /\ RunKept

\* The loop of run; after an error frames are discarded.
Take(r) ==
    /\ run[r] = "idle" /\ queue[r] # <<>>
    /\ queue' = [queue EXCEPT ![r] = Tail(@)]
    /\ IF r \in err THEN UNCHANGED <<run, held>>
       ELSE held' = [held EXCEPT ![r] = Head(queue[r])] /\ Go(r, Destination(r))
    /\ UNCHANGED <<err, temp, index, diskVars>> /\ RunKept

\* writeRequest returns an error, before it rotates for a frame larger than a
\* file, in openSegment or later; the frame is lost, the open file stays.
StepFails(r) ==
    /\ run[r] \in {"rotate", "open", "write"}
    /\ Fail(r) /\ Go(r, "idle")
    /\ held' = [held EXCEPT ![r] = NoFrame]
    /\ \/ run[r] = "open" /\ index' = [index EXCEPT ![r] = @ + 1]
       \/ UNCHANGED index
    /\ UNCHANGED <<queue, temp, diskVars>> /\ RunKept

\* finishSegment up to the rename: the file is published or given up.
Publish(r) ==
    /\ temp' = [temp EXCEPT ![r] = <<>>]
    /\ \/ /\ files' = [n \in Numbers \cup {index[r]} |->
                          IF n = index[r] THEN temp[r] ELSE files[n]]
          /\ Go(r, "retain")
          /\ UNCHANGED <<held, err>>
       \/ /\ Fail(r)
          /\ Go(r, IF run[r] = "rotate" THEN "idle" ELSE "unlock")
          /\ held' = [held EXCEPT ![r] = NoFrame]
          /\ UNCHANGED files

Rotate(r) ==
    /\ run[r] = "rotate" /\ Publish(r)
    /\ UNCHANGED <<queue, index, lock>> /\ RunKept

Newest(k) == {n \in Numbers : Cardinality({m \in Numbers : m > n}) < k}

\* retainSegments: removes the oldest files; it may fail on the way.
Retain(r) ==
    /\ run[r] = "retain"
    /\ \E k \in RetainSegments..(Cardinality(Numbers) + RetainSegments) :
         /\ files' = [n \in Newest(k) |-> files[n]]
         /\ IF k = RetainSegments
            THEN Go(r, IF held[r] # NoFrame THEN "open" ELSE "unlock") /\ UNCHANGED <<err, held>>
            ELSE /\ Fail(r) /\ k <= Cardinality(Numbers)
                 /\ Go(r, IF held[r] # NoFrame THEN "idle" ELSE "unlock")
                 /\ held' = [held EXCEPT ![r] = NoFrame]
    /\ UNCHANGED <<queue, temp, index, lock>> /\ RunKept

Open(r) ==
    /\ run[r] = "open"
    /\ index' = [index EXCEPT ![r] = @ + 1]
    /\ Go(r, "write")
    /\ UNCHANGED <<held, queue, err, temp, diskVars>> /\ RunKept

Write(r) ==
    /\ run[r] = "write"
    /\ temp' = [temp EXCEPT ![r] = Append(@, held[r])]
    /\ held' = [held EXCEPT ![r] = NoFrame]
    /\ Go(r, "idle")
    /\ UNCHANGED <<queue, err, index, diskVars>> /\ RunKept

\* Mutant of Finish: the last file is not published.
FinishAborts(r) ==
    /\ run[r] = "idle" /\ r \in closing /\ queue[r] = <<>>
    /\ Go(r, "unlock") /\ temp' = [temp EXCEPT ![r] = <<>>]
    /\ UNCHANGED <<held, err, queue, index, diskVars>> /\ RunKept

\* The channel is closed and empty: finishSegment or, after an error,
\* abortSegment.
Finish(r) ==
    /\ run[r] = "idle" /\ r \in closing /\ queue[r] = <<>>
    /\ IF r \notin err /\ temp[r] # <<>> THEN Publish(r)
       ELSE /\ Go(r, "unlock") /\ temp' = [temp EXCEPT ![r] = <<>>]
            /\ UNCHANGED <<held, err, files>>
    /\ UNCHANGED <<queue, index, lock>> /\ RunKept

\* The deferred function of run.
Unlock(r) ==
    /\ run[r] = "unlock"
    /\ lock' = FALSE
    /\ Go(r, "done")
    /\ Fail(r) \/ UNCHANGED err
    /\ UNCHANGED <<held, queue, temp, index, files>> /\ RunKept

-----------------------------------------------------------------------------
(* The process crashes; the lock file stays until somebody removes it.     *)

Crash ==
    /\ crashes < MaxCrashes /\ Alive # {}
    /\ crashes' = crashes + 1
    /\ run' = [r \in Recorders |-> IF r \in Alive THEN "crashed" ELSE run[r]]
    /\ held' = [r \in Recorders |-> NoFrame]
    /\ queue' = [r \in Recorders |-> <<>>] /\ temp' = [r \in Recorders |-> <<>>]
    /\ writer' = [w \in Writers |-> NoRecorder]
    /\ closer' = [r \in Recorders |-> IF r \in Alive THEN "crashed" ELSE closer[r]]
    /\ UNCHANGED <<err, index, closing, accepted, diskVars>>

RemoveLock ==
    /\ lock /\ Alive = {}
    /\ lock' = FALSE
    /\ UNCHANGED <<run, held, queue, err, temp, index, callVars, files, crashes>>

-----------------------------------------------------------------------------

RunStep(r) ==
    \/ Take(r) \/ StepFails(r) \/ Rotate(r) \/ Retain(r) \/ Open(r) \/ Write(r) \/ Finish(r)
    \/ Unlock(r)

Next ==
    \/ \E r \in Recorders :
         \/ Start(r) \/ CloseBegins(r) \/ CloseReturns(r) \/ CloseTimesOut(r) \/ RunStep(r)
    \/ \E w \in Writers : WriteSends(w) \/ \E r \in Recorders : WriteBegins(w, r)
    \/ Crash \/ RemoveLock

\* The goroutine runs, a caller that waits is woken, and a writer never blocks.
Fairness ==
    /\ \A r \in Recorders : WF_vars(RunStep(r)) /\ WF_vars(CloseReturns(r))
    /\ \A w \in Writers : WF_vars(WriteSends(w))

SafetySpec == Init /\ [][Next]_vars
Spec == SafetySpec /\ Fairness

-----------------------------------------------------------------------------
(* Properties.                                                             *)

\* Recorders number the frames they accept from 1.
Frames == Recorders \X (Nat \ {0})

\* Every field is in its range, no file is longer than SegmentMax and no queue
\* than QueueDepth.
TypeOK ==
    /\ run \in [Recorders -> Stages \cup {"none", "done", "crashed"}]
    /\ held \in [Recorders -> Frames \cup {NoFrame}]
    /\ {queue, temp} \subseteq [Recorders -> Seq(Frames)]
    /\ \A r \in Recorders : Len(queue[r]) <= QueueDepth /\ Len(temp[r]) <= SegmentMax
    /\ \A n \in Numbers :
         n \in Nat \ {0} /\ files[n] \in Seq(Frames) /\ Len(files[n]) \in 1..SegmentMax
    /\ closing \subseteq Recorders /\ err \subseteq Recorders
    /\ {index, accepted} \subseteq [Recorders -> Nat]
    /\ writer \in [Writers -> Recorders \cup {NoRecorder}]
    /\ closer \in [Recorders -> {"none", "waiting", "ok", "failed", "timeout", "crashed"}]
    /\ lock \in BOOLEAN /\ crashes \in 0..MaxCrashes

\* Nobody is about to send on a closed channel, which would be a panic.
NoSendOnClosed == \A w \in Writers : writer[w] \notin closing

\* One recorder at a time works on the path, as long as it works it holds the
\* lock: Close may have given up on it, the next one still has to wait.
OneWriter ==
    /\ \A r \in Alive : lock
    /\ \A q, r \in Alive : q = r

\* The frame of a recorder that comes after f.
After(f) == <<f[1], f[2] + 1>>

\* Replay reads the files in the order of their numbers.  Whatever failed or
\* crashed: what it reads of one recorder is an unbroken part of what that
\* recorder accepted, recorders do not mix, and what is written next fits on.
ReplayInOrder ==
    /\ \A n \in Numbers : \A i \in 1..(Len(files[n]) - 1) : files[n][i + 1] = After(files[n][i])
    /\ \A m, n \in Numbers :
         m < n /\ (\A k \in Numbers : k <= m \/ n <= k) =>
             LET f == Last(files[m])  g == Head(files[n])
             IN  g = After(f) \/ (f[1] < g[1] /\ g[2] = 1)
    /\ \A r \in Recorders : temp[r] # <<>> =>
         \A n \in Numbers :
            Last(files[n])[1] = r /\ n = Latest => Head(temp[r]) = After(Last(files[n]))

\* The frames of r that a replay would find.
Stored == UNION {{files[n][i] : i \in 1..Len(files[n])} : n \in Numbers}
Recorded(r) == {f[2] : f \in {g \in Stored : g[1] = r}}

\* When Close has returned no error, everything the recorder ever accepted is
\* in the files; only what retention removed, the oldest, is missing.
CloseIsDurable ==
    \A r \in Recorders : closer[r] = "ok" =>
        \E k \in 1..(accepted[r] + 1) :
            /\ Recorded(r) = k..accepted[r]
            /\ k > 1 => Cardinality(Numbers) >= RetainSegments

\* Close does not need its timeout: the goroutine empties the queue and ends.
CloseIsAnswered ==
    \A r \in Recorders : (closer[r] = "waiting") ~> (closer[r] # "waiting")
=============================================================================
