---------------------------- MODULE NativeDevice ----------------------------
(***************************************************************************)
(* The native session of the SDK (sdk/native_starter_windows.go and        *)
(* sdk/target.go) on the Frida device of internal/frida/native_windows.go. *)
(* Three kinds of actors meet: Frida's threads that call back with         *)
(* messages of a session, the goroutine runMessageQueue that hands them to *)
(* the handler, and the one operation (start, Attach, Detach, Close) that  *)
(* resourceMu and the session's mutex let run at a time.                   *)
(*                                                                         *)
(* Every message counts as one byte, so the budgets bound queue lengths;   *)
(* the C shim's callback owners, which count the calls inside and refuse   *)
(* new ones once they are closing, are the states of scripts and sessions. *)
(***************************************************************************)
EXTENDS Naturals, Sequences

CONSTANTS
    MaxAttaches,    \* bound of the model: attempts to attach, the start's first
    Threads,        \* Frida's threads
    NoMessage,
    MessageQueue, ControlQueue,     \* capacities (256 and 64 in the code)
    MaxMessages     \* bound of the model: messages Frida delivers

\* Every attempt to attach has a number, the session it may lead to has it too.
Sessions == 1..MaxAttaches
NoSession == 0

Kinds == {"data", "error", "detached"}
Message == [no : 1..MaxMessages, kind : Kinds, from : Sessions]
IsControl(m) == m.kind # "data"

ASSUME DeviceAssumption ==
    /\ MaxAttaches \in Nat \ {0}
    /\ MessageQueue \in Nat \ {0} /\ ControlQueue \in Nat \ {0}
    /\ MaxMessages \in Nat /\ NoMessage \notin Message

VARIABLES
    op, at,         \* the running operation and where it is
    attempt,        \* number of the last attempt to attach
    failed,         \* it returns an error
    cur,            \* n.session
    fresh,          \* the session an attach has not committed yet
    script, sess,   \* callback owners of each session's script and session
    terminal,       \* sessions with the terminal flag
    attached,       \* Service.nativeAttached
    made,           \* number of messages Frida has delivered
    thread, carries,    \* each thread and the message it carries
    messageQueue, messageQueueBytes, controlQueue, controlWake,
    closed,         \* the device is closed, messageStop with it
    runner, held,   \* runMessageQueue and the message it has taken
    draining,       \* it is in drainMessageQueue
    late,           \* data delivered since a control message waits
    released        \* mb_native_release was called

opVars == <<op, at, attempt, failed, cur, fresh, attached>>
ownerVars == <<script, sess, terminal>>
queueVars == <<messageQueue, messageQueueBytes, controlQueue, controlWake>>
threadVars == <<made, thread, carries>>
runVars == <<runner, draining, held, late>>
vars == <<opVars, ownerVars, threadVars, queueVars, runVars, closed, released>>

Inside == {t \in Threads : thread[t] # "out"}
InScript(s) == {t \in Inside : carries[t].from = s /\ carries[t].kind # "detached"}
InSession(s) == {t \in Inside : carries[t].from = s /\ carries[t].kind = "detached"}

Init ==
    /\ op = "start" /\ at = "attach" /\ attempt = 1 /\ failed = FALSE
    /\ cur = NoSession /\ fresh = NoSession /\ attached = FALSE
    /\ script = [s \in Sessions |-> "none"] /\ sess = [s \in Sessions |-> "none"]
    /\ terminal = {}
    /\ made = 0
    /\ thread = [t \in Threads |-> "out"] /\ carries = [t \in Threads |-> NoMessage]
    /\ messageQueue = <<>> /\ messageQueueBytes = 0
    /\ controlQueue = <<>> /\ controlWake = FALSE
    /\ closed = FALSE /\ released = FALSE
    /\ runner = "control" /\ draining = FALSE /\ held = NoMessage /\ late = 0

-----------------------------------------------------------------------------
(* Operations.                                                             *)

OpKept == UNCHANGED <<threadVars, queueVars, runVars>>

Begin(name, first) == op' = name /\ at' = first /\ failed' = FALSE

\* Service.Attach: AttachTarget enumerates the processes first.
BeginAttach ==
    /\ at = "free" /\ attempt < MaxAttaches /\ Begin("attach", "resolve")
    /\ attempt' = attempt + 1
    /\ UNCHANGED <<cur, fresh, attached, ownerVars, closed, released>> /\ OpKept

\* resolveTarget and addressConfig; an error leaves the old session alone.
Resolve ==
    /\ at = "resolve"
    /\ \/ at' = (IF cur = NoSession THEN "attach" ELSE "unload") /\ UNCHANGED failed
       \/ at' = "report" /\ failed' = TRUE
    /\ UNCHANGED <<op, attempt, cur, fresh, attached, ownerVars, closed, released>> /\ OpKept

\* Service.Detach returns at once when nothing is attached.
BeginDetach ==
    /\ at = "free" /\ attached
    /\ Begin("detach", IF cur = NoSession THEN "report" ELSE "unload")
    /\ UNCHANGED <<attempt, cur, fresh, attached, ownerVars, closed, released>> /\ OpKept

\* Service.shutdown clears the status, then closes the session.
BeginClose ==
    /\ at = "free" /\ Begin("close", IF cur = NoSession THEN "device" ELSE "unload")
    /\ attached' = FALSE
    /\ UNCHANGED <<attempt, cur, fresh, ownerVars, closed, released>> /\ OpKept

\* The session detachLocked, or a failed AttachTarget, takes apart.
Victim == IF fresh # NoSession THEN fresh ELSE cur

\* mb_script_unload closes the callback owner of the script ...
Unload ==
    /\ at = "unload" /\ at' = "unloading"
    /\ script' = [script EXCEPT ![Victim] = "closing"]
    /\ UNCHANGED <<op, attempt, failed, cur, fresh, attached, sess, terminal, closed, released>> /\ OpKept

\* Mutant of Unloaded: the unload does not wait for callbacks.
UnloadedAtOnce ==
    /\ at = "unloading" /\ at' = "detach"
    /\ script' = [script EXCEPT ![Victim] = "gone"]
    /\ failed' \in {failed, TRUE}
    /\ UNCHANGED <<op, attempt, cur, fresh, attached, sess, terminal, closed, released>> /\ OpKept

\* ... and waits for the callbacks inside; the unload itself may fail.
Unloaded ==
    /\ at = "unloading" /\ at' = "detach"
    /\ InScript(Victim) = {}
    /\ script' = [script EXCEPT ![Victim] = "gone"]
    /\ failed' \in {failed, TRUE}
    /\ UNCHANGED <<op, attempt, cur, fresh, attached, sess, terminal, closed, released>> /\ OpKept

\* NativeSession.Detach and mb_session_detach likewise.
Detach ==
    /\ at = "detach" /\ at' = "detaching"
    /\ terminal' = terminal \cup {Victim}
    /\ sess' = [sess EXCEPT ![Victim] = "closing"]
    /\ UNCHANGED <<op, attempt, failed, cur, fresh, attached, script, closed, released>> /\ OpKept

\* Where an operation goes on when a session is gone.
AfterDetach(f) ==
    CASE op \in {"close", "start"} -> "device"
      [] op = "attach" /\ ~f       -> "attach"
      [] OTHER                     -> "report"

Detached ==
    /\ at = "detaching"
    /\ InSession(Victim) = {}
    /\ sess' = [sess EXCEPT ![Victim] = "gone"]
    /\ failed' \in {failed, TRUE} /\ at' = AfterDetach(failed')
    /\ IF fresh # NoSession THEN fresh' = NoSession /\ UNCHANGED cur
       ELSE cur' = NoSession /\ UNCHANGED fresh
    /\ UNCHANGED <<op, attempt, attached, script, terminal, closed, released>> /\ OpKept

\* NativeDevice.Attach.
Attach ==
    /\ at = "attach"
    /\ \/ /\ sess' = [sess EXCEPT ![attempt] = "open"]
          /\ fresh' = attempt /\ at' = "load" /\ UNCHANGED failed
       \/ /\ failed' = TRUE /\ at' = (IF op = "start" THEN "device" ELSE "report")
          /\ UNCHANGED <<fresh, sess>>
    /\ UNCHANGED <<op, attempt, cur, attached, script, terminal, closed, released>> /\ OpKept

\* LoadScript refuses a session that Frida has detached.
Load ==
    /\ at = "load"
    /\ IF fresh \in terminal
       THEN failed' = TRUE /\ at' = "detach" /\ UNCHANGED script
       ELSE /\ script' = [script EXCEPT ![fresh] = "open"]
            /\ at' = "loading" /\ UNCHANGED failed
    /\ UNCHANGED <<op, attempt, cur, fresh, attached, sess, terminal, closed, released>> /\ OpKept

Loaded ==
    /\ at = "loading"
    /\ \/ /\ cur' = fresh /\ fresh' = NoSession /\ at' = "report"
          /\ UNCHANGED <<failed, script>>
       \/ /\ failed' = TRUE /\ at' = "unloading"
          /\ script' = [script EXCEPT ![fresh] = "closing"]
          /\ UNCHANGED <<cur, fresh>>
    /\ UNCHANGED <<op, attempt, attached, sess, terminal, closed, released>> /\ OpKept

\* Mutant of Report: a failed operation leaves the status alone.
ReportSuccessOnly ==
    /\ at = "report" /\ at' = "free" /\ op' = "none" /\ failed' = FALSE
    /\ attached' = IF failed THEN attached ELSE op # "detach"
    /\ UNCHANGED <<attempt, cur, fresh, ownerVars, closed, released>> /\ OpKept

\* Service.Attach and Detach update the status, after an error from what the
\* session says of itself, which is whether it has n.session.
Report ==
    /\ at = "report" /\ at' = "free" /\ op' = "none" /\ failed' = FALSE
    /\ attached' = IF failed THEN cur # NoSession ELSE op # "detach"
    /\ UNCHANGED <<attempt, cur, fresh, ownerVars, closed, released>> /\ OpKept

\* NativeDevice.Close up to close(messageStop) ...
CloseDevice ==
    /\ at = "device" /\ at' = "drain"
    /\ closed' = TRUE
    /\ UNCHANGED <<op, attempt, failed, cur, fresh, attached, ownerVars, released>> /\ OpKept

\* ... and from <-messageDone on.
Release ==
    /\ at = "drain" /\ at' = "closed"
    /\ runner = "done"
    /\ released' = TRUE
    /\ UNCHANGED <<op, attempt, failed, cur, fresh, attached, ownerVars, closed>> /\ OpKept

OpStep ==
    \/ Resolve \/ Unload \/ Unloaded \/ Detach \/ Detached \/ Attach \/ Load \/ Loaded
    \/ Report \/ CloseDevice \/ Release

-----------------------------------------------------------------------------
(* Frida's threads.                                                        *)

\* Mutant of DeviceFree: whoever takes a session apart holds the mutex meanwhile.
DeviceFreeUnlessDetaching == at \notin {"resolve", "attach", "unloading", "detaching"}

\* Enumerate and Attach hold the device's mutex during the call to Frida.
DeviceFree == at \notin {"resolve", "attach"}

ThreadKept == UNCHANGED <<opVars, script, sess, runner, draining, held, closed, released>>

\* mb_on_message, mb_on_detached: the owner lets the call in.  A session is
\* detached once.
Enter(t, s, kind) ==
    /\ thread[t] = "out" /\ made < MaxMessages
    /\ IF kind = "detached" THEN sess[s] = "open" /\ s \notin terminal /\ InSession(s) = {}
       ELSE script[s] = "open"
    /\ made' = made + 1
    /\ carries' = [carries EXCEPT ![t] = [no |-> made', kind |-> kind, from |-> s]]
    /\ thread' = [thread EXCEPT ![t] =
                     CASE kind = "data" -> "check" [] kind = "error" -> "control"
                       [] kind = "detached" -> "mark"]
    /\ UNCHANGED <<terminal, queueVars, late>> /\ ThreadKept

Goes(t, where) ==
    /\ thread' = [thread EXCEPT ![t] = where]
    /\ carries' = [carries EXCEPT ![t] = IF where = "out" THEN NoMessage ELSE @]

\* goFridaMessage: data of a detached session is dropped.
Check(t) ==
    /\ thread[t] = "check"
    /\ Goes(t, IF carries[t].from \in terminal THEN "out" ELSE "dispatch")
    /\ UNCHANGED <<made, terminal, queueVars, late>> /\ ThreadKept

\* NativeDevice.dispatch.
Dispatch(t) ==
    /\ thread[t] = "dispatch" /\ DeviceFree
    /\ IF ~closed /\ messageQueueBytes < MessageQueue
       THEN /\ messageQueue' = Append(messageQueue, carries[t])
            /\ messageQueueBytes' = messageQueueBytes + 1
       ELSE UNCHANGED <<messageQueue, messageQueueBytes>>
    /\ Goes(t, "out")
    /\ UNCHANGED <<made, terminal, controlQueue, controlWake, late>> /\ ThreadKept

\* goFridaDetached.
Mark(t) ==
    /\ thread[t] = "mark"
    /\ terminal' = terminal \cup {carries[t].from}
    /\ Goes(t, "control")
    /\ UNCHANGED <<made, queueVars, late>> /\ ThreadKept

\* Mutant of DispatchControl: a control message too many is dropped.
DispatchControlDrops(t) ==
    /\ thread[t] = "control" /\ DeviceFree
    /\ IF ~closed /\ Len(controlQueue) < ControlQueue
       THEN controlQueue' = Append(controlQueue, carries[t]) /\ Goes(t, "wake")
       ELSE Goes(t, "out") /\ UNCHANGED controlQueue
    /\ UNCHANGED <<made, terminal, messageQueue, messageQueueBytes, controlWake, late>>
    /\ ThreadKept

\* dispatchControl: with the queue full the message is delivered in place.
DispatchControl(t) ==
    /\ thread[t] = "control" /\ DeviceFree
    /\ IF ~closed /\ Len(controlQueue) < ControlQueue
       THEN controlQueue' = Append(controlQueue, carries[t]) /\ Goes(t, "wake")
       ELSE Goes(t, IF closed THEN "out" ELSE "inline") /\ UNCHANGED controlQueue
    /\ UNCHANGED <<made, terminal, messageQueue, messageQueueBytes, controlWake, late>>
    /\ ThreadKept

\* Mutant of Wake: nobody keeps the signal for a runner that is not waiting.
WakeUnbuffered(t) ==
    /\ thread[t] = "wake" /\ Goes(t, "out")
    /\ controlWake' = (controlWake \/ runner = "select")
    /\ UNCHANGED <<made, terminal, messageQueue, messageQueueBytes, controlQueue, late>>
    /\ ThreadKept

Wake(t) ==
    /\ thread[t] = "wake" /\ Goes(t, "out")
    /\ controlWake' = TRUE
    /\ UNCHANGED <<made, terminal, messageQueue, messageQueueBytes, controlQueue, late>>
    /\ ThreadKept

\* deliverMessage on Frida's thread.
Inline(t) ==
    /\ thread[t] = "inline" /\ DeviceFree
    /\ Goes(t, "out")
    /\ UNCHANGED <<made, terminal, queueVars, late>> /\ ThreadKept

ThreadStep(t) ==
    Check(t) \/ Dispatch(t) \/ Mark(t) \/ DispatchControl(t) \/ Wake(t) \/ Inline(t)

-----------------------------------------------------------------------------
(* runMessageQueue and drainMessageQueue.                                  *)

RunKept == UNCHANGED <<opVars, ownerVars, threadVars, closed, released>>

\* nextControl.
TakeControl ==
    /\ runner = "control" /\ controlQueue # <<>> /\ DeviceFree
    /\ held' = Head(controlQueue) /\ controlQueue' = Tail(controlQueue)
    /\ runner' = "deliver" /\ late' = 0
    /\ UNCHANGED <<draining, messageQueue, messageQueueBytes, controlWake>> /\ RunKept

NoControl ==
    /\ runner = "control" /\ controlQueue = <<>> /\ DeviceFree
    /\ runner' = IF draining THEN "select" ELSE "poll"
    /\ UNCHANGED <<draining, held, late, queueVars>> /\ RunKept

\* The select on messageStop, before the one that waits.
Poll ==
    /\ runner = "poll"
    /\ draining' = closed /\ runner' = IF closed THEN "control" ELSE "select"
    /\ UNCHANGED <<held, late, queueVars>> /\ RunKept

TakeData ==
    /\ runner = "select" /\ messageQueue # <<>>
    /\ held' = Head(messageQueue) /\ messageQueue' = Tail(messageQueue)
    /\ runner' = "account"
    /\ UNCHANGED <<draining, messageQueueBytes, controlQueue, controlWake, late>>
    /\ RunKept

Woken ==
    /\ runner = "select" /\ ~draining /\ controlWake
    /\ controlWake' = FALSE /\ runner' = "control"
    /\ UNCHANGED <<draining, held, late, messageQueue, messageQueueBytes, controlQueue>>
    /\ RunKept

Stopped ==
    /\ runner = "select" /\ ~draining /\ closed
    /\ draining' = TRUE /\ runner' = "control"
    /\ UNCHANGED <<held, late, queueVars>> /\ RunKept

\* accountNormalDequeue.
Account ==
    /\ runner = "account" /\ DeviceFree
    /\ messageQueueBytes' = messageQueueBytes - 1
    /\ runner' = "deliver"
    /\ UNCHANGED <<draining, held, late, messageQueue, controlQueue, controlWake>>
    /\ RunKept

\* deliverMessage.
Deliver ==
    /\ runner = "deliver" /\ DeviceFree
    /\ held' = NoMessage
    /\ late' = IF IsControl(held) \/ controlQueue = <<>> THEN 0 ELSE late + 1
    /\ runner' = "control"
    /\ UNCHANGED <<draining, queueVars>> /\ RunKept

\* The default of drainMessageQueue.
Drained ==
    /\ runner = "select" /\ draining /\ messageQueue = <<>>
    /\ runner' = "done"
    /\ UNCHANGED <<draining, held, late, queueVars>> /\ RunKept

RunnerStep ==
    \/ TakeControl \/ NoControl \/ Poll \/ TakeData \/ Woken \/ Stopped \/ Account \/ Deliver \/ Drained

-----------------------------------------------------------------------------

Next ==
    \/ BeginAttach \/ BeginDetach \/ BeginClose \/ OpStep \/ RunnerStep
    \/ \E t \in Threads : ThreadStep(t) \/ \E s \in Sessions, k \in Kinds : Enter(t, s, k)

\* Frida's calls return (they have a deadline), its callbacks and the handler
\* too.  (Attempts and messages are bounded: a thread that waits for another or
\* for the device's mutex has its turn.)
Fairness ==
    /\ WF_vars(OpStep) /\ WF_vars(RunnerStep)
    /\ WF_vars(\E t \in Threads : ThreadStep(t))

SafetySpec == Init /\ [][Next]_vars
Spec == SafetySpec /\ Fairness

-----------------------------------------------------------------------------
(* Properties.                                                             *)

Elements(q) == {q[i] : i \in 1..Len(q)}
Owner == {"none", "open", "closing", "gone"}

\* Every field is in its range; the queues and the byte count that guards one
\* of them stay within their budgets.
TypeOK ==
    /\ op \in {"none", "start", "attach", "detach", "close"}
    /\ at \in {"free", "resolve", "unload", "unloading", "detach", "detaching", "attach", "load",
               "loading", "report", "device", "drain", "closed"}
    /\ {failed, attached, controlWake, closed, draining, released} \subseteq BOOLEAN
    /\ {cur, fresh} \subseteq Sessions \cup {NoSession}
    /\ script \in [Sessions -> Owner] /\ sess \in [Sessions -> Owner]
    /\ attempt \in Sessions /\ terminal \subseteq Sessions /\ made \in 0..MaxMessages
    /\ thread \in [Threads -> {"out", "check", "dispatch", "mark", "control", "wake", "inline"}]
    /\ carries \in [Threads -> Message \cup {NoMessage}]
    /\ Elements(messageQueue) \cup Elements(controlQueue) \subseteq Message
    /\ messageQueueBytes = Len(messageQueue) + (IF runner = "account" THEN 1 ELSE 0)
    /\ messageQueueBytes <= MessageQueue /\ Len(controlQueue) <= ControlQueue
    /\ runner \in {"control", "poll", "select", "account", "deliver", "done"}
    /\ held \in Message \cup {NoMessage} /\ late \in Nat

\* What is taken apart is not in use any more.  Callbacks run only while the
\* owner they entered through is there, and with it the handle they were given;
\* when the DLL is released no session, callback, delivery or queued message is
\* left.
TeardownOrder ==
    /\ \A t \in Inside : LET s == carries[t].from
                         IN  /\ sess[s] # "gone"
                             /\ carries[t].kind # "detached" => script[s] # "gone"
    /\ released =>
         /\ \A s \in Sessions : {script[s], sess[s]} \subseteq {"none", "gone"}
         /\ Inside = {} /\ runner = "done"
         /\ messageQueue = <<>> /\ controlQueue = <<>> /\ held = NoMessage

\* Messages on their way to the handler, and those that reach it in this step.
OnTheWay ==
    {carries[t] : t \in {u \in Inside : thread[u] # "wake"}} \cup Elements(messageQueue)
        \cup Elements(controlQueue) \cup ({held} \ {NoMessage})
Arriving ==
    {m \in {held} : runner = "deliver"} \cup {carries[t] : t \in {u \in Threads : thread[u] = "inline"}}

\* A control message leaves its way only by being delivered: full queues, a
\* session that is taken apart and a device that closes notwithstanding.
ControlKept == [][\A m \in OnTheWay \ OnTheWay' : IsControl(m) => m \in Arriving]_vars

\* A control message waits for at most one data message, the one the select
\* had chosen already, and the goroutine never sleeps on it: whoever queued it
\* has left a signal or is about to.
ControlFirst ==
    /\ late <= 1
    /\ runner = "select" /\ ~draining /\ controlQueue # <<>> =>
         controlWake \/ \E t \in Threads : thread[t] = "wake"

\* Between operations the status says what the session is, also after an
\* Attach that failed once the old target was gone; and no session but n.session
\* is there.
StatusTrue ==
    at \in {"free", "closed"} =>
        /\ attached <=> cur # NoSession
        /\ \A s \in Sessions : sess[s] = "open" <=> s = cur

\* Close comes to its end, callbacks and the messages still queued included.
CloseEnds == (op = "close") ~> released

\* The public-go-sdk specification: after a detach or a failure no false
\* "attached" is left in the status.
DetachReported ==
    \A s \in Sessions : (s \in terminal /\ cur = s) ~> ~(attached /\ cur = s)
=============================================================================
