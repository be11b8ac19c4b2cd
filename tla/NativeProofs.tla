---------------------------- MODULE NativeProofs ----------------------------
(***************************************************************************)
(* Proofs about the native session.  NativeDevice, for any number of       *)
(* Frida's threads, sessions and messages and any capacity of the queues:  *)
(* nothing is taken apart while a callback uses it, no control message and *)
(* no wake-up for one is lost, and the status between operations agrees    *)
(* with the session.  NativeInstall, at the end: the cache the DLL of the  *)
(* session comes from.                                                     *)
(***************************************************************************)
EXTENDS NativeDevice, NativeInstall, TLAPS

-----------------------------------------------------------------------------
(* The inductive invariant, in parts that share few variables.             *)

InUse == {"open", "closing"}
Carried == Message \cup {NoMessage}
ThreadPlaces == {"out", "check", "dispatch", "mark", "control", "wake", "inline"}
AnySession == Sessions \cup {NoSession}

\* The operations' own variables.
OpTypes ==
    /\ attempt \in Sessions /\ cur \in AnySession /\ fresh \in AnySession
    /\ failed \in BOOLEAN
    /\ script \in [Sessions -> Owner] /\ sess \in [Sessions -> Owner]

\* Which sessions and scripts there are, by the place of the operation.
SlotInv ==
    /\ \A s \in Sessions : script[s] \in InUse => sess[s] = "open"
    /\ \A s \in Sessions : sess[s] \in InUse => s = cur \/ s = fresh
    /\ at = "unload" => cur # NoSession
    /\ fresh # NoSession =>
         cur = NoSession /\ at \in {"load", "loading", "unloading", "detach", "detaching"}
    /\ at \in {"load", "loading"} => fresh # NoSession
    /\ at \in {"unloading", "detach", "detaching"} => Victim # NoSession
    /\ at \in {"attach", "device", "drain", "closed"} => cur = NoSession
    /\ at = "load" => script[fresh] \notin InUse
    /\ at \in {"detach", "detaching"} => script[Victim] \notin InUse
    /\ Victim # NoSession /\ at # "detaching" => sess[Victim] = "open"

\* What the status says, by the place of the operation.
StatusInv ==
    /\ op \in {"close", "start"} => ~attached
    /\ at \in {"device", "drain", "closed"} => op \in {"close", "start"}
    /\ at \in {"attach", "load", "loading"} => op \in {"start", "attach"}
    /\ at = "resolve" => op = "attach"
    /\ at \in {"unload", "unloading", "detach", "detaching"} =>
         op \in {"start", "attach", "detach", "close"}
    /\ at = "report" => /\ op \in {"start", "attach", "detach"}
                        /\ ~failed => (cur # NoSession <=> op # "detach")
    /\ at = "free" => (attached <=> cur # NoSession)

\* A callback is inside an owner that is still there.
CallInv ==
    /\ thread \in [Threads -> ThreadPlaces] /\ carries \in [Threads -> Carried]
    /\ made \in Nat
    /\ \A t \in Threads : thread[t] # "out" =>
         /\ carries[t] \in Message
         /\ IF carries[t].kind = "detached" THEN sess[carries[t].from] \in InUse
            ELSE script[carries[t].from] \in InUse

\* The queues and the goroutine that empties them.
RunnerInv ==
    /\ controlQueue \in Seq(Message) /\ messageQueue \in Seq(Message)
    /\ draining => closed
    /\ runner = "select" /\ draining => controlQueue = <<>>
    /\ runner = "done" => closed /\ messageQueue = <<>> /\ controlQueue = <<>>
    /\ runner \notin {"account", "deliver"} => held = NoMessage
    /\ late = 0 \/ (late = 1 /\ runner = "control" /\ controlQueue # <<>>)
    /\ runner \in {"poll", "select"} /\ ~draining /\ controlQueue # <<>> =>
         controlWake \/ \E t \in Threads : thread[t] = "wake"

ReleaseInv == released => at = "closed" /\ runner = "done"

IInv == OpTypes /\ SlotInv /\ StatusInv /\ CallInv /\ RunnerInv /\ ReleaseInv

-----------------------------------------------------------------------------
(* Initial states.                                                         *)

\* A device that has just been opened satisfies it.
LEMMA InitIInv == Init => IInv
<1> SUFFICES ASSUME Init PROVE IInv
    OBVIOUS
<1> USE DeviceAssumption DEF Init, NoSession, InUse, Victim
<1>1. OpTypes
    <2>1. 1 \in Sessions
        BY DEF Sessions
    <2>2. QED
        BY <2>1 DEF OpTypes, AnySession, Owner
<1>2. SlotInv /\ StatusInv
    BY DEF SlotInv, StatusInv, Sessions
<1>3. CallInv
    BY DEF CallInv, ThreadPlaces, Carried
<1>4. RunnerInv /\ ReleaseInv
    BY DEF RunnerInv, ReleaseInv
<1>5. QED
    BY <1>1, <1>2, <1>3, <1>4 DEF IInv

-----------------------------------------------------------------------------
(* Steps of the operations.                                                *)

OpAction == BeginAttach \/ BeginDetach \/ BeginClose \/ OpStep

\* Sessions and status follow the operations.
LEMMA OpKeepsSlots ==
    ASSUME OpTypes, SlotInv, StatusInv, OpAction
    PROVE  OpTypes' /\ SlotInv' /\ StatusInv'
<1> USE DEF OpTypes, SlotInv, StatusInv, Victim, NoSession, InUse, Owner, AnySession
<1>0. NoSession \notin Sessions
    BY DEF Sessions
<1>1. CASE BeginAttach
    <2>1. attempt + 1 \in Sessions
        BY <1>1, DeviceAssumption DEF BeginAttach, Sessions
    <2>2. QED
        BY <1>0, <1>1, <2>1 DEF BeginAttach, Begin, ownerVars
<1>2. CASE BeginDetach
    BY <1>0, <1>2 DEF BeginDetach, Begin, ownerVars
<1>3. CASE BeginClose
    BY <1>0, <1>3 DEF BeginClose, Begin, ownerVars
<1>4. CASE Resolve
    BY <1>0, <1>4 DEF Resolve, ownerVars
<1>5. CASE Unload
    BY <1>0, <1>5 DEF Unload
<1>6. CASE Unloaded
    BY <1>0, <1>6 DEF Unloaded
<1>7. CASE Detach
    BY <1>0, <1>7 DEF Detach
<1>8. CASE Detached
    BY <1>0, <1>8 DEF Detached, AfterDetach
<1>9. CASE Attach
    BY <1>0, <1>9 DEF Attach
<1>10. CASE Load
    BY <1>0, <1>10 DEF Load
<1>11. CASE Loaded
    BY <1>0, <1>11 DEF Loaded
<1>12. CASE Report
    BY <1>0, <1>12 DEF Report, ownerVars
<1>13. CASE CloseDevice
    BY <1>0, <1>13 DEF CloseDevice, ownerVars
<1>14. CASE Release
    BY <1>0, <1>14 DEF Release, ownerVars
<1>15. QED
    BY <1>1, <1>2, <1>3, <1>4, <1>5, <1>6, <1>7, <1>8, <1>9, <1>10, <1>11, <1>12, <1>13, <1>14
    DEF OpAction, OpStep

\* A callback inside an owner keeps it from going: Unloaded and Detached wait.
LEMMA OpKeepsCalls ==
    ASSUME OpTypes, SlotInv, CallInv, OpAction
    PROVE  CallInv'
<1> USE DEF CallInv, InUse
<1>0. UNCHANGED <<made, thread, carries>>
    BY DEF OpAction, OpStep, BeginAttach, BeginDetach, BeginClose, Resolve, Unload, Unloaded,
           Detach, Detached, Attach, Load, Loaded, Report, CloseDevice, Release, OpKept,
           threadVars
<1>1. CASE UNCHANGED <<script, sess>>
    BY <1>0, <1>1
<1>2. CASE Unload
    BY <1>0, <1>2 DEF Unload, OpTypes, Message
<1>3. CASE Unloaded
    BY <1>0, <1>3 DEF Unloaded, InScript, Inside, OpTypes, Message
<1>4. CASE Detach
    BY <1>0, <1>4 DEF Detach, OpTypes, Message
<1>5. CASE Detached
    BY <1>0, <1>5 DEF Detached, InSession, Inside, OpTypes, Message
<1>6. CASE Attach
    BY <1>0, <1>6 DEF Attach, OpTypes, Message
<1>7. CASE Load
    BY <1>0, <1>7 DEF Load, OpTypes, Message
<1>8. CASE Loaded
    BY <1>0, <1>8 DEF Loaded, OpTypes, Message
<1>9. QED
    BY <1>1, <1>2, <1>3, <1>4, <1>5, <1>6, <1>7, <1>8
    DEF OpAction, OpStep, BeginAttach, BeginDetach, BeginClose, Resolve, Report, CloseDevice,
        Release, ownerVars

\* The operations do not touch queues and runner; CloseDevice closes.
LEMMA OpKeepsRunner ==
    ASSUME RunnerInv, ReleaseInv, OpAction
    PROVE  RunnerInv' /\ ReleaseInv'
<1>1. UNCHANGED <<controlQueue, messageQueue, controlWake, runner, draining, held, late, thread>>
    BY DEF OpAction, OpStep, BeginAttach, BeginDetach, BeginClose, Resolve, Unload, Unloaded,
           Detach, Detached, Attach, Load, Loaded, Report, CloseDevice, Release, OpKept,
           threadVars, queueVars, runVars
<1>2. closed => closed'
    BY DEF OpAction, OpStep, BeginAttach, BeginDetach, BeginClose, Resolve, Unload, Unloaded,
           Detach, Detached, Attach, Load, Loaded, Report, CloseDevice, Release
<1>3. ReleaseInv'
    BY <1>1
    DEF ReleaseInv, OpAction, OpStep, BeginAttach, BeginDetach, BeginClose, Resolve, Unload,
        Unloaded, Detach, Detached, Attach, Load, Loaded, Report, CloseDevice, Release
<1>4. QED
    BY <1>1, <1>2, <1>3 DEF RunnerInv

-----------------------------------------------------------------------------
(* Steps of Frida's threads and of the queue goroutine.                    *)

\* A callback that is let in finds its owner open; those inside stay there.
LEMMA ThreadKeepsCalls ==
    ASSUME CallInv, NEW t \in Threads,
           ThreadStep(t) \/ (\E s \in Sessions, k \in Kinds : Enter(t, s, k))
    PROVE  CallInv'
<1> USE DEF CallInv, InUse
<1>1. CASE ThreadStep(t)
    <2>1. UNCHANGED <<made, script, sess>> /\ \E p \in ThreadPlaces : Goes(t, p)
        BY <1>1 DEF ThreadStep, Check, Dispatch, Mark, DispatchControl, Wake, Inline, ThreadKept,
                    ThreadPlaces
    <2>2. thread[t] # "out"
        BY <1>1 DEF ThreadStep, Check, Dispatch, Mark, DispatchControl, Wake, Inline
    <2>3. PICK p \in ThreadPlaces : Goes(t, p)
        BY <2>1
    <2>4. QED
        BY <2>1, <2>2, <2>3 DEF Goes, Carried
<1>2. ASSUME NEW s \in Sessions, NEW k \in Kinds, Enter(t, s, k) PROVE CallInv'
    <2> DEFINE m == [no |-> made + 1, kind |-> k, from |-> s]
    <2>1. made + 1 \in 1..MaxMessages /\ m \in Message
        BY <1>2, DeviceAssumption DEF Enter, Message
    <2>2. /\ carries' = [carries EXCEPT ![t] = m] /\ made' = made + 1
          /\ \E p \in ThreadPlaces : thread' = [thread EXCEPT ![t] = p]
          /\ UNCHANGED <<script, sess>>
          /\ IF k = "detached" THEN sess[s] = "open" ELSE script[s] = "open"
        BY <1>2 DEF Enter, ThreadKept, ThreadPlaces, Kinds
    <2>3. QED
        BY <2>1, <2>2 DEF Carried
<1>3. QED
    BY <1>1, <1>2

\* A control message that is queued behind the runner's back has its wake-up;
\* a closed device takes no more messages.
LEMMA ThreadKeepsRunner ==
    ASSUME CallInv, RunnerInv, NEW t \in Threads,
           ThreadStep(t) \/ (\E s \in Sessions, k \in Kinds : Enter(t, s, k))
    PROVE  RunnerInv'
<1> USE DEF RunnerInv, CallInv, ThreadKept
<1>1. CASE Check(t)
    BY <1>1 DEF Check, Goes, queueVars
<1>2. CASE Dispatch(t)
    <2>1. messageQueue' \in Seq(Message) /\ (closed => messageQueue' = messageQueue)
        <3>1. \/ ~closed /\ messageQueue' = Append(messageQueue, carries[t])
              \/ messageQueue' = messageQueue
            BY <1>2 DEF Dispatch
        <3>2. carries[t] \in Message
            BY <1>2 DEF Dispatch
        <3>3. QED
            BY <3>1, <3>2
    <2>2. /\ thread[t] = "dispatch" /\ thread' = [thread EXCEPT ![t] = "out"]
          /\ UNCHANGED <<controlQueue, controlWake, late, runner, draining, held, closed>>
        BY <1>2 DEF Dispatch, Goes
    <2>3. QED
        BY <2>1, <2>2
<1>3. CASE Mark(t)
    BY <1>3 DEF Mark, Goes, queueVars
<1>4. CASE DispatchControl(t)
    <2>1. CASE ~closed /\ Len(controlQueue) < ControlQueue
        <3>1. /\ controlQueue' = Append(controlQueue, carries[t]) /\ carries[t] \in Message
              /\ thread' = [thread EXCEPT ![t] = "wake"]
              /\ UNCHANGED <<messageQueue, controlWake, late, runner, draining, held, closed>>
            BY <1>4, <2>1 DEF DispatchControl, Goes
        <3> HIDE DEF Message
        <3>3. controlQueue' \in Seq(Message) /\ controlQueue' # <<>>
            BY <3>1
        <3>2. QED
            BY <2>1, <3>1, <3>3
    <2>2. CASE ~(~closed /\ Len(controlQueue) < ControlQueue)
        BY <1>4, <2>2 DEF DispatchControl, Goes
    <2>3. QED
        BY <2>1, <2>2
<1>5. CASE Wake(t)
    BY <1>5 DEF Wake, Goes
<1>6. CASE Inline(t)
    BY <1>6 DEF Inline, Goes, queueVars
<1>7. ASSUME NEW s \in Sessions, NEW k \in Kinds, Enter(t, s, k) PROVE RunnerInv'
    BY <1>7 DEF Enter, queueVars
<1>8. QED
    BY <1>1, <1>2, <1>3, <1>4, <1>5, <1>6, <1>7 DEF ThreadStep

\* The runner sleeps only when no control message waits without a wake-up, and
\* ends only when nothing is left.
LEMMA RunnerKeepsRunner == ASSUME RunnerInv, RunnerStep PROVE RunnerInv'
<1> USE DEF RunnerInv, RunKept, threadVars
<1>1. CASE TakeControl
    BY <1>1 DEF TakeControl
<1>2. CASE NoControl
    BY <1>2 DEF NoControl, queueVars
<1>3. CASE Poll
    BY <1>3 DEF Poll, queueVars
<1>4. CASE TakeData
    BY <1>4 DEF TakeData
<1>5. CASE Woken
    BY <1>5 DEF Woken
<1>6. CASE Stopped
    BY <1>6 DEF Stopped, queueVars
<1>7. CASE Account
    BY <1>7 DEF Account
<1>8. CASE Deliver
    BY <1>8 DEF Deliver, queueVars
<1>9. CASE Drained
    BY <1>9 DEF Drained, queueVars
<1>10. QED
    BY <1>1, <1>2, <1>3, <1>4, <1>5, <1>6, <1>7, <1>8, <1>9 DEF RunnerStep

-----------------------------------------------------------------------------

\* Threads and runner leave the operations' variables alone.
LEMMA SlotsKept ==
    ASSUME OpTypes, SlotInv, StatusInv, UNCHANGED <<opVars, script, sess>>
    PROVE  OpTypes' /\ SlotInv' /\ StatusInv'
  BY DEF OpTypes, SlotInv, StatusInv, Victim, opVars

\* Every step preserves the invariant.
LEMMA NextIInv == IInv /\ [Next]_vars => IInv'
<1> SUFFICES ASSUME IInv, [Next]_vars PROVE IInv'
    OBVIOUS
<1> USE DEF IInv
<1>1. CASE UNCHANGED vars
    BY <1>1, SlotsKept
    DEF vars, opVars, ownerVars, threadVars, queueVars, runVars, CallInv, RunnerInv, ReleaseInv
<1>2. CASE OpAction
    BY <1>2, OpKeepsSlots, OpKeepsCalls, OpKeepsRunner
<1>3. ASSUME NEW t \in Threads,
             ThreadStep(t) \/ (\E s \in Sessions, k \in Kinds : Enter(t, s, k))
      PROVE  IInv'
    <2>1. UNCHANGED <<opVars, script, sess, runner, released>>
        BY <1>3 DEF ThreadStep, Enter, Check, Dispatch, Mark, DispatchControl, Wake, Inline,
                    ThreadKept
    <2>2. ReleaseInv'
        BY <2>1 DEF ReleaseInv, opVars
    <2>3. QED
        BY <1>3, <2>1, <2>2, SlotsKept, ThreadKeepsCalls, ThreadKeepsRunner
<1>4. CASE RunnerStep
    <2>1. UNCHANGED <<opVars, ownerVars, threadVars, closed, released>>
        BY <1>4 DEF RunnerStep, TakeControl, NoControl, Poll, TakeData, Woken, Stopped, Account,
                    Deliver, Drained, RunKept
    <2>2. CallInv'
        BY <2>1 DEF CallInv, ownerVars, threadVars
    <2>3. ReleaseInv'
        BY <1>4, <2>1 DEF ReleaseInv, opVars, RunnerStep, TakeControl, NoControl, Poll, TakeData,
                          Woken, Stopped, Account, Deliver, Drained
    <2>4. QED
        BY <1>4, <2>1, <2>2, <2>3, SlotsKept, RunnerKeepsRunner DEF ownerVars
<1>5. QED
    BY <1>1, <1>2, <1>3, <1>4 DEF Next, OpAction

THEOREM Invariance == SafetySpec => []IInv
  BY InitIInv, NextIInv, PTL DEF SafetySpec

-----------------------------------------------------------------------------
(* The properties.                                                         *)

\* Unload, Detach, Close and the callback owners: callbacks run only while what
\* they were given is there, and nothing is left when the DLL is released.
THEOREM TeardownSafe == SafetySpec => []TeardownOrder
<1>1. IInv => TeardownOrder
    <2> SUFFICES ASSUME IInv PROVE TeardownOrder
        OBVIOUS
    <2> USE DEF IInv, InUse
    <2>1. ASSUME NEW t \in Inside
          PROVE  /\ sess[carries[t].from] # "gone"
                 /\ carries[t].kind # "detached" => script[carries[t].from] # "gone"
        BY <2>1 DEF CallInv, SlotInv, Inside, Message
    <2>2. CASE released
        <3>1. cur = NoSession /\ fresh = NoSession
            BY <2>2 DEF ReleaseInv, SlotInv
        <3>2. \A s \in Sessions : sess[s] \notin InUse /\ script[s] \notin InUse
            BY <3>1 DEF SlotInv, Sessions, NoSession
        <3>3. \A s \in Sessions : {script[s], sess[s]} \subseteq {"none", "gone"}
            BY <3>2 DEF OpTypes, Owner
        <3>4. Inside = {}
            BY <3>2 DEF CallInv, Inside, Message
        <3>5. runner = "done" /\ messageQueue = <<>> /\ controlQueue = <<>> /\ held = NoMessage
            BY <2>2 DEF ReleaseInv, RunnerInv
        <3>6. QED
            BY <2>1, <3>3, <3>4, <3>5 DEF TeardownOrder
    <2>3. QED
        BY <2>1, <2>2 DEF TeardownOrder
<1>2. QED
    BY <1>1, Invariance, PTL

\* dispatchControl and runMessageQueue: a control message is overtaken by one
\* data message at most, and its wake-up is never lost.
THEOREM ControlPrompt == SafetySpec => []ControlFirst
<1>1. IInv => ControlFirst
    BY DEF IInv, RunnerInv, ControlFirst
<1>2. QED
    BY <1>1, Invariance, PTL

\* Attach, Detach and Close, whatever fails on their way: the status is what
\* the session is, and no session is left but the one it speaks of.
THEOREM StatusAgrees == SafetySpec => []StatusTrue
<1>1. IInv => StatusTrue
    <2> SUFFICES ASSUME IInv, at \in {"free", "closed"} PROVE StatusTrue
        BY DEF StatusTrue
    <2>1. attached <=> cur # NoSession
        BY DEF IInv, StatusInv, SlotInv
    <2>2. \A s \in Sessions : sess[s] = "open" <=> s = cur
        BY DEF IInv, SlotInv, Victim, InUse, Sessions, NoSession
    <2>3. QED
        BY <2>1, <2>2 DEF StatusTrue
<1>2. QED
    BY <1>1, Invariance, PTL

-----------------------------------------------------------------------------
(* No control message is lost.                                             *)

\* Only data goes the way on which messages are dropped, and a closed device has
\* no session any more.
PathInv ==
    /\ \A t \in Threads : thread[t] \in {"check", "dispatch"} => carries[t].kind = "data"
    /\ closed => at \in {"drain", "closed"}

LEMMA PathNext == IInv /\ PathInv /\ [Next]_vars => PathInv'
<1> SUFFICES ASSUME IInv, PathInv, [Next]_vars PROVE PathInv'
    OBVIOUS
<1> USE DEF PathInv
<1>1. CASE UNCHANGED vars
    BY <1>1 DEF vars, opVars, threadVars
<1>2. CASE OpAction
    <2>1. UNCHANGED <<thread, carries>>
        BY <1>2 DEF OpAction, OpStep, BeginAttach, BeginDetach, BeginClose, Resolve, Unload,
                    Unloaded, Detach, Detached, Attach, Load, Loaded, Report, CloseDevice,
                    Release, OpKept, threadVars
    <2>2. CASE CloseDevice \/ Release
        BY <2>1, <2>2 DEF CloseDevice, Release
    <2>3. CASE ~(CloseDevice \/ Release)
        <3>1. closed' = closed /\ at \notin {"drain", "closed"}
            BY <1>2, <2>3 DEF OpAction, OpStep, BeginAttach, BeginDetach, BeginClose, Resolve,
                    Unload, Unloaded, Detach, Detached, Attach, Load, Loaded, Report
        <3>2. QED
            BY <2>1, <3>1
    <2>4. QED
        BY <2>2, <2>3
<1>3. ASSUME NEW t \in Threads, ThreadStep(t) PROVE PathInv'
    <2>1. /\ UNCHANGED <<at, closed>> /\ \E p \in ThreadPlaces : Goes(t, p)
          /\ thread[t] # "check" => ~Goes(t, "dispatch")
        BY <1>3 DEF ThreadStep, Check, Dispatch, Mark, DispatchControl, Wake, Inline, ThreadKept,
                    opVars, ThreadPlaces, Goes, IInv, CallInv
    <2>2. \A p : Goes(t, p) => p # "check"
        BY <1>3 DEF ThreadStep, Check, Dispatch, Mark, DispatchControl, Wake, Inline, Goes, IInv,
                    CallInv
    <2>3. QED
        BY <2>1, <2>2 DEF Goes, IInv, CallInv
<1>4. ASSUME NEW t \in Threads, NEW s \in Sessions, NEW k \in Kinds, Enter(t, s, k) PROVE PathInv'
    BY <1>4 DEF Enter, ThreadKept, opVars, IInv, CallInv, Kinds
<1>5. CASE RunnerStep
    BY <1>5 DEF RunnerStep, TakeControl, NoControl, Poll, TakeData, Woken, Stopped, Account,
                Deliver, Drained, RunKept, opVars, threadVars
<1>6. QED
    BY <1>1, <1>2, <1>3, <1>4, <1>5 DEF Next, OpAction

\* A closed device has no callback inside: its sessions were taken apart first.
LEMMA ClosedIsQuiet == ASSUME IInv, PathInv, closed PROVE \A t \in Threads : thread[t] = "out"
<1>1. cur = NoSession /\ fresh = NoSession
    BY DEF IInv, PathInv, SlotInv
<1>2. \A s \in Sessions : sess[s] \notin InUse /\ script[s] \notin InUse
    BY <1>1 DEF IInv, SlotInv, Sessions, NoSession, InUse
<1>3. QED
    BY <1>2 DEF IInv, CallInv, Message

\* What is in a queue when a message comes and when one is taken.
LEMMA QueueElements ==
    /\ \A q \in Seq(Message), m \in Message : Elements(q) \cup {m} \subseteq Elements(Append(q, m))
    /\ \A q \in Seq(Message) : q # <<>> => Elements(q) \subseteq {Head(q)} \cup Elements(Tail(q))
<1>1. ASSUME NEW q \in Seq(Message), NEW m \in Message, NEW e \in Elements(q) \cup {m}
      PROVE  e \in Elements(Append(q, m))
    <2>1. CASE e = m
        <3>1. Append(q, m)[Len(q) + 1] = m /\ Len(q) + 1 \in 1..Len(Append(q, m))
            OBVIOUS
        <3>2. QED
            BY <2>1, <3>1 DEF Elements
    <2>2. CASE e \in Elements(q)
        <3>1. PICK i \in 1..Len(q) : q[i] = e
            BY <2>2 DEF Elements
        <3>2. Append(q, m)[i] = e /\ i \in 1..Len(Append(q, m))
            BY <3>1
        <3>3. QED
            BY <3>2 DEF Elements
    <2>3. QED
        BY <2>1, <2>2
<1>2. ASSUME NEW q \in Seq(Message), q # <<>>, NEW e \in Elements(q), e # Head(q)
      PROVE  e \in Elements(Tail(q))
    <2>1. PICK i \in 1..Len(q) : q[i] = e
        BY DEF Elements
    <2>2. i # 1
        BY <1>2, <2>1
    <2>3. Tail(q)[i - 1] = e /\ i - 1 \in 1..Len(Tail(q))
        BY <1>2, <2>1, <2>2
    <2>4. QED
        BY <2>3 DEF Elements
<1>3. QED
    BY <1>1, <1>2

\* Where a message on its way is, before and after a step.
ByThread(m) == \E t \in Threads : thread[t] \notin {"out", "wake"} /\ carries[t] = m

LEMMA WayIs ==
    ASSUME NEW m
    PROVE  /\ m \in OnTheWay <=> \/ ByThread(m) \/ m \in Elements(messageQueue)
                                 \/ m \in Elements(controlQueue) \/ (m = held /\ m # NoMessage)
           /\ m \in OnTheWay' <=> \/ ByThread(m)' \/ m \in Elements(messageQueue)'
                                  \/ m \in Elements(controlQueue)' \/ (m = held' /\ m # NoMessage)
  BY DEF OnTheWay, ByThread, Inside

\* One of Frida's threads moves on.
LEMMA ThreadKeepsWay ==
    ASSUME IInv, PathInv, NEW t \in Threads, ThreadStep(t),
           NEW m \in OnTheWay, m \notin OnTheWay', IsControl(m)
    PROVE  m \in Arriving
<1> USE DEF IInv, CallInv, RunnerInv
<1>1. held' = held /\ (\E p \in ThreadPlaces : Goes(t, p))
    BY DEF ThreadStep, Check, Dispatch, Mark, DispatchControl, Wake, Inline, ThreadKept,
           ThreadPlaces
<1>2. thread[t] # "out" /\ carries[t] \in Message
    BY DEF ThreadStep, Check, Dispatch, Mark, DispatchControl, Wake, Inline
<1>3. /\ Elements(messageQueue) \subseteq Elements(messageQueue)'
      /\ Elements(controlQueue) \subseteq Elements(controlQueue)'
    <2>1. /\ messageQueue' = messageQueue \/ messageQueue' = Append(messageQueue, carries[t])
          /\ controlQueue' = controlQueue \/ controlQueue' = Append(controlQueue, carries[t])
        BY DEF ThreadStep, Check, Dispatch, Mark, DispatchControl, Wake, Inline, queueVars
    <2>2. Elements(messageQueue) \subseteq Elements(messageQueue)'
        <3>1. /\ messageQueue' = messageQueue => Elements(messageQueue)' = Elements(messageQueue)
              /\ messageQueue' = Append(messageQueue, carries[t])
                   => Elements(messageQueue)' = Elements(Append(messageQueue, carries[t]))
            BY DEF Elements
        <3>2. QED
            BY <1>2, <2>1, <3>1, QueueElements
    <2>3. Elements(controlQueue) \subseteq Elements(controlQueue)'
        <3>1. /\ controlQueue' = controlQueue => Elements(controlQueue)' = Elements(controlQueue)
              /\ controlQueue' = Append(controlQueue, carries[t])
                   => Elements(controlQueue)' = Elements(Append(controlQueue, carries[t]))
            BY DEF Elements
        <3>2. QED
            BY <1>2, <2>1, <3>1, QueueElements
    <2>4. QED
        BY <2>2, <2>3
<1>4. ByThread(m) /\ m \notin Elements(controlQueue)'
    BY <1>1, <1>3, WayIs
<1>5. ~ByThread(m)'
    BY WayIs
<1>6. PICK u \in Threads : thread[u] \notin {"out", "wake"} /\ carries[u] = m
    BY <1>4 DEF ByThread
<1>7. u = t
    BY <1>1, <1>5, <1>6 DEF ByThread, Goes
<1>8. thread[t] \notin {"check", "dispatch"}
    BY <1>6, <1>7 DEF PathInv, IsControl
<1>9. CASE Mark(t)
    BY <1>5, <1>6, <1>7, <1>9 DEF Mark, Goes, ByThread
<1>10. CASE DispatchControl(t)
    <2>1. ~closed
        BY <1>2, ClosedIsQuiet
    <2>2. CASE Len(controlQueue) < ControlQueue
        <3>1. controlQueue' = Append(controlQueue, m)
            BY <1>6, <1>7, <1>10, <2>1, <2>2 DEF DispatchControl
        <3>2. m \in Elements(controlQueue)'
            BY <1>2, <1>6, <1>7, <3>1, QueueElements DEF Elements
        <3>3. QED
            BY <1>4, <3>2
    <2>3. CASE ~(Len(controlQueue) < ControlQueue)
        BY <1>5, <1>6, <1>7, <1>10, <2>1, <2>3 DEF DispatchControl, Goes, ByThread
    <2>4. QED
        BY <2>2, <2>3
<1>11. CASE Inline(t)
    BY <1>6, <1>7, <1>11 DEF Inline, Arriving
<1>12. QED
    BY <1>6, <1>7, <1>8, <1>9, <1>10, <1>11 DEF ThreadStep, Check, Dispatch, Wake

\* The goroutine moves on: what it takes it holds, what it held it delivers.
LEMMA RunnerKeepsWay ==
    ASSUME IInv, RunnerStep, NEW m \in OnTheWay, m \notin OnTheWay'
    PROVE  m \in Arriving
<1> USE DEF IInv, RunnerInv
<1>1. ByThread(m)' <=> ByThread(m)
    BY DEF RunnerStep, TakeControl, NoControl, Poll, TakeData, Woken, Stopped, Account, Deliver,
           Drained, RunKept, threadVars, ByThread
<1>2. CASE TakeControl
    <2>1. /\ controlQueue # <<>> /\ held = NoMessage /\ held' = Head(controlQueue)
          /\ controlQueue' = Tail(controlQueue) /\ messageQueue' = messageQueue
        BY <1>2 DEF TakeControl
    <2>2. Elements(controlQueue) \subseteq {held'} \cup Elements(controlQueue)'
        <3>1. Elements(controlQueue)' = Elements(Tail(controlQueue))
            BY <2>1 DEF Elements
        <3>2. QED
            BY <2>1, <3>1, QueueElements
    <2>3. held' # NoMessage
        BY <2>1, DeviceAssumption
    <2>4. Elements(messageQueue)' = Elements(messageQueue)
        BY <2>1 DEF Elements
    <2>5. QED
        BY <1>1, <2>1, <2>2, <2>3, <2>4, WayIs
<1>3. CASE TakeData
    <2>1. /\ messageQueue # <<>> /\ held = NoMessage /\ held' = Head(messageQueue)
          /\ messageQueue' = Tail(messageQueue) /\ controlQueue' = controlQueue
        BY <1>3 DEF TakeData
    <2>2. Elements(messageQueue) \subseteq {held'} \cup Elements(messageQueue)'
        <3>1. Elements(messageQueue)' = Elements(Tail(messageQueue))
            BY <2>1 DEF Elements
        <3>2. QED
            BY <2>1, <3>1, QueueElements
    <2>3. held' # NoMessage
        BY <2>1, DeviceAssumption
    <2>4. Elements(controlQueue)' = Elements(controlQueue)
        BY <2>1 DEF Elements
    <2>5. QED
        BY <1>1, <2>1, <2>2, <2>3, <2>4, WayIs
<1>4. CASE UNCHANGED <<messageQueue, controlQueue>>
    <2>1. /\ Elements(messageQueue)' = Elements(messageQueue)
          /\ Elements(controlQueue)' = Elements(controlQueue)
        BY <1>4 DEF Elements
    <2>2. m = held /\ held' # held
        BY <1>1, <2>1, WayIs
    <2>3. runner = "deliver"
        BY <1>4, <2>2 DEF RunnerStep, TakeControl, NoControl, Poll, TakeData, Woken, Stopped,
                          Account, Deliver, Drained
    <2>4. QED
        BY <2>2, <2>3 DEF Arriving
<1>5. QED
    BY <1>2, <1>3, <1>4 DEF RunnerStep, NoControl, Poll, Woken, Stopped, Account, Deliver, Drained,
                            queueVars

\* dispatchControl, runMessageQueue and drainMessageQueue: full queues, a session
\* that is taken apart and a device that closes lose no control message.
THEOREM ControlNeverLost == SafetySpec => ControlKept
<1> DEFINE Kept == \A m \in OnTheWay \ OnTheWay' : IsControl(m) => m \in Arriving
<1>1. IInv /\ PathInv /\ [Next]_vars => [Kept]_vars
    <2> SUFFICES ASSUME IInv, PathInv, Next, NEW m \in OnTheWay, m \notin OnTheWay', IsControl(m)
                 PROVE  m \in Arriving
        OBVIOUS
    <2>1. ~UNCHANGED <<threadVars, queueVars, runVars>>
        BY DEF OnTheWay, Inside, Elements, threadVars, queueVars, runVars
    <2>2. ~OpAction
        BY <2>1 DEF OpAction, OpStep, BeginAttach, BeginDetach, BeginClose, Resolve, Unload,
                    Unloaded, Detach, Detached, Attach, Load, Loaded, Report, CloseDevice,
                    Release, OpKept
    <2>3. ASSUME NEW t \in Threads, NEW s \in Sessions, NEW k \in Kinds, Enter(t, s, k)
          PROVE  FALSE
        <3>1. /\ ByThread(m) => ByThread(m)'
              /\ UNCHANGED <<messageQueue, controlQueue, held>>
            BY <2>3 DEF Enter, ByThread, ThreadKept, queueVars, IInv, CallInv
        <3>2. /\ Elements(messageQueue)' = Elements(messageQueue)
              /\ Elements(controlQueue)' = Elements(controlQueue)
            BY <3>1 DEF Elements
        <3>3. QED
            BY <3>1, <3>2, WayIs
    <2>4. QED
        BY <2>2, <2>3, ThreadKeepsWay, RunnerKeepsWay DEF Next, OpAction
<1>2. Init => PathInv
    BY DEF Init, PathInv
<1>3. QED
    BY <1>1, <1>2, PathNext, Invariance, PTL DEF SafetySpec, ControlKept

-----------------------------------------------------------------------------
(***************************************************************************)
(* The cache of the native runtime, for every set of processes, builds and *)
(* deaths.  The argument: the file lock makes the steps of one install     *)
(* follow each other, so that a process knows what is in the cache         *)
(* relative to what it found there; a process only installs over a cache   *)
(* that does not serve what it wants; and a DLL that is held open does not *)
(* change.                                                                 *)
(***************************************************************************)
Installing == {"locked", "missed", "staged", "manifestIn", "dllRefused", "returning"}

Holding == {"opened", "checked", "running"}

\* The process in an install is the one that has the lock.
LockInv == \A p \in Procs : pc[p] \in Installing <=> lock = p

\* What the holder of the lock knows of the files.
CacheInv ==
  \A p \in Procs :
    /\ pc[p] # "returning" => result[p] = "none"
    /\ pc[p] \in {"locked", "missed", "staged"} => before[p] = <<manifest, dll>>
    /\ pc[p] \in {"staged", "manifestIn", "dllRefused"} => old[p] = before[p][1]
    /\ pc[p] \in {"manifestIn", "dllRefused"} => manifest = Want[p] /\ before[p][2] = dll
    /\ pc[p] \in {"missed", "staged", "manifestIn", "dllRefused"} =>
         before[p] # <<Want[p], Want[p]>>
    /\ result[p] = "ok" => Ready(Want[p])
    /\ result[p] = "failed" => before[p] = <<manifest, dll>>

\* Nothing is vouched for while a manifest is in place without its DLL.
VouchedInv ==
  /\ \A v \in vouched : Ready(v)
  /\ \A p \in Procs : pc[p] \in {"manifestIn", "dllRefused"} => vouched = {}
  /\ \A p \in Procs : result[p] = "unrestored" => vouched = {}

\* A DLL that was checked under a lease stays what it was.
LeaseInv ==
  \A p \in Procs :
    /\ pc[p] \in Holding => p \in lease
    /\ pc[p] \in {"checked", "running"} => dll = Want[p]
    /\ pc[p] = "running" => loaded[p] = Want[p]

InstallInv == InstallTypeOK /\ LockInv /\ CacheInv /\ VouchedInv /\ LeaseInv

-----------------------------------------------------------------------------
\* What the assumptions say.
LEMMA InstallKnown ==
  /\ Want \in [Procs -> Versions] /\ MaxDeaths \in Nat
  /\ Missing \notin Versions /\ Junk \notin Versions /\ Missing # Junk
  /\ "free" \notin Procs
BY WantAssumption, FilesAssumption, MaxDeathsAssumption, FreeAssumption DEF Free

\* The invariant of the cache.
LEMMA InstallStarts ==
  InstallInit => InstallInv
BY InstallKnown DEF InstallInit, InstallInv, InstallTypeOK, LockInv, CacheInv, VouchedInv,
   LeaseInv, Installing, Holding, Places, Contents, Free

LEMMA InstallSteps ==
  InstallInv /\ [InstallNext]_installVars => InstallInv'
<1> SUFFICES ASSUME InstallInv, [InstallNext]_installVars PROVE InstallInv'
  OBVIOUS
<1> USE InstallKnown
<1> USE DEF InstallInv, InstallTypeOK, LockInv, CacheInv, VouchedInv, LeaseInv, Installing,
            Holding, Places, Contents, Ready, At, files, Free
<1>1. ASSUME NEW p \in Procs, Call(p) PROVE InstallInv'
  BY <1>1 DEF Call
<1>2. ASSUME NEW p \in Procs, AcquireLock(p) PROVE InstallInv'
  <2>1. InstallTypeOK'
    BY <1>2 DEF AcquireLock
  <2>2. LockInv'
    BY <1>2 DEF AcquireLock
  <2>3. CacheInv'
    BY <1>2 DEF AcquireLock
  <2>4. VouchedInv'
    BY <1>2 DEF AcquireLock
  <2>5. LeaseInv'
    BY <1>2 DEF AcquireLock
  <2> QED
    BY <2>1, <2>2, <2>3, <2>4, <2>5
<1>3. ASSUME NEW p \in Procs, GiveUpLock(p) PROVE InstallInv'
  BY <1>3 DEF GiveUpLock
<1>4. ASSUME NEW p \in Procs, VerifyCachedRuntime(p) PROVE InstallInv'
  <2>1. InstallTypeOK'
    <3>1. pc' \in [Procs -> Places] /\ UNCHANGED <<manifest, dll, lock, old, lease, loaded>>
      BY <1>4 DEF VerifyCachedRuntime
    <3>2. result' \in [Procs -> {"none", "ok", "failed", "unrestored"}]
      BY <1>4 DEF VerifyCachedRuntime
    <3>3. QED
      BY <1>4, <3>1, <3>2 DEF VerifyCachedRuntime
  <2>2. LockInv'
    BY <1>4 DEF VerifyCachedRuntime
  <2>3. CacheInv'
    BY <1>4 DEF VerifyCachedRuntime
  <2>4. VouchedInv'
    BY <1>4 DEF VerifyCachedRuntime
  <2>5. LeaseInv'
    BY <1>4 DEF VerifyCachedRuntime
  <2> QED
    BY <2>1, <2>2, <2>3, <2>4, <2>5
<1>5. ASSUME NEW p \in Procs, Stage(p) PROVE InstallInv'
  BY <1>5 DEF Stage
<1>6. ASSUME NEW p \in Procs, StageFails(p) PROVE InstallInv'
  BY <1>6 DEF StageFails
<1>7. ASSUME NEW p \in Procs, ReplaceManifest(p) PROVE InstallInv'
  <2>1. InstallTypeOK'
    BY <1>7 DEF ReplaceManifest
  <2>2. LockInv'
    BY <1>7 DEF ReplaceManifest
  <2>3. CacheInv'
    BY <1>7 DEF ReplaceManifest
  <2>4. VouchedInv'
    BY <1>7 DEF ReplaceManifest
  <2>5. LeaseInv'
    BY <1>7 DEF ReplaceManifest
  <2> QED
    BY <2>1, <2>2, <2>3, <2>4, <2>5
<1>8. ASSUME NEW p \in Procs, ReplaceDll(p) PROVE InstallInv'
  <2>1. InstallTypeOK'
    BY <1>8 DEF ReplaceDll, Replaceable
  <2>2. LockInv'
    BY <1>8 DEF ReplaceDll, Replaceable
  <2>3. CacheInv'
    BY <1>8 DEF ReplaceDll, Replaceable
  <2>4. VouchedInv'
    BY <1>8 DEF ReplaceDll, Replaceable
  <2>5. LeaseInv'
    BY <1>8 DEF ReplaceDll, Replaceable
  <2> QED
    BY <2>1, <2>2, <2>3, <2>4, <2>5
<1>9. ASSUME NEW p \in Procs, RestoreManifest(p) PROVE InstallInv'
  <2>1. InstallTypeOK'
    BY <1>9 DEF RestoreManifest
  <2>2. LockInv'
    BY <1>9 DEF RestoreManifest
  <2>3. CacheInv'
    BY <1>9 DEF RestoreManifest
  <2>4. VouchedInv'
    BY <1>9 DEF RestoreManifest
  <2>5. LeaseInv'
    BY <1>9 DEF RestoreManifest
  <2> QED
    BY <2>1, <2>2, <2>3, <2>4, <2>5
<1>10. ASSUME NEW p \in Procs, Unlock(p) PROVE InstallInv'
  <2>1. InstallTypeOK'
    BY <1>10 DEF Unlock
  <2>2. LockInv'
    BY <1>10 DEF Unlock
  <2>3. CacheInv'
    BY <1>10 DEF Unlock
  <2>4. VouchedInv'
    BY <1>10 DEF Unlock
  <2>5. LeaseInv'
    BY <1>10 DEF Unlock
  <2> QED
    BY <2>1, <2>2, <2>3, <2>4, <2>5
<1>11. ASSUME NEW p \in Procs, LoadManifest(p) PROVE InstallInv'
  BY <1>11 DEF LoadManifest
<1>12. ASSUME NEW p \in Procs, OpenTrustedRuntime(p) PROVE InstallInv'
  <2>1. InstallTypeOK'
    BY <1>12 DEF OpenTrustedRuntime
  <2>2. LockInv'
    BY <1>12 DEF OpenTrustedRuntime
  <2>3. CacheInv'
    BY <1>12 DEF OpenTrustedRuntime
  <2>4. VouchedInv'
    BY <1>12 DEF OpenTrustedRuntime
  <2>5. LeaseInv'
    BY <1>12 DEF OpenTrustedRuntime
  <2> QED
    BY <2>1, <2>2, <2>3, <2>4, <2>5
<1>13. ASSUME NEW p \in Procs, CheckNativeRuntime(p) PROVE InstallInv'
  <2>1. InstallTypeOK'
    BY <1>13 DEF CheckNativeRuntime
  <2>2. LockInv'
    BY <1>13 DEF CheckNativeRuntime
  <2>3. CacheInv'
    BY <1>13 DEF CheckNativeRuntime
  <2>4. VouchedInv'
    BY <1>13 DEF CheckNativeRuntime
  <2>5. LeaseInv'
    BY <1>13 DEF CheckNativeRuntime
  <2> QED
    BY <2>1, <2>2, <2>3, <2>4, <2>5
<1>14. ASSUME NEW p \in Procs, LoadRuntime(p) PROVE InstallInv'
  BY <1>14 DEF LoadRuntime
<1>15. ASSUME NEW p \in Procs, CloseRuntime(p) PROVE InstallInv'
  <2>1. InstallTypeOK'
    BY <1>15 DEF CloseRuntime
  <2>2. LockInv'
    BY <1>15 DEF CloseRuntime
  <2>3. CacheInv'
    BY <1>15 DEF CloseRuntime
  <2>4. VouchedInv'
    BY <1>15 DEF CloseRuntime
  <2>5. LeaseInv'
    BY <1>15 DEF CloseRuntime
  <2> QED
    BY <2>1, <2>2, <2>3, <2>4, <2>5
<1>16. ASSUME NEW p \in Procs, Die(p) PROVE InstallInv'
  <2>1. InstallTypeOK'
    BY <1>16 DEF Die
  <2>2. LockInv'
    BY <1>16 DEF Die
  <2>3. CacheInv'
    BY <1>16 DEF Die
  <2>4. VouchedInv'
    BY <1>16 DEF Die
  <2>5. LeaseInv'
    BY <1>16 DEF Die
  <2> QED
    BY <2>1, <2>2, <2>3, <2>4, <2>5
<1>17. CASE UNCHANGED installVars
  BY <1>17 DEF installVars
<1> QED
  BY <1>1, <1>2, <1>3, <1>4, <1>5, <1>6, <1>7, <1>8, <1>9, <1>10, <1>11, <1>12, <1>13, <1>14,
     <1>15, <1>16, <1>17 DEF InstallNext

-----------------------------------------------------------------------------
LEMMA InstallInvariance ==
  InstallSpec => []InstallInv
<1>1. QED
  BY InstallStarts, InstallSteps, PTL DEF InstallSpec

\* A path that Prepare returns is a cache that serves what was asked for, whatever
\* the cache held before and wherever earlier installs died.
THEOREM ReturnedIsWantedAlways ==
  InstallSpec => []ReturnedIsWanted
<1>1. InstallInv => ReturnedIsWanted
  BY DEF InstallInv, CacheInv, ReturnedIsWanted
<1> QED
  BY <1>1, InstallInvariance, PTL

\* A failed install leaves the cache as it found it.
THEOREM FailedInstallRestoresAlways ==
  InstallSpec => []FailedInstallRestores
<1>1. InstallInv => FailedInstallRestores
  BY DEF InstallInv, CacheInv, FailedInstallRestores
<1> QED
  BY <1>1, InstallInvariance, PTL

\* What Prepare has returned stays, until another build installs its own.
THEOREM VouchedStaysAlways ==
  InstallSpec => []VouchedStays
<1>1. InstallInv => VouchedStays
  BY DEF InstallInv, VouchedInv, VouchedStays
<1> QED
  BY <1>1, InstallInvariance, PTL

\* A session runs the code its build accepts.
THEOREM LoadedIsTrustedAlways ==
  InstallSpec => []LoadedIsTrusted
<1>1. InstallInv => LoadedIsTrusted
  BY DEF InstallInv, LeaseInv, LoadedIsTrusted
<1> QED
  BY <1>1, InstallInvariance, PTL
=============================================================================
